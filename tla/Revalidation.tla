---------------------------- MODULE Revalidation ----------------------------
(***************************************************************************)
(* One browser, several requests in flight at once, one or more replicas   *)
(* of the service, and an IdP that may rotate refresh tokens: what         *)
(* maybeRevalidate, its flights and the handlers' own session writes do to *)
(* one session between them.                                               *)
(*                                                                         *)
(* A request snapshots the browser's cookie when it is sent, is revalidated *)
(* when it arrives, and its Set-Cookie takes effect when the response is    *)
(* delivered; requests and responses overtake each other freely.  The      *)
(* flight group is the module Flights, one group per replica (the replica  *)
(* is part of the key), and a flight's fn is the two network calls of      *)
(* revalidateAtIdP, or the one of retryResolution.                         *)
(***************************************************************************)
EXTENDS Session

CONSTANTS
    Requests, Replicas,
    NoSession, Keep,            \* no cookie; a response without Set-Cookie
    Abandoned, NoAnswer,        \* see Flights
    RevalidateFlightRetention, RevalidateSharedTimeout,
    RotateRefreshTokens,        \* the realm's "Revoke Refresh Token"
    Faults,                     \* which of FaultKinds may happen
    Transit,                    \* bound: seconds a request may travel, and a response
    MaxToken, Start, MaxTime    \* bounds on rotations and on the clock

FaultKinds == {"outage", "lost", "panic", "cancel", "update", "access", "bare", "restart"}

ASSUME RevalidationAssumption ==
    /\ RotateRefreshTokens \in BOOLEAN
    /\ Faults \subseteq FaultKinds
    /\ RevalidateFlightRetention \in Nat /\ RevalidateFlightRetention > 0
    /\ RevalidateSharedTimeout \in Nat
    /\ Transit \in Nat /\ MaxToken \in Nat
    /\ Start \in Nat /\ Start > RevalidateInterval
    /\ NoToken \notin 0 .. MaxToken

VARIABLES
    now, calls, done, res, finished, pc, key, entered, joined, ret,  \* Flights
    jar,        \* the browser's session cookie
    step,       \* where each request is
    since,      \* when it began the leg of its journey it is on
    clk,        \* the clock its maybeRevalidate read
    body,       \* the payload it carried, then the one it is served with
    setCookie,  \* the session Set-Cookie of its response
    home,       \* the replica it went to
    got,        \* a leader's grant, while the resolver is being asked
    cur,        \* IdP: the refresh token that is live
    sso,        \* IdP: the SSO session exists
    ssoEnd,     \* when it ended
    spentBy,    \* IdP: which request spent a refresh token, and through what
    wronged,    \* revalidations refused while the SSO session existed, and the
                \* request that had spent their token
    forgotten   \* requests whose flight a restart of their replica lost

flightVars == <<now, calls, done, res, finished, pc, key, entered, joined, ret>>
requestVars == <<step, since, clk, body, setCookie, home, got>>
idpVars == <<cur, sso, ssoEnd, spentBy, wronged>>
vars == <<flightVars, requestVars, idpVars, jar, forgotten>>

Tokens == 0 .. MaxToken

Answer == [verdict : {"ok", "invalid", "error"}, rt : Tokens \cup {NoToken}, at : Nat,
           outcome : {"none", "applied", "soft", "ended"}]

Payload == [exp : Int, lv : Int, rra : Int, aut : Int, rt : Tokens, src : {"code"},
            from : SUBSET Requests]

\* No answer, no session and no Set-Cookie are none of the values they stand
\* beside.
ASSUME ValuesAssumption ==
    /\ Abandoned \notin Answer /\ NoAnswer \notin Answer /\ NoAnswer # Abandoned
    /\ NoSession \notin Payload /\ Keep \notin Payload /\ Keep # NoSession

\* Seeded fault: a key without the anchor, as if the token named the question.
FlightKeyTokenOnly(n, kind, p) == <<n, kind, p.rt, 0, 0>>

\* revalidateAtIdP and retryResolution: the parts of flightKey.
FlightKey(n, kind, p) ==
    <<n, kind, p.rt, p.lv, IF kind = "grant" THEN p.exp ELSE p.rra>>

F == INSTANCE Flights WITH Callers <- Requests, Answers <- Answer, Keys <- {}

-----------------------------------------------------------------------------

\* A session a second short of its floor.  from is no field of the cookie: it
\* names the flight whose answer last stamped it.
FirstCookie ==
    [exp |-> Start - RevalidateInterval + 1 + SessionTTL,
     lv |-> Start - RevalidateInterval + 1, rra |-> 0, aut |-> 0, rt |-> 0, src |-> "code",
     from |-> {}]

Init ==
    /\ now = Start
    /\ calls = {}
    /\ done = [c \in Requests |-> FALSE]
    /\ res = [c \in Requests |-> NoAnswer]
    /\ finished = [c \in Requests |-> 0]
    /\ pc = [c \in Requests |-> "idle"]
    /\ key = [c \in Requests |-> <<>>]
    /\ entered = [c \in Requests |-> 0]
    /\ joined = [c \in Requests |-> c]
    /\ ret = [c \in Requests |-> NoAnswer]
    /\ jar = FirstCookie
    /\ step = [c \in Requests |-> "idle"]
    /\ since = [c \in Requests |-> 0]
    /\ clk = [c \in Requests |-> 0]
    /\ body = [c \in Requests |-> NoSession]
    /\ setCookie = [c \in Requests |-> Keep]
    /\ home \in [Requests -> Replicas]
    /\ got = [c \in Requests |-> NoAnswer]
    /\ cur = 0 /\ sso = TRUE /\ ssoEnd = 0
    /\ spentBy = [t \in Tokens |-> {}]
    /\ wronged = {} /\ forgotten = {}

-----------------------------------------------------------------------------
(* The IdP (external): the refresh_token grant as forcedRefresh meets it.  *)

Honoured(t) == sso /\ (RotateRefreshTokens => t = cur)

\* The grant is honoured, and under rotation the token is spent.
Spend(c, t, via) ==
    /\ Honoured(t)
    /\ IF RotateRefreshTokens
       THEN /\ cur < MaxToken
            /\ cur' = cur + 1
            /\ spentBy' = [spentBy EXCEPT ![t] = {[by |-> c, via |-> via]}]
       ELSE UNCHANGED <<cur, spentBy>>
    /\ UNCHANGED <<sso, ssoEnd, wronged>>

\* invalid_grant
Refuse(c, t) ==
    /\ ~Honoured(t)
    /\ wronged' = IF sso THEN wronged \cup ({c} \X spentBy[t]) ELSE wronged
    /\ UNCHANGED <<cur, sso, ssoEnd, spentBy>>

\* The person signs out at the IdP, through another product.
EndSSO ==
    /\ sso
    /\ sso' = FALSE /\ ssoEnd' = now
    /\ UNCHANGED <<flightVars, requestVars, jar, cur, spentBy, wronged>>

-----------------------------------------------------------------------------
(* The journey of a request.                                               *)

Send(c) ==
    /\ step[c] = "idle" /\ jar # NoSession
    /\ body' = [body EXCEPT ![c] = jar]
    /\ step' = [step EXCEPT ![c] = "sent"]
    /\ since' = [since EXCEPT ![c] = now]
    /\ UNCHANGED <<flightVars, idpVars, jar, clk, setCookie, home, got>>

\* The middleware served or refused request c: what it holds and what its
\* response says.
Served(c, p, cookie) ==
    /\ body' = [body EXCEPT ![c] = p]
    /\ setCookie' = [setCookie EXCEPT ![c] = cookie]
    /\ step' = [step EXCEPT ![c] = IF p = NoSession THEN "responded" ELSE "serving"]
    /\ since' = [since EXCEPT ![c] = now]

\* readSessionCookie and the gate of maybeRevalidate: an expired cookie is no
\* session, and nothing due (or nothing to ask with) serves the request as it is.
ArriveAsIs(c) ==
    /\ step[c] = "sent"
    /\ clk' = [clk EXCEPT ![c] = now]
    /\ \/ Expired(body[c], now) /\ Served(c, NoSession, Keep)
       \/ /\ ~Expired(body[c], now)
          /\ IF FloorDue(body[c], now) THEN body[c].rt = NoToken
                                       ELSE ~ResolveRetryDue(body[c], now)
          /\ Served(c, body[c], Keep)
    /\ UNCHANGED <<flightVars, idpVars, jar, home, got>>

\* A route without the middleware: currentSession reads the cookie when the
\* handler first asks for the session, and nobody looks at the floor.
ArriveBare(c) ==
    /\ "bare" \in Faults
    /\ step[c] = "sent" /\ ~Expired(body[c], now)
    /\ Served(c, body[c], Keep)
    /\ UNCHANGED <<flightVars, idpVars, jar, clk, home, got>>

\* The gate, and the entry into the flight of what is due.
ArriveDue(c) ==
    /\ step[c] = "sent" /\ ~Expired(body[c], now)
    /\ clk' = [clk EXCEPT ![c] = now]
    /\ \/ /\ FloorDue(body[c], now) /\ body[c].rt # NoToken
          /\ step' = [step EXCEPT ![c] = "grant"]
          /\ F!Enter(c, FlightKey(home[c], "grant", body[c]))
       \/ /\ ~FloorDue(body[c], now) /\ ResolveRetryDue(body[c], now)
          /\ step' = [step EXCEPT ![c] = "resolve"]
          /\ F!Enter(c, FlightKey(home[c], "resolve", body[c]))
    /\ UNCHANGED <<idpVars, jar, since, body, setCookie, home, got>>

-----------------------------------------------------------------------------
(* fn: the leader asks the IdP and then the resolver.                      *)

Granted(c) ==
    [verdict |-> "ok", rt |-> cur', at |-> now, outcome |-> "none"]

\* forcedRefresh succeeded.
GrantOk(c) ==
    /\ step[c] = "grant" /\ pc[c] = "leading" /\ got[c] = NoAnswer
    /\ Spend(c, body[c].rt, "grant")
    /\ IF ReresolveOnRevalidate
       THEN got' = [got EXCEPT ![c] = Granted(c)] /\ UNCHANGED flightVars
       ELSE F!Answer(c, Granted(c)) /\ UNCHANGED got
    /\ UNCHANGED <<jar, step, since, clk, body, setCookie, home>>

\* forcedRefresh failed: the IdP's verdict, an outage, or a reply lost after
\* the IdP had already rotated the token.
GrantFailed(c) ==
    /\ step[c] = "grant" /\ pc[c] = "leading" /\ got[c] = NoAnswer
    /\ \E verdict \in {"invalid", "error"} :
          /\ \/ verdict = "invalid" /\ Refuse(c, body[c].rt)
             \/ verdict = "error" /\ "outage" \in Faults /\ UNCHANGED idpVars
             \/ verdict = "error" /\ "lost" \in Faults /\ Spend(c, body[c].rt, "grant")
          /\ F!Answer(c, [verdict |-> verdict, rt |-> NoToken, at |-> now, outcome |-> "none"])
    /\ UNCHANGED <<jar, requestVars>>

\* reresolve, after a grant or on its own.
Resolve(c) ==
    /\ pc[c] = "leading" /\ ReresolveOnRevalidate
    /\ step[c] = "resolve" \/ got[c] # NoAnswer
    /\ \E outcome \in {"applied", "soft", "ended"} :
          F!Answer(c, IF step[c] = "resolve"
                      THEN [verdict |-> "ok", rt |-> NoToken, at |-> now, outcome |-> outcome]
                      ELSE [got[c] EXCEPT !.outcome = outcome])
    /\ got' = [got EXCEPT ![c] = NoAnswer]
    /\ UNCHANGED <<idpVars, jar, step, since, clk, body, setCookie, home>>

\* The leader panics; its response is a bare 500.
Panic(c) ==
    /\ "panic" \in Faults
    /\ F!Panic(c)
    /\ UNCHANGED <<idpVars, jar, requestVars>>

-----------------------------------------------------------------------------
(* What each request does with the shared answer, on its own payload and   *)
(* its own clock.                                                          *)

ApplyGrant(c, a) ==
    LET p == [body[c] EXCEPT !.from = {joined[c]}]
        q == Refreshed(p, a.rt, 0)
    IN  CASE a = Abandoned \/ a.verdict = "error" ->
                Served(c, PersistBackoff(p, clk[c]), PersistBackoff(p, clk[c]))
          [] a # Abandoned /\ (a.verdict = "invalid" \/ (a.verdict = "ok" /\ a.outcome = "ended")) ->
                Served(c, NoSession, NoSession)
          [] a # Abandoned /\ a.verdict = "ok" /\ a.outcome = "soft" ->
                Served(c, SoftResolved(q, clk[c]), SoftResolved(q, clk[c]))
          [] OTHER ->
                Served(c, Stamped(q, clk[c]), Stamped(q, clk[c]))

ApplyResolve(c, a) ==
    LET p == body[c]
    IN  CASE a = Abandoned -> Served(c, p, Keep)
          [] a # Abandoned /\ a.outcome = "ended" -> Served(c, NoSession, NoSession)
          [] a # Abandoned /\ a.outcome = "soft" ->
                Served(c, RetrySoft(p, clk[c]), RetrySoft(p, clk[c]))
          [] OTHER -> Served(c, RetryApplied(p, clk[c]), RetryApplied(p, clk[c]))

Apply(c, a) == IF step[c] = "grant" THEN ApplyGrant(c, a) ELSE ApplyResolve(c, a)

\* The leader leaves do, by returning or by panicking on.
Publish(c) ==
    /\ F!Publish(c)
    /\ IF pc[c] = "answered" THEN Apply(c, res[c]) ELSE Served(c, NoSession, Keep)
    /\ UNCHANGED <<idpVars, jar, clk, home, got>>

\* A waiter leaves do with the leader's answer, or because its client left.
Receive(c) ==
    /\ F!Receive(c)
    /\ Apply(c, res[joined[c]])
    /\ UNCHANGED <<idpVars, jar, clk, home, got>>

Cancel(c) ==
    /\ "cancel" \in Faults
    /\ F!Cancel(c)
    /\ Apply(c, Abandoned)
    /\ UNCHANGED <<idpVars, jar, clk, home, got>>

\* A replica restarts (bound: once).  Its flights, running or retained, are gone,
\* and so are the responses of the requests it was working on.
Restart(n) ==
    LET lost == {c \in Requests : home[c] = n /\ step[c] \in {"grant", "resolve", "serving"}}
        held == {c \in calls : home[c] = n}
    IN  /\ "restart" \in Faults /\ forgotten = {} /\ held # {}
        /\ forgotten' = held
        /\ calls' = calls \ held
        /\ pc' = [c \in Requests |-> IF c \in lost /\ pc[c] \in F!Running \cup {"waiting"}
                                    THEN "unwound" ELSE pc[c]]
        /\ step' = [c \in Requests |-> IF c \in lost THEN "responded" ELSE step[c]]
        /\ since' = [c \in Requests |-> IF c \in lost THEN now ELSE since[c]]
        /\ body' = [c \in Requests |-> IF c \in lost THEN NoSession ELSE body[c]]
        /\ setCookie' = [c \in Requests |-> IF c \in lost THEN Keep ELSE setCookie[c]]
        /\ got' = [c \in Requests |-> IF c \in lost THEN NoAnswer ELSE got[c]]
        /\ UNCHANGED <<idpVars, jar, now, done, res, finished, key, entered, joined, ret,
                       clk, home>>

-----------------------------------------------------------------------------
(* The application's handler, and the way back.                            *)

\* UpdateSession rewrites the payload this request was served with.
UpdateSession(c) ==
    /\ "update" \in Faults
    /\ step[c] = "serving"
    /\ setCookie' = [setCookie EXCEPT ![c] = body[c]]
    /\ UNCHANGED <<flightVars, idpVars, jar, step, since, clk, body, home, got>>

\* AccessToken refreshes an expired access token outside any flight.  Failure
\* is the caller's to handle and writes nothing.
AccessToken(c) ==
    /\ "access" \in Faults /\ RetainTokens
    /\ step[c] = "serving" /\ body[c].rt # NoToken
    /\ \/ /\ Spend(c, body[c].rt, "access")
          /\ body' = [body EXCEPT ![c] = AccessTokenStored(@, cur')]
          /\ setCookie' = [setCookie EXCEPT ![c] = body'[c]]
       \/ /\ ~Honoured(body[c].rt)
          /\ UNCHANGED <<idpVars, body, setCookie>>
    /\ UNCHANGED <<flightVars, jar, step, since, clk, home, got>>

Respond(c) ==
    /\ step[c] = "serving"
    /\ step' = [step EXCEPT ![c] = "responded"]
    /\ UNCHANGED <<flightVars, idpVars, jar, since, clk, body, setCookie, home, got>>

\* The browser stores the response's session cookie, last one wins, and the
\* request is over.
Deliver(c) ==
    /\ step[c] = "responded"
    /\ jar' = IF setCookie[c] = Keep THEN jar ELSE setCookie[c]
    /\ step' = [step EXCEPT ![c] = "delivered"]
    /\ since' = [since EXCEPT ![c] = 0]
    /\ body' = [body EXCEPT ![c] = NoSession]
    /\ setCookie' = [setCookie EXCEPT ![c] = Keep]
    /\ UNCHANGED <<flightVars, idpVars, clk, home, got>>

Travelling(c) == step[c] \in {"sent", "serving", "responded"}

Tick ==
    /\ \A c \in Requests : Travelling(c) => now < since[c] + Transit
    /\ \A c \in Requests : pc[c] = "waiting" => ~done[joined[c]]
    /\ F!Tick
    /\ UNCHANGED <<idpVars, jar, requestVars>>

Step ==
    \/ \E c \in Requests :
          \/ Send(c) \/ ArriveAsIs(c) \/ ArriveBare(c) \/ ArriveDue(c)
          \/ GrantOk(c) \/ GrantFailed(c) \/ Resolve(c) \/ Panic(c)
          \/ Publish(c) \/ Receive(c) \/ Cancel(c)
          \/ UpdateSession(c) \/ AccessToken(c)
          \/ Respond(c) \/ Deliver(c)
    \/ EndSSO
    \/ Tick

Next ==
    \/ Step /\ UNCHANGED forgotten
    \/ \E n \in Replicas : Restart(n)

Spec == Init /\ [][Next]_vars

-----------------------------------------------------------------------------
(* Properties.                                                             *)

(***************************************************************************)
(* The race of go-vai-oidc#19: the requests of one browser never sign its  *)
(* own session out.  Stated for one replica where no answer is lost, a     *)
(* request and a response together travel less than the retention, and     *)
(* every straggler of one revalidation has settled before the next is due: *)
(* then invalid_grant is only ever the IdP's verdict that the SSO session  *)
(* ended.                                                                  *)
(***************************************************************************)
NoSelfSignOut == wronged = {}

(***************************************************************************)
(* Without those provisos: whenever a session is refused although it       *)
(* lives, the token had been spent by a request that (1) was no            *)
(* revalidation, (2) ran on another replica, (3) lost its answer to a      *)
(* panic or on the wire, (4) was asked about another stamp of the cookie,  *)
(* (5) had ended at least the retention before, or (6) was forgotten when  *)
(* its replica restarted.  There is no seventh way.                        *)
(***************************************************************************)
SignOutHasCause ==
    \A w \in wronged :
        LET c == w[1]
            m == w[2].by
        IN  \/ w[2].via = "access"
            \/ home[m] # home[c]
            \/ pc[m] \in {"panicked", "unwound"} \/ res[m].verdict = "error"
            \/ key[m] # key[c] \/ m \in forgotten
            \/ done[m] /\ entered[c] >= finished[m] + RevalidateFlightRetention

(***************************************************************************)
(* When everything has settled, the browser holds the refresh token the    *)
(* IdP would honour: no interleaving of shared answers and responses lost  *)
(* a rotation.                                                             *)
(***************************************************************************)
RotationNotLost ==
    (/\ \A c \in Requests : step[c] \in {"idle", "delivered"}
     /\ sso /\ jar # NoSession) => Honoured(jar.rt)

(***************************************************************************)
(* The age of the answer a request applies, measured on the clock it       *)
(* stamps the cookie with, is bounded by the flight's retention and the    *)
(* bound on its work.  SessionLife takes this as AnswerAge.                *)
(***************************************************************************)
AnswerFresh ==
    \A c \in Requests :
        (ret[c] # NoAnswer /\ ret[c] # Abandoned) =>
            clk[c] < ret[c].at + RevalidateFlightRetention + RevalidateSharedTimeout

(***************************************************************************)
(* A sign-out at the IdP reaches every request within the floor: where the *)
(* IdP answers, no request is served on a session whose SSO session ended  *)
(* a floor and the age of an answer ago, not even when a late UpdateSession *)
(* puts a cookie back that another response had just cleared.  A route     *)
(* without the middleware looks at no floor and is itself served as its    *)
(* cookie says; what it writes back changes nothing for the others.        *)
(***************************************************************************)
SignOutReaches ==
    \A c \in Requests :
        (step[c] = "serving" /\ ~sso /\ RevalidateInterval > 0)
            => clk[c] < ssoEnd + RevalidateInterval
                        + RevalidateFlightRetention + RevalidateSharedTimeout

(***************************************************************************)
(* A retained answer serves only the revalidation it was asked for: a      *)
(* request whose cookie was stamped with a flight's answer never gets that *)
(* answer again when its next revalidation is due, even when the interval  *)
(* is shorter than the retention and the IdP does not rotate the token.    *)
(***************************************************************************)
AnsweredOnce ==
    \A c \in Requests :
        (step[c] = "grant" /\ pc[c] = "waiting") => joined[c] \notin body[c].from
=============================================================================
