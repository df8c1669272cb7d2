---------------------------- MODULE SessionLife ----------------------------
(***************************************************************************)
(* The life of one line of session cookies: the cookie a login sets, the   *)
(* one each later response replaces it with, and so on.  Every operation   *)
(* of the library derives the cookie it writes from ONE cookie it was      *)
(* sent, so a statement that holds along every such line holds for every   *)
(* cookie in any browser, whatever the interleaving of requests, tabs and  *)
(* replicas.  What concurrency does add, an answer shared through a        *)
(* revalidation flight, enters as the age of the answer: it may have been  *)
(* given up to AnswerAge before the request that applies it (the flight's  *)
(* retention after its end plus the bound on its work).                    *)
(*                                                                         *)
(* An action is one request (RequireSession, OptionalSession or            *)
(* handleSession running maybeRevalidate), one callback, or one library    *)
(* call.  A request that finds nothing due, or has no refresh token to     *)
(* ask with, serves the cookie as it is and is a stuttering step, and so   *)
(* are UpdateSession, which writes none of these fields, and a retry whose *)
(* shared work was abandoned.                                              *)
(***************************************************************************)
EXTENDS Session

CONSTANTS
    Tokens,              \* refresh tokens the IdP may hand out
    NoSession,           \* the browser holds no session cookie
    SessionSyncEnabled,  \* Config.SessionSyncEnabled
    AnswerAge,           \* revalidateFlightRetention + revalidateSharedTimeout
    Start,               \* time of the initial state
    MaxTime              \* bound: the clock stops here

ASSUME LifeAssumption ==
    /\ NoToken \notin Tokens
    /\ SessionSyncEnabled \in BOOLEAN
    /\ AnswerAge \in Nat
    /\ Start \in Nat /\ Start > RevalidateInterval
    /\ MaxTime \in Nat

VARIABLES
    now,         \* the wall clock
    jar,         \* the session cookie, or NoSession
    conf,        \* when the IdP last vouched for this session
    asked,       \* when the IdP was last asked about it, answered or not
    attempt,     \* clock of the request that last applied an IdP outcome
    attemptOk,   \* whether that outcome was a successful grant
    resolvedAt,  \* when its resolved fields were last derived, or a sync, which
                 \* does not derive them, slid the session
    resolverAt,  \* clock of the request that last got a resolver error
    stampKept,   \* whether the last IdP outcome's cookie was written
    retryKept,   \* whether the last resolver error's cookie was written
    authAt,      \* when the person last authenticated at the IdP
    mintAut      \* the auth_time evidenced when this session was minted

vars == <<now, jar, conf, asked, attempt, attemptOk, resolvedAt, resolverAt,
          stampKept, retryKept, authAt, mintAut>>

Payload == [exp : Nat, lv : Nat, rra : Nat, aut : Nat,
            rt : Tokens \cup {NoToken}, src : {"code", "grant"}]

(***************************************************************************)
(* Types; in particular every time a cookie carries is an absolute one,    *)
(* the anchor persistBackoff computes backwards included.                  *)
(***************************************************************************)
TypeOK ==
    /\ now \in Nat /\ now >= Start
    /\ jar \in Payload \cup {NoSession}
    /\ conf \in Int /\ asked \in Int /\ attempt \in Nat
    /\ attemptOk \in BOOLEAN
    /\ resolvedAt \in Int /\ resolverAt \in Nat
    /\ stampKept \in BOOLEAN /\ retryKept \in BOOLEAN
    /\ authAt \in Nat /\ mintAut \in Nat

-----------------------------------------------------------------------------
(* Init: no session, or a cookie minted before v0.19.0, which carries no   *)
(* LastValidated and, if retention was on, a refresh token.                *)

LegacyPayload(rt) ==
    [exp |-> Start + SessionTTL, lv |-> 0, rra |-> 0, aut |-> 0,
     rt |-> rt, src |-> "code"]

Init ==
    /\ now = Start
    /\ jar \in {NoSession} \cup {LegacyPayload(rt) : rt \in Tokens \cup {NoToken}}
    /\ conf = Start /\ asked = Start /\ attempt = Start /\ attemptOk = TRUE
    /\ resolvedAt = Start /\ resolverAt = 0
    /\ stampKept = TRUE /\ retryKept = TRUE
    /\ authAt = Start /\ mintAut = 0

-----------------------------------------------------------------------------
(* Environment.                                                            *)

Tick ==
    /\ now < MaxTime
    /\ now' = now + 1
    /\ UNCHANGED <<jar, conf, asked, attempt, attemptOk, resolvedAt, resolverAt,
                   stampKept, retryKept, authAt, mintAut>>

\* The person authenticates at the IdP through some other client.
AuthenticateElsewhere ==
    /\ authAt < now
    /\ authAt' = now
    /\ UNCHANGED <<now, jar, conf, asked, attempt, attemptOk, resolvedAt,
                   resolverAt, stampKept, retryKept, mintAut>>

-----------------------------------------------------------------------------
(* Minting a session.                                                      *)

\* The IdP answered and the resolver ran just now.
MintedNow ==
    /\ conf' = now /\ asked' = now /\ attempt' = now /\ attemptOk' = TRUE
    /\ resolvedAt' = now
    /\ stampKept' = TRUE /\ retryKept' = TRUE
    /\ UNCHANGED <<now, resolverAt>>

\* The end of handleLoginCallback: tokens are kept only under RetainTokens, and
\* the IdP may omit auth_time.  The person either just typed a password or
\* came back on an existing SSO session.
HandleLoginCallback ==
    /\ authAt' \in {authAt, now}
    /\ \E aut \in {0, authAt'}, rt \in IF RetainTokens THEN Tokens \cup {NoToken} ELSE {NoToken} :
          /\ jar' = [exp |-> now + SessionTTL, lv |-> now, rra |-> 0, aut |-> aut,
                     rt |-> rt, src |-> "code"]
          /\ mintAut' = aut
    /\ MintedNow

\* IssueSession takes no refresh token; the caller vouches for auth_time.
IssueSession ==
    /\ authAt' \in {authAt, now}
    /\ \E aut \in {0, authAt'} :
          /\ jar' = [exp |-> now + SessionTTL, lv |-> now, rra |-> 0, aut |-> aut,
                     rt |-> NoToken, src |-> "grant"]
          /\ mintAut' = aut
    /\ MintedNow

-----------------------------------------------------------------------------
(* Revalidation.  A request carries jar and finds it due.                  *)

Live == jar # NoSession /\ ~Expired(jar, now)

GrantDue == Live /\ FloorDue(jar, now) /\ jar.rt # NoToken

RetryDue == Live /\ ~FloorDue(jar, now) /\ ResolveRetryDue(jar, now)

\* The answer the request applies was given at a, at most AnswerAge ago.
AnswerGivenAt(a) == a \in now - AnswerAge .. now

\* writeSession: a payload that needs too many chunks is not written, which
\* the caller tolerates.
WriteSession(p, written) == jar' = IF written THEN p ELSE jar

ClearSession == jar' = NoSession

Attempted(a) == asked' = a /\ attempt' = now

\* auth_time of the refreshed ID token: 0 when there is none that verifies.
RefreshedAuthTimes == {0} \cup Start .. authAt

\* invalid_grant.
GrantRevoked ==
    /\ GrantDue
    /\ \E a \in asked .. now : AnswerGivenAt(a) /\ Attempted(a)
    /\ attemptOk' = FALSE
    /\ ClearSession
    /\ UNCHANGED <<now, conf, resolvedAt, resolverAt, stampKept, retryKept, authAt, mintAut>>

\* No verdict: transport error, 5xx, any other OAuth error, abandoned work.
GrantFailed ==
    /\ GrantDue
    /\ \E a \in asked .. now : AnswerGivenAt(a) /\ Attempted(a)
    /\ attemptOk' = FALSE
    /\ stampKept' \in BOOLEAN
    /\ WriteSession(PersistBackoff(jar, now), stampKept')
    /\ UNCHANGED <<now, conf, resolvedAt, resolverAt, retryKept, authAt, mintAut>>

\* The grant succeeded, and the resolver (when asked) admitted the person.
GrantApplied ==
    /\ GrantDue
    /\ attemptOk' = TRUE /\ stampKept' \in BOOLEAN
    /\ \E a \in asked .. now, rt \in Tokens, aut \in RefreshedAuthTimes :
          /\ AnswerGivenAt(a)
          /\ Attempted(a)
          /\ conf' = a
          /\ resolvedAt' = IF ReresolveOnRevalidate THEN a ELSE resolvedAt
          /\ WriteSession(Stamped(Refreshed(jar, rt, aut), now), stampKept')
    /\ UNCHANGED <<now, resolverAt, retryKept, authAt, mintAut>>

\* The grant succeeded, and the resolver erred.
GrantSoft ==
    /\ GrantDue /\ ReresolveOnRevalidate
    /\ attemptOk' = TRUE /\ stampKept' \in BOOLEAN
    /\ \E a \in asked .. now, rt \in Tokens, aut \in RefreshedAuthTimes :
          /\ AnswerGivenAt(a)
          /\ Attempted(a)
          /\ conf' = a
          /\ WriteSession(SoftResolved(Refreshed(jar, rt, aut), now), stampKept')
    /\ resolverAt' = now
    /\ retryKept' = stampKept'
    /\ UNCHANGED <<now, resolvedAt, authAt, mintAut>>

\* The grant succeeded, and admission no longer accepts the person.
GrantEnded ==
    /\ GrantDue /\ ReresolveOnRevalidate
    /\ \E a \in asked .. now : AnswerGivenAt(a) /\ Attempted(a) /\ conf' = a
    /\ attemptOk' = TRUE
    /\ ClearSession
    /\ UNCHANGED <<now, resolvedAt, resolverAt, stampKept, retryKept, authAt, mintAut>>

\* retryResolution, by the resolver's answer.
RetryAnswered ==
    /\ RetryDue
    /\ \E a \in now - AnswerAge .. now : a >= resolvedAt /\ resolvedAt' = a
    /\ \E written \in BOOLEAN : WriteSession(RetryApplied(jar, now), written)
    /\ UNCHANGED <<now, conf, asked, attempt, attemptOk, resolverAt, stampKept,
                   retryKept, authAt, mintAut>>

RetryErred ==
    /\ RetryDue
    /\ resolverAt' = now
    /\ retryKept' \in BOOLEAN
    /\ WriteSession(RetrySoft(jar, now), retryKept')
    /\ UNCHANGED <<now, conf, asked, attempt, attemptOk, resolvedAt, stampKept,
                   authAt, mintAut>>

RetryEnded ==
    /\ RetryDue
    /\ ClearSession
    /\ UNCHANGED <<now, conf, asked, attempt, attemptOk, resolvedAt, resolverAt,
                   stampKept, retryKept, authAt, mintAut>>

-----------------------------------------------------------------------------
(* Session sync, AccessToken, logout.                                      *)

\* handleSyncCallback found the same identity.  Its write is best effort too.
SyncUnchanged ==
    /\ SessionSyncEnabled /\ Live
    /\ stampKept' \in BOOLEAN
    /\ \E rt \in Tokens \cup {NoToken} :
          WriteSession(SyncStamped(jar, now, rt), stampKept')
    /\ conf' = now /\ asked' = now /\ attempt' = now /\ attemptOk' = TRUE
    /\ resolvedAt' = IF stampKept' THEN now ELSE resolvedAt
    /\ UNCHANGED <<now, resolverAt, retryKept, authAt, mintAut>>

\* handleSyncCallback found another identity, or (never for a grant-minted
\* session) none.
SyncCleared ==
    /\ SessionSyncEnabled /\ Live
    /\ ClearSession
    /\ UNCHANGED <<now, conf, asked, attempt, attemptOk, resolvedAt, resolverAt,
                   stampKept, retryKept, authAt, mintAut>>

\* AccessToken found its access token expired and refreshed it.
AccessToken ==
    /\ RetainTokens /\ Live /\ jar.rt # NoToken
    /\ \E rt \in Tokens : jar' \in {AccessTokenStored(jar, rt), jar}
    /\ UNCHANGED <<now, conf, asked, attempt, attemptOk, resolvedAt, resolverAt,
                   stampKept, retryKept, authAt, mintAut>>

HandleLogout ==
    /\ jar # NoSession
    /\ ClearSession
    /\ UNCHANGED <<now, conf, asked, attempt, attemptOk, resolvedAt, resolverAt,
                   stampKept, retryKept, authAt, mintAut>>

Revalidate ==
    \/ GrantRevoked \/ GrantFailed \/ GrantApplied \/ GrantSoft \/ GrantEnded
    \/ RetryAnswered \/ RetryErred \/ RetryEnded

Next ==
    \/ Tick \/ AuthenticateElsewhere
    \/ HandleLoginCallback \/ IssueSession
    \/ Revalidate
    \/ SyncUnchanged \/ SyncCleared
    \/ AccessToken \/ HandleLogout

Spec == Init /\ [][Next]_vars

-----------------------------------------------------------------------------
(* Properties.                                                             *)

(***************************************************************************)
(* How long a session can outlive the IdP's word for it.  Without          *)
(* re-resolution Exp is never more than one SessionTTL (and the age of a   *)
(* shared answer) past the last time the IdP vouched for the person, no    *)
(* matter how revalidation outages, syncs and token refreshes follow each  *)
(* other.  With re-resolution one resolver retry that lands after an IdP   *)
(* outage moved the anchor can add one more SessionTTL, and never two.     *)
(***************************************************************************)
LifeBound ==
    jar # NoSession =>
        jar.exp <= conf + AnswerAge
                   + (IF ReresolveOnRevalidate THEN 2 * SessionTTL ELSE SessionTTL)

(***************************************************************************)
(* The floor: a request either asks the IdP, or the IdP was asked within   *)
(* the last RevalidateInterval (plus the age of a shared answer).  Backing *)
(* off, resolver retries, failed cookie writes and cookies from before the *)
(* anchor existed never push the next question further out.                *)
(***************************************************************************)
FloorHolds ==
    (RevalidateInterval > 0 /\ Live /\ jar.rt # NoToken /\ ~FloorDue(jar, now))
        => now - asked < RevalidateInterval + AnswerAge

(***************************************************************************)
(* Load on the IdP: once an outcome was persisted, the next grant is a     *)
(* full RevalidateInterval away if the grant succeeded, even when the      *)
(* resolver then failed and is being retried, and one TransportBackoff     *)
(* away if the grant got no verdict.                                       *)
(***************************************************************************)
GrantPaced ==
    (stampKept /\ GrantDue)
        => now - attempt >= (IF attemptOk THEN RevalidateInterval ELSE TransportBackoff)

(***************************************************************************)
(* Load on the resolver: a resolver-only retry comes no sooner than one    *)
(* TransportBackoff after the resolver's last error, also when a sync or   *)
(* an IdP outage rewrote the cookie in between.                            *)
(***************************************************************************)
ResolverPaced ==
    (retryKept /\ RetryDue) => now - resolverAt >= TransportBackoff

(***************************************************************************)
(* "A session never gains life while its resolved fields cannot be         *)
(* re-derived" (config.go:265-268), but for one thing: under re-resolution *)
(* Exp stays within one SessionTTL of the last time the resolver answered  *)
(* or a session sync, which does not ask it, confirmed the person.         *)
(***************************************************************************)
ResolvedLifeBound ==
    (ReresolveOnRevalidate /\ jar # NoSession)
        => jar.exp <= resolvedAt + AnswerAge + SessionTTL

(***************************************************************************)
(* Step-up: the auth_time RecentlyAuthenticated judges is never later than *)
(* the authentication evidenced when this session was minted, however      *)
(* often the session is refreshed and whatever the person does through     *)
(* other clients; if none was evidenced, it is a real authentication.      *)
(***************************************************************************)
AuthTimeEvidenced ==
    jar # NoSession => jar.aut <= (IF mintAut > 0 THEN mintAut ELSE authAt)

=============================================================================
