----------------------------- MODULE LoginFlow -----------------------------
(***************************************************************************)
(* The authorization-code round trips of one browser: ordinary logins and  *)
(* step-ups (handleLogin), silent session syncs (handleSessionSync), and   *)
(* the one callback URL they all come back to (handleCallback).            *)
(*                                                                         *)
(* The server keeps nothing between the start and the callback.  What ties *)
(* them together are four short-lived cookies that every tab and frame of  *)
(* the browser shares, so a second round trip overwrites the first one's.  *)
(* A callback reads the cookies when it arrives and changes them when its  *)
(* response is delivered; the code exchange lies in between.               *)
(***************************************************************************)
EXTENDS Integers, FiniteSets

CONSTANTS
    Flows,                   \* round trips
    FlowKinds,               \* what they may be: among login, stepup, sync
    Users,                   \* subjects at the IdP
    None,                    \* an absent cookie, session, value
    OIDCCookieMaxAge,        \* oidcCookieMaxAge
    AuthTimeSkew,            \* AuthTimeSkew
    StepUpMaxAge,            \* the max_age a step-up asks for
    RejectSameSiteCallback,  \* Config.RejectSameSiteCallback
    CookieHostPrefix,        \* Config.CookieHostPrefix
    Shadows,                 \* flow cookies that other hosts of the site may have set
    MaxSSO, MaxTime          \* bounds: SSO sessions, clock

ASSUME LoginFlowAssumption ==
    /\ OIDCCookieMaxAge \in Nat /\ AuthTimeSkew \in Nat /\ StepUpMaxAge \in Nat
    /\ RejectSameSiteCallback \in BOOLEAN /\ CookieHostPrefix \in BOOLEAN
    /\ FlowKinds \subseteq {"login", "stepup", "sync"}
    /\ MaxSSO \in Nat /\ MaxTime \in Nat
    /\ None \notin Flows /\ None \notin [of : Flows, age : Nat, at : Nat]

VARIABLES
    now,
    cookies,   \* the flow cookies: name -> [of, age, at] or None
    shadow,    \* names under which the browser also sends the cookie of another
               \* host, set for the parent domain, which this host cannot clear
    session,   \* the session cookie, or None: sub, sid (0 = none), aut, src, and
               \* the SSO session it was minted in
    sso,       \* the browser's SSO session at the IdP, or None
    authTimes, \* the IdP puts auth_time into its ID tokens
    ssoCount,  \* SSO sessions begun so far; their sid
    kind,      \* what each flow is
    phase,     \* where each flow is
    started,   \* when it started
    reply,     \* what the IdP sends the browser back with
    outcome,   \* what its callback decided
    response,  \* what the callback's response will change in the browser
    rivals     \* flows that touched the shared cookies while this one was pending

vars == <<now, cookies, shadow, session, sso, authTimes, ssoCount, kind, phase, started, reply,
          outcome, response, rivals>>

CookieNames == {"state", "pkce", "max_age", "sync"}

\* The outcomes of a sync callback.
SyncOutcomes == {"no_session", "not_applicable", "signed_out", "error",
                 "switched", "unchanged"}

\* The outcomes of a login callback.
LoginOutcomes == {"duplicate", "missing", "idp_error", "state_mismatch", "exchange_failed",
                  "auth_time", "not_admitted", "minted", "same_site"}

ASSUME OutcomesAssumption ==
    None \notin SyncOutcomes \cup LoginOutcomes \cup {"server_error", "login_required"}

\* No session, or one minted before v0.20.0: in the SSO session the browser
\* has, without its sid.
Init ==
    /\ now = 1
    /\ cookies = [n \in CookieNames |-> None]
    /\ shadow \in IF CookieHostPrefix THEN {{}} ELSE Shadows
    /\ \/ session = None /\ sso = None /\ ssoCount = 0
       \/ \E u \in Users :
             /\ sso = [sub |-> u, sid |-> 1, aut |-> 1] /\ ssoCount = 1
             /\ session = [sub |-> u, sid |-> 0, aut |-> 0, src |-> "code", sso |-> 1]
    /\ authTimes \in BOOLEAN
    /\ kind \in [Flows -> FlowKinds]
    /\ phase = [f \in Flows |-> "idle"]
    /\ started = [f \in Flows |-> 0]
    /\ reply = [f \in Flows |-> None]
    /\ outcome = [f \in Flows |-> None]
    /\ response = [f \in Flows |-> None]
    /\ rivals = [f \in Flows |-> {}]

-----------------------------------------------------------------------------
(* Seeded faults.                                                          *)

\* An ordinary login leaves the marker of an abandoned step-up behind.
LoginCookiesKeepMaxAge(f) ==
    [cookies EXCEPT !["state"] = [of |-> f, age |-> 0, at |-> now],
                    !["pkce"] = [of |-> f, age |-> 0, at |-> now],
                    !["max_age"] = IF kind[f] = "stepup"
                                   THEN [of |-> f, age |-> StepUpMaxAge, at |-> now] ELSE @]

\* An ID token without auth_time passes.
CheckAuthTimeIfPresent(aut, age, at) == aut = 0 \/ aut >= at - age - AuthTimeSkew

\* The sid compared although the session was minted without one.
SyncSameIdentityStrict(s, id) == s.sub = id.sub /\ s.sid = id.sid

\* A login that keeps the state cookie it finds.
LoginCookiesKeepState(f) ==
    [cookies EXCEPT !["state"] = IF @ = None THEN [of |-> f, age |-> 0, at |-> now] ELSE @,
                    !["pkce"] = [of |-> f, age |-> 0, at |-> now],
                    !["max_age"] = IF kind[f] = "stepup"
                                   THEN [of |-> f, age |-> StepUpMaxAge, at |-> now] ELSE None]

-----------------------------------------------------------------------------
(* The cookies as a request carries them.                                  *)

FlowCookie(f, age) == [of |-> f, age |-> age, at |-> now]

\* Another host's cookie: of no round trip here, and lenient where it counts.
Foreign == [of |-> None, age |-> MaxTime, at |-> now]

\* This host's own cookie of a name, while it lasts.  setOIDCCookie gives every
\* flow cookie the same short life.
Own(n) == {c \in {cookies[n]} : c # None /\ now - c.at < OIDCCookieMaxAge}

\* Seeded fault: the first cookie of the name taken for the only one, and its
\* own being the first.
SentFirst(n) == IF Own(n) = {} /\ n \in shadow THEN {Foreign} ELSE Own(n)

\* The cookies of one name that a request carries.
Sent(n) == Own(n) \cup (IF n \in shadow THEN {Foreign} ELSE {})

\* uniqueCookie's three answers: several, none, and the only one.
Duplicate(n) == Cardinality(Sent(n)) > 1
Missing(n) == Sent(n) = {}
Carried(n) == CHOOSE c \in Sent(n) : TRUE

\* handleLogin's cookies: a login without max_age clears the marker.
LoginCookies(f) ==
    [cookies EXCEPT !["state"] = FlowCookie(f, 0),
                    !["pkce"] = FlowCookie(f, 0),
                    !["max_age"] = IF kind[f] = "stepup"
                                   THEN FlowCookie(f, StepUpMaxAge) ELSE None]

\* handleSessionSync's cookies.
SyncCookies(f) ==
    [cookies EXCEPT !["state"] = FlowCookie(f, 0),
                    !["pkce"] = FlowCookie(f, 0),
                    !["sync"] = FlowCookie(f, 0)]

\* Flows that are waiting for their callback's response.
Pending == {f \in Flows : phase[f] \in {"authorizing", "returning"}}

\* Round trip f changes the shared cookies under the others.
Rivals(f) ==
    [g \in Flows |-> IF g \in Pending \ {f} THEN rivals[g] \cup {f} ELSE rivals[g]]

-----------------------------------------------------------------------------
(* Starting a round trip.                                                  *)

HandleLogin(f) ==
    /\ phase[f] = "idle" /\ kind[f] \in {"login", "stepup"}
    /\ cookies' = LoginCookies(f)
    /\ phase' = [phase EXCEPT ![f] = "authorizing"]
    /\ started' = [started EXCEPT ![f] = now]
    /\ rivals' = Rivals(f)
    /\ UNCHANGED <<now, session, sso, ssoCount, kind, reply, outcome, response>>

\* Without a session there is nothing to reconcile, and nothing happens.
HandleSessionSync(f) ==
    /\ phase[f] = "idle" /\ kind[f] = "sync" /\ session # None
    /\ cookies' = SyncCookies(f)
    /\ phase' = [phase EXCEPT ![f] = "authorizing"]
    /\ started' = [started EXCEPT ![f] = now]
    /\ rivals' = Rivals(f)
    /\ UNCHANGED <<now, session, sso, ssoCount, kind, reply, outcome, response>>

-----------------------------------------------------------------------------
(* The IdP (external).                                                     *)

CodeFor(id) == [error |-> None, sub |-> id.sub, sid |-> id.sid,
               aut |-> IF authTimes THEN id.aut ELSE 0]

ErrorReply(e) == [error |-> e, sub |-> None, sid |-> 0, aut |-> 0]

\* The person types a password, which begins an SSO session or renews the
\* authentication of the one there is.
Authenticate(f, u) ==
    /\ phase[f] = "authorizing" /\ kind[f] # "sync"
    /\ IF sso # None /\ sso.sub = u
       THEN sso' = [sso EXCEPT !.aut = now] /\ UNCHANGED ssoCount
       ELSE /\ ssoCount < MaxSSO
            /\ ssoCount' = ssoCount + 1
            /\ sso' = [sub |-> u, sid |-> ssoCount', aut |-> now]
    /\ reply' = [reply EXCEPT ![f] = CodeFor(sso')]
    /\ phase' = [phase EXCEPT ![f] = "returning"]
    /\ UNCHANGED <<now, cookies, session, kind, started, outcome, response, rivals>>

\* The SSO session answers without a prompt.  An IdP may ignore max_age, and
\* may leave auth_time out, which is what the callback's check is for.
AnswerFromSSO(f) ==
    /\ phase[f] = "authorizing" /\ sso # None
    /\ reply' = [reply EXCEPT ![f] = CodeFor(sso)]
    /\ phase' = [phase EXCEPT ![f] = "returning"]
    /\ UNCHANGED <<now, cookies, session, sso, ssoCount, kind, started, outcome,
                   response, rivals>>

\* prompt=none without an SSO session is login_required; anything may fail.
AnswerError(f) ==
    /\ phase[f] = "authorizing"
    /\ \E e \in {"server_error"} \cup
                (IF kind[f] = "sync" /\ sso = None THEN {"login_required"} ELSE {}) :
          reply' = [reply EXCEPT ![f] = ErrorReply(e)]
    /\ phase' = [phase EXCEPT ![f] = "returning"]
    /\ UNCHANGED <<now, cookies, session, sso, ssoCount, kind, started, outcome,
                   response, rivals>>

EndSSO ==
    /\ sso # None
    /\ sso' = None
    /\ UNCHANGED <<now, cookies, session, ssoCount, kind, phase, started, reply,
                   outcome, response, rivals>>

-----------------------------------------------------------------------------
(* The callback.                                                           *)

\* The code is bound to the PKCE challenge it was asked for with.
Exchange(f) == Carried("pkce").of = f

\* checkAuthTime: measured from the start of the login the marker records.
CheckAuthTime(aut, age, at) == aut # 0 /\ aut >= at - age - AuthTimeSkew

VerifyRequestedMaxAge(f) ==
    /\ ~Duplicate("max_age")
    /\ \/ Missing("max_age")
       \/ CheckAuthTime(reply[f].aut, Carried("max_age").age, Carried("max_age").at)

\* What handleLoginCallback decides, in the order of its checks; admitted is
\* admitIdentity's verdict.
LoginVerdict(f, admitted) ==
    IF Duplicate("state") \/ (~Missing("state") /\ Duplicate("pkce")) THEN "duplicate"
    ELSE IF Missing("state") \/ Missing("pkce") THEN "missing"
    ELSE IF reply[f].error # None THEN "idp_error"
    ELSE IF Carried("state").of # f THEN "state_mismatch"
    ELSE IF ~Exchange(f) THEN "exchange_failed"
    ELSE IF ~VerifyRequestedMaxAge(f) THEN "auth_time"
    ELSE IF ~admitted THEN "not_admitted"
    ELSE "minted"

IsGrantMinted(s) == s.src = "grant"

\* sameIdentity and syncSameIdentity: no sid on either side leaves the subject,
\* and a grant-minted session is compared on the subject alone.
SyncSameIdentity(s, id) ==
    s.sub = id.sub /\ (IsGrantMinted(s) \/ s.sid = 0 \/ id.sid = 0 \/ s.sid = id.sid)

\* Only the codes of isSyncNoSessionError (login_required stands for the four)
\* are a verdict, and none about a grant-minted session.
SyncErrorVerdict(f) ==
    IF reply[f].error # "login_required" THEN "error"
    ELSE IF IsGrantMinted(session) THEN "not_applicable"
    ELSE "signed_out"

\* What handleSyncCallback decides: an error parameter is looked at before
\* the state is.
SyncVerdict(f) ==
    IF Duplicate("state") \/ Duplicate("pkce") \/ Missing("state") \/ Missing("pkce")
    THEN "error"
    ELSE IF session = None THEN "no_session"
    ELSE IF reply[f].error # None THEN SyncErrorVerdict(f)
    ELSE IF Carried("state").of # f THEN "error"
    ELSE IF ~Exchange(f) THEN "error"
    ELSE IF ~SyncSameIdentity(session, reply[f]) THEN "switched"
    ELSE "unchanged"

Minted(f) ==
    [sub |-> reply[f].sub, sid |-> reply[f].sid, aut |-> reply[f].aut, src |-> "code",
     sso |-> reply[f].sid]

\* A session minted before v0.20.0 learns its sid.
Synced(f) ==
    [session EXCEPT !.sid = IF @ = 0 /\ ~IsGrantMinted(session) THEN reply[f].sid ELSE @]

\* What a response leaves alone.
SameSession == [write |-> FALSE, to |-> None]
SetSession(s) == [write |-> TRUE, to |-> s]

\* change is what the response does to the session cookie, clears the flow
\* cookies it clears; judged records the session that a sync ends.
Decide(f, verdict, change, clears) ==
    /\ outcome' = [outcome EXCEPT ![f] = verdict]
    /\ response' = [response EXCEPT ![f] =
                      [session |-> change, clears |-> clears,
                       judged |-> IF verdict \in {"signed_out", "switched"}
                                  THEN session ELSE None]]
    /\ reply' = [reply EXCEPT ![f] = IF change.write THEN @ ELSE None]
    /\ phase' = [phase EXCEPT ![f] = "answering"]
    /\ UNCHANGED <<now, cookies, session, sso, ssoCount, kind, started, rivals>>

\* r.Cookie: any cookie of the name will do.
IsSync == ~Missing("sync")

\* The opt-in refusal of same-site navigations changes nothing.
RefuseSameSite(f) ==
    /\ phase[f] = "returning" /\ RejectSameSiteCallback
    /\ Decide(f, IF IsSync THEN "error" ELSE "same_site", SameSession, {})

\* A callback that finds its cookies gone leaves the others where they are.
HandleLoginCallback(f) ==
    /\ phase[f] = "returning" /\ ~IsSync
    /\ \E admitted \in BOOLEAN :
          LET v == LoginVerdict(f, admitted) IN
          Decide(f, v, IF v = "minted" THEN SetSession(Minted(f)) ELSE SameSession,
                 IF v = "missing" THEN {} ELSE {"state", "pkce", "max_age"})

HandleSyncCallback(f) ==
    /\ phase[f] = "returning" /\ IsSync
    /\ LET v == SyncVerdict(f) IN
       Decide(f, v, CASE v \in {"signed_out", "switched"} -> SetSession(None)
                      [] v = "unchanged" -> SetSession(Synced(f))
                      [] OTHER -> SameSession,
              {"state", "pkce", "sync"})

\* The response reaches the browser, and the round trip is over and forgotten.
Deliver(f) ==
    /\ phase[f] = "answering"
    /\ session' = IF response[f].session.write THEN response[f].session.to ELSE session
    /\ cookies' = [n \in CookieNames |->
                      IF n \in response[f].clears THEN None ELSE cookies[n]]
    /\ phase' = [phase EXCEPT ![f] = "finished"]
    /\ started' = [started EXCEPT ![f] = 0]
    /\ reply' = [reply EXCEPT ![f] = None]
    /\ outcome' = [outcome EXCEPT ![f] = None]
    /\ response' = [response EXCEPT ![f] = None]
    /\ rivals' = [g \in Flows |-> IF g = f THEN {} ELSE Rivals(f)[g]]
    /\ UNCHANGED <<now, sso, ssoCount, kind>>

-----------------------------------------------------------------------------

\* IssueSession: an inline login, whose sid names no SSO session of a browser.
IssueSession ==
    /\ \E u \in Users :
          session' = [sub |-> u, sid |-> MaxSSO + 1, aut |-> 0, src |-> "grant",
                      sso |-> 0]
    /\ UNCHANGED <<now, cookies, sso, ssoCount, kind, phase, started, reply, outcome,
                   response, rivals>>

HandleLogout ==
    /\ session # None
    /\ session' = None /\ sso' = None
    /\ UNCHANGED <<now, cookies, ssoCount, kind, phase, started, reply, outcome,
                   response, rivals>>

Tick ==
    /\ now < MaxTime
    /\ now' = now + 1
    /\ UNCHANGED <<cookies, session, sso, ssoCount, kind, phase, started, reply,
                   outcome, response, rivals>>

Next ==
    \/ \E f \in Flows :
          \/ HandleLogin(f) \/ HandleSessionSync(f)
          \/ \E u \in Users : Authenticate(f, u)
          \/ AnswerFromSSO(f) \/ AnswerError(f)
          \/ RefuseSameSite(f) \/ HandleLoginCallback(f) \/ HandleSyncCallback(f)
          \/ Deliver(f)
    \/ EndSSO \/ IssueSession \/ HandleLogout \/ Tick

Spec == Init /\ [][Next /\ UNCHANGED <<shadow, authTimes>>]_vars

-----------------------------------------------------------------------------
(* Properties.                                                             *)

(***************************************************************************)
(* A step-up is never satisfied by an older authentication: the session a  *)
(* max_age login mints carries an auth_time no earlier than that login's   *)
(* own start less max_age and the skew, whatever other tabs start, finish  *)
(* or abandon meanwhile, and even if the IdP ignored max_age.              *)
(***************************************************************************)
StepUpHonoured ==
    \A f \in Flows :
        (outcome[f] = "minted" /\ kind[f] = "stepup") =>
            /\ reply[f].aut # 0
            /\ reply[f].aut >= started[f] - StepUpMaxAge - AuthTimeSkew

(***************************************************************************)
(* A login that comes back with a code is only turned away for its cookies *)
(* if they had run out or another round trip of the browser changed them   *)
(* while it was pending, or another host of the site has cookies of their  *)
(* names: nothing left behind by a finished or abandoned round trip gets   *)
(* in the way.  In particular the marker of an abandoned step-up does not  *)
(* reach an ordinary login, whatever else the tabs do.                     *)
(***************************************************************************)
LoginLostHasCause ==
    \A f \in Flows :
        /\ outcome[f] \in {"missing", "duplicate", "state_mismatch", "exchange_failed"} =>
              \/ rivals[f] # {} \/ now - started[f] >= OIDCCookieMaxAge
              \/ shadow \cap {"state", "pkce"} # {}
        /\ outcome[f] = "auth_time" => kind[f] = "stepup" \/ "max_age" \in shadow

(***************************************************************************)
(* cookieguard.go:22-26: a session is minted, ended or prolonged only by a *)
(* callback whose flow cookies are the only ones of their names: where     *)
(* another host of the site has set one too, no order in which the browser *)
(* sends them decides anything.  A sync that only heard that nobody is     *)
(* signed in reads neither.                                                *)
(***************************************************************************)
SoleCookiesDecide ==
    \A f \in Flows :
        (outcome[f] # None /\ response[f].session.write /\ reply[f].error = None) =>
            /\ shadow \cap {"state", "pkce"} = {}
            /\ (outcome[f] = "minted" /\ kind[f] = "stepup") => "max_age" \notin shadow

(***************************************************************************)
(* Silent sync ends a session only on evidence about that session:         *)
(* "switched" means that the browser is signed in at the IdP as somebody   *)
(* else or in another SSO session than the one the session was minted in,  *)
(* also for sessions that never recorded their sid; a grant-minted session *)
(* is only ever ended for another person.                                  *)
(***************************************************************************)
SyncEndsOnEvidence ==
    \A f \in Flows :
        LET s == response[f].judged IN
        /\ outcome[f] = "switched" =>
              s.sub # reply[f].sub \/ (s.src = "code" /\ s.sso # reply[f].sid)
        /\ outcome[f] = "signed_out" => s.src = "code"

-----------------------------------------------------------------------------
(* What the documentation promises and the code does not keep.             *)

(***************************************************************************)
(* auth.go:631-635: of the two round trips that land on the callback, "the *)
(* marker cookie is what separates them".                                  *)
(***************************************************************************)
MarkerSeparates ==
    \A f \in Flows : outcome[f] \in SyncOutcomes => kind[f] = "sync"
=============================================================================
