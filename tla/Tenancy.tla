------------------------------ MODULE Tenancy ------------------------------
(***************************************************************************)
(* Which organization a session acts for.  The directory (obol) decides it *)
(* at login, through admitIdentity and the UserResolver of obolresolver;   *)
(* the person may pick another of theirs (UpdateSession); and, under       *)
(* ReresolveOnRevalidate, every revalidation asks the directory again.     *)
(* Meanwhile memberships come and go, the directory fails to answer, and   *)
(* what the IdP says of the person changes: their address, whether it is   *)
(* verified, their realm roles.  The login gates and the staff gate decide *)
(* on that identity, as the token or the cookie has it.                    *)
(*                                                                         *)
(* As in SessionLife the module follows one line of cookies.  An answer is *)
(* applied when it is given; Flights bounds how much later that can be.    *)
(***************************************************************************)
EXTENDS Session

CONSTANTS
    Orgs, NoOrg,
    NoSession, NoLanding,
    Landings,              \* landing objects the directory may answer with
    AllowEmptyMembership,  \* obolresolver Config.AllowEmptyMembership
    RequireEmailVerified,  \* Config.RequireEmailVerified
    RequireEmailDomain,    \* Config.RequireEmailDomain, NoDomain = no rule
    NoDomain,              \* the empty string; the domain of an address without one
    StaffPolicy,           \* StaffPolicy: Domain, Roles
    FirstClaims,           \* what the IdP says of the person at the outset, and
    LaterClaims,           \* may say later: records of ev, dom, rls
    SessionSyncEnabled,
    Start, MaxTime         \* bound: the clock stops here

ASSUME TenancyAssumption ==
    /\ NoOrg \notin Orgs
    /\ \A b \in {AllowEmptyMembership, RequireEmailVerified, SessionSyncEnabled} :
          b \in BOOLEAN
    /\ Start \in Nat /\ Start > RevalidateInterval

VARIABLES
    now,
    jar,         \* the session cookie.  Beside the fields of Session: org, mbs, id
                 \* (OrgID, Mbs, and Email, Ev and Rls) and four ghosts: at, when the
                 \* directory gave these memberships, slid, when a sync last extended
                 \* it, unread, whether its life was last extended without reading an
                 \* ID token into it, and funnel, whether the login that minted it
                 \* ended on a redirecting landing
    directory,   \* the directory's record of the person: mbs, landing
    leftAt,      \* when the person left an organization, 0 = a member or never one
    claims,      \* what the IdP says of the person: ev (email_verified), dom (the
                 \* domain of the address), rls (realm roles)
    changedAt,   \* when that changed, 0 = not yet; bound: it does once
    heard,       \* a grant of this session has brought an ID token since then
    pick         \* the organization last picked, while the person stays in it

vars == <<now, jar, directory, leftAt, claims, changedAt, heard, pick>>

Directories == [mbs : SUBSET Orgs, landing : Landings]

Init ==
    /\ now = Start
    /\ jar = NoSession
    /\ directory \in Directories
    /\ leftAt = [o \in Orgs |-> 0]
    /\ claims = FirstClaims /\ changedAt = 0
    /\ heard = FALSE
    /\ pick = NoOrg

-----------------------------------------------------------------------------
(* Landing decisions (user.go, obolresolver.go).                           *)

\* LandingDecisionRedirects: ready, and what this version does not know, do not.
LandingDecisionRedirects(d) == d \in {"onboarding", "org_selection", "closed_beta"}

\* admitLanding: a URL that is not to be followed is cleared, the decision stays.
AdmitLanding(l) ==
    IF l = NoLanding THEN l
    ELSE [l EXCEPT !.url = IF LandingDecisionRedirects(l.decision) /\ @ = "allowed"
                           THEN @ ELSE "none"]

RedirectTarget(l) ==
    l # NoLanding /\ l.url # "none" /\ LandingDecisionRedirects(l.decision)

-----------------------------------------------------------------------------
(* Admission.                                                              *)

Refused == [verdict |-> "refused"]
Failed == [verdict |-> "failed"]
NotAsked == [verdict |-> "not_asked"]
Admitted(org, mbs, landing) ==
    [verdict |-> "admitted", org |-> org, mbs |-> mbs, landing |-> landing]

\* Config.RequireEmailVerified, then enforceEmailDomain.
Gates(id) ==
    /\ RequireEmailVerified => id.ev
    /\ RequireEmailDomain # NoDomain => id.dom = RequireEmailDomain

\* Seeded fault: the resolver asked before the gates.
AdmitResolverFirst(id, answer) ==
    IF answer.verdict = "failed" THEN Failed
    ELSE IF ~Gates(id) THEN Refused ELSE answer

\* Seeded fault: an answer without an organization kept.
ReresolveKeepsOrgless(a) == a

\* Seeded fault: the picked organization kept whatever the answer says.
ActiveOrgSticky(p, a) == IF p.org # NoOrg THEN p.org ELSE a.org

\* Seeded fault: the default organization restored at every revalidation.
ActiveOrgReset(p, a) == a.org

\* The resolver of obolresolver.New, for the answer d: the first membership
\* listed is the default organization, and nobody without one is admitted
\* except on the way to a landing or by configuration.
Resolver(d) ==
    LET landing == AdmitLanding(d.landing) IN
    IF d.mbs = {}
    THEN IF RedirectTarget(landing) \/ AllowEmptyMembership
         THEN {Admitted(NoOrg, {}, landing)} ELSE {Refused}
    ELSE {Admitted(o, d.mbs, landing) : o \in d.mbs}

\* What the resolver may do now: answer, or fail.
ResolverAnswers == Resolver(directory) \cup {Failed}

\* admitIdentity: the gates on the identity, then the resolver.
AdmitIdentity(id, answer) == IF ~Gates(id) THEN Refused ELSE answer

\* reresolve: an answer that a login would have redirected away without an
\* organization ends the session.
Reresolve(a) ==
    IF a.verdict = "admitted" /\ a.org = NoOrg /\ a.mbs = {} /\ RedirectTarget(a.landing)
    THEN Refused ELSE a

\* applyResolution: the organization in use stays if it is still one of theirs.
ActiveOrg(p, a) == IF p.org \in a.mbs THEN p.org ELSE a.org

\* Seeded fault: the answer's organizations taken over, its identity not.
ApplyResolutionOrgsOnly(p, a, id) ==
    IF a = NotAsked THEN p
    ELSE [p EXCEPT !.org = ActiveOrg(p, a), !.mbs = a.mbs, !.at = now, !.funnel = FALSE]

ApplyResolution(p, a, id) ==
    IF a = NotAsked THEN p
    ELSE [p EXCEPT !.org = ActiveOrg(p, a), !.mbs = a.mbs, !.id = id, !.at = now,
                   !.funnel = FALSE]

-----------------------------------------------------------------------------
(* The staff gate.                                                         *)

\* Validate, of the policy
StaffPolicyValid == StaffPolicy.Domain # NoDomain /\ StaffPolicy.Roles # {}

\* Check, of an identity: a verified address in exactly the policy's domain, and
\* one of its realm roles.
Check(id) ==
    /\ StaffPolicyValid
    /\ id.ev /\ id.dom # NoDomain /\ id.dom = StaffPolicy.Domain
    /\ id.rls \cap StaffPolicy.Roles # {}

-----------------------------------------------------------------------------
(* Environment.                                                            *)

Tick ==
    /\ now < MaxTime
    /\ now' = now + 1
    /\ UNCHANGED <<jar, directory, leftAt, claims, changedAt, heard, pick>>

ChangeDirectory ==
    /\ directory' \in Directories \ {directory}
    /\ leftAt' = [o \in Orgs |-> IF o \in directory'.mbs THEN 0
                                 ELSE IF o \in directory.mbs THEN now ELSE leftAt[o]]
    /\ pick' = IF pick \in directory'.mbs THEN pick ELSE NoOrg
    /\ UNCHANGED <<now, jar, claims, changedAt, heard>>

ChangeClaims ==
    /\ changedAt = 0
    /\ claims' \in LaterClaims /\ changedAt' = now
    /\ UNCHANGED <<now, jar, directory, leftAt, heard, pick>>

-----------------------------------------------------------------------------
(* Minting.                                                                *)

Mint(org, mbs, rt, src, funnel) ==
    /\ jar' = [exp |-> now + SessionTTL, lv |-> now, rra |-> 0, rt |-> rt, src |-> src,
               org |-> org, mbs |-> mbs, id |-> claims, at |-> now, slid |-> 0,
               unread |-> FALSE, funnel |-> funnel]
    /\ heard' = FALSE
    /\ pick' = NoOrg
    /\ UNCHANGED <<now, directory, leftAt, claims, changedAt>>

\* handleLoginCallback, from admission on: the session cookie is set also when
\* the browser is then sent to the landing.  A refused login changes nothing.
HandleLoginCallback ==
    \E answer \in ResolverAnswers :
        LET a == AdmitIdentity(claims, answer) IN
        /\ a.verdict = "admitted"
        /\ Mint(a.org, a.mbs, IF RetainTokens THEN "rt" ELSE NoToken, "code",
                RedirectTarget(a.landing))

\* IssueSession runs no admission: the caller vouches for the user.
IssueSession ==
    \E o \in directory.mbs : Mint(o, directory.mbs, NoToken, "grant", FALSE)

-----------------------------------------------------------------------------
(* Requests.                                                               *)

Live == jar # NoSession /\ ~Expired(jar, now)

GrantDue == Live /\ FloorDue(jar, now) /\ jar.rt # NoToken

RetryDue == Live /\ ~FloorDue(jar, now) /\ ResolveRetryDue(jar, now)

\* RequireStaff lets a request through on the identity the session carries.
RequireStaff == Live /\ Check(jar.id)

\* A payload too large for its chunks is not written.
WriteSession(p) == jar' \in {p, jar}

ClearSession == jar' = NoSession /\ pick' = NoOrg

\* revalidationIdentity after a grant: the refreshed ID token's claims if the
\* grant brought one and it verifies, else the identity stored in the cookie.
RevalidationIdentity(idToken) == IF idToken THEN claims ELSE jar.id

\* What the resolver says after a grant, if re-resolution is on.
Reresolved(id) ==
    IF ReresolveOnRevalidate
    THEN {Reresolve(AdmitIdentity(id, answer)) : answer \in ResolverAnswers}
    ELSE {NotAsked}

\* The grant succeeded.
RevalidateAtIdP ==
    /\ GrantDue
    /\ \E idToken \in BOOLEAN :
       LET id == RevalidationIdentity(idToken) IN
       /\ heard' = (heard \/ (idToken /\ changedAt # 0))
       /\ \E a \in Reresolved(id) :
             \/ a.verdict = "refused" /\ ClearSession
             \/ /\ a.verdict = "failed"
                /\ WriteSession(SoftResolved(jar, now)) /\ UNCHANGED pick
             \/ /\ a.verdict \in {"admitted", "not_asked"}
                /\ WriteSession([Stamped(ApplyResolution(jar, a, id), now)
                                    EXCEPT !.unread = ~idToken])
                /\ UNCHANGED pick
    /\ UNCHANGED <<now, directory, leftAt, claims, changedAt>>

\* The grant got no verdict, or invalid_grant.
RevalidationFailed ==
    /\ GrantDue
    /\ \/ WriteSession(PersistBackoff(jar, now)) /\ UNCHANGED pick
       \/ ClearSession
    /\ UNCHANGED <<now, directory, leftAt, claims, changedAt, heard>>

\* retryResolution: the stored identity is the input.
RetryResolution ==
    /\ RetryDue
    /\ \E a \in Reresolved(jar.id) :
          \/ a.verdict = "refused" /\ ClearSession
          \/ /\ a.verdict = "failed"
             /\ WriteSession(RetrySoft(jar, now)) /\ UNCHANGED pick
          \/ /\ a.verdict = "admitted"
             /\ WriteSession([RetryApplied(ApplyResolution(jar, a, jar.id), now)
                                EXCEPT !.unread = TRUE])
             /\ UNCHANGED pick
    /\ UNCHANGED <<now, directory, leftAt, claims, changedAt, heard>>

\* UpdateSession, by a picker that offers the session's memberships.
UpdateSession ==
    /\ Live
    /\ \E o \in jar.mbs :
          /\ jar' = [jar EXCEPT !.org = o]
          /\ pick' = IF o \in directory.mbs THEN o ELSE NoOrg
    /\ UNCHANGED <<now, directory, leftAt, claims, changedAt, heard>>

\* Session sync asks neither the gates nor the resolver.
HandleSyncCallback ==
    /\ SessionSyncEnabled /\ Live
    /\ \/ /\ WriteSession([SyncStamped(jar, now, NoToken)
                              EXCEPT !.slid = now, !.unread = TRUE])
          /\ UNCHANGED pick
       \/ ClearSession
    /\ UNCHANGED <<now, directory, leftAt, claims, changedAt, heard>>

HandleLogout ==
    /\ jar # NoSession
    /\ ClearSession
    /\ UNCHANGED <<now, directory, leftAt, claims, changedAt, heard>>

Next ==
    \/ Tick \/ ChangeDirectory \/ ChangeClaims
    \/ HandleLoginCallback \/ IssueSession
    \/ RevalidateAtIdP \/ RevalidationFailed \/ RetryResolution
    \/ UpdateSession \/ HandleSyncCallback \/ HandleLogout

Spec == Init /\ [][Next]_vars

-----------------------------------------------------------------------------
(* Properties.                                                             *)

\* Whether the person had already left o at time t.
LeftBefore(o, t) == o # NoOrg /\ leftAt[o] # 0 /\ leftAt[o] < t

(***************************************************************************)
(* The organization a session acts for is one the directory placed the     *)
(* person in the last time it answered for this session: no sequence of    *)
(* picks, removals, resolver failures and retries leaves a session in an   *)
(* organization that an answer it has applied no longer listed.            *)
(***************************************************************************)
TenantVouched ==
    jar # NoSession => ~LeftBefore(jar.org, jar.at)

(***************************************************************************)
(* A removal is noticed within one SessionTTL, however long the directory  *)
(* or the IdP fails to answer (config.go:265-268); only a session sync,    *)
(* which does not ask the directory, buys the session another one.         *)
(***************************************************************************)
RemovalBounded ==
    (ReresolveOnRevalidate /\ Live /\ LeftBefore(jar.org, now - SessionTTL))
        => now <= jar.slid + SessionTTL

(***************************************************************************)
(* No request is served without an organization, which some services read  *)
(* as all of them, unless the configuration says so or the login ended on  *)
(* a landing: revalidation never turns a session into one.                 *)
(***************************************************************************)
OrglessExplained ==
    (Live /\ jar.org = NoOrg) => AllowEmptyMembership \/ jar.funnel

(***************************************************************************)
(* A pick lasts: while the person stays a member of the organization they  *)
(* picked, no revalidation, retry or sync moves the session elsewhere.     *)
(***************************************************************************)
PickKept == (jar # NoSession /\ pick # NoOrg) => jar.org = pick

(***************************************************************************)
(* A gate refusal is an answer and a resolver error is not: once the IdP   *)
(* reports the address unverified or in another domain, the first grant    *)
(* that brings an ID token ends a session that a login minted, even while  *)
(* the directory is down.                                                  *)
(***************************************************************************)
GateEndsSession ==
    (/\ ReresolveOnRevalidate /\ changedAt # 0 /\ ~Gates(claims)
     /\ jar # NoSession /\ jar.src = "code") => ~heard

(***************************************************************************)
(* A staff route is closed to somebody who lost the role, or the address   *)
(* it takes, within one SessionTTL.  The way past it is a session whose    *)
(* life was extended without reading an ID token: by a sync, by a grant    *)
(* that brought none, or by a resolver retry after a grant at which the    *)
(* directory failed, since that discards the token the grant brought and   *)
(* asks again for the stored identity.                                     *)
(***************************************************************************)
StaffBounded ==
    (/\ ReresolveOnRevalidate /\ changedAt # 0 /\ changedAt < now - SessionTTL
     /\ RequireStaff /\ ~Check(claims)) => jar.unread
=============================================================================
