--------------------------- MODULE TenancyProofs ---------------------------
(***************************************************************************)
(* Proofs that a session stays in an organization the directory vouches    *)
(* for, and that gates close on people who lost what they need, for every  *)
(* set of organizations, every landing, claim and policy, and every        *)
(* configuration that validate accepts.                                    *)
(*                                                                         *)
(* Three strengthenings carry the properties.  Vouched: not only the       *)
(* organization in use but every membership a picker may choose from was   *)
(* the directory's word when the cookie's memberships were last given.     *)
(* Resolved: the cookie's end is within one SessionTTL of that word or of  *)
(* a sync.  Read: a cookie whose identity is not what the IdP says now,    *)
(* and whose life was last extended by reading an ID token, ends within    *)
(* one SessionTTL of the change.                                           *)
(***************************************************************************)
EXTENDS Tenancy, TLAPS

Claims == {FirstClaims} \cup LaterClaims

Cookie ==
    [exp : Nat, lv : Nat, rra : Nat, rt : {"rt", NoToken}, src : {"code", "grant"},
     org : Orgs \cup {NoOrg}, mbs : SUBSET Orgs, id : Claims, at : Nat, slid : Nat,
     unread : BOOLEAN, funnel : BOOLEAN]

TypeOK ==
    /\ now \in Nat /\ now >= Start
    /\ jar \in Cookie \cup {NoSession}
    /\ directory \in Directories
    /\ leftAt \in [Orgs -> Nat]
    /\ claims \in Claims /\ changedAt \in Nat
    /\ heard \in BOOLEAN
    /\ pick \in Orgs \cup {NoOrg}

\* The record of who left when, and of what was picked, against the directory.
Recorded ==
    /\ \A o \in Orgs : leftAt[o] <= now /\ (o \in directory.mbs => leftAt[o] = 0)
    /\ pick # NoOrg => pick \in directory.mbs
    /\ changedAt <= now
    /\ heard => changedAt # 0

\* No time in a cookie is in the future, and its end is one life away at most.
Dated ==
    jar # NoSession =>
        /\ jar.lv <= now /\ jar.at <= now /\ jar.slid <= now
        /\ jar.exp <= now + SessionTTL

Vouched ==
    jar # NoSession =>
        /\ jar.org = NoOrg \/ jar.org \in jar.mbs
        /\ \A o \in jar.mbs : ~LeftBefore(o, jar.at)
        /\ jar.org = NoOrg => AllowEmptyMembership \/ jar.funnel

Resolved ==
    (jar # NoSession /\ ReresolveOnRevalidate) =>
        jar.exp <= jar.at + SessionTTL \/ jar.exp <= jar.slid + SessionTTL

Read ==
    (/\ ReresolveOnRevalidate /\ changedAt # 0
     /\ jar # NoSession /\ jar.id # claims /\ ~jar.unread) =>
        jar.exp <= changedAt + SessionTTL

Inv ==
    /\ TypeOK /\ Recorded /\ Dated /\ Vouched /\ Resolved /\ Read
    /\ PickKept /\ GateEndsSession

-----------------------------------------------------------------------------
(* The answers of the resolver.                                            *)

\* An answer that places the person: in one of the directory's organizations, or
\* in none where that is allowed.
Places(a, orgless) ==
    /\ a.verdict = "admitted" /\ a.mbs = directory.mbs
    /\ \/ a.org \in a.mbs
       \/ a.org = NoOrg /\ a.mbs = {} /\ orgless

(* admitIdentity admits nobody whom a gate refuses, and whomever it does   *)
(* admit it places where the directory says.                               *)
LEMMA AdmitIdentityFacts ==
    ASSUME NEW id, NEW answer \in ResolverAnswers, NEW a, a = AdmitIdentity(id, answer)
    PROVE  /\ a.verdict \in {"refused", "failed", "admitted"}
           /\ ~Gates(id) => a.verdict = "refused"
           /\ a.verdict = "admitted" =>
                 Places(a, RedirectTarget(a.landing) \/ AllowEmptyMembership)
  <1>1. answer \in Resolver(directory) =>
            \/ answer = Refused
            \/ Places(answer, RedirectTarget(answer.landing) \/ AllowEmptyMembership)
    BY DEF Resolver, Places, Admitted, Refused
  <1>2. QED
    BY <1>1 DEF AdmitIdentity, ResolverAnswers, Places, Refused, Failed

(* Re-resolution admits nobody without an organization unless the          *)
(* configuration does.                                                     *)
LEMMA ReresolvedFacts ==
    ASSUME NEW id, NEW a \in Reresolved(id)
    PROVE  /\ a.verdict \in {"refused", "failed", "admitted", "not_asked"}
           /\ a.verdict = "admitted" => Places(a, AllowEmptyMembership) /\ a # NotAsked
           /\ a.verdict = "not_asked" => a = NotAsked /\ ~ReresolveOnRevalidate
           /\ ReresolveOnRevalidate /\ ~Gates(id) => a.verdict = "refused"
  <1>1. CASE ReresolveOnRevalidate
    <2>1. PICK answer \in ResolverAnswers : a = Reresolve(AdmitIdentity(id, answer))
      BY <1>1 DEF Reresolved
    <2> DEFINE b == AdmitIdentity(id, answer)
    <2>2. /\ b.verdict \in {"refused", "failed", "admitted"}
          /\ ~Gates(id) => b.verdict = "refused"
          /\ b.verdict = "admitted" =>
                 Places(b, RedirectTarget(b.landing) \/ AllowEmptyMembership)
      BY AdmitIdentityFacts
    <2>3. a = Reresolve(b)
      BY <2>1
    <2> HIDE DEF b
    <2>4. QED
      BY <1>1, <2>2, <2>3 DEF Reresolve, Places, Refused, NotAsked
  <1>2. CASE ~ReresolveOnRevalidate
    BY <1>2 DEF Reresolved, NotAsked
  <1>3. QED
    BY <1>1, <1>2

-----------------------------------------------------------------------------
(* What each write leaves in the cookie.                                   *)

\* Two cookies that place the same person in the same organizations.
SamePerson(p, q) ==
    /\ q.src = p.src /\ q.org = p.org /\ q.mbs = p.mbs /\ q.id = p.id /\ q.at = p.at
    /\ q.funnel = p.funnel

(* The backoff is shorter than the interval (transportBackoff).            *)
LEMMA BackoffRange ==
    /\ TransportBackoff \in Nat
    /\ RevalidateInterval > 0 => TransportBackoff < RevalidateInterval
  BY ConfigAssumption DEF TransportBackoff

(* The writes of a failure move no end and nobody.                         *)
LEMMA FailureShapes ==
    ASSUME NEW p \in Cookie, NEW n \in Nat, n >= Start, RevalidateInterval > 0, p.lv <= n,
           NEW q, q = SoftResolved(p, n) \/ q = PersistBackoff(p, n) \/ q = RetrySoft(p, n)
    PROVE  /\ q \in Cookie /\ q.exp = p.exp /\ q.lv <= n
           /\ q.slid = p.slid /\ q.unread = p.unread /\ SamePerson(p, q)
  <1> DEFINE r == n + TransportBackoff
             l == n + TransportBackoff - RevalidateInterval
  <1>1. r \in Nat /\ l \in Nat /\ l <= n
    BY BackoffRange, ConfigAssumption, TenancyAssumption
  <1>2. \/ q = [p EXCEPT !.lv = n, !.rra = r]
        \/ q = [p EXCEPT !.lv = l]
        \/ q = [p EXCEPT !.rra = r]
    BY DEF SoftResolved, PersistBackoff, RetrySoft
  <1> HIDE DEF r, l
  <1>3. CASE q = [p EXCEPT !.lv = n, !.rra = r]
    <2>1. q \in Cookie
      BY <1>1, <1>3 DEF Cookie
    <2>2. /\ q.exp = p.exp /\ q.lv = n /\ q.slid = p.slid /\ q.unread = p.unread
          /\ SamePerson(p, q)
      BY <1>3 DEF Cookie, SamePerson
    <2>3. QED
      BY <2>1, <2>2
  <1>4. CASE q = [p EXCEPT !.lv = l]
    BY <1>1, <1>4 DEF Cookie, SamePerson
  <1>5. CASE q = [p EXCEPT !.rra = r]
    BY <1>1, <1>5 DEF Cookie, SamePerson
  <1>6. QED
    BY <1>2, <1>3, <1>4, <1>5

(* A resolution that was asked for places the person where the answer says *)
(* and takes the identity it was asked about; no deadline moves.           *)
LEMMA ApplyResolutionShape ==
    ASSUME NEW p \in Cookie, NEW id \in Claims, now \in Nat, directory \in Directories,
           NEW a, a # NotAsked, Places(a, AllowEmptyMembership),
           NEW q, q = ApplyResolution(p, a, id)
    PROVE  /\ q \in Cookie
           /\ q.exp = p.exp /\ q.lv = p.lv /\ q.src = p.src /\ q.slid = p.slid
           /\ q.id = id /\ q.at = now /\ q.mbs = directory.mbs
           /\ IF p.org \in directory.mbs THEN q.org = p.org ELSE q.org = a.org
           /\ q.org \in directory.mbs \/ (q.org = NoOrg /\ AllowEmptyMembership)
  <1> DEFINE o == ActiveOrg(p, a)
  <1>1. /\ o \in Orgs \cup {NoOrg} /\ a.mbs \in SUBSET Orgs /\ a.mbs = directory.mbs
        /\ IF p.org \in directory.mbs THEN o = p.org ELSE o = a.org
        /\ o \in directory.mbs \/ (o = NoOrg /\ AllowEmptyMembership)
    BY DEF ActiveOrg, Places, Directories, Cookie
  <1>2. q = [p EXCEPT !.org = o, !.mbs = a.mbs, !.id = id, !.at = now, !.funnel = FALSE]
    BY DEF ApplyResolution
  <1> HIDE DEF o
  <1>3. QED
    BY <1>1, <1>2 DEF Cookie

\* The writes that extend a session's life, with the ghosts they set.
StampedRead(p, n) == [Stamped(p, n) EXCEPT !.unread = FALSE]
StampedUnread(p, n) == [Stamped(p, n) EXCEPT !.unread = TRUE]
RetriedUnread(p, n) == [RetryApplied(p, n) EXCEPT !.unread = TRUE]
SyncedUnread(p, n) == [SyncStamped(p, n, NoToken) EXCEPT !.slid = n, !.unread = TRUE]

(* A grant that leaves nothing to resolve slides the session.              *)
LEMMA StampedShape ==
    ASSUME NEW p \in Cookie, NEW n \in Nat,
           NEW q, q = StampedRead(p, n) \/ q = StampedUnread(p, n)
    PROVE  /\ q \in Cookie /\ q.exp = n + SessionTTL /\ q.lv = n
           /\ q = StampedUnread(p, n) => q.unread
           /\ q.slid = p.slid /\ SamePerson(p, q)
  <1> DEFINE e == n + SessionTTL
             z == 0
  <1>1. e \in Nat /\ z \in Nat
    BY ConfigAssumption
  <1>2. PICK u \in BOOLEAN :
            /\ q = [[p EXCEPT !.rra = z, !.lv = n, !.exp = e] EXCEPT !.unread = u]
            /\ q = StampedUnread(p, n) => u
    BY DEF StampedRead, StampedUnread, Stamped
  <1> HIDE DEF e, z
  <1>3. /\ q \in Cookie /\ q.exp = e /\ q.lv = n /\ q.unread = u
        /\ q.slid = p.slid /\ SamePerson(p, q)
    BY <1>1, <1>2 DEF Cookie, SamePerson
  <1>4. QED
    BY <1>2, <1>3 DEF e

(* A resolver retry that was answered slides it to what the last check     *)
(* allows, and reads no ID token.                                          *)
LEMMA RetryAppliedShape ==
    ASSUME NEW p \in Cookie, NEW n \in Nat,
           NEW q, q = RetriedUnread(p, n)
    PROVE  /\ q \in Cookie /\ q.lv = p.lv /\ q.unread
           /\ q.exp = p.exp \/ q.exp = p.lv + SessionTTL
           /\ q.slid = p.slid /\ SamePerson(p, q)
  <1> DEFINE e == IF p.lv + SessionTTL > p.exp THEN p.lv + SessionTTL ELSE p.exp
             z == 0
  <1>1. e \in Nat /\ z \in Nat /\ (e = p.exp \/ e = p.lv + SessionTTL)
    BY ConfigAssumption DEF Cookie
  <1>2. q = [[p EXCEPT !.rra = z, !.exp = e] EXCEPT !.unread = TRUE]
    BY DEF RetriedUnread, RetryApplied
  <1> HIDE DEF e, z
  <1>3. QED
    BY <1>1, <1>2 DEF Cookie, SamePerson

(* A sync slides it, and says so.                                          *)
LEMMA SyncStampedShape ==
    ASSUME NEW p \in Cookie, NEW n \in Nat,
           NEW q, q = SyncedUnread(p, n)
    PROVE  /\ q \in Cookie /\ q.exp = n + SessionTTL /\ q.lv = n
           /\ q.slid = n /\ q.unread
           /\ SamePerson(p, q)
  <1> DEFINE e == n + SessionTTL
             t == IF RetainTokens /\ ~IsGrantMinted(p) /\ NoToken # NoToken THEN NoToken ELSE p.rt
  <1>1. e \in Nat /\ t \in {"rt", NoToken}
    BY ConfigAssumption DEF Cookie
  <1>2. q = [[p EXCEPT !.lv = n, !.exp = e, !.rt = t] EXCEPT !.slid = n, !.unread = TRUE]
    BY DEF SyncedUnread, SyncStamped
  <1> HIDE DEF e, t
  <1>3. q \in Cookie /\ q.exp = e /\ q.lv = n /\ q.slid = n /\ q.unread
        /\ SamePerson(p, q)
    BY <1>1, <1>2 DEF Cookie, SamePerson
  <1>4. QED
    BY <1>3 DEF e
-----------------------------------------------------------------------------
(* One lemma per action.                                                   *)

(* Time passes: nothing in the cookie moves.                               *)
LEMMA TickStep ==
    ASSUME Inv, Tick
    PROVE  Inv'
  <1>1. now' \in Nat /\ now' > now
    BY DEF Inv, TypeOK, Tick
  <1>2. TypeOK' /\ Recorded' /\ Dated'
    BY <1>1, ConfigAssumption, TenancyAssumption
    DEF Inv, TypeOK, Recorded, Dated, Cookie, Tick
  <1>3. QED
    BY <1>2 DEF Inv, Vouched, Resolved, Read, PickKept, GateEndsSession, LeftBefore, Tick

(* Memberships change: whoever leaves an organization leaves it now, which is *)
(* not before any answer a cookie has.                                     *)
LEMMA ChangeDirectoryStep ==
    ASSUME Inv, ChangeDirectory
    PROVE  Inv'
  <1>1. TypeOK' /\ Recorded'
    BY DEF Inv, TypeOK, Recorded, ChangeDirectory, Directories
  <1>2. Vouched'
    BY TenancyAssumption
    DEF Inv, TypeOK, Recorded, Dated, Vouched, LeftBefore, Cookie, ChangeDirectory, Directories
  <1>3. Dated' /\ Resolved' /\ Read' /\ PickKept' /\ GateEndsSession'
    BY DEF Inv, Dated, Resolved, Read, PickKept, GateEndsSession, ChangeDirectory
  <1>4. QED
    BY <1>1, <1>2, <1>3 DEF Inv

(* The claims change: every cookie there is ends within a life of that.    *)
LEMMA ChangeClaimsStep ==
    ASSUME Inv, ChangeClaims
    PROVE  Inv'
  <1>1. TypeOK' /\ Recorded'
    BY TenancyAssumption DEF Inv, TypeOK, Recorded, Claims, ChangeClaims
  <1>2. Read' /\ GateEndsSession'
    BY DEF Inv, Recorded, Dated, Read, GateEndsSession, ChangeClaims
  <1>3. Dated' /\ Vouched' /\ Resolved' /\ PickKept'
    BY DEF Inv, Dated, Vouched, Resolved, PickKept, LeftBefore, ChangeClaims
  <1>4. QED
    BY <1>1, <1>2, <1>3 DEF Inv

(* A new cookie: the directory's word, the IdP's word and its life all begin *)
(* now.                                                                    *)
LEMMA MintStep ==
    ASSUME Inv, NEW org, NEW rt \in {"rt", NoToken}, NEW src \in {"code", "grant"},
           NEW funnel \in BOOLEAN,
           org \in directory.mbs \/ (org = NoOrg /\ (AllowEmptyMembership \/ funnel)),
           src = "code" => Gates(claims),
           Mint(org, directory.mbs, rt, src, funnel)
    PROVE  Inv'
  <1> DEFINE e == now + SessionTTL
             z == 0
             q == [exp |-> e, lv |-> now, rra |-> z, rt |-> rt, src |-> src, org |-> org,
                   mbs |-> directory.mbs, id |-> claims, at |-> now, slid |-> z,
                   unread |-> FALSE, funnel |-> funnel]
  <1>1. e \in Nat /\ z \in Nat /\ z <= now /\ e <= now + SessionTTL /\ now \in Nat
    BY ConfigAssumption DEF Inv, TypeOK
  <1>2. /\ jar' = q /\ heard' = FALSE /\ pick' = NoOrg
        /\ UNCHANGED <<now, directory, leftAt, claims, changedAt>>
    BY DEF Mint
  <1> HIDE DEF e, z
  <1>3. q \in Cookie
    BY <1>1 DEF Inv, TypeOK, Directories, Cookie
  <1>4. TypeOK' /\ Recorded' /\ PickKept'
    BY <1>2, <1>3 DEF Inv, TypeOK, Recorded, PickKept
  <1>5. Dated' /\ Resolved' /\ Read' /\ GateEndsSession'
    BY <1>1, <1>2 DEF Dated, Resolved, Read, GateEndsSession, e
  <1>6. Vouched'
    BY <1>2, TenancyAssumption DEF Inv, TypeOK, Recorded, Vouched, LeftBefore, Directories
  <1>7. QED
    BY <1>4, <1>5, <1>6 DEF Inv

(* A login mints what admitIdentity admitted.                              *)
LEMMA HandleLoginCallbackStep ==
    ASSUME Inv, HandleLoginCallback
    PROVE  Inv'
  <1>1. PICK answer \in ResolverAnswers :
            LET a == AdmitIdentity(claims, answer) IN
            /\ a.verdict = "admitted"
            /\ Mint(a.org, a.mbs, IF RetainTokens THEN "rt" ELSE NoToken, "code",
                    RedirectTarget(a.landing))
    BY DEF HandleLoginCallback
  <1> DEFINE a == AdmitIdentity(claims, answer)
             rt == IF RetainTokens THEN "rt" ELSE NoToken
             funnel == RedirectTarget(a.landing)
  <1>2. Gates(claims) /\ Places(a, funnel \/ AllowEmptyMembership)
    BY <1>1, AdmitIdentityFacts
  <1>3. rt \in {"rt", NoToken} /\ funnel \in BOOLEAN
    BY DEF RedirectTarget
  <1>4. /\ a.org \in directory.mbs \/ (a.org = NoOrg /\ (AllowEmptyMembership \/ funnel))
        /\ Mint(a.org, directory.mbs, rt, "code", funnel)
    BY <1>1, <1>2 DEF Places
  <1> HIDE DEF a, rt, funnel
  <1>5. QED
    BY <1>2, <1>3, <1>4, MintStep

(* IssueSession mints a session in one of the person's organizations.      *)
LEMMA IssueSessionStep ==
    ASSUME Inv, IssueSession
    PROVE  Inv'
  BY MintStep DEF IssueSession

(* Signing out leaves no cookie to say anything about.                     *)
LEMMA ClearStep ==
    ASSUME Inv, ClearSession, heard' \in BOOLEAN, heard' => changedAt # 0,
           UNCHANGED <<now, directory, leftAt, claims, changedAt>>
    PROVE  Inv'
  BY DEF ClearSession, Inv, TypeOK, Recorded, Dated, Vouched, Resolved, Read, PickKept,
         GateEndsSession

(* A cookie that places the same person and lasts no longer, or one the browser *)
(* did not take.                                                           *)
LEMMA FailureStep ==
    ASSUME Inv, jar # NoSession, RevalidateInterval > 0,
           \/ WriteSession(SoftResolved(jar, now))
           \/ WriteSession(PersistBackoff(jar, now))
           \/ WriteSession(RetrySoft(jar, now)),
           heard' \in BOOLEAN, heard' => changedAt # 0,
           ReresolveOnRevalidate /\ changedAt # 0 /\ ~Gates(claims) => heard' = heard,
           UNCHANGED <<now, directory, leftAt, claims, changedAt, pick>>
    PROVE  Inv'
  <1>1. jar \in Cookie /\ jar.lv <= now /\ now \in Nat /\ now >= Start
    BY DEF Inv, TypeOK, Dated
  <1>2. /\ jar' \in Cookie /\ jar'.exp = jar.exp /\ jar'.lv <= now
        /\ jar'.slid = jar.slid /\ jar'.unread = jar.unread /\ SamePerson(jar, jar')
    <2>1. CASE jar' = jar
      BY <1>1, <2>1 DEF SamePerson
    <2>2. CASE jar' # jar
      BY <1>1, <2>2, FailureShapes DEF WriteSession
    <2>3. QED
      BY <2>1, <2>2
  <1>3. TypeOK' /\ Recorded'
    BY <1>2 DEF Inv, TypeOK, Recorded
  <1>4. Dated' /\ Resolved' /\ Read' /\ PickKept' /\ GateEndsSession'
    BY <1>2 DEF Inv, Dated, Resolved, Read, PickKept, GateEndsSession, SamePerson
  <1>5. Vouched'
    BY <1>2 DEF Inv, Vouched, LeftBefore, SamePerson
  <1>6. QED
    BY <1>3, <1>4, <1>5 DEF Inv

(* An answered check: whoever was asked about is placed by the directory's word *)
(* of now, and the cookie ends within a life of it; a pick survives if its *)
(* organization is still listed.  A cookie that claims to have been read carries *)
(* the IdP's word of now.                                                  *)
LEMMA AnsweredStep ==
    ASSUME Inv, jar # NoSession, NEW id \in Claims, NEW a, a # NotAsked,
           Places(a, AllowEmptyMembership), NEW r, r = ApplyResolution(jar, a, id),
           jar' \in Cookie, jar'.unread \/ id = claims,
           jar'.exp <= now + SessionTTL, jar'.lv <= now,
           jar'.slid = r.slid, SamePerson(r, jar'),
           heard' \in BOOLEAN, heard' => changedAt # 0,
           ReresolveOnRevalidate /\ changedAt # 0 /\ ~Gates(claims) => heard' = heard,
           UNCHANGED <<now, directory, leftAt, claims, changedAt, pick>>
    PROVE  Inv'
  <1>1. jar \in Cookie /\ now \in Nat /\ directory \in Directories
    BY DEF Inv, TypeOK
  <1>2. /\ r \in Cookie
        /\ r.exp = jar.exp /\ r.lv = jar.lv /\ r.src = jar.src /\ r.slid = jar.slid
        /\ r.id = id /\ r.at = now /\ r.mbs = directory.mbs
        /\ IF jar.org \in directory.mbs THEN r.org = jar.org ELSE r.org = a.org
        /\ r.org \in directory.mbs \/ (r.org = NoOrg /\ AllowEmptyMembership)
    BY <1>1, ApplyResolutionShape
  <1>3. /\ jar'.src = jar.src /\ jar'.slid = jar.slid /\ jar'.id = id /\ jar'.at = now
        /\ jar'.mbs = directory.mbs /\ jar'.org = r.org
    BY <1>2 DEF SamePerson
  <1>4. TypeOK' /\ Recorded'
    BY DEF Inv, TypeOK, Recorded
  <1>5. Dated' /\ Resolved' /\ Read'
    BY <1>1, <1>3 DEF Inv, Dated, Resolved, Read
  <1>6. PickKept' /\ GateEndsSession'
    BY <1>2, <1>3 DEF Inv, Recorded, PickKept, GateEndsSession
  <1>7. Vouched'
    BY <1>2, <1>3, TenancyAssumption
    DEF Inv, TypeOK, Recorded, Vouched, LeftBefore, Directories
  <1>8. QED
    BY <1>4, <1>5, <1>6, <1>7 DEF Inv

(* A grant slides the session of whoever is not asked about again.         *)
LEMMA NotAskedStep ==
    ASSUME Inv, jar # NoSession, ~ReresolveOnRevalidate,
           jar' = StampedUnread(jar, now) \/ jar' = StampedRead(jar, now),
           heard' \in BOOLEAN, heard' => changedAt # 0,
           UNCHANGED <<now, directory, leftAt, claims, changedAt, pick>>
    PROVE  Inv'
  <1>1. jar \in Cookie /\ now \in Nat
    BY DEF Inv, TypeOK
  <1>2. /\ jar' \in Cookie /\ jar'.exp = now + SessionTTL /\ jar'.lv = now
        /\ jar'.slid = jar.slid /\ SamePerson(jar, jar')
    BY <1>1, StampedShape
  <1>3. TypeOK' /\ Recorded'
    BY <1>2 DEF Inv, TypeOK, Recorded
  <1>4. Dated' /\ Resolved' /\ Read' /\ PickKept' /\ GateEndsSession'
    BY <1>1, <1>2, ConfigAssumption
    DEF Inv, Dated, Resolved, Read, PickKept, GateEndsSession, SamePerson
  <1>5. Vouched'
    BY <1>2 DEF Inv, Vouched, LeftBefore, SamePerson
  <1>6. QED
    BY <1>3, <1>4, <1>5 DEF Inv

(* The browser keeps the cookie it has.                                    *)
LEMMA UnwrittenStep ==
    ASSUME Inv, jar' = jar,
           heard' \in BOOLEAN, heard' => changedAt # 0,
           ReresolveOnRevalidate /\ changedAt # 0 /\ ~Gates(claims) => heard' = heard,
           UNCHANGED <<now, directory, leftAt, claims, changedAt, pick>>
    PROVE  Inv'
  BY DEF Inv, TypeOK, Recorded, Dated, Vouched, Resolved, Read, PickKept, GateEndsSession,
         LeftBefore

(* A grant: an ID token that a gate refuses ends the session whatever the  *)
(* directory does, so only one that passes the gates is ever heard by a session *)
(* that goes on.                                                           *)
LEMMA RevalidateAtIdPStep ==
    ASSUME Inv, RevalidateAtIdP
    PROVE  Inv'
  <1>1. PICK idToken \in BOOLEAN :
            /\ heard' = (heard \/ (idToken /\ changedAt # 0))
            /\ \E a \in Reresolved(RevalidationIdentity(idToken)) :
                 \/ a.verdict = "refused" /\ ClearSession
                 \/ /\ a.verdict = "failed"
                    /\ WriteSession(SoftResolved(jar, now)) /\ UNCHANGED pick
                 \/ /\ a.verdict \in {"admitted", "not_asked"}
                    /\ WriteSession(
                           [Stamped(ApplyResolution(jar, a, RevalidationIdentity(idToken)), now)
                              EXCEPT !.unread = ~idToken])
                    /\ UNCHANGED pick
    BY DEF RevalidateAtIdP
  <1> DEFINE id == RevalidationIdentity(idToken)
  <1>2. PICK a \in Reresolved(id) :
                 \/ a.verdict = "refused" /\ ClearSession
                 \/ /\ a.verdict = "failed"
                    /\ WriteSession(SoftResolved(jar, now)) /\ UNCHANGED pick
                 \/ /\ a.verdict \in {"admitted", "not_asked"}
                    /\ IF idToken THEN WriteSession(StampedRead(ApplyResolution(jar, a, id), now))
                                  ELSE WriteSession(StampedUnread(ApplyResolution(jar, a, id), now))
                    /\ UNCHANGED pick
    BY <1>1 DEF StampedRead, StampedUnread
  <1>3. /\ jar # NoSession /\ RevalidateInterval > 0
        /\ UNCHANGED <<now, directory, leftAt, claims, changedAt>>
    BY DEF RevalidateAtIdP, GrantDue, Live, FloorDue
  <1>4. /\ jar \in Cookie /\ now \in Nat /\ directory \in Directories
        /\ heard' \in BOOLEAN /\ (heard' => changedAt # 0)
    BY <1>1, <1>3 DEF Inv, TypeOK, Recorded
  <1>5. id \in Claims /\ (idToken => id = claims)
    BY <1>4 DEF Inv, TypeOK, RevalidationIdentity, Cookie
  <1>6. /\ a.verdict = "admitted" => Places(a, AllowEmptyMembership) /\ a # NotAsked
        /\ a.verdict = "not_asked" => a = NotAsked /\ ~ReresolveOnRevalidate
        /\ ReresolveOnRevalidate /\ ~Gates(id) => a.verdict = "refused"
    BY ReresolvedFacts
  <1>7. (ReresolveOnRevalidate /\ changedAt # 0 /\ ~Gates(claims)) =>
            heard' = heard \/ a.verdict = "refused"
    BY <1>1, <1>5, <1>6 DEF Inv, TypeOK
  <1> HIDE DEF id
  <1>8. CASE a.verdict = "refused" /\ ClearSession
    BY <1>3, <1>4, <1>8, ClearStep
  <1>9. CASE a.verdict = "failed" /\ WriteSession(SoftResolved(jar, now)) /\ UNCHANGED pick
    BY <1>3, <1>4, <1>7, <1>9, FailureStep
  <1>10. CASE /\ a.verdict \in {"admitted", "not_asked"}
              /\ IF idToken THEN WriteSession(StampedRead(ApplyResolution(jar, a, id), now))
                            ELSE WriteSession(StampedUnread(ApplyResolution(jar, a, id), now))
              /\ UNCHANGED pick
    <2>1. CASE jar' = jar
      BY <1>3, <1>4, <1>7, <1>10, <2>1, UnwrittenStep
    <2>2. CASE jar' # jar /\ a.verdict = "admitted"
      <3>1. PICK r : r = ApplyResolution(jar, a, id)
        OBVIOUS
      <3>2. r \in Cookie
        BY <1>4, <1>5, <1>6, <2>2, <3>1, ApplyResolutionShape
      <3>3. \/ jar' = StampedUnread(r, now)
            \/ idToken /\ jar' = StampedRead(r, now)
        BY <1>10, <2>2, <3>1 DEF WriteSession
      <3>4. /\ jar' \in Cookie /\ jar'.exp = now + SessionTTL /\ jar'.lv = now
            /\ jar'.slid = r.slid /\ SamePerson(r, jar')
            /\ jar'.unread \/ id = claims
        BY <1>4, <1>5, <3>2, <3>3, StampedShape
      <3>5. jar'.exp <= now + SessionTTL /\ jar'.lv <= now
        BY <1>4, <3>4, ConfigAssumption
      <3>6. QED
        BY <1>3, <1>4, <1>5, <1>6, <1>7, <1>10, <2>2, <3>1, <3>4, <3>5, AnsweredStep
    <2>3. CASE jar' # jar /\ a.verdict = "not_asked"
      <3>1. jar' = StampedUnread(jar, now) \/ jar' = StampedRead(jar, now)
        BY <1>6, <1>10, <2>3 DEF WriteSession, ApplyResolution
      <3>2. QED
        BY <1>3, <1>4, <1>5, <1>6, <1>10, <2>3, <3>1, NotAskedStep
    <2>4. QED
      BY <1>10, <2>1, <2>2, <2>3
  <1>11. QED
    BY <1>2, <1>8, <1>9, <1>10

(* A grant without a verdict, or refused.                                  *)
LEMMA RevalidationFailedStep ==
    ASSUME Inv, RevalidationFailed
    PROVE  Inv'
  <1>1. /\ jar # NoSession /\ RevalidateInterval > 0
        /\ UNCHANGED <<now, directory, leftAt, claims, changedAt, heard>>
    BY DEF RevalidationFailed, GrantDue, Live, FloorDue
  <1>2. heard' \in BOOLEAN /\ (heard' => changedAt # 0)
    BY <1>1 DEF Inv, TypeOK, Recorded
  <1>3. CASE WriteSession(PersistBackoff(jar, now)) /\ UNCHANGED pick
    BY <1>1, <1>2, <1>3, FailureStep
  <1>4. CASE ClearSession
    BY <1>1, <1>2, <1>4, ClearStep
  <1>5. QED
    BY <1>3, <1>4 DEF RevalidationFailed

(* A resolver retry: asked about the stored identity, it is never a reading. *)
LEMMA RetryResolutionStep ==
    ASSUME Inv, RetryResolution
    PROVE  Inv'
  <1> DEFINE id == jar.id
  <1>1. PICK a \in Reresolved(id) :
          \/ a.verdict = "refused" /\ ClearSession
          \/ /\ a.verdict = "failed"
             /\ WriteSession(RetrySoft(jar, now)) /\ UNCHANGED pick
          \/ /\ a.verdict = "admitted"
             /\ WriteSession([RetryApplied(ApplyResolution(jar, a, id), now)
                                EXCEPT !.unread = TRUE])
             /\ UNCHANGED pick
    BY DEF RetryResolution
  <1>2. /\ jar # NoSession /\ RevalidateInterval > 0
        /\ UNCHANGED <<now, directory, leftAt, claims, changedAt, heard>>
    BY ConfigAssumption DEF RetryResolution, RetryDue, Live, ResolveRetryDue
  <1>3. /\ jar \in Cookie /\ id \in Claims /\ now \in Nat /\ directory \in Directories
        /\ heard' \in BOOLEAN /\ (heard' => changedAt # 0)
    BY <1>2 DEF Inv, TypeOK, Recorded, Cookie
  <1>4. a.verdict = "admitted" => Places(a, AllowEmptyMembership) /\ a # NotAsked
    BY ReresolvedFacts
  <1> HIDE DEF id
  <1>5. CASE a.verdict = "refused" /\ ClearSession
    BY <1>2, <1>3, <1>5, ClearStep
  <1>6. CASE a.verdict = "failed" /\ WriteSession(RetrySoft(jar, now)) /\ UNCHANGED pick
    BY <1>2, <1>3, <1>6, FailureStep
  <1>7. CASE /\ a.verdict = "admitted"
             /\ WriteSession([RetryApplied(ApplyResolution(jar, a, id), now)
                                EXCEPT !.unread = TRUE])
             /\ UNCHANGED pick
    <2>1. CASE jar' = jar
      BY <1>2, <1>3, <1>7, <2>1, UnwrittenStep
    <2>2. CASE jar' # jar
      <3> DEFINE r == ApplyResolution(jar, a, id)
      <3>1. r \in Cookie /\ r.exp = jar.exp /\ r.lv = jar.lv
        BY <1>3, <1>4, <1>7, ApplyResolutionShape
      <3>2. jar' = RetriedUnread(r, now)
        BY <1>7, <2>2 DEF WriteSession, RetriedUnread
      <3> HIDE DEF r
      <3>3. /\ jar' \in Cookie /\ jar'.lv = r.lv /\ jar'.unread
            /\ jar'.exp = r.exp \/ jar'.exp = r.lv + SessionTTL
            /\ jar'.slid = r.slid /\ SamePerson(r, jar')
        BY <1>3, <3>1, <3>2, RetryAppliedShape
      <3>4. jar'.exp <= now + SessionTTL /\ jar'.lv <= now /\ jar'.unread = TRUE
        BY <1>2, <1>3, <3>1, <3>3, ConfigAssumption DEF Inv, Dated, Cookie
      <3>5. QED
        BY <1>2, <1>3, <1>4, <1>7, <3>3, <3>4, AnsweredStep DEF r
    <2>3. QED
      BY <2>1, <2>2
  <1>8. QED
    BY <1>1, <1>5, <1>6, <1>7

(* A pick comes from the cookie's memberships, which the directory gave.   *)
LEMMA UpdateSessionStep ==
    ASSUME Inv, UpdateSession
    PROVE  Inv'
  <1>1. PICK o \in jar.mbs :
            jar' = [jar EXCEPT !.org = o] /\ pick' = IF o \in directory.mbs THEN o ELSE NoOrg
    BY DEF UpdateSession
  <1>2. jar \in Cookie /\ UNCHANGED <<now, directory, leftAt, claims, changedAt, heard>>
    BY DEF UpdateSession, Live, Inv, TypeOK
  <1>3. /\ jar' \in Cookie /\ jar'.org = o /\ o \in Orgs
        /\ jar'.exp = jar.exp /\ jar'.lv = jar.lv /\ jar'.src = jar.src /\ jar'.mbs = jar.mbs
        /\ jar'.id = jar.id /\ jar'.at = jar.at /\ jar'.slid = jar.slid
        /\ jar'.unread = jar.unread
    BY <1>1, <1>2 DEF Cookie
  <1>4. TypeOK' /\ Recorded' /\ PickKept'
    BY <1>1, <1>2, <1>3 DEF Inv, TypeOK, Recorded, PickKept
  <1>5. Dated' /\ Resolved' /\ Read' /\ GateEndsSession'
    BY <1>2, <1>3 DEF UpdateSession, Live, Inv, Dated, Resolved, Read, GateEndsSession
  <1>6. Vouched'
    BY <1>1, <1>2, <1>3, TenancyAssumption DEF UpdateSession, Live, Inv, Vouched, LeftBefore
  <1>7. QED
    BY <1>4, <1>5, <1>6 DEF Inv

(* A sync slides the session, and records that it did without reading a token. *)
LEMMA HandleSyncCallbackStep ==
    ASSUME Inv, HandleSyncCallback
    PROVE  Inv'
  <1>1. /\ jar # NoSession
        /\ UNCHANGED <<now, directory, leftAt, claims, changedAt, heard>>
    BY DEF HandleSyncCallback, Live
  <1>2. jar \in Cookie /\ now \in Nat /\ heard' \in BOOLEAN /\ (heard' => changedAt # 0)
    BY <1>1 DEF Inv, TypeOK, Recorded
  <1>3. CASE ClearSession
    BY <1>1, <1>2, <1>3, ClearStep
  <1>4. CASE jar' = jar /\ UNCHANGED pick
    BY <1>1, <1>2, <1>4, UnwrittenStep
  <1>5. CASE jar' = SyncedUnread(jar, now) /\ UNCHANGED pick
    <2>1. /\ jar' \in Cookie /\ jar'.exp = now + SessionTTL /\ jar'.lv = now
          /\ jar'.slid = now /\ jar'.unread /\ SamePerson(jar, jar')
      BY <1>2, <1>5, SyncStampedShape
    <2>2. TypeOK' /\ Recorded'
      BY <1>1, <1>5, <2>1 DEF Inv, TypeOK, Recorded
    <2>3. Dated' /\ Resolved' /\ Read' /\ PickKept' /\ GateEndsSession'
      BY <1>1, <1>2, <1>5, <2>1, ConfigAssumption
      DEF Inv, Dated, Resolved, Read, PickKept, GateEndsSession, SamePerson
    <2>4. Vouched'
      BY <1>1, <2>1 DEF Inv, Vouched, LeftBefore, SamePerson
    <2>5. QED
      BY <2>2, <2>3, <2>4 DEF Inv
  <1>6. QED
    BY <1>3, <1>4, <1>5 DEF HandleSyncCallback, WriteSession, SyncedUnread

-----------------------------------------------------------------------------
(* Theorems.                                                               *)

(* The invariant holds of every run.                                       *)
THEOREM InvHolds == Spec => []Inv
  <1>1. Init => Inv
    <2> SUFFICES ASSUME Init PROVE Inv
      OBVIOUS
    <2>1. TypeOK
      <3>1. now \in Nat /\ now >= Start
        BY TenancyAssumption DEF Init
      <3>2. leftAt \in [Orgs -> Nat]
        BY DEF Init
      <3>3. claims \in Claims /\ changedAt \in Nat
        BY DEF Init, Claims
      <3>4. heard \in BOOLEAN /\ pick \in Orgs \cup {NoOrg}
        BY DEF Init
      <3>5. QED
        BY <3>1, <3>2, <3>3, <3>4 DEF Init, TypeOK
    <2>2. Recorded
      BY TenancyAssumption DEF Init, Recorded
    <2>3. QED
      BY <2>1, <2>2
      DEF Init, Inv, Dated, Vouched, Resolved, Read, PickKept, GateEndsSession
  <1>2. Inv /\ [Next]_vars => Inv'
    <2> SUFFICES ASSUME Inv, [Next]_vars PROVE Inv'
      OBVIOUS
    <2>1. CASE Tick
      BY <2>1, TickStep
    <2>2. CASE ChangeDirectory
      BY <2>2, ChangeDirectoryStep
    <2>3. CASE ChangeClaims
      BY <2>3, ChangeClaimsStep
    <2>4. CASE HandleLoginCallback
      BY <2>4, HandleLoginCallbackStep
    <2>5. CASE IssueSession
      BY <2>5, IssueSessionStep
    <2>6. CASE RevalidateAtIdP
      BY <2>6, RevalidateAtIdPStep
    <2>7. CASE RevalidationFailed
      BY <2>7, RevalidationFailedStep
    <2>8. CASE RetryResolution
      BY <2>8, RetryResolutionStep
    <2>9. CASE UpdateSession
      BY <2>9, UpdateSessionStep
    <2>10. CASE HandleSyncCallback
      BY <2>10, HandleSyncCallbackStep
    <2>11. CASE HandleLogout
      <3>1. heard' \in BOOLEAN /\ (heard' => changedAt # 0)
        BY <2>11 DEF HandleLogout, Inv, TypeOK, Recorded
      <3>2. QED
        BY <2>11, <3>1, ClearStep DEF HandleLogout
    <2>12. CASE UNCHANGED vars
      BY <2>12
      DEF vars, Inv, TypeOK, Recorded, Dated, Vouched, Resolved, Read, PickKept,
          GateEndsSession, LeftBefore
    <2>13. QED
      BY <2>1, <2>2, <2>3, <2>4, <2>5, <2>6, <2>7, <2>8, <2>9, <2>10, <2>11, <2>12 DEF Next
  <1>3. QED
    BY <1>1, <1>2, PTL DEF Spec

(* The organization a session acts for is one the directory placed the person *)
(* in when it last answered for the session (applyResolution, UpdateSession). *)
THEOREM SessionTenantVouched == Spec => []TenantVouched
  <1>1. Inv => TenantVouched
    BY DEF Inv, Vouched, TenantVouched, LeftBefore
  <1>2. QED
    BY <1>1, InvHolds, PTL

(* A removal is noticed within one SessionTTL, or within one of a session sync *)
(* (the bound that the configuration states for ReresolveOnRevalidate).    *)
THEOREM SessionRemovalBounded == Spec => []RemovalBounded
  <1>1. Inv => RemovalBounded
    <2> SUFFICES ASSUME Inv, ReresolveOnRevalidate, Live, LeftBefore(jar.org, now - SessionTTL)
                 PROVE  now <= jar.slid + SessionTTL
      BY DEF RemovalBounded
    <2>1. jar \in Cookie /\ now \in Nat /\ SessionTTL \in Nat /\ now <= jar.exp
      BY ConfigAssumption DEF Inv, TypeOK, Live, Expired, Cookie
    <2>2. jar.org \in Orgs /\ leftAt[jar.org] \in Nat /\ ~LeftBefore(jar.org, jar.at)
      BY <2>1 DEF Inv, TypeOK, Vouched, Live, LeftBefore, Cookie
    <2>3. jar.at < now - SessionTTL
      BY <2>1, <2>2 DEF LeftBefore, Cookie
    <2>4. QED
      BY <2>1, <2>3 DEF Inv, Resolved, Live, Cookie
  <1>2. QED
    BY <1>1, InvHolds, PTL

(* A session without an organization is one the configuration allows or one *)
(* whose login ended on a landing: revalidation makes none (reresolve).    *)
THEOREM SessionOrglessExplained == Spec => []OrglessExplained
  <1>1. Inv => OrglessExplained
    BY DEF Inv, Vouched, OrglessExplained, Live
  <1>2. QED
    BY <1>1, InvHolds, PTL

(* No revalidation, retry or sync moves a session off the organization picked *)
(* while the person stays in it.                                           *)
THEOREM SessionPickKept == Spec => []PickKept
  <1>1. Inv => PickKept
    BY DEF Inv
  <1>2. QED
    BY <1>1, InvHolds, PTL

(* The first ID token that fails a login gate ends the session, though the *)
(* directory be down (admitIdentity: the gates before the resolver).       *)
THEOREM GateRefusalEndsSession == Spec => []GateEndsSession
  <1>1. Inv => GateEndsSession
    BY DEF Inv
  <1>2. QED
    BY <1>1, InvHolds, PTL

(* RequireStaff closes within one SessionTTL of the role or the address being *)
(* lost, unless the session's life was extended without an ID token.       *)
THEOREM StaffGateBounded == Spec => []StaffBounded
  <1>1. Inv => StaffBounded
    <2> SUFFICES ASSUME Inv, ReresolveOnRevalidate, changedAt # 0,
                        changedAt < now - SessionTTL, RequireStaff, ~Check(claims),
                        ~jar.unread
                 PROVE  FALSE
      BY DEF StaffBounded
    <2>1. /\ jar # NoSession /\ jar \in Cookie /\ jar.id # claims
          /\ now <= jar.exp /\ now \in Nat /\ changedAt \in Nat /\ SessionTTL \in Nat
      BY ConfigAssumption DEF Inv, TypeOK, RequireStaff, Live, Expired, Cookie
    <2>2. QED
      BY <2>1 DEF Inv, Read, Cookie
  <1>2. QED
    BY <1>1, InvHolds, PTL
=============================================================================
