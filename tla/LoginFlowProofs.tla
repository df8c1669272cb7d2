-------------------------- MODULE LoginFlowProofs --------------------------
(***************************************************************************)
(* Proofs about the round trips of one browser, for any number of tabs,    *)
(* users and SSO sessions, any lifetime of the flow cookies, any max_age   *)
(* and skew, and whatever cookies other hosts of the site have set.        *)
(*                                                                         *)
(* The server keeps nothing, so everything rests on what the cookies say   *)
(* together.  Held: whoever's state cookie the browser has, the marker     *)
(* beside it is that flow's as well.  Undisturbed: a flow that nobody has  *)
(* got in the way of has its own state and PKCE cookies.  Current: a       *)
(* session that learnt its sid from a sync did so before the flow that     *)
(* holds the state cookie was answered, so the answer is no older.         *)
(***************************************************************************)
EXTENDS LoginFlow, FiniteSetTheorems, TLAPS

CookieRecords == [of : Flows, age : Nat, at : Nat]

Sessions == [sub : Users, sid : Nat, aut : Nat, src : {"code", "grant"}, sso : Nat]

Replies == [error : {"server_error", "login_required", None}, sub : Users \cup {None},
            sid : Nat, aut : Nat]

Verdicts == SyncOutcomes \cup LoginOutcomes

Responses ==
    [session : [write : BOOLEAN, to : Sessions \cup {None}],
     clears : SUBSET CookieNames, judged : Sessions \cup {None}]

Phases == {"idle", "authorizing", "returning", "answering", "finished"}

TypeOK ==
    /\ now \in Nat /\ ssoCount \in Nat
    /\ cookies \in [CookieNames -> CookieRecords \cup {None}]
    /\ session \in Sessions \cup {None}
    /\ sso \in [sub : Users, sid : Nat, aut : Nat] \cup {None}
    /\ kind \in [Flows -> {"login", "stepup", "sync"}]
    /\ phase \in [Flows -> Phases]
    /\ started \in [Flows -> Nat]
    /\ reply \in [Flows -> Replies \cup {None}]
    /\ outcome \in [Flows -> Verdicts \cup {None}]
    /\ response \in [Flows -> Responses \cup {None}]
    /\ rivals \in [Flows -> SUBSET Flows]

\* Each part of a round trip is there in its phase and gone after it.  A response
\* that clears a flow cookie clears the state cookie too.
Phased ==
    \A f \in Flows :
        /\ phase[f] = "returning" => reply[f] \in Replies
        /\ phase[f] = "answering" =>
              /\ response[f] \in Responses
              /\ response[f].clears = {} \/ "state" \in response[f].clears
        /\ outcome[f] # None => phase[f] = "answering"

\* The browser's state cookie is f's.
Holds(f) == cookies["state"] # None /\ cookies["state"].of = f

Held ==
    \A f \in Flows : (f \in Pending /\ Holds(f)) =>
        /\ cookies["state"].at = started[f]
        /\ kind[f] = "login" => cookies["max_age"] = None
        /\ kind[f] = "stepup" =>
              cookies["max_age"] = [of |-> f, age |-> StepUpMaxAge, at |-> started[f]]
        /\ kind[f] = "sync" => cookies["sync"] = [of |-> f, age |-> 0, at |-> started[f]]

Undisturbed ==
    \A f \in Flows : (f \in Pending /\ rivals[f] = {}) =>
        /\ cookies["state"] = [of |-> f, age |-> 0, at |-> started[f]]
        /\ cookies["pkce"] = [of |-> f, age |-> 0, at |-> started[f]]

\* Where the sid of a browser's session comes from: no SSO session is newer than
\* the last one, and one learnt from a sync is no older than the session's own.
Known(s) ==
    (s # None /\ s.src = "code") =>
        /\ s.sid <= ssoCount /\ s.sso <= ssoCount
        /\ s.sid = 0 => s.sso <= 1
        /\ s.sid # 0 => s.sso <= s.sid

AllKnown ==
    /\ sso # None => sso.sid = ssoCount /\ ssoCount > 0
    /\ Known(session)
    /\ \A g \in Flows : phase[g] = "answering" => Known(response[g].session.to)
    /\ \A f \in Flows :
          (phase[f] = "returning" /\ reply[f].error = None) =>
              reply[f].sub \in Users /\ 0 < reply[f].sid /\ reply[f].sid <= ssoCount

\* A session that learnt its sid learnt it no later than SSO session k.
LearntBy(s, k) ==
    (s # None /\ s.src = "code" /\ s.sid # 0) => s.sid = s.sso \/ s.sid <= k

Current ==
    \A f \in Flows :
        (phase[f] = "returning" /\ Holds(f) /\ reply[f].error = None) =>
            /\ LearntBy(session, reply[f].sid)
            /\ \A g \in Flows :
                  phase[g] = "answering" => LearntBy(response[g].session.to, reply[f].sid)

Inv ==
    /\ TypeOK /\ Phased /\ Held /\ Undisturbed /\ AllKnown /\ Current
    /\ StepUpHonoured /\ LoginLostHasCause /\ SoleCookiesDecide /\ SyncEndsOnEvidence

-----------------------------------------------------------------------------
(* Cookies of one name (cookieguard.go).                                   *)

(* uniqueCookie: where it does not report several, there is at most one.   *)
LEMMA SoleCookie ==
    ASSUME NEW n, ~Duplicate(n), NEW x \in Sent(n), NEW y \in Sent(n)
    PROVE  x = y
  <1>1. SUFFICES ASSUME x # y PROVE FALSE
    OBVIOUS
  <1>2. Sent(n) \subseteq {cookies[n], Foreign}
    BY DEF Sent, Own
  <1>3. IsFiniteSet({cookies[n], Foreign})
    <2>1. IsFiniteSet({cookies[n]} \cup {Foreign})
      BY FS_Singleton, FS_AddElement
    <2>2. {cookies[n]} \cup {Foreign} = {cookies[n], Foreign}
      OBVIOUS
    <2>3. QED
      BY <2>1, <2>2
  <1>4. IsFiniteSet(Sent(n))
    BY <1>2, <1>3, FS_Subset
  <1>5. IsFiniteSet({x, y}) /\ Cardinality({x, y}) = 2
    <2>1. IsFiniteSet({y}) /\ Cardinality({y}) = 1
      BY FS_Singleton
    <2>2. /\ IsFiniteSet({y} \cup {x})
          /\ Cardinality({y} \cup {x}) = Cardinality({y}) + 1
      BY <1>1, <2>1, FS_AddElement
    <2>3. {y} \cup {x} = {x, y}
      OBVIOUS
    <2>4. QED
      BY <2>1, <2>2, <2>3
  <1>6. Cardinality({x, y}) <= Cardinality(Sent(n)) /\ Cardinality(Sent(n)) \in Nat
    BY <1>4, FS_Subset, FS_CardinalityType
  <1>7. QED
    BY <1>5, <1>6 DEF Duplicate

(* It reports several only where another host has a cookie of the name.    *)
LEMMA DuplicateIsShadow ==
    ASSUME NEW n, Duplicate(n)
    PROVE  n \in shadow
  <1>1. SUFFICES ASSUME n \notin shadow PROVE FALSE
    OBVIOUS
  <1>2. Sent(n) \subseteq {cookies[n]}
    BY <1>1 DEF Sent, Own
  <1>3. IsFiniteSet({cookies[n]}) /\ Cardinality({cookies[n]}) = 1
    BY FS_Singleton
  <1>4. Cardinality(Sent(n)) <= 1 /\ Cardinality(Sent(n)) \in Nat
    BY <1>2, <1>3, FS_Subset, FS_CardinalityType
  <1>5. QED
    BY <1>4 DEF Duplicate

(* The only cookie of a name, when it is a flow's, is the browser's own    *)
(* and has not run out, and no other host has one.                         *)
LEMMA SoleIsOwn ==
    ASSUME NEW n, NEW f \in Flows, ~Duplicate(n), ~Missing(n), Carried(n).of = f
    PROVE  /\ n \notin shadow
           /\ cookies[n] # None /\ Carried(n) = cookies[n]
           /\ now - cookies[n].at < OIDCCookieMaxAge
  <1>1. Carried(n) \in Sent(n)
    BY DEF Missing, Carried
  <1>2. Foreign.of # f
    BY LoginFlowAssumption DEF Foreign
  <1>3. Carried(n) \in Own(n)
    BY <1>1, <1>2 DEF Sent
  <1>4. n \notin shadow
    BY <1>1, <1>2, SoleCookie DEF Sent
  <1>5. QED
    BY <1>3, <1>4 DEF Own

(* A flow cookie that is there and has not run out is sent.                *)
LEMMA OwnIsSent ==
    ASSUME NEW n, cookies[n] # None, now - cookies[n].at < OIDCCookieMaxAge
    PROVE  cookies[n] \in Sent(n) /\ ~Missing(n)
  BY DEF Sent, Own, Missing

-----------------------------------------------------------------------------
(* What the callbacks decide.                                              *)

(* The cookies of whoever passes the state check: no other host has them,  *)
(* and they are the ones this flow set when it started.                    *)
LEMMA PassedState ==
    ASSUME Inv, NEW f \in Flows, phase[f] = "returning",
           ~Duplicate("state"), ~Missing("state"), Carried("state").of = f
    PROVE  /\ "state" \notin shadow /\ Holds(f)
           /\ now - started[f] < OIDCCookieMaxAge
           /\ kind[f] = "login" => cookies["max_age"] = None
           /\ kind[f] = "stepup" =>
                cookies["max_age"] = [of |-> f, age |-> StepUpMaxAge, at |-> started[f]]
           /\ kind[f] = "sync" => cookies["sync"] = [of |-> f, age |-> 0, at |-> started[f]]
  <1>1. f \in Pending
    BY DEF Pending
  <1>2. /\ "state" \notin shadow
        /\ cookies["state"] # None /\ cookies["state"].of = f
        /\ now - cookies["state"].at < OIDCCookieMaxAge
    BY SoleIsOwn
  <1>3. QED
    BY <1>1, <1>2 DEF Inv, Held, Holds

(* A minted step-up was measured against its own marker.                   *)
LEMMA MintedFacts ==
    ASSUME Inv, NEW f \in Flows, phase[f] = "returning", NEW admitted \in BOOLEAN,
           LoginVerdict(f, admitted) = "minted"
    PROVE  /\ reply[f].error = None /\ Holds(f)
           /\ "state" \notin shadow /\ "pkce" \notin shadow
           /\ kind[f] = "stepup" =>
                /\ "max_age" \notin shadow
                /\ reply[f].aut # 0
                /\ reply[f].aut >= started[f] - StepUpMaxAge - AuthTimeSkew
  <1>1. /\ ~Duplicate("state") /\ ~Duplicate("pkce") /\ ~Missing("state") /\ ~Missing("pkce")
        /\ reply[f].error = None /\ Carried("state").of = f /\ Carried("pkce").of = f
        /\ VerifyRequestedMaxAge(f)
    BY DEF LoginVerdict, Exchange
  <1>2. "pkce" \notin shadow
    BY <1>1, SoleIsOwn
  <1>3. /\ "state" \notin shadow /\ Holds(f)
        /\ now - started[f] < OIDCCookieMaxAge
        /\ kind[f] = "stepup" =>
             cookies["max_age"] = [of |-> f, age |-> StepUpMaxAge, at |-> started[f]]
    BY <1>1, PassedState
  <1>4. ASSUME kind[f] = "stepup"
        PROVE  /\ "max_age" \notin shadow
               /\ CheckAuthTime(reply[f].aut, StepUpMaxAge, started[f])
    <2> DEFINE c == [of |-> f, age |-> StepUpMaxAge, at |-> started[f]]
    <2>1. c # None /\ cookies["max_age"] = c /\ c.of = f /\ c.age = StepUpMaxAge
          /\ c.at = started[f]
      BY <1>3, <1>4, LoginFlowAssumption DEF Inv, TypeOK
    <2> HIDE DEF c
    <2>2. c \in Sent("max_age") /\ ~Missing("max_age")
      BY <1>3, <2>1, OwnIsSent
    <2>3. ~Duplicate("max_age")
      BY <1>1 DEF VerifyRequestedMaxAge
    <2>4. Carried("max_age") \in Sent("max_age")
      BY <2>2 DEF Carried, Missing
    <2>5. Carried("max_age") = c
      BY <2>2, <2>3, <2>4, SoleCookie
    <2>6. "max_age" \notin shadow
      BY <2>1, <2>2, <2>3, <2>5, SoleIsOwn
    <2>7. CheckAuthTime(reply[f].aut, c.age, c.at)
      BY <1>1, <2>2, <2>5 DEF VerifyRequestedMaxAge
    <2>8. QED
      BY <2>1, <2>6, <2>7
  <1>5. QED
    BY <1>1, <1>2, <1>3, <1>4 DEF CheckAuthTime

(* A login that is turned away for its cookies has a rival, an age or a    *)
(* shadow to blame.                                                        *)
LEMMA LostFacts ==
    ASSUME Inv, NEW f \in Flows, phase[f] = "returning", NEW admitted \in BOOLEAN,
           LoginVerdict(f, admitted) \in
               {"missing", "duplicate", "state_mismatch", "exchange_failed"}
    PROVE  \/ rivals[f] # {} \/ now - started[f] >= OIDCCookieMaxAge
           \/ shadow \cap {"state", "pkce"} # {}
  <1> SUFFICES ASSUME rivals[f] = {}, ~(now - started[f] >= OIDCCookieMaxAge),
                      "state" \notin shadow, "pkce" \notin shadow
               PROVE  FALSE
    OBVIOUS
  <1> DEFINE c == [of |-> f, age |-> 0, at |-> started[f]]
  <1>1. f \in Pending
    BY DEF Pending
  <1>2. c # None /\ c.of = f /\ c.at = started[f]
    BY LoginFlowAssumption DEF Inv, TypeOK
  <1>3. cookies["state"] = c /\ cookies["pkce"] = c
    BY <1>1 DEF Inv, Undisturbed
  <1>4. now - started[f] < OIDCCookieMaxAge
    BY LoginFlowAssumption DEF Inv, TypeOK
  <1> HIDE DEF c
  <1>5. ~Missing("state") /\ ~Missing("pkce")
    BY <1>2, <1>3, <1>4, OwnIsSent
  <1>6. ~Duplicate("state") /\ ~Duplicate("pkce")
    BY DuplicateIsShadow
  <1>7. Carried("state") = c /\ Carried("pkce") = c
    BY <1>3, <1>5 DEF Missing, Carried, Sent, Own
  <1>8. QED
    BY <1>2, <1>5, <1>6, <1>7 DEF LoginVerdict, Exchange

(* Only a step-up, or one that another host has put a marker before, is    *)
(* turned away for its auth_time: whoever passes the state check has no    *)
(* marker but their own.                                                   *)
LEMMA AuthTimeFacts ==
    ASSUME Inv, NEW f \in Flows, phase[f] = "returning", ~IsSync, NEW admitted \in BOOLEAN,
           LoginVerdict(f, admitted) = "auth_time"
    PROVE  kind[f] = "stepup" \/ "max_age" \in shadow
  <1> SUFFICES ASSUME kind[f] # "stepup", "max_age" \notin shadow
               PROVE  FALSE
    OBVIOUS
  <1>1. /\ ~Duplicate("state") /\ ~Missing("state") /\ Carried("state").of = f
        /\ ~VerifyRequestedMaxAge(f)
    BY DEF LoginVerdict
  <1>2. /\ now - started[f] < OIDCCookieMaxAge
        /\ kind[f] = "login" => cookies["max_age"] = None
        /\ kind[f] = "sync" => cookies["sync"] = [of |-> f, age |-> 0, at |-> started[f]]
    BY <1>1, PassedState
  <1>3. kind[f] = "login" \/ kind[f] = "sync"
    BY DEF Inv, TypeOK
  <1>4. CASE kind[f] = "login"
    <2>1. Missing("max_age")
      BY <1>2, <1>4 DEF Missing, Sent, Own
    <2>2. QED
      BY <1>1, <2>1, DuplicateIsShadow DEF VerifyRequestedMaxAge
  <1>5. CASE kind[f] = "sync"
    <2> DEFINE c == [of |-> f, age |-> 0, at |-> started[f]]
    <2>1. c # None /\ cookies["sync"] = c /\ c.at = started[f]
      BY <1>2, <1>5, LoginFlowAssumption DEF Inv, TypeOK
    <2> HIDE DEF c
    <2>2. QED
      BY <1>2, <2>1, OwnIsSent DEF IsSync
  <1>6. QED
    BY <1>3, <1>4, <1>5

(* A sync that compared two identities did so for its own round trip.      *)
LEMMA SyncFacts ==
    ASSUME Inv, NEW f \in Flows, phase[f] = "returning",
           SyncVerdict(f) = "switched" \/ SyncVerdict(f) = "unchanged"
    PROVE  /\ session \in Sessions /\ session # None
           /\ reply[f] \in Replies /\ reply[f].error = None
           /\ "state" \notin shadow /\ "pkce" \notin shadow /\ Holds(f)
           /\ SyncVerdict(f) = "switched" => ~SyncSameIdentity(session, reply[f])
  <1>1. /\ ~Duplicate("state") /\ ~Duplicate("pkce") /\ ~Missing("state") /\ ~Missing("pkce")
        /\ session # None /\ reply[f].error = None
        /\ Carried("state").of = f /\ Carried("pkce").of = f
        /\ SyncVerdict(f) = "switched" => ~SyncSameIdentity(session, reply[f])
    BY DEF SyncVerdict, SyncErrorVerdict, Exchange
  <1>2. "pkce" \notin shadow
    BY <1>1, SoleIsOwn
  <1>3. "state" \notin shadow /\ Holds(f)
    BY <1>1, PassedState
  <1>4. session \in Sessions /\ reply[f] \in Replies
    BY <1>1 DEF Inv, TypeOK, Phased
  <1>5. QED
    BY <1>1, <1>2, <1>3, <1>4

(* The identities differ in a way that tells against the session: it was   *)
(* minted in another SSO session, or for somebody else.                    *)
LEMMA SwitchedFacts ==
    ASSUME Inv, NEW f \in Flows, phase[f] = "returning", SyncVerdict(f) = "switched"
    PROVE  session.sub # reply[f].sub \/ (session.src = "code" /\ session.sso # reply[f].sid)
  <1>1. /\ session \in Sessions /\ session # None
        /\ reply[f] \in Replies /\ reply[f].error = None
        /\ Holds(f) /\ ~SyncSameIdentity(session, reply[f])
    BY SyncFacts
  <1> SUFFICES ASSUME session.sub = reply[f].sub
               PROVE  session.src = "code" /\ session.sso # reply[f].sid
    OBVIOUS
  <1>2. session.src = "code" /\ session.sid # 0 /\ session.sid # reply[f].sid
    BY <1>1 DEF SyncSameIdentity, IsGrantMinted, Sessions
  <1>3. session.sid = session.sso \/ session.sid <= reply[f].sid
    BY <1>1, <1>2 DEF Inv, Current, LearntBy
  <1>4. session.sso <= session.sid
    BY <1>1, <1>2 DEF Inv, AllKnown, Known
  <1>5. session.sid \in Nat /\ session.sso \in Nat /\ reply[f].sid \in Nat
    BY <1>1 DEF Sessions, Replies
  <1>6. QED
    BY <1>2, <1>3, <1>4, <1>5

(* What a sync writes back is a session, whose sid is known.               *)
LEMMA SyncedFacts ==
    ASSUME Inv, NEW f \in Flows, phase[f] = "returning", SyncVerdict(f) = "unchanged"
    PROVE  Synced(f) \in Sessions /\ Known(Synced(f))
  <1>1. /\ session \in Sessions /\ session # None
        /\ reply[f] \in Replies /\ reply[f].error = None
    BY SyncFacts
  <1>2. 0 < reply[f].sid /\ reply[f].sid <= ssoCount /\ reply[f].sid \in Nat /\ ssoCount \in Nat
    BY <1>1 DEF Inv, AllKnown, Replies, TypeOK
  <1> DEFINE k == IF session.sid = 0 /\ ~IsGrantMinted(session) THEN reply[f].sid
                  ELSE session.sid
  <1>3. k \in Nat
    BY <1>1, <1>2 DEF Sessions
  <1>4. Synced(f) = [session EXCEPT !.sid = k]
    BY <1>1 DEF Synced, Sessions
  <1>5. session.src = "code" => k <= ssoCount /\ session.sso <= k /\ k # 0
                              /\ session.sso <= ssoCount
    BY <1>1, <1>2 DEF Inv, AllKnown, Known, IsGrantMinted, Sessions
  <1> HIDE DEF k
  <1>6. Synced(f) \in Sessions
    BY <1>1, <1>3, <1>4 DEF Sessions
  <1>7. Synced(f).src = session.src /\ Synced(f).sso = session.sso /\ Synced(f).sid = k
    BY <1>1, <1>4 DEF Sessions
  <1>8. QED
    BY <1>5, <1>6, <1>7 DEF Known

-----------------------------------------------------------------------------
(* One lemma per action.                                                   *)

(* A decision that has its reasons keeps the invariant: it touches nothing *)
(* but its own round trip until it is delivered.                           *)
LEMMA DecideStep ==
    ASSUME Inv, NEW f \in Flows, phase[f] = "returning", UNCHANGED shadow,
           NEW v \in Verdicts, NEW change \in [write : BOOLEAN, to : Sessions \cup {None}],
           NEW clears \in SUBSET CookieNames, clears = {} \/ "state" \in clears,
           Decide(f, v, change, clears),
           v = "minted" \/ v = "switched" => change.write,
           (v = "minted" /\ kind[f] = "stepup") =>
               /\ reply[f].aut # 0
               /\ reply[f].aut >= started[f] - StepUpMaxAge - AuthTimeSkew,
           v \in {"missing", "duplicate", "state_mismatch", "exchange_failed"} =>
               \/ rivals[f] # {} \/ now - started[f] >= OIDCCookieMaxAge
               \/ shadow \cap {"state", "pkce"} # {},
           v = "auth_time" => kind[f] = "stepup" \/ "max_age" \in shadow,
           (change.write /\ reply[f].error = None) =>
               /\ shadow \cap {"state", "pkce"} = {}
               /\ (v = "minted" /\ kind[f] = "stepup") => "max_age" \notin shadow,
           v = "switched" =>
               session.sub # reply[f].sub \/ (session.src = "code" /\ session.sso # reply[f].sid),
           v = "signed_out" => session.src = "code",
           Known(change.to),
           \A g \in Flows \ {f} :
               Holds(g) => change.to = None \/ change.to.sid = change.to.sso
    PROVE  Inv'
  <1> DEFINE judged == IF v \in {"signed_out", "switched"} THEN session ELSE None
             r == [session |-> change, clears |-> clears, judged |-> judged]
             a == IF change.write THEN reply[f] ELSE None
  <1>1. /\ outcome' = [outcome EXCEPT ![f] = v]
        /\ response' = [response EXCEPT ![f] = r]
        /\ reply' = [reply EXCEPT ![f] = a]
        /\ phase' = [phase EXCEPT ![f] = "answering"]
        /\ UNCHANGED <<now, cookies, session, sso, ssoCount, kind, started, rivals>>
    BY DEF Decide, Inv, TypeOK
  <1>2. /\ judged \in Sessions \cup {None} /\ a \in Replies \cup {None}
        /\ v = "switched" \/ v = "signed_out" => judged = session
        /\ change.write => a = reply[f]
        /\ a = reply[f] \/ a = None
    BY DEF Inv, TypeOK
  <1>3. r \in Responses /\ r.session = change /\ r.judged = judged /\ r.clears = clears
    BY <1>2 DEF Responses
  <1> HIDE DEF judged, r, a
  <1>4. /\ outcome'[f] = v /\ response'[f] = r /\ reply'[f] = a /\ phase'[f] = "answering"
        /\ \A g \in Flows \ {f} : /\ outcome'[g] = outcome[g] /\ response'[g] = response[g]
                                  /\ reply'[g] = reply[g] /\ phase'[g] = phase[g]
    BY <1>1 DEF Inv, TypeOK
  <1>5. TypeOK'
    BY <1>1, <1>2, <1>3 DEF Inv, TypeOK, Phases
  <1>6. Phased'
    BY <1>3, <1>4 DEF Inv, Phased
  <1>7. Held' /\ Undisturbed'
    BY <1>1, <1>4 DEF Inv, Held, Undisturbed, Holds, Pending
  <1>8. AllKnown'
    BY <1>1, <1>2, <1>3, <1>4 DEF Inv, AllKnown, Known
  <1>9. Current'
    BY <1>1, <1>3, <1>4 DEF Inv, Current, LearntBy, Holds
  <1>10. StepUpHonoured'
    BY <1>1, <1>2, <1>4 DEF Inv, StepUpHonoured
  <1>11. LoginLostHasCause'
    BY <1>1, <1>4 DEF Inv, LoginLostHasCause
  <1>12. SoleCookiesDecide'
    BY <1>1, <1>2, <1>3, <1>4 DEF Inv, SoleCookiesDecide
  <1>13. SyncEndsOnEvidence'
    BY <1>1, <1>2, <1>3, <1>4 DEF Inv, SyncEndsOnEvidence
  <1>14. QED
    BY <1>5, <1>6, <1>7, <1>8, <1>9, <1>10, <1>11, <1>12, <1>13 DEF Inv

(* A response that writes a session cookie, and one that does not.         *)
LEMMA ChangeFacts ==
    ASSUME NEW s \in Sessions \cup {None}
    PROVE  /\ SetSession(s) \in [write : BOOLEAN, to : Sessions \cup {None}]
           /\ SetSession(s).write /\ SetSession(s).to = s
           /\ SameSession \in [write : BOOLEAN, to : Sessions \cup {None}]
           /\ ~SameSession.write /\ SameSession.to = None
  BY DEF SetSession, SameSession

(* The refusal of a same-site navigation changes nothing.                  *)
LEMMA RefuseSameSiteStep ==
    ASSUME Inv, NEW f \in Flows, RefuseSameSite(f), UNCHANGED shadow
    PROVE  Inv'
  <1> DEFINE v == IF IsSync THEN "error" ELSE "same_site"
             clears == {}
  <1>1. phase[f] = "returning" /\ Decide(f, v, SameSession, clears)
    BY DEF RefuseSameSite
  <1>2. v \in Verdicts /\ (v = "error" \/ v = "same_site") /\ clears \in SUBSET CookieNames /\ clears = {}
    BY DEF Verdicts, SyncOutcomes, LoginOutcomes
  <1>3. /\ SameSession \in [write : BOOLEAN, to : Sessions \cup {None}]
        /\ ~SameSession.write /\ SameSession.to = None /\ Known(SameSession.to)
    BY DEF SameSession, Known
  <1> HIDE DEF v, clears
  <1>4. QED
    BY <1>1, <1>2, <1>3, DecideStep

(* A login callback mints a session in the SSO session of its reply, or    *)
(* changes none.                                                           *)
LEMMA HandleLoginCallbackStep ==
    ASSUME Inv, NEW f \in Flows, HandleLoginCallback(f), UNCHANGED shadow
    PROVE  Inv'
  <1>1. PICK admitted \in BOOLEAN :
          LET v == LoginVerdict(f, admitted) IN
          Decide(f, v, IF v = "minted" THEN SetSession(Minted(f)) ELSE SameSession,
                 IF v = "missing" THEN {} ELSE {"state", "pkce", "max_age"})
    BY DEF HandleLoginCallback
  <1> DEFINE v == LoginVerdict(f, admitted)
             change == IF v = "minted" THEN SetSession(Minted(f)) ELSE SameSession
             clears == IF v = "missing" THEN {} ELSE {"state", "pkce", "max_age"}
  <1>2. phase[f] = "returning" /\ ~IsSync /\ Decide(f, v, change, clears)
    BY <1>1 DEF HandleLoginCallback
  <1>3. clears \in SUBSET CookieNames /\ (clears = {} \/ "state" \in clears)
    BY DEF CookieNames
  <1>4. v \in Verdicts /\ v # "switched" /\ v # "signed_out"
    BY DEF LoginVerdict, Verdicts, LoginOutcomes
  <1>5. v = "minted" =>
           /\ reply[f].error = None /\ Holds(f)
           /\ "state" \notin shadow /\ "pkce" \notin shadow
           /\ kind[f] = "stepup" =>
                /\ "max_age" \notin shadow
                /\ reply[f].aut # 0
                /\ reply[f].aut >= started[f] - StepUpMaxAge - AuthTimeSkew
    BY <1>2, MintedFacts
  <1>6. v \in {"missing", "duplicate", "state_mismatch", "exchange_failed"} =>
           \/ rivals[f] # {} \/ now - started[f] >= OIDCCookieMaxAge
           \/ shadow \cap {"state", "pkce"} # {}
    BY <1>2, LostFacts
  <1>7. v = "auth_time" => kind[f] = "stepup" \/ "max_age" \in shadow
    BY <1>2, AuthTimeFacts
  <1> HIDE DEF v, clears
  <1>8. /\ change \in [write : BOOLEAN, to : Sessions \cup {None}]
        /\ change.write <=> v = "minted"
        /\ Known(change.to)
        /\ change.to = None \/ change.to.sid = change.to.sso
    <2>1. CASE v = "minted"
      <3>1. /\ reply[f] \in Replies /\ reply[f].sub \in Users
            /\ 0 < reply[f].sid /\ reply[f].sid <= ssoCount
        BY <1>2, <1>5, <2>1 DEF Inv, TypeOK, Phased, AllKnown
      <3>2. /\ Minted(f) \in Sessions /\ Minted(f).sid = reply[f].sid
            /\ Minted(f).sso = reply[f].sid
        BY <3>1 DEF Minted, Sessions, Replies
      <3>3. change = SetSession(Minted(f))
        BY <2>1
      <3>4. /\ change \in [write : BOOLEAN, to : Sessions \cup {None}]
            /\ change.write /\ change.to = Minted(f)
        BY <3>2, <3>3, ChangeFacts
      <3>5. Known(Minted(f))
        BY <3>1, <3>2 DEF Known, Sessions, Replies
      <3>6. QED
        BY <2>1, <3>2, <3>4, <3>5
    <2>2. CASE v # "minted"
      BY <2>2 DEF SameSession, Known
    <2>3. QED
      BY <2>1, <2>2
  <1> HIDE DEF change
  <1>9. (change.write /\ reply[f].error = None) =>
            /\ shadow \cap {"state", "pkce"} = {}
            /\ (v = "minted" /\ kind[f] = "stepup") => "max_age" \notin shadow
    BY <1>5, <1>8
  <1>10. QED
    BY <1>2, <1>3, <1>4, <1>5, <1>6, <1>7, <1>8, <1>9, DecideStep

(* A sync callback ends a session on evidence, or lets it learn its sid.   *)
LEMMA HandleSyncCallbackStep ==
    ASSUME Inv, NEW f \in Flows, HandleSyncCallback(f), UNCHANGED shadow
    PROVE  Inv'
  <1> DEFINE v == SyncVerdict(f)
             change == CASE v \in {"signed_out", "switched"} -> SetSession(None)
                         [] v = "unchanged" -> SetSession(Synced(f))
                         [] OTHER -> SameSession
             clears == {"state", "pkce", "sync"}
  <1>1. phase[f] = "returning" /\ Decide(f, v, change, clears)
    BY DEF HandleSyncCallback
  <1>2. clears \in SUBSET CookieNames /\ "state" \in clears
    BY DEF CookieNames
  <1>3. v \in SyncOutcomes /\ v \in Verdicts
    BY DEF SyncVerdict, SyncErrorVerdict, SyncOutcomes, Verdicts
  <1>4. v = "switched" \/ v = "unchanged" =>
           "state" \notin shadow /\ "pkce" \notin shadow /\ Holds(f)
    BY <1>1, SyncFacts
  <1>5. v = "switched" =>
           session.sub # reply[f].sub \/ (session.src = "code" /\ session.sso # reply[f].sid)
    BY <1>1, SwitchedFacts
  <1>6. v = "signed_out" => session.src = "code" /\ reply[f].error # None
    <2> SUFFICES ASSUME v = "signed_out"
                 PROVE  session.src = "code" /\ reply[f].error # None
      OBVIOUS
    <2>1. session # None /\ reply[f].error = "login_required" /\ ~IsGrantMinted(session)
          /\ reply[f].error # None
      BY DEF SyncVerdict, SyncErrorVerdict
    <2>2. QED
      BY <2>1 DEF IsGrantMinted, Inv, TypeOK, Sessions
  <1>7. v = "unchanged" => Synced(f) \in Sessions /\ Known(Synced(f))
    BY <1>1, SyncedFacts
  <1> HIDE DEF v, clears
  <1>8. /\ change \in [write : BOOLEAN, to : Sessions \cup {None}]
        /\ v = "switched" => change.write
        /\ change.write => v \in {"signed_out", "switched", "unchanged"}
        /\ Known(change.to)
        /\ v # "unchanged" => change.to = None
    <2>1. CASE v = "signed_out" \/ v = "switched"
      <3>1. change = SetSession(None)
        BY <2>1
      <3>2. QED
        BY <2>1, <3>1 DEF SetSession, Known
    <2>2. CASE v = "unchanged"
      <3>1. change = SetSession(Synced(f))
        BY <2>2
      <3>2. change \in [write : BOOLEAN, to : Sessions \cup {None}] /\ change.to = Synced(f)
        BY <1>7, <2>2, <3>1 DEF SetSession
      <3>3. QED
        BY <1>7, <2>2, <3>2
    <2>3. CASE v \notin {"signed_out", "switched", "unchanged"}
      <3>1. change = SameSession
        BY <2>3
      <3>2. QED
        BY <2>3, <3>1 DEF SameSession, Known
    <2>4. QED
      BY <2>1, <2>2, <2>3
  <1> HIDE DEF change
  <1>9. (change.write /\ reply[f].error = None) => shadow \cap {"state", "pkce"} = {}
    BY <1>4, <1>6, <1>8
  <1>10. \A g \in Flows \ {f} : Holds(g) => change.to = None
    BY <1>4, <1>8 DEF Holds
  <1>11. QED
    BY <1>1, <1>2, <1>3, <1>5, <1>6, <1>8, <1>9, <1>10, DecideStep DEF SyncOutcomes

(* A start overwrites the state and PKCE cookies, brings its own marker    *)
(* and, if it has none, leaves none that could be taken for it.            *)
LEMMA StartStep ==
    ASSUME Inv, NEW f \in Flows, phase[f] = "idle", UNCHANGED shadow,
           cookies' \in [CookieNames -> CookieRecords \cup {None}],
           cookies'["state"] = FlowCookie(f, 0), cookies'["pkce"] = FlowCookie(f, 0),
           kind[f] = "login" => cookies'["max_age"] = None,
           kind[f] = "stepup" => cookies'["max_age"] = FlowCookie(f, StepUpMaxAge),
           kind[f] = "sync" => cookies'["sync"] = FlowCookie(f, 0),
           phase' = [phase EXCEPT ![f] = "authorizing"],
           started' = [started EXCEPT ![f] = now],
           rivals' = Rivals(f),
           UNCHANGED <<now, session, sso, ssoCount, kind, reply, outcome, response>>
    PROVE  Inv'
  <1>1. /\ phase'[f] = "authorizing" /\ started'[f] = now
        /\ \A g \in Flows \ {f} : phase'[g] = phase[g] /\ started'[g] = started[g]
        /\ \A g \in Flows \ {f} : g \in Pending => rivals'[g] = rivals[g] \cup {f}
        /\ \A g \in Flows : g \notin Pending => rivals'[g] = rivals[g]
    BY DEF Inv, TypeOK, Rivals
  <1>2. \A g \in Flows \ {f} : ~Holds(g)'
    BY DEF Holds, FlowCookie
  <1>3. TypeOK'
    BY DEF Inv, TypeOK, Phases, Rivals
  <1>4. Phased'
    BY <1>1 DEF Inv, Phased
  <1>5. Held'
    BY <1>1, <1>2 DEF Inv, Held, FlowCookie
  <1>6. Undisturbed'
    BY <1>1 DEF Inv, Undisturbed, Pending, FlowCookie
  <1>7. AllKnown'
    BY <1>1 DEF Inv, AllKnown, Known
  <1>8. Current'
    BY <1>1, <1>2 DEF Inv, Current
  <1>9. outcome[f] = None
    BY DEF Inv, Phased
  <1>10. StepUpHonoured' /\ SoleCookiesDecide' /\ SyncEndsOnEvidence'
    BY <1>1, <1>9, OutcomesAssumption
    DEF Inv, StepUpHonoured, SoleCookiesDecide, SyncEndsOnEvidence, SyncOutcomes, LoginOutcomes
  <1>11. LoginLostHasCause'
    BY <1>1, <1>9, OutcomesAssumption DEF Inv, LoginLostHasCause, LoginOutcomes
  <1>12. QED
    BY <1>3, <1>4, <1>5, <1>6, <1>7, <1>8, <1>10, <1>11 DEF Inv

(* The cookies a start sets are flow cookies.                              *)
LEMMA FlowCookieType ==
    ASSUME Inv, NEW f \in Flows
    PROVE  FlowCookie(f, 0) \in CookieRecords /\ FlowCookie(f, StepUpMaxAge) \in CookieRecords
  BY LoginFlowAssumption DEF Inv, TypeOK, FlowCookie, CookieRecords

(* handleLogin.                                                            *)
LEMMA HandleLoginStep ==
    ASSUME Inv, NEW f \in Flows, HandleLogin(f), UNCHANGED shadow
    PROVE  Inv'
  <1>1. /\ cookies' \in [CookieNames -> CookieRecords \cup {None}]
        /\ cookies'["state"] = FlowCookie(f, 0) /\ cookies'["pkce"] = FlowCookie(f, 0)
        /\ cookies'["max_age"] = IF kind[f] = "stepup" THEN FlowCookie(f, StepUpMaxAge) ELSE None
    BY FlowCookieType DEF HandleLogin, LoginCookies, Inv, TypeOK, CookieNames
  <1>2. QED
    BY <1>1, StartStep DEF HandleLogin

(* handleSessionSync.                                                      *)
LEMMA HandleSessionSyncStep ==
    ASSUME Inv, NEW f \in Flows, HandleSessionSync(f), UNCHANGED shadow
    PROVE  Inv'
  <1>1. /\ cookies' \in [CookieNames -> CookieRecords \cup {None}]
        /\ cookies'["state"] = FlowCookie(f, 0) /\ cookies'["pkce"] = FlowCookie(f, 0)
        /\ cookies'["sync"] = FlowCookie(f, 0)
    BY FlowCookieType DEF HandleSessionSync, SyncCookies, Inv, TypeOK, CookieNames
  <1>2. QED
    BY <1>1, StartStep DEF HandleSessionSync

(* The IdP's answer comes from its newest SSO session, so nothing that a   *)
(* session has learnt so far is newer.                                     *)
LEMMA AnswerStep ==
    ASSUME Inv, NEW f \in Flows, phase[f] = "authorizing", UNCHANGED shadow,
           NEW a \in Replies,
           a.error = None => a.sub \in Users /\ a.sid = ssoCount' /\ 0 < a.sid,
           reply' = [reply EXCEPT ![f] = a],
           phase' = [phase EXCEPT ![f] = "returning"],
           ssoCount' \in Nat, ssoCount <= ssoCount',
           sso' \in [sub : Users, sid : Nat, aut : Nat] \cup {None},
           sso' # None => sso'.sid = ssoCount' /\ ssoCount' > 0,
           UNCHANGED <<now, cookies, session, kind, started, outcome, response, rivals>>
    PROVE  Inv'
  <1>1. /\ phase'[f] = "returning" /\ reply'[f] = a
        /\ \A g \in Flows \ {f} : phase'[g] = phase[g] /\ reply'[g] = reply[g]
        /\ Pending' = Pending
    BY DEF Inv, TypeOK, Pending
  <1>2. outcome[f] = None
    BY DEF Inv, Phased
  <1>3. TypeOK'
    BY DEF Inv, TypeOK, Phases
  <1>4. Phased'
    BY <1>1, <1>2 DEF Inv, Phased
  <1>5. Held' /\ Undisturbed'
    BY <1>1 DEF Inv, Held, Undisturbed, Holds
  <1>6. ASSUME NEW s \in Sessions \cup {None}, Known(s)
        PROVE  /\ Known(s)'
               /\ a.error = None => LearntBy(s, a.sid)
    <2>1. CASE s = None
      BY <2>1 DEF Known, LearntBy
    <2>2. CASE s \in Sessions
      BY <1>6, <2>2 DEF Known, LearntBy, Sessions, Inv, TypeOK
    <2>3. QED
      BY <2>1, <2>2
  <1>7. session \in Sessions \cup {None} /\ Known(session)
    BY DEF Inv, TypeOK, AllKnown
  <1>8. \A g \in Flows : phase'[g] = "answering" =>
           /\ phase[g] = "answering" /\ g # f
           /\ response[g].session.to \in Sessions \cup {None}
           /\ Known(response[g].session.to)
    BY <1>1 DEF Inv, Phased, Responses, AllKnown
  <1>9. \A g \in Flows \ {f} : (phase[g] = "returning" /\ reply[g].error = None) =>
           reply[g].sub \in Users /\ 0 < reply[g].sid /\ reply[g].sid <= ssoCount'
    BY DEF Inv, AllKnown, Phased, Replies, TypeOK
  <1>10. AllKnown'
    <2>1. Known(session)'
      BY <1>6, <1>7
    <2>2. \A g \in Flows : phase'[g] = "answering" => Known(response[g].session.to)'
      BY <1>6, <1>8
    <2>3. QED
      BY <1>1, <1>9, <2>1, <2>2 DEF AllKnown, Replies
  <1>11. Current'
    <2>1. a.error = None =>
             /\ LearntBy(session, a.sid)
             /\ \A g \in Flows : phase'[g] = "answering" =>
                   LearntBy(response[g].session.to, a.sid)
      BY <1>6, <1>7, <1>8
    <2>2. QED
      BY <1>1, <1>8, <2>1 DEF Inv, Current, Holds, LearntBy
  <1>12. StepUpHonoured' /\ SoleCookiesDecide' /\ SyncEndsOnEvidence'
    BY <1>1, <1>2, OutcomesAssumption
    DEF Inv, StepUpHonoured, SoleCookiesDecide, SyncEndsOnEvidence, SyncOutcomes, LoginOutcomes
  <1>13. LoginLostHasCause'
    BY <1>2, OutcomesAssumption DEF Inv, LoginLostHasCause, LoginOutcomes
  <1>14. QED
    BY <1>3, <1>4, <1>5, <1>10, <1>11, <1>12, <1>13 DEF Inv

(* The code for an SSO session.                                            *)
LEMMA CodeFacts ==
    ASSUME NEW id \in [sub : Users, sid : Nat, aut : Nat]
    PROVE  /\ CodeFor(id) \in Replies
           /\ CodeFor(id).sub = id.sub /\ CodeFor(id).sid = id.sid
  BY DEF CodeFor, Replies

(* Typing a password renews the SSO session or begins the newest.          *)
LEMMA AuthenticateStep ==
    ASSUME Inv, NEW f \in Flows, NEW u \in Users, Authenticate(f, u), UNCHANGED shadow
    PROVE  Inv'
  <1>1. /\ sso' \in [sub : Users, sid : Nat, aut : Nat]
        /\ sso'.sid = ssoCount' /\ ssoCount' > 0
        /\ ssoCount' \in Nat /\ ssoCount <= ssoCount'
    <2>1. CASE sso # None /\ sso.sub = u
      BY <2>1 DEF Authenticate, Inv, TypeOK, AllKnown
    <2>2. CASE ~(sso # None /\ sso.sub = u)
      BY <2>2 DEF Authenticate, Inv, TypeOK
    <2>3. QED
      BY <2>1, <2>2
  <1> DEFINE a == CodeFor(sso')
  <1>2. /\ phase[f] = "authorizing"
        /\ reply' = [reply EXCEPT ![f] = a]
        /\ phase' = [phase EXCEPT ![f] = "returning"]
        /\ UNCHANGED <<now, cookies, session, kind, started, outcome, response, rivals>>
    BY DEF Authenticate
  <1>3. a \in Replies /\ a.sub = sso'.sub /\ a.sid = sso'.sid
    BY <1>1, CodeFacts
  <1> HIDE DEF a
  <1>4. QED
    BY <1>1, <1>2, <1>3, AnswerStep

(* The SSO session there is answers.                                       *)
LEMMA AnswerFromSSOStep ==
    ASSUME Inv, NEW f \in Flows, AnswerFromSSO(f), UNCHANGED shadow
    PROVE  Inv'
  <1> DEFINE a == CodeFor(sso)
  <1>1. /\ phase[f] = "authorizing" /\ sso # None
        /\ reply' = [reply EXCEPT ![f] = a]
        /\ phase' = [phase EXCEPT ![f] = "returning"]
        /\ UNCHANGED <<now, cookies, session, sso, ssoCount, kind, started, outcome,
                       response, rivals>>
    BY DEF AnswerFromSSO
  <1>2. /\ sso \in [sub : Users, sid : Nat, aut : Nat]
        /\ sso.sid = ssoCount /\ ssoCount > 0 /\ ssoCount \in Nat
    BY <1>1 DEF Inv, TypeOK, AllKnown
  <1>3. a \in Replies /\ a.sub = sso.sub /\ a.sid = sso.sid
    BY <1>2, CodeFacts
  <1> HIDE DEF a
  <1>4. /\ ssoCount' \in Nat /\ ssoCount <= ssoCount' /\ ssoCount' > 0
        /\ sso' \in [sub : Users, sid : Nat, aut : Nat] /\ sso'.sid = ssoCount'
        /\ a.sub \in Users /\ a.sid = ssoCount'
    BY <1>1, <1>2, <1>3
  <1>5. QED
    BY <1>1, <1>3, <1>4, AnswerStep

(* An error carries no identity.                                           *)
LEMMA AnswerErrorStep ==
    ASSUME Inv, NEW f \in Flows, AnswerError(f), UNCHANGED shadow
    PROVE  Inv'
  <1>1. PICK e \in {"server_error", "login_required"} :
           reply' = [reply EXCEPT ![f] = ErrorReply(e)]
    BY DEF AnswerError
  <1>2. ErrorReply(e) \in Replies /\ ErrorReply(e).error # None
    BY OutcomesAssumption DEF ErrorReply, Replies
  <1>3. /\ phase[f] = "authorizing" /\ phase' = [phase EXCEPT ![f] = "returning"]
        /\ UNCHANGED <<now, cookies, session, sso, ssoCount, kind, started, outcome,
                       response, rivals>>
    BY DEF AnswerError
  <1>4. /\ ssoCount' \in Nat /\ ssoCount <= ssoCount'
        /\ sso' \in [sub : Users, sid : Nat, aut : Nat] \cup {None}
        /\ sso' # None => sso'.sid = ssoCount' /\ ssoCount' > 0
    BY <1>3 DEF Inv, TypeOK, AllKnown
  <1>5. QED
    BY <1>1, <1>2, <1>3, <1>4, AnswerStep

(* A delivered response changes the session to what was decided, and takes *)
(* the state cookie along with any marker.                                 *)
LEMMA DeliverStep ==
    ASSUME Inv, NEW f \in Flows, Deliver(f), UNCHANGED shadow
    PROVE  Inv'
  <1>1. /\ phase[f] = "answering" /\ response[f] \in Responses
        /\ response[f].clears = {} \/ "state" \in response[f].clears
    BY DEF Inv, Phased, Deliver
  <1>2. /\ phase'[f] = "finished" /\ outcome'[f] = None
        /\ \A g \in Flows \ {f} :
              /\ phase'[g] = phase[g] /\ started'[g] = started[g] /\ reply'[g] = reply[g]
              /\ outcome'[g] = outcome[g] /\ response'[g] = response[g]
              /\ rivals'[g] = IF g \in Pending THEN rivals[g] \cup {f} ELSE rivals[g]
        /\ UNCHANGED <<now, sso, ssoCount, kind>>
    BY DEF Inv, TypeOK, Deliver, Rivals
  <1>3. /\ session' = session \/ session' = response[f].session.to
        /\ session' \in Sessions \cup {None}
    BY <1>1 DEF Deliver, Responses, Inv, TypeOK
  <1>4. /\ cookies' \in [CookieNames -> CookieRecords \cup {None}]
        /\ cookies'["state"] # None => cookies' = cookies
    <2>1. cookies' = [n \in CookieNames |->
                         IF n \in response[f].clears THEN None ELSE cookies[n]]
      BY DEF Deliver
    <2>2. cookies \in [CookieNames -> CookieRecords \cup {None}]
      BY DEF Inv, TypeOK
    <2>3. CASE response[f].clears = {}
      BY <2>1, <2>2, <2>3
    <2>4. CASE "state" \in response[f].clears
      BY <2>1, <2>2, <2>4 DEF CookieNames
    <2>5. QED
      BY <1>1, <2>3, <2>4
  <1>5. TypeOK'
    <2>1. rivals' \in [Flows -> SUBSET Flows]
      BY DEF Deliver, Rivals, Inv, TypeOK
    <2>2. /\ started' \in [Flows -> Nat] /\ phase' \in [Flows -> Phases]
          /\ reply' \in [Flows -> Replies \cup {None}]
      BY DEF Deliver, Inv, TypeOK, Phases
    <2>3. /\ outcome' \in [Flows -> Verdicts \cup {None}]
          /\ response' \in [Flows -> Responses \cup {None}]
      BY DEF Deliver, Inv, TypeOK
    <2>4. QED
      BY <1>2, <1>3, <1>4, <2>1, <2>2, <2>3 DEF Inv, TypeOK
  <1>6. Phased'
    BY <1>2 DEF Inv, Phased
  <1>7. \A g \in Flows : g \in Pending' => g # f /\ g \in Pending /\ rivals'[g] # {}
    BY <1>2 DEF Pending
  <1>8. Held'
    <2> SUFFICES ASSUME NEW g \in Flows, g \in Pending', Holds(g)'
                 PROVE  /\ cookies'["state"].at = started'[g]
                        /\ kind[g] = "login" => cookies'["max_age"] = None
                        /\ kind[g] = "stepup" => cookies'["max_age"] =
                              [of |-> g, age |-> StepUpMaxAge, at |-> started'[g]]
                        /\ kind[g] = "sync" => cookies'["sync"] =
                              [of |-> g, age |-> 0, at |-> started'[g]]
      BY <1>2 DEF Held
    <2>1. cookies' = cookies /\ Holds(g) /\ g # f /\ g \in Pending
      BY <1>4, <1>7 DEF Holds
    <2>2. started'[g] = started[g]
      BY <1>2, <2>1
    <2>3. QED
      BY <2>1, <2>2 DEF Inv, Held
  <1>9. Undisturbed'
    BY <1>7 DEF Undisturbed
  <1>10. Known(session)'
    BY <1>1, <1>2, <1>3 DEF Inv, AllKnown, Known
  <1>11. AllKnown'
    BY <1>2, <1>10 DEF Inv, AllKnown, Known
  <1>12. Current'
    <2> SUFFICES ASSUME NEW g \in Flows, phase'[g] = "returning", Holds(g)',
                        reply'[g].error = None
                 PROVE  /\ LearntBy(session', reply'[g].sid)
                        /\ \A h \in Flows : phase'[h] = "answering" =>
                              LearntBy(response'[h].session.to, reply'[g].sid)
      BY DEF Current, LearntBy
    <2>1. Holds(g) /\ phase[g] = "returning" /\ g # f /\ reply'[g] = reply[g]
      BY <1>2, <1>4 DEF Holds
    <2>2. /\ LearntBy(session, reply[g].sid)
          /\ \A h \in Flows : phase[h] = "answering" =>
                LearntBy(response[h].session.to, reply[g].sid)
      BY <2>1 DEF Inv, Current
    <2>3. LearntBy(session', reply[g].sid)
      BY <1>1, <1>3, <2>2
    <2>4. \A h \in Flows : phase'[h] = "answering" =>
             phase[h] = "answering" /\ response'[h] = response[h]
      BY <1>2
    <2>5. QED
      BY <2>1, <2>2, <2>3, <2>4
  <1>13. StepUpHonoured' /\ SoleCookiesDecide' /\ SyncEndsOnEvidence'
    BY <1>2, OutcomesAssumption
    DEF Inv, StepUpHonoured, SoleCookiesDecide, SyncEndsOnEvidence, SyncOutcomes, LoginOutcomes
  <1>14. LoginLostHasCause'
    BY <1>2, OutcomesAssumption DEF Inv, LoginLostHasCause, LoginOutcomes
  <1>15. QED
    BY <1>5, <1>6, <1>8, <1>9, <1>11, <1>12, <1>13, <1>14 DEF Inv

(* Steps outside the round trips: the session is ended or replaced by one  *)
(* of a grant, the SSO session ends, time passes.                          *)
LEMMA OutsideStep ==
    ASSUME Inv, UNCHANGED shadow,
           session' \in Sessions \cup {None},
           session' = session \/ session' = None \/ session'.src = "grant",
           sso' = sso \/ sso' = None,
           now' = now \/ now' = now + 1,
           UNCHANGED <<cookies, ssoCount, kind, phase, started, reply, outcome, response, rivals>>
    PROVE  Inv'
  <1>1. TypeOK'
    BY DEF Inv, TypeOK
  <1>2. Phased' /\ Held' /\ Undisturbed'
    BY DEF Inv, Phased, Held, Undisturbed, Holds, Pending
  <1>3. AllKnown'
    BY DEF Inv, AllKnown, Known
  <1>4. Current'
    BY DEF Inv, Current, Holds, LearntBy
  <1>5. StepUpHonoured' /\ SoleCookiesDecide' /\ SyncEndsOnEvidence'
    BY DEF Inv, StepUpHonoured, SoleCookiesDecide, SyncEndsOnEvidence
  <1>6. LoginLostHasCause'
    BY LoginFlowAssumption DEF Inv, LoginLostHasCause, TypeOK
  <1>7. QED
    BY <1>1, <1>2, <1>3, <1>4, <1>5, <1>6 DEF Inv

(* EndSSO, IssueSession, HandleLogout and Tick are such steps.             *)
LEMMA OutsideSteps ==
    ASSUME Inv, UNCHANGED shadow, EndSSO \/ IssueSession \/ HandleLogout \/ Tick
    PROVE  Inv'
  <1>1. CASE EndSSO
    BY <1>1, OutsideStep DEF EndSSO, Inv, TypeOK
  <1>2. CASE IssueSession
    <2>1. session' \in Sessions /\ session'.src = "grant"
      BY <1>2, LoginFlowAssumption DEF IssueSession, Sessions
    <2>2. QED
      BY <1>2, <2>1, OutsideStep DEF IssueSession
  <1>3. CASE HandleLogout
    BY <1>3, OutsideStep DEF HandleLogout
  <1>4. CASE Tick
    BY <1>4, OutsideStep DEF Tick, Inv, TypeOK
  <1>5. QED
    BY <1>1, <1>2, <1>3, <1>4

-----------------------------------------------------------------------------
(* The theorems.                                                           *)

(* A browser without round trips satisfies the invariant, also one whose   *)
(* session never learnt its sid.                                           *)
LEMMA InitInv == Init => Inv
  <1> SUFFICES ASSUME Init PROVE Inv
    OBVIOUS
  <1>1. \/ session = None /\ sso = None /\ ssoCount = 0
        \/ /\ sso \in [sub : Users, sid : Nat, aut : Nat] /\ sso.sid = 1 /\ ssoCount = 1
           /\ session \in Sessions /\ session.sid = 0 /\ session.sso = 1
    BY DEF Init, Sessions
  <1>2. TypeOK
    BY <1>1, LoginFlowAssumption DEF Init, TypeOK, Phases
  <1>3. \A f \in Flows : /\ phase[f] = "idle" /\ outcome[f] = None
                         /\ f \notin Pending
    BY DEF Init, Pending
  <1>4. Phased /\ Held /\ Undisturbed /\ Current
    BY <1>3 DEF Phased, Held, Undisturbed, Current
  <1>5. AllKnown
    BY <1>1, <1>3 DEF AllKnown, Known
  <1>6. StepUpHonoured /\ SoleCookiesDecide /\ SyncEndsOnEvidence /\ LoginLostHasCause
    BY <1>3, OutcomesAssumption
    DEF StepUpHonoured, SoleCookiesDecide, SyncEndsOnEvidence, LoginLostHasCause,
        SyncOutcomes, LoginOutcomes
  <1>7. QED
    BY <1>2, <1>4, <1>5, <1>6 DEF Inv

(* The invariant holds whatever the tabs, the IdP and the clock do.        *)
THEOREM InvHolds == Spec => []Inv
  <1>1. ASSUME Inv, [Next /\ UNCHANGED <<shadow, authTimes>>]_vars
        PROVE  Inv'
    <2>1. CASE Next /\ UNCHANGED <<shadow, authTimes>>
      BY <1>1, <2>1, HandleLoginStep, HandleSessionSyncStep, AuthenticateStep,
         AnswerFromSSOStep, AnswerErrorStep, RefuseSameSiteStep, HandleLoginCallbackStep,
         HandleSyncCallbackStep, DeliverStep, OutsideSteps
      DEF Next
    <2>2. CASE UNCHANGED vars
      BY <1>1, <2>2
      DEF vars, Inv, TypeOK, Phased, Held, Undisturbed, Holds, Pending, AllKnown, Known,
          Current, LearntBy, StepUpHonoured, LoginLostHasCause, SoleCookiesDecide,
          SyncEndsOnEvidence
    <2>3. QED
      BY <1>1, <2>1, <2>2
  <1>2. QED
    BY InitInv, <1>1, PTL DEF Spec

(* A step-up never mints a session on an authentication older than its own *)
(* max_age allows, whatever other tabs start, finish or abandon.           *)
THEOREM StepUpsHonoured == Spec => []StepUpHonoured
  BY InvHolds, PTL DEF Inv

(* A login with a code is turned away for its cookies only if another      *)
(* round trip changed them, they ran out, or another host shadows them.    *)
THEOREM LostLoginsHaveCauses == Spec => []LoginLostHasCause
  BY InvHolds, PTL DEF Inv

(* No session is minted, prolonged or ended by a callback whose flow       *)
(* cookies another host of the site has set too.                           *)
THEOREM OnlySoleCookiesDecide == Spec => []SoleCookiesDecide
  BY InvHolds, PTL DEF Inv

(* Silent sync ends a session only for another person, another SSO session *)
(* or none, also one that never recorded its sid or learnt it on the way.  *)
THEOREM SyncsEndOnEvidence == Spec => []SyncEndsOnEvidence
  BY InvHolds, PTL DEF Inv
=============================================================================
