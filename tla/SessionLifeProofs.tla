------------------------- MODULE SessionLifeProofs -------------------------
(***************************************************************************)
(* Proofs that the bounds of SessionLife hold for every configuration that *)
(* Config.validate accepts and along every line of cookies.                *)
(*                                                                         *)
(* None of the bounds is inductive alone.  They share one strengthening,   *)
(* Anchored: where the anchor of the floor stands relative to the clock    *)
(* and to the last time the IdP was asked.  On top of it, LifeInv tells a  *)
(* pending resolver retry apart (only then can Exp still slide without a   *)
(* new answer of the IdP), PaceInv ties the persisted anchors to the       *)
(* attempt they record, and AutInv keeps an evidenced auth_time positive,  *)
(* so that a refresh cannot take it for unknown.                           *)
(***************************************************************************)
EXTENDS SessionLife, TLAPS

Anchored ==
    /\ attempt <= now /\ asked <= now /\ conf <= asked
    /\ attempt <= asked + AnswerAge
    /\ resolvedAt <= now
    /\ authAt <= now /\ Start <= authAt
    /\ jar # NoSession =>
         /\ jar.lv <= attempt
         /\ ValidationAnchor(jar) <= attempt
         /\ jar.exp <= now + SessionTTL

Inv == TypeOK /\ Anchored

-----------------------------------------------------------------------------
(* The backoff never reaches the interval, so that the anchor a failed     *)
(* attempt writes is never in the future (transportBackoff).               *)
LEMMA BackoffRange ==
    /\ TransportBackoff \in Nat
    /\ RevalidateInterval > 0 => TransportBackoff < RevalidateInterval
  BY ConfigAssumption DEF TransportBackoff

(* What the IdP returns never breaks the shape of a cookie, and a refresh  *)
(* touches none of its deadlines.                                          *)
LEMMA RefreshedShape ==
    ASSUME NEW p \in Payload, NEW rt \in Tokens, NEW aut \in Nat
    PROVE  /\ Refreshed(p, rt, aut) \in Payload
           /\ Refreshed(p, rt, aut).exp = p.exp
           /\ Refreshed(p, rt, aut).lv = p.lv
           /\ Refreshed(p, rt, aut).rra = p.rra
           /\ Refreshed(p, rt, aut).aut = MergeRefreshedAuthTime(p.aut, aut)
  BY DEF Refreshed, MergeRefreshedAuthTime, Payload

(* The same for each way a cookie is written back: which deadlines it     *)
(* moves, and where to.                                                    *)
LEMMA StampedShape ==
    ASSUME NEW p \in Payload, NEW n \in Nat
    PROVE  /\ Stamped(p, n) \in Payload
           /\ Stamped(p, n).exp = n + SessionTTL
           /\ Stamped(p, n).lv = n /\ Stamped(p, n).rra = 0
           /\ Stamped(p, n).aut = p.aut
  <1> DEFINE e == n + SessionTTL
             z == 0
  <1>1. e \in Nat /\ z \in Nat
    BY ConfigAssumption
  <1>2. Stamped(p, n) = [p EXCEPT !.rra = z, !.lv = n, !.exp = e]
    BY DEF Stamped
  <1> HIDE DEF e, z
  <1>3. Stamped(p, n) \in Payload
    BY <1>1, <1>2 DEF Payload
  <1>4. Stamped(p, n).exp = e /\ Stamped(p, n).lv = n /\ Stamped(p, n).rra = z
        /\ Stamped(p, n).aut = p.aut
    BY <1>1, <1>2 DEF Payload
  <1>5. QED
    BY <1>3, <1>4 DEF e, z

LEMMA SoftResolvedShape ==
    ASSUME NEW p \in Payload, NEW n \in Nat
    PROVE  /\ SoftResolved(p, n) \in Payload
           /\ SoftResolved(p, n).exp = p.exp
           /\ SoftResolved(p, n).lv = n
           /\ SoftResolved(p, n).rra = n + TransportBackoff
           /\ SoftResolved(p, n).aut = p.aut
  <1> DEFINE r == n + TransportBackoff
  <1>1. r \in Nat
    BY BackoffRange
  <1>2. SoftResolved(p, n) = [p EXCEPT !.lv = n, !.rra = r]
    BY DEF SoftResolved
  <1> HIDE DEF r
  <1>3. SoftResolved(p, n) \in Payload
    BY <1>1, <1>2 DEF Payload
  <1>4. SoftResolved(p, n).exp = p.exp /\ SoftResolved(p, n).lv = n
        /\ SoftResolved(p, n).rra = r /\ SoftResolved(p, n).aut = p.aut
    BY <1>1, <1>2 DEF Payload
  <1>5. QED
    BY <1>3, <1>4 DEF r

LEMMA PersistBackoffShape ==
    ASSUME NEW p \in Payload, NEW n \in Nat, n >= Start, RevalidateInterval > 0
    PROVE  /\ PersistBackoff(p, n) \in Payload
           /\ PersistBackoff(p, n).exp = p.exp
           /\ PersistBackoff(p, n).lv = n + TransportBackoff - RevalidateInterval
           /\ PersistBackoff(p, n).lv > 0 /\ PersistBackoff(p, n).lv <= n
           /\ PersistBackoff(p, n).rra = p.rra /\ PersistBackoff(p, n).aut = p.aut
  <1> DEFINE l == n + TransportBackoff - RevalidateInterval
  <1>1. l \in Nat /\ l > 0 /\ l <= n
    BY BackoffRange, ConfigAssumption, LifeAssumption
  <1>2. PersistBackoff(p, n) = [p EXCEPT !.lv = l]
    BY DEF PersistBackoff
  <1> HIDE DEF l
  <1>3. PersistBackoff(p, n) \in Payload /\ PersistBackoff(p, n).lv = l
        /\ PersistBackoff(p, n).exp = p.exp /\ PersistBackoff(p, n).rra = p.rra
        /\ PersistBackoff(p, n).aut = p.aut
    BY <1>1, <1>2 DEF Payload
  <1>4. QED
    BY <1>1, <1>3 DEF l

LEMMA RetryAppliedShape ==
    ASSUME NEW p \in Payload, NEW n \in Nat
    PROVE  /\ RetryApplied(p, n) \in Payload
           /\ \/ RetryApplied(p, n).exp = p.exp
              \/ RetryApplied(p, n).exp = p.lv + SessionTTL
           /\ RetryApplied(p, n).exp >= p.exp
           /\ RetryApplied(p, n).lv = p.lv /\ RetryApplied(p, n).rra = 0
           /\ RetryApplied(p, n).aut = p.aut
  <1> DEFINE e == IF p.lv + SessionTTL > p.exp THEN p.lv + SessionTTL ELSE p.exp
             z == 0
  <1>0. p.exp \in Nat /\ p.lv \in Nat
    BY DEF Payload
  <1>1. e \in Nat /\ e >= p.exp /\ (e = p.exp \/ e = p.lv + SessionTTL)
    BY <1>0, ConfigAssumption
  <1>z. z \in Nat
    OBVIOUS
  <1>2. RetryApplied(p, n) = [p EXCEPT !.rra = z, !.exp = e]
    BY DEF RetryApplied, Payload
  <1> HIDE DEF e, z
  <1>3. RetryApplied(p, n) \in Payload
    BY <1>1, <1>2, <1>z DEF Payload
  <1>4. RetryApplied(p, n).exp = e /\ RetryApplied(p, n).lv = p.lv
        /\ RetryApplied(p, n).rra = z /\ RetryApplied(p, n).aut = p.aut
    BY <1>1, <1>2 DEF Payload
  <1>5. QED
    BY <1>1, <1>3, <1>4 DEF z

LEMMA RetrySoftShape ==
    ASSUME NEW p \in Payload, NEW n \in Nat
    PROVE  /\ RetrySoft(p, n) \in Payload
           /\ RetrySoft(p, n).exp = p.exp
           /\ RetrySoft(p, n).lv = p.lv
           /\ RetrySoft(p, n).rra = n + TransportBackoff
           /\ RetrySoft(p, n).aut = p.aut
  <1>1. TransportBackoff \in Nat
    BY BackoffRange
  <1>2. QED
    BY <1>1 DEF RetrySoft, Payload

LEMMA SyncStampedShape ==
    ASSUME NEW p \in Payload, NEW n \in Nat, NEW rt \in Tokens \cup {NoToken}
    PROVE  /\ SyncStamped(p, n, rt) \in Payload
           /\ SyncStamped(p, n, rt).exp = n + SessionTTL
           /\ SyncStamped(p, n, rt).lv = n
           /\ SyncStamped(p, n, rt).rra = p.rra
           /\ SyncStamped(p, n, rt).aut = p.aut
  <1> DEFINE e == n + SessionTTL
             t == IF RetainTokens /\ ~IsGrantMinted(p) /\ rt # NoToken THEN rt ELSE p.rt
  <1>1. e \in Nat /\ t \in Tokens \cup {NoToken}
    BY ConfigAssumption DEF Payload
  <1>2. SyncStamped(p, n, rt) = [p EXCEPT !.lv = n, !.exp = e, !.rt = t]
    BY DEF SyncStamped, Payload
  <1> HIDE DEF e, t
  <1>3. SyncStamped(p, n, rt) \in Payload
    BY <1>1, <1>2 DEF Payload
  <1>4. SyncStamped(p, n, rt).exp = e /\ SyncStamped(p, n, rt).lv = n
        /\ SyncStamped(p, n, rt).rra = p.rra /\ SyncStamped(p, n, rt).aut = p.aut
    BY <1>1, <1>2 DEF Payload
  <1>5. QED
    BY <1>3, <1>4 DEF e

LEMMA AccessTokenShape ==
    ASSUME NEW p \in Payload, NEW rt \in Tokens
    PROVE  /\ AccessTokenStored(p, rt) \in Payload
           /\ AccessTokenStored(p, rt).exp = p.exp
           /\ AccessTokenStored(p, rt).lv = p.lv
           /\ AccessTokenStored(p, rt).rra = p.rra
           /\ AccessTokenStored(p, rt).aut = p.aut
  BY DEF AccessTokenStored, Payload

(* The anchor of the floor is a time of the cookie.                        *)
LEMMA AnchorOf ==
    ASSUME NEW p \in Payload
    PROVE  /\ ValidationAnchor(p) \in Int
           /\ p.lv > 0 => ValidationAnchor(p) = p.lv
           /\ p.lv = 0 => ValidationAnchor(p) = p.exp - SessionTTL
           /\ p.lv \in Nat /\ p.exp \in Nat /\ p.rra \in Nat /\ p.aut \in Nat
  BY ConfigAssumption DEF ValidationAnchor, Payload

(* The times of an answer a request applies (AnswerGivenAt).               *)
LEMMA AnswerTimes ==
    ASSUME TypeOK, NEW a \in asked .. now, AnswerGivenAt(a)
    PROVE  a \in Int /\ asked <= a /\ a <= now /\ now <= a + AnswerAge
  BY LifeAssumption DEF TypeOK, AnswerGivenAt

(* auth_time values of a refreshed ID token are natural numbers.           *)
LEMMA AutTimes ==
    ASSUME TypeOK, NEW aut \in RefreshedAuthTimes
    PROVE  aut \in Nat /\ aut <= authAt
  BY LifeAssumption DEF TypeOK, RefreshedAuthTimes

(* The clock, the anchors and the types along every step.                  *)
LEMMA InvInit == Init => Inv
  BY ConfigAssumption, LifeAssumption
  DEF Init, Inv, TypeOK, Anchored, Payload, LegacyPayload, ValidationAnchor

(* A request keeps the invariant whichever cookie it writes, as long as    *)
(* the cookie's anchor is not after the attempt it records and its Exp is  *)
(* at most one SessionTTL away.                                            *)
LEMMA WritePreserves ==
    ASSUME Inv, NEW q \in Payload, jar' = q \/ jar' = jar,
           now' = now, jar # NoSession,
           attempt' \in Nat, attempt <= attempt', attempt' <= now,
           asked' \in Int, asked' <= now, attempt' <= asked' + AnswerAge,
           conf' \in Int, conf' <= asked',
           resolvedAt' \in Int, resolvedAt' <= now, resolverAt' \in Nat,
           attemptOk' \in BOOLEAN, stampKept' \in BOOLEAN, retryKept' \in BOOLEAN,
           UNCHANGED <<authAt, mintAut>>,
           q.lv <= attempt', ValidationAnchor(q) <= attempt',
           q.exp <= now + SessionTTL
    PROVE  Inv'
  <1>1. jar' \in Payload
    BY DEF Inv, TypeOK
  <1>2. TypeOK'
    BY <1>1 DEF Inv, TypeOK
  <1>3. jar'.lv <= attempt' /\ ValidationAnchor(jar') <= attempt'
        /\ jar'.exp <= now + SessionTTL
    <2>1. CASE jar' = q
      BY <2>1
    <2>2. CASE jar' = jar
      BY <2>2, AnchorOf DEF Inv, TypeOK, Anchored
    <2>3. QED
      BY <2>1, <2>2
  <1>4. ValidationAnchor(jar)' = ValidationAnchor(jar')
    BY DEF ValidationAnchor
  <1>5. Anchored'
    BY <1>3, <1>4 DEF Inv, TypeOK, Anchored
  <1>6. QED
    BY <1>2, <1>5 DEF Inv

LEMMA InvNext == Inv /\ [Next]_vars => Inv'
  <1> SUFFICES ASSUME Inv, [Next]_vars PROVE Inv'
    OBVIOUS
  <1> USE ConfigAssumption, LifeAssumption, BackoffRange
  <1>a. jar # NoSession => jar \in Payload
    BY DEF Inv, TypeOK
  <1>1. CASE Tick
    BY <1>1 DEF Tick, ValidationAnchor, Inv, TypeOK, Anchored, Payload
  <1>2. CASE AuthenticateElsewhere
    BY <1>2 DEF AuthenticateElsewhere, ValidationAnchor, Inv, TypeOK, Anchored, Payload
  <1>3. CASE HandleLoginCallback
    BY <1>3 DEF HandleLoginCallback, MintedNow, ValidationAnchor, Inv, TypeOK, Anchored, Payload
  <1>4. CASE IssueSession
    BY <1>4 DEF IssueSession, MintedNow, ValidationAnchor, Inv, TypeOK, Anchored, Payload
  <1>5. CASE GrantRevoked
    <2>1. PICK a \in asked .. now : AnswerGivenAt(a) /\ Attempted(a)
      BY <1>5 DEF GrantRevoked
    <2>2. a \in Int /\ asked <= a /\ a <= now /\ now <= a + AnswerAge
      BY <2>1, AnswerTimes DEF Inv
    <2>3. TypeOK'
      BY <1>5, <2>1, <2>2 DEF GrantRevoked, Attempted, ClearSession, Inv, TypeOK
    <2>4. Anchored'
      BY <1>5, <2>1, <2>2 DEF GrantRevoked, Attempted, ClearSession, Inv, TypeOK, Anchored
    <2>5. QED
      BY <2>3, <2>4 DEF Inv
  <1>6. CASE GrantFailed
    <2> DEFINE q == PersistBackoff(jar, now)
    <2>1. PICK a \in asked .. now : AnswerGivenAt(a) /\ Attempted(a)
      BY <1>6 DEF GrantFailed
    <2>2. a \in Int /\ asked <= a /\ a <= now /\ now <= a + AnswerAge
      BY <2>1, AnswerTimes DEF Inv
    <2>3. jar # NoSession /\ jar \in Payload /\ RevalidateInterval > 0
          /\ now \in Nat /\ now >= Start
      BY <1>6, <1>a DEF GrantFailed, GrantDue, Live, FloorDue, Inv, TypeOK
    <2>4. /\ q \in Payload /\ q.exp = jar.exp
          /\ q.lv = now + TransportBackoff - RevalidateInterval
          /\ q.lv > 0 /\ q.lv <= now
      BY <2>3, PersistBackoffShape
    <2>5. jar' = q \/ jar' = jar
      BY <1>6 DEF GrantFailed, WriteSession
    <2> HIDE DEF q
    <2>6. ValidationAnchor(q) <= now /\ q.exp <= now + SessionTTL
      BY <2>3, <2>4, AnchorOf DEF Inv, TypeOK, Anchored
    <2>7. attempt' = now /\ asked' = a /\ stampKept' \in BOOLEAN /\ attemptOk' = FALSE
          /\ UNCHANGED <<now, conf, resolvedAt, resolverAt, retryKept, authAt, mintAut>>
      BY <1>6, <2>1 DEF GrantFailed, Attempted
    <2>8. attempt <= now /\ conf <= asked /\ conf \in Int /\ asked \in Int
          /\ resolvedAt \in Int /\ resolvedAt <= now /\ resolverAt \in Nat
      BY DEF Inv, TypeOK, Anchored
    <2>9. retryKept' \in BOOLEAN /\ attemptOk' \in BOOLEAN
      BY <2>7 DEF Inv, TypeOK
    <2>10. conf' <= asked'
      BY <2>2, <2>7, <2>8
    <2>11. QED
      BY <2>2, <2>3, <2>4, <2>5, <2>6, <2>7, <2>8, <2>9, <2>10, LifeAssumption, WritePreserves
  <1>7. CASE GrantApplied
    <2>1. PICK a \in asked .. now, rt \in Tokens, aut \in RefreshedAuthTimes :
             /\ AnswerGivenAt(a) /\ Attempted(a) /\ conf' = a
             /\ resolvedAt' = IF ReresolveOnRevalidate THEN a ELSE resolvedAt
             /\ WriteSession(Stamped(Refreshed(jar, rt, aut), now), stampKept')
      BY <1>7 DEF GrantApplied
    <2> DEFINE r == Refreshed(jar, rt, aut)
               q == Stamped(r, now)
    <2>2. a \in Int /\ asked <= a /\ a <= now /\ now <= a + AnswerAge
      BY <2>1, AnswerTimes DEF Inv
    <2>3. jar # NoSession /\ jar \in Payload /\ now \in Nat
      BY <1>7, <1>a DEF GrantApplied, GrantDue, Live, Inv, TypeOK
    <2>4. r \in Payload
      BY <2>1, <2>3, AutTimes, RefreshedShape DEF Inv
    <2> HIDE DEF r
    <2>5. q \in Payload /\ q.exp = now + SessionTTL /\ q.lv = now
      BY <2>3, <2>4, StampedShape
    <2>6. jar' = q \/ jar' = jar
      BY <2>1 DEF WriteSession, r
    <2> HIDE DEF q
    <2>7. ValidationAnchor(q) <= now
      BY <2>3, <2>5, AnchorOf
    <2>8. QED
      BY <1>7, <2>1, <2>2, <2>3, <2>5, <2>6, <2>7, WritePreserves
      DEF GrantApplied, GrantDue, Live, Attempted, Inv, TypeOK, Anchored
  <1>8. CASE GrantSoft
    <2>1. PICK a \in asked .. now, rt \in Tokens, aut \in RefreshedAuthTimes :
             /\ AnswerGivenAt(a) /\ Attempted(a) /\ conf' = a
             /\ WriteSession(SoftResolved(Refreshed(jar, rt, aut), now), stampKept')
      BY <1>8 DEF GrantSoft
    <2> DEFINE r == Refreshed(jar, rt, aut)
               q == SoftResolved(r, now)
    <2>2. a \in Int /\ asked <= a /\ a <= now /\ now <= a + AnswerAge
      BY <2>1, AnswerTimes DEF Inv
    <2>3. jar # NoSession /\ jar \in Payload /\ now \in Nat
      BY <1>8, <1>a DEF GrantSoft, GrantDue, Live, Inv, TypeOK
    <2>4. r \in Payload /\ r.exp = jar.exp
      BY <2>1, <2>3, AutTimes, RefreshedShape DEF Inv
    <2> HIDE DEF r
    <2>5. q \in Payload /\ q.exp = jar.exp /\ q.lv = now
      BY <2>3, <2>4, SoftResolvedShape
    <2>6. jar' = q \/ jar' = jar
      BY <2>1 DEF WriteSession, r
    <2> HIDE DEF q
    <2>7. ValidationAnchor(q) <= now /\ q.exp <= now + SessionTTL
      BY <2>3, <2>5, AnchorOf DEF Inv, TypeOK, Anchored
    <2>8. QED
      BY <1>8, <2>1, <2>2, <2>3, <2>5, <2>6, <2>7, WritePreserves
      DEF GrantSoft, GrantDue, Live, Attempted, Inv, TypeOK, Anchored
  <1>9. CASE GrantEnded
    <2>1. PICK a \in asked .. now : AnswerGivenAt(a) /\ Attempted(a) /\ conf' = a
      BY <1>9 DEF GrantEnded
    <2>2. a \in Int /\ asked <= a /\ a <= now /\ now <= a + AnswerAge
      BY <2>1, AnswerTimes DEF Inv
    <2>3. TypeOK'
      BY <1>9, <2>1, <2>2 DEF GrantEnded, Attempted, ClearSession, Inv, TypeOK
    <2>4. Anchored'
      BY <1>9, <2>1, <2>2 DEF GrantEnded, Attempted, ClearSession, Inv, TypeOK, Anchored
    <2>5. QED
      BY <2>3, <2>4 DEF Inv
  <1>10. CASE RetryAnswered
    <2> DEFINE q == RetryApplied(jar, now)
    <2>1. jar # NoSession /\ jar \in Payload /\ now \in Nat /\ jar.rra > 0
      BY <1>10, <1>a DEF RetryAnswered, RetryDue, ResolveRetryDue, Live, Inv, TypeOK
    <2>2. /\ q \in Payload /\ q.lv = jar.lv
          /\ q.exp = jar.exp \/ q.exp = jar.lv + SessionTTL
          /\ q.exp >= jar.exp
      BY <2>1, RetryAppliedShape
    <2>3. jar' = q \/ jar' = jar
      BY <1>10 DEF RetryAnswered, WriteSession
    <2> HIDE DEF q
    <2>4. PICK a \in now - AnswerAge .. now : a >= resolvedAt /\ resolvedAt' = a
      BY <1>10 DEF RetryAnswered
    <2>5. q.exp <= now + SessionTTL
      BY <2>1, <2>2, AnchorOf DEF Inv, TypeOK, Anchored
    <2>6. ValidationAnchor(q) <= attempt
      BY <2>1, <2>2, AnchorOf DEF Inv, TypeOK, Anchored
    <2>7. resolvedAt' \in Int /\ resolvedAt' <= now
      BY <2>1, <2>4
    <2>8. QED
      BY <1>10, <2>1, <2>2, <2>3, <2>5, <2>6, <2>7, WritePreserves
      DEF RetryAnswered, Inv, TypeOK, Anchored
  <1>11. CASE RetryErred
    <2> DEFINE q == RetrySoft(jar, now)
    <2>1. jar # NoSession /\ jar \in Payload /\ now \in Nat
      BY <1>11, <1>a DEF RetryErred, RetryDue, Live, Inv, TypeOK
    <2>2. q \in Payload /\ q.lv = jar.lv /\ q.exp = jar.exp
      BY <2>1, RetrySoftShape
    <2>3. jar' = q \/ jar' = jar
      BY <1>11 DEF RetryErred, WriteSession
    <2> HIDE DEF q
    <2>4. ValidationAnchor(q) <= attempt
      BY <2>1, <2>2, AnchorOf DEF Inv, TypeOK, Anchored
    <2>5. QED
      BY <1>11, <2>1, <2>2, <2>3, <2>4, WritePreserves
      DEF RetryErred, Inv, TypeOK, Anchored
  <1>12. CASE RetryEnded
    BY <1>12 DEF RetryEnded, ClearSession, Inv, TypeOK, Anchored
  <1>13. CASE SyncUnchanged
    <2>1. PICK rt \in Tokens \cup {NoToken} :
             WriteSession(SyncStamped(jar, now, rt), stampKept')
      BY <1>13 DEF SyncUnchanged
    <2> DEFINE q == SyncStamped(jar, now, rt)
    <2>2. jar # NoSession /\ jar \in Payload /\ now \in Nat
      BY <1>13, <1>a DEF SyncUnchanged, Live, Inv, TypeOK
    <2>3. q \in Payload /\ q.exp = now + SessionTTL /\ q.lv = now
      BY <2>1, <2>2, SyncStampedShape
    <2>4. jar' = q \/ jar' = jar
      BY <2>1 DEF WriteSession
    <2> HIDE DEF q
    <2>5. ValidationAnchor(q) <= now
      BY <2>2, <2>3, AnchorOf
    <2>6. QED
      BY <1>13, <2>2, <2>3, <2>4, <2>5, WritePreserves
      DEF SyncUnchanged, Live, Inv, TypeOK, Anchored
  <1>14. CASE SyncCleared
    BY <1>14 DEF SyncCleared, ClearSession, Inv, TypeOK, Anchored
  <1>15. CASE AccessToken
    BY <1>15 DEF AccessToken, Live, AccessTokenStored, ValidationAnchor, Inv, TypeOK, Anchored, Payload
  <1>16. CASE HandleLogout
    BY <1>16 DEF HandleLogout, ClearSession, Inv, TypeOK, Anchored
  <1>17. CASE UNCHANGED vars
    BY <1>17 DEF vars, ValidationAnchor, Inv, TypeOK, Anchored
  <1>18. QED
    BY <1>1, <1>2, <1>3, <1>4, <1>5, <1>6, <1>7, <1>8, <1>9, <1>10, <1>11, <1>12,
       <1>13, <1>14, <1>15, <1>16, <1>17 DEF Next, Revalidate

(* Every cookie the library writes is well formed: its times are absolute  *)
(* and its token is one the IdP issued.                                    *)
THEOREM TypeCorrect == Spec => []TypeOK
  <1>1. Inv => TypeOK
    BY DEF Inv
  <1>2. QED
    BY <1>1, InvInit, InvNext, PTL DEF Spec

(* FloorHolds: maybeRevalidate never serves a revalidatable session the    *)
(* IdP was not asked about within the interval.                            *)
THEOREM FloorAlwaysHolds == Spec => []FloorHolds
  <1>1. Inv => FloorHolds
    BY ConfigAssumption, LifeAssumption
    DEF Inv, TypeOK, Anchored, Payload, FloorHolds, FloorDue, Live, ValidationAnchor
  <1>2. QED
    BY <1>1, InvInit, InvNext, PTL DEF Spec

-----------------------------------------------------------------------------
(* What each operation that rewrites the cookie leaves in its fields, for  *)
(* the invariants built on Inv.                                            *)

(* A grant applied.                                                        *)
LEMMA GrantAppliedStep ==
    ASSUME Inv, GrantApplied
    PROVE  /\ jar # NoSession /\ jar \in Payload
           /\ now' = now /\ attempt' = now /\ attemptOk' = TRUE
           /\ UNCHANGED <<resolverAt, retryKept, authAt, mintAut>>
           /\ conf' \in Int /\ conf <= conf' /\ conf' <= now /\ now <= conf' + AnswerAge
           /\ resolvedAt' = IF ReresolveOnRevalidate THEN conf' ELSE resolvedAt
           /\ \/ ~stampKept' /\ jar' = jar
              \/ /\ stampKept' /\ jar'.exp = now + SessionTTL
                 /\ jar'.lv = now /\ jar'.rra = 0
                 /\ \E aut \in Nat : aut <= authAt /\ jar'.aut = MergeRefreshedAuthTime(jar.aut, aut)
  <1>1. PICK a \in asked .. now, rt \in Tokens, aut \in RefreshedAuthTimes :
           /\ AnswerGivenAt(a) /\ Attempted(a) /\ conf' = a
           /\ resolvedAt' = IF ReresolveOnRevalidate THEN a ELSE resolvedAt
           /\ WriteSession(Stamped(Refreshed(jar, rt, aut), now), stampKept')
    BY DEF GrantApplied
  <1> DEFINE r == Refreshed(jar, rt, aut)
             q == Stamped(r, now)
  <1>2. a \in Int /\ asked <= a /\ a <= now /\ now <= a + AnswerAge
    BY <1>1, AnswerTimes DEF Inv
  <1>3. jar # NoSession /\ jar \in Payload /\ now \in Nat
    BY DEF GrantApplied, GrantDue, Live, Inv, TypeOK
  <1>4. aut \in Nat /\ aut <= authAt
    BY AutTimes DEF Inv
  <1>5. r \in Payload /\ r.aut = MergeRefreshedAuthTime(jar.aut, aut)
    BY <1>3, <1>4, RefreshedShape
  <1> HIDE DEF r
  <1>6. q.exp = now + SessionTTL /\ q.lv = now /\ q.rra = 0 /\ q.aut = r.aut
    BY <1>3, <1>5, StampedShape
  <1>7. jar' = IF stampKept' THEN q ELSE jar
    BY <1>1 DEF WriteSession, r
  <1> HIDE DEF q
  <1>8. conf <= a
    BY <1>2 DEF Inv, TypeOK, Anchored
  <1>9. \/ ~stampKept' /\ jar' = jar
        \/ stampKept' /\ jar' = q
    BY <1>7 DEF GrantApplied
  <1>10. \/ ~stampKept' /\ jar' = jar
         \/ /\ stampKept' /\ jar'.exp = now + SessionTTL
            /\ jar'.lv = now /\ jar'.rra = 0
            /\ \E x \in Nat : x <= authAt /\ jar'.aut = MergeRefreshedAuthTime(jar.aut, x)
    BY <1>4, <1>5, <1>6, <1>9
  <1>11. QED
    BY <1>1, <1>2, <1>3, <1>8, <1>10 DEF GrantApplied, Attempted

(* A grant whose re-resolution failed softly.                              *)
LEMMA GrantSoftStep ==
    ASSUME Inv, GrantSoft
    PROVE  /\ jar # NoSession /\ jar \in Payload /\ ReresolveOnRevalidate
           /\ now' = now /\ attempt' = now /\ attemptOk' = TRUE
           /\ resolverAt' = now /\ retryKept' = stampKept'
           /\ UNCHANGED <<resolvedAt, authAt, mintAut>>
           /\ conf' \in Int /\ conf <= conf' /\ conf' <= now /\ now <= conf' + AnswerAge
           /\ \/ ~stampKept' /\ jar' = jar
              \/ /\ stampKept' /\ jar'.exp = jar.exp
                 /\ jar'.lv = now /\ jar'.rra = now + TransportBackoff
                 /\ \E aut \in Nat : aut <= authAt /\ jar'.aut = MergeRefreshedAuthTime(jar.aut, aut)
  <1>1. PICK a \in asked .. now, rt \in Tokens, aut \in RefreshedAuthTimes :
           /\ AnswerGivenAt(a) /\ Attempted(a) /\ conf' = a
           /\ WriteSession(SoftResolved(Refreshed(jar, rt, aut), now), stampKept')
    BY DEF GrantSoft
  <1> DEFINE r == Refreshed(jar, rt, aut)
             q == SoftResolved(r, now)
  <1>2. a \in Int /\ asked <= a /\ a <= now /\ now <= a + AnswerAge
    BY <1>1, AnswerTimes DEF Inv
  <1>3. jar # NoSession /\ jar \in Payload /\ now \in Nat
    BY DEF GrantSoft, GrantDue, Live, Inv, TypeOK
  <1>4. aut \in Nat /\ aut <= authAt
    BY AutTimes DEF Inv
  <1>5. r \in Payload /\ r.exp = jar.exp /\ r.aut = MergeRefreshedAuthTime(jar.aut, aut)
    BY <1>3, <1>4, RefreshedShape
  <1> HIDE DEF r
  <1>6. q.exp = r.exp /\ q.lv = now /\ q.rra = now + TransportBackoff /\ q.aut = r.aut
    BY <1>3, <1>5, SoftResolvedShape
  <1>7. jar' = IF stampKept' THEN q ELSE jar
    BY <1>1 DEF WriteSession, r
  <1> HIDE DEF q
  <1>8. conf <= a
    BY <1>2 DEF Inv, TypeOK, Anchored
  <1>9. \/ ~stampKept' /\ jar' = jar
        \/ stampKept' /\ jar' = q
    BY <1>7 DEF GrantSoft
  <1>10. \/ ~stampKept' /\ jar' = jar
         \/ /\ stampKept' /\ jar'.exp = jar.exp
            /\ jar'.lv = now /\ jar'.rra = now + TransportBackoff
            /\ \E x \in Nat : x <= authAt /\ jar'.aut = MergeRefreshedAuthTime(jar.aut, x)
    BY <1>4, <1>5, <1>6, <1>9
  <1>11. QED
    BY <1>1, <1>2, <1>3, <1>8, <1>10 DEF GrantSoft, Attempted

(* A grant without a verdict.                                              *)
LEMMA GrantFailedStep ==
    ASSUME Inv, GrantFailed
    PROVE  /\ jar # NoSession /\ jar \in Payload
           /\ attempt' = now /\ attemptOk' = FALSE
           /\ UNCHANGED <<now, conf, resolvedAt, resolverAt, retryKept, authAt, mintAut>>
           /\ \/ ~stampKept' /\ jar' = jar
              \/ /\ stampKept' /\ jar'.exp = jar.exp
                 /\ jar'.lv = now + TransportBackoff - RevalidateInterval /\ jar'.lv > 0
                 /\ jar'.rra = jar.rra /\ jar'.aut = jar.aut
  <1> DEFINE q == PersistBackoff(jar, now)
  <1>1. jar # NoSession /\ jar \in Payload /\ RevalidateInterval > 0
        /\ now \in Nat /\ now >= Start
    BY DEF GrantFailed, GrantDue, Live, FloorDue, Inv, TypeOK
  <1>2. /\ q.exp = jar.exp /\ q.lv = now + TransportBackoff - RevalidateInterval
        /\ q.lv > 0 /\ q.rra = jar.rra /\ q.aut = jar.aut
    BY <1>1, PersistBackoffShape
  <1>3. stampKept' \in BOOLEAN /\ jar' = IF stampKept' THEN q ELSE jar
    BY DEF GrantFailed, WriteSession
  <1> HIDE DEF q
  <1>4. (~stampKept' /\ jar' = jar) \/ (stampKept' /\ jar' = q)
    BY <1>3
  <1>5. QED
    BY <1>1, <1>2, <1>4 DEF GrantFailed, Attempted

(* A resolver-only retry that was answered.                                *)
LEMMA RetryAnsweredStep ==
    ASSUME Inv, RetryAnswered
    PROVE  /\ jar # NoSession /\ jar \in Payload /\ jar.rra > 0 /\ now <= jar.exp
           /\ ReresolveOnRevalidate
           /\ UNCHANGED <<now, conf, asked, attempt, attemptOk, resolverAt, stampKept,
                          retryKept, authAt, mintAut>>
           /\ resolvedAt' \in Int /\ resolvedAt <= resolvedAt' /\ now <= resolvedAt' + AnswerAge
           /\ \/ jar' = jar
              \/ /\ jar'.lv = jar.lv /\ jar'.rra = 0 /\ jar'.aut = jar.aut
                 /\ jar'.exp \in Nat /\ jar'.exp >= jar.exp
                 /\ jar'.exp = jar.exp \/ jar'.exp = jar.lv + SessionTTL
  <1> DEFINE q == RetryApplied(jar, now)
  <1>1. jar # NoSession /\ jar \in Payload /\ now \in Nat /\ jar.rra > 0
        /\ ReresolveOnRevalidate
    BY DEF RetryAnswered, RetryDue, ResolveRetryDue, Live, Inv, TypeOK
  <1>2. now <= jar.exp
    BY <1>1 DEF RetryAnswered, RetryDue, Live, Expired, Payload
  <1>3. /\ q \in Payload /\ q.lv = jar.lv /\ q.rra = 0 /\ q.aut = jar.aut
        /\ q.exp >= jar.exp /\ (q.exp = jar.exp \/ q.exp = jar.lv + SessionTTL)
    BY <1>1, RetryAppliedShape
  <1>4. q.exp \in Nat
    BY <1>3, AnchorOf
  <1>5. jar' = q \/ jar' = jar
    BY DEF RetryAnswered, WriteSession
  <1> HIDE DEF q
  <1>6. PICK a \in now - AnswerAge .. now : a >= resolvedAt /\ resolvedAt' = a
    BY DEF RetryAnswered
  <1>7. resolvedAt' \in Int /\ resolvedAt <= resolvedAt' /\ now <= resolvedAt' + AnswerAge
    BY <1>1, <1>6, LifeAssumption DEF Inv, TypeOK
  <1>8. QED
    BY <1>1, <1>2, <1>3, <1>4, <1>5, <1>7 DEF RetryAnswered

(* A resolver-only retry that erred.                                       *)
LEMMA RetryErredStep ==
    ASSUME Inv, RetryErred
    PROVE  /\ jar # NoSession /\ jar \in Payload /\ jar.rra > 0
           /\ UNCHANGED <<now, conf, asked, attempt, attemptOk, resolvedAt, stampKept,
                          authAt, mintAut>>
           /\ resolverAt' = now
           /\ \/ ~retryKept' /\ jar' = jar
              \/ /\ retryKept' /\ jar'.exp = jar.exp /\ jar'.lv = jar.lv
                 /\ jar'.rra = now + TransportBackoff /\ jar'.aut = jar.aut
  <1> DEFINE q == RetrySoft(jar, now)
  <1>1. jar # NoSession /\ jar \in Payload /\ now \in Nat /\ jar.rra > 0
    BY DEF RetryErred, RetryDue, ResolveRetryDue, Live, Inv, TypeOK
  <1>2. /\ q.exp = jar.exp /\ q.lv = jar.lv /\ q.rra = now + TransportBackoff
        /\ q.aut = jar.aut
    BY <1>1, RetrySoftShape
  <1>3. retryKept' \in BOOLEAN /\ jar' = IF retryKept' THEN q ELSE jar
    BY DEF RetryErred, WriteSession
  <1> HIDE DEF q
  <1>4. (~retryKept' /\ jar' = jar) \/ (retryKept' /\ jar' = q)
    BY <1>3
  <1>5. QED
    BY <1>1, <1>2, <1>4 DEF RetryErred

(* A session sync that confirmed the session.                              *)
LEMMA SyncStep ==
    ASSUME Inv, SyncUnchanged
    PROVE  /\ jar # NoSession /\ jar \in Payload /\ SessionSyncEnabled
           /\ conf' = now /\ attempt' = now /\ attemptOk' = TRUE
           /\ UNCHANGED <<now, resolverAt, retryKept, authAt, mintAut>>
           /\ \/ ~stampKept' /\ jar' = jar /\ resolvedAt' = resolvedAt
              \/ /\ stampKept' /\ jar'.exp = now + SessionTTL /\ jar'.lv = now
                 /\ jar'.rra = jar.rra /\ jar'.aut = jar.aut /\ resolvedAt' = now
  <1>1. PICK rt \in Tokens \cup {NoToken} :
           WriteSession(SyncStamped(jar, now, rt), stampKept')
    BY DEF SyncUnchanged
  <1> DEFINE q == SyncStamped(jar, now, rt)
  <1>2. jar # NoSession /\ jar \in Payload /\ now \in Nat
    BY DEF SyncUnchanged, Live, Inv, TypeOK
  <1>3. /\ q.exp = now + SessionTTL /\ q.lv = now /\ q.rra = jar.rra
        /\ q.aut = jar.aut
    BY <1>1, <1>2, SyncStampedShape
  <1>4. stampKept' \in BOOLEAN /\ jar' = IF stampKept' THEN q ELSE jar
    BY <1>1 DEF SyncUnchanged, WriteSession
  <1> HIDE DEF q
  <1>5. (~stampKept' /\ jar' = jar) \/ (stampKept' /\ jar' = q)
    BY <1>4
  <1>6. QED
    BY <1>2, <1>3, <1>5 DEF SyncUnchanged

(* AccessToken's refresh.                                                  *)
LEMMA AccessTokenStep ==
    ASSUME Inv, AccessToken
    PROVE  /\ jar # NoSession /\ jar \in Payload
           /\ UNCHANGED <<now, conf, asked, attempt, attemptOk, resolvedAt, resolverAt,
                          stampKept, retryKept, authAt, mintAut>>
           /\ jar'.exp = jar.exp /\ jar'.lv = jar.lv
           /\ jar'.rra = jar.rra /\ jar'.aut = jar.aut
  <1>1. PICK rt \in Tokens : jar' \in {AccessTokenStored(jar, rt), jar}
    BY DEF AccessToken
  <1>2. jar # NoSession /\ jar \in Payload
    BY DEF AccessToken, Live, Inv, TypeOK
  <1>3. /\ AccessTokenStored(jar, rt).exp = jar.exp
        /\ AccessTokenStored(jar, rt).lv = jar.lv
        /\ AccessTokenStored(jar, rt).rra = jar.rra
        /\ AccessTokenStored(jar, rt).aut = jar.aut
    BY <1>2, AccessTokenShape
  <1>4. QED
    BY <1>1, <1>2, <1>3 DEF AccessToken

(* A freshly minted session, by either door.                               *)
LEMMA MintStep ==
    ASSUME Inv, HandleLoginCallback \/ IssueSession
    PROVE  /\ jar'.exp = now + SessionTTL /\ jar'.lv = now /\ jar'.rra = 0
           /\ jar'.aut = mintAut' /\ mintAut' \in {0, authAt'}
           /\ authAt' \in {authAt, now}
           /\ conf' = now /\ attempt' = now /\ attemptOk' = TRUE /\ resolvedAt' = now
           /\ now' = now
  BY DEF HandleLoginCallback, IssueSession, MintedNow

(* The operations that clear the cookie.                                   *)
Clears == GrantRevoked \/ GrantEnded \/ RetryEnded \/ SyncCleared \/ HandleLogout

LEMMA ClearStep == ASSUME Clears PROVE jar' = NoSession
  BY DEF Clears, GrantRevoked, GrantEnded, RetryEnded, SyncCleared, HandleLogout, ClearSession

-----------------------------------------------------------------------------
(* The life of a session.                                                  *)

LifeInv ==
    jar # NoSession =>
        /\ jar.exp <= conf + AnswerAge + 2 * SessionTTL
        /\ (jar.rra > 0 \/ ~ReresolveOnRevalidate)
              => jar.exp <= conf + AnswerAge + SessionTTL

LEMMA LifeNext == Inv /\ LifeInv /\ [Next]_vars => LifeInv'
  <1> SUFFICES ASSUME Inv, LifeInv, [Next]_vars PROVE LifeInv'
    OBVIOUS
  <1> USE ConfigAssumption, LifeAssumption
  <1>a. /\ now \in Nat /\ conf \in Int /\ attempt \in Nat /\ attempt <= now /\ conf <= now
        /\ jar # NoSession => /\ jar.exp \in Nat /\ jar.lv \in Nat /\ jar.rra \in Nat
                              /\ jar.lv <= now /\ jar.exp <= now + SessionTTL
    BY DEF Inv, TypeOK, Anchored, Payload
  <1>1. CASE Tick \/ AuthenticateElsewhere \/ UNCHANGED vars
    BY <1>1 DEF Tick, AuthenticateElsewhere, vars, LifeInv
  <1>2. CASE HandleLoginCallback \/ IssueSession
    <2>1. jar'.exp = now + SessionTTL /\ conf' = now
      BY <1>2, MintStep
    <2>2. QED
      BY <2>1, <1>a DEF LifeInv
  <1>3. CASE GrantFailed
    BY <1>3, <1>a, GrantFailedStep DEF LifeInv
  <1>4. CASE GrantApplied
    BY <1>4, <1>a, GrantAppliedStep DEF LifeInv
  <1>5. CASE GrantSoft
    BY <1>5, <1>a, GrantSoftStep DEF LifeInv
  <1>6. CASE RetryAnswered
    BY <1>6, <1>a, RetryAnsweredStep DEF LifeInv
  <1>7. CASE RetryErred
    BY <1>7, <1>a, RetryErredStep DEF LifeInv
  <1>8. CASE SyncUnchanged
    BY <1>8, <1>a, SyncStep DEF LifeInv
  <1>9. CASE AccessToken
    BY <1>9, <1>a, AccessTokenStep DEF LifeInv
  <1>10. CASE Clears
    BY <1>10, ClearStep DEF LifeInv
  <1>11. QED
    BY <1>1, <1>2, <1>3, <1>4, <1>5, <1>6, <1>7, <1>8, <1>9, <1>10
    DEF Next, Revalidate, Clears

(* LifeBound: no sequence of outages, retries, syncs and refreshes lets a  *)
(* session outlive the IdP's last word by more than two SessionTTL.        *)
THEOREM LifeBounded == Spec => []LifeBound
  <1>1. Init => LifeInv
    BY ConfigAssumption, LifeAssumption DEF Init, LifeInv, LegacyPayload
  <1>2. Inv /\ LifeInv => LifeBound
    BY ConfigAssumption, LifeAssumption DEF Inv, TypeOK, Payload, LifeInv, LifeBound
  <1>3. QED
    BY <1>1, <1>2, InvInit, InvNext, LifeNext, PTL DEF Spec

-----------------------------------------------------------------------------
(* The pace of the questions.                                              *)

PaceInv ==
    jar # NoSession =>
        /\ (stampKept /\ attemptOk) => ValidationAnchor(jar) >= attempt
        /\ (stampKept /\ ~attemptOk) =>
              ValidationAnchor(jar) >= attempt + TransportBackoff - RevalidateInterval
        /\ (retryKept /\ jar.rra > 0) => jar.rra >= resolverAt + TransportBackoff

LEMMA PaceNext == Inv /\ PaceInv /\ [Next]_vars => PaceInv'
  <1> SUFFICES ASSUME Inv, PaceInv, [Next]_vars PROVE PaceInv'
    OBVIOUS
  <1> USE ConfigAssumption, LifeAssumption, BackoffRange
  <1>a. /\ now \in Nat /\ now > 0 /\ attempt \in Nat /\ resolverAt \in Nat
        /\ jar # NoSession => jar.exp \in Nat /\ jar.lv \in Nat /\ jar.rra \in Nat
    BY DEF Inv, TypeOK, Anchored, Payload
  <1>1. CASE Tick \/ AuthenticateElsewhere \/ UNCHANGED vars
    BY <1>1 DEF Tick, AuthenticateElsewhere, vars, PaceInv, ValidationAnchor
  <1>2. CASE HandleLoginCallback \/ IssueSession
    <2>1. jar'.lv = now /\ jar'.rra = 0 /\ attempt' = now /\ attemptOk' = TRUE
      BY <1>2, MintStep
    <2>2. QED
      BY <2>1, <1>a DEF PaceInv, ValidationAnchor
  <1>3. CASE GrantFailed
    BY <1>3, <1>a, GrantFailedStep DEF PaceInv, ValidationAnchor
  <1>4. CASE GrantApplied
    BY <1>4, <1>a, GrantAppliedStep DEF PaceInv, ValidationAnchor
  <1>5. CASE GrantSoft
    BY <1>5, <1>a, GrantSoftStep DEF PaceInv, ValidationAnchor
  <1>6. CASE RetryAnswered
    BY <1>6, <1>a, RetryAnsweredStep DEF PaceInv, ValidationAnchor
  <1>7. CASE RetryErred
    BY <1>7, <1>a, RetryErredStep DEF PaceInv, ValidationAnchor
  <1>8. CASE SyncUnchanged
    BY <1>8, <1>a, SyncStep DEF PaceInv, ValidationAnchor
  <1>9. CASE AccessToken
    BY <1>9, <1>a, AccessTokenStep DEF PaceInv, ValidationAnchor
  <1>10. CASE Clears
    BY <1>10, ClearStep DEF PaceInv
  <1>11. QED
    BY <1>1, <1>2, <1>3, <1>4, <1>5, <1>6, <1>7, <1>8, <1>9, <1>10
    DEF Next, Revalidate, Clears

LEMMA PaceInit == Init => PaceInv
  BY ConfigAssumption, LifeAssumption, BackoffRange
  DEF Init, PaceInv, ValidationAnchor, LegacyPayload

(* GrantPaced: the IdP is not asked again before the interval is over, or  *)
(* the backoff if it gave no verdict, once an outcome was stored.          *)
THEOREM GrantsPaced == Spec => []GrantPaced
  <1>1. Inv /\ PaceInv => GrantPaced
    BY ConfigAssumption, LifeAssumption, BackoffRange
    DEF Inv, TypeOK, Payload, PaceInv, GrantPaced, GrantDue, FloorDue, Live, ValidationAnchor
  <1>2. QED
    BY <1>1, InvInit, InvNext, PaceInit, PaceNext, PTL DEF Spec

(* ResolverPaced: a resolver that erred is left alone for one backoff.     *)
THEOREM RetriesPaced == Spec => []ResolverPaced
  <1>1. Inv /\ PaceInv => ResolverPaced
    BY ConfigAssumption, LifeAssumption, BackoffRange
    DEF Inv, TypeOK, Payload, PaceInv, ResolverPaced, RetryDue, ResolveRetryDue, Live
  <1>2. QED
    BY <1>1, InvInit, InvNext, PaceInit, PaceNext, PTL DEF Spec

-----------------------------------------------------------------------------
(* Step-up evidence.                                                       *)

AutInv ==
    jar # NoSession =>
        /\ mintAut > 0 => jar.aut > 0 /\ jar.aut <= mintAut
        /\ mintAut = 0 => jar.aut <= authAt

LEMMA AutNext == Inv /\ AutInv /\ [Next]_vars => AutInv'
  <1> SUFFICES ASSUME Inv, AutInv, [Next]_vars PROVE AutInv'
    OBVIOUS
  <1> USE ConfigAssumption, LifeAssumption
  <1>a. /\ now \in Nat /\ now > 0 /\ authAt \in Nat /\ mintAut \in Nat
        /\ 0 < authAt /\ authAt <= now
        /\ jar # NoSession => jar.aut \in Nat
    BY DEF Inv, TypeOK, Anchored, Payload
  <1>b. ASSUME UNCHANGED <<authAt, mintAut>>, jar # NoSession,
               \E aut \in Nat : aut <= authAt /\ jar'.aut = MergeRefreshedAuthTime(jar.aut, aut)
        PROVE  AutInv'
    <2>1. PICK aut \in Nat : aut <= authAt /\ jar'.aut = MergeRefreshedAuthTime(jar.aut, aut)
      BY <1>b
    <2>2. /\ jar'.aut \in Nat
          /\ jar.aut > 0 => jar'.aut > 0 /\ jar'.aut <= jar.aut
          /\ jar.aut = 0 => jar'.aut = aut
      BY <2>1, <1>a, <1>b DEF MergeRefreshedAuthTime
    <2>3. QED
      BY <1>a, <1>b, <2>1, <2>2 DEF AutInv
  <1>c. ASSUME UNCHANGED <<authAt, mintAut>>, jar # NoSession, jar' = jar \/ jar'.aut = jar.aut
        PROVE  AutInv'
    BY <1>c DEF AutInv
  <1>1. CASE Tick \/ AuthenticateElsewhere \/ UNCHANGED vars
    BY <1>1, <1>a DEF Tick, AuthenticateElsewhere, vars, AutInv
  <1>2. CASE HandleLoginCallback \/ IssueSession
    <2>1. jar'.aut = mintAut' /\ mintAut' \in {0, authAt'} /\ authAt' \in {authAt, now}
      BY <1>2, MintStep
    <2>2. QED
      BY <2>1, <1>a DEF AutInv
  <1>3. CASE GrantFailed
    BY <1>3, <1>c, GrantFailedStep
  <1>4. CASE GrantApplied
    BY <1>4, <1>b, <1>c, GrantAppliedStep
  <1>5. CASE GrantSoft
    BY <1>5, <1>b, <1>c, GrantSoftStep
  <1>6. CASE RetryAnswered
    BY <1>6, <1>c, RetryAnsweredStep
  <1>7. CASE RetryErred
    BY <1>7, <1>c, RetryErredStep
  <1>8. CASE SyncUnchanged
    BY <1>8, <1>c, SyncStep
  <1>9. CASE AccessToken
    BY <1>9, <1>c, AccessTokenStep
  <1>10. CASE Clears
    BY <1>10, ClearStep DEF AutInv
  <1>11. QED
    BY <1>1, <1>2, <1>3, <1>4, <1>5, <1>6, <1>7, <1>8, <1>9, <1>10
    DEF Next, Revalidate, Clears

(* AuthTimeEvidenced: no refresh makes the person look freshly             *)
(* authenticated.                                                          *)
THEOREM AuthTimeAlwaysEvidenced == Spec => []AuthTimeEvidenced
  <1>1. Init => AutInv
    BY ConfigAssumption, LifeAssumption DEF Init, AutInv, LegacyPayload
  <1>2. Inv /\ AutInv => AuthTimeEvidenced
    BY DEF Inv, TypeOK, AutInv, AuthTimeEvidenced
  <1>3. QED
    BY <1>1, <1>2, InvInit, InvNext, AutNext, PTL DEF Spec

-----------------------------------------------------------------------------
(* The life of resolved fields.                                            *)

LEMMA ResolvedNext ==
    Inv /\ ResolvedLifeBound /\ [Next]_vars => ResolvedLifeBound'
  <1> SUFFICES ASSUME Inv, ResolvedLifeBound, [Next]_vars
               PROVE  ResolvedLifeBound'
    OBVIOUS
  <1> USE ConfigAssumption, LifeAssumption
  <1>a. /\ now \in Nat /\ resolvedAt \in Int /\ resolvedAt <= now
        /\ jar # NoSession => /\ jar.exp \in Nat /\ jar.lv \in Nat
                              /\ jar.lv <= now /\ jar.exp <= now + SessionTTL
    BY DEF Inv, TypeOK, Anchored, Payload
  <1>1. CASE Tick \/ AuthenticateElsewhere \/ UNCHANGED vars
    BY <1>1 DEF Tick, AuthenticateElsewhere, vars, ResolvedLifeBound
  <1>2. CASE HandleLoginCallback \/ IssueSession
    <2>1. jar'.exp = now + SessionTTL /\ resolvedAt' = now
      BY <1>2, MintStep
    <2>2. QED
      BY <2>1, <1>a DEF ResolvedLifeBound
  <1>3. CASE GrantFailed
    BY <1>3, <1>a, GrantFailedStep DEF ResolvedLifeBound
  <1>4. CASE GrantApplied
    BY <1>4, <1>a, GrantAppliedStep DEF ResolvedLifeBound
  <1>5. CASE GrantSoft
    BY <1>5, <1>a, GrantSoftStep DEF ResolvedLifeBound
  <1>6. CASE RetryAnswered
    BY <1>6, <1>a, RetryAnsweredStep DEF ResolvedLifeBound
  <1>7. CASE RetryErred
    BY <1>7, <1>a, RetryErredStep DEF ResolvedLifeBound
  <1>8. CASE SyncUnchanged
    BY <1>8, <1>a, SyncStep DEF ResolvedLifeBound
  <1>9. CASE AccessToken
    BY <1>9, <1>a, AccessTokenStep DEF ResolvedLifeBound
  <1>10. CASE Clears
    BY <1>10, ClearStep DEF ResolvedLifeBound
  <1>11. QED
    BY <1>1, <1>2, <1>3, <1>4, <1>5, <1>6, <1>7, <1>8, <1>9, <1>10
    DEF Next, Revalidate, Clears

(* ResolvedLifeBound: but for a session sync, a session never gains life   *)
(* while its resolved fields cannot be re-derived.                         *)
THEOREM ResolvedLifeBounded == Spec => []ResolvedLifeBound
  <1>1. Init => ResolvedLifeBound
    BY ConfigAssumption, LifeAssumption DEF Init, ResolvedLifeBound, LegacyPayload
  <1>2. Inv /\ ResolvedLifeBound /\ [Next]_vars => ResolvedLifeBound'
    BY ResolvedNext
  <1>3. QED
    BY <1>1, <1>2, InvInit, InvNext, PTL DEF Spec
=============================================================================
