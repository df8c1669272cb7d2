--------------------------- MODULE FlightsProofs ---------------------------
(***************************************************************************)
(* Proofs that do keeps its promises for every number of callers, keys and *)
(* answers, every retention and every bound on the shared work.            *)
(*                                                                         *)
(* The promises relate callers that need not be in the map any more, so    *)
(* the inductive invariant says what the map stands for: every call that   *)
(* was led is either still in it or over (Registered), and a waiter was    *)
(* let in on a call that was running or still retained (Waiters).          *)
(***************************************************************************)
EXTENDS Flights, TLAPS

\* Where a caller is in do, and what its own call looks like then.
Leaders ==
    \A c \in Callers :
        /\ entered[c] <= now
        /\ pc[c] = "idle" => joined[c] = c /\ ~done[c] /\ c \notin calls
        /\ pc[c] \in Running => joined[c] = c /\ ~done[c]
        /\ pc[c] = "answered" => res[c] \in Answers
        /\ pc[c] = "unwound" => joined[c] = c
        /\ pc[c] \in {"returned", "unwound"} /\ joined[c] = c => done[c]
        /\ pc[c] = "returned" /\ joined[c] = c => ret[c] = res[c] /\ res[c] \in Answers
        /\ done[c] => /\ joined[c] = c /\ pc[c] \in {"returned", "unwound"}
                      /\ entered[c] <= finished[c] /\ finished[c] <= now
                      /\ res[c] \in Answers \cup {Abandoned}

\* The map holds the calls whose answer is awaited or retained: one that was
\* led and is not in it panicked, or its retention is over.
Registered ==
    \A l \in Callers :
        /\ l \in calls => Led(l) /\ (done[l] => res[l] \in Answers)
        /\ Led(l) /\ l \notin calls =>
              /\ done[l]
              /\ res[l] = Abandoned \/ now >= finished[l] + RevalidateFlightRetention

\* A waiter waits on somebody else's call for its own key, which it found
\* running or retained.
Waiters ==
    \A c \in Callers :
        LET l == joined[c] IN
        /\ pc[c] = "waiting" => l # c
        /\ l # c => /\ pc[c] \in {"waiting", "returned"}
                    /\ Led(l) /\ key[l] = key[c]
                    /\ done[l] => entered[c] < finished[l] + RevalidateFlightRetention
        /\ (l # c /\ pc[c] = "returned" /\ ret[c] # Abandoned) => done[l] /\ ret[c] = res[l]

Inv == TypeOK /\ Leaders /\ Registered /\ Waiters /\ AskedOnce
-----------------------------------------------------------------------------
(* One lemma per action.                                                   *)

(* do's first critical section.  Pruning only drops calls that are over, and *)
(* a caller leads only if no call of its key is left, so whoever led that key *)
(* before panicked or ended a retention ago.                               *)
LEMMA EnterStep ==
    ASSUME Inv, NEW c \in Callers, Enter(c, key[c])
    PROVE  Inv'
  <1>1. TypeOK'
    BY FlightsAssumption DEF Inv, TypeOK, Leaders, Enter, Prune, Running
  <1>2. Leaders'
    BY <1>1, FlightsAssumption
    DEF Inv, TypeOK, Leaders, Waiters, Led, Registered, Enter, Prune, Running
  <1>3. Registered'
    BY <1>1, FlightsAssumption DEF Inv, TypeOK, Leaders, Registered, Led, Enter, Prune, Running
  <1>4. Waiters'
    BY <1>1, FlightsAssumption
    DEF Inv, TypeOK, Leaders, Registered, Waiters, Led, Enter, Prune, Running
  <1>5. AskedOnce'
    BY <1>1, FlightsAssumption
    DEF Inv, TypeOK, Leaders, Registered, AskedOnce, Led, After, Ended, Enter, Prune, Running
  <1>6. QED
    BY <1>1, <1>2, <1>3, <1>4, <1>5 DEF Inv

(* fn returns to its leader: nobody can see the answer yet.                *)
LEMMA AnswerStep ==
    ASSUME Inv, NEW c \in Callers, NEW r \in Answers, Answer(c, r)
    PROVE  Inv'
  <1>1. TypeOK'
    BY FlightsAssumption DEF Inv, TypeOK, Leaders, Answer, Running
  <1>2. Leaders'
    BY <1>1, FlightsAssumption
    DEF Inv, TypeOK, Leaders, Waiters, Led, Registered, Answer, Running
  <1>3. Registered'
    BY <1>1, FlightsAssumption DEF Inv, TypeOK, Leaders, Registered, Led, Answer, Running
  <1>4. Waiters'
    BY <1>1, FlightsAssumption
    DEF Inv, TypeOK, Leaders, Registered, Waiters, Led, Answer, Running
  <1>5. AskedOnce'
    BY <1>1, FlightsAssumption
    DEF Inv, TypeOK, Leaders, Registered, AskedOnce, Led, After, Ended, Answer, Running
  <1>6. QED
    BY <1>1, <1>2, <1>3, <1>4, <1>5 DEF Inv

(* fn panics: nobody can see that yet either.                              *)
LEMMA PanicStep ==
    ASSUME Inv, NEW c \in Callers, Panic(c)
    PROVE  Inv'
  <1>1. TypeOK'
    BY FlightsAssumption DEF Inv, TypeOK, Leaders, Panic, Running
  <1>2. Leaders'
    BY <1>1, FlightsAssumption
    DEF Inv, TypeOK, Leaders, Waiters, Led, Registered, Panic, Running
  <1>3. Registered'
    BY <1>1, FlightsAssumption DEF Inv, TypeOK, Leaders, Registered, Led, Panic, Running
  <1>4. Waiters'
    BY <1>1, FlightsAssumption
    DEF Inv, TypeOK, Leaders, Registered, Waiters, Led, Panic, Running
  <1>5. AskedOnce'
    BY <1>1, FlightsAssumption
    DEF Inv, TypeOK, Leaders, Registered, AskedOnce, Led, After, Ended, Panic, Running
  <1>6. QED
    BY <1>1, <1>2, <1>3, <1>4, <1>5 DEF Inv

(* The deferred critical section: the call's end is stamped with the clock, so *)
(* everybody who was let in while it ran came within its retention.        *)
LEMMA PublishStep ==
    ASSUME Inv, NEW c \in Callers, Publish(c)
    PROVE  Inv'
  <1>1. TypeOK'
    BY FlightsAssumption DEF Inv, TypeOK, Leaders, Publish, Unretain, Close, Running
  <1>2. Leaders'
    BY <1>1, FlightsAssumption
    DEF Inv, TypeOK, Leaders, Waiters, Led, Registered, Publish, Unretain, Close, Running
  <1>3. Registered'
    BY <1>1, FlightsAssumption DEF Inv, TypeOK, Leaders, Registered, Led, Publish, Unretain, Close, Running
  <1>4. Waiters'
    BY <1>1, FlightsAssumption
    DEF Inv, TypeOK, Leaders, Registered, Waiters, Led, Publish, Unretain, Close, Running
  <1>5. AskedOnce'
    BY <1>1, FlightsAssumption
    DEF Inv, TypeOK, Leaders, Registered, AskedOnce, Led, After, Ended, Publish, Unretain, Close, Running
  <1>6. QED
    BY <1>1, <1>2, <1>3, <1>4, <1>5 DEF Inv

(* A waiter wakes to the result of a call that is over, in the map or not. *)
LEMMA ReceiveStep ==
    ASSUME Inv, NEW c \in Callers, Receive(c)
    PROVE  Inv'
  <1>1. TypeOK'
    BY FlightsAssumption DEF Inv, TypeOK, Leaders, Receive, Running
  <1>2. Leaders'
    BY <1>1, FlightsAssumption
    DEF Inv, TypeOK, Leaders, Waiters, Led, Registered, Receive, Running
  <1>3. Registered'
    BY <1>1, FlightsAssumption DEF Inv, TypeOK, Leaders, Registered, Led, Receive, Running
  <1>4. Waiters'
    BY <1>1, FlightsAssumption
    DEF Inv, TypeOK, Leaders, Registered, Waiters, Led, Receive, Running
  <1>5. AskedOnce'
    BY <1>1, FlightsAssumption
    DEF Inv, TypeOK, Leaders, Registered, AskedOnce, Led, After, Ended, Receive, Running
  <1>6. QED
    BY <1>1, <1>2, <1>3, <1>4, <1>5 DEF Inv

(* A waiter leaves with the error that is nobody's answer.                 *)
LEMMA CancelStep ==
    ASSUME Inv, NEW c \in Callers, Cancel(c)
    PROVE  Inv'
  <1>1. TypeOK'
    BY FlightsAssumption DEF Inv, TypeOK, Leaders, Cancel, Running
  <1>2. Leaders'
    BY <1>1, FlightsAssumption
    DEF Inv, TypeOK, Leaders, Waiters, Led, Registered, Cancel, Running
  <1>3. Registered'
    BY <1>1, FlightsAssumption DEF Inv, TypeOK, Leaders, Registered, Led, Cancel, Running
  <1>4. Waiters'
    BY <1>1, FlightsAssumption
    DEF Inv, TypeOK, Leaders, Registered, Waiters, Led, Cancel, Running
  <1>5. AskedOnce'
    BY <1>1, FlightsAssumption
    DEF Inv, TypeOK, Leaders, Registered, AskedOnce, Led, After, Ended, Cancel, Running
  <1>6. QED
    BY <1>1, <1>2, <1>3, <1>4, <1>5 DEF Inv
(* Time passes: what is over stays over.                                   *)
LEMMA TickStep ==
    ASSUME Inv, Tick
    PROVE  Inv'
  <1>1. now' \in Nat /\ now' > now
    BY DEF Inv, TypeOK, Tick
  <1>2. TypeOK' /\ Leaders' /\ Registered'
    BY <1>1, FlightsAssumption DEF Inv, TypeOK, Leaders, Registered, Led, Tick
  <1>3. Waiters' /\ AskedOnce'
    BY DEF Inv, Waiters, AskedOnce, Led, After, Ended, Tick
  <1>4. QED
    BY <1>2, <1>3 DEF Inv

-----------------------------------------------------------------------------
(***************************************************************************)
(* The invariant of the flight map holds for any number of concurrent      *)
(* calls of do, over any keys, with panics and cancellations anywhere.     *)
(***************************************************************************)
THEOREM InvHolds == Spec => []Inv
  <1>1. Init => Inv
    BY FlightsAssumption
    DEF Init, Inv, TypeOK, Leaders, Registered, Waiters, AskedOnce, Led, Running
  <1>2. Inv /\ [Next]_vars => Inv'
    <2> SUFFICES ASSUME Inv, [Next]_vars
                 PROVE  Inv'
      OBVIOUS
    <2>1. CASE UNCHANGED vars
      BY <2>1 DEF vars, Inv, TypeOK, Leaders, Registered, Waiters, AskedOnce, Led, After, Ended
    <2>2. ASSUME NEW c \in Callers, Step(c) \/ Cancel(c) \/ Enter(c, key[c])
          PROVE  Inv'
      BY <2>2, EnterStep, AnswerStep, PanicStep, PublishStep, ReceiveStep, CancelStep
      DEF Step
    <2>3. QED
      BY <2>1, <2>2, TickStep DEF Next
  <1>3. QED
    BY <1>1, <1>2, PTL DEF Spec

(***************************************************************************)
(* do never hands out the zero revalShared, whoever led, panicked or was   *)
(* cancelled.                                                              *)
(***************************************************************************)
THEOREM FlightsTypeCorrect == Spec => []TypeOK
  <1>1. Inv => TypeOK
    BY DEF Inv
  <1>2. QED
    BY <1>1, InvHolds, PTL

(***************************************************************************)
(* The same question is never put to the IdP twice within the retention of *)
(* its answer, for any number of concurrent requests and sessions.         *)
(***************************************************************************)
THEOREM QuestionAskedOnce == Spec => []AskedOnce
  <1>1. Inv => AskedOnce
    BY DEF Inv
  <1>2. QED
    BY <1>1, InvHolds, PTL

(***************************************************************************)
(* Every answer do returns is the one fn gave to this caller's own         *)
(* question, in a call that was running or retained when the caller came.  *)
(***************************************************************************)
THEOREM AnswersShared == Spec => []AnswerShared
  <1>1. Inv => AnswerShared
    <2> SUFFICES ASSUME Inv, NEW c \in Callers, pc[c] = "returned", ret[c] # Abandoned
                 PROVE  LET l == joined[c] IN
                        /\ done[l] /\ key[l] = key[c] /\ ret[c] = res[l] /\ ret[c] \in Answers
                        /\ entered[c] < finished[l] + RevalidateFlightRetention
      BY DEF AnswerShared
    <2>1. CASE joined[c] = c
      BY <2>1, FlightsAssumption DEF Inv, TypeOK, Leaders
    <2>2. CASE joined[c] # c
      BY <2>2, FlightsAssumption DEF Inv, TypeOK, Leaders, Waiters
    <2>3. QED
      BY <2>1, <2>2
  <1>2. QED
    BY <1>1, InvHolds, PTL

-----------------------------------------------------------------------------
(***************************************************************************)
(* What a caller may read without the lock: close(c.done) publishes the    *)
(* result for good.  Once the channel is closed no step opens it again or  *)
(* writes c.res or c.finished, so a waiter that wakes late and one that    *)
(* joins within the retention read the same answer.                        *)
(***************************************************************************)
PublishedForGood ==
    \A l \in Callers :
        done[l] => done'[l] /\ res'[l] = res[l] /\ finished'[l] = finished[l]

(***************************************************************************)
(* PublishedForGood of every step, because a caller whose channel is       *)
(* closed has left do and the writers of the call are inside it.           *)
(***************************************************************************)
THEOREM ResultsPublishedForGood == Spec => [][PublishedForGood]_vars
  <1>1. Inv /\ [Next]_vars => [PublishedForGood]_vars
    <2> SUFFICES ASSUME Inv, Next, NEW l \in Callers, done[l]
                 PROVE  done'[l] /\ res'[l] = res[l] /\ finished'[l] = finished[l]
      BY DEF PublishedForGood
    <2>1. pc[l] \in {"returned", "unwound"}
      BY DEF Inv, Leaders
    <2>2. /\ done \in [Callers -> BOOLEAN] /\ finished \in [Callers -> Nat]
          /\ res \in [Callers -> Answers \cup {Abandoned, NoAnswer}]
      BY DEF Inv, TypeOK
    <2>3. ASSUME UNCHANGED <<done, res, finished>>
          PROVE  done'[l] /\ res'[l] = res[l] /\ finished'[l] = finished[l]
      BY <2>3
    <2>4. ASSUME NEW c \in Callers, NEW r \in Answers, Answer(c, r)
          PROVE  done'[l] /\ res'[l] = res[l] /\ finished'[l] = finished[l]
      BY <2>1, <2>2, <2>4 DEF Answer
    <2>5. ASSUME NEW c \in Callers, Publish(c)
          PROVE  done'[l] /\ res'[l] = res[l] /\ finished'[l] = finished[l]
      BY <2>1, <2>2, <2>5 DEF Publish, Close
    <2>6. ASSUME NEW c \in Callers,
                 Enter(c, key[c]) \/ Panic(c) \/ Receive(c) \/ Cancel(c)
          PROVE  UNCHANGED <<done, res, finished>>
      BY <2>6 DEF Enter, Panic, Receive, Cancel
    <2>7. Tick => UNCHANGED <<done, res, finished>>
      BY DEF Tick
    <2>8. QED
      BY <2>3, <2>4, <2>5, <2>6, <2>7 DEF Next, Step
  <1>2. QED
    BY <1>1, InvHolds, PTL DEF Spec

(***************************************************************************)
(* Nobody waits on everybody: a caller blocked in do's select has a leader *)
(* that is no waiter itself, and is either running fn or publishing (a     *)
(* panic included) or has closed the channel.  No chain of waiters, no     *)
(* cycle and no call that nobody will finish.                              *)
(***************************************************************************)
NobodyWaitsInVain ==
    \A c \in Callers :
        pc[c] = "waiting" => /\ joined[c] # c /\ joined[joined[c]] = joined[c]
                             /\ pc[joined[c]] \in Running \/ done[joined[c]]

(***************************************************************************)
(* NobodyWaitsInVain in every state: the part of EveryoneReturns that      *)
(* needs no fairness.                                                      *)
(***************************************************************************)
THEOREM WaitersHaveLeaders == Spec => []NobodyWaitsInVain
  <1>1. Inv => NobodyWaitsInVain
    BY DEF Inv, TypeOK, NobodyWaitsInVain, Leaders, Waiters, Led, Running
  <1>2. QED
    BY <1>1, InvHolds, PTL

-----------------------------------------------------------------------------
(* The memo.                                                               *)

(* What a caller sees of its call before it is over, and after.            *)
State == [c \in Callers |-> IF pc[c] \in Running THEN "asking" ELSE pc[c]]

Verdict == [c \in Callers |-> IF done[c] THEN res[c] ELSE NoAnswer]

(* The calls a caller finds in the map after pruneLocked are exactly those *)
(* that are live: pruning late is not seen, and neither is a call that     *)
(* panicked.                                                               *)
LEMMA MapIsMemo ==
    ASSUME Inv, NEW l \in Callers
    PROVE  l \in Prune(calls, now) <=> Promise!Live(l)
  <1>1. /\ now \in Nat /\ finished[l] \in Nat /\ done[l] \in BOOLEAN
        /\ pc[l] \in Running \cup {"idle", "waiting", "returned", "unwound"}
    BY DEF Inv, TypeOK
  <1>2. now - finished[l] >= RevalidateFlightRetention
          <=> ~(now < finished[l] + RevalidateFlightRetention)
    BY <1>1, FlightsAssumption
  <1>3. /\ l \in calls => Led(l) /\ (done[l] => res[l] \in Answers)
        /\ (Led(l) /\ l \notin calls) =>
              /\ done[l]
              /\ \/ res[l] = Abandoned
                 \/ now >= finished[l] + RevalidateFlightRetention
        /\ done[l] => res[l] \in Answers \cup {Abandoned}
    BY DEF Inv, Registered, Leaders
  <1>4. State[l] # "idle" <=> pc[l] # "idle"
    BY DEF State, Running
  <1>5. Verdict[l] = IF done[l] THEN res[l] ELSE NoAnswer
    BY DEF Verdict
  <1>6. Promise!Live(l) <=>
           /\ Led(l)
           /\ done[l] => res[l] # Abandoned /\ now < finished[l] + RevalidateFlightRetention
    <2>1. Promise!Live(l) <=>
             /\ State[l] # "idle" /\ joined[l] = l
             /\ Verdict[l] # NoAnswer =>
                   Verdict[l] # Abandoned /\ now < finished[l] + RevalidateFlightRetention
      BY DEF Promise!Live, State, Verdict
    <2>2. Verdict[l] # NoAnswer <=> done[l]
      BY <1>3, <1>5, FlightsAssumption
    <2>3. QED
      BY <1>4, <1>5, <2>1, <2>2 DEF Led
  <1>7. now >= finished[l] + RevalidateFlightRetention
          => ~(now < finished[l] + RevalidateFlightRetention)
    BY <1>1, FlightsAssumption
  <1>8. l \in Prune(calls, now) <=>
           l \in calls /\ ~(done[l] /\ now - finished[l] >= RevalidateFlightRetention)
    BY DEF Prune, Inv, TypeOK
  <1>9. QED
    BY <1>2, <1>3, <1>6, <1>7, <1>8, FlightsAssumption

(* Entering do is coming to the memo.                                      *)
LEMMA EnterComes ==
    ASSUME Inv, NEW c \in Callers, Enter(c, key[c])
    PROVE  Promise!Come(c)
  <1> DEFINE same == {l \in Prune(calls, now) : key[l] = key[c]}
             live == {l \in Callers : Promise!Live(l) /\ key[l] = key[c]}
  <1>1. same = live
    BY MapIsMemo DEF Prune, Inv, TypeOK
  <1>2. /\ pc[c] = "idle" /\ key' = key /\ joined[c] = c
        /\ UNCHANGED <<now, done, res, finished, ret>>
        /\ \/ \E l \in same : /\ joined' = [joined EXCEPT ![c] = l]
                              /\ pc' = [pc EXCEPT ![c] = "waiting"]
           \/ /\ same = {} /\ joined' = [joined EXCEPT ![c] = c]
              /\ pc' = [pc EXCEPT ![c] = "leading"]
    BY DEF Enter, Inv, TypeOK, Leaders
  <1>3. pc \in [Callers -> Running \cup {"idle", "waiting", "returned", "unwound"}]
        /\ joined \in [Callers -> Callers]
    BY DEF Inv, TypeOK
  <1>4. State[c] = "idle" /\ Verdict' = Verdict
    BY <1>2 DEF State, Verdict, Running
  <1>5. \/ \E l \in live : /\ joined' = [joined EXCEPT ![c] = l]
                           /\ State' = [State EXCEPT ![c] = "waiting"]
        \/ /\ live = {} /\ joined' = joined
           /\ State' = [State EXCEPT ![c] = "asking"]
    <2> HIDE DEF same, live
    <2>1. ASSUME NEW l \in same, joined' = [joined EXCEPT ![c] = l],
                 pc' = [pc EXCEPT ![c] = "waiting"]
          PROVE  State' = [State EXCEPT ![c] = "waiting"]
      BY <1>3, <2>1 DEF State, Running
    <2>2. ASSUME joined' = [joined EXCEPT ![c] = c], pc' = [pc EXCEPT ![c] = "leading"]
          PROVE  joined' = joined /\ State' = [State EXCEPT ![c] = "asking"]
      BY <1>2, <1>3, <2>2 DEF State, Running
    <2>3. QED
      BY <1>1, <1>2, <2>1, <2>2
  <1>6. QED
    BY <1>2, <1>4, <1>5 DEF Promise!Come, State, Verdict

(* Closing the channel decides the call; that fn has returned or panicked  *)
(* is seen only then.                                                      *)
LEMMA PublishDecides ==
    ASSUME Inv, NEW c \in Callers, Publish(c)
    PROVE  Promise!Settle(c) \/ Promise!Fail(c)
  <1>1. /\ pc \in [Callers -> Running \cup {"idle", "waiting", "returned", "unwound"}]
        /\ done \in [Callers -> BOOLEAN]
        /\ res \in [Callers -> Answers \cup {Abandoned, NoAnswer}]
    BY DEF Inv, TypeOK
  <1>2. /\ done' = [done EXCEPT ![c] = TRUE] /\ finished' = [finished EXCEPT ![c] = now]
        /\ UNCHANGED <<now, key, joined>> /\ pc[c] \in {"answered", "panicked"}
    BY DEF Publish, Close
  <1>3. State[c] = "asking"
    BY <1>2 DEF State, Running
  <1>4. CASE pc[c] = "answered"
    <2>1. /\ res' = res /\ ret' = [ret EXCEPT ![c] = res[c]]
          /\ pc' = [pc EXCEPT ![c] = "returned"] /\ res[c] \in Answers
      BY <1>1, <1>4 DEF Publish, Inv, Leaders
    <2>2. State' = [State EXCEPT ![c] = "returned"]
      BY <1>1, <2>1 DEF State, Running
    <2>3. Verdict' = [Verdict EXCEPT ![c] = res[c]]
      BY <1>1, <1>2, <2>1 DEF Verdict
    <2>4. QED
      BY <1>2, <1>3, <2>1, <2>2, <2>3 DEF Promise!Settle, State, Verdict
  <1>5. CASE pc[c] = "panicked"
    <2>1. /\ res' = [res EXCEPT ![c] = Abandoned] /\ ret' = ret
          /\ pc' = [pc EXCEPT ![c] = "unwound"]
      BY <1>5 DEF Publish, Inv, TypeOK
    <2>2. State' = [State EXCEPT ![c] = "unwound"]
      BY <1>1, <2>1 DEF State, Running
    <2>3. Verdict' = [Verdict EXCEPT ![c] = Abandoned]
      BY <1>1, <1>2, <2>1 DEF Verdict
    <2>4. QED
      BY <1>2, <1>3, <2>1, <2>2, <2>3 DEF Promise!Fail, State, Verdict
  <1>6. QED
    BY <1>2, <1>4, <1>5

(* A waiter's select, whichever channel it reads.                          *)
LEMMA SelectReturns ==
    ASSUME Inv, NEW c \in Callers, Receive(c) \/ Cancel(c)
    PROVE  Promise!Return(c)
  <1>1. /\ pc[c] = "waiting" /\ pc' = [pc EXCEPT ![c] = "returned"]
        /\ UNCHANGED <<now, done, res, finished, key, joined>>
    BY DEF Receive, Cancel
  <1>2. State[c] = "waiting" /\ State' = [State EXCEPT ![c] = "returned"] /\ Verdict' = Verdict
    BY <1>1 DEF State, Verdict, Running, Inv, TypeOK
  <1>3. joined[c] \in Callers
    BY DEF Inv, TypeOK
  <1>4. \E r \in {Verdict[joined[c]], Abandoned} \ {NoAnswer} : ret' = [ret EXCEPT ![c] = r]
    <2>1. CASE Receive(c)
      <3>1. done[joined[c]] /\ ret' = [ret EXCEPT ![c] = res[joined[c]]]
        BY <2>1 DEF Receive
      <3>2. Verdict[joined[c]] = res[joined[c]] /\ res[joined[c]] # NoAnswer
        BY <1>3, <3>1, FlightsAssumption DEF Verdict, Inv, Leaders
      <3>3. QED
        BY <3>1, <3>2
    <2>2. CASE Cancel(c)
      BY <2>2, FlightsAssumption DEF Cancel
    <2>3. QED
      BY <2>1, <2>2
  <1>5. QED
    BY <1>1, <1>2, <1>4 DEF Promise!Return, State, Verdict

(***************************************************************************)
(* The map with its lazy pruning, its channel and its deferred release     *)
(* implements the memo, for any number of callers and keys and every       *)
(* retention: the doc comment of do, in full.                              *)
(***************************************************************************)
THEOREM DoKeepsItsPromise == Spec => DoIsMemo
  <1>1. Init => Promise!Init
    BY DEF Init, Promise!Init, Running
  <1>2. Inv /\ [Next]_vars => [Promise!Next]_(Promise!vars)
    <2> SUFFICES ASSUME Inv, [Next]_vars
                 PROVE  [Promise!Next]_(Promise!vars)
      OBVIOUS
    <2>1. ASSUME NEW c \in Callers, NEW r \in Answers, Answer(c, r)
          PROVE  UNCHANGED Promise!vars
      <3>1. /\ pc[c] = "leading" /\ pc' = [pc EXCEPT ![c] = "answered"]
            /\ ~done[c] /\ res' = [res EXCEPT ![c] = r]
            /\ UNCHANGED <<now, done, finished, key, joined, ret>>
        BY <2>1 DEF Answer, Inv, Leaders, Running
      <3>2. State' = State /\ Verdict' = Verdict
        BY <3>1 DEF State, Verdict, Running, Inv, TypeOK
      <3>3. QED
        BY <3>1, <3>2 DEF Promise!vars, State, Verdict
    <2>2. ASSUME NEW c \in Callers, Panic(c)
          PROVE  UNCHANGED Promise!vars
      <3>1. /\ pc[c] = "leading" /\ pc' = [pc EXCEPT ![c] = "panicked"]
            /\ UNCHANGED <<now, done, res, finished, key, joined, ret>>
        BY <2>2 DEF Panic
      <3>2. State' = State /\ Verdict' = Verdict
        BY <3>1 DEF State, Verdict, Running, Inv, TypeOK
      <3>3. QED
        BY <3>1, <3>2 DEF Promise!vars, State, Verdict
    <2>3. Tick => Promise!Tick
      BY DEF Tick, Promise!Tick
    <2>4. UNCHANGED vars => UNCHANGED Promise!vars
      BY DEF vars, Promise!vars
    <2>5. QED
      BY <2>1, <2>2, <2>3, <2>4, EnterComes, PublishDecides, SelectReturns
      DEF Next, Step, Promise!Next
  <1>3. QED
    BY <1>1, <1>2, InvHolds, PTL DEF Spec, DoIsMemo, Promise!Spec
=============================================================================
