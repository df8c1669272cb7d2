------------------------- MODULE RevalidationProofs -------------------------
(***************************************************************************)
(* Proofs about concurrent revalidation, for any number of requests and    *)
(* replicas, any floor, retention, timeout and travel time, with and       *)
(* without rotation, and for any choice of the faults unless a theorem     *)
(* names the ones it excludes.                                             *)
(*                                                                         *)
(* The invariant has three layers.  Flights: what the flight group         *)
(* promises, except to the flights a restart forgot.  Journeys: what each  *)
(* request carries, which never changes between its question and the       *)
(* answer.  Evidence: how old the answer behind a stamp may be, who spent  *)
(* which token, and why a refusal happened.                                *)
(*                                                                         *)
(* A second invariant, PromptInv, holds where every request settles before *)
(* the next revalidation is due (Prompt): then one revalidation follows    *)
(* the other and nobody is refused.                                        *)
(*                                                                         *)
(* A third, MortalInv, bounds what a sign-out leaves behind when nothing   *)
(* can be said of the IdP, the network and the replicas.                   *)
(***************************************************************************)
EXTENDS Revalidation, TLAPS

Running == {"leading", "answered", "panicked"}

Led(c) == pc[c] # "idle" /\ joined[c] = c

Results == Answer \cup {Abandoned, NoAnswer}

-----------------------------------------------------------------------------
(* Flights.                                                                *)

FlightsTyped ==
    /\ now \in Nat /\ now >= Start
    /\ calls \subseteq Requests /\ forgotten \subseteq Requests
    /\ done \in [Requests -> BOOLEAN]
    /\ res \in [Requests -> Results] /\ ret \in [Requests -> Results]
    /\ finished \in [Requests -> Nat] /\ entered \in [Requests -> Nat]
    /\ pc \in [Requests -> Running \cup {"idle", "waiting", "returned", "unwound"}]
    /\ key = [c \in Requests |-> key[c]]
    /\ joined \in [Requests -> Requests]

\* Whoever runs fn is registered and works within its timeout; whoever led and
\* runs no more has published, unless a restart forgot it.
Leading(c) ==
    /\ entered[c] <= now
    /\ pc[c] \in Running =>
          /\ joined[c] = c /\ ~done[c] /\ c \in calls
          /\ now <= entered[c] + RevalidateSharedTimeout
    /\ pc[c] \in {"idle", "waiting"} => ~done[c] /\ c \notin calls \cup forgotten
    /\ pc[c] = "waiting" => joined[c] # c
    /\ (c \in calls \/ c \in forgotten) => Led(c)
    /\ c \in forgotten => c \notin calls
    /\ (Led(c) /\ c \notin forgotten) => pc[c] \in Running \/ done[c]
    /\ done[c] => /\ Led(c) /\ pc[c] \notin Running
                  /\ entered[c] <= finished[c] /\ finished[c] <= now
                  /\ finished[c] <= entered[c] + RevalidateSharedTimeout

Leaders == \A c \in Requests : Leading(c)

\* Answers belong to leaders and are dated within their run.
Answering(c) ==
    /\ pc[c] = "answered" => res[c] \in Answer
    /\ res[c] \in Answer => /\ Led(c) /\ pc[c] \notin {"leading", "panicked"}
                            /\ entered[c] <= res[c].at /\ res[c].at <= now
    /\ res[c] = Abandoned => pc[c] = "unwound"
    /\ done[c] => res[c] # NoAnswer
    /\ ret[c] # NoAnswer => pc[c] = "returned"

Given == \A c \in Requests : Answering(c)

\* A completed call that was not forgotten answers until its retention is over.
Registered ==
    \A c \in Requests :
        (done[c] /\ res[c] # Abandoned /\ c \notin forgotten) =>
            c \in calls \/ now >= finished[c] + RevalidateFlightRetention

\* A waiter asked its leader's question and came within its retention.
Waiters ==
    \A c \in Requests :
        pc[c] = "waiting" =>
            /\ Led(joined[c]) /\ key[joined[c]] = key[c]
            /\ done[joined[c]] =>
                  entered[c] < finished[joined[c]] + RevalidateFlightRetention

\* m took the lock when l's call no longer answered for its key.
Followed(l, m) ==
    /\ done[l]
    /\ entered[m] >= finished[l]
                     + (IF res[l] = Abandoned THEN 0 ELSE RevalidateFlightRetention)

\* AskedOnce of Flights, but for the flights a restart forgot.
Asked ==
    \A l, m \in Requests :
        (/\ l # m /\ Led(l) /\ Led(m) /\ key[l] = key[m]
         /\ l \notin forgotten /\ m \notin forgotten) => Followed(l, m) \/ Followed(m, l)

FlightInv == FlightsTyped /\ Leaders /\ Given /\ Registered /\ Waiters /\ Asked

-----------------------------------------------------------------------------
(* Journeys.                                                               *)

Steps == {"idle", "sent", "grant", "resolve", "serving", "responded", "delivered"}

Spenders == [by : Requests, via : {"grant", "access"}]

JourneyTyped ==
    /\ jar \in Payload \cup {NoSession}
    /\ step \in [Requests -> Steps]
    /\ clk \in [Requests -> Nat]
    /\ body \in [Requests -> Payload \cup {NoSession}]
    /\ setCookie \in [Requests -> Payload \cup {NoSession, Keep}]
    /\ home \in [Requests -> Replicas]
    /\ got \in [Requests -> Answer \cup {NoAnswer}]
    /\ cur \in Tokens /\ sso \in BOOLEAN /\ ssoEnd \in Nat
    /\ spentBy \in [Tokens -> SUBSET Spenders]
    /\ wronged \subseteq Requests \X Spenders

Place(c) ==
    /\ clk[c] <= now
    /\ step[c] \in {"grant", "resolve"} <=> pc[c] \in Running \cup {"waiting"}
    /\ step[c] \in {"idle", "sent"} => pc[c] = "idle" /\ clk[c] = 0
    /\ step[c] \in {"sent", "grant", "resolve", "serving"} => body[c] \in Payload
    /\ step[c] \in {"grant", "resolve"} =>
          /\ key[c] = FlightKey(home[c], step[c], body[c])
          /\ clk[c] = entered[c] /\ clk[c] >= Start
    /\ step[c] = "grant" => FloorDue(body[c], clk[c])
    /\ step[c] = "resolve" => ReresolveOnRevalidate /\ ~FloorDue(body[c], clk[c])
    /\ got[c] # NoAnswer => /\ pc[c] # "idle" /\ key[c][2] = "grant"
                            /\ got[c].verdict = "ok"
                            /\ entered[c] <= got[c].at /\ got[c].at <= now

Placed == \A c \in Requests : Place(c)

-----------------------------------------------------------------------------
(* Evidence.                                                               *)

\* Nothing keeps the IdP's verdict from a request that asks for it.
IdPAnswers == Faults \cap {"outage", "lost", "panic", "cancel"} = {}

Sound(p) ==
    /\ p.lv > 0 /\ (RevalidateInterval > 0 => p.lv <= now)
    /\ \A l \in p.from : pc[l] # "idle" /\ key[l][2] = "grant"
    /\ RevalidateInterval # 1 => \A l \in p.from : key[l][4] # p.lv
    /\ (IdPAnswers /\ ~sso /\ RevalidateInterval > 0) =>
          p.lv < ssoEnd + RevalidateFlightRetention + RevalidateSharedTimeout

AllSound ==
    /\ jar \in Payload => Sound(jar)
    /\ \A c \in Requests : /\ body[c] \in Payload => Sound(body[c])
                           /\ setCookie[c] \in Payload => Sound(setCookie[c])

\* Where the IdP answers, nobody applies anything but its verdict.
Verdicts ==
    IdPAnswers => \A c \in Requests :
        /\ res[c] # Abandoned /\ pc[c] # "panicked"
        /\ res[c] \in Answer => res[c].verdict # "error"

\* A grant was honoured no later than the SSO session lasted.
Dated ==
    ~sso => /\ ssoEnd <= now
            /\ \A c \in Requests :
                  /\ got[c] # NoAnswer => got[c].at <= ssoEnd
                  /\ (res[c] \in Answer /\ key[c][2] = "grant" /\ res[c].verdict = "ok") =>
                        res[c].at <= ssoEnd

Reached == IdPAnswers => SignOutReaches

\* A token spent in a flight was spent by its leader, who has its answer.
Spent ==
    \A t \in Tokens : \A s \in spentBy[t] : s.via = "grant" =>
        Led(s.by) /\ ~(pc[s.by] = "leading" /\ got[s.by] = NoAnswer)

Excused(c, m) ==
    \/ home[m] # home[c]
    \/ pc[m] \in {"panicked", "unwound"} \/ (res[m] \in Answer /\ res[m].verdict = "error")
    \/ key[m] # key[c] \/ m \in forgotten
    \/ done[m] /\ entered[c] >= finished[m] + RevalidateFlightRetention

Caused ==
    \A w \in wronged : w[2].via = "grant" =>
        pc[w[1]] # "idle" /\ Led(w[2].by) /\ Excused(w[1], w[2].by)

Inv ==
    /\ FlightInv /\ JourneyTyped /\ Placed
    /\ AllSound /\ Verdicts /\ Dated /\ AnswerFresh /\ Reached
    /\ Spent /\ Caused

-----------------------------------------------------------------------------
(* The flight group keeps its promises: one lemma per action of Flights.   *)

(* Enter: the first with a question leads, and only when nobody still      *)
(* answers it; the others wait for that one.                               *)
LEMMA EnterFlight ==
    ASSUME FlightInv, NEW c \in Requests, NEW k, F!Enter(c, k), UNCHANGED forgotten
    PROVE  FlightInv'
  <1> DEFINE kept == F!Prune(calls, now)
             same == {l \in kept : key[l] = k}
  <1>1. /\ pc[c] = "idle"
        /\ key' = [key EXCEPT ![c] = k] /\ entered' = [entered EXCEPT ![c] = now]
        /\ UNCHANGED <<now, done, res, finished, ret>>
        /\ \/ \E l \in same : /\ calls' = kept /\ joined' = [joined EXCEPT ![c] = l]
                              /\ pc' = [pc EXCEPT ![c] = "waiting"]
           \/ /\ same = {} /\ calls' = kept \cup {c}
              /\ joined' = [joined EXCEPT ![c] = c] /\ pc' = [pc EXCEPT ![c] = "leading"]
    BY DEF F!Enter
  <1>2. /\ kept \subseteq calls
        /\ \A l \in calls \ kept : done[l] /\ now >= finished[l] + RevalidateFlightRetention
        /\ \A l \in kept : done[l] => now < finished[l] + RevalidateFlightRetention
    BY RevalidationAssumption DEF F!Prune, FlightInv, FlightsTyped
  <1> HIDE DEF kept
  <1>3. /\ key'[c] = k /\ entered'[c] = now
        /\ \A l \in Requests \ {c} : /\ key'[l] = key[l] /\ entered'[l] = entered[l]
                                     /\ pc'[l] = pc[l] /\ joined'[l] = joined[l]
        /\ key' = [l \in Requests |-> key'[l]]
    BY <1>1 DEF FlightInv, FlightsTyped
  <1>4. /\ pc'[c] \in {"waiting", "leading"} /\ joined'[c] \in Requests
        /\ pc'[c] = "waiting" => /\ joined'[c] \in same /\ joined'[c] # c /\ calls' = kept
        /\ pc'[c] = "leading" => /\ joined'[c] = c /\ same = {} /\ calls' = kept \cup {c}
    <2>1. /\ pc \in [Requests -> Running \cup {"idle", "waiting", "returned", "unwound"}]
          /\ joined \in [Requests -> Requests] /\ calls \subseteq Requests
      BY DEF FlightInv, FlightsTyped
    <2>2. c \notin kept /\ kept \subseteq Requests
      BY <1>1, <1>2, <2>1 DEF FlightInv, Leaders, Leading
    <2>3. ASSUME NEW l \in same, calls' = kept, joined' = [joined EXCEPT ![c] = l],
                 pc' = [pc EXCEPT ![c] = "waiting"]
          PROVE  pc'[c] = "waiting" /\ joined'[c] = l /\ l \in Requests /\ l # c
      BY <2>1, <2>2, <2>3
    <2>4. ASSUME joined' = [joined EXCEPT ![c] = c], pc' = [pc EXCEPT ![c] = "leading"]
          PROVE  pc'[c] = "leading" /\ joined'[c] = c
      BY <2>1, <2>4
    <2>5. QED
      BY <1>1, <2>3, <2>4
  <1>5. /\ c \notin calls \cup forgotten /\ ~done[c] /\ res[c] = NoAnswer /\ ret[c] = NoAnswer
        /\ ~Led(c)
    BY <1>1 DEF FlightInv, FlightsTyped, Leaders, Leading, Given, Answering, Results, Led
  <1>6. \A l \in Requests \ {c} : Led(l)' <=> Led(l)
    BY <1>3 DEF Led
  <1>7. FlightsTyped'
    <2>1. calls' \subseteq Requests
      BY <1>2, <1>4 DEF FlightInv, FlightsTyped
    <2>2. /\ entered' \in [Requests -> Nat] /\ joined' \in [Requests -> Requests]
          /\ pc' \in [Requests -> Running \cup {"idle", "waiting", "returned", "unwound"}]
      BY <1>1, <1>2 DEF FlightInv, FlightsTyped, Running
    <2>3. QED
      BY <1>1, <1>3, <2>1, <2>2 DEF FlightInv, FlightsTyped
  <1>8. Leaders'
    <2>1. ASSUME NEW l \in Requests \ {c}
          PROVE  Leading(l)'
      <3>1. Leading(l) /\ (Led(l)' <=> Led(l))
        BY <1>6 DEF FlightInv, Leaders
      <3>2. l \in calls' => l \in calls
        BY <1>2, <1>4
      <3>3. pc[l] \in Running => l \in calls'
        BY <1>2, <1>4, <3>1 DEF Leading
      <3>4. QED
        BY <1>1, <1>3, <3>1, <3>2, <3>3 DEF Leading
    <2>2. Leading(c)'
      BY <1>1, <1>2, <1>3, <1>4, <1>5, RevalidationAssumption
      DEF Leading, Led, Running, FlightInv, FlightsTyped
    <2>3. QED
      BY <2>1, <2>2 DEF Leaders
  <1>9. Given'
    <2>1. ASSUME NEW l \in Requests \ {c}
          PROVE  Answering(l)'
      BY <1>1, <1>3, <1>6 DEF FlightInv, Given, Answering
    <2>2. Answering(c)'
      BY <1>1, <1>4, <1>5, ValuesAssumption DEF Answering
    <2>3. QED
      BY <2>1, <2>2 DEF Given
  <1>10. Registered'
    BY <1>1, <1>2, <1>4, <1>5 DEF FlightInv, Registered
  <1>11. Waiters'
    <2>1. ASSUME NEW l \in Requests \ {c}, pc'[l] = "waiting"
          PROVE  joined[l] # c /\ joined[l] \in Requests
      BY <1>1, <1>3, <2>1 DEF FlightInv, FlightsTyped, Waiters, Led
    <2>2. ASSUME pc'[c] = "waiting"
          PROVE  /\ joined'[c] \in Requests \ {c} /\ Led(joined'[c]) /\ key[joined'[c]] = k
                 /\ done[joined'[c]] => now < finished[joined'[c]] + RevalidateFlightRetention
      BY <1>2, <1>4, <2>2 DEF FlightInv, FlightsTyped, Leaders, Leading
    <2>3. QED
      BY <1>1, <1>3, <1>6, <2>1, <2>2 DEF FlightInv, Waiters, Led
  <1>12. Asked'
    <2>1. ASSUME NEW l \in Requests \ {c}, Led(l), key[l] = k, l \notin forgotten,
                 pc'[c] = "leading"
          PROVE  Followed(l, c)'
      <3>1. l \notin kept
        BY <1>4, <2>1
      <3>2. done[l] /\ finished[l] \in Nat /\ finished[l] <= now
        BY <1>2, <2>1, <3>1 DEF FlightInv, FlightsTyped, Leaders, Leading
      <3>3. res[l] # Abandoned => now >= finished[l] + RevalidateFlightRetention
        BY <1>2, <2>1, <3>1, <3>2 DEF FlightInv, Registered
      <3>4. QED
        BY <1>1, <1>3, <3>2, <3>3 DEF Followed, FlightInv, FlightsTyped
    <2>2. ASSUME NEW l \in Requests \ {c}, NEW m \in Requests \ {c}, Followed(l, m)
          PROVE  Followed(l, m)'
      BY <1>1, <1>3, <2>2 DEF Followed
    <2>3. Led(c)' => pc'[c] = "leading"
      BY <1>4 DEF Led
    <2>4. QED
      BY <1>1, <1>3, <1>6, <2>1, <2>2, <2>3 DEF FlightInv, Asked
  <1>13. QED
    BY <1>7, <1>8, <1>9, <1>10, <1>11, <1>12 DEF FlightInv

(* Answer: fn returned.                                                    *)
LEMMA AnswerFlight ==
    ASSUME FlightInv, NEW c \in Requests, NEW r \in Answer, entered[c] <= r.at, r.at <= now,
           F!Answer(c, r),
           UNCHANGED forgotten
    PROVE  FlightInv'
  <1>1. /\ pc[c] = "leading" /\ res' = [res EXCEPT ![c] = r]
        /\ pc' = [pc EXCEPT ![c] = "answered"]
        /\ UNCHANGED <<now, calls, done, finished, key, entered, joined, ret>>
    BY DEF F!Answer
  <1>2. /\ pc'[c] = "answered" /\ res'[c] = r
        /\ \A l \in Requests \ {c} : pc'[l] = pc[l] /\ res'[l] = res[l]
        /\ \A l \in Requests : Led(l)' <=> Led(l)
    BY <1>1 DEF FlightInv, FlightsTyped, Led
  <1>3. Led(c) /\ ~done[c]
    BY <1>1 DEF FlightInv, Leaders, Leading, Running, Led
  <1>4. FlightsTyped'
    BY <1>1 DEF FlightInv, FlightsTyped, Running, Results
  <1>5. Leaders'
    <2>1. ASSUME NEW l \in Requests
          PROVE  Leading(l)'
      BY <1>1, <1>2 DEF FlightInv, Leaders, Leading, Running
    <2>2. QED
      BY <2>1 DEF Leaders
  <1>6. Given'
    <2>1. ASSUME NEW l \in Requests \ {c}
          PROVE  Answering(l)'
      BY <1>1, <1>2 DEF FlightInv, Given, Answering
    <2>2. Answering(c)'
      BY <1>1, <1>2, <1>3, ValuesAssumption
      DEF FlightInv, FlightsTyped, Given, Answering, Leaders, Leading
    <2>3. QED
      BY <2>1, <2>2 DEF Given
  <1>7. Registered' /\ Waiters'
    BY <1>1, <1>2, <1>3 DEF FlightInv, FlightsTyped, Registered, Waiters
  <1>8. Asked'
    BY <1>1, <1>2, <1>3 DEF FlightInv, Asked, Followed
  <1>9. QED
    BY <1>4, <1>5, <1>6, <1>7, <1>8 DEF FlightInv

(* Panic: fn did not return.                                               *)
LEMMA PanicFlight ==
    ASSUME FlightInv, NEW c \in Requests, F!Panic(c), UNCHANGED forgotten
    PROVE  FlightInv'
  <1>1. /\ pc[c] = "leading" /\ pc' = [pc EXCEPT ![c] = "panicked"]
        /\ UNCHANGED <<now, calls, done, res, finished, key, entered, joined, ret>>
    BY DEF F!Panic
  <1>2. /\ pc'[c] = "panicked"
        /\ \A l \in Requests \ {c} : pc'[l] = pc[l]
        /\ \A l \in Requests : Led(l)' <=> Led(l)
    BY <1>1 DEF FlightInv, FlightsTyped, Led
  <1>3. FlightsTyped'
    BY <1>1 DEF FlightInv, FlightsTyped, Running
  <1>4. Leaders'
    <2>1. ASSUME NEW l \in Requests
          PROVE  Leading(l)'
      BY <1>1, <1>2 DEF FlightInv, Leaders, Leading, Running
    <2>2. QED
      BY <2>1 DEF Leaders
  <1>5. Given'
    BY <1>1, <1>2 DEF FlightInv, Given, Answering
  <1>6. Registered' /\ Waiters'
    BY <1>1, <1>2 DEF FlightInv, FlightsTyped, Registered, Waiters
  <1>7. Asked'
    BY <1>1, <1>2 DEF FlightInv, Asked, Followed
  <1>8. QED
    BY <1>3, <1>4, <1>5, <1>6, <1>7 DEF FlightInv

(* Publish: the answer is kept for the retention, a panic for nobody.      *)
LEMMA PublishFlight ==
    ASSUME FlightInv, NEW c \in Requests, F!Publish(c), UNCHANGED forgotten
    PROVE  FlightInv'
  <1>1. /\ pc[c] \in {"answered", "panicked"}
        /\ res' = [res EXCEPT ![c] = IF pc[c] = "panicked" THEN Abandoned ELSE @]
        /\ calls' = IF pc[c] = "panicked" THEN calls \ {c} ELSE calls
        /\ finished' = [finished EXCEPT ![c] = now]
        /\ done' = [done EXCEPT ![c] = TRUE]
        /\ ret' = [ret EXCEPT ![c] = IF pc[c] = "answered" THEN res[c] ELSE @]
        /\ pc' = [pc EXCEPT ![c] = IF pc[c] = "answered" THEN "returned" ELSE "unwound"]
        /\ UNCHANGED <<now, key, entered, joined>>
    BY DEF F!Publish, F!Unretain, F!Close
  <1>2. /\ done'[c] /\ finished'[c] = now
        /\ pc[c] = "answered" =>
              /\ res[c] \in Answer /\ res'[c] = res[c] /\ ret'[c] = res[c]
              /\ pc'[c] = "returned" /\ calls' = calls
        /\ pc[c] = "panicked" =>
              /\ res'[c] = Abandoned /\ ret'[c] = ret[c] /\ pc'[c] = "unwound"
              /\ calls' = calls \ {c}
        /\ \A l \in Requests \ {c} :
              /\ pc'[l] = pc[l] /\ res'[l] = res[l] /\ ret'[l] = ret[l] /\ done'[l] = done[l]
              /\ finished'[l] = finished[l]
    BY <1>1 DEF FlightInv, FlightsTyped, Given, Answering
  <1>3. \A l \in Requests : Led(l)' <=> Led(l)
    BY <1>1, <1>2 DEF Led
  <1>4. /\ Led(c) /\ ~done[c] /\ c \in calls /\ c \notin forgotten
        /\ entered[c] <= now /\ now <= entered[c] + RevalidateSharedTimeout
    BY <1>1 DEF FlightInv, Leaders, Leading, Running, Led
  <1>5. FlightsTyped'
    <2>1. res' \in [Requests -> Results] /\ ret' \in [Requests -> Results]
      BY <1>1 DEF FlightInv, FlightsTyped, Results
    <2>2. /\ done' \in [Requests -> BOOLEAN] /\ finished' \in [Requests -> Nat]
          /\ pc' \in [Requests -> Running \cup {"idle", "waiting", "returned", "unwound"}]
      BY <1>1 DEF FlightInv, FlightsTyped
    <2>3. QED
      BY <1>1, <2>1, <2>2 DEF FlightInv, FlightsTyped
  <1>6. Leaders'
    <2>1. ASSUME NEW l \in Requests \ {c}
          PROVE  Leading(l)'
      <3>1. Leading(l) /\ (Led(l)' <=> Led(l)) /\ (l \in calls' <=> l \in calls)
        BY <1>1, <1>3 DEF FlightInv, Leaders
      <3>2. QED
        BY <1>1, <1>2, <3>1 DEF Leading
    <2>2. Leading(c)'
      BY <1>1, <1>2, <1>3, <1>4 DEF Leading, Running, FlightInv, FlightsTyped
    <2>3. QED
      BY <2>1, <2>2 DEF Leaders
  <1>7. Given'
    <2>1. ASSUME NEW l \in Requests \ {c}
          PROVE  Answering(l)'
      BY <1>1, <1>2, <1>3 DEF FlightInv, Given, Answering
    <2>2. Answering(c) /\ Led(c)' /\ now' = now /\ entered' = entered
      BY <1>1, <1>3, <1>4 DEF FlightInv, Given
    <2>3. ASSUME pc[c] = "answered"
          PROVE  Answering(c)'
      <3>1. res'[c] = res[c] /\ res[c] \in Answer /\ pc'[c] = "returned"
        BY <1>2, <2>3
      <3>2. res'[c] # Abandoned /\ res'[c] # NoAnswer
        BY <3>1, ValuesAssumption
      <3>3. QED
        BY <2>2, <3>1, <3>2 DEF Answering
    <2>4. ASSUME pc[c] = "panicked"
          PROVE  Answering(c)'
      <3>1. res'[c] = Abandoned /\ ret'[c] = ret[c] /\ pc'[c] = "unwound"
        BY <1>2, <2>4
      <3>2. res'[c] \notin Answer /\ res'[c] # NoAnswer
        BY <3>1, ValuesAssumption
      <3>3. ret[c] = NoAnswer
        BY <2>2, <2>4 DEF Answering
      <3>4. QED
        BY <2>2, <3>1, <3>2, <3>3 DEF Answering
    <2>5. QED
      BY <1>1, <2>1, <2>3, <2>4 DEF Given
  <1>8. Registered'
    BY <1>1, <1>2, <1>4 DEF FlightInv, Registered
  <1>9. Waiters'
    <2> SUFFICES ASSUME NEW w \in Requests, pc'[w] = "waiting"
                 PROVE  /\ Led(joined[w])' /\ key[joined[w]] = key[w]
                        /\ done'[joined[w]] =>
                              entered[w] < finished'[joined[w]] + RevalidateFlightRetention
      BY <1>1 DEF Waiters, Led
    <2>1. /\ pc[w] = "waiting" /\ joined[w] \in Requests
          /\ entered[w] \in Nat /\ entered[w] <= now /\ now \in Nat
      BY <1>1, <1>2 DEF FlightInv, FlightsTyped, Leaders, Leading
    <2>2. /\ Led(joined[w]) /\ key[joined[w]] = key[w]
          /\ done[joined[w]] =>
                entered[w] < finished[joined[w]] + RevalidateFlightRetention
      BY <2>1 DEF FlightInv, Waiters
    <2>3. QED
      BY <1>1, <1>2, <1>3, <2>1, <2>2, RevalidationAssumption
  <1>10. Asked'
    <2>1. ASSUME NEW l \in Requests, NEW m \in Requests, Followed(l, m)
          PROVE  Followed(l, m)'
      <3>1. l # c
        BY <1>4, <2>1 DEF Followed
      <3>2. QED
        BY <1>1, <1>2, <2>1, <3>1 DEF Followed
    <2>2. QED
      BY <1>1, <1>3, <2>1 DEF FlightInv, Asked
  <1>11. QED
    BY <1>5, <1>6, <1>7, <1>8, <1>9, <1>10 DEF FlightInv

(* A waiter leaves, with its leader's answer or without any.               *)
LEMMA LeaveFlight ==
    ASSUME FlightInv, NEW c \in Requests, NEW r \in Results, pc[c] = "waiting",
           ret' = [ret EXCEPT ![c] = r], pc' = [pc EXCEPT ![c] = "returned"],
           UNCHANGED <<now, calls, done, res, finished, key, entered, joined>>,
           UNCHANGED forgotten
    PROVE  FlightInv'
  <1>1. /\ pc'[c] = "returned"
        /\ \A l \in Requests \ {c} : pc'[l] = pc[l] /\ ret'[l] = ret[l]
        /\ \A l \in Requests : Led(l)' <=> Led(l)
    BY DEF FlightInv, FlightsTyped, Led
  <1>2. ~done[c] /\ c \notin calls \cup forgotten /\ ~Led(c)
    BY DEF FlightInv, Leaders, Leading, Led
  <1>3. FlightsTyped'
    BY DEF FlightInv, FlightsTyped
  <1>4. Leaders'
    <2>1. ASSUME NEW l \in Requests
          PROVE  Leading(l)'
      BY <1>1, <1>2 DEF FlightInv, Leaders, Leading, Running
    <2>2. QED
      BY <2>1 DEF Leaders
  <1>5. Given'
    BY <1>1 DEF FlightInv, Given, Answering
  <1>6. Registered' /\ Waiters'
    BY <1>1 DEF FlightInv, FlightsTyped, Registered, Waiters
  <1>7. Asked'
    BY <1>1 DEF FlightInv, Asked, Followed
  <1>8. QED
    BY <1>3, <1>4, <1>5, <1>6, <1>7 DEF FlightInv

(* Receive and Cancel.                                                     *)
LEMMA ReceiveFlight ==
    ASSUME FlightInv, NEW c \in Requests, F!Receive(c) \/ F!Cancel(c), UNCHANGED forgotten
    PROVE  FlightInv'
  <1>1. CASE F!Receive(c)
    <2> DEFINE r == res[joined[c]]
    <2>1. r \in Results
      BY DEF FlightInv, FlightsTyped
    <2>2. /\ pc[c] = "waiting" /\ ret' = [ret EXCEPT ![c] = r]
          /\ pc' = [pc EXCEPT ![c] = "returned"]
          /\ UNCHANGED <<now, calls, done, res, finished, key, entered, joined>>
      BY <1>1 DEF F!Receive
    <2> HIDE DEF r
    <2>3. QED
      BY <2>1, <2>2, LeaveFlight
  <1>2. CASE F!Cancel(c)
    <2>1. Abandoned \in Results
      BY DEF Results
    <2>2. QED
      BY <1>2, <2>1, LeaveFlight DEF F!Cancel
  <1>3. QED
    BY <1>1, <1>2

(* Time passes only while fn's timeout allows.                             *)
LEMMA TickFlight ==
    ASSUME FlightInv, F!Tick, UNCHANGED forgotten
    PROVE  FlightInv'
  <1>1. /\ now' = now + 1
        /\ \A c \in Requests : /\ pc[c] = "leading" => now < entered[c] + RevalidateSharedTimeout
                               /\ pc[c] \notin {"answered", "panicked"}
        /\ UNCHANGED <<calls, done, res, finished, pc, key, entered, joined, ret>>
    BY DEF F!Tick, F!WorkBounded
  <1>2. FlightsTyped'
    BY <1>1, RevalidationAssumption DEF FlightInv, FlightsTyped
  <1>3. Leaders'
    <2>1. ASSUME NEW c \in Requests
          PROVE  Leading(c)'
      <3>1. /\ Leading(c) /\ (Led(c)' <=> Led(c))
            /\ entered[c] \in Nat /\ finished[c] \in Nat /\ now \in Nat
        BY <1>1 DEF FlightInv, FlightsTyped, Leaders, Led
      <3>2. QED
        BY <1>1, <3>1, RevalidationAssumption DEF Leading, Running
    <2>2. QED
      BY <2>1 DEF Leaders
  <1>4. Given'
    BY <1>1 DEF FlightInv, FlightsTyped, Given, Answering, Led, Answer
  <1>5. Registered'
    BY <1>1, RevalidationAssumption DEF FlightInv, FlightsTyped, Registered
  <1>6. Waiters'
    BY <1>1 DEF FlightInv, Waiters, Led
  <1>7. Asked'
    BY <1>1 DEF FlightInv, Asked, Followed, Led
  <1>8. QED
    BY <1>2, <1>3, <1>4, <1>5, <1>6, <1>7 DEF FlightInv

(* A restart takes every flight of its replica out of the map, running or  *)
(* retained; what the other replicas promise stands.                       *)
LEMMA RestartFlight ==
    ASSUME FlightInv, JourneyTyped, Placed, NEW n \in Replicas, Restart(n)
    PROVE  FlightInv'
  <1> DEFINE lost == {c \in Requests : home[c] = n /\ step[c] \in {"grant", "resolve", "serving"}}
             held == {c \in calls : home[c] = n}
  <1>1. /\ forgotten = {} /\ forgotten' = held /\ calls' = calls \ held
        /\ pc' = [c \in Requests |-> IF c \in lost /\ pc[c] \in Running \cup {"waiting"}
                                    THEN "unwound" ELSE pc[c]]
        /\ UNCHANGED <<now, done, res, finished, key, entered, joined, ret>>
    BY DEF Restart, F!Running, Running
  <1>2. \A c \in Requests :
           /\ c \in lost /\ pc[c] \in Running \cup {"waiting"} => pc'[c] = "unwound"
           /\ ~(c \in lost /\ pc[c] \in Running \cup {"waiting"}) => pc'[c] = pc[c]
           /\ Led(c)' <=> Led(c)
    BY <1>1 DEF Led, Running
  <1>3. \A c \in Requests : pc'[c] \in Running => pc'[c] = pc[c] /\ home[c] # n
    BY <1>1, <1>2 DEF Placed, Place, Running
  <1>4. \A c \in Requests : pc[c] \in Running /\ pc'[c] # pc[c] => c \in held
    BY <1>1, <1>2 DEF FlightInv, Leaders, Leading
  <1>5. FlightsTyped'
    <2>1. pc' \in [Requests -> Running \cup {"idle", "waiting", "returned", "unwound"}]
      BY <1>1 DEF FlightInv, FlightsTyped
    <2>2. QED
      BY <1>1, <2>1 DEF FlightInv, FlightsTyped
  <1>6. Leaders'
    <2>1. ASSUME NEW c \in Requests
          PROVE  Leading(c)'
      <3>1. Leading(c) /\ (Led(c)' <=> Led(c))
        BY <1>2 DEF FlightInv, Leaders
      <3>2. pc'[c] = "unwound" \/ pc'[c] = pc[c]
        BY <1>2
      <3>3. QED
        BY <1>1, <1>3, <1>4, <3>1, <3>2 DEF Leading, Running
    <2>2. QED
      BY <2>1 DEF Leaders
  <1>7. Given'
    <2>1. ASSUME NEW c \in Requests
          PROVE  Answering(c)'
      <3>1. Answering(c) /\ (Led(c)' <=> Led(c))
        BY <1>2 DEF FlightInv, Given
      <3>2. pc'[c] = pc[c] \/ (pc[c] \in Running \cup {"waiting"} /\ pc'[c] = "unwound")
        BY <1>2
      <3>3. QED
        BY <1>1, <3>1, <3>2 DEF Answering, Running
    <2>2. QED
      BY <2>1 DEF Given
  <1>8. Registered' /\ Waiters'
    BY <1>1, <1>2 DEF FlightInv, FlightsTyped, Registered, Waiters
  <1>9. Asked'
    BY <1>1, <1>2 DEF FlightInv, Asked, Followed
  <1>10. QED
    BY <1>5, <1>6, <1>7, <1>8, <1>9 DEF FlightInv

-----------------------------------------------------------------------------
(* What the writers of session.go make of a payload.                       *)

(* The backoff never reaches past the floor, and is at least a second      *)
(* unless the floor is one second.                                         *)
LEMMA BackoffFacts ==
    ASSUME RevalidateInterval > 0
    PROVE  /\ TransportBackoff \in Nat /\ TransportBackoff < RevalidateInterval
           /\ RevalidateInterval # 1 => TransportBackoff > 0
  BY ConfigAssumption DEF TransportBackoff

(* A payload asked about in flight l.                                      *)
LEMMA MarkedFacts ==
    ASSUME NEW p \in Payload, NEW l \in Requests
    PROVE  /\ [p EXCEPT !.from = {l}] \in Payload
           /\ [p EXCEPT !.from = {l}].lv = p.lv /\ [p EXCEPT !.from = {l}].from = {l}
  BY DEF Payload

(* A refresh grant moves neither the anchor nor the flight behind it.      *)
LEMMA RefreshedFacts ==
    ASSUME NEW p \in Payload, NEW rt \in Tokens \cup {NoToken}
    PROVE  /\ Refreshed(p, rt, 0) \in Payload
           /\ Refreshed(p, rt, 0).lv = p.lv /\ Refreshed(p, rt, 0).from = p.from
  <1> DEFINE a == MergeRefreshedAuthTime(p.aut, 0)
             t == IF rt = NoToken THEN p.rt ELSE rt
  <1>1. a \in Int
    BY DEF Payload, MergeRefreshedAuthTime
  <1>2. t \in Tokens
    BY DEF Payload
  <1>3. Refreshed(p, rt, 0) = [p EXCEPT !.rt = t, !.aut = a]
    BY DEF Refreshed, Payload
  <1> HIDE DEF a, t
  <1>4. QED
    BY <1>1, <1>2, <1>3 DEF Payload

(* The three ways an answer is stamped.                                     *)
LEMMA StampFacts ==
    ASSUME NEW p \in Payload, NEW t \in Nat, RevalidateInterval > 0
    PROVE  /\ Stamped(p, t) \in Payload /\ Stamped(p, t).lv = t /\ Stamped(p, t).from = p.from
           /\ SoftResolved(p, t) \in Payload /\ SoftResolved(p, t).lv = t
           /\ SoftResolved(p, t).from = p.from
           /\ PersistBackoff(p, t) \in Payload
           /\ PersistBackoff(p, t).lv = t + TransportBackoff - RevalidateInterval
           /\ PersistBackoff(p, t).from = p.from
  <1>1. TransportBackoff \in Nat /\ RevalidateInterval \in Nat /\ SessionTTL \in Nat
    BY BackoffFacts, ConfigAssumption
  <1>2. Stamped(p, t) \in Payload /\ Stamped(p, t).lv = t /\ Stamped(p, t).from = p.from
    <2> DEFINE e == t + SessionTTL
               z == 0
    <2>1. e \in Int /\ z \in Int /\ t \in Int
      BY <1>1
    <2>2. Stamped(p, t) = [p EXCEPT !.rra = z, !.lv = t, !.exp = e]
      BY DEF Stamped
    <2> HIDE DEF e, z
    <2>3. Stamped(p, t) \in Payload
      <3>1. [p EXCEPT !.rra = z, !.lv = t, !.exp = e] \in Payload
        BY <2>1 DEF Payload
      <3>2. QED
        BY <2>2, <3>1
    <2>4. Stamped(p, t).lv = t
      BY <2>2 DEF Payload
    <2>5. Stamped(p, t).from = p.from
      BY <2>2 DEF Payload
    <2>6. QED
      BY <2>3, <2>4, <2>5
  <1>3. /\ SoftResolved(p, t) \in Payload /\ SoftResolved(p, t).lv = t
        /\ SoftResolved(p, t).from = p.from
    <2> DEFINE a == t + TransportBackoff
    <2>1. a \in Int /\ t \in Int
      BY <1>1
    <2>2. SoftResolved(p, t) = [p EXCEPT !.lv = t, !.rra = a]
      BY DEF SoftResolved
    <2> HIDE DEF a
    <2>3. SoftResolved(p, t) \in Payload
      <3>1. [p EXCEPT !.lv = t, !.rra = a] \in Payload
        BY <2>1 DEF Payload
      <3>2. QED
        BY <2>2, <3>1
    <2>4. SoftResolved(p, t).lv = t /\ SoftResolved(p, t).from = p.from
      BY <2>2 DEF Payload
    <2>5. QED
      BY <2>3, <2>4
  <1>4. /\ PersistBackoff(p, t) \in Payload
        /\ PersistBackoff(p, t).lv = t + TransportBackoff - RevalidateInterval
        /\ PersistBackoff(p, t).from = p.from
    BY <1>1 DEF PersistBackoff, Payload
  <1>5. QED
    BY <1>2, <1>3, <1>4

(* A resolver-only retry and AccessToken leave the anchor where it is.     *)
LEMMA AnchorKept ==
    ASSUME NEW p \in Payload, NEW t \in Nat, NEW rt \in Tokens \cup {NoToken}
    PROVE  /\ RevalidateInterval > 0 =>
                RetrySoft(p, t) \in Payload /\ RetrySoft(p, t).lv = p.lv
                /\ RetrySoft(p, t).from = p.from
           /\ RetryApplied(p, t) \in Payload /\ RetryApplied(p, t).lv = p.lv
           /\ RetryApplied(p, t).from = p.from
           /\ AccessTokenStored(p, rt) \in Payload /\ AccessTokenStored(p, rt).lv = p.lv
           /\ AccessTokenStored(p, rt).from = p.from
  <1>1. ASSUME RevalidateInterval > 0
        PROVE  RetrySoft(p, t) \in Payload /\ RetrySoft(p, t).lv = p.lv
               /\ RetrySoft(p, t).from = p.from
    <2>1. TransportBackoff \in Nat
      BY <1>1, BackoffFacts
    <2>2. QED
      BY <2>1 DEF RetrySoft, Payload
  <1>2. /\ RetryApplied(p, t) \in Payload /\ RetryApplied(p, t).lv = p.lv
        /\ RetryApplied(p, t).from = p.from
    <2> DEFINE e == IF p.lv + SessionTTL > p.exp THEN p.lv + SessionTTL ELSE p.exp
               z == 0
    <2>1. e \in Int /\ z \in Int
      BY ConfigAssumption DEF Payload
    <2>2. RetryApplied(p, t) = [p EXCEPT !.rra = z, !.exp = e]
      BY DEF RetryApplied, Payload
    <2> HIDE DEF e, z
    <2>3. RetryApplied(p, t) \in Payload
      <3>1. [p EXCEPT !.rra = z, !.exp = e] \in Payload
        BY <2>1 DEF Payload
      <3>2. QED
        BY <2>2, <3>1
    <2>4. RetryApplied(p, t).lv = p.lv /\ RetryApplied(p, t).from = p.from
      BY <2>2 DEF Payload
    <2>5. QED
      BY <2>3, <2>4
  <1>3. /\ AccessTokenStored(p, rt) \in Payload /\ AccessTokenStored(p, rt).lv = p.lv
        /\ AccessTokenStored(p, rt).from = p.from
    <2> DEFINE s == IF rt = NoToken THEN p.rt ELSE rt
    <2>1. s \in Tokens
      BY DEF Payload
    <2>2. AccessTokenStored(p, rt) = [p EXCEPT !.rt = s]
      BY DEF AccessTokenStored, Payload
    <2> HIDE DEF s
    <2>3. QED
      BY <2>1, <2>2 DEF Payload
  <1>4. QED
    BY <1>1, <1>2, <1>3

(* The parts of a flight key that the proofs tell apart.                   *)
LEMMA KeyFacts ==
    ASSUME NEW n, NEW kind, NEW p
    PROVE  FlightKey(n, kind, p)[2] = kind /\ FlightKey(n, kind, p)[4] = p.lv
  BY DEF FlightKey

-----------------------------------------------------------------------------
(* What a request leaves do with.                                          *)

(* The answer a request gets is no older than the retention and the work   *)
(* bound together, and answers the very question the request asked.        *)
LEMMA AnswerAge ==
    ASSUME Inv, NEW c \in Requests,
           pc[c] = "answered" \/ (pc[c] = "waiting" /\ done[joined[c]]),
           res[joined[c]] \in Answer
    PROVE  /\ entered[c] < res[joined[c]].at + RevalidateFlightRetention + RevalidateSharedTimeout
           /\ key[joined[c]] = key[c] /\ clk[c] = entered[c]
  <1> DEFINE l == joined[c]
  <1>1. /\ l \in Requests /\ entered[c] \in Nat /\ entered[l] \in Nat /\ finished[l] \in Nat
        /\ res[l].at \in Nat
    BY DEF Inv, FlightInv, FlightsTyped, Answer
  <1>2. entered[l] <= res[l].at
    BY <1>1 DEF Inv, FlightInv, Given, Answering
  <1>3. clk[c] = entered[c]
    BY DEF Inv, Placed, Place, Running
  <1>4. CASE pc[c] = "answered"
    <2>1. l = c
      BY <1>4 DEF Inv, FlightInv, Leaders, Leading, Running
    <2>2. QED
      BY <1>1, <1>2, <1>3, <2>1, RevalidationAssumption
  <1>5. CASE pc[c] = "waiting" /\ done[joined[c]]
    <2>1. /\ key[l] = key[c]
          /\ entered[c] < finished[l] + RevalidateFlightRetention
      BY <1>5 DEF Inv, FlightInv, Waiters
    <2>2. finished[l] <= entered[l] + RevalidateSharedTimeout
      BY <1>1, <1>5 DEF Inv, FlightInv, Leaders, Leading
    <2>3. QED
      BY <1>1, <1>2, <1>3, <2>1, <2>2, RevalidationAssumption
  <1>6. QED
    BY <1>4, <1>5

(* What the grant's answer makes of the payload: nothing, or a stamp with  *)
(* the request's own clock, or the anchor one backoff short of the floor.  *)
LEMMA ApplyGrantFacts ==
    ASSUME Inv, NEW c \in Requests, step[c] = "grant", NEW a \in Answer \cup {Abandoned},
           ApplyGrant(c, a)
    PROVE  \/ Served(c, NoSession, NoSession)
           \/ \E s \in Payload :
                 /\ Served(c, s, s) /\ s.from = {joined[c]}
                 /\ \/ a \in Answer /\ a.verdict = "ok" /\ s.lv = clk[c]
                    \/ /\ a = Abandoned \/ a.verdict = "error"
                       /\ s.lv = clk[c] + TransportBackoff - RevalidateInterval
  <1> DEFINE p == [body[c] EXCEPT !.from = {joined[c]}]
             q == Refreshed(p, a.rt, 0)
  <1>1. /\ body[c] \in Payload /\ joined[c] \in Requests /\ clk[c] \in Nat
        /\ RevalidateInterval > 0
    BY DEF Inv, FlightInv, FlightsTyped, JourneyTyped, Placed, Place, FloorDue
  <1>2. p \in Payload /\ p.from = {joined[c]}
    BY <1>1, MarkedFacts
  <1>3. CASE a = Abandoned \/ a.verdict = "error"
    <2> DEFINE s == PersistBackoff(p, clk[c])
    <2>1. Served(c, s, s)
      BY <1>3 DEF ApplyGrant
    <2> HIDE DEF p
    <2>2. /\ s \in Payload /\ s.from = {joined[c]}
          /\ s.lv = clk[c] + TransportBackoff - RevalidateInterval
      BY <1>1, <1>2, StampFacts
    <2>3. QED
      BY <1>3, <2>1, <2>2
  <1>4. CASE a # Abandoned /\ a.verdict = "invalid"
    BY <1>4 DEF ApplyGrant
  <1>5. CASE a # Abandoned /\ a.verdict = "ok"
    <2>1. a \in Answer /\ a.rt \in Tokens \cup {NoToken}
      BY <1>5 DEF Answer
    <2>2. \/ Served(c, NoSession, NoSession)
          \/ Served(c, SoftResolved(q, clk[c]), SoftResolved(q, clk[c]))
          \/ Served(c, Stamped(q, clk[c]), Stamped(q, clk[c]))
      BY <1>5 DEF ApplyGrant
    <2> HIDE DEF p
    <2>3. q \in Payload /\ q.from = {joined[c]}
      BY <1>2, <2>1, RefreshedFacts
    <2> HIDE DEF q
    <2>4. /\ SoftResolved(q, clk[c]) \in Payload /\ SoftResolved(q, clk[c]).lv = clk[c]
          /\ SoftResolved(q, clk[c]).from = {joined[c]}
          /\ Stamped(q, clk[c]) \in Payload /\ Stamped(q, clk[c]).lv = clk[c]
          /\ Stamped(q, clk[c]).from = {joined[c]}
      BY <1>1, <2>3, StampFacts
    <2>5. QED
      BY <1>5, <2>1, <2>2, <2>4
  <1>6. QED
    BY <1>3, <1>4, <1>5 DEF Answer

(* A resolver-only retry ends the session or leaves its anchor alone.      *)
LEMMA ApplyResolveFacts ==
    ASSUME Inv, NEW c \in Requests, step[c] = "resolve", NEW a \in Answer \cup {Abandoned},
           ApplyResolve(c, a), RevalidateInterval > 0
    PROVE  \/ Served(c, NoSession, NoSession)
           \/ \E s \in Payload : /\ Served(c, s, s) \/ Served(c, s, Keep)
                                 /\ s.lv = body[c].lv /\ s.from = body[c].from
  <1> DEFINE p == body[c]
  <1>1. p \in Payload /\ clk[c] \in Nat
    BY DEF Inv, JourneyTyped, Placed, Place
  <1>2. \/ Served(c, p, Keep) \/ Served(c, NoSession, NoSession)
        \/ Served(c, RetrySoft(p, clk[c]), RetrySoft(p, clk[c]))
        \/ Served(c, RetryApplied(p, clk[c]), RetryApplied(p, clk[c]))
    BY DEF ApplyResolve
  <1> HIDE DEF p
  <1>3. /\ RetrySoft(p, clk[c]) \in Payload /\ RetrySoft(p, clk[c]).lv = p.lv
        /\ RetrySoft(p, clk[c]).from = p.from
        /\ RetryApplied(p, clk[c]) \in Payload /\ RetryApplied(p, clk[c]).lv = p.lv
        /\ RetryApplied(p, clk[c]).from = p.from
    BY <1>1, AnchorKept
  <1>4. QED
    BY <1>1, <1>2, <1>3 DEF p

\* What a request that leaves do is served with.
Leaves(c) ==
    \/ Served(c, NoSession, NoSession) \/ Served(c, NoSession, Keep)
    \/ \E s \in Payload :
          /\ Served(c, s, s) \/ Served(c, s, Keep)
          /\ Sound(s)
          /\ (IdPAnswers /\ ~sso) =>
                clk[c] < ssoEnd + RevalidateInterval
                         + RevalidateFlightRetention + RevalidateSharedTimeout

(* Whatever answer a request leaves do with, the payload it is served with *)
(* is sound, and if the SSO session is over, that is recent news.          *)
LEMMA LeavesWith ==
    ASSUME Inv, NEW c \in Requests, NEW a \in Answer \cup {Abandoned}, Apply(c, a),
           step[c] \in {"grant", "resolve"}, pc[c] # "idle",
           Led(joined[c]), key[joined[c]] = key[c],
           IdPAnswers => a # Abandoned /\ a.verdict # "error",
           a \in Answer =>
               entered[c] < a.at + RevalidateFlightRetention + RevalidateSharedTimeout,
           (~sso /\ step[c] = "grant" /\ a \in Answer /\ a.verdict = "ok") => a.at <= ssoEnd
    PROVE  Leaves(c)
  <1>1. /\ body[c] \in Payload /\ Sound(body[c]) /\ clk[c] \in Nat /\ clk[c] = entered[c]
        /\ clk[c] >= Start /\ clk[c] <= now /\ now \in Nat /\ body[c].lv \in Int
        /\ ssoEnd \in Nat /\ joined[c] \in Requests
    BY DEF Inv, FlightInv, FlightsTyped, JourneyTyped, Placed, Place, AllSound, Payload
  <1>2. RevalidateInterval > 0 /\ RevalidateInterval \in Nat
    <2>1. CASE step[c] = "grant"
      BY <2>1, ConfigAssumption DEF Inv, Placed, Place, FloorDue
    <2>2. CASE step[c] = "resolve"
      BY <2>2, ConfigAssumption DEF Inv, Placed, Place
    <2>3. QED
      BY <2>1, <2>2
  <1>3. body[c].lv > 0 /\ ValidationAnchor(body[c]) = body[c].lv
    BY <1>1 DEF Sound, ValidationAnchor
  <1>4. CASE step[c] = "grant"
    <2>1. clk[c] - body[c].lv >= RevalidateInterval
      BY <1>3, <1>4 DEF Inv, Placed, Place, FloorDue
    <2>2. key[joined[c]][2] = "grant" /\ key[joined[c]][4] = body[c].lv
      <3>1. key[joined[c]] = FlightKey(home[c], "grant", body[c])
        BY <1>4 DEF Inv, Placed, Place
      <3>2. QED
        BY <3>1, KeyFacts
    <2>3. pc[joined[c]] # "idle"
      BY DEF Led
    <2>4. /\ TransportBackoff \in Nat /\ TransportBackoff < RevalidateInterval
          /\ RevalidateInterval # 1 => TransportBackoff > 0
      BY <1>2, BackoffFacts
    <2>5. a \in Answer => a.at \in Nat
      BY DEF Answer
    <2>6. (IdPAnswers /\ ~sso /\ a \in Answer /\ a.verdict = "ok") =>
             clk[c] < ssoEnd + RevalidateFlightRetention + RevalidateSharedTimeout
      BY <1>1, <1>4, <2>5, RevalidationAssumption
    <2>7. ASSUME NEW s \in Payload, s.from = {joined[c]},
                 \/ a \in Answer /\ a.verdict = "ok" /\ s.lv = clk[c]
                 \/ /\ a = Abandoned \/ a.verdict = "error"
                    /\ s.lv = clk[c] + TransportBackoff - RevalidateInterval
          PROVE  /\ Sound(s)
                 /\ (IdPAnswers /\ ~sso) =>
                       clk[c] < ssoEnd + RevalidateInterval
                                + RevalidateFlightRetention + RevalidateSharedTimeout
      <3>1. s.lv > 0 /\ s.lv <= now
        BY <1>1, <1>2, <2>4, <2>7, RevalidationAssumption
      <3>2. RevalidateInterval # 1 => s.lv # body[c].lv
        BY <1>1, <1>2, <2>1, <2>4, <2>7
      <3>3. (IdPAnswers /\ ~sso) =>
               /\ s.lv = clk[c]
               /\ clk[c] < ssoEnd + RevalidateFlightRetention + RevalidateSharedTimeout
        BY <2>6, <2>7
      <3>4. Sound(s)
        BY <2>2, <2>3, <2>7, <3>1, <3>2, <3>3 DEF Sound
      <3>5. QED
        BY <1>1, <1>2, <3>3, <3>4, RevalidationAssumption
    <2>8. \/ Served(c, NoSession, NoSession)
          \/ \E s \in Payload :
                 /\ Served(c, s, s) /\ s.from = {joined[c]}
                 /\ \/ a \in Answer /\ a.verdict = "ok" /\ s.lv = clk[c]
                    \/ /\ a = Abandoned \/ a.verdict = "error"
                       /\ s.lv = clk[c] + TransportBackoff - RevalidateInterval
      BY <1>4, ApplyGrantFacts DEF Apply
    <2>9. QED
      BY <2>7, <2>8 DEF Leaves
  <1>5. CASE step[c] = "resolve"
    <2>1. clk[c] - body[c].lv < RevalidateInterval
      BY <1>1, <1>2, <1>3, <1>5 DEF Inv, Placed, Place, FloorDue
    <2>2. (IdPAnswers /\ ~sso) =>
             clk[c] < ssoEnd + RevalidateInterval
                      + RevalidateFlightRetention + RevalidateSharedTimeout
      BY <1>1, <1>2, <2>1, RevalidationAssumption DEF Sound
    <2>3. \A s \in Payload : (s.lv = body[c].lv /\ s.from = body[c].from) => Sound(s)
      BY <1>1 DEF Sound
    <2>4. \/ Served(c, NoSession, NoSession)
          \/ \E s \in Payload : /\ Served(c, s, s) \/ Served(c, s, Keep)
                                /\ s.lv = body[c].lv /\ s.from = body[c].from
      BY <1>2, <1>5, ApplyResolveFacts DEF Apply
    <2>5. QED
      BY <2>2, <2>3, <2>4 DEF Leaves
  <1>6. QED
    BY <1>4, <1>5

(* Publish, Receive and Cancel.                                            *)
LEMMA PublishLeaves ==
    ASSUME Inv, NEW c \in Requests, Publish(c) \/ Receive(c) \/ Cancel(c)
    PROVE  Leaves(c) /\ step[c] \in {"grant", "resolve"}
  <1>1. pc[c] \in {"answered", "panicked", "waiting"}
    BY DEF Publish, Receive, Cancel, F!Publish, F!Receive, F!Cancel
  <1>2. step[c] \in {"grant", "resolve"} /\ pc[c] # "idle"
    BY <1>1 DEF Inv, Placed, Place, Running
  <1>3. pc[c] \in {"answered", "waiting"} => Led(joined[c]) /\ key[joined[c]] = key[c]
    BY DEF Inv, FlightInv, Leaders, Leading, Waiters, Running, Led
  <1>4. key[c] = FlightKey(home[c], step[c], body[c])
    BY <1>2 DEF Inv, Placed, Place
  <1>5. key[c][2] = step[c]
    BY <1>4, KeyFacts
  <1>6. joined[c] \in Requests
    BY DEF Inv, FlightInv, FlightsTyped
  <1>7. ASSUME Publish(c), pc[c] = "panicked"
        PROVE  Leaves(c)
    BY <1>7 DEF Publish, Leaves
  <1> DEFINE a == res[joined[c]]
  <1>8. ASSUME pc[c] = "answered" \/ (pc[c] = "waiting" /\ done[joined[c]]), Apply(c, a)
        PROVE  Leaves(c)
    <2>1. a \in Answer \cup {Abandoned}
      BY <1>6, <1>8 DEF Inv, FlightInv, FlightsTyped, Given, Answering, Results,
                        Leaders, Leading, Running
    <2>2. IdPAnswers => a # Abandoned /\ a.verdict # "error"
      BY <1>6, <2>1 DEF Inv, Verdicts
    <2>3. a \in Answer =>
             entered[c] < a.at + RevalidateFlightRetention + RevalidateSharedTimeout
      BY <1>8, AnswerAge
    <2>4. (~sso /\ step[c] = "grant" /\ a \in Answer /\ a.verdict = "ok") => a.at <= ssoEnd
      BY <1>3, <1>5, <1>6, <1>8 DEF Inv, Dated
    <2> HIDE DEF a
    <2>5. QED
      BY <1>2, <1>3, <1>8, <2>1, <2>2, <2>3, <2>4, LeavesWith
  <1>9. ASSUME Publish(c), pc[c] = "answered"
        PROVE  Leaves(c)
    <2>1. joined[c] = c
      BY <1>9 DEF Inv, FlightInv, Leaders, Leading, Running
    <2>2. QED
      BY <1>8, <1>9, <2>1 DEF Publish
  <1>10. ASSUME Receive(c)
         PROVE  Leaves(c)
    BY <1>8, <1>10 DEF Receive, F!Receive
  <1>11. ASSUME Cancel(c)
         PROVE  Leaves(c)
    <2>1. ~IdPAnswers /\ Apply(c, Abandoned) /\ pc[c] = "waiting"
      BY <1>11 DEF Cancel, F!Cancel, IdPAnswers
    <2>2. Abandoned \in Answer \cup {Abandoned} /\ Abandoned \notin Answer
      BY ValuesAssumption
    <2>3. QED
      BY <1>2, <1>3, <2>1, <2>2, LeavesWith
  <1>12. QED
    BY <1>2, <1>7, <1>9, <1>10, <1>11 DEF Publish, F!Publish

-----------------------------------------------------------------------------
(* What every step leaves behind.                                          *)

\* What has happened in the flight group stays so.
Onward ==
    /\ now <= now' /\ home' = home /\ forgotten \subseteq forgotten'
    /\ \A c \in Requests :
          /\ pc[c] # "idle" => /\ pc'[c] # "idle" /\ key'[c] = key[c]
                               /\ joined'[c] = joined[c] /\ entered'[c] = entered[c]
          /\ pc[c] \in {"panicked", "unwound"} => pc'[c] \in {"panicked", "unwound"}
          /\ pc'[c] = "leading" => pc[c] \in {"idle", "leading"}
          /\ res[c] \in Answer => res'[c] = res[c]
          /\ done[c] => done'[c] /\ finished'[c] = finished[c]

\* A step that is none of l's.
Untouched(l) ==
    /\ pc'[l] = pc[l] /\ key'[l] = key[l] /\ entered'[l] = entered[l]
    /\ res'[l] = res[l] /\ ret'[l] = ret[l]
    /\ step'[l] = step[l] /\ clk'[l] = clk[l] /\ body'[l] = body[l]
    /\ setCookie'[l] = setCookie[l] /\ got'[l] = got[l]

\* What a step of l must leave behind at l.
Settled(l) ==
    /\ Place(l)'
    /\ body'[l] \in Payload => Sound(body'[l])
    /\ setCookie'[l] \in Payload => Sound(setCookie'[l])
    /\ IdPAnswers => /\ res'[l] # Abandoned /\ pc'[l] # "panicked"
                     /\ res'[l] \in Answer => res'[l].verdict # "error"
    /\ ~sso => /\ got'[l] # NoAnswer => got'[l].at <= ssoEnd
               /\ (res'[l] \in Answer /\ key'[l][2] = "grant" /\ res'[l].verdict = "ok") =>
                     res'[l].at <= ssoEnd
    /\ (ret'[l] # NoAnswer /\ ret'[l] # Abandoned) =>
          clk'[l] < ret'[l].at + RevalidateFlightRetention + RevalidateSharedTimeout
    /\ (IdPAnswers /\ step'[l] = "serving" /\ ~sso /\ RevalidateInterval > 0) =>
          clk'[l] < ssoEnd + RevalidateInterval
                    + RevalidateFlightRetention + RevalidateSharedTimeout

Evidence == Placed /\ AllSound /\ Verdicts /\ Dated /\ AnswerFresh /\ Reached

(* A sound payload stays sound: flights are never renamed, and the SSO     *)
(* session ends no earlier than now.                                       *)
LEMMA SoundKept ==
    ASSUME Inv, Onward, NEW p \in Payload, Sound(p), now' \in Nat,
           \/ UNCHANGED <<sso, ssoEnd>>
           \/ sso /\ ssoEnd' = now
    PROVE  Sound(p)'
  <1>1. p.lv \in Int /\ p.from \subseteq Requests /\ now \in Nat /\ now <= now'
    BY DEF Payload, Inv, FlightInv, FlightsTyped, Onward
  <1>2. \A l \in p.from : pc'[l] # "idle" /\ key'[l] = key[l]
    BY <1>1 DEF Sound, Onward
  <1>3. p.lv > 0 /\ (RevalidateInterval > 0 => p.lv <= now')
    BY <1>1 DEF Sound
  <1>4. (IdPAnswers /\ ~sso' /\ RevalidateInterval > 0) =>
           p.lv < ssoEnd' + RevalidateFlightRetention + RevalidateSharedTimeout
    BY <1>1, RevalidationAssumption DEF Sound
  <1>5. QED
    BY <1>2, <1>3, <1>4 DEF Sound, IdPAnswers

(* A step that leaves every request alone or settled keeps the evidence.   *)
LEMMA Framed ==
    ASSUME Inv, Onward, now' = now, UNCHANGED <<sso, ssoEnd>>,
           \A l \in Requests : Untouched(l) \/ Settled(l),
           jar' \in Payload => Sound(jar')
    PROVE  Evidence'
  <1>1. now' \in Nat /\ home' = home
    BY DEF Inv, FlightInv, FlightsTyped, Onward
  <1>2. Placed'
    <2>1. ASSUME NEW l \in Requests
          PROVE  Place(l)'
      <3>1. CASE Settled(l)
        BY <3>1 DEF Settled
      <3>2. CASE Untouched(l)
        BY <1>1, <3>2 DEF Untouched, Inv, Placed, Place
      <3>3. QED
        BY <3>1, <3>2
    <2>2. QED
      BY <2>1 DEF Placed
  <1>3. AllSound'
    <2>1. ASSUME NEW l \in Requests, body'[l] \in Payload
          PROVE  Sound(body'[l])
      BY <2>1 DEF Untouched, Settled, Inv, AllSound
    <2>2. ASSUME NEW l \in Requests, setCookie'[l] \in Payload
          PROVE  Sound(setCookie'[l])
      BY <2>2 DEF Untouched, Settled, Inv, AllSound
    <2>3. ASSUME NEW p \in Payload, Sound(p)
          PROVE  Sound(p)'
      BY <1>1, <2>3, SoundKept
    <2>4. QED
      BY <2>1, <2>2, <2>3 DEF AllSound
  <1>4. Verdicts'
    BY DEF Untouched, Settled, Inv, Verdicts, IdPAnswers
  <1>5. Dated'
    BY DEF Untouched, Settled, Inv, Dated
  <1>6. AnswerFresh'
    BY DEF Untouched, Settled, Inv, AnswerFresh
  <1>7. Reached'
    BY DEF Untouched, Settled, Inv, Reached, SignOutReaches, IdPAnswers
  <1>8. QED
    BY <1>2, <1>3, <1>4, <1>5, <1>6, <1>7 DEF Evidence

(* Every step goes onward.                                                 *)
LEMMA OnwardStep ==
    ASSUME Inv, Next
    PROVE  Onward
  <1> USE DEF Onward
  <1>1. now \in Nat
    BY DEF Inv, FlightInv, FlightsTyped
  <1>2. ASSUME UNCHANGED flightVars, UNCHANGED home, UNCHANGED forgotten
        PROVE  Onward
    BY <1>1, <1>2 DEF flightVars
  <1>3. ASSUME NEW c \in Requests, NEW k, F!Enter(c, k), UNCHANGED home, UNCHANGED forgotten
        PROVE  Onward
    <2>1. /\ pc[c] = "idle" /\ now' = now
          /\ \A l \in Requests \ {c} : /\ key'[l] = key[l] /\ entered'[l] = entered[l]
                                       /\ joined'[l] = joined[l] /\ pc'[l] = pc[l]
          /\ UNCHANGED <<done, res, finished>>
      BY <1>3 DEF F!Enter, Inv, FlightInv, FlightsTyped
    <2>2. QED
      BY <1>1, <1>3, <2>1
  <1>4. ASSUME NEW c \in Requests, NEW r, F!Answer(c, r), UNCHANGED home, UNCHANGED forgotten
        PROVE  Onward
    <2>1. res[c] \notin Answer
      BY <1>4 DEF F!Answer, Inv, FlightInv, Given, Answering
    <2>2. QED
      BY <1>1, <1>4, <2>1 DEF F!Answer, Inv, FlightInv, FlightsTyped
  <1>5. ASSUME NEW c \in Requests, F!Panic(c), UNCHANGED home, UNCHANGED forgotten
        PROVE  Onward
    BY <1>1, <1>5 DEF F!Panic, Inv, FlightInv, FlightsTyped
  <1>6. ASSUME NEW c \in Requests, F!Publish(c), UNCHANGED home, UNCHANGED forgotten
        PROVE  Onward
    <2>1. ~done[c] /\ pc[c] \in {"answered", "panicked"}
      BY <1>6 DEF F!Publish, Inv, FlightInv, FlightsTyped, Leaders, Leading, Running
    <2>2. /\ \A l \in Requests \ {c} : pc'[l] = pc[l] /\ res'[l] = res[l] /\ done'[l] = done[l]
                                       /\ finished'[l] = finished[l]
          /\ pc'[c] \in {"returned", "unwound"} /\ (pc[c] = "panicked" => pc'[c] = "unwound")
          /\ pc[c] = "answered" => res'[c] = res[c]
          /\ UNCHANGED <<now, key, entered, joined>>
      BY <1>6 DEF F!Publish, F!Close, Inv, FlightInv, FlightsTyped
    <2>3. res[c] \in Answer => pc[c] = "answered"
      BY <2>1 DEF Inv, FlightInv, Given, Answering
    <2>4. QED
      BY <1>1, <1>6, <2>1, <2>2, <2>3
  <1>7. ASSUME NEW c \in Requests, F!Receive(c) \/ F!Cancel(c), UNCHANGED home,
               UNCHANGED forgotten
        PROVE  Onward
    BY <1>1, <1>7 DEF F!Receive, F!Cancel, Inv, FlightInv, FlightsTyped
  <1>8. ASSUME F!Tick, UNCHANGED home, UNCHANGED forgotten
        PROVE  Onward
    BY <1>1, <1>8 DEF F!Tick
  <1>9. ASSUME NEW n \in Replicas, Restart(n)
        PROVE  Onward
    <2>1. /\ forgotten = {} /\ UNCHANGED <<now, done, res, finished, key, entered, joined, home>>
          /\ \A c \in Requests : pc'[c] = pc[c] \/ (pc'[c] = "unwound" /\ pc[c] # "idle")
      BY <1>9 DEF Restart, F!Running
    <2>2. QED
      BY <1>1, <2>1
  <1> USE DEF requestVars
  <1>10. ASSUME NEW c \in Requests, UNCHANGED forgotten,
                Send(c) \/ ArriveAsIs(c) \/ ArriveBare(c) \/ UpdateSession(c)
                \/ AccessToken(c) \/ Respond(c) \/ Deliver(c)
         PROVE  Onward
    BY <1>2, <1>10 DEF Send, ArriveAsIs, ArriveBare, UpdateSession, AccessToken, Respond,
                       Deliver
  <1>11. ASSUME NEW c \in Requests, UNCHANGED forgotten, ArriveDue(c)
         PROVE  Onward
    BY <1>3, <1>11 DEF ArriveDue
  <1>12. ASSUME NEW c \in Requests, UNCHANGED forgotten,
                GrantOk(c) \/ GrantFailed(c) \/ Resolve(c) \/ Panic(c)
         PROVE  Onward
    BY <1>2, <1>4, <1>5, <1>12 DEF GrantOk, GrantFailed, Resolve, Panic
  <1>13. ASSUME NEW c \in Requests, UNCHANGED forgotten, Publish(c) \/ Receive(c) \/ Cancel(c)
         PROVE  Onward
    BY <1>6, <1>7, <1>13 DEF Publish, Receive, Cancel
  <1>14. ASSUME UNCHANGED forgotten, Tick \/ EndSSO
         PROVE  Onward
    BY <1>2, <1>8, <1>14 DEF Tick, EndSSO
  <1>15. QED
    BY <1>9, <1>10, <1>11, <1>12, <1>13, <1>14 DEF Next, Step

-----------------------------------------------------------------------------
(* The steps of a journey outside the flight group.                        *)

(* A step that does not touch the flight group keeps what it promises.     *)
LEMMA StutterFlight ==
    ASSUME FlightInv, UNCHANGED flightVars, UNCHANGED forgotten
    PROVE  FlightInv'
  <1>1. FlightsTyped'
    BY DEF FlightInv, FlightsTyped, flightVars
  <1>2. Leaders' /\ Given'
    BY DEF FlightInv, Leaders, Leading, Given, Answering, Led, flightVars
  <1>3. Registered' /\ Waiters' /\ Asked'
    BY DEF FlightInv, Registered, Waiters, Asked, Followed, Led, flightVars
  <1>4. QED
    BY <1>1, <1>2, <1>3 DEF FlightInv

(* Outside the flight group a step of c settles c when it leaves c in its  *)
(* place, with sound payloads, and does not serve it too late.             *)
LEMMA SettledQuietly ==
    ASSUME Inv, NEW c \in Requests, UNCHANGED flightVars, UNCHANGED got,
           clk'[c] = clk[c] \/ pc[c] = "idle",
           Place(c)',
           body'[c] \in Payload => Sound(body'[c]),
           setCookie'[c] \in Payload => Sound(setCookie'[c]),
           (IdPAnswers /\ step'[c] = "serving" /\ ~sso /\ RevalidateInterval > 0) =>
              clk'[c] < ssoEnd + RevalidateInterval
                        + RevalidateFlightRetention + RevalidateSharedTimeout
    PROVE  Settled(c)
  <1>1. IdPAnswers => /\ res'[c] # Abandoned /\ pc'[c] # "panicked"
                      /\ res'[c] \in Answer => res'[c].verdict # "error"
    BY DEF Inv, Verdicts, flightVars
  <1>2. ~sso => /\ got'[c] # NoAnswer => got'[c].at <= ssoEnd
                /\ (res'[c] \in Answer /\ key'[c][2] = "grant" /\ res'[c].verdict = "ok") =>
                      res'[c].at <= ssoEnd
    BY DEF Inv, Dated, flightVars
  <1>3. (ret'[c] # NoAnswer /\ ret'[c] # Abandoned) =>
           clk'[c] < ret'[c].at + RevalidateFlightRetention + RevalidateSharedTimeout
    BY DEF Inv, AnswerFresh, FlightInv, Given, Answering, flightVars
  <1>4. QED
    BY <1>1, <1>2, <1>3 DEF Settled

(* The browser sends a request.                                            *)
LEMMA SendStep ==
    ASSUME Inv, Onward, NEW c \in Requests, Send(c), UNCHANGED forgotten
    PROVE  FlightInv' /\ JourneyTyped' /\ Evidence'
  <1> USE DEF Send
  <1>1. FlightInv'
    BY StutterFlight DEF Inv
  <1>2. JourneyTyped'
    BY DEF Inv, JourneyTyped, Steps, idpVars
  <1>3. /\ body'[c] = jar /\ step'[c] = "sent" /\ jar \in Payload /\ pc[c] = "idle"
        /\ clk[c] = 0
    BY DEF Inv, JourneyTyped, Placed, Place
  <1>4. Place(c)'
    BY <1>3 DEF Inv, Placed, Place, flightVars, Running
  <1>5. Settled(c)
    BY <1>3, <1>4, SettledQuietly DEF Inv, AllSound
  <1>6. \A l \in Requests \ {c} : Untouched(l)
    BY DEF Untouched, flightVars, Inv, JourneyTyped
  <1>7. Evidence'
    BY <1>5, <1>6, Framed DEF flightVars, idpVars, Inv, AllSound
  <1>8. QED
    BY <1>1, <1>2, <1>7

(* The response to c is on its way or its handler runs, with a sound       *)
(* payload.                                                                *)
LEMMA ServedQuietly ==
    ASSUME Inv, Onward, NEW c \in Requests, UNCHANGED forgotten,
           step[c] = "sent", clk'[c] \in {clk[c], now}, Served(c, NoSession, Keep) \/ Served(c, body[c], Keep),
           \A l \in Requests \ {c} : clk'[l] = clk[l],
           clk' = [l \in Requests |-> clk'[l]],
           UNCHANGED <<flightVars, idpVars, jar, home, got>>,
           (IdPAnswers /\ step'[c] = "serving" /\ ~sso /\ RevalidateInterval > 0) =>
              clk'[c] < ssoEnd + RevalidateInterval
                        + RevalidateFlightRetention + RevalidateSharedTimeout
    PROVE  FlightInv' /\ JourneyTyped' /\ Evidence'
  <1>1. FlightInv'
    BY StutterFlight DEF Inv
  <1>2. /\ pc[c] = "idle" /\ clk[c] = 0 /\ body[c] \in Payload /\ now \in Nat
        /\ got[c] = NoAnswer
    BY DEF Inv, Placed, Place, FlightInv, FlightsTyped
  <1>3. /\ clk' \in [Requests -> Nat] /\ clk'[c] <= now
    BY <1>2 DEF Inv, JourneyTyped
  <1>4. /\ body'[c] \in {NoSession, body[c]} /\ setCookie'[c] = Keep
        /\ step'[c] = IF body'[c] = NoSession THEN "responded" ELSE "serving"
        /\ \A l \in Requests \ {c} : /\ body'[l] = body[l] /\ setCookie'[l] = setCookie[l]
                                     /\ step'[l] = step[l]
    BY DEF Served, Inv, JourneyTyped
  <1>5. JourneyTyped'
    BY <1>2, <1>3 DEF Served, Inv, JourneyTyped, Steps, idpVars
  <1>6. Place(c)'
    BY <1>2, <1>3, <1>4 DEF Inv, Placed, Place, flightVars, Running
  <1>7. Settled(c)
    BY <1>2, <1>4, <1>6, SettledQuietly, ValuesAssumption DEF Inv, AllSound
  <1>8. \A l \in Requests \ {c} : Untouched(l)
    BY <1>4 DEF Untouched, flightVars
  <1>9. Evidence'
    BY <1>7, <1>8, Framed DEF flightVars, idpVars, Inv, AllSound
  <1>10. QED
    BY <1>1, <1>5, <1>9

(* A request that asks nobody: nothing is due, its cookie has expired, or  *)
(* its route has no middleware.                                            *)
LEMMA ArriveStep ==
    ASSUME Inv, Onward, NEW c \in Requests, ArriveAsIs(c) \/ ArriveBare(c), UNCHANGED forgotten
    PROVE  FlightInv' /\ JourneyTyped' /\ Evidence'
  <1>1. /\ body[c] \in Payload /\ Sound(body[c]) /\ clk[c] = 0 /\ now \in Nat
        /\ body[c].lv \in Int /\ ssoEnd \in Nat /\ RevalidateInterval \in Nat
    BY ConfigAssumption DEF ArriveAsIs, ArriveBare, Inv, Placed, Place, FlightInv,
       FlightsTyped, AllSound, Payload, JourneyTyped
  <1>2. CASE ArriveAsIs(c)
    <2>1. /\ clk'[c] = now /\ \A l \in Requests \ {c} : clk'[l] = clk[l]
          /\ clk' = [l \in Requests |-> clk'[l]]
      BY <1>2 DEF ArriveAsIs, Inv, JourneyTyped
    <2>2. Served(c, NoSession, Keep) \/ (Served(c, body[c], Keep) /\ ~FloorDue(body[c], now))
      <3>1. body[c].rt # NoToken
        BY <1>1, RevalidationAssumption DEF Payload, Tokens
      <3>2. QED
        BY <1>2, <3>1 DEF ArriveAsIs
    <2>3. step'[c] = "serving" => ~FloorDue(body[c], now)
      BY <2>2 DEF Served, Inv, JourneyTyped
    <2>4. (IdPAnswers /\ step'[c] = "serving" /\ ~sso /\ RevalidateInterval > 0) =>
              clk'[c] < ssoEnd + RevalidateInterval
                        + RevalidateFlightRetention + RevalidateSharedTimeout
      BY <1>1, <2>1, <2>3, RevalidationAssumption DEF Sound, FloorDue, ValidationAnchor
    <2>5. step[c] = "sent" /\ UNCHANGED <<flightVars, idpVars, jar, home, got>>
      BY <1>2 DEF ArriveAsIs
    <2>6. QED
      BY <2>1, <2>2, <2>4, <2>5, ServedQuietly
  <1>3. CASE ArriveBare(c)
    <2>1. /\ step[c] = "sent" /\ UNCHANGED <<flightVars, idpVars, jar, home, got, clk>>
          /\ Served(c, body[c], Keep)
      BY <1>3 DEF ArriveBare
    <2>2. \A l \in Requests : clk'[l] = clk[l]
      BY <2>1
    <2>3. clk' = [l \in Requests |-> clk'[l]]
      BY <2>1 DEF Inv, JourneyTyped
    <2>4. RevalidateInterval > 0 =>
              clk'[c] < ssoEnd + RevalidateInterval
                        + RevalidateFlightRetention + RevalidateSharedTimeout
      BY <1>1, <2>2, RevalidationAssumption
    <2>5. QED
      BY <2>1, <2>2, <2>3, <2>4, ServedQuietly
  <1>4. QED
    BY <1>2, <1>3

(* The application's handler writes the session back.                      *)
LEMMA UpdateStep ==
    ASSUME Inv, Onward, NEW c \in Requests, UpdateSession(c), UNCHANGED forgotten
    PROVE  FlightInv' /\ JourneyTyped' /\ Evidence'
  <1> USE DEF UpdateSession
  <1>1. FlightInv'
    BY StutterFlight DEF Inv
  <1>2. body[c] \in Payload /\ setCookie'[c] = body[c]
    BY DEF Inv, JourneyTyped, Placed, Place
  <1>3. JourneyTyped'
    BY <1>2 DEF Inv, JourneyTyped, idpVars
  <1>4. Place(c)'
    BY DEF Inv, Placed, Place, flightVars
  <1>5. Settled(c)
    BY <1>2, <1>4, SettledQuietly DEF Inv, AllSound, Reached, SignOutReaches
  <1>6. \A l \in Requests \ {c} : Untouched(l)
    BY DEF Untouched, flightVars, Inv, JourneyTyped
  <1>7. Evidence'
    BY <1>5, <1>6, Framed DEF flightVars, idpVars, Inv, AllSound
  <1>8. QED
    BY <1>1, <1>3, <1>7

(* The response leaves, and reaches the browser.                           *)
LEMMA ResponseStep ==
    ASSUME Inv, Onward, NEW c \in Requests, Respond(c) \/ Deliver(c), UNCHANGED forgotten
    PROVE  FlightInv' /\ JourneyTyped' /\ Evidence'
  <1> USE DEF Respond, Deliver
  <1>1. FlightInv'
    BY StutterFlight DEF Inv
  <1>2. JourneyTyped'
    BY DEF Inv, JourneyTyped, Steps, idpVars
  <1>3. /\ step[c] \in {"serving", "responded"} /\ step'[c] \in {"responded", "delivered"}
        /\ body'[c] \in {body[c], NoSession} /\ setCookie'[c] \in {setCookie[c], Keep}
        /\ jar' \in {jar, setCookie[c]}
        /\ UNCHANGED <<flightVars, got, clk, sso, ssoEnd>>
    BY DEF Inv, JourneyTyped, idpVars
  <1>4. Place(c)'
    BY <1>3 DEF Inv, Placed, Place, flightVars, Running
  <1>5. Settled(c)
    BY <1>3, <1>4, SettledQuietly, ValuesAssumption DEF Inv, AllSound
  <1>6. \A l \in Requests \ {c} : Untouched(l)
    BY DEF Untouched, flightVars, Inv, JourneyTyped
  <1>7. jar' \in Payload => Sound(jar')
    BY <1>3 DEF Inv, AllSound
  <1>8. Evidence'
    BY <1>3, <1>5, <1>6, <1>7, Framed DEF flightVars
  <1>9. QED
    BY <1>1, <1>2, <1>8

-----------------------------------------------------------------------------
(* The steps through the flight group.                                     *)

(* A revalidation is due: the request takes the lock with its question.    *)
LEMMA ArriveDueStep ==
    ASSUME Inv, Onward, NEW c \in Requests, ArriveDue(c), UNCHANGED forgotten
    PROVE  FlightInv' /\ JourneyTyped' /\ Evidence'
  <1>1. PICK kind \in {"grant", "resolve"} :
           /\ step' = [step EXCEPT ![c] = kind]
           /\ F!Enter(c, FlightKey(home[c], kind, body[c]))
           /\ kind = "grant" => FloorDue(body[c], now)
           /\ kind = "resolve" => ReresolveOnRevalidate /\ ~FloorDue(body[c], now)
    BY DEF ArriveDue, ResolveRetryDue
  <1>2. /\ step[c] = "sent" /\ clk' = [clk EXCEPT ![c] = now]
        /\ UNCHANGED <<idpVars, jar, since, body, setCookie, home, got>>
    BY DEF ArriveDue
  <1>3. FlightInv'
    BY <1>1, EnterFlight DEF Inv
  <1>4. JourneyTyped'
    BY <1>1, <1>2 DEF Inv, JourneyTyped, FlightInv, FlightsTyped, Steps, idpVars
  <1>5. /\ pc[c] = "idle" /\ now' = now /\ pc'[c] \in {"waiting", "leading"}
        /\ key'[c] = FlightKey(home[c], kind, body[c]) /\ entered'[c] = now
        /\ UNCHANGED <<res, ret>>
        /\ \A l \in Requests \ {c} : /\ key'[l] = key[l] /\ entered'[l] = entered[l]
                                     /\ pc'[l] = pc[l]
    BY <1>1 DEF F!Enter, Inv, FlightInv, FlightsTyped
  <1>6. /\ step'[c] = kind /\ clk'[c] = now
        /\ \A l \in Requests \ {c} : step'[l] = step[l] /\ clk'[l] = clk[l]
    BY <1>1, <1>2 DEF Inv, JourneyTyped
  <1>7. body[c] \in Payload /\ got[c] = NoAnswer /\ now \in Nat /\ now >= Start
    BY <1>2, <1>5 DEF Inv, Placed, Place, FlightInv, FlightsTyped
  <1>8. res[c] = NoAnswer /\ ret[c] = NoAnswer
    BY <1>5 DEF Inv, FlightInv, FlightsTyped, Given, Answering, Led, Results
  <1>9. Place(c)'
    BY <1>1, <1>2, <1>5, <1>6, <1>7 DEF Place, Running
  <1>10. Settled(c)
    BY <1>2, <1>5, <1>6, <1>7, <1>8, <1>9, ValuesAssumption DEF Settled, Inv, AllSound
  <1>11. \A l \in Requests \ {c} : Untouched(l)
    BY <1>2, <1>5, <1>6 DEF Untouched
  <1>12. Evidence'
    BY <1>2, <1>5, <1>10, <1>11, Framed DEF idpVars, Inv, AllSound
  <1>13. QED
    BY <1>3, <1>4, <1>12

(* fn returns an answer of its own time; a grant it reports was honoured   *)
(* while the SSO session existed, and an error only where the IdP may fail *)
(* to answer.                                                              *)
LEMMA AnswerStep ==
    ASSUME Inv, Onward, NEW c \in Requests, NEW r \in Answer, UNCHANGED forgotten,
           F!Answer(c, r), entered[c] <= r.at, r.at <= now,
           IdPAnswers => r.verdict # "error",
           (~sso /\ key[c][2] = "grant" /\ r.verdict = "ok") => r.at <= ssoEnd,
           got'[c] \in {got[c], NoAnswer},
           \A l \in Requests \ {c} : got'[l] = got[l],
           UNCHANGED <<step, clk, body, setCookie, home, jar, sso, ssoEnd>>
    PROVE  FlightInv' /\ Evidence'
  <1>1. FlightInv'
    BY AnswerFlight DEF Inv
  <1>2. /\ pc[c] = "leading" /\ pc'[c] = "answered" /\ res'[c] = r
        /\ UNCHANGED <<now, key, entered, ret>>
        /\ \A l \in Requests \ {c} : pc'[l] = pc[l] /\ res'[l] = res[l]
    BY DEF F!Answer, Inv, FlightInv, FlightsTyped
  <1>3. ret[c] = NoAnswer
    BY <1>2 DEF Inv, FlightInv, Given, Answering
  <1>4. Place(c)'
    BY <1>2 DEF Inv, Placed, Place, Running
  <1>5. step[c] \in {"grant", "resolve"}
    BY <1>2 DEF Inv, Placed, Place, Running
  <1>6. r # Abandoned
    BY ValuesAssumption
  <1>7. (~sso /\ got'[c] # NoAnswer) => got'[c].at <= ssoEnd
    BY DEF Inv, Dated
  <1>8. Settled(c)
    BY <1>2, <1>3, <1>4, <1>5, <1>6, <1>7 DEF Settled, Inv, AllSound
  <1>9. \A l \in Requests \ {c} : Untouched(l)
    BY <1>2 DEF Untouched
  <1>10. Evidence'
    BY <1>2, <1>8, <1>9, Framed DEF Inv, AllSound
  <1>11. QED
    BY <1>1, <1>10

(* What a leader's place says about its run.                               *)
LEMMA LeaderFacts ==
    ASSUME Inv, NEW c \in Requests, pc[c] = "leading"
    PROVE  /\ now \in Nat /\ entered[c] \in Nat /\ entered[c] <= now
           /\ step[c] \in {"grant", "resolve"} /\ key[c][2] = step[c]
           /\ body[c] \in Payload /\ body[c].rt \in Tokens /\ joined[c] = c
           /\ key[c] = FlightKey(home[c], step[c], body[c])
  <1>1. step[c] \in {"grant", "resolve"} /\ joined[c] = c
    BY DEF Inv, Placed, Place, FlightInv, Leaders, Leading, Running
  <1>2. /\ key[c] = FlightKey(home[c], step[c], body[c]) /\ body[c] \in Payload
    BY <1>1 DEF Inv, Placed, Place
  <1>3. now \in Nat /\ entered[c] \in Nat /\ entered[c] <= now
    BY DEF Inv, FlightInv, FlightsTyped, Leaders, Leading
  <1>4. key[c][2] = step[c]
    BY <1>2, KeyFacts
  <1>5. body[c].rt \in Tokens
    BY <1>2 DEF Payload
  <1>6. QED
    BY <1>1, <1>2, <1>3, <1>4, <1>5

(* A grant keeps the IdP's books in order.                                 *)
LEMMA SpendTyped ==
    ASSUME JourneyTyped, NEW c \in Requests, NEW t \in Tokens, NEW via \in {"grant", "access"},
           Spend(c, t, via)
    PROVE  /\ cur' \in Tokens /\ spentBy' \in [Tokens -> SUBSET Spenders] /\ sso
           /\ UNCHANGED <<sso, ssoEnd, wronged>>
  <1>1. sso /\ UNCHANGED <<sso, ssoEnd, wronged>>
    BY DEF Spend, Honoured
  <1>2. [by |-> c, via |-> via] \in Spenders
    BY DEF Spenders
  <1>3. cur \in 0 .. MaxToken /\ MaxToken \in Nat
    BY RevalidationAssumption DEF JourneyTyped, Tokens
  <1>4. cur' = cur \/ (cur < MaxToken /\ cur' = cur + 1)
    BY DEF Spend
  <1>5. cur' \in Tokens
    BY <1>3, <1>4 DEF Tokens
  <1>6. \/ spentBy' = spentBy
        \/ spentBy' = [spentBy EXCEPT ![t] = {[by |-> c, via |-> via]}]
    BY DEF Spend
  <1>7. {[by |-> c, via |-> via]} \in SUBSET Spenders
    BY <1>2
  <1>8. spentBy' \in [Tokens -> SUBSET Spenders]
    BY <1>6, <1>7 DEF JourneyTyped
  <1>9. QED
    BY <1>1, <1>5, <1>8

(* forcedRefresh succeeds.                                                 *)
LEMMA GrantOkStep ==
    ASSUME Inv, Onward, NEW c \in Requests, GrantOk(c), UNCHANGED forgotten
    PROVE  FlightInv' /\ JourneyTyped' /\ Evidence'
  <1>1. /\ step[c] = "grant" /\ pc[c] = "leading" /\ got[c] = NoAnswer
        /\ Spend(c, body[c].rt, "grant")
        /\ \/ ReresolveOnRevalidate /\ got' = [got EXCEPT ![c] = Granted(c)] /\ UNCHANGED flightVars
           \/ F!Answer(c, Granted(c)) /\ UNCHANGED got
        /\ UNCHANGED <<jar, step, since, clk, body, setCookie, home>>
    BY DEF GrantOk
  <1>2. /\ now \in Nat /\ entered[c] \in Nat /\ entered[c] <= now /\ key[c][2] = "grant"
        /\ body[c].rt \in Tokens
    BY <1>1, LeaderFacts
  <1>3. /\ cur' \in Tokens /\ spentBy' \in [Tokens -> SUBSET Spenders] /\ sso
        /\ UNCHANGED <<sso, ssoEnd, wronged>>
    BY <1>1, <1>2, SpendTyped DEF Inv
  <1>4. /\ Granted(c) \in Answer /\ Granted(c).verdict = "ok" /\ Granted(c).at = now
    BY <1>2, <1>3 DEF Granted, Answer
  <1> HIDE DEF Granted
  <1>5. JourneyTyped'
    BY <1>1, <1>3, <1>4 DEF Inv, JourneyTyped
  <1>6. CASE F!Answer(c, Granted(c)) /\ UNCHANGED got
    <2>1. FlightInv' /\ Evidence'
      BY <1>1, <1>2, <1>3, <1>4, <1>6, AnswerStep
    <2>2. QED
      BY <1>5, <2>1
  <1>7. CASE got' = [got EXCEPT ![c] = Granted(c)] /\ UNCHANGED flightVars
    <2>1. FlightInv'
      BY <1>7, StutterFlight DEF Inv
    <2>2. got'[c] = Granted(c) /\ \A l \in Requests \ {c} : got'[l] = got[l]
      BY <1>7 DEF Inv, JourneyTyped
    <2>3. Place(c)'
      BY <1>1, <1>2, <1>4, <1>7, <2>2 DEF Inv, Placed, Place, flightVars
    <2>4. Settled(c)
      BY <1>1, <1>3, <1>7, <2>3 DEF Settled, Inv, AllSound, Verdicts, AnswerFresh, flightVars
    <2>5. \A l \in Requests \ {c} : Untouched(l)
      BY <1>1, <1>7, <2>2 DEF Untouched, flightVars
    <2>6. Evidence'
      BY <1>1, <1>3, <1>7, <2>4, <2>5, Framed DEF flightVars, Inv, AllSound
    <2>7. QED
      BY <1>5, <2>1, <2>6
  <1>8. QED
    BY <1>1, <1>6, <1>7

(* forcedRefresh fails.                                                    *)
LEMMA GrantFailedStep ==
    ASSUME Inv, Onward, NEW c \in Requests, GrantFailed(c), UNCHANGED forgotten
    PROVE  FlightInv' /\ JourneyTyped' /\ Evidence'
  <1>1. /\ step[c] = "grant" /\ pc[c] = "leading" /\ got[c] = NoAnswer
        /\ UNCHANGED <<jar, requestVars>>
    BY DEF GrantFailed
  <1>2. PICK verdict \in {"invalid", "error"} :
           /\ \/ verdict = "invalid" /\ Refuse(c, body[c].rt)
              \/ verdict = "error" /\ "outage" \in Faults /\ UNCHANGED idpVars
              \/ verdict = "error" /\ "lost" \in Faults /\ Spend(c, body[c].rt, "grant")
           /\ F!Answer(c, [verdict |-> verdict, rt |-> NoToken, at |-> now, outcome |-> "none"])
    BY DEF GrantFailed
  <1>3. /\ now \in Nat /\ entered[c] \in Nat /\ entered[c] <= now /\ key[c][2] = "grant"
        /\ body[c].rt \in Tokens
    BY <1>1, LeaderFacts
  <1> DEFINE r == [verdict |-> verdict, rt |-> NoToken, at |-> now, outcome |-> "none"]
  <1>4. r \in Answer /\ r.at = now /\ r.verdict = verdict
    BY <1>3 DEF Answer
  <1>5. /\ cur' \in Tokens /\ spentBy' \in [Tokens -> SUBSET Spenders]
        /\ wronged' \subseteq Requests \X Spenders
        /\ UNCHANGED <<sso, ssoEnd>>
    <2>1. CASE Refuse(c, body[c].rt)
      <3>1. UNCHANGED <<cur, sso, ssoEnd, spentBy>>
        BY <2>1 DEF Refuse
      <3>2. spentBy[body[c].rt] \subseteq Spenders
        BY <1>3 DEF Inv, JourneyTyped
      <3>3. wronged' = wronged \/ wronged' = wronged \cup ({c} \X spentBy[body[c].rt])
        BY <2>1 DEF Refuse
      <3>4. wronged' \subseteq Requests \X Spenders
        BY <3>2, <3>3 DEF Inv, JourneyTyped
      <3>5. QED
        BY <3>1, <3>4 DEF Inv, JourneyTyped
    <2>2. CASE UNCHANGED idpVars
      BY <2>2 DEF idpVars, Inv, JourneyTyped
    <2>3. CASE Spend(c, body[c].rt, "grant")
      <3>1. /\ cur' \in Tokens /\ spentBy' \in [Tokens -> SUBSET Spenders]
            /\ UNCHANGED <<sso, ssoEnd, wronged>>
        BY <1>3, <2>3, SpendTyped DEF Inv
      <3>2. QED
        BY <3>1 DEF Inv, JourneyTyped
    <2>4. QED
      BY <1>2, <2>1, <2>2, <2>3
  <1>6. JourneyTyped'
    BY <1>1, <1>5 DEF Inv, JourneyTyped, requestVars
  <1>7. IdPAnswers => verdict # "error"
    BY <1>2 DEF IdPAnswers
  <1>8. verdict # "ok" /\ F!Answer(c, r)
    BY <1>2
  <1> HIDE DEF r
  <1>9. FlightInv' /\ Evidence'
    BY <1>1, <1>3, <1>4, <1>5, <1>7, <1>8, AnswerStep DEF requestVars
  <1>10. QED
    BY <1>6, <1>9

(* reresolve returns.                                                      *)
LEMMA ResolveStep ==
    ASSUME Inv, Onward, NEW c \in Requests, Resolve(c), UNCHANGED forgotten
    PROVE  FlightInv' /\ JourneyTyped' /\ Evidence'
  <1>1. /\ pc[c] = "leading" /\ (step[c] = "resolve" \/ got[c] # NoAnswer)
        /\ got' = [got EXCEPT ![c] = NoAnswer]
        /\ UNCHANGED <<idpVars, jar, step, since, clk, body, setCookie, home>>
    BY DEF Resolve
  <1>2. PICK outcome \in {"applied", "soft", "ended"} :
           F!Answer(c, IF step[c] = "resolve"
                       THEN [verdict |-> "ok", rt |-> NoToken, at |-> now, outcome |-> outcome]
                       ELSE [got[c] EXCEPT !.outcome = outcome])
    BY DEF Resolve
  <1>3. /\ now \in Nat /\ entered[c] \in Nat /\ entered[c] <= now /\ key[c][2] = step[c]
    BY <1>1, LeaderFacts
  <1>4. JourneyTyped'
    BY <1>1 DEF Inv, JourneyTyped, idpVars
  <1>5. PICK r \in Answer :
           /\ F!Answer(c, r) /\ entered[c] <= r.at /\ r.at <= now /\ r.verdict = "ok"
           /\ (~sso /\ key[c][2] = "grant") => r.at <= ssoEnd
    <2>1. CASE step[c] = "resolve"
      <3> DEFINE r == [verdict |-> "ok", rt |-> NoToken, at |-> now, outcome |-> outcome]
      <3>1. r \in Answer /\ r.at = now /\ r.verdict = "ok"
        BY <1>3 DEF Answer
      <3>2. F!Answer(c, r)
        BY <1>2, <2>1
      <3> HIDE DEF r
      <3>3. QED
        BY <1>3, <2>1, <3>1, <3>2
    <2>2. CASE step[c] # "resolve"
      <3> DEFINE r == [got[c] EXCEPT !.outcome = outcome]
      <3>1. /\ got[c] \in Answer /\ got[c] # NoAnswer
        BY <1>1, <2>2 DEF Inv, JourneyTyped
      <3>2. r \in Answer /\ r.at = got[c].at /\ r.verdict = got[c].verdict
        BY <3>1 DEF Answer
      <3>3. F!Answer(c, r)
        BY <1>2, <2>2
      <3>4. got[c].verdict = "ok" /\ entered[c] <= got[c].at /\ got[c].at <= now
        BY <3>1 DEF Inv, Placed, Place
      <3>5. ~sso => got[c].at <= ssoEnd
        BY <3>1 DEF Inv, Dated
      <3> HIDE DEF r
      <3>6. QED
        BY <3>2, <3>3, <3>4, <3>5
    <2>3. QED
      BY <2>1, <2>2
  <1>6. got'[c] = NoAnswer /\ \A l \in Requests \ {c} : got'[l] = got[l]
    BY <1>1 DEF Inv, JourneyTyped
  <1>7. UNCHANGED <<step, clk, body, setCookie, home, jar, sso, ssoEnd>>
    BY <1>1 DEF idpVars
  <1>8. FlightInv' /\ Evidence'
    BY <1>5, <1>6, <1>7, AnswerStep
  <1>9. QED
    BY <1>4, <1>8

(* fn panics.                                                              *)
LEMMA PanicStep ==
    ASSUME Inv, Onward, NEW c \in Requests, Panic(c), UNCHANGED forgotten
    PROVE  FlightInv' /\ JourneyTyped' /\ Evidence'
  <1>1. /\ "panic" \in Faults /\ F!Panic(c) /\ UNCHANGED <<idpVars, jar, requestVars>>
    BY DEF Panic
  <1>2. FlightInv'
    BY <1>1, PanicFlight DEF Inv
  <1>3. JourneyTyped'
    BY <1>1 DEF Inv, JourneyTyped, idpVars, requestVars
  <1>4. /\ pc[c] = "leading" /\ pc'[c] = "panicked" /\ UNCHANGED <<now, res, key, entered, ret>>
        /\ \A l \in Requests \ {c} : pc'[l] = pc[l]
    BY <1>1 DEF F!Panic, Inv, FlightInv, FlightsTyped
  <1>5. ~IdPAnswers
    BY <1>1 DEF IdPAnswers
  <1>6. Place(c)'
    BY <1>1, <1>4 DEF Inv, Placed, Place, Running, requestVars
  <1>7. Settled(c)
    BY <1>1, <1>4, <1>5, <1>6 DEF Settled, Inv, AllSound, Dated, AnswerFresh, requestVars
  <1>8. \A l \in Requests \ {c} : Untouched(l)
    BY <1>1, <1>4 DEF Untouched, requestVars
  <1>9. Evidence'
    BY <1>1, <1>4, <1>7, <1>8, Framed DEF idpVars, Inv, AllSound
  <1>10. QED
    BY <1>2, <1>3, <1>9

(* A request leaves do and is served, refused or failed.                   *)
LEMMA LeaveStep ==
    ASSUME Inv, Onward, NEW c \in Requests, Publish(c) \/ Receive(c) \/ Cancel(c),
           UNCHANGED forgotten
    PROVE  FlightInv' /\ JourneyTyped' /\ Evidence'
  <1>1. Leaves(c) /\ step[c] \in {"grant", "resolve"}
    BY PublishLeaves
  <1>2. UNCHANGED <<idpVars, jar, clk, home, got>>
    BY DEF Publish, Receive, Cancel
  <1>3. FlightInv'
    BY PublishFlight, ReceiveFlight DEF Inv, Publish, Receive, Cancel
  <1>4. PICK p \in Payload \cup {NoSession}, k \in Payload \cup {NoSession, Keep} :
           /\ Served(c, p, k) /\ k \in {p, NoSession, Keep}
           /\ p \in Payload => Sound(p)
           /\ (p \in Payload /\ IdPAnswers /\ ~sso) =>
                 clk[c] < ssoEnd + RevalidateInterval
                          + RevalidateFlightRetention + RevalidateSharedTimeout
    BY <1>1, ValuesAssumption DEF Leaves
  <1>5. /\ body'[c] = p /\ setCookie'[c] = k
        /\ step'[c] = IF p = NoSession THEN "responded" ELSE "serving"
        /\ \A l \in Requests \ {c} : /\ body'[l] = body[l] /\ setCookie'[l] = setCookie[l]
                                     /\ step'[l] = step[l]
    BY <1>4 DEF Served, Inv, JourneyTyped
  <1>6. JourneyTyped'
    BY <1>2, <1>4 DEF Served, Inv, JourneyTyped, Steps, idpVars
  <1>7. /\ pc[c] \in {"answered", "panicked", "waiting"} /\ pc'[c] \in {"returned", "unwound"}
        /\ UNCHANGED <<now, key, entered>>
        /\ \A l \in Requests \ {c} : pc'[l] = pc[l] /\ res'[l] = res[l] /\ ret'[l] = ret[l]
        /\ res'[c] = res[c] \/ (pc[c] = "panicked" /\ res'[c] = Abandoned)
        /\ \/ ret'[c] = ret[c] \/ ret'[c] = Abandoned
           \/ pc[c] = "answered" /\ ret'[c] = res[c]
           \/ pc[c] = "waiting" /\ done[joined[c]] /\ ret'[c] = res[joined[c]]
    BY DEF Publish, Receive, Cancel, F!Publish, F!Receive, F!Cancel, Inv, FlightInv, FlightsTyped
  <1>8. Place(c)'
    BY <1>2, <1>4, <1>5, <1>7 DEF Inv, Placed, Place, Running
  <1>9. IdPAnswers => /\ res'[c] # Abandoned /\ pc'[c] # "panicked"
                      /\ res'[c] \in Answer => res'[c].verdict # "error"
    BY <1>7 DEF Inv, Verdicts
  <1>10. ~sso => /\ got'[c] # NoAnswer => got'[c].at <= ssoEnd
                 /\ (res'[c] \in Answer /\ key'[c][2] = "grant" /\ res'[c].verdict = "ok") =>
                       res'[c].at <= ssoEnd
    BY <1>2, <1>7, ValuesAssumption DEF Inv, Dated
  <1>11. (ret'[c] # NoAnswer /\ ret'[c] # Abandoned) =>
            clk'[c] < ret'[c].at + RevalidateFlightRetention + RevalidateSharedTimeout
    <2>1. ret[c] = NoAnswer
      BY <1>7 DEF Inv, FlightInv, Given, Answering
    <2>2. pc[c] = "answered" => joined[c] = c
      BY DEF Inv, FlightInv, Leaders, Leading, Running
    <2>3. joined[c] \in Requests /\ res[joined[c]] \in Results
      BY DEF Inv, FlightInv, FlightsTyped
    <2>4. QED
      BY <1>2, <1>7, <2>1, <2>2, <2>3, AnswerAge DEF Results
  <1>12. Settled(c)
    BY <1>2, <1>4, <1>5, <1>8, <1>9, <1>10, <1>11, ValuesAssumption DEF Settled
  <1>13. \A l \in Requests \ {c} : Untouched(l)
    BY <1>2, <1>5, <1>7 DEF Untouched
  <1>14. Evidence'
    BY <1>2, <1>7, <1>12, <1>13, Framed DEF idpVars, Inv, AllSound
  <1>15. QED
    BY <1>3, <1>6, <1>14

(* The handler asks for an access token.                                   *)
LEMMA AccessTokenStep ==
    ASSUME Inv, Onward, NEW c \in Requests, AccessToken(c), UNCHANGED forgotten
    PROVE  FlightInv' /\ JourneyTyped' /\ Evidence'
  <1>1. /\ step[c] = "serving" /\ UNCHANGED <<flightVars, jar, step, since, clk, home, got>>
        /\ \/ /\ Spend(c, body[c].rt, "access")
              /\ body' = [body EXCEPT ![c] = AccessTokenStored(body[c], cur')]
              /\ setCookie' = [setCookie EXCEPT ![c] = body'[c]]
           \/ UNCHANGED <<idpVars, body, setCookie>>
    BY DEF AccessToken
  <1>2. body[c] \in Payload /\ Sound(body[c]) /\ body[c].rt \in Tokens
    BY <1>1 DEF Inv, Placed, Place, AllSound, Payload
  <1>3. FlightInv'
    BY <1>1, StutterFlight DEF Inv
  <1>4. /\ cur' \in Tokens /\ spentBy' \in [Tokens -> SUBSET Spenders]
        /\ UNCHANGED <<sso, ssoEnd, wronged>>
    BY <1>1, <1>2, SpendTyped DEF Inv, JourneyTyped, idpVars
  <1>5. PICK s \in Payload, k \in Payload \cup {NoSession, Keep} :
           /\ s.lv = body[c].lv /\ s.from = body[c].from
           /\ body' = [body EXCEPT ![c] = s] /\ setCookie' = [setCookie EXCEPT ![c] = k]
           /\ k \in {s, setCookie[c]}
    <2>1. CASE UNCHANGED <<idpVars, body, setCookie>>
      <3>1. setCookie[c] \in Payload \cup {NoSession, Keep}
        BY DEF Inv, JourneyTyped
      <3>2. body' = [body EXCEPT ![c] = body[c]]
            /\ setCookie' = [setCookie EXCEPT ![c] = setCookie[c]]
        BY <2>1 DEF Inv, JourneyTyped
      <3>3. QED
        BY <1>2, <3>1, <3>2
    <2>2. CASE /\ body' = [body EXCEPT ![c] = AccessTokenStored(body[c], cur')]
               /\ setCookie' = [setCookie EXCEPT ![c] = body'[c]]
      <3> DEFINE s == AccessTokenStored(body[c], cur')
      <3>1. s \in Payload /\ s.lv = body[c].lv /\ s.from = body[c].from
        <4>1. 0 \in Nat
          OBVIOUS
        <4>2. QED
          BY <1>2, <1>4, <4>1, AnchorKept
      <3>2. body'[c] = s
        BY <2>2 DEF Inv, JourneyTyped
      <3> HIDE DEF s
      <3>3. body' = [body EXCEPT ![c] = s] /\ setCookie' = [setCookie EXCEPT ![c] = s]
        BY <2>2, <3>2 DEF s
      <3>4. QED
        BY <3>1, <3>3
    <2>3. QED
      BY <1>1, <2>1, <2>2
  <1>6. JourneyTyped'
    BY <1>1, <1>4, <1>5 DEF Inv, JourneyTyped
  <1>7. /\ body'[c] = s /\ setCookie'[c] = k
        /\ \A l \in Requests \ {c} : body'[l] = body[l] /\ setCookie'[l] = setCookie[l]
    BY <1>5 DEF Inv, JourneyTyped
  <1>8. Sound(s) /\ (k \in Payload => Sound(k))
    BY <1>2, <1>5 DEF Sound, Inv, AllSound
  <1>9. Place(c)'
    BY <1>1, <1>5, <1>7 DEF Inv, Placed, Place, flightVars, Running
  <1>10. Settled(c)
    BY <1>1, <1>7, <1>8, <1>9, SettledQuietly DEF Inv, Reached, SignOutReaches
  <1>11. \A l \in Requests \ {c} : Untouched(l)
    BY <1>1, <1>7 DEF Untouched, flightVars
  <1>12. Evidence'
    BY <1>1, <1>4, <1>10, <1>11, Framed DEF flightVars, Inv, AllSound
  <1>13. QED
    BY <1>3, <1>6, <1>12

(* A replica restarts.                                                     *)
LEMMA RestartStep ==
    ASSUME Inv, Onward, NEW n \in Replicas, Restart(n)
    PROVE  FlightInv' /\ JourneyTyped' /\ Evidence'
  <1> DEFINE lost == {c \in Requests : home[c] = n /\ step[c] \in {"grant", "resolve", "serving"}}
  <1>1. /\ pc' = [c \in Requests |-> IF c \in lost /\ pc[c] \in Running \cup {"waiting"}
                                    THEN "unwound" ELSE pc[c]]
        /\ step' = [c \in Requests |-> IF c \in lost THEN "responded" ELSE step[c]]
        /\ body' = [c \in Requests |-> IF c \in lost THEN NoSession ELSE body[c]]
        /\ setCookie' = [c \in Requests |-> IF c \in lost THEN Keep ELSE setCookie[c]]
        /\ got' = [c \in Requests |-> IF c \in lost THEN NoAnswer ELSE got[c]]
        /\ UNCHANGED <<idpVars, jar, now, done, res, finished, key, entered, joined, ret,
                       clk, home>>
    BY DEF Restart, F!Running, Running
  <1>2. FlightInv'
    BY RestartFlight DEF Inv
  <1>3. ASSUME NEW c \in Requests
        PROVE  /\ step[c] \in Steps /\ body[c] \in Payload \cup {NoSession}
               /\ setCookie[c] \in Payload \cup {NoSession, Keep}
               /\ got[c] \in Answer \cup {NoAnswer}
    BY DEF Inv, JourneyTyped
  <1>4. JourneyTyped'
    <2>1. /\ step' \in [Requests -> Steps] /\ body' \in [Requests -> Payload \cup {NoSession}]
      BY <1>1, <1>3 DEF Steps
    <2>2. /\ setCookie' \in [Requests -> Payload \cup {NoSession, Keep}]
          /\ got' \in [Requests -> Answer \cup {NoAnswer}]
      BY <1>1, <1>3
    <2>3. QED
      BY <1>1, <2>1, <2>2 DEF Inv, JourneyTyped, idpVars
  <1>5. ASSUME NEW c \in Requests
        PROVE  Untouched(c) \/ Settled(c)
    <2>1. CASE c \notin lost
      BY <1>1, <2>1 DEF Untouched
    <2>2. CASE c \in lost
      <3>1. /\ step'[c] = "responded" /\ body'[c] = NoSession /\ setCookie'[c] = Keep
            /\ got'[c] = NoAnswer /\ pc'[c] \notin Running \cup {"waiting"}
        BY <1>1, <2>2 DEF Running
      <3>2. Place(c)'
        BY <1>1, <3>1 DEF Inv, Placed, Place
      <3>3. IdPAnswers => /\ res'[c] # Abandoned /\ pc'[c] # "panicked"
                          /\ res'[c] \in Answer => res'[c].verdict # "error"
        BY <1>1, <3>1 DEF Inv, Verdicts, Running
      <3>4. (~sso /\ res'[c] \in Answer /\ key'[c][2] = "grant" /\ res'[c].verdict = "ok") =>
               res'[c].at <= ssoEnd
        BY <1>1 DEF Inv, Dated
      <3>5. (ret'[c] # NoAnswer /\ ret'[c] # Abandoned) =>
               clk'[c] < ret'[c].at + RevalidateFlightRetention + RevalidateSharedTimeout
        BY <1>1 DEF Inv, AnswerFresh
      <3>6. QED
        BY <3>1, <3>2, <3>3, <3>4, <3>5, ValuesAssumption DEF Settled
    <2>3. QED
      BY <2>1, <2>2
  <1>6. Evidence'
    BY <1>1, <1>5, Framed DEF idpVars, Inv, AllSound
  <1>7. QED
    BY <1>2, <1>4, <1>6

(* The SSO session ends: whatever was granted was granted before.          *)
LEMMA EndSSOStep ==
    ASSUME Inv, Onward, EndSSO, UNCHANGED forgotten
    PROVE  FlightInv' /\ JourneyTyped' /\ Evidence'
  <1> USE DEF EndSSO
  <1>1. FlightInv'
    BY StutterFlight DEF Inv
  <1>2. now \in Nat /\ now' = now /\ ssoEnd' = now
    BY DEF Inv, FlightInv, FlightsTyped, flightVars
  <1>3. JourneyTyped'
    BY <1>2 DEF Inv, JourneyTyped, requestVars
  <1>4. Placed'
    BY DEF Inv, Placed, Place, flightVars, requestVars
  <1>5. AllSound'
    <2>1. ASSUME NEW p \in Payload, Sound(p)
          PROVE  Sound(p)'
      BY <1>2, <2>1, SoundKept
    <2>2. QED
      BY <2>1 DEF Inv, AllSound, requestVars
  <1>6. Verdicts' /\ AnswerFresh'
    BY DEF Inv, Verdicts, AnswerFresh, IdPAnswers, flightVars, requestVars
  <1>7. Dated'
    BY <1>2 DEF Inv, Placed, Place, FlightInv, Given, Answering, Dated, flightVars, requestVars
  <1>8. Reached'
    <2>1. \A c \in Requests : clk'[c] \in Nat /\ clk'[c] <= ssoEnd'
      BY <1>2 DEF Inv, JourneyTyped, Placed, Place, requestVars
    <2>2. SignOutReaches'
      BY <1>2, <2>1, RevalidationAssumption, ConfigAssumption DEF SignOutReaches
    <2>3. QED
      BY <2>2 DEF Reached
  <1>9. QED
    BY <1>1, <1>3, <1>4, <1>5, <1>6, <1>7, <1>8 DEF Evidence

(* Time passes.                                                            *)
LEMMA TickStep ==
    ASSUME Inv, Onward, Tick, UNCHANGED forgotten
    PROVE  FlightInv' /\ JourneyTyped' /\ Evidence'
  <1>1. /\ F!Tick /\ UNCHANGED <<idpVars, jar, requestVars>>
    BY DEF Tick
  <1>2. FlightInv'
    BY <1>1, TickFlight DEF Inv
  <1>3. /\ now \in Nat /\ now' = now + 1
        /\ UNCHANGED <<calls, done, res, finished, pc, key, entered, joined, ret>>
    BY <1>1 DEF F!Tick, Inv, FlightInv, FlightsTyped
  <1>4. JourneyTyped'
    BY <1>1 DEF Inv, JourneyTyped, idpVars, requestVars
  <1>5. Placed'
    <2>1. ASSUME NEW c \in Requests
          PROVE  Place(c)'
      <3>1. Place(c) /\ clk[c] \in Nat /\ (got[c] # NoAnswer => got[c].at \in Nat)
        BY DEF Inv, Placed, JourneyTyped, Answer
      <3>2. QED
        BY <1>1, <1>3, <3>1 DEF Place, requestVars
    <2>2. QED
      BY <2>1 DEF Placed
  <1>6. AllSound'
    <2>1. ASSUME NEW p \in Payload, Sound(p)
          PROVE  Sound(p)'
      <3>1. now' \in Nat /\ UNCHANGED <<sso, ssoEnd>>
        BY <1>1, <1>3 DEF idpVars
      <3>2. QED
        BY <2>1, <3>1, SoundKept
    <2>2. QED
      BY <1>1, <2>1 DEF Inv, AllSound, requestVars
  <1>7. Verdicts' /\ AnswerFresh'
    BY <1>1, <1>3 DEF Inv, Verdicts, AnswerFresh, IdPAnswers, requestVars
  <1>8. Dated'
    <2>1. ssoEnd \in Nat
      BY DEF Inv, JourneyTyped
    <2>2. QED
      BY <1>1, <1>3, <2>1 DEF Inv, Dated, idpVars, requestVars
  <1>9. Reached'
    BY <1>1, <1>3 DEF Inv, Reached, SignOutReaches, IdPAnswers, idpVars, requestVars
  <1>10. QED
    BY <1>2, <1>4, <1>5, <1>6, <1>7, <1>8, <1>9 DEF Evidence

-----------------------------------------------------------------------------
(* Who spent which token, and why a refusal happened.                      *)

(* A leader keeps its grant until it answers.                              *)
LEMMA GrantKept ==
    ASSUME Inv, Next
    PROVE  \A c \in Requests : (pc'[c] = "leading" /\ got[c] # NoAnswer) => got'[c] # NoAnswer
  <1> SUFFICES ASSUME NEW l \in Requests, pc'[l] = "leading", got[l] # NoAnswer
               PROVE  got'[l] # NoAnswer
    OBVIOUS
  <1>1. ASSUME NEW c \in Requests, GrantOk(c)
        PROVE  got'[l] # NoAnswer
    <2>1. l # c
      BY <1>1 DEF GrantOk
    <2>2. QED
      BY <1>1, <2>1 DEF GrantOk, Inv, JourneyTyped
  <1>2. ASSUME NEW c \in Requests, Resolve(c)
        PROVE  got'[l] # NoAnswer
    <2>1. pc'[c] = "answered"
      BY <1>2 DEF Resolve, F!Answer, Inv, FlightInv, FlightsTyped
    <2>2. QED
      BY <1>2, <2>1 DEF Resolve, Inv, JourneyTyped
  <1>3. ASSUME NEW n \in Replicas, Restart(n)
        PROVE  got'[l] # NoAnswer
    <2>1. CASE home[l] = n /\ step[l] \in {"grant", "resolve", "serving"}
      BY <1>3, <2>1 DEF Restart, F!Running
    <2>2. CASE ~(home[l] = n /\ step[l] \in {"grant", "resolve", "serving"})
      BY <1>3, <2>2 DEF Restart
    <2>3. QED
      BY <2>1, <2>2
  <1>4. ASSUME UNCHANGED got
        PROVE  got'[l] # NoAnswer
    BY <1>4
  <1>5. ASSUME NEW c \in Requests,
               Send(c) \/ ArriveAsIs(c) \/ ArriveBare(c) \/ ArriveDue(c) \/ GrantFailed(c)
               \/ Panic(c) \/ Publish(c) \/ Receive(c) \/ Cancel(c) \/ UpdateSession(c)
               \/ AccessToken(c) \/ Respond(c) \/ Deliver(c)
        PROVE  UNCHANGED got
    BY <1>5 DEF Send, ArriveAsIs, ArriveBare, ArriveDue, GrantFailed, Panic, Publish, Receive,
       Cancel, UpdateSession, AccessToken, Respond, Deliver, requestVars
  <1>6. ASSUME EndSSO \/ Tick
        PROVE  UNCHANGED got
    BY <1>6 DEF EndSSO, Tick, requestVars
  <1>7. QED
    BY <1>1, <1>2, <1>3, <1>4, <1>5, <1>6 DEF Next, Step

(* A token is spent only by a handler's own refresh or by a leader, who    *)
(* then has its grant or has answered.                                     *)
LEMMA NewSpender ==
    ASSUME Inv, Next, NEW t \in Tokens, NEW s \in spentBy'[t], s \notin spentBy[t],
           s.via = "grant"
    PROVE  /\ s.by \in Requests /\ pc[s.by] = "leading"
           /\ ~(pc'[s.by] = "leading" /\ got'[s.by] = NoAnswer)
  <1>1. ASSUME NEW c \in Requests, NEW via, NEW u, Spend(c, u, via)
        PROVE  s = [by |-> c, via |-> via]
    <2>1. \/ spentBy' = spentBy
          \/ spentBy' = [spentBy EXCEPT ![u] = {[by |-> c, via |-> via]}]
      BY <1>1 DEF Spend
    <2>2. QED
      BY <2>1 DEF Inv, JourneyTyped
  <1>2. ASSUME NEW c \in Requests, AccessToken(c)
        PROVE  FALSE
    <2>1. Spend(c, body[c].rt, "access") \/ UNCHANGED spentBy
      BY <1>2 DEF AccessToken, idpVars
    <2>2. Spend(c, body[c].rt, "access") => s.via = "access"
      BY <1>1
    <2>3. QED
      BY <2>1, <2>2
  <1>3. ASSUME NEW c \in Requests, GrantOk(c)
        PROVE  s.by = c /\ pc[c] = "leading" /\ ~(pc'[c] = "leading" /\ got'[c] = NoAnswer)
    <2>1. s.by = c
      BY <1>1, <1>3 DEF GrantOk
    <2>2. pc[c] = "leading"
      BY <1>3 DEF GrantOk
    <2>3. Granted(c) # NoAnswer
      <3>1. Spend(c, body[c].rt, "grant") /\ body[c].rt \in Tokens /\ now \in Nat
        BY <1>3, <2>2, LeaderFacts DEF GrantOk
      <3>2. cur' \in Tokens
        BY <3>1, SpendTyped DEF Inv
      <3>3. Granted(c) \in Answer
        BY <3>1, <3>2 DEF Granted, Answer
      <3>4. QED
        BY <3>3, ValuesAssumption
    <2>4. pc'[c] = "answered" \/ got'[c] = Granted(c)
      BY <1>3 DEF GrantOk, F!Answer, Inv, FlightInv, FlightsTyped, JourneyTyped
    <2>5. QED
      BY <2>1, <2>2, <2>3, <2>4
  <1>4. ASSUME NEW c \in Requests, GrantFailed(c)
        PROVE  s.by = c /\ pc[c] = "leading" /\ pc'[c] = "answered"
    <2>1. Spend(c, body[c].rt, "grant") \/ UNCHANGED spentBy
      BY <1>4 DEF GrantFailed, Refuse, idpVars
    <2>2. s.by = c
      BY <1>1, <2>1
    <2>3. QED
      BY <1>4, <2>2 DEF GrantFailed, F!Answer, Inv, FlightInv, FlightsTyped
  <1>5. ASSUME NEW c \in Requests,
               Send(c) \/ ArriveAsIs(c) \/ ArriveBare(c) \/ ArriveDue(c) \/ Resolve(c)
               \/ Panic(c) \/ Publish(c) \/ Receive(c) \/ Cancel(c) \/ UpdateSession(c)
               \/ Respond(c) \/ Deliver(c)
        PROVE  UNCHANGED spentBy
    BY <1>5 DEF Send, ArriveAsIs, ArriveBare, ArriveDue, Resolve, Panic, Publish, Receive,
       Cancel, UpdateSession, Respond, Deliver, idpVars
  <1>6. ASSUME EndSSO \/ Tick
        PROVE  UNCHANGED spentBy
    BY <1>6 DEF EndSSO, Tick, idpVars
  <1>7. ASSUME NEW n \in Replicas, Restart(n)
        PROVE  UNCHANGED spentBy
    BY <1>7 DEF Restart, idpVars
  <1>8. QED
    BY <1>2, <1>3, <1>4, <1>5, <1>6, <1>7 DEF Next, Step

(* A token spent in a flight was spent by its leader, who has its answer.  *)
LEMMA SpentStep ==
    ASSUME Inv, Onward, Next
    PROVE  Spent'
  <1> SUFFICES ASSUME NEW t \in Tokens, NEW s \in spentBy'[t], s.via = "grant"
               PROVE  Led(s.by)' /\ ~(pc'[s.by] = "leading" /\ got'[s.by] = NoAnswer)
    BY DEF Spent
  <1>1. CASE s \in spentBy[t]
    <2>1. s.by \in Requests
      BY <1>1 DEF Inv, JourneyTyped, Spenders
    <2>2. Led(s.by) /\ ~(pc[s.by] = "leading" /\ got[s.by] = NoAnswer)
      BY <1>1 DEF Inv, Spent
    <2>3. Led(s.by)' /\ (pc'[s.by] = "leading" => pc[s.by] = "leading")
      BY <2>1, <2>2 DEF Onward, Led
    <2>4. QED
      BY <2>1, <2>2, <2>3, GrantKept
  <1>2. CASE s \notin spentBy[t]
    <2>1. /\ s.by \in Requests /\ pc[s.by] = "leading"
          /\ ~(pc'[s.by] = "leading" /\ got'[s.by] = NoAnswer)
      BY <1>2, NewSpender
    <2>2. joined[s.by] = s.by
      BY <2>1, LeaderFacts
    <2>3. Led(s.by)'
      BY <2>1, <2>2 DEF Onward, Led
    <2>4. QED
      BY <2>1, <2>3
  <1>3. QED
    BY <1>1, <1>2

(* An excuse stands.                                                       *)
LEMMA ExcuseKept ==
    ASSUME Inv, Onward, NEW c \in Requests, NEW m \in Requests,
           pc[c] # "idle", pc[m] # "idle", Excused(c, m)
    PROVE  Excused(c, m)'
  <1>1. /\ home' = home /\ forgotten \subseteq forgotten'
        /\ key'[c] = key[c] /\ key'[m] = key[m] /\ entered'[c] = entered[c]
        /\ pc[m] \in {"panicked", "unwound"} => pc'[m] \in {"panicked", "unwound"}
        /\ res[m] \in Answer => res'[m] = res[m]
        /\ done[m] => done'[m] /\ finished'[m] = finished[m]
    BY DEF Onward
  <1>2. QED
    BY <1>1 DEF Excused

(* When a leader is refused because another leader spent its token, that   *)
(* one's flight was not there to join: the flight group would have handed  *)
(* out its answer.                                                         *)
LEMMA RefusalExcused ==
    ASSUME Inv, NEW c \in Requests, pc[c] = "leading", got[c] = NoAnswer,
           NEW s \in spentBy[body[c].rt], s.via = "grant"
    PROVE  s.by \in Requests /\ Led(s.by) /\ Excused(c, s.by)
  <1> DEFINE m == s.by
  <1>1. body[c].rt \in Tokens /\ joined[c] = c
    BY LeaderFacts
  <1>2. m \in Requests /\ Led(m) /\ m # c
    BY <1>1 DEF Inv, JourneyTyped, Spenders, Spent
  <1>3. Led(c) /\ ~done[c] /\ c \notin forgotten
    BY <1>1 DEF Inv, FlightInv, Leaders, Leading, Running, Led
  <1>4. ASSUME key[m] = key[c], m \notin forgotten, res[m] # Abandoned
        PROVE  done[m] /\ entered[c] >= finished[m] + RevalidateFlightRetention
    BY <1>2, <1>3, <1>4 DEF Inv, FlightInv, Asked, Followed
  <1>5. res[m] = Abandoned => pc[m] = "unwound"
    BY <1>2 DEF Inv, FlightInv, Given, Answering
  <1>6. Excused(c, m)
    BY <1>4, <1>5 DEF Excused
  <1>7. QED
    BY <1>2, <1>6

(* Every refusal of a session that lives keeps its cause.                  *)
LEMMA CausedStep ==
    ASSUME Inv, Onward, Next
    PROVE  Caused'
  <1>1. \/ UNCHANGED wronged
        \/ \E c \in Requests : /\ GrantFailed(c)
                               /\ wronged' = wronged \cup ({c} \X spentBy[body[c].rt])
    <2>1. ASSUME NEW c \in Requests,
                 Send(c) \/ ArriveAsIs(c) \/ ArriveBare(c) \/ ArriveDue(c) \/ Resolve(c)
                 \/ Panic(c) \/ Publish(c) \/ Receive(c) \/ Cancel(c) \/ UpdateSession(c)
                 \/ Respond(c) \/ Deliver(c) \/ AccessToken(c) \/ GrantOk(c)
          PROVE  UNCHANGED wronged
      BY <2>1 DEF Send, ArriveAsIs, ArriveBare, ArriveDue, Resolve, Panic, Publish, Receive,
         Cancel, UpdateSession, Respond, Deliver, AccessToken, GrantOk, Spend, idpVars
    <2>2. ASSUME NEW c \in Requests, GrantFailed(c)
          PROVE  UNCHANGED wronged \/ wronged' = wronged \cup ({c} \X spentBy[body[c].rt])
      BY <2>2 DEF GrantFailed, Refuse, Spend, idpVars
    <2>3. ASSUME EndSSO \/ Tick \/ \E n \in Replicas : Restart(n)
          PROVE  UNCHANGED wronged
      BY <2>3 DEF EndSSO, Tick, Restart, idpVars
    <2>4. QED
      BY <2>1, <2>2, <2>3 DEF Next, Step
  <1>2. ASSUME NEW c \in Requests, NEW m \in Requests, pc[c] # "idle", Led(m), Excused(c, m)
        PROVE  pc'[c] # "idle" /\ Led(m)' /\ Excused(c, m)'
    BY <1>2, ExcuseKept DEF Onward, Led
  <1>3. ASSUME NEW w \in wronged, w[2].via = "grant"
        PROVE  pc'[w[1]] # "idle" /\ Led(w[2].by)' /\ Excused(w[1], w[2].by)'
    <2>1. w[1] \in Requests /\ w[2] \in Spenders
      BY <1>3 DEF Inv, JourneyTyped
    <2>2. w[2].by \in Requests
      BY <2>1 DEF Spenders
    <2>3. pc[w[1]] # "idle" /\ Led(w[2].by) /\ Excused(w[1], w[2].by)
      BY <1>3 DEF Inv, Caused
    <2>4. QED
      BY <1>2, <2>1, <2>2, <2>3
  <1>4. ASSUME NEW c \in Requests, GrantFailed(c), NEW w \in {c} \X spentBy[body[c].rt],
               w[2].via = "grant"
        PROVE  pc'[w[1]] # "idle" /\ Led(w[2].by)' /\ Excused(w[1], w[2].by)'
    <2>1. w[1] = c /\ w[2] \in spentBy[body[c].rt]
      BY <1>4
    <2>2. pc[c] = "leading" /\ got[c] = NoAnswer
      BY <1>4 DEF GrantFailed
    <2>3. w[2].by \in Requests /\ Led(w[2].by) /\ Excused(c, w[2].by)
      BY <1>4, <2>1, <2>2, RefusalExcused
    <2>4. QED
      BY <1>2, <2>1, <2>2, <2>3
  <1>5. ASSUME NEW w \in wronged', w[2].via = "grant"
        PROVE  pc'[w[1]] # "idle" /\ Led(w[2].by)' /\ Excused(w[1], w[2].by)'
    BY <1>1, <1>3, <1>4, <1>5
  <1>6. QED
    BY <1>5 DEF Caused

-----------------------------------------------------------------------------
(* The invariant and what follows from it.                                 *)

(* A session a second short of its floor, and nobody has asked anything.   *)
LEMMA InitInv ==
    ASSUME Init
    PROVE  Inv
  <1> USE DEF Init
  <1>1. FlightInv
    <2>1. FlightsTyped
      BY RevalidationAssumption DEF FlightsTyped, Results, Running
    <2>2. Leaders
      BY RevalidationAssumption DEF Leaders, Leading, Led, Running
    <2>3. Given
      BY ValuesAssumption DEF Given, Answering, Led
    <2>4. Registered /\ Waiters /\ Asked
      BY DEF Registered, Waiters, Asked, Led
    <2>5. QED
      BY <2>1, <2>2, <2>3, <2>4 DEF FlightInv
  <1>2. /\ FirstCookie \in Payload /\ FirstCookie.from = {}
        /\ FirstCookie.lv = Start - RevalidateInterval + 1
    BY RevalidationAssumption, ConfigAssumption DEF FirstCookie, Payload, Tokens
  <1>3. JourneyTyped
    <2>1. 0 \in Tokens
      BY RevalidationAssumption DEF Tokens
    <2>2. QED
      BY <1>2, <2>1 DEF JourneyTyped, Steps, Spenders
  <1>4. Placed
    BY RevalidationAssumption DEF Placed, Place, Running
  <1>5. AllSound
    <2>1. Sound(FirstCookie)
      <3> DEFINE p == FirstCookie
      <3>1. p.lv > 0 /\ (RevalidateInterval > 0 => p.lv <= now) /\ p.from = {} /\ sso
        BY <1>2, RevalidationAssumption, ConfigAssumption
      <3> HIDE DEF p
      <3>2. Sound(p)
        BY <3>1 DEF Sound
      <3>3. QED
        BY <3>2 DEF p
    <2>2. QED
      BY <2>1, ValuesAssumption DEF AllSound
  <1>6. Verdicts /\ Dated /\ AnswerFresh /\ Reached
    BY ValuesAssumption DEF Verdicts, Dated, AnswerFresh, Reached, SignOutReaches
  <1>7. Spent /\ Caused
    BY DEF Spent, Caused
  <1>8. QED
    BY <1>1, <1>3, <1>4, <1>5, <1>6, <1>7 DEF Inv

(* Every step keeps it.                                                    *)
LEMMA InvStep ==
    ASSUME Inv, Next
    PROVE  Inv'
  <1>1. Onward
    BY OnwardStep
  <1>2. FlightInv' /\ JourneyTyped' /\ Evidence'
    <2>1. ASSUME NEW c \in Requests, UNCHANGED forgotten,
                 Send(c) \/ ArriveAsIs(c) \/ ArriveBare(c) \/ ArriveDue(c)
                 \/ UpdateSession(c) \/ AccessToken(c) \/ Respond(c) \/ Deliver(c)
          PROVE  FlightInv' /\ JourneyTyped' /\ Evidence'
      BY <1>1, <2>1, SendStep, ArriveStep, ArriveDueStep, UpdateStep, AccessTokenStep,
         ResponseStep
    <2>2. ASSUME NEW c \in Requests, UNCHANGED forgotten,
                 GrantOk(c) \/ GrantFailed(c) \/ Resolve(c) \/ Panic(c)
                 \/ Publish(c) \/ Receive(c) \/ Cancel(c)
          PROVE  FlightInv' /\ JourneyTyped' /\ Evidence'
      BY <1>1, <2>2, GrantOkStep, GrantFailedStep, ResolveStep, PanicStep, LeaveStep
    <2>3. QED
      BY <1>1, <2>1, <2>2, EndSSOStep, TickStep, RestartStep DEF Next, Step
  <1>3. Spent' /\ Caused'
    BY <1>1, SpentStep, CausedStep
  <1>4. QED
    BY <1>2, <1>3 DEF Inv, Evidence

(* Nothing happens.                                                        *)
LEMMA InvStutter ==
    ASSUME Inv, UNCHANGED vars
    PROVE  Inv'
  <1> USE DEF vars, flightVars, requestVars, idpVars
  <1>1. FlightInv'
    BY StutterFlight DEF Inv
  <1>2. JourneyTyped' /\ Placed'
    BY DEF Inv, JourneyTyped, Placed, Place
  <1>3. AllSound' /\ Verdicts' /\ Dated'
    BY DEF Inv, AllSound, Sound, Verdicts, Dated, IdPAnswers
  <1>4. AnswerFresh' /\ Reached'
    BY DEF Inv, AnswerFresh, Reached, SignOutReaches, IdPAnswers
  <1>5. Spent' /\ Caused'
    BY DEF Inv, Spent, Caused, Excused, Led
  <1>6. QED
    BY <1>1, <1>2, <1>3, <1>4, <1>5 DEF Inv

(***************************************************************************)
(* The inductive invariant holds of every behaviour of maybeRevalidate,    *)
(* its flights and the handlers' session writes, on any number of replicas *)
(* and through a restart.                                                  *)
(***************************************************************************)
THEOREM InvHolds == Spec => []Inv
  <1>1. Init => Inv
    BY InitInv
  <1>2. Inv /\ [Next]_vars => Inv'
    BY InvStep, InvStutter
  <1>3. QED
    BY <1>1, <1>2, PTL DEF Spec

(***************************************************************************)
(* There is no seventh way to be signed out of a live SSO session: every   *)
(* invalid_grant that revalidateAtIdP turns into a sign-out while the SSO  *)
(* session exists has one of the six causes, for any floor, retention and  *)
(* travel times, and whatever fails.                                       *)
(***************************************************************************)
THEOREM SignOutsHaveCauses == Spec => []SignOutHasCause
  <1>1. Inv => SignOutHasCause
    <2>1. ASSUME Inv, NEW w \in wronged
          PROVE  \/ w[2].via = "access"
                 \/ Excused(w[1], w[2].by)
      BY <2>1 DEF Inv, Caused, JourneyTyped, Spenders
    <2>2. QED
      BY <2>1 DEF SignOutHasCause, Excused
  <1>2. QED
    BY <1>1, InvHolds, PTL

(***************************************************************************)
(* The answer a request applies is never older, on the clock the request   *)
(* stamps its cookie with, than the flight's retention and the bound on    *)
(* its work: the assumption SessionLife makes of it.                       *)
(***************************************************************************)
THEOREM AnswersStayFresh == Spec => []AnswerFresh
  <1>1. Inv => AnswerFresh
    BY DEF Inv
  <1>2. QED
    BY <1>1, InvHolds, PTL

(***************************************************************************)
(* A retained answer is applied to one stamp of a session only, for every  *)
(* floor but one of exactly a second, where the halved transport backoff   *)
(* is zero whole seconds and a backed-off cookie may keep the anchor it    *)
(* had, and with it the key of the flight that failed.                     *)
(***************************************************************************)
THEOREM AnswersUsedOnce ==
    ASSUME RevalidateInterval # 1
    PROVE  Spec => []AnsweredOnce
  <1>1. Inv => AnsweredOnce
    <2> SUFFICES ASSUME Inv, NEW c \in Requests, step[c] = "grant", pc[c] = "waiting",
                        joined[c] \in body[c].from
                 PROVE  FALSE
      BY DEF AnsweredOnce
    <2>1. body[c] \in Payload /\ key[c] = FlightKey(home[c], "grant", body[c])
      BY DEF Inv, Placed, Place
    <2>2. key[joined[c]] = key[c]
      BY DEF Inv, FlightInv, Waiters
    <2>3. key[joined[c]][4] # body[c].lv
      BY <2>1 DEF Inv, AllSound, Sound
    <2>4. QED
      BY <2>1, <2>2, <2>3, KeyFacts
  <1>2. QED
    BY <1>1, InvHolds, PTL

(***************************************************************************)
(* Where nothing keeps the IdP's verdict from a request, a sign-out at the *)
(* IdP reaches every request within the floor and the age of an answer,    *)
(* whatever late UpdateSession, AccessToken, route without the middleware  *)
(* or restarted replica writes or loses a cookie meanwhile.                *)
(***************************************************************************)
THEOREM SignOutsReach ==
    ASSUME IdPAnswers
    PROVE  Spec => []SignOutReaches
  <1>1. Inv => SignOutReaches
    BY DEF Inv, Reached
  <1>2. QED
    BY <1>1, InvHolds, PTL

-----------------------------------------------------------------------------
(* One replica, prompt requests: the requests of one browser never sign    *)
(* its session out.                                                        *)

\* How long after its question the next one on the same session is due.
Respite == IF "outage" \in Faults THEN TransportBackoff ELSE RevalidateInterval

\* The replica keeps its flights and every answer reaches its leader, only
\* revalidations write the session, a request and a response together travel
\* less than the retention, and every straggler of one revalidation has settled
\* before the next is due.
Prompt ==
    /\ \A m, n \in Replicas : m = n
    /\ Faults \subseteq {"outage", "bare"} /\ ~ReresolveOnRevalidate
    /\ 2 * Transit < RevalidateFlightRetention
    /\ RevalidateInterval > 0 => RevalidateSharedTimeout + 4 * Transit < Respite

\* Nothing travels longer than Transit.
Punctual ==
    /\ since \in [Requests -> Nat]
    /\ \A c \in Requests : since[c] <= now /\ (Travelling(c) => now <= since[c] + Transit)

\* Everybody holds p, which nobody has asked about.
Calm(p) ==
    /\ jar = p /\ p.rt = cur
    /\ \A c \in Requests :
          /\ setCookie[c] = Keep /\ (step[c] = "sent" => body[c] = p)
          /\ pc[c] # "waiting"
          /\ Led(c) => done[c] /\ key[c][4] \in Int /\ key[c][4] < p.lv

\* What the flight of l makes of a session: the live token, and a respite.
Child(l, q) ==
    /\ q \in Payload /\ q.rt = cur
    /\ q.lv + RevalidateInterval >= entered[l] + Respite

\* l answers with the live token, or leaves it alone.
Verdict(l, p) ==
    /\ res[l] \in Answer /\ res[l].outcome = "none"
    /\ \/ res[l].verdict = "ok" /\ res[l].rt = cur
       \/ res[l].verdict = "error" /\ p.rt = cur /\ "outage" \in Faults

\* l asks about p, the only one, and later than about anything before.
Asks(l, p) ==
    /\ Led(l) /\ key[l] = FlightKey(home[l], "grant", p)
    /\ entered[l] - p.lv >= RevalidateInterval
    /\ \A m \in Requests \ {l} : Led(m) => done[m] /\ key[m][4] \in Int /\ key[m][4] < p.lv

\* Whoever waits, waits for l with p, and not long after l is done.
AwaitedBy(l, p, c) ==
    pc[c] = "waiting" =>
        /\ joined[c] = l /\ body[c] = p /\ entered[c] >= entered[l]
        /\ done[l] => now <= finished[l] + 2 * Transit

\* Until l is done, everybody holds p.
OpenAt(p, c) == setCookie[c] = Keep /\ (step[c] = "sent" => body[c] = p)

Open(l, p) ==
    /\ jar = p /\ body[l] = p
    /\ \A c \in Requests : OpenAt(p, c)
    /\ pc[l] = "leading" => p.rt = cur
    /\ pc[l] = "answered" => Verdict(l, p)

\* Then what l and its waiters answer replaces it, soon.
ClosedAt(l, p, c) ==
    /\ setCookie[c] # Keep => /\ Child(l, setCookie[c]) /\ step[c] \in {"serving", "responded"}
                              /\ since[c] <= finished[l] + 2 * Transit
    /\ step[c] = "sent" =>
          \/ body[c] = p /\ since[c] <= finished[l] + Transit
          \/ /\ Child(l, body[c])
             /\ body[c] = jar \/ since[c] <= finished[l] + 3 * Transit

Closed(l, p) ==
    /\ Verdict(l, p)
    /\ \/ Child(l, jar)
       \/ /\ jar = p /\ step[l] \in {"serving", "responded"}
          /\ since[l] = finished[l] /\ setCookie[l] # Keep
    /\ \A c \in Requests : ClosedAt(l, p, c)

Chain(l, p) ==
    /\ Asks(l, p)
    /\ \A c \in Requests : AwaitedBy(l, p, c)
    /\ IF done[l] THEN Closed(l, p) ELSE Open(l, p)

Orderly == \E p \in Payload : Calm(p) \/ \E l \in Requests : Chain(l, p)

PromptInv ==
    /\ forgotten = {} /\ wronged = {} /\ Punctual
    /\ \A c \in Requests : pc[c] # "panicked"
    /\ sso => Orderly

(* What the hypothesis says of the times.                                  *)
LEMMA PromptTimes ==
    ASSUME Prompt
    PROVE  /\ Transit \in Nat /\ RevalidateFlightRetention \in Nat
           /\ RevalidateSharedTimeout \in Nat /\ RevalidateInterval \in Nat
           /\ 2 * Transit < RevalidateFlightRetention
           /\ RevalidateInterval > 0 =>
                 /\ Respite \in Nat /\ Respite > 0 /\ Respite <= RevalidateInterval
                 /\ RevalidateSharedTimeout + 4 * Transit < Respite
                 /\ TransportBackoff \in Nat
                 /\ "outage" \in Faults => Respite = TransportBackoff
  <1>1. /\ Transit \in Nat /\ RevalidateFlightRetention \in Nat
        /\ RevalidateSharedTimeout \in Nat /\ RevalidateInterval \in Nat
    BY RevalidationAssumption, ConfigAssumption
  <1>2. ASSUME RevalidateInterval > 0
        PROVE  /\ TransportBackoff \in Nat /\ TransportBackoff < RevalidateInterval
               /\ RevalidateSharedTimeout + 4 * Transit < Respite
    BY <1>2, BackoffFacts DEF Prompt
  <1>3. Respite \in {TransportBackoff, RevalidateInterval}
        /\ ("outage" \in Faults => Respite = TransportBackoff)
    BY DEF Respite
  <1> HIDE DEF Respite
  <1>4. QED
    BY <1>1, <1>2, <1>3 DEF Prompt

(* Which steps are left.                                                   *)
LEMMA PromptSteps ==
    ASSUME Prompt, Next, forgotten = {}
    PROVE  /\ UNCHANGED forgotten
           /\ \/ \E c \in Requests :
                    \/ Send(c) \/ ArriveAsIs(c) \/ ArriveBare(c) \/ ArriveDue(c)
                    \/ GrantOk(c) \/ GrantFailed(c) \/ Publish(c) \/ Receive(c)
                    \/ Respond(c) \/ Deliver(c)
              \/ EndSSO \/ Tick
  <1>1. \A f \in {"lost", "panic", "cancel", "update", "access", "restart"} : f \notin Faults
    BY DEF Prompt
  <1>2. \A n \in Replicas : ~Restart(n)
    BY <1>1 DEF Restart
  <1>3. \A c \in Requests : /\ ~Panic(c) /\ ~Cancel(c) /\ ~UpdateSession(c)
                            /\ ~AccessToken(c) /\ ~Resolve(c)
    BY <1>1 DEF Prompt, Panic, Cancel, UpdateSession, AccessToken, Resolve
  <1>4. QED
    BY <1>2, <1>3 DEF Next, Step

\* A step of request c alone, outside the flight group and the IdP.
Alone(c) ==
    /\ UNCHANGED <<flightVars, idpVars, home>>
    /\ step[c] \notin {"grant", "resolve"}
    /\ \A l \in Requests \ {c} : /\ step'[l] = step[l] /\ body'[l] = body[l]
                                 /\ setCookie'[l] = setCookie[l] /\ since'[l] = since[l]

\* It is sent, arrives with nothing to ask, is responded to, or is over.
Moves(c) ==
    \/ /\ step[c] = "idle" /\ step'[c] = "sent" /\ body'[c] = jar /\ since'[c] = now
       /\ setCookie'[c] = setCookie[c] /\ jar' = jar
    \/ /\ step[c] = "sent" /\ step'[c] \in {"serving", "responded"} /\ setCookie'[c] = Keep
       /\ since'[c] = now /\ jar' = jar
    \/ /\ step[c] = "serving" /\ step'[c] = "responded" /\ since'[c] = since[c]
       /\ setCookie'[c] = setCookie[c] /\ jar' = jar
    \/ /\ step[c] = "responded" /\ step'[c] = "delivered" /\ setCookie'[c] = Keep
       /\ since'[c] = 0
       /\ jar' = IF setCookie[c] = Keep THEN jar ELSE setCookie[c]

(* Which actions these are.                                                *)
LEMMA AloneSteps ==
    ASSUME Inv, Punctual, NEW c \in Requests,
           Send(c) \/ ArriveAsIs(c) \/ ArriveBare(c) \/ Respond(c) \/ Deliver(c)
    PROVE  Alone(c) /\ Moves(c) /\ since' \in [Requests -> Nat]
  <1>1. /\ step \in [Requests -> Steps] /\ body \in [Requests -> Payload \cup {NoSession}]
        /\ setCookie \in [Requests -> Payload \cup {NoSession, Keep}]
        /\ since \in [Requests -> Nat] /\ now \in Nat
    BY DEF Inv, FlightInv, FlightsTyped, JourneyTyped, Punctual
  <1>2. CASE Send(c)
    BY <1>1, <1>2 DEF Send, Alone, Moves
  <1>3. CASE Respond(c)
    BY <1>1, <1>3 DEF Respond, Alone, Moves
  <1>4. CASE Deliver(c)
    BY <1>1, <1>4 DEF Deliver, Alone, Moves
  <1>5. ASSUME NEW p, step[c] = "sent", Served(c, p, Keep),
               UNCHANGED <<flightVars, idpVars, jar, home>>
        PROVE  Alone(c) /\ Moves(c) /\ since' \in [Requests -> Nat]
    BY <1>1, <1>5 DEF Served, Alone, Moves
  <1>6. CASE ArriveAsIs(c) \/ ArriveBare(c)
    BY <1>5, <1>6 DEF ArriveAsIs, ArriveBare
  <1>7. QED
    BY <1>2, <1>3, <1>4, <1>6

(* Time does not pass a request by.                                        *)
LEMMA PunctualStep ==
    ASSUME Inv, Punctual, Prompt, Next, forgotten = {}
    PROVE  Punctual'
  <1>1. /\ now \in Nat /\ Transit \in Nat /\ since \in [Requests -> Nat]
        /\ step \in [Requests -> Steps]
    BY PromptTimes DEF Inv, FlightInv, FlightsTyped, JourneyTyped, Punctual
  <1>2. ASSUME NEW c \in Requests,
               Send(c) \/ ArriveAsIs(c) \/ ArriveBare(c) \/ Respond(c) \/ Deliver(c)
        PROVE  Punctual'
    <2>1. Alone(c) /\ Moves(c) /\ since' \in [Requests -> Nat]
      BY <1>2, AloneSteps
    <2>2. since'[c] <= now /\ (Travelling(c)' => now <= since'[c] + Transit)
      BY <1>1, <2>1 DEF Moves, Travelling, Punctual
    <2>3. \A l \in Requests \ {c} : since'[l] <= now /\ (Travelling(l)' => now <= since'[l] + Transit)
      BY <2>1 DEF Alone, Travelling, Punctual
    <2>4. now' = now
      BY <2>1 DEF Alone, flightVars
    <2>5. QED
      BY <2>1, <2>2, <2>3, <2>4 DEF Punctual
  <1>3. ASSUME NEW c \in Requests, NEW p, NEW k, Served(c, p, k), now' = now
        PROVE  Punctual'
    <2>1. /\ since' = [since EXCEPT ![c] = now]
          /\ \A l \in Requests \ {c} : step'[l] = step[l] /\ since'[l] = since[l]
          /\ since'[c] = now
      BY <1>1, <1>3 DEF Served
    <2>2. QED
      BY <1>1, <1>3, <2>1 DEF Travelling, Punctual
  <1>4. ASSUME NEW c \in Requests, Publish(c) \/ Receive(c)
        PROVE  Punctual'
    <2>1. now' = now
      BY <1>4 DEF Publish, Receive, F!Publish, F!Receive
    <2>2. \E p, k : Served(c, p, k)
      BY <1>4, PublishLeaves DEF Leaves
    <2>3. QED
      BY <1>3, <2>1, <2>2
  <1>5. ASSUME NEW c \in Requests, ArriveDue(c)
        PROVE  Punctual'
    <2>1. now' = now /\ UNCHANGED since
      BY <1>5 DEF ArriveDue, F!Enter
    <2>2. \A l \in Requests : Travelling(l)' => Travelling(l)
      BY <1>1, <1>5 DEF ArriveDue, Travelling
    <2>3. QED
      BY <2>1, <2>2 DEF Punctual
  <1>6. ASSUME now' = now, UNCHANGED <<since, step>>
        PROVE  Punctual'
    BY <1>6 DEF Punctual, Travelling
  <1>7. ASSUME NEW c \in Requests, GrantOk(c) \/ GrantFailed(c)
        PROVE  Punctual'
    BY <1>6, <1>7 DEF GrantOk, GrantFailed, F!Answer, requestVars, flightVars
  <1>8. ASSUME EndSSO
        PROVE  Punctual'
    BY <1>6, <1>8 DEF EndSSO, requestVars, flightVars
  <1>9. ASSUME Tick
        PROVE  Punctual'
    <2>1. now' = now + 1 /\ UNCHANGED <<since, step>>
      BY <1>9 DEF Tick, F!Tick, requestVars
    <2>2. \A c \in Requests : Travelling(c) => now < since[c] + Transit
      BY <1>9 DEF Tick
    <2>3. \A c \in Requests : since[c] \in Nat
      BY <1>1
    <2>4. QED
      BY <1>1, <2>1, <2>2, <2>3 DEF Punctual, Travelling
  <1>10. QED
    BY <1>2, <1>4, <1>5, <1>7, <1>8, <1>9, PromptSteps

-----------------------------------------------------------------------------
(* The writers of session.go and the refresh token.                        *)

(* A refresh stores the token it got, and no stamp touches the token.      *)
LEMMA TokenFacts ==
    ASSUME NEW p \in Payload, NEW l \in Requests, NEW rt \in Tokens, NEW t \in Nat
    PROVE  /\ [p EXCEPT !.from = {l}].rt = p.rt
           /\ Refreshed(p, rt, 0).rt = rt
           /\ Stamped(p, t).rt = p.rt /\ PersistBackoff(p, t).rt = p.rt
  <1>1. rt # NoToken
    BY RevalidationAssumption DEF Tokens
  <1>2. Refreshed(p, rt, 0).rt = rt
    <2> DEFINE a == MergeRefreshedAuthTime(p.aut, 0)
    <2>1. Refreshed(p, rt, 0) = [p EXCEPT !.rt = rt, !.aut = a]
      BY <1>1 DEF Refreshed, Payload
    <2> HIDE DEF a
    <2>2. QED
      BY <2>1 DEF Payload
  <1>3. [p EXCEPT !.from = {l}].rt = p.rt
    BY DEF Payload
  <1>4. Stamped(p, t).rt = p.rt /\ PersistBackoff(p, t).rt = p.rt
    BY DEF Stamped, PersistBackoff, Payload
  <1>5. QED
    BY <1>2, <1>3, <1>4

(* Whoever applies the answer of l to p is served with a child of l.       *)
LEMMA VerdictApplied ==
    ASSUME Inv, Prompt, NEW c \in Requests, NEW l \in Requests, NEW p \in Payload,
           step[c] = "grant", joined[c] = l, body[c] = p, entered[c] >= entered[l],
           Verdict(l, p), ApplyGrant(c, res[l])
    PROVE  \E s \in Payload : Child(l, s) /\ Served(c, s, s)
  <1> DEFINE a == res[l]
             b == [p EXCEPT !.from = {l}]
             q == Refreshed(b, a.rt, 0)
  <1>1. /\ clk[c] \in Nat /\ RevalidateInterval > 0 /\ clk[c] = entered[c]
        /\ entered[l] \in Nat /\ cur \in Tokens
    BY DEF Inv, FlightInv, FlightsTyped, JourneyTyped, Placed, Place, FloorDue
  <1>2. /\ RevalidateInterval \in Nat /\ Respite \in Nat /\ Respite <= RevalidateInterval
        /\ TransportBackoff \in Nat /\ ("outage" \in Faults => Respite = TransportBackoff)
    BY <1>1, PromptTimes
  <1>3. a # Abandoned /\ a \in Answer /\ a.outcome = "none"
    BY ValuesAssumption DEF Verdict
  <1>4. b \in Payload /\ b.rt = p.rt
    BY MarkedFacts, TokenFacts
  <1>5. CASE a.verdict = "error" /\ p.rt = cur /\ "outage" \in Faults
    <2> DEFINE s == PersistBackoff(b, clk[c])
    <2>1. Served(c, s, s)
      BY <1>5 DEF ApplyGrant
    <2> HIDE DEF b
    <2>2. s \in Payload /\ s.lv = clk[c] + TransportBackoff - RevalidateInterval
      BY <1>1, <1>4, StampFacts
    <2>3. s.rt = cur
      BY <1>1, <1>4, <1>5, TokenFacts
    <2> HIDE DEF s
    <2>4. s.lv + RevalidateInterval >= entered[l] + Respite
      BY <1>1, <1>2, <1>5, <2>2
    <2>5. QED
      BY <2>1, <2>2, <2>3, <2>4 DEF Child
  <1>6. CASE a.verdict = "ok" /\ a.rt = cur
    <2> DEFINE s == Stamped(q, clk[c])
    <2>1. Served(c, s, s)
      BY <1>3, <1>6 DEF ApplyGrant
    <2> HIDE DEF b
    <2>2. q \in Payload
      BY <1>1, <1>4, <1>6, RefreshedFacts
    <2>3. q.rt = cur
      BY <1>1, <1>4, <1>6, TokenFacts
    <2> HIDE DEF q
    <2>4. s \in Payload /\ s.lv = clk[c]
      BY <1>1, <2>2, StampFacts
    <2>5. s.rt = cur
      BY <1>1, <2>2, <2>3, TokenFacts
    <2> HIDE DEF s
    <2>6. s.lv + RevalidateInterval >= entered[l] + Respite
      BY <1>1, <1>2, <2>4
    <2>7. QED
      BY <2>1, <2>4, <2>5, <2>6 DEF Child
  <1>7. QED
    BY <1>5, <1>6 DEF Verdict

-----------------------------------------------------------------------------
(* Steps of one request alone.                                             *)

(* Everybody still holds p.                                                *)
LEMMA CalmAlone ==
    ASSUME Inv, NEW p \in Payload, Calm(p), NEW c \in Requests, Alone(c), Moves(c)
    PROVE  Calm(p)'
  <1>1. UNCHANGED <<pc, joined, done, key, cur>>
    BY DEF Alone, flightVars, idpVars
  <1>2. jar' = p /\ p.rt = cur'
    BY <1>1 DEF Calm, Moves
  <1>3. setCookie'[c] = Keep /\ (step'[c] = "sent" => body'[c] = p)
    BY DEF Calm, Moves
  <1>4. QED
    BY <1>1, <1>2, <1>3 DEF Calm, Alone, Led

(* The chain goes on: late responses bring children of l.                  *)
LEMMA ChainAlone ==
    ASSUME Inv, Prompt, Punctual, forgotten = {}, NEW p \in Payload, NEW l \in Requests,
           Chain(l, p), NEW c \in Requests, Alone(c), Moves(c)
    PROVE  Chain(l, p)'
  <1>1. UNCHANGED <<now, pc, joined, done, key, entered, finished, res, cur, home>>
    BY DEF Alone, flightVars, idpVars
  <1>2. Asks(l, p)'
    BY <1>1 DEF Chain, Asks, Led
  <1>3. pc[c] \notin Running \cup {"waiting"}
    BY DEF Alone, Inv, Placed, Place
  <1>4. ASSUME NEW m \in Requests
        PROVE  AwaitedBy(l, p, m)'
    BY <1>1, <1>3 DEF Chain, AwaitedBy, Alone
  <1>5. ASSUME NEW q
        PROVE  Child(l, q)' <=> Child(l, q)
    BY <1>1 DEF Child
  <1>6. Verdict(l, p)' <=> Verdict(l, p)
    BY <1>1 DEF Verdict
  <1>7. ASSUME ~done[l]
        PROVE  Open(l, p)'
    <2>1. Open(l, p)
      BY <1>7 DEF Chain
    <2>2. c # l
      BY <1>3, <1>7 DEF Chain, Asks, Inv, FlightInv, Leaders, Leading, Running, Led
    <2>3. jar' = p /\ body'[l] = p /\ OpenAt(p, c)'
      BY <2>1, <2>2 DEF Open, OpenAt, Moves, Alone
    <2>4. \A m \in Requests \ {c} : OpenAt(p, m)'
      BY <2>1 DEF Open, OpenAt, Alone
    <2>5. QED
      BY <1>1, <1>6, <2>1, <2>3, <2>4 DEF Open
  <1>8. ASSUME done[l]
        PROVE  Closed(l, p)'
    <2>1. Closed(l, p)
      BY <1>8 DEF Chain
    <2>2. /\ now \in Nat /\ Transit \in Nat /\ finished[l] \in Nat
          /\ \A m \in Requests : /\ since[m] \in Nat /\ since[m] <= now
                                 /\ Travelling(m) => now <= since[m] + Transit
      BY PromptTimes DEF Punctual, Inv, FlightInv, FlightsTyped
    <2>3. ClosedAt(l, p, c)
      BY <2>1 DEF Closed
    <2>4. jar' = jar \/ (/\ step[c] = "responded" /\ setCookie[c] # Keep
                         /\ jar' = setCookie[c] /\ Child(l, setCookie[c])
                         /\ now <= finished[l] + 3 * Transit)
      BY <2>2, <2>3 DEF Moves, ClosedAt, Travelling
    <2>5. \/ Child(l, jar)'
          \/ /\ jar' = p /\ step'[l] \in {"serving", "responded"}
             /\ since'[l] = finished'[l] /\ setCookie'[l] # Keep
      <3>1. CASE Child(l, jar)
        BY <1>1, <1>5, <2>4, <3>1 DEF Child
      <3>2. CASE /\ jar = p /\ step[l] \in {"serving", "responded"}
                 /\ since[l] = finished[l] /\ setCookie[l] # Keep
        <4>1. CASE c # l
          BY <1>1, <2>4, <3>2, <4>1 DEF Alone, Child
        <4>2. CASE c = l
          BY <1>1, <2>3, <3>2, <4>2 DEF Moves, ClosedAt, Child
        <4>3. QED
          BY <4>1, <4>2
      <3>3. QED
        BY <2>1, <3>1, <3>2 DEF Closed
    <2>6. ClosedAt(l, p, c)'
      <3>1. setCookie'[c] # Keep =>
               /\ Child(l, setCookie[c]) /\ setCookie'[c] = setCookie[c]
               /\ step'[c] \in {"serving", "responded"}
               /\ since'[c] <= finished[l] + 2 * Transit
        BY <2>3 DEF Moves, ClosedAt
      <3>2. ASSUME step'[c] = "sent"
            PROVE  /\ body'[c] = jar /\ jar' = jar /\ since'[c] = now
                   /\ \/ Child(l, jar)
                      \/ jar = p /\ now <= finished[l] + Transit
        <4>1. body'[c] = jar /\ jar' = jar /\ since'[c] = now
          BY <3>2 DEF Moves
        <4>2. QED
          BY <2>1, <2>2, <4>1 DEF Closed, Travelling
      <3>3. QED
        BY <1>1, <3>1, <3>2 DEF ClosedAt, Child
    <2>7. ASSUME NEW m \in Requests \ {c}
          PROVE  ClosedAt(l, p, m)'
      <3>1. ClosedAt(l, p, m)
        BY <2>1 DEF Closed
      <3>2. /\ step'[m] = step[m] /\ body'[m] = body[m]
            /\ setCookie'[m] = setCookie[m] /\ since'[m] = since[m]
        BY DEF Alone
      <3>3. jar' = jar \/ since[m] <= finished[l] + 3 * Transit
        BY <2>2, <2>4
      <3>4. QED
        BY <1>1, <3>1, <3>2, <3>3 DEF ClosedAt, Child
    <2>8. QED
      BY <1>6, <2>1, <2>5, <2>6, <2>7 DEF Closed
  <1>9. QED
    BY <1>1, <1>2, <1>4, <1>7, <1>8 DEF Chain

-----------------------------------------------------------------------------
(* A request takes the lock with its question.                             *)

(* What it asks, and what the flight group does with it.                   *)
LEMMA DueFacts ==
    ASSUME Inv, Prompt, NEW c \in Requests, ArriveDue(c)
    PROVE  /\ step[c] = "sent" /\ pc[c] = "idle" /\ ~done[c] /\ body[c] \in Payload
           /\ body[c].lv \in Int /\ now - body[c].lv >= RevalidateInterval
           /\ RevalidateInterval > 0 /\ RevalidateInterval \in Nat
           /\ F!Enter(c, FlightKey(home[c], "grant", body[c]))
           /\ step' = [step EXCEPT ![c] = "grant"]
           /\ UNCHANGED <<idpVars, jar, since, body, setCookie, home>>
           /\ UNCHANGED <<now, done, res, finished>>
           /\ key'[c] = FlightKey(home[c], "grant", body[c]) /\ entered'[c] = now
           /\ \A l \in Requests \ {c} : /\ key'[l] = key[l] /\ entered'[l] = entered[l]
                                        /\ pc'[l] = pc[l] /\ joined'[l] = joined[l]
                                        /\ step'[l] = step[l]
           /\ step'[c] = "grant"
  <1>1. /\ step[c] = "sent" /\ FloorDue(body[c], now) /\ step' = [step EXCEPT ![c] = "grant"]
        /\ F!Enter(c, FlightKey(home[c], "grant", body[c]))
        /\ UNCHANGED <<idpVars, jar, since, body, setCookie, home>>
    BY DEF ArriveDue, Prompt, ResolveRetryDue
  <1>2. pc[c] = "idle" /\ ~done[c] /\ body[c] \in Payload
    BY <1>1 DEF Inv, Placed, Place, FlightInv, Leaders, Leading
  <1>3. body[c].lv \in Int /\ body[c].lv > 0
    BY <1>2 DEF Inv, AllSound, Sound, Payload
  <1>4. /\ now - body[c].lv >= RevalidateInterval /\ RevalidateInterval > 0
        /\ RevalidateInterval \in Nat
    BY <1>1, <1>3, ConfigAssumption DEF FloorDue, ValidationAnchor
  <1>5. /\ UNCHANGED <<now, done, res, finished>>
        /\ key'[c] = FlightKey(home[c], "grant", body[c]) /\ entered'[c] = now
        /\ \A l \in Requests \ {c} : /\ key'[l] = key[l] /\ entered'[l] = entered[l]
                                     /\ pc'[l] = pc[l] /\ joined'[l] = joined[l]
    BY <1>1 DEF F!Enter, Inv, FlightInv, FlightsTyped
  <1>6. step'[c] = "grant" /\ \A l \in Requests \ {c} : step'[l] = step[l]
    BY <1>1 DEF Inv, JourneyTyped
  <1>7. QED
    BY <1>1, <1>2, <1>3, <1>4, <1>5, <1>6

(* Where everybody holds p, whoever first asks about it leads.             *)
LEMMA CalmDue ==
    ASSUME Inv, Prompt, NEW p \in Payload, Calm(p), NEW c \in Requests, ArriveDue(c)
    PROVE  Chain(c, p)'
  <1> DEFINE k == FlightKey(home[c], "grant", body[c])
  <1>1. /\ step[c] = "sent" /\ pc[c] = "idle" /\ ~done[c] /\ body[c].lv \in Int
        /\ now - body[c].lv >= RevalidateInterval
        /\ F!Enter(c, k) /\ step'[c] = "grant"
        /\ UNCHANGED <<idpVars, jar, body, setCookie, home>>
        /\ UNCHANGED <<now, done, res, finished>>
        /\ key'[c] = k /\ entered'[c] = now
        /\ \A l \in Requests \ {c} : /\ key'[l] = key[l] /\ entered'[l] = entered[l]
                                     /\ pc'[l] = pc[l] /\ joined'[l] = joined[l]
                                     /\ step'[l] = step[l]
    BY DueFacts
  <1>2. body[c] = p /\ k[4] = p.lv
    BY <1>1, KeyFacts DEF Calm
  <1>3. \A l \in calls : key[l] # k
    <2>1. ASSUME NEW l \in calls, key[l] = k
          PROVE  FALSE
      <3>1. l \in Requests /\ Led(l)
        BY DEF Inv, FlightInv, FlightsTyped, Leaders, Leading
      <3>2. QED
        BY <1>1, <1>2, <2>1, <3>1 DEF Calm
    <2>2. QED
      BY <2>1
  <1>4. pc'[c] = "leading" /\ joined'[c] = c
    <2>1. F!Prune(calls, now) \subseteq calls
      BY DEF F!Prune
    <2>2. pc' = [pc EXCEPT ![c] = "leading"] /\ joined' = [joined EXCEPT ![c] = c]
      BY <1>1, <1>3, <2>1 DEF F!Enter
    <2>3. QED
      BY <2>2 DEF Inv, FlightInv, FlightsTyped
  <1> HIDE DEF k
  <1>5. Asks(c, p)'
    BY <1>1, <1>2, <1>4 DEF Asks, Calm, Led, k
  <1>6. \A m \in Requests : AwaitedBy(c, p, m)'
    BY <1>1, <1>4 DEF AwaitedBy, Calm
  <1>7. Open(c, p)'
    BY <1>1, <1>2, <1>4 DEF Open, OpenAt, Calm, idpVars
  <1>8. QED
    BY <1>1, <1>5, <1>6, <1>7 DEF Chain

(* Whoever comes with p while l answers for it waits for l.                *)
LEMMA ChainDue ==
    ASSUME Inv, Prompt, Punctual, forgotten = {}, NEW p \in Payload, NEW l \in Requests,
           Chain(l, p), NEW c \in Requests, ArriveDue(c), body[c] = p,
           done[l] => since[c] <= finished[l] + Transit
    PROVE  Chain(l, p)'
  <1> DEFINE k == FlightKey(home[c], "grant", body[c])
  <1>1. /\ step[c] = "sent" /\ pc[c] = "idle" /\ ~done[c] /\ body[c].lv \in Int
        /\ F!Enter(c, k) /\ step'[c] = "grant"
        /\ UNCHANGED <<idpVars, jar, since, body, setCookie, home>>
        /\ UNCHANGED <<now, done, res, finished>>
        /\ key'[c] = k /\ entered'[c] = now
        /\ \A m \in Requests \ {c} : /\ key'[m] = key[m] /\ entered'[m] = entered[m]
                                     /\ pc'[m] = pc[m] /\ joined'[m] = joined[m]
                                     /\ step'[m] = step[m]
    BY DueFacts
  <1>2. Asks(l, p) /\ Led(l) /\ c # l
    BY <1>1 DEF Chain, Asks, Led
  <1>3. k = key[l] /\ k[4] = p.lv
    <2>1. home[c] = home[l]
      BY DEF Prompt, Inv, JourneyTyped
    <2>2. QED
      BY <1>2, <2>1, KeyFacts DEF Asks
  <1>4. /\ now \in Nat /\ Transit \in Nat /\ finished[l] \in Nat /\ since[c] \in Nat
        /\ entered[l] \in Nat /\ entered[l] <= now
        /\ 2 * Transit < RevalidateFlightRetention /\ RevalidateFlightRetention \in Nat
        /\ now <= since[c] + Transit
    BY <1>1, PromptTimes DEF Inv, FlightInv, FlightsTyped, Leaders, Leading, Punctual, Travelling
  <1>5. done[l] => now <= finished[l] + 2 * Transit
    BY <1>4
  <1>6. l \in F!Prune(calls, now)
    <2>1. l \in calls /\ ~(done[l] /\ now - finished[l] >= RevalidateFlightRetention)
      <3>1. CASE ~done[l]
        BY <1>2, <3>1 DEF Inv, FlightInv, Leaders, Leading
      <3>2. CASE done[l]
        <4>1. res[l] # Abandoned
          BY <3>2, ValuesAssumption DEF Chain, Closed, Verdict
        <4>2. ~(now >= finished[l] + RevalidateFlightRetention)
          BY <1>4, <1>5, <3>2
        <4>3. l \in calls
          BY <3>2, <4>1, <4>2 DEF Inv, FlightInv, Registered
        <4>4. QED
          BY <1>4, <4>2, <4>3
      <3>3. QED
        BY <3>1, <3>2
    <2>2. QED
      BY <2>1 DEF F!Prune
  <1>7. \A m \in calls : key[m] = k => m = l
    <2>1. ASSUME NEW m \in calls, key[m] = k, m # l
          PROVE  FALSE
      <3>1. m \in Requests /\ Led(m)
        BY DEF Inv, FlightInv, FlightsTyped, Leaders, Leading
      <3>2. QED
        BY <1>1, <1>2, <1>3, <2>1, <3>1 DEF Asks
    <2>2. QED
      BY <2>1
  <1>8. pc'[c] = "waiting" /\ joined'[c] = l
    <2>1. F!Prune(calls, now) \subseteq calls
      BY DEF F!Prune
    <2>2. pc' = [pc EXCEPT ![c] = "waiting"] /\ joined' = [joined EXCEPT ![c] = l]
      BY <1>1, <1>3, <1>6, <1>7, <2>1 DEF F!Enter
    <2>3. QED
      BY <2>2 DEF Inv, FlightInv, FlightsTyped
  <1> HIDE DEF k
  <1>9. Asks(l, p)'
    BY <1>1, <1>2, <1>8 DEF Asks, Led
  <1>10. \A m \in Requests : AwaitedBy(l, p, m)'
    <2>1. AwaitedBy(l, p, c)'
      BY <1>1, <1>2, <1>4, <1>5, <1>8 DEF AwaitedBy
    <2>2. \A m \in Requests \ {c} : AwaitedBy(l, p, m)'
      BY <1>1, <1>2 DEF AwaitedBy, Chain
    <2>3. QED
      BY <2>1, <2>2
  <1>11. cur' = cur /\ entered'[l] = entered[l] /\ pc'[l] = pc[l] /\ step'[l] = step[l]
    BY <1>1, <1>2 DEF idpVars
  <1>12. Open(l, p) => Open(l, p)'
    BY <1>1, <1>11 DEF Open, OpenAt, Verdict
  <1>13. Closed(l, p) => Closed(l, p)'
    BY <1>1, <1>11 DEF Closed, ClosedAt, Verdict, Child
  <1>14. QED
    BY <1>1, <1>9, <1>10, <1>12, <1>13 DEF Chain

(* When a child of l is due, everything l set in motion has settled.       *)
LEMMA ChildDue ==
    ASSUME Inv, Prompt, Punctual, NEW p \in Payload, NEW l \in Requests,
           Chain(l, p), done[l], NEW c \in Requests, step[c] = "sent", Child(l, body[c]),
           now - body[c].lv >= RevalidateInterval, RevalidateInterval > 0
    PROVE  Calm(body[c])
  <1>1. /\ now \in Nat /\ Transit \in Nat /\ RevalidateInterval \in Nat
        /\ Respite \in Nat /\ Respite > 0
        /\ RevalidateSharedTimeout \in Nat /\ RevalidateSharedTimeout + 4 * Transit < Respite
    BY PromptTimes DEF Inv, FlightInv, FlightsTyped
  <1>2. /\ finished[l] \in Nat /\ entered[l] \in Nat
        /\ finished[l] <= entered[l] + RevalidateSharedTimeout
    BY DEF Inv, FlightInv, FlightsTyped, Leaders, Leading
  <1>3. p.lv \in Int
    BY DEF Payload
  <1>4. ASSUME NEW q, Child(l, q)
        PROVE  /\ q \in Payload /\ q.lv \in Int /\ q.rt = cur /\ p.lv < q.lv
               /\ q.lv + RevalidateInterval >= entered[l] + Respite
    <2>1. /\ q \in Payload /\ q.rt = cur /\ q.lv + RevalidateInterval >= entered[l] + Respite
      BY <1>4 DEF Child
    <2>2. q.lv \in Int
      BY <2>1 DEF Payload
    <2>3. entered[l] - p.lv >= RevalidateInterval
      BY DEF Chain, Asks
    <2>4. QED
      BY <1>1, <1>2, <1>3, <2>1, <2>2, <2>3
  <1>5. now > finished[l] + 4 * Transit
    BY <1>1, <1>2, <1>4
  <1>6. \A m \in Requests : /\ since[m] \in Nat
                            /\ Travelling(m) => now <= since[m] + Transit
    BY DEF Punctual
  <1>7. Closed(l, p)
    BY DEF Chain
  <1>8. ASSUME NEW m \in Requests
        PROVE  setCookie[m] = Keep /\ (step[m] = "sent" => body[m] = jar)
    <2>1. ClosedAt(l, p, m)
      BY <1>7 DEF Closed
    <2>2. setCookie[m] = Keep
      BY <1>1, <1>2, <1>5, <1>6, <2>1 DEF ClosedAt, Travelling
    <2>3. step[m] = "sent" => body[m] = jar
      BY <1>1, <1>2, <1>5, <1>6, <2>1 DEF ClosedAt, Travelling
    <2>4. QED
      BY <2>2, <2>3
  <1>9. jar = body[c]
    BY <1>8
  <1>10. ASSUME NEW m \in Requests
         PROVE  pc[m] # "waiting"
    BY <1>1, <1>2, <1>5 DEF Chain, AwaitedBy
  <1>11. ASSUME NEW m \in Requests, Led(m)
         PROVE  done[m] /\ key[m][4] \in Int /\ key[m][4] < body[c].lv
    <2>1. CASE m = l
      BY <1>3, <1>4, <2>1, KeyFacts DEF Chain, Asks
    <2>2. CASE m # l
      BY <1>3, <1>4, <1>11, <2>2 DEF Chain, Asks
    <2>3. QED
      BY <2>1, <2>2
  <1>12. QED
    BY <1>4, <1>8, <1>9, <1>10, <1>11 DEF Calm

(* A due request joins the flight there is, or starts the next one.       *)
LEMMA DueOrderly ==
    ASSUME Inv, Prompt, Punctual, forgotten = {}, Orderly, NEW c \in Requests, ArriveDue(c)
    PROVE  Orderly'
  <1>1. /\ step[c] = "sent" /\ body[c] \in Payload
        /\ now - body[c].lv >= RevalidateInterval /\ RevalidateInterval > 0
    BY DueFacts
  <1>2. ASSUME NEW q \in Payload, Calm(q)
        PROVE  Orderly'
    BY <1>2, CalmDue DEF Orderly
  <1>3. ASSUME NEW p \in Payload, NEW l \in Requests, Chain(l, p)
        PROVE  Orderly'
    <2>1. CASE ~done[l]
      <3>1. body[c] = p
        BY <1>1, <1>3, <2>1 DEF Chain, Open, OpenAt
      <3>2. Chain(l, p)'
        BY <1>3, <2>1, <3>1, ChainDue
      <3>3. QED
        BY <3>2 DEF Orderly
    <2>2. CASE done[l]
      <3>1. \/ body[c] = p /\ since[c] <= finished[l] + Transit
            \/ Child(l, body[c])
        BY <1>1, <1>3, <2>2 DEF Chain, Closed, ClosedAt
      <3>2. ASSUME body[c] = p, since[c] <= finished[l] + Transit
            PROVE  Orderly'
        <4>1. Chain(l, p)'
          BY <1>3, <3>2, ChainDue
        <4>2. QED
          BY <4>1 DEF Orderly
      <3>3. ASSUME Child(l, body[c])
            PROVE  Orderly'
        <4>1. Calm(body[c])
          BY <1>1, <1>3, <2>2, <3>3, ChildDue
        <4>2. QED
          BY <1>1, <1>2, <4>1
      <3>4. QED
        BY <3>1, <3>2, <3>3
    <2>3. QED
      BY <2>1, <2>2
  <1>4. QED
    BY <1>2, <1>3 DEF Orderly

-----------------------------------------------------------------------------
(* The leader asks, answers, and everybody leaves.                         *)

(* Only l runs.                                                            *)
LEMMA OnlyOneRuns ==
    ASSUME Inv, NEW p \in Payload, NEW c \in Requests, pc[c] \in Running
    PROVE  ~Calm(p) /\ \A l \in Requests : Chain(l, p) => l = c /\ ~done[c]
  BY DEF Calm, Chain, Asks, Inv, FlightInv, Leaders, Leading, Led, Running

(* l answers: with the token the IdP just made, or it asked with the one   *)
(* that is live and got no verdict.                                        *)
LEMMA AnswerOrderly ==
    ASSUME Inv, NEW p \in Payload, NEW l \in Requests, Chain(l, p), ~done[l],
           pc[l] = "leading", NEW r, F!Answer(l, r),
           UNCHANGED <<jar, step, since, body, setCookie, home>>,
           r \in Answer /\ r.outcome = "none",
           \/ r.verdict = "ok" /\ r.rt = cur'
           \/ r.verdict = "error" /\ p.rt = cur' /\ "outage" \in Faults
    PROVE  Chain(l, p)'
  <1>1. /\ pc'[l] = "answered" /\ res'[l] = r
        /\ \A m \in Requests \ {l} : pc'[m] = pc[m]
        /\ UNCHANGED <<now, done, finished, key, entered, joined>>
    BY DEF F!Answer, Inv, FlightInv, FlightsTyped
  <1>2. Asks(l, p)'
    BY <1>1 DEF Chain, Asks, Led
  <1>3. \A m \in Requests : AwaitedBy(l, p, m)'
    BY <1>1 DEF Chain, AwaitedBy
  <1>4. Verdict(l, p)'
    BY <1>1 DEF Verdict
  <1>5. Open(l, p)'
    BY <1>1, <1>4 DEF Chain, Open, OpenAt
  <1>6. QED
    BY <1>1, <1>2, <1>3, <1>5 DEF Chain

(* A leader is never refused while the SSO session exists.                 *)
LEMMA GrantOrderly ==
    ASSUME Inv, Prompt, sso, Orderly, NEW c \in Requests, GrantOk(c) \/ GrantFailed(c)
    PROVE  Orderly' /\ wronged' = wronged
  <1>1. step[c] = "grant" /\ pc[c] = "leading"
    BY DEF GrantOk, GrantFailed
  <1>2. PICK p \in Payload : Chain(c, p) /\ ~done[c]
    BY <1>1, OnlyOneRuns DEF Orderly, Running
  <1>3. body[c] = p /\ p.rt = cur /\ Honoured(p.rt)
    BY <1>1, <1>2 DEF Chain, Open, Honoured
  <1>4. cur \in Tokens /\ now \in Nat
    BY DEF Inv, JourneyTyped, FlightInv, FlightsTyped
  <1>5. ASSUME GrantOk(c)
        PROVE  Orderly' /\ wronged' = wronged
    <2>1. /\ Spend(c, p.rt, "grant") /\ F!Answer(c, Granted(c))
          /\ UNCHANGED <<jar, step, since, body, setCookie, home>>
      BY <1>3, <1>5 DEF GrantOk, Prompt
    <2>2. cur' \in Tokens /\ wronged' = wronged
      BY <1>3, <1>4, <2>1, SpendTyped DEF Inv
    <2>3. /\ Granted(c) \in Answer /\ Granted(c).outcome = "none"
          /\ Granted(c).verdict = "ok" /\ Granted(c).rt = cur'
      BY <1>4, <2>2 DEF Granted, Answer
    <2> HIDE DEF Granted
    <2>4. Chain(c, p)'
      BY <1>1, <1>2, <2>1, <2>3, AnswerOrderly
    <2>5. QED
      BY <2>2, <2>4 DEF Orderly
  <1>6. ASSUME GrantFailed(c)
        PROVE  Orderly' /\ wronged' = wronged
    <2> DEFINE r == [verdict |-> "error", rt |-> NoToken, at |-> now, outcome |-> "none"]
    <2>1. /\ F!Answer(c, r) /\ "outage" \in Faults /\ UNCHANGED idpVars
          /\ UNCHANGED <<jar, requestVars>>
      <3>1. "lost" \notin Faults
        BY DEF Prompt
      <3>2. ~Refuse(c, body[c].rt)
        BY <1>3 DEF Refuse
      <3>3. QED
        BY <1>6, <3>1, <3>2 DEF GrantFailed
    <2>2. r \in Answer /\ r.outcome = "none" /\ r.verdict = "error"
      BY <1>4 DEF Answer
    <2> HIDE DEF r
    <2>3. Chain(c, p)'
      BY <1>1, <1>2, <1>3, <2>1, <2>2, AnswerOrderly DEF idpVars, requestVars
    <2>4. QED
      BY <2>1, <2>3 DEF Orderly, idpVars
  <1>7. QED
    BY <1>5, <1>6

(* c leaves do with a child of l.                                          *)
LEMMA ServedOrderly ==
    ASSUME Inv, NEW p \in Payload, NEW l \in Requests, NEW c \in Requests,
           Punctual, Transit \in Nat,
           NEW s \in Payload, Served(c, s, s), Child(l, s),
           ~done[l] => c = l /\ Open(l, p), done[l] => c # l /\ Closed(l, p),
           Verdict(l, p), Asks(l, p),
           \A m \in Requests : AwaitedBy(l, p, m),
           now' = now, now <= finished'[l] + 2 * Transit,
           done'[l], finished'[l] = IF c = l THEN now ELSE finished[l],
           res'[l] = res[l], pc'[c] = "returned",
           \A m \in Requests \ {c} : pc'[m] = pc[m],
           \A m \in Requests : done[m] => done'[m],
           pc[c] # "idle",
           UNCHANGED <<key, entered, joined, cur, jar, home>>
    PROVE  Chain(l, p)'
  <1>1. /\ step'[c] = "serving" /\ setCookie'[c] = s /\ since'[c] = now /\ s # Keep
        /\ \A m \in Requests \ {c} : /\ step'[m] = step[m] /\ body'[m] = body[m]
                                     /\ setCookie'[m] = setCookie[m] /\ since'[m] = since[m]
    BY ValuesAssumption DEF Served, Inv, JourneyTyped, Punctual
  <1>2. /\ now \in Nat /\ finished[l] \in Nat
        /\ \A m \in Requests : since[m] \in Nat /\ since[m] <= now
    BY DEF Inv, FlightInv, FlightsTyped, Punctual
  <1>3. Asks(l, p)'
    BY DEF Asks, Led
  <1>4. \A m \in Requests : AwaitedBy(l, p, m)'
    BY <1>1 DEF AwaitedBy
  <1>5. Verdict(l, p)'
    BY DEF Verdict
  <1>6. ASSUME NEW q
        PROVE  Child(l, q)' <=> Child(l, q)
    BY DEF Child
  <1>7. ClosedAt(l, p, c)'
    BY <1>1, <1>6 DEF ClosedAt, Child
  <1>8. ASSUME NEW m \in Requests \ {c}
        PROVE  ClosedAt(l, p, m)'
    <2>1. CASE ~done[l]
      <3>1. OpenAt(p, m) /\ finished'[l] = now
        BY <2>1 DEF Open
      <3>2. since[m] <= finished'[l] + Transit
        BY <1>2, <3>1
      <3>3. QED
        BY <1>1, <3>1, <3>2 DEF OpenAt, ClosedAt
    <2>2. CASE done[l]
      <3>1. ClosedAt(l, p, m) /\ finished'[l] = finished[l]
        BY <2>2 DEF Closed
      <3>2. QED
        BY <1>1, <3>1 DEF ClosedAt, Child
    <2>3. QED
      BY <2>1, <2>2
  <1>9. \/ Child(l, jar)'
        \/ /\ jar' = p /\ step'[l] \in {"serving", "responded"}
           /\ since'[l] = finished'[l] /\ setCookie'[l] # Keep
    <2>1. CASE ~done[l]
      BY <1>1, <2>1 DEF Open
    <2>2. CASE done[l]
      BY <1>1, <2>2 DEF Closed, Child
    <2>3. QED
      BY <2>1, <2>2
  <1>10. QED
    BY <1>3, <1>4, <1>5, <1>7, <1>8, <1>9 DEF Chain, Closed

(* The leader publishes, and its waiters receive.                          *)
LEMMA LeaveOrderly ==
    ASSUME Inv, Prompt, Punctual, Orderly, NEW c \in Requests, pc[c] # "panicked",
           Publish(c) \/ Receive(c)
    PROVE  Orderly'
  <1>1. Transit \in Nat /\ now \in Nat
    BY PromptTimes DEF Inv, FlightInv, FlightsTyped
  <1>2. step[c] = "grant"
    BY PublishLeaves DEF Inv, Placed, Place, Prompt
  <1>3. ASSUME Publish(c)
        PROVE  Orderly'
    <2>1. /\ pc[c] = "answered" /\ Apply(c, res[c]) /\ F!Publish(c)
          /\ UNCHANGED <<idpVars, jar, home>>
      BY <1>3 DEF Publish, F!Publish
    <2>2. PICK p \in Payload : Chain(c, p) /\ ~done[c]
      BY <2>1, OnlyOneRuns DEF Orderly, Running
    <2>3. /\ Open(c, p) /\ Verdict(c, p) /\ body[c] = p /\ Asks(c, p) /\ joined[c] = c
      BY <2>1, <2>2 DEF Chain, Open, Asks, Led
    <2>4. entered[c] >= entered[c]
      BY DEF Inv, FlightInv, FlightsTyped
    <2>5. PICK s \in Payload : Child(c, s) /\ Served(c, s, s)
      BY <1>2, <2>1, <2>3, <2>4, VerdictApplied DEF Apply
    <2>6. /\ done'[c] /\ finished'[c] = now /\ res'[c] = res[c] /\ pc'[c] = "returned"
          /\ now' = now /\ UNCHANGED <<key, entered, joined>>
          /\ \A m \in Requests \ {c} : pc'[m] = pc[m] /\ done'[m] = done[m]
      BY <2>1 DEF F!Publish, F!Close, Inv, FlightInv, FlightsTyped
    <2>7. now <= finished'[c] + 2 * Transit
      BY <1>1, <2>6
    <2>8. UNCHANGED <<key, entered, joined, cur, jar, home>>
      BY <2>1, <2>6 DEF idpVars
    <2>9. Chain(c, p)'
      BY <1>1, <2>1, <2>2, <2>3, <2>5, <2>6, <2>7, <2>8, ServedOrderly DEF Chain
    <2>10. QED
      BY <2>9 DEF Orderly
  <1>4. ASSUME Receive(c)
        PROVE  Orderly'
    <2>1. /\ pc[c] = "waiting" /\ done[joined[c]] /\ Apply(c, res[joined[c]]) /\ F!Receive(c)
          /\ UNCHANGED <<idpVars, jar, home>>
      BY <1>4 DEF Receive, F!Receive
    <2>2. PICK p \in Payload, l \in Requests : Chain(l, p)
      BY <2>1 DEF Orderly, Calm
    <2>3. /\ joined[c] = l /\ body[c] = p /\ entered[c] >= entered[l] /\ done[l] /\ c # l
          /\ now <= finished[l] + 2 * Transit /\ Closed(l, p) /\ Verdict(l, p) /\ Asks(l, p)
      <3>1. /\ joined[c] = l /\ body[c] = p /\ entered[c] >= entered[l]
            /\ done[l] => now <= finished[l] + 2 * Transit
        BY <2>1, <2>2 DEF Chain, AwaitedBy
      <3>2. c # l
        BY <2>1, <3>1 DEF Inv, FlightInv, Leaders, Leading
      <3>3. QED
        BY <2>1, <2>2, <3>1, <3>2 DEF Chain, Closed
    <2>4. PICK s \in Payload : Child(l, s) /\ Served(c, s, s)
      BY <1>2, <2>1, <2>3, VerdictApplied DEF Apply
    <2>5. /\ pc'[c] = "returned" /\ UNCHANGED <<now, done, res, finished, key, entered, joined>>
          /\ \A m \in Requests \ {c} : pc'[m] = pc[m]
      BY <2>1 DEF F!Receive, Inv, FlightInv, FlightsTyped
    <2>6. UNCHANGED <<key, entered, joined, cur, jar, home>>
      BY <2>1, <2>5 DEF idpVars
    <2>7. Chain(l, p)'
      BY <1>1, <2>1, <2>2, <2>3, <2>4, <2>5, <2>6, ServedOrderly DEF Chain
    <2>8. QED
      BY <2>7 DEF Orderly
  <1>5. QED
    BY <1>3, <1>4

(* Time passes only when nobody waits for a call that is done.             *)
LEMMA TickOrderly ==
    ASSUME Inv, Orderly, Tick
    PROVE  Orderly'
  <1>1. /\ UNCHANGED <<idpVars, jar, requestVars>>
        /\ UNCHANGED <<calls, done, res, finished, pc, key, entered, joined, ret>>
        /\ \A c \in Requests : pc[c] = "waiting" => ~done[joined[c]]
    BY DEF Tick, F!Tick
  <1> USE DEF idpVars, requestVars
  <1>2. ASSUME NEW p \in Payload, Calm(p)
        PROVE  Calm(p)'
    BY <1>1, <1>2 DEF Calm, Led
  <1>3. ASSUME NEW p \in Payload, NEW l \in Requests, Chain(l, p)
        PROVE  Chain(l, p)'
    <2>1. Asks(l, p)'
      BY <1>1, <1>3 DEF Chain, Asks, Led
    <2>2. \A c \in Requests : AwaitedBy(l, p, c)'
      BY <1>1, <1>3 DEF Chain, AwaitedBy
    <2>3. Open(l, p) => Open(l, p)'
      BY <1>1 DEF Open, OpenAt, Verdict
    <2>4. Closed(l, p) => Closed(l, p)'
      BY <1>1 DEF Closed, ClosedAt, Verdict, Child
    <2>5. QED
      BY <1>1, <1>3, <2>1, <2>2, <2>3, <2>4 DEF Chain
  <1>4. QED
    BY <1>2, <1>3 DEF Orderly

-----------------------------------------------------------------------------
(* The invariant, and what it says.                                        *)

(* Everybody holds the first cookie.                                       *)
LEMMA PromptInit ==
    ASSUME Init
    PROVE  PromptInv
  <1> USE DEF Init
  <1>1. FirstCookie \in Payload /\ FirstCookie.rt = 0
    BY RevalidationAssumption, ConfigAssumption DEF FirstCookie, Payload, Tokens
  <1>2. Punctual
    BY RevalidationAssumption DEF Punctual, Travelling
  <1> DEFINE p == FirstCookie
  <1>3. p \in Payload /\ p.rt = cur /\ jar = p
    BY <1>1
  <1> HIDE DEF p
  <1>4. Calm(p)
    BY <1>3 DEF Calm, Led
  <1>5. QED
    BY <1>2, <1>3, <1>4 DEF PromptInv, Orderly

(* Every step keeps it.                                                    *)
LEMMA PromptStep ==
    ASSUME Inv, Prompt, PromptInv, Next
    PROVE  PromptInv'
  <1> DEFINE Good == wronged' = wronged /\ (sso' => Orderly')
  <1>1. /\ forgotten = {} /\ Punctual /\ wronged = {} /\ (sso => Orderly)
        /\ \A c \in Requests : pc[c] # "panicked"
    BY DEF PromptInv
  <1>2. forgotten' = {} /\ Punctual'
    BY <1>1, PromptSteps, PunctualStep
  <1>3. ASSUME NEW c \in Requests,
               Send(c) \/ ArriveAsIs(c) \/ ArriveBare(c) \/ Respond(c) \/ Deliver(c)
        PROVE  Good /\ UNCHANGED pc
    <2>1. Alone(c) /\ Moves(c)
      BY <1>1, <1>3, AloneSteps
    <2>2. UNCHANGED <<sso, wronged, pc>>
      BY <2>1 DEF Alone, idpVars, flightVars
    <2>3. Orderly => Orderly'
      BY <1>1, <2>1, CalmAlone, ChainAlone DEF Orderly
    <2>4. QED
      BY <1>1, <2>2, <2>3
  <1>4. ASSUME NEW c \in Requests, ArriveDue(c)
        PROVE  Good /\ \A l \in Requests : pc'[l] # "panicked"
    <2>1. UNCHANGED <<sso, wronged>>
      BY <1>4 DEF ArriveDue, idpVars
    <2>2. \A l \in Requests : pc'[l] # "panicked"
      BY <1>1, <1>4 DEF ArriveDue, F!Enter, Inv, FlightInv, FlightsTyped
    <2>3. QED
      BY <1>1, <1>4, <2>1, <2>2, DueOrderly
  <1>5. ASSUME NEW c \in Requests, GrantOk(c) \/ GrantFailed(c)
        PROVE  Good /\ \A l \in Requests : pc'[l] # "panicked"
    <2>1. PICK r : F!Answer(c, r)
      BY <1>5 DEF GrantOk, GrantFailed, Prompt
    <2>2. \A l \in Requests : pc'[l] # "panicked"
      BY <1>1, <2>1 DEF F!Answer, Inv, FlightInv, FlightsTyped
    <2>3. sso' = sso /\ (~sso => wronged' = wronged)
      BY <1>5 DEF GrantOk, GrantFailed, Spend, Refuse, Honoured, idpVars
    <2>4. QED
      BY <1>1, <1>5, <2>2, <2>3, GrantOrderly
  <1>6. ASSUME NEW c \in Requests, Publish(c) \/ Receive(c)
        PROVE  Good /\ \A l \in Requests : pc'[l] # "panicked"
    <2>1. UNCHANGED <<sso, wronged>>
      BY <1>6 DEF Publish, Receive, idpVars
    <2>2. \A l \in Requests : pc'[l] # "panicked"
      BY <1>1, <1>6 DEF Publish, Receive, F!Publish, F!Receive, Inv, FlightInv, FlightsTyped
    <2>3. QED
      BY <1>1, <1>6, <2>1, <2>2, LeaveOrderly
  <1>7. ASSUME EndSSO
        PROVE  Good /\ UNCHANGED pc
    BY <1>7 DEF EndSSO, flightVars
  <1>8. ASSUME Tick
        PROVE  Good /\ UNCHANGED pc
    <2>1. UNCHANGED <<sso, wronged, pc>>
      BY <1>8 DEF Tick, F!Tick, idpVars
    <2>2. QED
      BY <1>1, <1>8, <2>1, TickOrderly
  <1>9. Good /\ \A l \in Requests : pc'[l] # "panicked"
    BY <1>1, <1>3, <1>4, <1>5, <1>6, <1>7, <1>8, PromptSteps
  <1>10. QED
    BY <1>1, <1>2, <1>9 DEF PromptInv

(* Nothing happens.                                                        *)
LEMMA PromptStutter ==
    ASSUME PromptInv, UNCHANGED vars
    PROVE  PromptInv'
  <1> USE DEF vars, flightVars, requestVars, idpVars
  <1>1. Punctual'
    BY DEF PromptInv, Punctual, Travelling
  <1>2. ASSUME NEW p, Calm(p)
        PROVE  Calm(p)'
    BY <1>2 DEF Calm, Led
  <1>3. ASSUME NEW p, NEW l, Chain(l, p)
        PROVE  Chain(l, p)'
    <2>1. Asks(l, p)' /\ \A c \in Requests : AwaitedBy(l, p, c)'
      BY <1>3 DEF Chain, Asks, AwaitedBy, Led
    <2>2. Open(l, p) => Open(l, p)'
      BY DEF Open, OpenAt, Verdict
    <2>3. Closed(l, p) => Closed(l, p)'
      BY DEF Closed, ClosedAt, Verdict, Child
    <2>4. QED
      BY <1>3, <2>1, <2>2, <2>3 DEF Chain
  <1>4. QED
    BY <1>1, <1>2, <1>3 DEF PromptInv, Orderly

(***************************************************************************)
(* One revalidation follows the other: at any time the browser, its        *)
(* requests and their responses hold one payload, or that payload and what *)
(* the single flight asked about it makes of it.                           *)
(***************************************************************************)
THEOREM PromptInvHolds ==
    ASSUME Prompt
    PROVE  Spec => []PromptInv
  <1>1. Init => PromptInv
    BY PromptInit
  <1>2. Inv /\ PromptInv /\ [Next]_vars => PromptInv'
    BY PromptStep, PromptStutter
  <1>3. QED
    BY <1>1, <1>2, InvHolds, PTL DEF Spec

(***************************************************************************)
(* go-vai-oidc#19: the requests of one browser never sign its session out. *)
(* On one replica, with prompt requests and no lost answer, invalid_grant  *)
(* is the IdP's verdict that the SSO session ended and nothing else, for   *)
(* any number of requests, with and without rotation, and through outages  *)
(* of the IdP.                                                             *)
(***************************************************************************)
THEOREM NeverSignedOutByOneself ==
    ASSUME Prompt
    PROVE  Spec => []NoSelfSignOut
  <1>1. PromptInv => NoSelfSignOut
    BY DEF PromptInv, NoSelfSignOut
  <1>2. QED
    BY <1>1, PromptInvHolds, PTL

(***************************************************************************)
(* Under the same hypothesis no interleaving of shared answers and late    *)
(* responses loses a rotation: when everything has settled, the browser    *)
(* holds the refresh token the IdP would honour.                           *)
(***************************************************************************)
THEOREM RotationsNotLost ==
    ASSUME Prompt
    PROVE  Spec => []RotationNotLost
  <1>1. Inv /\ PromptInv => RotationNotLost
    <2> SUFFICES ASSUME Inv, PromptInv, \A c \in Requests : step[c] \in {"idle", "delivered"},
                        sso
                 PROVE  jar.rt = cur
      BY DEF RotationNotLost, Honoured
    <2>1. PICK p \in Payload : Calm(p) \/ \E l \in Requests : Chain(l, p)
      BY DEF PromptInv, Orderly
    <2>2. ASSUME NEW l \in Requests, Chain(l, p)
          PROVE  jar.rt = cur
      <3>1. done[l]
        <4>1. forgotten = {} /\ Led(l)
          BY <2>2 DEF PromptInv, Chain, Asks
        <4>2. pc[l] \notin Running
          BY DEF Inv, Placed, Place
        <4>3. QED
          BY <4>1, <4>2 DEF Inv, FlightInv, Leaders, Leading
      <3>2. Child(l, jar)
        BY <2>2, <3>1 DEF Chain, Closed
      <3>3. QED
        BY <3>2 DEF Child
    <2>3. QED
      BY <2>1, <2>2 DEF Calm
  <1>2. QED
    BY <1>1, InvHolds, PromptInvHolds, PTL

-----------------------------------------------------------------------------
(* How long a session can outlive the sign-out at the IdP, whatever fails. *)

AgeBound == RevalidateFlightRetention + RevalidateSharedTimeout

(* A payload lives for one SessionTTL from a stamp of the past.  The last  *)
(* stamp that says "the IdP vouched" was made within the age of an answer  *)
(* of the sign-out; a pending resolver retry may slide Exp once more, from *)
(* an anchor that a backoff moved, and is then no longer pending.          *)
Mortal(p) ==
    /\ p.exp <= now + SessionTTL
    /\ ~sso => \/ p.exp < ssoEnd + AgeBound + SessionTTL
               \/ /\ ReresolveOnRevalidate /\ p.rra = 0
                  /\ p.exp < ssoEnd + AgeBound + 2 * SessionTTL

\* What a request knew of its payload when it asked.
Timely(c) ==
    /\ step[c] \in {"grant", "resolve"} =>
          clk[c] <= body[c].exp /\ body[c].exp <= clk[c] + SessionTTL
    /\ step[c] = "resolve" => body[c].rra > 0 /\ body[c].lv <= clk[c]

MortalInv ==
    /\ jar \in Payload => Mortal(jar)
    /\ \A c \in Requests : /\ body[c] \in Payload => Mortal(body[c])
                           /\ setCookie[c] \in Payload => Mortal(setCookie[c])
                           /\ Timely(c)

(* Time passes, or the SSO session ends, and no payload has to change.     *)
LEMMA MortalKept ==
    ASSUME Inv, NEW p \in Payload, Mortal(p), now' \in Nat, now <= now',
           \/ UNCHANGED <<sso, ssoEnd>>
           \/ sso /\ ssoEnd' = now
    PROVE  Mortal(p)'
  <1>1. /\ p.exp \in Int /\ now \in Nat /\ SessionTTL \in Nat
        /\ AgeBound \in Nat /\ AgeBound > 0
    BY RevalidationAssumption, ConfigAssumption
    DEF Payload, Inv, FlightInv, FlightsTyped, AgeBound
  <1>2. p.exp <= now' + SessionTTL
    BY <1>1 DEF Mortal
  <1>3. CASE UNCHANGED <<sso, ssoEnd>>
    BY <1>2, <1>3 DEF Mortal, AgeBound
  <1>4. CASE sso /\ ssoEnd' = now
    <2>1. p.exp < ssoEnd' + AgeBound + SessionTTL
      BY <1>1, <1>4 DEF Mortal
    <2>2. QED
      BY <1>2, <2>1 DEF Mortal, AgeBound
  <1>5. QED
    BY <1>3, <1>4

(* A step that only passes mortal payloads on.                             *)
LEMMA MortalFramed ==
    ASSUME Inv, Inv', MortalInv, now <= now',
           UNCHANGED <<sso, ssoEnd>> \/ (sso /\ ssoEnd' = now),
           jar' \in Payload => Mortal(jar'),
           \A l \in Requests :
              /\ body'[l] \in Payload => Mortal(body'[l])
              /\ setCookie'[l] \in Payload => Mortal(setCookie'[l])
              /\ \/ step'[l] \notin {"grant", "resolve"}
                 \/ step'[l] = step[l] /\ body'[l] = body[l] /\ clk'[l] = clk[l]
                 \/ Timely(l)'
    PROVE  MortalInv'
  <1>1. now' \in Nat
    BY DEF Inv, FlightInv, FlightsTyped
  <1>2. ASSUME NEW p \in Payload, Mortal(p)
        PROVE  Mortal(p)'
    BY <1>1, <1>2, MortalKept
  <1>3. ASSUME NEW l \in Requests
        PROVE  Timely(l)'
    BY DEF MortalInv, Timely
  <1>4. QED
    BY <1>2, <1>3 DEF MortalInv

(* Payloads change hands and nothing else happens to them.                 *)
LEMMA MortalPassed ==
    ASSUME Inv, Inv', MortalInv, now <= now',
           UNCHANGED <<sso, ssoEnd>> \/ (sso /\ ssoEnd' = now),
           jar' = jar \/ \E l \in Requests : jar' = setCookie[l],
           \A l \in Requests :
              /\ body'[l] \in {body[l], jar, NoSession}
              /\ setCookie'[l] \in {setCookie[l], body[l], NoSession, Keep}
              /\ \/ step'[l] \notin {"grant", "resolve"}
                 \/ step'[l] = step[l] /\ body'[l] = body[l] /\ clk'[l] = clk[l]
    PROVE  MortalInv'
  <1>1. jar' \in Payload => Mortal(jar')
    BY DEF MortalInv
  <1>2. \A l \in Requests : /\ body'[l] \in Payload => Mortal(body'[l])
                            /\ setCookie'[l] \in Payload => Mortal(setCookie'[l])
    BY ValuesAssumption DEF MortalInv
  <1>3. QED
    BY <1>1, <1>2, MortalFramed

(* The fields of the writers of session.go that decide how long a session  *)
(* lives.                                                                  *)
LEMMA LifeFields ==
    ASSUME NEW p \in Payload, NEW t \in Nat, NEW l \in Requests,
           NEW rt \in Tokens \cup {NoToken}
    PROVE  /\ [p EXCEPT !.from = {l}].exp = p.exp /\ [p EXCEPT !.from = {l}].rra = p.rra
           /\ Refreshed(p, rt, 0).exp = p.exp
           /\ Stamped(p, t).exp = t + SessionTTL
           /\ SoftResolved(p, t).exp = p.exp
           /\ PersistBackoff(p, t).exp = p.exp /\ PersistBackoff(p, t).rra = p.rra
           /\ RetrySoft(p, t).exp = p.exp
           /\ RetryApplied(p, t).rra = 0
           /\ RetryApplied(p, t).exp =
                 IF p.lv + SessionTTL > p.exp THEN p.lv + SessionTTL ELSE p.exp
           /\ AccessTokenStored(p, rt).exp = p.exp /\ AccessTokenStored(p, rt).rra = p.rra
  <1>1. [p EXCEPT !.from = {l}].exp = p.exp /\ [p EXCEPT !.from = {l}].rra = p.rra
    BY DEF Payload
  <1>2. Refreshed(p, rt, 0).exp = p.exp
    BY DEF Payload, Refreshed
  <1>3. Stamped(p, t).exp = t + SessionTTL
    BY DEF Payload, Stamped
  <1>4. SoftResolved(p, t).exp = p.exp
    BY DEF Payload, SoftResolved
  <1>5. PersistBackoff(p, t).exp = p.exp /\ PersistBackoff(p, t).rra = p.rra
    BY DEF Payload, PersistBackoff
  <1>6. RetrySoft(p, t).exp = p.exp
    BY DEF Payload, RetrySoft
  <1>7. RetryApplied(p, t).rra = 0
    BY DEF Payload, RetryApplied
  <1>8. RetryApplied(p, t).exp = IF p.lv + SessionTTL > p.exp THEN p.lv + SessionTTL ELSE p.exp
    BY DEF Payload, RetryApplied
  <1>9. AccessTokenStored(p, rt).exp = p.exp /\ AccessTokenStored(p, rt).rra = p.rra
    BY DEF Payload, AccessTokenStored
  <1>10. QED
    BY <1>1, <1>2, <1>3, <1>4, <1>5, <1>6, <1>7, <1>8, <1>9

(* The grant's answer: a backoff leaves Exp alone, and a stamp was made    *)
(* within the age of an answer of the sign-out.                            *)
LEMMA GrantMortal ==
    ASSUME Inv, MortalInv, NEW c \in Requests, step[c] = "grant",
           NEW a \in Answer \cup {Abandoned}, ApplyGrant(c, a),
           a \in Answer => clk[c] < a.at + AgeBound,
           (~sso /\ a \in Answer /\ a.verdict = "ok") => a.at <= ssoEnd
    PROVE  \/ Served(c, NoSession, NoSession)
           \/ \E s \in Payload : Served(c, s, s) /\ Mortal(s)
  <1> DEFINE p == [body[c] EXCEPT !.from = {joined[c]}]
             q == Refreshed(p, a.rt, 0)
  <1>1. /\ body[c] \in Payload /\ joined[c] \in Requests /\ clk[c] \in Nat
        /\ RevalidateInterval > 0 /\ now \in Nat /\ clk[c] <= now /\ ssoEnd \in Nat
        /\ body[c].exp \in Int
    BY DEF Inv, FlightInv, FlightsTyped, JourneyTyped, Placed, Place, FloorDue, Payload
  <1>2. Mortal(body[c]) /\ body[c].exp <= clk[c] + SessionTTL
    BY <1>1 DEF MortalInv, Timely
  <1>3. SessionTTL \in Nat /\ AgeBound \in Nat
    BY RevalidationAssumption, ConfigAssumption DEF AgeBound
  <1>4. 0 \in Nat /\ NoToken \in Tokens \cup {NoToken}
    OBVIOUS
  <1>5. p \in Payload /\ p.exp = body[c].exp /\ p.rra = body[c].rra
    BY <1>1, <1>4, MarkedFacts, LifeFields
  <1>6. CASE a = Abandoned \/ a.verdict = "error"
    <2> DEFINE s == PersistBackoff(p, clk[c])
    <2>1. Served(c, s, s)
      BY <1>6 DEF ApplyGrant
    <2> HIDE DEF p
    <2>2. s \in Payload
      BY <1>1, <1>5, StampFacts
    <2>3. s.exp = body[c].exp /\ s.rra = body[c].rra
      BY <1>1, <1>4, <1>5, LifeFields
    <2> HIDE DEF s
    <2>4. Mortal(s)
      BY <1>2, <2>3 DEF Mortal
    <2>5. QED
      BY <2>1, <2>2, <2>4
  <1>7. CASE a # Abandoned /\ a.verdict = "invalid"
    BY <1>7 DEF ApplyGrant
  <1>8. CASE a # Abandoned /\ a.verdict = "ok"
    <2>1. a \in Answer /\ a.rt \in Tokens \cup {NoToken} /\ a.at \in Nat
      BY <1>8 DEF Answer
    <2>2. \/ Served(c, NoSession, NoSession)
          \/ Served(c, SoftResolved(q, clk[c]), SoftResolved(q, clk[c]))
          \/ Served(c, Stamped(q, clk[c]), Stamped(q, clk[c]))
      BY <1>8 DEF ApplyGrant
    <2> HIDE DEF p
    <2>3. q \in Payload /\ q.exp = body[c].exp
      BY <1>1, <1>4, <1>5, <2>1, RefreshedFacts, LifeFields
    <2> HIDE DEF q
    <2>4. SoftResolved(q, clk[c]) \in Payload /\ Stamped(q, clk[c]) \in Payload
      BY <1>1, <2>3, StampFacts
    <2>5. SoftResolved(q, clk[c]).exp = body[c].exp /\ Stamped(q, clk[c]).exp = clk[c] + SessionTTL
      BY <1>1, <1>4, <2>3, LifeFields
    <2>6. ~sso => clk[c] < ssoEnd + AgeBound
      BY <1>1, <1>3, <1>8, <2>1
    <2>7. \A s \in Payload : s.exp <= clk[c] + SessionTTL => Mortal(s)
      <3> SUFFICES ASSUME NEW s \in Payload, s.exp <= clk[c] + SessionTTL
                   PROVE  Mortal(s)
        OBVIOUS
      <3>1. s.exp \in Int
        BY DEF Payload
      <3>2. s.exp <= now + SessionTTL /\ (~sso => s.exp < ssoEnd + AgeBound + SessionTTL)
        BY <1>1, <1>3, <2>6, <3>1
      <3>3. QED
        BY <3>2 DEF Mortal
    <2>8. clk[c] + SessionTTL <= clk[c] + SessionTTL
      BY <1>1, <1>3
    <2>9. Mortal(SoftResolved(q, clk[c])) /\ Mortal(Stamped(q, clk[c]))
      BY <1>2, <2>4, <2>5, <2>7, <2>8
    <2>10. QED
      BY <2>2, <2>4, <2>9
  <1>9. QED
    BY <1>6, <1>7, <1>8 DEF Answer

(* A resolver-only retry slides Exp by what the anchor allows, once.       *)
LEMMA RetryMortal ==
    ASSUME Inv, MortalInv, NEW c \in Requests, step[c] = "resolve",
           NEW a \in Answer \cup {Abandoned}, ApplyResolve(c, a)
    PROVE  \/ Served(c, NoSession, NoSession)
           \/ \E s \in Payload : (Served(c, s, s) \/ Served(c, s, Keep)) /\ Mortal(s)
  <1> DEFINE p == body[c]
  <1>1. /\ p \in Payload /\ clk[c] \in Nat /\ now \in Nat /\ clk[c] <= now /\ ssoEnd \in Nat
        /\ p.exp \in Int /\ p.lv \in Int /\ p.rra \in Int
        /\ ReresolveOnRevalidate
    BY DEF Inv, FlightInv, FlightsTyped, JourneyTyped, Placed, Place, Payload
  <1>2. Mortal(p) /\ clk[c] <= p.exp /\ p.exp <= clk[c] + SessionTTL /\ p.rra > 0 /\ p.lv <= clk[c]
    BY <1>1 DEF MortalInv, Timely
  <1>3. SessionTTL \in Nat /\ AgeBound \in Nat /\ RevalidateInterval > 0
    BY <1>1, RevalidationAssumption, ConfigAssumption DEF AgeBound
  <1>4. \/ Served(c, p, Keep) \/ Served(c, NoSession, NoSession)
        \/ Served(c, RetrySoft(p, clk[c]), RetrySoft(p, clk[c]))
        \/ Served(c, RetryApplied(p, clk[c]), RetryApplied(p, clk[c]))
    BY DEF ApplyResolve
  <1> HIDE DEF p
  <1>5. p.exp <= now + SessionTTL /\ (~sso => p.exp < ssoEnd + AgeBound + SessionTTL)
    BY <1>1, <1>2 DEF Mortal
  <1>6. NoToken \in Tokens \cup {NoToken} /\ c \in Requests
    OBVIOUS
  <1>7. RetrySoft(p, clk[c]) \in Payload /\ RetryApplied(p, clk[c]) \in Payload
    BY <1>1, <1>3, <1>6, AnchorKept
  <1>8. /\ RetrySoft(p, clk[c]).exp = p.exp /\ RetryApplied(p, clk[c]).rra = 0
        /\ RetryApplied(p, clk[c]).exp = IF p.lv + SessionTTL > p.exp THEN p.lv + SessionTTL ELSE p.exp
    BY <1>1, <1>6, LifeFields
  <1>9. Mortal(RetrySoft(p, clk[c]))
    BY <1>5, <1>8 DEF Mortal
  <1>10. /\ RetryApplied(p, clk[c]).exp <= now + SessionTTL
         /\ ~sso => RetryApplied(p, clk[c]).exp < ssoEnd + AgeBound + 2 * SessionTTL
    BY <1>1, <1>2, <1>3, <1>5, <1>8
  <1>11. Mortal(RetryApplied(p, clk[c]))
    BY <1>1, <1>8, <1>10 DEF Mortal
  <1>12. QED
    BY <1>1, <1>2, <1>4, <1>7, <1>9, <1>11

(* Publish, Receive and Cancel.                                            *)
LEMMA LeavesMortal ==
    ASSUME Inv, MortalInv, NEW c \in Requests, Publish(c) \/ Receive(c) \/ Cancel(c)
    PROVE  \/ Served(c, NoSession, NoSession) \/ Served(c, NoSession, Keep)
           \/ \E s \in Payload : (Served(c, s, s) \/ Served(c, s, Keep)) /\ Mortal(s)
  <1>1. pc[c] \in {"answered", "panicked", "waiting"}
    BY DEF Publish, Receive, Cancel, F!Publish, F!Receive, F!Cancel
  <1>2. step[c] \in {"grant", "resolve"} /\ clk[c] = entered[c]
    BY <1>1 DEF Inv, Placed, Place, Running
  <1>3. pc[c] \in {"answered", "waiting"} => Led(joined[c]) /\ key[joined[c]] = key[c]
    BY DEF Inv, FlightInv, Leaders, Leading, Waiters, Running, Led
  <1>4. key[c] = FlightKey(home[c], step[c], body[c])
    BY <1>2 DEF Inv, Placed, Place
  <1>5. key[c][2] = step[c]
    BY <1>4, KeyFacts
  <1>6. joined[c] \in Requests
    BY DEF Inv, FlightInv, FlightsTyped
  <1> DEFINE Out == \/ Served(c, NoSession, NoSession) \/ Served(c, NoSession, Keep)
                    \/ \E s \in Payload : (Served(c, s, s) \/ Served(c, s, Keep)) /\ Mortal(s)
  <1>7. ASSUME NEW a \in Answer \cup {Abandoned}, Apply(c, a),
               a \in Answer => clk[c] < a.at + AgeBound,
               (~sso /\ step[c] = "grant" /\ a \in Answer /\ a.verdict = "ok") => a.at <= ssoEnd
        PROVE  Out
    <2>1. CASE step[c] = "grant"
      BY <1>7, <2>1, GrantMortal DEF Apply
    <2>2. CASE step[c] = "resolve"
      BY <1>7, <2>2, RetryMortal DEF Apply
    <2>3. QED
      BY <1>2, <2>1, <2>2
  <1>8. ASSUME pc[c] = "answered" \/ (pc[c] = "waiting" /\ done[joined[c]]),
               Apply(c, res[joined[c]])
        PROVE  Out
    <2> DEFINE a == res[joined[c]]
    <2>1. a \in Answer \cup {Abandoned}
      BY <1>6, <1>8 DEF Inv, FlightInv, FlightsTyped, Given, Answering, Results,
                        Leaders, Leading, Running
    <2>2. a \in Answer => clk[c] < a.at + AgeBound
      <3>1. a \in Answer => entered[c] < a.at + RevalidateFlightRetention + RevalidateSharedTimeout
        BY <1>8, AnswerAge
      <3>2. a \in Answer => a.at \in Nat
        BY DEF Answer
      <3>3. QED
        BY <1>2, <3>1, <3>2, RevalidationAssumption DEF AgeBound
    <2>3. (~sso /\ step[c] = "grant" /\ a \in Answer /\ a.verdict = "ok") => a.at <= ssoEnd
      BY <1>3, <1>5, <1>6, <1>8 DEF Inv, Dated
    <2> HIDE DEF a, Out
    <2>4. Apply(c, a)
      BY <1>8 DEF a
    <2>5. QED
      BY <1>7, <2>1, <2>2, <2>3, <2>4
  <1>9. ASSUME Publish(c), pc[c] = "panicked"
        PROVE  Out
    BY <1>9 DEF Publish
  <1>10. ASSUME Publish(c), pc[c] = "answered"
         PROVE  Out
    <2>1. joined[c] = c
      BY <1>10 DEF Inv, FlightInv, Leaders, Leading, Running
    <2> HIDE DEF Out
    <2>2. QED
      BY <1>8, <1>10, <2>1 DEF Publish
  <1>11. ASSUME Receive(c)
         PROVE  Out
    <2> HIDE DEF Out
    <2>1. QED
      BY <1>8, <1>11 DEF Receive, F!Receive
  <1>12. ASSUME Cancel(c)
         PROVE  Out
    <2>1. Apply(c, Abandoned) /\ Abandoned \notin Answer
      BY <1>12, ValuesAssumption DEF Cancel
    <2> HIDE DEF Out
    <2>2. QED
      BY <1>7, <2>1
  <1> HIDE DEF Out
  <1>13. Out
    BY <1>9, <1>10, <1>11, <1>12 DEF Publish, F!Publish
  <1>14. QED
    BY <1>13 DEF Out

(* The steps that ask nobody and write nothing new.                        *)
LEMMA QuietMortal ==
    ASSUME Inv, Inv', MortalInv, Onward, NEW c \in Requests,
           \/ Send(c) \/ ArriveAsIs(c) \/ ArriveBare(c)
           \/ GrantOk(c) \/ GrantFailed(c) \/ Resolve(c) \/ Panic(c)
           \/ UpdateSession(c) \/ Respond(c) \/ Deliver(c)
    PROVE  MortalInv'
  <1>1. now <= now'
    BY DEF Onward
  <1>2. /\ body \in [Requests -> Payload \cup {NoSession}]
        /\ setCookie \in [Requests -> Payload \cup {NoSession, Keep}]
        /\ step \in [Requests -> Steps] /\ clk \in [Requests -> Nat]
    BY DEF Inv, JourneyTyped
  <1>3. ASSUME Send(c)
        PROVE  MortalInv'
    <2>1. /\ UNCHANGED <<sso, ssoEnd, jar, setCookie, clk>>
          /\ body' = [body EXCEPT ![c] = jar] /\ step' = [step EXCEPT ![c] = "sent"]
      BY <1>3 DEF Send, idpVars
    <2>2. \A l \in Requests :
              /\ body'[l] \in {body[l], jar, NoSession}
              /\ setCookie'[l] \in {setCookie[l], body[l], NoSession, Keep}
              /\ \/ step'[l] \notin {"grant", "resolve"}
                 \/ step'[l] = step[l] /\ body'[l] = body[l] /\ clk'[l] = clk[l]
      BY <1>2, <2>1
    <2>3. QED
      BY <1>1, <2>1, <2>2, MortalPassed
  <1>4. ASSUME ArriveAsIs(c) \/ ArriveBare(c)
        PROVE  MortalInv'
    <2>1. /\ UNCHANGED <<sso, ssoEnd, jar>>
          /\ clk' = [clk EXCEPT ![c] = now] \/ UNCHANGED clk
          /\ Served(c, NoSession, Keep) \/ Served(c, body[c], Keep)
      BY <1>4 DEF ArriveAsIs, ArriveBare, idpVars
    <2>2. PICK p \in {NoSession, body[c]} : Served(c, p, Keep)
      BY <2>1
    <2>3. \A l \in Requests :
              /\ body'[l] \in {body[l], jar, NoSession}
              /\ setCookie'[l] \in {setCookie[l], body[l], NoSession, Keep}
              /\ \/ step'[l] \notin {"grant", "resolve"}
                 \/ step'[l] = step[l] /\ body'[l] = body[l] /\ clk'[l] = clk[l]
      BY <1>2, <2>1, <2>2 DEF Served
    <2>4. QED
      BY <1>1, <2>1, <2>3, MortalPassed
  <1>5. ASSUME GrantOk(c) \/ GrantFailed(c) \/ Resolve(c) \/ Panic(c)
        PROVE  MortalInv'
    <2>1. UNCHANGED <<sso, ssoEnd, jar, setCookie, body, step, clk>>
      BY <1>5 DEF GrantOk, GrantFailed, Resolve, Panic, Spend, Refuse, idpVars, requestVars
    <2>2. QED
      BY <1>1, <2>1, MortalPassed
  <1>6. ASSUME UpdateSession(c)
        PROVE  MortalInv'
    <2>1. /\ UNCHANGED <<sso, ssoEnd, jar, body, step, clk>>
          /\ setCookie' = [setCookie EXCEPT ![c] = body[c]]
      BY <1>6 DEF UpdateSession, idpVars
    <2>2. \A l \in Requests : setCookie'[l] \in {setCookie[l], body[l], NoSession, Keep}
      BY <1>2, <2>1
    <2>3. QED
      BY <1>1, <2>1, <2>2, MortalPassed
  <1>7. ASSUME Respond(c) \/ Deliver(c)
        PROVE  MortalInv'
    <2>1. /\ UNCHANGED <<sso, ssoEnd, clk>>
          /\ jar' \in {jar, setCookie[c]}
          /\ \E k \in {"responded", "delivered"} : step' = [step EXCEPT ![c] = k]
          /\ body' \in {body, [body EXCEPT ![c] = NoSession]}
          /\ setCookie' \in {setCookie, [setCookie EXCEPT ![c] = Keep]}
      BY <1>7 DEF Respond, Deliver, idpVars
    <2>2. \A l \in Requests :
              /\ body'[l] \in {body[l], jar, NoSession}
              /\ setCookie'[l] \in {setCookie[l], body[l], NoSession, Keep}
      BY <1>2, <2>1
    <2>3. \A l \in Requests :
              \/ step'[l] \notin {"grant", "resolve"}
              \/ step'[l] = step[l] /\ body'[l] = body[l] /\ clk'[l] = clk[l]
      BY <1>2, <2>1
    <2>4. QED
      BY <1>1, <2>1, <2>2, <2>3, MortalPassed
  <1>8. QED
    BY <1>3, <1>4, <1>5, <1>6, <1>7

(* A request asks about a payload that has not expired, on its own clock.  *)
LEMMA DueMortal ==
    ASSUME Inv, Inv', MortalInv, NEW c \in Requests, ArriveDue(c)
    PROVE  MortalInv'
  <1>1. /\ step[c] = "sent" /\ ~Expired(body[c], now)
        /\ clk' = [clk EXCEPT ![c] = now]
        /\ UNCHANGED <<sso, ssoEnd, jar, body, setCookie>>
    BY DEF ArriveDue, idpVars
  <1>2. now' = now
    BY DEF ArriveDue, F!Enter
  <1>3. /\ body[c] \in Payload /\ body[c].exp \in Int /\ body[c].lv \in Int
        /\ now \in Nat /\ Mortal(body[c]) /\ Sound(body[c])
    BY <1>1 DEF Inv, Placed, Place, FlightInv, FlightsTyped, AllSound, MortalInv, Payload
  <1>4. PICK kind \in {"grant", "resolve"} :
           /\ step' = [step EXCEPT ![c] = kind]
           /\ kind = "resolve" => ReresolveOnRevalidate /\ body[c].rra > 0
    BY DEF ArriveDue, ResolveRetryDue
  <1>5. /\ step'[c] = kind /\ clk'[c] = now
        /\ \A l \in Requests \ {c} : step'[l] = step[l] /\ clk'[l] = clk[l]
    BY <1>1, <1>4 DEF Inv, JourneyTyped
  <1>6. now <= body[c].exp /\ body[c].exp <= now + SessionTTL
    BY <1>1, <1>3 DEF Expired, Mortal
  <1>7. kind = "resolve" => body[c].lv <= now
    BY <1>3, <1>4, ConfigAssumption DEF Sound
  <1>8. Timely(c)'
    BY <1>1, <1>4, <1>5, <1>6, <1>7 DEF Timely
  <1>9. \A l \in Requests :
           \/ step'[l] \notin {"grant", "resolve"}
           \/ step'[l] = step[l] /\ body'[l] = body[l] /\ clk'[l] = clk[l]
           \/ Timely(l)'
    BY <1>1, <1>5, <1>8
  <1>10. now <= now'
    BY <1>2, <1>3
  <1>11. /\ jar' \in Payload => Mortal(jar')
         /\ \A l \in Requests : /\ body'[l] \in Payload => Mortal(body'[l])
                                /\ setCookie'[l] \in Payload => Mortal(setCookie'[l])
    BY <1>1 DEF MortalInv
  <1>12. QED
    BY <1>1, <1>9, <1>10, <1>11, MortalFramed

(* A request leaves do.                                                    *)
LEMMA LeaveMortal ==
    ASSUME Inv, Inv', MortalInv, Onward, NEW c \in Requests, Publish(c) \/ Receive(c) \/ Cancel(c)
    PROVE  MortalInv'
  <1>1. now <= now'
    BY DEF Onward
  <1>2. UNCHANGED <<sso, ssoEnd, jar, clk>>
    BY DEF Publish, Receive, Cancel, idpVars
  <1>3. PICK s \in Payload \cup {NoSession}, k \in Payload \cup {NoSession, Keep} :
           k \in {s, NoSession, Keep} /\ Served(c, s, k) /\ (s \in Payload => Mortal(s))
    BY LeavesMortal, ValuesAssumption
  <1>4. /\ body'[c] = s /\ setCookie'[c] = k /\ step'[c] \notin {"grant", "resolve"}
        /\ \A l \in Requests \ {c} : /\ body'[l] = body[l] /\ setCookie'[l] = setCookie[l]
                                     /\ step'[l] = step[l]
    BY <1>3 DEF Served, Inv, JourneyTyped
  <1>5. \A l \in Requests : /\ body'[l] \in Payload => Mortal(body'[l])
                            /\ setCookie'[l] \in Payload => Mortal(setCookie'[l])
    BY <1>3, <1>4, ValuesAssumption DEF MortalInv
  <1>6. \A l \in Requests :
           \/ step'[l] \notin {"grant", "resolve"}
           \/ step'[l] = step[l] /\ body'[l] = body[l] /\ clk'[l] = clk[l]
    BY <1>2, <1>4
  <1>7. jar' \in Payload => Mortal(jar')
    BY <1>2 DEF MortalInv
  <1>8. QED
    BY <1>1, <1>2, <1>5, <1>6, <1>7, MortalFramed

(* AccessToken stores a token and no time.                                 *)
LEMMA TokenMortal ==
    ASSUME Inv, Inv', MortalInv, Onward, NEW c \in Requests, AccessToken(c)
    PROVE  MortalInv'
  <1>1. now <= now'
    BY DEF Onward
  <1>2. /\ step[c] = "serving" /\ UNCHANGED <<sso, ssoEnd, jar, step, clk>>
        /\ \/ /\ body' = [body EXCEPT ![c] = AccessTokenStored(body[c], cur')]
              /\ setCookie' = [setCookie EXCEPT ![c] = body'[c]]
           \/ UNCHANGED <<body, setCookie>>
    BY DEF AccessToken, Spend, idpVars
  <1>3. body[c] \in Payload /\ Mortal(body[c]) /\ cur' \in Tokens
    BY <1>2 DEF Inv, Placed, Place, MortalInv, JourneyTyped
  <1>4. CASE UNCHANGED <<body, setCookie>>
    BY <1>1, <1>2, <1>4, MortalPassed
  <1>5. CASE /\ body' = [body EXCEPT ![c] = AccessTokenStored(body[c], cur')]
             /\ setCookie' = [setCookie EXCEPT ![c] = body'[c]]
    <2> DEFINE s == AccessTokenStored(body[c], cur')
    <2>1. 0 \in Nat /\ c \in Requests /\ cur' \in Tokens \cup {NoToken}
      BY <1>3
    <2>2. s.exp = body[c].exp /\ s.rra = body[c].rra
      BY <1>3, <2>1, LifeFields
    <2> HIDE DEF s
    <2>3. Mortal(s)
      BY <1>3, <2>2 DEF Mortal
    <2>4. /\ body'[c] = s /\ setCookie'[c] = s
          /\ \A l \in Requests \ {c} : body'[l] = body[l] /\ setCookie'[l] = setCookie[l]
      BY <1>5 DEF s, Inv, JourneyTyped
    <2>5. \A l \in Requests : /\ body'[l] \in Payload => Mortal(body'[l])
                              /\ setCookie'[l] \in Payload => Mortal(setCookie'[l])
      BY <2>3, <2>4 DEF MortalInv
    <2>6. \A l \in Requests :
             \/ step'[l] \notin {"grant", "resolve"}
             \/ step'[l] = step[l] /\ body'[l] = body[l] /\ clk'[l] = clk[l]
      BY <1>2, <2>4
    <2>7. jar' \in Payload => Mortal(jar')
      BY <1>2 DEF MortalInv
    <2>8. QED
      BY <1>1, <1>2, <2>5, <2>6, <2>7, MortalFramed
  <1>6. QED
    BY <1>2, <1>4, <1>5

(* A restart drops payloads; a sign-out and the clock touch none.          *)
LEMMA OutsideMortal ==
    ASSUME Inv, Inv', MortalInv, Onward,
           EndSSO \/ Tick \/ (\E n \in Replicas : Restart(n)) \/ UNCHANGED vars
    PROVE  MortalInv'
  <1>1. now <= now'
    BY DEF Onward
  <1>2. ASSUME EndSSO
        PROVE  MortalInv'
    <2>1. UNCHANGED <<jar, setCookie, body, step, clk>> /\ sso /\ ssoEnd' = now
      BY <1>2 DEF EndSSO, requestVars
    <2>2. QED
      BY <1>1, <2>1, MortalPassed
  <1>3. ASSUME Tick \/ UNCHANGED vars
        PROVE  MortalInv'
    <2>1. UNCHANGED <<sso, ssoEnd, jar, setCookie, body, step, clk>>
      BY <1>3 DEF Tick, vars, requestVars, idpVars
    <2>2. QED
      BY <1>1, <2>1, MortalPassed
  <1>4. ASSUME NEW n \in Replicas, Restart(n)
        PROVE  MortalInv'
    <2> DEFINE lost == {c \in Requests : home[c] = n /\ step[c] \in {"grant", "resolve", "serving"}}
    <2>1. /\ step' = [c \in Requests |-> IF c \in lost THEN "responded" ELSE step[c]]
          /\ body' = [c \in Requests |-> IF c \in lost THEN NoSession ELSE body[c]]
          /\ setCookie' = [c \in Requests |-> IF c \in lost THEN Keep ELSE setCookie[c]]
          /\ UNCHANGED <<sso, ssoEnd, jar, clk>>
      BY <1>4 DEF Restart, idpVars
    <2> HIDE DEF lost
    <2>2. \A l \in Requests :
              /\ body'[l] \in {body[l], jar, NoSession}
              /\ setCookie'[l] \in {setCookie[l], body[l], NoSession, Keep}
              /\ \/ step'[l] \notin {"grant", "resolve"}
                 \/ step'[l] = step[l] /\ body'[l] = body[l] /\ clk'[l] = clk[l]
      BY <2>1
    <2>3. QED
      BY <1>1, <2>1, <2>2, MortalPassed
  <1>5. QED
    BY <1>2, <1>3, <1>4

LEMMA MortalInit == RevalidateInterval > 0 /\ Init => MortalInv
  <1> SUFFICES ASSUME RevalidateInterval > 0, Init PROVE MortalInv
    OBVIOUS
  <1>1. /\ jar = FirstCookie /\ now = Start /\ sso = TRUE
        /\ \A c \in Requests : body[c] = NoSession /\ setCookie[c] = Keep /\ step[c] = "idle"
    BY DEF Init
  <1>2. FirstCookie.exp = Start - RevalidateInterval + 1 + SessionTTL
    BY DEF FirstCookie
  <1>3. FirstCookie.exp <= Start + SessionTTL
    BY <1>2, ConfigAssumption, RevalidationAssumption
  <1>4. Mortal(jar)
    BY <1>1, <1>3 DEF Mortal
  <1>5. QED
    BY <1>1, <1>4, ValuesAssumption DEF MortalInv, Timely

(* One step of the specification.                                          *)
LEMMA MortalStep ==
    ASSUME Inv, MortalInv, [Next]_vars
    PROVE  MortalInv'
  <1>1. Inv'
    BY InvStep, InvStutter
  <1>2. CASE UNCHANGED vars
    <2>1. now <= now'
      BY <1>2 DEF vars, flightVars, Inv, FlightInv, FlightsTyped
    <2>2. UNCHANGED <<sso, ssoEnd, jar, setCookie, body, step, clk>>
      BY <1>2 DEF vars, requestVars, idpVars
    <2>3. QED
      BY <1>1, <2>1, <2>2, MortalPassed
  <1>3. CASE Next
    <2>1. Onward
      BY <1>3, OnwardStep
    <2>2. QED
      BY <1>1, <1>3, <2>1, QuietMortal, DueMortal, LeaveMortal, TokenMortal, OutsideMortal
      DEF Next, Step
  <1>4. QED
    BY <1>2, <1>3

(***************************************************************************)
(* Sign-out at the IdP is final, whatever fails (applyRevalidation,        *)
(* applyResolveRetry, persistBackoff, UpdateSession and AccessToken in     *)
(* session.go and auth.go): once the SSO session has ended, no cookie the  *)
(* browser holds or is about to be given, and no payload a request is      *)
(* served with, lives longer than one SessionTTL past the age of the last  *)
(* answer that vouched for it.  A resolver-only retry, which asks no IdP,  *)
(* can slide Exp once more and never twice.                                *)
(***************************************************************************)
SignOutFinal ==
    ~sso => \A p \in Payload :
                (p = jar \/ \E c \in Requests : p = body[c] \/ p = setCookie[c])
                    => p.exp < ssoEnd + AgeBound
                               + (IF ReresolveOnRevalidate THEN 2 ELSE 1) * SessionTTL

(* MortalInv holds in every behaviour that has a floor: its induction.     *)
THEOREM MortalInvHolds ==
    ASSUME RevalidateInterval > 0
    PROVE  Spec => []MortalInv
  <1>1. Init => MortalInv
    BY MortalInit
  <1>2. Inv /\ MortalInv /\ [Next]_vars => MortalInv'
    BY MortalStep
  <1>3. QED
    BY <1>1, <1>2, InvHolds, PTL DEF Spec

(***************************************************************************)
(* SignOutFinal holds with every fault of FaultKinds at once: outages,     *)
(* lost answers, panics, departed clients, late session writes, routes     *)
(* without the middleware, restarts and any number of replicas.  Where the *)
(* IdP cannot be reached, SignOutsReach promises nothing; this is what is  *)
(* left, and what makes failing open safe.                                 *)
(***************************************************************************)
THEOREM SignOutIsFinal ==
    ASSUME RevalidateInterval > 0
    PROVE  Spec => []SignOutFinal
  <1>1. Inv /\ MortalInv => SignOutFinal
    <2> SUFFICES ASSUME Inv, MortalInv, ~sso, NEW p \in Payload,
                        p = jar \/ \E c \in Requests : p = body[c] \/ p = setCookie[c]
                 PROVE  p.exp < ssoEnd + AgeBound
                                + (IF ReresolveOnRevalidate THEN 2 ELSE 1) * SessionTTL
      BY DEF SignOutFinal
    <2>1. Mortal(p)
      BY DEF MortalInv
    <2>2. ssoEnd \in Nat /\ AgeBound \in Nat /\ SessionTTL \in Nat /\ p.exp \in Int
      BY RevalidationAssumption, ConfigAssumption DEF AgeBound, Inv, JourneyTyped, Payload
    <2>3. \/ p.exp < ssoEnd + AgeBound + SessionTTL
          \/ ReresolveOnRevalidate /\ p.exp < ssoEnd + AgeBound + 2 * SessionTTL
      BY <2>1 DEF Mortal
    <2>4. CASE ReresolveOnRevalidate
      BY <2>2, <2>3, <2>4
    <2>5. CASE ~ReresolveOnRevalidate
      BY <2>2, <2>3, <2>5
    <2>6. QED
      BY <2>4, <2>5
  <1>2. QED
    BY <1>1, InvHolds, MortalInvHolds, PTL
=============================================================================
