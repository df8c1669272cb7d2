------------------------------ MODULE Flights ------------------------------
(***************************************************************************)
(* revalidate_flight.go: the per-process deduplication of revalidation     *)
(* work.  Each caller is one call of revalFlights.do.  The first with a    *)
(* key leads and runs fn, later ones wait for it, and a completed call     *)
(* keeps answering for RevalidateFlightRetention.                          *)
(*                                                                         *)
(* A revalCall is named by the caller that leads it, so the fields of the  *)
(* struct are functions of the leader, and the map g.calls is the set of   *)
(* leaders whose call is in it.  A critical section of g.mu is one action. *)
(* c.res is written outside the lock and read only after close(c.done), so *)
(* the write is its own action.                                            *)
(***************************************************************************)
EXTENDS Integers

CONSTANTS
    Callers,                    \* calls of do
    Keys,                       \* flightKey values
    Answers,                    \* what fn may return
    Abandoned,                  \* errRevalidationAbandoned
    NoAnswer,                   \* the zero revalShared
    RevalidateFlightRetention,  \* revalidateFlightRetention
    RevalidateSharedTimeout,    \* revalidateSharedTimeout
    MaxTime                     \* bound: the clock stops here

ASSUME FlightsAssumption ==
    /\ RevalidateFlightRetention \in Nat /\ RevalidateFlightRetention > 0
    /\ RevalidateSharedTimeout \in Nat
    /\ MaxTime \in Nat
    /\ Abandoned \notin Answers /\ NoAnswer \notin Answers /\ NoAnswer # Abandoned

VARIABLES
    now,       \* the process clock
    calls,     \* leaders whose call is in g.calls
    done,      \* c.done is closed
    res,       \* c.res
    finished,  \* c.finished
    pc,        \* where the caller is in do
    key,       \* the caller's key
    entered,   \* when the caller took the lock
    joined,    \* whose call the caller waits on (itself when it leads)
    ret        \* what do returned

vars == <<now, calls, done, res, finished, pc, key, entered, joined, ret>>

Running == {"leading", "answered", "panicked"}

(***************************************************************************)
(* Types; and do never hands out the zero revalShared, which a caller      *)
(* would apply as an answer that nobody gave.                              *)
(***************************************************************************)
TypeOK ==
    /\ now \in Nat
    /\ calls \subseteq Callers
    /\ done \in [Callers -> BOOLEAN]
    /\ res \in [Callers -> Answers \cup {Abandoned, NoAnswer}]
    /\ finished \in [Callers -> Nat]
    /\ pc \in [Callers -> Running \cup {"idle", "waiting", "returned", "unwound"}]
    /\ key \in [Callers -> Keys]
    /\ entered \in [Callers -> Nat]
    /\ joined \in [Callers -> Callers]
    /\ ret \in [Callers -> Answers \cup {Abandoned, NoAnswer}]
    /\ \A c \in Callers : pc[c] = "returned" => ret[c] # NoAnswer

Init ==
    /\ now = 0
    /\ calls = {}
    /\ done = [c \in Callers |-> FALSE]
    /\ res = [c \in Callers |-> NoAnswer]
    /\ finished = [c \in Callers |-> 0]
    /\ pc = [c \in Callers |-> "idle"]
    /\ key \in [Callers -> Keys]
    /\ entered = [c \in Callers |-> 0]
    /\ joined = [c \in Callers |-> c]
    /\ ret = [c \in Callers |-> NoAnswer]

-----------------------------------------------------------------------------
(* Seeded faults: what do and pruneLocked would be under a plausible slip. *)

\* A completed call is dropped by the first caller that comes by.
PruneAtOnce(cs, t) == {c \in cs : ~done[c]}

\* A completed call kept to the end of the second its retention ends in.
PruneLate(cs, t) == {c \in cs : ~(done[c] /\ t - finished[c] > RevalidateFlightRetention)}

\* A panicked call left in the map.
RetainPanicked(cs, c) == cs

\* A panicking leader that does not close the channel.
CloseIfAnswered(c) == done' = [done EXCEPT ![c] = pc[c] = "answered"]

\* A waiter that reads the result without waiting for the channel.
ReceiveEarly(c) ==
    /\ pc[c] = "waiting"
    /\ ret' = [ret EXCEPT ![c] = res[joined[c]]]
    /\ pc' = [pc EXCEPT ![c] = "returned"]
    /\ UNCHANGED <<now, calls, done, res, finished, key, entered, joined>>

-----------------------------------------------------------------------------
(* do.                                                                     *)

\* pruneLocked
Prune(cs, t) ==
    {c \in cs : ~(done[c] /\ t - finished[c] >= RevalidateFlightRetention)}

\* delete(g.calls, key), when fn panicked
Unretain(cs, c) == IF pc[c] = "panicked" THEN cs \ {c} ELSE cs

\* close(c.done)
Close(c) == done' = [done EXCEPT ![c] = TRUE]

\* The first critical section of do: prune, then join the key's call or
\* register a new one.
Enter(c, k) ==
    /\ pc[c] = "idle"
    /\ key' = [key EXCEPT ![c] = k]
    /\ entered' = [entered EXCEPT ![c] = now]
    /\ LET kept == Prune(calls, now)
           same == {l \in kept : key[l] = k}
       IN  \/ \E l \in same :
                 /\ calls' = kept
                 /\ joined' = [joined EXCEPT ![c] = l]
                 /\ pc' = [pc EXCEPT ![c] = "waiting"]
           \/ /\ same = {}
              /\ calls' = kept \cup {c}
              /\ joined' = [joined EXCEPT ![c] = c]
              /\ pc' = [pc EXCEPT ![c] = "leading"]
    /\ UNCHANGED <<now, done, res, finished, ret>>

\* fn returned: c.res = res, completed = true.
Answer(c, r) ==
    /\ pc[c] = "leading"
    /\ res' = [res EXCEPT ![c] = r]
    /\ pc' = [pc EXCEPT ![c] = "answered"]
    /\ UNCHANGED <<now, calls, done, finished, key, entered, joined, ret>>

\* fn panicked.
Panic(c) ==
    /\ pc[c] = "leading"
    /\ pc' = [pc EXCEPT ![c] = "panicked"]
    /\ UNCHANGED <<now, calls, done, res, finished, key, entered, joined, ret>>

\* The deferred critical section, after which do returns or goes on panicking.
Publish(c) ==
    /\ pc[c] \in {"answered", "panicked"}
    /\ res' = [res EXCEPT ![c] = IF pc[c] = "panicked" THEN Abandoned ELSE @]
    /\ calls' = Unretain(calls, c)
    /\ finished' = [finished EXCEPT ![c] = now]
    /\ Close(c)
    /\ ret' = [ret EXCEPT ![c] = IF pc[c] = "answered" THEN res[c] ELSE @]
    /\ pc' = [pc EXCEPT ![c] = IF pc[c] = "answered" THEN "returned" ELSE "unwound"]
    /\ UNCHANGED <<now, key, entered, joined>>

\* A waiter reads the closed channel and then c.res.
Receive(c) ==
    /\ pc[c] = "waiting" /\ done[joined[c]]
    /\ ret' = [ret EXCEPT ![c] = res[joined[c]]]
    /\ pc' = [pc EXCEPT ![c] = "returned"]
    /\ UNCHANGED <<now, calls, done, res, finished, key, entered, joined>>

\* A waiter's own request context ended; select may choose it even when the
\* channel is closed.
Cancel(c) ==
    /\ pc[c] = "waiting"
    /\ ret' = [ret EXCEPT ![c] = Abandoned]
    /\ pc' = [pc EXCEPT ![c] = "returned"]
    /\ UNCHANGED <<now, calls, done, res, finished, key, entered, joined>>

\* sharedContext: fn's network work ends within RevalidateSharedTimeout, and
\* what is left to do (the deferred section) takes no time on this scale.
WorkBounded ==
    \A c \in Callers :
        /\ pc[c] = "leading" => now < entered[c] + RevalidateSharedTimeout
        /\ pc[c] \notin {"answered", "panicked"}

Tick ==
    /\ now < MaxTime /\ WorkBounded
    /\ now' = now + 1
    /\ UNCHANGED <<calls, done, res, finished, pc, key, entered, joined, ret>>

Step(c) ==
    \/ \E r \in Answers : Answer(c, r)
    \/ Panic(c)
    \/ Publish(c)
    \/ Receive(c)

Next ==
    \/ \E c \in Callers : Step(c) \/ Cancel(c) \/ Enter(c, key[c])
    \/ Tick

Spec == Init /\ [][Next]_vars

\* The scheduler runs every goroutine, and fn returns because its context ends.
FairSpec == Spec /\ \A c \in Callers : WF_vars(Step(c))

-----------------------------------------------------------------------------
(* Properties.                                                             *)

Led(c) == pc[c] # "idle" /\ joined[c] = c

Ended(l) == Led(l) /\ done[l]

\* m took the lock when l's call no longer answered for its key.
After(m, l) ==
    /\ Ended(l)
    /\ entered[m] >= finished[l]
                     + (IF res[l] = Abandoned THEN 0 ELSE RevalidateFlightRetention)

(***************************************************************************)
(* The same question is never put to the IdP twice: two calls that ran fn  *)
(* for one key are separated by the retention of the first one's answer,   *)
(* unless the first one panicked and so has no answer, and even then they  *)
(* did not overlap.  Under refresh-token rotation a second question is a   *)
(* sign-out.                                                               *)
(***************************************************************************)
AskedOnce ==
    \A l, m \in Callers :
        (l # m /\ Led(l) /\ Led(m) /\ key[l] = key[m]) =>
            /\ done[l] \/ done[m]
            /\ After(m, l) \/ After(l, m)

(***************************************************************************)
(* Every answer do returns was given to this caller's own question, by a   *)
(* call that was running or had ended less than the retention before the   *)
(* caller came, and is the answer fn gave, whether or not the call is      *)
(* still in the map when the waiter wakes.                                 *)
(***************************************************************************)
AnswerShared ==
    \A c \in Callers :
        (pc[c] = "returned" /\ ret[c] # Abandoned) =>
            LET l == joined[c] IN
            /\ done[l] /\ key[l] = key[c] /\ ret[c] = res[l] /\ ret[c] \in Answers
            /\ entered[c] < finished[l] + RevalidateFlightRetention

\* do as its callers see it: nothing shows of the map, and of a call only
\* whether it is over and with what.
Promise == INSTANCE Memo WITH
    Pending <- NoAnswer,
    Window <- RevalidateFlightRetention,
    state <- [c \in Callers |-> IF pc[c] \in Running THEN "asking" ELSE pc[c]],
    asker <- joined,
    answer <- [c \in Callers |-> IF done[c] THEN res[c] ELSE NoAnswer],
    decided <- finished,
    got <- ret

(***************************************************************************)
(* do keeps its promise (revalidate_flight.go:83): a map that forgets an   *)
(* answer when the next caller happens to come by, and a panicked call at  *)
(* once, cannot be told from a memo whose answers are valid for exactly    *)
(* the retention and where a panic leaves nothing behind.                  *)
(***************************************************************************)
DoIsMemo == Promise!Spec

(***************************************************************************)
(* Nobody hangs: every caller of do gets out of it, also when the leader   *)
(* panicked and when nobody's request is cancelled.                        *)
(***************************************************************************)
EveryoneReturns ==
    \A c \in Callers :
        pc[c] \in Running \cup {"waiting"} ~> pc[c] \in {"returned", "unwound"}
=============================================================================
