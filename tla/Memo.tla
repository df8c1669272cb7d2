-------------------------------- MODULE Memo --------------------------------
(***************************************************************************)
(* What revalFlights.do promises its callers (revalidate_flight.go:83): fn *)
(* runs once per key among concurrent and recently completed callers, and  *)
(* all of them get its result.  There is no map here, no pruning and no    *)
(* channel: whether a call answers for its key is a matter of time alone,  *)
(* and a call is decided and over in one step.                             *)
(***************************************************************************)
EXTENDS Integers

CONSTANTS
    Callers, Keys, Answers,
    Abandoned,  \* what a caller gets that gets no answer
    Pending,    \* not decided, not returned
    Window      \* how long an answer answers for its key

VARIABLES
    now,
    key,      \* each caller's question
    state,    \* where each caller is
    asker,    \* whose call it takes its answer from
    answer,   \* what the call of an asker came to
    decided,  \* and when
    got       \* what each caller was told

vars == <<now, key, state, asker, answer, decided, got>>

Init ==
    /\ now = 0
    /\ key \in [Callers -> Keys]
    /\ state = [c \in Callers |-> "idle"]
    /\ asker = [c \in Callers |-> c]
    /\ answer = [c \in Callers |-> Pending]
    /\ decided = [c \in Callers |-> 0]
    /\ got = [c \in Callers |-> Pending]

\* l asked, and its call is running or was answered less than a Window ago.
Live(l) ==
    /\ state[l] # "idle" /\ asker[l] = l
    /\ answer[l] # Pending => answer[l] # Abandoned /\ now < decided[l] + Window

\* A caller shares the call that is live for its key, and asks only if there is
\* none.
Come(c) ==
    /\ state[c] = "idle"
    /\ LET live == {l \in Callers : Live(l) /\ key[l] = key[c]}
       IN  \/ \E l \in live :
                 /\ asker' = [asker EXCEPT ![c] = l]
                 /\ state' = [state EXCEPT ![c] = "waiting"]
           \/ /\ live = {}
              /\ state' = [state EXCEPT ![c] = "asking"]
              /\ UNCHANGED asker
    /\ UNCHANGED <<now, key, answer, decided, got>>

\* fn gives its answer, and the asker returns with it.
Settle(c) ==
    /\ state[c] = "asking"
    /\ \E r \in Answers : /\ answer' = [answer EXCEPT ![c] = r]
                          /\ got' = [got EXCEPT ![c] = r]
    /\ decided' = [decided EXCEPT ![c] = now]
    /\ state' = [state EXCEPT ![c] = "returned"]
    /\ UNCHANGED <<now, key, asker>>

\* fn panics: there will be no answer, and the asker does not return.
Fail(c) ==
    /\ state[c] = "asking"
    /\ answer' = [answer EXCEPT ![c] = Abandoned]
    /\ decided' = [decided EXCEPT ![c] = now]
    /\ state' = [state EXCEPT ![c] = "unwound"]
    /\ UNCHANGED <<now, key, asker, got>>

\* A waiter is told what the call came to, or leaves before.
Return(c) ==
    /\ state[c] = "waiting"
    /\ \E r \in {answer[asker[c]], Abandoned} \ {Pending} : got' = [got EXCEPT ![c] = r]
    /\ state' = [state EXCEPT ![c] = "returned"]
    /\ UNCHANGED <<now, key, asker, answer, decided>>

Tick ==
    /\ now' = now + 1
    /\ UNCHANGED <<key, state, asker, answer, decided, got>>

Next ==
    \/ \E c \in Callers : Come(c) \/ Settle(c) \/ Fail(c) \/ Return(c)
    \/ Tick

Spec == Init /\ [][Next]_vars
=============================================================================
