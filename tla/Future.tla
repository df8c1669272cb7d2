------------------------------- MODULE Future -------------------------------
(***************************************************************************)
(* What a DeferredAuth promises its callers (deferred.go:21-24): a result  *)
(* that is decided once, whenever that is, and that every Get returns, none *)
(* of them before it is decided and none of them twice differently.        *)
(***************************************************************************)
CONSTANTS
    Getters,   \* callers of Get
    Results,   \* what the result may be
    Pending    \* not decided, not returned; not one of Results

VARIABLES result, got

vars == <<result, got>>

Init == result = Pending /\ got = [g \in Getters |-> Pending]

Settle ==
    /\ result = Pending
    /\ result' \in Results
    /\ UNCHANGED got

Get(g) ==
    /\ got[g] = Pending /\ result # Pending
    /\ got' = [got EXCEPT ![g] = result]
    /\ UNCHANGED result

Next == Settle \/ \E g \in Getters : Get(g)

Spec == Init /\ [][Next]_vars /\ \A g \in Getters : WF_vars(Get(g))
=============================================================================
