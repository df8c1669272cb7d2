----------------------------- MODULE MCTenancy -----------------------------
(* Tenancy with the landings that differ: none, one that is followed, one  *)
(* whose URL is not admitted, and one that asks for no redirect; and with  *)
(* a member of staff who loses one of the three things that make them one. *)
EXTENDS Tenancy, TLC

MCLandings ==
    {NoLanding, [decision |-> "onboarding", url |-> "allowed"],
     [decision |-> "closed_beta", url |-> "foreign"], [decision |-> "ready", url |-> "allowed"]}

VAIStaffPolicy == [Domain |-> "vaudience.ai", Roles |-> {"system-admin", "business-manager"}]

Staff == [ev |-> TRUE, dom |-> "vaudience.ai", rls |-> {"system-admin"}]

NoLongerStaff ==
    {[Staff EXCEPT !.ev = FALSE], [Staff EXCEPT !.dom = "example.org"],
     [Staff EXCEPT !.rls = {}]}

Symmetry == Permutations(Orgs)
=============================================================================
