----------------------------- MODULE MCSchedule -----------------------------
(***************************************************************************)
(* Instances of Schedule.  Users, roles and clients are interchangeable.    *)
(***************************************************************************)
EXTENDS Schedule, TLC

Symmetry == Permutations(Users) \cup Permutations(Roles) \cup Permutations(Clients)
=============================================================================
