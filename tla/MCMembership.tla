---------------------------- MODULE MCMembership ----------------------------
(***************************************************************************)
(* Membership on small instances: users of one name.                       *)
(***************************************************************************)
EXTENDS Membership, TLC

MCNameOf == [c \in Cpf |-> "Ana"]

MCUninit == {-1, 0, 2}

Symmetry == Permutations(Cpf \ LongCpf)
=============================================================================
