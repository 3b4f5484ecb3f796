----------------------------- MODULE MCDispatch -----------------------------
(* TLC instances of Dispatch: the bounds are in the .cfg files.  The slots of *)
(* a host, like the workers, differ in name only.                            *)
EXTENDS Dispatch, TLC

Symmetry == Permutations(Slots) \cup Permutations(Workers)
=============================================================================
