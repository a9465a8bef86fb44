------------------------------- MODULE MCLease -------------------------------
(* Instances of Lease for TLC. Tasks are model values that no action tells *)
(* apart.                                                                   *)
EXTENDS Lease, TLC

JobSymmetry == Permutations(Job)

=============================================================================
