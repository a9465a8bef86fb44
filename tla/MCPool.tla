-------------------------------- MODULE MCPool --------------------------------
(* Instances of Pool for TLC. Calls and connections are model values that  *)
(* no action tells apart.                                                  *)
EXTENDS Pool, TLC

PoolSymmetry == Permutations(Call) \cup Permutations(Conn)

=============================================================================
