-------------------------------- MODULE MCAccount --------------------------------
(* Small instances of Account for TLC. *)
EXTENDS Account, TLC

AllFaults == {"db", "rpc", "crash"}

Symmetry == Permutations(Workers) \cup Permutations(Passwords)

================================================================================
