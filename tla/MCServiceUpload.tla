----------------------------- MODULE MCServiceUpload -----------------------------
(* Small instances of ServiceUpload for TLC. *)
EXTENDS ServiceUpload, TLC

TwoChunks == [f \in Files |-> 2]

\* service/upload/route/router.go mounts these three.
SvcRoutes == {"init", "uppart", "complete"}

Symmetry == Permutations(Workers)

================================================================================
