--------------------------- MODULE MCMultipartUpload ---------------------------
(* Small instances of MultipartUpload for TLC. *)
EXTENDS MultipartUpload, TLC

\* Every file has two chunks: the least count with an order and a missing part.
TwoChunks == [f \in Files |-> 2]
OneChunk  == [f \in Files |-> 1]

\* route/router.go mounts three of the four handlers.
RoutedHandlers == {"init", "uppart", "complete"}
AllHandlers    == RoutedHandlers \cup {"cancel"}

\* A body is lost before its first byte, or in any way.
CutShort  == {"empty"}
AnyDamage == {"empty", "bad"}
Garbled  == {"bad"}

\* Workers are interchangeable, and so are users and upload ids.
Symmetry == Permutations(Workers) \cup Permutations(UploadIds)

================================================================================
