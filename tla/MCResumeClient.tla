----------------------------- MODULE MCResumeClient -----------------------------
(* A small instance of ResumeClient for TLC. *)
EXTENDS ResumeClient

ThreeChunks == [f \in Files |-> 3]
RoutedHandlers == {"init", "uppart", "complete"}

================================================================================
