--------------------------- MODULE MCTaskDispatch ---------------------------
(* Small instances of TaskDispatch for TLC. *)
EXTENDS TaskDispatch

\* Task 1 is for a model that no node has, the others for the one they have.
MCModelOf == [t \in Tasks |-> IF t = 1 THEN "gguf" ELSE "qwen"]
=============================================================================
