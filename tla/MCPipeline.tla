----------------------------- MODULE MCPipeline -----------------------------
EXTENDS Pipeline
(* A PDF of two items; a slice of its pages holds the first. *)
OneItem == {{1}}
TwoItems == {1, 2}
=============================================================================
