--------------------------- MODULE MCStorageFiles ---------------------------
(* Names that share a temp file, one that is that temp file, two that are  *)
(* one once flattened, and some that are refused, beside a summary.  The    *)
(* memories that pass are beside the folders of the agents.                 *)
EXTENDS StorageFiles, TLC

Memory(project, stem, ext) == [project |-> project, stem |-> stem, ext |-> ext]
SomeMemories == {Memory("..", <<"a", "/", "b">>, "md"), Memory("..", <<"a", "_", "b">>, "md"),
                 Memory("..", <<"a", "\\", "b">>, "txt"), Memory("..", <<"a", "_", "b">>, "tmp"),
                 Memory("_synthesized", <<"b">>, "md"), Memory("p/q", <<"a">>, "md")}
OneSummary == {<<"a">>}
Symmetric == Permutations(Ops) \cup Permutations(Contents)
=============================================================================
