-------------------------- MODULE MCPipelineCache --------------------------
(***************************************************************************)
(* Instances of PipelineCache: two states, with a file each or one shared. *)
(***************************************************************************)
EXTENDS PipelineCache, TLC

CONSTANTS c1, c2, d1, d2, f1, f2, a1, a2

TwoFiles == c1 :> f1 @@ c2 :> f2
OnlyFile == c1 :> f1
OneFile == c1 :> f1 @@ c2 :> f1

\* Nothing is on disk yet, so no load can be refused.
FirstRun == Init /\ (\A p \in Paths : file[p].content = {}) /\ [][Next]_vars

AppSymmetry == Permutations(Apps)
=============================================================================
