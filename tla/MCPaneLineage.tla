--------------------------- MODULE MCPaneLineage ----------------------------
(***************************************************************************)
(* PaneLineage with room for three rebuilds of one pane, in two windows.    *)
(***************************************************************************)
EXTENDS PaneLineage, TLC

CONSTANT w

MCWorkspaceOf == [p \in PaneId |-> w]

Symm == Permutations(PaneId) \cup Permutations(Conn)
=============================================================================
