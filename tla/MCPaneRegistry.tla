--------------------------- MODULE MCPaneRegistry ---------------------------
(***************************************************************************)
(* PaneRegistry on a small instance: three pane ids, two of them in one     *)
(* workspace, and two sockets, so that a detach overlaps with a reload.     *)
(***************************************************************************)
EXTENDS PaneRegistry, TLC

CONSTANTS a, b, x, w1, w2

MCWorkspaceOf == (a :> w1) @@ (b :> w1) @@ (x :> w2)

\* a and b are interchangeable, and so are the sockets.
Symm == Permutations({a, b}) \cup Permutations(Conn)
=============================================================================
