--------------------------- MODULE MCPushDelivery ---------------------------
(* PushDelivery on a small instance: pane a and the pane b rebuilt around its *)
(* CLI, in one workspace, and two windows.                                    *)
EXTENDS PushDelivery, TLC

CONSTANTS a, b, w

MCWorkspaceOf == [p \in PaneId |-> w]
MCFormerId == [p \in PaneId |-> IF p = b THEN a ELSE NoFormer]

\* Windows and requests are interchangeable.
Symm == Permutations(Conn) \cup Permutations(Hook)

\* What the channels do, and these properties, depend neither on _FORGOTTEN nor
\* on which session acted last.
PushView == <<panes, owners, aliases, live, pushVars>>
=============================================================================
