--------------------------- MODULE MCMessageQueue ---------------------------
(* Instances of MessageQueue: two or three panes A and B write to each other, *)
(* another window writes to B.                                               *)
EXTENDS MessageQueue

CONSTANTS p1, p2, p3, A, B, C, m1, m2, m3, m4, n1, n2, n3

\* m1, m3 and m4 go from A to B, m2 comes to B from another window.
MCSender == [m \in Post |-> IF m \in Inbound THEN None ELSE A]
MCAddressee == [m \in Post |-> B]
MCNoticeOf == [m \in Post \ Inbound |-> CASE m = m1 -> n1 [] m = m3 -> n2 [] m = m4 -> n3]


\* Pane ids are interchangeable where no pane is a terminal.
PaneSymmetry == Permutations(Pane)
=============================================================================
