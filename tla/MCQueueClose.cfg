CONSTANTS
  p1 = p1 p2 = p2 p3 = p3
  A = A B = B C = C
  m1 = m1 m2 = m2 m3 = m3 m4 = m4
  n1 = n1 n2 = n2 n3 = n3
  None = None
  Pane = {p1, p2, p3}
  Terminal = {}
  Name = {A, B}
  Post = {m1, m2}
  Inbound = {m2}
  Ack = {}
  Notice = {n1}
  NoticeOf <- MCNoticeOf
  Sender <- MCSender
  Addressee <- MCAddressee
  QueueCap = 2
  UnclearLimit = 1
  Channels = {"push", "hook", "read"}
  PanesClose = TRUE
  PanesRename = FALSE
  RepliesLost = FALSE
  UserPauses = TRUE
  LogOverflows = FALSE
SPECIFICATION Spec
INVARIANTS
  InFlightIsHead
  QueuedOnce
  InboundReported
CHECK_DEADLOCK FALSE
SYMMETRY PaneSymmetry
