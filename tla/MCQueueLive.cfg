CONSTANTS
  p1 = p1 p2 = p2 p3 = p3
  A = A B = B C = C
  m1 = m1 m2 = m2 m3 = m3 m4 = m4
  n1 = n1 n2 = n2 n3 = n3
  None = None
  Pane = {p1}
  Terminal = {}
  Name = {A, B}
  Post = {m1, m2}
  Inbound = {m1, m2}
  Ack = {}
  Notice = {}
  NoticeOf <- MCNoticeOf
  Sender <- MCSender
  Addressee <- MCAddressee
  QueueCap = 2
  UnclearLimit = 2
  Channels = {"push", "hook", "read"}
  PanesClose = FALSE
  PanesRename = TRUE
  RepliesLost = TRUE
  UserPauses = FALSE
  LogOverflows = TRUE
SPECIFICATION LiveSpec
INVARIANTS
  OneRoute
PROPERTIES
  NoDeafPane
CHECK_DEADLOCK FALSE
