CONSTANTS
  p1 = p1 p2 = p2 p3 = p3
  A = A B = B C = C
  m1 = m1 m2 = m2 m3 = m3 m4 = m4
  n1 = n1 n2 = n2 n3 = n3
  None = None
  Pane = {p1, p2}
  Terminal = {p2}
  Name = {A, B}
  Post = {m1, m2, m3, m4}
  Inbound = {m2}
  Ack = {m4}
  Notice = {n1, n2, n3}
  NoticeOf <- MCNoticeOf
  Sender <- MCSender
  Addressee <- MCAddressee
  QueueCap = 2
  UnclearLimit = 2
  Channels = {"push", "hook", "read"}
  PanesClose = FALSE
  PanesRename = FALSE
  RepliesLost = FALSE
  UserPauses = FALSE
  LogOverflows = FALSE
SPECIFICATION Spec
INVARIANTS
  TypeOK
  ShownOnce
  RowsTellTheTruth
  WaitingIsQueued
  
PROPERTIES
  ImplementsMailbox
CHECK_DEADLOCK FALSE
