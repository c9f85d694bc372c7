---------------------------- MODULE MailboxProofs ----------------------------
(***************************************************************************)
(* Theorems about the delivery queue of a window whose panes stay open:    *)
(* what waits is queued, what is shown is shown once, what the log says is *)
(* true, a failure is bounced, and the window implements Mailbox.  A step  *)
(* of Next is first shown to be one of a few moves of one message; each    *)
(* invariant, and the refinement, is then shown of every move.             *)
(***************************************************************************)
EXTENDS MessageQueueProofs

\* The queues without m.
LessOf(Q, m) == [s \in Pane |-> Without(Q[s], m)]
Less(m) == LessOf(queue, m)

Unread == {"push", "typing", "hook"}
Got == {"pushed", "typed", "hooked"}

-----------------------------------------------------------------------------
(* Queues that lose a message.                                             *)

LEMMA WithoutNone == ASSUME NEW q, NEW m, m \notin Range(q) PROVE Without(q, m) = q
BY DEF Range, Without, RemoveFirst

LEMMA WithoutHead ==
  ASSUME NEW D, NEW q \in Seq(D), Distinct(q), q # << >>
  PROVE  Without(q, q[1]) = Tail(q)
<1>. DEFINE m == q[1]
            I == {i \in 1..Len(q) : q[i] = m}
<1>1. Len(q) \in Nat /\ 1 \in 1..Len(q) BY EmptySeq
<1>2. I = {1} BY <1>1 DEF Distinct
<1>3. Min(I) = 1 BY <1>2 DEF Min
<1>4. SelectInSeq(q, LAMBDA v : v = m) = 1 BY <1>2, <1>3 DEF SelectInSeq
<1>5. Without(q, m) = RemoveAt(q, 1) BY <1>1, <1>4 DEF Without, RemoveFirst
<1>. DEFINE r == RemoveAt(q, 1)
            t == Tail(q)
<1>6. /\ r \in Seq(D) /\ Len(r) = Len(q) - 1
      /\ \A i \in 1..(Len(q) - 1) : r[i] = q[i + 1]
  <2>1. /\ r \in Seq(D) /\ Len(r) = Len(q) - 1
        /\ \A i \in 1..(Len(q) - 1) : r[i] = IF i < 1 THEN q[i] ELSE q[i + 1]
    BY <1>1, RemovedAt
  <2>. HIDE DEF r
  <2>. QED BY <1>1, <2>1
<1>7. /\ t \in Seq(D) /\ Len(t) = Len(q) - 1
      /\ \A i \in 1..(Len(q) - 1) : t[i] = q[i + 1]
  BY TailIs
<1>. HIDE DEF r, t
<1>8. r = t
  <2>1. \A i \in 1..Len(r) : r[i] = t[i] BY <1>1, <1>6, <1>7
  <2>. QED BY <1>6, <1>7, <2>1, SeqEqual
<1>. QED BY <1>5, <1>8 DEF r, t

\* Of queues that share nothing, only the one m heads is touched.
LEMMA HeadGone ==
  ASSUME NEW Q, Orderly(Q), Apart(Q), NEW p \in Pane, Q[p] # << >>
  PROVE  [Q EXCEPT ![p] = Tail(@)] = LessOf(Q, Q[p][1])
<1>. DEFINE m == Q[p][1]
<1>1. Q \in [Pane -> Seq(Msg)] /\ Distinct(Q[p]) BY DEF Orderly
<1>2. m \in Range(Q[p]) BY <1>1, EmptySeq DEF Range
<1>3. Without(Q[p], m) = Tail(Q[p]) BY <1>1, WithoutHead
<1>. HIDE DEF m
<1>4. \A s \in Pane \ {p} : Without(Q[s], m) = Q[s] BY <1>2, WithoutNone DEF Apart
<1>. QED BY <1>1, <1>3, <1>4 DEF m, LessOf

LEMMA HereGone ==
  ASSUME NEW Q, Orderly(Q), Apart(Q), NEW p \in Pane, NEW m \in Range(Q[p])
  PROVE  [Q EXCEPT ![p] = Without(@, m)] = LessOf(Q, m)
<1>1. Q \in [Pane -> Seq(Msg)] BY DEF Orderly
<1>2. \A s \in Pane \ {p} : Without(Q[s], m) = Q[s] BY WithoutNone DEF Apart
<1>. QED BY <1>1, <1>2 DEF LessOf

LEMMA NoneGone ==
  ASSUME NEW Q \in [Pane -> Seq(Msg)], NEW m, \A s \in Pane : m \notin Range(Q[s])
  PROVE  LessOf(Q, m) = Q
<1>1. \A s \in Pane : Without(Q[s], m) = Q[s] BY WithoutNone
<1>. QED BY <1>1 DEF LessOf
-----------------------------------------------------------------------------
(* What one failure does.                                                  *)

Waiting == {"none", "queued", "delivering"}

\* n is the notice the failure of m gives rise to.
Bounce(m, n) ==
    /\ m \in Post \ Inbound /\ n \in Notice /\ n = NoticeOf[m] /\ n # m
    /\ status[n] = "none" /\ status[m] \in Waiting

NoNotice(m, Q, W) ==
    /\ W = Q /\ status' = SetStatus(m, "failed") /\ envelope' = envelope \ {m}
LostNotice(m, n, Q, W) ==
    /\ Bounce(m, n) /\ W = Q /\ envelope' = envelope \ {m}
    /\ status' = [status EXCEPT ![m] = "failed", ![n] = "failed"]
SentNotice(m, n, s, Q, W) ==
    /\ Bounce(m, n) /\ Len(Q[s]) < QueueCap /\ W = [Q EXCEPT ![s] = Append(@, n)]
    /\ envelope' = (envelope \ {m}) \cup {n}
    /\ status' = [status EXCEPT ![m] = "failed", ![n] = "queued"]
Outcome(m, Q, W) ==
    \/ NoNotice(m, Q, W)
    \/ \E n \in Notice : LostNotice(m, n, Q, W) \/ \E s \in Pane : SentNotice(m, n, s, Q, W)

\* A sequence without repetition of nothing but n.
LEMMA OneOrNone ==
  ASSUME NEW D, NEW q \in Seq(D), Distinct(q), NEW n, Range(q) \subseteq {n}
  PROVE  q = << >> \/ q = <<n>>
<1>1. Len(q) \in Nat /\ \A i \in 1..Len(q) : q[i] = n BY DEF Range
<1>2. CASE Len(q) = 0 BY <1>2, EmptySeq
<1>3. CASE Len(q) = 1
  <2>1. q[1] = n BY <1>1, <1>3
  <2>. QED BY <1>3, <2>1
<1>4. CASE Len(q) > 1
  <2>1. 1 \in 1..Len(q) /\ 2 \in 1..Len(q) BY <1>1, <1>4
  <2>2. q[1] = q[2] BY <1>1, <2>1
  <2>. QED BY <2>1, <2>2 DEF Distinct
<1>5. Len(q) = 0 \/ Len(q) = 1 \/ Len(q) > 1
  <2>1. \A k \in Nat : k = 0 \/ k = 1 \/ k > 1 OBVIOUS
  <2>. QED BY <1>1, <2>1, Zenon
<1>. QED BY <1>2, <1>3, <1>4, <1>5

LEMMA NoElement ==
  ASSUME NEW D, NEW q \in Seq(D), Range(q) = {}
  PROVE  q = << >>
<1>1. Len(q) \in Nat /\ \A i \in 1..Len(q) : FALSE BY DEF Range
<1>2. Len(q) = 0 BY <1>1
<1>. QED BY <1>2, EmptySeq

LEMMA BouncedTells ==
  ASSUME NEW m \in Msg, NEW s, Bounced(<<m>>, s) # << >>
  PROVE  Tells(m)
<1>. DEFINE F == <<m>>
            at == {i \in 1..Len(F) : Tells(F[i]) /\ holder[Sender[F[i]]] = s /\ status[NoticeOf[F[i]]] = "none"}
<1>1. SUFFICES ASSUME ~Tells(m) PROVE Bounced(F, s) = << >> OBVIOUS
<1>2. at = {} BY <1>1
<1>3. Cardinality(at) = 0 BY <1>2, FS_EmptySet
<1>4. Bounced(F, s) = [i \in 1..Cardinality(at) |-> NoticeOf[F[Ascending(at)[i]]]] BY DEF Bounced
<1>. HIDE DEF at
<1>. QED BY <1>3, <1>4

\* What failing m does to the notices: none is sent, the one sent fails in its
\* turn, or it joins the queue of the sending pane.
LEMMA FailOne ==
  ASSUME TypeOK, NEW m \in Msg, m \in Post \/ status[m] # "none", status[m] \in Waiting \cup {"evicted"},
         NEW Q, Orderly(Q), NEW l, Fails(<<m>>, Q, l)
  PROVE  Outcome(m, Q, WithNotices(<<m>>, Q, l))
<1>. DEFINE F == <<m>>
            A(s) == Admitted(F, s, Q, l)
            n == NoticeOf[m]
            W == WithNotices(F, Q, l)
<1>1. F \in Seq(Msg) /\ Distinct(F) /\ Range(F) = {m} BY OneIs
<1>2. \A s \in Pane : Bounced(F, s) # << >> => Tells(m) BY BouncedTells
<1>3. /\ status' = FailedStatus(F, Q, l) /\ envelope' = FailedEnvelope(F, Q, l)
      /\ W = [s \in Pane |-> Q[s] \o A(s)]
  BY DEF Fails, WithNotices
<1>4. Q \in [Pane -> Seq(Msg)] /\ \A s \in Pane : Len(Q[s]) \in Nat BY DEF Orderly
<1>5. status \in [Msg -> Status] BY DEF TypeOK
<1>6. /\ Notices(F) = UNION {Range(Bounced(F, s)) : s \in Pane}
      /\ Enqueued(F, Q, l) = UNION {Range(A(s)) : s \in Pane}
  BY DEF Notices, Enqueued
<1>. HIDE DEF F
<1>7. \A s \in Pane : /\ A(s) \in Seq(Notice) /\ Distinct(A(s)) /\ Range(A(s)) \subseteq Range(Bounced(F, s))
                      /\ Len(Q[s]) + Len(A(s)) <= QueueCap
  BY <1>1, AdmittedIs
<1>8. ASSUME NEW s \in Pane, NEW x \in Range(Bounced(F, s))
      PROVE  /\ m \in Post \ Inbound /\ holder[Sender[m]] = s /\ x = n /\ status[n] = "none" /\ Tells(m)
             /\ n \in Notice
  <2>1. IsBounce(x, F, s) /\ Bounced(F, s) \in Seq(Notice) BY <1>1, BouncedIs
  <2>2. Bounced(F, s) # << >> BY <1>8, <2>1 DEF Range
  <2>3. m \in Post \ Inbound /\ holder[Sender[m]] = s /\ x = n /\ status[n] = "none" BY <1>1, <2>1 DEF IsBounce
  <2>. QED BY <1>2, <2>2, <2>3, QueueConstants
<1>9. \A q : q \o << >> = q \/ q \notin Seq(Msg) BY ConcatEmptySeq
<1>. HIDE DEF W, A
<1>10. CASE Notices(F) = {}
  <2>0. \A s \in Pane : Range(Bounced(F, s)) = {} BY <1>6, <1>10
  <2>1. \A s \in Pane : Range(A(s)) = {} BY <1>7, <2>0
  <2>2. Enqueued(F, Q, l) = {} BY <1>6, <2>1
  <2>3. ASSUME NEW s \in Pane PROVE A(s) = << >>
    <3>1. A(s) \in Seq(Notice) /\ Range(A(s)) = {} BY <1>7, <2>1
    <3>. QED BY <3>1, NoElement
  <2>4. W = Q BY <1>3, <1>4, <2>3
  <2>5. \A x \in Msg : status'[x] = SetStatus(m, "failed")[x]
    BY <1>1, <1>3, <1>5, <1>10 DEF FailedStatus, SetStatus, Waiting
  <2>6. status' = SetStatus(m, "failed")
    <3>1. status' = [x \in Msg |-> status'[x]] BY <1>3 DEF FailedStatus
    <3>2. SetStatus(m, "failed") = [x \in Msg |-> SetStatus(m, "failed")[x]] BY <1>5 DEF SetStatus
    <3>. QED BY <2>5, <3>1, <3>2
  <2>7. envelope' = envelope \ {m} BY <1>1, <1>3, <2>2 DEF FailedEnvelope
  <2>. QED BY <2>4, <2>6, <2>7 DEF Outcome, NoNotice, W, F
<1>11. CASE Notices(F) # {}
  <2>1. PICK p \in Pane : n \in Range(Bounced(F, p)) BY <1>6, <1>8, <1>11
  <2>2. /\ m \in Post \ Inbound /\ holder[Sender[m]] = p /\ status[n] = "none" /\ Tells(m) /\ n \in Notice
    BY <1>8, <2>1
  <2>3. n # m /\ n \in Msg BY <2>2, QueueConstants DEF Msg
  <2>4. status[m] \in Waiting BY <2>2 DEF Tells, Waiting
  <2>5. Bounce(m, n) BY <2>2, <2>3, <2>4 DEF Bounce
  <2>6. Notices(F) = {n} BY <1>6, <1>8, <2>1
  <2>7. ASSUME NEW s \in Pane \ {p} PROVE A(s) = << >>
    <3>1. Range(Bounced(F, s)) = {} BY <1>8, <2>2
    <3>2. A(s) \in Seq(Notice) /\ Range(A(s)) = {} BY <1>7, <3>1
    <3>. QED BY <3>2, NoElement
  <2>8. A(p) = << >> \/ A(p) = <<n>>
    <3>1. Range(Bounced(F, p)) \subseteq {n} BY <1>8
    <3>2. Range(A(p)) \subseteq {n} BY <1>7, <3>1
    <3>. QED BY <1>7, <3>2, OneOrNone
  <2>9. \A x \in Msg : /\ x # m /\ x # n => status'[x] = status[x]
                       /\ x = m => status'[x] = "failed"
                       /\ x = n => status'[x] = IF n \in Enqueued(F, Q, l) THEN "queued" ELSE "failed"
    BY <1>1, <1>3, <2>3, <2>4, <2>6 DEF FailedStatus, Waiting
  <2>10. ASSUME NEW w, w = status'[n] PROVE status' = [status EXCEPT ![m] = "failed", ![n] = w]
    <3>1. status' = [x \in Msg |-> status'[x]] BY <1>3 DEF FailedStatus
    <3>. DEFINE e == [status EXCEPT ![m] = "failed", ![n] = w]
    <3>2. e = [x \in Msg |-> IF x = n THEN w ELSE IF x = m THEN "failed" ELSE status[x]] BY <1>5, <2>3
    <3>. HIDE DEF e
    <3>3. \A x \in Msg : status'[x] = e[x] BY <2>9, <2>10, <3>2
    <3>. QED BY <3>1, <3>2, <3>3 DEF e
  <2>. HIDE DEF n
  <2>11. CASE A(p) = << >>
    <3>1. \A s \in Pane : A(s) = << >> BY <2>7, <2>11
    <3>2. Range(<< >>) = {} BY DEF Range
    <3>3. Enqueued(F, Q, l) = {} BY <1>6, <3>1, <3>2
    <3>4. W = Q BY <1>3, <1>4, <3>1
    <3>5. envelope' = envelope \ {m} BY <1>1, <1>3, <3>3 DEF FailedEnvelope
    <3>6. status' = [status EXCEPT ![m] = "failed", ![n] = "failed"] BY <2>3, <2>9, <2>10, <3>3
    <3>7. LostNotice(m, n, Q, W) BY <2>5, <3>4, <3>5, <3>6 DEF LostNotice
    <3>. QED BY <2>2, <3>7 DEF Outcome, W, F
  <2>12. CASE A(p) = <<n>>
    <3>1. Range(<<n>>) = {n} /\ Range(<< >>) = {} BY DEF Range
    <3>2. Enqueued(F, Q, l) = {n} BY <1>6, <2>7, <2>12, <3>1
    <3>3. Len(Q[p]) < QueueCap
      <4>1. Len(<<n>>) = 1 /\ QueueCap \in Nat BY QueueConstants
      <4>2. Len(Q[p]) + 1 <= QueueCap BY <1>7, <2>12, <4>1
      <4>. QED BY <1>4, <4>1, <4>2
    <3>4. W = [Q EXCEPT ![p] = Append(@, n)]
      <4>1. \A s \in Pane \ {p} : Q[s] \o A(s) = Q[s] BY <1>4, <1>9, <2>7
      <4>2. Q[p] \o A(p) = Append(Q[p], n) BY <1>4, <2>3, <2>12, AppendIsConcat
      <4>. QED BY <1>3, <1>4, <4>1, <4>2
    <3>5. envelope' = (envelope \ {m}) \cup {n} BY <1>1, <1>3, <3>2 DEF FailedEnvelope
    <3>6. status' = [status EXCEPT ![m] = "failed", ![n] = "queued"] BY <2>3, <2>9, <2>10, <3>2
    <3>7. SentNotice(m, n, p, Q, W) BY <2>5, <3>3, <3>4, <3>5, <3>6 DEF SentNotice
    <3>. QED BY <2>2, <3>7 DEF Outcome, W, F
  <2>. QED BY <2>8, <2>11, <2>12
<1>. QED BY <1>10, <1>11
-----------------------------------------------------------------------------
(* The moves of one message.                                               *)

\* Panes stay open, what waits has its text and its place in a queue, and what
\* was promised to a Stop hook says so.
OpenInv ==
    /\ seen \subseteq Open
    /\ \A m \in Msg : Queued(m) /\ status[m] # "evicted" => m \in envelope
    /\ \A p \in Pane : stage[p] \in {"hook", "hooked"} => route[flight[p]] = "hook"
    /\ WaitingIsQueued

Carried(p, m) == stage[p] # "none" /\ flight[p] = m
Unseen(m) == \A p \in Pane : Carried(p, m) => stage[p] \in Unread
PutsDown(p) == flight' = [flight EXCEPT ![p] = None] /\ stage' = [stage EXCEPT ![p] = "none"]
LetsGo(m) ==
    \/ Elsewhere(m) /\ UNCHANGED <<flight, stage>>
    \/ \E p \in Pane : Carried(p, m) /\ PutsDown(p)

\* Nothing is reported but, of m, the verdicts V.
Heard(m, V) == \A x \in Msg : verdict'[x] \subseteq verdict[x] \cup (IF x = m THEN V ELSE {})

\* The sending pane of a message about to get its row.
HasSender(m) == m \in Post \ Inbound /\ Sender[m] # None => holder[Sender[m]] # None

Idle ==
    /\ UNCHANGED <<row, queue, envelope, readReserved, flight, stage, reading, shown, told>>
    /\ seen \subseteq Open => seen' \subseteq Open'
    /\ \A n \in Name : holder[n] # None => holder'[n] # None \/ PanesRename
    /\ \A x \in Msg : /\ verdict'[x] \subseteq verdict[x] \cup {"ok"}
                      /\ unconfirmed'[x] = unconfirmed[x] \/ shown[x] > 0
Declined(p) ==
    /\ stage[p] = "push" \/ (stage[p] = "pushed" /\ RepliesLost)
    /\ stage' = [stage EXCEPT ![p] = "typing"] /\ route' = [route EXCEPT ![flight[p]] = "none"]
    /\ UNCHANGED <<registry, status, queue, envelope, readReserved, flight, reading, history, unconfirmed>>
Comes(m, p) ==
    /\ m \notin Ack /\ status[m] = "none" /\ HasSender(m) /\ Len(queue[p]) < QueueCap
    /\ status' = [status EXCEPT ![m] = "queued"] /\ queue' = [queue EXCEPT ![p] = Append(@, m)]
    /\ envelope' = envelope \cup {m}
    /\ UNCHANGED <<registry, route, readReserved, flight, stage, reading, history, unconfirmed>>
Settles(m) ==
    /\ status[m] = "none" /\ HasSender(m)
    /\ \/ m \in Ack /\ status' = [status EXCEPT ![m] = "delivered"] /\ UNCHANGED verdict
       \/ m \in Inbound /\ status' = [status EXCEPT ![m] = "failed"] /\ Heard(m, {"failed"})
    /\ UNCHANGED <<registry, route, queue, envelope, readReserved, flight, stage, reading, shown, told, unconfirmed>>
Failing(m) ==
    /\ status[m] \in Waiting \cup {"evicted"} /\ readReserved[m] = None
    /\ status[m] = "none" => m \in Post \ Inbound /\ HasSender(m)
    /\ Unseen(m) /\ LetsGo(m) /\ Outcome(m, Less(m), queue')
    /\ told' = FailedTold(<<m>>) /\ Heard(m, {"failed"})
    /\ UNCHANGED <<registry, route, readReserved, reading, shown, unconfirmed>>
TakenUp(p, m) ==
    /\ p \in Open /\ AtHead(p, m) /\ stage[p] = "none"
    /\ Elsewhere(m) /\ readReserved[m] = None /\ status[m] # "evicted"
    /\ \E s \in Unread :
          /\ stage' = [stage EXCEPT ![p] = s]
          /\ s = "hook" => route'[m] = "hook"
    /\ status' = [status EXCEPT ![m] = "delivering"] /\ flight' = [flight EXCEPT ![p] = m]
    /\ \A x \in Msg \ {m} : route'[x] = route[x]
    /\ UNCHANGED <<registry, queue, envelope, readReserved, reading, history, unconfirmed>>
Landing(p) ==
    /\ stage[p] \in Unread
    /\ \E s \in Got : /\ stage' = [stage EXCEPT ![p] = s]
                      /\ s = "hooked" => stage[p] = "hook"
    /\ shown' = [shown EXCEPT ![flight[p]] = MoreOnce(@)]
    /\ UNCHANGED <<registry, row, queue, envelope, readReserved, flight, reading, told, verdict, unconfirmed>>
PutBack(m) ==
    /\ status[m] \in InHand /\ (readReserved[m] # None \/ ~Elsewhere(m))
    /\ Unseen(m) \/ RepliesLost \/ status[m] = "evicted"
    /\ LetsGo(m) /\ readReserved' = [readReserved EXCEPT ![m] = None]
    /\ status' = SetStatus(m, "queued") \/ UNCHANGED status
    /\ route' = [route EXCEPT ![m] = "none"] \/ UNCHANGED route
    /\ reading' = reading \ {<<readReserved[m], m>>} \/ UNCHANGED reading
    /\ RepliesLost \/ <<readReserved[m], m>> \notin reading'
    /\ UNCHANGED <<registry, queue, envelope, history, unconfirmed>>
Handed(p, m) ==
    /\ Carried(p, m) /\ PutsDown(p)
    /\ status' = SetStatus(m, "delivered") /\ queue' = Less(m) /\ envelope' = envelope \ {m}
    /\ stage[p] \in Got \/ unconfirmed'[m] # None
    /\ \A x \in Msg \ {m} : unconfirmed'[x] = unconfirmed[x]
    /\ Heard(m, {"ok", "unconfirmed"})
    /\ UNCHANGED <<registry, route, readReserved, reading, shown, told>>
ReadOut(p, m) ==
    /\ readReserved[m] = p /\ status[m] # "evicted" /\ <<p, m>> \in reading
    /\ status' = [status EXCEPT ![m] = "delivered"] /\ queue' = Less(m) /\ envelope' = envelope \ {m}
    /\ readReserved' = [readReserved EXCEPT ![m] = None] /\ reading' = reading \ {<<p, m>>}
    /\ shown' = [shown EXCEPT ![m] = MoreOnce(@)] /\ Heard(m, {"ok"})
    /\ UNCHANGED <<registry, route, flight, stage, told, unconfirmed>>
Withdrawn(m) ==
    /\ status[m] \in Waits /\ readReserved[m] = None /\ Unseen(m) /\ LetsGo(m)
    /\ status' = SetStatus(m, "cancelled") /\ queue' = Less(m)
    /\ envelope' = envelope \/ envelope' = envelope \ {m}
    /\ Heard(m, {"failed"})
    /\ UNCHANGED <<registry, route, readReserved, reading, shown, told, unconfirmed>>
Reserving(p, m) ==
    /\ status[m] = "queued" /\ m \in Range(queue[p]) /\ Elsewhere(m) /\ readReserved[m] = None
    /\ status' = [status EXCEPT ![m] = "delivering"] /\ route' = [route EXCEPT ![m] = "read"]
    /\ readReserved' = [readReserved EXCEPT ![m] = p] /\ reading' = reading \cup {<<p, m>>}
    /\ UNCHANGED <<registry, queue, envelope, flight, stage, history, unconfirmed>>
Vanishes(m) ==
    /\ LogOverflows /\ status[m] # "none"
    /\ status' = [status EXCEPT ![m] = "evicted"] /\ envelope' = envelope \ {m}
    /\ UNCHANGED <<registry, route, queue, readReserved, flight, stage, reading, history, unconfirmed>>
ReadLate(p, m) ==
    /\ <<p, m>> \in reading /\ reading' = reading \ {<<p, m>>}
    /\ RepliesLost \/ readReserved[m] # p \/ status[m] = "evicted"
    /\ shown' = shown \/ shown' = [shown EXCEPT ![m] = MoreOnce(@)]
    /\ UNCHANGED <<registry, row, queue, envelope, readReserved, flight, stage, told, verdict, unconfirmed>>

Moves(m) ==
    \/ Settles(m) \/ Failing(m) \/ PutBack(m) \/ Withdrawn(m) \/ Vanishes(m)
    \/ \E p \in Pane : Comes(m, p) \/ TakenUp(p, m) \/ Handed(p, m) \/ ReadOut(p, m) \/ Reserving(p, m)
                       \/ ReadLate(p, m)
Move == Idle \/ (\E p \in Pane : Declined(p) \/ Landing(p)) \/ \E m \in Msg : Moves(m)
-----------------------------------------------------------------------------
(* Every step is a move.                                                   *)

\* While panes stay open, what a hand-over carries heads its queue.
LEMMA HandIs ==
  ASSUME TypeOK, QInv, OpenInv, NEW p \in Pane, stage[p] # "none"
  PROVE  /\ p \in Open /\ AtHead(p, flight[p]) /\ flight[p] \in Msg /\ Queued(flight[p])
         /\ status[flight[p]] \in InHand /\ readReserved[flight[p]] = None /\ ~Elsewhere(flight[p])
         /\ \A r \in Pane : Carried(r, flight[p]) => r = p
         /\ [queue EXCEPT ![p] = Tail(@)] = Less(flight[p])
         /\ \A Q : Shift(p, Q) = [Q EXCEPT ![p] = Tail(@)]
<1>1. FlightOf(p) BY DEF QInv, FlightInv
<1>2. p \in Open BY DEF QInv, PaneInv, OpenInv
<1>3. AtHead(p, flight[p]) /\ status[flight[p]] \in InHand BY <1>1, <1>2 DEF FlightOf
<1>4. Queued(flight[p]) BY <1>3, QueueOrderly, HeadQueued
<1>5. ~Elsewhere(flight[p]) BY DEF Elsewhere
<1>6. [queue EXCEPT ![p] = Tail(@)] = Less(flight[p])
  <2>1. queue[p] # << >> /\ queue[p][1] = flight[p] BY <1>3 DEF AtHead
  <2>2. Orderly(queue) /\ Apart(queue) BY QueueOrderly
  <2>3. [queue EXCEPT ![p] = Tail(@)] = LessOf(queue, queue[p][1]) BY <2>1, <2>2, HeadGone
  <2>. QED BY <2>1, <2>3 DEF Less
<1>7. \A r \in Pane : Carried(r, flight[p]) => r = p BY <1>1 DEF FlightOf, Carried
<1>8. \A Q : Shift(p, Q) = [Q EXCEPT ![p] = Tail(@)] BY <1>2 DEF Shift
<1>. QED BY <1>1, <1>2, <1>3, <1>4, <1>5, <1>6, <1>7, <1>8 DEF FlightOf

LEMMA HandEnds ==
  ASSUME TypeOK, QInv, OpenInv, NEW p \in Pane, stage[p] # "none",
         EndFlight(p) \/ PutsDown(p)
  PROVE  /\ Carried(p, flight[p]) /\ PutsDown(p) /\ LetsGo(flight[p])
         /\ stage[p] \in Unread => Unseen(flight[p])
<1>1. Carried(p, flight[p]) BY DEF Carried
<1>2. PutsDown(p) BY DEF EndFlight, PutsDown
<1>3. stage[p] \in Unread => Unseen(flight[p]) BY HandIs DEF Unseen
<1>. QED BY <1>1, <1>2, <1>3 DEF LetsGo

LEMMA AckHeard ==
  ASSUME TypeOK, NEW m, NEW v, AckInbound({m}, v), NEW V, v \in V
  PROVE  Heard(m, V)
<1>1. \A x \in Msg : verdict'[x] = IF x \in {m} \cap remoteInbound THEN verdict[x] \cup {v} ELSE verdict[x]
  BY DEF AckInbound
<1>. QED BY <1>1 DEF Heard

LEMMA RegistryMoves ==
  ASSUME TypeOK, NEW p \in Pane, NEW n \in Name, Register(p, n) \/ Rename(p, n)
  PROVE  Move
<1>0. None \notin Pane BY QueueConstants
<1>1. UNCHANGED <<row, queue, envelope, readReserved, flight, stage, reading, shown, told, verdict, unconfirmed>>
  BY DEF Register, Rename, maps, handover, history
<1>2. seen \subseteq Open => seen' \subseteq Open'
  <2>1. CASE Register(p, n)
    <3>1. seen' = seen \cup {p} /\ holder' = [holder EXCEPT ![n] = p] /\ holder[n] = None
      BY <2>1 DEF Register
    <3>2. holder'[n] = p /\ \A k \in Name : holder[k] # None => holder'[k] = holder[k]
      BY <3>1 DEF TypeOK
    <3>. QED BY <1>0, <3>1, <3>2 DEF Open
  <2>2. CASE Rename(p, n)
    <3>1. /\ seen' = seen /\ holder[n] = None
          /\ holder' = [k \in Name |-> IF k = n THEN p ELSE IF holder[k] = p THEN None ELSE holder[k]]
      BY <2>2 DEF Rename
    <3>2. holder'[n] = p /\ \A k \in Name : holder[k] # None /\ holder[k] # p => holder'[k] = holder[k]
      BY <3>1
    <3>. QED BY <1>0, <3>1, <3>2 DEF Open
  <2>. QED BY <2>1, <2>2
<1>3. \A k \in Name : holder[k] # None => holder'[k] # None \/ PanesRename
  BY <1>0 DEF Register, Rename, TypeOK
<1>4. Idle BY <1>1, <1>2, <1>3, Zenon DEF Idle
<1>. QED BY <1>4 DEF Move

LEMMA IdleMoves ==
  ASSUME TypeOK, NEW p, NEW m, Pause \/ ConfirmDelivery(m) \/ CancelTyping(p) \/ UNCHANGED vars
  PROVE  Move
<1>1. UNCHANGED <<registry, row, queue, envelope, readReserved, flight, stage, reading, shown, told>>
  BY DEF Pause, ConfirmDelivery, CancelTyping, vars, maps, handover, history
<1>2. Open' = Open BY <1>1 DEF Open, registry
<1>3. \A x \in Msg : /\ verdict'[x] \subseteq verdict[x] \cup {"ok"}
                     /\ unconfirmed'[x] = unconfirmed[x] \/ shown[x] > 0
  <2>1. CASE Pause \/ CancelTyping(p) \/ UNCHANGED vars
    <3>1. UNCHANGED <<verdict, unconfirmed>> BY <2>1 DEF Pause, CancelTyping, vars, maps, history
    <3>. QED BY <3>1
  <2>2. CASE ConfirmDelivery(m)
    <3>1. /\ shown[m] > 0 /\ unconfirmed' = [unconfirmed EXCEPT ![m] = None]
          /\ verdict' = [verdict EXCEPT ![m] = IF "unconfirmed" \in @ THEN @ \cup {"ok"} ELSE @]
      BY <2>2 DEF ConfirmDelivery
    <3>. QED BY <3>1 DEF TypeOK
  <2>. QED BY <2>1, <2>2
<1>4. Idle BY <1>1, <1>2, <1>3 DEF Idle, registry
<1>. QED BY <1>4 DEF Move

\* A message enters a queue, is settled at the door, or fails there.
LEMMA SendMoves ==
  ASSUME TypeOK, QInv, NEW m \in Post, NEW over, NEW l, Send(m, over, l)
  PROVE  Move
<1>. DEFINE t == holder[Addressee[m]]
<1>1. m \in Msg /\ status[m] = "none" /\ HasSender(m) /\ m \in Post \ Inbound BY DEF Send, Msg, HasSender
<1>2. ~Queued(m) /\ readReserved[m] = None /\ Elsewhere(m) BY <1>1, UnsentIs
<1>3. UNCHANGED <<registry, route, readReserved, flight, stage, reading, shown, verdict, unconfirmed>>
  BY DEF Send, handover
<1>4. CASE Fails(<<m>>, queue, l) /\ queue' = WithNotices(<<m>>, queue, l)
  <2>1. Less(m) = queue
    <3>1. \A s \in Pane : m \notin Range(queue[s]) BY <1>2 DEF Queued
    <3>. QED BY <3>1, NoneGone DEF Less, TypeOK
  <2>2. Outcome(m, Less(m), queue')
    <3>1. Orderly(queue) BY QueueOrderly
    <3>2. status[m] \in Waiting BY <1>1 DEF Waiting
    <3>. QED BY <1>1, <1>4, <2>1, <3>1, <3>2, FailOne
  <2>3. Unseen(m) /\ LetsGo(m) BY <1>2, <1>3 DEF Unseen, LetsGo, Elsewhere, Carried
  <2>4. told' = FailedTold(<<m>>) BY <1>4 DEF Fails
  <2>5. Heard(m, {"failed"}) BY <1>3 DEF Heard
  <2>6. status[m] \in Waiting \cup {"evicted"} BY <1>1 DEF Waiting
  <2>7. Failing(m) BY <1>1, <1>2, <1>3, <2>2, <2>3, <2>4, <2>5, <2>6, Zenon DEF Failing
  <2>. QED BY <1>1, <2>7 DEF Move, Moves
<1>5. CASE /\ Admits(m, over) /\ m \notin Ack
           /\ status' = [status EXCEPT ![m] = "queued"]
           /\ queue' = [queue EXCEPT ![t] = Append(@, m)]
           /\ envelope' = envelope \cup {m}
           /\ UNCHANGED <<unclear, told>>
  <2>1. t \in Pane /\ Len(queue[t]) < QueueCap BY <1>5, AdmitsIs
  <2>2. Comes(m, t) BY <1>1, <1>3, <1>5, <2>1 DEF Comes, history
  <2>. QED BY <1>1, <2>1, <2>2 DEF Move, Moves
<1>6. CASE /\ m \in Ack /\ status' = [status EXCEPT ![m] = "delivered"]
           /\ UNCHANGED <<queue, envelope, unclear, told>>
  <2>1. Settles(m) BY <1>1, <1>3, <1>6 DEF Settles
  <2>. QED BY <1>1, <2>1 DEF Move, Moves
<1>. QED BY <1>4, <1>5, <1>6 DEF Send

LEMMA AcceptMoves ==
  ASSUME TypeOK, QInv, NEW m \in Post, NEW over, AcceptRemote(m, over)
  PROVE  Move
<1>. DEFINE p == holder[Addressee[m]]
<1>1. m \in Msg /\ m \in Inbound /\ status[m] = "none" /\ HasSender(m) BY DEF AcceptRemote, Fresh, Msg, HasSender
<1>2. m \notin Ack BY <1>1, QueueConstants
<1>3. UNCHANGED <<registry, route, readReserved, flight, stage, reading, shown, told, unconfirmed>>
  BY DEF AcceptRemote, handover
<1>4. CASE /\ status' = [status EXCEPT ![m] = "failed"]
           /\ verdict' = [verdict EXCEPT ![m] = @ \cup {"failed"}]
           /\ UNCHANGED <<queue, envelope, remoteInbound>>
  <2>1. Heard(m, {"failed"}) BY <1>4 DEF Heard, TypeOK
  <2>2. Settles(m) BY <1>1, <1>3, <1>4, <2>1 DEF Settles
  <2>. QED BY <1>1, <2>2 DEF Move, Moves
<1>5. CASE /\ Admits(m, over)
           /\ status' = [status EXCEPT ![m] = "queued"]
           /\ queue' = [queue EXCEPT ![p] = Append(@, m)]
           /\ envelope' = envelope \cup {m}
           /\ remoteInbound' = remoteInbound \cup {m}
           /\ UNCHANGED verdict
  <2>1. p \in Pane /\ Len(queue[p]) < QueueCap BY <1>5, AdmitsIs
  <2>2. Comes(m, p) BY <1>1, <1>2, <1>3, <1>5, <2>1 DEF Comes, history
  <2>. QED BY <1>1, <2>1, <2>2 DEF Move, Moves
<1>. QED BY <1>4, <1>5 DEF AcceptRemote

LEMMA EvictMoves == ASSUME NEW m \in Msg, Evict(m) PROVE Move
<1>1. Vanishes(m) BY DEF Evict, Vanishes, Logged, handover, history
<1>. QED BY <1>1 DEF Move, Moves
\* A head nobody has in hand.
LEMMA FreeHeadIs ==
  ASSUME TypeOK, QInv, NEW p \in Pane, HeadFree(p), NEW m, m = queue[p][1]
  PROVE  /\ p \in Open /\ AtHead(p, m) /\ m \in Msg /\ Queued(m) /\ status[m] \in Waits
         /\ stage[p] = "none" /\ Elsewhere(m) /\ readReserved[m] = None
         /\ [queue EXCEPT ![p] = Tail(@)] = Less(m)
<1>1. queue[p] # << >> /\ p \notin delivering /\ readReserved[m] = None BY DEF HeadFree
<1>2. AtHead(p, m) /\ p \in Open /\ stage[p] = "none" BY <1>1 DEF AtHead, QInv, PaneInv
<1>3. m \in Msg /\ Queued(m) BY <1>2, QueueOrderly, HeadQueued
<1>4. status[m] \in Waits BY <1>3 DEF QInv, WaitInv
<1>5. Elsewhere(m) BY <1>1, <1>2, <1>3, QueueOrderly, NotInHand
<1>6. [queue EXCEPT ![p] = Tail(@)] = Less(m)
  <2>1. Orderly(queue) /\ Apart(queue) BY QueueOrderly
  <2>2. [queue EXCEPT ![p] = Tail(@)] = LessOf(queue, queue[p][1]) BY <1>1, <2>1, HeadGone
  <2>. QED BY <2>2 DEF Less
<1>. QED BY <1>1, <1>2, <1>3, <1>4, <1>5, <1>6

LEMMA TakeMoves ==
  ASSUME TypeOK, QInv, NEW p \in Pane, StartPush(p) \/ StartTyping(p) \/ DrainForHook(p)
  PROVE  Move
<1>. DEFINE m == queue[p][1]
<1>1. PICK s \in Unread : /\ Take(p, s)
                          /\ \/ route' = [route EXCEPT ![m] = s]
                             \/ s # "hook" /\ UNCHANGED route
  BY DEF StartPush, StartTyping, DrainForHook, Unread
<1>2. /\ HeadFree(p) /\ ~Gone(m)
      /\ status' = [status EXCEPT ![m] = "delivering"] /\ flight' = [flight EXCEPT ![p] = m]
      /\ stage' = [stage EXCEPT ![p] = s]
      /\ UNCHANGED <<registry, queue, envelope, readReserved, reading, history, unconfirmed>>
  BY <1>1 DEF Take, maps
<1>. HIDE DEF m
<1>3. /\ p \in Open /\ AtHead(p, m) /\ m \in Msg
      /\ stage[p] = "none" /\ Elsewhere(m) /\ readReserved[m] = None
  BY <1>2, FreeHeadIs DEF m
<1>4. status[m] # "evicted" BY <1>2 DEF Gone
<1>5. (s = "hook" => route'[m] = "hook") /\ \A x \in Msg \ {m} : route'[x] = route[x]
  BY <1>1, <1>3 DEF TypeOK
<1>6. TakenUp(p, m) BY <1>2, <1>3, <1>4, <1>5 DEF TakenUp
<1>. QED BY <1>3, <1>6 DEF Move, Moves

LEMMA DropMoves ==
  ASSUME TypeOK, QInv, OpenInv, NEW p \in Pane, DropHead(p)
  PROVE  Move
<1>. DEFINE m == queue[p][1]
<1>1. /\ HeadFree(p) /\ Gone(m) /\ queue' = [queue EXCEPT ![p] = Tail(@)] /\ AckInbound({m}, "failed")
      /\ UNCHANGED <<registry, route, status, envelope, readReserved, flight, stage, reading, shown, told, unconfirmed>>
  BY DEF DropHead, row, handover
<1>. HIDE DEF m
<1>2. /\ m \in Msg /\ Queued(m) /\ status[m] \in Waits
      /\ Elsewhere(m) /\ readReserved[m] = None /\ queue' = Less(m)
  BY <1>1, FreeHeadIs DEF m
<1>3. status[m] = "evicted" BY <1>1, <1>2 DEF Gone, OpenInv
<1>4. status' = SetStatus(m, "cancelled") BY <1>1, <1>2, <1>3 DEF SetStatus, TypeOK
<1>5. Unseen(m) /\ LetsGo(m) BY <1>1, <1>2 DEF Unseen, LetsGo, Elsewhere, Carried
<1>6. Heard(m, {"failed"}) BY <1>1, AckHeard
<1>7. Withdrawn(m) BY <1>1, <1>2, <1>4, <1>5, <1>6 DEF Withdrawn
<1>. QED BY <1>2, <1>7 DEF Move, Moves

\* m fails once it has left the queues.
LEMMA FailsMoves ==
  ASSUME TypeOK, QInv, NEW m \in Msg, status[m] \in Waits, readReserved[m] = None, Unseen(m), LetsGo(m),
         NEW l, Fails(<<m>>, Less(m), l), queue' = WithNotices(<<m>>, Less(m), l), AckInbound({m}, "failed"),
         UNCHANGED <<registry, route, readReserved, reading, shown, unconfirmed>>
  PROVE  Move
<1>1. Orderly(Less(m))
  <2>1. Orderly(queue) BY QueueOrderly
  <2>2. Flow(queue, LessOf(queue, m), {m}, Nobody) BY <2>1, FlowWithout DEF LessOf
  <2>. QED BY <2>2 DEF Flow, Less
<1>2. status[m] \in Waiting \cup {"evicted"} /\ status[m] # "none" BY DEF Waits, Waiting
<1>3. Outcome(m, Less(m), queue') BY <1>1, <1>2, FailOne
<1>4. Heard(m, {"failed"}) BY AckHeard
<1>5. told' = FailedTold(<<m>>) BY DEF Fails
<1>6. Failing(m) BY <1>2, <1>3, <1>4, <1>5 DEF Failing
<1>. QED BY <1>6 DEF Move, Moves

LEMMA RefuseMoves ==
  ASSUME TypeOK, QInv, NEW p \in Pane, NEW l, RefuseHead(p, l)
  PROVE  Move
<1>. DEFINE m == queue[p][1]
            Q == [queue EXCEPT ![p] = Tail(@)]
<1>1. /\ HeadFree(p) /\ Fails(<<m>>, Q, l) /\ queue' = WithNotices(<<m>>, Q, l) /\ AckInbound({m}, "failed")
      /\ UNCHANGED <<registry, route, readReserved, flight, stage, reading, shown, unconfirmed>>
  BY DEF RefuseHead, handover
<1>. HIDE DEF m
<1>2. m \in Msg /\ status[m] \in Waits /\ Elsewhere(m) /\ readReserved[m] = None /\ Q = Less(m)
  BY <1>1, FreeHeadIs DEF m
<1>. HIDE DEF Q
<1>3. Unseen(m) /\ LetsGo(m) BY <1>1, <1>2 DEF Unseen, LetsGo, Elsewhere, Carried
<1>. QED BY <1>1, <1>2, <1>3, FailsMoves

LEMMA LandMoves ==
  ASSUME TypeOK, NEW p \in Pane, Lands(p) \/ PushDeclined(p)
  PROVE  Move
<1>1. CASE Lands(p)
  <2>1. /\ stage[p] \in Unread
        /\ stage' = [stage EXCEPT ![p] = CASE @ = "push" -> "pushed"
                                           [] @ = "typing" -> "typed"
                                           [] @ = "hook" -> "hooked"]
        /\ shown' = [shown EXCEPT ![flight[p]] = MoreOnce(@)]
        /\ UNCHANGED <<registry, row, queue, envelope, readReserved, flight, reading, told, verdict, unconfirmed>>
    BY <1>1 DEF Lands, Unread, maps
  <2>2. PICK s \in Got : /\ stage' = [stage EXCEPT ![p] = s]
                         /\ s = "hooked" => stage[p] = "hook"
    BY <2>1 DEF Unread, Got
  <2>3. Landing(p) BY <2>1, <2>2 DEF Landing
  <2>. QED BY <2>3 DEF Move
<1>2. CASE PushDeclined(p)
  <2>1. Declined(p) BY <1>2 DEF PushDeclined, Declined, maps
  <2>. QED BY <2>1 DEF Move
<1>. QED BY <1>1, <1>2
LEMMA TailAppend ==
  ASSUME NEW D, NEW q \in Seq(D), q # << >>, NEW n \in D
  PROVE  Tail(Append(q, n)) = Append(Tail(q), n)
<1>. DEFINE a == Append(q, n)
            t == Tail(q)
            l == Tail(a)
            r == Append(t, n)
<1>1. a \in Seq(D) /\ Len(a) = Len(q) + 1 /\ a # << >> /\ Len(q) \in Nat /\ Len(q) # 0
      /\ \A i \in 1..Len(q) : a[i] = q[i]
      /\ a[Len(q) + 1] = n
  BY AppendProperties
<1>2. t \in Seq(D) /\ Len(t) = Len(q) - 1 /\ \A i \in 1..(Len(q) - 1) : t[i] = q[i + 1]
  BY TailIs
<1>. HIDE DEF a, t
<1>3. l \in Seq(D) /\ Len(l) = Len(q) /\ \A i \in 1..Len(q) : l[i] = a[i + 1]
  <2>1. l \in Seq(D) /\ Len(l) = Len(a) - 1 /\ \A i \in 1..(Len(a) - 1) : l[i] = a[i + 1]
    BY <1>1, TailIs
  <2>. HIDE DEF l
  <2>. QED BY <1>1, <2>1
<1>4. r \in Seq(D) /\ Len(r) = Len(q) /\ (\A i \in 1..(Len(q) - 1) : r[i] = t[i]) /\ r[Len(q)] = n
  <2>1. r \in Seq(D) /\ Len(r) = Len(t) + 1 /\ (\A i \in 1..Len(t) : r[i] = t[i]) /\ r[Len(t) + 1] = n
    BY <1>2, AppendProperties
  <2>. HIDE DEF r
  <2>. QED BY <1>1, <1>2, <2>1
<1>. HIDE DEF l, r
<1>5. ASSUME NEW i \in 1..Len(l) PROVE l[i] = r[i]
  <2>1. i \in 1..Len(q) /\ l[i] = a[i + 1] BY <1>3
  <2>2. CASE i = Len(q) BY <1>1, <1>4, <2>1, <2>2
  <2>3. CASE i # Len(q)
    <3>1. i \in 1..(Len(q) - 1) /\ i + 1 \in 1..Len(q) BY <1>1, <2>1, <2>3
    <3>. QED BY <1>1, <1>2, <1>4, <2>1, <3>1
  <2>. QED BY <2>2, <2>3
<1>6. l = r BY <1>3, <1>4, <1>5, SeqEqual
<1>. QED BY <1>6 DEF a, t, l, r

\* The notice joins before the head is shifted, or after: it makes no difference.
LEMMA OutcomeShifts ==
  ASSUME TypeOK, QInv, OpenInv, NEW p \in Pane, stage[p] # "none", NEW m, m = flight[p],
         NEW W, Outcome(m, queue, W)
  PROVE  Outcome(m, Less(m), [W EXCEPT ![p] = Tail(@)])
<1>. DEFINE L == Less(m)
            S == [W EXCEPT ![p] = Tail(@)]
<1>1. AtHead(p, m) /\ [queue EXCEPT ![p] = Tail(@)] = L BY HandIs
<1>2. queue[p] # << >> BY <1>1 DEF AtHead
<1>3. queue \in [Pane -> Seq(Msg)] BY DEF TypeOK
<1>4. CASE W = queue
  <2>1. S = L BY <1>1, <1>4
  <2>. HIDE DEF S, L
  <2>2. \A n : LostNotice(m, n, queue, W) => LostNotice(m, n, L, S) BY <2>1 DEF LostNotice
  <2>3. NoNotice(m, queue, W) => NoNotice(m, L, S) BY <2>1 DEF NoNotice
  <2>4. ASSUME NEW n \in Notice, NEW s \in Pane, SentNotice(m, n, s, queue, W) PROVE FALSE
    <3>1. W[s] = Append(queue[s], n) /\ n \in Msg BY <1>3, <2>4 DEF SentNotice, Msg
    <3>2. queue[s] \in Seq(Msg) BY <1>3
    <3>3. Len(W[s]) = Len(queue[s]) + 1 /\ Len(queue[s]) \in Nat BY <3>1, <3>2
    <3>. QED BY <1>4, <3>3
  <2>. QED BY <2>2, <2>3, <2>4 DEF Outcome, S, L
<1>5. ASSUME NEW n \in Notice, NEW s \in Pane, SentNotice(m, n, s, queue, W)
      PROVE  SentNotice(m, n, s, L, S)
  <2>1. W = [queue EXCEPT ![s] = Append(@, n)] /\ Len(queue[s]) < QueueCap /\ n \in Msg
    BY <1>5 DEF SentNotice, Msg
  <2>2. \A r \in Pane : L[r] = IF r = p THEN Tail(queue[p]) ELSE queue[r] BY <1>1, <1>3
  <2>3. L = [r \in Pane |-> L[r]] BY <1>1, <1>3
  <2>4. queue[p] \in Seq(Msg) /\ queue[s] \in Seq(Msg) BY <1>3
  <2>5. Tail(Append(queue[p], n)) = Append(Tail(queue[p]), n)
    BY <1>2, <2>1, <2>4, TailAppend
  <2>6. Len(L[s]) <= Len(queue[s]) /\ Len(L[s]) \in Nat /\ Len(queue[s]) \in Nat
    <3>1. Len(Tail(queue[p])) = Len(queue[p]) - 1 /\ Len(Tail(queue[p])) \in Nat /\ Len(queue[p]) \in Nat
      BY <1>2, <2>4, TailIs
    <3>2. CASE s = p
      <4>1. L[s] = Tail(queue[p]) BY <2>2, <3>2
      <4>. QED BY <3>1, <3>2, <4>1
    <3>3. CASE s # p
      <4>1. L[s] = queue[s] BY <2>2, <3>3
      <4>2. Len(queue[s]) \in Nat BY <2>4
      <4>. QED BY <4>1, <4>2
    <3>. QED BY <3>2, <3>3
  <2>7. Len(L[s]) < QueueCap BY <2>1, <2>6, QueueConstants
  <2>. HIDE DEF L
  <2>8. S = [L EXCEPT ![s] = Append(@, n)]
    <3>1. \A r \in Pane : W[r] = IF r = s THEN Append(queue[r], n) ELSE queue[r] BY <1>3, <2>1
    <3>2. W = [r \in Pane |-> W[r]] BY <1>3, <2>1
    <3>3. \A r \in Pane : S[r] = IF r = p THEN Tail(W[r]) ELSE W[r] BY <3>2
    <3>4. S = [r \in Pane |-> S[r]] BY <3>2
    <3>5. \A r \in Pane : S[r] = IF r = s THEN Append(L[r], n) ELSE L[r]
      BY <2>2, <2>5, <3>1, <3>3
    <3>. HIDE DEF S
    <3>. QED BY <2>3, <3>4, <3>5
  <2>. HIDE DEF S
  <2>. QED BY <1>5, <2>7, <2>8 DEF SentNotice
<1>6. W = queue \/ \E n \in Notice, s \in Pane : SentNotice(m, n, s, queue, W)
  BY DEF Outcome, NoNotice, LostNotice
<1>. QED BY <1>4, <1>5, <1>6 DEF Outcome

LEMMA FlightFailsMoves ==
  ASSUME TypeOK, QInv, OpenInv, NEW p \in Pane, stage[p] \in Unread, NEW m, m = flight[p], EndFlight(p), NEW l,
         Fails(<<m>>, queue, l), queue' = Shift(p, WithNotices(<<m>>, queue, l)),
         AckInbound({m}, "failed"),
         UNCHANGED <<registry, route, readReserved, reading, shown, unconfirmed>>
  PROVE  Move
<1>. DEFINE W == WithNotices(<<m>>, queue, l)
<1>0. stage[p] # "none" BY DEF Unread
<1>1. /\ m \in Msg /\ status[m] \in InHand /\ readReserved[m] = None
      /\ queue' = [W EXCEPT ![p] = Tail(@)]
  <2>. HIDE DEF W
  <2>1. m \in Msg /\ status[m] \in InHand /\ readReserved[m] = None /\ Shift(p, W) = [W EXCEPT ![p] = Tail(@)]
    BY <1>0, HandIs
  <2>. QED BY <2>1 DEF W
<1>2. Unseen(m) /\ LetsGo(m) BY <1>0, HandEnds
<1>3. status[m] \in Waiting \cup {"evicted"} /\ status[m] # "none" BY <1>1 DEF InHand, Waiting
<1>4. Outcome(m, queue, W)
  <2>1. Orderly(queue) BY QueueOrderly
  <2>. QED BY <1>1, <1>3, <2>1, FailOne
<1>. HIDE DEF W
<1>5. Outcome(m, Less(m), queue') BY <1>0, <1>1, <1>4, OutcomeShifts
<1>6. Heard(m, {"failed"}) BY AckHeard
<1>7. told' = FailedTold(<<m>>) BY DEF Fails
<1>8. Failing(m) BY <1>1, <1>2, <1>3, <1>5, <1>6, <1>7 DEF Failing
<1>. QED BY <1>1, <1>8 DEF Move, Moves
LEMMA RequeueMoves ==
  ASSUME TypeOK, QInv, OpenInv, NEW p \in Pane, NEW k, Requeue(p, k)
  PROVE  Move
<1>. DEFINE m == flight[p]
<1>1. /\ stage[p] \in Unread \/ RepliesLost
      /\ stage[p] # "none" /\ EndFlight(p) /\ status' = SetStatus(m, "queued")
      /\ route' = [route EXCEPT ![m] = "none"]
      /\ UNCHANGED <<registry, queue, envelope, readReserved, reading, history, unconfirmed>>
  BY DEF Requeue, Unread
<1>2. m \in Msg /\ status[m] \in InHand /\ readReserved[m] = None /\ ~Elsewhere(m) BY <1>1, HandIs
<1>3. LetsGo(m) /\ (Unseen(m) \/ RepliesLost) BY <1>1, HandEnds
<1>. HIDE DEF m
<1>4. readReserved' = [readReserved EXCEPT ![m] = None] BY <1>1, <1>2 DEF TypeOK
<1>5. RepliesLost \/ <<readReserved[m], m>> \notin reading'
  <2>1. reading \subseteq Pane \X Msg /\ None \notin Pane BY QueueConstants DEF TypeOK
  <2>. QED BY <1>1, <1>2, <2>1
<1>6. PutBack(m) BY <1>1, <1>2, <1>3, <1>4, <1>5 DEF PutBack
<1>. QED BY <1>2, <1>6 DEF Move, Moves

LEMMA DeliveredMoves ==
  ASSUME TypeOK, QInv, OpenInv, NEW p \in Pane, NEW c \in BOOLEAN, Delivered(p, c)
  PROVE  Move
<1>. DEFINE m == flight[p]
            v == IF c THEN "ok" ELSE "unconfirmed"
<1>1. /\ stage[p] # "none" /\ (c => stage[p] \in Got) /\ EndFlight(p)
      /\ status' = SetStatus(m, "delivered") /\ envelope' = envelope \ {m}
      /\ queue' = Shift(p, queue) /\ AckInbound({m}, v)
      /\ unconfirmed' = IF c THEN unconfirmed ELSE [unconfirmed EXCEPT ![m] = p]
      /\ UNCHANGED <<registry, route, readReserved, reading, shown, told>>
  BY DEF Delivered, Got
<1>2. m \in Msg /\ queue' = Less(m) BY <1>1, HandIs
<1>3. Carried(p, m) /\ PutsDown(p) BY <1>1, HandEnds
<1>4. Heard(m, {"ok", "unconfirmed"}) BY <1>1, AckHeard
<1>. HIDE DEF m
<1>5. /\ stage[p] \in Got \/ unconfirmed'[m] # None
      /\ \A x \in Msg \ {m} : unconfirmed'[x] = unconfirmed[x]
  <2>1. None \notin Pane BY QueueConstants
  <2>. QED BY <1>1, <1>2, <2>1 DEF TypeOK
<1>6. Handed(p, m) BY <1>1, <1>2, <1>3, <1>4, <1>5 DEF Handed
<1>. QED BY <1>2, <1>6 DEF Move, Moves

LEMMA FailedMoves ==
  ASSUME TypeOK, QInv, OpenInv, NEW p \in Pane, NEW l, FlightFailed(p, l)
  PROVE  Move
<1>1. /\ stage[p] \in Unread /\ EndFlight(p) /\ Fails(<<flight[p]>>, queue, l)
      /\ queue' = Shift(p, WithNotices(<<flight[p]>>, queue, l)) /\ AckInbound({flight[p]}, "failed")
      /\ UNCHANGED <<registry, route, readReserved, reading, shown, unconfirmed>>
  BY DEF FlightFailed, Unread
<1>. QED BY <1>1, FlightFailsMoves

LEMMA NotInjectedMoves ==
  ASSUME TypeOK, QInv, OpenInv, NEW p \in Pane, NEW l, NotInjected(p, l)
  PROVE  Move
<1>. DEFINE m == flight[p]
<1>1. /\ stage[p] \in Unread /\ EndFlight(p) /\ AckInbound({m}, "failed")
      /\ UNCHANGED <<registry, route, readReserved, reading, shown, unconfirmed>>
      /\ \/ /\ status' = SetStatus(m, "cancelled") /\ queue' = Shift(p, queue)
            /\ envelope' = envelope \ {m} /\ UNCHANGED told
         \/ /\ status[m] # "delivering" /\ queue' = Shift(p, queue) /\ UNCHANGED <<status, envelope, told>>
         \/ /\ Fails(<<m>>, queue, l) /\ queue' = Shift(p, WithNotices(<<m>>, queue, l))
  BY DEF NotInjected, Unread
<1>2. stage[p] # "none" BY <1>1 DEF Unread
<1>3. /\ m \in Msg /\ status[m] \in InHand /\ readReserved[m] = None
      /\ Shift(p, queue) = Less(m)
  BY <1>2, HandIs
<1>4. Unseen(m) /\ LetsGo(m) BY <1>1, <1>2, HandEnds
<1>5. Heard(m, {"failed"}) BY <1>1, AckHeard
<1>6. CASE Fails(<<m>>, queue, l) /\ queue' = Shift(p, WithNotices(<<m>>, queue, l))
  BY <1>1, <1>6, FlightFailsMoves
<1>. HIDE DEF m
<1>7. ASSUME status' = SetStatus(m, "cancelled"), queue' = Shift(p, queue), UNCHANGED told,
             envelope' = envelope \ {m} \/ envelope' = envelope
      PROVE  Move
  <2>1. status[m] \in Waits BY <1>3 DEF InHand, Waits
  <2>2. Withdrawn(m) BY <1>1, <1>3, <1>4, <1>5, <1>7, <2>1 DEF Withdrawn
  <2>. QED BY <1>3, <2>2 DEF Move, Moves
<1>8. CASE status[m] # "delivering" /\ queue' = Shift(p, queue) /\ UNCHANGED <<status, envelope, told>>
  <2>1. status[m] = "evicted" BY <1>3, <1>8 DEF InHand
  <2>2. status' = SetStatus(m, "cancelled") BY <1>3, <1>8, <2>1 DEF SetStatus, TypeOK
  <2>. QED BY <1>7, <1>8, <2>2
<1>. QED BY <1>1, <1>6, <1>7, <1>8

LEMMA HookMoves ==
  ASSUME TypeOK, QInv, OpenInv, NEW p \in Pane, NEW ok \in BOOLEAN, SettleHookDrain(p, ok)
  PROVE  Move
<1>. DEFINE m == queue[p][1]
            holds == /\ p \in Open /\ queue[p] # << >>
                     /\ status[m] = "delivering" /\ route[m] = "hook"
<1>1. /\ HookAnswer(p, ok) /\ PutsDown(p)
      /\ UNCHANGED <<registry, readReserved, reading, shown, told, unconfirmed>>
      /\ \/ /\ holds /\ ok
            /\ queue' = [queue EXCEPT ![p] = Tail(@)] /\ envelope' = envelope \ {m}
            /\ status' = [status EXCEPT ![m] = "delivered"] /\ AckInbound({m}, "ok") /\ UNCHANGED route
         \/ /\ holds /\ ~ok
            /\ status' = [status EXCEPT ![m] = "queued"] /\ route' = [route EXCEPT ![m] = "none"]
            /\ UNCHANGED <<queue, envelope, verdict>>
         \/ /\ ~holds
            /\ UNCHANGED <<row, queue, envelope, verdict>>
  BY DEF SettleHookDrain, PutsDown
<1>2. stage[p] \in {"hook", "hooked"} /\ stage[p] # "none" BY <1>1 DEF HookAnswer
<1>3. /\ p \in Open /\ AtHead(p, flight[p]) /\ flight[p] \in Msg
      /\ status[flight[p]] \in InHand /\ readReserved[flight[p]] = None /\ ~Elsewhere(flight[p])
      /\ [queue EXCEPT ![p] = Tail(@)] = Less(flight[p])
  BY <1>2, HandIs
<1>4. m = flight[p] /\ queue[p] # << >> BY <1>3 DEF AtHead
<1>5. route[m] = "hook" BY <1>2, <1>4 DEF OpenInv
<1>6. Carried(p, m) /\ LetsGo(m) /\ (stage[p] \in Unread => Unseen(m)) BY <1>1, <1>2, <1>4, HandEnds
<1>7. holds \/ status[m] = "evicted" BY <1>3, <1>4, <1>5 DEF InHand
<1>8. m \in Msg /\ status[m] \in InHand /\ readReserved[m] = None /\ ~Elsewhere(m) BY <1>3, <1>4
<1>. HIDE DEF m
<1>9. CASE /\ holds /\ ok
           /\ queue' = [queue EXCEPT ![p] = Tail(@)] /\ envelope' = envelope \ {m}
           /\ status' = [status EXCEPT ![m] = "delivered"] /\ AckInbound({m}, "ok") /\ UNCHANGED route
  <2>1. queue' = Less(m) BY <1>3, <1>4, <1>9
  <2>2. status' = SetStatus(m, "delivered") BY <1>8, <1>9 DEF SetStatus, TypeOK
  <2>3. stage[p] \in Got BY <1>1, <1>9 DEF HookAnswer, Got
  <2>4. Heard(m, {"ok", "unconfirmed"}) BY <1>9, AckHeard
  <2>5. Handed(p, m) BY <1>1, <1>6, <1>9, <2>1, <2>2, <2>3, <2>4 DEF Handed
  <2>. QED BY <1>8, <2>5 DEF Move, Moves
<1>10. ASSUME UNCHANGED <<queue, envelope, verdict>>, Unseen(m) \/ RepliesLost \/ status[m] = "evicted",
              status' = SetStatus(m, "queued") \/ UNCHANGED status,
              route' = [route EXCEPT ![m] = "none"] \/ UNCHANGED route
       PROVE  Move
  <2>1. readReserved' = [readReserved EXCEPT ![m] = None] BY <1>1, <1>8 DEF TypeOK
  <2>2. <<readReserved[m], m>> \notin reading'
    <3>1. reading \subseteq Pane \X Msg /\ None \notin Pane BY QueueConstants DEF TypeOK
    <3>. QED BY <1>1, <1>8, <3>1
  <2>3. PutBack(m) BY <1>1, <1>6, <1>8, <1>10, <2>1, <2>2 DEF PutBack, history
  <2>. QED BY <1>8, <2>3 DEF Move, Moves
<1>11. CASE /\ holds /\ ~ok
            /\ status' = [status EXCEPT ![m] = "queued"] /\ route' = [route EXCEPT ![m] = "none"]
            /\ UNCHANGED <<queue, envelope, verdict>>
  <2>1. status' = SetStatus(m, "queued") BY <1>8, <1>11 DEF SetStatus, TypeOK
  <2>2. stage[p] \in Unread \/ RepliesLost BY <1>1, <1>11 DEF HookAnswer, Unread
  <2>. QED BY <1>6, <1>10, <1>11, <2>1, <2>2
<1>12. CASE ~holds /\ UNCHANGED <<row, queue, envelope, verdict>>
  BY <1>7, <1>10, <1>12 DEF row
<1>. QED BY <1>1, <1>9, <1>11, <1>12
LEMMA ReserveMoves ==
  ASSUME TypeOK, QInv, NEW p \in Pane, NEW m \in Msg, ReserveIncoming(p, m)
  PROVE  Move
<1>1. /\ status[m] = "queued" /\ m \in Range(queue[p])
      /\ readReserved' = [readReserved EXCEPT ![m] = p]
      /\ status' = [status EXCEPT ![m] = "delivering"]
      /\ route' = [route EXCEPT ![m] = "read"] /\ reading' = reading \cup {<<p, m>>}
      /\ UNCHANGED <<registry, queue, envelope, flight, stage, history, unconfirmed>>
  BY DEF ReserveIncoming, handover
<1>2. Queued(m) BY <1>1 DEF Queued
<1>3. readReserved[m] = None BY <1>1 DEF QInv, WaitInv, InHand
<1>4. Elsewhere(m) BY <1>1, <1>2, QueueOrderly, NotInHand
<1>5. Reserving(p, m) BY <1>1, <1>3, <1>4 DEF Reserving
<1>. QED BY <1>5 DEF Move, Moves

LEMMA ExpireReadMoves ==
  ASSUME TypeOK, QInv, NEW m \in Msg, ExpireReadReservation(m)
  PROVE  Move
<1>1. /\ readReserved[m] # None /\ (RepliesLost \/ <<readReserved[m], m>> \notin reading)
      /\ readReserved' = [readReserved EXCEPT ![m] = None]
      /\ \/ /\ status[m] = "delivering" /\ status' = [status EXCEPT ![m] = "queued"]
            /\ route' = [route EXCEPT ![m] = "none"]
         \/ UNCHANGED row
      /\ UNCHANGED <<registry, queue, envelope, flight, stage, reading, history, unconfirmed>>
  BY DEF ExpireReadReservation, Released, handover
<1>2. status[m] \in InHand /\ Elsewhere(m) BY <1>1, ReservedIs
<1>3. Unseen(m) /\ LetsGo(m) BY <1>1, <1>2 DEF Unseen, LetsGo, Elsewhere, Carried
<1>4. /\ status' = SetStatus(m, "queued") \/ UNCHANGED status
      /\ route' = [route EXCEPT ![m] = "none"] \/ UNCHANGED route
  BY <1>1 DEF SetStatus, TypeOK, row
<1>5. PutBack(m) BY <1>1, <1>2, <1>3, <1>4 DEF PutBack
<1>. QED BY <1>5 DEF Move, Moves

LEMMA SettleReadMoves ==
  ASSUME TypeOK, QInv, NEW p \in Pane, NEW m \in Msg, NEW ok \in BOOLEAN, SettleIncomingRead(p, m, ok)
  PROVE  Move
<1>. DEFINE mine == readReserved[m] = p /\ status[m] # "evicted"
            there == Queued(m) /\ ~\E s \in Pane : HeldInFlight(s, m)
<1>1. /\ <<p, m>> \in reading /\ reading' = reading \ {<<p, m>>}
      /\ shown' = IF ok THEN [shown EXCEPT ![m] = MoreOnce(@)] ELSE shown
      /\ UNCHANGED <<registry, unconfirmed, flight, stage, told>>
      /\ \/ /\ mine /\ ok /\ there
            /\ queue' = Less(m) /\ readReserved' = [readReserved EXCEPT ![m] = None]
            /\ status' = [status EXCEPT ![m] = "delivered"] /\ envelope' = envelope \ {m}
            /\ AckInbound({m}, "ok") /\ UNCHANGED route
         \/ /\ mine /\ ~(ok /\ there)
            /\ readReserved' = [readReserved EXCEPT ![m] = None]
            /\ status' = [status EXCEPT ![m] = "queued"] /\ route' = [route EXCEPT ![m] = "none"]
            /\ UNCHANGED <<queue, envelope, verdict>>
         \/ /\ ~mine
            /\ UNCHANGED <<row, queue, readReserved, envelope, verdict>>
  BY DEF SettleIncomingRead, Released, handover, Less, LessOf
<1>2. p # None BY QueueConstants
<1>3. mine => there /\ status[m] \in InHand /\ Elsewhere(m)
  <2>1. SUFFICES ASSUME mine PROVE there /\ status[m] \in InHand /\ Elsewhere(m) OBVIOUS
  <2>2. Queued(m) /\ status[m] \in InHand /\ Elsewhere(m) BY <1>2, <2>1, ReservedIs
  <2>3. ASSUME NEW s \in Pane, HeldInFlight(s, m) PROVE FALSE
    <3>1. s \in delivering /\ AtHead(s, m) BY <2>3 DEF HeldInFlight
    <3>2. stage[s] # "none" /\ s \in Open BY <3>1 DEF QInv, PaneInv, AtHead
    <3>3. FlightOf(s) BY <3>2 DEF QInv, FlightInv
    <3>4. flight[s] = m BY <3>1, <3>2, <3>3 DEF FlightOf, AtHead
    <3>. QED BY <2>2, <3>2, <3>4 DEF Elsewhere
  <2>. QED BY <2>2, <2>3
<1>. HIDE DEF there
<1>4. CASE /\ mine /\ ok
           /\ queue' = Less(m) /\ readReserved' = [readReserved EXCEPT ![m] = None]
           /\ status' = [status EXCEPT ![m] = "delivered"] /\ envelope' = envelope \ {m}
           /\ AckInbound({m}, "ok") /\ UNCHANGED route
  <2>1. Heard(m, {"ok"}) BY <1>4, AckHeard
  <2>2. ReadOut(p, m) BY <1>1, <1>4, <2>1 DEF ReadOut
  <2>. QED BY <2>2 DEF Move, Moves
<1>5. CASE /\ mine /\ ~ok
           /\ readReserved' = [readReserved EXCEPT ![m] = None]
           /\ status' = [status EXCEPT ![m] = "queued"] /\ route' = [route EXCEPT ![m] = "none"]
           /\ UNCHANGED <<queue, envelope, verdict>>
  <2>1. Unseen(m) /\ LetsGo(m) BY <1>1, <1>3, <1>5 DEF Unseen, LetsGo, Elsewhere, Carried
  <2>2. status' = SetStatus(m, "queued") BY <1>5 DEF SetStatus, TypeOK
  <2>3. PutBack(m) BY <1>1, <1>2, <1>3, <1>5, <2>1, <2>2 DEF PutBack, history
  <2>. QED BY <2>3 DEF Move, Moves
<1>6. CASE ~mine /\ UNCHANGED <<row, queue, readReserved, envelope, verdict>>
  <2>1. ReadLate(p, m) BY <1>1, <1>6 DEF ReadLate
  <2>. QED BY <2>1 DEF Move, Moves
<1>. QED BY <1>1, <1>3, <1>4, <1>5, <1>6

LEMMA LoseReadMoves == ASSUME NEW p \in Pane, NEW m \in Msg, LoseRead(p, m) PROVE Move
<1>1. ReadLate(p, m) BY DEF LoseRead, ReadLate, maps, handover
<1>. QED BY <1>1 DEF Move, Moves

LEMMA WithdrawMoves ==
  ASSUME TypeOK, QInv, NEW p \in Pane, NEW m \in Msg, NEW l, CancelQueued(m) \/ ExpireTerminal(p, m, l)
  PROVE  Move
<1>1. /\ status[m] = "queued" /\ AckInbound({m}, "failed")
      /\ UNCHANGED <<registry, route, readReserved, unconfirmed, flight, stage, reading, shown>>
  BY DEF CancelQueued, ExpireTerminal, StaleInTerminal, handover
<1>2. Queued(m) BY DEF CancelQueued, Unqueue, ExpireTerminal, StaleInTerminal, Queued
<1>3. status[m] \in Waits /\ readReserved[m] = None BY <1>1 DEF QInv, WaitInv, InHand, Waits
<1>4. Elsewhere(m) BY <1>1, <1>2, QueueOrderly, NotInHand
<1>5. Unseen(m) /\ LetsGo(m) BY <1>1, <1>4 DEF Unseen, LetsGo, Elsewhere, Carried
<1>6. CASE CancelQueued(m)
  <2>1. /\ queue' = Less(m) /\ status' = [status EXCEPT ![m] = "cancelled"] /\ envelope' = envelope \ {m}
        /\ UNCHANGED told
    BY <1>6 DEF CancelQueued, Unqueue, Less, LessOf
  <2>2. status' = SetStatus(m, "cancelled") BY <1>1, <2>1 DEF SetStatus, TypeOK
  <2>3. Heard(m, {"failed"}) BY <1>1, AckHeard
  <2>4. Withdrawn(m) BY <1>1, <1>3, <1>5, <2>1, <2>2, <2>3 DEF Withdrawn
  <2>. QED BY <2>4 DEF Move, Moves
<1>7. CASE ExpireTerminal(p, m, l)
  <2>. DEFINE Q == [queue EXCEPT ![p] = Without(@, m)]
  <2>1. Fails(<<m>>, Q, l) /\ queue' = WithNotices(<<m>>, Q, l) /\ m \in Range(queue[p])
    BY <1>7 DEF ExpireTerminal, StaleInTerminal
  <2>2. Q = Less(m)
    <3>1. Orderly(queue) /\ Apart(queue) BY QueueOrderly
    <3>2. Q = LessOf(queue, m) BY <2>1, <3>1, HereGone
    <3>. QED BY <3>2 DEF Less
  <2>. HIDE DEF Q
  <2>. QED BY <1>1, <1>3, <1>5, <2>1, <2>2, FailsMoves
<1>. QED BY <1>6, <1>7

\* While panes stay open, every step of the window is a move.
LEMMA NextMoves ==
  ASSUME TypeOK, QInv, OpenInv, ~PanesClose, [Next]_vars
  PROVE  Move
<1>1. CASE UNCHANGED vars BY <1>1, IdleMoves
<1>2. CASE PaneStep
  BY <1>2, RegistryMoves DEF PaneStep, Unregister, ReplacePane
<1>3. CASE SendStep BY <1>3, SendMoves, AcceptMoves, EvictMoves DEF SendStep
<1>4. CASE PumpStep
  <2>1. PICK p \in Pane : PumpPane(p) \/ Lands(p) \/ PushDeclined(p) \/ Finish(p) BY <1>4 DEF PumpStep
  <2>2. CASE PumpPane(p) BY <2>2, TakeMoves, DropMoves, RefuseMoves DEF PumpPane
  <2>3. CASE Lands(p) \/ PushDeclined(p) BY <2>3, LandMoves
  <2>4. CASE Finish(p) BY <2>4, RequeueMoves, DeliveredMoves, FailedMoves, NotInjectedMoves DEF Finish
  <2>. QED BY <2>1, <2>2, <2>3, <2>4
<1>5. CASE ReadStep
  BY <1>5, TakeMoves, HookMoves, ReserveMoves, LoseReadMoves, SettleReadMoves DEF ReadStep
<1>6. CASE OtherStep
  <2>1. CASE \E p \in Pane, m \in Msg, l \in Limits : ExpireTerminal(p, m, l) BY <2>1, WithdrawMoves
  <2>2. CASE \E m \in Msg : CancelQueued(m)
    <3>1. PICK m \in Msg : CancelQueued(m) BY <2>2
    <3>2. PICK p \in Pane : m \in Range(queue[p]) BY <3>1 DEF CancelQueued, Unqueue, Queued
    <3>. QED BY <3>1, WithdrawMoves
  <2>. QED BY <1>6, <2>1, <2>2, IdleMoves, ExpireReadMoves DEF OtherStep
<1>7. CASE Pause BY <1>7, IdleMoves
<1>. QED BY <1>1, <1>2, <1>3, <1>4, <1>5, <1>6, <1>7, NextIs
-----------------------------------------------------------------------------
(* What a move makes of the queues and of the rows.                        *)

LEMMA LessQueued ==
  ASSUME TypeOK, QInv, NEW m \in Msg
  PROVE  /\ Less(m) \in [Pane -> Seq(Msg)]
         /\ \A s \in Pane : Range(Less(m)[s]) = Range(queue[s]) \ {m}
<1>1. Orderly(queue) BY QueueOrderly
<1>2. Flow(queue, LessOf(queue, m), {m}, Nobody) BY <1>1, FlowWithout DEF LessOf
<1>. QED BY <1>2 DEF Flow, Less, Orderly, Nobody

LEMMA AppendQueued ==
  ASSUME NEW Q \in [Pane -> Seq(Msg)], NEW p \in Pane, NEW n \in Msg
  PROVE  /\ [Q EXCEPT ![p] = Append(@, n)] \in [Pane -> Seq(Msg)]
         /\ \A s \in Pane : Range([Q EXCEPT ![p] = Append(@, n)][s])
                              = Range(Q[s]) \cup (IF s = p THEN {n} ELSE {})
<1>. DEFINE a == Append(Q[p], n)
<1>1. Q[p] \in Seq(Msg) /\ Q[p] \o <<n>> = a BY AppendIsConcat
<1>2. <<n>> \in Seq(Msg) /\ Range(<<n>>) = {n} BY OneIs
<1>3. a \in Seq(Msg) /\ Range(a) = Range(Q[p]) \cup {n}
  <2>. HIDE DEF a
  <2>1. Q[p] \o <<n>> \in Seq(Msg) /\ Range(Q[p] \o <<n>>) = Range(Q[p]) \cup Range(<<n>>)
    <3>. DEFINE r == <<n>>
    <3>1. Q[p] \in Seq(Msg) /\ r \in Seq(Msg) BY <1>1, <1>2
    <3>. HIDE DEF r
    <3>2. Q[p] \o r \in Seq(Msg) /\ Range(Q[p] \o r) = Range(Q[p]) \cup Range(r) BY <3>1, JoinIs
    <3>. QED BY <3>2 DEF r
  <2>. QED BY <1>1, <1>2, <2>1
<1>. HIDE DEF a
<1>4. [Q EXCEPT ![p] = a] \in [Pane -> Seq(Msg)] BY <1>3
<1>5. \A s \in Pane : [Q EXCEPT ![p] = a][s] = IF s = p THEN a ELSE Q[s] OBVIOUS
<1>. QED BY <1>3, <1>4, <1>5 DEF a

\* x is as it was: its row, its text, its place.
Kept3(x) == status'[x] = status[x] /\ (x \in envelope' <=> x \in envelope) /\ (Queued(x)' <=> Queued(x))

\* What failing m leaves of m, of its notice and of the rest.
LEMMA OutcomeIs ==
  ASSUME TypeOK, QInv, NEW m \in Msg, status[m] \in Waiting \cup {"evicted"},
         Outcome(m, Less(m), queue')
  PROVE  /\ status'[m] = IF status[m] = "evicted" THEN "evicted" ELSE "failed"
         /\ ~Queued(m)'
         /\ \A x \in Msg \ {m} :
               \/ Kept3(x)
               \/ /\ x \in Notice /\ status[x] = "none" /\ Elsewhere(x)
                  /\ \/ status'[x] = "failed" /\ ~Queued(x)'
                     \/ status'[x] = "queued" /\ Queued(x)' /\ x \in envelope'
<1>1. /\ Less(m) \in [Pane -> Seq(Msg)]
      /\ \A s \in Pane : Range(Less(m)[s]) = Range(queue[s]) \ {m}
  BY LessQueued
<1>2. status \in [Msg -> Status] BY DEF TypeOK
<1>3. ASSUME queue' = Less(m) PROVE ~Queued(m)' /\ \A x \in Msg \ {m} : Queued(x)' <=> Queued(x)
  BY <1>1, <1>3 DEF Queued
<1>4. CASE NoNotice(m, Less(m), queue')
  <2>1. queue' = Less(m) /\ status' = SetStatus(m, "failed") /\ envelope' = envelope \ {m}
    BY <1>4 DEF NoNotice
  <2>2. \A x \in Msg : status'[x] = IF x = m /\ status[m] # "evicted" THEN "failed" ELSE status[x]
    BY <1>2, <2>1 DEF SetStatus
  <2>. QED BY <1>3, <2>1, <2>2 DEF Kept3
<1>5. ASSUME NEW n, LostNotice(m, n, Less(m), queue') \/ \E s \in Pane : SentNotice(m, n, s, Less(m), queue')
      PROVE  n \in Notice /\ n \in Msg /\ n # m /\ status[n] = "none" /\ Elsewhere(n) /\ ~Queued(n)
             /\ status[m] # "evicted"
  <2>1. Bounce(m, n) BY <1>5 DEF LostNotice, SentNotice
  <2>2. n \in Notice /\ n \in Msg /\ n # m /\ status[n] = "none" BY <2>1 DEF Bounce, Msg
  <2>3. status[m] # "evicted" BY <2>1 DEF Bounce, Waiting
  <2>. QED BY <2>2, <2>3, UnsentIs
<1>7. CASE \E n \in Notice : LostNotice(m, n, Less(m), queue')
  <2>1. PICK n \in Notice : LostNotice(m, n, Less(m), queue') BY <1>7
  <2>2. /\ queue' = Less(m) /\ envelope' = envelope \ {m}
        /\ status' = [status EXCEPT ![m] = "failed", ![n] = "failed"]
    BY <2>1 DEF LostNotice
  <2>3. n \in Msg /\ n # m /\ status[n] = "none" /\ Elsewhere(n) /\ status[m] # "evicted" BY <1>5, <2>1
  <2>4. \A x \in Msg : status'[x] = IF x = m \/ x = n THEN "failed" ELSE status[x] BY <1>2, <2>2
  <2>5. ~Queued(m)' /\ \A x \in Msg \ {m} : Queued(x)' <=> Queued(x) BY <1>3, <2>2
  <2>6. ASSUME NEW x \in Msg, x # m, x # n PROVE Kept3(x)
    <3>1. x \in envelope' <=> x \in envelope BY <2>2, <2>6
    <3>2. status'[x] = status[x] BY <2>4, <2>6
    <3>. QED BY <2>5, <2>6, <3>1, <3>2 DEF Kept3
  <2>7. status'[n] = "failed" /\ status'[m] = "failed" /\ ~Queued(n)' BY <1>5, <2>1, <2>3, <2>4, <2>5
  <2>. QED BY <2>3, <2>5, <2>6, <2>7
<1>8. CASE \E n \in Notice : \E s \in Pane : SentNotice(m, n, s, Less(m), queue')
  <2>1. PICK n \in Notice, s \in Pane : SentNotice(m, n, s, Less(m), queue') BY <1>8
  <2>2. /\ queue' = [Less(m) EXCEPT ![s] = Append(@, n)] /\ envelope' = (envelope \ {m}) \cup {n}
        /\ status' = [status EXCEPT ![m] = "failed", ![n] = "queued"]
    BY <2>1 DEF SentNotice
  <2>3. n \in Msg /\ n # m /\ status[n] = "none" /\ Elsewhere(n) /\ status[m] # "evicted" BY <1>5, <2>1
  <2>4. \A x \in Msg : status'[x] = IF x = n THEN "queued" ELSE IF x = m THEN "failed" ELSE status[x]
    BY <1>2, <2>2, <2>3
  <2>5. \A r \in Pane : Range(queue'[r]) = Range(Less(m)[r]) \cup (IF r = s THEN {n} ELSE {})
    BY <1>1, <2>2, <2>3, AppendQueued
  <2>6. /\ Queued(n)' /\ ~Queued(m)'
        /\ \A x \in Msg : x # m /\ x # n => (Queued(x)' <=> Queued(x))
    BY <1>1, <2>3, <2>5 DEF Queued
  <2>7. ASSUME NEW x \in Msg, x # m, x # n PROVE Kept3(x)
    <3>1. x \in envelope' <=> x \in envelope BY <2>2, <2>7
    <3>2. status'[x] = status[x] BY <2>4, <2>7
    <3>. QED BY <2>6, <2>7, <3>1, <3>2 DEF Kept3
  <2>8. status'[n] = "queued" /\ status'[m] = "failed" /\ n \in envelope' BY <2>2, <2>3, <2>4
  <2>. QED BY <2>3, <2>6, <2>7, <2>8
<1>. QED BY <1>4, <1>7, <1>8 DEF Outcome
\* Who lets go of m leaves the other hand-overs alone.
LEMMA LetsGoIs ==
  ASSUME TypeOK, QInv, NEW m \in Msg, LetsGo(m)
  PROVE  /\ Elsewhere(m)'
         /\ \A p \in Pane : /\ stage'[p] # "none" => stage'[p] = stage[p] /\ flight'[p] = flight[p] /\ flight[p] # m
                            /\ flight'[p] # m /\ (flight[p] # m => stage'[p] = stage[p])
                            /\ \A x \in Msg \ {m} : flight'[p] = x <=> flight[p] = x
<1>1. m # None BY QueueConstants
<1>2. \A p \in Pane : stage[p] = "none" => flight[p] = None BY DEF QInv, PaneInv
<1>3. CASE Elsewhere(m) /\ UNCHANGED <<flight, stage>> BY <1>1, <1>2, <1>3 DEF Elsewhere
<1>4. CASE \E p \in Pane : Carried(p, m) /\ PutsDown(p)
  <2>1. PICK p \in Pane : Carried(p, m) /\ PutsDown(p) BY <1>4
  <2>2. \A r \in Pane : flight[r] = m => r = p
    <3>1. \A r \in Pane : stage[r] # "none" => FlightOf(r) BY DEF QInv, FlightInv
    <3>. QED BY <1>1, <1>2, <2>1, <3>1 DEF FlightOf, Carried
  <2>3. \A r \in Pane : /\ flight'[r] = IF r = p THEN None ELSE flight[r]
                        /\ stage'[r] = IF r = p THEN "none" ELSE stage[r]
    BY <2>1 DEF PutsDown, TypeOK
  <2>4. \A x \in Msg : x # None BY QueueConstants
  <2>5. flight[p] = m BY <2>1 DEF Carried
  <2>. QED BY <1>1, <2>2, <2>3, <2>4, <2>5 DEF Elsewhere
<1>. QED BY <1>3, <1>4 DEF LetsGo

\* A message leaves its queue and the rest stay.
LEMMA LeavesIs ==
  ASSUME TypeOK, QInv, NEW m \in Msg, queue' = Less(m), NEW s, s \in {"delivered", "cancelled"},
         status' = SetStatus(m, s) \/ status' = [status EXCEPT ![m] = s],
         envelope' = envelope \/ envelope' = envelope \ {m}
  PROVE  ~Queued(m)' /\ status'[m] \in {s, "evicted"} /\ \A x \in Msg \ {m} : Kept3(x)
<1>0. \A r \in Pane : Range(queue'[r]) = Range(queue[r]) \ {m} BY LessQueued
<1>1. \A x : Queued(x)' <=> Queued(x) /\ x # m BY <1>0 DEF Queued
<1>2. status'[m] \in {s, "evicted"} /\ \A x \in Msg \ {m} : status'[x] = status[x]
  BY DEF SetStatus, TypeOK
<1>3. \A x \in Msg \ {m} : x \in envelope' <=> x \in envelope OBVIOUS
<1>. QED BY <1>1, <1>2, <1>3 DEF Kept3

\* The row of one message changes, and no queue.
LEMMA StaysIs ==
  ASSUME TypeOK, NEW m \in Msg, UNCHANGED queue, NEW s,
         status' = SetStatus(m, s) \/ status' = [status EXCEPT ![m] = s],
         envelope' = envelope \/ envelope' = envelope \ {m}
  PROVE  /\ status'[m] \in {s, "evicted"} /\ (status[m] # "evicted" => status'[m] = s)
         /\ (Queued(m)' <=> Queued(m)) /\ \A x \in Msg \ {m} : Kept3(x)
<1>1. \A x : Queued(x)' <=> Queued(x) BY DEF Queued
<1>2. /\ status'[m] \in {s, "evicted"} /\ (status[m] # "evicted" => status'[m] = s)
      /\ \A x \in Msg \ {m} : status'[x] = status[x]
  BY DEF SetStatus, TypeOK
<1>3. \A x \in Msg \ {m} : x \in envelope' <=> x \in envelope OBVIOUS
<1>. QED BY <1>1, <1>2, <1>3 DEF Kept3

-----------------------------------------------------------------------------
(* What waits is queued.                                                   *)

OpenRow(x) ==
    /\ Queued(x) /\ status[x] # "evicted" => x \in envelope
    /\ status[x] \in {"queued", "delivering"} => Queued(x)

LEMMA OpenRows == OpenInv <=> /\ seen \subseteq Open /\ \A x \in Msg : OpenRow(x)
                              /\ \A p \in Pane : stage[p] \in {"hook", "hooked"} => route[flight[p]] = "hook"
BY DEF OpenInv, OpenRow, WaitingIsQueued

LEMMA RowKept == ASSUME NEW x, OpenRow(x), Kept3(x) PROVE OpenRow(x)'
BY DEF OpenRow, Kept3

LEMMA AllKept == ASSUME UNCHANGED <<status, queue, envelope>> PROVE \A x : Kept3(x)
BY DEF Kept3, Queued

\* Every row, by what moved.
LEMMA RowsStayOpen ==
  ASSUME TypeOK, QInv, OpenInv, Move
  PROVE  \A x \in Msg : OpenRow(x)'
<1>0. \A x \in Msg : OpenRow(x) BY OpenRows
<1>1. ASSUME NEW m \in Msg, OpenRow(m)', \A x \in Msg \ {m} : Kept3(x) PROVE \A x \in Msg : OpenRow(x)'
  BY <1>0, <1>1, RowKept
<1>2. ASSUME UNCHANGED <<status, queue, envelope>> PROVE \A x \in Msg : OpenRow(x)'
  BY <1>0, <1>2, AllKept, RowKept
<1>3. CASE Idle BY <1>2, <1>3 DEF Idle, row
<1>4. CASE \E p \in Pane : Declined(p) \/ Landing(p) BY <1>2, <1>4 DEF Declined, Landing, row
<1>5. ASSUME NEW m \in Msg, Moves(m) PROVE \A x \in Msg : OpenRow(x)'
  <2>1. CASE Failing(m)
    <3>1. status[m] \in Waiting \cup {"evicted"} /\ Outcome(m, Less(m), queue') BY <2>1 DEF Failing
    <3>2. /\ status'[m] \in {"evicted", "failed"} /\ ~Queued(m)'
          /\ \A x \in Msg \ {m} : \/ Kept3(x)
                                  \/ status'[x] = "failed" /\ ~Queued(x)'
                                  \/ status'[x] = "queued" /\ Queued(x)' /\ x \in envelope'
      BY <3>1, OutcomeIs
    <3>3. OpenRow(m)' BY <3>2 DEF OpenRow
    <3>4. ASSUME NEW x \in Msg \ {m} PROVE OpenRow(x)'
      <4>1. CASE Kept3(x) BY <1>0, <4>1, RowKept
      <4>2. CASE ~Kept3(x) BY <3>2, <4>2 DEF OpenRow
      <4>. QED BY <4>1, <4>2
    <3>. QED BY <3>3, <3>4
  <2>2. CASE Settles(m)
    <3>1. PICK s \in {"delivered", "failed"} : status' = [status EXCEPT ![m] = s] BY <2>2 DEF Settles
    <3>2. status[m] = "none" /\ UNCHANGED <<queue, envelope>> BY <2>2 DEF Settles
    <3>3. ~Queued(m) BY <3>2, UnsentIs
    <3>4. status'[m] = s /\ (Queued(m)' <=> Queued(m)) /\ \A x \in Msg \ {m} : Kept3(x)
      BY <3>1, <3>2, StaysIs
    <3>5. OpenRow(m)' BY <3>3, <3>4 DEF OpenRow
    <3>. QED BY <1>1, <3>4, <3>5
  <2>3. CASE PutBack(m)
    <3>1. /\ status[m] \in InHand /\ UNCHANGED <<queue, envelope>>
          /\ status' = SetStatus(m, "queued") \/ UNCHANGED status
      BY <2>3 DEF PutBack
    <3>2. CASE UNCHANGED status BY <1>2, <3>1, <3>2
    <3>3. CASE status' = SetStatus(m, "queued")
      <4>1. /\ status'[m] \in {"queued", "evicted"} /\ (status[m] # "evicted" => status'[m] = "queued")
            /\ (Queued(m)' <=> Queued(m)) /\ \A x \in Msg \ {m} : Kept3(x)
        BY <3>1, <3>3, StaysIs
      <4>2. OpenRow(m)'
        <5>1. CASE status[m] = "evicted"
          <6>1. status'[m] = "evicted" BY <3>3, <5>1 DEF SetStatus, TypeOK
          <6>. QED BY <6>1 DEF OpenRow
        <5>2. CASE status[m] = "delivering" BY <1>0, <3>1, <4>1, <5>2 DEF OpenRow
        <5>. QED BY <3>1, <5>1, <5>2 DEF InHand
      <4>. QED BY <1>1, <4>1, <4>2
    <3>. QED BY <3>1, <3>2, <3>3
  <2>4. CASE Withdrawn(m) \/ \E p \in Pane : Handed(p, m) \/ ReadOut(p, m)
    <3>1. PICK s \in {"delivered", "cancelled"} :
             /\ queue' = Less(m)
             /\ status' = SetStatus(m, s) \/ status' = [status EXCEPT ![m] = s]
             /\ envelope' = envelope \/ envelope' = envelope \ {m}
      BY <2>4 DEF Withdrawn, Handed, ReadOut
    <3>2. ~Queued(m)' /\ status'[m] \in {s, "evicted"} /\ \A x \in Msg \ {m} : Kept3(x)
      BY <3>1, LeavesIs
    <3>3. OpenRow(m)' BY <3>2 DEF OpenRow
    <3>. QED BY <1>1, <3>2, <3>3
  <2>5. CASE Vanishes(m)
    <3>1. status' = [status EXCEPT ![m] = "evicted"] /\ envelope' = envelope \ {m} /\ UNCHANGED queue
      BY <2>5 DEF Vanishes
    <3>2. status'[m] = "evicted" /\ \A x \in Msg \ {m} : Kept3(x) BY <3>1, StaysIs
    <3>3. OpenRow(m)' BY <3>2 DEF OpenRow
    <3>. QED BY <1>1, <3>2, <3>3
  <2>6. CASE \E p \in Pane : TakenUp(p, m) \/ Reserving(p, m)
    <3>1. /\ status' = [status EXCEPT ![m] = "delivering"] /\ UNCHANGED <<queue, envelope>>
          /\ status[m] # "evicted"
      BY <2>6 DEF TakenUp, Reserving
    <3>2. Queued(m)
      <4>1. PICK p \in Pane : AtHead(p, m) \/ m \in Range(queue[p]) BY <2>6 DEF TakenUp, Reserving
      <4>. QED BY <4>1, QueueOrderly, HeadQueued DEF Queued
    <3>3. /\ status'[m] = "delivering" /\ (Queued(m)' <=> Queued(m)) /\ \A x \in Msg \ {m} : Kept3(x)
      BY <3>1, StaysIs
    <3>4. OpenRow(m)' BY <1>0, <3>1, <3>2, <3>3 DEF OpenRow
    <3>. QED BY <1>1, <3>3, <3>4
  <2>7. CASE \E p \in Pane : Comes(m, p)
    <3>1. PICK p \in Pane : Comes(m, p) BY <2>7
    <3>2. /\ status' = [status EXCEPT ![m] = "queued"] /\ envelope' = envelope \cup {m}
          /\ queue' = [queue EXCEPT ![p] = Append(@, m)]
      BY <3>1 DEF Comes
    <3>3. \A s \in Pane : Range(queue'[s]) = Range(queue[s]) \cup (IF s = p THEN {m} ELSE {})
      BY <3>2, AppendQueued DEF TypeOK
    <3>4. \A x : Queued(x)' <=> Queued(x) \/ x = m BY <3>3 DEF Queued
    <3>5. \A x \in Msg \ {m} : status'[x] = status[x] BY <3>2 DEF TypeOK
    <3>6. \A x \in Msg \ {m} : Kept3(x) BY <3>2, <3>4, <3>5 DEF Kept3
    <3>7. OpenRow(m)' BY <3>2, <3>4 DEF OpenRow
    <3>. QED BY <1>1, <3>6, <3>7
  <2>8. CASE \E p \in Pane : ReadLate(p, m) BY <1>2, <2>8 DEF ReadLate, row
  <2>. QED BY <1>5, <2>1, <2>2, <2>3, <2>4, <2>5, <2>6, <2>7, <2>8 DEF Moves
<1>. QED BY <1>3, <1>4, <1>5 DEF Move

\* What a Stop hook is promised stays marked so.
LEMMA HooksStayMarked ==
  ASSUME TypeOK, QInv, OpenInv, Move, NEW p \in Pane, stage'[p] \in {"hook", "hooked"}
  PROVE  route'[flight'[p]] = "hook"
<1>1. \A r \in Pane : stage[r] \in {"hook", "hooked"} => route[flight[r]] = "hook" BY DEF OpenInv
<1>2. ASSUME stage'[p] = stage[p], flight'[p] = flight[p], route'[flight[p]] = route[flight[p]]
      PROVE  route'[flight'[p]] = "hook"
  BY <1>1, <1>2
<1>3. CASE Idle BY <1>2, <1>3 DEF Idle, row
<1>4. CASE \E q \in Pane : Declined(q)
  <2>1. PICK q \in Pane : Declined(q) BY <1>4
  <2>2. /\ stage[q] \in {"push", "pushed"} /\ stage' = [stage EXCEPT ![q] = "typing"]
        /\ route' = [route EXCEPT ![flight[q]] = "none"] /\ flight' = flight
    BY <2>1 DEF Declined
  <2>3. p # q /\ stage'[p] = stage[p] BY <2>2 DEF TypeOK
  <2>4. FlightOf(p) /\ FlightOf(q) BY <2>2, <2>3 DEF QInv, FlightInv
  <2>5. flight[p] # flight[q] /\ flight[p] \in Msg BY <2>2, <2>3, <2>4 DEF FlightOf
  <2>6. route'[flight[p]] = route[flight[p]] BY <2>2, <2>5 DEF TypeOK
  <2>. QED BY <1>2, <2>2, <2>3, <2>6
<1>5. CASE \E q \in Pane : Landing(q)
  <2>1. PICK q \in Pane, s \in Got : /\ stage' = [stage EXCEPT ![q] = s] /\ (s = "hooked" => stage[q] = "hook")
                                     /\ flight' = flight /\ route' = route
    BY <1>5 DEF Landing, row
  <2>2. stage[p] \in {"hook", "hooked"} BY <2>1 DEF TypeOK, Got
  <2>. QED BY <1>1, <2>1, <2>2
<1>6. ASSUME NEW m \in Msg, LetsGo(m), \A x \in Msg \ {m} : route'[x] = route[x]
      PROVE  route'[flight'[p]] = "hook"
  <2>1. stage'[p] = stage[p] /\ flight'[p] = flight[p] /\ flight[p] # m BY <1>6, LetsGoIs
  <2>2. flight[p] \in Msg BY <2>1, CarriedIs
  <2>. QED BY <1>2, <1>6, <2>1, <2>2
<1>7. ASSUME NEW m \in Msg, UNCHANGED <<flight, stage>>, Elsewhere(m) \/ route' = route,
             \A x \in Msg \ {m} : route'[x] = route[x]
      PROVE  route'[flight'[p]] = "hook"
  <2>1. flight[p] \in Msg BY <1>7, CarriedIs
  <2>. QED BY <1>2, <1>7, <2>1 DEF Elsewhere
<1>8. ASSUME NEW m \in Msg, Moves(m) PROVE route'[flight'[p]] = "hook"
  <2>1. CASE Failing(m) \/ PutBack(m) \/ Withdrawn(m)
    BY <1>6, <2>1 DEF Failing, PutBack, Withdrawn, TypeOK
  <2>2. CASE \E q \in Pane : Handed(q, m)
    <3>1. LetsGo(m) /\ route' = route BY <2>2 DEF Handed, LetsGo
    <3>. QED BY <1>6, <3>1
  <2>3. CASE Settles(m) \/ Vanishes(m) \/ \E q \in Pane : Comes(m, q) \/ ReadOut(q, m) \/ ReadLate(q, m)
    BY <1>7, <2>3 DEF Settles, Vanishes, Comes, ReadOut, ReadLate, row
  <2>4. CASE \E q \in Pane : Reserving(q, m) BY <1>7, <2>4 DEF Reserving, TypeOK
  <2>5. CASE \E q \in Pane : TakenUp(q, m)
    <3>1. PICK q \in Pane, s \in Unread :
             /\ stage' = [stage EXCEPT ![q] = s] /\ (s = "hook" => route'[m] = "hook")
             /\ flight' = [flight EXCEPT ![q] = m] /\ Elsewhere(m)
             /\ \A x \in Msg \ {m} : route'[x] = route[x]
      BY <2>5 DEF TakenUp
    <3>2. CASE p = q
      <4>1. stage'[p] = s /\ flight'[p] = m BY <3>1, <3>2 DEF TypeOK
      <4>. QED BY <3>1, <4>1 DEF Unread
    <3>3. CASE p # q
      <4>1. stage'[p] = stage[p] /\ flight'[p] = flight[p] BY <3>1, <3>3 DEF TypeOK
      <4>2. flight[p] \in Msg /\ flight[p] # m BY <3>1, <4>1, CarriedIs DEF Elsewhere
      <4>. QED BY <1>2, <3>1, <4>1, <4>2
    <3>. QED BY <3>2, <3>3
  <2>. QED BY <1>8, <2>1, <2>2, <2>3, <2>4, <2>5 DEF Moves
<1>. QED BY <1>3, <1>4, <1>5, <1>8 DEF Move

\* The moves of a message leave the panes alone.
LEMMA MovesRegistry == ASSUME NEW m, Moves(m) PROVE UNCHANGED registry
BY DEF Moves, Settles, Failing, PutBack, Withdrawn, Vanishes, Comes, TakenUp, Handed, ReadOut, Reserving, ReadLate

LEMMA OpenKeeps ==
  ASSUME TypeOK, QInv, OpenInv, Move
  PROVE  OpenInv'
<1>1. seen' \subseteq Open'
  <2>1. CASE Idle BY <2>1 DEF Idle, OpenInv
  <2>2. CASE UNCHANGED registry BY <2>2 DEF registry, Open, OpenInv
  <2>3. CASE \E p \in Pane : Declined(p) \/ Landing(p) BY <2>2, <2>3 DEF Declined, Landing
  <2>4. CASE \E m \in Msg : Moves(m)
    <3>1. PICK m \in Msg : Moves(m) BY <2>4
    <3>2. UNCHANGED registry BY <3>1, MovesRegistry
    <3>. QED BY <2>2, <3>2
  <2>. QED BY <2>1, <2>3, <2>4 DEF Move
<1>2. \A x \in Msg : OpenRow(x)' BY RowsStayOpen
<1>3. \A p \in Pane : stage'[p] \in {"hook", "hooked"} => route'[flight'[p]] = "hook" BY HooksStayMarked
<1>4. WaitingIsQueued' BY <1>2 DEF OpenRow, WaitingIsQueued
<1>. QED BY <1>1, <1>2, <1>3, <1>4 DEF OpenInv, OpenRow
-----------------------------------------------------------------------------
(* What a move leaves of the other messages.                               *)

\* Nothing happens to x, but that it may be the notice of a failure, that a
\* delivery of it may be confirmed, and that its unconfirmed mark may then go.
Still(x) ==
    /\ \/ status'[x] = status[x]
       \/ x \in Notice /\ status[x] = "none" /\ status'[x] \in {"queued", "failed"}
    /\ shown'[x] = shown[x] /\ told'[x] = told[x] /\ readReserved'[x] = readReserved[x]
    /\ unconfirmed'[x] = unconfirmed[x] \/ shown[x] > 0
    /\ verdict'[x] \subseteq verdict[x] \cup {"ok"}
    /\ \A p \in Pane : /\ <<p, x>> \in reading' <=> <<p, x>> \in reading
                       /\ Carried(p, x)' <=> Carried(p, x)
                       /\ Carried(p, x) => stage'[p] = stage[p]

\* The parts of Still.
SameRow(x) ==
    \/ status'[x] = status[x]
    \/ x \in Notice /\ status[x] = "none" /\ status'[x] \in {"queued", "failed"}
SameHistory(x) ==
    /\ shown'[x] = shown[x] /\ told'[x] = told[x] /\ readReserved'[x] = readReserved[x]
    /\ unconfirmed'[x] = unconfirmed[x] \/ shown[x] > 0
    /\ verdict'[x] \subseteq verdict[x] \cup {"ok"}
    /\ \A p \in Pane : <<p, x>> \in reading' <=> <<p, x>> \in reading
SameHand(x) ==
    \A p \in Pane : /\ Carried(p, x)' <=> Carried(p, x)
                    /\ Carried(p, x) => stage'[p] = stage[p]

LEMMA StillIs == \A x : Still(x) <=> SameRow(x) /\ SameHistory(x) /\ SameHand(x)
BY DEF Still, SameRow, SameHistory, SameHand

LEMMA IdleStill == ASSUME Idle PROVE \A x \in Msg : Still(x)
BY DEF Idle, row, Still, Carried

\* The moves that send no notice.
Lone(m) ==
    \/ Settles(m) \/ PutBack(m) \/ Withdrawn(m) \/ Vanishes(m)
    \/ \E p \in Pane : Comes(m, p) \/ TakenUp(p, m) \/ Handed(p, m) \/ ReadOut(p, m) \/ Reserving(p, m)
                       \/ ReadLate(p, m)

LEMMA LoneOrNot == ASSUME NEW m PROVE Moves(m) <=> Failing(m) \/ Lone(m)
BY DEF Moves, Lone

LEMMA RowsAlone ==
  ASSUME TypeOK, NEW m \in Msg, Lone(m), NEW x \in Msg \ {m}
  PROVE  status'[x] = status[x]
<1>1. status' = status \/ \E s : status' = [status EXCEPT ![m] = s]
  BY DEF Lone, Settles, PutBack, Withdrawn, Vanishes, Comes, TakenUp, Handed, ReadOut, Reserving, ReadLate,
         SetStatus, row
<1>. QED BY <1>1 DEF TypeOK

LEMMA MovesSameRow ==
  ASSUME TypeOK, QInv, OpenInv, NEW m \in Msg, Moves(m), NEW x \in Msg \ {m}
  PROVE  SameRow(x)
<1>1. CASE Failing(m)
  <2>1. status[m] \in Waiting \cup {"evicted"} /\ Outcome(m, Less(m), queue') BY <1>1 DEF Failing
  <2>. QED BY <2>1, OutcomeIs DEF SameRow, Kept3
<1>2. CASE Lone(m) BY <1>2, RowsAlone DEF SameRow
<1>. QED BY <1>1, <1>2, LoneOrNot

LEMMA MovesSameHand ==
  ASSUME TypeOK, QInv, OpenInv, NEW m \in Msg, Moves(m), NEW x \in Msg \ {m}
  PROVE  SameHand(x)
<1>1. CASE LetsGo(m)
  <2>1. \A p \in Pane : /\ stage'[p] # "none" => stage'[p] = stage[p] /\ flight'[p] = flight[p] /\ flight[p] # m
                        /\ flight[p] # m => stage'[p] = stage[p]
                        /\ flight'[p] = x <=> flight[p] = x
    BY <1>1, LetsGoIs
  <2>. QED BY <2>1 DEF SameHand, Carried
<1>2. CASE UNCHANGED <<flight, stage>> BY <1>2 DEF SameHand, Carried
<1>3. CASE \E p \in Pane : TakenUp(p, m)
  <2>1. PICK p \in Pane, s \in Unread :
           stage[p] = "none" /\ stage' = [stage EXCEPT ![p] = s] /\ flight' = [flight EXCEPT ![p] = m]
    BY <1>3 DEF TakenUp
  <2>2. \A r \in Pane \ {p} : stage'[r] = stage[r] /\ flight'[r] = flight[r] BY <2>1 DEF TypeOK
  <2>3. flight'[p] = m BY <2>1 DEF TypeOK
  <2>. QED BY <2>1, <2>2, <2>3 DEF SameHand, Carried
<1>4. CASE \E p \in Pane : Handed(p, m) BY <1>1, <1>4 DEF Handed, LetsGo
<1>. QED
  BY <1>1, <1>2, <1>3, <1>4 DEF Moves, Settles, Failing, PutBack, Withdrawn, Vanishes, Comes, ReadOut, Reserving,
                                ReadLate

LEMMA FailingTold ==
  ASSUME NEW m \in Msg, Failing(m)
  PROVE  \A x \in Msg : told'[x] = IF x = m /\ Tells(m) THEN MoreOnce(told[m]) ELSE told[x]
<1>1. told' = FailedTold(<<m>>) BY DEF Failing
<1>2. Range(<<m>>) = {m} BY OneIs
<1>. QED BY <1>1, <1>2 DEF FailedTold

LEMMA MovesSameHistory ==
  ASSUME TypeOK, QInv, OpenInv, NEW m \in Msg, Moves(m), NEW x \in Msg \ {m}
  PROVE  SameHistory(x)
<1>1. shown'[x] = shown[x]
  BY DEF Moves, Settles, Failing, PutBack, Withdrawn, Vanishes, Comes, TakenUp, Handed, ReadOut, Reserving, ReadLate,
         history, TypeOK
<1>2. told'[x] = told[x]
  <2>1. CASE Failing(m) BY <2>1, FailingTold
  <2>2. CASE ~Failing(m)
    BY <2>2 DEF Moves, Settles, PutBack, Withdrawn, Vanishes, Comes, TakenUp, Handed, ReadOut, Reserving, ReadLate,
                history
  <2>. QED BY <2>1, <2>2
<1>3. readReserved'[x] = readReserved[x]
  BY DEF Moves, Settles, Failing, PutBack, Withdrawn, Vanishes, Comes, TakenUp, Handed, ReadOut, Reserving, ReadLate,
         TypeOK
<1>4. unconfirmed'[x] = unconfirmed[x]
  BY DEF Moves, Settles, Failing, PutBack, Withdrawn, Vanishes, Comes, TakenUp, Handed, ReadOut, Reserving, ReadLate
<1>5. verdict'[x] \subseteq verdict[x] \cup {"ok"}
  BY DEF Moves, Settles, Failing, PutBack, Withdrawn, Vanishes, Comes, TakenUp, Handed, ReadOut, Reserving, ReadLate,
         history, Heard
<1>6. \A p \in Pane : <<p, x>> \in reading' <=> <<p, x>> \in reading
  BY DEF Moves, Settles, Failing, PutBack, Withdrawn, Vanishes, Comes, TakenUp, Handed, ReadOut, Reserving, ReadLate
<1>. QED BY <1>1, <1>2, <1>3, <1>4, <1>5, <1>6 DEF SameHistory

LEMMA MovesStill ==
  ASSUME TypeOK, QInv, OpenInv, NEW m \in Msg, Moves(m)
  PROVE  \A x \in Msg \ {m} : Still(x)
BY MovesSameRow, MovesSameHand, MovesSameHistory, StillIs

\* A push that was declined, or a text that landed, concerns what its pane carries.
LEMMA StageStill ==
  ASSUME TypeOK, QInv, OpenInv, NEW p \in Pane, Declined(p) \/ Landing(p)
  PROVE  /\ stage[p] # "none" /\ flight[p] \in Msg
         /\ \A x \in Msg \ {flight[p]} : Still(x)
<1>1. stage[p] # "none" BY DEF Declined, Landing, Unread
<1>2. \A r \in Pane \ {p} : stage'[r] = stage[r] BY DEF Declined, Landing, TypeOK
<1>3. stage'[p] # "none" BY DEF Declined, Landing, TypeOK, Got
<1>4. flight' = flight BY DEF Declined, Landing
<1>5. ASSUME NEW x \in Msg \ {flight[p]} PROVE Still(x)
  <2>1. SameHand(x) BY <1>2, <1>4, <1>5 DEF SameHand, Carried
  <2>2. SameRow(x) BY DEF SameRow, Declined, Landing, row
  <2>3. SameHistory(x) BY <1>5 DEF SameHistory, Declined, Landing, history, TypeOK
  <2>. QED BY <2>1, <2>2, <2>3, StillIs
<1>. QED BY <1>1, <1>5, CarriedIs
-----------------------------------------------------------------------------
(* Shown once.                                                             *)

\* What waits in no hand was shown to nobody; what is in hand was shown exactly
\* when its text has landed; and what is being read was not.
ShownRow(x) ==
    /\ shown[x] <= 1
    /\ status[x] \in Waiting /\ Elsewhere(x) => shown[x] = 0
    /\ \A p \in Pane : Carried(p, x) => shown[x] = IF stage[p] \in Unread THEN 0 ELSE 1
    /\ \A p \in Pane : <<p, x>> \in reading => readReserved[x] = p /\ shown[x] = 0

LEMMA StillShown == ASSUME NEW x, Still(x), ShownRow(x) PROVE ShownRow(x)'
<1>1. /\ shown'[x] = shown[x] /\ readReserved'[x] = readReserved[x]
      /\ status'[x] \in Waiting => status[x] \in Waiting
      /\ \A p \in Pane : /\ <<p, x>> \in reading' <=> <<p, x>> \in reading
                         /\ Carried(p, x)' <=> Carried(p, x)
                         /\ Carried(p, x) => stage'[p] = stage[p]
  BY DEF Still, Waiting
<1>2. Elsewhere(x)' <=> Elsewhere(x) BY <1>1 DEF Carried, Elsewhere
<1>. QED BY <1>1, <1>2 DEF ShownRow

\* A message nobody has in hand any more, and whose row waits no longer.
LEMMA DoneShown ==
  ASSUME NEW x, Elsewhere(x)', status'[x] \notin Waiting \/ shown'[x] = 0, shown'[x] <= 1,
         \A p \in Pane : <<p, x>> \notin reading'
  PROVE  ShownRow(x)'
BY DEF ShownRow, Elsewhere, Carried

\* A message whose row changes only, to one that waits no more.
LEMMA RowShown ==
  ASSUME NEW x, ShownRow(x), status'[x] \notin Waiting \/ (Elsewhere(x) /\ status[x] \in Waiting),
         UNCHANGED <<flight, stage, readReserved, reading, shown>>
  PROVE  ShownRow(x)'
BY DEF ShownRow, Elsewhere, Carried

LEMMA UnseenShown ==
  ASSUME NEW x, ShownRow(x), Unseen(x), status[x] \in Waiting
  PROVE  shown[x] = 0
<1>1. CASE Elsewhere(x) BY <1>1 DEF ShownRow
<1>2. CASE ~Elsewhere(x)
  <2>1. PICK p \in Pane : Carried(p, x) BY <1>2 DEF Elsewhere, Carried
  <2>. QED BY <2>1 DEF ShownRow, Unseen
<1>. QED BY <1>1, <1>2

LEMMA ReadIsReserved ==
  ASSUME NEW x, ShownRow(x), readReserved[x] \notin Pane
  PROVE  \A p \in Pane : <<p, x>> \notin reading
BY DEF ShownRow

LEMMA MovedShown ==
  ASSUME TypeOK, QInv, OpenInv, ~RepliesLost, NEW m \in Msg, ShownRow(m), Moves(m)
  PROVE  ShownRow(m)'
<1>0. None \notin Pane /\ shown[m] \in 0..2 /\ status[m] \in Status BY QueueConstants DEF TypeOK
<1>1. CASE Settles(m) \/ Vanishes(m) \/ \E p \in Pane : Comes(m, p)
  <2>1. /\ status'[m] \notin Waiting \/ (Elsewhere(m) /\ status[m] \in Waiting)
        /\ UNCHANGED <<flight, stage, readReserved, reading, shown>>
    BY <1>1, UnsentIs DEF Settles, Vanishes, Comes, TypeOK, Waiting, history
  <2>. QED BY <2>1, RowShown
<1>2. CASE Failing(m) \/ Withdrawn(m) \/ \E p \in Pane : Handed(p, m)
  <2>1. /\ LetsGo(m) /\ readReserved[m] = None /\ UNCHANGED <<readReserved, reading, shown>>
    BY <1>2, CarriedIs DEF Failing, Withdrawn, Handed, LetsGo, Carried
  <2>2. status'[m] \notin Waiting
    <3>1. CASE Failing(m) BY <3>1, OutcomeIs DEF Failing, Waiting
    <3>2. CASE Withdrawn(m) BY <3>2 DEF Withdrawn, SetStatus, TypeOK, Waiting
    <3>3. CASE \E p \in Pane : Handed(p, m) BY <3>3 DEF Handed, SetStatus, TypeOK, Waiting
    <3>. QED BY <1>2, <3>1, <3>2, <3>3
  <2>3. Elsewhere(m)' BY <2>1, LetsGoIs
  <2>4. shown'[m] <= 1 BY <2>1 DEF ShownRow
  <2>5. \A p \in Pane : <<p, m>> \notin reading' BY <1>0, <2>1, ReadIsReserved
  <2>. QED BY <2>2, <2>3, <2>4, <2>5, DoneShown
<1>3. CASE PutBack(m)
  <2>1. /\ LetsGo(m) /\ status[m] \in InHand /\ (Unseen(m) \/ status[m] = "evicted")
        /\ shown' = shown /\ <<readReserved[m], m>> \notin reading' /\ reading' \subseteq reading
        /\ status' = SetStatus(m, "queued") \/ UNCHANGED status
    BY <1>3 DEF PutBack, history
  <2>2. Elsewhere(m)' BY <2>1, LetsGoIs
  <2>3. status'[m] \notin Waiting \/ shown'[m] = 0
    <3>1. CASE status[m] = "evicted" BY <2>1, <3>1 DEF SetStatus, TypeOK, Waiting
    <3>2. CASE Unseen(m) /\ status[m] # "evicted" BY <2>1, <3>2, UnseenShown DEF InHand, Waiting
    <3>. QED BY <2>1, <3>1, <3>2
  <2>4. \A p \in Pane : <<p, m>> \notin reading' BY <2>1 DEF ShownRow
  <2>5. shown'[m] <= 1 BY <2>1 DEF ShownRow
  <2>. QED BY <2>2, <2>3, <2>4, <2>5, DoneShown
<1>4. CASE \E p \in Pane : TakenUp(p, m)
  <2>1. PICK p \in Pane, s \in Unread : TakenUp(p, m) /\ stage' = [stage EXCEPT ![p] = s]
    BY <1>4 DEF TakenUp
  <2>2. /\ Elsewhere(m) /\ readReserved[m] = None /\ status[m] # "evicted" /\ AtHead(p, m)
        /\ flight' = [flight EXCEPT ![p] = m] /\ UNCHANGED <<readReserved, reading, shown>>
    BY <2>1 DEF TakenUp, history
  <2>3. status[m] \in Waiting
    <3>1. Queued(m) BY <2>2, QueueOrderly, HeadQueued
    <3>. QED BY <2>2, <3>1 DEF QInv, WaitInv, Waits, Waiting
  <2>4. shown[m] = 0 BY <2>2, <2>3 DEF ShownRow
  <2>5. \A p1 \in Pane : <<p1, m>> \notin reading' BY <1>0, <2>2, ReadIsReserved
  <2>6. stage'[p] = s /\ flight'[p] = m /\ \A r \in Pane \ {p} : stage'[r] = stage[r] /\ flight'[r] = flight[r]
    BY <2>1, <2>2 DEF TypeOK
  <2>7. \A r \in Pane : Carried(r, m)' => stage'[r] \in Unread BY <2>2, <2>6 DEF Carried, Elsewhere
  <2>8. ~Elsewhere(m)' BY <2>6 DEF Elsewhere, Unread
  <2>. QED BY <2>2, <2>4, <2>5, <2>7, <2>8 DEF ShownRow
<1>5. CASE \E p \in Pane : Reserving(p, m)
  <2>1. PICK p \in Pane : Reserving(p, m) BY <1>5
  <2>2. /\ status[m] = "queued" /\ Elsewhere(m) /\ readReserved[m] = None
        /\ readReserved'[m] = p /\ reading' = reading \cup {<<p, m>>} /\ UNCHANGED <<flight, stage, shown>>
    BY <2>1 DEF Reserving, TypeOK, history
  <2>3. shown[m] = 0 BY <2>2 DEF ShownRow, Waiting
  <2>4. \A r \in Pane : <<r, m>> \in reading' => r = p BY <1>0, <2>2, ReadIsReserved
  <2>5. Elsewhere(m)' BY <2>2 DEF Elsewhere
  <2>. QED BY <2>2, <2>3, <2>4, <2>5 DEF ShownRow, Elsewhere, Carried
<1>6. CASE \E p \in Pane : ReadOut(p, m) \/ ReadLate(p, m)
  <2>1. PICK p \in Pane : ReadOut(p, m) \/ ReadLate(p, m) BY <1>6
  <2>2. /\ <<p, m>> \in reading /\ reading' = reading \ {<<p, m>>} /\ UNCHANGED <<flight, stage>>
        /\ shown' = shown \/ shown' = [shown EXCEPT ![m] = MoreOnce(@)]
    BY <2>1 DEF ReadOut, ReadLate
  <2>3. readReserved[m] = p /\ shown[m] = 0 BY <2>2 DEF ShownRow
  <2>4. Elsewhere(m)' BY <1>0, <2>2, <2>3, ReservedIs DEF Elsewhere
  <2>5. \A r \in Pane : <<r, m>> \notin reading' BY <2>2, <2>3 DEF ShownRow
  <2>6. status'[m] \notin Waiting BY <2>1, <2>3 DEF ReadOut, ReadLate, TypeOK, Waiting, row
  <2>7. shown'[m] <= 1 BY <2>2, <2>3 DEF TypeOK, MoreOnce
  <2>. QED BY <2>4, <2>5, <2>6, <2>7, DoneShown
<1>. QED BY <1>1, <1>2, <1>3, <1>4, <1>5, <1>6 DEF Moves

LEMMA StagedShown ==
  ASSUME TypeOK, QInv, OpenInv, ~RepliesLost, NEW p \in Pane, Declined(p) \/ Landing(p),
         NEW m \in Msg, m = flight[p], ShownRow(m)
  PROVE  ShownRow(m)'
<1>1. /\ stage[p] # "none" /\ shown[m] \in 0..2 BY StageStill DEF TypeOK
<1>2. readReserved[m] = None /\ None \notin Pane BY <1>1, CarriedIs, QueueConstants
<1>3. /\ flight' = flight /\ UNCHANGED <<status, readReserved, reading>>
  BY DEF Declined, Landing, row
<1>4. \A r \in Pane : Carried(r, m) => r = p BY <1>1, HandIs
<1>5. PICK s \in Got \cup {"typing"} : /\ stage' = [stage EXCEPT ![p] = s] /\ stage[p] \in Unread
                                  /\ \/ s = "typing" /\ shown' = shown
                                     \/ s \in Got /\ shown' = [shown EXCEPT ![m] = MoreOnce(@)]
  BY DEF Declined, Landing, Unread, history
<1>6. stage'[p] = s /\ \A r \in Pane \ {p} : stage'[r] = stage[r] BY <1>5 DEF TypeOK
<1>7. shown[m] = 0 BY <1>1, <1>5 DEF ShownRow, Carried
<1>8. shown'[m] = IF s \in Unread THEN 0 ELSE 1
  <2>1. CASE s = "typing" BY <1>5, <1>7, <2>1 DEF Unread, Got
  <2>2. CASE s \in Got BY <1>5, <1>7, <2>2 DEF TypeOK, MoreOnce, Unread, Got
  <2>. QED BY <1>5, <2>1, <2>2
<1>9. \A r \in Pane : <<r, m>> \notin reading'
  <2>1. \A r \in Pane : <<r, m>> \notin reading BY <1>2, ReadIsReserved
  <2>. QED BY <1>3, <2>1
<1>10. s # "none" BY DEF Got
<1>11. ~Elsewhere(m)' BY <1>3, <1>6, <1>10 DEF Elsewhere
<1>12. \A r \in Pane : Carried(r, m)' => r = p BY <1>1, <1>3, <1>4, <1>6 DEF Carried
<1>13. shown'[m] <= 1 BY <1>8
<1>14. \A r \in Pane : Carried(r, m)' => shown'[m] = IF stage'[r] \in Unread THEN 0 ELSE 1
  BY <1>6, <1>8, <1>12
<1>. QED BY <1>9, <1>11, <1>13, <1>14 DEF ShownRow

LEMMA ShownKeeps ==
  ASSUME TypeOK, QInv, OpenInv, ~RepliesLost, Move, \A x \in Msg : ShownRow(x)
  PROVE  \A x \in Msg : ShownRow(x)'
<1>1. CASE Idle BY <1>1, IdleStill, StillShown
<1>2. CASE \E p \in Pane : Declined(p) \/ Landing(p)
  <2>1. PICK p \in Pane : Declined(p) \/ Landing(p) BY <1>2
  <2>2. flight[p] \in Msg /\ \A x \in Msg \ {flight[p]} : Still(x) BY <2>1, StageStill
  <2>3. \A x \in Msg : x = flight[p] => ShownRow(x)' BY <2>1, StagedShown
  <2>. QED BY <2>2, <2>3, StillShown
<1>3. CASE \E m \in Msg : Moves(m)
  <2>1. PICK m \in Msg : Moves(m) BY <1>3
  <2>2. \A x \in Msg \ {m} : Still(x) BY <2>1, MovesStill
  <2>3. ShownRow(m)' BY <2>1, MovedShown
  <2>. QED BY <2>2, <2>3, StillShown
<1>. QED BY <1>1, <1>2, <1>3 DEF Move
-----------------------------------------------------------------------------
(* What the rows say.                                                      *)

\* What a row says of a message that the log keeps.
TruthRow(x) ==
    /\ status[x] # "evicted"
    /\ x \in Ack => status[x] \in {"none", "delivered", "failed"}
    /\ status[x] = "delivered" => x \in Ack \/ shown[x] = 1 \/ unconfirmed[x] # None
    /\ status[x] \in {"failed", "cancelled"} => shown[x] = 0
    /\ "failed" \in verdict[x] => status[x] \in {"failed", "cancelled"}

LEMMA StillTrue ==
  ASSUME TypeOK, QInv, NEW x \in Msg, Still(x), ShownRow(x), TruthRow(x)
  PROVE  TruthRow(x)'
<1>1. /\ shown'[x] = shown[x] /\ (unconfirmed'[x] = unconfirmed[x] \/ shown[x] > 0)
      /\ verdict'[x] \subseteq verdict[x] \cup {"ok"}
  BY DEF Still
<1>2. shown[x] \in 0..2 /\ shown[x] <= 1 BY DEF TypeOK, ShownRow
<1>3. unconfirmed'[x] = unconfirmed[x] \/ shown[x] = 1 BY <1>1, <1>2
<1>4. CASE status'[x] = status[x] BY <1>1, <1>3, <1>4 DEF TruthRow
<1>5. CASE x \in Notice /\ status[x] = "none" /\ status'[x] \in {"queued", "failed"}
  <2>1. x \notin Ack BY <1>5, QueueConstants
  <2>2. shown[x] = 0 BY <1>5, UnsentIs DEF ShownRow, Waiting
  <2>3. "failed" \notin verdict[x] BY <1>5 DEF TruthRow
  <2>. QED BY <1>1, <1>5, <2>1, <2>2, <2>3 DEF TruthRow
<1>. QED BY <1>4, <1>5 DEF Still

\* An ack waits nowhere.
LEMMA NotAck ==
  ASSUME TypeOK, QInv, NEW m \in Msg, TruthRow(m), status[m] \in Waits
  PROVE  m \notin Ack
BY DEF TruthRow, Waits

LEMMA MovedTrue ==
  ASSUME TypeOK, QInv, OpenInv, ~RepliesLost, ~LogOverflows, NEW m \in Msg, ShownRow(m), TruthRow(m),
         Moves(m)
  PROVE  TruthRow(m)'
<1>0. /\ shown[m] \in 0..2 /\ status[m] \in Status /\ status[m] # "evicted"
      /\ ("failed" \in verdict[m] => status[m] \in {"failed", "cancelled"})
  BY DEF TypeOK, TruthRow
<1>1. \A s : /\ status' = [status EXCEPT ![m] = s] => status'[m] = s
             /\ status' = SetStatus(m, s) => status'[m] = s
  BY <1>0 DEF TypeOK, SetStatus
<1>2. CASE \/ Settles(m) \/ Vanishes(m)
           \/ \E p \in Pane : Comes(m, p) \/ TakenUp(p, m) \/ Reserving(p, m) \/ ReadLate(p, m)
  <2>1. CASE Settles(m)
    <3>1. shown[m] = 0 /\ "failed" \notin verdict[m] BY <2>1, <1>0, UnsentIs DEF Settles, ShownRow, Waiting
    <3>2. \/ m \in Ack /\ status'[m] = "delivered" /\ verdict' = verdict
          \/ m \notin Ack /\ status'[m] = "failed"
      BY <1>1, <2>1, QueueConstants DEF Settles
    <3>3. shown' = shown BY <2>1 DEF Settles
    <3>. QED BY <3>1, <3>2, <3>3 DEF TruthRow
  <2>2. CASE \E p \in Pane : Comes(m, p) \/ TakenUp(p, m) \/ Reserving(p, m)
    <3>1. /\ status'[m] \in {"queued", "delivering"} /\ m \notin Ack /\ UNCHANGED <<shown, verdict>>
          /\ status[m] \in {"none", "queued", "delivering"}
      <4>1. PICK p \in Pane : Comes(m, p) \/ TakenUp(p, m) \/ Reserving(p, m) BY <2>2
      <4>2. CASE Comes(m, p) BY <1>1, <4>2 DEF Comes, history
      <4>3. CASE TakenUp(p, m) \/ Reserving(p, m)
        <5>1. Queued(m)
          BY <4>3, QueueOrderly, HeadQueued DEF TakenUp, Reserving, Queued
        <5>2. status[m] \in Waits BY <5>1 DEF QInv, WaitInv
        <5>3. m \notin Ack BY <5>2, NotAck
        <5>. QED BY <1>0, <1>1, <4>3, <5>2, <5>3 DEF TakenUp, Reserving, history, Waits
      <4>. QED BY <4>1, <4>2, <4>3
    <3>2. "failed" \notin verdict'[m] BY <1>0, <3>1
    <3>. QED BY <3>1, <3>2 DEF TruthRow
  <2>3. CASE \E p \in Pane : ReadLate(p, m)
    BY <1>0, <2>3 DEF ReadLate, ShownRow
  <2>4. CASE Vanishes(m) BY <2>4 DEF Vanishes
  <2>. QED BY <1>2, <2>1, <2>2, <2>3, <2>4
<1>3. CASE Failing(m)
  <2>1. /\ status[m] \in Waiting /\ Unseen(m) /\ shown' = shown
        /\ Outcome(m, Less(m), queue')
    BY <1>0, <1>3 DEF Failing
  <2>2. shown[m] = 0 BY <2>1, UnseenShown
  <2>3. status'[m] = "failed" BY <1>0, <2>1, OutcomeIs
  <2>. QED BY <2>1, <2>2, <2>3 DEF TruthRow
<1>4. CASE Withdrawn(m)
  <2>1. status[m] \in Waits /\ Unseen(m) /\ shown' = shown /\ status'[m] = "cancelled"
    BY <1>1, <1>4 DEF Withdrawn
  <2>2. shown[m] = 0 BY <1>0, <2>1, UnseenShown DEF Waits, Waiting
  <2>3. m \notin Ack BY <2>1, NotAck
  <2>. QED BY <2>1, <2>2, <2>3 DEF TruthRow
<1>5. CASE PutBack(m)
  <2>1. /\ status[m] = "delivering" /\ UNCHANGED <<shown, verdict>>
        /\ status'[m] \in {"queued", "delivering"}
    BY <1>0, <1>1, <1>5 DEF PutBack, InHand, history
  <2>2. m \notin Ack BY <2>1, NotAck DEF Waits
  <2>. QED BY <1>0, <2>1, <2>2 DEF TruthRow
<1>6. CASE \E p \in Pane : Handed(p, m)
  <2>1. PICK p \in Pane : Handed(p, m) BY <1>6
  <2>2. /\ Carried(p, m) /\ status'[m] = "delivered" /\ shown' = shown
        /\ stage[p] \in Got \/ unconfirmed'[m] # None
        /\ Heard(m, {"ok", "unconfirmed"})
    BY <1>1, <2>1 DEF Handed
  <2>3. stage[p] \in Got => shown[m] = 1 BY <2>2 DEF ShownRow, Got, Unread
  <2>4. status[m] = "delivering" BY <1>0, <2>2, HandIs DEF Carried, InHand
  <2>5. m \notin Ack /\ "failed" \notin verdict[m] BY <1>0, <2>4, NotAck DEF Waits
  <2>6. "failed" \notin verdict'[m] BY <2>2, <2>5 DEF Heard
  <2>. QED BY <2>2, <2>3, <2>5, <2>6 DEF TruthRow
<1>7. CASE \E p \in Pane : ReadOut(p, m)
  <2>1. PICK p \in Pane : ReadOut(p, m) BY <1>7
  <2>2. /\ <<p, m>> \in reading /\ readReserved[m] = p /\ status'[m] = "delivered"
        /\ shown' = [shown EXCEPT ![m] = MoreOnce(@)] /\ Heard(m, {"ok"})
    BY <1>1, <2>1 DEF ReadOut
  <2>3. shown'[m] = 1 BY <2>2 DEF ShownRow, TypeOK, MoreOnce
  <2>4. status[m] = "delivering" BY <1>0, <2>2, ReservedIs, QueueConstants DEF InHand
  <2>5. m \notin Ack /\ "failed" \notin verdict[m] BY <1>0, <2>4, NotAck DEF Waits
  <2>6. "failed" \notin verdict'[m] BY <2>2, <2>5 DEF Heard
  <2>. QED BY <2>2, <2>3, <2>5, <2>6 DEF TruthRow
<1>. QED BY <1>2, <1>3, <1>4, <1>5, <1>6, <1>7 DEF Moves

LEMMA StagedTrue ==
  ASSUME TypeOK, QInv, OpenInv, NEW p \in Pane, Declined(p) \/ Landing(p),
         NEW m \in Msg, m = flight[p], TruthRow(m)
  PROVE  TruthRow(m)'
<1>1. /\ UNCHANGED <<status, unconfirmed, verdict>>
  BY DEF Declined, Landing, row, history
<1>2. status[m] = "delivering"
  <2>1. stage[p] # "none" BY StageStill
  <2>. QED BY <2>1, HandIs DEF TruthRow, InHand
<1>. QED BY <1>1, <1>2 DEF TruthRow

LEMMA TruthKeeps ==
  ASSUME TypeOK, QInv, OpenInv, ~RepliesLost, ~LogOverflows, Move,
         \A x \in Msg : ShownRow(x) /\ TruthRow(x)
  PROVE  \A x \in Msg : TruthRow(x)'
<1>1. CASE Idle BY <1>1, IdleStill, StillTrue
<1>2. CASE \E p \in Pane : Declined(p) \/ Landing(p)
  <2>1. PICK p \in Pane : Declined(p) \/ Landing(p) BY <1>2
  <2>2. flight[p] \in Msg /\ \A x \in Msg \ {flight[p]} : Still(x) BY <2>1, StageStill
  <2>3. \A x \in Msg : x = flight[p] => TruthRow(x)' BY <2>1, StagedTrue
  <2>. QED BY <2>2, <2>3, StillTrue
<1>3. CASE \E m \in Msg : Moves(m)
  <2>1. PICK m \in Msg : Moves(m) BY <1>3
  <2>2. \A x \in Msg \ {m} : Still(x) BY <2>1, MovesStill
  <2>3. TruthRow(m)' BY <2>1, MovedTrue
  <2>. QED BY <2>2, <2>3, StillTrue
<1>. QED BY <1>1, <1>2, <1>3 DEF Move

-----------------------------------------------------------------------------
(* Failures are told.                                                      *)

\* What the sending pane of a post of this window has heard of it.
ToldRow(x) ==
    x \in Post \ Inbound /\ Sender[x] # None =>
        /\ status[x] # "none" => holder[Sender[x]] # None
        /\ status[x] \in Waiting => told[x] = 0
        /\ status[x] = "failed" => told[x] = 1

LEMMA HolderStays ==
  ASSUME TypeOK, ~PanesRename, Move, NEW n \in Name, holder[n] # None
  PROVE  holder'[n] # None
<1>1. CASE Idle BY <1>1 DEF Idle
<1>2. CASE \E p \in Pane : Declined(p) \/ Landing(p) BY <1>2 DEF Declined, Landing, registry
<1>3. CASE \E m \in Msg : Moves(m) BY <1>3, MovesRegistry DEF registry
<1>. QED BY <1>1, <1>2, <1>3 DEF Move

LEMMA StillTold ==
  ASSUME TypeOK, ~PanesRename, Move, NEW x \in Msg, Still(x) \/ UNCHANGED <<status, told>>,
         ToldRow(x)
  PROVE  ToldRow(x)'
<1>1. SUFFICES ASSUME x \in Post \ Inbound, Sender[x] # None
               PROVE  /\ status'[x] # "none" => holder'[Sender[x]] # None
                      /\ status'[x] \in Waiting => told'[x] = 0
                      /\ status'[x] = "failed" => told'[x] = 1
  BY DEF ToldRow, Waiting
<1>2. x \notin Notice /\ Sender[x] \in Name BY <1>1, QueueConstants
<1>3. status'[x] = status[x] /\ told'[x] = told[x] BY <1>2 DEF Still
<1>. QED BY <1>1, <1>2, <1>3, HolderStays DEF ToldRow

LEMMA MovedTold ==
  ASSUME TypeOK, QInv, OpenInv, ~PanesRename, NEW m \in Msg, ToldRow(m), Moves(m)
  PROVE  ToldRow(m)'
<1>1. SUFFICES ASSUME m \in Post \ Inbound, Sender[m] # None
               PROVE  /\ status'[m] # "none" => holder'[Sender[m]] # None
                      /\ status'[m] \in Waiting => told'[m] = 0
                      /\ status'[m] = "failed" => told'[m] = 1
  BY DEF ToldRow, Waiting
<1>2. Sender[m] \in Name /\ status[m] \in Status /\ Move BY <1>1, QueueConstants DEF TypeOK, Move
<1>3. \A s : /\ status' = [status EXCEPT ![m] = s] => status'[m] = s
             /\ status' = SetStatus(m, s) => status'[m] \in {s, "evicted"}
  BY <1>2 DEF TypeOK, SetStatus
<1>4. holder[Sender[m]] # None => holder'[Sender[m]] # None BY <1>2, HolderStays
<1>5. CASE Settles(m) \/ \E p \in Pane : Comes(m, p)
  <2>1. status[m] = "none" /\ HasSender(m) /\ told' = told /\ status'[m] \in {"delivered", "queued"}
    BY <1>1, <1>3, <1>5 DEF Settles, Comes, history, TypeOK
  <2>2. holder[Sender[m]] # None /\ told[m] = 0 BY <1>1, <2>1 DEF HasSender, ToldRow, Waiting
  <2>. QED BY <1>4, <2>1, <2>2
<1>6. CASE Failing(m)
  <2>1. /\ status[m] \in Waiting \cup {"evicted"} /\ Outcome(m, Less(m), queue')
        /\ status[m] = "none" => HasSender(m)
    BY <1>6 DEF Failing
  <2>2. holder[Sender[m]] # None BY <1>1, <2>1 DEF HasSender, ToldRow
  <2>3. status'[m] = IF status[m] = "evicted" THEN "evicted" ELSE "failed" BY <2>1, OutcomeIs
  <2>4. told'[m] = IF Tells(m) THEN MoreOnce(told[m]) ELSE told[m] BY <1>6, FailingTold
  <2>5. CASE status[m] = "evicted" BY <1>4, <2>2, <2>3, <2>5 DEF Waiting
  <2>6. CASE status[m] \in Waiting
    <3>1. Tells(m) BY <1>1, <2>2, <2>6 DEF Tells, Waiting
    <3>2. told[m] = 0 BY <1>1, <2>6 DEF ToldRow
    <3>3. told'[m] = 1 BY <2>4, <3>1, <3>2 DEF MoreOnce
    <3>. QED BY <1>4, <2>2, <2>3, <2>6, <3>3 DEF Waiting
  <2>. QED BY <2>1, <2>5, <2>6
<1>7. CASE \/ PutBack(m) \/ Withdrawn(m) \/ Vanishes(m)
           \/ \E p \in Pane : TakenUp(p, m) \/ Handed(p, m) \/ ReadOut(p, m) \/ Reserving(p, m) \/ ReadLate(p, m)
  <2>1. told' = told
    BY <1>7 DEF PutBack, Withdrawn, Vanishes, TakenUp, Handed, ReadOut, Reserving, ReadLate, history
  <2>2. \/ status'[m] = status[m]
        \/ /\ status[m] # "none" /\ status'[m] # "failed"
           /\ status'[m] \in Waiting => status[m] \in Waiting
    <3>1. CASE PutBack(m) BY <1>3, <3>1 DEF PutBack, InHand, Waiting, SetStatus, TypeOK
    <3>2. CASE Withdrawn(m) \/ Vanishes(m) BY <1>3, <3>2 DEF Withdrawn, Vanishes, Waits, Waiting
    <3>3. CASE \E p \in Pane : TakenUp(p, m) \/ Reserving(p, m)
      <4>1. PICK p \in Pane : TakenUp(p, m) \/ Reserving(p, m) BY <3>3
      <4>2. Queued(m) BY <4>1, QueueOrderly, HeadQueued DEF TakenUp, Reserving, Queued
      <4>3. status[m] \in Waits BY <4>2 DEF QInv, WaitInv
      <4>4. status[m] # "evicted" /\ status' = [status EXCEPT ![m] = "delivering"]
        BY <4>1 DEF TakenUp, Reserving
      <4>5. status'[m] = "delivering" BY <1>3, <4>4
      <4>. QED BY <4>3, <4>4, <4>5 DEF Waits, Waiting
    <3>4. CASE \E p \in Pane : Handed(p, m)
      <4>1. status[m] # "none" BY <3>4, CarriedIs DEF Handed, Carried
      <4>2. status'[m] \in {"delivered", "evicted"} BY <1>3, <3>4 DEF Handed
      <4>. QED BY <4>1, <4>2 DEF Waiting
    <3>5. CASE \E p \in Pane : ReadOut(p, m)
      <4>1. status[m] # "none" BY <3>5, ReservedIs, QueueConstants DEF ReadOut
      <4>2. status'[m] = "delivered" BY <1>3, <3>5 DEF ReadOut
      <4>. QED BY <4>1, <4>2 DEF Waiting
    <3>6. CASE \E p \in Pane : ReadLate(p, m) BY <3>6 DEF ReadLate, row
    <3>. QED BY <1>7, <3>1, <3>2, <3>3, <3>4, <3>5, <3>6
  <2>. QED BY <1>1, <1>4, <2>1, <2>2 DEF ToldRow
<1>. QED BY <1>5, <1>6, <1>7 DEF Moves

LEMMA ToldKeeps ==
  ASSUME TypeOK, QInv, OpenInv, ~PanesRename, Move, \A x \in Msg : ToldRow(x)
  PROVE  \A x \in Msg : ToldRow(x)'
<1>1. CASE Idle BY <1>1, IdleStill, StillTold
<1>2. CASE \E p \in Pane : Declined(p) \/ Landing(p)
  <2>1. UNCHANGED <<status, told>> BY <1>2 DEF Declined, Landing, row, history
  <2>. QED BY <2>1, StillTold
<1>3. CASE \E m \in Msg : Moves(m)
  <2>1. PICK m \in Msg : Moves(m) BY <1>3
  <2>2. \A x \in Msg \ {m} : Still(x) BY <2>1, MovesStill
  <2>3. ToldRow(m)' BY <2>1, MovedTold
  <2>. QED BY <2>2, <2>3, StillTold
<1>. QED BY <1>1, <1>2, <1>3 DEF Move
-----------------------------------------------------------------------------
(* What TLC checks, of the steps and of the behaviours.                    *)

ShownInv == \A x \in Msg : ShownRow(x)
TruthInv == \A x \in Msg : TruthRow(x)
ToldInv == \A x \in Msg : ToldRow(x)

LEMMA StartOpen == Init => OpenInv
<1>1. SUFFICES ASSUME Init PROVE OpenInv OBVIOUS
<1>2. \A m : ~Queued(m)
  <2>1. \A p \in Pane : queue[p] = << >> BY <1>1 DEF Init
  <2>2. Range(<< >>) = {} BY DEF Range
  <2>. QED BY <2>1, <2>2 DEF Queued
<1>3. /\ seen = {} /\ \A m \in Msg : status[m] = "none"
      /\ \A p \in Pane : stage[p] = "none"
  BY <1>1 DEF Init
<1>. QED BY <1>2, <1>3 DEF OpenInv, WaitingIsQueued

LEMMA StartRows == Init => ShownInv /\ TruthInv /\ ToldInv
<1>1. SUFFICES ASSUME Init, NEW x \in Msg PROVE ShownRow(x) /\ TruthRow(x) /\ ToldRow(x)
  BY DEF ShownInv, TruthInv, ToldInv
<1>2. /\ status[x] = "none" /\ shown[x] = 0 /\ told[x] = 0 /\ verdict[x] = {} /\ reading = {}
      /\ \A p \in Pane : stage[p] = "none"
  BY <1>1 DEF Init
<1>3. ShownRow(x) BY <1>2 DEF ShownRow, Carried
<1>4. TruthRow(x) BY <1>2 DEF TruthRow
<1>5. ToldRow(x) BY <1>2 DEF ToldRow, Waiting
<1>. QED BY <1>3, <1>4, <1>5

\* While panes stay open, what one step needs of the last.
Base == TypeOK /\ QInv /\ OpenInv

LEMMA StepOpen ==
  ASSUME ~PanesClose, Base, [Next]_vars
  PROVE  Base' /\ Move
<1>1. TypeOK' /\ QInv' BY StepSound DEF Base
<1>2. Move BY NextMoves DEF Base
<1>3. OpenInv' BY <1>2, OpenKeeps DEF Base
<1>. QED BY <1>1, <1>2, <1>3 DEF Base

LEMMA StartBase == Init => Base
BY InitSound, StartOpen DEF Base

LEMMA StepShown ==
  ASSUME ~PanesClose, ~RepliesLost, Base, ShownInv, [Next]_vars
  PROVE  Base' /\ ShownInv'
BY StepOpen, ShownKeeps DEF Base, ShownInv

LEMMA StepTrue ==
  ASSUME ~PanesClose, ~RepliesLost, ~LogOverflows, Base, ShownInv, TruthInv, [Next]_vars
  PROVE  Base' /\ ShownInv' /\ TruthInv'
BY StepOpen, StepShown, TruthKeeps DEF Base, ShownInv, TruthInv

LEMMA StepTold ==
  ASSUME ~PanesClose, ~PanesRename, Base, ToldInv, [Next]_vars
  PROVE  Base' /\ ToldInv'
BY StepOpen, ToldKeeps DEF Base, ToldInv

LEMMA RowsAreTrue == ASSUME Base, ShownInv, TruthInv PROVE RowsTellTheTruth
<1>1. ASSUME NEW m \in Msg \ Ack, status[m] = "queued" PROVE shown[m] = 0
  <2>1. Elsewhere(m)
    <3>1. \A p \in Pane : stage[p] # "none" => status[flight[p]] \in InHand BY HandIs DEF Base
    <3>. QED BY <1>1, <3>1 DEF Elsewhere, InHand
  <2>. QED BY <1>1, <2>1 DEF ShownInv, ShownRow, Waiting
<1>. QED BY <1>1 DEF TruthInv, TruthRow, RowsTellTheTruth

\* "Put the message back at the head of its queue ...: the next pump sends it"
\* (pumpPane): while panes stay open, a row that says queued or delivering names
\* a message that is in a queue, whatever was evicted, read, promised to a hook
\* or lost on the way, so that pump() can find it.
THEOREM WaitingStaysQueued ==
  ASSUME ~PanesClose
  PROVE  Spec => []WaitingIsQueued
<1>1. Init => Base BY StartBase
<1>2. Base /\ [Next]_vars => Base' BY StepOpen
<1>3. Base => WaitingIsQueued BY DEF Base, OpenInv
<1>. QED BY <1>1, <1>2, <1>3, PTL DEF Spec

\* pumpPane, settleHookDrain and settleIncomingRead: while panes stay open and no
\* answer over the socket is lost, an agent gets the text of a message at most
\* once, by whichever of the channel, the terminal, the Stop hook and its own
\* reading, and also when its row is evicted from the log in between.
THEOREM ShownAtMostOnce ==
  ASSUME ~PanesClose, ~RepliesLost
  PROVE  Spec => []ShownOnce
<1>1. Init => Base /\ ShownInv BY StartBase, StartRows
<1>2. Base /\ ShownInv /\ [Next]_vars => (Base /\ ShownInv)' BY StepShown
<1>3. ShownInv => ShownOnce BY DEF ShownInv, ShownRow, ShownOnce
<1>. QED BY <1>1, <1>2, <1>3, PTL DEF Spec

\* The message log the user reads and the report the sending window gets are
\* true: `delivered' was shown or is marked unconfirmed, `queued', `failed' and
\* `cancelled' were not shown, and no window hears `failed' of a text that was.
THEOREM LogTellsTheTruth ==
  ASSUME ~PanesClose, ~RepliesLost, ~LogOverflows
  PROVE  Spec => []RowsTellTheTruth
<1>1. Init => Base /\ ShownInv /\ TruthInv BY StartBase, StartRows
<1>2. Base /\ ShownInv /\ TruthInv /\ [Next]_vars => (Base /\ ShownInv /\ TruthInv)' BY StepTrue
<1>3. Base /\ ShownInv /\ TruthInv => RowsTellTheTruth BY RowsAreTrue
<1>. QED BY <1>1, <1>2, <1>3, PTL DEF Spec

\* failMessage and notifySenderOfFailure: while panes keep their handles, a
\* message between two panes of the window that failed has been bounced to its
\* sender, exactly once.
THEOREM FailureBouncesOnce ==
  ASSUME ~PanesClose, ~PanesRename
  PROVE  Spec => []FailureIsTold
<1>1. Init => Base /\ ToldInv BY StartBase, StartRows
<1>2. Base /\ ToldInv /\ [Next]_vars => (Base /\ ToldInv)' BY StepTold
<1>3. ToldInv => FailureIsTold BY DEF ToldInv, ToldRow, FailureIsTold, Msg
<1>. QED BY <1>1, <1>2, <1>3, PTL DEF Spec
-----------------------------------------------------------------------------
(* The window implements a mailbox.                                        *)

\* What the refinement needs of the last step.
Steady == Base /\ ShownInv /\ TruthInv

\* Fate and hand of a message, by its row.
FateMap(x) ==
    /\ status[x] \in Status \ {"evicted"} /\ shown[x] \in {0, 1}
    /\ x \in Ack => status[x] \in {"none", "delivered", "failed"}
    /\ HeldIn(x) = IF readReserved[x] # None THEN "reserved" ELSE IF Elsewhere(x) THEN "free" ELSE "carried"
    /\ status[x] = "none" => FateOf(x) = "new" /\ HeldIn(x) = "free" /\ ~Queued(x)
    /\ status[x] \in {"queued", "delivering"} => FateOf(x) = IF shown[x] = 0 THEN "waiting" ELSE "got"
    /\ status[x] = "delivered" => FateOf(x) = IF shown[x] = 0 THEN "unsure" ELSE "delivered"
    /\ status[x] \in {"failed", "cancelled"} => FateOf(x) = status[x]
FateMaps == \A x \in Msg : FateMap(x)

LEMMA FatesAre == Steady => FateMaps
<1>. SUFFICES ASSUME Steady, NEW x \in Msg PROVE FateMap(x) BY DEF FateMaps
<1>1. status[x] \in Status \ {"evicted"} BY DEF Steady, Base, TypeOK, TruthInv, TruthRow
<1>2. shown[x] \in {0, 1} BY DEF Steady, Base, TypeOK, ShownInv, ShownRow
<1>3. x \in Ack => status[x] \in {"none", "delivered", "failed"} BY DEF Steady, TruthInv, TruthRow
<1>4. HeldIn(x) = IF readReserved[x] # None THEN "reserved" ELSE IF Elsewhere(x) THEN "free" ELSE "carried"
  <2>1. x # None BY QueueConstants
  <2>2. \A p \in Pane : stage[p] = "none" => flight[p] = None BY DEF Steady, Base, QInv, PaneInv
  <2>3. (\E p \in Pane : flight[p] = x) <=> ~Elsewhere(x) BY <2>1, <2>2 DEF Elsewhere
  <2>4. CASE readReserved[x] # None
    <3>1. Elsewhere(x) BY <2>4, ReservedIs DEF Steady, Base
    <3>. QED BY <2>3, <2>4, <3>1 DEF HeldIn
  <2>5. CASE readReserved[x] = None /\ ~Elsewhere(x) BY <2>3, <2>5 DEF HeldIn
  <2>6. CASE readReserved[x] = None /\ Elsewhere(x) BY <2>3, <2>6 DEF HeldIn
  <2>. QED BY <2>4, <2>5, <2>6
<1>5. status[x] = "none" => FateOf(x) = "new" /\ HeldIn(x) = "free" /\ ~Queued(x)
  <2>1. TypeOK /\ QInv BY DEF Steady, Base
  <2>2. status[x] = "none" => ~Queued(x) /\ readReserved[x] = None /\ Elsewhere(x) BY <2>1, UnsentIs
  <2>. QED BY <1>4, <2>2 DEF FateOf
<1>6. status[x] \in {"queued", "delivering"} => FateOf(x) = IF shown[x] = 0 THEN "waiting" ELSE "got"
  BY <1>2 DEF FateOf
<1>7. status[x] = "delivered" => FateOf(x) = IF shown[x] = 0 THEN "unsure" ELSE "delivered" BY <1>2 DEF FateOf
<1>8. status[x] \in {"failed", "cancelled"} => FateOf(x) = status[x] BY DEF FateOf
<1>. QED BY <1>1, <1>2, <1>3, <1>4, <1>5, <1>6, <1>7, <1>8 DEF FateMap

LEMMA FatesBecome == Steady' => FateMaps' BY FatesAre, PTL

\* Who is left alone has the same fate, in the same hands.
LEMMA StillHeld ==
  ASSUME Steady, Steady', NEW x \in Msg, Still(x)
  PROVE  HeldIn(x)' = HeldIn(x)
<1>1. readReserved'[x] = readReserved[x] BY DEF Still
<1>2. Elsewhere(x)' <=> Elsewhere(x) BY DEF Still, Carried, Elsewhere
<1>3. HeldIn(x) = IF readReserved[x] # None THEN "reserved" ELSE IF Elsewhere(x) THEN "free" ELSE "carried"
  BY FatesAre DEF FateMaps, FateMap
<1>4. HeldIn(x)' = IF readReserved'[x] # None THEN "reserved" ELSE IF Elsewhere(x)' THEN "free" ELSE "carried"
  BY FatesBecome DEF FateMaps, FateMap
<1>. QED BY <1>1, <1>2, <1>3, <1>4

LEMMA StillFate ==
  ASSUME Steady, Steady', NEW x \in Msg, Still(x), status'[x] = status[x]
  PROVE  FateOf(x)' = FateOf(x) /\ HeldIn(x)' = HeldIn(x)
<1>1. shown'[x] = shown[x] BY DEF Still
<1>2. FateOf(x)' = FateOf(x) BY <1>1 DEF FateOf
<1>. QED BY <1>2, StillHeld

\* The maps when one message moved.
LEMMA OneMoved ==
  ASSUME NEW m \in Mail, NEW f, NEW h, FateOf(m)' = f, HeldIn(m)' = h,
         \A x \in Mail \ {m} : FateOf(x)' = FateOf(x) /\ HeldIn(x)' = HeldIn(x)
  PROVE  /\ Fate' = [Fate EXCEPT ![m] = f]
         /\ Held' = [Held EXCEPT ![m] = h]
<1>1. Fate' = [x \in Mail |-> FateOf(x)'] /\ Held' = [x \in Mail |-> HeldIn(x)'] BY DEF Fate, Held
<1>2. \A x \in Mail : /\ FateOf(x)' = IF x = m THEN f ELSE FateOf(x)
                      /\ HeldIn(x)' = IF x = m THEN h ELSE HeldIn(x)
  OBVIOUS
<1>3. Fate' = [x \in Mail |-> IF x = m THEN f ELSE FateOf(x)] BY <1>1, <1>2
<1>4. Held' = [x \in Mail |-> IF x = m THEN h ELSE HeldIn(x)] BY <1>1, <1>2
<1>5. [Fate EXCEPT ![m] = f] = [x \in Mail |-> IF x = m THEN f ELSE FateOf(x)] BY DEF Fate
<1>6. [Held EXCEPT ![m] = h] = [x \in Mail |-> IF x = m THEN h ELSE HeldIn(x)] BY DEF Held
<1>. QED BY <1>3, <1>4, <1>5, <1>6

LEMMA NoneMoved ==
  ASSUME \A x \in Mail : FateOf(x)' = FateOf(x) /\ HeldIn(x)' = HeldIn(x)
  PROVE  Fate' = Fate /\ Held' = Held
BY DEF Fate, Held

\* The queues of the window are the boxes.
LEMMA BoxIs ==
  ASSUME TypeOK
  PROVE  /\ \A m : Box!Taken(m) = Less(m)
         /\ \A p \in Pane : \A m : Box!In(p, m) <=> m \in Range(queue[p])
         /\ \A p \in Pane : Box!Elements(queue[p]) = Range(queue[p])
<1>1. \A q, m : Box!RemoveFirst(q, m) = RemoveFirst(q, m)
  BY DEF Box!RemoveFirst, RemoveFirst, Box!SelectInSeq, SelectInSeq, Box!RemoveAt, RemoveAt, Box!Min, Min
<1>2. \A m : Box!Taken(m) = Less(m) BY <1>1 DEF Box!Taken, Less, LessOf, Without
<1>3. \A p \in Pane : Box!Elements(queue[p]) = Range(queue[p])
  <2>1. \A p \in Pane : DOMAIN queue[p] = 1..Len(queue[p]) BY DEF TypeOK
  <2>. QED BY <2>1 DEF Box!Elements, Range
<1>4. \A p \in Pane : \A m : Box!In(p, m) <=> m \in Range(queue[p]) BY <1>3 DEF Box!In
<1>. QED BY <1>2, <1>3, <1>4
\* One message moves, and no notice is due.
LEMMA LoneMove ==
  ASSUME Steady, Steady', NEW m \in Msg, Lone(m)
  PROVE  /\ m \in Ack => Fate' = Fate /\ Held' = Held
         /\ m \in Mail => /\ Fate' = [Fate EXCEPT ![m] = FateOf(m)']
                          /\ Held' = [Held EXCEPT ![m] = HeldIn(m)']
<1>1. TypeOK /\ QInv /\ OpenInv BY DEF Steady, Base
<1>2. ASSUME NEW x \in Msg \ {m} PROVE FateOf(x)' = FateOf(x) /\ HeldIn(x)' = HeldIn(x)
  BY <1>1, MovesStill, LoneOrNot, RowsAlone, StillFate
<1>3. m \in Ack => Fate' = Fate /\ Held' = Held BY <1>2, NoneMoved DEF Mail
<1>4. m \in Mail => /\ Fate' = [Fate EXCEPT ![m] = FateOf(m)']
                    /\ Held' = [Held EXCEPT ![m] = HeldIn(m)']
  BY <1>2, OneMoved DEF Mail
<1>. QED BY <1>3, <1>4

BoxStep == Box!Next \/ UNCHANGED Box!vars

LEMMA BoxSteps ==
  ASSUME NEW m \in Mail,
         \/ \E p \in Pane : Box!Arrive(p, m) \/ Box!Carry(p, m) \/ Box!Reserve(p, m) \/ Box!Get(p, m)
         \/ Box!PutDown(m) \/ Box!Leave(m) \/ Box!Read(m) \/ Box!Fail(m) \/ Box!Withdraw(m)
  PROVE  BoxStep
BY DEF Box!Next, BoxStep

\* A queue without a message that is not in it.
LEMMA AbsentLess ==
  ASSUME TypeOK, NEW m, ~Queued(m)
  PROVE  Less(m) = queue
<1>1. queue \in [Pane -> Seq(Msg)] BY DEF TypeOK
<1>2. \A s \in Pane : m \notin Range(queue[s]) BY DEF Queued
<1>. QED BY <1>1, <1>2, NoneGone DEF Less

LEMMA MapAt == ASSUME NEW m \in Mail PROVE Fate[m] = FateOf(m) /\ Held[m] = HeldIn(m)
BY DEF Fate, Held

\* Setting a value to what it is.
LEMMA SetSame == \A m \in Mail : Held = [Held EXCEPT ![m] = HeldIn(m)] /\ Fate = [Fate EXCEPT ![m] = FateOf(m)]
BY DEF Held, Fate

\* What is said of m before and after.
LEMMA MapsAt ==
  ASSUME Steady, Steady', NEW m \in Msg
  PROVE  FateMap(m) /\ FateMap(m)'
BY FatesAre, FatesBecome DEF FateMaps

\* Its first row, when it is not admitted, or admitted.
LEMMA SettlesIsBox ==
  ASSUME Steady, Steady', NEW m \in Msg, Settles(m)
  PROVE  BoxStep
<1>1. TypeOK BY DEF Steady, Base
<1>2. Lone(m) /\ UNCHANGED queue /\ status[m] = "none" BY DEF Lone, Settles
<1>3. CASE m \in Ack
  <2>1. Fate' = Fate /\ Held' = Held BY <1>2, <1>3, LoneMove
  <2>. QED BY <1>2, <2>1 DEF BoxStep, Box!vars
<1>4. CASE m \notin Ack
  <2>1. m \in Mail BY <1>4 DEF Mail
  <2>2. /\ status' = [status EXCEPT ![m] = "failed"] /\ UNCHANGED <<readReserved, flight>>
    BY <1>4 DEF Settles
  <2>3. FateMap(m) /\ FateMap(m)' /\ status'[m] = "failed" BY <1>1, <2>2, MapsAt DEF TypeOK
  <2>4. FateOf(m) = "new" /\ HeldIn(m) = "free" /\ ~Queued(m) /\ FateOf(m)' = "failed"
    BY <1>2, <2>3 DEF FateMap
  <2>5. HeldIn(m)' = "free" BY <2>2, <2>4 DEF HeldIn
  <2>6. Fate' = [Fate EXCEPT ![m] = "failed"] /\ Held' = [Held EXCEPT ![m] = "free"]
    BY <1>2, <2>1, <2>4, <2>5, LoneMove
  <2>7. queue' = Box!Taken(m) BY <1>1, <1>2, <2>4, AbsentLess, BoxIs
  <2>8. Fate[m] = "new" /\ Held[m] = "free" BY <2>1, <2>4, MapAt
  <2>9. Box!Fail(m) BY <2>6, <2>7, <2>8 DEF Box!Fail, Box!Letting
  <2>. QED BY <2>1, <2>9, BoxSteps
<1>. QED BY <1>3, <1>4

LEMMA ComesIsBox ==
  ASSUME Steady, Steady', NEW m \in Msg, NEW p \in Pane, Comes(m, p)
  PROVE  BoxStep
<1>1. TypeOK BY DEF Steady, Base
<1>2. /\ m \in Mail /\ Lone(m) /\ status[m] = "none" /\ Len(queue[p]) < QueueCap
      /\ queue' = [queue EXCEPT ![p] = Append(@, m)]
      /\ status' = [status EXCEPT ![m] = "queued"] /\ UNCHANGED <<readReserved, flight, shown>>
  BY DEF Lone, Comes, Mail, history
<1>3. FateMap(m) /\ FateMap(m)' /\ status'[m] = "queued" BY <1>1, <1>2, MapsAt DEF TypeOK
<1>4. FateOf(m) = "new" /\ HeldIn(m) = "free" BY <1>2, <1>3 DEF FateMap
<1>5. shown[m] = 0
  <2>1. Elsewhere(m) BY <1>1, <1>2, UnsentIs DEF Steady, Base
  <2>. QED BY <1>2, <2>1 DEF Steady, ShownInv, ShownRow, Waiting
<1>6. FateOf(m)' = "waiting" BY <1>2, <1>3, <1>5 DEF FateMap
<1>7. HeldIn(m)' = HeldIn(m) BY <1>2 DEF HeldIn
<1>8. Fate' = [Fate EXCEPT ![m] = "waiting"] /\ Held' = [Held EXCEPT ![m] = HeldIn(m)]
  BY <1>2, <1>6, <1>7, LoneMove
<1>9. Fate[m] = "new" /\ Held' = Held BY <1>2, <1>4, <1>8, MapAt, SetSame
<1>10. Box!Arrive(p, m) BY <1>2, <1>8, <1>9 DEF Box!Arrive
<1>. QED BY <1>2, <1>10, BoxSteps

\* Taken in hand to be handed over, or reserved to be read.
LEMMA TakenUpIsBox ==
  ASSUME Steady, Steady', NEW m \in Msg, NEW p \in Pane, TakenUp(p, m)
  PROVE  BoxStep
<1>1. TypeOK /\ QInv /\ OpenInv /\ TruthInv BY DEF Steady, Base
<1>2. /\ Lone(m) /\ AtHead(p, m) /\ stage[p] = "none" /\ Elsewhere(m) /\ readReserved[m] = None
      /\ status[m] # "evicted" /\ status' = [status EXCEPT ![m] = "delivering"]
      /\ flight' = [flight EXCEPT ![p] = m] /\ UNCHANGED <<queue, readReserved, shown>>
  BY DEF Lone, TakenUp, history
<1>3. Queued(m) /\ m \in Range(queue[p]) BY <1>1, <1>2, QueueOrderly, HeadQueued
<1>4. \A n \in Msg : Queued(n) => n \in Mail
  <2>1. \A n \in Msg : Queued(n) => status[n] \in Waits BY <1>1 DEF QInv, WaitInv
  <2>. QED BY <1>1, <2>1, NotAck DEF Mail, TruthInv
<1>5. m \in Mail BY <1>3, <1>4
<1>6. FateMap(m) /\ FateMap(m)' /\ status'[m] = "delivering" BY <1>1, <1>2, MapsAt DEF TypeOK
<1>7. status[m] \in {"queued", "delivering"}
  <2>1. status[m] \in Waits BY <1>1, <1>3 DEF QInv, WaitInv
  <2>. QED BY <1>2, <2>1 DEF Waits
<1>8. FateOf(m)' = FateOf(m) BY <1>2, <1>6, <1>7 DEF FateMap
<1>9. HeldIn(m) = "free" BY <1>2, <1>6 DEF FateMap
<1>10. HeldIn(m)' = "carried"
  <2>1. readReserved'[m] = None /\ flight'[p] = m BY <1>1, <1>2 DEF TypeOK
  <2>. QED BY <2>1 DEF HeldIn
<1>11. Fate' = Fate /\ Held' = [Held EXCEPT ![m] = "carried"]
  <2>1. Fate' = [Fate EXCEPT ![m] = FateOf(m)] /\ Held' = [Held EXCEPT ![m] = "carried"]
    BY <1>2, <1>5, <1>8, <1>10, LoneMove
  <2>. QED BY <1>5, <2>1, SetSame
<1>12. ASSUME NEW n \in Range(queue[p]) PROVE Held[n] # "carried"
  <2>1. n \in Msg /\ Queued(n) BY <1>1, QueueOrderly
  <2>2. n \in Mail BY <1>4, <2>1
  <2>3. Elsewhere(n)
    <3>1. \A r \in Pane : stage[r] # "none" => flight[r] \in Range(queue[r])
      BY <1>1, HandIs, QueueOrderly, HeadQueued
    <3>2. Apart(queue) BY <1>1, QueueOrderly
    <3>. QED BY <1>2, <3>1, <3>2 DEF Elsewhere, Apart
  <2>4. FateMap(n) BY <2>1, FatesAre DEF FateMaps
  <2>. QED BY <2>2, <2>3, <2>4, MapAt DEF FateMap
<1>13. queue[p] # << >> /\ m = Head(queue[p]) BY <1>2 DEF AtHead
<1>14. Held[m] = "free" BY <1>5, <1>9, MapAt
<1>15. Box!Elements(queue[p]) = Range(queue[p]) BY <1>1, BoxIs
<1>16. Box!Carry(p, m) BY <1>2, <1>11, <1>12, <1>13, <1>14, <1>15 DEF Box!Carry
<1>. QED BY <1>5, <1>16, BoxSteps

LEMMA ReservingIsBox ==
  ASSUME Steady, Steady', NEW m \in Msg, NEW p \in Pane, Reserving(p, m)
  PROVE  BoxStep
<1>1. TypeOK /\ QInv /\ OpenInv /\ TruthRow(m) BY DEF Steady, Base, TruthInv
<1>2. /\ Lone(m) /\ status[m] = "queued" /\ m \in Range(queue[p]) /\ Elsewhere(m) /\ readReserved[m] = None
      /\ status' = [status EXCEPT ![m] = "delivering"] /\ readReserved' = [readReserved EXCEPT ![m] = p]
      /\ UNCHANGED <<queue, shown>>
  BY DEF Lone, Reserving, history
<1>3. m \in Mail BY <1>1, <1>2, NotAck DEF Mail, Waits
<1>4. FateMap(m) /\ FateMap(m)' /\ status'[m] = "delivering" BY <1>1, <1>2, MapsAt DEF TypeOK
<1>5. FateOf(m)' = FateOf(m) /\ HeldIn(m) = "free" BY <1>2, <1>4 DEF FateMap
<1>6. HeldIn(m)' = "reserved"
  <2>1. readReserved'[m] # None BY <1>1, <1>2, QueueConstants DEF TypeOK
  <2>. QED BY <1>4, <2>1 DEF FateMap
<1>7. Fate' = Fate /\ Held' = [Held EXCEPT ![m] = "reserved"]
  <2>1. Fate' = [Fate EXCEPT ![m] = FateOf(m)] /\ Held' = [Held EXCEPT ![m] = "reserved"]
    BY <1>2, <1>3, <1>5, <1>6, LoneMove
  <2>. QED BY <1>3, <2>1, SetSame
<1>8. Held[m] = "free" BY <1>3, <1>5, MapAt
<1>9. Box!In(p, m) BY <1>1, <1>2, BoxIs
<1>10. Box!Reserve(p, m) BY <1>2, <1>7, <1>8, <1>9 DEF Box!Reserve
<1>. QED BY <1>3, <1>10, BoxSteps
\* Put down again, unseen.
LEMMA PutBackIsBox ==
  ASSUME Steady, Steady', ~RepliesLost, NEW m \in Msg, PutBack(m)
  PROVE  BoxStep
<1>1. TypeOK /\ QInv /\ OpenInv /\ TruthRow(m) /\ ShownRow(m) BY DEF Steady, Base, TruthInv, ShownInv
<1>2. FateMap(m) /\ FateMap(m)' BY MapsAt
<1>3. /\ Lone(m) /\ status[m] = "delivering" /\ (readReserved[m] # None \/ ~Elsewhere(m)) /\ Unseen(m) /\ LetsGo(m)
      /\ readReserved' = [readReserved EXCEPT ![m] = None]
      /\ status' = SetStatus(m, "queued") \/ UNCHANGED status
      /\ UNCHANGED <<queue, shown>>
  BY <1>2 DEF Lone, PutBack, InHand, FateMap, history
<1>4. m \in Mail BY <1>1, <1>3, NotAck DEF Mail, Waits
<1>5. status'[m] \in {"queued", "delivering"} BY <1>1, <1>3 DEF SetStatus, TypeOK
<1>6. shown[m] = 0 BY <1>1, <1>3, UnseenShown DEF Waiting
<1>7. FateOf(m) = "waiting" /\ FateOf(m)' = FateOf(m) BY <1>2, <1>3, <1>5, <1>6 DEF FateMap
<1>8. HeldIn(m) # "free" BY <1>2, <1>3 DEF FateMap
<1>9. HeldIn(m)' = "free"
  <2>1. Elsewhere(m)' BY <1>1, <1>3, LetsGoIs
  <2>2. readReserved'[m] = None BY <1>1, <1>3 DEF TypeOK
  <2>. QED BY <1>2, <2>1, <2>2 DEF FateMap
<1>10. Fate' = Fate /\ Held' = [Held EXCEPT ![m] = "free"]
  <2>1. Fate' = [Fate EXCEPT ![m] = FateOf(m)] /\ Held' = [Held EXCEPT ![m] = "free"]
    BY <1>3, <1>4, <1>7, <1>9, LoneMove
  <2>. QED BY <1>4, <2>1, SetSame
<1>11. Fate[m] = "waiting" /\ Held[m] # "free" BY <1>4, <1>7, <1>8, MapAt
<1>12. Box!PutDown(m) BY <1>3, <1>10, <1>11 DEF Box!PutDown, Box!Letting
<1>. QED BY <1>4, <1>12, BoxSteps

\* Taken back by its sender.
LEMMA WithdrawnIsBox ==
  ASSUME Steady, Steady', NEW m \in Msg, Withdrawn(m)
  PROVE  BoxStep
<1>1. TypeOK /\ QInv /\ OpenInv /\ TruthRow(m) /\ ShownRow(m) BY DEF Steady, Base, TruthInv, ShownInv
<1>2. FateMap(m) /\ FateMap(m)' BY MapsAt
<1>3. /\ Lone(m) /\ status[m] \in Waits /\ readReserved[m] = None /\ Unseen(m) /\ LetsGo(m)
      /\ status' = SetStatus(m, "cancelled") /\ queue' = Less(m) /\ UNCHANGED readReserved
  BY DEF Lone, Withdrawn
<1>4. m \in Mail /\ status[m] \in {"queued", "delivering"} BY <1>1, <1>2, <1>3, NotAck DEF Mail, Waits, FateMap
<1>5. status'[m] = "cancelled" BY <1>1, <1>4, <1>3 DEF SetStatus, TypeOK
<1>6. shown[m] = 0 BY <1>1, <1>3, <1>4, UnseenShown DEF Waiting
<1>7. FateOf(m) = "waiting" /\ FateOf(m)' = "cancelled" BY <1>2, <1>4, <1>5, <1>6 DEF FateMap
<1>8. HeldIn(m) # "reserved" BY <1>2, <1>3 DEF FateMap
<1>9. HeldIn(m)' = "free"
  <2>1. Elsewhere(m)' BY <1>1, <1>3, LetsGoIs
  <2>. QED BY <1>2, <1>3, <2>1 DEF FateMap
<1>10. Fate' = [Fate EXCEPT ![m] = "cancelled"] /\ Held' = [Held EXCEPT ![m] = "free"]
  BY <1>3, <1>4, <1>7, <1>9, LoneMove
<1>11. Fate[m] = "waiting" /\ Held[m] # "reserved" BY <1>4, <1>7, <1>8, MapAt
<1>12. queue' = Box!Taken(m) BY <1>1, <1>3, BoxIs
<1>13. Box!Withdraw(m) BY <1>10, <1>11, <1>12 DEF Box!Withdraw, Box!Letting
<1>. QED BY <1>4, <1>13, BoxSteps

\* A hand-over that ends with the text in the pane, or not known to be.
LEMMA HandedIsBox ==
  ASSUME Steady, Steady', NEW m \in Msg, NEW p \in Pane, Handed(p, m)
  PROVE  BoxStep
<1>1. TypeOK /\ QInv /\ OpenInv /\ TruthRow(m) /\ ShownRow(m) BY DEF Steady, Base, TruthInv, ShownInv
<1>2. FateMap(m) /\ FateMap(m)' BY MapsAt
<1>3. /\ Lone(m) /\ Carried(p, m) /\ LetsGo(m) /\ status' = SetStatus(m, "delivered") /\ queue' = Less(m)
      /\ UNCHANGED <<readReserved, shown>>
  BY DEF Lone, Handed, LetsGo
<1>4. status[m] = "delivering" /\ readReserved[m] = None /\ ~Elsewhere(m)
  <2>1. status[m] \in InHand /\ readReserved[m] = None /\ ~Elsewhere(m) BY <1>1, <1>3, HandIs DEF Carried
  <2>. QED BY <1>2, <2>1 DEF InHand, FateMap
<1>5. m \in Mail BY <1>1, <1>4, NotAck DEF Mail, Waits
<1>6. status'[m] = "delivered" BY <1>1, <1>4, <1>3 DEF SetStatus, TypeOK
<1>7. FateOf(m)' = IF FateOf(m) = "got" THEN "delivered" ELSE "unsure"
  BY <1>2, <1>3, <1>4, <1>6 DEF FateMap
<1>8. HeldIn(m) = "carried" BY <1>2, <1>4 DEF FateMap
<1>9. HeldIn(m)' = "free"
  <2>1. Elsewhere(m)' BY <1>1, <1>3, LetsGoIs
  <2>. QED BY <1>2, <1>3, <1>4, <2>1 DEF FateMap
<1>10. /\ Fate' = [Fate EXCEPT ![m] = IF FateOf(m) = "got" THEN "delivered" ELSE "unsure"]
       /\ Held' = [Held EXCEPT ![m] = "free"]
  BY <1>3, <1>5, <1>7, <1>9, LoneMove
<1>11. Fate[m] = FateOf(m) /\ Held[m] = "carried" BY <1>5, <1>8, MapAt
<1>12. Fate' = [Fate EXCEPT ![m] = IF @ = "got" THEN "delivered" ELSE "unsure"] BY <1>10, <1>11
<1>13. queue' = Box!Taken(m) BY <1>1, <1>3, BoxIs
<1>14. Box!Leave(m) BY <1>10, <1>11, <1>12, <1>13 DEF Box!Leave, Box!Letting
<1>. QED BY <1>5, <1>14, BoxSteps

\* Read by its recipient.
LEMMA ReadOutIsBox ==
  ASSUME Steady, Steady', NEW m \in Msg, NEW p \in Pane, ReadOut(p, m)
  PROVE  BoxStep
<1>1. TypeOK /\ QInv /\ OpenInv /\ TruthRow(m) /\ ShownRow(m) BY DEF Steady, Base, TruthInv, ShownInv
<1>2. FateMap(m) /\ FateMap(m)' BY MapsAt
<1>3. /\ Lone(m) /\ readReserved[m] = p /\ <<p, m>> \in reading /\ queue' = Less(m)
      /\ status' = [status EXCEPT ![m] = "delivered"] /\ readReserved' = [readReserved EXCEPT ![m] = None]
      /\ shown' = [shown EXCEPT ![m] = MoreOnce(@)] /\ UNCHANGED <<flight, stage>>
  BY DEF Lone, ReadOut
<1>4. p # None BY QueueConstants
<1>5. status[m] = "delivering" /\ Elsewhere(m)
  <2>1. status[m] \in InHand /\ Elsewhere(m) BY <1>1, <1>3, <1>4, ReservedIs
  <2>. QED BY <1>2, <2>1 DEF InHand, FateMap
<1>6. m \in Mail BY <1>1, <1>5, NotAck DEF Mail, Waits
<1>7. shown[m] = 0 /\ shown'[m] = 1 /\ status'[m] = "delivered" /\ readReserved'[m] = None
  BY <1>1, <1>3 DEF ShownRow, TypeOK, MoreOnce
<1>8. FateOf(m) = "waiting" /\ FateOf(m)' = "delivered" BY <1>2, <1>5, <1>7 DEF FateMap
<1>9. HeldIn(m) = "reserved" BY <1>2, <1>3, <1>4 DEF FateMap
<1>10. HeldIn(m)' = "free"
  <2>1. Elsewhere(m)' BY <1>3, <1>5 DEF Elsewhere
  <2>. QED BY <1>2, <1>7, <2>1 DEF FateMap
<1>11. Fate' = [Fate EXCEPT ![m] = "delivered"] /\ Held' = [Held EXCEPT ![m] = "free"]
  BY <1>3, <1>6, <1>8, <1>10, LoneMove
<1>12. Fate[m] = "waiting" /\ Held[m] = "reserved" BY <1>6, <1>8, <1>9, MapAt
<1>13. queue' = Box!Taken(m) BY <1>1, <1>3, BoxIs
<1>14. Box!Read(m) BY <1>11, <1>12, <1>13 DEF Box!Read, Box!Letting
<1>. QED BY <1>6, <1>14, BoxSteps

\* No row is evicted, and no read outlives its reservation.
LEMMA NotInBox ==
  ASSUME Steady, ~RepliesLost, ~LogOverflows, NEW m \in Msg, NEW p \in Pane
  PROVE  ~Vanishes(m) /\ ~ReadLate(p, m)
<1>1. TruthRow(m) /\ ShownRow(m) BY DEF Steady, TruthInv, ShownInv
<1>. QED BY <1>1 DEF Vanishes, ReadLate, TruthRow, ShownRow

\* The text lands.
LEMMA LandingIsBox ==
  ASSUME Steady, Steady', NEW p \in Pane, Landing(p)
  PROVE  BoxStep
<1>1. TypeOK /\ QInv /\ OpenInv BY DEF Steady, Base
<1>2. PICK m \in Msg : m = flight[p] /\ stage[p] # "none" BY <1>1, StageStill
<1>3. FateMap(m) /\ FateMap(m)' /\ ShownRow(m) BY MapsAt DEF Steady, ShownInv
<1>4. \A x \in Msg \ {m} : Still(x) BY <1>1, <1>2, StageStill
<1>5. /\ stage[p] \in Unread /\ shown' = [shown EXCEPT ![m] = MoreOnce(@)]
      /\ UNCHANGED <<status, queue, readReserved, flight>>
  BY <1>2 DEF Landing, row
<1>6. shown[m] = 0 /\ shown'[m] = 1
  <2>1. shown[m] = 0 BY <1>2, <1>3, <1>5 DEF ShownRow, Carried
  <2>. QED BY <1>1, <1>5, <2>1 DEF TypeOK, MoreOnce
<1>7. /\ status[m] = "delivering" /\ readReserved[m] = None /\ ~Elsewhere(m) /\ AtHead(p, m)
  <2>1. status[m] \in InHand /\ readReserved[m] = None /\ ~Elsewhere(m) /\ AtHead(p, m) BY <1>1, <1>2, HandIs
  <2>. QED BY <1>3, <2>1 DEF InHand, FateMap
<1>8. m \in Mail BY <1>3, <1>7 DEF Mail, FateMap
<1>9. FateOf(m) = "waiting" /\ FateOf(m)' = "got" /\ HeldIn(m) = "carried" BY <1>3, <1>5, <1>6, <1>7 DEF FateMap
<1>10. HeldIn(m)' = HeldIn(m) BY <1>5 DEF HeldIn
<1>11. Fate' = [Fate EXCEPT ![m] = "got"] /\ Held' = Held
  <2>1. \A x \in Mail \ {m} : FateOf(x)' = FateOf(x) /\ HeldIn(x)' = HeldIn(x)
    BY <1>4, <1>5, StillFate DEF Mail
  <2>2. Fate' = [Fate EXCEPT ![m] = "got"] /\ Held' = [Held EXCEPT ![m] = HeldIn(m)]
    BY <1>8, <1>9, <1>10, <2>1, OneMoved
  <2>. QED BY <1>8, <2>2, SetSame
<1>12. Fate[m] = "waiting" /\ Held[m] = "carried" BY <1>8, <1>9, MapAt
<1>13. Box!In(p, m) BY <1>1, <1>7, QueueOrderly, HeadQueued, BoxIs
<1>14. Box!Get(p, m) BY <1>5, <1>11, <1>12, <1>13 DEF Box!Get
<1>. QED BY <1>8, <1>14, BoxSteps

\* What the mailbox does not see.
LEMMA QuietIsBox ==
  ASSUME Idle \/ \E p \in Pane : Declined(p)
  PROVE  BoxStep
<1>1. UNCHANGED <<status, shown, readReserved, flight, queue>> BY DEF Idle, Declined, row, history
<1>2. Fate' = Fate /\ Held' = Held BY <1>1 DEF Fate, Held, FateOf, HeldIn
<1>. QED BY <1>1, <1>2 DEF BoxStep, Box!vars
\* The maps when a message and its notice moved.
LEMMA TwoMoved ==
  ASSUME NEW m \in Mail, NEW n \in Mail, m # n, NEW f, NEW g, NEW h, FateOf(m)' = f, FateOf(n)' = g, HeldIn(m)' = h,
         \A x \in Mail \ {m, n} : FateOf(x)' = FateOf(x),
         \A x \in Mail \ {m} : HeldIn(x)' = HeldIn(x)
  PROVE  /\ Fate' = [Fate EXCEPT ![m] = f, ![n] = g]
         /\ Held' = [Held EXCEPT ![m] = h]
<1>1. Fate' = [x \in Mail |-> FateOf(x)'] /\ Held' = [x \in Mail |-> HeldIn(x)'] BY DEF Fate, Held
<1>2. \A x \in Mail : /\ FateOf(x)' = IF x = n THEN g ELSE IF x = m THEN f ELSE FateOf(x)
                      /\ HeldIn(x)' = IF x = m THEN h ELSE HeldIn(x)
  OBVIOUS
<1>3. Fate' = [x \in Mail |-> IF x = n THEN g ELSE IF x = m THEN f ELSE FateOf(x)] BY <1>1, <1>2
<1>4. Held' = [x \in Mail |-> IF x = m THEN h ELSE HeldIn(x)] BY <1>1, <1>2
<1>5. [Fate EXCEPT ![m] = f, ![n] = g] = [x \in Mail |-> IF x = n THEN g ELSE IF x = m THEN f ELSE FateOf(x)]
  BY DEF Fate
<1>6. [Held EXCEPT ![m] = h] = [x \in Mail |-> IF x = m THEN h ELSE HeldIn(x)] BY DEF Held
<1>. QED BY <1>3, <1>4, <1>5, <1>6

\* What a failure makes of the fates.
FailedFates(m) ==
    /\ \A x \in Msg \ {m} : /\ HeldIn(x)' = HeldIn(x)
                            /\ status'[x] = status[x] => FateOf(x)' = FateOf(x)
    /\ m \in Ack => Less(m) = queue
    /\ m \in Mail => /\ FateOf(m) \in {"new", "waiting"} /\ HeldIn(m) # "reserved"
                     /\ FateOf(m)' = "failed" /\ HeldIn(m)' = "free"

LEMMA FailingFates ==
  ASSUME Steady, Steady', NEW m \in Msg, Failing(m)
  PROVE  FailedFates(m)
<1>1. TypeOK /\ QInv /\ OpenInv /\ TruthRow(m) /\ ShownRow(m) BY DEF Steady, Base, TruthInv, ShownInv
<1>2. FateMap(m) /\ FateMap(m)' BY MapsAt
<1>3. /\ Moves(m) /\ status[m] \in Waiting /\ readReserved[m] = None /\ Unseen(m) /\ LetsGo(m)
      /\ Outcome(m, Less(m), queue') /\ UNCHANGED <<readReserved, shown>>
  BY <1>2 DEF Moves, Failing, FateMap
<1>4. \A x \in Msg \ {m} : Still(x) BY <1>1, <1>3, MovesStill
<1>5. \A x \in Msg \ {m} : /\ HeldIn(x)' = HeldIn(x)
                           /\ status'[x] = status[x] => FateOf(x)' = FateOf(x)
  BY <1>4, StillHeld, StillFate
<1>6. m \in Ack => Less(m) = queue
  <2>1. m \in Ack => status[m] \notin Waits BY <1>1, NotAck
  <2>2. m \in Ack => ~Queued(m) BY <1>1, <2>1 DEF QInv, WaitInv
  <2>. QED BY <1>1, <2>2, AbsentLess
<1>7. FateOf(m) \in {"new", "waiting"} /\ HeldIn(m) # "reserved"
  <2>1. shown[m] = 0 BY <1>1, <1>3, UnseenShown
  <2>. QED BY <1>2, <1>3, <2>1 DEF FateMap, Waiting
<1>8. FateOf(m)' = "failed" /\ HeldIn(m)' = "free"
  <2>1. status'[m] = "failed" BY <1>1, <1>3, OutcomeIs DEF Waiting
  <2>2. Elsewhere(m)' BY <1>1, <1>3, LetsGoIs
  <2>. QED BY <1>2, <1>3, <2>1, <2>2 DEF FateMap
<1>. QED BY <1>5, <1>6, <1>7, <1>8 DEF FailedFates

\* A failure without a notice.
LEMMA NoNoticeIsBox ==
  ASSUME Steady, Steady', NEW m \in Msg, FailedFates(m), NoNotice(m, Less(m), queue')
  PROVE  BoxStep
<1>1. TypeOK BY DEF Steady, Base
<1>2. queue' = Less(m) /\ \A x \in Msg \ {m} : status'[x] = status[x]
  BY <1>1 DEF NoNotice, SetStatus, TypeOK
<1>3. \A x \in Msg \ {m} : FateOf(x)' = FateOf(x) /\ HeldIn(x)' = HeldIn(x) BY <1>2 DEF FailedFates
<1>4. CASE m \in Ack
  <2>1. Fate' = Fate /\ Held' = Held BY <1>3, <1>4, NoneMoved DEF Mail
  <2>2. queue' = queue BY <1>2, <1>4 DEF FailedFates
  <2>. QED BY <2>1, <2>2 DEF BoxStep, Box!vars
<1>5. CASE m \notin Ack
  <2>1. m \in Mail BY <1>5 DEF Mail
  <2>2. FateOf(m)' = "failed" /\ HeldIn(m)' = "free" BY <2>1 DEF FailedFates
  <2>3. Fate' = [Fate EXCEPT ![m] = "failed"] /\ Held' = [Held EXCEPT ![m] = "free"]
    BY <1>3, <2>1, <2>2, OneMoved DEF Mail
  <2>4. Fate[m] \in {"new", "waiting"} /\ Held[m] # "reserved" BY <2>1, MapAt DEF FailedFates
  <2>5. queue' = Box!Taken(m) BY <1>1, <1>2, BoxIs
  <2>6. Box!Fail(m) BY <2>3, <2>4, <2>5 DEF Box!Fail, Box!Letting
  <2>. QED BY <2>1, <2>6, BoxSteps
<1>. QED BY <1>4, <1>5

\* A failure with a notice that fails in turn, or waits.
NoticeFates(m, n, f) ==
    /\ n \in Mail /\ m # n /\ n \in {NoticeOf[k] : k \in DOMAIN NoticeOf \cap {m}}
    /\ FateOf(n) = "new" /\ HeldIn(n) = "free" /\ FateOf(n)' = f /\ Less(n) = queue
    /\ \A x \in Mail \ {m, n} : FateOf(x)' = FateOf(x)
    /\ \A x \in Mail \ {m} : HeldIn(x)' = HeldIn(x)

LEMMA NoticeIs ==
  ASSUME Steady, Steady', NEW m \in Msg, FailedFates(m), NEW n \in Notice, Bounce(m, n), UNCHANGED shown,
         NEW w \in {"queued", "failed"}, status' = [status EXCEPT ![m] = "failed", ![n] = w]
  PROVE  NoticeFates(m, n, IF w = "queued" THEN "waiting" ELSE "failed")
<1>1. TypeOK /\ QInv BY DEF Steady, Base
<1>2. n \in Msg /\ n \in Mail /\ m # n /\ status[n] = "none"
  BY QueueConstants DEF Bounce, Msg, Mail
<1>3. n \in {NoticeOf[k] : k \in DOMAIN NoticeOf \cap {m}} BY QueueConstants DEF Bounce
<1>4. FateMap(n) /\ FateMap(n)' BY <1>2, MapsAt
<1>5. FateOf(n) = "new" /\ HeldIn(n) = "free" /\ ~Queued(n) BY <1>2, <1>4 DEF FateMap
<1>6. shown[n] = 0
  <2>1. Elsewhere(n) BY <1>1, <1>2, UnsentIs
  <2>. QED BY <1>2, <2>1 DEF Steady, ShownInv, ShownRow, Waiting
<1>7. status'[n] = w /\ \A x \in Msg \ {m, n} : status'[x] = status[x] BY <1>1, <1>2 DEF TypeOK
<1>8. FateOf(n)' = IF w = "queued" THEN "waiting" ELSE "failed" BY <1>4, <1>6, <1>7 DEF FateMap
<1>9. Less(n) = queue BY <1>1, <1>5, AbsentLess
<1>10. \A x \in Mail \ {m, n} : FateOf(x)' = FateOf(x) BY <1>7 DEF FailedFates, Mail
<1>11. \A x \in Mail \ {m} : HeldIn(x)' = HeldIn(x) BY DEF FailedFates, Mail
<1>. QED BY <1>2, <1>3, <1>5, <1>8, <1>9, <1>10, <1>11 DEF NoticeFates

LEMMA LostNoticeIsBox ==
  ASSUME Steady, NEW m \in Msg, FailedFates(m), NEW n, NoticeFates(m, n, "failed"), queue' = Less(m)
  PROVE  BoxStep
<1>1. TypeOK BY DEF Steady, Base
<1>2. n \in Mail /\ Fate[n] = "new" /\ Held[n] = "free" BY MapAt DEF NoticeFates
<1>3. CASE m \in Ack
  <2>1. HeldIn(n)' = "free" BY DEF NoticeFates
  <2>2. \A x \in Mail \ {n} : FateOf(x)' = FateOf(x) /\ HeldIn(x)' = HeldIn(x) BY <1>3 DEF NoticeFates, Mail
  <2>3. FateOf(n)' = "failed" BY DEF NoticeFates
  <2>4. Fate' = [Fate EXCEPT ![n] = "failed"] /\ Held' = [Held EXCEPT ![n] = "free"]
    BY <1>2, <2>1, <2>2, <2>3, OneMoved
  <2>5. queue' = Box!Taken(n) BY <1>1, <1>3, BoxIs DEF FailedFates, NoticeFates
  <2>6. Box!Fail(n) BY <1>2, <2>4, <2>5 DEF Box!Fail, Box!Letting
  <2>. QED BY <1>2, <2>6, BoxSteps
<1>4. CASE m \notin Ack
  <2>1. m \in Mail /\ FateOf(m)' = "failed" /\ HeldIn(m)' = "free" BY <1>4 DEF Mail, FailedFates
  <2>2. Fate' = [Fate EXCEPT ![m] = "failed", ![n] = "failed"] /\ Held' = [Held EXCEPT ![m] = "free"]
    BY <1>2, <2>1, TwoMoved DEF NoticeFates
  <2>3. Fate[m] \in {"new", "waiting"} /\ Held[m] # "reserved" BY <2>1, MapAt DEF FailedFates
  <2>4. queue' = Box!Taken(m) BY <1>1, BoxIs
  <2>5. n \in {NoticeOf[k] : k \in DOMAIN NoticeOf \cap {m}} BY DEF NoticeFates
  <2>6. Box!Fail(m) BY <1>2, <2>2, <2>3, <2>4, <2>5 DEF Box!Fail, Box!Letting
  <2>. QED BY <2>1, <2>6, BoxSteps
<1>. QED BY <1>3, <1>4

LEMMA SentNoticeIsBox ==
  ASSUME Steady, Steady', NEW m \in Msg, FailedFates(m), NEW n, NoticeFates(m, n, "waiting"),
         NEW s \in Pane, Len(Less(m)[s]) < QueueCap, queue' = [Less(m) EXCEPT ![s] = Append(@, n)]
  PROVE  BoxStep
<1>1. TypeOK /\ TypeOK' BY DEF Steady, Base
<1>2. n \in Mail /\ Fate[n] = "new" /\ Held[n] = "free" BY MapAt DEF NoticeFates
<1>3. CASE m \in Ack
  <2>1. Less(m) = queue BY <1>3 DEF FailedFates
  <2>2. \A x \in Mail \ {n} : FateOf(x)' = FateOf(x) /\ HeldIn(x)' = HeldIn(x) BY <1>3 DEF NoticeFates, Mail
  <2>3. FateOf(n)' = "waiting" /\ HeldIn(n)' = HeldIn(n) BY <1>3, <1>2 DEF NoticeFates, Mail
  <2>4. Fate' = [Fate EXCEPT ![n] = "waiting"] /\ Held' = [Held EXCEPT ![n] = HeldIn(n)]
    BY <1>2, <2>2, <2>3, OneMoved
  <2>5. Held' = Held BY <1>2, <2>4, SetSame
  <2>6. Len(queue[s]) < QueueCap /\ queue' = [queue EXCEPT ![s] = Append(@, n)] BY <2>1
  <2>7. Box!Arrive(s, n) BY <1>2, <2>4, <2>5, <2>6 DEF Box!Arrive
  <2>. QED BY <1>2, <2>7, BoxSteps
<1>4. CASE m \notin Ack
  <2>1. m \in Mail /\ FateOf(m)' = "failed" /\ HeldIn(m)' = "free" BY <1>4 DEF Mail, FailedFates
  <2>2. Fate' = [Fate EXCEPT ![m] = "failed", ![n] = "waiting"] /\ Held' = [Held EXCEPT ![m] = "free"]
    BY <1>2, <2>1, TwoMoved DEF NoticeFates
  <2>3. Fate[m] \in {"new", "waiting"} /\ Held[m] # "reserved" BY <2>1, MapAt DEF FailedFates
  <2>4. queue' = [Box!Taken(m) EXCEPT ![s] = Append(@, n)]
    <3>1. Box!Taken(m) = Less(m) BY <1>1, BoxIs
    <3>. QED BY <3>1
  <2>5. n \in {NoticeOf[k] : k \in DOMAIN NoticeOf \cap {m}} BY DEF NoticeFates
  <2>6. Len(queue'[s]) <= QueueCap BY <1>1 DEF TypeOK
  <2>7. Box!Fail(m) BY <1>2, <2>2, <2>3, <2>4, <2>5, <2>6 DEF Box!Fail, Box!Letting
  <2>. QED BY <2>1, <2>7, BoxSteps
<1>. QED BY <1>3, <1>4

LEMMA FailingIsBox ==
  ASSUME Steady, Steady', NEW m \in Msg, Failing(m)
  PROVE  BoxStep
<1>1. FailedFates(m) /\ UNCHANGED shown /\ Outcome(m, Less(m), queue') BY FailingFates DEF Failing
<1>2. CASE NoNotice(m, Less(m), queue') BY <1>1, <1>2, NoNoticeIsBox
<1>3. CASE \E n \in Notice : LostNotice(m, n, Less(m), queue')
  <2>1. PICK n \in Notice : LostNotice(m, n, Less(m), queue') BY <1>3
  <2>2. /\ Bounce(m, n) /\ queue' = Less(m)
        /\ status' = [status EXCEPT ![m] = "failed", ![n] = "failed"]
    BY <2>1 DEF LostNotice
  <2>3. NoticeFates(m, n, IF "failed" = "queued" THEN "waiting" ELSE "failed") BY <1>1, <2>2, NoticeIs
  <2>4. NoticeFates(m, n, "failed") BY <2>3
  <2>. QED BY <1>1, <2>2, <2>4, LostNoticeIsBox
<1>4. CASE \E n \in Notice : \E s \in Pane : SentNotice(m, n, s, Less(m), queue')
  <2>1. PICK n \in Notice, s \in Pane : SentNotice(m, n, s, Less(m), queue') BY <1>4
  <2>2. /\ Bounce(m, n) /\ Len(Less(m)[s]) < QueueCap /\ queue' = [Less(m) EXCEPT ![s] = Append(@, n)]
        /\ status' = [status EXCEPT ![m] = "failed", ![n] = "queued"]
    BY <2>1 DEF SentNotice
  <2>3. NoticeFates(m, n, IF "queued" = "queued" THEN "waiting" ELSE "failed") BY <1>1, <2>2, NoticeIs
  <2>4. NoticeFates(m, n, "waiting") BY <2>3
  <2>. QED BY <1>1, <2>2, <2>4, SentNoticeIsBox
<1>. QED BY <1>1, <1>2, <1>3, <1>4 DEF Outcome

\* Every move is a step of the mailbox, or none.
LEMMA MoveIsBox ==
  ASSUME Steady, Steady', ~RepliesLost, ~LogOverflows, Move
  PROVE  BoxStep
<1>1. CASE Idle \/ \E p \in Pane : Declined(p) BY <1>1, QuietIsBox
<1>2. CASE \E p \in Pane : Landing(p) BY <1>2, LandingIsBox
<1>3. ASSUME NEW m \in Msg, Moves(m) PROVE BoxStep
  <2>1. CASE Failing(m) \/ Settles(m) \/ PutBack(m) \/ Withdrawn(m) \/ Vanishes(m)
    BY <2>1, FailingIsBox, SettlesIsBox, PutBackIsBox, WithdrawnIsBox, NotInBox DEF Vanishes
  <2>2. CASE \E p \in Pane : Comes(m, p) \/ TakenUp(p, m) \/ Handed(p, m) \/ ReadOut(p, m) \/ Reserving(p, m)
                             \/ ReadLate(p, m)
    BY <2>2, ComesIsBox, TakenUpIsBox, HandedIsBox, ReadOutIsBox, ReservingIsBox, NotInBox
  <2>. QED BY <1>3, <2>1, <2>2 DEF Moves
<1>. QED BY <1>1, <1>2, <1>3 DEF Move

LEMMA StartIsBox == Init => Box!Init
<1>1. SUFFICES ASSUME Init PROVE Box!Init OBVIOUS
<1>2. \A m \in Msg : m # None BY QueueConstants
<1>3. \A m \in Mail : /\ m \in Msg /\ status[m] = "none" /\ readReserved[m] = None
                      /\ \A p \in Pane : flight[p] # m
  BY <1>1, <1>2 DEF Init, Mail
<1>4. \A m \in Mail : FateOf(m) = "new" /\ HeldIn(m) = "free" BY <1>3 DEF FateOf, HeldIn
<1>. QED BY <1>1, <1>4 DEF Init, Box!Init, Fate, Held

\* The window keeps the promise of a mailbox: pumpPane, drainForHook,
\* reserveIncoming, the expiries and failMessage between them only ever do what
\* Mailbox lets one hand do to one message, while panes stay open, no answer is
\* lost and the log has room.
THEOREM WindowIsAMailbox ==
  ASSUME ~PanesClose, ~RepliesLost, ~LogOverflows
  PROVE  Spec => ImplementsMailbox
<1>1. Init => Steady BY StartBase, StartRows DEF Steady
<1>2. Steady /\ [Next]_vars => Steady' BY StepTrue DEF Steady
<1>3. Init => Box!Init BY StartIsBox
<1>4. Steady /\ Steady' /\ [Next]_vars => [Box!Next]_(Box!vars)
  <2>1. Steady /\ [Next]_vars => Move BY StepOpen DEF Steady
  <2>. QED BY <2>1, MoveIsBox DEF BoxStep
<1>. QED BY <1>1, <1>2, <1>3, <1>4, PTL DEF Spec, ImplementsMailbox, Box!Spec
=============================================================================
