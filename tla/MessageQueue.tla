---------------------------- MODULE MessageQueue ----------------------------
(***************************************************************************)
(* The delivery queue of one window: composables/useAgentMessaging.ts with *)
(* the dependencies App.vue configures it with.                            *)
(*                                                                         *)
(* Each CLI pane has a FIFO queue of message ids.  A message leaves it by  *)
(* one of four routes: a push channel, being typed into the pane, the Stop *)
(* hook of a claude pane (drainForHook), or the recipient reading it       *)
(* itself (reserveIncoming).  The first three are coroutines that await    *)
(* the outside world while the per-pane in-flight guard `delivering' is    *)
(* held; meanwhile every other entry point may run.  A step of this module *)
(* is one run-to-completion segment between two awaits.                    *)
(*                                                                         *)
(* Time is not a variable.  A deadline (30 s for a read reservation, two   *)
(* minutes for a terminal) may pass between any two steps, and the idle    *)
(* gate of a pane may be open or shut whenever it is asked, so pump() is   *)
(* the choice of the expiries and PumpPane steps below.                    *)
(***************************************************************************)
EXTENDS Integers, SequencesExt

CONSTANTS
  Pane,          \* runtime pane ids, never reused
  Terminal,      \* the panes that are plain shells
  Name,          \* messaging handles
  Post,          \* messages agents, users and other windows send
  Inbound,       \* the posts that come from another window
  Ack,           \* the posts of kind 'ack', logged and never injected
  Notice,        \* failure notices Navide itself sends
  NoticeOf,      \* the notice a failed post gives rise to
  Sender,        \* the handle a post is sent from, or None
  Addressee,     \* the handle a post is sent to
  None,          \* no pane, no message, no handle
  QueueCap,      \* QUEUE_CAP
  UnclearLimit,  \* PUSH_UNCLEAR_LIMIT
  Channels,      \* which of the routes "push", "hook", "read" exist
  PanesClose,    \* panes may be closed or replaced
  PanesRename,   \* panes may be renamed
  RepliesLost,   \* the answer to a request over the socket may be lost
  UserPauses,    \* the user may pause and resume delivery
  LogOverflows   \* LOG_CAP other rows may be logged while a message waits

Msg == Post \cup Notice

ASSUME QueueConstants ==
  /\ Terminal \subseteq Pane
  /\ Inbound \subseteq Post
  /\ Ack \subseteq Post \ Inbound
  /\ Post \cap Notice = {}
  /\ NoticeOf \in [Post \ Inbound -> Notice]
  /\ \A m, n \in Post \ Inbound : NoticeOf[m] = NoticeOf[n] => m = n
  /\ Sender \in [Post -> Name \cup {None}]
  /\ Addressee \in [Post -> Name]
  /\ None \notin Pane \cup Msg \cup Name
  /\ QueueCap \in Nat \ {0}
  /\ UnclearLimit \in Nat \ {0}
  /\ Channels \subseteq {"push", "hook", "read"}
  /\ {PanesClose, PanesRename, RepliesLost, UserPauses, LogOverflows} \subseteq BOOLEAN

VARIABLES
  holder,           \* paneByName (nameByPane is its inverse)
  seen,             \* pane ids ever registered
  status,           \* the log row of a message: "none" before it is sent,
                    \* "evicted" once findMessage() no longer returns it
  route,            \* the row's route
  queue,            \* queues
  delivering,       \* delivering: panes with a hand-over in flight
  envelope,         \* the messages envelopes has a text for
  readReserved,     \* readReserved: the pane a reading is reserved for
  cancelRequested,  \* cancelRequested
  unclear,          \* pushUnclearCount
  remoteInbound,    \* the inbound posts whose window still awaits a report
  unconfirmed,      \* unconfirmedDeliveries: the pane a confirmation may come from
  paused,           \* paused
  flight,           \* the message the hand-over started on a pane carries
  stage,            \* how far that hand-over is
  reading,          \* reads a recipient's tool call has outstanding
  shown,            \* history: how often an agent got the text (2 = repeatedly)
  told,             \* history: how often the sending pane was told it failed
  verdict           \* history: what was reported about an inbound post

registry == <<holder, seen>>
row == <<status, route>>
maps == <<envelope, readReserved, cancelRequested, unclear, remoteInbound, unconfirmed>>
handover == <<delivering, flight, stage>>
history == <<shown, told, verdict>>
vars == <<registry, row, queue, maps, handover, paused, reading, history>>

Stage == {"none", "push", "pushed", "typing", "typed", "hook", "hooked"}
Settled == {"delivered", "failed", "cancelled"}
Status == {"none", "queued", "delivering", "evicted"} \cup Settled
Route == {"none", "push", "hook", "read"}
Verdict == {"ok", "failed", "unconfirmed"}

Open == {holder[n] : n \in Name} \ {None}
Queued(m) == \E p \in Pane : m \in Range(queue[p])
AtHead(p, m) == queue[p] # << >> /\ queue[p][1] = m
MoreOnce(k) == IF k = 0 THEN 1 ELSE 2
Logged(m) == status[m] \notin {"none", "evicted"}

\* splice(index), without the count of one.
WithoutRest(q, m) ==
  LET at == {i \in 1..Len(q) : q[i] = m}
  IN  IF at = {} THEN q ELSE SubSeq(q, 1, (CHOOSE i \in at : TRUE) - 1)

\* The queue q without the message m (splice at its index).
Without(q, m) == RemoveFirst(q, m)

\* The members of a finite set of numbers in increasing order.
Ascending(S) ==
  CHOOSE f \in [1..Cardinality(S) -> S] :
    \A i, j \in 1..Cardinality(S) : i < j => f[i] < f[j]

-----------------------------------------------------------------------------
(* failMessage and the notice it sends (notifySenderOfFailure)             *)

\* A message being handed over is not bounced.
TellsQueuedOnly(m) ==
  /\ m \in Post \ Inbound
  /\ Sender[m] # None
  /\ holder[Sender[m]] # None
  /\ status[m] \in {"none", "queued"}

\* The sending pane of m hears of a failure of m: its handle is registered, and
\* m is neither a notice nor a message from another window.
Tells(m) ==
  /\ m \in Post \ Inbound
  /\ Sender[m] # None
  /\ holder[Sender[m]] # None
  /\ status[m] \notin {"delivered", "evicted"}

\* The notices that failing the messages F in turn sends to pane s; a second
\* failure of one message sends no further row here (one notice per post).
Bounced(F, s) ==
  LET at == {i \in 1..Len(F) : /\ Tells(F[i])
                              /\ holder[Sender[F[i]]] = s
                              /\ status[NoticeOf[F[i]]] = "none"}
  IN  [i \in 1..Cardinality(at) |-> NoticeOf[F[Ascending(at)[i]]]]

\* sendMessage on those notices: refused by a terminal, by the rate limit of
\* the pair Navide -> s, or by the cap of the queue Q[s].
Admitted(F, s, Q, limited) ==
  LET room == QueueCap - Len(Q[s])
      n == Len(Bounced(F, s))
  IN  IF s \in Terminal \cup limited \/ room <= 0 THEN << >>
      ELSE SubSeq(Bounced(F, s), 1, IF n <= room THEN n ELSE room)

Notices(F) == UNION {Range(Bounced(F, s)) : s \in Pane}
Enqueued(F, Q, limited) == UNION {Range(Admitted(F, s, Q, limited)) : s \in Pane}

\* What failMessage leaves of the rows, the queues and the texts.
FailedStatus(F, Q, limited) ==
  [m \in Msg |->
    IF m \in Range(F) /\ status[m] \notin {"delivered", "evicted"} THEN "failed"
    ELSE IF m \in Notices(F)
         THEN IF m \in Enqueued(F, Q, limited) THEN "queued" ELSE "failed"
         ELSE status[m]]
WithNotices(F, Q, limited) == [s \in Pane |-> Q[s] \o Admitted(F, s, Q, limited)]
FailedEnvelope(F, Q, limited) == (envelope \ Range(F)) \cup Enqueued(F, Q, limited)
FailedTold(F) == [m \in Msg |-> IF m \in Range(F) /\ Tells(m) THEN MoreOnce(told[m]) ELSE told[m]]
FailedUnclear(F) == [m \in Msg |-> IF m \in Range(F) THEN 0 ELSE unclear[m]]

\* Only a success is reported.
AckSuccessOnly(A, v) ==
  /\ verdict' = [m \in Msg |-> IF m \in A \cap remoteInbound /\ v = "ok" THEN verdict[m] \cup {v} ELSE verdict[m]]
  /\ remoteInbound' = remoteInbound \ A

\* ackInbound for the messages in A.
AckInbound(A, v) ==
  /\ verdict' = [m \in Msg |-> IF m \in A \cap remoteInbound THEN verdict[m] \cup {v} ELSE verdict[m]]
  /\ remoteInbound' = remoteInbound \ A

\* failMessage on the messages of the sequence F, in that order, the queues
\* being Q at that point; what becomes of them then is the caller's.
Fails(F, Q, limited) ==
  /\ status' = FailedStatus(F, Q, limited)
  /\ envelope' = FailedEnvelope(F, Q, limited)
  /\ told' = FailedTold(F)
  /\ unclear' = FailedUnclear(F)

\* The row of m, unless the log has evicted it.
SetStatus(m, s) == [status EXCEPT ![m] = IF @ = "evicted" THEN @ ELSE s]

Init ==
  /\ holder = [n \in Name |-> None]
  /\ seen = {}
  /\ status = [m \in Msg |-> "none"]
  /\ route = [m \in Msg |-> "none"]
  /\ queue = [p \in Pane |-> << >>]
  /\ delivering = {}
  /\ envelope = {}
  /\ readReserved = [m \in Msg |-> None]
  /\ cancelRequested = {}
  /\ unclear = [m \in Msg |-> 0]
  /\ remoteInbound = {}
  /\ unconfirmed = [m \in Msg |-> None]
  /\ paused = FALSE
  /\ flight = [p \in Pane |-> None]
  /\ stage = [p \in Pane |-> "none"]
  /\ reading = {}
  /\ shown = [m \in Msg |-> 0]
  /\ told = [m \in Msg |-> 0]
  /\ verdict = [m \in Msg |-> {}]

-----------------------------------------------------------------------------
(* Panes                                                                   *)

\* registerPane under a free handle.
Register(p, n) ==
  /\ p \notin seen
  /\ holder[n] = None
  /\ holder' = [holder EXCEPT ![n] = p]
  /\ seen' = seen \cup {p}
  /\ UNCHANGED <<row, queue, maps, handover, paused, reading, history>>

\* setDerivedName, renamePane: the old handle is free again.
Rename(p, n) ==
  /\ PanesRename
  /\ p \in Open
  /\ holder[n] = None
  /\ holder' = [k \in Name |-> IF k = n THEN p ELSE IF holder[k] = p THEN None ELSE holder[k]]
  /\ UNCHANGED <<seen, row, queue, maps, handover, paused, reading, history>>

\* unregisterPane on pane p whose queue is Q[p]: every entry fails as
\* 'pane-closed', a notice to the closing pane itself included.
Release(p, Q, limited) ==
  LET F == Q[p]
      own == Range(Admitted(F, p, Q, limited))
  IN  /\ status' = [m \in Msg |-> IF m \in own THEN "failed" ELSE FailedStatus(F, Q, limited)[m]]
      /\ queue' = [WithNotices(F, Q, limited) EXCEPT ![p] = << >>]
      /\ envelope' = FailedEnvelope(F, Q, limited) \ own
      /\ told' = FailedTold(F)
      /\ unclear' = FailedUnclear(F)
      /\ AckInbound(Range(F), "failed")
      /\ delivering' = delivering \ {p}
      /\ unconfirmed' = [m \in Msg |-> IF unconfirmed[m] = p THEN None ELSE unconfirmed[m]]

Unregister(p, limited) ==
  /\ PanesClose
  /\ p \in Open
  /\ Release(p, queue, limited)
  /\ readReserved' = [m \in Msg |-> IF m \in Range(queue[p]) THEN None ELSE readReserved[m]]
  /\ holder' = [n \in Name |-> IF holder[n] = p THEN None ELSE holder[n]]
  /\ UNCHANGED <<seen, route, cancelRequested, flight, stage, paused, reading, shown>>

\* The entries handOverQueue leaves behind: a head being handed over.
Kept(p) == IF p \in delivering THEN SubSeq(queue[p], 1, 1) ELSE << >>

\* The entries handOverQueue moves.
Moved(p) == SubSeq(queue[p], Len(Kept(p)) + 1, Len(queue[p]))

\* A pane is rebuilt, or a restore placeholder opened: handOverQueue to the
\* fresh id r, unregisterPane on the old one, registerPane under its handle.
ReplacePane(p, r, limited) ==
  /\ PanesClose
  /\ p \in Open
  /\ r \notin seen
  /\ (r \in Terminal) = (p \in Terminal)
  /\ Release(p, [queue EXCEPT ![p] = Kept(p), ![r] = Moved(p)], limited)
  /\ readReserved' = [m \in Msg |->
       IF m \in Range(Kept(p)) \/ readReserved[m] = None THEN None
       ELSE IF m \in Range(Moved(p)) THEN r ELSE readReserved[m]]
  /\ holder' = [n \in Name |-> IF holder[n] = p THEN r ELSE holder[n]]
  /\ seen' = seen \cup {r}
  /\ UNCHANGED <<route, cancelRequested, flight, stage, paused, reading, shown>>

-----------------------------------------------------------------------------
(* Sending                                                                 *)

\* The cap is off by one.
AdmitsOneMore(m, over) ==
  LET target == holder[Addressee[m]] IN
  /\ target # None
  /\ Sender[m] # Addressee[m]
  /\ ~over
  /\ Len(queue[target]) <= QueueCap

\* The checks of sendMessage and acceptRemoteMessage: a target this window has,
\* another pane, the rate limit of the pair (`over'), room in the queue.
Admits(m, over) ==
  LET target == holder[Addressee[m]] IN
  /\ target # None
  /\ Sender[m] # Addressee[m]
  /\ ~over
  /\ Len(queue[target]) < QueueCap

\* sendMessage: a message not admitted fails at once, and its sender is told.
Send(m, over, limited) ==
  LET target == holder[Addressee[m]] IN
  /\ m \in Post \ Inbound
  /\ status[m] = "none"
  /\ Sender[m] # None => holder[Sender[m]] # None
  /\ \/ /\ ~Admits(m, over)
        /\ Fails(<<m>>, queue, limited)
        /\ queue' = WithNotices(<<m>>, queue, limited)
     \/ /\ Admits(m, over)
        /\ m \notin Ack
        /\ status' = [status EXCEPT ![m] = "queued"]
        /\ queue' = [queue EXCEPT ![target] = Append(@, m)]
        /\ envelope' = envelope \cup {m}
        /\ UNCHANGED <<unclear, told>>
     \/ /\ Admits(m, over)
        /\ m \in Ack
        /\ status' = [status EXCEPT ![m] = "delivered"]
        /\ UNCHANGED <<queue, envelope, unclear, told>>
  /\ UNCHANGED <<registry, route, readReserved, cancelRequested, remoteInbound, unconfirmed,
                 handover, paused, reading, shown, verdict>>

\* Every copy of a broadcast is let in.
FreshAlways(m) == m \in Inbound

\* acceptedMsgKeys lets one copy of a broadcast in.
Fresh(m) == status[m] = "none"

\* acceptRemoteMessage: `over' is the rate limit, or a terminal refusing text
\* from outside.
AcceptRemote(m, over) ==
  LET p == holder[Addressee[m]] IN
  /\ m \in Inbound
  /\ Fresh(m)
  /\ p # None
  /\ \/ /\ ~Admits(m, over)
        /\ status' = [status EXCEPT ![m] = "failed"]
        /\ verdict' = [verdict EXCEPT ![m] = @ \cup {"failed"}]
        /\ UNCHANGED <<queue, envelope, remoteInbound>>
     \/ /\ Admits(m, over)
        /\ status' = [status EXCEPT ![m] = "queued"]
        /\ queue' = [queue EXCEPT ![p] = Append(@, m)]
        /\ envelope' = envelope \cup {m}
        /\ remoteInbound' = remoteInbound \cup {m}
        /\ UNCHANGED verdict
  /\ UNCHANGED <<registry, route, readReserved, cancelRequested, unclear, unconfirmed,
                 handover, paused, reading, shown, told>>

\* pushLog of LOG_CAP other rows: the row and its text are gone, the queue
\* entry is not.
Evict(m) ==
  /\ LogOverflows
  /\ Logged(m)
  /\ status' = [status EXCEPT ![m] = "evicted"]
  /\ envelope' = envelope \ {m}
  /\ UNCHANGED <<registry, route, queue, readReserved, cancelRequested, unclear, remoteInbound,
                 unconfirmed, handover, paused, reading, history>>

-----------------------------------------------------------------------------
(* Handing over: pumpPane                                                  *)

\* A head reserved for its reader is taken all the same.
HeadFreeOfFlights(p) ==
  /\ ~paused
  /\ queue[p] # << >>
  /\ p \notin delivering

\* What pumpPane and drainForHook ask of a pane before they take its head.
HeadFree(p) ==
  /\ ~paused
  /\ queue[p] # << >>
  /\ p \notin delivering
  /\ readReserved[queue[p][1]] = None

Gone(m) == status[m] = "evicted" \/ m \notin envelope

\* The head has no row or no text left.
DropHead(p) ==
  /\ HeadFree(p)
  /\ Gone(queue[p][1])
  /\ queue' = [queue EXCEPT ![p] = Tail(@)]
  /\ AckInbound({queue[p][1]}, "failed")
  /\ UNCHANGED <<registry, row, envelope, readReserved, cancelRequested, unclear, unconfirmed,
                 handover, paused, reading, shown, told>>

\* refuseDelivery: several lines for a shell without bracketed paste.
RefuseHead(p, limited) ==
  LET m == queue[p][1] IN
  /\ HeadFree(p)
  /\ ~Gone(m)
  /\ p \in Terminal
  /\ Fails(<<m>>, [queue EXCEPT ![p] = Tail(@)], limited)
  /\ queue' = WithNotices(<<m>>, [queue EXCEPT ![p] = Tail(@)], limited)
  /\ AckInbound({m}, "failed")
  /\ UNCHANGED <<registry, route, readReserved, cancelRequested, unconfirmed, handover,
                 paused, reading, shown>>

Take(p, s) ==
  /\ HeadFree(p)
  /\ ~Gone(queue[p][1])
  /\ delivering' = delivering \cup {p}
  /\ status' = [status EXCEPT ![queue[p][1]] = "delivering"]
  /\ flight' = [flight EXCEPT ![p] = queue[p][1]]
  /\ stage' = [stage EXCEPT ![p] = s]
  /\ UNCHANGED <<registry, queue, maps, paused, reading, history>>

\* pumpPane up to its await: the push channel if one is ready, else typing
\* once the idle gate is open.
StartPush(p) ==
  /\ "push" \in Channels
  /\ p \notin Terminal
  /\ Take(p, "push")
  /\ route' = [route EXCEPT ![queue[p][1]] = "push"]

StartTyping(p) == Take(p, "typing") /\ UNCHANGED route

\* The text reaches the agent: through the channel, typed and submitted, or
\* taken by the waiting Stop hook.  A closed pane has no agent.
Lands(p) ==
  /\ p \in Open
  /\ stage[p] \in {"push", "typing", "hook"}
  /\ stage' = [stage EXCEPT ![p] = CASE @ = "push" -> "pushed"
                                     [] @ = "typing" -> "typed"
                                     [] @ = "hook" -> "hooked"]
  /\ shown' = [shown EXCEPT ![flight[p]] = MoreOnce(@)]
  /\ UNCHANGED <<registry, row, queue, maps, delivering, flight, paused, reading, told, verdict>>

\* deliverOnce: the push did not land, or its answer was lost
\* (pushDeliverAgentMessage counts that as a refusal); type it in if the pane
\* is idle, which a closed pane never is.
PushDeclined(p) ==
  /\ stage[p] = "push" \/ (stage[p] = "pushed" /\ RepliesLost)
  /\ p \in Open
  /\ stage' = [stage EXCEPT ![p] = "typing"]
  /\ route' = [route EXCEPT ![flight[p]] = "none"]
  /\ UNCHANGED <<registry, status, queue, maps, delivering, flight, paused, reading, history>>

\* The in-flight guard is not taken off.
EndFlightGuarded(p) ==
  /\ UNCHANGED delivering
  /\ cancelRequested' = cancelRequested \ {flight[p]}
  /\ flight' = [flight EXCEPT ![p] = None]
  /\ stage' = [stage EXCEPT ![p] = "none"]

\* The finally block of pumpPane.
EndFlight(p) ==
  /\ delivering' = delivering \ {p}
  /\ cancelRequested' = cancelRequested \ {flight[p]}
  /\ flight' = [flight EXCEPT ![p] = None]
  /\ stage' = [stage EXCEPT ![p] = "none"]

\* q.shift(): the array of a pane closed meanwhile is no longer in the map.
Shift(p, Q) == IF p \in Open THEN [Q EXCEPT ![p] = Tail(@)] ELSE Q

\* The branches of pumpPane that put the message back at the head: null (k = 0)
\* and 'unclear' (k = 1) before its limit.  null is a push that was declined
\* with the idle gate shut, or a program in front of a terminal's shell.
Requeue(p, k) ==
  LET m == flight[p] IN
  /\ \/ k = 0 /\ stage[p] = "push"
     \/ k = 0 /\ stage[p] = "pushed" /\ RepliesLost
     \/ k = 0 /\ stage[p] = "typing" /\ p \in Terminal
     \/ k = 1 /\ stage[p] = "push" /\ unclear[m] + 1 < UnclearLimit
  /\ EndFlight(p)
  /\ status' = SetStatus(m, "queued")
  /\ route' = [route EXCEPT ![m] = "none"]
  /\ unclear' = [unclear EXCEPT ![m] = @ + k]
  /\ UNCHANGED <<registry, queue, envelope, readReserved, remoteInbound, unconfirmed, paused,
                 reading, history>>

\* The attempt ended with the text in the pane, or with its Enter out but no
\* sign of the CLI having read it (`unconfirmed').
Delivered(p, confirmed) ==
  LET m == flight[p] IN
  /\ stage[p] \in (IF confirmed THEN {"pushed", "typed"} ELSE {"typing", "typed"})
  /\ EndFlight(p)
  /\ status' = SetStatus(m, "delivered")
  /\ envelope' = envelope \ {m}
  /\ unconfirmed' = IF confirmed THEN unconfirmed ELSE [unconfirmed EXCEPT ![m] = p]
  /\ queue' = Shift(p, queue)
  /\ unclear' = [unclear EXCEPT ![m] = 0]
  /\ AckInbound({m}, IF confirmed THEN "ok" ELSE "unconfirmed")
  /\ UNCHANGED <<registry, route, readReserved, paused, reading, shown, told>>

\* An attempt that failed with a reason, threw, or hit the unclear limit.
FlightFailed(p, limited) ==
  LET m == flight[p] IN
  /\ \/ stage[p] = "typing"
     \/ stage[p] = "push" /\ unclear[m] + 1 >= UnclearLimit
  /\ EndFlight(p)
  /\ Fails(<<m>>, queue, limited)
  /\ queue' = Shift(p, WithNotices(<<m>>, queue, limited))
  /\ AckInbound({m}, "failed")
  /\ UNCHANGED <<registry, route, readReserved, unconfirmed, paused, reading, shown>>

\* The injection answered false: it was withdrawn, the row was settled from
\* outside, or it demonstrably did not go in.
NotInjected(p, limited) ==
  LET m == flight[p] IN
  /\ stage[p] = "typing"
  /\ EndFlight(p)
  /\ \/ /\ m \in cancelRequested
        /\ status' = SetStatus(m, "cancelled")
        /\ queue' = Shift(p, queue)
        /\ envelope' = envelope \ {m}
        /\ unclear' = [unclear EXCEPT ![m] = 0]
        /\ UNCHANGED told
     \/ /\ m \notin cancelRequested /\ status[m] # "delivering"
        /\ queue' = Shift(p, queue)
        /\ unclear' = [unclear EXCEPT ![m] = 0]
        /\ UNCHANGED <<status, envelope, told>>
     \/ /\ m \notin cancelRequested /\ status[m] = "delivering"
        /\ Fails(<<m>>, queue, limited)
        /\ queue' = Shift(p, WithNotices(<<m>>, queue, limited))
  /\ AckInbound({m}, "failed")
  /\ UNCHANGED <<registry, route, readReserved, unconfirmed, paused, reading, shown>>

\* confirmDelivery: the pane's log shows the text of an unconfirmed delivery.
ConfirmDelivery(m) ==
  /\ unconfirmed[m] # None
  /\ status[m] # "evicted"
  /\ shown[m] > 0
  /\ unconfirmed' = [unconfirmed EXCEPT ![m] = None]
  /\ verdict' = [verdict EXCEPT ![m] = IF "unconfirmed" \in @ THEN @ \cup {"ok"} ELSE @]
  /\ UNCHANGED <<registry, row, queue, envelope, readReserved, cancelRequested, unclear,
                 remoteInbound, handover, paused, reading, shown, told>>

-----------------------------------------------------------------------------
(* Handing over without typing: the Stop hook and the recipient's read      *)

\* The backend's answer says whether the hook was still waiting; a lost answer
\* counts as no.
HookAnswer(p, ok) ==
  \/ stage[p] = "hook" /\ ~ok
  \/ stage[p] = "hooked" /\ ok
  \/ stage[p] = "hooked" /\ ~ok /\ RepliesLost

\* drainForHook: the head is promised to a Stop hook that asked.
DrainForHook(p) ==
  /\ "hook" \in Channels
  /\ p \in Open \ Terminal
  /\ Take(p, "hook")
  /\ route' = [route EXCEPT ![queue[p][1]] = "hook"]

\* settleHookDrain: the head is shifted, or put back where it is.
SettleHookDrain(p, ok) ==
  LET m == queue[p][1]
      holds == /\ p \in Open /\ queue[p] # << >>
               /\ status[m] = "delivering" /\ route[m] = "hook"
  IN
  /\ HookAnswer(p, ok)
  /\ delivering' = delivering \ {p}
  /\ flight' = [flight EXCEPT ![p] = None]
  /\ stage' = [stage EXCEPT ![p] = "none"]
  /\ \/ /\ holds /\ ok
        /\ queue' = [queue EXCEPT ![p] = Tail(@)]
        /\ envelope' = envelope \ {m}
        /\ status' = [status EXCEPT ![m] = "delivered"]
        /\ AckInbound({m}, "ok")
        /\ UNCHANGED route
     \/ /\ holds /\ ~ok
        /\ status' = [status EXCEPT ![m] = "queued"]
        /\ route' = [route EXCEPT ![m] = "none"]
        /\ UNCHANGED <<queue, envelope, remoteInbound, verdict>>
     \/ /\ ~holds
        /\ UNCHANGED <<row, queue, envelope, remoteInbound, verdict>>
  /\ UNCHANGED <<registry, readReserved, cancelRequested, unclear, unconfirmed, paused, reading,
                 shown, told>>

\* heldInFlight: only the head of a pane with a hand-over in flight.
HeldInFlight(p, m) == p \in delivering /\ AtHead(p, m)

\* reserveIncoming on one uid; the tool call then has a read outstanding.
ReserveIncoming(p, m) ==
  /\ "read" \in Channels
  /\ p \in Open \ Terminal
  /\ <<p, m>> \notin reading
  /\ ~paused
  /\ status[m] = "queued"
  /\ m \in Range(queue[p])
  /\ ~HeldInFlight(p, m)
  /\ readReserved' = [readReserved EXCEPT ![m] = p]
  /\ status' = [status EXCEPT ![m] = "delivering"]
  /\ route' = [route EXCEPT ![m] = "read"]
  /\ reading' = reading \cup {<<p, m>>}
  /\ UNCHANGED <<registry, queue, envelope, cancelRequested, unclear, remoteInbound, unconfirmed,
                 handover, paused, history>>

\* releaseReservation
Released(m) ==
  /\ readReserved' = [readReserved EXCEPT ![m] = None]
  /\ status' = [status EXCEPT ![m] = "queued"]
  /\ route' = [route EXCEPT ![m] = "none"]

\* settleIncomingRead: by then the agent has the text (ok), or never got it.
SettleIncomingRead(p, m, ok) ==
  LET mine == readReserved[m] = p /\ status[m] # "evicted" IN
  /\ <<p, m>> \in reading
  /\ reading' = reading \ {<<p, m>>}
  /\ shown' = IF ok THEN [shown EXCEPT ![m] = MoreOnce(@)] ELSE shown
  /\ \/ /\ mine /\ ok /\ Queued(m) /\ ~\E s \in Pane : HeldInFlight(s, m)
        /\ queue' = [s \in Pane |-> Without(queue[s], m)]
        /\ unclear' = [unclear EXCEPT ![m] = 0]
        /\ readReserved' = [readReserved EXCEPT ![m] = None]
        /\ status' = [status EXCEPT ![m] = "delivered"]
        /\ envelope' = envelope \ {m}
        /\ AckInbound({m}, "ok")
        /\ UNCHANGED route
     \/ /\ mine /\ ~(ok /\ Queued(m) /\ ~\E s \in Pane : HeldInFlight(s, m))
        /\ Released(m)
        /\ UNCHANGED <<queue, unclear, envelope, remoteInbound, verdict>>
     \/ /\ ~mine
        /\ UNCHANGED <<row, queue, unclear, readReserved, envelope, remoteInbound, verdict>>
  /\ UNCHANGED <<registry, cancelRequested, unconfirmed, handover, paused, told>>

\* The tool call got the text, from the window or from the log, and its settle
\* never reached the window.
LoseRead(p, m) ==
  /\ RepliesLost
  /\ <<p, m>> \in reading
  /\ reading' = reading \ {<<p, m>>}
  /\ shown' = [shown EXCEPT ![m] = MoreOnce(@)]
  /\ UNCHANGED <<registry, row, queue, maps, handover, paused, told, verdict>>

\* Reservations do not expire.
ExpireNever(m) == FALSE

\* expireReadReservations, 30 s on.  Both calls of a read are answered within
\* 15 s, so a read is outlived only where answers are lost.
ExpireReadReservation(m) ==
  /\ readReserved[m] # None
  /\ RepliesLost \/ <<readReserved[m], m>> \notin reading
  /\ \/ /\ status[m] = "delivering" /\ route[m] = "read"
        /\ Released(m)
     \/ /\ ~(status[m] = "delivering" /\ route[m] = "read")
        /\ readReserved' = [readReserved EXCEPT ![m] = None]
        /\ UNCHANGED row
  /\ UNCHANGED <<registry, queue, envelope, cancelRequested, unclear, remoteInbound, unconfirmed,
                 handover, paused, reading, history>>

-----------------------------------------------------------------------------
(* Withdrawing, expiring, pausing                                           *)

\* unqueue
Unqueue(m) ==
  /\ Queued(m)
  /\ ~\E p \in Pane : HeldInFlight(p, m)
  /\ queue' = [p \in Pane |-> Without(queue[p], m)]
  /\ unclear' = [unclear EXCEPT ![m] = 0]

\* cancelMessage and cancelRemoteInbound on a message still waiting here.
CancelQueued(m) ==
  /\ status[m] = "queued"
  /\ Unqueue(m)
  /\ status' = [status EXCEPT ![m] = "cancelled"]
  /\ envelope' = envelope \ {m}
  /\ AckInbound({m}, "failed")
  /\ UNCHANGED <<registry, route, readReserved, cancelRequested, unconfirmed, handover, paused,
                 reading, shown, told>>

\* cancelMessage on one being typed while its pane reads no input
\* (withdrawable): the injection settles it.
CancelTyping(p) ==
  /\ stage[p] = "typing"
  /\ AtHead(p, flight[p]) /\ p \in delivering
  /\ status[flight[p]] = "delivering"
  /\ flight[p] \notin cancelRequested
  /\ cancelRequested' = cancelRequested \cup {flight[p]}
  /\ UNCHANGED <<registry, row, queue, envelope, readReserved, unclear, remoteInbound, unconfirmed,
                 handover, paused, reading, history>>

\* A message being typed expires too.
StaleInTerminalAny(p, m) == p \in Terminal /\ m \in Range(queue[p])

\* The messages expireStaleTerminalMessages fails, two minutes on: "one already
\* being typed is past the point of taking back".
StaleInTerminal(p, m) == p \in Terminal /\ m \in Range(queue[p]) /\ status[m] = "queued"

\* expireStaleTerminalMessages
ExpireTerminal(p, m, limited) ==
  /\ ~paused
  /\ StaleInTerminal(p, m)
  /\ Fails(<<m>>, [queue EXCEPT ![p] = Without(@, m)], limited)
  /\ queue' = WithNotices(<<m>>, [queue EXCEPT ![p] = Without(@, m)], limited)
  /\ AckInbound({m}, "failed")
  /\ UNCHANGED <<registry, route, readReserved, cancelRequested, unconfirmed, handover, paused,
                 reading, shown>>

\* pauseMessaging, resumeMessaging
Pause ==
  /\ UserPauses
  /\ paused' = ~paused
  /\ UNCHANGED <<registry, row, queue, maps, handover, reading, history>>

-----------------------------------------------------------------------------
\* The panes whose budget of notices is spent at this moment.
Limits == SUBSET {p \in Open : \E n \in Name : holder[n] = p /\ \E m \in Post : Sender[m] = n}

PumpPane(p) == StartPush(p) \/ StartTyping(p) \/ DropHead(p) \/ \E l \in Limits : RefuseHead(p, l)

Finish(p) ==
  \/ \E k \in {0, 1} : Requeue(p, k)
  \/ \E c \in BOOLEAN : Delivered(p, c)
  \/ \E l \in Limits : FlightFailed(p, l) \/ NotInjected(p, l)

Next ==
  \/ \E p \in Pane, n \in Name : Register(p, n) \/ Rename(p, n)
  \/ \E p \in Pane, l \in Limits : Unregister(p, l)
  \/ \E p, r \in Pane, l \in Limits : ReplacePane(p, r, l)
  \/ \E m \in Post, over \in BOOLEAN, l \in Limits : Send(m, over, l)
  \/ \E m \in Post, over \in BOOLEAN : AcceptRemote(m, over)
  \/ \E m \in Msg : Evict(m)
  \/ \E p \in Pane : PumpPane(p) \/ Lands(p) \/ PushDeclined(p) \/ Finish(p)
  \/ \E m \in Msg : ConfirmDelivery(m)
  \/ \E p \in Pane : DrainForHook(p) \/ \E ok \in BOOLEAN : SettleHookDrain(p, ok)
  \/ \E p \in Pane, m \in Msg : ReserveIncoming(p, m) \/ LoseRead(p, m)
  \/ \E p \in Pane, m \in Msg, ok \in BOOLEAN : SettleIncomingRead(p, m, ok)
  \/ \E m \in Msg : ExpireReadReservation(m) \/ CancelQueued(m)
  \/ \E p \in Pane : CancelTyping(p)
  \/ \E p \in Pane, m \in Msg, l \in Limits : ExpireTerminal(p, m, l)
  \/ Pause

Spec == Init /\ [][Next]_vars

(***************************************************************************)
(* Fairness.  pump() runs every second and on every turn end, so a head    *)
(* that is free again and again is taken; every attempt awaits something   *)
(* with a time limit, so it ends, and so do a hook's answer and a read.    *)
(* The environment is assumed not to refuse for ever: an agent that keeps  *)
(* being handed texts takes one, and not every answer is lost.             *)
(***************************************************************************)
EndRead(p, m) == LoseRead(p, m) \/ \E ok \in BOOLEAN : SettleIncomingRead(p, m, ok)
Answered(p) == Delivered(p, TRUE) \/ SettleHookDrain(p, TRUE)

Fairness ==
  /\ \A p \in Pane : /\ SF_vars(PumpPane(p))
                     /\ SF_vars(Lands(p))
                     /\ SF_vars(Answered(p))
                     /\ WF_vars(Finish(p))
                     /\ WF_vars(\E ok \in BOOLEAN : SettleHookDrain(p, ok))
  /\ \A m \in Msg : /\ WF_vars(ExpireReadReservation(m))
                    /\ \A p \in Pane : WF_vars(EndRead(p, m))

LiveSpec == Spec /\ Fairness

-----------------------------------------------------------------------------
(* Properties                                                              *)

\* Every variable of useAgentMessaging.ts holds what its declaration says, and
\* a queue never outgrows QUEUE_CAP.
TypeOK ==
  /\ holder \in [Name -> Pane \cup {None}]
  /\ seen \subseteq Pane
  /\ status \in [Msg -> Status]
  /\ route \in [Msg -> Route]
  /\ queue \in [Pane -> Seq(Msg)]
  /\ \A p \in Pane : Len(queue[p]) <= QueueCap
  /\ delivering \subseteq Pane
  /\ envelope \subseteq Msg
  /\ readReserved \in [Msg -> Pane \cup {None}]
  /\ cancelRequested \subseteq Msg
  /\ unclear \in [Msg -> 0..(UnclearLimit - 1)]
  /\ remoteInbound \subseteq Inbound
  /\ unconfirmed \in [Msg -> Pane \cup {None}]
  /\ paused \in BOOLEAN
  /\ flight \in [Pane -> Msg \cup {None}]
  /\ stage \in [Pane -> Stage]
  /\ reading \subseteq Pane \X Msg
  /\ shown \in [Msg -> 0..2]
  /\ told \in [Msg -> 0..2]
  /\ verdict \in [Msg -> SUBSET Verdict]

\* The message a hand-over carries stays at the head of its queue until the
\* hand-over ends, whatever is sent, read, cancelled, expired or dropped
\* meanwhile: pumpPane and settleHookDrain shift the head without looking, so
\* anything else there would be thrown away unseen.
InFlightIsHead ==
  \A p \in Pane :
    /\ p \in delivering => stage[p] # "none" /\ AtHead(p, flight[p])
    /\ p \in Open /\ stage[p] # "none" => p \in delivering

\* A message waits in one queue, once: handing a queue over to the pane that
\* replaces another never copies an entry the old pane is still handing over.
QueuedOnce ==
  \A p, r \in Pane : \A i \in 1..Len(queue[p]), j \in 1..Len(queue[r]) :
    queue[p][i] = queue[r][j] => p = r /\ i = j

\* No two routes hold one message: what the recipient has reserved to read is
\* neither being typed, pushed nor promised to the Stop hook, and two panes
\* never hand over the same message.
OneRoute ==
  /\ \A p \in Pane : stage[p] # "none" => readReserved[flight[p]] = None
  /\ \A p, r \in Pane : stage[p] # "none" /\ flight[p] = flight[r] => p = r

\* The sending window of a cross-workspace message is owed a report exactly as
\* long as the message waits here, and has had one once it does not: closing a
\* pane, dropping a row or withdrawing it never leaves that window waiting.
InboundReported ==
  \A m \in Inbound :
    /\ m \in remoteInbound <=> Queued(m)
    /\ status[m] # "none" /\ ~Queued(m) => verdict[m] # {}

\* A row that says it waits does wait in a queue: "Put the message back at the
\* head of its queue ...: the next pump sends it" (pumpPane).
WaitingIsQueued ==
  \A m \in Msg : status[m] \in {"queued", "delivering"} => Queued(m)

\* An agent gets the text of a message at most once.
ShownOnce == \A m \in Msg : shown[m] <= 1

\* The log tells the truth: a delivered message was shown (or says it is
\* unconfirmed), a failed or cancelled one was not.
RowsTellTheTruth ==
  \A m \in Msg \ Ack :
    /\ status[m] = "delivered" => shown[m] = 1 \/ unconfirmed[m] # None
    /\ status[m] \in {"queued", "failed", "cancelled"} => shown[m] = 0
    /\ "failed" \in verdict[m] => shown[m] = 0

\* A failed message between two panes has been bounced to its sender.
FailureIsTold ==
  \A m \in Post \ Inbound : status[m] = "failed" /\ Sender[m] # None => told[m] = 1

\* The Mailbox as it looks through the queues, rows and hand-overs.
Mail == Msg \ Ack

FateOf(m) ==
  CASE status[m] = "none" -> "new"
    [] status[m] \in {"queued", "delivering"} -> IF shown[m] > 0 THEN "got" ELSE "waiting"
    [] status[m] = "delivered" -> IF shown[m] > 0 THEN "delivered" ELSE "unsure"
    [] OTHER -> status[m]

HeldIn(m) ==
  CASE readReserved[m] # None -> "reserved"
    [] \E p \in Pane : flight[p] = m -> "carried"
    [] OTHER -> "free"

Fate == [m \in Mail |-> FateOf(m)]
Held == [m \in Mail |-> HeldIn(m)]

Box == INSTANCE Mailbox WITH Msg <- Mail, Cap <- QueueCap, box <- queue, fate <- Fate, held <- Held

\* While panes stay open and no answer is lost, every step of pumpPane, the
\* hook, a read, an expiry or a cancellation is one step of a mailbox: taken in
\* order of arrival (or reserved), by one hand at a time, got once, and out of
\* the box only when got, failed unseen or withdrawn.
ImplementsMailbox == Box!Spec

\* Unless the user keeps delivery paused, a message that waits leaves its
\* queue: a reservation whose reader vanished, a composer that will not clear
\* or a hook that gave up never makes a pane deaf.
NoDeafPane == []<>~paused => \A m \in Msg : Queued(m) ~> ~Queued(m)
=============================================================================
