------------------------- MODULE PushDeliveryProofs -------------------------
(***************************************************************************)
(* Theorems about the rewake channel, for every set of panes, windows and  *)
(* hooks, every former id a window may declare, and any number of reloads, *)
(* reconnects, spawns and flips of the switch.  The registry underneath    *)
(* keeps its own invariant, IInv of PaneRegistryProofs: each step of the   *)
(* channel is one of the registry or leaves it alone.                      *)
(***************************************************************************)
EXTENDS PushDelivery, PaneRegistryProofs

\* What the future of a request and its handler have in common: nothing can
\* resolve it before it parks or after its wait is over, and what the handler
\* is about to answer is what the future held.
RequestInv ==
    \A h \in Hook :
        /\ stage[h] \in {"absent", "ending", "over"} => h \notin pending
        /\ stage[h] = "noticed" => h \notin up
        /\ stage[h] = "ending" =>
              \/ reply[h] = "timeout"
              \/ reply[h] = "gone" /\ h \notin up
              \/ reply[h] = answer[h]

\* A channel that is switched off lists nobody.
DisabledIsEmpty == ~enabled => \A p \in PaneId : channel[p] \in {NoChannel, <<>>}

PushInv == IInv /\ PushTypeOK /\ RequestInv /\ DisabledIsEmpty /\ ReadyIsOffered
Lists == {NoChannel, <<>>} \cup {<<h>> : h \in Hook}

-----------------------------------------------------------------------------
(* The helpers.                                                            *)

LEMMA NoChannelIsNoList == <<>> # NoChannel /\ \A h \in Hook : <<h>> # NoChannel
<1>1. <<>> \in Seq(Hook) OBVIOUS
<1>2. \A h \in Hook : <<h>> \in Seq(Hook) OBVIOUS
<1>. QED BY <1>1, <1>2, PushAssumption, Zenon

\* The first occurrence of the only element of a list.
LEMMA RemoveOnly ==
  ASSUME NEW g, NEW h
  PROVE  RemoveFirst(<<g>>, h) \in {<<>>, <<g>>} /\ RemoveFirst(<<>>, h) = <<>>
<1>1. CASE g = h
  <2>. DEFINE I == {i \in 1..Len(<<g>>) : <<g>>[i] = h}
  <2>1. I = {1} BY <1>1
  <2>2. Min(I) = 1 BY <2>1 DEF Min
  <2>3. SelectInSeq(<<g>>, LAMBDA v : v = h) = 1 BY <2>1, <2>2 DEF SelectInSeq
  <2>4. RemoveAt(<<g>>, 1) = <<>> BY DEF RemoveAt
  <2>. QED BY <1>1, <2>3, <2>4 DEF RemoveFirst
<1>2. CASE g # h BY <1>2 DEF RemoveFirst
<1>. QED BY <1>1, <1>2 DEF RemoveFirst

\* A waiter leaves its own list only, and leaves it a list.
LEMMA UnlistedKeeps ==
  ASSUME PushTypeOK, NEW p, NEW h
  PROVE  /\ Unlisted(p, h) \in [PaneId -> Lists]
         /\ \A q \in PaneId : \/ Unlisted(p, h)[q] = channel[q]
                              \/ Wired(q) /\ Unlisted(p, h)[q] = <<>>
<1>1. channel \in [PaneId -> Lists] BY DEF PushTypeOK, Lists
<1>2. ASSUME NEW q \in PaneId, Wired(q)
      PROVE  RemoveFirst(channel[q], h) \in {<<>>, channel[q]}
  BY <1>1, <1>2, RemoveOnly DEF Lists, Wired
<1>. QED BY <1>1, <1>2 DEF Unlisted, Lists, Wired

\* Releasing waiters touches no request that nobody waits for.
LEMMA ReleasedKeeps ==
  ASSUME PushTypeOK, NEW H
  PROVE  /\ Released(H) \in [Hook -> {"open", "empty", "text"}]
         /\ \A h \in Hook \ pending : Released(H)[h] = answer[h]
BY DEF Released, Resolvable, PushTypeOK

\* A channel told of as ready is offered by every window that is up; one told of
\* as gone is not ready.
LEMMA Telling ==
  ASSUME PushTypeOK, NEW p \in PaneId, NEW ready \in BOOLEAN, Tell(p, ready)
  PROVE  /\ offers' \in [Conn -> SUBSET PaneId] /\ overtaken' \subseteq PaneId
         /\ \A c \in Conn, q \in PaneId : q # p => (q \in offers'[c] <=> q \in offers[c])
         /\ \A q \in PaneId : q # p => (q \in overtaken' <=> q \in overtaken)
         /\ ready => \A c \in Conn \cap live : p \in offers'[c]
BY DEF Tell, PushTypeOK

\* Every step of the channels is a step of the registry or leaves it alone.
LEMMA RegistryStep == PushNext => [Next]_vars
<1>. SUFFICES ASSUME PushNext PROVE [Next]_vars OBVIOUS
<1>1. ASSUME NEW c \in Conn, NEW p \in PaneId, RegisterAndAdopt(c, p) PROVE Next
  <2>1. FormerId[p] \in PaneId \cup {NoFormer} BY PushAssumption
  <2>. QED BY <1>1, <2>1 DEF RegisterAndAdopt, Next
<1>2. ASSUME NEW c \in Conn, NEW r \in BOOLEAN, WindowConnects(c) \/ WindowDrops(c, r)
      PROVE  Next
  BY <1>2 DEF WindowConnects, WindowDrops, Next
<1>3. ASSUME NEW c \in Conn, NEW p \in PaneId, WindowUnregisters(c, p) PROVE Next
  BY <1>3 DEF WindowUnregisters, Next
<1>4. ASSUME RegistryMoves PROVE Next BY <1>4 DEF RegistryMoves, Next
<1>. QED BY <1>1, <1>2, <1>3, <1>4
     DEF PushNext, Push, WireSpawn, SpawnDone, SpawnFails, Arm, HangUp, WaitRunsOut,
         NoticeGone, WaitEnds, GiveUp, Respond, Switch, Announce
-----------------------------------------------------------------------------
(* The requests: types, RequestInv and the lists a switched-off channel has *)
(* are kept by every step on their own.                                    *)

Typed == PushTypeOK /\ RequestInv /\ DisabledIsEmpty

LEMMA WaiterLists ==
  ASSUME PushTypeOK
  PROVE  /\ channel \in [PaneId -> Lists]
         /\ \A p \in PaneId : \A h : h \in Waiters(p) => h \in Hook
BY DEF PushTypeOK, Lists, Waiters, Wired

\* What a step did not touch stays as it was.
LEMMA WindowsTyped ==
  ASSUME Typed, UNCHANGED <<channelVars, hookVars, enabled, spawnVars>>,
         announcing' \subseteq PaneId \X BOOLEAN,
         offers' \in [Conn -> SUBSET PaneId], overtaken' \subseteq PaneId
  PROVE  Typed'
BY DEF Typed, PushTypeOK, RequestInv, DisabledIsEmpty, channelVars, hookVars, spawnVars

\* A handler that gives up its place: no future of it is left to resolve.
LEMMA EndingTyped ==
  ASSUME Typed, NEW h \in Hook, pending' = pending \ {h},
         channel' = Unlisted(parkedAs[h], h),
         NEW a \in {"empty", "text", "timeout", "gone"}, reply' = [reply EXCEPT ![h] = a],
         \/ a = "timeout"
         \/ a = "gone" /\ h \notin up
         \/ a = answer[h],
         stage' = [stage EXCEPT ![h] = "ending"],
         UNCHANGED <<answer, parkedAs, up, enabled, spawnVars, windowVars>>
  PROVE  Typed'
<1>. USE DEF Typed, spawnVars, windowVars
<1>1. /\ channel' \in [PaneId -> Lists]
      /\ \A q \in PaneId : channel'[q] = channel[q] \/ channel'[q] = <<>>
  BY UnlistedKeeps
<1>2. PushTypeOK' BY <1>1 DEF PushTypeOK, Lists
<1>3. RequestInv' BY DEF RequestInv, PushTypeOK
<1>4. DisabledIsEmpty' BY <1>1 DEF DisabledIsEmpty
<1>. QED BY <1>2, <1>3, <1>4

\* Waiters that are released, and lists that change hands or empty.
LEMMA ListsTyped ==
  ASSUME Typed, NEW H, answer' = answer \/ answer' = Released(H),
         channel' \in [PaneId -> Lists],
         ~enabled' => \A p \in PaneId : channel'[p] \in {NoChannel, <<>>},
         enabled' \in BOOLEAN, UNCHANGED <<pending, hookVars>>,
         spawning' \subseteq SpawnId, ptys' \subseteq SpawnId,
         announcing' \subseteq PaneId \X BOOLEAN,
         offers' \in [Conn -> SUBSET PaneId], overtaken' \subseteq PaneId
  PROVE  Typed'
<1>1. /\ answer' \in [Hook -> {"open", "empty", "text"}]
      /\ \A h \in Hook \ pending : answer'[h] = answer[h]
  BY ReleasedKeeps DEF Typed, PushTypeOK
<1>2. PushTypeOK' BY <1>1 DEF Typed, PushTypeOK, Lists, hookVars
<1>3. RequestInv' BY <1>1 DEF Typed, RequestInv, hookVars
<1>. QED BY <1>2, <1>3 DEF Typed, DisabledIsEmpty
LEMMA RegisterTyped ==
  ASSUME IInv, Typed, NEW c \in Conn, NEW p \in PaneId, RegisterAndAdopt(c, p)
  PROVE  Typed'
<1>. DEFINE f == FormerId[p]
<1>1. f \in PaneId \/ f = NoFormer BY PushAssumption
<1>2. Adopts(p, f) => f \in PaneId BY <1>1 DEF Adopts, AliasAccepted
<1>3. channel \in [PaneId -> Lists] BY WaiterLists DEF Typed
<1>4. channel' = IF Adopts(p, f) THEN [channel EXCEPT ![p] = channel[f], ![f] = NoChannel]
                 ELSE channel
  BY DEF RegisterAndAdopt
<1>. HIDE DEF f
<1>5. \A q \in PaneId : \/ channel'[q] = channel[q] \/ channel'[q] = NoChannel
                        \/ f \in PaneId /\ channel'[q] = channel[f]
  BY <1>2, <1>3, <1>4
<1>6. channel' \in [PaneId -> Lists] BY <1>2, <1>3, <1>4 DEF Lists
<1>7. ~enabled' => \A q \in PaneId : channel'[q] \in {NoChannel, <<>>}
  BY <1>5 DEF Typed, DisabledIsEmpty, RegisterAndAdopt
<1>8. offers' \in [Conn -> SUBSET PaneId] /\ overtaken' \subseteq PaneId
  BY DEF RegisterAndAdopt, Typed, PushTypeOK
<1>. QED BY <1>6, <1>7, <1>8, ListsTyped
     DEF RegisterAndAdopt, Typed, PushTypeOK, hookVars, spawnVars

LEMMA ForgetTyped ==
  ASSUME Typed, NEW P, ForgetChannels(P),
         UNCHANGED <<hookVars, enabled>>,
         spawning' \subseteq SpawnId, ptys' \subseteq SpawnId,
         announcing' \subseteq PaneId \X BOOLEAN,
         offers' \in [Conn -> SUBSET PaneId], overtaken' \subseteq PaneId
  PROVE  Typed'
<1>1. channel \in [PaneId -> Lists] BY WaiterLists DEF Typed
<1>2. channel' \in [PaneId -> Lists] BY <1>1 DEF ForgetChannels, Lists
<1>3. ~enabled' => \A p \in PaneId : channel'[p] \in {NoChannel, <<>>}
  BY DEF ForgetChannels, Typed, DisabledIsEmpty
<1>4. enabled' \in BOOLEAN BY DEF Typed, PushTypeOK
<1>. QED BY <1>2, <1>3, <1>4, ListsTyped DEF ForgetChannels

LEMMA ArmTyped ==
  ASSUME IInv, Typed, NEW h \in Hook, NEW s \in SpawnId, Arm(h, s)
  PROVE  Typed'
<1>. DEFINE p == ResolveAlias(s)
<1>1. p \in PaneId
  BY PushAssumption DEF ResolveAlias, IInv, TypeOK, Alias
<1>. HIDE DEF p
<1>2. /\ stage[h] = "absent" /\ s \in ptys /\ enabled
      /\ stage' = [stage EXCEPT ![h] = "parked"]
      /\ parkedAs' = [parkedAs EXCEPT ![h] = p]
      /\ up' = up \cup {h}
      /\ answer' = Released(Waiters(p))
      /\ pending' = pending \cup {h}
      /\ channel' = [channel EXCEPT ![p] = <<h>>]
      /\ Tell(p, TRUE)
      /\ UNCHANGED <<vars, reply, enabled, spawnVars, announcing>>
  BY DEF Arm, p
<1>3. /\ answer' \in [Hook -> {"open", "empty", "text"}]
      /\ \A g \in Hook \ pending : answer'[g] = answer[g]
  BY <1>2, ReleasedKeeps DEF Typed
<1>4. offers' \in [Conn -> SUBSET PaneId] /\ overtaken' \subseteq PaneId
  BY <1>1, <1>2, Telling DEF Typed
<1>5. PushTypeOK'
  BY <1>1, <1>2, <1>3, <1>4 DEF Typed, PushTypeOK, spawnVars
<1>6. RequestInv'
  BY <1>2, <1>3 DEF Typed, PushTypeOK, RequestInv
<1>7. DisabledIsEmpty' BY <1>2 DEF DisabledIsEmpty
<1>. QED BY <1>5, <1>6, <1>7 DEF Typed

\* The newest of at most one waiter is that waiter, and it takes the message.
LEMMA PushTakes ==
  ASSUME Typed, NEW c, NEW p \in PaneId, Push(c, p)
  PROVE  /\ channel' = [channel EXCEPT ![p] = <<>>]
         /\ answer' = answer
            \/ \E h \in Hook : /\ Resolvable(h) /\ channel[p] = <<h>>
                               /\ answer' = [answer EXCEPT ![h] = "text"]
<1>. DEFINE parked == {i \in 1..Len(channel[p]) : Resolvable(channel[p][i])}
            newest == CHOOSE i \in parked : \A j \in parked : j <= i
<1>1. PICK h \in Hook : channel[p] = <<h>>
  BY WaiterLists DEF Push, IsReady, Wired, Typed, Lists
<1>2. parked = IF Resolvable(h) THEN {1} ELSE {} BY <1>1
<1>3. CASE Resolvable(h)
  <2>1. parked = {1} BY <1>2, <1>3
  <2>2. newest = 1 BY <2>1
  <2>3. /\ answer' = [answer EXCEPT ![channel[p][newest]] = "text"]
        /\ channel' = [channel EXCEPT ![p] = SubSeq(@, 1, newest - 1)]
    BY <2>1 DEF Push
  <2>. HIDE DEF parked, newest
  <2>4. channel[p][newest] = h BY <1>1, <2>2
  <2>5. SubSeq(channel[p], 1, newest - 1) = <<>> BY <1>1, <2>2
  <2>. QED BY <1>1, <1>3, <2>3, <2>4, <2>5
<1>4. CASE ~Resolvable(h) BY <1>2, <1>4 DEF Push
<1>. QED BY <1>3, <1>4

LEMMA PushTyped ==
  ASSUME Typed, NEW c \in Conn, NEW p \in PaneId, Push(c, p)
  PROVE  Typed'
<1>1. UNCHANGED <<vars, pending, hookVars, enabled, spawnVars, windowVars>> BY DEF Push
<1>2. channel' \in [PaneId -> Lists] /\ \A q \in PaneId : channel'[q] \in {channel[q], <<>>}
  BY PushTakes, WaiterLists DEF Typed, Lists
<1>3. /\ answer' \in [Hook -> {"open", "empty", "text"}]
      /\ \A h \in Hook \ pending : answer'[h] = answer[h]
  BY PushTakes DEF Typed, PushTypeOK, Resolvable
<1>4. PushTypeOK'
  BY <1>1, <1>2, <1>3 DEF Typed, PushTypeOK, Lists, hookVars, spawnVars, windowVars
<1>5. RequestInv' BY <1>1, <1>3 DEF Typed, RequestInv, hookVars
<1>6. DisabledIsEmpty' BY <1>1, <1>2 DEF Typed, DisabledIsEmpty
<1>. QED BY <1>4, <1>5, <1>6 DEF Typed

LEMMA SwitchTyped ==
  ASSUME Typed, Switch
  PROVE  Typed'
<1>1. channel' \in [PaneId -> Lists] /\ (~enabled' => \A p \in PaneId : channel'[p] \in {NoChannel, <<>>})
  BY WaiterLists DEF Typed, Switch, Lists, Wired
<1>2. announcing' \subseteq PaneId \X BOOLEAN
  <2>1. \A p \in PaneId : IsReady(p)' \in BOOLEAN BY DEF IsReady, Wired
  <2>2. \A p \in PaneId : <<p, IsReady(p)'>> \in PaneId \X BOOLEAN BY <2>1, Zenon
  <2>3. announcing' = announcing \cup {<<p, IsReady(p)'>> : p \in {q \in PaneId : Wired(q)}}
    BY Zenon DEF Switch
  <2>4. ASSUME NEW x \in announcing' PROVE x \in PaneId \X BOOLEAN
    <3>1. announcing \subseteq PaneId \X BOOLEAN BY DEF Typed, PushTypeOK
    <3>. QED BY <2>2, <2>3, <3>1, Zenon
  <2>. QED BY <2>4
<1>3. answer' = answer \/ answer' = Released(UNION {Waiters(p) : p \in PaneId})
  BY DEF Switch
<1>4. enabled' \in BOOLEAN BY DEF Switch
<1>. QED BY <1>1, <1>2, <1>3, <1>4, ListsTyped
     DEF Switch, Typed, PushTypeOK, hookVars, spawnVars

LEMMA HandlerTyped ==
  ASSUME Typed, NEW h \in Hook,
         HangUp(h) \/ WaitRunsOut(h) \/ NoticeGone(h) \/ WaitEnds(h) \/ GiveUp(h) \/ Respond(h)
  PROVE  Typed'
<1>1. CASE HangUp(h)
  BY <1>1 DEF HangUp, Typed, PushTypeOK, RequestInv, DisabledIsEmpty, channelVars,
              spawnVars, windowVars
<1>2. CASE WaitRunsOut(h)
  BY <1>2 DEF WaitRunsOut, Typed, PushTypeOK, RequestInv, DisabledIsEmpty, channelVars,
              spawnVars, windowVars
<1>3. CASE NoticeGone(h)
  BY <1>3 DEF NoticeGone, Typed, PushTypeOK, RequestInv, DisabledIsEmpty, channelVars,
              spawnVars, windowVars
<1>4. CASE WaitEnds(h)
  <2>. DEFINE a == IF stage[h] = "expired" THEN "timeout" ELSE answer[h]
  <2>1. a \in {"empty", "text", "timeout", "gone"} /\ (a = "timeout" \/ a = answer[h])
    BY <1>4 DEF WaitEnds, Typed, PushTypeOK
  <2>2. reply' = [reply EXCEPT ![h] = a] BY <1>4 DEF WaitEnds
  <2>. HIDE DEF a
  <2>. QED BY <1>4, <2>1, <2>2, EndingTyped DEF WaitEnds
<1>5. CASE GiveUp(h)
  <2>1. h \notin up BY <1>5 DEF GiveUp, Typed, RequestInv
  <2>. QED BY <1>5, <2>1, EndingTyped DEF GiveUp
<1>6. CASE Respond(h)
  <2>1. /\ stage[h] = "ending"
        /\ stage' = [stage EXCEPT ![h] = "over"]
        /\ parkedAs' = [parkedAs EXCEPT ![h] = NoFormer]
        /\ reply' = [reply EXCEPT ![h] = "none"]
        /\ answer' = [answer EXCEPT ![h] = "open"]
        /\ up' = up \ {h}
        /\ UNCHANGED <<vars, channel, pending, enabled, spawnVars, announcing>>
    BY <1>6 DEF Respond
  <2>2. offers' \in [Conn -> SUBSET PaneId] /\ overtaken' \subseteq PaneId
    BY <1>6 DEF Respond, Tell, Typed, PushTypeOK
  <2>3. PushTypeOK' BY <2>1, <2>2 DEF Typed, PushTypeOK, spawnVars
  <2>4. RequestInv' BY <2>1 DEF Typed, PushTypeOK, RequestInv
  <2>. QED BY <2>1, <2>3, <2>4 DEF Typed, DisabledIsEmpty
<1>. QED BY <1>1, <1>2, <1>3, <1>4, <1>5, <1>6
LEMMA TypedNext ==
  ASSUME IInv, Typed, [PushNext]_allVars
  PROVE  Typed'
<1>1. ASSUME NEW c \in Conn, NEW r \in BOOLEAN, WindowConnects(c) \/ WindowDrops(c, r)
      PROVE  Typed'
  BY <1>1, WindowsTyped
  DEF WindowConnects, WindowDrops, pushVars, channelVars, hookVars, spawnVars, windowVars,
      Typed, PushTypeOK
<1>2. ASSUME NEW c \in Conn, NEW p \in PaneId, WindowUnregisters(c, p) PROVE Typed'
  BY <1>2, ForgetTyped DEF WindowUnregisters, Typed, PushTypeOK, spawnVars
<1>3. ASSUME RegistryMoves PROVE Typed'
  BY <1>3, WindowsTyped
  DEF RegistryMoves, pushVars, windowVars, Typed, PushTypeOK
<1>4. ASSUME NEW p \in SpawnId, WireSpawn(p) PROVE Typed'
  <2>1. channel' \in [PaneId -> Lists] BY <1>4, WaiterLists DEF WireSpawn, Typed, Lists
  <2>2. enabled' /\ enabled' \in BOOLEAN BY <1>4 DEF WireSpawn, Typed, PushTypeOK
  <2>. QED BY <1>4, <2>1, <2>2, ListsTyped DEF WireSpawn, Typed, PushTypeOK, windowVars
<1>5. ASSUME NEW p \in SpawnId, SpawnDone(p) PROVE Typed'
  <2>1. p \in PaneId BY PushAssumption
  <2>2. offers' \in [Conn -> SUBSET PaneId] /\ overtaken' \subseteq PaneId
    BY <1>5, <2>1, Telling DEF SpawnDone, Typed
  <2>3. channel' \in [PaneId -> Lists] /\ channel' = channel
    BY <1>5, WaiterLists DEF SpawnDone, Typed, channelVars
  <2>4. spawning' \subseteq SpawnId /\ ptys' \subseteq SpawnId /\ enabled' \in BOOLEAN
        /\ announcing' \subseteq PaneId \X BOOLEAN
    BY <1>5 DEF SpawnDone, Typed, PushTypeOK
  <2>5. ~enabled' => \A q \in PaneId : channel'[q] \in {NoChannel, <<>>}
    BY <1>5, <2>3 DEF SpawnDone, Typed, DisabledIsEmpty
  <2>. QED BY <1>5, <2>2, <2>3, <2>4, <2>5, ListsTyped DEF SpawnDone, channelVars
<1>6. ASSUME NEW p \in SpawnId, SpawnFails(p) PROVE Typed'
  BY <1>6, ForgetTyped DEF SpawnFails, Typed, PushTypeOK, windowVars
<1>7. ASSUME NEW p \in PaneId, NEW ready \in BOOLEAN, Announce(p, ready) PROVE Typed'
  BY <1>7, WindowsTyped DEF Announce, Typed, PushTypeOK
<1>8. CASE UNCHANGED allVars
  BY <1>8, WindowsTyped DEF allVars, pushVars, windowVars, Typed, PushTypeOK
<1>. QED BY <1>1, <1>2, <1>3, <1>4, <1>5, <1>6, <1>7, <1>8, RegisterTyped, ArmTyped,
            PushTyped, SwitchTyped, HandlerTyped DEF PushNext

-----------------------------------------------------------------------------
(* What the windows believe.                                               *)

Offered(p) ==
    IsReady(p) /\ owners[p] # NoConn /\ p \notin overtaken => p \in offers[owners[p]]

\* A channel that was offered, and of which no window was told otherwise.
LEMMA StaysOffered ==
  ASSUME NEW p \in PaneId, Offered(p),
         IsReady(p)' => IsReady(p), owners'[p] \in {owners[p], NoConn},
         p \in overtaken => p \in overtaken',
         p \in offers[owners[p]] => p \in offers'[owners[p]]
  PROVE  Offered(p)'
BY DEF Offered

\* The owner of a pane is a window that is up, so it hears of every channel.
LEMMA ToldIsOffered ==
  ASSUME IInv, Typed, NEW q \in PaneId, Tell(q, TRUE), UNCHANGED vars,
         \A p \in PaneId : Offered(p),
         \A p \in PaneId \ {q} : IsReady(p)' => IsReady(p)
  PROVE  \A p \in PaneId : Offered(p)'
<1>1. ASSUME NEW p \in PaneId PROVE owners[p] \in Conn \cup {NoConn}
                                   /\ (owners[p] # NoConn => owners[p] \in live)
  BY DEF IInv, TypeOK, OwnerIffOnline
<1>2. owners' = owners BY DEF vars
<1>3. q \in offers'[owners[q]] \/ owners[q] = NoConn BY <1>1, Telling DEF Typed
<1>4. ASSUME NEW p \in PaneId \ {q} PROVE Offered(p)'
  <2>1. owners[p] = NoConn \/ (p \in offers'[owners[p]] <=> p \in offers[owners[p]])
    BY <1>1, Telling DEF Typed
  <2>2. p \in overtaken' <=> p \in overtaken BY Telling DEF Typed
  <2>3. IsReady(p)' => IsReady(p) OBVIOUS
  <2>. QED BY <1>2, <2>1, <2>2, <2>3 DEF Offered
<1>. QED BY <1>2, <1>3, <1>4 DEF Offered

LEMMA OfferedNext ==
  ASSUME IInv, Typed, \A p \in PaneId : Offered(p), [PushNext]_allVars
  PROVE  \A p \in PaneId : Offered(p)'
<1>. DEFINE Next1 == \A p \in PaneId : Offered(p)'
<1>0. /\ owners \in [PaneId -> Conn \cup {NoConn}]
      /\ offers \in [Conn -> SUBSET PaneId] /\ NoConn \notin Conn
      /\ channel \in [PaneId -> Lists]
  BY RegistryAssumption, WaiterLists DEF IInv, TypeOK, Typed, PushTypeOK
<1>1. ASSUME NEW c \in Conn, WindowConnects(c) PROVE Next1
  BY <1>1, StaysOffered
  DEF WindowConnects, Connect, regVars, pushVars, channelVars, windowVars, IsReady, Wired
<1>2. ASSUME NEW c \in Conn, NEW r \in BOOLEAN, WindowDrops(c, r) PROVE Next1
  <2>1. UNCHANGED <<channel, enabled, overtaken>>
    BY <1>2 DEF WindowDrops, channelVars
  <2>2. \A p \in PaneId : owners'[p] = IF owners[p] = c THEN NoConn ELSE owners[p]
    BY <1>2 DEF WindowDrops, Disconnect
  <2>3. \A b \in Conn \ {c} : offers'[b] = offers[b] BY <1>0, <1>2 DEF WindowDrops
  <2>. QED BY <1>0, <2>1, <2>2, <2>3 DEF Offered, IsReady, Wired
<1>3. ASSUME NEW c \in Conn, NEW p \in PaneId, RegisterAndAdopt(c, p) PROVE Next1
  <2>. DEFINE f == FormerId[p]
  <2>1. /\ owners' = [owners EXCEPT ![p] = c]
        /\ channel' = IF Adopts(p, f) THEN [channel EXCEPT ![p] = channel[f], ![f] = NoChannel]
                      ELSE channel
        /\ enabled' = enabled
        /\ offers' = IF IsReady(p)' THEN [offers EXCEPT ![c] = @ \cup {p}] ELSE offers
        /\ overtaken' = IF IsReady(p)' THEN overtaken \ {p} ELSE overtaken
    BY <1>3 DEF RegisterAndAdopt, Register, RegisterPane
  <2>2. Offered(p)' BY <1>0, <2>1 DEF Offered
  <2>3. ASSUME NEW q \in PaneId \ {p} PROVE Offered(q)'
    <3>. HIDE DEF f
    <3>1. channel'[q] = channel[q] \/ channel'[q] = NoChannel BY <1>0, <2>1
    <3>2. IsReady(q)' => IsReady(q) BY <2>1, <3>1 DEF IsReady, Wired
    <3>3. owners'[q] = owners[q] BY <1>0, <2>1
    <3>4. \A b \in Conn : q \in offers[b] => q \in offers'[b] BY <1>0, <2>1
    <3>5. q \in overtaken => q \in overtaken' BY <2>1
    <3>6. Offered(q) OBVIOUS
    <3>. QED BY <1>0, <3>2, <3>3, <3>4, <3>5, <3>6 DEF Offered
  <2>. QED BY <2>2, <2>3
<1>4. ASSUME NEW c \in Conn, NEW p \in PaneId, WindowUnregisters(c, p) PROVE Next1
  <2>1. /\ owners' = [owners EXCEPT ![p] = NoConn] /\ offers' = [offers EXCEPT ![c] = @ \ {p}]
        /\ channel' = [q \in PaneId |-> IF q \in {p} THEN NoChannel ELSE channel[q]]
        /\ UNCHANGED <<enabled, overtaken>>
    BY <1>4 DEF WindowUnregisters, Unregister, RemovePane, ForgetChannels
  <2>2. ASSUME NEW q \in PaneId \ {p} PROVE Offered(q)'
    <3>1. /\ channel'[q] = channel[q] /\ owners'[q] = owners[q]
          /\ \A b \in Conn : q \in offers[b] => q \in offers'[b]
      BY <1>0, <2>1
    <3>2. Offered(q) OBVIOUS
    <3>. QED BY <1>0, <2>1, <3>1, <3>2 DEF Offered, IsReady, Wired
  <2>. QED BY <1>0, <2>1, <2>2 DEF Offered
<1>5. ASSUME NEW c \in Conn, NEW p \in PaneId, Push(c, p) PROVE Next1
  <2>1. \A q \in PaneId : channel'[q] \in {channel[q], <<>>}
    BY <1>0, <1>5, PushTakes
  <2>. QED BY <1>5, <2>1, StaysOffered DEF Push, IsReady, Wired, vars, windowVars
<1>6. ASSUME RegistryMoves PROVE Next1
  <2>1. \A q \in PaneId : owners'[q] \in {owners[q], NoConn}
    BY <1>6 DEF RegistryMoves, PurgeExpired, Tick
  <2>. QED BY <1>6, <2>1, StaysOffered
       DEF RegistryMoves, pushVars, channelVars, windowVars, IsReady, Wired
<1>7. ASSUME NEW p \in SpawnId, WireSpawn(p) PROVE Next1
  <2>1. \A q \in PaneId : channel'[q] \in {channel[q], <<>>} BY <1>0, <1>7 DEF WireSpawn
  <2>. QED BY <1>7, <2>1, StaysOffered DEF WireSpawn, IsReady, Wired, vars, windowVars
<1>8. ASSUME NEW p \in SpawnId, SpawnDone(p) PROVE Next1
  <2>1. p \in PaneId BY PushAssumption
  <2>. QED BY <1>8, <2>1, ToldIsOffered DEF SpawnDone, channelVars, IsReady, Wired
<1>9. ASSUME NEW p \in SpawnId, SpawnFails(p) PROVE Next1
  <2>1. \A q \in PaneId : channel'[q] \in {channel[q], NoChannel}
    BY <1>9 DEF SpawnFails, ForgetChannels
  <2>. QED BY <1>9, <2>1, StaysOffered DEF SpawnFails, IsReady, Wired, vars, windowVars
<1>10. ASSUME NEW h \in Hook, NEW s \in SpawnId, Arm(h, s) PROVE Next1
  <2>1. ResolveAlias(s) \in PaneId
    BY PushAssumption DEF ResolveAlias, IInv, TypeOK, Alias
  <2>2. /\ channel' = [channel EXCEPT ![ResolveAlias(s)] = <<h>>]
        /\ Tell(ResolveAlias(s), TRUE) /\ UNCHANGED <<vars, enabled>>
    BY <1>10 DEF Arm
  <2>3. \A q \in PaneId \ {ResolveAlias(s)} : IsReady(q)' => IsReady(q)
    BY <1>0, <2>2 DEF IsReady, Wired
  <2>. QED BY <2>1, <2>2, <2>3, ToldIsOffered
<1>11. ASSUME NEW h \in Hook,
              HangUp(h) \/ WaitRunsOut(h) \/ NoticeGone(h) \/ WaitEnds(h) \/ GiveUp(h)
       PROVE  Next1
  <2>1. \A q \in PaneId : channel'[q] \in {channel[q], <<>>}
    BY <1>11, UnlistedKeeps
    DEF HangUp, WaitRunsOut, NoticeGone, WaitEnds, GiveUp, channelVars, Typed
  <2>2. UNCHANGED <<owners, enabled, offers, overtaken>>
    BY <1>11 DEF HangUp, WaitRunsOut, NoticeGone, WaitEnds, GiveUp, vars, windowVars
  <2>. QED BY <2>1, <2>2, StaysOffered DEF IsReady, Wired
<1>12. ASSUME NEW h \in Hook, Respond(h) PROVE Next1
  <2>1. UNCHANGED <<owners, channel, enabled>> BY <1>12 DEF Respond, vars
  <2>2. CASE IsReady(parkedAs[h])
    <3>1. UNCHANGED <<offers, overtaken>> BY <1>12, <2>2 DEF Respond
    <3>. QED BY <2>1, <3>1, StaysOffered DEF IsReady, Wired
  <2>3. CASE ~IsReady(parkedAs[h])
    <3>. DEFINE r == parkedAs[h]
    <3>1. Tell(r, FALSE) BY <1>12, <2>3 DEF Respond
    <3>2. \A b \in Conn, q \in PaneId : q # r /\ q \in offers[b] => q \in offers'[b]
      BY <1>0, <3>1 DEF Tell
    <3>3. overtaken' = overtaken BY <3>1 DEF Tell
    <3>4. ~IsReady(r) BY <2>3
    <3>. HIDE DEF r
    <3>5. ASSUME NEW q \in PaneId PROVE Offered(q)'
      <4>1. IsReady(q)' <=> IsReady(q) BY <2>1 DEF IsReady, Wired
      <4>2. Offered(q) OBVIOUS
      <4>. QED BY <1>0, <2>1, <3>2, <3>3, <3>4, <4>1, <4>2 DEF Offered
    <3>. QED BY <3>5
  <2>. QED BY <2>2, <2>3
<1>13. ASSUME Switch PROVE Next1
  <2>1. \A q \in PaneId : IsReady(q)' => IsReady(q)
    BY <1>13 DEF Switch, IsReady, Wired, Typed, DisabledIsEmpty
  <2>2. UNCHANGED <<owners, offers, overtaken>> BY <1>13 DEF Switch, vars
  <2>. QED BY <2>1, <2>2, StaysOffered
<1>14. ASSUME NEW p \in PaneId, NEW ready \in BOOLEAN, Announce(p, ready) PROVE Next1
  <2>1. UNCHANGED <<owners, channel, enabled>> BY <1>14 DEF Announce, vars, channelVars
  <2>2. \A q \in PaneId : owners[q] # NoConn => owners[q] \in live /\ owners[q] \in Conn
    BY <1>0 DEF IInv, OwnerIffOnline
  <2>3. overtaken' = IF ready # IsReady(p) THEN overtaken \cup {p} ELSE overtaken
    BY <1>14 DEF Announce
  <2>4. \A b \in Conn, q \in PaneId : q # p => (q \in offers'[b] <=> q \in offers[b])
    BY <1>0, <1>14 DEF Announce
  <2>5. ready => \A b \in Conn \cap live : p \in offers'[b]
    BY <1>0, <1>14 DEF Announce
  <2>6. ASSUME NEW q \in PaneId PROVE Offered(q)'
    <3>1. IsReady(q)' <=> IsReady(q) BY <2>1 DEF IsReady, Wired
    <3>2. Offered(q) OBVIOUS
    <3>3. CASE q # p
      BY <2>1, <2>2, <2>3, <2>4, <3>1, <3>2, <3>3 DEF Offered
    <3>4. CASE q = p
      <4>1. IsReady(p) /\ ~ready => p \in overtaken' BY <2>3
      <4>. QED BY <2>1, <2>2, <2>5, <3>1, <3>4, <4>1 DEF Offered
    <3>. QED BY <3>3, <3>4
  <2>. QED BY <2>6
<1>15. CASE UNCHANGED allVars
  BY <1>15, StaysOffered
  DEF allVars, vars, pushVars, channelVars, windowVars, IsReady, Wired
<1>. QED BY <1>1, <1>2, <1>3, <1>4, <1>5, <1>6, <1>7, <1>8, <1>9, <1>10, <1>11, <1>12,
            <1>13, <1>14, <1>15 DEF PushNext
-----------------------------------------------------------------------------
LEMMA PushInvInit == PushInit => PushInv
<1>. SUFFICES ASSUME PushInit PROVE PushInv OBVIOUS
<1>1. IInv BY InitInv DEF PushInit
<1>2. PushTypeOK BY DEF PushInit, PushTypeOK
<1>3. RequestInv /\ DisabledIsEmpty BY DEF PushInit, RequestInv, DisabledIsEmpty
<1>4. ReadyIsOffered BY DEF PushInit, ReadyIsOffered, IsReady, Wired
<1>. QED BY <1>1, <1>2, <1>3, <1>4 DEF PushInv

LEMMA PushInvNext == PushInv /\ [PushNext]_allVars => PushInv'
<1>. SUFFICES ASSUME PushInv, [PushNext]_allVars PROVE PushInv' OBVIOUS
<1>1. IInv'
  <2>1. [Next]_vars BY RegistryStep DEF allVars
  <2>. QED BY <2>1, NextInv DEF PushInv
<1>2. Typed' BY TypedNext DEF PushInv, Typed
<1>3. \A p \in PaneId : Offered(p)'
  <2>1. \A p \in PaneId : Offered(p) BY DEF PushInv, ReadyIsOffered, Offered
  <2>. QED BY <2>1, OfferedNext DEF PushInv, Typed
<1>4. ReadyIsOffered' BY <1>3 DEF ReadyIsOffered, Offered
<1>. QED BY <1>1, <1>2, <1>4 DEF PushInv, Typed

LEMMA PushInvariance == PushSpec => []PushInv
BY PushInvInit, PushInvNext, PTL DEF PushSpec

-----------------------------------------------------------------------------
\* The channels and the requests stay well typed, and arm_hook never leaves two
\* waiters listed, however channels are adopted, moved and switched off.
THEOREM PushTypeCorrect == PushSpec => []PushTypeOK
<1>1. PushInv => PushTypeOK BY DEF PushInv
<1>. QED BY <1>1, PushInvariance, PTL

\* What deliver reported as pushed is what wait_for_hook hands to the hook, but
\* for one that hung up or whose wait ran out in that moment: closing, moving or
\* switching off the channel afterwards takes nothing back.
THEOREM LandedReaches == PushSpec => []LandedIsReturned
<1>1. PushInv => LandedIsReturned
  BY DEF PushInv, RequestInv, LandedIsReturned
<1>. QED BY <1>1, PushInvariance, PTL

\* The windows offer every ready channel of the panes they mirror, whatever
\* order reloads, spawns, hooks and switches come in.
THEOREM ReadyChannelsOffered == PushSpec => []ReadyIsOffered
<1>1. PushInv => ReadyIsOffered BY DEF PushInv
<1>. QED BY <1>1, PushInvariance, PTL

\* A request that has ended takes no message any more, although an adopted
\* channel may go on listing it: discard and the finally of wait took it out of
\* PendingRegistry.
THEOREM EndedTakeNothing == PushSpec => EndedTakesNothing
<1>. DEFINE Quiet == \A h \in Hook :
          stage[h] \in {"ending", "over"} /\ stage'[h] = stage[h] =>
              answer'[h] = answer[h]
<1>1. PushInv /\ [PushNext]_allVars => [Quiet]_allVars
  <2>. SUFFICES ASSUME PushInv, PushNext, NEW h \in Hook,
                       stage[h] \in {"ending", "over"}, stage'[h] = stage[h]
                PROVE  answer'[h] = answer[h]
    BY DEF allVars
  <2>1. PushTypeOK /\ h \notin pending BY DEF PushInv, RequestInv
  <2>2. ASSUME NEW H, answer' = Released(H) PROVE answer'[h] = answer[h]
    BY <2>1, <2>2, ReleasedKeeps
  <2>3. ASSUME NEW c \in Conn, NEW p \in PaneId, Push(c, p) PROVE answer'[h] = answer[h]
    BY <2>1, <2>3, PushTakes DEF PushInv, Typed, PushTypeOK, Resolvable
  <2>4. ASSUME NEW g \in Hook, Respond(g) PROVE answer'[h] = answer[h]
    BY <2>1, <2>4 DEF Respond, PushTypeOK
  <2>5. ASSUME \/ \E c \in Conn, p \in PaneId : WindowUnregisters(c, p)
               \/ \E p \in SpawnId : SpawnFails(p)
               \/ \E g \in Hook, s \in SpawnId : Arm(g, s)
               \/ Switch
        PROVE  answer'[h] = answer[h]
    BY <2>2, <2>5 DEF WindowUnregisters, SpawnFails, ForgetChannels, Arm, Switch
  <2>. QED BY <2>3, <2>4, <2>5
       DEF PushNext, WindowConnects, WindowDrops, RegisterAndAdopt, RegistryMoves,
           WireSpawn, SpawnDone, HangUp, WaitRunsOut, NoticeGone, WaitEnds, GiveUp,
           Announce, pushVars, channelVars
<1>. QED BY <1>1, PushInvariance, PTL DEF PushSpec, EndedTakesNothing

\* adopt only ever takes the channel of a former id nobody holds any more.
THEOREM HeldChannelsStay == PushSpec => HeldChannelStays
<1>. DEFINE Kept == \A p \in PaneId :
          Wired(p) /\ owners[p] # NoConn /\ owners'[p] = owners[p] => channel'[p] # NoChannel
                                                                 \/ SpawnFails(p)
<1>1. PushInv /\ [PushNext]_allVars => [Kept]_allVars
  <2>. SUFFICES ASSUME PushInv, PushNext, NEW p \in PaneId, Wired(p), owners[p] # NoConn,
                       owners'[p] = owners[p], channel'[p] = NoChannel
                PROVE  SpawnFails(p)
    BY DEF allVars
  <2>. USE DEF Wired
  <2>1. /\ channel \in [PaneId -> Lists] /\ <<>> # NoChannel /\ Typed
        /\ panes[p] # NoPane /\ panes[p].age = Online
    BY WaiterLists, NoChannelIsNoList
    DEF PushInv, Typed, IInv, OwnerIffOnline, Registered, Offline
  <2>2. ASSUME NEW c \in Conn, NEW q \in PaneId, RegisterAndAdopt(c, q) PROVE FALSE
    <3>. DEFINE f == FormerId[q]
    <3>1. Adopts(q, f) /\ channel' = [channel EXCEPT ![q] = channel[f], ![f] = NoChannel]
      BY <2>2 DEF RegisterAndAdopt
    <3>2. f \in PaneId BY <3>1, PushAssumption DEF Adopts, AliasAccepted
    <3>3. channel[f] # NoChannel BY <3>1 DEF Adopts
    <3>4. f = p BY <2>1, <3>1, <3>2, <3>3
    <3>. QED BY <2>1, <3>1, <3>4 DEF Adopts, IsVacated, Registered
  <2>3. ASSUME NEW c \in Conn, NEW q \in PaneId, WindowUnregisters(c, q) PROVE FALSE
    <3>1. q = p BY <2>3 DEF WindowUnregisters, ForgetChannels
    <3>2. owners'[p] = NoConn
      BY <2>3, <3>1 DEF WindowUnregisters, Unregister, RemovePane, PushInv, IInv, TypeOK
    <3>. QED BY <3>2
  <2>4. ASSUME NEW c \in Conn, NEW q \in PaneId, Push(c, q) PROVE FALSE
    BY <2>1, <2>4, PushTakes
  <2>5. ASSUME NEW q \in SpawnId, WireSpawn(q) PROVE FALSE
    BY <2>1, <2>5 DEF WireSpawn
  <2>6. ASSUME NEW q \in SpawnId, SpawnFails(q) PROVE SpawnFails(p)
    <3>1. q = p BY <2>6 DEF SpawnFails, ForgetChannels
    <3>. QED BY <2>6, <3>1
  <2>7. ASSUME NEW h \in Hook, NEW s \in SpawnId, Arm(h, s) PROVE FALSE
    BY <2>1, <2>7, NoChannelIsNoList DEF Arm
  <2>8. ASSUME NEW h \in Hook, WaitEnds(h) \/ GiveUp(h) PROVE FALSE
    BY <2>1, <2>8, UnlistedKeeps DEF WaitEnds, GiveUp, Typed
  <2>9. ASSUME Switch PROVE FALSE BY <2>1, <2>9 DEF Switch
  <2>. QED BY <2>2, <2>3, <2>4, <2>5, <2>6, <2>7, <2>8, <2>9
       DEF PushNext, WindowConnects, WindowDrops, RegistryMoves, SpawnDone, HangUp,
           WaitRunsOut, NoticeGone, Respond, Announce, pushVars, channelVars
<1>. QED BY <1>1, PushInvariance, PTL DEF PushSpec, HeldChannelStays
=============================================================================
