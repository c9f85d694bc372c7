---------------------------- MODULE PushDelivery ----------------------------
(***************************************************************************)
(* The rewake push channel of claude panes: push_delivery.py, the endpoint  *)
(* /hooks/claude/rewake of app.py, PendingRegistry, and the list of panes   *)
(* each window believes it can push to (pushReadyPanes of App.vue).         *)
(*                                                                          *)
(* A background hook of the CLI parks a request on the backend; a push      *)
(* answers it.  The channel is filed under a pane id, so the module runs    *)
(* together with the registry: a pane rebuilt around a running CLI adopts   *)
(* the channel of its former id while the hook still waits under the old    *)
(* one.  Docks have no push channel and are left out here.                  *)
(*                                                                          *)
(* A step is what runs between two awaits of the backend's event loop.  A   *)
(* broadcast is one step, but apply_switches sends one per pane.  Each Hook *)
(* is one request; a CLI parks a new one on every Stop.                     *)
(***************************************************************************)
EXTENDS PaneRegistry, SequencesExt

CONSTANTS
    Hook,       \* requests the hooks of the CLIs make
    SpawnId,    \* the pane ids CLIs are started under
    FormerId,   \* the id a pane object declares as its former one, or NoFormer
    NoChannel,
    Reconnects,     \* a socket may drop without its window reloading
    Switchable      \* the user flips the claude switch

ASSUME PushAssumption ==
    /\ SpawnId \subseteq PaneId
    /\ FormerId \in [PaneId -> PaneId \cup {NoFormer}]
    /\ {Reconnects, Switchable} \subseteq BOOLEAN
    /\ NoChannel \notin Seq(Hook)

VARIABLES
    channel,    \* _panes: the waiters of each pane's channel
    pending,    \* _waiters.pending
    answer,     \* the future of each request, while its handler runs
    stage,      \* how far the request's handler is
    parkedAs,   \* the pane id a handler resolved when it parked
    reply,      \* what the handler is about to answer, or why it answers nothing
    up,         \* the requests whose HTTP connection stands
    enabled,    \* claude is not in pushChannelsDisabled
    announcing, \* announcements apply_switches still has to send
    spawning,   \* panes whose terminal.create has wired a channel
    ptys,       \* pane ids a CLI was started under
    offers,     \* pushReadyPanes of the window behind each socket
    overtaken   \* history: panes whose latest announcement came too late

channelVars == <<channel, pending, answer>>
hookVars == <<stage, parkedAs, reply, up>>
spawnVars == <<spawning, ptys>>
windowVars == <<announcing, offers, overtaken>>
pushVars == <<channelVars, hookVars, enabled, spawnVars, windowVars>>
allVars == <<vars, pushVars>>

Wired(p) == channel[p] # NoChannel
Waiters(p) == IF Wired(p) THEN {channel[p][i] : i \in 1..Len(channel[p])} ELSE {}

\* is_ready
IsReady(p) == Wired(p) /\ enabled /\ channel[p] # <<>>

\* PendingRegistry.resolve answers True for these.
Resolvable(h) == h \in pending /\ answer[h] = "open"

\* resolve(h, "") for every h of H
Released(H) == [h \in Hook |-> IF h \in H /\ Resolvable(h) THEN "empty" ELSE answer[h]]

\* `if request_id in state.waiters: state.waiters.remove(request_id)'
Unlisted(p, h) ==
    IF Wired(p) THEN [channel EXCEPT ![p] = RemoveFirst(@, h)] ELSE channel

\* A push_state broadcast about pane p, as the connected windows take it in.
Tell(p, ready) ==
    /\ offers' = [c \in Conn |-> IF c \notin live THEN offers[c]
                                 ELSE IF ready THEN offers[c] \cup {p} ELSE offers[c] \ {p}]
    /\ overtaken' = IF ready THEN overtaken \ {p} ELSE overtaken

\* Mutant: any former id gives its channel up, also one a window mirrors.
AdoptsFromAnyone(p, f) == ~Wired(p) /\ AliasAccepted(panes, p, f) /\ Wired(f)

\* adopt, over the former id add_aliases has accepted.
Adopts(p, f) ==
    /\ ~Wired(p)
    /\ AliasAccepted(panes, p, f)
    /\ IsVacated(f)
    /\ Wired(f)

\* forget_pane, on the panes of P
ForgetChannels(P) ==
    /\ channel' = [p \in PaneId |-> IF p \in P THEN NoChannel ELSE channel[p]]
    /\ answer' = Released(UNION {Waiters(p) : p \in P})
    /\ UNCHANGED pending

PushInit ==
    /\ Init
    /\ channel = [p \in PaneId |-> NoChannel]
    /\ pending = {}
    /\ answer = [h \in Hook |-> "open"]
    /\ stage = [h \in Hook |-> "absent"]
    /\ parkedAs = [h \in Hook |-> NoFormer]
    /\ reply = [h \in Hook |-> "none"]
    /\ up = {}
    /\ enabled = TRUE
    /\ announcing = {}
    /\ spawning = {}
    /\ ptys = {}
    /\ offers = [c \in Conn |-> {}]
    /\ overtaken = {}

-----------------------------------------------------------------------------
(* Windows and panes                                                        *)

WindowConnects(c) == Connect(c) /\ UNCHANGED pushVars

\* A socket drops.  A window that reloads loses what it knew, one that merely
\* reconnects keeps it.
WindowDrops(c, reloads) ==
    /\ reloads \/ Reconnects
    /\ Disconnect(c)
    /\ offers' = IF reloads THEN [offers EXCEPT ![c] = {}] ELSE offers
    /\ UNCHANGED <<channelVars, hookVars, enabled, spawnVars, announcing, overtaken>>

\* agent_msg.register: adopt, then tell the registering window of a channel.
RegisterAndAdopt(c, p) ==
    LET f == FormerId[p] IN
    /\ Register(c, p, f)
    /\ channel' = IF Adopts(p, f) THEN [channel EXCEPT ![p] = channel[f], ![f] = NoChannel]
                  ELSE channel
    /\ UNCHANGED <<pending, answer, hookVars, enabled, spawnVars, announcing>>
    /\ offers' = IF IsReady(p)' THEN [offers EXCEPT ![c] = @ \cup {p}] ELSE offers
    /\ overtaken' = IF IsReady(p)' THEN overtaken \ {p} ELSE overtaken

\* unregisterPaneMessaging and agent_msg.unregister.
WindowUnregisters(c, p) ==
    /\ Unregister(c, p)
    /\ offers' = [offers EXCEPT ![c] = @ \ {p}]
    /\ ForgetChannels({p})
    /\ UNCHANGED <<hookVars, enabled, spawnVars, announcing, overtaken>>

\* purge_expired and the clock leave the channels of a swept pane alone.
RegistryMoves == (PurgeExpired \/ Tick) /\ UNCHANGED pushVars

-----------------------------------------------------------------------------
(* Spawning                                                                 *)

\* terminal.create: wire_spawn files a fresh channel, whatever was there.
WireSpawn(p) ==
    /\ p \notin ptys
    /\ enabled
    /\ channel' = [channel EXCEPT ![p] = <<>>]
    /\ spawning' = spawning \cup {p}
    /\ ptys' = ptys \cup {p}
    /\ UNCHANGED <<vars, pending, answer, hookVars, enabled, windowVars>>

\* The CLI runs, and the channel wired for it is announced.
SpawnDone(p) ==
    /\ p \in spawning
    /\ spawning' = spawning \ {p}
    /\ Tell(p, TRUE)
    /\ UNCHANGED <<vars, channelVars, hookVars, enabled, ptys, announcing>>

\* _rollback_terminal_create
SpawnFails(p) ==
    /\ p \in spawning
    /\ spawning' = spawning \ {p}
    /\ ptys' = ptys \ {p}
    /\ ForgetChannels({p})
    /\ UNCHANGED <<vars, hookVars, enabled, windowVars>>

-----------------------------------------------------------------------------
(* The hook's request                                                       *)

\* Mutant: arm_hook keeps the waiters that were parked before.
ArmBeside(h, s) ==
    LET p == ResolveAlias(s) IN
    /\ stage[h] = "absent" /\ s \in ptys /\ enabled
    /\ stage' = [stage EXCEPT ![h] = "parked"]
    /\ parkedAs' = [parkedAs EXCEPT ![h] = p]
    /\ up' = up \cup {h}
    /\ pending' = pending \cup {h}
    /\ channel' = [channel EXCEPT ![p] = IF Wired(p) THEN Append(@, h) ELSE <<h>>]
    /\ Tell(p, TRUE)
    /\ UNCHANGED <<vars, answer, reply, enabled, spawnVars, announcing>>

\* claude_rewake_hook, register_hook_pane and arm_hook for a CLI started under
\* pane id s: the waiters parked so far are released, this one is announced.
Arm(h, s) ==
    LET p == ResolveAlias(s) IN
    /\ stage[h] = "absent" /\ s \in ptys /\ enabled
    /\ stage' = [stage EXCEPT ![h] = "parked"]
    /\ parkedAs' = [parkedAs EXCEPT ![h] = p]
    /\ up' = up \cup {h}
    /\ answer' = Released(Waiters(p))
    /\ pending' = pending \cup {h}
    /\ channel' = [channel EXCEPT ![p] = <<h>>]
    /\ Tell(p, TRUE)
    /\ UNCHANGED <<vars, reply, enabled, spawnVars, announcing>>

\* The hook's connection goes away while the handler waits; once the handler has
\* its answer it no longer looks.
HangUp(h) ==
    /\ h \in up /\ stage[h] \in {"parked", "expired"}
    /\ up' = up \ {h}
    /\ UNCHANGED <<vars, channelVars, stage, parkedAs, reply, enabled, spawnVars, windowVars>>

\* HOOK_WAIT_S runs out; the waiting task has yet to be resumed.
WaitRunsOut(h) ==
    /\ stage[h] = "parked" /\ answer[h] = "open"
    /\ stage' = [stage EXCEPT ![h] = "expired"]
    /\ UNCHANGED <<vars, channelVars, parkedAs, reply, up, enabled, spawnVars, windowVars>>

\* _hook_still_connected polls; the handler has yet to be resumed.
NoticeGone(h) ==
    /\ stage[h] = "parked" /\ h \notin up
    /\ stage' = [stage EXCEPT ![h] = "noticed"]
    /\ UNCHANGED <<vars, channelVars, parkedAs, reply, up, enabled, spawnVars, windowVars>>

\* Mutant: the future stays registered after the wait.
WaitEndsListed(h) ==
    /\ \/ stage[h] \in {"parked", "noticed"} /\ answer[h] # "open"
       \/ stage[h] = "expired"
    /\ channel' = Unlisted(parkedAs[h], h)
    /\ reply' = [reply EXCEPT ![h] = IF stage[h] = "expired" THEN "timeout" ELSE answer[h]]
    /\ stage' = [stage EXCEPT ![h] = "ending"]
    /\ UNCHANGED <<vars, pending, answer, parkedAs, up, enabled, spawnVars, windowVars>>

\* Mutant: a pane forgotten meanwhile has nobody to hand the envelope to.
WaitEndsForgotten(h) ==
    /\ \/ stage[h] \in {"parked", "noticed"} /\ answer[h] # "open"
       \/ stage[h] = "expired"
    /\ pending' = pending \ {h}
    /\ channel' = Unlisted(parkedAs[h], h)
    /\ reply' = [reply EXCEPT ![h] = IF stage[h] = "expired" THEN "timeout"
                                     ELSE IF Wired(parkedAs[h]) THEN answer[h] ELSE "empty"]
    /\ stage' = [stage EXCEPT ![h] = "ending"]
    /\ UNCHANGED <<vars, answer, parkedAs, up, enabled, spawnVars, windowVars>>

\* wait_for_hook returns: answered, or out of time.
WaitEnds(h) ==
    /\ \/ stage[h] \in {"parked", "noticed"} /\ answer[h] # "open"
       \/ stage[h] = "expired"
    /\ pending' = pending \ {h}
    /\ channel' = Unlisted(parkedAs[h], h)
    /\ reply' = [reply EXCEPT ![h] = IF stage[h] = "expired" THEN "timeout" ELSE answer[h]]
    /\ stage' = [stage EXCEPT ![h] = "ending"]
    /\ UNCHANGED <<vars, answer, parkedAs, up, enabled, spawnVars, windowVars>>

\* The handler drops the waiter of a hook that is gone (discard_waiter).
GiveUp(h) ==
    /\ stage[h] = "noticed"
    /\ pending' = pending \ {h}
    /\ channel' = Unlisted(parkedAs[h], h)
    /\ reply' = [reply EXCEPT ![h] = "gone"]
    /\ stage' = [stage EXCEPT ![h] = "ending"]
    /\ UNCHANGED <<vars, answer, parkedAs, up, enabled, spawnVars, windowVars>>

\* Mutant: the finally block does not ask whether a newer hook is parked.
RespondBlind(h) ==
    /\ stage[h] = "ending"
    /\ stage' = [stage EXCEPT ![h] = "over"]
    /\ parkedAs' = [parkedAs EXCEPT ![h] = NoFormer]
    /\ reply' = [reply EXCEPT ![h] = "none"]
    /\ answer' = [answer EXCEPT ![h] = "open"]
    /\ up' = up \ {h}
    /\ Tell(parkedAs[h], FALSE)
    /\ UNCHANGED <<vars, channel, pending, enabled, spawnVars, announcing>>

\* The finally block and the response, which closes the connection.
Respond(h) ==
    /\ stage[h] = "ending"
    /\ stage' = [stage EXCEPT ![h] = "over"]
    /\ parkedAs' = [parkedAs EXCEPT ![h] = NoFormer]
    /\ reply' = [reply EXCEPT ![h] = "none"]
    /\ answer' = [answer EXCEPT ![h] = "open"]
    /\ up' = up \ {h}
    /\ IF IsReady(parkedAs[h]) THEN UNCHANGED <<offers, overtaken>>
       ELSE Tell(parkedAs[h], FALSE)
    /\ UNCHANGED <<vars, channel, pending, enabled, spawnVars, announcing>>

-----------------------------------------------------------------------------
(* Delivering, and the switch                                               *)

\* agent_msg.push (deliver, _push_hook) from a window that offers the channel:
\* the waiters are tried newest first, those that fail are gone from the list.
Push(c, p) ==
    LET parked == {i \in 1..Len(channel[p]) : Resolvable(channel[p][i])}
        newest == CHOOSE i \in parked : \A j \in parked : j <= i
    IN
    /\ c \in live /\ p \in offers[c]
    /\ IsReady(p)
    /\ IF parked = {}
       THEN channel' = [channel EXCEPT ![p] = <<>>] /\ UNCHANGED answer
       ELSE /\ answer' = [answer EXCEPT ![channel[p][newest]] = "text"]
            /\ channel' = [channel EXCEPT ![p] = SubSeq(@, 1, newest - 1)]
    /\ UNCHANGED <<vars, pending, hookVars, enabled, spawnVars, windowVars>>

\* ui.settings.set on pushChannelsDisabled, and apply_switches.
Switch ==
    /\ Switchable
    /\ enabled' = ~enabled
    /\ IF enabled
       THEN /\ answer' = Released(UNION {Waiters(p) : p \in PaneId})
            /\ channel' = [p \in PaneId |-> IF Wired(p) THEN <<>> ELSE NoChannel]
       ELSE UNCHANGED <<channel, answer>>
    /\ announcing' = announcing \cup {<<p, IsReady(p)'>> : p \in {q \in PaneId : Wired(q)}}
    /\ UNCHANGED <<vars, pending, hookVars, spawnVars, offers, overtaken>>

\* One of the broadcasts apply_switches' caller sends.
Announce(p, ready) ==
    /\ <<p, ready>> \in announcing
    /\ announcing' = announcing \ {<<p, ready>>}
    /\ offers' = [c \in Conn |-> IF c \notin live THEN offers[c]
                                 ELSE IF ready THEN offers[c] \cup {p} ELSE offers[c] \ {p}]
    /\ overtaken' = IF ready # IsReady(p) THEN overtaken \cup {p} ELSE overtaken
    /\ UNCHANGED <<vars, channelVars, hookVars, enabled, spawnVars>>

PushNext ==
    \/ \E c \in Conn : WindowConnects(c) \/ \E r \in BOOLEAN : WindowDrops(c, r)
    \/ \E c \in Conn, p \in PaneId :
          RegisterAndAdopt(c, p) \/ WindowUnregisters(c, p) \/ Push(c, p)
    \/ RegistryMoves
    \/ \E p \in SpawnId : WireSpawn(p) \/ SpawnDone(p) \/ SpawnFails(p)
    \/ \E h \in Hook, s \in SpawnId : Arm(h, s)
    \/ \E h \in Hook : \/ HangUp(h) \/ WaitRunsOut(h) \/ NoticeGone(h)
                       \/ WaitEnds(h) \/ GiveUp(h) \/ Respond(h)
    \/ Switch
    \/ \E p \in PaneId, ready \in BOOLEAN : Announce(p, ready)

PushSpec == PushInit /\ [][PushNext]_allVars

-----------------------------------------------------------------------------
\* The channels and the requests hold what the code puts there; a channel never
\* lists two waiters, so re-arming released the earlier one.
PushTypeOK ==
    /\ channel \in [PaneId -> {NoChannel, <<>>} \cup {<<h>> : h \in Hook}]
    /\ pending \subseteq Hook
    /\ answer \in [Hook -> {"open", "empty", "text"}]
    /\ stage \in [Hook -> {"absent", "parked", "expired", "noticed", "ending", "over"}]
    /\ parkedAs \in [Hook -> PaneId \cup {NoFormer}]
    /\ reply \in [Hook -> {"none", "empty", "text", "timeout", "gone"}]
    /\ up \subseteq Hook
    /\ enabled \in BOOLEAN
    /\ announcing \subseteq PaneId \X BOOLEAN
    /\ spawning \subseteq SpawnId
    /\ ptys \subseteq SpawnId
    /\ offers \in [Conn -> SUBSET PaneId]
    /\ overtaken \subseteq PaneId

\* A push reported as landed reaches the hook, unless the hook hung up or its
\* wait ran out in that same moment: closing the pane, moving or switching off
\* its channel after the push takes nothing back.
LandedIsReturned ==
    \A h \in Hook :
        stage[h] = "ending" /\ answer[h] = "text" /\ h \in up => reply[h] \in {"text", "timeout"}

\* A request that has ended takes no message any more.  The waiter lists alone
\* do not give this: a channel that moved keeps listing its old waiter.
EndedTakesNothing ==
    [][\A h \in Hook :
          stage[h] \in {"ending", "over"} /\ stage'[h] = stage[h] =>
              answer'[h] = answer[h]]_allVars

\* A window offers every ready channel of the panes it mirrors, whatever order
\* reloads, spawns, hooks and switches come in; only an announcement of
\* apply_switches that was overtaken while it waited can hide one.
ReadyIsOffered ==
    \A p \in PaneId :
        IsReady(p) /\ owners[p] # NoConn /\ p \notin overtaken => p \in offers[owners[p]]

\* adopt: "Only a former id nothing live is holding gives its channel up."
HeldChannelStays ==
    [][\A p \in PaneId :
          Wired(p) /\ owners[p] # NoConn /\ owners'[p] = owners[p] => channel'[p] # NoChannel
                                                                 \/ SpawnFails(p)]_allVars
=============================================================================
