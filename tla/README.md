# Navide in TLA+

Navide runs many CLI agents side by side in desktop windows and lets them write
to each other. This directory holds TLA+ modules of the parts of it whose
correctness depends on the order of things, the TLC configurations that check
them, and proofs TLAPS checks. `PROJECT.json` lists the components, the runs,
the lines of source each definition stands for, the hazards and the theorems.

Paths below are relative to the repository's root. `backend/` is
`backend/agent_team_backend/`, `renderer/` is `src/renderer/src/`.

    tlc -workers 2 -config MCPaneRegistry.cfg MCPaneRegistry.tla
    tlapm PaneRegistryProofs.tla
    tlapm MailboxProofs.tla

(and the other `MC*.cfg` and `*Proofs.tla` likewise).

## 1. The system

    CLI process --stdout--> PTY --ws--> renderer window --ws--> backend process
         ^  ^  ^                          useAgentMessaging       agent_messaging
         |  |  |                          (one queue per pane)    push_delivery
         |  |  +-- push channel <---------------------------------- hook_drain
         |  +----- Stop hook   <-----------------------------------  |
         +-------- typing into the PTY <-- window                    |
                                         Navide-Server <--ws-- server_link

A backend process (Python, one asyncio loop) serves every window over a
WebSocket. A window (Vue) owns the panes it shows, their screens and their
message queues. Electron's main process starts both. State survives in SQLite
and in files.

### 1.1 Inventory

| component | state | operations | talks to | what is hard | what makes it correct |
|---|---|---|---|---|---|
| pane registry (`backend/agent_messaging.py`) | `_PANES`, `_OWNERS`, `_ALIASES`, `_FORGOTTEN` | register, unregister, the same for docks, drop_owner, purge_expired, add_aliases | windows (ws), MCP tools, push, drain | windows reload, reconnect, detach panes to each other; a grace period | online panes have a live owner; aliases never dangle or cross workspaces; a held pane is not taken down by another window |
| pane lineage (`renderer/App.vue` around the registry) | `formerPaneIds`, `panes` of each window | spawn, restore, re-mirror, let go | registry | the CLI keeps quoting its first id | an old id leads to the newest pane |
| message queue (`renderer/composables/useAgentMessaging.ts`) | queues, rows, envelopes, reservations, in-flight guard | send, accept, pump, push, type, drain, read, cancel, expire, pause, close, replace | CLI, backend, other windows | four routes out of one queue, all of them asynchronous; panes close meanwhile; answers are lost | a text is given once; rows tell the truth; failures are told; no pane goes deaf |
| push delivery (`backend/push_delivery.py`, `pending_registry.py`, the rewake endpoint) | channels by pane id, parked requests, windows' ready lists | wire, arm, wait, deliver, adopt, switch, forget | CLI hooks (http), windows | a request outlives the pane id it parked under | what counted as landed is returned; ended requests take nothing; windows know the channels |
| Stop-hook drain (`backend/hook_drain.py`) | streaks, `_blocked_at` | drain, answer, forget | CLI hook, window | the CLI's own log of the blocked turn arrives late | at most five blocks in a row; a blocked turn's end is not believed |
| routing (`message_routing.py`, `remote_roster.py`, the outbound half of the queue) | `remoteOutbound`, correlations, roster cache | route, dispatch, report, expire | windows, server link | reports that are late, duplicated or missing | one verdict per message |
| scheduler (`backend/scheduler.py`) | jobs, `running_at`, next run, usage | tick, catch-up, run now, edit, settle | registry, queue | a tick works on an old listing; catch-up runs beside it; restart mid-run | a slot runs once; a mark always has somebody to clear it; what is overdue is served; limits hold |
| quota failover (`backend/quota_failover.py`) | incidents, transactions, budget | report, prepare, ack, commit, settle, reconcile | windows, vault | many windows report one exhaustion; a crash mid-swap | the budget survives; credentials and default never part unnoticed; no account's only copy is lost |
| sync engine (`backend/sync_engine.py`, `sync_*`) | per item: revision, hash; cursors; conflicts; approvals | pull, push, resolve, switch account | server link | held rows, replayed rows, an account change mid-round | no row read past, no silent overwrite; nothing crosses accounts |
| device pairing and trust (`device_*.py`, `trust_store.py`) | pairings, pins, highest policy sequence | offer, confirm, pin, refuse | server link, user | both sides must confirm; replays | no pin without both; sequences only grow |
| PTYs (`terminals.py`, `pty_registry.py`) | processes, on-disk records | spawn, close, reap | OS | a backend that dies | only its own orphans are killed |
| projects, stages, pipelines | graphs, stages, runs | CRUD, layering | store | little | layering agrees in two languages |
| credential vault, tokens and usage, evolve, skills, channels, guard, plugins, git and files, storage, history, vendors, analyzer and voice, MCP server, ws dispatch, server link, Electron main, user interface, marketplace | | | | | see `PROJECT.json` for the reason each is left out or waits |

### 1.2 How the components interact

* A window mirrors every pane with `agent_msg.register`; the backend files its
  socket as the owner. When the socket dies `drop_owner` keeps the pane for a
  grace period so that a reload can claim it back.
* A pane id belongs to a pane object. A reload or a detach builds a new object
  around the same CLI and names the one id before it; the registry turns that
  into an alias, push delivery moves the channel, the queue is handed over.
* The queue asks the backend to push (`agent_msg.push`); the backend asks the
  queue for the head when a Stop hook runs (`agent_msg.hook_drain`); a tool call
  reads from the queue (`reserveIncoming`, then `settleIncomingRead`). Each of
  these is a request with an answer that can be lost.
* `PushDelivery` extends `PaneRegistry`: its actions take the registry's step and
  their own together, as the handlers do. `PaneLineage` extends it likewise.
  `MessageQueue` stands on its own: what it needs from the backend is an answer.
* `Mailbox` is the abstract specification of the queue; `MessageQueue` implements
  it (`ImplementsMailbox`).
* The scheduler delivers into panes, the quota failover restarts panes through
  their windows, the sync engine talks to the server only. None of the three
  shares state with the queue, so each is a module of its own with the other side
  as an environment.

## 2. Modules

### PaneRegistry

The backend's tables and every handler that writes them. No handler awaits
between its first read and its last write, so a handler is one action.

| TLA+ | code |
|---|---|
| `panes`, `owners`, `aliases`, `forgotten` | `_PANES`, `_OWNERS`, `_ALIASES`, `_FORGOTTEN` |
| `panes[p].age` | how long ago `offline_since` was set |
| `forgotten[p]` | the position from the newest end of the ordered dictionary |
| `Register`, `RegisterDock`, `Unregister`, `UnregisterDock`, `KillSurface` | the handlers of those names |
| `Disconnect` | the `finally` of the socket, with `drop_owner` |
| `PurgeExpired`, `Tick` | the sweep every read starts with; the clock |

The sweep is an action of its own because reads run it at any time. The panel
handlers read before they write, so those actions wait until there is nothing to
sweep. `by` records the session a step acted for, so that a property can ask
who took a pane down.

### PaneLineage

One CLI, the ids it has had and the windows that hold a pane object for it. The
registry's steps are constrained to what windows do: restore claims the newest
id, a re-mirror repeats the one predecessor, a window lets go only of a pane that
has been superseded. The histories `swept` and `overlapped` name the two
circumstances in which less is true.

### MessageQueue

A step is a run-to-completion segment between two awaits. A hand-over of the head
is `Take` (by push, typing or hook), `Lands` (the text reaches the agent),
and one of the ways it ends; in between anything else may run.

| TLA+ | code |
|---|---|
| `queue`, `delivering`, `readReserved`, `cancelRequested`, `unclear`, `remoteInbound`, `unconfirmed`, `paused` | the module's variables of (nearly) those names |
| `envelope` | the keys of `envelopes` |
| `flight`, `stage` | the locals of `pumpPane`, `drainForHook` and their callers in `App.vue` across their awaits |
| `reading` | tool calls that have reserved and not settled |
| `StartPush`, `StartTyping`, `Requeue`, `Delivered`, `FlightFailed`, `NotInjected`, `DropHead`, `RefuseHead` | the branches of `pumpPane` |
| `DrainForHook`, `SettleHookDrain` | the functions of those names |
| `ReserveIncoming`, `SettleIncomingRead`, `ExpireReadReservation`, `LoseRead` | the recipient's own read |
| `Unregister`, `ReplacePane` | `unregisterPane`; `handOverQueue` followed by it |
| `shown`, `told`, `verdict` | histories: what agents and windows have seen |

Abstractions:

* time is not a variable. Deadlines (30 s for a reservation, two minutes for a
  terminal) may pass between any two steps and an idle gate answers either way.
  `pump()` is therefore a choice among `PumpPane` steps and expiries;
* a text, a name, a reason and the wording of a notice are left out. There is one
  notice row per post, so a second bounce shows in `told`, not as a second row;
* the rate limit (five a minute per pair) is a free choice at each send;
* counters of the histories stop at two (`MoreOnce`);
* the notice about a message held for long is a `Send` from no pane, and
  retrying a failed message is a `Send` of a fresh one, as in the code;
* there is at most one outstanding read per pane and message;
* the registration of an idle-reclaimed pane under its own id is left out;
* only the inbound half of cross-window messages is here. The outbound half,
  rehydration from the log and the rate window wait for the plan.

### PushDelivery

The rewake hook of `claude` panes, over the registry. A background request parks
on the backend, filed under a pane id; a push answers the newest that can still
be answered. `Hook` is a set of requests, and each runs through `stage`: parked,
then expired (its wait ran out) or noticed (its connection was found gone), then
ending, then over. Between "expired" and "ending" the loop runs other tasks: this
is where a push can still reach a future whose waiter has gone.

`offers` is `pushReadyPanes` of each window. A broadcast is one step, except that
the switch computes every pane's readiness at once and sends one broadcast per
await (`announcing`). `overtaken` records that one of those came after a newer
announcement.

Abstractions: one CLI per spawn id and one spawn per id; a predecessor is a
constant of each pane id; equal broadcasts still waiting to be sent are one;
fields of a request that is over are reset; a hook hangs up only while its handler
waits. Panels have no channel. The HTTP composer and input-file mechanisms of
`push_delivery.py` are not modelled.

### Mailbox

What the queue promises without saying how: a bounded box per pane, one hand that
holds a message at a time, a message got at most once and only while it is held,
a failure answered by at most one notice. `MessageQueue` maps `queue` to `box`, what
was shown and what the row says to `Fate`, and the hand-over under way and
`readReserved` to `Held`, for the messages that are not acknowledgements (`Mail`).
The mapping is a refinement while panes stay open, no answer is lost and the log
has room, checked in `queue_core` and proved as `WindowIsAMailbox`; closing a pane,
losing an answer and evicting a row are where the code gives up parts of the
promise, and `queue_close` and `queue_live` say what is left of it.

### Scheduler

| TLA+ | code |
|---|---|
| `row`, `usage` | the tables `scheduler_jobs` and `scheduler_usage` |
| `todo`, `seen` | the listing `tick` walks and the clock it read with it |
| `queue`, `pending` | the loop of `_catch_up` and `_catch_up_pending` |
| `at[a]` | where the tick, the catch-up task and each `run_now` call stand between two awaits |
| `task`, `reg` | the run tasks that live, and `_runs` |
| `Boot`, `Crash` | `start` and the end of the process |
| `TickList` ... `TickDue` | the branches of `tick`, `_sweep_agent_job`, `_fail_stuck` |
| `Gate`, `Claim`, `Decline`, `Register` | `_fire`, `_gate` and the two halves of `_start` |
| `RunEnds` | `_execute`, `_settle` and `_finish` |
| `Upsert`, `SetEnabled`, `RemoveJob`, `Adopt`, `Keep`, `Rebind`, `RunNow` | the methods of those names |

A section under the scheduler's lock is one step. `_start` is two, because it
writes the row's mark before it registers the task that will clear it: between
them an actor stands at `claimed` and holds the lock.

Abstractions: a periodic job is an interval in a phase; the backoff has one rung;
the gate may refuse at any time for reasons other than the agents' total; a
cancelled settlement and the daily cap of one job are left out; one agent stands
for all.

### QuotaFailover

| TLA+ | code |
|---|---|
| `inc`, `tx` | `Incident` and `Transaction` objects, in memory |
| `pc` | where the coroutine of each transaction stands across its awaits |
| `row` | the audit table, the only thing besides `dflt` and `policy` that survives |
| `live`, `slot` | the vault: whose credentials are live, and whose each slot holds |
| `lock`, `manual` | `switch_lock` and the route `cli_profiles.set_default` that shares it |
| `Report`, `Attempt`, `Propose`, `Begin`, `Confirm`, `Ack...`, `Cancel`, `Deadline`, `Evidence`, `Recovered`, `SettleTimeout` | the handlers and timers of the service |
| `TakeLock`, `CheckFails`, `Intend`, `Move`, `MoveFails`, `Book` | `_commit`, cut at its awaits and at each write that may fail |
| `Restart`, `Reconcile` | `_load_unreconciled`, `reconcile` |

What the model assumes: the panes a switch restarts answer as one; credentials
name their account; nobody signs in on the live store by hand; the clock stands
still while a swap is in flight. Three histories name circumstances: `moved` (when
credentials moved automatically), `astray` (the manual route moved them and booked
nothing), `crossed` (a second attempt was made on an incident, or it was closed
under a swap).

### SyncEngine

One ordinary scope on several devices and the server they share.

| TLA+ | code |
|---|---|
| `local` | the adapter's `snapshot()` |
| `state`, `cursor`, `conflict` | the tables `sync_state`, `sync_cursor`, `sync_conflicts` |
| `gen`, `round[d].token` | `SyncStore._generation` and the one a round began under |
| `round[d]` | the round between two awaits: waiting for its lock, pulling, holding a page, applying it row by row, pushing, awaiting the answer |
| `AskPage`, `TakePage`, `EndPage` | `_pull`, `_apply_page` |
| `SkipBlocked`, `OwnRow`, `HoldRow`, `ParkRow`, `TakeRow` | the branches of `_apply_one` |
| `Pending`, `Push`, `RecordReply` | `_prepare_push`, `_send_batch`, `_record_reply` |
| `KeepRemote`, `KeepLocal` | `resolve`, which takes no lock |
| `AccountChange` | `on_account_changed` |
| `Fail` | a lost link, a timeout, or the process dying: what is kept is in the tables |

A payload stands for its own digest and `Absent` for the empty one, as the code's
`""` is both "not here" and "nothing agreed". The server follows
`docs/en-US/cloud-sync-protocol.md` (rows above a revision in ascending order, a
write accepted exactly on the current revision) as `_pull` and `_record_reply` read
it. `base`, `unheard` and `passed` are histories: what a device last had in common
with the server, whether an accepted push was never heard of, and whether a newer
row was read past while its item was in conflict.

Left out: a server that starts over (and with it deletes carried across a reset),
replayed and forged rows, size limits, sensitive scopes, refusals by an adapter,
resealing after a key rotation, pushing or pulling single items by name. The clocks
of the devices agree. Switching a scope off by hand only keeps rounds from starting,
which no round has to do anyway. An account change goes to an account not used
before.

## 3. What the runs check

| run | instance | what holds |
|---|---|---|
| `pane_registry` | 3 panes in 2 workspaces, 2 sockets, grace 2, limit 2 | `OwnerIffOnline`, `AliasTargetRegistered`, `AliasClaimFenced`, `HeldPaneStays` |
| `lineage` | 4 ids of one CLI, 2 windows | `LineResolvesUntilSwept`, `PredecessorResolves` |
| `queue_core` | an agent and a terminal, 4 posts (one inbound, one ack), 3 notices, cap 2, all routes | `ImplementsMailbox`, `ShownOnce`, `RowsTellTheTruth`, `WaitingIsQueued`, `FailureIsTold` |
| `queue_close` | 3 panes, 2 posts, closing, replacing and pausing | `InFlightIsHead`, `QueuedOnce`, `InboundReported` |
| `queue_live` | 1 pane, 2 inbound posts, lost answers, log overflow, renaming, fairness | `NoDeafPane`, `OneRoute` |
| `push_reload` | 2 panes (one rebuilt from the other), 1 window, 2 requests | `EndedTakesNothing`, `HeldChannelStays` |
| `push_switch` | 1 pane, 2 windows, 2 requests, switching and reconnecting | `LandedIsReturned`, `ReadyIsOffered` |
| `scheduler` | a once job and a periodic one, tick, catch-up, one run by hand, one edit, one restart, fairness | `SlotRunsOnce`, `AgentTotalBounded`, `MarkHasOwner`, `OverdueKept`, `OverdueServed` |
| `quota` | 2 accounts, 2 incidents, 2 switches in each of 2 lives, the manual route, writes that fail | `BudgetHolds`, `BlockedWhileApart`, `SlotsKeepOwner`, `NoOrphanedSwitching`, `AwaitsEvidence`, `ClosedStaysClosed` |
| `sync` | 2 devices, 2 items, 3 edits, one trouble, pages of one row | `NothingSkipped`, `RevsAreIssued`, `KeepsEdits` |
| `queue_stranded`, `sync_edits` | the smallest that shows it | a property the repository states, violated (section 5) |

Each module's type invariant is checked by one of its runs. Every property has a
mutant of a mapped definition in its module (`Mutant:` comments, or the
definition just before the one it mutates): a plausible slip of the code that
breaks it.

**Bounds and why they suffice.** `OfflineGrace = 2` tells just gone, still in
time, and too late apart. `ForgottenMax = 2` with three ids makes eviction happen.
Two sockets are a window and the one that replaces it, or two windows; no
guard counts sockets. Three rebuilds (four ids) are one more than the shortest
chain the flattening has to bend twice. `QueueCap = 2` has a head, a follower and
a refusal. In `scheduler` one clock unit is every period at once (a slot, a timeout, a
backoff, an expiry), so that each is met at its boundary; four run names are one
more than can be in use. In `quota` a budget of one and a gap of one are spent by the
first switch and met by the second; one death falls between any two steps. In `sync`
three edits are an edit, another made while the first is under way and one by the
other device; two items make two pages and a gap in the accepted revisions; a lost
answer, a held row and a change of account each happen at every point of a round,
one in a behaviour. `UnclearLimit = 2` has one retry and the limit (`queue_close` has the limit only). Two requests are an
earlier hook and the one that supersedes it. What one instance cannot afford is
split by question: closing panes meets no terminal, lost answers meet one pane.

**Symmetry and view.** Symmetry is over ids no constant tells apart, and never in
the run with a liveness property. `PushView` drops `forgotten` and `by`, which
nothing in that module's actions on the remaining variables nor its properties
depends on. `View` of the quota run maps what no guard and no property tells apart
to one value: epochs that are past, incidents that are closed, transactions that
are dead, rows that neither count nor block, moves too old for the budget.
`Telling` leaves out a death with nothing written and a clock that runs before
anything counts. `SyncView` forgets the part of a page's snapshot no remaining row
will read.

**Deadlock** is not an error in the queue's runs: posts are finite, and a window
whose messages are settled and whose panes are closed has nothing to do. It is not
one in `scheduler` and `quota` either: their clocks, edits, crashes and names of
transactions are bounded, and when they are spent nothing may be left to do.

**Fairness** (`queue_live`, `scheduler`). In the queue, `pump()` is called every second and on each turn
end, so a head that is again and again free is taken (`SF` of `PumpPane`). Every
attempt awaits something with a time limit, so it ends (`WF` of `Finish`, of a
hook's answer, of a read, of an expiry). The environment must not refuse for
ever: if texts are offered again and again one lands, and not every answer is
lost (`SF` of `Lands` and `Answered`). The last two are assumptions about CLIs and
sockets, not about the code, and a pane whose CLI never comes back to its prompt
is outside them. `NoDeafPane` is conditional on the user not leaving delivery
paused; the run itself leaves pausing out, which `queue_close` has.

In the scheduler the tick loop is alive as long as the process is (`WF` of
`TickStep`), and the other tasks of the event loop are not starved as a group (`WF`
of `Others`: the restart of a process that died, the catch-up, an actor between two
awaits, the end of a run, which its timeout bounds). Nothing is assumed of users,
agents or gates. `OverdueServed` is what a tick that leaves catch-up's jobs alone
and a catch-up whose awaited run may be cancelled could both break.

## 4. What is proved

Eight modules hold theorems: `PaneRegistryProofs`, `PaneLineageProofs`,
`PushDeliveryProofs`, `MessageQueueProofs`, `MailboxProofs`, `SchedulerProofs`,
`QuotaFailoverProofs`, `SyncEngineProofs`. A theorem is about all values of its
module's constants, from the assumption named in that module and, where the table
says "while", from a hypothesis written in the theorem. Every invariant and action
property a passing run checks is stated by one of them. TLC evaluated each of the inductive invariants on an instance before it was
proved.

| module | theorem | states |
|---|---|---|
| registry | `TypeCorrect`, `OwnerCorrect`, `AliasesNeverDangle` | `[]TypeOK`, `[]OwnerIffOnline`, `[]AliasTargetRegistered` |
| | `ClaimsFenced`, `HeldPanesStay` | `AliasClaimFenced`, `HeldPaneStays` (action properties) |
| lineage | `LineageUsesRegistry` | `LineageSpec => Spec` of the registry |
| | `PredecessorAlwaysResolves`, `LineAlwaysResolves` | `[]PredecessorResolves`, `[]LineResolvesUntilSwept` |
| push | `PushTypeCorrect`, `LandedReaches`, `ReadyChannelsOffered` | `[]PushTypeOK`, `[]LandedIsReturned`, `[]ReadyIsOffered` |
| | `EndedTakeNothing`, `HeldChannelsStay` | `EndedTakesNothing`, `HeldChannelStays` (action properties) |
| queue | `QueueTypeCorrect`, `HeadStaysInHand`, `NeverQueuedTwice` | `[]TypeOK`, `[]InFlightIsHead`, `[]QueuedOnce` |
| | `OneRouteOnly`, `SenderWindowIsTold` | `[]OneRoute`, `[]InboundReported` |
| | `WaitingStaysQueued` | `[]WaitingIsQueued` while panes stay open |
| | `ShownAtMostOnce` | `[]ShownOnce` while panes stay open and no answer is lost |
| | `LogTellsTheTruth` | `[]RowsTellTheTruth` while moreover the log has room |
| | `FailureBouncesOnce` | `[]FailureIsTold` while panes stay open and keep their handles |
| | `WindowIsAMailbox` | `ImplementsMailbox`, as for `LogTellsTheTruth` |
| scheduler | `AgentTotalHolds`, `MarkAlwaysOwned`, `SlotsRunOnce` | `[]AgentTotalBounded`, `[]MarkHasOwner`, `[]SlotRunsOnce` |
| | `OverdueStays` | `OverdueKept` (action property) |
| | `SchedulerTypesHold` | `[](Typed /\ TickAtRest)` for any names of runs |
| | `SchedulerTypeCorrect` | `[]TypeOK` where the names do not run out |
| quota | `QuotaTypeCorrect`, `BudgetIsKept`, `SlotsStayOwned` | `[]TypeOK`, `[]BudgetHolds`, `[]SlotsKeepOwner` |
| | `ApartIsBlocked`, `SwitchingHasATransaction`, `SwitchAwaitsEvidence` | `[]BlockedWhileApart`, `[]NoOrphanedSwitching`, `[]AwaitsEvidence` |
| | `ClosedIsForGood` | `ClosedStaysClosed` (action property) |
| sync | `TypeCorrect`, `RowsAreNotSkipped`, `RecordsAreIssued` | `[]TypeOK`, `[]NothingSkipped`, `[]RevsAreIssued` |
| | `EditsAreKept` | `KeepsEdits` (action property) |

### PaneRegistry

    IInv == TypeOK /\ PaneKeepsWorkspace /\ OwnerIffOnline /\ AliasTargetRegistered

`AliasTargetRegistered` says an alias is filed under its target's workspace, which
only survives a re-registration because a pane object never changes workspace
(`PaneKeepsWorkspace`, from `WorkspaceOf` being a constant: the window sends the
workspace the pane was created with). Removing a pane removes the aliases to it;
claiming one re-points those of the id claimed. `RegisterPaneInv` and
`RemovePaneInv` carry those two arguments and each action cites one of them. The
fence of `add_aliases` compares the claimed id only; `ClaimsFenced` shows that the
ids re-pointed along with it are safe, and it does so from
`AliasTargetRegistered`: an alias to the claimed id is filed under that id's own
workspace, which the fence has just compared.

### PaneLineage

`LineageUsesRegistry` comes first, step by step (`StepsOfTheRegistry`); with it
the registry's theorems hold of the lineage. The lineage's own invariant `LInv`
adds what makes a former id resolve. The property speaks of online panes and is
lost and regained as windows drop and reconnect, so it is carried as a fact about
registered ones (`LastFormerNames`); a claim must not take an id away from the
newest pane, so the newest is never itself a former id (`NewestIsNoFormer`); and
that every older id resolves depends on no second window holding a superseded
object (`OneHolder`, given up once `overlapped`). The ids of one CLI are in one
workspace (`MintedOnce`): `Restore` builds the new pane in the workspace of the
old one, and a rebuild elsewhere would be refused by the registry's fence.

### PushDelivery

`PushInv` is the registry's `IInv` with `PushTypeOK`, `ReadyIsOffered` and two facts.
`RequestInv` ties a future to its handler: nothing resolves it before it parks or
after its wait, and what the handler is about to answer is what the future held,
which is `LandedIsReturned`. `DisabledIsEmpty` says a channel switched off lists
nobody, without which switching on again would make a channel ready that no
window was told of. `RegistryStep` shows that each step is one of the registry
or leaves it alone.

### MessageQueue

    QInv == PaneInv /\ FlightInv /\ WaitInv /\ QueuedOnce /\ InboundReported

This holds with panes closing, names moving, answers lost, the user pausing and the
log overflowing, all at once. `InFlightIsHead` alone says nothing of a pane closed
under its hand-over; `FlightOf` does (its message is in no queue any more), and
that nobody else has the same message in hand. `WaitInv` says what a row in a queue
can read and that what is reserved is queued. A step is described by who joins and
who leaves each queue (`Flow`, with one lemma for each way the code changes a
queue) and by what became of the hands and rows (`TurnKeeps`), which together
suffice for `QInv`; types are a second pass over the actions. That a queue
repeats nothing needs the sequence lemmas (`TailIs`, `JoinIs`, `WithoutIs`,
`SplitIs`) and `AscendingIs`, about listing a finite set of numbers in order, whose
proof finds a least number by well-founded induction on `Nat`.

`MailboxProofs` goes on from `QInv` to the properties that say where a message ends
up. They do not hold of every run of the code: a pane that closes under an attempt
strands its message (`queue_stranded`), a lost answer is taken for a refusal and the
text given again (section 5), a row that was evicted tells nothing, and a bounce
finds nobody once its sender's handle is gone. So each theorem names what must not
happen, as few of `PanesClose`, `RepliesLost`, `LogOverflows` and `PanesRename` as it
needs. Users pause and cancel, readers vanish and pushes stay unclear in all of
them, and names move in all but `FailureBouncesOnce`.

The proof does not go through the four routes for each property. `NextMoves` shows
once that every step is one of fourteen moves of one message: it comes into a
queue, is taken up, lands, is put back, leaves as handed over, read, withdrawn or
failed, is reserved, and so on, and that all other messages are left as they are
(`Still`). The invariants are then conjunctions over messages:

    Steady == TypeOK /\ QInv /\ OpenInv /\ ShownInv /\ TruthInv

`OpenInv` is what an open window adds to `QInv`: what waits is queued, what is queued
has its envelope, and a hand-over to a Stop hook is of the kind that hook drains;
with `QInv`, a hand that is busy holds the head (`HandIs`). `ShownInv` ties how far a hand-over has come (`stage`)
to how often the text was shown: once after it landed, not at all before, and not
at all for what still waits. `TruthInv` says what the row may read given that;
`ToldInv` that a failed message has its notice, or had no one to tell. Each move
keeps the part about its own message by a lemma of its own, and `Still` keeps the
rest.

`WindowIsAMailbox` maps the same moves: a move of a hand is `Carry`, `Get`, `PutDown`
or `Leave`, reading is `Reserve` and `Read`, an expiry or a refusal is `Fail` (with the
notice that goes into another queue in the same step), and what concerns only the
reply to another window, a pause, a name or an acknowledgement is a stutter. The
invariant is needed for the guards: that what lands is still held and waits, that
nothing else in the box is carried, that a notice is new.

### Scheduler

The agents' total of a day is read in the gate and added to later, so it can be
passed. The inductive invariant counts whoever is in between:

    usage + Cardinality(Claims) <= AgentTotal + Cardinality(Actors) - 1

An actor joins `Claims` only when it found the total not spent (`NewClaim`), adds
its run by leaving `Claims`, and no other step touches either side (`NoNewClaim`).

Everything else follows from `Whole == StoreTyped /\ LoopsTyped /\ Marks /\ Slots`.
`Marks`: a running mark has its registered task, or a start that holds the lock
between its mark and its task under a name no other mark has (`ClaimMarked`), or
the sweep that settles it (`Settling`). `Slots`: a slot once started stays taken, by
a run that was not by hand and will therefore move the slot on, until that run ends
(`SlotTaken`). The tick works on a listing that is old by the time it acts: the
part that makes this harmless is that a listing names a job once, that a job still
ahead as stuck has no task but its mark's (`StuckIsOwn`), and that a mark found by
hand stays while it is being settled (`HandMarkStays`). Most steps neither start nor
end a run (`CalmStep`) and keep `Whole` at once; each of the others has its lemma.
`OverdueStays` is read off the same invariant, action by action (`NextMoves`).

`TypeOK` also says that a name for the next run is always free. A run is named by
the millisecond it starts in, of which there is always a new one; in an instance
that is a matter of the bound `RunIds`, and TLC checks it there. The theorem
`SchedulerTypeCorrect` assumes infinitely many names instead: a step starts at most
one run, so finitely many live at any time (`RunsStayFinite`), and the marks and the
actors name finitely many more (`NameIsFree`).

### QuotaFailover

The invariant has a half about the work and one about the vault and the disk, with
the lock between them (`LockInv`: past the lock stands its one holder).
`WorkInv`: at most one incident is open (`OneOpen`); an incident that was not
`crossed` belongs to one attempt and is open, switching or settling as that one
requires (`OwnInv`). `DiskInv`: the intent row says what its transaction is about to
do and when (`RowInv`); under the lock the live credentials are the ones the holder
started from or has moved to (`HeldInv`); the default lags behind them only while a
move is being booked or the agent is blocked, and a row on disk tells of it for a
process that dies and starts again (`LagInv`), which is what `BlockedWhileApart`
needs across a crash; the budget that allowed the intent still allows the move
(`AllowedInv`). Most steps are `Calm`: they leave vault, default and table
alone.

### SyncEngine

`SyncInv` is stated of one device at a time (`Keeps`), of the rows of its account and
of what the device keeps. A step of another device then changes only those rows,
and one lemma (`Pushed`) deals with it. While a round runs, `PageRead` says every row
up to where the page ends was taken, lies past a held one, or is still among the
page's; `RowsOf` says those rows come in order and are current or already
overtaken by a row the page does not reach; `SentOf` says what the answer to a
push will record. When the account has changed under a round none of this is
needed, since the round writes nothing any more (`Fresh`). `EditsAreKept` needs in
addition what was agreed to be what the device last had in common with the
server (`BaseOf`), but for pushes nobody answered. `ContiguousIs` and `LastNumber`
are about moving the cursor over the accepted revisions up to the first gap.

### What stays with TLC

* `NoDeafPane` and `OverdueServed`: liveness under fairness is outside the prover.
* What a recursive definition computes for every input; no module with theorems has one.

The proofs led to these changes of the models. Leaving a list is `RemoveFirst` of the
community modules, as `list.remove` and `splice` are; `Listed` and `Sorted` of the
scheduler and the queue's `Ascending` say what such a sequence is: the same
sequences as before, in a form the prover can reason about. `SchedulerAssumption` names the
rows a process may find when it starts. `Restore` requires the workspace to be the
same: the model had allowed a rebuild into another one, which no window does.

## 5. Where the code and its own words differ

Shown by a run:

* `queue_stranded`: a push is declined after its pane closed; the row goes back to
  `queued` with no queue to hold it (`useAgentMessaging.ts:1461`).
* `sync_edits`: a push is accepted and its answer lost. The device's own row comes
  back and only its revision is recorded (`sync_engine.py:1110`); if the user has put
  the earlier text back meanwhile, it hashes as agreed, is never pushed, and the next
  row of another device is written over it, which "this engine must never do".

Met while modelling, and visible in the models under the conditions named, without a
run of their own:

* re-sending the immediate predecessor is said to be enough
  (`renderer/App.vue:6638`, `:2409`); after two rebuilds and an absence beyond the
  grace period the id the CLI was spawned with names nothing;
* a bounce goes to whoever holds the sender's handle now
  (`useAgentMessaging.ts:680`);
* a fresh `claude` pane is announced as ready before any hook has parked
  (`ws_handlers.py:8131`); the first push is declined;
* windows that overlap build a chain of aliases although `add_aliases` says it is
  flattened (`agent_messaging.py:414`); `LineResolvesUntilSwept` is stated for windows
  that do not overlap;
* a sender is told twice when a terminal's command is refused after its pane closed
  (`useAgentMessaging.ts:1443-1452`, `:1473-1476`);
* a lost answer to a push counts as declined and the text is typed as well
  (`App.vue:2746`); a lost answer to a drain puts the text back
  (`App.vue:14098`). `queue_core` has no lost answers, `queue_live` does, and so
  `ShownOnce` belongs to the first only;
* the log evicts rows that still wait (`useAgentMessaging.ts:799`) although
  clearing it keeps them (`:2008`);
* after `adopt`, a hook that ends cleans up under its old pane id and leaves its
  waiter listed under the new one: the channel counts as ready and a push finds
  nobody to take it (`push_delivery.py:479`). `EndedTakesNothing` holds all the same;
* the broadcasts of the switch can follow a newer announcement they contradict
  (`ws_handlers.py:4121`); `ReadyIsOffered` excepts those panes (`overtaken`);

in the scheduler:

* a once job "has a single slot" (`scheduler.py:38`), but a tick that listed it before
  its catch-up run ended starts it again: the guard of `_start` compares a slot with
  `next_run_at`, and a finished once job has none (`scheduler.py:967`).
  `SlotRunsOnce` is stated for periodic jobs;
* `_fail_stuck` with an old listing can clear the mark of a run that was claimed and
  not yet registered (`scheduler.py:1060`): two runs of one job may live;
* the expiry sweep acts on the listing as well: it deletes a job the user has just
  armed again and overlooks a `keep` made since (`scheduler.py:870-900`);
* a refusal decided on an old row can disable a once job that was re-timed meanwhile
  (`scheduler.py:943`), and so can a restart that interrupts a run by hand (`:753`);

in the quota failover:

* two windows that ask for a switch while `_require_eligible` is awaited both get a
  transaction (`quota_failover.py:2055`), where the comment speaks of one result for
  both; a second attempt on an incident that settles, and a refused automatic one,
  write over `settling`, after which the first switch waits for evidence for ever
  (`:1061`). `AwaitsEvidence` excepts such incidents (`crossed`);
* a report of another account closes the incident of a swap in flight (`:1565`);
* a move that failed and whose outcome could not be written leaves an intent row. The
  user moves on by hand; at the next start that row blocks the agent, and `reconcile`
  refuses the account that is live, "one of the two accounts the swap moved between
  - never a third" (`:884`, `:1211`, `:2482`);
* the manual route that dies, or cannot persist the default, after the vault moved the
  credentials leaves no record of it (`ws_handlers.py:2780`). The properties except it
  (`astray`);

in the sync engine, each an exception `KeepsEdits` or `NothingSkipped` makes, and each
needed (without it TLC refutes the property):

* a page is compared with a snapshot taken before its first row; an edit made between
  the two is written over (`sync_engine.py:1033`, `EditedSinceSnapshot`). An adapter
  that asks for approval first holds the row instead;
* keeping the local side of a conflict clears the agreed hash. If the local side is a
  delete, "nothing here" then equals "nothing agreed", and the next row of another
  device brings the item back before the choice is pushed
  (`sync_engine.py:1663`, `DeleteKept`);
* an item pushed for the first time, whose answer is lost and which is then deleted,
  has no agreed state: its delete is never pushed (`sync_engine.py:1113`, `unheard`);
* rows of an item in conflict are read past and the conflict is not brought up to date
  (`sync_engine.py:1071`). Keeping the remote side then writes the row the conflict was
  recorded with and marks it agreed, and the device is behind until somebody edits the
  item again (`passed`).

## 6. Plan

In this order; each step is a module or its proofs.

1. **HookDrain** beside the queue's half: the streak, the mark, overlapping Stop
   hooks, a late answer.
2. **RemoteRoute**: the outbound half, two windows and the backend's route and
   report handlers: one verdict per message, also for late and lost reports.
3. **SyncEngine, extended**: a server that starts over, with the deletes remembered
   across it; replayed rows.
4. Candidates after that: `pty_registry`, pairing, `backend-autorestart`,
   `pipeline_graph` as a function checked against a reference.

## 7. Not modelled

`PROJECT.json` names every component and the reason. In short: parsing of vendor
formats, command lines and shell text; file, git and SQLite access; cryptography;
services outside the repository (Navide-Server, chat platforms, the CLIs
themselves, which appear as an environment that may answer, fall silent or hang
up); Electron, Vue components and native helpers. Most of the repository by size is
of these kinds: handlers that pass a request to a store or to git, and screens.
