--------------------------- MODULE QuotaFailover ----------------------------
(***************************************************************************)
(* quota_failover.py for one agent and one pool of accounts: an exhausted   *)
(* account opens an incident, a transaction moves the live credentials to   *)
(* another account, and the move is booked in a default, an audit row and   *)
(* an epoch.  Windows and the policy propose, windows answer for their      *)
(* panes, timers and users withdraw, the manual route switches beside all   *)
(* of it, writes fail, and the process dies and starts again.               *)
(*                                                                          *)
(* A step is what runs between two awaits.  The panes a switch restarts     *)
(* answer as one and once they are ready do so once, credentials name their *)
(* account (no drift is `unverifiable'), nobody signs in on the live store, *)
(* and the clock stands still while a swap is in flight.  As in             *)
(* useQuotaFailover.ts, a window's request names an incident and is never   *)
(* `automatic'.                                                             *)
(***************************************************************************)
EXTENDS Naturals, FiniteSets

CONSTANTS
    Slot,       \* account slots
    Home,       \* the default slot
    Inc, Tx,    \* incidents and transactions of one life of the process
    Gap,        \* AUTO_MIN_GAP_S
    Window,     \* AUTO_BUDGET_WINDOW_S
    Limit,      \* AUTO_BUDGET_MAX
    None,
    Horizon,    \* bound: the clock
    Crashes,    \* bound: how often the process dies
    ByHand,     \* bound: how often the user switches by hand
    WritesFail  \* set_default and the audit table may fail

ASSUME QuotaAssumption ==
    /\ Home \in Slot /\ IsFiniteSet(Tx)
    /\ None \notin Slot \cup Inc \cup Tx \cup Nat
    /\ None \notin [tx : Tx, live : Slot \cup {None}]
    /\ "manual" \notin Tx \cup {None}
    /\ {Gap, Window, Limit} \subseteq Nat \ {0}
    /\ {Horizon, Crashes, ByHand} \subseteq Nat
    /\ WritesFail \in BOOLEAN

VARIABLES
    clock,      \* time.time()
    up,         \* the process runs
    died,       \* how often it died
    handed,     \* how often the user switched by hand
    policy,     \* the persisted mode
    dflt,       \* the persisted default: _current_slot
    live,       \* whose credentials are live
    slot,       \* whose credentials each slot holds
    row,        \* the audit table quota_failover_switches
    epoch,      \* _epochs
    degraded,   \* audit_degraded
    unrec,      \* _unreconciled
    lock,       \* switch_lock: a transaction, or the manual route (None: free)
    manual,     \* the slot the manual route switches to
    inc,        \* incidents
    tx,         \* transactions
    pc,         \* where the coroutine of a transaction is
    moved,      \* history: when each transaction moved credentials automatically
    astray,     \* history: the manual route moved credentials and booked nothing
    crossed     \* history: incidents on which a second attempt was made, or
                \* which were closed under a swap

disk == <<policy, dflt, row>>
vault == <<live, slot>>
service == <<epoch, degraded, unrec>>
work == <<inc, tx, pc>>
route == <<lock, manual, handed>>
env == <<clock, up, died>>
history == <<moved, astray, crossed>>
vars == <<disk, vault, service, work, route, env, history>>

ByManual == "manual"
Open == {"awaiting-confirmation", "preparing", "waiting-safe"}
Committing == {"locking", "checking", "moving", "moved"}
Written == IF WritesFail THEN BOOLEAN ELSE {TRUE}

BlankTx == [st |-> "none", inc |-> None, from |-> Home, to |-> Home, auto |-> FALSE,
            before |-> 0, after |-> 0, closed |-> FALSE]
BlankInc == [st |-> "none", open |-> FALSE, out |-> Home, epoch |-> 0, due |-> FALSE]
BlankRow == [st |-> "none", auto |-> FALSE, swapped |-> FALSE, at |-> 0,
             from |-> Home, to |-> Home, known |-> FALSE, reconciled |-> FALSE]

Swapped(t) == tx[t].st \in {"committed", "partial"}
Unsettled(t) == Swapped(t) /\ ~tx[t].closed
TxsOf(i) == {t \in Tx : tx[t].st \notin {"none", "asked"} /\ tx[t].inc = i}
OpenIncidents == {i \in Inc : inc[i].open}

-----------------------------------------------------------------------------
(* The budget and the rechecks                                              *)

\* Mutant: only rows whose outcome was written count.
CountedWhenKnown == {t \in Tx : row[t].auto /\ row[t].swapped}

\* _COUNTED: moved, or the intent was written and nothing came after.
Counted == {t \in Tx : row[t].auto /\ (row[t].swapped \/ row[t].st = "swapping")}

\* budget and _budget_retry_after
BudgetSpent ==
    \/ Cardinality({t \in Counted : row[t].at + Window > clock}) >= Limit
    \/ \E t \in Counted : row[t].at + Gap > clock

\* _recheck_locked
Refused(t) ==
    \/ tx[t].st \notin Open \cup {"swapping"}
    \/ dflt # tx[t].from \/ epoch # tx[t].before
    \/ tx[t].auto /\ (policy # "auto" \/ degraded \/ BudgetSpent)

-----------------------------------------------------------------------------
(* What befalls transactions and incidents together                         *)

\* Mutant: the incident is left as it was.
WithdrawAlone(T) ==
    /\ tx' = [t \in Tx |-> IF t \in T THEN [tx[t] EXCEPT !.st = "cancelled", !.closed = TRUE] ELSE tx[t]]
    /\ pc' = [t \in Tx |-> IF t \in T /\ pc[t] = "waiting" THEN "over" ELSE pc[t]]
    /\ UNCHANGED inc

\* _withdraw, for every transaction of T.  A commit under way finds out itself.
Withdraw(T) ==
    /\ tx' = [t \in Tx |-> IF t \in T THEN [tx[t] EXCEPT !.st = "cancelled", !.closed = TRUE] ELSE tx[t]]
    /\ pc' = [t \in Tx |-> IF t \in T /\ pc[t] = "waiting" THEN "over" ELSE pc[t]]
    /\ inc' = [i \in Inc |->
                  IF inc[i].open /\ inc[i].st \in {"detected", "waiting-safe", "switching"}
                     /\ \E t \in T : tx[t].inc = i
                  THEN [inc[i] EXCEPT !.st = "notify-stopped"] ELSE inc[i]]

\* _fail: whatever has become of the transaction and its incident meanwhile.
Fail(t, how) ==
    /\ tx' = [tx EXCEPT ![t].st = how, ![t].closed = TRUE]
    /\ pc' = [pc EXCEPT ![t] = "over"]
    /\ inc' = [inc EXCEPT ![tx[t].inc].st = "notify-stopped"]

\* A recheck refused: _fail while the transaction is open, _settle_stopped else.
Stop(t, how) ==
    IF tx[t].st \in Open THEN Fail(t, how)
    ELSE LET i == tx[t].inc IN
         /\ pc' = [pc EXCEPT ![t] = "over"]
         /\ inc' = IF inc[i].open /\ inc[i].st \in {"detected", "waiting-safe", "switching"}
                   THEN [inc EXCEPT ![i].st = "notify-stopped"] ELSE inc
         /\ UNCHANGED tx

\* Mutant: only open transactions are closed with their incident.
ClosedTxsOpenOnly(i) ==
    [t \in Tx |-> IF t \in TxsOf(i) /\ tx[t].st \in Open
                  THEN [tx[t] EXCEPT !.st = "cancelled", !.closed = TRUE] ELSE tx[t]]

\* _close_incident, with the transactions it closes.
ClosedTxs(i) ==
    [t \in Tx |-> CASE t \in TxsOf(i) /\ tx[t].st \in Open ->
                         [tx[t] EXCEPT !.st = "cancelled", !.closed = TRUE]
                    [] t \in TxsOf(i) /\ Unsettled(t) -> [tx[t] EXCEPT !.closed = TRUE]
                    [] OTHER -> tx[t]]
ClosedPcs(i) ==
    [t \in Tx |-> IF t \in TxsOf(i) /\ pc[t] = "waiting" THEN "over" ELSE pc[t]]
Settled(i, how) == [inc[i] EXCEPT !.st = how, !.open = FALSE]

\* The commit begins: _commit up to its wait for the lock.
Commits(t, i) ==
    /\ pc' = [pc EXCEPT ![t] = "locking"]
    /\ inc' = [inc EXCEPT ![i].st = "switching"]

Init ==
    /\ clock = 0 /\ up = TRUE /\ died = 0 /\ handed = 0
    /\ policy \in {"auto", "notify"}
    /\ dflt = Home /\ live = Home
    /\ slot = [s \in Slot |-> s]
    /\ row = [t \in Tx |-> BlankRow]
    /\ epoch = 0 /\ degraded = FALSE /\ unrec = None
    /\ lock = None /\ manual = None
    /\ inc = [i \in Inc |-> BlankInc]
    /\ tx = [t \in Tx |-> BlankTx]
    /\ pc = [t \in Tx |-> "over"]
    /\ moved = [t \in Tx |-> None]
    /\ astray = FALSE /\ crossed = {}

-----------------------------------------------------------------------------
(* Reports and proposals                                                    *)

Chained(s) ==
    \/ OpenIncidents # {}
    \/ \E t \in Tx : tx[t].st # "none" /\ Swapped(t) /\ tx[t].to = s

\* report: a trusted exhaustion of account s, whose epoch was read before an
\* await.  The account of the open incident is the same incident; another one,
\* or one a switch landed on, continues that run and is never tried on its own.
Report(i, s, e) ==
    /\ up /\ inc[i].st = "none" /\ e <= epoch
    /\ \A j \in OpenIncidents : inc[j].out # s
    /\ LET old == OpenIncidents IN
       /\ inc' = [j \in Inc |->
                    CASE j = i -> [BlankInc EXCEPT
                                     !.st = IF Chained(s) THEN "notify-stopped" ELSE "detected",
                                     !.open = TRUE, !.out = s, !.epoch = e,
                                     !.due = ~Chained(s) /\ policy = "auto"]
                      [] j \in old -> Settled(j, "notify-stopped")
                      [] OTHER -> inc[j]]
       /\ IF old = {} THEN UNCHANGED <<tx, pc>>
          ELSE \E j \in old : tx' = ClosedTxs(j) /\ pc' = ClosedPcs(j)
       /\ crossed' = crossed \cup {j \in old : \E t \in TxsOf(j) : pc[t] \in Committing}
    /\ UNCHANGED <<disk, vault, service, route, env, moved, astray>>

Fresh(t) == tx[t].st = "none" /\ row[t].st = "none"

\* What begin_switch checks before it awaits the ranking of the target.
Acceptable(i, to, auto) ==
    /\ up /\ unrec = None /\ to # dflt
    /\ inc[i].open
    /\ \A t \in TxsOf(i) : tx[t].st \notin Open
    /\ auto => ~degraded /\ ~BudgetSpent

Asked(t, i, to, auto) ==
    tx' = [tx EXCEPT ![t] = [BlankTx EXCEPT !.st = "asked", !.inc = i, !.from = dflt, !.to = to,
                                            !.auto = auto]]

\* Another attempt on the incident is under way, or has moved credentials.
Crossing(i) ==
    \E t \in Tx : tx[t].inc = i /\ (tx[t].st = "asked" \/ tx[t].st \in Open \/ Swapped(t)
                                    \/ pc[t] \in Committing)

\* A button of the announcement names a candidate of incident i.
Propose(t, i, to) ==
    /\ Fresh(t) /\ Acceptable(i, to, FALSE)
    /\ Asked(t, i, to, FALSE)
    /\ pc' = [pc EXCEPT ![t] = "asked"]
    /\ crossed' = IF Crossing(i) THEN crossed \cup {i} ELSE crossed
    /\ UNCHANGED <<disk, vault, service, inc, route, env, moved, astray>>

\* _try_automatic, once per incident.
Attempt(t, i, to) ==
    /\ Fresh(t) /\ inc[i].due
    /\ dflt = inc[i].out /\ epoch = inc[i].epoch
    /\ Acceptable(i, to, TRUE)
    /\ Asked(t, i, to, TRUE)
    /\ pc' = [pc EXCEPT ![t] = "attempted"]
    /\ inc' = [inc EXCEPT ![i].due = FALSE]
    /\ crossed' = IF Crossing(i) THEN crossed \cup {i} ELSE crossed
    /\ UNCHANGED <<disk, vault, service, route, env, moved, astray>>

\* It finds no candidate, or begin_switch refuses (_stop_incident).
AttemptRefused(i) ==
    /\ up /\ inc[i].due
    /\ inc' = [inc EXCEPT ![i].due = FALSE, ![i].st = "notify-stopped"]
    /\ crossed' = IF Crossing(i) THEN crossed \cup {i} ELSE crossed
    /\ UNCHANGED <<disk, vault, service, tx, pc, route, env, moved, astray>>

\* The ranking excludes the target by now.
NotEligible(t) ==
    /\ pc[t] \in {"asked", "attempted"}
    /\ tx' = [tx EXCEPT ![t] = BlankTx]
    /\ pc' = [pc EXCEPT ![t] = "over"]
    /\ IF pc[t] = "attempted"
       THEN /\ inc' = [inc EXCEPT ![tx[t].inc].st = "notify-stopped"]
            /\ crossed' = crossed \cup {i \in {tx[t].inc} : Crossing(i)'}
       ELSE UNCHANGED <<inc, crossed>>
    /\ UNCHANGED <<disk, vault, service, route, env, moved, astray>>

\* The rest of begin_switch: the account it leaves was read before the await,
\* the epoch is read now, and nothing else is looked at again.  The transaction
\* commits at once (a hot vendor, or no panes), waits for its panes, for the
\* user, or cannot go on (credential-override, pane-scope-unknown, pane-unowned).
Begin(t) ==
    LET i == tx[t].inc IN
    /\ pc[t] \in {"asked", "attempted"}
    /\ \E way \in {"commit", "prepare", "confirm", "stop"} :
          /\ way = "confirm" => ~tx[t].auto
          /\ tx' = [tx EXCEPT ![t].before = epoch, ![t].closed = (way = "stop"),
                             ![t].st = CASE way = "confirm" -> "awaiting-confirmation"
                                         [] way = "stop" -> "cancelled"
                                         [] OTHER -> "preparing"]
          /\ pc' = [pc EXCEPT ![t] = CASE way = "commit" -> "locking" [] way = "stop" -> "over"
                                       [] OTHER -> "waiting"]
          /\ inc' = [inc EXCEPT ![i].st = CASE way = "commit" -> "switching"
                                            [] way = "stop" -> "notify-stopped"
                                            [] OTHER -> "waiting-safe"]
    /\ crossed' = IF inc[i].open THEN crossed ELSE crossed \cup {i}
    /\ UNCHANGED <<disk, vault, service, route, env, moved, astray>>

-----------------------------------------------------------------------------
(* Panes, timers and users                                                  *)

\* confirm: the panes are asked, or there are none.
Confirm(t) ==
    /\ tx[t].st = "awaiting-confirmation"
    /\ tx' = [tx EXCEPT ![t].st = "preparing"]
    /\ \/ Commits(t, tx[t].inc)
       \/ pc' = pc /\ inc' = [inc EXCEPT ![tx[t].inc].st = "waiting-safe"]
    /\ UNCHANGED <<disk, vault, service, route, env, history>>

\* ack: the panes are ready, one is busy, or one refuses.
AckReady(t) ==
    /\ pc[t] = "waiting" /\ tx[t].st \in {"preparing", "waiting-safe"}
    /\ Commits(t, tx[t].inc)
    /\ UNCHANGED <<disk, vault, service, tx, route, env, history>>

AckBusy(t) ==
    /\ pc[t] = "waiting" /\ tx[t].st = "preparing"
    /\ tx' = [tx EXCEPT ![t].st = "waiting-safe"]
    /\ UNCHANGED <<disk, vault, service, inc, pc, route, env, history>>

AckRefused(t) ==
    /\ tx[t].st \in {"preparing", "waiting-safe"}
    /\ tx' = [tx EXCEPT ![t].st = "cancelled", ![t].closed = TRUE]
    /\ pc' = IF pc[t] = "waiting" THEN [pc EXCEPT ![t] = "over"] ELSE pc
    /\ inc' = [inc EXCEPT ![tx[t].inc].st = "notify-stopped"]
    /\ UNCHANGED <<disk, vault, service, route, env, history>>

\* tick: PREPARE_ACK_DEADLINE_S or WAIT_SAFE_MAX_S is over.
Deadline(t) ==
    LET i == tx[t].inc IN
    /\ pc[t] = "waiting" /\ tx[t].st \in {"preparing", "waiting-safe"}
    /\ tx' = [tx EXCEPT ![t].st = "cancelled", ![t].closed = TRUE]
    /\ pc' = [pc EXCEPT ![t] = "over"]
    /\ inc' = IF inc[i].open THEN [inc EXCEPT ![i].st = "notify-stopped"] ELSE inc
    /\ UNCHANGED <<disk, vault, service, route, env, history>>

\* cancel
Cancel(t) ==
    /\ tx[t].st \in Open
    /\ Withdraw({t})
    /\ UNCHANGED <<disk, vault, service, route, env, history>>

\* set_policy
SetPolicy(mode) ==
    /\ up /\ mode # policy
    /\ policy' = mode
    /\ IF mode = "auto" THEN UNCHANGED work
       ELSE Withdraw({t \in Tx : tx[t].auto /\ tx[t].st \in Open})
    /\ UNCHANGED <<dflt, row, vault, service, route, env, history>>

-----------------------------------------------------------------------------
(* The commit                                                               *)

\* Mutant: the wait for the lock is left out.
TakeLockAnyway(t) ==
    /\ pc[t] = "locking"
    /\ IF Refused(t)
       THEN Stop(t, "cancelled") /\ UNCHANGED lock
       ELSE lock' = t /\ pc' = [pc EXCEPT ![t] = "checking"] /\ UNCHANGED <<inc, tx>>
    /\ UNCHANGED <<disk, vault, service, manual, handed, env, history>>

\* The lock is taken and the first recheck made; what the await in between lets
\* happen may as well have happened before.
TakeLock(t) ==
    /\ pc[t] = "locking" /\ lock = None
    /\ IF Refused(t)
       THEN Stop(t, "cancelled") /\ UNCHANGED lock
       ELSE lock' = t /\ pc' = [pc EXCEPT ![t] = "checking"] /\ UNCHANGED <<inc, tx>>
    /\ UNCHANGED <<disk, vault, service, manual, handed, env, history>>

\* switch-lock-timeout
LockTimeout(t) ==
    /\ pc[t] = "locking" /\ lock # None
    /\ Stop(t, "failed")
    /\ UNCHANGED <<disk, vault, service, route, env, history>>

\* A pane spawned or turned busy, a sign-in is pending, another account is live
\* (live_drift), the target cannot sign in or is not eligible any more.
CheckFails(t) ==
    /\ pc[t] = "checking"
    /\ \E how \in {"cancelled", "failed"} : Fail(t, how)
    /\ lock' = None
    /\ UNCHANGED <<disk, vault, service, manual, handed, env, history>>

\* Mutant: what happened during the awaits is not looked at.
IntendUnchecked(t) ==
    /\ pc[t] = "checking" /\ live = tx[t].from
    /\ \E ok \in Written :
          IF ~ok THEN Fail(t, "failed") /\ lock' = None /\ UNCHANGED row
          ELSE /\ tx' = [tx EXCEPT ![t].st = "swapping"]
               /\ row' = [row EXCEPT ![t] = [BlankRow EXCEPT !.st = "swapping", !.auto = tx[t].auto,
                             !.at = clock, !.from = tx[t].from, !.to = tx[t].to]]
               /\ pc' = [pc EXCEPT ![t] = "moving"]
               /\ UNCHANGED <<inc, lock>>
    /\ UNCHANGED <<policy, dflt, vault, service, manual, handed, env, history>>

\* The point of no return: the second recheck, then the intent row.
Intend(t) ==
    /\ pc[t] = "checking" /\ live = tx[t].from
    /\ \E ok \in Written :
          CASE Refused(t) -> Stop(t, "cancelled") /\ lock' = None /\ UNCHANGED row
            [] ~Refused(t) /\ ~ok -> Fail(t, "failed") /\ lock' = None /\ UNCHANGED row
            [] ~Refused(t) /\ ok ->
               /\ tx' = [tx EXCEPT ![t].st = "swapping"]
               /\ row' = [row EXCEPT ![t] = [BlankRow EXCEPT !.st = "swapping", !.auto = tx[t].auto,
                             !.at = clock, !.from = tx[t].from, !.to = tx[t].to]]
               /\ pc' = [pc EXCEPT ![t] = "moving"]
               /\ UNCHANGED <<inc, lock>>
    /\ UNCHANGED <<policy, dflt, vault, service, manual, handed, env, history>>

\* vault.switch captures what is live and restores the target.
Exchange(from, to) ==
    /\ slot' = [slot EXCEPT ![from] = live]
    /\ live' = slot[to]

\* The vault's thread has moved the credentials.
Move(t) ==
    /\ pc[t] = "moving"
    /\ Exchange(tx[t].from, tx[t].to)
    /\ pc' = [pc EXCEPT ![t] = "moved"]
    /\ moved' = IF tx[t].auto THEN [moved EXCEPT ![t] = clock] ELSE moved
    /\ UNCHANGED <<disk, service, inc, tx, route, env, astray, crossed>>

\* It failed and rolled back; the row may stay as the intent.
MoveFails(t) ==
    /\ pc[t] = "moving"
    /\ Fail(t, "failed")
    /\ \E ok \in Written : row' = IF ok THEN [row EXCEPT ![t].st = "failed"] ELSE row
    /\ lock' = None
    /\ UNCHANGED <<policy, dflt, vault, service, manual, handed, env, history>>

\* Mutant: a default that was not persisted is only logged.
BookSilently(t) ==
    /\ pc[t] = "moved"
    /\ epoch' = epoch + 1
    /\ \E ok, told \in Written :
          /\ dflt' = IF ok THEN tx[t].to ELSE dflt
          /\ tx' = [tx EXCEPT ![t].st = IF ok /\ told THEN "committed" ELSE "partial",
                              ![t].after = epoch + 1]
          /\ row' = IF ~told THEN row
                    ELSE [row EXCEPT ![t].st = IF ok THEN "committed" ELSE "partial",
                                     ![t].swapped = TRUE, ![t].at = clock, ![t].known = ~ok]
          /\ degraded' = ~told
    /\ inc' = [inc EXCEPT ![tx[t].inc].st = "settling"]
    /\ pc' = [pc EXCEPT ![t] = "settle"]
    /\ lock' = None
    /\ UNCHANGED <<policy, vault, unrec, manual, handed, env, history>>

\* The bookkeeping of a move, up to the settle timer: the epoch, the default,
\* the outcome row.  Either write may fail.
Book(t) ==
    /\ pc[t] = "moved"
    /\ epoch' = epoch + 1
    /\ \E ok, told \in Written :
          /\ dflt' = IF ok THEN tx[t].to ELSE dflt
          /\ unrec' = IF ok THEN unrec ELSE [tx |-> t, live |-> tx[t].to]
          /\ tx' = [tx EXCEPT ![t].st = IF ok /\ told THEN "committed" ELSE "partial",
                              ![t].after = epoch + 1]
          /\ row' = IF ~told THEN row
                    ELSE [row EXCEPT ![t].st = IF ok THEN "committed" ELSE "partial",
                                     ![t].swapped = TRUE, ![t].at = clock, ![t].known = ~ok]
          /\ degraded' = ~told
    /\ inc' = [inc EXCEPT ![tx[t].inc].st = "settling"]
    /\ pc' = [pc EXCEPT ![t] = "settle"]
    /\ lock' = None
    /\ UNCHANGED <<policy, vault, manual, handed, env, history>>

-----------------------------------------------------------------------------
(* Evidence and recovery                                                    *)

\* SETTLE_TIMEOUT_S after the commit.
SettleTimeout(t) ==
    LET i == tx[t].inc IN
    /\ pc[t] = "settle"
    /\ IF inc[i].open /\ inc[i].st = "settling"
       THEN tx' = ClosedTxs(i) /\ inc' = [inc EXCEPT ![i] = Settled(i, "notify-stopped")]
       ELSE UNCHANGED <<tx, inc>>
    /\ pc' = [pc EXCEPT ![t] = "over"]
    /\ UNCHANGED <<disk, vault, service, route, env, history>>

\* A turn or a usage reading of the new account (settle, observe_usage).
Evidence(t) ==
    LET i == tx[t].inc IN
    /\ Swapped(t) /\ tx[t].after = epoch /\ dflt = tx[t].to
    /\ inc[i].open /\ inc[i].st = "settling"
    /\ \E how \in {"ready", "notify-stopped"} :
          /\ how = "ready" => tx[t].st = "committed"
          /\ inc' = [inc EXCEPT ![i] = Settled(i, how)]
    /\ tx' = ClosedTxs(i)
    /\ pc' = [pc EXCEPT ![t] = IF @ = "settle" THEN "over" ELSE @]
    /\ UNCHANGED <<disk, vault, service, route, env, history>>

\* observe_usage of the outgoing account: it has room again.
Recovered(i) ==
    /\ inc[i].open /\ inc[i].st \in {"detected", "notify-stopped"}
    /\ \A t \in TxsOf(i) : ~Swapped(t)
    /\ inc' = [inc EXCEPT ![i] = Settled(i, "ready")]
    /\ tx' = ClosedTxs(i)
    /\ pc' = ClosedPcs(i)
    /\ UNCHANGED <<disk, vault, service, route, env, history>>

\* reconcile: the user names the live account.
Reconcile ==
    /\ unrec # None /\ lock = None
    /\ live \in (IF unrec.live # None THEN {unrec.live}
                 ELSE {row[unrec.tx].from, row[unrec.tx].to})
    /\ dflt' = live
    /\ \E ok \in Written :
          IF ok
          THEN /\ row' = [row EXCEPT ![unrec.tx].reconciled = TRUE]
               /\ unrec' = None
               /\ epoch' = epoch + 1
               /\ tx' = [tx EXCEPT ![unrec.tx].closed = (@ \/ tx[unrec.tx].st # "none")]
          ELSE UNCHANGED <<row, unrec, epoch, tx>>
    /\ UNCHANGED <<policy, vault, degraded, inc, pc, route, env, history>>

-----------------------------------------------------------------------------
(* The manual route, and a crash                                            *)

\* Mutant: the manual route does not ask for unreconciled moves.
ManualMoveAnyway(s) ==
    /\ up /\ handed < ByHand /\ lock = None /\ s # dflt
    /\ Exchange(dflt, s)
    /\ lock' = ByManual /\ manual' = s /\ handed' = handed + 1
    /\ UNCHANGED <<disk, service, work, env, history>>

\* cli_profiles.set_default under the switch lock, up to the swap.
ManualMove(s) ==
    /\ up /\ handed < ByHand /\ lock = None /\ s # dflt
    /\ unrec = None
    /\ Exchange(dflt, s)
    /\ lock' = ByManual /\ manual' = s /\ handed' = handed + 1
    /\ UNCHANGED <<disk, service, work, env, history>>

\* set_default, or it fails and the handler returns.
ManualPersist ==
    /\ lock = ByManual /\ manual # dflt
    /\ \E ok \in Written :
          IF ok THEN dflt' = manual /\ UNCHANGED <<lock, manual, astray>>
          ELSE lock' = None /\ manual' = None /\ astray' = TRUE /\ UNCHANGED dflt
    /\ UNCHANGED <<policy, row, vault, service, work, handed, env, moved, crossed>>

\* The lock is released and on_manual_switch runs.
ManualDone ==
    /\ lock = ByManual /\ manual = dflt
    /\ lock' = None /\ manual' = None
    /\ epoch' = epoch + 1
    /\ tx' = [t \in Tx |-> IF tx[t].st \in Open
                           THEN [tx[t] EXCEPT !.st = "cancelled", !.closed = TRUE] ELSE tx[t]]
    /\ pc' = [t \in Tx |-> IF pc[t] = "waiting" THEN "over" ELSE pc[t]]
    /\ inc' = [i \in Inc |->
                  IF inc[i].open /\ inc[i].st \in {"detected", "waiting-safe", "switching"}
                  THEN [inc[i] EXCEPT !.st = "notify-stopped"] ELSE inc[i]]
    /\ UNCHANGED <<disk, vault, degraded, unrec, handed, env, history>>

Tick ==
    /\ clock < Horizon
    /\ \A t \in Tx : pc[t] \notin {"moving", "moved"}
    /\ clock' = clock + 1
    /\ UNCHANGED <<disk, vault, service, work, route, up, died, history>>

\* The process dies; its memory is gone.
Crash ==
    /\ up /\ died < Crashes
    /\ up' = FALSE /\ died' = died + 1
    /\ epoch' = 0 /\ degraded' = FALSE /\ unrec' = None
    /\ inc' = [i \in Inc |-> BlankInc]
    /\ tx' = [t \in Tx |-> BlankTx]
    /\ pc' = [t \in Tx |-> "over"]
    /\ lock' = None /\ manual' = None
    /\ astray' = (astray \/ (lock = ByManual /\ manual # dflt))
    /\ crossed' = {}
    /\ UNCHANGED <<disk, vault, clock, handed, moved>>

\* Mutant: an intent without an outcome is taken for a swap that never ran.
UnreconciledOutcomes == {t \in Tx : row[t].st = "partial" /\ row[t].known /\ ~row[t].reconciled}

\* unreconciled_rows
Unreconciled ==
    {t \in Tx : ~row[t].reconciled /\ (row[t].st = "swapping" \/ (row[t].st = "partial" /\ row[t].known))}

\* _load_unreconciled: what the default has caught up with is settled, the
\* latest of the others blocks the agent.
Restart ==
    LET caught == {t \in Unreconciled : row[t].known /\ row[t].to = dflt}
        left == Unreconciled \ caught
        latest == {t \in left : \A u \in left : row[u].at <= row[t].at}
    IN
    /\ ~up /\ up' = TRUE
    /\ row' = [t \in Tx |-> IF t \in caught THEN [row[t] EXCEPT !.reconciled = TRUE] ELSE row[t]]
    /\ IF left = {} THEN UNCHANGED unrec
       ELSE \E t \in latest : unrec' = [tx |-> t, live |-> IF row[t].known THEN row[t].to ELSE None]
    /\ UNCHANGED <<policy, dflt, vault, epoch, degraded, work, route, clock, died, history>>

Next ==
    \/ \E i \in Inc, s \in Slot, e \in 0..epoch : Report(i, s, e)
    \/ \E t \in Tx, i \in Inc, to \in Slot :
          Attempt(t, i, to) \/ Propose(t, i, to)
    \/ \E i \in Inc : AttemptRefused(i) \/ Recovered(i)
    \/ \E t \in Tx :
          \/ NotEligible(t) \/ Begin(t) \/ Confirm(t) \/ AckReady(t) \/ AckBusy(t) \/ AckRefused(t)
          \/ Deadline(t) \/ Cancel(t) \/ TakeLock(t) \/ LockTimeout(t)
          \/ CheckFails(t) \/ Intend(t) \/ Move(t) \/ MoveFails(t) \/ Book(t)
          \/ SettleTimeout(t) \/ Evidence(t)
    \/ \E mode \in {"auto", "notify"} : SetPolicy(mode)
    \/ \E s \in Slot : ManualMove(s)
    \/ Reconcile \/ ManualPersist \/ ManualDone \/ Tick \/ Crash \/ Restart

Spec == Init /\ [][Next]_vars

-----------------------------------------------------------------------------
\* Every variable holds what the code puts there, and the switch lock is held by
\* the one commit that is past it.
TypeOK ==
    /\ clock \in 0..Horizon /\ up \in BOOLEAN /\ died \in 0..Crashes /\ handed \in 0..ByHand
    /\ policy \in {"auto", "notify"} /\ {dflt, live} \subseteq Slot /\ slot \in [Slot -> Slot]
    /\ row \in [Tx -> [st : {"none", "swapping", "failed", "committed", "partial"},
                       auto : BOOLEAN, swapped : BOOLEAN, at : 0..Horizon,
                       from : Slot, to : Slot, known : BOOLEAN, reconciled : BOOLEAN]]
    /\ epoch \in Nat /\ degraded \in BOOLEAN
    /\ unrec \in {None} \cup [tx : Tx, live : Slot \cup {None}]
    /\ manual \in Slot \cup {None} /\ (manual # None <=> lock = ByManual)
    /\ inc \in [Inc -> [st : {"none", "detected", "waiting-safe", "switching", "settling",
                              "notify-stopped", "ready"},
                        open : BOOLEAN, out : Slot, epoch : Nat, due : BOOLEAN]]
    /\ tx \in [Tx -> [st : {"none", "asked", "swapping", "cancelled", "failed", "committed",
                            "partial"} \cup Open,
                      inc : Inc \cup {None}, from : Slot, to : Slot, auto : BOOLEAN,
                      before : Nat, after : Nat, closed : BOOLEAN]]
    /\ pc \in [Tx -> {"over", "asked", "attempted", "waiting", "settle"} \cup Committing]
    /\ moved \in [Tx -> 0..Horizon \cup {None}]
    /\ astray \in BOOLEAN /\ crossed \subseteq Inc
    /\ \A t \in Tx : pc[t] \in Committing \ {"locking"} <=> lock = t
    /\ lock \in Tx \cup {None, ByManual}

\* "A crash or a failed second write leaves the intent row, which the budget
\* counts": automatic moves keep their distance, and no window holds more than
\* the limit, whatever was lost in between.
BudgetHolds ==
    LET auto == {t \in Tx : moved[t] # None} IN
    \A t \in auto :
        /\ \A u \in auto \ {t} : moved[u] >= moved[t] + Gap \/ moved[t] >= moved[u] + Gap
        /\ Cardinality({u \in auto : moved[u] <= moved[t] /\ moved[u] + Window > moved[t]}) <= Limit

\* While a move of this module has not reached the default, the agent is blocked:
\* the next switch would file the live credentials under the wrong account.
BlockedWhileApart ==
    up /\ lock = None /\ live # dflt /\ ~astray => unrec # None

\* No account's only copy is overwritten with another's, through failed writes,
\* crashes and switches by hand.
SlotsKeepOwner == ~astray => \A s \in Slot : slot[s] = s

\* "Nothing here may revive a closed transaction": one that was withdrawn while
\* its commit waited moves nothing.
ClosedStaysClosed ==
    [][\A t \in Tx : tx[t].st \in {"cancelled", "failed"} /\ up' => tx'[t].st \in {"cancelled", "failed"}]_vars

\* _withdraw: an incident "left in waiting-safe / switching with no open
\* transaction would read as switching forever and swallow the next report".
NoOrphanedSwitching ==
    \A i \in OpenIncidents : inc[i].st \in {"waiting-safe", "switching"} =>
        \E t \in TxsOf(i) : tx[t].st \in Open \/ pc[t] \in Committing

\* unsettled: "Committed, but the incident still awaits evidence".  So it does
\* as long as the incident was one attempt's own.
AwaitsEvidence ==
    \A t \in Tx : Unsettled(t) /\ tx[t].inc \notin crossed =>
        inc[tx[t].inc].open /\ inc[tx[t].inc].st = "settling"
=============================================================================
