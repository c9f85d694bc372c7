------------------------------ MODULE Scheduler ------------------------------
(***************************************************************************)
(* The in-process scheduler (backend/agent_team_backend/scheduler.py).     *)
(*                                                                         *)
(* A job is a persisted row.  One asyncio task ticks: it lists the rows    *)
(* once and walks that listing, awaiting on the way, so that by the time a *)
(* job's turn comes its row may have changed.  A second task runs, after a *)
(* start-up, the jobs whose slot passed while the program was closed.  The *)
(* user and the agents edit rows and start runs by hand.  Each run is a    *)
(* task of its own.  They share one asyncio lock: a locked section is one  *)
(* step, except the start of a run, which writes its mark in the row       *)
(* ("claimed", the lock held) before it registers the task.                *)
(*                                                                         *)
(* Abstracted: the calendar (a periodic job is an interval), the backoff   *)
(* ladder (one rung), what is delivered, the grounds on which the          *)
(* gate refuses besides the agents' total (it may at any time), the run    *)
(* history, the identity of one agent among several.                       *)
(***************************************************************************)
EXTENDS Integers, FiniteSets, Sequences, Functions

CONSTANTS
  Order,        \* the jobs, in the order the store lists them
  Once,         \* the jobs with a single slot; the others are periodic
  Editors,      \* who edits: "user", "agent", "system"
  Initial,      \* the rows a first start may find
  Outcomes,     \* how a run may end: "ok", "error", "skipped", "gone"
  DropMissed,   \* the jobs whose policy drops a missed slot (catch_up "skip")
  Callers,      \* concurrent run_now calls
  RunIds,       \* names of runs (running_at), unique while in use
  Every, Timeout, Backoff, Expire, KeepOnce,   \* periods, in clock units
  GoneMax,      \* TARGET_GONE_DISABLE_AFTER
  AgentTotal,   \* AGENT_RUNS_PER_DAY_TOTAL
  EnabledMax,   \* AGENT_ENABLED_TOTAL
  MaxTime, MaxEdits, MaxCrashes,               \* bounds of the model
  NoRun

Jobs == Range(Order)
Never == -1
Loops == {"tick", "catchup"}
Actors == Loops \cup Callers

\* A row of scheduler_jobs; a time is Never while it is not set.
Rows == [st : {"here", "absent", "deleted"}, owner : {"user", "agent", "system"},
         enabled : BOOLEAN, next : Int, moment : Nat, since : Nat, backoff : Int,
         running : RunIds \cup {NoRun}, gone : Nat, expires : Int, updated : Nat]

ASSUME SchedulerAssumption ==
  /\ AgentTotal \in Nat
  /\ IsFiniteSet(Callers) /\ Callers \cap Loops = {}
  /\ Order \in Seq(Jobs) /\ Order # <<>>
  /\ \A m, n \in DOMAIN Order : Order[m] = Order[n] => m = n
  /\ Every \in Nat \ {0}
  /\ {Timeout, Backoff, Expire, KeepOnce, GoneMax, MaxTime} \subseteq Nat
  /\ Editors \subseteq {"user", "agent", "system"}
  /\ NoRun \notin RunIds
  /\ Initial \subseteq [Jobs -> Rows]
  /\ \A rows \in Initial, j \in Jobs : rows[j].st # "here" => rows[j].running = NoRun

VARIABLES
  up,        \* the backend runs
  now,       \* the wall clock
  row,       \* scheduler_jobs
  usage,     \* scheduler_usage: the agents' dispatched runs of the day
  at,        \* where each actor stands
  todo,      \* what is left of the listing the tick walks, as it saw it
  seen,      \* the clock the tick read when it listed
  queue,     \* the jobs catch-up has still to run
  pending,   \* _catch_up_pending
  task,      \* the live run tasks
  reg,       \* _runs: the task registered for a job
  edits, crashes,   \* counters for the bounds
  fires      \* history: scheduled starts since the job's slot was armed

loops == <<todo, seen, queue, pending>>
vars == <<up, now, row, usage, at, loops, task, reg, edits, crashes, fires>>

\* An actor: what it is about to do, for which job and run; whether a run it
\* starts is counted for the agents, whether the run it settles was by hand.
At(pc, job, count, manual, run) ==
  [pc |-> pc, job |-> job, count |-> count, manual |-> manual, run |-> run]
Idle == At("idle", Order[1], FALSE, FALSE, NoRun)
Visit == At("visit", Order[1], FALSE, FALSE, NoRun)
NoTask == [live |-> FALSE, job |-> Order[1], manual |-> FALSE]

NewRow == [st |-> "here", owner |-> "user", enabled |-> TRUE, next |-> 0, moment |-> 0,
           running |-> NoRun, since |-> 0, backoff |-> Never, gone |-> 0,
           expires |-> Never, updated |-> 0]
Deleted == [NewRow EXCEPT !.st = "deleted"]

LockFree == \A a \in Actors : at[a].pc # "claimed"
Unused(i) ==
  /\ ~task[i].live
  /\ \A j \in Jobs : row[j].running # i
  /\ \A a \in Actors : at[a].run # i

------------------------------------------------------------------------------
(* The schedule.                                                           *)

\* The first slot strictly after t, in the phase set by the schedule's moment;
\* a once job has none after it.
NextAfter(j, r, t) ==
  IF r.moment > t THEN r.moment
  ELSE IF j \in Once THEN Never
  ELSE r.moment + ((t - r.moment) \div Every + 1) * Every

Due(r, t) == r.next # Never /\ r.next <= t

\* A skipped slot is left behind; it was the only one of a once job.
Skipped(j, r, t) ==
  [r EXCEPT !.next = NextAfter(j, r, t), !.enabled = @ /\ j \notin Once,
            !.updated = IF j \in Once THEN t ELSE @]

\* The row after the run i ended.
Settled(j, r, outcome, manual) ==
  LET gone == CASE outcome = "gone" -> r.gone + 1
                [] outcome = "skipped" -> r.gone
                [] OTHER -> 0
      stops == (r.enabled /\ gone >= GoneMax) \/ (~manual /\ j \in Once)
  IN [r EXCEPT
        !.running = NoRun, !.since = 0,
        !.backoff = CASE outcome = "ok" -> Never
                      [] outcome = "error" -> now + Backoff
                      [] OTHER -> @,
        !.gone = gone,
        !.next = IF manual THEN @ ELSE NextAfter(j, r, now),
        !.enabled = @ /\ ~stops,
        !.updated = IF stops THEN now ELSE @]

\* History: a slot counts from the moment it is armed.
Recount(started) ==
  fires' = [j \in Jobs |->
    IF row'[j].next # row[j].next /\ row'[j].next # Never THEN 0
    ELSE fires[j] + (IF j \in started THEN 1 ELSE 0)]

------------------------------------------------------------------------------
(* Moving along.                                                           *)

Step(a, rec) == at' = [at EXCEPT ![a] = rec]

\* Mutant: the tick goes on past the end of its listing.
DonePast(a) ==
  /\ Step(a, IF a = "catchup" \/ (a = "tick" /\ Len(todo) > 0) THEN Visit ELSE Idle)
  /\ todo' = IF a = "tick" THEN Tail(todo) ELSE todo
  /\ seen' = IF a = "tick" /\ Len(todo) = 1 THEN 0 ELSE seen
  /\ UNCHANGED <<queue, pending>>

\* Actor a is done with its job: the tick goes down its listing, catch-up
\* down its queue, a run_now call is answered.
Done(a) ==
  /\ Step(a, IF a = "catchup" \/ (a = "tick" /\ Len(todo) > 1) THEN Visit ELSE Idle)
  /\ todo' = IF a = "tick" THEN Tail(todo) ELSE todo
  /\ seen' = IF a = "tick" /\ Len(todo) = 1 THEN 0 ELSE seen
  /\ UNCHANGED <<queue, pending>>

\* The task of job j, if one is registered, is cancelled and forgotten.
\* Catch-up awaits its run through a shield: the cancellation ends it too.
CancelTask(j) ==
  /\ task' = [i \in RunIds |-> IF i = reg[j] THEN NoTask ELSE task[i]]
  /\ reg' = [reg EXCEPT ![j] = NoRun]

Orphaned(a, i) == i # NoRun /\ a = "catchup" /\ at[a].pc = "wait" /\ at[a].run = i
Abandon(i) == [a \in Actors |->
  IF Orphaned(a, i) THEN At("abort", Order[1], FALSE, FALSE, i) ELSE at[a]]

------------------------------------------------------------------------------
(* Start-up, shutdown, and the catch-up task.                              *)

\* Mutant: a start-up leaves the marks it finds.
InterruptedUnseen(j) == row[j].st = "absent" /\ row[j].running # NoRun
Interrupted(j) == row[j].st = "here" /\ row[j].running # NoRun
Unplanned(j) == row[j].st = "here" /\ row[j].running = NoRun /\ row[j].next = Never
Missed(j) == /\ row[j].st = "here" /\ row[j].running = NoRun
             /\ row[j].enabled /\ Due(row[j], now)

\* The orders in which the jobs at the places S of the store are taken: as they
\* are listed, or (a stable sort) by the slot they missed.
Listed(S) ==
  {f \in [1 .. Cardinality(S) -> S] :
     \A m, n \in 1 .. Cardinality(S) : m < n => f[m] < f[n]}
Earlier(p, q) ==
  LET s == row[Order[p]].next  t == row[Order[q]].next IN s < t \/ (s = t /\ p < q)
Sorted(S) ==
  {f \in [1 .. Cardinality(S) -> S] :
     \A m, n \in 1 .. Cardinality(S) : m < n => Earlier(f[m], f[n])}

Boot ==
  /\ ~up
  /\ up' = TRUE
  /\ row' = [j \in Jobs |->
       CASE Interrupted(j) -> Skipped(j, [row[j] EXCEPT !.running = NoRun, !.since = 0], now)
         [] Unplanned(j) -> [row[j] EXCEPT !.next = NextAfter(j, row[j], now)]
         [] Missed(j) /\ j \in DropMissed -> Skipped(j, row[j], now)
         [] OTHER -> row[j]]
  /\ LET overdue == {n \in DOMAIN Order : Missed(Order[n]) /\ Order[n] \notin DropMissed}
     IN /\ \E f \in Sorted(overdue) : queue' = [n \in DOMAIN f |-> Order[f[n]]]
        /\ pending' = {Order[n] : n \in overdue}
        /\ at' = IF overdue = {} THEN at ELSE [at EXCEPT !["catchup"] = Visit]
  /\ Recount({})
  /\ UNCHANGED <<now, usage, todo, seen, task, reg, edits, crashes>>

\* The process ends, killed or closed: the rows are all that stays.
Crash ==
  /\ up /\ crashes < MaxCrashes
  /\ up' = FALSE
  /\ at' = [a \in Actors |-> Idle]
  /\ todo' = <<>> /\ seen' = 0 /\ queue' = <<>> /\ pending' = {}
  /\ task' = [i \in RunIds |-> NoTask]
  /\ reg' = [j \in Jobs |-> NoRun]
  /\ crashes' = crashes + 1
  /\ UNCHANGED <<now, row, usage, edits, fires>>

Clock ==
  /\ now < MaxTime
  /\ now' = now + 1
  /\ UNCHANGED <<up, row, usage, at, loops, task, reg, edits, crashes, fires>>

------------------------------------------------------------------------------
(* One firing: the gate, the claim, the registration.                      *)

Agents(j) == row[j].owner = "agent"
AgentRunsSpent == usage >= AgentTotal

\* Mutant: the gate does not read the agents' total.
GateUncounted(a, j, agent) ==
  \/ Step(a, At("gated", j, agent, FALSE, NoRun))
  \/ Step(a, At("refused", j, FALSE, FALSE, NoRun))
\* The gate passes or refuses; an agent's job it refuses once the total of
\* the day is used up.
Gate(a, j, agent) ==
  \/ /\ ~(agent /\ AgentRunsSpent)
     /\ Step(a, At("gated", j, agent, FALSE, NoRun))
  \/ Step(a, At("refused", j, FALSE, FALSE, NoRun))

\* A refusal is recorded on the row as it stands now.
RecordRefusal(a) ==
  LET j == at[a].job
  IN /\ at[a].pc = "refused" /\ LockFree
     /\ row' = IF row[j].st = "here" /\ row[j].running = NoRun
               THEN [row EXCEPT ![j] = Skipped(j, @, IF a = "tick" THEN seen ELSE now)]
               ELSE row
     /\ Done(a)
     /\ Recount({})
     /\ UNCHANGED <<up, now, usage, task, reg, edits, crashes>>

\* Mutant: a start does not look at the slot again.
StartableAgain(a, j) == row[j].st = "here" /\ row[j].running = NoRun
Startable(a, j) ==
  /\ row[j].st = "here" /\ row[j].running = NoRun
  /\ a \in Loops => row[j].next <= now

\* The mark goes into the row before anything is dispatched.
Claim(a) ==
  LET j == at[a].job
  IN /\ at[a].pc = "gated" /\ LockFree /\ Startable(a, j)
     /\ \E i \in RunIds :
          /\ Unused(i) /\ \A k \in RunIds : Unused(k) => i <= k
          /\ row' = [row EXCEPT ![j].running = i, ![j].since = now]
          /\ Step(a, At("claimed", j, at[a].count, FALSE, i))
     /\ Recount(IF a \in Loops THEN {j} ELSE {})
     /\ UNCHANGED <<up, now, usage, loops, task, reg, edits, crashes>>

Decline(a) ==
  /\ at[a].pc = "gated" /\ LockFree /\ ~Startable(a, at[a].job)
  /\ Done(a)
  /\ UNCHANGED <<up, now, row, usage, task, reg, edits, crashes, fires>>

\* The run is counted, its task created and registered, the lock released.
Register(a) ==
  LET j == at[a].job  i == at[a].run
  IN /\ at[a].pc = "claimed"
     /\ usage' = IF at[a].count THEN usage + 1 ELSE usage
     /\ task' = [task EXCEPT ![i] = [live |-> TRUE, job |-> j, manual |-> a \in Callers]]
     /\ reg' = [reg EXCEPT ![j] = i]
     /\ IF a = "catchup"
        THEN Step(a, At("wait", Order[1], FALSE, FALSE, i)) /\ UNCHANGED loops
        ELSE Done(a)
     /\ UNCHANGED <<up, now, row, edits, crashes, fires>>

------------------------------------------------------------------------------
(* Catch-up: one missed job after the other, each read afresh.             *)

CatchUpNext ==
  /\ at["catchup"].pc = "visit" /\ queue # <<>>
  /\ LET j == Head(queue)
     IN /\ queue' = Tail(queue)
        /\ pending' = pending \ {j}
        /\ IF row[j].st = "here" /\ row[j].enabled /\ row[j].running = NoRun
           THEN Gate("catchup", j, Agents(j))
           ELSE UNCHANGED at
  /\ UNCHANGED <<up, now, row, usage, todo, seen, task, reg, edits, crashes, fires>>

CatchUpWaited ==
  /\ at["catchup"].pc = "wait" /\ ~task[at["catchup"].run].live
  /\ Step("catchup", Visit)
  /\ UNCHANGED <<up, now, row, usage, loops, task, reg, edits, crashes, fires>>

\* Mutant: a cancelled catch-up keeps its jobs pending.
CatchUpEndHolding ==
  /\ \/ at["catchup"].pc = "visit" /\ queue = <<>>
     \/ at["catchup"].pc = "abort"
  /\ Step("catchup", Idle)
  /\ queue' = <<>> /\ pending' = pending
  /\ UNCHANGED <<up, now, row, usage, todo, seen, task, reg, edits, crashes, fires>>
\* The end of the queue, or the cancellation of the awaited run: either way
\* nothing stays pending.
CatchUpEnd ==
  /\ \/ at["catchup"].pc = "visit" /\ queue = <<>>
     \/ at["catchup"].pc = "abort"
  /\ Step("catchup", Idle)
  /\ queue' = <<>> /\ pending' = {}
  /\ UNCHANGED <<up, now, row, usage, todo, seen, task, reg, edits, crashes, fires>>

------------------------------------------------------------------------------
(* The tick: what the listing shows of a job decides what is done to it.   *)

Verdict(j) ==
  LET r == row[j]  free == r.st = "here" /\ r.running = NoRun
  IN CASE free /\ Agents(j) /\ r.enabled /\ r.expires # Never /\ now >= r.expires -> "expire"
       [] free /\ Agents(j) /\ ~r.enabled /\ j \in Once /\ now >= r.updated + KeepOnce -> "delete"
       [] r.st = "here" /\ r.running # NoRun /\ now >= r.since + Timeout -> "stuck"
       [] free /\ r.enabled /\ now >= r.backoff /\ Due(r, now) -> "due"
       [] OTHER -> "nothing"

Listing == [n \in DOMAIN Order |->
              [job |-> Order[n], what |-> Verdict(Order[n]), owner |-> row[Order[n]].owner]]

\* Jobs the listing shows nothing to do for are passed over at once.
TickList ==
  /\ up /\ at["tick"].pc = "idle" /\ LockFree
  /\ LET called == {n \in DOMAIN Order : Listing[n].what # "nothing"}
     IN /\ called # {}
        /\ \E f \in Listed(called) : todo' = [n \in DOMAIN f |-> Listing[f[n]]]
  /\ seen' = now
  /\ Step("tick", Visit)
  /\ UNCHANGED <<up, now, row, usage, queue, pending, task, reg, edits, crashes, fires>>

Visiting(what) == at["tick"].pc = "visit" /\ Head(todo).what = what

\* The sweep of agents' jobs.  The expiry is read in the listing; under the
\* lock only "enabled" and "running" are read again.
TickExpire ==
  LET j == Head(todo).job
  IN /\ Visiting("expire") /\ LockFree
     /\ row' = IF row[j].st = "here" /\ row[j].enabled /\ row[j].running = NoRun
               THEN [row EXCEPT ![j].enabled = FALSE, ![j].updated = seen] ELSE row
     /\ Done("tick")
     /\ UNCHANGED <<up, now, usage, task, reg, edits, crashes, fires>>

TickDelete ==
  /\ Visiting("delete") /\ LockFree
  /\ row' = [row EXCEPT ![Head(todo).job] = Deleted]
  /\ Done("tick")
  /\ UNCHANGED <<up, now, usage, task, reg, edits, crashes, fires>>

\* The task registered now is cancelled; then the row is read, and the run
\* it names is settled as timed out.
TickStuck ==
  LET j == Head(todo).job
  IN /\ Visiting("stuck")
     /\ CancelTask(j)
     /\ at' = [Abandon(reg[j]) EXCEPT !["tick"] =
                 At("stuck", j, FALSE, reg[j] # NoRun /\ task[reg[j]].manual, NoRun)]
     /\ UNCHANGED <<up, now, row, usage, loops, edits, crashes, fires>>

TickStuckRead ==
  LET j == at["tick"].job
  IN /\ at["tick"].pc = "stuck"
     /\ IF row[j].st = "here" /\ row[j].running # NoRun
        THEN Step("tick", At("fail", j, FALSE, at["tick"].manual, row[j].running))
             /\ UNCHANGED loops
        ELSE Done("tick")
     /\ UNCHANGED <<up, now, row, usage, task, reg, edits, crashes, fires>>

TickFail ==
  LET j == at["tick"].job
  IN /\ at["tick"].pc = "fail" /\ LockFree
     /\ row' = IF row[j].st = "here" /\ row[j].running = at["tick"].run
               THEN [row EXCEPT ![j] = Settled(j, @, "error", at["tick"].manual)] ELSE row
     /\ Done("tick")
     /\ Recount({})
     /\ UNCHANGED <<up, now, usage, task, reg, edits, crashes>>

TickDue ==
  LET e == Head(todo)
  IN /\ Visiting("due")
     /\ IF e.job \in pending THEN Done("tick")
        ELSE Gate("tick", e.job, e.owner = "agent") /\ UNCHANGED loops
     /\ UNCHANGED <<up, now, row, usage, task, reg, edits, crashes, fires>>

------------------------------------------------------------------------------
(* A run ends by itself.                                                   *)

RunEnds(i, outcome) ==
  LET j == task[i].job
  IN /\ task[i].live /\ LockFree
     /\ row' = IF row[j].st = "here" /\ row[j].running = i
               THEN [row EXCEPT ![j] = Settled(j, @, outcome, task[i].manual)] ELSE row
     /\ task' = [task EXCEPT ![i] = NoTask]
     /\ reg' = IF reg[j] = i THEN [reg EXCEPT ![j] = NoRun] ELSE reg
     /\ Recount({})
     /\ UNCHANGED <<up, now, usage, at, loops, edits, crashes>>

------------------------------------------------------------------------------
(* What the user, the agents and Navide's own features do to a job.        *)

MayChange(actor, j) ==
  IF row[j].owner = "system" \/ actor = "system" THEN actor = row[j].owner
  ELSE actor = "agent" => row[j].owner = "agent"

Editing ==
  /\ up /\ LockFree /\ edits < MaxEdits
  /\ edits' = edits + 1
  /\ UNCHANGED <<up, now, crashes, loops>>

AgentMayEnable(j) ==
  Cardinality({k \in Jobs \ {j} : row[k].st = "here" /\ row[k].enabled /\ Agents(k)})
    < EnabledMax

\* Only an agent's periodic job that nobody kept expires (_stamp_expiry).
Expiry(j, owner, old, refresh) ==
  IF owner # "agent" \/ j \in Once THEN Never
  ELSE IF old.st = "here" /\ old.expires = Never THEN Never
  ELSE IF refresh THEN now + Expire ELSE old.expires

\* Mutant: every save arms the job again.
ArmedAnyway(j, r, old, armed) ==
  IF j \in Once /\ r.moment # old.moment THEN r.moment ELSE NextAfter(j, r, now)
\* The slot of a job as saved: a new schedule or the enabling of the job arms
\* it, saving it again with the schedule it had does not (normalize_job).
Armed(j, r, old, armed) ==
  IF j \in Once /\ (old.st = "absent" \/ r.moment # old.moment) THEN r.moment
  ELSE IF armed \/ r.moment # old.moment \/ (r.next = Never /\ j \notin Once)
  THEN NextAfter(j, r, now) ELSE r.next

\* Create or save a job, with moment m and perhaps another target.
Upsert(actor, j, en, m, retargeted) ==
  LET r == row[j]
      new == r.st = "absent"
      enabling == en /\ (new \/ ~r.enabled)
      saved == [r EXCEPT !.st = "here", !.owner = IF new THEN actor ELSE @,
                         !.enabled = en, !.updated = now, !.moment = m,
                         !.gone = IF enabling \/ retargeted THEN 0 ELSE @]
  IN /\ Editing
     /\ r.st # "deleted" /\ (~new => MayChange(actor, j))
     /\ new \/ m # r.moment => m >= now
     /\ j \in Once /\ enabling /\ ~new /\ m = r.moment => NextAfter(j, saved, now) # Never
     /\ actor = "agent" /\ enabling => AgentMayEnable(j)
     /\ row' = [row EXCEPT ![j] =
          [saved EXCEPT !.next = Armed(j, saved, r, new \/ enabling),
                        !.expires = Expiry(j, saved.owner, r, actor = "agent" \/ enabling)]]
     /\ Recount({})
     /\ UNCHANGED <<usage, at, task, reg>>

SetEnabled(actor, j, en) ==
  LET r == row[j]  enabling == en /\ ~r.enabled
  IN /\ Editing
     /\ r.st = "here" /\ MayChange(actor, j)
     /\ enabling => /\ actor = "agent" => AgentMayEnable(j)
                    /\ NextAfter(j, r, now) # Never
     /\ row' = [row EXCEPT ![j] =
          [r EXCEPT !.enabled = en, !.updated = now,
                    !.expires = IF enabling THEN Expiry(j, r.owner, r, TRUE) ELSE @,
                    !.gone = IF enabling THEN 0 ELSE @,
                    !.next = IF enabling THEN NextAfter(j, r, now) ELSE @]]
     /\ Recount({})
     /\ UNCHANGED <<usage, at, task, reg>>

RemoveJob(actor, j) ==
  /\ Editing
  /\ row[j].st = "here" /\ MayChange(actor, j)
  /\ row' = [row EXCEPT ![j] = Deleted]
  /\ CancelTask(j)
  /\ at' = Abandon(reg[j])
  /\ UNCHANGED <<usage, fires>>

Adopt(j) ==
  /\ Editing
  /\ row[j].st = "here" /\ row[j].owner # "system"
  /\ row' = [row EXCEPT ![j].owner = "user", ![j].expires = Never, ![j].updated = now]
  /\ UNCHANGED <<usage, at, task, reg, fires>>

Keep(j) ==
  /\ Editing
  /\ row[j].st = "here" /\ Agents(j)
  /\ row' = [row EXCEPT ![j].expires = Never, ![j].updated = now]
  /\ UNCHANGED <<usage, at, task, reg, fires>>

\* The pane a job aims at was rebuilt under a new id.
Rebind(j) ==
  /\ Editing
  /\ row[j].st = "here" /\ row[j].gone > 0
  /\ row' = [row EXCEPT ![j].gone = 0]
  /\ UNCHANGED <<usage, at, task, reg, fires>>

\* A run by hand passes no gate but the agents' total, read under the lock
\* and added to only when the run starts.
RunNow(actor, c, j) ==
  /\ Editing
  /\ at[c].pc = "idle"
  /\ row[j].st = "here" /\ MayChange(actor, j) /\ row[j].running = NoRun
  /\ actor = "agent" => ~AgentRunsSpent
  /\ row' = [row EXCEPT ![j].backoff = Never]
  /\ Step(c, At("gated", j, actor = "agent", FALSE, NoRun))
  /\ UNCHANGED <<usage, task, reg, fires>>

------------------------------------------------------------------------------
Init ==
  /\ up = FALSE /\ now = 0 /\ usage = 0
  /\ row \in Initial
  /\ at = [a \in Actors |-> Idle]
  /\ todo = <<>> /\ seen = 0 /\ queue = <<>> /\ pending = {}
  /\ task = [i \in RunIds |-> NoTask]
  /\ reg = [j \in Jobs |-> NoRun]
  /\ edits = 0 /\ crashes = 0
  /\ fires = [j \in Jobs |-> 0]

TickStep ==
  \/ TickList \/ TickExpire \/ TickDelete \/ TickDue
  \/ TickStuck \/ TickStuckRead \/ TickFail
CatchUpStep == CatchUpNext \/ CatchUpWaited \/ CatchUpEnd
FireStep(a) == RecordRefusal(a) \/ Claim(a) \/ Decline(a) \/ Register(a)

Edit ==
  \E j \in Jobs :
    \/ Adopt(j) \/ Keep(j) \/ Rebind(j)
    \/ \E actor \in Editors :
         \/ \E en \in BOOLEAN, m \in 0 .. MaxTime, retargeted \in BOOLEAN :
              Upsert(actor, j, en, m, retargeted)
         \/ \E en \in BOOLEAN : SetEnabled(actor, j, en)
         \/ RemoveJob(actor, j)
         \/ \E c \in Callers : RunNow(actor, c, j)

\* The event loop starves neither the tick nor the other tasks, of which each
\* does finitely many steps; the program is started again after it ended; a
\* delivery returns (its waits are bounded).  Time need not pass.
Others ==
  \/ Boot \/ CatchUpStep
  \/ \E a \in Actors : FireStep(a)
  \/ \E i \in RunIds, outcome \in Outcomes : RunEnds(i, outcome)

Next == Crash \/ Clock \/ Edit \/ TickStep \/ Others

Fairness == WF_vars(TickStep) /\ WF_vars(Others)

Spec == Init /\ [][Next]_vars
FairSpec == Spec /\ Fairness
------------------------------------------------------------------------------
(* Properties.                                                             *)

Stands == [pc : {"idle", "visit", "gated", "refused", "claimed", "wait", "abort", "stuck", "fail"},
           job : Jobs, count : BOOLEAN, manual : BOOLEAN, run : RunIds \cup {NoRun}]
Entries == [job : Jobs, what : {"expire", "delete", "stuck", "due"},
            owner : {"user", "agent", "system"}]

\* Types; the tick is at rest exactly when its listing is walked, and a claim
\* always finds a run name that nothing refers to any more.
Typed ==
  /\ up \in BOOLEAN /\ now \in Nat /\ usage \in Nat
  /\ row \in [Jobs -> Rows]
  /\ at \in [Actors -> Stands]
  /\ todo \in Seq(Entries) /\ seen \in Nat
  /\ queue \in Seq(Jobs) /\ pending \subseteq Jobs
  /\ task \in [RunIds -> [live : BOOLEAN, job : Jobs, manual : BOOLEAN]]
  /\ reg \in [Jobs -> RunIds \cup {NoRun}]
  /\ fires \in [Jobs -> Nat]
TickAtRest == at["tick"].pc = "idle" <=> todo = <<>>
TypeOK == Typed /\ TickAtRest /\ \E i \in RunIds : Unused(i)

\* A slot of a periodic job is dispatched at most once, whatever the tick's
\* listing, catch-up and a restart in the middle of a run make of it: the
\* guard in _start and the order of writes in _settle and start.
SlotRunsOnce == \A j \in Jobs \ Once : fires[j] <= 1

\* The agents' total of the day is read in the gate (or by run_now) and added
\* to later: it can be passed, but by no more than one run for every actor
\* that can be between the two besides the one that spends the last.
AgentTotalBounded == usage <= AgentTotal + Cardinality(Actors) - 1

\* A running mark always has someone who will take it off: the run's task, the
\* actor about to create it, or the sweep.  A mark without one would keep the
\* job from ever running again before its timeout.
Owned(j, i) ==
  \/ task[i].live /\ task[i].job = j
  \/ \E a \in Actors : at[a].pc = "claimed" /\ at[a].job = j /\ at[a].run = i
  \/ at["tick"].pc \in {"stuck", "fail"} /\ at["tick"].job = j
MarkHasOwner ==
  up => \A j \in Jobs :
          row[j].st = "here" /\ row[j].running # NoRun => Owned(j, row[j].running)

Overdue(j) == /\ row[j].st = "here" /\ row[j].enabled /\ row[j].running = NoRun
              /\ Due(row[j], now) /\ row[j].backoff <= now

\* The module's invariant: an overdue next_run_at moves only when its slot was
\* judged skipped (or, once it has started, ran), never because the job was
\* read or saved again with the schedule it had.
OverdueKept ==
  [][\A j \in Jobs :
       /\ Overdue(j) /\ row'[j].st = "here" /\ row'[j].next # row[j].next
       => \/ ~up
          \/ \E a \in Loops : at[a].pc = "refused" /\ at[a].job = j /\ at'[a].pc # "refused"
          \/ row'[j].moment # row[j].moment]_vars

\* A job that is due gets its turn - it starts, is skipped, or is stopped -
\* although the tick leaves the jobs catch-up holds alone, catch-up waits for
\* each run, and the awaited run may be cancelled under it.
OverdueServed == \A j \in Jobs : Overdue(j) ~> ~Overdue(j)
=============================================================================
