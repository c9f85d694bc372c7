--------------------------- MODULE SchedulerProofs ---------------------------
(***************************************************************************)
(* The scheduler, for every number of jobs, of callers and of run names.   *)
(*                                                                         *)
(* First, how far the agents' runs of a day can pass their total: the gate *)
(* reads the total and the start adds to it later, so that what is         *)
(* invariant counts the starters between the two (AgentInv).               *)
(*                                                                         *)
(* Then types, marks and slots, by one inductive invariant (Whole): every  *)
(* mark is registered, or being registered, or being settled (Marks), and  *)
(* the slot of a started job stays taken until its run moves it (Slots).   *)
(* Most steps neither start nor end a run (CalmStep) and are dealt with at *)
(* once; each of the others has a lemma of its own.  Last, from the same   *)
(* invariant, what may move a slot that is overdue.                        *)
(***************************************************************************)
EXTENDS Scheduler, FiniteSetTheorems, TLAPS

\* The actors that passed the check of the total and have not added their run.
Claims == {a \in Actors : at[a].count}

AgentInv ==
  /\ usage \in Nat
  /\ at = [a \in Actors |-> at[a]]
  /\ \A a \in Actors : at[a].count \in BOOLEAN
  /\ usage + Cardinality(Claims) <= AgentTotal + Cardinality(Actors) - 1

\* The sets whose sizes are compared are finite, and the tick is an actor.
LEMMA ActorsFinite ==
  /\ IsFiniteSet(Actors) /\ Cardinality(Actors) \in Nat /\ Cardinality(Actors) >= 1
  /\ \A S \in SUBSET Actors :
       /\ IsFiniteSet(S) /\ Cardinality(S) \in Nat /\ Cardinality(S) <= Cardinality(Actors)
<1>1. IsFiniteSet(Loops)
  <2>1. IsFiniteSet({}) BY FS_EmptySet
  <2>2. IsFiniteSet({} \cup {"tick"}) BY <2>1, FS_AddElement
  <2>3. IsFiniteSet(({} \cup {"tick"}) \cup {"catchup"}) BY <2>2, FS_AddElement
  <2>. QED BY <2>3, Zenon DEF Loops
<1>2. IsFiniteSet(Actors)
  BY <1>1, SchedulerAssumption, FS_Union DEF Actors
<1>3. \A S \in SUBSET Actors :
        IsFiniteSet(S) /\ Cardinality(S) \in Nat /\ Cardinality(S) <= Cardinality(Actors)
  BY <1>2, FS_Subset, FS_CardinalityType
<1>4. Cardinality(Actors) # 0
  BY <1>2, FS_EmptySet, "tick" \in Actors DEF Actors, Loops
<1>. QED BY <1>2, <1>3, <1>4, FS_CardinalityType

LEMMA TotalTyped == AgentTotal \in Nat
BY SchedulerAssumption

\* A step after which no actor waits to add its run that did not before.
LEMMA NoNewClaim ==
  ASSUME AgentInv, usage' = usage,
         at' = [a \in Actors |-> at'[a]],
         \A a \in Actors : at'[a].count \in BOOLEAN /\ (at'[a].count => at[a].count)
  PROVE  AgentInv'
<1>1. Claims' \subseteq Claims BY DEF Claims
<1>2. Claims \in SUBSET Actors BY DEF Claims
<1>3. Cardinality(Claims') <= Cardinality(Claims) /\ Cardinality(Claims') \in Nat
  BY <1>1, <1>2, ActorsFinite, FS_Subset, FS_CardinalityType
<1>. QED BY <1>2, <1>3, ActorsFinite, TotalTyped DEF AgentInv

\* A step by which an actor passes the check, the total not being spent.
LEMMA NewClaim ==
  ASSUME AgentInv, usage' = usage, ~AgentRunsSpent,
         at' = [a \in Actors |-> at'[a]],
         \A a \in Actors : at'[a].count \in BOOLEAN
  PROVE  AgentInv'
<1>1. Claims' \in SUBSET Actors BY DEF Claims
<1>2. Cardinality(Claims') <= Cardinality(Actors) /\ Cardinality(Claims') \in Nat
  BY <1>1, ActorsFinite
<1>. QED
  BY <1>2, ActorsFinite, TotalTyped DEF AgentInv, AgentRunsSpent

\* What one actor's move does to the others: nothing.
LEMMA StepMoves ==
  ASSUME AgentInv, NEW a \in Actors, NEW rec, Step(a, rec)
  PROVE  /\ at' = [b \in Actors |-> at'[b]]
         /\ at'[a] = rec
         /\ \A b \in Actors \ {a} : at'[b] = at[b]
BY DEF AgentInv, Step

LEMMA DoneMoves ==
  ASSUME AgentInv, NEW a \in Actors, Done(a)
  PROVE  /\ at' = [b \in Actors |-> at'[b]]
         /\ at'[a].count = FALSE
         /\ \A b \in Actors \ {a} : at'[b] = at[b]
<1>. DEFINE rec == IF a = "catchup" \/ (a = "tick" /\ Len(todo) > 1) THEN Visit ELSE Idle
<1>1. Step(a, rec) BY DEF Done
<1>2. rec.count = FALSE BY DEF Visit, Idle, At
<1>. QED BY <1>1, <1>2, StepMoves

LEMMA GateKeeps ==
  ASSUME AgentInv, usage' = usage, NEW a \in Actors, NEW j, NEW agent \in BOOLEAN,
         Gate(a, j, agent)
  PROVE  AgentInv'
<1>1. CASE ~(agent /\ AgentRunsSpent) /\ Step(a, At("gated", j, agent, FALSE, NoRun))
  <2>1. /\ at' = [b \in Actors |-> at'[b]]
        /\ at'[a].count = agent
        /\ \A b \in Actors \ {a} : at'[b] = at[b]
    BY <1>1, StepMoves DEF At
  <2>2. \A b \in Actors : at'[b].count \in BOOLEAN BY <2>1 DEF AgentInv
  <2>3. CASE agent BY <1>1, <2>1, <2>2, <2>3, NewClaim
  <2>4. CASE ~agent
    <3>1. \A b \in Actors : at'[b].count => at[b].count BY <2>1, <2>4
    <3>. QED BY <2>1, <2>2, <3>1, NoNewClaim
  <2>. QED BY <2>3, <2>4
<1>2. CASE Step(a, At("refused", j, FALSE, FALSE, NoRun))
  <2>1. /\ at' = [b \in Actors |-> at'[b]]
        /\ at'[a].count = FALSE
        /\ \A b \in Actors \ {a} : at'[b] = at[b]
    BY <1>2, StepMoves DEF At
  <2>. QED BY <2>1, NoNewClaim DEF AgentInv
<1>. QED BY <1>1, <1>2 DEF Gate

\* A step that leaves the actors and the count alone.
LEMMA Untouched == ASSUME AgentInv, UNCHANGED <<usage, at>> PROVE AgentInv'
BY DEF AgentInv, Claims

LEMMA DoneKeeps ==
  ASSUME AgentInv, usage' = usage, NEW a \in Actors, Done(a)
  PROVE  AgentInv'
BY DoneMoves, NoNewClaim DEF AgentInv

LEMMA StepKeeps ==
  ASSUME AgentInv, usage' = usage, NEW a \in Actors, NEW rec, Step(a, rec),
         rec.count \in BOOLEAN, rec.count => at[a].count
  PROVE  AgentInv'
BY StepMoves, NoNewClaim DEF AgentInv

LEMMA AbandonKeeps ==
  ASSUME AgentInv, usage' = usage, NEW i, at' = Abandon(i)
  PROVE  AgentInv'
<1>1. at' = [a \in Actors |-> at'[a]] BY DEF Abandon
<1>2. \A a \in Actors : at'[a].count \in BOOLEAN /\ (at'[a].count => at[a].count)
  BY DEF Abandon, At, AgentInv
<1>. QED BY <1>1, <1>2, NoNewClaim

\* The run that is counted was claimed: one claim less, one run more.
LEMMA RegisterKeeps ==
  ASSUME AgentInv, NEW a \in Actors, Register(a)
  PROVE  AgentInv'
<1>1. /\ at' = [b \in Actors |-> at'[b]]
      /\ at'[a].count = FALSE
      /\ \A b \in Actors \ {a} : at'[b] = at[b]
  <2>1. CASE a = "catchup"
    <3>1. Step(a, At("wait", Order[1], FALSE, FALSE, at[a].run))
      BY <2>1 DEF Register
    <3>. QED BY <3>1, StepMoves DEF At
  <2>2. CASE a # "catchup"
    <3>1. Done(a) BY <2>2 DEF Register
    <3>. QED BY <3>1, DoneMoves
  <2>. QED BY <2>1, <2>2
<1>2. CASE ~at[a].count
  <2>1. usage' = usage BY <1>2 DEF Register
  <2>. QED BY <1>1, <2>1, NoNewClaim DEF AgentInv
<1>3. CASE at[a].count
  <2>1. usage' = usage + 1 BY <1>3 DEF Register
  <2>2. Claims' = Claims \ {a} BY <1>1 DEF Claims
  <2>3. a \in Claims /\ Claims \in SUBSET Actors BY <1>3 DEF Claims
  <2>4. Cardinality(Claims') = Cardinality(Claims) - 1
    BY <2>2, <2>3, ActorsFinite, FS_RemoveElement
  <2>5. Cardinality(Claims) \in Nat BY <2>3, ActorsFinite
  <2>6. \A b \in Actors : at'[b].count \in BOOLEAN BY <1>1 DEF AgentInv
  <2>. QED
    BY <1>1, <2>1, <2>4, <2>5, <2>6, ActorsFinite, TotalTyped DEF AgentInv
<1>. QED BY <1>2, <1>3 DEF AgentInv

LEMMA TickKeeps == ASSUME AgentInv, TickStep PROVE AgentInv'
<1>0. "tick" \in Actors BY DEF Actors, Loops
<1>1. CASE TickList BY <1>0, <1>1, StepKeeps DEF TickList, Visit, At
<1>2. CASE TickExpire BY <1>0, <1>2, DoneKeeps DEF TickExpire
<1>3. CASE TickDelete BY <1>0, <1>3, DoneKeeps DEF TickDelete
<1>4. CASE TickDue
  <2>1. CASE Done("tick") BY <1>0, <1>4, <2>1, DoneKeeps DEF TickDue
  <2>2. CASE Gate("tick", Head(todo).job, Head(todo).owner = "agent")
    BY <1>0, <1>4, <2>2, GateKeeps DEF TickDue
  <2>. QED BY <1>4, <2>1, <2>2 DEF TickDue
<1>5. CASE TickStuck
  <2>. DEFINE j == Head(todo).job
              rec == At("stuck", j, FALSE, reg[j] # NoRun /\ task[reg[j]].manual, NoRun)
  <2>1. at' = [Abandon(reg[j]) EXCEPT !["tick"] = rec] /\ usage' = usage
    BY <1>5 DEF TickStuck
  <2>2. at' = [a \in Actors |-> at'[a]]
    BY <2>1 DEF Abandon
  <2>3. \A a \in Actors : at'[a].count \in BOOLEAN /\ (at'[a].count => at[a].count)
    <3>1. at'["tick"] = rec BY <1>0, <2>1 DEF Abandon
    <3>2. rec.count = FALSE BY DEF At
    <3>3. \A a \in Actors \ {"tick"} : at'[a] = Abandon(reg[j])[a]
      BY <2>1 DEF Abandon
    <3>4. \A a \in Actors \ {"tick"} :
            Abandon(reg[j])[a].count \in BOOLEAN /\ (Abandon(reg[j])[a].count => at[a].count)
      BY DEF Abandon, At, AgentInv
    <3>. QED BY <3>1, <3>2, <3>3, <3>4
  <2>. QED BY <2>1, <2>2, <2>3, NoNewClaim
<1>6. CASE TickStuckRead
  <2>1. CASE Done("tick") BY <1>0, <1>6, <2>1, DoneKeeps DEF TickStuckRead
  <2>2. CASE \E i, m : Step("tick", At("fail", at["tick"].job, FALSE, m, i))
    BY <1>0, <1>6, <2>2, StepKeeps DEF TickStuckRead, At
  <2>. QED BY <1>6, <2>1, <2>2 DEF TickStuckRead
<1>7. CASE TickFail BY <1>0, <1>7, DoneKeeps DEF TickFail
<1>. QED BY <1>1, <1>2, <1>3, <1>4, <1>5, <1>6, <1>7 DEF TickStep

LEMMA OthersKeep == ASSUME AgentInv, Others PROVE AgentInv'
<1>0. "catchup" \in Actors BY DEF Actors, Loops
<1>1. CASE Boot
  <2>1. CASE at' = at BY <1>1, <2>1, Untouched DEF Boot
  <2>2. CASE at' = [at EXCEPT !["catchup"] = Visit]
    <3>1. Step("catchup", Visit) BY <2>2 DEF Step
    <3>. QED BY <1>0, <1>1, <3>1, StepKeeps DEF Boot, Visit, At
  <2>. QED BY <1>1, <2>1, <2>2 DEF Boot
<1>2. CASE CatchUpNext
  <2>1. CASE UNCHANGED at BY <1>2, <2>1, Untouched DEF CatchUpNext
  <2>2. CASE Gate("catchup", Head(queue), Agents(Head(queue)))
    <3>1. Agents(Head(queue)) \in BOOLEAN BY DEF Agents
    <3>. QED BY <1>0, <1>2, <2>2, <3>1, GateKeeps DEF CatchUpNext
  <2>. QED BY <1>2, <2>1, <2>2 DEF CatchUpNext
<1>3. CASE CatchUpWaited BY <1>0, <1>3, StepKeeps DEF CatchUpWaited, Visit, At
<1>4. CASE CatchUpEnd BY <1>0, <1>4, StepKeeps DEF CatchUpEnd, Idle, At
<1>5. ASSUME NEW a \in Actors, FireStep(a) PROVE AgentInv'
  <2>1. CASE RecordRefusal(a) BY <2>1, DoneKeeps DEF RecordRefusal
  <2>2. CASE Claim(a)
    <3>1. PICK i \in RunIds : Step(a, At("claimed", at[a].job, at[a].count, FALSE, i))
      BY <2>2 DEF Claim
    <3>2. usage' = usage BY <2>2 DEF Claim
    <3>. QED BY <3>1, <3>2, StepKeeps DEF At, AgentInv
  <2>3. CASE Decline(a) BY <2>3, DoneKeeps DEF Decline
  <2>4. CASE Register(a) BY <2>4, RegisterKeeps
  <2>. QED BY <1>5, <2>1, <2>2, <2>3, <2>4 DEF FireStep
<1>6. ASSUME NEW i \in RunIds, NEW outcome \in Outcomes, RunEnds(i, outcome) PROVE AgentInv'
  BY <1>6, Untouched DEF RunEnds
<1>. QED BY <1>1, <1>2, <1>3, <1>4, <1>5, <1>6 DEF Others, CatchUpStep

LEMMA EditKeeps == ASSUME AgentInv, Edit PROVE AgentInv'
<1>1. PICK j \in Jobs :
        \/ Adopt(j) \/ Keep(j) \/ Rebind(j)
        \/ \E actor \in Editors :
             \/ \E en \in BOOLEAN, m \in 0 .. MaxTime, retargeted \in BOOLEAN :
                  Upsert(actor, j, en, m, retargeted)
             \/ \E en \in BOOLEAN : SetEnabled(actor, j, en)
             \/ RemoveJob(actor, j)
             \/ \E c \in Callers : RunNow(actor, c, j)
  BY DEF Edit
<1>2. CASE Adopt(j) \/ Keep(j) \/ Rebind(j)
  BY <1>2, Untouched DEF Adopt, Keep, Rebind
<1>3. ASSUME NEW actor \in Editors, NEW en \in BOOLEAN, NEW m \in 0 .. MaxTime,
             NEW retargeted \in BOOLEAN, Upsert(actor, j, en, m, retargeted)
      PROVE  AgentInv'
  BY <1>3, Untouched DEF Upsert
<1>4. ASSUME NEW actor \in Editors, NEW en \in BOOLEAN, SetEnabled(actor, j, en)
      PROVE  AgentInv'
  BY <1>4, Untouched DEF SetEnabled
<1>5. ASSUME NEW actor \in Editors, RemoveJob(actor, j) PROVE AgentInv'
  BY <1>5, AbandonKeeps DEF RemoveJob
<1>6. ASSUME NEW actor \in Editors, NEW c \in Callers, RunNow(actor, c, j) PROVE AgentInv'
  <2>. DEFINE rec == At("gated", j, actor = "agent", FALSE, NoRun)
  <2>1. Step(c, rec) /\ usage' = usage /\ (actor = "agent" => ~AgentRunsSpent) /\ c \in Actors
    BY <1>6 DEF RunNow, Actors
  <2>2. rec.count = (actor = "agent") BY DEF At
  <2>3. CASE actor # "agent" BY <2>1, <2>2, <2>3, StepKeeps
  <2>4. CASE actor = "agent"
    <3>0. rec.count \in BOOLEAN BY <2>2
    <3>. HIDE DEF rec
    <3>1. at' = [b \in Actors |-> at'[b]] /\ at'[c] = rec /\ \A b \in Actors \ {c} : at'[b] = at[b]
      BY <2>1, StepMoves
    <3>2. \A b \in Actors : at'[b].count \in BOOLEAN
      BY <3>0, <3>1 DEF AgentInv
    <3>. QED BY <2>1, <2>4, <3>1, <3>2, NewClaim
  <2>. QED BY <2>3, <2>4
<1>. QED BY <1>1, <1>2, <1>3, <1>4, <1>5, <1>6

\* The agents' runs pass the total of the day (_agent_runs_spent, add_usage)
\* by fewer runs than there are actors that start runs.
THEOREM AgentTotalHolds == Spec => []AgentTotalBounded
<1>1. Init => AgentInv
  <2>. SUFFICES ASSUME Init PROVE AgentInv OBVIOUS
  <2>1. Claims = {} BY DEF Init, Claims, Idle, At
  <2>2. Cardinality(Claims) = 0 BY <2>1, FS_EmptySet
  <2>3. at = [a \in Actors |-> at[a]] /\ \A a \in Actors : at[a].count \in BOOLEAN
    BY DEF Init, Idle, At
  <2>. QED BY <2>2, <2>3, ActorsFinite, TotalTyped DEF AgentInv, Init
<1>2. AgentInv /\ [Next]_vars => AgentInv'
  <2>. SUFFICES ASSUME AgentInv, [Next]_vars PROVE AgentInv' OBVIOUS
  <2>1. CASE Crash
    <3>1. at' = [a \in Actors |-> at'[a]] /\ \A a \in Actors : at'[a].count = FALSE
      BY <2>1 DEF Crash, Idle, At
    <3>. QED BY <2>1, <3>1, NoNewClaim DEF Crash
  <2>2. CASE Clock BY <2>2, Untouched DEF Clock
  <2>3. CASE Edit BY <2>3, EditKeeps
  <2>4. CASE TickStep BY <2>4, TickKeeps
  <2>5. CASE Others BY <2>5, OthersKeep
  <2>6. CASE UNCHANGED vars BY <2>6, Untouched DEF vars
  <2>. QED BY <2>1, <2>2, <2>3, <2>4, <2>5, <2>6 DEF Next
<1>3. AgentInv => AgentTotalBounded
  <2>. SUFFICES ASSUME AgentInv PROVE AgentTotalBounded OBVIOUS
  <2>1. Cardinality(Claims) \in Nat BY ActorsFinite DEF Claims
  <2>. QED BY <2>1, ActorsFinite, TotalTyped DEF AgentInv, AgentTotalBounded
<1>. QED BY <1>1, <1>2, <1>3, PTL DEF Spec

-----------------------------------------------------------------------------
(* The rows, the actors and the listing stay well typed.                   *)

\* A periodic job always has a slot after t.
LEMMA NextSlot ==
  ASSUME NEW j \in Jobs, NEW r \in Rows, NEW t \in Nat
  PROVE  /\ NextAfter(j, r, t) \in Int
         /\ j \notin Once => NextAfter(j, r, t) > t /\ NextAfter(j, r, t) # Never
<1>. DEFINE m == r.moment
<1>1. m \in Nat /\ Every \in Nat \ {0} BY SchedulerAssumption DEF Rows
<1>. HIDE DEF m
<1>2. CASE m > t
  BY <1>1, <1>2 DEF NextAfter, Never, m
<1>3. CASE ~(m > t)
  <2>. DEFINE q == (t - m) \div Every
  <2>1. t - m \in Nat BY <1>1, <1>3
  <2>2. q \in Nat /\ t - m < (q + 1) * Every
    BY <1>1, <2>1
  <2>. HIDE DEF q
  <2>3. (q + 1) * Every \in Nat BY <1>1, <2>2
  <2>4. NextAfter(j, r, t) = IF j \in Once THEN Never ELSE m + (q + 1) * Every
    BY <1>1, <1>3 DEF NextAfter, m, q
  <2>. QED BY <1>1, <2>1, <2>2, <2>3, <2>4 DEF Never
<1>. QED BY <1>1, <1>2, <1>3

LEMMA DeletedTyped ==
  Deleted \in Rows /\ Deleted.st = "deleted" /\ Deleted.running = NoRun
<1>1. NewRow \in Rows BY DEF NewRow, Rows, Never
<1>2. Deleted \in Rows BY <1>1 DEF Deleted, Rows
<1>3. Deleted.st = "deleted" /\ Deleted.running = NoRun BY DEF Deleted, NewRow
<1>. QED BY <1>2, <1>3

LEMMA JobsListed ==
  /\ Order[1] \in Jobs
  /\ \A n \in DOMAIN Order : Order[n] \in Jobs
  /\ DOMAIN Order = 1 .. Len(Order) /\ Len(Order) \in Nat
BY SchedulerAssumption DEF Jobs, Range

\* Rows after a skip, and after the end of a run.
LEMMA SkippedTyped ==
  ASSUME NEW j \in Jobs, NEW r \in Rows, NEW t \in Nat
  PROVE  /\ Skipped(j, r, t) \in Rows
         /\ Skipped(j, r, t).st = r.st /\ Skipped(j, r, t).running = r.running
         /\ Skipped(j, r, t).next = NextAfter(j, r, t)
<1>1. NextAfter(j, r, t) \in Int BY NextSlot
<1>2. (r.enabled /\ j \notin Once) \in BOOLEAN BY DEF Rows
<1>3. (IF j \in Once THEN t ELSE r.updated) \in Nat BY DEF Rows
<1>4. Skipped(j, r, t) = [r EXCEPT !.next = NextAfter(j, r, t),
                                   !.enabled = r.enabled /\ j \notin Once,
                                   !.updated = IF j \in Once THEN t ELSE r.updated]
  BY DEF Skipped, Rows
<1>. QED BY <1>1, <1>2, <1>3, <1>4 DEF Rows

LEMMA SettledTyped ==
  ASSUME NEW j \in Jobs, NEW r \in Rows, now \in Nat, NEW outcome, NEW manual \in BOOLEAN
  PROVE  /\ Settled(j, r, outcome, manual) \in Rows
         /\ Settled(j, r, outcome, manual).st = r.st
         /\ Settled(j, r, outcome, manual).running = NoRun
         /\ Settled(j, r, outcome, manual).next = IF manual THEN r.next ELSE NextAfter(j, r, now)
<1>. DEFINE gone == CASE outcome = "gone" -> r.gone + 1
                      [] outcome = "skipped" -> r.gone
                      [] OTHER -> 0
            stops == (r.enabled /\ gone >= GoneMax) \/ (~manual /\ j \in Once)
            backoff == CASE outcome = "ok" -> Never
                         [] outcome = "error" -> now + Backoff
                         [] OTHER -> r.backoff
            next == IF manual THEN r.next ELSE NextAfter(j, r, now)
            enabled == r.enabled /\ ~stops
            updated == IF stops THEN now ELSE r.updated
<1>1. gone \in Nat /\ backoff \in Int
  BY SchedulerAssumption DEF Rows, Never
<1>2. next \in Int BY NextSlot DEF Rows
<1>3. enabled \in BOOLEAN OBVIOUS
<1>4. updated \in Nat BY DEF Rows
<1>5. Settled(j, r, outcome, manual) =
        [r EXCEPT !.running = NoRun, !.since = 0, !.backoff = backoff, !.gone = gone,
                  !.next = next, !.enabled = enabled, !.updated = updated]
  BY DEF Settled, Rows
<1>. DEFINE new == Settled(j, r, outcome, manual)
<1>. HIDE DEF gone, stops, backoff, enabled, updated, next, new
<1>6. new = [r EXCEPT !.running = NoRun, !.since = 0, !.backoff = backoff, !.gone = gone,
                      !.next = next, !.enabled = enabled, !.updated = updated]
  BY <1>5 DEF new
<1>7. new \in Rows BY <1>1, <1>2, <1>3, <1>4, <1>6 DEF Rows
<1>8. new.st = r.st BY <1>6 DEF Rows
<1>9. new.running = NoRun BY <1>6 DEF Rows
<1>10. new.next = next BY <1>6 DEF Rows
<1>. QED BY <1>7, <1>8, <1>9, <1>10 DEF new, next

\* Where an actor of each kind may stand.
Fits(a, stand) ==
  CASE a \in Callers   -> stand.pc \in {"idle", "gated", "claimed"}
    [] a = "tick"      -> /\ stand.pc \in {"idle", "visit", "gated", "refused", "claimed",
                                           "stuck", "fail"}
                          /\ stand.pc = "fail" => stand.run # NoRun
    [] a = "catchup"   -> stand.pc \in {"idle", "visit", "gated", "refused", "claimed",
                                        "wait", "abort"}
Places == \A a \in Actors : Fits(a, at[a])

StoreTyped ==
  /\ up \in BOOLEAN /\ now \in Nat /\ usage \in Nat
  /\ row \in [Jobs -> Rows]
  /\ task \in [RunIds -> [live : BOOLEAN, job : Jobs, manual : BOOLEAN]]
  /\ reg \in [Jobs -> RunIds \cup {NoRun}]
  /\ fires \in [Jobs -> Nat]
LoopsTyped ==
  /\ at \in [Actors -> Stands]
  /\ todo \in Seq(Entries) /\ seen \in Nat
  /\ queue \in Seq(Jobs) /\ pending \subseteq Jobs
  /\ TickAtRest /\ Places

LEMMA ActorKinds ==
  /\ "tick" \in Actors /\ "catchup" \in Actors
  /\ "tick" \notin Callers /\ "catchup" \notin Callers
  /\ \A a \in Actors : a \in Callers \/ a = "tick" \/ a = "catchup"
  /\ \A c \in Callers : c \in Actors /\ c \notin Loops
BY SchedulerAssumption DEF Actors, Loops

LEMMA RestTyped ==
  /\ Idle \in Stands /\ Visit \in Stands
  /\ Idle.pc = "idle" /\ Visit.pc = "visit"
BY JobsListed DEF Idle, Visit, At, Stands

\* A step of one actor, which the tick takes only in the middle of its walk.
LEMMA StepTyped ==
  ASSUME LoopsTyped, NEW a \in Actors, NEW rec \in Stands, Step(a, rec), Fits(a, rec),
         UNCHANGED <<todo, seen>>, queue' \in Seq(Jobs), pending' \subseteq Jobs,
         a = "tick" => at[a].pc # "idle" /\ rec.pc # "idle"
  PROVE  /\ LoopsTyped'
         /\ at'[a] = rec /\ \A b \in Actors \ {a} : at'[b] = at[b]
<1>1. /\ at' \in [Actors -> Stands] /\ at'[a] = rec
      /\ \A b \in Actors \ {a} : at'[b] = at[b]
  BY DEF LoopsTyped, Step
<1>2. Places' BY <1>1 DEF LoopsTyped, Places, Fits
<1>3. TickAtRest' BY <1>1, ActorKinds DEF LoopsTyped, TickAtRest
<1>. QED BY <1>1, <1>2, <1>3 DEF LoopsTyped

LEMMA DoneTyped ==
  ASSUME LoopsTyped, NEW a \in Actors, at[a].pc # "idle", Done(a)
  PROVE  /\ LoopsTyped'
         /\ at'[a].pc \in {"idle", "visit"} /\ \A b \in Actors \ {a} : at'[b] = at[b]
         /\ IF a = "tick" THEN todo # <<>> /\ todo' = Tail(todo) ELSE todo' = todo
<1>. DEFINE rec == IF a = "catchup" \/ (a = "tick" /\ Len(todo) > 1) THEN Visit ELSE Idle
<1>1. Step(a, rec) BY DEF Done
<1>2. rec \in Stands /\ rec.pc \in {"idle", "visit"} /\ (a \in Callers => rec.pc = "idle")
  BY RestTyped, ActorKinds
<1>3. a = "tick" => (rec.pc = "idle" <=> ~(Len(todo) > 1))
  BY RestTyped
<1>. HIDE DEF rec
<1>4. /\ at' \in [Actors -> Stands] /\ at'[a] = rec
      /\ \A b \in Actors \ {a} : at'[b] = at[b]
  BY <1>1, <1>2 DEF LoopsTyped, Step
<1>5. Fits(a, rec) BY <1>2, ActorKinds DEF Fits
<1>6. Places' BY <1>4, <1>5 DEF LoopsTyped, Places, Fits
<1>7. UNCHANGED <<queue, pending>> BY DEF Done
<1>8. CASE a # "tick"
  <2>1. UNCHANGED <<todo, seen>> BY <1>8 DEF Done
  <2>2. TickAtRest' BY <1>4, <1>8, <2>1, ActorKinds DEF LoopsTyped, TickAtRest
  <2>. QED BY <1>2, <1>4, <1>6, <1>7, <1>8, <2>1, <2>2 DEF LoopsTyped
<1>9. CASE a = "tick"
  <2>1. todo # <<>> /\ todo \in Seq(Entries)
    BY <1>9 DEF LoopsTyped, TickAtRest
  <2>2. todo' = Tail(todo) /\ seen' = IF Len(todo) = 1 THEN 0 ELSE seen
    BY <1>9 DEF Done
  <2>3. todo' \in Seq(Entries) /\ seen' \in Nat /\ (todo' = <<>> <=> ~(Len(todo) > 1))
    <3>1. Tail(todo) \in Seq(Entries) /\ Len(Tail(todo)) = Len(todo) - 1 /\ Len(todo) \in Nat
      BY <2>1
    <3>2. \A s \in Seq(Entries) : s = <<>> <=> Len(s) = 0
      OBVIOUS
    <3>3. Len(todo) # 0 BY <2>1, <3>2
    <3>4. todo' = <<>> <=> ~(Len(todo) > 1)
      <4>1. Tail(todo) = <<>> <=> Len(Tail(todo)) = 0 BY <3>1, <3>2
      <4>. DEFINE n == Len(todo)
                  m == Len(Tail(todo))
      <4>2. m = n - 1 /\ n \in Nat /\ n # 0 BY <3>1, <3>3
      <4>. HIDE DEF m, n
      <4>3. m = 0 <=> ~(n > 1) BY <4>2
      <4>. USE DEF m, n
      <4>. QED BY <2>2, <4>1, <4>3
    <3>5. seen' \in Nat BY <2>2 DEF LoopsTyped
    <3>. QED BY <2>2, <3>1, <3>4, <3>5
  <2>4. TickAtRest' BY <1>3, <1>4, <1>9, <2>3 DEF TickAtRest
  <2>. QED BY <1>2, <1>4, <1>6, <1>7, <1>9, <2>1, <2>2, <2>3, <2>4 DEF LoopsTyped
<1>. QED BY <1>8, <1>9

LEMMA GateTyped ==
  ASSUME LoopsTyped, NEW a \in Loops, NEW j \in Jobs, NEW agent \in BOOLEAN, Gate(a, j, agent),
         at[a].pc # "idle", UNCHANGED <<todo, seen>>, queue' \in Seq(Jobs), pending' \subseteq Jobs
  PROVE  /\ LoopsTyped'
         /\ at'[a].pc \in {"gated", "refused"} /\ \A b \in Actors \ {a} : at'[b] = at[b]
<1>. DEFINE yes == At("gated", j, agent, FALSE, NoRun)
            no == At("refused", j, FALSE, FALSE, NoRun)
<1>0. a \in Actors /\ a \notin Callers BY ActorKinds DEF Actors, Loops
<1>1. yes \in Stands /\ no \in Stands /\ yes.pc = "gated" /\ no.pc = "refused"
  BY DEF At, Stands
<1>2. Step(a, yes) \/ Step(a, no) BY DEF Gate
<1>. HIDE DEF yes, no
<1>3. Fits(a, yes) /\ Fits(a, no) BY <1>0, <1>1, ActorKinds DEF Fits
<1>4. CASE Step(a, yes) BY <1>0, <1>1, <1>3, <1>4, StepTyped
<1>5. CASE Step(a, no) BY <1>0, <1>1, <1>3, <1>5, StepTyped
<1>. QED BY <1>2, <1>4, <1>5

LEMMA LoopsStay ==
  ASSUME LoopsTyped, UNCHANGED <<at, todo, seen, queue, pending>>
  PROVE  LoopsTyped'
BY DEF LoopsTyped, TickAtRest, Places

LEMMA AbandonTyped ==
  ASSUME LoopsTyped, NEW i \in RunIds \cup {NoRun}
  PROVE  /\ Abandon(i) \in [Actors -> Stands]
         /\ \A a \in Actors : Fits(a, Abandon(i)[a])
         /\ \A a \in Actors : a # "catchup" => Abandon(i)[a] = at[a]
         /\ \A a \in Actors : Abandon(i)[a] = at[a]
                \/ (at[a].pc = "wait" /\ Abandon(i)[a].pc = "abort" /\ i # NoRun)
<1>. DEFINE off == At("abort", Order[1], FALSE, FALSE, i)
<1>1. off \in Stands /\ off.pc = "abort" BY JobsListed DEF At, Stands
<1>2. \A a \in Actors : Abandon(i)[a] = IF Orphaned(a, i) THEN off ELSE at[a]
  BY DEF Abandon
<1>3. Abandon(i) = [a \in Actors |-> IF Orphaned(a, i) THEN off ELSE at[a]]
  BY DEF Abandon
<1>. HIDE DEF off
<1>4. Fits("catchup", off) BY <1>1, ActorKinds DEF Fits
<1>5. Abandon(i) \in [Actors -> Stands] BY <1>1, <1>3 DEF LoopsTyped
<1>6. \A a \in Actors : Orphaned(a, i) => a = "catchup" /\ at[a].pc = "wait" /\ i # NoRun
  BY DEF Orphaned
<1>. QED BY <1>1, <1>2, <1>4, <1>5, <1>6 DEF LoopsTyped, Places

-----------------------------------------------------------------------------
(* The inductive invariant.                                                *)

\* Nobody is at work while the program is closed.
Down ==
  ~up => /\ \A a \in Actors : at[a].pc = "idle"
         /\ \A i \in RunIds : ~task[i].live

MarksAreHere == \A j \in Jobs : row[j].st # "here" => row[j].running = NoRun

RegisteredLive ==
  \A j \in Jobs : reg[j] # NoRun => task[reg[j]].live /\ task[reg[j]].job = j

\* The lock: one start at a time is between its mark and its task, under a name
\* no other mark has.
Claimed(a) == at[a].pc = "claimed"
ClaimAlone == \A a, b \in Actors : Claimed(a) /\ Claimed(b) => a = b
ClaimMarked ==
  \A a \in Actors : Claimed(a) =>
    /\ at[a].run \in RunIds /\ ~task[at[a].run].live
    /\ row[at[a].job].st = "here"
    /\ \A j \in Jobs : row[j].running = at[a].run <=> j = at[a].job

\* The tick is at settling the run it has found stuck in job j.
Settling(j) ==
  /\ at["tick"].job = j
  /\ \/ at["tick"].pc = "stuck"
     \/ at["tick"].pc = "fail" /\ at["tick"].run = row[j].running
Marked(j) == row[j].st = "here" /\ row[j].running # NoRun
MarkRegistered ==
  up => \A j \in Jobs : Marked(j) =>
    \/ reg[j] = row[j].running
    \/ \E a \in Actors : Claimed(a) /\ at[a].job = j
    \/ Settling(j)

ListedOnce ==
  /\ \A m, n \in 1 .. Len(todo) : todo[m].job = todo[n].job => m = n
  /\ at["tick"].pc \in {"stuck", "fail"} => at["tick"].job = todo[1].job

\* Of a job the tick has still to look at as stuck, no task is registered but the
\* one its mark names.
StuckAhead(j) ==
  \E n \in 1 .. Len(todo) :
    /\ todo[n].job = j /\ todo[n].what = "stuck"
    /\ n > 1 \/ at["tick"].pc = "visit"
StuckIsOwn ==
  \A j \in Jobs : StuckAhead(j) /\ row[j].st # "deleted" =>
    row[j].st = "here" /\ reg[j] \in {NoRun, row[j].running}

\* While the tick settles a run by hand, the mark stays as it was found.
ByHand(j) == at["tick"].pc \in {"stuck", "fail"} /\ at["tick"].job = j /\ at["tick"].manual
HandMarkStays ==
  \A j \in Jobs : ByHand(j) /\ row[j].st # "deleted" =>
    /\ row[j].st = "here" /\ row[j].running # NoRun
    /\ ~task[row[j].running].live
    /\ \A a \in Actors : Claimed(a) => at[a].job # j
    /\ j \in Once \/ fires[j] = 0

\* A slot that has been started is running: by the schedule, not by hand, so
\* that the end of the run will move the slot on.
SlotTaken(j) ==
  /\ fires[j] = 1 /\ row[j].st # "absent"
  /\ row[j].st = "here" =>
       /\ row[j].running # NoRun
       /\ row[j].next <= now
       /\ task[row[j].running].live => ~task[row[j].running].manual
       /\ \A a \in Actors : Claimed(a) /\ at[a].job = j => a \in Loops
SlotsHeld == \A j \in Jobs \ Once : fires[j] = 0 \/ SlotTaken(j)

Marks == Down /\ MarksAreHere /\ RegisteredLive /\ ClaimAlone /\ ClaimMarked /\ MarkRegistered
Slots == ListedOnce /\ StuckIsOwn /\ HandMarkStays /\ SlotsHeld
Whole == StoreTyped /\ LoopsTyped /\ Marks /\ Slots

-----------------------------------------------------------------------------
(* Steps that neither start nor end a run.                                 *)

RowKept(j) ==
  /\ row'[j].running = row[j].running
  /\ row'[j].st = row[j].st \/ (row[j].st = "absent" /\ row'[j].st = "here")
SlotKept(j) ==
  \/ fires'[j] = 0
  \/ fires'[j] = fires[j] /\ (row'[j].next = row[j].next \/ row'[j].next = Never)

\* The tick stays where it is in its walk, or goes on.
WalksOn ==
  \/ todo' = todo /\ (at'["tick"].pc = "visit" => at["tick"].pc = "visit")
  \/ todo # <<>> /\ todo' = Tail(todo) /\ at'["tick"].pc \in {"idle", "visit"}

CalmStep ==
  /\ up' = up /\ now' \in Nat /\ now' >= now /\ UNCHANGED <<task, reg>>
  /\ \A j \in Jobs : RowKept(j) /\ SlotKept(j)
  /\ \A a \in Actors : at'[a] = at[a]
        \/ (at[a].pc # "claimed" /\ at'[a].pc \notin {"claimed", "stuck", "fail"})
  /\ WalksOn
  /\ \A j \in Jobs : Marked(j) /\ Settling(j) => at'["tick"] = at["tick"]
  /\ ~up => \A a \in Actors : at'[a] = at[a]

LEMMA WalkAhead ==
  ASSUME LoopsTyped, WalksOn
  PROVE  \A j : StuckAhead(j)' => StuckAhead(j)
<1>. SUFFICES ASSUME NEW j, StuckAhead(j)' PROVE StuckAhead(j)
  OBVIOUS
<1>1. PICK n \in 1 .. Len(todo') :
        /\ todo'[n].job = j /\ todo'[n].what = "stuck"
        /\ n > 1 \/ at'["tick"].pc = "visit"
  BY DEF StuckAhead
<1>2. CASE todo' = todo /\ (at'["tick"].pc = "visit" => at["tick"].pc = "visit")
  BY <1>1, <1>2 DEF StuckAhead
<1>3. CASE todo # <<>> /\ todo' = Tail(todo)
  <2>1. n + 1 \in 1 .. Len(todo) /\ todo'[n] = todo[n + 1] /\ n + 1 > 1
    BY <1>1, <1>3 DEF LoopsTyped
  <2>. QED BY <1>1, <2>1 DEF StuckAhead
<1>. QED BY <1>2, <1>3 DEF WalksOn

LEMMA WalkListed ==
  ASSUME LoopsTyped, ListedOnce, WalksOn,
         at'["tick"].pc \in {"stuck", "fail"} => at'["tick"] = at["tick"]
  PROVE  ListedOnce'
<1>1. CASE todo' = todo
  BY <1>1 DEF ListedOnce
<1>2. CASE todo # <<>> /\ todo' = Tail(todo) /\ at'["tick"].pc \in {"idle", "visit"}
  <2>1. \A n \in 1 .. Len(todo') : n + 1 \in 1 .. Len(todo) /\ todo'[n] = todo[n + 1] /\ n \in Int
    BY <1>2 DEF LoopsTyped
  <2>2. ASSUME NEW m \in 1 .. Len(todo'), NEW n \in 1 .. Len(todo'), todo'[m].job = todo'[n].job
        PROVE  m = n
    <3>1. m + 1 = n + 1 BY <2>1, <2>2 DEF ListedOnce
    <3>. QED BY <2>1, <3>1
  <2>. QED BY <1>2, <2>2 DEF ListedOnce
<1>. QED BY <1>1, <1>2 DEF WalksOn

LEMMA CalmMarks ==
  ASSUME Whole, CalmStep
  PROVE  Marks'
<1>. USE DEF Whole, Marks
<1>0. "tick" \in Actors BY ActorKinds
<1>1. /\ up' = up /\ task' = task /\ reg' = reg
      /\ \A j \in Jobs : /\ row'[j].running = row[j].running
                         /\ row'[j].st = row[j].st \/ (row[j].st = "absent" /\ row'[j].st = "here")
      /\ \A a \in Actors : Claimed(a)' <=> Claimed(a)
      /\ \A a \in Actors : Claimed(a) => at'[a] = at[a]
  BY DEF CalmStep, RowKept, Claimed
<1>2. \A a \in Actors : at[a].job \in Jobs BY DEF LoopsTyped, Stands
<1>3. Down' BY <1>1 DEF Down, CalmStep
<1>4. MarksAreHere' BY <1>1 DEF MarksAreHere
<1>5. RegisteredLive' BY <1>1 DEF RegisteredLive
<1>6. ClaimAlone' BY <1>1 DEF ClaimAlone
<1>7. ClaimMarked' BY <1>1, <1>2 DEF ClaimMarked
<1>8. MarkRegistered'
  <2>. SUFFICES ASSUME up, NEW j \in Jobs, Marked(j)'
                PROVE  \/ reg[j] = row'[j].running
                       \/ \E a \in Actors : Claimed(a)' /\ at'[a].job = j
                       \/ Settling(j)'
    BY <1>1 DEF MarkRegistered
  <2>1. Marked(j) BY <1>1 DEF Marked, MarksAreHere
  <2>2. CASE Settling(j)
    <3>1. at'["tick"] = at["tick"] BY <2>1, <2>2 DEF CalmStep
    <3>. QED BY <1>1, <2>2, <3>1 DEF Settling
  <2>3. CASE \E a \in Actors : Claimed(a) /\ at[a].job = j
    BY <1>1, <2>3
  <2>. QED BY <1>1, <2>1, <2>2, <2>3 DEF MarkRegistered
<1>. QED BY <1>3, <1>4, <1>5, <1>6, <1>7, <1>8

LEMMA CalmSlots ==
  ASSUME Whole, CalmStep
  PROVE  Slots'
<1>. USE DEF Whole, Slots
<1>0. "tick" \in Actors BY ActorKinds
<1>1. /\ now \in Nat /\ now' \in Nat /\ now' >= now /\ task' = task /\ reg' = reg
      /\ \A j \in Jobs : RowKept(j) /\ SlotKept(j)
      /\ \A a \in Actors : Claimed(a)' => Claimed(a) /\ at'[a] = at[a]
      /\ at'["tick"].pc \in {"stuck", "fail"} => at'["tick"] = at["tick"]
  BY <1>0 DEF CalmStep, Claimed, StoreTyped
<1>2. ListedOnce' BY <1>1, WalkListed DEF CalmStep
<1>3. StuckIsOwn'
  <2>1. \A j \in Jobs : StuckAhead(j)' => StuckAhead(j)
    BY WalkAhead DEF CalmStep
  <2>. QED BY <1>1, <2>1 DEF StuckIsOwn, RowKept
<1>4. HandMarkStays'
  <2>. SUFFICES ASSUME NEW j \in Jobs, ByHand(j)', row'[j].st # "deleted"
                PROVE  /\ row'[j].st = "here" /\ row'[j].running # NoRun
                       /\ ~task[row'[j].running].live
                       /\ \A a \in Actors : Claimed(a)' => at'[a].job # j
                       /\ j \in Once \/ fires'[j] = 0
    BY <1>1 DEF HandMarkStays
  <2>1. ByHand(j) BY <1>1 DEF ByHand
  <2>. QED BY <1>1, <2>1 DEF HandMarkStays, RowKept, SlotKept
<1>5. SlotsHeld'
  <2>. SUFFICES ASSUME NEW j \in Jobs \ Once, fires'[j] # 0 PROVE SlotTaken(j)'
    BY DEF SlotsHeld
  <2>1. /\ fires'[j] = fires[j] /\ fires[j] = 1
        /\ row'[j].next = row[j].next \/ row'[j].next = Never
        /\ SlotTaken(j)
    BY <1>1 DEF SlotKept, SlotsHeld, SlotTaken
  <2>2. row'[j].st = row[j].st /\ row'[j].running = row[j].running
    BY <1>1, <2>1 DEF RowKept, SlotTaken
  <2>3. CASE row[j].st = "here"
    <3>1. row[j].next \in Int /\ row[j].next <= now
      BY <2>1, <2>3 DEF SlotTaken, StoreTyped, Rows
    <3>2. row'[j].next <= now' BY <1>1, <2>1, <3>1 DEF Never
    <3>. QED BY <1>1, <2>1, <2>2, <2>3, <3>2 DEF SlotTaken
  <2>. QED BY <2>1, <2>2, <2>3 DEF SlotTaken
<1>. QED BY <1>2, <1>3, <1>4, <1>5

LEMMA CalmWhole == ASSUME Whole, StoreTyped', LoopsTyped', CalmStep PROVE Whole'
BY CalmMarks, CalmSlots DEF Whole

\* Only an open program has anybody at work.
LEMMA AtWorkIsUp ==
  ASSUME Whole
  PROVE  /\ \A a \in Actors : at[a].pc # "idle" => up
         /\ \A a \in Actors : at[a].job \in Jobs /\ Fits(a, at[a])
         /\ at["tick"].pc # "idle" => todo # <<>> /\ todo[1] \in Entries /\ Head(todo) = todo[1]
<1>1. \A a \in Actors : at[a].pc # "idle" => up BY DEF Whole, Marks, Down
<1>2. \A a \in Actors : at[a].job \in Jobs /\ Fits(a, at[a])
  BY DEF Whole, LoopsTyped, Places, Stands
<1>3. at["tick"].pc # "idle" => todo # <<>> BY DEF Whole, LoopsTyped, TickAtRest
<1>4. todo # <<>> => todo[1] \in Entries /\ Head(todo) = todo[1] BY DEF Whole, LoopsTyped
<1>. QED BY <1>1, <1>2, <1>3, <1>4

\* The clock, the counter of runs, the tasks and the rows, apart from the row of
\* one job.
StoreStays == up' = up /\ now' = now /\ UNCHANGED <<usage, task, reg>>

LEMMA RowsStay ==
  ASSUME UNCHANGED <<row, fires>>
  PROVE  \A j \in Jobs : RowKept(j) /\ SlotKept(j)
BY DEF RowKept, SlotKept

LEMMA RecountKeeps ==
  ASSUME StoreTyped, Recount({})
  PROVE  /\ fires' \in [Jobs -> Nat]
         /\ \A j \in Jobs : SlotKept(j)
<1>1. \A j \in Jobs : fires[j] + 0 = fires[j] /\ fires[j] \in Nat BY DEF StoreTyped
<1>2. fires' = [j \in Jobs |->
          IF row'[j].next # row[j].next /\ row'[j].next # Never THEN 0 ELSE fires[j] + 0]
  BY DEF Recount
<1>. QED BY <1>1, <1>2 DEF SlotKept

LEMMA RowEdited ==
  ASSUME StoreTyped, StoreStays, NEW j \in Jobs, NEW r \in Rows,
         row' = [row EXCEPT ![j] = r],
         r.running = row[j].running,
         r.st = row[j].st \/ (row[j].st = "absent" /\ r.st = "here"),
         Recount({}) \/ (r.next = row[j].next /\ fires' = fires)
  PROVE  StoreTyped' /\ \A k \in Jobs : RowKept(k) /\ SlotKept(k)
<1>1. row' \in [Jobs -> Rows] /\ row'[j] = r /\ \A k \in Jobs \ {j} : row'[k] = row[k]
  BY DEF StoreTyped
<1>2. \A k \in Jobs : RowKept(k) BY <1>1 DEF RowKept
<1>3. CASE Recount({})
  BY <1>1, <1>2, <1>3, RecountKeeps DEF StoreTyped, StoreStays
<1>4. CASE r.next = row[j].next /\ fires' = fires
  <2>1. \A k \in Jobs : SlotKept(k) BY <1>1, <1>4 DEF SlotKept
  <2>. QED BY <1>1, <1>2, <1>4, <2>1 DEF StoreTyped, StoreStays
<1>. QED BY <1>3, <1>4

LEMMA DoneCalm ==
  ASSUME Whole, StoreTyped', StoreStays, \A j \in Jobs : RowKept(j) /\ SlotKept(j),
         NEW a \in Actors, at[a].pc \notin {"idle", "claimed"}, Done(a),
         a = "tick" => \A j \in Jobs : ~(Marked(j) /\ Settling(j))
  PROVE  Whole'
<1>1. /\ LoopsTyped'
      /\ at'[a].pc \in {"idle", "visit"} /\ \A b \in Actors \ {a} : at'[b] = at[b]
      /\ IF a = "tick" THEN todo # <<>> /\ todo' = Tail(todo) ELSE todo' = todo
  BY DoneTyped DEF Whole
<1>2. up BY AtWorkIsUp
<1>3. WalksOn BY <1>1, ActorKinds DEF WalksOn
<1>4. now' \in Nat /\ now' >= now BY DEF Whole, StoreTyped, StoreStays
<1>5. \A j \in Jobs : Marked(j) /\ Settling(j) => at'["tick"] = at["tick"]
  BY <1>1, ActorKinds
<1>6. CalmStep BY <1>1, <1>2, <1>3, <1>4, <1>5 DEF CalmStep, StoreStays
<1>. QED BY <1>1, <1>6, CalmWhole

LEMMA MoveCalm ==
  ASSUME Whole, StoreTyped', LoopsTyped', StoreStays, \A j \in Jobs : RowKept(j) /\ SlotKept(j),
         up, NEW a \in Actors, \A b \in Actors \ {a} : at'[b] = at[b], todo' = todo,
         at[a].pc \notin {"claimed", "stuck", "fail"},
         at'[a].pc \notin {"claimed", "stuck", "fail"},
         a = "tick" => at'[a].pc # "visit"
  PROVE  Whole'
<1>1. WalksOn BY ActorKinds DEF WalksOn
<1>2. now' \in Nat /\ now' >= now BY DEF Whole, StoreTyped, StoreStays
<1>3. \A j \in Jobs : Settling(j) => at'["tick"] = at["tick"] BY ActorKinds DEF Settling
<1>4. CalmStep BY <1>1, <1>2, <1>3 DEF CalmStep, StoreStays
<1>. QED BY <1>4, CalmWhole

LEMMA StillCalm ==
  ASSUME Whole, StoreTyped', up' = up, now' >= now, UNCHANGED <<task, reg>>,
         \A j \in Jobs : RowKept(j) /\ SlotKept(j), UNCHANGED <<at, todo, seen, queue, pending>>
  PROVE  Whole'
<1>1. WalksOn BY DEF WalksOn
<1>2. CalmStep BY <1>1 DEF CalmStep, StoreTyped
<1>. QED BY <1>2, CalmWhole, LoopsStay DEF Whole

-----------------------------------------------------------------------------
LEMMA ClockWhole == ASSUME Whole, Clock PROVE Whole'
<1>1. now' \in Nat /\ now' >= now BY DEF Clock, Whole, StoreTyped
<1>2. StoreTyped' BY <1>1 DEF Clock, Whole, StoreTyped
<1>. QED BY <1>1, <1>2, RowsStay, StillCalm DEF Clock, loops

LEMMA RefusalWhole == ASSUME Whole, NEW a \in Actors, RecordRefusal(a) PROVE Whole'
<1>. DEFINE j == at[a].job
            t == IF a = "tick" THEN seen ELSE now
<1>1. /\ at[a].pc = "refused" /\ Done(a) /\ Recount({}) /\ StoreStays
      /\ row' = IF row[j].st = "here" /\ row[j].running = NoRun
                THEN [row EXCEPT ![j] = Skipped(j, row[j], t)] ELSE row
  BY DEF RecordRefusal, StoreStays
<1>2. j \in Jobs /\ t \in Nat /\ row[j] \in Rows
  BY AtWorkIsUp DEF Whole, StoreTyped, LoopsTyped
<1>. HIDE DEF t
<1>3. \E r \in Rows : row' = [row EXCEPT ![j] = r] /\ r.running = row[j].running /\ r.st = row[j].st
  <2>1. CASE row[j].st = "here" /\ row[j].running = NoRun
    BY <1>1, <1>2, <2>1, SkippedTyped
  <2>2. CASE ~(row[j].st = "here" /\ row[j].running = NoRun)
    <3>1. row' = [row EXCEPT ![j] = row[j]] BY <1>1, <1>2, <2>2 DEF Whole, StoreTyped
    <3>. QED BY <1>2, <3>1
  <2>. QED BY <2>1, <2>2
<1>4. StoreTyped' /\ \A k \in Jobs : RowKept(k) /\ SlotKept(k)
  BY <1>1, <1>2, <1>3, RowEdited DEF Whole
<1>5. \A k \in Jobs : a = "tick" => ~Settling(k) BY <1>1 DEF Settling
<1>. QED BY <1>1, <1>4, <1>5, DoneCalm

LEMMA DeclineWhole == ASSUME Whole, NEW a \in Actors, Decline(a) PROVE Whole'
<1>1. at[a].pc = "gated" /\ Done(a) /\ StoreStays /\ UNCHANGED <<row, fires>>
  BY DEF Decline, StoreStays
<1>2. StoreTyped' BY <1>1 DEF Whole, StoreTyped, StoreStays
<1>3. \A k \in Jobs : a = "tick" => ~Settling(k) BY <1>1 DEF Settling
<1>. QED BY <1>1, <1>2, <1>3, RowsStay, DoneCalm

LEMMA CatchUpWhole == ASSUME Whole, CatchUpStep PROVE Whole'
<1>. DEFINE a == "catchup"
<1>0. a \in Actors /\ a \in Loops /\ a # "tick" BY ActorKinds DEF Loops
<1>1. StoreStays /\ UNCHANGED <<row, fires, todo, seen>> /\ at[a].pc \in {"visit", "wait", "abort"}
  BY DEF CatchUpStep, CatchUpNext, CatchUpWaited, CatchUpEnd, StoreStays, loops
<1>2. StoreTyped' BY <1>1 DEF Whole, StoreTyped, StoreStays
<1>3. up BY <1>0, <1>1, AtWorkIsUp
<1>4. /\ LoopsTyped'
      /\ at'[a].pc \notin {"claimed", "stuck", "fail"}
      /\ \A b \in Actors \ {a} : at'[b] = at[b]
  <2>1. CASE CatchUpNext
    <3>. DEFINE j == Head(queue)
    <3>1. queue \in Seq(Jobs) /\ queue # <<>> /\ pending \subseteq Jobs
      BY <2>1 DEF CatchUpNext, Whole, LoopsTyped
    <3>2. j \in Jobs /\ queue' = Tail(queue) /\ queue' \in Seq(Jobs) /\ pending' \subseteq Jobs
      BY <2>1, <3>1 DEF CatchUpNext
    <3>3. Agents(j) \in BOOLEAN BY DEF Agents
    <3>4. CASE Gate(a, j, Agents(j))
      BY <1>0, <1>1, <3>2, <3>3, <3>4, GateTyped DEF Whole
    <3>5. CASE UNCHANGED at
      <4>1. LoopsTyped' BY <1>1, <3>2, <3>5 DEF Whole, LoopsTyped, TickAtRest, Places
      <4>. QED BY <1>1, <3>5, <4>1
    <3>. QED BY <2>1, <3>4, <3>5 DEF CatchUpNext
  <2>2. CASE CatchUpWaited
    <3>1. Step(a, Visit) /\ UNCHANGED <<queue, pending>> BY <2>2 DEF CatchUpWaited, loops
    <3>2. Fits(a, Visit) BY <1>0, RestTyped, ActorKinds DEF Fits
    <3>3. queue' \in Seq(Jobs) /\ pending' \subseteq Jobs BY <3>1 DEF Whole, LoopsTyped
    <3>. QED BY <1>0, <1>1, <3>1, <3>2, <3>3, RestTyped, StepTyped DEF Whole
  <2>3. CASE CatchUpEnd
    <3>1. Step(a, Idle) /\ queue' = <<>> /\ pending' = {} BY <2>3 DEF CatchUpEnd
    <3>2. Fits(a, Idle) BY <1>0, RestTyped, ActorKinds DEF Fits
    <3>3. queue' \in Seq(Jobs) /\ pending' \subseteq Jobs BY <3>1
    <3>. QED BY <1>0, <1>1, <3>1, <3>2, <3>3, RestTyped, StepTyped DEF Whole
  <2>. QED BY <2>1, <2>2, <2>3 DEF CatchUpStep
<1>. QED BY <1>0, <1>1, <1>2, <1>3, <1>4, RowsStay, MoveCalm
LEMMA RowStays ==
  ASSUME Whole, StoreStays, UNCHANGED <<row, fires>>
  PROVE  StoreTyped' /\ \A k \in Jobs : RowKept(k) /\ SlotKept(k)
BY RowsStay DEF Whole, StoreTyped, StoreStays

LEMMA DueWhole == ASSUME Whole, TickDue PROVE Whole'
<1>. DEFINE e == Head(todo)
<1>1. at["tick"].pc = "visit" /\ StoreStays /\ UNCHANGED <<row, fires>>
  BY DEF TickDue, Visiting, StoreStays
<1>2. up /\ e \in Entries BY <1>1, AtWorkIsUp, ActorKinds
<1>3. e.job \in Jobs /\ (e.owner = "agent") \in BOOLEAN BY <1>2 DEF Entries
<1>4. \A k \in Jobs : ~Settling(k) BY <1>1 DEF Settling
<1>5. CASE Done("tick")
  BY <1>1, <1>4, <1>5, RowStays, ActorKinds, DoneCalm
<1>6. CASE Gate("tick", e.job, e.owner = "agent") /\ UNCHANGED loops
  <2>. HIDE DEF e
  <2>1. queue' \in Seq(Jobs) /\ pending' \subseteq Jobs /\ UNCHANGED <<todo, seen>>
    BY <1>6 DEF loops, Whole, LoopsTyped
  <2>2. "tick" \in Loops BY DEF Loops
  <2>3. LoopsTyped /\ at["tick"].pc # "idle" BY <1>1 DEF Whole
  <2>. DEFINE agent == e.owner = "agent"
              j == e.job
  <2>4. agent \in BOOLEAN /\ j \in Jobs /\ Gate("tick", j, agent) BY <1>3, <1>6
  <2>. HIDE DEF agent, j
  <2>5. /\ LoopsTyped' /\ at'["tick"].pc \in {"gated", "refused"}
        /\ \A b \in Actors \ {"tick"} : at'[b] = at[b]
    BY <2>1, <2>2, <2>3, <2>4, GateTyped
  <2>. QED BY <1>1, <1>2, <2>1, <2>5, RowStays, ActorKinds, MoveCalm
<1>. QED BY <1>5, <1>6 DEF TickDue

LEMMA ExpireWhole == ASSUME Whole, TickExpire PROVE Whole'
<1>. DEFINE j == Head(todo).job
            r == [row[j] EXCEPT !.enabled = FALSE, !.updated = seen]
<1>1. /\ at["tick"].pc = "visit" /\ Done("tick") /\ StoreStays /\ fires' = fires
      /\ row' = [row EXCEPT ![j] = r] \/ row' = row
  BY DEF TickExpire, Visiting, StoreStays
<1>2. j \in Jobs BY <1>1, AtWorkIsUp, ActorKinds DEF Entries
<1>3. r \in Rows /\ r.running = row[j].running /\ r.st = row[j].st /\ r.next = row[j].next
  <2>1. row[j] \in Rows /\ seen \in Nat BY <1>2 DEF Whole, StoreTyped, LoopsTyped
  <2>. QED BY <2>1 DEF Rows
<1>. HIDE DEF r, j
<1>4. StoreTyped' /\ \A k \in Jobs : RowKept(k) /\ SlotKept(k)
  <2>1. CASE row' = row BY <1>1, <2>1, RowStays
  <2>2. CASE row' = [row EXCEPT ![j] = r]
    BY <1>1, <1>2, <1>3, <2>2, RowEdited DEF Whole
  <2>. QED BY <1>1, <2>1, <2>2
<1>5. \A k \in Jobs : ~Settling(k) BY <1>1 DEF Settling
<1>. QED BY <1>1, <1>4, <1>5, ActorKinds, DoneCalm
-----------------------------------------------------------------------------
(* The edits: what they make of a row keeps its mark.                      *)

LEMMA EditWhole ==
  ASSUME Whole, Editing, StoreStays, NEW j \in Jobs, NEW r \in Rows,
         row' = [row EXCEPT ![j] = r],
         r.running = row[j].running,
         r.st = row[j].st \/ (row[j].st = "absent" /\ r.st = "here"),
         Recount({}) \/ (r.next = row[j].next /\ fires' = fires),
         at' = at
  PROVE  Whole'
<1>1. StoreTyped' /\ \A k \in Jobs : RowKept(k) /\ SlotKept(k) BY RowEdited DEF Whole
<1>2. up' = up /\ now' >= now /\ UNCHANGED <<task, reg>>
  BY DEF StoreStays, Whole, StoreTyped
<1>3. UNCHANGED <<at, todo, seen, queue, pending>> BY DEF Editing, loops
<1>. QED BY <1>1, <1>2, <1>3, StillCalm

\* A step of the edits that leaves slots alone.
LEMMA TouchWhole ==
  ASSUME Whole, NEW j \in Jobs, Adopt(j) \/ Keep(j) \/ Rebind(j)
  PROVE  Whole'
<1>. DEFINE q == row[j]
<1>1. q \in Rows /\ now \in Nat /\ Never \in Int BY DEF Whole, StoreTyped, Never
<1>2. Editing /\ StoreStays /\ fires' = fires /\ at' = at
  BY DEF Adopt, Keep, Rebind, Editing, StoreStays
<1>3. CASE Adopt(j)
  <2>. DEFINE r == [q EXCEPT !.owner = "user", !.expires = Never, !.updated = now]
  <2>1. row' = [row EXCEPT ![j] = r] BY <1>3 DEF Adopt
  <2>2. r \in Rows /\ r.running = q.running /\ r.st = q.st /\ r.next = q.next
    <3>. HIDE DEF q
    <3>. QED BY <1>1 DEF Rows
  <2>. HIDE DEF r
  <2>. QED BY <1>2, <2>1, <2>2, EditWhole
<1>4. CASE Keep(j)
  <2>. DEFINE r == [q EXCEPT !.expires = Never, !.updated = now]
  <2>1. row' = [row EXCEPT ![j] = r] BY <1>4 DEF Keep
  <2>2. r \in Rows /\ r.running = q.running /\ r.st = q.st /\ r.next = q.next
    <3>. HIDE DEF q
    <3>. QED BY <1>1 DEF Rows
  <2>. HIDE DEF r
  <2>. QED BY <1>2, <2>1, <2>2, EditWhole
<1>5. CASE Rebind(j)
  <2>. DEFINE r == [q EXCEPT !.gone = 0]
  <2>1. row' = [row EXCEPT ![j] = r] BY <1>5 DEF Rebind
  <2>2. r \in Rows /\ r.running = q.running /\ r.st = q.st /\ r.next = q.next
    <3>. HIDE DEF q
    <3>. QED BY <1>1 DEF Rows
  <2>. HIDE DEF r
  <2>. QED BY <1>2, <2>1, <2>2, EditWhole
<1>. QED BY <1>3, <1>4, <1>5

LEMMA ExpiryTyped ==
  ASSUME now \in Nat, NEW j, NEW owner, NEW old \in Rows, NEW refresh
  PROVE  Expiry(j, owner, old, refresh) \in Int
<1>1. now + Expire \in Int /\ Never \in Int /\ old.expires \in Int
  BY SchedulerAssumption DEF Rows, Never
<1>. QED BY <1>1 DEF Expiry

LEMMA UpsertWhole ==
  ASSUME Whole, NEW actor \in Editors, NEW j \in Jobs, NEW en \in BOOLEAN,
         NEW m \in 0 .. MaxTime, NEW retargeted \in BOOLEAN,
         Upsert(actor, j, en, m, retargeted)
  PROVE  Whole'
<1>. DEFINE r == row[j]
            new == r.st = "absent"
            enabling == en /\ (new \/ ~r.enabled)
            owner == IF new THEN actor ELSE r.owner
            gone == IF enabling \/ retargeted THEN 0 ELSE r.gone
            saved == [r EXCEPT !.st = "here", !.owner = owner, !.enabled = en, !.updated = now,
                               !.moment = m, !.gone = gone]
            next == Armed(j, saved, r, new \/ enabling)
            expires == Expiry(j, saved.owner, r, actor = "agent" \/ enabling)
            edited == [saved EXCEPT !.next = next, !.expires = expires]
<1>1. r \in Rows /\ now \in Nat /\ m \in Nat /\ actor \in {"user", "agent", "system"}
  BY SchedulerAssumption DEF Whole, StoreTyped
<1>2. owner \in {"user", "agent", "system"} /\ gone \in Nat BY <1>1 DEF Rows
<1>3. /\ Editing /\ StoreStays /\ Recount({}) /\ at' = at /\ r.st # "deleted"
      /\ row' = [row EXCEPT ![j] = edited]
  BY <1>1 DEF Upsert, Editing, StoreStays, Rows
<1>4. saved \in Rows /\ saved.running = r.running /\ saved.st = "here"
  <2>. HIDE DEF owner, gone, r
  <2>. QED BY <1>1, <1>2 DEF Rows
<1>. HIDE DEF saved
<1>5. next \in Int
  <2>1. NextAfter(j, saved, now) \in Int BY <1>1, <1>4, NextSlot
  <2>2. saved.moment \in Int /\ saved.next \in Int /\ r.next \in Int BY <1>1, <1>4 DEF Rows
  <2>. QED BY <2>1, <2>2 DEF Armed
<1>6. expires \in Int BY <1>1, ExpiryTyped
<1>. HIDE DEF next, expires
<1>7. edited \in Rows /\ edited.running = r.running /\ edited.st = "here"
  BY <1>4, <1>5, <1>6 DEF Rows
<1>8. edited.st = r.st \/ (r.st = "absent" /\ edited.st = "here")
  BY <1>1, <1>3, <1>7 DEF Rows
<1>. HIDE DEF edited
<1>. QED BY <1>3, <1>7, <1>8, EditWhole

LEMMA SetEnabledWhole ==
  ASSUME Whole, NEW actor \in Editors, NEW j \in Jobs, NEW en \in BOOLEAN,
         SetEnabled(actor, j, en)
  PROVE  Whole'
<1>. DEFINE r == row[j]
            enabling == en /\ ~r.enabled
            expires == IF enabling THEN Expiry(j, r.owner, r, TRUE) ELSE r.expires
            gone == IF enabling THEN 0 ELSE r.gone
            next == IF enabling THEN NextAfter(j, r, now) ELSE r.next
            edited == [r EXCEPT !.enabled = en, !.updated = now, !.expires = expires,
                                !.gone = gone, !.next = next]
<1>1. r \in Rows /\ now \in Nat BY DEF Whole, StoreTyped
<1>2. expires \in Int /\ gone \in Nat /\ next \in Int
  BY <1>1, ExpiryTyped, NextSlot DEF Rows
<1>3. /\ Editing /\ StoreStays /\ Recount({}) /\ at' = at
      /\ row' = [row EXCEPT ![j] = edited]
  BY <1>1 DEF SetEnabled, Editing, StoreStays, Rows
<1>4. edited \in Rows /\ edited.running = r.running /\ edited.st = r.st
  <2>. HIDE DEF expires, gone, next, r
  <2>. QED BY <1>1, <1>2 DEF Rows
<1>. HIDE DEF edited
<1>. QED BY <1>3, <1>4, EditWhole

LEMMA RunNowWhole ==
  ASSUME Whole, NEW actor \in Editors, NEW c \in Callers, NEW j \in Jobs, RunNow(actor, c, j)
  PROVE  Whole'
<1>. DEFINE agent == actor = "agent"
            rec == At("gated", j, agent, FALSE, NoRun)
            r == [row[j] EXCEPT !.backoff = Never]
<1>1. /\ up /\ StoreStays /\ fires' = fires /\ at[c].pc = "idle" /\ Step(c, rec)
      /\ UNCHANGED <<todo, seen, queue, pending>>
      /\ row' = [row EXCEPT ![j] = r]
  BY DEF RunNow, Editing, StoreStays, loops
<1>2. c \in Actors /\ c # "tick" BY ActorKinds
<1>3. agent \in BOOLEAN OBVIOUS
<1>. HIDE DEF agent
<1>4. rec \in Stands /\ rec.pc = "gated" BY <1>3 DEF At, Stands
<1>. HIDE DEF rec
<1>5. LoopsTyped' /\ at'[c] = rec /\ \A b \in Actors \ {c} : at'[b] = at[b]
  <2>1. Fits(c, rec) BY <1>4, ActorKinds DEF Fits
  <2>2. queue' \in Seq(Jobs) /\ pending' \subseteq Jobs /\ LoopsTyped
    BY <1>1 DEF Whole, LoopsTyped
  <2>. QED BY <1>1, <1>2, <1>4, <2>1, <2>2, StepTyped
<1>6. StoreTyped' /\ \A k \in Jobs : RowKept(k) /\ SlotKept(k)
  <2>1. r \in Rows /\ r.running = row[j].running /\ r.st = row[j].st /\ r.next = row[j].next
    BY DEF Whole, StoreTyped, Rows, Never
  <2>. HIDE DEF r
  <2>. QED BY <1>1, <2>1, RowEdited DEF Whole
<1>. QED BY <1>1, <1>2, <1>4, <1>5, <1>6, MoveCalm
-----------------------------------------------------------------------------
(* The sweeps of the tick, and the removal of a job.                       *)

LEMMA StuckReadWhole == ASSUME Whole, TickStuckRead PROVE Whole'
<1>. DEFINE j == at["tick"].job
            rec == At("fail", j, FALSE, at["tick"].manual, row[j].running)
<1>0. "tick" \in Actors /\ LoopsTyped /\ StoreTyped BY ActorKinds DEF Whole
<1>1. at["tick"].pc = "stuck" /\ StoreStays /\ UNCHANGED <<row, fires>> /\ up /\ j \in Jobs
  BY AtWorkIsUp, ActorKinds DEF TickStuckRead, StoreStays
<1>2. CASE ~Marked(j)
  <2>1. Done("tick") BY <1>2 DEF TickStuckRead, Marked
  <2>2. \A k \in Jobs : ~(Marked(k) /\ Settling(k)) BY <1>2 DEF Settling
  <2>. QED BY <1>0, <1>1, <2>1, <2>2, RowStays, DoneCalm
<1>3. CASE Marked(j)
  <2>1. Step("tick", rec) /\ UNCHANGED loops BY <1>3 DEF TickStuckRead, Marked
  <2>2. rec \in Stands /\ rec.pc = "fail" /\ rec.job = j /\ rec.run = row[j].running
        /\ rec.manual = at["tick"].manual /\ rec.run # NoRun
    BY <1>0, <1>1, <1>3 DEF At, Stands, LoopsTyped, StoreTyped, Rows, Marked
  <2>. HIDE DEF rec
  <2>3. Fits("tick", rec) BY <2>2, ActorKinds DEF Fits
  <2>4. UNCHANGED <<todo, seen, queue, pending>> /\ queue' \in Seq(Jobs) /\ pending' \subseteq Jobs
    BY <1>0, <2>1 DEF loops, LoopsTyped
  <2>5. LoopsTyped' /\ at'["tick"] = rec /\ \A b \in Actors \ {"tick"} : at'[b] = at[b]
    BY <1>0, <1>1, <2>1, <2>2, <2>3, <2>4, StepTyped
  <2>6. StoreTyped' BY <1>1, RowStays
  <2>7. Marks'
    <3>. USE DEF Whole, Marks
    <3>1. up' = up /\ row' = row /\ task' = task /\ reg' = reg BY <1>1 DEF StoreStays
    <3>2. \A a \in Actors : Claimed(a)' <=> Claimed(a) BY <1>1, <2>2, <2>5 DEF Claimed
    <3>3. \A a \in Actors : Claimed(a) => at'[a] = at[a] BY <1>1, <2>5 DEF Claimed
    <3>4. \A k \in Jobs : Settling(k) => Settling(k)' BY <1>1, <2>2, <2>5, <3>1 DEF Settling
    <3>5. Down' BY <1>1, <3>1 DEF Down
    <3>6. MarksAreHere' /\ RegisteredLive' BY <3>1 DEF MarksAreHere, RegisteredLive
    <3>7. ClaimAlone' BY <3>2 DEF ClaimAlone
    <3>8. ClaimMarked' BY <3>1, <3>2, <3>3 DEF ClaimMarked
    <3>9. MarkRegistered' BY <3>1, <3>2, <3>3, <3>4 DEF MarkRegistered, Marked
    <3>. QED BY <3>5, <3>6, <3>7, <3>8, <3>9
  <2>8. Slots'
    <3>. USE DEF Whole, Slots
    <3>1. UNCHANGED <<row, task, reg, fires, now, todo>> BY <1>1, <2>4 DEF StoreStays
    <3>2. \A a \in Actors : Claimed(a)' => Claimed(a) /\ at'[a] = at[a]
      BY <1>1, <2>2, <2>5 DEF Claimed
    <3>3. ListedOnce' BY <1>1, <2>2, <2>5, <3>1 DEF ListedOnce
    <3>4. \A k \in Jobs : StuckAhead(k)' => StuckAhead(k)
      BY <2>2, <2>5, <3>1 DEF StuckAhead
    <3>5. StuckIsOwn' BY <3>1, <3>4 DEF StuckIsOwn
    <3>6. \A k \in Jobs : ByHand(k)' => ByHand(k) BY <1>1, <2>2, <2>5 DEF ByHand
    <3>7. HandMarkStays' BY <3>1, <3>2, <3>6 DEF HandMarkStays
    <3>8. SlotsHeld' BY <3>1, <3>2 DEF SlotsHeld, SlotTaken
    <3>. QED BY <3>3, <3>5, <3>7, <3>8
  <2>. QED BY <2>5, <2>6, <2>7, <2>8 DEF Whole
<1>. QED BY <1>2, <1>3

\* The cancelled task is gone from both tables.
LEMMA CancelTyped ==
  ASSUME StoreTyped, RegisteredLive, NEW j \in Jobs, CancelTask(j)
  PROVE  /\ task' \in [RunIds -> [live : BOOLEAN, job : Jobs, manual : BOOLEAN]]
         /\ reg' \in [Jobs -> RunIds \cup {NoRun}]
         /\ \A i \in RunIds : task'[i].live => task[i].live /\ task'[i] = task[i] /\ i # reg[j]
         /\ reg'[j] = NoRun /\ \A k \in Jobs \ {j} : reg'[k] = reg[k]
         /\ RegisteredLive'
<1>1. NoTask \in [live : BOOLEAN, job : Jobs, manual : BOOLEAN] /\ ~NoTask.live
  BY JobsListed DEF NoTask
<1>2. /\ task' = [i \in RunIds |-> IF i = reg[j] THEN NoTask ELSE task[i]]
      /\ reg' = [reg EXCEPT ![j] = NoRun]
  BY DEF CancelTask
<1>3. task' \in [RunIds -> [live : BOOLEAN, job : Jobs, manual : BOOLEAN]]
  BY <1>1, <1>2 DEF StoreTyped
<1>4. \A i \in RunIds : task'[i].live => task[i].live /\ task'[i] = task[i] /\ i # reg[j]
  BY <1>1, <1>2
<1>5. /\ reg' \in [Jobs -> RunIds \cup {NoRun}] /\ reg'[j] = NoRun
      /\ \A k \in Jobs \ {j} : reg'[k] = reg[k]
  BY <1>2 DEF StoreTyped
<1>6. RegisteredLive'
  <2>. SUFFICES ASSUME NEW k \in Jobs, reg'[k] # NoRun
                PROVE  task'[reg'[k]].live /\ task'[reg'[k]].job = k
    BY DEF RegisteredLive
  <2>1. k # j /\ reg'[k] = reg[k] BY <1>5
  <2>2. task[reg[k]].live /\ task[reg[k]].job = k /\ reg[k] \in RunIds
    BY <2>1 DEF RegisteredLive, StoreTyped
  <2>3. reg[j] # reg[k] BY <2>1, <2>2 DEF RegisteredLive
  <2>4. task'[reg[k]] = task[reg[k]] BY <1>2, <2>2, <2>3
  <2>. QED BY <2>1, <2>2, <2>4
<1>. QED BY <1>3, <1>4, <1>5, <1>6
\* A job is deleted, with its task or leaving it.
LEMMA GoneWhole ==
  ASSUME Whole, StoreTyped', LoopsTyped', up, up' = up, UNCHANGED <<now, fires>>, LockFree,
         NEW j \in Jobs, row' = [row EXCEPT ![j] = Deleted],
         RegisteredLive',
         \A i \in RunIds : task'[i].live => task[i].live /\ task'[i] = task[i],
         \A k \in Jobs \ {j} : reg'[k] = reg[k],
         WalksOn,
         \A a \in Actors : at'[a] = at[a]
            \/ (at'[a].pc \notin {"claimed", "stuck", "fail"} /\ at[a].pc \notin {"stuck", "fail"})
  PROVE  Whole'
<1>. USE DEF Whole
<1>0. "tick" \in Actors BY ActorKinds
<1>1. /\ row'[j].st = "deleted" /\ row'[j].running = NoRun
      /\ \A k \in Jobs \ {j} : row'[k] = row[k]
  BY DeletedTyped DEF StoreTyped
<1>2. \A a \in Actors : ~Claimed(a) /\ ~Claimed(a)' BY DEF LockFree, Claimed
<1>3. \A k \in Jobs : Settling(k) => at'["tick"] = at["tick"] BY <1>0 DEF Settling
<1>4. Marks'
  <2>. USE DEF Marks
  <2>1. Down' BY DEF Down
  <2>2. MarksAreHere' BY <1>1 DEF MarksAreHere
  <2>3. ClaimAlone' /\ ClaimMarked' BY <1>2 DEF ClaimAlone, ClaimMarked
  <2>4. MarkRegistered'
    <3>. SUFFICES ASSUME NEW k \in Jobs, Marked(k)'
                  PROVE  reg'[k] = row'[k].running \/ Settling(k)'
      BY DEF MarkRegistered
    <3>1. k # j /\ row'[k] = row[k] /\ Marked(k) BY <1>1 DEF Marked
    <3>2. reg[k] = row[k].running \/ Settling(k) BY <1>2, <3>1 DEF MarkRegistered
    <3>. QED BY <1>3, <3>1, <3>2 DEF Settling
  <2>. QED BY <2>1, <2>2, <2>3, <2>4
<1>5. Slots'
  <2>. USE DEF Slots
  <2>0. at'["tick"].pc \in {"stuck", "fail"} => at'["tick"] = at["tick"] BY <1>0
  <2>1. ListedOnce' BY <2>0, WalkListed
  <2>2. StuckIsOwn'
    <3>1. \A k \in Jobs : StuckAhead(k)' => StuckAhead(k) BY WalkAhead
    <3>. QED BY <1>1, <3>1 DEF StuckIsOwn
  <2>3. HandMarkStays'
    <3>. SUFFICES ASSUME NEW k \in Jobs, ByHand(k)', row'[k].st # "deleted"
                  PROVE  /\ row'[k].st = "here" /\ row'[k].running # NoRun
                         /\ ~task'[row'[k].running].live
                         /\ k \in Once \/ fires'[k] = 0
      BY <1>2 DEF HandMarkStays
    <3>1. k # j /\ row'[k] = row[k] BY <1>1
    <3>2. ByHand(k) BY <2>0 DEF ByHand
    <3>3. /\ row[k].st = "here" /\ row[k].running # NoRun
          /\ ~task[row[k].running].live /\ (k \in Once \/ fires[k] = 0)
      BY <3>1, <3>2 DEF HandMarkStays
    <3>4. row[k].running \in RunIds BY <3>3 DEF StoreTyped, Rows
    <3>. QED BY <3>1, <3>3, <3>4
  <2>4. SlotsHeld'
    <3>. SUFFICES ASSUME NEW k \in Jobs \ Once, fires'[k] # 0 PROVE SlotTaken(k)'
      BY DEF SlotsHeld
    <3>1. SlotTaken(k) BY DEF SlotsHeld
    <3>2. CASE k = j BY <1>1, <3>1, <3>2 DEF SlotTaken
    <3>3. CASE k # j
      <4>1. row'[k] = row[k] BY <1>1, <3>3
      <4>2. row[k].running # NoRun => row[k].running \in RunIds BY DEF StoreTyped, Rows
      <4>. QED BY <1>2, <3>1, <4>1, <4>2 DEF SlotTaken
    <3>. QED BY <3>2, <3>3
  <2>. QED BY <2>1, <2>2, <2>3, <2>4
<1>. QED BY <1>4, <1>5

LEMMA DeleteWhole == ASSUME Whole, TickDelete PROVE Whole'
<1>. DEFINE j == Head(todo).job
<1>1. /\ at["tick"].pc = "visit" /\ Done("tick") /\ StoreStays /\ fires' = fires /\ LockFree
      /\ row' = [row EXCEPT ![j] = Deleted]
  BY DEF TickDelete, Visiting, StoreStays
<1>2. up /\ j \in Jobs BY <1>1, AtWorkIsUp, ActorKinds DEF Entries
<1>3. /\ LoopsTyped' /\ at'["tick"].pc \in {"idle", "visit"}
      /\ \A b \in Actors \ {"tick"} : at'[b] = at[b]
      /\ todo # <<>> /\ todo' = Tail(todo)
  BY <1>1, ActorKinds, DoneTyped DEF Whole
<1>. HIDE DEF j
<1>4. StoreTyped'
  <2>1. row' \in [Jobs -> Rows] BY <1>1, DeletedTyped DEF Whole, StoreTyped
  <2>. QED BY <1>1, <2>1 DEF Whole, StoreTyped, StoreStays
<1>5. RegisteredLive' BY <1>1 DEF Whole, Marks, RegisteredLive, StoreStays
<1>6. WalksOn BY <1>3 DEF WalksOn
<1>. QED BY <1>1, <1>2, <1>3, <1>4, <1>5, <1>6, GoneWhole DEF StoreStays

LEMMA RemoveWhole ==
  ASSUME Whole, NEW actor \in Editors, NEW j \in Jobs, RemoveJob(actor, j)
  PROVE  Whole'
<1>1. /\ up /\ up' = up /\ UNCHANGED <<now, usage, fires>> /\ LockFree
      /\ row' = [row EXCEPT ![j] = Deleted]
      /\ CancelTask(j) /\ at' = Abandon(reg[j]) /\ UNCHANGED <<todo, seen, queue, pending>>
  BY DEF RemoveJob, Editing, loops
<1>2. /\ at' \in [Actors -> Stands] /\ \A a \in Actors : Fits(a, at'[a])
      /\ at'["tick"] = at["tick"]
      /\ \A a \in Actors : at'[a] = at[a] \/ (at[a].pc = "wait" /\ at'[a].pc = "abort")
  <2>1. reg[j] \in RunIds \cup {NoRun} BY DEF Whole, StoreTyped
  <2>2. "tick" \in Actors /\ "tick" # "catchup" BY ActorKinds
  <2>. QED BY <1>1, <2>1, <2>2, AbandonTyped DEF Whole
<1>3. LoopsTyped'
  BY <1>1, <1>2 DEF Whole, LoopsTyped, TickAtRest, Places
<1>4. /\ task' \in [RunIds -> [live : BOOLEAN, job : Jobs, manual : BOOLEAN]]
      /\ reg' \in [Jobs -> RunIds \cup {NoRun}]
      /\ \A i \in RunIds : task'[i].live => task[i].live /\ task'[i] = task[i]
      /\ \A k \in Jobs \ {j} : reg'[k] = reg[k]
      /\ RegisteredLive'
  BY <1>1, CancelTyped DEF Whole, Marks
<1>5. StoreTyped'
  <2>1. row' \in [Jobs -> Rows] BY <1>1, DeletedTyped DEF Whole, StoreTyped
  <2>. QED BY <1>1, <1>4, <2>1 DEF Whole, StoreTyped
<1>6. WalksOn BY <1>1, <1>2 DEF WalksOn
<1>7. \A a \in Actors : at'[a] = at[a]
         \/ (at'[a].pc \notin {"claimed", "stuck", "fail"} /\ at[a].pc \notin {"stuck", "fail"})
  BY <1>2
<1>. QED BY <1>1, <1>3, <1>4, <1>5, <1>6, <1>7, GoneWhole
\* A run found stuck: if the task that is cancelled was started by hand, its run
\* is the one the mark names.
LEMMA StuckWhole == ASSUME Whole, TickStuck PROVE Whole'
<1>. USE DEF Whole
<1>. DEFINE j == Head(todo).job
            manual == reg[j] # NoRun /\ task[reg[j]].manual
            rec == At("stuck", j, FALSE, manual, NoRun)
<1>0. "tick" \in Actors /\ "tick" # "catchup" BY ActorKinds
<1>1. /\ at["tick"].pc = "visit" /\ Head(todo).what = "stuck"
      /\ CancelTask(j) /\ at' = [Abandon(reg[j]) EXCEPT !["tick"] = rec]
      /\ UNCHANGED <<up, now, row, usage, todo, seen, queue, pending, fires>>
  BY DEF TickStuck, Visiting, loops
<1>2. up /\ j \in Jobs /\ todo # <<>> /\ todo[1].job = j /\ todo[1].what = "stuck"
  BY <1>0, <1>1, AtWorkIsUp DEF Entries
<1>3. reg[j] \in RunIds \cup {NoRun} BY <1>2 DEF StoreTyped
<1>4. manual \in BOOLEAN OBVIOUS
<1>5. StuckAhead(j)
  <2>1. 1 \in 1 .. Len(todo) BY <1>2 DEF LoopsTyped
  <2>. QED BY <1>1, <1>2, <2>1 DEF StuckAhead
<1>6. /\ task' \in [RunIds -> [live : BOOLEAN, job : Jobs, manual : BOOLEAN]]
      /\ reg' \in [Jobs -> RunIds \cup {NoRun}]
      /\ \A i \in RunIds : task'[i].live => task[i].live /\ task'[i] = task[i] /\ i # reg[j]
      /\ reg'[j] = NoRun /\ \A k \in Jobs \ {j} : reg'[k] = reg[k]
      /\ RegisteredLive'
  BY <1>1, <1>2, CancelTyped DEF Marks
<1>7. row[j].st # "deleted" => row[j].st = "here" /\ reg[j] \in {NoRun, row[j].running}
  BY <1>2, <1>5 DEF Slots, StuckIsOwn
<1>8. manual => reg[j] \in RunIds /\ reg[j] # NoRun /\ task[reg[j]].live /\ task[reg[j]].manual
  BY <1>2, <1>3 DEF Marks, RegisteredLive
<1>9. rec \in Stands /\ rec.pc = "stuck" /\ rec.job = j /\ rec.manual = manual
  <2>. HIDE DEF manual, j
  <2>. QED BY <1>2, <1>4 DEF At, Stands
<1>. HIDE DEF rec, j, manual
<1>10. /\ at' \in [Actors -> Stands] /\ at'["tick"] = rec
       /\ \A a \in Actors \ {"tick"} : Fits(a, at'[a])
       /\ \A a \in Actors \ {"tick"} : at'[a] = at[a]
             \/ (at[a].pc = "wait" /\ at'[a].pc = "abort")
  <2>. DEFINE off == Abandon(reg[j])
  <2>1. /\ off \in [Actors -> Stands] /\ \A a \in Actors : Fits(a, off[a])
        /\ \A a \in Actors : off[a] = at[a] \/ (at[a].pc = "wait" /\ off[a].pc = "abort")
    BY <1>3, AbandonTyped
  <2>2. at' = [off EXCEPT !["tick"] = rec] BY <1>1
  <2>. HIDE DEF off
  <2>. QED BY <1>0, <1>9, <2>1, <2>2
<1>11. LoopsTyped'
  <2>1. Fits("tick", at'["tick"])
    BY <1>9, <1>10, ActorKinds DEF Fits
  <2>2. Places' BY <1>10, <2>1 DEF Places
  <2>3. TickAtRest' BY <1>1, <1>2, <1>9, <1>10 DEF TickAtRest
  <2>. QED BY <1>1, <1>10, <2>2, <2>3 DEF LoopsTyped
<1>12. StoreTyped' BY <1>1, <1>6 DEF StoreTyped
<1>13. \A a \in Actors : (Claimed(a)' <=> Claimed(a)) /\ (Claimed(a) => at'[a] = at[a])
  BY <1>1, <1>9, <1>10 DEF Claimed
<1>14. Marks'
  <2>. USE DEF Marks
  <2>1. Down' BY <1>1, <1>2 DEF Down
  <2>2. MarksAreHere' BY <1>1 DEF MarksAreHere
  <2>3. ClaimAlone' BY <1>13 DEF ClaimAlone
  <2>4. ClaimMarked' BY <1>1, <1>6, <1>13 DEF ClaimMarked
  <2>5. MarkRegistered'
    <3>. SUFFICES ASSUME NEW k \in Jobs, Marked(k)
                  PROVE  \/ reg'[k] = row[k].running
                         \/ \E a \in Actors : Claimed(a)' /\ at'[a].job = k
                         \/ Settling(k)'
      BY <1>1 DEF MarkRegistered, Marked
    <3>1. CASE k = j BY <1>9, <1>10, <3>1 DEF Settling
    <3>2. CASE k # j
      <4>1. reg[k] = row[k].running \/ \E a \in Actors : Claimed(a) /\ at[a].job = k
        BY <1>1, <1>2 DEF MarkRegistered, Settling
      <4>. QED BY <1>6, <1>13, <3>2, <4>1
    <3>. QED BY <3>1, <3>2
  <2>. QED BY <1>6, <2>1, <2>2, <2>3, <2>4, <2>5
<1>15. Slots'
  <2>. USE DEF Slots
  <2>1. ListedOnce' BY <1>1, <1>2, <1>9, <1>10 DEF ListedOnce
  <2>2. StuckIsOwn'
    <3>1. \A k \in Jobs : StuckAhead(k)' => StuckAhead(k)
      BY <1>1, <1>9, <1>10 DEF StuckAhead
    <3>. QED BY <1>1, <1>6, <3>1 DEF StuckIsOwn
  <2>3. HandMarkStays'
    <3>. SUFFICES ASSUME manual, row[j].st # "deleted"
                  PROVE  /\ row[j].st = "here" /\ row[j].running # NoRun
                         /\ ~task'[row[j].running].live
                         /\ \A a \in Actors : Claimed(a) => at[a].job # j
                         /\ j \in Once \/ fires[j] = 0
      BY <1>1, <1>9, <1>10, <1>13 DEF HandMarkStays, ByHand
    <3>1. row[j].st = "here" /\ row[j].running = reg[j] BY <1>7, <1>8
    <3>2. \A a \in Actors : Claimed(a) => at[a].job # j
      BY <1>2, <1>8, <3>1 DEF Marks, ClaimMarked
    <3>3. j \in Once \/ fires[j] = 0 BY <1>2, <1>8, <3>1 DEF SlotsHeld, SlotTaken
    <3>. QED BY <1>6, <1>8, <3>1, <3>2, <3>3
  <2>4. SlotsHeld'
    <3>. SUFFICES ASSUME NEW k \in Jobs \ Once, fires[k] # 0 PROVE SlotTaken(k)'
      BY <1>1 DEF SlotsHeld
    <3>1. SlotTaken(k) BY DEF SlotsHeld
    <3>2. row[k].running # NoRun => row[k].running \in RunIds BY DEF StoreTyped, Rows
    <3>. QED BY <1>1, <1>6, <1>13, <3>1, <3>2 DEF SlotTaken
  <2>. QED BY <2>1, <2>2, <2>3, <2>4
<1>. QED BY <1>11, <1>12, <1>14, <1>15
-----------------------------------------------------------------------------
(* The end of a run, by itself or by the sweep.                            *)

LEMMA RecountRest ==
  ASSUME StoreTyped, Recount({})
  PROVE  /\ fires' \in [Jobs -> Nat]
         /\ \A k \in Jobs : row'[k] = row[k] => fires'[k] = fires[k]
<1>1. \A k \in Jobs : fires[k] + 0 = fires[k] /\ fires[k] \in Nat BY DEF StoreTyped
<1>2. fires' = [k \in Jobs |->
          IF row'[k].next # row[k].next /\ row'[k].next # Never THEN 0 ELSE fires[k] + 0]
  BY DEF Recount
<1>. QED BY <1>1, <1>2

\* The slot of a run by the schedule is behind it, so that the job's next slot,
\* which is ahead, is another.
LEMMA SettledRow ==
  ASSUME StoreTyped, SlotsHeld, NEW j \in Jobs, NEW outcome, NEW manual \in BOOLEAN,
         row[j].st = "here", manual => j \in Once \/ fires[j] = 0,
         row' = [row EXCEPT ![j] = Settled(j, @, outcome, manual)], Recount({})
  PROVE  /\ row' \in [Jobs -> Rows] /\ fires' \in [Jobs -> Nat]
         /\ row'[j].st = "here" /\ row'[j].running = NoRun
         /\ \A k \in Jobs \ {j} : row'[k] = row[k] /\ fires'[k] = fires[k]
         /\ j \in Once \/ fires'[j] = 0
<1>. DEFINE r == Settled(j, row[j], outcome, manual)
<1>1. row[j] \in Rows /\ now \in Nat BY DEF StoreTyped
<1>2. /\ r \in Rows /\ r.st = "here" /\ r.running = NoRun
      /\ r.next = IF manual THEN row[j].next ELSE NextAfter(j, row[j], now)
  BY <1>1, SettledTyped
<1>3. row' = [row EXCEPT ![j] = r] BY DEF StoreTyped
<1>. HIDE DEF r
<1>4. row' \in [Jobs -> Rows] /\ row'[j] = r /\ \A k \in Jobs \ {j} : row'[k] = row[k]
  BY <1>2, <1>3 DEF StoreTyped
<1>5. fires' \in [Jobs -> Nat] /\ \A k \in Jobs \ {j} : fires'[k] = fires[k]
  BY <1>4, RecountRest
<1>6. j \in Once \/ fires'[j] = 0
  <2>. SUFFICES ASSUME j \notin Once PROVE fires'[j] = 0 OBVIOUS
  <2>1. fires'[j] = IF r.next # row[j].next /\ r.next # Never THEN 0 ELSE fires[j] + 0
    BY <1>4 DEF Recount
  <2>2. CASE manual
    <3>1. r.next = row[j].next /\ fires[j] = 0 BY <1>2, <2>2
    <3>. QED BY <2>1, <3>1
  <2>3. CASE ~manual
    <3>1. r.next > now /\ r.next # Never /\ r.next \in Int
      BY <1>1, <1>2, <2>3, NextSlot
    <3>2. CASE fires[j] = 0 BY <2>1, <3>2
    <3>3. CASE fires[j] # 0
      <4>1. row[j].next <= now BY <3>3 DEF SlotsHeld, SlotTaken
      <4>2. row[j].next \in Int BY <1>1 DEF Rows
      <4>3. r.next # row[j].next BY <1>1, <3>1, <4>1, <4>2
      <4>. QED BY <2>1, <3>1, <4>3
    <3>. QED BY <3>2, <3>3
  <2>. QED BY <2>2, <2>3
<1>. QED BY <1>2, <1>4, <1>5, <1>6

LEMMA FailWhole == ASSUME Whole, TickFail PROVE Whole'
<1>. USE DEF Whole
<1>. DEFINE j == at["tick"].job
            fits == row[j].st = "here" /\ row[j].running = at["tick"].run
<1>0. "tick" \in Actors BY ActorKinds
<1>1. /\ at["tick"].pc = "fail" /\ LockFree /\ Done("tick") /\ Recount({}) /\ StoreStays
      /\ at["tick"].manual \in BOOLEAN /\ at["tick"].run # NoRun /\ up /\ j \in Jobs
      /\ row' = IF fits THEN [row EXCEPT ![j] = Settled(j, @, "error", at["tick"].manual)] ELSE row
  <2>1. at["tick"].manual \in BOOLEAN BY <1>0 DEF LoopsTyped, Stands
  <2>2. at["tick"].pc = "fail" BY DEF TickFail
  <2>3. at["tick"].run # NoRun BY <1>0, <2>2, AtWorkIsUp, ActorKinds DEF Fits
  <2>. QED BY <1>0, <2>1, <2>2, <2>3, AtWorkIsUp DEF TickFail, StoreStays
<1>2. CASE ~fits
  <2>1. row' = row BY <1>1, <1>2
  <2>2. StoreTyped' /\ \A k \in Jobs : RowKept(k) /\ SlotKept(k)
    <3>1. fires' = fires BY <1>1, <2>1, RecountRest DEF StoreTyped
    <3>. QED BY <1>1, <2>1, <3>1, RowStays
  <2>3. \A k \in Jobs : ~(Marked(k) /\ Settling(k)) BY <1>1, <1>2 DEF Settling, Marked
  <2>. QED BY <1>0, <1>1, <2>2, <2>3, DoneCalm
<1>3. CASE fits
  <2>0. todo[1].job = j BY <1>1 DEF Slots, ListedOnce
  <2>1. at["tick"].manual => j \in Once \/ fires[j] = 0
    BY <1>1, <1>3 DEF Slots, HandMarkStays, ByHand
  <2>. DEFINE manual == at["tick"].manual
  <2>2. /\ manual \in BOOLEAN /\ row[j].st = "here" /\ (manual => j \in Once \/ fires[j] = 0)
        /\ row' = [row EXCEPT ![j] = Settled(j, @, "error", manual)]
    BY <1>1, <1>3, <2>1
  <2>. HIDE DEF manual
  <2>3. /\ row' \in [Jobs -> Rows] /\ fires' \in [Jobs -> Nat]
        /\ row'[j].st = "here" /\ row'[j].running = NoRun
        /\ \A k \in Jobs \ {j} : row'[k] = row[k] /\ fires'[k] = fires[k]
        /\ j \in Once \/ fires'[j] = 0
    <3>. HIDE DEF j
    <3>. QED BY <1>1, <2>2, SettledRow DEF Slots
  <2>4. StoreTyped' BY <1>1, <2>3 DEF StoreTyped, StoreStays
  <2>5. /\ LoopsTyped' /\ at'["tick"].pc \in {"idle", "visit"}
        /\ \A b \in Actors \ {"tick"} : at'[b] = at[b]
        /\ todo # <<>> /\ todo' = Tail(todo)
    BY <1>0, <1>1, DoneTyped
  <2>6. \A a \in Actors : ~Claimed(a) /\ ~Claimed(a)'
    BY <1>1, <2>5 DEF LockFree, Claimed
  <2>7. Marks'
    <3>. USE DEF Marks
    <3>1. Down' BY <1>1 DEF Down, StoreStays
    <3>2. MarksAreHere' BY <2>3 DEF MarksAreHere
    <3>3. RegisteredLive' BY <1>1 DEF RegisteredLive, StoreStays
    <3>4. ClaimAlone' /\ ClaimMarked' BY <2>6 DEF ClaimAlone, ClaimMarked
    <3>5. MarkRegistered'
      <4>. SUFFICES ASSUME NEW k \in Jobs, Marked(k)' PROVE reg'[k] = row'[k].running
        BY DEF MarkRegistered
      <4>1. k # j /\ row'[k] = row[k] /\ Marked(k) BY <2>3 DEF Marked
      <4>. QED BY <1>1, <2>6, <4>1 DEF MarkRegistered, Settling, StoreStays
    <3>. QED BY <3>1, <3>2, <3>3, <3>4, <3>5
  <2>8. Slots'
    <3>. USE DEF Slots
    <3>0. WalksOn BY <2>5 DEF WalksOn
    <3>1. ListedOnce' BY <2>5, <3>0, WalkListed
    <3>2. StuckIsOwn'
      <4>1. \A k \in Jobs : StuckAhead(k)' => StuckAhead(k) BY <3>0, WalkAhead
      <4>2. ~StuckAhead(j)
        <5>1. 1 \in 1 .. Len(todo) BY <2>5 DEF LoopsTyped
        <5>. QED BY <1>1, <2>0, <5>1 DEF StuckAhead, ListedOnce
      <4>. QED BY <1>1, <2>3, <4>1, <4>2 DEF StuckIsOwn, StoreStays
    <3>3. HandMarkStays' BY <2>5 DEF HandMarkStays, ByHand
    <3>4. SlotsHeld' BY <1>1, <2>3, <2>6 DEF SlotsHeld, SlotTaken, StoreStays
    <3>. QED BY <3>1, <3>2, <3>3, <3>4
  <2>. QED BY <2>4, <2>5, <2>7, <2>8
<1>. QED BY <1>2, <1>3
LEMMA RunEndsWhole ==
  ASSUME Whole, NEW i \in RunIds, NEW outcome \in Outcomes, RunEnds(i, outcome)
  PROVE  Whole'
<1>. USE DEF Whole
<1>. DEFINE j == task[i].job
            fits == row[j].st = "here" /\ row[j].running = i
            manual == task[i].manual
<1>0. i # NoRun BY SchedulerAssumption
<1>1. /\ task[i].live /\ LockFree /\ Recount({}) /\ UNCHANGED <<up, now, usage>>
      /\ UNCHANGED <<at, todo, seen, queue, pending>>
      /\ j \in Jobs /\ manual \in BOOLEAN
      /\ row' = IF fits THEN [row EXCEPT ![j] = Settled(j, @, outcome, manual)] ELSE row
      /\ task' = [task EXCEPT ![i] = NoTask]
      /\ reg' = IF reg[j] = i THEN [reg EXCEPT ![j] = NoRun] ELSE reg
  BY DEF RunEnds, loops, StoreTyped
<1>2. up BY <1>1 DEF Marks, Down
<1>3. /\ task' \in [RunIds -> [live : BOOLEAN, job : Jobs, manual : BOOLEAN]]
      /\ ~task'[i].live /\ \A h \in RunIds \ {i} : task'[h] = task[h]
  <2>1. NoTask \in [live : BOOLEAN, job : Jobs, manual : BOOLEAN] /\ ~NoTask.live
    BY JobsListed DEF NoTask
  <2>. QED BY <1>1, <2>1 DEF StoreTyped
<1>. HIDE DEF j, manual
<1>4. /\ reg' \in [Jobs -> RunIds \cup {NoRun}]
      /\ reg'[j] = IF reg[j] = i THEN NoRun ELSE reg[j]
      /\ \A k \in Jobs \ {j} : reg'[k] = reg[k]
  BY <1>1 DEF StoreTyped
<1>5. /\ row' \in [Jobs -> Rows] /\ fires' \in [Jobs -> Nat]
      /\ \A k \in Jobs : row[k].running # i \/ row[k].st # "here" \/ k # j =>
            row'[k] = row[k] /\ fires'[k] = fires[k]
      /\ fits => /\ row'[j].st = "here" /\ row'[j].running = NoRun
                 /\ j \in Once \/ fires'[j] = 0
  <2>1. CASE fits
    <3>1. manual => j \in Once \/ fires[j] = 0
      BY <1>0, <1>1, <2>1 DEF Slots, SlotsHeld, SlotTaken, manual
    <3>2. /\ row' \in [Jobs -> Rows] /\ fires' \in [Jobs -> Nat]
          /\ row'[j].st = "here" /\ row'[j].running = NoRun
          /\ \A k \in Jobs \ {j} : row'[k] = row[k] /\ fires'[k] = fires[k]
          /\ j \in Once \/ fires'[j] = 0
      BY <1>1, <2>1, <3>1, SettledRow DEF Slots
    <3>. QED BY <2>1, <3>2
  <2>2. CASE ~fits
    <3>1. row' = row BY <1>1, <2>2
    <3>. QED BY <1>1, <2>2, <3>1, RecountRest DEF StoreTyped
  <2>. QED BY <2>1, <2>2
<1>6. StoreTyped' BY <1>1, <1>3, <1>4, <1>5 DEF StoreTyped
<1>7. LoopsTyped' BY <1>1, LoopsStay
<1>8. \A a \in Actors : ~Claimed(a) /\ ~Claimed(a)' BY <1>1 DEF LockFree, Claimed
<1>9. Marks'
  <2>. USE DEF Marks
  <2>1. Down' BY <1>1, <1>2 DEF Down
  <2>2. MarksAreHere' BY <1>5 DEF MarksAreHere
  <2>3. RegisteredLive'
    <3>. SUFFICES ASSUME NEW k \in Jobs, reg'[k] # NoRun
                  PROVE  task'[reg'[k]].live /\ task'[reg'[k]].job = k
      BY DEF RegisteredLive
    <3>1. reg'[k] = reg[k] BY <1>4
    <3>2. task[reg[k]].live /\ task[reg[k]].job = k /\ reg[k] \in RunIds
      BY <3>1 DEF RegisteredLive, StoreTyped
    <3>3. reg[k] # i
      <4>1. reg[k] = i => k = j BY <3>2 DEF j
      <4>. QED BY <1>4, <3>1, <4>1
    <3>. QED BY <1>3, <3>1, <3>2, <3>3
  <2>4. ClaimAlone' /\ ClaimMarked' BY <1>8 DEF ClaimAlone, ClaimMarked
  <2>5. MarkRegistered'
    <3>. SUFFICES ASSUME NEW k \in Jobs, Marked(k)'
                  PROVE  reg'[k] = row'[k].running \/ Settling(k)'
      BY DEF MarkRegistered
    <3>1. row'[k] = row[k] /\ Marked(k) /\ ~(k = j /\ row[k].running = i)
      BY <1>5 DEF Marked
    <3>2. reg[k] = row[k].running \/ Settling(k) BY <1>2, <1>8, <3>1 DEF MarkRegistered
    <3>3. Settling(k) => Settling(k)' BY <1>1, <3>1 DEF Settling
    <3>. QED BY <1>4, <3>1, <3>2, <3>3
  <2>. QED BY <2>1, <2>2, <2>3, <2>4, <2>5
<1>10. Slots'
  <2>. USE DEF Slots
  <2>1. ListedOnce' BY <1>1 DEF ListedOnce
  <2>2. StuckIsOwn'
    <3>. SUFFICES ASSUME NEW k \in Jobs, StuckAhead(k), row'[k].st # "deleted"
                  PROVE  row'[k].st = "here" /\ reg'[k] \in {NoRun, row'[k].running}
      BY <1>1 DEF StuckIsOwn, StuckAhead
    <3>1. CASE k = j /\ fits
      <4>1. reg[j] \in {NoRun, i} BY <1>1, <3>1 DEF StuckIsOwn
      <4>. QED BY <1>4, <1>5, <3>1, <4>1
    <3>2. CASE ~(k = j /\ fits)
      <4>1. row'[k] = row[k] BY <1>5, <3>2
      <4>2. row[k].st = "here" /\ reg[k] \in {NoRun, row[k].running}
        BY <4>1 DEF StuckIsOwn
      <4>. QED BY <1>4, <4>1, <4>2
    <3>. QED BY <3>1, <3>2
  <2>3. HandMarkStays'
    <3>. SUFFICES ASSUME NEW k \in Jobs, ByHand(k), row'[k].st # "deleted"
                  PROVE  /\ row'[k].st = "here" /\ row'[k].running # NoRun
                         /\ ~task'[row'[k].running].live
                         /\ k \in Once \/ fires'[k] = 0
      BY <1>1, <1>8 DEF HandMarkStays, ByHand
    <3>1. row[k].st # "deleted" BY <1>5
    <3>2. /\ row[k].st = "here" /\ row[k].running # NoRun
          /\ ~task[row[k].running].live /\ (k \in Once \/ fires[k] = 0)
      BY <3>1 DEF HandMarkStays
    <3>3. row[k].running \in RunIds \ {i} BY <1>1, <3>2 DEF StoreTyped, Rows
    <3>4. row'[k] = row[k] /\ fires'[k] = fires[k] BY <1>5, <3>3
    <3>. QED BY <1>3, <3>2, <3>3, <3>4
  <2>4. SlotsHeld'
    <3>. SUFFICES ASSUME NEW k \in Jobs \ Once, fires'[k] # 0 PROVE SlotTaken(k)'
      BY DEF SlotsHeld
    <3>1. row'[k] = row[k] /\ fires'[k] = fires[k] BY <1>5
    <3>2. SlotTaken(k) BY <3>1 DEF SlotsHeld
    <3>3. row[k].running # NoRun => row[k].running \in RunIds BY DEF StoreTyped, Rows
    <3>4. \A h \in RunIds : task'[h].live => task'[h] = task[h] BY <1>3
    <3>. QED BY <1>1, <1>8, <3>1, <3>2, <3>3, <3>4 DEF SlotTaken
  <2>. QED BY <2>1, <2>2, <2>3, <2>4
<1>. QED BY <1>6, <1>7, <1>9, <1>10
-----------------------------------------------------------------------------
(* The start of a run: the mark, then the task.                            *)

LEMMA MarkedRow ==
  ASSUME NEW q \in Rows, NEW i \in RunIds, NEW t \in Nat
  PROVE  LET r == [q EXCEPT !.running = i, !.since = t]
         IN r \in Rows /\ r.st = q.st /\ r.running = i /\ r.next = q.next
<1>. DEFINE r == [q EXCEPT !.running = i, !.since = t]
<1>1. r \in Rows BY DEF Rows
<1>2. r.st = q.st /\ r.running = i /\ r.next = q.next BY DEF Rows
<1>. QED BY <1>1, <1>2

LEMMA ClaimWhole == ASSUME Whole, NEW a \in Actors, Claim(a) PROVE Whole'
<1>. USE DEF Whole
<1>. DEFINE j == at[a].job
<1>0. "tick" \in Actors /\ j \in Jobs /\ up /\ at[a].pc = "gated"
  BY AtWorkIsUp, ActorKinds DEF Claim
<1>1. PICK i \in RunIds :
        /\ Unused(i)
        /\ row' = [row EXCEPT ![j].running = i, ![j].since = now]
        /\ Step(a, At("claimed", j, at[a].count, FALSE, i))
  BY DEF Claim
<1>. DEFINE q == row[j]
            r == [q EXCEPT !.running = i, !.since = now]
            rec == At("claimed", j, at[a].count, FALSE, i)
<1>2. /\ LockFree /\ row[j].st = "here" /\ row[j].running = NoRun
      /\ a \in Loops => row[j].next <= now
      /\ UNCHANGED <<up, now, usage, task, reg, todo, seen, queue, pending>>
      /\ Recount(IF a \in Loops THEN {j} ELSE {})
  BY DEF Claim, Startable, loops
<1>3. i # NoRun /\ ~task[i].live /\ \A k \in Jobs : row[k].running # i
  BY <1>1, SchedulerAssumption DEF Unused
<1>4. r \in Rows /\ r.st = "here" /\ r.running = i /\ r.next = row[j].next
  <2>1. q \in Rows /\ now \in Nat /\ q.st = "here" /\ i \in RunIds
    BY <1>0, <1>1, <1>2 DEF StoreTyped
  <2>. HIDE DEF q
  <2>2. r \in Rows /\ r.st = q.st /\ r.running = i /\ r.next = q.next
    BY <2>1, MarkedRow, Zenon
  <2>. USE DEF q
  <2>. QED BY <2>1, <2>2, Zenon
<1>5. row' = [row EXCEPT ![j] = r]
  <2>1. row[j] \in Rows BY <1>0 DEF StoreTyped
  <2>. QED BY <1>0, <1>1, <2>1 DEF StoreTyped, Rows
<1>6. rec \in Stands /\ rec.pc = "claimed" /\ rec.job = j /\ rec.run = i
  <2>1. at[a].count \in BOOLEAN BY DEF LoopsTyped, Stands
  <2>. HIDE DEF j
  <2>. QED BY <1>0, <2>1 DEF At, Stands
<1>7. Step(a, rec) BY <1>1
<1>. HIDE DEF r, rec, j
<1>8. row' \in [Jobs -> Rows] /\ row'[j] = r /\ \A k \in Jobs \ {j} : row'[k] = row[k]
  BY <1>0, <1>4, <1>5 DEF StoreTyped
<1>9. LoopsTyped' /\ at'[a] = rec /\ \A b \in Actors \ {a} : at'[b] = at[b]
  <2>1. Fits(a, rec) BY <1>6, ActorKinds DEF Fits
  <2>2. queue' \in Seq(Jobs) /\ pending' \subseteq Jobs BY <1>2 DEF LoopsTyped
  <2>. QED BY <1>0, <1>2, <1>6, <1>7, <2>1, <2>2, StepTyped
<1>10. /\ \A k \in Jobs \ {j} : fires'[k] = fires[k]
       /\ fires'[j] = IF a \in Loops THEN fires[j] + 1 ELSE fires[j]
       /\ fires' \in [Jobs -> Nat]
  <2>1. \A k \in Jobs : row'[k].next = row[k].next BY <1>4, <1>8
  <2>2. \A k \in Jobs : fires[k] \in Nat /\ fires[k] + 0 = fires[k] /\ fires[k] + 1 \in Nat
    BY DEF StoreTyped
  <2>. DEFINE started == IF a \in Loops THEN {j} ELSE {}
  <2>3. fires' = [k \in Jobs |-> fires[k] + (IF k \in started THEN 1 ELSE 0)]
    BY <1>2, <2>1 DEF Recount
  <2>. QED BY <1>0, <2>2, <2>3
<1>11. StoreTyped' BY <1>2, <1>8, <1>10 DEF StoreTyped
<1>12. Claimed(a)' /\ \A b \in Actors : ~Claimed(b) /\ (Claimed(b)' => b = a)
  BY <1>2, <1>6, <1>9 DEF LockFree, Claimed
<1>13. ~Marked(j) BY <1>2 DEF Marked
<1>14. Marks'
  <2>. USE DEF Marks
  <2>1. Down' BY <1>0, <1>2 DEF Down
  <2>2. MarksAreHere' BY <1>4, <1>8 DEF MarksAreHere
  <2>3. RegisteredLive' BY <1>2 DEF RegisteredLive
  <2>4. ClaimAlone' BY <1>12 DEF ClaimAlone
  <2>5. ClaimMarked'
    BY <1>2, <1>3, <1>4, <1>6, <1>8, <1>9, <1>12 DEF ClaimMarked
  <2>6. MarkRegistered'
    <3>. SUFFICES ASSUME NEW k \in Jobs, Marked(k)'
                  PROVE  \/ reg'[k] = row'[k].running
                         \/ \E b \in Actors : Claimed(b)' /\ at'[b].job = k
                         \/ Settling(k)'
      BY DEF MarkRegistered
    <3>1. CASE k = j BY <1>6, <1>9, <1>12, <3>1
    <3>2. CASE k # j
      <4>1. row'[k] = row[k] /\ Marked(k) BY <1>8, <3>2 DEF Marked
      <4>2. reg[k] = row[k].running \/ Settling(k)
        BY <1>0, <1>12, <4>1 DEF MarkRegistered
      <4>3. Settling(k) => at'["tick"] = at["tick"] BY <1>0, <1>9 DEF Settling
      <4>. QED BY <1>2, <4>1, <4>2, <4>3 DEF Settling
    <3>. QED BY <3>1, <3>2
  <2>. QED BY <2>1, <2>2, <2>3, <2>4, <2>5, <2>6
<1>15. Slots'
  <2>. USE DEF Slots
  <2>0. at'["tick"].pc \in {"stuck", "fail", "visit"} => at'["tick"] = at["tick"]
    BY <1>0, <1>6, <1>9
  <2>1. ListedOnce' BY <1>2, <2>0 DEF ListedOnce
  <2>2. StuckIsOwn'
    <3>. SUFFICES ASSUME NEW k \in Jobs, StuckAhead(k)', row'[k].st # "deleted"
                  PROVE  row'[k].st = "here" /\ reg[k] \in {NoRun, row'[k].running}
      BY <1>2 DEF StuckIsOwn
    <3>1. StuckAhead(k) BY <1>2, <2>0 DEF StuckAhead
    <3>2. CASE k = j BY <1>2, <1>4, <1>8, <3>1, <3>2 DEF StuckIsOwn
    <3>3. CASE k # j BY <1>8, <3>1, <3>3 DEF StuckIsOwn
    <3>. QED BY <3>2, <3>3
  <2>3. HandMarkStays'
    <3>. SUFFICES ASSUME NEW k \in Jobs, ByHand(k)', row'[k].st # "deleted"
                  PROVE  /\ row'[k].st = "here" /\ row'[k].running # NoRun
                         /\ ~task[row'[k].running].live
                         /\ k # j
                         /\ k \in Once \/ fires'[k] = 0
      BY <1>2, <1>6, <1>9, <1>12 DEF HandMarkStays
    <3>1. ByHand(k) BY <2>0 DEF ByHand
    <3>2. row[k].st # "deleted" BY <1>2, <1>8
    <3>3. k # j BY <1>2, <3>1, <3>2 DEF HandMarkStays
    <3>. QED BY <1>8, <1>10, <3>1, <3>2, <3>3 DEF HandMarkStays
  <2>4. SlotsHeld'
    <3>. SUFFICES ASSUME NEW k \in Jobs \ Once, fires'[k] # 0 PROVE SlotTaken(k)'
      BY DEF SlotsHeld
    <3>1. CASE k = j
      <4>1. fires[j] = 0 BY <1>0, <1>2, <3>1 DEF SlotsHeld, SlotTaken
      <4>2. a \in Loops /\ fires'[j] = 1 BY <1>10, <3>1, <4>1
      <4>. QED BY <1>2, <1>3, <1>4, <1>8, <1>12, <3>1, <4>2 DEF SlotTaken
    <3>2. CASE k # j
      <4>1. row'[k] = row[k] /\ fires'[k] = fires[k] /\ SlotTaken(k)
        BY <1>8, <1>10, <3>2 DEF SlotsHeld
      <4>2. \A b \in Actors : Claimed(b)' => at'[b].job # k BY <1>6, <1>9, <1>12, <3>2
      <4>. QED BY <1>2, <4>1, <4>2 DEF SlotTaken
    <3>. QED BY <3>1, <3>2
  <2>. QED BY <2>1, <2>2, <2>3, <2>4
<1>. QED BY <1>9, <1>11, <1>14, <1>15
LEMMA RegisterWhole == ASSUME Whole, NEW a \in Actors, Register(a) PROVE Whole'
<1>. USE DEF Whole
<1>. DEFINE j == at[a].job
            i == at[a].run
            run == [live |-> TRUE, job |-> j, manual |-> a \in Callers]
<1>0. "tick" \in Actors /\ "catchup" \in Actors /\ j \in Jobs /\ up /\ at[a].pc = "claimed"
  BY AtWorkIsUp, ActorKinds DEF Register
<1>1. /\ i \in RunIds /\ i # NoRun /\ ~task[i].live
      /\ row[j].st = "here" /\ \A k \in Jobs : row[k].running = i <=> k = j
  BY <1>0, SchedulerAssumption DEF Marks, ClaimMarked, Claimed
<1>2. /\ UNCHANGED <<up, now, row, fires>> /\ usage' \in Nat
      /\ task' = [task EXCEPT ![i] = run]
      /\ reg' = [reg EXCEPT ![j] = i]
  <2>1. usage' \in Nat
    <3>1. usage \in Nat /\ usage + 1 \in Nat BY DEF StoreTyped
    <3>. QED BY <3>1 DEF Register
  <2>. QED BY <2>1 DEF Register
<1>3. /\ LoopsTyped' /\ WalksOn
      /\ at'[a].pc \notin {"claimed", "stuck", "fail"}
      /\ \A b \in Actors \ {a} : at'[b] = at[b]
  <2>1. CASE a = "catchup"
    <3>. DEFINE rec == At("wait", Order[1], FALSE, FALSE, i)
    <3>1. Step(a, rec) /\ UNCHANGED loops BY <2>1 DEF Register
    <3>2. rec \in Stands /\ rec.pc = "wait" BY <1>1, JobsListed DEF At, Stands
    <3>3. Fits(a, rec) BY <2>1, <3>2, ActorKinds DEF Fits
    <3>4. UNCHANGED <<todo, seen, queue, pending>> /\ queue' \in Seq(Jobs) /\ pending' \subseteq Jobs
      BY <3>1 DEF loops, LoopsTyped
    <3>. HIDE DEF rec
    <3>5. LoopsTyped' /\ at'[a] = rec /\ \A b \in Actors \ {a} : at'[b] = at[b]
      BY <2>1, <3>1, <3>2, <3>3, <3>4, StepTyped
    <3>6. at'["tick"] = at["tick"] BY <1>0, <2>1, <3>5
    <3>. QED BY <3>2, <3>4, <3>5, <3>6 DEF WalksOn
  <2>2. CASE a # "catchup"
    <3>1. Done(a) BY <2>2 DEF Register
    <3>2. /\ LoopsTyped'
          /\ at'[a].pc \in {"idle", "visit"} /\ \A b \in Actors \ {a} : at'[b] = at[b]
          /\ IF a = "tick" THEN todo # <<>> /\ todo' = Tail(todo) ELSE todo' = todo
      BY <1>0, <3>1, DoneTyped
    <3>3. WalksOn BY <1>0, <3>2 DEF WalksOn
    <3>. QED BY <3>2, <3>3
  <2>. QED BY <2>1, <2>2
<1>. HIDE DEF j
<1>4. /\ run \in [live : BOOLEAN, job : Jobs, manual : BOOLEAN]
      /\ run.live /\ run.job = j /\ run.manual = (a \in Callers)
  BY <1>0
<1>. HIDE DEF run, i
<1>5. /\ task' \in [RunIds -> [live : BOOLEAN, job : Jobs, manual : BOOLEAN]]
      /\ task'[i] = run /\ \A h \in RunIds \ {i} : task'[h] = task[h]
  BY <1>1, <1>2, <1>4 DEF StoreTyped
<1>6. /\ reg' \in [Jobs -> RunIds \cup {NoRun}]
      /\ reg'[j] = i /\ \A k \in Jobs \ {j} : reg'[k] = reg[k]
  BY <1>0, <1>1, <1>2 DEF StoreTyped
<1>7. StoreTyped' BY <1>2, <1>5, <1>6 DEF StoreTyped
<1>8. \A b \in Actors : (Claimed(b) => b = a) /\ ~Claimed(b)'
  BY <1>0, <1>3 DEF Marks, ClaimAlone, Claimed
<1>9. \A k \in Jobs : row[k].running # NoRun /\ k # j => row[k].running \in RunIds \ {i}
  BY <1>1 DEF StoreTyped, Rows
<1>10. Marks'
  <2>. USE DEF Marks
  <2>1. Down' BY <1>0, <1>2 DEF Down
  <2>2. MarksAreHere' BY <1>2 DEF MarksAreHere
  <2>3. RegisteredLive'
    <3>. SUFFICES ASSUME NEW k \in Jobs, reg'[k] # NoRun
                  PROVE  task'[reg'[k]].live /\ task'[reg'[k]].job = k
      BY DEF RegisteredLive
    <3>1. CASE k = j BY <1>4, <1>5, <1>6, <3>1
    <3>2. CASE k # j
      <4>1. task[reg[k]].live /\ task[reg[k]].job = k /\ reg[k] \in RunIds /\ reg'[k] = reg[k]
        BY <1>6, <3>2 DEF RegisteredLive, StoreTyped
      <4>. QED BY <1>1, <1>5, <4>1
    <3>. QED BY <3>1, <3>2
  <2>4. ClaimAlone' /\ ClaimMarked' BY <1>8 DEF ClaimAlone, ClaimMarked
  <2>5. MarkRegistered'
    <3>. SUFFICES ASSUME NEW k \in Jobs, Marked(k)
                  PROVE  reg'[k] = row[k].running \/ Settling(k)'
      BY <1>2 DEF MarkRegistered, Marked
    <3>1. CASE k = j BY <1>1, <1>6, <3>1
    <3>2. CASE k # j
      <4>1. reg[k] = row[k].running \/ Settling(k)
        BY <1>0, <1>8, <3>2 DEF MarkRegistered, j
      <4>2. Settling(k) => at'["tick"] = at["tick"]
        BY <1>0, <1>3 DEF Settling
      <4>. QED BY <1>2, <1>6, <3>2, <4>1, <4>2 DEF Settling
    <3>. QED BY <3>1, <3>2
  <2>. QED BY <2>1, <2>2, <2>3, <2>4, <2>5
<1>11. Slots'
  <2>. USE DEF Slots
  <2>0. at'["tick"].pc \in {"stuck", "fail"} => at'["tick"] = at["tick"] BY <1>0, <1>3
  <2>1. ListedOnce' BY <1>3, <2>0, WalkListed
  <2>2. StuckIsOwn'
    <3>. SUFFICES ASSUME NEW k \in Jobs, StuckAhead(k)', row[k].st # "deleted"
                  PROVE  row[k].st = "here" /\ reg'[k] \in {NoRun, row[k].running}
      BY <1>2 DEF StuckIsOwn
    <3>1. StuckAhead(k) BY <1>3, WalkAhead
    <3>2. CASE k = j BY <1>1, <1>6, <3>2
    <3>3. CASE k # j BY <1>6, <3>1, <3>3 DEF StuckIsOwn
    <3>. QED BY <3>2, <3>3
  <2>3. HandMarkStays'
    <3>. SUFFICES ASSUME NEW k \in Jobs, ByHand(k)', row[k].st # "deleted"
                  PROVE  /\ row[k].st = "here" /\ row[k].running # NoRun
                         /\ ~task'[row[k].running].live
                         /\ k \in Once \/ fires[k] = 0
      BY <1>2, <1>8 DEF HandMarkStays
    <3>1. ByHand(k) BY <2>0 DEF ByHand
    <3>2. k # j /\ row[k].st = "here" /\ row[k].running # NoRun /\ ~task[row[k].running].live
          /\ (k \in Once \/ fires[k] = 0)
      BY <1>0, <3>1 DEF HandMarkStays, Claimed, j
    <3>. QED BY <1>5, <1>9, <3>2
  <2>4. SlotsHeld'
    <3>. SUFFICES ASSUME NEW k \in Jobs \ Once, fires[k] # 0 PROVE SlotTaken(k)'
      BY <1>2 DEF SlotsHeld
    <3>1. SlotTaken(k) BY DEF SlotsHeld
    <3>2. CASE k = j
      <4>1. a \in Loops BY <1>0, <1>1, <3>1, <3>2 DEF SlotTaken, Claimed, j
      <4>2. a \notin Callers BY <4>1, ActorKinds
      <4>3. ~task'[row[k].running].manual /\ row[k].running # NoRun
        BY <1>1, <1>4, <1>5, <3>2, <4>2
      <4>. QED BY <1>2, <1>8, <3>1, <4>3 DEF SlotTaken
    <3>3. CASE k # j
      <4>1. row[k].running # NoRun => task'[row[k].running] = task[row[k].running]
        BY <1>5, <1>9, <3>3
      <4>. QED BY <1>2, <1>8, <3>1, <4>1 DEF SlotTaken
    <3>. QED BY <3>2, <3>3
  <2>. QED BY <2>1, <2>2, <2>3, <2>4
<1>. QED BY <1>3, <1>7, <1>10, <1>11
-----------------------------------------------------------------------------
(* The listing of the tick.                                                *)

LEMMA PlacesCounted ==
  ASSUME NEW S, S \subseteq DOMAIN Order
  PROVE  Cardinality(S) \in Nat /\ (S # {} => Cardinality(S) # 0)
<1>1. IsFiniteSet(1 .. Len(Order)) BY JobsListed, FS_Interval
<1>2. IsFiniteSet(S) BY <1>1, JobsListed, FS_Subset
<1>. QED BY <1>2, FS_CardinalityType, FS_EmptySet

\* A listed sequence goes through its places in order, each at most once.
LEMMA ListedRises ==
  ASSUME NEW S, S \subseteq DOMAIN Order, NEW f \in Listed(S)
  PROVE  /\ Cardinality(S) \in Nat /\ DOMAIN f = 1 .. Cardinality(S)
         /\ \A n \in DOMAIN f : f[n] \in S
         /\ \A m, n \in DOMAIN f : f[m] = f[n] => m = n
<1>. DEFINE c == Cardinality(S)
<1>1. c \in Nat BY PlacesCounted
<1>2. f \in [1 .. c -> S] /\ \A m, n \in 1 .. c : m < n => f[m] < f[n]
  BY DEF Listed
<1>. HIDE DEF c
<1>3. \A n \in 1 .. c : f[n] \in S /\ f[n] \in Int BY <1>2, JobsListed
<1>4. ASSUME NEW m \in 1 .. c, NEW n \in 1 .. c, f[m] = f[n] PROVE m = n
  <2>1. ~(m < n) BY <1>2, <1>3, <1>4
  <2>2. ~(n < m) BY <1>2, <1>3, <1>4
  <2>. QED BY <1>1, <2>1, <2>2
<1>. USE DEF c
<1>. QED BY <1>1, <1>2, <1>3, <1>4

LEMMA ListWhole == ASSUME Whole, TickList PROVE Whole'
<1>. USE DEF Whole
<1>. DEFINE called == {n \in DOMAIN Order : Listing[n].what # "nothing"}
<1>0. "tick" \in Actors BY ActorKinds
<1>1. /\ up /\ at["tick"].pc = "idle" /\ LockFree /\ called # {} /\ seen' = now
      /\ Step("tick", Visit)
      /\ UNCHANGED <<up, now, row, usage, queue, pending, task, reg, fires>>
  BY DEF TickList
<1>2. PICK f \in Listed(called) : todo' = [n \in DOMAIN f |-> Listing[f[n]]]
  BY DEF TickList
<1>3. \A p \in called : /\ p \in DOMAIN Order /\ Order[p] \in Jobs
                        /\ Listing[p].job = Order[p] /\ Listing[p] \in Entries
                        /\ Listing[p].what = Verdict(Order[p])
  <2>. SUFFICES ASSUME NEW p \in called
                PROVE  /\ p \in DOMAIN Order /\ Order[p] \in Jobs
                       /\ Listing[p].job = Order[p] /\ Listing[p] \in Entries
                       /\ Listing[p].what = Verdict(Order[p])
    OBVIOUS
  <2>1. /\ p \in DOMAIN Order
        /\ Listing[p] = [job |-> Order[p], what |-> Verdict(Order[p]), owner |-> row[Order[p]].owner]
        /\ Listing[p].what # "nothing"
    BY DEF Listing
  <2>2. Order[p] \in Jobs BY <2>1, JobsListed
  <2>3. row[Order[p]].owner \in {"user", "agent", "system"} BY <2>2 DEF StoreTyped, Rows
  <2>4. Verdict(Order[p]) \in {"expire", "delete", "stuck", "due", "nothing"}
    BY DEF Verdict
  <2>. QED BY <2>1, <2>2, <2>3, <2>4 DEF Entries
<1>4. called \subseteq DOMAIN Order OBVIOUS
<1>. HIDE DEF called
<1>. DEFINE c == Cardinality(called)
<1>5. /\ c \in Nat /\ c # 0 /\ DOMAIN f = 1 .. c
      /\ \A n \in 1 .. c : f[n] \in called
      /\ \A m, n \in 1 .. c : f[m] = f[n] => m = n
  BY <1>1, <1>2, <1>4, PlacesCounted, ListedRises
<1>. HIDE DEF c
<1>6. /\ todo' \in Seq(Entries) /\ Len(todo') = c /\ todo' # <<>>
      /\ \A n \in 1 .. c : todo'[n] = Listing[f[n]]
  <2>1. todo' = [n \in 1 .. c |-> Listing[f[n]]] BY <1>2, <1>5
  <2>2. \A n \in 1 .. c : Listing[f[n]] \in Entries BY <1>3, <1>5
  <2>. DEFINE s == [n \in 1 .. c |-> Listing[f[n]]]
  <2>3. s \in Seq(Entries) /\ Len(s) = c BY <1>5, <2>2
  <2>4. s # <<>> BY <1>5, <2>3
  <2>5. \A n \in 1 .. c : s[n] = Listing[f[n]] OBVIOUS
  <2>. QED BY <2>1, <2>3, <2>4, <2>5
<1>7. /\ at' \in [Actors -> Stands] /\ at'["tick"].pc = "visit"
      /\ \A b \in Actors \ {"tick"} : at'[b] = at[b]
  BY <1>0, <1>1, RestTyped DEF LoopsTyped, Step
<1>8. LoopsTyped'
  <2>1. Places' BY <1>0, <1>7, ActorKinds DEF LoopsTyped, Places, Fits
  <2>2. TickAtRest' BY <1>6, <1>7 DEF TickAtRest
  <2>3. seen' \in Nat BY <1>1 DEF StoreTyped
  <2>. QED BY <1>1, <1>6, <1>7, <2>1, <2>2, <2>3 DEF LoopsTyped
<1>9. StoreTyped' BY <1>1 DEF StoreTyped
<1>10. \A a \in Actors : ~Claimed(a) /\ ~Claimed(a)'
  BY <1>0, <1>1, <1>7 DEF LockFree, Claimed
<1>11. \A k \in Jobs : ~Settling(k) BY <1>1 DEF Settling
<1>12. Marks'
  <2>. USE DEF Marks
  <2>1. Down' BY <1>1 DEF Down
  <2>2. MarksAreHere' /\ RegisteredLive' BY <1>1 DEF MarksAreHere, RegisteredLive
  <2>3. ClaimAlone' /\ ClaimMarked' BY <1>10 DEF ClaimAlone, ClaimMarked
  <2>4. MarkRegistered' BY <1>1, <1>10, <1>11 DEF MarkRegistered, Marked
  <2>. QED BY <2>1, <2>2, <2>3, <2>4
<1>13. Slots'
  <2>. USE DEF Slots
  <2>1. ListedOnce'
    <3>1. ASSUME NEW m \in 1 .. c, NEW n \in 1 .. c, todo'[m].job = todo'[n].job PROVE m = n
      <4>1. Order[f[m]] = Order[f[n]] BY <1>3, <1>5, <1>6, <3>1
      <4>2. f[m] \in DOMAIN Order /\ f[n] \in DOMAIN Order BY <1>3, <1>5
      <4>3. f[m] = f[n] BY <4>1, <4>2, SchedulerAssumption
      <4>. QED BY <1>5, <4>3
    <3>. QED BY <1>6, <1>7, <3>1 DEF ListedOnce
  <2>2. StuckIsOwn'
    <3>. SUFFICES ASSUME NEW k \in Jobs, StuckAhead(k)'
                  PROVE  row[k].st = "here" /\ reg[k] = row[k].running
      BY <1>1 DEF StuckIsOwn
    <3>1. PICK n \in 1 .. c : todo'[n].job = k /\ todo'[n].what = "stuck"
      BY <1>6 DEF StuckAhead
    <3>2. Verdict(k) = "stuck" BY <1>3, <1>5, <1>6, <3>1
    <3>3. Marked(k) BY <3>2 DEF Verdict, Marked
    <3>. QED BY <1>1, <1>10, <1>11, <3>3 DEF Marks, MarkRegistered, Marked
  <2>3. HandMarkStays' BY <1>7 DEF HandMarkStays, ByHand
  <2>4. SlotsHeld' BY <1>1, <1>10 DEF SlotsHeld, SlotTaken
  <2>. QED BY <2>1, <2>2, <2>3, <2>4
<1>. QED BY <1>8, <1>9, <1>12, <1>13
-----------------------------------------------------------------------------
(* A start-up, and the end of the program.                                 *)

\* A start-up takes every mark off, and moves the slots of the marked jobs on.
LEMMA BootRows ==
  ASSUME StoreTyped, MarksAreHere, Boot
  PROVE  /\ row' \in [Jobs -> Rows]
         /\ \A j \in Jobs :
              /\ row'[j].st = row[j].st /\ row'[j].running = NoRun
              /\ row[j].st # "here" => row'[j] = row[j]
              /\ Interrupted(j) => row'[j].next = NextAfter(j, row[j], now)
<1>. DEFINE freed(j) == [row[j] EXCEPT !.running = NoRun, !.since = 0]
            new(j) == CASE Interrupted(j) -> Skipped(j, freed(j), now)
                        [] Unplanned(j) -> [row[j] EXCEPT !.next = NextAfter(j, row[j], now)]
                        [] Missed(j) /\ j \in DropMissed -> Skipped(j, row[j], now)
                        [] OTHER -> row[j]
<1>1. row' = [j \in Jobs |-> new(j)] BY Zenon DEF Boot
<1>2. ASSUME NEW j \in Jobs
      PROVE  /\ new(j) \in Rows
             /\ new(j).st = row[j].st /\ new(j).running = NoRun
             /\ row[j].st # "here" => new(j) = row[j]
             /\ Interrupted(j) => new(j).next = NextAfter(j, row[j], now)
  <2>1. row[j] \in Rows /\ now \in Nat BY DEF StoreTyped
  <2>2. row[j].st # "here" => row[j].running = NoRun BY DEF MarksAreHere
  <2>. DEFINE dropped == Missed(j) /\ j \in DropMissed
  <2>0. /\ Interrupted(j) => ~Unplanned(j) /\ ~dropped
        /\ Unplanned(j) => ~dropped
    BY DEF Interrupted, Unplanned, Missed, Due
  <2>3. CASE Interrupted(j)
    <3>1. new(j) = Skipped(j, freed(j), now) BY <2>0, <2>3
    <3>2. /\ freed(j) \in Rows /\ freed(j).st = row[j].st /\ freed(j).running = NoRun
          /\ freed(j).moment = row[j].moment
      <4>. DEFINE q == row[j]
      <4>. HIDE DEF q
      <4>1. q \in Rows BY <2>1 DEF q
      <4>2. [q EXCEPT !.running = NoRun, !.since = 0] \in Rows BY <4>1 DEF Rows
      <4>3. [q EXCEPT !.running = NoRun, !.since = 0].st = q.st BY <4>1 DEF Rows
      <4>4. [q EXCEPT !.running = NoRun, !.since = 0].running = NoRun BY <4>1 DEF Rows
      <4>5. [q EXCEPT !.running = NoRun, !.since = 0].moment = q.moment BY <4>1 DEF Rows
      <4>. QED BY <4>2, <4>3, <4>4, <4>5 DEF q
    <3>3. NextAfter(j, freed(j), now) = NextAfter(j, row[j], now)
      BY <3>2 DEF NextAfter
    <3>4. row[j].st = "here" BY <2>3 DEF Interrupted
    <3>. HIDE DEF new, freed
    <3>. QED BY <2>1, <3>1, <3>2, <3>3, <3>4, SkippedTyped
  <2>4. CASE ~Interrupted(j)
    <3>0. row[j].running = NoRun BY <2>2, <2>4 DEF Interrupted
    <3>1. CASE Unplanned(j)
      <4>1. new(j) = [row[j] EXCEPT !.next = NextAfter(j, row[j], now)] BY <2>0, <2>4, <3>1
      <4>2. NextAfter(j, row[j], now) \in Int BY <2>1, NextSlot
      <4>3. new(j) \in Rows /\ new(j).st = row[j].st /\ new(j).running = row[j].running
        <5>. HIDE DEF new
        <5>. QED BY <2>1, <4>1, <4>2 DEF Rows
      <4>4. row[j].st = "here" BY <3>1 DEF Unplanned
      <4>. HIDE DEF new
      <4>. QED BY <2>4, <3>0, <4>3, <4>4
    <3>2. CASE ~Unplanned(j) /\ Missed(j) /\ j \in DropMissed
      <4>1. new(j) = Skipped(j, row[j], now) BY <2>4, <3>2
      <4>2. row[j].st = "here" BY <3>2 DEF Missed
      <4>. HIDE DEF new
      <4>. QED BY <2>1, <2>4, <3>0, <4>1, <4>2, SkippedTyped
    <3>3. CASE ~Unplanned(j) /\ ~(Missed(j) /\ j \in DropMissed)
      <4>1. new(j) = row[j] BY <2>4, <3>3
      <4>. HIDE DEF new
      <4>. QED BY <2>1, <2>4, <3>0, <4>1
    <3>. QED BY <3>1, <3>2, <3>3
  <2>. QED BY <2>3, <2>4
<1>. HIDE DEF new
<1>. QED BY <1>1, <1>2

LEMMA BootWhole == ASSUME Whole, Boot PROVE Whole'
<1>. USE DEF Whole
<1>. DEFINE overdue == {n \in DOMAIN Order : Missed(Order[n]) /\ Order[n] \notin DropMissed}
<1>0. "tick" \in Actors /\ "catchup" \in Actors /\ "tick" # "catchup" BY ActorKinds
<1>1. /\ ~up /\ up' = TRUE /\ Recount({})
      /\ UNCHANGED <<now, usage, todo, seen, task, reg>>
      /\ pending' = {Order[n] : n \in overdue}
      /\ at' = IF overdue = {} THEN at ELSE [at EXCEPT !["catchup"] = Visit]
  BY Zenon DEF Boot
<1>2. PICK f \in Sorted(overdue) : queue' = [n \in DOMAIN f |-> Order[f[n]]]
  BY Zenon DEF Boot
<1>3. overdue \subseteq DOMAIN Order OBVIOUS
<1>. HIDE DEF overdue
<1>4. queue' \in Seq(Jobs) /\ pending' \subseteq Jobs
  <2>. DEFINE c == Cardinality(overdue)
  <2>1. c \in Nat /\ f \in [1 .. c -> overdue] BY <1>2, <1>3, PlacesCounted DEF Sorted
  <2>. HIDE DEF c
  <2>2. DOMAIN f = 1 .. c /\ \A n \in 1 .. c : Order[f[n]] \in Jobs
    BY <1>3, <2>1, JobsListed
  <2>3. queue' = [n \in 1 .. c |-> Order[f[n]]] BY <1>2, <2>2
  <2>. QED BY <1>1, <1>3, <2>1, <2>2, <2>3, JobsListed
<1>5. /\ \A a \in Actors : at[a].pc = "idle"
      /\ \A i \in RunIds : ~task[i].live
      /\ \A j \in Jobs : reg[j] = NoRun
      /\ todo = <<>>
  <2>1. (\A a \in Actors : at[a].pc = "idle") /\ \A i \in RunIds : ~task[i].live
    BY <1>1 DEF Marks, Down
  <2>2. \A j \in Jobs : reg[j] = NoRun
    BY <2>1 DEF Marks, RegisteredLive, StoreTyped
  <2>3. todo = <<>> BY <1>0, <2>1 DEF LoopsTyped, TickAtRest
  <2>. QED BY <2>1, <2>2, <2>3
<1>6. /\ row' \in [Jobs -> Rows]
      /\ \A j \in Jobs :
           /\ row'[j].st = row[j].st /\ row'[j].running = NoRun
           /\ row[j].st # "here" => row'[j] = row[j]
           /\ Interrupted(j) => row'[j].next = NextAfter(j, row[j], now)
  BY BootRows DEF Marks
<1>7. fires' \in [Jobs -> Nat] BY <1>1, RecountRest
<1>8. StoreTyped' BY <1>1, <1>6, <1>7 DEF StoreTyped
<1>9. /\ at' \in [Actors -> Stands]
      /\ \A a \in Actors : at'[a] = at[a] \/ (a = "catchup" /\ at'[a] = Visit)
  BY <1>0, <1>1, RestTyped DEF LoopsTyped
<1>10. \A a \in Actors : at'[a].pc \in {"idle", "visit"}
  BY <1>5, <1>9, RestTyped
<1>11. at'["tick"].pc = "idle" BY <1>0, <1>5, <1>9
<1>12. LoopsTyped'
  <2>1. Places' BY <1>0, <1>9, ActorKinds, RestTyped DEF LoopsTyped, Places, Fits
  <2>2. TickAtRest' BY <1>1, <1>5, <1>11 DEF TickAtRest
  <2>. QED BY <1>1, <1>4, <1>9, <2>1, <2>2 DEF LoopsTyped
<1>13. Marks'
  <2>1. Down' BY <1>1 DEF Down
  <2>2. MarksAreHere' BY <1>6 DEF MarksAreHere
  <2>3. RegisteredLive' BY <1>1, <1>5 DEF RegisteredLive
  <2>4. ClaimAlone' /\ ClaimMarked' BY <1>10 DEF ClaimAlone, ClaimMarked, Claimed
  <2>5. MarkRegistered' BY <1>6 DEF MarkRegistered, Marked
  <2>. QED BY <2>1, <2>2, <2>3, <2>4, <2>5 DEF Marks
<1>14. Slots'
  <2>1. ListedOnce' BY <1>1, <1>5, <1>11 DEF ListedOnce, Slots
  <2>2. StuckIsOwn' BY <1>1, <1>5 DEF StuckIsOwn, StuckAhead
  <2>3. HandMarkStays' BY <1>11 DEF HandMarkStays, ByHand
  <2>4. SlotsHeld'
    <3>. SUFFICES ASSUME NEW k \in Jobs \ Once, fires'[k] # 0 PROVE SlotTaken(k)'
      BY DEF SlotsHeld
    <3>1. /\ fires'[k] = IF row'[k].next # row[k].next /\ row'[k].next # Never
                         THEN 0 ELSE fires[k] + 0
          /\ fires[k] \in Nat
      BY <1>1 DEF Recount, StoreTyped
    <3>2. fires[k] # 0 /\ fires'[k] = fires[k] BY <3>1
    <3>3. SlotTaken(k) BY <3>2 DEF Slots, SlotsHeld
    <3>4. row[k].st # "here"
      <4>. SUFFICES ASSUME row[k].st = "here" PROVE FALSE OBVIOUS
      <4>1. Interrupted(k) /\ row[k].next <= now BY <3>3 DEF SlotTaken, Interrupted
      <4>2. row[k] \in Rows /\ now \in Nat BY DEF StoreTyped
      <4>3. row[k].next \in Int BY <4>2 DEF Rows
      <4>4. row'[k].next > now /\ row'[k].next # Never /\ row'[k].next \in Int
        BY <1>6, <4>1, <4>2, NextSlot
      <4>5. row'[k].next # row[k].next BY <4>1, <4>2, <4>3, <4>4
      <4>. QED BY <3>1, <3>2, <4>4, <4>5
    <3>. QED BY <1>6, <3>2, <3>3, <3>4 DEF SlotTaken
  <2>. QED BY <2>1, <2>2, <2>3, <2>4 DEF Slots
<1>. QED BY <1>8, <1>12, <1>13, <1>14
LEMMA CrashWhole == ASSUME Whole, Crash PROVE Whole'
<1>. USE DEF Whole
<1>0. "tick" \in Actors /\ Idle \in Stands /\ Idle.pc = "idle" BY ActorKinds, RestTyped
<1>1. /\ up' = FALSE /\ UNCHANGED <<now, row, usage, fires>>
      /\ at' = [a \in Actors |-> Idle]
      /\ todo' = <<>> /\ seen' = 0 /\ queue' = <<>> /\ pending' = {}
      /\ task' = [i \in RunIds |-> NoTask]
      /\ reg' = [j \in Jobs |-> NoRun]
  BY DEF Crash
<1>2. NoTask \in [live : BOOLEAN, job : Jobs, manual : BOOLEAN] /\ ~NoTask.live
  BY JobsListed DEF NoTask
<1>3. StoreTyped' BY <1>1, <1>2 DEF StoreTyped
<1>4. \A a \in Actors : at'[a].pc = "idle" BY <1>0, <1>1
<1>5. LoopsTyped'
  <2>1. Places' BY <1>4, ActorKinds DEF Places, Fits
  <2>2. TickAtRest' BY <1>0, <1>1, <1>4 DEF TickAtRest
  <2>. QED BY <1>0, <1>1, <2>1, <2>2 DEF LoopsTyped
<1>6. \A i \in RunIds : ~task'[i].live BY <1>1, <1>2
<1>7. \A a \in Actors : ~Claimed(a)' BY <1>4 DEF Claimed
<1>8. Marks'
  <2>1. Down' BY <1>4, <1>6 DEF Down
  <2>2. MarksAreHere' BY <1>1 DEF Marks, MarksAreHere
  <2>3. RegisteredLive' BY <1>1 DEF RegisteredLive
  <2>4. ClaimAlone' /\ ClaimMarked' BY <1>7 DEF ClaimAlone, ClaimMarked
  <2>5. MarkRegistered' BY <1>1 DEF MarkRegistered
  <2>. QED BY <2>1, <2>2, <2>3, <2>4, <2>5 DEF Marks
<1>9. Slots'
  <2>1. ListedOnce' BY <1>0, <1>1, <1>4 DEF ListedOnce
  <2>2. StuckIsOwn' BY <1>1 DEF StuckIsOwn, StuckAhead
  <2>3. HandMarkStays' BY <1>0, <1>4 DEF HandMarkStays, ByHand
  <2>4. SlotsHeld'
    <3>1. \A j \in Jobs : row[j].running # NoRun => row[j].running \in RunIds
      BY DEF StoreTyped, Rows
    <3>. QED BY <1>1, <1>6, <1>7, <3>1 DEF Slots, SlotsHeld, SlotTaken
  <2>. QED BY <2>1, <2>2, <2>3, <2>4 DEF Slots
<1>. QED BY <1>3, <1>5, <1>8, <1>9

LEMMA InitWhole == ASSUME Init PROVE Whole
<1>0. "tick" \in Actors /\ Idle \in Stands /\ Idle.pc = "idle" BY ActorKinds, RestTyped
<1>1. /\ up = FALSE /\ now = 0 /\ usage = 0 /\ row \in Initial
      /\ at = [a \in Actors |-> Idle]
      /\ todo = <<>> /\ seen = 0 /\ queue = <<>> /\ pending = {}
      /\ task = [i \in RunIds |-> NoTask]
      /\ reg = [j \in Jobs |-> NoRun]
      /\ fires = [j \in Jobs |-> 0]
  BY DEF Init
<1>2. NoTask \in [live : BOOLEAN, job : Jobs, manual : BOOLEAN] /\ ~NoTask.live
  BY JobsListed DEF NoTask
<1>3. row \in [Jobs -> Rows] /\ \A j \in Jobs : row[j].st # "here" => row[j].running = NoRun
  BY <1>1, SchedulerAssumption
<1>4. StoreTyped BY <1>1, <1>2, <1>3 DEF StoreTyped
<1>5. \A a \in Actors : at[a].pc = "idle" BY <1>0, <1>1
<1>6. LoopsTyped
  <2>1. Places BY <1>5, ActorKinds DEF Places, Fits
  <2>2. TickAtRest BY <1>0, <1>1, <1>5 DEF TickAtRest
  <2>. QED BY <1>0, <1>1, <2>1, <2>2 DEF LoopsTyped
<1>7. Marks
  <2>1. Down BY <1>1, <1>2, <1>5 DEF Down
  <2>2. MarksAreHere BY <1>3 DEF MarksAreHere
  <2>3. RegisteredLive BY <1>1 DEF RegisteredLive
  <2>4. ClaimAlone /\ ClaimMarked BY <1>5 DEF ClaimAlone, ClaimMarked, Claimed
  <2>5. MarkRegistered BY <1>1 DEF MarkRegistered
  <2>. QED BY <2>1, <2>2, <2>3, <2>4, <2>5 DEF Marks
<1>8. Slots
  <2>1. ListedOnce BY <1>0, <1>1, <1>5 DEF ListedOnce
  <2>2. StuckIsOwn BY <1>1 DEF StuckIsOwn, StuckAhead
  <2>3. HandMarkStays BY <1>0, <1>5 DEF HandMarkStays, ByHand
  <2>4. SlotsHeld BY <1>1 DEF SlotsHeld
  <2>. QED BY <2>1, <2>2, <2>3, <2>4 DEF Slots
<1>. QED BY <1>4, <1>6, <1>7, <1>8 DEF Whole

-----------------------------------------------------------------------------
LEMMA NextWhole == ASSUME Whole, [Next]_vars PROVE Whole'
<1>1. CASE Crash BY <1>1, CrashWhole
<1>2. CASE Clock BY <1>2, ClockWhole
<1>3. CASE Edit
  <2>1. PICK j \in Jobs :
          \/ Adopt(j) \/ Keep(j) \/ Rebind(j)
          \/ \E actor \in Editors :
               \/ \E en \in BOOLEAN, m \in 0 .. MaxTime, retargeted \in BOOLEAN :
                    Upsert(actor, j, en, m, retargeted)
               \/ \E en \in BOOLEAN : SetEnabled(actor, j, en)
               \/ RemoveJob(actor, j)
               \/ \E c \in Callers : RunNow(actor, c, j)
    BY <1>3 DEF Edit
  <2>. QED BY <2>1, TouchWhole, UpsertWhole, SetEnabledWhole, RemoveWhole, RunNowWhole
<1>4. CASE TickStep
  BY <1>4, ListWhole, ExpireWhole, DeleteWhole, DueWhole, StuckWhole, StuckReadWhole, FailWhole
     DEF TickStep
<1>5. CASE Others
  <2>1. CASE Boot BY <2>1, BootWhole
  <2>2. CASE CatchUpStep BY <2>2, CatchUpWhole
  <2>3. ASSUME NEW a \in Actors, FireStep(a) PROVE Whole'
    BY <2>3, RefusalWhole, ClaimWhole, DeclineWhole, RegisterWhole DEF FireStep
  <2>4. ASSUME NEW i \in RunIds, NEW outcome \in Outcomes, RunEnds(i, outcome) PROVE Whole'
    BY <2>4, RunEndsWhole
  <2>. QED BY <1>5, <2>1, <2>2, <2>3, <2>4 DEF Others
<1>6. CASE UNCHANGED vars
  <2>1. UNCHANGED <<up, now, row, usage, task, reg, fires, at, todo, seen, queue, pending>>
    BY <1>6 DEF vars, loops
  <2>2. StoreTyped' BY <2>1 DEF Whole, StoreTyped
  <2>3. now' >= now BY <2>1 DEF Whole, StoreTyped
  <2>. QED BY <2>1, <2>2, <2>3, RowsStay, StillCalm
<1>. QED BY <1>1, <1>2, <1>3, <1>4, <1>5, <1>6 DEF Next

LEMMA SchedulerIsWhole == Spec => []Whole
BY InitWhole, NextWhole, PTL DEF Spec

\* The rows, what the actors hold, and the listing keep their types for every
\* number of jobs, callers and runs.
THEOREM SchedulerTypesHold == Spec => [](Typed /\ TickAtRest)
<1>1. Whole => Typed /\ TickAtRest
  BY DEF Whole, StoreTyped, LoopsTyped, Typed, TickAtRest
<1>. QED BY <1>1, SchedulerIsWhole, PTL

-----------------------------------------------------------------------------
(* A claim finds a free name, where names do not run out.                  *)

LiveRuns == {i \in RunIds : task[i].live}

LEMMA ImageFinite ==
  ASSUME NEW S, IsFiniteSet(S), NEW f PROVE IsFiniteSet({f[x] : x \in S})
<1>. DEFINE T == {f[x] : x \in S}
            g == [x \in S |-> f[x]]
<1>1. g \in Surjection(S, T) BY DEF Surjection
<1>. QED BY <1>1, FS_Surjection

LEMMA JobsFinite == IsFiniteSet(Jobs)
<1>1. Len(Order) \in Nat /\ DOMAIN Order = 1 .. Len(Order) BY SchedulerAssumption
<1>2. IsFiniteSet(DOMAIN Order) BY <1>1, FS_Interval
<1>3. Jobs = {Order[n] : n \in DOMAIN Order} BY DEF Jobs, Range
<1>. QED BY <1>2, <1>3, ImageFinite

\* A step starts one run at most, so that finitely many live at a time.
LEMMA RunsStayFinite ==
  ASSUME Whole, IsFiniteSet(LiveRuns), [Next]_vars PROVE IsFiniteSet(LiveRuns')
<1>1. task \in [RunIds -> [live : BOOLEAN, job : Jobs, manual : BOOLEAN]]
  BY DEF Whole, StoreTyped
<1>2. ASSUME NEW i, \A k \in RunIds : task'[k].live => task[k].live \/ k = i
      PROVE  IsFiniteSet(LiveRuns')
  <2>1. IsFiniteSet(LiveRuns \cup {i}) BY FS_AddElement
  <2>2. LiveRuns' \in SUBSET (LiveRuns \cup {i}) BY <1>2 DEF LiveRuns
  <2>. QED BY <2>1, <2>2, FS_Subset
<1>3. ~NoTask.live BY DEF NoTask
<1>4. ASSUME NEW j, CancelTask(j) PROVE IsFiniteSet(LiveRuns')
  BY <1>2, <1>3, <1>4 DEF CancelTask
<1>5. ASSUME task' = task PROVE IsFiniteSet(LiveRuns') BY <1>5 DEF LiveRuns
<1>6. CASE Crash BY <1>2, <1>3, <1>6 DEF Crash
<1>7. CASE Clock \/ UNCHANGED vars BY <1>5, <1>7 DEF Clock, vars
<1>8. CASE Edit
  <2>1. PICK j \in Jobs :
          \/ Adopt(j) \/ Keep(j) \/ Rebind(j)
          \/ \E actor \in Editors :
               \/ \E en \in BOOLEAN, m \in 0 .. MaxTime, retargeted \in BOOLEAN :
                    Upsert(actor, j, en, m, retargeted)
               \/ \E en \in BOOLEAN : SetEnabled(actor, j, en)
               \/ RemoveJob(actor, j)
               \/ \E c \in Callers : RunNow(actor, c, j)
    BY <1>8 DEF Edit
  <2>2. CASE \E actor \in Editors : RemoveJob(actor, j)
    BY <1>4, <1>5, <2>2 DEF RemoveJob
  <2>3. CASE Adopt(j) \/ Keep(j) \/ Rebind(j)
    <3>1. task' = task BY <2>3 DEF Adopt, Keep, Rebind
    <3>. QED BY <1>5, <3>1
  <2>4. ASSUME NEW actor \in Editors, NEW en \in BOOLEAN, NEW m \in 0 .. MaxTime,
               NEW retargeted \in BOOLEAN, Upsert(actor, j, en, m, retargeted)
        PROVE  IsFiniteSet(LiveRuns')
    <3>1. task' = task BY <2>4 DEF Upsert
    <3>. QED BY <1>5, <3>1
  <2>5. ASSUME NEW actor \in Editors, NEW en \in BOOLEAN, SetEnabled(actor, j, en)
        PROVE  IsFiniteSet(LiveRuns')
    <3>1. task' = task BY <2>5 DEF SetEnabled
    <3>. QED BY <1>5, <3>1
  <2>6. ASSUME NEW actor \in Editors, NEW c \in Callers, RunNow(actor, c, j)
        PROVE  IsFiniteSet(LiveRuns')
    <3>1. task' = task BY <2>6 DEF RunNow
    <3>. QED BY <1>5, <3>1
  <2>. QED BY <2>1, <2>2, <2>3, <2>4, <2>5, <2>6
<1>9. CASE TickStep
  <2>1. CASE TickStuck BY <1>4, <2>1 DEF TickStuck
  <2>2. CASE TickDelete BY <1>4, <1>5, <2>2 DEF TickDelete
  <2>. QED BY <1>5, <1>9, <2>1, <2>2
       DEF TickStep, TickList, TickExpire, TickDue, TickStuckRead, TickFail
<1>10. CASE Others
  <2>1. CASE Boot \/ CatchUpStep
    <3>1. CASE Boot
      <4>1. task' = task BY <3>1, Zenon DEF Boot
      <4>. QED BY <1>5, <4>1
    <3>2. CASE CatchUpStep
      <4>1. task' = task BY <3>2 DEF CatchUpStep, CatchUpNext, CatchUpWaited, CatchUpEnd
      <4>. QED BY <1>5, <4>1
    <3>. QED BY <2>1, <3>1, <3>2
  <2>2. ASSUME NEW a \in Actors, FireStep(a) PROVE IsFiniteSet(LiveRuns')
    <3>1. CASE Register(a)
      <4>. DEFINE t == [live |-> TRUE, job |-> at[a].job, manual |-> a \in Callers]
      <4>1. task' = [task EXCEPT ![at[a].run] = t] BY <3>1 DEF Register
      <4>. HIDE DEF t
      <4>2. \A k \in RunIds : k # at[a].run => task'[k] = task[k] BY <1>1, <4>1
      <4>. QED BY <1>2, <4>2
    <3>. QED BY <1>5, <2>2, <3>1 DEF FireStep, RecordRefusal, Claim, Decline
  <2>3. ASSUME NEW i \in RunIds, NEW outcome \in Outcomes, RunEnds(i, outcome)
        PROVE  IsFiniteSet(LiveRuns')
    <3>1. task' = [task EXCEPT ![i] = NoTask] BY <2>3 DEF RunEnds
    <3>2. \A k \in RunIds : k # i => task'[k] = task[k] BY <1>1, <3>1
    <3>. QED BY <1>2, <3>2
  <2>. QED BY <1>10, <2>1, <2>2, <2>3 DEF Others
<1>. QED BY <1>6, <1>7, <1>8, <1>9, <1>10 DEF Next

LEMMA NameIsFree ==
  ASSUME ~IsFiniteSet(RunIds), IsFiniteSet(LiveRuns) PROVE \E i \in RunIds : Unused(i)
<1>. DEFINE marks == {row[j].running : j \in Jobs}
            runs == {at[a].run : a \in Actors}
            m == [j \in Jobs |-> row[j].running]
            r == [a \in Actors |-> at[a].run]
<1>1. IsFiniteSet(marks)
  <2>1. \A j \in Jobs : m[j] = row[j].running OBVIOUS
  <2>. HIDE DEF m
  <2>2. IsFiniteSet({m[j] : j \in Jobs}) BY JobsFinite, ImageFinite
  <2>3. {m[j] : j \in Jobs} = marks BY <2>1
  <2>. QED BY <2>2, <2>3
<1>2. IsFiniteSet(runs)
  <2>1. \A a \in Actors : r[a] = at[a].run OBVIOUS
  <2>. HIDE DEF r
  <2>2. IsFiniteSet(Actors) BY ActorsFinite
  <2>3. IsFiniteSet({r[a] : a \in Actors}) BY <2>2, ImageFinite
  <2>4. {r[a] : a \in Actors} = runs BY <2>1
  <2>. QED BY <2>3, <2>4
<1>. DEFINE Used == LiveRuns \cup (marks \cup runs)
<1>3. IsFiniteSet(Used)
  <2>1. IsFiniteSet(marks \cup runs) BY <1>1, <1>2, FS_Union
  <2>. QED BY <2>1, FS_Union
<1>4. PICK i \in RunIds : i \notin Used
  <2>1. RunIds \notin SUBSET Used BY <1>3, FS_Subset
  <2>. QED BY <2>1
<1>. QED BY <1>4 DEF LiveRuns, Unused

\* running_at of _start: where names of runs do not run out, a start always finds
\* one that no live run, no mark in the store and no actor has; the rest are types.
THEOREM SchedulerTypeCorrect ==
  ASSUME ~IsFiniteSet(RunIds)
  PROVE  Spec => []TypeOK
<1>1. Init => IsFiniteSet(LiveRuns)
  <2>1. SUFFICES ASSUME Init PROVE IsFiniteSet(LiveRuns) OBVIOUS
  <2>2. LiveRuns = {} BY <2>1 DEF Init, LiveRuns, NoTask
  <2>. QED BY <2>2, FS_EmptySet
<1>2. Whole /\ IsFiniteSet(LiveRuns) /\ [Next]_vars => IsFiniteSet(LiveRuns')
  BY RunsStayFinite
<1>3. Whole /\ IsFiniteSet(LiveRuns) => TypeOK
  BY NameIsFree DEF Whole, StoreTyped, LoopsTyped, Typed, TickAtRest, TypeOK
<1>. DEFINE FewLive == IsFiniteSet(LiveRuns)
<1>4. FewLive' <=> IsFiniteSet(LiveRuns') OBVIOUS
<1>. QED BY <1>1, <1>2, <1>3, <1>4, SchedulerIsWhole, PTL DEF Spec

\* A running mark has someone who will take it off, in whatever order the sweep
\* (_sweep_stuck), a removal, and the end of the run reach the job.
THEOREM MarkAlwaysOwned == Spec => []MarkHasOwner
<1>1. Whole => MarkHasOwner
  <2>. SUFFICES ASSUME Whole, up, NEW j \in Jobs, Marked(j)
                PROVE  Owned(j, row[j].running)
    BY DEF MarkHasOwner, Marked
  <2>1. CASE reg[j] = row[j].running
    BY <2>1 DEF Whole, Marks, RegisteredLive, Marked, Owned
  <2>2. ASSUME NEW a \in Actors, Claimed(a), at[a].job = j
        PROVE  Owned(j, row[j].running)
    BY <2>2 DEF Whole, Marks, ClaimMarked, Claimed, Owned
  <2>3. CASE Settling(j) BY <2>3 DEF Settling, Owned
  <2>. QED BY <2>1, <2>2, <2>3 DEF Whole, Marks, MarkRegistered
<1>. QED BY <1>1, SchedulerIsWhole, PTL

\* A slot of a periodic job is dispatched at most once (_start, _settle, start).
THEOREM SlotsRunOnce == Spec => []SlotRunsOnce
<1>1. Whole => SlotRunsOnce
  BY DEF Whole, Slots, SlotsHeld, SlotTaken, SlotRunsOnce
<1>. QED BY <1>1, SchedulerIsWhole, PTL
-----------------------------------------------------------------------------
(* What may move the slot of a job that is overdue.                        *)

Moved(j) == Overdue(j) /\ row'[j].st = "here" /\ row'[j].next # row[j].next
Judged(j) == \E a \in Loops : at[a].pc = "refused" /\ at[a].job = j /\ at'[a].pc # "refused"

\* A step that changes the row of one job moves the slot of no other.
LEMMA MovedHere ==
  ASSUME row \in [Jobs -> Rows], NEW j \in Jobs, Moved(j),
         NEW k \in Jobs, NEW r, row' = [row EXCEPT ![k] = r]
  PROVE  j = k /\ row'[j] = r /\ r.next # row[j].next
<1>1. row'[j].next # row[j].next BY DEF Moved
<1>2. j = k /\ row'[j] = r BY <1>1
<1>. QED BY <1>1, <1>2

\* A job that is overdue is enabled and not running.
LEMMA MovedWas ==
  ASSUME Whole, NEW j \in Jobs, Moved(j)
  PROVE  /\ row \in [Jobs -> Rows] /\ row[j] \in Rows
         /\ row[j].running = NoRun /\ row[j].st = "here" /\ row[j].enabled
         /\ row[j].next # Never /\ row'[j].st = "here" /\ row'[j].next # row[j].next
<1>1. row \in [Jobs -> Rows] /\ row[j] \in Rows BY DEF Whole, StoreTyped
<1>. QED BY <1>1 DEF Moved, Overdue, Due

LEMMA EditMoves ==
  ASSUME Whole, Edit, NEW j \in Jobs, Moved(j)
  PROVE  row'[j].moment # row[j].moment
<1>1. PICK k \in Jobs :
        \/ Adopt(k) \/ Keep(k) \/ Rebind(k)
        \/ \E actor \in Editors :
             \/ \E en \in BOOLEAN, m \in 0 .. MaxTime, retargeted \in BOOLEAN :
                  Upsert(actor, k, en, m, retargeted)
             \/ \E en \in BOOLEAN : SetEnabled(actor, k, en)
             \/ RemoveJob(actor, k)
             \/ \E c \in Callers : RunNow(actor, c, k)
  BY DEF Edit
<1>. DEFINE q == row[k]
<1>0. row \in [Jobs -> Rows] /\ q \in Rows BY DEF Whole, StoreTyped
<1>2. ASSUME NEW r, row' = [row EXCEPT ![k] = r]
      PROVE  j = k /\ row'[j] = r /\ r.next # q.next
  BY <1>0, <1>2, MovedHere
<1>3. CASE Adopt(k)
  <2>1. row' = [row EXCEPT ![k] = [q EXCEPT !.owner = "user", !.expires = Never, !.updated = now]]
    BY <1>3 DEF Adopt
  <2>2. [q EXCEPT !.owner = "user", !.expires = Never, !.updated = now].next = q.next
    BY <1>0 DEF Rows
  <2>. HIDE DEF q
  <2>. QED BY <1>2, <2>1, <2>2
<1>4. CASE Keep(k)
  <2>1. row' = [row EXCEPT ![k] = [q EXCEPT !.expires = Never, !.updated = now]]
    BY <1>4 DEF Keep
  <2>2. [q EXCEPT !.expires = Never, !.updated = now].next = q.next
    BY <1>0 DEF Rows
  <2>. HIDE DEF q
  <2>. QED BY <1>2, <2>1, <2>2
<1>5. CASE Rebind(k)
  <2>1. row' = [row EXCEPT ![k] = [q EXCEPT !.gone = 0]]
    BY <1>5 DEF Rebind
  <2>2. [q EXCEPT !.gone = 0].next = q.next BY <1>0 DEF Rows
  <2>. HIDE DEF q
  <2>. QED BY <1>2, <2>1, <2>2
<1>6. ASSUME NEW actor \in Editors, NEW c \in Callers, RunNow(actor, c, k) PROVE FALSE
  <2>1. row' = [row EXCEPT ![k] = [q EXCEPT !.backoff = Never]]
    BY <1>6 DEF RunNow
  <2>2. [q EXCEPT !.backoff = Never].next = q.next BY <1>0 DEF Rows
  <2>. HIDE DEF q
  <2>. QED BY <1>2, <2>1, <2>2
<1>7. ASSUME NEW actor \in Editors, RemoveJob(actor, k) PROVE FALSE
  <2>1. row' = [row EXCEPT ![k] = Deleted] BY <1>7 DEF RemoveJob
  <2>2. row'[j] = Deleted BY <1>2, <2>1
  <2>. QED BY <2>2, DeletedTyped, MovedWas
<1>8. ASSUME NEW actor \in Editors, NEW en \in BOOLEAN, SetEnabled(actor, k, en) PROVE FALSE
  <2>. DEFINE enabling == en /\ ~q.enabled
              next == IF enabling THEN NextAfter(k, q, now) ELSE q.next
              expires == IF enabling THEN Expiry(k, q.owner, q, TRUE) ELSE q.expires
              gone == IF enabling THEN 0 ELSE q.gone
              edited == [q EXCEPT !.enabled = en, !.updated = now, !.expires = expires,
                                  !.gone = gone, !.next = next]
  <2>1. row' = [row EXCEPT ![k] = edited] BY <1>0, <1>8 DEF SetEnabled, Rows
  <2>2. edited.next = next
    <3>. HIDE DEF expires, gone, next, q
    <3>. QED BY <1>0 DEF Rows
  <2>. HIDE DEF edited
  <2>3. j = k /\ row[j].enabled /\ edited.next # row[j].next BY <1>2, <2>1, MovedWas
  <2>. QED BY <2>2, <2>3
<1>9. ASSUME NEW actor \in Editors, NEW en \in BOOLEAN, NEW m \in 0 .. MaxTime,
             NEW retargeted \in BOOLEAN, Upsert(actor, k, en, m, retargeted)
      PROVE  row'[j].moment # row[j].moment
  <2>. DEFINE new == q.st = "absent"
              enabling == en /\ (new \/ ~q.enabled)
              owner == IF new THEN actor ELSE q.owner
              gone == IF enabling \/ retargeted THEN 0 ELSE q.gone
              saved == [q EXCEPT !.st = "here", !.owner = owner, !.enabled = en, !.updated = now,
                                 !.moment = m, !.gone = gone]
              next == Armed(k, saved, q, new \/ enabling)
              expires == Expiry(k, saved.owner, q, actor = "agent" \/ enabling)
              edited == [saved EXCEPT !.next = next, !.expires = expires]
  <2>1. row' = [row EXCEPT ![k] = edited] BY <1>0, <1>9 DEF Upsert, Rows
  <2>2. saved.moment = m /\ saved.next = q.next
        /\ edited.next = next /\ edited.moment = saved.moment
    <3>1. saved.moment = m /\ saved.next = q.next
      <4>. HIDE DEF owner, gone, q
      <4>. QED BY <1>0 DEF Rows
    <3>2. DOMAIN saved = DOMAIN q BY <1>0
    <3>3. "next" \in DOMAIN saved /\ "expires" \in DOMAIN saved /\ "moment" \in DOMAIN saved
      <4>. HIDE DEF saved, q
      <4>. QED BY <1>0, <3>2 DEF Rows
    <3>4. edited.next = next /\ edited.moment = saved.moment
      <4>. HIDE DEF saved, next, expires
      <4>. QED BY <3>3
    <3>. QED BY <3>1, <3>4
  <2>. HIDE DEF edited
  <2>3. /\ j = k /\ row[j].enabled /\ row[j].st = "here" /\ row[j].next # Never
        /\ edited.next # row[j].next /\ row'[j] = edited
    BY <1>2, <2>1, MovedWas
  <2>. SUFFICES ASSUME m = q.moment PROVE FALSE BY <2>2, <2>3
  <2>4. ~new /\ ~enabling BY <2>3
  <2>. HIDE DEF saved
  <2>5. next = saved.next BY <2>2, <2>3, <2>4 DEF Armed
  <2>. QED BY <2>2, <2>3, <2>5
<1>. QED BY <1>1, <1>3, <1>4, <1>5, <1>6, <1>7, <1>8, <1>9
LEMMA RefusalMoves ==
  ASSUME Whole, NEW a \in Actors, RecordRefusal(a), NEW j \in Jobs, Moved(j)
  PROVE  Judged(j)
<1>1. /\ at[a].pc = "refused" /\ Done(a) /\ at[a].job \in Jobs /\ Fits(a, at[a])
  BY AtWorkIsUp DEF RecordRefusal
<1>2. a \in Loops
  BY <1>1, ActorKinds DEF Fits, Loops
<1>3. at'[a].pc \in {"idle", "visit"} BY <1>1, DoneTyped DEF Whole
<1>4. at[a].job = j
  <2>1. \/ row' = row
        \/ row' = [row EXCEPT ![at[a].job] =
                     Skipped(at[a].job, @, IF a = "tick" THEN seen ELSE now)]
    BY DEF RecordRefusal
  <2>2. row \in [Jobs -> Rows] /\ row'[j] # row[j] BY MovedWas
  <2>. QED BY <1>1, <2>1, <2>2
<1>. QED BY <1>1, <1>2, <1>3, <1>4 DEF Judged

\* The end of a run moves the slot of a job that was running.
LEMMA EndsMoveNothing ==
  ASSUME Whole, NEW k \in Jobs, row[k].running # NoRun, NEW r,
         row' = row \/ row' = [row EXCEPT ![k] = r], NEW j \in Jobs, Moved(j)
  PROVE  FALSE
<1>1. /\ row \in [Jobs -> Rows] /\ row[j].running = NoRun /\ row'[j] # row[j]
  BY MovedWas
<1>. QED BY <1>1

LEMMA ClaimMovesNothing ==
  ASSUME Whole, NEW a \in Actors, Claim(a), NEW j \in Jobs, Moved(j)
  PROVE  FALSE
<1>. DEFINE k == at[a].job
            q == row[k]
<1>1. row \in [Jobs -> Rows] /\ row'[j].next # row[j].next BY MovedWas
<1>2. k \in Jobs BY AtWorkIsUp
<1>3. PICK i \in RunIds : row' = [row EXCEPT ![k].running = i, ![k].since = now]
  BY DEF Claim
<1>4. row'[k].next = row[k].next
  <2>1. q \in Rows BY <1>1, <1>2
  <2>2. [q EXCEPT !.running = i, !.since = now].next = q.next
    <3>. HIDE DEF q
    <3>. QED BY <2>1 DEF Rows
  <2>. HIDE DEF k
  <2>3. row'[k] = [q EXCEPT !.running = i, !.since = now] BY <1>1, <1>2, <1>3
  <2>. QED BY <2>2, <2>3
<1>. HIDE DEF k
<1>5. \A h \in Jobs \ {k} : row'[h] = row[h] BY <1>1, <1>3
<1>. QED BY <1>1, <1>4, <1>5

LEMMA NextMoves ==
  ASSUME Whole, Next, NEW j \in Jobs, Moved(j)
  PROVE  ~up \/ Judged(j) \/ row'[j].moment # row[j].moment
<1>0. row'[j] # row[j] /\ row' # row /\ row \in [Jobs -> Rows] BY MovedWas
<1>1. CASE Crash BY <1>0, <1>1 DEF Crash
<1>2. CASE Clock BY <1>0, <1>2 DEF Clock
<1>3. CASE Edit BY <1>3, EditMoves
<1>4. CASE TickStep
  <2>1. CASE TickExpire
    <3>. DEFINE k == Head(todo).job
                q == row[k]
    <3>1. row' = [row EXCEPT ![k] = [q EXCEPT !.enabled = FALSE, !.updated = seen]]
      BY <1>0, <2>1 DEF TickExpire
    <3>2. k \in Jobs
      <4>1. at["tick"].pc = "visit" BY <2>1 DEF TickExpire, Visiting
      <4>. QED BY <4>1, AtWorkIsUp, ActorKinds DEF Entries
    <3>3. [q EXCEPT !.enabled = FALSE, !.updated = seen].next = q.next
      <4>1. q \in Rows BY <1>0, <3>2
      <4>. HIDE DEF q
      <4>. QED BY <4>1 DEF Rows
    <3>. HIDE DEF k
    <3>4. row'[k].next = row[k].next /\ \A h \in Jobs \ {k} : row'[h] = row[h]
      BY <1>0, <3>1, <3>2, <3>3
    <3>. QED BY <3>4, MovedWas
  <2>2. CASE TickDelete
    <3>. DEFINE k == Head(todo).job
    <3>1. row' = [row EXCEPT ![k] = Deleted] BY <2>2 DEF TickDelete
    <3>. HIDE DEF k
    <3>2. row'[j] = Deleted BY <1>0, <3>1
    <3>. QED BY <3>2, DeletedTyped, MovedWas
  <2>3. CASE TickFail
    <3>. DEFINE k == at["tick"].job
    <3>1. at["tick"].pc = "fail" BY <2>3 DEF TickFail
    <3>2. k \in Jobs /\ at["tick"].run # NoRun
      BY <3>1, AtWorkIsUp, ActorKinds DEF Fits
    <3>3. /\ row[k].running = at["tick"].run
          /\ row' = [row EXCEPT ![k] = Settled(k, @, "error", at["tick"].manual)]
      BY <1>0, <2>3 DEF TickFail
    <3>. DEFINE r == Settled(k, row[k], "error", at["tick"].manual)
    <3>4. row' = [row EXCEPT ![k] = r] BY <3>3
    <3>. HIDE DEF k, r
    <3>. QED BY <3>2, <3>3, <3>4, EndsMoveNothing
  <2>4. CASE TickList \/ TickDue \/ TickStuck \/ TickStuckRead
    BY <1>0, <2>4 DEF TickList, TickDue, TickStuck, TickStuckRead
  <2>. QED BY <1>4, <2>1, <2>2, <2>3, <2>4 DEF TickStep
<1>5. CASE Others
  <2>1. CASE Boot BY <2>1 DEF Boot
  <2>2. CASE CatchUpStep
    BY <1>0, <2>2 DEF CatchUpStep, CatchUpNext, CatchUpWaited, CatchUpEnd
  <2>3. ASSUME NEW a \in Actors, FireStep(a)
        PROVE  ~up \/ Judged(j) \/ row'[j].moment # row[j].moment
    <3>1. CASE RecordRefusal(a) BY <3>1, RefusalMoves
    <3>2. CASE Claim(a) BY <3>2, ClaimMovesNothing
    <3>3. CASE Decline(a) \/ Register(a) BY <1>0, <3>3 DEF Decline, Register
    <3>. QED BY <2>3, <3>1, <3>2, <3>3 DEF FireStep
  <2>4. ASSUME NEW i \in RunIds, NEW outcome \in Outcomes, RunEnds(i, outcome) PROVE FALSE
    <3>. DEFINE k == task[i].job
                r == Settled(k, row[k], outcome, task[i].manual)
    <3>1. row[k].running = i /\ row' = [row EXCEPT ![k] = r]
      BY <1>0, <2>4 DEF RunEnds
    <3>2. k \in Jobs /\ i # NoRun BY SchedulerAssumption DEF Whole, StoreTyped
    <3>. HIDE DEF k, r
    <3>. QED BY <3>1, <3>2, EndsMoveNothing
  <2>. QED BY <1>5, <2>1, <2>2, <2>3, <2>4 DEF Others
<1>. QED BY <1>1, <1>2, <1>3, <1>4, <1>5 DEF Next

\* An overdue slot moves only when it was judged skipped, at a start-up, or with
\* another schedule: never because the job was listed, swept, or saved again with
\* the schedule it had (normalize_job, _settle, _record_refusal).
THEOREM OverdueStays == Spec => OverdueKept
<1>. DEFINE Kept == \A j \in Jobs :
              /\ Overdue(j) /\ row'[j].st = "here" /\ row'[j].next # row[j].next
              => \/ ~up
                 \/ \E a \in Loops : at[a].pc = "refused" /\ at[a].job = j /\ at'[a].pc # "refused"
                 \/ row'[j].moment # row[j].moment
<1>1. Whole /\ [Next]_vars => [Kept]_vars
  <2>. SUFFICES ASSUME Whole, Next, NEW j \in Jobs, Moved(j)
                PROVE  ~up \/ Judged(j) \/ row'[j].moment # row[j].moment
    BY DEF Moved, Judged
  <2>. QED BY NextMoves
<1>2. Spec => [][Kept]_vars BY <1>1, SchedulerIsWhole, PTL DEF Spec
<1>. QED BY <1>2, Zenon DEF OverdueKept
=============================================================================
