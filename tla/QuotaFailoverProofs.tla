------------------------ MODULE QuotaFailoverProofs -------------------------
(***************************************************************************)
(* Theorems about the failover of one agent's accounts, for every set of   *)
(* accounts, incidents and transactions, every budget, and any number of   *)
(* crashes, failed writes and switches by hand.                            *)
(***************************************************************************)
EXTENDS QuotaFailover, FiniteSetTheorems, TLAPS

TxState == {"none", "asked", "swapping", "cancelled", "failed", "committed", "partial"} \cup Open
TxRec == [st : TxState, inc : Inc \cup {None}, from : Slot, to : Slot, auto : BOOLEAN,
          before : Nat, after : Nat, closed : BOOLEAN]
IncState == {"none", "detected", "waiting-safe", "switching", "settling",
             "notify-stopped", "ready"}
IncRec == [st : IncState, open : BOOLEAN, out : Slot, epoch : Nat, due : BOOLEAN]
RowRec == [st : {"none", "swapping", "failed", "committed", "partial"},
           auto : BOOLEAN, swapped : BOOLEAN, at : 0..Horizon,
           from : Slot, to : Slot, known : BOOLEAN, reconciled : BOOLEAN]
Place == {"over", "asked", "attempted", "waiting", "settle"} \cup Committing

WorkTyped ==
    /\ inc \in [Inc -> IncRec]
    /\ tx \in [Tx -> TxRec]
    /\ pc \in [Tx -> Place]

\* The switch lock, and who holds it.
Holding == {"checking", "moving", "moved"}
LockInv ==
    /\ \A t \in Tx : pc[t] \in Holding <=> lock = t
    /\ lock \in Tx \cup {None, ByManual}
    /\ manual \in Slot \cup {None} /\ (manual # None <=> lock = ByManual)

EnvTyped ==
    /\ clock \in 0..Horizon /\ up \in BOOLEAN /\ died \in 0..Crashes /\ handed \in 0..ByHand
    /\ policy \in {"auto", "notify"} /\ dflt \in Slot /\ live \in Slot /\ slot \in [Slot -> Slot]
    /\ row \in [Tx -> RowRec]
    /\ epoch \in Nat /\ degraded \in BOOLEAN
    /\ unrec \in {None} \cup [tx : Tx, live : Slot \cup {None}]
    /\ moved \in [Tx -> 0..Horizon \cup {None}]
    /\ astray \in BOOLEAN /\ crossed \subseteq Inc

LEMMA Typing == TypeOK <=> WorkTyped /\ EnvTyped /\ LockInv
<1>1. Committing \ {"locking"} = Holding BY DEF Committing, Holding
<1>2. TypeOK => EnvTyped BY DEF TypeOK, EnvTyped, RowRec
<1>3. TypeOK => WorkTyped BY DEF TypeOK, WorkTyped, IncRec, IncState, TxRec, TxState, Place
<1>4. TypeOK => LockInv BY <1>1 DEF TypeOK, LockInv
<1>5. WorkTyped /\ EnvTyped /\ LockInv => TypeOK
  BY <1>1 DEF TypeOK, WorkTyped, IncRec, IncState, TxRec, TxState, Place, EnvTyped, RowRec, LockInv
<1>. QED BY <1>2, <1>3, <1>4, <1>5

\* While the manual route holds the lock, no transaction does.
LEMMA ManualAlone ==
  ASSUME LockInv, lock \in {None, ByManual}
  PROVE  \A t \in Tx : pc[t] \notin Holding
BY QuotaAssumption DEF LockInv, ByManual

\* A record of which some fields moved.
TxTo(r, st, closed) == [r EXCEPT !.st = st, !.closed = closed]
IncTo(r, st) == [r EXCEPT !.st = st]

LEMMA TxFields ==
  ASSUME NEW r \in TxRec, NEW st \in TxState, NEW c \in BOOLEAN
  PROVE  LET q == TxTo(r, st, c) IN
         /\ q \in TxRec /\ q.st = st /\ q.closed = c /\ q.inc = r.inc /\ q.from = r.from
         /\ q.to = r.to /\ q.auto = r.auto /\ q.before = r.before /\ q.after = r.after
BY DEF TxTo, TxRec

LEMMA IncFields ==
  ASSUME NEW r \in IncRec, NEW st \in IncState
  PROVE  LET q == IncTo(r, st) IN
         /\ q \in IncRec /\ q.st = st /\ q.open = r.open /\ q.out = r.out
         /\ q.epoch = r.epoch /\ q.due = r.due
BY DEF IncTo, IncRec

LEMMA WithdrawIs ==
  ASSUME WorkTyped, NEW T \in SUBSET Tx, Withdraw(T)
  PROVE  /\ tx' = [t \in Tx |-> IF t \in T THEN TxTo(tx[t], "cancelled", TRUE) ELSE tx[t]]
         /\ pc' = [t \in Tx |-> IF t \in T /\ pc[t] = "waiting" THEN "over" ELSE pc[t]]
         /\ inc' = [i \in Inc |->
                  IF inc[i].open /\ inc[i].st \in {"detected", "waiting-safe", "switching"}
                     /\ \E t \in T : tx[t].inc = i
                  THEN IncTo(inc[i], "notify-stopped") ELSE inc[i]]
BY Zenon DEF Withdraw, TxTo, IncTo

LEMMA FailIs ==
  ASSUME WorkTyped, NEW t \in Tx, NEW how \in {"cancelled", "failed"}, Fail(t, how)
  PROVE  /\ tx' = [tx EXCEPT ![t] = TxTo(tx[t], how, TRUE)]
         /\ pc' = [pc EXCEPT ![t] = "over"]
         /\ inc' = [i \in Inc |-> IF i = tx[t].inc THEN IncTo(inc[i], "notify-stopped") ELSE inc[i]]
<1>1. tx' = [tx EXCEPT ![t] = TxTo(tx[t], how, TRUE)] BY DEF Fail, TxTo, WorkTyped
<1>2. inc' = [i \in Inc |-> IF i = tx[t].inc THEN IncTo(inc[i], "notify-stopped") ELSE inc[i]]
  BY DEF Fail, IncTo, WorkTyped
<1>. QED BY <1>1, <1>2 DEF Fail

LEMMA ClosedTyped ==
  ASSUME WorkTyped, NEW i \in Inc
  PROVE  /\ ClosedTxs(i) \in [Tx -> TxRec] /\ ClosedPcs(i) \in [Tx -> Place]
         /\ \A how \in IncState : Settled(i, how) \in IncRec
BY DEF WorkTyped, ClosedTxs, ClosedPcs, Settled, IncRec, IncState, TxRec, TxState, Place

-----------------------------------------------------------------------------
(* The inductive invariant.                                                *)

\* Where the coroutine of a transaction is says what its state can be: a commit
\* holds a transaction that nothing but itself takes out of "swapping", and one
\* that was cancelled while it waited for the lock is still cancelled there.
PlaceOf(t) ==
        /\ tx[t].st = "none" => pc[t] = "over"
        /\ tx[t].st = "asked" <=> pc[t] \in {"asked", "attempted"}
        /\ tx[t].st \in Open => pc[t] \in {"waiting", "locking", "checking"}
        /\ tx[t].st = "awaiting-confirmation" => pc[t] = "waiting"
        /\ tx[t].st = "swapping" <=> pc[t] \in {"moving", "moved"}
        /\ tx[t].st \in {"cancelled", "failed"} => pc[t] \in {"over", "waiting", "locking", "checking"}
        /\ Swapped(t) => pc[t] \in {"settle", "over"}
        /\ tx[t].st # "none" => tx[t].inc \in Inc
PlaceInv == \A t \in Tx : PlaceOf(t)

\* The audit row says what its transaction is about to do, at the time it does.
Early == {"asked", "attempted", "waiting", "locking", "checking"}
RowInv ==
    \A t \in Tx :
        /\ pc[t] \in Early => row[t].st = "none" /\ moved[t] = None
        /\ pc[t] \in {"moving", "moved"} =>
              /\ row[t].st = "swapping" /\ ~row[t].known /\ ~row[t].reconciled
              /\ row[t].auto = tx[t].auto /\ row[t].to = tx[t].to /\ row[t].at = clock
        /\ pc[t] = "moving" => moved[t] = None
        /\ moved[t] # None => t \in Counted /\ moved[t] = row[t].at
        /\ row[t].st = "none" => ~row[t].auto

\* Whose credentials are live while somebody holds the switch lock.
HeldInv ==
    /\ \A t \in Tx :
          /\ pc[t] = "moving" => live = tx[t].from /\ dflt = tx[t].from
          /\ pc[t] = "moved" /\ ~astray => live = tx[t].to
    /\ lock = ByManual /\ ~astray => live = manual

\* The default lags behind the live account only while a move is being booked,
\* by the manual route, or under a block; and a row on disk tells of it, for a
\* process that dies and starts again.
Lags == live # dflt /\ ~astray
LagInv ==
    Lags /\ lock # ByManual =>
        /\ up /\ unrec = None => \E t \in Tx : pc[t] = "moved"
        /\ \E t \in Unreconciled : ~(row[t].known /\ row[t].to = dflt)

\* At most one incident is open, and it was reported.
OneOpen ==
    /\ \A i, j \in OpenIncidents : i = j
    /\ \A i \in OpenIncidents : inc[i].st # "none"

\* An attempt that is running or has moved credentials.
Active(t) == tx[t].st \in Open \cup {"asked", "swapping", "committed", "partial"}
                \/ pc[t] \in Committing

\* An incident that was not crossed is the own of one attempt, and open as long
\* as that one can still change what becomes of it.
HoldOf(t) ==
    LET i == tx[t].inc IN
    /\ tx[t].st \in Open => inc[i].open
    /\ tx[t].st = "swapping" \/ (tx[t].st \in Open /\ pc[t] \in Committing) =>
          inc[i].open /\ inc[i].st = "switching"
    /\ Unsettled(t) => inc[i].open /\ inc[i].st = "settling"
Rivals(t, u) == tx[t].inc = tx[u].inc /\ Active(t) /\ Active(u)
OwnInv ==
    \A t \in Tx : tx[t].st # "none" /\ tx[t].inc \notin crossed =>
        /\ HoldOf(t)
        /\ \A u \in Tx \ {t} : ~Rivals(t, u)

\* What the budget allowed when the intent was written still holds at the move.
Others(t) == Counted \ {t}
AllowedInv ==
    \A t \in Tx : pc[t] = "moving" /\ tx[t].auto =>
        /\ \A u \in Others(t) : row[u].at + Gap <= clock
        /\ Cardinality({u \in Others(t) : row[u].at + Window > clock}) < Limit

-----------------------------------------------------------------------------
(* One transaction acts: nothing changes but it and its incident.          *)

Busy(i) == inc[i].open /\ inc[i].st \in {"waiting-safe", "switching"}
Carries(t) == tx[t].st \in Open \/ pc[t] \in Committing
SameOwner(t) ==
    /\ tx'[t].inc = tx[t].inc /\ tx'[t].from = tx[t].from
    /\ tx'[t].to = tx[t].to /\ tx'[t].auto = tx[t].auto

\* "Nothing here may revive a closed transaction".
Gone == {"cancelled", "failed"}
GoneStays == \A t \in Tx : tx[t].st \in Gone => tx'[t].st \in Gone

Acts(t) ==
    /\ GoneStays
    /\ \A u \in Tx \ {t} : tx'[u] = tx[u] /\ pc'[u] = pc[u]
    /\ \A i \in Inc \ {tx[t].inc} : inc'[i] = inc[i]
    /\ \A i \in Inc : inc'[i].open = inc[i].open
    /\ \A i \in Inc : inc'[i].st = "none" => inc[i].st = "none"
    /\ Active(t) /\ tx[t].st # "none"
    /\ SameOwner(t)
    /\ crossed \subseteq crossed'
    /\ PlaceOf(t)'
    /\ tx[t].inc \in crossed' \/ HoldOf(t)'
    /\ \A i \in Inc : i = tx[t].inc /\ Busy(i)' => Carries(t)'

LEMMA ActsKeeps ==
  ASSUME NEW t \in Tx, Acts(t), PlaceInv, OneOpen, OwnInv, NoOrphanedSwitching
  PROVE  PlaceInv' /\ OneOpen' /\ OwnInv' /\ NoOrphanedSwitching'
<1>. USE DEF Acts
<1>1. PlaceInv' BY DEF PlaceInv, PlaceOf, Swapped
<1>2. OneOpen' BY DEF OneOpen, OpenIncidents
<1>3. OwnInv'
  <2>. SUFFICES ASSUME NEW u \in Tx, tx'[u].st # "none", tx'[u].inc \notin crossed'
                PROVE  HoldOf(u)' /\ \A w \in Tx \ {u} : ~Rivals(u, w)'
    BY DEF OwnInv
  <2>1. tx'[u].inc = tx[u].inc /\ tx[u].st # "none" /\ tx[u].inc \notin crossed
    BY DEF SameOwner
  <2>2. \A w \in Tx : Active(w)' => Active(w) BY DEF Active
  <2>3. \A w \in Tx \ {u} : ~Rivals(u, w)'
    BY <2>1, <2>2 DEF OwnInv, Rivals, SameOwner
  <2>4. CASE u = t BY <2>1, <2>3, <2>4
  <2>5. CASE u # t /\ tx[u].inc # tx[t].inc
    <3>1. tx[u].inc \in Inc BY <2>1 DEF PlaceInv, PlaceOf
    <3>2. HoldOf(u) BY <2>1 DEF OwnInv
    <3>3. inc'[tx[u].inc] = inc[tx[u].inc] /\ tx'[u] = tx[u] /\ pc'[u] = pc[u]
      BY <2>5, <3>1
    <3>. QED BY <2>3, <3>2, <3>3 DEF HoldOf, Unsettled, Swapped
  <2>6. CASE u # t /\ tx[u].inc = tx[t].inc
    <3>1. ~Active(u) BY <2>1, <2>6 DEF OwnInv, Rivals
    <3>. QED BY <2>3, <2>6, <3>1 DEF HoldOf, Active, Unsettled, Swapped
  <2>. QED BY <2>4, <2>5, <2>6
<1>4. NoOrphanedSwitching'
  <2>. SUFFICES ASSUME NEW i \in Inc, Busy(i)'
                PROVE  \E u \in TxsOf(i)' : Carries(u)'
    BY DEF NoOrphanedSwitching, OpenIncidents, Busy, Carries
  <2>0. tx[t].inc \in Inc BY DEF PlaceInv, PlaceOf
  <2>1. CASE i = tx[t].inc
    <3>1. Carries(t)' BY <2>1
    <3>2. t \in TxsOf(i)' BY <2>1, <3>1, <1>1 DEF TxsOf, SameOwner, Carries, PlaceInv, PlaceOf, Committing, Open
    <3>. QED BY <3>1, <3>2
  <2>2. CASE i # tx[t].inc
    <3>1. PICK u \in TxsOf(i) : Carries(u)
      BY <2>2 DEF NoOrphanedSwitching, OpenIncidents, Busy, Carries
    <3>2. u # t /\ u \in Tx BY <2>2, <3>1 DEF TxsOf
    <3>3. u \in TxsOf(i)' /\ Carries(u)' BY <3>1, <3>2 DEF TxsOf, Carries
    <3>. QED BY <3>3
  <2>. QED BY <2>1, <2>2
<1>. QED BY <1>1, <1>2, <1>3, <1>4
\* One transaction and its incident take new values, and keep whose they are.
Turns(t, r, p, k) ==
    /\ tx' = [tx EXCEPT ![t] = r] /\ r \in TxRec
    /\ tx[t].st \in Gone => r.st \in Gone
    /\ r.inc = tx[t].inc /\ r.from = tx[t].from /\ r.to = tx[t].to /\ r.auto = tx[t].auto
    /\ pc' = [pc EXCEPT ![t] = p] /\ p \in Place
    /\ k \in IncState /\ \A i \in Inc : i = tx[t].inc /\ k = "none" => inc[i].st = "none"
    /\ inc' = [i \in Inc |-> IF i = tx[t].inc THEN IncTo(inc[i], k) ELSE inc[i]]

Turned(t, r, p, k) ==
    /\ \A u \in Tx \ {t} : tx'[u] = tx[u] /\ pc'[u] = pc[u]
    /\ \A i \in Inc \ {tx[t].inc} : inc'[i] = inc[i]
    /\ \A i \in Inc : inc'[i].open = inc[i].open
    /\ SameOwner(t)
    /\ tx'[t] = r /\ pc'[t] = p
    /\ \A i \in Inc : i = tx[t].inc => inc'[i].st = k

LEMMA TurnsKeeps ==
  ASSUME WorkTyped, NEW t \in Tx, NEW r, NEW p, NEW k, Turns(t, r, p, k)
  PROVE  WorkTyped' /\ Turned(t, r, p, k)
<1>1. \A i \in Inc : inc'[i] = IF i = tx[t].inc THEN IncTo(inc[i], k) ELSE inc[i]
  BY DEF Turns
<1>2. \A i \in Inc : LET q == IncTo(inc[i], k) IN q \in IncRec /\ q.st = k /\ q.open = inc[i].open
  BY IncFields DEF Turns, WorkTyped
<1>3. \A i \in Inc : inc'[i] \in IncRec BY <1>1, <1>2 DEF WorkTyped
<1>4. inc' \in [Inc -> IncRec] BY <1>3 DEF Turns
<1>5. tx' \in [Tx -> TxRec] /\ pc' \in [Tx -> Place] BY DEF Turns, WorkTyped
<1>6. tx'[t] = r /\ pc'[t] = p /\ \A u \in Tx \ {t} : tx'[u] = tx[u] /\ pc'[u] = pc[u]
  BY DEF Turns, WorkTyped
<1>7. SameOwner(t) BY <1>6 DEF SameOwner, Turns
<1>. QED BY <1>1, <1>2, <1>4, <1>5, <1>6, <1>7 DEF WorkTyped, Turned

\* What the new values of one transaction must satisfy.
FitsPlace(r, p) ==
    /\ r.st # "none"
    /\ r.st = "asked" <=> p \in {"asked", "attempted"}
    /\ r.st \in Open => p \in {"waiting", "locking", "checking"}
    /\ r.st = "awaiting-confirmation" => p = "waiting"
    /\ r.st = "swapping" <=> p \in {"moving", "moved"}
    /\ r.st \in {"cancelled", "failed"} => p \in {"over", "waiting", "locking", "checking"}
    /\ r.st \in {"committed", "partial"} => p \in {"settle", "over"}
FitsHold(r, p, k, open) ==
    /\ r.st \in Open => open
    /\ r.st = "swapping" \/ (r.st \in Open /\ p \in Committing) => open /\ k = "switching"
    /\ r.st \in {"committed", "partial"} /\ ~r.closed => open /\ k = "settling"
FitsBusy(r, p, k, open) ==
    open /\ k \in {"waiting-safe", "switching"} => r.st \in Open \/ p \in Committing

LEMMA TurnsActs ==
  ASSUME WorkTyped, NEW t \in Tx, tx[t].inc \in Inc, tx[t].st # "none", Active(t),
         NEW r, NEW p, NEW k, Turns(t, r, p, k), FitsPlace(r, p),
         tx[t].inc \in crossed' \/ FitsHold(r, p, k, inc[tx[t].inc].open),
         FitsBusy(r, p, k, inc[tx[t].inc].open),
         crossed \subseteq crossed'
  PROVE  Acts(t) /\ WorkTyped'
<1>1. WorkTyped' /\ Turned(t, r, p, k) BY TurnsKeeps
<1>2. tx'[t].inc = tx[t].inc BY <1>1 DEF Turned, SameOwner
<1>3. PlaceOf(t)' BY <1>1, <1>2 DEF Turned, PlaceOf, FitsPlace, Swapped
<1>4. inc'[tx[t].inc].open = inc[tx[t].inc].open /\ inc'[tx[t].inc].st = k
  BY <1>1 DEF Turned
<1>5. tx[t].inc \in crossed' \/ HoldOf(t)'
  BY <1>1, <1>2, <1>4 DEF Turned, HoldOf, FitsHold, Unsettled, Swapped
<1>6. \A i \in Inc : i = tx[t].inc /\ Busy(i)' => Carries(t)'
  BY <1>1, <1>4 DEF Turned, FitsBusy, Busy, Carries
<1>7. \A i \in Inc : inc'[i].st = "none" => inc[i].st = "none"
  BY <1>1 DEF Turned, Turns
<1>8. GoneStays BY <1>1 DEF Turned, Turns, GoneStays
<1>. QED BY <1>1, <1>3, <1>5, <1>6, <1>7, <1>8 DEF Acts, Turned

LEMMA IncStays ==
  ASSUME WorkTyped, NEW i \in Inc
  PROVE  /\ inc[i].st \in IncState
         /\ inc = [j \in Inc |-> IF j = i THEN IncTo(inc[j], inc[i].st) ELSE inc[j]]
<1>1. \A r \in IncRec : r.st \in IncState /\ IncTo(r, r.st) = r BY DEF IncRec, IncTo
<1>2. inc[i] \in IncRec /\ inc = [j \in Inc |-> inc[j]] BY DEF WorkTyped
<1>3. \A j \in Inc : inc[j] = IF j = i THEN IncTo(inc[j], inc[i].st) ELSE inc[j]
  BY <1>1, <1>2
<1>. QED BY <1>1, <1>2, <1>3

LEMMA IncMoves ==
  ASSUME WorkTyped, NEW i \in Inc, NEW k
  PROVE  [inc EXCEPT ![i].st = k] = [j \in Inc |-> IF j = i THEN IncTo(inc[j], k) ELSE inc[j]]
BY DEF WorkTyped, IncTo

LEMMA TxStays ==
  ASSUME WorkTyped, NEW t \in Tx
  PROVE  tx = [tx EXCEPT ![t] = tx[t]] /\ tx[t] \in TxRec
BY DEF WorkTyped

LEMMA PlaceFacts ==
  ASSUME PlaceInv, NEW t \in Tx
  PROVE  /\ PlaceOf(t)
         /\ tx[t].st # "none" \/ pc[t] # "over" => tx[t].inc \in Inc /\ tx[t].st # "none"
BY DEF PlaceInv, PlaceOf

LEMMA FailTurns ==
  ASSUME WorkTyped, NEW t \in Tx, NEW how \in {"cancelled", "failed"}, Fail(t, how)
  PROVE  Turns(t, TxTo(tx[t], how, TRUE), "over", "notify-stopped")
<1>1. tx[t] \in TxRec /\ how \in TxState BY DEF WorkTyped, TxState
<1>. QED BY <1>1, FailIs, TxFields DEF Turns, Gone, Place, IncState

LEMMA FailActs ==
  ASSUME WorkTyped, PlaceInv, NEW t \in Tx, tx[t].st # "none", Active(t),
         NEW how \in {"cancelled", "failed"}, Fail(t, how), crossed \subseteq crossed'
  PROVE  Acts(t) /\ WorkTyped'
<1>1. tx[t] \in TxRec /\ how \in TxState /\ tx[t].inc \in Inc
  BY PlaceFacts DEF WorkTyped, TxState
<1> DEFINE r == TxTo(tx[t], how, TRUE)
<1>2. Turns(t, r, "over", "notify-stopped") BY FailTurns
<1>3. r.st = how /\ r.closed BY <1>1, TxFields
<1>. HIDE DEF r
<1>4. FitsPlace(r, "over") BY <1>3 DEF FitsPlace, Open
<1>5. FitsHold(r, "over", "notify-stopped", inc[tx[t].inc].open)
  BY <1>3 DEF FitsHold, Open
<1>6. FitsBusy(r, "over", "notify-stopped", inc[tx[t].inc].open)
  BY DEF FitsBusy
<1>. QED BY <1>1, <1>2, <1>4, <1>5, <1>6, TurnsActs

LEMMA StopTurns ==
  ASSUME WorkTyped, PlaceInv, NEW t \in Tx, pc[t] \in Committing, tx[t].st \notin Open,
         NEW how \in {"cancelled", "failed"}, Stop(t, how)
  PROVE  \E k \in IncState :
             /\ Turns(t, tx[t], "over", k)
             /\ inc[tx[t].inc].open => k \notin {"waiting-safe", "switching"}
<1> DEFINE i == tx[t].inc
           k == IF inc[i].open /\ inc[i].st \in {"detected", "waiting-safe", "switching"}
                THEN "notify-stopped" ELSE inc[i].st
<1>1. i \in Inc BY PlaceFacts DEF Committing
<1>2. k \in IncState BY <1>1, IncStays DEF IncState
<1>3. inc' = [j \in Inc |-> IF j = i THEN IncTo(inc[j], k) ELSE inc[j]]
  <2> DEFINE cut == inc[i].open /\ inc[i].st \in {"detected", "waiting-safe", "switching"}
  <2>1. CASE cut
    <3>1. inc' = [inc EXCEPT ![i].st = "notify-stopped"] BY <2>1 DEF Stop
    <3>2. k = "notify-stopped" BY <2>1
    <3>3. [inc EXCEPT ![i].st = "notify-stopped"]
            = [j \in Inc |-> IF j = i THEN IncTo(inc[j], "notify-stopped") ELSE inc[j]]
      BY <1>1 DEF WorkTyped, IncTo
    <3>. HIDE DEF k, i
    <3>. QED BY <3>1, <3>2, <3>3
  <2>2. CASE ~cut
    <3>1. inc' = inc BY <2>2 DEF Stop
    <3>2. k = inc[i].st BY <2>2
    <3>. HIDE DEF k, i
    <3>3. inc = [j \in Inc |-> IF j = i THEN IncTo(inc[j], inc[i].st) ELSE inc[j]]
      BY <1>1, IncStays
    <3>. QED BY <3>1, <3>2, <3>3
  <2>. QED BY <2>1, <2>2
<1>4. Turns(t, tx[t], "over", k) BY <1>2, <1>3, TxStays DEF Turns, Gone, Stop, Place
<1>. QED BY <1>2, <1>4

LEMMA StopActs ==
  ASSUME WorkTyped, PlaceInv, NEW t \in Tx, pc[t] \in {"locking", "checking"},
         NEW how \in {"cancelled", "failed"}, Stop(t, how), crossed \subseteq crossed'
  PROVE  Acts(t) /\ WorkTyped'
<1>1. tx[t].inc \in Inc /\ tx[t].st # "none" /\ PlaceOf(t) /\ Active(t)
  BY PlaceFacts DEF Active, Committing
<1>2. CASE tx[t].st \in Open BY <1>1, <1>2, FailActs DEF Stop
<1>3. CASE tx[t].st \notin Open
  <2>1. PICK k \in IncState :
             /\ Turns(t, tx[t], "over", k)
             /\ inc[tx[t].inc].open => k \notin {"waiting-safe", "switching"}
    BY <1>3, StopTurns DEF Committing
  <2>2. tx[t].st \in {"cancelled", "failed"}
    BY <1>1, <1>3, TxStays DEF PlaceOf, Open, TxRec, TxState, Swapped
  <2>3. FitsPlace(tx[t], "over") BY <2>2 DEF FitsPlace, Open
  <2>4. FitsHold(tx[t], "over", k, inc[tx[t].inc].open) BY <2>2 DEF FitsHold, Open
  <2>5. FitsBusy(tx[t], "over", k, inc[tx[t].inc].open) BY <2>1 DEF FitsBusy
  <2>. QED BY <1>1, <2>1, <2>3, <2>4, <2>5, TurnsActs
<1>. QED BY <1>2, <1>3
\* The acting steps, one by one.
Works == WorkTyped /\ PlaceInv /\ OwnInv

LEMMA ActsTurning ==
  ASSUME Works, NEW t \in Tx, tx[t].st # "none", Active(t),
         NEW st \in TxState, NEW c \in BOOLEAN, NEW p, NEW k,
         Turns(t, TxTo(tx[t], st, c), p, k), crossed' = crossed,
         st # "none", st = "asked" <=> p \in {"asked", "attempted"},
         st \in Open => p \in {"waiting", "locking", "checking"},
         st = "awaiting-confirmation" => p = "waiting",
         st = "swapping" <=> p \in {"moving", "moved"},
         st \in {"cancelled", "failed"} => p \in {"over", "waiting", "locking", "checking"},
         st \in {"committed", "partial"} => p \in {"settle", "over"},
         HoldOf(t) => FitsHold(TxTo(tx[t], st, c), p, k, inc[tx[t].inc].open),
         inc[tx[t].inc].open /\ k \in {"waiting-safe", "switching"} =>
              st \in Open \/ p \in Committing
  PROVE  Acts(t) /\ WorkTyped'
<1> DEFINE r == TxTo(tx[t], st, c)
<1>1. tx[t] \in TxRec /\ tx[t].inc \in Inc BY PlaceFacts DEF Works, WorkTyped
<1>2. r.st = st BY <1>1, TxFields
<1>3. tx[t].inc \in crossed' \/ HoldOf(t) BY DEF Works, OwnInv
<1>. HIDE DEF r
<1>4. FitsPlace(r, p) BY <1>2 DEF FitsPlace
<1>5. FitsBusy(r, p, k, inc[tx[t].inc].open) BY <1>2 DEF FitsBusy
<1>6. tx[t].inc \in crossed' \/ FitsHold(r, p, k, inc[tx[t].inc].open) BY <1>3 DEF r
<1>. QED BY <1>1, <1>4, <1>5, <1>6, TurnsActs DEF Works, r

LEMMA ConfirmActs ==
  ASSUME Works, NEW t \in Tx, Confirm(t)
  PROVE  Acts(t) /\ WorkTyped'
<1>1. tx[t].st = "awaiting-confirmation" /\ pc[t] = "waiting" /\ tx[t].inc \in Inc
      /\ tx[t].st # "none" /\ tx[t] \in TxRec
  BY PlaceFacts DEF Confirm, Works, PlaceOf, WorkTyped
<1>2. Active(t) BY <1>1 DEF Active, Open
<1> DEFINE r == TxTo(tx[t], "preparing", tx[t].closed)
<1>3. tx' = [tx EXCEPT ![t] = r]
  BY <1>1 DEF Confirm, TxTo, Works, WorkTyped, TxRec
<1>4. tx[t].closed \in BOOLEAN /\ "preparing" \in TxState BY <1>1 DEF TxRec, TxState, Open
<1>5. \E p \in {"locking", "waiting"}, k \in {"switching", "waiting-safe"} :
          /\ pc' = [pc EXCEPT ![t] = p]
          /\ inc' = [inc EXCEPT ![tx[t].inc].st = k]
          /\ p = "locking" => k = "switching"
  <2>1. CASE Commits(t, tx[t].inc) BY <2>1 DEF Commits
  <2>2. CASE pc' = pc /\ inc' = [inc EXCEPT ![tx[t].inc].st = "waiting-safe"]
    BY <1>1, <2>2 DEF Works, WorkTyped
  <2>. QED BY <2>1, <2>2 DEF Confirm
<1>6. PICK p \in {"locking", "waiting"}, k \in {"switching", "waiting-safe"} :
          /\ pc' = [pc EXCEPT ![t] = p]
          /\ inc' = [inc EXCEPT ![tx[t].inc].st = k]
          /\ p = "locking" => k = "switching"
  BY <1>5
<1>7. inc' = [i \in Inc |-> IF i = tx[t].inc THEN IncTo(inc[i], k) ELSE inc[i]]
  BY <1>6 DEF Works, WorkTyped, IncTo
<1>8. /\ r \in TxRec /\ r.st = "preparing" /\ r.inc = tx[t].inc /\ r.from = tx[t].from
      /\ r.to = tx[t].to /\ r.auto = tx[t].auto
  BY <1>1, <1>4, TxFields
<1>9. Turns(t, r, p, k)
  BY <1>1, <1>3, <1>6, <1>7, <1>8 DEF Turns, Gone, Place, IncState, Committing
<1>10. HoldOf(t) => FitsHold(r, p, k, inc[tx[t].inc].open)
  BY <1>1, <1>6, <1>8 DEF HoldOf, FitsHold, Open, Committing
<1>. QED BY <1>1, <1>2, <1>4, <1>6, <1>9, <1>10, ActsTurning DEF Confirm, history, Open

LEMMA AckReadyActs ==
  ASSUME Works, NEW t \in Tx, AckReady(t)
  PROVE  Acts(t) /\ WorkTyped'
<1>1. /\ tx[t].st \in {"preparing", "waiting-safe"} /\ pc[t] = "waiting" /\ tx[t].inc \in Inc
      /\ tx[t].st # "none" /\ tx[t] \in TxRec
  BY PlaceFacts DEF AckReady, Works, WorkTyped
<1>2. Active(t) BY <1>1 DEF Active, Open
<1>3. tx' = [tx EXCEPT ![t] = tx[t]] BY DEF AckReady, Works, WorkTyped
<1>4. inc' = [i \in Inc |-> IF i = tx[t].inc THEN IncTo(inc[i], "switching") ELSE inc[i]]
  BY DEF AckReady, Commits, Works, WorkTyped, IncTo
<1>5. Turns(t, tx[t], "locking", "switching")
  BY <1>1, <1>3, <1>4 DEF Turns, Gone, Place, IncState, Committing, AckReady, Commits
<1>6. HoldOf(t) => FitsHold(tx[t], "locking", "switching", inc[tx[t].inc].open)
  BY <1>1 DEF HoldOf, FitsHold, Open
<1>7. FitsPlace(tx[t], "locking") BY <1>1 DEF FitsPlace, Open
<1>8. FitsBusy(tx[t], "locking", "switching", inc[tx[t].inc].open)
  BY DEF FitsBusy, Committing
<1>9. crossed' = crossed /\ (tx[t].inc \in crossed \/ HoldOf(t))
  BY <1>1 DEF AckReady, history, Works, OwnInv
<1>. QED BY <1>1, <1>2, <1>5, <1>6, <1>7, <1>8, <1>9, TurnsActs DEF Works

LEMMA AckBusyActs ==
  ASSUME Works, NEW t \in Tx, AckBusy(t)
  PROVE  Acts(t) /\ WorkTyped'
<1>1. /\ tx[t].st = "preparing" /\ pc[t] = "waiting" /\ tx[t].inc \in Inc
      /\ tx[t].st # "none" /\ tx[t] \in TxRec
  BY PlaceFacts DEF AckBusy, Works, WorkTyped
<1>2. Active(t) BY <1>1 DEF Active, Open
<1> DEFINE r == TxTo(tx[t], "waiting-safe", tx[t].closed)
           k == inc[tx[t].inc].st
<1>3. tx' = [tx EXCEPT ![t] = r]
  BY <1>1 DEF AckBusy, TxTo, Works, WorkTyped, TxRec
<1>4. tx[t].closed \in BOOLEAN /\ "waiting-safe" \in TxState BY <1>1 DEF TxRec, TxState, Open
<1>5. pc' = [pc EXCEPT ![t] = "waiting"] BY <1>1 DEF AckBusy, Works, WorkTyped
<1>6. /\ r \in TxRec /\ r.st = "waiting-safe" /\ r.inc = tx[t].inc /\ r.from = tx[t].from
      /\ r.to = tx[t].to /\ r.auto = tx[t].auto
  BY <1>1, <1>4, TxFields
<1>7. Turns(t, r, "waiting", k)
  BY <1>1, <1>3, <1>5, <1>6, IncStays DEF Turns, Gone, Place, AckBusy, Works
<1>8. HoldOf(t) => FitsHold(r, "waiting", k, inc[tx[t].inc].open)
  BY <1>1, <1>6 DEF HoldOf, FitsHold, Open, Committing
<1>9. crossed' = crossed BY DEF AckBusy, history
<1>. HIDE DEF k
<1>. QED BY <1>1, <1>2, <1>4, <1>7, <1>8, <1>9, ActsTurning DEF Open

\* The transaction is cancelled, and its incident too if it is open.

LEMMA CancelledActs ==
  ASSUME Works, NEW t \in Tx, tx[t].st \in Open,
         NEW p \in {"over", "locking", "checking", "waiting"}, NEW k,
         Turns(t, TxTo(tx[t], "cancelled", TRUE), p, k), crossed' = crossed,
         inc[tx[t].inc].open => k = "notify-stopped"
  PROVE  Acts(t) /\ WorkTyped'
<1>1. tx[t] \in TxRec BY DEF Works, WorkTyped
<1> DEFINE r == TxTo(tx[t], "cancelled", TRUE)
<1>2. r.st = "cancelled" /\ r.closed /\ "cancelled" \in TxState BY <1>1, TxFields DEF TxState
<1>3. FitsHold(r, p, k, inc[tx[t].inc].open) BY <1>2 DEF FitsHold, Open
<1>4. tx[t].st # "none" /\ Active(t) BY DEF Open, Active
<1>. QED BY <1>2, <1>3, <1>4, ActsTurning DEF Open

LEMMA AckRefusedActs ==
  ASSUME Works, NEW t \in Tx, AckRefused(t)
  PROVE  Acts(t) /\ WorkTyped'
<1>1. /\ tx[t].st \in Open /\ tx[t].inc \in Inc /\ tx[t] \in TxRec /\ PlaceOf(t)
  BY PlaceFacts DEF AckRefused, Works, WorkTyped, Open
<1> DEFINE r == TxTo(tx[t], "cancelled", TRUE)
           p == IF pc[t] = "waiting" THEN "over" ELSE pc[t]
<1>2. tx' = [tx EXCEPT ![t] = r]
  BY <1>1 DEF AckRefused, TxTo, Works, WorkTyped, TxRec
<1>3. pc' = [pc EXCEPT ![t] = p] BY <1>1 DEF AckRefused, Works, WorkTyped
<1>4. p \in {"over", "locking", "checking", "waiting"} BY <1>1 DEF PlaceOf
<1>5. inc' = [i \in Inc |-> IF i = tx[t].inc THEN IncTo(inc[i], "notify-stopped") ELSE inc[i]]
  BY DEF AckRefused, Works, WorkTyped, IncTo
<1>6. /\ r \in TxRec /\ r.st = "cancelled" /\ r.inc = tx[t].inc /\ r.from = tx[t].from
      /\ r.to = tx[t].to /\ r.auto = tx[t].auto
  <2>1. "cancelled" \in TxState BY DEF TxState
  <2>. QED BY <1>1, <2>1, TxFields
<1>7. Turns(t, r, p, "notify-stopped")
  BY <1>2, <1>3, <1>4, <1>5, <1>6 DEF Turns, Gone, Place, IncState, Committing
<1>. QED BY <1>1, <1>4, <1>7, CancelledActs DEF AckRefused, history

LEMMA DeadlineActs ==
  ASSUME Works, NEW t \in Tx, Deadline(t)
  PROVE  Acts(t) /\ WorkTyped'
<1> DEFINE i == tx[t].inc
           r == TxTo(tx[t], "cancelled", TRUE)
           k == IF inc[i].open THEN "notify-stopped" ELSE inc[i].st
<1>1. /\ tx[t].st \in Open /\ i \in Inc /\ tx[t] \in TxRec
  BY PlaceFacts DEF Deadline, Works, WorkTyped, Open
<1>2. tx' = [tx EXCEPT ![t] = r]
  BY <1>1 DEF Deadline, TxTo, Works, WorkTyped, TxRec
<1>3. k \in IncState BY <1>1, IncStays DEF IncState, Works
<1>4. inc' = [j \in Inc |-> IF j = i THEN IncTo(inc[j], k) ELSE inc[j]]
  <2>1. CASE inc[i].open
    <3>1. inc' = [inc EXCEPT ![i].st = "notify-stopped"] BY <2>1 DEF Deadline
    <3>2. k = "notify-stopped" BY <2>1
    <3>3. [inc EXCEPT ![i].st = "notify-stopped"]
            = [j \in Inc |-> IF j = i THEN IncTo(inc[j], "notify-stopped") ELSE inc[j]]
      BY <1>1 DEF Works, WorkTyped, IncTo
    <3>. HIDE DEF k, i
    <3>. QED BY <3>1, <3>2, <3>3
  <2>2. CASE ~inc[i].open
    <3>1. inc' = inc BY <2>2 DEF Deadline
    <3>2. k = inc[i].st BY <2>2
    <3>. HIDE DEF k, i
    <3>3. inc = [j \in Inc |-> IF j = i THEN IncTo(inc[j], inc[i].st) ELSE inc[j]]
      BY <1>1, IncStays DEF Works
    <3>. QED BY <3>1, <3>2, <3>3
  <2>. QED BY <2>1, <2>2
<1>5. /\ r \in TxRec /\ r.st = "cancelled" /\ r.inc = tx[t].inc /\ r.from = tx[t].from
      /\ r.to = tx[t].to /\ r.auto = tx[t].auto
  <2>1. "cancelled" \in TxState BY DEF TxState
  <2>. QED BY <1>1, <2>1, TxFields
<1>6. Turns(t, r, "over", k)
  BY <1>2, <1>3, <1>4, <1>5 DEF Turns, Gone, Place, Deadline
<1>. QED BY <1>1, <1>6, CancelledActs DEF Deadline, history
\* begin_switch writes three fields of its transaction, a booking two.
BegunAs(r, before, st, closed) ==
    [r EXCEPT !.before = before, !.closed = closed, !.st = st]
BookedAs(r, st, after) == [r EXCEPT !.st = st, !.after = after]

LEMMA BegunFields ==
  ASSUME NEW r \in TxRec, NEW st \in TxState, NEW c \in BOOLEAN, NEW n \in Nat
  PROVE  LET q == BegunAs(r, n, st, c) IN
         /\ q \in TxRec /\ q.st = st /\ q.closed = c /\ q.inc = r.inc /\ q.from = r.from
         /\ q.to = r.to /\ q.auto = r.auto
BY DEF BegunAs, TxRec

LEMMA BookedFields ==
  ASSUME NEW r \in TxRec, NEW st \in TxState, NEW n \in Nat
  PROVE  LET q == BookedAs(r, st, n) IN
         /\ q \in TxRec /\ q.st = st /\ q.closed = r.closed /\ q.inc = r.inc /\ q.from = r.from
         /\ q.to = r.to /\ q.auto = r.auto
BY DEF BookedAs, TxRec

LEMMA BeginActs ==
  ASSUME Works, epoch \in Nat, NEW t \in Tx, Begin(t)
  PROVE  Acts(t) /\ WorkTyped'
<1> DEFINE i == tx[t].inc
<1>1. /\ pc[t] \in {"asked", "attempted"} /\ tx[t].st = "asked" /\ i \in Inc /\ tx[t] \in TxRec
  BY PlaceFacts DEF Begin, Works, WorkTyped, PlaceOf
<1>2. Active(t) /\ tx[t].st # "none" BY <1>1 DEF Active
<1>3. PICK way \in {"commit", "prepare", "confirm", "stop"} :
          /\ tx' = [tx EXCEPT ![t].before = epoch, ![t].closed = (way = "stop"),
                             ![t].st = CASE way = "confirm" -> "awaiting-confirmation"
                                         [] way = "stop" -> "cancelled"
                                         [] OTHER -> "preparing"]
          /\ pc' = [pc EXCEPT ![t] = CASE way = "commit" -> "locking" [] way = "stop" -> "over"
                                       [] OTHER -> "waiting"]
          /\ inc' = [inc EXCEPT ![i].st = CASE way = "commit" -> "switching"
                                            [] way = "stop" -> "notify-stopped"
                                            [] OTHER -> "waiting-safe"]
  BY DEF Begin
<1> DEFINE st == CASE way = "confirm" -> "awaiting-confirmation"
                                         [] way = "stop" -> "cancelled"
                                         [] OTHER -> "preparing"
           c == (way = "stop")
           p == CASE way = "commit" -> "locking" [] way = "stop" -> "over"
                                       [] OTHER -> "waiting"
           k == CASE way = "commit" -> "switching"
                                            [] way = "stop" -> "notify-stopped"
                                            [] OTHER -> "waiting-safe"
           r == BegunAs(tx[t], epoch, st, c)
<1>4. \/ st = "preparing" /\ ~c /\ p = "locking" /\ k = "switching"
      \/ st \in {"preparing", "awaiting-confirmation"} /\ ~c /\ p = "waiting" /\ k = "waiting-safe"
      \/ st = "cancelled" /\ c /\ p = "over" /\ k = "notify-stopped"
  OBVIOUS
<1>5. c \in BOOLEAN OBVIOUS
<1>6. /\ tx' = [tx EXCEPT ![t].before = epoch, ![t].closed = c, ![t].st = st]
      /\ pc' = [pc EXCEPT ![t] = p]
      /\ inc' = [inc EXCEPT ![i].st = k]
  BY <1>3
<1>7. crossed' = IF inc[i].open THEN crossed ELSE crossed \cup {i} BY DEF Begin
<1>. HIDE DEF st, c, p, k
<1>8. st \in TxState /\ p \in Place /\ k \in IncState /\ k # "none"
  BY <1>4 DEF TxState, Place, IncState, Open, Committing
<1>9. tx' = [tx EXCEPT ![t] = r]
  BY <1>6 DEF BegunAs, Works, WorkTyped, TxRec
<1>10. inc' = [j \in Inc |-> IF j = tx[t].inc THEN IncTo(inc[j], k) ELSE inc[j]]
  BY <1>6, <1>8 DEF Works, WorkTyped, IncTo
<1>11. /\ r \in TxRec /\ r.st = st /\ r.closed = c /\ r.inc = tx[t].inc /\ r.from = tx[t].from
       /\ r.to = tx[t].to /\ r.auto = tx[t].auto
  BY <1>1, <1>5, <1>8, BegunFields
<1>. HIDE DEF r
<1>12. Turns(t, r, p, k) BY <1>1, <1>6, <1>8, <1>9, <1>10, <1>11 DEF Turns, Gone
<1>13. FitsPlace(r, p) BY <1>4, <1>11 DEF FitsPlace, Open
<1>14. FitsBusy(r, p, k, inc[i].open) BY <1>4, <1>11 DEF FitsBusy, Open
<1>15. i \in crossed' \/ inc[i].open BY <1>7
<1>16. i \in crossed' \/ FitsHold(r, p, k, inc[i].open)
  BY <1>4, <1>11, <1>15 DEF FitsHold, Open, Committing
<1>17. crossed \subseteq crossed' BY <1>7
<1>. QED BY <1>1, <1>2, <1>12, <1>13, <1>14, <1>16, <1>17, TurnsActs DEF Works

LEMMA TakeLockActs ==
  ASSUME Works, NEW t \in Tx, TakeLock(t)
  PROVE  Acts(t) /\ WorkTyped'
<1>1. pc[t] = "locking" /\ crossed' = crossed BY DEF TakeLock, history
<1>2. CASE Refused(t) BY <1>1, <1>2, StopActs DEF TakeLock, Works
<1>3. CASE ~Refused(t)
  <2>1. /\ tx[t].inc \in Inc /\ tx[t].st # "none" /\ PlaceOf(t) /\ tx[t] \in TxRec
    BY <1>1, PlaceFacts DEF Works, WorkTyped
  <2>2. tx[t].st \in Open /\ Active(t)
    BY <1>1, <1>3, <2>1 DEF Refused, PlaceOf, Active
  <2>3. tx' = [tx EXCEPT ![t] = tx[t]] BY <1>3 DEF TakeLock, Works, WorkTyped
  <2> DEFINE k == inc[tx[t].inc].st
  <2>4. Turns(t, tx[t], "checking", k)
    BY <1>3, <2>1, <2>3, IncStays DEF Turns, Gone, Place, Committing, TakeLock, Works
  <2>5. HoldOf(t) => FitsHold(tx[t], "checking", k, inc[tx[t].inc].open)
    BY <1>1, <2>2 DEF HoldOf, FitsHold, Committing, Open
  <2>6. FitsPlace(tx[t], "checking") BY <1>1, <2>1, <2>2 DEF FitsPlace, PlaceOf, Open
  <2>7. FitsBusy(tx[t], "checking", k, inc[tx[t].inc].open) BY DEF FitsBusy, Committing
  <2>8. tx[t].inc \in crossed \/ HoldOf(t) BY <2>1 DEF Works, OwnInv
  <2>. QED BY <1>1, <2>1, <2>2, <2>4, <2>5, <2>6, <2>7, <2>8, TurnsActs DEF Works
<1>. QED BY <1>2, <1>3

LEMMA LockTimeoutActs ==
  ASSUME Works, NEW t \in Tx, LockTimeout(t)
  PROVE  Acts(t) /\ WorkTyped'
BY StopActs DEF LockTimeout, history, Works

LEMMA CheckFailsActs ==
  ASSUME Works, NEW t \in Tx, CheckFails(t)
  PROVE  Acts(t) /\ WorkTyped'
<1>1. tx[t].st # "none" /\ Active(t)
  BY PlaceFacts DEF CheckFails, Works, Active, Committing
<1>. QED BY <1>1, FailActs DEF CheckFails, history, Works

LEMMA MoveFailsActs ==
  ASSUME Works, NEW t \in Tx, MoveFails(t)
  PROVE  Acts(t) /\ WorkTyped'
<1>1. tx[t].st # "none" /\ Active(t)
  BY PlaceFacts DEF MoveFails, Works, Active, Committing
<1>. QED BY <1>1, FailActs DEF MoveFails, history, Works

\* The three outcomes of the second recheck.
Intends(t) ==
    /\ ~Refused(t)
    /\ tx' = [tx EXCEPT ![t].st = "swapping"]
    /\ row' = [row EXCEPT ![t] = [BlankRow EXCEPT !.st = "swapping", !.auto = tx[t].auto,
                  !.at = clock, !.from = tx[t].from, !.to = tx[t].to]]
    /\ pc' = [pc EXCEPT ![t] = "moving"]
    /\ UNCHANGED <<inc, lock>>

LEMMA IntendCases ==
  ASSUME NEW t \in Tx, Intend(t)
  PROVE  \/ Stop(t, "cancelled") /\ lock' = None /\ row' = row
         \/ Fail(t, "failed") /\ lock' = None /\ row' = row
         \/ Intends(t)
BY Zenon DEF Intend, Intends

LEMMA IntendActs ==
  ASSUME Works, NEW t \in Tx, Intend(t)
  PROVE  Acts(t) /\ WorkTyped'
<1>1. pc[t] = "checking" /\ crossed' = crossed BY DEF Intend, history
<1>2. tx[t].st # "none" /\ Active(t) /\ tx[t].inc \in Inc /\ PlaceOf(t) /\ tx[t] \in TxRec
  BY <1>1, PlaceFacts DEF Works, WorkTyped, Active, Committing
<1>3. CASE Stop(t, "cancelled") BY <1>1, <1>3, StopActs DEF Works
<1>4. CASE Fail(t, "failed") BY <1>1, <1>2, <1>4, FailActs DEF Works
<1>5. CASE Intends(t)
  <2> DEFINE r == TxTo(tx[t], "swapping", tx[t].closed)
             k == inc[tx[t].inc].st
  <2>1. tx[t].st \in Open BY <1>1, <1>2, <1>5 DEF Intends, Refused, PlaceOf
  <2>2. tx' = [tx EXCEPT ![t] = r] BY <1>2, <1>5 DEF Intends, TxTo, Works, WorkTyped, TxRec
  <2>3. tx[t].closed \in BOOLEAN /\ "swapping" \in TxState BY <1>2 DEF TxRec, TxState
  <2>4. /\ r \in TxRec /\ r.st = "swapping" /\ r.inc = tx[t].inc /\ r.from = tx[t].from
        /\ r.to = tx[t].to /\ r.auto = tx[t].auto
    BY <1>2, <2>3, TxFields
  <2>5. pc' = [pc EXCEPT ![t] = "moving"] /\ inc' = inc BY <1>5 DEF Intends
  <2>6. Turns(t, r, "moving", k)
    BY <1>2, <2>1, <2>2, <2>4, <2>5, IncStays DEF Turns, Gone, Open, Place, Committing, Works
  <2>7. HoldOf(t) => FitsHold(r, "moving", k, inc[tx[t].inc].open)
    BY <1>1, <2>1, <2>4 DEF HoldOf, FitsHold, Committing, Open
  <2>. HIDE DEF k
  <2>. QED BY <1>1, <1>2, <2>3, <2>6, <2>7, ActsTurning DEF Open, Committing
<1>. QED BY <1>3, <1>4, <1>5, IntendCases

LEMMA MoveActs ==
  ASSUME Works, NEW t \in Tx, Move(t)
  PROVE  Acts(t) /\ WorkTyped'
<1>1. pc[t] = "moving" /\ crossed' = crossed BY DEF Move
<1>2. /\ tx[t].inc \in Inc /\ tx[t].st = "swapping" /\ tx[t].st # "none" /\ tx[t] \in TxRec
  BY <1>1, PlaceFacts DEF Works, WorkTyped, PlaceOf
<1>3. Active(t) BY <1>2 DEF Active
<1>4. tx' = [tx EXCEPT ![t] = tx[t]] BY DEF Move, Works, WorkTyped
<1> DEFINE k == inc[tx[t].inc].st
<1>5. Turns(t, tx[t], "moved", k)
  BY <1>2, <1>4, IncStays DEF Turns, Gone, Place, Committing, Move, Works
<1>6. HoldOf(t) => FitsHold(tx[t], "moved", k, inc[tx[t].inc].open)
  BY <1>2 DEF HoldOf, FitsHold, Open
<1>7. FitsPlace(tx[t], "moved") BY <1>2 DEF FitsPlace, Open
<1>8. FitsBusy(tx[t], "moved", k, inc[tx[t].inc].open) BY DEF FitsBusy, Committing
<1>9. tx[t].inc \in crossed \/ HoldOf(t) BY <1>2 DEF Works, OwnInv
<1>. QED BY <1>1, <1>2, <1>3, <1>5, <1>6, <1>7, <1>8, <1>9, TurnsActs DEF Works

LEMMA BookActs ==
  ASSUME Works, epoch \in Nat, NEW t \in Tx, Book(t)
  PROVE  Acts(t) /\ WorkTyped'
<1>1. pc[t] = "moved" /\ crossed' = crossed BY DEF Book, history
<1>2. /\ tx[t].inc \in Inc /\ tx[t].st = "swapping" /\ tx[t].st # "none" /\ tx[t] \in TxRec
  BY <1>1, PlaceFacts DEF Works, WorkTyped, PlaceOf
<1>3. Active(t) BY <1>2 DEF Active
<1>4. PICK st \in {"committed", "partial"} :
        tx' = [tx EXCEPT ![t].st = st, ![t].after = epoch + 1]
  <2>1. PICK ok \in Written, told \in Written :
          tx' = [tx EXCEPT ![t].st = IF ok /\ told THEN "committed" ELSE "partial",
                              ![t].after = epoch + 1]
    BY DEF Book
  <2>2. CASE ok /\ told BY <2>1, <2>2
  <2>3. CASE ~(ok /\ told) BY <2>1, <2>3
  <2>. QED BY <2>2, <2>3
<1> DEFINE r == BookedAs(tx[t], st, epoch + 1)
<1>5. tx' = [tx EXCEPT ![t] = r] BY <1>2, <1>4 DEF BookedAs, Works, WorkTyped, TxRec
<1>6. st \in TxState /\ epoch + 1 \in Nat BY DEF TxState
<1>7. /\ r \in TxRec /\ r.st = st /\ r.closed = tx[t].closed /\ r.inc = tx[t].inc
      /\ r.from = tx[t].from /\ r.to = tx[t].to /\ r.auto = tx[t].auto
  BY <1>2, <1>6, BookedFields
<1>. HIDE DEF r
<1>8. inc' = [i \in Inc |-> IF i = tx[t].inc THEN IncTo(inc[i], "settling") ELSE inc[i]]
  BY DEF Book, Works, WorkTyped, IncTo
<1>9. Turns(t, r, "settle", "settling")
  BY <1>2, <1>5, <1>7, <1>8 DEF Turns, Gone, Place, IncState, Book
<1>10. HoldOf(t) => FitsHold(r, "settle", "settling", inc[tx[t].inc].open)
  BY <1>2, <1>7 DEF HoldOf, FitsHold, Open
<1>11. FitsPlace(r, "settle") BY <1>7 DEF FitsPlace, Open
<1>12. FitsBusy(r, "settle", "settling", inc[tx[t].inc].open) BY DEF FitsBusy
<1>13. tx[t].inc \in crossed \/ HoldOf(t) BY <1>2 DEF Works, OwnInv
<1>. QED BY <1>1, <1>2, <1>3, <1>9, <1>10, <1>11, <1>12, <1>13, TurnsActs DEF Works

-----------------------------------------------------------------------------
(* Steps that reach more than one transaction.                             *)

WorkInv == PlaceInv /\ OneOpen /\ OwnInv /\ NoOrphanedSwitching

\* Open transactions are withdrawn, with the incident they were moving.
Cuts ==
    /\ \A t \in Tx : \/ tx'[t] = tx[t]
                     \/ /\ tx[t].st \in Open /\ tx'[t].st = "cancelled"
                        /\ SameOwner(t) /\ \A i \in Inc : i = tx[t].inc => ~Busy(i)'
    /\ \A t \in Tx : \/ pc'[t] = pc[t]
                     \/ pc[t] = "waiting" /\ pc'[t] = "over" /\ tx'[t].st \notin Open
    /\ \A i \in Inc :
          /\ inc'[i].open = inc[i].open
          /\ \/ inc'[i].st = inc[i].st
             \/ /\ inc[i].st \in {"detected", "waiting-safe", "switching"}
                /\ inc'[i].st = "notify-stopped"
                /\ \A t \in Tx : tx[t].inc = i /\ (tx[t].st = "swapping" \/ tx'[t].st \in Open)
                                    => i \in crossed
    /\ crossed' = crossed

LEMMA CutsKeeps ==
  ASSUME WorkInv, Cuts
  PROVE  WorkInv' /\ GoneStays
<1>. USE DEF WorkInv
<1>1. \A t \in Tx : tx'[t].inc = tx[t].inc BY DEF Cuts, SameOwner
<1>2. PlaceInv'
  <2>. SUFFICES ASSUME NEW t \in Tx PROVE PlaceOf(t)' BY DEF PlaceInv
  <2>1. PlaceOf(t) BY DEF PlaceInv
  <2>2. \/ pc'[t] = pc[t]
        \/ pc[t] = "waiting" /\ pc'[t] = "over" /\ tx'[t].st \notin Open
    BY DEF Cuts
  <2>3. CASE tx'[t] = tx[t] BY <2>1, <2>2, <2>3 DEF PlaceOf, Swapped, Open
  <2>4. CASE tx[t].st \in Open /\ tx'[t].st = "cancelled"
    BY <1>1, <2>1, <2>2, <2>4 DEF PlaceOf, Swapped, Open
  <2>. QED BY <2>3, <2>4 DEF Cuts
<1>3. OneOpen' BY DEF OneOpen, OpenIncidents, Cuts
<1>4. OwnInv'
  <2>. SUFFICES ASSUME NEW t \in Tx, tx'[t].st # "none", tx'[t].inc \notin crossed'
                PROVE  HoldOf(t)' /\ \A u \in Tx \ {t} : ~Rivals(t, u)'
    BY DEF OwnInv
  <2>1. tx[t].st # "none" /\ tx[t].inc \notin crossed /\ tx[t].inc \in Inc
    BY <1>1 DEF Cuts, PlaceInv, PlaceOf, Open
  <2>2. HoldOf(t) /\ \A u \in Tx \ {t} : ~Rivals(t, u) BY <2>1 DEF OwnInv
  <2>3. \A u \in Tx : Active(u)' => Active(u) BY DEF Cuts, Active, Committing, Open
  <2>4. \A u \in Tx \ {t} : ~Rivals(t, u)' BY <1>1, <2>2, <2>3 DEF Rivals
  <2>5. CASE tx'[t].st = "cancelled" BY <2>4, <2>5 DEF HoldOf, Unsettled, Swapped, Open
  <2>6. CASE tx'[t] = tx[t]
    <3> DEFINE i == tx[t].inc
    <3>1. inc'[i].open = inc[i].open BY <2>1 DEF Cuts
    <3>2. \/ inc'[i].st = inc[i].st
          \/ /\ inc[i].st \in {"detected", "waiting-safe", "switching"}
             /\ tx[t].st # "swapping" /\ tx'[t].st \notin Open
      BY <2>1 DEF Cuts
    <3>3. tx[t].st \in Open => (pc'[t] \in Committing => pc[t] \in Committing)
      BY DEF Cuts, Committing
    <3>. QED BY <2>2, <2>4, <2>6, <3>1, <3>2, <3>3 DEF HoldOf, Unsettled, Swapped
  <2>. QED BY <2>5, <2>6 DEF Cuts
<1>5. NoOrphanedSwitching'
  <2>. SUFFICES ASSUME NEW i \in Inc, Busy(i)'
                PROVE  \E u \in TxsOf(i)' : Carries(u)'
    BY DEF NoOrphanedSwitching, OpenIncidents, Busy, Carries
  <2>1. Busy(i) BY DEF Busy, Cuts
  <2>2. PICK u \in TxsOf(i) : Carries(u)
    BY <2>1 DEF NoOrphanedSwitching, OpenIncidents, Busy, Carries
  <2>3. u \in Tx /\ tx[u].inc = i BY DEF TxsOf
  <2>4. tx'[u] = tx[u] BY <2>3 DEF Cuts
  <2>5. Carries(u)' BY <2>2, <2>3, <2>4 DEF Carries, Cuts, Committing
  <2>6. u \in TxsOf(i)' BY <2>4 DEF TxsOf
  <2>. QED BY <2>5, <2>6
<1>6. GoneStays BY DEF GoneStays, Gone, Cuts, Open
<1>. QED BY <1>2, <1>3, <1>4, <1>5, <1>6

\* The open incident j closes, and n is opened unless it is j.
ClosingTx(t, j) ==
    /\ SameOwner(t)
    /\ t \in TxsOf(j) /\ tx[t].st \in Open => tx'[t].st = "cancelled"
    /\ t \in TxsOf(j) /\ Unsettled(t) => tx'[t].st = tx[t].st /\ tx'[t].closed
    /\ ~(t \in TxsOf(j) /\ (tx[t].st \in Open \/ Unsettled(t))) => tx'[t] = tx[t]
ClosingPc(t, j) ==
    \/ pc'[t] = pc[t]
    \/ pc'[t] = "over" /\ (pc[t] = "settle" \/ (pc[t] = "waiting" /\ t \in TxsOf(j)))
Closes(j, n) ==
    /\ \A t \in Tx : ClosingTx(t, j) /\ ClosingPc(t, j)
    /\ inc[j].open /\ ~inc'[j].open
    /\ \A i \in Inc \ {j, n} : inc'[i] = inc[i]
    /\ n # j => inc[n].st = "none" /\ inc'[n].st \in {"detected", "notify-stopped"}
    /\ crossed \subseteq crossed'
    /\ \A t \in TxsOf(j) : tx[t].st = "swapping" => j \in crossed'

LEMMA ClosesKeeps ==
  ASSUME WorkInv, NEW j \in Inc, NEW n \in Inc, Closes(j, n)
  PROVE  WorkInv' /\ GoneStays
<1>. USE DEF WorkInv
<1>1. \A t \in Tx : tx'[t].inc = tx[t].inc BY DEF Closes, ClosingTx, SameOwner
<1>2. \A t \in Tx : \/ tx'[t].st = tx[t].st
                    \/ tx[t].st \in Open /\ tx'[t].st = "cancelled" /\ tx[t].inc = j
  BY DEF Closes, ClosingTx, TxsOf
<1>3. \A t \in Tx : tx[t].inc = j => tx'[t].st \notin Open
  <2>. SUFFICES ASSUME NEW t \in Tx, tx[t].inc = j PROVE tx'[t].st \notin Open
    OBVIOUS
  <2>1. CASE tx[t].st \in Open
    <3>1. t \in TxsOf(j) BY <2>1 DEF TxsOf, Open
    <3>2. tx'[t].st = "cancelled" BY <2>1, <3>1 DEF Closes, ClosingTx
    <3>. QED BY <3>2 DEF Open
  <2>2. CASE tx[t].st \notin Open BY <1>2, <2>2 DEF Open
  <2>. QED BY <2>1, <2>2
<1>4. PlaceInv'
  <2>. SUFFICES ASSUME NEW t \in Tx PROVE PlaceOf(t)' BY DEF PlaceInv
  <2>1. PlaceOf(t) /\ ClosingPc(t, j) BY DEF PlaceInv, Closes
  <2>2. CASE tx'[t].st = tx[t].st
    <3>1. CASE pc'[t] = pc[t] BY <1>1, <2>1, <2>2, <3>1 DEF PlaceOf, Swapped
    <3>2. CASE pc'[t] = "over" /\ pc[t] = "settle"
      BY <1>1, <2>1, <2>2, <3>2 DEF PlaceOf, Swapped, Open
    <3>3. CASE pc'[t] = "over" /\ pc[t] = "waiting" /\ t \in TxsOf(j)
      BY <1>1, <1>3, <2>1, <2>2, <3>3 DEF PlaceOf, Swapped, Open, TxsOf
    <3>. QED BY <2>1, <3>1, <3>2, <3>3 DEF ClosingPc
  <2>3. CASE tx[t].st \in Open /\ tx'[t].st = "cancelled"
    BY <1>1, <2>1, <2>3 DEF PlaceOf, Swapped, Open, ClosingPc
  <2>. QED BY <1>2, <2>2, <2>3
<1>5. \A i \in Inc : inc'[i].open => i = n /\ i # j
  BY DEF Closes, OneOpen, OpenIncidents
<1>6. OneOpen' BY <1>5 DEF OneOpen, OpenIncidents, Closes
<1>7. OwnInv'
  <2>. SUFFICES ASSUME NEW t \in Tx, tx'[t].st # "none", tx'[t].inc \notin crossed'
                PROVE  HoldOf(t)' /\ \A u \in Tx \ {t} : ~Rivals(t, u)'
    BY DEF OwnInv
  <2>1. tx[t].st # "none" /\ tx[t].inc \notin crossed /\ tx[t].inc \in Inc
    BY <1>1, <1>2 DEF Closes, PlaceInv, PlaceOf, Open
  <2>2. HoldOf(t) /\ \A u \in Tx \ {t} : ~Rivals(t, u) BY <2>1 DEF OwnInv
  <2>3. \A u \in Tx : pc'[u] \in Committing => pc[u] \in Committing
    BY DEF Closes, ClosingPc, Committing
  <2>4. \A u \in Tx : Active(u)' => Active(u) BY <1>2, <2>3 DEF Active, Open
  <2>5. \A u \in Tx \ {t} : ~Rivals(t, u)' BY <1>1, <2>2, <2>4 DEF Rivals
  <2>6. CASE tx[t].inc = j
    <3>1. tx'[t].st \notin Open BY <1>3, <2>6
    <3>2. tx'[t].st # "swapping"
      <4>. SUFFICES ASSUME tx'[t].st = "swapping" PROVE FALSE OBVIOUS
      <4>1. tx[t].st = "swapping" BY <1>2
      <4>2. t \in TxsOf(j) BY <2>6, <4>1 DEF TxsOf
      <4>. QED BY <1>1, <2>6, <4>1, <4>2 DEF Closes
    <3>3. ~Unsettled(t)'
      <4>1. Unsettled(t)' => Unsettled(t) /\ t \in TxsOf(j)
        BY <1>2, <2>6 DEF Unsettled, Swapped, TxsOf, Closes, ClosingTx
      <4>2. tx[t].st \in Open => ~Unsettled(t) BY DEF Unsettled, Swapped, Open
      <4>. QED BY <4>1, <4>2 DEF Closes, ClosingTx, Unsettled
    <3>. QED BY <2>5, <3>1, <3>2, <3>3 DEF HoldOf
  <2>7. CASE tx[t].inc # j
    <3>1. tx'[t] = tx[t] BY <2>7 DEF Closes, ClosingTx, TxsOf
    <3>2. CASE tx[t].inc # n
      <4>1. inc'[tx[t].inc] = inc[tx[t].inc] BY <2>1, <2>7, <3>2 DEF Closes
      <4>. QED BY <2>2, <2>3, <2>5, <3>1, <4>1 DEF HoldOf, Unsettled, Swapped
    <3>3. CASE tx[t].inc = n
      <4>1. ~inc[n].open /\ inc[n].st = "none"
        BY <2>7, <3>3 DEF Closes, OneOpen, OpenIncidents
      <4>2. tx[t].st \notin Open /\ tx[t].st # "swapping" /\ ~Unsettled(t)
        BY <2>2, <3>3, <4>1 DEF HoldOf
      <4>. QED BY <2>5, <3>1, <4>2 DEF HoldOf, Unsettled, Swapped
    <3>. QED BY <3>2, <3>3
  <2>. QED BY <2>6, <2>7
<1>8. NoOrphanedSwitching'
  BY <1>5 DEF NoOrphanedSwitching, OpenIncidents, Closes
<1>9. GoneStays BY <1>2 DEF GoneStays, Gone
<1>. QED BY <1>4, <1>6, <1>7, <1>8, <1>9
\* An incident opens while none is open.
Opens(n) ==
    /\ UNCHANGED <<tx, pc>>
    /\ OpenIncidents = {}
    /\ \A i \in Inc \ {n} : inc'[i] = inc[i]
    /\ inc[n].st = "none" /\ inc'[n].st \in {"detected", "notify-stopped"}
    /\ crossed \subseteq crossed'

LEMMA OpensKeeps ==
  ASSUME WorkInv, NEW n \in Inc, Opens(n)
  PROVE  WorkInv' /\ GoneStays
<1>. USE DEF WorkInv, Opens
<1>1. PlaceInv' BY DEF PlaceInv, PlaceOf, Swapped
<1>2. \A i \in Inc : inc'[i].open => i = n BY DEF OpenIncidents
<1>3. OneOpen' BY <1>2 DEF OneOpen, OpenIncidents
<1>4. OwnInv'
  <2>. SUFFICES ASSUME NEW t \in Tx, tx'[t].st # "none", tx'[t].inc \notin crossed'
                PROVE  HoldOf(t)' /\ \A u \in Tx \ {t} : ~Rivals(t, u)'
    BY DEF OwnInv
  <2>1. tx[t].inc \in Inc /\ HoldOf(t) /\ \A u \in Tx \ {t} : ~Rivals(t, u)
    BY DEF OwnInv, PlaceInv, PlaceOf
  <2>2. \A u \in Tx \ {t} : ~Rivals(t, u)' BY <2>1 DEF Rivals, Active
  <2>3. ~inc[tx[t].inc].open BY <2>1 DEF OpenIncidents
  <2>4. tx[t].st \notin Open /\ tx[t].st # "swapping" /\ ~Unsettled(t)
    BY <2>1, <2>3 DEF HoldOf
  <2>. QED BY <2>2, <2>4 DEF HoldOf, Unsettled, Swapped
<1>5. NoOrphanedSwitching' BY <1>2 DEF NoOrphanedSwitching, OpenIncidents
<1>6. GoneStays BY DEF GoneStays
<1>. QED BY <1>1, <1>3, <1>4, <1>5, <1>6

\* A fresh transaction is asked for, on an open incident.
Asks(t, i) ==
    /\ tx[t].st = "none" /\ tx'[t].st = "asked" /\ tx'[t].inc = i
    /\ pc'[t] \in {"asked", "attempted"}
    /\ \A u \in Tx \ {t} : tx'[u] = tx[u] /\ pc'[u] = pc[u]
    /\ \A j \in Inc : inc'[j].open = inc[j].open /\ inc'[j].st = inc[j].st
    /\ crossed \subseteq crossed' /\ (Crossing(i) => i \in crossed')

LEMMA AsksKeeps ==
  ASSUME WorkInv, NEW t \in Tx, NEW i \in Inc, Asks(t, i)
  PROVE  WorkInv' /\ GoneStays
<1>. USE DEF WorkInv, Asks
<1>1. PlaceInv'
  <2>1. PlaceOf(t)' BY DEF PlaceOf, Open, Swapped
  <2>2. \A u \in Tx \ {t} : PlaceOf(u)' BY DEF PlaceInv, PlaceOf, Swapped
  <2>. QED BY <2>1, <2>2 DEF PlaceInv
<1>2. OneOpen' BY DEF OneOpen, OpenIncidents
<1>3. OwnInv'
  <2>. SUFFICES ASSUME NEW u \in Tx, tx'[u].st # "none", tx'[u].inc \notin crossed'
                PROVE  HoldOf(u)' /\ \A w \in Tx \ {u} : ~Rivals(u, w)'
    BY DEF OwnInv
  <2>1. \A w \in Tx : tx[w].inc = i /\ i \notin crossed' => ~Active(w)
    <3>. SUFFICES ASSUME NEW w \in Tx, tx[w].inc = i, i \notin crossed', Active(w) PROVE FALSE
      OBVIOUS
    <3>1. ~Crossing(i) OBVIOUS
    <3>2. PlaceOf(w) BY DEF PlaceInv
    <3>3. tx[w].st \notin Open \cup {"asked"} /\ ~Swapped(w) /\ pc[w] \notin Committing
      BY <3>1 DEF Crossing
    <3>. QED BY <3>2, <3>3 DEF Active, PlaceOf, Swapped, Committing
  <2>2. CASE u = t
    <3>1. HoldOf(u)' BY <2>2 DEF HoldOf, Unsettled, Swapped, Open
    <3>2. \A w \in Tx \ {u} : ~Rivals(u, w)' BY <2>1, <2>2 DEF Rivals, Active
    <3>. QED BY <3>1, <3>2
  <2>3. CASE u # t
    <3>1. /\ tx[u].inc \in Inc /\ HoldOf(u) /\ tx'[u] = tx[u] /\ pc'[u] = pc[u]
          /\ \A w \in Tx \ {u} : ~Rivals(u, w)
      BY <2>3 DEF OwnInv, PlaceInv, PlaceOf
    <3>2. HoldOf(u)' BY <3>1 DEF HoldOf, Unsettled, Swapped
    <3>3. ~Rivals(u, t)' BY <2>1, <3>1 DEF Rivals, Active
    <3>4. \A w \in Tx \ {u, t} : ~Rivals(u, w)' BY <3>1 DEF Rivals, Active
    <3>. QED BY <3>2, <3>3, <3>4
  <2>. QED BY <2>2, <2>3
<1>4. NoOrphanedSwitching'
  <2>. SUFFICES ASSUME NEW j \in Inc, Busy(j)'
                PROVE  \E u \in TxsOf(j)' : Carries(u)'
    BY DEF NoOrphanedSwitching, OpenIncidents, Busy, Carries
  <2>1. PICK u \in TxsOf(j) : Carries(u)
    BY DEF NoOrphanedSwitching, OpenIncidents, Busy, Carries
  <2>2. u # t /\ u \in Tx BY <2>1 DEF TxsOf
  <2>3. u \in TxsOf(j)' /\ Carries(u)' BY <2>1, <2>2 DEF TxsOf, Carries
  <2>. QED BY <2>3
<1>5. GoneStays BY DEF GoneStays, Gone
<1>. QED BY <1>1, <1>2, <1>3, <1>4, <1>5

\* Nothing is moved on: a request is dropped, an incident that nobody carries is
\* given up, a settle timer goes off, a transaction is marked closed.
RestingTx(t) ==
    \/ /\ tx'[t].st = tx[t].st /\ tx'[t].inc = tx[t].inc /\ (tx[t].closed => tx'[t].closed)
       /\ pc'[t] = pc[t] \/ (pc[t] = "settle" /\ pc'[t] = "over")
    \/ tx[t].st = "asked" /\ tx'[t].st = "none" /\ pc'[t] = "over"
GivenUp(i) == inc'[i].st = "notify-stopped" /\ (i \in crossed' \/ ~Crossing(i)')
Rests ==
    /\ \A t \in Tx : RestingTx(t)
    /\ \A i \in Inc : /\ inc'[i].open = inc[i].open
                      /\ inc'[i].st = inc[i].st \/ GivenUp(i)
    /\ crossed \subseteq crossed'

LEMMA RestsKeeps ==
  ASSUME WorkInv, \A t \in Tx : tx'[t].closed \in BOOLEAN, Rests
  PROVE  WorkInv' /\ GoneStays
<1>. USE DEF WorkInv, Rests
<1>1. PlaceInv'
  <2>. SUFFICES ASSUME NEW t \in Tx PROVE PlaceOf(t)' BY DEF PlaceInv
  <2>1. PlaceOf(t) /\ RestingTx(t) BY DEF PlaceInv
  <2>2. CASE tx'[t].st = tx[t].st /\ tx'[t].inc = tx[t].inc /\ pc'[t] = pc[t]
    BY <2>1, <2>2 DEF PlaceOf, Swapped
  <2>3. CASE tx'[t].st = tx[t].st /\ tx'[t].inc = tx[t].inc /\ pc[t] = "settle" /\ pc'[t] = "over"
    BY <2>1, <2>3 DEF PlaceOf, Swapped, Open
  <2>4. CASE tx'[t].st = "none" /\ pc'[t] = "over"
    BY <2>4 DEF PlaceOf, Swapped, Open
  <2>. QED BY <2>1, <2>2, <2>3, <2>4 DEF RestingTx
<1>2. OneOpen' BY DEF OneOpen, OpenIncidents, GivenUp
<1>3. OwnInv'
  <2>. SUFFICES ASSUME NEW t \in Tx, tx'[t].st # "none", tx'[t].inc \notin crossed'
                PROVE  HoldOf(t)' /\ \A u \in Tx \ {t} : ~Rivals(t, u)'
    BY DEF OwnInv
  <2>1. /\ tx'[t].st = tx[t].st /\ tx'[t].inc = tx[t].inc /\ (tx[t].closed => tx'[t].closed)
        /\ pc'[t] \in Committing => pc[t] \in Committing
    BY DEF RestingTx, Committing
  <2>2. HoldOf(t) /\ (\A u \in Tx \ {t} : ~Rivals(t, u)) /\ tx[t].inc \in Inc
    BY <2>1 DEF OwnInv, PlaceInv, PlaceOf
  <2>3. \A u \in Tx \ {t} : ~Rivals(t, u)'
    <3>. SUFFICES ASSUME NEW u \in Tx \ {t}, Rivals(t, u)' PROVE FALSE OBVIOUS
    <3>1. RestingTx(u) OBVIOUS
    <3>2. tx'[u].st # "none" \/ pc'[u] # "over" BY DEF Rivals, Active, Committing, Open
    <3>3. tx'[u].st = tx[u].st /\ tx'[u].inc = tx[u].inc
          /\ (pc'[u] \in Committing => pc[u] \in Committing)
      BY <3>1, <3>2, <1>1 DEF RestingTx, Committing, PlaceInv, PlaceOf, Rivals, Active, Open
    <3>. QED BY <2>1, <2>2, <3>3 DEF Rivals, Active
  <2> DEFINE i == tx[t].inc
  <2>4. CASE inc'[i].st = inc[i].st
    <3>1. Unsettled(t)' => Unsettled(t) BY <2>1 DEF Unsettled, Swapped
    <3>. QED BY <2>1, <2>2, <2>3, <2>4, <3>1 DEF HoldOf
  <2>5. CASE GivenUp(i)
    <3>1. ~Crossing(i)' BY <2>1, <2>5 DEF GivenUp
    <3>2. tx'[t].st \notin Open /\ ~Swapped(t)' /\ pc'[t] \notin Committing
      BY <2>1, <3>1 DEF Crossing
    <3>3. tx'[t].st # "swapping" BY <1>1, <3>2 DEF PlaceInv, PlaceOf, Committing
    <3>. QED BY <2>3, <3>2, <3>3 DEF HoldOf, Unsettled
  <2>. QED BY <2>2, <2>4, <2>5
<1>4. NoOrphanedSwitching'
  <2>. SUFFICES ASSUME NEW i \in Inc, Busy(i)'
                PROVE  \E u \in TxsOf(i)' : Carries(u)'
    BY DEF NoOrphanedSwitching, OpenIncidents, Busy, Carries
  <2>1. Busy(i) BY DEF Busy, GivenUp
  <2>2. PICK u \in TxsOf(i) : Carries(u)
    BY <2>1 DEF NoOrphanedSwitching, OpenIncidents, Busy, Carries
  <2>3. u \in Tx /\ tx[u].inc = i /\ tx[u].st \notin {"none", "asked"} BY DEF TxsOf
  <2>4. tx'[u].st = tx[u].st /\ tx'[u].inc = i /\ (pc'[u] = pc[u] \/ pc[u] = "settle")
    BY <2>3 DEF RestingTx
  <2>5. Carries(u)' /\ u \in TxsOf(i)' BY <2>2, <2>3, <2>4 DEF Carries, TxsOf, Committing
  <2>. QED BY <2>5
<1>5. GoneStays BY DEF GoneStays, Gone, RestingTx
<1>. QED BY <1>1, <1>2, <1>3, <1>4, <1>5

LEMMA ClosedTxsClosing ==
  ASSUME WorkTyped, NEW j \in Inc, tx' = ClosedTxs(j)
  PROVE  \A t \in Tx : ClosingTx(t, j)
<1>. SUFFICES ASSUME NEW t \in Tx PROVE ClosingTx(t, j) OBVIOUS
<1>1. tx'[t] = CASE t \in TxsOf(j) /\ tx[t].st \in Open -> TxTo(tx[t], "cancelled", TRUE)
                 [] t \in TxsOf(j) /\ Unsettled(t) -> [tx[t] EXCEPT !.closed = TRUE]
                 [] OTHER -> tx[t]
  BY DEF ClosedTxs, TxTo
<1>2. tx[t] \in TxRec /\ "cancelled" \in TxState BY DEF WorkTyped, TxState
<1>3. ~(tx[t].st \in Open /\ Unsettled(t)) BY DEF Open, Unsettled, Swapped
<1>4. CASE t \in TxsOf(j) /\ tx[t].st \in Open
  <2>1. tx'[t] = TxTo(tx[t], "cancelled", TRUE) BY <1>1, <1>3, <1>4
  <2> DEFINE q == TxTo(tx[t], "cancelled", TRUE)
  <2>2. /\ q.st = "cancelled" /\ q.inc = tx[t].inc /\ q.from = tx[t].from /\ q.to = tx[t].to
        /\ q.auto = tx[t].auto
    BY <1>2, TxFields
  <2>. HIDE DEF q
  <2>3. tx'[t].st = "cancelled" /\ SameOwner(t) BY <2>1, <2>2 DEF q, SameOwner
  <2>. QED BY <1>3, <1>4, <2>3 DEF ClosingTx
<1>5. CASE t \in TxsOf(j) /\ Unsettled(t)
  <2>1. tx'[t] = [tx[t] EXCEPT !.closed = TRUE] BY <1>1, <1>3, <1>5
  <2>2. tx'[t].st = tx[t].st /\ tx'[t].closed /\ SameOwner(t)
    BY <1>2, <2>1 DEF SameOwner, TxRec
  <2>. QED BY <1>3, <1>5, <2>2 DEF ClosingTx
<1>6. CASE ~(t \in TxsOf(j) /\ (tx[t].st \in Open \/ Unsettled(t)))
  <2>1. tx'[t] = tx[t] BY <1>1, <1>6
  <2>. QED BY <1>6, <2>1 DEF ClosingTx, SameOwner
<1>. QED BY <1>4, <1>5, <1>6

LEMMA ClosedPcsClosing ==
  ASSUME NEW j \in Inc, pc' = ClosedPcs(j)
  PROVE  \A t \in Tx : ClosingPc(t, j)
BY DEF ClosedPcs, ClosingPc

LEMMA SettledFields ==
  ASSUME WorkTyped, NEW j \in Inc, NEW how \in IncState
  PROVE  Settled(j, how) \in IncRec /\ ~Settled(j, how).open
BY DEF WorkTyped, Settled, IncRec

LEMMA ReportWorks ==
  ASSUME WorkTyped, WorkInv, epoch \in Nat, NEW i \in Inc, NEW s \in Slot, NEW e \in 0..epoch,
         Report(i, s, e)
  PROVE  WorkInv' /\ WorkTyped' /\ GoneStays
<1> DEFINE q == [BlankInc EXCEPT !.st = IF Chained(s) THEN "notify-stopped" ELSE "detected",
                                     !.open = TRUE, !.out = s, !.epoch = e,
                                     !.due = ~Chained(s) /\ policy = "auto"]
<1>1. /\ q.st \in {"detected", "notify-stopped"} /\ q \in IncRec
  <2> DEFINE st == IF Chained(s) THEN "notify-stopped" ELSE "detected"
             due == (~Chained(s) /\ policy = "auto")
  <2>1. st \in {"detected", "notify-stopped"} /\ due \in BOOLEAN OBVIOUS
  <2>2. q = [BlankInc EXCEPT !.st = st, !.open = TRUE, !.out = s, !.epoch = e, !.due = due]
    OBVIOUS
  <2>3. e \in Nat BY DEF WorkTyped
  <2>. HIDE DEF q, st, due
  <2>. QED BY <2>1, <2>2, <2>3, QuotaAssumption DEF BlankInc, IncRec, IncState
<1>2. inc' = [j \in Inc |-> CASE j = i -> q
                      [] j \in OpenIncidents -> Settled(j, "notify-stopped")
                      [] OTHER -> inc[j]]
  BY DEF Report
<1>. HIDE DEF q
<1>3. i \notin OpenIncidents /\ inc[i].st = "none"
  BY DEF Report, WorkInv, OneOpen
<1>4. /\ inc'[i] = q
      /\ \A j \in OpenIncidents : inc'[j] = Settled(j, "notify-stopped")
      /\ \A j \in Inc : j # i /\ j \notin OpenIncidents => inc'[j] = inc[j]
  BY <1>2, <1>3 DEF OpenIncidents
<1>5. "notify-stopped" \in IncState BY DEF IncState
<1>6. inc' \in [Inc -> IncRec]
  <2>1. \A j \in Inc : inc'[j] \in IncRec
    BY <1>1, <1>4, <1>5, SettledFields DEF WorkTyped, OpenIncidents
  <2>. QED BY <1>2, <2>1
<1>7. crossed \subseteq crossed' BY DEF Report
<1>8. CASE OpenIncidents = {}
  <2>1. UNCHANGED <<tx, pc>> BY <1>8 DEF Report
  <2>2. Opens(i) BY <1>1, <1>3, <1>4, <1>7, <1>8, <2>1 DEF Opens
  <2>. QED BY <1>6, <2>1, <2>2, OpensKeeps DEF WorkTyped
<1>9. CASE OpenIncidents # {}
  <2>1. PICK j \in OpenIncidents : tx' = ClosedTxs(j) /\ pc' = ClosedPcs(j)
    BY <1>9 DEF Report
  <2>2. j \in Inc /\ j # i /\ inc[j].open BY <1>3 DEF OpenIncidents
  <2>3. \A k \in OpenIncidents : k = j BY <2>1 DEF WorkInv, OneOpen
  <2>4. ~inc'[j].open BY <1>4, <1>5, <2>1, <2>2, SettledFields
  <2>5. \A k \in Inc \ {j, i} : inc'[k] = inc[k] BY <1>4, <2>3
  <2>6. \A t \in TxsOf(j) : tx[t].st = "swapping" => j \in crossed'
    <3>. SUFFICES ASSUME NEW t \in TxsOf(j), tx[t].st = "swapping" PROVE j \in crossed'
      OBVIOUS
    <3>1. pc[t] \in Committing
      BY DEF TxsOf, WorkInv, PlaceInv, PlaceOf, Committing
    <3>. QED BY <2>1, <3>1 DEF Report
  <2>7. \A t \in Tx : ClosingTx(t, j) /\ ClosingPc(t, j)
    BY <2>1, <2>2, ClosedTxsClosing, ClosedPcsClosing
  <2>8. Closes(j, i) BY <1>1, <1>3, <1>4, <1>7, <2>2, <2>4, <2>5, <2>6, <2>7 DEF Closes
  <2>9. tx' \in [Tx -> TxRec] /\ pc' \in [Tx -> Place] BY <2>1, <2>2, ClosedTyped
  <2>. QED BY <1>6, <2>2, <2>8, <2>9, ClosesKeeps DEF WorkTyped
<1>. QED BY <1>8, <1>9

\* Evidence and recovery close an incident on its own.

LEMMA SettledWorks ==
  ASSUME WorkTyped, WorkInv, NEW j \in Inc, inc[j].open, inc[j].st # "switching",
         NEW how \in IncState, tx' = ClosedTxs(j), inc' = [inc EXCEPT ![j] = Settled(j, how)],
         \A t \in Tx : ClosingPc(t, j), pc' \in [Tx -> Place], crossed' = crossed
  PROVE  WorkInv' /\ WorkTyped' /\ GoneStays
<1>1. inc'[j] = Settled(j, how) /\ \A k \in Inc \ {j} : inc'[k] = inc[k] BY DEF WorkTyped
<1>2. inc' \in [Inc -> IncRec] /\ ~inc'[j].open BY <1>1, SettledFields DEF WorkTyped
<1>3. \A t \in TxsOf(j) : tx[t].st = "swapping" => j \in crossed'
  <2>. SUFFICES ASSUME NEW t \in TxsOf(j), tx[t].st = "swapping", j \notin crossed PROVE FALSE
    OBVIOUS
  <2>1. HoldOf(t) /\ tx[t].inc = j BY DEF TxsOf, WorkInv, OwnInv
  <2>. QED BY <2>1 DEF HoldOf
<1>4. Closes(j, j) BY <1>1, <1>2, <1>3, ClosedTxsClosing DEF Closes
<1>5. tx' \in [Tx -> TxRec] BY ClosedTyped
<1>. QED BY <1>2, <1>4, <1>5, ClosesKeeps DEF WorkTyped

LEMMA StaleTimerWorks ==
  ASSUME WorkTyped, WorkInv, NEW t \in Tx, pc[t] = "settle", pc' = [pc EXCEPT ![t] = "over"],
         UNCHANGED <<tx, inc>>, crossed' = crossed
  PROVE  WorkInv' /\ WorkTyped' /\ GoneStays
<1>1. WorkTyped' BY DEF WorkTyped, Place
<1>2. \A u \in Tx : tx'[u].closed \in BOOLEAN BY <1>1 DEF WorkTyped, TxRec
<1>3. Rests BY DEF Rests, RestingTx, WorkTyped
<1>. QED BY <1>1, <1>2, <1>3, RestsKeeps

LEMMA SettleTimeoutWorks ==
  ASSUME WorkTyped, WorkInv, NEW t \in Tx, SettleTimeout(t)
  PROVE  WorkInv' /\ WorkTyped' /\ GoneStays
<1> DEFINE i == tx[t].inc
<1>1. pc[t] = "settle" /\ crossed' = crossed /\ pc' = [pc EXCEPT ![t] = "over"]
  BY DEF SettleTimeout, history
<1>2. CASE inc[i].open /\ inc[i].st = "settling"
  <2>1. i \in Inc BY <1>1, PlaceFacts DEF WorkInv
  <2>2. tx' = ClosedTxs(i) /\ inc' = [inc EXCEPT ![i] = Settled(i, "notify-stopped")]
    BY <1>2 DEF SettleTimeout
  <2>3. \A u \in Tx : ClosingPc(u, i) BY <1>1 DEF ClosingPc, WorkTyped
  <2>4. pc' \in [Tx -> Place] BY <1>1 DEF WorkTyped, Place
  <2>5. "notify-stopped" \in IncState /\ inc[i].st # "switching" BY <1>2 DEF IncState
  <2>. HIDE DEF i
  <2>. QED BY <1>1, <1>2, <2>1, <2>2, <2>3, <2>4, <2>5, SettledWorks
<1>3. CASE ~(inc[i].open /\ inc[i].st = "settling")
  <2>1. UNCHANGED <<tx, inc>> BY <1>3 DEF SettleTimeout
  <2>. QED BY <1>1, <2>1, StaleTimerWorks
<1>. QED BY <1>2, <1>3

LEMMA EvidenceWorks ==
  ASSUME WorkTyped, WorkInv, NEW t \in Tx, Evidence(t)
  PROVE  WorkInv' /\ WorkTyped' /\ GoneStays
<1> DEFINE i == tx[t].inc
<1>1. /\ Swapped(t) /\ inc[i].open /\ inc[i].st = "settling"
      /\ tx' = ClosedTxs(i) /\ pc' = [pc EXCEPT ![t] = IF @ = "settle" THEN "over" ELSE @]
      /\ crossed' = crossed
  BY DEF Evidence, history
<1>2. PICK how \in {"ready", "notify-stopped"} : inc' = [inc EXCEPT ![i] = Settled(i, how)]
  BY DEF Evidence
<1>3. i \in Inc BY <1>1, PlaceFacts DEF WorkInv, Swapped
<1>4. how \in IncState /\ inc[i].st # "switching" BY <1>1 DEF IncState
<1>5. \A u \in Tx : ClosingPc(u, i) BY <1>1 DEF ClosingPc, WorkTyped
<1>6. pc' \in [Tx -> Place] BY <1>1 DEF WorkTyped, Place
<1>. HIDE DEF i
<1>. QED BY <1>1, <1>2, <1>3, <1>4, <1>5, <1>6, SettledWorks

LEMMA RecoveredWorks ==
  ASSUME WorkTyped, WorkInv, NEW i \in Inc, Recovered(i)
  PROVE  WorkInv' /\ WorkTyped' /\ GoneStays
<1>1. /\ inc[i].open /\ inc[i].st # "switching" /\ inc' = [inc EXCEPT ![i] = Settled(i, "ready")]
      /\ tx' = ClosedTxs(i) /\ pc' = ClosedPcs(i) /\ crossed' = crossed
  BY DEF Recovered, history
<1>2. "ready" \in IncState BY DEF IncState
<1>. QED BY <1>1, <1>2, ClosedPcsClosing, ClosedTyped, SettledWorks

LEMMA WithdrawWorks ==
  ASSUME WorkTyped, WorkInv, NEW T \in SUBSET {t \in Tx : tx[t].st \in Open}, Withdraw(T),
         crossed' = crossed
  PROVE  WorkInv' /\ WorkTyped' /\ GoneStays
<1>1. T \in SUBSET Tx /\ \A t \in T : tx[t].st \in Open OBVIOUS
<1>2. /\ tx' = [t \in Tx |-> IF t \in T THEN TxTo(tx[t], "cancelled", TRUE) ELSE tx[t]]
      /\ pc' = [t \in Tx |-> IF t \in T /\ pc[t] = "waiting" THEN "over" ELSE pc[t]]
      /\ inc' = [i \in Inc |->
               IF inc[i].open /\ inc[i].st \in {"detected", "waiting-safe", "switching"}
                  /\ \E t \in T : tx[t].inc = i
               THEN IncTo(inc[i], "notify-stopped") ELSE inc[i]]
  BY <1>1, WithdrawIs
<1>3. "cancelled" \in TxState /\ "notify-stopped" \in IncState BY DEF TxState, IncState
<1>4. \A t \in Tx : LET q == TxTo(tx[t], "cancelled", TRUE) IN
         /\ q \in TxRec /\ q.st = "cancelled" /\ q.inc = tx[t].inc /\ q.from = tx[t].from
         /\ q.to = tx[t].to /\ q.auto = tx[t].auto
  <2>. SUFFICES ASSUME NEW t \in Tx
                PROVE LET q == TxTo(tx[t], "cancelled", TRUE) IN
                      /\ q \in TxRec /\ q.st = "cancelled" /\ q.inc = tx[t].inc
                      /\ q.from = tx[t].from /\ q.to = tx[t].to /\ q.auto = tx[t].auto
    OBVIOUS
  <2>1. tx[t] \in TxRec BY DEF WorkTyped
  <2>. QED BY <1>3, <2>1, TxFields
<1>5. \A i \in Inc : LET q == IncTo(inc[i], "notify-stopped") IN
         q \in IncRec /\ q.st = "notify-stopped" /\ q.open = inc[i].open
  BY <1>3, IncFields DEF WorkTyped
<1>6. \A t \in Tx : tx'[t] = IF t \in T THEN TxTo(tx[t], "cancelled", TRUE) ELSE tx[t]
  BY <1>2
<1>7. \A i \in Inc : inc'[i] = IF inc[i].open /\ inc[i].st \in {"detected", "waiting-safe", "switching"}
                  /\ \E t \in T : tx[t].inc = i
               THEN IncTo(inc[i], "notify-stopped") ELSE inc[i]
  BY <1>2
<1>8. \A t \in Tx : pc'[t] = IF t \in T /\ pc[t] = "waiting" THEN "over" ELSE pc[t]
  BY <1>2
<1>9. WorkTyped'
  <2>1. \A t \in Tx : tx'[t] \in TxRec BY <1>4, <1>6 DEF WorkTyped
  <2>2. \A i \in Inc : inc'[i] \in IncRec BY <1>5, <1>7 DEF WorkTyped
  <2>3. \A t \in Tx : pc'[t] \in Place BY <1>8 DEF WorkTyped, Place
  <2>. QED BY <1>2, <2>1, <2>2, <2>3 DEF WorkTyped
<1>10. \A t \in T : tx'[t].st = "cancelled" /\ SameOwner(t)
  BY <1>1, <1>4, <1>6 DEF SameOwner
<1>11. \A t \in T : \A i \in Inc : i = tx[t].inc => ~Busy(i)'
  BY <1>5, <1>7 DEF Busy
<1>12. ASSUME NEW i \in Inc, inc[i].open, NEW u \in T, tx[u].inc = i,
              NEW t \in Tx, tx[t].inc = i, tx[t].st = "swapping" \/ tx'[t].st \in Open,
              i \notin crossed
       PROVE  FALSE
  <2>1. t \notin T BY <1>1, <1>10, <1>12 DEF Open
  <2>2. tx'[t] = tx[t] BY <1>6, <2>1
  <2>3. Active(t) /\ Active(u) BY <1>1, <1>12, <2>2 DEF Active
  <2>4. tx[t].st # "none" BY <1>12, <2>2 DEF Open
  <2>. QED BY <1>1, <1>12, <2>1, <2>3, <2>4 DEF WorkInv, OwnInv, Rivals
<1>13. Cuts
  <2>1. \A t \in Tx : \/ tx'[t] = tx[t]
                      \/ /\ tx[t].st \in Open /\ tx'[t].st = "cancelled"
                         /\ SameOwner(t) /\ \A i \in Inc : i = tx[t].inc => ~Busy(i)'
    BY <1>1, <1>6, <1>10, <1>11
  <2>2. \A t \in Tx : \/ pc'[t] = pc[t]
                      \/ pc[t] = "waiting" /\ pc'[t] = "over" /\ tx'[t].st \notin Open
    BY <1>8, <1>10 DEF Open
  <2>3. \A i \in Inc :
          /\ inc'[i].open = inc[i].open
          /\ \/ inc'[i].st = inc[i].st
             \/ /\ inc[i].st \in {"detected", "waiting-safe", "switching"}
                /\ inc'[i].st = "notify-stopped"
                /\ \A t \in Tx : tx[t].inc = i /\ (tx[t].st = "swapping" \/ tx'[t].st \in Open)
                                    => i \in crossed
    BY <1>5, <1>7, <1>12
  <2>. QED BY <2>1, <2>2, <2>3 DEF Cuts
<1>. QED BY <1>9, <1>13, CutsKeeps

LEMMA ManualDoneWorks ==
  ASSUME WorkTyped, WorkInv, \A t \in Tx : tx[t].st # "swapping", ManualDone
  PROVE  WorkInv' /\ WorkTyped' /\ GoneStays
<1>1. /\ tx' = [t \in Tx |-> IF tx[t].st \in Open THEN TxTo(tx[t], "cancelled", TRUE) ELSE tx[t]]
      /\ inc' = [i \in Inc |->
               IF inc[i].open /\ inc[i].st \in {"detected", "waiting-safe", "switching"}
               THEN IncTo(inc[i], "notify-stopped") ELSE inc[i]]
      /\ pc' = [t \in Tx |-> IF pc[t] = "waiting" THEN "over" ELSE pc[t]]
      /\ crossed' = crossed
  BY Zenon DEF ManualDone, TxTo, IncTo, history
<1>3. "cancelled" \in TxState /\ "notify-stopped" \in IncState BY DEF TxState, IncState
<1>4. \A t \in Tx : LET q == TxTo(tx[t], "cancelled", TRUE) IN
         /\ q \in TxRec /\ q.st = "cancelled" /\ q.inc = tx[t].inc /\ q.from = tx[t].from
         /\ q.to = tx[t].to /\ q.auto = tx[t].auto
  <2>. SUFFICES ASSUME NEW t \in Tx
                PROVE LET q == TxTo(tx[t], "cancelled", TRUE) IN
                      /\ q \in TxRec /\ q.st = "cancelled" /\ q.inc = tx[t].inc
                      /\ q.from = tx[t].from /\ q.to = tx[t].to /\ q.auto = tx[t].auto
    OBVIOUS
  <2>1. tx[t] \in TxRec BY DEF WorkTyped
  <2>. QED BY <1>3, <2>1, TxFields
<1>5. \A i \in Inc : LET q == IncTo(inc[i], "notify-stopped") IN
         q \in IncRec /\ q.st = "notify-stopped" /\ q.open = inc[i].open
  BY <1>3, IncFields DEF WorkTyped
<1>6. \A t \in Tx : tx'[t] = IF tx[t].st \in Open THEN TxTo(tx[t], "cancelled", TRUE) ELSE tx[t]
  BY <1>1
<1>7. \A i \in Inc : inc'[i] = IF inc[i].open /\ inc[i].st \in {"detected", "waiting-safe", "switching"}
               THEN IncTo(inc[i], "notify-stopped") ELSE inc[i]
  BY <1>1
<1>8. \A t \in Tx : pc'[t] = IF pc[t] = "waiting" THEN "over" ELSE pc[t]
  BY <1>1
<1>9. WorkTyped'
  <2>1. \A t \in Tx : tx'[t] \in TxRec BY <1>4, <1>6 DEF WorkTyped
  <2>2. \A i \in Inc : inc'[i] \in IncRec BY <1>5, <1>7 DEF WorkTyped
  <2>3. \A t \in Tx : pc'[t] \in Place BY <1>8 DEF WorkTyped, Place
  <2>. QED BY <1>1, <2>1, <2>2, <2>3 DEF WorkTyped
<1>10. \A t \in Tx : tx[t].st \in Open => tx'[t].st = "cancelled" /\ SameOwner(t)
  BY <1>4, <1>6 DEF SameOwner
<1>11. \A i \in Inc : ~Busy(i)' BY <1>5, <1>7 DEF Busy
<1>12. \A t \in Tx : tx'[t].st \notin Open BY <1>6, <1>10 DEF Open
<1>13. Cuts
  <2>1. \A t \in Tx : \/ tx'[t] = tx[t]
                      \/ /\ tx[t].st \in Open /\ tx'[t].st = "cancelled"
                         /\ SameOwner(t) /\ \A i \in Inc : i = tx[t].inc => ~Busy(i)'
    BY <1>6, <1>10, <1>11
  <2>2. \A t \in Tx : \/ pc'[t] = pc[t]
                      \/ pc[t] = "waiting" /\ pc'[t] = "over" /\ tx'[t].st \notin Open
    BY <1>8, <1>12
  <2>3. \A i \in Inc :
          /\ inc'[i].open = inc[i].open
          /\ \/ inc'[i].st = inc[i].st
             \/ /\ inc[i].st \in {"detected", "waiting-safe", "switching"}
                /\ inc'[i].st = "notify-stopped"
    BY <1>5, <1>7
  <2>. QED BY <1>1, <1>12, <2>1, <2>2, <2>3 DEF Cuts
<1>. QED BY <1>9, <1>13, CutsKeeps

\* A request, and a request that comes to nothing.
AskedTx(i, to, auto) ==
    [BlankTx EXCEPT !.st = "asked", !.inc = i, !.from = dflt, !.to = to, !.auto = auto]

LEMMA AskedFields ==
  ASSUME dflt \in Slot, NEW i \in Inc, NEW to \in Slot, NEW auto \in BOOLEAN
  PROVE  LET q == AskedTx(i, to, auto) IN
         q \in TxRec /\ q.st = "asked" /\ q.inc = i /\ q.auto = auto /\ q.from = dflt
BY QuotaAssumption DEF AskedTx, BlankTx, TxRec, TxState

LEMMA BlankTyped == BlankTx \in TxRec /\ BlankTx.st = "none" /\ BlankInc \in IncRec /\ BlankRow \in RowRec
<1>1. BlankTx \in TxRec /\ BlankTx.st = "none" BY QuotaAssumption DEF BlankTx, TxRec, TxState
<1>2. BlankInc \in IncRec BY QuotaAssumption DEF BlankInc, IncRec, IncState
<1>3. BlankRow \in RowRec BY QuotaAssumption DEF BlankRow, RowRec
<1>. QED BY <1>1, <1>2, <1>3

LEMMA AskedWorks ==
  ASSUME WorkTyped, WorkInv, dflt \in Slot, NEW t \in Tx, NEW i \in Inc, NEW to \in Slot,
         NEW auto \in BOOLEAN, Asked(t, i, to, auto), tx[t].st = "none",
         NEW p \in {"asked", "attempted"}, pc' = [pc EXCEPT ![t] = p],
         inc' \in [Inc -> IncRec],
         \A j \in Inc : inc'[j].open = inc[j].open /\ inc'[j].st = inc[j].st,
         crossed' = IF Crossing(i) THEN crossed \cup {i} ELSE crossed
  PROVE  WorkInv' /\ WorkTyped' /\ GoneStays
<1>1. tx' = [tx EXCEPT ![t] = AskedTx(i, to, auto)] BY Zenon DEF Asked, AskedTx
<1>2. LET q == AskedTx(i, to, auto) IN q \in TxRec /\ q.st = "asked" /\ q.inc = i
  BY AskedFields
<1>3. WorkTyped' BY <1>1, <1>2 DEF WorkTyped, Place
<1>4. Asks(t, i) BY <1>1, <1>2 DEF Asks, WorkTyped
<1>. QED BY <1>3, <1>4, AsksKeeps

NotDue(r) == [r EXCEPT !.due = FALSE]
Stopped(r) == [r EXCEPT !.due = FALSE, !.st = "notify-stopped"]

LEMMA NotDueFields ==
  ASSUME NEW r \in IncRec
  PROVE  /\ NotDue(r) \in IncRec /\ NotDue(r).open = r.open /\ NotDue(r).st = r.st
         /\ Stopped(r) \in IncRec /\ Stopped(r).open = r.open /\ Stopped(r).st = "notify-stopped"
BY DEF NotDue, Stopped, IncRec, IncState

LEMMA ProposeWorks ==
  ASSUME WorkTyped, WorkInv, dflt \in Slot, NEW t \in Tx, NEW i \in Inc, NEW to \in Slot,
         Propose(t, i, to)
  PROVE  WorkInv' /\ WorkTyped' /\ GoneStays
<1>1. /\ tx[t].st = "none" /\ Asked(t, i, to, FALSE) /\ pc' = [pc EXCEPT ![t] = "asked"]
      /\ inc' = inc /\ crossed' = IF Crossing(i) THEN crossed \cup {i} ELSE crossed
  BY DEF Propose, Fresh
<1>. QED BY <1>1, AskedWorks DEF WorkTyped

LEMMA AttemptWorks ==
  ASSUME WorkTyped, WorkInv, dflt \in Slot, NEW t \in Tx, NEW i \in Inc, NEW to \in Slot,
         Attempt(t, i, to)
  PROVE  WorkInv' /\ WorkTyped' /\ GoneStays
<1>1. /\ tx[t].st = "none" /\ Asked(t, i, to, TRUE) /\ pc' = [pc EXCEPT ![t] = "attempted"]
      /\ crossed' = IF Crossing(i) THEN crossed \cup {i} ELSE crossed
  BY DEF Attempt, Fresh
<1>2. inc' = [inc EXCEPT ![i] = NotDue(inc[i])] BY DEF Attempt, NotDue, WorkTyped
<1>3. /\ inc' \in [Inc -> IncRec]
      /\ \A j \in Inc : inc'[j].open = inc[j].open /\ inc'[j].st = inc[j].st
  BY <1>2, NotDueFields DEF WorkTyped
<1>. QED BY <1>1, <1>3, AskedWorks

LEMMA AttemptRefusedWorks ==
  ASSUME WorkTyped, WorkInv, NEW i \in Inc, AttemptRefused(i)
  PROVE  WorkInv' /\ WorkTyped' /\ GoneStays
<1>1. inc' = [inc EXCEPT ![i] = Stopped(inc[i])] BY DEF AttemptRefused, Stopped, WorkTyped
<1>2. UNCHANGED <<tx, pc>> /\ crossed' = IF Crossing(i) THEN crossed \cup {i} ELSE crossed
  BY DEF AttemptRefused
<1>3. WorkTyped' BY <1>1, <1>2, NotDueFields DEF WorkTyped
<1>4. i \in crossed' \/ ~Crossing(i)' BY <1>2 DEF Crossing, Swapped
<1>5. \A j \in Inc : /\ inc'[j].open = inc[j].open
                     /\ inc'[j].st = inc[j].st \/ GivenUp(j)
  BY <1>1, <1>4, NotDueFields DEF GivenUp, WorkTyped
<1>6. Rests BY <1>2, <1>5 DEF Rests, RestingTx
<1>7. \A t \in Tx : tx'[t].closed \in BOOLEAN BY <1>3 DEF WorkTyped, TxRec
<1>. QED BY <1>3, <1>6, <1>7, RestsKeeps

LEMMA NotEligibleWorks ==
  ASSUME WorkTyped, WorkInv, NEW t \in Tx, NotEligible(t)
  PROVE  WorkInv' /\ WorkTyped' /\ GoneStays
<1>1. /\ pc[t] \in {"asked", "attempted"} /\ tx' = [tx EXCEPT ![t] = BlankTx]
      /\ pc' = [pc EXCEPT ![t] = "over"]
  BY DEF NotEligible
<1>2. tx[t].inc \in Inc /\ tx[t].st = "asked" BY <1>1, PlaceFacts DEF WorkInv, PlaceOf
<1>. PICK i \in Inc : i = tx[t].inc BY <1>2
<1>3. tx' \in [Tx -> TxRec] /\ pc' \in [Tx -> Place] BY <1>1, BlankTyped DEF WorkTyped, Place
<1>4. \A u \in Tx : RestingTx(u)
  BY <1>1, <1>2, BlankTyped DEF RestingTx, WorkTyped
<1>5. /\ inc' \in [Inc -> IncRec] /\ crossed \subseteq crossed'
      /\ \A j \in Inc : /\ inc'[j].open = inc[j].open
                        /\ inc'[j].st = inc[j].st \/ GivenUp(j)
  <2>1. CASE pc[t] = "attempted"
    <3>1. /\ inc' = [inc EXCEPT ![i].st = "notify-stopped"]
          /\ crossed' = crossed \cup {j \in {i} : Crossing(j)'}
      BY <2>1 DEF NotEligible
    <3>2. inc' = [j \in Inc |-> IF j = i THEN IncTo(inc[j], "notify-stopped") ELSE inc[j]]
      BY <3>1 DEF WorkTyped, IncTo
    <3>3. "notify-stopped" \in IncState BY DEF IncState
    <3>4. i \in crossed' \/ ~Crossing(i)' BY <3>1
    <3>5. \A j \in Inc : LET q == IncTo(inc[j], "notify-stopped") IN
             q \in IncRec /\ q.st = "notify-stopped" /\ q.open = inc[j].open
      BY <3>3, IncFields DEF WorkTyped
    <3>. QED BY <3>1, <3>2, <3>4, <3>5 DEF GivenUp, WorkTyped
  <2>2. CASE pc[t] # "attempted" BY <2>2 DEF NotEligible, WorkTyped
  <2>. QED BY <2>1, <2>2
<1>6. Rests BY <1>4, <1>5 DEF Rests
<1>7. \A u \in Tx : tx'[u].closed \in BOOLEAN BY <1>3 DEF TxRec
<1>. QED BY <1>3, <1>5, <1>6, <1>7, RestsKeeps DEF WorkTyped
LEMMA StillWorks ==
  ASSUME WorkTyped, WorkInv, UNCHANGED work, crossed' = crossed
  PROVE  WorkInv' /\ WorkTyped' /\ GoneStays
<1>1. WorkTyped' BY DEF WorkTyped, work
<1>2. \A t \in Tx : tx'[t].closed \in BOOLEAN BY <1>1 DEF WorkTyped, TxRec
<1>3. Rests BY DEF Rests, RestingTx, work
<1>. QED BY <1>1, <1>2, <1>3, RestsKeeps

LEMMA ReconcileWorks ==
  ASSUME WorkTyped, WorkInv, unrec \in {None} \cup [tx : Tx, live : Slot \cup {None}], Reconcile
  PROVE  WorkInv' /\ WorkTyped' /\ GoneStays
<1>1. unrec.tx \in Tx /\ crossed' = crossed /\ UNCHANGED <<inc, pc>>
  BY DEF Reconcile, history
<1> DEFINE u == unrec.tx
<1>2. CASE tx' = tx
  BY <1>1, <1>2, StillWorks DEF work
<1>3. CASE tx' = [tx EXCEPT ![u].closed = (@ \/ tx[u].st # "none")]
  <2> DEFINE c == tx[u].closed \/ tx[u].st # "none"
  <2>1. tx[u] \in TxRec /\ c \in BOOLEAN /\ tx[u].st \in TxState
    BY <1>1 DEF WorkTyped, TxRec
  <2>2. tx' = [tx EXCEPT ![u] = TxTo(tx[u], tx[u].st, c)]
    BY <1>1, <1>3, <2>1 DEF TxTo, WorkTyped, TxRec
  <2>3. LET q == TxTo(tx[u], tx[u].st, c) IN
          /\ q \in TxRec /\ q.st = tx[u].st /\ q.inc = tx[u].inc /\ q.closed = c
    BY <2>1, TxFields
  <2>4. tx[u].closed => c OBVIOUS
  <2>. HIDE DEF c
  <2>5. WorkTyped' BY <1>1, <2>2, <2>3 DEF WorkTyped
  <2>6. \A t \in Tx : tx'[t].st = tx[t].st /\ tx'[t].inc = tx[t].inc
                      /\ (tx[t].closed => tx'[t].closed)
    BY <1>1, <2>2, <2>3, <2>4 DEF WorkTyped
  <2>7. Rests BY <1>1, <2>6 DEF Rests, RestingTx
  <2>8. \A t \in Tx : tx'[t].closed \in BOOLEAN BY <2>5 DEF WorkTyped, TxRec
  <2>. QED BY <2>5, <2>7, <2>8, RestsKeeps
<1>. QED BY <1>2, <1>3 DEF Reconcile

LEMMA BlankWorks ==
  ASSUME tx = [t \in Tx |-> BlankTx], inc = [i \in Inc |-> BlankInc], pc = [t \in Tx |-> "over"]
  PROVE  WorkTyped /\ WorkInv
<1>1. WorkTyped BY BlankTyped DEF WorkTyped, Place
<1>2. \A t \in Tx : tx[t].st = "none" /\ pc[t] = "over" BY DEF BlankTx
<1>3. \A i \in Inc : ~inc[i].open BY DEF BlankInc
<1>4. PlaceInv BY <1>2 DEF PlaceInv, PlaceOf, Open, Swapped
<1>5. OneOpen /\ NoOrphanedSwitching BY <1>3 DEF OneOpen, NoOrphanedSwitching, OpenIncidents
<1>6. OwnInv BY <1>2 DEF OwnInv
<1>. QED BY <1>1, <1>4, <1>5, <1>6 DEF WorkInv

LEMMA CrashWorks == ASSUME Crash PROVE WorkInv' /\ WorkTyped'
<1>1. /\ tx' = [t \in Tx |-> BlankTx] /\ inc' = [i \in Inc |-> BlankInc]
      /\ pc' = [t \in Tx |-> "over"]
  BY DEF Crash
<1>2. WorkTyped' BY <1>1, BlankTyped DEF WorkTyped, Place
<1>3. \A t \in Tx : tx'[t].st = "none" /\ pc'[t] = "over" BY <1>1 DEF BlankTx
<1>4. \A i \in Inc : ~inc'[i].open BY <1>1 DEF BlankInc
<1>5. PlaceInv' BY <1>3 DEF PlaceInv, PlaceOf, Open, Swapped
<1>6. OneOpen' /\ NoOrphanedSwitching' BY <1>4 DEF OneOpen, NoOrphanedSwitching, OpenIncidents
<1>7. OwnInv' BY <1>3 DEF OwnInv
<1>. QED BY <1>2, <1>5, <1>6, <1>7 DEF WorkInv

\* Every step keeps the transactions and incidents in order.
LEMMA WorkStep ==
  ASSUME TypeOK, WorkInv, Next
  PROVE  WorkInv' /\ WorkTyped' /\ (up' => GoneStays)
<1>0. /\ WorkTyped /\ Works /\ epoch \in Nat /\ dflt \in Slot /\ LockInv
      /\ unrec \in {None} \cup [tx : Tx, live : Slot \cup {None}]
  BY Typing DEF Works, WorkInv, EnvTyped
<1>1. ASSUME NEW t \in Tx, Acts(t), WorkTyped' PROVE WorkInv' /\ WorkTyped' /\ GoneStays
  BY <1>1, ActsKeeps DEF WorkInv, Acts
<1>2. ASSUME NEW t \in Tx,
             \/ NotEligible(t) \/ Begin(t) \/ Confirm(t) \/ AckReady(t) \/ AckBusy(t)
             \/ AckRefused(t) \/ Deadline(t) \/ Cancel(t)
      PROVE  WorkInv' /\ WorkTyped' /\ GoneStays
  <2>1. CASE NotEligible(t) BY <1>0, <2>1, NotEligibleWorks
  <2>2. CASE Begin(t) BY <1>0, <1>1, <2>2, BeginActs
  <2>3. CASE Confirm(t) BY <1>0, <1>1, <2>3, ConfirmActs
  <2>4. CASE AckReady(t) BY <1>0, <1>1, <2>4, AckReadyActs
  <2>5. CASE AckBusy(t) BY <1>0, <1>1, <2>5, AckBusyActs
  <2>6. CASE AckRefused(t) BY <1>0, <1>1, <2>6, AckRefusedActs
  <2>7. CASE Deadline(t) BY <1>0, <1>1, <2>7, DeadlineActs
  <2>8. CASE Cancel(t)
    <3>1. Withdraw({t}) /\ crossed' = crossed /\ {t} \in SUBSET {u \in Tx : tx[u].st \in Open}
      BY <2>8 DEF Cancel, history
    <3>. QED BY <1>0, <3>1, WithdrawWorks
  <2>. QED BY <1>2, <2>1, <2>2, <2>3, <2>4, <2>5, <2>6, <2>7, <2>8
<1>3. ASSUME NEW t \in Tx,
             \/ TakeLock(t) \/ LockTimeout(t) \/ CheckFails(t) \/ Intend(t) \/ Move(t)
             \/ MoveFails(t) \/ Book(t) \/ SettleTimeout(t) \/ Evidence(t)
      PROVE  WorkInv' /\ WorkTyped' /\ GoneStays
  <2>1. CASE TakeLock(t) BY <1>0, <1>1, <2>1, TakeLockActs
  <2>2. CASE LockTimeout(t) BY <1>0, <1>1, <2>2, LockTimeoutActs
  <2>3. CASE CheckFails(t) BY <1>0, <1>1, <2>3, CheckFailsActs
  <2>4. CASE Intend(t) BY <1>0, <1>1, <2>4, IntendActs
  <2>5. CASE Move(t) BY <1>0, <1>1, <2>5, MoveActs
  <2>6. CASE MoveFails(t) BY <1>0, <1>1, <2>6, MoveFailsActs
  <2>7. CASE Book(t) BY <1>0, <1>1, <2>7, BookActs
  <2>8. CASE SettleTimeout(t) BY <1>0, <2>8, SettleTimeoutWorks
  <2>9. CASE Evidence(t) BY <1>0, <2>9, EvidenceWorks
  <2>. QED BY <1>3, <2>1, <2>2, <2>3, <2>4, <2>5, <2>6, <2>7, <2>8, <2>9
<1>4. ASSUME NEW i \in Inc, AttemptRefused(i) \/ Recovered(i)
      PROVE  WorkInv' /\ WorkTyped' /\ GoneStays
  BY <1>0, <1>4, AttemptRefusedWorks, RecoveredWorks
<1>5. ASSUME NEW t \in Tx, NEW i \in Inc, NEW to \in Slot, Attempt(t, i, to) \/ Propose(t, i, to)
      PROVE  WorkInv' /\ WorkTyped' /\ GoneStays
  BY <1>0, <1>5, AttemptWorks, ProposeWorks
<1>6. ASSUME NEW i \in Inc, NEW s \in Slot, NEW e \in 0..epoch, Report(i, s, e)
      PROVE  WorkInv' /\ WorkTyped' /\ GoneStays
  BY <1>0, <1>6, ReportWorks
<1>7. ASSUME NEW mode \in {"auto", "notify"}, SetPolicy(mode)
      PROVE  WorkInv' /\ WorkTyped' /\ GoneStays
  <2>1. crossed' = crossed BY <1>7 DEF SetPolicy, history
  <2>2. CASE mode = "auto"
    <3>1. UNCHANGED work BY <1>7, <2>2 DEF SetPolicy
    <3>. QED BY <1>0, <2>1, <3>1, StillWorks
  <2>3. CASE mode # "auto"
    <3> DEFINE T == {t \in Tx : tx[t].auto /\ tx[t].st \in Open}
    <3>1. Withdraw(T) BY <1>7, <2>3 DEF SetPolicy
    <3>2. T \in SUBSET {t \in Tx : tx[t].st \in Open} OBVIOUS
    <3>. HIDE DEF T
    <3>. QED BY <1>0, <2>1, <3>1, <3>2, WithdrawWorks
  <2>. QED BY <2>2, <2>3
<1>8. ASSUME NEW s \in Slot, ManualMove(s)
      PROVE  WorkInv' /\ WorkTyped' /\ GoneStays
  BY <1>0, <1>8, StillWorks DEF ManualMove, history
<1>9. CASE Reconcile BY <1>0, <1>9, ReconcileWorks
<1>10. CASE ManualPersist BY <1>0, <1>10, StillWorks DEF ManualPersist
<1>11. CASE ManualDone
  <2>1. \A t \in Tx : pc[t] \notin {"moving", "moved"}
    BY <1>0, <1>11, ManualAlone DEF ManualDone, Holding
  <2>2. \A t \in Tx : tx[t].st # "swapping" BY <2>1 DEF WorkInv, PlaceInv, PlaceOf
  <2>. QED BY <1>0, <1>11, <2>2, ManualDoneWorks
<1>12. CASE Tick BY <1>0, <1>12, StillWorks DEF Tick, history
<1>13. CASE Crash
  <2>1. ~up' BY <1>13 DEF Crash
  <2>. QED BY <1>13, <2>1, CrashWorks
<1>14. CASE Restart BY <1>0, <1>14, StillWorks DEF Restart, history
<1>. QED
  BY <1>2, <1>3, <1>4, <1>5, <1>6, <1>7, <1>8, <1>9, <1>10, <1>11, <1>12, <1>13, <1>14
  DEF Next
-----------------------------------------------------------------------------
(* The vault and the disk.                                                 *)

DiskInv ==
    RowInv /\ HeldInv /\ LagInv /\ AllowedInv /\ SlotsKeepOwner /\ BudgetHolds

\* Most steps leave the vault, the default and the audit table alone, and bring
\* no commit to its point of no return or past it.
CalmTx(u) ==
    /\ pc[u] \in {"moving", "moved"} \/ pc'[u] \in {"moving", "moved"} =>
          pc'[u] = pc[u] /\ SameOwner(u)
    /\ pc'[u] \in Early => row[u].st = "none" /\ moved[u] = None
Calm ==
    /\ UNCHANGED <<clock, up, row, moved, live, slot, dflt, astray, unrec>>
    /\ \A u \in Tx : CalmTx(u)
    /\ lock' = ByManual => lock = ByManual /\ manual' = manual
    /\ lock = ByManual /\ lock' # ByManual => ~Lags

LEMMA CalmKeeps ==
  ASSUME DiskInv, Calm
  PROVE  DiskInv'
<1>. USE DEF DiskInv, Calm
<1>0. Counted' = Counted /\ Unreconciled' = Unreconciled BY DEF Counted, Unreconciled
<1>1. RowInv'
  <2>. SUFFICES ASSUME NEW t \in Tx
                PROVE /\ pc'[t] \in Early => row[t].st = "none" /\ moved[t] = None
                      /\ pc'[t] \in {"moving", "moved"} =>
                            /\ row[t].st = "swapping" /\ ~row[t].known /\ ~row[t].reconciled
                            /\ row[t].auto = tx'[t].auto /\ row[t].to = tx'[t].to
                            /\ row[t].at = clock
                      /\ pc'[t] = "moving" => moved[t] = None
                      /\ moved[t] # None => t \in Counted /\ moved[t] = row[t].at
                      /\ row[t].st = "none" => ~row[t].auto
    BY <1>0 DEF RowInv
  <2>1. CalmTx(t) OBVIOUS
  <2>. QED BY <2>1 DEF CalmTx, RowInv, SameOwner
<1>2. HeldInv'
  <2>1. \A t \in Tx : CalmTx(t) OBVIOUS
  <2>. QED BY <2>1 DEF CalmTx, HeldInv, SameOwner
<1>3. LagInv'
  <2>. SUFFICES ASSUME Lags', lock' # ByManual
                PROVE  /\ up /\ unrec = None => \E t \in Tx : pc'[t] = "moved"
                       /\ \E t \in Unreconciled : ~(row[t].known /\ row[t].to = dflt)
    BY <1>0 DEF LagInv
  <2>1. Lags /\ lock # ByManual BY DEF Lags
  <2>2. \A t \in Tx : pc[t] = "moved" => pc'[t] = "moved" BY DEF CalmTx
  <2>. QED BY <2>1, <2>2 DEF LagInv
<1>4. AllowedInv'
  <2>. SUFFICES ASSUME NEW t \in Tx, pc'[t] = "moving", tx'[t].auto
                PROVE  /\ \A u \in Others(t) : row[u].at + Gap <= clock
                       /\ Cardinality({u \in Others(t) : row[u].at + Window > clock}) < Limit
    BY <1>0 DEF AllowedInv, Others
  <2>1. CalmTx(t) OBVIOUS
  <2>. QED BY <2>1 DEF AllowedInv, CalmTx, SameOwner
<1>5. SlotsKeepOwner' BY DEF SlotsKeepOwner
<1>6. BudgetHolds' BY DEF BudgetHolds
<1>. QED BY <1>1, <1>2, <1>3, <1>4, <1>5, <1>6
\* What a step leaves alone, and the switch lock.
Quiet == UNCHANGED <<clock, up, row, moved, live, slot, dflt, astray, unrec>>

LEMMA LockStays ==
  ASSUME LockInv, UNCHANGED <<lock, manual>>,
         \A t \in Tx : pc'[t] = pc[t] \/ (pc[t] \notin Holding /\ pc'[t] \notin Holding)
  PROVE  LockInv'
BY DEF LockInv

LEMMA LockFreed ==
  ASSUME LockInv, NEW t \in Tx, pc[t] \in Holding, pc'[t] \notin Holding,
         lock' = None, manual' = manual, \A u \in Tx \ {t} : pc'[u] = pc[u]
  PROVE  LockInv' /\ lock # ByManual
<1>1. lock = t /\ manual = None /\ lock # ByManual BY QuotaAssumption DEF LockInv, ByManual
<1>2. None \notin Tx /\ None # ByManual BY QuotaAssumption DEF ByManual
<1>3. \A u \in Tx : pc'[u] \notin Holding BY <1>1 DEF LockInv
<1>. QED BY <1>1, <1>2, <1>3 DEF LockInv

LEMMA LockTaken ==
  ASSUME LockInv, NEW t \in Tx, lock = None, pc'[t] \in Holding,
         lock' = t, manual' = manual, \A u \in Tx \ {t} : pc'[u] = pc[u]
  PROVE  LockInv'
<1>1. None \notin Tx /\ None # ByManual /\ t # ByManual BY QuotaAssumption DEF ByManual
<1>2. \A u \in Tx : pc[u] \notin Holding BY <1>1 DEF LockInv
<1>3. manual = None BY <1>1 DEF LockInv
<1>. QED BY <1>1, <1>2, <1>3 DEF LockInv

LEMMA ActsCalm ==
  ASSUME NEW t \in Tx, Acts(t), RowInv, Quiet,
         pc[t] \notin {"moving", "moved"}, pc'[t] \notin {"moving", "moved"},
         pc'[t] \in Early => pc[t] \in Early,
         lock' # ByManual \/ UNCHANGED <<lock, manual>>, lock = ByManual => lock' = ByManual
  PROVE  Calm
<1>1. \A u \in Tx : CalmTx(u)
  <2>1. CalmTx(t) BY DEF CalmTx, RowInv
  <2>2. \A u \in Tx \ {t} : CalmTx(u) BY DEF CalmTx, RowInv, Acts, SameOwner
  <2>. QED BY <2>1, <2>2
<1>. QED BY <1>1 DEF Calm, Quiet

Core == WorkTyped /\ LockInv /\ WorkInv /\ RowInv

\* A transaction that waits, or that starts to commit.
LEMMA WaitingCalm ==
  ASSUME Core, NEW t \in Tx, Acts(t),
         \/ Begin(t) \/ Confirm(t) \/ AckReady(t) \/ AckBusy(t) \/ AckRefused(t) \/ Deadline(t)
  PROVE  Calm /\ LockInv'
<1>. USE DEF Core
<1>1. Quiet /\ UNCHANGED <<lock, manual>>
  <2>1. CASE Begin(t) BY <2>1 DEF Begin, Quiet, disk, vault, service, route, env
  <2>2. CASE Confirm(t) BY <2>2 DEF Confirm, Quiet, disk, vault, service, route, env, history
  <2>3. CASE AckReady(t) BY <2>3 DEF AckReady, Quiet, disk, vault, service, route, env, history
  <2>4. CASE AckBusy(t) BY <2>4 DEF AckBusy, Quiet, disk, vault, service, route, env, history
  <2>5. CASE AckRefused(t) BY <2>5 DEF AckRefused, Quiet, disk, vault, service, route, env, history
  <2>6. CASE Deadline(t) BY <2>6 DEF Deadline, Quiet, disk, vault, service, route, env, history
  <2>. QED BY <2>1, <2>2, <2>3, <2>4, <2>5, <2>6
<1>2. /\ pc'[t] \in {"over", "waiting", "locking"} \/ pc'[t] = pc[t]
      /\ pc[t] \in {"asked", "attempted", "waiting"}
         \/ (tx[t].st \in Open /\ pc'[t] \in {pc[t], "over"})
  <2>0. PlaceOf(t) BY DEF WorkInv, PlaceInv
  <2>1. CASE Begin(t)
    <3>1. PICK way \in {"commit", "prepare", "confirm", "stop"} :
             pc' = [pc EXCEPT ![t] = CASE way = "commit" -> "locking" [] way = "stop" -> "over"
                                       [] OTHER -> "waiting"]
      BY <2>1 DEF Begin
    <3>2. pc'[t] \in {"over", "waiting", "locking"} BY <3>1 DEF WorkTyped
    <3>. QED BY <2>1, <3>2 DEF Begin
  <2>2. CASE Confirm(t) BY <2>0, <2>2 DEF Confirm, Commits, WorkTyped, PlaceOf
  <2>3. CASE AckReady(t) BY <2>3 DEF AckReady, Commits, WorkTyped
  <2>4. CASE AckBusy(t) BY <2>4 DEF AckBusy
  <2>5. CASE AckRefused(t) BY <2>5 DEF AckRefused, WorkTyped, Open
  <2>6. CASE Deadline(t) BY <2>6 DEF Deadline, WorkTyped
  <2>. QED BY <2>1, <2>2, <2>3, <2>4, <2>5, <2>6
<1>3. pc'[t] = pc[t] \/ (pc[t] \notin Holding /\ pc'[t] \notin Holding)
  <2>1. CASE AckRefused(t) BY <2>1 DEF AckRefused, WorkTyped, Holding
  <2>2. CASE ~AckRefused(t)
    <3>1. PlaceOf(t) BY DEF WorkInv, PlaceInv
    <3>2. pc[t] \in {"asked", "attempted", "waiting"}
      BY <2>2, <3>1 DEF Begin, Confirm, AckReady, AckBusy, Deadline, PlaceOf
    <3>. QED BY <1>2, <3>2 DEF Holding
  <2>. QED BY <2>1, <2>2
<1>4. \A u \in Tx \ {t} : pc'[u] = pc[u] BY DEF Acts
<1>5. LockInv' BY <1>1, <1>3, <1>4, LockStays
<1>6. PlaceOf(t) BY DEF WorkInv, PlaceInv
<1>7. pc[t] \notin {"moving", "moved"} /\ pc'[t] \notin {"moving", "moved"}
  BY <1>2, <1>6 DEF PlaceOf, Open
<1>8. pc'[t] \in Early => pc[t] \in Early BY <1>2, <1>6 DEF Early, PlaceOf, Open
<1>. QED BY <1>1, <1>5, <1>7, <1>8, ActsCalm

\* A commit that takes the lock, or gives up.
LEMMA StopPlace ==
  ASSUME WorkTyped, NEW t \in Tx, NEW how, Stop(t, how) \/ Fail(t, how)
  PROVE  pc' = [pc EXCEPT ![t] = "over"] /\ pc'[t] = "over"
BY DEF Stop, Fail, WorkTyped

LEMMA CommitCalm ==
  ASSUME Core, NEW t \in Tx, Acts(t),
         \/ TakeLock(t) \/ LockTimeout(t) \/ CheckFails(t)
         \/ (Intend(t) /\ ~Intends(t))
  PROVE  Calm /\ LockInv'
<1>. USE DEF Core
<1>0. \A u \in Tx \ {t} : pc'[u] = pc[u] BY DEF Acts
<1>1. CASE TakeLock(t) /\ Refused(t)
  <2>1. Quiet /\ UNCHANGED <<lock, manual>> /\ pc[t] = "locking" /\ Stop(t, "cancelled")
    BY <1>1 DEF TakeLock, Quiet, disk, vault, service, env, history
  <2>2. pc'[t] = "over" BY <2>1, StopPlace
  <2>3. LockInv' BY <1>0, <2>1, <2>2, LockStays DEF Holding
  <2>. QED BY <2>1, <2>2, <2>3, ActsCalm DEF Early
<1>2. CASE TakeLock(t) /\ ~Refused(t)
  <2>1. /\ Quiet /\ lock = None /\ lock' = t /\ manual' = manual /\ pc[t] = "locking"
        /\ pc'[t] = "checking"
    BY <1>2 DEF TakeLock, Quiet, disk, vault, service, env, history, WorkTyped
  <2>2. LockInv' BY <1>0, <2>1, LockTaken DEF Holding
  <2>3. lock' # ByManual /\ lock # ByManual BY <2>1, QuotaAssumption DEF ByManual
  <2>. QED BY <2>1, <2>2, <2>3, ActsCalm DEF Early
<1>3. CASE LockTimeout(t)
  <2>1. Quiet /\ UNCHANGED <<lock, manual>> /\ pc[t] = "locking" /\ Stop(t, "failed")
    BY <1>3 DEF LockTimeout, Quiet, disk, vault, service, route, env, history
  <2>2. pc'[t] = "over" BY <2>1, StopPlace
  <2>3. LockInv' BY <1>0, <2>1, <2>2, LockStays DEF Holding
  <2>. QED BY <2>1, <2>2, <2>3, ActsCalm DEF Early
<1>4. ASSUME Quiet, lock' = None, manual' = manual, pc[t] = "checking", pc'[t] = "over"
      PROVE  Calm /\ LockInv'
  <2>1. LockInv' /\ lock # ByManual BY <1>0, <1>4, LockFreed DEF Holding
  <2>2. lock' # ByManual BY <1>4, QuotaAssumption DEF ByManual
  <2>. QED BY <1>4, <2>1, <2>2, ActsCalm DEF Early
<1>5. CASE CheckFails(t)
  <2>1. /\ Quiet /\ lock' = None /\ manual' = manual /\ pc[t] = "checking"
        /\ \E how \in {"cancelled", "failed"} : Fail(t, how)
    BY <1>5 DEF CheckFails, Quiet, disk, vault, service, env, history
  <2>2. pc'[t] = "over" BY <2>1, StopPlace
  <2>. QED BY <1>4, <2>1, <2>2
<1>6. CASE Intend(t) /\ ~Intends(t)
  <2>1. /\ lock' = None /\ row' = row
        /\ Stop(t, "cancelled") \/ Fail(t, "failed")
    BY <1>6, IntendCases
  <2>2. Quiet /\ manual' = manual /\ pc[t] = "checking"
    BY <1>6, <2>1 DEF Intend, Quiet, vault, service, env, history
  <2>3. pc'[t] = "over" BY <2>1, StopPlace
  <2>. QED BY <1>4, <2>1, <2>2, <2>3
<1>. QED BY <1>1, <1>2, <1>3, <1>5, <1>6
\* The other calm steps let coroutines go, and take none further.
EaseTx(u) ==
    \/ pc'[u] = pc[u] /\ SameOwner(u)
    \/ pc[u] \notin Holding /\ pc'[u] = "over"

LEMMA EaseCalm ==
  ASSUME Core, Quiet, UNCHANGED <<lock, manual>>, \A u \in Tx : EaseTx(u)
  PROVE  Calm /\ LockInv'
<1>. USE DEF Core
<1>1. \A u \in Tx : pc'[u] = pc[u] \/ (pc[u] \notin Holding /\ pc'[u] \notin Holding)
  BY DEF EaseTx, Holding
<1>2. LockInv' BY <1>1, LockStays
<1>3. ASSUME NEW u \in Tx PROVE CalmTx(u)
  <2>1. EaseTx(u) OBVIOUS
  <2>2. pc[u] \in Early => row[u].st = "none" /\ moved[u] = None BY DEF RowInv
  <2>. QED BY <2>1, <2>2 DEF EaseTx, CalmTx, Holding, Early
<1>. QED BY <1>2, <1>3 DEF Calm, Quiet

LEMMA ClosingEases ==
  ASSUME WorkTyped, NEW j \in Inc, tx' = ClosedTxs(j), \A u \in Tx : ClosingPc(u, j)
  PROVE  \A u \in Tx : EaseTx(u)
BY ClosedTxsClosing DEF ClosingTx, ClosingPc, EaseTx, Holding

LEMMA WithdrawEases ==
  ASSUME WorkTyped, NEW T \in SUBSET Tx, Withdraw(T)
  PROVE  \A u \in Tx : EaseTx(u)
<1>. SUFFICES ASSUME NEW u \in Tx PROVE EaseTx(u) OBVIOUS
<1>1. tx'[u] = tx[u] \/ tx'[u] = TxTo(tx[u], "cancelled", TRUE) BY WithdrawIs
<1>2. tx[u] \in TxRec /\ "cancelled" \in TxState BY DEF WorkTyped, TxState
<1> DEFINE q == TxTo(tx[u], "cancelled", TRUE)
<1>3. q.inc = tx[u].inc /\ q.from = tx[u].from /\ q.to = tx[u].to /\ q.auto = tx[u].auto
  BY <1>2, TxFields
<1>. HIDE DEF q
<1>4. SameOwner(u) BY <1>1, <1>3 DEF SameOwner, q
<1>5. pc'[u] = pc[u] \/ (pc[u] = "waiting" /\ pc'[u] = "over") BY WithdrawIs
<1>. QED BY <1>4, <1>5 DEF EaseTx, Holding

LEMMA ServiceCalm ==
  ASSUME Core, NEW t \in Tx,
         \/ NotEligible(t) \/ Cancel(t) \/ SettleTimeout(t) \/ Evidence(t)
  PROVE  Calm /\ LockInv'
<1>. USE DEF Core
<1>1. CASE NotEligible(t)
  <2>1. Quiet /\ UNCHANGED <<lock, manual>>
    BY <1>1 DEF NotEligible, Quiet, disk, vault, service, route, env
  <2>2. \A u \in Tx : EaseTx(u)
    BY <1>1 DEF NotEligible, EaseTx, SameOwner, Holding, WorkTyped
  <2>. QED BY <2>1, <2>2, EaseCalm
<1>2. CASE Cancel(t)
  <2>1. Quiet /\ UNCHANGED <<lock, manual>> /\ Withdraw({t})
    BY <1>2 DEF Cancel, Quiet, disk, vault, service, route, env, history
  <2>2. \A u \in Tx : EaseTx(u) BY <2>1, WithdrawEases
  <2>. QED BY <2>1, <2>2, EaseCalm
<1>3. CASE SettleTimeout(t)
  <2>1. /\ Quiet /\ UNCHANGED <<lock, manual>> /\ pc[t] = "settle" /\ pc' = [pc EXCEPT ![t] = "over"]
    BY <1>3 DEF SettleTimeout, Quiet, disk, vault, service, route, env, history
  <2>2. tx' = tx \/ tx' = ClosedTxs(tx[t].inc) BY <1>3 DEF SettleTimeout
  <2>3. tx[t].inc \in Inc BY <2>1, PlaceFacts DEF WorkInv
  <2>4. \A u \in Tx : ClosingPc(u, tx[t].inc) BY <2>1 DEF ClosingPc, WorkTyped
  <2>5. CASE tx' = tx
    <3>1. \A u \in Tx : EaseTx(u) BY <2>1, <2>5 DEF EaseTx, SameOwner, Holding, WorkTyped
    <3>. QED BY <2>1, <3>1, EaseCalm
  <2>6. CASE tx' = ClosedTxs(tx[t].inc)
    <3>1. \A u \in Tx : EaseTx(u) BY <2>3, <2>4, <2>6, ClosingEases
    <3>. QED BY <2>1, <3>1, EaseCalm
  <2>. QED BY <2>2, <2>5, <2>6
<1>4. CASE Evidence(t)
  <2>1. /\ Quiet /\ UNCHANGED <<lock, manual>> /\ tx' = ClosedTxs(tx[t].inc)
        /\ pc' = [pc EXCEPT ![t] = IF @ = "settle" THEN "over" ELSE @]
    BY <1>4 DEF Evidence, Quiet, disk, vault, service, route, env, history
  <2>2. tx[t].inc \in Inc BY <1>4, PlaceFacts DEF WorkInv, Evidence, Swapped
  <2>3. \A u \in Tx : ClosingPc(u, tx[t].inc) BY <2>1 DEF ClosingPc, WorkTyped
  <2>4. \A u \in Tx : EaseTx(u) BY <2>1, <2>2, <2>3, ClosingEases
  <2>. QED BY <2>1, <2>4, EaseCalm
<1>. QED BY <1>1, <1>2, <1>3, <1>4

LEMMA ReportCalm ==
  ASSUME Core, NEW i \in Inc, NEW s \in Slot, NEW e \in 0..epoch, Report(i, s, e)
  PROVE  Calm /\ LockInv'
<1>. USE DEF Core
<1>1. Quiet /\ UNCHANGED <<lock, manual>>
  BY DEF Report, Quiet, disk, vault, service, route, env
<1>2. CASE OpenIncidents = {}
  <2>1. UNCHANGED <<tx, pc>> BY <1>2 DEF Report
  <2>2. \A u \in Tx : EaseTx(u) BY <2>1 DEF EaseTx, SameOwner
  <2>. QED BY <1>1, <2>2, EaseCalm
<1>3. CASE OpenIncidents # {}
  <2>1. PICK j \in OpenIncidents : tx' = ClosedTxs(j) /\ pc' = ClosedPcs(j)
    BY <1>3 DEF Report
  <2>2. j \in Inc BY DEF OpenIncidents
  <2>3. \A u \in Tx : EaseTx(u) BY <2>1, <2>2, ClosedPcsClosing, ClosingEases
  <2>. QED BY <1>1, <2>3, EaseCalm
<1>. QED BY <1>2, <1>3

LEMMA IncidentCalm ==
  ASSUME Core, NEW i \in Inc, AttemptRefused(i) \/ Recovered(i)
  PROVE  Calm /\ LockInv'
<1>. USE DEF Core
<1>1. CASE AttemptRefused(i)
  <2>1. Quiet /\ UNCHANGED <<lock, manual>> /\ UNCHANGED <<tx, pc>>
    BY <1>1 DEF AttemptRefused, Quiet, disk, vault, service, route, env
  <2>2. \A u \in Tx : EaseTx(u) BY <2>1 DEF EaseTx, SameOwner
  <2>. QED BY <2>1, <2>2, EaseCalm
<1>2. CASE Recovered(i)
  <2>1. Quiet /\ UNCHANGED <<lock, manual>> /\ tx' = ClosedTxs(i) /\ pc' = ClosedPcs(i)
    BY <1>2 DEF Recovered, Quiet, disk, vault, service, route, env, history
  <2>2. \A u \in Tx : EaseTx(u) BY <2>1, ClosedPcsClosing, ClosingEases
  <2>. QED BY <2>1, <2>2, EaseCalm
<1>. QED BY <1>1, <1>2

LEMMA PolicyCalm ==
  ASSUME Core, NEW mode \in {"auto", "notify"}, SetPolicy(mode)
  PROVE  Calm /\ LockInv'
<1>. USE DEF Core
<1>1. Quiet /\ UNCHANGED <<lock, manual>>
  BY DEF SetPolicy, Quiet, vault, service, route, env, history
<1>2. CASE mode = "auto"
  <2>1. UNCHANGED <<tx, pc>> BY <1>2 DEF SetPolicy, work
  <2>2. \A u \in Tx : EaseTx(u) BY <2>1 DEF EaseTx, SameOwner
  <2>. QED BY <1>1, <2>2, EaseCalm
<1>3. CASE mode # "auto"
  <2> DEFINE T == {t \in Tx : tx[t].auto /\ tx[t].st \in Open}
  <2>1. Withdraw(T) BY <1>3 DEF SetPolicy
  <2>2. T \in SUBSET Tx OBVIOUS
  <2>. HIDE DEF T
  <2>3. \A u \in Tx : EaseTx(u) BY <2>1, <2>2, WithdrawEases
  <2>. QED BY <1>1, <2>3, EaseCalm
<1>. QED BY <1>2, <1>3

LEMMA AskedCalm ==
  ASSUME Core, NEW t \in Tx, NEW i \in Inc, NEW to \in Slot, Attempt(t, i, to) \/ Propose(t, i, to)
  PROVE  Calm /\ LockInv'
<1>. USE DEF Core
<1>1. /\ Quiet /\ UNCHANGED <<lock, manual>> /\ Fresh(t)
      /\ \E p \in {"asked", "attempted"} : pc' = [pc EXCEPT ![t] = p]
      /\ \A u \in Tx \ {t} : tx'[u] = tx[u]
  <2>1. CASE Attempt(t, i, to)
    BY <2>1 DEF Attempt, Asked, Quiet, disk, vault, service, route, env, WorkTyped
  <2>2. CASE Propose(t, i, to)
    BY <2>2 DEF Propose, Asked, Quiet, disk, vault, service, route, env, WorkTyped
  <2>. QED BY <2>1, <2>2
<1>2. /\ pc[t] = "over" /\ pc'[t] \in {"asked", "attempted"}
      /\ \A u \in Tx \ {t} : pc'[u] = pc[u]
  BY <1>1 DEF Fresh, WorkInv, PlaceInv, PlaceOf, WorkTyped
<1>3. row[t].st = "none" /\ moved[t] = None BY <1>1 DEF Fresh, RowInv, Counted
<1>4. LockInv' BY <1>1, <1>2, LockStays DEF Holding
<1>5. \A u \in Tx : CalmTx(u)
  <2>1. CalmTx(t) BY <1>2, <1>3 DEF CalmTx
  <2>2. \A u \in Tx \ {t} : CalmTx(u) BY <1>1, <1>2 DEF CalmTx, RowInv, SameOwner
  <2>. QED BY <2>1, <2>2
<1>. QED BY <1>1, <1>4, <1>5 DEF Calm, Quiet

LEMMA ManualDoneCalm ==
  ASSUME Core, HeldInv, ManualDone
  PROVE  Calm /\ LockInv'
<1>. USE DEF Core
<1>1. /\ Quiet /\ lock = ByManual /\ manual = dflt /\ lock' = None /\ manual' = None
      /\ \A u \in Tx : pc'[u] = IF pc[u] = "waiting" THEN "over" ELSE pc[u]
  BY DEF ManualDone, Quiet, disk, vault, env, history
<1>2. \A u \in Tx : pc[u] \notin Holding BY <1>1, ManualAlone
<1>3. \A u \in Tx : pc'[u] \notin Holding BY <1>1, <1>2 DEF Holding
<1>4. None \notin Tx /\ None # ByManual BY QuotaAssumption DEF ByManual
<1>5. LockInv' BY <1>1, <1>3, <1>4 DEF LockInv
<1>6. ~Lags BY <1>1 DEF HeldInv, Lags
<1>7. ASSUME NEW u \in Tx PROVE CalmTx(u)
  <2>1. pc[u] \notin Holding /\ pc'[u] \notin Holding BY <1>2, <1>3
  <2>2. pc'[u] \in Early => pc[u] \in Early BY <1>1 DEF Early
  <2>. QED BY <2>1, <2>2 DEF CalmTx, RowInv, Holding
<1>. QED BY <1>1, <1>4, <1>5, <1>6, <1>7 DEF Calm, Quiet
-----------------------------------------------------------------------------
(* The steps that are not calm.                                            *)

IntentRow(t) ==
    [BlankRow EXCEPT !.st = "swapping", !.auto = tx[t].auto,
                     !.at = clock, !.from = tx[t].from, !.to = tx[t].to]
FailedRow(r) == [r EXCEPT !.st = "failed"]
BookedRow(r, st, at, known) ==
    [r EXCEPT !.st = st, !.swapped = TRUE, !.at = at, !.known = known]
ReconciledRow(r) == [r EXCEPT !.reconciled = TRUE]

LEMMA IntentFields ==
  ASSUME NEW t \in Tx, tx[t] \in TxRec, clock \in 0..Horizon
  PROVE  LET q == IntentRow(t) IN
         /\ q \in RowRec /\ q.st = "swapping" /\ ~q.known /\ ~q.reconciled /\ ~q.swapped
         /\ q.auto = tx[t].auto /\ q.at = clock /\ q.to = tx[t].to
<1>1. BlankRow \in RowRec /\ ~BlankRow.known /\ ~BlankRow.reconciled /\ ~BlankRow.swapped
  BY BlankTyped DEF BlankRow
<1>2. tx[t].auto \in BOOLEAN /\ tx[t].from \in Slot /\ tx[t].to \in Slot BY DEF TxRec
<1>. QED BY <1>1, <1>2 DEF IntentRow, RowRec

LEMMA RowFields ==
  ASSUME NEW r \in RowRec
  PROVE  /\ LET q == FailedRow(r) IN
              /\ q \in RowRec /\ q.st = "failed" /\ q.auto = r.auto /\ q.at = r.at
         /\ LET q == ReconciledRow(r) IN
              /\ q \in RowRec /\ q.st = r.st /\ q.auto = r.auto /\ q.swapped = r.swapped
              /\ q.at = r.at /\ q.to = r.to /\ q.known = r.known /\ q.reconciled
BY DEF FailedRow, ReconciledRow, RowRec

LEMMA BookedRowFields ==
  ASSUME NEW r \in RowRec, NEW st \in {"committed", "partial"}, NEW at \in 0..Horizon,
         NEW known \in BOOLEAN
  PROVE  LET q == BookedRow(r, st, at, known) IN
         /\ q \in RowRec /\ q.st = st /\ q.auto = r.auto /\ q.swapped /\ q.at = at
         /\ q.to = r.to /\ q.known = known /\ q.reconciled = r.reconciled
BY DEF BookedRow, RowRec

Whole == WorkTyped /\ EnvTyped /\ LockInv /\ WorkInv /\ DiskInv
RowTyped == row \in [Tx -> RowRec]

\* The intent row is written under the budget.
LEMMA IntendKeeps ==
  ASSUME Whole, NEW t \in Tx, Intend(t), Intends(t)
  PROVE  DiskInv' /\ LockInv' /\ RowTyped'
<1>. USE DEF Whole, DiskInv
<1>1. /\ pc[t] = "checking" /\ pc' = [pc EXCEPT ![t] = "moving"] /\ live = tx[t].from
      /\ UNCHANGED <<clock, moved, live, slot, dflt, astray, unrec, up, lock, manual>>
      /\ row' = [row EXCEPT ![t] = IntentRow(t)]
      /\ tx' = [tx EXCEPT ![t].st = "swapping"]
  BY DEF Intend, Intends, IntentRow, vault, service, env, history
<1>2. dflt = tx[t].from BY DEF Intends, Refused
<1>3. tx[t] \in TxRec /\ clock \in 0..Horizon BY DEF WorkTyped, EnvTyped
<1>4. \A u \in Tx : /\ tx'[u].auto = tx[u].auto /\ tx'[u].to = tx[u].to
                    /\ tx'[u].from = tx[u].from
  BY <1>1 DEF WorkTyped, TxRec
<1>5. lock = t /\ \A u \in Tx \ {t} : pc'[u] \notin Holding /\ pc[u] \notin Holding
  BY <1>1 DEF LockInv, Holding, WorkTyped
<1>6. pc'[t] = "moving" /\ \A u \in Tx \ {t} : pc'[u] = pc[u] BY <1>1 DEF WorkTyped
<1>7. LockInv' BY <1>1, <1>6 DEF LockInv, Holding
<1>8. /\ row'[t] = IntentRow(t) /\ \A u \in Tx \ {t} : row'[u] = row[u]
  BY <1>1 DEF EnvTyped
<1>9. RowTyped' BY <1>1, <1>3, IntentFields DEF RowTyped, EnvTyped
<1>10. row[t].st = "none" /\ moved[t] = None BY <1>1 DEF RowInv, Early
<1>11. RowInv'
  <2>1. ASSUME NEW u \in Tx \ {t}
        PROVE  /\ pc'[u] \in Early => row'[u].st = "none" /\ moved'[u] = None
               /\ pc'[u] \notin {"moving", "moved"}
               /\ moved'[u] # None => u \in Counted' /\ moved'[u] = row'[u].at
               /\ row'[u].st = "none" => ~row'[u].auto
    BY <1>1, <1>5, <1>6, <1>8 DEF RowInv, Holding, Counted
  <2>2. /\ row'[t].st = "swapping" /\ ~row'[t].known /\ ~row'[t].reconciled
        /\ row'[t].auto = tx'[t].auto /\ row'[t].to = tx'[t].to /\ row'[t].at = clock'
    BY <1>1, <1>3, <1>4, <1>8, IntentFields
  <2>. QED BY <1>1, <1>6, <1>10, <2>1, <2>2 DEF RowInv, Early
<1>12. HeldInv'
  BY <1>1, <1>2, <1>4, <1>5, <1>6, QuotaAssumption DEF HeldInv, Holding, ByManual
<1>13. LagInv' BY <1>1, <1>2 DEF LagInv, Lags
<1>14. Others(t)' = Counted /\ t \notin Counted
  BY <1>8, <1>10 DEF Others, Counted, RowInv
<1>15. AllowedInv'
  <2>. SUFFICES ASSUME tx[t].auto
                PROVE  /\ \A u \in Counted : row'[u].at + Gap <= clock
                       /\ Cardinality({u \in Counted : row'[u].at + Window > clock}) < Limit
    BY <1>1, <1>4, <1>5, <1>6, <1>14 DEF AllowedInv, Holding
  <2>1. ~BudgetSpent BY DEF Intends, Refused
  <2>2. \A u \in Counted : row'[u].at = row[u].at /\ row[u].at \in Nat
    BY <1>8, <1>14 DEF Counted, EnvTyped, RowRec
  <2>3. clock \in Nat /\ Gap \in Nat /\ Limit \in Nat BY <1>3, QuotaAssumption
  <2>4. \A u \in Counted : row'[u].at + Gap <= clock
    BY <2>1, <2>2, <2>3 DEF BudgetSpent
  <2> DEFINE S == {u \in Counted : row[u].at + Window > clock}
  <2>5. {u \in Counted : row'[u].at + Window > clock} = S BY <2>2
  <2>6. Cardinality(S) \in Nat
    <3>1. S \subseteq Tx BY DEF Counted
    <3>2. IsFiniteSet(S) BY <3>1, FS_Subset, QuotaAssumption
    <3>. QED BY <3>2, FS_CardinalityType
  <2>7. ~(Cardinality(S) >= Limit) BY <2>1 DEF BudgetSpent
  <2>. HIDE DEF S
  <2>8. Cardinality(S) < Limit BY <2>3, <2>6, <2>7
  <2>. QED BY <2>4, <2>5, <2>8
<1>16. SlotsKeepOwner' /\ BudgetHolds' BY <1>1 DEF SlotsKeepOwner, BudgetHolds
<1>. QED BY <1>7, <1>9, <1>11, <1>12, <1>13, <1>15, <1>16

\* The credentials move.
LEMMA MoveKeeps ==
  ASSUME Whole, NEW t \in Tx, Move(t)
  PROVE  DiskInv' /\ LockInv' /\ RowTyped'
<1>. USE DEF Whole, DiskInv
<1>1. /\ pc[t] = "moving" /\ pc' = [pc EXCEPT ![t] = "moved"]
      /\ UNCHANGED <<clock, row, dflt, astray, unrec, up, lock, manual, tx>>
      /\ slot' = [slot EXCEPT ![tx[t].from] = live] /\ live' = slot[tx[t].to]
      /\ moved' = IF tx[t].auto THEN [moved EXCEPT ![t] = clock] ELSE moved
  BY DEF Move, Exchange, disk, service, route, env
<1>2. tx[t] \in TxRec /\ clock \in 0..Horizon /\ tx[t].from \in Slot /\ tx[t].to \in Slot
  BY DEF WorkTyped, EnvTyped, TxRec
<1>3. lock = t /\ \A u \in Tx \ {t} : pc[u] \notin Holding
  BY <1>1 DEF LockInv, Holding
<1>4. pc'[t] = "moved" /\ \A u \in Tx \ {t} : pc'[u] = pc[u] BY <1>1 DEF WorkTyped
<1>5. LockInv' BY <1>1, <1>4 DEF LockInv, Holding
<1>6. RowTyped' BY <1>1 DEF RowTyped, EnvTyped
<1>7. /\ row[t].st = "swapping" /\ ~row[t].known /\ ~row[t].reconciled
      /\ row[t].auto = tx[t].auto /\ row[t].to = tx[t].to /\ row[t].at = clock
      /\ moved[t] = None
  BY <1>1 DEF RowInv
<1>8. \A u \in Tx \ {t} : moved'[u] = moved[u] BY <1>1 DEF EnvTyped
<1>9. moved'[t] = IF tx[t].auto THEN clock ELSE None BY <1>1, <1>7 DEF EnvTyped
<1>10. Counted' = Counted BY <1>1 DEF Counted
<1>11. RowInv'
  <2>1. ASSUME NEW u \in Tx \ {t}
        PROVE  /\ pc'[u] \in Early => row'[u].st = "none" /\ moved'[u] = None
               /\ pc'[u] \notin {"moving", "moved"}
               /\ moved'[u] # None => u \in Counted' /\ moved'[u] = row'[u].at
               /\ row'[u].st = "none" => ~row'[u].auto
    BY <1>1, <1>3, <1>4, <1>8, <1>10 DEF RowInv, Holding
  <2>2. moved'[t] # None => t \in Counted' /\ moved'[t] = row'[t].at
    BY <1>1, <1>7, <1>9, <1>10 DEF Counted
  <2>. QED BY <1>1, <1>4, <1>7, <2>1, <2>2 DEF RowInv, Early
<1>12. HeldInv'
  <2>1. ~astray => live' = tx[t].to BY <1>1, <1>2 DEF SlotsKeepOwner
  <2>2. lock' # ByManual BY <1>1, <1>3, QuotaAssumption DEF ByManual
  <2>. QED BY <1>1, <1>3, <1>4, <2>1, <2>2 DEF HeldInv, Holding
<1>13. LagInv'
  <2>1. t \in Unreconciled' /\ ~row'[t].known BY <1>1, <1>7 DEF Unreconciled
  <2>. QED BY <1>4, <2>1 DEF LagInv
<1>14. AllowedInv' BY <1>3, <1>4 DEF AllowedInv, Holding
<1>15. SlotsKeepOwner'
  BY <1>1, <1>2 DEF SlotsKeepOwner, HeldInv, EnvTyped
<1>16. BudgetHolds'
  <2>1. CASE ~tx[t].auto
    <3>1. moved' = moved BY <1>1, <2>1
    <3>. QED BY <3>1 DEF BudgetHolds
  <2>2. CASE tx[t].auto
    <3> DEFINE A == {u \in Tx : moved[u] # None}
               R(u) == {w \in A : moved[w] <= moved[u] /\ moved[w] + Window > moved[u]}
    <3>1. clock \in Nat /\ clock # None /\ Gap \in Nat \ {0} /\ Window \in Nat /\ Limit \in Nat
      BY <1>2, QuotaAssumption
    <3>2. {u \in Tx : moved'[u] # None} = A \cup {t} /\ t \notin A
      BY <1>7, <1>8, <1>9, <2>2, <3>1
    <3>3. \A u \in A : /\ u \in Tx \ {t} /\ moved'[u] = moved[u] /\ moved[u] \in Nat
                       /\ u \in Others(t) /\ moved[u] = row[u].at
      <4>. SUFFICES ASSUME NEW u \in A
                    PROVE  /\ u \in Tx \ {t} /\ moved'[u] = moved[u] /\ moved[u] \in Nat
                           /\ u \in Others(t) /\ moved[u] = row[u].at
        OBVIOUS
      <4>1. u \in Tx \ {t} /\ moved[u] # None BY <1>7
      <4>2. u \in Counted /\ moved[u] = row[u].at BY <4>1 DEF RowInv
      <4>3. moved[u] \in Nat BY <4>1 DEF EnvTyped
      <4>. QED BY <1>8, <4>1, <4>2, <4>3 DEF Others
    <3>4. /\ \A u \in Others(t) : row[u].at + Gap <= clock
          /\ Cardinality({u \in Others(t) : row[u].at + Window > clock}) < Limit
      BY <1>1, <2>2 DEF AllowedInv
    <3>5. \A u \in A : moved[u] + Gap <= clock BY <3>3, <3>4
    <3>. HIDE DEF A
    <3>6. moved'[t] = clock BY <1>9, <2>2
    <3>7. ASSUME NEW u \in A
          PROVE  {w \in A \cup {t} : moved'[w] <= moved'[u] /\ moved'[w] + Window > moved'[u]} = R(u)
      <4>1. ~(moved'[t] <= moved'[u]) BY <3>1, <3>3, <3>5, <3>6
      <4>. QED BY <3>3, <4>1
    <3>8. \A u \in A : /\ Cardinality(R(u)) <= Limit
                       /\ \A w \in A \ {u} : moved[w] >= moved[u] + Gap \/ moved[u] >= moved[w] + Gap
      BY DEF BudgetHolds, A
    <3> DEFINE L == {w \in A \cup {t} : moved'[w] <= moved'[t] /\ moved'[w] + Window > moved'[t]}
               K == {u \in Others(t) : row[u].at + Window > clock}
    <3>9. L \subseteq K \cup {t} BY <3>3, <3>6
    <3>10. IsFiniteSet(K) /\ IsFiniteSet(K \cup {t}) /\ Cardinality(K \cup {t}) <= Cardinality(K) + 1
           /\ Cardinality(K) \in Nat /\ Cardinality(K \cup {t}) \in Nat
      <4>1. K \subseteq Tx BY DEF Others, Counted
      <4>2. IsFiniteSet(K) BY <4>1, FS_Subset, QuotaAssumption
      <4>. HIDE DEF K
      <4>3. /\ IsFiniteSet(K \cup {t})
            /\ Cardinality(K \cup {t}) = IF t \in K THEN Cardinality(K) ELSE Cardinality(K) + 1
        BY <4>2, FS_AddElement
      <4>4. Cardinality(K) \in Nat /\ Cardinality(K \cup {t}) \in Nat
        BY <4>2, <4>3, FS_CardinalityType
      <4>. QED BY <4>2, <4>3, <4>4
    <3>11. IsFiniteSet(L) /\ Cardinality(L) <= Cardinality(K \cup {t}) /\ Cardinality(L) \in Nat
      BY <3>9, <3>10, FS_Subset, FS_CardinalityType
    <3>12. Cardinality(K) < Limit BY <3>4
    <3>13. Cardinality(L) <= Limit
      <4>. HIDE DEF L, K
      <4>. QED BY <3>1, <3>10, <3>11, <3>12
    <3>14. \A u \in A : clock >= moved[u] + Gap BY <3>1, <3>3, <3>5
    <3>15. ASSUME NEW u \in A \cup {t}
           PROVE  /\ \A w \in (A \cup {t}) \ {u} : moved'[w] >= moved'[u] + Gap
                                                   \/ moved'[u] >= moved'[w] + Gap
                  /\ Cardinality({w \in A \cup {t} : moved'[w] <= moved'[u]
                                                     /\ moved'[w] + Window > moved'[u]}) <= Limit
      <4>1. CASE u = t
        <5>1. \A w \in (A \cup {t}) \ {u} : moved'[u] >= moved'[w] + Gap
          BY <3>3, <3>6, <3>14, <4>1
        <5>. QED BY <3>13, <4>1, <5>1
      <4>2. CASE u \in A
        <5>1. \A w \in A \ {u} : moved'[w] >= moved'[u] + Gap \/ moved'[u] >= moved'[w] + Gap
          BY <3>3, <3>8, <4>2
        <5>2. moved'[t] >= moved'[u] + Gap BY <3>3, <3>6, <3>14, <4>2
        <5>3. Cardinality({w \in A \cup {t} : moved'[w] <= moved'[u]
                                              /\ moved'[w] + Window > moved'[u]}) <= Limit
          BY <3>7, <3>8, <4>2
        <5>. QED BY <5>1, <5>2, <5>3
      <4>. QED BY <4>1, <4>2
    <3>. QED BY <3>2, <3>15 DEF BudgetHolds
  <2>. QED BY <2>1, <2>2
<1>. QED BY <1>5, <1>6, <1>11, <1>12, <1>13, <1>14, <1>15, <1>16
\* A switch that failed leaves everything where it was.
LEMMA MoveFailsKeeps ==
  ASSUME Whole, NEW t \in Tx, MoveFails(t)
  PROVE  DiskInv' /\ LockInv' /\ RowTyped'
<1>. USE DEF Whole, DiskInv
<1>1. /\ pc[t] = "moving" /\ Fail(t, "failed") /\ lock' = None
      /\ UNCHANGED <<clock, dflt, live, slot, moved, astray, unrec, up, manual>>
      /\ row' = [row EXCEPT ![t].st = "failed"] \/ row' = row
  BY DEF MoveFails, vault, service, env, history
<1>2. pc' = [pc EXCEPT ![t] = "over"] /\ pc'[t] = "over" BY <1>1, StopPlace
<1>3. \A u \in Tx \ {t} : pc'[u] = pc[u] BY <1>2 DEF WorkTyped
<1>4. LockInv' BY <1>1, <1>2, <1>3, LockFreed DEF Holding
<1>5. lock = t /\ \A u \in Tx : pc'[u] \notin Holding
  BY <1>1, <1>2, <1>3 DEF LockInv, Holding
<1>6. \A u \in Tx : /\ row[u] \in RowRec
                    /\ row'[u] = row[u] \/ (u = t /\ row'[u] = FailedRow(row[u]))
  BY <1>1 DEF EnvTyped, FailedRow
<1>7. RowTyped'
  <2>1. \A u \in Tx : row'[u] \in RowRec BY <1>6, RowFields
  <2>2. row' = [u \in Tx |-> row'[u]] BY <1>1 DEF EnvTyped
  <2>. QED BY <2>1, <2>2 DEF RowTyped
<1>8. RowInv'
  <2>. SUFFICES ASSUME NEW u \in Tx
                PROVE  /\ pc'[u] \in Early => row'[u].st = "none" /\ moved'[u] = None
                       /\ moved'[u] # None => u \in Counted' /\ moved'[u] = row'[u].at
                       /\ row'[u].st = "none" => ~row'[u].auto
    BY <1>5 DEF RowInv, Holding
  <2>1. CASE u = t
    <3>1. moved'[u] = None /\ row[u].st = "swapping" BY <1>1, <2>1 DEF RowInv
    <3>2. row'[u].st # "none"
      BY <1>6, <3>1, RowFields
    <3>. QED BY <1>2, <2>1, <3>1, <3>2 DEF Early
  <2>2. CASE u # t
    BY <1>1, <1>3, <1>6, <2>2 DEF RowInv, Counted
  <2>. QED BY <2>1, <2>2
<1>9. ~Lags BY <1>1 DEF HeldInv, Lags
<1>10. HeldInv' /\ AllowedInv'
  BY <1>1, <1>5, QuotaAssumption DEF HeldInv, AllowedInv, Holding, ByManual
<1>11. LagInv' BY <1>1, <1>9 DEF LagInv, Lags
<1>12. SlotsKeepOwner' /\ BudgetHolds' BY <1>1 DEF SlotsKeepOwner, BudgetHolds
<1>. QED BY <1>4, <1>7, <1>8, <1>10, <1>11, <1>12

\* The bookkeeping, of which either write may fail.
LEMMA BookKeeps ==
  ASSUME Whole, NEW t \in Tx, Book(t)
  PROVE  DiskInv' /\ LockInv' /\ RowTyped'
<1>. USE DEF Whole, DiskInv
<1>1. /\ pc[t] = "moved" /\ pc' = [pc EXCEPT ![t] = "settle"] /\ lock' = None
      /\ UNCHANGED <<clock, live, slot, moved, astray, up, manual>>
  BY DEF Book, vault, env, history
<1>2. PICK ok \in BOOLEAN, told \in BOOLEAN :
          /\ dflt' = IF ok THEN tx[t].to ELSE dflt
          /\ unrec' = IF ok THEN unrec ELSE [tx |-> t, live |-> tx[t].to]
          /\ row' = IF ~told THEN row
                    ELSE [row EXCEPT ![t].st = IF ok THEN "committed" ELSE "partial",
                                     ![t].swapped = TRUE, ![t].at = clock, ![t].known = ~ok]
  BY DEF Book, Written
<1>3. pc'[t] = "settle" /\ \A u \in Tx \ {t} : pc'[u] = pc[u] BY <1>1 DEF WorkTyped
<1>4. LockInv' BY <1>1, <1>3, LockFreed DEF Holding
<1>5. lock = t /\ \A u \in Tx : pc'[u] \notin Holding
  BY <1>1, <1>3 DEF LockInv, Holding
<1>6. /\ row[t].st = "swapping" /\ ~row[t].known /\ ~row[t].reconciled
      /\ row[t].to = tx[t].to /\ row[t].at = clock
  BY <1>1 DEF RowInv
<1> DEFINE q == BookedRow(row[t], IF ok THEN "committed" ELSE "partial", clock, ~ok)
<1>7. row[t] \in RowRec /\ clock \in 0..Horizon /\ (~ok) \in BOOLEAN /\ tx[t].to \in Slot
  BY DEF EnvTyped, WorkTyped, TxRec
<1>8. /\ q \in RowRec /\ q.st = (IF ok THEN "committed" ELSE "partial") /\ q.auto = row[t].auto
      /\ q.swapped /\ q.at = clock /\ q.to = row[t].to /\ q.known = ~ok
      /\ q.reconciled = row[t].reconciled
  <2> DEFINE st == IF ok THEN "committed" ELSE "partial"
             known == ~ok
  <2>1. st \in {"committed", "partial"} /\ known \in BOOLEAN OBVIOUS
  <2>. HIDE DEF st, known
  <2>2. LET b == BookedRow(row[t], st, clock, known) IN
        /\ b \in RowRec /\ b.st = st /\ b.auto = row[t].auto /\ b.swapped /\ b.at = clock
        /\ b.to = row[t].to /\ b.known = known /\ b.reconciled = row[t].reconciled
    BY <1>7, <2>1, BookedRowFields
  <2>. QED BY <2>2 DEF st, known
<1>9. row' = IF ~told THEN row ELSE [row EXCEPT ![t] = q]
  BY <1>2, <1>7 DEF BookedRow, RowRec, EnvTyped
<1>. HIDE DEF q
<1>10. /\ \A u \in Tx \ {t} : row'[u] = row[u]
       /\ row'[t] = row[t] \/ row'[t] = q
  BY <1>9 DEF EnvTyped
<1>11. RowTyped' BY <1>8, <1>9 DEF RowTyped, EnvTyped
<1>12. RowInv'
  <2>. SUFFICES ASSUME NEW u \in Tx
                PROVE  /\ pc'[u] \in Early => row'[u].st = "none" /\ moved'[u] = None
                       /\ moved'[u] # None => u \in Counted' /\ moved'[u] = row'[u].at
                       /\ row'[u].st = "none" => ~row'[u].auto
    BY <1>5 DEF RowInv, Holding
  <2>1. CASE u = t
    <3>1. moved[t] # None => t \in Counted /\ moved[t] = clock
      BY <1>6 DEF RowInv
    <3>2. /\ row'[t].auto = row[t].auto /\ row'[t].at = clock /\ row'[t].st # "none"
          /\ row'[t].swapped \/ row'[t].st = "swapping"
      <4>1. CASE row'[t] = row[t] BY <1>6, <4>1
      <4>2. CASE row'[t] = q BY <1>8, <4>2
      <4>. QED BY <1>10, <4>1, <4>2
    <3>. QED BY <1>1, <1>3, <2>1, <3>1, <3>2 DEF Early, Counted
  <2>2. CASE u # t
    BY <1>1, <1>3, <1>10, <2>2 DEF RowInv, Counted
  <2>. QED BY <2>1, <2>2
<1>13. HeldInv' /\ AllowedInv'
  BY <1>1, <1>5, QuotaAssumption DEF HeldInv, AllowedInv, Holding, ByManual
<1>14. LagInv'
  <2>. SUFFICES ASSUME Lags'
                PROVE  /\ unrec' # None
                       /\ \E u \in Unreconciled' : ~(row'[u].known /\ row'[u].to = dflt')
    BY DEF LagInv
  <2>1. live = tx[t].to BY <1>1 DEF Lags, HeldInv
  <2>2. ~ok BY <1>1, <1>2, <2>1 DEF Lags
  <2>3. unrec' # None
    <3>1. [tx |-> t, live |-> tx[t].to] \in [tx : Tx, live : Slot \cup {None}] BY <1>7
    <3>. QED BY <1>2, <2>2, <3>1, QuotaAssumption
  <2>4. dflt' = dflt /\ tx[t].to # dflt BY <1>1, <1>2, <2>1, <2>2 DEF Lags
  <2>5. t \in Unreconciled' /\ row'[t].to # dflt'
    <3>1. CASE row'[t] = row[t] BY <1>6, <2>4, <3>1 DEF Unreconciled
    <3>2. CASE row'[t] = q BY <1>6, <1>8, <2>2, <2>4, <3>2 DEF Unreconciled
    <3>. QED BY <1>10, <3>1, <3>2
  <2>. QED BY <2>3, <2>5
<1>15. SlotsKeepOwner' /\ BudgetHolds' BY <1>1 DEF SlotsKeepOwner, BudgetHolds
<1>. QED BY <1>4, <1>11, <1>12, <1>13, <1>14, <1>15

\* Rows are only marked as reconciled.
Marked ==
    \A u \in Tx : row'[u] = row[u] \/ row'[u] = ReconciledRow(row[u])

LEMMA MarkedFields ==
  ASSUME EnvTyped, Marked
  PROVE  /\ \A u \in Tx : /\ row'[u] \in RowRec
                          /\ row'[u].st = row[u].st /\ row'[u].auto = row[u].auto
                          /\ row'[u].swapped = row[u].swapped /\ row'[u].at = row[u].at
                          /\ row'[u].to = row[u].to /\ row'[u].known = row[u].known
         /\ Counted' = Counted
<1>1. \A u \in Tx : /\ row'[u] \in RowRec
                    /\ row'[u].st = row[u].st /\ row'[u].auto = row[u].auto
                    /\ row'[u].swapped = row[u].swapped /\ row'[u].at = row[u].at
                    /\ row'[u].to = row[u].to /\ row'[u].known = row[u].known
  <2>. SUFFICES ASSUME NEW u \in Tx
                PROVE /\ row'[u] \in RowRec
                    /\ row'[u].st = row[u].st /\ row'[u].auto = row[u].auto
                    /\ row'[u].swapped = row[u].swapped /\ row'[u].at = row[u].at
                    /\ row'[u].to = row[u].to /\ row'[u].known = row[u].known
    OBVIOUS
  <2>1. row[u] \in RowRec BY DEF EnvTyped
  <2>. QED BY <2>1, RowFields DEF Marked
<1>. QED BY <1>1 DEF Counted

\* The user names the live account: the default has caught up.
LEMMA ReconcileKeeps ==
  ASSUME Whole, Reconcile
  PROVE  DiskInv' /\ LockInv' /\ RowTyped'
<1>. USE DEF Whole, DiskInv
<1>1. /\ unrec # None /\ lock = None /\ dflt' = live
      /\ UNCHANGED <<clock, live, slot, moved, astray, up, lock, manual, pc>>
      /\ row' = [row EXCEPT ![unrec.tx].reconciled = TRUE] \/ row' = row
  BY DEF Reconcile, vault, route, env, history
<1>2. unrec.tx \in Tx BY <1>1 DEF EnvTyped
<1>3. Marked BY <1>1, <1>2 DEF Marked, ReconciledRow, EnvTyped
<1>4. RowTyped'
  <2>1. row' = [u \in Tx |-> row'[u]] BY <1>1 DEF EnvTyped
  <2>. QED BY <1>3, <2>1, MarkedFields DEF RowTyped
<1>5. \A u \in Tx : pc[u] \notin Holding BY <1>1, ManualAlone
<1>6. RowInv'
  BY <1>1, <1>3, <1>5, MarkedFields DEF RowInv, Holding
<1>7. HeldInv' /\ AllowedInv'
  BY <1>1, <1>5, QuotaAssumption DEF HeldInv, AllowedInv, Holding, ByManual
<1>8. LagInv' BY <1>1 DEF LagInv, Lags
<1>9. LockInv' BY <1>1 DEF LockInv
<1>10. SlotsKeepOwner' /\ BudgetHolds' BY <1>1 DEF SlotsKeepOwner, BudgetHolds
<1>. QED BY <1>4, <1>6, <1>7, <1>8, <1>9, <1>10
\* The manual route, which may move only what no move of a transaction is behind.
LEMMA ManualMoveKeeps ==
  ASSUME Whole, NEW s \in Slot, ManualMove(s)
  PROVE  DiskInv' /\ LockInv' /\ RowTyped'
<1>. USE DEF Whole, DiskInv
<1>1. /\ up /\ lock = None /\ unrec = None /\ lock' = ByManual /\ manual' = s
      /\ slot' = [slot EXCEPT ![dflt] = live] /\ live' = slot[s]
      /\ UNCHANGED <<clock, row, dflt, moved, astray, tx, pc>>
  BY DEF ManualMove, Exchange, disk, work, env, history
<1>2. \A u \in Tx : pc[u] \notin Holding BY <1>1, ManualAlone
<1>3. None # ByManual /\ None \notin Slot /\ ByManual \notin Tx BY QuotaAssumption DEF ByManual
<1>4. astray \/ live = dflt BY <1>1, <1>2, <1>3 DEF LagInv, Lags, Holding
<1>5. dflt \in Slot BY DEF EnvTyped
<1>6. LockInv' BY <1>1, <1>2, <1>3 DEF LockInv
<1>7. RowInv' BY <1>1 DEF RowInv, Counted
<1>8. SlotsKeepOwner' BY <1>1, <1>4, <1>5 DEF SlotsKeepOwner, EnvTyped
<1>9. HeldInv' BY <1>1, <1>2 DEF HeldInv, SlotsKeepOwner, Holding
<1>10. LagInv' BY <1>1 DEF LagInv
<1>11. AllowedInv' BY <1>1, <1>2 DEF AllowedInv, Holding
<1>12. BudgetHolds' BY <1>1 DEF BudgetHolds
<1>13. RowTyped' BY <1>1 DEF RowTyped, EnvTyped
<1>. QED BY <1>6, <1>7, <1>8, <1>9, <1>10, <1>11, <1>12, <1>13

LEMMA ManualPersistKeeps ==
  ASSUME Whole, ManualPersist
  PROVE  DiskInv' /\ LockInv' /\ RowTyped'
<1>. USE DEF Whole, DiskInv
<1>1. /\ lock = ByManual /\ UNCHANGED <<clock, row, live, slot, moved, tx, pc, up, unrec>>
      /\ \/ UNCHANGED <<lock, manual, astray>>
         \/ lock' = None /\ manual' = None /\ astray' = TRUE
  BY DEF ManualPersist, vault, service, work, env
<1>2. \A u \in Tx : pc[u] \notin Holding BY <1>1, ManualAlone
<1>3. None # ByManual /\ None \notin Tx BY QuotaAssumption DEF ByManual
<1>4. LockInv' BY <1>1, <1>2, <1>3 DEF LockInv
<1>5. RowInv' BY <1>1, <1>2 DEF RowInv, Counted, Holding
<1>6. SlotsKeepOwner' /\ BudgetHolds' BY <1>1 DEF SlotsKeepOwner, BudgetHolds
<1>7. HeldInv' BY <1>1, <1>2, <1>3 DEF HeldInv, Holding
<1>8. LagInv' BY <1>1 DEF LagInv, Lags
<1>9. AllowedInv' BY <1>1, <1>2 DEF AllowedInv, Holding
<1>10. RowTyped' BY <1>1 DEF RowTyped, EnvTyped
<1>. QED BY <1>4, <1>5, <1>6, <1>7, <1>8, <1>9, <1>10

LEMMA TickKeeps ==
  ASSUME Whole, Tick
  PROVE  DiskInv' /\ LockInv' /\ RowTyped'
<1>. USE DEF Whole, DiskInv
<1>1. /\ \A u \in Tx : pc[u] \notin {"moving", "moved"}
      /\ UNCHANGED <<row, dflt, live, slot, unrec, tx, pc, lock, manual, up, moved, astray>>
  BY DEF Tick, disk, vault, service, work, route, history
<1>2. LockInv' BY <1>1 DEF LockInv
<1>3. RowInv' BY <1>1 DEF RowInv, Counted
<1>4. SlotsKeepOwner' /\ BudgetHolds' BY <1>1 DEF SlotsKeepOwner, BudgetHolds
<1>5. HeldInv' BY <1>1 DEF HeldInv
<1>6. LagInv' BY <1>1 DEF LagInv, Lags, Unreconciled
<1>7. AllowedInv' BY <1>1 DEF AllowedInv
<1>8. RowTyped' BY <1>1 DEF RowTyped, EnvTyped
<1>. QED BY <1>2, <1>3, <1>4, <1>5, <1>6, <1>7, <1>8

\* What is on disk at a crash is enough.
LEMMA CrashKeeps ==
  ASSUME Whole, Crash
  PROVE  DiskInv' /\ LockInv' /\ RowTyped'
<1>. USE DEF Whole, DiskInv
<1>1. /\ ~up' /\ lock' = None /\ manual' = None /\ pc' = [t \in Tx |-> "over"]
      /\ astray' = (astray \/ (lock = ByManual /\ manual # dflt))
      /\ UNCHANGED <<row, dflt, live, slot, moved>>
  BY DEF Crash, disk, vault
<1>2. \A u \in Tx : pc'[u] = "over" BY <1>1
<1>3. None # ByManual /\ None \notin Tx BY QuotaAssumption DEF ByManual
<1>4. LockInv' BY <1>1, <1>2, <1>3 DEF LockInv, Holding
<1>5. RowInv' BY <1>1, <1>2 DEF RowInv, Counted, Early
<1>6. SlotsKeepOwner' /\ BudgetHolds' BY <1>1 DEF SlotsKeepOwner, BudgetHolds
<1>7. HeldInv' /\ AllowedInv' BY <1>1, <1>2, <1>3 DEF HeldInv, AllowedInv
<1>8. LagInv'
  <2>. SUFFICES ASSUME Lags'
                PROVE  \E t \in Unreconciled : ~(row[t].known /\ row[t].to = dflt)
    BY <1>1 DEF LagInv, Unreconciled
  <2>1. Lags /\ lock # ByManual BY <1>1 DEF Lags, HeldInv
  <2>. QED BY <2>1 DEF LagInv
<1>9. RowTyped' BY <1>1 DEF RowTyped, EnvTyped
<1>. QED BY <1>4, <1>5, <1>6, <1>7, <1>8, <1>9

\* The process starts again and finds the row of a move that was not booked.
LEMMA RestartKeeps ==
  ASSUME Whole, Restart
  PROVE  DiskInv' /\ LockInv' /\ RowTyped'
<1>. USE DEF Whole, DiskInv
<1> DEFINE caught == {t \in Unreconciled : row[t].known /\ row[t].to = dflt}
           left == Unreconciled \ caught
           latest == {t \in left : \A u \in left : row[u].at <= row[t].at}
<1>1. /\ UNCHANGED <<clock, dflt, live, slot, moved, astray, lock, manual, pc, tx>>
      /\ row' = [t \in Tx |-> IF t \in caught THEN ReconciledRow(row[t]) ELSE row[t]]
  BY Zenon DEF Restart, vault, work, route, history, ReconciledRow
<1>2. left # {} => \E t \in latest :
         unrec' = [tx |-> t, live |-> IF row[t].known THEN row[t].to ELSE None]
  BY DEF Restart
<1>3. Marked BY <1>1 DEF Marked
<1>4. RowTyped' BY <1>1, <1>3, MarkedFields DEF RowTyped
<1>5. \A t \in Tx : t \notin caught => row'[t] = row[t] BY <1>1
<1>6. RowInv'
  <2>. SUFFICES ASSUME NEW t \in Tx
                PROVE /\ pc[t] \in Early => row'[t].st = "none" /\ moved[t] = None
                      /\ pc[t] \in {"moving", "moved"} =>
                            /\ row'[t].st = "swapping" /\ ~row'[t].known /\ ~row'[t].reconciled
                            /\ row'[t].auto = tx[t].auto /\ row'[t].to = tx[t].to
                            /\ row'[t].at = clock
                      /\ pc[t] = "moving" => moved[t] = None
                      /\ moved[t] # None => t \in Counted /\ moved[t] = row'[t].at
                      /\ row'[t].st = "none" => ~row'[t].auto
    BY <1>1, <1>3, MarkedFields DEF RowInv
  <2>1. pc[t] \in {"moving", "moved"} => row'[t] = row[t] BY <1>5 DEF RowInv
  <2>2. /\ row'[t].st = row[t].st /\ row'[t].auto = row[t].auto
        /\ row'[t].swapped = row[t].swapped /\ row'[t].at = row[t].at
    BY <1>3, MarkedFields
  <2>. HIDE DEF caught
  <2>. QED BY <2>1, <2>2 DEF RowInv
<1>7. SlotsKeepOwner' /\ BudgetHolds' BY <1>1 DEF SlotsKeepOwner, BudgetHolds
<1>8. HeldInv' BY <1>1 DEF HeldInv
<1>9. LockInv' BY <1>1 DEF LockInv
<1>10. AllowedInv'
  <2>. SUFFICES ASSUME NEW t \in Tx, pc[t] = "moving", tx[t].auto
                PROVE  /\ \A u \in Others(t) : row'[u].at + Gap <= clock
                       /\ Cardinality({u \in Others(t) : row'[u].at + Window > clock}) < Limit
    BY <1>1, <1>3, MarkedFields DEF AllowedInv, Others
  <2>1. \A u \in Others(t) : row'[u].at = row[u].at
    BY <1>3, MarkedFields DEF Others, Counted
  <2>2. {u \in Others(t) : row'[u].at + Window > clock} = {u \in Others(t) : row[u].at + Window > clock}
    BY <2>1
  <2>. QED BY <2>1, <2>2 DEF AllowedInv
<1>11. LagInv'
  <2>. SUFFICES ASSUME Lags, lock # ByManual
                PROVE  /\ unrec' # None
                       /\ \E t \in Unreconciled' : ~(row'[t].known /\ row'[t].to = dflt)
    BY <1>1 DEF LagInv, Lags
  <2>1. PICK t \in Unreconciled : ~(row[t].known /\ row[t].to = dflt) BY DEF LagInv
  <2>2. t \in left /\ t \in Tx BY <2>1 DEF Unreconciled
  <2>3. row'[t] = row[t] BY <1>5, <2>1, <2>2
  <2>4. t \in Unreconciled' BY <2>1, <2>2, <2>3 DEF Unreconciled
  <2>5. PICK u \in latest :
           unrec' = [tx |-> u, live |-> IF row[u].known THEN row[u].to ELSE None]
    BY <1>2, <2>2
  <2>6. unrec' \in [tx : Tx, live : Slot \cup {None}]
    <3>1. u \in Tx /\ row[u].to \in Slot BY DEF Unreconciled, EnvTyped, RowRec
    <3>. QED BY <2>5, <3>1
  <2>7. unrec' # None BY <2>6, QuotaAssumption
  <2>. QED BY <2>1, <2>3, <2>4, <2>7
<1>. QED BY <1>4, <1>6, <1>7, <1>8, <1>9, <1>10, <1>11
\* A step that changes nothing.
LEMMA IdleKeeps ==
  ASSUME Whole, UNCHANGED vars
  PROVE  (WorkTyped /\ EnvTyped /\ LockInv /\ WorkInv /\ DiskInv)'
<1>. USE DEF Whole, vars, disk, vault, service, work, route, env, history
<1>1. WorkTyped' /\ EnvTyped' /\ LockInv' BY DEF WorkTyped, EnvTyped, LockInv
<1>2. WorkInv' BY StillWorks
<1>3. Calm
  BY DEF DiskInv, Calm, CalmTx, SameOwner, RowInv
<1>4. DiskInv' BY <1>3, CalmKeeps
<1>. QED BY <1>1, <1>2, <1>4

-----------------------------------------------------------------------------
(* All steps together.                                                     *)

LEMMA CalmThen ==
  ASSUME Whole, Calm /\ LockInv'
  PROVE  DiskInv' /\ LockInv' /\ RowTyped'
<1>1. RowTyped' BY DEF Whole, Calm, EnvTyped, RowTyped
<1>. QED BY <1>1, CalmKeeps DEF Whole

LEMMA DiskStep ==
  ASSUME Whole, Next
  PROVE  DiskInv' /\ LockInv' /\ RowTyped'
<1>0. Core /\ Works /\ HeldInv /\ epoch \in Nat BY DEF Whole, Core, Works, WorkInv, DiskInv, EnvTyped
<1>1. ASSUME NEW t \in Tx,
             \/ Begin(t) \/ Confirm(t) \/ AckReady(t) \/ AckBusy(t) \/ AckRefused(t) \/ Deadline(t)
      PROVE  DiskInv' /\ LockInv' /\ RowTyped'
  <2>1. Acts(t)
    <3>1. CASE Begin(t) BY <1>0, <3>1, BeginActs
    <3>2. CASE Confirm(t) BY <1>0, <3>2, ConfirmActs
    <3>3. CASE AckReady(t) BY <1>0, <3>3, AckReadyActs
    <3>4. CASE AckBusy(t) BY <1>0, <3>4, AckBusyActs
    <3>5. CASE AckRefused(t) BY <1>0, <3>5, AckRefusedActs
    <3>6. CASE Deadline(t) BY <1>0, <3>6, DeadlineActs
    <3>. QED BY <1>1, <3>1, <3>2, <3>3, <3>4, <3>5, <3>6
  <2>2. Calm /\ LockInv' BY <1>0, <1>1, <2>1, WaitingCalm
  <2>. QED BY <2>2, CalmThen
<1>2. ASSUME NEW t \in Tx,
             \/ TakeLock(t) \/ LockTimeout(t) \/ CheckFails(t) \/ (Intend(t) /\ ~Intends(t))
      PROVE  DiskInv' /\ LockInv' /\ RowTyped'
  <2>1. Acts(t)
    <3>1. CASE TakeLock(t) BY <1>0, <3>1, TakeLockActs
    <3>2. CASE LockTimeout(t) BY <1>0, <3>2, LockTimeoutActs
    <3>3. CASE CheckFails(t) BY <1>0, <3>3, CheckFailsActs
    <3>4. CASE Intend(t) BY <1>0, <3>4, IntendActs
    <3>. QED BY <1>2, <3>1, <3>2, <3>3, <3>4
  <2>2. Calm /\ LockInv' BY <1>0, <1>2, <2>1, CommitCalm
  <2>. QED BY <2>2, CalmThen
<1>3. ASSUME NEW t \in Tx,
             \/ Intend(t) \/ Move(t) \/ MoveFails(t) \/ Book(t)
      PROVE  DiskInv' /\ LockInv' /\ RowTyped'
  <2>1. CASE Intend(t) BY <1>2, <2>1, IntendKeeps
  <2>2. CASE Move(t) BY <2>2, MoveKeeps
  <2>3. CASE MoveFails(t) BY <2>3, MoveFailsKeeps
  <2>4. CASE Book(t) BY <2>4, BookKeeps
  <2>. QED BY <1>3, <2>1, <2>2, <2>3, <2>4
<1>4. ASSUME NEW t \in Tx, NotEligible(t) \/ Cancel(t) \/ SettleTimeout(t) \/ Evidence(t)
      PROVE  DiskInv' /\ LockInv' /\ RowTyped'
  <2>1. Calm /\ LockInv' BY <1>0, <1>4, ServiceCalm
  <2>. QED BY <2>1, CalmThen
<1>5. ASSUME NEW i \in Inc, AttemptRefused(i) \/ Recovered(i)
      PROVE  DiskInv' /\ LockInv' /\ RowTyped'
  BY <1>0, <1>5, IncidentCalm, CalmThen
<1>6. ASSUME NEW t \in Tx, NEW i \in Inc, NEW to \in Slot, Attempt(t, i, to) \/ Propose(t, i, to)
      PROVE  DiskInv' /\ LockInv' /\ RowTyped'
  BY <1>0, <1>6, AskedCalm, CalmThen
<1>7. ASSUME NEW i \in Inc, NEW s \in Slot, NEW e \in 0..epoch, Report(i, s, e)
      PROVE  DiskInv' /\ LockInv' /\ RowTyped'
  BY <1>0, <1>7, ReportCalm, CalmThen
<1>8. ASSUME NEW mode \in {"auto", "notify"}, SetPolicy(mode)
      PROVE  DiskInv' /\ LockInv' /\ RowTyped'
  BY <1>0, <1>8, PolicyCalm, CalmThen
<1>9. ASSUME NEW s \in Slot, ManualMove(s)
      PROVE  DiskInv' /\ LockInv' /\ RowTyped'
  BY <1>9, ManualMoveKeeps
<1>10. CASE Reconcile BY <1>10, ReconcileKeeps
<1>11. CASE ManualPersist BY <1>11, ManualPersistKeeps
<1>12. CASE ManualDone BY <1>0, <1>12, ManualDoneCalm, CalmThen
<1>13. CASE Tick BY <1>13, TickKeeps
<1>14. CASE Crash BY <1>14, CrashKeeps
<1>15. CASE Restart BY <1>15, RestartKeeps
<1>. QED
  BY <1>1, <1>2, <1>3, <1>4, <1>5, <1>6, <1>7, <1>8, <1>9, <1>10, <1>11, <1>12, <1>13,
     <1>14, <1>15
  DEF Next

\* The variables that no other invariant bounds.
Plain ==
    /\ clock \in 0..Horizon /\ up \in BOOLEAN /\ died \in 0..Crashes /\ handed \in 0..ByHand
    /\ policy \in {"auto", "notify"} /\ dflt \in Slot /\ live \in Slot /\ slot \in [Slot -> Slot]
    /\ epoch \in Nat /\ degraded \in BOOLEAN
    /\ unrec \in {None} \cup [tx : Tx, live : Slot \cup {None}]
    /\ moved \in [Tx -> 0..Horizon \cup {None}]
    /\ astray \in BOOLEAN /\ crossed \subseteq Inc

LEMMA WrittenIs == Written \subseteq BOOLEAN
BY QuotaAssumption DEF Written

LEMMA PlainStep ==
  ASSUME Whole, Next
  PROVE  Plain'
<1>. USE DEF Whole
<1>. USE DEF Plain, vars, disk, vault, service, work, route, env, history
<1>0. Plain /\ Works BY DEF EnvTyped, Works, WorkInv
<1>1. ASSUME NEW t \in Tx,
             \/ Begin(t) \/ Confirm(t) \/ AckReady(t) \/ AckBusy(t) \/ AckRefused(t) \/ Deadline(t)
      PROVE  Plain'
  <2>1. CASE Begin(t)
    <3>1. tx[t].inc \in Inc BY <2>1, PlaceFacts DEF Begin, WorkInv
    <3>2. crossed' \subseteq Inc BY <1>0, <2>1, <3>1 DEF Begin
    <3>. QED BY <1>0, <2>1, <3>2 DEF Begin
  <2>2. CASE Confirm(t) BY <1>0, <2>2 DEF Confirm
  <2>3. CASE AckReady(t) BY <1>0, <2>3 DEF AckReady
  <2>4. CASE AckBusy(t) BY <1>0, <2>4 DEF AckBusy
  <2>5. CASE AckRefused(t) BY <1>0, <2>5 DEF AckRefused
  <2>6. CASE Deadline(t) BY <1>0, <2>6 DEF Deadline
  <2>. QED BY <1>1, <2>1, <2>2, <2>3, <2>4, <2>5, <2>6
<1>2. ASSUME NEW t \in Tx, TakeLock(t) \/ LockTimeout(t) \/ CheckFails(t) \/ Intend(t) \/ MoveFails(t)
      PROVE  Plain'
  <2>1. CASE TakeLock(t) BY <1>0, <2>1 DEF TakeLock
  <2>2. CASE LockTimeout(t) BY <1>0, <2>2 DEF LockTimeout
  <2>3. CASE CheckFails(t) BY <1>0, <2>3 DEF CheckFails
  <2>4. CASE Intend(t) BY <1>0, <2>4 DEF Intend
  <2>5. CASE MoveFails(t) BY <1>0, <2>5 DEF MoveFails
  <2>. QED BY <1>2, <2>1, <2>2, <2>3, <2>4, <2>5
<1>3. ASSUME NEW t \in Tx, Move(t) PROVE Plain'
  <2>1. tx[t].from \in Slot /\ tx[t].to \in Slot BY DEF WorkTyped, TxRec
  <2>2. live' \in Slot /\ slot' \in [Slot -> Slot] BY <1>0, <1>3, <2>1 DEF Move, Exchange
  <2>3. moved' \in [Tx -> 0..Horizon \cup {None}] BY <1>0, <1>3 DEF Move
  <2>. QED BY <1>0, <1>3, <2>2, <2>3 DEF Move
<1>4. ASSUME NEW t \in Tx, Book(t) PROVE Plain'
  <2>1. tx[t].to \in Slot BY DEF WorkTyped, TxRec
  <2>2. PICK ok \in BOOLEAN, told \in BOOLEAN :
          /\ dflt' = IF ok THEN tx[t].to ELSE dflt
          /\ unrec' = IF ok THEN unrec ELSE [tx |-> t, live |-> tx[t].to]
          /\ degraded' = ~told
    BY <1>4, WrittenIs DEF Book
  <2>3. dflt' \in Slot /\ degraded' \in BOOLEAN BY <1>0, <2>1, <2>2
  <2>4. unrec' \in {None} \cup [tx : Tx, live : Slot \cup {None}] BY <1>0, <2>1, <2>2
  <2>. QED BY <1>0, <1>4, <2>3, <2>4 DEF Book
<1>5. ASSUME NEW t \in Tx, NotEligible(t) \/ Cancel(t) \/ SettleTimeout(t) \/ Evidence(t)
      PROVE  Plain'
  <2>1. CASE NotEligible(t)
    <3>1. tx[t].inc \in Inc BY <2>1, PlaceFacts DEF NotEligible, WorkInv
    <3>2. crossed' \subseteq Inc BY <1>0, <2>1, <3>1 DEF NotEligible
    <3>. QED BY <1>0, <2>1, <3>2 DEF NotEligible
  <2>2. CASE Cancel(t) BY <1>0, <2>2 DEF Cancel
  <2>3. CASE SettleTimeout(t) BY <1>0, <2>3 DEF SettleTimeout
  <2>4. CASE Evidence(t) BY <1>0, <2>4 DEF Evidence
  <2>. QED BY <1>5, <2>1, <2>2, <2>3, <2>4
<1>6. ASSUME NEW i \in Inc, AttemptRefused(i) \/ Recovered(i) PROVE Plain'
  <2>1. CASE AttemptRefused(i) BY <1>0, <2>1 DEF AttemptRefused
  <2>2. CASE Recovered(i) BY <1>0, <2>2 DEF Recovered
  <2>. QED BY <1>6, <2>1, <2>2
<1>7. ASSUME NEW t \in Tx, NEW i \in Inc, NEW to \in Slot, Attempt(t, i, to) \/ Propose(t, i, to)
      PROVE  Plain'
  <2>1. CASE Attempt(t, i, to) BY <1>0, <2>1 DEF Attempt
  <2>2. CASE Propose(t, i, to) BY <1>0, <2>2 DEF Propose
  <2>. QED BY <1>7, <2>1, <2>2
<1>8. ASSUME NEW i \in Inc, NEW s \in Slot, NEW e \in 0..epoch, Report(i, s, e)
      PROVE  Plain'
  <2>1. crossed' \subseteq Inc BY <1>0, <1>8 DEF Report, OpenIncidents
  <2>. QED BY <1>0, <1>8, <2>1 DEF Report
<1>9. ASSUME NEW mode \in {"auto", "notify"}, SetPolicy(mode) PROVE Plain'
  BY <1>0, <1>9 DEF SetPolicy
<1>10. ASSUME NEW s \in Slot, ManualMove(s) PROVE Plain'
  <2>1. live' \in Slot /\ slot' \in [Slot -> Slot] BY <1>0, <1>10 DEF ManualMove, Exchange
  <2>2. handed' \in 0..ByHand BY <1>0, <1>10, QuotaAssumption DEF ManualMove
  <2>. QED BY <1>0, <1>10, <2>1, <2>2 DEF ManualMove
<1>11. CASE Reconcile
  <2>1. /\ dflt' = live
        /\ \/ unrec' = None /\ epoch' = epoch + 1
           \/ unrec' = unrec /\ epoch' = epoch
    BY <1>11 DEF Reconcile
  <2>. QED BY <1>0, <1>11, <2>1 DEF Reconcile
<1>12. CASE ManualPersist
  <2>1. manual \in Slot
    BY <1>12, QuotaAssumption DEF ManualPersist, LockInv, ByManual
  <2>2. dflt' \in Slot /\ astray' \in BOOLEAN BY <1>0, <1>12, <2>1 DEF ManualPersist
  <2>. QED BY <1>0, <1>12, <2>2 DEF ManualPersist
<1>13. CASE ManualDone
  <2>1. epoch' = epoch + 1 /\ UNCHANGED <<disk, vault, degraded, unrec, handed, env, history>>
    BY <1>13, Zenon DEF ManualDone
  <2>2. epoch' \in Nat BY <1>0, <2>1
  <2>. QED BY <1>0, <2>1, <2>2
<1>14. CASE Tick
  <2>1. clock' \in 0..Horizon BY <1>0, <1>14, QuotaAssumption DEF Tick
  <2>. QED BY <1>0, <1>14, <2>1 DEF Tick
<1>15. CASE Crash
  <2>1. died' \in 0..Crashes BY <1>0, <1>15, QuotaAssumption DEF Crash
  <2>2. astray' \in BOOLEAN BY <1>0, <1>15 DEF Crash
  <2>. QED BY <1>0, <1>15, <2>1, <2>2 DEF Crash
<1>16. CASE Restart
  <2>1. /\ up' = TRUE /\ UNCHANGED <<policy, dflt, vault, epoch, degraded, work, route, clock, died, history>>
    BY <1>16 DEF Restart
  <2>2. \/ unrec' = unrec
        \/ \E t \in Tx : unrec' = [tx |-> t, live |-> IF row[t].known THEN row[t].to ELSE None]
    BY <1>16 DEF Restart, Unreconciled
  <2>3. \A t \in Tx : row[t].to \in Slot BY DEF EnvTyped, RowRec
  <2>4. unrec' \in {None} \cup [tx : Tx, live : Slot \cup {None}] BY <1>0, <2>2, <2>3
  <2>. QED BY <1>0, <2>1, <2>4
<1>. QED
  BY <1>1, <1>2, <1>3, <1>4, <1>5, <1>6, <1>7, <1>8, <1>9, <1>10, <1>11, <1>12, <1>13,
     <1>14, <1>15, <1>16
  DEF Next
\* What the process starts from.
LEMMA Start == Init => Whole
<1>. SUFFICES ASSUME Init PROVE Whole OBVIOUS
<1>1. WorkTyped /\ WorkInv BY BlankWorks DEF Init
<1>2. /\ \A t \in Tx : pc[t] = "over" /\ moved[t] = None /\ row[t] = BlankRow
      /\ live = dflt /\ lock = None /\ manual = None
      /\ slot = [s \in Slot |-> s]
  BY DEF Init
<1>3. EnvTyped
  <2>1. row \in [Tx -> RowRec] BY BlankTyped DEF Init
  <2>2. Home \in Slot /\ 0 \in 0..Horizon /\ 0 \in 0..Crashes /\ 0 \in 0..ByHand BY QuotaAssumption
  <2>. QED BY <2>1, <2>2 DEF Init, EnvTyped
<1>4. LockInv
  <2>1. \A t \in Tx : t # None BY QuotaAssumption
  <2>2. None # ByManual BY QuotaAssumption DEF ByManual
  <2>. QED BY <1>2, <2>1, <2>2 DEF LockInv, Holding
<1>5. RowInv
  <2>1. BlankRow.st = "none" /\ BlankRow.auto = FALSE BY DEF BlankRow
  <2>. QED BY <1>2, <2>1 DEF RowInv, Early
<1>6. HeldInv
  <2>1. None # ByManual BY QuotaAssumption DEF ByManual
  <2>. QED BY <1>2, <2>1 DEF HeldInv
<1>7. LagInv BY <1>2 DEF LagInv, Lags
<1>8. AllowedInv BY <1>2 DEF AllowedInv
<1>9. SlotsKeepOwner BY <1>2 DEF SlotsKeepOwner
<1>10. BudgetHolds BY <1>2 DEF BudgetHolds
<1>. QED BY <1>1, <1>3, <1>4, <1>5, <1>6, <1>7, <1>8, <1>9, <1>10 DEF Whole, DiskInv

\* What every step keeps.
LEMMA Step ==
  ASSUME Whole, [Next]_vars
  PROVE  Whole'
<1>1. CASE Next
  <2>1. WorkInv' /\ WorkTyped'
    BY <1>1, WorkStep, Typing DEF Whole
  <2>2. DiskInv' /\ LockInv' /\ RowTyped' BY <1>1, DiskStep
  <2>3. EnvTyped' BY <1>1, PlainStep, <2>2 DEF Plain, RowTyped, EnvTyped
  <2>. QED BY <2>1, <2>2, <2>3 DEF Whole
<1>2. CASE UNCHANGED vars BY <1>2, IdleKeeps DEF Whole
<1>. QED BY <1>1, <1>2

LEMMA AlwaysWhole == Spec => []Whole
BY Start, Step, PTL DEF Spec

-----------------------------------------------------------------------------
(* The theorems.                                                           *)

\* Every variable of the failover, on disk and in memory, holds a value the code
\* writes there, and the switch lock has the one holder that is past it.
THEOREM QuotaTypeCorrect == Spec => []TypeOK
<1>1. Whole => TypeOK BY Typing DEF Whole
<1>. QED BY <1>1, AlwaysWhole, PTL

\* auto_min_gap_s and the budget window: automatic moves of credentials keep
\* their distance and no window holds more of them than the limit, through crashes
\* and lost writes, because the intent row is counted before anything moves.
THEOREM BudgetIsKept == Spec => []BudgetHolds
<1>1. Whole => BudgetHolds BY DEF Whole, DiskInv
<1>. QED BY <1>1, AlwaysWhole, PTL

\* _exchange: through any order of switches, failures and restarts, no slot comes
\* to hold the credentials of another account.
THEOREM SlotsStayOwned == Spec => []SlotsKeepOwner
<1>1. Whole => SlotsKeepOwner BY DEF Whole, DiskInv
<1>. QED BY <1>1, AlwaysWhole, PTL

\* _mark_unreconciled: while the default does not name the live account and nobody
\* is at work on it, the agent is blocked; also after a crash and a restart.
THEOREM ApartIsBlocked == Spec => []BlockedWhileApart
<1>1. ASSUME Whole PROVE BlockedWhileApart
  <2>1. SUFFICES ASSUME up, lock = None, live # dflt, ~astray, unrec = None PROVE FALSE
    BY DEF BlockedWhileApart
  <2>2. lock # ByManual BY <2>1, QuotaAssumption DEF ByManual
  <2>3. PICK t \in Tx : pc[t] = "moved" BY <1>1, <2>1, <2>2 DEF Whole, DiskInv, LagInv, Lags
  <2>4. lock = t BY <1>1, <2>3 DEF Whole, LockInv, Holding
  <2>. QED BY <2>1, <2>4, QuotaAssumption
<1>. QED BY <1>1, AlwaysWhole, PTL

\* _withdraw and _fail: an incident that says a switch is under way has a
\* transaction that is, and so never swallows the next report for good.
THEOREM SwitchingHasATransaction == Spec => []NoOrphanedSwitching
<1>1. Whole => NoOrphanedSwitching BY DEF Whole, WorkInv
<1>. QED BY <1>1, AlwaysWhole, PTL

\* unsettled: as long as its incident was one attempt's own, a committed switch
\* that no evidence has closed keeps the incident open and settling.
THEOREM SwitchAwaitsEvidence == Spec => []AwaitsEvidence
<1>1. ASSUME Whole PROVE AwaitsEvidence
  <2>1. SUFFICES ASSUME NEW t \in Tx, Unsettled(t), tx[t].inc \notin crossed
                 PROVE  inc[tx[t].inc].open /\ inc[tx[t].inc].st = "settling"
    BY DEF AwaitsEvidence
  <2>2. tx[t].st # "none" BY <2>1 DEF Unsettled, Swapped
  <2>3. HoldOf(t) BY <1>1, <2>1, <2>2 DEF Whole, WorkInv, OwnInv
  <2>. QED BY <2>1, <2>3 DEF HoldOf
<1>. QED BY <1>1, AlwaysWhole, PTL

\* _is_open and _recheck_locked: while the process lives, no step of any coroutine,
\* timer, window or user takes a withdrawn or failed transaction up again.
THEOREM ClosedIsForGood == Spec => ClosedStaysClosed
<1>1. ASSUME Whole, [Next]_vars
      PROVE  [\A t \in Tx : tx[t].st \in {"cancelled", "failed"} /\ up'
                 => tx'[t].st \in {"cancelled", "failed"}]_vars
  <2>1. CASE Next
    <3>1. up' => GoneStays BY <1>1, <2>1, WorkStep, Typing DEF Whole
    <3>. QED BY <3>1 DEF GoneStays, Gone
  <2>2. CASE UNCHANGED vars BY <2>2
  <2>. QED BY <1>1, <2>1, <2>2
<1>. QED BY <1>1, AlwaysWhole, PTL DEF Spec, ClosedStaysClosed
=============================================================================
