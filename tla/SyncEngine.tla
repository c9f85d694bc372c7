----------------------------- MODULE SyncEngine -----------------------------
(***************************************************************************)
(* The cross-device sync engine (backend/agent_team_backend/sync_engine.py)*)
(* for one ordinary scope: several devices of one account, each with its   *)
(* items, its record of what was agreed with the server, its read cursor   *)
(* and its open conflicts.  A round pulls page by page, applies the rows   *)
(* in a worker thread while the user goes on editing, then pushes what     *)
(* differs.  Replies get lost, rows are held back for a key or a file, and *)
(* a device changes its account under a running round.                     *)
(*                                                                         *)
(* A payload stands for its own digest; Absent is both "no such item" and  *)
(* the empty agreed hash, as the code's "" is.                             *)
(***************************************************************************)
EXTENDS Integers, FiniteSets, FiniteSetsExt

CONSTANTS
    Device, Item, Value,
    Absent,       \* no payload: the item is not there
    None,         \* no agreed state, no conflict, no barrier
    Elsewhere,    \* the device that wrote the rows everybody starts with
    Known,        \* the items every device and the server start with
    FirstValue,   \* their payload
    PageSize,     \* the limit of one sync.pull
    MaxEdits,     \* bound: edits and deletes by the users
    MaxTroubles   \* bound: lost rounds, held rows and changes of account

Payload == Value \cup {Absent}
AgreedState == [rev : Nat, hash : Payload, deleted : BOOLEAN]
OpenConflict == [remote : Payload, rev : Nat \ {0}]

ASSUME SyncAssumption ==
    /\ IsFiniteSet(Device) /\ IsFiniteSet(Item)
    /\ Known \subseteq Item
    /\ FirstValue \in Value /\ Absent \notin Value
    /\ Elsewhere \notin Device
    /\ None \notin Nat \cup AgreedState \cup OpenConflict \cup Device
    /\ PageSize \in Nat \ {0}
    /\ MaxEdits \in Nat /\ MaxTroubles \in Nat

VARIABLES
    server,    \* per account, the current row of each item
    local,     \* what the scope's adapter holds: its snapshot()
    state,     \* sync_state: rev, hash and deleted flag last agreed
    cursor,    \* sync_cursor: how far the scope was read
    conflict,  \* sync_conflicts: the remote half of each open clash
    on,        \* the switch of the scope
    gen,       \* SyncStore._generation; it also names the device's account
    round,     \* the running round
    base,      \* history: what the device last had in common with the server
    unheard,   \* history: accepted pushes whose answer was lost
    passed,    \* history: items a newer row of which was read past
    spent      \* how much of each bound is used

vars == <<server, local, state, cursor, conflict, on, gen, round, base,
          unheard, passed, spent>>
Stored == <<state, cursor, conflict>>
History == <<base, unheard, passed>>

Account == 0 .. MaxTroubles
Row == [rev : Nat, val : Payload, dev : Device \cup {Elsewhere, None}]
NoRow == [rev |-> 0, val |-> Absent, dev |-> None]
Idle == [stage |-> "idle"]

Top(a) == Max({0} \cup {server[a][i].rev : i \in Item})

AgreedHash(s) == IF s = None THEN Absent ELSE s.hash
Agreed(rev, val) == [rev |-> rev, hash |-> val, deleted |-> val = Absent]

\* Mutant: a round is never too old.
AlwaysFresh(d) == TRUE

\* Whether the round of d belongs to the account d is signed in to now.
Fresh(d) == round[d].token = gen[d]

Spend(what, most) ==
    /\ spent[what] < most
    /\ spent' = [spent EXCEPT ![what] = @ + 1]

EndRound(d) == round' = [round EXCEPT ![d] = Idle]

-----------------------------------------------------------------------------
Init ==
    \E number \in [Known -> 1 .. Cardinality(Known)] :
        /\ \A i, j \in Known : number[i] = number[j] => i = j
        /\ server = [a \in Account |-> [i \in Item |->
               IF a = 0 /\ i \in Known
               THEN [rev |-> number[i], val |-> FirstValue, dev |-> Elsewhere]
               ELSE NoRow]]
        /\ local = [d \in Device |-> [i \in Item |->
               IF i \in Known THEN FirstValue ELSE Absent]]
        /\ state = [d \in Device |-> [i \in Item |->
               IF i \in Known THEN Agreed(number[i], FirstValue) ELSE None]]
        /\ base = local
        /\ cursor = [d \in Device |-> Cardinality(Known)]
        /\ conflict = [d \in Device |-> [i \in Item |-> None]]
        /\ on = [d \in Device |-> TRUE]
        /\ gen = [d \in Device |-> 0]
        /\ round = [d \in Device |-> Idle]
        /\ unheard = [d \in Device |-> {}]
        /\ passed = [d \in Device |-> {}]
        /\ spent = [edits |-> 0, troubles |-> 0]

-----------------------------------------------------------------------------
(* The user: edits and deletes at any time, also while a round is running. *)

Edit(d, i, v) ==
    /\ local[d][i] # v
    /\ Spend("edits", MaxEdits)
    /\ local' = [local EXCEPT ![d][i] = v]
    /\ UNCHANGED <<server, Stored, on, gen, round, History>>

\* set_scope_enabled: the user turns the section on under the new account.
TurnOn(d) ==
    /\ ~on[d]
    /\ on' = [on EXCEPT ![d] = TRUE]
    /\ UNCHANGED <<server, local, Stored, gen, round, History, spent>>

\* on_account_changed: switches off, a new generation, everything forgotten.
AccountChange(d) ==
    /\ Spend("troubles", MaxTroubles)
    /\ gen' = [gen EXCEPT ![d] = @ + 1]
    /\ on' = [on EXCEPT ![d] = FALSE]
    /\ state' = [state EXCEPT ![d] = [i \in Item |-> None]]
    /\ cursor' = [cursor EXCEPT ![d] = 0]
    /\ conflict' = [conflict EXCEPT ![d] = [i \in Item |-> None]]
    /\ base' = [base EXCEPT ![d] = [i \in Item |-> Absent]]
    /\ unheard' = [unheard EXCEPT ![d] = {}]
    /\ passed' = [passed EXCEPT ![d] = {}]
    /\ UNCHANGED <<server, local, round>>

\* resolve runs beside the rounds, without the lock of the scope.
Resolved(d, i, s) ==
    /\ state' = [state EXCEPT ![d][i] = s]
    /\ conflict' = [conflict EXCEPT ![d][i] = None]
    /\ UNCHANGED <<server, cursor, on, gen, round, passed, spent>>

KeepRemote(d, i) ==
    LET c == conflict[d][i] IN
    /\ c # None
    /\ local' = [local EXCEPT ![d][i] = c.remote]
    /\ Resolved(d, i, Agreed(c.rev, c.remote))
    /\ base' = [base EXCEPT ![d][i] = c.remote]
    /\ unheard' = [unheard EXCEPT ![d] = @ \ {i}]

KeepLocal(d, i) ==
    LET c == conflict[d][i] IN
    /\ c # None
    /\ Resolved(d, i, [rev |-> c.rev, hash |-> Absent, deleted |-> FALSE])
    /\ UNCHANGED <<local, base, unheard>>

-----------------------------------------------------------------------------
(* A round.  The generation is taken first and compared again under the    *)
(* lock, before and after every call, and at every write.                  *)

StartRound(d) ==
    /\ round[d].stage = "idle" /\ on[d]
    /\ round' = [round EXCEPT ![d] = [stage |-> "waiting", token |-> gen[d]]]
    /\ UNCHANGED <<server, local, Stored, on, gen, History, spent>>

\* _check_round raised: the round ends with nothing more written.
Retire(d) ==
    /\ round[d].stage # "idle" /\ ~Fresh(d)
    /\ EndRound(d)
    /\ UNCHANGED <<server, local, Stored, on, gen, History, spent>>

\* The link drops, a call times out or the process dies and starts again.
\* The round is over; what the server did in it stays done.
Fail(d) ==
    /\ round[d].stage # "idle"
    /\ Spend("troubles", MaxTroubles)
    /\ EndRound(d)
    /\ unheard' = [unheard EXCEPT ![d] =
           IF round[d].stage # "sent" \/ ~Fresh(d) THEN @
           ELSE @ \cup {e.item : e \in round[d].accepted}]
    /\ UNCHANGED <<server, local, Stored, on, gen, base, passed>>

(* sync.pull: the server answers with the lowest rows above since.         *)
PageOf(a, since) ==
    LET newer == {i \in Item : server[a][i].rev > since} IN
    {i \in newer : Cardinality({j \in newer :
         server[a][j].rev < server[a][i].rev}) < PageSize}

\* Where a round reads on from: under the lock, at the stored cursor and with
\* no row held yet; after a page, where that page ended.
ReadingFrom(d) ==
    IF round[d].stage = "waiting"
    THEN [since |-> cursor[d], barrier |-> None]
    ELSE [since |-> round[d].since, barrier |-> round[d].barrier]

AskPage(d) ==
    /\ \/ round[d].stage = "waiting" /\ on[d]
       \/ round[d].stage = "pull"
    /\ Fresh(d)
    /\ LET a == gen[d]
           from == ReadingFrom(d)
           page == PageOf(a, from.since) IN
       round' = [round EXCEPT ![d] =
           [stage |-> "page", token |-> @.token, barrier |-> from.barrier,
            rows |-> {[item |-> i, row |-> server[a][i]] : i \in page},
            highest |-> Max({from.since} \cup {server[a][i].rev : i \in page}),
            more |-> \E i \in Item \ page : server[a][i].rev > from.since,
            top |-> Top(a)]]
    /\ UNCHANGED <<server, local, Stored, on, gen, History, spent>>

\* _apply_page begins: one snapshot and one look at the open conflicts.
TakePage(d) ==
    /\ round[d].stage = "page" /\ Fresh(d)
    /\ round' = [round EXCEPT ![d] =
           [stage |-> "apply", token |-> @.token, barrier |-> @.barrier,
            rows |-> @.rows, highest |-> @.highest, more |-> @.more,
            top |-> @.top, snap |-> local[d],
            blocked |-> {i \in Item : conflict[d][i] # None}]]
    /\ UNCHANGED <<server, local, Stored, on, gen, History, spent>>

-----------------------------------------------------------------------------
(* _apply_one, one row after the other in the order of their revs.         *)

\* The row to apply next, of a round whose account is still the one signed in.
NextRow(d, entry) ==
    /\ round[d].stage = "apply" /\ Fresh(d)
    /\ entry \in round[d].rows
    /\ \A other \in round[d].rows : entry.row.rev <= other.row.rev

Done(d, entry) == round' = [round EXCEPT ![d].rows = @ \ {entry}]

\* An item in conflict takes no row; the cursor moves past it all the same.
SkipBlocked(d, entry) ==
    /\ NextRow(d, entry) /\ entry.item \in round[d].blocked
    /\ Done(d, entry)
    /\ passed' = [passed EXCEPT ![d] = @ \cup {entry.item}]
    /\ UNCHANGED <<server, local, Stored, on, gen, base, unheard, spent>>

\* This device's own write coming back: only its rev is recorded.
OwnRow(d, entry) ==
    LET i == entry.item IN
    /\ NextRow(d, entry) /\ i \notin round[d].blocked /\ entry.row.dev = d
    /\ Done(d, entry)
    /\ state' = IF state[d][i] = None THEN state
                ELSE [state EXCEPT ![d][i] = [@ EXCEPT
                          !.rev = entry.row.rev,
                          !.deleted = entry.row.val = Absent]]
    /\ UNCHANGED <<server, local, cursor, conflict, on, gen, History, spent>>

\* Mutant: an item in conflict takes rows like any other.
ForeignBlocked(d, entry) == NextRow(d, entry) /\ entry.row.dev # d

\* A row of another device that may be taken in.
Foreign(d, entry) ==
    /\ NextRow(d, entry)
    /\ entry.item \notin round[d].blocked
    /\ entry.row.dev # d

\* A key or a file the row needs is not here (_HoldPull).  The first held
\* row is the lowest: rows come in the order of their revs.
HoldRow(d, entry) ==
    /\ Foreign(d, entry) /\ entry.row.val # Absent
    /\ Spend("troubles", MaxTroubles)
    /\ round' = [round EXCEPT
           ![d].rows = @ \ {entry},
           ![d].barrier = IF @ = None THEN Max({0, entry.row.rev - 1}) ELSE @]
    /\ UNCHANGED <<server, local, Stored, on, gen, History>>

\* An edit not pushed yet, in the snapshot, against a different payload.
Clashes(d, entry) ==
    LET mine == round[d].snap[entry.item] IN
    /\ mine # AgreedHash(state[d][entry.item])
    /\ mine # entry.row.val

ParkRow(d, entry) ==
    /\ Foreign(d, entry) /\ Clashes(d, entry)
    /\ Done(d, entry)
    /\ conflict' = [conflict EXCEPT ![d][entry.item] =
           [remote |-> entry.row.val, rev |-> entry.row.rev]]
    /\ UNCHANGED <<server, local, state, cursor, on, gen, History, spent>>

\* The adapter is written only where the snapshot differs from the row.
TakeRow(d, entry) ==
    LET i == entry.item IN
    /\ Foreign(d, entry) /\ ~Clashes(d, entry)
    /\ Done(d, entry)
    /\ local' = IF round[d].snap[i] = entry.row.val THEN local
                ELSE [local EXCEPT ![d][i] = entry.row.val]
    /\ state' = [state EXCEPT ![d][i] = Agreed(entry.row.rev, entry.row.val)]
    /\ base' = [base EXCEPT ![d][i] = entry.row.val]
    /\ unheard' = [unheard EXCEPT ![d] = @ \ {i}]
    /\ passed' = [passed EXCEPT ![d] = @ \ {i}]
    /\ UNCHANGED <<server, cursor, conflict, on, gen, spent>>

-----------------------------------------------------------------------------
(* How far the read cursor may move.                                       *)

\* The reply's own cursor counts on the last page only.
ReadUpTo(r) == IF r.more THEN r.highest ELSE Max({r.highest, r.top})

\* Never past a held row, which a later round has to read again.
BehindBarrier(r, to) == IF r.barrier = None THEN to ELSE Min({to, r.barrier})

EndPage(d) ==
    LET r == round[d] IN
    /\ r.stage = "apply" /\ Fresh(d) /\ r.rows = {}
    /\ cursor' = [cursor EXCEPT ![d] =
           Max({@, BehindBarrier(r, ReadUpTo(r))})]
    /\ round' = [round EXCEPT ![d] =
           IF r.more
           THEN [stage |-> "pull", token |-> r.token, since |-> r.highest,
                 barrier |-> r.barrier]
           ELSE [stage |-> "push", token |-> r.token,
                 barrier |-> IF r.barrier = None THEN None
                             ELSE Max({r.barrier, cursor'[d]})]]
    /\ UNCHANGED <<server, local, state, conflict, on, gen, History, spent>>

-----------------------------------------------------------------------------
(* The push.                                                               *)

\* _prepare_push: an item that differs from what was agreed goes up, and so
\* does the delete of one the snapshot no longer lists.
Pending(d) ==
    {i \in Item : conflict[d][i] = None /\
        IF local[d][i] # Absent
        THEN state[d][i] = None \/ state[d][i].deleted
                \/ state[d][i].hash # local[d][i]
        ELSE state[d][i] # None /\ ~state[d][i].deleted}

BaseRev(d, i) == IF state[d][i] = None THEN 0 ELSE state[d][i].rev

NothingToPush(d) ==
    /\ round[d].stage = "push" /\ Pending(d) = {}
    /\ EndRound(d)
    /\ UNCHANGED <<server, local, Stored, on, gen, History, spent>>

\* The server accepts an item whose base is the row it holds, and answers
\* with that row otherwise; the items of a batch get their revs one by one.
Push(d) ==
    LET a == gen[d]
        accepts == {i \in Pending(d) : BaseRev(d, i) = server[a][i].rev} IN
    /\ round[d].stage = "push" /\ Fresh(d) /\ Pending(d) # {}
    /\ \E nth \in [accepts -> 1 .. Cardinality(accepts)] :
        /\ \A i, j \in accepts : nth[i] = nth[j] => i = j
        /\ server' = [server EXCEPT ![a] = [i \in Item |->
               IF i \in accepts
               THEN [rev |-> Top(a) + nth[i], val |-> local[d][i], dev |-> d]
               ELSE @[i]]]
        /\ round' = [round EXCEPT ![d] =
               [stage |-> "sent", token |-> @.token, barrier |-> @.barrier,
                accepted |-> {[item |-> i, rev |-> Top(a) + nth[i],
                               val |-> local[d][i]] : i \in accepts},
                refused |-> {[item |-> i, row |-> server[a][i],
                              val |-> local[d][i]] : i \in Pending(d) \ accepts}]]
    /\ base' = [base EXCEPT ![d] = [i \in Item |->
           IF i \in accepts THEN local[d][i] ELSE @[i]]]
    /\ UNCHANGED <<local, Stored, on, gen, unheard, passed, spent>>

\* Mutant: the cursor jumps to the highest rev of the reply.
Highest(from, revs) == Max({from} \cup revs)

\* _contiguous_cursor: over this device's own revs, up to the first gap.
Contiguous(from, revs) ==
    Max({from} \cup {to \in revs : from < to /\ from + 1 .. to \subseteq revs})

\* A refused item that is the same bytes on both sides is simply agreed.
SameBytes(e) == e.row.val # Absent /\ e.row.val = e.val

\* Mutant: what is there now is recorded as agreed, not what was sent.
PresentHash(d, e) == local[d][e.item]

\* The hash recorded is that of the payload the push carried.
PushedHash(d, e) == e.val

RecordReply(d) ==
    LET r == round[d]
        same == {e \in r.refused : SameBytes(e)}
        clash == r.refused \ same
        agreed == {[item |-> e.item, s |-> Agreed(e.rev, PushedHash(d, e))] : e \in r.accepted}
            \cup {[item |-> e.item, s |-> Agreed(e.row.rev, e.val)] : e \in same}
        settled == {e.item : e \in agreed} IN
    /\ r.stage = "sent" /\ Fresh(d)
    /\ state' = [state EXCEPT ![d] = [i \in Item |->
           IF i \in settled THEN (CHOOSE e \in agreed : e.item = i).s ELSE @[i]]]
    /\ conflict' = [conflict EXCEPT ![d] = [i \in Item |->
           IF \E e \in clash : e.item = i
           THEN LET e == CHOOSE x \in clash : x.item = i IN
                [remote |-> e.row.val, rev |-> e.row.rev]
           ELSE @[i]]]
    /\ cursor' = [cursor EXCEPT ![d] =
           Max({@, BehindBarrier(r, Contiguous(@, {e.rev : e \in r.accepted}))})]
    /\ base' = [base EXCEPT ![d] = [i \in Item |->
           IF \E e \in same : e.item = i
           THEN (CHOOSE e \in same : e.item = i).val ELSE @[i]]]
    /\ unheard' = [unheard EXCEPT ![d] = @ \ settled]
    /\ passed' = [passed EXCEPT ![d] = @ \ settled]
    /\ EndRound(d)
    /\ UNCHANGED <<server, local, on, gen, spent>>

-----------------------------------------------------------------------------
ApplyRow(d) ==
    \E entry \in round[d].rows :
        \/ SkipBlocked(d, entry)
        \/ OwnRow(d, entry)
        \/ HoldRow(d, entry)
        \/ ParkRow(d, entry)
        \/ TakeRow(d, entry)

Next ==
    \E d \in Device :
        \/ \E i \in Item, v \in Payload : Edit(d, i, v)
        \/ \E i \in Item : KeepRemote(d, i) \/ KeepLocal(d, i)
        \/ TurnOn(d)
        \/ AccountChange(d)
        \/ StartRound(d)
        \/ AskPage(d)
        \/ TakePage(d)
        \/ round[d].stage = "apply" /\ ApplyRow(d)
        \/ EndPage(d)
        \/ NothingToPush(d)
        \/ Push(d)
        \/ RecordReply(d)
        \/ Retire(d)
        \/ Fail(d)

Spec == Init /\ [][Next]_vars

-----------------------------------------------------------------------------
\* Every variable has the shape the engine's tables and its round give it; the
\* generation of a round is never ahead, and an open conflict is never about an
\* older row than the one agreed on.
TypeOK ==
    /\ server \in [Account -> [Item -> Row]]
    /\ local \in [Device -> [Item -> Payload]]
    /\ state \in [Device -> [Item -> AgreedState \cup {None}]]
    /\ cursor \in [Device -> Nat]
    /\ conflict \in [Device -> [Item -> OpenConflict \cup {None}]]
    /\ on \in [Device -> BOOLEAN]
    /\ gen \in [Device -> Account]
    /\ \A d \in Device : round[d].stage \in
           {"idle", "waiting", "pull", "page", "apply", "push", "sent"}
    /\ \A d \in Device : round[d].stage \notin {"idle", "waiting"} =>
           round[d].token \in 0 .. gen[d] /\ round[d].barrier \in Nat \cup {None}
    /\ \A d \in Device, i \in Item :
           state[d][i] # None /\ conflict[d][i] # None =>
               state[d][i].rev <= conflict[d][i].rev
    /\ base \in [Device -> [Item -> Payload]]
    /\ unheard \in [Device -> SUBSET Item]
    /\ passed \in [Device -> SUBSET Item]

\* No row of another device is ever left behind the read cursor untaken:
\* it was agreed, or it waits as a conflict, whatever was held back, pushed
\* in between or paged.  (Rows read while their item was in conflict are the
\* exception the code makes: `passed'.)
NothingSkipped ==
    \A d \in Device, i \in Item :
        LET row == server[gen[d]][i] IN
        row.rev # 0 /\ row.rev <= cursor[d] /\ row.dev # d =>
            \/ state[d][i] # None /\ state[d][i].rev >= row.rev
            \/ conflict[d][i] # None
            \/ i \in passed[d]

\* What the engine records of a scope was issued by the server of the account
\* signed in to now: a round of the account before writes nothing of its own.
RevsAreIssued ==
    \A d \in Device :
        /\ cursor[d] <= Top(gen[d])
        /\ \A i \in Item : state[d][i] # None =>
               state[d][i].rev <= server[gen[d]][i].rev

\* The engine itself only ever replaces a payload the device had in common
\* with the server.
Overwrites(d, i) == round'[d] # round[d] /\ local'[d][i] # local[d][i]
EditedSinceSnapshot(d, i) == local[d][i] # round[d].snap[i]
DeleteKept(d, i) ==
    local[d][i] = Absent /\ state[d][i] # None /\ ~state[d][i].deleted
        /\ state[d][i].hash = Absent

\* Pulling never writes over an edit that was not pushed yet, whatever was
\* pushed, refused and resolved before.  Three cases are the code's own and
\* excepted: an edit made after the page's snapshot, an item of which an
\* accepted push was never heard of, and a delete the user chose to keep.
KeepsEdits ==
    [][\A d \in Device, i \in Item :
          Overwrites(d, i) =>
              \/ local[d][i] = base[d][i]
              \/ EditedSinceSnapshot(d, i)
              \/ i \in unheard[d]
              \/ DeleteKept(d, i)]_vars

\* _apply_one: "Applying over an edit this machine has not pushed yet would lose
\* it. That is the one thing this engine must never do".  Stated of an item that
\* is there and that nobody touched since the page's snapshot.
EditsSurvive ==
    [][\A d \in Device, i \in Item :
          Overwrites(d, i) /\ local[d][i] # Absent =>
              local[d][i] = base[d][i] \/ EditedSinceSnapshot(d, i)]_vars
=============================================================================
