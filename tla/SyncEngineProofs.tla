--------------------------- MODULE SyncEngineProofs ---------------------------
(***************************************************************************)
(* What the sync engine never does, for any number of devices, items,      *)
(* payloads, edits, lost rounds and changes of account, and any page size. *)
(*                                                                         *)
(* The invariant is stated of one device at a time, of the rows S of its   *)
(* account and of what the device keeps: st (sync_state), cur (the read    *)
(* cursor), cf (open conflicts), the history b, u, p (base, unheard,       *)
(* passed), its running round r and whether r is fresh (fr).  A step of    *)
(* another device then changes S alone.                                    *)
(***************************************************************************)
EXTENDS SyncEngine, FiniteSetTheorems, WellFoundedInduction, TLAPS

Entry == [item : Item, row : Row]
Accepted == [item : Item, rev : Nat, val : Payload]
Refused == [item : Item, row : Row, val : Payload]
Barrier == Nat \cup {None}

\* The shapes a running round goes through.
ApplyRound ==
    [stage : {"apply"}, token : Nat, barrier : Barrier, rows : SUBSET Entry,
     highest : Nat, more : BOOLEAN, top : Nat,
     snap : [Item -> Payload], blocked : SUBSET Item]
Rounds ==
    {Idle}
    \cup [stage : {"waiting"}, token : Nat]
    \cup [stage : {"pull"}, token : Nat, since : Nat, barrier : Barrier]
    \cup [stage : {"page"}, token : Nat, barrier : Barrier, rows : SUBSET Entry,
          highest : Nat, more : BOOLEAN, top : Nat]
    \cup ApplyRound
    \cup [stage : {"push"}, token : Nat, barrier : Barrier]
    \cup [stage : {"sent"}, token : Nat, barrier : Barrier,
          accepted : SUBSET Accepted, refused : SUBSET Refused]

Typed ==
    /\ server \in [Account -> [Item -> Row]]
    /\ local \in [Device -> [Item -> Payload]]
    /\ state \in [Device -> [Item -> AgreedState \cup {None}]]
    /\ cursor \in [Device -> Nat]
    /\ conflict \in [Device -> [Item -> OpenConflict \cup {None}]]
    /\ on \in [Device -> BOOLEAN]
    /\ gen \in [Device -> Account]
    /\ round \in [Device -> Rounds]
    /\ base \in [Device -> [Item -> Payload]]
    /\ unheard \in [Device -> SUBSET Item]
    /\ passed \in [Device -> SUBSET Item]
    /\ spent \in [edits : Nat, troubles : 0 .. MaxTroubles]
    /\ \A d \in Device :
           /\ gen[d] <= spent.troubles
           /\ round[d].stage # "idle" => round[d].token <= gen[d]

-----------------------------------------------------------------------------
\* The parameters are what the tables of one device hold.
Shape(S, st, cur, cf, b, u, p, r) ==
    /\ S \in [Item -> Row]
    /\ st \in [Item -> AgreedState \cup {None}]
    /\ cur \in Nat
    /\ cf \in [Item -> OpenConflict \cup {None}]
    /\ b \in [Item -> Payload]
    /\ u \in SUBSET Item /\ p \in SUBSET Item
    /\ r \in Rounds

TopOf(S) == Max({0} \cup {S[i].rev : i \in Item})

\* The row of i is no news to the device: it is its own, it was agreed, it
\* waits as a conflict, or it was read past while a conflict was open.
Covers(d, S, st, cf, p, i) ==
    \/ S[i].rev = 0
    \/ S[i].dev = d
    \/ st[i] # None /\ st[i].rev >= S[i].rev
    \/ cf[i] # None /\ cf[i].rev >= S[i].rev
    \/ i \in p

\* Nothing is recorded beyond what the server issued.
IssuedOf(S, st, cur, cf) ==
    /\ cur <= TopOf(S)
    /\ \A i \in Item :
           /\ st[i] # None => st[i].rev <= S[i].rev
           /\ cf[i] # None => cf[i].rev <= S[i].rev
           /\ st[i] # None /\ cf[i] # None => st[i].rev <= cf[i].rev

BehindOf(d, S, st, cur, cf, p) ==
    \A i \in Item : S[i].rev <= cur => Covers(d, S, st, cf, p, i)

\* An accepted push of i whose answer is still on its way.
InFlight(r, fr, i) == fr /\ r.stage = "sent" /\ \E e \in r.accepted : e.item = i

\* What was agreed is what the device had in common with the server, but for
\* pushes nobody answered and deletes the user chose to keep.
BaseOf(st, b, u, r, fr) ==
    \A i \in Item :
        \/ b[i] = AgreedHash(st[i])
        \/ i \in u
        \/ st[i] # None /\ ~st[i].deleted /\ st[i].hash = Absent
        \/ InFlight(r, fr, i)

\* A row the device wrote itself is recorded, or its answer was never heard.
OwnRowKnown(d, row, i, st, cf, b, u) ==
    row.dev = d =>
        /\ \/ i \in u
           \/ /\ st[i] # None /\ st[i].rev = row.rev
              /\ st[i].hash = row.val /\ b[i] = row.val
        /\ cf[i] # None => i \in u /\ cf[i].rev = row.rev /\ cf[i].remote = row.val

OwnOf(d, S, st, cf, b, u, r, fr) ==
    \A i \in Item : InFlight(r, fr, i) \/ OwnRowKnown(d, S[i], i, st, cf, b, u)

PastBarrier(r, row) == r.barrier # None /\ row.rev > r.barrier

PullOf(d, S, st, cur, cf, p, r) ==
    /\ cur <= r.since /\ r.since <= TopOf(S)
    /\ r.barrier # None => r.barrier <= r.since
    /\ \A i \in Item : S[i].rev <= r.since =>
           Covers(d, S, st, cf, p, i) \/ PastBarrier(r, S[i])

\* Rows read and not yet applied: every row up to where the page ends is in
\* them, is covered, or lies past a held one.
PageRead(d, S, st, cur, cf, p, r) ==
    /\ cur <= r.highest /\ r.highest <= TopOf(S) /\ r.top <= TopOf(S)
    /\ r.barrier # None => r.barrier <= r.highest
    /\ \A i \in Item : S[i].rev <= ReadUpTo(r) =>
           \/ Covers(d, S, st, cf, p, i)
           \/ PastBarrier(r, S[i])
           \/ [item |-> i, row |-> S[i]] \in r.rows

\* Rows come in the order of their revs: none is below a held one.
EntryOf(d, S, st, cf, b, u, r, e) ==
    /\ 0 < e.row.rev /\ e.row.rev <= S[e.item].rev
    /\ e.row.rev <= r.highest
    /\ r.barrier # None => r.barrier < e.row.rev
    /\ S[e.item] = e.row \/ (S[e.item].rev > ReadUpTo(r) /\ S[e.item].dev # d)
    /\ st[e.item] # None => st[e.item].rev <= e.row.rev
    /\ cf[e.item] # None => cf[e.item].rev <= e.row.rev
    /\ r.stage = "apply" /\ e.item \notin r.blocked => cf[e.item] = None
    /\ OwnRowKnown(d, e.row, e.item, st, cf, b, u)

RowsOf(d, S, st, cf, b, u, r) ==
    /\ \A e \in r.rows : EntryOf(d, S, st, cf, b, u, r, e)
    /\ \A e, f \in r.rows : e.item = f.item => e = f

\* A row another device wrote after the push was answered.
Later(d, row, cur, r) ==
    /\ row.dev # d /\ row.rev > cur
    /\ \A e \in r.accepted : row.rev > e.rev

SentOf(d, S, st, cur, cf, b, u, r) ==
    /\ IsFiniteSet(r.accepted)
    /\ \A e \in r.accepted :
           /\ e.rev <= TopOf(S) /\ e.rev <= S[e.item].rev
           /\ cf[e.item] = None /\ b[e.item] = e.val
           /\ \/ S[e.item] = [rev |-> e.rev, val |-> e.val, dev |-> d]
              \/ Later(d, S[e.item], cur, r)
    /\ \A e \in r.refused :
           /\ 0 < e.row.rev /\ e.row.rev <= S[e.item].rev
           /\ cf[e.item] = None
           /\ st[e.item] # None => st[e.item].rev <= e.row.rev
           /\ e.row.dev = d => e.item \in u
           /\ S[e.item] = e.row \/ Later(d, S[e.item], cur, r)
           /\ \A f \in r.accepted : f.item # e.item
    /\ \A e, f \in r.accepted : e.item = f.item => e = f
    /\ \A e, f \in r.refused : e.item = f.item => e = f
    /\ \A i \in Item : S[i].rev \in {e.rev : e \in r.accepted} => S[i].dev = d

Reading == {"page", "apply"}

\* The invariant of one device.
Keeps(d, S, st, cur, cf, b, u, p, r, fr) ==
    /\ IssuedOf(S, st, cur, cf)
    /\ BehindOf(d, S, st, cur, cf, p)
    /\ BaseOf(st, b, u, r, fr)
    /\ OwnOf(d, S, st, cf, b, u, r, fr)
    /\ fr /\ r.stage = "pull" => PullOf(d, S, st, cur, cf, p, r)
    /\ fr /\ r.stage \in Reading =>
           /\ PageRead(d, S, st, cur, cf, p, r)
           /\ RowsOf(d, S, st, cf, b, u, r)
    /\ fr /\ r.stage = "sent" => SentOf(d, S, st, cur, cf, b, u, r)

\* The round of d runs under the account d is signed in to.
Current(d) == round[d].stage # "idle" /\ Fresh(d)

DeviceInv(d) ==
    Keeps(d, server[gen[d]], state[d], cursor[d], conflict[d], base[d],
          unheard[d], passed[d], round[d], Current(d))

\* No device has written under an account it is yet to sign in to.
NotYetThere ==
    \A d \in Device, a \in Account, i \in Item : a > gen[d] => server[a][i].dev # d

SyncInv == Typed /\ NotYetThere /\ \A d \in Device : DeviceInv(d)

-----------------------------------------------------------------------------
(* Least and greatest naturals.                                            *)

Below == {ss \in Nat \X Nat : ss[1] < ss[2]}
LEMMA LeastNat ==
  ASSUME NEW S \in SUBSET Nat, S # {}
  PROVE  \E n \in S : \A m \in S : n <= m
<1>1. IsWellFoundedOn(Below, Nat) BY NatLessThanWellFounded DEF OpToRel, Below
<1>2. PICK x \in S : \A y \in S : ~ (<<y, x>> \in Below) BY <1>1, WFMin
<1>3. \A y, z \in Nat : y < z => <<y, z>> \in Below BY DEF Below
<1>4. x \in Nat OBVIOUS
<1>5. ASSUME NEW m \in S PROVE x <= m
  <2>1. m \in Nat OBVIOUS
  <2>2. ~(<<m, x>> \in Below) BY <1>2, Zenon
  <2>3. ~(m < x) BY <1>3, <1>4, <2>1, <2>2, Zenon
  <2>. QED BY <1>4, <2>1, <2>3
<1>. QED BY <1>5

\* A finite set of naturals has a greatest element, and Max is one.
LEMMA GreatestOf ==
  ASSUME NEW S \in SUBSET Nat, IsFiniteSet(S), S # {}
  PROVE  \E x \in S : \A y \in S : y <= x
<1>. DEFINE Has(T) == \E x \in T : \A y \in T : y <= x
            Bad == {n \in Nat : \E T \in SUBSET Nat :
                       IsFiniteSet(T) /\ T # {} /\ Cardinality(T) = n /\ ~Has(T)}
<1>1. SUFFICES ASSUME ~Has(S) PROVE FALSE OBVIOUS
<1>2. Cardinality(S) \in Bad BY <1>1, FS_CardinalityType
<1>3. PICK n \in Bad : \A m \in Bad : n <= m 
   <2>. HIDE DEF Bad
   <2>1. Bad \subseteq Nat BY DEF Bad
   <2>. QED BY <2>1, <1>2, LeastNat
<1>4. PICK T \in SUBSET Nat : IsFiniteSet(T) /\ T # {} /\ Cardinality(T) = n /\ ~Has(T) BY <1>3
<1>5. PICK x \in T : TRUE BY <1>4
<1>6. IsFiniteSet(T \ {x}) /\ Cardinality(T \ {x}) = n - 1 BY <1>4, <1>5, FS_RemoveElement
<1>7. n - 1 \in Nat BY <1>6, FS_CardinalityType
<1>8. n - 1 \notin Bad BY <1>3, <1>7
<1>9. T \ {x} = {} \/ Has(T \ {x})
  <2>1. T \ {x} \in SUBSET Nat OBVIOUS
  <2>. QED BY <1>6, <1>7, <1>8, <2>1
<1>10. CASE T \ {x} = {} 
  <2>1. T = {x} BY <1>5, <1>10
  <2>. QED BY <1>4, <2>1
<1>11. CASE Has(T \ {x})
  <2>1. PICK y \in T \ {x} : \A z \in T \ {x} : z <= y BY <1>11
  <2>2. CASE x <= y BY <1>4, <2>1, <2>2
  <2>3. CASE y <= x
     <3>1. \A z \in T : z <= x BY <2>1, <2>3
     <3>. QED BY <1>4, <1>5, <3>1
  <2>. QED BY <2>2, <2>3
<1>. QED BY <1>9, <1>10, <1>11

LEMMA MaxOf ==
  ASSUME NEW S \in SUBSET Nat, IsFiniteSet(S), S # {}
  PROVE  Max(S) \in S /\ \A y \in S : y <= Max(S)
<1>1. PICK x \in S : \A y \in S : y <= x BY GreatestOf
<1>. QED BY <1>1 DEF Max
LEMMA MinOf ==
  ASSUME NEW S \in SUBSET Nat, S # {}
  PROVE  Min(S) \in S /\ \A y \in S : Min(S) <= y
<1>1. PICK x \in S : \A y \in S : x <= y BY LeastNat
<1>. QED BY <1>1 DEF Min

-----------------------------------------------------------------------------
(* The highest rev of an account.                                          *)

LEMMA FiniteImage ==
  ASSUME NEW A, IsFiniteSet(A), NEW f
  PROVE  IsFiniteSet({f[x] : x \in A})
<1>. DEFINE T == {f[x] : x \in A}
            g == [x \in A |-> f[x]]
<1>1. g \in Surjection(A, T) BY DEF Surjection
<1>. QED BY <1>1, FS_Surjection

LEMMA TopIs ==
  ASSUME NEW S \in [Item -> Row]
  PROVE  /\ TopOf(S) \in Nat
         /\ \A i \in Item : S[i].rev <= TopOf(S)
         /\ TopOf(S) = 0 \/ \E i \in Item : S[i].rev = TopOf(S)
<1>. DEFINE R == {S[i].rev : i \in Item}
<1>1. R \in SUBSET Nat BY DEF Row
<1>2. IsFiniteSet(R)
  <2>. DEFINE f == [i \in Item |-> S[i].rev]
  <2>1. R = {f[i] : i \in Item} OBVIOUS
  <2>2. IsFiniteSet(Item) BY SyncAssumption
  <2>. HIDE DEF f
  <2>3. IsFiniteSet({f[i] : i \in Item}) BY <2>2, FiniteImage
  <2>. QED BY <2>1, <2>3
<1>3. IsFiniteSet({0} \cup R) BY <1>2, FS_Singleton, FS_Union
<1>4. {0} \cup R \in SUBSET Nat BY <1>1
<1>5. TopOf(S) \in {0} \cup R /\ \A y \in {0} \cup R : y <= TopOf(S)
  BY <1>3, <1>4, MaxOf DEF TopOf
<1>. QED BY <1>1, <1>5

LEMMA TopGrows ==
  ASSUME NEW S \in [Item -> Row], NEW T \in [Item -> Row],
         \A i \in Item : S[i].rev <= T[i].rev
  PROVE  TopOf(S) <= TopOf(T)
<1>1. TopOf(S) \in Nat /\ TopOf(T) \in Nat BY TopIs
<1>2. CASE TopOf(S) = 0 BY <1>1, <1>2
<1>3. CASE \E i \in Item : S[i].rev = TopOf(S)
  <2>1. PICK i \in Item : S[i].rev = TopOf(S) BY <1>3
  <2>2. S[i].rev <= T[i].rev /\ T[i].rev <= TopOf(T) /\ T[i].rev \in Nat BY TopIs DEF Row
  <2>. QED BY <1>1, <2>1, <2>2
<1>. QED BY <1>2, <1>3, TopIs

\* A step that does not touch a device nor the rows of its account.
LEMMA Unmoved ==
  ASSUME NEW e \in Device, DeviceInv(e),
         server'[gen'[e]] = server[gen[e]], gen'[e] = gen[e],
         state'[e] = state[e], cursor'[e] = cursor[e], conflict'[e] = conflict[e],
         base'[e] = base[e], unheard'[e] = unheard[e], passed'[e] = passed[e],
         round'[e] = round[e]
  PROVE  DeviceInv(e)'
BY DEF DeviceInv, Current, Fresh

-----------------------------------------------------------------------------
(* Shapes.                                                                 *)

LEMMA RoundShape ==
  ASSUME NEW r \in Rounds
  PROVE  /\ r.stage = "pull" => r.since \in Nat /\ r.barrier \in Barrier
         /\ r.stage \in Reading =>
               /\ r.barrier \in Barrier /\ r.rows \in SUBSET Entry
               /\ r.highest \in Nat /\ r.more \in BOOLEAN /\ r.top \in Nat
         /\ r.stage = "apply" => r.snap \in [Item -> Payload] /\ r.blocked \in SUBSET Item
         /\ r.stage = "push" => r.barrier \in Barrier
         /\ r.stage = "sent" =>
               /\ r.barrier \in Barrier
               /\ r.accepted \in SUBSET Accepted /\ r.refused \in SUBSET Refused
         /\ r.stage # "idle" => r.token \in Nat
         /\ r.stage \in {"idle", "waiting", "pull", "page", "apply", "push", "sent"}
         /\ r.stage = "idle" => r = Idle
         /\ r.stage = "apply" => r \in ApplyRound
BY DEF Rounds, ApplyRound, Idle, Reading

\* The round once the row e is done with.
AfterRow(r, e, bar) == [r EXCEPT !.rows = @ \ {e}, !.barrier = bar]

LEMMA ApplyRoundShape ==
  ASSUME NEW r \in ApplyRound, NEW bar \in Barrier, NEW e, NEW q, q = AfterRow(r, e, bar)
  PROVE  /\ q \in ApplyRound
         /\ q.rows = r.rows \ {e} /\ q.barrier = bar
         /\ q.stage = r.stage /\ q.token = r.token /\ q.highest = r.highest
         /\ q.more = r.more /\ q.top = r.top /\ q.blocked = r.blocked
<1>1. q \in ApplyRound BY DEF ApplyRound, AfterRow
<1>2. /\ q.rows = r.rows \ {e} /\ q.barrier = bar
      /\ q.stage = r.stage /\ q.token = r.token /\ q.highest = r.highest
  BY DEF ApplyRound, AfterRow
<1>3. q.more = r.more /\ q.top = r.top /\ q.blocked = r.blocked
  BY DEF ApplyRound, AfterRow
<1>. QED BY <1>1, <1>2, <1>3

LEMMA SameBarrier ==
  ASSUME NEW r \in ApplyRound, NEW e
  PROVE  [r EXCEPT !.rows = @ \ {e}] = AfterRow(r, e, r.barrier)
BY DEF ApplyRound, AfterRow

LEMMA ReadUpToIs ==
  ASSUME NEW r \in Rounds, r.stage \in Reading
  PROVE  /\ ReadUpTo(r) \in Nat /\ r.highest <= ReadUpTo(r)
         /\ r.more => ReadUpTo(r) = r.highest
         /\ ~r.more => r.top <= ReadUpTo(r)
         /\ ReadUpTo(r) \in {r.highest, r.top}
<1>1. r.highest \in Nat /\ r.top \in Nat /\ r.more \in BOOLEAN BY RoundShape
<1>2. IsFiniteSet({r.highest, r.top})
  <2>1. IsFiniteSet({r.highest}) BY FS_Singleton
  <2>2. IsFiniteSet({r.highest} \cup {r.top}) BY <2>1, FS_AddElement
  <2>. QED BY <2>2, Zenon
<1>3. LET m == Max({r.highest, r.top})
      IN  m \in {r.highest, r.top} /\ r.highest <= m /\ r.top <= m
  BY <1>1, <1>2, MaxOf
<1>. QED BY <1>1, <1>3 DEF ReadUpTo

\* A round that ends, waits or turns to pushing has nothing under way.
LEMMA RoundTurns ==
  ASSUME NEW d, NEW S, NEW st, NEW cur, NEW cf, NEW b, NEW u, NEW p,
         NEW r, NEW fr, NEW r2, NEW fr2,
         Keeps(d, S, st, cur, cf, b, u, p, r, fr),
         ~(fr /\ r.stage = "sent"), r2.stage \in {"idle", "waiting", "push"}
  PROVE  Keeps(d, S, st, cur, cf, b, u, p, r2, fr2)
<1>1. \A i \in Item : ~InFlight(r, fr, i) /\ ~InFlight(r2, fr2, i) BY DEF InFlight
<1>2. r2.stage \notin Reading \cup {"pull", "sent"} BY DEF Reading
<1>. QED BY <1>1, <1>2 DEF Keeps, BaseOf, OwnOf

\* The answer to a push is lost: its accepted items were never heard of.
LEMMA PushUnheard ==
  ASSUME NEW d, NEW S, NEW st, NEW cur, NEW cf, NEW b, NEW u, NEW p,
         NEW r, NEW r2, NEW fr2, NEW u2,
         Shape(S, st, cur, cf, b, u, p, r),
         Keeps(d, S, st, cur, cf, b, u, p, r, TRUE),
         r.stage = "sent", r2.stage = "idle",
         u2 = u \cup {e.item : e \in r.accepted}
  PROVE  Keeps(d, S, st, cur, cf, b, u2, p, r2, fr2)
<1>1. \A i \in Item : i \in u2 <=> (i \in u \/ InFlight(r, TRUE, i)) BY DEF InFlight
<1>2. \A i \in Item : InFlight(r, TRUE, i) => cf[i] = None
  BY DEF Keeps, SentOf, InFlight
<1>3. BaseOf(st, b, u2, r2, fr2) BY <1>1 DEF Keeps, BaseOf
<1>4. OwnOf(d, S, st, cf, b, u2, r2, fr2)
  BY <1>1, <1>2 DEF Keeps, OwnOf, OwnRowKnown
<1>5. r2.stage \notin Reading \cup {"pull", "sent"} BY DEF Reading
<1>. QED BY <1>3, <1>4, <1>5 DEF Keeps

-----------------------------------------------------------------------------
(* A conflict is resolved while a round may run.                           *)

\* The conflict of i is settled, the remote half taken or the local one kept.
Resolves(i, st, cf, b, u, st2, cf2, b2, u2) ==
    /\ i \in Item /\ cf[i] # None
    /\ \A k \in Item \ {i} : st2[k] = st[k] /\ cf2[k] = cf[k] /\ b2[k] = b[k]
                            /\ (k \in u2 <=> k \in u)
    /\ cf2[i] = None /\ st2[i] # None /\ st2[i].rev = cf[i].rev
    /\ \/ /\ st2[i] = Agreed(cf[i].rev, cf[i].remote) /\ b2[i] = cf[i].remote
       \/ /\ st2[i] = [rev |-> cf[i].rev, hash |-> Absent, deleted |-> FALSE]
          /\ b2[i] = b[i] /\ (i \in u2 <=> i \in u)

LEMMA Resolving ==
  ASSUME NEW d, NEW S, NEW st, NEW cur, NEW cf, NEW b, NEW u, NEW p, NEW r, NEW fr,
         Shape(S, st, cur, cf, b, u, p, r),
         Keeps(d, S, st, cur, cf, b, u, p, r, fr),
         NEW i, NEW st2, NEW cf2, NEW b2, NEW u2,
         Resolves(i, st, cf, b, u, st2, cf2, b2, u2)
  PROVE  Keeps(d, S, st2, cur, cf2, b2, u2, p, r, fr)
<1>. USE DEF Resolves
<1>0. ~InFlight(r, fr, i) BY DEF Keeps, SentOf, InFlight
<1>1. /\ cf[i].rev \in Nat /\ cf[i].rev <= S[i].rev /\ S[i].rev \in Nat
      /\ \A k \in Item : st[k] # None => st[k].rev \in Nat
      /\ st[i] # None => st[i].rev <= cf[i].rev
  BY DEF Shape, Keeps, IssuedOf, OpenConflict, AgreedState, Row
<1>2. \A k \in Item : Covers(d, S, st, cf, p, k) => Covers(d, S, st2, cf2, p, k)
  BY <1>1 DEF Covers
<1>3. IssuedOf(S, st2, cur, cf2) BY <1>1 DEF Keeps, IssuedOf
<1>4. BehindOf(d, S, st2, cur, cf2, p) BY <1>2 DEF Keeps, BehindOf
<1>5. BaseOf(st2, b2, u2, r, fr) BY DEF Keeps, BaseOf, AgreedHash, Agreed
<1>6. ASSUME NEW row, OwnRowKnown(d, row, i, st, cf, b, u)
      PROVE  OwnRowKnown(d, row, i, st2, cf2, b2, u2)
  BY <1>6 DEF OwnRowKnown, Agreed
<1>7. ASSUME NEW row, NEW k \in Item \ {i}, OwnRowKnown(d, row, k, st, cf, b, u)
      PROVE  OwnRowKnown(d, row, k, st2, cf2, b2, u2)
  BY <1>7 DEF OwnRowKnown
<1>8. OwnOf(d, S, st2, cf2, b2, u2, r, fr)
  BY <1>0, <1>6, <1>7 DEF Keeps, OwnOf
<1>9. fr /\ r.stage = "pull" => PullOf(d, S, st2, cur, cf2, p, r)
  BY <1>2 DEF Keeps, PullOf
<1>10. ASSUME fr, r.stage \in Reading
       PROVE  PageRead(d, S, st2, cur, cf2, p, r) /\ RowsOf(d, S, st2, cf2, b2, u2, r)
  <2>1. PageRead(d, S, st2, cur, cf2, p, r) BY <1>2, <1>10 DEF Keeps, PageRead
  <2>2. ASSUME NEW e \in r.rows PROVE EntryOf(d, S, st2, cf2, b2, u2, r, e)
    <3>1. EntryOf(d, S, st, cf, b, u, r, e) BY <1>10, <2>2 DEF Keeps, RowsOf
    <3>2. e.item \in Item BY <1>10, RoundShape DEF Shape, Entry
    <3>3. OwnRowKnown(d, e.row, e.item, st2, cf2, b2, u2)
      BY <1>6, <1>7, <3>1, <3>2 DEF EntryOf
    <3>. QED BY <1>1, <3>1, <3>2, <3>3 DEF EntryOf
  <2>. QED BY <1>10, <2>1, <2>2 DEF Keeps, RowsOf
<1>11. ASSUME fr, r.stage = "sent" PROVE SentOf(d, S, st2, cur, cf2, b2, u2, r)
  <2>1. SentOf(d, S, st, cur, cf, b, u, r) BY <1>11 DEF Keeps
  <2>2. \A e \in r.accepted : e.item \in Item \ {i}
    BY <1>11, <2>1, RoundShape DEF Shape, SentOf, Accepted
  <2>3. \A e \in r.refused : e.item \in Item \ {i}
    BY <1>11, <2>1, RoundShape DEF Shape, SentOf, Refused
  <2>. QED BY <2>1, <2>2, <2>3 DEF SentOf
<1>. QED BY <1>3, <1>4, <1>5, <1>8, <1>9, <1>10, <1>11 DEF Keeps

-----------------------------------------------------------------------------
(* One row of a page is done with.                                         *)

\* The round goes on from r to r2, the row e of the page done with.
OneRowLess(r, e, r2) ==
    /\ e \in r.rows /\ \A f \in r.rows : e.row.rev <= f.row.rev
    /\ r.stage = "apply" /\ r2.stage = "apply" /\ r2.rows = r.rows \ {e}
    /\ r2.highest = r.highest /\ r2.more = r.more /\ r2.top = r.top
    /\ r2.blocked = r.blocked
    /\ \/ r2.barrier = r.barrier
       \/ r.barrier = None /\ r2.barrier = e.row.rev - 1

\* What has to hold of the item i of the row, whatever became of the row.
RowSettled(d, S, st, cf, p, r, i, st2, cf2, b2, u2, p2, r2) ==
    /\ st2[i] # None => st2[i].rev <= S[i].rev
    /\ cf2[i] # None => cf2[i].rev <= S[i].rev
    /\ st2[i] # None /\ cf2[i] # None => st2[i].rev <= cf2[i].rev
    /\ \/ b2[i] = AgreedHash(st2[i])
       \/ i \in u2
       \/ st2[i] # None /\ ~st2[i].deleted /\ st2[i].hash = Absent
    /\ OwnRowKnown(d, S[i], i, st2, cf2, b2, u2)
    /\ \/ S[i].rev > ReadUpTo(r)
       \/ /\ Covers(d, S, st, cf, p, i) => Covers(d, S, st2, cf2, p2, i)
          /\ Covers(d, S, st2, cf2, p2, i) \/ PastBarrier(r2, S[i])

\* Nothing changes of any other item.
OnlyItem(i, st, cf, b, u, p, st2, cf2, b2, u2, p2) ==
    \A k \in Item \ {i} :
        /\ st2[k] = st[k] /\ cf2[k] = cf[k] /\ b2[k] = b[k]
        /\ (k \in u2 <=> k \in u) /\ (k \in p2 <=> k \in p)

Applied(d, S, st, cur, cf, b, u, p, r, e, i, st2, cf2, b2, u2, p2, r2) ==
    /\ Shape(S, st, cur, cf, b, u, p, r)
    /\ Keeps(d, S, st, cur, cf, b, u, p, r, TRUE)
    /\ OneRowLess(r, e, r2) /\ i \in Item /\ i = e.item
    /\ OnlyItem(i, st, cf, b, u, p, st2, cf2, b2, u2, p2)
    /\ RowSettled(d, S, st, cf, p, r, i, st2, cf2, b2, u2, p2, r2)

LEMMA Applying ==
  ASSUME NEW d, NEW S, NEW st, NEW cur, NEW cf, NEW b, NEW u, NEW p, NEW r,
         NEW e, NEW i, NEW st2, NEW cf2, NEW b2, NEW u2, NEW p2, NEW r2,
         Applied(d, S, st, cur, cf, b, u, p, r, e, i, st2, cf2, b2, u2, p2, r2)
  PROVE  Keeps(d, S, st2, cur, cf2, b2, u2, p2, r2, TRUE)
<1>. USE DEF Applied, OneRowLess, OnlyItem, RowSettled
<1>0. r.stage \in Reading /\ r2.stage \in Reading BY DEF Reading
<1>1. r.rows \in SUBSET Entry /\ r.highest \in Nat /\ r.barrier \in Barrier
  BY <1>0, RoundShape DEF Shape
<1>1a. RowsOf(d, S, st, cf, b, u, r) BY <1>0 DEF Keeps
<1>1b. \A f \in r.rows : f.row.rev \in Nat BY <1>1 DEF Entry, Row
<1>1c. e.row.rev - 1 # None BY <1>1a, <1>1b, SyncAssumption DEF RowsOf, EntryOf
<1>1d. r2.barrier # None =>
          r2.barrier <= r2.highest /\ \A f \in r2.rows : r2.barrier < f.row.rev
  <2>1. CASE r2.barrier = r.barrier
    BY <1>0, <1>1a, <2>1 DEF Keeps, PageRead, RowsOf, EntryOf
  <2>2. CASE r2.barrier = e.row.rev - 1 /\ \A f \in r.rows : e.row.rev <= f.row.rev
    BY <1>1, <1>1a, <1>1b, <2>2 DEF RowsOf, EntryOf
  <2>. QED BY <2>1, <2>2
<1>1e. \A k \in Item : PastBarrier(r, S[k]) => PastBarrier(r2, S[k]) BY DEF PastBarrier
<1>2. ReadUpTo(r2) = ReadUpTo(r) BY DEF ReadUpTo
<1>3. cur <= ReadUpTo(r) /\ ReadUpTo(r) \in Nat /\ cur \in Nat /\ \A k \in Item : S[k].rev \in Nat
  BY <1>0, <1>1, ReadUpToIs DEF Shape, Keeps, PageRead, Row
<1>4. \A k \in Item \ {i} : Covers(d, S, st, cf, p, k) <=> Covers(d, S, st2, cf2, p2, k)
  BY DEF Covers
<1>5. \A k \in Item : ~InFlight(r, TRUE, k) /\ ~InFlight(r2, TRUE, k) BY DEF InFlight
<1>6. IssuedOf(S, st2, cur, cf2) BY DEF Keeps, IssuedOf
<1>7. BehindOf(d, S, st2, cur, cf2, p2)
  <2>1. S[i].rev <= cur => Covers(d, S, st, cf, p, i) BY DEF Keeps, BehindOf
  <2>2. S[i].rev <= cur => Covers(d, S, st2, cf2, p2, i) BY <1>3, <2>1
  <2>. QED BY <1>4, <2>2 DEF Keeps, BehindOf
<1>8. BaseOf(st2, b2, u2, r2, TRUE) BY <1>5 DEF Keeps, BaseOf
<1>9. ASSUME NEW k \in Item \ {i}, NEW row, OwnRowKnown(d, row, k, st, cf, b, u)
      PROVE  OwnRowKnown(d, row, k, st2, cf2, b2, u2)
  BY <1>9 DEF OwnRowKnown
<1>10. OwnOf(d, S, st2, cf2, b2, u2, r2, TRUE) BY <1>5, <1>9 DEF Keeps, OwnOf
<1>11. PageRead(d, S, st2, cur, cf2, p2, r2)
  <2>1. PageRead(d, S, st, cur, cf, p, r) BY <1>0 DEF Keeps
  <2>2. ASSUME NEW k \in Item \ {i}, S[k].rev <= ReadUpTo(r2)
        PROVE  \/ Covers(d, S, st2, cf2, p2, k) \/ PastBarrier(r2, S[k])
               \/ [item |-> k, row |-> S[k]] \in r2.rows
    <3>1. [item |-> k, row |-> S[k]] # e BY <2>2
    <3>. QED BY <1>1e, <1>2, <1>4, <2>1, <2>2, <3>1 DEF PageRead
  <2>3. ASSUME S[i].rev <= ReadUpTo(r2)
        PROVE  Covers(d, S, st2, cf2, p2, i) \/ PastBarrier(r2, S[i])
    BY <1>2, <1>3, <2>3
  <2>. QED BY <1>1d, <2>1, <2>2, <2>3 DEF PageRead
<1>12. RowsOf(d, S, st2, cf2, b2, u2, r2)
  <2>1. RowsOf(d, S, st, cf, b, u, r) BY <1>0 DEF Keeps
  <2>2. ASSUME NEW f \in r2.rows PROVE EntryOf(d, S, st2, cf2, b2, u2, r2, f)
    <3>1. f.item \in Item \ {i} BY <1>1, <2>1 DEF RowsOf, Entry
    <3>2. EntryOf(d, S, st, cf, b, u, r, f) BY <2>1 DEF RowsOf
    <3>3. OwnRowKnown(d, f.row, f.item, st2, cf2, b2, u2) BY <1>9, <3>1, <3>2 DEF EntryOf
    <3>. QED BY <1>1d, <1>2, <3>1, <3>2, <3>3 DEF EntryOf
  <2>. QED BY <2>1, <2>2 DEF RowsOf
<1>13. r2.stage # "pull" /\ r2.stage # "sent" OBVIOUS
<1>. QED BY <1>6, <1>7, <1>8, <1>10, <1>11, <1>12, <1>13 DEF Keeps
\* The same, of the device that applies the row.
LEMMA RowDone ==
  ASSUME Typed, NEW d \in Device, DeviceInv(d), NEW e, NextRow(d, e),
         server' = server, gen' = gen, cursor' = cursor,
         round'[d].token = round[d].token, OneRowLess(round[d], e, round'[d]),
         OnlyItem(e.item, state[d], conflict[d], base[d], unheard[d], passed[d],
                  state'[d], conflict'[d], base'[d], unheard'[d], passed'[d]),
         RowSettled(d, server[gen[d]], state[d], conflict[d], passed[d], round[d],
                    e.item, state'[d], conflict'[d], base'[d], unheard'[d],
                    passed'[d], round'[d])
  PROVE  DeviceInv(d)'
<1>. DEFINE S == server[gen[d]]
<1>1. Shape(S, state[d], cursor[d], conflict[d], base[d], unheard[d], passed[d], round[d])
  BY DEF Typed, Shape
<1>2. /\ Current(d) = TRUE /\ Current(d)' = TRUE
      /\ round[d].stage = "apply" /\ e \in round[d].rows
  BY DEF Current, Fresh, NextRow, OneRowLess
<1>3. e.item \in Item BY <1>1, <1>2, RoundShape DEF Shape, Reading, Entry
<1>4. Keeps(d, S, state[d], cursor[d], conflict[d], base[d], unheard[d], passed[d],
            round[d], TRUE)
  BY <1>2 DEF DeviceInv
<1>5. Applied(d, S, state[d], cursor[d], conflict[d], base[d], unheard[d], passed[d],
              round[d], e, e.item, state'[d], conflict'[d], base'[d], unheard'[d],
              passed'[d], round'[d])
  BY <1>1, <1>3, <1>4 DEF Applied
<1>6. Keeps(d, S, state'[d], cursor[d], conflict'[d], base'[d], unheard'[d], passed'[d],
            round'[d], TRUE)
  BY <1>5, Applying
<1>7. server'[gen'[d]] = S /\ cursor'[d] = cursor[d] OBVIOUS
<1>. QED BY <1>2, <1>6, <1>7 DEF DeviceInv
\* What is known of the next row, its item and the round.
LEMMA RowFacts ==
  ASSUME Typed, NEW d \in Device, DeviceInv(d), NEW e, NextRow(d, e),
         NEW S, S = server[gen[d]]
  PROVE  /\ e \in Entry /\ e.item \in Item /\ e.row \in Row
         /\ round[d] \in Rounds /\ round[d].stage = "apply"
         /\ S \in [Item -> Row]
         /\ EntryOf(d, S, state[d], conflict[d], base[d], unheard[d], round[d], e)
         /\ \A i \in Item :
               /\ OwnRowKnown(d, S[i], i, state[d], conflict[d], base[d], unheard[d])
               /\ \/ base[d][i] = AgreedHash(state[d][i])
                  \/ i \in unheard[d]
                  \/ state[d][i] # None /\ ~state[d][i].deleted /\ state[d][i].hash = Absent
         /\ IssuedOf(S, state[d], cursor[d], conflict[d])
<1>1. /\ round[d] \in Rounds /\ S \in [Item -> Row]
      /\ round[d].stage = "apply" /\ Fresh(d) /\ e \in round[d].rows
  BY DEF Typed, NextRow
<1>2. e \in Entry /\ e.item \in Item /\ e.row \in Row
  BY <1>1, RoundShape DEF Reading, Entry
<1>3. Keeps(d, S, state[d], cursor[d], conflict[d], base[d], unheard[d], passed[d],
            round[d], TRUE)
  <2>1. Current(d) = TRUE BY <1>1 DEF Current
  <2>. QED BY <2>1 DEF DeviceInv
<1>4. \A i : ~InFlight(round[d], TRUE, i) BY <1>1 DEF InFlight
<1>. QED BY <1>1, <1>2, <1>3, <1>4 DEF Keeps, BaseOf, OwnOf, RowsOf, Reading

\* The round itself: one row less, and perhaps a barrier.
LEMMA RowRound ==
  ASSUME Typed, NEW d \in Device, NEW e, NextRow(d, e), NEW bar \in Barrier,
         \/ bar = round[d].barrier
         \/ round[d].barrier = None /\ bar = e.row.rev - 1,
         round' = [round EXCEPT ![d] = AfterRow(@, e, bar)]
  PROVE  /\ round' \in [Device -> Rounds]
         /\ OneRowLess(round[d], e, round'[d])
         /\ round'[d].barrier = bar
         /\ \A f \in Device : round'[f].token = round[f].token
                             /\ round'[f].stage = round[f].stage
         /\ \A f \in Device \ {d} : round'[f] = round[f]
<1>1. round \in [Device -> Rounds] /\ round[d].stage = "apply" BY DEF Typed, NextRow
<1>2. round[d] \in ApplyRound BY <1>1, RoundShape
<1>3. round'[d] = AfterRow(round[d], e, bar) BY <1>1
<1>4. /\ round'[d] \in ApplyRound
      /\ round'[d].rows = round[d].rows \ {e} /\ round'[d].barrier = bar
      /\ round'[d].stage = round[d].stage /\ round'[d].token = round[d].token
      /\ round'[d].highest = round[d].highest /\ round'[d].more = round[d].more
      /\ round'[d].top = round[d].top /\ round'[d].blocked = round[d].blocked
  BY <1>2, <1>3, ApplyRoundShape
<1>5. ApplyRound \subseteq Rounds BY DEF Rounds
<1>6. \A f \in Device \ {d} : round'[f] = round[f] BY <1>1
<1>7. round' \in [Device -> Rounds]
  <2>1. round' = [f \in Device |-> round'[f]] BY <1>1
  <2>. QED BY <1>1, <1>4, <1>5, <1>6, <2>1
<1>. QED BY <1>1, <1>4, <1>6, <1>7 DEF NextRow, OneRowLess

LEMMA DoneRound ==
  ASSUME Typed, NEW d \in Device, NEW e, NextRow(d, e), Done(d, e)
  PROVE  /\ round' \in [Device -> Rounds]
         /\ OneRowLess(round[d], e, round'[d])
         /\ round'[d].barrier = round[d].barrier
         /\ \A f \in Device : round'[f].token = round[f].token
                             /\ round'[f].stage = round[f].stage
         /\ \A f \in Device \ {d} : round'[f] = round[f]
<1>1. round \in [Device -> Rounds] BY DEF Typed
<1>2. round[d].barrier \in Barrier BY <1>1, RoundShape DEF NextRow, Reading
<1>3. round[d] \in ApplyRound BY <1>1, RoundShape DEF NextRow
<1>4. round' = [round EXCEPT ![d] = [round[d] EXCEPT !.rows = @ \ {e}]]
  BY <1>1 DEF Done
<1>5. round' = [round EXCEPT ![d] = AfterRow(@, e, round[d].barrier)]
  BY <1>3, <1>4, SameBarrier, Zenon
<1>. QED BY <1>2, <1>5, RowRound
-----------------------------------------------------------------------------
(* The actions, one by one.                                                *)

\* Nothing changes of any device but d.
Apart(d) ==
    \A f \in Device \ {d} :
        /\ state'[f] = state[f] /\ cursor'[f] = cursor[f] /\ conflict'[f] = conflict[f]
        /\ base'[f] = base[f] /\ unheard'[f] = unheard[f] /\ passed'[f] = passed[f]
        /\ round'[f] = round[f]

LEMMA OneMoves ==
  ASSUME SyncInv, NEW d \in Device, server' = server, gen' = gen, Apart(d),
         Typed', DeviceInv(d)'
  PROVE  SyncInv'
<1>1. ASSUME NEW f \in Device \ {d} PROVE DeviceInv(f)'
  <2>1. DeviceInv(f) BY DEF SyncInv
  <2>. QED BY <2>1, Unmoved DEF Apart
<1>2. NotYetThere' BY DEF SyncInv, NotYetThere
<1>. QED BY <1>1, <1>2 DEF SyncInv

\* The bounds are spent one at a time.
LEMMA Spending ==
  ASSUME spent \in [edits : Nat, troubles : 0 .. MaxTroubles],
         Spend("troubles", MaxTroubles) \/ Spend("edits", MaxEdits)
  PROVE  /\ spent' \in [edits : Nat, troubles : 0 .. MaxTroubles]
         /\ spent.troubles <= spent'.troubles
         /\ Spend("troubles", MaxTroubles) => spent'.troubles = spent.troubles + 1
<1>1. /\ spent = [edits |-> spent.edits, troubles |-> spent.troubles]
      /\ spent.edits \in Nat /\ spent.troubles \in 0 .. MaxTroubles
  OBVIOUS
<1>2. CASE Spend("troubles", MaxTroubles)
  <2>1. /\ spent.troubles < MaxTroubles
        /\ spent' = [spent EXCEPT !.troubles = @ + 1]
    BY <1>2 DEF Spend
  <2>2. spent' = [edits |-> spent.edits, troubles |-> spent.troubles + 1]
    BY <1>1, <2>1
  <2>. QED BY <1>1, <2>1, <2>2, SyncAssumption
<1>3. CASE Spend("edits", MaxEdits)
  <2>1. spent' = [spent EXCEPT !.edits = @ + 1] BY <1>3 DEF Spend
  <2>2. spent' = [edits |-> spent.edits + 1, troubles |-> spent.troubles]
    BY <1>1, <2>1
  <2>3. Spend("troubles", MaxTroubles) => spent'.troubles = spent.troubles + 1
    BY <1>1 DEF Spend
  <2>. QED BY <1>1, <2>2, <2>3, SyncAssumption
<1>. QED BY <1>2, <1>3

LEMMA SkipBlockedStep ==
  ASSUME SyncInv, NEW d \in Device, NEW e, SkipBlocked(d, e)
  PROVE  SyncInv'
<1>. USE DEF SyncInv
<1>1. NextRow(d, e) /\ Done(d, e) BY DEF SkipBlocked
<1>2. e.item \in Item BY <1>1, RowFacts
<1>3. Typed'
  <2>1. round' \in [Device -> Rounds] /\ \A f \in Device :
           round'[f].token = round[f].token /\ round'[f].stage = round[f].stage
    BY <1>1, DoneRound
  <2>. QED BY <1>2, <2>1 DEF Typed, SkipBlocked, Stored
<1>4. RowSettled(d, server[gen[d]], state[d], conflict[d], passed[d], round[d],
                 e.item, state'[d], conflict'[d], base'[d], unheard'[d],
                 passed'[d], round'[d])
  <2>1. e.item \in passed'[d] BY <1>2 DEF SkipBlocked, Typed
  <2>. QED BY <1>1, <1>2, <2>1, RowFacts
       DEF SkipBlocked, Stored, RowSettled, Covers, IssuedOf
<1>5. OnlyItem(e.item, state[d], conflict[d], base[d], unheard[d], passed[d],
               state'[d], conflict'[d], base'[d], unheard'[d], passed'[d])
  BY DEF SkipBlocked, Stored, OnlyItem, Typed
<1>6. DeviceInv(d)'
  BY <1>1, <1>4, <1>5, DoneRound, RowDone DEF SkipBlocked, Stored
<1>7. Apart(d) BY <1>1, DoneRound DEF Apart, SkipBlocked, Stored, Typed
<1>. QED BY <1>3, <1>6, <1>7, OneMoves DEF SkipBlocked
LEMMA OwnRowStep ==
  ASSUME SyncInv, NEW d \in Device, NEW e, OwnRow(d, e)
  PROVE  SyncInv'
<1>. USE DEF SyncInv
<1>. DEFINE i == e.item
            s == [state[d][i] EXCEPT !.rev = e.row.rev, !.deleted = e.row.val = Absent]
<1>1. NextRow(d, e) /\ Done(d, e) /\ i \notin round[d].blocked /\ e.row.dev = d
  BY DEF OwnRow
<1>2. i \in Item /\ e.row \in Row BY <1>1, RowFacts
<1>3. /\ state[d][i] # None => state'[d][i] = s
      /\ state[d][i] = None => state'[d][i] = None
      /\ \A k \in Item \ {i} : state'[d][k] = state[d][k]
      /\ \A f \in Device \ {d} : state'[f] = state[f]
  BY <1>2 DEF OwnRow, Typed
<1>4. ASSUME state[d][i] # None
      PROVE  /\ s \in AgreedState /\ s # None
             /\ s.rev = e.row.rev /\ s.hash = state[d][i].hash
  <2>1. state[d][i] \in AgreedState BY <1>2, <1>4 DEF Typed
  <2>2. s \in AgreedState BY <1>2, <2>1 DEF AgreedState, Row
  <2>. QED BY <2>1, <2>2, SyncAssumption DEF AgreedState
<1>5. Typed'
  <2>1. round' \in [Device -> Rounds] /\ \A f \in Device :
           round'[f].token = round[f].token /\ round'[f].stage = round[f].stage
    BY <1>1, DoneRound
  <2>2. state' \in [Device -> [Item -> AgreedState \cup {None}]]
    <3>1. CASE state[d][i] = None BY <3>1 DEF OwnRow, Typed
    <3>2. CASE state[d][i] # None
      <4>1. state' = [state EXCEPT ![d][i] = s] BY <3>2 DEF OwnRow
      <4>. QED BY <1>2, <1>4, <3>2, <4>1 DEF Typed
    <3>. QED BY <3>1, <3>2
  <2>. QED BY <2>1, <2>2 DEF Typed, OwnRow, History
<1>6. RowSettled(d, server[gen[d]], state[d], conflict[d], passed[d], round[d],
                 i, state'[d], conflict'[d], base'[d], unheard'[d],
                 passed'[d], round'[d])
  <2>. DEFINE S == server[gen[d]]
  <2>. HIDE DEF s
  <2>1. /\ conflict'[d] = conflict[d] /\ base'[d] = base[d]
        /\ unheard'[d] = unheard[d] /\ passed'[d] = passed[d]
    BY DEF OwnRow, History
  <2>2. /\ EntryOf(d, S, state[d], conflict[d], base[d], unheard[d], round[d], e)
        /\ round[d].stage = "apply" /\ S[i] \in Row
        /\ OwnRowKnown(d, S[i], i, state[d], conflict[d], base[d], unheard[d])
        /\ \/ base[d][i] = AgreedHash(state[d][i])
           \/ i \in unheard[d]
           \/ state[d][i] # None /\ ~state[d][i].deleted /\ state[d][i].hash = Absent
        /\ IssuedOf(S, state[d], cursor[d], conflict[d])
    BY <1>1, <1>2, RowFacts
  <2>3. conflict[d][i] = None BY <1>1, <2>2 DEF EntryOf
  <2>4. \/ i \in unheard[d]
        \/ /\ state[d][i] # None /\ state[d][i].rev = e.row.rev
           /\ state[d][i].hash = e.row.val /\ base[d][i] = e.row.val
    BY <1>1, <2>2 DEF EntryOf, OwnRowKnown
  <2>5. (S[i].rev > ReadUpTo(round[d]) /\ S[i].dev # d) \/ S[i] = e.row
    BY <2>2 DEF EntryOf
  <2>6. e.row.rev <= S[i].rev BY <2>2 DEF EntryOf
  <2>7. state'[d][i] # None => state'[d][i].rev <= S[i].rev BY <1>3, <1>4, <2>6
  <2>8. OwnRowKnown(d, S[i], i, state'[d], conflict'[d], base'[d], unheard'[d])
    BY <1>3, <1>4, <2>1, <2>3, <2>4, <2>5 DEF OwnRowKnown
  <2>9. \/ base[d][i] = AgreedHash(state'[d][i]) \/ i \in unheard[d]
    BY <1>3, <1>4, <2>4 DEF AgreedHash
  <2>10. \/ S[i].rev > ReadUpTo(round[d])
         \/ Covers(d, S, state'[d], conflict'[d], passed'[d], i)
    BY <1>1, <2>5 DEF Covers
  <2>. QED BY <2>1, <2>3, <2>7, <2>8, <2>9, <2>10 DEF RowSettled
<1>7. OnlyItem(i, state[d], conflict[d], base[d], unheard[d], passed[d],
               state'[d], conflict'[d], base'[d], unheard'[d], passed'[d])
  BY <1>3 DEF OwnRow, History, OnlyItem
<1>8. DeviceInv(d)'
  BY <1>1, <1>6, <1>7, DoneRound, RowDone DEF OwnRow
<1>9. Apart(d) BY <1>1, <1>3, DoneRound DEF Apart, OwnRow, History
<1>. QED BY <1>5, <1>8, <1>9, OneMoves DEF OwnRow

LEMMA HoldRowStep ==
  ASSUME SyncInv, NEW d \in Device, NEW e, HoldRow(d, e)
  PROVE  SyncInv'
<1>. USE DEF SyncInv
<1>. DEFINE i == e.item  S == server[gen[d]]
            bar == IF round[d].barrier = None THEN e.row.rev - 1 ELSE round[d].barrier
<1>1. NextRow(d, e) BY DEF HoldRow, Foreign
<1>2. /\ i \in Item /\ e.row \in Row /\ round[d] \in Rounds /\ round[d].stage = "apply"
      /\ EntryOf(d, S, state[d], conflict[d], base[d], unheard[d], round[d], e)
  BY <1>1, RowFacts
<1>3. e.row.rev \in Nat /\ 0 < e.row.rev BY <1>2 DEF Row, EntryOf
<1>4. round[d].barrier \in Barrier BY <1>2, RoundShape DEF Reading
<1>5. bar \in Barrier /\ (bar = None => FALSE)
  BY <1>3, <1>4, SyncAssumption DEF Barrier
<1>6. Max({0, e.row.rev - 1}) = e.row.rev - 1
  <2>1. IsFiniteSet({0} \cup {e.row.rev - 1}) BY FS_Singleton, FS_Union
  <2>2. {0, e.row.rev - 1} = {0} \cup {e.row.rev - 1} OBVIOUS
  <2>3. {0, e.row.rev - 1} \in SUBSET Nat BY <1>3
  <2>4. LET m == Max({0, e.row.rev - 1}) IN m \in {0, e.row.rev - 1} /\ e.row.rev - 1 <= m
    BY <2>1, <2>2, <2>3, MaxOf
  <2>. QED BY <1>3, <2>4
<1>7. round' = [round EXCEPT ![d] = AfterRow(@, e, bar)]
  BY <1>6 DEF HoldRow, AfterRow, Typed
<1>8. /\ round' \in [Device -> Rounds]
      /\ OneRowLess(round[d], e, round'[d])
      /\ round'[d].barrier = bar
      /\ \A f \in Device : round'[f].token = round[f].token
                          /\ round'[f].stage = round[f].stage
      /\ \A f \in Device \ {d} : round'[f] = round[f]
  <2>. HIDE DEF bar
  <2>1. bar = round[d].barrier \/ (round[d].barrier = None /\ bar = e.row.rev - 1)
    BY DEF bar
  <2>. QED BY <1>1, <1>5, <1>7, <2>1, RowRound
<1>9. Typed'
  <2>1. spent' \in [edits : Nat, troubles : 0 .. MaxTroubles] /\ spent.troubles <= spent'.troubles
    BY Spending DEF HoldRow, Typed
  <2>2. \A f \in Device : gen[f] \in Nat BY DEF Typed, Account
  <2>. QED BY <1>8, <2>1, <2>2 DEF Typed, HoldRow, Stored, History
<1>10. RowSettled(d, S, state[d], conflict[d], passed[d], round[d],
                  i, state'[d], conflict'[d], base'[d], unheard'[d],
                  passed'[d], round'[d])
  <2>1. S[i].rev > ReadUpTo(round[d]) \/ S[i] = e.row BY <1>2 DEF EntryOf
  <2>2. S[i] = e.row => PastBarrier(round'[d], S[i])
    BY <1>2, <1>3, <1>5, <1>8 DEF PastBarrier, EntryOf
  <2>3. /\ OwnRowKnown(d, S[i], i, state[d], conflict[d], base[d], unheard[d])
        /\ \/ base[d][i] = AgreedHash(state[d][i])
           \/ i \in unheard[d]
           \/ state[d][i] # None /\ ~state[d][i].deleted /\ state[d][i].hash = Absent
        /\ IssuedOf(S, state[d], cursor[d], conflict[d])
    BY <1>1, <1>2, RowFacts
  <2>. QED BY <1>2, <2>1, <2>2, <2>3
       DEF HoldRow, Stored, History, RowSettled, IssuedOf
<1>11. OnlyItem(i, state[d], conflict[d], base[d], unheard[d], passed[d],
                state'[d], conflict'[d], base'[d], unheard'[d], passed'[d])
  BY DEF HoldRow, Stored, History, OnlyItem
<1>12. DeviceInv(d)'
  BY <1>1, <1>8, <1>10, <1>11, RowDone DEF HoldRow, Stored
<1>13. Apart(d) BY <1>8 DEF Apart, HoldRow, Stored, History
<1>. QED BY <1>9, <1>12, <1>13, OneMoves DEF HoldRow
LEMMA ParkRowStep ==
  ASSUME SyncInv, NEW d \in Device, NEW e, ParkRow(d, e)
  PROVE  SyncInv'
<1>. USE DEF SyncInv
<1>. DEFINE i == e.item  S == server[gen[d]]
            c == [remote |-> e.row.val, rev |-> e.row.rev]
<1>1. NextRow(d, e) /\ Done(d, e) /\ i \notin round[d].blocked /\ e.row.dev # d
  BY DEF ParkRow, Foreign
<1>2. /\ i \in Item /\ e.row \in Row /\ S[i] \in Row
      /\ EntryOf(d, S, state[d], conflict[d], base[d], unheard[d], round[d], e)
      /\ OwnRowKnown(d, S[i], i, state[d], conflict[d], base[d], unheard[d])
      /\ \/ base[d][i] = AgreedHash(state[d][i])
         \/ i \in unheard[d]
         \/ state[d][i] # None /\ ~state[d][i].deleted /\ state[d][i].hash = Absent
      /\ IssuedOf(S, state[d], cursor[d], conflict[d])
  BY <1>1, RowFacts
<1>3. c \in OpenConflict /\ c # None
  BY <1>2, SyncAssumption DEF OpenConflict, Row, EntryOf
<1>4. /\ conflict' = [conflict EXCEPT ![d][i] = c]
      /\ conflict'[d][i] = c
      /\ \A k \in Item \ {i} : conflict'[d][k] = conflict[d][k]
      /\ \A f \in Device \ {d} : conflict'[f] = conflict[f]
  BY <1>2 DEF ParkRow, Typed
<1>5. Typed'
  <2>1. round' \in [Device -> Rounds] /\ \A f \in Device :
           round'[f].token = round[f].token /\ round'[f].stage = round[f].stage
    BY <1>1, DoneRound
  <2>2. conflict' \in [Device -> [Item -> OpenConflict \cup {None}]]
    BY <1>2, <1>3, <1>4 DEF Typed
  <2>. QED BY <2>1, <2>2 DEF Typed, ParkRow, History
<1>6. RowSettled(d, S, state[d], conflict[d], passed[d], round[d],
                 i, state'[d], conflict'[d], base'[d], unheard'[d],
                 passed'[d], round'[d])
  <2>1. /\ state'[d] = state[d] /\ base'[d] = base[d]
        /\ unheard'[d] = unheard[d] /\ passed'[d] = passed[d]
    BY DEF ParkRow, History
  <2>2. c.rev = e.row.rev /\ c.rev <= S[i].rev /\ (state[d][i] # None => state[d][i].rev <= c.rev)
    BY <1>2 DEF EntryOf
  <2>3. S[i].rev > ReadUpTo(round[d]) \/ S[i] = e.row BY <1>2 DEF EntryOf
  <2>4. S[i].dev # d BY <1>1, <1>2 DEF EntryOf
  <2>5. S[i] = e.row => Covers(d, S, state[d], conflict'[d], passed[d], i)
    <3>1. e.row.rev <= e.row.rev BY <1>2 DEF Row
    <3>. QED BY <1>3, <1>4, <2>2, <3>1 DEF Covers
  <2>6. OwnRowKnown(d, S[i], i, state'[d], conflict'[d], base'[d], unheard'[d])
    BY <2>4 DEF OwnRowKnown
  <2>. QED BY <1>2, <1>3, <1>4, <2>1, <2>2, <2>3, <2>5, <2>6 DEF RowSettled, IssuedOf
<1>7. OnlyItem(i, state[d], conflict[d], base[d], unheard[d], passed[d],
               state'[d], conflict'[d], base'[d], unheard'[d], passed'[d])
  BY <1>4 DEF ParkRow, History, OnlyItem
<1>8. DeviceInv(d)'
  BY <1>1, <1>6, <1>7, DoneRound, RowDone DEF ParkRow
<1>9. Apart(d) BY <1>1, <1>4, DoneRound DEF Apart, ParkRow, History
<1>. QED BY <1>5, <1>8, <1>9, OneMoves DEF ParkRow

LEMMA TakeRowStep ==
  ASSUME SyncInv, NEW d \in Device, NEW e, TakeRow(d, e)
  PROVE  SyncInv'
<1>. USE DEF SyncInv
<1>. DEFINE i == e.item  S == server[gen[d]]
            s == Agreed(e.row.rev, e.row.val)
<1>1. NextRow(d, e) /\ Done(d, e) /\ i \notin round[d].blocked /\ e.row.dev # d
  BY DEF TakeRow, Foreign
<1>2. /\ i \in Item /\ e.row \in Row /\ S[i] \in Row /\ round[d].stage = "apply"
      /\ EntryOf(d, S, state[d], conflict[d], base[d], unheard[d], round[d], e)
  BY <1>1, RowFacts
<1>3. s \in AgreedState /\ s # None /\ s.rev = e.row.rev /\ AgreedHash(s) = e.row.val
  <2>1. s \in AgreedState BY <1>2 DEF AgreedState, Agreed, Row
  <2>2. s # None BY <2>1, SyncAssumption
  <2>. QED BY <2>1, <2>2 DEF Agreed, AgreedHash
<1>4. /\ state' = [state EXCEPT ![d][i] = s]
      /\ base' = [base EXCEPT ![d][i] = e.row.val]
      /\ unheard' = [unheard EXCEPT ![d] = @ \ {i}]
      /\ passed' = [passed EXCEPT ![d] = @ \ {i}]
      /\ conflict' = conflict
  BY DEF TakeRow
<1>4a. /\ state'[d][i] = s /\ base'[d][i] = e.row.val
       /\ \A k \in Item \ {i} : /\ state'[d][k] = state[d][k] /\ base'[d][k] = base[d][k]
                                /\ (k \in unheard'[d] <=> k \in unheard[d])
                                /\ (k \in passed'[d] <=> k \in passed[d])
       /\ \A f \in Device \ {d} : /\ state'[f] = state[f] /\ base'[f] = base[f]
                                  /\ unheard'[f] = unheard[f] /\ passed'[f] = passed[f]
  <2>1. /\ state'[d][i] = s /\ base'[d][i] = e.row.val
        /\ \A k \in Item \ {i} : state'[d][k] = state[d][k] /\ base'[d][k] = base[d][k]
        /\ \A f \in Device \ {d} : state'[f] = state[f] /\ base'[f] = base[f]
    <3>. HIDE DEF s
    <3>. QED BY <1>2, <1>4 DEF Typed
  <2>2. unheard'[d] = unheard[d] \ {i} /\ passed'[d] = passed[d] \ {i}
    BY <1>4 DEF Typed
  <2>3. \A f \in Device \ {d} : unheard'[f] = unheard[f] /\ passed'[f] = passed[f]
    BY <1>4 DEF Typed
  <2>. QED BY <2>1, <2>2, <2>3
<1>5. Typed'
  <2>1. round' \in [Device -> Rounds] /\ \A f \in Device :
           round'[f].token = round[f].token /\ round'[f].stage = round[f].stage
    BY <1>1, DoneRound
  <2>2. state' \in [Device -> [Item -> AgreedState \cup {None}]]
    <3>. HIDE DEF s
    <3>. QED BY <1>2, <1>3, <1>4 DEF Typed
  <2>3. base' \in [Device -> [Item -> Payload]] BY <1>2, <1>4 DEF Typed, Row
  <2>4. unheard' \in [Device -> SUBSET Item] /\ passed' \in [Device -> SUBSET Item]
    BY <1>4 DEF Typed
  <2>5. local' \in [Device -> [Item -> Payload]] BY <1>2 DEF TakeRow, Typed, Row
  <2>. QED BY <2>1, <2>2, <2>3, <2>4, <2>5 DEF Typed, TakeRow
<1>6. RowSettled(d, S, state[d], conflict[d], passed[d], round[d],
                 i, state'[d], conflict'[d], base'[d], unheard'[d],
                 passed'[d], round'[d])
  <2>. HIDE DEF s
  <2>1. conflict[d][i] = None BY <1>1, <1>2 DEF EntryOf
  <2>2. s.rev <= S[i].rev BY <1>2, <1>3 DEF EntryOf
  <2>3. S[i].rev > ReadUpTo(round[d]) \/ S[i] = e.row BY <1>2 DEF EntryOf
  <2>4. S[i].dev # d BY <1>1, <1>2 DEF EntryOf
  <2>5. S[i] = e.row => Covers(d, S, state'[d], conflict'[d], passed'[d], i)
    <3>1. e.row.rev <= e.row.rev BY <1>2 DEF Row
    <3>. QED BY <1>3, <1>4a, <3>1 DEF Covers
  <2>6. OwnRowKnown(d, S[i], i, state'[d], conflict'[d], base'[d], unheard'[d])
    BY <2>4 DEF OwnRowKnown
  <2>. QED BY <1>3, <1>4, <1>4a, <2>1, <2>2, <2>3, <2>5, <2>6 DEF RowSettled
<1>7. OnlyItem(i, state[d], conflict[d], base[d], unheard[d], passed[d],
               state'[d], conflict'[d], base'[d], unheard'[d], passed'[d])
  BY <1>4, <1>4a DEF OnlyItem
<1>8. DeviceInv(d)'
  BY <1>1, <1>6, <1>7, DoneRound, RowDone DEF TakeRow
<1>9. Apart(d) BY <1>1, <1>4, <1>4a, DoneRound DEF Apart, TakeRow
<1>. QED BY <1>5, <1>8, <1>9, OneMoves DEF TakeRow
LEMMA EditStep ==
  ASSUME SyncInv, NEW d \in Device, NEW i \in Item, NEW v \in Payload, Edit(d, i, v)
  PROVE  SyncInv'
<1>1. Typed'
  <2>1. local' \in [Device -> [Item -> Payload]] BY DEF Edit, SyncInv, Typed
  <2>2. spent' \in [edits : Nat, troubles : 0 .. MaxTroubles] /\ spent.troubles <= spent'.troubles
    BY Spending DEF Edit, SyncInv, Typed
  <2>3. spent.troubles \in Nat /\ spent'.troubles \in Nat /\ \A f \in Device : gen[f] \in Nat
    BY <2>2 DEF SyncInv, Typed, Account
  <2>. QED BY <2>1, <2>2, <2>3 DEF Edit, SyncInv, Typed, Stored, History
<1>2. server' = server /\ gen' = gen /\ Apart(d) BY DEF Edit, Apart, Stored, History
<1>3. DeviceInv(d) BY DEF SyncInv
<1>4. DeviceInv(d)' BY <1>3, Unmoved DEF Edit, Stored, History
<1>. QED BY <1>1, <1>2, <1>4, OneMoves

LEMMA TurnOnStep ==
  ASSUME SyncInv, NEW d \in Device, TurnOn(d)
  PROVE  SyncInv'
<1>1. Typed' BY DEF TurnOn, SyncInv, Typed, Stored, History
<1>2. server' = server /\ gen' = gen /\ Apart(d) BY DEF TurnOn, Apart, Stored, History
<1>3. DeviceInv(d) BY DEF SyncInv
<1>4. DeviceInv(d)' BY <1>3, Unmoved DEF TurnOn, Stored, History
<1>. QED BY <1>1, <1>2, <1>4, OneMoves

\* The tables of a device have their shape.
LEMMA DeviceShape ==
  ASSUME SyncInv, NEW d \in Device
  PROVE  /\ Shape(server[gen[d]], state[d], cursor[d], conflict[d], base[d], unheard[d],
                  passed[d], round[d])
         /\ DeviceInv(d) /\ round[d] \in Rounds
         /\ Current(d) \in BOOLEAN
         /\ gen[d] \in Nat /\ gen[d] \in Account
         /\ round[d].stage # "idle" => round[d].token \in Nat /\ round[d].token <= gen[d]
<1>1. round[d] \in Rounds BY DEF SyncInv, Typed
<1>. QED BY <1>1, RoundShape DEF SyncInv, Typed, Shape, Current, Account

\* The round of d turns to r, which is no round of an older account.
LEMMA RoundSet ==
  ASSUME Typed, NEW d \in Device, NEW r \in Rounds, round' = [round EXCEPT ![d] = r]
  PROVE  /\ round' \in [Device -> Rounds] /\ round'[d] = r
         /\ \A f \in Device \ {d} : round'[f] = round[f]
BY DEF Typed

LEMMA StartRoundStep ==
  ASSUME SyncInv, NEW d \in Device, StartRound(d)
  PROVE  SyncInv'
<1>. DEFINE r == [stage |-> "waiting", token |-> gen[d]]
<1>1. gen[d] \in Nat BY DeviceShape
<1>2. r \in Rounds BY <1>1 DEF Rounds
<1>3. /\ round' \in [Device -> Rounds] /\ round'[d] = r
      /\ \A f \in Device \ {d} : round'[f] = round[f]
  BY <1>2, RoundSet DEF StartRound, SyncInv
<1>4. Typed' BY <1>1, <1>3 DEF StartRound, SyncInv, Typed, Stored, History
<1>5. Apart(d) BY <1>3 DEF Apart, StartRound, Stored, History
<1>6. DeviceInv(d)'
  <2>1. DeviceInv(d) BY DeviceShape
  <2>2. ~(Current(d) /\ round[d].stage = "sent") BY DEF StartRound
  <2>3. r.stage \in {"idle", "waiting", "push"} OBVIOUS
  <2>. HIDE DEF r
  <2>4. Keeps(d, server[gen[d]], state[d], cursor[d], conflict[d], base[d], unheard[d],
              passed[d], r, Current(d)')
    BY <2>1, <2>2, <2>3, RoundTurns DEF DeviceInv
  <2>. QED BY <1>3, <2>4 DEF DeviceInv, StartRound, Stored, History
<1>. QED BY <1>4, <1>5, <1>6, OneMoves DEF StartRound

\* A round that is over without having written or sent anything to be answered.
LEMMA RoundOver ==
  ASSUME SyncInv, NEW d \in Device, EndRound(d), ~(Current(d) /\ round[d].stage = "sent"),
         UNCHANGED <<server, local, Stored, on, gen, History>>,
         spent' \in [edits : Nat, troubles : 0 .. MaxTroubles],
         spent.troubles <= spent'.troubles
  PROVE  SyncInv'
<1>1. Idle \in Rounds /\ Idle.stage = "idle" BY DEF Rounds, Idle
<1>2. /\ round' \in [Device -> Rounds] /\ round'[d] = Idle
      /\ \A f \in Device \ {d} : round'[f] = round[f]
  BY <1>1, RoundSet DEF EndRound, SyncInv
<1>3. spent.troubles \in Nat /\ spent'.troubles \in Nat /\ \A f \in Device : gen[f] \in Nat
  BY DEF SyncInv, Typed, Account
<1>3a. \A f \in Device : gen[f] <= spent'.troubles BY <1>3 DEF SyncInv, Typed
<1>3b. \A f \in Device : round'[f].stage # "idle" => round'[f].token <= gen[f]
  BY <1>1, <1>2 DEF SyncInv, Typed
<1>4. Typed'
  BY <1>2, <1>3a, <1>3b DEF SyncInv, Typed, Stored, History
<1>5. Apart(d) BY <1>2 DEF Apart, Stored, History
<1>6. DeviceInv(d)'
  <2>1. DeviceInv(d) BY DeviceShape
  <2>2. Idle.stage \in {"idle", "waiting", "push"} BY <1>1
  <2>3. Keeps(d, server[gen[d]], state[d], cursor[d], conflict[d], base[d], unheard[d],
              passed[d], Idle, Current(d)')
    BY <2>1, <2>2, RoundTurns DEF DeviceInv
  <2>. QED BY <1>2, <2>3 DEF DeviceInv, Stored, History
<1>. QED BY <1>4, <1>5, <1>6, OneMoves

LEMMA RetireStep ==
  ASSUME SyncInv, NEW d \in Device, Retire(d) \/ NothingToPush(d)
  PROVE  SyncInv'
<1>1. ~(Current(d) /\ round[d].stage = "sent") BY DEF Retire, NothingToPush, Current
<1>2. spent.troubles <= spent.troubles BY DEF SyncInv, Typed
<1>3. spent' = spent BY DEF Retire, NothingToPush
<1>4. /\ spent' \in [edits : Nat, troubles : 0 .. MaxTroubles]
      /\ spent.troubles <= spent'.troubles
  BY <1>2, <1>3 DEF SyncInv, Typed
<1>. QED BY <1>1, <1>4, RoundOver DEF Retire, NothingToPush

LEMMA FailStep ==
  ASSUME SyncInv, NEW d \in Device, Fail(d)
  PROVE  SyncInv'
<1>1. /\ spent' \in [edits : Nat, troubles : 0 .. MaxTroubles]
      /\ spent.troubles <= spent'.troubles
  BY Spending DEF Fail, SyncInv, Typed
<1>2. CASE ~(Current(d) /\ round[d].stage = "sent")
  <2>1. unheard' = unheard BY <1>2 DEF Fail, Current, SyncInv, Typed
  <2>. QED BY <1>1, <1>2, <2>1, RoundOver DEF Fail, History
<1>3. CASE Current(d) /\ round[d].stage = "sent"
  <2>. DEFINE u2 == unheard[d] \cup {e.item : e \in round[d].accepted}
  <2>1. Idle \in Rounds /\ Idle.stage = "idle" BY DEF Rounds, Idle
  <2>2. /\ round' \in [Device -> Rounds] /\ round'[d] = Idle
        /\ \A f \in Device \ {d} : round'[f] = round[f]
    BY <2>1, RoundSet DEF Fail, EndRound, SyncInv
  <2>3. spent.troubles \in Nat /\ spent'.troubles \in Nat /\ \A f \in Device : gen[f] \in Nat
    BY <1>1 DEF SyncInv, Typed, Account
  <2>4. u2 \subseteq Item
    <3>1. round[d].accepted \in SUBSET Accepted BY <1>3, DeviceShape, RoundShape
    <3>. QED BY <3>1 DEF SyncInv, Typed, Accepted
  <2>5. unheard' = [unheard EXCEPT ![d] = u2] BY <1>3 DEF Fail, Current, SyncInv, Typed
  <2>6. /\ unheard' \in [Device -> SUBSET Item] /\ unheard'[d] = u2
        /\ \A f \in Device \ {d} : unheard'[f] = unheard[f]
    <3>. HIDE DEF u2
    <3>. QED BY <2>4, <2>5 DEF SyncInv, Typed
  <2>7. Typed'
    <3>1. \A f \in Device : gen[f] <= spent'.troubles BY <1>1, <2>3 DEF SyncInv, Typed
    <3>2. \A f \in Device : round'[f].stage # "idle" => round'[f].token <= gen[f]
      BY <2>1, <2>2 DEF SyncInv, Typed
    <3>. QED BY <1>1, <2>2, <2>6, <3>1, <3>2 DEF Fail, SyncInv, Typed, Stored
  <2>8. Apart(d) BY <2>2, <2>6 DEF Apart, Fail, Stored
  <2>9. DeviceInv(d)'
    <3>1. DeviceInv(d) /\ Shape(server[gen[d]], state[d], cursor[d], conflict[d], base[d],
                                unheard[d], passed[d], round[d])
      BY DeviceShape
    <3>2. Keeps(d, server[gen[d]], state[d], cursor[d], conflict[d], base[d], unheard[d],
                passed[d], round[d], TRUE)
      BY <1>3, <3>1 DEF DeviceInv
    <3>3. Keeps(d, server[gen[d]], state[d], cursor[d], conflict[d], base[d], u2,
                passed[d], Idle, Current(d)')
      BY <1>3, <2>1, <3>1, <3>2, PushUnheard
    <3>. QED BY <2>2, <2>6, <3>3 DEF DeviceInv, Fail, Stored
  <2>. QED BY <2>7, <2>8, <2>9, OneMoves DEF Fail
<1>. QED BY <1>2, <1>3
LEMMA ResolveStep ==
  ASSUME SyncInv, NEW d \in Device, NEW i \in Item, KeepRemote(d, i) \/ KeepLocal(d, i)
  PROVE  SyncInv'
<1>. DEFINE c == conflict[d][i]
            s == state'[d][i]
<1>1. c \in OpenConflict /\ c # None /\ c.rev \in Nat \ {0} /\ c.remote \in Payload
  BY DEF KeepRemote, KeepLocal, SyncInv, Typed, OpenConflict
<1>2. /\ Agreed(c.rev, c.remote) \in AgreedState /\ Agreed(c.rev, c.remote) # None
      /\ Agreed(c.rev, c.remote).rev = c.rev
  <2>1. Agreed(c.rev, c.remote) \in AgreedState BY <1>1 DEF AgreedState, Agreed
  <2>. QED BY <2>1, SyncAssumption DEF Agreed
<1>3. LET kept == [rev |-> c.rev, hash |-> Absent, deleted |-> FALSE]
      IN  kept \in AgreedState /\ kept # None /\ kept.rev = c.rev
  <2>1. [rev |-> c.rev, hash |-> Absent, deleted |-> FALSE] \in AgreedState
    BY <1>1 DEF AgreedState, Payload
  <2>. QED BY <2>1, SyncAssumption
<1>4. /\ server' = server /\ cursor' = cursor /\ on' = on /\ gen' = gen
      /\ round' = round /\ passed' = passed /\ spent' = spent
      /\ conflict' = [conflict EXCEPT ![d][i] = None]
  BY DEF KeepRemote, KeepLocal, Resolved
<1>5. /\ conflict'[d][i] = None
      /\ \A k \in Item \ {i} : conflict'[d][k] = conflict[d][k]
      /\ \A f \in Device \ {d} : conflict'[f] = conflict[f]
      /\ conflict' \in [Device -> [Item -> OpenConflict \cup {None}]]
  BY <1>4 DEF SyncInv, Typed
<1>6. CASE KeepRemote(d, i)
  <2>1. /\ state' = [state EXCEPT ![d][i] = Agreed(c.rev, c.remote)]
        /\ base' = [base EXCEPT ![d][i] = c.remote]
        /\ unheard' = [unheard EXCEPT ![d] = @ \ {i}]
        /\ local' = [local EXCEPT ![d][i] = c.remote]
    BY <1>6 DEF KeepRemote, Resolved
  <2>2. /\ state' \in [Device -> [Item -> AgreedState \cup {None}]]
        /\ state'[d][i] = Agreed(c.rev, c.remote)
        /\ \A k \in Item \ {i} : state'[d][k] = state[d][k]
        /\ \A f \in Device \ {d} : state'[f] = state[f]
    BY <1>2, <2>1 DEF SyncInv, Typed
  <2>3. /\ base' \in [Device -> [Item -> Payload]]
        /\ base'[d][i] = c.remote
        /\ \A k \in Item \ {i} : base'[d][k] = base[d][k]
        /\ \A f \in Device \ {d} : base'[f] = base[f]
    BY <1>1, <2>1 DEF SyncInv, Typed
  <2>4. /\ unheard' \in [Device -> SUBSET Item]
        /\ unheard'[d] = unheard[d] \ {i}
        /\ \A f \in Device \ {d} : unheard'[f] = unheard[f]
    BY <2>1 DEF SyncInv, Typed
  <2>5. local' \in [Device -> [Item -> Payload]] BY <1>1, <2>1 DEF SyncInv, Typed
  <2>6. Typed' BY <1>4, <1>5, <2>2, <2>3, <2>4, <2>5 DEF SyncInv, Typed
  <2>7. Apart(d) BY <1>4, <1>5, <2>2, <2>3, <2>4 DEF Apart
  <2>8. Resolves(i, state[d], conflict[d], base[d], unheard[d],
                 state'[d], conflict'[d], base'[d], unheard'[d])
    BY <1>1, <1>2, <1>5, <2>2, <2>3, <2>4 DEF Resolves
  <2>9. Keeps(d, server[gen[d]], state'[d], cursor[d], conflict'[d], base'[d],
              unheard'[d], passed[d], round[d], Current(d))
    BY <2>8, DeviceShape, Resolving DEF DeviceInv
  <2>10. DeviceInv(d)'
    <3>1. Current(d)' = Current(d) BY <1>4 DEF Current, Fresh
    <3>. QED BY <1>4, <2>9, <3>1 DEF DeviceInv
  <2>. QED BY <1>4, <2>6, <2>7, <2>10, OneMoves
<1>7. CASE KeepLocal(d, i)
  <2>. DEFINE kept == [rev |-> c.rev, hash |-> Absent, deleted |-> FALSE]
  <2>1. /\ state' = [state EXCEPT ![d][i] = kept]
        /\ base' = base /\ unheard' = unheard /\ local' = local
    BY <1>7 DEF KeepLocal, Resolved
  <2>2. /\ state' \in [Device -> [Item -> AgreedState \cup {None}]]
        /\ state'[d][i] = kept
        /\ \A k \in Item \ {i} : state'[d][k] = state[d][k]
        /\ \A f \in Device \ {d} : state'[f] = state[f]
    <3>. HIDE DEF kept
    <3>1. kept \in AgreedState BY <1>3 DEF kept
    <3>. QED BY <2>1, <3>1 DEF SyncInv, Typed
  <2>6. Typed' BY <1>4, <1>5, <2>1, <2>2 DEF SyncInv, Typed
  <2>7. Apart(d) BY <1>4, <1>5, <2>1, <2>2 DEF Apart
  <2>8. Resolves(i, state[d], conflict[d], base[d], unheard[d],
                 state'[d], conflict'[d], base'[d], unheard'[d])
    BY <1>1, <1>3, <1>5, <2>1, <2>2 DEF Resolves
  <2>9. Keeps(d, server[gen[d]], state'[d], cursor[d], conflict'[d], base'[d],
              unheard'[d], passed[d], round[d], Current(d))
    BY <2>8, DeviceShape, Resolving DEF DeviceInv
  <2>10. DeviceInv(d)'
    <3>1. Current(d)' = Current(d) BY <1>4 DEF Current, Fresh
    <3>. QED BY <1>4, <2>9, <3>1 DEF DeviceInv
  <2>. QED BY <1>4, <2>6, <2>7, <2>10, OneMoves
<1>. QED BY <1>6, <1>7
\* A device that just signed in has nothing recorded, and has written nothing
\* under the new account yet.
LEMMA SignedIn ==
  ASSUME NEW d, NEW S \in [Item -> Row], \A i \in Item : S[i].dev # d, NEW r
  PROVE  Keeps(d, S, [i \in Item |-> None], 0, [i \in Item |-> None],
               [i \in Item |-> Absent], {}, {}, r, FALSE)
<1>1. TopOf(S) \in Nat BY TopIs
<1>2. \A i \in Item : S[i].rev \in Nat BY DEF Row
<1>3. \A i \in Item : ~InFlight(r, FALSE, i) BY DEF InFlight
<1>. DEFINE st == [i \in Item |-> None]  b == [i \in Item |-> Absent]
<1>4. IssuedOf(S, st, 0, st) BY <1>1 DEF IssuedOf
<1>5. BehindOf(d, S, st, 0, st, {}) BY <1>2 DEF BehindOf, Covers
<1>6. BaseOf(st, b, {}, r, FALSE) BY DEF BaseOf, AgreedHash
<1>7. OwnOf(d, S, st, st, b, {}, r, FALSE) BY DEF OwnOf, OwnRowKnown
<1>. HIDE DEF st, b
<1>8. Keeps(d, S, st, 0, st, b, {}, {}, r, FALSE) BY <1>4, <1>5, <1>6, <1>7 DEF Keeps
<1>. QED BY <1>8 DEF st, b

LEMMA AccountChangeStep ==
  ASSUME SyncInv, NEW d \in Device, AccountChange(d)
  PROVE  SyncInv'
<1>1. /\ spent' \in [edits : Nat, troubles : 0 .. MaxTroubles]
      /\ spent'.troubles = spent.troubles + 1
      /\ spent.troubles \in Nat /\ spent'.troubles \in Nat
      /\ \A f \in Device : gen[f] \in Nat /\ gen[f] <= spent.troubles
  BY Spending DEF AccountChange, SyncInv, Typed, Account
<1>2. gen[d] + 1 \in Account
  <2>1. gen[d] + 1 <= spent'.troubles BY <1>1
  <2>2. spent'.troubles <= MaxTroubles BY <1>1, SyncAssumption
  <2>. QED BY <1>1, <2>1, <2>2, SyncAssumption DEF Account
<1>3. /\ gen' \in [Device -> Account] /\ gen'[d] = gen[d] + 1
      /\ \A f \in Device \ {d} : gen'[f] = gen[f]
  BY <1>2 DEF AccountChange, SyncInv, Typed
<1>4. /\ state'[d] = [i \in Item |-> None] /\ conflict'[d] = [i \in Item |-> None]
      /\ cursor'[d] = 0 /\ base'[d] = [i \in Item |-> Absent]
      /\ unheard'[d] = {} /\ passed'[d] = {}
      /\ round' = round /\ server' = server /\ local' = local
  BY DEF AccountChange, SyncInv, Typed
<1>5. Apart(d) BY DEF Apart, AccountChange, SyncInv, Typed
<1>6. Typed'
  <2>1. /\ state' \in [Device -> [Item -> AgreedState \cup {None}]]
        /\ conflict' \in [Device -> [Item -> OpenConflict \cup {None}]]
        /\ cursor' \in [Device -> Nat] /\ on' \in [Device -> BOOLEAN]
        /\ base' \in [Device -> [Item -> Payload]]
        /\ unheard' \in [Device -> SUBSET Item] /\ passed' \in [Device -> SUBSET Item]
    BY DEF AccountChange, SyncInv, Typed, Payload
  <2>2. \A f \in Device : gen'[f] <= spent'.troubles BY <1>1, <1>3
  <2>3. \A f \in Device : round'[f].stage # "idle" => round'[f].token <= gen'[f]
    <3>1. \A f \in Device : round[f].stage # "idle" =>
             round[f].token \in Nat /\ round[f].token <= gen[f] BY DeviceShape
    <3>2. \A f \in Device : gen'[f] = gen[f] \/ gen'[f] = gen[f] + 1 BY <1>3
    <3>. QED BY <1>1, <1>4, <3>1, <3>2
  <2>. QED BY <1>1, <1>3, <1>4, <2>1, <2>2, <2>3 DEF SyncInv, Typed
<1>7. NotYetThere'
  <2>1. \A f \in Device, a \in Account : a > gen'[f] => a > gen[f]
    <3>1. \A a \in Account : a \in Nat BY DEF Account
    <3>2. \A f \in Device : gen'[f] = gen[f] \/ gen'[f] = gen[f] + 1 BY <1>3
    <3>. QED BY <1>1, <3>1, <3>2
  <2>. QED BY <1>4, <2>1 DEF SyncInv, NotYetThere
<1>8. DeviceInv(d)'
  <2>. DEFINE S == server[gen[d] + 1]
  <2>1. S \in [Item -> Row] BY <1>2 DEF SyncInv, Typed
  <2>2. \A i \in Item : S[i].dev # d
    BY <1>1, <1>2 DEF SyncInv, NotYetThere
  <2>3. Keeps(d, S, [i \in Item |-> None], 0, [i \in Item |-> None],
              [i \in Item |-> Absent], {}, {}, round[d], FALSE)
    BY <2>1, <2>2, SignedIn
  <2>4. Current(d)' = FALSE
    <3>1. round[d].stage # "idle" => round[d].token # gen[d] + 1
      BY <1>1, DeviceShape
    <3>. QED BY <1>3, <1>4, <3>1 DEF Current, Fresh
  <2>. QED BY <1>3, <1>4, <2>3, <2>4 DEF DeviceInv
<1>9. ASSUME NEW f \in Device \ {d} PROVE DeviceInv(f)'
  <2>1. DeviceInv(f) BY DeviceShape
  <2>. QED BY <1>3, <1>4, <1>5, <2>1, Unmoved DEF Apart
<1>. QED BY <1>6, <1>7, <1>8, <1>9 DEF SyncInv
-----------------------------------------------------------------------------
(* A page is asked for, taken and ended.                                   *)

NewerThan(S, since) == {i \in Item : S[i].rev > since}
PageAbove(S, since) ==
    {i \in NewerThan(S, since) :
        Cardinality({j \in NewerThan(S, since) : S[j].rev < S[i].rev}) < PageSize}

\* A newer row that is not in the page is above every row of it: fewer rows
\* lie below a row of the page than below one that did not fit.
LEMMA PageIsLowest ==
  ASSUME NEW S \in [Item -> Row], NEW since \in Nat,
         NEW i \in Item, S[i].rev > since, i \notin PageAbove(S, since),
         NEW j \in PageAbove(S, since)
  PROVE  S[j].rev < S[i].rev
<1>. DEFINE newer == NewerThan(S, since)
            below(k) == {m \in newer : S[m].rev < S[k].rev}
<1>1. \A k \in Item : S[k].rev \in Nat BY DEF Row
<1>2. i \in newer /\ j \in newer /\ j \in Item BY DEF NewerThan, PageAbove
<1>3. \A k : IsFiniteSet(below(k)) /\ Cardinality(below(k)) \in Nat
  <2>1. IsFiniteSet(Item) BY SyncAssumption
  <2>2. \A k : below(k) \subseteq Item BY DEF NewerThan
  <2>. QED BY <2>1, <2>2, FS_Subset, FS_CardinalityType
<1>4. Cardinality(below(j)) < PageSize /\ ~(Cardinality(below(i)) < PageSize)
  BY <1>2 DEF PageAbove
<1>5. SUFFICES ASSUME S[i].rev <= S[j].rev PROVE FALSE BY <1>1, <1>2
<1>6. below(i) \subseteq below(j) BY <1>1, <1>2, <1>5 DEF NewerThan
<1>7. Cardinality(below(i)) <= Cardinality(below(j)) BY <1>3, <1>6, FS_Subset
<1>. QED BY <1>3, <1>4, <1>7, SyncAssumption

PageEnd(S, since) == Max({since} \cup {S[i].rev : i \in PageAbove(S, since)})

\* The round r2 holds the page above since.
Asked(S, since, bar, r2) ==
    /\ r2.stage = "page" /\ r2.barrier = bar
    /\ r2.rows = {[item |-> i, row |-> S[i]] : i \in PageAbove(S, since)}
    /\ r2.highest = PageEnd(S, since)
    /\ r2.more = (\E i \in Item \ PageAbove(S, since) : S[i].rev > since)
    /\ r2.top = TopOf(S)

LEMMA HighestIs ==
  ASSUME NEW S \in [Item -> Row], NEW since \in Nat,
         NEW h, h = PageEnd(S, since)
  PROVE  /\ h \in Nat /\ since <= h
         /\ \A i \in PageAbove(S, since) : S[i].rev <= h
         /\ h = since \/ \E i \in PageAbove(S, since) : h = S[i].rev
<1>. DEFINE P == PageAbove(S, since)  R == {S[i].rev : i \in P}
<1>1. P \subseteq Item BY DEF PageAbove, NewerThan
<1>2. R \in SUBSET Nat BY <1>1 DEF Row
<1>3. IsFiniteSet(R)
  <2>. DEFINE f == [i \in P |-> S[i].rev]
  <2>1. IsFiniteSet(P) BY <1>1, FS_Subset, SyncAssumption
  <2>2. R = {f[i] : i \in P} OBVIOUS
  <2>. HIDE DEF f
  <2>3. IsFiniteSet({f[i] : i \in P}) BY <2>1, FiniteImage
  <2>. QED BY <2>2, <2>3
<1>4. IsFiniteSet({since} \cup R) BY <1>3, FS_Singleton, FS_Union
<1>5. {since} \cup R \in SUBSET Nat BY <1>2
<1>6. h \in {since} \cup R /\ \A y \in {since} \cup R : y <= h
  BY <1>4, <1>5, MaxOf DEF PageEnd
<1>. QED BY <1>2, <1>6

LEMMA PageAsked ==
  ASSUME NEW d, NEW S, NEW st, NEW cur, NEW cf, NEW b, NEW u, NEW p, NEW r,
         Shape(S, st, cur, cf, b, u, p, r),
         Keeps(d, S, st, cur, cf, b, u, p, r, TRUE), r.stage # "sent",
         NEW since \in Nat, NEW bar \in Barrier,
         cur <= since, since <= TopOf(S), bar # None => bar <= since,
         \A i \in Item : S[i].rev <= since =>
             Covers(d, S, st, cf, p, i) \/ (bar # None /\ S[i].rev > bar),
         NEW r2, Asked(S, since, bar, r2)
  PROVE  /\ Keeps(d, S, st, cur, cf, b, u, p, r2, TRUE)
         /\ r2.highest \in Nat /\ r2.rows \in SUBSET Entry
<1>. DEFINE P == PageAbove(S, since)
<1>1. S \in [Item -> Row] /\ cur \in Nat /\ TopOf(S) \in Nat BY TopIs DEF Shape
<1>2. \A i \in Item : S[i].rev \in Nat BY <1>1 DEF Row
<1>3. P \subseteq Item /\ \A i \in P : S[i].rev > since BY DEF PageAbove, NewerThan
<1>4. /\ r2.highest \in Nat /\ since <= r2.highest
      /\ \A i \in P : S[i].rev <= r2.highest
      /\ r2.highest = since \/ \E i \in P : r2.highest = S[i].rev
  BY <1>1, HighestIs DEF Asked
<1>5. r2.highest <= TopOf(S) BY <1>1, <1>2, <1>3, <1>4, TopIs
<1>6. \A i \in Item : ~InFlight(r, TRUE, i) /\ ~InFlight(r2, TRUE, i)
  BY DEF InFlight, Asked
<1>7. BaseOf(st, b, u, r2, TRUE) /\ OwnOf(d, S, st, cf, b, u, r2, TRUE)
  BY <1>6 DEF Keeps, BaseOf, OwnOf
<1>8. PageRead(d, S, st, cur, cf, p, r2)
  <2>1. ASSUME NEW i \in Item, S[i].rev <= ReadUpTo(r2)
        PROVE  \/ Covers(d, S, st, cf, p, i)
               \/ PastBarrier(r2, S[i])
               \/ [item |-> i, row |-> S[i]] \in r2.rows
    <3>1. CASE S[i].rev <= since BY <3>1 DEF Asked, PastBarrier
    <3>2. CASE i \in P BY <3>2 DEF Asked
    <3>3. CASE S[i].rev > since /\ i \notin P
      <4>1. r2.more BY <3>3 DEF Asked
      <4>2. ReadUpTo(r2) = r2.highest BY <4>1 DEF ReadUpTo
      <4>3. \A j \in P : S[j].rev < S[i].rev BY <1>1, <3>3, PageIsLowest
      <4>. QED BY <1>2, <1>3, <1>4, <2>1, <3>3, <4>2, <4>3
    <3>. QED BY <1>2, <3>1, <3>2, <3>3
  <2>2. r2.top <= TopOf(S) BY <1>1 DEF Asked
  <2>3. r2.barrier # None => r2.barrier <= r2.highest
    BY <1>4 DEF Asked, Barrier
  <2>. QED BY <1>1, <1>4, <1>5, <2>1, <2>2, <2>3 DEF PageRead
<1>9. RowsOf(d, S, st, cf, b, u, r2)
  <2>1. ASSUME NEW i \in P, NEW e, e = [item |-> i, row |-> S[i]]
        PROVE  EntryOf(d, S, st, cf, b, u, r2, e)
    <3>1. e.item = i /\ e.row = S[i] /\ i \in Item /\ S[i].rev > since BY <1>3, <2>1
    <3>2. /\ 0 < S[i].rev /\ S[i].rev <= S[i].rev /\ S[i].rev <= r2.highest
          /\ bar # None => bar < S[i].rev
      BY <1>2, <1>4, <3>1 DEF Barrier
    <3>3. /\ st[i] # None => st[i].rev <= S[i].rev
          /\ cf[i] # None => cf[i].rev <= S[i].rev
          /\ OwnRowKnown(d, S[i], i, st, cf, b, u)
      BY <1>6, <3>1 DEF Keeps, IssuedOf, OwnOf
    <3>. QED BY <3>1, <3>2, <3>3 DEF EntryOf, Asked
  <2>. QED BY <2>1 DEF RowsOf, Asked
<1>10. r2.rows \in SUBSET Entry BY <1>1, <1>3 DEF Asked, Entry
<1>. QED BY <1>4, <1>7, <1>8, <1>9, <1>10 DEF Keeps, Asked
LEMMA AskPageStep ==
  ASSUME SyncInv, NEW d \in Device, AskPage(d)
  PROVE  SyncInv'
<1>. DEFINE S == server[gen[d]]
            since == ReadingFrom(d).since
            bar == ReadingFrom(d).barrier
            r2 == [stage |-> "page", token |-> round[d].token, barrier |-> bar,
                   rows |-> {[item |-> i, row |-> S[i]] : i \in PageAbove(S, since)},
                   highest |-> PageEnd(S, since),
                   more |-> \E i \in Item \ PageAbove(S, since) : S[i].rev > since,
                   top |-> TopOf(S)]
<1>1. /\ Shape(S, state[d], cursor[d], conflict[d], base[d], unheard[d], passed[d], round[d])
      /\ Current(d) = TRUE /\ round[d].stage # "sent"
      /\ Keeps(d, S, state[d], cursor[d], conflict[d], base[d], unheard[d], passed[d],
               round[d], TRUE)
  <2>1. Current(d) = TRUE /\ round[d].stage # "sent" BY DEF AskPage, Current, Fresh
  <2>. QED BY <2>1, DeviceShape DEF DeviceInv
<1>2. /\ since \in Nat /\ bar \in Barrier
      /\ cursor[d] <= since /\ since <= TopOf(S) /\ (bar # None => bar <= since)
      /\ \A i \in Item : S[i].rev <= since =>
             Covers(d, S, state[d], conflict[d], passed[d], i) \/ (bar # None /\ S[i].rev > bar)
  <2>1. CASE round[d].stage = "waiting"
    <3>1. since = cursor[d] /\ bar = None BY <2>1 DEF ReadingFrom
    <3>2. cursor[d] \in Nat /\ cursor[d] <= cursor[d] BY <1>1 DEF Shape
    <3>. HIDE DEF since, bar
    <3>. QED BY <1>1, <3>1, <3>2 DEF Keeps, IssuedOf, BehindOf, Barrier
  <2>2. CASE round[d].stage = "pull"
    <3>1. since = round[d].since /\ bar = round[d].barrier BY <2>2 DEF ReadingFrom
    <3>2. since \in Nat /\ bar \in Barrier BY <2>2, <3>1, DeviceShape, RoundShape
    <3>. HIDE DEF since, bar
    <3>. QED BY <1>1, <2>2, <3>1, <3>2 DEF Keeps, PullOf, PastBarrier
  <2>. QED BY <2>1, <2>2 DEF AskPage
<1>3. round' = [round EXCEPT ![d] = r2]
  BY DEF AskPage, PageOf, PageAbove, NewerThan, PageEnd, Top, TopOf
<1>. HIDE DEF since, bar
<1>4. Asked(S, since, bar, r2) BY DEF Asked
<1>5. /\ Keeps(d, S, state[d], cursor[d], conflict[d], base[d], unheard[d], passed[d],
               r2, TRUE)
      /\ r2.highest \in Nat /\ r2.rows \in SUBSET Entry
  <2>. HIDE DEF r2, S
  <2>. QED BY <1>1, <1>2, <1>4, PageAsked
<1>6. r2.token = round[d].token /\ r2.token \in Nat /\ r2.stage = "page"
  BY DeviceShape DEF AskPage
<1>7. r2 \in Rounds
  <2>1. TopOf(S) \in Nat BY <1>1, TopIs DEF Shape
  <2>2. r2 \in [stage : {"page"}, token : Nat, barrier : Barrier, rows : SUBSET Entry,
                highest : Nat, more : BOOLEAN, top : Nat]
    BY <1>2, <1>5, <1>6, <2>1
  <2>. HIDE DEF r2
  <2>. QED BY <2>2 DEF Rounds
<1>. HIDE DEF r2, S
<1>8. /\ round' \in [Device -> Rounds] /\ round'[d] = r2
      /\ \A f \in Device \ {d} : round'[f] = round[f]
  BY <1>3, <1>7, RoundSet DEF SyncInv
<1>9. Typed'
  <2>1. \A f \in Device : round'[f].stage # "idle" => round'[f].token <= gen[f]
    BY <1>6, <1>8, DeviceShape DEF AskPage
  <2>. QED BY <1>8, <2>1 DEF AskPage, SyncInv, Typed, Stored, History
<1>10. Apart(d) BY <1>8 DEF Apart, AskPage, Stored, History
<1>11. DeviceInv(d)'
  <2>1. Current(d)' = TRUE
    BY <1>6, <1>8 DEF AskPage, Current, Fresh
  <2>. QED BY <1>5, <1>8, <2>1 DEF DeviceInv, AskPage, Stored, History, S
<1>. QED BY <1>9, <1>10, <1>11, OneMoves DEF AskPage

LEMMA PageTaken ==
  ASSUME NEW d, NEW S, NEW st, NEW cur, NEW cf, NEW b, NEW u, NEW p, NEW r,
         Keeps(d, S, st, cur, cf, b, u, p, r, TRUE), r.stage = "page",
         NEW r2, r2.stage = "apply", r2.barrier = r.barrier, r2.rows = r.rows,
         r2.highest = r.highest, r2.more = r.more, r2.top = r.top,
         \A e \in r.rows : e.item \notin r2.blocked => cf[e.item] = None
  PROVE  Keeps(d, S, st, cur, cf, b, u, p, r2, TRUE)
<1>1. \A i \in Item : ~InFlight(r, TRUE, i) /\ ~InFlight(r2, TRUE, i) BY DEF InFlight
<1>2. BaseOf(st, b, u, r2, TRUE) /\ OwnOf(d, S, st, cf, b, u, r2, TRUE)
  BY <1>1 DEF Keeps, BaseOf, OwnOf
<1>3. ReadUpTo(r2) = ReadUpTo(r) BY DEF ReadUpTo
<1>4. \A row : PastBarrier(r2, row) <=> PastBarrier(r, row) BY DEF PastBarrier
<1>5. PageRead(d, S, st, cur, cf, p, r2) BY <1>3, <1>4 DEF Keeps, PageRead, Reading
<1>6. RowsOf(d, S, st, cf, b, u, r2)
  <2>1. RowsOf(d, S, st, cf, b, u, r) BY DEF Keeps, Reading
  <2>2. ASSUME NEW e \in r2.rows PROVE EntryOf(d, S, st, cf, b, u, r2, e)
    <3>1. EntryOf(d, S, st, cf, b, u, r, e) BY <2>1 DEF RowsOf
    <3>. QED BY <1>3, <3>1 DEF EntryOf
  <2>. QED BY <2>1, <2>2 DEF RowsOf
<1>. QED BY <1>2, <1>5, <1>6 DEF Keeps

LEMMA TakePageStep ==
  ASSUME SyncInv, NEW d \in Device, TakePage(d)
  PROVE  SyncInv'
<1>. DEFINE S == server[gen[d]]
            r2 == [stage |-> "apply", token |-> round[d].token, barrier |-> round[d].barrier,
                   rows |-> round[d].rows, highest |-> round[d].highest,
                   more |-> round[d].more, top |-> round[d].top, snap |-> local[d],
                   blocked |-> {i \in Item : conflict[d][i] # None}]
<1>1. round[d].stage = "page" /\ Fresh(d) /\ round' = [round EXCEPT ![d] = r2]
  BY DEF TakePage
<1>2. /\ round[d].barrier \in Barrier /\ round[d].rows \in SUBSET Entry
      /\ round[d].highest \in Nat /\ round[d].more \in BOOLEAN /\ round[d].top \in Nat
      /\ round[d].token \in Nat
  BY <1>1, DeviceShape, RoundShape DEF Reading
<1>3. Keeps(d, S, state[d], cursor[d], conflict[d], base[d], unheard[d], passed[d],
            round[d], TRUE)
  <2>1. Current(d) = TRUE BY <1>1 DEF Current
  <2>. QED BY <2>1, DeviceShape DEF DeviceInv
<1>4. \A e \in round[d].rows : e.item \notin r2.blocked => conflict[d][e.item] = None
  BY <1>2 DEF Entry
<1>5. r2 \in Rounds
  <2>1. local[d] \in [Item -> Payload] BY DEF SyncInv, Typed
  <2>2. r2.blocked \in SUBSET Item OBVIOUS
  <2>3. r2 \in ApplyRound BY <1>2, <2>1, <2>2 DEF ApplyRound
  <2>. HIDE DEF r2
  <2>. QED BY <2>3 DEF Rounds
<1>6. /\ r2.stage = "apply" /\ r2.token = round[d].token /\ r2.barrier = round[d].barrier
      /\ r2.rows = round[d].rows /\ r2.highest = round[d].highest
      /\ r2.more = round[d].more /\ r2.top = round[d].top
  OBVIOUS
<1>. HIDE DEF r2
<1>7. Keeps(d, S, state[d], cursor[d], conflict[d], base[d], unheard[d], passed[d],
            r2, TRUE)
  BY <1>1, <1>3, <1>4, <1>6, PageTaken
<1>8. /\ round' \in [Device -> Rounds] /\ round'[d] = r2
      /\ \A f \in Device \ {d} : round'[f] = round[f]
  BY <1>1, <1>5, RoundSet DEF SyncInv
<1>9. Typed'
  <2>1. \A f \in Device : round'[f].stage # "idle" => round'[f].token <= gen[f]
    BY <1>1, <1>6, <1>8, DeviceShape
  <2>. QED BY <1>8, <2>1 DEF TakePage, SyncInv, Typed, Stored, History
<1>10. Apart(d) BY <1>8 DEF Apart, TakePage, Stored, History
<1>11. DeviceInv(d)'
  <2>1. Current(d)' = TRUE
    BY <1>1, <1>6, <1>8 DEF TakePage, Current, Fresh
  <2>. QED BY <1>7, <1>8, <2>1 DEF DeviceInv, TakePage, Stored, History
<1>. QED BY <1>9, <1>10, <1>11, OneMoves DEF TakePage
\* How far the cursor moves, behind a held row if there is one.
LEMMA BehindIs ==
  ASSUME NEW r, r.barrier \in Barrier, NEW to \in Nat, NEW cur \in Nat,
         NEW cur2, cur2 = Max({cur, BehindBarrier(r, to)})
  PROVE  /\ BehindBarrier(r, to) \in Nat /\ BehindBarrier(r, to) <= to
         /\ r.barrier # None => BehindBarrier(r, to) <= r.barrier
         /\ cur2 \in Nat /\ cur <= cur2
         /\ cur2 \in {cur, BehindBarrier(r, to)}
<1>1. /\ BehindBarrier(r, to) \in Nat /\ BehindBarrier(r, to) <= to
      /\ r.barrier # None => BehindBarrier(r, to) <= r.barrier
  <2>1. CASE r.barrier = None BY <2>1 DEF BehindBarrier
  <2>2. CASE r.barrier # None
    <3>1. r.barrier \in Nat BY <2>2 DEF Barrier
    <3>2. LET m == Min({to, r.barrier}) IN m \in {to, r.barrier} /\ m <= to /\ m <= r.barrier
      BY <3>1, MinOf
    <3>. QED BY <2>2, <3>1, <3>2 DEF BehindBarrier
  <2>. QED BY <2>1, <2>2
<1>2. cur2 \in {cur, BehindBarrier(r, to)} /\ cur <= cur2
  <2>. DEFINE T == {cur} \cup {BehindBarrier(r, to)}
  <2>1. IsFiniteSet(T) BY FS_Singleton, FS_Union
  <2>2. T \in SUBSET Nat /\ T # {} /\ cur2 = Max(T)
    <3>1. T = {cur, BehindBarrier(r, to)} OBVIOUS
    <3>. QED BY <1>1, <3>1
  <2>. QED BY <2>1, <2>2, MaxOf
<1>. QED BY <1>1, <1>2

\* A page ended: the round r goes on to the next one or turns to pushing.
Ended(r, cur, r2, cur2) ==
    /\ cur2 = Max({cur, BehindBarrier(r, ReadUpTo(r))})
    /\ \/ r.more /\ r2.stage = "pull" /\ r2.since = r.highest /\ r2.barrier = r.barrier
       \/ r2.stage = "push"

LEMMA PageEnded ==
  ASSUME NEW d, NEW S, NEW st, NEW cur, NEW cf, NEW b, NEW u, NEW p, NEW r,
         Shape(S, st, cur, cf, b, u, p, r),
         Keeps(d, S, st, cur, cf, b, u, p, r, TRUE), r.stage = "apply", r.rows = {},
         NEW cur2, NEW r2, Ended(r, cur, r2, cur2)
  PROVE  Keeps(d, S, st, cur2, cf, b, u, p, r2, TRUE) /\ cur2 \in Nat
<1>. USE DEF Ended
<1>1. /\ r \in Rounds /\ r.stage \in Reading /\ cur \in Nat /\ TopOf(S) \in Nat
      /\ r.barrier \in Barrier /\ r.highest \in Nat /\ r.top \in Nat
      /\ \A i \in Item : S[i].rev \in Nat
  BY RoundShape, TopIs DEF Shape, Reading, Row
<1>2. PageRead(d, S, st, cur, cf, p, r) BY <1>1 DEF Keeps
<1>3. /\ ReadUpTo(r) \in Nat /\ ReadUpTo(r) \in {r.highest, r.top}
      /\ r.more => ReadUpTo(r) = r.highest
  BY <1>1, ReadUpToIs
<1>. DEFINE to == BehindBarrier(r, ReadUpTo(r))
<1>4. /\ to \in Nat /\ to <= ReadUpTo(r) /\ (r.barrier # None => to <= r.barrier)
      /\ cur2 \in Nat /\ cur <= cur2 /\ cur2 \in {cur, to}
  BY <1>1, <1>3, BehindIs
<1>. HIDE DEF to
<1>5. IssuedOf(S, st, cur2, cf)
  <2>1. ReadUpTo(r) <= TopOf(S) BY <1>1, <1>2, <1>3 DEF PageRead
  <2>2. cur2 <= TopOf(S) BY <1>1, <1>3, <1>4, <2>1 DEF Keeps, IssuedOf
  <2>. QED BY <2>2 DEF Keeps, IssuedOf
<1>6. BehindOf(d, S, st, cur2, cf, p)
  <2>1. ASSUME NEW i \in Item, S[i].rev <= cur2 PROVE Covers(d, S, st, cf, p, i)
    <3>1. CASE S[i].rev <= cur BY <3>1 DEF Keeps, BehindOf
    <3>2. CASE S[i].rev <= to
      <4>1. S[i].rev <= ReadUpTo(r) BY <1>1, <1>3, <1>4, <3>2
      <4>2. ~PastBarrier(r, S[i]) BY <1>1, <1>4, <3>2 DEF PastBarrier, Barrier
      <4>. QED BY <1>2, <4>1, <4>2 DEF PageRead
    <3>. QED BY <1>4, <2>1, <3>1, <3>2
  <2>. QED BY <2>1 DEF BehindOf
<1>7. \A i \in Item : ~InFlight(r, TRUE, i) /\ ~InFlight(r2, TRUE, i)
  BY DEF InFlight
<1>8. BaseOf(st, b, u, r2, TRUE) /\ OwnOf(d, S, st, cf, b, u, r2, TRUE)
  BY <1>7 DEF Keeps, BaseOf, OwnOf
<1>9. r2.stage = "pull" => PullOf(d, S, st, cur2, cf, p, r2)
  <2>. SUFFICES ASSUME r2.stage = "pull" PROVE PullOf(d, S, st, cur2, cf, p, r2)
    OBVIOUS
  <2>1. r.more /\ r2.since = r.highest /\ r2.barrier = r.barrier OBVIOUS
  <2>2. ReadUpTo(r) = r.highest /\ cur2 <= r.highest
    BY <1>1, <1>2, <1>3, <1>4, <2>1 DEF PageRead
  <2>3. \A i \in Item : PastBarrier(r2, S[i]) <=> PastBarrier(r, S[i])
    BY <2>1 DEF PastBarrier
  <2>. QED BY <1>2, <2>1, <2>2, <2>3 DEF PullOf, PageRead
<1>10. r2.stage \notin Reading /\ r2.stage # "sent" BY DEF Reading
<1>. QED BY <1>4, <1>5, <1>6, <1>8, <1>9, <1>10 DEF Keeps

LEMMA EndPageStep ==
  ASSUME SyncInv, NEW d \in Device, EndPage(d)
  PROVE  SyncInv'
<1>. DEFINE S == server[gen[d]]  r == round[d]
            cur2 == Max({cursor[d], BehindBarrier(r, ReadUpTo(r))})
            bar2 == IF r.barrier = None THEN None ELSE Max({r.barrier, cur2})
            r2 == IF r.more
                  THEN [stage |-> "pull", token |-> r.token, since |-> r.highest,
                        barrier |-> r.barrier]
                  ELSE [stage |-> "push", token |-> r.token, barrier |-> bar2]
<1>1. /\ Shape(S, state[d], cursor[d], conflict[d], base[d], unheard[d], passed[d], r)
      /\ r.stage = "apply" /\ Fresh(d) /\ r.rows = {}
      /\ Keeps(d, S, state[d], cursor[d], conflict[d], base[d], unheard[d], passed[d],
               r, TRUE)
  <2>1. Current(d) = TRUE BY DEF EndPage, Current
  <2>. QED BY <2>1, DeviceShape DEF DeviceInv, EndPage
<1>2. /\ r.barrier \in Barrier /\ r.highest \in Nat /\ r.more \in BOOLEAN /\ r.token \in Nat
      /\ r.token <= gen[d]
  BY <1>1, DeviceShape, RoundShape DEF Reading
<1>3. /\ cursor' = [cursor EXCEPT ![d] = cur2] /\ cursor'[d] = cur2
      /\ \A f \in Device \ {d} : cursor'[f] = cursor[f]
  BY DEF EndPage, SyncInv, Typed
<1>4. round' = [round EXCEPT ![d] = r2]
  BY <1>3 DEF EndPage
<1>5. Ended(r, cursor[d], r2, cur2) /\ r2.token = r.token /\ r2.stage # "idle"
  BY <1>2 DEF Ended
<1>6. cur2 \in Nat /\ Keeps(d, S, state[d], cur2, conflict[d], base[d], unheard[d], passed[d],
                            r2, TRUE)
  <2>. HIDE DEF r2, cur2, S, r
  <2>. QED BY <1>1, <1>5, PageEnded
<1>7. bar2 \in Barrier
  <2>. HIDE DEF cur2
  <2>1. CASE r.barrier = None BY <1>2, <2>1
  <2>2. CASE r.barrier # None
    <3>1. r.barrier \in Nat BY <1>2, <2>2 DEF Barrier
    <3>2. IsFiniteSet({r.barrier} \cup {cur2}) BY FS_Singleton, FS_Union
    <3>3. {r.barrier} \cup {cur2} = {r.barrier, cur2} OBVIOUS
    <3>4. Max({r.barrier, cur2}) \in {r.barrier, cur2} BY <1>6, <3>1, <3>2, <3>3, MaxOf
    <3>. QED BY <1>6, <2>2, <3>1, <3>4 DEF Barrier
  <2>. QED BY <2>1, <2>2
<1>8. r2 \in Rounds
  <2>. HIDE DEF bar2
  <2>. QED BY <1>2, <1>7 DEF Rounds
<1>. HIDE DEF r2, cur2
<1>9. /\ round' \in [Device -> Rounds] /\ round'[d] = r2
      /\ \A f \in Device \ {d} : round'[f] = round[f]
  BY <1>4, <1>8, RoundSet DEF SyncInv
<1>10. Typed'
  <2>1. \A f \in Device : round'[f].stage # "idle" => round'[f].token <= gen[f]
    BY <1>2, <1>5, <1>9, DeviceShape
  <2>2. cursor' \in [Device -> Nat] BY <1>3, <1>6 DEF SyncInv, Typed
  <2>. QED BY <1>9, <2>1, <2>2 DEF EndPage, SyncInv, Typed, History
<1>11. Apart(d) BY <1>3, <1>9 DEF Apart, EndPage, History
<1>12. DeviceInv(d)'
  <2>1. Current(d)' = TRUE
    BY <1>1, <1>5, <1>9 DEF EndPage, Current, Fresh
  <2>. QED BY <1>3, <1>6, <1>9, <2>1 DEF DeviceInv, EndPage, History
<1>. QED BY <1>10, <1>11, <1>12, OneMoves DEF EndPage
-----------------------------------------------------------------------------
(* A device pushes.                                                        *)

\* To the others: rows change to newer ones, none of them their own.
RowsMove(d, S, T) ==
    /\ T \in [Item -> Row]
    /\ \A i \in Item : T[i] = S[i] \/ (T[i].rev > TopOf(S) /\ T[i].dev # d)

LEMMA RowsMoved ==
  ASSUME NEW d, NEW S, NEW st, NEW cur, NEW cf, NEW b, NEW u, NEW p, NEW r, NEW fr,
         Shape(S, st, cur, cf, b, u, p, r),
         Keeps(d, S, st, cur, cf, b, u, p, r, fr),
         NEW T, RowsMove(d, S, T)
  PROVE  Keeps(d, T, st, cur, cf, b, u, p, r, fr)
<1>1. /\ S \in [Item -> Row] /\ T \in [Item -> Row]
      /\ TopOf(S) \in Nat /\ TopOf(T) \in Nat /\ cur \in Nat /\ r \in Rounds
      /\ \A i \in Item : S[i].rev \in Nat /\ T[i].rev \in Nat /\ S[i].rev <= TopOf(S)
  BY TopIs DEF Shape, RowsMove, Row
<1>2. \A i \in Item : T[i] = S[i] \/ (T[i].rev > TopOf(S) /\ T[i].dev # d)
  BY DEF RowsMove
<1>3. \A i \in Item : S[i].rev <= T[i].rev BY <1>1, <1>2
<1>4. TopOf(S) <= TopOf(T) BY <1>1, <1>3, TopGrows
<1>5. \A i \in Item : T[i].rev <= TopOf(S) => T[i] = S[i] BY <1>1, <1>2
<1>6. ASSUME NEW i \in Item, T[i] = S[i], Covers(d, S, st, cf, p, i)
      PROVE  Covers(d, T, st, cf, p, i)
  BY <1>6 DEF Covers
<1>7. cur <= TopOf(S) BY DEF Keeps, IssuedOf
<1>8. IssuedOf(T, st, cur, cf)
  <2>1. \A i \in Item : /\ st[i] # None => st[i].rev \in Nat
                        /\ cf[i] # None => cf[i].rev \in Nat
    BY DEF Shape, AgreedState, OpenConflict
  <2>. QED BY <1>1, <1>3, <1>4, <2>1 DEF Keeps, IssuedOf
<1>9. BehindOf(d, T, st, cur, cf, p)
  <2>1. \A i \in Item : T[i].rev <= cur => T[i] = S[i] /\ S[i].rev <= cur
    BY <1>1, <1>5, <1>7
  <2>. QED BY <1>6, <2>1 DEF Keeps, BehindOf
<1>10. OwnOf(d, T, st, cf, b, u, r, fr)
  <2>1. ASSUME NEW i \in Item PROVE InFlight(r, fr, i) \/ OwnRowKnown(d, T[i], i, st, cf, b, u)
    <3>1. CASE T[i] = S[i] BY <3>1 DEF Keeps, OwnOf
    <3>2. CASE T[i].dev # d BY <3>2 DEF OwnRowKnown
    <3>. QED BY <1>2, <3>1, <3>2
  <2>. QED BY <2>1 DEF OwnOf
<1>11. ASSUME fr, r.stage = "pull" PROVE PullOf(d, T, st, cur, cf, p, r)
  <2>1. PullOf(d, S, st, cur, cf, p, r) /\ r.since \in Nat
    BY <1>1, <1>11, RoundShape DEF Keeps
  <2>2. r.since <= TopOf(S) /\ r.since <= TopOf(T) BY <1>1, <1>4, <2>1 DEF PullOf
  <2>3. \A i \in Item : T[i].rev <= r.since => T[i] = S[i] /\ S[i].rev <= r.since
    BY <1>1, <1>5, <2>1, <2>2
  <2>. QED BY <1>6, <2>1, <2>2, <2>3 DEF PullOf
<1>12. ASSUME fr, r.stage \in Reading
       PROVE  PageRead(d, T, st, cur, cf, p, r) /\ RowsOf(d, T, st, cf, b, u, r)
  <2>1. /\ PageRead(d, S, st, cur, cf, p, r) /\ RowsOf(d, S, st, cf, b, u, r)
        /\ r.highest \in Nat /\ r.top \in Nat /\ r.rows \in SUBSET Entry
    BY <1>1, <1>12, RoundShape DEF Keeps
  <2>2. ReadUpTo(r) \in Nat /\ ReadUpTo(r) \in {r.highest, r.top}
    BY <1>1, <1>12, ReadUpToIs
  <2>3. /\ r.highest <= TopOf(S) /\ r.top <= TopOf(S) /\ ReadUpTo(r) <= TopOf(S)
        /\ r.highest <= TopOf(T) /\ r.top <= TopOf(T)
    BY <1>1, <1>4, <2>1, <2>2 DEF PageRead
  <2>4. \A i \in Item : T[i].rev <= ReadUpTo(r) => T[i] = S[i] /\ S[i].rev <= ReadUpTo(r)
    BY <1>1, <1>5, <2>2, <2>3
  <2>5. PageRead(d, T, st, cur, cf, p, r) BY <1>6, <2>1, <2>3, <2>4 DEF PageRead
  <2>6. ASSUME NEW e \in r.rows PROVE EntryOf(d, T, st, cf, b, u, r, e)
    <3>1. EntryOf(d, S, st, cf, b, u, r, e) BY <2>1 DEF RowsOf
    <3>2. e.item \in Item /\ e.row.rev \in Nat BY <2>1 DEF Entry, Row
    <3>3. e.row.rev <= T[e.item].rev BY <1>1, <1>3, <3>1, <3>2 DEF EntryOf
    <3>4. T[e.item] = e.row \/ (T[e.item].rev > ReadUpTo(r) /\ T[e.item].dev # d)
      BY <1>1, <1>2, <2>2, <2>3, <3>1, <3>2 DEF EntryOf
    <3>. QED BY <3>1, <3>3, <3>4 DEF EntryOf
  <2>7. RowsOf(d, T, st, cf, b, u, r) BY <2>1, <2>6 DEF RowsOf
  <2>. QED BY <2>5, <2>7
<1>13. ASSUME fr, r.stage = "sent" PROVE SentOf(d, T, st, cur, cf, b, u, r)
  <2>1. /\ SentOf(d, S, st, cur, cf, b, u, r)
        /\ r.accepted \in SUBSET Accepted /\ r.refused \in SUBSET Refused
    BY <1>1, <1>13, RoundShape DEF Keeps
  <2>2. \A f \in r.accepted : f.rev \in Nat /\ f.rev <= TopOf(S)
    BY <2>1 DEF SentOf, Accepted
  <2>3. ASSUME NEW i \in Item PROVE T[i] = S[i] \/ Later(d, T[i], cur, r)
    BY <1>1, <1>2, <1>7, <2>2, <2>3 DEF Later
  <2>4. ASSUME NEW e \in r.accepted
        PROVE  /\ e.rev <= TopOf(T) /\ e.rev <= T[e.item].rev
               /\ cf[e.item] = None /\ b[e.item] = e.val
               /\ \/ T[e.item] = [rev |-> e.rev, val |-> e.val, dev |-> d]
                  \/ Later(d, T[e.item], cur, r)
    <3>1. e.item \in Item /\ e.rev \in Nat BY <2>1 DEF Accepted
    <3>2. /\ e.rev <= TopOf(S) /\ e.rev <= S[e.item].rev
          /\ cf[e.item] = None /\ b[e.item] = e.val
          /\ \/ S[e.item] = [rev |-> e.rev, val |-> e.val, dev |-> d]
             \/ Later(d, S[e.item], cur, r)
      BY <2>1 DEF SentOf
    <3>3. e.rev <= TopOf(T) /\ e.rev <= T[e.item].rev BY <1>1, <1>3, <1>4, <3>1, <3>2
    <3>4. \/ T[e.item] = [rev |-> e.rev, val |-> e.val, dev |-> d]
          \/ Later(d, T[e.item], cur, r)
      BY <2>3, <3>1, <3>2
    <3>. QED BY <3>2, <3>3, <3>4
  <2>5. ASSUME NEW e \in r.refused
        PROVE  /\ 0 < e.row.rev /\ e.row.rev <= T[e.item].rev
               /\ cf[e.item] = None
               /\ st[e.item] # None => st[e.item].rev <= e.row.rev
               /\ e.row.dev = d => e.item \in u
               /\ T[e.item] = e.row \/ Later(d, T[e.item], cur, r)
               /\ \A f \in r.accepted : f.item # e.item
    <3>1. e.item \in Item /\ e.row.rev \in Nat BY <2>1 DEF Refused, Row
    <3>2. e.row.rev <= T[e.item].rev BY <1>1, <1>3, <2>1, <3>1 DEF SentOf
    <3>3. T[e.item] = e.row \/ Later(d, T[e.item], cur, r)
      BY <2>1, <2>3, <3>1 DEF SentOf
    <3>. QED BY <2>1, <3>2, <3>3 DEF SentOf
  <2>6. ASSUME NEW i \in Item, T[i].rev \in {e.rev : e \in r.accepted} PROVE T[i].dev = d
    <3>1. T[i] = S[i] BY <1>5, <2>2, <2>6
    <3>. QED BY <2>1, <2>6, <3>1 DEF SentOf
  <2>. QED BY <2>1, <2>4, <2>5, <2>6 DEF SentOf
<1>. QED BY <1>8, <1>9, <1>10, <1>11, <1>12, <1>13 DEF Keeps
\* To the device itself: of the items P that go up, those in acc are accepted,
\* the rows become T and its common base b2, and r2 waits for the answer.
AcceptedOf(acc, S, nth, loc) ==
    {[item |-> i, rev |-> TopOf(S) + nth[i], val |-> loc[i]] : i \in acc}
RefusedOf(ref, S, loc) == {[item |-> i, row |-> S[i], val |-> loc[i]] : i \in ref}

Pushes(d, S, st, cf, b, loc, P, acc, nth, T, b2, r2) ==
    /\ loc \in [Item -> Payload] /\ P \subseteq Item
    /\ \A i \in P : cf[i] = None
    /\ acc = {i \in P : (IF st[i] = None THEN 0 ELSE st[i].rev) = S[i].rev}
    /\ nth \in [acc -> Nat \ {0}]
    /\ T \in [Item -> Row] /\ b2 \in [Item -> Payload]
    /\ \A i \in acc : /\ T[i] = [rev |-> TopOf(S) + nth[i], val |-> loc[i], dev |-> d]
                      /\ b2[i] = loc[i]
    /\ \A i \in Item \ acc : T[i] = S[i] /\ b2[i] = b[i]
    /\ r2.stage = "sent"
    /\ r2.accepted = AcceptedOf(acc, S, nth, loc)
    /\ r2.refused = RefusedOf(P \ acc, S, loc)

\* What is read from a row, an entry of a reply or a refusal just made.
LEMMA RowFields ==
  ASSUME NEW rev, NEW val, NEW dev, NEW x, x = [rev |-> rev, val |-> val, dev |-> dev]
  PROVE  x.rev = rev /\ x.val = val /\ x.dev = dev
OBVIOUS
LEMMA AcceptedFields ==
  ASSUME NEW acc, NEW S, NEW nth, NEW loc, NEW e \in AcceptedOf(acc, S, nth, loc)
  PROVE  /\ e.item \in acc /\ e.rev = TopOf(S) + nth[e.item] /\ e.val = loc[e.item]
         /\ e = [item |-> e.item, rev |-> TopOf(S) + nth[e.item], val |-> loc[e.item]]
BY DEF AcceptedOf
LEMMA RefusedFields ==
  ASSUME NEW ref, NEW S, NEW loc, NEW e \in RefusedOf(ref, S, loc)
  PROVE  /\ e.item \in ref /\ e.row = S[e.item] /\ e.val = loc[e.item]
         /\ e = [item |-> e.item, row |-> S[e.item], val |-> loc[e.item]]
BY DEF RefusedOf

LEMMA Pushed ==
  ASSUME NEW d, NEW S, NEW st, NEW cur, NEW cf, NEW b, NEW u, NEW p, NEW r,
         Shape(S, st, cur, cf, b, u, p, r),
         Keeps(d, S, st, cur, cf, b, u, p, r, TRUE), r.stage = "push",
         NEW loc, NEW P, NEW acc, NEW nth, NEW T, NEW b2, NEW r2,
         Pushes(d, S, st, cf, b, loc, P, acc, nth, T, b2, r2)
  PROVE  /\ Keeps(d, T, st, cur, cf, b2, u, p, r2, TRUE)
         /\ r2.accepted \in SUBSET Accepted /\ r2.refused \in SUBSET Refused
<1>. USE DEF Pushes
<1>1. /\ S \in [Item -> Row] /\ T \in [Item -> Row] /\ acc \subseteq Item
      /\ TopOf(S) \in Nat /\ TopOf(T) \in Nat /\ cur \in Nat
      /\ \A i \in Item : S[i].rev \in Nat /\ T[i].rev \in Nat /\ S[i].rev <= TopOf(S)
                         /\ T[i].rev <= TopOf(T)
  BY TopIs DEF Shape, Row
<1>2. \A i \in acc : /\ nth[i] \in Nat \ {0} /\ T[i].rev = TopOf(S) + nth[i]
                     /\ T[i].rev > TopOf(S) /\ T[i].dev = d /\ T[i].val = loc[i]
  <2>1. \A i \in acc : nth[i] \in Nat \ {0} OBVIOUS
  <2>2. ASSUME NEW i \in acc
        PROVE  T[i].rev = TopOf(S) + nth[i] /\ T[i].dev = d /\ T[i].val = loc[i]
    <3>1. T[i] = [rev |-> TopOf(S) + nth[i], val |-> loc[i], dev |-> d] BY Zenon
    <3>. QED BY <3>1, RowFields
  <2>. QED BY <1>1, <2>1, <2>2
<1>3. \A i \in Item \ acc : T[i] = S[i] /\ b2[i] = b[i] OBVIOUS
<1>4. \A i \in Item : S[i].rev <= T[i].rev BY <1>1, <1>2, <1>3
<1>5. TopOf(S) <= TopOf(T) BY <1>1, <1>4, TopGrows
<1>6. \A i \in Item : T[i].rev <= TopOf(S) => i \notin acc BY <1>1, <1>2
<1>6a. ASSUME NEW e \in r2.accepted
       PROVE  /\ e.item \in acc /\ e.val = loc[e.item]
              /\ e.rev = TopOf(S) + nth[e.item]
              /\ e = [item |-> e.item, rev |-> TopOf(S) + nth[e.item], val |-> loc[e.item]]
  BY AcceptedFields
<1>7. \A i \in Item : i \in acc <=> InFlight(r2, TRUE, i)
  <2>1. ASSUME NEW i \in acc PROVE \E e \in r2.accepted : e.item = i
    <3>. DEFINE e == [item |-> i, rev |-> TopOf(S) + nth[i], val |-> loc[i]]
    <3>1. e \in r2.accepted BY Zenon DEF AcceptedOf
    <3>2. e.item = i OBVIOUS
    <3>. QED BY <3>1, <3>2, Zenon
  <2>2. r2.stage = "sent" OBVIOUS
  <2>. QED BY <1>6a, <2>1, <2>2, Zenon DEF InFlight
<1>8. \A i \in Item : ~InFlight(r, TRUE, i) BY DEF InFlight
<1>9. \A i \in Item : /\ st[i] # None => st[i].rev \in Nat
                      /\ cf[i] # None => cf[i].rev \in Nat
  BY DEF Shape, AgreedState, OpenConflict
<1>10. IssuedOf(T, st, cur, cf)
  BY <1>1, <1>4, <1>5, <1>9 DEF Keeps, IssuedOf
<1>11. BehindOf(d, T, st, cur, cf, p)
  <2>1. cur <= TopOf(S) BY DEF Keeps, IssuedOf
  <2>2. \A i \in Item : T[i].rev <= cur => T[i] = S[i] /\ S[i].rev <= cur
    BY <1>1, <1>3, <1>6, <2>1
  <2>3. \A i \in Item : S[i].rev <= cur => Covers(d, S, st, cf, p, i)
    BY DEF Keeps, BehindOf
  <2>4. ASSUME NEW i \in Item, T[i].rev <= cur PROVE Covers(d, T, st, cf, p, i)
    <3>1. T[i] = S[i] /\ Covers(d, S, st, cf, p, i) BY <2>2, <2>3, <2>4
    <3>. QED BY <3>1 DEF Covers
  <2>. QED BY <2>4 DEF BehindOf
<1>12. BaseOf(st, b2, u, r2, TRUE)
  BY <1>3, <1>7, <1>8 DEF Keeps, BaseOf
<1>13. OwnOf(d, T, st, cf, b2, u, r2, TRUE)
  <2>1. ASSUME NEW i \in Item \ acc PROVE OwnRowKnown(d, T[i], i, st, cf, b2, u)
    <3>1. OwnRowKnown(d, S[i], i, st, cf, b, u) BY <1>8 DEF Keeps, OwnOf
    <3>. QED BY <1>3, <3>1 DEF OwnRowKnown
  <2>. QED BY <1>7, <2>1 DEF OwnOf
<1>14. r2.accepted \in SUBSET Accepted /\ r2.refused \in SUBSET Refused
  <2>1. r2.accepted \in SUBSET Accepted
    BY <1>1, <1>2 DEF AcceptedOf, Accepted
  <2>2. r2.refused \in SUBSET Refused
    BY <1>1 DEF RefusedOf, Refused
  <2>. QED BY <2>1, <2>2
<1>15. SentOf(d, T, st, cur, cf, b2, u, r2)
  <2>1. IsFiniteSet(r2.accepted)
    <3>. DEFINE f == [i \in acc |-> [item |-> i, rev |-> TopOf(S) + nth[i], val |-> loc[i]]]
    <3>1. IsFiniteSet(acc) BY <1>1, FS_Subset, SyncAssumption
    <3>2. AcceptedOf(acc, S, nth, loc) = {f[i] : i \in acc} BY DEF AcceptedOf
    <3>. HIDE DEF f
    <3>3. IsFiniteSet({f[i] : i \in acc}) BY <3>1, FiniteImage
    <3>. QED BY <3>2, <3>3
  <2>2. ASSUME NEW e \in r2.accepted
        PROVE  e.item \in acc /\ e.rev = T[e.item].rev /\ e.rev > TopOf(S)
    BY <1>2, <1>6a
  <2>3. ASSUME NEW e \in r2.accepted
        PROVE  /\ e.rev <= TopOf(T) /\ e.rev <= T[e.item].rev
               /\ cf[e.item] = None /\ b2[e.item] = e.val
               /\ T[e.item] = [rev |-> e.rev, val |-> e.val, dev |-> d]
    <3>1. e.item \in acc /\ e.rev = T[e.item].rev /\ e.val = loc[e.item] BY <1>6a, <2>2
    <3>2. e.rev <= TopOf(T) /\ e.rev <= T[e.item].rev BY <1>1, <3>1
    <3>3. cf[e.item] = None /\ b2[e.item] = e.val BY <3>1, Zenon
    <3>4. T[e.item] = [rev |-> TopOf(S) + nth[e.item], val |-> loc[e.item], dev |-> d]
      BY <3>1, Zenon
    <3>5. e.rev = TopOf(S) + nth[e.item] BY <1>6a, Zenon
    <3>. QED BY <3>1, <3>2, <3>3, <3>4, <3>5, Zenon
  <2>4. ASSUME NEW e \in r2.refused
        PROVE  /\ e.item \in P \ acc /\ e.row = S[e.item]
               /\ e = [item |-> e.item, row |-> S[e.item], val |-> loc[e.item]]
    <3>1. PICK i \in P \ acc : e = [item |-> i, row |-> S[i], val |-> loc[i]]
      BY <2>4 DEF RefusedOf
    <3>. QED BY <3>1
  <2>5. ASSUME NEW e \in r2.refused
        PROVE  /\ 0 < e.row.rev /\ e.row.rev <= T[e.item].rev
               /\ cf[e.item] = None
               /\ st[e.item] # None => st[e.item].rev <= e.row.rev
               /\ e.row.dev = d => e.item \in u
               /\ T[e.item] = e.row
               /\ \A f \in r2.accepted : f.item # e.item
    <3>. DEFINE i == e.item
    <3>1. i \in P /\ i \notin acc /\ i \in Item /\ e.row = S[i] /\ T[i] = S[i]
      BY <1>3, <2>4
    <3>2. st[i] # None => st[i].rev <= S[i].rev /\ st[i].rev \in Nat
      BY <1>9, <3>1 DEF Keeps, IssuedOf
    <3>3. (IF st[i] = None THEN 0 ELSE st[i].rev) # S[i].rev BY <3>1
    <3>4. 0 < S[i].rev BY <1>1, <3>1, <3>2, <3>3
    <3>5. S[i].dev = d => i \in u
      <4>1. OwnRowKnown(d, S[i], i, st, cf, b, u) BY <1>8, <3>1 DEF Keeps, OwnOf
      <4>. QED BY <3>3, <4>1 DEF OwnRowKnown
    <3>6. \A f \in r2.accepted : f.item # i BY <2>2, <3>1
    <3>7. S[i].rev <= S[i].rev BY <1>1, <3>1
    <3>. QED BY <3>1, <3>2, <3>4, <3>5, <3>6, <3>7
  <2>6. \A e, f \in r2.accepted : e.item = f.item => e = f
    <3>1. \A e \in r2.accepted : e = [item |-> e.item, rev |-> TopOf(S) + nth[e.item], val |-> loc[e.item]]
      BY <1>6a
    <3>. QED BY <3>1, Zenon
  <2>7. \A e, f \in r2.refused : e.item = f.item => e = f BY <2>4
  <2>8. ASSUME NEW i \in Item, NEW e \in r2.accepted, T[i].rev = e.rev PROVE T[i].dev = d
    <3>1. e.rev > TopOf(S) BY <2>2
    <3>2. i \in acc BY <1>1, <1>3, <2>8, <3>1
    <3>. QED BY <1>2, <3>2
  <2>. QED BY <2>1, <2>3, <2>5, <2>6, <2>7, <2>8 DEF SentOf
<1>16. r2.stage \notin Reading /\ r2.stage # "pull" BY DEF Reading
<1>. QED BY <1>10, <1>11, <1>12, <1>13, <1>14, <1>15, <1>16 DEF Keeps
LEMMA PushStep ==
  ASSUME SyncInv, NEW d \in Device, Push(d)
  PROVE  SyncInv'
<1>. DEFINE a == gen[d]  S == server[a]  loc == local[d]  P == Pending(d)
            acc == {i \in P : BaseRev(d, i) = S[i].rev}
<1>1. /\ Shape(S, state[d], cursor[d], conflict[d], base[d], unheard[d], passed[d], round[d])
      /\ round[d].stage = "push" /\ Fresh(d) /\ a \in Account
      /\ round[d].token \in Nat /\ round[d].token <= a /\ round[d].barrier \in Barrier
      /\ Keeps(d, S, state[d], cursor[d], conflict[d], base[d], unheard[d], passed[d],
               round[d], TRUE)
  <2>1. Current(d) = TRUE BY DEF Push, Current
  <2>. QED BY <2>1, DeviceShape, RoundShape DEF DeviceInv, Push
<1>2. S \in [Item -> Row] /\ TopOf(S) \in Nat /\ loc \in [Item -> Payload]
  BY <1>1, TopIs DEF Shape, SyncInv, Typed
<1>3. P \subseteq Item /\ (\A i \in P : conflict[d][i] = None) /\ acc \subseteq Item
  BY DEF Pending
<1>4. PICK nth \in [acc -> 1 .. Cardinality(acc)] :
        /\ server' = [server EXCEPT ![a] = [i \in Item |->
               IF i \in acc
               THEN [rev |-> TopOf(S) + nth[i], val |-> loc[i], dev |-> d]
               ELSE S[i]]]
        /\ round' = [round EXCEPT ![d] =
               [stage |-> "sent", token |-> round[d].token, barrier |-> round[d].barrier,
                accepted |-> AcceptedOf(acc, S, nth, loc),
                refused |-> RefusedOf(P \ acc, S, loc)]]
  BY DEF Push, AcceptedOf, RefusedOf, Top, TopOf
<1>. DEFINE T == [i \in Item |->
               IF i \in acc
               THEN [rev |-> TopOf(S) + nth[i], val |-> loc[i], dev |-> d]
               ELSE S[i]]
            b2 == [i \in Item |-> IF i \in acc THEN loc[i] ELSE base[d][i]]
            r2 == [stage |-> "sent", token |-> round[d].token, barrier |-> round[d].barrier,
                   accepted |-> AcceptedOf(acc, S, nth, loc),
                   refused |-> RefusedOf(P \ acc, S, loc)]
<1>5. nth \in [acc -> Nat \ {0}] OBVIOUS
<1>6. T \in [Item -> Row]
  <2>1. ASSUME NEW i \in acc
        PROVE  [rev |-> TopOf(S) + nth[i], val |-> loc[i], dev |-> d] \in Row
    <3>1. nth[i] \in Nat /\ i \in Item BY <1>3, <1>5
    <3>. QED BY <1>2, <3>1 DEF Row
  <2>. HIDE DEF acc
  <2>. QED BY <1>2, <2>1
<1>7. /\ \A i \in acc : T[i] = [rev |-> TopOf(S) + nth[i], val |-> loc[i], dev |-> d]
                        /\ b2[i] = loc[i]
      /\ \A i \in Item \ acc : T[i] = S[i] /\ b2[i] = base[d][i]
  <2>. HIDE DEF acc
  <2>. QED BY <1>3
<1>7a. ASSUME NEW i \in acc PROVE T[i].rev = TopOf(S) + nth[i] /\ T[i].dev = d
  <2>1. T[i] = [rev |-> TopOf(S) + nth[i], val |-> loc[i], dev |-> d] BY <1>7
  <2>. HIDE DEF acc, T, loc, S
  <2>. QED BY <2>1, RowFields
<1>8. b2 \in [Item -> Payload] BY <1>1, <1>2 DEF Shape
<1>9. /\ r2.stage = "sent" /\ r2.accepted = AcceptedOf(acc, S, nth, loc)
      /\ r2.refused = RefusedOf(P \ acc, S, loc) /\ r2.token = round[d].token
      /\ r2.barrier = round[d].barrier
  OBVIOUS
<1>10. acc = {i \in P : (IF state[d][i] = None THEN 0 ELSE state[d][i].rev) = S[i].rev}
  BY DEF BaseRev
<1>11. /\ server' = [server EXCEPT ![a] = T] /\ base' = [base EXCEPT ![d] = b2]
       /\ round' = [round EXCEPT ![d] = r2]
  BY <1>4 DEF Push
<1>12. Pushes(d, S, state[d], conflict[d], base[d], loc, P, acc, nth, T, b2, r2)
  <2>. HIDE DEF acc, T, b2, r2, P, loc, S
  <2>. QED BY <1>2, <1>3, <1>5, <1>6, <1>7, <1>8, <1>9, <1>10 DEF Pushes
<1>. HIDE DEF acc, T, b2, r2, P, loc
<1>13. /\ Keeps(d, T, state[d], cursor[d], conflict[d], b2, unheard[d], passed[d], r2, TRUE)
       /\ r2.accepted \in SUBSET Accepted /\ r2.refused \in SUBSET Refused
  <2>. HIDE DEF S
  <2>. QED BY <1>1, <1>12, Pushed
<1>14. r2 \in Rounds
  <2>1. r2 = [stage |-> "sent", token |-> round[d].token, barrier |-> round[d].barrier,
              accepted |-> r2.accepted, refused |-> r2.refused]
    BY DEF r2
  <2>2. r2 \in [stage : {"sent"}, token : Nat, barrier : Barrier,
                accepted : SUBSET Accepted, refused : SUBSET Refused]
    BY <1>1, <1>13, <2>1
  <2>. QED BY <2>2 DEF Rounds
<1>15. /\ round' \in [Device -> Rounds] /\ round'[d] = r2
       /\ \A f \in Device \ {d} : round'[f] = round[f]
  BY <1>11, <1>14, RoundSet DEF SyncInv
<1>16. /\ server' \in [Account -> [Item -> Row]] /\ server'[a] = T
       /\ \A c \in Account \ {a} : server'[c] = server[c]
  BY <1>1, <1>6, <1>11 DEF SyncInv, Typed
<1>17. /\ base' \in [Device -> [Item -> Payload]] /\ base'[d] = b2
       /\ \A f \in Device \ {d} : base'[f] = base[f]
  BY <1>8, <1>11 DEF SyncInv, Typed
<1>18. /\ local' = local /\ state' = state /\ cursor' = cursor /\ conflict' = conflict
       /\ on' = on /\ gen' = gen /\ unheard' = unheard /\ passed' = passed
       /\ spent' = spent
  BY DEF Push, Stored
<1>19. Typed'
  <2>1. \A f \in Device : round'[f].stage # "idle" => round'[f].token <= gen[f]
    BY <1>1, <1>9, <1>15, DeviceShape
  <2>. QED BY <1>15, <1>16, <1>17, <1>18, <2>1 DEF SyncInv, Typed
<1>20. NotYetThere'
  <2>1. ASSUME NEW f \in Device, NEW c \in Account, NEW i \in Item, c > gen[f]
        PROVE  server'[c][i].dev # f
    <3>1. server[c][i].dev # f BY <2>1 DEF SyncInv, NotYetThere
    <3>2. CASE c # a BY <1>16, <3>1, <3>2
    <3>3. CASE c = a
      <4>1. f # d BY <2>1, <3>3, DeviceShape
      <4>2. T[i] = S[i] \/ T[i].dev = d BY <1>7, <1>7a
      <4>. QED BY <1>16, <3>1, <3>3, <4>1, <4>2
    <3>. QED BY <3>2, <3>3
  <2>. QED BY <1>18, <2>1 DEF NotYetThere
<1>21. DeviceInv(d)'
  <2>1. Current(d)' = TRUE
    BY <1>1, <1>9, <1>15, <1>18 DEF Current, Fresh
  <2>. QED BY <1>13, <1>15, <1>16, <1>17, <1>18, <2>1 DEF DeviceInv
<1>22. ASSUME NEW f \in Device \ {d} PROVE DeviceInv(f)'
  <2>1. CASE gen[f] # a
    <3>1. server'[gen[f]] = server[gen[f]] BY <1>16, <2>1, DeviceShape
    <3>. QED BY <1>15, <1>17, <1>18, <3>1, Unmoved, DeviceShape
  <2>2. CASE gen[f] = a
    <3>1. RowsMove(f, S, T)
      <4>1. ASSUME NEW i \in acc PROVE T[i].rev > TopOf(S) /\ T[i].dev # f
        <5>1. T[i].rev = TopOf(S) + nth[i] /\ T[i].dev = d BY <1>7a
        <5>2. nth[i] \in Nat \ {0} BY <1>5
        <5>. QED BY <1>2, <5>1, <5>2
      <4>. QED BY <1>6, <1>7, <4>1 DEF RowsMove
    <3>2. Keeps(f, S, state[f], cursor[f], conflict[f], base[f], unheard[f], passed[f],
                round[f], Current(f))
      BY <2>2, DeviceShape DEF DeviceInv
    <3>3. Keeps(f, T, state[f], cursor[f], conflict[f], base[f], unheard[f], passed[f],
                round[f], Current(f))
      BY <2>2, <3>1, <3>2, DeviceShape, RowsMoved
    <3>4. Current(f)' = Current(f) BY <1>15, <1>18 DEF Current, Fresh
    <3>. QED BY <1>15, <1>16, <1>17, <1>18, <2>2, <3>3, <3>4 DEF DeviceInv
  <2>. QED BY <2>1, <2>2
<1>. QED BY <1>19, <1>20, <1>21, <1>22 DEF SyncInv
-----------------------------------------------------------------------------
(* The answer to a push is recorded.                                       *)

RevsOf(r) == {e.rev : e \in r.accepted}

LEMMA ContiguousIs ==
  ASSUME NEW cur \in Nat, NEW R \in SUBSET Nat, IsFiniteSet(R),
         NEW to, to = Contiguous(cur, R)
  PROVE  /\ to \in Nat /\ cur <= to
         /\ to = cur \/ to \in R
         /\ \A n \in Nat : cur < n /\ n <= to => n \in R
<1>. DEFINE Runs == {n \in R : cur < n /\ cur + 1 .. n \subseteq R}
<1>1. IsFiniteSet({cur} \cup Runs)
  <2>1. IsFiniteSet(Runs) BY FS_Subset
  <2>. QED BY <2>1, FS_Singleton, FS_Union
<1>2. {cur} \cup Runs \in SUBSET Nat OBVIOUS
<1>3. to \in {cur} \cup Runs /\ \A y \in {cur} \cup Runs : y <= to
  BY <1>1, <1>2, MaxOf DEF Contiguous
<1>4. ASSUME NEW n \in Nat, cur < n, n <= to PROVE n \in R
  <2>1. to \in Runs /\ to \in Nat BY <1>2, <1>3, <1>4
  <2>2. cur + 1 .. to \subseteq R BY <2>1
  <2>3. n \in cur + 1 .. to BY <1>4, <2>1
  <2>. QED BY <2>2, <2>3
<1>. QED BY <1>2, <1>3, <1>4

\* What becomes of one item: accepted, the same on both sides, clashing, or
\* not in the push at all.
Accepts(e, st2, cf, cf2, b, b2, u2) ==
    /\ st2[e.item] = Agreed(e.rev, e.val)
    /\ cf2[e.item] = cf[e.item] /\ b2[e.item] = b[e.item] /\ e.item \notin u2
Agrees(e, st2, cf, cf2, b2, u2) ==
    /\ st2[e.item] = Agreed(e.row.rev, e.val)
    /\ cf2[e.item] = cf[e.item] /\ b2[e.item] = e.val /\ e.item \notin u2
Parks(e, st, st2, cf2, b, b2, u, u2, p, p2) ==
    /\ st2[e.item] = st[e.item] /\ b2[e.item] = b[e.item]
    /\ cf2[e.item] = [remote |-> e.row.val, rev |-> e.row.rev]
    /\ e.item \in u2 <=> e.item \in u
    /\ e.item \in p2 <=> e.item \in p
Leaves(i, st, st2, cf, cf2, b, b2, u, u2, p, p2) ==
    /\ st2[i] = st[i] /\ cf2[i] = cf[i] /\ b2[i] = b[i]
    /\ i \in u2 <=> i \in u
    /\ i \in p2 <=> i \in p

Answered(r, st, cur, cf, b, u, p, st2, cur2, cf2, b2, u2, p2) ==
    /\ cur2 = Max({cur, BehindBarrier(r, Contiguous(cur, RevsOf(r)))})
    /\ \A e \in r.accepted : Accepts(e, st2, cf, cf2, b, b2, u2)
    /\ \A e \in r.refused : IF SameBytes(e)
                            THEN Agrees(e, st2, cf, cf2, b2, u2)
                            ELSE Parks(e, st, st2, cf2, b, b2, u, u2, p, p2)
    /\ \A i \in Item : (\A e \in r.accepted \cup r.refused : e.item # i) =>
           Leaves(i, st, st2, cf, cf2, b, b2, u, u2, p, p2)

\* What every item is left with.
ItemKept(d, S, i, cur, st2, cf2, b2, u2, p2) ==
    /\ st2[i] \in AgreedState \cup {None}
    /\ cf2[i] \in OpenConflict \cup {None}
    /\ b2[i] \in Payload
    /\ st2[i] # None => st2[i].rev <= S[i].rev
    /\ cf2[i] # None => cf2[i].rev <= S[i].rev
    /\ st2[i] # None /\ cf2[i] # None => st2[i].rev <= cf2[i].rev
    /\ \/ b2[i] = AgreedHash(st2[i])
       \/ i \in u2
       \/ st2[i] # None /\ ~st2[i].deleted /\ st2[i].hash = Absent
    /\ OwnRowKnown(d, S[i], i, st2, cf2, b2, u2)
    /\ S[i].rev <= cur => Covers(d, S, st2, cf2, p2, i)

LEMMA AnsweredItem ==
  ASSUME NEW d, NEW S, NEW st, NEW cur, NEW cf, NEW b, NEW u, NEW p, NEW r,
         Shape(S, st, cur, cf, b, u, p, r), r.stage = "sent",
         Keeps(d, S, st, cur, cf, b, u, p, r, TRUE),
         NEW st2, NEW cur2, NEW cf2, NEW b2, NEW u2, NEW p2,
         Answered(r, st, cur, cf, b, u, p, st2, cur2, cf2, b2, u2, p2),
         NEW i \in Item
  PROVE  ItemKept(d, S, i, cur, st2, cf2, b2, u2, p2)
<1>. USE DEF ItemKept
<1>1. /\ r \in Rounds /\ SentOf(d, S, st, cur, cf, b, u, r)
      /\ r.accepted \in SUBSET Accepted /\ r.refused \in SUBSET Refused
  BY RoundShape DEF Shape, Keeps
<1>2. /\ S[i] \in Row /\ S[i].rev \in Nat /\ st[i] \in AgreedState \cup {None}
      /\ cf[i] \in OpenConflict \cup {None} /\ b[i] \in Payload /\ cur \in Nat
  BY DEF Shape, Row
<1>3. CASE \E e \in r.accepted : e.item = i
  <2>1. PICK e \in r.accepted : e.item = i BY <1>3
  <2>. DEFINE s == Agreed(e.rev, e.val)
  <2>2. /\ e.rev \in Nat /\ e.val \in Payload /\ e.rev <= S[i].rev
        /\ cf[i] = None /\ b[i] = e.val
        /\ \/ S[i] = [rev |-> e.rev, val |-> e.val, dev |-> d]
           \/ Later(d, S[i], cur, r)
    BY <1>1, <2>1 DEF SentOf, Accepted
  <2>3. st2[i] = s /\ cf2[i] = None /\ b2[i] = e.val /\ i \notin u2
    BY <2>1, <2>2 DEF Answered, Accepts
  <2>4. s \in AgreedState /\ s # None /\ s.rev = e.rev /\ s.hash = e.val
    <3>1. s \in AgreedState BY <2>2 DEF AgreedState, Agreed
    <3>. QED BY <3>1, SyncAssumption DEF Agreed
  <2>. HIDE DEF s
  <2>5. S[i].dev # d \/ (S[i].rev = e.rev /\ S[i].val = e.val /\ S[i].dev = d)
    BY <2>2, RowFields DEF Later
  <2>6. OwnRowKnown(d, S[i], i, st2, cf2, b2, u2)
    BY <2>3, <2>4, <2>5 DEF OwnRowKnown
  <2>7. S[i].rev <= cur => Covers(d, S, st2, cf2, p2, i)
    <3>1. S[i].rev <= cur => ~Later(d, S[i], cur, r) BY <1>2 DEF Later
    <3>2. S[i] = [rev |-> e.rev, val |-> e.val, dev |-> d] => S[i].dev = d
      BY RowFields
    <3>. QED BY <2>2, <3>1, <3>2 DEF Covers
  <2>. QED BY <2>2, <2>3, <2>4, <2>6, <2>7 DEF AgreedHash
<1>4. CASE \E e \in r.refused : e.item = i
  <2>1. PICK e \in r.refused : e.item = i BY <1>4
  <2>2. /\ e.row \in Row /\ e.row.rev \in Nat /\ e.row.val \in Payload /\ e.val \in Payload
        /\ 0 < e.row.rev /\ e.row.rev <= S[i].rev /\ cf[i] = None
        /\ st[i] # None => st[i].rev <= e.row.rev
        /\ e.row.dev = d => i \in u
        /\ S[i] = e.row \/ Later(d, S[i], cur, r)
    BY <1>1, <2>1 DEF SentOf, Refused, Row
  <2>3. S[i].rev <= cur => S[i] = e.row BY <1>2, <2>2 DEF Later
  <2>4. S[i].dev = d => S[i] = e.row BY <2>2 DEF Later
  <2>5. CASE SameBytes(e)
    <3>. DEFINE s == Agreed(e.row.rev, e.val)
    <3>1. st2[i] = s /\ cf2[i] = None /\ b2[i] = e.val /\ i \notin u2
      BY <2>1, <2>2, <2>5 DEF Answered, Agrees
    <3>2. s \in AgreedState /\ s # None /\ s.rev = e.row.rev /\ s.hash = e.val
      <4>1. s \in AgreedState BY <2>2 DEF AgreedState, Agreed
      <4>. QED BY <4>1, SyncAssumption DEF Agreed
    <3>. HIDE DEF s
    <3>3. OwnRowKnown(d, S[i], i, st2, cf2, b2, u2)
      BY <2>4, <2>5, <3>1, <3>2 DEF OwnRowKnown, SameBytes
    <3>4. S[i].rev <= cur => Covers(d, S, st2, cf2, p2, i)
      <4>1. e.row.rev <= e.row.rev BY <2>2
      <4>. QED BY <2>3, <3>1, <3>2, <4>1 DEF Covers
    <3>. QED BY <2>2, <3>1, <3>2, <3>3, <3>4 DEF AgreedHash
  <2>6. CASE ~SameBytes(e)
    <3>. DEFINE c == [remote |-> e.row.val, rev |-> e.row.rev]
    <3>1. /\ st2[i] = st[i] /\ cf2[i] = c /\ b2[i] = b[i]
          /\ i \in u2 <=> i \in u
      BY <2>1, <2>6 DEF Answered, Parks
    <3>2. c \in OpenConflict /\ c # None /\ c.rev = e.row.rev /\ c.remote = e.row.val
      <4>1. c \in OpenConflict BY <2>2 DEF OpenConflict
      <4>. QED BY <4>1, SyncAssumption
    <3>. HIDE DEF c
    <3>3. OwnRowKnown(d, S[i], i, st2, cf2, b2, u2)
      BY <2>2, <2>4, <3>1, <3>2 DEF OwnRowKnown
    <3>4. S[i].rev <= cur => Covers(d, S, st2, cf2, p2, i)
      <4>1. e.row.rev <= e.row.rev BY <2>2
      <4>. QED BY <2>3, <3>1, <3>2, <4>1 DEF Covers
    <3>5. \/ b[i] = AgreedHash(st[i])
          \/ i \in u
          \/ st[i] # None /\ ~st[i].deleted /\ st[i].hash = Absent
      <4>1. ~InFlight(r, TRUE, i) BY <1>1, <2>1 DEF InFlight, SentOf
      <4>. QED BY <4>1 DEF Keeps, BaseOf
    <3>6. st[i] # None => st[i].rev <= S[i].rev BY DEF Keeps, IssuedOf
    <3>. QED BY <1>2, <2>2, <3>1, <3>2, <3>3, <3>4, <3>5, <3>6
  <2>. QED BY <2>5, <2>6
<1>5. CASE \A e \in r.accepted \cup r.refused : e.item # i
  <2>1. Leaves(i, st, st2, cf, cf2, b, b2, u, u2, p, p2) BY <1>5 DEF Answered
  <2>2. ~InFlight(r, TRUE, i) BY <1>5 DEF InFlight
  <2>3. /\ st[i] # None => st[i].rev <= S[i].rev
        /\ cf[i] # None => cf[i].rev <= S[i].rev
        /\ st[i] # None /\ cf[i] # None => st[i].rev <= cf[i].rev
        /\ \/ b[i] = AgreedHash(st[i])
           \/ i \in u
           \/ st[i] # None /\ ~st[i].deleted /\ st[i].hash = Absent
        /\ OwnRowKnown(d, S[i], i, st, cf, b, u)
        /\ S[i].rev <= cur => Covers(d, S, st, cf, p, i)
    BY <2>2 DEF Keeps, IssuedOf, BaseOf, OwnOf, BehindOf
  <2>4. OwnRowKnown(d, S[i], i, st2, cf2, b2, u2) BY <2>1, <2>3 DEF Leaves, OwnRowKnown
  <2>5. S[i].rev <= cur => Covers(d, S, st2, cf2, p2, i) BY <2>1, <2>3 DEF Leaves, Covers
  <2>. QED BY <1>2, <2>1, <2>3, <2>4, <2>5 DEF Leaves
<1>. QED BY <1>3, <1>4, <1>5
LEMMA AnswerCursor ==
  ASSUME NEW d, NEW S, NEW st, NEW cur, NEW cf, NEW b, NEW u, NEW p, NEW r,
         Shape(S, st, cur, cf, b, u, p, r), r.stage = "sent",
         Keeps(d, S, st, cur, cf, b, u, p, r, TRUE),
         NEW st2, NEW cur2, NEW cf2, NEW b2, NEW u2, NEW p2,
         Answered(r, st, cur, cf, b, u, p, st2, cur2, cf2, b2, u2, p2)
  PROVE  /\ cur2 \in Nat /\ cur2 <= TopOf(S)
         /\ \A n \in Nat : cur < n /\ n <= cur2 => n \in RevsOf(r)
<1>1. /\ SentOf(d, S, st, cur, cf, b, u, r) /\ r.barrier \in Barrier
      /\ r.accepted \in SUBSET Accepted /\ S \in [Item -> Row] /\ cur \in Nat
      /\ TopOf(S) \in Nat /\ \A i \in Item : S[i].rev \in Nat
  BY RoundShape, TopIs DEF Shape, Keeps, Row
<1>2. RevsOf(r) \in SUBSET Nat /\ IsFiniteSet(RevsOf(r))
  <2>1. RevsOf(r) \in SUBSET Nat BY <1>1 DEF RevsOf, Accepted
  <2>2. IsFiniteSet(RevsOf(r))
    <3>. DEFINE f == [e \in r.accepted |-> e.rev]
    <3>1. RevsOf(r) = {f[e] : e \in r.accepted} BY DEF RevsOf
    <3>2. IsFiniteSet(r.accepted) BY <1>1 DEF SentOf
    <3>. HIDE DEF f
    <3>3. IsFiniteSet({f[e] : e \in r.accepted}) BY <3>2, FiniteImage
    <3>. QED BY <3>1, <3>3
  <2>. QED BY <2>1, <2>2
<1>. DEFINE to == Contiguous(cur, RevsOf(r))
<1>3. /\ to \in Nat /\ (to = cur \/ to \in RevsOf(r))
      /\ \A n \in Nat : cur < n /\ n <= to => n \in RevsOf(r)
  BY <1>1, <1>2, ContiguousIs
<1>4. to <= TopOf(S)
  <2>1. cur <= TopOf(S) BY DEF Keeps, IssuedOf
  <2>2. \A n \in RevsOf(r) : n <= TopOf(S) BY <1>1 DEF RevsOf, SentOf
  <2>. QED BY <1>3, <2>1, <2>2
<1>. HIDE DEF to
<1>5. /\ cur2 \in Nat /\ cur <= cur2 /\ cur2 \in {cur, BehindBarrier(r, to)}
      /\ BehindBarrier(r, to) \in Nat /\ BehindBarrier(r, to) <= to
  <2>1. cur2 = Max({cur, BehindBarrier(r, to)}) BY DEF Answered, to
  <2>. QED BY <1>1, <1>3, <2>1, BehindIs
<1>6. cur2 <= TopOf(S) BY <1>1, <1>3, <1>4, <1>5 DEF Keeps, IssuedOf
<1>. QED BY <1>3, <1>5, <1>6

LEMMA AnswerRecorded ==
  ASSUME NEW d, NEW S, NEW st, NEW cur, NEW cf, NEW b, NEW u, NEW p, NEW r,
         Shape(S, st, cur, cf, b, u, p, r), r.stage = "sent",
         Keeps(d, S, st, cur, cf, b, u, p, r, TRUE),
         NEW st2, NEW cur2, NEW cf2, NEW b2, NEW u2, NEW p2,
         Answered(r, st, cur, cf, b, u, p, st2, cur2, cf2, b2, u2, p2),
         NEW r2, r2.stage = "idle", NEW fr2
  PROVE  Keeps(d, S, st2, cur2, cf2, b2, u2, p2, r2, fr2)
<1>1. /\ SentOf(d, S, st, cur, cf, b, u, r)
      /\ cur \in Nat /\ \A i \in Item : S[i].rev \in Nat
  BY DEF Shape, Keeps, Row
<1>2. /\ cur2 \in Nat /\ cur2 <= TopOf(S)
      /\ \A n \in Nat : cur < n /\ n <= cur2 => n \in RevsOf(r)
  BY AnswerCursor
<1>3. \A i \in Item : ItemKept(d, S, i, cur, st2, cf2, b2, u2, p2) BY AnsweredItem
<1>4. IssuedOf(S, st2, cur2, cf2)
  BY <1>2, <1>3 DEF IssuedOf, ItemKept
<1>5. BehindOf(d, S, st2, cur2, cf2, p2)
  <2>1. ASSUME NEW i \in Item, S[i].rev <= cur2 PROVE Covers(d, S, st2, cf2, p2, i)
    <3>1. CASE S[i].rev <= cur BY <1>3, <3>1 DEF ItemKept
    <3>2. CASE cur < S[i].rev
      <4>1. S[i].rev \in RevsOf(r) BY <1>1, <1>2, <2>1, <3>2
      <4>2. S[i].dev = d BY <1>1, <4>1 DEF SentOf, RevsOf
      <4>. QED BY <4>2 DEF Covers
    <3>. QED BY <1>1, <3>1, <3>2
  <2>. QED BY <2>1 DEF BehindOf
<1>6. BaseOf(st2, b2, u2, r2, fr2) BY <1>3 DEF BaseOf, ItemKept
<1>7. OwnOf(d, S, st2, cf2, b2, u2, r2, fr2) BY <1>3 DEF OwnOf, ItemKept
<1>8. r2.stage \notin Reading \cup {"pull", "sent"} BY DEF Reading
<1>. QED BY <1>4, <1>5, <1>6, <1>7, <1>8 DEF Keeps

\* The records the action builds, read item by item.
LEMMA Settles ==
  ASSUME SyncInv, NEW d \in Device, RecordReply(d)
  PROVE  /\ Answered(round[d], state[d], cursor[d], conflict[d], base[d], unheard[d],
                     passed[d], state'[d], cursor'[d], conflict'[d], base'[d],
                     unheard'[d], passed'[d])
         /\ unheard'[d] \subseteq unheard[d] /\ passed'[d] \subseteq passed[d]
<1>. DEFINE r == round[d]
            same == {e \in r.refused : SameBytes(e)}
            clash == r.refused \ same
            taken == {[item |-> e.item, s |-> Agreed(e.rev, PushedHash(d, e))] : e \in r.accepted}
            equal == {[item |-> e.item, s |-> Agreed(e.row.rev, e.val)] : e \in same}
            agreed == taken \cup equal
            settled == {e.item : e \in agreed}
<1>1. /\ r.stage = "sent"
      /\ SentOf(d, server[gen[d]], state[d], cursor[d], conflict[d], base[d], unheard[d], r)
      /\ r.accepted \in SUBSET Accepted /\ r.refused \in SUBSET Refused
  <2>1. Current(d) = TRUE /\ r.stage = "sent" BY DEF RecordReply, Current
  <2>. QED BY <2>1, DeviceShape, RoundShape DEF DeviceInv, Keeps
<1>2. /\ \A e, f \in r.accepted : e.item = f.item => e = f
      /\ \A e, f \in r.refused : e.item = f.item => e = f
      /\ \A e \in r.refused : \A f \in r.accepted : f.item # e.item
      /\ \A e \in r.accepted : conflict[d][e.item] = None
      /\ \A e \in r.refused : conflict[d][e.item] = None
  BY <1>1 DEF SentOf
<1>3. /\ state'[d] = [i \in Item |->
             IF i \in settled THEN (CHOOSE e \in agreed : e.item = i).s ELSE state[d][i]]
      /\ conflict'[d] = [i \in Item |->
             IF \E e \in clash : e.item = i
             THEN LET e == CHOOSE x \in clash : x.item = i IN
                  [remote |-> e.row.val, rev |-> e.row.rev]
             ELSE conflict[d][i]]
      /\ cursor'[d] = Max({cursor[d], BehindBarrier(r, Contiguous(cursor[d], RevsOf(r)))})
      /\ base'[d] = [i \in Item |->
             IF \E e \in same : e.item = i
             THEN (CHOOSE e \in same : e.item = i).val ELSE base[d][i]]
      /\ unheard'[d] = unheard[d] \ settled
      /\ passed'[d] = passed[d] \ settled
  BY DEF RecordReply, SyncInv, Typed, RevsOf
<1>4. \A e \in r.accepted \cup r.refused : e.item \in Item
  BY <1>1 DEF Accepted, Refused
<1>5. ASSUME NEW x \in agreed
      PROVE  \/ \E e \in r.accepted : x.item = e.item /\ x.s = Agreed(e.rev, e.val)
             \/ \E e \in same : x.item = e.item /\ x.s = Agreed(e.row.rev, e.val)
  <2>1. CASE x \in taken
    <3>1. PICK e \in r.accepted : x = [item |-> e.item, s |-> Agreed(e.rev, PushedHash(d, e))]
      BY <2>1
    <3>2. x.item = e.item /\ x.s = Agreed(e.rev, e.val) BY <3>1 DEF PushedHash
    <3>. QED BY <3>2
  <2>2. CASE x \in equal
    <3>1. PICK e \in same : x = [item |-> e.item, s |-> Agreed(e.row.rev, e.val)]
      BY <2>2
    <3>2. x.item = e.item /\ x.s = Agreed(e.row.rev, e.val) BY <3>1
    <3>. QED BY <3>2
  <2>. QED BY <2>1, <2>2
<1>6. ASSUME NEW e \in r.accepted PROVE \E x \in agreed : x.item = e.item
  <2>. DEFINE x == [item |-> e.item, s |-> Agreed(e.rev, PushedHash(d, e))]
  <2>1. x \in agreed /\ x.item = e.item OBVIOUS
  <2>. QED BY <2>1, Zenon
<1>7. ASSUME NEW e \in same PROVE \E x \in agreed : x.item = e.item
  <2>. DEFINE x == [item |-> e.item, s |-> Agreed(e.row.rev, e.val)]
  <2>1. x \in agreed /\ x.item = e.item OBVIOUS
  <2>. QED BY <2>1, Zenon
<1>8. \A i : i \in settled <=> \E x \in agreed : x.item = i OBVIOUS
<1>. HIDE DEF agreed, settled
<1>9. ASSUME NEW e \in r.accepted
      PROVE  Accepts(e, state'[d], conflict[d], conflict'[d], base[d], base'[d], unheard'[d])
  <2>. DEFINE x == CHOOSE y \in agreed : y.item = e.item
  <2>1. e.item \in settled /\ e.item \in Item BY <1>4, <1>6, <1>8
  <2>2. x \in agreed /\ x.item = e.item BY <1>6
  <2>. HIDE DEF x
  <2>3. x.s = Agreed(e.rev, e.val) BY <1>2, <1>5, <2>2
  <2>4. state'[d][e.item] = x.s BY <1>3, <2>1 DEF x
  <2>5. \A f \in r.refused : f.item # e.item BY <1>2
  <2>6. conflict'[d][e.item] = conflict[d][e.item] /\ base'[d][e.item] = base[d][e.item]
    BY <1>3, <2>1, <2>5
  <2>7. e.item \notin unheard'[d] BY <1>3, <2>1
  <2>. QED BY <2>3, <2>4, <2>6, <2>7 DEF Accepts
<1>10. ASSUME NEW e \in r.refused, SameBytes(e)
       PROVE  Agrees(e, state'[d], conflict[d], conflict'[d], base'[d], unheard'[d])
  <2>. DEFINE x == CHOOSE y \in agreed : y.item = e.item
              z == CHOOSE y \in same : y.item = e.item
  <2>0. e \in same BY <1>10
  <2>1. e.item \in settled /\ e.item \in Item BY <1>4, <1>7, <1>8, <2>0
  <2>2. x \in agreed /\ x.item = e.item BY <1>7, <2>0
  <2>3. z \in same /\ z.item = e.item BY <2>0
  <2>. HIDE DEF x, z
  <2>4. z = e BY <1>2, <2>3
  <2>5. x.s = Agreed(e.row.rev, e.val) BY <1>2, <1>5, <2>2
  <2>6. state'[d][e.item] = x.s BY <1>3, <2>1 DEF x
  <2>7. base'[d][e.item] = z.val BY <1>3, <2>0, <2>1 DEF z
  <2>8. \A f \in clash : f.item # e.item BY <1>2, <2>0
  <2>9. conflict'[d][e.item] = conflict[d][e.item] BY <1>3, <2>1, <2>8
  <2>10. e.item \notin unheard'[d] BY <1>3, <2>1
  <2>. QED BY <2>4, <2>5, <2>6, <2>7, <2>9, <2>10 DEF Agrees
<1>11. ASSUME NEW e \in r.refused, ~SameBytes(e)
       PROVE  Parks(e, state[d], state'[d], conflict'[d], base[d], base'[d], unheard[d],
                    unheard'[d], passed[d], passed'[d])
  <2>. DEFINE z == CHOOSE y \in clash : y.item = e.item
  <2>0. e \in clash /\ e.item \in Item BY <1>4, <1>11
  <2>1. e.item \notin settled BY <1>2, <1>5, <1>8, <2>0
  <2>2. z \in clash /\ z.item = e.item BY <2>0
  <2>3. conflict'[d][e.item] = [remote |-> z.row.val, rev |-> z.row.rev]
    BY <1>3, <2>0
  <2>. HIDE DEF z
  <2>4. z = e BY <1>2, <2>2
  <2>5. \A f \in same : f.item # e.item BY <1>2, <2>0
  <2>6. state'[d][e.item] = state[d][e.item] /\ base'[d][e.item] = base[d][e.item]
    BY <1>3, <2>0, <2>1, <2>5
  <2>. QED BY <1>3, <2>1, <2>3, <2>4, <2>6 DEF Parks
<1>12. ASSUME NEW i \in Item, \A e \in r.accepted \cup r.refused : e.item # i
       PROVE  Leaves(i, state[d], state'[d], conflict[d], conflict'[d], base[d], base'[d],
                     unheard[d], unheard'[d], passed[d], passed'[d])
  <2>1. i \notin settled BY <1>5, <1>8, <1>12
  <2>2. \A f \in same \cup clash : f.item # i BY <1>12
  <2>. QED BY <1>3, <2>1, <2>2 DEF Leaves
<1>13. unheard'[d] \subseteq unheard[d] /\ passed'[d] \subseteq passed[d] BY <1>3
<1>14. cursor'[d] = Max({cursor[d], BehindBarrier(r, Contiguous(cursor[d], RevsOf(r)))})
  BY <1>3
<1>. HIDE DEF same, clash, r
<1>15. Answered(r, state[d], cursor[d], conflict[d], base[d], unheard[d], passed[d],
                state'[d], cursor'[d], conflict'[d], base'[d], unheard'[d], passed'[d])
  BY <1>9, <1>10, <1>11, <1>12, <1>14 DEF Answered
<1>. QED BY <1>13, <1>15 DEF r
LEMMA RecordReplyStep ==
  ASSUME SyncInv, NEW d \in Device, RecordReply(d)
  PROVE  SyncInv'
<1>. DEFINE S == server[gen[d]]
<1>1. /\ Shape(S, state[d], cursor[d], conflict[d], base[d], unheard[d], passed[d], round[d])
      /\ round[d].stage = "sent" /\ Current(d) = TRUE
      /\ Keeps(d, S, state[d], cursor[d], conflict[d], base[d], unheard[d], passed[d],
               round[d], TRUE)
  <2>1. Current(d) = TRUE BY DEF RecordReply, Current
  <2>. QED BY <2>1, DeviceShape DEF DeviceInv, RecordReply
<1>2. /\ Answered(round[d], state[d], cursor[d], conflict[d], base[d], unheard[d],
                  passed[d], state'[d], cursor'[d], conflict'[d], base'[d],
                  unheard'[d], passed'[d])
      /\ unheard'[d] \subseteq unheard[d] /\ passed'[d] \subseteq passed[d]
  BY Settles
<1>3. \A i \in Item : ItemKept(d, S, i, cursor[d], state'[d], conflict'[d], base'[d],
                               unheard'[d], passed'[d])
  BY <1>1, <1>2, AnsweredItem
<1>4. Idle \in Rounds /\ Idle.stage = "idle" BY DEF Rounds, Idle
<1>5. /\ round' \in [Device -> Rounds] /\ round'[d] = Idle
      /\ \A f \in Device \ {d} : round'[f] = round[f]
  BY <1>4, RoundSet DEF RecordReply, EndRound, SyncInv
<1>6. Keeps(d, S, state'[d], cursor'[d], conflict'[d], base'[d], unheard'[d], passed'[d],
            Idle, Current(d)')
  BY <1>1, <1>2, <1>4, AnswerRecorded
<1>6a. cursor'[d] \in Nat BY <1>1, <1>2, AnswerCursor
<1>7. /\ server' = server /\ local' = local /\ on' = on /\ gen' = gen /\ spent' = spent
  BY DEF RecordReply
<1>8. Apart(d) BY <1>5 DEF Apart, RecordReply, SyncInv, Typed
<1>9. Typed'
  <2>1. state' \in [Device -> [Item -> AgreedState \cup {None}]]
    <3>1. /\ state' = [f \in Device |-> state'[f]]
          /\ state'[d] = [i \in Item |-> state'[d][i]]
      <4>. DEFINE r == round[d]
                  same == {e \in r.refused : SameBytes(e)}
                  agreed ==
                    {[item |-> e.item, s |-> Agreed(e.rev, PushedHash(d, e))] : e \in r.accepted}
                    \cup {[item |-> e.item, s |-> Agreed(e.row.rev, e.val)] : e \in same}
                  settled == {e.item : e \in agreed}
                  now == [i \in Item |->
                    IF i \in settled THEN (CHOOSE e \in agreed : e.item = i).s ELSE state[d][i]]
      <4>1. state' = [state EXCEPT ![d] = now] BY DEF RecordReply
      <4>2. now = [i \in Item |-> now[i]] OBVIOUS
      <4>. HIDE DEF now
      <4>3. state \in [Device -> [Item -> AgreedState \cup {None}]] BY DEF SyncInv, Typed
      <4>4. state' = [f \in Device |-> state'[f]] /\ state'[d] = now BY <4>1, <4>3
      <4>. QED BY <4>2, <4>4
    <3>2. \A i \in Item : state'[d][i] \in AgreedState \cup {None} BY <1>3 DEF ItemKept
    <3>3. \A f \in Device \ {d} : state'[f] \in [Item -> AgreedState \cup {None}]
      BY <1>8 DEF Apart, SyncInv, Typed
    <3>4. state'[d] \in [Item -> AgreedState \cup {None}] BY <3>1, <3>2
    <3>. QED BY <3>1, <3>3, <3>4
  <2>2. conflict' \in [Device -> [Item -> OpenConflict \cup {None}]]
    <3>1. /\ conflict' = [f \in Device |-> conflict'[f]]
          /\ conflict'[d] = [i \in Item |-> conflict'[d][i]]
      BY DEF RecordReply, SyncInv, Typed
    <3>2. \A i \in Item : conflict'[d][i] \in OpenConflict \cup {None} BY <1>3 DEF ItemKept
    <3>3. \A f \in Device \ {d} : conflict'[f] \in [Item -> OpenConflict \cup {None}]
      BY <1>8 DEF Apart, SyncInv, Typed
    <3>4. conflict'[d] \in [Item -> OpenConflict \cup {None}] BY <3>1, <3>2
    <3>. QED BY <3>1, <3>3, <3>4
  <2>3. base' \in [Device -> [Item -> Payload]]
    <3>1. /\ base' = [f \in Device |-> base'[f]]
          /\ base'[d] = [i \in Item |-> base'[d][i]]
      BY DEF RecordReply, SyncInv, Typed
    <3>2. \A i \in Item : base'[d][i] \in Payload BY <1>3 DEF ItemKept
    <3>3. \A f \in Device \ {d} : base'[f] \in [Item -> Payload]
      BY <1>8 DEF Apart, SyncInv, Typed
    <3>4. base'[d] \in [Item -> Payload] BY <3>1, <3>2
    <3>. QED BY <3>1, <3>3, <3>4
  <2>4. cursor' \in [Device -> Nat]
    <3>1. cursor' = [f \in Device |-> cursor'[f]] BY DEF RecordReply, SyncInv, Typed
    <3>2. \A f \in Device \ {d} : cursor'[f] \in Nat BY <1>8 DEF Apart, SyncInv, Typed
    <3>. QED BY <1>6a, <3>1, <3>2
  <2>5. unheard' \in [Device -> SUBSET Item] /\ passed' \in [Device -> SUBSET Item]
    BY DEF RecordReply, SyncInv, Typed
  <2>6. \A f \in Device : round'[f].stage # "idle" => round'[f].token <= gen[f]
    BY <1>4, <1>5, DeviceShape
  <2>. QED BY <1>5, <1>7, <2>1, <2>2, <2>3, <2>4, <2>5, <2>6 DEF SyncInv, Typed
<1>10. DeviceInv(d)'
  BY <1>5, <1>6, <1>7 DEF DeviceInv
<1>. QED BY <1>7, <1>8, <1>9, <1>10, OneMoves
-----------------------------------------------------------------------------
(* The beginning, and every step.                                          *)

\* A numbering of a finite set that repeats nothing uses its last number.
LEMMA LastNumber ==
  ASSUME NEW K, IsFiniteSet(K), K # {}, NEW f \in [K -> 1 .. Cardinality(K)],
         \A i, j \in K : f[i] = f[j] => i = j
  PROVE  \E i \in K : f[i] = Cardinality(K)
<1>1. Cardinality(K) \in Nat /\ Cardinality(K) # 0
  BY FS_CardinalityType, FS_EmptySet
<1>2. /\ IsFiniteSet(1 .. Cardinality(K))
      /\ Cardinality(1 .. Cardinality(K)) = Cardinality(K)
  BY <1>1, FS_Interval
<1>3. f \in Injection(K, 1 .. Cardinality(K)) BY DEF Injection, IsInjective
<1>4. f \in Surjection(K, 1 .. Cardinality(K)) BY <1>2, <1>3, FS_Injection
<1>5. Cardinality(K) \in 1 .. Cardinality(K) BY <1>1
<1>. QED BY <1>4, <1>5 DEF Surjection

LEMMA SyncInvInit == Init => SyncInv
<1>. SUFFICES ASSUME Init PROVE SyncInv OBVIOUS
<1>. DEFINE n == Cardinality(Known)
<1>1. IsFiniteSet(Known) /\ n \in Nat /\ Known \subseteq Item
  BY SyncAssumption, FS_Subset, FS_CardinalityType
<1>2. PICK number \in [Known -> 1 .. n] :
        /\ \A i, j \in Known : number[i] = number[j] => i = j
        /\ server = [a \in Account |-> [i \in Item |->
               IF a = 0 /\ i \in Known
               THEN [rev |-> number[i], val |-> FirstValue, dev |-> Elsewhere]
               ELSE NoRow]]
        /\ local = [d \in Device |-> [i \in Item |->
               IF i \in Known THEN FirstValue ELSE Absent]]
        /\ state = [d \in Device |-> [i \in Item |->
               IF i \in Known THEN Agreed(number[i], FirstValue) ELSE None]]
        /\ base = local
        /\ cursor = [d \in Device |-> n]
        /\ conflict = [d \in Device |-> [i \in Item |-> None]]
        /\ on = [d \in Device |-> TRUE]
        /\ gen = [d \in Device |-> 0]
        /\ round = [d \in Device |-> Idle]
        /\ unheard = [d \in Device |-> {}]
        /\ passed = [d \in Device |-> {}]
        /\ spent = [edits |-> 0, troubles |-> 0]
  BY DEF Init
<1>3. \A i \in Known : number[i] \in Nat \ {0} BY <1>1, <1>2
<1>. DEFINE S == [i \in Item |->
               IF i \in Known
               THEN [rev |-> number[i], val |-> FirstValue, dev |-> Elsewhere]
               ELSE NoRow]
            st == [i \in Item |->
               IF i \in Known THEN Agreed(number[i], FirstValue) ELSE None]
            b == [i \in Item |-> IF i \in Known THEN FirstValue ELSE Absent]
            cf == [i \in Item |-> None]
<1>4. /\ NoRow \in Row /\ NoRow.rev = 0 /\ NoRow.dev = None
      /\ FirstValue \in Payload /\ Absent \in Payload
  BY SyncAssumption DEF NoRow, Row, Payload
<1>5. ASSUME NEW i \in Known
      PROVE  LET row == [rev |-> number[i], val |-> FirstValue, dev |-> Elsewhere]
                 s == Agreed(number[i], FirstValue)
             IN  /\ row \in Row /\ row.rev = number[i] /\ row.dev = Elsewhere
                 /\ s \in AgreedState /\ s # None /\ s.rev = number[i]
                 /\ s.hash = FirstValue /\ AgreedHash(s) = FirstValue
  <2>. DEFINE row == [rev |-> number[i], val |-> FirstValue, dev |-> Elsewhere]
              s == Agreed(number[i], FirstValue)
  <2>1. row \in Row /\ row.rev = number[i] /\ row.dev = Elsewhere
    BY <1>3, <1>4 DEF Row
  <2>2. s \in AgreedState BY <1>3, <1>4 DEF AgreedState, Agreed
  <2>3. s # None /\ s.rev = number[i] /\ s.hash = FirstValue
    BY <2>2, SyncAssumption DEF Agreed
  <2>. QED BY <2>1, <2>2, <2>3 DEF AgreedHash
<1>6. /\ S \in [Item -> Row] /\ st \in [Item -> AgreedState \cup {None}]
      /\ b \in [Item -> Payload] /\ cf \in [Item -> OpenConflict \cup {None}]
  BY <1>4, <1>5
<1>7. \A i \in Known : /\ S[i].rev = number[i] /\ S[i].dev = Elsewhere
                       /\ st[i] # None /\ st[i].rev = number[i]
                       /\ b[i] = AgreedHash(st[i])
  BY <1>1, <1>5
<1>8. \A i \in Item \ Known : /\ S[i].rev = 0 /\ S[i].dev = None
                              /\ st[i] = None /\ b[i] = Absent
  BY <1>4
<1>9. 0 \in Account /\ \A a \in Account : server[a] = IF a = 0 THEN S ELSE [i \in Item |-> NoRow]
  BY <1>2, SyncAssumption DEF Account
<1>10. Idle \in Rounds /\ Idle.stage = "idle" BY DEF Rounds, Idle
<1>11. Typed
  <2>1. server \in [Account -> [Item -> Row]]
    <3>1. server = [a \in Account |-> server[a]] BY <1>2
    <3>2. [i \in Item |-> NoRow] \in [Item -> Row] BY <1>4
    <3>. HIDE DEF S
    <3>. QED BY <1>6, <1>9, <3>1, <3>2
  <2>2. /\ local = [d \in Device |-> b] /\ base = [d \in Device |-> b]
        /\ state = [d \in Device |-> st] /\ conflict = [d \in Device |-> cf]
    BY <1>2
  <2>3. /\ local \in [Device -> [Item -> Payload]] /\ base \in [Device -> [Item -> Payload]]
        /\ state \in [Device -> [Item -> AgreedState \cup {None}]]
        /\ conflict \in [Device -> [Item -> OpenConflict \cup {None}]]
    <3>. HIDE DEF b, st, cf
    <3>. QED BY <1>6, <2>2
  <2>4. /\ cursor \in [Device -> Nat] /\ on \in [Device -> BOOLEAN]
        /\ gen \in [Device -> Account] /\ round \in [Device -> Rounds]
        /\ unheard \in [Device -> SUBSET Item] /\ passed \in [Device -> SUBSET Item]
    BY <1>1, <1>2, <1>9, <1>10
  <2>5. spent \in [edits : Nat, troubles : 0 .. MaxTroubles] /\ spent.troubles = 0
    BY <1>2, SyncAssumption
  <2>6. \A d \in Device : gen[d] = 0 /\ round[d].stage = "idle" BY <1>2, <1>10
  <2>. QED BY <2>1, <2>3, <2>4, <2>5, <2>6 DEF Typed
<1>. HIDE DEF S, st, b, cf
<1>12. NotYetThere
  <2>1. \A i \in Item, d \in Device : S[i].dev # d
    BY <1>7, <1>8, SyncAssumption
  <2>2. \A i \in Item, d \in Device : [j \in Item |-> NoRow][i].dev # d
    BY <1>4, SyncAssumption
  <2>. QED BY <1>9, <2>1, <2>2 DEF NotYetThere
<1>13. ASSUME NEW d \in Device PROVE DeviceInv(d)
  <2>1. /\ server[gen[d]] = S /\ state[d] = st /\ cursor[d] = n /\ conflict[d] = cf
        /\ base[d] = b /\ unheard[d] = {} /\ passed[d] = {} /\ round[d] = Idle
    BY <1>2, <1>9 DEF S, st, b, cf
  <2>2. IssuedOf(S, st, n, cf)
    <3>1. n <= TopOf(S)
      <4>1. TopOf(S) \in Nat /\ \A i \in Item : S[i].rev <= TopOf(S) BY <1>6, TopIs
      <4>2. CASE Known = {}
        <5>1. n = 0 BY <4>2, FS_EmptySet
        <5>. QED BY <4>1, <5>1
      <4>3. CASE Known # {}
        <5>1. \E i \in Known : number[i] = n BY <1>1, <1>2, <4>3, LastNumber
        <5>. QED BY <1>1, <1>7, <4>1, <5>1
      <4>. QED BY <4>2, <4>3
    <3>2. \A i \in Item : cf[i] = None BY DEF cf
    <3>3. \A i \in Item : st[i] # None => st[i].rev <= S[i].rev BY <1>3, <1>7, <1>8
    <3>. QED BY <3>1, <3>2, <3>3 DEF IssuedOf
  <2>3. BehindOf(d, S, st, n, cf, {})
    BY <1>3, <1>7, <1>8 DEF BehindOf, Covers
  <2>4. BaseOf(st, b, {}, Idle, FALSE)
    <3>1. \A i \in Item : b[i] = AgreedHash(st[i])
      BY <1>7, <1>8 DEF AgreedHash
    <3>. QED BY <3>1 DEF BaseOf
  <2>5. OwnOf(d, S, st, cf, b, {}, Idle, FALSE)
    <3>1. \A i \in Item : S[i].dev # d BY <1>7, <1>8, SyncAssumption
    <3>. QED BY <3>1 DEF OwnOf, OwnRowKnown
  <2>6. Current(d) = FALSE BY <1>10, <2>1 DEF Current
  <2>7. Keeps(d, S, st, n, cf, b, {}, {}, Idle, FALSE)
    BY <2>2, <2>3, <2>4, <2>5 DEF Keeps
  <2>. QED BY <2>1, <2>6, <2>7 DEF DeviceInv
<1>. QED BY <1>11, <1>12, <1>13 DEF SyncInv

LEMMA SyncInvNext == SyncInv /\ [Next]_vars => SyncInv'
<1>. SUFFICES ASSUME SyncInv, [Next]_vars PROVE SyncInv' OBVIOUS
<1>1. CASE UNCHANGED vars
  <2>1. /\ server' = server /\ local' = local /\ state' = state /\ cursor' = cursor
        /\ conflict' = conflict /\ on' = on /\ gen' = gen /\ round' = round
        /\ base' = base /\ unheard' = unheard /\ passed' = passed /\ spent' = spent
    BY <1>1 DEF vars
  <2>2. Typed' /\ NotYetThere' BY <2>1 DEF SyncInv, Typed, NotYetThere
  <2>3. \A d \in Device : DeviceInv(d)' BY <2>1, Unmoved DEF SyncInv
  <2>. QED BY <2>2, <2>3 DEF SyncInv
<1>2. ASSUME NEW d \in Device, ApplyRow(d) PROVE SyncInv'
  BY <1>2, SkipBlockedStep, OwnRowStep, HoldRowStep, ParkRowStep, TakeRowStep DEF ApplyRow
<1>3. CASE Next
  <2>1. PICK d \in Device :
          \/ \E i \in Item, v \in Payload : Edit(d, i, v)
          \/ \E i \in Item : KeepRemote(d, i) \/ KeepLocal(d, i)
          \/ TurnOn(d)
          \/ AccountChange(d)
          \/ StartRound(d)
          \/ AskPage(d)
          \/ TakePage(d)
          \/ round[d].stage = "apply" /\ ApplyRow(d)
          \/ EndPage(d)
          \/ NothingToPush(d)
          \/ Push(d)
          \/ RecordReply(d)
          \/ Retire(d)
          \/ Fail(d)
    BY <1>3 DEF Next
  <2>2. CASE \E i \in Item, v \in Payload : Edit(d, i, v) BY <2>2, EditStep
  <2>3. CASE \E i \in Item : KeepRemote(d, i) \/ KeepLocal(d, i) BY <2>3, ResolveStep
  <2>4. CASE TurnOn(d) BY <2>4, TurnOnStep
  <2>5. CASE AccountChange(d) BY <2>5, AccountChangeStep
  <2>6. CASE StartRound(d) BY <2>6, StartRoundStep
  <2>7. CASE AskPage(d) BY <2>7, AskPageStep
  <2>8. CASE TakePage(d) BY <2>8, TakePageStep
  <2>9. CASE ApplyRow(d) BY <1>2, <2>9
  <2>10. CASE EndPage(d) BY <2>10, EndPageStep
  <2>11. CASE NothingToPush(d) \/ Retire(d) BY <2>11, RetireStep
  <2>12. CASE Push(d) BY <2>12, PushStep
  <2>13. CASE RecordReply(d) BY <2>13, RecordReplyStep
  <2>14. CASE Fail(d) BY <2>14, FailStep
  <2>. QED BY <2>1, <2>2, <2>3, <2>4, <2>5, <2>6, <2>7, <2>8, <2>9, <2>10, <2>11,
              <2>12, <2>13, <2>14
<1>. QED BY <1>1, <1>3
-----------------------------------------------------------------------------
(* What it gives.                                                          *)

LEMMA InvTypeOK == SyncInv => TypeOK
<1>. SUFFICES ASSUME SyncInv PROVE TypeOK OBVIOUS
<1>1. ASSUME NEW d \in Device, round[d].stage \notin {"idle", "waiting"}
      PROVE  round[d].token \in 0 .. gen[d] /\ round[d].barrier \in Nat \cup {None}
  <2>1. round[d] \in Rounds /\ gen[d] \in Nat BY DeviceShape
  <2>2. round[d].token \in Nat /\ round[d].token <= gen[d] BY <1>1, DeviceShape
  <2>3. round[d].stage \in {"pull", "page", "apply", "push", "sent"}
    BY <1>1, <2>1, RoundShape
  <2>4. round[d].barrier \in Barrier BY <2>1, <2>3, RoundShape DEF Reading
  <2>. QED BY <2>1, <2>2, <2>4 DEF Barrier
<1>2. ASSUME NEW d \in Device PROVE round[d].stage \in
          {"idle", "waiting", "pull", "page", "apply", "push", "sent"}
  BY DeviceShape, RoundShape
<1>3. ASSUME NEW d \in Device, NEW i \in Item, state[d][i] # None, conflict[d][i] # None
      PROVE  state[d][i].rev <= conflict[d][i].rev
  <2>1. IssuedOf(server[gen[d]], state[d], cursor[d], conflict[d])
    BY DeviceShape DEF DeviceInv, Keeps
  <2>. QED BY <1>3, <2>1 DEF IssuedOf
<1>. QED BY <1>1, <1>2, <1>3 DEF SyncInv, Typed, TypeOK

LEMMA InvNothingSkipped == SyncInv => NothingSkipped
<1>. SUFFICES ASSUME SyncInv, NEW d \in Device, NEW i \in Item,
                     server[gen[d]][i].rev # 0, server[gen[d]][i].rev <= cursor[d],
                     server[gen[d]][i].dev # d
              PROVE  \/ state[d][i] # None /\ state[d][i].rev >= server[gen[d]][i].rev
                     \/ conflict[d][i] # None
                     \/ i \in passed[d]
  BY DEF NothingSkipped
<1>1. BehindOf(d, server[gen[d]], state[d], cursor[d], conflict[d], passed[d])
  BY DeviceShape DEF DeviceInv, Keeps
<1>. QED BY <1>1 DEF BehindOf, Covers

LEMMA InvRevsAreIssued == SyncInv => RevsAreIssued
<1>. SUFFICES ASSUME SyncInv, NEW d \in Device
              PROVE  /\ cursor[d] <= Top(gen[d])
                     /\ \A i \in Item : state[d][i] # None =>
                            state[d][i].rev <= server[gen[d]][i].rev
  BY DEF RevsAreIssued
<1>1. IssuedOf(server[gen[d]], state[d], cursor[d], conflict[d])
  BY DeviceShape DEF DeviceInv, Keeps
<1>. QED BY <1>1 DEF IssuedOf, Top, TopOf

\* Only a row taken in changes what a device holds and its round at once.
LEMMA OnlyTakeRowOverwrites ==
  ASSUME SyncInv, [Next]_vars, NEW d \in Device, NEW i \in Item, Overwrites(d, i)
  PROVE  \E e \in round[d].rows : TakeRow(d, e) /\ e.item = i
<1>1. ~UNCHANGED round /\ ~UNCHANGED local BY DEF Overwrites
<1>2. ASSUME NEW c \in Device, NEW e \in round[c].rows, TakeRow(c, e)
      PROVE  c = d /\ e.item = i
  <2>1. round \in [Device -> Rounds] /\ local \in [Device -> [Item -> Payload]]
    BY DEF SyncInv, Typed
  <2>2. c = d BY <1>2, <2>1 DEF TakeRow, Done, Overwrites
  <2>3. e.item = i BY <1>2, <2>1, <2>2 DEF TakeRow, Overwrites
  <2>. QED BY <2>2, <2>3
<1>3. ~UNCHANGED vars BY DEF vars, Overwrites
<1>4. PICK c \in Device :
        \/ \E k \in Item, v \in Payload : Edit(c, k, v)
        \/ \E k \in Item : KeepRemote(c, k) \/ KeepLocal(c, k)
        \/ TurnOn(c)
        \/ AccountChange(c)
        \/ StartRound(c)
        \/ AskPage(c)
        \/ TakePage(c)
        \/ round[c].stage = "apply" /\ ApplyRow(c)
        \/ EndPage(c)
        \/ NothingToPush(c)
        \/ Push(c)
        \/ RecordReply(c)
        \/ Retire(c)
        \/ Fail(c)
  BY <1>3 DEF Next
<1>5. ASSUME \E k \in Item, v \in Payload : Edit(c, k, v) PROVE FALSE
  BY <1>1, <1>5 DEF Edit
<1>6. ASSUME \E k \in Item : KeepRemote(c, k) \/ KeepLocal(c, k) PROVE FALSE
  BY <1>1, <1>6 DEF KeepRemote, KeepLocal, Resolved
<1>7. ASSUME TurnOn(c) \/ AccountChange(c) \/ StartRound(c) \/ AskPage(c) \/ TakePage(c)
             \/ EndPage(c) \/ NothingToPush(c) \/ Push(c) \/ RecordReply(c)
             \/ Retire(c) \/ Fail(c)
      PROVE  FALSE
  <2>1. CASE TurnOn(c) BY <1>1, <2>1 DEF TurnOn
  <2>2. CASE AccountChange(c) BY <1>1, <2>2 DEF AccountChange
  <2>3. CASE StartRound(c) BY <1>1, <2>3 DEF StartRound
  <2>4. CASE AskPage(c) BY <1>1, <2>4 DEF AskPage
  <2>5. CASE TakePage(c) BY <1>1, <2>5 DEF TakePage
  <2>6. CASE EndPage(c) BY <1>1, <2>6 DEF EndPage
  <2>7. CASE NothingToPush(c) BY <1>1, <2>7 DEF NothingToPush
  <2>8. CASE Push(c) BY <1>1, <2>8 DEF Push
  <2>9. CASE RecordReply(c) BY <1>1, <2>9 DEF RecordReply
  <2>10. CASE Retire(c) BY <1>1, <2>10 DEF Retire
  <2>11. CASE Fail(c) BY <1>1, <2>11 DEF Fail
  <2>. QED BY <1>7, <2>1, <2>2, <2>3, <2>4, <2>5, <2>6, <2>7, <2>8, <2>9, <2>10, <2>11
<1>8. ASSUME ApplyRow(c) PROVE \E e \in round[c].rows : TakeRow(c, e)
  <2>1. PICK e \in round[c].rows :
          \/ SkipBlocked(c, e) \/ OwnRow(c, e) \/ HoldRow(c, e)
          \/ ParkRow(c, e) \/ TakeRow(c, e)
    BY <1>8 DEF ApplyRow
  <2>2. ASSUME SkipBlocked(c, e) \/ OwnRow(c, e) \/ HoldRow(c, e) \/ ParkRow(c, e)
        PROVE  FALSE
    <3>1. UNCHANGED local BY <2>2 DEF SkipBlocked, OwnRow, HoldRow, ParkRow
    <3>. QED BY <1>1, <3>1
  <2>. QED BY <2>1, <2>2
<1>. QED BY <1>2, <1>4, <1>5, <1>6, <1>7, <1>8

LEMMA EditsKept ==
  ASSUME SyncInv, [Next]_vars, NEW d \in Device, NEW i \in Item, Overwrites(d, i)
  PROVE  \/ local[d][i] = base[d][i]
         \/ EditedSinceSnapshot(d, i)
         \/ i \in unheard[d]
         \/ DeleteKept(d, i)
<1>1. PICK e \in round[d].rows : TakeRow(d, e) /\ e.item = i
  BY OnlyTakeRowOverwrites
<1>2. NextRow(d, e) /\ ~Clashes(d, e) BY <1>1 DEF TakeRow, Foreign
<1>3. round[d].snap[i] # e.row.val BY <1>1 DEF TakeRow, Overwrites
<1>4. round[d].snap[i] = AgreedHash(state[d][i]) BY <1>1, <1>2, <1>3 DEF Clashes
<1>5. \/ base[d][i] = AgreedHash(state[d][i])
      \/ i \in unheard[d]
      \/ state[d][i] # None /\ ~state[d][i].deleted /\ state[d][i].hash = Absent
  BY <1>2, RowFacts DEF SyncInv
<1>6. CASE state[d][i] # None /\ ~state[d][i].deleted /\ state[d][i].hash = Absent
  <2>1. AgreedHash(state[d][i]) = Absent BY <1>6 DEF AgreedHash
  <2>. QED BY <1>4, <1>6, <2>1 DEF EditedSinceSnapshot, DeleteKept
<1>. QED BY <1>4, <1>5, <1>6 DEF EditedSinceSnapshot

\* The tables of the engine and its running rounds keep their shape, a round is
\* never ahead of the generation it was started under, and an open conflict is
\* never about an older row than the one agreed on, through every edit, lost
\* round and change of account.
THEOREM TypeCorrect == Spec => []TypeOK
<1>. QED BY SyncInvInit, SyncInvNext, InvTypeOK, PTL DEF Spec

\* No row of another device is left behind the read cursor untaken: neither by
\* the barrier of a held row, nor by the cursor of the reply's last page, nor by
\* _contiguous_cursor over this device's own revs.
THEOREM RowsAreNotSkipped == Spec => []NothingSkipped
<1>. QED BY SyncInvInit, SyncInvNext, InvNothingSkipped, PTL DEF Spec

\* A round of the account before writes nothing into the tables of the account
\* signed in to now: its cursor and its revs are ones that account's server gave.
THEOREM RecordsAreIssued == Spec => []RevsAreIssued
<1>. QED BY SyncInvInit, SyncInvNext, InvRevsAreIssued, PTL DEF Spec

\* _apply_one never writes over an edit that was not pushed yet, but for the
\* three cases KeepsEdits names.
THEOREM EditsAreKept == Spec => KeepsEdits
<1>. DEFINE Kept == \A d \in Device, i \in Item :
               Overwrites(d, i) =>
                   \/ local[d][i] = base[d][i]
                   \/ EditedSinceSnapshot(d, i)
                   \/ i \in unheard[d]
                   \/ DeleteKept(d, i)
<1>1. SyncInv /\ [Next]_vars => [Kept]_vars BY EditsKept
<1>. QED BY <1>1, SyncInvInit, SyncInvNext, PTL DEF Spec, KeepsEdits
=============================================================================
