------------------------- MODULE MessageQueueProofs -------------------------
(***************************************************************************)
(* Theorems about the delivery queue of a window, for all panes, handles,  *)
(* messages and limits, and whatever is closed, rebuilt, renamed, lost,    *)
(* paused or evicted from the log.                                         *)
(***************************************************************************)
EXTENDS MessageQueue, FiniteSetTheorems, SequenceTheorems, WellFoundedInduction, TLAPS

\* What the row of a message that waits says, and of one somebody has in hand.
Waits == {"queued", "delivering", "evicted"}
InHand == {"delivering", "evicted"}

Distinct(q) == \A i, j \in 1..Len(q) : q[i] = q[j] => i = j

\* An open pane is one that was registered; only open panes have queues, and the
\* guard of an open pane is held exactly as long as a hand-over runs.
PaneInv ==
    \A p \in Pane :
        /\ p \in Open => p \in seen
        /\ p \notin Open => queue[p] = << >> /\ p \notin delivering
        /\ p \notin seen => stage[p] = "none"
        /\ p \in Open => (stage[p] # "none" <=> p \in delivering)
        /\ stage[p] = "none" => flight[p] = None

\* What a hand-over carries is at the head of its queue, or, where its pane was
\* closed under it, in no queue any more; nobody else carries or reads it.
FlightOf(p) ==
    /\ flight[p] \in Msg /\ status[flight[p]] # "none" /\ readReserved[flight[p]] = None
    /\ p \in Open => AtHead(p, flight[p]) /\ status[flight[p]] \in InHand
    /\ p \notin Open => ~Queued(flight[p])
    /\ \A r \in Pane : stage[r] # "none" /\ flight[r] = flight[p] => r = p
FlightInv == \A p \in Pane : stage[p] # "none" => FlightOf(p)

\* What waits in a queue has a row that says so, and what is reserved waits.
WaitInv ==
    \A m \in Msg :
        /\ Queued(m) => status[m] \in Waits
        /\ readReserved[m] # None => Queued(m) /\ status[m] \in InHand

QInv == PaneInv /\ FlightInv /\ WaitInv /\ QueuedOnce /\ InboundReported
-----------------------------------------------------------------------------
(* Sequences without repetition.                                           *)

Below == {ss \in Nat \X Nat : ss[1] < ss[2]}

LEMMA LeastNat ==
  ASSUME NEW S \in SUBSET Nat, S # {}
  PROVE  \E n \in S : \A m \in S : n <= m
<1>1. IsWellFoundedOn(Below, Nat) BY NatLessThanWellFounded DEF OpToRel, Below
<1>2. PICK x \in S : \A y \in S : ~ (<<y, x>> \in Below) BY <1>1, WFMin
<1>3. \A y, z \in Nat : y < z => <<y, z>> \in Below BY DEF Below
<1>4. x \in Nat OBVIOUS
<1>5. ASSUME NEW m \in S PROVE x <= m
  <2>1. m \in Nat OBVIOUS
  <2>2. ~(<<m, x>> \in Below) BY <1>2, Zenon
  <2>3. ~(m < x) BY <1>3, <1>4, <2>1, <2>2, Zenon
  <2>. QED BY <1>4, <2>1, <2>3
<1>. QED BY <1>5

Rising(f, S) ==
    /\ f \in [1..Cardinality(S) -> S]
    /\ \A i, j \in 1..Cardinality(S) : i < j => f[i] < f[j]

\* A finite set of numbers can be listed in order: a smallest one that cannot,
\* without its least member, could, and that member goes in front.
LEMMA AscendingIs ==
  ASSUME NEW S \in SUBSET Nat, IsFiniteSet(S)
  PROVE  Rising(Ascending(S), S)
<1>. DEFINE Bad == {n \in Nat : \E T \in SUBSET Nat :
                       IsFiniteSet(T) /\ Cardinality(T) = n /\ ~\E f : Rising(f, T)}
<1>1. SUFFICES ASSUME ~\E f : Rising(f, S) PROVE FALSE BY DEF Ascending, Rising
<1>2. Cardinality(S) \in Bad BY <1>1, FS_CardinalityType
<1>3. PICK n \in Bad : \A m \in Bad : n <= m
   <2>1. Bad \subseteq Nat OBVIOUS
   <2>. HIDE DEF Bad
   <2>. QED BY <2>1, <1>2, LeastNat
<1>4. PICK T \in SUBSET Nat : IsFiniteSet(T) /\ Cardinality(T) = n /\ ~\E f : Rising(f, T) BY <1>3
<1>5. T # {}
  <2>1. SUFFICES ASSUME T = {} PROVE FALSE OBVIOUS
  <2>2. Cardinality(T) = 0 BY <2>1, FS_EmptySet
  <2>3. Rising([i \in 1..0 |-> i], T) BY <2>1, <2>2 DEF Rising
  <2>. QED BY <1>4, <2>3
<1>6. PICK x \in T : \A y \in T : x <= y BY <1>5, LeastNat
<1>7. IsFiniteSet(T \ {x}) /\ Cardinality(T \ {x}) = n - 1 BY <1>4, <1>6, FS_RemoveElement
<1>8. n - 1 \in Nat BY <1>7, FS_CardinalityType
<1>9. n \in Nat BY <1>3
<1>10. n - 1 \notin Bad BY <1>3, <1>8, <1>9
<1>11. PICK f : Rising(f, T \ {x})
  <2>1. T \ {x} \in SUBSET Nat OBVIOUS
  <2>. QED BY <1>7, <1>8, <1>10, <2>1
<1>12. /\ f \in [1..(n - 1) -> T \ {x}]
       /\ \A i, j \in 1..(n - 1) : i < j => f[i] < f[j]
  BY <1>7, <1>11 DEF Rising
<1>. DEFINE g == [i \in 1..n |-> IF i = 1 THEN x ELSE f[i - 1]]
<1>13. g \in [1..n -> T] BY <1>6, <1>9, <1>12
<1>14. ASSUME NEW i \in 1..n, NEW j \in 1..n, i < j PROVE g[i] < g[j]
  <2>1. j - 1 \in 1..(n - 1) /\ g[j] = f[j - 1] BY <1>9, <1>14
  <2>2. CASE i = 1
    <3>1. f[j - 1] \in T \ {x} BY <1>12, <2>1
    <3>2. x <= f[j - 1] /\ x # f[j - 1] /\ x \in Nat /\ f[j - 1] \in Nat BY <1>6, <3>1
    <3>. QED BY <2>1, <2>2, <3>2
  <2>3. CASE i # 1
    <3>1. i - 1 \in 1..(n - 1) /\ g[i] = f[i - 1] /\ i - 1 < j - 1 BY <1>9, <1>14, <2>3
    <3>. QED BY <1>12, <2>1, <3>1
  <2>. QED BY <2>2, <2>3
<1>15. Rising(g, T)
  <2>. HIDE DEF g
  <2>. QED BY <1>4, <1>13, <1>14 DEF Rising
<1>. QED BY <1>4, <1>15

LEMMA TailIs ==
  ASSUME NEW D, NEW q \in Seq(D), q # << >>
  PROVE  /\ Tail(q) \in Seq(D) /\ Len(Tail(q)) = Len(q) - 1
         /\ \A i \in 1..(Len(q) - 1) : Tail(q)[i] = q[i + 1]
         /\ Distinct(q) => Distinct(Tail(q)) /\ Range(Tail(q)) = Range(q) \ {q[1]}
<1>1. /\ Tail(q) \in Seq(D) /\ Len(Tail(q)) = Len(q) - 1
      /\ \A i \in 1..(Len(q) - 1) : Tail(q)[i] = q[i + 1]
      /\ Len(q) \in Nat \ {0}
  OBVIOUS
<1>2. ASSUME Distinct(q) PROVE Distinct(Tail(q)) BY <1>1, <1>2 DEF Distinct
<1>3. Range(q) = {q[i] : i \in 1..Len(q)} BY DEF Range
<1>4. Range(Tail(q)) = {q[i + 1] : i \in 1..(Len(q) - 1)}
  <2>1. DOMAIN Tail(q) = 1..(Len(q) - 1) BY <1>1
  <2>. QED BY <1>1, <2>1 DEF Range
<1>5. ASSUME Distinct(q) PROVE Range(Tail(q)) = Range(q) \ {q[1]}
  <2>1. \A i \in 1..(Len(q) - 1) : i + 1 \in 1..Len(q) /\ q[i + 1] # q[1]
    BY <1>1, <1>5 DEF Distinct
  <2>2. \A i \in 1..Len(q) : i # 1 => i - 1 \in 1..(Len(q) - 1) /\ q[(i - 1) + 1] = q[i]
    BY <1>1
  <2>3. Range(Tail(q)) \subseteq Range(q) \ {q[1]} BY <1>3, <1>4, <2>1
  <2>4. Range(q) \ {q[1]} \subseteq Range(Tail(q)) BY <1>3, <1>4, <2>2
  <2>. QED BY <2>3, <2>4
<1>. QED BY <1>1, <1>2, <1>5

LEMMA JoinIs ==
  ASSUME NEW D, NEW q \in Seq(D), NEW r \in Seq(D)
  PROVE  /\ q \o r \in Seq(D) /\ Len(q \o r) = Len(q) + Len(r)
         /\ Range(q \o r) = Range(q) \cup Range(r)
         /\ Distinct(q) /\ Distinct(r) /\ Range(q) \cap Range(r) = {} => Distinct(q \o r)
         /\ q # << >> => q \o r # << >> /\ (q \o r)[1] = q[1]
<1>1. /\ q \o r \in Seq(D) /\ Len(q \o r) = Len(q) + Len(r) /\ Len(q) \in Nat /\ Len(r) \in Nat
      /\ \A i \in 1..(Len(q) + Len(r)) :
            (q \o r)[i] = IF i <= Len(q) THEN q[i] ELSE r[i - Len(q)]
  OBVIOUS
<1>2. /\ Range(q) = {q[i] : i \in 1..Len(q)} /\ Range(r) = {r[i] : i \in 1..Len(r)}
      /\ Range(q \o r) = {(q \o r)[i] : i \in 1..(Len(q) + Len(r))}
  BY <1>1 DEF Range
<1>3. \A i \in 1..(Len(q) + Len(r)) : IF i <= Len(q) THEN i \in 1..Len(q) ELSE i - Len(q) \in 1..Len(r)
  BY <1>1
<1>4. Range(q \o r) \subseteq Range(q) \cup Range(r) BY <1>1, <1>2, <1>3
<1>5. Range(q) \subseteq Range(q \o r) BY <1>1, <1>2
<1>6. Range(r) \subseteq Range(q \o r)
  <2>1. \A i \in 1..Len(r) : i + Len(q) \in 1..(Len(q) + Len(r)) /\ (q \o r)[i + Len(q)] = r[i]
    BY <1>1
  <2>. QED BY <1>2, <2>1
<1>7. ASSUME Distinct(q), Distinct(r), Range(q) \cap Range(r) = {} PROVE Distinct(q \o r)
  <2>1. ASSUME NEW i \in 1..(Len(q) + Len(r)), NEW j \in 1..(Len(q) + Len(r)),
               (q \o r)[i] = (q \o r)[j]
        PROVE  i = j
    <3>1. CASE i <= Len(q) /\ j <= Len(q)
      BY <1>1, <1>3, <1>7, <2>1, <3>1 DEF Distinct
    <3>2. CASE ~(i <= Len(q)) /\ ~(j <= Len(q))
      <4>1. r[i - Len(q)] = r[j - Len(q)] BY <1>1, <2>1, <3>2
      <4>2. i - Len(q) \in 1..Len(r) /\ j - Len(q) \in 1..Len(r) BY <1>3, <3>2
      <4>3. i - Len(q) = j - Len(q) BY <1>7, <4>1, <4>2 DEF Distinct
      <4>. QED BY <1>1, <4>3
    <3>3. CASE (i <= Len(q)) # (j <= Len(q))
      <4>1. \A a \in 1..Len(q), b \in 1..Len(r) : q[a] # r[b] BY <1>2, <1>7
      <4>. QED BY <1>1, <1>3, <2>1, <3>3, <4>1
    <3>. QED BY <3>1, <3>2, <3>3
  <2>. QED BY <1>1, <2>1 DEF Distinct
<1>8. q # << >> => q \o r # << >> /\ (q \o r)[1] = q[1] BY <1>1
<1>. QED BY <1>1, <1>4, <1>5, <1>6, <1>7, <1>8
LEMMA RemovedAt ==
  ASSUME NEW D, NEW q \in Seq(D), NEW k \in 1..Len(q)
  PROVE  /\ RemoveAt(q, k) \in Seq(D) /\ Len(RemoveAt(q, k)) = Len(q) - 1
         /\ \A i \in 1..(Len(q) - 1) : RemoveAt(q, k)[i] = IF i < k THEN q[i] ELSE q[i + 1]
<1>. DEFINE a == SubSeq(q, 1, k - 1)
            b == SubSeq(q, k + 1, Len(q))
<1>1. Len(q) \in Nat /\ k \in Nat /\ 1 <= k /\ k <= Len(q) OBVIOUS
<1>2. /\ a \in Seq(D) /\ Len(a) = k - 1
      /\ \A i \in 1..(k - 1) : a[i] = q[i]
  BY <1>1
<1>3. /\ b \in Seq(D) /\ Len(b) = Len(q) - k
      /\ \A i \in 1..(Len(q) - k) : b[i] = q[k + i]
  BY <1>1
<1>4. RemoveAt(q, k) = a \o b BY DEF RemoveAt
<1>. HIDE DEF a, b
<1>5. a \o b \in Seq(D) /\ Len(a \o b) = Len(q) - 1
  <2>1. a \in Seq(D) /\ b \in Seq(D) BY <1>2, <1>3
  <2>2. a \o b \in Seq(D) /\ Len(a \o b) = Len(a) + Len(b) BY <2>1, ConcatProperties
  <2>. QED BY <1>1, <1>2, <1>3, <2>2
<1>6. ASSUME NEW i \in 1..(Len(q) - 1) PROVE (a \o b)[i] = IF i < k THEN q[i] ELSE q[i + 1]
  <2>1. CASE i < k BY <1>1, <1>2, <1>3, <2>1
  <2>2. CASE ~(i < k)
    <3>1. (a \o b)[i] = b[i - (k - 1)] BY <1>1, <1>2, <1>3, <2>2
    <3>2. i - (k - 1) \in 1..(Len(q) - k) /\ k + (i - (k - 1)) = i + 1 BY <1>1, <2>2
    <3>. QED BY <1>3, <2>2, <3>1, <3>2
  <2>. QED BY <2>1, <2>2
<1>. QED BY <1>4, <1>5, <1>6

LEMMA WithoutIs ==
  ASSUME NEW D, NEW q \in Seq(D), Distinct(q), NEW m
  PROVE  /\ Without(q, m) \in Seq(D) /\ Len(Without(q, m)) <= Len(q)
         /\ m \in Range(q) => Len(Without(q, m)) < Len(q)
         /\ Distinct(Without(q, m)) /\ Range(Without(q, m)) = Range(q) \ {m}
         /\ q # << >> /\ q[1] # m => Without(q, m) # << >> /\ Without(q, m)[1] = q[1]
<1>0. Range(q) = {q[i] : i \in 1..Len(q)} /\ Len(q) \in Nat BY DEF Range
<1>1. CASE m \notin Range(q)
  <2>1. Without(q, m) = q BY <1>0, <1>1 DEF Without, RemoveFirst
  <2>. QED BY <1>0, <1>1, <2>1
<1>2. CASE m \in Range(q)
  <2>. DEFINE I == {i \in 1..Len(q) : q[i] = m}
  <2>1. PICK k \in 1..Len(q) : q[k] = m BY <1>0, <1>2
  <2>2. I = {k} BY <2>1 DEF Distinct
  <2>3. Min(I) = k BY <2>2 DEF Min
  <2>4. SelectInSeq(q, LAMBDA v : v = m) = k BY <2>2, <2>3 DEF SelectInSeq
  <2>5. Without(q, m) = RemoveAt(q, k) BY <2>1, <2>4 DEF Without, RemoveFirst
  <2>. HIDE DEF I
  <2>. DEFINE r == RemoveAt(q, k)
  <2>6. /\ r \in Seq(D) /\ Len(r) = Len(q) - 1
        /\ \A i \in 1..(Len(q) - 1) : r[i] = IF i < k THEN q[i] ELSE q[i + 1]
    BY RemovedAt
  <2>. HIDE DEF r
  <2>7. Range(r) = {r[i] : i \in 1..(Len(q) - 1)} BY <2>6, <1>0 DEF Range
  <2>8. \A i \in 1..(Len(q) - 1) : r[i] \in Range(q) \ {m}
    <3>1. SUFFICES ASSUME NEW i \in 1..(Len(q) - 1) PROVE r[i] \in Range(q) \ {m} OBVIOUS
    <3>2. CASE i < k
      <4>1. i \in 1..Len(q) /\ i # k /\ r[i] = q[i] BY <1>0, <2>6, <3>2
      <4>. QED BY <1>0, <2>1, <4>1 DEF Distinct
    <3>3. CASE ~(i < k)
      <4>1. i + 1 \in 1..Len(q) /\ i + 1 # k /\ r[i] = q[i + 1] BY <1>0, <2>6, <3>3
      <4>. QED BY <1>0, <2>1, <4>1 DEF Distinct
    <3>. QED BY <3>2, <3>3
  <2>9. \A i \in 1..Len(q) : q[i] # m => q[i] \in Range(r)
    <3>1. SUFFICES ASSUME NEW i \in 1..Len(q), q[i] # m PROVE q[i] \in Range(r) OBVIOUS
    <3>2. CASE i < k
      <4>1. i \in 1..(Len(q) - 1) /\ r[i] = q[i] BY <1>0, <2>1, <2>6, <3>2
      <4>. QED BY <2>7, <4>1
    <3>3. CASE ~(i < k)
      <4>1. i # k BY <2>1, <3>1
      <4>2. i - 1 \in 1..(Len(q) - 1) /\ r[i - 1] = q[i] BY <1>0, <2>1, <2>6, <3>3, <4>1
      <4>. QED BY <2>7, <4>2
    <3>. QED BY <3>2, <3>3
  <2>10. Range(r) = Range(q) \ {m} BY <1>0, <2>7, <2>8, <2>9
  <2>11. Distinct(r)
    <3>1. ASSUME NEW i \in 1..(Len(q) - 1), NEW j \in 1..(Len(q) - 1), r[i] = r[j] PROVE i = j
      <4>1. \A x \in 1..Len(q), y \in 1..Len(q) : q[x] = q[y] => x = y BY DEF Distinct
      <4>. DEFINE at(x) == IF x < k THEN x ELSE x + 1
      <4>2. /\ at(i) \in 1..Len(q) /\ at(j) \in 1..Len(q)
            /\ q[at(i)] = r[i] /\ q[at(j)] = r[j]
        BY <1>0, <2>6
      <4>3. at(i) = at(j) BY <3>1, <4>1, <4>2
      <4>. QED BY <4>3
    <3>. QED BY <1>0, <2>6, <3>1 DEF Distinct
  <2>12. ASSUME q[1] # m PROVE r # << >> /\ r[1] = q[1]
    <3>1. k # 1 /\ k \in 1..Len(q) BY <2>1, <2>12
    <3>2. 1 < k /\ 1 \in 1..(Len(q) - 1) BY <1>0, <3>1
    <3>. QED BY <1>0, <2>6, <3>2
  <2>. QED BY <1>0, <2>5, <2>6, <2>10, <2>11, <2>12 DEF r
<1>. QED BY <1>1, <1>2
LEMMA OneIs ==
  ASSUME NEW D, NEW m \in D
  PROVE  /\ <<m>> \in Seq(D) /\ Len(<<m>>) = 1 /\ <<m>>[1] = m
         /\ Distinct(<<m>>) /\ Range(<<m>>) = {m}
BY DEF Distinct, Range

-----------------------------------------------------------------------------
(* How queues change: the messages D leave, the messages New[s] join at the *)
(* end of the queue of pane s.                                             *)

Orderly(Q) ==
    /\ Q \in [Pane -> Seq(Msg)]
    /\ \A s \in Pane : Len(Q[s]) <= QueueCap /\ Distinct(Q[s])
Apart(Q) == \A s, r \in Pane : s # r => Range(Q[s]) \cap Range(Q[r]) = {}
Nobody == [s \in Pane |-> {}]

Flow(Q, R, D, New) ==
    /\ Orderly(R)
    /\ \A s \in Pane :
          /\ Range(R[s]) = (Range(Q[s]) \ D) \cup New[s]
          /\ Q[s] # << >> /\ Q[s][1] \notin D => R[s] # << >> /\ R[s][1] = Q[s][1]

LEMMA OnceIs ==
  ASSUME queue \in [Pane -> Seq(Msg)]
  PROVE  QueuedOnce <=> Apart(queue) /\ \A s \in Pane : Distinct(queue[s])
<1>1. \A s \in Pane : Range(queue[s]) = {queue[s][i] : i \in 1..Len(queue[s])} BY DEF Range
<1>2. ASSUME QueuedOnce PROVE Apart(queue) /\ \A s \in Pane : Distinct(queue[s])
  BY <1>1, <1>2 DEF QueuedOnce, Apart, Distinct
<1>3. ASSUME Apart(queue), \A s \in Pane : Distinct(queue[s]) PROVE QueuedOnce
  <2>1. SUFFICES ASSUME NEW p \in Pane, NEW r \in Pane, NEW i \in 1..Len(queue[p]),
                        NEW j \in 1..Len(queue[r]), queue[p][i] = queue[r][j]
                 PROVE  p = r /\ i = j
    BY DEF QueuedOnce
  <2>2. queue[p][i] \in Range(queue[p]) /\ queue[r][j] \in Range(queue[r]) BY <1>1
  <2>3. p = r BY <1>3, <2>1, <2>2 DEF Apart
  <2>. QED BY <1>3, <2>1, <2>3 DEF Distinct
<1>. QED BY <1>2, <1>3

LEMMA FlowNone == ASSUME NEW Q, Orderly(Q) PROVE Flow(Q, Q, {}, Nobody)
BY DEF Flow, Nobody

LEMMA FlowTail ==
  ASSUME NEW Q, Orderly(Q), Apart(Q), NEW p \in Pane, Q[p] # << >>
  PROVE  Flow(Q, [Q EXCEPT ![p] = Tail(@)], {Q[p][1]}, Nobody)
<1>. DEFINE R == [Q EXCEPT ![p] = Tail(@)]
            D == {Q[p][1]}
<1>0. Q \in [Pane -> Seq(Msg)] BY DEF Orderly
<1>1. /\ Tail(Q[p]) \in Seq(Msg) /\ Len(Tail(Q[p])) = Len(Q[p]) - 1
      /\ Distinct(Tail(Q[p])) /\ Range(Tail(Q[p])) = Range(Q[p]) \ D
  <2>1. Q[p] \in Seq(Msg) /\ Distinct(Q[p]) BY <1>0 DEF Orderly
  <2>. QED BY <2>1, TailIs
<1>2. R \in [Pane -> Seq(Msg)] /\ R[p] = Tail(Q[p]) /\ \A s \in Pane \ {p} : R[s] = Q[s] BY <1>0, <1>1
<1>3. \A s \in Pane \ {p} : Range(Q[s]) = Range(Q[s]) \ D
  <2>1. Q[p][1] \in Range(Q[p])
    <3>1. Q[p] \in Seq(Msg) BY <1>0
    <3>2. 1 \in DOMAIN Q[p] BY <3>1
    <3>. QED BY <3>2 DEF Range
  <2>. QED BY <2>1 DEF Apart
<1>. HIDE DEF R
<1>4. Orderly(R)
  <2>1. Len(Q[p]) \in Nat /\ QueueCap \in Nat BY <1>0, QueueConstants
  <2>2. Len(R[p]) <= QueueCap BY <2>1, <1>1, <1>2 DEF Orderly
  <2>. QED BY <1>1, <1>2, <2>2 DEF Orderly
<1>. QED BY <1>1, <1>2, <1>3, <1>4 DEF Flow, Nobody, R

LEMMA FlowWithout ==
  ASSUME NEW Q, Orderly(Q), NEW m
  PROVE  Flow(Q, [s \in Pane |-> Without(Q[s], m)], {m}, Nobody)
<1>. DEFINE R == [s \in Pane |-> Without(Q[s], m)]
<1>1. ASSUME NEW s \in Pane
      PROVE  /\ R[s] \in Seq(Msg) /\ Len(R[s]) <= Len(Q[s])
             /\ Distinct(R[s]) /\ Range(R[s]) = Range(Q[s]) \ {m}
             /\ Q[s] # << >> /\ Q[s][1] # m => R[s] # << >> /\ R[s][1] = Q[s][1]
  BY WithoutIs DEF Orderly
<1>2. R = [s \in Pane |-> R[s]] OBVIOUS
<1>3. \A s \in Pane : Len(Q[s]) <= QueueCap /\ Len(Q[s]) \in Nat /\ QueueCap \in Nat
  BY QueueConstants DEF Orderly
<1>. HIDE DEF R
<1>4. Orderly(R)
  <2>1. \A s \in Pane : Len(R[s]) <= QueueCap BY <1>1, <1>3
  <2>. QED BY <1>1, <1>2, <2>1 DEF Orderly
<1>. QED BY <1>1, <1>4 DEF Flow, Nobody, R

LEMMA FlowWithoutHere ==
  ASSUME NEW Q, Orderly(Q), Apart(Q), NEW p \in Pane, NEW m \in Range(Q[p])
  PROVE  Flow(Q, [Q EXCEPT ![p] = Without(@, m)], {m}, Nobody)
<1>. DEFINE R == [s \in Pane |-> Without(Q[s], m)]
<1>1. ASSUME NEW s \in Pane, s # p PROVE Without(Q[s], m) = Q[s]
  <2>1. m \notin Range(Q[s]) BY <1>1 DEF Apart
  <2>2. ~\E i \in 1..Len(Q[s]) : Q[s][i] = m
    <3>1. Q[s] \in Seq(Msg) BY DEF Orderly
    <3>. QED BY <2>1, <3>1 DEF Range
  <2>. QED BY <2>2 DEF Without, RemoveFirst
<1>2. [Q EXCEPT ![p] = Without(@, m)] = R BY <1>1 DEF Orderly
<1>. QED BY <1>2, FlowWithout

LEMMA FlowJoin ==
  ASSUME NEW Q, Orderly(Q), NEW A,
         \A s \in Pane : /\ A[s] \in Seq(Msg) /\ Distinct(A[s]) /\ Range(A[s]) \cap Range(Q[s]) = {}
                         /\ Len(Q[s]) + Len(A[s]) <= QueueCap
  PROVE  Flow(Q, [s \in Pane |-> Q[s] \o A[s]], {}, [s \in Pane |-> Range(A[s])])
<1>. DEFINE R == [s \in Pane |-> Q[s] \o A[s]]
<1>1. ASSUME NEW s \in Pane
      PROVE  /\ R[s] \in Seq(Msg) /\ Len(R[s]) = Len(Q[s]) + Len(A[s])
             /\ Distinct(R[s]) /\ Range(R[s]) = Range(Q[s]) \cup Range(A[s])
             /\ Q[s] # << >> => R[s] # << >> /\ R[s][1] = Q[s][1]
  <2>1. Q[s] \in Seq(Msg) /\ Distinct(Q[s]) BY DEF Orderly
  <2>2. A[s] \in Seq(Msg) /\ Distinct(A[s]) /\ Range(Q[s]) \cap Range(A[s]) = {} OBVIOUS
  <2>3. R[s] = Q[s] \o A[s] OBVIOUS
  <2>4. Q[s] \o A[s] \in Seq(Msg) /\ Len(Q[s] \o A[s]) = Len(Q[s]) + Len(A[s])
    BY <2>1, <2>2, JoinIs
  <2>5. Range(Q[s] \o A[s]) = Range(Q[s]) \cup Range(A[s]) BY <2>1, <2>2, JoinIs
  <2>6. Distinct(Q[s] \o A[s]) BY <2>1, <2>2, JoinIs
  <2>7. Q[s] # << >> => Q[s] \o A[s] # << >> /\ (Q[s] \o A[s])[1] = Q[s][1]
    BY <2>1, <2>2, JoinIs
  <2>. HIDE DEF R
  <2>. QED BY <2>3, <2>4, <2>5, <2>6, <2>7, Zenon
<1>2. R = [s \in Pane |-> R[s]] OBVIOUS
<1>. HIDE DEF R
<1>4. Orderly(R) BY <1>1, <1>2 DEF Orderly
<1>. QED BY <1>1, <1>4 DEF Flow, R

LEMMA FlowThen ==
  ASSUME NEW Q, NEW R, NEW S, NEW D, NEW E, NEW M, NEW N,
         Flow(Q, R, D, M), Flow(R, S, E, N),
         \A s \in Pane : M[s] \cap E = {}
  PROVE  Flow(Q, S, D \cup E, [s \in Pane |-> M[s] \cup N[s]])
BY DEF Flow
-----------------------------------------------------------------------------
(* The notices of a failure.                                               *)

Typed == status \in [Msg -> Status] /\ holder \in [Name -> Pane \cup {None}]

\* n is the notice pane s gets of the failure of a message of F.
IsBounce(n, F, s) ==
    \E m \in Range(F) :
        /\ m \in Post \ Inbound /\ Sender[m] # None /\ holder[Sender[m]] = s
        /\ n = NoticeOf[m] /\ status[n] = "none"

LEMMA BouncedIs ==
  ASSUME NEW F \in Seq(Msg), Distinct(F), NEW s \in Pane
  PROVE  /\ Bounced(F, s) \in Seq(Notice) /\ Distinct(Bounced(F, s))
         /\ \A n \in Range(Bounced(F, s)) : IsBounce(n, F, s)
<1>. DEFINE at == {i \in 1..Len(F) : /\ Tells(F[i])
                                     /\ holder[Sender[F[i]]] = s
                                     /\ status[NoticeOf[F[i]]] = "none"}
            f == Ascending(at)
            k == Cardinality(at)
            B == [i \in 1..k |-> NoticeOf[F[f[i]]]]
<1>1. Len(F) \in Nat OBVIOUS
<1>2. IsFiniteSet(at) /\ at \in SUBSET Nat
  <2>1. IsFiniteSet(1..Len(F)) BY <1>1, FS_Interval
  <2>2. at \subseteq 1..Len(F) OBVIOUS
  <2>. QED BY <1>1, <2>1, <2>2, FS_Subset
<1>3. Rising(f, at)
  <2>. HIDE DEF at
  <2>. QED BY <1>2, AscendingIs
<1>4. k \in Nat BY <1>2, FS_CardinalityType
<1>5. B = Bounced(F, s) BY DEF Bounced
<1>6. ASSUME NEW i \in at
      PROVE  /\ F[i] \in Range(F) /\ F[i] \in Post \ Inbound /\ Sender[F[i]] # None
             /\ holder[Sender[F[i]]] = s /\ status[NoticeOf[F[i]]] = "none"
             /\ i \in 1..Len(F) /\ NoticeOf[F[i]] \in Notice
  <2>1. F[i] \in Range(F) BY <1>1 DEF Range
  <2>2. F[i] \in Post \ Inbound BY DEF Tells
  <2>3. NoticeOf[F[i]] \in Notice BY <2>2, QueueConstants
  <2>. QED BY <2>1, <2>2, <2>3 DEF Tells
<1>. HIDE DEF at
<1>7. /\ \A i \in 1..k : f[i] \in at
      /\ \A i, j \in 1..k : i < j => f[i] < f[j]
  BY <1>3 DEF Rising
<1>. HIDE DEF f
<1>8. \A i \in 1..k : B[i] = NoticeOf[F[f[i]]] OBVIOUS
<1>9. B \in Seq(Notice) /\ Len(B) = k BY <1>4, <1>6, <1>7
<1>. HIDE DEF B, k
<1>10. ASSUME NEW i \in 1..k, NEW j \in 1..k, B[i] = B[j] PROVE i = j
  <2>1. /\ F[f[i]] \in Post \ Inbound /\ F[f[j]] \in Post \ Inbound
        /\ NoticeOf[F[f[i]]] = NoticeOf[F[f[j]]]
    BY <1>6, <1>7, <1>8, <1>10
  <2>2. F[f[i]] = F[f[j]] BY <2>1, QueueConstants
  <2>3. f[i] \in 1..Len(F) /\ f[j] \in 1..Len(F) BY <1>6, <1>7
  <2>4. f[i] = f[j] BY <2>2, <2>3 DEF Distinct
  <2>. QED BY <1>4, <1>7, <2>3, <2>4
<1>11. Distinct(B) BY <1>9, <1>10 DEF Distinct
<1>12. ASSUME NEW n \in Range(B) PROVE IsBounce(n, F, s)
  <2>1. PICK i \in 1..k : n = B[i] BY <1>9 DEF Range
  <2>2. f[i] \in at BY <1>7
  <2>. QED BY <1>6, <1>8, <2>1, <2>2 DEF IsBounce
<1>. QED BY <1>5, <1>9, <1>11, <1>12

LEMMA AdmittedIs ==
  ASSUME NEW F \in Seq(Msg), Distinct(F), NEW Q, Orderly(Q), NEW limited, NEW s \in Pane
  PROVE  /\ Admitted(F, s, Q, limited) \in Seq(Notice) /\ Distinct(Admitted(F, s, Q, limited))
         /\ Range(Admitted(F, s, Q, limited)) \subseteq Range(Bounced(F, s))
         /\ Len(Q[s]) + Len(Admitted(F, s, Q, limited)) <= QueueCap
<1>. DEFINE B == Bounced(F, s)
            room == QueueCap - Len(Q[s])
            n == Len(B)
            k == IF n <= room THEN n ELSE room
<1>1. B \in Seq(Notice) /\ Distinct(B) BY BouncedIs
<1>2. Len(Q[s]) \in Nat /\ QueueCap \in Nat /\ Len(Q[s]) <= QueueCap
  BY QueueConstants DEF Orderly
<1>3. CASE s \in Terminal \cup limited \/ room <= 0
  <2>1. Admitted(F, s, Q, limited) = << >> BY <1>3 DEF Admitted
  <2>2. Range(<< >>) = {} /\ Distinct(<< >>) /\ << >> \in Seq(Notice) /\ Len(<< >>) = 0
    BY DEF Range, Distinct
  <2>. QED BY <1>2, <2>1, <2>2
<1>4. CASE ~(s \in Terminal \cup limited \/ room <= 0)
  <2>1. Admitted(F, s, Q, limited) = SubSeq(B, 1, k) BY <1>4 DEF Admitted
  <2>. HIDE DEF B
  <2>7. n \in Nat BY <1>1
  <2>8. room \in Nat \ {0} /\ Len(Q[s]) + room = QueueCap BY <1>2, <1>4
  <2>. HIDE DEF room
  <2>2. k \in 0..n /\ k <= room BY <2>7, <2>8
  <2>. HIDE DEF k
  <2>3. /\ SubSeq(B, 1, k) \in Seq(Notice) /\ Len(SubSeq(B, 1, k)) = k
        /\ \A i \in 1..k : SubSeq(B, 1, k)[i] = B[i] /\ i \in 1..Len(B)
    BY <1>1, <2>7, <2>2
  <2>4. Distinct(SubSeq(B, 1, k)) BY <1>1, <2>3 DEF Distinct
  <2>5. Range(SubSeq(B, 1, k)) \subseteq Range(B)
    <3>1. DOMAIN SubSeq(B, 1, k) = 1..k /\ DOMAIN B = 1..Len(B) BY <1>1, <2>3
    <3>. QED BY <2>3, <3>1 DEF Range
  <2>6. k \in Nat /\ Len(Q[s]) + k <= QueueCap BY <1>2, <2>7, <2>8, <2>2
  <2>. QED BY <2>1, <2>3, <2>4, <2>5, <2>6 DEF B
<1>. QED BY <1>3, <1>4

\* Notices join queues that hold none of them, each the queue of one pane.
LEMMA FlowNotices ==
  ASSUME Typed, NEW F \in Seq(Msg), Distinct(F), NEW Q, Orderly(Q), NEW limited,
         \A s \in Pane : \A m \in Range(Q[s]) : status[m] # "none"
  PROVE  Flow(Q, WithNotices(F, Q, limited), {}, [s \in Pane |-> Range(Admitted(F, s, Q, limited))])
<1>. DEFINE A == [s \in Pane |-> Admitted(F, s, Q, limited)]
<1>1. ASSUME NEW s \in Pane
      PROVE  /\ A[s] \in Seq(Msg) /\ Distinct(A[s]) /\ Range(A[s]) \cap Range(Q[s]) = {}
             /\ Len(Q[s]) + Len(A[s]) <= QueueCap
  <2>1. /\ A[s] \in Seq(Notice) /\ Distinct(A[s]) /\ Len(Q[s]) + Len(A[s]) <= QueueCap
        /\ Range(A[s]) \subseteq Range(Bounced(F, s))
    BY AdmittedIs
  <2>2. \A n \in Range(Bounced(F, s)) : status[n] = "none" BY BouncedIs DEF IsBounce
  <2>3. A[s] \in Seq(Msg) BY <2>1 DEF Msg
  <2>. QED BY <2>1, <2>2, <2>3
<1>2. Flow(Q, [s \in Pane |-> Q[s] \o A[s]], {}, [s \in Pane |-> Range(A[s])])
  <2>. HIDE DEF A
  <2>. QED BY <1>1, FlowJoin
<1>. QED BY <1>2 DEF WithNotices
-----------------------------------------------------------------------------
(* One turn of the window: the messages D leave their queues, New[s] join,  *)
(* and hand-overs go on, end or begin.                                     *)

Anew(New) ==
    \A s \in Pane : \A m \in New[s] :
        /\ s \in Open /\ m \in Msg /\ status[m] = "none" /\ status'[m] = "queued"
        /\ \A r \in Pane : r # s => m \notin New[r]

Rows(D) ==
    \A m \in Msg :
        /\ status[m] # "none" => status'[m] # "none"
        /\ Queued(m) /\ m \notin D => status'[m] \in Waits
        /\ readReserved'[m] # None => Queued(m) /\ m \notin D /\ status'[m] \in InHand

\* A hand-over goes on, ends or begins.
GoesOn(p, D) ==
    /\ p \in delivering' <=> p \in delivering
    /\ stage'[p] = "none" <=> stage[p] = "none"
    /\ flight'[p] = flight[p]
    /\ stage[p] # "none" =>
          /\ readReserved'[flight[p]] = None
          /\ p \in Open => flight[p] \notin D /\ status'[flight[p]] \in InHand
Ends(p) == p \notin delivering' /\ stage'[p] = "none" /\ flight'[p] = None
Begins(p, D) ==
    /\ p \in Open /\ p \notin delivering
    /\ p \in delivering' /\ stage'[p] # "none"
    /\ AtHead(p, flight'[p]) /\ flight'[p] \notin D /\ flight'[p] \in Msg
    /\ status'[flight'[p]] \in InHand /\ readReserved'[flight'[p]] = None
Hands(D) == \A p \in Pane : GoesOn(p, D) \/ Ends(p) \/ Begins(p, D)

Reports(D, New) ==
    \A m \in Inbound :
        /\ m \in remoteInbound' <=> (m \in remoteInbound /\ m \notin D) \/ \E s \in Pane : m \in New[s]
        /\ verdict[m] # {} => verdict'[m] # {}
        /\ m \in D /\ m \in remoteInbound => verdict'[m] # {}
        /\ status[m] = "none" /\ status'[m] # "none" /\ (\A s \in Pane : m \notin New[s]) =>
              verdict'[m] # {}

Turn(D, New) ==
    /\ UNCHANGED registry
    /\ Flow(queue, queue', D, New)
    /\ Anew(New) /\ Rows(D) /\ Hands(D) /\ Reports(D, New)

Joins(m, New) == \E s \in Pane : m \in New[s]

LEMMA QueuedThen ==
  ASSUME NEW D, NEW New, Flow(queue, queue', D, New), NEW m
  PROVE  Queued(m)' <=> (Queued(m) /\ m \notin D) \/ Joins(m, New)
BY DEF Flow, Queued, Joins

LEMMA HeadQueued ==
  ASSUME queue \in [Pane -> Seq(Msg)], NEW p \in Pane, NEW m, AtHead(p, m)
  PROVE  m \in Range(queue[p]) /\ Queued(m) /\ m \in Msg
<1>1. queue[p] \in Seq(Msg) /\ queue[p] # << >> /\ m = queue[p][1] BY DEF AtHead
<1>2. 1 \in DOMAIN queue[p] /\ m \in Msg BY <1>1
<1>. QED BY <1>1, <1>2 DEF Range, Queued

\* What every step keeps, besides the types.
Sound == QInv /\ Orderly(queue)

LEMMA TurnKeeps ==
  ASSUME QInv, Orderly(queue), NEW D, NEW New, Turn(D, New)
  PROVE  Sound'
<1>0. /\ Flow(queue, queue', D, New) /\ Anew(New) /\ Rows(D) /\ Hands(D) /\ Reports(D, New)
      /\ Open' = Open /\ seen' = seen
      /\ queue \in [Pane -> Seq(Msg)]
  BY DEF Turn, registry, Open, Orderly
<1>1. Apart(queue) BY <1>0, OnceIs DEF QInv
<1>2. PaneInv'
  <2>1. ASSUME NEW p \in Pane, p \notin Open PROVE queue'[p] = << >> /\ p \notin delivering'
    <3>1. queue[p] = << >> /\ p \notin delivering BY <2>1 DEF QInv, PaneInv
    <3>2. New[p] = {} BY <1>0, <2>1 DEF Anew
    <3>3. Range(queue[p]) = {} BY <3>1 DEF Range
    <3>4. Range(queue'[p]) = {} BY <1>0, <3>2, <3>3 DEF Flow
    <3>5. queue'[p] \in Seq(Msg) BY <1>0 DEF Flow, Orderly
    <3>6. queue'[p] = << >>
      <4>1. SUFFICES ASSUME queue'[p] # << >> PROVE FALSE OBVIOUS
      <4>2. 1 \in DOMAIN queue'[p] BY <3>5, <4>1
      <4>. QED BY <3>4, <4>2 DEF Range
    <3>7. ~Begins(p, D) BY <2>1 DEF Begins
    <3>. QED BY <1>0, <3>1, <3>6, <3>7 DEF Hands, GoesOn, Ends
  <2>2. ASSUME NEW p \in Pane
        PROVE  /\ p \in Open => p \in seen
               /\ p \notin seen => stage'[p] = "none"
               /\ p \in Open => (stage'[p] # "none" <=> p \in delivering')
               /\ stage'[p] = "none" => flight'[p] = None
    <3>1. /\ p \in Open => p \in seen
          /\ p \notin seen => stage[p] = "none"
          /\ p \in Open => (stage[p] # "none" <=> p \in delivering)
          /\ stage[p] = "none" => flight[p] = None
      BY DEF QInv, PaneInv
    <3>2. CASE GoesOn(p, D) BY <3>1, <3>2 DEF GoesOn
    <3>3. CASE Ends(p) BY <3>1, <3>3 DEF Ends
    <3>4. CASE Begins(p, D) BY <3>1, <3>4 DEF Begins
    <3>. QED BY <1>0, <3>2, <3>3, <3>4 DEF Hands
  <2>. QED BY <1>0, <2>1, <2>2 DEF PaneInv
<1>3. QueuedOnce'
  <2>1. \A s \in Pane : \A m \in New[s] : \A r \in Pane : m \notin Range(queue[r])
    <3>1. SUFFICES ASSUME NEW s \in Pane, NEW m \in New[s], NEW r \in Pane, m \in Range(queue[r])
                   PROVE  FALSE
      OBVIOUS
    <3>2. status[m] = "none" /\ m \in Msg BY <1>0 DEF Anew
    <3>3. Queued(m) BY <3>1 DEF Queued
    <3>. QED BY <3>2, <3>3 DEF QInv, WaitInv, Waits
  <2>2. Apart(queue')
    <3>1. SUFFICES ASSUME NEW s \in Pane, NEW r \in Pane, s # r, NEW m,
                          m \in Range(queue'[s]), m \in Range(queue'[r])
                   PROVE  FALSE
      BY DEF Apart
    <3>2. /\ m \in Range(queue[s]) \/ m \in New[s]
          /\ m \in Range(queue[r]) \/ m \in New[r]
      BY <1>0, <3>1 DEF Flow
    <3>3. ~(m \in Range(queue[s]) /\ m \in Range(queue[r])) BY <1>1, <3>1 DEF Apart
    <3>4. ~(m \in New[s] /\ m \in New[r]) BY <1>0, <3>1 DEF Anew
    <3>. QED BY <2>1, <3>2, <3>3, <3>4
  <2>3. queue' \in [Pane -> Seq(Msg)] /\ \A s \in Pane : Distinct(queue'[s])
    BY <1>0 DEF Flow, Orderly
  <2>4. QueuedOnce' <=> Apart(queue') /\ \A s \in Pane : Distinct(queue'[s])
    <3>1. (queue \in [Pane -> Seq(Msg)] =>
             (QueuedOnce <=> Apart(queue) /\ \A s \in Pane : Distinct(queue[s])))'
      BY OnceIs, PTL
    <3>. QED BY <2>3, <3>1
  <2>. QED BY <2>2, <2>3, <2>4
<1>4. WaitInv'
  <2>1. SUFFICES ASSUME NEW m \in Msg
                 PROVE  /\ Queued(m)' => status'[m] \in Waits
                        /\ readReserved'[m] # None => Queued(m)' /\ status'[m] \in InHand
    BY DEF WaitInv
  <2>2. Queued(m)' <=> (Queued(m) /\ m \notin D) \/ Joins(m, New) BY <1>0, QueuedThen
  <2>3. Joins(m, New) => status'[m] = "queued" BY <1>0 DEF Joins, Anew
  <2>4. Queued(m) /\ m \notin D => status'[m] \in Waits BY <1>0 DEF Rows
  <2>5. readReserved'[m] # None => Queued(m) /\ m \notin D /\ status'[m] \in InHand
    BY <1>0 DEF Rows
  <2>. QED BY <2>2, <2>3, <2>4, <2>5 DEF Waits
<1>5. InboundReported'
  <2>1. SUFFICES ASSUME NEW m \in Inbound
                 PROVE  /\ m \in remoteInbound' <=> Queued(m)'
                        /\ status'[m] # "none" /\ ~Queued(m)' => verdict'[m] # {}
    BY DEF InboundReported
  <2>2. Queued(m)' <=> (Queued(m) /\ m \notin D) \/ Joins(m, New) BY <1>0, QueuedThen
  <2>3. /\ m \in remoteInbound <=> Queued(m)
        /\ status[m] # "none" /\ ~Queued(m) => verdict[m] # {}
    BY DEF QInv, InboundReported
  <2>4. /\ m \in remoteInbound' <=> (m \in remoteInbound /\ m \notin D) \/ Joins(m, New)
        /\ verdict[m] # {} => verdict'[m] # {}
        /\ m \in D /\ m \in remoteInbound => verdict'[m] # {}
        /\ status[m] = "none" /\ status'[m] # "none" /\ ~Joins(m, New) => verdict'[m] # {}
    BY <1>0 DEF Reports, Joins
  <2>. QED BY <2>2, <2>3, <2>4
<1>6. FlightInv'
  <2>0. ASSUME NEW p \in Pane, stage'[p] # "none"
        PROVE  \/ GoesOn(p, D) /\ stage[p] # "none" /\ FlightOf(p) /\ flight'[p] = flight[p]
               \/ Begins(p, D) /\ flight'[p] \in Range(queue[p]) /\ Queued(flight'[p])
    <3>1. CASE GoesOn(p, D) BY <2>0, <3>1 DEF GoesOn, QInv, FlightInv
    <3>2. CASE Begins(p, D) BY <1>0, <3>2, HeadQueued DEF Begins
    <3>3. ~Ends(p) BY <2>0 DEF Ends
    <3>. QED BY <1>0, <3>1, <3>2, <3>3 DEF Hands
  <2>1. ASSUME NEW p \in Pane, stage'[p] # "none"
        PROVE  /\ flight'[p] \in Msg /\ status'[flight'[p]] # "none"
               /\ readReserved'[flight'[p]] = None
               /\ p \in Open => AtHead(p, flight'[p]) /\ flight'[p] \notin D
                                /\ status'[flight'[p]] \in InHand
               /\ p \notin Open => ~Queued(flight'[p]) /\ status[flight'[p]] # "none"
    <3>1. CASE GoesOn(p, D) /\ stage[p] # "none" /\ FlightOf(p) /\ flight'[p] = flight[p]
      BY <1>0, <3>1 DEF GoesOn, FlightOf, Rows
    <3>2. CASE Begins(p, D) BY <3>2 DEF Begins, InHand
    <3>. QED BY <2>0, <2>1, <3>1, <3>2
  <2>2. ASSUME NEW p \in Pane, stage'[p] # "none", p \in Open PROVE AtHead(p, flight[p])'
    BY <1>0, <2>1, <2>2 DEF Flow, AtHead
  <2>3. ASSUME NEW p \in Pane, stage'[p] # "none", p \notin Open PROVE ~(Queued(flight[p])')
    <3>1. /\ ~Queued(flight'[p]) /\ flight'[p] \in Msg /\ status[flight'[p]] # "none"
      BY <2>1, <2>3
    <3>2. ~Joins(flight'[p], New) BY <1>0, <3>1 DEF Joins, Anew
    <3>3. ~\E s \in Pane : flight'[p] \in Range(queue'[s])
      BY <1>0, <3>1, <3>2 DEF Flow, Queued, Joins
    <3>. QED BY <3>3 DEF Queued
  <2>4. ASSUME NEW p \in Pane, NEW r \in Pane, stage'[p] # "none", stage'[r] # "none",
               flight'[p] = flight'[r]
        PROVE  p = r
    <3>1. CASE p \in Open /\ r \in Open
      <4>1. AtHead(p, flight'[p]) /\ AtHead(r, flight'[p]) BY <2>1, <2>4, <3>1
      <4>2. flight'[p] \in Range(queue[p]) /\ flight'[p] \in Range(queue[r])
        BY <1>0, <4>1, HeadQueued
      <4>. QED BY <1>1, <4>2 DEF Apart
    <3>2. CASE p \in Open /\ r \notin Open
      <4>1. Queued(flight'[p]) /\ ~Queued(flight'[r]) BY <1>0, <2>1, <2>4, <3>2, HeadQueued
      <4>. QED BY <2>4, <4>1
    <3>3. CASE p \notin Open /\ r \in Open
      <4>1. ~Queued(flight'[p]) /\ Queued(flight'[r]) BY <1>0, <2>1, <2>4, <3>3, HeadQueued
      <4>. QED BY <2>4, <4>1
    <3>4. CASE p \notin Open /\ r \notin Open
      <4>1. ~Begins(p, D) /\ ~Begins(r, D) BY <3>4 DEF Begins
      <4>2. /\ stage[p] # "none" /\ FlightOf(p) /\ flight'[p] = flight[p]
            /\ stage[r] # "none" /\ flight'[r] = flight[r]
        BY <2>0, <2>4, <4>1
      <4>. QED BY <2>4, <4>2 DEF FlightOf
    <3>. QED BY <3>1, <3>2, <3>3, <3>4
  <2>. QED BY <1>0, <2>1, <2>2, <2>3, <2>4 DEF FlightInv, FlightOf
<1>. QED BY <1>0, <1>2, <1>3, <1>4, <1>5, <1>6 DEF QInv, Sound, Flow
-----------------------------------------------------------------------------
(* What one message's turn leaves of the others.                           *)

\* Only the row of m moves, and those of notices that are new.
Only(m) ==
    \A x \in Msg \ {m} :
        /\ status[x] # "none" => status'[x] = status[x]
        /\ readReserved'[x] = readReserved[x]

RowOf(m, D) ==
    /\ status[m] # "none" => status'[m] # "none"
    /\ Queued(m) /\ m \notin D => status'[m] \in Waits
    /\ readReserved'[m] # None => Queued(m) /\ m \notin D /\ status'[m] \in InHand

LEMMA RowsOf ==
  ASSUME QInv, NEW m \in Msg, NEW D \in {{}, {m}}, Only(m), RowOf(m, D)
  PROVE  Rows(D)
<1>1. SUFFICES ASSUME NEW x \in Msg
               PROVE  /\ status[x] # "none" => status'[x] # "none"
                      /\ Queued(x) /\ x \notin D => status'[x] \in Waits
                      /\ readReserved'[x] # None => Queued(x) /\ x \notin D /\ status'[x] \in InHand
  BY DEF Rows
<1>2. CASE x = m BY <1>2 DEF RowOf
<1>3. CASE x # m
  <2>1. /\ Queued(x) => status[x] \in Waits
        /\ readReserved[x] # None => Queued(x) /\ status[x] \in InHand
    BY DEF QInv, WaitInv
  <2>2. /\ status[x] # "none" => status'[x] = status[x]
        /\ readReserved'[x] = readReserved[x] /\ x \notin D
    BY <1>3 DEF Only
  <2>. QED BY <2>1, <2>2 DEF Waits
<1>. QED BY <1>2, <1>3

\* Nobody has m in hand.
Elsewhere(m) == \A r \in Pane : stage[r] # "none" => flight[r] # m
Same(r) == /\ r \in delivering' <=> r \in delivering
           /\ stage'[r] = stage[r] /\ flight'[r] = flight[r]

LEMMA NotInHand ==
  ASSUME QInv, queue \in [Pane -> Seq(Msg)], NEW m \in Msg
  PROVE  /\ readReserved[m] # None => Elsewhere(m)
         /\ status[m] = "none" => Elsewhere(m)
         /\ status[m] = "queued" /\ Queued(m) => Elsewhere(m)
         /\ \A p \in Pane : p \in Open /\ p \notin delivering /\ AtHead(p, m) => Elsewhere(m)
         /\ \A p, r \in Pane : stage[p] # "none" /\ flight[p] = m /\ stage[r] # "none" /\ r # p
                                 => flight[r] # m
<1>1. ASSUME NEW r \in Pane, stage[r] # "none", flight[r] = m
      PROVE  /\ readReserved[m] = None /\ status[m] # "none"
             /\ ~(status[m] = "queued" /\ Queued(m))
             /\ ~\E p \in Pane : p \in Open /\ p \notin delivering /\ AtHead(p, m)
             /\ \A p \in Pane : stage[p] # "none" /\ flight[p] = m => p = r
  <2>1. FlightOf(r) BY <1>1 DEF QInv, FlightInv
  <2>2. ASSUME NEW p \in Pane, p \in Open, p \notin delivering, AtHead(p, m) PROVE FALSE
    <3>1. m \in Range(queue[p]) /\ Queued(m) BY <2>2, HeadQueued
    <3>2. r \in Open BY <1>1, <2>1, <3>1 DEF FlightOf
    <3>3. AtHead(r, m) BY <1>1, <2>1, <3>2 DEF FlightOf
    <3>4. m \in Range(queue[r]) BY <3>3, HeadQueued
    <3>5. p = r BY <3>1, <3>4, OnceIs DEF QInv, Apart
    <3>. QED BY <1>1, <2>2, <3>5 DEF QInv, PaneInv
  <2>. QED BY <1>1, <2>1, <2>2 DEF FlightOf, InHand
<1>. QED BY <1>1 DEF Elsewhere

LEMMA HandsSame ==
  ASSUME QInv, NEW m \in Msg, NEW D \in {{}, {m}}, Only(m), Elsewhere(m), UNCHANGED handover
  PROVE  Hands(D)
<1>1. SUFFICES ASSUME NEW p \in Pane PROVE GoesOn(p, D) BY DEF Hands
<1>2. stage[p] # "none" => FlightOf(p) /\ flight[p] # m BY DEF QInv, FlightInv, Elsewhere
<1>. QED BY <1>2 DEF GoesOn, FlightOf, Only, handover

LEMMA HandsEnd ==
  ASSUME QInv, queue \in [Pane -> Seq(Msg)], NEW p \in Pane, stage[p] # "none",
         NEW D \in {{}, {flight[p]}}, Only(flight[p]),
         Ends(p), \A r \in Pane \ {p} : Same(r)
  PROVE  Hands(D)
<1>1. SUFFICES ASSUME NEW r \in Pane, r # p PROVE GoesOn(r, D) BY DEF Hands
<1>2. flight[p] \in Msg BY DEF QInv, FlightInv, FlightOf
<1>3. stage[r] # "none" => FlightOf(r) /\ flight[r] # flight[p]
  BY <1>1, <1>2, NotInHand DEF QInv, FlightInv
<1>. QED BY <1>1, <1>3 DEF GoesOn, FlightOf, Only, Same

LEMMA HandsBegin ==
  ASSUME QInv, queue \in [Pane -> Seq(Msg)], NEW p \in Pane, NEW m \in Msg, Only(m),
         p \in Open, AtHead(p, m), p \notin delivering, p \in delivering', stage'[p] # "none", flight'[p] = m,
         status'[m] \in InHand, readReserved'[m] = None, \A r \in Pane \ {p} : Same(r)
  PROVE  Hands({})
<1>0. Elsewhere(m) BY NotInHand
<1>1. Begins(p, {}) BY DEF Begins
<1>2. ASSUME NEW r \in Pane, r # p PROVE GoesOn(r, {})
  <2>1. stage[r] # "none" => FlightOf(r) /\ flight[r] # m BY <1>0 DEF QInv, FlightInv, Elsewhere
  <2>. QED BY <1>2, <2>1 DEF GoesOn, FlightOf, Only, Same
<1>. QED BY <1>1, <1>2 DEF Hands

\* The sending window hears what becomes of m.
LEMMA ReportsAck ==
  ASSUME verdict \in [Msg -> SUBSET Verdict], NEW m \in Msg, NEW v, AckInbound({m}, v), NEW New,
         \A x \in Inbound : ~Joins(x, New) /\ (x = m => status[m] # "none")
                            /\ (x # m => status'[x] = status[x])
  PROVE  Reports({m}, New)
<1>1. /\ \A x \in Msg : verdict'[x] = IF x \in {m} \cap remoteInbound THEN verdict[x] \cup {v} ELSE verdict[x]
      /\ remoteInbound' = remoteInbound \ {m}
  BY DEF AckInbound
<1>2. Inbound \subseteq Msg BY QueueConstants DEF Msg
<1>3. \A x \in Inbound : verdict[x] \subseteq verdict'[x] /\ (x = m /\ m \in remoteInbound => v \in verdict'[x])
  BY <1>1, <1>2
<1>. QED BY <1>1, <1>3 DEF Reports, Joins

LEMMA ReportsNone ==
  ASSUME NEW New, UNCHANGED remoteInbound,
         \A x \in Inbound : /\ ~Joins(x, New) /\ verdict[x] \subseteq verdict'[x]
                            /\ status[x] = "none" => status'[x] = "none"
  PROVE  Reports({}, New)
BY DEF Reports, Joins

LEMMA NobodyJoins == Anew(Nobody) /\ \A m : ~Joins(m, Nobody)
BY DEF Anew, Joins, Nobody
LEMMA QueueOrderly ==
  ASSUME TypeOK, QInv
  PROVE  Orderly(queue) /\ Apart(queue) /\ queue \in [Pane -> Seq(Msg)]
         /\ \A s \in Pane : \A m \in Range(queue[s]) : Queued(m) /\ m \in Msg /\ status[m] # "none"
<1>1. queue \in [Pane -> Seq(Msg)] /\ \A s \in Pane : Len(queue[s]) <= QueueCap BY DEF TypeOK
<1>2. Orderly(queue) /\ Apart(queue) BY <1>1, OnceIs DEF QInv, Orderly
<1>3. ASSUME NEW s \in Pane, NEW m \in Range(queue[s]) PROVE Queued(m) /\ m \in Msg /\ status[m] # "none"
  <2>1. queue[s] \in Seq(Msg) BY <1>1
  <2>2. m \in Msg BY <2>1 DEF Range
  <2>3. Queued(m) BY DEF Queued
  <2>. QED BY <2>2, <2>3 DEF QInv, WaitInv, Waits
<1>. QED BY <1>1, <1>2, <1>3

\* Who gets which notices when the messages of F fail.
Bounces(F, Q, limited) == [s \in Pane |-> Range(Admitted(F, s, Q, limited))]

LEMMA FailedRows ==
  ASSUME Typed, NEW F \in Seq(Msg), Distinct(F), NEW Q, Orderly(Q), NEW limited,
         \A m \in Range(F) : m \in Post \/ status[m] # "none"
  PROVE  /\ FailedStatus(F, Q, limited) \in [Msg -> Status]
         /\ \A m \in Msg : status[m] # "none" => FailedStatus(F, Q, limited)[m] # "none"
         /\ \A m \in Msg \ Range(F) : status[m] # "none" => FailedStatus(F, Q, limited)[m] = status[m]
         /\ \A m \in Inbound \ Range(F) : FailedStatus(F, Q, limited)[m] = status[m]
         /\ \A s \in Pane : \A n \in Bounces(F, Q, limited)[s] :
               /\ s \in Open /\ n \in Notice /\ status[n] = "none"
               /\ FailedStatus(F, Q, limited)[n] = "queued" /\ n \notin Range(F)
               /\ \A r \in Pane : r # s => n \notin Bounces(F, Q, limited)[r]
<1>1. ASSUME NEW s \in Pane, NEW n \in Range(Bounced(F, s))
      PROVE  IsBounce(n, F, s) /\ n \in Notice /\ status[n] = "none"
  <2>1. IsBounce(n, F, s) BY BouncedIs
  <2>2. Bounced(F, s) \in Seq(Notice) BY BouncedIs
  <2>3. n \in Notice BY <2>2 DEF Range
  <2>. QED BY <2>1, <2>3 DEF IsBounce
<1>2. \A s \in Pane : Range(Admitted(F, s, Q, limited)) \subseteq Range(Bounced(F, s)) BY AdmittedIs
<1>3. \A n \in Notices(F) : n \in Notice /\ status[n] = "none" BY <1>1 DEF Notices
<1>4. Inbound \subseteq Post /\ Post \cap Notice = {} /\ Msg = Post \cup Notice BY QueueConstants DEF Msg
<1>5. \A m \in Msg : status[m] \in Status BY DEF Typed
<1>6. FailedStatus(F, Q, limited) \in [Msg -> Status]
  <2>1. "failed" \in Status /\ "queued" \in Status BY DEF Status, Settled
  <2>. QED BY <1>5, <2>1 DEF FailedStatus
<1>7. \A m \in Msg : status[m] # "none" => FailedStatus(F, Q, limited)[m] # "none"
  BY <1>3 DEF FailedStatus
<1>8. \A m \in Msg \ Range(F) : status[m] # "none" => FailedStatus(F, Q, limited)[m] = status[m]
  BY <1>3 DEF FailedStatus
<1>9. \A m \in Inbound \ Range(F) : FailedStatus(F, Q, limited)[m] = status[m]
  BY <1>3, <1>4 DEF FailedStatus
<1>10. ASSUME NEW s \in Pane, NEW n \in Bounces(F, Q, limited)[s]
       PROVE  /\ s \in Open /\ n \in Notice /\ status[n] = "none"
              /\ FailedStatus(F, Q, limited)[n] = "queued" /\ n \notin Range(F)
              /\ \A r \in Pane : r # s => n \notin Bounces(F, Q, limited)[r]
  <2>1. n \in Range(Admitted(F, s, Q, limited)) /\ n \in Range(Bounced(F, s)) BY <1>2 DEF Bounces
  <2>2. IsBounce(n, F, s) /\ n \in Notice /\ status[n] = "none" BY <1>1, <2>1
  <2>3. s \in Open
    <3>1. PICK m \in Range(F) : m \in Post \ Inbound /\ Sender[m] # None /\ holder[Sender[m]] = s
      BY <2>2 DEF IsBounce
    <3>2. Sender[m] \in Name BY <3>1, QueueConstants
    <3>3. s # None BY QueueConstants
    <3>. QED BY <3>1, <3>2, <3>3 DEF Open
  <2>4. n \notin Range(F) BY <1>4, <2>2
  <2>5. n \in Notices(F) /\ n \in Enqueued(F, Q, limited) BY <2>1 DEF Notices, Enqueued
  <2>6. FailedStatus(F, Q, limited)[n] = "queued" BY <1>4, <2>2, <2>4, <2>5 DEF FailedStatus
  <2>7. ASSUME NEW r \in Pane, r # s, n \in Bounces(F, Q, limited)[r] PROVE FALSE
    <3>1. IsBounce(n, F, r) BY <1>1, <1>2, <2>7 DEF Bounces
    <3>2. PICK m \in Range(F) : m \in Post \ Inbound /\ holder[Sender[m]] = s /\ n = NoticeOf[m]
      BY <2>2 DEF IsBounce
    <3>3. PICK k \in Range(F) : k \in Post \ Inbound /\ holder[Sender[k]] = r /\ n = NoticeOf[k]
      BY <3>1 DEF IsBounce
    <3>4. m = k BY <3>2, <3>3, QueueConstants
    <3>. QED BY <2>7, <3>2, <3>3, <3>4
  <2>. QED BY <2>2, <2>3, <2>4, <2>6, <2>7
<1>. QED BY <1>6, <1>7, <1>8, <1>9, <1>10
\* Failing m, with the notice of it, moves no other row.
LEMMA FailOnly ==
  ASSUME Typed, NEW m \in Msg, NEW Q, Orderly(Q), NEW limited, m \in Post \/ status[m] # "none",
         Fails(<<m>>, Q, limited), UNCHANGED readReserved
  PROVE  /\ Only(m) /\ status' \in [Msg -> Status] /\ status'[m] # "none"
         /\ \A x \in Inbound \ {m} : status'[x] = status[x]
         /\ Anew(Bounces(<<m>>, Q, limited))
         /\ \A x \in Inbound : ~Joins(x, Bounces(<<m>>, Q, limited))
         /\ ~Joins(m, Bounces(<<m>>, Q, limited))
<1>. DEFINE F == <<m>>
            S == FailedStatus(F, Q, limited)
            B == Bounces(F, Q, limited)
<1>1. F \in Seq(Msg) /\ Distinct(F) /\ Range(F) = {m} BY OneIs
<1>. HIDE DEF F
<1>2. /\ S \in [Msg -> Status]
      /\ \A x \in Msg : status[x] # "none" => S[x] # "none"
      /\ \A x \in Msg \ Range(F) : status[x] # "none" => S[x] = status[x]
      /\ \A x \in Inbound \ Range(F) : S[x] = status[x]
      /\ \A s \in Pane : \A n \in B[s] :
            /\ s \in Open /\ n \in Notice /\ status[n] = "none" /\ S[n] = "queued" /\ n \notin Range(F)
            /\ \A r \in Pane : r # s => n \notin B[r]
  BY <1>1, FailedRows
<1>3. status' = S BY DEF Fails, F
<1>4. status'[m] # "none"
  <2>1. CASE status[m] # "none" BY <1>2, <1>3, <2>1
  <2>2. CASE status[m] = "none" BY <1>1, <2>2 DEF Fails, FailedStatus, F
  <2>. QED BY <2>1, <2>2
<1>. HIDE DEF S, B
<1>5. Only(m) BY <1>1, <1>2, <1>3 DEF Only
<1>6. Anew(B) BY <1>2, <1>3 DEF Anew, Msg
<1>7. Inbound \cap Notice = {} BY QueueConstants
<1>8. \A x : Joins(x, B) => x \in Notice /\ x # m BY <1>1, <1>2 DEF Joins
<1>. QED BY <1>1, <1>2, <1>3, <1>4, <1>5, <1>6, <1>7, <1>8 DEF B, F

LEMMA FailTurns ==
  ASSUME TypeOK, QInv, NEW m \in Msg, NEW Q, Orderly(Q), NEW limited, m \in Post \/ status[m] # "none",
         Fails(<<m>>, Q, limited), UNCHANGED <<registry, readReserved>>, readReserved[m] = None,
         Flow(queue, queue', {m}, Bounces(<<m>>, Q, limited)),
         NEW v, AckInbound({m}, v), m \in Inbound => status[m] # "none", Hands({m})
  PROVE  Sound'
<1>. DEFINE B == Bounces(<<m>>, Q, limited)
<1>1. /\ Only(m) /\ status'[m] # "none" /\ \A x \in Inbound \ {m} : status'[x] = status[x]
      /\ Anew(B) /\ \A x \in Inbound : ~Joins(x, B)
  BY FailOnly DEF TypeOK, Typed
<1>. HIDE DEF B
<1>2. Rows({m})
  <2>1. RowOf(m, {m}) BY <1>1 DEF RowOf
  <2>. QED BY <1>1, <2>1, RowsOf
<1>3. Reports({m}, B)
  <2>1. verdict \in [Msg -> SUBSET Verdict] BY DEF TypeOK
  <2>2. \A x \in Inbound : ~Joins(x, B) /\ (x = m => status[m] # "none")
                            /\ (x # m => status'[x] = status[x])
    BY <1>1
  <2>. QED BY <2>1, <2>2, ReportsAck
<1>4. Turn({m}, B) BY <1>1, <1>2, <1>3 DEF Turn, B
<1>. QED BY <1>4, QueueOrderly, TurnKeeps

\* m leaves its queue, or was in none.
LEMMA LeaveTurns ==
  ASSUME TypeOK, QInv, NEW m \in Msg, Only(m), UNCHANGED registry,
         status[m] # "none", status'[m] # "none", readReserved'[m] = None,
         Flow(queue, queue', {m}, Nobody), NEW v, AckInbound({m}, v), Hands({m}),
         \A x \in Msg \ {m} : status'[x] = status[x]
  PROVE  Sound'
<1>1. Rows({m})
  <2>1. RowOf(m, {m}) BY DEF RowOf
  <2>. QED BY <2>1, RowsOf
<1>2. Reports({m}, Nobody)
  <2>1. Inbound \subseteq Msg BY QueueConstants DEF Msg
  <2>2. verdict \in [Msg -> SUBSET Verdict] BY DEF TypeOK
  <2>3. \A x \in Inbound : ~Joins(x, Nobody) /\ (x = m => status[m] # "none")
                            /\ (x # m => status'[x] = status[x])
    BY <2>1, NobodyJoins
  <2>. QED BY <2>2, <2>3, ReportsAck
<1>3. Turn({m}, Nobody) BY <1>1, <1>2, NobodyJoins DEF Turn
<1>. QED BY <1>3, QueueOrderly, TurnKeeps

\* No queue changes.
LEMMA StayTurns ==
  ASSUME TypeOK, QInv, NEW m \in Msg, Only(m), UNCHANGED <<registry, queue, remoteInbound>>,
         RowOf(m, {}), Hands({}),
         \A x \in Msg : /\ status[x] = "none" => status'[x] = "none"
                        /\ verdict[x] \subseteq verdict'[x]
  PROVE  Sound'
<1>1. Rows({}) BY RowsOf
<1>2. Reports({}, Nobody)
  <2>1. Inbound \subseteq Msg BY QueueConstants DEF Msg
  <2>. QED BY <2>1, NobodyJoins, ReportsNone
<1>3. Orderly(queue) BY QueueOrderly
<1>4. Flow(queue, queue', {}, Nobody) BY <1>3, FlowNone
<1>5. Turn({}, Nobody) BY <1>1, <1>2, <1>4, NobodyJoins DEF Turn
<1>. QED BY <1>3, <1>5, TurnKeeps

LEMMA SetIs ==
  ASSUME status \in [Msg -> Status], NEW m \in Msg, NEW s \in Status
  PROVE  /\ SetStatus(m, s) \in [Msg -> Status]
         /\ SetStatus(m, s)[m] = IF status[m] = "evicted" THEN "evicted" ELSE s
         /\ \A x \in Msg \ {m} : SetStatus(m, s)[x] = status[x]
BY DEF SetStatus

\* A flow that takes a message out of no queue takes out nothing.
LEMMA FlowAbsent ==
  ASSUME NEW Q, NEW R, NEW New, NEW m, Flow(Q, R, {}, New),
         \A s \in Pane : m \notin Range(Q[s]) /\ Q[s] \in Seq(Msg)
  PROVE  Flow(Q, R, {m}, New)
BY DEF Flow

\* The array of p is shifted if the pane is still open; the message it carried
\* is then at the head, and in no queue if it is not.
LEMMA ShiftFlow ==
  ASSUME TypeOK, QInv, NEW p \in Pane, stage[p] # "none"
  PROVE  Flow(queue, Shift(p, queue), {flight[p]}, Nobody)
<1>1. FlightOf(p) BY DEF QInv, FlightInv
<1>2. CASE p \in Open
  <2>1. queue[p] # << >> /\ queue[p][1] = flight[p] BY <1>1, <1>2 DEF FlightOf, AtHead
  <2>. QED BY <1>2, <2>1, QueueOrderly, FlowTail DEF Shift
<1>3. CASE p \notin Open
  <2>1. \A s \in Pane : flight[p] \notin Range(queue[s]) BY <1>1, <1>3 DEF FlightOf, Queued
  <2>2. Flow(queue, queue, {}, Nobody) BY QueueOrderly, FlowNone
  <2>3. \A s \in Pane : queue[s] \in Seq(Msg) BY QueueOrderly
  <2>4. Flow(queue, queue, {flight[p]}, Nobody) BY <2>1, <2>2, <2>3, FlowAbsent
  <2>. QED BY <1>3, <2>4 DEF Shift
<1>. QED BY <1>2, <1>3
\* m left its queue, and then the notice joined one.
LEMMA FailFlow ==
  ASSUME TypeOK, QInv, NEW m \in Msg, NEW Q, NEW limited, Flow(queue, Q, {m}, Nobody)
  PROVE  Flow(queue, WithNotices(<<m>>, Q, limited), {m}, Bounces(<<m>>, Q, limited))
<1>. DEFINE F == <<m>>
<1>1. F \in Seq(Msg) /\ Distinct(F) BY OneIs
<1>2. Orderly(Q) /\ \A s \in Pane : Range(Q[s]) \subseteq Range(queue[s]) BY DEF Flow, Nobody
<1>3. \A s \in Pane : \A x \in Range(Q[s]) : status[x] # "none" BY <1>2, QueueOrderly
<1>4. Typed BY DEF TypeOK, Typed
<1>. HIDE DEF F
<1>5. Flow(Q, WithNotices(F, Q, limited), {}, Bounces(F, Q, limited))
  BY <1>1, <1>2, <1>3, <1>4, FlowNotices DEF Bounces
<1>6. Flow(queue, WithNotices(F, Q, limited), {m}, Bounces(F, Q, limited))
  BY <1>5 DEF Flow, Nobody
<1>. QED BY <1>6 DEF F

\* The notice joined, and then the array was shifted.
LEMMA FailThenShift ==
  ASSUME TypeOK, QInv, NEW p \in Pane, stage[p] # "none", NEW m \in Msg, m = flight[p], NEW limited,
         Fails(<<m>>, queue, limited), UNCHANGED readReserved
  PROVE  Flow(queue, Shift(p, WithNotices(<<m>>, queue, limited)), {m}, Bounces(<<m>>, queue, limited))
<1>. DEFINE F == <<m>>
            W == WithNotices(F, queue, limited)
            B == Bounces(F, queue, limited)
<1>1. F \in Seq(Msg) /\ Distinct(F) BY OneIs
<1>2. /\ Orderly(queue) /\ Apart(queue) /\ queue \in [Pane -> Seq(Msg)]
      /\ \A s \in Pane : \A x \in Range(queue[s]) : status[x] # "none"
  BY QueueOrderly
<1>3. Typed BY DEF TypeOK, Typed
<1>4. FlightOf(p) /\ status[m] # "none" BY DEF QInv, FlightInv, FlightOf
<1>5. Anew(B) /\ ~Joins(m, B) BY <1>2, <1>3, <1>4, FailOnly
<1>. HIDE DEF F
<1>6. Flow(queue, W, {}, B) BY <1>1, <1>2, <1>3, FlowNotices DEF Bounces
<1>. HIDE DEF W, B
<1>7. Orderly(W) BY <1>6 DEF Flow
<1>8. CASE p \in Open
  <2>1. queue[p] # << >> /\ queue[p][1] = m BY <1>4, <1>8 DEF FlightOf, AtHead
  <2>2. W[p] # << >> /\ W[p][1] = m BY <1>6, <2>1 DEF Flow
  <2>3. Apart(W)
    <3>1. SUFFICES ASSUME NEW s \in Pane, NEW r \in Pane, s # r, NEW x, x \in Range(W[s]), x \in Range(W[r])
                   PROVE  FALSE
      BY DEF Apart
    <3>2. (x \in Range(queue[s]) \/ x \in B[s]) /\ (x \in Range(queue[r]) \/ x \in B[r])
      BY <1>6, <3>1 DEF Flow
    <3>3. ~(x \in Range(queue[s]) /\ x \in Range(queue[r])) BY <1>2, <3>1 DEF Apart
    <3>4. ~(x \in B[s] /\ x \in B[r]) BY <1>5, <3>1 DEF Anew
    <3>5. x \in B[s] \/ x \in B[r] => status[x] = "none" BY <1>5 DEF Anew
    <3>. QED BY <1>2, <3>2, <3>3, <3>4, <3>5
  <2>4. Flow(W, [W EXCEPT ![p] = Tail(@)], {m}, Nobody) BY <1>7, <2>2, <2>3, FlowTail
  <2>5. Flow(queue, [W EXCEPT ![p] = Tail(@)], {m}, B)
    <3>1. \A s \in Pane : m \notin B[s] BY <1>5 DEF Joins
    <3>. QED BY <1>6, <2>4, <3>1 DEF Flow, Nobody
  <2>. QED BY <1>8, <2>5 DEF Shift, W, B, F
<1>9. CASE p \notin Open
  <2>1. \A s \in Pane : m \notin Range(queue[s]) BY <1>4, <1>9 DEF FlightOf, Queued
  <2>2. Flow(queue, W, {m}, B)
    <3>1. \A s \in Pane : m \notin Range(queue[s]) /\ queue[s] \in Seq(Msg) BY <1>2, <2>1
    <3>. QED BY <1>6, <3>1, FlowAbsent
  <2>. QED BY <1>9, <2>2 DEF Shift, W, B, F
<1>. QED BY <1>8, <1>9

-----------------------------------------------------------------------------
(* Every step of a hand-over, a read or a withdrawal keeps the queues.      *)

\* Only what the invariant does not look at changes.
LEMMA QuietTurns ==
  ASSUME TypeOK, QInv,
         UNCHANGED <<registry, queue, status, readReserved, remoteInbound, delivering, flight>>,
         \A p \in Pane : stage'[p] = "none" <=> stage[p] = "none",
         \A m \in Msg : verdict[m] \subseteq verdict'[m]
  PROVE  Sound'
<1>1. Orderly(queue) BY QueueOrderly
<1>2. Flow(queue, queue', {}, Nobody) BY <1>1, FlowNone
<1>3. Rows({}) BY DEF Rows, QInv, WaitInv, Waits
<1>4. Hands({})
  <2>1. \A p \in Pane : stage[p] # "none" => FlightOf(p) BY DEF QInv, FlightInv
  <2>. QED BY <2>1 DEF Hands, GoesOn, FlightOf
<1>5. Reports({}, Nobody)
  <2>1. Inbound \subseteq Msg BY QueueConstants DEF Msg
  <2>. QED BY <2>1, NobodyJoins, ReportsNone
<1>6. Turn({}, Nobody) BY <1>2, <1>3, <1>4, <1>5, NobodyJoins DEF Turn
<1>. QED BY <1>1, <1>6, TurnKeeps

LEMMA EvictKeeps == ASSUME TypeOK, QInv, NEW m \in Msg, Evict(m) PROVE Sound'
<1>1. /\ status' = [status EXCEPT ![m] = "evicted"] /\ status[m] # "none"
      /\ UNCHANGED <<registry, queue, readReserved, remoteInbound, verdict, delivering, flight, stage>>
  BY DEF Evict, handover, history, Logged
<1>2. \A x \in Msg : status'[x] = IF x = m THEN "evicted" ELSE status[x] BY <1>1 DEF TypeOK
<1>3. Only(m) /\ RowOf(m, {})
  <2>1. readReserved[m] # None => Queued(m) BY DEF QInv, WaitInv
  <2>. QED BY <1>1, <1>2, <2>1 DEF Only, RowOf, Waits, InHand
<1>4. Hands({})
  <2>1. \A p \in Pane : stage[p] # "none" => FlightOf(p) BY DEF QInv, FlightInv
  <2>2. "evicted" \in InHand BY DEF InHand
  <2>. QED BY <1>1, <1>2, <2>1, <2>2 DEF Hands, GoesOn, FlightOf
<1>. QED BY <1>1, <1>2, <1>3, <1>4, StayTurns

LEMMA TakeKeeps ==
  ASSUME TypeOK, QInv, NEW p \in Pane, NEW s \in Stage \ {"none"}, Take(p, s)
  PROVE  Sound'
<1>. DEFINE m == queue[p][1]
<1>1. /\ queue[p] # << >> /\ p \notin delivering /\ readReserved[m] = None
      /\ delivering' = delivering \cup {p}
      /\ status' = [status EXCEPT ![m] = "delivering"]
      /\ flight' = [flight EXCEPT ![p] = m] /\ stage' = [stage EXCEPT ![p] = s]
      /\ UNCHANGED <<registry, queue, readReserved, remoteInbound, verdict>>
  BY DEF Take, HeadFree, maps, history
<1>. HIDE DEF m
<1>2. AtHead(p, m) BY <1>1 DEF AtHead, m
<1>3. p \in Open BY <1>1 DEF QInv, PaneInv
<1>4. m \in Range(queue[p]) /\ Queued(m) /\ m \in Msg /\ status[m] # "none"
  BY <1>2, QueueOrderly, HeadQueued
<1>5. \A x \in Msg : status'[x] = IF x = m THEN "delivering" ELSE status[x] BY <1>1, <1>4 DEF TypeOK
<1>6. Only(m) /\ RowOf(m, {}) BY <1>1, <1>4, <1>5 DEF Only, RowOf, Waits, InHand
<1>7. Hands({})
  <2>1. flight'[p] = m /\ stage'[p] # "none" /\ \A r \in Pane \ {p} : Same(r)
    BY <1>1, <1>4 DEF TypeOK, Same
  <2>2. status'[m] \in InHand BY <1>4, <1>5 DEF InHand
  <2>3. p \in delivering' /\ readReserved'[m] = None BY <1>1
  <2>. QED BY <1>1, <1>2, <1>3, <1>4, <1>6, <2>1, <2>2, <2>3, QueueOrderly, HandsBegin
<1>8. \A x \in Msg : (status[x] = "none" => status'[x] = "none") /\ verdict[x] \subseteq verdict'[x]
  BY <1>1, <1>4, <1>5
<1>. QED BY <1>1, <1>4, <1>6, <1>7, <1>8, StayTurns
\* The finally block of pumpPane.
LEMMA EndIs ==
  ASSUME TypeOK, NEW p \in Pane, EndFlight(p)
  PROVE  Ends(p) /\ \A r \in Pane \ {p} : Same(r)
BY DEF EndFlight, Ends, Same, TypeOK

LEMMA CarriedIs ==
  ASSUME QInv, NEW p \in Pane, stage[p] # "none"
  PROVE  flight[p] \in Msg /\ status[flight[p]] # "none" /\ readReserved[flight[p]] = None
BY DEF QInv, FlightInv, FlightOf

LEMMA RequeueKeeps ==
  ASSUME TypeOK, QInv, NEW p \in Pane, NEW k \in {0, 1}, Requeue(p, k)
  PROVE  Sound'
<1>. DEFINE m == flight[p]
<1>1. /\ stage[p] # "none" /\ EndFlight(p) /\ status' = SetStatus(m, "queued")
      /\ UNCHANGED <<registry, queue, readReserved, remoteInbound, verdict>>
  BY DEF Requeue, history
<1>2. m \in Msg /\ status[m] # "none" /\ readReserved[m] = None BY <1>1, CarriedIs
<1>. HIDE DEF m
<1>3. /\ status'[m] \in {"queued", "evicted"}
      /\ \A x \in Msg \ {m} : status'[x] = status[x]
  <2>1. "queued" \in Status /\ status \in [Msg -> Status] BY DEF Status, TypeOK
  <2>. QED BY <1>1, <1>2, <2>1, SetIs
<1>4. Only(m) /\ RowOf(m, {}) BY <1>1, <1>2, <1>3 DEF Only, RowOf, Waits
<1>5. Hands({}) BY <1>1, <1>4, EndIs, QueueOrderly, HandsEnd DEF m
<1>6. \A x \in Msg : (status[x] = "none" => status'[x] = "none") /\ verdict[x] \subseteq verdict'[x]
  BY <1>1, <1>2, <1>3
<1>. QED BY <1>1, <1>2, <1>4, <1>5, <1>6, StayTurns

LEMMA DeliveredKeeps ==
  ASSUME TypeOK, QInv, NEW p \in Pane, NEW c \in BOOLEAN, Delivered(p, c)
  PROVE  Sound'
<1>. DEFINE m == flight[p]
            v == IF c THEN "ok" ELSE "unconfirmed"
<1>1. /\ stage[p] # "none" /\ EndFlight(p) /\ status' = SetStatus(m, "delivered")
      /\ queue' = Shift(p, queue) /\ AckInbound({m}, v)
      /\ UNCHANGED <<registry, readReserved>>
  BY DEF Delivered
<1>2. m \in Msg /\ status[m] # "none" /\ readReserved[m] = None BY <1>1, CarriedIs
<1>3. Flow(queue, queue', {m}, Nobody) BY <1>1, ShiftFlow
<1>. HIDE DEF m, v
<1>4. /\ status'[m] # "none"
      /\ \A x \in Msg \ {m} : status'[x] = status[x]
  <2>1. "delivered" \in Status /\ status \in [Msg -> Status] BY DEF Status, Settled, TypeOK
  <2>. QED BY <1>1, <1>2, <2>1, SetIs
<1>5. Only(m) BY <1>1, <1>4 DEF Only
<1>6. Hands({m}) BY <1>1, <1>5, EndIs, QueueOrderly, HandsEnd DEF m
<1>. QED BY <1>1, <1>2, <1>3, <1>4, <1>5, <1>6, LeaveTurns

LEMMA FlightFails ==
  ASSUME TypeOK, QInv, NEW p \in Pane, stage[p] # "none", NEW m, m = flight[p], EndFlight(p), NEW limited,
         Fails(<<m>>, queue, limited), queue' = Shift(p, WithNotices(<<m>>, queue, limited)),
         AckInbound({m}, "failed"), UNCHANGED <<registry, readReserved>>
  PROVE  Sound'
<1>1. m \in Msg /\ status[m] # "none" /\ readReserved[m] = None BY CarriedIs
<1>2. Flow(queue, queue', {m}, Bounces(<<m>>, queue, limited)) BY <1>1, FailThenShift
<1>3. Orderly(queue) BY QueueOrderly
<1>4. Only(m)
  <2>1. Typed BY DEF TypeOK, Typed
  <2>. QED BY <1>1, <1>3, <2>1, FailOnly
<1>5. Hands({m}) BY <1>4, EndIs, QueueOrderly, HandsEnd
<1>. QED BY <1>1, <1>2, <1>3, <1>5, FailTurns

LEMMA FlightFailedKeeps ==
  ASSUME TypeOK, QInv, NEW p \in Pane, NEW l, FlightFailed(p, l)
  PROVE  Sound'
<1>1. /\ stage[p] # "none" /\ EndFlight(p) /\ Fails(<<flight[p]>>, queue, l)
      /\ queue' = Shift(p, WithNotices(<<flight[p]>>, queue, l))
      /\ AckInbound({flight[p]}, "failed") /\ UNCHANGED <<registry, readReserved>>
  BY DEF FlightFailed
<1>. QED BY <1>1, FlightFails

LEMMA NotInjectedKeeps ==
  ASSUME TypeOK, QInv, NEW p \in Pane, NEW l, NotInjected(p, l)
  PROVE  Sound'
<1>. DEFINE m == flight[p]
<1>1. /\ stage[p] # "none" /\ EndFlight(p) /\ AckInbound({m}, "failed")
      /\ UNCHANGED <<registry, readReserved>>
      /\ \/ status' = SetStatus(m, "cancelled") /\ queue' = Shift(p, queue)
         \/ status' = status /\ queue' = Shift(p, queue)
         \/ Fails(<<m>>, queue, l) /\ queue' = Shift(p, WithNotices(<<m>>, queue, l))
  BY DEF NotInjected
<1>2. m \in Msg /\ status[m] # "none" /\ readReserved[m] = None BY <1>1, CarriedIs
<1>3. ASSUME queue' = Shift(p, queue), status'[m] # "none", \A x \in Msg \ {m} : status'[x] = status[x]
      PROVE  Sound'
  <2>1. Flow(queue, queue', {m}, Nobody) BY <1>1, <1>3, ShiftFlow
  <2>. HIDE DEF m
  <2>2. Only(m) BY <1>1, <1>3 DEF Only
  <2>3. Hands({m}) BY <1>1, <2>2, EndIs, QueueOrderly, HandsEnd DEF m
  <2>. QED BY <1>1, <1>2, <1>3, <2>1, <2>2, <2>3, LeaveTurns
<1>4. CASE status' = SetStatus(m, "cancelled") /\ queue' = Shift(p, queue)
  <2>1. "cancelled" \in Status /\ status \in [Msg -> Status] BY DEF Status, Settled, TypeOK
  <2>. HIDE DEF m
  <2>2. status'[m] # "none" /\ \A x \in Msg \ {m} : status'[x] = status[x]
    BY <1>2, <1>4, <2>1, SetIs
  <2>. QED BY <1>3, <1>4, <2>2
<1>5. CASE status' = status /\ queue' = Shift(p, queue) BY <1>2, <1>3, <1>5
<1>6. CASE Fails(<<m>>, queue, l) /\ queue' = Shift(p, WithNotices(<<m>>, queue, l))
  BY <1>1, <1>6, FlightFails
<1>. QED BY <1>1, <1>4, <1>5, <1>6

LEMMA DropHeadKeeps ==
  ASSUME TypeOK, QInv, NEW p \in Pane, DropHead(p)
  PROVE  Sound'
<1>. DEFINE m == queue[p][1]
<1>1. /\ queue[p] # << >> /\ p \notin delivering /\ readReserved[m] = None
      /\ queue' = [queue EXCEPT ![p] = Tail(@)] /\ AckInbound({m}, "failed")
      /\ UNCHANGED <<registry, status, readReserved, handover>>
  BY DEF DropHead, HeadFree, row
<1>2. Flow(queue, queue', {m}, Nobody) BY <1>1, QueueOrderly, FlowTail
<1>. HIDE DEF m
<1>3. AtHead(p, m) /\ p \in Open BY <1>1 DEF AtHead, m, QInv, PaneInv
<1>4. m \in Msg /\ status[m] # "none" BY <1>3, QueueOrderly, HeadQueued
<1>5. Only(m) BY <1>1 DEF Only
<1>6. Elsewhere(m) BY <1>1, <1>3, <1>4, QueueOrderly, NotInHand
<1>7. Hands({m}) BY <1>1, <1>4, <1>5, <1>6, HandsSame
<1>. QED BY <1>1, <1>2, <1>4, <1>5, <1>7, LeaveTurns

LEMMA RefuseHeadKeeps ==
  ASSUME TypeOK, QInv, NEW p \in Pane, NEW l, RefuseHead(p, l)
  PROVE  Sound'
<1>. DEFINE m == queue[p][1]
            Q == [queue EXCEPT ![p] = Tail(@)]
<1>1. /\ queue[p] # << >> /\ p \notin delivering /\ readReserved[m] = None
      /\ Fails(<<m>>, Q, l) /\ queue' = WithNotices(<<m>>, Q, l) /\ AckInbound({m}, "failed")
      /\ UNCHANGED <<registry, readReserved, handover>>
  BY DEF RefuseHead, HeadFree
<1>2. Flow(queue, Q, {m}, Nobody) BY <1>1, QueueOrderly, FlowTail
<1>. HIDE DEF m, Q
<1>3. AtHead(p, m) /\ p \in Open BY <1>1 DEF AtHead, m, QInv, PaneInv
<1>4. m \in Msg /\ status[m] # "none" BY <1>3, QueueOrderly, HeadQueued
<1>5. Orderly(Q) BY <1>2 DEF Flow
<1>6. Only(m)
  <2>1. Typed BY DEF TypeOK, Typed
  <2>. QED BY <1>1, <1>4, <1>5, <2>1, FailOnly
<1>7. Elsewhere(m) BY <1>1, <1>3, <1>4, QueueOrderly, NotInHand
<1>8. Hands({m}) BY <1>1, <1>4, <1>6, <1>7, HandsSame
<1>9. Flow(queue, queue', {m}, Bounces(<<m>>, Q, l)) BY <1>1, <1>2, <1>4, FailFlow
<1>. QED BY <1>1, <1>4, <1>5, <1>8, <1>9, FailTurns
LEMMA HookDrainKeeps ==
  ASSUME TypeOK, QInv, NEW p \in Pane, NEW ok \in BOOLEAN, SettleHookDrain(p, ok)
  PROVE  Sound'
<1>. DEFINE m == queue[p][1]
            holds == p \in Open /\ queue[p] # << >> /\ status[m] = "delivering" /\ route[m] = "hook"
<1>1. /\ stage[p] # "none"
      /\ delivering' = delivering \ {p} /\ flight' = [flight EXCEPT ![p] = None]
      /\ stage' = [stage EXCEPT ![p] = "none"]
      /\ UNCHANGED <<registry, readReserved>>
      /\ \/ /\ holds /\ queue' = [queue EXCEPT ![p] = Tail(@)]
            /\ status' = [status EXCEPT ![m] = "delivered"] /\ AckInbound({m}, "ok")
         \/ /\ holds /\ status' = [status EXCEPT ![m] = "queued"]
            /\ UNCHANGED <<queue, remoteInbound, verdict>>
         \/ UNCHANGED <<status, queue, remoteInbound, verdict>>
  BY DEF SettleHookDrain, HookAnswer, row
<1>2. Ends(p) /\ \A r \in Pane \ {p} : Same(r) BY <1>1 DEF Ends, Same, TypeOK
<1>3. /\ flight[p] \in Msg /\ status[flight[p]] # "none" /\ readReserved[flight[p]] = None
      /\ holds => m = flight[p]
  <2>1. FlightOf(p) BY <1>1 DEF QInv, FlightInv
  <2>. QED BY <2>1 DEF FlightOf, AtHead
<1>4. CASE /\ holds /\ queue' = [queue EXCEPT ![p] = Tail(@)]
           /\ status' = [status EXCEPT ![m] = "delivered"] /\ AckInbound({m}, "ok")
  <2>1. Flow(queue, queue', {m}, Nobody) BY <1>4, QueueOrderly, FlowTail
  <2>2. m = flight[p] /\ m \in Msg /\ AckInbound({m}, "ok") BY <1>3, <1>4
  <2>3. \A x \in Msg : status'[x] = IF x = m THEN "delivered" ELSE status[x] BY <1>4 DEF TypeOK
  <2>. HIDE DEF m, holds
  <2>4. Only(m) BY <1>1, <2>3 DEF Only
  <2>5. Hands({m}) BY <1>1, <1>2, <2>2, <2>4, QueueOrderly, HandsEnd
  <2>. QED BY <1>1, <1>3, <2>1, <2>2, <2>3, <2>4, <2>5, LeaveTurns
<1>5. ASSUME UNCHANGED <<queue, remoteInbound, verdict>>,
             \A x \in Msg : status'[x] = status[x] \/ (x = flight[p] /\ status'[x] = "queued")
      PROVE  Sound'
  <2>. DEFINE k == flight[p]
  <2>. HIDE DEF m, holds
  <2>1. Only(k) BY <1>1, <1>5 DEF Only
  <2>2. Hands({}) BY <1>1, <1>2, <2>1, QueueOrderly, HandsEnd
  <2>3. RowOf(k, {})
    <3>1. Queued(k) => status[k] \in Waits BY <1>3 DEF QInv, WaitInv
    <3>2. status'[k] = status[k] \/ status'[k] = "queued" BY <1>3, <1>5
    <3>. QED BY <1>1, <1>3, <3>1, <3>2 DEF RowOf, Waits
  <2>4. \A x \in Msg : (status[x] = "none" => status'[x] = "none") /\ verdict[x] \subseteq verdict'[x]
    BY <1>3, <1>5
  <2>5. UNCHANGED <<registry, queue, remoteInbound>> BY <1>1, <1>5
  <2>6. k \in Msg BY <1>3
  <2>. HIDE DEF k
  <2>. QED BY <2>1, <2>2, <2>3, <2>4, <2>5, <2>6, StayTurns
<1>6. CASE /\ holds /\ status' = [status EXCEPT ![m] = "queued"]
           /\ UNCHANGED <<queue, remoteInbound, verdict>>
  <2>1. \A x \in Msg : status'[x] = status[x] \/ (x = flight[p] /\ status'[x] = "queued")
    BY <1>3, <1>6 DEF TypeOK
  <2>. QED BY <1>5, <1>6, <2>1
<1>7. CASE UNCHANGED <<status, queue, remoteInbound, verdict>> BY <1>5, <1>7
<1>. QED BY <1>1, <1>4, <1>6, <1>7

\* A reservation is made, given back or forgotten.
LEMMA ReservationTurns ==
  ASSUME TypeOK, QInv, NEW m \in Msg, Only(m), UNCHANGED <<registry, queue, remoteInbound, verdict, handover>>,
         Queued(m), Elsewhere(m), status'[m] \in Waits, readReserved'[m] # None => status'[m] \in InHand,
         \A x \in Msg \ {m} : status'[x] = status[x]
  PROVE  Sound'
<1>1. RowOf(m, {}) BY DEF RowOf, Waits
<1>2. Hands({}) BY HandsSame
<1>3. status[m] # "none" BY DEF QInv, WaitInv, Waits
<1>4. \A x \in Msg : (status[x] = "none" => status'[x] = "none") /\ verdict[x] \subseteq verdict'[x]
  BY <1>3
<1>. QED BY <1>1, <1>2, <1>4, StayTurns

LEMMA ReserveKeeps ==
  ASSUME TypeOK, QInv, NEW p \in Pane, NEW m \in Msg, ReserveIncoming(p, m)
  PROVE  Sound'
<1>1. /\ status[m] = "queued" /\ m \in Range(queue[p])
      /\ readReserved' = [readReserved EXCEPT ![m] = p] /\ status' = [status EXCEPT ![m] = "delivering"]
      /\ UNCHANGED <<registry, queue, remoteInbound, verdict, handover>>
  BY DEF ReserveIncoming, history
<1>2. Queued(m) BY <1>1 DEF Queued
<1>3. Elsewhere(m) BY <1>1, <1>2, QueueOrderly, NotInHand
<1>4. /\ \A x \in Msg \ {m} : status'[x] = status[x] /\ readReserved'[x] = readReserved[x]
      /\ status'[m] = "delivering"
  BY <1>1 DEF TypeOK
<1>5. Only(m) /\ status'[m] \in Waits /\ status'[m] \in InHand BY <1>4 DEF Only, Waits, InHand
<1>. QED BY <1>1, <1>2, <1>3, <1>4, <1>5, ReservationTurns

LEMMA ReservedIs ==
  ASSUME TypeOK, QInv, NEW m \in Msg, readReserved[m] # None
  PROVE  Queued(m) /\ status[m] \in InHand /\ Elsewhere(m) /\ status[m] # "none"
BY QueueOrderly, NotInHand DEF QInv, WaitInv, InHand

LEMMA ReleasedKeeps ==
  ASSUME TypeOK, QInv, NEW m \in Msg, readReserved[m] # None,
         \/ Released(m)
         \/ readReserved' = [readReserved EXCEPT ![m] = None] /\ UNCHANGED status,
         UNCHANGED <<registry, queue, remoteInbound, verdict, handover>>
  PROVE  Sound'
<1>1. Queued(m) /\ status[m] \in InHand /\ Elsewhere(m) BY ReservedIs
<1>2. /\ \A x \in Msg \ {m} : status'[x] = status[x] /\ readReserved'[x] = readReserved[x]
      /\ status'[m] \in {"queued", status[m]} /\ readReserved'[m] = None
  BY DEF TypeOK, Released
<1>3. Only(m) /\ status'[m] \in Waits BY <1>1, <1>2 DEF Only, Waits, InHand
<1>. QED BY <1>1, <1>2, <1>3, ReservationTurns

LEMMA ExpireReadKeeps ==
  ASSUME TypeOK, QInv, NEW m \in Msg, ExpireReadReservation(m)
  PROVE  Sound'
BY ReleasedKeeps DEF ExpireReadReservation, row, history

LEMMA SettleReadKeeps ==
  ASSUME TypeOK, QInv, NEW p \in Pane, NEW m \in Msg, NEW ok \in BOOLEAN, SettleIncomingRead(p, m, ok)
  PROVE  Sound'
<1>1. /\ UNCHANGED <<registry, handover>>
      /\ \/ /\ readReserved[m] = p
            /\ queue' = [s \in Pane |-> Without(queue[s], m)]
            /\ readReserved' = [readReserved EXCEPT ![m] = None]
            /\ status' = [status EXCEPT ![m] = "delivered"] /\ AckInbound({m}, "ok")
         \/ readReserved[m] = p /\ Released(m) /\ UNCHANGED <<queue, remoteInbound, verdict>>
         \/ UNCHANGED <<status, queue, readReserved, remoteInbound, verdict>>
  BY DEF SettleIncomingRead, row
<1>2. p # None BY QueueConstants
<1>3. CASE /\ readReserved[m] = p
           /\ queue' = [s \in Pane |-> Without(queue[s], m)]
           /\ readReserved' = [readReserved EXCEPT ![m] = None]
           /\ status' = [status EXCEPT ![m] = "delivered"] /\ AckInbound({m}, "ok")
  <2>1. Queued(m) /\ Elsewhere(m) /\ status[m] # "none" BY <1>2, <1>3, ReservedIs
  <2>2. /\ \A x \in Msg \ {m} : status'[x] = status[x] /\ readReserved'[x] = readReserved[x]
        /\ status'[m] # "none" /\ readReserved'[m] = None
    BY <1>3 DEF TypeOK
  <2>3. Flow(queue, queue', {m}, Nobody) BY <1>3, QueueOrderly, FlowWithout
  <2>4. Only(m) BY <2>2 DEF Only
  <2>5. Hands({m}) BY <1>1, <2>1, <2>4, HandsSame
  <2>. QED BY <1>1, <1>3, <2>1, <2>2, <2>3, <2>4, <2>5, LeaveTurns
<1>4. CASE readReserved[m] = p /\ Released(m) /\ UNCHANGED <<queue, remoteInbound, verdict>>
  BY <1>1, <1>2, <1>4, ReleasedKeeps
<1>5. CASE UNCHANGED <<status, queue, readReserved, remoteInbound, verdict>>
  BY <1>1, <1>5, QuietTurns DEF handover
<1>. QED BY <1>1, <1>3, <1>4, <1>5

LEMMA CancelQueuedKeeps ==
  ASSUME TypeOK, QInv, NEW m \in Msg, CancelQueued(m)
  PROVE  Sound'
<1>1. /\ status[m] = "queued" /\ Queued(m) /\ queue' = [s \in Pane |-> Without(queue[s], m)]
      /\ status' = [status EXCEPT ![m] = "cancelled"] /\ AckInbound({m}, "failed")
      /\ UNCHANGED <<registry, readReserved, handover>>
  BY DEF CancelQueued, Unqueue
<1>2. Elsewhere(m) BY <1>1, QueueOrderly, NotInHand
<1>3. readReserved[m] = None BY <1>1 DEF QInv, WaitInv, InHand
<1>4. /\ \A x \in Msg \ {m} : status'[x] = status[x]
      /\ status'[m] # "none"
  BY <1>1 DEF TypeOK
<1>5. Flow(queue, queue', {m}, Nobody) BY <1>1, QueueOrderly, FlowWithout
<1>6. Only(m) BY <1>1, <1>4 DEF Only
<1>7. Hands({m}) BY <1>1, <1>2, <1>6, HandsSame
<1>. QED BY <1>1, <1>3, <1>4, <1>5, <1>6, <1>7, LeaveTurns

LEMMA ExpireTerminalKeeps ==
  ASSUME TypeOK, QInv, NEW p \in Pane, NEW m \in Msg, NEW l, ExpireTerminal(p, m, l)
  PROVE  Sound'
<1>. DEFINE Q == [queue EXCEPT ![p] = Without(@, m)]
<1>1. /\ status[m] = "queued" /\ m \in Range(queue[p])
      /\ Fails(<<m>>, Q, l) /\ queue' = WithNotices(<<m>>, Q, l) /\ AckInbound({m}, "failed")
      /\ UNCHANGED <<registry, readReserved, handover>>
  BY DEF ExpireTerminal, StaleInTerminal
<1>2. Queued(m) BY <1>1 DEF Queued
<1>3. Elsewhere(m) BY <1>1, <1>2, QueueOrderly, NotInHand
<1>4. readReserved[m] = None BY <1>1 DEF QInv, WaitInv, InHand
<1>5. Flow(queue, Q, {m}, Nobody) BY <1>1, QueueOrderly, FlowWithoutHere
<1>. HIDE DEF Q
<1>6. Orderly(Q) BY <1>5 DEF Flow
<1>7. Only(m)
  <2>1. Typed BY DEF TypeOK, Typed
  <2>. QED BY <1>1, <1>6, <2>1, FailOnly
<1>8. Hands({m}) BY <1>1, <1>3, <1>7, HandsSame
<1>9. Flow(queue, queue', {m}, Bounces(<<m>>, Q, l)) BY <1>1, <1>5, FailFlow
<1>. QED BY <1>1, <1>4, <1>6, <1>8, <1>9, FailTurns
LEMMA StartKeeps ==
  ASSUME TypeOK, QInv, NEW p \in Pane, StartPush(p) \/ StartTyping(p) \/ DrainForHook(p)
  PROVE  Sound'
<1>1. {"push", "typing", "hook"} \subseteq Stage \ {"none"} BY DEF Stage
<1>2. \E s \in Stage \ {"none"} : Take(p, s) BY <1>1 DEF StartPush, StartTyping, DrainForHook
<1>. QED BY <1>2, TakeKeeps

LEMMA QuietKeeps ==
  ASSUME TypeOK, QInv, NEW p \in Pane, NEW m \in Msg,
         Lands(p) \/ PushDeclined(p) \/ ConfirmDelivery(m) \/ LoseRead(p, m) \/ CancelTyping(p)
  PROVE  Sound'
<1>1. CASE Lands(p)
  <2>1. \A r \in Pane : stage'[r] = "none" <=> stage[r] = "none" BY <1>1 DEF Lands, TypeOK
  <2>. QED BY <1>1, <2>1, QuietTurns DEF Lands, row, maps
<1>2. CASE PushDeclined(p)
  <2>1. \A r \in Pane : stage'[r] = "none" <=> stage[r] = "none" BY <1>2 DEF PushDeclined, TypeOK
  <2>. QED BY <1>2, <2>1, QuietTurns DEF PushDeclined, maps, history
<1>3. CASE ConfirmDelivery(m)
  <2>1. \A x \in Msg : verdict[x] \subseteq verdict'[x] BY <1>3 DEF ConfirmDelivery, TypeOK
  <2>. QED BY <1>3, <2>1, QuietTurns DEF ConfirmDelivery, row, handover
<1>4. CASE LoseRead(p, m) BY <1>4, QuietTurns DEF LoseRead, row, maps, handover
<1>5. CASE CancelTyping(p) BY <1>5, QuietTurns DEF CancelTyping, row, handover, history
<1>. QED BY <1>1, <1>2, <1>3, <1>4, <1>5

LEMMA StillKeeps == ASSUME TypeOK, QInv, Pause \/ UNCHANGED vars PROVE Sound'
<1>1. CASE Pause BY <1>1, QuietTurns DEF Pause, row, maps, handover, history
<1>2. CASE UNCHANGED vars BY <1>2, QuietTurns DEF vars, row, maps, handover, history
<1>. QED BY <1>1, <1>2
-----------------------------------------------------------------------------
(* Sending.                                                                *)

NewAt(t, m) == [s \in Pane |-> IF s = t THEN {m} ELSE {}]

LEMMA FlowAppend ==
  ASSUME TypeOK, QInv, NEW t \in Pane, NEW m \in Msg, status[m] = "none", Len(queue[t]) < QueueCap
  PROVE  Flow(queue, [queue EXCEPT ![t] = Append(@, m)], {}, NewAt(t, m))
<1>. DEFINE A == [s \in Pane |-> IF s = t THEN <<m>> ELSE << >>]
<1>1. /\ Orderly(queue) /\ queue \in [Pane -> Seq(Msg)]
      /\ \A s \in Pane : m \notin Range(queue[s])
  BY QueueOrderly
<1>2. /\ <<m>> \in Seq(Msg) /\ Len(<<m>>) = 1 /\ Distinct(<<m>>) /\ Range(<<m>>) = {m} BY OneIs
<1>3. << >> \in Seq(Msg) /\ Len(<< >>) = 0 /\ Distinct(<< >>) /\ Range(<< >>) = {} BY DEF Distinct, Range
<1>4. ASSUME NEW s \in Pane
      PROVE  /\ A[s] \in Seq(Msg) /\ Distinct(A[s]) /\ Range(A[s]) \cap Range(queue[s]) = {}
             /\ Len(queue[s]) + Len(A[s]) <= QueueCap /\ Range(A[s]) = NewAt(t, m)[s]
             /\ queue[s] \o A[s] = [queue EXCEPT ![t] = Append(@, m)][s]
  <2>1. Len(queue[s]) \in Nat /\ Len(queue[s]) <= QueueCap /\ QueueCap \in Nat /\ queue[s] \in Seq(Msg)
    BY <1>1, QueueConstants DEF Orderly
  <2>2. CASE s = t
    <3>1. A[s] = <<m>> BY <2>2
    <3>2. queue[s] \o <<m>> = Append(queue[s], m) BY <2>1
    <3>3. Len(queue[s]) + 1 <= QueueCap BY <2>1, <2>2
    <3>. QED BY <1>1, <1>2, <2>2, <3>1, <3>2, <3>3 DEF NewAt
  <2>3. CASE s # t
    <3>1. A[s] = << >> BY <2>3
    <3>2. queue[s] \o << >> = queue[s] BY <2>1
    <3>. QED BY <1>1, <1>3, <2>1, <2>3, <3>1, <3>2 DEF NewAt
  <2>. QED BY <2>2, <2>3
<1>. HIDE DEF A
<1>5. Flow(queue, [s \in Pane |-> queue[s] \o A[s]], {}, [s \in Pane |-> Range(A[s])])
  <2>1. \A s \in Pane : /\ A[s] \in Seq(Msg) /\ Distinct(A[s]) /\ Range(A[s]) \cap Range(queue[s]) = {}
                        /\ Len(queue[s]) + Len(A[s]) <= QueueCap
    BY <1>4
  <2>. QED BY <1>1, <2>1, FlowJoin
<1>6. [s \in Pane |-> queue[s] \o A[s]] = [queue EXCEPT ![t] = Append(@, m)] BY <1>1, <1>4
<1>7. [s \in Pane |-> Range(A[s])] = NewAt(t, m) BY <1>4 DEF NewAt
<1>. QED BY <1>5, <1>6, <1>7

\* A message that was never sent is in nobody's hands.
LEMMA UnsentIs ==
  ASSUME TypeOK, QInv, NEW m \in Msg, status[m] = "none"
  PROVE  ~Queued(m) /\ readReserved[m] = None /\ Elsewhere(m)
BY QueueOrderly, NotInHand DEF QInv, WaitInv, Waits, InHand
\* A message gets its first row, and joins the queue of one pane or of none.
LEMMA FirstRowTurns ==
  ASSUME TypeOK, QInv, NEW m \in Msg, status[m] = "none", NEW s \in Status \ {"none"},
         status' = [status EXCEPT ![m] = s], UNCHANGED <<registry, readReserved, handover>>,
         NEW New, Flow(queue, queue', {}, New), Reports({}, New),
         \/ New = Nobody
         \/ \E t \in Open \cap Pane : New = NewAt(t, m) /\ s = "queued"
  PROVE  Sound'
<1>1. ~Queued(m) /\ readReserved[m] = None /\ Elsewhere(m) BY UnsentIs
<1>2. status'[m] = s /\ \A x \in Msg \ {m} : status'[x] = status[x] BY DEF TypeOK
<1>3. Only(m) BY <1>2 DEF Only
<1>4. RowOf(m, {}) BY <1>1 DEF RowOf
<1>5. Rows({}) BY <1>3, <1>4, RowsOf
<1>6. Hands({}) BY <1>1, <1>3, HandsSame
<1>7. Anew(New)
  <2>1. CASE New = Nobody BY <2>1, NobodyJoins
  <2>2. ASSUME NEW t \in Open \cap Pane, New = NewAt(t, m), s = "queued" PROVE Anew(New)
    BY <1>2, <2>2 DEF Anew, NewAt
  <2>. QED BY <2>1, <2>2
<1>8. Turn({}, New) BY <1>5, <1>6, <1>7 DEF Turn
<1>. QED BY <1>8, QueueOrderly, TurnKeeps

LEMMA AdmitsIs ==
  ASSUME TypeOK, NEW m \in Post, NEW over, Admits(m, over)
  PROVE  holder[Addressee[m]] \in Open \cap Pane /\ Len(queue[holder[Addressee[m]]]) < QueueCap
<1>1. Addressee[m] \in Name BY QueueConstants
<1>. QED BY <1>1 DEF Admits, Open, TypeOK

LEMMA SendKeeps ==
  ASSUME TypeOK, QInv, NEW m \in Post, NEW over, NEW l, Send(m, over, l)
  PROVE  Sound'
<1>. DEFINE t == holder[Addressee[m]]
<1>1. /\ m \in Post \ Inbound /\ status[m] = "none"
      /\ UNCHANGED <<registry, readReserved, remoteInbound, verdict, handover>>
      /\ \/ Fails(<<m>>, queue, l) /\ queue' = WithNotices(<<m>>, queue, l)
         \/ /\ Admits(m, over) /\ status' = [status EXCEPT ![m] = "queued"]
            /\ queue' = [queue EXCEPT ![t] = Append(@, m)]
         \/ status' = [status EXCEPT ![m] = "delivered"] /\ UNCHANGED queue
  BY DEF Send
<1>2. m \in Msg /\ Inbound \subseteq Msg BY QueueConstants DEF Msg
<1>3. ~Queued(m) /\ readReserved[m] = None /\ Elsewhere(m) BY <1>1, <1>2, UnsentIs
<1>4. Orderly(queue) /\ Typed /\ "queued" \in Status \ {"none"} /\ "delivered" \in Status \ {"none"}
  BY QueueOrderly DEF TypeOK, Typed, Status, Settled
<1>. HIDE DEF t
<1>5. CASE Fails(<<m>>, queue, l) /\ queue' = WithNotices(<<m>>, queue, l)
  <2>. DEFINE F == <<m>>
              B == Bounces(F, queue, l)
  <2>1. F \in Seq(Msg) /\ Distinct(F) BY <1>2, OneIs
  <2>2. \A s \in Pane : \A x \in Range(queue[s]) : status[x] # "none" BY QueueOrderly
  <2>3. Flow(queue, queue', {}, B)
    <3>. HIDE DEF F
    <3>. QED BY <1>4, <1>5, <2>1, <2>2, FlowNotices DEF Bounces, F
  <2>. HIDE DEF B
  <2>4. \A s \in Pane : m \notin Range(queue[s]) /\ queue[s] \in Seq(Msg)
    BY <1>3, QueueOrderly DEF Queued
  <2>5. Flow(queue, queue', {m}, B) BY <2>3, <2>4, FlowAbsent
  <2>6. AckInbound({m}, "failed")
    <3>1. m \notin remoteInbound BY <1>1 DEF TypeOK
    <3>2. verdict = [x \in Msg |-> verdict[x]] BY DEF TypeOK
    <3>. QED BY <1>1, <3>1, <3>2 DEF AckInbound
  <2>7. Only(m) BY <1>1, <1>2, <1>4, <1>5, FailOnly
  <2>8. Hands({m}) BY <1>1, <1>2, <1>3, <2>7, HandsSame
  <2>. QED BY <1>1, <1>2, <1>3, <1>4, <1>5, <2>5, <2>6, <2>8, FailTurns DEF B
<1>6. CASE /\ Admits(m, over) /\ status' = [status EXCEPT ![m] = "queued"]
           /\ queue' = [queue EXCEPT ![t] = Append(@, m)]
  <2>1. t \in Open \cap Pane /\ Len(queue[t]) < QueueCap BY <1>6, AdmitsIs DEF t
  <2>2. Flow(queue, queue', {}, NewAt(t, m)) BY <1>1, <1>2, <1>6, <2>1, FlowAppend
  <2>3. \A x \in Inbound : ~Joins(x, NewAt(t, m)) BY <1>1 DEF Joins, NewAt
  <2>4. \A x \in Inbound : status'[x] = status[x] BY <1>1, <1>2, <1>6 DEF TypeOK
  <2>5. Reports({}, NewAt(t, m)) BY <1>1, <2>3, <2>4, ReportsNone
  <2>. QED BY <1>1, <1>2, <1>4, <1>6, <2>1, <2>2, <2>5, FirstRowTurns
<1>7. CASE status' = [status EXCEPT ![m] = "delivered"] /\ UNCHANGED queue
  <2>1. Flow(queue, queue', {}, Nobody) BY <1>4, <1>7, FlowNone
  <2>2. \A x \in Inbound : status'[x] = status[x] BY <1>1, <1>2, <1>7 DEF TypeOK
  <2>3. Reports({}, Nobody) BY <1>1, <2>2, NobodyJoins, ReportsNone
  <2>. QED BY <1>1, <1>2, <1>4, <1>7, <2>1, <2>3, FirstRowTurns
<1>. QED BY <1>1, <1>5, <1>6, <1>7

LEMMA AcceptKeeps ==
  ASSUME TypeOK, QInv, NEW m \in Post, NEW over, AcceptRemote(m, over)
  PROVE  Sound'
<1>. DEFINE t == holder[Addressee[m]]
<1>1. /\ m \in Inbound /\ status[m] = "none" /\ UNCHANGED <<registry, readReserved, handover>>
      /\ \/ /\ status' = [status EXCEPT ![m] = "failed"]
            /\ verdict' = [verdict EXCEPT ![m] = @ \cup {"failed"}]
            /\ UNCHANGED <<queue, remoteInbound>>
         \/ /\ Admits(m, over) /\ status' = [status EXCEPT ![m] = "queued"]
            /\ queue' = [queue EXCEPT ![t] = Append(@, m)]
            /\ remoteInbound' = remoteInbound \cup {m} /\ UNCHANGED verdict
  BY DEF AcceptRemote, Fresh
<1>2. m \in Msg /\ Inbound \subseteq Msg BY QueueConstants DEF Msg
<1>3. "queued" \in Status \ {"none"} /\ "failed" \in Status \ {"none"} BY DEF Status, Settled
<1>. HIDE DEF t
<1>4. CASE /\ status' = [status EXCEPT ![m] = "failed"]
           /\ verdict' = [verdict EXCEPT ![m] = @ \cup {"failed"}]
           /\ UNCHANGED <<queue, remoteInbound>>
  <2>1. Flow(queue, queue', {}, Nobody) BY <1>4, QueueOrderly, FlowNone
  <2>2. /\ \A x \in Inbound \ {m} : status'[x] = status[x] /\ verdict'[x] = verdict[x]
        /\ verdict'[m] # {}
    BY <1>1, <1>2, <1>4 DEF TypeOK
  <2>3. Reports({}, Nobody) BY <1>4, <2>2 DEF Reports, Nobody
  <2>. QED BY <1>1, <1>2, <1>3, <1>4, <2>1, <2>3, FirstRowTurns
<1>5. CASE /\ Admits(m, over) /\ status' = [status EXCEPT ![m] = "queued"]
           /\ queue' = [queue EXCEPT ![t] = Append(@, m)]
           /\ remoteInbound' = remoteInbound \cup {m} /\ UNCHANGED verdict
  <2>1. t \in Open \cap Pane /\ Len(queue[t]) < QueueCap BY <1>5, AdmitsIs DEF t
  <2>2. Flow(queue, queue', {}, NewAt(t, m)) BY <1>1, <1>2, <1>5, <2>1, FlowAppend
  <2>3. \A x \in Inbound \ {m} : status'[x] = status[x] BY <1>1, <1>2, <1>5 DEF TypeOK
  <2>4. Reports({}, NewAt(t, m)) BY <1>5, <2>1, <2>3 DEF Reports, NewAt
  <2>. QED BY <1>1, <1>2, <1>3, <1>5, <2>1, <2>2, <2>4, FirstRowTurns
<1>. QED BY <1>1, <1>4, <1>5
-----------------------------------------------------------------------------
(* Panes that open, are renamed, close or are replaced.                    *)

LEMMA RegistryTurns ==
  ASSUME TypeOK, QInv, UNCHANGED <<queue, status, readReserved, remoteInbound, verdict, handover>>,
         Open \subseteq Open', seen \subseteq seen', \A s \in Open' \ Open : s \in seen' \ seen
  PROVE  Sound'
<1>1. UNCHANGED <<queue, status, readReserved, remoteInbound, verdict, delivering, flight, stage>>
  BY DEF handover
<1>2. PaneInv' BY <1>1 DEF QInv, PaneInv
<1>3. FlightInv'
  <2>1. ASSUME NEW p \in Pane, stage[p] # "none"
        PROVE  FlightOf(p) /\ (p \in Open' <=> p \in Open)
    BY <2>1 DEF QInv, FlightInv, PaneInv
  <2>. QED BY <1>1, <2>1 DEF FlightInv, FlightOf, AtHead, Queued
<1>4. (WaitInv /\ QueuedOnce /\ InboundReported)'
  BY <1>1 DEF QInv, WaitInv, QueuedOnce, InboundReported, Queued
<1>5. Orderly(queue') BY <1>1, QueueOrderly
<1>. QED BY <1>2, <1>3, <1>4, <1>5 DEF QInv, Sound

LEMMA RegisterKeeps ==
  ASSUME TypeOK, QInv, NEW p \in Pane, NEW n \in Name, Register(p, n)
  PROVE  Sound'
<1>1. /\ p \notin seen /\ holder[n] = None /\ holder' = [holder EXCEPT ![n] = p] /\ seen' = seen \cup {p}
      /\ UNCHANGED <<queue, status, readReserved, remoteInbound, verdict, handover>>
  BY DEF Register, row, maps, history
<1>2. \A k \in Name : holder'[k] = IF k = n THEN p ELSE holder[k] BY <1>1 DEF TypeOK
<1>3. Open' = Open \cup {p}
  <2>1. p # None BY QueueConstants
  <2>. QED BY <1>1, <1>2, <2>1 DEF Open
<1>. QED BY <1>1, <1>3, RegistryTurns

LEMMA RenameKeeps ==
  ASSUME TypeOK, QInv, NEW p \in Pane, NEW n \in Name, Rename(p, n)
  PROVE  Sound'
<1>1. /\ p \in Open /\ holder[n] = None /\ seen' = seen
      /\ holder' = [k \in Name |-> IF k = n THEN p ELSE IF holder[k] = p THEN None ELSE holder[k]]
      /\ UNCHANGED <<queue, status, readReserved, remoteInbound, verdict, handover>>
  BY DEF Rename, row, maps, history
<1>2. Open' = Open
  <2>1. \A k \in Name : holder'[k] = IF k = n THEN p ELSE IF holder[k] = p THEN None ELSE holder[k]
    BY <1>1
  <2>2. Open' = {holder'[k] : k \in Name} \ {None} BY DEF Open
  <2>. QED BY <1>1, <2>1, <2>2 DEF Open
<1>. QED BY <1>1, <1>2, RegistryTurns

\* The queues Q, once what is kept of the one of p is left to p and the rest of
\* it is moved to a fresh pane.
Emptied(p, Q) ==
    /\ Orderly(Q) /\ Apart(Q)
    /\ \A m : Queued(m) <=> \E s \in Pane : m \in Range(Q[s])
    /\ \A s \in Pane \ {p} : s \in Open \/ s \notin Open' => Q[s] = queue[s]
    /\ stage[p] # "none" => flight[p] \in Range(Q[p])

Closed(p) ==
    /\ p \notin Open' /\ Open \ {p} \subseteq Open'
    /\ \A s \in Open' \ Open : s \in seen' \ seen
    /\ seen \subseteq seen'

\* What closing p does to one message: those left in its queue leave, as failed;
\* notices join the queues that stay.
Swept(p, Q, New) ==
    /\ Orderly(queue')
    /\ queue'[p] = << >>
    /\ \A s \in Pane \ {p} :
          /\ Range(queue'[s]) = Range(Q[s]) \cup New[s]
          /\ Q[s] # << >> => queue'[s] # << >> /\ queue'[s][1] = Q[s][1]
    /\ \A s \in Pane : \A n \in New[s] :
          /\ s \in Open /\ n \in Notice /\ status[n] = "none"
          /\ s # p => status'[n] = "queued"
          /\ \A r \in Pane : r # s => n \notin New[r]
    /\ \A m \in Msg : /\ status[m] # "none" => status'[m] # "none"
                      /\ status[m] # "none" /\ m \notin Range(Q[p]) => status'[m] = status[m]
    /\ \A m \in Inbound : m \notin Range(Q[p]) => status'[m] = status[m]

LEMMA ReleaseSweeps ==
  ASSUME TypeOK, QInv, NEW p \in Pane, NEW Q, Emptied(p, Q), NEW l, Release(p, Q, l)
  PROVE  Swept(p, Q, Bounces(Q[p], Q, l))
<1>. DEFINE F == Q[p]
            S == FailedStatus(F, Q, l)
            W == WithNotices(F, Q, l)
            B == Bounces(F, Q, l)
<1>1. Typed /\ Orderly(Q) BY DEF TypeOK, Typed, Emptied
<1>2. F \in Seq(Msg) /\ Distinct(F) BY <1>1 DEF Orderly
<1>3. \A s \in Pane : \A m \in Range(Q[s]) : Queued(m) /\ m \in Msg /\ status[m] # "none"
  <2>1. SUFFICES ASSUME NEW s \in Pane, NEW m \in Range(Q[s])
                 PROVE  Queued(m) /\ m \in Msg /\ status[m] # "none"
    OBVIOUS
  <2>2. Queued(m) BY DEF Emptied
  <2>3. \E r \in Pane : m \in Range(queue[r]) BY <2>2 DEF Queued
  <2>. QED BY <2>2, <2>3, QueueOrderly
<1>4. /\ S \in [Msg -> Status]
      /\ \A m \in Msg : status[m] # "none" => S[m] # "none"
      /\ \A m \in Msg \ Range(F) : status[m] # "none" => S[m] = status[m]
      /\ \A m \in Inbound \ Range(F) : S[m] = status[m]
      /\ \A s \in Pane : \A n \in B[s] :
            /\ s \in Open /\ n \in Notice /\ status[n] = "none" /\ S[n] = "queued" /\ n \notin Range(F)
            /\ \A r \in Pane : r # s => n \notin B[r]
  <2>1. \A m \in Range(F) : m \in Post \/ status[m] # "none" BY <1>3
  <2>. HIDE DEF F
  <2>. QED BY <1>1, <1>2, <2>1, FailedRows
<1>5. Flow(Q, W, {}, B)
  <2>. HIDE DEF F
  <2>. QED BY <1>1, <1>2, <1>3, FlowNotices DEF Bounces
<1>6. /\ status' = [m \in Msg |-> IF m \in B[p] THEN "failed" ELSE S[m]]
      /\ queue' = [W EXCEPT ![p] = << >>]
  BY DEF Release, Bounces
<1>. HIDE DEF F, S, W, B
<1>7. W \in [Pane -> Seq(Msg)] BY <1>5 DEF Flow, Orderly
<1>8. queue'[p] = << >> /\ \A s \in Pane \ {p} : queue'[s] = W[s] BY <1>6, <1>7
<1>9. Orderly(queue')
  <2>1. << >> \in Seq(Msg) /\ Len(<< >>) <= QueueCap /\ Distinct(<< >>) BY QueueConstants DEF Distinct
  <2>2. \A s \in Pane : queue'[s] \in Seq(Msg) /\ Len(queue'[s]) <= QueueCap /\ Distinct(queue'[s])
    <3>1. \A s \in Pane : W[s] \in Seq(Msg) /\ Len(W[s]) <= QueueCap /\ Distinct(W[s])
      BY <1>5 DEF Flow, Orderly
    <3>. QED BY <1>8, <2>1, <3>1, Zenon
  <2>3. queue' = [s \in Pane |-> queue'[s]] BY <1>6, <1>7
  <2>. QED BY <2>2, <2>3 DEF Orderly
<1>10. \A s \in Pane \ {p} :
          /\ Range(queue'[s]) = Range(Q[s]) \cup B[s]
          /\ Q[s] # << >> => queue'[s] # << >> /\ queue'[s][1] = Q[s][1]
  BY <1>5, <1>8 DEF Flow
<1>11. \A m \in Msg : status'[m] = IF m \in B[p] THEN "failed" ELSE S[m] BY <1>6
<1>12. \A s \in Pane : \A n \in B[s] : n \in Msg /\ (s # p => status'[n] = "queued")
  BY <1>4, <1>11 DEF Msg
<1>13. \A m \in Msg : /\ status[m] # "none" => status'[m] # "none"
                      /\ status[m] # "none" /\ m \notin Range(F) => status'[m] = status[m]
  BY <1>4, <1>11
<1>14. \A m \in Inbound : m \notin Range(F) => status'[m] = status[m]
  <2>1. Inbound \cap Notice = {} /\ Inbound \subseteq Msg BY QueueConstants DEF Msg
  <2>. QED BY <1>4, <1>11, <2>1
<1>. QED BY <1>4, <1>8, <1>9, <1>10, <1>12, <1>13, <1>14 DEF Swept, F, B
LEMMA CloseTurns ==
  ASSUME TypeOK, QInv, NEW p \in Pane, p \in Open, NEW Q, Emptied(p, Q), Closed(p), NEW New, Swept(p, Q, New),
         UNCHANGED <<flight, stage>>, delivering' = delivering \ {p}, AckInbound(Range(Q[p]), "failed"),
         \A m \in Msg : readReserved'[m] # None => readReserved[m] # None /\ m \notin Range(Q[p])
  PROVE  Sound'
<1>1. /\ \A s \in Pane : \A m \in Range(Q[s]) : Queued(m) /\ m \in Msg /\ status[m] # "none"
      /\ \A m : Queued(m) => \E s \in Pane : m \in Range(Q[s])
  <2>1. \A m : Queued(m) => \E s \in Pane : m \in Range(queue[s]) BY DEF Queued
  <2>. QED BY <2>1, QueueOrderly DEF Emptied
<1>2. Apart(Q) /\ Orderly(Q) /\ queue' \in [Pane -> Seq(Msg)] BY DEF Emptied, Swept, Orderly
<1>3. /\ queue'[p] = << >>
      /\ \A s \in Pane \ {p} : Range(queue'[s]) = Range(Q[s]) \cup New[s]
      /\ \A s \in Pane : \A n \in New[s] :
            /\ s \in Open /\ n \in Notice /\ status[n] = "none"
            /\ s # p => status'[n] = "queued"
            /\ \A r \in Pane : r # s => n \notin New[r]
  BY DEF Swept
<1>4. Range(queue'[p]) = {} BY <1>3 DEF Range
<1>5. \A m : Queued(m)' <=> \E s \in Pane \ {p} : m \in Range(Q[s]) \/ m \in New[s]
  BY <1>3, <1>4 DEF Queued
<1>6. \A m \in Msg : /\ status[m] # "none" => status'[m] # "none"
                     /\ status[m] # "none" /\ m \notin Range(Q[p]) => status'[m] = status[m]
  BY DEF Swept
<1>7. PaneInv'
  <2>1. ASSUME NEW s \in Pane, s \notin Open' PROVE queue'[s] = << >> /\ s \notin delivering'
    <3>1. CASE s = p BY <1>3, <3>1
    <3>2. CASE s # p
      <4>1. s \notin Open BY <2>1, <3>2 DEF Closed
      <4>2. queue[s] = << >> /\ s \notin delivering BY <4>1 DEF QInv, PaneInv
      <4>3. Q[s] = << >> BY <2>1, <3>2, <4>2 DEF Emptied
      <4>4. New[s] = {} BY <1>3, <4>1
      <4>5. Range(queue'[s]) = {} BY <1>3, <3>2, <4>3, <4>4 DEF Range
      <4>6. queue'[s] = << >>
        <5>1. SUFFICES ASSUME queue'[s] # << >> PROVE FALSE OBVIOUS
        <5>2. 1 \in DOMAIN queue'[s] BY <1>2, <5>1
        <5>. QED BY <4>5, <5>2 DEF Range
      <4>. QED BY <4>2, <4>6
    <3>. QED BY <3>1, <3>2
  <2>2. ASSUME NEW s \in Pane
        PROVE  /\ s \in Open' => s \in seen'
               /\ s \notin seen' => stage'[s] = "none"
               /\ s \in Open' => (stage'[s] # "none" <=> s \in delivering')
               /\ stage'[s] = "none" => flight'[s] = None
    BY DEF Closed, QInv, PaneInv
  <2>. QED BY <2>1, <2>2 DEF PaneInv
<1>8. QueuedOnce'
  <2>1. Apart(queue')
    <3>1. SUFFICES ASSUME NEW s \in Pane, NEW r \in Pane, s # r, NEW m,
                          m \in Range(queue'[s]), m \in Range(queue'[r])
                   PROVE  FALSE
      BY DEF Apart
    <3>2. (m \in Range(Q[s]) \/ m \in New[s]) /\ (m \in Range(Q[r]) \/ m \in New[r])
      BY <1>3, <1>4, <3>1
    <3>3. ~(m \in Range(Q[s]) /\ m \in Range(Q[r])) BY <1>2, <3>1 DEF Apart
    <3>. QED BY <1>1, <1>3, <3>1, <3>2, <3>3
  <2>2. \A s \in Pane : Distinct(queue'[s]) BY DEF Swept, Orderly
  <2>3. (queue \in [Pane -> Seq(Msg)] =>
           (QueuedOnce <=> Apart(queue) /\ \A s \in Pane : Distinct(queue[s])))'
    BY OnceIs, PTL
  <2>. QED BY <1>2, <2>1, <2>2, <2>3
<1>9. WaitInv'
  <2>1. SUFFICES ASSUME NEW m \in Msg
                 PROVE  /\ Queued(m)' => status'[m] \in Waits
                        /\ readReserved'[m] # None => Queued(m)' /\ status'[m] \in InHand
    BY DEF WaitInv
  <2>2. ASSUME NEW s \in Pane, s # p, m \in Range(Q[s]) PROVE status'[m] = status[m] /\ Queued(m)
    <3>1. m \notin Range(Q[p]) BY <1>2, <2>2 DEF Apart
    <3>. QED BY <1>1, <1>6, <2>2, <3>1
  <2>3. Queued(m)' => status'[m] \in Waits BY <1>3, <1>5, <2>2 DEF QInv, WaitInv, Waits
  <2>4. ASSUME readReserved'[m] # None PROVE Queued(m)' /\ status'[m] \in InHand
    <3>1. Queued(m) /\ status[m] \in InHand /\ m \notin Range(Q[p]) BY <2>4 DEF QInv, WaitInv
    <3>2. \E s \in Pane \ {p} : m \in Range(Q[s]) BY <1>1, <3>1
    <3>. QED BY <1>5, <2>2, <3>1, <3>2
  <2>. QED BY <2>3, <2>4
<1>10. InboundReported'
  <2>1. SUFFICES ASSUME NEW m \in Inbound
                 PROVE  /\ m \in remoteInbound' <=> Queued(m)'
                        /\ status'[m] # "none" /\ ~Queued(m)' => verdict'[m] # {}
    BY DEF InboundReported
  <2>2. m \in Msg /\ m \notin Notice BY QueueConstants DEF Msg
  <2>3. Queued(m)' <=> Queued(m) /\ m \notin Range(Q[p])
    <3>1. Queued(m)' <=> \E s \in Pane \ {p} : m \in Range(Q[s]) BY <1>3, <1>5, <2>2
    <3>. QED BY <1>1, <1>2, <3>1 DEF Apart
  <2>4. remoteInbound' = remoteInbound \ Range(Q[p]) BY DEF AckInbound
  <2>5. verdict'[m] = IF m \in Range(Q[p]) \cap remoteInbound THEN verdict[m] \cup {"failed"} ELSE verdict[m]
    BY <2>2 DEF AckInbound
  <2>6. /\ m \in remoteInbound <=> Queued(m)
        /\ status[m] # "none" /\ ~Queued(m) => verdict[m] # {}
    BY DEF QInv, InboundReported
  <2>7. m \in Range(Q[p]) => Queued(m) BY <1>1
  <2>8. m \notin Range(Q[p]) => status'[m] = status[m] BY DEF Swept
  <2>. QED BY <2>3, <2>4, <2>5, <2>6, <2>7, <2>8
<1>11. FlightInv'
  <2>1. SUFFICES ASSUME NEW s \in Pane, stage[s] # "none" PROVE FlightOf(s)' BY DEF FlightInv
  <2>2. FlightOf(s) BY <2>1 DEF QInv, FlightInv
  <2>3. /\ flight[s] \in Msg /\ status'[flight[s]] # "none" /\ readReserved'[flight[s]] = None
        /\ \A r \in Pane : stage'[r] # "none" /\ flight'[r] = flight'[s] => r = s
    BY <1>6, <2>2 DEF FlightOf
  <2>4. ASSUME s \in Open' PROVE AtHead(s, flight[s])' /\ status'[flight[s]] \in InHand
    <3>1. s # p /\ s \in Open BY <2>1, <2>4 DEF Closed, QInv, PaneInv
    <3>2. Q[s] = queue[s] /\ queue[s] # << >> /\ queue[s][1] = flight[s] /\ status[flight[s]] \in InHand
      BY <2>2, <3>1 DEF Emptied, FlightOf, AtHead
    <3>3. queue'[s] # << >> /\ queue'[s][1] = flight[s] BY <3>1, <3>2 DEF Swept
    <3>4. flight[s] \in Range(queue[s]) BY <2>2, <3>1, QueueOrderly, HeadQueued DEF FlightOf
    <3>5. flight[s] \notin Range(Q[p]) BY <1>2, <3>1, <3>2, <3>4 DEF Apart
    <3>. QED BY <1>6, <2>2, <3>2, <3>3, <3>5 DEF AtHead, FlightOf
  <2>5. ASSUME s \notin Open' PROVE ~(Queued(flight[s])')
    <3>1. \A r \in Pane : flight[s] \notin New[r] BY <1>3, <2>2 DEF FlightOf
    <3>2. CASE s = p
      <4>1. flight[s] \in Range(Q[p]) BY <2>1, <3>2 DEF Emptied
      <4>2. \A r \in Pane \ {p} : flight[s] \notin Range(Q[r]) BY <1>2, <4>1 DEF Apart
      <4>. QED BY <1>5, <3>1, <4>2
    <3>3. CASE s # p
      <4>1. s \notin Open BY <2>5, <3>3 DEF Closed
      <4>2. ~Queued(flight[s]) BY <2>2, <4>1 DEF FlightOf
      <4>. QED BY <1>1, <1>5, <3>1, <4>2
    <3>. QED BY <3>2, <3>3
  <2>. QED BY <2>3, <2>4, <2>5 DEF FlightOf
<1>. QED BY <1>7, <1>8, <1>9, <1>10, <1>11 DEF QInv, Sound, Swept
LEMMA CloseKeeps ==
  ASSUME TypeOK, QInv, NEW p \in Pane, p \in Open, NEW Q, Emptied(p, Q), Closed(p), NEW l, Release(p, Q, l),
         UNCHANGED <<flight, stage>>,
         \A m \in Msg : readReserved'[m] # None => readReserved[m] # None /\ m \notin Range(Q[p])
  PROVE  Sound'
<1>1. Swept(p, Q, Bounces(Q[p], Q, l)) BY ReleaseSweeps
<1>2. delivering' = delivering \ {p} /\ AckInbound(Range(Q[p]), "failed") BY DEF Release
<1>. QED BY <1>1, <1>2, CloseTurns

LEMMA UnregisterEmpties ==
  ASSUME TypeOK, QInv, NEW p \in Pane, NEW l, Unregister(p, l)
  PROVE  Emptied(p, queue) /\ Closed(p)
<1>1. /\ p \in Open /\ seen' = seen
      /\ holder' = [n \in Name |-> IF holder[n] = p THEN None ELSE holder[n]]
  BY DEF Unregister
<1>2. Open' = Open \ {p}
  <2>1. \A n \in Name : holder'[n] = IF holder[n] = p THEN None ELSE holder[n] BY <1>1
  <2>2. Open' = {holder'[n] : n \in Name} \ {None} BY DEF Open
  <2>. QED BY <2>1, <2>2 DEF Open
<1>3. Emptied(p, queue)
  <2>1. stage[p] # "none" => flight[p] \in Range(queue[p])
    BY <1>1, QueueOrderly, HeadQueued DEF QInv, FlightInv, FlightOf
  <2>. QED BY <2>1, QueueOrderly DEF Emptied, Queued
<1>4. Closed(p) BY <1>1, <1>2 DEF Closed
<1>. QED BY <1>3, <1>4

LEMMA UnregisterKeeps ==
  ASSUME TypeOK, QInv, NEW p \in Pane, NEW l, Unregister(p, l)
  PROVE  Sound'
<1>1. /\ p \in Open /\ Release(p, queue, l) /\ UNCHANGED <<flight, stage>>
      /\ readReserved' = [m \in Msg |-> IF m \in Range(queue[p]) THEN None ELSE readReserved[m]]
  BY DEF Unregister
<1>2. \A m \in Msg : readReserved'[m] # None => readReserved[m] # None /\ m \notin Range(queue[p])
  BY <1>1
<1>. QED BY <1>1, <1>2, UnregisterEmpties, CloseKeeps

Split(q, k, a, b) ==
    /\ a \in Seq(Msg) /\ b \in Seq(Msg) /\ Len(a) = k /\ Len(b) = Len(q) - k
    /\ Distinct(a) /\ Distinct(b)
    /\ Range(a) \cup Range(b) = Range(q) /\ Range(a) \cap Range(b) = {}
    /\ \A i \in 1..k : a[i] = q[i]

LEMMA SplitIs ==
  ASSUME NEW q \in Seq(Msg), Distinct(q), NEW k \in 0..Len(q)
  PROVE  Split(q, k, SubSeq(q, 1, k), SubSeq(q, k + 1, Len(q)))
<1>. DEFINE a == SubSeq(q, 1, k)
            b == SubSeq(q, k + 1, Len(q))
<1>1. Len(q) \in Nat /\ k \in Nat /\ k <= Len(q) OBVIOUS
<1>2. a \in Seq(Msg) /\ Len(a) = k /\ \A i \in 1..k : a[i] = q[i] BY <1>1
<1>3. b \in Seq(Msg) /\ Len(b) = Len(q) - k /\ \A i \in 1..(Len(q) - k) : b[i] = q[k + i] BY <1>1
<1>. HIDE DEF a, b
<1>4. /\ Range(q) = {q[i] : i \in 1..Len(q)} /\ Range(a) = {a[i] : i \in 1..k}
      /\ Range(b) = {b[i] : i \in 1..(Len(q) - k)}
  <2>1. DOMAIN q = 1..Len(q) /\ DOMAIN a = 1..k /\ DOMAIN b = 1..(Len(q) - k) BY <1>2, <1>3
  <2>. QED BY <2>1, Zenon DEF Range
<1>5. \A i \in 1..(Len(q) - k) : k + i \in 1..Len(q) /\ k + i \notin 1..k BY <1>1
<1>6. \A i \in 1..k : i \in 1..Len(q) BY <1>1
<1>7. \A i \in 1..Len(q) : i \in 1..k \/ (i - k \in 1..(Len(q) - k) /\ k + (i - k) = i) BY <1>1
<1>8. Range(a) \cup Range(b) \subseteq Range(q) BY <1>2, <1>3, <1>4, <1>5, <1>6
<1>9. Range(q) \subseteq Range(a) \cup Range(b)
  <2>1. SUFFICES ASSUME NEW i \in 1..Len(q) PROVE q[i] \in Range(a) \cup Range(b) BY <1>4
  <2>2. CASE i \in 1..k BY <1>2, <1>4, <2>2
  <2>3. CASE i - k \in 1..(Len(q) - k) /\ k + (i - k) = i BY <1>3, <1>4, <2>3
  <2>. QED BY <1>7, <2>2, <2>3
<1>10. Range(a) \cap Range(b) = {}
  <2>1. SUFFICES ASSUME NEW i \in 1..k, NEW j \in 1..(Len(q) - k), a[i] = b[j] PROVE FALSE BY <1>4
  <2>2. q[i] = q[k + j] /\ i \in 1..Len(q) /\ k + j \in 1..Len(q) /\ i # k + j
    BY <1>2, <1>3, <1>5, <1>6, <2>1
  <2>. QED BY <2>2 DEF Distinct
<1>11. Distinct(a) BY <1>2, <1>6 DEF Distinct
<1>12. Distinct(b)
  <2>1. SUFFICES ASSUME NEW i \in 1..(Len(q) - k), NEW j \in 1..(Len(q) - k), b[i] = b[j] PROVE i = j
    BY <1>3 DEF Distinct
  <2>2. q[k + i] = q[k + j] /\ k + i \in 1..Len(q) /\ k + j \in 1..Len(q) BY <1>3, <1>5, <2>1
  <2>3. k + i = k + j BY <2>2 DEF Distinct
  <2>. QED BY <1>1, <2>3
<1>13. Split(q, k, a, b) BY <1>2, <1>3, <1>8, <1>9, <1>10, <1>11, <1>12 DEF Split
<1>. QED BY <1>13 DEF a, b

LEMMA KeptIs ==
  ASSUME TypeOK, QInv, NEW p \in Pane, p \in Open
  PROVE  /\ Kept(p) \in Seq(Msg) /\ Moved(p) \in Seq(Msg)
         /\ Len(Kept(p)) <= Len(queue[p]) /\ Len(Moved(p)) <= Len(queue[p])
         /\ Distinct(Kept(p)) /\ Distinct(Moved(p))
         /\ Range(Kept(p)) \cup Range(Moved(p)) = Range(queue[p])
         /\ Range(Kept(p)) \cap Range(Moved(p)) = {}
         /\ stage[p] # "none" => flight[p] \in Range(Kept(p))
<1>. DEFINE q == queue[p]
            k == IF p \in delivering THEN 1 ELSE 0
<1>1. q \in Seq(Msg) /\ Distinct(q) BY QueueOrderly DEF Orderly
<1>2. stage[p] # "none" => p \in delivering /\ q # << >> /\ q[1] = flight[p]
  BY DEF QInv, PaneInv, FlightInv, FlightOf, AtHead
<1>3. p \in delivering => q # << >> BY <1>2 DEF QInv, PaneInv
<1>. HIDE DEF q
<1>4. Len(q) \in Nat /\ (q # << >> => Len(q) >= 1) BY <1>1
<1>5. k \in 0..Len(q) BY <1>3, <1>4
<1>6. Kept(p) = SubSeq(q, 1, k)
  <2>1. CASE p \in delivering BY <2>1 DEF Kept, q
  <2>2. CASE p \notin delivering
    <3>1. Kept(p) = << >> BY <2>2 DEF Kept
    <3>2. SubSeq(q, 1, 0) = << >> BY <1>1
    <3>. QED BY <2>2, <3>1, <3>2
  <2>. QED BY <2>1, <2>2
<1>7. Len(Kept(p)) = k
  <2>. HIDE DEF k
  <2>1. Len(SubSeq(q, 1, k)) = k BY <1>1, <1>4, <1>5
  <2>. QED BY <1>6, <2>1
<1>8. Moved(p) = SubSeq(q, k + 1, Len(q)) BY <1>7 DEF Moved, q
<1>9. stage[p] # "none" => k = 1 BY <1>2
<1>. HIDE DEF k
<1>10. /\ Kept(p) \in Seq(Msg) /\ Moved(p) \in Seq(Msg) /\ Len(Moved(p)) = Len(q) - k
       /\ Distinct(Kept(p)) /\ Distinct(Moved(p))
       /\ Range(Kept(p)) \cup Range(Moved(p)) = Range(q)
       /\ Range(Kept(p)) \cap Range(Moved(p)) = {}
       /\ \A i \in 1..k : Kept(p)[i] = q[i]
  <2>1. Split(q, k, Kept(p), Moved(p)) BY <1>1, <1>5, <1>6, <1>8, SplitIs
  <2>. QED BY <2>1 DEF Split
<1>11. stage[p] # "none" => flight[p] \in Range(Kept(p))
  <2>1. SUFFICES ASSUME stage[p] # "none" PROVE flight[p] \in Range(Kept(p)) OBVIOUS
  <2>2. Kept(p)[1] = flight[p] /\ 1 \in DOMAIN Kept(p) BY <1>2, <1>7, <1>9, <1>10, <2>1
  <2>. QED BY <2>2 DEF Range
<1>12. Len(Kept(p)) <= Len(q) /\ Len(Moved(p)) <= Len(q) BY <1>4, <1>5, <1>7, <1>10
<1>. QED BY <1>10, <1>11, <1>12 DEF q

\* The queues as handOverQueue leaves them.
HandedOver(p, r) == [queue EXCEPT ![p] = Kept(p), ![r] = Moved(p)]

LEMMA ReplaceEmpties ==
  ASSUME TypeOK, QInv, NEW p \in Pane, NEW r \in Pane, NEW l, ReplacePane(p, r, l)
  PROVE  Emptied(p, HandedOver(p, r)) /\ Closed(p)
         /\ Range(HandedOver(p, r)[p]) = Range(Kept(p))
<1>. DEFINE Q == HandedOver(p, r)
<1>1. /\ p \in Open /\ r \notin seen /\ seen' = seen \cup {r}
      /\ holder' = [n \in Name |-> IF holder[n] = p THEN r ELSE holder[n]]
  BY DEF ReplacePane
<1>2. r # p /\ r \notin Open /\ queue[r] = << >> BY <1>1 DEF QInv, PaneInv
<1>3. Open' = (Open \ {p}) \cup {r}
  <2>1. \A n \in Name : holder'[n] = IF holder[n] = p THEN r ELSE holder[n] BY <1>1
  <2>2. Open' = {holder'[n] : n \in Name} \ {None} BY DEF Open
  <2>3. r # None /\ p # None BY QueueConstants
  <2>4. \E n \in Name : holder[n] = p BY <1>1 DEF Open
  <2>. QED BY <2>1, <2>2, <2>3, <2>4 DEF Open
<1>4. /\ Kept(p) \in Seq(Msg) /\ Moved(p) \in Seq(Msg)
      /\ Len(Kept(p)) <= Len(queue[p]) /\ Len(Moved(p)) <= Len(queue[p])
      /\ Distinct(Kept(p)) /\ Distinct(Moved(p))
      /\ Range(Kept(p)) \cup Range(Moved(p)) = Range(queue[p])
      /\ Range(Kept(p)) \cap Range(Moved(p)) = {}
      /\ stage[p] # "none" => flight[p] \in Range(Kept(p))
  BY <1>1, KeptIs
<1>5. queue \in [Pane -> Seq(Msg)] /\ Orderly(queue) /\ Apart(queue) BY QueueOrderly
<1>6. /\ Q \in [Pane -> Seq(Msg)] /\ Q[p] = Kept(p) /\ Q[r] = Moved(p)
      /\ \A s \in Pane \ {p, r} : Q[s] = queue[s]
  BY <1>2, <1>4, <1>5 DEF HandedOver
<1>. HIDE DEF Q
<1>7. Orderly(Q)
  <2>1. Len(queue[p]) <= QueueCap /\ Len(queue[p]) \in Nat /\ QueueCap \in Nat
    BY <1>5, QueueConstants DEF Orderly
  <2>2. Len(Kept(p)) \in Nat /\ Len(Moved(p)) \in Nat BY <1>4
  <2>3. Len(Kept(p)) <= QueueCap /\ Len(Moved(p)) <= QueueCap BY <1>4, <2>1, <2>2
  <2>4. \A s \in Pane : Len(Q[s]) <= QueueCap /\ Distinct(Q[s]) BY <1>4, <1>5, <1>6, <2>3 DEF Orderly
  <2>. QED BY <1>6, <2>4 DEF Orderly
<1>8. Range(queue[r]) = {} BY <1>2 DEF Range
<1>9. Apart(Q) BY <1>4, <1>5, <1>6 DEF Apart
<1>10. \A m : Queued(m) <=> \E s \in Pane : m \in Range(Q[s]) BY <1>2, <1>4, <1>6, <1>8 DEF Queued
<1>11. Emptied(p, Q) BY <1>3, <1>4, <1>6, <1>7, <1>9, <1>10, <1>2 DEF Emptied
<1>12. Closed(p) BY <1>1, <1>2, <1>3 DEF Closed
<1>. QED BY <1>6, <1>11, <1>12 DEF Q

LEMMA ReplaceKeeps ==
  ASSUME TypeOK, QInv, NEW p \in Pane, NEW r \in Pane, NEW l, ReplacePane(p, r, l)
  PROVE  Sound'
<1>. DEFINE Q == HandedOver(p, r)
<1>1. /\ p \in Open /\ Release(p, Q, l) /\ UNCHANGED <<flight, stage>>
      /\ readReserved' = [m \in Msg |->
           IF m \in Range(Kept(p)) \/ readReserved[m] = None THEN None
           ELSE IF m \in Range(Moved(p)) THEN r ELSE readReserved[m]]
  BY DEF ReplacePane, HandedOver
<1>2. Emptied(p, Q) /\ Closed(p) /\ Range(Q[p]) = Range(Kept(p)) BY ReplaceEmpties
<1>. HIDE DEF Q
<1>3. \A m \in Msg : readReserved'[m] # None => readReserved[m] # None /\ m \notin Range(Q[p])
  BY <1>1, <1>2
<1>. QED BY <1>1, <1>2, <1>3, CloseKeeps
-----------------------------------------------------------------------------
(* Types.                                                                  *)

Types1 ==
    /\ holder \in [Name -> Pane \cup {None}] /\ seen \subseteq Pane
    /\ status \in [Msg -> Status] /\ route \in [Msg -> Route]
Types2 ==
    /\ delivering \subseteq Pane /\ envelope \subseteq Msg
    /\ readReserved \in [Msg -> Pane \cup {None}] /\ cancelRequested \subseteq Msg
    /\ unclear \in [Msg -> 0..(UnclearLimit - 1)]
    /\ remoteInbound \subseteq Inbound /\ unconfirmed \in [Msg -> Pane \cup {None}]
Types3 ==
    /\ paused \in BOOLEAN /\ flight \in [Pane -> Msg \cup {None}] /\ stage \in [Pane -> Stage]
    /\ reading \subseteq Pane \X Msg
Types4 ==
    shown \in [Msg -> 0..2] /\ told \in [Msg -> 0..2] /\ verdict \in [Msg -> SUBSET Verdict]
Types == Types1 /\ Types2 /\ Types3 /\ Types4

LEMMA TypesAre == TypeOK <=> Types /\ queue \in [Pane -> Seq(Msg)] /\ \A p \in Pane : Len(queue[p]) <= QueueCap
BY DEF TypeOK, Types, Types1, Types2, Types3, Types4

LEMMA WordsAre ==
  /\ {"none", "queued", "delivering", "evicted", "delivered", "failed", "cancelled"} = Status
  /\ {"none", "push", "hook", "read"} = Route /\ {"ok", "failed", "unconfirmed"} = Verdict
  /\ {"none", "push", "pushed", "typing", "typed", "hook", "hooked"} = Stage
  /\ \A k : MoreOnce(k) \in 0..2
  /\ 0 \in 0..(UnclearLimit - 1) /\ UnclearLimit \in Nat
  /\ Inbound \subseteq Msg /\ Post \subseteq Msg /\ Notice \subseteq Msg
BY QueueConstants DEF Status, Settled, Route, Verdict, Stage, MoreOnce, Msg

LEMMA AckTypes ==
  ASSUME Types, NEW A, NEW v \in Verdict, AckInbound(A, v)
  PROVE  remoteInbound' \subseteq Inbound /\ verdict' \in [Msg -> SUBSET Verdict]
BY DEF AckInbound, Types, Types2, Types4

LEMMA FailTypes ==
  ASSUME TypeOK, NEW F \in Seq(Msg), Distinct(F), NEW Q, Orderly(Q), NEW l,
         \A m \in Range(F) : m \in Post \/ status[m] # "none"
  PROVE  /\ FailedStatus(F, Q, l) \in [Msg -> Status]
         /\ FailedEnvelope(F, Q, l) \subseteq Msg
         /\ FailedTold(F) \in [Msg -> 0..2]
         /\ FailedUnclear(F) \in [Msg -> 0..(UnclearLimit - 1)]
<1>1. FailedStatus(F, Q, l) \in [Msg -> Status] BY FailedRows DEF TypeOK, Typed
<1>2. FailedEnvelope(F, Q, l) \subseteq Msg
  <2>1. \A s \in Pane : Range(Admitted(F, s, Q, l)) \subseteq Msg
    <3>1. SUFFICES ASSUME NEW s \in Pane PROVE Range(Admitted(F, s, Q, l)) \subseteq Msg OBVIOUS
    <3>2. Admitted(F, s, Q, l) \in Seq(Notice) BY AdmittedIs
    <3>. QED BY <3>2, WordsAre DEF Range
  <2>. QED BY <2>1 DEF FailedEnvelope, Enqueued, TypeOK
<1>3. FailedTold(F) \in [Msg -> 0..2] BY WordsAre DEF FailedTold, TypeOK
<1>4. FailedUnclear(F) \in [Msg -> 0..(UnclearLimit - 1)] BY WordsAre DEF FailedUnclear, TypeOK
<1>. QED BY <1>1, <1>2, <1>3, <1>4

LEMMA FailsTypes ==
  ASSUME TypeOK, NEW m \in Msg, m \in Post \/ status[m] # "none", NEW Q, Orderly(Q), NEW l, Fails(<<m>>, Q, l)
  PROVE  /\ status' \in [Msg -> Status] /\ envelope' \subseteq Msg
         /\ told' \in [Msg -> 0..2] /\ unclear' \in [Msg -> 0..(UnclearLimit - 1)]
<1>. DEFINE F == <<m>>
<1>1. F \in Seq(Msg) /\ Distinct(F) /\ Range(F) = {m} BY OneIs
<1>. HIDE DEF F
<1>2. /\ FailedStatus(F, Q, l) \in [Msg -> Status] /\ FailedEnvelope(F, Q, l) \subseteq Msg
      /\ FailedTold(F) \in [Msg -> 0..2] /\ FailedUnclear(F) \in [Msg -> 0..(UnclearLimit - 1)]
  BY <1>1, FailTypes
<1>. QED BY <1>2 DEF Fails, F

LEMMA EndTypes ==
  ASSUME Types, NEW p \in Pane, EndFlight(p)
  PROVE  /\ delivering' \subseteq Pane /\ cancelRequested' \subseteq Msg
         /\ flight' \in [Pane -> Msg \cup {None}] /\ stage' \in [Pane -> Stage]
BY WordsAre DEF EndFlight, Types, Types2, Types3

\* What is left to show of a step, its queues being in order.
LEMMA TypesSuffice == ASSUME Types', Orderly(queue') PROVE TypeOK'
<1>1. queue' \in [Pane -> Seq(Msg)] /\ \A p \in Pane : Len(queue'[p]) <= QueueCap BY DEF Orderly
<1>2. (Types /\ queue \in [Pane -> Seq(Msg)] /\ (\A p \in Pane : Len(queue[p]) <= QueueCap) => TypeOK)'
  BY TypesAre, PTL
<1>. QED BY <1>1, <1>2
LEMMA RegistryTypes ==
  ASSUME TypeOK, NEW p \in Pane, NEW n \in Name, Register(p, n) \/ Rename(p, n)
  PROVE  Types'
<1>1. Types BY TypesAre
<1>2. CASE Register(p, n)
  BY <1>1, <1>2 DEF Register, Types, Types1, Types2, Types3, Types4, row, maps, handover, history
<1>3. CASE Rename(p, n)
  BY <1>1, <1>3 DEF Rename, Types, Types1, Types2, Types3, Types4, row, maps, handover, history
<1>. QED BY <1>2, <1>3

LEMMA StillTypes == ASSUME TypeOK, Pause \/ UNCHANGED vars PROVE Types'
<1>1. Types BY TypesAre
<1>2. CASE Pause
  BY <1>1, <1>2 DEF Pause, Types, Types1, Types2, Types3, Types4, registry, row, maps, handover, history
<1>3. CASE UNCHANGED vars
  BY <1>1, <1>3 DEF vars, Types, Types1, Types2, Types3, Types4, registry, row, maps, handover, history
<1>. QED BY <1>2, <1>3

LEMMA ReleaseTypes ==
  ASSUME TypeOK, QInv, NEW p \in Pane, NEW Q, Emptied(p, Q), NEW l, Release(p, Q, l)
  PROVE  /\ status' \in [Msg -> Status] /\ envelope' \subseteq Msg
         /\ told' \in [Msg -> 0..2] /\ unclear' \in [Msg -> 0..(UnclearLimit - 1)]
         /\ remoteInbound' \subseteq Inbound /\ verdict' \in [Msg -> SUBSET Verdict]
         /\ delivering' \subseteq Pane /\ unconfirmed' \in [Msg -> Pane \cup {None}]
<1>. DEFINE F == Q[p]
<1>1. Types BY TypesAre
<1>2. Orderly(Q) BY DEF Emptied
<1>3. F \in Seq(Msg) /\ Distinct(F) BY <1>2 DEF Orderly
<1>4. \A m \in Range(F) : status[m] # "none"
  <2>1. \A m \in Range(F) : Queued(m) BY DEF Emptied
  <2>2. \A m \in Range(F) : \E s \in Pane : m \in Range(queue[s]) BY <2>1 DEF Queued
  <2>. QED BY <2>2, QueueOrderly
<1>5. /\ status' = [m \in Msg |-> IF m \in Range(Admitted(F, p, Q, l)) THEN "failed" ELSE FailedStatus(F, Q, l)[m]]
      /\ envelope' = FailedEnvelope(F, Q, l) \ Range(Admitted(F, p, Q, l))
      /\ told' = FailedTold(F) /\ unclear' = FailedUnclear(F)
      /\ AckInbound(Range(F), "failed") /\ delivering' = delivering \ {p}
      /\ unconfirmed' = [m \in Msg |-> IF unconfirmed[m] = p THEN None ELSE unconfirmed[m]]
  BY DEF Release
<1>. HIDE DEF F
<1>6. /\ FailedStatus(F, Q, l) \in [Msg -> Status] /\ FailedEnvelope(F, Q, l) \subseteq Msg
      /\ FailedTold(F) \in [Msg -> 0..2] /\ FailedUnclear(F) \in [Msg -> 0..(UnclearLimit - 1)]
  BY <1>2, <1>3, <1>4, FailTypes
<1>7. "failed" \in Status /\ "failed" \in Verdict BY WordsAre
<1>8. remoteInbound' \subseteq Inbound /\ verdict' \in [Msg -> SUBSET Verdict] BY <1>1, <1>5, <1>7, AckTypes
<1>9. status' \in [Msg -> Status] BY <1>5, <1>6, <1>7
<1>. QED BY <1>1, <1>5, <1>6, <1>8, <1>9 DEF Types, Types2

LEMMA UnregisterTypes ==
  ASSUME TypeOK, QInv, NEW p \in Pane, NEW l, Unregister(p, l)
  PROVE  Types'
<1>1. Types BY TypesAre
<1>2. /\ Release(p, queue, l)
      /\ readReserved' = [m \in Msg |-> IF m \in Range(queue[p]) THEN None ELSE readReserved[m]]
      /\ holder' = [n \in Name |-> IF holder[n] = p THEN None ELSE holder[n]]
      /\ UNCHANGED <<seen, route, cancelRequested, flight, stage, paused, reading, shown>>
  BY DEF Unregister
<1>3. Emptied(p, queue) BY UnregisterEmpties
<1>4. /\ status' \in [Msg -> Status] /\ envelope' \subseteq Msg
      /\ told' \in [Msg -> 0..2] /\ unclear' \in [Msg -> 0..(UnclearLimit - 1)]
      /\ remoteInbound' \subseteq Inbound /\ verdict' \in [Msg -> SUBSET Verdict]
      /\ delivering' \subseteq Pane /\ unconfirmed' \in [Msg -> Pane \cup {None}]
  BY <1>2, <1>3, ReleaseTypes
<1>. QED BY <1>1, <1>2, <1>4 DEF Types, Types1, Types2, Types3, Types4

LEMMA ReplaceTypes ==
  ASSUME TypeOK, QInv, NEW p \in Pane, NEW r \in Pane, NEW l, ReplacePane(p, r, l)
  PROVE  Types'
<1>1. Types BY TypesAre
<1>2. /\ Release(p, HandedOver(p, r), l)
      /\ readReserved' = [m \in Msg |->
           IF m \in Range(Kept(p)) \/ readReserved[m] = None THEN None
           ELSE IF m \in Range(Moved(p)) THEN r ELSE readReserved[m]]
      /\ holder' = [n \in Name |-> IF holder[n] = p THEN r ELSE holder[n]]
      /\ seen' = seen \cup {r}
      /\ UNCHANGED <<route, cancelRequested, flight, stage, paused, reading, shown>>
  BY DEF ReplacePane, HandedOver
<1>3. Emptied(p, HandedOver(p, r)) BY ReplaceEmpties
<1>4. /\ status' \in [Msg -> Status] /\ envelope' \subseteq Msg
      /\ told' \in [Msg -> 0..2] /\ unclear' \in [Msg -> 0..(UnclearLimit - 1)]
      /\ remoteInbound' \subseteq Inbound /\ verdict' \in [Msg -> SUBSET Verdict]
      /\ delivering' \subseteq Pane /\ unconfirmed' \in [Msg -> Pane \cup {None}]
  BY <1>2, <1>3, ReleaseTypes
<1>. QED BY <1>1, <1>2, <1>4 DEF Types, Types1, Types2, Types3, Types4

LEMMA SendTypes ==
  ASSUME TypeOK, QInv, NEW m \in Post, NEW over, NEW l, Send(m, over, l)
  PROVE  Types'
<1>1. Types /\ m \in Msg BY TypesAre, WordsAre
<1>2. /\ status' \in [Msg -> Status] /\ envelope' \subseteq Msg
      /\ told' \in [Msg -> 0..2] /\ unclear' \in [Msg -> 0..(UnclearLimit - 1)]
  <2>1. CASE Fails(<<m>>, queue, l) BY <1>1, <2>1, QueueOrderly, FailsTypes
  <2>2. CASE status' = [status EXCEPT ![m] = "queued"] /\ envelope' = envelope \cup {m} /\ UNCHANGED <<unclear, told>>
    BY <1>1, <2>2, WordsAre DEF TypeOK
  <2>3. CASE status' = [status EXCEPT ![m] = "delivered"] /\ UNCHANGED <<envelope, unclear, told>>
    BY <1>1, <2>3, WordsAre DEF TypeOK
  <2>. QED BY <2>1, <2>2, <2>3 DEF Send
<1>3. UNCHANGED <<registry, route, readReserved, cancelRequested, remoteInbound, unconfirmed,
                  handover, paused, reading, shown, verdict>>
  BY DEF Send
<1>. QED BY <1>1, <1>2, <1>3 DEF Types, Types1, Types2, Types3, Types4, registry, handover

LEMMA AcceptTypes ==
  ASSUME TypeOK, NEW m \in Post, NEW over, AcceptRemote(m, over)
  PROVE  Types'
<1>1. Types /\ m \in Msg /\ m \in Inbound BY TypesAre, WordsAre DEF AcceptRemote
<1>2. /\ UNCHANGED <<registry, route, readReserved, cancelRequested, unclear, unconfirmed,
                     handover, paused, reading, shown, told>>
      /\ \/ /\ status' = [status EXCEPT ![m] = "failed"]
            /\ verdict' = [verdict EXCEPT ![m] = @ \cup {"failed"}]
            /\ UNCHANGED <<envelope, remoteInbound>>
         \/ /\ status' = [status EXCEPT ![m] = "queued"]
            /\ envelope' = envelope \cup {m}
            /\ remoteInbound' = remoteInbound \cup {m}
            /\ UNCHANGED verdict
  BY DEF AcceptRemote
<1>3. status' \in [Msg -> Status] BY <1>1, <1>2, WordsAre DEF Types, Types1
<1>4. envelope' \subseteq Msg /\ remoteInbound' \subseteq Inbound BY <1>1, <1>2 DEF Types, Types2
<1>5. verdict' \in [Msg -> SUBSET Verdict] BY <1>1, <1>2, WordsAre DEF Types, Types4
<1>. QED BY <1>1, <1>2, <1>3, <1>4, <1>5 DEF Types, Types1, Types2, Types3, Types4, registry, handover

LEMMA EvictTypes ==
  ASSUME TypeOK, NEW m \in Msg, Evict(m)
  PROVE  Types'
<1>1. Types BY TypesAre
<1>. QED BY <1>1, WordsAre
     DEF Evict, Types, Types1, Types2, Types3, Types4, registry, handover, history

LEMMA HeadIs ==
  ASSUME TypeOK, QInv, NEW p \in Pane, queue[p] # << >>
  PROVE  queue[p][1] \in Msg /\ status[queue[p][1]] # "none"
<1>1. AtHead(p, queue[p][1]) BY DEF AtHead
<1>. QED BY <1>1, QueueOrderly, HeadQueued

LEMMA HeadTypes ==
  ASSUME TypeOK, QInv, NEW p \in Pane, NEW l, DropHead(p) \/ RefuseHead(p, l)
  PROVE  Types'
<1>. DEFINE m == queue[p][1]
<1>1. Types BY TypesAre
<1>2. queue[p] # << >> BY DEF DropHead, RefuseHead, HeadFree
<1>3. m \in Msg /\ status[m] # "none" BY <1>2, HeadIs
<1>4. AckInbound({m}, "failed") BY DEF DropHead, RefuseHead
<1>5. remoteInbound' \subseteq Inbound /\ verdict' \in [Msg -> SUBSET Verdict]
  BY <1>1, <1>4, WordsAre, AckTypes
<1>6. CASE DropHead(p)
  BY <1>1, <1>5, <1>6 DEF DropHead, Types, Types1, Types2, Types3, Types4, registry, row, handover
<1>7. CASE RefuseHead(p, l)
  <2>1. /\ Fails(<<m>>, [queue EXCEPT ![p] = Tail(@)], l)
        /\ UNCHANGED <<registry, route, readReserved, cancelRequested, unconfirmed, handover,
                       paused, reading, shown>>
    BY <1>7 DEF RefuseHead
  <2>2. Orderly([queue EXCEPT ![p] = Tail(@)]) BY <1>2, QueueOrderly, FlowTail DEF Flow
  <2>. HIDE DEF m
  <2>3. /\ status' \in [Msg -> Status] /\ envelope' \subseteq Msg
        /\ told' \in [Msg -> 0..2] /\ unclear' \in [Msg -> 0..(UnclearLimit - 1)]
    BY <1>3, <2>1, <2>2, FailsTypes
  <2>. QED BY <1>1, <1>5, <2>1, <2>3 DEF Types, Types1, Types2, Types3, Types4, registry, handover
<1>. QED BY <1>6, <1>7
LEMMA TakeTypes ==
  ASSUME TypeOK, QInv, NEW p \in Pane, NEW s \in Stage, Take(p, s), NEW r \in Route,
         route' = route \/ route' = [route EXCEPT ![queue[p][1]] = r]
  PROVE  Types'
<1>. DEFINE m == queue[p][1]
<1>1. Types BY TypesAre
<1>2. m \in Msg BY HeadIs DEF Take, HeadFree
<1>3. /\ delivering' = delivering \cup {p} /\ status' = [status EXCEPT ![m] = "delivering"]
      /\ flight' = [flight EXCEPT ![p] = m] /\ stage' = [stage EXCEPT ![p] = s]
      /\ route' = route \/ route' = [route EXCEPT ![m] = r]
      /\ UNCHANGED <<registry, maps, paused, reading, history>>
  BY DEF Take
<1>. HIDE DEF m
<1>. QED BY <1>1, <1>2, <1>3, WordsAre DEF Types, Types1, Types2, Types3, Types4, registry, maps, history

LEMMA StartTypes ==
  ASSUME TypeOK, QInv, NEW p \in Pane, StartPush(p) \/ StartTyping(p) \/ DrainForHook(p)
  PROVE  Types'
<1>1. {"push", "typing", "hook"} \subseteq Stage /\ {"push", "hook", "none"} \subseteq Route BY WordsAre
<1>2. CASE StartPush(p) BY <1>1, <1>2, TakeTypes DEF StartPush
<1>3. CASE StartTyping(p) BY <1>1, <1>3, TakeTypes DEF StartTyping
<1>4. CASE DrainForHook(p) BY <1>1, <1>4, TakeTypes DEF DrainForHook
<1>. QED BY <1>2, <1>3, <1>4

LEMMA QuietTypes ==
  ASSUME TypeOK, QInv, NEW p \in Pane, NEW m \in Msg,
         Lands(p) \/ PushDeclined(p) \/ ConfirmDelivery(m) \/ LoseRead(p, m) \/ CancelTyping(p)
  PROVE  Types'
<1>1. Types BY TypesAre
<1>2. stage[p] # "none" => flight[p] \in Msg BY CarriedIs
<1>3. CASE Lands(p)
  <2>1. /\ UNCHANGED <<registry, row, maps, delivering, flight, paused, reading, told, verdict>>
        /\ shown' = [shown EXCEPT ![flight[p]] = MoreOnce(@)]
    BY <1>3 DEF Lands
  <2>2. stage' \in [Pane -> Stage] BY <1>1, <1>3, WordsAre DEF Lands, Types, Types3
  <2>3. shown' \in [Msg -> 0..2] BY <1>1, <2>1, WordsAre DEF Types, Types4
  <2>. QED BY <1>1, <2>1, <2>2, <2>3 DEF Types, Types1, Types2, Types3, Types4, registry, row, maps
<1>4. CASE PushDeclined(p)
  <2>1. /\ UNCHANGED <<registry, status, maps, delivering, flight, paused, reading, history>>
        /\ stage' = [stage EXCEPT ![p] = "typing"] /\ route' = [route EXCEPT ![flight[p]] = "none"]
    BY <1>4 DEF PushDeclined
  <2>. QED BY <1>1, <2>1, WordsAre DEF Types, Types1, Types2, Types3, Types4, registry, maps, history
<1>5. CASE ConfirmDelivery(m)
  <2>1. /\ UNCHANGED <<registry, row, envelope, readReserved, cancelRequested, unclear,
                       remoteInbound, handover, paused, reading, shown, told>>
        /\ unconfirmed' = [unconfirmed EXCEPT ![m] = None]
        /\ verdict' = [verdict EXCEPT ![m] = IF "unconfirmed" \in @ THEN @ \cup {"ok"} ELSE @]
    BY <1>5 DEF ConfirmDelivery
  <2>2. verdict' \in [Msg -> SUBSET Verdict] BY <1>1, <2>1, WordsAre DEF Types, Types4
  <2>. QED BY <1>1, <2>1, <2>2 DEF Types, Types1, Types2, Types3, Types4, registry, row, handover
<1>6. CASE LoseRead(p, m)
  <2>1. /\ UNCHANGED <<registry, row, maps, handover, paused, told, verdict>>
        /\ reading' \subseteq reading /\ shown' = [shown EXCEPT ![m] = MoreOnce(@)]
    BY <1>6 DEF LoseRead
  <2>2. shown' \in [Msg -> 0..2] BY <1>1, <2>1, WordsAre DEF Types, Types4
  <2>. QED BY <1>1, <2>1, <2>2 DEF Types, Types1, Types2, Types3, Types4, registry, row, maps, handover
<1>7. CASE CancelTyping(p)
  <2>1. /\ UNCHANGED <<registry, row, envelope, readReserved, unclear, remoteInbound, unconfirmed,
                       handover, paused, reading, history>>
        /\ cancelRequested' = cancelRequested \cup {flight[p]} /\ stage[p] # "none"
    BY <1>7 DEF CancelTyping
  <2>. QED BY <1>1, <1>2, <2>1
       DEF Types, Types1, Types2, Types3, Types4, registry, row, handover, history
<1>. QED BY <1>3, <1>4, <1>5, <1>6, <1>7
\* What the end of a hand-over and a report leave typed.
Rest == Types1 /\ envelope \subseteq Msg /\ readReserved \in [Msg -> Pane \cup {None}]
        /\ unclear \in [Msg -> 0..(UnclearLimit - 1)] /\ unconfirmed \in [Msg -> Pane \cup {None}]
        /\ paused \in BOOLEAN /\ reading \subseteq Pane \X Msg
        /\ shown \in [Msg -> 0..2] /\ told \in [Msg -> 0..2]

LEMMA EndedTypes ==
  ASSUME TypeOK, NEW p \in Pane, EndFlight(p), NEW m, NEW v \in Verdict,
         AckInbound({m}, v) \/ UNCHANGED <<remoteInbound, verdict>>, Rest'
  PROVE  Types'
<1>1. Types BY TypesAre
<1>2. /\ delivering' \subseteq Pane /\ cancelRequested' \subseteq Msg
      /\ flight' \in [Pane -> Msg \cup {None}] /\ stage' \in [Pane -> Stage]
  BY <1>1, EndTypes
<1>3. remoteInbound' \subseteq Inbound /\ verdict' \in [Msg -> SUBSET Verdict]
  <2>1. CASE AckInbound({m}, v) BY <1>1, <2>1, AckTypes
  <2>2. CASE UNCHANGED <<remoteInbound, verdict>> BY <1>1, <2>2 DEF Types, Types2, Types4
  <2>. QED BY <2>1, <2>2
<1>. QED BY <1>2, <1>3 DEF Rest, Types, Types2, Types3, Types4

LEMMA RequeueTypes ==
  ASSUME TypeOK, QInv, NEW p \in Pane, NEW k \in {0, 1}, Requeue(p, k)
  PROVE  Types'
<1>. DEFINE m == flight[p]
<1>1. /\ stage[p] # "none" /\ EndFlight(p) /\ status' = SetStatus(m, "queued")
      /\ route' = [route EXCEPT ![m] = "none"] /\ unclear' = [unclear EXCEPT ![m] = @ + k]
      /\ k = 1 => unclear[m] + 1 < UnclearLimit
      /\ UNCHANGED <<registry, envelope, readReserved, remoteInbound, unconfirmed, paused, reading, history>>
  BY DEF Requeue
<1>2. m \in Msg BY <1>1, CarriedIs
<1>. HIDE DEF m
<1>3. status \in [Msg -> Status] /\ "queued" \in Status BY WordsAre DEF TypeOK
<1>4. status' \in [Msg -> Status] BY <1>1, <1>2, <1>3, SetIs
<1>5. unclear' \in [Msg -> 0..(UnclearLimit - 1)]
  <2>1. unclear[m] + k \in 0..(UnclearLimit - 1) BY <1>1, <1>2, WordsAre DEF TypeOK
  <2>. QED BY <1>1, <2>1 DEF TypeOK
<1>6. Rest' BY <1>1, <1>4, <1>5, WordsAre DEF TypeOK, Rest, Types1, registry, history
<1>7. "ok" \in Verdict BY WordsAre
<1>8. UNCHANGED <<remoteInbound, verdict>> BY <1>1 DEF history
<1>. QED BY <1>1, <1>6, <1>7, <1>8, EndedTypes

LEMMA DeliveredTypes ==
  ASSUME TypeOK, QInv, NEW p \in Pane, NEW c \in BOOLEAN, Delivered(p, c)
  PROVE  Types'
<1>. DEFINE m == flight[p]
            v == IF c THEN "ok" ELSE "unconfirmed"
<1>1. /\ stage[p] # "none" /\ EndFlight(p) /\ status' = SetStatus(m, "delivered")
      /\ envelope' = envelope \ {m} /\ AckInbound({m}, v) /\ unclear' = [unclear EXCEPT ![m] = 0]
      /\ unconfirmed' = IF c THEN unconfirmed ELSE [unconfirmed EXCEPT ![m] = p]
      /\ UNCHANGED <<registry, route, readReserved, paused, reading, shown, told>>
  BY DEF Delivered
<1>2. m \in Msg BY <1>1, CarriedIs
<1>3. v \in Verdict /\ "delivered" \in Status /\ status \in [Msg -> Status] BY WordsAre DEF TypeOK
<1>. HIDE DEF m, v
<1>4. status' \in [Msg -> Status] BY <1>1, <1>2, <1>3, SetIs
<1>5. unclear' \in [Msg -> 0..(UnclearLimit - 1)] BY <1>1, WordsAre DEF TypeOK
<1>6. unconfirmed' \in [Msg -> Pane \cup {None}] BY <1>1 DEF TypeOK
<1>7. Rest' BY <1>1, <1>4, <1>5, <1>6 DEF TypeOK, Rest, Types1, registry
<1>. QED BY <1>1, <1>3, <1>7, EndedTypes

LEMMA FailedTypes ==
  ASSUME TypeOK, QInv, NEW p \in Pane, NEW l, FlightFailed(p, l) \/ NotInjected(p, l)
  PROVE  Types'
<1>. DEFINE m == flight[p]
<1>1. /\ stage[p] # "none" /\ EndFlight(p) /\ AckInbound({m}, "failed")
      /\ UNCHANGED <<registry, route, readReserved, unconfirmed, paused, reading, shown>>
      /\ \/ Fails(<<m>>, queue, l)
         \/ /\ status' = SetStatus(m, "cancelled") /\ envelope' = envelope \ {m}
            /\ unclear' = [unclear EXCEPT ![m] = 0] /\ UNCHANGED told
         \/ unclear' = [unclear EXCEPT ![m] = 0] /\ UNCHANGED <<status, envelope, told>>
  BY DEF FlightFailed, NotInjected
<1>2. m \in Msg /\ status[m] # "none" BY <1>1, CarriedIs
<1>3. "failed" \in Verdict /\ "cancelled" \in Status /\ status \in [Msg -> Status] BY WordsAre DEF TypeOK
<1>. HIDE DEF m
<1>4. /\ status' \in [Msg -> Status] /\ envelope' \subseteq Msg
      /\ told' \in [Msg -> 0..2] /\ unclear' \in [Msg -> 0..(UnclearLimit - 1)]
  <2>1. CASE Fails(<<m>>, queue, l) BY <1>2, <2>1, QueueOrderly, FailsTypes
  <2>2. CASE /\ status' = SetStatus(m, "cancelled") /\ envelope' = envelope \ {m}
             /\ unclear' = [unclear EXCEPT ![m] = 0] /\ UNCHANGED told
    <3>1. status' \in [Msg -> Status] BY <1>2, <1>3, <2>2, SetIs
    <3>. QED BY <2>2, <3>1, WordsAre DEF TypeOK
  <2>3. CASE unclear' = [unclear EXCEPT ![m] = 0] /\ UNCHANGED <<status, envelope, told>>
    BY <2>3, WordsAre DEF TypeOK
  <2>. QED BY <1>1, <2>1, <2>2, <2>3
<1>5. Rest' BY <1>1, <1>4 DEF TypeOK, Rest, Types1, registry
<1>. QED BY <1>1, <1>3, <1>5, EndedTypes

LEMMA HookTypes ==
  ASSUME TypeOK, QInv, NEW p \in Pane, NEW ok \in BOOLEAN, SettleHookDrain(p, ok)
  PROVE  Types'
<1>. DEFINE m == queue[p][1]
<1>1. Types BY TypesAre
<1>2. /\ delivering' = delivering \ {p} /\ flight' = [flight EXCEPT ![p] = None]
      /\ stage' = [stage EXCEPT ![p] = "none"]
      /\ UNCHANGED <<registry, readReserved, cancelRequested, unclear, unconfirmed, paused, reading, shown, told>>
      /\ \/ /\ envelope' = envelope \ {m} /\ status' = [status EXCEPT ![m] = "delivered"]
            /\ AckInbound({m}, "ok") /\ UNCHANGED route
         \/ /\ status' = [status EXCEPT ![m] = "queued"] /\ route' = [route EXCEPT ![m] = "none"]
            /\ UNCHANGED <<envelope, remoteInbound, verdict>>
         \/ UNCHANGED <<status, route, envelope, remoteInbound, verdict>>
  BY DEF SettleHookDrain, row
<1>. HIDE DEF m
<1>3. "ok" \in Verdict BY WordsAre
<1>4. remoteInbound' \subseteq Inbound /\ verdict' \in [Msg -> SUBSET Verdict]
  <2>1. CASE AckInbound({m}, "ok") BY <1>1, <1>3, <2>1, AckTypes
  <2>2. CASE UNCHANGED <<remoteInbound, verdict>> BY <1>1, <2>2 DEF Types, Types2, Types4
  <2>. QED BY <1>2, <2>1, <2>2
<1>5. status' \in [Msg -> Status] /\ route' \in [Msg -> Route] /\ envelope' \subseteq Msg
  BY <1>1, <1>2, WordsAre DEF Types, Types1, Types2
<1>6. flight' \in [Pane -> Msg \cup {None}] /\ stage' \in [Pane -> Stage] /\ delivering' \subseteq Pane
  BY <1>1, <1>2, WordsAre DEF Types, Types2, Types3
<1>. QED BY <1>1, <1>2, <1>4, <1>5, <1>6 DEF Types, Types1, Types2, Types3, Types4, registry

LEMMA ReadTypes ==
  ASSUME TypeOK, QInv, NEW p \in Pane, NEW m \in Msg, NEW ok \in BOOLEAN,
         ReserveIncoming(p, m) \/ SettleIncomingRead(p, m, ok) \/ ExpireReadReservation(m)
  PROVE  Types'
<1>1. Types BY TypesAre
<1>2. CASE ReserveIncoming(p, m)
  <2>1. /\ readReserved' = [readReserved EXCEPT ![m] = p] /\ status' = [status EXCEPT ![m] = "delivering"]
        /\ route' = [route EXCEPT ![m] = "read"] /\ reading' = reading \cup {<<p, m>>}
        /\ UNCHANGED <<registry, envelope, cancelRequested, unclear, remoteInbound, unconfirmed,
                       handover, paused, history>>
    BY <1>2 DEF ReserveIncoming
  <2>. QED BY <1>1, <2>1, WordsAre DEF Types, Types1, Types2, Types3, Types4, registry, handover, history
<1>3. CASE ExpireReadReservation(m)
  <2>1. /\ UNCHANGED <<registry, envelope, cancelRequested, unclear, remoteInbound, unconfirmed,
                       handover, paused, reading, history>>
        /\ readReserved' = [readReserved EXCEPT ![m] = None]
        /\ \/ status' = [status EXCEPT ![m] = "queued"] /\ route' = [route EXCEPT ![m] = "none"]
           \/ UNCHANGED <<status, route>>
    BY <1>3 DEF ExpireReadReservation, Released, row
  <2>. QED BY <1>1, <2>1, WordsAre DEF Types, Types1, Types2, Types3, Types4, registry, handover, history
<1>4. CASE SettleIncomingRead(p, m, ok)
  <2>1. /\ reading' = reading \ {<<p, m>>}
        /\ shown' = IF ok THEN [shown EXCEPT ![m] = MoreOnce(@)] ELSE shown
        /\ UNCHANGED <<registry, cancelRequested, unconfirmed, handover, paused, told>>
        /\ \/ AckInbound({m}, "ok") \/ UNCHANGED <<remoteInbound, verdict>>
        /\ readReserved' = [readReserved EXCEPT ![m] = None] \/ UNCHANGED readReserved
        /\ unclear' = [unclear EXCEPT ![m] = 0] \/ UNCHANGED unclear
        /\ envelope' = envelope \ {m} \/ UNCHANGED envelope
        /\ \/ status' = [status EXCEPT ![m] = "delivered"]
           \/ status' = [status EXCEPT ![m] = "queued"]
           \/ UNCHANGED status
        /\ route' = [route EXCEPT ![m] = "none"] \/ UNCHANGED route
    BY <1>4 DEF SettleIncomingRead, Released, row
  <2>2. "ok" \in Verdict BY WordsAre
  <2>3. remoteInbound' \subseteq Inbound /\ verdict' \in [Msg -> SUBSET Verdict]
    <3>1. CASE AckInbound({m}, "ok") BY <1>1, <2>2, <3>1, AckTypes
    <3>2. CASE UNCHANGED <<remoteInbound, verdict>> BY <1>1, <3>2 DEF Types, Types2, Types4
    <3>. QED BY <2>1, <3>1, <3>2
  <2>4. shown' \in [Msg -> 0..2] BY <1>1, <2>1, WordsAre DEF Types, Types4
  <2>5. status' \in [Msg -> Status] /\ route' \in [Msg -> Route] BY <1>1, <2>1, WordsAre DEF Types, Types1
  <2>6. /\ readReserved' \in [Msg -> Pane \cup {None}] /\ envelope' \subseteq Msg
        /\ unclear' \in [Msg -> 0..(UnclearLimit - 1)]
    BY <1>1, <2>1, WordsAre DEF Types, Types2
  <2>. QED BY <1>1, <2>1, <2>3, <2>4, <2>5, <2>6
       DEF Types, Types1, Types2, Types3, Types4, registry, handover
<1>. QED BY <1>2, <1>3, <1>4

LEMMA WithdrawTypes ==
  ASSUME TypeOK, QInv, NEW p \in Pane, NEW m \in Msg, NEW l, CancelQueued(m) \/ ExpireTerminal(p, m, l)
  PROVE  Types'
<1>1. Types BY TypesAre
<1>2. AckInbound({m}, "failed") /\ status[m] = "queued"
      /\ UNCHANGED <<registry, route, readReserved, cancelRequested, unconfirmed, handover, paused, reading, shown>>
  BY DEF CancelQueued, ExpireTerminal, StaleInTerminal
<1>3. remoteInbound' \subseteq Inbound /\ verdict' \in [Msg -> SUBSET Verdict]
  BY <1>1, <1>2, WordsAre, AckTypes
<1>4. /\ status' \in [Msg -> Status] /\ envelope' \subseteq Msg
      /\ told' \in [Msg -> 0..2] /\ unclear' \in [Msg -> 0..(UnclearLimit - 1)]
  <2>1. CASE CancelQueued(m)
    BY <1>1, <2>1, WordsAre DEF CancelQueued, Unqueue, Types, Types1, Types2, Types4
  <2>2. CASE ExpireTerminal(p, m, l)
    <3>1. Fails(<<m>>, [queue EXCEPT ![p] = Without(@, m)], l) /\ m \in Range(queue[p])
      BY <2>2 DEF ExpireTerminal, StaleInTerminal
    <3>2. Orderly([queue EXCEPT ![p] = Without(@, m)]) BY <3>1, QueueOrderly, FlowWithoutHere DEF Flow
    <3>. QED BY <1>2, <3>1, <3>2, FailsTypes
  <2>. QED BY <2>1, <2>2
<1>. QED BY <1>1, <1>2, <1>3, <1>4 DEF Types, Types1, Types2, Types3, Types4, registry, handover
-----------------------------------------------------------------------------
(* The theorems.                                                           *)

LEMMA InitSound == Init => TypeOK /\ QInv
<1>1. SUFFICES ASSUME Init PROVE TypeOK /\ QInv OBVIOUS
<1>2. Types
  <2>1. Types1 BY <1>1, WordsAre DEF Init, Types1
  <2>2. Types2 BY <1>1, WordsAre DEF Init, Types2
  <2>3. Types3 BY <1>1, WordsAre DEF Init, Types3
  <2>4. Types4 BY <1>1, WordsAre DEF Init, Types4
  <2>. QED BY <2>1, <2>2, <2>3, <2>4 DEF Types
<1>3. queue \in [Pane -> Seq(Msg)] /\ \A p \in Pane : queue[p] = << >> /\ Len(queue[p]) <= QueueCap
  BY <1>1, QueueConstants DEF Init
<1>4. TypeOK BY <1>2, <1>3, TypesAre
<1>5. Open = {} BY <1>1 DEF Init, Open
<1>6. \A m : ~Queued(m) BY <1>3 DEF Queued, Range
<1>7. PaneInv BY <1>1, <1>3, <1>5 DEF Init, PaneInv
<1>8. FlightInv BY <1>1 DEF Init, FlightInv
<1>9. WaitInv BY <1>1, <1>6 DEF Init, WaitInv
<1>10. QueuedOnce BY <1>3 DEF QueuedOnce
<1>11. InboundReported BY <1>1, <1>6, WordsAre DEF Init, InboundReported
<1>. QED BY <1>4, <1>7, <1>8, <1>9, <1>10, <1>11 DEF QInv

\* A step of Next by the kind of lemma that covers it.
PaneStep ==
  \/ \E p \in Pane, n \in Name : Register(p, n) \/ Rename(p, n)
  \/ \E p \in Pane, l \in Limits : Unregister(p, l)
  \/ \E p, r \in Pane, l \in Limits : ReplacePane(p, r, l)
SendStep ==
  \/ \E m \in Post, over \in BOOLEAN, l \in Limits : Send(m, over, l)
  \/ \E m \in Post, over \in BOOLEAN : AcceptRemote(m, over)
  \/ \E m \in Msg : Evict(m)
PumpStep == \E p \in Pane : PumpPane(p) \/ Lands(p) \/ PushDeclined(p) \/ Finish(p)
ReadStep ==
  \/ \E p \in Pane : DrainForHook(p) \/ \E ok \in BOOLEAN : SettleHookDrain(p, ok)
  \/ \E p \in Pane, m \in Msg : ReserveIncoming(p, m) \/ LoseRead(p, m)
  \/ \E p \in Pane, m \in Msg, ok \in BOOLEAN : SettleIncomingRead(p, m, ok)
OtherStep ==
  \/ \E m \in Msg : ConfirmDelivery(m)
  \/ \E m \in Msg : ExpireReadReservation(m) \/ CancelQueued(m)
  \/ \E p \in Pane : CancelTyping(p)
  \/ \E p \in Pane, m \in Msg, l \in Limits : ExpireTerminal(p, m, l)

LEMMA NextIs == Next => PaneStep \/ SendStep \/ PumpStep \/ ReadStep \/ OtherStep \/ Pause
BY DEF Next, PaneStep, SendStep, PumpStep, ReadStep, OtherStep

LEMMA PaneSteps == ASSUME TypeOK, QInv, PaneStep PROVE Sound' /\ Types'
<1>1. CASE \E p \in Pane, n \in Name : Register(p, n) \/ Rename(p, n)
  BY <1>1, RegisterKeeps, RenameKeeps, RegistryTypes
<1>2. CASE \E p \in Pane, l \in Limits : Unregister(p, l) BY <1>2, UnregisterKeeps, UnregisterTypes
<1>3. CASE \E p, r \in Pane, l \in Limits : ReplacePane(p, r, l) BY <1>3, ReplaceKeeps, ReplaceTypes
<1>. QED BY <1>1, <1>2, <1>3 DEF PaneStep

LEMMA SendSteps == ASSUME TypeOK, QInv, SendStep PROVE Sound' /\ Types'
BY SendKeeps, SendTypes, AcceptKeeps, AcceptTypes, EvictKeeps, EvictTypes DEF SendStep

LEMMA PumpSteps == ASSUME TypeOK, QInv, PumpStep PROVE Sound' /\ Types'
<1>1. PICK p \in Pane : PumpPane(p) \/ Lands(p) \/ PushDeclined(p) \/ Finish(p) BY DEF PumpStep
<1>2. CASE PumpPane(p)
  BY <1>2, StartKeeps, StartTypes, DropHeadKeeps, RefuseHeadKeeps, HeadTypes DEF PumpPane
<1>3. CASE Lands(p) \/ PushDeclined(p)
  <2>1. stage[p] # "none" BY <1>3 DEF Lands, PushDeclined
  <2>2. flight[p] \in Msg BY <2>1, CarriedIs
  <2>. QED BY <1>3, <2>2, QuietKeeps, QuietTypes
<1>4. CASE Finish(p)
  <2>1. CASE \E k \in {0, 1} : Requeue(p, k) BY <2>1, RequeueKeeps, RequeueTypes
  <2>2. CASE \E c \in BOOLEAN : Delivered(p, c) BY <2>2, DeliveredKeeps, DeliveredTypes
  <2>3. CASE \E l \in Limits : FlightFailed(p, l) \/ NotInjected(p, l)
    BY <2>3, FlightFailedKeeps, NotInjectedKeeps, FailedTypes
  <2>. QED BY <1>4, <2>1, <2>2, <2>3 DEF Finish
<1>. QED BY <1>1, <1>2, <1>3, <1>4

LEMMA ReadSteps == ASSUME TypeOK, QInv, ReadStep PROVE Sound' /\ Types'
<1>1. CASE \E p \in Pane : DrainForHook(p) BY <1>1, StartKeeps, StartTypes
<1>2. CASE \E p \in Pane, ok \in BOOLEAN : SettleHookDrain(p, ok) BY <1>2, HookDrainKeeps, HookTypes
<1>3. CASE \E p \in Pane, m \in Msg : ReserveIncoming(p, m) BY <1>3, ReserveKeeps, ReadTypes
<1>4. CASE \E p \in Pane, m \in Msg : LoseRead(p, m) BY <1>4, QuietKeeps, QuietTypes
<1>5. CASE \E p \in Pane, m \in Msg, ok \in BOOLEAN : SettleIncomingRead(p, m, ok)
  BY <1>5, SettleReadKeeps, ReadTypes
<1>. QED BY <1>1, <1>2, <1>3, <1>4, <1>5 DEF ReadStep

LEMMA OtherSteps == ASSUME TypeOK, QInv, OtherStep PROVE Sound' /\ Types'
<1>1. ASSUME NEW m \in Msg, ConfirmDelivery(m) PROVE Sound' /\ Types'
  <2>1. unconfirmed[m] \in Pane BY <1>1 DEF ConfirmDelivery, TypeOK
  <2>. QED BY <1>1, <2>1, QuietKeeps, QuietTypes
<1>2. ASSUME NEW m \in Msg, ExpireReadReservation(m) PROVE Sound' /\ Types'
  <2>1. readReserved[m] \in Pane BY <1>2 DEF ExpireReadReservation, TypeOK
  <2>. QED BY <1>2, <2>1, ExpireReadKeeps, ReadTypes
<1>3. ASSUME NEW m \in Msg, CancelQueued(m) PROVE Sound' /\ Types'
  <2>1. \E p \in Pane : m \in Range(queue[p]) BY <1>3 DEF CancelQueued, Unqueue, Queued
  <2>. QED BY <1>3, <2>1, CancelQueuedKeeps, WithdrawTypes
<1>4. ASSUME NEW p \in Pane, CancelTyping(p) PROVE Sound' /\ Types'
  <2>1. flight[p] \in Msg BY <1>4, CarriedIs DEF CancelTyping
  <2>. QED BY <1>4, <2>1, QuietKeeps, QuietTypes
<1>5. ASSUME NEW p \in Pane, NEW m \in Msg, NEW l \in Limits, ExpireTerminal(p, m, l) PROVE Sound' /\ Types'
  BY <1>5, ExpireTerminalKeeps, WithdrawTypes
<1>. QED BY <1>1, <1>2, <1>3, <1>4, <1>5 DEF OtherStep

LEMMA StepSound == ASSUME TypeOK, QInv, [Next]_vars PROVE TypeOK' /\ QInv'
<1>1. Sound' /\ Types'
  BY NextIs, PaneSteps, SendSteps, PumpSteps, ReadSteps, OtherSteps, StillKeeps, StillTypes
<1>2. Orderly(queue') /\ QInv' BY <1>1 DEF Sound
<1>. QED BY <1>1, <1>2, TypesSuffice

LEMMA AlwaysSound == Spec => [](TypeOK /\ QInv)
<1>1. Init => TypeOK /\ QInv BY InitSound
<1>2. TypeOK /\ QInv /\ [Next]_vars => (TypeOK /\ QInv)' BY StepSound
<1>. QED BY <1>1, <1>2, PTL DEF Spec

LEMMA HeadIsTaken == ASSUME QInv PROVE InFlightIsHead
<1>1. SUFFICES ASSUME NEW p \in Pane
               PROVE  /\ p \in delivering => stage[p] # "none" /\ AtHead(p, flight[p])
                      /\ p \in Open /\ stage[p] # "none" => p \in delivering
  BY DEF InFlightIsHead
<1>. QED BY DEF QInv, PaneInv, FlightInv, FlightOf

LEMMA RoutesAreOne == ASSUME QInv PROVE OneRoute
<1>1. \A p \in Pane : stage[p] # "none" => FlightOf(p) BY DEF QInv, FlightInv
<1>2. \A p \in Pane : stage[p] # "none" => readReserved[flight[p]] = None BY <1>1 DEF FlightOf
<1>3. ASSUME NEW p \in Pane, NEW r \in Pane, stage[p] # "none", flight[p] = flight[r] PROVE p = r
  <2>1. FlightOf(p) /\ flight[p] \in Msg BY <1>1, <1>3 DEF FlightOf
  <2>2. None \notin Msg BY QueueConstants DEF Msg
  <2>3. stage[r] # "none" BY <1>3, <2>1, <2>2 DEF QInv, PaneInv
  <2>. QED BY <1>3, <2>1, <2>3 DEF FlightOf
<1>. QED BY <1>2, <1>3 DEF OneRoute

\* Every variable of the queue holds what its declaration says, no queue outgrows
\* QUEUE_CAP, whatever fails and however many notices that sends.
THEOREM QueueTypeCorrect == Spec => []TypeOK
BY AlwaysSound, PTL

\* pumpPane and settleHookDrain shift the head of a queue without looking at it:
\* it is always the message they took, whatever was sent, read, withdrawn,
\* expired, evicted or handed to another pane while they awaited.
THEOREM HeadStaysInHand == Spec => []InFlightIsHead
<1>1. QInv => InFlightIsHead BY HeadIsTaken
<1>. QED BY <1>1, AlwaysSound, PTL

\* A message waits in one queue, at one place: neither a push of failure notices
\* nor handOverQueue ever copies an entry.
THEOREM NeverQueuedTwice == Spec => []QueuedOnce
<1>1. QInv => QueuedOnce BY DEF QInv
<1>. QED BY <1>1, AlwaysSound, PTL

\* What the recipient has reserved to read nobody hands over, and no two panes
\* hand over the same message, across closings and rebuilds.
THEOREM OneRouteOnly == Spec => []OneRoute
<1>1. QInv => OneRoute BY RoutesAreOne
<1>. QED BY <1>1, AlwaysSound, PTL

\* The window a message came from is owed a report exactly while it waits here,
\* and has had one once it does not: also when its pane is closed or replaced
\* under a hand-over, or its row is evicted from the log.
THEOREM SenderWindowIsTold == Spec => []InboundReported
<1>1. QInv => InboundReported BY DEF QInv
<1>. QED BY <1>1, AlwaysSound, PTL
=============================================================================
