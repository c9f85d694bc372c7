------------------------- MODULE PaneLineageProofs --------------------------
(***************************************************************************)
(* Theorems about PaneLineage: its steps are steps of the registry, so that *)
(* the registry's invariant holds of it too, and with it the ids of a CLI   *)
(* keep resolving to the pane it runs in, for any number of rebuilds.       *)
(***************************************************************************)
EXTENDS PaneLineage, PaneRegistryProofs

LineTyped ==
    /\ line \in Seq(PaneId)
    /\ holds \in [Conn -> SUBSET PaneId]
    /\ swept \in BOOLEAN
    /\ overlapped \in BOOLEAN

\* Every id of the CLI is minted once, in the CLI's one workspace, and the
\* windows hold pane objects of these ids only.
MintedOnce ==
    /\ \A i, j \in 1..Len(line) : line[i] = line[j] => i = j
    /\ \A i, j \in 1..Len(line) : WorkspaceOf[line[i]] = WorkspaceOf[line[j]]
    /\ \A c \in Conn : holds[c] \subseteq LineIds

\* The former id k names the pane q.
Names(k, q) == aliases[k] # NoAlias /\ aliases[k].pane = q

\* The registry knows no ids but those of the CLI.
AliasesInLine ==
    \A k \in PaneId : aliases[k] # NoAlias => k \in LineIds /\ aliases[k].pane \in LineIds

\* The newest id has never been declared a former one.
NewestIsNoFormer == line # <<>> => aliases[Newest] = NoAlias

\* PredecessorResolves, of a registered pane instead of an online one.
LastFormerNames ==
    Len(line) > 1 /\ Registered(Newest) => Names(line[Len(line) - 1], Newest)

\* No window unregisters the newest pane: only a sweep removes it.
KnownUntilSwept == line # <<>> /\ ~swept => Registered(Newest)

\* Without overlap only the newest pane object is left in any window, so no
\* re-mirror of a superseded one can take a former id over.
OneHolder == ~overlapped => \A c \in Conn : \A q \in holds[c] : q = Newest

\* LineResolvesUntilSwept, whether or not the window is connected.
AllNamesUntilSwept ==
    ~swept /\ ~overlapped => \A i \in 1..Len(line) : i # Len(line) => Names(line[i], Newest)

\* The inductive invariant, beside the registry's IInv.
LInv ==
    /\ LineTyped /\ MintedOnce /\ AliasesInLine /\ NewestIsNoFormer
    /\ LastFormerNames /\ KnownUntilSwept /\ OneHolder /\ AllNamesUntilSwept

-----------------------------------------------------------------------------
\* The ids of the line and their places.
LEMMA LineFacts ==
    ASSUME LineTyped
    PROVE  /\ Len(line) \in Nat
           /\ LineIds \subseteq PaneId
           /\ \A i \in 1..Len(line) : line[i] \in LineIds
           /\ line # <<>> => Len(line) \in 1..Len(line) /\ Newest \in LineIds
           /\ line = <<>> => Len(line) = 0 /\ LineIds = {}
BY DEF LineTyped, LineIds, Newest

\* formerPaneIds of a pane of the line is the id before it.
LEMMA FormerIsPredecessor ==
    ASSUME LineTyped, MintedOnce, NEW i \in 1..Len(line)
    PROVE  FormerOf(line[i]) = IF i = 1 THEN NoFormer ELSE line[i - 1]
<1> DEFINE j == CHOOSE n \in 1..Len(line) : line[n] = line[i]
<1>1. j \in 1..Len(line) /\ line[j] = line[i]
  OBVIOUS
<1>2. j = i
  BY <1>1 DEF MintedOnce
<1>3. FormerOf(line[i]) = IF j = 1 THEN NoFormer ELSE line[j - 1]
  BY DEF FormerOf
<1> HIDE DEF j
<1> QED BY <1>2, <1>3

\* What one claim (add_aliases) may do to an alias.
LEMMA ClaimEffect ==
    ASSUME IInv, NEW c \in Conn, NEW p \in PaneId, NEW f \in PaneId \cup {NoFormer},
           RegisterPane(c, p, FALSE, f), NEW k \in PaneId
    PROVE  \/ aliases'[k] = aliases[k]
           \/ /\ f \in PaneId
              /\ k = f \/ Names(k, f)
              /\ k # p
              /\ aliases'[k] # NoAlias /\ aliases'[k].pane = p
           \/ f \in PaneId /\ Names(k, f) /\ k = p /\ aliases'[k] = NoAlias
<1> DEFINE reg == [panes EXCEPT ![p] = [ws |-> WorkspaceOf[p], dock |-> FALSE, age |-> Online]]
           toP == [pane |-> p, ws |-> WorkspaceOf[p]]
<1>1. aliases' = AddAliases(reg, p, f)
  BY DEF RegisterPane
<1>2. toP # NoAlias /\ toP.pane = p
  BY RegistryAssumption DEF RegistryAssumption, Alias
<1> HIDE DEF reg
<1>3. CASE ~AliasAccepted(reg, p, f)
  BY <1>1, <1>3 DEF AddAliases
<1>4. CASE AliasAccepted(reg, p, f)
  <2>1. f \in PaneId /\ f # p
    BY <1>4 DEF AliasAccepted
  <2>2. aliases'[k] = IF k = f THEN toP
                      ELSE IF aliases[k] # NoAlias /\ aliases[k].pane = f
                           THEN IF k = p THEN NoAlias ELSE toP
                           ELSE aliases[k]
    BY <1>1, <1>4 DEF AddAliases
  <2> HIDE DEF toP
  <2> QED BY <1>2, <2>1, <2>2 DEF Names
<1> QED BY <1>3, <1>4

\* The former id f, and the pane it names by now, are of p's own workspace.
Homely(p, f) ==
    /\ f # p
    /\ WorkspaceOf[f] = WorkspaceOf[p]
    /\ aliases[f] # NoAlias => WorkspaceOf[aliases[f].pane] = WorkspaceOf[p]

\* A claim within one workspace is taken: the former id and all that named it
\* name the claiming pane.
LEMMA ClaimTaken ==
    ASSUME IInv, NEW c \in Conn, NEW p \in PaneId, NEW f \in PaneId,
           RegisterPane(c, p, FALSE, f), Homely(p, f),
           NEW k \in PaneId, k = f \/ (Names(k, f) /\ k # p)
    PROVE  Names(k, p)'
<1> DEFINE reg == [panes EXCEPT ![p] = [ws |-> WorkspaceOf[p], dock |-> FALSE, age |-> Online]]
           toP == [pane |-> p, ws |-> WorkspaceOf[p]]
<1>1. aliases' = AddAliases(reg, p, f)
  BY DEF RegisterPane
<1>2. toP # NoAlias /\ toP.pane = p
  BY RegistryAssumption DEF RegistryAssumption, Alias
<1>3. reg[f] = panes[f]
  BY DEF IInv, TypeOK, Homely
<1>4. reg[f] = NoPane \/ reg[f].ws = WorkspaceOf[p]
  BY <1>3 DEF IInv, PaneKeepsWorkspace, Registered, Homely
<1>5. aliases[f] = NoAlias \/ aliases[f].ws = WorkspaceOf[p]
  BY DEF IInv, AliasTargetRegistered, Homely
<1>6. f \notin {NoFormer, p}
  BY RegistryAssumption DEF RegistryAssumption, Homely
<1> HIDE DEF reg
<1>7. AliasAccepted(reg, p, f)
  BY <1>4, <1>5, <1>6 DEF AliasAccepted
<1>8. aliases'[k] = IF k = f THEN toP
                    ELSE IF aliases[k] # NoAlias /\ aliases[k].pane = f
                         THEN IF k = p THEN NoAlias ELSE toP
                         ELSE aliases[k]
  BY <1>1, <1>7 DEF AddAliases
<1> HIDE DEF toP
<1> QED BY <1>2, <1>8 DEF Names
\* Registering a pane registers that pane and no other.
LEMMA RegistersOne ==
    ASSUME IInv, NEW c \in Conn, NEW p \in PaneId, NEW f, RegisterPane(c, p, FALSE, f)
    PROVE  \A q \in PaneId : Registered(q)' <=> q = p \/ Registered(q)
<1> DEFINE e == [ws |-> WorkspaceOf[p], dock |-> FALSE, age |-> Online]
<1>1. e \in Entry
  BY RegistryAssumption DEF RegistryAssumption, Entry, Online
<1>2. panes' = [panes EXCEPT ![p] = e]
  BY DEF RegisterPane
<1>3. e # NoPane
  BY <1>1, RegistryAssumption DEF RegistryAssumption
<1> HIDE DEF e
<1> QED BY <1>2, <1>3 DEF Registered, IInv, TypeOK

\* Under the invariant each step of the lineage is a step of the registry.
LEMMA StepsOfTheRegistry ==
    ASSUME LInv, LineageNext
    PROVE  [Next]_vars
<1>1. LineTyped /\ MintedOnce
  BY DEF LInv
<1>2. ASSUME NEW c \in Conn, NEW p \in PaneId, Spawn(c, p) PROVE Next
  BY <1>2 DEF Spawn, Next
<1>3. ASSUME NEW c \in Conn, NEW p \in PaneId, Restore(c, p) PROVE Next
  <2>1. Newest \in PaneId
    BY <1>1, <1>3, LineFacts DEF Restore
  <2> QED BY <1>3, <2>1 DEF Restore, Next
<1>4. ASSUME NEW c \in Conn, NEW p \in PaneId, Remirror(c, p) PROVE Next
  <2>1. PICK i \in 1..Len(line) : p = line[i]
    BY <1>1, <1>4 DEF Remirror, MintedOnce, LineIds
  <2>2. i # 1 => i - 1 \in 1..Len(line)
    BY <1>1, LineFacts
  <2>3. FormerOf(p) \in PaneId \cup {NoFormer}
    BY <1>1, <2>1, <2>2, FormerIsPredecessor, LineFacts
  <2> QED BY <1>4, <2>3 DEF Remirror, Next
<1>5. ASSUME NEW c \in Conn, NEW p \in PaneId, LetGo(c, p) PROVE [Next]_vars
  BY <1>5 DEF LetGo, Unregister, Next
<1>6. ASSUME NEW c \in Conn, Reload(c) \/ Reconnect(c) PROVE Next
  BY <1>6 DEF Reload, Reconnect, Next
<1>7. ASSUME Sweep \/ Tick PROVE Next
  BY <1>7 DEF Sweep, Next
<1> QED BY <1>2, <1>3, <1>4, <1>5, <1>6, <1>7 DEF LineageNext

\* A step that takes panes away, and with each of them the ids that named it.
LEMMA TakingAway ==
    ASSUME LInv, NEW P \in SUBSET PaneId,
           UNCHANGED <<line, overlapped>>,
           holds' \in [Conn -> SUBSET PaneId],
           \A c \in Conn : holds'[c] \subseteq holds[c],
           swept' \in BOOLEAN, swept => swept',
           line # <<>> /\ ~swept' => Newest \notin P,
           \A k \in PaneId :
              aliases'[k] = IF aliases[k] # NoAlias /\ aliases[k].pane \in P
                            THEN NoAlias ELSE aliases[k],
           \A q \in PaneId : Registered(q)' <=> Registered(q) /\ q \notin P
    PROVE  LInv'
<1>1. LineTyped /\ LineTyped'
  BY DEF LInv, LineTyped
<1>2. /\ Len(line) \in Nat /\ LineIds \subseteq PaneId
      /\ \A i \in 1..Len(line) : line[i] \in PaneId
      /\ Len(line) > 1 => line # <<>> /\ Len(line) - 1 \in 1..Len(line)
      /\ line # <<>> => Newest \in PaneId
  BY <1>1, LineFacts
<1>3. LineIds' = LineIds /\ Newest' = Newest
  BY DEF LineIds, Newest
<1>4. MintedOnce'
  BY <1>3 DEF LInv, MintedOnce
<1>5. AliasesInLine'
  BY <1>3 DEF LInv, AliasesInLine
<1>6. NewestIsNoFormer'
  BY <1>2, <1>3 DEF LInv, NewestIsNoFormer
<1>7. LastFormerNames'
  BY <1>2, <1>3 DEF LInv, LastFormerNames, Names
<1>8. KnownUntilSwept'
  BY <1>2, <1>3 DEF LInv, KnownUntilSwept
<1>9. OneHolder'
  BY <1>3 DEF LInv, OneHolder
<1>10. AllNamesUntilSwept'
  <2> SUFFICES ASSUME ~swept', ~overlapped, NEW i \in 1..Len(line), i # Len(line)
               PROVE  aliases'[line[i]] # NoAlias /\ aliases'[line[i]].pane = Newest
    BY <1>3 DEF AllNamesUntilSwept, Names
  <2>1. line # <<>>
    BY <1>1, LineFacts
  <2>2. Names(line[i], Newest)
    BY DEF LInv, AllNamesUntilSwept
  <2> QED BY <1>2, <2>1, <2>2 DEF Names
<1> QED BY <1>1, <1>4, <1>5, <1>6, <1>7, <1>8, <1>9, <1>10 DEF LInv
-----------------------------------------------------------------------------
\* The three steps that claim an id.

LEMMA SpawnKeeps ==
    ASSUME LInv, IInv, NEW c \in Conn, NEW p \in PaneId, Spawn(c, p)
    PROVE  LInv'
<1>1. /\ line = <<>> /\ line' = <<p>>
      /\ RegisterPane(c, p, FALSE, NoFormer)
      /\ holds' = [holds EXCEPT ![c] = @ \cup {p}]
      /\ UNCHANGED <<swept, overlapped>>
  BY DEF Spawn, Register, Hold
<1>2. LineTyped /\ LineIds = {}
  BY <1>1, LineFacts DEF LInv
<1>3. LineTyped'
  BY <1>1, <1>2 DEF LineTyped
<1>4. Len(line)' = 1 /\ line'[1] = p /\ LineIds' = {p} /\ Newest' = p
  BY <1>1 DEF LineIds, Newest
<1>5. \A d \in Conn : holds'[d] = IF d = c THEN {p} ELSE {}
  BY <1>1, <1>2 DEF LInv, MintedOnce, LineTyped
<1>6. \A k \in PaneId : aliases'[k] = NoAlias
  <2> SUFFICES ASSUME NEW k \in PaneId PROVE aliases'[k] = NoAlias
    OBVIOUS
  <2>1. aliases[k] = NoAlias
    BY <1>2 DEF LInv, AliasesInLine
  <2>2. NoFormer \notin PaneId /\ NoFormer \in PaneId \cup {NoFormer}
    BY RegistryAssumption DEF RegistryAssumption
  <2>3. RegisterPane(c, p, FALSE, NoFormer)
    BY <1>1
  <2>4. aliases'[k] = aliases[k]
    BY <2>2, <2>3, ClaimEffect
  <2> QED BY <2>1, <2>4
<1>7. Registered(p)'
  BY <1>1, RegistersOne
<1>8. MintedOnce'
  BY <1>4, <1>5 DEF MintedOnce
<1>9. AliasesInLine' /\ NewestIsNoFormer' /\ KnownUntilSwept'
  BY <1>4, <1>6, <1>7 DEF AliasesInLine, NewestIsNoFormer, KnownUntilSwept
<1>10. LastFormerNames' /\ AllNamesUntilSwept'
  BY <1>4 DEF LastFormerNames, AllNamesUntilSwept
<1>11. OneHolder'
  BY <1>4, <1>5 DEF OneHolder
<1> QED BY <1>3, <1>8, <1>9, <1>10, <1>11 DEF LInv

LEMMA RestoreKeeps ==
    ASSUME LInv, IInv, NEW c \in Conn, NEW p \in PaneId, Restore(c, p)
    PROVE  LInv'
<1> DEFINE n == Len(line)
           f == Newest
<1>1. /\ line # <<>> /\ p \notin LineIds /\ holds[c] = {}
      /\ WorkspaceOf[p] = WorkspaceOf[f]
      /\ RegisterPane(c, p, FALSE, f)
      /\ line' = Append(line, p)
      /\ holds' = [holds EXCEPT ![c] = @ \cup {p}]
      /\ overlapped' = (overlapped \/ \E d \in Conn : f \in holds[d])
      /\ UNCHANGED swept
  BY DEF Restore, Register, Hold
<1>2. LineTyped /\ MintedOnce
  BY DEF LInv
<1>3. /\ n \in Nat /\ n \in 1..n /\ f = line[n]
      /\ \A i \in 1..n : line[i] \in LineIds
      /\ LineIds \subseteq PaneId /\ f \in LineIds /\ f \in PaneId /\ f # p
  BY <1>1, <1>2, LineFacts DEF Newest
<1>4. LineTyped'
  BY <1>1, <1>2 DEF LineTyped
<1>5. /\ Len(line)' = n + 1 /\ line'[n + 1] = p
      /\ \A i \in 1..n : line'[i] = line[i]
  BY <1>1, <1>2 DEF LineTyped
<1> HIDE DEF n
<1>6. \A i \in 1..Len(line') : i = n + 1 \/ i \in 1..n
  BY <1>3, <1>5
<1>7. LineIds' = LineIds \cup {p} /\ Newest' = p
  <2>1. LineIds = {line[i] : i \in 1..n}
    BY DEF LineIds, n
  <2>2. LineIds' = {line'[i] : i \in 1..n + 1}
    BY <1>5 DEF LineIds
  <2>3. 1..n + 1 = (1..n) \cup {n + 1}
    BY <1>3
  <2>4. LineIds' = LineIds \cup {p}
    BY <1>5, <2>1, <2>2, <2>3
  <2> QED BY <1>5, <2>4 DEF Newest
<1> HIDE DEF f
<1>8. \A d \in Conn : holds'[d] = IF d = c THEN {p} ELSE holds[d]
  BY <1>1, <1>2 DEF LineTyped
<1>9. aliases[f] = NoAlias /\ aliases[p] = NoAlias
  BY <1>1 DEF LInv, NewestIsNoFormer, AliasesInLine, f
<1>0. RegisterPane(c, p, FALSE, f) /\ WorkspaceOf[f] = WorkspaceOf[p]
  BY <1>1
<1>10. ASSUME NEW k \in PaneId, k = f \/ (Names(k, f) /\ k # p) PROVE Names(k, p)'
  <2>1. f \in PaneId /\ Homely(p, f)
    BY <1>0, <1>3, <1>9 DEF Homely
  <2> QED BY <1>0, <1>10, <2>1, ClaimTaken
<1>11. \A k \in PaneId :
          \/ aliases'[k] = aliases[k]
          \/ /\ k = f \/ Names(k, f)
             /\ aliases'[k] # NoAlias /\ aliases'[k].pane = p
          \/ aliases'[k] = NoAlias
  <2>1. f \in PaneId \cup {NoFormer}
    BY <1>3
  <2> QED BY <1>0, <2>1, ClaimEffect
<1>12. aliases'[p] = NoAlias
  BY <1>3, <1>9, <1>11 DEF Names
<1>13. Registered(p)'
  BY <1>1, RegistersOne, <1>3
<1>14. MintedOnce'
  <2>1. \A i, j \in 1..Len(line') : line'[i] = line'[j] => i = j
    BY <1>1, <1>2, <1>3, <1>5, <1>6 DEF MintedOnce, n
  <2>2. \A i \in 1..Len(line') : WorkspaceOf[line'[i]] = WorkspaceOf[p]
    BY <1>1, <1>2, <1>3, <1>5, <1>6 DEF MintedOnce, n
  <2>3. \A d \in Conn : holds'[d] \subseteq LineIds'
    BY <1>2, <1>7, <1>8 DEF MintedOnce
  <2> QED BY <2>1, <2>2, <2>3 DEF MintedOnce
<1>15. AliasesInLine'
  BY <1>3, <1>7, <1>11 DEF AliasesInLine, LInv, Names
<1>16. NewestIsNoFormer' /\ KnownUntilSwept'
  BY <1>7, <1>12, <1>13 DEF NewestIsNoFormer, KnownUntilSwept
<1>17. LastFormerNames'
  <2>1. line'[Len(line') - 1] = f
    BY <1>3, <1>5
  <2> QED BY <1>3, <1>7, <1>10, <2>1 DEF LastFormerNames, Names
<1>18. OneHolder'
  <2> SUFFICES ASSUME ~overlapped', NEW d \in Conn, NEW q \in holds'[d] PROVE q = p
    BY <1>7 DEF OneHolder
  <2>1. f \notin holds[d]
    BY <1>1
  <2>2. holds[d] \subseteq {f}
    BY <1>1 DEF LInv, OneHolder, f
  <2> QED BY <1>8, <2>1, <2>2
<1>19. AllNamesUntilSwept'
  <2> SUFFICES ASSUME ~swept', ~overlapped', NEW i \in 1..Len(line'), i # Len(line')
               PROVE  aliases'[line'[i]] # NoAlias /\ aliases'[line'[i]].pane = p
    BY <1>3, <1>5, <1>6, <1>7 DEF AllNamesUntilSwept, Names
  <2>1. i \in 1..n /\ line'[i] = line[i] /\ line[i] \in PaneId /\ line[i] # p
    BY <1>1, <1>3, <1>5, <1>6
  <2>2. line[i] = f \/ Names(line[i], f)
    BY <1>1, <1>3, <2>1 DEF LInv, AllNamesUntilSwept, n, f, Newest
  <2> HIDE DEF n
  <2>3. PICK k \in PaneId : k = line[i]
    BY <2>1
  <2>4. Names(k, p)'
    BY <1>10, <2>1, <2>2, <2>3
  <2> QED BY <2>1, <2>3, <2>4 DEF Names
<1> QED BY <1>4, <1>14, <1>15, <1>16, <1>17, <1>18, <1>19 DEF LInv
LEMMA RemirrorKeeps ==
    ASSUME LInv, IInv, NEW c \in Conn, NEW q \in PaneId, Remirror(c, q)
    PROVE  LInv'
<1>1. LineTyped /\ MintedOnce
  BY DEF LInv
<1>2. q \in holds[c] /\ RegisterPane(c, q, FALSE, FormerOf(q)) /\ UNCHANGED lineageVars
  BY DEF Remirror, Register
<1>3. PICK i \in 1..Len(line) : q = line[i]
  BY <1>1, <1>2 DEF MintedOnce, LineIds
<1> DEFINE n == Len(line)
           f == FormerOf(q)
<1>4. /\ n \in Nat /\ n \in 1..n /\ line # <<>> /\ Newest = line[n] /\ Newest \in LineIds
      /\ LineIds \subseteq PaneId
      /\ \A j \in 1..n : line[j] \in PaneId /\ line[j] \in LineIds
  BY <1>1, <1>3, LineFacts DEF Newest
<1>5. f = IF i = 1 THEN NoFormer ELSE line[i - 1]
  BY <1>1, <1>3, FormerIsPredecessor
<1>6. /\ line' = line /\ LineIds' = LineIds /\ Newest' = Newest
      /\ holds' = holds /\ swept' = swept /\ overlapped' = overlapped
  BY <1>2 DEF lineageVars, LineIds, Newest
<1> HIDE DEF n, f
<1>7. f \in PaneId => i # 1 /\ i - 1 \in 1..n /\ f = line[i - 1] /\ f \in LineIds
  BY <1>4, <1>5, RegistryAssumption DEF RegistryAssumption, n
<1>8. i # 1 => f \in PaneId
  BY <1>4, <1>5 DEF n
<1>9. f \in PaneId \cup {NoFormer}
  BY <1>5, <1>8
<1>10. ASSUME NEW k \in PaneId
       PROVE  \/ aliases'[k] = aliases[k]
              \/ /\ f \in PaneId
                 /\ k = f \/ Names(k, f)
                 /\ k # q
                 /\ aliases'[k] # NoAlias /\ aliases'[k].pane = q
              \/ f \in PaneId /\ Names(k, f) /\ k = q /\ aliases'[k] = NoAlias
  <2>1. RegisterPane(c, q, FALSE, f)
    BY <1>2 DEF f
  <2> QED BY <1>9, <2>1, ClaimEffect
<1>11. \A u \in PaneId : Registered(u)' <=> u = q \/ Registered(u)
  BY <1>2, RegistersOne
\* f is never the newest id, and an id that names the newest does not name f.
<1>12. f # Newest
  BY <1>1, <1>4, <1>7, RegistryAssumption DEF MintedOnce, RegistryAssumption, n
<1>13. ASSUME NEW k \in PaneId, Names(k, Newest) PROVE ~Names(k, f)
  BY <1>12, <1>13 DEF Names
<1>14. LineTyped' /\ MintedOnce'
  BY <1>1, <1>6 DEF LineTyped, MintedOnce
<1>15. AliasesInLine'
  BY <1>3, <1>4, <1>6, <1>7, <1>10 DEF AliasesInLine, LInv, Names, n
<1>16. NewestIsNoFormer'
  <2>1. Newest \in PaneId /\ ~Names(Newest, f)
    BY <1>4 DEF LInv, NewestIsNoFormer, Names
  <2> QED BY <1>4, <1>6, <1>10, <1>12, <2>1 DEF LInv, NewestIsNoFormer
<1>17. KnownUntilSwept' /\ OneHolder'
  BY <1>4, <1>6, <1>11 DEF LInv, KnownUntilSwept, OneHolder
<1>18. LastFormerNames'
  <2> SUFFICES ASSUME n > 1, Registered(Newest)'
               PROVE  Names(line[n - 1], Newest)'
    BY <1>6 DEF LastFormerNames, n
  <2>1. n - 1 \in 1..n /\ line[n - 1] \in PaneId
    BY <1>4
  <2>2. CASE i = n
    <3>1. f = line[n - 1] /\ q = Newest /\ f \in PaneId
      BY <1>3, <1>4, <1>5, <2>1, <2>2
    <3>2. Homely(q, f)
      <4>1. \A a, b \in LineIds : WorkspaceOf[a] = WorkspaceOf[b]
        BY <1>1 DEF MintedOnce, LineIds
      <4>2. q \in LineIds /\ f \in LineIds /\ f # q
        BY <1>4, <1>7, <1>12, <3>1
      <4>3. aliases[f] # NoAlias => aliases[f].pane \in LineIds
        BY <3>1 DEF LInv, AliasesInLine
      <4> QED BY <4>1, <4>2, <4>3 DEF Homely
    <3>3. RegisterPane(c, q, FALSE, f)
      BY <1>2 DEF f
    <3>4. PICK k \in PaneId : k = f
      BY <3>1
    <3>5. Names(k, q)'
      BY <3>1, <3>2, <3>3, <3>4, ClaimTaken
    <3> QED BY <1>6, <3>1, <3>4, <3>5 DEF Names, n
  <2>3. CASE i # n
    <3>1. q # Newest
      BY <1>1, <1>3, <1>4, <2>3 DEF MintedOnce, n
    <3>2. Names(line[n - 1], Newest)
      BY <1>4, <1>6, <1>11, <3>1 DEF LInv, LastFormerNames, n, Registered
    <3>3. f # line[n - 1]
      BY <1>1, <1>3, <1>4, <1>7, <2>1, <2>3 DEF MintedOnce, n
    <3>4. aliases'[line[n - 1]] = aliases[line[n - 1]]
      BY <1>10, <1>13, <2>1, <3>2, <3>3
    <3> QED BY <1>6, <3>2, <3>4 DEF Names, n
  <2> QED BY <2>2, <2>3
<1>19. AllNamesUntilSwept'
  <2> SUFFICES ASSUME ~swept, ~overlapped, NEW j \in 1..n, j # n
               PROVE  aliases'[line[j]] # NoAlias /\ aliases'[line[j]].pane = Newest
    BY <1>6 DEF AllNamesUntilSwept, Names, n
  <2>1. q = Newest
    BY <1>2 DEF LInv, OneHolder
  <2>2. Names(line[j], Newest) /\ line[j] \in PaneId
    BY <1>4 DEF LInv, AllNamesUntilSwept, n
  <2>3. ~Names(line[j], f)
    BY <1>13, <2>2
  <2>4. CASE aliases'[line[j]] = aliases[line[j]]
    BY <2>2, <2>4 DEF Names
  <2> QED BY <1>10, <2>1, <2>2, <2>3, <2>4
<1> QED BY <1>14, <1>15, <1>16, <1>17, <1>18, <1>19 DEF LInv
-----------------------------------------------------------------------------
\* The steps that take panes away, or leave the aliases alone.

LEMMA LetGoKeeps ==
    ASSUME LInv, IInv, NEW c \in Conn, NEW p \in PaneId, LetGo(c, p)
    PROVE  LInv'
<1>1. /\ p # Newest
      /\ holds' = [holds EXCEPT ![c] = @ \ {p}]
      /\ UNCHANGED <<line, swept, overlapped>>
  BY DEF LetGo, Release
<1>2. LineTyped
  BY DEF LInv
<1>3. /\ holds' \in [Conn -> SUBSET PaneId]
      /\ \A d \in Conn : holds'[d] \subseteq holds[d]
      /\ swept' \in BOOLEAN
  BY <1>1, <1>2 DEF LineTyped
<1>4. CASE RemovePane(p)
  <2>1. \A k \in PaneId :
           aliases'[k] = IF aliases[k] # NoAlias /\ aliases[k].pane \in {p}
                         THEN NoAlias ELSE aliases[k]
    BY <1>4 DEF RemovePane, ForgetAliasesTo
  <2>2. \A q \in PaneId : Registered(q)' <=> Registered(q) /\ q \notin {p}
    BY <1>4 DEF RemovePane, Registered, IInv, TypeOK
  <2>3. {p} \in SUBSET PaneId /\ (line # <<>> /\ ~swept' => Newest \notin {p})
    BY <1>1
  <2> QED BY <1>1, <1>3, <2>1, <2>2, <2>3, TakingAway
<1>5. CASE UNCHANGED vars
  <2>1. \A k \in PaneId :
           aliases'[k] = IF aliases[k] # NoAlias /\ aliases[k].pane \in {}
                         THEN NoAlias ELSE aliases[k]
    BY <1>5 DEF vars
  <2>2. \A q \in PaneId : Registered(q)' <=> Registered(q) /\ q \notin {}
    BY <1>5 DEF vars, Registered
  <2> QED BY <1>1, <1>3, <2>1, <2>2, TakingAway
<1> QED BY <1>4, <1>5 DEF LetGo

LEMMA SweepKeeps ==
    ASSUME LInv, IInv, Sweep
    PROVE  LInv'
<1>1. /\ swept' = (swept \/ (line # <<>> /\ Newest \in Expired))
      /\ UNCHANGED <<line, holds, overlapped>>
      /\ PurgeExpired
  BY DEF Sweep
<1>2. /\ holds' \in [Conn -> SUBSET PaneId]
      /\ \A d \in Conn : holds'[d] \subseteq holds[d]
      /\ swept' \in BOOLEAN
  BY <1>1 DEF LInv, LineTyped
<1>3. Expired \in SUBSET PaneId /\ (line # <<>> /\ ~swept' => Newest \notin Expired)
  BY <1>1 DEF Expired
<1>4. \A k \in PaneId :
         aliases'[k] = IF aliases[k] # NoAlias /\ aliases[k].pane \in Expired
                       THEN NoAlias ELSE aliases[k]
  BY <1>1 DEF PurgeExpired, ForgetAliasesTo
<1>5. \A q \in PaneId : Registered(q)' <=> Registered(q) /\ q \notin Expired
  BY <1>1 DEF PurgeExpired, Registered
<1>6. PICK P \in SUBSET PaneId : P = Expired
  BY <1>3
<1>7. /\ line # <<>> /\ ~swept' => Newest \notin P
      /\ \A k \in PaneId :
            aliases'[k] = IF aliases[k] # NoAlias /\ aliases[k].pane \in P
                          THEN NoAlias ELSE aliases[k]
      /\ \A q \in PaneId : Registered(q)' <=> Registered(q) /\ q \notin P
  BY <1>3, <1>4, <1>5, <1>6
<1> QED BY <1>1, <1>2, <1>7, TakingAway

LEMMA SocketsKeep ==
    ASSUME LInv, IInv,
           \/ \E c \in Conn : Reload(c) \/ Reconnect(c)
           \/ Tick /\ UNCHANGED lineageVars
    PROVE  LInv'
<1>1. UNCHANGED <<line, swept, overlapped>> /\ aliases' = aliases
  BY DEF Reload, Reconnect, Tick, lineageVars, Connect, Disconnect, regVars
<1>2. /\ holds' \in [Conn -> SUBSET PaneId]
      /\ \A d \in Conn : holds'[d] \subseteq holds[d]
      /\ swept' \in BOOLEAN
  BY <1>1 DEF LInv, LineTyped, Reload, Reconnect, Release, lineageVars
<1>3. \A q \in PaneId :
         \/ panes'[q] = panes[q]
         \/ Registered(q) /\ \E n \in 0..OfflineGrace : panes'[q] = Aged(panes[q], n)
  BY RegistryAssumption
  DEF Reload, Reconnect, Tick, Connect, Disconnect, regVars, Registered, Offline, IInv, TypeOK,
      Entry, Online, RegistryAssumption
<1>4. \A q \in PaneId : Registered(q)' <=> Registered(q) /\ q \notin {}
  <2> SUFFICES ASSUME NEW q \in PaneId PROVE Registered(q)' <=> Registered(q)
    OBVIOUS
  <2>1. CASE panes'[q] = panes[q]
    BY <2>1 DEF Registered
  <2>2. ASSUME Registered(q), NEW n \in 0..OfflineGrace, panes'[q] = Aged(panes[q], n)
        PROVE  Registered(q)'
    <3>1. panes[q] \in Entry
      BY <2>2 DEF Registered, IInv, TypeOK
    <3>2. Aged(panes[q], n) \in Entry
      BY <3>1 DEF Aged, Entry
    <3> QED BY <2>2, <3>2, RegistryAssumption DEF Registered, RegistryAssumption
  <2> QED BY <1>3, <2>1, <2>2
<1>5. \A k \in PaneId :
         aliases'[k] = IF aliases[k] # NoAlias /\ aliases[k].pane \in {}
                       THEN NoAlias ELSE aliases[k]
  BY <1>1
<1>6. {} \in SUBSET PaneId /\ (swept => swept') /\ Newest \notin {}
  BY <1>1
<1> QED BY <1>1, <1>2, <1>4, <1>5, <1>6, TakingAway

-----------------------------------------------------------------------------
LEMMA LineageInitInv == LineageInit => LInv /\ IInv
<1> SUFFICES ASSUME LineageInit PROVE LInv
  BY InitInv DEF LineageInit
<1>1. line = <<>> /\ LineIds = {} /\ Len(line) = 0
  BY DEF LineageInit, LineIds
<1>2. LineTyped
  <2>1. line \in Seq(PaneId)
    BY <1>1
  <2>2. holds \in [Conn -> SUBSET PaneId]
    BY DEF LineageInit
  <2>3. swept \in BOOLEAN /\ overlapped \in BOOLEAN
    BY DEF LineageInit
  <2> QED BY <2>1, <2>2, <2>3 DEF LineTyped
<1>3. MintedOnce /\ AliasesInLine /\ OneHolder
  BY <1>1 DEF LineageInit, Init, MintedOnce, AliasesInLine, OneHolder
<1>4. NewestIsNoFormer /\ LastFormerNames /\ KnownUntilSwept /\ AllNamesUntilSwept
  BY <1>1 DEF NewestIsNoFormer, LastFormerNames, KnownUntilSwept, AllNamesUntilSwept
<1> QED BY <1>2, <1>3, <1>4 DEF LInv

LEMMA LineageNextInv == LInv /\ IInv /\ [LineageNext]_allVars => LInv'
<1> SUFFICES ASSUME LInv, IInv, [LineageNext]_allVars PROVE LInv'
  OBVIOUS
<1>1. CASE UNCHANGED allVars
  BY <1>1
  DEF allVars, vars, lineageVars, LInv, LineTyped, MintedOnce, AliasesInLine, NewestIsNoFormer,
      LastFormerNames, KnownUntilSwept, OneHolder, AllNamesUntilSwept, Names, Newest, LineIds,
      Registered
<1>2. CASE LineageNext
  BY <1>2, SpawnKeeps, RestoreKeeps, RemirrorKeeps, LetGoKeeps, SweepKeeps, SocketsKeep
  DEF LineageNext
<1> QED BY <1>1, <1>2

\* What a CLI's windows do to the registry is what the registry's own
\* specification allows: spawnRestoredPane, mirrorMessagingHandle,
\* handleGroupDetached and the socket's disconnect path are its operations.
THEOREM LineageUsesRegistry == LineageSpec => Spec
<1>1. LineageInit => Init
  BY DEF LineageInit
<1>2. LInv /\ [LineageNext]_allVars => [Next]_vars
  <2> SUFFICES ASSUME LInv, [LineageNext]_allVars PROVE [Next]_vars
    OBVIOUS
  <2>1. CASE UNCHANGED allVars
    BY <2>1 DEF allVars, vars
  <2> QED BY <2>1, StepsOfTheRegistry
<1>3. LInv /\ IInv /\ [Next]_vars => IInv'
  BY NextInv
<1> QED BY <1>1, <1>2, <1>3, LineageInitInv, LineageNextInv, PTL DEF LineageSpec, Spec

LEMMA LineageInvariance == LineageSpec => []LInv
<1> QED BY LineageUsesRegistry, Invariance, LineageInitInv, LineageNextInv, PTL DEF LineageSpec

\* While its window is connected, the id a pane had before its last rebuild
\* resolves to it: whatever windows reload, reconnect, sweep or overlap, a
\* re-mirror of a superseded pane never takes that id from the newest one.
THEOREM PredecessorAlwaysResolves == LineageSpec => []PredecessorResolves
<1>1. LInv => PredecessorResolves
  BY DEF LInv, PredecessorResolves, Reachable, LastFormerNames, Names, ResolveAlias
<1> QED BY <1>1, LineageInvariance, PTL

\* As long as no sweep removed the newest pane and no two windows held the CLI
\* at once, all ids it ever had resolve to it, through any number of rebuilds:
\* each window declares the one id before, and add_aliases carries along what
\* named that id.
THEOREM LineAlwaysResolves == LineageSpec => []LineResolvesUntilSwept
<1>1. LInv => LineResolvesUntilSwept
  <2> SUFFICES ASSUME LInv, line # <<>>, ~swept, ~overlapped, NEW i \in 1..Len(line)
               PROVE  ResolveAlias(line[i]) = Newest
    BY DEF LineResolvesUntilSwept, Reachable
  <2>1. CASE i = Len(line)
    BY <2>1 DEF LInv, NewestIsNoFormer, ResolveAlias, Newest
  <2>2. CASE i # Len(line)
    BY <2>2 DEF LInv, AllNamesUntilSwept, Names, ResolveAlias
  <2> QED BY <2>1, <2>2
<1> QED BY <1>1, LineageInvariance, PTL
=============================================================================
