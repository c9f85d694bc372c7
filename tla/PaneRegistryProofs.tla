------------------------- MODULE PaneRegistryProofs -------------------------
(***************************************************************************)
(* Theorems about PaneRegistry, for every set of panes, sockets and         *)
(* workspaces, every grace period and every limit on the forgotten ids.     *)
(***************************************************************************)
EXTENDS PaneRegistry, TLAPS, FiniteSetTheorems

\* The inductive invariant.  A dangling alias could only appear if a pane were
\* removed without its aliases, so the two facts about aliases and owners are
\* inductive once a registered pane is known to keep its window's workspace.
PaneKeepsWorkspace ==
    \A p \in PaneId : Registered(p) => panes[p].ws = WorkspaceOf[p]

IInv == TypeOK /\ PaneKeepsWorkspace /\ OwnerIffOnline /\ AliasTargetRegistered

-----------------------------------------------------------------------------
\* The rank a removal gives to an id stays within the limit of _FORGOTTEN.
LEMMA RememberForgottenType ==
    ASSUME TypeOK, NEW P \in SUBSET PaneId, NEW nth \in [P -> Nat]
    PROVE  RememberForgotten(P, nth) \in [PaneId -> 0..ForgottenMax]
<1> DEFINE Moved(q) == {p \in P : forgotten[p] = 0 \/ forgotten[p] > forgotten[q]}
           Rank(q) == CASE q \in P          -> nth[q]
                        [] forgotten[q] = 0 -> 0
                        [] OTHER            -> forgotten[q] + Cardinality(Moved(q))
<1>1. ASSUME NEW q \in PaneId PROVE Rank(q) \in Nat
  <2>1. IsFiniteSet(Moved(q))
    BY RegistryAssumption, FS_Subset, Moved(q) \subseteq PaneId DEF RegistryAssumption
  <2>2. Cardinality(Moved(q)) \in Nat
    BY <2>1, FS_CardinalityType
  <2>3. forgotten[q] \in Nat
    BY RegistryAssumption DEF TypeOK, RegistryAssumption
  <2> HIDE DEF Moved
  <2> QED BY <2>2, <2>3
<1>2. ForgottenMax \in Nat
  BY RegistryAssumption DEF RegistryAssumption
<1>3. ASSUME NEW q \in PaneId
      PROVE  (IF Rank(q) <= ForgottenMax THEN Rank(q) ELSE 0) \in 0..ForgottenMax
  <2> HIDE DEF Rank
  <2> QED BY <1>1, <1>2
<1>4. RememberForgotten(P, nth)
        = [q \in PaneId |-> IF Rank(q) <= ForgottenMax THEN Rank(q) ELSE 0]
  BY DEF RememberForgotten
<1> HIDE DEF Rank
<1> QED BY <1>3, <1>4

LEMMA RecallType ==
    ASSUME TypeOK, NEW p \in PaneId
    PROVE  Recall(p) \in [PaneId -> 0..ForgottenMax]
BY RegistryAssumption DEF Recall, TypeOK, RegistryAssumption

LEMMA ForgetAliasesType ==
    ASSUME TypeOK, NEW P \in SUBSET PaneId
    PROVE  ForgetAliasesTo(P) \in [PaneId -> Alias \cup {NoAlias}]
BY DEF ForgetAliasesTo, TypeOK

\* What registering a pane and its alias claim do to the invariant.
LEMMA RegisterPaneInv ==
    ASSUME IInv, NEW c \in live, NEW p \in PaneId, NEW dock \in BOOLEAN,
           NEW f \in PaneId \cup {NoFormer},
           RegisterPane(c, p, dock, f), by' \in Conn \cup {NoConn}, UNCHANGED live
    PROVE  IInv'
<1> DEFINE e == [ws |-> WorkspaceOf[p], dock |-> dock, age |-> Online]
           reg == [panes EXCEPT ![p] = e]
<1>1. e \in Entry /\ e # NoPane /\ e.ws = WorkspaceOf[p] /\ e.age = Online
  BY RegistryAssumption DEF Entry, RegistryAssumption, Online
<1> HIDE DEF e
<1>2. panes' = reg /\ aliases' = AddAliases(reg, p, f)
  BY DEF RegisterPane, e
<1>3. aliases' \in [PaneId -> Alias \cup {NoAlias}]
  BY <1>2, RegistryAssumption DEF AddAliases, AliasAccepted, Alias, IInv, TypeOK, RegistryAssumption
<1>4. TypeOK'
  BY <1>1, <1>2, <1>3, RecallType DEF RegisterPane, IInv, TypeOK
<1>5. PaneKeepsWorkspace'
  BY <1>1, <1>2 DEF IInv, PaneKeepsWorkspace, Registered, TypeOK
<1>6. OwnerIffOnline'
  BY <1>1, <1>2, RegistryAssumption
  DEF RegisterPane, IInv, OwnerIffOnline, Registered, Offline, TypeOK, RegistryAssumption
<1>7. AliasTargetRegistered'
  <2> DEFINE toP == [pane |-> p, ws |-> WorkspaceOf[p]]
  <2>1. SUFFICES ASSUME NEW k \in PaneId, aliases'[k] # NoAlias
                 PROVE  /\ aliases'[k].pane # k
                        /\ panes'[aliases'[k].pane] # NoPane
                        /\ aliases'[k].ws = WorkspaceOf[aliases'[k].pane]
    BY DEF AliasTargetRegistered, Registered
  <2>2. \/ aliases'[k] = aliases[k]
        \/ aliases'[k] = toP /\ k # p
    BY <1>2, <2>1 DEF AddAliases, AliasAccepted, IInv, TypeOK
  <2>3. CASE aliases'[k] = aliases[k]
    <3>1. aliases[k] \in Alias
      BY <2>1, <2>3 DEF IInv, TypeOK
    <3>2. aliases[k].pane \in PaneId
      BY <3>1 DEF Alias
    <3> QED BY <1>1, <1>2, <2>1, <2>3, <3>2
        DEF IInv, AliasTargetRegistered, Registered, TypeOK
  <2>4. CASE aliases'[k] = toP /\ k # p
    BY <1>1, <1>2, <2>4 DEF IInv, TypeOK
  <2> QED BY <2>2, <2>3, <2>4
<1> QED BY <1>4, <1>5, <1>6, <1>7 DEF IInv

\* Removing a set of panes together with the aliases that name them.
LEMMA RemovalInv ==
    ASSUME IInv, NEW P \in SUBSET PaneId,
           panes' = [p \in PaneId |-> IF p \in P THEN NoPane ELSE panes[p]],
           owners' = [p \in PaneId |-> IF p \in P THEN NoConn ELSE owners[p]],
           aliases' = ForgetAliasesTo(P),
           forgotten' \in [PaneId -> 0..ForgottenMax],
           by' \in Conn \cup {NoConn},
           UNCHANGED live
    PROVE  IInv'
<1>1. TypeOK'
  BY ForgetAliasesType DEF IInv, TypeOK
<1>2. PaneKeepsWorkspace'
  BY DEF IInv, PaneKeepsWorkspace, Registered
<1>3. OwnerIffOnline'
  BY DEF IInv, OwnerIffOnline, Registered, Offline
<1>4. AliasTargetRegistered'
  <2> SUFFICES ASSUME NEW k \in PaneId, aliases'[k] # NoAlias
               PROVE  /\ aliases'[k].pane # k
                      /\ panes'[aliases'[k].pane] # NoPane
                      /\ aliases'[k].ws = WorkspaceOf[aliases'[k].pane]
    BY DEF AliasTargetRegistered, Registered
  <2>1. aliases'[k] = aliases[k] /\ aliases[k].pane \notin P
    BY DEF ForgetAliasesTo
  <2>2. aliases[k].pane \in PaneId
    BY <2>1 DEF IInv, TypeOK, Alias
  <2> QED BY <2>1, <2>2 DEF IInv, AliasTargetRegistered, Registered
<1> QED BY <1>1, <1>2, <1>3, <1>4 DEF IInv

LEMMA RemovePaneInv ==
    ASSUME IInv, NEW p \in PaneId, RemovePane(p),
           by' \in Conn \cup {NoConn}, UNCHANGED live
    PROVE  IInv'
<1>1. forgotten' \in [PaneId -> 0..ForgottenMax]
  BY RememberForgottenType, [q \in {p} |-> 1] \in [{p} -> Nat] DEF RemovePane, IInv, TypeOK
<1>2. /\ panes' = [q \in PaneId |-> IF q \in {p} THEN NoPane ELSE panes[q]]
      /\ owners' = [q \in PaneId |-> IF q \in {p} THEN NoConn ELSE owners[q]]
  BY DEF RemovePane, IInv, TypeOK
<1>3. aliases' = ForgetAliasesTo({p})
  BY DEF RemovePane
<1> QED BY <1>1, <1>2, <1>3, RemovalInv

-----------------------------------------------------------------------------
LEMMA InitInv == Init => IInv
BY RegistryAssumption
DEF Init, IInv, TypeOK, PaneKeepsWorkspace, OwnerIffOnline, AliasTargetRegistered,
    Registered, Offline, RegistryAssumption

LEMMA NextInv == IInv /\ [Next]_vars => IInv'
<1> SUFFICES ASSUME IInv, [Next]_vars PROVE IInv'
  OBVIOUS
<1>1. ASSUME NEW c \in Conn, Connect(c) PROVE IInv'
  BY <1>1 DEF Connect, regVars, IInv, TypeOK, PaneKeepsWorkspace, OwnerIffOnline,
              AliasTargetRegistered, Registered, Offline
<1>2. ASSUME NEW c \in Conn, Disconnect(c) PROVE IInv'
  <2>1. \A p \in PaneId :
           \/ panes'[p] = panes[p] /\ (owners[p] = c => ~Registered(p) \/ Offline(p))
           \/ /\ Registered(p) /\ owners[p] = c
              /\ panes'[p] = Aged(panes[p], 0)
              /\ panes'[p] \in Entry /\ panes'[p].age = 0
              /\ panes'[p].ws = panes[p].ws
    BY <1>2, RegistryAssumption
    DEF Disconnect, Aged, IInv, TypeOK, Entry, Registered, Offline, RegistryAssumption, Online
  <2>2. TypeOK'
    BY <1>2, <2>1 DEF Disconnect, IInv, TypeOK
  <2>3. \A p \in PaneId : panes'[p] = NoPane <=> panes[p] = NoPane
    BY <2>1, RegistryAssumption DEF Registered, RegistryAssumption
  <2>4. PaneKeepsWorkspace'
    BY <2>1, <2>3 DEF IInv, PaneKeepsWorkspace, Registered
  <2>5. OwnerIffOnline'
    BY <1>2, <2>1, <2>3, RegistryAssumption
    DEF Disconnect, IInv, OwnerIffOnline, Registered, Offline, TypeOK, Online, RegistryAssumption
  <2>6. AliasTargetRegistered'
    BY <1>2, <2>3 DEF Disconnect, IInv, AliasTargetRegistered, Registered, TypeOK, Alias
  <2> QED BY <2>2, <2>4, <2>5, <2>6 DEF IInv
<1>3. ASSUME NEW c \in Conn, NEW p \in PaneId, NEW f \in PaneId \cup {NoFormer},
             Register(c, p, f)
      PROVE  IInv'
  BY <1>3, RegisterPaneInv DEF Register
<1>4. ASSUME NEW c \in Conn, NEW p \in PaneId, RegisterDock(c, p) PROVE IInv'
  BY <1>4, RegisterPaneInv DEF RegisterDock
<1>5. ASSUME NEW c \in Conn, NEW p \in PaneId, Unregister(c, p) PROVE IInv'
  BY <1>5, RemovePaneInv DEF Unregister
<1>6. ASSUME NEW c \in Conn, NEW p \in PaneId, UnregisterDock(c, p) PROVE IInv'
  BY <1>6, RemovePaneInv DEF UnregisterDock
<1>7. ASSUME NEW p \in PaneId, KillSurface(p) PROVE IInv'
  BY <1>7, RemovePaneInv DEF KillSurface
<1>8. ASSUME PurgeExpired PROVE IInv'
  <2>1. PICK nth \in [Expired -> 1..Cardinality(Expired)] :
           forgotten' = RememberForgotten(Expired, nth)
    BY <1>8 DEF PurgeExpired
  <2>2. Expired \subseteq PaneId /\ nth \in [Expired -> Nat]
    BY <2>1 DEF Expired
  <2>3. forgotten' \in [PaneId -> 0..ForgottenMax]
    BY <2>1, <2>2, RememberForgottenType DEF IInv
  <2> QED BY <1>8, <2>2, <2>3, RemovalInv DEF PurgeExpired
<1>9. ASSUME Tick PROVE IInv'
  <2>1. \A p \in PaneId :
           \/ panes'[p] = panes[p]
           \/ /\ Offline(p) /\ panes'[p] \in Entry
              /\ panes'[p].age # Online
              /\ panes'[p].ws = panes[p].ws
    BY <1>9, RegistryAssumption
    DEF Tick, Aged, IInv, TypeOK, Entry, Offline, Registered, Online, RegistryAssumption
  <2>2. TypeOK'
    BY <1>9, <2>1 DEF Tick, IInv, TypeOK
  <2>3. \A p \in PaneId : panes'[p] = NoPane <=> panes[p] = NoPane
    BY <2>1, RegistryAssumption DEF Offline, Registered, RegistryAssumption
  <2>4. PaneKeepsWorkspace'
    BY <2>1, <2>3 DEF IInv, PaneKeepsWorkspace, Registered
  <2>5. OwnerIffOnline'
    BY <1>9, <2>1, <2>3 DEF Tick, IInv, OwnerIffOnline, Registered, Offline
  <2>6. AliasTargetRegistered'
    BY <1>9, <2>3 DEF Tick, IInv, AliasTargetRegistered, Registered, TypeOK, Alias
  <2> QED BY <2>2, <2>4, <2>5, <2>6 DEF IInv
<1>10. CASE UNCHANGED vars
  BY <1>10 DEF vars, IInv, TypeOK, PaneKeepsWorkspace, OwnerIffOnline,
               AliasTargetRegistered, Registered, Offline
<1> QED BY <1>1, <1>2, <1>3, <1>4, <1>5, <1>6, <1>7, <1>8, <1>9, <1>10 DEF Next

LEMMA Invariance == Spec => []IInv
BY InitInv, NextInv, PTL DEF Spec

-----------------------------------------------------------------------------
\* The registry's tables stay well typed, whatever the windows send.
THEOREM TypeCorrect == Spec => []TypeOK
<1>1. IInv => TypeOK BY DEF IInv
<1> QED BY <1>1, Invariance, PTL

\* No pane is ever online without a live owning session, or owned while it is
\* offline or unregistered (register, unregister, drop_owner, purge_expired).
THEOREM OwnerCorrect == Spec => []OwnerIffOnline
<1>1. IInv => OwnerIffOnline BY DEF IInv
<1> QED BY <1>1, Invariance, PTL

\* No alias ever dangles: unregister and purge_expired retire the ids that
\* named the panes they remove, whatever chain of claims led there.
THEOREM AliasesNeverDangle == Spec => []AliasTargetRegistered
<1>1. IInv => AliasTargetRegistered BY DEF IInv
<1> QED BY <1>1, Invariance, PTL

\* A claim never re-points an id across workspaces, the ids carried along with
\* the former one included (add_aliases).
THEOREM ClaimsFenced == Spec => AliasClaimFenced
<1>1. IInv /\ [Next]_vars =>
        \A k \in PaneId :
           aliases'[k] \notin {NoAlias, aliases[k]} =>
              IF aliases[k] # NoAlias THEN aliases'[k].ws = aliases[k].ws
              ELSE Registered(k) => aliases'[k].ws = panes'[k].ws
  <2> SUFFICES ASSUME IInv, [Next]_vars, NEW k \in PaneId,
                      aliases'[k] \notin {NoAlias, aliases[k]}
               PROVE  IF aliases[k] # NoAlias THEN aliases'[k].ws = aliases[k].ws
                      ELSE Registered(k) => aliases'[k].ws = panes'[k].ws
    OBVIOUS
  <2>1. PICK c \in Conn, p \in PaneId, dock \in BOOLEAN, f \in PaneId \cup {NoFormer} :
           RegisterPane(c, p, dock, f)
    BY DEF Next, vars, regVars, Connect, Disconnect, Register, RegisterDock, Unregister,
           UnregisterDock, KillSurface, RemovePane, PurgeExpired, Tick, ForgetAliasesTo
  <2> DEFINE e == [ws |-> WorkspaceOf[p], dock |-> dock, age |-> Online]
             reg == [panes EXCEPT ![p] = e]
  <2>2. e.ws = WorkspaceOf[p]
    OBVIOUS
  <2>3. panes' = reg /\ aliases' = AddAliases(reg, p, f)
    BY <2>1 DEF RegisterPane
  <2> HIDE DEF e
  <2>4. /\ f \in PaneId /\ AliasAccepted(reg, p, f)
        /\ aliases'[k] = [pane |-> p, ws |-> WorkspaceOf[p]]
        /\ k = f \/ (aliases[k] # NoAlias /\ aliases[k].pane = f)
    BY <2>3 DEF AddAliases, AliasAccepted, IInv, TypeOK
  <2>5. reg[f] = NoPane \/ reg[f].ws = WorkspaceOf[p]
    BY <2>4 DEF AliasAccepted
  <2>6. f # p /\ reg[f] = panes[f]
    BY <2>4 DEF AliasAccepted, IInv, TypeOK
  <2>7. CASE k = f
    BY <2>3, <2>4, <2>5, <2>6, <2>7 DEF AliasAccepted, Registered
  <2>8. CASE k # f
    BY <2>4, <2>5, <2>6, <2>8 DEF IInv, AliasTargetRegistered, PaneKeepsWorkspace, Registered
  <2> QED BY <2>7, <2>8
<1> QED BY <1>1, Invariance, PTL DEF Spec, AliasClaimFenced

\* Only its own session, or the end of a panel's PTY, takes a held pane down:
\* the owner check of unregister and drop_owner's identity test are enough for
\* any interleaving of windows.
THEOREM HeldPanesStay == Spec => HeldPaneStays
<1>1. IInv /\ [Next]_vars =>
        \A p \in PaneId :
          /\ owners[p] # NoConn
          /\ owners[p] \in live'
          /\ panes'[p] = NoPane \/ panes'[p].age # Online
          => by' = owners[p] \/ KillSurface(p)
  <2> SUFFICES ASSUME IInv, [Next]_vars, NEW p \in PaneId,
                      owners[p] # NoConn, owners[p] \in live',
                      panes'[p] = NoPane \/ panes'[p].age # Online
               PROVE  by' = owners[p] \/ KillSurface(p)
    OBVIOUS
  <2>1. Registered(p) /\ ~Offline(p)
    BY DEF IInv, OwnerIffOnline
  <2>2. panes'[p] # panes[p]
    BY <2>1 DEF Registered, Offline
  <2>3. ASSUME NEW c \in Conn, Disconnect(c) PROVE FALSE
    BY <2>2, <2>3 DEF Disconnect
  <2>4. ASSUME NEW c \in Conn, NEW q \in PaneId, NEW dock \in BOOLEAN,
               NEW f \in PaneId \cup {NoFormer}, RegisterPane(c, q, dock, f)
        PROVE  FALSE
    <3> DEFINE e == [ws |-> WorkspaceOf[q], dock |-> dock, age |-> Online]
    <3>1. e \in Entry /\ e # NoPane /\ e.age = Online
      BY RegistryAssumption DEF Entry, RegistryAssumption, Online
    <3> HIDE DEF e
    <3>2. panes' = [panes EXCEPT ![q] = e]
      BY <2>4 DEF RegisterPane, e
    <3> QED BY <2>2, <3>1, <3>2 DEF IInv, TypeOK
  <2>5. ASSUME NEW q \in PaneId, RemovePane(q) PROVE q = p
    BY <2>2, <2>5 DEF RemovePane, IInv, TypeOK
  <2>6. ASSUME NEW c \in Conn, NEW q \in PaneId, MayUnregister(c, q), RemovePane(q)
        PROVE  q = p /\ c = owners[p]
    BY <2>5, <2>6 DEF MayUnregister
  <2>7. ASSUME PurgeExpired PROVE FALSE
    <3>1. p \notin Expired
      BY <2>1, RegistryAssumption DEF Expired, Offline, Registered, Online, RegistryAssumption
    <3> QED BY <2>2, <2>7, <3>1 DEF PurgeExpired
  <2>8. ASSUME Tick PROVE FALSE
    BY <2>1, <2>2, <2>8 DEF Tick
  <2>9. ASSUME NEW c \in Conn, Connect(c) PROVE FALSE
    BY <2>2, <2>9 DEF Connect, regVars
  <2>10. ASSUME NEW c \in Conn, NEW q \in PaneId, NEW f \in PaneId \cup {NoFormer},
                Register(c, q, f) \/ RegisterDock(c, q)
         PROVE  FALSE
    BY <2>4, <2>10 DEF Register, RegisterDock
  <2>11. ASSUME NEW c \in Conn, NEW q \in PaneId, Unregister(c, q)
         PROVE  by' = owners[p]
    BY <2>6, <2>11 DEF Unregister
  <2>12. ASSUME NEW c \in Conn, NEW q \in PaneId, UnregisterDock(c, q)
         PROVE  by' = owners[p]
    BY <2>6, <2>12 DEF UnregisterDock
  <2>13. ASSUME NEW q \in PaneId, KillSurface(q) PROVE KillSurface(p)
    BY <2>5, <2>13 DEF KillSurface
  <2>14. CASE UNCHANGED vars
    BY <2>2, <2>14 DEF vars
  <2> QED BY <2>3, <2>7, <2>8, <2>9, <2>10, <2>11, <2>12, <2>13, <2>14 DEF Next
<1> QED BY <1>1, Invariance, PTL DEF Spec, HeldPaneStays
=============================================================================
