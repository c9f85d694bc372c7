---------------------------- MODULE PaneRegistry ----------------------------
(***************************************************************************)
(* The backend's registry of messaging panes                                *)
(* (backend/agent_team_backend/agent_messaging.py) as the agent_msg.*       *)
(* handlers of ws_handlers.py and the disconnect path of app.py drive it.   *)
(*                                                                          *)
(* Renderer windows mirror their panes over a WebSocket.  A pane id is      *)
(* minted per pane object, not per CLI process: a reload or a detach builds *)
(* a new pane around the same CLI, and the alias table keeps the old id     *)
(* resolving to the new pane.  A window that disconnects leaves its panes   *)
(* in the registry, flagged offline, for OFFLINE_GRACE_S.                   *)
(*                                                                          *)
(* Every handler below runs without an await between its first read and its *)
(* last write of this state, so each one is one action.  Data the registry  *)
(* only stores and shows (names, busy, displayStatus, ...) is left out.     *)
(***************************************************************************)
EXTENDS Integers, FiniteSets

CONSTANTS
    PaneId,         \* pane ids the windows mint
    Conn,           \* WebSocket sessions
    Workspace,      \* workspace paths
    WorkspaceOf,    \* the workspace of each pane; a pane object never moves
    OfflineGrace,   \* OFFLINE_GRACE_S, in ticks of the clock
    ForgottenMax,   \* FORGOTTEN_IDS_MAX
    NoPane, NoAlias, NoConn, NoFormer

Online == -1        \* offline_since is None

\* RegisteredPane: the fields some guard reads.  `age' is how long ago
\* offline_since was set, Online while it is None.
Entry == [ws: Workspace, dock: BOOLEAN, age: {Online} \cup 0..OfflineGrace]

\* The entry e with its window away for n ticks.
Aged(e, n) == [ws |-> e.ws, dock |-> e.dock, age |-> n]

\* PaneAlias
Alias == [pane: PaneId, ws: Workspace]

ASSUME RegistryAssumption ==
    /\ WorkspaceOf \in [PaneId -> Workspace]
    /\ OfflineGrace \in Nat \ {0}
    /\ ForgottenMax \in Nat \ {0}
    /\ IsFiniteSet(PaneId)
    /\ NoPane \notin Entry
    /\ NoAlias \notin Alias
    /\ NoConn \notin Conn
    /\ NoFormer \notin PaneId

VARIABLES
    panes,      \* _PANES
    owners,     \* _OWNERS
    aliases,    \* _ALIASES
    forgotten,  \* _FORGOTTEN: 0 if absent, else the position from the newest
    live,       \* _SESSIONS: the connections that are up
    by          \* history: the session the last step acted for, NoConn if none

regVars == <<panes, owners, aliases, forgotten>>
vars == <<panes, owners, aliases, forgotten, live, by>>

-----------------------------------------------------------------------------
Registered(p) == panes[p] # NoPane
Offline(p) == Registered(p) /\ panes[p].age # Online
IsDock(p) == Registered(p) /\ panes[p].dock

\* is_vacated: nothing live is holding this pane id.
IsVacated(p) == ~Registered(p) \/ panes[p].age # Online

\* The sweep every read path starts with removes these.
Expired == {p \in PaneId : Registered(p) /\ panes[p].age = OfflineGrace}

\* resolve_alias
ResolveAlias(p) == IF aliases[p] = NoAlias THEN p ELSE aliases[p].pane

\* Mutant: the while loop that trims _FORGOTTEN is missing.
RememberUntrimmed(P, nth) ==
    [q \in PaneId |-> IF q \in P THEN nth[q]
                      ELSE IF forgotten[q] = 0 THEN 0
                      ELSE forgotten[q] + Cardinality(P)]

\* _remember_forgotten for every pane of P, in the order given by `nth' (1 is
\* the newest): the id moves to the newest end, the oldest fall off the limit.
RememberForgotten(P, nth) ==
    LET Moved(q) == {p \in P : forgotten[p] = 0 \/ forgotten[p] > forgotten[q]}
        Rank(q)  == CASE q \in P          -> nth[q]
                      [] forgotten[q] = 0 -> 0
                      [] OTHER            -> forgotten[q] + Cardinality(Moved(q))
    IN  [q \in PaneId |-> IF Rank(q) <= ForgottenMax THEN Rank(q) ELSE 0]

\* _FORGOTTEN.pop(p, None)
Recall(p) ==
    [q \in PaneId |->
        IF q = p THEN 0
        ELSE IF forgotten[p] # 0 /\ forgotten[q] > forgotten[p]
             THEN forgotten[q] - 1 ELSE forgotten[q]]

\* Mutant: a removed pane keeps its former ids.
ForgetNoAliases(P) == aliases

\* _forget_aliases_to, for every pane of P
ForgetAliasesTo(P) ==
    [k \in PaneId |-> IF aliases[k] # NoAlias /\ aliases[k].pane \in P
                      THEN NoAlias ELSE aliases[k]]

\* Mutant: the existing alias' workspace is not compared.
AcceptedByPaneOnly(reg, p, f) ==
    /\ f \notin {NoFormer, p}
    /\ reg[f] = NoPane \/ reg[f].ws = WorkspaceOf[p]

\* The two refusals of add_aliases.  `reg' is _PANES after the register that
\* always precedes it.
AliasAccepted(reg, p, f) ==
    /\ f \notin {NoFormer, p}
    /\ reg[f] = NoPane \/ reg[f].ws = WorkspaceOf[p]
    /\ aliases[f] = NoAlias \/ aliases[f].ws = WorkspaceOf[p]

\* add_aliases for the one former id a window declares: ids that named the
\* former are re-pointed, an id never aliases itself, the former is added.
AddAliases(reg, p, f) ==
    LET toP == [pane |-> p, ws |-> WorkspaceOf[p]]
    IN  IF ~AliasAccepted(reg, p, f) THEN aliases
        ELSE [k \in PaneId |->
                IF k = f THEN toP
                ELSE IF aliases[k] # NoAlias /\ aliases[k].pane = f
                     THEN IF k = p THEN NoAlias ELSE toP
                     ELSE aliases[k]]

\* register, and the add_aliases that follows it in the handler.
RegisterPane(c, p, dock, f) ==
    LET reg == [panes EXCEPT
                   ![p] = [ws |-> WorkspaceOf[p], dock |-> dock, age |-> Online]]
    IN  /\ panes' = reg
        /\ owners' = [owners EXCEPT ![p] = c]
        /\ forgotten' = Recall(p)
        /\ aliases' = AddAliases(reg, p, f)

\* unregister without an owner, or with the owner's own session
RemovePane(p) ==
    /\ panes' = [panes EXCEPT ![p] = NoPane]
    /\ owners' = [owners EXCEPT ![p] = NoConn]
    /\ forgotten' = IF Registered(p)
                    THEN RememberForgotten({p}, [q \in {p} |-> 1])
                    ELSE forgotten
    /\ aliases' = ForgetAliasesTo({p})

\* Mutant: unregister without the owner check.
AnyoneMayUnregister(c, p) == TRUE

\* unregister(pane_id, owner): kept when another window has claimed the id.
MayUnregister(c, p) == owners[p] \in {NoConn, c}

-----------------------------------------------------------------------------
Init ==
    /\ panes = [p \in PaneId |-> NoPane]
    /\ owners = [p \in PaneId |-> NoConn]
    /\ aliases = [p \in PaneId |-> NoAlias]
    /\ forgotten = [p \in PaneId |-> 0]
    /\ live = {}
    /\ by = NoConn

\* A window opens its WebSocket.
Connect(c) ==
    /\ c \notin live
    /\ live' = live \cup {c}
    /\ by' = c
    /\ UNCHANGED regVars

\* Mutant: drop_owner flags the panes but leaves the owner mapping in place.
DisconnectKeepsOwner(c) ==
    /\ c \in live
    /\ live' = live \ {c}
    /\ by' = c
    /\ panes' = [p \in PaneId |->
                    IF owners[p] = c /\ Registered(p) /\ ~Offline(p)
                    THEN Aged(panes[p], 0) ELSE panes[p]]
    /\ UNCHANGED <<owners, aliases, forgotten>>

\* Mutant: a disconnect deletes the window's panes instead of flagging them.
DisconnectDeletes(c) ==
    /\ c \in live
    /\ live' = live \ {c}
    /\ by' = c
    /\ owners' = [p \in PaneId |-> IF owners[p] = c THEN NoConn ELSE owners[p]]
    /\ panes' = [p \in PaneId |-> IF owners[p] = c THEN NoPane ELSE panes[p]]
    /\ aliases' = ForgetAliasesTo({p \in PaneId : owners[p] = c})
    /\ UNCHANGED forgotten

\* The disconnect path: drop_owner flags the panes this session mirrored, and
\* clears the mapping; the session's other handler tasks are cancelled.
Disconnect(c) ==
    /\ c \in live
    /\ live' = live \ {c}
    /\ by' = c
    /\ owners' = [p \in PaneId |-> IF owners[p] = c THEN NoConn ELSE owners[p]]
    /\ panes' = [p \in PaneId |->
                    IF owners[p] = c /\ Registered(p) /\ ~Offline(p)
                    THEN Aged(panes[p], 0) ELSE panes[p]]
    /\ UNCHANGED <<aliases, forgotten>>

\* agent_msg.register from a window pane (first mirror, rename, re-mirror
\* after a reconnect, a pane rebuilt around a running CLI).
Register(c, p, f) ==
    /\ c \in live
    /\ RegisterPane(c, p, FALSE, f)
    /\ by' = c
    /\ UNCHANGED live

\* agent_msg.register_dock.  Its get() sweeps first, so it is only taken with
\* nothing left to sweep; a refused one is that sweep alone.
RegisterDock(c, p) ==
    /\ c \in live
    /\ Expired = {}
    /\ Registered(p) => IsDock(p)
    /\ owners[p] \in {NoConn, c}
    /\ RegisterPane(c, p, TRUE, NoFormer)
    /\ by' = c
    /\ UNCHANGED live

\* agent_msg.unregister; a refused one changes nothing.
Unregister(c, p) ==
    /\ c \in live
    /\ MayUnregister(c, p)
    /\ RemovePane(p)
    /\ by' = c
    /\ UNCHANGED live

\* agent_msg.unregister_dock: the same, for panels only, after a sweep.
UnregisterDock(c, p) ==
    /\ c \in live
    /\ Expired = {}
    /\ Registered(p) => IsDock(p)
    /\ MayUnregister(c, p)
    /\ RemovePane(p)
    /\ by' = c
    /\ UNCHANGED live

\* terminal.kill_surface retires the panel whose PTY it ended, whoever owns it.
KillSurface(p) ==
    /\ Expired = {}
    /\ IsDock(p)
    /\ RemovePane(p)
    /\ by' = NoConn
    /\ UNCHANGED live

\* purge_expired, run by every read of the registry (get, current, list_panes,
\* resolve, resolve_address).  _PANES order decides which of the expired is
\* remembered as the newest.
PurgeExpired ==
    /\ Expired # {}
    /\ panes' = [p \in PaneId |-> IF p \in Expired THEN NoPane ELSE panes[p]]
    /\ owners' = [p \in PaneId |-> IF p \in Expired THEN NoConn ELSE owners[p]]
    /\ aliases' = ForgetAliasesTo(Expired)
    /\ \E nth \in [Expired -> 1..Cardinality(Expired)] :
          /\ \A p, q \in Expired : nth[p] = nth[q] => p = q
          /\ forgotten' = RememberForgotten(Expired, nth)
    /\ by' = NoConn
    /\ UNCHANGED live

\* time.monotonic() advances; ages past the grace period are all alike.
Tick ==
    /\ \E p \in PaneId : Offline(p) /\ panes[p].age < OfflineGrace
    /\ panes' = [p \in PaneId |->
                    IF Offline(p) /\ panes[p].age < OfflineGrace
                    THEN Aged(panes[p], panes[p].age + 1) ELSE panes[p]]
    /\ by' = NoConn
    /\ UNCHANGED <<owners, aliases, forgotten, live>>

Next ==
    \/ \E c \in Conn : Connect(c) \/ Disconnect(c)
    \/ \E c \in Conn, p \in PaneId, f \in PaneId \cup {NoFormer} : Register(c, p, f)
    \/ \E c \in Conn, p \in PaneId :
          RegisterDock(c, p) \/ Unregister(c, p) \/ UnregisterDock(c, p)
    \/ \E p \in PaneId : KillSurface(p)
    \/ PurgeExpired
    \/ Tick

Spec == Init /\ [][Next]_vars

-----------------------------------------------------------------------------
\* The tables hold what agent_messaging.py's dictionaries may hold.
TypeOK ==
    /\ panes \in [PaneId -> Entry \cup {NoPane}]
    /\ owners \in [PaneId -> Conn \cup {NoConn}]
    /\ aliases \in [PaneId -> Alias \cup {NoAlias}]
    /\ forgotten \in [PaneId -> 0..ForgottenMax]
    /\ live \in SUBSET Conn
    /\ by \in Conn \cup {NoConn}

\* A pane has an owning session exactly while it is registered and not flagged
\* offline, and that session is up: whatever order registers, unregisters and
\* disconnects of several windows arrive in, a message is never routed to a
\* dead socket, and a pane is never left online with nobody behind it.
OwnerIffOnline ==
    \A p \in PaneId :
        /\ owners[p] # NoConn <=> Registered(p) /\ ~Offline(p)
        /\ owners[p] # NoConn => owners[p] \in live

\* Every alias names a registered pane other than itself, filed under that
\* pane's own workspace: the id a CLI was spawned with resolves to a pane or to
\* nothing, never to a pane that was closed or swept.
AliasTargetRegistered ==
    \A k \in PaneId :
        aliases[k] # NoAlias =>
            /\ aliases[k].pane # k
            /\ Registered(aliases[k].pane)
            /\ aliases[k].ws = WorkspaceOf[aliases[k].pane]

\* An id that already resolves, or is registered, inside one workspace is never
\* re-pointed at a pane of another one.  add_aliases checks the former id only:
\* the ids re-pointed along with it are safe because no alias dangles.
AliasClaimFenced ==
    [][\A k \in PaneId :
          aliases'[k] \notin {NoAlias, aliases[k]} =>
              IF aliases[k] # NoAlias THEN aliases'[k].ws = aliases[k].ws
              ELSE Registered(k) => aliases'[k].ws = panes'[k].ws]_vars

\* A pane held by a session that stays up goes away or offline only at that
\* session's own request, or with the panel's PTY: neither the late unregister
\* of the window a pane was detached from nor the late disconnect of a socket
\* the window has already replaced can take it down.
HeldPaneStays ==
    [][\A p \in PaneId :
          /\ owners[p] # NoConn
          /\ owners[p] \in live'
          /\ panes'[p] = NoPane \/ panes'[p].age # Online
          => by' = owners[p] \/ KillSurface(p)]_vars
=============================================================================
