---------------------------- MODULE PaneLineage -----------------------------
(***************************************************************************)
(* One CLI process and the pane ids it is known by over its life, as        *)
(* renderer windows (App.vue) restore it: the CLI keeps quoting the id it   *)
(* was spawned with, every rebuild mints a new id whose formerPaneIds holds *)
(* the one id before it, and every mirror of a pane re-sends that list.     *)
(* The module composes this with the registry of PaneRegistry.              *)
(*                                                                          *)
(* A member of Conn stands for a window and for its current socket.         *)
(***************************************************************************)
EXTENDS PaneRegistry, Sequences

VARIABLES
    line,       \* the pane ids of the CLI, oldest first
    holds,      \* the pane objects in each window's `panes'
    swept,      \* history: purge_expired has removed the pane that was newest
    overlapped  \* history: a window restored the pane before the last one had
                \* let go of it, as add_aliases says a detach does

lineageVars == <<line, holds, swept, overlapped>>
allVars == <<vars, lineageVars>>

Newest == line[Len(line)]
LineIds == {line[i] : i \in 1..Len(line)}

\* Mutant: the former id is declared on the first mirror only.
FormerSentOnce(p) == NoFormer

\* formerPaneIds of the pane object p, fixed when it was created.
FormerOf(p) ==
    LET i == CHOOSE j \in 1..Len(line) : line[j] = p
    IN  IF i = 1 THEN NoFormer ELSE line[i - 1]

Hold(c, p) == holds' = [holds EXCEPT ![c] = @ \cup {p}]
Release(c, P) == holds' = [holds EXCEPT ![c] = @ \ P]

LineageInit ==
    /\ Init
    /\ line = <<>>
    /\ holds = [c \in Conn |-> {}]
    /\ swept = FALSE
    /\ overlapped = FALSE

\* A window starts the CLI in a new pane (registerPaneMessaging).
Spawn(c, p) ==
    /\ line = <<>>
    /\ Register(c, p, NoFormer)
    /\ line' = <<p>>
    /\ Hold(c, p)
    /\ UNCHANGED <<swept, overlapped>>

\* spawnRestoredPane: a pane rebuilt around the running CLI gets a fresh id and
\* declares saved.pane_id as its former one, in the workspace it was saved in.
\* A window drops its own copy of the pane first (handleGroupReattached).
Restore(c, p) ==
    /\ line # <<>>
    /\ p \notin LineIds
    /\ WorkspaceOf[p] = WorkspaceOf[Newest]
    /\ holds[c] = {}
    /\ Register(c, p, Newest)
    /\ line' = Append(line, p)
    /\ Hold(c, p)
    /\ overlapped' = (overlapped \/ \E d \in Conn : Newest \in holds[d])
    /\ UNCHANGED swept

\* mirrorMessagingHandle of a pane the window already holds: a rename, or the
\* re-mirror of every pane after a reconnect.
Remirror(c, p) ==
    /\ p \in holds[c]
    /\ Register(c, p, FormerOf(p))
    /\ UNCHANGED lineageVars

\* A window drops a pane another window has taken over (handleGroupDetached);
\* the unregister is best effort and is lost while the socket is down.
LetGo(c, p) ==
    /\ p \in holds[c]
    /\ p # Newest
    /\ Release(c, {p})
    /\ IF c \in live /\ MayUnregister(c, p)
       THEN RemovePane(p) /\ by' = c /\ UNCHANGED live
       ELSE UNCHANGED vars
    /\ UNCHANGED <<line, swept, overlapped>>

\* The window reloads: its socket closes and its pane objects are gone, while
\* the PTY and the CLI live on in the backend.
Reload(c) ==
    /\ Disconnect(c)
    /\ Release(c, holds[c])
    /\ UNCHANGED <<line, swept, overlapped>>

\* The socket alone drops, or comes back.
Reconnect(c) ==
    /\ Connect(c) \/ Disconnect(c)
    /\ UNCHANGED lineageVars

Sweep ==
    /\ PurgeExpired
    /\ swept' = (swept \/ (line # <<>> /\ Newest \in Expired))
    /\ UNCHANGED <<line, holds, overlapped>>

LineageNext ==
    \/ \E c \in Conn, p \in PaneId :
          Spawn(c, p) \/ Restore(c, p) \/ Remirror(c, p) \/ LetGo(c, p)
    \/ \E c \in Conn : Reload(c) \/ Reconnect(c)
    \/ Sweep
    \/ Tick /\ UNCHANGED lineageVars

LineageSpec == LineageInit /\ [][LineageNext]_allVars

-----------------------------------------------------------------------------
Reachable == line # <<>> /\ Registered(Newest) /\ ~Offline(Newest)

\* While its window is connected, the id the pane had before its last rebuild
\* resolves to it, through any mix of reloads, lost sockets and sweeps: this is
\* what re-sending formerPaneIds on every mirror is for.
PredecessorResolves ==
    Reachable /\ Len(line) > 1 => ResolveAlias(line[Len(line) - 1]) = Newest

\* As long as the registry has not swept the newest pane away and no windows
\* overlapped, every id the CLI ever had resolves to it, the one it was spawned
\* with included.
LineResolvesUntilSwept ==
    Reachable /\ ~swept /\ ~overlapped => \A i \in 1..Len(line) : ResolveAlias(line[i]) = Newest
=============================================================================
