-------------------------- MODULE MCQuotaFailover ---------------------------
(***************************************************************************)
(* QuotaFailover on a small instance: a default account and one or two      *)
(* others, two incidents and two transactions in each life.                 *)
(***************************************************************************)
EXTENDS QuotaFailover, TLC

CONSTANTS A, B, C

Symm == Permutations(Slot \ {Home}) \cup Permutations(Inc) \cup Permutations(Tx)

\* Two kinds of step lead nowhere new and are not followed: a process that dies
\* with nothing written or switched by hand starts anew, and the clock means
\* nothing before a row counts.
Telling ==
    /\ up /\ ~up' => handed > 0 \/ lock # None \/ \E t \in Tx : row[t].st # "none"
    /\ clock' # clock => Counted # {}

(* A view of what still matters.  Epochs are only ever compared with the        *)
(* current one, which grows; a closed incident, a dead transaction, a row that   *)
(* neither counts nor blocks and a move too old for the budget are one to every  *)
(* guard and property, and so are the two ways of waiting for panes, an incident *)
(* detected or stopped, and one that waits or switches.                          *)
Dead(t) == tx[t].st \in {"cancelled", "failed"} /\ pc[t] = "over"
Past(t) == Swapped(t) /\ ~inc[tx[t].inc].open
Alike(st) ==
    CASE st \in {"preparing", "waiting-safe", "switching"} -> "busy"
      [] st \in {"detected", "notify-stopped"} -> "idle"
      [] OTHER -> st

SeenTx(t) ==
    CASE Dead(t) -> <<"dead">>
      [] Past(t) -> <<"past", tx[t].to, tx[t].closed, tx[t].inc \in crossed>>
      [] OTHER -> <<Alike(tx[t].st), tx[t].inc, tx[t].from, tx[t].to, tx[t].auto, tx[t].closed, pc[t],
                    tx[t].st \in Open /\ tx[t].before = epoch, Swapped(t) /\ tx[t].after = epoch>>

SeenInc(i) ==
    IF inc[i].open THEN <<Alike(inc[i].st), inc[i].out, inc[i].due /\ inc[i].epoch = epoch, inc[i].due, i \in crossed>>
    ELSE <<inc[i].st = "none", i \in crossed /\ \E t \in TxsOf(i) : ~Dead(t) /\ ~Past(t)>>

Recent(at) == at + Window > clock \/ at + Gap > clock

SeenRow(t) ==
    CASE t \in Unreconciled -> <<row[t]>>
      [] t \in Counted \ Unreconciled -> <<"counts", IF Recent(row[t].at) THEN row[t].at ELSE None>>
      [] OTHER -> <<row[t].st = "none">>

View ==
    <<policy, dflt, vault, degraded, unrec, route, env, astray,
      [t \in Tx |-> <<SeenTx(t), SeenRow(t), IF moved[t] # None /\ Recent(moved[t]) THEN moved[t] ELSE None>>],
      [i \in Inc |-> SeenInc(i)]>>
=============================================================================
