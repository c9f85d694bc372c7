---------------------------- MODULE MCSyncEngine ----------------------------
(***************************************************************************)
(* The instance TLC checks of SyncEngine: two devices that start in        *)
(* agreement on one item, a second item nobody has yet, pages of one row.  *)
(***************************************************************************)
EXTENDS SyncEngine, TLC

\* Devices and items not known at the start are interchangeable, and so are
\* the payloads other than the first.
Symm == Permutations(Device)
    \cup Permutations(Item \ Known) \cup Permutations(Value \ {FirstValue})

\* Of the snapshot and the blocked items of a page, only what is still read
\* for its remaining rows tells two rounds apart.
Remaining(r) == {entry.item : entry \in r.rows}
SeenRound(r) ==
    IF r.stage # "apply" THEN r
    ELSE [r EXCEPT !.snap = [i \in Remaining(r) |-> r.snap[i]],
                   !.blocked = @ \cap Remaining(r)]
SyncView == <<server, local, Stored, on, gen, History, spent,
              [d \in Device |-> SeenRound(round[d])]>>
=============================================================================
