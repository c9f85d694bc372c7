----------------------------- MODULE MCScheduler -----------------------------
(* Instances of the scheduler: a once job listed before a periodic one.    *)
EXTENDS Scheduler

CONSTANTS j1, j2

MCOrder == <<j1, j2>>
MCOnce == {j1}
\* Both jobs are an agent's and due; the periodic one may not exist yet.
MCInitial ==
  {[j \in {j1, j2} |->
      [NewRow EXCEPT !.st = IF j = j2 THEN st ELSE "here", !.owner = "agent",
                     !.expires = IF j = j2 THEN Expire ELSE Never]] : st \in {"here", "absent"}}
=============================================================================
