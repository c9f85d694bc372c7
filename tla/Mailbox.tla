------------------------------ MODULE Mailbox ------------------------------
(***************************************************************************)
(* What a window promises of the messages sent to its panes, without how:  *)
(* a bounded box per pane in order of arrival; whoever hands a message     *)
(* over takes it in hand first - the one at the head, or whichever one the *)
(* recipient reserves to read - and one hand holds it at a time; the agent *)
(* gets it once, while it is held; it leaves its box when it was got, when *)
(* it failed without having been, or when it was withdrawn; and a failure  *)
(* is answered by at most one notice, a message like any other.            *)
(*                                                                         *)
(* MessageQueue implements this while its panes stay open and no answer is *)
(* lost: a step there is one of these or none.                             *)
(***************************************************************************)
EXTENDS Naturals, SequencesExt

CONSTANTS
  Pane, Msg,
  Cap,        \* the room of a box
  NoticeOf    \* the notice a failed message may give rise to

VARIABLES
  box,        \* the messages waiting for a pane, oldest first
  fate,       \* what has become of a message
  held        \* in whose hand it is: "free", "carried", "reserved"

vars == <<box, fate, held>>

Elements(q) == {q[i] : i \in 1..Len(q)}
In(p, m) == m \in Elements(box[p])
Taken(m) == [p \in Pane |-> RemoveFirst(box[p], m)]
Letting(m) == held' = [held EXCEPT ![m] = "free"]

Init ==
  /\ box = [p \in Pane |-> << >>]
  /\ fate = [m \in Msg |-> "new"]
  /\ held = [m \in Msg |-> "free"]

Arrive(p, m) ==
  /\ fate[m] = "new" /\ Len(box[p]) < Cap
  /\ fate' = [fate EXCEPT ![m] = "waiting"]
  /\ box' = [box EXCEPT ![p] = Append(@, m)]
  /\ UNCHANGED held

\* The head is taken in hand to be brought to the agent.
Carry(p, m) ==
  /\ box[p] # << >> /\ m = Head(box[p])
  /\ held[m] = "free" /\ \A n \in Elements(box[p]) : held[n] # "carried"
  /\ held' = [held EXCEPT ![m] = "carried"]
  /\ UNCHANGED <<box, fate>>

\* The recipient asks for a message; it need not be the oldest.
Reserve(p, m) ==
  /\ In(p, m) /\ held[m] = "free"
  /\ held' = [held EXCEPT ![m] = "reserved"]
  /\ UNCHANGED <<box, fate>>

\* Put down again, not having been got.
PutDown(m) ==
  /\ held[m] # "free" /\ fate[m] = "waiting"
  /\ Letting(m)
  /\ UNCHANGED <<box, fate>>

\* The agent gets the text of a message carried to it.
Get(p, m) ==
  /\ In(p, m) /\ held[m] = "carried" /\ fate[m] = "waiting"
  /\ fate' = [fate EXCEPT ![m] = "got"]
  /\ UNCHANGED <<box, held>>

\* What was carried leaves the box: got, or with no telling whether it was.
Leave(m) ==
  /\ held[m] = "carried"
  /\ fate' = [fate EXCEPT ![m] = IF @ = "got" THEN "delivered" ELSE "unsure"]
  /\ box' = Taken(m)
  /\ Letting(m)

\* The recipient has read what it reserved.
Read(m) ==
  /\ held[m] = "reserved" /\ fate[m] = "waiting"
  /\ fate' = [fate EXCEPT ![m] = "delivered"]
  /\ box' = Taken(m)
  /\ Letting(m)

\* It never got there; the notice of it arrives, fails in turn, or is none.
Fail(m) ==
  /\ fate[m] \in {"new", "waiting"} /\ held[m] # "reserved"
  /\ \/ /\ fate' = [fate EXCEPT ![m] = "failed"]
        /\ box' = Taken(m)
     \/ \E n \in {NoticeOf[k] : k \in DOMAIN NoticeOf \cap {m}} :
          /\ fate[n] = "new"
          /\ \/ /\ fate' = [fate EXCEPT ![m] = "failed", ![n] = "failed"]
                /\ box' = Taken(m)
             \/ \E s \in Pane :
                  /\ fate' = [fate EXCEPT ![m] = "failed", ![n] = "waiting"]
                  /\ box' = [Taken(m) EXCEPT ![s] = Append(@, n)]
                  /\ Len(box'[s]) <= Cap
  /\ Letting(m)

\* Its sender takes it back before anyone got it.
Withdraw(m) ==
  /\ fate[m] = "waiting" /\ held[m] # "reserved"
  /\ fate' = [fate EXCEPT ![m] = "cancelled"]
  /\ box' = Taken(m)
  /\ Letting(m)

Next ==
  \E m \in Msg :
    \/ \E p \in Pane : Arrive(p, m) \/ Carry(p, m) \/ Reserve(p, m) \/ Get(p, m)
    \/ PutDown(m) \/ Leave(m) \/ Read(m) \/ Fail(m) \/ Withdraw(m)

Spec == Init /\ [][Next]_vars
=============================================================================
