------------------------- MODULE ResumableTransfer --------------------------
(***************************************************************************)
(* What resumable reception promises, one reception per name: packets are  *)
(* saved one at a time and never lost singly; the only other thing the     *)
(* storage may hold is the whole file; a reception is completed once, with *)
(* the whole file in place; and what is delivered was completed before.    *)
(* A reception may be spoilt while it is under way; nothing is promised of *)
(* the contents of such a one, but it keeps its packets and its phases.    *)
(* RaptorQReceiver is shown to implement it.                               *)
(***************************************************************************)
CONSTANTS Name, ESI

VARIABLES
  phase,   \* "new", "open" or "complete"
  saved,   \* the packets a later visit can start from
  whole,   \* receptions whose storage holds the whole file
  spoilt,  \* receptions with foreign data, or without room for their file
  out      \* receptions delivered to the user

tvars == <<phase, saved, whole, spoilt, out>>

Init ==
  /\ phase = [n \in Name |-> "new"]
  /\ saved = [n \in Name |-> {}]
  /\ whole = {} /\ spoilt = {} /\ out = {}

Begin(n) ==
  /\ phase[n] = "new"
  /\ phase' = [phase EXCEPT ![n] = "open"]
  /\ UNCHANGED <<saved, whole, spoilt, out>>

Save(n, e) ==
  /\ phase[n] = "open" /\ n \notin whole
  /\ saved' = [saved EXCEPT ![n] = @ \cup {e}]
  /\ UNCHANGED <<phase, whole, spoilt, out>>

\* The storage is emptied: to make room for the file, or because all of it is given up.
Discard(n) ==
  /\ saved' = [saved EXCEPT ![n] = {}]
  /\ whole' = whole \ {n}
  /\ UNCHANGED <<phase, spoilt, out>>

\* A file that is handed over a second time is assembled a second time.
Assemble(n) ==
  /\ phase[n] # "new" /\ saved[n] = {}
  /\ whole' = whole \cup {n}
  /\ UNCHANGED <<phase, saved, spoilt, out>>

Spoil(n) ==
  /\ phase[n] # "new"
  /\ spoilt' = spoilt \cup {n}
  /\ UNCHANGED <<phase, saved, whole, out>>

Complete(n) ==
  /\ phase[n] = "open" /\ n \in whole \cup spoilt
  /\ phase' = [phase EXCEPT ![n] = "complete"]
  /\ UNCHANGED <<saved, whole, spoilt, out>>

Deliver(n) ==
  /\ phase[n] = "complete" /\ n \in whole \cup spoilt
  /\ out' = out \cup {n}
  /\ UNCHANGED <<phase, saved, whole, spoilt>>

Next ==
  \E n \in Name :
    \/ Begin(n) \/ Discard(n) \/ Assemble(n) \/ Spoil(n) \/ Complete(n) \/ Deliver(n)
    \/ \E e \in ESI : Save(n, e)

Spec == Init /\ [][Next]_tvars
=============================================================================
