---------------------------- MODULE AtomicStore ----------------------------
(***************************************************************************)
(* What a durable store promises (include/haf/persist/store.hpp): write()  *)
(* replaces the payload atomically, so that a reader finds the previous    *)
(* complete payload or the one being written, nothing else, and only       *)
(* erase() removes it.  The one weakness an implementation may have is     *)
(* named: while it is exposed, which only a write can be, the payload can  *)
(* be lost; a payload lost so, or one that outlived an erasure, may come   *)
(* back through a later write that fails.                                  *)
(***************************************************************************)
CONSTANTS Payloads, Absent, NoUpdate

VARIABLES
  value,     \* the payload a reader finds, or Absent
  update,    \* the payload being written, Absent during an erasure, or NoUpdate
  exposed,   \* whether a write is in a window in which the payload can be lost
  leftover,  \* while there is no payload: the one that may still come back, or Absent
  past       \* the payloads that readers have been able to find

vars == <<value, update, exposed, leftover, past>>

Init ==
  /\ value \in Payloads \cup {Absent} /\ update = NoUpdate /\ exposed = FALSE
  /\ leftover = Absent /\ past = {value} \ {Absent}

Begin ==
  /\ update = NoUpdate
  /\ update' \in Payloads \cup {Absent}
  /\ UNCHANGED <<value, exposed, leftover, past>>

Expose ==
  /\ update \in Payloads
  /\ exposed' = TRUE
  /\ UNCHANGED <<value, update, leftover, past>>

End == update' = NoUpdate /\ exposed' = FALSE

(* The payload being written, and no other, takes the place of the old one. *)
Commit ==
  /\ update \in Payloads
  /\ value' = update /\ leftover' = Absent /\ past' = past \cup {update}
  /\ End

Fail ==
  /\ update # NoUpdate
  /\ End
  /\ UNCHANGED <<value, leftover, past>>

Lose ==
  /\ exposed /\ value # Absent
  /\ value' = Absent /\ leftover' = value
  /\ End
  /\ UNCHANGED past

Reappear ==
  /\ exposed /\ value = Absent /\ leftover # Absent
  /\ value' = leftover /\ leftover' = Absent
  /\ End
  /\ UNCHANGED past

Discard ==
  /\ update # NoUpdate /\ value = Absent
  /\ leftover' = Absent
  /\ UNCHANGED <<value, update, exposed, past>>

(* An erasure may miss a payload of the past, but brings none back.        *)
Erase ==
  /\ update = Absent
  /\ value' = Absent
  /\ leftover' \in {Absent} \cup (IF value = Absent THEN {leftover} ELSE past)
  /\ End
  /\ UNCHANGED past

Next == Begin \/ Expose \/ Commit \/ Fail \/ Lose \/ Reappear \/ Discard \/ Erase

Spec == Init /\ [][Next]_vars
=============================================================================
