--------------------------- MODULE HalfDuplexSlots ---------------------------
(***************************************************************************)
(* What the call lock promises: each timeslot carries the traffic of one   *)
(* direction at a time, and is turned around only through a pause in which *)
(* it carries nothing.  A direction keeps its slot reserved while it       *)
(* carries traffic and may keep it reserved for a while after; no call of  *)
(* the other direction begins before the reservation is gone.              *)
(***************************************************************************)
CONSTANT TS

VARIABLES
  carrying,  \* the direction whose traffic a slot carries, or "free"
  reserved   \* the direction a slot is kept for, or "free"

Directions == {"IPSC", "HBP"}

Init ==
  /\ carrying = [ts \in TS |-> "free"]
  /\ reserved = [ts \in TS |-> "free"]

Begin(ts, dir) ==
  /\ carrying[ts] = "free"
  /\ reserved[ts] \in {"free", dir}
  /\ carrying'[ts] = dir
  /\ reserved'[ts] = dir

Carry(ts) ==
  /\ carrying[ts] # "free"
  /\ carrying'[ts] = carrying[ts]
  /\ reserved'[ts] = carrying[ts]

End(ts) ==
  /\ carrying[ts] # "free"
  /\ carrying'[ts] = "free"
  /\ reserved'[ts] \in {"free", carrying[ts]}

\* A packet that opens no call may reserve the slot as well.
Pause(ts) ==
  /\ carrying[ts] = "free"
  /\ carrying'[ts] = "free"
  /\ reserved[ts] # "free" => reserved'[ts] \in {"free", reserved[ts]}

\* A timer or a lost connection concerns several slots in one step.
Next ==
  \A ts \in TS : \/ \E dir \in Directions : Begin(ts, dir)
                 \/ Carry(ts)
                 \/ End(ts)
                 \/ Pause(ts)

Spec == Init /\ [][Next]_<<carrying, reserved>>
=============================================================================
