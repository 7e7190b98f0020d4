------------------------------ MODULE DoorCall ------------------------------
(***************************************************************************)
(* What a door call promises, whoever carries it out: at most one device   *)
(* takes the call and it stays that one, the visitor hears no device but   *)
(* that one, and the door channel is answered only for a device that took  *)
(* the call, while the visitor is still there.                             *)
(***************************************************************************)

CONSTANTS Devices, None   \* None is no device

VARIABLES
  taken,     \* the device that took the call, or None
  heard,     \* the devices whose voice and keys reach the door
  answered,  \* the door station's call is answered (the visitor pays for it)
  over       \* the door station's call has ended

vars == <<taken, heard, answered, over>>

Init ==
  /\ taken = None
  /\ heard = {}
  /\ answered = FALSE
  /\ over = FALSE

\* A device takes the call.  The visitor may have left a moment before.
Take(d) ==
  /\ taken = None
  /\ taken' = d
  /\ UNCHANGED <<heard, answered, over>>

\* The sound of devices starts or stops to reach the door.
Hear ==
  /\ heard' \in SUBSET {d \in Devices : d = taken}
  /\ UNCHANGED <<taken, answered, over>>

Answer ==
  /\ taken # None
  /\ ~over
  /\ answered' = TRUE
  /\ UNCHANGED <<taken, heard, over>>

End ==
  /\ over' = TRUE
  /\ heard' = {}
  /\ UNCHANGED <<taken, answered>>

Next == (\E d \in Devices : Take(d)) \/ Hear \/ Answer \/ End

Spec == Init /\ [][Next]_vars

=============================================================================
