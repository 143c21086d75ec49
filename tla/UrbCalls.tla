------------------------------ MODULE UrbCalls ------------------------------
(***************************************************************************)
(* What UsbipBridge::submit promises the threads that call it              *)
(* (usbipdevirt/src/main.rs:50): a call ends once, with an answer or with  *)
(* an error; an answer means that the remote device carried out the URB of *)
(* this very call.  An error says nothing about the device: the URB may or *)
(* may not have been carried out, and may still be.                        *)
(***************************************************************************)
CONSTANT Callers

VARIABLES
  phase,      \* where the current call of each caller stands
  carriedOut  \* the device has carried out the URB of that call

vars == <<phase, carriedOut>>

Phase == {"idle", "open", "answered", "failed"}

TypeOK ==
  /\ phase \in [Callers -> Phase]
  /\ carriedOut \in [Callers -> BOOLEAN]

Init ==
  /\ phase = [t \in Callers |-> "idle"]
  /\ carriedOut = [t \in Callers |-> FALSE]

Move(t, from, to) == phase[t] = from /\ phase' = [phase EXCEPT ![t] = to]

Call(t) == Move(t, "idle", "open") /\ UNCHANGED carriedOut

CarryOut(t) ==
  /\ phase[t] \in {"open", "failed"}
  /\ carriedOut' = [carriedOut EXCEPT ![t] = TRUE]
  /\ UNCHANGED phase

Answer(t) == carriedOut[t] /\ Move(t, "open", "answered") /\ UNCHANGED carriedOut

\* The end of the connection fails any number of calls at once.
Fail(T) ==
  /\ T # {} /\ \A t \in T : phase[t] = "open"
  /\ phase' = [t \in Callers |-> IF t \in T THEN "failed" ELSE phase[t]]
  /\ UNCHANGED carriedOut

Return(t) ==
  /\ Move(t, "answered", "idle") \/ Move(t, "failed", "idle")
  /\ carriedOut' = [carriedOut EXCEPT ![t] = FALSE]

Next ==
  \/ \E t \in Callers : Call(t) \/ CarryOut(t) \/ Answer(t) \/ Return(t)
  \/ \E T \in SUBSET Callers : Fail(T)

Spec == Init /\ [][Next]_vars
=============================================================================
