--------------------------- MODULE UsbipBridgeMC ---------------------------
(* Model-checking instance of UsbipBridge: the Bridge*.cfg runs. *)
EXTENDS UsbipBridge, TLC

\* Callers do the same thing, so exchanging them changes nothing.
CallerSymmetry == Permutations(Callers)
=============================================================================
