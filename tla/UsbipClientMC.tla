--------------------------- MODULE UsbipClientMC ---------------------------
(* Model-checking instance of UsbipClient: see UsbipClientMC.cfg. *)
EXTENDS UsbipClient

\* Once the server has strayed, two commands are enough: only TypeOK is left to
\* hold, and the server may answer any number at any time.
StraysEarly == strayed => nextSeq <= 3
=============================================================================
