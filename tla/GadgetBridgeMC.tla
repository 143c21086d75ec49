--------------------------- MODULE GadgetBridgeMC ---------------------------
(***************************************************************************)
(* Model-checking instance of GadgetBridge: the Gadget*.cfg runs.  A device *)
(* with an IN and an OUT endpoint in its first configuration and none in    *)
(* its second; the requests that main tells apart.                          *)
(***************************************************************************)
EXTENDS GadgetBridge

MCEndpoints   == {"in1", "out1"}
MCInEndpoints == {"in1"}
MCConfigs     == {1, 2}
MCAddressOf   == [d \in MCEndpoints |-> d]   \* a descriptor for each endpoint
MCDescsOf     == [c \in MCConfigs |-> IF c = 1 THEN MCEndpoints ELSE {}]
MCBufSize     == 1

Req(name, in, len, cfg, full) ==
  [name |-> name, std |-> TRUE, in |-> in, len |-> len, cfg |-> cfg, full |-> full]

SetAddress      == Req("SET_ADDRESS", FALSE, 0, None, FALSE)
SetConfig(c)    == Req("SET_CONFIGURATION", FALSE, 0, c, FALSE)
GetConfig(c, f) == Req("GET_DESCRIPTOR", TRUE, 1, c, f)
OutData(n)      == Req("other", FALSE, n, None, FALSE)

MCRequests ==
  {SetAddress, OutData(0), OutData(1), GetConfig(1, FALSE)}
    \cup {SetConfig(c) : c \in MCConfigs} \cup {GetConfig(c, TRUE) : c \in MCConfigs}

\* What it takes to configure the device, and one request of each other kind.
FewRequests ==
  {OutData(0), OutData(1), GetConfig(1, TRUE), SetConfig(1)}
OneConfig == {1}
BothDescsOf == [c \in OneConfig |-> MCEndpoints]

\* A class or vendor request that happens to have the number 9.
VendorNine     == [Req("SET_CONFIGURATION", FALSE, 0, None, FALSE) EXCEPT !.std = FALSE]
VendorRequests == {GetConfig(1, TRUE), SetConfig(1), VendorNine}

\* For a host of any conduct: one endpoint, one configuration, which the host
\* may also take back, and data that EP0_BUF_SIZE does not hold.
OneAddressOf == [d \in MCInEndpoints |-> d]
OneDescsOf   == [c \in OneConfig |-> MCInEndpoints]
LiveRequests == {GetConfig(1, TRUE), SetConfig(1), SetConfig(None), OutData(2)}
=============================================================================
