-------------------------- MODULE ConfigDescriptor --------------------------
(***************************************************************************)
(* parse_endpoint_descriptors (usbipdevirt/src/main.rs:124): the walk over  *)
(* the cached bytes of a configuration descriptor that finds the endpoints  *)
(* SET_CONFIGURATION enables.  The bytes come from the remote device, cut   *)
(* at the length the host happened to ask for.                              *)
(***************************************************************************)
EXTENDS Integers, Sequences

CONSTANTS
  Inputs,    \* the byte strings to parse
  Layouts    \* lists of descriptors they are compared with

Byte  == 0 .. 255

\* A descriptor, and where it begins among the bytes.
Placed == [from : Nat, bytes : Seq(Byte)]

ASSUME InputsAssumption == Inputs \subseteq Seq(Byte) /\ Layouts \subseteq Seq(Placed)

USB_DT_ENDPOINT         == 5
USB_DT_ENDPOINT_SIZE    == 7   \* the shortest endpoint descriptor
UsbEndpointDescriptor   == 9   \* and the longest: bRefresh, bSynchAddress

VARIABLES
  config_data,
  offset,
  endpoints,   \* where each descriptor that was found begins, and its bytes
  touched,     \* the indices that were read
  done

vars == <<config_data, offset, endpoints, touched, done>>

Found == [from : Nat, size : USB_DT_ENDPOINT_SIZE .. UsbEndpointDescriptor]

TypeOK ==
  /\ config_data \in Seq(Byte)
  /\ offset \in Nat
  /\ endpoints \in Seq(Found)
  /\ touched \subseteq Int
  /\ done \in BOOLEAN

Init ==
  /\ config_data \in Inputs
  /\ offset = 0 /\ endpoints = <<>> /\ touched = {} /\ done = FALSE

At(i) == config_data[i + 1]   \* indices of Rust start at 0

b_length == At(offset)

HasHeader == offset + 1 < Len(config_data)

\* Mutant: a descriptor of no length is let through.
EndlessFits == offset + b_length <= Len(config_data)

\* Mutant: off by one at the end.
LooseFits == b_length >= 2 /\ offset + b_length <= Len(config_data) + 1

Fits == b_length >= 2 /\ offset + b_length <= Len(config_data)

\* Mutant: every endpoint descriptor counts.
ShortIsEndpoint == At(offset + 1) = USB_DT_ENDPOINT

IsEndpoint == At(offset + 1) = USB_DT_ENDPOINT /\ b_length >= USB_DT_ENDPOINT_SIZE

Kept == IF b_length < UsbEndpointDescriptor THEN b_length ELSE UsbEndpointDescriptor

\* Mutant: every endpoint descriptor is taken for one of the shortest.
ShortAdvance == offset + USB_DT_ENDPOINT_SIZE

Advance == offset + b_length

Stop ==
  /\ ~done
  /\ HasHeader => ~Fits
  /\ touched' = IF HasHeader THEN touched \cup {offset} ELSE touched
  /\ done' = TRUE
  /\ UNCHANGED <<config_data, offset, endpoints>>

Skip ==
  /\ ~done /\ HasHeader /\ Fits /\ ~IsEndpoint
  /\ touched' = touched \cup {offset, offset + 1}
  /\ offset' = Advance
  /\ UNCHANGED <<config_data, endpoints, done>>

Push ==
  /\ ~done /\ HasHeader /\ Fits /\ IsEndpoint
  /\ touched' = touched \cup offset .. offset + Kept - 1
  /\ endpoints' = Append(endpoints, [from |-> offset, size |-> Kept])
  /\ offset' = Advance
  /\ UNCHANGED <<config_data, done>>

Next == Stop \/ Skip \/ Push

Spec == Init /\ [][Next]_vars /\ WF_vars(Next)

-----------------------------------------------------------------------------
(* No index is read that the bytes do not have, however the descriptor lies  *)
(* about its lengths or was cut (main.rs:130, 135): indexing would panic,    *)
(* and end the main thread.                                                 *)
InBounds == touched \subseteq 0 .. Len(config_data) - 1

(* The descriptors found lie one after another behind the offset, which      *)
(* never passes the end of the bytes (main.rs:132, 151): no byte is part of  *)
(* two endpoints, and no endpoint is cut.                                    *)
FoundApart ==
  /\ offset <= Len(config_data)
  /\ \A i \in DOMAIN endpoints : endpoints[i].from + endpoints[i].size <= offset
  /\ \A i, j \in DOMAIN endpoints :
       i < j => endpoints[i].from + endpoints[i].size <= endpoints[j].from

\* The reference: what a device may have put into the bytes, however the host
\* cut them.
EndOf(d)    == d.from + Len(d.bytes)
Truthful(d) == Len(d.bytes) >= 2 /\ d.bytes[1] = Len(d.bytes)
Total(l)    == IF l = <<>> THEN 0 ELSE EndOf(l[Len(l)])
InARow(l)   == \A i \in DOMAIN l : l[i].from = IF i = 1 THEN 0 ELSE EndOf(l[i - 1])

Holds(d) ==
  \A k \in DOMAIN d.bytes : d.from + k <= Len(config_data) => config_data[d.from + k] = d.bytes[k]

\* Nothing, one byte or a descriptor that cannot be follows the last one.
NoneBehind(end) ==
  end + 1 < Len(config_data) =>
    config_data[end + 1] < 2 \/ end + config_data[end + 1] > Len(config_data)

SentAs(l) ==
  /\ InARow(l)
  /\ \A i \in DOMAIN l : Truthful(l[i]) /\ Holds(l[i])
  /\ NoneBehind(Total(l))

IsWholeEndpoint(d) ==
  /\ d.bytes[2] = USB_DT_ENDPOINT /\ Len(d.bytes) >= USB_DT_ENDPOINT_SIZE
  /\ EndOf(d) <= Len(config_data)

AsFound(d) ==
  [from |-> d.from, size |-> IF Len(d.bytes) < UsbEndpointDescriptor THEN Len(d.bytes)
                             ELSE UsbEndpointDescriptor]

(* Whatever list of descriptors the bytes are, or are the beginning of, the  *)
(* endpoints found are exactly the endpoint descriptors of that list that    *)
(* are long enough and whole (main.rs:130, 135): none is missed, and no bytes *)
(* inside another descriptor or behind the cut are taken for one.            *)
MatchesReference ==
  done => \A l \in Layouts :
    SentAs(l) => {endpoints[i] : i \in DOMAIN endpoints}
                   = {AsFound(l[i]) : i \in {k \in DOMAIN l : IsWholeEndpoint(l[k])}}

(* The walk ends, even over descriptors of length zero (main.rs:130).        *)
Terminates == <>done
=============================================================================
