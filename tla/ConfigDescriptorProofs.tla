----------------------- MODULE ConfigDescriptorProofs -----------------------
(***************************************************************************)
(* For every set of byte strings: parse_endpoint_descriptors reads no index *)
(* that does not exist and finds endpoints that are whole and apart.        *)
(***************************************************************************)
EXTENDS ConfigDescriptor, SequenceTheorems, WellFoundedInduction, TLAPS

(* Induction over the natural numbers, for a set of them.                    *)
LEMMA LeastNat ==
  ASSUME NEW T, T \subseteq Nat, T # {} PROVE \E m \in T : \A n \in T : m <= n
<1> DEFINE R == OpToRel(<, Nat)
<1>1. IsWellFoundedOn(R, Nat)
  BY NatLessThanWellFounded, Zenon
<1>2. \A x, y \in Nat : x < y => <<x, y>> \in R
  BY DEF OpToRel
<1> HIDE DEF R
<1>3. PICK m \in T : \A n \in T : ~(<<n, m>> \in R)
  BY <1>1, WFMin
<1>4. ASSUME NEW n \in T PROVE m <= n
  <2>1. m \in Nat /\ n \in Nat
    OBVIOUS
  <2>2. ~(n < m)
    BY <1>2, <1>3, <2>1
  <2> QED
    BY <2>1, <2>2
<1> QED
  BY <1>4

LEMMA SetInduction ==
  ASSUME NEW S, 0 \in S, \A n \in Nat : n \in S => n + 1 \in S
  PROVE  Nat \subseteq S
<1> SUFFICES ASSUME Nat \ S # {} PROVE FALSE
  OBVIOUS
<1>1. PICK m \in Nat \ S : \A n \in Nat \ S : m <= n
  BY LeastNat
<1>2. m - 1 \in Nat /\ m - 1 \notin Nat \ S
  BY <1>1
<1> QED
  BY <1>1, <1>2

(* The three facts hold together: a header that fits is in the bytes, so    *)
(* its length byte is one, and the offset stays behind the end.              *)
Inv == TypeOK /\ InBounds /\ FoundApart

(* Initially nothing has been read and nothing found (main.rs:125).          *)
LEMMA InvInit == Init => Inv
<1> SUFFICES ASSUME Init PROVE Inv
  OBVIOUS
<1>1. config_data \in Seq(Byte) /\ Len(config_data) \in Nat
  BY InputsAssumption DEF Init
<1>2. endpoints \in Seq(Found) /\ DOMAIN endpoints = {}
  BY DEF Init
<1>3. TypeOK /\ InBounds
  BY <1>1, <1>2 DEF Init, TypeOK, InBounds
<1>4. FoundApart
  BY <1>1, <1>2 DEF Init, FoundApart
<1> QED
  BY <1>3, <1>4 DEF Inv

(* A header that is there has a byte for its length (main.rs:128).           *)
LEMMA HeaderLength ==
  ASSUME TypeOK, HasHeader
  PROVE  /\ b_length \in Byte
         /\ Kept \in Int /\ Kept <= b_length
         /\ IsEndpoint => Kept \in USB_DT_ENDPOINT_SIZE .. UsbEndpointDescriptor
<1>1. config_data \in Seq(Byte) /\ offset + 1 \in 1 .. Len(config_data)
  BY DEF TypeOK, HasHeader
<1>2. b_length \in Byte
  BY <1>1 DEF b_length, At
<1> QED
  BY <1>2 DEF Byte, Kept, IsEndpoint, USB_DT_ENDPOINT_SIZE, UsbEndpointDescriptor

(* A step over a descriptor that is no endpoint (main.rs:151).               *)
LEMMA SkipStep == Inv /\ Skip => Inv'
<1> SUFFICES ASSUME Inv, Skip PROVE Inv'
  OBVIOUS
<1>1. b_length \in 2 .. Len(config_data) - offset
  <2>1. TypeOK /\ HasHeader /\ Fits
    BY DEF Inv, Skip
  <2>2. b_length \in Byte
    BY <2>1, HeaderLength
  <2> QED
    BY <2>1, <2>2 DEF TypeOK, Fits, Byte
<1>2. /\ offset \in Nat /\ Len(config_data) \in Nat
      /\ offset' = offset + b_length /\ touched' = touched \cup {offset, offset + 1}
      /\ config_data' = config_data /\ endpoints' = endpoints /\ done' = done
  BY DEF Inv, TypeOK, Skip, Advance
<1>3. TypeOK'
  BY <1>1, <1>2 DEF Inv, TypeOK
<1>4. InBounds'
  BY <1>1, <1>2 DEF Inv, InBounds
<1>5. FoundApart'
  <2>1. \A i \in DOMAIN endpoints : endpoints[i] \in Found
    BY DEF Inv, TypeOK
  <2> QED
    BY <1>1, <1>2, <2>1 DEF Inv, FoundApart, Found, USB_DT_ENDPOINT_SIZE, UsbEndpointDescriptor
<1> QED
  BY <1>3, <1>4, <1>5 DEF Inv

(* A step that keeps an endpoint (main.rs:136): it lies behind the others.   *)
LEMMA PushStep == Inv /\ Push => Inv'
<1> SUFFICES ASSUME Inv, Push PROVE Inv'
  OBVIOUS
<1> DEFINE new == [from |-> offset, size |-> Kept]
<1>1. /\ b_length \in 2 .. Len(config_data) - offset
      /\ Kept \in USB_DT_ENDPOINT_SIZE .. UsbEndpointDescriptor /\ Kept <= b_length
  <2>1. TypeOK /\ HasHeader /\ Fits /\ IsEndpoint
    BY DEF Inv, Push
  <2>2. /\ b_length \in Byte
        /\ Kept \in USB_DT_ENDPOINT_SIZE .. UsbEndpointDescriptor /\ Kept <= b_length
    BY <2>1, HeaderLength
  <2> QED
    BY <2>1, <2>2 DEF TypeOK, Fits, Byte
<1>2. /\ offset \in Nat /\ Len(config_data) \in Nat
      /\ offset' = offset + b_length /\ touched' = touched \cup offset .. offset + Kept - 1
      /\ config_data' = config_data /\ endpoints' = Append(endpoints, new) /\ done' = done
  BY DEF Inv, TypeOK, Push, Advance
<1>3. new \in Found
  BY <1>1, <1>2 DEF Found
<1>4. TypeOK'
  BY <1>1, <1>2, <1>3 DEF Inv, TypeOK, USB_DT_ENDPOINT_SIZE, UsbEndpointDescriptor
<1>5. InBounds'
  BY <1>1, <1>2 DEF Inv, InBounds, USB_DT_ENDPOINT_SIZE, UsbEndpointDescriptor
<1>6. FoundApart'
  <2>1. endpoints \in Seq(Found)
    BY DEF Inv, TypeOK
  <2>2. /\ Len(endpoints) \in Nat /\ Len(endpoints') = Len(endpoints) + 1
        /\ DOMAIN endpoints = 1 .. Len(endpoints)
        /\ DOMAIN endpoints' = 1 .. Len(endpoints) + 1
        /\ \A i \in 1 .. Len(endpoints) : endpoints'[i] = endpoints[i] /\ endpoints[i] \in Found
        /\ endpoints'[Len(endpoints) + 1] = new
    BY <1>2, <1>3, <2>1
  <2>3. offset' <= Len(config_data')
    BY <1>1, <1>2
  <2>4. \A i \in DOMAIN endpoints' : endpoints'[i].from + endpoints'[i].size <= offset'
    <3> SUFFICES ASSUME NEW i \in DOMAIN endpoints'
                 PROVE  endpoints'[i].from + endpoints'[i].size <= offset'
      OBVIOUS
    <3>1. CASE i = Len(endpoints) + 1
      BY <1>1, <1>2, <2>2, <3>1 DEF USB_DT_ENDPOINT_SIZE, UsbEndpointDescriptor
    <3>2. CASE i \in 1 .. Len(endpoints)
      <4>1. endpoints'[i] = endpoints[i] /\ endpoints[i].from \in Nat /\ endpoints[i].size \in Nat
        BY <2>2, <3>2 DEF Found, USB_DT_ENDPOINT_SIZE, UsbEndpointDescriptor
      <4>2. endpoints[i].from + endpoints[i].size <= offset
        BY <2>2, <3>2 DEF Inv, FoundApart
      <4> QED
        BY <1>1, <1>2, <4>1, <4>2
    <3> QED
      BY <2>2, <3>1, <3>2
  <2>5. \A i, j \in DOMAIN endpoints' :
          i < j => endpoints'[i].from + endpoints'[i].size <= endpoints'[j].from
    <3> SUFFICES ASSUME NEW i \in DOMAIN endpoints', NEW j \in DOMAIN endpoints', i < j
                 PROVE  endpoints'[i].from + endpoints'[i].size <= endpoints'[j].from
      OBVIOUS
    <3>1. i \in 1 .. Len(endpoints)
      BY <2>2
    <3>2. CASE j = Len(endpoints) + 1
      BY <2>2, <3>1, <3>2 DEF Inv, FoundApart
    <3>3. CASE j \in 1 .. Len(endpoints)
      BY <2>2, <3>1, <3>3 DEF Inv, FoundApart
    <3> QED
      BY <2>2, <3>2, <3>3
  <2> QED
    BY <2>3, <2>4, <2>5 DEF FoundApart
<1> QED
  BY <1>4, <1>5, <1>6 DEF Inv

(* The end of the walk (main.rs:128, 131): at most the length byte is read.  *)
LEMMA StopStep == Inv /\ Stop => Inv'
<1> SUFFICES ASSUME Inv, Stop PROVE Inv'
  OBVIOUS
<1>1. /\ offset \in Nat /\ Len(config_data) \in Nat
      /\ UNCHANGED <<config_data, offset, endpoints>> /\ done' = TRUE
  BY DEF Inv, TypeOK, Stop
<1>2. touched' \subseteq Int /\ InBounds'
  BY <1>1 DEF Inv, TypeOK, InBounds, Stop, HasHeader
<1> QED
  BY <1>1, <1>2 DEF Inv, TypeOK, FoundApart

LEMMA InvStep == Inv /\ [Next]_vars => Inv'
<1>1. CASE Stop
  BY <1>1, StopStep
<1>2. CASE Skip
  BY <1>2, SkipStep
<1>3. CASE Push
  BY <1>3, PushStep
<1>4. CASE UNCHANGED vars
  BY <1>4 DEF vars, Inv, TypeOK, InBounds, FoundApart
<1> QED
  BY <1>1, <1>2, <1>3, <1>4 DEF Next

LEMMA InvCorrect == Spec => []Inv
BY InvInit, InvStep, PTL DEF Spec

(* What is kept of each endpoint is between the standard descriptor and all  *)
(* of UsbEndpointDescriptor, and the offset is never negative, although both *)
(* come from a length byte of the device (main.rs:130, 136).                 *)
THEOREM ParserTypeCorrect == Spec => []TypeOK
<1>1. Inv => TypeOK
  BY DEF Inv
<1> QED
  BY <1>1, InvCorrect, PTL

(* No index out of bounds, for any bytes the device may have sent            *)
(* (main.rs:129, 134-148).                                                   *)
THEOREM ParserStaysInBounds == Spec => []InBounds
<1>1. Inv => InBounds
  BY DEF Inv
<1> QED
  BY <1>1, InvCorrect, PTL

(* The endpoints found are whole, and no byte belongs to two (main.rs:136).  *)
THEOREM EndpointsFoundApart == Spec => []FoundApart
<1>1. Inv => FoundApart
  BY DEF Inv
<1> QED
  BY <1>1, InvCorrect, PTL

-----------------------------------------------------------------------------
(* The agreement with the reference: the walk stands where a descriptor of   *)
(* the list ends, and has found the endpoints in front of it.                *)

\* Where the first n descriptors end, and the endpoints among them.
PlaceAfter(l, n) == IF n = 0 THEN 0 ELSE EndOf(l[n])
FoundBy(l, n)    == {AsFound(l[i]) : i \in {k \in 1 .. n : IsWholeEndpoint(l[k])}}
FoundSoFar       == {endpoints[i] : i \in DOMAIN endpoints}

WalkedTo(l, n) ==
  /\ offset = PlaceAfter(l, n)
  /\ FoundSoFar = FoundBy(l, n)
  /\ done /\ n < Len(l) => Len(config_data) < EndOf(l[n + 1])

Along == \A l \in Layouts : SentAs(l) => \E n \in 0 .. Len(l) : WalkedTo(l, n)

(* A list of descriptors has places for its members, each at least a header. *)
LEMMA LayoutRanges ==
  ASSUME NEW l \in Seq(Placed), SentAs(l), NEW i \in 1 .. Len(l)
  PROVE  /\ l[i].from \in Nat /\ l[i].bytes \in Seq(Byte) /\ Len(l[i].bytes) \in Nat
         /\ EndOf(l[i]) \in Nat /\ l[i].from + 2 <= EndOf(l[i])
         /\ l[i].from = PlaceAfter(l, i - 1)
         /\ Truthful(l[i]) /\ Holds(l[i])
<1>1. l[i] \in Placed /\ i \in DOMAIN l
  OBVIOUS
<1>2. l[i].from \in Nat /\ l[i].bytes \in Seq(Byte) /\ Len(l[i].bytes) \in Nat
  BY <1>1 DEF Placed
<1>3. Truthful(l[i]) /\ Holds(l[i]) /\ Len(l[i].bytes) >= 2
  BY <1>1 DEF SentAs, Truthful
<1>4. l[i].from = IF i = 1 THEN 0 ELSE EndOf(l[i - 1])
  BY <1>1 DEF SentAs, InARow
<1>5. l[i].from = PlaceAfter(l, i - 1)
  BY <1>4 DEF PlaceAfter
<1> QED
  BY <1>2, <1>3, <1>5 DEF EndOf

(* A later descriptor does not end before an earlier one.                    *)
LEMMA EndsGrow ==
  ASSUME NEW l \in Seq(Placed), SentAs(l), NEW i \in 1 .. Len(l), NEW j \in i .. Len(l)
  PROVE  EndOf(l[i]) <= EndOf(l[j])
<1> DEFINE S == {d \in Nat : i + d <= Len(l) => EndOf(l[i]) <= EndOf(l[i + d])}
<1>1. 0 \in S
  BY LayoutRanges
<1>2. ASSUME NEW d \in Nat, d \in S PROVE d + 1 \in S
  <2> SUFFICES ASSUME i + (d + 1) <= Len(l) PROVE EndOf(l[i]) <= EndOf(l[i + (d + 1)])
    OBVIOUS
  <2> DEFINE k == i + (d + 1)
  <2>1. k \in 1 .. Len(l) /\ k - 1 \in 1 .. Len(l) /\ k - 1 = i + d /\ k - 1 # 0
    OBVIOUS
  <2>2. EndOf(l[i]) \in Nat /\ EndOf(l[k - 1]) \in Nat /\ EndOf(l[k]) \in Nat
    BY <2>1, LayoutRanges
  <2>3. EndOf(l[i]) <= EndOf(l[k - 1])
    BY <1>2, <2>1
  <2>4. l[k].from = EndOf(l[k - 1]) /\ l[k].from + 2 <= EndOf(l[k])
    BY <2>1, LayoutRanges DEF PlaceAfter
  <2> QED
    BY <2>2, <2>3, <2>4
<1>3. j - i \in S
  <2>1. Nat \subseteq S
    <3> HIDE DEF S
    <3> QED
      BY <1>1, <1>2, SetInduction
  <2> QED
    BY <2>1
<1> QED
  BY <1>3
(* A header that fits is that of the next descriptor of the list, which is   *)
(* whole; behind the last one there is none (main.rs:128-131).               *)
LEMMA NextDescriptor ==
  ASSUME TypeOK, HasHeader, Fits,
         NEW l \in Seq(Placed), SentAs(l), NEW n \in 0 .. Len(l), offset = PlaceAfter(l, n)
  PROVE  /\ n + 1 \in 1 .. Len(l)
         /\ offset = l[n + 1].from
         /\ b_length = Len(l[n + 1].bytes)
         /\ IsEndpoint <=> IsWholeEndpoint(l[n + 1])
<1>1. /\ offset \in Nat /\ Len(config_data) \in Nat /\ b_length \in Nat
      /\ offset + 1 < Len(config_data) /\ b_length >= 2
      /\ offset + b_length <= Len(config_data) /\ b_length = config_data[offset + 1]
  <2>1. b_length \in Byte
    BY HeaderLength
  <2>2. b_length = config_data[offset + 1]
    BY DEF b_length, At
  <2>3. offset \in Nat /\ Len(config_data) \in Nat /\ offset + 1 < Len(config_data)
    BY DEF TypeOK, HasHeader
  <2> QED
    BY <2>1, <2>2, <2>3 DEF Fits, Byte
<1>2. n # Len(l)
  <2> SUFFICES ASSUME n = Len(l) PROVE FALSE
    OBVIOUS
  <2>1. Total(l) = offset
    BY DEF Total, PlaceAfter
  <2>2. NoneBehind(offset)
    BY <2>1 DEF SentAs
  <2> QED
    BY <1>1, <2>2 DEF NoneBehind
<1>3. n + 1 \in 1 .. Len(l) /\ (n + 1) - 1 = n
  BY <1>2
<1> DEFINE d == l[n + 1]
<1>4. /\ d.from = offset /\ Len(d.bytes) \in Nat /\ Truthful(d) /\ Holds(d)
  BY <1>3, LayoutRanges
<1>5. 1 \in DOMAIN d.bytes /\ 2 \in DOMAIN d.bytes
  <2>1. DOMAIN d.bytes = 1 .. Len(d.bytes)
    BY <1>3, LayoutRanges
  <2> QED
    BY <1>4, <2>1 DEF Truthful
<1>6. config_data[offset + 1] = d.bytes[1] /\ config_data[offset + 2] = d.bytes[2]
  <2>1. \A i \in DOMAIN d.bytes :
          offset + i <= Len(config_data) => config_data[offset + i] = d.bytes[i]
    BY <1>4 DEF Holds
  <2>2. offset + 1 <= Len(config_data) /\ offset + 2 <= Len(config_data)
    BY <1>1
  <2> QED
    BY <1>5, <2>1, <2>2
<1>7. b_length = Len(d.bytes)
  BY <1>1, <1>4, <1>6 DEF Truthful
<1>8. EndOf(d) = offset + b_length
  BY <1>4, <1>7 DEF EndOf
<1>9. At(offset + 1) = d.bytes[2]
  BY <1>1, <1>6 DEF At
<1>10. IsEndpoint <=> IsWholeEndpoint(d)
  BY <1>1, <1>7, <1>8, <1>9 DEF IsEndpoint, IsWholeEndpoint
<1> QED
  BY <1>3, <1>4, <1>7, <1>10

(* One descriptor further, its endpoint counts.                              *)
LEMMA FoundByNext ==
  ASSUME NEW l \in Seq(Placed), NEW n \in Nat
  PROVE  FoundBy(l, n + 1) = FoundBy(l, n) \cup (IF IsWholeEndpoint(l[n + 1])
                                                  THEN {AsFound(l[n + 1])} ELSE {})
<1>1. \A k : k \in 1 .. n + 1 <=> k \in 1 .. n \/ k = n + 1
  OBVIOUS
<1> QED
  BY <1>1, Zenon DEF FoundBy
(* What a list is does not change, nor whether the bytes are one.            *)
LEMMA ListStays ==
  ASSUME config_data' = config_data, NEW l, NEW n
  PROVE  /\ SentAs(l)' <=> SentAs(l)
         /\ FoundBy(l, n)' = FoundBy(l, n)
BY DEF SentAs, InARow, Truthful, Holds, NoneBehind, Total, EndOf, FoundBy, AsFound,
       IsWholeEndpoint, USB_DT_ENDPOINT, USB_DT_ENDPOINT_SIZE, UsbEndpointDescriptor

(* At first no descriptor is behind the offset.                              *)
LEMMA AlongInit == Init => Along
<1> SUFFICES ASSUME Init, NEW l \in Layouts, SentAs(l) PROVE \E n \in 0 .. Len(l) : WalkedTo(l, n)
  BY DEF Along
<1>1. l \in Seq(Placed)
  BY InputsAssumption
<1>2. FoundSoFar = {} /\ FoundBy(l, 0) = {}
  BY DEF Init, FoundSoFar, FoundBy
<1>3. WalkedTo(l, 0)
  BY <1>2 DEF Init, WalkedTo, PlaceAfter
<1> QED
  BY <1>1, <1>3

(* A step of the walk passes one descriptor of the list (main.rs:133, 151).  *)
LEMMA WalkStep ==
  ASSUME Inv, Skip \/ Push,
         NEW l \in Seq(Placed), SentAs(l), NEW n \in 0 .. Len(l), WalkedTo(l, n)
  PROVE  \E m \in 0 .. Len(l) : WalkedTo(l, m)'
<1> DEFINE d == l[n + 1]
<1>1. TypeOK /\ HasHeader /\ Fits /\ offset = PlaceAfter(l, n)
  BY DEF Inv, Skip, Push, WalkedTo
<1>2. /\ n + 1 \in 1 .. Len(l) /\ offset = d.from /\ b_length = Len(d.bytes)
      /\ IsEndpoint <=> IsWholeEndpoint(d)
  BY <1>1, NextDescriptor
<1>3. config_data' = config_data /\ done' = done /\ done = FALSE /\ offset' = offset + b_length
  BY <1>1 DEF TypeOK, Skip, Push, Advance
<1>4. offset' = PlaceAfter(l, n + 1)
  BY <1>2, <1>3 DEF PlaceAfter, EndOf
<1>5. FoundBy(l, n + 1) = FoundSoFar \cup (IF IsEndpoint THEN {AsFound(d)} ELSE {})
  <2>1. FoundBy(l, n + 1) = FoundBy(l, n) \cup (IF IsWholeEndpoint(d) THEN {AsFound(d)} ELSE {})
    BY FoundByNext
  <2>2. FoundBy(l, n) = FoundSoFar
    BY DEF WalkedTo
  <2> QED
    BY <1>2, <2>1, <2>2, Zenon
<1>6. FoundSoFar' = FoundBy(l, n + 1)
  <2>1. CASE Skip
    BY <1>5, <2>1 DEF Skip, FoundSoFar
  <2>2. CASE Push
    <3> DEFINE new == [from |-> offset, size |-> Kept]
    <3>1. endpoints' = Append(endpoints, new) /\ endpoints \in Seq(Found) /\ IsEndpoint
      BY <1>1, <2>2 DEF Push, TypeOK
    <3>2. new = AsFound(d)
      BY <1>2 DEF AsFound, Kept
    <3>3. new \in Found
      BY <1>1, <3>1, HeaderLength DEF Found, TypeOK
    <3>4. FoundSoFar' = FoundSoFar \cup {new}
      <4>1. /\ DOMAIN endpoints = 1 .. Len(endpoints) /\ Len(endpoints) \in Nat
            /\ DOMAIN endpoints' = 1 .. Len(endpoints) + 1
            /\ \A i \in 1 .. Len(endpoints) : endpoints'[i] = endpoints[i]
            /\ endpoints'[Len(endpoints) + 1] = new
        BY <3>1, <3>3
      <4>2. \A i : i \in DOMAIN endpoints' <=> i \in DOMAIN endpoints \/ i = Len(endpoints) + 1
        BY <4>1
      <4> QED
        BY <4>1, <4>2 DEF FoundSoFar
    <3> QED
      BY <1>5, <3>1, <3>2, <3>4
  <2> QED
    BY <2>1, <2>2
<1>7. WalkedTo(l, n + 1)'
  BY <1>3, <1>4, <1>6, ListStays DEF WalkedTo, PlaceAfter, EndOf
<1> QED
  BY <1>2, <1>7
(* The walk stops where the next descriptor of the list, if there is one, is *)
(* not whole (main.rs:128, 130).                                             *)
LEMMA WalkStops ==
  ASSUME Inv, Stop,
         NEW l \in Seq(Placed), SentAs(l), NEW n \in 0 .. Len(l), WalkedTo(l, n)
  PROVE  WalkedTo(l, n)'
<1>1. /\ config_data' = config_data /\ offset' = offset /\ FoundSoFar' = FoundSoFar
      /\ offset = PlaceAfter(l, n)
  BY DEF Stop, FoundSoFar, WalkedTo
<1>2. n < Len(l) => Len(config_data) < EndOf(l[n + 1])
  <2> SUFFICES ASSUME n < Len(l) PROVE Len(config_data) < EndOf(l[n + 1])
    OBVIOUS
  <2> DEFINE d == l[n + 1]
  <2>1. n + 1 \in 1 .. Len(l) /\ (n + 1) - 1 = n
    OBVIOUS
  <2>2. /\ d.from = offset /\ Len(d.bytes) \in Nat /\ Truthful(d) /\ Holds(d)
        /\ DOMAIN d.bytes = 1 .. Len(d.bytes)
    BY <1>1, <2>1, LayoutRanges
  <2>3. offset \in Nat /\ Len(config_data) \in Nat
    BY DEF Inv, TypeOK
  <2>4. CASE ~HasHeader
    BY <2>2, <2>3, <2>4 DEF HasHeader, EndOf, Truthful
  <2>5. CASE HasHeader /\ ~Fits
    <3>1. 1 \in DOMAIN d.bytes /\ offset + 1 <= Len(config_data)
      BY <2>2, <2>3, <2>5 DEF HasHeader, Truthful
    <3>2. b_length = d.bytes[1]
      BY <2>2, <2>3, <3>1 DEF Holds, b_length, At
    <3>3. b_length = Len(d.bytes)
      BY <2>2, <3>2 DEF Truthful
    <3> QED
      BY <2>2, <2>3, <2>5, <3>3 DEF Fits, EndOf, Truthful
  <2> QED
    BY <2>4, <2>5 DEF Stop
<1> QED
  BY <1>1, <1>2, ListStays DEF WalkedTo, PlaceAfter, EndOf

LEMMA AlongStep == Inv /\ Along /\ [Next]_vars => Along'
<1> SUFFICES ASSUME Inv, Along, [Next]_vars, NEW l \in Layouts, SentAs(l)'
             PROVE  \E m \in 0 .. Len(l) : WalkedTo(l, m)'
  BY DEF Along
<1>1. config_data' = config_data
  BY DEF Next, Stop, Skip, Push, vars
<1>2. l \in Seq(Placed) /\ SentAs(l)
  BY <1>1, InputsAssumption, ListStays
<1>3. PICK n \in 0 .. Len(l) : WalkedTo(l, n)
  BY <1>2 DEF Along
<1>4. CASE Skip \/ Push
  BY <1>2, <1>3, <1>4, WalkStep
<1>5. CASE Stop
  BY <1>2, <1>3, <1>5, WalkStops
<1>6. CASE UNCHANGED vars
  <2>1. WalkedTo(l, n)'
    BY <1>1, <1>3, <1>6, ListStays DEF vars, WalkedTo, PlaceAfter, EndOf, FoundSoFar
  <2> QED
    BY <2>1
<1> QED
  BY <1>4, <1>5, <1>6 DEF Next

(* Behind the place where the walk stopped nothing is whole, so what it has  *)
(* found is all there is.                                                    *)
LEMMA AlongMatches == Inv /\ Along => MatchesReference
<1>1. \A l \in Layouts : l \in Seq(Placed) /\ DOMAIN l = 1 .. Len(l)
  BY InputsAssumption
<1> SUFFICES ASSUME Inv, Along, done, NEW l \in Layouts, SentAs(l)
             PROVE  FoundSoFar = FoundBy(l, Len(l))
  BY <1>1 DEF MatchesReference, FoundSoFar, FoundBy
<1>2. l \in Seq(Placed) /\ Len(config_data) \in Nat
  BY <1>1 DEF Inv, TypeOK
<1>3. PICK n \in 0 .. Len(l) : WalkedTo(l, n)
  BY DEF Along
<1>4. ASSUME NEW k \in 1 .. Len(l), IsWholeEndpoint(l[k]) PROVE k \in 1 .. n
  <2> SUFFICES ASSUME n + 1 <= k PROVE FALSE
    BY <1>2
  <2>1. Len(config_data) < EndOf(l[n + 1])
    BY <1>2, <1>3 DEF WalkedTo
  <2>2. EndOf(l[n + 1]) <= EndOf(l[k])
    BY <1>2, EndsGrow
  <2>3. EndOf(l[k]) <= Len(config_data)
    BY <1>4 DEF IsWholeEndpoint
  <2>4. EndOf(l[n + 1]) \in Nat /\ EndOf(l[k]) \in Nat
    BY <1>2, LayoutRanges
  <2> QED
    BY <2>1, <2>2, <2>3, <2>4
<1>5. {k \in 1 .. Len(l) : IsWholeEndpoint(l[k])} = {k \in 1 .. n : IsWholeEndpoint(l[k])}
  BY <1>2, <1>4
<1> QED
  BY <1>3, <1>5 DEF FoundBy, WalkedTo

(* The endpoints SET_CONFIGURATION enables are those the device described,   *)
(* for every list of descriptors and every cut of it (main.rs:124-154).      *)
THEOREM ParserMatchesReference == Spec => []MatchesReference
BY InvCorrect, AlongInit, AlongStep, AlongMatches, PTL DEF Spec
(* The reference leaves no bytes out: whatever they are, what the walk has   *)
(* passed is a list of descriptors.                                          *)
Passed(l) ==
  /\ InARow(l)
  /\ \A i \in DOMAIN l : Truthful(l[i]) /\ Holds(l[i])
  /\ Total(l) = offset

Listed == (\E l \in Seq(Placed) : Passed(l)) /\ (done => NoneBehind(offset))

LEMMA ListedInit == Init => Listed
<1> SUFFICES ASSUME Init PROVE Listed
  OBVIOUS
<1>1. Passed(<<>>) /\ <<>> \in Seq(Placed)
  BY DEF Init, Passed, InARow, Total
<1> QED
  BY <1>1 DEF Init, Listed

(* A step of the walk passes one more descriptor (main.rs:133, 151).         *)
LEMMA PassedGrows ==
  ASSUME Inv, HasHeader, Fits, offset' = Advance, config_data' = config_data,
         NEW l \in Seq(Placed), Passed(l)
  PROVE  \E k \in Seq(Placed) : Passed(k)'
<1> DEFINE d == [from |-> offset, bytes |-> SubSeq(config_data, offset + 1, offset + b_length)]
<1>1. /\ offset \in Nat /\ Len(config_data) \in Nat /\ config_data \in Seq(Byte)
      /\ b_length \in 2 .. Len(config_data) - offset /\ b_length = config_data[offset + 1]
  <2>1. b_length \in Byte
    BY HeaderLength DEF Inv
  <2>2. b_length = config_data[offset + 1]
    BY DEF b_length, At
  <2> QED
    BY <2>1, <2>2 DEF Inv, TypeOK, Fits, Byte
<1>2. /\ d.bytes \in Seq(Byte) /\ Len(d.bytes) = b_length /\ DOMAIN d.bytes = 1 .. b_length
      /\ \A i \in 1 .. b_length : d.bytes[i] = config_data[offset + i]
  <2>1. offset + 1 \in 1 .. Len(config_data) + 1 /\ offset + b_length \in 0 .. Len(config_data)
        /\ (offset + b_length) - (offset + 1) + 1 = b_length
        /\ \A i \in 1 .. b_length : (offset + 1) + i - 1 = offset + i
    BY <1>1
  <2>2. \A i \in offset + 1 .. offset + b_length : config_data[i] \in Byte
    BY <1>1
  <2> DEFINE first == offset + 1
             last  == offset + b_length
  <2>3. first \in Int /\ last \in Int /\ first <= last
    BY <1>1
  <2> HIDE DEF first, last
  <2>4. /\ SubSeq(config_data, first, last) \in Seq(Byte)
        /\ Len(SubSeq(config_data, first, last)) = last - first + 1
        /\ \A i \in 1 .. last - first + 1 :
             SubSeq(config_data, first, last)[i] = config_data[first + i - 1]
    BY <2>2, <2>3, SubSeqProperties DEF first, last
  <2> QED
    BY <2>1, <2>4 DEF first, last
<1>3. d \in Placed /\ d.from = offset
  BY <1>1, <1>2 DEF Placed
<1>4. Truthful(d) /\ Holds(d) /\ EndOf(d) = offset'
  <2> HIDE DEF d
  <2>1. Truthful(d)
    BY <1>1, <1>2 DEF Truthful
  <2>2. Holds(d)
    BY <1>2, <1>3 DEF Holds
  <2> QED
    BY <1>2, <1>3, <2>1, <2>2 DEF EndOf, Advance
<1> HIDE DEF d
<1>5. PICK k \in Seq(Placed) :
        /\ Len(l) \in Nat /\ Len(k) = Len(l) + 1 /\ DOMAIN k = 1 .. Len(l) + 1
        /\ DOMAIN l = 1 .. Len(l) /\ k[Len(l) + 1] = d /\ \A i \in 1 .. Len(l) : k[i] = l[i]
  <2> DEFINE k == Append(l, d)
  <2>1. /\ k \in Seq(Placed)
        /\ Len(l) \in Nat /\ Len(k) = Len(l) + 1 /\ DOMAIN k = 1 .. Len(l) + 1
        /\ DOMAIN l = 1 .. Len(l) /\ k[Len(l) + 1] = d /\ \A i \in 1 .. Len(l) : k[i] = l[i]
    BY <1>3
  <2> HIDE DEF k
  <2> QED
    BY <2>1
<1>6. k # <<>> /\ Total(k) = offset'
  BY <1>4, <1>5 DEF Total
<1>7. d.from = IF Len(l) = 0 THEN 0 ELSE EndOf(l[Len(l)])
  BY <1>3, <1>5 DEF Passed, Total
<1>8. InARow(k)
  <2> SUFFICES ASSUME NEW i \in DOMAIN k PROVE k[i].from = IF i = 1 THEN 0 ELSE EndOf(k[i - 1])
    BY DEF InARow
  <2>1. CASE i = Len(l) + 1
    BY <1>5, <1>7, <2>1
  <2>2. CASE i \in 1 .. Len(l)
    <3>1. l[i].from = IF i = 1 THEN 0 ELSE EndOf(l[i - 1])
      BY <1>5, <2>2 DEF Passed, InARow
    <3> QED
      BY <1>5, <2>2, <3>1
  <2> QED
    BY <1>5, <2>1, <2>2
<1>9. \A i \in DOMAIN k : Truthful(k[i]) /\ Holds(k[i])
  <2> SUFFICES ASSUME NEW i \in DOMAIN k PROVE Truthful(k[i]) /\ Holds(k[i])
    OBVIOUS
  <2>1. CASE i = Len(l) + 1
    BY <1>4, <1>5, <2>1
  <2>2. CASE i \in 1 .. Len(l)
    BY <1>5, <2>2 DEF Passed
  <2> QED
    BY <1>5, <2>1, <2>2
<1>10. ASSUME NEW m PROVE Holds(m)' <=> Holds(m)
  BY DEF Holds
<1>11. Passed(k)'
  <2>1. \A i \in DOMAIN k : Holds(k[i])'
    BY <1>9, <1>10
  <2> QED
    BY <1>6, <1>8, <1>9, <2>1 DEF Passed, InARow, Truthful, Total, EndOf
<1> QED
  BY <1>11
LEMMA ListedStep == Inv /\ Listed /\ [Next]_vars => Listed'
<1> SUFFICES ASSUME Inv, Listed, [Next]_vars PROVE Listed'
  OBVIOUS
<1>1. config_data' = config_data
  BY DEF Next, Stop, Skip, Push, vars
<1>2. PICK l \in Seq(Placed) : Passed(l)
  BY DEF Listed
<1>3. ASSUME NEW m, NEW n PROVE (Holds(m)' <=> Holds(m)) /\ (NoneBehind(n)' <=> NoneBehind(n))
  BY <1>1 DEF Holds, NoneBehind
<1>4. CASE Skip \/ Push
  <2>1. HasHeader /\ Fits /\ offset' = Advance /\ done' = FALSE
    BY <1>4 DEF Inv, TypeOK, Skip, Push
  <2>2. \E k \in Seq(Placed) : Passed(k)'
    BY <1>1, <1>2, <2>1, PassedGrows
  <2> QED
    BY <2>1, <2>2 DEF Listed
<1>5. ASSUME offset' = offset PROVE Passed(l)'
  <2>1. \A i \in DOMAIN l : Holds(l[i])'
    BY <1>2, <1>3 DEF Passed
  <2> QED
    BY <1>2, <1>5, <2>1 DEF Passed, InARow, Truthful, Total, EndOf
<1>6. CASE Stop
  <2>1. NoneBehind(offset)
    <3>1. b_length = config_data[offset + 1]
      BY DEF b_length, At
    <3>2. offset \in Nat /\ Len(config_data) \in Nat
      BY DEF Inv, TypeOK
    <3>3. CASE HasHeader
      <4>1. ~Fits
        BY <1>6, <3>3 DEF Stop
      <4>2. b_length < 2 \/ offset + b_length > Len(config_data)
        <5>1. b_length \in Byte
          BY <3>3, HeaderLength DEF Inv
        <5> QED
          BY <3>2, <4>1, <5>1 DEF Fits, Byte
      <4> QED
        BY <3>1, <4>2 DEF NoneBehind
    <3>4. CASE ~HasHeader
      BY <3>4 DEF HasHeader, NoneBehind
    <3> QED
      BY <3>3, <3>4
  <2>2. offset' = offset /\ NoneBehind(offset)'
    BY <1>1, <1>6, <2>1 DEF Stop, NoneBehind
  <2> QED
    BY <1>5, <2>2 DEF Listed
<1>7. CASE UNCHANGED vars
  <2>1. offset' = offset /\ (done' => NoneBehind(offset)')
    BY <1>1, <1>7 DEF vars, Listed, NoneBehind
  <2> QED
    BY <1>5, <2>1 DEF Listed
<1> QED
  BY <1>4, <1>6, <1>7 DEF Next

(* Every byte string a device may have sent, cut anywhere and however it     *)
(* lies about its lengths, is the list of descriptors the walk has passed    *)
(* and a rest that begins no other: the reference says of each what is to be *)
(* found in it (main.rs:128-131).                                            *)
THEOREM EveryInputIsAList ==
  Spec => [](done => \E l \in Seq(Placed) : SentAs(l))
<1>1. Listed => (done => \E l \in Seq(Placed) : SentAs(l))
  BY DEF Listed, Passed, SentAs
<1> QED
  BY <1>1, InvCorrect, ListedInit, ListedStep, PTL DEF Spec

(* Why the walk ends, whatever the length bytes say (main.rs:130, 151): each *)
(* step that is not the last one brings the offset at least a header nearer  *)
(* to the end, which it never passes.                                        *)
THEOREM WalkAdvances ==
  Spec => [][done' \/ offset' \in offset + 2 .. Len(config_data)]_vars
<1>1. Inv /\ [Next]_vars => [done' \/ offset' \in offset + 2 .. Len(config_data)]_vars
  <2> SUFFICES ASSUME Inv, Skip \/ Push PROVE offset' \in offset + 2 .. Len(config_data)
    BY DEF Next, Stop
  <2>1. HasHeader /\ Fits /\ offset' = offset + b_length /\ offset \in Nat
        /\ Len(config_data) \in Nat
    BY DEF Inv, TypeOK, Skip, Push, Advance
  <2>2. b_length \in Byte
    BY <2>1, HeaderLength DEF Inv
  <2> QED
    BY <2>1, <2>2 DEF Fits, Byte
<1> QED
  BY <1>1, InvCorrect, PTL DEF Spec
=============================================================================
