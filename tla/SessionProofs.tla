--------------------------- MODULE SessionProofs ---------------------------
(***************************************************************************)
(* For every list of devices, any number of threads and commands: start-up  *)
(* reads each reply as what it is and plays the device it was handed, and    *)
(* the server takes off the stream the commands that were sent.             *)
(***************************************************************************)
EXTENDS CommandStream, SequenceTheorems, WellFoundedInduction, TLAPS

-----------------------------------------------------------------------------
(* Induction.  The library's rules take the property as an operator, which   *)
(* no backend can instantiate; with a set in its place one can.             *)

LEMMA LeastNat ==
  ASSUME NEW T, T \subseteq Nat, T # {} PROVE \E m \in T : \A n \in T : m <= n
<1> DEFINE R == OpToRel(<, Nat)
<1>1. IsWellFoundedOn(R, Nat)
  BY NatLessThanWellFounded, Zenon
<1>2. \A x, y \in Nat : x < y => <<x, y>> \in R
  BY DEF OpToRel
<1> HIDE DEF R
<1>3. PICK m \in T : \A n \in T : ~(<<n, m>> \in R)
  BY <1>1, WFMin
<1>4. ASSUME NEW n \in T PROVE m <= n
  <2>1. m \in Nat /\ n \in Nat
    OBVIOUS
  <2>2. ~(n < m)
    BY <1>2, <1>3, <2>1
  <2> QED
    BY <2>1, <2>2
<1> QED
  BY <1>4

LEMMA SetInduction ==
  ASSUME NEW S, 0 \in S, \A n \in Nat : n \in S => n + 1 \in S
  PROVE  Nat \subseteq S
<1> SUFFICES ASSUME Nat \ S # {} PROVE FALSE
  OBVIOUS
<1>1. PICK m \in Nat \ S : \A n \in Nat \ S : m <= n
  BY LeastNat
<1>2. m - 1 \in Nat /\ m - 1 \notin Nat \ S
  BY <1>1
<1> QED
  BY <1>1, <1>2

-----------------------------------------------------------------------------
(* FlattenSeq of the community modules, from its recursive definition: what  *)
(* it makes of the first and of the last sequence.                          *)

\* f is the recursive function in the definition of FlattenSeq.
Flattens(f, s, n) == f = [i \in 1 .. n |-> IF i = 1 THEN s[i] ELSE f[i - 1] \o s[i]]

LEMMA FlattenExists ==
  ASSUME NEW s, NEW n \in Nat PROVE \E f : Flattens(f, s, n)
<1> DEFINE S == {m \in Nat : \E f : Flattens(f, s, m)}
<1>1. 0 \in S
  <2>1. Flattens([i \in 1 .. 0 |-> s], s, 0)
    BY DEF Flattens
  <2> QED
    BY <2>1
<1>2. ASSUME NEW m \in Nat, m \in S PROVE m + 1 \in S
  <2>1. PICK f : Flattens(f, s, m)
    BY <1>2
  <2> DEFINE g == [i \in 1 .. m + 1 |->
                     IF i <= m THEN f[i] ELSE IF i = 1 THEN s[i] ELSE f[i - 1] \o s[i]]
  <2>2. ASSUME NEW i \in 1 .. m + 1
        PROVE g[i] = IF i = 1 THEN s[i] ELSE g[i - 1] \o s[i]
    <3>1. CASE i <= m
      <4>1. i \in 1 .. m
        BY <3>1
      <4>2. f[i] = IF i = 1 THEN s[i] ELSE f[i - 1] \o s[i]
        BY <2>1, <4>1, Zenon DEF Flattens
      <4> QED
        BY <3>1, <4>2
    <3>2. CASE i = m + 1
      BY <3>2
    <3> QED
      BY <3>1, <3>2
  <2>3. g = [i \in 1 .. m + 1 |-> IF i = 1 THEN s[i] ELSE g[i - 1] \o s[i]]
    <3> DEFINE h == [i \in 1 .. m + 1 |-> IF i = 1 THEN s[i] ELSE g[i - 1] \o s[i]]
    <3>1. ASSUME NEW i \in 1 .. m + 1 PROVE g[i] = h[i]
      <4> HIDE DEF g
      <4> QED
        BY <2>2
    <3>2. g = [i \in 1 .. m + 1 |-> g[i]] /\ h = [i \in 1 .. m + 1 |-> h[i]]
      OBVIOUS
    <3> HIDE DEF g, h
    <3>3. g = h
      BY <3>1, <3>2
    <3> QED
      BY <3>3 DEF h
  <2> HIDE DEF g
  <2>4. Flattens(g, s, m + 1)
    BY <2>3 DEF Flattens
  <2> QED
    BY <2>4
<1> HIDE DEF S
<1>3. Nat \subseteq S
  BY <1>1, <1>2, SetInduction
<1> QED
  BY <1>3 DEF S

LEMMA FlattenIs ==
  ASSUME NEW s, Len(s) \in Nat \ {0}
  PROVE  \E f : Flattens(f, s, Len(s)) /\ FlattenSeq(s) = f[Len(s)]
<1>1. \E f : Flattens(f, s, Len(s))
  BY FlattenExists
<1> DEFINE f == CHOOSE f : Flattens(f, s, Len(s))
<1>2. Flattens(f, s, Len(s))
  BY <1>1
<1>3. FlattenSeq(s) = f[Len(s)]
  BY DEF FlattenSeq, Flattens
<1> QED
  BY <1>2, <1>3

Joined(s, t) == s \o t

LEMMA FlattenSteps ==
  ASSUME NEW s, NEW n \in Nat, NEW f, Flattens(f, s, n)
  PROVE  /\ n > 0 => f[1] = s[1]
         /\ \A i \in 2 .. n : f[i] = Joined(f[i - 1], s[i])
<1>1. \A i \in 1 .. n : f[i] = IF i = 1 THEN s[i] ELSE Joined(f[i - 1], s[i])
  BY Zenon DEF Flattens, Joined
<1>2. ASSUME n > 0 PROVE f[1] = s[1]
  BY <1>1, <1>2
<1>3. ASSUME NEW i \in 2 .. n PROVE f[i] = Joined(f[i - 1], s[i])
  BY <1>1
<1> QED
  BY <1>2, <1>3

LEMMA JoinedAssociative ==
  ASSUME NEW X, NEW a \in Seq(X), NEW b \in Seq(X), NEW c \in Seq(X)
  PROVE  Joined(Joined(a, b), c) = Joined(a, Joined(b, c))
BY ConcatAssociative DEF Joined

LEMMA FlattenType ==
  ASSUME NEW X, NEW s \in Seq(Seq(X)), NEW f, Flattens(f, s, Len(s))
  PROVE  \A i \in 1 .. Len(s) : f[i] \in Seq(X)
<1> DEFINE S == {i \in Nat : i \in 1 .. Len(s) => f[i] \in Seq(X)}
<1>0. Len(s) \in Nat /\ \A i \in 1 .. Len(s) : s[i] \in Seq(X)
  OBVIOUS
<1>1. /\ Len(s) > 0 => f[1] = s[1]
      /\ \A i \in 2 .. Len(s) : f[i] = Joined(f[i - 1], s[i])
  BY <1>0, FlattenSteps
<1>2. ASSUME NEW i \in Nat, i \in S, i + 1 \in 1 .. Len(s) PROVE f[i + 1] \in Seq(X)
  <2>1. CASE i = 0
    BY <1>0, <1>1, <1>2, <2>1
  <2>2. CASE i > 0
    <3>1. i \in 1 .. Len(s) /\ i + 1 \in 2 .. Len(s) /\ (i + 1) - 1 = i
      BY <1>0, <1>2, <2>2
    <3>2. f[i + 1] = Joined(f[i], s[i + 1])
      BY <1>1, <3>1
    <3>3. f[i] \in Seq(X) /\ s[i + 1] \in Seq(X)
      BY <1>0, <1>2, <3>1
    <3> QED
      BY <3>2, <3>3 DEF Joined
  <2> QED
    BY <2>1, <2>2
<1>3. Nat \subseteq S
  <2>1. 0 \in S
    OBVIOUS
  <2>2. ASSUME NEW i \in Nat, i \in S PROVE i + 1 \in S
    <3>1. i + 1 \in 1 .. Len(s) => f[i + 1] \in Seq(X)
      BY <1>2, <2>2
    <3> QED
      BY <3>1
  <2> HIDE DEF S
  <2> QED
    BY <2>1, <2>2, SetInduction
<1> QED
  BY <1>3

LEMMA FlattenInSeq ==
  ASSUME NEW X, NEW s \in Seq(Seq(X)) PROVE FlattenSeq(s) \in Seq(X)
<1>1. CASE s = << >>
  BY <1>1 DEF FlattenSeq
<1>2. CASE s # << >>
  <2>1. Len(s) \in Nat \ {0}
    BY <1>2
  <2>2. PICK f : Flattens(f, s, Len(s)) /\ FlattenSeq(s) = f[Len(s)]
    BY <2>1, FlattenIs
  <2>3. f[Len(s)] \in Seq(X)
    BY <2>1, <2>2, FlattenType
  <2> QED
    BY <2>2, <2>3
<1> QED
  BY <1>1, <1>2

Begins(g, r, n, X) ==
  /\ g[1] = r[1] /\ \A i \in 2 .. n : g[i] = Joined(g[i - 1], r[i])
  /\ \A i \in 1 .. n : r[i] \in Seq(X) /\ g[i] \in Seq(X)

Follows(f, a, r, n) == f[1] = a /\ \A i \in 1 .. n : f[i + 1] = Joined(f[i], r[i])

LEMMA FlattenApart ==
  ASSUME NEW X, NEW n \in Nat, NEW a \in Seq(X), NEW r, NEW f, NEW g,
         Begins(g, r, n, X), Follows(f, a, r, n)
  PROVE  \A i \in 1 .. n : f[i + 1] = Joined(a, g[i])
<1> DEFINE S == {i \in Nat : i \in 1 .. n => f[i + 1] = Joined(a, g[i])}
<1>1. 0 \in S
  OBVIOUS
<1>2. ASSUME NEW i \in Nat, i \in S PROVE i + 1 \in S
  <2>1. SUFFICES ASSUME i + 1 \in 1 .. n PROVE f[(i + 1) + 1] = Joined(a, g[i + 1])
    OBVIOUS
  <2>2. f[(i + 1) + 1] = Joined(f[i + 1], r[i + 1])
    BY <2>1 DEF Follows
  <2>3. CASE i = 0
    <3>1. i + 1 = 1
      BY <2>3
    <3> QED
      BY <2>2, <3>1 DEF Begins, Follows
  <2>4. CASE i > 0
    <3>1. i \in 1 .. n /\ i + 1 \in 2 .. n /\ (i + 1) - 1 = i
      BY <2>1, <2>4
    <3>2. f[i + 1] = Joined(a, g[i]) /\ g[i + 1] = Joined(g[i], r[i + 1])
      BY <1>2, <3>1 DEF Begins
    <3>3. PICK b \in Seq(X) : b = g[i]
      BY <3>1 DEF Begins
    <3>4. PICK c \in Seq(X) : c = r[i + 1]
      BY <2>1 DEF Begins
    <3>5. Joined(Joined(a, b), c) = Joined(a, Joined(b, c))
      BY JoinedAssociative
    <3> QED
      BY <2>2, <3>2, <3>3, <3>4, <3>5
  <2> QED
    BY <2>3, <2>4
<1>3. Nat \subseteq S
  <2> HIDE DEF S
  <2> QED
    BY <1>1, <1>2, SetInduction
<1> QED
  BY <1>3

LEMMA FlattenHead ==
  ASSUME NEW X, NEW s \in Seq(Seq(X)), s # << >>
  PROVE  FlattenSeq(s) = Joined(Head(s), FlattenSeq(Tail(s)))
<1>1. PICK r : r = Tail(s)
  OBVIOUS
<1>2. PICK n : n = Len(s) - 1
  OBVIOUS
<1>3. /\ n \in Nat /\ Len(s) = n + 1 /\ Len(r) = n /\ Head(s) = s[1] /\ s[1] \in Seq(X)
      /\ \A i \in 1 .. n : r[i] \in Seq(X) /\ s[i + 1] = r[i]
  BY <1>1, <1>2
<1>4. r \in Seq(Seq(X))
  BY <1>1
<1>5. PICK f : Flattens(f, s, Len(s)) /\ FlattenSeq(s) = f[Len(s)]
  <2>1. Len(s) \in Nat \ {0}
    OBVIOUS
  <2> QED
    BY <2>1, FlattenIs
<1>6. f[1] = s[1] /\ \A i \in 1 .. n : f[i + 1] = Joined(f[i], r[i])
  <2>1. n + 1 \in Nat /\ n + 1 > 0 /\ Flattens(f, s, n + 1)
    BY <1>3, <1>5
  <2>2. f[1] = s[1] /\ \A i \in 2 .. n + 1 : f[i] = Joined(f[i - 1], s[i])
    BY <2>1, FlattenSteps
  <2>3. ASSUME NEW i \in 1 .. n PROVE f[i + 1] = Joined(f[i], r[i])
    <3>1. i + 1 \in 2 .. n + 1 /\ (i + 1) - 1 = i
      BY <1>3
    <3> QED
      BY <1>3, <2>2, <3>1
  <2> QED
    BY <2>2, <2>3
<1>7. CASE n = 0
  <2>1. FlattenSeq(s) = s[1]
    <3>1. Len(s) = 1
      BY <1>3, <1>7
    <3> QED
      BY <1>5, <1>6, <3>1
  <2>2. FlattenSeq(r) = << >>
    <3>1. r = << >>
      BY <1>3, <1>4, <1>7
    <3> QED
      BY <3>1 DEF FlattenSeq
  <2>3. s[1] \o << >> = s[1]
    BY <1>3, ConcatEmptySeq
  <2> QED
    BY <1>1, <1>3, <2>1, <2>2, <2>3 DEF Joined
<1>8. CASE n # 0
  <2>1. Len(r) \in Nat \ {0} /\ n > 0
    BY <1>3, <1>8
  <2>2. PICK g : Flattens(g, r, Len(r)) /\ FlattenSeq(r) = g[Len(r)]
    BY <2>1, FlattenIs
  <2>3. g[1] = r[1] /\ \A i \in 2 .. n : g[i] = Joined(g[i - 1], r[i])
    <3>1. n \in Nat /\ n > 0 /\ Flattens(g, r, n)
      BY <1>3, <2>1, <2>2
    <3> QED
      BY <3>1, FlattenSteps
  <2>4. \A i \in 1 .. n : g[i] \in Seq(X)
    BY <1>3, <1>4, <2>2, FlattenType
  <2>5. \A i \in 1 .. n : f[i + 1] = Joined(s[1], g[i])
    <3>1. Begins(g, r, n, X)
      BY <1>3, <2>3, <2>4 DEF Begins
    <3>2. Follows(f, s[1], r, n)
      BY <1>6 DEF Follows
    <3>3. n \in Nat /\ s[1] \in Seq(X)
      BY <1>3
    <3> QED
      BY <3>1, <3>2, <3>3, FlattenApart
  <2>6. f[n + 1] = Joined(s[1], g[n])
    BY <1>3, <2>1, <2>5
  <2> QED
    BY <1>1, <1>3, <1>5, <2>2, <2>6
<1> QED
  BY <1>7, <1>8

LEMMA FlattenFirst ==
  ASSUME NEW X, NEW s \in Seq(Seq(X)), s # << >>
  PROVE  FlattenSeq(s) = Head(s) \o FlattenSeq(Tail(s))
BY FlattenHead DEF Joined

LEMMA FlattenOne ==
  ASSUME NEW X, NEW x \in Seq(X) PROVE FlattenSeq(<<x>>) = x
<1>1. <<x>> \in Seq(Seq(X)) /\ <<x>> # << >> /\ Head(<<x>>) = x /\ Tail(<<x>>) = << >>
  OBVIOUS
<1>2. FlattenSeq(<< >>) = << >>
  BY DEF FlattenSeq
<1>3. FlattenSeq(<<x>>) = Head(<<x>>) \o FlattenSeq(Tail(<<x>>))
  BY <1>1, FlattenFirst
<1> QED
  BY <1>1, <1>2, <1>3, ConcatEmptySeq

LEMMA FlattenLast ==
  ASSUME NEW X, NEW s \in Seq(Seq(X)), NEW x \in Seq(X)
  PROVE  FlattenSeq(Append(s, x)) = FlattenSeq(s) \o x
<1> DEFINE S == {n \in Nat : \A r \in Seq(Seq(X)) :
                   Len(r) = n => FlattenSeq(Append(r, x)) = Joined(FlattenSeq(r), x)}
<1>1. 0 \in S
  <2> SUFFICES ASSUME NEW r \in Seq(Seq(X)), Len(r) = 0
               PROVE  FlattenSeq(Append(r, x)) = Joined(FlattenSeq(r), x)
    OBVIOUS
  <2>1. r = << >> /\ Append(r, x) = <<x>>
    OBVIOUS
  <2>2. FlattenSeq(r) = << >>
    BY <2>1 DEF FlattenSeq
  <2>3. << >> \o x = x
    BY ConcatEmptySeq
  <2> QED
    BY <2>1, <2>2, <2>3, FlattenOne DEF Joined
<1>2. ASSUME NEW n \in Nat, n \in S PROVE n + 1 \in S
  <2> SUFFICES ASSUME NEW r \in Seq(Seq(X)), Len(r) = n + 1
               PROVE  FlattenSeq(Append(r, x)) = Joined(FlattenSeq(r), x)
    OBVIOUS
  <2>1. PICK y \in Seq(X) : y = Head(r)
    OBVIOUS
  <2>2. PICK q \in Seq(Seq(X)) : q = Tail(r) /\ Len(q) = n
    <3>1. r # << >> /\ Tail(r) \in Seq(Seq(X)) /\ Len(Tail(r)) = Len(r) - 1
      OBVIOUS
    <3>2. Len(Tail(r)) = n
      BY <3>1
    <3> QED
      BY <3>1, <3>2, Zenon
  <2>3. PICK p \in Seq(Seq(X)) :
          p = Append(r, x) /\ p # << >> /\ Head(p) = y /\ Tail(p) = Append(q, x)
    <3>1. r # << >>
      OBVIOUS
    <3>2. Append(r, x) \in Seq(Seq(X)) /\ Append(r, x) # << >>
      BY AppendProperties
    <3>3. Head(Append(r, x)) = Head(r) /\ Tail(Append(r, x)) = Append(Tail(r), x)
      BY <3>1, HeadTailAppend
    <3> QED
      BY <2>1, <2>2, <3>2, <3>3
  <2>4. FlattenSeq(p) = Joined(y, FlattenSeq(Append(q, x)))
    BY <2>3, FlattenHead
  <2>5. FlattenSeq(Append(q, x)) = Joined(FlattenSeq(q), x)
    BY <1>2, <2>2
  <2>6. FlattenSeq(r) = Joined(y, FlattenSeq(q))
    <3>1. r # << >>
      OBVIOUS
    <3> QED
      BY <2>1, <2>2, <3>1, FlattenHead
  <2>7. Joined(Joined(y, FlattenSeq(q)), x) = Joined(y, Joined(FlattenSeq(q), x))
    <3>1. PICK z \in Seq(X) : z = FlattenSeq(q)
      BY FlattenInSeq
    <3>2. Joined(Joined(y, z), x) = Joined(y, Joined(z, x))
      BY JoinedAssociative
    <3> QED
      BY <3>1, <3>2
  <2> QED
    BY <2>3, <2>4, <2>5, <2>6, <2>7
<1>3. Nat \subseteq S
  <2> HIDE DEF S
  <2> QED
    BY <1>1, <1>2, SetInduction
<1>4. Len(s) \in S
  BY <1>3
<1> QED
  BY <1>4 DEF Joined
-----------------------------------------------------------------------------
(* Start-up: what is on the connection at each place of main.               *)

Starts(s, w) == Len(s) <= Len(w) /\ \A i \in 1 .. Len(s) : s[i] = w[i]

Structures ==
  {OpHeader(code, n) : code \in {"REP_DEVLIST", "REP_IMPORT", "unknown"}, n \in {0, 1}}
    \cup {NumDevices(n) : n \in Nat} \cup {WireDeviceInfo(d) : d \in DeviceInfo}
    \cup {WireInterfaceInfo}

Asked == {ReqDevlist} \cup {ReqImport(busid) : busid \in BusId}

\* A connection carries one request, and an answer only once that is taken.
OneRequest ==
  /\ toClient \in Seq(Structures)
  /\ pc # "running" => /\ toServer \in Seq(Asked) /\ Len(toServer) <= 1
                       /\ toClient # << >> => toServer = << >>

Listings(ds)   == FlattenSeq([i \in DOMAIN ds |-> Listing(ds[i])])
ListReply(ds)  == <<OpHeader("REP_DEVLIST", 0), NumDevices(Len(ds))>> \o Listings(ds)
ImportReply(d) == <<OpHeader("REP_IMPORT", 0), WireDeviceInfo(d)>>

Refusals == {OpHeader("REP_DEVLIST", 1), OpHeader("REP_IMPORT", 1), OpHeader("unknown", 0)}

Refused ==
  /\ toClient[1] \in Refusals
  /\ Len(toClient) > 1 => toClient[2] = NumDevices(0)

Unread == SubSeq(replied, Len(devices) + 1, Len(replied))

Quiet       == toServer = << >> /\ toClient = << >>
ListAsked   == /\ devices = << >> /\ \A i \in 1 .. Len(toServer) : toServer[i] = ReqDevlist
               /\ toClient # << >> => Refused \/ Starts(toClient, ListReply(replied))
ListComes   == /\ toServer = << >> /\ numLeft > 0 /\ numLeft = Len(replied) - Len(devices)
               /\ Starts(devices, replied) /\ Starts(toClient, Listings(Unread))
ImportAsked == /\ \A i \in 1 .. Len(toServer) : toServer[i].type = "REQ_IMPORT"
               /\ toClient # << >> =>
                    Refused \/ (imported \in DeviceInfo /\ Starts(toClient, ImportReply(imported)))
ImportComes == /\ toServer = << >> /\ imported \in DeviceInfo
               /\ Starts(toClient, <<WireDeviceInfo(imported)>>)
Imported    == imported \in DeviceInfo /\ dev = imported

Reading ==
  /\ pc = "start" => Quiet /\ devices = << >>
  /\ pc = "listHeader" => ListAsked
  /\ pc = "listDevice" => ListComes
  /\ pc = "pick" => Quiet /\ devices = replied
  /\ pc = "importHeader" => ImportAsked
  /\ pc = "importDevice" => ImportComes
  /\ pc = "gadget" => Quiet /\ Imported
  /\ pc = "running" => toClient = << >> /\ Imported /\ speed = map_speed(imported.speed)

StartInv == HandshakeTypeOK /\ OneRequest /\ Reading /\ ImportsFirstListed

\* No command before the event loop, and no request of start-up after it.
NothingSent ==
  sent = << >> /\ taken = << >> /\ decoded = << >> /\ \A t \in Callers : writing[t] = << >>

CommandInv == IF pc = "running" THEN toServer \in Seq(Token) ELSE NothingSent

SessionInv == StreamTypeOK /\ StartInv /\ CommandInv

(* What is left of a stream that starts as v followed by w, once v is read.  *)
LEMMA RestStarts ==
  ASSUME NEW X, NEW s \in Seq(X), NEW v \in Seq(X), NEW w \in Seq(X),
         Starts(s, v \o w), Len(s) >= Len(v)
  PROVE  Starts(SubSeq(s, Len(v) + 1, Len(s)), w)
<1> DEFINE r == SubSeq(s, Len(v) + 1, Len(s))
<1>1. Len(s) \in Nat /\ Len(v) \in Nat /\ Len(w) \in Nat /\ Len(v \o w) = Len(v) + Len(w)
  OBVIOUS
<1>2. Len(r) = Len(s) - Len(v) /\ \A i \in 1 .. Len(r) : r[i] = s[Len(v) + i]
  BY <1>1
<1>3. \A i \in 1 .. Len(w) : (v \o w)[Len(v) + i] = w[i]
  BY <1>1
<1>4. ASSUME NEW i \in 1 .. Len(r) PROVE r[i] = w[i]
  <2>1. i \in 1 .. Len(w) /\ Len(v) + i \in 1 .. Len(s)
    BY <1>1, <1>2 DEF Starts
  <2> QED
    BY <1>2, <1>3, <2>1 DEF Starts
<1>5. Len(r) <= Len(w)
  BY <1>1, <1>2 DEF Starts
<1> QED
  BY <1>4, <1>5 DEF Starts

(* A lost connection leaves a part of the stream.                            *)
LEMMA PartStarts ==
  ASSUME NEW X, NEW s \in Seq(X), NEW k \in 0 .. Len(s)
  PROVE  /\ SubSeq(s, 1, k) \in Seq(X) /\ Len(SubSeq(s, 1, k)) = k
         /\ \A i \in 1 .. k : SubSeq(s, 1, k)[i] = s[i]
         /\ \A w : Starts(s, w) /\ Len(w) \in Nat => Starts(SubSeq(s, 1, k), w)
<1>1. /\ SubSeq(s, 1, k) \in Seq(X) /\ Len(SubSeq(s, 1, k)) = k
      /\ \A i \in 1 .. k : SubSeq(s, 1, k)[i] = s[i]
  OBVIOUS
<1>2. ASSUME NEW w, Starts(s, w), Len(w) \in Nat PROVE Starts(SubSeq(s, 1, k), w)
  <2>1. k <= Len(w)
    BY <1>2 DEF Starts
  <2>2. \A i \in 1 .. k : s[i] = w[i]
    BY <1>2 DEF Starts
  <2> QED
    BY <1>1, <2>1, <2>2 DEF Starts
<1> QED
  BY <1>1, <1>2

(* A device of the list comes with its interfaces (client.rs:51).            *)
LEMMA ListingIs ==
  ASSUME NEW d \in DeviceInfo
  PROVE  /\ Listing(d) \in Seq(Structures) /\ Len(Listing(d)) = DeviceSize(d)
         /\ Listing(d)[1] = WireDeviceInfo(d) /\ DeviceSize(d) \in Nat \ {0}
<1> DEFINE ifs == [i \in 1 .. d.num_interfaces |-> WireInterfaceInfo]
<1>1. d.num_interfaces \in Nat
  BY DEF DeviceInfo
<1>2. WireInterfaceInfo \in Structures /\ WireDeviceInfo(d) \in Structures
  BY DEF Structures
<1>3. ifs \in Seq(Structures) /\ Len(ifs) = d.num_interfaces
  BY <1>1, <1>2
<1> HIDE DEF ifs
<1>4. PICK x \in Structures : x = WireDeviceInfo(d)
  BY <1>2
<1>5. <<x>> \o ifs \in Seq(Structures) /\ Len(<<x>> \o ifs) = 1 + Len(ifs) /\ (<<x>> \o ifs)[1] = x
  BY <1>3
<1>6. Listing(d) = <<x>> \o ifs
  BY <1>4 DEF Listing, ifs
<1> QED
  BY <1>1, <1>3, <1>4, <1>5, <1>6 DEF DeviceSize

LEMMA ListingsType ==
  ASSUME NEW ds \in Seq(DeviceInfo)
  PROVE  /\ [i \in DOMAIN ds |-> Listing(ds[i])] \in Seq(Seq(Structures))
         /\ Listings(ds) \in Seq(Structures)
<1> DEFINE ls == [i \in DOMAIN ds |-> Listing(ds[i])]
<1>1. \A i \in 1 .. Len(ds) : Listing(ds[i]) \in Seq(Structures)
  BY ListingIs
<1>2. DOMAIN ds = 1 .. Len(ds) /\ Len(ds) \in Nat
  OBVIOUS
<1>3. ls \in Seq(Seq(Structures))
  BY <1>1, <1>2
<1> HIDE DEF ls
<1>4. FlattenSeq(ls) \in Seq(Structures)
  BY <1>3, FlattenInSeq
<1> QED
  BY <1>3, <1>4 DEF ls, Listings

LEMMA ListingsNone == Listings(<< >>) = << >>
<1>1. [i \in DOMAIN << >> |-> Listing(<< >>[i])] = << >>
  OBVIOUS
<1> QED
  BY <1>1 DEF Listings, FlattenSeq

LEMMA ListingsFirst ==
  ASSUME NEW ds \in Seq(DeviceInfo), ds # << >>
  PROVE  Listings(ds) = Listing(ds[1]) \o Listings(Tail(ds))
<1> DEFINE ls == [i \in DOMAIN ds |-> Listing(ds[i])]
           ts == [i \in DOMAIN Tail(ds) |-> Listing(Tail(ds)[i])]
<1>1. ls \in Seq(Seq(Structures)) /\ ts \in Seq(Seq(Structures))
  <2>1. Tail(ds) \in Seq(DeviceInfo)
    OBVIOUS
  <2> QED
    BY <2>1, ListingsType
<1>2. /\ DOMAIN ds = 1 .. Len(ds) /\ Len(ds) \in Nat \ {0} /\ Len(Tail(ds)) = Len(ds) - 1
      /\ DOMAIN Tail(ds) = 1 .. Len(Tail(ds)) /\ \A i \in 1 .. Len(Tail(ds)) : Tail(ds)[i] = ds[i + 1]
  OBVIOUS
<1>3. ls # << >> /\ Len(ls) = Len(ds) /\ ls[1] = Listing(ds[1])
  BY <1>2
<1>4. Len(ts) = Len(ds) - 1 /\ \A i \in 1 .. Len(ds) - 1 : ts[i] = ls[i + 1]
  BY <1>2
<1> HIDE DEF ls, ts
<1>5. ts = Tail(ls)
  <2>1. /\ Tail(ls) \in Seq(Seq(Structures)) /\ Len(Tail(ls)) = Len(ls) - 1
        /\ \A i \in 1 .. Len(Tail(ls)) : Tail(ls)[i] = ls[i + 1]
    BY <1>1, <1>3, HeadTailProperties
  <2>2. Len(ts) = Len(Tail(ls)) /\ \A i \in 1 .. Len(ts) : ts[i] = Tail(ls)[i]
    BY <1>3, <1>4, <2>1
  <2> QED
    BY <1>1, <2>1, <2>2, SeqEqual
<1>6. FlattenSeq(ls) = Head(ls) \o FlattenSeq(Tail(ls))
  BY <1>1, <1>3, FlattenFirst
<1>7. Head(ls) = ls[1]
  BY <1>1, <1>3
<1> QED
  BY <1>3, <1>5, <1>6, <1>7 DEF Listings, ls, ts
-----------------------------------------------------------------------------
(* The steps of start-up.  One lemma for each action.                        *)

LEMMA ExportsAreDevices ==
  ASSUME HandshakeTypeOK
  PROVE  /\ exported \in Seq(DeviceInfo) /\ replied \in Seq(DeviceInfo)
         /\ devices \in Seq(DeviceInfo)
         /\ \A i \in 1 .. Len(exported) : exported[i].busid.len <= BUSID_LEN
         /\ \A i \in 1 .. Len(replied) : replied[i].busid.len <= BUSID_LEN
<1>1. ASSUME NEW e \in Exports \cup {<< >>}
      PROVE  e \in Seq(DeviceInfo) /\ \A i \in 1 .. Len(e) : e[i].busid.len <= BUSID_LEN
  <2>1. e \in Seq(DeviceInfo)
    <3>1. << >> \in Seq(DeviceInfo)
      OBVIOUS
    <3>2. Exports \subseteq Seq(DeviceInfo)
      BY HandshakeAssumption
    <3> QED
      BY <3>1, <3>2, Zenon
  <2>2. CASE e \in Exports
    BY <2>1, <2>2, HandshakeAssumption DEF Range
  <2>3. CASE e = << >>
    BY <2>3
  <2> QED
    BY <2>1, <2>2, <2>3
<1> QED
  BY <1>1 DEF HandshakeTypeOK

LEMMA RequestStarts ==
  ASSUME NEW req \in Asked
  PROVE  <<req>> \in Seq(Asked) /\ Len(<<req>>) = 1 /\ <<req>>[1] = req
OBVIOUS

LEMMA ListDevicesStep ==
  ASSUME StartInv, ListDevices PROVE StartInv'
<1>1. ReqDevlist \in Asked
  BY DEF Asked
<1>2. /\ pc' = "listHeader" /\ toServer' = <<ReqDevlist>> /\ toClient' = << >> /\ connUp' = TRUE
      /\ UNCHANGED <<numLeft, devices, dev, speed, peerVars>> /\ pc = "start"
  BY DEF ListDevices, At, Request
<1>3. HandshakeTypeOK'
  BY <1>2 DEF StartInv, HandshakeTypeOK, peerVars
<1>4. OneRequest'
  BY <1>1, <1>2, RequestStarts DEF OneRequest
<1>5. Reading'
  BY <1>1, <1>2, RequestStarts DEF StartInv, Reading, ListAsked
<1>6. ImportsFirstListed'
  <2>1. ReqDevlist.type # "REQ_IMPORT"
    BY DEF ReqDevlist
  <2>2. DOMAIN toServer' = {1} /\ toServer'[1] = ReqDevlist
    BY <1>2
  <2> QED
    BY <2>1, <2>2 DEF ImportsFirstListed
<1> QED
  BY <1>3, <1>4, <1>5, <1>6 DEF StartInv

(* read_exact of n structures.                                               *)
LEMMA ReceiveStep ==
  ASSUME StartInv, pc # "running", pc' # "running", NEW n \in Nat \ {0}, Receive(n)
  PROVE  /\ toServer = << >> /\ toServer' = << >> /\ connUp' = connUp /\ Len(toClient) >= n
         /\ toClient \in Seq(Structures) /\ toClient' \in Seq(Structures)
         /\ toClient' = SubSeq(toClient, n + 1, Len(toClient))
         /\ OneRequest' /\ ImportsFirstListed'
<1>1. /\ toClient \in Seq(Structures) /\ Len(toClient) \in Nat /\ Len(toClient) >= n
      /\ toClient' = SubSeq(toClient, n + 1, Len(toClient)) /\ UNCHANGED <<connUp, toServer>>
  BY DEF StartInv, OneRequest, Receive
<1>2. toServer = << >>
  <2>1. toClient # << >>
    BY <1>1
  <2> QED
    BY <2>1 DEF StartInv, OneRequest
<1>3. toClient' \in Seq(Structures)
  BY <1>1
<1>4. OneRequest'
  BY <1>1, <1>2, <1>3 DEF OneRequest
<1>5. ImportsFirstListed'
  <2>1. DOMAIN toServer' = {}
    BY <1>1, <1>2
  <2> QED
    BY <2>1 DEF ImportsFirstListed
<1> QED
  BY <1>1, <1>2, <1>3, <1>4, <1>5

(* A refusal is no reply (client.rs:31, 91).                                 *)
LEMMA RefusedIsNot ==
  ASSUME NEW op \in Refusals, NEW code \in {"REP_DEVLIST", "REP_IMPORT"}
  PROVE  ~(op.code = code /\ op.status = 0)
BY DEF Refusals, OpHeader

LEMMA ListHeaderStep ==
  ASSUME StartInv, ListHeader PROVE StartInv'
<1>1. /\ pc = "listHeader" /\ ListAsked /\ Receive(2) /\ numLeft' = toClient[2].n
      /\ pc' = IF ~Accepted("REP_DEVLIST") THEN "failed"
               ELSE IF numLeft' = 0 THEN "pick" ELSE "listDevice"
      /\ UNCHANGED <<devices, dev, speed, peerVars>>
  BY DEF StartInv, Reading, ListHeader, At
<1>2. pc' \in {"failed", "pick", "listDevice"}
  BY <1>1
<1>3. /\ toServer' = << >> /\ connUp' = connUp /\ Len(toClient) >= 2
      /\ toClient \in Seq(Structures) /\ toClient' = SubSeq(toClient, 2 + 1, Len(toClient))
      /\ toClient' \in Seq(Structures) /\ OneRequest' /\ ImportsFirstListed'
  BY <1>1, <1>2, ReceiveStep
<1>4. Head(toClient) = toClient[1] /\ toClient # << >> /\ Len(toClient) \in Nat
  BY <1>3
<1>5. CASE Refused
  <2>1. ~Accepted("REP_DEVLIST")
    BY <1>4, <1>5, RefusedIsNot DEF Refused, Accepted
  <2>2. toClient[2] = NumDevices(0)
    BY <1>3, <1>4, <1>5 DEF Refused
  <2>3. pc' = "failed" /\ numLeft' = 0
    BY <1>1, <2>1, <2>2 DEF NumDevices
  <2>4. HandshakeTypeOK'
    BY <1>1, <1>3, <2>3 DEF StartInv, HandshakeTypeOK, peerVars
  <2>5. Reading'
    BY <2>3 DEF Reading
  <2> QED
    BY <1>3, <2>4, <2>5 DEF StartInv
<1>6. CASE ~Refused
  <2>0. replied \in Seq(DeviceInfo) /\ Len(replied) \in Nat
    BY ExportsAreDevices DEF StartInv
  <2>1. PICK v \in Seq(Structures) :
          /\ v = <<OpHeader("REP_DEVLIST", 0), NumDevices(Len(replied))>> /\ Len(v) = 2
          /\ v[1] = OpHeader("REP_DEVLIST", 0) /\ v[2] = NumDevices(Len(replied))
    <3>1. OpHeader("REP_DEVLIST", 0) \in Structures /\ NumDevices(Len(replied)) \in Structures
      BY <2>0 DEF Structures
    <3>2. PICK a \in Structures, b \in Structures :
            a = OpHeader("REP_DEVLIST", 0) /\ b = NumDevices(Len(replied))
      BY <3>1
    <3>3. <<a, b>> \in Seq(Structures) /\ Len(<<a, b>>) = 2 /\ <<a, b>>[1] = a /\ <<a, b>>[2] = b
      OBVIOUS
    <3> QED
      BY <3>2, <3>3
  <2>2. PICK w \in Seq(Structures) : w = Listings(replied)
    BY <2>0, ListingsType
  <2>3. Starts(toClient, v \o w)
    BY <1>1, <1>4, <1>6, <2>1, <2>2 DEF ListAsked, ListReply
  <2>4. toClient[1] = v[1] /\ toClient[2] = v[2]
    <3>1. (v \o w)[1] = v[1] /\ (v \o w)[2] = v[2]
      BY <2>1
    <3> QED
      BY <1>3, <1>4, <2>3, <3>1 DEF Starts
  <2>5. Accepted("REP_DEVLIST") /\ numLeft' = Len(replied)
    BY <1>1, <1>4, <2>1, <2>4 DEF Accepted, OpHeader, NumDevices
  <2>6. Starts(toClient', w)
    BY <1>3, <2>1, <2>3, RestStarts
  <2>7. HandshakeTypeOK'
    BY <1>1, <1>2, <1>3, <2>0, <2>5 DEF StartInv, HandshakeTypeOK, peerVars
  <2>8. devices' = << >> /\ replied' = replied
    BY <1>1 DEF ListAsked, peerVars
  <2>9. CASE Len(replied) = 0
    <3>1. replied = << >> /\ pc' = "pick"
      BY <1>1, <2>0, <2>5, <2>9
    <3>2. w = << >>
      BY <2>2, <3>1, ListingsNone
    <3>3. toClient' = << >>
      BY <1>3, <2>6, <3>2 DEF Starts
    <3>4. Reading'
      BY <1>3, <2>8, <3>1, <3>3 DEF Reading, Quiet
    <3> QED
      BY <1>3, <2>7, <3>4 DEF StartInv
  <2>10. CASE Len(replied) # 0
    <3>1. pc' = "listDevice"
      BY <1>1, <2>5, <2>10
    <3>2. Unread' = replied
      <4>1. Len(devices') = 0
        BY <2>8
      <4>2. SubSeq(replied, 1, Len(replied)) = replied
        BY <2>0, SubSeqFull
      <4>3. 0 + 1 = 1
        OBVIOUS
      <4> QED
        BY <2>8, <4>1, <4>2, <4>3 DEF Unread
    <3>3. Starts(devices', replied')
      BY <2>0, <2>8 DEF Starts
    <3>4. Starts(toClient', Listings(Unread)')
      BY <2>2, <2>6, <3>2
    <3>5. numLeft' > 0 /\ numLeft' = Len(replied') - Len(devices')
      BY <2>0, <2>5, <2>8, <2>10
    <3>6. ListComes'
      BY <1>3, <3>3, <3>4, <3>5 DEF ListComes
    <3>7. Reading'
      BY <3>1, <3>6 DEF Reading
    <3> QED
      BY <1>3, <2>7, <3>7 DEF StartInv
  <2> QED
    BY <2>9, <2>10
<1> QED
  BY <1>5, <1>6

LEMMA ListDeviceStep ==
  ASSUME StartInv, ListDevice PROVE StartInv'
<1>1. /\ pc = "listDevice" /\ ListComes /\ toClient # << >> /\ numLeft' = numLeft - 1
      /\ Receive(DeviceSize(Head(toClient).dev)) /\ devices' = Append(devices, Head(toClient).dev)
      /\ pc' = (IF numLeft' = 0 THEN "pick" ELSE "listDevice")
      /\ UNCHANGED <<dev, speed, peerVars>>
  BY DEF StartInv, Reading, ListDevice, At
<1>2. /\ replied \in Seq(DeviceInfo) /\ devices \in Seq(DeviceInfo) /\ replied' = replied
      /\ Len(replied) \in Nat /\ Len(devices) \in Nat /\ toClient \in Seq(Structures)
  BY <1>1, ExportsAreDevices DEF StartInv, OneRequest, peerVars
<1>3. PICK n \in Nat : n = Len(devices) + 1 /\ n <= Len(replied)
  BY <1>1, <1>2 DEF ListComes
<1>4. PICK d \in DeviceInfo : d = replied[n]
  BY <1>2, <1>3
<1>5. PICK w \in Seq(Structures) :
        /\ w = Listings(SubSeq(replied, n + 1, Len(replied)))
        /\ Listings(Unread) = Listing(d) \o w
  <2>1. n \in 1 .. Len(replied) /\ Len(replied) \in n .. Len(replied)
    BY <1>2, <1>3
  <2>2. PICK u : u = SubSeq(replied, n, Len(replied))
    OBVIOUS
  <2>3. Head(u) = d /\ Tail(u) = SubSeq(replied, n + 1, Len(replied))
    BY <1>2, <1>4, <2>1, <2>2, HeadTailOfSubSeq
  <2>4. u \in Seq(DeviceInfo) /\ u # << >>
    <3>1. \A i \in n .. Len(replied) : replied[i] \in DeviceInfo
      BY <1>2, <2>1
    <3>2. u \in Seq(DeviceInfo) /\ Len(u) = Len(replied) - n + 1
      BY <1>2, <2>1, <2>2, <3>1, SubSeqProperties
    <3> QED
      BY <1>2, <2>1, <3>2
  <2>5. u[1] = d /\ Tail(u) \in Seq(DeviceInfo)
    BY <2>3, <2>4
  <2>6. Listings(u) = Listing(u[1]) \o Listings(Tail(u))
    BY <2>4, ListingsFirst
  <2>7. Unread = u
    BY <1>3, <2>2 DEF Unread
  <2> QED
    BY <2>3, <2>5, <2>6, <2>7, ListingsType
<1>6. PICK v \in Seq(Structures) : v = Listing(d) /\ Len(v) = DeviceSize(d) /\ v[1] = WireDeviceInfo(d)
  BY ListingIs
<1>7. DeviceSize(d) \in Nat \ {0}
  BY ListingIs
<1>8. Starts(toClient, v \o w)
  BY <1>1, <1>5, <1>6 DEF ListComes
<1>9. Head(toClient).dev = d
  <2>1. (v \o w)[1] = v[1]
    BY <1>6, <1>7
  <2>2. Head(toClient) = toClient[1] /\ 1 \in 1 .. Len(toClient)
    BY <1>1, <1>2
  <2>3. Head(toClient) = WireDeviceInfo(d)
    BY <1>6, <1>8, <2>1, <2>2 DEF Starts
  <2> QED
    BY <2>3 DEF WireDeviceInfo
<1>10. pc' \in {"pick", "listDevice"}
  BY <1>1
<1>11. /\ toServer' = << >> /\ connUp' = connUp /\ Len(toClient) >= DeviceSize(d)
       /\ toClient' \in Seq(Structures)
       /\ toClient' = SubSeq(toClient, DeviceSize(d) + 1, Len(toClient))
       /\ OneRequest' /\ ImportsFirstListed'
  BY <1>1, <1>7, <1>9, <1>10, ReceiveStep
<1>12. Starts(toClient', w)
  BY <1>2, <1>6, <1>8, <1>11, RestStarts
<1>13. /\ devices' \in Seq(DeviceInfo) /\ Len(devices') = n /\ Len(devices') = Len(devices) + 1
       /\ \A i \in 1 .. n : devices'[i] = replied[i]
  <2>1. devices' = Append(devices, d)
    BY <1>1, <1>9
  <2>2. /\ devices' \in Seq(DeviceInfo) /\ Len(devices') = n /\ devices'[n] = d
        /\ \A i \in 1 .. Len(devices) : devices'[i] = devices[i]
    BY <1>2, <1>3, <2>1
  <2>3. \A i \in 1 .. Len(devices) : devices[i] = replied[i]
    BY <1>1 DEF ListComes, Starts
  <2>4. ASSUME NEW i \in 1 .. n PROVE devices'[i] = replied[i]
    <3>1. CASE i = n
      BY <1>4, <2>2, <3>1
    <3>2. CASE i # n
      <4>1. i \in 1 .. Len(devices)
        BY <1>2, <1>3, <3>2
      <4> QED
        BY <2>2, <2>3, <4>1
    <3> QED
      BY <3>1, <3>2
  <2> QED
    BY <1>3, <2>2, <2>4
<1>14. numLeft \in Nat /\ numLeft > 0 /\ numLeft = Len(replied) - Len(devices)
  BY <1>1 DEF StartInv, HandshakeTypeOK, ListComes
<1>15. HandshakeTypeOK'
  BY <1>1, <1>10, <1>11, <1>13, <1>14 DEF StartInv, HandshakeTypeOK, peerVars
<1>16. CASE numLeft' = 0
  <2>1. pc' = "pick" /\ n = Len(replied)
    BY <1>1, <1>2, <1>3, <1>14, <1>16
  <2>2. devices' = replied
    BY <1>2, <1>13, <2>1, SeqEqual
  <2>3. w = << >>
    <3>1. n < n + 1 /\ n \in Int /\ n + 1 \in Int
      OBVIOUS
    <3>2. SubSeq(replied, n + 1, Len(replied)) = << >>
      BY <2>1, <3>1, SubSeqEmpty
    <3> QED
      BY <1>5, <3>2, ListingsNone
  <2>4. toClient' = << >>
    BY <1>11, <1>12, <2>3 DEF Starts
  <2>5. Reading'
    BY <1>2, <1>11, <2>1, <2>2, <2>4 DEF Reading, Quiet
  <2> QED
    BY <1>11, <1>15, <2>5 DEF StartInv
<1>17. CASE numLeft' # 0
  <2>1. pc' = "listDevice"
    BY <1>1, <1>17
  <2>2. numLeft' > 0 /\ numLeft' = Len(replied') - Len(devices')
    BY <1>1, <1>2, <1>13, <1>14, <1>17
  <2>3. Starts(devices', replied')
    BY <1>2, <1>3, <1>13 DEF Starts
  <2>4. Starts(toClient', Listings(Unread)')
    <3>1. Unread' = SubSeq(replied, n + 1, Len(replied))
      BY <1>2, <1>13 DEF Unread
    <3> QED
      BY <1>5, <1>12, <3>1
  <2>5. ListComes'
    BY <1>11, <2>2, <2>3, <2>4 DEF ListComes
  <2>6. Reading'
    BY <2>1, <2>5 DEF Reading
  <2> QED
    BY <1>11, <1>15, <2>6 DEF StartInv
<1> QED
  BY <1>16, <1>17

LEMMA ImportDeviceStep ==
  ASSUME StartInv, ImportDevice PROVE StartInv'
<1>1. /\ pc = "pick" /\ Quiet /\ devices = replied
      /\ UNCHANGED <<numLeft, devices, dev, speed, peerVars>>
  BY DEF StartInv, Reading, ImportDevice, At
<1>2. CASE devices = << >>
  <2>1. pc' = "failed" /\ UNCHANGED streamVars
    BY <1>2 DEF ImportDevice
  <2> QED
    BY <1>1, <2>1 DEF StartInv, HandshakeTypeOK, OneRequest, Reading, ImportsFirstListed,
                      streamVars, peerVars
<1>3. CASE devices # << >>
  <2> DEFINE req == ReqImport(Field(devices[1].busid))
  <2>1. pc' = "importHeader" /\ toServer' = <<req>> /\ toClient' = << >> /\ connUp' = TRUE
    BY <1>3 DEF ImportDevice, Request
  <2>2. replied[1] \in DeviceInfo /\ replied[1].busid.len <= BUSID_LEN
    <3>1. replied \in Seq(DeviceInfo) /\ replied # << >>
      BY <1>1, <1>3, ExportsAreDevices DEF StartInv
    <3>2. 1 \in 1 .. Len(replied)
      BY <3>1
    <3> QED
      BY <3>1, <3>2, ExportsAreDevices DEF StartInv
  <2>3. PICK first \in BusId, asked \in BusId :
          /\ first = replied[1].busid /\ req = ReqImport(asked)
          /\ asked.name = first.name /\ asked.len < BUSID_LEN
          /\ first.len < BUSID_LEN => asked = first
    <3>1. PICK first : first = replied[1].busid
      OBVIOUS
    <3>2. first \in BusId /\ first.len <= BUSID_LEN
      BY <2>2, <3>1 DEF DeviceInfo
    <3>3. /\ Field(first) \in BusId
          /\ Field(first).name = first.name /\ Field(first).len < BUSID_LEN
          /\ first.len < BUSID_LEN => Field(first) = first
      BY <3>2, HandshakeAssumption DEF Field, BusId
    <3>4. req = ReqImport(Field(first))
      BY <1>1, <3>1
    <3> QED
      BY <3>1, <3>2, <3>3, <3>4
  <2>4. req \in Asked /\ req.type = "REQ_IMPORT" /\ req.busid = asked
    BY <2>3 DEF Asked, ReqImport
  <2> HIDE DEF req
  <2>5. toServer' \in Seq(Asked) /\ Len(toServer') = 1 /\ toServer'[1] = req
    BY <2>1, <2>4, RequestStarts
  <2>6. HandshakeTypeOK'
    BY <1>1, <2>1 DEF StartInv, HandshakeTypeOK, peerVars
  <2>7. OneRequest'
    BY <2>1, <2>5 DEF OneRequest
  <2>8. Reading'
    BY <2>1, <2>4, <2>5 DEF Reading, ImportAsked
  <2>9. ImportsFirstListed'
    <3>1. DOMAIN toServer' = {1} /\ replied' = replied
      BY <1>1, <2>5 DEF peerVars
    <3> QED
      BY <2>3, <2>4, <2>5, <3>1 DEF ImportsFirstListed
  <2> QED
    BY <2>6, <2>7, <2>8, <2>9 DEF StartInv
<1> QED
  BY <1>2, <1>3

LEMMA PairIs ==
  ASSUME NEW X, NEW a \in X, NEW b \in X
  PROVE  /\ <<a>> \o <<b>> = <<a, b>> /\ <<a, b>> \in Seq(X) /\ Len(<<a, b>>) = 2
         /\ <<a, b>>[1] = a /\ <<a, b>>[2] = b
<1>1. /\ <<a>> \in Seq(X) /\ <<b>> \in Seq(X) /\ Len(<<a>>) = 1 /\ Len(<<b>>) = 1
      /\ <<a>>[1] = a /\ <<b>>[1] = b
  OBVIOUS
<1>2. /\ <<a, b>> \in Seq(X) /\ Len(<<a, b>>) = 2 /\ <<a, b>>[1] = a /\ <<a, b>>[2] = b
  OBVIOUS
<1>3. PICK u \in Seq(X), v \in Seq(X) : u = <<a>> /\ v = <<b>>
  BY <1>1
<1>4. /\ u \o v \in Seq(X) /\ Len(u \o v) = 2 /\ (u \o v)[1] = a /\ (u \o v)[2] = b
  BY <1>1, <1>3
<1>5. PICK p \in Seq(X), q \in Seq(X) : p = u \o v /\ q = <<a, b>>
  BY <1>2, <1>4
<1>6. Len(p) = Len(q) /\ \A i \in 1 .. Len(p) : p[i] = q[i]
  BY <1>2, <1>4, <1>5
<1>7. p = q
  BY <1>6, SeqEqual
<1> QED
  BY <1>2, <1>3, <1>5, <1>7

LEMMA ImportReplyIs ==
  ASSUME NEW d \in DeviceInfo
  PROVE  \E v, w \in Seq(Structures) :
           /\ v \o w = ImportReply(d) /\ Len(v) = 1 /\ v[1] = OpHeader("REP_IMPORT", 0)
           /\ w = <<WireDeviceInfo(d)>> /\ Len(w) = 1 /\ w[1] = WireDeviceInfo(d)
<1>1. PICK a \in Structures, b \in Structures :
        a = OpHeader("REP_IMPORT", 0) /\ b = WireDeviceInfo(d)
  BY DEF Structures
<1>2. /\ <<a>> \in Seq(Structures) /\ Len(<<a>>) = 1 /\ <<a>>[1] = a
      /\ <<b>> \in Seq(Structures) /\ Len(<<b>>) = 1 /\ <<b>>[1] = b
  OBVIOUS
<1>3. <<a>> \o <<b>> = <<a, b>>
  BY PairIs
<1> QED
  BY <1>1, <1>2, <1>3 DEF ImportReply

LEMMA ImportHeaderStep ==
  ASSUME StartInv, ImportHeader PROVE StartInv'
<1>1. /\ pc = "importHeader" /\ ImportAsked /\ Receive(1)
      /\ pc' = (IF Accepted("REP_IMPORT") THEN "importDevice" ELSE "failed")
      /\ UNCHANGED <<numLeft, devices, dev, speed, peerVars>>
  BY DEF StartInv, Reading, ImportHeader, At
<1>2. pc' \in {"failed", "importDevice"}
  BY <1>1
<1>3. /\ toServer' = << >> /\ connUp' = connUp /\ Len(toClient) >= 1
      /\ toClient \in Seq(Structures) /\ toClient' = SubSeq(toClient, 1 + 1, Len(toClient))
      /\ toClient' \in Seq(Structures) /\ OneRequest' /\ ImportsFirstListed'
  BY <1>1, <1>2, ReceiveStep
<1>4. Head(toClient) = toClient[1] /\ toClient # << >> /\ Len(toClient) \in Nat
  BY <1>3
<1>5. HandshakeTypeOK'
  BY <1>1, <1>2, <1>3 DEF StartInv, HandshakeTypeOK, peerVars
<1>6. CASE Refused
  <2>1. ~Accepted("REP_IMPORT")
    BY <1>4, <1>6, RefusedIsNot DEF Refused, Accepted
  <2>2. Reading'
    BY <1>1, <2>1 DEF Reading
  <2> QED
    BY <1>3, <1>5, <2>2 DEF StartInv
<1>7. CASE ~Refused
  <2>1. imported \in DeviceInfo /\ Starts(toClient, ImportReply(imported)) /\ imported' = imported
    BY <1>1, <1>4, <1>7 DEF ImportAsked, peerVars
  <2>2. PICK v \in Seq(Structures), w \in Seq(Structures) :
           /\ v \o w = ImportReply(imported) /\ Len(v) = 1 /\ v[1] = OpHeader("REP_IMPORT", 0)
           /\ w = <<WireDeviceInfo(imported)>>
    BY <2>1, ImportReplyIs
  <2>3. toClient[1] = v[1]
    <3>1. (v \o w)[1] = v[1]
      BY <2>2
    <3> QED
      BY <1>3, <1>4, <2>1, <2>2, <3>1 DEF Starts
  <2>4. pc' = "importDevice"
    BY <1>1, <1>4, <2>2, <2>3 DEF Accepted, OpHeader
  <2>5. Starts(toClient', w)
    BY <1>3, <2>1, <2>2, RestStarts
  <2>6. Reading'
    BY <1>3, <2>1, <2>2, <2>4, <2>5 DEF Reading, ImportComes
  <2> QED
    BY <1>3, <1>5, <2>6 DEF StartInv
<1> QED
  BY <1>6, <1>7

LEMMA ImportInfoStep ==
  ASSUME StartInv, ImportInfo PROVE StartInv'
<1>1. /\ pc = "importDevice" /\ ImportComes /\ toClient # << >> /\ pc' = "gadget"
      /\ Receive(1) /\ dev' = Head(toClient).dev
      /\ UNCHANGED <<numLeft, devices, speed, peerVars>>
  BY DEF StartInv, Reading, ImportInfo, At, ImportSize, Info
<1>2. /\ toServer' = << >> /\ connUp' = connUp /\ Len(toClient) >= 1
      /\ toClient \in Seq(Structures) /\ toClient' = SubSeq(toClient, 1 + 1, Len(toClient))
      /\ toClient' \in Seq(Structures) /\ OneRequest' /\ ImportsFirstListed'
  BY <1>1, ReceiveStep
<1>3. imported \in DeviceInfo /\ imported' = imported
  BY <1>1 DEF ImportComes, peerVars
<1>4. Len(toClient) = 1 /\ Head(toClient) = WireDeviceInfo(imported)
  <2>1. PICK w \in Seq(Structures) :
          w = <<WireDeviceInfo(imported)>> /\ Len(w) = 1 /\ w[1] = WireDeviceInfo(imported)
    BY <1>3, ImportReplyIs
  <2>2. Starts(toClient, w)
    BY <1>1, <2>1 DEF ImportComes
  <2>3. Head(toClient) = toClient[1] /\ Len(toClient) \in Nat
    BY <1>1, <1>2
  <2> QED
    BY <1>2, <2>1, <2>2, <2>3 DEF Starts
<1>5. dev' = imported /\ toClient' = << >>
  BY <1>1, <1>2, <1>4 DEF WireDeviceInfo
<1>6. HandshakeTypeOK'
  BY <1>1, <1>2, <1>3, <1>5 DEF StartInv, HandshakeTypeOK, peerVars
<1>7. Reading'
  BY <1>1, <1>2, <1>3, <1>5 DEF Reading, Quiet, Imported
<1> QED
  BY <1>2, <1>6, <1>7 DEF StartInv

LEMMA StartGadgetStep ==
  ASSUME StartInv, StartGadget PROVE StartInv' /\ (pc' = "running" => toServer' = << >>)
<1>1. /\ pc = "gadget" /\ Quiet /\ Imported
      /\ UNCHANGED <<numLeft, devices, dev, streamVars, peerVars>>
      /\ \/ pc' = "running" /\ speed' = map_speed(dev.speed)
         \/ pc' = "failed" /\ speed' = speed
  BY DEF StartInv, Reading, StartGadget, At
<1>2. map_speed(dev.speed) \in 0 .. 6
  BY DEF map_speed
<1>3. HandshakeTypeOK' /\ OneRequest' /\ ImportsFirstListed'
  BY <1>1, <1>2 DEF StartInv, HandshakeTypeOK, OneRequest, ImportsFirstListed, streamVars, peerVars
<1>4. Reading'
  BY <1>1 DEF Reading, Quiet, Imported, streamVars, peerVars
<1> QED
  BY <1>1, <1>3, <1>4 DEF StartInv, Quiet, streamVars

LEMMA ConnectionFailsStep ==
  ASSUME StartInv, ConnectionFails PROVE StartInv'
<1>1. /\ pc # "running" /\ pc' = "failed"
      /\ UNCHANGED <<numLeft, devices, dev, speed, peerVars, streamVars>>
  BY DEF ConnectionFails, Structure
<1> QED
  BY <1>1
     DEF StartInv, HandshakeTypeOK, OneRequest, Reading, ImportsFirstListed, streamVars, peerVars

-----------------------------------------------------------------------------
(* The steps of the server and the network.                                 *)

LEMMA AloneIs ==
  ASSUME NEW X, NEW s \in Seq(X), s # << >>, Len(s) <= 1
  PROVE  Len(s) = 1 /\ s[1] \in X /\ Head(s) = s[1] /\ Tail(s) = << >>
<1>1. Len(s) \in Nat /\ Len(s) # 0
  OBVIOUS
<1>2. Len(s) = 1
  BY <1>1
<1>3. Tail(s) \in Seq(X) /\ Len(Tail(s)) = 0
  BY <1>2
<1>4. Tail(s) = << >>
  BY <1>3
<1> QED
  BY <1>2, <1>4

(* A server has nothing to serve once main is in its event loop.             *)
LEMMA ServeStep ==
  ASSUME StartInv, pc = "running" => toServer \in Seq(Token),
         NEW type \in {"REQ_DEVLIST", "REQ_IMPORT"}, Serve(type)
  PROVE  /\ pc # "running" /\ toServer # << >> /\ Len(toServer) = 1 /\ toServer[1].type = type
         /\ toServer' = << >> /\ toClient = << >> /\ UNCHANGED <<mainVars, exported>>
         /\ toServer[1] \in Asked
<1>1. toServer # << >> /\ Head(toServer).type = type /\ toServer' = Tail(toServer)
  BY DEF Serve
<1>2. pc # "running"
  <2>1. \A tok \in Token : tok.type # type
    BY DEF Token
  <2> QED
    BY <1>1, <2>1
<1>3. toServer \in Seq(Asked) /\ Len(toServer) = 1 /\ toClient = << >>
  <2>1. toServer \in Seq(Asked) /\ Len(toServer) <= 1 /\ (toClient # << >> => toServer = << >>)
    BY <1>2 DEF StartInv, OneRequest
  <2>2. Len(toServer) = 1
    BY <1>1, <2>1, AloneIs
  <2> QED
    BY <1>1, <2>1, <2>2
<1>4. Head(toServer) = toServer[1] /\ toServer[1] \in Asked /\ Tail(toServer) = << >>
  BY <1>1, <1>3, AloneIs
<1> QED
  BY <1>1, <1>2, <1>3, <1>4 DEF Serve

(* The server has answered on the stream s.                                  *)
LEMMA AnsweredStep ==
  ASSUME StartInv, pc = "running" => toServer \in Seq(Token),
         NEW type \in {"REQ_DEVLIST", "REQ_IMPORT"}, Serve(type), toClient' \in Seq(Structures),
         connUp' \in BOOLEAN, replied' \in Exports \cup {<< >>},
         imported' \in DeviceInfo \cup {NoDevice}, pc \in {"listHeader", "importHeader"} => Reading'
  PROVE  StartInv'
<1>1. /\ pc # "running" /\ toServer # << >> /\ toServer' = << >> /\ toClient = << >>
      /\ UNCHANGED <<mainVars, exported>>
  BY ServeStep
<1>2. HandshakeTypeOK'
  BY <1>1 DEF StartInv, HandshakeTypeOK, mainVars
<1>3. OneRequest'
  BY <1>1 DEF OneRequest, mainVars
<1>4. Reading'
  <2>1. pc \in {"listHeader", "importHeader", "failed"}
    BY <1>1 DEF StartInv, Reading, HandshakeTypeOK, Quiet, ListComes, ImportComes
  <2>2. CASE pc = "failed"
    BY <1>1, <2>2 DEF Reading, mainVars
  <2> QED
    BY <2>1, <2>2
<1>5. ImportsFirstListed'
  <2>1. DOMAIN toServer' = {}
    BY <1>1
  <2> QED
    BY <2>1 DEF ImportsFirstListed
<1> QED
  BY <1>2, <1>3, <1>4, <1>5 DEF StartInv

LEMMA SubSeqIs ==
  ASSUME NEW X, NEW s \in Seq(X), NEW n \in Nat \ {0}
  PROVE  SubSeq(s, n, Len(s)) \in Seq(X)
OBVIOUS

LEMMA ListReplyType ==
  ASSUME NEW ds \in Seq(DeviceInfo)
  PROVE  ListReply(ds) \in Seq(Structures)
<1>1. PICK w \in Seq(Structures) : w = Listings(ds)
  BY ListingsType
<1>2. Len(ds) \in Nat
  OBVIOUS
<1>3. PICK a \in Structures, b \in Structures :
        a = OpHeader("REP_DEVLIST", 0) /\ b = NumDevices(Len(ds))
  BY <1>2 DEF Structures
<1>4. <<a, b>> \o w \in Seq(Structures)
  OBVIOUS
<1> QED
  BY <1>1, <1>3, <1>4 DEF ListReply

LEMMA ServerListsStep ==
  ASSUME StartInv, pc = "running" => toServer \in Seq(Token), ServerLists PROVE StartInv'
<1>1. /\ Serve("REQ_DEVLIST") /\ toClient' = ListReply(exported) /\ replied' = exported
      /\ UNCHANGED <<connUp, imported>>
  BY DEF ServerLists, ListReply, Listings
<1>2. /\ toServer[1].type = "REQ_DEVLIST" /\ Len(toServer) = 1 /\ toServer' = << >>
      /\ UNCHANGED <<mainVars, exported>>
  BY <1>1, ServeStep
<1>3. exported \in Seq(DeviceInfo) /\ Len(exported) \in Nat
  BY ExportsAreDevices DEF StartInv
<1>4. PICK s \in Seq(Structures) : s = ListReply(exported)
  BY <1>3, ListReplyType
<1>5. pc \in {"listHeader", "importHeader"} => Reading'
  <2>1. ASSUME pc = "importHeader" PROVE FALSE
    BY <1>2, <2>1 DEF StartInv, Reading, ImportAsked
  <2>2. ASSUME pc = "listHeader" PROVE ListAsked'
    <3>1. devices' = << >>
      BY <1>2, <2>2 DEF StartInv, Reading, ListAsked, mainVars
    <3>2. Starts(s, s)
      BY DEF Starts
    <3>3. Starts(toClient', ListReply(replied)')
      BY <1>1, <1>4, <3>2
    <3>4. Len(toServer') = 0
      BY <1>2
    <3> QED
      BY <3>1, <3>3, <3>4 DEF ListAsked
  <2> QED
    BY <1>2, <2>1, <2>2 DEF Reading, mainVars
<1>6. exported \in Exports /\ connUp \in BOOLEAN /\ imported \in DeviceInfo \cup {NoDevice}
  BY DEF StartInv, HandshakeTypeOK
<1> QED
  BY <1>1, <1>4, <1>5, <1>6, AnsweredStep

LEMMA ServerExportsStep ==
  ASSUME StartInv, pc = "running" => toServer \in Seq(Token), ServerExports PROVE StartInv'
<1>1. Serve("REQ_IMPORT") /\ UNCHANGED <<connUp, replied>>
  BY DEF ServerExports
<1>2. /\ toServer[1].type = "REQ_IMPORT" /\ Len(toServer) = 1 /\ toServer' = << >>
      /\ UNCHANGED <<mainVars, exported>>
  BY <1>1, ServeStep
<1>3. PICK d \in Range(exported) : toClient' = ImportReply(d) /\ imported' = d
  BY DEF ServerExports, ImportReply
<1>4. d \in DeviceInfo
  <2>1. exported \in Seq(DeviceInfo)
    BY ExportsAreDevices DEF StartInv
  <2> QED
    BY <2>1 DEF Range
<1>5. PICK s \in Seq(Structures) : s = ImportReply(d)
  <2>1. PICK v \in Seq(Structures), w \in Seq(Structures) : v \o w = ImportReply(d)
    BY <1>4, ImportReplyIs
  <2>2. v \o w \in Seq(Structures)
    OBVIOUS
  <2> QED
    BY <2>1, <2>2
<1>6. pc \in {"listHeader", "importHeader"} => Reading'
  <2>1. ASSUME pc = "listHeader" PROVE FALSE
    BY <1>2, <2>1 DEF StartInv, Reading, ListAsked, ReqDevlist
  <2>2. ImportAsked'
    <3>1. Starts(s, s)
      BY DEF Starts
    <3>2. Starts(toClient', ImportReply(imported)')
      BY <1>3, <1>5, <3>1
    <3>3. Len(toServer') = 0
      BY <1>2
    <3> QED
      BY <1>3, <1>4, <3>2, <3>3 DEF ImportAsked
  <2> QED
    BY <1>2, <2>1, <2>2 DEF Reading, mainVars
<1>7. replied \in Exports \cup {<< >>} /\ connUp \in BOOLEAN
  BY DEF StartInv, HandshakeTypeOK
<1> QED
  BY <1>1, <1>3, <1>4, <1>5, <1>6, <1>7, AnsweredStep

LEMMA ServerRefusesStep ==
  ASSUME StartInv, pc = "running" => toServer \in Seq(Token), ServerRefuses PROVE StartInv'
<1>1. PICK type \in {"REQ_DEVLIST", "REQ_IMPORT"} : Serve(type)
  BY DEF ServerRefuses
<1>2. Len(toServer) = 1 /\ toServer' = << >> /\ UNCHANGED <<mainVars, exported>>
  BY <1>1, ServeStep
<1>3. PICK op \in Refusals, rest \in {<< >>, <<NumDevices(0)>>} : toClient' = <<op>> \o rest
  BY DEF ServerRefuses, Refusals
<1>4. connUp' = FALSE /\ UNCHANGED <<replied, imported>>
  BY DEF ServerRefuses
<1>5. PICK a \in Structures, b \in Structures : a = op /\ b = NumDevices(0)
  BY DEF Structures, Refusals
<1>6. /\ toClient' \in Seq(Structures) /\ toClient'[1] = op
      /\ Len(toClient') > 1 => toClient'[2] = NumDevices(0)
  <2>1. CASE rest = << >>
    <3>1. <<a>> \o << >> = <<a>>
      OBVIOUS
    <3> QED
      BY <1>3, <1>5, <2>1, <3>1
  <2>2. CASE rest = <<NumDevices(0)>>
    <3>1. /\ <<a>> \o <<b>> = <<a, b>> /\ <<a, b>> \in Seq(Structures) /\ <<a, b>>[1] = a
          /\ <<a, b>>[2] = b
      BY PairIs
    <3> QED
      BY <1>3, <1>5, <2>2, <3>1
  <2> QED
    BY <2>1, <2>2
<1>7. Refused'
  BY <1>6 DEF Refused
<1>8. pc \in {"listHeader", "importHeader"} => Reading'
  <2>1. Len(toServer') = 0
    BY <1>2
  <2>2. ASSUME pc = "listHeader" PROVE ListAsked'
    BY <1>2, <1>7, <2>1, <2>2 DEF StartInv, Reading, ListAsked, mainVars
  <2>3. ImportAsked'
    BY <1>7, <2>1 DEF ImportAsked
  <2> QED
    BY <1>2, <2>2, <2>3 DEF Reading, mainVars
<1>9. replied \in Exports \cup {<< >>} /\ imported \in DeviceInfo \cup {NoDevice}
  BY DEF StartInv, HandshakeTypeOK
<1> QED
  BY <1>1, <1>4, <1>6, <1>8, <1>9, AnsweredStep

LEMMA ServerReplugsStep ==
  ASSUME StartInv, ServerReplugs PROVE StartInv'
<1>1. exported' \in Exports /\ UNCHANGED <<mainVars, replied, imported, streamVars>>
  BY DEF ServerReplugs
<1>2. HandshakeTypeOK' /\ OneRequest' /\ ImportsFirstListed'
  BY <1>1 DEF StartInv, HandshakeTypeOK, OneRequest, ImportsFirstListed, mainVars, streamVars
<1>3. /\ Quiet' = Quiet /\ Imported' = Imported /\ ImportComes' = ImportComes
      /\ Refused' = Refused /\ Unread' = Unread
  BY <1>1 DEF Quiet, Imported, ImportComes, Refused, Unread, mainVars, streamVars
<1>4. ListAsked' = ListAsked /\ ListComes' = ListComes /\ ImportAsked' = ImportAsked
  BY <1>1, <1>3 DEF ListAsked, ListComes, ImportAsked, mainVars, streamVars
<1>5. Reading'
  BY <1>1, <1>3, <1>4 DEF StartInv, Reading, mainVars, streamVars
<1> QED
  BY <1>2, <1>5 DEF StartInv

(* What of either stream is not lost is as it was sent.                      *)
LEMMA ConnLostStep ==
  ASSUME StartInv, pc = "running" => toServer \in Seq(Token), ConnLost
  PROVE  StartInv' /\ (pc = "running" => toServer' \in Seq(Token))
<1>1. PICK j \in 0 .. Len(toServer), k \in 0 .. Len(toClient) :
        toServer' = SubSeq(toServer, 1, j) /\ toClient' = SubSeq(toClient, 1, k)
  BY DEF ConnLost
<1>2. connUp' = FALSE /\ UNCHANGED <<mainVars, peerVars>>
  BY DEF ConnLost
<1>3. toClient \in Seq(Structures) /\ (pc # "running" => toServer \in Seq(Asked))
  BY DEF StartInv, OneRequest
<1>4. /\ toClient' \in Seq(Structures) /\ Len(toClient') = k
      /\ \A i \in 1 .. k : toClient'[i] = toClient[i]
      /\ \A w : Starts(toClient, w) /\ Len(w) \in Nat => Starts(toClient', w)
  BY <1>1, <1>3, PartStarts
<1>5. /\ pc # "running" => toServer' \in Seq(Asked)
      /\ pc = "running" => toServer' \in Seq(Token)
      /\ Len(toServer') = j /\ \A i \in 1 .. j : toServer'[i] = toServer[i]
      /\ DOMAIN toServer' = 1 .. j /\ DOMAIN toServer = 1 .. Len(toServer)
      /\ Len(toServer) \in Nat
  <2>1. PICK X : toServer \in Seq(X) /\ X = IF pc = "running" THEN Token ELSE Asked
    BY <1>3
  <2>2. /\ toServer' \in Seq(X) /\ Len(toServer') = j /\ \A i \in 1 .. j : toServer'[i] = toServer[i]
    BY <1>1, <2>1, PartStarts
  <2>3. /\ DOMAIN toServer' = 1 .. Len(toServer') /\ DOMAIN toServer = 1 .. Len(toServer)
        /\ Len(toServer) \in Nat
    BY <2>1, <2>2
  <2> QED
    BY <2>1, <2>2, <2>3
<1>6. /\ (toClient = << >> => toClient' = << >>) /\ (toServer = << >> => toServer' = << >>)
      /\ (toClient' # << >> => k > 0 /\ toClient # << >>)
  <2>1. toClient = << >> => k = 0
    BY <1>1
  <2>2. toServer = << >> => j = 0
    BY <1>1
  <2>3. k = 0 => toClient' = << >>
    BY <1>4
  <2>4. j = 0 => toServer' = << >>
    <3>1. PICK X : toServer' \in Seq(X)
      BY <1>5
    <3> QED
      BY <1>5, <3>1
  <2>5. k \in Nat
    BY <1>1
  <2> QED
    BY <2>1, <2>2, <2>3, <2>4, <2>5
<1>7. HandshakeTypeOK'
  BY <1>2 DEF StartInv, HandshakeTypeOK, mainVars, peerVars
<1>8. OneRequest'
  <2>1. pc # "running" => Len(toServer') <= 1
    BY <1>1, <1>5 DEF StartInv, OneRequest
  <2> QED
    BY <1>2, <1>4, <1>5, <1>6, <2>1 DEF StartInv, OneRequest, mainVars
<1>9. ImportsFirstListed'
  <2>1. 1 .. j \subseteq 1 .. Len(toServer)
    BY <1>1, <1>5
  <2> QED
    BY <1>2, <1>5, <2>1 DEF StartInv, ImportsFirstListed, peerVars
<1>10. toClient' # << >> /\ Refused => Refused'
  <2>1. ASSUME toClient' # << >>, Refused PROVE Refused'
    <3>1. 1 \in 1 .. k /\ Len(toClient) \in Nat
      BY <1>1, <1>3, <1>6, <2>1
    <3>2. toClient'[1] \in Refusals
      BY <1>4, <2>1, <3>1 DEF Refused
    <3>3. ASSUME k > 1 PROVE toClient'[2] = NumDevices(0)
      <4>1. 2 \in 1 .. k /\ Len(toClient) > 1
        BY <1>1, <3>1, <3>3
      <4> QED
        BY <1>4, <2>1, <4>1 DEF Refused
    <3> QED
      BY <1>4, <3>2, <3>3 DEF Refused
  <2> QED
    BY <2>1
<1>11. replied \in Seq(DeviceInfo) /\ devices \in Seq(DeviceInfo)
  BY ExportsAreDevices DEF StartInv
<1>12. ListAsked => ListAsked'
  <2>1. Len(ListReply(replied)) \in Nat
    <3>1. ListReply(replied) \in Seq(Structures)
      BY <1>11, ListReplyType
    <3> QED
      BY <3>1
  <2>2. ASSUME ListAsked PROVE ListAsked'
    <3>1. \A i \in 1 .. Len(toServer') : toServer'[i] = ReqDevlist
      BY <1>1, <1>5, <2>2 DEF ListAsked
    <3>2. toClient' # << >> => Refused' \/ Starts(toClient', ListReply(replied))
      BY <1>4, <1>6, <1>10, <2>1, <2>2 DEF ListAsked
    <3> QED
      BY <1>2, <2>2, <3>1, <3>2 DEF ListAsked, mainVars, peerVars
  <2> QED
    BY <2>2
<1>13. ListComes => ListComes'
  <2>1. Len(Listings(Unread)) \in Nat
    <3>1. Unread \in Seq(DeviceInfo)
      BY <1>11, SubSeqIs DEF Unread
    <3>2. Listings(Unread) \in Seq(Structures)
      BY <3>1, ListingsType
    <3> QED
      BY <3>2
  <2>2. Unread' = Unread
    BY <1>2 DEF Unread, mainVars, peerVars
  <2> QED
    BY <1>2, <1>4, <1>6, <2>1, <2>2 DEF ListComes, mainVars, peerVars
<1>14. ImportAsked => ImportAsked'
  <2>1. ASSUME imported \in DeviceInfo PROVE Len(ImportReply(imported)) \in Nat
    BY DEF ImportReply
  <2>2. ASSUME ImportAsked PROVE ImportAsked'
    <3>1. \A i \in 1 .. Len(toServer') : toServer'[i].type = "REQ_IMPORT"
      BY <1>1, <1>5, <2>2 DEF ImportAsked
    <3>2. toClient' # << >> =>
            Refused' \/ (imported \in DeviceInfo /\ Starts(toClient', ImportReply(imported)))
      BY <1>4, <1>6, <1>10, <2>1, <2>2 DEF ImportAsked
    <3> QED
      BY <1>2, <3>1, <3>2 DEF ImportAsked, peerVars
  <2> QED
    BY <2>2
<1>15. ImportComes => ImportComes'
  <2>1. Len(<<WireDeviceInfo(imported)>>) \in Nat
    OBVIOUS
  <2> QED
    BY <1>2, <1>4, <1>6, <2>1 DEF ImportComes, peerVars
<1>16. (Quiet => Quiet') /\ (Imported => Imported')
  BY <1>2, <1>6 DEF Quiet, Imported, mainVars, peerVars
<1>17. Reading'
  BY <1>2, <1>6, <1>12, <1>13, <1>14, <1>15, <1>16 DEF StartInv, Reading, mainVars, peerVars
<1> QED
  BY <1>5, <1>7, <1>8, <1>9, <1>17 DEF StartInv

LEMMA HandshakeStep ==
  ASSUME StartInv, pc = "running" => toServer \in Seq(Token), HandshakeNext
  PROVE  StartInv' /\ (pc' = "running" => toServer' \in Seq(Token)) /\ (pc = "running" => pc' = pc)
<1>1. ASSUME pc # "running", StartInv', pc' # "running"
      PROVE  StartInv' /\ (pc' = "running" => toServer' \in Seq(Token)) /\ (pc = "running" => pc' = pc)
  BY <1>1
<1>2. CASE ListDevices
  BY <1>1, <1>2, ListDevicesStep DEF ListDevices, At, Request
<1>3. CASE ListHeader
  <2>1. pc # "running" /\ pc' # "running"
    BY <1>3 DEF ListHeader, At
  <2> QED
    BY <1>1, <1>3, <2>1, ListHeaderStep
<1>4. CASE ListDevice
  <2>1. pc # "running" /\ pc' # "running"
    BY <1>4 DEF ListDevice, At
  <2> QED
    BY <1>1, <1>4, <2>1, ListDeviceStep
<1>5. CASE ImportDevice
  <2>1. pc # "running" /\ pc' # "running"
    BY <1>5 DEF ImportDevice, At, Request
  <2> QED
    BY <1>1, <1>5, <2>1, ImportDeviceStep
<1>6. CASE ImportHeader
  <2>1. pc # "running" /\ pc' # "running"
    BY <1>6 DEF ImportHeader, At
  <2> QED
    BY <1>1, <1>6, <2>1, ImportHeaderStep
<1>7. CASE ImportInfo
  <2>1. pc # "running" /\ pc' # "running"
    BY <1>7 DEF ImportInfo, At
  <2> QED
    BY <1>1, <1>7, <2>1, ImportInfoStep
<1>8. CASE StartGadget
  <2>1. pc # "running"
    BY <1>8 DEF StartGadget, At
  <2>2. << >> \in Seq(Token)
    OBVIOUS
  <2> QED
    BY <1>8, <2>1, <2>2, StartGadgetStep
<1>9. CASE ConnectionFails
  <2>1. pc # "running" /\ pc' # "running"
    BY <1>9 DEF ConnectionFails, Structure
  <2> QED
    BY <1>1, <1>9, <2>1, ConnectionFailsStep
<1>10. CASE Server
  <2>1. \E type \in {"REQ_DEVLIST", "REQ_IMPORT"} : Serve(type)
    BY <1>10 DEF Server, ServerLists, ServerExports, ServerRefuses
  <2>2. pc # "running" /\ UNCHANGED mainVars
    BY <2>1, ServeStep
  <2>3. StartInv'
    BY <1>10, ServerListsStep, ServerExportsStep, ServerRefusesStep DEF Server
  <2> QED
    BY <1>1, <2>2, <2>3 DEF mainVars
<1>11. CASE ServerReplugs
  <2>1. UNCHANGED <<mainVars, streamVars>>
    BY <1>11 DEF ServerReplugs
  <2> QED
    BY <1>11, <2>1, ServerReplugsStep DEF mainVars, streamVars
<1>12. CASE ConnLost
  <2>1. UNCHANGED mainVars
    BY <1>12 DEF ConnLost
  <2> QED
    BY <1>12, <2>1, ConnLostStep DEF mainVars
<1> QED
  BY <1>2, <1>3, <1>4, <1>5, <1>6, <1>7, <1>8, <1>9, <1>10, <1>11, <1>12
     DEF HandshakeNext, MainStep

-----------------------------------------------------------------------------
(* The commands: types, and no command before the event loop.                *)

LEMMA SessionInit == Init => SessionInv
<1> SUFFICES ASSUME Init PROVE SessionInv
  OBVIOUS
<1>1. /\ pc = "start" /\ numLeft = 0 /\ devices = << >> /\ dev = NoDevice /\ speed = 0
      /\ connUp = FALSE /\ toServer = << >> /\ toClient = << >>
      /\ exported \in Exports /\ replied = << >> /\ imported = NoDevice
      /\ sent = << >> /\ taken = << >> /\ decoded = << >>
      /\ writing = [t \in Callers |-> << >>]
  BY DEF Init, HandshakeInit
<1>2. HandshakeTypeOK
  <2>1. << >> \in Seq(DeviceInfo)
    OBVIOUS
  <2> QED
    <3>1. dev \in DeviceInfo \cup {NoDevice} /\ imported \in DeviceInfo \cup {NoDevice}
      BY <1>1
    <3>2. exported \in Exports /\ replied \in Exports \cup {<< >>} /\ devices \in Seq(DeviceInfo)
      BY <1>1, <2>1
    <3>3. numLeft \in Nat /\ speed \in 0 .. 6
      BY <1>1
    <3>4. connUp \in BOOLEAN
      BY <1>1, Zenon
    <3> QED
      BY <1>1, <3>1, <3>2, <3>3, <3>4 DEF HandshakeTypeOK
<1>3. OneRequest
  <2>1. << >> \in Seq(Structures) /\ << >> \in Seq(Asked)
    OBVIOUS
  <2> QED
    BY <1>1, <2>1 DEF OneRequest
<1>4. Reading
  BY <1>1 DEF Reading, Quiet
<1>5. ImportsFirstListed
  <2>1. DOMAIN toServer = {}
    BY <1>1
  <2> QED
    BY <2>1 DEF ImportsFirstListed
<1>6. StreamTypeOK
  <2>1. << >> \in Seq(Token) /\ << >> \in Seq(Seq(Token)) /\ Len(<< >>) = 0
    OBVIOUS
  <2>2. writing \in [Callers -> Seq(Seq(Token))]
    BY <1>1, <2>1
  <2> QED
    BY <1>1, <1>2, <2>1, <2>2, StreamAssumption DEF StreamTypeOK
<1>7. CommandInv
  BY <1>1 DEF CommandInv, NothingSent
<1> QED
  BY <1>2, <1>3, <1>4, <1>5, <1>6, <1>7 DEF SessionInv, StartInv

(* The transfers of a thread and the command it makes of one (main.rs:60).   *)
LEMMA TransferIs ==
  ASSUME NEW t, NEW x \in Transfers(t)
  PROVE  x.out \in BOOLEAN /\ x.len \in Nat /\ x.data \in Nat
<1>1. ASSUME NEW n \in Lengths \cup DataStages PROVE n \in Nat /\ Stage(n) \in Nat
  BY StreamAssumption DEF Stage
<1>2. \E n \in Lengths \cup DataStages : x \in {ControlIn(n), ControlOut(n), EpIn(n), EpOut(n)}
  BY DEF Transfers
<1>3. PICK n \in Lengths \cup DataStages : x \in {ControlIn(n), ControlOut(n), EpIn(n), EpOut(n)}
  BY <1>2
<1>4. n \in Nat /\ Stage(n) \in Nat
  BY <1>1
<1>5. \E out \in BOOLEAN, len \in Nat, data \in Nat : x = Transfer(out, len, data)
  <2>1. CASE x = ControlIn(n)
    BY <1>4, <2>1 DEF ControlIn
  <2>2. CASE x = ControlOut(n)
    BY <1>4, <2>2 DEF ControlOut
  <2>3. CASE x = EpIn(n)
    BY <1>4, <2>3 DEF EpIn
  <2>4. CASE x = EpOut(n)
    BY <1>4, <2>4 DEF EpOut
  <2> QED
    BY <1>3, <2>1, <2>2, <2>3, <2>4
<1> QED
  BY <1>5 DEF Transfer

Command(seq, x) ==
  <<CmdSubmitHeader(seq, dev.devid, x.out, x.len)>> \o [i \in 1 .. x.data |-> Unit(seq)]

LEMMA CommandIs ==
  ASSUME NEW t, NEW x \in Transfers(t), NEW seq \in 1 .. MaxCmds, dev \in DeviceInfo
  PROVE  /\ <<CmdSubmitHeader(seq, dev.devid, x.out, x.len)>> \in Seq(Token)
         /\ [i \in 1 .. x.data |-> Unit(seq)] \in Seq(Token)
         /\ Command(seq, x) \in Seq(Token) /\ Len(Command(seq, x)) = 1 + x.data
         /\ Command(seq, x)[1] = CmdSubmitHeader(seq, dev.devid, x.out, x.len)
<1>1. x.out \in BOOLEAN /\ x.len \in Nat /\ x.data \in Nat
  BY TransferIs
<1>2. dev.devid \in Nat
  BY DEF DeviceInfo
<1>3. PICK h \in Token : h = CmdSubmitHeader(seq, dev.devid, x.out, x.len)
  BY <1>1, <1>2 DEF CmdSubmitHeader, Token
<1>4. Unit(seq) \in Token
  BY DEF Unit, Token
<1>5. PICK data \in Seq(Token) : data = [i \in 1 .. x.data |-> Unit(seq)] /\ Len(data) = x.data
  <2> DEFINE units == [i \in 1 .. x.data |-> Unit(seq)]
  <2>1. units \in Seq(Token) /\ Len(units) = x.data
    BY <1>1, <1>4
  <2> QED
    BY <2>1
<1>6. /\ <<h>> \in Seq(Token) /\ <<h>> \o data \in Seq(Token) /\ (<<h>> \o data)[1] = h
      /\ Len(<<h>> \o data) = 1 + Len(data)
  OBVIOUS
<1> QED
  BY <1>3, <1>5, <1>6 DEF Command

LEMMA RunningStep ==
  ASSUME SessionInv, Running, toServer' \in Seq(Token)
  PROVE  StartInv' /\ CommandInv' /\ pc' = "running"
<1>1. /\ pc = "running" /\ UNCHANGED <<mainVars, peerVars, connUp, toClient>>
  BY DEF Running
<1>2. HandshakeTypeOK'
  BY <1>1 DEF SessionInv, StartInv, HandshakeTypeOK, mainVars, peerVars
<1>3. OneRequest'
  BY <1>1 DEF SessionInv, StartInv, OneRequest, mainVars
<1>4. Reading'
  BY <1>1 DEF SessionInv, StartInv, Reading, Imported, mainVars, peerVars
<1>5. ImportsFirstListed'
  <2>1. \A tok \in Token : tok.type # "REQ_IMPORT"
    BY DEF Token
  <2>2. \A i \in DOMAIN toServer' : toServer'[i] \in Token
    OBVIOUS
  <2> QED
    BY <2>1, <2>2 DEF ImportsFirstListed
<1>6. CommandInv'
  BY <1>1 DEF CommandInv, mainVars
<1> QED
  BY <1>1, <1>2, <1>3, <1>4, <1>5, <1>6 DEF StartInv, mainVars

LEMMA SessionTypes ==
  ASSUME SessionInv
  PROVE  /\ writing \in [Callers -> Seq(Seq(Token))] /\ sent \in Seq(Seq(Token))
         /\ Len(sent) \in Nat /\ Len(sent) <= MaxCmds /\ taken \in Seq(Token)
         /\ decoded \in Seq(Seq(Token)) /\ Len(decoded) \in Nat
         /\ pc = "running" => toServer \in Seq(Token) /\ dev \in DeviceInfo
         /\ pc # "running" => NothingSent
<1>1. /\ writing \in [Callers -> Seq(Seq(Token))] /\ sent \in Seq(Seq(Token))
      /\ Len(sent) <= MaxCmds /\ taken \in Seq(Token) /\ decoded \in Seq(Seq(Token))
  BY DEF SessionInv, StreamTypeOK
<1>2. Len(sent) \in Nat /\ Len(decoded) \in Nat
  BY <1>1
<1> QED
  BY <1>1, <1>2 DEF SessionInv, CommandInv, StartInv, Reading, Imported

LEMMA SubmitIs ==
  ASSUME SessionInv, NEW t \in Callers, Submit(t)
  PROVE  \E x \in Transfers(t), h \in Seq(Token), data \in Seq(Token), c \in Seq(Token) :
           /\ c = h \o data /\ Len(c) = 1 + x.data
           /\ c[1] = CmdSubmitHeader(Len(sent) + 1, dev.devid, x.out, x.len)
           /\ sent' = Append(sent, c) /\ writing' = [writing EXCEPT ![t] = <<h, data>>]
<1>1. /\ pc = "running" /\ Len(sent) < MaxCmds /\ Len(sent) \in Nat /\ dev \in DeviceInfo
  BY SessionTypes DEF Submit, Running
<1>2. PICK seq \in 1 .. MaxCmds : seq = Len(sent) + 1
  BY <1>1, StreamAssumption
<1>3. PICK x \in Transfers(t) :
        /\ sent' = Append(sent, Command(seq, x))
        /\ writing' = [writing EXCEPT ![t] = <<<<CmdSubmitHeader(seq, dev.devid, x.out, x.len)>>,
                                               [i \in 1 .. x.data |-> Unit(seq)]>>]
  BY <1>2 DEF Submit, Command
<1>4. PICK h \in Seq(Token), data \in Seq(Token), c \in Seq(Token) :
        /\ h = <<CmdSubmitHeader(seq, dev.devid, x.out, x.len)>>
        /\ data = [i \in 1 .. x.data |-> Unit(seq)] /\ c = Command(seq, x)
        /\ c = h \o data /\ Len(c) = 1 + x.data
        /\ c[1] = CmdSubmitHeader(seq, dev.devid, x.out, x.len)
  BY <1>1, CommandIs DEF Command
<1> QED
  BY <1>2, <1>3, <1>4

LEMMA SubmitStep ==
  ASSUME SessionInv, NEW t \in Callers, Submit(t) PROVE SessionInv'
<1>1. /\ Running /\ Len(sent) < MaxCmds /\ UNCHANGED <<toServer, taken, decoded>>
  BY DEF Submit
<1>2. PICK x \in Transfers(t), h \in Seq(Token), data \in Seq(Token), c \in Seq(Token) :
        sent' = Append(sent, c) /\ writing' = [writing EXCEPT ![t] = <<h, data>>]
  BY SubmitIs
<1>3. StartInv' /\ CommandInv'
  BY <1>1, RunningStep, SessionTypes DEF Running
<1>4. sent' \in Seq(Seq(Token)) /\ Len(sent') <= MaxCmds
  <2>1. /\ Append(sent, c) \in Seq(Seq(Token)) /\ Len(Append(sent, c)) = Len(sent) + 1
        /\ Len(sent) \in Nat
    BY SessionTypes, AppendProperties
  <2> QED
    BY <1>1, <1>2, <2>1, StreamAssumption
<1>5. writing' \in [Callers -> Seq(Seq(Token))]
  <2>1. <<h, data>> \in Seq(Seq(Token))
    BY PairIs
  <2> QED
    BY <1>2, <2>1, SessionTypes
<1>6. StreamTypeOK'
  BY <1>1, <1>3, <1>4, <1>5, SessionTypes DEF StreamTypeOK, StartInv
<1> QED
  BY <1>3, <1>6 DEF SessionInv

LEMMA WriteStep ==
  ASSUME SessionInv, NEW t \in Callers, Write(t) PROVE SessionInv'
<1>1. Running /\ writing[t] # << >> /\ UNCHANGED <<sent, taken, decoded>>
  BY DEF Write
<1>2. PICK w \in Seq(Seq(Token)) :
        /\ w = writing[t] /\ w # << >> /\ Head(w) \in Seq(Token) /\ Tail(w) \in Seq(Seq(Token))
  <2>1. writing[t] \in Seq(Seq(Token))
    BY SessionTypes
  <2> QED
    BY <1>1, <2>1
<1>3. toServer \in Seq(Token)
  BY <1>1, SessionTypes DEF Running
<1>4. /\ toServer' \in Seq(Token) /\ writing' \in [Callers -> Seq(Seq(Token))]
  <2>1. CASE connUp
    <3>1. PICK u \in Seq(Token), v \in Seq(Token) : u = toServer /\ v = Head(w)
      BY <1>2, <1>3
    <3>2. u \o v \in Seq(Token)
      OBVIOUS
    <3>3. toServer' = u \o v /\ writing' = [writing EXCEPT ![t] = Tail(w)]
      BY <1>2, <2>1, <3>1 DEF Write
    <3> QED
      BY <1>2, <3>2, <3>3, SessionTypes
  <2>2. CASE ~connUp
    <3>1. toServer' = toServer /\ writing' = [writing EXCEPT ![t] = << >>]
      BY <2>2 DEF Write
    <3>2. << >> \in Seq(Seq(Token))
      OBVIOUS
    <3> QED
      BY <1>3, <3>1, <3>2, SessionTypes
  <2> QED
    BY <2>1, <2>2
<1>5. StartInv' /\ CommandInv'
  BY <1>1, <1>4, RunningStep
<1>6. StreamTypeOK'
  BY <1>1, <1>4, <1>5, SessionTypes DEF StreamTypeOK, StartInv
<1> QED
  BY <1>5, <1>6 DEF SessionInv

LEMMA ServerTakesStep ==
  ASSUME SessionInv, ServerTakes PROVE SessionInv'
<1>1. Running /\ toServer # << >> /\ toServer' = Tail(toServer) /\ UNCHANGED <<writing, sent>>
  BY DEF ServerTakes
<1>2. PICK u \in Seq(Token) : u = toServer /\ Head(u) \in Token /\ Tail(u) \in Seq(Token)
  <2>1. toServer \in Seq(Token)
    BY <1>1, SessionTypes DEF Running
  <2> QED
    BY <1>1, <2>1
<1>3. PICK part \in Seq(Token) :
        /\ part = Append(taken, Head(toServer))
        /\ \/ decoded' = Append(decoded, part) /\ taken' = << >>
           \/ taken' = part /\ decoded' = decoded
  <2>1. Append(taken, Head(u)) \in Seq(Token)
    BY <1>2, SessionTypes, AppendProperties
  <2> QED
    BY <1>2, <2>1 DEF ServerTakes
<1>4. taken' \in Seq(Token) /\ decoded' \in Seq(Seq(Token))
  <2>1. << >> \in Seq(Token)
    OBVIOUS
  <2>2. Append(decoded, part) \in Seq(Seq(Token))
    BY SessionTypes, AppendProperties
  <2> QED
    BY <1>3, <2>1, <2>2, SessionTypes
<1>5. StartInv' /\ CommandInv'
  BY <1>1, <1>2, RunningStep
<1>6. StreamTypeOK'
  BY <1>1, <1>4, <1>5, SessionTypes DEF StreamTypeOK, StartInv
<1> QED
  BY <1>5, <1>6 DEF SessionInv

LEMMA SessionNext == SessionInv /\ [Next]_vars => SessionInv'
<1> SUFFICES ASSUME SessionInv, [Next]_vars PROVE SessionInv'
  OBVIOUS
<1>1. CASE HandshakeNext /\ UNCHANGED cmdVars
  <2>1. pc = "running" => toServer \in Seq(Token)
    BY SessionTypes
  <2>2. StartInv' /\ (pc' = "running" => toServer' \in Seq(Token)) /\ (pc = "running" => pc' = pc)
    BY <1>1, <2>1, HandshakeStep DEF SessionInv
  <2>3. CommandInv'
    BY <1>1, <2>2 DEF SessionInv, CommandInv, NothingSent, cmdVars
  <2>4. StreamTypeOK'
    BY <1>1, <2>2 DEF SessionInv, StartInv, StreamTypeOK, cmdVars
  <2> QED
    BY <2>2, <2>3, <2>4 DEF SessionInv
<1>2. ASSUME NEW t \in Callers, Submit(t) PROVE SessionInv'
  BY <1>2, SubmitStep
<1>3. ASSUME NEW t \in Callers, Write(t) PROVE SessionInv'
  BY <1>3, WriteStep
<1>4. CASE ServerTakes
  BY <1>4, ServerTakesStep
<1>5. CASE UNCHANGED vars
  <2>1. /\ UNCHANGED <<pc, numLeft, devices, dev, speed, exported, replied, imported>>
        /\ UNCHANGED <<connUp, toServer, toClient, writing, sent, taken, decoded>>
    BY <1>5 DEF vars, hsVars, mainVars, peerVars, streamVars, cmdVars
  <2>2. StartInv'
    BY <2>1 DEF SessionInv, StartInv, HandshakeTypeOK, OneRequest, ImportsFirstListed, Reading,
                Quiet, ListAsked, ListComes, ImportAsked, ImportComes, Imported, Refused, Unread
  <2> QED
    BY <2>1, <2>2 DEF SessionInv, StartInv, StreamTypeOK, CommandInv, NothingSent
<1> QED
  BY <1>1, <1>2, <1>3, <1>4, <1>5 DEF Next, StreamStep
THEOREM SessionIsInvariant == Spec => []SessionInv
<1>1. Init => SessionInv
  BY SessionInit
<1>2. SessionInv /\ [Next]_vars => SessionInv'
  BY SessionNext
<1> QED
  BY <1>1, <1>2, PTL DEF Spec

-----------------------------------------------------------------------------
(* The variables keep their types, the streams of both phases included: no   *)
(* structure of start-up is on the connection the commands are written to    *)
(* (client.rs:108-116, main.rs:277-284).                                     *)
THEOREM SessionTypeCorrect == Spec => []StreamTypeOK
<1>1. SessionInv => StreamTypeOK
  BY DEF SessionInv
<1> QED
  BY <1>1, SessionIsInvariant, PTL

LEMMA ReadsItsStructure == SessionInv => InStep
<1> SUFFICES ASSUME SessionInv, toClient # << >>, pc # "failed"
             PROVE  pc \in DOMAIN Structure /\ Head(toClient).type = Structure[pc]
  BY DEF InStep
<1>1. toClient \in Seq(Structures) /\ Reading /\ HandshakeTypeOK
  BY DEF SessionInv, StartInv, OneRequest
<1>2. Head(toClient) = toClient[1] /\ Len(toClient) \in Nat /\ 1 \in 1 .. Len(toClient)
  BY <1>1
<1>3. pc \in {"listHeader", "listDevice", "importHeader", "importDevice"}
  BY <1>1 DEF Reading, Quiet, HandshakeTypeOK
<1>4. ASSUME Refused PROVE Head(toClient).type = "op"
  BY <1>2, <1>4 DEF Refused, Refusals, OpHeader
<1>5. replied \in Seq(DeviceInfo) /\ devices \in Seq(DeviceInfo)
  BY <1>1, ExportsAreDevices
<1>6. CASE pc = "listHeader"
  <2>1. ASSUME Starts(toClient, ListReply(replied)) PROVE toClient[1] = OpHeader("REP_DEVLIST", 0)
    <3>1. PICK w \in Seq(Structures) : w = Listings(replied)
      BY <1>5, ListingsType
    <3>2. PICK a \in Structures, b \in Structures :
            a = OpHeader("REP_DEVLIST", 0) /\ b = NumDevices(Len(replied))
      BY <1>5 DEF Structures
    <3>3. (<<a, b>> \o w)[1] = a
      OBVIOUS
    <3> QED
      BY <1>2, <2>1, <3>1, <3>2, <3>3 DEF Starts, ListReply
  <2>2. Refused \/ Starts(toClient, ListReply(replied))
    BY <1>1, <1>6 DEF Reading, ListAsked
  <2>3. Head(toClient).type = "op"
    BY <1>2, <1>4, <2>1, <2>2 DEF OpHeader
  <2> QED
    BY <1>6, <2>3 DEF Structure
<1>7. CASE pc = "listDevice"
  <2>1. ListComes
    BY <1>1, <1>7 DEF Reading
  <2>2. Unread \in Seq(DeviceInfo) /\ Unread # << >>
    <3>1. Len(devices) \in Nat /\ Len(replied) \in Nat /\ Len(replied) > Len(devices)
      BY <1>1, <1>5, <2>1 DEF ListComes, HandshakeTypeOK
    <3>2. PICK n \in Nat \ {0} : n = Len(devices) + 1 /\ n <= Len(replied)
      BY <3>1
    <3>3. SubSeq(replied, n, Len(replied)) \in Seq(DeviceInfo)
      BY <1>5, SubSeqIs
    <3>4. Len(SubSeq(replied, n, Len(replied))) = Len(replied) - n + 1
      BY <1>5, <3>1, <3>2
    <3>5. PICK u \in Seq(DeviceInfo) : u = SubSeq(replied, n, Len(replied))
      BY <3>3
    <3>6. u # << >>
      <4>1. Len(u) = Len(replied) - n + 1
        BY <3>4, <3>5
      <4>2. Len(u) # 0
        BY <3>1, <3>2, <4>1
      <4>3. Len(<< >>) = 0
        OBVIOUS
      <4> QED
        BY <4>2, <4>3, Zenon
    <3> QED
      BY <3>2, <3>5, <3>6 DEF Unread
  <2>3. PICK d \in DeviceInfo : d = Unread[1]
    BY <2>2
  <2>4. PICK w \in Seq(Structures) : w = Listings(Tail(Unread))
    <3>1. Tail(Unread) \in Seq(DeviceInfo)
      BY <2>2
    <3> QED
      BY <3>1, ListingsType
  <2>5. PICK v \in Seq(Structures) : v = Listing(d) /\ Len(v) \in Nat \ {0} /\ v[1] = WireDeviceInfo(d)
    BY ListingIs
  <2>6. Listings(Unread) = v \o w
    BY <2>2, <2>3, <2>4, <2>5, ListingsFirst
  <2>7. (v \o w)[1] = v[1]
    BY <2>5
  <2>8. toClient[1] = WireDeviceInfo(d)
    BY <1>2, <2>1, <2>5, <2>6, <2>7 DEF ListComes, Starts
  <2>9. Head(toClient).type = "dev"
    BY <1>2, <2>8 DEF WireDeviceInfo
  <2> QED
    BY <1>7, <2>9 DEF Structure
<1>8. CASE pc = "importHeader"
  <2>1. ASSUME imported \in DeviceInfo, Starts(toClient, ImportReply(imported))
        PROVE  toClient[1] = OpHeader("REP_IMPORT", 0)
    BY <1>2, <2>1 DEF Starts, ImportReply
  <2>2. Head(toClient).type = "op"
    BY <1>1, <1>2, <1>4, <1>8, <2>1 DEF Reading, ImportAsked, OpHeader
  <2> QED
    BY <1>8, <2>2 DEF Structure
<1>9. CASE pc = "importDevice"
  <2>1. Starts(toClient, <<WireDeviceInfo(imported)>>)
    BY <1>1, <1>9 DEF Reading, ImportComes
  <2>2. toClient[1] = WireDeviceInfo(imported)
    BY <1>2, <2>1 DEF Starts
  <2>3. Head(toClient).type = "dev"
    BY <1>2, <2>2 DEF WireDeviceInfo
  <2> QED
    BY <1>9, <2>3 DEF Structure
<1> QED
  BY <1>3, <1>6, <1>7, <1>8, <1>9

(* Whatever the server exports, how many interfaces its devices have, and    *)
(* wherever the connection is lost, list_devices and import_device read each *)
(* structure where it is (client.rs:27-57, 87-106) and leave none behind for *)
(* the reader of the URB answers.                                            *)
THEOREM StaysInStep == Spec => []InStep
<1>1. SessionInv => InStep
  BY ReadsItsStructure
<1> QED
  BY <1>1, SessionIsInvariant, PTL

(* The bus id asked for is that of the first device of the list, whole when  *)
(* it leaves room for a NUL in its field (client.rs:81, main.rs:262-277).    *)
THEOREM FirstListedIsAskedFor == Spec => []ImportsFirstListed
<1>1. SessionInv => ImportsFirstListed
  BY DEF SessionInv, StartInv
<1> QED
  BY <1>1, SessionIsInvariant, PTL

(* The gadget runs with the device information of the import, also when what *)
(* is plugged in at that bus id has changed since it was listed              *)
(* (main.rs:277, 295).                                                       *)
THEOREM ImportedIsPlayed == Spec => []PlaysImported
<1>1. SessionInv => PlaysImported
  <2> SUFFICES ASSUME SessionInv, pc = "running"
               PROVE  dev = imported /\ speed = IF imported.speed <= 6 THEN imported.speed ELSE 0
    BY DEF PlaysImported
  <2>1. imported \in DeviceInfo /\ dev = imported /\ speed = map_speed(imported.speed)
    BY DEF SessionInv, StartInv, Reading, Imported
  <2>2. imported.speed \in Nat
    BY <2>1 DEF DeviceInfo
  <2>3. map_speed(imported.speed) = IF imported.speed <= 6 THEN imported.speed ELSE 0
    BY <2>2 DEF map_speed
  <2> QED
    BY <2>1, <2>3
<1> QED
  BY <1>1, SessionIsInvariant, PTL
-----------------------------------------------------------------------------
(* No read of start-up waits in vain: what a living connection carries is    *)
(* not only the beginning of a reply but all that is left of it.             *)
Whole ==
  connUp /\ toServer = << >> =>
    /\ pc = "listHeader"   => toClient = ListReply(replied)
    /\ pc = "listDevice"   => toClient = Listings(Unread)
    /\ pc = "importHeader" => toClient = ImportReply(imported)
    /\ pc = "importDevice" => toClient = <<WireDeviceInfo(imported)>>

(* What is left of v followed by w once v is read.                           *)
LEMMA RestIsLast ==
  ASSUME NEW X, NEW v \in Seq(X), NEW w \in Seq(X)
  PROVE  SubSeq(v \o w, Len(v) + 1, Len(v \o w)) = w
<1>1. PICK s \in Seq(X) : s = v \o w
  <2>1. v \o w \in Seq(X)
    OBVIOUS
  <2> QED
    BY <2>1
<1>2. /\ Len(s) = Len(v) + Len(w) /\ Len(v) \in Nat /\ Len(w) \in Nat
      /\ \A i \in 1 .. Len(w) : s[Len(v) + i] = w[i]
  BY <1>1
<1>3. PICK r \in Seq(X) : r = SubSeq(s, Len(v) + 1, Len(s))
  BY <1>2, SubSeqIs
<1>4. Len(r) = Len(w) /\ \A i \in 1 .. Len(r) : r[i] = s[Len(v) + i]
  BY <1>2, <1>3
<1>5. r = w
  BY <1>2, <1>4, SeqEqual
<1> QED
  BY <1>1, <1>3, <1>5

(* What list_devices has still to read begins with the next device, with its *)
(* interfaces (client.rs:48-54).                                             *)
LEMMA NextListed ==
  ASSUME StartInv, ListComes
  PROVE  \E d \in DeviceInfo, v \in Seq(Structures), w \in Seq(Structures) :
           /\ v = Listing(d) /\ Len(v) = DeviceSize(d) /\ v[1] = WireDeviceInfo(d)
           /\ DeviceSize(d) \in Nat \ {0}
           /\ w = Listings(SubSeq(replied, Len(devices) + 2, Len(replied)))
           /\ Listings(Unread) = v \o w
<1>1. /\ replied \in Seq(DeviceInfo) /\ Len(replied) \in Nat /\ Len(devices) \in Nat
      /\ Len(devices) < Len(replied)
  BY ExportsAreDevices DEF StartInv, HandshakeTypeOK, ListComes
<1>2. PICK n \in 1 .. Len(replied) : n = Len(devices) + 1
  BY <1>1
<1>3. PICK u : u = SubSeq(replied, n, Len(replied))
  OBVIOUS
<1>4. Head(u) = replied[n] /\ Tail(u) = SubSeq(replied, n + 1, Len(replied))
  BY <1>1, <1>3, HeadTailOfSubSeq
<1>5. u \in Seq(DeviceInfo) /\ u # << >>
  <2>1. \A i \in n .. Len(replied) : replied[i] \in DeviceInfo
    BY <1>1
  <2>2. u \in Seq(DeviceInfo) /\ Len(u) = Len(replied) - n + 1
    BY <1>1, <1>3, <2>1, SubSeqProperties
  <2> QED
    BY <1>1, <2>2
<1>6. u[1] \in DeviceInfo /\ Tail(u) \in Seq(DeviceInfo)
  BY <1>5
<1>7. PICK v \in Seq(Structures) :
        /\ v = Listing(u[1]) /\ Len(v) = DeviceSize(u[1]) /\ v[1] = WireDeviceInfo(u[1])
        /\ DeviceSize(u[1]) \in Nat \ {0}
  BY <1>6, ListingIs
<1>8. PICK w \in Seq(Structures) : w = Listings(Tail(u))
  BY <1>6, ListingsType
<1>9. Listings(u) = v \o w
  BY <1>5, <1>7, <1>8, ListingsFirst
<1>10. Unread = u /\ n + 1 = Len(devices) + 2
  BY <1>1, <1>2, <1>3 DEF Unread
<1> QED
  BY <1>4, <1>6, <1>7, <1>8, <1>9, <1>10

(* The head of a list is read and leaves the devices (client.rs:27).         *)
LEMMA ListHeaderWhole ==
  ASSUME StartInv, ListHeader, toClient = ListReply(replied), pc' = "listDevice"
  PROVE  toClient' = Listings(Unread)'
<1>1. /\ pc = "listHeader" /\ devices = << >> /\ devices' = devices /\ replied' = replied
      /\ Receive(2) /\ pc # "running" /\ pc' # "running"
  BY DEF StartInv, Reading, ListAsked, ListHeader, At, peerVars
<1>2. toClient' = SubSeq(toClient, 2 + 1, Len(toClient))
  BY <1>1, ReceiveStep
<1>3. toClient = ListReply(replied)
  OBVIOUS
<1>4. replied \in Seq(DeviceInfo) /\ Len(replied) \in Nat
  BY ExportsAreDevices DEF StartInv
<1>5. PICK w \in Seq(Structures) : w = Listings(replied)
  BY <1>4, ListingsType
<1>6. PICK v \in Seq(Structures) :
        v = <<OpHeader("REP_DEVLIST", 0), NumDevices(Len(replied))>> /\ Len(v) = 2
  <2>1. PICK a \in Structures, b \in Structures :
          a = OpHeader("REP_DEVLIST", 0) /\ b = NumDevices(Len(replied))
    BY <1>4 DEF Structures
  <2>2. <<a, b>> \in Seq(Structures) /\ Len(<<a, b>>) = 2
    OBVIOUS
  <2> QED
    BY <2>1, <2>2
<1>7. toClient' = w
  <2>1. toClient = v \o w
    BY <1>3, <1>5, <1>6 DEF ListReply
  <2> QED
    BY <1>2, <1>6, <2>1, RestIsLast
<1>8. Unread' = replied
  <2>1. SubSeq(replied, 1, Len(replied)) = replied
    BY <1>4, SubSeqFull
  <2>2. Len(devices) + 1 = 1
    BY <1>1
  <2> QED
    BY <1>1, <2>1, <2>2 DEF Unread
<1> QED
  BY <1>5, <1>7, <1>8

(* A device is read with its interfaces and leaves the next (client.rs:48).  *)
LEMMA ListDeviceWhole ==
  ASSUME StartInv, ListDevice, toClient = Listings(Unread), pc' = "listDevice"
  PROVE  toClient' = Listings(Unread)'
<1>1. /\ pc = "listDevice" /\ ListComes /\ toClient # << >> /\ replied' = replied
      /\ Receive(DeviceSize(Head(toClient).dev)) /\ devices' = Append(devices, Head(toClient).dev)
  BY DEF StartInv, Reading, ListDevice, At, peerVars
<1>2. toClient = Listings(Unread)
  OBVIOUS
<1>3. PICK d \in DeviceInfo, v \in Seq(Structures), w \in Seq(Structures) :
           /\ v = Listing(d) /\ Len(v) = DeviceSize(d) /\ v[1] = WireDeviceInfo(d)
           /\ DeviceSize(d) \in Nat \ {0}
           /\ w = Listings(SubSeq(replied, Len(devices) + 2, Len(replied)))
           /\ Listings(Unread) = v \o w
  BY <1>1, NextListed
<1>4. Head(toClient).dev = d
  <2>1. (v \o w)[1] = v[1] /\ v \o w # << >> /\ v \o w \in Seq(Structures)
    BY <1>3
  <2>2. Head(toClient) = WireDeviceInfo(d)
    BY <1>2, <1>3, <2>1
  <2> QED
    BY <2>2 DEF WireDeviceInfo
<1>5. toClient' = SubSeq(toClient, DeviceSize(d) + 1, Len(toClient))
  BY <1>1, <1>4 DEF Receive
<1>6. toClient' = w
  BY <1>2, <1>3, <1>5, RestIsLast
<1>7. Len(devices') + 1 = Len(devices) + 2
  <2>1. devices \in Seq(DeviceInfo) /\ devices' = Append(devices, d)
    BY <1>1, <1>4 DEF StartInv, HandshakeTypeOK
  <2>2. Len(devices') = Len(devices) + 1 /\ Len(devices) \in Nat
    BY <2>1
  <2> QED
    BY <2>2
<1> QED
  BY <1>1, <1>3, <1>6, <1>7 DEF Unread

(* The head of an import reply is read and leaves the device (client.rs:87). *)
LEMMA ImportHeaderWhole ==
  ASSUME StartInv, ImportHeader, toClient = ImportReply(imported), pc' = "importDevice"
  PROVE  toClient' = <<WireDeviceInfo(imported)>>'
<1>1. /\ pc = "importHeader" /\ imported' = imported /\ Receive(1)
      /\ pc # "running" /\ pc' # "running"
  BY DEF ImportHeader, At, peerVars
<1>2. /\ toClient' = SubSeq(toClient, 1 + 1, Len(toClient)) /\ toClient # << >>
      /\ toClient \in Seq(Structures)
  <2>1. /\ toClient' = SubSeq(toClient, 1 + 1, Len(toClient)) /\ Len(toClient) >= 1
        /\ toClient \in Seq(Structures)
    BY <1>1, ReceiveStep
  <2> QED
    BY <2>1
<1>3. toClient = ImportReply(imported)
  OBVIOUS
<1>4. imported \in DeviceInfo
  <2>1. Accepted("REP_IMPORT")
    BY DEF ImportHeader
  <2>2. ~Refused
    <3>1. Head(toClient) = toClient[1]
      BY <1>2
    <3> QED
      BY <2>1, <3>1, RefusedIsNot DEF Refused, Accepted
  <2> QED
    BY <1>1, <1>2, <2>2 DEF StartInv, Reading, ImportAsked
<1>5. PICK v \in Seq(Structures), w \in Seq(Structures) :
        v \o w = ImportReply(imported) /\ Len(v) = 1 /\ w = <<WireDeviceInfo(imported)>>
  BY <1>4, ImportReplyIs
<1>6. toClient' = w
  <2>1. toClient = v \o w
    BY <1>3, <1>5
  <2>2. SubSeq(v \o w, Len(v) + 1, Len(v \o w)) = w
    BY RestIsLast
  <2> QED
    BY <1>2, <1>5, <2>1, <2>2
<1> QED
  BY <1>1, <1>5, <1>6

LEMMA WholeStep == SessionInv /\ Whole /\ [Next]_vars => Whole'
<1> SUFFICES ASSUME SessionInv, Whole, [Next]_vars, connUp', toServer' = << >>
             PROVE  /\ pc' = "listHeader"   => toClient' = ListReply(replied)'
                    /\ pc' = "listDevice"   => toClient' = Listings(Unread)'
                    /\ pc' = "importHeader" => toClient' = ImportReply(imported)'
                    /\ pc' = "importDevice" => toClient' = <<WireDeviceInfo(imported)>>'
  BY DEF Whole
<1>1. StartInv /\ (pc = "running" => toServer \in Seq(Token))
  <2>1. pc = "running" => toServer \in Seq(Token)
    BY SessionTypes
  <2> QED
    BY <2>1 DEF SessionInv
<1>2. CASE ListHeader
  <2>1. pc' \in {"failed", "pick", "listDevice"}
    BY <1>2 DEF ListHeader
  <2>2. toClient = ListReply(replied)
    BY <1>2 DEF Whole, ListHeader, At, Receive
  <2> QED
    BY <1>1, <1>2, <2>1, <2>2, ListHeaderWhole
<1>3. CASE ListDevice
  <2>1. pc' \in {"pick", "listDevice"}
    BY <1>3 DEF ListDevice
  <2>2. toClient = Listings(Unread)
    BY <1>3 DEF Whole, ListDevice, At, Receive
  <2> QED
    BY <1>1, <1>3, <2>1, <2>2, ListDeviceWhole
<1>4. CASE ImportHeader
  <2>1. pc' \in {"failed", "importDevice"}
    BY <1>4 DEF ImportHeader
  <2>2. toClient = ImportReply(imported)
    BY <1>4 DEF Whole, ImportHeader, At, Receive
  <2> QED
    BY <1>1, <1>4, <2>1, <2>2, ImportHeaderWhole
<1>5. CASE ListDevices \/ ImportDevice
  <2>1. ASSUME NEW req, NEW then, Request(req, then) PROVE FALSE
    BY <2>1 DEF Request
  <2>2. pc' = "failed"
    BY <1>5, <2>1 DEF ListDevices, ImportDevice
  <2> QED
    BY <2>2
<1>6. CASE ImportInfo \/ StartGadget \/ ConnectionFails
  <2>1. pc' \in {"gadget", "running", "failed"}
    BY <1>6 DEF ImportInfo, StartGadget, ConnectionFails
  <2> QED
    BY <2>1
<1>7. CASE ServerLists
  <2>1. Serve("REQ_DEVLIST") /\ toClient' = ListReply(exported) /\ replied' = exported
    BY <1>7 DEF ServerLists, ListReply, Listings
  <2>2. toServer # << >> /\ toServer[1].type = "REQ_DEVLIST" /\ Len(toServer) = 1 /\ pc' = pc
    BY <1>1, <2>1, ServeStep DEF mainVars
  <2>3. ~(pc \in {"listDevice", "importDevice", "importHeader"})
    BY <1>1, <2>2 DEF StartInv, Reading, ListComes, ImportComes, ImportAsked
  <2> QED
    BY <2>1, <2>2, <2>3
<1>8. CASE ServerExports
  <2>1. Serve("REQ_IMPORT") /\ toClient' = ImportReply(imported)'
    BY <1>8 DEF ServerExports, ImportReply
  <2>2. toServer # << >> /\ toServer[1].type = "REQ_IMPORT" /\ Len(toServer) = 1 /\ pc' = pc
    BY <1>1, <2>1, ServeStep DEF mainVars
  <2>3. ~(pc \in {"listHeader", "listDevice", "importDevice"})
    BY <1>1, <2>2 DEF StartInv, Reading, ListComes, ImportComes, ListAsked, ReqDevlist
  <2> QED
    BY <2>1, <2>2, <2>3
<1>9. CASE ServerRefuses \/ ConnLost
  BY <1>9 DEF ServerRefuses, ConnLost
<1>10. CASE ServerReplugs \/ UNCHANGED vars
  <2>1. /\ UNCHANGED <<pc, devices, replied, imported, connUp, toServer, toClient>>
    BY <1>10 DEF ServerReplugs, vars, hsVars, mainVars, peerVars, streamVars
  <2> QED
    BY <2>1 DEF Whole, Unread
<1>11. CASE StreamStep
  <2>1. pc' = "running"
    BY <1>11 DEF StreamStep, Submit, Write, ServerTakes, Running, mainVars
  <2> QED
    BY <2>1
<1> QED
  BY <1>2, <1>3, <1>4, <1>5, <1>6, <1>7, <1>8, <1>9, <1>10, <1>11
     DEF Next, HandshakeNext, MainStep, Server

LEMMA WholeIsEnough == SessionInv /\ Whole => AnswerIsWhole
<1> SUFFICES ASSUME StartInv, Whole, pc \in DOMAIN Structure, connUp, toServer = << >>
             PROVE  toClient # << >> /\ Len(toClient) >= Wanted
  BY DEF AnswerIsWhole, SessionInv
<1>1. pc \in {"listHeader", "listDevice", "importHeader", "importDevice"}
  BY DEF Structure
<1>2. CASE pc = "listHeader"
  <2>1. replied \in Seq(DeviceInfo) /\ Len(replied) \in Nat
    BY ExportsAreDevices DEF StartInv
  <2>2. PICK w \in Seq(Structures) : w = Listings(replied)
    BY <2>1, ListingsType
  <2>3. PICK a \in Structures, b \in Structures :
          a = OpHeader("REP_DEVLIST", 0) /\ b = NumDevices(Len(replied))
    BY <2>1 DEF Structures
  <2>4. toClient = <<a, b>> \o w
    BY <1>2, <2>2, <2>3 DEF Whole, ListReply
  <2>5. Len(toClient) >= 2
    BY <2>4
  <2> QED
    BY <1>2, <2>4, <2>5 DEF Wanted
<1>3. CASE pc = "listDevice"
  <2>1. ListComes /\ toClient = Listings(Unread)
    BY <1>3 DEF StartInv, Reading, Whole
  <2>2. PICK d \in DeviceInfo, v \in Seq(Structures), w \in Seq(Structures) :
           /\ v = Listing(d) /\ Len(v) = DeviceSize(d) /\ v[1] = WireDeviceInfo(d)
           /\ DeviceSize(d) \in Nat \ {0} /\ Listings(Unread) = v \o w
    BY <2>1, NextListed
  <2>3. /\ toClient # << >> /\ Len(toClient) >= DeviceSize(d)
        /\ Head(toClient) = WireDeviceInfo(d)
    BY <2>1, <2>2
  <2> QED
    BY <1>3, <2>3 DEF Wanted, WireDeviceInfo
<1>4. ASSUME pc \in {"importHeader", "importDevice"}, imported \in DeviceInfo
      PROVE  toClient # << >> /\ Len(toClient) >= 1
  <2>1. PICK v \in Seq(Structures), w \in Seq(Structures) :
          /\ v \o w = ImportReply(imported) /\ Len(v) = 1 /\ Len(w) = 1
          /\ w = <<WireDeviceInfo(imported)>>
    BY <1>4, ImportReplyIs
  <2>2. toClient = v \o w \/ toClient = w
    BY <1>4, <2>1 DEF Whole
  <2> QED
    BY <2>1, <2>2
<1>5. CASE pc = "importHeader"
  <2>1. toClient = ImportReply(imported)
    BY <1>5 DEF Whole
  <2>2. toClient # << >> /\ Len(toClient) >= 1
    BY <2>1 DEF ImportReply
  <2> QED
    BY <1>5, <2>2 DEF Wanted
<1>6. CASE pc = "importDevice"
  <2>1. imported \in DeviceInfo
    BY <1>6 DEF StartInv, Reading, ImportComes
  <2> QED
    BY <1>4, <1>6, <2>1 DEF Wanted, ImportSize
<1> QED
  BY <1>1, <1>2, <1>3, <1>5, <1>6

(* Server and program never wait for each other during start-up, for every   *)
(* list of devices and interfaces: the safety half of HandshakeEnds          *)
(* (client.rs:27-57, 87-106).                                                *)
THEOREM StartUpNeverStuck == Spec => []AnswerIsWhole
<1>1. Init => Whole
  BY DEF Init, HandshakeInit, Whole
<1> QED
  BY <1>1, WholeStep, WholeIsEnough, SessionIsInvariant, PTL DEF Spec
-----------------------------------------------------------------------------
(* The flow of commands: what the server has of a command and what is on its *)
(* way to it are the beginning of what it is owed.                           *)

\* No control transfer carries more data than ep0_read's buffer has room for.
StagesFit == DataStages \subseteq 0 .. EP0_BUF_SIZE

OnTheWay == Joined(taken, toServer)
Owed     == FlattenSeq(SubSeq(sent, Len(decoded) + 1, Len(sent)))

WholeCommands ==
  \A n \in 1 .. Len(sent) : sent[n] # << >> /\ Len(sent[n]) = 1 + Announced(sent[n][1])

OneWriter == \A t, u \in Callers : writing[t] # << >> /\ writing[u] # << >> => t = u

InPart ==
  taken # << >> => Len(decoded) < Len(sent) /\ Len(taken) < Len(sent[Len(decoded) + 1])

\* A living connection carries all of it but what the one writer has still to write.
AllOnTheWay ==
  /\ WriterFree => OnTheWay = Owed
  /\ \A t \in Callers : writing[t] # << >> => Joined(OnTheWay, FlattenSeq(writing[t])) = Owed

FlowInv ==
  /\ Starts(decoded, sent) /\ WholeCommands /\ OneWriter /\ InPart
  /\ pc = "running" => Starts(OnTheWay, Owed) /\ (connUp => AllOnTheWay)

LEMMA JoinedIs ==
  ASSUME NEW X, NEW s \in Seq(X), NEW t \in Seq(X)
  PROVE  /\ Joined(s, t) \in Seq(X) /\ Len(Joined(s, t)) = Len(s) + Len(t)
         /\ \A i \in 1 .. Len(s) : Joined(s, t)[i] = s[i]
         /\ \A i \in 1 .. Len(t) : Joined(s, t)[Len(s) + i] = t[i]
BY DEF Joined

LEMMA JoinedLength ==
  ASSUME NEW X, NEW s \in Seq(X), NEW t \in Seq(X) PROVE Len(Joined(s, t)) = Len(s) + Len(t)
BY JoinedIs

LEMMA JoinedFirst ==
  ASSUME NEW X, NEW s \in Seq(X), NEW t \in Seq(X), NEW i \in 1 .. Len(s)
  PROVE  Joined(s, t)[i] = s[i]
BY JoinedIs

LEMMA JoinedSecond ==
  ASSUME NEW X, NEW s \in Seq(X), NEW t \in Seq(X), NEW i \in 1 .. Len(t)
  PROVE  Joined(s, t)[Len(s) + i] = t[i]
BY JoinedIs

LEMMA JoinedNone ==
  ASSUME NEW X, NEW s \in Seq(X)
  PROVE  Joined(<< >>, s) = s /\ Joined(s, << >>) = s
BY ConcatEmptySeq DEF Joined

LEMMA StartsJoined ==
  ASSUME NEW X, NEW s \in Seq(X), NEW w \in Seq(X), NEW c \in Seq(X), Starts(s, w)
  PROVE  Starts(s, Joined(w, c))
<1>0. Len(s) \in Nat /\ Len(w) \in Nat /\ Len(c) \in Nat
  OBVIOUS
<1>1. /\ Len(Joined(w, c)) = Len(w) + Len(c)
      /\ \A i \in 1 .. Len(w) : Joined(w, c)[i] = w[i]
  BY JoinedIs, Zenon
<1>2. Len(s) <= Len(w) /\ \A i \in 1 .. Len(s) : s[i] = w[i]
  BY DEF Starts
<1> QED
  BY <1>0, <1>1, <1>2 DEF Starts

(* Of two streams with the same first command, the rest.                     *)
LEMMA StartsCancel ==
  ASSUME NEW X, NEW c \in Seq(X), NEW s \in Seq(X), NEW w \in Seq(X)
  PROVE  /\ Starts(Joined(c, s), Joined(c, w)) => Starts(s, w)
         /\ Joined(c, s) = Joined(c, w) => s = w
<1>1. /\ Len(c) \in Nat /\ Len(s) \in Nat /\ Len(w) \in Nat
      /\ Len(Joined(c, s)) = Len(c) + Len(s) /\ Len(Joined(c, w)) = Len(c) + Len(w)
      /\ \A i \in 1 .. Len(s) : Joined(c, s)[Len(c) + i] = s[i]
      /\ \A i \in 1 .. Len(w) : Joined(c, w)[Len(c) + i] = w[i]
  <2>1. Len(c) \in Nat /\ Len(s) \in Nat /\ Len(w) \in Nat
    OBVIOUS
  <2>2. Len(Joined(c, s)) = Len(c) + Len(s) /\ Len(Joined(c, w)) = Len(c) + Len(w)
    BY JoinedLength
  <2>3. \A i \in 1 .. Len(s) : Joined(c, s)[Len(c) + i] = s[i]
    BY JoinedSecond
  <2>4. \A i \in 1 .. Len(w) : Joined(c, w)[Len(c) + i] = w[i]
    BY JoinedSecond
  <2> QED
    BY <2>1, <2>2, <2>3, <2>4
<1>2. ASSUME Starts(Joined(c, s), Joined(c, w)) PROVE Starts(s, w)
  <2>1. Len(s) <= Len(w)
    BY <1>1, <1>2 DEF Starts
  <2>2. ASSUME NEW i \in 1 .. Len(s) PROVE s[i] = w[i]
    <3>1. i \in 1 .. Len(w) /\ Len(c) + i \in 1 .. Len(c) + Len(s)
      BY <1>1, <2>1
    <3>2. Joined(c, s)[Len(c) + i] = Joined(c, w)[Len(c) + i]
      BY <1>1, <1>2, <3>1 DEF Starts
    <3> QED
      BY <1>1, <3>1, <3>2
  <2> QED
    BY <2>1, <2>2 DEF Starts
<1>3. ASSUME Joined(c, s) = Joined(c, w) PROVE s = w
  <2>1. Len(s) = Len(w)
    BY <1>1, <1>3
  <2>2. \A i \in 1 .. Len(s) : s[i] = w[i]
    BY <1>1, <1>3, <2>1
  <2> QED
    BY <2>1, <2>2, SeqEqual
<1> QED
  BY <1>2, <1>3

LEMMA StartsPart ==
  ASSUME NEW X, NEW s \in Seq(X), NEW q \in Seq(X), NEW k \in 0 .. Len(q), NEW w \in Seq(X),
         Starts(Joined(s, q), w)
  PROVE  Starts(Joined(s, SubSeq(q, 1, k)), w)
<1>1. PICK p \in Seq(X) : p = SubSeq(q, 1, k) /\ Len(p) = k /\ \A i \in 1 .. k : p[i] = q[i]
  <2>1. /\ SubSeq(q, 1, k) \in Seq(X) /\ Len(SubSeq(q, 1, k)) = k
        /\ \A i \in 1 .. k : SubSeq(q, 1, k)[i] = q[i]
    BY PartStarts, Zenon
  <2> QED
    BY <2>1, Zenon
<1>2. /\ Len(s) \in Nat /\ Len(q) \in Nat /\ Len(w) \in Nat
      /\ Len(Joined(s, q)) = Len(s) + Len(q) /\ Len(Joined(s, p)) = Len(s) + k
      /\ \A i \in 1 .. Len(s) : Joined(s, q)[i] = s[i] /\ Joined(s, p)[i] = s[i]
      /\ \A i \in 1 .. Len(q) : Joined(s, q)[Len(s) + i] = q[i]
      /\ \A i \in 1 .. k : Joined(s, p)[Len(s) + i] = p[i]
  <2>1. Len(s) \in Nat /\ Len(q) \in Nat /\ Len(w) \in Nat
    OBVIOUS
  <2>2. Len(Joined(s, q)) = Len(s) + Len(q) /\ Len(Joined(s, p)) = Len(s) + Len(p)
    BY JoinedLength
  <2>3. \A i \in 1 .. Len(s) : Joined(s, q)[i] = s[i] /\ Joined(s, p)[i] = s[i]
    BY JoinedFirst
  <2>4. \A i \in 1 .. Len(q) : Joined(s, q)[Len(s) + i] = q[i]
    BY JoinedSecond
  <2>5. \A i \in 1 .. Len(p) : Joined(s, p)[Len(s) + i] = p[i]
    BY JoinedSecond
  <2> QED
    BY <1>1, <2>1, <2>2, <2>3, <2>4, <2>5
<1>3. Len(Joined(s, p)) <= Len(w)
  BY <1>2 DEF Starts
<1>4. ASSUME NEW i \in 1 .. Len(s) + k PROVE Joined(s, p)[i] = Joined(s, q)[i]
  <2>1. CASE i <= Len(s)
    BY <1>2, <2>1
  <2>2. CASE i > Len(s)
    <3>1. PICK m \in 1 .. k : i = Len(s) + m
      <4>1. i - Len(s) \in 1 .. k /\ i = Len(s) + (i - Len(s))
        BY <1>2, <2>2
      <4> QED
        BY <4>1
    <3>2. m \in 1 .. Len(q)
      BY <1>2
    <3> QED
      BY <1>1, <1>2, <3>1, <3>2
  <2> QED
    BY <1>2, <2>1, <2>2
<1>5. ASSUME NEW i \in 1 .. Len(s) + k PROVE Joined(s, p)[i] = w[i]
  <2>1. i \in 1 .. Len(Joined(s, q))
    BY <1>2
  <2> QED
    BY <1>4, <2>1 DEF Starts
<1> QED
  BY <1>1, <1>2, <1>3, <1>5 DEF Starts

(* The server moves the head of the stream to the part it has.               *)
LEMMA JoinedMoves ==
  ASSUME NEW X, NEW s \in Seq(X), NEW q \in Seq(X), q # << >>
  PROVE  /\ Append(s, Head(q)) \in Seq(X) /\ Tail(q) \in Seq(X)
         /\ Len(Append(s, Head(q))) = Len(s) + 1
         /\ Joined(Append(s, Head(q)), Tail(q)) = Joined(s, q)
<1>1. Head(q) \in X /\ Tail(q) \in Seq(X) /\ q = Joined(<<Head(q)>>, Tail(q))
  BY ConcatProperties DEF Joined
<1>2. PICK a \in Seq(X), r \in Seq(X) : a = <<Head(q)>> /\ r = Tail(q)
  <2>1. PICK e \in X : e = Head(q)
    BY <1>1, Zenon
  <2>2. <<e>> \in Seq(X)
    OBVIOUS
  <2> QED
    BY <1>1, <2>1, <2>2, Zenon
<1>3. Append(s, Head(q)) = Joined(s, a)
  BY <1>1, <1>2, AppendIsConcat DEF Joined
<1>4. Joined(Joined(s, a), r) = Joined(s, Joined(a, r))
  BY JoinedAssociative
<1>5. Append(s, Head(q)) \in Seq(X) /\ Len(Append(s, Head(q))) = Len(s) + 1
  BY <1>1, AppendProperties
<1> QED
  BY <1>1, <1>2, <1>3, <1>4, <1>5
(* The commands from the n-th on begin with the n-th.                        *)
LEMMA RestFrom ==
  ASSUME NEW s \in Seq(Seq(Token)), NEW n \in 1 .. Len(s)
  PROVE  /\ s[n] \in Seq(Token)
         /\ FlattenSeq(SubSeq(s, n + 1, Len(s))) \in Seq(Token)
         /\ FlattenSeq(SubSeq(s, n, Len(s))) = Joined(s[n], FlattenSeq(SubSeq(s, n + 1, Len(s))))
<1>1. n \in Nat \ {0} /\ n + 1 \in Nat \ {0} /\ Len(s) \in n .. Len(s)
  OBVIOUS
<1>2. PICK u \in Seq(Seq(Token)) : u = SubSeq(s, n, Len(s))
  BY <1>1, SubSeqIs
<1>3. PICK r \in Seq(Seq(Token)) : r = SubSeq(s, n + 1, Len(s))
  BY <1>1, SubSeqIs
<1>4. Head(u) = s[n] /\ Tail(u) = r
  BY <1>1, <1>2, <1>3, HeadTailOfSubSeq
<1>5. u # << >>
  <2>1. Len(u) = Len(s) - n + 1
    BY <1>1, <1>2
  <2>2. Len(u) # 0
    BY <1>1, <2>1
  <2>3. Len(<< >>) = 0
    OBVIOUS
  <2> QED
    BY <2>2, <2>3, Zenon
<1>6. FlattenSeq(u) = Joined(Head(u), FlattenSeq(Tail(u)))
  BY <1>5, FlattenFirst DEF Joined
<1>7. FlattenSeq(r) \in Seq(Token)
  BY FlattenInSeq
<1>8. s[n] \in Seq(Token)
  OBVIOUS
<1> QED
  BY <1>2, <1>3, <1>4, <1>6, <1>7, <1>8

LEMMA RestNone ==
  ASSUME NEW s \in Seq(Seq(Token))
  PROVE  FlattenSeq(SubSeq(s, Len(s) + 1, Len(s))) = << >>
<1>1. Len(s) \in Int /\ Len(s) + 1 \in Int /\ Len(s) < Len(s) + 1
  OBVIOUS
<1>2. SubSeq(s, Len(s) + 1, Len(s)) = << >>
  BY <1>1, SubSeqEmpty
<1> QED
  BY <1>2 DEF FlattenSeq

LEMMA FlattenTwo ==
  ASSUME NEW h \in Seq(Token), NEW data \in Seq(Token)
  PROVE  FlattenSeq(<<h, data>>) = Joined(h, data)
<1>1. PICK p \in Seq(Seq(Token)) : p = <<h, data>>
  BY PairIs
<1>2. p # << >> /\ Head(p) = h /\ Tail(p) = <<data>>
  BY <1>1
<1>3. FlattenSeq(p) = Joined(Head(p), FlattenSeq(Tail(p)))
  BY <1>2, FlattenFirst DEF Joined
<1>4. FlattenSeq(<<data>>) = data
  BY FlattenOne
<1> QED
  BY <1>1, <1>2, <1>3, <1>4

(* One more command is sent.                                                 *)
IsAppended(a, s, c) ==
  /\ a = Append(s, c) /\ Len(a) = Len(s) + 1 /\ a[Len(s) + 1] = c
  /\ \A i \in 1 .. Len(s) : a[i] = s[i]

IsRest(u, s, n) ==
  /\ u = SubSeq(s, n, Len(s)) /\ Len(u) = Len(s) - n + 1
  /\ \A i \in 1 .. Len(s) - n + 1 : u[i] = s[n + i - 1]

LEMMA AppendIs ==
  ASSUME NEW X, NEW s \in Seq(X), NEW c \in X
  PROVE  \E a \in Seq(X) : IsAppended(a, s, c)
<1>1. /\ Append(s, c) \in Seq(X) /\ Len(Append(s, c)) = Len(s) + 1 /\ Append(s, c)[Len(s) + 1] = c
      /\ \A i \in 1 .. Len(s) : Append(s, c)[i] = s[i]
  OBVIOUS
<1> QED
  BY <1>1, Zenon DEF IsAppended

LEMMA SubSeqElements ==
  ASSUME NEW X, NEW s \in Seq(X), NEW n \in 1 .. Len(s) + 1
  PROVE  \E u \in Seq(X) : IsRest(u, s, n)
<1>1. n \in Nat \ {0} /\ Len(s) \in Nat
  OBVIOUS
<1>2. SubSeq(s, n, Len(s)) \in Seq(X)
  BY <1>1, SubSeqIs
<1>3. /\ Len(SubSeq(s, n, Len(s))) = Len(s) - n + 1
      /\ \A i \in 1 .. Len(s) - n + 1 : SubSeq(s, n, Len(s))[i] = s[n + i - 1]
  BY <1>1
<1> QED
  BY <1>2, <1>3, Zenon DEF IsRest

LEMMA RestMore ==
  ASSUME NEW s \in Seq(Seq(Token)), NEW c \in Seq(Token), NEW n \in 1 .. Len(s) + 1
  PROVE  /\ FlattenSeq(SubSeq(s, n, Len(s))) \in Seq(Token)
         /\ FlattenSeq(SubSeq(Append(s, c), n, Len(s) + 1))
              = Joined(FlattenSeq(SubSeq(s, n, Len(s))), c)
<1>0. n \in Nat \ {0} /\ Len(s) \in Nat
  OBVIOUS
<1>1. PICK a \in Seq(Seq(Token)) : IsAppended(a, s, c)
  BY AppendIs
<1>2. PICK u \in Seq(Seq(Token)) : IsRest(u, s, n)
  BY SubSeqElements
<1>3. PICK v \in Seq(Seq(Token)) : IsRest(v, a, n)
  <2>1. n \in 1 .. Len(a) + 1
    BY <1>0, <1>1 DEF IsAppended
  <2> QED
    BY <2>1, SubSeqElements
<1>4. PICK w \in Seq(Seq(Token)) : IsAppended(w, u, c)
  BY AppendIs
<1>5. Len(v) = Len(w) /\ \A i \in 1 .. Len(v) : v[i] = w[i]
  <2>1. Len(v) = Len(w)
    BY <1>0, <1>1, <1>2, <1>3, <1>4 DEF IsAppended, IsRest
  <2>2. ASSUME NEW i \in 1 .. Len(v) PROVE v[i] = w[i]
    <3>1. i \in Nat /\ Len(u) \in Nat /\ i <= Len(u) + 1 /\ i >= 1
      BY <2>1, <1>4 DEF IsAppended
    <3>2. CASE i <= Len(u)
      <4>1. n + i - 1 \in 1 .. Len(s) /\ i \in 1 .. Len(s) - n + 1 /\ i \in 1 .. Len(u)
        BY <1>0, <1>2, <3>1, <3>2 DEF IsRest
      <4>2. v[i] = a[n + i - 1]
        BY <1>3 DEF IsRest
      <4> QED
        BY <1>1, <1>2, <1>4, <4>1, <4>2 DEF IsAppended, IsRest
    <3>3. CASE i = Len(u) + 1
      <4>1. n + i - 1 = Len(s) + 1
        BY <1>0, <1>2, <3>3 DEF IsRest
      <4>2. v[i] = a[n + i - 1]
        BY <1>3 DEF IsRest
      <4> QED
        BY <1>1, <1>4, <3>3, <4>1, <4>2 DEF IsAppended
    <3>4. i <= Len(u) \/ i = Len(u) + 1
      <4>1. PICK k \in Nat : k = Len(u)
        BY <3>1
      <4>2. i \in Nat /\ i <= k + 1
        BY <3>1, <4>1
      <4>3. i <= k \/ i = k + 1
        BY <4>2
      <4> QED
        BY <4>1, <4>3
    <3> QED
      BY <3>2, <3>3, <3>4
  <2> QED
    BY <2>1, <2>2
<1>6. v = w
  BY <1>5, SeqEqual
<1>7. FlattenSeq(w) = Joined(FlattenSeq(u), c)
  BY <1>4, FlattenLast DEF Joined, IsAppended
<1>8. FlattenSeq(u) \in Seq(Token)
  BY FlattenInSeq
<1> QED
  BY <1>1, <1>2, <1>3, <1>6, <1>7, <1>8 DEF IsAppended, IsRest

LEMMA FlowTypes ==
  ASSUME SessionInv, FlowInv, pc = "running"
  PROVE  /\ OnTheWay \in Seq(Token) /\ Owed \in Seq(Token) /\ taken \in Seq(Token)
         /\ toServer \in Seq(Token) /\ Len(decoded) + 1 \in 1 .. Len(sent) + 1
<1>1. taken \in Seq(Token) /\ toServer \in Seq(Token)
  BY SessionTypes
<1>2. OnTheWay \in Seq(Token)
  BY <1>1, JoinedIs DEF OnTheWay
<1>3. PICK n \in 1 .. Len(sent) + 1 : n = Len(decoded) + 1
  BY SessionTypes DEF FlowInv, Starts
<1>4. PICK r \in Seq(Seq(Token)) : r = SubSeq(sent, n, Len(sent))
  <2>1. n \in Nat \ {0} /\ sent \in Seq(Seq(Token))
    BY SessionTypes
  <2> QED
    BY <2>1, SubSeqIs
<1>5. FlattenSeq(r) \in Seq(Token)
  BY FlattenInSeq
<1> QED
  BY <1>1, <1>2, <1>3, <1>4, <1>5 DEF Owed

(* An OUT transfer announces the data it has (main.rs:230, 422).             *)
LEMMA TransferWhole ==
  ASSUME StagesFit, NEW t, NEW x \in Transfers(t)
  PROVE  x.data = IF x.out THEN x.len ELSE 0
<1>1. ASSUME NEW n \in DataStages PROVE Stage(n) = n
  <2>1. n \in 0 .. EP0_BUF_SIZE /\ EP0_BUF_SIZE \in Nat
    BY StreamAssumption DEF StagesFit
  <2> QED
    BY <2>1 DEF Stage
<1>2. \/ \E n \in Lengths : x \in {ControlIn(n), EpIn(n), EpOut(n)}
      \/ \E n \in DataStages : x = ControlOut(n)
  BY DEF Transfers
<1>3. PICK n : x \in {Transfer(FALSE, n, 0), Transfer(TRUE, n, n)}
  BY <1>1, <1>2 DEF ControlIn, ControlOut, EpIn, EpOut
<1>4. CASE x = Transfer(FALSE, n, 0)
  BY <1>4 DEF Transfer
<1>5. CASE x = Transfer(TRUE, n, n)
  BY <1>5 DEF Transfer
<1> QED
  BY <1>3, <1>4, <1>5

LEMMA SubmitFlows ==
  ASSUME StagesFit, SessionInv, FlowInv, NEW t \in Callers, Submit(t) PROVE FlowInv'
<1>1. /\ pc = "running" /\ pc' = "running" /\ connUp' = connUp /\ WriterFree
      /\ UNCHANGED <<toServer, taken, decoded>>
  BY DEF Submit, Running, mainVars
<1>2. PICK x \in Transfers(t), h \in Seq(Token), data \in Seq(Token), c \in Seq(Token) :
        /\ c = h \o data /\ Len(c) = 1 + x.data
        /\ c[1] = CmdSubmitHeader(Len(sent) + 1, dev.devid, x.out, x.len)
        /\ sent' = Append(sent, c) /\ writing' = [writing EXCEPT ![t] = <<h, data>>]
  BY SubmitIs
<1>3. /\ sent \in Seq(Seq(Token)) /\ decoded \in Seq(Seq(Token)) /\ Len(sent) \in Nat
      /\ Len(decoded) \in Nat /\ writing \in [Callers -> Seq(Seq(Token))]
  BY SessionTypes
<1>4. PICK s \in Seq(Seq(Token)) : IsAppended(s, sent, c)
  BY <1>3, AppendIs
<1>5. /\ sent' = s /\ Len(s) = Len(sent) + 1 /\ s[Len(sent) + 1] = c
      /\ \A i \in 1 .. Len(sent) : s[i] = sent[i]
  BY <1>2, <1>4 DEF IsAppended
<1>6. Starts(decoded, sent)'
  <2>1. Len(decoded) <= Len(sent) /\ \A i \in 1 .. Len(decoded) : decoded[i] = sent[i]
    BY DEF FlowInv, Starts
  <2> QED
    BY <1>1, <1>3, <1>5, <2>1 DEF Starts
<1>7. WholeCommands'
  <2>1. Len(c) = 1 + Announced(c[1])
    BY <1>2, TransferWhole DEF Announced, CmdSubmitHeader
  <2>2. c # << >>
    <3>1. x.data \in Nat
      BY TransferIs
    <3> QED
      BY <1>2, <3>1
  <2>3. ASSUME NEW n \in 1 .. Len(s) PROVE s[n] # << >> /\ Len(s[n]) = 1 + Announced(s[n][1])
    <3>1. CASE n = Len(sent) + 1
      BY <1>5, <2>1, <2>2, <3>1
    <3>2. CASE n \in 1 .. Len(sent)
      BY <1>5, <3>2 DEF FlowInv, WholeCommands
    <3> QED
      BY <1>3, <1>5, <3>1, <3>2
  <2> QED
    BY <1>5, <2>3 DEF WholeCommands
<1>8. /\ \A u \in Callers : u # t => writing'[u] = << >>
      /\ writing'[t] = <<h, data>> /\ <<h, data>> # << >>
  BY <1>1, <1>2, <1>3 DEF WriterFree
<1>9. OneWriter'
  BY <1>8 DEF OneWriter
<1>10. InPart'
  <2>1. ASSUME taken # << >> PROVE Len(decoded) < Len(s) /\ Len(taken) < Len(s[Len(decoded) + 1])
    <3>1. Len(decoded) < Len(sent) /\ Len(taken) < Len(sent[Len(decoded) + 1])
      BY <2>1 DEF FlowInv, InPart
    <3>2. Len(decoded) + 1 \in 1 .. Len(sent)
      BY <1>3, <3>1
    <3> QED
      <4>1. s[Len(decoded) + 1] = sent[Len(decoded) + 1]
        BY <1>5, <3>2
      <4>2. Len(decoded) < Len(s)
        BY <1>3, <1>5, <3>1
      <4> QED
        BY <3>1, <4>1, <4>2
  <2> QED
    BY <1>1, <1>5, <2>1 DEF InPart
<1>11. PICK o \in Seq(Token), w \in Seq(Token) : o = OnTheWay /\ w = Owed
  BY <1>1, FlowTypes
<1>12. OnTheWay' = o /\ Owed' = Joined(w, c)
  <2>1. PICK n \in 1 .. Len(sent) + 1 : n = Len(decoded) + 1
    BY <1>1, FlowTypes
  <2>2. FlattenSeq(SubSeq(Append(sent, c), n, Len(sent) + 1))
          = Joined(FlattenSeq(SubSeq(sent, n, Len(sent))), c)
    BY <1>3, RestMore
  <2>3. Owed' = FlattenSeq(SubSeq(Append(sent, c), n, Len(sent) + 1))
    BY <1>1, <1>2, <1>5, <2>1 DEF Owed
  <2>4. w = FlattenSeq(SubSeq(sent, n, Len(sent)))
    BY <1>11, <2>1 DEF Owed
  <2>5. OnTheWay' = OnTheWay
    BY <1>1 DEF OnTheWay
  <2> QED
    BY <1>11, <2>2, <2>3, <2>4, <2>5
<1>13. Starts(OnTheWay, Owed)'
  <2>1. Starts(o, w)
    BY <1>1, <1>11 DEF FlowInv
  <2>2. Starts(o, Joined(w, c))
    BY <2>1, StartsJoined
  <2> QED
    BY <1>12, <2>2
<1>14. connUp => AllOnTheWay'
  <2>1. ASSUME connUp PROVE AllOnTheWay'
    <3>1. o = w
      BY <1>1, <1>11, <2>1 DEF FlowInv, AllOnTheWay
    <3>2. FlattenSeq(<<h, data>>) = c
      BY <1>2, FlattenTwo DEF Joined
    <3>3. ~WriterFree'
      BY <1>8 DEF WriterFree
    <3> QED
      BY <1>8, <1>12, <3>1, <3>2, <3>3 DEF AllOnTheWay
  <2> QED
    BY <2>1
<1> QED
  BY <1>1, <1>6, <1>7, <1>9, <1>10, <1>13, <1>14 DEF FlowInv

LEMMA WriteFlows ==
  ASSUME SessionInv, FlowInv, NEW t \in Callers, Write(t) PROVE FlowInv'
<1>1. /\ pc = "running" /\ pc' = "running" /\ connUp' = connUp /\ writing[t] # << >>
      /\ UNCHANGED <<sent, taken, decoded>>
  BY DEF Write, Running, mainVars
<1>2. PICK f \in Seq(Seq(Token)) : f = writing[t]
  <2>1. writing[t] \in Seq(Seq(Token))
    BY SessionTypes
  <2> QED
    BY <2>1
<1>3. \A u \in Callers : u # t => writing[u] = << >>
  BY <1>1 DEF FlowInv, OneWriter
<1>4. Starts(decoded, sent)' /\ WholeCommands' /\ InPart'
  BY <1>1 DEF FlowInv, WholeCommands, InPart
<1>5. PICK o \in Seq(Token), w \in Seq(Token) : o = OnTheWay /\ w = Owed
  BY <1>1, FlowTypes
<1>6. Owed' = w
  BY <1>1, <1>5 DEF Owed
<1>7. CASE ~connUp
  <2>1. toServer' = toServer /\ writing' = [writing EXCEPT ![t] = << >>]
    BY <1>7 DEF Write
  <2>2. \A u \in Callers : writing'[u] = << >>
    BY <1>3, <2>1, SessionTypes
  <2>3. OneWriter'
    BY <2>2 DEF OneWriter
  <2>4. Starts(OnTheWay, Owed)'
    BY <1>1, <1>5, <1>6, <2>1 DEF FlowInv, OnTheWay
  <2> QED
    BY <1>1, <1>4, <1>7, <2>3, <2>4 DEF FlowInv
<1>8. CASE connUp
  <2>1. toServer' = toServer \o Head(f) /\ writing' = [writing EXCEPT ![t] = Tail(f)]
    BY <1>2, <1>8 DEF Write
  <2>2. PICK h \in Seq(Token), r \in Seq(Seq(Token)) : h = Head(f) /\ r = Tail(f)
    <3>1. Head(f) \in Seq(Token) /\ Tail(f) \in Seq(Seq(Token))
      BY <1>1, <1>2
    <3> QED
      BY <3>1, Zenon
  <2>3. PICK rest \in Seq(Token) : rest = FlattenSeq(r)
    BY FlattenInSeq
  <2>4. FlattenSeq(f) = Joined(h, rest)
    BY <1>1, <1>2, <2>2, <2>3, FlattenFirst DEF Joined
  <2>5. Joined(o, Joined(h, rest)) = w
    BY <1>1, <1>2, <1>5, <1>8, <2>4 DEF FlowInv, AllOnTheWay
  <2>6. PICK p \in Seq(Token) : p = Joined(o, h)
    BY JoinedIs
  <2>7. OnTheWay' = p
    <3>1. PICK a \in Seq(Token), b \in Seq(Token) : a = taken /\ b = toServer
      BY <1>1, FlowTypes
    <3>2. Joined(a, Joined(b, h)) = Joined(Joined(a, b), h)
      BY JoinedAssociative
    <3>3. o = Joined(a, b) /\ toServer' = Joined(b, h) /\ taken' = a
      BY <1>1, <1>5, <2>1, <2>2, <3>1 DEF OnTheWay, Joined
    <3> QED
      BY <2>6, <3>2, <3>3 DEF OnTheWay
  <2>8. Joined(p, rest) = w
    <3>1. Joined(Joined(o, h), rest) = Joined(o, Joined(h, rest))
      BY JoinedAssociative
    <3> QED
      BY <2>5, <2>6, <3>1
  <2>9. (\A u \in Callers : u # t => writing'[u] = << >>) /\ writing'[t] = r
    BY <1>3, <2>1, <2>2, SessionTypes
  <2>10. OneWriter'
    BY <2>9 DEF OneWriter
  <2>11. Starts(OnTheWay, Owed)'
    <3>1. Starts(p, p)
      BY DEF Starts
    <3>2. Starts(p, Joined(p, rest))
      BY <3>1, StartsJoined
    <3> QED
      BY <1>6, <2>7, <2>8, <3>2
  <2>12. ASSUME WriterFree' PROVE OnTheWay' = Owed'
    <3>1. r = << >>
      BY <2>9, <2>12 DEF WriterFree
    <3>2. rest = << >>
      BY <2>3, <3>1 DEF FlattenSeq
    <3>3. Joined(p, << >>) = p
      BY JoinedNone
    <3> QED
      BY <1>6, <2>7, <2>8, <3>2, <3>3
  <2>13. ASSUME NEW u \in Callers, writing'[u] # << >>
         PROVE  Joined(OnTheWay, FlattenSeq(writing[u]))' = Owed'
    <3>1. u = t
      BY <2>9, <2>13
    <3> QED
      BY <1>6, <2>3, <2>7, <2>8, <2>9, <3>1
  <2>14. AllOnTheWay'
    BY <2>12, <2>13 DEF AllOnTheWay
  <2> QED
    BY <1>4, <2>10, <2>11, <2>14 DEF FlowInv
<1> QED
  BY <1>7, <1>8

\* The server has part of the command c and will have all of c before the rest.
IsNext(n, c, rest, part, ts) ==
  /\ n = Len(decoded) + 1 /\ c = sent[n] /\ Owed = Joined(c, rest)
  /\ rest = FlattenSeq(SubSeq(sent, n + 1, Len(sent)))
  /\ part = Append(taken, Head(toServer)) /\ ts = Tail(toServer)
  /\ OnTheWay = Joined(part, ts) /\ part # << >> /\ Len(part) <= Len(c)
  /\ \A i \in 1 .. Len(part) : part[i] = c[i]

(* The head of the stream is the next part of the command that is read: what *)
(* the server then has of it are the first of its structures.                *)
LEMMA TakesNext ==
  ASSUME SessionInv, FlowInv, ServerTakes
  PROVE  \E n \in 1 .. Len(sent), c \in Seq(Token), rest \in Seq(Token), part \in Seq(Token),
            ts \in Seq(Token) :
           IsNext(n, c, rest, part, ts)
<1>1. pc = "running" /\ toServer # << >>
  BY DEF ServerTakes, Running
<1>2. /\ sent \in Seq(Seq(Token)) /\ Len(sent) \in Nat /\ Len(decoded) \in Nat
      /\ taken \in Seq(Token) /\ toServer \in Seq(Token)
  BY <1>1, SessionTypes
<1>3. PICK part \in Seq(Token), ts \in Seq(Token) :
        /\ part = Append(taken, Head(toServer)) /\ ts = Tail(toServer)
        /\ Len(part) = Len(taken) + 1 /\ OnTheWay = Joined(part, ts)
  BY <1>1, <1>2, JoinedMoves DEF OnTheWay
<1>4. PICK o \in Seq(Token), w \in Seq(Token) : o = OnTheWay /\ w = Owed
  BY <1>1, FlowTypes
<1>5. Len(o) = Len(part) + Len(ts) /\ \A i \in 1 .. Len(part) : o[i] = part[i]
  <2>1. o = Joined(part, ts)
    BY <1>3, <1>4
  <2>2. Len(Joined(part, ts)) = Len(part) + Len(ts)
    BY JoinedLength
  <2>3. \A i \in 1 .. Len(part) : Joined(part, ts)[i] = part[i]
    BY JoinedFirst
  <2> QED
    BY <2>1, <2>2, <2>3
<1>6. Len(o) <= Len(w) /\ \A i \in 1 .. Len(o) : o[i] = w[i]
  BY <1>1, <1>4 DEF FlowInv, Starts
<1>7. Len(taken) \in Nat /\ Len(ts) \in Nat /\ Len(part) \in Nat /\ Len(w) \in Nat
  BY <1>2
<1>8. Len(decoded) <= Len(sent)
  BY DEF FlowInv, Starts
<1>9. Len(decoded) # Len(sent)
  <2>1. SUFFICES ASSUME Len(decoded) = Len(sent) PROVE FALSE
    OBVIOUS
  <2>2. w = << >>
    BY <1>2, <1>4, <2>1, RestNone DEF Owed
  <2>3. Len(w) = 0
    BY <2>2
  <2> QED
    BY <1>3, <1>5, <1>6, <1>7, <2>3
<1>10. PICK n \in 1 .. Len(sent) : n = Len(decoded) + 1
  BY <1>2, <1>8, <1>9
<1>11. PICK c \in Seq(Token), rest \in Seq(Token) :
         /\ c = sent[n] /\ rest = FlattenSeq(SubSeq(sent, n + 1, Len(sent))) /\ w = Joined(c, rest)
  BY <1>2, <1>4, <1>10, RestFrom DEF Owed
<1>12. Len(part) <= Len(c)
  <2>1. c # << >> /\ Len(c) \in Nat
    BY <1>11 DEF FlowInv, WholeCommands
  <2>2. CASE taken = << >>
    <3>1. Len(c) # 0 /\ Len(taken) = 0
      BY <2>1, <2>2
    <3> QED
      BY <1>3, <2>1, <3>1
  <2>3. CASE taken # << >>
    <3>1. Len(taken) < Len(c)
      BY <1>10, <1>11, <2>3 DEF FlowInv, InPart
    <3> QED
      BY <1>3, <1>7, <2>1, <3>1
  <2> QED
    BY <2>2, <2>3
<1>13. \A i \in 1 .. Len(c) : w[i] = c[i]
  BY <1>11, JoinedFirst
<1>14. \A i \in 1 .. Len(part) : part[i] = c[i]
  <2>1. ASSUME NEW i \in 1 .. Len(part) PROVE part[i] = c[i]
    <3>1. i \in 1 .. Len(o) /\ i \in 1 .. Len(c)
      BY <1>5, <1>7, <1>12
    <3> QED
      BY <1>5, <1>6, <1>13, <3>1
  <2> QED
    BY <2>1
<1>15. part # << >>
  <2>1. Len(part) # 0 /\ Len(<< >>) = 0
    BY <1>3, <1>7
  <2> QED
    BY <2>1, Zenon
<1>16. Owed = Joined(c, rest)
  BY <1>4, <1>11
<1>17. IsNext(n, c, rest, part, ts)
  BY <1>3, <1>10, <1>11, <1>12, <1>14, <1>15, <1>16 DEF IsNext
<1> QED
  BY <1>17

LEMMA TakesFlows ==
  ASSUME SessionInv, FlowInv, ServerTakes PROVE FlowInv'
<1>1. /\ pc = "running" /\ pc' = "running" /\ connUp' = connUp
      /\ toServer' = Tail(toServer) /\ UNCHANGED <<writing, sent>>
  BY DEF ServerTakes, Running, mainVars
<1>2. PICK n \in 1 .. Len(sent), c \in Seq(Token), rest \in Seq(Token), part \in Seq(Token),
           ts \in Seq(Token) :
        /\ n = Len(decoded) + 1 /\ c = sent[n] /\ Owed = Joined(c, rest)
        /\ rest = FlattenSeq(SubSeq(sent, n + 1, Len(sent)))
        /\ part = Append(taken, Head(toServer)) /\ ts = Tail(toServer)
        /\ OnTheWay = Joined(part, ts) /\ part # << >> /\ Len(part) <= Len(c)
        /\ \A i \in 1 .. Len(part) : part[i] = c[i]
  BY TakesNext DEF IsNext
<1>3. /\ sent \in Seq(Seq(Token)) /\ Len(sent) \in Nat /\ Len(decoded) \in Nat
      /\ decoded \in Seq(Seq(Token)) /\ writing \in [Callers -> Seq(Seq(Token))]
      /\ Len(part) \in Nat \ {0} /\ Len(c) \in Nat
  <2>1. Len(part) # 0 /\ Len(part) \in Nat /\ Len(c) \in Nat
    BY <1>2
  <2> QED
    BY <2>1, SessionTypes
<1>4. Len(c) = 1 + Announced(part[1])
  <2>1. part[1] = c[1]
    <3>1. 1 \in 1 .. Len(part)
      BY <1>3
    <3> QED
      BY <1>2, <3>1, Zenon
  <2> QED
    BY <1>2, <2>1 DEF FlowInv, WholeCommands
<1>5. WholeCommands' /\ OneWriter'
  BY <1>1 DEF FlowInv, WholeCommands, OneWriter
<1>6. CASE Len(part) # Len(c)
  <2>1. taken' = part /\ decoded' = decoded
    BY <1>2, <1>4, <1>6 DEF ServerTakes
  <2>2. Starts(decoded, sent)'
    BY <1>1, <2>1 DEF FlowInv, Starts
  <2>3. InPart'
    <3>1. Len(part) < Len(c) /\ Len(decoded) < Len(sent)
      BY <1>2, <1>3, <1>6
    <3> QED
      BY <1>1, <1>2, <2>1, <3>1 DEF InPart
  <2>4. OnTheWay' = OnTheWay /\ Owed' = Owed
    BY <1>1, <1>2, <2>1 DEF OnTheWay, Owed
  <2>5. Starts(OnTheWay, Owed)'
    BY <1>1, <2>4 DEF FlowInv
  <2>6. connUp => AllOnTheWay'
    BY <1>1, <2>4 DEF FlowInv, AllOnTheWay, WriterFree
  <2> QED
    BY <1>1, <1>5, <2>2, <2>3, <2>5, <2>6 DEF FlowInv
<1>7. CASE Len(part) = Len(c)
  <2>1. part = c
    BY <1>2, <1>7, SeqEqual
  <2>2. taken' = << >> /\ decoded' = Append(decoded, c)
    BY <1>2, <1>4, <1>7, <2>1 DEF ServerTakes
  <2>3. PICK d \in Seq(Seq(Token)) : IsAppended(d, decoded, c)
    BY <1>3, AppendIs
  <2>4. /\ decoded' = d /\ Len(d) = n /\ d[n] = c
        /\ \A i \in 1 .. Len(decoded) : d[i] = decoded[i]
    BY <1>2, <2>2, <2>3 DEF IsAppended
  <2>5. Starts(decoded, sent)'
    <3>1. \A i \in 1 .. Len(decoded) : decoded[i] = sent[i]
      BY DEF FlowInv, Starts
    <3>2. ASSUME NEW i \in 1 .. n PROVE d[i] = sent[i]
      <4>1. CASE i = n
        BY <1>2, <2>4, <4>1
      <4>2. CASE i # n
        <5>1. i \in 1 .. Len(decoded)
          BY <1>2, <1>3, <4>2
        <5> QED
          BY <2>4, <3>1, <5>1
      <4> QED
        BY <4>1, <4>2
    <3>3. n <= Len(sent)
      OBVIOUS
    <3> QED
      BY <1>1, <2>4, <3>2, <3>3 DEF Starts
  <2>6. InPart'
    BY <2>2 DEF InPart
  <2>7. OnTheWay' = ts /\ Owed' = rest
    <3>1. Joined(<< >>, ts) = ts
      BY JoinedNone
    <3> QED
      BY <1>1, <1>2, <2>2, <2>4, <3>1 DEF OnTheWay, Owed
  <2>8. OnTheWay = Joined(c, ts)
    BY <1>2, <2>1
  <2>9. Starts(OnTheWay, Owed)'
    <3>1. Starts(Joined(c, ts), Joined(c, rest))
      BY <1>1, <1>2, <2>8 DEF FlowInv
    <3>2. Starts(ts, rest)
      BY <3>1, StartsCancel
    <3> QED
      BY <2>7, <3>2
  <2>10. ASSUME connUp PROVE AllOnTheWay'
    <3>1. ASSUME WriterFree' PROVE OnTheWay' = Owed'
      <4>1. WriterFree
        BY <1>1, <3>1 DEF WriterFree
      <4>2. Joined(c, ts) = Joined(c, rest)
        BY <1>1, <1>2, <2>8, <2>10, <4>1 DEF FlowInv, AllOnTheWay
      <4>3. ts = rest
        BY <4>2, StartsCancel
      <4> QED
        BY <2>7, <4>3
    <3>2. ASSUME NEW t \in Callers, writing'[t] # << >>
          PROVE  Joined(OnTheWay, FlattenSeq(writing[t]))' = Owed'
      <4>1. PICK f \in Seq(Token) : f = FlattenSeq(writing[t])
        <5>1. writing[t] \in Seq(Seq(Token))
          BY <1>3
        <5> QED
          BY <5>1, FlattenInSeq
      <4>2. Joined(Joined(c, ts), f) = Joined(c, rest)
        BY <1>1, <1>2, <2>8, <2>10, <3>2, <4>1 DEF FlowInv, AllOnTheWay
      <4>3. PICK g \in Seq(Token) : g = Joined(ts, f)
        BY JoinedIs
      <4>4. Joined(Joined(c, ts), f) = Joined(c, Joined(ts, f))
        BY JoinedAssociative
      <4>5. Joined(c, g) = Joined(c, rest)
        BY <4>2, <4>3, <4>4
      <4>6. g = rest
        BY <4>5, StartsCancel
      <4> QED
        BY <1>1, <2>7, <4>1, <4>3, <4>6
    <3> QED
      BY <3>1, <3>2 DEF AllOnTheWay
  <2> QED
    BY <1>1, <1>5, <2>5, <2>6, <2>9, <2>10 DEF FlowInv
<1> QED
  BY <1>6, <1>7

LEMMA NothingFlows ==
  ASSUME NothingSent, OneWriter PROVE Starts(decoded, sent) /\ WholeCommands /\ InPart
<1>1. sent = << >> /\ decoded = << >> /\ taken = << >> /\ Len(<< >>) = 0
  BY DEF NothingSent
<1> QED
  BY <1>1 DEF Starts, WholeCommands, InPart

LEMMA FlowInit == Init => FlowInv
<1> SUFFICES ASSUME Init PROVE FlowInv
  OBVIOUS
<1>1. NothingSent /\ pc # "running" /\ OneWriter
  BY DEF Init, HandshakeInit, NothingSent, OneWriter
<1> QED
  BY <1>1, NothingFlows DEF FlowInv

(* Of start-up the event loop sees only its own beginning, and of the server *)
(* and the network only what is plugged in and the loss of the connection.   *)
LEMMA HandshakeRunning ==
  ASSUME SessionInv, HandshakeNext, pc' = "running"
  PROVE  \/ pc # "running" /\ StartGadget
         \/ pc = "running" /\ UNCHANGED <<connUp, toServer>>
         \/ pc = "running" /\ ConnLost
<1>1. pc = "running" => toServer \in Seq(Token)
  BY SessionTypes
<1>2. StartInv
  BY DEF SessionInv
<1>3. CASE MainStep
  BY <1>3 DEF MainStep, ListDevices, ListHeader, ListDevice, ImportDevice, ImportHeader, ImportInfo,
              StartGadget, ConnectionFails, At, Request, Structure
<1>4. CASE Server
  <2>1. PICK type \in {"REQ_DEVLIST", "REQ_IMPORT"} : Serve(type)
    BY <1>4 DEF Server, ServerLists, ServerExports, ServerRefuses
  <2>2. pc # "running" /\ UNCHANGED mainVars
    BY <1>1, <1>2, <2>1, ServeStep
  <2> QED
    BY <2>2 DEF mainVars
<1>5. CASE ServerReplugs
  BY <1>5 DEF ServerReplugs, mainVars, streamVars
<1>6. CASE ConnLost
  BY <1>6 DEF ConnLost, mainVars
<1> QED
  BY <1>3, <1>4, <1>5, <1>6 DEF HandshakeNext

LEMMA HandshakeFlows ==
  ASSUME SessionInv, FlowInv, HandshakeNext, UNCHANGED cmdVars PROVE FlowInv'
<1>1. UNCHANGED <<writing, sent, taken, decoded>>
  BY DEF cmdVars
<1>2. Starts(decoded, sent)' /\ WholeCommands' /\ OneWriter' /\ InPart'
  BY <1>1 DEF FlowInv, Starts, WholeCommands, OneWriter, InPart
<1>3. ASSUME pc' = "running" PROVE Starts(OnTheWay, Owed)' /\ (connUp' => AllOnTheWay')
  <2>1. CASE pc # "running" /\ StartGadget
    <3>1. toServer' = << >>
      BY <1>3, <2>1, StartGadgetStep DEF SessionInv
    <3>2. /\ sent = << >> /\ decoded = << >> /\ taken = << >>
          /\ \A t \in Callers : writing[t] = << >>
      BY <2>1, SessionTypes DEF NothingSent
    <3>3. OnTheWay' = << >>
      <4>1. << >> \in Seq(Token)
        OBVIOUS
      <4>2. Joined(<< >>, << >>) = << >>
        BY <4>1, JoinedNone
      <4> QED
        BY <1>1, <3>1, <3>2, <4>2 DEF OnTheWay
    <3>4. Owed' = << >>
      <4>1. << >> \in Seq(Seq(Token))
        OBVIOUS
      <4>2. FlattenSeq(SubSeq(<< >>, Len(<< >>) + 1, Len(<< >>))) = << >>
        BY <4>1, RestNone
      <4> QED
        BY <1>1, <3>2, <4>2 DEF Owed
    <3>5. Starts(<< >>, << >>)
      BY DEF Starts
    <3>6. AllOnTheWay'
      BY <1>1, <3>2, <3>3, <3>4 DEF AllOnTheWay
    <3> QED
      BY <3>3, <3>4, <3>5, <3>6
  <2>2. CASE pc = "running" /\ UNCHANGED <<connUp, toServer>>
    <3>1. OnTheWay' = OnTheWay /\ Owed' = Owed
      BY <1>1, <2>2 DEF OnTheWay, Owed
    <3> QED
      BY <1>1, <2>2, <3>1 DEF FlowInv, AllOnTheWay, WriterFree
  <2>3. CASE pc = "running" /\ ConnLost
    <3>1. PICK j \in 0 .. Len(toServer) : toServer' = SubSeq(toServer, 1, j)
      BY <2>3 DEF ConnLost
    <3>2. PICK a \in Seq(Token), b \in Seq(Token), w \in Seq(Token) :
            a = taken /\ b = toServer /\ w = Owed
      BY <2>3, FlowTypes
    <3>3. Starts(Joined(a, b), w)
      BY <2>3, <3>2 DEF FlowInv, OnTheWay
    <3>4. Starts(Joined(a, SubSeq(b, 1, j)), w)
      BY <3>1, <3>2, <3>3, StartsPart
    <3>5. Starts(OnTheWay, Owed)'
      BY <1>1, <3>1, <3>2, <3>4 DEF OnTheWay, Owed
    <3>6. connUp' = FALSE
      BY <2>3 DEF ConnLost
    <3> QED
      BY <3>5, <3>6
  <2> QED
    BY <1>3, <2>1, <2>2, <2>3, HandshakeRunning
<1> QED
  BY <1>2, <1>3 DEF FlowInv

LEMMA FlowNext == StagesFit /\ SessionInv /\ FlowInv /\ [Next]_vars => FlowInv'
<1> SUFFICES ASSUME StagesFit, SessionInv, FlowInv, [Next]_vars PROVE FlowInv'
  OBVIOUS
<1>1. CASE HandshakeNext /\ UNCHANGED cmdVars
  BY <1>1, HandshakeFlows
<1>2. ASSUME NEW t \in Callers, Submit(t) PROVE FlowInv'
  BY <1>2, SubmitFlows
<1>3. ASSUME NEW t \in Callers, Write(t) PROVE FlowInv'
  BY <1>3, WriteFlows
<1>4. CASE ServerTakes
  BY <1>4, TakesFlows
<1>5. CASE UNCHANGED vars
  <2>1. UNCHANGED <<pc, connUp, toServer, writing, sent, taken, decoded>>
    BY <1>5 DEF vars, hsVars, mainVars, peerVars, streamVars, cmdVars
  <2>2. OnTheWay' = OnTheWay /\ Owed' = Owed
    BY <2>1 DEF OnTheWay, Owed
  <2> QED
    BY <2>1, <2>2 DEF FlowInv, Starts, WholeCommands, OneWriter, InPart, AllOnTheWay, WriterFree
<1> QED
  BY <1>1, <1>2, <1>3, <1>4, <1>5 DEF Next, StreamStep

LEMMA StartsIsPrefix ==
  ASSUME NEW X, NEW s \in Seq(X), NEW w \in Seq(X), Starts(s, w) PROVE IsPrefix(s, w)
<1>1. Len(s) \in Nat /\ Len(w) \in Nat /\ Len(s) <= Len(w) /\ \A i \in 1 .. Len(s) : s[i] = w[i]
  BY DEF Starts
<1>2. PICK p \in Seq(X), q \in Seq(X) :
        p = SubSeq(s, 1, Len(s)) /\ q = SubSeq(w, 1, Len(s))
  <2>1. Len(s) \in 0 .. Len(s) /\ Len(s) \in 0 .. Len(w)
    BY <1>1
  <2> QED
    BY <2>1, PartStarts
<1>3. /\ Len(p) = Len(s) /\ \A i \in 1 .. Len(s) : p[i] = s[i]
      /\ Len(q) = Len(s) /\ \A i \in 1 .. Len(s) : q[i] = w[i]
  BY <1>1, <1>2
<1>4. p = q
  BY <1>1, <1>3, SeqEqual
<1> QED
  BY <1>1, <1>2, <1>4 DEF IsPrefix

(* What the server takes off the stream are the commands in the order of     *)
(* their numbers, each with all of its data and nothing else's, for any      *)
(* number of threads and commands and wherever the connection is lost        *)
(* (main.rs:61, client.rs:409-414).  Packets of any length may pass          *)
(* (device.rs:177-199).  The hypothesis is needed: a control transfer with   *)
(* data from the host announces wLength (main.rs:422) and has no more of it  *)
(* than ep0_read's buffer can carry.                                         *)
THEOREM CommandsArriveWhole == StagesFit => (Spec => []CommandsArrive)
<1> SUFFICES ASSUME StagesFit PROVE Spec => []CommandsArrive
  OBVIOUS
<1>1. Init => FlowInv
  BY FlowInit
<1>2. SessionInv /\ FlowInv /\ [Next]_vars => FlowInv'
  BY FlowNext
<1>3. SessionInv /\ FlowInv => CommandsArrive
  BY SessionTypes, StartsIsPrefix DEF FlowInv, CommandsArrive
<1> QED
  BY <1>1, <1>2, <1>3, SessionIsInvariant, PTL DEF Spec
=============================================================================
