------------------------- MODULE UsbipClientProofs -------------------------
(* Theorems about UsbipClient, for every MaxSeq and every number of URBs. *)
EXTENDS UsbipClient, SequenceTheorems, TLAPS

(* What the server appends, the reader takes and a reset leaves behind are  *)
(* streams of tokens.                                                      *)
LEMMA AnswerType ==
  ASSUME NEW s \in Seqnum, NEW dir \in Direction, NEW n \in {0, 1}
  PROVE  Answer(s, dir, n) \in Seq(Token)
<1>1. RetSubmit(s, n) \in Token /\ Payload(s) \in Token
  BY DEF RetSubmit, Payload, Token
<1>2. QED
  BY <1>1 DEF Answer

LEMMA PrefixType ==
  ASSUME NEW q \in Seq(Token), NEW k \in 0 .. Len(q)
  PROVE  SubSeq(q, 1, k) \in Seq(Token)
<1>1. \A i \in 1 .. k : q[i] \in Token
  BY ElementOfSeq, LenProperties
<1>2. QED
  BY <1>1, SubSeqProperties, LenProperties

(* Every command the client may send is one, and making or dropping its    *)
(* entry keeps the maps what they are.                                     *)
LEMMA CommandType == TypeOK => Commands \subseteq Command
BY ClientAssumption DEF TypeOK, Commands, SubmitCmd, UnlinkCmd, Command, Seqnum

LEMMA EntryType ==
  ASSUME TypeOK, NEW c \in Command, NEW e,
         e = NoEntry \/ (c.op = "submit" /\ e = c.dir) \/ (c.op = "unlink" /\ e = c.target),
         SetEntry(c, e)
  PROVE  /\ sharedPending' \in [Seqnum -> Direction \cup {NoEntry}]
         /\ sharedUnlinks' \in [Seqnum -> Seqnum \cup {NoEntry}]
BY DEF TypeOK, SetEntry, Command

LEMMA SocketType ==
  ASSUME TypeOK, NEW c \in Command, SocketTakes(c)
  PROVE  /\ urbs' \in [Seqnum -> Direction \cup {NoEntry}]
         /\ unlinkReqs' \subseteq [seq : Seqnum, target : Seqnum]
BY DEF TypeOK, SocketTakes, Command

(* Every step of the client and of its server keeps every variable in its  *)
(* type; sequence numbers stay in the u32 range because alloc_seqnum       *)
(* (client.rs:236) wraps or panics at its end.                             *)
LEMMA ClientTypeStep == TypeOK /\ [Next]_clientVars => TypeOK'
<1> SUFFICES ASSUME TypeOK, [Next]_clientVars PROVE TypeOK'
  OBVIOUS
<1>0. Commands \subseteq Command
  BY CommandType
<1>a. Alloc => nextSeq' \in Seqnum /\ performed' \subseteq Seqnum
  BY ClientAssumption DEF TypeOK, Alloc, AllocPanics, AllocSeqnum, Seqnum
<1>e. ASSUME NEW c \in Command, Enter(c)
      PROVE  /\ sharedPending' \in [Seqnum -> Direction \cup {NoEntry}]
             /\ sharedUnlinks' \in [Seqnum -> Seqnum \cup {NoEntry}]
  <2>1. c.op = "submit" \/ c.op = "unlink"
    BY DEF Command
  <2>2. QED
    BY <1>e, <2>1, EntryType DEF Enter
<1>1. ASSUME UNCHANGED clientVars PROVE TypeOK'
  BY <1>1 DEF clientVars, writerVars, mapVars, recvVars, serverVars, TypeOK
<1>2. ASSUME AllocPanic PROVE TypeOK'
  BY <1>2 DEF AllocPanic, mapVars, recvVars, serverVars, TypeOK
<1>3. ASSUME NEW c \in Commands, ConnSend(c) PROVE TypeOK'
  <2>1. /\ urbs' \in [Seqnum -> Direction \cup {NoEntry}]
        /\ unlinkReqs' \subseteq [seq : Seqnum, target : Seqnum]
    BY <1>0, <1>3, SocketType DEF ConnSend
  <2>2. /\ sharedPending' \in [Seqnum -> Direction \cup {NoEntry}]
        /\ sharedUnlinks' \in [Seqnum -> Seqnum \cup {NoEntry}]
    BY <1>0, <1>3, <1>e DEF ConnSend, mapVars, TypeOK
  <2>3. QED
    BY <1>3, <1>a, <2>1, <2>2 DEF ConnSend, recvVars, TypeOK
<1>4. ASSUME NEW c \in Commands, Send(c) PROVE TypeOK'
  BY <1>0, <1>4, <1>a, <1>e DEF Send, recvVars, TypeOK
<1>5. CASE IntoSplit
  BY <1>5 DEF IntoSplit, mapVars, recvVars, TypeOK
<1>6. CASE WriteCmd
  <2>1. /\ urbs' \in [Seqnum -> Direction \cup {NoEntry}]
        /\ unlinkReqs' \subseteq [seq : Seqnum, target : Seqnum]
    BY <1>6, SocketType DEF WriteCmd, TypeOK
  <2>2. QED
    BY <1>6, <2>1 DEF WriteCmd, mapVars, recvVars, TypeOK
<1>7. CASE WriteFails
  BY <1>7 DEF WriteFails, mapVars, recvVars, serverVars, TypeOK
<1>8. CASE Cleanup
  <2>1. /\ sharedPending' \in [Seqnum -> Direction \cup {NoEntry}]
        /\ sharedUnlinks' \in [Seqnum -> Seqnum \cup {NoEntry}]
    BY <1>8, EntryType DEF Cleanup, TypeOK
  <2>2. QED
    BY <1>8, <2>1 DEF Cleanup, recvVars, serverVars, TypeOK
<1> USE ClientAssumption DEF TypeOK, mapVars, recvVars, serverVars, writerVars
<1> Unknown \in Token
  BY DEF Unknown, Token, Seqnum
<1>9. CASE RecvCall \/ RecvReturn
  BY <1>9 DEF RecvCall, RecvReturn
<1>10. CASE Recv
  <2>1. toClient # <<>> => Head(toClient) \in Token /\ Tail(toClient) \in Seq(Token)
    BY HeadTailProperties
  <2>2. ASSUME NEW types, ReadHeader(types)
        PROVE  /\ rdMsg' \in Token /\ toClient' \in Seq(Token) /\ rdMsg'.seq \in Seqnum
               /\ UNCHANGED <<writerVars, serverVars>>
    BY <2>1, <2>2 DEF ReadHeader, Token
  <2>3. CASE RecvRetSubmit
    BY <2>2, <2>3 DEF RecvRetSubmit
  <2>4. CASE RecvData
    <3>1. <<Unknown>> \in Seq(Token) /\ (toClient # <<>> => <<Unknown>> \o Tail(toClient) \in Seq(Token))
      BY <2>1, ConcatProperties
    <3>2. QED
      BY <2>1, <2>4, <3>1 DEF RecvData
  <2>5. CASE RecvRetUnlink
    <3>1. sharedPending' \in [Seqnum -> Direction \cup {NoEntry}]
      BY <2>5 DEF RecvRetUnlink, RetiresTarget
    <3>2. QED
      BY <2>2, <2>5, <3>1 DEF RecvRetUnlink
  <2>6. CASE RecvGarbage
    BY <2>2, <2>6 DEF RecvGarbage
  <2>7. CASE RecvEof
    BY <2>7 DEF RecvEof
  <2>8. QED
    BY <1>10, <2>3, <2>4, <2>5, <2>6, <2>7 DEF Recv
<1>11. ASSUME NEW s \in Seqnum, ServerCompletes(s) PROVE TypeOK'
  <2>1. urbs[s] \in Direction
    BY <1>11 DEF ServerCompletes
  <2>2. PICK n \in {0, 1} : toClient' = toClient \o Answer(s, urbs[s], n)
    BY <1>11 DEF ServerCompletes
  <2>3. toClient' \in Seq(Token)
    BY <2>1, <2>2, AnswerType, ConcatProperties
  <2>4. QED
    BY <1>11, <2>3 DEF ServerCompletes, writerVars
<1>12. ASSUME NEW r \in unlinkReqs, ServerUnlinks(r) PROVE TypeOK'
  <2>1. RetUnlink(r.seq, urbs[r.target] # NoEntry) \in Token
    BY DEF RetUnlink, Token
  <2>2. toClient' \in Seq(Token)
    BY <1>12, <2>1, AppendProperties DEF ServerUnlinks
  <2>3. QED
    BY <1>12, <2>2 DEF ServerUnlinks, writerVars
<1>13. CASE ServerStrays
  <2>1. PICK m \in Strays : toClient' = <<m>>
    BY <1>13 DEF ServerStrays
  <2>2. m \in Token
    <3>1. \A s \in Seqnum, n \in {0, 1} : RetSubmit(s, n) \in Token
      BY DEF RetSubmit, Token
    <3>2. \A s \in Seqnum, r \in BOOLEAN : RetUnlink(s, r) \in Token
      BY DEF RetUnlink, Token
    <3>3. QED
      BY <2>1, <3>1, <3>2 DEF Strays
  <2>3. QED
    BY <1>13, <2>1, <2>2 DEF ServerStrays, writerVars, serverVars
<1>14. CASE ConnLost
  <2>1. PICK k \in 0 .. Len(toClient) : toClient' = SubSeq(toClient, 1, k)
    BY <1>14 DEF ConnLost
  <2>2. toClient' \in Seq(Token)
    BY <2>1, PrefixType
  <2>3. QED
    BY <1>14, <2>2 DEF ConnLost, writerVars
<1>15. QED
  BY <1>1, <1>2, <1>3, <1>4, <1>5, <1>6, <1>7, <1>8, <1>9, <1>10, <1>11,
     <1>12, <1>13, <1>14 DEF Next, Server

LEMMA ClientTypeInit == ASSUME NEW m \in {"whole", "split"}, InitConn(m) PROVE TypeOK
<1>1. /\ mode \in {"whole", "split", "closed"} /\ nextSeq \in Seqnum
      /\ wrPc \in {"idle", "write", "cleanup", "panicked"}
      /\ rdPc \in {"idle", "read", "data", "ok", "err"}
  BY ClientAssumption DEF InitConn, Seqnum
<1>2. cmd \in Command /\ rdMsg \in Token
  BY ClientAssumption DEF InitConn, Command, Unknown, Token, Seqnum, Direction
<1>3. /\ sharedPending \in [Seqnum -> Direction \cup {NoEntry}]
      /\ sharedUnlinks \in [Seqnum -> Seqnum \cup {NoEntry}]
      /\ urbs \in [Seqnum -> Direction \cup {NoEntry}]
  BY DEF InitConn, Nothing
<1>4. /\ connUp \in BOOLEAN /\ strayed \in BOOLEAN
      /\ unlinkReqs \subseteq [seq : Seqnum, target : Seqnum] /\ performed \subseteq Seqnum
  BY DEF InitConn
<1>5. toClient \in Seq(Token)
  BY EmptySeq DEF InitConn
<1>6. QED
  BY <1>1, <1>2, <1>3, <1>4, <1>5 DEF TypeOK

(* The library's maps, numbers and stream keep their types.                *)
THEOREM ClientTypeCorrect == Spec => []TypeOK
<1>1. Init => TypeOK
  BY ClientTypeInit DEF Init
<1>2. QED
  BY <1>1, ClientTypeStep, PTL DEF Spec
=============================================================================
