------------------------- MODULE UsbipBridgeProofs -------------------------
(***************************************************************************)
(* Theorems about UsbipBridge, for every set of callers, every MaxSeq and   *)
(* every server, one that sends stray answers included.                     *)
(***************************************************************************)
EXTENDS UsbipBridge, UsbipClientProofs

-----------------------------------------------------------------------------
(* The bridge runs the library's steps and no other, so what holds of every *)
(* step of the client holds of every step of the bridge.                    *)

ClientSplitSpec == InitConn("split") /\ [][Next]_clientVars

LEMMA BridgeStepIsClientStep == [BridgeNext]_vars => [Next]_clientVars
<1> SUFFICES ASSUME [BridgeNext]_vars PROVE Next \/ UNCHANGED clientVars
  BY DEF vars
<1>1. CASE UNCHANGED vars
  BY <1>1 DEF vars
<1>2. ASSUME NEW t \in Callers, SubmitStep(t) PROVE Next \/ UNCHANGED clientVars
  <2>1. CASE Submit(t) \/ LockWriter(t) \/ LockPoisoned(t) \/ Insert(t) \/ Return(t)
    BY <2>1 DEF Submit, LockWriter, LockPoisoned, Insert, Return
  <2>2. CASE Register(t)
    <3>1. PICK dir \in Direction : Send(SubmitCmd(dir))
      BY <2>2 DEF Register
    <3>2. SubmitCmd(dir) \in Commands
      BY DEF Commands
    <3>3. QED
      BY <3>1, <3>2 DEF Next
  <2>3. CASE RegisterPanics(t) \/ Write(t) \/ WriteError(t) \/ SendFailed(t)
    BY <2>3 DEF RegisterPanics, Write, WriteError, SendFailed, Next
  <2>4. QED
    BY <1>2, <2>1, <2>2, <2>3 DEF SubmitStep
<1>3. CASE ReaderStep
  BY <1>3 DEF ReaderStep, ReaderRecv, TakeTx, SendTx, IgnoreUnlink, Received, ReaderStops,
              Drain, Next
<1>4. CASE ServerStep
  BY <1>4 DEF ServerStep, Next, Server
<1>5. QED
  BY <1>1, <1>2, <1>3, <1>4 DEF BridgeNext

(* UsbipBridge is a client of the library in its split form.                *)
THEOREM BridgeUsesClient == BridgeSpec => ClientSplitSpec
<1>1. BridgeInit => InitConn("split")
  BY DEF BridgeInit
<1>2. QED
  BY <1>1, BridgeStepIsClientStep, PTL DEF BridgeSpec, ClientSplitSpec

-----------------------------------------------------------------------------
LEMMA ContentType ==
  /\ Empty \in Content /\ Terminated \in Content /\ Dropped \in Content
  /\ \A s \in Seqnum : Ok(s) \in Content
BY ClientAssumption DEF Empty, Terminated, Dropped, Ok, Content, Seqnum

LEMMA BridgeTypeInit == BridgeInit => BridgeTypeOK
<1> SUFFICES ASSUME BridgeInit PROVE BridgeTypeOK
  OBVIOUS
<1>1. TypeOK
  BY ClientTypeInit DEF BridgeInit
<1>2. 0 \in Seqnum
  BY ClientAssumption DEF Seqnum
<1>3. QED
  BY <1>1, <1>2, ContentType DEF BridgeInit, BridgeTypeOK, Nothing

LEMMA BridgeTypeStep == BridgeTypeOK /\ [BridgeNext]_vars => BridgeTypeOK'
<1> SUFFICES ASSUME BridgeTypeOK, [BridgeNext]_vars PROVE BridgeTypeOK'
  OBVIOUS
<1>0. TypeOK'
  BY BridgeStepIsClientStep, ClientTypeStep DEF BridgeTypeOK
<1> USE <1>0 DEF BridgeTypeOK
<1>1. CASE UNCHANGED vars
  BY <1>1 DEF vars, bridgeVars, readerVars
<1>2. ASSUME NEW t \in Callers, SubmitStep(t) PROVE BridgeTypeOK'
  <2> USE DEF Goto, readerVars
  <2>1. CASE Submit(t) \/ LockWriter(t) \/ LockPoisoned(t) \/ RegisterPanics(t)
    BY <2>1 DEF Submit, LockWriter, LockPoisoned, RegisterPanics
  <2>2. CASE Register(t)
    BY <2>2 DEF Register, TypeOK
  <2>3. CASE Write(t) \/ WriteError(t) \/ SendFailed(t)
    BY <2>3 DEF Write, WriteError, SendFailed
  <2>4. CASE Insert(t)
    <3>1. chan' \in [Callers -> Content]
      BY <2>4, ContentType DEF Insert, NumberOf, TypeOK
    <3>2. QED
      BY <2>4, <3>1 DEF Insert, NumberOf
  <2>5. CASE Return(t)
    BY <2>5, ContentType DEF Return
  <2>6. QED
    BY <1>2, <2>1, <2>2, <2>3, <2>4, <2>5 DEF SubmitStep
<1>3. CASE ReaderRecv \/ IgnoreUnlink \/ ReaderStops
  BY <1>3 DEF ReaderRecv, IgnoreUnlink, Received, Logged, ReaderStops, bridgeVars, readerVars
<1>4. CASE TakeTx
  <2>1. rdMsg.seq \in Seqnum
    BY DEF TypeOK, Token
  <2>2. QED
    BY <1>4, <2>1 DEF TakeTx, Received, OnSender, Removed
<1>5. CASE SendTx
  <2>1. Ok(rdMsg.seq) \in Content
    BY ContentType DEF TypeOK, Token
  <2>2. QED
    BY <1>5, <2>1 DEF SendTx
<1>6. CASE Drain
  BY <1>6, ContentType DEF Drain, Drained, Nothing
<1>7. CASE ServerStep
  BY <1>7 DEF ServerStep, bridgeVars, readerVars
<1>8. QED
  BY <1>1, <1>2, <1>3, <1>4, <1>5, <1>6, <1>7 DEF BridgeNext, ReaderStep

(* Every variable of the bridge keeps its type; in particular the reader    *)
(* thread has a sender in hand exactly while it is sending (main.rs:91).    *)
THEOREM BridgeTypeCorrect == BridgeSpec => []BridgeTypeOK
BY BridgeTypeInit, BridgeTypeStep, PTL DEF BridgeSpec

-----------------------------------------------------------------------------
LEMMA CallInvInit == BridgeInit => CallInv
BY CallersAssumption, ClientAssumption
   DEF BridgeInit, CallInv, StoredSenderWaits, TakenSenderWaits, ReceivedByWaiter,
       FreshNumbers, Numbered, WaiterIsRegistered, Nothing

(* Taking a number: alloc_seqnum does not wrap under overflow checks, so     *)
(* the number is greater than all those in use.                             *)
LEMMA FreshStep ==
  BridgeTypeOK /\ FreshNumbers /\ [BridgeNext]_vars => FreshNumbers'
<1> SUFFICES ASSUME BridgeTypeOK, FreshNumbers, [BridgeNext]_vars, OverflowChecks
             PROVE  FreshNumbers'
  BY DEF FreshNumbers
<1> USE DEF BridgeTypeOK, TypeOK, Seqnum
<1>1. ASSUME UNCHANGED <<callPc, seqOf>>, nextSeq' = nextSeq
      PROVE  FreshNumbers'
  BY <1>1 DEF FreshNumbers, Numbered
<1>2. CASE UNCHANGED vars \/ ReaderStep \/ ServerStep
  <2>1. UNCHANGED <<callPc, seqOf>>
    BY <1>2 DEF vars, bridgeVars, ReaderStep, ServerStep, ReaderRecv, TakeTx, SendTx,
                IgnoreUnlink, Received, ReaderStops, Drain
  <2>2. nextSeq' = nextSeq
    BY <1>2 DEF vars, clientVars, writerVars, ReaderStep, ServerStep, ReaderRecv, TakeTx,
                SendTx, IgnoreUnlink, Received, ReaderStops, Drain, RecvCall, RecvReturn, Recv,
                RecvRetSubmit, RecvData, RecvRetUnlink, RecvGarbage, RecvEof, ReadHeader,
                ServerCompletes, ServerStrays, ConnLost
  <2>3. QED
    BY <2>1, <2>2, <1>1
<1>3. ASSUME NEW t \in Callers, SubmitStep(t) PROVE FreshNumbers'
  <2>1. CASE Register(t)
    <3>1. nextSeq' = nextSeq + 1
      BY <2>1 DEF Register, Send, Alloc, AllocPanics, AllocSeqnum
    <3>2. seqOf' = [seqOf EXCEPT ![t] = nextSeq] /\ callPc' = [callPc EXCEPT ![t] = "send"]
      BY <2>1 DEF Register, Goto
    <3>3. QED
      BY <3>1, <3>2, ClientAssumption DEF FreshNumbers, Numbered
  <2>2. CASE ~Register(t)
    <3>1. nextSeq' = nextSeq /\ seqOf' = seqOf
      BY <1>3, <2>2
         DEF SubmitStep, Submit, LockWriter, LockPoisoned, RegisterPanics, Write, WriteError,
             SendFailed, Insert, Return, clientVars, writerVars, AllocPanic, WriteCmd,
             WriteFails, Cleanup
    <3>2. \A u \in Callers : Numbered(u)' => Numbered(u)
      BY <1>3, <2>2
         DEF SubmitStep, Submit, LockWriter, LockPoisoned, RegisterPanics, Write, WriteError,
             SendFailed, Insert, Return, Goto, Numbered
    <3>3. QED
      BY <3>1, <3>2 DEF FreshNumbers
  <2>3. QED
    BY <2>1, <2>2
<1>4. QED
  BY <1>2, <1>3 DEF BridgeNext

(* A step that moves callers only between places other than waiting, and    *)
(* leaves the map and the channels alone, keeps who waits for what.         *)
LEMMA OutsideStep ==
  ASSUME BridgeTypeOK, CallInv, FreshNumbers',
         UNCHANGED <<chan, pending, rdThread, rdTx, rdMsg>>,
         \A u \in Callers : callPc[u] = "wait" <=> callPc'[u] = "wait",
         \A u \in Callers : callPc[u] = "wait" => seqOf'[u] = seqOf[u]
  PROVE  CallInv'
<1> USE DEF CallInv, BridgeTypeOK
<1>1. StoredSenderWaits'
  BY DEF StoredSenderWaits
<1>2. TakenSenderWaits'
  BY DEF TakenSenderWaits, Registered
<1>3. ReceivedByWaiter'
  BY DEF ReceivedByWaiter
<1>4. WaiterIsRegistered'
  BY DEF WaiterIsRegistered
<1>5. QED
  BY <1>1, <1>2, <1>3, <1>4

LEMMA CallInvStep == BridgeTypeOK /\ CallInv /\ [BridgeNext]_vars => CallInv'
<1> SUFFICES ASSUME BridgeTypeOK, CallInv, [BridgeNext]_vars PROVE CallInv'
  OBVIOUS
<1>0. FreshNumbers'
  BY FreshStep DEF CallInv
<1> USE CallersAssumption
<1>1. CASE UNCHANGED vars
  BY <1>0, <1>1, OutsideStep DEF vars, bridgeVars, readerVars, clientVars, recvVars
<1>2. ASSUME NEW t \in Callers, SubmitStep(t) PROVE CallInv'
  <2>1. CASE Submit(t) \/ LockWriter(t) \/ LockPoisoned(t) \/ Register(t)
             \/ RegisterPanics(t) \/ Write(t) \/ WriteError(t) \/ SendFailed(t)
    <3>1. UNCHANGED <<chan, pending, rdThread, rdTx, rdMsg>>
      BY <2>1 DEF Submit, LockWriter, LockPoisoned, Register, RegisterPanics, Write, WriteError,
                  SendFailed, clientVars, Send, AllocPanic, WriteCmd, WriteFails, Cleanup,
                  readerVars, recvVars
    <3>2. \A u \in Callers : callPc[u] = "wait" <=> callPc'[u] = "wait"
      BY <2>1 DEF Submit, LockWriter, LockPoisoned, Register, RegisterPanics, Write, WriteError,
                  SendFailed, Goto, BridgeTypeOK
    <3>3. \A u \in Callers : callPc[u] = "wait" => seqOf'[u] = seqOf[u]
      BY <2>1 DEF Submit, LockWriter, LockPoisoned, Register, RegisterPanics, Write, WriteError,
                  SendFailed, Goto, BridgeTypeOK
    <3>4. QED
      BY <1>0, <3>1, <3>2, <3>3, OutsideStep
  <2>2. CASE Insert(t)
    <3> USE <2>2 DEF Insert, NumberOf, Goto, CallInv, BridgeTypeOK, clientVars, recvVars,
                 readerVars
    <3> DEFINE s0 == seqOf[t]
               u0 == pending[s0]
    <3>1. t \notin Registered /\ chan[t] = Empty /\ (rdThread = "send" => rdTx # t)
      BY DEF Registered, StoredSenderWaits, ReceivedByWaiter, TakenSenderWaits
    <3>2. \A u \in Callers : chan'[u] # chan[u] => u = u0 /\ chan'[u] = Dropped
      OBVIOUS
    <3>3. u0 \in Callers => callPc[u0] = "wait" /\ u0 # t /\ seqOf[u0] = s0
      BY <3>1 DEF Registered, StoredSenderWaits
    <3>4. Dropped # Empty /\ Dropped.kind # "ok"
      BY DEF Dropped, Empty
    <3>5. StoredSenderWaits'
      BY <3>1, <3>2, <3>3 DEF StoredSenderWaits, Registered
    <3>6. TakenSenderWaits'
      BY <3>1, <3>2, <3>3 DEF TakenSenderWaits, Registered
    <3>7. ReceivedByWaiter'
      BY <3>2, <3>3, <3>4 DEF ReceivedByWaiter
    <3>8. WaiterIsRegistered'
      BY <3>2, <3>3, <3>4 DEF WaiterIsRegistered, FreshNumbers, Numbered
    <3>9. QED
      BY <1>0, <3>5, <3>6, <3>7, <3>8
  <2>3. CASE Return(t)
    <3> USE <2>3 DEF Return, Goto, CallInv, BridgeTypeOK, clientVars, recvVars, readerVars
    <3>1. t \notin Registered /\ (rdThread = "send" => rdTx # t)
      BY DEF Registered, StoredSenderWaits, TakenSenderWaits
    <3>2. StoredSenderWaits'
      BY <3>1 DEF StoredSenderWaits, Registered
    <3>3. TakenSenderWaits'
      BY <3>1 DEF TakenSenderWaits, Registered
    <3>4. ReceivedByWaiter'
      BY DEF ReceivedByWaiter
    <3>5. WaiterIsRegistered'
      BY DEF WaiterIsRegistered
    <3>6. QED
      BY <1>0, <3>2, <3>3, <3>4, <3>5
  <2>4. QED
    BY <1>2, <2>1, <2>2, <2>3 DEF SubmitStep
<1>3. CASE ReaderRecv
  <2> USE <1>3 DEF ReaderRecv, bridgeVars, readerVars, CallInv, BridgeTypeOK
  <2>1. StoredSenderWaits' /\ ReceivedByWaiter' /\ WaiterIsRegistered'
    BY DEF StoredSenderWaits, ReceivedByWaiter, WaiterIsRegistered
  <2>2. TakenSenderWaits'
    BY DEF TakenSenderWaits
  <2>3. QED
    BY <1>0, <2>1, <2>2
<1>4. CASE IgnoreUnlink \/ ReaderStops \/ ServerStep
  <2> USE <1>4 DEF IgnoreUnlink, Received, Logged, ReaderStops, ServerStep, bridgeVars,
                   readerVars, CallInv, BridgeTypeOK
  <2>1. StoredSenderWaits' /\ ReceivedByWaiter' /\ WaiterIsRegistered'
    BY DEF StoredSenderWaits, ReceivedByWaiter, WaiterIsRegistered
  <2>2. TakenSenderWaits'
    BY DEF TakenSenderWaits, Registered, RecvReturn, ServerCompletes, ServerStrays, ConnLost,
           clientVars, recvVars
  <2>3. QED
    BY <1>0, <2>1, <2>2
<1>5. CASE TakeTx
  <2> USE <1>5 DEF TakeTx, Received, OnSender, Removed, RecvReturn, CallInv, BridgeTypeOK
  <2>1. rdMsg.seq \in Seqnum /\ rdMsg' = rdMsg
    BY DEF TypeOK, Token
  <2>2. StoredSenderWaits' /\ ReceivedByWaiter'
    BY <2>1 DEF StoredSenderWaits, ReceivedByWaiter
  <2>3. TakenSenderWaits'
    BY <2>1 DEF TakenSenderWaits, StoredSenderWaits, Registered
  <2>4. WaiterIsRegistered'
    BY <2>1 DEF WaiterIsRegistered, StoredSenderWaits
  <2>5. QED
    BY <1>0, <2>2, <2>3, <2>4
<1>6. CASE SendTx
  <2> USE <1>6 DEF SendTx, CallInv, BridgeTypeOK, clientVars, recvVars
  <2>1. Ok(rdMsg.seq) # Empty /\ Ok(rdMsg.seq).seq = rdMsg.seq
    BY DEF Ok, Empty
  <2>2. StoredSenderWaits' /\ TakenSenderWaits'
    BY DEF StoredSenderWaits, TakenSenderWaits, Registered
  <2>3. ReceivedByWaiter' /\ WaiterIsRegistered'
    BY <2>1 DEF ReceivedByWaiter, WaiterIsRegistered, TakenSenderWaits
  <2>4. QED
    BY <1>0, <2>2, <2>3
<1>7. CASE Drain
  <2> USE <1>7 DEF Drain, Drained, CallInv, BridgeTypeOK, clientVars, recvVars
  <2>1. Terminated # Empty /\ Terminated.kind # "ok"
    BY DEF Terminated, Empty
  <2>2. StoredSenderWaits' /\ TakenSenderWaits'
    BY DEF StoredSenderWaits, TakenSenderWaits, Nothing
  <2>3. ReceivedByWaiter'
    BY <2>1 DEF ReceivedByWaiter, StoredSenderWaits, Registered
  <2>4. WaiterIsRegistered'
    BY <2>1 DEF WaiterIsRegistered, Registered, TypeOK
  <2>5. QED
    BY <1>0, <2>2, <2>3, <2>4
<1>8. QED
  BY <1>1, <1>2, <1>3, <1>4, <1>5, <1>6, <1>7 DEF BridgeNext, ReaderStep

LEMMA CallInvImplies ==
  BridgeTypeOK /\ CallInv => AnswerMatchesCall /\ ReaderNeverBlocks /\ WaiterIsRegistered
<1> SUFFICES ASSUME BridgeTypeOK, CallInv
             PROVE  AnswerMatchesCall /\ ReaderNeverBlocks /\ WaiterIsRegistered
  OBVIOUS
<1> USE DEF CallInv
<1>1. AnswerMatchesCall
  BY DEF AnswerMatchesCall, ReceivedByWaiter, TakenSenderWaits, Empty
<1>2. ReaderNeverBlocks
  BY DEF ReaderNeverBlocks, TakenSenderWaits, StoredSenderWaits, Registered
<1>3. QED
  BY <1>1, <1>2

LEMMA CallInvCorrect == BridgeSpec => [](BridgeTypeOK /\ CallInv)
<1>1. BridgeInit => BridgeTypeOK /\ CallInv
  BY BridgeTypeInit, CallInvInit
<1>2. BridgeTypeOK /\ CallInv /\ [BridgeNext]_vars => (BridgeTypeOK /\ CallInv)'
  BY BridgeTypeStep, CallInvStep
<1>3. QED
  BY <1>1, <1>2, PTL DEF BridgeSpec

(* The reader thread hands every answer to the call it answers (main.rs:91), *)
(* whether sequence numbers wrap or not.                                    *)
THEOREM AnswersMatchCalls == BridgeSpec => []AnswerMatchesCall
BY CallInvCorrect, CallInvImplies, PTL

(* The reader thread never blocks on a caller's channel (main.rs:95, 116).  *)
THEOREM ReaderIsNeverBlocked == BridgeSpec => []ReaderNeverBlocks
BY CallInvCorrect, CallInvImplies, PTL

(* With overflow checks, a caller that waits is in the map or is being       *)
(* answered, or its channel already holds how its call ended: no sender is   *)
(* dropped (main.rs:73).                                                     *)
THEOREM WaitersStayRegistered == BridgeSpec => []WaiterIsRegistered
BY CallInvCorrect, CallInvImplies, PTL
=============================================================================
