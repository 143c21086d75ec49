--------------------------- MODULE UrbCallsProofs ---------------------------
(***************************************************************************)
(* UsbipBridge against a server that keeps to the protocol: the reader      *)
(* thread lives as long as the connection, and submit keeps the promise of  *)
(* UrbCalls.  For every set of callers and every MaxSeq, as long as numbers *)
(* do not wrap.                                                             *)
(***************************************************************************)
EXTENDS UsbipBridgeProofs, UsbipAccountsProofs

-----------------------------------------------------------------------------
(* The accounts of the library balance in the bridge too.                    *)
LEMMA BridgeAccountsCorrect ==
  ASSUME OverflowChecks PROVE BridgeSpec => [](BridgeTypeOK /\ CallInv /\ Accounts)
<1>1. BridgeInit => Accounts
  BY AccountsInit DEF BridgeInit
<1>2. BridgeTypeOK /\ Accounts /\ [BridgeNext]_vars => Accounts'
  BY BridgeStepIsClientStep, AccountsStep DEF BridgeTypeOK
<1>3. QED
  BY <1>1, <1>2, CallInvCorrect, PTL DEF BridgeSpec

-----------------------------------------------------------------------------
(* recv fails only when the connection is gone or the server has strayed.    *)
LEMMA RecvSucceeds ==
  ASSUME TypeOK, Accounts, Recv, connUp, ~strayed
  PROVE  rdPc' # "err"
<1>1. CASE RecvRetSubmit
  <2>1. rdMsg' = toClient[1] /\ 1 \in Answers("RET_SUBMIT")
    BY <1>1, Taken DEF RecvRetSubmit, ReadHeader, Answers
  <2>2. sharedPending[rdMsg'.seq] # NoEntry
    BY <2>1 DEF Accounts, Balanced, UrbAccounts
  <2>3. QED
    BY <1>1, <2>2 DEF RecvRetSubmit
<1>2. CASE RecvGarbage
  <2>1. rdPc = "read" /\ (1 \in Answers("unknown") \/ 1 \in Answers("payload"))
    BY <1>2, Taken DEF RecvGarbage, ReadHeader, Answers
  <2>2. QED
    BY <2>1 DEF Accounts, Balanced, HeaderBeforeData
<1>3. CASE RecvData \/ RecvRetUnlink \/ RecvEof
  BY <1>3 DEF RecvData, RecvRetUnlink, RecvEof
<1>4. QED
  BY <1>1, <1>2, <1>3 DEF Recv

LEMMA ReaderOutlivesStep ==
  BridgeTypeOK /\ Accounts /\ ReaderOutlivesConnection /\ [BridgeNext]_vars
    => ReaderOutlivesConnection'
<1> SUFFICES ASSUME BridgeTypeOK, Accounts, ReaderOutlivesConnection, [BridgeNext]_vars,
                    connUp', ~strayed'
             PROVE  rdPc' # "err" /\ rdThread' \in {"loop", "send"}
  BY DEF ReaderOutlivesConnection
<1> USE DEF readerVars, bridgeVars, recvVars
<1>1. CASE UNCHANGED vars
  BY <1>1 DEF vars, clientVars, serverVars, ReaderOutlivesConnection
<1>2. ASSUME NEW t \in Callers, SubmitStep(t)
      PROVE  rdPc' # "err" /\ rdThread' \in {"loop", "send"}
  <2>1. UNCHANGED <<rdPc, rdThread, connUp, strayed>>
    BY <1>2 DEF SubmitStep, Submit, LockWriter, LockPoisoned, Register, RegisterPanics, Write,
                WriteError, SendFailed, Insert, Return, clientVars, serverVars, Send, AllocPanic,
                WriteCmd, WriteFails, Cleanup
  <2>2. QED
    BY <2>1 DEF ReaderOutlivesConnection
<1>3. CASE ReaderStep
  <2>1. UNCHANGED <<connUp, strayed>>
    BY <1>3 DEF ReaderStep, ReaderRecv, TakeTx, SendTx, IgnoreUnlink, Received, ReaderStops,
                Drain, RecvCall, RecvReturn, Recv, RecvRetSubmit, RecvData, RecvRetUnlink,
                RecvGarbage, RecvEof, ReadHeader, clientVars, serverVars
  <2>2. connUp /\ ~strayed /\ rdPc # "err" /\ rdThread \in {"loop", "send"}
    BY <2>1 DEF ReaderOutlivesConnection
  <2>3. CASE ReaderRecv
    <3>1. CASE RecvCall
      BY <2>2, <2>3, <3>1 DEF ReaderRecv, RecvCall
    <3>2. CASE Recv
      BY <2>2, <2>3, <3>2, RecvSucceeds DEF ReaderRecv, BridgeTypeOK
    <3>3. QED
      BY <2>3, <3>1, <3>2 DEF ReaderRecv
  <2>4. CASE TakeTx \/ IgnoreUnlink
    BY <2>2, <2>4 DEF TakeTx, IgnoreUnlink, Received, RecvReturn, OnSender
  <2>5. CASE SendTx
    BY <2>2, <2>5 DEF SendTx, clientVars
  <2>6. CASE ReaderStops \/ Drain
    BY <2>2, <2>6 DEF ReaderStops, Drain
  <2>7. QED
    BY <1>3, <2>3, <2>4, <2>5, <2>6 DEF ReaderStep
<1>4. CASE ServerStep
  <2>1. UNCHANGED <<rdPc, rdThread>> /\ (connUp' => connUp) /\ (strayed => strayed')
    <3>1. UNCHANGED bridgeVars
      BY <1>4 DEF ServerStep
    <3>2. ASSUME NEW s \in Seqnum, ServerCompletes(s) PROVE UNCHANGED <<rdPc, connUp, strayed>>
      BY <3>2 DEF ServerCompletes
    <3>3. CASE ServerStrays
      BY <3>1, <3>3 DEF ServerStrays
    <3>4. CASE ConnLost
      BY <3>1, <3>4 DEF ConnLost
    <3>5. QED
      BY <1>4, <3>1, <3>2, <3>3, <3>4 DEF ServerStep
  <2>2. QED
    BY <2>1 DEF ReaderOutlivesConnection
<1>5. QED
  BY <1>1, <1>2, <1>3, <1>4 DEF BridgeNext

(* The reader thread (main.rs:75) ends for no other reason than the loss of   *)
(* the connection: no order of submits, answers and failed writes makes recv  *)
(* return an error while the connection is up.                               *)
THEOREM ReaderOutlives == ASSUME OverflowChecks PROVE BridgeSpec => []ReaderOutlivesConnection
<1>1. BridgeInit => ReaderOutlivesConnection
  BY DEF BridgeInit, InitConn, ReaderOutlivesConnection
<1>2. QED
  BY <1>1, BridgeAccountsCorrect, ReaderOutlivesStep, PTL DEF BridgeSpec

-----------------------------------------------------------------------------
(* An answer is evidence: its URB has been carried out, whether the answer    *)
(* is on the stream, in the reader's hands or in a channel, and it stays so   *)
(* because no later command gets the number.                                *)

Earned(s) == s \in performed /\ s < nextSeq

StreamIsEarned ==
  /\ \A i \in Answers("RET_SUBMIT") : Earned(toClient[i].seq)
  /\ rdMsg.type = "RET_SUBMIT" => Earned(rdMsg.seq)

ChannelsAreEarned ==
  /\ \A t \in Callers : chan[t].kind = "empty" => chan[t] = Empty
  /\ \A t \in Callers : chan[t].kind = "ok" => Earned(chan[t].seq)
  /\ rdThread = "send" => rdMsg.type = "RET_SUBMIT"

LEMMA EarnedStays ==
  ASSUME OverflowChecks, TypeOK, [Next]_clientVars, NEW s \in Seqnum, Earned(s)
  PROVE  Earned(s)'
<1>1. nextSeq \in Nat /\ s \in Nat
  BY ClientAssumption DEF TypeOK, Seqnum
<1>2. CASE performed' = performed \ {nextSeq} /\ nextSeq' = nextSeq + 1
  BY <1>1, <1>2 DEF Earned
<1>3. CASE nextSeq' = nextSeq /\ performed \subseteq performed'
  BY <1>3 DEF Earned
<1>4. Alloc => performed' = performed \ {nextSeq} /\ nextSeq' = nextSeq + 1
  BY DEF Alloc, AllocPanics, AllocSeqnum
<1>5. ASSUME NEW c \in Commands, ConnSend(c) \/ Send(c) PROVE Earned(s)'
  BY <1>2, <1>4, <1>5 DEF ConnSend, Send
<1>6. CASE UNCHANGED clientVars \/ AllocPanic \/ IntoSplit \/ WriteCmd \/ WriteFails \/ Cleanup
             \/ RecvCall \/ Recv \/ RecvReturn \/ Server \/ ServerStrays \/ ConnLost
  BY <1>3, <1>6 DEF clientVars, writerVars, serverVars, AllocPanic, IntoSplit, WriteCmd, WriteFails,
     Cleanup, RecvCall, Recv, RecvReturn, RecvRetSubmit, RecvData, RecvRetUnlink, RecvGarbage,
     RecvEof, ReadHeader, Server, ServerCompletes, ServerUnlinks, ServerStrays, ConnLost
<1>7. QED
  BY <1>5, <1>6 DEF Next

(* A token that is new on the stream is no answer, or one to an URB that has  *)
(* just been completed.                                                     *)
LEMMA StreamEarnedStep ==
  ASSUME OverflowChecks, ~StrayAnswers, TypeOK, Accounts, StreamIsEarned, [Next]_clientVars
  PROVE  StreamIsEarned'
<1>1. /\ rdMsg \in Token /\ rdMsg.seq \in Seqnum
      /\ Len(toClient) \in Nat /\ DOMAIN toClient = 1 .. Len(toClient)
      /\ \A i \in 1 .. Len(toClient) : toClient[i] \in Token /\ toClient[i].seq \in Seqnum
  BY Positions DEF TypeOK, Token
<1>2. \A s \in Seqnum : Earned(s) => Earned(s)'
  BY EarnedStays
<1>3. CASE UNCHANGED <<toClient, rdMsg>>
  BY <1>1, <1>2, <1>3 DEF StreamIsEarned, Answers
<1>4. CASE \E types : ReadHeader(types)
  <2>1. toClient # <<>> /\ toClient' = Tail(toClient) /\ rdMsg' = toClient[1]
    BY <1>4, Taken DEF ReadHeader
  <2>2. 1 \in 1 .. Len(toClient)
    BY <1>1, <2>1, EmptySeq DEF TypeOK
  <2>3. rdMsg'.type = "RET_SUBMIT" => Earned(rdMsg'.seq)
    BY <1>1, <2>1, <2>2 DEF StreamIsEarned, Answers
  <2>4. \A i \in Answers("RET_SUBMIT")' : toClient'[i].seq \in Seqnum /\ Earned(toClient'[i].seq)
    BY <1>1, <2>1, TakenAnswers DEF StreamIsEarned, Answers
  <2>5. rdMsg'.seq \in Seqnum
    BY <1>1, <2>1, <2>2
  <2>6. QED
    BY <1>2, <2>3, <2>4, <2>5 DEF StreamIsEarned
<1>5. CASE RecvData
  <2>1. rdMsg' = rdMsg
    BY <1>5 DEF RecvData
  <2>2. \A i \in Answers("RET_SUBMIT")' : toClient'[i].seq \in Seqnum /\ Earned(toClient'[i].seq)
    BY <1>1, <1>5, DataTaken DEF StreamIsEarned, Answers
  <2>3. QED
    BY <1>1, <1>2, <2>1, <2>2 DEF StreamIsEarned
<1>6. ASSUME NEW S, rdMsg' = rdMsg, \A x \in S : Earned(x)',
             \A i \in Answers("RET_SUBMIT")' :
               \/ i \in Answers("RET_SUBMIT") /\ toClient'[i] = toClient[i]
               \/ toClient'[i].seq \in S
      PROVE  StreamIsEarned'
  <2>1. ASSUME NEW i \in Answers("RET_SUBMIT")', NEW x, x = toClient'[i].seq PROVE Earned(x)'
    <3>1. CASE i \in Answers("RET_SUBMIT") /\ toClient'[i] = toClient[i]
      BY <1>1, <1>2, <2>1, <3>1 DEF StreamIsEarned, Answers
    <3>2. QED
      BY <1>6, <2>1, <3>1
  <2>2. rdMsg.type = "RET_SUBMIT" => Earned(rdMsg.seq)'
    <3>1. ASSUME NEW x, x = rdMsg.seq, rdMsg.type = "RET_SUBMIT" PROVE Earned(x)'
      BY <1>1, <1>2, <3>1 DEF StreamIsEarned
    <3>2. QED
      BY <1>6, <3>1
  <2>3. QED
    BY <1>6, <2>1, <2>2 DEF StreamIsEarned
<1>7. ASSUME NEW s \in Seqnum, ServerCompletes(s) PROVE StreamIsEarned'
  <2>1. Earned(s)' /\ urbs[s] \in Direction /\ rdMsg' = rdMsg
    BY <1>7 DEF ServerCompletes, writerVars, recvVars, Earned, TypeOK, Accounts, Numbers
  <2>2. PICK n \in {0, 1} : toClient' = toClient \o Answer(s, urbs[s], n)
    BY <1>7 DEF ServerCompletes
  <2> DEFINE a == Answer(s, urbs[s], n)
  <2>3. /\ a \in Seq(Token)
        /\ \A i \in 1 .. Len(a) : a[i].type = "RET_SUBMIT" => a[i].seq = s
    <3>1. a \in Seq(Token)
      BY <2>1, AnswerType
    <3>2. \A i \in 1 .. Len(a) : a[i] \in {RetSubmit(s, n), Payload(s)}
      BY DEF Answer
    <3>3. RetSubmit(s, n).seq = s /\ Payload(s).seq = s
      BY DEF RetSubmit, Payload
    <3>4. QED
      BY <3>1, <3>2, <3>3
  <2> HIDE DEF a
  <2>4. ASSUME NEW i \in Answers("RET_SUBMIT")'
        PROVE  (i \in Answers("RET_SUBMIT") /\ toClient'[i] = toClient[i]) \/ toClient'[i].seq = s
    <3>1. toClient' = toClient \o a
      BY <2>2 DEF a
    <3>2. /\ Len(a) \in Nat /\ Len(toClient') = Len(toClient) + Len(a)
          /\ DOMAIN toClient' = 1 .. Len(toClient')
          /\ \A k \in 1 .. Len(toClient) : toClient'[k] = toClient[k]
          /\ \A k \in 1 .. Len(a) : toClient'[Len(toClient) + k] = a[k]
      BY <2>3, <3>1, Added
    <3>3. i \in 1 .. Len(toClient') /\ toClient'[i].type = "RET_SUBMIT"
      BY <3>2 DEF Answers
    <3>4. CASE i \in 1 .. Len(toClient)
      BY <1>1, <3>2, <3>3, <3>4 DEF Answers
    <3>5. CASE i \notin 1 .. Len(toClient)
      <4>1. i - Len(toClient) \in 1 .. Len(a) /\ Len(toClient) + (i - Len(toClient)) = i
        BY <1>1, <3>2, <3>3, <3>5
      <4>2. toClient'[i] = a[i - Len(toClient)]
        BY <3>2, <4>1
      <4>3. QED
        BY <2>3, <3>3, <4>1, <4>2
    <3>6. QED
      BY <3>4, <3>5
  <2> DEFINE New == {s}
  <2>5. \A x \in New : Earned(x)'
    BY <2>1
  <2>6. \A i \in Answers("RET_SUBMIT")' :
          \/ i \in Answers("RET_SUBMIT") /\ toClient'[i] = toClient[i]
          \/ toClient'[i].seq \in New
    BY <2>4
  <2> HIDE DEF New
  <2>7. QED
    BY <1>6, <2>1, <2>5, <2>6
<1>8. ASSUME NEW r \in unlinkReqs, ServerUnlinks(r) PROVE StreamIsEarned'
  <2>1. rdMsg' = rdMsg
    BY <1>8 DEF ServerUnlinks, recvVars
  <2> DEFINE m == RetUnlink(r.seq, urbs[r.target] # NoEntry)
  <2>2. m \in Token /\ m.type = "RET_UNLINK"
    BY DEF RetUnlink, Token, TypeOK
  <2>3. toClient' = Append(toClient, m)
    BY <1>8 DEF ServerUnlinks
  <2> HIDE DEF m
  <2>4. /\ DOMAIN toClient' = 1 .. Len(toClient) + 1
        /\ \A k \in 1 .. Len(toClient) : toClient'[k] = toClient[k]
        /\ toClient'[Len(toClient) + 1] = m
    BY <2>2, <2>3, AppendProperties, LenProperties DEF TypeOK
  <2>5. \A i \in Answers("RET_SUBMIT")' : i \in Answers("RET_SUBMIT") /\ toClient'[i] = toClient[i]
    BY <1>1, <2>2, <2>4 DEF Answers
  <2> DEFINE New == {}
  <2>6. \A x \in New : Earned(x)'
    OBVIOUS
  <2> HIDE DEF New
  <2>7. QED
    BY <1>6, <2>1, <2>5, <2>6
<1>9. CASE ConnLost
  <2>1. rdMsg' = rdMsg
    BY <1>9 DEF ConnLost, recvVars
  <2>2. PICK k \in 0 .. Len(toClient) : toClient' = SubSeq(toClient, 1, k)
    BY <1>9 DEF ConnLost
  <2>3. /\ toClient' \in Seq(Token) /\ Len(toClient') = k
        /\ \A i \in 1 .. k : i \in 1 .. Len(toClient) /\ toClient'[i] = toClient[i]
    BY <1>1, <2>2, SubSeqProperties
  <2>4. DOMAIN toClient' = 1 .. k
    BY <2>3, LenProperties
  <2>5. \A i \in Answers("RET_SUBMIT")' : i \in Answers("RET_SUBMIT") /\ toClient'[i] = toClient[i]
    BY <1>1, <2>3, <2>4 DEF Answers
  <2> DEFINE New == {}
  <2>6. \A x \in New : Earned(x)'
    OBVIOUS
  <2> HIDE DEF New
  <2>7. QED
    BY <1>6, <2>1, <2>5, <2>6
<1>10. ~ServerStrays
  BY DEF ServerStrays
<1>11. CASE UNCHANGED clientVars \/ AllocPanic \/ IntoSplit \/ WriteCmd \/ WriteFails \/ Cleanup
              \/ RecvEof \/ RecvReturn
  BY <1>3, <1>11 DEF clientVars, recvVars, AllocPanic, IntoSplit, WriteCmd, WriteFails, Cleanup,
                     RecvEof, RecvReturn
<1>12. ASSUME NEW c \in Commands, ConnSend(c) \/ Send(c) PROVE StreamIsEarned'
  BY <1>3, <1>12 DEF ConnSend, Send, recvVars
<1>13. CASE RecvRetSubmit \/ RecvRetUnlink \/ RecvGarbage
  BY <1>4, <1>13 DEF RecvRetSubmit, RecvRetUnlink, RecvGarbage
<1>14. CASE RecvCall
  <2>1. toClient' = toClient /\ rdMsg'.type # "RET_SUBMIT"
    BY <1>14 DEF RecvCall, Unknown
  <2>2. QED
    BY <1>1, <1>2, <2>1 DEF StreamIsEarned, Answers
<1>15. QED
  BY <1>5, <1>7, <1>8, <1>9, <1>10, <1>11, <1>12, <1>13, <1>14 DEF Next, Recv, Server

LEMMA ChannelsEarnedStep ==
  ASSUME OverflowChecks, BridgeTypeOK, CallInv, StreamIsEarned, ChannelsAreEarned,
         [BridgeNext]_vars
  PROVE  ChannelsAreEarned'
<1>1. \A s \in Seqnum : Earned(s) => Earned(s)'
  BY BridgeStepIsClientStep, EarnedStays DEF BridgeTypeOK
<1>2. ASSUME \A t \in Callers : \/ chan'[t] \in {chan[t], Empty, Terminated, Dropped}
                                \/ chan'[t] = Ok(rdMsg.seq) /\ rdMsg.type = "RET_SUBMIT",
             rdThread' = "send" => rdMsg'.type = "RET_SUBMIT"
      PROVE  ChannelsAreEarned'
  <2>1. ASSUME NEW t \in Callers, NEW x, x = chan'[t]
        PROVE  /\ x.kind = "empty" => x = Empty
               /\ x.kind = "ok" => x.seq \in Seqnum /\ Earned(x.seq)
    <3>1. chan[t] \in Content /\ rdMsg.seq \in Seqnum
      BY DEF BridgeTypeOK, TypeOK, Token
    <3>2. CASE x = chan[t]
      BY <3>1, <3>2 DEF ChannelsAreEarned, Content
    <3>3. CASE x \in {Empty, Terminated, Dropped}
      BY <3>3 DEF Empty, Terminated, Dropped
    <3>4. CASE x = Ok(rdMsg.seq) /\ rdMsg.type = "RET_SUBMIT"
      BY <3>1, <3>4 DEF Ok, StreamIsEarned
    <3>5. QED
      BY <1>2, <2>1, <3>2, <3>3, <3>4
  <2>2. ASSUME NEW t \in Callers, NEW q, q = chan'[t].seq, chan'[t].kind = "ok"
        PROVE  Earned(q)'
    BY <1>1, <2>1, <2>2
  <2>3. QED
    BY <1>2, <2>1, <2>2 DEF ChannelsAreEarned
<1>3. CASE UNCHANGED vars
  BY <1>2, <1>3 DEF vars, bridgeVars, readerVars, clientVars, recvVars, ChannelsAreEarned
<1>4. ASSUME NEW t \in Callers, SubmitStep(t) PROVE ChannelsAreEarned'
  <2>1. UNCHANGED <<rdThread, rdMsg>>
    BY <1>4 DEF SubmitStep, Submit, LockWriter, LockPoisoned, Register, RegisterPanics, Write,
                WriteError, SendFailed, Insert, Return, clientVars, recvVars, readerVars, Send,
                AllocPanic, WriteCmd, WriteFails, Cleanup
  <2>2. \A u \in Callers : chan'[u] \in {chan[u], Empty, Dropped}
    BY <1>4 DEF SubmitStep, Submit, LockWriter, LockPoisoned, Register, RegisterPanics, Write,
                WriteError, SendFailed, Insert, Return, BridgeTypeOK
  <2>3. QED
    BY <1>2, <2>1, <2>2 DEF ChannelsAreEarned
<1>5. CASE ReaderRecv \/ TakeTx \/ IgnoreUnlink \/ ReaderStops \/ ServerStep
  <2>1. chan' = chan
    BY <1>5 DEF ReaderRecv, TakeTx, IgnoreUnlink, Received, ReaderStops, ServerStep, bridgeVars
  <2>2. rdThread' = "send" => rdMsg'.type = "RET_SUBMIT"
    BY <1>5 DEF ReaderRecv, TakeTx, IgnoreUnlink, Received, ReaderStops, ServerStep, bridgeVars,
                readerVars, recvVars, RecvReturn, ServerCompletes, ServerStrays, ConnLost,
                clientVars, ChannelsAreEarned
  <2>3. QED
    BY <1>2, <2>1, <2>2
<1>6. CASE SendTx
  <2>1. rdThread' = "loop" /\ rdMsg.type = "RET_SUBMIT"
    BY <1>6 DEF SendTx, ChannelsAreEarned
  <2>2. \A t \in Callers : chan'[t] \in {chan[t], Ok(rdMsg.seq)}
    BY <1>6 DEF SendTx, BridgeTypeOK
  <2>3. QED
    BY <1>2, <2>1, <2>2
<1>7. CASE Drain
  <2>1. rdThread' = "done" /\ \A t \in Callers : chan'[t] \in {chan[t], Terminated}
    BY <1>7 DEF Drain, Drained
  <2>2. QED
    BY <1>2, <2>1
<1>8. QED
  BY <1>3, <1>4, <1>5, <1>6, <1>7 DEF BridgeNext, ReaderStep

-----------------------------------------------------------------------------
(* Steps of submit, seen as steps of its promise.                            *)

Inv == BridgeTypeOK /\ CallInv /\ Accounts /\ StreamIsEarned /\ ChannelsAreEarned

LEMMA InvCorrect ==
  ASSUME OverflowChecks, ~StrayAnswers PROVE BridgeSpec => []Inv
<1>1. BridgeInit => StreamIsEarned /\ ChannelsAreEarned
  BY DEF BridgeInit, InitConn, StreamIsEarned, ChannelsAreEarned, Answers, Unknown, Empty
<1>2. Inv /\ [BridgeNext]_vars => StreamIsEarned' /\ ChannelsAreEarned'
  BY BridgeStepIsClientStep, StreamEarnedStep, ChannelsEarnedStep DEF Inv, BridgeTypeOK
<1>3. QED
  BY <1>1, <1>2, BridgeAccountsCorrect, PTL DEF BridgeSpec, Inv

Same(u) == PhaseOf(u)' = PhaseOf(u) /\ (CarriedOut(u)' <=> CarriedOut(u))

LEMMA Stutter == ASSUME \A u \in Callers : Same(u) PROVE UNCHANGED Calls!vars
BY DEF Same, CarriedOut, Calls!vars

LEMMA CallMoves ==
  ASSUME NEW t \in Callers, \A u \in Callers : u # t => Same(u),
         CarriedOut(t)' <=> CarriedOut(t)
  PROVE  /\ PhaseOf(t) = "idle" /\ PhaseOf(t)' = "open" => Calls!Call(t)
         /\ PhaseOf(t) = "open" /\ PhaseOf(t)' = "answered" /\ CarriedOut(t) => Calls!Answer(t)
BY DEF Same, CarriedOut, Calls!Call, Calls!Answer, Calls!Move

LEMMA CallFails ==
  ASSUME NEW T \in SUBSET Callers, T # {}, \A u \in Callers \ T : Same(u),
         \A u \in T : /\ PhaseOf(u) = "open" /\ PhaseOf(u)' = "failed"
                      /\ CarriedOut(u)' <=> CarriedOut(u)
  PROVE  Calls!Fail(T)
BY DEF Same, CarriedOut, Calls!Fail

LEMMA CallReturns ==
  ASSUME NEW t \in Callers, \A u \in Callers : u # t => Same(u),
         PhaseOf(t) \in {"answered", "failed"}, PhaseOf(t)' = "idle", ~CarriedOut(t)'
  PROVE  Calls!Return(t)
BY DEF Same, CarriedOut, Calls!Return, Calls!Move

LEMMA CallIsCarriedOut ==
  ASSUME NEW t \in Callers, \A u \in Callers : u # t => Same(u),
         PhaseOf(t) \in {"open", "failed"}, PhaseOf(t)' = PhaseOf(t), CarriedOut(t)'
  PROVE  Calls!CarryOut(t)
BY DEF Same, CarriedOut, Calls!CarryOut

LEMMA Untouched ==
  ASSUME NEW u \in Callers, callPc'[u] = callPc[u], chan'[u] = chan[u], seqOf'[u] = seqOf[u],
         performed' = performed
  PROVE  Same(u)
BY DEF Same, PhaseOf, CarriedOut

(* The steps of one call of submit.                                          *)
LEMMA SubmitIsCall ==
  ASSUME OverflowChecks, Inv, NEW t \in Callers, SubmitStep(t)
  PROVE  [Calls!Next]_(Calls!vars)
<1> USE DEF Inv, BridgeTypeOK
<1>1. /\ \A u \in Callers \ {t} : callPc'[u] = callPc[u]
      /\ callPc'[t] \in {"idle", "lock", "alloc", "send", "cleanup", "insert", "wait", "dead"}
  BY DEF SubmitStep, Submit, LockWriter, LockPoisoned, Register, RegisterPanics, Write, WriteError,
         SendFailed, Insert, Return, Goto
<1>2. CASE Submit(t) \/ LockWriter(t) \/ LockPoisoned(t) \/ RegisterPanics(t) \/ Write(t)
             \/ WriteError(t) \/ SendFailed(t)
  <2>1. UNCHANGED <<seqOf, chan, performed>>
    BY <1>2 DEF Submit, LockWriter, LockPoisoned, RegisterPanics, Write, WriteError, SendFailed,
                clientVars, serverVars, AllocPanic, WriteCmd, WriteFails, Cleanup
  <2>2. \A u \in Callers : u # t => Same(u)
    BY <1>1, <2>1, Untouched
  <2>3. CASE Submit(t)
    <3>1. callPc[t] = "idle" /\ callPc'[t] = "lock"
      BY <2>3 DEF Submit, Goto
    <3>2. PhaseOf(t) = "idle" /\ PhaseOf(t)' = "open" /\ (CarriedOut(t)' <=> CarriedOut(t))
      BY <3>1 DEF PhaseOf, CarriedOut
    <3>3. QED
      BY <2>2, <3>2, CallMoves DEF Calls!Next
  <2>4. CASE LockWriter(t) \/ Write(t)
    <3>1. \/ callPc[t] = "lock" /\ callPc'[t] = "alloc"
          \/ callPc[t] = "send" /\ callPc'[t] = "insert"
      BY <2>4 DEF LockWriter, Write, Goto
    <3>2. Same(t)
      BY <2>1, <3>1 DEF Same, PhaseOf, CarriedOut
    <3>3. QED
      BY <2>2, <3>2, Stutter
  <2>5. CASE LockPoisoned(t) \/ RegisterPanics(t) \/ WriteError(t)
    <3>1. \/ callPc[t] = "lock" /\ callPc'[t] = "dead"
          \/ callPc[t] = "alloc" /\ callPc'[t] = "dead"
          \/ callPc[t] = "send" /\ callPc'[t] = "cleanup"
      BY <2>5 DEF LockPoisoned, RegisterPanics, WriteError, Goto
    <3>2. PhaseOf(t) = "open" /\ PhaseOf(t)' = "failed" /\ (CarriedOut(t)' <=> CarriedOut(t))
      BY <2>1, <3>1 DEF PhaseOf, CarriedOut
    <3>3. {t} \in SUBSET Callers /\ {t} # {} /\ \A u \in {t} : u = t
      OBVIOUS
    <3>4. Calls!Fail({t})
      BY <2>2, <3>2, <3>3, CallFails
    <3>5. QED
      BY <3>3, <3>4 DEF Calls!Next
  <2>6. CASE SendFailed(t)
    <3>1. callPc[t] = "cleanup" /\ callPc'[t] = "idle"
      BY <2>6 DEF SendFailed, Goto
    <3>2. PhaseOf(t) = "failed" /\ PhaseOf(t)' = "idle" /\ ~CarriedOut(t)'
      BY <3>1 DEF PhaseOf, CarriedOut
    <3>3. QED
      BY <2>2, <3>2, CallReturns DEF Calls!Next
  <2>7. QED
    BY <1>2, <2>3, <2>4, <2>5, <2>6
<1>3. CASE Register(t)
  <2>1. /\ callPc[t] = "alloc" /\ callPc'[t] = "send" /\ chan' = chan
        /\ seqOf' = [seqOf EXCEPT ![t] = nextSeq] /\ performed' = performed \ {nextSeq}
    BY <1>3 DEF Register, Goto, Send, Alloc
  <2>2. \A u \in Callers : Numbered(u) => seqOf[u] # nextSeq
    BY ClientAssumption DEF CallInv, FreshNumbers, TypeOK, Seqnum
  <2>3. ASSUME NEW u \in Callers, u # t PROVE Same(u)
    <3>1. callPc'[u] = callPc[u] /\ seqOf'[u] = seqOf[u] /\ chan'[u] = chan[u]
      BY <1>1, <2>1, <2>3
    <3>2. PhaseOf(u)' = PhaseOf(u)
      BY <3>1 DEF PhaseOf
    <3>3. CarriedOut(u)' <=> CarriedOut(u)
      BY <2>1, <2>2, <3>1 DEF CarriedOut, Numbered
    <3>4. QED
      BY <3>2, <3>3 DEF Same
  <2>4. Same(t)
    <3>1. PhaseOf(t)' = PhaseOf(t)
      BY <2>1 DEF PhaseOf
    <3>2. ~CarriedOut(t) /\ ~CarriedOut(t)'
      BY <2>1 DEF CarriedOut
    <3>3. QED
      BY <3>1, <3>2 DEF Same
  <2>5. QED
    BY <2>3, <2>4, Stutter
<1>4. CASE Insert(t)
  <2>1. /\ callPc[t] = "insert" /\ callPc'[t] = "wait"
        /\ UNCHANGED <<seqOf, performed>>
        /\ chan' = IF pending[seqOf[t]] = NoEntry THEN chan
                   ELSE [chan EXCEPT ![pending[seqOf[t]]] = Dropped]
    BY <1>4 DEF Insert, NumberOf, Goto, clientVars, serverVars
  <2>2. pending[seqOf[t]] = NoEntry
    <3>1. \A u \in Callers : pending[seqOf[t]] = u => u # t /\ Numbered(u) /\ seqOf[u] = seqOf[t]
      BY <2>1 DEF CallInv, StoredSenderWaits, Numbered
    <3>2. Numbered(t)
      BY <2>1 DEF Numbered
    <3>3. QED
      BY <3>1, <3>2 DEF CallInv, FreshNumbers
  <2>3. chan' = chan /\ chan[t] = Empty
    BY <2>1, <2>2 DEF CallInv, ReceivedByWaiter
  <2>4. Same(t)
    <3>1. chan[t].kind = "empty"
      BY <2>3 DEF Empty
    <3>2. PhaseOf(t)' = PhaseOf(t)
      BY <2>1, <2>3, <3>1 DEF PhaseOf
    <3>3. QED
      BY <2>1, <3>2 DEF Same, CarriedOut
  <2>5. QED
    BY <1>1, <2>1, <2>3, <2>4, Untouched, Stutter
<1>5. CASE Return(t)
  <2>1. /\ callPc[t] = "wait" /\ callPc'[t] = "idle" /\ chan[t] # Empty
        /\ UNCHANGED <<seqOf, performed>>
        /\ chan' = [chan EXCEPT ![t] = Empty]
    BY <1>5 DEF Return, Goto, clientVars, serverVars
  <2>2. chan[t].kind \in {"ok", "terminated", "dropped"}
    BY <2>1 DEF ChannelsAreEarned, Content
  <2>3. PhaseOf(t) \in {"answered", "failed"} /\ PhaseOf(t)' = "idle" /\ ~CarriedOut(t)'
    BY <2>1, <2>2 DEF PhaseOf, CarriedOut
  <2>4. \A u \in Callers : u # t => Same(u)
    BY <1>1, <2>1, Untouched
  <2>5. QED
    BY <2>3, <2>4, CallReturns DEF Calls!Next
<1>6. QED
  BY <1>2, <1>3, <1>4, <1>5 DEF SubmitStep

(* The steps of the reader thread and of the server.                         *)
LEMMA OtherIsCall ==
  ASSUME OverflowChecks, ~StrayAnswers, Inv, UNCHANGED vars \/ ReaderStep \/ ServerStep
  PROVE  [Calls!Next]_(Calls!vars)
<1> USE DEF Inv, BridgeTypeOK
<1>1. CASE UNCHANGED vars \/ ReaderRecv \/ TakeTx \/ IgnoreUnlink \/ ReaderStops
             \/ (ConnLost /\ UNCHANGED bridgeVars)
  <2>1. UNCHANGED <<callPc, chan, seqOf, performed>>
    BY <1>1 DEF vars, clientVars, serverVars, bridgeVars, ReaderRecv, RecvCall, Recv, RecvRetSubmit,
       RecvData, RecvRetUnlink, RecvGarbage, RecvEof, ReadHeader, TakeTx, IgnoreUnlink, Received,
       RecvReturn, ReaderStops, ConnLost
  <2>2. QED
    BY <2>1, Untouched, Stutter
<1>2. CASE SendTx
  <2>1. PICK t \in Callers : t = rdTx
    BY <1>2 DEF SendTx
  <2>2. /\ rdThread = "send" /\ UNCHANGED <<callPc, seqOf, performed>>
        /\ chan[t] = Empty /\ chan' = [chan EXCEPT ![t] = Ok(rdMsg.seq)]
    BY <1>2, <2>1 DEF SendTx, clientVars, serverVars
  <2>3. callPc[t] = "wait" /\ seqOf[t] = rdMsg.seq /\ rdMsg.seq \in performed
    BY <2>1, <2>2 DEF CallInv, TakenSenderWaits, ChannelsAreEarned, StreamIsEarned, Earned
  <2>4. chan[t].kind = "empty" /\ chan'[t].kind = "ok"
    BY <2>2 DEF Empty, Ok
  <2>5. PhaseOf(t) = "open" /\ PhaseOf(t)' = "answered" /\ CarriedOut(t) /\ CarriedOut(t)'
    BY <2>2, <2>3, <2>4 DEF PhaseOf, CarriedOut
  <2>6. \A u \in Callers : u # t => Same(u)
    BY <2>2, Untouched
  <2>7. QED
    BY <2>5, <2>6, CallMoves DEF Calls!Next
<1>3. CASE Drain
  <2>1. /\ UNCHANGED <<callPc, seqOf, performed>>
        /\ chan' = [t \in Callers |-> IF t \in Registered THEN Terminated ELSE chan[t]]
    BY <1>3 DEF Drain, Drained, clientVars, serverVars
  <2>2. \A u \in Callers \ Registered : Same(u)
    BY <2>1, Untouched
  <2>3. ASSUME NEW u \in Registered
        PROVE  /\ u \in Callers /\ PhaseOf(u) = "open" /\ PhaseOf(u)' = "failed"
               /\ CarriedOut(u)' <=> CarriedOut(u)
    <3>1. u \in Callers /\ callPc[u] = "wait" /\ chan[u] = Empty
      BY DEF Registered, CallInv, StoredSenderWaits
    <3>2. chan[u].kind = "empty" /\ chan'[u].kind = "terminated"
      BY <2>1, <3>1 DEF Empty, Terminated
    <3>3. QED
      BY <2>1, <3>1, <3>2 DEF PhaseOf, CarriedOut
  <2>4. CASE Registered = {}
    BY <2>2, <2>4, Stutter
  <2>5. CASE Registered # {}
    <3>1. Registered \in SUBSET Callers
      BY <2>3
    <3>2. Calls!Fail(Registered)
      BY <2>2, <2>3, <2>5, <3>1, CallFails
    <3>3. QED
      BY <3>1, <3>2 DEF Calls!Next
  <2>6. QED
    BY <2>4, <2>5
<1>4. ASSUME NEW s \in Seqnum, ServerCompletes(s), UNCHANGED bridgeVars
      PROVE  [Calls!Next]_(Calls!vars)
  <2>1. UNCHANGED <<callPc, chan, seqOf>> /\ performed' = performed \cup {s}
    BY <1>4 DEF ServerCompletes, bridgeVars
  <2>2. ASSUME NEW u \in Callers, ~(Numbered(u) /\ seqOf[u] = s /\ s \notin performed)
        PROVE  Same(u)
    BY <2>1, <2>2 DEF Same, PhaseOf, CarriedOut, Numbered
  <2>3. CASE \E t \in Callers : Numbered(t) /\ seqOf[t] = s /\ s \notin performed
    <3>1. PICK t \in Callers : Numbered(t) /\ seqOf[t] = s /\ s \notin performed
      BY <2>3
    <3>2. \A u \in Callers : u # t => Same(u)
      BY <2>2, <3>1 DEF CallInv, FreshNumbers
    <3>3. chan[t].kind # "ok"
      BY <3>1 DEF CallInv, ReceivedByWaiter, ChannelsAreEarned, Earned, Empty
    <3>4. /\ PhaseOf(t) \in {"open", "failed"} /\ PhaseOf(t)' = PhaseOf(t)
          /\ CarriedOut(t)'
      <4>1. PhaseOf(t) \in {"open", "failed"}
        BY <3>1, <3>3 DEF PhaseOf, Numbered, Content
      <4>2. PhaseOf(t)' = PhaseOf(t)
        BY <2>1 DEF PhaseOf
      <4>3. CarriedOut(t)'
        BY <2>1, <3>1 DEF CarriedOut, Numbered
      <4>4. QED
        BY <4>1, <4>2, <4>3
    <3>5. QED
      BY <3>2, <3>4, CallIsCarriedOut DEF Calls!Next
  <2>4. CASE ~\E t \in Callers : Numbered(t) /\ seqOf[t] = s /\ s \notin performed
    BY <2>2, <2>4, Stutter
  <2>5. QED
    BY <2>3, <2>4
<1>5. ~ServerStrays
  BY DEF ServerStrays
<1>6. QED
  BY <1>1, <1>2, <1>3, <1>4, <1>5 DEF ReaderStep, ServerStep

(* submit keeps its promise (main.rs:50): a call ends once, and when it ends  *)
(* with an answer the device has carried out the URB of this call and of no   *)
(* other, in every order of callers, reader, server and loss.                 *)
THEOREM SubmitKeepsPromise ==
  ASSUME OverflowChecks, ~StrayAnswers PROVE BridgeSpec => ImplementsUrbCalls
<1>1. BridgeInit => Calls!Init
  BY DEF BridgeInit, Calls!Init, PhaseOf, CarriedOut
<1>2. Inv /\ [BridgeNext]_vars => [Calls!Next]_(Calls!vars)
  BY SubmitIsCall, OtherIsCall DEF BridgeNext
<1>3. QED
  BY <1>1, <1>2, InvCorrect, PTL DEF BridgeSpec, ImplementsUrbCalls, Calls!Spec
-----------------------------------------------------------------------------
(* Answers are awaited.  One caller at a time is between lock and insertion,  *)
(* and the command on its way is its own; what the reader has taken is        *)
(* neither held nor answered a second time.                                  *)

WriterInTurn ==
  \A t \in Callers :
    /\ callPc[t] \in {"alloc", "send", "cleanup", "insert"} => writerLock = t
    /\ callPc[t] \in {"send", "cleanup"} => cmd.op = "submit" /\ cmd.seq = seqOf[t]

InHand(s) == rdPc \in {"data", "ok"} /\ rdMsg.type = "RET_SUBMIT" /\ rdMsg.seq = s

TakenOnce == ~strayed => \A s \in Seqnum : InHand(s) => Cancelled(s)

AwaitedBy(t, s) == seqOf[t] = s /\ (callPc[t] = "insert" \/ pending[s] = t)

LEMMA WriterInTurnStep == BridgeTypeOK /\ WriterInTurn /\ [BridgeNext]_vars => WriterInTurn'
<1> SUFFICES ASSUME BridgeTypeOK, WriterInTurn, [BridgeNext]_vars PROVE WriterInTurn'
  OBVIOUS
<1> USE CallersAssumption
<1>1. ASSUME UNCHANGED <<callPc, seqOf, writerLock, cmd>> PROVE WriterInTurn'
  BY <1>1 DEF WriterInTurn
<1>2. ASSUME NEW t \in Callers, SubmitStep(t) PROVE WriterInTurn'
  <2>1. CASE Submit(t) \/ LockPoisoned(t) \/ RegisterPanics(t) \/ SendFailed(t) \/ Insert(t)
               \/ Return(t)
    <3>1. /\ UNCHANGED <<seqOf, cmd>> /\ \A u \in Callers \ {t} : callPc'[u] = callPc[u]
          /\ callPc'[t] \in {"idle", "lock", "wait", "dead"}
          /\ writerLock' \in {writerLock, NoEntry} /\ (writerLock' # writerLock => writerLock = t)
      BY <2>1 DEF Submit, LockPoisoned, RegisterPanics, SendFailed, Insert, Return, Goto,
         clientVars, writerVars, AllocPanic, Cleanup, WriterInTurn, BridgeTypeOK
    <3>2. QED
      BY <3>1 DEF WriterInTurn
  <2>2. CASE LockWriter(t)
    <3>1. /\ writerLock = NoEntry /\ writerLock' = t /\ UNCHANGED <<seqOf, cmd>>
          /\ callPc'[t] = "alloc" /\ \A u \in Callers \ {t} : callPc'[u] = callPc[u]
      BY <2>2 DEF LockWriter, Goto, clientVars, writerVars, BridgeTypeOK
    <3>2. QED
      BY <3>1 DEF WriterInTurn
  <2>3. CASE Register(t)
    <3>1. /\ callPc[t] = "alloc" /\ callPc'[t] = "send" /\ writerLock' = writerLock
          /\ \A u \in Callers \ {t} : callPc'[u] = callPc[u] /\ seqOf'[u] = seqOf[u]
          /\ seqOf'[t] = nextSeq
      BY <2>3 DEF Register, Goto, BridgeTypeOK
    <3>2. cmd'.op = "submit" /\ cmd'.seq = nextSeq
      BY <2>3 DEF Register, Send, SubmitCmd
    <3>3. QED
      BY <3>1, <3>2 DEF WriterInTurn
  <2>4. CASE Write(t) \/ WriteError(t)
    <3>1. /\ callPc[t] = "send" /\ callPc'[t] \in {"insert", "cleanup"}
          /\ UNCHANGED <<seqOf, cmd, writerLock>>
          /\ \A u \in Callers \ {t} : callPc'[u] = callPc[u]
      BY <2>4 DEF Write, WriteError, Goto, WriteCmd, WriteFails, BridgeTypeOK
    <3>2. QED
      BY <3>1 DEF WriterInTurn
  <2>5. QED
    BY <1>2, <2>1, <2>2, <2>3, <2>4 DEF SubmitStep
<1>3. CASE ReaderStep
  <2>1. CASE ReaderRecv
    <3>1. UNCHANGED <<callPc, seqOf, writerLock>>
      BY <2>1 DEF ReaderRecv, bridgeVars
    <3>2. UNCHANGED cmd
      BY <2>1 DEF ReaderRecv, writerVars, RecvCall, Recv, RecvRetSubmit, RecvData, RecvRetUnlink,
         RecvGarbage, RecvEof, ReadHeader
    <3>3. QED
      BY <1>1, <3>1, <3>2
  <2>2. CASE TakeTx \/ IgnoreUnlink
    BY <1>1, <2>2 DEF TakeTx, IgnoreUnlink, Received, RecvReturn, writerVars
  <2>3. CASE SendTx \/ ReaderStops \/ Drain
    BY <1>1, <2>3 DEF SendTx, ReaderStops, Drain, clientVars, writerVars
  <2>4. QED
    BY <1>3, <2>1, <2>2, <2>3 DEF ReaderStep
<1>4. CASE ServerStep
  BY <1>1, <1>4 DEF ServerStep, bridgeVars, writerVars, ServerCompletes, ServerStrays, ConnLost
<1>5. CASE UNCHANGED vars
  BY <1>1, <1>5 DEF vars, bridgeVars, clientVars, writerVars
<1>6. QED
  BY <1>2, <1>3, <1>4, <1>5 DEF BridgeNext

(* An answer on the stream was there before, or is that of the URB the server *)
(* has just completed.                                                      *)
LEMMA AnswersComeFromUrbs ==
  ASSUME TypeOK, [BridgeNext]_vars, ~strayed', NEW s \in Seqnum, AnswerInStream(s)'
  PROVE  AnswerInStream(s) \/ ServerCompletes(s)
<1>1. /\ Len(toClient) \in Nat /\ DOMAIN toClient = 1 .. Len(toClient)
  BY Positions
<1>2. CASE UNCHANGED toClient
  BY <1>2 DEF AnswerInStream, Answers
<1>3. CASE toClient # <<>> /\ toClient' = Tail(toClient)
  <2>1. PICK i \in Answers("RET_SUBMIT")' : toClient'[i].seq = s
    BY DEF AnswerInStream
  <2>2. i + 1 \in Answers("RET_SUBMIT") /\ toClient'[i] = toClient[i + 1]
    BY <1>3, TakenAnswers
  <2>3. QED
    BY <2>1, <2>2 DEF AnswerInStream
<1>4. ASSUME NEW q \in Seqnum, ServerCompletes(q) PROVE AnswerInStream(s) \/ ServerCompletes(s)
  <2>1. urbs[q] \in Direction
    BY <1>4 DEF ServerCompletes, TypeOK
  <2>2. PICK n \in {0, 1} : toClient' = toClient \o Answer(q, urbs[q], n)
    BY <1>4 DEF ServerCompletes
  <2>3. PICK a \in Seq(Token) : a = Answer(q, urbs[q], n)
    BY <2>1, AnswerType
  <2>4. \A k \in 1 .. Len(a) : a[k].seq = q
    <3>1. \A k \in 1 .. Len(a) : a[k] \in {RetSubmit(q, n), Payload(q)}
      BY <2>3 DEF Answer
    <3>2. RetSubmit(q, n).seq = q /\ Payload(q).seq = q
      BY DEF RetSubmit, Payload
    <3>3. QED
      BY <3>1, <3>2
  <2>5. /\ Len(a) \in Nat /\ Len(toClient') = Len(toClient) + Len(a)
        /\ DOMAIN toClient' = 1 .. Len(toClient')
        /\ \A k \in 1 .. Len(toClient) : toClient'[k] = toClient[k]
        /\ \A k \in 1 .. Len(a) : toClient'[Len(toClient) + k] = a[k]
    BY <2>2, <2>3, Added
  <2>6. PICK i \in Answers("RET_SUBMIT")' : toClient'[i].seq = s
    BY DEF AnswerInStream
  <2>7. i \in 1 .. Len(toClient') /\ toClient'[i].type = "RET_SUBMIT"
    BY <2>5 DEF Answers
  <2>8. CASE i \in 1 .. Len(toClient)
    BY <1>1, <2>5, <2>6, <2>7, <2>8 DEF AnswerInStream, Answers
  <2>9. CASE i \notin 1 .. Len(toClient)
    <3>1. i - Len(toClient) \in 1 .. Len(a) /\ Len(toClient) + (i - Len(toClient)) = i
      BY <1>1, <2>5, <2>7, <2>9
    <3>2. q = s
      BY <2>4, <2>5, <2>6, <3>1
    <3>3. QED
      BY <1>4, <3>2
  <2>10. QED
    BY <2>8, <2>9
<1>5. CASE ConnLost
  <2>1. PICK k \in 0 .. Len(toClient) : toClient' = SubSeq(toClient, 1, k)
    BY <1>5 DEF ConnLost
  <2>2. /\ toClient' \in Seq(Token) /\ Len(toClient') = k
        /\ \A i \in 1 .. k : i \in 1 .. Len(toClient) /\ toClient'[i] = toClient[i]
    BY <1>1, <2>1, SubSeqProperties DEF TypeOK
  <2>3. DOMAIN toClient' = 1 .. k
    BY <2>2, LenProperties
  <2>4. QED
    BY <1>1, <2>2, <2>3 DEF AnswerInStream, Answers
<1>6. ~ServerStrays
  BY DEF ServerStrays
<1>7. CASE UNCHANGED vars \/ \E t \in Callers : SubmitStep(t)
  <2>1. UNCHANGED toClient
    BY <1>7 DEF vars, clientVars, SubmitStep, Submit, LockWriter, LockPoisoned, Register,
       RegisterPanics, Write, WriteError, SendFailed, Insert, Return, Send, AllocPanic, WriteCmd,
       WriteFails, Cleanup
  <2>2. QED
    BY <1>2, <2>1
<1>8. CASE ReaderStep
  <2>1. CASE RecvData
    BY <2>1, DataTaken DEF AnswerInStream
  <2>2. CASE ~RecvData
    <3>1. UNCHANGED toClient \/ (toClient # <<>> /\ toClient' = Tail(toClient))
      BY <1>8, <2>2
         DEF ReaderStep, ReaderRecv, TakeTx, SendTx, IgnoreUnlink, Received, ReaderStops, Drain,
             clientVars, RecvCall, RecvReturn, Recv, RecvRetSubmit, RecvRetUnlink, RecvGarbage,
             RecvEof, ReadHeader
    <3>2. QED
      BY <1>2, <1>3, <3>1
  <2>3. QED
    BY <2>1, <2>2
<1>9. QED
  BY <1>4, <1>5, <1>6, <1>7, <1>8 DEF BridgeNext, ServerStep

LEMMA StraysOnce == ASSUME [BridgeNext]_vars, ~strayed' PROVE ~strayed
<1>1. CASE UNCHANGED strayed
  BY <1>1
<1>2. CASE UNCHANGED vars
  BY <1>1, <1>2 DEF vars, clientVars, serverVars
<1>3. CASE \E t \in Callers : SubmitStep(t)
  <2>1. UNCHANGED strayed
    BY <1>3 DEF SubmitStep, Submit, LockWriter, LockPoisoned, Register, RegisterPanics, Write,
       WriteError, SendFailed, Insert, Return, clientVars, serverVars, Send, AllocPanic, WriteCmd,
       WriteFails, Cleanup
  <2>2. QED
    BY <1>1, <2>1
<1>4. CASE ReaderStep
  <2>1. UNCHANGED strayed
    BY <1>4 DEF ReaderStep, ReaderRecv, TakeTx, SendTx, IgnoreUnlink, Received, ReaderStops, Drain,
       clientVars, serverVars, RecvCall, RecvReturn, Recv, RecvRetSubmit, RecvData, RecvRetUnlink,
       RecvGarbage, RecvEof, ReadHeader
  <2>2. QED
    BY <1>1, <2>1
<1>5. CASE ServerStep
  <2>1. ~ServerStrays
    BY DEF ServerStrays
  <2>2. UNCHANGED strayed
    BY <1>5, <2>1 DEF ServerStep, ServerCompletes, ConnLost
  <2>3. QED
    BY <1>1, <2>2
<1>6. QED
  BY <1>2, <1>3, <1>4, <1>5 DEF BridgeNext

(* An URB that is neither being sent, held nor answered stays so.            *)
LEMMA CancelledStays ==
  ASSUME OverflowChecks, TypeOK, [BridgeNext]_vars, ~strayed', NEW s \in Seqnum, Cancelled(s)
  PROVE  Cancelled(s)'
<1>1. nextSeq \in Nat /\ s \in Nat /\ s < nextSeq /\ urbs[s] = NoEntry
  BY ClientAssumption DEF TypeOK, Seqnum, Cancelled, Done
<1>2. ~(Sending("submit") /\ cmd.seq = s)
  BY DEF Cancelled, Done
<1>3. ~AnswerInStream(s)'
  <2>1. ~AnswerInStream(s) /\ ~ServerCompletes(s)
    BY <1>1 DEF Cancelled, AnswerInStream, ServerCompletes
  <2>2. QED
    BY <2>1, AnswersComeFromUrbs
<1>4. Done(s)'
  <2>1. CASE UNCHANGED <<nextSeq, wrPc, cmd, urbs>>
    BY <1>1, <1>2, <2>1 DEF Done, Sending
  <2>2. CASE \E dir \in Direction : Send(SubmitCmd(dir))
    <3>1. nextSeq' = nextSeq + 1 /\ cmd'.seq = nextSeq /\ urbs' = urbs
      BY <2>2 DEF Send, Alloc, AllocPanics, AllocSeqnum, SubmitCmd
    <3>2. QED
      BY <1>1, <3>1 DEF Done
  <2>3. CASE WriteCmd
    <3>1. /\ wrPc = "write" /\ wrPc' = "idle" /\ nextSeq' = nextSeq
          /\ urbs' = urbs \/ (cmd.op = "submit" /\ urbs' = [urbs EXCEPT ![cmd.seq] = cmd.dir])
      BY <2>3 DEF WriteCmd, SocketTakes
    <3>2. urbs'[s] = NoEntry
      BY <1>1, <1>2, <3>1 DEF Sending, TypeOK
    <3>3. QED
      BY <1>1, <3>1, <3>2 DEF Done, Sending
  <2>4. CASE WriteFails \/ Cleanup \/ AllocPanic
    <3>1. /\ UNCHANGED <<nextSeq, cmd, urbs>> /\ wrPc' \in {"cleanup", "idle", "panicked"}
          /\ wrPc' = "cleanup" => wrPc = "write"
      BY <2>4 DEF WriteFails, Cleanup, AllocPanic, serverVars
    <3>2. QED
      BY <1>1, <1>2, <3>1 DEF Done, Sending
  <2>5. ASSUME NEW q \in Seqnum, ServerCompletes(q) PROVE Done(s)'
    BY <1>1, <1>2, <2>5 DEF ServerCompletes, writerVars, Done, Sending, TypeOK
  <2>6. CASE ConnLost \/ ServerStrays
    BY <2>1, <2>6 DEF ConnLost, ServerStrays, writerVars
  <2>7. CASE UNCHANGED vars
    BY <2>1, <2>7 DEF vars, clientVars, writerVars, serverVars
  <2>8. ASSUME NEW t \in Callers, SubmitStep(t) PROVE Done(s)'
    <3>1. CASE Register(t) \/ Write(t) \/ WriteError(t) \/ SendFailed(t) \/ RegisterPanics(t)
      BY <2>2, <2>3, <2>4, <3>1 DEF Register, Write, WriteError, SendFailed, RegisterPanics
    <3>2. CASE Submit(t) \/ LockWriter(t) \/ LockPoisoned(t) \/ Insert(t) \/ Return(t)
      <4>1. UNCHANGED <<nextSeq, wrPc, cmd, urbs>>
        BY <3>2 DEF Submit, LockWriter, LockPoisoned, Insert, Return, clientVars, writerVars,
           serverVars
      <4>2. QED
        BY <2>1, <4>1
    <3>3. QED
      BY <2>8, <3>1, <3>2 DEF SubmitStep
  <2>9. CASE ReaderStep
    <3>1. UNCHANGED <<nextSeq, wrPc, cmd, urbs>>
      BY <2>9 DEF ReaderStep, ReaderRecv, TakeTx, SendTx, IgnoreUnlink, Received, ReaderStops,
         Drain, clientVars, writerVars, serverVars, RecvCall, RecvReturn, Recv, RecvRetSubmit,
         RecvData, RecvRetUnlink, RecvGarbage, RecvEof, ReadHeader
    <3>2. QED
      BY <2>1, <3>1
  <2>10. QED
    BY <2>5, <2>6, <2>7, <2>8, <2>9 DEF BridgeNext, ServerStep
<1>5. QED
  BY <1>3, <1>4 DEF Cancelled, AnswerInStream

LEMMA InHandBefore ==
  ASSUME [BridgeNext]_vars, NEW s, InHand(s)' PROVE InHand(s) \/ RecvRetSubmit
<1>1. CASE UNCHANGED <<rdPc, rdMsg>>
  BY <1>1 DEF InHand
<1>2. CASE UNCHANGED vars
  BY <1>1, <1>2 DEF vars, clientVars, recvVars
<1>3. CASE \E t \in Callers : SubmitStep(t)
  <2>1. UNCHANGED <<rdPc, rdMsg>>
    BY <1>3 DEF SubmitStep, Submit, LockWriter, LockPoisoned, Register, RegisterPanics, Write,
       WriteError, SendFailed, Insert, Return, clientVars, recvVars, Send, AllocPanic, WriteCmd,
       WriteFails, Cleanup
  <2>2. QED
    BY <1>1, <2>1
<1>4. CASE ReaderRecv
  <2>1. CASE RecvCall \/ RecvGarbage \/ RecvEof
    BY <2>1 DEF RecvCall, RecvGarbage, RecvEof, InHand
  <2>2. CASE RecvData
    BY <2>2 DEF RecvData, InHand
  <2>3. CASE RecvRetUnlink
    <3>1. rdMsg'.type = "RET_UNLINK"
      BY <2>3 DEF RecvRetUnlink, ReadHeader
    <3>2. QED
      BY <3>1 DEF InHand
  <2>4. QED
    BY <1>4, <2>1, <2>2, <2>3 DEF ReaderRecv, Recv
<1>5. CASE TakeTx \/ IgnoreUnlink
  BY <1>5 DEF TakeTx, IgnoreUnlink, Received, RecvReturn, InHand
<1>6. CASE SendTx \/ ReaderStops \/ Drain
  BY <1>1, <1>6 DEF SendTx, ReaderStops, Drain, clientVars, recvVars
<1>7. CASE ServerStep
  BY <1>1, <1>7 DEF ServerStep, ServerCompletes, ServerStrays, ConnLost, recvVars
<1>8. QED
  BY <1>2, <1>3, <1>4, <1>5, <1>6, <1>7 DEF BridgeNext, ReaderStep
(* What the reader has taken is not answered again.                          *)
LEMMA TakenOnceStep ==
  BridgeTypeOK /\ Accounts /\ TakenOnce /\ OverflowChecks /\ [BridgeNext]_vars => TakenOnce'
<1> SUFFICES ASSUME BridgeTypeOK, Accounts, TakenOnce, OverflowChecks, [BridgeNext]_vars, ~strayed',
                    NEW s \in Seqnum, InHand(s)'
             PROVE  Cancelled(s)'
  BY DEF TakenOnce
<1>1. TypeOK /\ [Next]_clientVars /\ nextSeq \in Nat /\ s \in Nat
  BY BridgeStepIsClientStep, ClientAssumption DEF BridgeTypeOK, TypeOK, Seqnum
<1>2. ~strayed
  BY StraysOnce
<1>3. ASSUME Cancelled(s) PROVE Cancelled(s)'
  BY <1>1, <1>2, <1>3, CancelledStays
<1>4. CASE RecvRetSubmit
  <2>1. /\ toClient # <<>> /\ toClient' = Tail(toClient) /\ rdMsg' = toClient[1]
        /\ 1 \in Answers("RET_SUBMIT")
        /\ UNCHANGED <<nextSeq, wrPc, cmd, urbs>>
    BY <1>1, <1>4, Taken DEF RecvRetSubmit, ReadHeader, Answers, writerVars, serverVars
  <2>2. s = toClient[1].seq
    BY <2>1 DEF InHand
  <2>3. Done(s) /\ Done(s)'
    BY <1>2, <2>1, <2>2 DEF Accounts, Balanced, UrbAccounts, Done, Sending
  <2>4. ASSUME NEW i \in Answers("RET_SUBMIT")' PROVE toClient'[i].seq # s
    <3>1. i \in Nat /\ i + 1 \in Answers("RET_SUBMIT") /\ toClient'[i] = toClient[i + 1]
      BY <1>1, <2>1, <2>4, TakenAnswers
    <3>2. i # 0
      BY <1>1, <2>1, <2>4, Taken DEF Answers
    <3>3. QED
      <4>1. PICK j \in Nat : j = i + 1
        BY <3>1
      <4>2. j # 1
        BY <3>1, <3>2, <4>1
      <4>3. QED
        BY <1>2, <2>1, <2>2, <3>1, <4>1, <4>2 DEF Accounts, Balanced, UrbAccounts
  <2>5. QED
    BY <2>3, <2>4 DEF Cancelled
<1>5. CASE ~RecvRetSubmit
  <2>1. InHand(s)
    BY <1>1, <1>5, InHandBefore
  <2>2. QED
    BY <1>2, <1>3, <2>1 DEF TakenOnce
<1>6. QED
  BY <1>4, <1>5
(* What comes to the reader was coming before, but for the URB of a command  *)
(* the socket has just taken.                                               *)
LEMMA ComesFromWrite ==
  ASSUME BridgeTypeOK, [BridgeNext]_vars, ~strayed', NEW s \in Seqnum, Coming(s)'
  PROVE  Coming(s) \/ \E t \in Callers : Write(t) /\ cmd.seq = s
<1> USE DEF BridgeTypeOK
<1>1. CASE AnswerInStream(s)'
  BY <1>1, AnswersComeFromUrbs DEF Coming, ServerCompletes
<1>2. CASE InHand(s)'
  <2>1. CASE RecvRetSubmit
    <3>1. toClient # <<>> /\ rdMsg' = toClient[1] /\ toClient[1].type = "RET_SUBMIT"
      BY <2>1, Taken DEF RecvRetSubmit, ReadHeader
    <3>2. 1 \in Answers("RET_SUBMIT") /\ toClient[1].seq = s
      BY <1>2, <3>1, EmptySeq, Positions DEF InHand, Answers, TypeOK
    <3>3. QED
      BY <3>2 DEF Coming, AnswerInStream
  <2>2. QED
    BY <1>2, <2>1, InHandBefore DEF Coming, InHand
<1>3. CASE urbs'[s] # NoEntry /\ urbs[s] = NoEntry
  <2>1. CASE UNCHANGED urbs
    BY <1>3, <2>1
  <2>2. CASE UNCHANGED vars
    BY <2>1, <2>2 DEF vars, clientVars, serverVars
  <2>3. ASSUME NEW t \in Callers, SubmitStep(t)
        PROVE  Write(t) /\ cmd.seq = s
    <3>1. CASE Write(t)
      <4>1. urbs' = urbs \/ urbs' = [urbs EXCEPT ![cmd.seq] = cmd.dir]
        BY <3>1 DEF Write, WriteCmd, SocketTakes
      <4>2. QED
        BY <1>3, <3>1, <4>1 DEF TypeOK
    <3>2. CASE ~Write(t)
      <4>1. UNCHANGED urbs
        BY <2>3, <3>2 DEF SubmitStep, Submit, LockWriter, LockPoisoned, Register, RegisterPanics,
           WriteError, SendFailed, Insert, Return, clientVars, serverVars, Send, AllocPanic,
           WriteFails, Cleanup
      <4>2. QED
        BY <1>3, <4>1
    <3>3. QED
      BY <3>1, <3>2
  <2>4. CASE ReaderStep
    <3>1. UNCHANGED urbs
      BY <2>4 DEF ReaderStep, ReaderRecv, TakeTx, SendTx, IgnoreUnlink, Received, ReaderStops,
         Drain, clientVars, serverVars, RecvCall, RecvReturn, Recv, RecvRetSubmit, RecvData,
         RecvRetUnlink, RecvGarbage, RecvEof, ReadHeader
    <3>2. QED
      BY <2>1, <3>1
  <2>5. CASE ServerStep
    BY <1>3, <2>5 DEF ServerStep, ServerCompletes, ServerStrays, ConnLost, TypeOK
  <2>6. QED
    BY <2>2, <2>3, <2>4, <2>5 DEF BridgeNext
<1>4. QED
  BY <1>1, <1>2, <1>3 DEF Coming, InHand

LEMMA AwaitedStep ==
  ASSUME OverflowChecks, BridgeTypeOK, CallInv, Accounts, WriterInTurn, TakenOnce, AnswerIsAwaited,
         [BridgeNext]_vars
  PROVE  AnswerIsAwaited'
<1> SUFFICES ASSUME ~strayed', rdThread' \in {"loop", "send"}, NEW s \in Seqnum, Coming(s)'
             PROVE  \E t \in Callers : AwaitedBy(t, s)'
  BY DEF AnswerIsAwaited, AwaitedBy
<1> USE CallersAssumption
<1>1. ~strayed /\ rdThread \in {"loop", "send"} /\ ~ReaderStops /\ ~Drain
  <2>1. ~strayed /\ ~ReaderStops /\ ~Drain
    BY StraysOnce DEF ReaderStops, Drain
  <2>2. CASE UNCHANGED rdThread \/ rdThread = "loop" \/ rdThread = "send"
    BY <2>1, <2>2
  <2>3. CASE UNCHANGED vars
    BY <2>2, <2>3 DEF vars, bridgeVars, readerVars
  <2>4. CASE \E t \in Callers : SubmitStep(t)
    BY <2>2, <2>4 DEF SubmitStep, Submit, LockWriter, LockPoisoned, Register, RegisterPanics, Write,
       WriteError, SendFailed, Insert, Return, readerVars
  <2>5. CASE ReaderStep
    BY <2>1, <2>2, <2>5 DEF ReaderStep, ReaderRecv, TakeTx, SendTx, IgnoreUnlink, Received
  <2>6. CASE ServerStep
    BY <2>2, <2>6 DEF ServerStep, bridgeVars, readerVars
  <2>7. QED
    BY <2>3, <2>4, <2>5, <2>6 DEF BridgeNext
<1>2. CASE \E t \in Callers : Write(t) /\ cmd.seq = s
  <2>1. PICK t \in Callers : Write(t) /\ cmd.seq = s
    BY <1>2
  <2>2. callPc[t] = "send" /\ callPc'[t] = "insert" /\ seqOf' = seqOf
    BY <2>1 DEF Write, Goto, BridgeTypeOK
  <2>3. seqOf[t] = s
    BY <2>1, <2>2 DEF WriterInTurn
  <2>4. QED
    BY <2>2, <2>3 DEF AwaitedBy
<1>3. CASE Coming(s)
  <2>1. PICK t \in Callers : AwaitedBy(t, s)
    BY <1>1, <1>3 DEF AnswerIsAwaited, AwaitedBy
  <2>2. seqOf[t] = s /\ callPc[t] \in {"insert", "wait"} /\ Numbered(t)
    BY <2>1 DEF AwaitedBy, CallInv, StoredSenderWaits, Numbered
  <2>3. ASSUME UNCHANGED <<callPc, seqOf, pending>> PROVE AwaitedBy(t, s)'
    BY <2>1, <2>3 DEF AwaitedBy
  <2>4. ASSUME NEW u \in Callers, SubmitStep(u) PROVE AwaitedBy(t, s)'
    <3>1. CASE Insert(u)
      <4>1. /\ callPc[u] = "insert" /\ seqOf' = seqOf /\ pending' = [pending EXCEPT ![seqOf[u]] = u]
            /\ \A v \in Callers \ {u} : callPc'[v] = callPc[v]
        BY <3>1 DEF Insert, Goto, NumberOf, BridgeTypeOK
      <4>2. CASE u = t
        BY <2>2, <4>1, <4>2 DEF AwaitedBy, BridgeTypeOK
      <4>3. CASE u # t
        <5>1. seqOf[u] # s
          BY <2>2, <4>1, <4>3 DEF CallInv, FreshNumbers, Numbered
        <5>2. QED
          BY <2>1, <4>1, <4>3, <5>1 DEF AwaitedBy, BridgeTypeOK
      <4>4. QED
        BY <4>2, <4>3
    <3>2. CASE Register(u)
      <4>1. callPc[u] = "alloc" /\ pending' = pending /\ u # t
        BY <2>2, <3>2 DEF Register, Goto
      <4>2. callPc'[t] = callPc[t] /\ seqOf'[t] = seqOf[t]
        BY <3>2, <4>1 DEF Register, Goto, BridgeTypeOK
      <4>3. QED
        BY <2>1, <4>1, <4>2 DEF AwaitedBy
    <3>3. CASE ~Insert(u) /\ ~Register(u)
      <4>1. UNCHANGED <<seqOf, pending>> /\ (callPc[t] = "insert" => callPc'[t] = "insert")
        BY <2>4, <3>3 DEF SubmitStep, Submit, LockWriter, LockPoisoned, RegisterPanics, Write,
           WriteError, SendFailed, Return, Goto, BridgeTypeOK
      <4>2. QED
        BY <2>1, <4>1 DEF AwaitedBy
    <3>4. QED
      BY <3>1, <3>2, <3>3
  <2>5. CASE TakeTx
    <3>1. /\ UNCHANGED <<callPc, seqOf, urbs, toClient>> /\ rdPc' = "idle"
          /\ rdPc = "ok" /\ rdMsg.type = "RET_SUBMIT"
          /\ pending' = [pending EXCEPT ![rdMsg.seq] = NoEntry]
      BY <2>5 DEF TakeTx, Received, RecvReturn, Removed, serverVars
    <3>2. rdMsg.seq # s
      <4>1. AnswerInStream(s) \/ urbs[s] # NoEntry
        BY <3>1 DEF Coming, AnswerInStream, Answers
      <4>2. ~Cancelled(s)
        BY <4>1 DEF Cancelled, Done, AnswerInStream
      <4>3. QED
        BY <1>1, <3>1, <4>2 DEF TakenOnce, InHand
    <3>3. QED
      BY <2>1, <3>1, <3>2 DEF AwaitedBy, BridgeTypeOK
  <2>6. CASE UNCHANGED vars \/ ReaderRecv \/ SendTx \/ IgnoreUnlink \/ ServerStep
    BY <2>3, <2>6 DEF vars, bridgeVars, ReaderRecv, SendTx, IgnoreUnlink, Received, Logged,
       ServerStep
  <2>7. QED
    BY <1>1, <2>4, <2>5, <2>6 DEF BridgeNext, ReaderStep
<1>4. QED
  BY <1>2, <1>3, ComesFromWrite

(* The race of main.rs:73 is the only way an answer is lost: while the reader *)
(* runs, whatever the server holds or has answered belongs to a call the      *)
(* reader will find (main.rs:91), or to one that is about to insert itself,   *)
(* for any number of callers and in every order of writes and answers.        *)
THEOREM AnswersAreAwaited == ASSUME OverflowChecks PROVE BridgeSpec => []AnswerIsAwaited
<1>1. BridgeInit => WriterInTurn /\ TakenOnce /\ AnswerIsAwaited
  <2>1. BridgeInit => \A s \in Seqnum : ~Coming(s) /\ ~InHand(s)
    BY DEF BridgeInit, InitConn, Coming, AnswerInStream, Answers, InHand, Nothing
  <2>2. QED
    BY <2>1 DEF BridgeInit, WriterInTurn, TakenOnce, AnswerIsAwaited
<1>2. BridgeTypeOK /\ CallInv /\ Accounts /\ WriterInTurn /\ TakenOnce /\ AnswerIsAwaited
        /\ [BridgeNext]_vars => WriterInTurn' /\ TakenOnce' /\ AnswerIsAwaited'
  BY WriterInTurnStep, TakenOnceStep, AwaitedStep
<1>3. QED
  BY <1>1, <1>2, BridgeAccountsCorrect, PTL DEF BridgeSpec
=============================================================================
