---------------------------- MODULE UsbipBridge ----------------------------
(***************************************************************************)
(* UsbipBridge (usbipdevirt/src/main.rs:35): blocking submit calls of many *)
(* threads over one split USB/IP connection.  Callers share the writer     *)
(* half under a mutex; one reader thread hands each RET_SUBMIT to the      *)
(* caller that waits for it, through the map `pending' from sequence       *)
(* number to the sending end of the caller's one-place channel.            *)
(*                                                                         *)
(* The client library's steps (UsbipClient) are conjoined with the steps   *)
(* of the thread that runs them.                                           *)
(***************************************************************************)
EXTENDS UsbipClient

CONSTANT Callers   \* the threads that call submit: main, and one per endpoint

ASSUME CallersAssumption == NoEntry \notin Callers

VARIABLES
  callPc,      \* where each caller is in submit
  seqOf,       \* the sequence number of its current call
  chan,        \* what its channel holds: a RetSubmit, an error, or nothing
  writerLock,  \* the holder of the writer mutex
  pending,     \* UsbipBridge.pending: the caller whose `tx' is stored
  rdThread,    \* where the reader thread is in its loop
  rdTx         \* the `tx' the reader thread has taken out of the map

readerVars == <<rdThread, rdTx>>
bridgeVars == <<callPc, seqOf, chan, writerLock, pending, readerVars>>
vars == <<clientVars, bridgeVars>>

\* The content of a channel.  "dropped": every sender is gone, recv fails.
Empty      == [kind |-> "empty", seq |-> 0]
Ok(s)      == [kind |-> "ok", seq |-> s]
Terminated == [kind |-> "terminated", seq |-> 0]
Dropped    == [kind |-> "dropped", seq |-> 0]
Content    == [kind : {"empty", "ok", "terminated", "dropped"}, seq : Seqnum]

BridgeTypeOK ==
  /\ TypeOK
  /\ callPc \in [Callers -> {"idle", "lock", "alloc", "send", "cleanup",
                             "insert", "wait", "dead"}]
  /\ seqOf \in [Callers -> Seqnum]
  /\ chan \in [Callers -> Content]
  /\ writerLock \in Callers \cup {NoEntry}
  /\ pending \in [Seqnum -> Callers \cup {NoEntry}]
  /\ rdThread \in {"loop", "send", "drain", "done"}
  /\ rdTx \in IF rdThread = "send" THEN Callers ELSE {NoEntry}

\* main splits the connection it has just imported and starts the reader.
BridgeInit ==
  /\ InitConn("split")
  /\ callPc = [t \in Callers |-> "idle"] /\ seqOf = [t \in Callers |-> 0]
  /\ chan = [t \in Callers |-> Empty]
  /\ writerLock = NoEntry /\ pending = Nothing
  /\ rdThread = "loop" /\ rdTx = NoEntry

Goto(t, from, to) == callPc[t] = from /\ callPc' = [callPc EXCEPT ![t] = to]

-----------------------------------------------------------------------------
(* submit *)

Submit(t) ==
  /\ Goto(t, "idle", "lock")
  /\ UNCHANGED <<clientVars, seqOf, chan, writerLock, pending, readerVars>>

LockWriter(t) ==
  /\ Goto(t, "lock", "alloc")
  /\ writerLock = NoEntry /\ wrPc # "panicked"
  /\ writerLock' = t
  /\ UNCHANGED <<clientVars, seqOf, chan, pending, readerVars>>

\* The mutex is poisoned by the panic of its last holder: unwrap panics too.
LockPoisoned(t) ==
  /\ Goto(t, "lock", "dead")
  /\ writerLock = NoEntry /\ wrPc = "panicked"
  /\ UNCHANGED <<clientVars, seqOf, chan, writerLock, pending, readerVars>>

Register(t) ==
  /\ Goto(t, "alloc", "send")
  /\ \E dir \in Direction : Send(SubmitCmd(dir))
  /\ seqOf' = [seqOf EXCEPT ![t] = nextSeq]
  /\ UNCHANGED <<chan, writerLock, pending, readerVars>>

RegisterPanics(t) ==
  /\ Goto(t, "alloc", "dead")
  /\ AllocPanic
  /\ writerLock' = NoEntry
  /\ UNCHANGED <<seqOf, chan, pending, readerVars>>

Write(t) ==
  /\ Goto(t, "send", "insert")
  /\ WriteCmd
  /\ UNCHANGED <<seqOf, chan, writerLock, pending, readerVars>>

WriteError(t) ==
  /\ Goto(t, "send", "cleanup")
  /\ WriteFails
  /\ UNCHANGED <<seqOf, chan, writerLock, pending, readerVars>>

\* send_submit takes its entry back, and `?' returns its error from submit.
SendFailed(t) ==
  /\ Goto(t, "cleanup", "idle")
  /\ Cleanup
  /\ writerLock' = NoEntry
  /\ UNCHANGED <<seqOf, chan, pending, readerVars>>

\* Mutant: the number of the call to come.
NextNumber(t) == nextSeq

NumberOf(t) == seqOf[t]

\* Replacing another caller's sender drops it.
Insert(t) ==
  /\ Goto(t, "insert", "wait")
  /\ LET s == NumberOf(t)
     IN  /\ pending' = [pending EXCEPT ![s] = t]
         /\ chan' = IF pending[s] = NoEntry THEN chan
                    ELSE [chan EXCEPT ![pending[s]] = Dropped]
  /\ writerLock' = NoEntry
  /\ UNCHANGED <<clientVars, seqOf, readerVars>>

Return(t) ==
  /\ Goto(t, "wait", "idle")
  /\ chan[t] # Empty
  /\ chan' = [chan EXCEPT ![t] = Empty]
  /\ UNCHANGED <<clientVars, seqOf, writerLock, pending, readerVars>>

-----------------------------------------------------------------------------
(* reader_thread *)

ReaderRecv ==
  /\ rdThread = "loop"
  /\ RecvCall \/ Recv
  /\ UNCHANGED bridgeVars

Received(type) ==
  /\ rdThread = "loop" /\ rdPc = "ok" /\ rdMsg.type = type
  /\ RecvReturn
  /\ UNCHANGED <<callPc, seqOf, chan, writerLock>>

\* Mutant: the sender is looked up and left in the map.
Peeked(s) == pending

Removed(s) == [pending EXCEPT ![s] = NoEntry]

\* Mutant: there is always a sender.
Unchecked(tx) == "send"

OnSender(tx) == IF tx = NoEntry THEN "loop" ELSE "send"

\* The sender is taken out of the map.  Without one the answer is discarded.
TakeTx ==
  /\ Received("RET_SUBMIT")
  /\ rdTx' = pending[rdMsg.seq]
  /\ pending' = Removed(rdMsg.seq)
  /\ rdThread' = OnSender(pending[rdMsg.seq])

\* The channel has one place: send blocks while it is taken.
SendTx ==
  /\ rdThread = "send"
  /\ chan[rdTx] = Empty
  /\ chan' = [chan EXCEPT ![rdTx] = Ok(rdMsg.seq)]
  /\ rdTx' = NoEntry
  /\ rdThread' = "loop"
  /\ UNCHANGED <<clientVars, callPc, seqOf, writerLock, pending>>

\* Mutant: the RET_UNLINK retires the call of its own number.
Retired == Removed(rdMsg.seq)

Logged == pending

\* A RET_UNLINK is only logged.
IgnoreUnlink ==
  /\ Received("RET_UNLINK")
  /\ pending' = Logged
  /\ UNCHANGED readerVars

ReaderStops ==
  /\ rdThread = "loop" /\ rdPc = "err"
  /\ rdThread' = "drain"
  /\ UNCHANGED <<clientVars, callPc, seqOf, chan, writerLock, pending, rdTx>>

\* The drain keeps the map locked throughout, and every channel is empty.
Registered == {t \in Callers : \E s \in Seqnum : pending[s] = t}

\* Mutant: the map is emptied and nobody told.
Untold(t) == chan[t]

Drained(t) == IF t \in Registered THEN Terminated ELSE chan[t]

Drain ==
  /\ rdThread = "drain"
  /\ \A t \in Registered : chan[t] = Empty
  /\ chan' = [t \in Callers |-> Drained(t)]
  /\ pending' = Nothing
  /\ rdThread' = "done"
  /\ UNCHANGED <<clientVars, callPc, seqOf, writerLock, rdTx>>

-----------------------------------------------------------------------------

SubmitStep(t) ==
  \/ Submit(t) \/ LockWriter(t) \/ LockPoisoned(t) \/ Register(t) \/ RegisterPanics(t)
  \/ Write(t) \/ WriteError(t) \/ SendFailed(t) \/ Insert(t) \/ Return(t)

ReaderStep ==
  ReaderRecv \/ TakeTx \/ SendTx \/ IgnoreUnlink \/ ReaderStops \/ Drain

ServerStep ==
  /\ (\E s \in Seqnum : ServerCompletes(s)) \/ ServerStrays \/ ConnLost
  /\ UNCHANGED bridgeVars

BridgeNext == (\E t \in Callers : SubmitStep(t)) \/ ReaderStep \/ ServerStep

BridgeSpec == BridgeInit /\ [][BridgeNext]_vars

\* The operating system runs the threads that can run, and the device answers
\* the URBs it holds.
BridgeFairness ==
  /\ \A t \in Callers : WF_vars(SubmitStep(t))
  /\ WF_vars(ReaderStep)
  /\ \A s \in Seqnum : WF_vars(ServerCompletes(s) /\ UNCHANGED bridgeVars)

BridgeFairSpec == BridgeSpec /\ BridgeFairness

-----------------------------------------------------------------------------
(* An answer is handed to the call it answers (main.rs:91): the caller the  *)
(* reader finds under a sequence number still waits for that number, however *)
(* many calls began and ended since it was stored.                          *)
AnswerMatchesCall ==
  /\ \A t \in Callers : chan[t].kind = "ok" => callPc[t] = "wait" /\ chan[t].seq = seqOf[t]
  /\ rdThread = "send" => callPc[rdTx] = "wait" /\ rdMsg.seq = seqOf[rdTx]

(* The reader thread never waits for a caller: the one-place channel        *)
(* (main.rs:58) it is about to send into, in the loop or in the drain, is    *)
(* always free.                                                             *)
ReaderNeverBlocks ==
  /\ rdThread = "send" => chan[rdTx] = Empty
  /\ \A t \in Registered : chan[t] = Empty

(* A caller that waits with nothing received yet has its sender in the map  *)
(* or in the reader's hands, so no call is forgotten by a drop: its entry is *)
(* never replaced or removed for another call's sake.                       *)
WaiterIsRegistered ==
  OverflowChecks =>
    \A t \in Callers :
      callPc[t] = "wait" /\ chan[t] = Empty => pending[seqOf[t]] = t \/ rdTx = t

(* The inductive invariant behind these three.  A sender in the map or in   *)
(* the reader's hands belongs to a caller that waits, under its current     *)
(* number, with an empty channel; with overflow checks no two running calls *)
(* have one number.                                                         *)
Numbered(t) == callPc[t] \in {"send", "cleanup", "insert", "wait"}

StoredSenderWaits ==
  \A s \in Seqnum, t \in Callers :
    pending[s] = t => callPc[t] = "wait" /\ seqOf[t] = s /\ chan[t] = Empty

TakenSenderWaits ==
  rdThread = "send" =>
    /\ callPc[rdTx] = "wait" /\ seqOf[rdTx] = rdMsg.seq /\ chan[rdTx] = Empty
    /\ rdTx \notin Registered

ReceivedByWaiter ==
  \A t \in Callers :
    chan[t] # Empty =>
      callPc[t] = "wait" /\ (chan[t].kind = "ok" => chan[t].seq = seqOf[t])

FreshNumbers ==
  OverflowChecks =>
    \A t \in Callers :
      Numbered(t) =>
        /\ seqOf[t] < nextSeq
        /\ \A u \in Callers \ {t} : Numbered(u) => seqOf[u] # seqOf[t]

CallInv ==
  /\ StoredSenderWaits /\ TakenSenderWaits /\ ReceivedByWaiter
  /\ FreshNumbers /\ WaiterIsRegistered

(* Against a server that answers only what it was asked, the reader thread  *)
(* runs until the connection is lost.                                       *)
ReaderOutlivesConnection ==
  connUp /\ ~strayed => rdPc # "err" /\ rdThread \in {"loop", "send"}

(* No answer is lost but in the race of main.rs:73.  Whatever the server    *)
(* holds or has answered, and the reader has not handed on (main.rs:91),     *)
(* belongs to a call that is in the map under that number, or is between its *)
(* write and its insertion.                                                  *)
Coming(s) ==
  \/ urbs[s] # NoEntry \/ AnswerInStream(s)
  \/ rdPc \in {"data", "ok"} /\ rdMsg.type = "RET_SUBMIT" /\ rdMsg.seq = s

AnswerIsAwaited ==
  OverflowChecks /\ ~strayed /\ rdThread \in {"loop", "send"} =>
    \A s \in Seqnum :
      Coming(s) =>
        \E t \in Callers : seqOf[t] = s /\ (callPc[t] = "insert" \/ pending[s] = t)

(* A registered call whose answer the reader has still to take, or whose    *)
(* connection is lost before the reader is done, returns.                   *)
Answerable(t) ==
  /\ callPc[t] = "wait" /\ pending[seqOf[t]] = t
  /\ rdThread # "done"
  /\ \/ urbs[seqOf[t]] # NoEntry \/ AnswerInStream(seqOf[t])
     \/ rdPc = "data" /\ rdMsg.seq = seqOf[t]
     \/ ~connUp

EveryAnswerableCallReturns ==
  \A t \in Callers : Answerable(t) ~> callPc[t] = "idle"

(* submit keeps the promise of UrbCalls.                                    *)
PhaseOf(t) ==
  CASE callPc[t] = "idle" -> "idle"
    [] callPc[t] \in {"cleanup", "dead"} -> "failed"
    [] callPc[t] = "wait" /\ chan[t].kind = "ok" -> "answered"
    [] callPc[t] = "wait" /\ chan[t].kind \in {"terminated", "dropped"} -> "failed"
    [] OTHER -> "open"

CarriedOut(t) ==
  callPc[t] \in {"send", "cleanup", "insert", "wait"} /\ seqOf[t] \in performed

Calls == INSTANCE UrbCalls WITH
           phase <- [t \in Callers |-> PhaseOf(t)],
           carriedOut <- [t \in Callers |-> CarriedOut(t)]

ImplementsUrbCalls == Calls!Spec

-----------------------------------------------------------------------------
(* Refuted: "Register pending BEFORE writing to avoid race with reader"     *)
(* (client.rs:257).  submit registers the caller after the write, so the    *)
(* reader can take an answer before its caller is in the map.               *)
AnswerFindsCaller ==
  rdThread = "loop" /\ rdPc = "ok" /\ rdMsg.type = "RET_SUBMIT"
    => pending[rdMsg.seq] # NoEntry

(* Refuted: "Drain all pending requests with error" (main.rs:111).  A call  *)
(* whose write the socket still took is stored after the drain.             *)
DrainReachesEveryCall == rdThread = "done" => Registered = {}
=============================================================================
