---------------------------- MODULE UsbipClient ----------------------------
(***************************************************************************)
(* The request accounting of the usbip crate (usbip/src/client.rs): one    *)
(* TCP connection to a USB/IP server, used whole (UsbipConnection) or      *)
(* split into a writer and a reader half that share the `pending' and      *)
(* `unlinks' maps (UsbipWriter, UsbipReader, SharedState).                 *)
(*                                                                         *)
(* The server and the socket are external.  The server completes URBs in   *)
(* any order, so commands that were written are kept as the set of URBs    *)
(* and unlink requests it still has to serve; its answers reach the client *)
(* through one FIFO stream of headers and payloads, as TCP delivers them.  *)
(***************************************************************************)
EXTENDS Integers, Sequences

CONSTANTS
  MaxSeq,          \* u32::MAX, the largest sequence number
  OverflowChecks,  \* TRUE in a debug build: `+= 1' at u32::MAX panics
  StrayAnswers,    \* TRUE if the server may send an answer nobody asked for
  NoEntry          \* "the map has no such key"

Seqnum    == 0 .. MaxSeq
Direction == {"Out", "In"}

ASSUME ClientAssumption ==
  /\ MaxSeq \in Nat \ {0}
  /\ OverflowChecks \in BOOLEAN
  /\ StrayAnswers \in BOOLEAN
  /\ NoEntry \notin Seqnum /\ NoEntry \notin Direction

VARIABLES
  mode,           \* "whole": UsbipConnection, "split": the two halves, "closed"
  nextSeq,        \* next_seqnum
  wrPc,           \* where the one command being sent is in send_submit / send_unlink
  cmd,            \* that command
  sharedPending,  \* SharedState.pending: the direction of each unanswered URB
  sharedUnlinks,  \* SharedState.unlinks: the URB each unanswered unlink targets
  rdPc,           \* where recv is
  rdMsg,          \* the header recv has decoded
  connUp,         \* the TCP connection is alive
  urbs,           \* external: the URBs the server holds, with their direction
  unlinkReqs,     \* external: the unlink commands it has not served
  performed,      \* external: the URBs the device has carried out
  strayed,        \* external: the server has sent an answer nobody asked for
  toClient        \* external: the bytes on their way to the client

writerVars == <<mode, nextSeq, wrPc, cmd>>
mapVars    == <<sharedPending, sharedUnlinks>>
recvVars   == <<rdPc, rdMsg>>
serverVars == <<connUp, urbs, unlinkReqs, performed, strayed>>
clientVars == <<writerVars, mapVars, recvVars, serverVars, toClient>>

-----------------------------------------------------------------------------
(* Commands, and what the server's stream is made of. *)

Command ==
  [op : {"submit"}, seq : Seqnum, dir : Direction, target : {NoEntry}]
    \cup [op : {"unlink"}, seq : Seqnum, dir : {"Out"}, target : Seqnum]

SubmitCmd(dir) ==
  [op |-> "submit", seq |-> nextSeq, dir |-> dir, target |-> NoEntry]
UnlinkCmd(target) ==
  [op |-> "unlink", seq |-> nextSeq, dir |-> "Out", target |-> target]

Token == [type : {"RET_SUBMIT", "RET_UNLINK", "payload", "unknown"},
          seq : Seqnum, len : {0, 1}, reset : BOOLEAN]

\* len = 1 stands for actual_length > 0; an IN answer then carries a payload.
RetSubmit(s, n) == [type |-> "RET_SUBMIT", seq |-> s, len |-> n, reset |-> FALSE]
RetUnlink(s, r) == [type |-> "RET_UNLINK", seq |-> s, len |-> 0, reset |-> r]
Payload(s)      == [type |-> "payload", seq |-> s, len |-> 1, reset |-> FALSE]
Unknown         == [type |-> "unknown", seq |-> 0, len |-> 0, reset |-> FALSE]

Answer(s, dir, n) ==
  IF dir = "In" /\ n > 0 THEN <<RetSubmit(s, n), Payload(s)>> ELSE <<RetSubmit(s, n)>>

Nothing == [s \in Seqnum |-> NoEntry]

TypeOK ==
  /\ mode \in {"whole", "split", "closed"}
  /\ nextSeq \in Seqnum
  /\ wrPc \in {"idle", "write", "cleanup", "panicked"}
  /\ cmd \in Command
  /\ sharedPending \in [Seqnum -> Direction \cup {NoEntry}]
  /\ sharedUnlinks \in [Seqnum -> Seqnum \cup {NoEntry}]
  /\ rdPc \in {"idle", "read", "data", "ok", "err"}
  /\ rdMsg \in Token
  /\ connUp \in BOOLEAN
  /\ urbs \in [Seqnum -> Direction \cup {NoEntry}]
  /\ unlinkReqs \subseteq [seq : Seqnum, target : Seqnum]
  /\ performed \subseteq Seqnum
  /\ strayed \in BOOLEAN
  /\ toClient \in Seq(Token)

\* import_device hands out a connection on which nothing has been sent.
InitConn(m) ==
  /\ mode = m /\ nextSeq = 1 /\ wrPc = "idle"
  /\ cmd = [op |-> "submit", seq |-> 0, dir |-> "Out", target |-> NoEntry]
  /\ sharedPending = Nothing /\ sharedUnlinks = Nothing
  /\ rdPc = "idle" /\ rdMsg = Unknown
  /\ connUp = TRUE /\ urbs = Nothing /\ unlinkReqs = {} /\ performed = {} /\ strayed = FALSE
  /\ toClient = <<>>

Init == InitConn("whole")

-----------------------------------------------------------------------------
(* Sending a command.  alloc_seqnum: `next_seqnum += 1' on a u32. *)

\* Mutant: off by one.
LatePanics == OverflowChecks /\ nextSeq > MaxSeq

AllocPanics == OverflowChecks /\ nextSeq = MaxSeq

AllocSeqnum ==
  nextSeq' = IF ~OverflowChecks /\ nextSeq = MaxSeq THEN 0 ELSE nextSeq + 1

AllocPanic ==
  /\ wrPc = "idle"
  /\ mode = "split" \/ (mode = "whole" /\ rdPc = "idle")
  /\ AllocPanics
  /\ wrPc' = "panicked"
  /\ UNCHANGED <<mode, nextSeq, cmd, mapVars, recvVars, serverVars, toClient>>

Alloc == ~AllocPanics /\ AllocSeqnum /\ performed' = performed \ {nextSeq}

\* The entry of a command: `pending' for an URB, `unlinks' for an unlink.
SetEntry(c, e) ==
  IF c.op = "submit"
  THEN sharedPending' = [sharedPending EXCEPT ![c.seq] = e] /\ UNCHANGED sharedUnlinks
  ELSE sharedUnlinks' = [sharedUnlinks EXCEPT ![c.seq] = e] /\ UNCHANGED sharedPending

\* Mutant: no entry is made.
LateEnter(c) == UNCHANGED mapVars

Enter(c) == SetEntry(c, IF c.op = "submit" THEN c.dir ELSE c.target)

\* The socket takes the whole command.  A server that is gone never sees it.
SocketTakes(c) ==
  IF ~connUp THEN UNCHANGED <<urbs, unlinkReqs>>
  ELSE IF c.op = "submit"
       THEN urbs' = [urbs EXCEPT ![c.seq] = c.dir] /\ UNCHANGED unlinkReqs
       ELSE /\ unlinkReqs' = unlinkReqs \cup {[seq |-> c.seq, target |-> c.target]}
            /\ UNCHANGED urbs

(* UsbipConnection, whole: `&mut self' makes each call one step, and the    *)
(* maps are updated after the write.                                        *)
ConnSend(c) ==
  /\ mode = "whole" /\ wrPc = "idle" /\ rdPc = "idle"
  /\ Alloc /\ SocketTakes(c)
  /\ Enter(c) \/ (~connUp /\ UNCHANGED mapVars)
  /\ UNCHANGED <<mode, wrPc, cmd, recvVars, connUp, strayed, toClient>>

\* into_split moves the maps and next_seqnum; when try_clone fails, self is
\* dropped and with it the connection.
IntoSplit ==
  /\ mode = "whole" /\ wrPc = "idle" /\ rdPc = "idle"
  /\ \/ mode' = "split" /\ UNCHANGED connUp
     \/ mode' = "closed" /\ connUp' = FALSE
  /\ UNCHANGED <<nextSeq, wrPc, cmd, mapVars, recvVars, urbs, unlinkReqs, performed,
                 strayed, toClient>>

(* UsbipWriter: the map entry is made before the command is written, and     *)
(* taken back when the write fails.                                          *)
Send(c) ==
  /\ mode = "split" /\ wrPc = "idle"
  /\ Alloc /\ Enter(c)
  /\ cmd' = c /\ wrPc' = "write"
  /\ UNCHANGED <<mode, recvVars, connUp, urbs, unlinkReqs, strayed, toClient>>

WriteCmd ==
  /\ wrPc = "write" /\ wrPc' = "idle"
  /\ SocketTakes(cmd)
  /\ UNCHANGED <<mode, nextSeq, cmd, mapVars, recvVars, connUp, performed, strayed, toClient>>

WriteFails ==
  /\ wrPc = "write" /\ wrPc' = "cleanup"
  /\ ~connUp
  /\ UNCHANGED <<mode, nextSeq, cmd, mapVars, recvVars, serverVars, toClient>>

Cleanup ==
  /\ wrPc = "cleanup" /\ wrPc' = "idle"
  /\ SetEntry(cmd, NoEntry)
  /\ UNCHANGED <<mode, nextSeq, cmd, recvVars, serverVars, toClient>>

-----------------------------------------------------------------------------
(* recv: UsbipReader::recv and, for the whole connection, recv_urb_response. *)

RecvCall ==
  /\ mode # "closed"
  /\ rdPc = "idle" /\ rdPc' = "read" /\ rdMsg' = Unknown
  /\ UNCHANGED <<writerVars, mapVars, serverVars, toClient>>

\* read_exact of a header takes the next token off the stream.
ReadHeader(types) ==
  /\ rdPc = "read"
  /\ toClient # <<>> /\ Head(toClient).type \in types
  /\ rdMsg' = Head(toClient) /\ toClient' = Tail(toClient)
  /\ UNCHANGED <<writerVars, serverVars>>

\* Mutant: the data is read whenever actual_length says there is some.
LenSaysData(direction, n) == n > 0

DataFollows(direction, n) == direction = "In" /\ n > 0

RecvRetSubmit ==
  /\ ReadHeader({"RET_SUBMIT"})
  /\ LET direction == sharedPending[rdMsg'.seq]
     IN  rdPc' = IF direction = NoEntry THEN "err"
                 ELSE IF DataFollows(direction, rdMsg'.len) THEN "data" ELSE "ok"
  /\ sharedPending' = [sharedPending EXCEPT ![rdMsg'.seq] = NoEntry]
  /\ UNCHANGED sharedUnlinks

\* read_exact of actual_length bytes, whatever they are: what lies where a stray
\* answer promised data is taken for it, as a whole or in part.
RecvData ==
  /\ rdPc = "data" /\ rdPc' = "ok"
  /\ toClient # <<>>
  /\ \/ toClient' = Tail(toClient)
     \/ Head(toClient) # Payload(rdMsg.seq) /\ toClient' = <<Unknown>> \o Tail(toClient)
  /\ UNCHANGED <<writerVars, mapVars, rdMsg, serverVars>>

\* Mutant: the RET_UNLINK never retires its target.
KeepsTarget(target, reset) == FALSE

\* Only an unlink that won (-ECONNRESET) retires its target.
RetiresTarget(target, reset) == target # NoEntry /\ reset

RecvRetUnlink ==
  /\ ReadHeader({"RET_UNLINK"})
  /\ LET target == sharedUnlinks[rdMsg'.seq]
     IN  sharedPending' = IF RetiresTarget(target, rdMsg'.reset)
                          THEN [sharedPending EXCEPT ![target] = NoEntry] ELSE sharedPending
  /\ sharedUnlinks' = [sharedUnlinks EXCEPT ![rdMsg'.seq] = NoEntry]
  /\ rdPc' = "ok"

\* An unknown command, or bytes that are no header met where one was expected.
\* Bound: such bytes do not happen to decode as an answer.
RecvGarbage ==
  /\ ReadHeader({"unknown", "payload"})
  /\ rdPc' = "err"
  /\ UNCHANGED mapVars

RecvEof ==
  /\ rdPc \in {"read", "data"} /\ rdPc' = "err"
  /\ ~connUp /\ toClient = <<>>
  /\ UNCHANGED <<writerVars, mapVars, rdMsg, serverVars, toClient>>

Recv == RecvRetSubmit \/ RecvData \/ RecvRetUnlink \/ RecvGarbage \/ RecvEof

RecvReturn ==
  /\ rdPc \in {"ok", "err"} /\ rdPc' = "idle"
  /\ UNCHANGED <<writerVars, mapVars, rdMsg, serverVars, toClient>>

-----------------------------------------------------------------------------
(* The server and the connection (external). *)

ServerCompletes(s) ==
  /\ connUp
  /\ urbs[s] # NoEntry
  /\ \E n \in {0, 1} : toClient' = toClient \o Answer(s, urbs[s], n)
  /\ urbs' = [urbs EXCEPT ![s] = NoEntry]
  /\ performed' = performed \cup {s}
  /\ UNCHANGED <<writerVars, mapVars, recvVars, connUp, unlinkReqs, strayed>>

\* An URB that is cancelled is answered by its RET_UNLINK alone.
ServerUnlinks(r) ==
  /\ connUp
  /\ r \in unlinkReqs
  /\ unlinkReqs' = unlinkReqs \ {r}
  /\ toClient' = Append(toClient, RetUnlink(r.seq, urbs[r.target] # NoEntry))
  /\ urbs' = [urbs EXCEPT ![r.target] = NoEntry]
  /\ UNCHANGED <<writerVars, mapVars, recvVars, connUp, performed, strayed>>

\* Any answer to any number, asked for or not, with data announced or not.
\* Bounds: it strays while nothing else is on the stream, sends no data of its
\* own, and a reset is for an unlink that is registered: for others it is nothing.
Strays ==
  {RetSubmit(s, 0) : s \in Seqnum} \cup {RetSubmit(s, 1) : s \in Seqnum}
    \cup {RetUnlink(s, FALSE) : s \in Seqnum} \cup {Unknown}
    \cup {RetUnlink(s, TRUE) : s \in {u \in Seqnum : sharedUnlinks[u] # NoEntry}}

ServerStrays ==
  /\ StrayAnswers /\ connUp
  /\ toClient = <<>>
  /\ \E m \in Strays : toClient' = <<m>>
  /\ strayed' = TRUE
  /\ UNCHANGED <<writerVars, mapVars, recvVars, connUp, urbs, unlinkReqs, performed>>

\* A reset may discard what was in flight, at any byte.
ConnLost ==
  /\ connUp
  /\ connUp' = FALSE
  /\ \E k \in 0 .. Len(toClient) : toClient' = SubSeq(toClient, 1, k)
  /\ UNCHANGED <<writerVars, mapVars, recvVars, urbs, unlinkReqs, performed, strayed>>

Server == \/ \E s \in Seqnum : ServerCompletes(s)
          \/ \E r \in unlinkReqs : ServerUnlinks(r)

-----------------------------------------------------------------------------
(* A program using the library: it may unlink any URB it has submitted. *)

Commands ==
  {SubmitCmd(dir) : dir \in Direction} \cup {UnlinkCmd(target) : target \in 1 .. nextSeq - 1}

Next ==
  \/ AllocPanic
  \/ \E c \in Commands : ConnSend(c) \/ Send(c)
  \/ IntoSplit
  \/ WriteCmd \/ WriteFails \/ Cleanup
  \/ RecvCall \/ Recv \/ RecvReturn
  \/ Server \/ ServerStrays \/ ConnLost

Spec == Init /\ [][Next]_clientVars

-----------------------------------------------------------------------------
(* Where the answer to an URB or to an unlink still is. *)

Answers(type) == {i \in DOMAIN toClient : toClient[i].type = type}

AnswerInStream(s) == \E i \in Answers("RET_SUBMIT") : toClient[i].seq = s
UnlinkInStream(u) == \E i \in Answers("RET_UNLINK") : toClient[i].seq = u
CancelInStream(s) == \E i \in Answers("RET_UNLINK") :
                       toClient[i].reset /\ sharedUnlinks[toClient[i].seq] = s

(* As long as the server answers only what it was asked, recv never meets a *)
(* RET_SUBMIT it has no entry for: the entry is made before the command can *)
(* be answered (client.rs:257), no failed write or other answer removes it, *)
(* and no two answers carry one sequence number.  Such a RET_SUBMIT would   *)
(* end the reader with "RET_SUBMIT for unknown seqnum" (client.rs:334).     *)
NoFalseRejection ==
  ~strayed =>
    /\ \A i \in Answers("RET_SUBMIT") : sharedPending[toClient[i].seq] # NoEntry
    /\ \A i, j \in Answers("RET_SUBMIT") :
         toClient[i].seq = toClient[j].seq => i = j

(* As long as the server answers only what it was asked, recv reads a        *)
(* payload exactly where the server put one, after the IN answer it belongs  *)
(* to (client.rs:341): the direction it looks up is the direction the URB    *)
(* had, an OUT answer's actual_length is not followed by data, and it never  *)
(* waits on a live connection for data that does not come.  A stray answer   *)
(* that promises data breaks this: recv takes the next header for it.        *)
Framed ==
  ~strayed =>
    /\ rdPc = "data" /\ connUp => toClient # <<>>
    /\ rdPc = "data" /\ toClient # <<>> => Head(toClient) = Payload(rdMsg.seq)
    /\ rdPc \in {"idle", "read", "ok"} /\ toClient # <<>> => Head(toClient).type # "payload"

(* While the connection is up, an entry stays in a map only as long as its  *)
(* answer is still to come: an URB that was cancelled leaves with the        *)
(* RET_UNLINK that says so (client.rs:365), every other one with its own     *)
(* RET_SUBMIT.                                                               *)
NoLeakedEntry ==
  connUp /\ wrPc = "idle" /\ ~strayed =>
    \A s \in Seqnum :
      /\ sharedPending[s] # NoEntry =>
           urbs[s] # NoEntry \/ AnswerInStream(s) \/ CancelInStream(s)
      /\ sharedUnlinks[s] # NoEntry =>
           UnlinkInStream(s) \/ \E r \in unlinkReqs : r.seq = s
=============================================================================
