--------------------------- MODULE CommandStream ---------------------------
(***************************************************************************)
(* What usbipdevirt sends once a device is imported: the threads write      *)
(* CMD_SUBMIT headers and the data of OUT transfers to one connection,      *)
(* under the writer mutex (main.rs 60-74, client.rs 384-418).  The server   *)
(* (external) knows where a command ends from its header alone.  Answers    *)
(* are UsbipClient's affair.                                                *)
(***************************************************************************)
EXTENDS Handshake

CONSTANTS
  Callers, Main,   \* the threads, and the one that handles endpoint 0
  EP0_BUF_SIZE,    \* what ep0_read can carry
  Lengths,         \* the lengths of transfers
  DataStages,      \* those of control transfers that carry data from the host
  MaxCmds          \* bound: commands

ASSUME StreamAssumption ==
  /\ Main \in Callers
  /\ EP0_BUF_SIZE \in Nat /\ MaxCmds \in Nat
  /\ Lengths \subseteq Nat /\ DataStages \subseteq Nat

VARIABLES
  writing,   \* what each thread has still to write
  sent,      \* the commands, in the order of their numbers
  taken,     \* external: the part the server has of the next command
  decoded    \* external: the commands it has taken off the stream

cmdVars == <<writing, sent, taken, decoded>>
vars    == <<hsVars, cmdVars>>

CmdSubmitHeader(seq, devid, out, len) ==
  [type |-> "CMD_SUBMIT", seq |-> seq, devid |-> devid, out |-> out, len |-> len]
Unit(seq) == [type |-> "data", seq |-> seq]

Token == [type : {"CMD_SUBMIT"}, seq : 1 .. MaxCmds, devid : Nat, out : BOOLEAN, len : Nat]
           \cup [type : {"data"}, seq : 1 .. MaxCmds]

\* What a transfer announces (transfer_buffer_length), and the data it has.
Transfer(out, len, data) == [out |-> out, len |-> len, data |-> data]

\* Control transfers: ep0_read returns what fits its buffer (EP0_BUF_SIZE bytes).
Stage(n)        == IF n < EP0_BUF_SIZE THEN n ELSE EP0_BUF_SIZE
ControlIn(n)    == Transfer(FALSE, n, 0)
ControlOut(n)   == Transfer(TRUE, n, Stage(n))

\* Endpoint threads: an IN transfer asks for a packet, an OUT transfer has what
\* ep_read returned.
EpIn(n)         == Transfer(FALSE, n, 0)

\* Mutant: the packet size is announced, not what was read.
FullEpOut(n)    == Transfer(TRUE, n + 1, n)

EpOut(n)        == Transfer(TRUE, n, n)

Transfers(t) ==
  IF t = Main THEN {ControlIn(n) : n \in Lengths} \cup {ControlOut(n) : n \in DataStages}
  ELSE {EpIn(n) : n \in Lengths} \cup {EpOut(n) : n \in Lengths}

StreamTypeOK ==
  /\ HandshakeTypeOK
  /\ writing \in [Callers -> Seq(Seq(Token))]
  /\ sent \in Seq(Seq(Token)) /\ Len(sent) <= MaxCmds
  /\ taken \in Seq(Token) /\ decoded \in Seq(Seq(Token))

Init ==
  /\ HandshakeInit
  /\ writing = [t \in Callers |-> <<>>]
  /\ sent = <<>> /\ taken = <<>> /\ decoded = <<>>

-----------------------------------------------------------------------------
Running == pc = "running" /\ UNCHANGED <<mainVars, peerVars, connUp, toClient>>

\* Mutant: each thread writes when it likes.
NoLock == TRUE

WriterFree == \A t \in Callers : writing[t] = <<>>

\* The lock is taken, a number allocated, and the two writes are to be made.
Submit(t) ==
  /\ Running
  /\ writing[t] = <<>> /\ WriterFree /\ Len(sent) < MaxCmds
  /\ \E x \in Transfers(t) :
       LET seq    == Len(sent) + 1
           header == CmdSubmitHeader(seq, dev.devid, x.out, x.len)
           data   == [i \in 1 .. x.data |-> Unit(seq)]
       IN  /\ sent' = Append(sent, <<header>> \o data)
           /\ writing' = [writing EXCEPT ![t] = <<<<header>>, data>>]
  /\ UNCHANGED <<toServer, taken, decoded>>

\* write_all.  A lost connection takes nothing, and submit returns the error.
Write(t) ==
  /\ Running
  /\ writing[t] # <<>>
  /\ IF connUp THEN toServer' = toServer \o Head(writing[t])
                    /\ writing' = [writing EXCEPT ![t] = Tail(@)]
     ELSE UNCHANGED toServer /\ writing' = [writing EXCEPT ![t] = <<>>]
  /\ UNCHANGED <<sent, taken, decoded>>

\* The server reads a header, then the data an OUT header announces.
Announced(header) ==
  IF header.type = "CMD_SUBMIT" /\ header.out THEN header.len ELSE 0

ServerTakes ==
  /\ Running
  /\ toServer # <<>> /\ toServer' = Tail(toServer)
  /\ LET part == Append(taken, Head(toServer))
     IN  IF Len(part) = 1 + Announced(part[1])
         THEN decoded' = Append(decoded, part) /\ taken' = <<>>
         ELSE taken' = part /\ UNCHANGED decoded
  /\ UNCHANGED <<writing, sent>>

StreamStep == (\E t \in Callers : Submit(t) \/ Write(t)) \/ ServerTakes

Next == (HandshakeNext /\ UNCHANGED cmdVars) \/ StreamStep

Spec == Init /\ [][Next]_vars

FairSpec ==
  /\ Spec
  /\ WF_vars(MainStep /\ UNCHANGED cmdVars) /\ WF_vars(Server /\ UNCHANGED cmdVars)
  /\ \A t \in Callers : WF_vars(Write(t))
  /\ WF_vars(ServerTakes)

-----------------------------------------------------------------------------
(* The server takes off the stream the commands that were sent, whole, with  *)
(* their own data and in the order of their numbers (client.rs:409-414,      *)
(* main.rs:61): no header is taken for data and no thread writes into the    *)
(* command of another.  Needs DataStages within EP0_BUF_SIZE.                 *)
CommandsArrive == IsPrefix(decoded, sent)

(* Every command that was begun gets to the server, unless the connection is *)
(* lost: it never waits for data that was announced and not sent.            *)
CommandsDelivered ==
  \A n \in 1 .. MaxCmds : Len(sent) = n ~> Len(decoded) >= n \/ ~connUp
=============================================================================
