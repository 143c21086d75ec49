------------------------ MODULE UsbipAccountsProofs ------------------------
(***************************************************************************)
(* The accounts of the USB/IP client balance (UsbipClient): no answer is    *)
(* rejected, the stream stays framed, no entry is left behind.  For every   *)
(* MaxSeq and every number of commands, as long as numbers do not wrap.     *)
(***************************************************************************)
EXTENDS UsbipClientProofs

-----------------------------------------------------------------------------
(* The command being sent has a number of its own, and so has every URB;    *)
(* what the map knows of a direction is true.                               *)

Sending(op) == wrPc \in {"write", "cleanup"} /\ cmd.op = op

Numbers ==
  /\ Sending("submit") \/ Sending("unlink") => cmd.seq < nextSeq
  /\ Sending("unlink") => cmd.target < nextSeq
  /\ Sending("submit") =>
       urbs[cmd.seq] = NoEntry /\ sharedPending[cmd.seq] \in {cmd.dir, NoEntry}
  /\ \A s \in Seqnum : urbs[s] # NoEntry =>
       s < nextSeq /\ sharedPending[s] \in {urbs[s], NoEntry}

(* The rest needs a server that answers only what it was asked.  Data        *)
(* follows the header of an answer that has some, unless the stream ends     *)
(* there, and recv goes for it.                                             *)
Done(s) == s < nextSeq /\ urbs[s] = NoEntry /\ ~(Sending("submit") /\ cmd.seq = s)

DataFollowsHeader ==
  /\ \A i \in Answers("RET_SUBMIT") :
       toClient[i].len = 1 =>
         /\ Done(toClient[i].seq)
         /\ sharedPending[toClient[i].seq] = "In" =>
              /\ i < Len(toClient) => toClient[i + 1] = Payload(toClient[i].seq)
              /\ connUp => i < Len(toClient)
  /\ rdPc = "data" =>
       /\ toClient # <<>> => toClient[1] = Payload(rdMsg.seq)
       /\ connUp => toClient # <<>>

(* An URB is registered while it is sent, held or answered, and is only one  *)
(* of these.                                                                *)
UrbAccounts ==
  /\ Sending("submit") => sharedPending[cmd.seq] # NoEntry
  /\ \A s \in Seqnum : urbs[s] # NoEntry => sharedPending[s] # NoEntry
  /\ \A i \in Answers("RET_SUBMIT") :
       Done(toClient[i].seq) /\ sharedPending[toClient[i].seq] # NoEntry
  /\ \A i, j \in Answers("RET_SUBMIT") : toClient[i].seq = toClient[j].seq => i = j

(* The same of an unlink; one that won has no URB and no answer left to     *)
(* compete with.                                                            *)
Cancelled(s) == Done(s) /\ \A i \in Answers("RET_SUBMIT") : toClient[i].seq # s

UnlinkDone(u) == u < nextSeq /\ ~(Sending("unlink") /\ cmd.seq = u)

UnlinkAccounts ==
  /\ Sending("unlink") => sharedUnlinks[cmd.seq] = cmd.target
  /\ \A r \in unlinkReqs :
       /\ UnlinkDone(r.seq) /\ sharedUnlinks[r.seq] = r.target
       /\ r.target < nextSeq /\ ~(Sending("submit") /\ cmd.seq = r.target)
       /\ \A i \in Answers("RET_UNLINK") : toClient[i].seq # r.seq
  /\ \A i \in Answers("RET_UNLINK") :
       /\ UnlinkDone(toClient[i].seq) /\ sharedUnlinks[toClient[i].seq] # NoEntry
       /\ toClient[i].reset => Cancelled(sharedUnlinks[toClient[i].seq])
  /\ \A i, j \in Answers("RET_UNLINK") : toClient[i].seq = toClient[j].seq => i = j

(* Data is nowhere but behind its header.                                   *)
HeaderBeforeData ==
  /\ Answers("unknown") = {}
  /\ \A i \in Answers("payload") :
       /\ i = 1 => rdPc = "data"
       /\ i > 1 => /\ toClient[i - 1].type = "RET_SUBMIT" /\ toClient[i - 1].len = 1
                   /\ sharedPending[toClient[i - 1].seq] = "In"

(* What is registered is on its way, there or back.                          *)
NothingLeft ==
  connUp =>
    \A s \in Seqnum :
      /\ sharedPending[s] # NoEntry =>
           \/ urbs[s] # NoEntry \/ AnswerInStream(s) \/ CancelInStream(s)
           \/ Sending("submit") /\ cmd.seq = s
      /\ sharedUnlinks[s] # NoEntry =>
           \/ UnlinkInStream(s) \/ \E r \in unlinkReqs : r.seq = s
           \/ Sending("unlink") /\ cmd.seq = s

Balanced ==
  DataFollowsHeader /\ UrbAccounts /\ UnlinkAccounts /\ HeaderBeforeData /\ NothingLeft

Accounts == Numbers /\ (~strayed => Balanced)
-----------------------------------------------------------------------------
(* Streams: taking the first token, adding some, losing the last ones.       *)

LEMMA Positions ==
  TypeOK => /\ Len(toClient) \in Nat /\ DOMAIN toClient = 1 .. Len(toClient)
            /\ \A i \in 1 .. Len(toClient) :
                 toClient[i] \in Token /\ toClient[i].seq \in Seqnum
<1>1. \A x \in Token : x.seq \in Seqnum
  BY DEF Token
<1>2. QED
  BY <1>1 DEF TypeOK

LEMMA Taken ==
  ASSUME TypeOK, toClient # <<>>, toClient' = Tail(toClient)
  PROVE  /\ Len(toClient) > 0 /\ Head(toClient) = toClient[1]
         /\ Len(toClient') = Len(toClient) - 1 /\ DOMAIN toClient' = 1 .. Len(toClient')
         /\ \A i \in 1 .. Len(toClient') : toClient'[i] = toClient[i + 1]
BY DEF TypeOK

-----------------------------------------------------------------------------
(* Steps that touch no number, no entry and no stream.                       *)
LEMMA QuietStep ==
  ASSUME TypeOK, Accounts,
         UNCHANGED clientVars \/ AllocPanic \/ IntoSplit \/ WriteFails \/ RecvCall
           \/ RecvReturn \/ RecvEof
  PROVE  Accounts'
<1> USE DEF writerVars, mapVars, recvVars, serverVars
<1>1. /\ UNCHANGED <<nextSeq, cmd, mapVars, urbs, unlinkReqs, strayed, toClient>>
      /\ Sending("submit")' <=> Sending("submit")
      /\ Sending("unlink")' <=> Sending("unlink")
      /\ connUp' => connUp
  BY DEF clientVars, AllocPanic, IntoSplit, WriteFails, RecvCall, RecvReturn, RecvEof, Sending
<1>2. /\ rdPc' = "data" => rdPc = "data" /\ rdMsg' = rdMsg
      /\ rdPc = "data" => rdPc' = "data" \/ toClient = <<>>
  BY DEF clientVars, AllocPanic, IntoSplit, WriteFails, RecvCall, RecvReturn, RecvEof
<1>3. Numbers' /\ (DataFollowsHeader => DataFollowsHeader')
  BY <1>1, <1>2 DEF Accounts, Numbers, DataFollowsHeader, Done, Answers
<1>4. (UrbAccounts => UrbAccounts') /\ (UnlinkAccounts => UnlinkAccounts')
  BY <1>1 DEF UrbAccounts, UnlinkAccounts, Done, Cancelled, UnlinkDone, Answers
<1>5. HeaderBeforeData => HeaderBeforeData'
  BY <1>1, <1>2, Positions DEF HeaderBeforeData, Answers
<1>6. NothingLeft => NothingLeft'
  BY <1>1 DEF NothingLeft, AnswerInStream, UnlinkInStream, CancelInStream, Answers
<1>7. QED
  BY <1>1, <1>3, <1>4, <1>5, <1>6 DEF Accounts, Balanced

-----------------------------------------------------------------------------
(* A new command: its number is that of nothing else.                        *)
LEMMA NewCommand ==
  ASSUME OverflowChecks, TypeOK, NEW c \in Commands, Alloc
  PROVE  /\ c \in Command /\ c.seq = nextSeq /\ nextSeq' = nextSeq + 1
         /\ nextSeq \in Seqnum /\ nextSeq \in Nat
         /\ c.op \in {"submit", "unlink"}
         /\ c.op = "unlink" => c.target \in Nat /\ c.target < nextSeq
<1>1. c \in Command /\ nextSeq \in Seqnum /\ nextSeq \in Nat
  BY CommandType, ClientAssumption DEF TypeOK, Seqnum
<1>2. /\ c.seq = nextSeq /\ c.op \in {"submit", "unlink"}
      /\ c.op = "unlink" => c.target \in 1 .. nextSeq - 1
  BY DEF Commands, SubmitCmd, UnlinkCmd
<1>3. QED
  BY <1>1, <1>2, ClientAssumption DEF Alloc, AllocPanics, AllocSeqnum, Seqnum

LEMMA SendStep ==
  ASSUME OverflowChecks, TypeOK, Accounts, NEW c \in Commands, Send(c)
  PROVE  Accounts'
<1>1. /\ c \in Command /\ c.seq = nextSeq /\ nextSeq' = nextSeq + 1
      /\ nextSeq \in Seqnum /\ nextSeq \in Nat /\ c.op \in {"submit", "unlink"}
      /\ c.op = "unlink" => c.target \in Nat /\ c.target < nextSeq
  BY NewCommand DEF Send
<1>2. /\ cmd' = c /\ wrPc' = "write" /\ ~Sending("submit") /\ ~Sending("unlink")
      /\ UNCHANGED <<rdPc, rdMsg, connUp, urbs, unlinkReqs, strayed, toClient>>
      /\ Sending("submit")' <=> c.op = "submit"
      /\ Sending("unlink")' <=> c.op = "unlink"
  BY DEF Send, Sending, recvVars
<1>3. /\ \A s \in Seqnum \ {nextSeq} : sharedPending'[s] = sharedPending[s]
      /\ \A s \in Seqnum \ {nextSeq} : sharedUnlinks'[s] = sharedUnlinks[s]
      /\ c.op = "submit" => sharedPending'[nextSeq] = c.dir /\ c.dir \in Direction
      /\ c.op = "submit" => sharedUnlinks' = sharedUnlinks
      /\ c.op = "unlink" => sharedUnlinks'[nextSeq] = c.target
      /\ c.op = "unlink" => sharedPending' = sharedPending
  BY <1>1 DEF Send, Enter, SetEntry, TypeOK, Command
<1>4. /\ \A s \in Seqnum : s \in Nat /\ (s < nextSeq => s # nextSeq /\ s < nextSeq + 1)
      /\ nextSeq < nextSeq + 1
  BY <1>1, ClientAssumption DEF Seqnum
<1>5. Numbers'
  BY <1>1, <1>2, <1>3, <1>4 DEF Accounts, Numbers, TypeOK
<1>6. \A s \in Seqnum : Done(s) => Done(s)' /\ sharedPending'[s] = sharedPending[s]
  BY <1>1, <1>2, <1>3, <1>4 DEF Done
<1>7. \A s \in Seqnum : UnlinkDone(s) => UnlinkDone(s)' /\ sharedUnlinks'[s] = sharedUnlinks[s]
  BY <1>1, <1>2, <1>3, <1>4 DEF UnlinkDone
<1>8. \A i \in DOMAIN toClient : toClient[i].seq \in Seqnum
  BY Positions
<1>9. ASSUME DataFollowsHeader PROVE DataFollowsHeader'
  BY <1>9, <1>2, <1>6, <1>8 DEF DataFollowsHeader, Answers
<1>10. ASSUME UrbAccounts PROVE UrbAccounts'
  <2>1. c.op = "submit" => sharedPending'[c.seq] # NoEntry
    BY <1>1, <1>3, ClientAssumption
  <2>2. \A s \in Seqnum : urbs[s] # NoEntry => sharedPending'[s] # NoEntry
    BY <1>1, <1>3, <1>4, <1>10 DEF Accounts, Numbers, UrbAccounts
  <2>3. QED
    BY <1>2, <1>6, <1>8, <1>10, <2>1, <2>2 DEF UrbAccounts, Answers
<1>11. ASSUME UnlinkAccounts PROVE UnlinkAccounts'
  <2>1. \A s \in Seqnum : Cancelled(s) => Cancelled(s)'
    BY <1>2, <1>6 DEF Cancelled, Answers
  <2>2. \A r \in unlinkReqs : r.seq \in Seqnum /\ r.target \in Seqnum
    BY DEF TypeOK
  <2>3. \A r \in unlinkReqs :
          /\ UnlinkDone(r.seq)' /\ sharedUnlinks'[r.seq] = r.target
          /\ r.target < nextSeq' /\ ~(Sending("submit")' /\ cmd'.seq = r.target)
          /\ \A i \in Answers("RET_UNLINK") : toClient[i].seq # r.seq
    BY <1>1, <1>2, <1>4, <1>7, <1>11, <2>2 DEF UnlinkAccounts
  <2>4. ASSUME NEW i \in Answers("RET_UNLINK"), NEW u, u = toClient[i].seq,
               NEW s, s = sharedUnlinks[u]
        PROVE  /\ UnlinkDone(u)' /\ sharedUnlinks'[u] = s /\ s # NoEntry
               /\ toClient[i].reset => Cancelled(s)'
    <3>1. u \in Seqnum /\ UnlinkDone(u) /\ s # NoEntry /\ (toClient[i].reset => Cancelled(s))
      BY <1>8, <1>11, <2>4 DEF UnlinkAccounts, Answers
    <3>2. s \in Seqnum
      BY <2>4, <3>1 DEF TypeOK
    <3>3. QED
      BY <1>7, <2>1, <2>4, <3>1, <3>2
  <2>5. QED
    BY <1>1, <1>2, <1>3, <1>11, <2>3, <2>4 DEF UnlinkAccounts, Answers
<1>12. ASSUME UrbAccounts, HeaderBeforeData PROVE HeaderBeforeData'
  <2>1. \A i \in Answers("payload") : i > 1 => i - 1 \in Answers("RET_SUBMIT")
    BY <1>12, Positions DEF HeaderBeforeData, Answers
  <2>2. QED
    BY <1>2, <1>6, <1>8, <1>12, <2>1 DEF HeaderBeforeData, UrbAccounts, Answers
<1>13. ASSUME UnlinkAccounts, NothingLeft PROVE NothingLeft'
  <2>1. \A s \in Seqnum : CancelInStream(s) => CancelInStream(s)'
    BY <1>2, <1>7, <1>8, <1>13 DEF CancelInStream, UnlinkAccounts, Answers
  <2>2. QED
    BY <1>1, <1>2, <1>3, <1>13, <2>1
       DEF NothingLeft, AnswerInStream, UnlinkInStream, Answers
<1>14. QED
  BY <1>2, <1>5, <1>9, <1>10, <1>11, <1>12, <1>13 DEF Accounts, Balanced

(* UsbipConnection does it all in one step.                                  *)
LEMMA ConnSendStep ==
  ASSUME OverflowChecks, TypeOK, Accounts, NEW c \in Commands, ConnSend(c)
  PROVE  Accounts'
<1>1. /\ c \in Command /\ c.seq = nextSeq /\ nextSeq' = nextSeq + 1
      /\ nextSeq \in Seqnum /\ nextSeq \in Nat /\ c.op \in {"submit", "unlink"}
      /\ c.op = "unlink" => c.target \in Nat /\ c.target < nextSeq
  BY NewCommand DEF ConnSend
<1>2. /\ ~Sending("submit") /\ ~Sending("unlink") /\ ~Sending("submit")' /\ ~Sending("unlink")'
      /\ UNCHANGED <<rdPc, rdMsg, connUp, strayed, toClient>>
  BY DEF ConnSend, Sending, recvVars
<1>3. /\ \A s \in Seqnum \ {nextSeq} : sharedPending'[s] = sharedPending[s]
      /\ \A s \in Seqnum \ {nextSeq} : sharedUnlinks'[s] = sharedUnlinks[s]
      /\ \A s \in Seqnum \ {nextSeq} : urbs'[s] = urbs[s]
  BY <1>1 DEF ConnSend, SocketTakes, Enter, SetEntry, TypeOK, mapVars
<1>4. /\ c.op = "unlink" \/ ~connUp => urbs' = urbs
      /\ c.op = "submit" /\ connUp =>
           /\ urbs'[nextSeq] = c.dir /\ sharedPending'[nextSeq] = c.dir
           /\ sharedUnlinks' = sharedUnlinks
      /\ c.op = "submit" => c.dir \in Direction
      /\ c.op = "submit" \/ ~connUp => unlinkReqs' = unlinkReqs
      /\ c.op = "unlink" /\ connUp =>
           /\ unlinkReqs' = unlinkReqs \cup {[seq |-> nextSeq, target |-> c.target]}
           /\ sharedUnlinks'[nextSeq] = c.target /\ sharedPending' = sharedPending
  BY <1>1 DEF ConnSend, SocketTakes, Enter, SetEntry, TypeOK, Command
<1>5. /\ \A s \in Seqnum : s \in Nat /\ (s < nextSeq => s # nextSeq /\ s < nextSeq + 1)
      /\ nextSeq < nextSeq + 1
  BY <1>1, ClientAssumption DEF Seqnum
<1>6. \A s \in Seqnum : Done(s) => Done(s)' /\ sharedPending'[s] = sharedPending[s]
  BY <1>1, <1>2, <1>3, <1>5 DEF Done
<1>7. \A s \in Seqnum : UnlinkDone(s) => UnlinkDone(s)' /\ sharedUnlinks'[s] = sharedUnlinks[s]
  BY <1>1, <1>2, <1>3, <1>5 DEF UnlinkDone
<1>8. \A i \in DOMAIN toClient : toClient[i].seq \in Seqnum
  BY Positions
<1>9. Numbers'
  BY <1>1, <1>2, <1>3, <1>4, <1>5 DEF Accounts, Numbers
<1>10. ASSUME DataFollowsHeader PROVE DataFollowsHeader'
  BY <1>10, <1>2, <1>6, <1>8 DEF DataFollowsHeader, Answers
<1>11. ASSUME UrbAccounts PROVE UrbAccounts'
  <2>1. \A s \in Seqnum : urbs'[s] # NoEntry => sharedPending'[s] # NoEntry
    BY <1>1, <1>3, <1>4, <1>5, <1>11, ClientAssumption DEF Accounts, Numbers, UrbAccounts
  <2>2. QED
    BY <1>2, <1>6, <1>8, <1>11, <2>1 DEF UrbAccounts, Answers
<1>12. ASSUME UnlinkAccounts PROVE UnlinkAccounts'
  <2>1. \A s \in Seqnum : Cancelled(s) => Cancelled(s)'
    BY <1>2, <1>6 DEF Cancelled, Answers
  <2>2. \A r \in unlinkReqs : r.seq \in Seqnum /\ r.target \in Seqnum
    BY DEF TypeOK
  <2>3. ASSUME NEW r \in unlinkReqs'
        PROVE  /\ UnlinkDone(r.seq)' /\ sharedUnlinks'[r.seq] = r.target /\ r.target < nextSeq'
               /\ \A i \in Answers("RET_UNLINK") : toClient[i].seq # r.seq
    <3>1. CASE r \in unlinkReqs
      BY <1>1, <1>5, <1>7, <1>12, <2>2, <3>1 DEF UnlinkAccounts
    <3>2. CASE r \notin unlinkReqs
      <4>1. /\ r.seq = nextSeq /\ r.target = c.target /\ c.op = "unlink"
            /\ sharedUnlinks'[nextSeq] = c.target
        BY <1>1, <1>4, <3>2
      <4>2. \A i \in Answers("RET_UNLINK") : toClient[i].seq # nextSeq
        BY <1>5, <1>8, <1>12 DEF UnlinkAccounts, UnlinkDone, Answers
      <4>3. QED
        BY <1>1, <1>2, <1>5, <4>1, <4>2 DEF UnlinkDone
    <3>3. QED
      BY <3>1, <3>2
  <2>4. ASSUME NEW i \in Answers("RET_UNLINK"), NEW u, u = toClient[i].seq,
               NEW s, s = sharedUnlinks[u]
        PROVE  /\ UnlinkDone(u)' /\ sharedUnlinks'[u] = s /\ s # NoEntry
               /\ toClient[i].reset => Cancelled(s)'
    <3>1. u \in Seqnum /\ UnlinkDone(u) /\ s # NoEntry /\ (toClient[i].reset => Cancelled(s))
      BY <1>8, <1>12, <2>4 DEF UnlinkAccounts, Answers
    <3>2. s \in Seqnum
      BY <2>4, <3>1 DEF TypeOK
    <3>3. QED
      BY <1>7, <2>1, <2>4, <3>1, <3>2
  <2>5. QED
    BY <1>2, <1>12, <2>3, <2>4 DEF UnlinkAccounts, Answers
<1>13. ASSUME UrbAccounts, HeaderBeforeData PROVE HeaderBeforeData'
  <2>1. \A i \in Answers("payload") : i > 1 => i - 1 \in Answers("RET_SUBMIT")
    BY <1>13, Positions DEF HeaderBeforeData, Answers
  <2>2. QED
    BY <1>2, <1>6, <1>8, <1>13, <2>1 DEF HeaderBeforeData, UrbAccounts, Answers
<1>14. ASSUME UnlinkAccounts, NothingLeft, connUp PROVE NothingLeft'
  <2>1. \A s \in Seqnum : CancelInStream(s) => CancelInStream(s)'
    BY <1>2, <1>7, <1>8, <1>14 DEF CancelInStream, UnlinkAccounts, Answers
  <2>2. ASSUME NEW s \in Seqnum, sharedPending'[s] # NoEntry
        PROVE  urbs'[s] # NoEntry \/ AnswerInStream(s)' \/ CancelInStream(s)'
    BY <1>1, <1>2, <1>3, <1>4, <1>14, <2>1, <2>2, ClientAssumption
       DEF NothingLeft, AnswerInStream, Answers
  <2>3. ASSUME NEW s \in Seqnum, sharedUnlinks'[s] # NoEntry
        PROVE  UnlinkInStream(s)' \/ \E r \in unlinkReqs' : r.seq = s
    <3>1. CASE s = nextSeq /\ c.op = "unlink"
      <4>1. [seq |-> nextSeq, target |-> c.target] \in unlinkReqs'
        BY <1>4, <1>14, <3>1
      <4>2. QED
        BY <3>1, <4>1
    <3>2. CASE ~(s = nextSeq /\ c.op = "unlink")
      <4>1. sharedUnlinks[s] # NoEntry /\ unlinkReqs \subseteq unlinkReqs'
        BY <1>1, <1>3, <1>4, <1>14, <2>3, <3>2
      <4>2. QED
        BY <1>2, <1>14, <4>1 DEF NothingLeft, UnlinkInStream, Answers
    <3>3. QED
      BY <3>1, <3>2
  <2>4. QED
    BY <2>2, <2>3 DEF NothingLeft
<1>15. QED
  BY <1>2, <1>9, <1>10, <1>11, <1>12, <1>13, <1>14 DEF Accounts, Balanced, NothingLeft

(* The socket takes the command: from now on the server has it.              *)
LEMMA WriteStep ==
  ASSUME TypeOK, Accounts, WriteCmd
  PROVE  Accounts'
<1>1. /\ UNCHANGED <<nextSeq, cmd, mapVars, rdPc, rdMsg, connUp, strayed, toClient>>
      /\ cmd \in Command /\ cmd.seq \in Seqnum /\ cmd.op \in {"submit", "unlink"}
      /\ Sending("submit") <=> cmd.op = "submit"
      /\ Sending("unlink") <=> cmd.op = "unlink"
      /\ ~Sending("submit")' /\ ~Sending("unlink")'
  BY DEF WriteCmd, Sending, recvVars, TypeOK, Command
<1>2. /\ \A s \in Seqnum : s # cmd.seq => urbs'[s] = urbs[s]
      /\ cmd.op = "unlink" \/ ~connUp => urbs' = urbs
      /\ cmd.op = "submit" /\ connUp => urbs'[cmd.seq] = cmd.dir
      /\ cmd.op = "submit" \/ ~connUp => unlinkReqs' = unlinkReqs
      /\ cmd.op = "unlink" /\ connUp =>
           unlinkReqs' = unlinkReqs \cup {[seq |-> cmd.seq, target |-> cmd.target]}
  BY <1>1 DEF WriteCmd, SocketTakes, TypeOK
<1>3. \A s \in Seqnum : Done(s) => Done(s)'
  BY <1>1, <1>2 DEF Done
<1>4. \A u : UnlinkDone(u) => UnlinkDone(u)'
  BY <1>1 DEF UnlinkDone
<1>5. \A i \in DOMAIN toClient : toClient[i].seq \in Seqnum
  BY Positions
<1>6. Numbers'
  BY <1>1, <1>2 DEF Accounts, Numbers, mapVars
<1>7. ASSUME DataFollowsHeader PROVE DataFollowsHeader'
  BY <1>7, <1>1, <1>3, <1>5 DEF DataFollowsHeader, Answers, mapVars
<1>8. ASSUME UrbAccounts PROVE UrbAccounts'
  <2>1. \A s \in Seqnum : urbs'[s] # NoEntry => sharedPending[s] # NoEntry
    BY <1>1, <1>2, <1>8 DEF UrbAccounts
  <2>2. QED
    BY <1>1, <1>3, <1>5, <1>8, <2>1 DEF UrbAccounts, Answers, mapVars
<1>9. ASSUME UnlinkAccounts PROVE UnlinkAccounts'
  <2>1. \A s \in Seqnum : Cancelled(s) => Cancelled(s)'
    BY <1>1, <1>3 DEF Cancelled, Answers
  <2>2. ASSUME NEW r \in unlinkReqs'
        PROVE  /\ UnlinkDone(r.seq)' /\ sharedUnlinks[r.seq] = r.target /\ r.target < nextSeq
               /\ \A i \in Answers("RET_UNLINK") : toClient[i].seq # r.seq
    <3>1. CASE r \in unlinkReqs
      BY <1>4, <1>9, <3>1 DEF UnlinkAccounts
    <3>2. CASE r \notin unlinkReqs
      <4>1. r.seq = cmd.seq /\ r.target = cmd.target /\ cmd.op = "unlink"
        BY <1>1, <1>2, <3>2
      <4>2. QED
        BY <1>1, <1>9, <4>1 DEF Accounts, Numbers, UnlinkAccounts, UnlinkDone
    <3>3. QED
      BY <3>1, <3>2
  <2>3. \A i \in Answers("RET_UNLINK") :
          toClient[i].reset => sharedUnlinks[toClient[i].seq] \in Seqnum
    BY <1>5, <1>9 DEF UnlinkAccounts, Answers, TypeOK
  <2>4. QED
    BY <1>1, <1>4, <1>9, <2>1, <2>2, <2>3 DEF UnlinkAccounts, Answers, mapVars
<1>10. HeaderBeforeData => HeaderBeforeData'
  BY <1>1 DEF HeaderBeforeData, Answers, mapVars
<1>11. ASSUME NothingLeft, connUp PROVE NothingLeft'
  <2>1. ASSUME NEW s \in Seqnum, sharedPending[s] # NoEntry
        PROVE  urbs'[s] # NoEntry \/ AnswerInStream(s) \/ CancelInStream(s)
    <3>1. cmd.op = "submit" => cmd.dir # NoEntry
      BY <1>1, ClientAssumption DEF Command
    <3>2. QED
      BY <1>1, <1>2, <1>11, <2>1, <3>1 DEF NothingLeft
  <2>2. ASSUME NEW s \in Seqnum, sharedUnlinks[s] # NoEntry
        PROVE  UnlinkInStream(s) \/ \E r \in unlinkReqs' : r.seq = s
    <3>1. unlinkReqs \subseteq unlinkReqs'
      BY <1>1, <1>2, <1>11
    <3>2. Sending("unlink") => \E r \in unlinkReqs' : r.seq = cmd.seq
      <4>1. [seq |-> cmd.seq, target |-> cmd.target].seq = cmd.seq
        OBVIOUS
      <4>2. QED
        BY <1>1, <1>2, <1>11, <4>1
    <3>3. QED
      BY <1>11, <2>2, <3>1, <3>2 DEF NothingLeft
  <2>3. QED
    BY <1>1, <2>1, <2>2
       DEF NothingLeft, AnswerInStream, UnlinkInStream, CancelInStream, Answers, mapVars
<1>12. QED
  BY <1>1, <1>6, <1>7, <1>8, <1>9, <1>10, <1>11 DEF Accounts, Balanced, NothingLeft

(* A write that failed takes its own entry back and no other.                *)
LEMMA CleanupStep ==
  ASSUME TypeOK, Accounts, Cleanup
  PROVE  Accounts'
<1>1. /\ UNCHANGED <<nextSeq, cmd, rdPc, rdMsg, connUp, urbs, unlinkReqs, strayed, toClient>>
      /\ cmd.seq \in Seqnum /\ cmd.op \in {"submit", "unlink"}
      /\ Sending("submit") <=> cmd.op = "submit"
      /\ Sending("unlink") <=> cmd.op = "unlink"
      /\ ~Sending("submit")' /\ ~Sending("unlink")'
  BY DEF Cleanup, Sending, recvVars, serverVars, TypeOK, Command
<1>2. /\ \A s \in Seqnum : sharedPending'[s] = IF s = cmd.seq /\ cmd.op = "submit"
                                               THEN NoEntry ELSE sharedPending[s]
      /\ \A s \in Seqnum : sharedUnlinks'[s] = IF s = cmd.seq /\ cmd.op = "unlink"
                                               THEN NoEntry ELSE sharedUnlinks[s]
  BY <1>1 DEF Cleanup, SetEntry, TypeOK
<1>3. \A s \in Seqnum : Done(s) => Done(s)' /\ sharedPending'[s] = sharedPending[s]
  BY <1>1, <1>2 DEF Done
<1>4. \A u \in Seqnum : UnlinkDone(u) => UnlinkDone(u)' /\ sharedUnlinks'[u] = sharedUnlinks[u]
  BY <1>1, <1>2 DEF UnlinkDone
<1>5. \A i \in DOMAIN toClient : toClient[i].seq \in Seqnum
  BY Positions
<1>6. Numbers'
  BY <1>1, <1>2 DEF Accounts, Numbers
<1>7. ASSUME DataFollowsHeader PROVE DataFollowsHeader'
  BY <1>7, <1>1, <1>3, <1>5 DEF DataFollowsHeader, Answers
<1>8. ASSUME UrbAccounts PROVE UrbAccounts'
  <2>1. \A s \in Seqnum : urbs[s] # NoEntry => sharedPending'[s] # NoEntry
    BY <1>1, <1>2, <1>8 DEF Accounts, Numbers, UrbAccounts
  <2>2. QED
    BY <1>1, <1>3, <1>5, <1>8, <2>1 DEF UrbAccounts, Answers
<1>9. ASSUME UnlinkAccounts PROVE UnlinkAccounts'
  <2>1. \A s \in Seqnum : Cancelled(s) => Cancelled(s)'
    BY <1>1, <1>3 DEF Cancelled, Answers
  <2>2. \A r \in unlinkReqs : r.seq \in Seqnum
    BY DEF TypeOK
  <2>3. ASSUME NEW i \in Answers("RET_UNLINK"), NEW u, u = toClient[i].seq,
               NEW s, s = sharedUnlinks[u]
        PROVE  /\ UnlinkDone(u)' /\ sharedUnlinks'[u] = s /\ s # NoEntry
               /\ toClient[i].reset => Cancelled(s)'
    <3>1. u \in Seqnum /\ UnlinkDone(u) /\ s # NoEntry /\ (toClient[i].reset => Cancelled(s))
      BY <1>5, <1>9, <2>3 DEF UnlinkAccounts, Answers
    <3>2. s \in Seqnum
      BY <2>3, <3>1 DEF TypeOK
    <3>3. QED
      BY <1>4, <2>1, <2>3, <3>1, <3>2
  <2>4. QED
    BY <1>1, <1>4, <1>9, <2>2, <2>3 DEF UnlinkAccounts, Answers
<1>10. ASSUME UrbAccounts, HeaderBeforeData PROVE HeaderBeforeData'
  <2>1. \A i \in Answers("payload") : i > 1 => i - 1 \in Answers("RET_SUBMIT")
    BY <1>10, Positions DEF HeaderBeforeData, Answers
  <2>2. QED
    BY <1>1, <1>3, <1>5, <1>10, <2>1 DEF HeaderBeforeData, UrbAccounts, Answers
<1>11. ASSUME UnlinkAccounts, NothingLeft PROVE NothingLeft'
  <2>1. \A s \in Seqnum : CancelInStream(s) => CancelInStream(s)'
    BY <1>1, <1>4, <1>5, <1>11 DEF CancelInStream, UnlinkAccounts, Answers
  <2>2. QED
    BY <1>1, <1>2, <1>11, <2>1 DEF NothingLeft, AnswerInStream, UnlinkInStream, Answers
<1>12. QED
  BY <1>1, <1>6, <1>7, <1>8, <1>9, <1>10, <1>11 DEF Accounts, Balanced

-----------------------------------------------------------------------------
(* recv takes the first token: the others move up by one.                    *)
LEMMA TakenAnswers ==
  ASSUME TypeOK, toClient # <<>>, toClient' = Tail(toClient), NEW type
  PROVE  /\ \A i \in Answers(type)' :
              i \in Nat /\ i + 1 \in Answers(type) /\ toClient'[i] = toClient[i + 1]
         /\ \A j \in Answers(type) : j # 1 =>
              j - 1 \in Answers(type)' /\ toClient'[j - 1] = toClient[j]
<1>1. /\ Len(toClient) \in Nat /\ DOMAIN toClient = 1 .. Len(toClient)
      /\ Len(toClient') = Len(toClient) - 1 /\ DOMAIN toClient' = 1 .. Len(toClient')
      /\ \A i \in 1 .. Len(toClient') : toClient'[i] = toClient[i + 1]
  BY Positions, Taken
<1>2. ASSUME NEW i \in Answers(type)'
      PROVE  i \in Nat /\ i + 1 \in Answers(type) /\ toClient'[i] = toClient[i + 1]
  BY <1>1, <1>2 DEF Answers
<1>3. ASSUME NEW j \in Answers(type), j # 1
      PROVE  j - 1 \in Answers(type)' /\ toClient'[j - 1] = toClient[j]
  <2>1. j \in 1 .. Len(toClient) /\ toClient[j].type = type
    BY <1>1 DEF Answers
  <2>2. j - 1 \in 1 .. Len(toClient') /\ toClient'[j - 1] = toClient[(j - 1) + 1]
    BY <1>1, <1>3, <2>1
  <2>3. (j - 1) + 1 = j
    BY <2>1
  <2>4. QED
    BY <1>1, <2>1, <2>2, <2>3 DEF Answers
<1>4. QED
  BY <1>2, <1>3

(* What is taken for data is the first token or a part of it: what is left    *)
(* holds no answer that was not there before.                                *)
LEMMA DataTaken ==
  ASSUME TypeOK, RecvData, NEW i \in Answers("RET_SUBMIT")'
  PROVE  \E j \in Answers("RET_SUBMIT") : toClient[j] = toClient'[i]
<1>1. toClient # <<>> /\ toClient \in Seq(Token)
  BY DEF RecvData, TypeOK
<1>2. CASE toClient' = Tail(toClient)
  BY <1>1, <1>2, TakenAnswers
<1>3. CASE toClient' = <<Unknown>> \o Tail(toClient)
  <2>1. /\ Tail(toClient) \in Seq(Token) /\ Len(toClient) \in Nat /\ Len(toClient) > 0
        /\ Len(Tail(toClient)) = Len(toClient) - 1 /\ DOMAIN toClient = 1 .. Len(toClient)
        /\ \A k \in 1 .. Len(Tail(toClient)) : Tail(toClient)[k] = toClient[k + 1]
    BY <1>1, HeadTailProperties, LenProperties, EmptySeq
  <2>2. /\ <<Unknown>> \in Seq(Token) /\ Len(<<Unknown>>) = 1 /\ <<Unknown>>[1] = Unknown
        /\ Unknown.type = "unknown"
    <3>1. Unknown \in Token /\ Unknown.type = "unknown"
      BY ClientAssumption DEF Unknown, Token, Seqnum
    <3>2. QED
      BY <3>1
  <2>3. /\ toClient' \in Seq(Token) /\ Len(toClient') = Len(toClient)
        /\ toClient'[1] = Unknown
        /\ \A k \in 2 .. Len(toClient) : toClient'[k] = Tail(toClient)[k - 1]
    BY <1>3, <2>1, <2>2, ConcatProperties
  <2>4. i \in 1 .. Len(toClient) /\ toClient'[i].type = "RET_SUBMIT"
    BY <2>3, LenProperties DEF Answers
  <2>5. i \in 2 .. Len(toClient) /\ i - 1 \in 1 .. Len(Tail(toClient)) /\ (i - 1) + 1 = i
    BY <2>1, <2>2, <2>3, <2>4
  <2>6. toClient'[i] = toClient[i]
    BY <2>1, <2>3, <2>5
  <2>7. QED
    BY <2>1, <2>4, <2>6 DEF Answers
<1>4. QED
  BY <1>2, <1>3 DEF RecvData

LEMMA RetSubmitStep ==
  ASSUME TypeOK, Accounts, RecvRetSubmit
  PROVE  Accounts'
<1> DEFINE q == toClient[1].seq
<1>1. /\ toClient # <<>> /\ toClient' = Tail(toClient) /\ rdPc = "read"
      /\ rdMsg' = toClient[1] /\ 1 \in Answers("RET_SUBMIT") /\ q \in Seqnum
      /\ UNCHANGED <<nextSeq, wrPc, cmd, sharedUnlinks, connUp, urbs, unlinkReqs, strayed>>
      /\ Sending("submit")' <=> Sending("submit")
      /\ Sending("unlink")' <=> Sending("unlink")
  BY Taken, Positions
     DEF RecvRetSubmit, ReadHeader, writerVars, serverVars, Sending, Answers
<1>2. /\ sharedPending'[q] = NoEntry
      /\ \A s \in Seqnum : s # q => sharedPending'[s] = sharedPending[s]
      /\ rdPc' = "data" <=> sharedPending[q] = "In" /\ toClient[1].len > 0
  <2>1. sharedPending' = [sharedPending EXCEPT ![q] = NoEntry]
    BY <1>1 DEF RecvRetSubmit
  <2>2. rdPc' = "data" <=> sharedPending[q] = "In" /\ toClient[1].len > 0
    BY <1>1, ClientAssumption DEF RecvRetSubmit, DataFollows, Direction
  <2>3. QED
    BY <1>1, <2>1, <2>2 DEF TypeOK
<1> HIDE DEF q
<1>3. \A s : Done(s)' <=> Done(s)
  BY <1>1 DEF Done
<1>4. \A u : UnlinkDone(u)' <=> UnlinkDone(u)
  BY <1>1 DEF UnlinkDone
<1>5. /\ \A i \in Answers("RET_SUBMIT")' :
           i \in Nat /\ i + 1 \in Answers("RET_SUBMIT") /\ toClient'[i] = toClient[i + 1]
      /\ \A j \in Answers("RET_SUBMIT") : j # 1 =>
           j - 1 \in Answers("RET_SUBMIT")' /\ toClient'[j - 1] = toClient[j]
  BY <1>1, TakenAnswers
<1>6. /\ \A i \in Answers("RET_UNLINK")' :
           i \in Nat /\ i + 1 \in Answers("RET_UNLINK") /\ toClient'[i] = toClient[i + 1]
      /\ \A j \in Answers("RET_UNLINK") :
           j - 1 \in Answers("RET_UNLINK")' /\ toClient'[j - 1] = toClient[j]
  <2>1. 1 \notin Answers("RET_UNLINK")
    BY <1>1 DEF Answers
  <2>2. QED
    BY <1>1, <2>1, TakenAnswers
<1>7. /\ Len(toClient) \in Nat /\ Len(toClient) > 0 /\ Len(toClient') = Len(toClient) - 1
      /\ DOMAIN toClient = 1 .. Len(toClient) /\ DOMAIN toClient' = 1 .. Len(toClient')
      /\ \A i \in 1 .. Len(toClient') : toClient'[i] = toClient[i + 1]
      /\ toClient' # <<>> <=> Len(toClient') # 0
      /\ \A i \in 1 .. Len(toClient) : toClient[i].seq \in Seqnum
      /\ toClient[1].len > 0 => toClient[1].len = 1
  <2>1. /\ Len(toClient) \in Nat /\ DOMAIN toClient = 1 .. Len(toClient)
        /\ \A i \in 1 .. Len(toClient) : toClient[i] \in Token /\ toClient[i].seq \in Seqnum
    BY Positions
  <2>2. /\ Len(toClient) > 0 /\ Len(toClient') = Len(toClient) - 1
        /\ DOMAIN toClient' = 1 .. Len(toClient')
        /\ \A i \in 1 .. Len(toClient') : toClient'[i] = toClient[i + 1]
    BY <1>1, Taken
  <2>3. toClient' # <<>> <=> Len(toClient') # 0
    <3>1. toClient' \in Seq(Token)
      BY <1>1, HeadTailProperties DEF TypeOK
    <3>2. QED
      BY <3>1, EmptySeq
  <2>4. \A x \in Token : x.len > 0 => x.len = 1
    BY DEF Token
  <2>5. QED
    BY <2>1, <2>2, <2>3, <2>4
<1>8. Numbers'
  <2>1. cmd.seq \in Seqnum
    BY DEF TypeOK, Command
  <2>2. \A s \in Seqnum : sharedPending'[s] \in {sharedPending[s], NoEntry}
    BY <1>2
  <2>3. QED
    BY <1>1, <2>1, <2>2 DEF Accounts, Numbers
<1>9. ASSUME DataFollowsHeader PROVE DataFollowsHeader'
  <2>1. ASSUME NEW i \in Answers("RET_SUBMIT")', toClient'[i].len = 1,
               NEW s, s = toClient'[i].seq
        PROVE  /\ Done(s)'
               /\ sharedPending'[s] = "In" =>
                    /\ i < Len(toClient') => toClient'[i + 1] = Payload(s)
                    /\ connUp' => i < Len(toClient')
    <3>1. /\ i + 1 \in Answers("RET_SUBMIT") /\ toClient[i + 1].len = 1 /\ s = toClient[i + 1].seq
          /\ i \in 1 .. Len(toClient') /\ s \in Seqnum
      BY <1>5, <1>7, <2>1 DEF Answers
    <3>2. sharedPending'[s] = "In" => sharedPending[s] = "In"
      BY <1>2, <3>1, ClientAssumption DEF Direction
    <3>3. /\ Done(s)
          /\ sharedPending[s] = "In" =>
               /\ i + 1 < Len(toClient) => toClient[(i + 1) + 1] = Payload(s)
               /\ connUp => i + 1 < Len(toClient)
      BY <1>9, <3>1 DEF DataFollowsHeader
    <3>4. i < Len(toClient') => toClient'[i + 1] = toClient[(i + 1) + 1]
      BY <1>7, <3>1
    <3>5. QED
      BY <1>1, <1>3, <1>7, <3>1, <3>2, <3>3, <3>4
  <2>2. rdPc' = "data" =>
          /\ toClient' # <<>> => toClient'[1] = Payload(q)
          /\ connUp' => toClient' # <<>>
    <3>1. rdPc' = "data" =>
            /\ 1 < Len(toClient) => toClient[1 + 1] = Payload(q)
            /\ connUp => 1 < Len(toClient)
      BY <1>9, <1>1, <1>2, <1>7 DEF DataFollowsHeader, q
    <3>2. QED
      BY <1>1, <1>7, <3>1
  <2>3. QED
    BY <1>1, <2>1, <2>2 DEF DataFollowsHeader, q
<1>10. ASSUME UrbAccounts PROVE UrbAccounts'
  <2>1. Done(q)
    BY <1>1, <1>10 DEF UrbAccounts, q
  <2>2. \A i \in Answers("RET_SUBMIT")' : toClient'[i].seq # q /\ toClient'[i].seq \in Seqnum
    BY <1>1, <1>5, <1>7, <1>10 DEF UrbAccounts, Answers, q
  <2>3. ASSUME NEW i \in Answers("RET_SUBMIT")', NEW s, s = toClient'[i].seq
        PROVE  Done(s)' /\ sharedPending'[s] # NoEntry
    <3>1. Done(s) /\ sharedPending[s] # NoEntry
      BY <1>5, <1>10, <2>3 DEF UrbAccounts
    <3>2. QED
      BY <1>2, <1>3, <2>2, <2>3, <3>1
  <2>4. \A i, j \in Answers("RET_SUBMIT")' : toClient'[i].seq = toClient'[j].seq => i = j
    BY <1>5, <1>10 DEF UrbAccounts
  <2>5. /\ Sending("submit")' => sharedPending'[cmd'.seq] # NoEntry
        /\ \A s \in Seqnum : urbs'[s] # NoEntry => sharedPending'[s] # NoEntry
    BY <1>1, <1>2, <1>10, <2>1 DEF UrbAccounts, Done, TypeOK, Command
  <2>6. QED
    BY <2>3, <2>4, <2>5 DEF UrbAccounts
<1>11. ASSUME UnlinkAccounts PROVE UnlinkAccounts'
  <2>1. \A s : Cancelled(s) => Cancelled(s)'
    BY <1>3, <1>5 DEF Cancelled
  <2>2. ASSUME NEW i \in Answers("RET_UNLINK")', NEW u, u = toClient'[i].seq,
               NEW s, s = sharedUnlinks[u]
        PROVE  /\ UnlinkDone(u) /\ s # NoEntry /\ (toClient'[i].reset => Cancelled(s))
    BY <1>6, <1>11, <2>2 DEF UnlinkAccounts
  <2>3. \A i \in Answers("RET_UNLINK")' : \A r \in unlinkReqs : toClient'[i].seq # r.seq
    BY <1>6, <1>11 DEF UnlinkAccounts
  <2>4. \A i, j \in Answers("RET_UNLINK")' : toClient'[i].seq = toClient'[j].seq => i = j
    BY <1>6, <1>11 DEF UnlinkAccounts
  <2>5. \A r \in unlinkReqs : UnlinkDone(r.seq)'
    BY <1>4, <1>11 DEF UnlinkAccounts
  <2>6. ASSUME NEW i \in Answers("RET_UNLINK")', NEW u, u = toClient'[i].seq
        PROVE  /\ UnlinkDone(u)' /\ sharedUnlinks'[u] # NoEntry
               /\ toClient'[i].reset => Cancelled(sharedUnlinks[u])'
    BY <1>1, <1>4, <2>1, <2>2, <2>6
  <2>7. QED
    BY <1>1, <1>11, <2>3, <2>4, <2>5, <2>6 DEF UnlinkAccounts
<1>12. ASSUME UrbAccounts, HeaderBeforeData PROVE HeaderBeforeData'
  <2>1. Answers("unknown")' = {}
    BY <1>1, <1>12, TakenAnswers DEF HeaderBeforeData
  <2>2. ASSUME NEW i \in Answers("payload")'
        PROVE  /\ i = 1 => rdPc' = "data"
               /\ i > 1 => /\ toClient'[i - 1].type = "RET_SUBMIT" /\ toClient'[i - 1].len = 1
                           /\ sharedPending'[toClient'[i - 1].seq] = "In"
    <3>1. i \in 1 .. Len(toClient') /\ i + 1 \in Answers("payload")
      BY <1>1, <1>7, TakenAnswers DEF Answers
    <3>2. /\ toClient[i].type = "RET_SUBMIT" /\ toClient[i].len = 1
          /\ sharedPending[toClient[i].seq] = "In"
      BY <1>12, <3>1 DEF HeaderBeforeData
    <3>3. i > 1 => toClient'[i - 1] = toClient[i]
      BY <1>7, <3>1
    <3>4. i > 1 => toClient[i].seq # q
      BY <1>1, <1>7, <1>12, <3>1, <3>2 DEF UrbAccounts, Answers, q
    <3>5. QED
      BY <1>2, <1>7, <3>1, <3>2, <3>3, <3>4 DEF q
  <2>3. QED
    BY <2>1, <2>2 DEF HeaderBeforeData
<1>13. ASSUME NothingLeft PROVE NothingLeft'
  <2>1. \A s : s # q /\ AnswerInStream(s) => AnswerInStream(s)'
    BY <1>5 DEF AnswerInStream, q
  <2>2. \A s : UnlinkInStream(s) => UnlinkInStream(s)'
    BY <1>6 DEF UnlinkInStream
  <2>3. \A s : CancelInStream(s) => CancelInStream(s)'
    <3>1. sharedUnlinks' = sharedUnlinks
      BY <1>1
    <3>2. QED
      BY <1>6, <3>1 DEF CancelInStream
  <2>4. QED
    BY <1>1, <1>2, <1>13, <2>1, <2>2, <2>3 DEF NothingLeft
<1>14. QED
  BY <1>1, <1>8, <1>9, <1>10, <1>11, <1>12, <1>13 DEF Accounts, Balanced

(* RET_UNLINK retires its target only when the unlink has won, and then no   *)
(* answer to the target can come any more.                                   *)
LEMMA RetUnlinkStep ==
  ASSUME TypeOK, Accounts, RecvRetUnlink
  PROVE  Accounts'
<1> DEFINE q == toClient[1].seq
           t == sharedUnlinks[q]
           won == toClient[1].reset /\ t # NoEntry
<1>1. /\ toClient # <<>> /\ toClient' = Tail(toClient) /\ rdPc = "read" /\ rdPc' = "ok"
      /\ 1 \in Answers("RET_UNLINK") /\ q \in Seqnum /\ cmd.seq \in Seqnum
      /\ UNCHANGED <<nextSeq, wrPc, cmd, connUp, urbs, unlinkReqs, strayed>>
      /\ Sending("submit")' <=> Sending("submit")
      /\ Sending("unlink")' <=> Sending("unlink")
  <2>1. cmd.seq \in Seqnum
    BY DEF TypeOK, Command
  <2>2. QED
    BY <2>1, Taken, Positions
       DEF RecvRetUnlink, ReadHeader, writerVars, serverVars, Sending, Answers
<1>2. /\ t \in Seqnum \cup {NoEntry}
      /\ sharedUnlinks'[q] = NoEntry
      /\ \A u \in Seqnum : u # q => sharedUnlinks'[u] = sharedUnlinks[u]
      /\ \A s \in Seqnum : sharedPending'[s] = IF won /\ s = t THEN NoEntry ELSE sharedPending[s]
  <2>1. rdMsg' = toClient[1]
    BY <1>1, Taken DEF RecvRetUnlink, ReadHeader
  <2>2. /\ sharedUnlinks' = [sharedUnlinks EXCEPT ![q] = NoEntry]
        /\ sharedPending' = IF won THEN [sharedPending EXCEPT ![t] = NoEntry] ELSE sharedPending
    BY <2>1 DEF RecvRetUnlink, RetiresTarget
  <2>3. QED
    BY <1>1, <2>2 DEF TypeOK
<1> HIDE DEF q, t, won
<1>3. \A s : Done(s)' <=> Done(s)
  BY <1>1 DEF Done
<1>4. \A u : UnlinkDone(u)' <=> UnlinkDone(u)
  BY <1>1 DEF UnlinkDone
<1>5. /\ \A i \in Answers("RET_SUBMIT")' :
           i \in Nat /\ i + 1 \in Answers("RET_SUBMIT") /\ toClient'[i] = toClient[i + 1]
      /\ \A j \in Answers("RET_SUBMIT") :
           j - 1 \in Answers("RET_SUBMIT")' /\ toClient'[j - 1] = toClient[j]
  <2>1. 1 \notin Answers("RET_SUBMIT")
    BY <1>1 DEF Answers
  <2>2. QED
    BY <1>1, <2>1, TakenAnswers
<1>6. /\ \A i \in Answers("RET_UNLINK")' :
           i \in Nat /\ i + 1 \in Answers("RET_UNLINK") /\ toClient'[i] = toClient[i + 1]
      /\ \A j \in Answers("RET_UNLINK") : j # 1 =>
           j - 1 \in Answers("RET_UNLINK")' /\ toClient'[j - 1] = toClient[j]
  BY <1>1, TakenAnswers
<1>7. /\ Len(toClient) \in Nat /\ Len(toClient') = Len(toClient) - 1
      /\ DOMAIN toClient = 1 .. Len(toClient) /\ DOMAIN toClient' = 1 .. Len(toClient')
      /\ \A i \in 1 .. Len(toClient') : toClient'[i] = toClient[i + 1]
      /\ \A i \in 1 .. Len(toClient) : toClient[i].seq \in Seqnum
  BY <1>1, Positions, Taken
<1>8. Numbers'
  <2>1. \A s \in Seqnum : sharedPending'[s] \in {sharedPending[s], NoEntry}
    BY <1>2
  <2>2. QED
    BY <1>1, <2>1 DEF Accounts, Numbers
<1>9. ASSUME DataFollowsHeader PROVE DataFollowsHeader'
  <2>1. ASSUME NEW i \in Answers("RET_SUBMIT")', toClient'[i].len = 1,
               NEW s, s = toClient'[i].seq
        PROVE  /\ Done(s)'
               /\ sharedPending'[s] = "In" =>
                    /\ i < Len(toClient') => toClient'[i + 1] = Payload(s)
                    /\ connUp' => i < Len(toClient')
    <3>1. /\ i + 1 \in Answers("RET_SUBMIT") /\ toClient[i + 1].len = 1 /\ s = toClient[i + 1].seq
          /\ i \in 1 .. Len(toClient') /\ s \in Seqnum
      BY <1>5, <1>7, <2>1 DEF Answers
    <3>2. sharedPending'[s] = "In" => sharedPending[s] = "In"
      BY <1>2, <3>1, ClientAssumption DEF Direction
    <3>3. /\ Done(s)
          /\ sharedPending[s] = "In" =>
               /\ i + 1 < Len(toClient) => toClient[(i + 1) + 1] = Payload(s)
               /\ connUp => i + 1 < Len(toClient)
      BY <1>9, <3>1 DEF DataFollowsHeader
    <3>4. i < Len(toClient') => toClient'[i + 1] = toClient[(i + 1) + 1]
      BY <1>7, <3>1
    <3>5. QED
      BY <1>1, <1>3, <1>7, <3>1, <3>2, <3>3, <3>4
  <2>2. QED
    BY <1>1, <2>1 DEF DataFollowsHeader
<1>10. ASSUME UrbAccounts, UnlinkAccounts
       PROVE  /\ won => Cancelled(t)
              /\ \A i \in Answers("RET_SUBMIT") :
                   sharedPending'[toClient[i].seq] = sharedPending[toClient[i].seq]
  <2>1. won => Cancelled(t)
    BY <1>1, <1>10 DEF UnlinkAccounts, q, t, won
  <2>2. QED
    BY <1>2, <1>7, <2>1 DEF Cancelled, Answers
<1>11. ASSUME UrbAccounts, UnlinkAccounts PROVE UrbAccounts'
  <2>1. ASSUME NEW i \in Answers("RET_SUBMIT")', NEW s, s = toClient'[i].seq
        PROVE  Done(s)' /\ sharedPending'[s] # NoEntry
    <3>1. Done(s) /\ sharedPending[s] # NoEntry /\ sharedPending'[s] = sharedPending[s]
      BY <1>5, <1>10, <1>11, <2>1 DEF UrbAccounts
    <3>2. QED
      BY <1>3, <3>1
  <2>2. \A i, j \in Answers("RET_SUBMIT")' : toClient'[i].seq = toClient'[j].seq => i = j
    BY <1>5, <1>11 DEF UrbAccounts
  <2>3. /\ Sending("submit") => sharedPending'[cmd.seq] # NoEntry
        /\ \A s \in Seqnum : urbs[s] # NoEntry => sharedPending'[s] # NoEntry
    BY <1>1, <1>2, <1>10, <1>11 DEF UrbAccounts, Cancelled, Done
  <2>4. QED
    BY <1>1, <2>1, <2>2, <2>3 DEF UrbAccounts
<1>12. ASSUME UnlinkAccounts PROVE UnlinkAccounts'
  <2>1. \A s : Cancelled(s) => Cancelled(s)'
    BY <1>3, <1>5 DEF Cancelled
  <2>2. UnlinkDone(q)
    BY <1>1, <1>12 DEF UnlinkAccounts, q
  <2>3. ASSUME NEW i \in Answers("RET_UNLINK")', NEW u, u = toClient'[i].seq
        PROVE  u # q /\ u \in Seqnum /\ UnlinkDone(u) /\ sharedUnlinks'[u] = sharedUnlinks[u]
               /\ sharedUnlinks[u] # NoEntry
    <3>1. i \in Nat /\ i + 1 \in Answers("RET_UNLINK") /\ u = toClient[i + 1].seq /\ i + 1 # 1
      BY <1>6, <1>7, <2>3 DEF Answers
    <3>2. u # q /\ u \in Seqnum
      BY <1>1, <1>7, <1>12, <3>1 DEF UnlinkAccounts, Answers, q
    <3>3. QED
      BY <1>2, <1>12, <3>1, <3>2 DEF UnlinkAccounts
  <2>4. ASSUME NEW i \in Answers("RET_UNLINK")', NEW u, u = toClient'[i].seq,
               NEW s, s = sharedUnlinks[u], toClient'[i].reset
        PROVE  Cancelled(s)
    BY <1>6, <1>12, <2>4 DEF UnlinkAccounts
  <2>5. ASSUME NEW i \in Answers("RET_UNLINK")', NEW u, u = toClient'[i].seq,
               NEW s, s = sharedUnlinks'[u]
        PROVE  /\ UnlinkDone(u)' /\ s # NoEntry
               /\ toClient'[i].reset => Cancelled(s)'
    BY <1>4, <2>1, <2>3, <2>4, <2>5
  <2>6. \A i, j \in Answers("RET_UNLINK")' : toClient'[i].seq = toClient'[j].seq => i = j
    BY <1>6, <1>12 DEF UnlinkAccounts
  <2>7. \A i \in Answers("RET_UNLINK")' : \A r \in unlinkReqs : toClient'[i].seq # r.seq
    BY <1>6, <1>12 DEF UnlinkAccounts
  <2>8. \A r \in unlinkReqs : UnlinkDone(r.seq)' /\ sharedUnlinks'[r.seq] = r.target
    <3>1. \A r \in unlinkReqs : r.seq # q /\ r.seq \in Seqnum
      BY <1>1, <1>12 DEF UnlinkAccounts, TypeOK, q
    <3>2. QED
      BY <1>2, <1>4, <1>12, <3>1 DEF UnlinkAccounts
  <2>9. Sending("unlink") => sharedUnlinks'[cmd.seq] = cmd.target
    BY <1>1, <1>2, <1>12, <2>2 DEF UnlinkAccounts, UnlinkDone
  <2>10. QED
    BY <1>1, <1>12, <2>5, <2>6, <2>7, <2>8, <2>9 DEF UnlinkAccounts
<1>13. ASSUME UrbAccounts, UnlinkAccounts, HeaderBeforeData PROVE HeaderBeforeData'
  <2>1. Answers("unknown")' = {}
    BY <1>1, <1>13, TakenAnswers DEF HeaderBeforeData
  <2>2. ASSUME NEW i \in Answers("payload")'
        PROVE  /\ i > 1 /\ toClient'[i - 1].type = "RET_SUBMIT" /\ toClient'[i - 1].len = 1
               /\ sharedPending'[toClient'[i - 1].seq] = "In"
    <3>1. i \in 1 .. Len(toClient') /\ i + 1 \in Answers("payload")
      BY <1>1, <1>7, TakenAnswers DEF Answers
    <3>2. /\ i \in Answers("RET_SUBMIT") /\ toClient[i].len = 1
          /\ sharedPending[toClient[i].seq] = "In"
      BY <1>7, <1>13, <3>1 DEF HeaderBeforeData, Answers
    <3>3. i # 1
      BY <1>1, <3>2 DEF Answers
    <3>4. toClient'[i - 1] = toClient[i]
      BY <1>7, <3>1, <3>3
    <3>5. QED
      BY <1>10, <1>13, <3>1, <3>2, <3>3, <3>4 DEF Answers
  <2>3. QED
    BY <2>1, <2>2 DEF HeaderBeforeData
<1>14. ASSUME UnlinkAccounts, NothingLeft PROVE NothingLeft'
  <2>1. \A s : AnswerInStream(s) => AnswerInStream(s)'
    BY <1>5 DEF AnswerInStream
  <2>2. \A s : s # q /\ UnlinkInStream(s) => UnlinkInStream(s)'
    BY <1>6 DEF UnlinkInStream, q
  <2>3. ASSUME NEW s \in Seqnum, CancelInStream(s), ~(won /\ s = t)
        PROVE  CancelInStream(s)'
    <3>1. PICK j \in Answers("RET_UNLINK") :
            toClient[j].reset /\ sharedUnlinks[toClient[j].seq] = s
      BY <2>3 DEF CancelInStream
    <3>2. s # NoEntry
      BY ClientAssumption
    <3>3. j # 1
      BY <2>3, <3>1, <3>2 DEF won, t, q
    <3>4. toClient[j].seq # q /\ toClient[j].seq \in Seqnum
      BY <1>1, <1>7, <1>14, <3>3 DEF UnlinkAccounts, Answers, q
    <3>5. QED
      BY <1>2, <1>6, <3>1, <3>3, <3>4 DEF CancelInStream
  <2>4. QED
    BY <1>1, <1>2, <1>14, <2>1, <2>2, <2>3 DEF NothingLeft
<1>15. QED
  BY <1>1, <1>8, <1>9, <1>11, <1>12, <1>13, <1>14 DEF Accounts, Balanced

(* Data that is read, as data or where a header was expected, is no answer.   *)
LEMMA DataStep ==
  ASSUME TypeOK, Accounts, ~strayed, RecvData \/ RecvGarbage
  PROVE  Accounts'
<1>1. /\ toClient # <<>> /\ toClient' = Tail(toClient) /\ rdPc' # "data"
      /\ UNCHANGED <<nextSeq, wrPc, cmd, sharedPending, sharedUnlinks, connUp, urbs, unlinkReqs,
                     strayed>>
      /\ toClient[1].type \in {"unknown", "payload"}
      /\ Sending("submit")' <=> Sending("submit")
      /\ Sending("unlink")' <=> Sending("unlink")
  <2>1. CASE RecvData
    <3>1. toClient # <<>> /\ rdPc = "data"
      BY <2>1 DEF RecvData
    <3>2. toClient[1] = Payload(rdMsg.seq) /\ Head(toClient) = toClient[1]
      BY <3>1, HeadTailProperties DEF TypeOK, Accounts, Balanced, DataFollowsHeader
    <3>3. toClient[1].type = "payload"
      BY <3>2 DEF Payload
    <3>4. QED
      BY <2>1, <3>2, <3>3 DEF RecvData, writerVars, mapVars, serverVars, Sending
  <2>2. CASE RecvGarbage
    BY <2>2, Taken DEF RecvGarbage, ReadHeader, writerVars, mapVars, serverVars, Sending
  <2>3. QED
    BY <2>1, <2>2
<1>2. \A s : Done(s)' <=> Done(s)
  BY <1>1 DEF Done
<1>3. \A u : UnlinkDone(u)' <=> UnlinkDone(u)
  BY <1>1 DEF UnlinkDone
<1>4. ASSUME NEW type \in {"RET_SUBMIT", "RET_UNLINK"}
      PROVE  /\ \A i \in Answers(type)' :
                  i \in Nat /\ i + 1 \in Answers(type) /\ toClient'[i] = toClient[i + 1]
             /\ \A j \in Answers(type) :
                  j - 1 \in Answers(type)' /\ toClient'[j - 1] = toClient[j]
  <2>1. 1 \notin Answers(type)
    BY <1>1 DEF Answers
  <2>2. QED
    BY <1>1, <2>1, TakenAnswers
<1>5. /\ \A i \in Answers("RET_SUBMIT")' :
           i \in Nat /\ i + 1 \in Answers("RET_SUBMIT") /\ toClient'[i] = toClient[i + 1]
      /\ \A j \in Answers("RET_SUBMIT") :
           j - 1 \in Answers("RET_SUBMIT")' /\ toClient'[j - 1] = toClient[j]
  BY <1>4
<1>6. /\ \A i \in Answers("RET_UNLINK")' :
           i \in Nat /\ i + 1 \in Answers("RET_UNLINK") /\ toClient'[i] = toClient[i + 1]
      /\ \A j \in Answers("RET_UNLINK") :
           j - 1 \in Answers("RET_UNLINK")' /\ toClient'[j - 1] = toClient[j]
  BY <1>4
<1>7. /\ Len(toClient) \in Nat /\ Len(toClient') = Len(toClient) - 1
      /\ DOMAIN toClient = 1 .. Len(toClient) /\ DOMAIN toClient' = 1 .. Len(toClient')
      /\ \A i \in 1 .. Len(toClient') : toClient'[i] = toClient[i + 1]
  BY <1>1, Positions, Taken
<1>8. Numbers'
  BY <1>1 DEF Accounts, Numbers
<1>9. ASSUME DataFollowsHeader PROVE DataFollowsHeader'
  <2>1. ASSUME NEW i \in Answers("RET_SUBMIT")', toClient'[i].len = 1,
               NEW s, s = toClient'[i].seq
        PROVE  /\ Done(s)
               /\ sharedPending[s] = "In" =>
                    /\ i < Len(toClient') => toClient'[i + 1] = Payload(s)
                    /\ connUp => i < Len(toClient')
    <3>1. /\ i + 1 \in Answers("RET_SUBMIT") /\ toClient[i + 1].len = 1 /\ s = toClient[i + 1].seq
          /\ i \in 1 .. Len(toClient')
      BY <1>5, <1>7, <2>1 DEF Answers
    <3>2. /\ Done(s)
          /\ sharedPending[s] = "In" =>
               /\ i + 1 < Len(toClient) => toClient[(i + 1) + 1] = Payload(s)
               /\ connUp => i + 1 < Len(toClient)
      BY <1>9, <3>1 DEF DataFollowsHeader
    <3>3. i < Len(toClient') => toClient'[i + 1] = toClient[(i + 1) + 1]
      BY <1>7, <3>1
    <3>4. QED
      BY <1>7, <3>1, <3>2, <3>3
  <2>2. QED
    BY <1>1, <1>2, <2>1 DEF DataFollowsHeader
<1>10. ASSUME UrbAccounts PROVE UrbAccounts'
  <2>1. ASSUME NEW i \in Answers("RET_SUBMIT")', NEW s, s = toClient'[i].seq
        PROVE  Done(s)' /\ sharedPending'[s] # NoEntry
    BY <1>1, <1>2, <1>5, <1>10, <2>1 DEF UrbAccounts
  <2>2. \A i, j \in Answers("RET_SUBMIT")' : toClient'[i].seq = toClient'[j].seq => i = j
    BY <1>5, <1>10 DEF UrbAccounts
  <2>3. QED
    BY <1>1, <1>10, <2>1, <2>2 DEF UrbAccounts
<1>11. ASSUME UnlinkAccounts PROVE UnlinkAccounts'
  <2>1. \A s : Cancelled(s) => Cancelled(s)'
    BY <1>2, <1>5 DEF Cancelled
  <2>2. ASSUME NEW i \in Answers("RET_UNLINK")', NEW u, u = toClient'[i].seq,
               NEW s, s = sharedUnlinks[u]
        PROVE  UnlinkDone(u) /\ s # NoEntry /\ (toClient'[i].reset => Cancelled(s))
    BY <1>6, <1>11, <2>2 DEF UnlinkAccounts
  <2>3. \A i \in Answers("RET_UNLINK")' : \A r \in unlinkReqs : toClient'[i].seq # r.seq
    BY <1>6, <1>11 DEF UnlinkAccounts
  <2>4. \A i, j \in Answers("RET_UNLINK")' : toClient'[i].seq = toClient'[j].seq => i = j
    BY <1>6, <1>11 DEF UnlinkAccounts
  <2>5. \A r \in unlinkReqs : UnlinkDone(r.seq)'
    BY <1>3, <1>11 DEF UnlinkAccounts
  <2>6. ASSUME NEW i \in Answers("RET_UNLINK")', NEW u, u = toClient'[i].seq
        PROVE  /\ UnlinkDone(u)' /\ sharedUnlinks'[u] # NoEntry
               /\ toClient'[i].reset => Cancelled(sharedUnlinks[u])'
    BY <1>1, <1>3, <2>1, <2>2, <2>6
  <2>7. QED
    BY <1>1, <1>11, <2>3, <2>4, <2>5, <2>6 DEF UnlinkAccounts
<1>12. ASSUME HeaderBeforeData PROVE HeaderBeforeData'
  <2>1. Answers("unknown")' = {}
    BY <1>1, <1>12, TakenAnswers DEF HeaderBeforeData
  <2>2. ASSUME NEW i \in Answers("payload")'
        PROVE  /\ i > 1 /\ toClient'[i - 1].type = "RET_SUBMIT" /\ toClient'[i - 1].len = 1
               /\ sharedPending'[toClient'[i - 1].seq] = "In"
    <3>1. i \in 1 .. Len(toClient') /\ i + 1 \in Answers("payload")
      BY <1>1, <1>7, TakenAnswers DEF Answers
    <3>2. /\ toClient[i].type = "RET_SUBMIT" /\ toClient[i].len = 1
          /\ sharedPending[toClient[i].seq] = "In"
      BY <1>7, <1>12, <3>1 DEF HeaderBeforeData, Answers
    <3>3. i # 1
      BY <1>1, <3>2
    <3>4. toClient'[i - 1] = toClient[i]
      BY <1>7, <3>1, <3>3
    <3>5. QED
      BY <1>1, <3>1, <3>2, <3>3, <3>4
  <2>3. QED
    BY <2>1, <2>2 DEF HeaderBeforeData
<1>13. ASSUME NothingLeft PROVE NothingLeft'
  <2>1. \A s : AnswerInStream(s) => AnswerInStream(s)'
    BY <1>5 DEF AnswerInStream
  <2>2. \A s : UnlinkInStream(s) => UnlinkInStream(s)'
    BY <1>6 DEF UnlinkInStream
  <2>3. \A s : CancelInStream(s) => CancelInStream(s)'
    <3>1. sharedUnlinks' = sharedUnlinks
      BY <1>1
    <3>2. QED
      BY <1>6, <3>1 DEF CancelInStream
  <2>4. QED
    BY <1>1, <1>13, <2>1, <2>2, <2>3 DEF NothingLeft
<1>14. QED
  BY <1>1, <1>8, <1>9, <1>10, <1>11, <1>12, <1>13 DEF Accounts, Balanced

-----------------------------------------------------------------------------
(* The server adds to the stream: what was there keeps its place.             *)
LEMMA Added ==
  ASSUME TypeOK, NEW q \in Seq(Token), toClient' = toClient \o q
  PROVE  /\ Len(toClient) \in Nat /\ Len(q) \in Nat /\ Len(toClient') = Len(toClient) + Len(q)
         /\ DOMAIN toClient = 1 .. Len(toClient) /\ DOMAIN toClient' = 1 .. Len(toClient')
         /\ \A i \in 1 .. Len(toClient) : i \in 1 .. Len(toClient') /\ toClient'[i] = toClient[i]
         /\ \A i \in 1 .. Len(q) : toClient'[Len(toClient) + i] = q[i]
<1>1. toClient \in Seq(Token)
  BY DEF TypeOK
<1>2. Len(toClient) \in Nat /\ Len(q) \in Nat /\ DOMAIN toClient = 1 .. Len(toClient)
  BY <1>1, LenProperties
<1>3. /\ toClient' \in Seq(Token) /\ Len(toClient') = Len(toClient) + Len(q)
      /\ \A i \in 1 .. Len(toClient) + Len(q) :
           toClient'[i] = IF i <= Len(toClient) THEN toClient[i] ELSE q[i - Len(toClient)]
  BY <1>1, ConcatProperties
<1>4. DOMAIN toClient' = 1 .. Len(toClient')
  BY <1>3, LenProperties
<1>5. \A i \in 1 .. Len(toClient) : i \in 1 .. Len(toClient') /\ toClient'[i] = toClient[i]
  BY <1>2, <1>3
<1>6. ASSUME NEW i \in 1 .. Len(q) PROVE toClient'[Len(toClient) + i] = q[i]
  <2>1. /\ Len(toClient) + i \in 1 .. Len(toClient) + Len(q) /\ ~(Len(toClient) + i <= Len(toClient))
        /\ (Len(toClient) + i) - Len(toClient) = i
    BY <1>2
  <2>2. QED
    BY <1>3, <2>1
<1>7. QED
  BY <1>2, <1>3, <1>4, <1>5, <1>6

(* An URB the server completes turns into its answer, with its data.          *)
LEMMA CompletesStep ==
  ASSUME TypeOK, Accounts, NEW s \in Seqnum, ServerCompletes(s)
  PROVE  Accounts'
<1>1. /\ connUp /\ urbs[s] \in Direction /\ urbs[s] # NoEntry
      /\ UNCHANGED <<nextSeq, wrPc, cmd, sharedPending, sharedUnlinks, rdPc, rdMsg, connUp,
                     unlinkReqs, strayed>>
      /\ \A x \in Seqnum : urbs'[x] = IF x = s THEN NoEntry ELSE urbs[x]
      /\ Sending("submit")' <=> Sending("submit")
      /\ Sending("unlink")' <=> Sending("unlink")
      /\ cmd.seq \in Seqnum
  <2>1. cmd.seq \in Seqnum
    BY DEF TypeOK, Command
  <2>2. QED
    BY <2>1 DEF ServerCompletes, writerVars, mapVars, recvVars, Sending, TypeOK
<1>2. PICK n \in {0, 1} : toClient' = toClient \o Answer(s, urbs[s], n)
  BY DEF ServerCompletes
<1> DEFINE a == Answer(s, urbs[s], n)
           L == Len(toClient)
<1>3. /\ a[1] = RetSubmit(s, n) /\ Len(a) \in {1, 2}
      /\ Len(a) = 2 <=> urbs[s] = "In" /\ n = 1
      /\ Len(a) = 2 => a[2] = Payload(s)
  BY DEF Answer
<1>4. a \in Seq(Token)
  BY <1>1, AnswerType
<1> HIDE DEF a
<1>5. /\ L \in Nat /\ Len(toClient') = L + Len(a)
      /\ DOMAIN toClient = 1 .. L /\ DOMAIN toClient' = 1 .. L + Len(a)
      /\ \A i \in 1 .. L : i \in 1 .. L + Len(a) /\ toClient'[i] = toClient[i]
      /\ L + 1 \in 1 .. L + Len(a) /\ toClient'[L + 1] = RetSubmit(s, n)
      /\ Len(a) = 2 => toClient'[L + 2] = Payload(s)
      /\ toClient' # <<>>
      /\ \A i \in 1 .. L + Len(a) : i \in 1 .. L \/ i = L + 1 \/ (i = L + 2 /\ Len(a) = 2)
  <2>1. toClient' = toClient \o a
    BY <1>2 DEF a
  <2>2. /\ L \in Nat /\ Len(toClient') = L + Len(a)
        /\ DOMAIN toClient = 1 .. L /\ DOMAIN toClient' = 1 .. Len(toClient')
        /\ \A i \in 1 .. L : i \in 1 .. Len(toClient') /\ toClient'[i] = toClient[i]
        /\ \A i \in 1 .. Len(a) : toClient'[L + i] = a[i]
    BY <1>4, <2>1, Added
  <2>3. toClient' # <<>>
    BY <1>3, <2>2, EmptySeq
  <2>4. L + 1 \in 1 .. L + Len(a) /\ 1 \in 1 .. Len(a) /\ (Len(a) = 2 => 2 \in 1 .. Len(a))
    BY <1>3, <2>2
  <2>5. \A i \in 1 .. L + Len(a) : i \in 1 .. L \/ i = L + 1 \/ (i = L + 2 /\ Len(a) = 2)
    BY <1>3, <2>2
  <2>6. QED
    BY <1>3, <2>2, <2>3, <2>4, <2>5
<1> HIDE DEF L
<1>6. /\ RetSubmit(s, n).type = "RET_SUBMIT" /\ RetSubmit(s, n).seq = s
      /\ RetSubmit(s, n).len = n /\ Payload(s).type = "payload"
  BY DEF RetSubmit, Payload
<1>7. /\ Answers("RET_SUBMIT")' = Answers("RET_SUBMIT") \cup {L + 1}
      /\ Answers("RET_UNLINK")' = Answers("RET_UNLINK")
      /\ Answers("unknown")' = Answers("unknown")
      /\ \A i \in Answers("payload")' : i \in Answers("payload") \/ (i = L + 2 /\ Len(a) = 2)
      /\ \A type : \A i \in Answers(type) : i \in 1 .. L /\ toClient'[i] = toClient[i]
  BY <1>5, <1>6 DEF Answers
<1>8. /\ s < nextSeq /\ sharedPending[s] \in {urbs[s], NoEntry}
      /\ ~(Sending("submit") /\ cmd.seq = s)
  BY <1>1 DEF Accounts, Numbers
<1>9. (\A x \in Seqnum : Done(x) => Done(x)') /\ Done(s)' /\ ~Done(s)
  BY <1>1, <1>8 DEF Done
<1>10. \A u : UnlinkDone(u)' <=> UnlinkDone(u)
  BY <1>1 DEF UnlinkDone
<1>11. \A i \in 1 .. L : toClient[i].seq \in Seqnum
  BY Positions DEF L
<1>12. Numbers'
  BY <1>1 DEF Accounts, Numbers
<1>13. ASSUME DataFollowsHeader PROVE DataFollowsHeader'
  <2>1. ASSUME NEW i \in Answers("RET_SUBMIT")', toClient'[i].len = 1,
               NEW x, x = toClient'[i].seq
        PROVE  /\ Done(x)'
               /\ sharedPending[x] = "In" =>
                    i < Len(toClient') /\ toClient'[i + 1] = Payload(x)
    <3>1. CASE i \in Answers("RET_SUBMIT")
      <4>1. i \in 1 .. L /\ toClient'[i] = toClient[i] /\ x \in Seqnum
        BY <1>7, <1>11, <2>1, <3>1
      <4>2. Done(x) /\ (sharedPending[x] = "In" => i < L /\ toClient[i + 1] = Payload(x))
        BY <1>13, <1>1, <2>1, <3>1, <4>1 DEF DataFollowsHeader, L
      <4>3. i < L => i < Len(toClient') /\ toClient'[i + 1] = toClient[i + 1]
        BY <1>3, <1>5, <4>1
      <4>4. QED
        BY <1>9, <4>1, <4>2, <4>3
    <3>2. CASE i = L + 1
      <4>1. x = s /\ n = 1
        BY <1>5, <1>6, <2>1, <3>2
      <4>2. sharedPending[s] = "In" => Len(a) = 2
        BY <1>3, <1>8, <4>1, ClientAssumption DEF Direction
      <4>3. Len(a) = 2 => L + 1 < Len(toClient') /\ (L + 1) + 1 = L + 2
        BY <1>5
      <4>4. QED
        BY <1>5, <1>9, <3>2, <4>1, <4>2, <4>3
    <3>3. QED
      BY <1>7, <2>1, <3>1, <3>2
  <2>2. rdPc = "data" => toClient'[1] = Payload(rdMsg.seq)
    <3>1. rdPc = "data" => toClient # <<>> /\ toClient[1] = Payload(rdMsg.seq)
      BY <1>13, <1>1 DEF DataFollowsHeader
    <3>2. toClient # <<>> => 1 \in 1 .. L
      BY <1>5, EmptySeq DEF TypeOK, L
    <3>3. QED
      BY <1>5, <3>1, <3>2
  <2>3. QED
    BY <1>1, <1>5, <2>1, <2>2 DEF DataFollowsHeader
<1>14. ASSUME UrbAccounts PROVE UrbAccounts'
  <2>1. \A i \in Answers("RET_SUBMIT") : toClient[i].seq # s /\ toClient[i].seq \in Seqnum
    BY <1>7, <1>9, <1>11, <1>14 DEF UrbAccounts
  <2>2. ASSUME NEW i \in Answers("RET_SUBMIT")', NEW x, x = toClient'[i].seq
        PROVE  Done(x)' /\ sharedPending[x] # NoEntry
    <3>1. CASE i \in Answers("RET_SUBMIT")
      BY <1>7, <1>9, <1>14, <2>1, <2>2, <3>1 DEF UrbAccounts
    <3>2. CASE i = L + 1
      BY <1>1, <1>5, <1>6, <1>9, <1>14, <2>2, <3>2 DEF UrbAccounts
    <3>3. QED
      BY <1>7, <2>2, <3>1, <3>2
  <2>3. \A i, j \in Answers("RET_SUBMIT")' : toClient'[i].seq = toClient'[j].seq => i = j
    BY <1>5, <1>6, <1>7, <1>14, <2>1 DEF UrbAccounts
  <2>4. \A x \in Seqnum : urbs'[x] # NoEntry => sharedPending[x] # NoEntry
    BY <1>1, <1>14 DEF UrbAccounts
  <2>5. QED
    BY <1>1, <1>14, <2>2, <2>3, <2>4 DEF UrbAccounts
<1>15. ASSUME UnlinkAccounts PROVE UnlinkAccounts'
  <2>1. ASSUME NEW x \in Seqnum, Cancelled(x) PROVE Cancelled(x)'
    BY <1>5, <1>6, <1>7, <1>9, <2>1 DEF Cancelled
  <2>2. ASSUME NEW i \in Answers("RET_UNLINK"), NEW u, u = toClient'[i].seq
        PROVE  /\ UnlinkDone(u)' /\ sharedUnlinks'[u] # NoEntry
               /\ toClient'[i].reset => Cancelled(sharedUnlinks[u])'
    <3>1. /\ u = toClient[i].seq /\ u \in Seqnum /\ UnlinkDone(u) /\ sharedUnlinks[u] # NoEntry
          /\ toClient'[i] = toClient[i]
      BY <1>7, <1>11, <1>15, <2>2 DEF UnlinkAccounts
    <3>2. ASSUME NEW x, x = sharedUnlinks[u], toClient[i].reset PROVE Cancelled(x)'
      BY <1>15, <2>1, <3>1, <3>2 DEF UnlinkAccounts, TypeOK
    <3>3. QED
      BY <1>1, <1>10, <3>1, <3>2
  <2>3. \A r \in unlinkReqs : UnlinkDone(r.seq)'
    BY <1>10, <1>15 DEF UnlinkAccounts
  <2>4. /\ \A i, j \in Answers("RET_UNLINK") : toClient'[i].seq = toClient'[j].seq => i = j
        /\ \A i \in Answers("RET_UNLINK") : \A r \in unlinkReqs : toClient'[i].seq # r.seq
    BY <1>7, <1>15 DEF UnlinkAccounts
  <2>5. QED
    BY <1>1, <1>7, <1>15, <2>2, <2>3, <2>4 DEF UnlinkAccounts
<1>16. ASSUME UrbAccounts, HeaderBeforeData PROVE HeaderBeforeData'
  <2>1. ASSUME NEW i \in Answers("payload")'
        PROVE  /\ i = 1 => rdPc = "data"
               /\ i > 1 => /\ toClient'[i - 1].type = "RET_SUBMIT" /\ toClient'[i - 1].len = 1
                           /\ sharedPending'[toClient'[i - 1].seq] = "In"
    <3>1. CASE i \in Answers("payload")
      <4>1. i \in 1 .. L /\ (i > 1 => i - 1 \in 1 .. L)
        BY <1>5, <1>7, <3>1
      <4>2. QED
        BY <1>1, <1>5, <1>16, <3>1, <4>1 DEF HeaderBeforeData
    <3>2. CASE i = L + 2 /\ Len(a) = 2
      <4>1. i # 1 /\ i - 1 = L + 1
        BY <1>5, <3>2
      <4>2. sharedPending[s] = "In" /\ n = 1
        BY <1>1, <1>3, <1>8, <1>16, <3>2 DEF UrbAccounts
      <4>3. QED
        BY <1>1, <1>5, <1>6, <4>1, <4>2
    <3>3. QED
      BY <1>7, <2>1, <3>1, <3>2
  <2>2. QED
    BY <1>1, <1>7, <1>16, <2>1 DEF HeaderBeforeData
<1>17. ASSUME NothingLeft PROVE NothingLeft'
  <2>1. AnswerInStream(s)' /\ \A x : AnswerInStream(x) => AnswerInStream(x)'
    BY <1>5, <1>6, <1>7 DEF AnswerInStream
  <2>2. \A u : UnlinkInStream(u) => UnlinkInStream(u)'
    BY <1>7 DEF UnlinkInStream
  <2>3. \A x : CancelInStream(x) => CancelInStream(x)'
    <3>1. sharedUnlinks' = sharedUnlinks
      BY <1>1
    <3>2. QED
      BY <1>7, <3>1 DEF CancelInStream
  <2>4. QED
    BY <1>1, <1>17, <2>1, <2>2, <2>3 DEF NothingLeft
<1>18. QED
  BY <1>1, <1>12, <1>13, <1>14, <1>15, <1>16, <1>17 DEF Accounts, Balanced

(* An unlink that finds its URB takes it: the RET_UNLINK is its only answer.  *)
LEMMA UnlinksStep ==
  ASSUME TypeOK, Accounts, NEW r \in unlinkReqs, ServerUnlinks(r)
  PROVE  Accounts'
<1> DEFINE u == r.seq
           t == r.target
           won == urbs[t] # NoEntry
           L == Len(toClient)
<1>1. /\ u \in Seqnum /\ t \in Seqnum /\ connUp
      /\ UNCHANGED <<nextSeq, wrPc, cmd, sharedPending, sharedUnlinks, rdPc, rdMsg, connUp,
                     strayed>>
      /\ unlinkReqs' = unlinkReqs \ {r}
      /\ \A x \in Seqnum : urbs'[x] = IF x = t THEN NoEntry ELSE urbs[x]
      /\ Sending("submit")' <=> Sending("submit")
      /\ Sending("unlink")' <=> Sending("unlink")
      /\ toClient' = toClient \o <<RetUnlink(u, won)>>
  BY DEF ServerUnlinks, writerVars, mapVars, recvVars, Sending, TypeOK
<1>2. /\ RetUnlink(u, won).type = "RET_UNLINK" /\ RetUnlink(u, won).seq = u
      /\ RetUnlink(u, won).reset = won /\ <<RetUnlink(u, won)>> \in Seq(Token)
  <2>1. RetUnlink(u, won) \in Token
    BY <1>1 DEF RetUnlink, Token
  <2>2. QED
    BY <2>1 DEF RetUnlink
<1>3. /\ L \in Nat /\ Len(toClient') = L + 1
      /\ DOMAIN toClient = 1 .. L /\ DOMAIN toClient' = 1 .. L + 1
      /\ \A i \in 1 .. L : i \in 1 .. L + 1 /\ toClient'[i] = toClient[i]
      /\ L + 1 \in 1 .. L + 1 /\ L + 1 \notin 1 .. L /\ toClient'[L + 1] = RetUnlink(u, won)
      /\ toClient' # <<>>
      /\ \A i \in 1 .. L + 1 : i \in 1 .. L \/ i = L + 1
  <2> DEFINE a == <<RetUnlink(u, won)>>
  <2>1. a \in Seq(Token) /\ toClient' = toClient \o a
    BY <1>1, <1>2
  <2>2. Len(a) = 1 /\ a[1] = RetUnlink(u, won) /\ 1 \in 1 .. 1
    OBVIOUS
  <2> HIDE DEF a
  <2>3. /\ L \in Nat /\ Len(toClient') = L + Len(a)
        /\ DOMAIN toClient = 1 .. L /\ DOMAIN toClient' = 1 .. Len(toClient')
        /\ \A i \in 1 .. L : i \in 1 .. Len(toClient') /\ toClient'[i] = toClient[i]
        /\ \A i \in 1 .. Len(a) : toClient'[L + i] = a[i]
    BY <2>1, Added
  <2>4. toClient' # <<>>
    BY <2>2, <2>3, EmptySeq
  <2>5. /\ L + 1 \in 1 .. L + 1 /\ L + 1 \notin 1 .. L
        /\ \A i \in 1 .. L + 1 : i \in 1 .. L \/ i = L + 1
    BY <2>3
  <2>6. QED
    BY <2>2, <2>3, <2>4, <2>5
<1> HIDE DEF won, L
<1>4. /\ Answers("RET_UNLINK")' = Answers("RET_UNLINK") \cup {L + 1}
      /\ \A type : type # "RET_UNLINK" => Answers(type)' = Answers(type)
      /\ \A type : \A i \in Answers(type) : i \in 1 .. L /\ toClient'[i] = toClient[i]
  BY <1>2, <1>3 DEF Answers
<1>5. won => t < nextSeq /\ ~(Sending("submit") /\ cmd.seq = t)
  BY <1>1 DEF Accounts, Numbers, won
<1>6. (\A x \in Seqnum : Done(x) => Done(x)') /\ (won => ~Done(t) /\ Done(t)')
  BY <1>1, <1>5 DEF Done, won
<1>7. \A x : UnlinkDone(x)' <=> UnlinkDone(x)
  BY <1>1 DEF UnlinkDone
<1>8. \A i \in 1 .. L : toClient[i].seq \in Seqnum
  BY Positions DEF L
<1>9. Answers("RET_SUBMIT")' = Answers("RET_SUBMIT")
  BY <1>4
<1>10. Numbers'
  <2>1. cmd.seq \in Seqnum
    BY DEF TypeOK, Command
  <2>2. QED
    BY <1>1, <2>1 DEF Accounts, Numbers
<1>11. ASSUME DataFollowsHeader PROVE DataFollowsHeader'
  <2>1. ASSUME NEW i \in Answers("RET_SUBMIT"), toClient'[i].len = 1,
               NEW x, x = toClient'[i].seq
        PROVE  /\ Done(x)'
               /\ sharedPending[x] = "In" =>
                    i < Len(toClient') /\ toClient'[i + 1] = Payload(x)
    <3>1. i \in 1 .. L /\ toClient'[i] = toClient[i] /\ x \in Seqnum
      BY <1>4, <1>8, <2>1
    <3>2. Done(x) /\ (sharedPending[x] = "In" => i < L /\ toClient[i + 1] = Payload(x))
      BY <1>11, <1>1, <2>1, <3>1 DEF DataFollowsHeader, L
    <3>3. i < L => i < Len(toClient') /\ toClient'[i + 1] = toClient[i + 1]
      BY <1>3, <3>1
    <3>4. QED
      BY <1>6, <3>1, <3>2, <3>3
  <2>2. rdPc = "data" => toClient'[1] = Payload(rdMsg.seq)
    <3>1. rdPc = "data" => toClient # <<>> /\ toClient[1] = Payload(rdMsg.seq)
      BY <1>11, <1>1 DEF DataFollowsHeader
    <3>2. toClient # <<>> => 1 \in 1 .. L
      BY <1>3, EmptySeq DEF TypeOK, L
    <3>3. QED
      BY <1>3, <3>1, <3>2
  <2>3. QED
    BY <1>1, <1>3, <1>9, <2>1, <2>2 DEF DataFollowsHeader
<1>12. ASSUME UrbAccounts PROVE UrbAccounts'
  <2>1. ASSUME NEW i \in Answers("RET_SUBMIT"), NEW x, x = toClient'[i].seq
        PROVE  Done(x)' /\ sharedPending[x] # NoEntry
    BY <1>4, <1>6, <1>8, <1>12, <2>1 DEF UrbAccounts
  <2>2. \A i, j \in Answers("RET_SUBMIT") : toClient'[i].seq = toClient'[j].seq => i = j
    BY <1>4, <1>12 DEF UrbAccounts
  <2>3. \A x \in Seqnum : urbs'[x] # NoEntry => sharedPending[x] # NoEntry
    BY <1>1, <1>12 DEF UrbAccounts
  <2>4. QED
    BY <1>1, <1>9, <1>12, <2>1, <2>2, <2>3 DEF UrbAccounts
<1>13. ASSUME UrbAccounts, UnlinkAccounts PROVE UnlinkAccounts'
  <2>1. /\ UnlinkDone(u) /\ sharedUnlinks[u] = t /\ t # NoEntry
        /\ \A i \in Answers("RET_UNLINK") : toClient[i].seq # u
    BY <1>1, <1>13, ClientAssumption DEF UnlinkAccounts
  <2>2. ASSUME NEW x \in Seqnum, Cancelled(x) PROVE Cancelled(x)'
    BY <1>4, <1>6, <1>9, <2>2 DEF Cancelled
  <2>3. won => Cancelled(t)'
    BY <1>4, <1>6, <1>9, <1>13 DEF Cancelled, UrbAccounts
  <2>4. ASSUME NEW i \in Answers("RET_UNLINK")', NEW v, v = toClient'[i].seq
        PROVE  /\ UnlinkDone(v)' /\ sharedUnlinks'[v] # NoEntry
               /\ toClient'[i].reset => Cancelled(sharedUnlinks[v])'
    <3>1. CASE i \in Answers("RET_UNLINK")
      <4>1. /\ v = toClient[i].seq /\ v \in Seqnum /\ UnlinkDone(v) /\ sharedUnlinks[v] # NoEntry
            /\ toClient'[i] = toClient[i]
        BY <1>4, <1>8, <1>13, <2>4, <3>1 DEF UnlinkAccounts
      <4>2. ASSUME NEW x, x = sharedUnlinks[v], toClient[i].reset PROVE Cancelled(x)'
        BY <1>13, <2>2, <3>1, <4>1, <4>2 DEF UnlinkAccounts, TypeOK
      <4>3. QED
        BY <1>1, <1>7, <4>1, <4>2
    <3>2. CASE i = L + 1
      <4>1. v = u /\ toClient'[i].reset = won
        BY <1>2, <1>3, <2>4, <3>2
      <4>2. QED
        BY <1>1, <1>7, <2>1, <2>3, <4>1
    <3>3. QED
      BY <1>4, <2>4, <3>1, <3>2
  <2>5. \A i, j \in Answers("RET_UNLINK")' : toClient'[i].seq = toClient'[j].seq => i = j
    BY <1>2, <1>3, <1>4, <1>13, <2>1 DEF UnlinkAccounts
  <2>6. ASSUME NEW p \in unlinkReqs'
        PROVE  /\ UnlinkDone(p.seq)' /\ sharedUnlinks[p.seq] = p.target
               /\ p.target < nextSeq /\ ~(Sending("submit") /\ cmd.seq = p.target)
               /\ \A i \in Answers("RET_UNLINK")' : toClient'[i].seq # p.seq
    <3>1. p \in unlinkReqs /\ p # r
      BY <1>1, <2>6
    <3>2. /\ UnlinkDone(p.seq) /\ sharedUnlinks[p.seq] = p.target
          /\ p.target < nextSeq /\ ~(Sending("submit") /\ cmd.seq = p.target)
          /\ \A i \in Answers("RET_UNLINK") : toClient[i].seq # p.seq
      BY <1>13, <3>1 DEF UnlinkAccounts
    <3>3. p = [seq |-> p.seq, target |-> p.target] /\ r = [seq |-> r.seq, target |-> r.target]
      BY <3>1 DEF TypeOK
    <3>4. p.seq # u
      BY <2>1, <3>1, <3>2, <3>3
    <3>5. QED
      BY <1>2, <1>3, <1>4, <1>7, <3>2, <3>4
  <2>7. QED
    BY <1>1, <1>13, <2>4, <2>5, <2>6 DEF UnlinkAccounts
<1>14. ASSUME HeaderBeforeData PROVE HeaderBeforeData'
  <2>1. Answers("payload")' = Answers("payload") /\ Answers("unknown")' = {}
    BY <1>4, <1>14 DEF HeaderBeforeData
  <2>2. ASSUME NEW i \in Answers("payload")
        PROVE  /\ i = 1 => rdPc = "data"
               /\ i > 1 => /\ toClient'[i - 1].type = "RET_SUBMIT" /\ toClient'[i - 1].len = 1
                           /\ sharedPending'[toClient'[i - 1].seq] = "In"
    <3>1. i \in 1 .. L /\ (i > 1 => i - 1 \in 1 .. L)
      BY <1>3, <1>4
    <3>2. QED
      BY <1>1, <1>3, <1>14, <3>1 DEF HeaderBeforeData
  <2>3. QED
    BY <1>1, <2>1, <2>2 DEF HeaderBeforeData
<1>15. ASSUME UnlinkAccounts, NothingLeft PROVE NothingLeft'
  <2>1. sharedUnlinks' = sharedUnlinks /\ sharedUnlinks[u] = t
    BY <1>1, <1>15 DEF UnlinkAccounts
  <2>2. \A x : AnswerInStream(x) => AnswerInStream(x)'
    BY <1>4, <1>9 DEF AnswerInStream
  <2>3. UnlinkInStream(u)' /\ \A x : UnlinkInStream(x) => UnlinkInStream(x)'
    BY <1>2, <1>3, <1>4 DEF UnlinkInStream
  <2>4. \A x : CancelInStream(x) => CancelInStream(x)'
    BY <1>4, <2>1 DEF CancelInStream
  <2>5. ASSUME won PROVE CancelInStream(t)'
    <3>1. RetUnlink(u, won).reset
      BY <1>2, <2>5
    <3>2. L + 1 \in Answers("RET_UNLINK")' /\ toClient'[L + 1] = RetUnlink(u, won)
      BY <1>3, <1>4
    <3>3. QED
      BY <1>2, <2>1, <3>1, <3>2 DEF CancelInStream
  <2>6. \A x \in Seqnum : urbs[x] # NoEntry => urbs'[x] # NoEntry \/ CancelInStream(x)'
    BY <1>1, <2>5 DEF won
  <2>7. \A p \in unlinkReqs : p \in unlinkReqs' \/ p.seq = u
    BY <1>1
  <2>8. QED
    BY <1>1, <1>15, <2>2, <2>3, <2>4, <2>6, <2>7 DEF NothingLeft
<1>16. QED
  BY <1>1, <1>10, <1>11, <1>12, <1>13, <1>14, <1>15 DEF Accounts, Balanced

(* A stray answer spoils the accounts but no number, and so does what recv    *)
(* takes for data after one.                                                 *)
LEMMA StraysStep ==
  ASSUME TypeOK, Accounts, ServerStrays \/ (strayed /\ (RecvData \/ RecvGarbage))
  PROVE  Accounts'
<1>1. strayed' /\ UNCHANGED <<nextSeq, wrPc, cmd, sharedPending, urbs>>
  BY DEF ServerStrays, RecvData, RecvGarbage, ReadHeader, writerVars, mapVars, serverVars
<1>2. Numbers'
  BY <1>1 DEF Accounts, Numbers, Sending
<1>3. QED
  BY <1>1, <1>2 DEF Accounts

(* A reset cuts the stream short: what is left was there before.              *)
LEMMA LostStep ==
  ASSUME TypeOK, Accounts, ConnLost
  PROVE  Accounts'
<1>1. /\ connUp' = FALSE
      /\ UNCHANGED <<nextSeq, wrPc, cmd, sharedPending, sharedUnlinks, rdPc, rdMsg, urbs,
                     unlinkReqs, strayed>>
      /\ Sending("submit")' <=> Sending("submit")
      /\ Sending("unlink")' <=> Sending("unlink")
  BY DEF ConnLost, writerVars, mapVars, recvVars, Sending
<1>2. PICK k \in 0 .. Len(toClient) : toClient' = SubSeq(toClient, 1, k)
  BY DEF ConnLost
<1>3. /\ Len(toClient) \in Nat /\ DOMAIN toClient = 1 .. Len(toClient)
      /\ k \in Nat /\ k <= Len(toClient) /\ Len(toClient') = k /\ DOMAIN toClient' = 1 .. k
      /\ \A i \in 1 .. k : i \in 1 .. Len(toClient) /\ toClient'[i] = toClient[i]
      /\ toClient' # <<>> => toClient # <<>> /\ 1 \in 1 .. k
  <2>1. /\ toClient \in Seq(Token) /\ Len(toClient) \in Nat
        /\ DOMAIN toClient = 1 .. Len(toClient)
        /\ \A i \in 1 .. Len(toClient) : toClient[i] \in Token
    BY Positions DEF TypeOK
  <2>2. k \in Int /\ k <= Len(toClient) /\ k >= 0
    BY <2>1
  <2>3. /\ toClient' \in Seq(Token) /\ Len(toClient') = k
        /\ \A i \in 1 .. k : toClient'[i] = toClient[i]
    BY <1>2, <2>1, <2>2, SubSeqProperties
  <2>4. DOMAIN toClient' = 1 .. k
    BY <2>3, LenProperties
  <2>5. toClient' # <<>> => k > 0
    BY <2>3, EmptySeq
  <2>6. QED
    BY <2>1, <2>2, <2>3, <2>4, <2>5, EmptySeq
<1>4. \A type : \A i \in Answers(type)' :
        i \in 1 .. k /\ i \in Answers(type) /\ toClient'[i] = toClient[i]
  BY <1>3 DEF Answers
<1>5. \A x : Done(x)' <=> Done(x)
  BY <1>1 DEF Done
<1>6. \A x : UnlinkDone(x)' <=> UnlinkDone(x)
  BY <1>1 DEF UnlinkDone
<1>7. Numbers'
  BY <1>1 DEF Accounts, Numbers
<1>8. ASSUME DataFollowsHeader PROVE DataFollowsHeader'
  <2>1. ASSUME NEW i \in Answers("RET_SUBMIT")', toClient'[i].len = 1,
               NEW x, x = toClient'[i].seq
        PROVE  Done(x) /\ (sharedPending[x] = "In" /\ i < k => toClient'[i + 1] = Payload(x))
    <3>1. i \in 1 .. k /\ i \in Answers("RET_SUBMIT") /\ toClient'[i] = toClient[i]
      BY <1>4, <2>1
    <3>2. Done(x) /\ (sharedPending[x] = "In" /\ i < Len(toClient) => toClient[i + 1] = Payload(x))
      BY <1>8, <2>1, <3>1 DEF DataFollowsHeader
    <3>3. i < k => i < Len(toClient) /\ toClient'[i + 1] = toClient[i + 1]
      BY <1>3, <3>1
    <3>4. QED
      BY <3>2, <3>3
  <2>2. rdPc = "data" /\ toClient' # <<>> => toClient'[1] = Payload(rdMsg.seq)
    BY <1>8, <1>3 DEF DataFollowsHeader
  <2>3. QED
    BY <1>1, <1>3, <1>5, <2>1, <2>2 DEF DataFollowsHeader
<1>9. ASSUME UrbAccounts PROVE UrbAccounts'
  <2>1. ASSUME NEW i \in Answers("RET_SUBMIT")', NEW x, x = toClient'[i].seq
        PROVE  Done(x)' /\ sharedPending'[x] # NoEntry
    BY <1>1, <1>4, <1>5, <1>9, <2>1 DEF UrbAccounts
  <2>2. \A i, j \in Answers("RET_SUBMIT")' : toClient'[i].seq = toClient'[j].seq => i = j
    BY <1>4, <1>9 DEF UrbAccounts
  <2>3. QED
    BY <1>1, <1>9, <2>1, <2>2 DEF UrbAccounts
<1>10. ASSUME UnlinkAccounts PROVE UnlinkAccounts'
  <2>1. \A x : Cancelled(x) => Cancelled(x)'
    BY <1>4, <1>5 DEF Cancelled
  <2>2. ASSUME NEW i \in Answers("RET_UNLINK")', NEW u, u = toClient'[i].seq,
               NEW s, s = sharedUnlinks[u]
        PROVE  UnlinkDone(u) /\ s # NoEntry /\ (toClient'[i].reset => Cancelled(s))
    BY <1>4, <1>10, <2>2 DEF UnlinkAccounts
  <2>3. ASSUME NEW i \in Answers("RET_UNLINK")', NEW u, u = toClient'[i].seq
        PROVE  /\ UnlinkDone(u)' /\ sharedUnlinks'[u] # NoEntry
               /\ toClient'[i].reset => Cancelled(sharedUnlinks[u])'
    BY <1>1, <1>6, <2>1, <2>2, <2>3
  <2>4. /\ \A i \in Answers("RET_UNLINK")' : \A r \in unlinkReqs : toClient'[i].seq # r.seq
        /\ \A i, j \in Answers("RET_UNLINK")' : toClient'[i].seq = toClient'[j].seq => i = j
    BY <1>4, <1>10 DEF UnlinkAccounts
  <2>5. \A r \in unlinkReqs : UnlinkDone(r.seq)'
    BY <1>6, <1>10 DEF UnlinkAccounts
  <2>6. QED
    BY <1>1, <1>10, <2>3, <2>4, <2>5 DEF UnlinkAccounts
<1>11. ASSUME HeaderBeforeData PROVE HeaderBeforeData'
  <2>1. Answers("unknown")' = {}
    BY <1>4, <1>11 DEF HeaderBeforeData
  <2>2. ASSUME NEW i \in Answers("payload")'
        PROVE  /\ i = 1 => rdPc = "data"
               /\ i > 1 => /\ toClient'[i - 1].type = "RET_SUBMIT" /\ toClient'[i - 1].len = 1
                           /\ sharedPending'[toClient'[i - 1].seq] = "In"
    <3>1. i \in Answers("payload") /\ i \in 1 .. k /\ (i > 1 => i - 1 \in 1 .. k)
      BY <1>3, <1>4
    <3>2. QED
      BY <1>1, <1>3, <1>11, <3>1 DEF HeaderBeforeData
  <2>3. QED
    BY <1>1, <2>1, <2>2 DEF HeaderBeforeData
<1>12. NothingLeft'
  BY <1>1 DEF NothingLeft
<1>13. QED
  BY <1>1, <1>7, <1>8, <1>9, <1>10, <1>11, <1>12 DEF Accounts, Balanced

-----------------------------------------------------------------------------
LEMMA AccountsInit == ASSUME NEW m \in {"whole", "split"}, InitConn(m) PROVE Accounts
<1>1. /\ wrPc = "idle" /\ rdPc = "idle" /\ toClient = <<>> /\ unlinkReqs = {}
      /\ \A s \in Seqnum : /\ sharedPending[s] = NoEntry /\ sharedUnlinks[s] = NoEntry
                           /\ urbs[s] = NoEntry
  BY DEF InitConn, Nothing
<1>2. ~Sending("submit") /\ ~Sending("unlink")
  BY <1>1 DEF Sending
<1>3. \A type : Answers(type) = {}
  BY <1>1 DEF Answers
<1>4. Numbers /\ DataFollowsHeader
  BY <1>1, <1>2, <1>3 DEF Numbers, DataFollowsHeader
<1>5. UrbAccounts /\ UnlinkAccounts
  BY <1>1, <1>2, <1>3 DEF UrbAccounts, UnlinkAccounts
<1>6. HeaderBeforeData /\ NothingLeft
  BY <1>1, <1>3 DEF HeaderBeforeData, NothingLeft
<1>7. QED
  BY <1>4, <1>5, <1>6 DEF Accounts, Balanced

LEMMA AccountsStep ==
  ASSUME OverflowChecks PROVE TypeOK /\ Accounts /\ [Next]_clientVars => Accounts'
<1> SUFFICES ASSUME TypeOK, Accounts, [Next]_clientVars PROVE Accounts'
  OBVIOUS
<1>1. ASSUME UNCHANGED clientVars \/ AllocPanic \/ IntoSplit \/ WriteFails \/ RecvCall
               \/ RecvReturn \/ RecvEof
      PROVE  Accounts'
  BY <1>1, QuietStep
<1>2. ASSUME NEW c \in Commands, ConnSend(c) \/ Send(c) PROVE Accounts'
  BY <1>2, ConnSendStep, SendStep
<1>3. CASE WriteCmd \/ Cleanup
  BY <1>3, WriteStep, CleanupStep
<1>4. CASE RecvRetSubmit \/ RecvRetUnlink \/ RecvData \/ RecvGarbage
  BY <1>4, RetSubmitStep, RetUnlinkStep, DataStep, StraysStep
<1>5. CASE Server \/ ServerStrays \/ ConnLost
  BY <1>5, CompletesStep, UnlinksStep, StraysStep, LostStep DEF Server
<1>6. QED
  BY <1>1, <1>2, <1>3, <1>4, <1>5 DEF Next, Recv

(* What the accounts say to recv and to the owner of the maps.               *)
LEMMA AccountsImply ==
  TypeOK /\ Accounts => NoFalseRejection /\ Framed /\ NoLeakedEntry
<1> SUFFICES ASSUME TypeOK, Accounts PROVE NoFalseRejection /\ Framed /\ NoLeakedEntry
  OBVIOUS
<1>1. NoFalseRejection
  BY DEF Accounts, Balanced, UrbAccounts, NoFalseRejection
<1>2. Framed
  <2>1. ASSUME toClient # <<>>
        PROVE  Head(toClient) = toClient[1] /\ 1 \in DOMAIN toClient
    BY <2>1, EmptySeq DEF TypeOK
  <2>2. QED
    BY <2>1 DEF Accounts, Balanced, DataFollowsHeader, HeaderBeforeData, Answers, Framed
<1>3. NoLeakedEntry
  BY DEF Accounts, Balanced, NothingLeft, NoLeakedEntry, Sending
<1>4. QED
  BY <1>1, <1>2, <1>3

LEMMA AccountsCorrect == ASSUME OverflowChecks PROVE Spec => [](TypeOK /\ Accounts)
<1>1. Init => TypeOK /\ Accounts
  BY ClientTypeInit, AccountsInit DEF Init
<1>2. TypeOK /\ Accounts /\ [Next]_clientVars => (TypeOK /\ Accounts)'
  BY ClientTypeStep, AccountsStep
<1>3. QED
  BY <1>1, <1>2, PTL DEF Spec

(* While numbers do not wrap and the server answers only what it was asked,  *)
(* no RET_SUBMIT is ever refused as one for an unknown seqnum                *)
(* (client.rs:334), whatever was unlinked or failed to be written.           *)
THEOREM NoAnswerRejected == ASSUME OverflowChecks PROVE Spec => []NoFalseRejection
BY AccountsCorrect, AccountsImply, PTL

(* While numbers do not wrap and the server answers only what it was asked,  *)
(* recv stays in step with the stream (client.rs:341): it reads data where   *)
(* there is some and a header everywhere else.                               *)
THEOREM StreamStaysFramed == ASSUME OverflowChecks PROVE Spec => []Framed
BY AccountsCorrect, AccountsImply, PTL

(* Neither map keeps an entry whose answer can no longer come                *)
(* (client.rs:365), as long as the connection is up.                         *)
THEOREM NoEntryLeaks == ASSUME OverflowChecks PROVE Spec => []NoLeakedEntry
BY AccountsCorrect, AccountsImply, PTL
=============================================================================
