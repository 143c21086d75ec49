-------------------------- MODULE GadgetHostProofs --------------------------
(***************************************************************************)
(* Theorems about GadgetBridge and a host of some patience.  What each one  *)
(* asks of the host is an assumption of its own.                           *)
(***************************************************************************)
EXTENDS GadgetBridgeProofs

-----------------------------------------------------------------------------
(* What the steps leave alone.                                              *)

\* What main and the host see of a step of a thread, and what they do not.
LEMMA ThreadsApart ==
  ASSUME TypeInv, NEW t \in EpThreads, EpStep(t) \/ DeviceStep(t)
  PROVE  /\ UNCHANGED <<mainVars, hostVars, devCfg, connUp>>
         /\ \A u \in Callers \ {t} : /\ phase'[u] = phase[u] /\ carriedOut'[u] = carriedOut[u]
                                     /\ status'[u] = status[u]
<1> USE DEF TypeInv, GadgetTypeOK, Bridge!TypeOK, OutsideTypeOK
<1>1. t \in Callers
  BY DEF Callers
<1>2. CASE EpStep(t)
  BY <1>1, <1>2
     DEF EpStep, EpSubmit, EpAnswered, EpFailed, EpWrite, EpRead, EpIoError, EpGoto, Returns, callVars,
         devVars, Bridge!Call, Bridge!Return, Bridge!Move
<1>3. CASE DeviceStep(t)
  BY <1>1, <1>3
     DEF DeviceStep, DeviceSends, DeviceReceives, DeviceRefuses, DeviceServes, Bridge!CarryOut
<1>4. QED
  BY <1>2, <1>3

LEMMA MainOrHost ==
  TypeInv /\ [Next]_vars => MainStep \/ HostStep \/ UNCHANGED <<mainVars, hostVars>>
BY ThreadsApart
   DEF Next, vars, ConnLost, DeviceControl, DeviceServes, AnswerArrives, CallsFail

-----------------------------------------------------------------------------
(* The host waits.  A request is on its way to main or in main's hands, not  *)
(* both, and main's next answer is one to that request.                     *)

Places ==
  /\ mainPc = "data" => HasDataStage(ctrl)
  /\ mainPc = "write" => ctrl.in
  /\ mainPc = "ack" => ~IsSetConfig(ctrl) /\ (ctrl.in => ctrl.name = "SET_ADDRESS")

OneAtATime ==
  /\ Answering => hostReq = ctrl /\ events = <<>>
  /\ \A i \in DOMAIN events :
       events[i].type = "Control" => i = Len(events) /\ hostReq = events[i].req

PatienceInv == Places /\ OneAtATime

(* What main takes off the queue is the first event of it, and a request is  *)
(* the last one too.                                                        *)
LEMMA Fetched ==
  ASSUME TypeInv, OneAtATime, NEW type, Fetch(type)
  PROVE  /\ mainPc = "fetch" /\ 1 \in DOMAIN events /\ events[1] = Head(events)
         /\ Head(events) \in Event /\ Head(events).type = type
         /\ DOMAIN events' = 1 .. Len(events')
         /\ Len(events) \in Nat /\ Len(events') = Len(events) - 1
         /\ \A i \in DOMAIN events' : i + 1 \in DOMAIN events /\ events'[i] = events[i + 1]
         /\ type = "Control" => events' = <<>> /\ hostReq = Head(events).req /\ Len(events) = 1
<1>1. events \in Seq(Event) /\ events # <<>> /\ events' = Tail(events)
  BY DEF TypeInv, GadgetTypeOK, OutsideTypeOK, Fetch
<1>2. /\ Head(events) = events[1] /\ Head(events) \in Event
      /\ events' \in Seq(Event) /\ Len(events') = Len(events) - 1
      /\ \A i \in 1 .. Len(events') : events'[i] = events[i + 1]
  BY <1>1, HeadTailProperties
<1>3. /\ DOMAIN events = 1 .. Len(events) /\ Len(events) \in Nat /\ Len(events) > 0
      /\ DOMAIN events' = 1 .. Len(events')
  BY <1>1, <1>2, LenProperties, EmptySeq
<1>4. type = "Control" => Len(events) = 1 /\ hostReq = Head(events).req
  BY <1>2, <1>3 DEF OneAtATime, Fetch
<1>5. type = "Control" => events' = <<>>
  <2>1. Len(events') = Len(events) - 1 /\ events' \in Seq(Event)
    BY <1>2
  <2>2. Len(events) = 1 => Len(events') = 0
    BY <2>1
  <2>3. QED
    BY <1>4, <2>1, <2>2, EmptySeq
<1>6. QED
  BY <1>2, <1>3, <1>4, <1>5 DEF Fetch, MainAt

(* What the host queues comes last.                                         *)
LEMMA Queued ==
  ASSUME TypeInv, HostStep
  PROVE  \E e \in Event :
           /\ DOMAIN events = 1 .. Len(events) /\ Len(events) \in Nat
           /\ Len(events') = Len(events) + 1 /\ DOMAIN events' = 1 .. Len(events')
           /\ \A i \in DOMAIN events : events'[i] = events[i]
           /\ events'[Len(events')] = e
           /\ \/ HostRequest(e.req) /\ e.req \in Requests /\ e.type = "Control"
              \/ HostDrops /\ e.type = "Down"
              \/ HostNotice /\ e.type = "Notice"
<1>1. events \in Seq(Event)
  BY DEF TypeInv, GadgetTypeOK, OutsideTypeOK
<1>2. /\ DOMAIN events = 1 .. Len(events) /\ Len(events) \in Nat
      /\ \A e \in Event :
           /\ Len(Append(events, e)) = Len(events) + 1
           /\ DOMAIN Append(events, e) = 1 .. Len(Append(events, e))
           /\ \A i \in DOMAIN events : Append(events, e)[i] = events[i]
           /\ Append(events, e)[Len(events) + 1] = e
  BY <1>1, AppendProperties, LenProperties
<1>3. ASSUME NEW r \in Requests, HostRequest(r)
      PROVE  /\ [type |-> "Control", req |-> r] \in Event
             /\ events' = Append(events, [type |-> "Control", req |-> r])
  BY <1>3 DEF HostRequest, Event
<1>4. CASE HostDrops
  <2>1. [type |-> "Down", req |-> None] \in Event
    BY DEF Event
  <2>2. QED
    BY <1>2, <1>4, <2>1 DEF HostDrops
<1>5. CASE HostNotice
  <2>1. [type |-> "Notice", req |-> None] \in Event
    BY DEF Event
  <2>2. events' = Append(events, [type |-> "Notice", req |-> None])
    BY <1>5, <2>1 DEF HostNotice
  <2>3. QED
    BY <1>2, <1>5, <2>1, <2>2
<1>6. CASE \E r \in Requests : HostRequest(r)
  <2>1. PICK r \in Requests : HostRequest(r)
    BY <1>6
  <2>2. [type |-> "Control", req |-> r] \in Event
    BY <1>3, <2>1
  <2>3. QED
    BY <1>2, <1>3, <2>1, <2>2
<1>7. QED
  BY <1>4, <1>5, <1>6 DEF HostStep

LEMMA PatienceInit == Init => PatienceInv
BY DEF Init, PatienceInv, Places, OneAtATime, Answering

LEMMA PatienceStep ==
  ASSUME HostGivesUp = {}, TypeInv, PatienceInv, [Next]_vars
  PROVE  PatienceInv'
<1> USE DEF PatienceInv
<1>1. CASE UNCHANGED <<mainVars, hostVars>>
  BY <1>1 DEF mainVars, hostVars, Places, OneAtATime, Answering
<1>2. CASE HostStep
  <2>1. hostReq = None /\ UNCHANGED mainVars
    BY <1>2 DEF HostStep, HostRequest, HostDrops, HostNotice, HostActs
  <2>2. ~Answering
    <3>1. Answering => ctrl \in Requests
      BY DEF Answering, TypeInv, GadgetTypeOK, MainTypeOK
    <3>2. QED
      BY <2>1, <3>1, GadgetAssumption DEF OneAtATime
  <2>3. \A i \in DOMAIN events : events[i].type # "Control"
    <3>1. events \in Seq(Event)
      BY DEF TypeInv, GadgetTypeOK, OutsideTypeOK
    <3>2. \A i \in DOMAIN events : events[i].type = "Control" => events[i].req \in Requests
      BY <3>1 DEF Event
    <3>3. QED
      BY <2>1, <3>2, GadgetAssumption DEF OneAtATime
  <2>4. ~Answering' /\ Places'
    BY <2>1, <2>2 DEF mainVars, Answering, Places
  <2>5. OneAtATime'
    <3>1. PICK e \in Event :
            /\ DOMAIN events = 1 .. Len(events) /\ Len(events) \in Nat
            /\ Len(events') = Len(events) + 1 /\ DOMAIN events' = 1 .. Len(events')
            /\ \A i \in DOMAIN events : events'[i] = events[i]
            /\ events'[Len(events')] = e
            /\ e.type = "Control" => hostReq' = e.req
      BY <1>2, Queued DEF HostRequest
    <3>2. QED
      BY <2>3, <2>4, <3>1 DEF OneAtATime
  <2>6. QED
    BY <2>4, <2>5
<1>3. CASE MainStep
  <2>1. ctrl # None => ctrl \in Requests
    BY DEF TypeInv, GadgetTypeOK, MainTypeOK
  <2>2. CASE FetchControl
    <3>1. /\ events' = <<>> /\ hostReq' = hostReq /\ hostReq = ctrl'
          /\ DOMAIN events' = {}
      BY <2>2, Fetched DEF FetchControl, Fetch
    <3>2. Places'
      BY <2>2 DEF FetchControl, Places, IsSetConfig
    <3>3. QED
      BY <3>1, <3>2 DEF OneAtATime
  <2>3. CASE FetchDown \/ FetchNotice
    <3>1. mainPc' \in {"join", "fetch"}
      BY <2>3 DEF FetchDown, FetchNotice, Go, Done
    <3>2. \A i \in DOMAIN events' :
            events'[i].type = "Control" => i = Len(events') /\ hostReq' = events'[i].req
      BY <2>3, Fetched DEF FetchDown, FetchNotice, Fetch, OneAtATime
    <3>3. QED
      BY <3>1, <3>2 DEF Places, OneAtATime, Answering
  <2>4. CASE ReadData \/ Reply
    <3>1. Answering
      BY <2>4 DEF ReadData, Reply, MainAt, Answering
    <3>2. events = <<>> /\ events' = events
      BY <2>4, <3>1 DEF ReadData, Reply, HostServed, HostStalled, hostVars, OneAtATime
    <3>3. ~Answering' /\ Places'
      BY <2>4 DEF ReadData, Reply, MainAt, Go, Done, Exit, Answering, Places
    <3>4. QED
      BY <3>2, <3>3 DEF OneAtATime
  <2>5. CASE MainSubmit \/ MainFailed \/ ReplyFails \/ Enable \/ Spawn \/ Join
    <3>1. UNCHANGED hostVars /\ (Answering' => Answering /\ ctrl' = ctrl) /\ Places'
      BY <2>5 DEF MainSubmit, MainFailed, ReplyFails, Enable, Spawn, Join, MainAt, Go, Done, Exit,
                  Answering, Places
    <3>2. QED
      BY <3>1 DEF OneAtATime, hostVars
  <2>6. CASE MainAnswered
    <3>1. /\ mainPc = "wait" /\ UNCHANGED hostVars
          /\ mainPc' = AfterAnswer(ctrl, status[Main] = "ok")
          /\ mainPc' # "fetch" => ctrl' = ctrl
      BY <2>6 DEF MainAnswered, MainAt
    <3>2. mainPc' # "fetch" => ~HasDataStage(ctrl)
      BY <3>1 DEF AfterAnswer
    <3>3. (Answering' => Answering /\ ctrl' = ctrl) /\ Places'
      BY <3>1, <3>2 DEF AfterAnswer, Refused, OnRefusal, Answering, Places
    <3>4. QED
      BY <3>1, <3>3 DEF OneAtATime, hostVars
  <2>7. QED
    BY <1>3, <2>2, <2>3, <2>4, <2>5, <2>6 DEF MainStep
<1>4. QED
  BY <1>1, <1>2, <1>3, MainOrHost

-----------------------------------------------------------------------------
(* Host and device agree on the configuration but while main sets one: then *)
(* the device has it first, and the host waits.                             *)

\* Main has a SET_CONFIGURATION of the host in its hands, and the device took it.
Setting == mainPc \in {"submit", "wait", "stall", "enable", "ackConfig"} /\ SetsConfig(ctrl)
Taken ==
  \/ mainPc = "wait" /\ carriedOut[Main] /\ status[Main] = "ok"
  \/ mainPc \in {"enable", "ackConfig"}

Agreed == hostCfg # None => devCfg = hostCfg

\* A host whose request main left unanswered when it ended waits for ever.
LeftWaiting == ~Running /\ hostReq # None /\ SetsConfig(hostReq)

AgreeInv ==
  /\ Setting /\ Taken => devCfg = ctrl.cfg
  /\ ~(Setting /\ Taken) => Agreed \/ LeftWaiting
  /\ phase[Main] = "answered" => carriedOut[Main]

LEMMA AgreeInit == Init => AgreeInv
BY DEF Init, AgreeInv, Setting, Taken, Agreed, Bridge!Init, Callers

(* While the host waits for a SET_CONFIGURATION, main has just that request. *)
LEMMA SettingAnswers ==
  ASSUME TypeInv, PatienceInv, Setting
  PROVE  /\ Running /\ hostReq = ctrl /\ ctrl # None /\ ~HasDataStage(ctrl) /\ events = <<>>
         /\ Answering
<1>1. ctrl \in Requests /\ ~HasDataStage(ctrl)
  BY GadgetAssumption
     DEF Setting, TypeInv, GadgetTypeOK, MainTypeOK, SetsConfig, IsSetConfig, HasDataStage, Request
<1>2. Running /\ Answering
  BY <1>1 DEF Setting, Running, Answering
<1>3. QED
  BY <1>1, <1>2, GadgetAssumption DEF PatienceInv, OneAtATime

LEMMA AgreeMainStep ==
  ASSUME TypeInv, PatienceInv, AgreeInv, MainStep
  PROVE  AgreeInv'
<1> USE DEF AgreeInv
<1>0. Main \in Callers /\ Bridge!TypeOK /\ status \in [Callers -> {"ok", "bad"}]
  BY DEF Callers, TypeInv, GadgetTypeOK, OutsideTypeOK
<1>1. CASE FetchControl \/ FetchDown \/ FetchNotice
  <2>1. ~Setting /\ Running /\ UNCHANGED <<callVars, devVars, hostReq, hostCfg>>
    BY <1>1 DEF FetchControl, FetchDown, FetchNotice, Fetch, MainAt, Setting, Running
  <2>2. ~Taken'
    BY <1>1 DEF FetchControl, FetchDown, FetchNotice, Go, Done, Taken
  <2>3. QED
    BY <2>1, <2>2 DEF callVars, devVars, Agreed, LeftWaiting
<1>2. CASE ReadData
  <2>1. ~Setting /\ ~Taken' /\ Running
    BY <1>2 DEF ReadData, MainAt, Go, Exit, Setting, Taken, Running
  <2>2. hostReq # None /\ hostReq' = None => hostCfg' = hostCfg
    <3>1. hostReq = ctrl /\ HasDataStage(ctrl)
      BY <1>2 DEF ReadData, MainAt, PatienceInv, Places, OneAtATime, Answering
    <3>2. ctrl \in Requests
      BY <1>2 DEF ReadData, MainAt, TypeInv, GadgetTypeOK, MainTypeOK
    <3>3. ~SetsConfig(hostReq)
      BY <3>1, <3>2, GadgetAssumption DEF SetsConfig, IsSetConfig, HasDataStage, Request
    <3>4. QED
      BY <1>2, <3>3 DEF ReadData, HostServed, hostVars
  <2>3. QED
    BY <1>2, <2>1, <2>2
       DEF ReadData, HostServed, hostVars, callVars, devVars, Agreed, LeftWaiting
<1>3. CASE MainSubmit
  <2>1. ~Taken /\ ~Taken' /\ Running /\ Running'
    BY <1>0, <1>3 DEF MainSubmit, MainAt, Go, Taken, Running, Bridge!Call, TypeInv, CallsOfMain
  <2>2. phase'[Main] = "open"
    BY <1>0, <1>3 DEF MainSubmit, Bridge!Call, Bridge!Move, Bridge!TypeOK
  <2>3. QED
    BY <1>3, <2>1, <2>2 DEF MainSubmit, devVars, hostVars, Agreed, LeftWaiting
<1>4. CASE MainAnswered
  <2>1. /\ mainPc = "wait" /\ phase[Main] = "answered" /\ phase'[Main] = "idle"
        /\ UNCHANGED <<devCfg, hostVars>>
    BY <1>0, <1>4
       DEF MainAnswered, MainAt, Returns, Bridge!Return, Bridge!Move, Bridge!TypeOK
  <2>2. /\ mainPc' = AfterAnswer(ctrl, status[Main] = "ok")
        /\ ctrl' = IF mainPc' = "fetch" THEN None ELSE ctrl
    BY <1>4 DEF MainAnswered
  <2>3. mainPc' \in {"fetch", "stall", "enable", "write", "ack"}
    BY <2>2 DEF AfterAnswer, OnRefusal
  <2>4. CASE SetsConfig(ctrl)
    <3>1. Setting
      BY <2>1, <2>4 DEF Setting
    <3>2. ~HasDataStage(ctrl)
      BY <3>1, SettingAnswers
    <3>3. CASE status[Main] = "ok"
      <4>1. mainPc' = "enable"
        BY <2>2, <2>4, <3>2, <3>3 DEF AfterAnswer, Refused, SetsConfig
      <4>2. Taken
        BY <2>1, <3>3 DEF Taken
      <4>3. QED
        BY <2>1, <2>2, <2>4, <3>1, <4>1, <4>2 DEF Setting, Taken
    <3>4. CASE status[Main] # "ok"
      <4>1. mainPc' = "stall"
        BY <2>2, <3>2, <3>4 DEF AfterAnswer, Refused, OnRefusal
      <4>2. ~Taken /\ ~Taken' /\ Running
        BY <2>1, <3>4, <4>1 DEF Taken, Running
      <4>3. QED
        BY <2>1, <4>2 DEF Agreed, hostVars, LeftWaiting
    <3>5. QED
      BY <3>3, <3>4
  <2>5. CASE ~SetsConfig(ctrl)
    <3>1. ~Setting /\ ~(Setting' /\ Taken')
      BY <2>2, <2>3, <2>5 DEF Setting, Taken
    <3>2. QED
      BY <2>1, <3>1 DEF Agreed, hostVars, LeftWaiting, Running
  <2>6. QED
    BY <2>4, <2>5
<1>5. CASE MainFailed
  <2>1. /\ mainPc = "wait" /\ mainPc' = "exited" /\ phase'[Main] = "idle"
        /\ UNCHANGED <<devCfg, hostVars>>
    BY <1>0, <1>5
       DEF MainFailed, MainAt, Exit, Returns, Bridge!Return, Bridge!Move, Bridge!TypeOK
  <2>2. ~Taken'
    BY <2>1 DEF Taken
  <2>3. CASE Setting
    BY <2>1, <2>2, <2>3, SettingAnswers DEF LeftWaiting, Setting, Running, hostVars
  <2>4. CASE ~Setting
    BY <2>1, <2>2, <2>4 DEF Agreed, LeftWaiting, Running, hostVars
  <2>5. QED
    BY <2>3, <2>4
<1>6. CASE Reply
  <2>1. UNCHANGED <<callVars, devCfg>> /\ Running /\ ~Taken'
    BY <1>6 DEF Reply, MainAt, Go, Done, devVars, Running, Taken
  <2>2. hostReq = ctrl
    BY <1>6 DEF Reply, MainAt, PatienceInv, OneAtATime, Answering
  <2>3. CASE MainAt("stall")
    <3>1. ~Taken /\ hostCfg' = hostCfg
      BY <1>6, <2>3 DEF Reply, MainAt, HostStalled, Taken
    <3>2. QED
      BY <2>1, <3>1 DEF callVars, Agreed, LeftWaiting
  <2>4. CASE MainAt("ackConfig")
    <3>1. CASE SetsConfig(ctrl)
      <4>1. Setting /\ Taken
        BY <2>4, <3>1 DEF MainAt, Setting, Taken
      <4>2. hostCfg' = ctrl.cfg
        BY <1>6, <2>2, <2>4, <3>1 DEF Reply, MainAt, HostServed
      <4>3. QED
        BY <2>1, <4>1, <4>2 DEF callVars, Agreed
    <3>2. CASE ~SetsConfig(ctrl)
      <4>1. ~Setting /\ hostCfg' = hostCfg
        BY <1>6, <2>2, <2>4, <3>2 DEF Reply, MainAt, HostServed, Setting
      <4>2. QED
        BY <2>1, <4>1 DEF callVars, Agreed, LeftWaiting
    <3>3. QED
      BY <3>1, <3>2
  <2>5. CASE MainAt("write") \/ MainAt("ack")
    <3>1. ctrl \in Requests /\ ~SetsConfig(ctrl)
      BY <2>5 DEF MainAt, TypeInv, GadgetTypeOK, MainTypeOK, PatienceInv, Places, SetsConfig,
                  IsSetConfig
    <3>2. ~Setting /\ hostCfg' = hostCfg
      BY <1>6, <2>2, <2>5, <3>1 DEF Reply, MainAt, HostServed, Setting
    <3>3. QED
      BY <2>1, <3>2 DEF callVars, Agreed, LeftWaiting
  <2>6. QED
    BY <1>6, <2>3, <2>4, <2>5 DEF Reply
<1>7. CASE ReplyFails
  <2>1. UNCHANGED <<callVars, devCfg, hostVars>> /\ Running /\ mainPc' = "exited"
    BY <1>7 DEF ReplyFails, MainAt, Exit, devVars, Running
  <2>2. CASE Setting
    BY <2>1, <2>2, SettingAnswers DEF LeftWaiting, Setting, Running, hostVars, callVars
  <2>3. CASE ~Setting
    BY <2>1, <2>3 DEF Agreed, LeftWaiting, Running, hostVars, callVars, Setting
  <2>4. QED
    BY <2>2, <2>3
<1>8. CASE Enable
  <2>1. /\ UNCHANGED <<callVars, devCfg, hostVars>> /\ mainPc = "enable"
        /\ mainPc' = "exited" \/ (mainPc' = "ackConfig" /\ ctrl' = ctrl)
    BY <1>8 DEF Enable, MainAt, Go, Exit, devVars
  <2>2. CASE Setting
    BY <2>1, <2>2, SettingAnswers DEF LeftWaiting, Setting, Taken, Running, hostVars, callVars
  <2>3. CASE ~Setting
    BY <2>1, <2>3 DEF Agreed, LeftWaiting, Running, hostVars, callVars, Setting
  <2>4. QED
    BY <2>2, <2>3
<1>9. CASE Spawn \/ Join
  <2>1. /\ UNCHANGED <<callVars, devCfg, hostVars>> /\ mainPc \in {"spawn", "join"}
        /\ mainPc' = "fetch"
    BY <1>9 DEF Spawn, Join, MainAt, Done, devVars
  <2>2. QED
    BY <2>1 DEF Agreed, LeftWaiting, Running, hostVars, callVars, Setting
<1>10. QED
  BY <1>1, <1>2, <1>3, <1>4, <1>5, <1>6, <1>7, <1>8, <1>9 DEF MainStep
LEMMA AgreeStep ==
  ASSUME HostGivesUp = {}, TypeInv, PatienceInv, AgreeInv, [Next]_vars
  PROVE  AgreeInv'
<1> USE DEF AgreeInv
<1>0. Main \in Callers /\ Bridge!TypeOK /\ status \in [Callers -> {"ok", "bad"}]
  BY DEF Callers, TypeInv, GadgetTypeOK, OutsideTypeOK
<1>1. CASE UNCHANGED vars \/ ConnLost
  BY <1>1 DEF vars, mainVars, callVars, devVars, hostVars, ConnLost, Setting, Taken, Agreed,
              LeftWaiting, Running
<1>2. CASE HostStep
  <2>1. /\ UNCHANGED <<mainVars, callVars, devVars>> /\ Running
        /\ hostCfg' \in {hostCfg, None}
    BY <1>2 DEF HostStep, HostRequest, HostDrops, HostNotice, HostActs
  <2>2. QED
    BY <2>1 DEF mainVars, callVars, devVars, Setting, Taken, Agreed, LeftWaiting, Running
<1>3. ASSUME NEW t \in EpThreads, EpStep(t) \/ DeviceStep(t) PROVE AgreeInv'
  <2>1. t # Main
    BY GadgetAssumption
  <2>2. QED
    BY <1>0, <1>3, <2>1, ThreadsApart
       DEF mainVars, hostVars, Setting, Taken, Agreed, LeftWaiting, Running
<1>4. CASE DeviceControl
  <2>1. /\ mainPc = "wait" /\ UNCHANGED <<mainVars, hostVars, phase>>
        /\ ~carriedOut[Main] /\ phase[Main] # "answered"
    BY <1>0, <1>4 DEF DeviceControl, DeviceServes, Running, Bridge!CarryOut, TypeInv, CallsOfMain
  <2>2. PICK s \in {"ok", "bad"} :
          /\ status' = [status EXCEPT ![Main] = s]
          /\ devCfg' = IF s = "ok" /\ SetsConfig(ctrl) THEN ctrl.cfg ELSE devCfg
    BY <1>4 DEF DeviceControl
  <2>3. status'[Main] = s /\ carriedOut'[Main]
    BY <1>0, <1>4, <2>2 DEF DeviceControl, DeviceServes, Bridge!CarryOut, Bridge!TypeOK
  <2>4. ~Taken /\ Running
    BY <2>1 DEF Taken, Running
  <2>5. QED
    BY <2>1, <2>2, <2>3, <2>4 DEF mainVars, hostVars, Setting, Taken, Agreed, LeftWaiting, Running
<1>5. ASSUME NEW t \in Callers, AnswerArrives(t) PROVE AgreeInv'
  BY <1>0, <1>5 DEF AnswerArrives, Bridge!Answer, Bridge!Move, Bridge!TypeOK, mainVars, devVars,
                    hostVars, Setting, Taken, Agreed, LeftWaiting, Running
<1>6. ASSUME NEW T \in SUBSET Callers, CallsFail(T) PROVE AgreeInv'
  BY <1>0, <1>6 DEF CallsFail, Bridge!Fail, mainVars, devVars, hostVars, Setting, Taken, Agreed,
                    LeftWaiting, Running
<1>7. CASE MainStep
  BY <1>7, AgreeMainStep
<1>8. QED
  BY <1>1, <1>2, <1>3, <1>4, <1>5, <1>6, <1>7 DEF Next

(* A host that waits for its answers has the configuration the device has:   *)
(* SET_CONFIGURATION is acknowledged after the device took it and only then  *)
(* (main.rs:456, 498), whatever the requests and however the device answers. *)
THEOREM HostAgrees ==
  ASSUME HostGivesUp = {} PROVE Spec => []HostAgreesWithDevice
<1>1. Init => TypeInv /\ PatienceInv /\ AgreeInv
  BY TypeInit, PatienceInit, AgreeInit
<1>2. TypeInv /\ PatienceInv /\ AgreeInv /\ [Next]_vars => (TypeInv /\ PatienceInv /\ AgreeInv)'
  BY TypeStep, PatienceStep, AgreeStep
<1>3. TypeInv /\ PatienceInv /\ AgreeInv => HostAgreesWithDevice
  BY SettingAnswers DEF AgreeInv, Agreed, LeftWaiting, Setting, HostAgreesWithDevice
<1>4. QED
  BY <1>1, <1>2, <1>3, PTL DEF Spec
-----------------------------------------------------------------------------
(* What a host that waits learns from main, and when.                       *)

\* The host gets the answer to ctrl, the request it waits for.
Replies(pc, next) ==
  /\ mainPc = pc /\ mainPc' = next
  /\ hostReq = ctrl /\ hostReq' = None /\ events = <<>> /\ events' = events

LEMMA WhatHostLearns ==
  ASSUME TypeInv, PatienceInv, MainStep
  PROVE  \/ UNCHANGED <<hostReq, hostCfg, hostRead>>
         \/ /\ Replies("data", "submit") \/ Replies("ack", "fetch") \/ Replies("stall", "fetch")
            /\ UNCHANGED <<hostCfg, hostRead>>
         \/ /\ Replies("write", "fetch") /\ hostCfg' = hostCfg
            /\ hostRead' = IF IsGetConfig(ctrl) THEN Contents(ctrl) ELSE hostRead
         \/ /\ Replies("ackConfig", "spawn") /\ hostRead' = hostRead /\ ctrl' = ctrl
            /\ hostCfg' = IF SetsConfig(ctrl) THEN ctrl.cfg ELSE hostCfg
<1>1. CASE ReadData \/ Reply
  <2>1. Answering /\ hostReq = ctrl /\ events = <<>>
    BY <1>1 DEF ReadData, Reply, MainAt, PatienceInv, OneAtATime, Answering
  <2>2. ctrl \in Requests /\ ctrl \in Request
    BY <2>1, GadgetAssumption DEF Answering, TypeInv, GadgetTypeOK, MainTypeOK
  <2>3. CASE ReadData
    <3>1. mainPc = "data" /\ HasDataStage(ctrl)
      BY <2>3 DEF ReadData, MainAt, PatienceInv, Places
    <3>2. ~SetsConfig(ctrl) /\ ~IsGetConfig(ctrl)
      BY <2>2, <3>1 DEF SetsConfig, IsSetConfig, IsGetConfig, HasDataStage, Request
    <3>3. QED
      BY <2>1, <2>3, <3>1, <3>2 DEF ReadData, HostServed, hostVars, Replies, Go, Exit
  <2>4. CASE Reply /\ MainAt("write")
    BY <2>1, <2>4 DEF Reply, MainAt, HostServed, Replies, Done, SetsConfig, IsSetConfig
  <2>5. CASE Reply /\ MainAt("ack")
    BY <2>1, <2>5
       DEF Reply, MainAt, HostServed, Replies, Done, SetsConfig, IsGetConfig, PatienceInv,
                      Places
  <2>6. CASE Reply /\ MainAt("ackConfig")
    BY <2>1, <2>6 DEF Reply, MainAt, HostServed, Replies, Go, IsGetConfig
  <2>7. CASE Reply /\ MainAt("stall")
    BY <2>1, <2>7 DEF Reply, MainAt, HostStalled, Replies, Done
  <2>8. QED
    BY <1>1, <2>3, <2>4, <2>5, <2>6, <2>7 DEF Reply
<1>2. CASE ~(ReadData \/ Reply)
  BY <1>2 DEF MainStep, FetchControl, FetchDown, FetchNotice, Fetch, MainSubmit, MainAnswered,
     MainFailed, ReplyFails, Enable, Spawn, Join, hostVars
<1>3. QED
  BY <1>1, <1>2

(* Events but those that are fetched stay in the queue.                      *)
LEMMA EventsStay ==
  ASSUME TypeInv, PatienceInv, MainStep
  PROVE  \/ UNCHANGED events
         \/ FetchControl \/ FetchDown \/ FetchNotice
BY DEF MainStep, ReadData, Reply, HostServed, HostStalled, MainSubmit, MainAnswered, MainFailed,
       ReplyFails, Enable, Spawn, Join, hostVars

(* Main turns to the threads once the host has the answer, and has a          *)
(* SET_CONFIGURATION in its hands only by taking it off the queue.           *)
LEMMA ToSpawn ==
  ASSUME TypeInv, PatienceInv, MainStep, mainPc' = "spawn"
  PROVE  Replies("ackConfig", "spawn")
<1>1. Reply /\ MainAt("ackConfig")
  BY DEF MainStep, FetchControl, FetchDown, FetchNotice, ReadData, MainSubmit, MainAnswered,
     AfterAnswer,
     OnRefusal, MainFailed, Reply, ReplyFails, Enable, Spawn, Join, MainAt, Go, Done, Exit
<1>2. mainPc = "ackConfig" /\ hostReq = ctrl /\ events = <<>>
  BY <1>1 DEF MainAt, PatienceInv, OneAtATime, Answering
<1>3. hostReq' = None /\ events' = events
  BY <1>1, <1>2 DEF Reply, MainAt, HostServed
<1>4. QED
  BY <1>2, <1>3 DEF Replies

LEMMA SettingStep ==
  ASSUME TypeInv, PatienceInv, MainStep, Setting'
  PROVE  Setting \/ FetchControl
<1>1. CASE ReadData
  <2>1. mainPc = "data" /\ HasDataStage(ctrl) /\ ctrl \in Request
    BY <1>1, GadgetAssumption
       DEF ReadData, MainAt, PatienceInv, Places, TypeInv, GadgetTypeOK, MainTypeOK
  <2>2. ~SetsConfig(ctrl)
    BY <2>1 DEF SetsConfig, IsSetConfig, HasDataStage, Request
  <2>3. QED
    BY <1>1, <2>2 DEF ReadData, Go, Exit, Setting
<1>2. CASE ~(ReadData \/ FetchControl)
  BY <1>2 DEF MainStep, FetchDown, FetchNotice, MainSubmit, MainAnswered, AfterAnswer, OnRefusal,
     MainFailed, Reply, ReplyFails, Enable, Spawn, Join, MainAt, Go, Done, Exit, Setting
<1>3. QED
  BY <1>1, <1>2

-----------------------------------------------------------------------------
(* After a reset the host has nothing until main has joined its threads.     *)

ResetPending == mainPc = "join" \/ \E i \in DOMAIN events : events[i].type = "Down"

ResetInv == ResetPending => hostCfg = None /\ hostRead = None

LEMMA ResetStep ==
  ASSUME HostGivesUp = {}, TypeInv, PatienceInv, ResetInv, [Next]_vars
  PROVE  ResetInv'
<1> USE DEF ResetInv, ResetPending
<1>1. CASE UNCHANGED <<mainVars, hostVars>>
  BY <1>1 DEF mainVars, hostVars
<1>2. CASE HostStep
  <2>1. PICK e \in Event :
          /\ DOMAIN events = 1 .. Len(events) /\ Len(events) \in Nat
          /\ Len(events') = Len(events) + 1 /\ DOMAIN events' = 1 .. Len(events')
          /\ \A i \in DOMAIN events : events'[i] = events[i]
          /\ events'[Len(events')] = e
          /\ \/ HostRequest(e.req) /\ e.req \in Requests /\ e.type = "Control"
             \/ HostDrops /\ e.type = "Down"
             \/ HostNotice /\ e.type = "Notice"
    BY <1>2, Queued
  <2>2. CASE HostDrops
    BY <2>2 DEF HostDrops
  <2>3. CASE ~HostDrops
    <3>1. e.type # "Down" /\ UNCHANGED <<mainPc, hostCfg, hostRead>>
      BY <2>1, <2>3 DEF HostRequest, HostNotice, HostActs, mainVars
    <3>2. ResetPending' => ResetPending
      BY <2>1, <3>1
    <3>3. QED
      BY <3>1, <3>2
  <2>4. QED
    BY <2>2, <2>3
<1>3. CASE MainStep
  <2>1. CASE FetchControl \/ FetchDown \/ FetchNotice
    <3>1. UNCHANGED <<hostCfg, hostRead>>
      BY <2>1 DEF FetchControl, FetchDown, FetchNotice, Fetch
    <3>2. ResetPending' => ResetPending
      BY <2>1, Fetched DEF PatienceInv, FetchControl, FetchDown, FetchNotice, Go, Done
    <3>3. QED
      BY <3>1, <3>2
  <2>2. CASE UNCHANGED events /\ ~FetchDown
    <3>1. mainPc' # "join"
      BY <1>3, <2>2 DEF MainStep, FetchControl, FetchNotice, ReadData, MainSubmit, MainAnswered,
         AfterAnswer, OnRefusal, MainFailed, Reply, ReplyFails, Enable, Spawn, Join, Go, Done, Exit
    <3>2. QED
      BY <1>3, <2>2, <3>1, WhatHostLearns DEF Replies
  <2>3. QED
    BY <1>3, <2>1, <2>2, EventsStay
<1>4. QED
  BY <1>1, <1>2, <1>3, MainOrHost
-----------------------------------------------------------------------------
(* The descriptor main has is the one the host read last, but while main is  *)
(* about to answer a read; a host that reads a configuration before it sets  *)
(* it finds it there.                                                       *)

Whole(c) == [cfg |-> c, full |-> TRUE]

CacheInv ==
  /\ hostRead # None /\ Running => cache = hostRead \/ (mainPc = "write" /\ IsGetConfig(ctrl))
  /\ mainPc = "write" /\ IsGetConfig(ctrl) => cache = Contents(ctrl)
  /\ \A i \in SetConfigsQueued : hostRead = Whole(events[i].req.cfg)
  /\ Setting => hostRead = Whole(ctrl.cfg)
  /\ mainPc \in Committed => cache = Whole(ctrl.cfg)

(* A host that is idle has no request in the queue.                          *)
LEMMA NothingAsked ==
  ASSUME TypeInv, PatienceInv, hostReq = None
  PROVE  SetConfigsQueued = {} /\ ~Setting /\ ~Answering
<1>1. \A i \in DOMAIN events : events[i].type # "Control"
  <2>1. events \in Seq(Event)
    BY DEF TypeInv, GadgetTypeOK, OutsideTypeOK
  <2>2. \A i \in DOMAIN events : events[i].type = "Control" => events[i].req \in Requests
    BY <2>1 DEF Event
  <2>3. QED
    BY <2>2, GadgetAssumption DEF PatienceInv, OneAtATime
<1>2. ~Answering
  BY GadgetAssumption
     DEF Answering, TypeInv, GadgetTypeOK, MainTypeOK, PatienceInv, OneAtATime
<1>3. QED
  BY <1>1, <1>2, SettingAnswers DEF SetConfigsQueued

(* What is done to the queue, as the requests that start threads see it.     *)
LEMMA QueueMainStep ==
  ASSUME TypeInv, PatienceInv, MainStep
  PROVE  /\ FetchControl => /\ SetConfigsQueued' = {} /\ events' = <<>>
                            /\ IsSetConfig(ctrl') => 1 \in SetConfigsQueued /\ events[1].req = ctrl'
         /\ \A i \in SetConfigsQueued' :
              \E j \in SetConfigsQueued : events[j].req = events'[i].req
<1> USE DEF SetConfigsQueued
<1>1. CASE UNCHANGED events
  <2>1. ~FetchControl
    BY <1>1, Fetched DEF PatienceInv, FetchControl
  <2>2. QED
    BY <1>1, <2>1
<1>2. CASE FetchControl \/ FetchDown \/ FetchNotice
  BY <1>2, Fetched DEF PatienceInv, FetchControl, FetchDown, FetchNotice, Fetch
<1>3. QED
  BY <1>1, <1>2, EventsStay

LEMMA QueueHostStep ==
  ASSUME StandardRequests, NeverDeconfigures, TypeInv, HostStep
  PROVE  \A i \in SetConfigsQueued' :
           \/ \E j \in SetConfigsQueued : events[j].req = events'[i].req
           \/ HostRequest(events'[i].req) /\ SetsConfig(events'[i].req)
<1>1. PICK e \in Event :
        /\ DOMAIN events = 1 .. Len(events) /\ Len(events) \in Nat
        /\ Len(events') = Len(events) + 1 /\ DOMAIN events' = 1 .. Len(events')
        /\ \A i \in DOMAIN events : events'[i] = events[i]
        /\ events'[Len(events')] = e
        /\ \/ HostRequest(e.req) /\ e.req \in Requests /\ e.type = "Control"
           \/ HostDrops /\ e.type = "Down"
           \/ HostNotice /\ e.type = "Notice"
  BY Queued
<1>2. e.type = "Control" => HostRequest(e.req) /\ e.req \in Requests
  BY <1>1
<1>3. e.type = "Control" /\ IsSetConfig(e.req) => SetsConfig(e.req)
  BY <1>2 DEF StandardRequests, SetsConfig
<1>4. \A i \in DOMAIN events' : i \in DOMAIN events \/ i = Len(events')
  BY <1>1
<1>5. QED
  BY <1>1, <1>2, <1>3, <1>4 DEF SetConfigsQueued

LEMMA CacheMainStep ==
  ASSUME StandardRequests, NeverDeconfigures, TypeInv, PatienceInv, ResetInv, CacheInv, MainStep
  PROVE  CacheInv'
<1> USE DEF CacheInv, Committed
<1>0. /\ mainPc \in {"data", "wait"} => ctrl \in Requests /\ ctrl \in Request
      /\ mainPc \in Committed => IsSetConfig(ctrl)
  BY GadgetAssumption DEF TypeInv, GadgetTypeOK, MainTypeOK, ConfigSteps
<1>1. hostRead' = hostRead => \A i \in SetConfigsQueued' : hostRead' = Whole(events'[i].req.cfg)
  BY QueueMainStep
<1>2. CASE FetchControl
  <2>1. mainPc' \in {"ack", "data", "submit"} /\ mainPc = "fetch" /\ UNCHANGED <<cache, hostRead>>
    BY <1>2 DEF FetchControl, Fetch, MainAt, confVars
  <2>2. Setting' => hostRead = Whole(ctrl'.cfg)
    BY <1>2, QueueMainStep DEF Setting, SetsConfig
  <2>3. QED
    BY <1>1, <2>1, <2>2 DEF Running
<1>3. CASE FetchDown \/ FetchNotice \/ Spawn
  <2>1. /\ mainPc \in {"fetch", "spawn"} /\ mainPc' \in {"join", "fetch"}
        /\ UNCHANGED <<cache, hostRead>>
    BY <1>3 DEF FetchDown, FetchNotice, Fetch, Spawn, MainAt, Go, Done, confVars, hostVars
  <2>2. QED
    BY <1>1, <2>1 DEF Running, Setting
<1>4. CASE ReadData
  <2>1. hostRead' = hostRead /\ cache' = cache /\ mainPc = "data" /\ mainPc' \in {"submit", "exited"}
    BY <1>4, WhatHostLearns DEF ReadData, MainAt, Go, Exit, confVars, Replies
  <2>2. ~Setting'
    <3>1. ~SetsConfig(ctrl)
      BY <1>0, <2>1 DEF PatienceInv, Places, SetsConfig, IsSetConfig, HasDataStage, Request
    <3>2. mainPc' = "submit" => ctrl' = ctrl
      BY <1>4 DEF ReadData, Go, Exit
    <3>3. QED
      BY <2>1, <3>1, <3>2 DEF Setting
  <2>3. QED
    BY <1>1, <2>1, <2>2 DEF Running
<1>5. CASE MainSubmit \/ MainFailed \/ ReplyFails \/ Enable
  <2>1. /\ mainPc' \in {"wait", "exited", "ackConfig"} /\ UNCHANGED <<cache, hostRead>>
        /\ mainPc' = "wait" => mainPc = "submit" /\ ctrl' = ctrl
        /\ mainPc' = "ackConfig" => mainPc = "enable" /\ ctrl' = ctrl
    BY <1>5 DEF MainSubmit, MainFailed, ReplyFails, Enable, MainAt, Go, Exit, confVars, hostVars
  <2>2. QED
    BY <1>1, <2>1 DEF Running, Setting
<1>6. CASE MainAnswered
  <2>1. mainPc = "wait" /\ hostRead' = hostRead /\ ctrl \in Requests /\ ctrl \in Request
    BY <1>0, <1>6 DEF MainAnswered, MainAt, hostVars
  <2>2. /\ mainPc' = AfterAnswer(ctrl, status[Main] = "ok")
        /\ mainPc' \in {"fetch", "stall", "enable", "write", "ack"}
        /\ ctrl' = IF mainPc' = "fetch" THEN None ELSE ctrl
        /\ cache' = IF status[Main] = "ok" /\ IsGetConfig(ctrl) THEN Contents(ctrl) ELSE cache
    BY <1>6 DEF MainAnswered, AfterAnswer, OnRefusal, ConfigRead
  <2>3. CASE status[Main] = "ok" /\ IsGetConfig(ctrl)
    <3>1. ~HasDataStage(ctrl) /\ ~IsSetConfig(ctrl) /\ ctrl.in
      BY <2>1, <2>3 DEF HasDataStage, IsSetConfig, IsGetConfig, Request
    <3>2. mainPc' = "write"
      BY <2>2, <2>3, <3>1 DEF AfterAnswer, Refused
    <3>3. QED
      BY <1>1, <2>1, <2>2, <2>3, <3>2 DEF Setting
  <2>4. CASE ~(status[Main] = "ok" /\ IsGetConfig(ctrl))
    <3>1. mainPc' = "write" => status[Main] = "ok"
      BY <2>2 DEF AfterAnswer, Refused, OnRefusal
    <3>2. mainPc' = "enable" => IsSetConfig(ctrl)
      BY <2>2 DEF AfterAnswer, Refused, OnRefusal
    <3>3. mainPc' = "enable" => cache' = Whole(ctrl'.cfg)
      <4>1. SUFFICES ASSUME mainPc' = "enable" PROVE cache' = Whole(ctrl'.cfg)
        OBVIOUS
      <4>2. Setting /\ ctrl.cfg \in Configs
        BY <2>1, <3>2, <4>1 DEF Setting, SetsConfig, StandardRequests, NeverDeconfigures, Request
      <4>3. Whole(ctrl.cfg) \in Descriptor
        BY <4>2 DEF Whole, Descriptor
      <4>4. hostRead # None /\ hostRead = Whole(ctrl.cfg)
        BY <4>2, <4>3, GadgetAssumption
      <4>5. QED
        BY <2>1, <2>2, <2>4, <4>1, <4>4 DEF Running
    <3>4. QED
      BY <1>1, <2>1, <2>2, <2>4, <3>1, <3>3 DEF Setting, Running
  <2>5. QED
    BY <2>3, <2>4
<1>7. CASE Reply
  <2>1. /\ mainPc \in {"write", "ack", "ackConfig", "stall"} /\ mainPc' \in {"fetch", "spawn"}
        /\ mainPc' = "spawn" => mainPc = "ackConfig" /\ ctrl' = ctrl
        /\ cache' = cache
    BY <1>7 DEF Reply, MainAt, Go, Done, confVars
  <2>2. CASE mainPc = "write"
    <3>1. /\ mainPc' = "fetch" /\ events' = <<>>
          /\ hostRead' = IF IsGetConfig(ctrl) THEN Contents(ctrl) ELSE hostRead
      BY <1>7, <2>2 DEF Reply, MainAt, Done, HostServed, PatienceInv, OneAtATime, Answering
    <3>2. SetConfigsQueued' = {}
      BY <3>1 DEF SetConfigsQueued
    <3>3. QED
      BY <2>1, <2>2, <3>1, <3>2 DEF Running, Setting
  <2>3. CASE mainPc # "write"
    <3>1. hostRead' = hostRead
      BY <2>3, WhatHostLearns DEF Replies
    <3>2. QED
      BY <1>1, <2>1, <2>3, <3>1 DEF Running, Setting
  <2>4. QED
    BY <2>2, <2>3
<1>8. CASE Join
  <2>1. hostRead' = hostRead /\ hostRead = None /\ mainPc' = "fetch"
    BY <1>8 DEF Join, MainAt, Done, hostVars, ResetInv, ResetPending
  <2>2. QED
    BY <1>1, <2>1 DEF Setting
<1>9. QED
  BY <1>2, <1>3, <1>4, <1>5, <1>6, <1>7, <1>8 DEF MainStep

LEMMA CacheStep ==
  ASSUME HostGivesUp = {}, HostReadsFirst, StandardRequests, NeverDeconfigures,
         TypeInv, PatienceInv, ResetInv, CacheInv, [Next]_vars
  PROVE  CacheInv'
<1>1. CASE UNCHANGED <<mainVars, hostVars>>
  BY <1>1 DEF CacheInv, mainVars, confVars, hostVars, Setting, Running, SetConfigsQueued
<1>2. CASE HostStep
  <2>1. UNCHANGED mainVars /\ hostReq = None
    BY <1>2 DEF HostStep, HostRequest, HostDrops, HostNotice, HostActs
  <2>2. SetConfigsQueued = {} /\ ~Setting /\ ~Setting'
    BY <2>1, NothingAsked DEF mainVars, Setting
  <2>3. \A i \in SetConfigsQueued' :
          HostRequest(events'[i].req) /\ SetsConfig(events'[i].req)
    BY <1>2, <2>2, QueueHostStep
  <2>4. hostRead' \in {hostRead, None}
    BY <1>2 DEF HostStep, HostRequest, HostDrops, HostNotice
  <2>5. \A i \in SetConfigsQueued' : hostRead' = Whole(events'[i].req.cfg)
    BY <2>3 DEF HostRequest, Whole
  <2>6. QED
    BY <2>1, <2>2, <2>4, <2>5 DEF CacheInv, mainVars, confVars, Running
<1>3. CASE MainStep
  BY <1>3, CacheMainStep
<1>4. QED
  BY <1>1, <1>2, <1>3, MainOrHost
-----------------------------------------------------------------------------
(* The endpoints served.                                                    *)

ServedInv ==
  /\ mainPc = "spawn" => hostCfg \in {None, ctrl.cfg}
  /\ hostCfg # None /\ mainPc \notin {"spawn", "exited"} =>
       {EpOf(t) : t \in epThreads} = EpsOf(hostCfg)

\* A request main commits to is one the host made with that meaning.
LEMMA CommittedRequest ==
  ASSUME StandardRequests, NeverDeconfigures, TypeInv, mainPc \in Committed
  PROVE  ctrl \in Requests /\ SetsConfig(ctrl) /\ ctrl.cfg \in Configs /\ ctrl.cfg # None
<1>1. ctrl \in Requests /\ IsSetConfig(ctrl)
  BY DEF TypeInv, GadgetTypeOK, MainTypeOK, ConfigSteps, Committed
<1>2. QED
  BY <1>1, GadgetAssumption DEF StandardRequests, NeverDeconfigures, SetsConfig, Request

LEMMA SpawnStarts ==
  ASSUME TypeInv, Spawn
  PROVE  /\ mainPc = "spawn" /\ mainPc' = "fetch"
         /\ spawns' = spawns + 1 /\ spawns \in Nat /\ spawns' \in 1 .. MaxSpawns
         /\ epThreads' = {spawns'} \X Parsed /\ Parsed \subseteq EpDescs
         /\ epThreads' \subseteq EpThreads
         /\ \E c \in Configs : Parsed \subseteq DescsOf[c]
         /\ epPc' = [t \in EpThreads |-> IF t \in epThreads' THEN FirstStep(t) ELSE epPc[t]]
         /\ UNCHANGED <<hostVars, devVars, callVars, flowVars, buf>>
<1>1. mainPc = "spawn" /\ cache # None
  BY DEF Spawn, MainAt, TypeInv, ConfigSteps
<1>2. Parsed \subseteq EpDescs /\ \E c \in Configs : Parsed \subseteq DescsOf[c]
  BY <1>1, GadgetAssumption DEF Parsed, TypeInv, GadgetTypeOK, MainTypeOK, Descriptor
<1>3. spawns \in Nat /\ spawns + 1 \in 1 .. MaxSpawns
  <2>1. SetConfigHandled
    BY <1>1, GadgetAssumption
       DEF TypeInv, GadgetTypeOK, MainTypeOK, SetConfigHandled, ConfigSteps, Committed
  <2>2. QED
    BY <2>1, QueuedFinite, GadgetAssumption
       DEF TypeInv, GadgetTypeOK, MainTypeOK, OutsideTypeOK, SetConfigsBounded, SetConfigsMade
<1>4. QED
  BY <1>1, <1>2, <1>3 DEF Spawn, MainAt, Done, EpThreads

LEMMA ParsedIsRight ==
  ASSUME StandardRequests, NeverDeconfigures, TypeInv, CacheInv, mainPc = "spawn"
  PROVE  Parsed = DescsOf[ctrl.cfg] /\ ctrl.cfg \in Configs /\ ctrl.cfg # None
BY CommittedRequest DEF CacheInv, Committed, Parsed, Whole

LEMMA EndpointsOf ==
  ASSUME NEW n, NEW S PROVE {EpOf(t) : t \in {n} \X S} = {AddressOf[d] : d \in S}
<1>1. \A d \in S : <<n, d>> \in {n} \X S /\ EpOf(<<n, d>>) = AddressOf[d]
  BY DEF EpOf
<1>2. \A t \in {n} \X S : t[2] \in S /\ EpOf(t) = AddressOf[t[2]]
  BY DEF EpOf
<1>3. \A a : (\E t \in {n} \X S : a = EpOf(t)) <=> \E d \in S : a = AddressOf[d]
  BY <1>1, <1>2
<1>4. QED
  BY <1>3

LEMMA ServedStep ==
  ASSUME StandardRequests, NeverDeconfigures, TypeInv, PatienceInv, ResetInv, CacheInv,
         ServedInv, [Next]_vars
  PROVE  ServedInv'
<1> USE DEF ServedInv
<1>1. CASE UNCHANGED <<mainVars, hostVars>>
  BY <1>1 DEF mainVars, confVars, hostVars
<1>2. CASE HostStep
  <2>1. UNCHANGED mainVars /\ hostCfg' \in {hostCfg, None}
    BY <1>2 DEF HostStep, HostRequest, HostDrops, HostNotice, HostActs
  <2>2. QED
    BY <2>1 DEF mainVars, confVars
<1>3. CASE MainStep
  <2>1. CASE Spawn
    <3>1. {EpOf(t) : t \in epThreads'} = EpsOf(ctrl.cfg)
      <4>1. epThreads' = {spawns'} \X DescsOf[ctrl.cfg]
        BY <2>1, SpawnStarts, ParsedIsRight
      <4>2. {EpOf(t) : t \in {spawns'} \X DescsOf[ctrl.cfg]} = EpsOf(ctrl.cfg)
        BY EndpointsOf DEF EpsOf
      <4>3. QED
        BY <4>1, <4>2
    <3>2. QED
      BY <2>1, <3>1, SpawnStarts DEF hostVars
  <2>2. CASE Join
    BY <2>2 DEF Join, MainAt, Done, hostVars, ResetInv, ResetPending
  <2>3. CASE Replies("ackConfig", "spawn")
    <3>1. mainPc = "ackConfig" /\ SetsConfig(ctrl) /\ ctrl # None /\ hostReq = ctrl /\ hostReq' = None
      BY <2>3, CommittedRequest, GadgetAssumption DEF Replies, Committed
    <3>2. hostCfg' = ctrl.cfg /\ ctrl' = ctrl
      BY <1>3, <3>1, WhatHostLearns DEF Replies
    <3>3. QED
      BY <2>3, <3>2 DEF Replies
  <2>4. CASE ~(Spawn \/ Join \/ Replies("ackConfig", "spawn"))
    <3>1. hostCfg' = hostCfg
      BY <1>3, <2>4, WhatHostLearns
    <3>2. epThreads' = epThreads /\ mainPc \notin {"spawn", "exited"}
      BY <1>3, <2>4 DEF MainStep, FetchControl, FetchDown, FetchNotice, Fetch, ReadData, MainSubmit,
         MainAnswered, AfterAnswer, OnRefusal, MainFailed, Reply, ReplyFails, Enable, MainAt, Go, Done,
         Exit, confVars
    <3>3. mainPc' # "spawn"
      BY <1>3, <2>4, ToSpawn
    <3>4. QED
      BY <3>1, <3>2, <3>3
  <2>5. QED
    BY <2>1, <2>2, <2>3, <2>4
<1>4. QED
  BY <1>1, <1>2, <1>3, MainOrHost

\* What holds with a host that waits and reads a configuration before it sets it.
CarefulInv == TypeInv /\ PatienceInv /\ ResetInv /\ CacheInv /\ ServedInv

LEMMA CarefulCorrect ==
  ASSUME HostGivesUp = {}, HostReadsFirst, StandardRequests, NeverDeconfigures
  PROVE  Spec => []CarefulInv
<1>1. Init => CarefulInv
  <2>1. Init => ResetInv /\ CacheInv /\ ServedInv
    BY DEF Init, ResetInv, ResetPending, CacheInv, ServedInv, SetConfigsQueued, Setting, Committed
  <2>2. QED
    BY <2>1, TypeInit, PatienceInit DEF CarefulInv
<1>2. CarefulInv /\ [Next]_vars => CarefulInv'
  BY TypeStep, PatienceStep, ResetStep, CacheStep, ServedStep DEF CarefulInv
<1>3. QED
  BY <1>1, <1>2, PTL DEF Spec

(* A host that waits for its answers, and reads a configuration before it    *)
(* sets it, finds a thread for each of its endpoints and no other whenever    *)
(* it and main are at rest, however often it is reset and set up again: the   *)
(* descriptor in cached_config_desc is never a stale one (main.rs:464, 501).  *)
THEOREM EndpointsAreServed ==
  ASSUME HostGivesUp = {}, HostReadsFirst, StandardRequests, NeverDeconfigures
  PROVE  Spec => []EndpointsServed
<1>1. CarefulInv => EndpointsServed
  BY DEF CarefulInv, ServedInv, EndpointsServed
<1>2. QED
  BY <1>1, CarefulCorrect, PTL
-----------------------------------------------------------------------------
(* The threads at work, for a host that sets a configuration only when it    *)
(* has none: main holds the handles of all of them, and there are none when   *)
(* the device is told to change its configuration.                          *)

NoneAtWork == \A t \in EpThreads : ~Live(t)

HeldInv ==
  /\ \A t \in EpThreads : Live(t) => t \in epThreads
  /\ epThreads \subseteq {spawns} \X EpDescs
  /\ \A t, u \in epThreads : \E c \in Configs : t[2] \in DescsOf[c] /\ u[2] \in DescsOf[c]
  /\ Setting \/ mainPc = "spawn" => NoneAtWork
  /\ SetConfigsQueued # {} \/ Setting => hostCfg = None
  /\ mainPc = "spawn" => hostCfg # None \/ ResetPending
  /\ ~NoneAtWork => hostCfg # None \/ ResetPending \/ ~Running

LEMMA HeldInit == Init => HeldInv
BY DEF Init, HeldInv, NoneAtWork, Live, Setting, SetConfigsQueued

LEMMA HeldMainStep ==
  ASSUME StandardRequests, NeverDeconfigures, TypeInv, PatienceInv, HeldInv, MainStep
  PROVE  HeldInv'
<1> USE DEF HeldInv
<1>1. hostCfg' = hostCfg /\ SetConfigsQueued' # {} => hostCfg' = None
  BY QueueMainStep
<1>2. CASE FetchControl
  <2>1. /\ mainPc = "fetch" /\ mainPc' \in {"ack", "data", "submit"}
        /\ UNCHANGED <<hostCfg, epThreads, spawns, epPc>>
    BY <1>2 DEF FetchControl, Fetch, MainAt, confVars, epVars
  <2>2. ~ResetPending /\ Running
    <3>1. DOMAIN events = {1} /\ events[1].type = "Control"
      <4>1. events \in Seq(Event)
        BY DEF TypeInv, GadgetTypeOK, OutsideTypeOK
      <4>2. Len(events) = 1 /\ events[1].type = "Control"
        BY <1>2, Fetched DEF PatienceInv, FetchControl
      <4>3. QED
        BY <4>1, <4>2, LenProperties
    <3>2. QED
      BY <2>1, <3>1 DEF ResetPending, Running
  <2>3. Setting' => hostCfg = None
    BY <1>2, QueueMainStep DEF Setting, SetsConfig
  <2>4. QED
    BY <1>1, <2>1, <2>2, <2>3 DEF NoneAtWork, Live
<1>3. CASE FetchDown \/ FetchNotice
  <2>1. /\ mainPc = "fetch" /\ mainPc' \in {"join", "fetch"}
        /\ UNCHANGED <<hostCfg, epThreads, spawns, epPc>>
        /\ FetchDown => mainPc' = "join"
    BY <1>3 DEF FetchDown, FetchNotice, Fetch, MainAt, Go, Done, confVars, epVars
  <2>2. ResetPending => ResetPending'
    <3>1. CASE FetchDown
      BY <2>1, <3>1 DEF ResetPending
    <3>2. CASE FetchNotice
      <4>1. events[1].type = "Notice" /\ Len(events) \in Nat
            /\ \A i \in 1 .. Len(events) - 1 : i \in DOMAIN events' /\ events'[i] = events[i + 1]
        BY <3>2, Fetched DEF PatienceInv, FetchNotice
      <4>2. DOMAIN events = 1 .. Len(events)
        BY LenProperties DEF TypeInv, GadgetTypeOK, OutsideTypeOK
      <4>3. \A i \in DOMAIN events : events[i].type = "Down" =>
              i - 1 \in DOMAIN events' /\ events'[i - 1] = events[i]
        BY <4>1, <4>2
      <4>4. QED
        BY <2>1, <4>3 DEF ResetPending
    <3>3. QED
      BY <1>3, <3>1, <3>2
  <2>3. Running /\ ~Setting'
    BY <2>1 DEF Running, Setting
  <2>4. QED
    BY <1>1, <2>1, <2>2, <2>3 DEF NoneAtWork, Live
<1>4. CASE Spawn
  <2>1. hostCfg' = hostCfg /\ events' = events /\ ~Setting'
    BY <1>4, SpawnStarts DEF hostVars, Setting
  <2>2. hostCfg # None \/ ResetPending'
    BY <1>4, <2>1, SpawnStarts DEF ResetPending
  <2>3. \A t \in EpThreads : Live(t)' => t \in epThreads'
    BY <1>4, SpawnStarts DEF NoneAtWork, Live
  <2>4. /\ epThreads' \subseteq {spawns'} \X EpDescs
        /\ \A t, u \in epThreads' : \E c \in Configs : t[2] \in DescsOf[c] /\ u[2] \in DescsOf[c]
    BY <1>4, SpawnStarts
  <2>5. QED
    BY <1>1, <1>4, <2>1, <2>2, <2>3, <2>4, SpawnStarts
<1>5. CASE Join
  <2>1. /\ \A t \in epThreads : epPc[t] = "exited"
        /\ epThreads' = {} /\ mainPc' = "fetch" /\ UNCHANGED <<hostCfg, epPc, spawns>>
    BY <1>5 DEF Join, Awaited, Done, hostVars, epVars
  <2>2. NoneAtWork /\ NoneAtWork'
    BY <2>1 DEF NoneAtWork, Live
  <2>3. QED
    BY <1>1, <2>1, <2>2 DEF NoneAtWork, Setting
<1>6. CASE ReadData \/ MainSubmit \/ MainAnswered \/ MainFailed \/ Reply \/ ReplyFails \/ Enable
  <2>1. UNCHANGED <<epThreads, spawns, epPc, events>>
    BY <1>6
       DEF ReadData, MainSubmit, MainAnswered, MainFailed, Reply, ReplyFails, Enable, HostServed,
                HostStalled, confVars, epVars, hostVars
  <2>2. mainPc \notin {"fetch", "join", "spawn", "exited"} /\ mainPc' # "join" /\ Running
    BY <1>6 DEF ReadData, MainSubmit, MainAnswered, AfterAnswer, OnRefusal, MainFailed, Reply,
       ReplyFails, Enable,
                MainAt, Go, Done, Exit, Running
  <2>3. CASE Replies("ackConfig", "spawn")
    <3>1. SetsConfig(ctrl) /\ ctrl.cfg # None /\ Setting
      BY <2>3, CommittedRequest DEF Replies, Committed, Setting
    <3>2. hostReq = ctrl /\ hostReq' = None /\ ctrl # None
      BY <3>1, <2>3, SettingAnswers DEF Replies
    <3>3. hostCfg' = ctrl.cfg
      BY <2>3, <3>1, <3>2, WhatHostLearns DEF Replies
    <3>4. SetConfigsQueued' = {} /\ ~Setting'
      BY <2>3 DEF Replies, SetConfigsQueued, Setting
    <3>5. QED
      BY <2>1, <3>1, <3>3, <3>4 DEF NoneAtWork, Live
  <2>4. CASE ~Replies("ackConfig", "spawn")
    <3>1. hostCfg' = hostCfg
      BY <2>4, WhatHostLearns
    <3>2. Setting' => Setting
      BY <1>6, <2>2, SettingStep DEF MainStep, FetchControl, Fetch, MainAt
    <3>3. mainPc' # "spawn"
      BY <2>4, ToSpawn
    <3>4. QED
      BY <1>1, <2>1, <2>2, <3>1, <3>2, <3>3 DEF NoneAtWork, Live, ResetPending
  <2>5. QED
    BY <2>3, <2>4
<1>7. QED
  BY <1>2, <1>3, <1>4, <1>5, <1>6 DEF MainStep
LEMMA HeldHostStep ==
  ASSUME HostGivesUp = {}, ~HostReselects, StandardRequests, NeverDeconfigures, TypeInv,
         PatienceInv, HeldInv, HostStep
  PROVE  HeldInv'
<1> USE DEF HeldInv
<1>1. UNCHANGED <<mainVars, epVars>> /\ hostReq = None /\ Running
  BY DEF HostStep, HostRequest, HostDrops, HostNotice, HostActs
<1>2. SetConfigsQueued = {} /\ ~Setting /\ ~Setting'
  BY <1>1, NothingAsked DEF mainVars, Setting
<1>3. hostCfg' = hostCfg \/ (hostCfg' = None /\ ResetPending')
  <2>1. CASE HostDrops
    <3>1. PICK e \in Event : Len(events') \in DOMAIN events' /\ events'[Len(events')] = e
                             /\ (e.type = "Down" \/ ~HostDrops)
      <4>1. Len(events) \in Nat => Len(events) + 1 \in 1 .. Len(events) + 1
        OBVIOUS
      <4>2. events' = Append(events, [type |-> "Down", req |-> None]) /\ events \in Seq(Event)
        BY <2>1 DEF HostDrops, TypeInv, GadgetTypeOK, OutsideTypeOK
      <4>3. [type |-> "Down", req |-> None] \in Event
        BY DEF Event
      <4>4. QED
        BY <4>1, <4>2, <4>3, AppendProperties, LenProperties
    <3>2. QED
      BY <2>1, <3>1 DEF HostDrops, ResetPending
  <2>2. CASE ~HostDrops
    BY <2>2 DEF HostStep, HostRequest, HostNotice
  <2>3. QED
    BY <2>1, <2>2
<1>4. ResetPending => ResetPending'
  BY <1>1, Queued DEF mainVars, ResetPending
<1>5. SetConfigsQueued' # {} => hostCfg = None
  BY <1>2, QueueHostStep DEF HostRequest
<1>6. QED
  BY <1>1, <1>2, <1>3, <1>4, <1>5 DEF mainVars, confVars, epVars, NoneAtWork, Live, Running

LEMMA HeldStep ==
  ASSUME HostGivesUp = {}, ~HostReselects, StandardRequests, NeverDeconfigures, TypeInv,
         PatienceInv, HeldInv, [Next]_vars
  PROVE  HeldInv'
<1>1. CASE MainStep
  BY <1>1, HeldMainStep
<1>2. CASE HostStep
  BY <1>2, HeldHostStep
<1>3. ASSUME UNCHANGED <<mainVars, hostVars>>, \A t \in EpThreads : Live(t)' => Live(t)
      PROVE  HeldInv'
  BY <1>3 DEF HeldInv, mainVars, confVars, hostVars, NoneAtWork, Setting, SetConfigsQueued,
     ResetPending,
              Running
<1>4. ASSUME NEW t \in EpThreads, EpStep(t) PROVE HeldInv'
  <2>1. \A u \in EpThreads : Live(u)' => Live(u)
    BY <1>4, ThreadStep DEF Live, TypeInv, GadgetTypeOK, EpTypeOK
  <2>2. QED
    BY <1>3, <1>4, <2>1, ThreadStep
<1>5. CASE \/ DeviceControl \/ ConnLost \/ UNCHANGED vars
           \/ \E t \in EpThreads : DeviceStep(t)
           \/ \E t \in Callers : AnswerArrives(t)
           \/ \E T \in SUBSET Callers : CallsFail(T)
  BY <1>3, <1>5, OtherStep DEF Live, vars, epVars
<1>6. QED
  BY <1>1, <1>2, <1>4, <1>5 DEF Next

\* What holds with a host that waits, and is reset before it is set up again.
ResettingInv == TypeInv /\ PatienceInv /\ HeldInv

LEMMA ResettingCorrect ==
  ASSUME HostGivesUp = {}, ~HostReselects, StandardRequests, NeverDeconfigures
  PROVE  Spec => []ResettingInv
<1>1. Init => ResettingInv
  BY TypeInit, PatienceInit, HeldInit DEF ResettingInv
<1>2. ResettingInv /\ [Next]_vars => ResettingInv'
  BY TypeStep, PatienceStep, HeldStep DEF ResettingInv
<1>3. QED
  BY <1>1, <1>2, PTL DEF Spec

(* "all EP threads joined after disconnect" (main.rs:357): for a host that    *)
(* waits and goes through a reset between two configurations, main is back    *)
(* in its event loop only when every thread it ever spawned has ended.       *)
THEOREM AllJoined ==
  ASSUME HostGivesUp = {}, ~HostReselects, StandardRequests, NeverDeconfigures
  PROVE  Spec => AllThreadsJoined
<1>1. ResettingInv /\ [Next]_vars =>
        [mainPc = "join" /\ mainPc' = "fetch" => \A t \in EpThreads : ~Live(t)]_vars
  <2>1. SUFFICES ASSUME ResettingInv, [Next]_vars, mainPc = "join", mainPc' = "fetch"
                 PROVE  \A t \in EpThreads : ~Live(t)
    OBVIOUS
  <2>2. TypeInv /\ HeldInv
    BY <2>1 DEF ResettingInv
  <2>3. MainStep
    BY <2>1, <2>2, MainOrHost DEF mainVars, HostStep, HostRequest, HostDrops, HostNotice, HostActs
  <2>4. Join
    BY <2>1, <2>3 DEF MainStep, FetchControl, FetchDown, FetchNotice, Fetch, ReadData, MainSubmit,
       MainAnswered, MainFailed, Reply, ReplyFails, Enable, Spawn, MainAt
  <2>5. QED
    BY <2>2, <2>4 DEF Join, Awaited, HeldInv, Live
<1>2. QED
  BY <1>1, ResettingCorrect, PTL DEF Spec, AllThreadsJoined

-----------------------------------------------------------------------------
(* The threads at work are those of the configuration the device is in.     *)

FitInv == LiveThreadsFit /\ (mainPc = "spawn" => devCfg = ctrl.cfg)

LEMMA FitStep ==
  ASSUME HostGivesUp = {}, StandardRequests, NeverDeconfigures, TypeInv, PatienceInv,
         AgreeInv, CacheInv, HeldInv, FitInv,
         [Next]_vars
  PROVE  FitInv'
<1> USE DEF FitInv
<1>1. CASE MainStep
  <2>1. devCfg' = devCfg
    BY <1>1 DEF MainStep, FetchControl, FetchDown, FetchNotice, Fetch, ReadData, MainSubmit,
       MainAnswered,
       MainFailed, Reply, ReplyFails, Enable, Spawn, Join, Returns, devVars
  <2>2. CASE Spawn
    <3>1. devCfg # None /\ Parsed = DescsOf[devCfg]
      BY <2>2, SpawnStarts, ParsedIsRight
    <3>2. \A t \in epThreads' : EpOf(t) \in EpsOf(devCfg)
      BY <2>2, <3>1, SpawnStarts DEF EpOf, EpsOf
    <3>3. \A t \in EpThreads : Live(t)' => t \in epThreads'
      BY <2>2, SpawnStarts DEF HeldInv, NoneAtWork, Live
    <3>4. QED
      BY <2>1, <2>2, <3>1, <3>2, <3>3, SpawnStarts DEF LiveThreadsFit
  <2>3. CASE ~Spawn
    <3>1. epPc' = epPc
      BY <1>1, <2>3 DEF MainStep, FetchControl, FetchDown, FetchNotice, Fetch, ReadData, MainSubmit,
         MainAnswered, MainFailed, Reply, ReplyFails, Enable, Join, epVars
    <3>2. mainPc' = "spawn" => devCfg = ctrl'.cfg
      <4>1. SUFFICES ASSUME mainPc' = "spawn" PROVE devCfg = ctrl'.cfg
        OBVIOUS
      <4>2. Replies("ackConfig", "spawn")
        BY <1>1, <4>1, ToSpawn
      <4>3. SetsConfig(ctrl) /\ Setting /\ Taken
        BY <4>2, CommittedRequest DEF Replies, Committed, Setting, Taken
      <4>4. ctrl' = ctrl
        BY <1>1, <4>2, <4>3, SettingAnswers, WhatHostLearns DEF Replies
      <4>5. QED
        BY <4>3, <4>4 DEF AgreeInv
    <3>3. QED
      BY <2>1, <3>1, <3>2 DEF LiveThreadsFit, Live
  <2>4. QED
    BY <2>2, <2>3
<1>2. CASE HostStep \/ UNCHANGED vars \/ ConnLost
  BY <1>2
     DEF HostStep, HostRequest, HostDrops, HostNotice, HostActs, ConnLost, vars, mainVars, epVars,
              devVars, LiveThreadsFit, Live
<1>3. ASSUME NEW t \in EpThreads, EpStep(t) PROVE FitInv'
  BY <1>3, ThreadStep DEF Live, LiveThreadsFit, TypeInv, GadgetTypeOK, EpTypeOK, mainVars
<1>4. ASSUME NEW t \in EpThreads, DeviceStep(t) PROVE FitInv'
  BY <1>4, ThreadsApart, OtherStep DEF Live, LiveThreadsFit, mainVars
<1>5. CASE DeviceControl
  <2>1. mainPc = "wait" /\ UNCHANGED <<mainVars, epPc>>
    BY <1>5 DEF DeviceControl, DeviceServes, Running, Bridge!CarryOut, TypeInv, CallsOfMain
  <2>2. devCfg' # devCfg => Setting
    BY <1>5, <2>1 DEF DeviceControl, Setting
  <2>3. QED
    BY <2>1, <2>2 DEF mainVars, LiveThreadsFit, Live, HeldInv, NoneAtWork
<1>6. CASE \/ \E t \in Callers : AnswerArrives(t)
           \/ \E T \in SUBSET Callers : CallsFail(T)
  BY <1>6 DEF AnswerArrives, CallsFail, mainVars, epVars, devVars, LiveThreadsFit, Live
<1>7. QED
  BY <1>1, <1>2, <1>3, <1>4, <1>5, <1>6 DEF Next

(* A thread at work serves an endpoint of the device's configuration, for a   *)
(* host that waits, reads a configuration before it sets it, and goes through *)
(* a reset between two: the threads of the last one are joined before the     *)
(* device is told to change (main.rs:352), and those of the next are started  *)
(* from the right descriptor (main.rs:464).                                  *)
THEOREM LiveThreadsFitCorrect ==
  ASSUME HostGivesUp = {}, ~HostReselects, HostReadsFirst, StandardRequests, NeverDeconfigures
  PROVE  Spec => []LiveThreadsFit
<1>1. Init => FitInv /\ AgreeInv
  BY AgreeInit DEF Init, FitInv, LiveThreadsFit, Live
<1>2. CarefulInv /\ ResettingInv /\ AgreeInv /\ FitInv /\ [Next]_vars => (AgreeInv /\ FitInv)'
  BY AgreeStep, FitStep DEF CarefulInv, ResettingInv
<1>3. FitInv => LiveThreadsFit
  BY DEF FitInv
<1>4. QED
  BY <1>1, <1>2, <1>3, CarefulCorrect, ResettingCorrect, PTL DEF Spec
-----------------------------------------------------------------------------
(* What ends the program.                                                   *)

\* Answers that endpoint 0 can carry, and SET_ADDRESS as the standard has it.
FittingRequests ==
  \A r \in Requests : /\ r.in => r.len <= EP0_BUF_SIZE
                      /\ r.name = "SET_ADDRESS" => ~r.in

UpInv ==
  /\ phase[Main] = "failed" => ~connUp
  /\ ~Running /\ spawns = 0 => ~connUp

\* An endpoint 0 ioctl that answers the request the host waits for does not fail.
LEMMA RepliesSucceed ==
  ASSUME FittingRequests, TypeInv, PatienceInv
  PROVE  ~ReplyFails /\ (ReadData => mainPc' = "submit")
<1>1. ASSUME Answering
      PROVE  hostReq = ctrl /\ ctrl # None /\ ctrl \in Requests /\ ctrl.in \in BOOLEAN
                /\ ctrl.len \in Nat
  BY <1>1, GadgetAssumption
     DEF PatienceInv, OneAtATime, Answering, TypeInv, GadgetTypeOK, MainTypeOK, Request
<1>2. ~ReplyFails
  <2>1. ~(mainPc = "write" /\ (NotWaiting({TRUE}) \/ ctrl.len > EP0_BUF_SIZE))
    <3>1. SUFFICES ASSUME mainPc = "write" PROVE ~NotWaiting({TRUE}) /\ ~(ctrl.len > EP0_BUF_SIZE)
      OBVIOUS
    <3>2. ctrl.in = TRUE /\ hostReq = ctrl /\ ctrl # None /\ ctrl \in Requests /\ ctrl.len \in Nat
      BY <1>1, <3>1 DEF Answering, PatienceInv, Places
    <3>3. ctrl.len <= EP0_BUF_SIZE
      BY <3>2 DEF FittingRequests
    <3>4. ~(ctrl.len > EP0_BUF_SIZE)
      BY <3>2, <3>3, GadgetAssumption
    <3>5. QED
      BY <3>2, <3>4 DEF NotWaiting
  <2>2. ~(mainPc = "ack" /\ NotWaiting({FALSE}))
    BY <1>1 DEF Answering, PatienceInv, Places, NotWaiting, FittingRequests
  <2>3. ~(mainPc = "ackConfig" /\ NotWaiting({FALSE}))
    BY <1>1 DEF Answering, NotWaiting, TypeInv, ConfigSteps, Committed, IsSetConfig
  <2>4. ~(mainPc = "stall" /\ NotWaiting(BOOLEAN))
    BY <1>1 DEF Answering, NotWaiting
  <2>5. QED
    BY <2>1, <2>2, <2>3, <2>4 DEF ReplyFails, MainAt
<1>3. ReadData => mainPc' = "submit"
  BY <1>1 DEF Answering, PatienceInv, Places, HasDataStage, NotWaiting, ReadData, MainAt, Go
<1>4. QED
  BY <1>2, <1>3

LEMMA UpStep ==
  ASSUME StandardRequests, NeverDeconfigures, OneDescriptorEach, FittingRequests,
         CarefulInv, JoinInv, UpInv, [Next]_vars
  PROVE  UpInv'
<1> USE DEF UpInv, CarefulInv
<1>0. Main \in Callers /\ Bridge!TypeOK /\ spawns \in Nat
  BY GadgetAssumption DEF Callers, TypeInv, GadgetTypeOK, MainTypeOK
<1>1. CASE MainStep
  <2>1. connUp' = connUp
    BY <1>1 DEF MainStep, FetchControl, FetchDown, FetchNotice, Fetch, ReadData, MainSubmit,
       MainAnswered,
       MainFailed, Reply, ReplyFails, Enable, Spawn, Join, Returns, devVars
  <2>2. phase'[Main] = "failed" => phase[Main] = "failed"
    <3>1. CASE MainSubmit
      BY <1>0, <3>1 DEF MainSubmit, Bridge!Call, Bridge!Move, Bridge!TypeOK
    <3>2. CASE MainAnswered \/ MainFailed
      BY <1>0, <3>2 DEF MainAnswered, MainFailed, Returns, Bridge!Return, Bridge!Move, Bridge!TypeOK
    <3>3. CASE ~(MainSubmit \/ MainAnswered \/ MainFailed)
      BY <1>1, <3>3 DEF MainStep, FetchControl, FetchDown, FetchNotice, Fetch, ReadData, Reply,
         ReplyFails, Enable, Spawn, Join, callVars
    <3>4. QED
      BY <3>1, <3>2, <3>3
  <2>3. ~Running' /\ spawns' = 0 => ~connUp
    <3>1. CASE Enable
      <4>1. CASE spawns = 0
        <5>1. EverEnabled = {}
          BY <4>1 DEF JoinInv, EverEnabled, EpThreads
        <5>2. cache # None /\ cache \in Descriptor
          <6>1. mainPc \in Committed /\ cache = Whole(ctrl.cfg) /\ ctrl.cfg \in Configs
            BY <3>1, CommittedRequest DEF Enable, MainAt, Committed, CacheInv
          <6>2. Whole(ctrl.cfg) \in Descriptor
            BY <6>1 DEF Whole, Descriptor
          <6>3. QED
            BY <6>1, <6>2, GadgetAssumption
        <5>3. ~\E d \in Parsed : EnabledTwice(d)
          <6>1. \E c \in Configs : Parsed \subseteq DescsOf[c]
            BY <5>2, GadgetAssumption DEF Parsed, Descriptor
          <6>2. QED
            BY <5>1, <6>1 DEF EnabledTwice, OneDescriptorEach
        <5>4. QED
          BY <3>1, <5>2, <5>3 DEF Enable, Go, Running
      <4>2. QED
        BY <3>1, <4>1 DEF Enable, confVars
    <3>2. CASE MainFailed
      BY <1>0, <3>2 DEF MainFailed, Returns
    <3>3. CASE ~(Enable \/ MainFailed)
      <4>1. Running'
        BY <1>1, <3>3, RepliesSucceed
           DEF MainStep, FetchControl, FetchDown, FetchNotice, MainSubmit, MainAnswered, AfterAnswer,
               OnRefusal, Reply, Spawn, Join, Go, Done, Running
      <4>2. QED
        BY <4>1
    <3>4. QED
      BY <3>1, <3>2, <3>3
  <2>4. QED
    BY <2>1, <2>2, <2>3
<1>2. CASE HostStep \/ UNCHANGED vars
  <2>1. UNCHANGED <<mainPc, spawns, phase, connUp>>
    BY <1>2 DEF HostStep, HostRequest, HostDrops, HostNotice, HostActs, vars, mainVars, confVars,
                callVars, devVars
  <2>2. QED
    BY <2>1 DEF Running
<1>3. ASSUME NEW t \in EpThreads, EpStep(t) \/ DeviceStep(t) PROVE UpInv'
  <2>1. Main # t
    BY GadgetAssumption
  <2>2. QED
    BY <1>0, <1>3, <2>1, ThreadsApart DEF mainVars, confVars, Running
<1>4. CASE DeviceControl \/ ConnLost
  BY <1>4 DEF DeviceControl, DeviceServes, Bridge!CarryOut, ConnLost, mainVars, confVars, callVars,
              Running
<1>5. ASSUME NEW t \in Callers, AnswerArrives(t) PROVE UpInv'
  BY <1>0, <1>5 DEF AnswerArrives, Bridge!Answer, Bridge!Move, Bridge!TypeOK, mainVars, confVars,
                    devVars, Running
<1>6. ASSUME NEW T \in SUBSET Callers, CallsFail(T) PROVE UpInv'
  BY <1>6 DEF CallsFail, mainVars, confVars, devVars, Running
<1>7. QED
  BY <1>1, <1>2, <1>3, <1>4, <1>5, <1>6 DEF Next

(* Until the first endpoint is enabled and while the connection is up, no     *)
(* request of a host that waits, reads a configuration before it sets it and  *)
(* asks for what EP0_BUF_SIZE holds ends the program (main.rs:311), for a     *)
(* device without alternate settings: each ioctl of the handlers meets the    *)
(* very request it is meant for.                                            *)
THEOREM MainStaysUpCorrect ==
  ASSUME HostGivesUp = {}, HostReadsFirst, StandardRequests, NeverDeconfigures,
         OneDescriptorEach, FittingRequests
  PROVE  Spec => []MainStaysUp
<1>1. Init => UpInv /\ JoinInv
  BY DEF Init, UpInv, JoinInv, Running, Bridge!Init, Callers
<1>2. CarefulInv /\ JoinInv /\ UpInv /\ [Next]_vars => (JoinInv /\ UpInv)'
  BY JoinStepInv, UpStep DEF CarefulInv
<1>3. UpInv => MainStaysUp
  BY DEF UpInv, MainStaysUp
<1>4. QED
  BY <1>1, <1>2, <1>3, CarefulCorrect, PTL DEF Spec
-----------------------------------------------------------------------------
(* Packets.  The packet a thread holds is newer than those that have arrived, *)
(* and no other thread has one of that endpoint.                            *)

\* A thread has a call open only where it waits for it.
CallsOfThreads ==
  \A t \in EpThreads :
    /\ epPc[t] # "wait" => phase[t] = "idle" /\ ~carriedOut[t]
    /\ phase[t] = "answered" => carriedOut[t]

LEMMA CallsOfThreadsStep ==
  ASSUME TypeInv, JoinInv, CallsOfThreads, [Next]_vars
  PROVE  CallsOfThreads'
<1> USE DEF CallsOfThreads
<1>0. Bridge!TypeOK /\ EpThreads \subseteq Callers /\ Main \in Callers /\ Main \notin EpThreads
      /\ epPc \in [EpThreads -> {"none", "submit", "wait", "io", "exited"}]
  BY GadgetAssumption DEF TypeInv, GadgetTypeOK, Callers, EpTypeOK
<1>1. CASE MainStep
  <2>1. \A t \in EpThreads : phase'[t] = phase[t] /\ carriedOut'[t] = carriedOut[t]
    <3>1. CASE MainSubmit \/ MainAnswered \/ MainFailed
      BY <1>0, <3>1 DEF MainSubmit, MainAnswered, MainFailed, Returns, Bridge!Call, Bridge!Return,
                        Bridge!Move, Bridge!TypeOK
    <3>2. CASE ~(MainSubmit \/ MainAnswered \/ MainFailed)
      BY <1>1, <3>2 DEF MainStep, FetchControl, FetchDown, FetchNotice, Fetch, ReadData, Reply,
         ReplyFails, Enable, Spawn, Join, callVars
    <3>3. QED
      BY <3>1, <3>2
  <2>2. CASE Spawn
    <3>1. \A t \in epThreads' : t \in EpThreads /\ t[1] > spawns
      BY <2>2, SpawnStarts
    <3>2. QED
      BY <2>1, <2>2, <3>1, SpawnStarts DEF JoinInv
  <2>3. CASE ~Spawn
    <3>1. epPc' = epPc
      BY <1>1, <2>3 DEF MainStep, FetchControl, FetchDown, FetchNotice, Fetch, ReadData, MainSubmit,
         MainAnswered, MainFailed, Reply, ReplyFails, Enable, Join, epVars
    <3>2. QED
      BY <2>1, <3>1
  <2>4. QED
    BY <2>2, <2>3
<1>2. CASE HostStep \/ UNCHANGED vars \/ ConnLost
  BY <1>2
     DEF HostStep, HostRequest, HostDrops, HostNotice, HostActs, ConnLost, vars, epVars, callVars
<1>3. ASSUME NEW t \in EpThreads, EpStep(t) PROVE CallsOfThreads'
  <2>1. \A u \in EpThreads \ {t} : /\ epPc'[u] = epPc[u]
                                   /\ phase'[u] = phase[u] /\ carriedOut'[u] = carriedOut[u]
    BY <1>0, <1>3, ThreadStep, ThreadsApart
  <2>2. /\ epPc'[t] # "wait" => phase'[t] = "idle" /\ ~carriedOut'[t]
        /\ phase'[t] = "answered" => carriedOut'[t]
    <3>1. CASE EpSubmit(t)
      BY <1>0, <3>1 DEF EpSubmit, EpGoto, Bridge!Call, Bridge!Move, Bridge!TypeOK
    <3>2. CASE EpAnswered(t) \/ EpFailed(t)
      BY <1>0, <3>2 DEF EpAnswered, EpFailed, Returns, Bridge!Return, Bridge!Move, Bridge!TypeOK
    <3>3. CASE EpWrite(t) \/ EpRead(t) \/ EpIoError(t)
      BY <1>0, <3>3 DEF EpWrite, EpRead, EpIoError, EpGoto, callVars
    <3>4. QED
      BY <1>3, <3>1, <3>2, <3>3 DEF EpStep
  <2>3. QED
    BY <2>1, <2>2
<1>4. ASSUME NEW t \in EpThreads, DeviceStep(t) PROVE CallsOfThreads'
  BY <1>0, <1>4 DEF DeviceStep, DeviceSends, DeviceReceives, DeviceRefuses, DeviceServes,
                    Bridge!CarryOut, Bridge!TypeOK
<1>5. CASE DeviceControl
  BY <1>0, <1>5 DEF DeviceControl, DeviceServes, Bridge!CarryOut, Bridge!TypeOK
<1>6. ASSUME NEW t \in Callers, AnswerArrives(t) PROVE CallsOfThreads'
  BY <1>0, <1>6 DEF AnswerArrives, Bridge!Answer, Bridge!Move, Bridge!TypeOK, epVars
<1>7. ASSUME NEW T \in SUBSET Callers, CallsFail(T) PROVE CallsOfThreads'
  BY <1>0, <1>7 DEF CallsFail, Bridge!Fail, Bridge!TypeOK, epVars
<1>8. QED
  BY <1>1, <1>2, <1>3, <1>4, <1>5, <1>6, <1>7 DEF Next

\* The thread has in buf a packet that is on its way.
Carrying(t) ==
  IF IsIn(t) THEN epPc[t] = "io" \/ (epPc[t] = "wait" /\ carriedOut[t] /\ status[t] = "ok")
  ELSE epPc[t] = "submit" \/ (epPc[t] = "wait" /\ ~carriedOut[t])

Newer(n, e) == n <= sent[e] /\ \A i \in DOMAIN got[e] : got[e][i] < n

PacketInv ==
  /\ PacketsInOrder
  /\ \A e \in Endpoints : \A i \in DOMAIN got[e] : got[e][i] <= sent[e]
  /\ \A t \in EpThreads : Carrying(t) => Newer(buf[t], EpOf(t))

(* No two threads work for one endpoint.                                    *)
LEMMA OneThreadEach ==
  ASSUME OneDescriptorEach, HeldInv, NEW t \in EpThreads, NEW u \in EpThreads, Live(t),
         Live(u), EpOf(t) = EpOf(u)
  PROVE  t = u
<1>1. /\ t \in {spawns} \X EpDescs /\ u \in {spawns} \X EpDescs
      /\ \E c \in Configs : t[2] \in DescsOf[c] /\ u[2] \in DescsOf[c]
  BY DEF HeldInv
<1>2. t = <<t[1], t[2]>> /\ u = <<u[1], u[2]>> /\ t[1] = u[1]
  BY <1>1
<1>3. t[2] = u[2]
  BY <1>1 DEF EpOf, OneDescriptorEach
<1>4. QED
  BY <1>2, <1>3

(* A packet arrives: it is the newest, and nobody else has one on its way.    *)
LEMMA PacketArrives ==
  ASSUME OneDescriptorEach, TypeInv, HeldInv, PacketInv, NEW t \in EpThreads, Carrying(t),
         got' = [got EXCEPT ![EpOf(t)] = Append(@, buf[t])], sent' = sent,
         ~Carrying(t)',
         \A u \in EpThreads \ {t} : Carrying(u)' => Carrying(u) /\ buf'[u] = buf[u]
  PROVE  PacketInv'
<1> DEFINE e == EpOf(t)
<1>1. e \in Endpoints /\ Live(t)
  BY GadgetAssumption DEF EpThreads, EpOf, Carrying, Live
<1>2. /\ got[e] \in Seq(0 .. MaxPackets) /\ buf[t] \in 0 .. MaxPackets /\ sent[e] \in Nat
      /\ got'[e] = Append(got[e], buf[t]) /\ \A f \in Endpoints \ {e} : got'[f] = got[f]
  BY <1>1, GadgetAssumption DEF TypeInv, GadgetTypeOK, EpTypeOK
<1>3. /\ DOMAIN got[e] = 1 .. Len(got[e]) /\ DOMAIN got'[e] = 1 .. Len(got[e]) + 1
      /\ Len(got[e]) \in Nat
      /\ \A i \in DOMAIN got[e] : got'[e][i] = got[e][i] /\ got[e][i] \in Nat
      /\ got'[e][Len(got[e]) + 1] = buf[t]
  <2>1. DOMAIN got[e] = 1 .. Len(got[e]) /\ Len(got[e]) \in Nat
    BY <1>2, LenProperties
  <2>2. /\ Append(got[e], buf[t]) \in Seq(0 .. MaxPackets)
        /\ Len(Append(got[e], buf[t])) = Len(got[e]) + 1
        /\ \A i \in 1 .. Len(got[e]) : Append(got[e], buf[t])[i] = got[e][i]
        /\ Append(got[e], buf[t])[Len(got[e]) + 1] = buf[t]
    BY <1>2, AppendProperties
  <2>3. DOMAIN got'[e] = 1 .. Len(got[e]) + 1
    BY <1>2, <2>2, LenProperties
  <2>4. \A i \in DOMAIN got[e] : got[e][i] \in Nat
    BY <1>2, GadgetAssumption
  <2>5. QED
    BY <1>2, <2>1, <2>2, <2>3, <2>4
<1>4. Newer(buf[t], e)
  BY DEF PacketInv
<1>5. \A i \in DOMAIN got'[e] : i \in DOMAIN got[e] \/ i = Len(got[e]) + 1
  BY <1>3
<1>6. \A i \in DOMAIN got'[e] : got'[e][i] <= sent[e]
  BY <1>1, <1>3, <1>4, <1>5 DEF PacketInv, Newer
<1>7. \A i, j \in DOMAIN got'[e] : i < j => got'[e][i] < got'[e][j]
  <2>1. SUFFICES ASSUME NEW i \in DOMAIN got'[e], NEW j \in DOMAIN got'[e], i < j
                 PROVE  got'[e][i] < got'[e][j]
    OBVIOUS
  <2>2. i \in DOMAIN got[e]
    BY <1>3, <2>1
  <2>3. CASE j \in DOMAIN got[e]
    BY <1>1, <1>3, <2>1, <2>2, <2>3 DEF PacketInv, PacketsInOrder
  <2>4. CASE j = Len(got[e]) + 1
    BY <1>3, <1>4, <2>2, <2>4 DEF Newer
  <2>5. QED
    BY <1>5, <2>3, <2>4
<1>8. PacketsInOrder' /\ \A f \in Endpoints : \A i \in DOMAIN got'[f] : got'[f][i] <= sent'[f]
  BY <1>2, <1>6, <1>7 DEF PacketInv, PacketsInOrder
<1>9. ASSUME NEW u \in EpThreads, Carrying(u)' PROVE Newer(buf[u], EpOf(u))'
  <2>1. u # t /\ Carrying(u) /\ buf'[u] = buf[u]
    BY <1>9
  <2>2. Live(u) /\ EpOf(u) \in Endpoints
    BY <2>1, GadgetAssumption DEF Carrying, Live, EpThreads, EpOf
  <2>3. EpOf(u) # e
    BY <1>1, <2>1, <2>2, OneThreadEach
  <2>4. QED
    BY <1>2, <2>1, <2>2, <2>3 DEF PacketInv, Newer
<1>10. QED
  BY <1>8, <1>9 DEF PacketInv

(* A packet is sent, by the host to the thread or by the device: it has a new *)
(* number.                                                                  *)
LEMMA PacketSent ==
  ASSUME TypeInv, PacketInv, NEW t \in EpThreads, got' = got,
         sent' = [sent EXCEPT ![EpOf(t)] = @ + 1],
         buf' = [buf EXCEPT ![t] = sent'[EpOf(t)]],
         \A u \in EpThreads \ {t} : Carrying(u)' => Carrying(u)
  PROVE  PacketInv'
<1>1. EpOf(t) \in Endpoints /\ \A u \in EpThreads : EpOf(u) \in Endpoints
  BY GadgetAssumption DEF EpThreads, EpOf
<1>2. /\ \A e \in Endpoints : sent[e] \in Nat /\ sent'[e] \in Nat /\ sent[e] <= sent'[e]
      /\ sent'[EpOf(t)] = sent[EpOf(t)] + 1
      /\ buf'[t] = sent'[EpOf(t)] /\ \A u \in EpThreads \ {t} : buf'[u] = buf[u] /\ buf[u] \in Nat
  BY <1>1, GadgetAssumption DEF TypeInv, GadgetTypeOK, EpTypeOK
<1>3. \A e \in Endpoints : \A i \in DOMAIN got[e] : got[e][i] \in Nat
  BY GadgetAssumption DEF TypeInv, GadgetTypeOK, EpTypeOK
<1>4. \A e \in Endpoints : \A i \in DOMAIN got[e] : got[e][i] <= sent'[e]
  BY <1>2, <1>3 DEF PacketInv
<1>5. Newer(buf[t], EpOf(t))'
  BY <1>1, <1>2, <1>3 DEF PacketInv, Newer
<1>6. ASSUME NEW u \in EpThreads \ {t}, Carrying(u)' PROVE Newer(buf[u], EpOf(u))'
  BY <1>1, <1>2, <1>6 DEF PacketInv, Newer
<1>7. QED
  BY <1>4, <1>5, <1>6 DEF PacketInv, PacketsInOrder
LEMMA PacketStays ==
  ASSUME PacketInv, UNCHANGED flowVars,
         \A u \in EpThreads : Carrying(u)' => Carrying(u) /\ buf'[u] = buf[u]
  PROVE  PacketInv'
BY DEF PacketInv, PacketsInOrder, Newer, flowVars

LEMMA PacketThreadStep ==
  ASSUME OneDescriptorEach, TypeInv, HeldInv, CallsOfThreads, PacketInv,
         NEW t \in EpThreads, EpStep(t)
  PROVE  PacketInv'
<1>0. /\ t \in Callers /\ EpOf(t) \in Endpoints /\ Bridge!TypeOK /\ EpTypeOK
      /\ carriedOut \in [Callers -> BOOLEAN]
  BY GadgetAssumption DEF Callers, EpThreads, EpOf, TypeInv, GadgetTypeOK, Bridge!TypeOK
<1>1. ASSUME NEW u \in EpThreads \ {t}
      PROVE  (Carrying(u)' <=> Carrying(u)) /\ buf'[u] = buf[u]
  <2>1. u \in Callers
    BY DEF Callers
  <2>2. epPc'[u] = epPc[u] /\ carriedOut'[u] = carriedOut[u] /\ status'[u] = status[u]
    BY <1>0, <2>1, ThreadStep, ThreadsApart DEF EpTypeOK
  <2>3. buf'[u] = buf[u]
    BY <1>0 DEF EpStep, EpSubmit, EpAnswered, EpFailed, EpWrite, EpRead, EpIoError, Forget, EpTypeOK
  <2>4. QED
    BY <2>2, <2>3 DEF Carrying, IsIn
<1>2. CASE EpSubmit(t)
  <2>1. /\ epPc[t] = "submit" /\ epPc'[t] = "wait" /\ ~carriedOut[t]
        /\ UNCHANGED <<carriedOut, buf, flowVars>>
    BY <1>0, <1>2 DEF EpSubmit, EpGoto, Bridge!Call, CallsOfThreads, EpTypeOK
  <2>2. Carrying(t)' => Carrying(t)
    BY <2>1 DEF Carrying, IsIn
  <2>3. QED
    BY <1>1, <2>1, <2>2, PacketStays
<1>3. CASE EpAnswered(t)
  <2>1. /\ epPc[t] = "wait" /\ epPc'[t] = (IF status[t] = "ok" THEN "io" ELSE "exited")
        /\ phase[t] = "answered" /\ UNCHANGED flowVars
        /\ IsIn(t) => buf' = buf
    BY <1>0, <1>3 DEF EpAnswered, EpGoto, Returns, EpTypeOK
  <2>2. carriedOut[t]
    BY <2>1 DEF CallsOfThreads
  <2>3. Carrying(t)' => Carrying(t) /\ buf'[t] = buf[t]
    BY <2>1, <2>2 DEF Carrying, IsIn
  <2>4. QED
    BY <1>1, <2>1, <2>3, PacketStays
<1>4. CASE EpFailed(t) \/ EpIoError(t)
  <2>1. epPc'[t] = "exited" /\ UNCHANGED flowVars
    BY <1>0, <1>4 DEF EpFailed, EpIoError, EpGoto, AfterFailure, EpTypeOK
  <2>2. ~Carrying(t)'
    BY <2>1 DEF Carrying, IsIn
  <2>3. QED
    BY <1>1, <2>1, <2>2, PacketStays
<1>5. CASE EpWrite(t)
  <2>1. /\ IsIn(t) /\ epPc[t] = "io" /\ epPc'[t] = "submit" /\ sent' = sent
        /\ got' = [got EXCEPT ![EpOf(t)] = Append(@, buf[t])]
    BY <1>0, <1>5 DEF EpWrite, EpGoto, EpTypeOK
  <2>2. Carrying(t) /\ ~Carrying(t)'
    BY <2>1 DEF Carrying, IsIn
  <2>3. QED
    BY <1>1, <2>1, <2>2, PacketArrives
<1>6. CASE EpRead(t)
  <2>1. /\ got' = got /\ sent' = [sent EXCEPT ![EpOf(t)] = @ + 1]
        /\ buf' = [buf EXCEPT ![t] = sent'[EpOf(t)]]
    BY <1>6 DEF EpRead
  <2>2. QED
    BY <1>1, <2>1, PacketSent
<1>7. QED
  BY <1>2, <1>3, <1>4, <1>5, <1>6 DEF EpStep

LEMMA PacketDeviceStep ==
  ASSUME OneDescriptorEach, TypeInv, HeldInv, CallsOfThreads, PacketInv,
         NEW t \in EpThreads, DeviceStep(t)
  PROVE  PacketInv'
<1>0. /\ t \in Callers /\ EpOf(t) \in Endpoints /\ Bridge!TypeOK /\ EpTypeOK
      /\ status \in [Callers -> {"ok", "bad"}]
  BY GadgetAssumption DEF Callers, EpThreads, EpOf, TypeInv, GadgetTypeOK, OutsideTypeOK
<1>1. epPc' = epPc /\ epPc[t] = "wait" /\ ~carriedOut[t] /\ carriedOut'[t]
  <2>1. DeviceServes(t)
    BY DEF DeviceStep, DeviceSends, DeviceReceives, DeviceRefuses
  <2>2. phase[t] # "idle" /\ epPc' = epPc /\ ~carriedOut[t] /\ carriedOut'[t]
    BY <1>0, <2>1 DEF DeviceServes, Bridge!CarryOut, Bridge!TypeOK
  <2>3. QED
    BY <2>2 DEF CallsOfThreads
<1>2. ASSUME NEW u \in EpThreads \ {t}
      PROVE  (Carrying(u)' <=> Carrying(u)) /\ buf'[u] = buf[u]
  <2>1. u \in Callers
    BY DEF Callers
  <2>2. carriedOut'[u] = carriedOut[u] /\ status'[u] = status[u]
    BY <2>1, ThreadsApart
  <2>3. buf'[u] = buf[u]
    BY <1>0 DEF DeviceStep, DeviceSends, DeviceReceives, DeviceRefuses, EpTypeOK
  <2>4. QED
    BY <1>1, <2>2, <2>3 DEF Carrying, IsIn
<1>3. CASE DeviceSends(t)
  <2>1. /\ got' = got /\ sent' = [sent EXCEPT ![EpOf(t)] = @ + 1]
        /\ buf' = [buf EXCEPT ![t] = sent'[EpOf(t)]]
    BY <1>3 DEF DeviceSends
  <2>2. QED
    BY <1>2, <2>1, PacketSent
<1>4. CASE DeviceReceives(t)
  <2>1. /\ ~IsIn(t) /\ sent' = sent
        /\ got' = [got EXCEPT ![EpOf(t)] = Append(@, buf[t])]
    BY <1>4 DEF DeviceReceives
  <2>2. Carrying(t) /\ ~Carrying(t)'
    BY <1>1, <2>1 DEF Carrying, IsIn
  <2>3. QED
    BY <1>2, <2>1, <2>2, PacketArrives
<1>5. CASE DeviceRefuses(t)
  <2>1. status'[t] = "bad" /\ UNCHANGED flowVars
    BY <1>0, <1>5 DEF DeviceRefuses
  <2>2. ~Carrying(t)'
    BY <1>1, <2>1 DEF Carrying, IsIn
  <2>3. QED
    BY <1>2, <2>1, <2>2, PacketStays
<1>6. QED
  BY <1>3, <1>4, <1>5 DEF DeviceStep

LEMMA PacketStep ==
  ASSUME OneDescriptorEach, TypeInv, JoinInv, HeldInv, CallsOfThreads, PacketInv, [Next]_vars
  PROVE  PacketInv'
<1>0. Main \notin EpThreads /\ EpThreads \subseteq Callers /\ Main \in Callers /\ Bridge!TypeOK
      /\ status \in [Callers -> {"ok", "bad"}]
  BY GadgetAssumption DEF Callers, TypeInv, GadgetTypeOK, OutsideTypeOK
<1>1. CASE MainStep
  <2>1. \A t \in EpThreads : carriedOut'[t] = carriedOut[t] /\ status'[t] = status[t]
    <3>1. CASE MainSubmit \/ MainAnswered \/ MainFailed
      BY <1>0, <3>1 DEF MainSubmit, MainAnswered, MainFailed, Returns, Bridge!Call, Bridge!Return,
                        Bridge!TypeOK, devVars
    <3>2. CASE ~(MainSubmit \/ MainAnswered \/ MainFailed)
      BY <1>1, <3>2 DEF MainStep, FetchControl, FetchDown, FetchNotice, Fetch, ReadData, Reply,
         ReplyFails, Enable, Spawn, Join, callVars, devVars
    <3>3. QED
      BY <3>1, <3>2
  <2>2. buf' = buf /\ UNCHANGED flowVars
    BY <1>1, SpawnStarts
       DEF MainStep, FetchControl, FetchDown, FetchNotice, Fetch, ReadData, MainSubmit, MainAnswered,
           MainFailed, Reply, ReplyFails, Enable, Join, MainAt, epVars
  <2>3. CASE Spawn
    <3>1. ASSUME NEW t \in EpThreads, t \in epThreads' PROVE ~Carrying(t)'
      <4>1. epPc'[t] = FirstStep(t) /\ epPc[t] = "none"
        BY <2>3, <3>1, SpawnStarts DEF JoinInv
      <4>2. QED
        BY <4>1 DEF FirstStep, Carrying, IsIn
    <3>2. ASSUME NEW t \in EpThreads, t \notin epThreads' PROVE Carrying(t)' => Carrying(t)
      <4>1. epPc'[t] = epPc[t]
        BY <2>3, <3>2, SpawnStarts
      <4>2. QED
        BY <2>1, <4>1 DEF Carrying, IsIn
    <3>3. QED
      BY <2>2, <3>1, <3>2, PacketStays
  <2>4. CASE ~Spawn
    <3>1. epPc' = epPc
      BY <1>1, <2>4 DEF MainStep, FetchControl, FetchDown, FetchNotice, Fetch, ReadData, MainSubmit,
         MainAnswered, MainFailed, Reply, ReplyFails, Enable, Join, epVars
    <3>2. \A t \in EpThreads : Carrying(t)' => Carrying(t)
      BY <2>1, <3>1 DEF Carrying, IsIn
    <3>3. QED
      BY <2>2, <3>2, PacketStays
  <2>5. QED
    BY <2>3, <2>4
<1>2. ASSUME UNCHANGED <<epVars, flowVars>>,
             \A t \in EpThreads : carriedOut'[t] = carriedOut[t] /\ status'[t] = status[t]
      PROVE  PacketInv'
  <2>1. \A t \in EpThreads : Carrying(t)' => Carrying(t) /\ buf'[t] = buf[t]
    BY <1>2 DEF Carrying, IsIn, epVars
  <2>2. QED
    BY <1>2, <2>1, PacketStays
<1>3. CASE HostStep \/ UNCHANGED vars \/ ConnLost
  BY <1>2, <1>3
     DEF HostStep, HostRequest, HostDrops, HostNotice, HostActs, ConnLost, vars, callVars,
                    devVars
<1>4. CASE DeviceControl
  BY <1>0, <1>2, <1>4 DEF DeviceControl, DeviceServes, Bridge!CarryOut, Bridge!TypeOK, epVars
<1>5. CASE \/ \E t \in Callers : AnswerArrives(t)
           \/ \E T \in SUBSET Callers : CallsFail(T)
  BY <1>2, <1>5 DEF AnswerArrives, CallsFail, Bridge!Answer, Bridge!Fail, devVars
<1>6. QED
  BY <1>1, <1>3, <1>4, <1>5, PacketThreadStep, PacketDeviceStep DEF Next

(* Packets arrive in the order they were sent, and none twice, across resets  *)
(* and new configurations (main.rs:195, 222), for a host that waits and goes   *)
(* through a reset between two configurations, and a device without alternate  *)
(* settings: one thread at most works for an endpoint.                      *)
THEOREM PacketsArriveInOrder ==
  ASSUME HostGivesUp = {}, ~HostReselects, StandardRequests, NeverDeconfigures,
         OneDescriptorEach
  PROVE  Spec => []PacketsInOrder
<1>1. Init => JoinInv /\ CallsOfThreads /\ PacketInv
  <2>1. SUFFICES ASSUME Init PROVE JoinInv /\ CallsOfThreads /\ PacketInv
    OBVIOUS
  <2>2. ASSUME NEW t \in EpThreads
        PROVE  epPc[t] = "none" /\ phase[t] = "idle" /\ carriedOut[t] = FALSE
    BY <2>1 DEF Init, Bridge!Init, Callers
  <2>3. JoinInv /\ CallsOfThreads
    BY <2>2 DEF JoinInv, CallsOfThreads
  <2>4. \A t \in EpThreads : ~Carrying(t)
    BY <2>2 DEF Carrying
  <2>5. \A e \in Endpoints : DOMAIN got[e] = {}
    <3>1. ASSUME NEW e \in Endpoints PROVE got[e] = << >>
      BY <2>1 DEF Init
    <3>2. DOMAIN << >> = {}
      OBVIOUS
    <3>3. QED
      BY <3>1, <3>2
  <2>6. QED
    BY <2>3, <2>4, <2>5 DEF PacketInv, PacketsInOrder
<1>2. ResettingInv /\ JoinInv /\ CallsOfThreads /\ PacketInv /\ [Next]_vars
      => JoinInv' /\ CallsOfThreads' /\ PacketInv'
  <2>1. SUFFICES ASSUME ResettingInv, JoinInv, CallsOfThreads, PacketInv, [Next]_vars
                 PROVE  JoinInv' /\ CallsOfThreads' /\ PacketInv'
    OBVIOUS
  <2>2. TypeInv /\ HeldInv
    BY <2>1 DEF ResettingInv
  <2>3. JoinInv'
    BY <2>1, <2>2, JoinStepInv
  <2>4. CallsOfThreads'
    BY <2>1, <2>2, CallsOfThreadsStep
  <2>5. PacketInv'
    BY <2>1, <2>2, PacketStep
  <2>6. QED
    BY <2>3, <2>4, <2>5
<1>3. PacketInv => PacketsInOrder
  BY DEF PacketInv
<1>4. QED
  BY <1>1, <1>2, <1>3, ResettingCorrect, PTL DEF Spec
=============================================================================
