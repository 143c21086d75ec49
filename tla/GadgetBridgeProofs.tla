------------------------- MODULE GadgetBridgeProofs -------------------------
(***************************************************************************)
(* Theorems about GadgetBridge, for every device, every set of requests and *)
(* every conduct of the host.                                              *)
(***************************************************************************)
EXTENDS GadgetBridge, SequenceTheorems, FiniteSetTheorems, TLAPS

-----------------------------------------------------------------------------
(* Type correctness.  The SET_CONFIGURATIONs on their way are counted before *)
(* main starts their threads, and main has a descriptor when it does.        *)

Committed == {"enable", "ackConfig", "spawn"}

ConfigSteps ==
  /\ mainPc \in Committed => IsSetConfig(ctrl)
  /\ mainPc \in {"ackConfig", "spawn"} => cache # None

SetConfigsBounded == SetConfigsMade <= MaxSpawns

CallsOfMain == mainPc \notin {"wait", "exited"} => phase[Main] = "idle" /\ ~carriedOut[Main]

TypeInv == GadgetTypeOK /\ ConfigSteps /\ CallsOfMain /\ SetConfigsBounded

LEMMA HostServedType ==
  ASSUME OutsideTypeOK, NEW in, HostServed(in)
  PROVE  /\ hostReq' \in Requests \cup {None} /\ hostCfg' \in Configs \cup {None}
         /\ hostRead' \in Descriptor \cup {None} /\ events' = events
BY GadgetAssumption
   DEF OutsideTypeOK, HostServed, Request, Descriptor, Contents, IsGetConfig

LEMMA CallTypeStep ==
  ASSUME Bridge!TypeOK, [Bridge!Next]_callVars PROVE Bridge!TypeOK'
<1>1. ASSUME NEW t \in Callers, Bridge!Call(t) \/ Bridge!CarryOut(t) \/ Bridge!Answer(t)
                                  \/ Bridge!Return(t)
      PROVE  Bridge!TypeOK'
  BY <1>1 DEF Bridge!TypeOK, Bridge!Call, Bridge!CarryOut, Bridge!Answer, Bridge!Return,
              Bridge!Move, Bridge!Phase
<1>2. ASSUME NEW T \in SUBSET Callers, Bridge!Fail(T) PROVE Bridge!TypeOK'
  BY <1>2 DEF Bridge!TypeOK, Bridge!Fail, Bridge!Phase
<1>3. CASE UNCHANGED callVars
  BY <1>3 DEF callVars, Bridge!TypeOK
<1>4. QED
  BY <1>1, <1>2, <1>3 DEF Bridge!Next

(* Every step of the program makes, serves or ends a call as UrbCalls says. *)
LEMMA StepIsCallStep == [Next]_vars => [Bridge!Next]_callVars
<1> SUFFICES ASSUME [Next]_vars PROVE Bridge!Next \/ UNCHANGED callVars
  OBVIOUS
<1>1. Main \in Callers /\ EpThreads \subseteq Callers
  BY DEF Callers
<1>2. CASE UNCHANGED vars
  BY <1>2 DEF vars
<1>3. CASE MainStep
  BY <1>1, <1>3 DEF MainStep, FetchControl, FetchDown, FetchNotice, Fetch, ReadData, MainSubmit,
     MainAnswered, MainFailed, Reply, ReplyFails, Enable, Spawn, Join, Returns, Bridge!Next
<1>4. CASE HostStep \/ ConnLost
  BY <1>4 DEF HostStep, HostRequest, HostDrops, HostNotice, HostActs, ConnLost
<1>5. CASE DeviceControl
  BY <1>1, <1>5 DEF DeviceControl, DeviceServes, Bridge!Next
<1>6. ASSUME NEW t \in EpThreads, EpStep(t) \/ DeviceStep(t)
      PROVE  Bridge!Next \/ UNCHANGED callVars
  BY <1>1, <1>6 DEF EpStep, EpSubmit, EpAnswered, EpFailed, EpWrite, EpRead, EpIoError, Returns,
     DeviceStep, DeviceSends, DeviceReceives, DeviceRefuses, DeviceServes, Bridge!Next
<1>7. ASSUME NEW t \in Callers, AnswerArrives(t) PROVE Bridge!Next
  BY <1>7 DEF AnswerArrives, Bridge!Next
<1>8. ASSUME NEW T \in SUBSET Callers, CallsFail(T) PROVE Bridge!Next
  BY <1>8 DEF CallsFail, Bridge!Next
<1>9. QED
  BY <1>2, <1>3, <1>4, <1>5, <1>6, <1>7, <1>8 DEF Next

LEMMA QueuedFinite ==
  ASSUME events \in Seq(Event)
  PROVE  IsFiniteSet(SetConfigsQueued) /\ Cardinality(SetConfigsQueued) \in Nat
<1>1. DOMAIN events = 1 .. Len(events) /\ Len(events) \in Nat
  BY LenProperties
<1>2. SetConfigsQueued \in SUBSET (1 .. Len(events))
  BY <1>1 DEF SetConfigsQueued
<1>3. IsFiniteSet(1 .. Len(events))
  BY <1>1, FS_Interval
<1>4. QED
  BY <1>2, <1>3, FS_Subset, FS_CardinalityType

LEMMA TypeInit == Init => TypeInv
<1> SUFFICES ASSUME Init PROVE TypeInv
  OBVIOUS
<1> USE GadgetAssumption DEF Init
<1>1. Bridge!TypeOK
  BY DEF Bridge!Init, Bridge!TypeOK, Bridge!Phase
<1>2. MainTypeOK /\ EpTypeOK
  BY EmptySeq DEF MainTypeOK, EpTypeOK
<1>3. OutsideTypeOK
  BY EmptySeq DEF OutsideTypeOK
<1>4. ConfigSteps /\ CallsOfMain /\ SetConfigsBounded
  <2>1. SetConfigsQueued = {} /\ ~SetConfigHandled
    BY DEF SetConfigsQueued, SetConfigHandled
  <2>2. SetConfigsBounded
    BY <2>1, FS_EmptySet DEF SetConfigsBounded, SetConfigsMade
  <2>3. QED
    BY <2>2 DEF CallsOfMain, Callers, Bridge!Init, ConfigSteps, Committed
<1>5. QED
  BY <1>1, <1>2, <1>3, <1>4 DEF TypeInv, GadgetTypeOK

(* What main does to its own variables.                                     *)
LEMMA MainTypeStep ==
  ASSUME TypeInv, MainStep
  PROVE  MainTypeOK' /\ ConfigSteps'
<1> USE GadgetAssumption DEF TypeInv, GadgetTypeOK, MainTypeOK, ConfigSteps, Committed, MainAt,
        Go, Done, Exit, confVars, epVars
<1>1. ctrl # None => ctrl \in Requests
  OBVIOUS
<1>2. CASE FetchControl
  <2>1. events # <<>> /\ Head(events) \in Event /\ Head(events).type = "Control"
    BY <1>2, HeadTailProperties DEF FetchControl, Fetch, OutsideTypeOK
  <2>2. ctrl' \in Requests
    BY <1>2, <2>1 DEF FetchControl, Event
  <2>3. mainPc' \in {"ack", "data", "submit"}
    BY <1>2 DEF FetchControl
  <2>4. UNCHANGED <<cache, epThreads, spawns, epPc>>
    BY <1>2 DEF FetchControl, Fetch
  <2>5. QED
    BY <2>2, <2>3, <2>4
<1>3. CASE FetchDown \/ FetchNotice \/ ReadData \/ MainSubmit \/ MainFailed \/ Reply \/ ReplyFails
  BY <1>1, <1>3
     DEF FetchDown, FetchNotice, Fetch, ReadData, MainSubmit, MainFailed, Reply, ReplyFails
<1>4. CASE MainAnswered
  <2>1. ctrl \in Requests /\ mainPc = "wait"
    BY <1>1, <1>4 DEF MainAnswered
  <2>2. /\ mainPc' \in {"fetch", "stall", "enable", "write", "ack"}
        /\ mainPc' = "enable" => IsSetConfig(ctrl)
    BY <1>4 DEF MainAnswered, AfterAnswer, Refused, OnRefusal
  <2>3. ctrl' = IF mainPc' = "fetch" THEN None ELSE ctrl
    BY <1>4 DEF MainAnswered
  <2>4. cache' \in Descriptor \cup {None}
    BY <1>4, <2>1 DEF MainAnswered, ConfigRead, IsGetConfig, Contents, Descriptor, Request
  <2>5. UNCHANGED <<epThreads, spawns, epPc>>
    BY <1>4 DEF MainAnswered
  <2>6. QED
    BY <2>1, <2>2, <2>3, <2>4, <2>5
<1>5. CASE Enable
  BY <1>5 DEF Enable
<1>6. CASE Spawn
  <2>1. spawns' \in 1 .. MaxSpawns
    BY <1>6, QueuedFinite DEF Spawn, SetConfigsBounded, SetConfigsMade, SetConfigHandled, OutsideTypeOK
  <2>2. epThreads' = {spawns'} \X Parsed /\ Parsed \subseteq EpDescs
    BY <1>6 DEF Spawn, Parsed, Descriptor
  <2>3. epThreads' \subseteq EpThreads
    BY <2>1, <2>2 DEF EpThreads
  <2>4. \A t \in epThreads' : epPc'[t] # "none"
    BY <1>6, <2>3 DEF Spawn, FirstStep
  <2>5. QED
    BY <1>6, <2>1, <2>3, <2>4 DEF Spawn
<1>7. CASE Join
  BY <1>7 DEF Join
<1>8. QED
  BY <1>2, <1>3, <1>4, <1>5, <1>6, <1>7 DEF MainStep

(* What main does to everything else.                                       *)
LEMMA MainOutsideStep ==
  ASSUME TypeInv, MainStep
  PROVE  EpTypeOK' /\ OutsideTypeOK'
<1> USE DEF TypeInv, GadgetTypeOK, MainAt, epVars, flowVars
<1>1. Main \in Callers
  BY DEF Callers
<1>2. EpTypeOK'
  <2>1. CASE Spawn
    BY <2>1 DEF Spawn, FirstStep, EpTypeOK
  <2>2. CASE ~Spawn
    BY <2>2 DEF MainStep, FetchControl, FetchDown, FetchNotice, Fetch, ReadData, MainSubmit,
       MainAnswered, MainFailed, Reply, ReplyFails, Enable, Join, EpTypeOK
  <2>3. QED
    BY <2>1, <2>2
<1>3. CASE FetchControl \/ FetchDown \/ FetchNotice
  <2>1. events' \in Seq(Event)
    BY <1>3, HeadTailProperties DEF FetchControl, FetchDown, FetchNotice, Fetch, OutsideTypeOK
  <2>2. QED
    BY <1>2, <1>3, <2>1 DEF FetchControl, FetchDown, FetchNotice, Fetch, OutsideTypeOK, devVars
<1>4. CASE ReadData \/ Reply
  <2>1. /\ hostReq' \in Requests \cup {None} /\ hostCfg' \in Configs \cup {None}
        /\ hostRead' \in Descriptor \cup {None} /\ events' = events
    BY <1>4, HostServedType DEF ReadData, Reply, HostStalled, OutsideTypeOK, hostVars
  <2>2. QED
    BY <1>2, <1>4, <2>1 DEF ReadData, Reply, devVars, OutsideTypeOK
<1>5. CASE MainSubmit \/ MainAnswered \/ MainFailed \/ ReplyFails \/ Enable \/ Spawn \/ Join
  BY <1>1, <1>2, <1>5
     DEF MainSubmit, MainAnswered, MainFailed, ReplyFails, Enable, Spawn, Join, Returns,
     OutsideTypeOK, devVars, hostVars
<1>6. QED
  BY <1>3, <1>4, <1>5 DEF MainStep

(* The endpoint threads, the device and the connection leave main and the    *)
(* host alone, apart from ending the steps of a thread.                     *)
LEMMA ThreadStep ==
  ASSUME TypeInv, NEW t \in EpThreads, EpStep(t)
  PROVE  /\ EpTypeOK' /\ OutsideTypeOK'
         /\ \E pc \in {"submit", "wait", "io", "exited"} : epPc' = [epPc EXCEPT ![t] = pc]
         /\ epPc[t] \in {"submit", "wait", "io"}
         /\ UNCHANGED <<mainVars, hostVars, devCfg>>
<1> USE GadgetAssumption
    DEF TypeInv, GadgetTypeOK, EpGoto, devVars, callVars, flowVars, EpTypeOK, OutsideTypeOK, hostVars
<1>1. t \in Callers /\ EpOf(t) \in Endpoints
  BY GadgetAssumption DEF Callers, EpThreads, EpOf
<1>2. CASE EpSubmit(t)
  BY <1>2 DEF EpSubmit
<1>3. CASE EpAnswered(t)
  <2>1. EpGoto(t, "wait", "io") \/ EpGoto(t, "wait", "exited")
    <3>1. CASE status[t] = "ok"
      BY <1>3, <3>1 DEF EpAnswered
    <3>2. CASE status[t] # "ok"
      BY <1>3, <3>2 DEF EpAnswered
    <3>3. QED
      BY <3>1, <3>2
  <2>2. buf' \in [EpThreads -> 0 .. MaxPackets]
    <3>1. CASE IsIn(t)
      BY <1>3, <3>1 DEF EpAnswered
    <3>2. CASE ~IsIn(t)
      <4>1. buf' = [buf EXCEPT ![t] = 0]
        BY <1>3, <3>2 DEF EpAnswered, Forget
      <4>2. 0 \in 0 .. MaxPackets
        OBVIOUS
      <4>3. QED
        BY <4>1, <4>2
    <3>3. QED
      BY <3>1, <3>2
  <2>3. status' \in [Callers -> {"ok", "bad"}] /\ UNCHANGED <<connUp, devCfg>>
    BY <1>1, <1>3 DEF EpAnswered, Returns
  <2>4. UNCHANGED <<sent, got>>
    BY <1>3 DEF EpAnswered
  <2>5. QED
    BY <2>1, <2>2, <2>3, <2>4
<1>4. CASE EpFailed(t)
  BY <1>1, <1>4 DEF EpFailed, Returns, Forget, AfterFailure
<1>5. CASE EpWrite(t)
  <2>1. got' \in [Endpoints -> Seq(0 .. MaxPackets)]
    BY <1>1, <1>5, AppendProperties DEF EpWrite
  <2>2. QED
    BY <1>5, <2>1 DEF EpWrite, Forget
<1>6. CASE EpRead(t)
  BY <1>1, <1>6 DEF EpRead
<1>7. CASE EpIoError(t)
  BY <1>7 DEF EpIoError, Forget
<1>8. QED
  BY <1>2, <1>3, <1>4, <1>5, <1>6, <1>7 DEF EpStep

LEMMA OtherStep ==
  ASSUME TypeInv,
         \/ DeviceControl \/ ConnLost
         \/ \E t \in EpThreads : DeviceStep(t)
         \/ \E t \in Callers : AnswerArrives(t)
         \/ \E T \in SUBSET Callers : CallsFail(T)
  PROVE  EpTypeOK' /\ OutsideTypeOK' /\ UNCHANGED <<mainVars, epPc, hostVars>>
<1> USE GadgetAssumption
    DEF TypeInv, GadgetTypeOK, DeviceServes, devVars, callVars, flowVars, epVars, EpTypeOK,
        OutsideTypeOK, hostVars
<1>1. Main \in Callers /\ EpThreads \subseteq Callers
  BY DEF Callers
<1>2. CASE DeviceControl
  <2>1. ctrl \in Requests
    BY <1>2 DEF DeviceControl, Running, Bridge!CarryOut, CallsOfMain, MainTypeOK
  <2>2. devCfg' \in Configs \cup {None}
    BY <1>2, <2>1 DEF DeviceControl, Request
  <2>3. QED
    BY <1>1, <1>2, <2>2 DEF DeviceControl
<1>3. ASSUME NEW t \in EpThreads, DeviceStep(t)
      PROVE  EpTypeOK' /\ OutsideTypeOK' /\ UNCHANGED <<mainVars, epPc, hostVars>>
  <2>1. t \in Callers /\ EpOf(t) \in Endpoints
    BY GadgetAssumption DEF Callers, EpThreads, EpOf
  <2>2. CASE DeviceSends(t)
    <3>1. sent' \in [Endpoints -> 0 .. MaxPackets]
      BY <2>1, <2>2 DEF DeviceSends
    <3>2. buf' \in [EpThreads -> 0 .. MaxPackets]
      BY <2>1, <2>2, <3>1 DEF DeviceSends
    <3>3. QED
      BY <2>1, <2>2, <3>1, <3>2 DEF DeviceSends
  <2>5. CASE DeviceRefuses(t)
    BY <2>1, <2>5 DEF DeviceRefuses
  <2>3. CASE DeviceReceives(t)
    <3>1. got' \in [Endpoints -> Seq(0 .. MaxPackets)]
      BY <2>1, <2>3, AppendProperties DEF DeviceReceives
    <3>2. QED
      BY <2>1, <2>3, <3>1 DEF DeviceReceives
  <2>4. QED
    BY <1>3, <2>2, <2>3, <2>5 DEF DeviceStep
<1>4. CASE ConnLost \/ (\E t \in Callers : AnswerArrives(t)) \/ \E T \in SUBSET Callers : CallsFail(T)
  BY <1>4 DEF ConnLost, AnswerArrives, CallsFail
<1>5. QED
  BY <1>2, <1>3, <1>4

LEMMA HostTypeStep ==
  ASSUME TypeInv, HostStep
  PROVE  EpTypeOK' /\ OutsideTypeOK' /\ UNCHANGED <<mainVars, epVars, callVars, devVars>>
<1> USE GadgetAssumption DEF TypeInv, GadgetTypeOK, HostActs, EpTypeOK, OutsideTypeOK, epVars, devVars, flowVars
<1>1. ASSUME NEW r \in Requests, HostRequest(r)
      PROVE  EpTypeOK' /\ OutsideTypeOK' /\ UNCHANGED <<mainVars, epVars, callVars, devVars>>
  <2>1. [type |-> "Control", req |-> r] \in Event
    BY DEF Event
  <2>2. events' \in Seq(Event)
    BY <1>1, <2>1, AppendProperties DEF HostRequest
  <2>3. QED
    BY <1>1, <2>2 DEF HostRequest
<1>2. CASE HostDrops
  <2>1. [type |-> "Down", req |-> None] \in Event
    BY DEF Event
  <2>2. events' \in Seq(Event)
    BY <1>2, <2>1, AppendProperties DEF HostDrops
  <2>3. QED
    BY <1>2, <2>2 DEF HostDrops
<1>3. CASE HostNotice
  <2>1. [type |-> "Notice", req |-> None] \in Event
    BY DEF Event
  <2>2. events' \in Seq(Event)
    BY <1>3, <2>1 DEF HostNotice
  <2>3. QED
    BY <1>3, <2>2 DEF HostNotice
<1>4. QED
  BY <1>1, <1>2, <1>3 DEF HostStep

(* A SET_CONFIGURATION moves from the queue to main and from there to the    *)
(* starts that are counted; no step of the program makes one.               *)
LEMMA BoundedStep == TypeInv /\ [Next]_vars => SetConfigsBounded'
<1> SUFFICES ASSUME TypeInv, [Next]_vars PROVE SetConfigsBounded'
  OBVIOUS
<1> USE DEF TypeInv, GadgetTypeOK, MainTypeOK, SetConfigsBounded, SetConfigsMade
<1>0. /\ events \in Seq(Event) /\ DOMAIN events = 1 .. Len(events) /\ Len(events) \in Nat
      /\ IsFiniteSet(SetConfigsQueued) /\ Cardinality(SetConfigsQueued) \in Nat
      /\ spawns \in Nat /\ MaxSpawns \in Nat
  BY LenProperties, QueuedFinite, GadgetAssumption DEF OutsideTypeOK
<1>1. ASSUME UNCHANGED events, spawns' = spawns, ctrl' \in {ctrl, None}
      PROVE  SetConfigsBounded'
  <2>1. SetConfigsQueued' = SetConfigsQueued /\ (SetConfigHandled' => SetConfigHandled)
    BY <1>1 DEF SetConfigsQueued, SetConfigHandled
  <2>2. QED
    BY <1>0, <1>1, <2>1
<1>2. ASSUME NEW type, Fetch(type), spawns' = spawns,
             ctrl' = None \/ (ctrl' = Head(events).req /\ type = "Control")
      PROVE  SetConfigsBounded'
  <2>1. /\ events' = Tail(events) /\ events # <<>> /\ Head(events) = events[1]
        /\ Len(events') = Len(events) - 1 /\ DOMAIN events' = 1 .. Len(events')
        /\ \A i \in 1 .. Len(events') : events'[i] = events[i + 1]
    BY <1>0, <1>2, HeadTailProperties, LenProperties DEF Fetch
  <2>2. \A i \in SetConfigsQueued' : i \in Nat /\ i + 1 \in SetConfigsQueued \ {1}
    BY <1>0, <2>1 DEF SetConfigsQueued
  <2>3. SetConfigHandled' => 1 \in SetConfigsQueued
    BY <1>0, <1>2, <2>1 DEF Fetch, SetConfigsQueued, SetConfigHandled
  <2>4. ~SetConfigHandled
    BY <1>2 DEF Fetch, MainAt, SetConfigHandled
  <2> DEFINE Behind == SetConfigsQueued \ {1}
             next   == [i \in SetConfigsQueued' |-> i + 1]
  <2>5. IsFiniteSet(Behind)
        /\ Cardinality(Behind) =
             IF 1 \in SetConfigsQueued THEN Cardinality(SetConfigsQueued) - 1
             ELSE Cardinality(SetConfigsQueued)
    BY <1>0, FS_RemoveElement
  <2>6. next \in Injection(SetConfigsQueued', Behind)
    BY <2>2 DEF Injection, IsInjective
  <2>7. IsFiniteSet(SetConfigsQueued') /\ Cardinality(SetConfigsQueued') <= Cardinality(Behind)
    <3> HIDE DEF next, Behind
    <3>1. QED
      BY <2>5, <2>6, FS_Injection
  <2>8. Cardinality(SetConfigsQueued)' = Cardinality(SetConfigsQueued')
    OBVIOUS
  <2>9. Cardinality(SetConfigsQueued') \in Nat
    BY <2>7, FS_CardinalityType
  <2> HIDE DEF next, Behind
  <2>10. QED
    BY <1>0, <1>2, <2>3, <2>4, <2>5, <2>7, <2>8, <2>9
<1>3. CASE MainStep
  <2>1. CASE FetchControl
    BY <1>2, <2>1 DEF FetchControl, Fetch, confVars
  <2>2. CASE FetchDown
    BY <1>2, <2>2 DEF FetchDown, Fetch, confVars, Go, MainAt, MainTypeOK
  <2>3. CASE FetchNotice
    BY <1>2, <2>3 DEF FetchNotice, Fetch, confVars, Done
  <2>4. CASE Spawn
    <3>1. /\ SetConfigHandled /\ ~SetConfigHandled' /\ events' = events /\ spawns' = spawns + 1
      BY <2>4, GadgetAssumption
         DEF Spawn, MainAt, ConfigSteps, Committed, Done, hostVars, SetConfigHandled, Request
    <3>2. SetConfigsQueued' = SetConfigsQueued
      BY <3>1 DEF SetConfigsQueued
    <3>3. QED
      BY <1>0, <3>1, <3>2
  <2>5. CASE ~(FetchControl \/ FetchDown \/ FetchNotice \/ Spawn)
    <3>1. UNCHANGED events /\ spawns' = spawns /\ ctrl' \in {ctrl, None}
      BY <1>3, <2>5
         DEF MainStep, ReadData, MainSubmit, MainAnswered, MainFailed, Reply, ReplyFails, Enable, Join,
             HostServed, HostStalled, hostVars, confVars, Go, Done, Exit
    <3>2. QED
      BY <1>1, <3>1
  <2>6. QED
    BY <2>1, <2>2, <2>3, <2>4, <2>5
<1>4. ASSUME NEW e \in Event, events' = Append(events, e) \/ (events = <<>> /\ events' = <<e>>),
             UNCHANGED mainVars,
             e.type = "Control" /\ IsSetConfig(e.req) => SetConfigsMade < MaxSpawns
      PROVE  SetConfigsBounded'
  <2>1. /\ Len(events') = Len(events) + 1 /\ DOMAIN events' = 1 .. Len(events')
        /\ \A i \in 1 .. Len(events) : events'[i] = events[i]
        /\ events'[Len(events')] = e
    <3>1. CASE events' = Append(events, e)
      BY <1>0, <3>1, AppendProperties, LenProperties
    <3>2. CASE events = <<>> /\ events' = <<e>>
      BY <1>0, <3>2
    <3>3. QED
      BY <1>4, <3>1, <3>2
  <2>2. SetConfigsQueued' =
          IF e.type = "Control" /\ IsSetConfig(e.req)
          THEN SetConfigsQueued \cup {Len(events')} ELSE SetConfigsQueued
    BY <1>0, <2>1 DEF SetConfigsQueued
  <2>3. SetConfigHandled' = SetConfigHandled /\ spawns' = spawns
    BY <1>4 DEF SetConfigHandled, mainVars, confVars
  <2>4. Cardinality(SetConfigsQueued \cup {Len(events')}) <= Cardinality(SetConfigsQueued) + 1
        /\ Cardinality(SetConfigsQueued \cup {Len(events')}) \in Nat
    <3>1. PICK n : n = Len(events')
      OBVIOUS
    <3>2. /\ IsFiniteSet(SetConfigsQueued \cup {n})
          /\ Cardinality(SetConfigsQueued \cup {n}) =
               IF n \in SetConfigsQueued THEN Cardinality(SetConfigsQueued)
               ELSE Cardinality(SetConfigsQueued) + 1
      BY <1>0, FS_AddElement
    <3>3. QED
      BY <1>0, <3>1, <3>2
  <2>5. QED
    BY <1>0, <1>4, <2>2, <2>3, <2>4
<1>5. ASSUME NEW r \in Requests, HostRequest(r) PROVE SetConfigsBounded'
  <2>1. [type |-> "Control", req |-> r] \in Event
    BY DEF Event
  <2>2. QED
    BY <1>4, <1>5, <2>1 DEF HostRequest, HostActs
<1>6. CASE HostDrops \/ HostNotice
  <2>1. [type |-> "Down", req |-> None] \in Event /\ [type |-> "Notice", req |-> None] \in Event
    BY DEF Event
  <2>2. QED
    BY <1>4, <1>6, <2>1 DEF HostDrops, HostNotice, HostActs
<1>7. CASE UNCHANGED vars
  BY <1>1, <1>7 DEF vars, mainVars, confVars, hostVars
<1>8. ASSUME NEW t \in EpThreads, EpStep(t) PROVE SetConfigsBounded'
  BY <1>1, <1>8, ThreadStep DEF mainVars, confVars, hostVars
<1>9. CASE \/ DeviceControl \/ ConnLost
           \/ \E t \in EpThreads : DeviceStep(t)
           \/ \E t \in Callers : AnswerArrives(t)
           \/ \E T \in SUBSET Callers : CallsFail(T)
  BY <1>1, <1>9, OtherStep DEF mainVars, confVars, hostVars
<1>10. QED
  BY <1>3, <1>5, <1>6, <1>7, <1>8, <1>9 DEF Next, HostStep

(* What an endpoint thread or the device does with a call of a thread is not *)
(* seen by main.                                                            *)
LEMMA ThreadCallStep ==
  ASSUME TypeInv, NEW t \in EpThreads, EpStep(t) \/ DeviceStep(t)
  PROVE  phase'[Main] = phase[Main] /\ carriedOut'[Main] = carriedOut[Main]
<1> USE DEF TypeInv, GadgetTypeOK, Bridge!TypeOK
<1>1. t # Main /\ t \in Callers /\ Main \in Callers
  BY GadgetAssumption DEF Callers
<1>2. CASE EpStep(t)
  BY <1>1, <1>2
     DEF EpStep, EpSubmit, EpAnswered, EpFailed, EpWrite, EpRead, EpIoError, Returns, callVars,
         Bridge!Call, Bridge!Return, Bridge!Move
<1>3. CASE DeviceStep(t)
  BY <1>1, <1>3
     DEF DeviceStep, DeviceSends, DeviceReceives, DeviceRefuses, DeviceServes, Bridge!CarryOut
<1>4. QED
  BY <1>2, <1>3

LEMMA CallsOfMainStep == TypeInv /\ [Next]_vars => CallsOfMain'
<1> SUFFICES ASSUME TypeInv, [Next]_vars PROVE CallsOfMain'
  OBVIOUS
<1> USE DEF CallsOfMain
<1>0. Main \in Callers /\ CallsOfMain
  BY DEF Callers, TypeInv
<1>1. CASE MainStep
  <2>1. CASE MainAnswered \/ MainFailed
    BY <1>0, <2>1
       DEF MainAnswered, MainFailed, Exit, Returns, Bridge!Return, Bridge!Move, TypeInv, GadgetTypeOK,
           Bridge!TypeOK
  <2>2. CASE MainSubmit
    BY <2>2 DEF MainSubmit, Go
  <2>3. CASE ~(MainAnswered \/ MainFailed \/ MainSubmit)
    BY <1>0, <1>1, <2>3
       DEF MainStep, FetchControl, FetchDown, FetchNotice, Fetch, ReadData, Reply, ReplyFails, Enable,
           Spawn, Join, MainAt, Go, Done, callVars
  <2>4. QED
    BY <2>1, <2>2, <2>3
<1>2. CASE UNCHANGED vars \/ HostStep \/ ConnLost
  BY <1>0, <1>2
     DEF vars, mainVars, callVars, HostStep, HostRequest, HostDrops, HostNotice, HostActs, ConnLost
<1>3. ASSUME NEW t \in EpThreads, EpStep(t) \/ DeviceStep(t) PROVE CallsOfMain'
  BY <1>0, <1>3, ThreadCallStep, ThreadStep, OtherStep DEF mainVars
<1>4. CASE DeviceControl
  BY <1>0, <1>4 DEF DeviceControl, DeviceServes, Running, Bridge!CarryOut, mainVars
<1>5. ASSUME NEW t \in Callers, AnswerArrives(t) PROVE CallsOfMain'
  BY <1>0, <1>5 DEF AnswerArrives, Bridge!Answer, Bridge!Move, mainVars, TypeInv, GadgetTypeOK,
                    Bridge!TypeOK
<1>6. ASSUME NEW T \in SUBSET Callers, CallsFail(T) PROVE CallsOfMain'
  BY <1>0, <1>6 DEF CallsFail, Bridge!Fail, mainVars, TypeInv, GadgetTypeOK, Bridge!TypeOK
<1>7. QED
  BY <1>1, <1>2, <1>3, <1>4, <1>5, <1>6 DEF Next

LEMMA TypeStep == TypeInv /\ [Next]_vars => TypeInv'
<1> SUFFICES ASSUME TypeInv, [Next]_vars PROVE TypeInv'
  OBVIOUS
<1>0. Bridge!TypeOK' /\ CallsOfMain' /\ SetConfigsBounded'
  BY CallTypeStep, StepIsCallStep, CallsOfMainStep, BoundedStep DEF TypeInv, GadgetTypeOK
<1>1. ASSUME UNCHANGED <<mainVars, epPc>> PROVE MainTypeOK' /\ ConfigSteps'
  BY <1>1 DEF TypeInv, GadgetTypeOK, MainTypeOK, ConfigSteps, mainVars, confVars
<1>2. CASE MainStep
  BY <1>0, <1>2, MainTypeStep, MainOutsideStep DEF TypeInv, GadgetTypeOK
<1>3. CASE HostStep
  BY <1>0, <1>1, <1>3, HostTypeStep DEF TypeInv, GadgetTypeOK, epVars
<1>4. ASSUME NEW t \in EpThreads, EpStep(t) PROVE TypeInv'
  <2>1. MainTypeOK' /\ ConfigSteps'
    BY <1>4, ThreadStep
       DEF TypeInv, GadgetTypeOK, MainTypeOK, EpTypeOK, ConfigSteps, mainVars, confVars
  <2>2. QED
    BY <1>0, <1>4, <2>1, ThreadStep DEF TypeInv, GadgetTypeOK
<1>5. CASE \/ DeviceControl \/ ConnLost
           \/ \E t \in EpThreads : DeviceStep(t)
           \/ \E t \in Callers : AnswerArrives(t)
           \/ \E T \in SUBSET Callers : CallsFail(T)
  BY <1>0, <1>1, <1>5, OtherStep DEF TypeInv, GadgetTypeOK
<1>6. CASE UNCHANGED vars
  BY <1>0, <1>1, <1>6
     DEF TypeInv, GadgetTypeOK, EpTypeOK, OutsideTypeOK, vars, epVars, devVars, hostVars, flowVars
<1>7. QED
  BY <1>2, <1>3, <1>4, <1>5, <1>6 DEF Next

LEMMA TypeInvCorrect == Spec => []TypeInv
BY TypeInit, TypeStep, PTL DEF Spec

(* The program's variables keep their types, and main's endpoint threads     *)
(* have all been started, whatever the host does.                           *)
THEOREM GadgetTypeCorrect == Spec => []GadgetTypeOK
<1>1. TypeInv => GadgetTypeOK
  BY DEF TypeInv
<1>2. QED
  BY <1>1, TypeInvCorrect, PTL

(* The threads of the program call submit as UrbCalls allows: each has one   *)
(* call open at a time, and takes its end before the next (main.rs:50).      *)
THEOREM GadgetUsesCalls == Spec => Bridge!Spec
<1>1. Init => Bridge!Init
  BY DEF Init
<1>2. [Next]_vars => [Bridge!Next]_(Bridge!vars)
  BY StepIsCallStep DEF callVars, Bridge!vars
<1>3. QED
  BY <1>1, <1>2, PTL DEF Spec, Bridge!Spec

-----------------------------------------------------------------------------
(* What main does for a SET_CONFIGURATION is for one the device has taken: an *)
(* answer to it that has reached main, or is on its way there, means that    *)
(* the device is in its configuration, and only main's next request changes  *)
(* that.                                                                   *)

DeviceInv ==
  /\ ConfigurationTaken
  /\ mainPc = "wait" /\ SetsConfig(ctrl) /\ carriedOut[Main] /\ status[Main] = "ok"
       => devCfg = ctrl.cfg
  /\ phase[Main] = "answered" => carriedOut[Main]

LEMMA DeviceInit == Init => DeviceInv
BY DEF Init, DeviceInv, ConfigurationTaken, Bridge!Init, Callers

LEMMA DeviceStepInv ==
  ASSUME TypeInv, DeviceInv, [Next]_vars PROVE DeviceInv'
<1> USE DEF DeviceInv, ConfigurationTaken
<1>0. Main \in Callers /\ (mainPc = "wait" => ctrl \in Requests)
  BY DEF Callers, TypeInv, GadgetTypeOK, MainTypeOK
<1>1. CASE MainStep
  <2>1. devCfg' = devCfg
    BY <1>1 DEF MainStep, FetchControl, FetchDown, FetchNotice, Fetch, ReadData, MainSubmit,
       MainAnswered,
       MainFailed, Reply, ReplyFails, Enable, Spawn, Join, Returns, devVars
  <2>3. CASE MainAnswered
    <3>1. mainPc' \in Committed => IsSetConfig(ctrl) /\ status[Main] = "ok" /\ ctrl' = ctrl
      BY <2>3 DEF MainAnswered, AfterAnswer, Refused, OnRefusal, Committed
    <3>2. mainPc = "wait" /\ phase[Main] = "answered" /\ phase'[Main] = "idle"
      BY <1>0, <2>3 DEF MainAnswered, MainAt, Returns, Bridge!Return, Bridge!Move, TypeInv,
                        GadgetTypeOK, Bridge!TypeOK
    <3>3. mainPc' # "wait"
      BY <2>3 DEF MainAnswered, AfterAnswer, Refused, OnRefusal
    <3>4. QED
      BY <2>1, <3>1, <3>2, <3>3 DEF SetsConfig, Committed
  <2>4. CASE MainSubmit
    <3>1. mainPc' = "wait" /\ ~carriedOut'[Main] /\ phase'[Main] = "open"
      BY <1>0, <2>4 DEF MainSubmit, MainAt, Go, Bridge!Call, Bridge!Move, TypeInv, CallsOfMain,
                        GadgetTypeOK, Bridge!TypeOK
    <3>2. QED
      BY <3>1
  <2>5. CASE MainFailed
    <3>1. mainPc' = "exited" /\ phase'[Main] = "idle"
      BY <1>0, <2>5 DEF MainFailed, Exit, Returns, Bridge!Return, Bridge!Move, TypeInv,
                        GadgetTypeOK, Bridge!TypeOK
    <3>2. QED
      BY <3>1
  <2>6. CASE ~(MainAnswered \/ MainSubmit \/ MainFailed)
    <3>1. UNCHANGED callVars
      BY <1>1, <2>6
         DEF MainStep, FetchControl, FetchDown, FetchNotice, Fetch, ReadData, Reply, ReplyFails,
         Enable, Spawn, Join
    <3>2. mainPc' # "wait" /\ (mainPc' \in Committed => mainPc \in Committed /\ ctrl' = ctrl)
      BY <1>1, <2>6
         DEF MainStep, FetchControl, FetchDown, FetchNotice, Fetch, ReadData, Reply, ReplyFails,
         Enable, Spawn, Join, MainAt, Go, Done, Exit, Committed
    <3>3. QED
      BY <2>1, <3>1, <3>2 DEF callVars, Committed
  <2>7. QED
    BY <2>3, <2>4, <2>5, <2>6
<1>2. CASE UNCHANGED vars \/ HostStep \/ ConnLost
  BY <1>2
     DEF vars, mainVars, epVars, callVars, devVars, HostStep, HostRequest, HostDrops, HostNotice,
              HostActs, ConnLost
<1>3. ASSUME NEW t \in EpThreads, EpStep(t) PROVE DeviceInv'
  <2>1. status'[Main] = status[Main]
    <3>1. t # Main
      BY GadgetAssumption
    <3>2. QED
      BY <1>0, <1>3, <3>1
         DEF EpStep, EpSubmit, EpAnswered, EpFailed, EpWrite, EpRead, EpIoError, Returns,
                  devVars, TypeInv, GadgetTypeOK, OutsideTypeOK
  <2>3. QED
    BY <1>3, <2>1, ThreadStep, ThreadCallStep DEF mainVars
<1>4. ASSUME NEW t \in EpThreads, DeviceStep(t) PROVE DeviceInv'
  <2>1. UNCHANGED <<mainVars, epPc, devCfg>>
    BY <1>4 DEF DeviceStep, DeviceSends, DeviceReceives, DeviceRefuses, DeviceServes
  <2>2. status'[Main] = status[Main]
    <3>1. t # Main
      BY GadgetAssumption
    <3>2. QED
      BY <1>0, <1>4, <3>1 DEF DeviceStep, DeviceSends, DeviceReceives, DeviceRefuses, TypeInv,
                              GadgetTypeOK, OutsideTypeOK
  <2>3. QED
    BY <1>4, <2>1, <2>2, ThreadCallStep DEF mainVars
<1>5. CASE DeviceControl
  <2>1. mainPc = "wait" /\ UNCHANGED <<mainVars, epPc, phase>> /\ phase[Main] # "answered"
    BY <1>0, <1>5 DEF DeviceControl, DeviceServes, Running, Bridge!CarryOut, TypeInv, CallsOfMain
  <2>2. PICK s \in {"ok", "bad"} :
          /\ status' = [status EXCEPT ![Main] = s]
          /\ devCfg' = IF s = "ok" /\ SetsConfig(ctrl) THEN ctrl.cfg ELSE devCfg
    BY <1>5 DEF DeviceControl
  <2>3. status'[Main] = s
    BY <1>0, <2>2 DEF TypeInv, GadgetTypeOK, OutsideTypeOK
  <2>4. QED
    BY <2>1, <2>2, <2>3 DEF mainVars
<1>6. ASSUME NEW t \in Callers, AnswerArrives(t) PROVE DeviceInv'
  BY <1>0, <1>6 DEF AnswerArrives, Bridge!Answer, Bridge!Move, mainVars, epVars, devVars, TypeInv,
                    GadgetTypeOK, Bridge!TypeOK
<1>7. ASSUME NEW T \in SUBSET Callers, CallsFail(T) PROVE DeviceInv'
  BY <1>0, <1>7 DEF CallsFail, Bridge!Fail, mainVars, epVars, devVars
<1>8. QED
  BY <1>1, <1>2, <1>3, <1>4, <1>5, <1>6, <1>7 DEF Next

(* Whatever the host does and whatever it asks for, a configuration of zero  *)
(* included: main enables endpoints, tells the host and starts threads only  *)
(* for a SET_CONFIGURATION that the device has taken and is still in         *)
(* (main.rs:456, 498).                                                      *)
THEOREM ConfigurationTakenCorrect == Spec => []ConfigurationTaken
<1>1. Init => TypeInv /\ DeviceInv
  BY TypeInit, DeviceInit
<1>2. TypeInv /\ DeviceInv /\ [Next]_vars => (TypeInv /\ DeviceInv)'
  BY TypeStep, DeviceStepInv
<1>3. DeviceInv => ConfigurationTaken
  BY DEF DeviceInv
<1>4. QED
  BY <1>1, <1>2, <1>3, PTL DEF Spec

-----------------------------------------------------------------------------
(* A join ends the threads it is for: those started last are in ep_threads,  *)
(* or have ended, and no thread of a later start exists.                    *)

JoinInv ==
  \A t \in EpThreads :
    /\ t[1] = spawns /\ epPc[t] # "none" => t \in epThreads \/ epPc[t] = "exited"
    /\ t[1] > spawns => epPc[t] = "none"

LEMMA JoinStepInv == TypeInv /\ JoinInv /\ [Next]_vars => JoinInv'
<1> SUFFICES ASSUME TypeInv, JoinInv, [Next]_vars PROVE JoinInv'
  OBVIOUS
<1> USE DEF JoinInv
<1>0. spawns \in Nat /\ \A t \in EpThreads : t[1] \in Nat
  BY GadgetAssumption DEF TypeInv, GadgetTypeOK, MainTypeOK, EpThreads
<1>1. CASE MainStep
  <2>1. CASE Spawn
    BY <1>0, <2>1 DEF Spawn
  <2>2. CASE Join
    BY <2>2 DEF Join, Awaited, epVars
  <2>3. CASE ~(Spawn \/ Join)
    BY <1>1, <2>3 DEF MainStep, FetchControl, FetchDown, FetchNotice, Fetch, ReadData, MainSubmit,
       MainAnswered, MainFailed, Reply, ReplyFails, Enable, confVars, epVars
  <2>4. QED
    BY <2>1, <2>2, <2>3
<1>2. CASE UNCHANGED vars \/ HostStep
  BY <1>2
     DEF vars, mainVars, confVars, epVars, HostStep, HostRequest, HostDrops, HostNotice, HostActs
<1>3. ASSUME NEW t \in EpThreads, EpStep(t) PROVE JoinInv'
  BY <1>3, ThreadStep DEF TypeInv, GadgetTypeOK, EpTypeOK, mainVars, confVars
<1>4. CASE \/ DeviceControl \/ ConnLost
           \/ \E t \in EpThreads : DeviceStep(t)
           \/ \E t \in Callers : AnswerArrives(t)
           \/ \E T \in SUBSET Callers : CallsFail(T)
  BY <1>4, OtherStep DEF mainVars, confVars
<1>5. QED
  BY <1>1, <1>2, <1>3, <1>4 DEF Next

LEMMA JoinsEndThreads ==
  TypeInv /\ JoinInv /\ [Next]_vars =>
    (mainPc = "join" /\ mainPc' = "fetch" =>
       \A t \in EpThreads : t[1] = spawns => ~Live(t))
<1> SUFFICES ASSUME TypeInv, JoinInv, [Next]_vars, mainPc = "join", mainPc' = "fetch",
                    NEW t \in EpThreads, t[1] = spawns
             PROVE  ~Live(t)
  OBVIOUS
<1>1. mainPc' # mainPc
  OBVIOUS
<1>2. MainStep
  BY <1>1, ThreadStep, OtherStep, HostTypeStep DEF Next, vars, mainVars
<1>3. Join
  BY <1>2 DEF MainStep, FetchControl, FetchDown, FetchNotice, Fetch, ReadData, MainSubmit,
     MainAnswered,
              MainFailed, Reply, ReplyFails, Enable, Spawn, MainAt
<1>4. QED
  BY <1>3 DEF Join, Awaited, JoinInv, Live

(* No thread of the configuration started last outlives a join, however      *)
(* many were started before, whatever the host does (main.rs:353).           *)
THEOREM LastThreadsJoinedCorrect == Spec => LastThreadsJoined
<1>1. Init => JoinInv
  BY DEF Init, JoinInv
<1>2. Spec => [](TypeInv /\ JoinInv)
  BY <1>1, TypeInit, TypeStep, JoinStepInv, PTL DEF Spec
<1>3. TypeInv /\ JoinInv /\ [Next]_vars =>
        [mainPc = "join" /\ mainPc' = "fetch" =>
           \A t \in EpThreads : t[1] = spawns => ~Live(t)]_vars
  BY JoinsEndThreads
<1>4. QED
  BY <1>2, <1>3, PTL DEF Spec, LastThreadsJoined
-----------------------------------------------------------------------------
(* No request is lost.  What main takes off the queue is the first event of  *)
(* it, and the others move up by one.                                       *)

LEMMA FirstTaken ==
  ASSUME TypeInv, NEW type, Fetch(type)
  PROVE  /\ mainPc = "fetch" /\ 1 \in DOMAIN events /\ events[1] = Head(events)
         /\ events[1].type = type
         /\ \A i \in DOMAIN events : i \in Nat /\ i >= 1
         /\ \A i \in DOMAIN events' : i \in Nat /\ i + 1 \in DOMAIN events
                                      /\ events'[i] = events[i + 1]
         /\ \A i \in DOMAIN events : i # 1 => i - 1 \in DOMAIN events' /\ events'[i - 1] = events[i]
<1>1. events \in Seq(Event) /\ events # <<>> /\ events' = Tail(events)
  BY DEF TypeInv, GadgetTypeOK, OutsideTypeOK, Fetch
<1>2. /\ Head(events) = events[1]
      /\ events' \in Seq(Event) /\ Len(events') = Len(events) - 1
      /\ \A i \in 1 .. Len(events') : events'[i] = events[i + 1]
  BY <1>1, HeadTailProperties
<1>3. /\ DOMAIN events = 1 .. Len(events) /\ Len(events) \in Nat /\ Len(events) > 0
      /\ DOMAIN events' = 1 .. Len(events')
  BY <1>1, <1>2, LenProperties, EmptySeq
<1>4. ASSUME NEW i \in DOMAIN events, i # 1
      PROVE  i - 1 \in DOMAIN events' /\ events'[i - 1] = events[i]
  <2>1. i - 1 \in 1 .. Len(events') /\ (i - 1) + 1 = i
    BY <1>2, <1>3, <1>4
  <2>2. QED
    BY <1>2, <1>3, <2>1
<1>5. QED
  BY <1>2, <1>3, <1>4 DEF Fetch, MainAt

LEMMA RequestFetched ==
  ASSUME TypeInv, NoRequestLost, FetchControl \/ FetchDown \/ FetchNotice, hostReq # None
  PROVE  NoRequestLost'
<1>1. PICK type : Fetch(type) /\ (type = "Control" => FetchControl)
  BY DEF FetchControl, FetchDown, FetchNotice
<1>2. hostReq' = hostReq /\ mainPc = "fetch" /\ Running /\ ~Answering
  BY <1>1, FirstTaken DEF Fetch, Running, Answering
<1>3. PICK i \in ControlsQueued : events[i].req = hostReq /\ \A j \in ControlsQueued : j <= i
  BY <1>2 DEF NoRequestLost
<1>4. \A j \in ControlsQueued' : j \in Nat /\ j + 1 \in ControlsQueued
  BY <1>1, FirstTaken DEF ControlsQueued
<1>5. i \in Nat /\ i >= 1
  BY <1>1, FirstTaken DEF ControlsQueued
<1>6. CASE i = 1
  <2>1. type = "Control" /\ ctrl' = hostReq
    BY <1>1, <1>3, <1>6, FirstTaken DEF ControlsQueued, FetchControl
  <2>2. Answering'
    BY <1>1, <2>1 DEF FetchControl, Answering
  <2>3. ControlsQueued' = {}
    <3>1. ASSUME NEW j \in ControlsQueued' PROVE FALSE
      <4>1. PICK k \in Nat : k = j /\ k + 1 \in ControlsQueued /\ k \in DOMAIN events'
        BY <1>4, <3>1 DEF ControlsQueued
      <4>2. k + 1 <= 1
        BY <1>3, <1>6, <4>1
      <4>3. 1 <= k
        <5>1. events' \in Seq(Event)
          BY <1>1, HeadTailProperties DEF Fetch, TypeInv, GadgetTypeOK, OutsideTypeOK
        <5>2. QED
          BY <4>1, <5>1, LenProperties
      <4>4. QED
        BY <4>2, <4>3
    <3>2. QED
      BY <3>1
  <2>4. QED
    BY <1>2, <2>1, <2>2, <2>3 DEF NoRequestLost
<1>7. CASE i # 1
  <2>1. i - 1 \in ControlsQueued' /\ events'[i - 1].req = hostReq'
    BY <1>1, <1>2, <1>3, <1>7, FirstTaken DEF ControlsQueued
  <2>2. ASSUME NEW j \in ControlsQueued' PROVE j <= i - 1
    <3>1. j \in Nat /\ j + 1 <= i
      BY <1>3, <1>4
    <3>2. QED
      BY <1>5, <3>1
  <2>3. QED
    BY <2>1, <2>2 DEF NoRequestLost
<1>8. QED
  BY <1>6, <1>7

LEMMA RequestQueued ==
  ASSUME TypeInv, NoRequestLost, HostStep PROVE NoRequestLost'
<1>0. events \in Seq(Event) /\ Len(events) \in Nat /\ DOMAIN events = 1 .. Len(events)
  BY LenProperties DEF TypeInv, GadgetTypeOK, OutsideTypeOK
<1>1. ASSUME NEW r \in Requests, HostRequest(r) PROVE NoRequestLost'
  <2>1. PICK e \in Event : e = [type |-> "Control", req |-> r]
    BY DEF Event
  <2>2. events' = Append(events, e) /\ hostReq' = r
    BY <1>1, <2>1 DEF HostRequest
  <2>3. /\ DOMAIN events' = 1 .. Len(events) + 1 /\ events'[Len(events) + 1] = e
    BY <1>0, <2>2, AppendProperties, LenProperties
  <2>4. /\ Len(events) + 1 \in ControlsQueued' /\ events'[Len(events) + 1].req = hostReq'
        /\ \A j \in ControlsQueued' : j <= Len(events) + 1
    BY <1>0, <2>1, <2>2, <2>3 DEF ControlsQueued
  <2>5. QED
    BY <2>4 DEF NoRequestLost
<1>2. CASE HostDrops
  BY <1>2 DEF HostDrops, NoRequestLost
<1>3. CASE HostNotice
  <2>1. ControlsQueued = {} /\ UNCHANGED <<hostReq, mainPc, ctrl>>
    BY <1>0, <1>3 DEF HostNotice, HostActs, mainVars, ControlsQueued
  <2>2. ControlsQueued' = {}
    <3>1. PICK e \in Event : e = [type |-> "Notice", req |-> None]
      BY DEF Event
    <3>2. events' = <<e>>
      BY <1>3, <3>1 DEF HostNotice
    <3>3. DOMAIN events' = {1} /\ events'[1].type # "Control"
      BY <3>1, <3>2
    <3>4. QED
      BY <3>3 DEF ControlsQueued
  <2>3. QED
    BY <2>1, <2>2 DEF NoRequestLost, Running, Answering
<1>4. QED
  BY <1>1, <1>2, <1>3 DEF HostStep

LEMMA NoRequestLostStep == TypeInv /\ NoRequestLost /\ [Next]_vars => NoRequestLost'
<1> SUFFICES ASSUME TypeInv, NoRequestLost, [Next]_vars PROVE NoRequestLost'
  OBVIOUS
<1>1. ASSUME UNCHANGED <<hostReq, events>>, Running' => Running,
             Answering => Answering' /\ ctrl' = ctrl
      PROVE  NoRequestLost'
  BY <1>1 DEF NoRequestLost, ControlsQueued
<1>2. CASE hostReq' = None \/ ~Running'
  BY <1>2 DEF NoRequestLost
<1>3. CASE MainStep
  <2>1. CASE FetchControl \/ FetchDown \/ FetchNotice
    BY <1>2, <2>1, RequestFetched DEF FetchControl, FetchDown, FetchNotice, Fetch
  <2>2. CASE ReadData \/ Reply \/ ReplyFails \/ MainFailed
    BY <1>2, <2>2 DEF ReadData, Reply, ReplyFails, MainFailed, HostServed, HostStalled, Exit, Running
  <2>3. CASE MainSubmit
    BY <1>1, <2>3 DEF MainSubmit, MainAt, Go, hostVars, Running, Answering
  <2>4. CASE MainAnswered
    <3>1. mainPc = "wait" /\ UNCHANGED <<hostReq, events>> /\ Running
      BY <2>4 DEF MainAnswered, MainAt, hostVars, Running
    <3>2. ASSUME ~HasDataStage(ctrl)
          PROVE  mainPc' \in {"stall", "enable", "write", "ack"} /\ ctrl' = ctrl
      BY <2>4, <3>2 DEF MainAnswered, AfterAnswer, OnRefusal
    <3>3. QED
      BY <1>1, <3>1, <3>2 DEF Answering
  <2>5. CASE Enable
    <3>1. UNCHANGED <<hostReq, events>> /\ mainPc = "enable"
          /\ (mainPc' = "exited" \/ (mainPc' = "ackConfig" /\ ctrl' = ctrl))
      BY <2>5 DEF Enable, MainAt, Go, Exit, hostVars
    <3>2. CASE mainPc' = "exited"
      BY <1>2, <3>2 DEF Running
    <3>3. CASE mainPc' = "ackConfig" /\ ctrl' = ctrl
      BY <1>1, <3>1, <3>3 DEF Running, Answering
    <3>4. QED
      BY <3>1, <3>2, <3>3
  <2>6. CASE Spawn \/ Join
    <3>1. UNCHANGED <<hostReq, events>> /\ mainPc \in {"spawn", "join"}
      BY <2>6 DEF Spawn, Join, MainAt, hostVars
    <3>2. QED
      BY <1>1, <3>1 DEF Running, Answering
  <2>7. QED
    BY <1>3, <2>1, <2>2, <2>3, <2>4, <2>5, <2>6 DEF MainStep
<1>4. CASE UNCHANGED <<mainPc, ctrl, hostReq, events>>
  BY <1>1, <1>4 DEF Running, Answering
<1>5. CASE UNCHANGED vars
  BY <1>4, <1>5 DEF vars, mainVars, hostVars
<1>6. CASE HostStep
  BY <1>6, RequestQueued
<1>7. ASSUME NEW t \in EpThreads, EpStep(t) PROVE NoRequestLost'
  <2>1. UNCHANGED <<mainVars, hostVars>>
    BY <1>7 DEF EpStep, EpSubmit, EpAnswered, EpFailed, EpWrite, EpRead, EpIoError, EpGoto
  <2>2. QED
    BY <1>4, <2>1 DEF mainVars, hostVars
<1>8. CASE \/ DeviceControl \/ ConnLost
           \/ \E t \in EpThreads : DeviceStep(t)
           \/ \E t \in Callers : AnswerArrives(t)
           \/ \E T \in SUBSET Callers : CallsFail(T)
  BY <1>4, <1>8, OtherStep DEF mainVars, hostVars
<1>9. QED
  BY <1>3, <1>5, <1>6, <1>7, <1>8 DEF Next

(* No handler drops a request (main.rs:383 to 504): whatever the host gives   *)
(* up or repeats, and whatever the device answers, a request the host waits   *)
(* for is the last in the queue, or in main's hands with its answer to come.   *)
THEOREM NoRequestIsLost == Spec => []NoRequestLost
<1>1. Init => NoRequestLost
  BY DEF Init, NoRequestLost
<1>2. Spec => [](TypeInv /\ NoRequestLost)
  BY <1>1, TypeInit, TypeStep, NoRequestLostStep, PTL DEF Spec
<1>3. QED
  BY <1>2, PTL
=============================================================================
