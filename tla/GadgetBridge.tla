---------------------------- MODULE GadgetBridge ----------------------------
(***************************************************************************)
(* The program around UsbipBridge (usbipdevirt/src/main.rs): the event loop *)
(* of the main thread, which answers the host's control requests on        *)
(* endpoint 0, and the endpoint threads it spawns, which move packets       *)
(* between the host and the remote device.  A submit is what UrbCalls       *)
(* promises.                                                               *)
(*                                                                         *)
(* The USB host, the raw-gadget kernel module and the remote device are     *)
(* external.  A raw-gadget ioctl on endpoint 0 names no request: it answers *)
(* the one the host is waiting for, and fails when there is none.           *)
(***************************************************************************)
EXTENDS Integers, Sequences, FiniteSets

CONSTANTS
  Endpoints,      \* endpoint numbers with their direction
  InEndpoints,    \* those on which the device sends
  Configs,        \* the device's configurations
  EpDescs,        \* the endpoint descriptors of the device
  AddressOf,      \* the endpoint each of them describes
  DescsOf,        \* those of each configuration, its alternate settings included
  Requests,       \* the control requests the host may make
  EP0_BUF_SIZE,   \* what one endpoint 0 ioctl can carry
  None,           \* no request, no configuration
  Main,           \* the main thread
  HostGivesUp,    \* what the host may do while it waits for a control request:
                  \* "reset" the bus (or disconnect), or make a new "request"
  HostReselects,  \* the host may set a configuration while it has one
  HostReadsFirst, \* the host sets only a configuration it has last read in full
  InAnswers,      \* the device always has data for an IN endpoint in the end
  MaxSpawns,      \* bound: configurations started
  MaxPackets,     \* bound: packets per endpoint
  MaxEvents       \* bound: events the kernel queues

\* A thread by the SET_CONFIGURATION that started it and its descriptor.
EpThreads == (1 .. MaxSpawns) \X EpDescs
Callers   == {Main} \cup EpThreads
EpOf(t)   == AddressOf[t[2]]
IsIn(t)   == EpOf(t) \in InEndpoints
EpsOf(c)  == {AddressOf[d] : d \in DescsOf[c]}

\* A request by its number, and whether that number has its standard meaning:
\* class and vendor requests use the same numbers for their own purposes.
Request == [name : {"SET_ADDRESS", "SET_CONFIGURATION", "GET_DESCRIPTOR", "other"},
            std : BOOLEAN, in : BOOLEAN, len : Nat, cfg : Configs \cup {None},
            full : BOOLEAN]
Descriptor == [cfg : Configs, full : BOOLEAN]

ASSUME GadgetAssumption ==
  /\ InEndpoints \subseteq Endpoints
  /\ AddressOf \in [EpDescs -> Endpoints] /\ DescsOf \in [Configs -> SUBSET EpDescs]
  /\ Requests \subseteq Request
  /\ EP0_BUF_SIZE \in Nat /\ MaxSpawns \in Nat /\ MaxPackets \in Nat /\ MaxEvents \in Nat
  /\ None \notin Configs /\ None \notin Request /\ None \notin Descriptor
  /\ Main \notin EpThreads
  /\ HostGivesUp \subseteq {"reset", "request"}
  /\ {HostReselects, HostReadsFirst, InAnswers} \subseteq BOOLEAN

VARIABLES
  mainPc,     \* where the main thread is
  ctrl,       \* the control request it is handling
  cache,      \* cached_config_desc: whose descriptor, and whether all of it
  epThreads,  \* ep_threads: the join handles main holds
  spawns,     \* how often spawn_ep_threads has run
  epPc,       \* where each endpoint thread is
  buf,        \* the packet each endpoint thread holds
  phase,      \* the submit of each thread (UrbCalls)
  carriedOut,
  status,     \* external: "ok" or "bad", the status of its URB
  connUp,     \* external: the USB/IP connection is alive
  devCfg,     \* external: the configuration of the remote device
  hostReq,    \* external: the control request the host waits for
  hostCfg,    \* external: the configuration the host believes is set
  hostRead,   \* external: the configuration descriptor the host read last
  events,     \* external: the events raw-gadget has queued
  sent,       \* external: packets sent on each endpoint, by host or device
  got         \* external: packets that arrived at the other end, in order

confVars  == <<cache, epThreads, spawns>>
mainVars  == <<mainPc, ctrl, confVars>>
epVars    == <<epPc, buf>>
callVars  == <<phase, carriedOut>>
devVars   == <<status, connUp, devCfg>>
hostVars  == <<hostReq, hostCfg, hostRead, events>>
flowVars  == <<sent, got>>
vars == <<mainVars, epVars, callVars, devVars, hostVars, flowVars>>

Bridge == INSTANCE UrbCalls

Event == [type : {"Control"}, req : Requests] \cup [type : {"Down", "Notice"}, req : {None}]

MainTypeOK ==
  /\ mainPc \in {"fetch", "data", "submit", "wait", "write", "stall", "ack",
                 "enable", "ackConfig", "spawn", "join", "exited"}
  /\ ctrl \in IF mainPc \in {"fetch", "join", "exited"} THEN {None} ELSE Requests
  /\ cache \in Descriptor \cup {None}
  /\ spawns \in 0 .. MaxSpawns
  /\ epThreads \subseteq {t \in EpThreads : epPc[t] # "none"}

EpTypeOK ==
  /\ epPc \in [EpThreads -> {"none", "submit", "wait", "io", "exited"}]
  /\ buf \in [EpThreads -> 0 .. MaxPackets]
  /\ sent \in [Endpoints -> 0 .. MaxPackets]
  /\ got \in [Endpoints -> Seq(0 .. MaxPackets)]

OutsideTypeOK ==
  /\ status \in [Callers -> {"ok", "bad"}]
  /\ connUp \in BOOLEAN
  /\ devCfg \in Configs \cup {None}
  /\ hostReq \in Requests \cup {None}
  /\ hostCfg \in Configs \cup {None}
  /\ hostRead \in Descriptor \cup {None}
  /\ events \in Seq(Event)

GadgetTypeOK == Bridge!TypeOK /\ MainTypeOK /\ EpTypeOK /\ OutsideTypeOK

Init ==
  /\ Bridge!Init
  /\ mainPc = "fetch" /\ ctrl = None /\ cache = None
  /\ epThreads = {} /\ spawns = 0
  /\ epPc = [t \in EpThreads |-> "none"] /\ buf = [t \in EpThreads |-> 0]
  /\ status = [t \in Callers |-> "ok"] /\ connUp = TRUE /\ devCfg = None
  /\ hostReq = None /\ hostCfg = None /\ hostRead = None /\ events = <<>>
  /\ sent = [e \in Endpoints |-> 0] /\ got = [e \in Endpoints |-> <<>>]

Running == mainPc # "exited"   \* the process ends with its main thread

\* A submit returns: `phase' says how, `status' what the device said.
Returns(t, how) ==
  /\ phase[t] = how
  /\ Bridge!Return(t)
  /\ status' = [status EXCEPT ![t] = "ok"]
  /\ UNCHANGED <<connUp, devCfg>>

-----------------------------------------------------------------------------
(* Endpoint 0 ioctls (external).  ep0_write ends a request that reads from  *)
(* the device, ep0_read one that does not, ep0_stall either.                *)

IsSetConfig(r)  == r.name = "SET_CONFIGURATION" /\ ~r.in /\ r.len = 0
SetsConfig(r)   == IsSetConfig(r) /\ r.std
IsGetConfig(r)  == r.name = "GET_DESCRIPTOR" /\ r.in /\ r.cfg # None
HasDataStage(r) == ~r.in /\ r.len > 0
Contents(r)     == [cfg |-> r.cfg, full |-> r.full]

HostServed(in) ==
  /\ hostReq # None /\ hostReq.in = in
  /\ hostReq' = None
  /\ hostCfg' = IF SetsConfig(hostReq) THEN hostReq.cfg ELSE hostCfg
  /\ hostRead' = IF IsGetConfig(hostReq) THEN Contents(hostReq) ELSE hostRead
  /\ UNCHANGED events

HostStalled ==
  /\ hostReq # None
  /\ hostReq' = None
  /\ UNCHANGED <<hostCfg, hostRead, events>>

NotWaiting(ins) == hostReq # None => hostReq.in \notin ins

-----------------------------------------------------------------------------
(* The main thread: the event loop.                                         *)

\* Where main is; the packets under way are the endpoint threads' affair.
MainAt(pc) == mainPc = pc /\ UNCHANGED flowVars
Go(pc)     == mainPc' = pc /\ UNCHANGED ctrl
Done       == mainPc' = "fetch" /\ ctrl' = None
Exit       == mainPc' = "exited" /\ ctrl' = None

Fetch(type) ==
  /\ MainAt("fetch")
  /\ events # <<>> /\ Head(events).type = type
  /\ events' = Tail(events)
  /\ UNCHANGED <<confVars, epVars, callVars, devVars,
                 hostReq, hostCfg, hostRead>>

\* SET_ADDRESS is acknowledged locally, whatever the request type.
FetchControl ==
  /\ Fetch("Control")
  /\ ctrl' = Head(events).req
  /\ mainPc' = IF ctrl'.name = "SET_ADDRESS" THEN "ack"
               ELSE IF HasDataStage(ctrl') THEN "data"
               ELSE "submit"

FetchDown   == Fetch("Down") /\ Go("join")
FetchNotice == Fetch("Notice") /\ Done

\* The data stage of an OUT request: the host has its answer before the
\* request is forwarded.
ReadData ==
  /\ MainAt("data")
  /\ \/ HostServed(FALSE) /\ Go("submit")
     \/ NotWaiting({FALSE}) /\ Exit /\ UNCHANGED hostVars
  /\ UNCHANGED <<confVars, epVars, callVars, devVars>>

MainSubmit ==
  /\ MainAt("submit")
  /\ Bridge!Call(Main)
  /\ Go("wait")
  /\ UNCHANGED <<confVars, epVars, devVars, hostVars>>

\* Mutants: the device's refusal is overlooked, or left without an answer.
Overlooked(ok) == FALSE
Unanswered     == "fetch"

Refused(ok) == ~ok
OnRefusal   == "stall"

\* The host has already been told that its data stage is done.
AfterAnswer(r, ok) ==
  CASE HasDataStage(r) -> "fetch"
    [] ~HasDataStage(r) /\ Refused(ok) -> OnRefusal
    [] OTHER -> IF IsSetConfig(r) THEN "enable" ELSE IF r.in THEN "write" ELSE "ack"

\* Mutants: the descriptor read first is kept; only a partial read is cached.
FirstRead(r, ok) == ok /\ IsGetConfig(r) /\ cache = None
PartRead(r, ok)  == ok /\ IsGetConfig(r) /\ ~r.full

ConfigRead(r, ok) == ok /\ IsGetConfig(r)

MainAnswered ==
  /\ MainAt("wait")
  /\ Returns(Main, "answered")
  /\ mainPc' = AfterAnswer(ctrl, status[Main] = "ok")
  /\ cache' = IF ConfigRead(ctrl, status[Main] = "ok") THEN Contents(ctrl) ELSE cache
  /\ ctrl' = IF mainPc' = "fetch" THEN None ELSE ctrl
  /\ UNCHANGED <<epThreads, spawns, epVars, hostVars>>

MainFailed ==
  /\ MainAt("wait")
  /\ Returns(Main, "failed")
  /\ Exit
  /\ UNCHANGED <<confVars, epVars, hostVars>>

\* ep0_write refuses more than EP0_BUF_SIZE bytes; the device may send as many
\* as were asked for.
Reply ==
  /\ \/ MainAt("write") /\ HostServed(TRUE) /\ Done
     \/ MainAt("ack") /\ HostServed(FALSE) /\ Done
     \/ MainAt("ackConfig") /\ HostServed(FALSE) /\ Go("spawn")
     \/ MainAt("stall") /\ HostStalled /\ Done
  /\ UNCHANGED <<confVars, epVars, callVars, devVars>>

ReplyFails ==
  /\ \/ MainAt("write") /\ (NotWaiting({TRUE}) \/ ctrl.len > EP0_BUF_SIZE)
     \/ \E pc \in {"ack", "ackConfig"} : MainAt(pc) /\ NotWaiting({FALSE})
     \/ MainAt("stall") /\ NotWaiting(BOOLEAN)
  /\ Exit
  /\ UNCHANGED <<confVars, epVars, callVars, devVars, hostVars>>

\* Endpoints are enabled and never disabled.
EverEnabled == {EpOf(t) : t \in {u \in EpThreads : epPc[u] # "none"}}

\* What parse_endpoint_descriptors finds.  A host reads a descriptor in part
\* to learn its length: there are no endpoints in the first bytes.
Parsed == IF cache.full THEN DescsOf[cache.cfg] ELSE {}

\* Alternate settings describe the same endpoint, and so may the configuration
\* before: the kernel may refuse an endpoint it has enabled already.
EnabledTwice(d) ==
  AddressOf[d] \in EverEnabled \cup {AddressOf[e] : e \in Parsed \ {d}}

Enable ==
  /\ MainAt("enable")
  /\ \/ cache # None /\ Go("ackConfig")
     \/ cache = None /\ Exit
     \/ cache # None /\ (\E d \in Parsed : EnabledTwice(d)) /\ Exit
  /\ UNCHANGED <<confVars, epVars, callVars, devVars, hostVars>>

\* Mutant: the IN threads are listed but never started.
HalfStarted(t) == IF IsIn(t) THEN "none" ELSE "io"

FirstStep(t) == IF IsIn(t) THEN "submit" ELSE "io"

\* The threads of the last configuration are dropped from ep_threads, not ended.
Spawn ==
  /\ MainAt("spawn")
  /\ spawns' = spawns + 1
  /\ epThreads' = {spawns'} \X Parsed
  /\ epPc' = [t \in EpThreads |-> IF t \in epThreads' THEN FirstStep(t) ELSE epPc[t]]
  /\ Done
  /\ UNCHANGED <<cache, buf, callVars, devVars, hostVars>>

\* Mutant: the handles are dropped, not joined.
NotAwaited == {}

Awaited == epThreads

Join ==
  /\ MainAt("join")
  /\ \A t \in Awaited : epPc[t] = "exited"
  /\ epThreads' = {} /\ cache' = None
  /\ Done
  /\ UNCHANGED <<spawns, epVars, callVars, devVars, hostVars>>

MainStep ==
  \/ FetchControl \/ FetchDown \/ FetchNotice \/ ReadData \/ MainSubmit \/ MainAnswered
  \/ MainFailed \/ Reply \/ ReplyFails \/ Enable \/ Spawn \/ Join

-----------------------------------------------------------------------------
(* The endpoint threads: submit and ep_write for an IN endpoint, ep_read     *)
(* and submit for an OUT endpoint, until something fails.                   *)

EpGoto(t, from, to) ==
  /\ Running
  /\ epPc[t] = from /\ epPc' = [epPc EXCEPT ![t] = to]
  /\ UNCHANGED <<mainVars, hostVars>>

\* The buffer of the thread is dropped or used again.
Forget(t) == buf' = [buf EXCEPT ![t] = 0]

EpSubmit(t) ==
  /\ EpGoto(t, "submit", "wait")
  /\ Bridge!Call(t)
  /\ UNCHANGED <<buf, devVars, flowVars>>

EpAnswered(t) ==
  /\ EpGoto(t, "wait", IF status[t] = "ok" THEN "io" ELSE "exited")
  /\ Returns(t, "answered")
  /\ IF IsIn(t) THEN UNCHANGED buf ELSE Forget(t)
  /\ UNCHANGED flowVars

\* Mutant: a failed submit is tried again.
TriedAgain == "submit"

AfterFailure == "exited"

EpFailed(t) ==
  /\ EpGoto(t, "wait", AfterFailure)
  /\ Returns(t, "failed")
  /\ Forget(t)
  /\ UNCHANGED flowVars

\* ep_write: the host takes the packet.
EpWrite(t) ==
  /\ IsIn(t) /\ EpGoto(t, "io", "submit")
  /\ hostCfg # None
  /\ got' = [got EXCEPT ![EpOf(t)] = Append(@, buf[t])]
  /\ Forget(t)
  /\ UNCHANGED <<callVars, devVars, sent>>

\* ep_read: the host sends a packet.
EpRead(t) ==
  /\ ~IsIn(t) /\ EpGoto(t, "io", "submit")
  /\ hostCfg # None /\ sent[EpOf(t)] < MaxPackets
  /\ sent' = [sent EXCEPT ![EpOf(t)] = @ + 1]
  /\ buf' = [buf EXCEPT ![t] = sent'[EpOf(t)]]
  /\ UNCHANGED <<callVars, devVars, got>>

\* An endpoint the host no longer uses ends its transfer with an error.
EpIoError(t) ==
  /\ EpGoto(t, "io", "exited")
  /\ hostCfg = None
  /\ Forget(t)
  /\ UNCHANGED <<callVars, devVars, flowVars>>

EpStep(t) ==
  EpSubmit(t) \/ EpAnswered(t) \/ EpFailed(t) \/ EpWrite(t) \/ EpRead(t) \/ EpIoError(t)

-----------------------------------------------------------------------------
(* The remote device and the connection to it (external).                   *)

DeviceServes(t) ==
  /\ Running
  /\ ~carriedOut[t] /\ Bridge!CarryOut(t)
  /\ UNCHANGED <<mainVars, epPc, connUp, hostVars>>

DeviceControl ==
  /\ DeviceServes(Main)
  /\ \E s \in {"ok", "bad"} :
       /\ status' = [status EXCEPT ![Main] = s]
       /\ devCfg' = IF s = "ok" /\ SetsConfig(ctrl) THEN ctrl.cfg ELSE devCfg
  /\ UNCHANGED <<buf, flowVars>>

DeviceSends(t) ==
  /\ IsIn(t) /\ DeviceServes(t)
  /\ sent[EpOf(t)] < MaxPackets
  /\ sent' = [sent EXCEPT ![EpOf(t)] = @ + 1]
  /\ buf' = [buf EXCEPT ![t] = sent'[EpOf(t)]]
  /\ status' = [status EXCEPT ![t] = "ok"]
  /\ UNCHANGED <<devCfg, got>>

DeviceReceives(t) ==
  /\ ~IsIn(t) /\ DeviceServes(t)
  /\ got' = [got EXCEPT ![EpOf(t)] = Append(@, buf[t])]
  /\ status' = [status EXCEPT ![t] = "ok"]
  /\ UNCHANGED <<devCfg, buf, sent>>

DeviceRefuses(t) ==
  /\ DeviceServes(t)
  /\ status' = [status EXCEPT ![t] = "bad"]
  /\ UNCHANGED <<devCfg, buf, flowVars>>

DeviceStep(t) == DeviceSends(t) \/ DeviceReceives(t) \/ DeviceRefuses(t)

AnswerArrives(t) ==
  /\ Running /\ Bridge!Answer(t)
  /\ UNCHANGED <<mainVars, epVars, devVars, hostVars, flowVars>>

ConnLost ==
  /\ Running /\ connUp /\ connUp' = FALSE
  /\ UNCHANGED <<mainVars, epVars, callVars, status, devCfg, hostVars, flowVars>>

CallsFail(T) ==
  /\ Running /\ ~connUp /\ Bridge!Fail(T)
  /\ UNCHANGED <<mainVars, epVars, devVars, hostVars, flowVars>>

-----------------------------------------------------------------------------
(* The USB host (external).                                                 *)

HostActs(act) ==
  /\ Running /\ Len(events) < MaxEvents
  /\ hostReq = None \/ act \in HostGivesUp
  /\ UNCHANGED <<mainVars, epVars, callVars, devVars, flowVars>>

\* Bound: requests that main takes for a SET_CONFIGURATION, queued, handled or
\* with their threads started, are no more than MaxSpawns.
SetConfigHandled == ctrl # None /\ IsSetConfig(ctrl)
SetConfigsQueued ==
  {i \in DOMAIN events : events[i].type = "Control" /\ IsSetConfig(events[i].req)}
SetConfigsMade   ==
  spawns + (IF SetConfigHandled THEN 1 ELSE 0) + Cardinality(SetConfigsQueued)

HostRequest(r) ==
  /\ HostActs("request")
  /\ IsSetConfig(r) => SetConfigsMade < MaxSpawns
  /\ SetsConfig(r) =>
       /\ HostReselects \/ hostCfg = None
       /\ HostReadsFirst => hostRead = [cfg |-> r.cfg, full |-> TRUE]
  /\ hostReq' = r
  /\ events' = Append(events, [type |-> "Control", req |-> r])
  /\ UNCHANGED <<hostCfg, hostRead>>

\* A reset or a disconnect.
HostDrops ==
  /\ HostActs("reset")
  /\ hostReq' = None /\ hostCfg' = None /\ hostRead' = None
  /\ events' = Append(events, [type |-> "Down", req |-> None])

\* Connect, Suspend, Resume and events the program does not know.
\* Bound: one at a time.
HostNotice ==
  /\ HostActs("notice")
  /\ events = <<>>
  /\ events' = <<[type |-> "Notice", req |-> None]>>
  /\ UNCHANGED <<hostReq, hostCfg, hostRead>>

HostStep ==
  \/ \E r \in Requests : HostRequest(r)
  \/ HostDrops \/ HostNotice

-----------------------------------------------------------------------------

Next ==
  \/ MainStep \/ HostStep \/ ConnLost \/ DeviceControl
  \/ \E t \in EpThreads : EpStep(t) \/ DeviceStep(t)
  \/ \E t \in Callers : AnswerArrives(t)
  \/ \E T \in SUBSET Callers : CallsFail(T)

Spec == Init /\ [][Next]_vars

\* The threads run, a submit ends once the device has answered or the
\* connection is lost, and the device answers control requests and packets.
Fairness ==
  /\ WF_vars(MainStep) /\ WF_vars(DeviceControl)
  /\ \A t \in EpThreads :
       /\ WF_vars(EpStep(t))
       /\ InAnswers \/ ~IsIn(t) => WF_vars(DeviceStep(t))
  /\ \A t \in Callers : WF_vars(AnswerArrives(t)) /\ WF_vars(CallsFail({t}))

FairSpec == Spec /\ Fairness

-----------------------------------------------------------------------------
(* Properties.  Those that need a host of a certain conduct name it.  The    *)
(* numbers of the requests have their standard meaning unless said otherwise. *)

StandardRequests == \A r \in Requests : r.std

\* The host never takes a configuration back with SET_CONFIGURATION(0), which
\* main takes for any other.  One that reads first does not: there is no
\* descriptor of it to read.
NeverDeconfigures == \A r \in Requests : IsSetConfig(r) => r.cfg # None

\* No configuration has an endpoint in two alternate settings.
OneDescriptorEach ==
  \A c \in Configs : \A d, e \in DescsOf[c] : AddressOf[d] = AddressOf[e] => d = e

(* The configuration the host has been told is set is the one the remote     *)
(* device is in: SET_CONFIGURATION is acknowledged after the device took it  *)
(* and only then (main.rs:456, 498).  Needs ~HostGivesUp.                    *)
HostAgreesWithDevice ==
  hostCfg # None /\ ~(hostReq # None /\ SetsConfig(hostReq)) => devCfg = hostCfg

(* Between two requests of a configured host, main holds a thread for each   *)
(* endpoint of that configuration and no other (main.rs:464, 501): the       *)
(* cached descriptor is the right one.  Needs ~HostGivesUp, HostReadsFirst.  *)
EndpointsServed ==
  hostCfg # None /\ mainPc = "fetch" /\ hostReq = None =>
    {EpOf(t) : t \in epThreads} = EpsOf(hostCfg)

(* A thread at work serves an endpoint of the device's configuration: those  *)
(* of the last one are joined before the device changes (main.rs:352).       *)
(* Needs ~HostGivesUp, ~HostReselects, HostReadsFirst.                       *)
Live(t) == epPc[t] \in {"submit", "wait", "io"}

LiveThreadsFit ==
  \A t \in EpThreads : Live(t) => devCfg # None /\ EpOf(t) \in EpsOf(devCfg)

(* Packets arrive in the order they were sent, and none twice, across        *)
(* resets and reconfigurations (main.rs:195, 222): no two threads serve one   *)
(* endpoint at a time.  Needs ~HostGivesUp, ~HostReselects,                  *)
(* NeverDeconfigures, and OneDescriptorEach: main starts a thread for each    *)
(* descriptor (main.rs:181), and two of them on one endpoint may pass each    *)
(* other's packets.                                                          *)
PacketsInOrder ==
  \A e \in Endpoints : \A i, j \in DOMAIN got[e] : i < j => got[e][i] < got[e][j]

(* As long as the connection is up and no endpoint is enabled a second time, *)
(* no request a well-behaved host makes ends the program (the `?' of the     *)
(* event loop, main.rs:311).  Needs ~HostGivesUp, HostReadsFirst,            *)
(* OneDescriptorEach, requests that fit EP0_BUF_SIZE, and a SET_ADDRESS that *)
(* reads nothing.                                                            *)
MainStaysUp == connUp /\ spawns = 0 => Running

(* "all EP threads joined after disconnect" (main.rs:357): once main is back *)
(* in its event loop, every thread it ever spawned has ended.                *)
(* Needs ~HostGivesUp, ~HostReselects, NeverDeconfigures.                    *)
AllThreadsJoined ==
  [][mainPc = "join" /\ mainPc' = "fetch" => \A t \in EpThreads : ~Live(t)]_vars

(* What a join does under any host: no thread of the configuration started   *)
(* last outlives it, however many were started before (main.rs:353).         *)
LastThreadsJoined ==
  [][mainPc = "join" /\ mainPc' = "fetch" =>
       \A t \in EpThreads : t[1] = spawns => ~Live(t)]_vars

(* Main enables endpoints, tells the host and starts threads only for a      *)
(* SET_CONFIGURATION the device has taken, and while it does the device is    *)
(* still in that configuration, whatever the host gives up or makes          *)
(* meanwhile (main.rs:456, 498).  The request may be SET_CONFIGURATION(0).   *)
ConfigurationTaken ==
  mainPc \in {"enable", "ackConfig", "spawn"} /\ ctrl.std => devCfg = ctrl.cfg

(* After a reset or a disconnect the event loop goes on (main.rs:352),       *)
(* unless the host is already configured again: the answer to a request it   *)
(* made before the reset is taken for one to the SET_CONFIGURATION it made    *)
(* since, and its threads have no reason to end.  Needs InAnswers.           *)
Overtaken == mainPc = "join" /\ hostCfg # None

JoinFinishes == mainPc = "join" /\ ~Overtaken ~> mainPc # "join"

(* No control request is lost in a handler (main.rs:383 to 504), under any  *)
(* host: as long as the host waits and the program runs, its request is the   *)
(* last in the queue, behind those it has given up, or main handles it and    *)
(* has the answer still to give.                                             *)
Answering ==
  \/ mainPc \in {"data", "write", "stall", "ack", "enable", "ackConfig"}
  \/ mainPc \in {"submit", "wait"} /\ ~HasDataStage(ctrl)

ControlsQueued == {i \in DOMAIN events : events[i].type = "Control"}

NoRequestLost ==
  Running /\ hostReq # None =>
    IF ControlsQueued = {} THEN Answering /\ ctrl = hostReq
    ELSE \E i \in ControlsQueued :
           events[i].req = hostReq /\ \A j \in ControlsQueued : j <= i

(* Every control request is answered, unless the program ends, also when the *)
(* host gives one up and main's answer to it meets the next (main.rs:399).   *)
(* Needs InAnswers.                                                          *)
EveryRequestAnswered == hostReq # None ~> (hostReq = None \/ ~Running \/ Overtaken)
=============================================================================
