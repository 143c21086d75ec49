----------------------------- MODULE Handshake -----------------------------
(***************************************************************************)
(* From the start of usbipdevirt to its event loop (usbipdevirt/src/main.rs *)
(* 254-301): list_devices on one connection, import_device of the first     *)
(* device on another one (usbip/src/client.rs 13-118), then the gadget.     *)
(* The server is external; what it exports may change at any time, also     *)
(* between the two connections.  A connection is two streams of the         *)
(* structures that are read and written as a whole.                         *)
(***************************************************************************)
EXTENDS Integers, Sequences, SequencesExt

CONSTANTS
  Exports,     \* external: the lists of devices the server may export
  BUSID_LEN,   \* the size of a bus id on the wire; a NUL follows one that is shorter
  NoDevice

\* Of two bus ids with one name the shorter is a prefix of the longer.
BusId      == [name : STRING, len : Nat]
DeviceInfo == [busid : BusId, devid : Nat, speed : Nat, num_interfaces : Nat]

ASSUME HandshakeAssumption ==
  /\ Exports \subseteq Seq(DeviceInfo) /\ NoDevice \notin DeviceInfo
  /\ BUSID_LEN \in Nat \ {0}
  /\ \A e \in Exports : \A d \in Range(e) : d.busid.len <= BUSID_LEN

VARIABLES
  pc,        \* where main is
  numLeft,   \* devices of the reply list_devices has still to read
  devices,   \* those it has read
  dev,       \* dev_info of the imported device
  speed,     \* what gadget.init was told
  connUp,    \* the present connection is alive
  toServer, toClient,
  exported,  \* external: the devices the server exports now
  replied,   \* external: those of its reply to list_devices
  imported   \* external: the device it handed out

mainVars   == <<pc, numLeft, devices, dev, speed>>
peerVars   == <<exported, replied, imported>>
streamVars == <<connUp, toServer, toClient>>
hsVars     == <<mainVars, peerVars, streamVars>>

OpHeader(code, status) == [type |-> "op", code |-> code, status |-> status]
NumDevices(n)          == [type |-> "num", n |-> n]
WireDeviceInfo(d)      == [type |-> "dev", dev |-> d]
WireInterfaceInfo      == [type |-> "iface"]
ReqDevlist             == [type |-> "REQ_DEVLIST"]
ReqImport(busid)       == [type |-> "REQ_IMPORT", busid |-> busid]

HandshakeTypeOK ==
  /\ pc \in {"start", "listHeader", "listDevice", "pick", "importHeader", "importDevice",
             "gadget", "running", "failed"}
  /\ numLeft \in Nat /\ devices \in Seq(DeviceInfo)
  /\ dev \in DeviceInfo \cup {NoDevice} /\ imported \in DeviceInfo \cup {NoDevice}
  /\ speed \in 0 .. 6 /\ connUp \in BOOLEAN
  /\ exported \in Exports /\ replied \in Exports \cup {<<>>}

HandshakeInit ==
  /\ pc = "start" /\ numLeft = 0 /\ devices = <<>> /\ dev = NoDevice /\ speed = 0
  /\ connUp = FALSE /\ toServer = <<>> /\ toClient = <<>>
  /\ exported \in Exports /\ replied = <<>> /\ imported = NoDevice

-----------------------------------------------------------------------------
(* main.  An error ends the program.                                        *)

\* Where main reads, and what it reads first.
Structure == [listHeader |-> "op", listDevice |-> "dev",
              importHeader |-> "op", importDevice |-> "dev"]

At(place) == pc = place /\ UNCHANGED peerVars

\* A new connection, on which one request is written; the last one is closed.
Request(req, then) ==
  /\ pc' = then
  /\ connUp' = TRUE /\ toServer' = <<req>> /\ toClient' = <<>>

\* read_exact
Receive(n) ==
  /\ Len(toClient) >= n
  /\ toClient' = SubSeq(toClient, n + 1, Len(toClient))
  /\ UNCHANGED <<connUp, toServer>>

Accepted(code) == Head(toClient).code = code /\ Head(toClient).status = 0

ListDevices ==
  /\ At("start") /\ Request(ReqDevlist, "listHeader")
  /\ UNCHANGED <<numLeft, devices, dev, speed>>

\* The number is read with the header, before the status is looked at.
ListHeader ==
  /\ At("listHeader") /\ Receive(2)
  /\ numLeft' = toClient[2].n
  /\ pc' = IF ~Accepted("REP_DEVLIST") THEN "failed"
           ELSE IF numLeft' = 0 THEN "pick" ELSE "listDevice"
  /\ UNCHANGED <<devices, dev, speed>>

\* Mutant: the interfaces are left on the stream.
DeviceAlone(d) == 1

DeviceSize(d) == 1 + d.num_interfaces

ListDevice ==
  /\ At("listDevice")
  /\ toClient # <<>> /\ Receive(DeviceSize(Head(toClient).dev))
  /\ devices' = Append(devices, Head(toClient).dev)
  /\ numLeft' = numLeft - 1
  /\ pc' = IF numLeft' = 0 THEN "pick" ELSE "listDevice"
  /\ UNCHANGED <<dev, speed>>

\* Mutant: one byte short.
ShortField(busid) ==
  IF busid.len < BUSID_LEN - 1 THEN busid ELSE [busid EXCEPT !.len = BUSID_LEN - 2]

\* The field is filled with NULs and ends in one.
Field(busid) ==
  IF busid.len < BUSID_LEN THEN busid ELSE [busid EXCEPT !.len = BUSID_LEN - 1]

ImportDevice ==
  /\ At("pick")
  /\ IF devices = <<>> THEN pc' = "failed" /\ UNCHANGED streamVars
     ELSE Request(ReqImport(Field(devices[1].busid)), "importHeader")
  /\ UNCHANGED <<numLeft, devices, dev, speed>>

ImportHeader ==
  /\ At("importHeader") /\ Receive(1)
  /\ pc' = IF Accepted("REP_IMPORT") THEN "importDevice" ELSE "failed"
  /\ UNCHANGED <<numLeft, devices, dev, speed>>

\* Mutant: read as a device of the list is, with its interfaces.
ListImportSize(d) == DeviceSize(d)

ImportSize(d) == 1

\* Mutant: what was listed is taken for what is imported.
StaleInfo(d) == devices[1]

Info(d) == d

ImportInfo ==
  /\ At("importDevice")
  /\ toClient # <<>> /\ Receive(ImportSize(Head(toClient).dev))
  /\ dev' = Info(Head(toClient).dev)
  /\ pc' = "gadget"
  /\ UNCHANGED <<numLeft, devices, speed>>

\* Mutant: speeds nobody knows are passed on.
raw_speed(s) == s

map_speed(s) == IF s \in 1 .. 6 THEN s ELSE 0

\* into_split, open, init and run; any of them may fail.
StartGadget ==
  /\ At("gadget")
  /\ \/ pc' = "running" /\ speed' = map_speed(dev.speed)
     \/ pc' = "failed" /\ UNCHANGED speed
  /\ UNCHANGED <<numLeft, devices, dev, streamVars>>

Wanted ==
  CASE pc = "listHeader" -> 2
    [] pc = "listDevice" /\ toClient # <<>> -> DeviceSize(Head(toClient).dev)
    [] pc = "importDevice" /\ toClient # <<>> -> ImportSize(Head(toClient).dev)
    [] OTHER -> 1

\* Nobody listens, or the stream ends before a structure does.
ConnectionFails ==
  /\ \/ pc \in {"start", "pick"}
     \/ pc \in DOMAIN Structure /\ ~connUp /\ Len(toClient) < Wanted
  /\ pc' = "failed"
  /\ UNCHANGED <<numLeft, devices, dev, speed, peerVars, streamVars>>

MainStep ==
  \/ ListDevices \/ ListHeader \/ ListDevice \/ ImportDevice \/ ImportHeader
  \/ ImportInfo \/ StartGadget \/ ConnectionFails

-----------------------------------------------------------------------------
(* The server and the network (external).                                   *)

Listing(d) == <<WireDeviceInfo(d)>> \o [i \in 1 .. d.num_interfaces |-> WireInterfaceInfo]

Serve(type) ==
  /\ connUp /\ toServer # <<>> /\ Head(toServer).type = type
  /\ toServer' = Tail(toServer)
  /\ UNCHANGED <<mainVars, exported>>

ServerLists ==
  /\ Serve("REQ_DEVLIST")
  /\ toClient' = <<OpHeader("REP_DEVLIST", 0), NumDevices(Len(exported))>>
                   \o FlattenSeq([i \in DOMAIN exported |-> Listing(exported[i])])
  /\ replied' = exported
  /\ UNCHANGED <<connUp, imported>>

ServerExports ==
  /\ Serve("REQ_IMPORT")
  /\ \E d \in Range(exported) :
       /\ d.busid = Head(toServer).busid
       /\ toClient' = <<OpHeader("REP_IMPORT", 0), WireDeviceInfo(d)>>
       /\ imported' = d
  /\ UNCHANGED <<connUp, replied>>

\* An error has a header of its own and nothing else, or a number nobody uses.
ServerRefuses ==
  /\ \E type \in {"REQ_DEVLIST", "REQ_IMPORT"} : Serve(type)
  /\ \E op \in {OpHeader("REP_DEVLIST", 1), OpHeader("REP_IMPORT", 1), OpHeader("unknown", 0)},
        rest \in {<<>>, <<NumDevices(0)>>} : toClient' = <<op>> \o rest
  /\ connUp' = FALSE
  /\ UNCHANGED <<replied, imported>>

\* Devices are plugged and unplugged; a bus id is a place, not a device.
\* Bound: what happens after the import is of no concern here.
ServerReplugs ==
  /\ imported = NoDevice
  /\ exported' \in Exports
  /\ UNCHANGED <<mainVars, replied, imported, streamVars>>

ConnLost ==
  /\ connUp /\ connUp' = FALSE
  /\ \E j \in 0 .. Len(toServer), k \in 0 .. Len(toClient) :
       toServer' = SubSeq(toServer, 1, j) /\ toClient' = SubSeq(toClient, 1, k)
  /\ UNCHANGED <<mainVars, peerVars>>

Server == ServerLists \/ ServerExports \/ ServerRefuses

HandshakeNext == MainStep \/ Server \/ ServerReplugs \/ ConnLost

\* The server answers, or closes the connection when it will not.
HandshakeFairness == WF_hsVars(MainStep) /\ WF_hsVars(Server)

-----------------------------------------------------------------------------
(* Every read takes the structure it is made for, and a reply is read to its *)
(* end: list_devices takes the interfaces of each device (client.rs:51),     *)
(* import_device finds none (client.rs:105), and no byte of either is left   *)
(* for the first URB answer to be read from.                                 *)
InStep ==
  toClient # <<>> /\ pc # "failed" =>
    pc \in DOMAIN Structure /\ Head(toClient).type = Structure[pc]

(* A read of start-up never waits in vain: while the connection is up the    *)
(* server either still has the request, or has sent all of the structure     *)
(* main reads (client.rs:27, 48, 87, 105). Server and program cannot wait    *)
(* for each other.                                                           *)
AnswerIsWhole ==
  pc \in DOMAIN Structure /\ connUp /\ toServer = <<>> =>
    toClient # <<>> /\ Len(toClient) >= Wanted

(* The device asked for is the first one the server listed: its bus id comes *)
(* back whole and no other one, even when it is a prefix of another.  One     *)
(* that leaves no room for a NUL, which protocol.rs:80 accepts, is cut        *)
(* (client.rs:81) and may name another device.                               *)
ImportsFirstListed ==
  \A i \in DOMAIN toServer :
    toServer[i].type = "REQ_IMPORT" =>
      /\ toServer[i].busid.len < BUSID_LEN /\ toServer[i].busid.name = replied[1].busid.name
      /\ replied[1].busid.len < BUSID_LEN => toServer[i].busid = replied[1].busid

(* The gadget plays the device the server handed out, which may no longer be *)
(* the one it listed under that bus id (main.rs:277, 295): URBs carry its    *)
(* device id and the host sees its speed.                                    *)
PlaysImported ==
  pc = "running" =>
    dev = imported /\ speed = IF imported.speed <= 6 THEN imported.speed ELSE 0

(* Start-up ends, in the event loop or with an error: it never waits for a   *)
(* structure the server does not send (client.rs:27).                        *)
HandshakeEnds == <>(pc \in {"running", "failed"})
=============================================================================
