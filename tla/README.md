# usbipdevirt in TLA+

`usbipdevirt` imports a USB device from a USB/IP server and plays it to a local
USB host through Linux raw-gadget.  These modules model its control: who waits
for whom, which answer goes where, what a reset or a lost connection leaves
behind.  Line numbers are those of the source files; `client.rs` is
`src/usbip/src/client.rs`, `main.rs` is `src/usbipdevirt/src/main.rs`,
`device.rs` is `src/rawgadget/src/device.rs`.

## 1. Inventory

| part | state | operations | interacts with |
|---|---|---|---|
| USB/IP client (`client.rs` 120-501) | `next_seqnum`, maps `pending` (URB -> direction) and `unlinks` (unlink -> URB) | `send_submit`, `send_unlink`, `recv`, `into_split` | the server, over one TCP stream; writer and reader half share the maps |
| handshake (`client.rs` 13-118) | none | `list_devices`, `import_device` | the server; yields the connection |
| commands on the wire (`client.rs` 384-439) | the socket | `write_cmd_submit`, `write_cmd_unlink` | the server, which finds the next command by the length of the last |
| wire format (`wire.rs`, `protocol.rs`) | none | layout and conversion | used by both of the above |
| `UsbipBridge` (`main.rs` 37-120) | writer mutex, `pending` (URB -> channel of the caller), one reader thread | `submit`, `reader_thread` | called by the main and the endpoint threads |
| event loop and endpoint 0 (`main.rs` 303-504) | `cached_config_desc`, `ep_threads` | the handlers of control requests, reset, disconnect | the host by raw-gadget ioctls, the device by `submit` |
| endpoint threads (`main.rs` 173-250) | the packet in hand | IN: submit, `ep_write`; OUT: `ep_read`, submit | the host and the device |
| descriptor parser (`main.rs` 124-155) | offset, endpoints found | one loop | fed with bytes the device sent and the host cut |
| raw-gadget wrappers (`device.rs`) | a file descriptor | one ioctl each | the kernel, which answers "the pending request" on endpoint 0 |
| start-up (`main.rs` 254-301) | none | list, import, split, open, init, run | straight-line; an error ends the program |

What is hard about it, and what makes each part right:

- *Handshake.*  Nothing on the stream says where a structure begins; replies come
  with or without a tail; what the server exports changes between two
  connections.  Each read takes the structure it is made for, a reply is read to
  its end, the first listed device is asked for and the imported one played.
- *Commands.*  A command is two writes by one of many threads, and the length it
  announces comes from elsewhere than its data.  The server takes off the stream
  what was sent, whole, and never waits for what will not come.
- *Client.*  Two threads on shared maps, a server that answers out of order, an
  unlink racing the completion of its target.  An answer is never refused for
  want of an entry; payload is read exactly where there is payload (one mistake
  and the stream is out of frame for good); an entry goes when its answer came.
- *Bridge.*  Callers come and go under recycled map entries, the reader sends
  into one-place channels, the connection may end at any step of `submit`.  Each
  answer reaches its own call, the reader never blocks on a caller, a call ends.
- *Event loop, endpoint 0.*  A remote device that is slow, refuses, or goes
  away, with the host waiting; endpoint 0 ioctls name no request.  The host and
  the device agree on the configuration; each request is answered; the endpoints
  served are those of that configuration.
- *Endpoint threads.*  They outlive what they were started for unless they are
  joined, and a join waits for a `submit` only the device can end.  No thread
  works for a configuration that is gone; packets stay in order.
- *Parser.*  Lengths lie and descriptors are cut.  No index out of bounds (a
  panic of the main thread), no endless loop, exactly the whole endpoints.

`PROJECT.json` lists these dangers under `hazards`, each at its line with the
properties that watch it.

## 2. Modules

```
Handshake  <--EXTENDS--  CommandStream      (what goes to the server)

UsbipClient  <--EXTENDS--  UsbipBridge  --implements-->  UrbCalls
                                                            ^
                                                            | INSTANCE
ConfigDescriptor                                       GadgetBridge
```

**`Handshake`** - `main` from its start to the event loop: `list_devices` on one
connection, `import_device` on another, then the gadget.  `pc` is the place in them,
`toServer` and `toClient` are the two directions of the present connection as
sequences of the structures that are written and read as a whole.  Each
`read_wire` is a `Receive`, each loop iteration of `list_devices` a `ListDevice`
that takes the device and its interfaces; an error is `pc = "failed"`, since `?`
ends the program.  A bus id is a name and a length: of two with one name the
shorter is a prefix of the longer, which is all the cut of `client.rs` 81 can do.
A listed id has at most `BUSID_LEN` bytes, as `protocol.rs` 80 reads them; one that fills
the field loses its last byte when it is asked for.
External are the server, which may replug its devices until one is imported
(`ServerReplugs`) and refuse with or without the tail of a reply
(`ServerRefuses`), and the network (`ConnLost`).

**`CommandStream`** - the same connection afterwards: `Submit(t)` takes the writer
mutex and a number and lists the writes to be made, `Write(t)` makes one
`write_all`.  A transfer is what its caller announces and the data it has
(`ControlIn`, `ControlOut`, `EpIn`, `EpOut`); the lengths of control transfers with data
from the host (`DataStages`) are apart from the others, since only these pass through
the endpoint 0 buffer.  `ServerTakes` reads as a server must: a
header, then the data an OUT header announces.

**`UsbipClient`** - `UsbipConnection` while it is whole, and the two halves it
splits into.  A command `c` is one thing here (`CommandStream` has its parts): an
URB or an unlink with its number.  `sharedPending` and `sharedUnlinks` are the maps, `nextSeq` the
`u32` counter with `u32::MAX = MaxSeq`.  Of the split writer, registration
(`Send`), write (`WriteCmd`) and clean-up after a failed write
(`Cleanup`) are separate steps, since each takes its own lock; whoever holds the
writer sends one command at a time.  `recv` takes a header (`RecvRetSubmit`, `RecvRetUnlink`,
`RecvGarbage`, with the map update its lock makes atomic), then a payload
(`RecvData`), then returns.  The server is external: it holds URBs, completes
them in any order, performs unlinks, and answers on a FIFO stream of headers and
payloads; with `StrayAnswers` it also sends answers nobody asked for, of any number, with
and without a length (`Strays`).  A RET_SUBMIT with a length for an IN URB makes `recv`
take what comes next for its data, header or not (`RecvData`), and what remains of that is
one `Unknown` header.  `strayed` remembers that it happened, since the frame is lost then and
little can be promised of the maps.  The
connection can be lost at any point with any suffix of the stream.

**`UrbCalls`** - what `submit` promises: one outcome per call, an answer only if
the device carried out this very URB, an error that says nothing about the
device.

**`UsbipBridge`** - each step of `submit` from the lock to the return, and of
`reader_thread` from `recv` to the drain.  A step that runs library code is a
conjunction of the thread's program counter and the library's action
(`Register(t)` is a `Send`, `ReaderRecv` is `RecvCall \/ Recv`).  Channels
hold at most one message; a replaced sender makes `recv` fail (`Dropped`); an
overflow panic poisons the mutex (`LockPoisoned`).

**`GadgetBridge`** - `main`'s event loop and handlers (`mainPc` is the place in
them), the descriptor cache, `ep_threads`, and both kinds of endpoint threads.
`submit` is an instance of `UrbCalls`, so the two layers meet in one interface;
`EndpointsServed` and the others therefore assume what `ImplementsUrbCalls`
shows.  A request keeps what the handlers branch on (name, direction, length,
for a configuration its number and whether it is read in full) and `std`, whether
its number means to the host and the device what `main` takes it for; a
SET_CONFIGURATION(0) is one whose configuration is `None`.  The parser returns a list with
an entry for each endpoint descriptor, and alternate settings repeat an endpoint: a
configuration is a set of descriptors (`DescsOf`), each with its endpoint (`AddressOf`), and
main enables an endpoint and starts a thread for each descriptor.  External are
the host (one control request at a time; what else it may do is chosen by
`HostGivesUp`, `HostReselects`, `HostReadsFirst`), the kernel (an endpoint 0 ioctl ends
the pending request or fails if there is none of its direction; enabling an
endpoint once more, after a reset or for another setting, may fail), the device, and the connection.

**`ConfigDescriptor`** - `parse_endpoint_descriptors` over bytes, one action per
way through the loop body, with the indices it reads in `touched`.  `MatchesReference`
says the same from the other end, without a walk: given a list of descriptors, each with
its place, and the bytes they are sent as (`SentAs`: as many whole ones as the cut
leaves), the endpoints found are those of the list (`AsFound`), and no others.

`UsbipClient` and `UsbipBridge` start from the connection `Handshake` ends with, and
`GadgetBridge` from the same place.  Answers are not in `CommandStream`, nor data of
commands in `UsbipClient`: what the one sends and the other receives meet only in
the server, which is external to both.

The `*MC` modules give the constants values for TLC, the `*Proofs` modules hold the
theorems.  Operators marked `Mutant:` are broken variants of the definition that
follows; no specification uses them.

## 3. Runs

| run | instance | shows |
|---|---|---|
| `session` | 5 lists of devices, 2 threads, 3 commands of length 0 to 2, control OUT of up to the buffer of 1, fair | start-up ends, no read of it waits in vain; every structure is read as what it is; the commands arrive whole and in order |
| `client` | 4 commands (the counter ends at 5), any completion order; stray answers, from which on 2 commands (`StraysEarly`) | `NoFalseRejection`, `Framed`, `NoLeakedEntry` for the whole and the split connection |
| `bridge` | 2 callers, 5 numbers, fair | `submit` implements `UrbCalls`; the reader ends only with the connection; an answer is lost only in the race of `main.rs` 73 (`AnswerIsAwaited`); answerable calls return |
| `bridge_stray` | 2 callers (symmetric), 4 numbers, stray answers | `AnswerMatchesCall`, `ReaderNeverBlocks`, `WaiterIsRegistered` whatever the server sends |
| `gadget` | IN and OUT endpoint, 2 configurations, 2 packets each, 2 configurations started, 1 queued event | agreement, threads, packets, requests under a patient host |
| `gadget_live` | IN endpoint, data longer than the buffer, SET_CONFIGURATION(0), 2 queued events, any host, fair | no handler drops a request (`NoRequestLost`), every request is answered, every join finishes, main acts only on a SET_CONFIGURATION the device has taken (`ConfigurationTaken`), none of the last threads outlives a join |
| `descriptor` | all lists of up to 3 of 8 kinds of descriptors, cut after every byte | bounds, termination, equality with the reference of every list of those kinds |

Five runs end in a counterexample, each against a sentence of the repository:

- `bridge_race` - *"Register pending BEFORE writing to avoid race with reader"*
  (`client.rs` 257).  `submit` inserts its channel after the write (`main.rs`
  73); an answer taken by the reader in between is discarded and the caller
  waits for ever.
- `bridge_drain` - *"Drain all pending requests with error"* (`main.rs` 111).  A
  caller whose write the socket took inserts itself after the drain.
- `session_long` - *"transfer_buffer for OUT direction"* (`client.rs` 411) and
  *"Just forward and log errors."* (`main.rs` 421).  A control OUT longer than the
  endpoint 0 buffer is announced with `wLength` and sent with what `ep0_read`
  returned; the next header becomes its data.
- `gadget_join` - *"all EP threads joined after disconnect"* (`main.rs` 357).  The
  thread of an IN endpoint with no data is in `submit`, and nothing unlinks its
  URB: the join, and with it the event loop, waits for the device.
- `gadget_vendor` - the same sentence.  A class or vendor request numbered 9 is
  handled as SET_CONFIGURATION (`main.rs` 328) and detaches the threads at work; a
  host that sets its configuration twice, or takes it back with SET_CONFIGURATION(0), does the same.

**Bounds.**  Numbers begin at 1 and, with overflow checks, the last is never sent: `MaxSeq` is 5 in `client`,
which are four commands, each of which can be in a different stage (being sent, held, on the
stream, unlinked), but two once the server has strayed, when the maps promise nothing any more; 4 in `bridge`, which are three commands, one more than there are callers;
and 3 in `bridge_stray`, one command for each of its callers.  The counter reaches its end in all.
Two callers give each interleaving of a caller with another and with the
reader; a third adds no new kind of step, and the theorems hold for any number.
A stray answer is sent when the stream is empty, one at a time: what matters of it is the
state of the maps it meets, and what a lost frame makes of the rest is `Unknown`.  In
`GadgetBridge`, `MaxSpawns = 2` is a reconfiguration, `MaxPackets = 2` an order
to disturb, `MaxEvents` the requests that queue up behind main; SET_CONFIGURATIONs, queued, handled or
with their threads started, are `MaxSpawns` at most, so a host may queue one behind another
(`SetConfigsMade`); `EP0_BUF_SIZE = 1`
with lengths 1 and 2 covers both sides of the limit.  In `session` the lists have a
device with two interfaces, one without any, a bus id that is a prefix of
another, one that leaves just room for its NUL and one that fills the field, another device
in the place of the first, and none; packets and control reads are as long as twice the buffer of
`EP0_BUF_SIZE = 1`, and three commands put a header behind data of either thread.  The descriptor kinds are
the lengths around each comparison of the parser: 0, 1, 2, 6, 7, 8, 9 stored, 10, 255.

**Deadlock** is not checked: every system here may stop (a lost connection, a
program that ended, a parser that is done, a caller that waits for ever).

**Hosts.**  Some properties of `gadget` hold only for a host of some patience, and each
says so.  A host that abandons a request breaks them: endpoint 0 ioctls name no
request, so the late answer goes to the next one, and so on down the queue.
Raw-gadget gives `main` no way to tell, and nothing in the repository promises
otherwise.  Nor do some survive a SET_CONFIGURATION(0) (`NeverDeconfigures`), for which main
starts threads of its own, or alternate settings (`OneDescriptorEach`), for which it starts
several on one endpoint.  The instance of `gadget` has a descriptor for each endpoint; that
`EndpointsServed`, `LiveThreadsFit` and `AllThreadsJoined` hold with alternate settings as
well is proved (`GadgetHostProofs`), since two threads per endpoint are too many for TLC.
`gadget_live` checks what survives any host; an answer there counts as one whichever request
it was for.  A SET_CONFIGURATION(0) is among its requests: main enables the endpoints of the
cached descriptor and starts their threads for a device that has just left its configuration
(`main.rs` 456-501), and `ConfigurationTaken` says what can be said of that: the device has
taken the very request main acts on.  One thing there needs an
exception, named `Overtaken`: a request of before a reset is answered after it, and
the host takes the answer for one to the SET_CONFIGURATION it has made since; when
main comes to the reset, the host believes it is configured, its endpoints have
no reason to fail, and the join waits.

**Fairness.**  Threads are run by the operating system, so each thread has weak
fairness on its steps, as one action per thread: nothing is said of which step.
The server or device answers URBs it holds (`ServerCompletes`, `DeviceStep`);
for IN endpoints this is the constant `InAnswers`, since a device may have
nothing to send for ever.  In the handshake a server answers a request or closes
the connection (`Server`), and a refusal closes it too: a server that left it open after the
eight bytes of an error reply would keep `list_devices` in its read of twelve (`client.rs` 27).
Afterwards it reads what it is sent
(`ServerTakes`).  The connection need not fail, and the host need not
act.  `GadgetBridge`'s liveness takes a call that was carried out to be answered
(`AnswerArrives`) and a lost connection to fail every open call (`CallsFail`); the
race and the drain above are exactly the cases where `submit` does not do that,
so `JoinFinishes` and `EveryRequestAnswered` hold but for those two defects.

## 4. Proofs

`tlapm` checks every obligation of the eight proof modules.  The assumptions are
the named `ASSUME`s on the constants: what kind of set or number each is, and that a bus
id is no longer than its field.  A theorem that needs more says so.

- **`UsbipClientProofs`**: `ClientTypeCorrect`.  `TypeOK` is inductive; the one
  point of interest is that taking from and adding to the stream keeps a
  sequence of tokens.
- **`UsbipAccountsProofs`**: `NoAnswerRejected`, `StreamStaysFramed` and
  `NoEntryLeaks`, under `OverflowChecks`: once numbers wrap, a new command may carry
  the number of an old one.  The invariant is `Accounts`.  `Numbers`: what is being
  sent has a number below the counter and of its own, and the maps agree with the
  server on directions.  `Numbers` holds against any server, `Balanced` until it strays:
  behind each answer that has data is that data, unless the stream ends there
  (`DataFollowsHeader`, which a stray answer with a length undoes); an URB is sent, held or answered and only one
  of these (`UrbAccounts`), an unlink likewise, and the target of one that won is
  `Cancelled`: it has no URB and no answer left to compete with the RET_UNLINK
  (`UnlinkAccounts`); data is nowhere but behind its header (`HeaderBeforeData`);
  whatever is registered is on its way, there or back (`NothingLeft`).  One lemma per
  step of `Next`.
- **`UsbipBridgeProofs`**: `BridgeUsesClient` shows that each bridge step is a
  step of the split client or leaves it alone, so `BridgeTypeCorrect` reuses the
  client's lemma.  `AnswersMatchCalls`, `ReaderIsNeverBlocked` and
  `WaitersStayRegistered` follow from `CallInv`, needed because none of the three is
  inductive: a sender in the map belongs to a caller that waits under that number
  with an empty channel (`StoredSenderWaits`), the same goes for the sender in
  the reader's hands, which is no longer in the map (`TakenSenderWaits`), what a
  channel holds was received by a waiter (`ReceivedByWaiter`), and, with overflow
  checks, running calls have numbers of their own, below the counter
  (`FreshNumbers`).  Library steps do not touch the variables of `CallInv` but for
  the counter and the decoded header; each bridge action is one case.
- **`UrbCallsProofs`**: both threads together.  `BridgeStepIsClientStep` carries
  `Accounts` to the bridge, so `recv` cannot fail while the connection is up and the
  server has not strayed, and `ReaderOutlives` follows.  `SubmitKeepsPromise` is the
  refinement of `UrbCalls`, against a server without stray answers.  It needs one
  thing more, that an answer is evidence: wherever a RET_SUBMIT is, on the stream, in the
  reader's hands or in a channel, its URB has been carried out and no later
  command gets the number (`StreamIsEarned`, `ChannelsAreEarned`).  `SendTx` is then an
  `Answer`, `ServerCompletes` a `CarryOut` of the one call with that number, the
  drain a `Fail` of all that are registered, and the rest of `submit` a `Call`,
  a `Fail`, a `Return` or a stutter.  `AnswersAreAwaited` marks out the defect of
  `bridge_race`: while the reader runs, whatever the server holds or has answered belongs to
  a call that is registered, or to one between its write and its insertion, so an answer is
  lost there and nowhere else.  Besides `Accounts` and `CallInv` it needs that the command on
  its way is that of the caller who holds the writer (`WriterInTurn`) and that what the reader
  has taken is neither held nor answered again (`TakenOnce`).
- **`GadgetBridgeProofs`**: `GadgetUsesCalls` shows that each step of the program
  calls, serves or ends a submit as `UrbCalls` allows.  `GadgetTypeCorrect` needs more
  than the types (`TypeInv`): main holds a SET_CONFIGURATION request and a
  descriptor while it acts on them (`ConfigSteps`), has no call open while it is
  elsewhere (`CallsOfMain`), and the requests that start threads,
  queued, handled and done, are counted (`SetConfigsBounded`), which keeps `spawns` within its bound.
  `ConfigurationTakenCorrect` adds `DeviceInv`: from the answer to a SET_CONFIGURATION
  to the threads it starts, the device is in the configuration it names; nothing is
  asked of the host, and the configuration may be none.
  `LastThreadsJoinedCorrect` adds `JoinInv`: no thread is started before its turn
  (numbers beyond `spawns` are unused) and a live thread of the last
  configuration is one whose handle main holds, so the join waits for it.
  `NoRequestIsLost` holds under any host as well: the request it waits for is the last
  in the queue, behind those it has given up, or main handles it and has not answered.
  It is the safety half of `EveryRequestAnswered`; no path of the handlers is without an
  answer, and what can still keep the host waiting is a call or a join that does not end.
- **`GadgetHostProofs`**: what the program promises a host that waits for its answers
  (`HostGivesUp = {}`), for any number of requests, packets and reconfigurations.
  With such a host one control request is under way at a time, and an endpoint 0
  ioctl meets the very request main handles (`OneAtATime`); everything else builds
  on that.  `AgreeInv`, that host and device agree but while main sets a
  configuration the device has already taken, gives `HostAgrees` with no further
  hypothesis.  `ResetInv` says that the host has nothing while a reset waits for main,
  `CacheInv` that the descriptor main has is the one the host read last, and `ServedInv`
  that the threads started are those of the host's configuration; together they give
  `EndpointsAreServed`, for standard requests and a host that reads a configuration before
  it sets it.  `HeldInv`, that every live thread is one whose handle main holds and none is
  at work while a configuration is set, gives `AllJoined`; it needs a host that goes
  through a reset between two configurations (`~HostReselects`) and standard requests
  other than SET_CONFIGURATION(0), since otherwise threads are detached (`gadget_vendor`).  `FitInv` adds that those threads serve the configuration the
  device is in (`LiveThreadsFitCorrect`), and `PacketInv` that an endpoint has one carrier
  at most, whose packet is newer than all that arrived (`PacketsArriveInOrder`).  The one
  carrier is the work of the join; that there is not more than one from the start is
  `OneDescriptorEach`, a hypothesis: the code starts a thread per descriptor.
  `MainStaysUpCorrect` assumes, besides the careful host, requests whose answers fit
  the endpoint 0 buffer (`FittingRequests`) and a device without alternate settings, whose
  endpoints the kernel may refuse to enable twice: with `OneAtATime` no reply can then fail.
- **`SessionProofs`**: start-up and the commands after it, for every list of devices,
  any number of threads and commands, and a connection lost anywhere.  `Reading`
  says, for each place of main, what is on the connection: at most the one request,
  then a beginning of the reply to it (`ListReply`, `ImportReply`) or a refusal, then
  what is left of the reply once the structures before this place are read.  Since a
  lost connection leaves a beginning of what was sent, "a beginning of" (`Starts`) is the
  shape every step keeps.  `StaysInStep`, `FirstListedIsAskedFor`, `ImportedIsPlayed` and
  `SessionTypeCorrect` follow from `SessionInv`, which adds that nothing is sent
  before the event loop and nothing but commands after it.  `CommandsArriveWhole`
  needs `FlowInv`: what the server has of a command and what is on the stream are a
  beginning of what it is owed, the commands sent and not yet taken, put together
  (`Owed`), and while the connection lives they lack exactly what the one writer has
  still to write (`AllOnTheWay`); each command has the length its header announces
  (`WholeCommands`), so the server ends it where it ends.  Its hypothesis, `StagesFit`,
  says that no control transfer with data from the host is longer than the endpoint 0 buffer,
  and leaves all others as long as they are; `session_long` is the
  counterexample without it.  `Owed` and the replies are `FlattenSeq`s, a recursive
  function of the community modules, and what it makes of a first and of a last
  sequence is proved by induction: the library's rules take the property as an operator,
  which no backend instantiates, so `SetInduction` takes it as a set and is proved from
  the well-foundedness of the naturals.  `StartUpNeverStuck` is the safety half of
  `HandshakeEnds`: while the connection is up, either the server has still the request, or
  all of the structure main reads next is on the stream (`Whole`: what is left of the reply
  begins with it), so server and program never wait for each other.
- **`ConfigDescriptorProofs`**: `ParserTypeCorrect`, `ParserStaysInBounds` and
  `EndpointsFoundApart` for every set of byte strings.  The key is that the offset never passes the
  end, so a header with two bytes left has a length byte, and a descriptor that
  fits has all its bytes.  `ParserMatchesReference` is the agreement with the reference, for
  every list of descriptors and every cut: the walk goes along the list (`AlongStep`: the
  offset is the end of one of its descriptors, and what was found so far is what the list has
  up to there), and where it stops no whole descriptor is left (`WalkStops`).  That ends grow along
  a list and that a place belongs to one descriptor only is proved by `SetInduction` over its
  positions, as in `SessionProofs`.  `EveryInputIsAList` shows that the reference leaves nothing
  out: each byte string the parser comes to the end of is some list, the descriptors it
  passed, with a rest that holds no other.  `WalkAdvances` is the safety half of `Terminates`: a
  step ends the walk, or takes it two bytes or more further and never past the end.

Before each of these proofs TLC checked the inductive invariant on the instance of the
corresponding run.

Every invariant, every action property and the refinement of the passing runs is thus
proved for all values of the constants.  Only model-checked is liveness under fairness,
which is beyond this prover: `HandshakeEnds`, `CommandsDelivered`,
`EveryAnswerableCallReturns`, `JoinFinishes`, `EveryRequestAnswered` and `Terminates`.
Of most of them the safety half is proved, that nobody waits for what cannot come
(`StartUpNeverStuck`, `CommandsArriveWhole` with `AllOnTheWay`, `AnswersAreAwaited` and
`WaitersStayRegistered`, `NoRequestIsLost`, `WalkAdvances`); that the steps so enabled are taken,
and that they suffice, is what the runs show.

## 5. Not modelled

- Command line options and logging.
- Field layout and byte order of the wire format; ioctl numbers and buffers; the device
  id as two numbers in one.
- ioctl failures no host causes (a kernel out of memory, `vbus_draw` or `configure`
  refusing) once the event loop runs; they end the program through `?`.
- A `write_all` that stops half-way as a step of its own: the connection is lost then,
  with any prefix of what it took (`ConnLost`), and no later command arrives.
- `ep_disable`, halt, wedge and `eps_info`, which the program never calls, and the examples.
- The order of the threads of one configuration among each other, and of the entries the parser
  returns: a configuration is a set of descriptors.
- A server that refuses and leaves the connection open.
- What a class or vendor request numbered 6 does to the descriptor cache.

## 6. Plan

Done, in this order: client, bridge, event loop and endpoint threads, parser;
then the handshake, the commands on the wire, requests by type, any host, and
the proofs about `GadgetBridge`; then the accounts of the client and the refinement of
`UrbCalls`, proved; then the proofs about a patient host and about the session; then
the parser's agreement with its reference, and the safety halves of the liveness
properties; then stray answers with a length, alternate settings and SET_CONFIGURATION(0).  What would come next belongs beside a change of the code: corrected variants
of `submit` (insertion before the write, a drain that leaves a mark for those who come
later), for which `AnswerFindsCaller` and `DrainReachesEveryCall` would be theorems, and of the
join (an unlink of what the threads wait for), for which `JoinFinishes` would need no `InAnswers`.
