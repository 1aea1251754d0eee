# Usbdif: a model of the USB device stack

Usbdif is a USB device stack for microcontrollers, in C.  It registers class
drivers (CDC, RNDIS, mass storage, audio, HID, vendor) on one or more device
controllers, queues the controllers' interrupts for a task, and dispatches
them to the class drivers.  This directory holds TLA+ modules of its core and
of its class drivers, the TLC configurations that check them, and the proofs
TLAPS checks.  All paths below are relative to `src/src/` of the repository.

To check a module: `tlc -config UsbdCore.cfg MCUsbdCore`.  To check the proofs:
`tlapm` on each of the modules `*Proofs.tla`.

## 1. Inventory

| Part | Files | State | Operations | Called by / calls |
|---|---|---|---|---|
| Registry and dispatch | `usbdif.c/.h` | `usbdif`: per unit the tables class position, interface, endpoint -> slot, `classnum`, `pDescTbl`; the slots `rc[]`, `rcnum` | `UsbifInit`, `UsbifRegisterClass`, `UsbifCbInit/Setup/DataOut/DataInDone/Sof` | application registers; core calls the `UsbifCb*`; they call the class callbacks |
| Core | `usbdcore.c/.h` | the queue `idCoreQueue`, per unit `deviceState` | `UsbdcoreCbIsr` (interrupts), `UsbdcoreCbExecute` (task) and its handlers, `Usbdev*` (to the driver) | driver interrupts; calls `UsbifCb*` and the driver |
| CDC | `usbdcdc.c/.h` | handle: `TxState`, `RxBuffer`, ... | callbacks, `UsbdCdcTransmit`, `UsbdCdcReceiving` | registry and an application task |
| Mass storage | `usbdmsc.c`, `usbdmsc_bot.c`, `usbdmsc_scsi.c` | handle (`RxBuffer`, `RxLength`), `bot.state`, the send buffer variables, `lba`, `lbaCnt`, block size | endpoint callbacks, CBW/data/CSW machine, SCSI commands | registry; calls the application's read and write |
| Audio | `usbdaudio.c/.h` | alternates, PCM ring (`outBufPosWr/Rd`) | callbacks, `UsbdAudioGetRecvPointer`, `UsbdAudioAddRecvPointer` | registry and an application task |
| Clock feedback | `usbdcore.c` (`UsbdevSofEntry`), `usbdaudio.c` (`UsbdAudioCbSof`) | last capture, window of deviations and its running sum, frame counter, feedback endpoint | start of frame interrupt, Init, SET_INTERFACE, GET_INTERFACE | the driver's interrupt, outside the queue; the core's task |
| RNDIS, HID, vendor | `usbdcdcrndis.c`, `usbdhid.c`, `usbdvendor.c` | handles with a busy flag, HID's report enable | callbacks and transmit | registry and an application task |
| STM32 glue | `usbdstm.c/.h` | its own queue and task, HAL handles | HAL callbacks, `Usbdev*` of the earlier stack | HAL; nothing in this commit starts it (the calls at `usbdif.c:431` and `502` are commented out) |
| Outside | device driver `DevUsb*`, RTOS, application, host | endpoints, setup buffer, bus | | modelled as environment |

What is hard here:

* **Two contexts, no locks.**  Interrupts fill a queue of four; one task empties
  it for all units; application tasks call the class drivers directly.  What the
  task handles is always somewhat old: the bus may have been reset since, the
  setup buffer overwritten, the transfer restarted.
* **Loss.**  A full queue drops the packet and reports success.
* **Shared slots.**  Registrations of all units take slots from one array, and a
  refused registration may have written already.
* **Order.**  MSC runs a protocol of phases over completions of two endpoints; a
  bus reset may come at any point of it.
* **A ring without counts.**  The audio driver tells full from empty by two
  positions that two contexts move.
* **A sum without its terms.**  The start of frame interrupt keeps a running sum
  of a window that the task's Init clears cell by cell, from captures of a timer
  that wraps around and frames whose interrupt may be missed.
* **Nobody retries.**  A busy flag, an OUT endpoint or a bus phase that is left
  wrong stays wrong until the next enumeration.

What makes each part correct: the tables convert every interface and endpoint
to the class that registered it, and only to that; the device state is the one
the host believes in once nothing is under way; no event of an earlier session
reaches a class of a later one; a busy flag has a reason, reception goes on;
a read gives and a write stores exactly the blocks named, and every command
ends with its status; the samples an application reads are in order and the
streams never fall silent; the window of deviations is that of the frames that
really occurred, and the rate sent to the host is its sum, but for what an
initialisation cleared from the window and left in the sum.

The full list of hazards, each at its line and with the properties that cover
it, is in `PROJECT.json`.

## 2. Modules and their correspondence to the code

| Module | Models | Extends |
|---|---|---|
| `Usbif` | the registry and the dispatch of `usbdif.c` | |
| `UsbdCore` | the core with controllers and a host per unit | |
| `UsbdPipe` | the CDC, RNDIS, HID and vendor drivers composed with the core and an application | `UsbdCore` |
| `UsbdMsc` | mass storage: endpoint callbacks, bulk-only transport, SCSI data path, host and drive | |
| `MscService` | what a mass storage device promises; `UsbdMsc` implements it | |
| `ClassRouter` | what the registry promises the classes; `Usbif` implements it | |
| `UsbdAudio` | the audio driver: the ring of received samples, the IN stream, SET_INTERFACE, an application that plays | |
| `UsbdFeedback` | start of frame capture, the audio driver's window and feedback endpoint, the three interfaces | |
| `UsbifProofs`, `UsbdCoreProofs`, `UsbdPipeProofs`, `UsbdMscProofs`, `UsbdAudioProofs`, `UsbdFeedbackProofs` | theorems | the module proved about, `TLAPS` |
| `ClassRouterProofs`, `MscServiceProofs` | the two refinements | `UsbifProofs`, `UsbdMscProofs` |
| `MC*` | the instances TLC checks | |

**Usbif.**  `byClass`, `byIf`, `byEp` are the three `rcnumBy...` tables of every
unit; `rc`, `rcnum` the slots.  `UsbifInit` is `InitAll` (unit < 0) and
`InitUnit`.  `UsbifRegisterClass` has three outcomes, each one action:
`RegisterRefused` (returns before writing), `RegisterClass`, and `RegisterTorn`,
which meets a taken bit half way and leaves everything written so far.  `Claim`
is the loop over the 32 bits with its `goto fail`.  Each `UsbifCb...` is an
action that records in `call` which callbacks it made with which slot.  Two
history variables say which slots hold an accepted registration (`live`) and
which units have seen a torn one (`torn`).

**ClassRouter** knows of each unit its registered classes, and of an event whom it is
addressed to and whom it called: no tables, no slots, no order of assignments.  The
refinement mapping (`Router` in `Usbif`): `registered` is the contents of the slots in
`live`, each with its slot as the handle the application got; `whole` are the settled
units; `event` is what the last `UsbifCb...` was given and the calls it made.
`RegisterTorn`, which writes a slot and parts of two tables, maps to a refusal that no
class sees.  `MayStray` names the two cases in which the code calls someone the event
is not for: a vendor request nobody handles, and leftovers of a torn registration, met
by an enumeration or by an event for none of the classes.  Whom a start of frame calls
is left open (`UsbifSof`).  A vendor request is in `EventToOwner` too: one that has an
owner goes to it, and only one without goes to slot 0, whichever unit that belongs to.

**UsbdCore.**  `queue` is the RTOS queue and `cur` the packet the task has taken
out; each handler of `UsbdcoreCbExecute` is an action that consumes `cur`, so
interrupts fall between taking a packet and handling it.  A packet does not
hold the SETUP data: `setup[u]` is the controller's buffer, which the next SETUP
overwrites.  `deviceState` is the state of `usbdif.sc[u]`; the statuses keep
their `uint8_t` passage (`U8`).  The environment: a bus per unit that is reset
and enumerated, a host that requests what its own view of the device allows,
takes the answer, or times out.  Sessions are counted per unit and carried in the
packets so that the properties can tell old packets from new; `bad[u]` is the last
session in which a packet of the unit was dropped or a request was overtaken.

**UsbdPipe.**  The four drivers share their structure, so one module has them all;
`class[u]` says which one the unit was built with, and each driver's function is
an action of its own that takes the shared part and what differs.  Every step of
the core is taken with what the class does in it: an `...Init` with the enumerated
event, a data callback with a data event, a setup callback with a class request.
Where they differ: CDC's init prepares the first OUT transfer, RNDIS's leaves that
to the application it calls (`held`); HID and vendor have no OUT endpoint (HID's is
commented out); HID sends only once SET_OUTPUT_REPORT has set `enabled`, which no
reset clears; the vendor driver's data path is under `#if 0`.  A transmit function is
three actions: the test of `TxState` (`UsbdCdcTransmit` and its like), `TransmitMark`
(set it) and `TransmitSend`.  The semaphore around the first two is commented out, so up
to `MaxCalls` tasks are in the function at once: `tested` counts those past the test
and `marked` those past the assignment.  An answer of RNDIS is started twice, by the
driver and by the core; one answer stands for both.  The endpoints of the controller are
`opened`, `inflight` (IN) and `armed` (OUT).  `torn` is a history variable: two calls
passed the test together, or a class init ran with a call past its test, under a
transfer, or before its completion was handled.  It ends with the completion that
leaves nothing of that under way.

**UsbdMsc.**  `m` is the record of the driver's variables, under names close to
the code's.  `DataOutCbw`, `DataOutNoCbw` and `DataOutData` are
`UsbdMscDataOut` with `UsbdmscBotDataOut` for a CBW, for anything else in state
IDLE, and in state DATA; the three together with `Rearm` end as the C function
does, by preparing the next OUT transfer.  `DataInDone` is split along the three
branches of `UsbdmscBotDataInDone`.  `ReadAndSend` and `RecvAndWrite` are the
functions of that name; lengths are in units of a fraction of a block.  The host
sends commands, takes data and status.  `HostStray` is a packet that is no CBW, of any
length up to a full packet: the code re-arms OUT for the length it has just received
(`RxLength`), so after a short one OUT is armed for less than a CBW, which `stray`
remembers and `IdleAwaitsCbw` names as the only exception.  Events reach the class in
order and none is lost: `UsbdCore` provides this only while the queue drops nothing
(`NoStaleDelivery`, `CompletionReachesClass`), and here it is assumed.  `ScsiState` is
`UsbdmscScsiCtrl` with one operator per command that moves data.

**MscService** knows a command from the host's request to its status and the blocks
transferred once it has ended.  The refinement mapping (`Service` in `UsbdMsc`):
`stage` is the host's phase with data and status merged into "busy", `cmd` and
`status` are the host's command and result, and `blocks` is empty until the command
has ended and then the block numbers the host has received (`got`) or the drive has
written (`written`), in the order they were transferred.

**UsbdAudio.**  `wr`, `rd` and `cells` are `outBufPosWr`, `outBufPosRd` and the memory
at `outBufPtr`, with the room for one packet behind the ring; samples are numbered in
the order the host sends them, so that the properties can tell which ones the
application is offered.  `recvAt` is the position last given to
`UsbdevPrepareRecv`: the controller writes there, at a time of its own.
The task's callback and the application share the two positions without a lock, so
every store to one is a step, and a value loaded before may be old when it is used.
`UsbdAudioCbDataOut` is the six actions of `AudioDataOut`: the write position advances
(`OutAdvance`), wraps and the packet's part behind the ring is copied to the front
(`OutWrap`), the room is computed (`OutRoom`, `OutOverrun`), and an overrun flushes a
packet and then wraps the read position (`OutFlush`, `OutUnwrap`).  `at` is where the
callback is and `seen` the read position it has in a register.  `UsbdAudioGetRecvPointer`
is `GetPointer` and `GetSize`, `UsbdAudioAddRecvPointer` is `AddLoad`, `AddStore` and
`AddWrap`, and the class goes on between any two; `app` is where the application is.
`UsbdAudioCbInit` is two steps as well.  `AudioDataIn` and `SetInterface` are the IN
stream that starts with a selection and feeds itself.  An event that finds the queue
full is lost, and `dropped` says of which stream.

`torn` marks the interleavings in which the code gives no promise, each at the step that
does the harm: a flush while the application is in or between its calls, after it moved
the read position since the test, or with the ring just emptied; room computed while the
read position is past the end of the ring; a write position past the end, which makes
the application see a whole ring too much; a packet copied over what the application
holds; Init during a call, or one that failed.  Between two stores the positions are
out of step, so `OfferedInOrder` and `HandedIsNext` speak of the states in which a call
made now finds them in step (`Readable`).

The code sets `*psz` only when the data wrap, though its comment
(`usbdaudio.c:516-520`) promises it always.  `PieceSizes` is empty where the code leaves
it alone, and the application takes no more than what either number it was given allows
(`MayTake`): one that reads `*psz` without having set it first reads its own garbage.

**UsbdFeedback.**  `Sof` is `UsbdevSofEntry`, `UsbifCbSof` and `UsbdAudioCbSof` in one
interrupt: `DiffSof` makes a deviation of two captures of a timer that counts down
modulo `TimerMod` (the subtraction in `int` is `Signed`), `SumSof` keeps the window
and its sum, `SendFeedback` counts frames and starts a transfer.  The `memset` of the
window in `UsbdAudioCbInit` runs in the task, so `AudioInit` clears one cell
(`cleared`) at a step and interrupts fall in between; it leaves the sum alone, and the
history variable `drift` keeps what was cleared from the one and not the other.
`SetInterface` compares `wIndex` with `altCtrl` as the code does (line 405);
`AudioDataIn` asks for `altCtrl` as the code does (line 223).  The history variable
`win` holds the deviations that occurred.  So `SumIsWindow` says that the sum sent is
that of the window once `drift` is added: after an initialisation in the middle of a
stream the rate stays off by `drift` for good.  A request or a completion that finds
the queue full is lost.

## 3. What the runs check

| Run | Instance | Shows |
|---|---|---|
| `Usbif` | 2 units, 2 slots, tables of 4, four class definitions that fit, clash on an endpoint, clash on an interface, or have no driver | the tables are consistent after every order of initialisations and registrations, and events go to the owner; implements `ClassRouter` |
| `UsbifSof` (violated) | two classes that fit together | start of frame uses a type as a slot number |
| `UsbdCore` | one unit, queue of 4, 2 bus resets, 1 timeout on a waiting request | agreement with the host, session order, answers; enumeration ends, SETUP is reached |
| `UsbdCoreStall` (violated) | as `UsbdCore` | a rejected request is not stalled |
| `UsbdPipe` | one unit with any of the four drivers, queue of 2, two callers of CDC's transmit, 2 bus resets | the busy flag has a reason and is released, reception goes on, transfers overlap only after two calls passed the test together or an init in the middle of one |
| `UsbdCdcRace` (violated) | as `UsbdPipe`, CDC | an enumeration inside `UsbdCdcTransmit` lets a second transfer start on a running one |
| `UsbdMsc` | reads of 1 to 5 blocks, writes of 1, 2, 4, 6 blocks, small commands, stray packets of any length, 2 bus resets, buffer of 2 blocks | exact data, agreeing phases, no overlapping transfers, every command ends; implements `MscService` |
| `UsbdMscFail` (violated) | an unsupported command with IN data | it ends with status 0 |
| `UsbdMscTail` (violated) | a write of 3 blocks with a buffer of 2 | the CSW is never sent |
| `UsbdAudio` | a ring of 6 samples, packets of 2 or 3, pieces of 1 or 2, 10 samples in all, a queue of 2, one stream in use at a time, 1 bus reset | but for the races of `torn`, what is offered is in order and without a hole and the second call fits the first, at every step of both contexts; reception and the IN stream go on unless an event is lost |
| `UsbdFeedback` | timer of 12, nominal frame of 4, window of 2, frames of a tick less or two more, 1 bus reset | the window is true and the sum is its own but for what an init cleared, GET_INTERFACE answers what was selected, feedback goes on |
| `UsbdAudioFlush` (violated) | the same | an overrun with the read position near the front is not noticed |

The violated runs are the disagreements between a comment and the code that came
up while modelling; `PROJECT.json` quotes the lines.

**Bounds.**  Usbif: with two units, two slots and the four class definitions
each outcome of a registration occurs on each unit with the slots free, half
used and full (65,000 states); endpoint tables of four entries give two endpoints in each
direction.  UsbdCore: the queue has the length of the code; two bus resets give
an old and a new session and packets of the first handled in the second (a
third adds no new relation between a packet and the session of the unit); one
early timeout is enough for a SETUP to overtake another.  More units than one, which
share the queue and can lose each other's packets, are covered by `UsbdCoreProofs`
for any number.
UsbdPipe adds a driver and its callers to the same host (433,000 states); two
places in the queue and the packet at work hold a completion, a reset and the
enumeration after it.  Two callers are what it takes to pass the test together; CDC has
them, the other drivers, whose test is the same, one.  The
early timeout is left to the core's run; the theorems cover any number of both.
UsbdMsc (109,000 states): five blocks with a buffer of two take
a first transfer, a full buffer and a short one; the block, packet and CBW
sizes keep the order they have in the code, with stray packets shorter than a CBW, as
long, and longer.  UsbdAudio (8,300,000 states, 2 minutes): a nominal packet of two
samples, one more in `epSizeOut` as in the code; ten samples fill the ring of six and
go around it, so that both positions wrap and every meeting of them occurs.  The code's
ring has sixteen packets; two leave the same cases (no wrap, exact wrap, wrap with a
remainder, overrun), and the theorems cover the rest.
UsbdFeedback (444,000 states): the timer wraps around every third frame, so it does
inside, at the end of and between frames, also with an interrupt missed; a deviation
of -1 is taken (`Limit` = 2) and one of 2 is not; a window of two cells is enough for
an interrupt between the two steps of its `memset`, and `Every` = 1 with a frame
counter of 6 values lets that overflow while the stream is off.  The order of
`Least`, `Nominal`, `Limit` and `TimerMod` is that of the code's 100000, 196608, 20 and
2^32, and named in `FeedbackAssumption`, with the counter's range, a power of two there,
even.

**Deadlock** is checked in every passing run.  It is off in `UsbdMscTail`, where
the system stops: that is what the run shows.

**Fairness.**  The task loop (`UsbifLoop`) calls `UsbdcoreCbExecute` forever, so
the task is weakly fair; handlers do not block.  The controller ends a bus reset
with its enumeration interrupt.  A host takes an answer it has got or times out
(weak), and goes on with an enumeration whatever else it asks for in between
(strong: other requests disable it again and again).  For `UsbdPipe`, a host keeps
polling the IN endpoint of a device it has configured (strong, since it cannot
while it is reconfiguring), and a call of the application that has set `TxState`
sends (weak).  For MSC
the host goes on with the command it has begun; `MscService` asks only that a
command is completed.  For `UsbdFeedback` frames start and the task runs; the host need
not poll.  `UsbdAudio` needs none: that reception and the IN stream go on is stated
as an invariant (something is always under way, or an event was lost).  No fairness is assumed of bus
resets, suspends, new requests, new transfers or new commands.

**Assumptions about code outside the repository.**  The driver reports the
events of a unit in the order they occur.  A host stops its pipes before it takes
the configuration away and does not repeat SET_CONFIGURATION (the code toggles).
The application hands out a buffer of at most `Chunk` blocks, whose size is the
4096 bytes of the first transfer; its write callback takes what it is given.  An
OUT transfer ends when the prepared length has arrived or with a short packet, and
blocks are whole packets.  A host asks for at least as much as a response has,
and for the capacity before it reads or writes.
For audio, a prepared buffer stays with the controller while the endpoint is closed
(Init prepares it before the endpoint is ever opened); a host uses a stream only
from the end of the request that switches it on to the one that switches it off;
packets are not empty and not longer than `epSizeOut`.  One task of the application
makes the two calls in turn, and does not trust a `*psz` the code has not set.  The
events of mass storage are not lost.  The control interface is the
device's interface 0 and has only the alternate 0: SET_INTERFACE compares with
`altCtrl` where it should compare with the interface number, and these two facts
are what makes it right.  The RNDIS application arms OUT from its init callback.
The conversion of a difference to `int` wraps around, as on the target.

## 4. What is proved

Eight modules of proofs, about 10,500 obligations.  Each rests on the named assumption
about the constants of its module (`ConstantsAssumption`, `CoreAssumption`,
`PipeAssumption`, `MscAssumption`, `AudioAssumption`, `FeedbackAssumption`), which TLC
evaluates in the runs, and on nothing else, but for the two modules on mass storage, see
below.  The
instance of a run is one point; the theorems hold for every value.

**UsbifProofs**: any number of units, slots and table entries, any class definitions
and callback tables.  `RegistryInvariant` is the inductive invariant; from it follow the
invariants and `NoTakeover` of the run `Usbif`: `RegistryTyped`, `RegisteredClassKeeps`,
`RegistryCorrect`, `NextPosition`, `InitsEachOnce`, `DispatchCorrect`,
`EventsToOwners`, `NothingTakenOver`, and `SlotsStayFrozen`, which no run states by
itself (the router forbids any change of a registered class).
`RegisteredKeepsAll` and `TablesConvert` are not inductive: a registration writes
the slot `rcnum`, and nothing in them says that no registered class has that
slot; a refused registration leaves entries that name it; and a unit that was
never initialised has tables of zeros.  `TableInv` adds `LiveBelow` (registered slots
are below `rcnum`, so the slot being written is nobody's) and `UninitRefuses` (on a
unit without `UsbifInit` no position is free).  `CallInv` says of the last entry point
what the tables said when it ran.  The lemmas on `Claim` carry the arithmetic of the
loops, once for both tables.

**ClassRouterProofs**: `RegistryImplementsRouter`, every step of the registry is a step of
`ClassRouter` or changes nothing it sees.  The tables are on the other side of the
mapping, so the argument has two halves.  For registrations: what is in the slots of
`live` changes as the router says, since the slot written is nobody's (`LiveBelow`), and
a newcomer shares nothing with a registered class because the tables still have that
class's entries (`RegisteredKeepsAll`, lemma `NewcomerApart`).  For events: the entry the
dispatch looks up is the class the event is addressed to, or `Invalid` if there is none
(`Finds`, lemma `TablesFind`), hence the callbacks made are the router's `Calls`.  An
enumeration runs over the positions below `classnum`; that no registered class lies
above needs the unit to be set up, which is one more invariant, `LiveSetUp`
(`RegisteredOnUnitSetUp`).

**UsbdCoreProofs**: any units on one queue, any queue length, any number of resets,
timeouts and early timeouts, any requests.  `CoreInvariant`, and from it `CoreTypes`,
`HostIsFollowed`, `ClassesFirst`, `NothingStale`, `CompletionsArrive`, `AnswersAreTrue`.
None of these is inductive, since each speaks of a moment at which the queue has
already been worked off.  `CoreInv` says what the queue holds until then: its packets of
a unit are ordered by session (`Ordered`, `Bounded`); the reset and the enumeration of
the current session are still in it or have been handled (`ResetKept`,
`EnumeratedKept`, `EnumeratedFirst`, `Initialised`); at most one request of a unit
waits and it is the one in the setup buffer (`SetupAlone`, `SetupIsReq`,
`ReqIsAllowed`); the device state is the host's, or the one the waiting request
will change (`HostBehind`, `HostInStep`); completions wait only for a
configured device (`DataInPlace`).  All but the first two hold only while
nothing of the session was dropped or overtaken (`bad[u] < sess[u]`).

**UsbdPipeProofs**: `PipeImplementsCore` shows that with the drivers, the endpoints
and the application on top the core still does only what `UsbdCore` allows (each step
maps to a step or a stutter), so everything proved of the core holds for
the composition.  `PipeInvariant` adds what a session starts with, why the flag is set,
where received data are, and that transfer, completion and mark exclude each
other (`OneTransfer`, which holds while no race is open, with any number of callers);
from it `PipeTypes`, `BusyFlagHasReason`, `ReceptionNeverDries` and
`NoOverlapWithoutRace`.  The last holds also in disturbed sessions.  It is why `torn`
counts an init that runs while a completion still waits: that completion frees the flag
a second time, with two or more early timeouts, which the run does not have.

**UsbdMscProofs**: any sizes of blocks, buffers, wrappers and responses, any number of
resets, any commands that are `Ordinary`, the one hypothesis of its theorems: data only
for commands that have some, in their direction; room for every response; the
application's buffer as long as the first transfer.  Nothing is claimed for other commands:
the run `UsbdMscFail` has one and shows what the code does with it.  The writes of
`UsbdMscTail` are ordinary: they stop without breaking an invariant.
`MscInvariant` says that, once the initialisation after the last bus reset has run,
host and driver are in one of five phases together: `Calm`, `Asked` (a CBW on its way),
`Sending`, `Receiving`, `Answering`; before it the driver works off stale events on
closed endpoints (`Fresh`, `Quiet`, `InitsLast`).  `Reading(n)` ties the four counters
together: what the host still expects is what `sendLen` and `sendPos` leave plus the
`n` units in flight, and what `lbaCnt` blocks amount to.  From it `MscTypes`,
`CbwIsAwaited` (OUT is armed for a CBW, or for as much as the last stray packet had),
`PhasesAlwaysAgree` and the action property `NoOverlap`.

**MscServiceProofs**, under the same hypothesis: `ReadsAreExact`, `WritesAreExact` and
`DriverImplementsService` (each step is a request, a completion with a status the command
may have and exactly its blocks, a configuration or reset, or invisible).  That a read is
exact when it has ended is not inductive; `ServiceInv` says in every phase what has been
moved so far.  In the data phase of a read the host has the blocks from the command's
first one to `lba`, but for those of the transfer in progress (`ReadData`); in that of a
write the drive has the blocks up to `lba`, which amount to `sendPos` (`WriteData`);
while a CBW is on its way nothing has been moved (`Nothing`); a CSW that waits carries a
status of the command, and all its blocks have been moved (`Done`).  `UsbdMscProofs` provides
the counters: that the last transfer leaves none out and none over.  `BlocksJoin`
(two runs of blocks, one after the other, are a run) is all that is needed about
sequences.

**UsbdAudioProofs**: any ring of at least two packets, any packets up to the buffer's
room, any pieces, any queue.  `AudioInvariant`, and from it `AudioTypes`,
`SamplesInOrder`, `HandedMatches`, `AudioReceptionGoesOn`, `AudioInGoesOn`.  The two
middle ones speak of the moments at which the positions are in step; the invariant has
to hold between the stores as well.  It has the events and endpoints (`Flow`) and, while
no harmful race has occurred, the contents (`Samples`): some number of unread samples
lie in consecutive cells, around the end of the ring (`InRing`) or in a line up to the
write position while that is past the end (`InLine`); the read position may be a ring
too far, but only in the hands of the context that moved it (`Past`); what the
application read or holds agrees with them (`Taken`); the packet on its way follows them
(`Sent`), with room before the read position (`Room`).

**UsbdFeedbackProofs**: any timer width, frame length and window. `FeedbackInvariant`,
and from it `FeedbackTypes`, `SumStaysWindow`, `WindowStaysTrue` (modular arithmetic:
the signed difference of two captures is the ticks between them if these are less than
half of the range, and otherwise either negative or far from nominal) and `AltsAgree`.
That the running sum is the window's, but for what a `memset` cleared, holds step by
step once it is known how a sum changes with one of its values (`SumChanged`). The sum
is a fold of the community modules, a recursive function on the subsets of the window;
the lemmas on it use induction over a set of numbers (`SetInduction`, from the
well-foundedness of the naturals), since the library's induction theorems cannot be
instantiated here.

Only model-checked: liveness (`EnumerationCompletes`, `SetupReached`, `BusyIsReleased`,
`CommandCompletes`, `FeedbackGoesOn`), and of `ImplementsService` the fairness: that a
command is completed.  Every invariant, every action property and every refinement the
runs check is stated by a theorem but for that.

## 5. What is not modelled

* The contents of descriptors, strings and responses: no control depends on them.
* Indexes outside tables (`wIndex`), unbounded copies, uninitialised memory:
  undefined behaviour, listed as hazards.
* MSC: CLEAR_FEATURE, which closes and opens an endpoint in a device that never halts
  one, so that no host has a reason to send it; GET MAX LUN, which only reads; LUNs
  above 0.
* Audio: the class requests (`UsbAudioSetup` is not in the repository) and the values
  in the feedback packet.  Reading them for the model, two scales were found that
  differ by a factor of four: the start of frame callback sends
  `48 * 1024 * SOF_LIST_LEN` with its shifts, 48 << 12 for a nominal frame
  (`usbdaudio.c:309`), and SET_INTERFACE sends 48 << 14 first.  No comment or test says
  which one is meant, so it is only noted here.
* The STM32 glue: a device core of its own on top of the vendor's HAL that
  `usbdcore.c` replaces; the calls that would start it are commented out.

## 6. What is left

1. `Usbif` and `UsbdCore` composed: registration while events arrive, with the router's
   promise for events out of the queue.
2. Liveness stays with TLC: fairness and ENABLED are out of the prover's reach.
