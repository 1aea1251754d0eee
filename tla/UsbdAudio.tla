----------------------------- MODULE UsbdAudio ------------------------------
(***************************************************************************)
(* The audio class, usbdaudio.c: a ring of received samples between the    *)
(* OUT callback and the application that plays them, the alternates of the *)
(* two streaming interfaces, and the IN stream that feeds itself.          *)
(*                                                                         *)
(* The ring has RingLen cells and behind them room for one packet; the     *)
(* controller writes a packet from the write position on, and the callback *)
(* copies what went beyond the ring to its front.  Samples are numbered in *)
(* the order the host sends them.  The feedback endpoint is left out.      *)
(*                                                                         *)
(* The callback and the application run in contexts of their own and share *)
(* the two positions without a lock: every store to a position is a step,  *)
(* and a value loaded before it may be old when it is used.                *)
(*                                                                         *)
(* Events wait in the queue of the core (usbdcore.c) in the order they     *)
(* happened; one that finds the queue full, of packets of any class, is    *)
(* dropped.                                                                *)
(***************************************************************************)
EXTENDS Integers, Sequences, FiniteSets

CONSTANTS RingLen,      \* outBufSize, in samples
          EpSize,       \* epSizeOut: the nominal packet and one sample
          PacketSizes,  \* sizes of the packets the host sends
          Piece,        \* samples the application takes at most at a time
          MaxTotal,     \* bound: samples the host sends
          MaxEv,        \* bound: events waiting for the class
          MaxUse,       \* bound: streams the host uses at a time
          MaxReset      \* bound: bus resets

ASSUME AudioAssumption ==
  /\ RingLen \in Nat /\ EpSize \in Nat \ {0} /\ 2 * EpSize <= RingLen
  /\ PacketSizes \subseteq 1 .. EpSize      \* no empty packets
  /\ Piece \in Nat \ {0} /\ MaxTotal \in Nat
  /\ MaxEv \in Nat \ {0} /\ MaxUse \in Nat /\ MaxReset \in Nat

NoBuffer == -1
Stream == {"out", "in"}                     \* the streaming interfaces
Event(type, stream, n) == [type |-> type, stream |-> stream, n |-> n]
NoCall == [use |-> "idle", pos |-> 0, n |-> 0, upto |-> 0]

VARIABLES
  wr, rd,     \* outBufPosWr, outBufPosRd
  cells,      \* outBufPtr[]: the samples in the ring and behind it
  alt,        \* altOut, altIn
  recvAt,     \* where the controller writes the next packet, or NoBuffer
  opened,     \* the endpoints are open
  inFly,      \* an IN transfer is in progress
  ev,         \* events on their way to the class, oldest first, and the one at work
  at,         \* where the callback at work is: before "wrap", "test", "flush" and
              \* "unwrap", between the two stores of "init", or "idle"
  seen,       \* rd as the callback last read or stored it, from its test on
  hostAlt,    \* the alternates the host selected in this session
  app,        \* how far the application is in its two calls, the position it
              \* read, the samples it got, and the number of the last of them
  total,      \* (history) samples sent
  last,       \* (history) the last sample the application took
  torn,       \* (history) a race of the two contexts did harm, or Init failed
  dropped,    \* (history) the streams whose event was lost
  started,    \* (history) Init succeeded in this session
  resets      \* bus resets so far

ring     == <<wr, rd, cells>>
control  == <<recvAt, opened, inFly>>
callback == <<at, seen>>
history  == <<total, last, torn, dropped, started, resets>>
vars     == <<ring, alt, control, ev, callback, hostAlt, app, history>>

Closed == [s \in Stream |-> FALSE]
Zero   == [s \in Stream |-> 0]
Silence == [p \in 0 .. RingLen + EpSize - 1 |-> 0]

Init ==
  /\ wr = 0 /\ rd = 0 /\ cells = Silence
  /\ alt = Zero /\ recvAt = NoBuffer /\ opened = Closed /\ inFly = FALSE
  /\ ev = <<Event("init", "out", 0)>> /\ at = "idle" /\ seen = 0
  /\ hostAlt = Zero /\ app = NoCall
  /\ total = 0 /\ last = 0 /\ torn = FALSE /\ dropped = {}
  /\ started = FALSE /\ resets = 0

-----------------------------------------------------------------------------
(***************************************************************************)
(* Host and controller, and the core's queue.                              *)
(***************************************************************************)
\* UsbdcoreCbIsr: an event is queued.
Queued(e) == Len(ev) < MaxEv /\ ev' = Append(ev, e)

\* An event of stream s is queued or lost.
Reported(s, e) ==
  \/ Queued(e) /\ dropped' = dropped
  \/ ev' = ev /\ dropped' = dropped \cup {s}

BusReset ==
  /\ resets < MaxReset
  /\ resets' = resets + 1 /\ started' = FALSE
  /\ recvAt' = NoBuffer /\ opened' = Closed /\ inFly' = FALSE
  /\ Queued(Event("init", "out", 0)) \/ ev' = ev
  /\ hostAlt' = Zero
  /\ UNCHANGED <<ring, alt, callback, app, total, last, torn, dropped>>

Waiting(type) == \E i \in DOMAIN ev : ev[i].type = type

\* SET_INTERFACE: the host switches a stream on or off, one request at a time.
\* (One that is lost has no effect.)
HostSelects(s) ==
  /\ ~Waiting("init") /\ ~Waiting("select")
  /\ hostAlt[s] = 0 => Cardinality({t \in Stream : hostAlt[t] = 1}) < MaxUse
  /\ hostAlt' = [hostAlt EXCEPT ![s] = 1 - @]
  /\ Queued(Event("select", s, 1 - hostAlt[s]))
  /\ UNCHANGED <<ring, alt, control, callback, app, history>>

\* A host uses a stream from the end of the request that switched it on to the
\* request that switches it off.
Uses(s) == hostAlt[s] = 1 /\ opened[s] /\ ~Waiting("select")

\* A packet arrives in the buffer prepared for it.
HostSends(n) ==
  /\ Uses("out") /\ recvAt # NoBuffer /\ total + n <= MaxTotal
  /\ cells' = [p \in DOMAIN cells |-> IF p \in recvAt .. recvAt + n - 1
                                      THEN total + 1 + p - recvAt ELSE cells[p]]
  /\ total' = total + n
  /\ recvAt' = NoBuffer
  /\ Reported("out", Event("out", "out", n))
  /\ UNCHANGED <<wr, rd, alt, opened, inFly, callback, hostAlt, app,
                 last, torn, started, resets>>

HostTakes ==
  /\ Uses("in") /\ inFly
  /\ inFly' = FALSE
  /\ Reported("in", Event("in", "in", 0))
  /\ UNCHANGED <<ring, alt, recvAt, opened, callback, hostAlt, app,
                 total, last, torn, started, resets>>

-----------------------------------------------------------------------------
(***************************************************************************)
(* The class: Init.                                                        *)
(***************************************************************************)
\* UsbdcoreCbExecute: the oldest event is at work until its callback returns.
AtWork(type) == ev # <<>> /\ Head(ev).type = type
Handles(type) == at = "idle" /\ AtWork(type)
Returned == at' = "idle" /\ seen' = 0 /\ ev' = Tail(ev)

\* UsbdAudioCbInit, up to its first store: the alternates keep their values.
InitStart ==
  /\ Handles("init")
  /\ wr' = 0 /\ at' = "init"
  /\ UNCHANGED <<rd, cells, alt, control, ev, seen, hostAlt, app, history>>

\* The rest; when the application's init fails, nothing is prepared.  (What an
\* earlier session left in the ring is set to 0, which is no sample, and the
\* count starts again, for fewer states.)
InitFinish ==
  /\ at = "init" /\ Returned
  /\ rd' = 0
  /\ cells' = Silence /\ total' = 0 /\ last' = 0
  /\ \/ started' = TRUE /\ recvAt' = 0 /\ dropped' = dropped \ {"out"}
     \/ UNCHANGED <<started, recvAt, dropped>>
  /\ torn' = (app # NoCall \/ ~started')
  /\ UNCHANGED <<wr, alt, opened, inFly, hostAlt, app, resets>>

-----------------------------------------------------------------------------
(***************************************************************************)
(* The class: UsbdAudioCbDataOut, one step for every store.                *)
(***************************************************************************)
\* The position stored once v was found, right or late, in the ring or past it.
WrappedLate(v, p) == IF v > RingLen THEN v - RingLen ELSE p     \* mutant
Wrapped(v, p) == IF v >= RingLen THEN v - RingLen ELSE p
Wrap(p) == Wrapped(p, p)

OutAdvance ==
  /\ Handles("out")
  /\ wr' = wr + Head(ev).n
  /\ at' = IF wr' >= RingLen THEN "wrap" ELSE "test"
  /\ UNCHANGED <<rd, cells, alt, control, ev, seen, hostAlt, app, history>>

\* What the packet left behind the ring is copied to the front.  (What stays
\* behind it is not read again and set to 0, for fewer states.)
CopiedNot == cells                                              \* mutant
Copied ==
  [p \in DOMAIN cells |-> IF p >= RingLen THEN 0
                          ELSE IF p < wr - RingLen THEN cells[RingLen + p] ELSE cells[p]]

\* A packet that wraps past rd takes the place of what the application holds.
OutWrap ==
  /\ at = "wrap"
  /\ cells' = Copied
  /\ wr' = wr - RingLen
  /\ at' = "test"
  /\ torn' = (torn \/ (app.use \in {"held", "add"} /\ wr - rd > RingLen))
  /\ UNCHANGED <<rd, alt, control, ev, seen, hostAlt, app,
                 total, last, dropped, started, resets>>

\* The room the callback thinks is left.
Empty == IF wr > rd THEN RingLen + wr - rd ELSE rd - wr

\* The application has taken all there is.
Emptied == last = total

PrepareNot == UNCHANGED control                                 \* mutant
\* "Prepare Out endpoint to receive next audio packet".
Prepare == recvAt' = wr /\ UNCHANGED <<opened, inFly>>

\* There is room: the callback is done.  A position the application has moved
\* past the end of the ring and not yet wrapped makes the room look larger.
OutRoom ==
  /\ at = "test" /\ Empty >= EpSize
  /\ Prepare /\ Returned
  /\ torn' = (torn \/ (rd >= RingLen /\ Wrap(rd) - wr \in 0 .. EpSize - 1 /\ ~Emptied))
  /\ UNCHANGED <<ring, alt, hostAlt, app, total, last, dropped, started, resets>>

OutOverrun ==
  /\ at = "test" /\ Empty < EpSize
  /\ at' = "flush" /\ seen' = rd
  /\ UNCHANGED <<ring, alt, control, ev, hostAlt, app, history>>

FlushNot(v) == rd                                               \* mutant
Flushed(v) == v + EpSize

\* "flush the oldest data, if overrun": harmful when the application is in or
\* between its calls, or has moved rd since the test, or emptied the ring before it.
OutFlush ==
  /\ at = "flush"
  /\ \E v \in {seen, rd} : rd' = Flushed(v)
  /\ seen' = rd' /\ at' = "unwrap"
  /\ torn' = (torn \/ app # NoCall \/ rd # seen \/ Emptied)
  /\ UNCHANGED <<wr, cells, alt, control, ev, hostAlt, app,
                 total, last, dropped, started, resets>>

OutUnwrap ==
  /\ at = "unwrap"
  /\ \E v \in {seen, rd} : rd' = Wrapped(v, rd)
  /\ Prepare /\ Returned
  /\ torn' = (torn \/ (app # NoCall /\ rd' # rd))
  /\ UNCHANGED <<wr, cells, alt, hostAlt, app, total, last, dropped, started, resets>>

AudioDataOut == OutAdvance \/ OutWrap \/ OutRoom \/ OutOverrun \/ OutFlush \/ OutUnwrap

-----------------------------------------------------------------------------
(***************************************************************************)
(* The class: the other callbacks.                                         *)
(***************************************************************************)
\* UsbdevTransmit has no effect on a closed endpoint.  A buffer once prepared
\* stays with the controller, whether or not the endpoint is open.
Transmit == inFly' = (inFly \/ opened'["in"])

\* UsbdAudioCbDataIn on the stream's endpoint: the next transfer.
AudioDataIn ==
  /\ Handles("in") /\ Returned
  /\ opened' = opened
  /\ IF alt["in"] # 0 THEN Transmit ELSE UNCHANGED inFly
  /\ UNCHANGED <<ring, alt, recvAt, hostAlt, app, history>>

SelectSilent(s, val) ==                                         \* mutant
  /\ alt' = [alt EXCEPT ![s] = val]
  /\ opened' = [opened EXCEPT ![s] = val # 0]
  /\ inFly' = (inFly /\ opened'["in"])
  /\ dropped' = IF s = "in" THEN dropped \ {"in"} ELSE dropped
  /\ UNCHANGED <<ring, recvAt, hostAlt, app, total, last, torn, started, resets>>
\* UsbdAudioStandardSetInterface: UsbdevFlush does nothing; closing an endpoint
\* ends its transfer.  Switched on again, a stream recovers from a lost event.
SetInterface(s, val) ==
  /\ alt' = [alt EXCEPT ![s] = val]
  /\ opened' = [opened EXCEPT ![s] = val # 0]
  /\ CASE s = "in" /\ val # 0 -> Transmit
       [] s = "in" /\ val = 0 -> inFly' = FALSE
       [] OTHER -> UNCHANGED inFly
  /\ dropped' = IF s = "in" THEN dropped \ {"in"} ELSE dropped
  /\ UNCHANGED <<ring, recvAt, hostAlt, app, total, last, torn, started, resets>>

\* UsbdAudioCbSetup, a SET_INTERFACE; the other requests keep no state.
AudioSetup ==
  /\ Handles("select") /\ Returned
  /\ SetInterface(Head(ev).stream, Head(ev).n)

Class == InitStart \/ InitFinish \/ AudioDataOut \/ AudioDataIn \/ AudioSetup

-----------------------------------------------------------------------------
(***************************************************************************)
(* The application, in a context of its own.                               *)
(***************************************************************************)
\* UsbdAudioGetRecvPointer: *pszRecv, the samples received, and *psz, how many
\* of them follow one another in memory, which is set only when they wrap.
Unread == IF wr - rd < 0 THEN wr - rd + RingLen ELSE wr - rd
PieceSizes == IF wr - rd < 0 THEN {RingLen - rd} ELSE {}

\* What an application may take that tells an untouched *psz from one that was
\* set (it clears it before the call), takes no more than either size says,
\* and nothing when they are not positive.
MayTake(k) == k <= Unread /\ \A sz \in PieceSizes : k <= sz

Cell(p) == IF p \in DOMAIN cells THEN cells[p] ELSE 0

\* UsbdAudioGetRecvPointer, the first load of rd: the pointer.
GetPointer ==
  /\ app.use = "idle"
  /\ app' = [NoCall EXCEPT !.use = "ptr", !.pos = rd]
  /\ UNCHANGED <<ring, alt, control, ev, callback, hostAlt, history>>

\* Its second part: the sizes.  A write position past the end of the ring, once
\* the application has wrapped rd, offers a whole ring too much.  (Between its
\* loads of wr and rd only a flush or Init can move rd, which is torn anyway.)
GetSize(k) ==
  /\ app.use = "ptr" /\ MayTake(k)
  /\ app' = [use |-> "held", pos |-> 0, n |-> k, upto |-> Cell(app.pos + k - 1)]
  /\ torn' = (torn \/ wr - rd >= RingLen)
  /\ UNCHANGED <<ring, alt, control, ev, callback, hostAlt,
                 total, last, dropped, started, resets>>

\* The application makes nothing of what it is offered.
GetNothing ==
  /\ app.use = "ptr"
  /\ app' = NoCall
  /\ UNCHANGED <<ring, alt, control, ev, callback, hostAlt, history>>

\* UsbdAudioAddRecvPointer: load, store, wrap.
AddLoad ==
  /\ app.use = "held"
  /\ app' = [app EXCEPT !.use = "add", !.pos = rd]
  /\ UNCHANGED <<ring, alt, control, ev, callback, hostAlt, history>>

AddStore ==
  /\ app.use = "add"
  /\ rd' = app.pos + app.n
  /\ last' = app.upto
  /\ app' = [NoCall EXCEPT !.use = "wrap", !.pos = rd']
  /\ UNCHANGED <<wr, cells, alt, control, ev, callback, hostAlt,
                 total, torn, dropped, started, resets>>

AddWrap ==
  /\ app.use = "wrap"
  /\ \E v \in {app.pos, rd} : rd' = Wrapped(v, rd)
  /\ app' = NoCall
  /\ UNCHANGED <<wr, cells, alt, control, ev, callback, hostAlt, history>>

App ==
  \/ GetPointer \/ GetNothing \/ AddLoad \/ AddStore \/ AddWrap
  \/ \E k \in 1 .. Piece : GetSize(k)

-----------------------------------------------------------------------------
Host == BusReset \/ HostTakes \/ (\E s \in Stream : HostSelects(s))
        \/ \E n \in PacketSizes : HostSends(n)
Next == Class \/ App \/ Host
Spec == Init /\ [][Next]_vars

-----------------------------------------------------------------------------
(***************************************************************************)
(* Properties.                                                             *)
(***************************************************************************)
\* Types; with them, that positions and every buffer handed to the controller
\* lie within the memory of the ring, the read position past its end only until
\* the context that moved it there wraps it (or Init clears it).
TypeOK ==
  /\ wr \in 0 .. RingLen + EpSize - 1 /\ (at # "wrap" => wr < RingLen)
  /\ rd \in Nat /\ (~torn /\ app.use # "wrap" /\ at \notin {"init", "unwrap"} => rd < RingLen)
  /\ cells \in [0 .. RingLen + EpSize - 1 -> 0 .. MaxTotal]
  /\ alt \in [Stream -> {0, 1}] /\ hostAlt \in [Stream -> {0, 1}]
  /\ recvAt = NoBuffer \/ recvAt .. recvAt + EpSize - 1 \subseteq DOMAIN cells
  /\ opened \in [Stream -> BOOLEAN] /\ inFly \in BOOLEAN
  /\ Len(ev) <= MaxEv
  /\ at \in {"idle", "init", "wrap", "test", "flush", "unwrap"} /\ seen \in Nat
  /\ app \in [use : {"idle", "ptr", "held", "add", "wrap"}, pos : Nat,
              n : 0 .. Piece, upto : 0 .. MaxTotal]
  /\ total \in 0 .. MaxTotal /\ last \in 0 .. MaxTotal
  /\ torn \in BOOLEAN /\ dropped \subseteq Stream
  /\ started \in BOOLEAN /\ resets \in 0 .. MaxReset

\* The i-th unread sample: past the end of the ring while the last packet has
\* not been copied, in the ring otherwise.
Nth(i) == Cell(IF wr >= RingLen THEN rd + i - 1 ELSE Wrap(rd + i - 1))

\* A call made now finds the two positions in step: not between Init's stores,
\* not while the read position is past the end of the ring, and not when only
\* the read position has been wrapped.
Readable == at # "init" /\ rd < RingLen /\ wr - rd < RingLen

\* What the application is offered is a piece of the stream in order and
\* without a hole, later than all it took before: no packet, wrap, copy or
\* flush disturbs it, and no packet is received on top of it, wherever the two
\* contexts are in their calls.  (The harmful races are left out: "torn".)
OfferedInOrder ==
  ~torn /\ Readable =>
    /\ \A i \in 1 .. Unread - 1 : Nth(i + 1) = Nth(i) + 1
    /\ Unread > 0 => Nth(1) > last

\* What the application holds is still the oldest in the ring until it moves
\* rd, which thus goes exactly past it.  (wr = rd: the ring is full.)
HandedIsNext ==
  ~torn /\ Readable /\ app.use \in {"held", "add"} =>
    (app.n <= Unread \/ wr = rd) /\ Nth(app.n) = app.upto

\* Reception goes on: in a session whose Init succeeded, a buffer is prepared
\* or the packet in it is on its way through the callback, unless the core lost it.
ReceptionGoesOn ==
  started /\ ~Waiting("init") => recvAt # NoBuffer \/ Waiting("out") \/ "out" \in dropped

\* An open IN endpoint always has a transfer in progress or a completion on
\* its way, which starts the next one, unless the core lost it.
InStreamGoesOn == opened["in"] => inFly \/ Waiting("in") \/ "in" \in dropped

-----------------------------------------------------------------------------
(***************************************************************************)
(* What the comments say and the code does not do.                         *)
(***************************************************************************)

\* "flush the oldest data, if overrun": a packet that finds the ring full costs
\* no more than the oldest samples it flushes, so the wrap of the write position
\* costs no more than that.  False when it wraps past a read position close to
\* the front: the whole ring is lost.  (Where the oldest sample is one not yet
\* taken, and the ring is not exactly full, which looks empty until the flush.)
FlushesOldestOnly ==
  [][at = "wrap" /\ at' = "test" /\ rd < RingLen /\ cells[rd] > last /\ wr' # rd
     => Unread' >= Unread - EpSize]_vars

=============================================================================
