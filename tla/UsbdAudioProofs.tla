--------------------------- MODULE UsbdAudioProofs --------------------------
(***************************************************************************)
(* Proofs about the audio driver, for every ring of at least two packets,  *)
(* every size of packet and of the pieces the application takes, and any   *)
(* number of samples, streams and bus resets.                              *)
(***************************************************************************)
EXTENDS UsbdAudio, TLAPS

USE AudioAssumption

CallType  == [use : {"idle", "ptr", "held", "add", "wrap"}, pos : Nat,
              n : 0 .. Piece, upto : 0 .. MaxTotal]
EventType == [type : {"init", "out", "in", "select"}, stream : Stream, n : 0 .. EpSize]
OutStep   == {"wrap", "test", "flush", "unwrap"}

EvTyped == ev \in Seq(EventType) /\ Len(ev) <= MaxEv

Types ==
  /\ wr \in 0 .. RingLen + EpSize - 1 /\ (at = "wrap" <=> wr >= RingLen) /\ rd \in Nat
  /\ cells \in [0 .. RingLen + EpSize - 1 -> 0 .. MaxTotal]
  /\ alt \in [Stream -> {0, 1}] /\ hostAlt \in [Stream -> {0, 1}]
  /\ recvAt \in {NoBuffer} \cup 0 .. RingLen - 1
  /\ opened \in [Stream -> BOOLEAN] /\ inFly \in BOOLEAN
  /\ EvTyped /\ at \in {"idle", "init"} \cup OutStep /\ seen \in Nat /\ app \in CallType
  /\ total \in 0 .. MaxTotal /\ last \in 0 .. MaxTotal
  /\ torn \in BOOLEAN /\ dropped \subseteq Stream
  /\ started \in BOOLEAN /\ resets \in 0 .. MaxReset

\* What the events carry; nothing follows an init but another init; one packet
\* waits at most, and none while a buffer is prepared; the event at work is the
\* oldest one.
Out(i) == ev[i].type = "out"
Sizes == \A i \in 1 .. Len(ev) :
           (Out(i) => ev[i].n > 0) /\ (ev[i].type = "select" => ev[i].n \in {0, 1})
InitsLast == \A i, j \in 1 .. Len(ev) :
               (i < j /\ ev[i].type = "init") => ev[j].type = "init"
OneOut == \A i, j \in 1 .. Len(ev) : (Out(i) /\ Out(j)) => i = j
Prepared == recvAt # NoBuffer => ~Waiting("out")
Working ==
  /\ at \in OutStep => ev # <<>> /\ Out(1)
  /\ at = "init" => ev # <<>> /\ ev[1].type = "init" /\ wr = 0

\* While an init waits the host uses no stream, and what an earlier init
\* prepared is as that left it.
InitQuiet ==
  Waiting("init") => /\ \A s \in Stream : hostAlt[s] = 0
                     /\ started => recvAt = 0 /\ ~Waiting("out")

Reception == started => recvAt # NoBuffer \/ Waiting("out") \/ "out" \in dropped
InStream == opened["in"] => alt["in"] # 0 /\ (inFly \/ Waiting("in") \/ "in" \in dropped)

\* The u samples the application has yet to take are those after number b, and
\* start in cell r.  The write position lies in the ring, or past its end until
\* the packet there has been copied: then they lie in a line before it.
InRing(r, b, u) ==
  /\ u <= RingLen /\ r + u \in {wr, wr + RingLen}
  /\ \A k \in 1 .. u : cells[Wrap(r + k - 1)] = b + k
InLine(r, b, u) ==
  /\ wr - u \in {r, r + RingLen}
  /\ \A k \in 1 .. u : cells[wr - u + k - 1] = b + k

\* The packet whose event waits follows them, with no gap.
Sent(b, u) ==
  /\ recvAt # NoBuffer \/ at \in OutStep => total = b + u
  /\ at = "idle" => \A i \in 1 .. Len(ev) : Out(i) =>
       /\ total = b + u + ev[i].n
       /\ \A k \in 1 .. ev[i].n : cells[wr + k - 1] = b + u + k

\* Where the application is: what it holds is the first of them, and what it
\* read of rd is still true.
Taken(b, u) ==
  /\ last <= b /\ (u = 0 /\ at \in {"wrap", "test", "flush"} => last = b)
  /\ app.use \in {"held", "add"} => app.n > 0 /\ app.n <= u /\ app.upto = b + app.n
  /\ app.use \in {"ptr", "add", "wrap"} => app.pos = rd

\* rd is past the end of the ring only until it is wrapped, by the application
\* or by the callback, which has it in a register.
Past ==
  /\ rd < RingLen \/ app.use = "wrap" \/ (at = "unwrap" /\ rd = seen)
  /\ at = "unwrap" /\ seen >= RingLen => rd = seen /\ app.use \in {"idle", "ptr"}

\* Once the callback has made room, a packet fits before the read position.
Room(r, u) ==
  /\ recvAt \in {NoBuffer, wr}
  /\ at \in {"idle", "unwrap"} => u < RingLen /\ (r > wr => r - wr >= EpSize)
  /\ at = "flush" => seen >= wr /\ seen - wr < EpSize

Follow(r, b, u) ==
  /\ IF at = "wrap" THEN InLine(r, b, u) ELSE InRing(r, b, u)
  /\ Sent(b, u) /\ Taken(b, u) /\ Room(r, u)

Samples ==
  ~torn /\ at # "init" =>
    Past /\ \E r \in 0 .. RingLen - 1, b \in Nat, u \in Nat :
              rd \in {r, r + RingLen} /\ Follow(r, b, u)

Queue == Sizes /\ InitsLast /\ OneOut
Flow == Queue /\ Working /\ Prepared /\ InitQuiet /\ Reception /\ InStream

\* The inductive invariant.
AudioInv == Types /\ Flow /\ Samples

-----------------------------------------------------------------------------
(***************************************************************************)
(* Events.                                                                 *)
(***************************************************************************)
LEMMA WaitingAt ==
  /\ Types => \A t : Waiting(t) <=> \E i \in 1 .. Len(ev) : ev[i].type = t
  /\ Types' => \A t : Waiting(t)' <=> \E i \in 1 .. Len(ev') : ev'[i].type = t
<1>1. (Types => DOMAIN ev = 1 .. Len(ev)) /\ (Types' => DOMAIN (ev') = 1 .. Len(ev'))
  BY DEF Types, EvTyped
<1> QED
  BY <1>1 DEF Waiting

LEMMA SomeEvent ==
  ASSUME Types, ev # <<>>
  PROVE  1 \in 1 .. Len(ev)
<1>1. ev \in Seq(EventType)
  BY DEF Types, EvTyped
<1>2. Len(ev) \in Nat /\ Len(ev) # 0
  BY <1>1
<1> QED
  BY <1>2

\* An event is appended.
LEMMA Appended ==
  ASSUME Types, NEW e \in EventType, ev' = Append(ev, e)
  PROVE  /\ ev' \in Seq(EventType) /\ Len(ev') = Len(ev) + 1 /\ ev'[Len(ev) + 1] = e
         /\ \A i \in 1 .. Len(ev) : ev'[i] = ev[i]
         /\ \A t : Waiting(t)' <=> Waiting(t) \/ e.type = t
         /\ Len(ev) < MaxEv => EvTyped'
<1>1. ev \in Seq(EventType) /\ Len(ev) \in Nat
  BY DEF Types, EvTyped
<1>2. /\ ev' \in Seq(EventType) /\ Len(ev') = Len(ev) + 1 /\ ev'[Len(ev) + 1] = e
      /\ \A i \in 1 .. Len(ev) : ev'[i] = ev[i]
  BY <1>1
<1>3. DOMAIN (ev') = 1 .. Len(ev) + 1 /\ DOMAIN ev = 1 .. Len(ev)
  BY <1>1, <1>2
<1>4. ASSUME NEW t PROVE Waiting(t)' <=> Waiting(t) \/ e.type = t
  <2>1. ASSUME Waiting(t)' PROVE Waiting(t) \/ e.type = t
    <3>1. PICK i \in 1 .. Len(ev) + 1 : ev'[i].type = t
      BY <1>3, <2>1 DEF Waiting
    <3>2. i = Len(ev) + 1 \/ i \in 1 .. Len(ev)
      BY <1>1
    <3> QED
      BY <1>2, <1>3, <3>1, <3>2 DEF Waiting
  <2>2. ASSUME Waiting(t) PROVE Waiting(t)'
    <3>1. PICK i \in 1 .. Len(ev) : ev[i].type = t
      BY <1>3, <2>2 DEF Waiting
    <3>2. i \in DOMAIN (ev') /\ ev'[i].type = t
      BY <1>1, <1>2, <1>3, <3>1
    <3> QED
      BY <3>2 DEF Waiting
  <2>3. ASSUME e.type = t PROVE Waiting(t)'
    <3>1. Len(ev) + 1 \in DOMAIN (ev')
      BY <1>1, <1>3
    <3> QED
      BY <1>2, <2>3, <3>1 DEF Waiting
  <2> QED
    BY <2>1, <2>2, <2>3
<1>5. Len(ev) < MaxEv => EvTyped'
  BY <1>1, <1>2 DEF EvTyped
<1> QED
  BY <1>2, <1>4, <1>5

\* The first event is handled.
LEMMA Handled ==
  ASSUME Types, ev # <<>>, ev' = Tail(ev)
  PROVE  /\ Len(ev) \in Nat \ {0} /\ Head(ev) = ev[1] /\ ev[1] \in EventType
         /\ ev' \in Seq(EventType) /\ Len(ev') = Len(ev) - 1 /\ EvTyped'
         /\ \A i \in 1 .. Len(ev') : ev'[i] = ev[i + 1]
         /\ \A t : Waiting(t)' => Waiting(t)
         /\ \A t : Waiting(t) => ev[1].type = t \/ Waiting(t)'
<1>1. ev \in Seq(EventType) /\ Len(ev) \in Nat \ {0}
  BY DEF Types, EvTyped
<1>2. /\ Head(ev) = ev[1] /\ ev[1] \in EventType
      /\ ev' \in Seq(EventType) /\ Len(ev') = Len(ev) - 1
      /\ \A i \in 1 .. Len(ev') : ev'[i] = ev[i + 1]
  BY <1>1
<1>3. DOMAIN (ev') = 1 .. Len(ev) - 1 /\ DOMAIN ev = 1 .. Len(ev)
  BY <1>1, <1>2
<1>4. ASSUME NEW t, Waiting(t)' PROVE Waiting(t)
  <2>1. PICK i \in 1 .. Len(ev) - 1 : ev'[i].type = t
    BY <1>3, <1>4 DEF Waiting
  <2>2. i + 1 \in DOMAIN ev /\ ev[i + 1].type = t
    BY <1>1, <1>2, <1>3, <2>1
  <2> QED
    BY <2>2 DEF Waiting
<1>5. ASSUME NEW t, Waiting(t) PROVE ev[1].type = t \/ Waiting(t)'
  <2>1. PICK i \in 1 .. Len(ev) : ev[i].type = t
    BY <1>3, <1>5 DEF Waiting
  <2>2. i = 1 \/ (i - 1 \in 1 .. Len(ev) - 1 /\ ev'[i - 1] = ev[(i - 1) + 1])
    BY <1>1, <1>2
  <2>3. i = 1 \/ (i - 1 \in DOMAIN (ev') /\ ev'[i - 1].type = t)
    BY <1>1, <1>3, <2>1, <2>2
  <2> QED
    BY <2>1, <2>3 DEF Waiting
<1>6. EvTyped'
  BY <1>1, <1>2 DEF Types, EvTyped
<1> QED
  BY <1>1, <1>2, <1>4, <1>5, <1>6

-----------------------------------------------------------------------------
(***************************************************************************)
(* Types.                                                                  *)
(***************************************************************************)
LEMMA WrapType ==
  ASSUME NEW p \in 0 .. 2 * RingLen - 1
  PROVE  /\ Wrap(p) \in 0 .. RingLen - 1
         /\ p < RingLen => Wrap(p) = p
         /\ p >= RingLen => Wrap(p) = p - RingLen
BY DEF Wrap, Wrapped

LEMMA CallFields ==
  ASSUME Types
  PROVE  /\ app.use \in {"idle", "ptr", "held", "add", "wrap"} /\ app.pos \in Nat
         /\ app.n \in 0 .. Piece /\ app.upto \in 0 .. MaxTotal
         /\ \A p : Cell(p) \in 0 .. MaxTotal
         /\ NoCall \in CallType /\ NoCall.use = "idle"
<1>1. NoCall \in CallType /\ NoCall.use = "idle"
  BY DEF NoCall, CallType
<1>2. \A p : Cell(p) \in 0 .. MaxTotal
  BY DEF Types, Cell
<1>3. app \in CallType
  BY DEF Types
<1> QED
  BY <1>1, <1>2, <1>3 DEF CallType

\* The steps of UsbdAudioCbDataOut.
LEMMA OutTypes ==
  ASSUME Types, Sizes, Working, AudioDataOut
  PROVE  Types'
<1>1. CASE OutAdvance
  <2>1. /\ ev # <<>> /\ at = "idle" /\ wr' = wr + Head(ev).n
        /\ at' = (IF wr' >= RingLen THEN "wrap" ELSE "test")
        /\ UNCHANGED <<rd, cells, alt, recvAt, opened, inFly, ev, seen, hostAlt, app,
                       total, last, torn, dropped, started, resets>>
    BY <1>1 DEF OutAdvance, Handles, AtWork, control, history
  <2>2. PICK n \in 0 .. EpSize : n = Head(ev).n
    <3>1. ev \in Seq(EventType) /\ Head(ev) \in EventType
      BY <2>1 DEF Types, EvTyped
    <3> QED
      BY <3>1 DEF EventType
  <2>3. wr' \in 0 .. RingLen + EpSize - 1 /\ (at' = "wrap" <=> wr' >= RingLen)
    <3>1. wr \in 0 .. RingLen - 1
      BY <2>1 DEF Types
    <3>2. wr' = wr + n
      BY <2>1, <2>2
    <3> QED
      BY <2>1, <3>1, <3>2
  <2>4. at' \in {"idle", "init"} \cup OutStep
    BY <2>1 DEF OutStep
  <2> QED
    BY <2>1, <2>3, <2>4 DEF Types, EvTyped
<1>2. CASE OutWrap
  <2>1. /\ at = "wrap" /\ at' = "test" /\ wr' = wr - RingLen /\ cells' = Copied
        /\ torn' \in BOOLEAN
        /\ UNCHANGED <<rd, alt, recvAt, opened, inFly, ev, seen, hostAlt, app,
                       total, last, dropped, started, resets>>
    BY <1>2 DEF OutWrap, control, Types
  <2>2. wr' \in 0 .. RingLen - 1 /\ wr' \in 0 .. RingLen + EpSize - 1 /\ ~(wr' >= RingLen)
    BY <2>1 DEF Types
  <2>3. Copied \in [0 .. RingLen + EpSize - 1 -> 0 .. MaxTotal]
    <3>1. DOMAIN cells = 0 .. RingLen + EpSize - 1 /\ 0 \in 0 .. MaxTotal
          /\ wr \in 0 .. RingLen + EpSize - 1
          /\ \A p \in 0 .. RingLen + EpSize - 1 : cells[p] \in 0 .. MaxTotal
      BY DEF Types
    <3>2. \A p \in DOMAIN cells : p < wr - RingLen => RingLen + p \in DOMAIN cells
      BY <3>1
    <3> QED
      BY <3>1, <3>2 DEF Copied
  <2>4. at' \in {"idle", "init"} \cup OutStep
    BY <2>1 DEF OutStep
  <2> QED
    BY <2>1, <2>2, <2>3, <2>4 DEF Types, EvTyped
<1>3. CASE OutRoom \/ OutUnwrap
  <2>1. /\ at \in OutStep /\ at # "wrap" /\ at' = "idle" /\ seen' = 0 /\ ev' = Tail(ev)
        /\ recvAt' = wr /\ torn' \in BOOLEAN
        /\ UNCHANGED <<wr, cells, alt, opened, inFly, hostAlt, app,
                       total, last, dropped, started, resets>>
    BY <1>3 DEF OutRoom, OutUnwrap, Returned, Prepare, ring, OutStep, Types
  <2>2. rd' \in Nat
    BY <1>3 DEF OutRoom, OutUnwrap, Wrapped, ring, Types
  <2>3. EvTyped'
    BY <2>1, Handled DEF Working
  <2>4. recvAt' \in 0 .. RingLen - 1
    BY <2>1 DEF Types
  <2> QED
    BY <2>1, <2>2, <2>3, <2>4 DEF Types
<1>4. CASE OutOverrun
  BY <1>4 DEF OutOverrun, ring, control, history, OutStep, Types, EvTyped
<1>5. CASE OutFlush
  <2>1. /\ at # "wrap" /\ at' = "unwrap" /\ seen' = rd' /\ torn' \in BOOLEAN
        /\ UNCHANGED <<wr, cells, alt, recvAt, opened, inFly, ev, hostAlt, app,
                       total, last, dropped, started, resets>>
    BY <1>5 DEF OutFlush, control, Types
  <2>2. rd' \in Nat
    BY <1>5 DEF OutFlush, Flushed, Types
  <2> QED
    BY <1>5, <2>1, <2>2 DEF OutFlush, OutStep, Types, EvTyped
<1> QED
  BY <1>1, <1>2, <1>3, <1>4, <1>5 DEF AudioDataOut

\* The steps of the application.
LEMMA AppTypes ==
  ASSUME Types, App
  PROVE  Types'
<1>1. /\ UNCHANGED <<wr, cells, alt, recvAt, opened, inFly, ev, at, seen, hostAlt,
                     total, dropped, started, resets>>
      /\ torn' \in BOOLEAN
  BY DEF App, GetPointer, GetSize, GetNothing, AddLoad, AddStore, AddWrap, ring, control,
         callback, history, Types
<1>2. app' \in CallType /\ rd' \in Nat /\ last' \in 0 .. MaxTotal
  <2>0. rd \in Nat /\ last \in 0 .. MaxTotal /\ app \in CallType
    BY DEF Types
  <2>1. CASE GetPointer
    BY <2>0, <2>1, CallFields DEF GetPointer, ring, history, NoCall, CallType
  <2>2. ASSUME NEW k \in 1 .. Piece, GetSize(k) PROVE app' \in CallType /\ UNCHANGED <<rd, last>>
    BY <2>0, <2>2, CallFields DEF GetSize, ring, CallType
  <2>3. CASE GetNothing
    BY <2>0, <2>3, CallFields DEF GetNothing, ring, history
  <2>4. CASE AddLoad
    BY <2>0, <2>4 DEF AddLoad, ring, history, CallType
  <2>5. CASE AddStore
    <3>1. rd' \in Nat /\ last' \in 0 .. MaxTotal
      BY <2>0, <2>5, CallFields DEF AddStore
    <3> QED
      BY <2>5, <3>1, CallFields DEF AddStore, NoCall, CallType
  <2>6. CASE AddWrap
    <3>1. rd' \in Nat
      BY <2>0, <2>6, CallFields DEF AddWrap, Wrapped
    <3> QED
      BY <2>0, <2>6, <3>1, CallFields DEF AddWrap, history
  <2> QED
    BY <2>0, <2>1, <2>2, <2>3, <2>4, <2>5, <2>6 DEF App
<1> QED
  BY <1>1, <1>2 DEF Types, EvTyped

LEMMA TypesKept == Types /\ Sizes /\ Working /\ [Next]_vars => Types'
<1> SUFFICES ASSUME Types, Sizes, Working, [Next]_vars PROVE Types'
  OBVIOUS
<1>1. CASE UNCHANGED vars
  BY <1>1 DEF vars, ring, control, callback, history, Types, EvTyped
<1>2. CASE BusReset
  <2>1. Event("init", "out", 0) \in EventType
    BY DEF Event, EventType, Stream
  <2>2. EvTyped'
    BY <1>2, <2>1, Appended DEF BusReset, Queued, Types, EvTyped
  <2>3. opened' \in [Stream -> BOOLEAN] /\ hostAlt' \in [Stream -> {0, 1}]
    BY <1>2 DEF BusReset, Closed, Zero
  <2>4. resets' \in 0 .. MaxReset
    BY <1>2 DEF BusReset, Types
  <2> QED
    BY <1>2, <2>2, <2>3, <2>4 DEF BusReset, ring, callback, Types
<1>3. ASSUME NEW s \in Stream, HostSelects(s) PROVE Types'
  <2>1. hostAlt[s] \in {0, 1} /\ 1 - hostAlt[s] \in {0, 1}
    BY DEF Types
  <2>2. Event("select", s, 1 - hostAlt[s]) \in EventType
    BY <2>1 DEF Event, EventType, Stream
  <2>3. EvTyped'
    BY <1>3, <2>2, Appended DEF HostSelects, Queued
  <2>4. hostAlt' \in [Stream -> {0, 1}]
    BY <1>3, <2>1 DEF HostSelects, Types
  <2> QED
    BY <1>3, <2>3, <2>4 DEF HostSelects, ring, control, callback, history, Types
<1>4. ASSUME NEW n \in PacketSizes, HostSends(n) PROVE Types'
  <2>1. n \in 1 .. EpSize
    OBVIOUS
  <2>2. Event("out", "out", n) \in EventType
    BY <2>1 DEF Event, EventType, Stream
  <2>3. EvTyped' /\ dropped' \subseteq Stream
    <3>1. Queued(Event("out", "out", n)) \/ ev' = ev
      BY <1>4 DEF HostSends, Reported
    <3> QED
      BY <1>4, <2>2, <3>1, Appended DEF HostSends, Reported, Queued, Types, EvTyped, Stream
  <2>4. cells' \in [0 .. RingLen + EpSize - 1 -> 0 .. MaxTotal]
    <3>1. recvAt \in 0 .. RingLen - 1 /\ total \in Nat /\ total + n <= MaxTotal
      BY <1>4 DEF HostSends, NoBuffer, Types
    <3>2. \A p \in 0 .. RingLen + EpSize - 1 :
            p \in recvAt .. recvAt + n - 1 => total + 1 + p - recvAt \in 0 .. MaxTotal
      BY <2>1, <3>1
    <3> QED
      BY <1>4, <3>2 DEF HostSends, Types
  <2>5. total' \in 0 .. MaxTotal
    BY <1>4, <2>1 DEF HostSends, Types
  <2> QED
    BY <1>4, <2>3, <2>4, <2>5 DEF HostSends, callback, Types
<1>5. CASE HostTakes
  <2>1. Event("in", "in", 0) \in EventType
    BY DEF Event, EventType, Stream
  <2>2. EvTyped' /\ dropped' \subseteq Stream
    BY <1>5, <2>1, Appended DEF HostTakes, Reported, Queued, Types, EvTyped, Stream
  <2> QED
    BY <1>5, <2>2 DEF HostTakes, ring, callback, Types
<1>6. CASE InitStart
  <2>1. wr' \in 0 .. RingLen - 1 /\ wr' \in 0 .. RingLen + EpSize - 1 /\ ~(wr' >= RingLen)
    BY <1>6 DEF InitStart
  <2> QED
    BY <1>6, <2>1 DEF InitStart, control, history, Types, EvTyped
<1>7. CASE InitFinish
  <2>1. EvTyped'
    BY <1>7, Handled DEF InitFinish, Returned, Working
  <2>2. /\ started' \in BOOLEAN /\ recvAt' \in {NoBuffer} \cup 0 .. RingLen - 1
        /\ dropped' \subseteq Stream
    <3>1. \/ started' = TRUE /\ recvAt' = 0 /\ dropped' = dropped \ {"out"}
          \/ started' = started /\ recvAt' = recvAt /\ dropped' = dropped
      BY <1>7 DEF InitFinish
    <3>2. /\ 0 \in 0 .. RingLen - 1 /\ started \in BOOLEAN /\ dropped \subseteq Stream
          /\ recvAt \in {NoBuffer} \cup 0 .. RingLen - 1
      BY DEF Types
    <3> QED
      BY <3>1, <3>2
  <2>3. torn' \in BOOLEAN
    <3>1. torn' = (app # NoCall \/ ~started')
      BY <1>7 DEF InitFinish
    <3> QED
      BY <2>2, <3>1
  <2>4. cells' \in [0 .. RingLen + EpSize - 1 -> 0 .. MaxTotal]
    BY <1>7 DEF InitFinish, Silence
  <2>5. wr' = wr /\ ~(wr >= RingLen) /\ at' = "idle"
    BY <1>7 DEF InitFinish, Returned, Types
  <2> QED
    BY <1>7, <2>1, <2>2, <2>3, <2>4, <2>5 DEF InitFinish, Returned, Types
<1>8. CASE AudioDataIn
  <2>1. EvTyped'
    BY <1>8, Handled DEF AudioDataIn, Handles, AtWork, Returned
  <2>2. inFly' \in BOOLEAN
    BY <1>8 DEF AudioDataIn, Transmit, Types
  <2>3. ~(wr >= RingLen)
    BY <1>8 DEF AudioDataIn, Handles, Types
  <2> QED
    BY <1>8, <2>1, <2>2, <2>3 DEF AudioDataIn, Returned, ring, history, Types
<1>9. CASE AudioSetup
  <2>1. /\ EvTyped' /\ at = "idle" /\ at' = "idle" /\ seen' = 0
        /\ Head(ev) = ev[1] /\ ev[1] \in EventType /\ ev[1].type = "select" /\ Len(ev) \in Nat \ {0}
    BY <1>9, Handled DEF AudioSetup, Handles, AtWork, Returned
  <2>2. ev[1].n \in {0, 1} /\ ev[1].stream \in Stream
    <3>1. 1 \in 1 .. Len(ev)
      BY <2>1
    <3> QED
      BY <2>1, <3>1 DEF Sizes, EventType
  <2>3. SetInterface(ev[1].stream, ev[1].n)
    BY <1>9, <2>1 DEF AudioSetup
  <2>4. alt' \in [Stream -> {0, 1}] /\ opened' \in [Stream -> BOOLEAN] /\ dropped' \subseteq Stream
    BY <2>2, <2>3 DEF SetInterface, Types
  <2>5. inFly' \in BOOLEAN
    BY <2>2, <2>3, <2>4 DEF SetInterface, Transmit, Types, Stream
  <2>6. UNCHANGED <<wr, rd, cells, recvAt, hostAlt, app, total, last, torn, started, resets>>
    BY <2>3 DEF SetInterface, ring
  <2>7. ~(wr >= RingLen)
    BY <2>1 DEF Types
  <2> QED
    BY <2>1, <2>4, <2>5, <2>6, <2>7 DEF Types
<1> QED
  BY <1>1, <1>2, <1>3, <1>4, <1>5, <1>6, <1>7, <1>8, <1>9, OutTypes, AppTypes
     DEF Next, Class, Host

-----------------------------------------------------------------------------
(***************************************************************************)
(* The events and what is under way.                                       *)
(***************************************************************************)
LEMMA QueueGrows ==
  ASSUME Types, Queue, NEW e \in EventType, ev' = Append(ev, e),
         e.type = "init" \/ ~Waiting("init"),
         e.type = "out" => e.n > 0 /\ ~Waiting("out"),
         e.type = "select" => e.n \in {0, 1}
  PROVE  Queue'
<1>1. PICK n \in Nat : n = Len(ev)
  BY DEF Types, EvTyped
<1>2. /\ Len(ev') = n + 1 /\ ev'[n + 1] = e
      /\ \A i \in 1 .. n : ev'[i] = ev[i]
  BY <1>1, Appended
<1>3. \A i \in 1 .. n : (e.type # "init" => ev[i].type # "init") /\ (e.type = "out" => ~Out(i))
  BY <1>1, WaitingAt DEF Out
<1>4. Sizes'
  BY <1>1, <1>2 DEF Queue, Sizes, Out
<1>5. InitsLast'
  BY <1>1, <1>2, <1>3 DEF Queue, InitsLast
<1>6. OneOut'
  BY <1>1, <1>2, <1>3 DEF Queue, OneOut, Out
<1> QED
  BY <1>4, <1>5, <1>6 DEF Queue

LEMMA QueueShrinks ==
  ASSUME Types, Queue, ev # <<>>, ev' = Tail(ev)
  PROVE  /\ Queue'
         /\ ev[1].type = "init" => \A i \in 1 .. Len(ev) : ev[i].type = "init"
         /\ ev[1].type = "out" => ~Waiting("out")'
<1>1. PICK n \in Nat : n = Len(ev)
  BY DEF Types, EvTyped
<1>2. /\ n > 0 /\ Len(ev') = n - 1
      /\ \A i \in 1 .. n - 1 : ev'[i] = ev[i + 1]
  BY <1>1, Handled
<1>3. Sizes'
  BY <1>1, <1>2 DEF Queue, Sizes, Out
<1>4. InitsLast'
  BY <1>1, <1>2 DEF Queue, InitsLast
<1>5. OneOut'
  <2> SUFFICES ASSUME NEW i \in 1 .. n - 1, NEW j \in 1 .. n - 1, Out(i)', Out(j)' PROVE i = j
    BY <1>2 DEF OneOut
  <2>1. i + 1 \in 1 .. n /\ j + 1 \in 1 .. n /\ Out(i + 1) /\ Out(j + 1)
    BY <1>2 DEF Out
  <2>2. i + 1 = j + 1
    BY <1>1, <2>1 DEF Queue, OneOut
  <2> QED
    BY <2>2
<1>6. ASSUME ev[1].type = "init", NEW i \in 1 .. n PROVE ev[i].type = "init"
  <2>1. 1 \in 1 .. n /\ (i = 1 \/ 1 < i)
    BY <1>2
  <2> QED
    BY <1>1, <1>6, <2>1 DEF Queue, InitsLast
<1>7. ASSUME ev[1].type = "out", Waiting("out")' PROVE FALSE
  <2>1. ev' \in Seq(EventType) /\ DOMAIN (ev') = 1 .. n - 1
    BY <1>2, Handled
  <2>2. PICK i \in 1 .. n - 1 : ev'[i].type = "out"
    BY <1>7, <2>1 DEF Waiting
  <2>3. 1 \in 1 .. n /\ i + 1 \in 1 .. n /\ Out(1) /\ Out(i + 1)
    BY <1>2, <1>7, <2>2 DEF Out
  <2>4. 1 = i + 1
    BY <1>1, <2>3 DEF Queue, OneOut
  <2> QED
    BY <2>4
<1> QED
  BY <1>1, <1>3, <1>4, <1>5, <1>6, <1>7 DEF Queue

LEMMA FlowKept == Types /\ Flow /\ [Next]_vars => Flow'
<1> SUFFICES ASSUME Types, Flow, [Next]_vars PROVE Flow'
  OBVIOUS
<1>0. Queue /\ Working /\ Prepared /\ InitQuiet /\ Reception /\ InStream
  BY DEF Flow
<1>e. \A s \in Stream : hostAlt[s] \in {0, 1} /\ 1 - hostAlt[s] \in {0, 1}
  BY DEF Types
<1>n. \A p \in 0 .. RingLen - 1 : p # NoBuffer
  BY DEF NoBuffer
\* Steps of the callback and of the application that neither start nor end an event.
<1>q. ASSUME UNCHANGED <<ev, recvAt, started, hostAlt, alt, opened, inFly, dropped>>, Working'
      PROVE  Flow'
  <2>1. Queue'
    BY <1>0, <1>q DEF Queue, Sizes, InitsLast, OneOut, Out
  <2>2. \A t : Waiting(t)' <=> Waiting(t)
    BY <1>q DEF Waiting
  <2> QED
    BY <1>0, <1>q, <2>1, <2>2 DEF Flow, Prepared, InitQuiet, Reception, InStream
\* An event is appended, or lost.
<1>a. ASSUME NEW e \in EventType, ev' = Append(ev, e), UNCHANGED <<at, wr>> PROVE Working'
  <2>1. at # "idle" => ev # <<>>
    BY <1>0, <1>a DEF Working, Types
  <2>2. ev # <<>> => ev' # <<>> /\ ev'[1] = ev[1]
    <3>1. ev \in Seq(EventType)
      BY DEF Types, EvTyped
    <3>2. ev # <<>> => 1 \in 1 .. Len(ev)
      BY <3>1
    <3> QED
      BY <1>a, <3>1, <3>2, Appended
  <2> QED
    BY <1>0, <1>a, <2>1, <2>2 DEF Working, Out, OutStep
<1>b. UNCHANGED <<ev, at, wr>> => Working'
  BY <1>0 DEF Working, Out
<1>1. CASE UNCHANGED vars
  BY <1>1, <1>b, <1>q DEF vars, ring, control, callback, history
<1>2. CASE BusReset
  <2> DEFINE e == Event("init", "out", 0)
  <2>1. e \in EventType /\ e.type = "init" /\ (ev' = Append(ev, e) \/ ev' = ev)
    BY <1>2 DEF BusReset, Queued, Event, EventType, Stream
  <2>2. Queue'
    <3>1. ev' = ev => Queue'
      BY <1>0 DEF Queue, Sizes, InitsLast, OneOut, Out
    <3> QED
      BY <1>0, <2>1, <3>1, QueueGrows
  <2>3. /\ recvAt' = NoBuffer /\ started' = FALSE /\ opened' = Closed /\ hostAlt' = Zero
        /\ UNCHANGED <<at, wr>>
    BY <1>2 DEF BusReset, ring, callback
  <2>4. Prepared' /\ InitQuiet' /\ Reception' /\ InStream'
    BY <2>3 DEF Prepared, InitQuiet, Reception, InStream, Closed, Zero, Stream
  <2>5. Working'
    BY <1>a, <1>b, <2>1, <2>3
  <2> QED
    BY <2>2, <2>4, <2>5 DEF Flow
<1>3. ASSUME NEW s \in Stream, HostSelects(s) PROVE Flow'
  <2> DEFINE e == Event("select", s, 1 - hostAlt[s])
  <2>1. e \in EventType /\ e.type = "select" /\ e.n \in {0, 1} /\ ev' = Append(ev, e)
    BY <1>3, <1>e DEF HostSelects, Queued, Event, EventType, Stream
  <2>2. ~Waiting("init") /\ UNCHANGED <<recvAt, started, alt, opened, inFly, dropped, at, wr>>
    BY <1>3 DEF HostSelects, ring, control, callback, history
  <2>3. Queue'
    BY <1>0, <2>1, <2>2, QueueGrows
  <2>4. \A t : Waiting(t)' <=> Waiting(t) \/ t = "select"
    BY <2>1, Appended
  <2>5. Prepared' /\ InitQuiet' /\ Reception' /\ InStream'
    BY <1>0, <2>2, <2>4 DEF Prepared, InitQuiet, Reception, InStream
  <2>6. Working'
    BY <1>a, <2>1, <2>2
  <2> QED
    BY <2>3, <2>5, <2>6 DEF Flow
<1>4. ASSUME NEW n \in PacketSizes, HostSends(n) PROVE Flow'
  <2> DEFINE e == Event("out", "out", n)
  <2>1. e \in EventType /\ e.type = "out" /\ e.n > 0
    BY DEF Event, EventType, Stream
  <2>2. /\ recvAt # NoBuffer /\ recvAt' = NoBuffer /\ hostAlt["out"] = 1
        /\ UNCHANGED <<started, alt, opened, inFly, at, wr>>
        /\ \/ ev' = Append(ev, e) /\ dropped' = dropped
           \/ ev' = ev /\ dropped' = dropped \cup {"out"}
    BY <1>4 DEF HostSends, Uses, Reported, Queued, callback
  <2>3. ~Waiting("init") /\ ~Waiting("out")
    BY <1>0, <2>2 DEF InitQuiet, Prepared, Stream
  <2>4. CASE ev' = Append(ev, e) /\ dropped' = dropped
    <3>1. Queue' /\ Working'
      BY <1>0, <1>a, <2>1, <2>2, <2>3, <2>4, QueueGrows
    <3>2. \A t : Waiting(t)' <=> Waiting(t) \/ t = "out"
      BY <2>1, <2>4, Appended
    <3>3. Prepared' /\ InitQuiet' /\ Reception' /\ InStream'
      BY <1>0, <2>2, <2>3, <2>4, <3>2 DEF Prepared, InitQuiet, Reception, InStream
    <3> QED
      BY <3>1, <3>3 DEF Flow
  <2>5. CASE ev' = ev /\ dropped' = dropped \cup {"out"}
    <3>1. Queue' /\ Working'
      BY <1>0, <1>b, <2>2, <2>5 DEF Queue, Sizes, InitsLast, OneOut, Out
    <3>2. \A t : Waiting(t)' <=> Waiting(t)
      BY <2>5 DEF Waiting
    <3>3. Prepared' /\ InitQuiet' /\ Reception' /\ InStream'
      BY <1>0, <2>2, <2>3, <2>5, <3>2 DEF Prepared, InitQuiet, Reception, InStream
    <3> QED
      BY <3>1, <3>3 DEF Flow
  <2> QED
    BY <2>2, <2>4, <2>5
<1>5. CASE HostTakes
  <2> DEFINE e == Event("in", "in", 0)
  <2>1. e \in EventType /\ e.type = "in"
    BY DEF Event, EventType, Stream
  <2>2. /\ hostAlt["in"] = 1 /\ UNCHANGED <<recvAt, started, alt, opened, hostAlt, at, wr>>
        /\ \/ ev' = Append(ev, e) /\ dropped' = dropped
           \/ ev' = ev /\ dropped' = dropped \cup {"in"}
    BY <1>5 DEF HostTakes, Uses, Reported, Queued, ring, callback
  <2>3. ~Waiting("init")
    BY <1>0, <2>2 DEF InitQuiet, Stream
  <2>4. CASE ev' = Append(ev, e) /\ dropped' = dropped
    <3>1. Queue' /\ Working'
      BY <1>0, <1>a, <2>1, <2>2, <2>3, <2>4, QueueGrows
    <3>2. \A t : Waiting(t)' <=> Waiting(t) \/ t = "in"
      BY <2>1, <2>4, Appended
    <3>3. Prepared' /\ InitQuiet' /\ Reception' /\ InStream'
      BY <1>0, <2>2, <2>3, <2>4, <3>2 DEF Prepared, InitQuiet, Reception, InStream
    <3> QED
      BY <3>1, <3>3 DEF Flow
  <2>5. CASE ev' = ev /\ dropped' = dropped \cup {"in"}
    <3>1. Queue' /\ Working'
      BY <1>0, <1>b, <2>2, <2>5 DEF Queue, Sizes, InitsLast, OneOut, Out
    <3>2. \A t : Waiting(t)' <=> Waiting(t)
      BY <2>5 DEF Waiting
    <3>3. Prepared' /\ InitQuiet' /\ Reception' /\ InStream'
      BY <1>0, <2>2, <2>3, <2>5, <3>2 DEF Prepared, InitQuiet, Reception, InStream
    <3> QED
      BY <3>1, <3>3 DEF Flow
  <2> QED
    BY <2>2, <2>4, <2>5
\* A callback returns.
<1>6. ASSUME Returned, ev # <<>>
      PROVE  /\ Queue' /\ Working' /\ (\A t : Waiting(t)' => Waiting(t))
             /\ (\A t : Waiting(t) => ev[1].type = t \/ Waiting(t)')
             /\ Head(ev) = ev[1] /\ Len(ev) \in Nat \ {0}
             /\ Waiting(ev[1].type)
             /\ ev[1].type = "out" => ~Waiting("out")'
             /\ ev[1].type = "init" => ~Waiting("out") /\ ~Waiting("in")
  <2>1. ev' = Tail(ev) /\ at' = "idle"
    BY <1>6 DEF Returned
  <2>2. Working'
    BY <2>1 DEF Working, OutStep
  <2>3. Len(ev) \in Nat \ {0} /\ Head(ev) = ev[1]
    BY <1>6, <2>1, Handled
  <2>4. 1 \in 1 .. Len(ev)
    BY <2>3
  <2>5. ev[1].type = "init" => ~Waiting("out") /\ ~Waiting("in")
    BY <1>0, <1>6, <2>1, QueueShrinks, WaitingAt
  <2> QED
    BY <1>0, <1>6, <2>1, <2>2, <2>3, <2>4, <2>5, QueueShrinks, Handled, WaitingAt
<1>7. CASE InitStart
  <2>1. /\ UNCHANGED <<ev, recvAt, started, hostAlt, alt, opened, inFly, dropped>>
        /\ ev # <<>> /\ Head(ev).type = "init" /\ wr' = 0 /\ at' = "init"
    BY <1>7 DEF InitStart, Handles, AtWork, control, history
  <2>2. Head(ev) = ev[1]
    BY <2>1 DEF Types, EvTyped
  <2>3. Working'
    BY <2>1, <2>2 DEF Working, OutStep
  <2> QED
    BY <1>q, <2>1, <2>3
<1>8. CASE InitFinish
  <2>1. /\ Returned /\ ev # <<>> /\ ev[1].type = "init"
        /\ UNCHANGED <<alt, opened, inFly, hostAlt>>
        /\ \/ started' = TRUE /\ recvAt' = 0 /\ dropped' = dropped \ {"out"}
           \/ UNCHANGED <<started, recvAt, dropped>>
    BY <1>0, <1>8 DEF InitFinish, Working
  <2>2. /\ Waiting("init") /\ ~Waiting("out") /\ ~Waiting("in")
        /\ \A t : Waiting(t)' => Waiting(t)
        /\ Queue' /\ Working'
    BY <1>6, <2>1
  <2>3. started' => recvAt' = 0
    BY <1>0, <2>1, <2>2 DEF InitQuiet
  <2>4. 0 # NoBuffer
    BY DEF NoBuffer
  <2>5. InitQuiet'
    BY <1>0, <2>1, <2>2, <2>3 DEF InitQuiet
  <2>6. Prepared' /\ Reception'
    BY <2>2, <2>3, <2>4 DEF Prepared, Reception
  <2>7. InStream'
    BY <1>0, <2>1, <2>2 DEF InStream
  <2> QED
    BY <2>2, <2>5, <2>6, <2>7 DEF Flow
<1>9. CASE OutAdvance \/ OutWrap \/ OutOverrun \/ OutFlush
  <2>1. /\ UNCHANGED <<ev, recvAt, started, hostAlt, alt, opened, inFly, dropped>>
        /\ at' \in OutStep
        /\ (ev # <<>> /\ Head(ev).type = "out") \/ at \in OutStep
    BY <1>9 DEF OutAdvance, OutWrap, OutOverrun, OutFlush, Handles, AtWork, OutStep, control,
                history
  <2>2. ev # <<>> => Head(ev) = ev[1]
    BY DEF Types, EvTyped
  <2>3. Working'
    BY <1>0, <2>1, <2>2 DEF Working, OutStep, Out
  <2> QED
    BY <1>q, <2>1, <2>3
<1>10. CASE OutRoom \/ OutUnwrap
  <2>1. /\ Returned /\ at \in OutStep /\ at # "wrap" /\ recvAt' = wr
        /\ UNCHANGED <<started, alt, opened, inFly, hostAlt, dropped>>
    BY <1>10 DEF OutRoom, OutUnwrap, Prepare, OutStep
  <2>2. ev # <<>> /\ ev[1].type = "out" /\ recvAt' # NoBuffer
    <3>1. wr \in 0 .. RingLen - 1
      BY <2>1 DEF Types
    <3> QED
      BY <1>0, <1>n, <2>1, <3>1 DEF Working, Out
  <2>3. /\ Waiting("out") /\ ~Waiting("out")'
        /\ \A t : Waiting(t)' => Waiting(t)
        /\ \A t : Waiting(t) => t = "out" \/ Waiting(t)'
        /\ Queue' /\ Working'
    BY <1>6, <2>1, <2>2
  <2>4. Prepared' /\ InitQuiet' /\ Reception' /\ InStream'
    BY <1>0, <2>1, <2>2, <2>3 DEF Prepared, InitQuiet, Reception, InStream
  <2> QED
    BY <2>3, <2>4 DEF Flow
<1>11. CASE AudioDataIn
  <2>1. /\ Returned /\ ev # <<>> /\ Head(ev).type = "in"
        /\ UNCHANGED <<recvAt, started, alt, opened, hostAlt, dropped>>
        /\ alt["in"] # 0 => Transmit
    BY <1>11 DEF AudioDataIn, Handles, AtWork, history
  <2>2. Queue' /\ Working' /\ (\A t : Waiting(t)' => Waiting(t))
        /\ (\A t : Waiting(t) => t = "in" \/ Waiting(t)')
    BY <1>6, <2>1
  <2>3. Prepared' /\ InitQuiet' /\ Reception'
    BY <1>0, <2>1, <2>2 DEF Prepared, InitQuiet, Reception
  <2>4. InStream'
    BY <1>0, <2>1 DEF InStream, Transmit
  <2> QED
    BY <2>2, <2>3, <2>4 DEF Flow
<1>12. CASE AudioSetup
  <2>1. /\ Returned /\ ev # <<>> /\ Head(ev).type = "select"
        /\ SetInterface(Head(ev).stream, Head(ev).n)
    BY <1>12 DEF AudioSetup, Handles, AtWork
  <2>2. Queue' /\ Working' /\ (\A t : Waiting(t)' => Waiting(t))
        /\ (\A t : Waiting(t) => t = "select" \/ Waiting(t)')
        /\ Head(ev) = ev[1] /\ Len(ev) \in Nat \ {0}
    BY <1>6, <2>1
  <2>3. UNCHANGED <<recvAt, started, hostAlt>> /\ ("out" \in dropped => "out" \in dropped')
    BY <2>1 DEF SetInterface
  <2>4. Prepared' /\ InitQuiet' /\ Reception'
    BY <1>0, <2>2, <2>3 DEF Prepared, InitQuiet, Reception
  <2>5. PICK s \in Stream, v \in {0, 1} : s = Head(ev).stream /\ v = Head(ev).n
    <3>1. 1 \in 1 .. Len(ev) /\ ev[1] \in EventType
      BY <2>2 DEF Types, EvTyped
    <3> QED
      BY <1>0, <2>1, <2>2, <3>1 DEF Queue, Sizes, EventType
  <2>6. alt' = [alt EXCEPT ![s] = v] /\ opened' = [opened EXCEPT ![s] = v # 0]
    BY <2>1, <2>5 DEF SetInterface
  <2>7. /\ (s = "in" /\ v # 0) => Transmit
        /\ s # "in" => inFly' = inFly /\ dropped' = dropped
    BY <2>1, <2>5 DEF SetInterface
  <2>8. InStream'
    <3>1. alt \in [Stream -> {0, 1}] /\ opened \in [Stream -> BOOLEAN] /\ "in" \in Stream
      BY DEF Types, Stream
    <3>2. CASE s = "in"
      BY <2>6, <2>7, <3>1, <3>2 DEF InStream, Transmit
    <3>3. CASE s # "in"
      BY <1>0, <2>2, <2>6, <2>7, <3>1, <3>3 DEF InStream
    <3> QED
      BY <3>2, <3>3
  <2> QED
    BY <2>2, <2>4, <2>8 DEF Flow
<1>13. CASE App
  <2>1. UNCHANGED <<ev, recvAt, started, hostAlt, alt, opened, inFly, dropped, at, wr>>
    BY <1>13 DEF App, GetPointer, GetSize, GetNothing, AddLoad, AddStore, AddWrap, ring, control,
                 callback, history
  <2> QED
    BY <1>b, <1>q, <2>1
<1> QED
  BY <1>1, <1>2, <1>3, <1>4, <1>5, <1>7, <1>8, <1>9, <1>10, <1>11, <1>12, <1>13
     DEF Next, Class, AudioDataOut, Host

-----------------------------------------------------------------------------
(***************************************************************************)
(* The samples.                                                            *)
(***************************************************************************)
\* What an untorn run has, with the samples after number b in cell r and on.
Holds(r, b, u) ==
  /\ r \in 0 .. RingLen - 1 /\ b \in Nat /\ u \in Nat /\ Follow(r, b, u) /\ Past
  /\ rd \in {r, r + RingLen}
  /\ wr \in 0 .. RingLen + EpSize - 1 /\ (at = "wrap" <=> wr >= RingLen)
  /\ DOMAIN cells = 0 .. RingLen + EpSize - 1
  /\ last \in Nat /\ total \in Nat

LEMMA SamplesHold ==
  ASSUME Types, Samples, ~torn, at # "init"
  PROVE  \E r \in 0 .. RingLen - 1, b \in Nat, u \in Nat : Holds(r, b, u)
<1>1. PICK r \in 0 .. RingLen - 1, b \in Nat, u \in Nat :
        Past /\ rd \in {r, r + RingLen} /\ Follow(r, b, u)
  BY DEF Samples
<1>2. Holds(r, b, u)
  BY <1>1 DEF Holds, Types
<1> QED
  BY <1>2

LEMMA SamplesKept ==
  ASSUME NEW r \in 0 .. RingLen - 1, NEW b \in Nat, NEW u \in Nat, Types',
         Past', Follow(r, b, u)', rd' \in {r, r + RingLen}
  PROVE  Samples'
BY DEF Samples

\* Where the unread samples are: not where the next packet goes.
LEMMA UnreadPlace ==
  ASSUME NEW w \in 0 .. RingLen - 1, NEW r \in 0 .. RingLen - 1, NEW u \in 0 .. RingLen - 1,
         r + u \in {w, w + RingLen}, r > w => r - w >= EpSize, NEW k \in 1 .. u
  PROVE  /\ r + k - 1 \in 0 .. 2 * RingLen - 1
         /\ Wrap(r + k - 1) \in 0 .. RingLen - 1
         /\ Wrap(r + k - 1) \notin w .. w + EpSize - 1
<1>1. PICK a \in 0 .. 2 * RingLen - 1 : a = r + k - 1
  OBVIOUS
<1>2. CASE a < RingLen
  <2>1. Wrap(a) = a
    BY <1>2, WrapType
  <2> QED
    BY <1>1, <1>2, <2>1
<1>3. CASE a >= RingLen
  <2>1. Wrap(a) = a - RingLen
    BY <1>3, WrapType
  <2> QED
    BY <1>1, <1>3, <2>1
<1> QED
  BY <1>2, <1>3

\* The first n of the samples in the ring are taken away.
LEMMA FirstTaken ==
  ASSUME NEW r \in 0 .. RingLen - 1, NEW b \in Nat, NEW u \in Nat, NEW n \in 0 .. u,
         InRing(r, b, u), wr \in 0 .. RingLen - 1
  PROVE  /\ r + n \in 0 .. 2 * RingLen - 1
         /\ InRing(Wrap(r + n), b + n, u - n)
<1>1. u <= RingLen /\ r + u \in {wr, wr + RingLen}
      /\ \A k \in 1 .. u : cells[Wrap(r + k - 1)] = b + k
  BY DEF InRing
<1>2. r + n \in 0 .. 2 * RingLen - 1
  BY <1>1
<1>3. PICK q \in 0 .. RingLen - 1 : q = Wrap(r + n)
  BY <1>2, WrapType
<1>4. (r + n < RingLen /\ q = r + n) \/ (r + n >= RingLen /\ q = r + n - RingLen)
  BY <1>2, <1>3, WrapType
<1>5. u - n <= RingLen /\ q + (u - n) \in {wr, wr + RingLen}
  BY <1>1, <1>4
<1>6. ASSUME NEW k \in 1 .. u - n PROVE cells[Wrap(q + k - 1)] = (b + n) + k
  <2>1. k + n \in 1 .. u /\ b + (k + n) = (b + n) + k
    OBVIOUS
  <2>2. PICK c \in 0 .. 2 * RingLen - 1 : c = r + (k + n) - 1
    BY <1>1
  <2>3. PICK a \in 0 .. 2 * RingLen - 1 : a = q + k - 1
    BY <1>1, <1>4
  <2>4. Wrap(a) = Wrap(c)
    <3>1. CASE r + n < RingLen
      BY <1>4, <2>2, <2>3, <3>1
    <3>2. CASE r + n >= RingLen
      <4>1. a < RingLen /\ c >= RingLen /\ a = c - RingLen
        BY <1>1, <1>4, <2>2, <2>3, <3>2
      <4> QED
        BY <4>1, WrapType
    <3> QED
      BY <3>1, <3>2
  <2> QED
    BY <1>1, <2>1, <2>2, <2>3, <2>4
<1> QED
  BY <1>2, <1>3, <1>5, <1>6 DEF InRing

\* An event that is no packet comes or goes, or the stream is reset.
LEMMA OtherEventSamples ==
  ASSUME Types, Types', Flow, Samples,
         \/ BusReset \/ HostTakes \/ (\E s \in Stream : HostSelects(s))
         \/ AudioDataIn \/ AudioSetup
  PROVE  Samples'
<1> SUFFICES ASSUME ~torn', at' # "init" PROVE Samples'
  BY DEF Samples
<1>1. /\ UNCHANGED <<wr, rd, cells, app, total, last, torn, at>>
      /\ at # "idle" => seen' = seen
      /\ recvAt' \in {recvAt, NoBuffer}
  BY DEF BusReset, HostTakes, HostSelects, AudioDataIn, AudioSetup, SetInterface, Handles,
         Returned, ring, control, callback, history
<1>2. PICK r \in 0 .. RingLen - 1, b \in Nat, u \in Nat : Holds(r, b, u)
  BY <1>1, SamplesHold
<1>3. ASSUME at = "idle"
      PROVE  \A i \in 1 .. Len(ev') : ev'[i].type = "out" => \E j \in 1 .. Len(ev) : ev[j] = ev'[i]
  <2>1. CASE BusReset \/ HostTakes \/ \E s \in Stream : HostSelects(s)
    <3>1. ev' = ev \/ \E e \in EventType : ev' = Append(ev, e) /\ e.type # "out"
      <4>1. /\ Event("init", "out", 0) \in EventType /\ Event("in", "in", 0) \in EventType
            /\ \A s \in Stream : Event("select", s, 1 - hostAlt[s]) \in EventType
        <5>1. \A s \in Stream : hostAlt[s] \in {0, 1}
          BY DEF Types
        <5>2. \A s \in Stream : 1 - hostAlt[s] \in 0 .. EpSize
          BY <5>1
        <5> QED
          BY <5>2 DEF Event, EventType, Stream
      <4>2. /\ Event("init", "out", 0).type # "out" /\ Event("in", "in", 0).type # "out"
            /\ \A s \in Stream : Event("select", s, 1 - hostAlt[s]).type # "out"
        BY DEF Event
      <4> QED
        BY <2>1, <4>1, <4>2 DEF BusReset, HostTakes, HostSelects, Queued, Reported
    <3>2. CASE ev' = ev
      BY <3>2
    <3>3. ASSUME NEW e \in EventType, ev' = Append(ev, e), e.type # "out"
          PROVE  \A i \in 1 .. Len(ev') :
                   ev'[i].type = "out" => \E j \in 1 .. Len(ev) : ev[j] = ev'[i]
      <4>1. /\ Len(ev) \in Nat /\ Len(ev') = Len(ev) + 1 /\ ev'[Len(ev) + 1] = e
            /\ \A i \in 1 .. Len(ev) : ev'[i] = ev[i]
        <5>1. Len(ev) \in Nat
          BY DEF Types, EvTyped
        <5> QED
          BY <3>3, <5>1, Appended
      <4>2. \A i \in 1 .. Len(ev') : i = Len(ev) + 1 \/ i \in 1 .. Len(ev)
        BY <4>1
      <4> QED
        BY <3>3, <4>1, <4>2
    <3> QED
      BY <3>1, <3>2, <3>3
  <2>2. CASE AudioDataIn \/ AudioSetup
    <3>1. ev # <<>> /\ ev' = Tail(ev)
      BY <2>2 DEF AudioDataIn, AudioSetup, Handles, AtWork, Returned
    <3>2. /\ Len(ev) \in Nat /\ Len(ev') = Len(ev) - 1
          /\ \A i \in 1 .. Len(ev') : ev'[i] = ev[i + 1]
      BY <3>1, Handled
    <3>3. \A i \in 1 .. Len(ev') : i + 1 \in 1 .. Len(ev)
      BY <3>2
    <3> QED
      BY <3>1, <3>2, <3>3
  <2> QED
    BY <2>1, <2>2
<1>4. Follow(r, b, u)
  BY <1>2 DEF Holds
<1>5. (IF at = "wrap" THEN InLine(r, b, u) ELSE InRing(r, b, u))'
  BY <1>1, <1>4 DEF Follow, InLine, InRing
<1>6. Sent(b, u)'
  <2>1. recvAt' # NoBuffer \/ at' \in OutStep => total' = b + u
    BY <1>1, <1>4 DEF Follow, Sent
  <2>2. ASSUME at = "idle", NEW i \in 1 .. Len(ev'), Out(i)'
        PROVE  /\ total = b + u + ev'[i].n
               /\ \A k \in 1 .. ev'[i].n : cells[wr + k - 1] = b + u + k
    <3>1. PICK j \in 1 .. Len(ev) : ev[j] = ev'[i]
      BY <1>3, <2>2 DEF Out
    <3>2. Out(j)
      BY <2>2, <3>1 DEF Out
    <3> QED
      BY <1>4, <2>2, <3>1, <3>2 DEF Follow, Sent
  <2> QED
    BY <1>1, <2>1, <2>2 DEF Sent
<1>7. Taken(b, u)' /\ Room(r, u)' /\ Past'
  <2>1. Past
    BY <1>2 DEF Holds
  <2> QED
    BY <1>1, <1>4, <2>1 DEF Follow, Taken, Room, Past
<1>8. Follow(r, b, u)'
  BY <1>5, <1>6, <1>7 DEF Follow
<1>9. rd' \in {r, r + RingLen}
  BY <1>1, <1>2 DEF Holds
<1> QED
  BY <1>7, <1>8, <1>9, SamplesKept

LEMMA HostSendsSamples ==
  ASSUME Types, Types', Flow, Samples, NEW n \in PacketSizes, HostSends(n)
  PROVE  Samples'
<1> SUFFICES ASSUME ~torn' PROVE Samples'
  BY DEF Samples
<1>1. /\ UNCHANGED <<wr, rd, at, seen, app, last, torn>> /\ total' = total + n
      /\ recvAt # NoBuffer /\ recvAt' = NoBuffer /\ n \in 1 .. EpSize
      /\ ev' = Append(ev, Event("out", "out", n)) \/ ev' = ev
      /\ cells' = [p \in DOMAIN cells |-> IF p \in recvAt .. recvAt + n - 1
                                          THEN total + 1 + p - recvAt ELSE cells[p]]
      /\ hostAlt["out"] = 1
  BY DEF HostSends, Uses, Reported, Queued, callback
<1>2. ~Waiting("out") /\ ~Waiting("init") /\ "out" \in Stream
  BY <1>1 DEF Flow, Prepared, InitQuiet, Stream
<1>3. at = "idle"
  <2>1. at # "idle" => ev # <<>> /\ (ev[1].type = "out" \/ ev[1].type = "init")
    BY DEF Flow, Working, Types, Out
  <2>2. ev # <<>> => 1 \in 1 .. Len(ev)
    BY SomeEvent
  <2> QED
    BY <1>2, <2>1, <2>2, WaitingAt
<1>4. PICK r \in 0 .. RingLen - 1, b \in Nat, u \in Nat : Holds(r, b, u)
  BY <1>1, <1>3, SamplesHold
<1>5. /\ DOMAIN cells = 0 .. RingLen + EpSize - 1 /\ total \in Nat /\ wr \in 0 .. RingLen - 1
      /\ Follow(r, b, u) /\ Past /\ rd \in {r, r + RingLen}
  BY <1>3, <1>4 DEF Holds
<1>6. /\ recvAt = wr /\ u \in 0 .. RingLen - 1 /\ (r > wr => r - wr >= EpSize)
      /\ r + u \in {wr, wr + RingLen} /\ total = b + u
      /\ \A k \in 1 .. u : cells[Wrap(r + k - 1)] = b + k
  BY <1>1, <1>3, <1>5 DEF Follow, Room, InRing, Sent
<1>7. ASSUME NEW k \in 1 .. u PROVE cells'[Wrap(r + k - 1)] = b + k
  <2>1. Wrap(r + k - 1) \in 0 .. RingLen - 1 /\ Wrap(r + k - 1) \notin wr .. wr + EpSize - 1
    BY <1>5, <1>6, UnreadPlace
  <2>2. Wrap(r + k - 1) \in DOMAIN cells /\ Wrap(r + k - 1) \notin wr .. wr + n - 1
    BY <1>1, <1>5, <2>1
  <2> QED
    BY <1>1, <1>6, <2>2
<1>8. ASSUME NEW k \in 1 .. n PROVE cells'[wr + k - 1] = b + u + k
  <2>1. wr + k - 1 \in DOMAIN cells /\ wr + k - 1 \in wr .. wr + n - 1
    BY <1>1, <1>5
  <2>2. total + 1 + (wr + k - 1) - wr = total + k
    BY <1>5
  <2> QED
    BY <1>1, <1>6, <2>1, <2>2
<1>9. ASSUME NEW i \in 1 .. Len(ev'), Out(i)'
      PROVE  /\ total' = b + u + ev'[i].n
             /\ \A k \in 1 .. ev'[i].n : cells'[wr + k - 1] = b + u + k
  <2>1. \A j \in 1 .. Len(ev) : ~Out(j)
    BY <1>2, WaitingAt DEF Out
  <2>2. CASE ev' = ev
    BY <1>9, <2>1, <2>2 DEF Out
  <2>3. CASE ev' = Append(ev, Event("out", "out", n))
    <3>1. PICK e \in EventType : e = Event("out", "out", n) /\ e.n = n
      BY <1>1 DEF Event, EventType, Stream
    <3>2. /\ Len(ev) \in Nat /\ Len(ev') = Len(ev) + 1 /\ ev'[Len(ev) + 1] = e
          /\ \A j \in 1 .. Len(ev) : ev'[j] = ev[j]
      <4>1. Len(ev) \in Nat /\ ev' = Append(ev, e)
        BY <2>3, <3>1 DEF Types, EvTyped
      <4> QED
        BY <4>1, Appended
    <3>3. i = Len(ev) + 1
      BY <1>9, <2>1, <3>2 DEF Out
    <3>4. ev'[i].n = n
      BY <3>1, <3>2, <3>3
    <3> QED
      BY <1>1, <1>6, <1>8, <3>4
  <2> QED
    BY <1>1, <2>2, <2>3
<1>10. Follow(r, b, u)'
  <2>1. InRing(r, b, u)'
    <3>1. u <= RingLen /\ r + u \in {wr', wr' + RingLen}
      BY <1>1, <1>6
    <3> QED
      BY <1>7, <3>1 DEF InRing
  <2>2. Sent(b, u)'
    BY <1>1, <1>3, <1>9 DEF Sent, OutStep
  <2>3. Taken(b, u)' /\ Room(r, u)'
    BY <1>1, <1>3, <1>5, <1>6 DEF Follow, Taken, Room
  <2> QED
    BY <1>1, <1>3, <2>1, <2>2, <2>3 DEF Follow
<1>11. Past' /\ rd' \in {r, r + RingLen}
  BY <1>1, <1>3, <1>5 DEF Past
<1> QED
  BY <1>10, <1>11, SamplesKept

LEMMA AudioInitSamples ==
  ASSUME Types, Types', Flow, Samples, InitStart \/ InitFinish
  PROVE  Samples'
<1> SUFFICES ASSUME ~torn', at' # "init" PROVE Samples'
  BY DEF Samples
<1>1. /\ at = "init" /\ at' = "idle" /\ rd' = 0 /\ wr' = wr /\ app' = app /\ app = NoCall
      /\ total' = 0 /\ last' = 0
      /\ (recvAt' = 0 \/ (started /\ recvAt' = recvAt))
      /\ ev' = Tail(ev)
  <2>1. InitFinish
    BY DEF InitStart
  <2>2. torn' = (app # NoCall \/ ~started')
    BY <2>1 DEF InitFinish
  <2>3. app = NoCall /\ started'
    BY <2>2
  <2> QED
    BY <2>1, <2>3 DEF InitFinish, Returned
<1>2. ev # <<>> /\ ev[1].type = "init" /\ wr = 0
  BY <1>1 DEF Flow, Working
<1>3. /\ Len(ev) \in Nat \ {0} /\ Len(ev') = Len(ev) - 1
      /\ \A i \in 1 .. Len(ev') : ev'[i] = ev[i + 1]
      /\ \A i \in 1 .. Len(ev) : ev[i].type = "init"
  BY <1>1, <1>2, Handled, QueueShrinks DEF Flow
<1>4. \A i \in 1 .. Len(ev') : ~Out(i)'
  <2>1. \A i \in 1 .. Len(ev') : i + 1 \in 1 .. Len(ev)
    BY <1>3
  <2> QED
    BY <1>3, <2>1 DEF Out
<1>5. recvAt' = 0
  <2>1. Waiting("init")
    <3>1. 1 \in 1 .. Len(ev)
      BY <1>3
    <3> QED
      BY <1>3, <3>1, WaitingAt
  <2> QED
    BY <1>1, <2>1 DEF Flow, InitQuiet
<1>6. app'.use = "idle"
  BY <1>1 DEF NoCall
<1>7. Follow(0, 0, 0)'
  <2>1. InRing(0, 0, 0)'
    BY <1>1, <1>2 DEF InRing
  <2>2. Sent(0, 0)' /\ Taken(0, 0)' /\ Room(0, 0)'
    BY <1>1, <1>2, <1>4, <1>5, <1>6 DEF Sent, Taken, Room, OutStep
  <2> QED
    BY <1>1, <2>1, <2>2 DEF Follow
<1>8. Past' /\ rd' \in {0, 0 + RingLen} /\ 0 \in 0 .. RingLen - 1 /\ 0 \in Nat
  BY <1>1 DEF Past
<1> QED
  BY <1>7, <1>8, SamplesKept

-----------------------------------------------------------------------------
(***************************************************************************)
(* The steps of UsbdAudioCbDataOut.                                        *)
(***************************************************************************)
LEMMA AdvanceSamples ==
  ASSUME Types, Types', Flow, Samples, OutAdvance
  PROVE  Samples'
<1> SUFFICES ASSUME ~torn' PROVE Samples'
  BY DEF Samples
<1>1. /\ UNCHANGED <<rd, cells, recvAt, ev, seen, app, total, last, torn>>
      /\ at = "idle" /\ ev # <<>> /\ Head(ev).type = "out" /\ wr' = wr + Head(ev).n
      /\ at' = (IF wr' >= RingLen THEN "wrap" ELSE "test")
  BY DEF OutAdvance, Handles, AtWork, control, history
<1>2. PICK r \in 0 .. RingLen - 1, b \in Nat, u \in Nat : Holds(r, b, u)
  BY <1>1, SamplesHold
<1>3. /\ wr \in 0 .. RingLen - 1 /\ rd \in {r, r + RingLen} /\ Follow(r, b, u) /\ Past
      /\ total \in Nat
  BY <1>1, <1>2 DEF Holds
<1>4. Head(ev) = ev[1] /\ 1 \in 1 .. Len(ev) /\ ev[1] \in EventType /\ Out(1) /\ Waiting("out")
  <2>1. ev \in Seq(EventType)
    BY DEF Types, EvTyped
  <2>2. Head(ev) = ev[1] /\ 1 \in 1 .. Len(ev) /\ ev[1] \in EventType
    BY <1>1, <2>1
  <2> QED
    BY <1>1, <2>2, WaitingAt DEF Out
<1>5. PICK n \in 1 .. EpSize : n = ev[1].n
  BY <1>4 DEF EventType, Flow, Queue, Sizes
<1>6. /\ total = b + u + n /\ \A k \in 1 .. n : cells[wr + k - 1] = b + u + k
      /\ u < RingLen /\ (r > wr => r - wr >= EpSize) /\ r + u \in {wr, wr + RingLen}
      /\ \A k \in 1 .. u : cells[Wrap(r + k - 1)] = b + k
  BY <1>1, <1>3, <1>4, <1>5 DEF Follow, Sent, Room, InRing
<1>7. recvAt = NoBuffer
  BY <1>4 DEF Flow, Prepared
<1>8. PICK w \in 0 .. RingLen + EpSize - 1 : w = wr' /\ w = wr + n
  BY <1>1, <1>3, <1>4, <1>5
<1>9. PICK v \in Nat : v = u + n
  OBVIOUS
\* The samples of the packet lie behind the others.
<1>10. ASSUME NEW k \in 1 .. v, r + k - 1 < RingLen \/ w >= RingLen, r + u = wr
       PROVE  cells[r + k - 1] = b + k
  <2>1. CASE k \in 1 .. u
    <3>1. r + k - 1 \in 0 .. RingLen - 1
      BY <1>3, <1>10, <2>1
    <3>2. Wrap(r + k - 1) = r + k - 1
      BY <3>1, WrapType
    <3> QED
      BY <1>6, <2>1, <3>2
  <2>2. CASE k \notin 1 .. u
    <3>1. PICK m \in 1 .. n : k = u + m
      <4>1. k - u \in 1 .. n /\ k = u + (k - u)
        BY <1>9, <2>2
      <4> QED
        BY <4>1
    <3>2. r + k - 1 = wr + m - 1 /\ b + u + m = b + k
      BY <1>3, <1>10, <3>1
    <3> QED
      BY <1>6, <3>1, <3>2
  <2> QED
    BY <2>1, <2>2
<1>11. ASSUME w >= RingLen PROVE at' = "wrap" /\ InLine(r, b, v)'
  <2>1. r + u = wr
    BY <1>3, <1>5, <1>6, <1>8, <1>11
  <2>2. w - v = r
    BY <1>3, <1>8, <1>9, <2>1
  <2>3. InLine(r, b, v)'
    <3>1. ASSUME NEW k \in 1 .. v PROVE cells'[wr' - v + k - 1] = b + k
      <4>1. wr' - v + k - 1 = r + k - 1
        BY <1>8, <2>2
      <4> QED
        BY <1>1, <1>10, <1>11, <2>1, <4>1
    <3> QED
      BY <1>8, <2>2, <3>1 DEF InLine
  <2>4. at' = "wrap"
    BY <1>1, <1>8, <1>11
  <2> QED
    BY <2>3, <2>4
<1>12. ASSUME w < RingLen PROVE at' # "wrap" /\ InRing(r, b, v)'
  <2>1. v <= RingLen /\ r + v \in {w, w + RingLen}
    <3>1. CASE r + u = wr
      BY <1>3, <1>8, <1>9, <1>12, <3>1
    <3>2. CASE r + u = wr + RingLen
      <4>1. r > wr /\ n <= r - wr
        BY <1>3, <1>5, <1>6, <3>2
      <4> QED
        BY <1>3, <1>8, <1>9, <3>2, <4>1
    <3> QED
      BY <1>6, <3>1, <3>2
  <2>2. ASSUME NEW k \in 1 .. v PROVE cells[Wrap(r + k - 1)] = b + k
    <3>0. PICK a \in 0 .. 2 * RingLen - 1 : a = r + k - 1
      BY <2>1
    <3>1. CASE k \in 1 .. u
      BY <1>6, <3>1
    <3>2. CASE k \notin 1 .. u /\ r + u = wr
      <4>1. a < RingLen
        BY <1>3, <1>8, <1>9, <1>12, <3>0, <3>2
      <4>2. Wrap(a) = a
        BY <4>1, WrapType
      <4> QED
        BY <1>10, <3>0, <3>2, <4>1, <4>2
    <3>3. CASE k \notin 1 .. u /\ r + u = wr + RingLen
      <4>1. PICK m \in 1 .. n : k = u + m
        <5>1. k - u \in 1 .. n /\ k = u + (k - u)
          BY <1>9, <3>3
        <5> QED
          BY <5>1
      <4>2. a >= RingLen /\ a - RingLen = wr + m - 1
        BY <1>3, <3>0, <3>3, <4>1
      <4>3. Wrap(a) = wr + m - 1
        BY <4>2, WrapType
      <4>4. b + u + m = b + k
        BY <4>1
      <4> QED
        BY <1>6, <3>0, <4>1, <4>3, <4>4
    <3> QED
      BY <1>6, <3>1, <3>2, <3>3
  <2>3. InRing(r, b, v)' /\ at' = "test"
    BY <1>1, <1>8, <1>12, <2>1, <2>2 DEF InRing
  <2> QED
    BY <2>3
<1>13. Sent(b, v)'
  <2>1. total' = b + v
    BY <1>1, <1>6, <1>9
  <2> QED
    BY <1>1, <2>1 DEF Sent
<1>14. Taken(b, v)'
  <2>1. v # 0 /\ (app.use \in {"held", "add"} => app.n <= u /\ app.n \in Nat)
    BY <1>3, <1>9, CallFields DEF Follow, Taken
  <2>2. app.use \in {"held", "add"} => app.n <= v
    BY <1>9, <2>1
  <2> QED
    BY <1>1, <1>3, <2>1, <2>2 DEF Follow, Taken
<1>15. Room(r, v)' /\ Past'
  BY <1>1, <1>3, <1>7 DEF Room, Past
<1>16. Follow(r, b, v)'
  <2>1. (at' = "wrap" /\ InLine(r, b, v)') \/ (at' # "wrap" /\ InRing(r, b, v)')
    BY <1>1, <1>8, <1>11, <1>12
  <2> QED
    BY <1>13, <1>14, <1>15, <2>1 DEF Follow
<1> QED
  BY <1>1, <1>3, <1>15, <1>16, SamplesKept

\* The packet is copied: the samples in a line are in the ring again, and where
\* they are more than the ring holds, a whole ring of them is gone.
InRingAgain(r, b, u, v, lost) ==
  /\ u - lost \in 0 .. RingLen /\ r + (u - lost) \in {v, v + RingLen}
  /\ lost > 0 => u - lost > 0
  /\ \A k \in 1 .. u - lost : Copied[Wrap(r + k - 1)] = (b + lost) + k

LEMMA CopiedRing ==
  ASSUME NEW r \in 0 .. RingLen - 1, NEW b \in Nat, NEW u \in Nat,
         wr \in RingLen .. RingLen + EpSize - 1, DOMAIN cells = 0 .. RingLen + EpSize - 1,
         InLine(r, b, u),
         NEW v \in 0 .. EpSize - 1, v = wr - RingLen,
         NEW lost \in {0, RingLen}, lost = (IF wr - r > RingLen /\ wr - u = r THEN RingLen ELSE 0)
  PROVE  InRingAgain(r, b, u, v, lost)
<1>1. /\ wr - u \in {r, r + RingLen}
      /\ \A k \in 1 .. u : cells[wr - u + k - 1] = b + k
  BY DEF InLine
<1>2. \A p \in 0 .. RingLen - 1 :
        Copied[p] = IF p < v THEN cells[RingLen + p] ELSE cells[p]
  <2>1. \A p \in 0 .. RingLen - 1 : p \in DOMAIN cells /\ ~(p >= RingLen)
    OBVIOUS
  <2> QED
    BY <2>1 DEF Copied
<1>3. /\ u - lost \in 0 .. RingLen /\ r + (u - lost) \in {v, v + RingLen}
      /\ lost > 0 => u - lost > 0
  BY <1>1
<1>4. ASSUME NEW k \in 1 .. u - lost PROVE Copied[Wrap(r + k - 1)] = (b + lost) + k
  <2>1. PICK a \in 0 .. 2 * RingLen - 1 : a = r + k - 1
    BY <1>3
  <2>2. PICK m \in 1 .. u : m = k + lost /\ b + m = (b + lost) + k
    BY <1>3
  <2>3. cells[wr - u + m - 1] = (b + lost) + k
    BY <1>1, <2>2
  <2>4. CASE wr - u = r + RingLen
    <3>1. lost = 0 /\ a < v /\ RingLen + a = wr - u + m - 1 /\ a \in 0 .. RingLen - 1
      BY <1>1, <2>1, <2>2, <2>4
    <3>2. Wrap(a) = a
      BY <3>1, WrapType
    <3> QED
      BY <1>2, <2>1, <2>3, <3>1, <3>2
  <2>5. CASE wr - u = r /\ lost = 0
    <3>1. r >= v
      BY <1>1, <2>5
    <3>2. CASE a < RingLen
      <4>1. a = wr - u + m - 1 /\ ~(a < v) /\ Wrap(a) = a
        BY <2>1, <2>2, <2>5, <3>1, <3>2, WrapType
      <4> QED
        BY <1>2, <2>1, <2>3, <3>2, <4>1
    <3>3. CASE a >= RingLen
      <4>1. PICK p \in 0 .. RingLen - 1 : p = a - RingLen
        BY <3>3
      <4>2. p < v /\ RingLen + p = wr - u + m - 1 /\ Wrap(a) = p
        BY <2>1, <2>2, <2>5, <3>3, <4>1, WrapType
      <4> QED
        BY <1>2, <2>1, <2>3, <4>1, <4>2
    <3> QED
      BY <3>2, <3>3
  <2>6. CASE wr - u = r /\ lost = RingLen
    <3>1. a < v /\ RingLen + a = wr - u + m - 1 /\ a \in 0 .. RingLen - 1
      BY <1>3, <2>1, <2>2, <2>6
    <3>2. Wrap(a) = a
      BY <3>1, WrapType
    <3> QED
      BY <1>2, <2>1, <2>3, <3>1, <3>2
  <2> QED
    BY <1>1, <2>4, <2>5, <2>6
<1>5. \A k \in 1 .. u - lost : Copied[Wrap(r + k - 1)] = (b + lost) + k
  BY <1>4
<1> QED
  BY <1>3, <1>5 DEF InRingAgain

LEMMA WrapSamples ==
  ASSUME Types, Types', Flow, Samples, OutWrap
  PROVE  Samples'
<1> SUFFICES ASSUME ~torn' PROVE Samples'
  BY DEF Samples
<1>1. /\ UNCHANGED <<rd, recvAt, ev, seen, app, total, last>>
      /\ at = "wrap" /\ at' = "test" /\ wr' = wr - RingLen /\ cells' = Copied
      /\ ~torn /\ (app.use \in {"held", "add"} => ~(wr - rd > RingLen))
  BY DEF OutWrap, control
<1>2. PICK r \in 0 .. RingLen - 1, b \in Nat, u \in Nat : Holds(r, b, u)
  BY <1>1, SamplesHold
<1>3. /\ wr \in RingLen .. RingLen + EpSize - 1 /\ rd \in {r, r + RingLen}
      /\ DOMAIN cells = 0 .. RingLen + EpSize - 1 /\ Follow(r, b, u) /\ Past
  BY <1>1, <1>2 DEF Holds
<1>4. PICK v \in 0 .. EpSize - 1 : v = wr - RingLen
  BY <1>3
<1>5. PICK lost \in {0, RingLen} :
        lost = (IF wr - r > RingLen /\ wr - u = r THEN RingLen ELSE 0)
  OBVIOUS
<1>6. InLine(r, b, u)
  BY <1>1, <1>3 DEF Follow
<1>7. /\ u - lost \in 0 .. RingLen /\ r + (u - lost) \in {v, v + RingLen}
      /\ lost > 0 => u - lost > 0
      /\ \A k \in 1 .. u - lost : Copied[Wrap(r + k - 1)] = (b + lost) + k
  <2>1. InRingAgain(r, b, u, v, lost)
    BY <1>3, <1>4, <1>5, <1>6, CopiedRing
  <2> QED
    BY <2>1 DEF InRingAgain
<1>8. PICK c \in Nat, x \in Nat : c = b + lost /\ x = u - lost
  BY <1>7
<1>9. InRing(r, c, x)'
  <2>1. x <= RingLen /\ r + x \in {wr', wr' + RingLen}
    BY <1>1, <1>4, <1>7, <1>8
  <2>2. \A k \in 1 .. x : cells'[Wrap(r + k - 1)] = c + k
    BY <1>1, <1>7, <1>8
  <2> QED
    BY <2>1, <2>2 DEF InRing
<1>10. Sent(c, x)'
  <2>1. total = b + u /\ b + u = c + x
    BY <1>1, <1>3, <1>7, <1>8 DEF Follow, Sent, OutStep
  <2> QED
    BY <1>1, <2>1 DEF Sent
<1>11. Taken(c, x)'
  <2>0. Taken(b, u) /\ last \in Nat
    BY <1>2, <1>3 DEF Follow, Holds
  <2>1. CASE lost = 0
    <3>1. c = b /\ x = u
      BY <1>8, <2>1
    <3> QED
      BY <1>1, <2>0, <3>1 DEF Taken
  <2>2. CASE lost > 0
    <3>1. x > 0 /\ last <= c
      BY <1>7, <1>8, <2>0, <2>2 DEF Taken
    <3>2. app.use \notin {"held", "add"}
      <4>1. app.use \in {"held", "add"} => rd = r
        BY <1>1, <1>3 DEF Past
      <4>2. wr - r > RingLen
        BY <1>5, <2>2
      <4> QED
        BY <1>1, <4>1, <4>2
    <3> QED
      BY <1>1, <2>0, <3>1, <3>2 DEF Taken
  <2> QED
    BY <1>5, <2>1, <2>2
<1>12. Room(r, x)' /\ Past'
  <2>1. recvAt = NoBuffer
    <3>1. Waiting("out")
      <4>1. ev # <<>> /\ Out(1)
        BY <1>1 DEF Flow, Working, OutStep
      <4>2. 1 \in 1 .. Len(ev)
        BY <4>1, SomeEvent
      <4> QED
        BY <4>1, <4>2, WaitingAt DEF Out
    <3> QED
      BY <3>1 DEF Flow, Prepared
  <2> QED
    BY <1>1, <1>3, <2>1 DEF Room, Past
<1>13. Follow(r, c, x)'
  BY <1>1, <1>9, <1>10, <1>11, <1>12 DEF Follow
<1>14. rd' \in {r, r + RingLen}
  BY <1>1, <1>3
<1> QED
  BY <1>12, <1>13, <1>14, SamplesKept

\* An event that is a packet has left the queue.
LEMMA NoPacket ==
  ASSUME Types, Types', Flow, at \in OutStep, ev' = Tail(ev)
  PROVE  ev # <<>> /\ \A i \in 1 .. Len(ev') : ~Out(i)'
<1>1. ev # <<>> /\ ev[1].type = "out"
  BY DEF Flow, Working, Out
<1>2. ~Waiting("out")'
  BY <1>1, QueueShrinks DEF Flow
<1> QED
  BY <1>1, <1>2, WaitingAt DEF Out

LEMMA RoomSamples ==
  ASSUME Types, Types', Flow, Samples, OutRoom
  PROVE  Samples'
<1> SUFFICES ASSUME ~torn' PROVE Samples'
  BY DEF Samples
<1>1. /\ UNCHANGED <<wr, rd, cells, app, total, last>>
      /\ at = "test" /\ at' = "idle" /\ recvAt' = wr /\ ev' = Tail(ev)
      /\ Empty >= EpSize
      /\ ~torn /\ ~(rd >= RingLen /\ Wrap(rd) - wr \in 0 .. EpSize - 1 /\ ~Emptied)
  BY DEF OutRoom, Prepare, Returned, ring
<1>2. PICK r \in 0 .. RingLen - 1, b \in Nat, u \in Nat : Holds(r, b, u)
  BY <1>1, SamplesHold
<1>3. /\ wr \in 0 .. RingLen - 1 /\ rd \in {r, r + RingLen} /\ Follow(r, b, u) /\ Past
      /\ total \in Nat /\ last \in Nat
  BY <1>1, <1>2 DEF Holds
<1>4. /\ InRing(r, b, u) /\ total = b + u /\ last <= b
  BY <1>1, <1>3 DEF Follow, Sent, Taken, OutStep
<1>5. u <= RingLen /\ r + u \in {wr, wr + RingLen}
  BY <1>4 DEF InRing
<1>6. u < RingLen /\ (r > wr => r - wr >= EpSize)
  <2>1. CASE rd = r
    <3>1. ~(wr > r) => r - wr >= EpSize
      BY <1>1, <2>1 DEF Empty
    <3> QED
      BY <1>3, <1>5, <3>1
  <2>2. CASE rd = r + RingLen
    <3>1. Wrap(rd) = r
      BY <2>2 DEF Wrap, Wrapped
    <3>2. CASE Emptied
      <4>1. u = 0
        BY <1>3, <1>4, <3>2 DEF Emptied
      <4> QED
        BY <1>3, <1>5, <4>1
    <3>3. CASE ~Emptied
      <4>1. r - wr \notin 0 .. EpSize - 1
        BY <1>1, <2>2, <3>1, <3>3
      <4> QED
        BY <1>3, <1>5, <4>1
    <3> QED
      BY <3>2, <3>3
  <2> QED
    BY <1>3, <2>1, <2>2
<1>7. InRing(r, b, u)'
  BY <1>1, <1>4 DEF InRing
<1>8. Sent(b, u)'
  <2>1. \A i \in 1 .. Len(ev') : ~Out(i)'
    BY <1>1, NoPacket DEF OutStep
  <2> QED
    BY <1>1, <1>4, <2>1 DEF Sent
<1>9. Taken(b, u)' /\ Room(r, u)' /\ Past'
  BY <1>1, <1>3, <1>6 DEF Follow, Taken, Room, Past
<1>10. Follow(r, b, u)'
  BY <1>1, <1>7, <1>8, <1>9 DEF Follow
<1>11. rd' \in {r, r + RingLen}
  BY <1>1, <1>3
<1> QED
  BY <1>9, <1>10, <1>11, SamplesKept

LEMMA OverrunSamples ==
  ASSUME Types, Types', Flow, Samples, OutOverrun
  PROVE  Samples'
<1> SUFFICES ASSUME ~torn' PROVE Samples'
  BY DEF Samples
<1>1. /\ UNCHANGED <<wr, rd, cells, recvAt, ev, app, total, last, torn>>
      /\ at = "test" /\ at' = "flush" /\ seen' = rd /\ Empty < EpSize
  BY DEF OutOverrun, ring, control, history
<1>2. PICK r \in 0 .. RingLen - 1, b \in Nat, u \in Nat : Holds(r, b, u)
  BY <1>1, SamplesHold
<1>3. wr \in 0 .. RingLen - 1 /\ rd \in {r, r + RingLen} /\ Follow(r, b, u) /\ Past
  BY <1>1, <1>2 DEF Holds
<1>4. rd >= wr /\ rd - wr < EpSize
  BY <1>1, <1>3 DEF Empty
<1>5. InRing(r, b, u)'
  BY <1>1, <1>3 DEF Follow, InRing
<1>6. Sent(b, u)' /\ Taken(b, u)' /\ Room(r, u)' /\ Past'
  BY <1>1, <1>3, <1>4 DEF Follow, Sent, Taken, Room, Past, OutStep
<1>7. Follow(r, b, u)'
  BY <1>1, <1>5, <1>6 DEF Follow
<1>8. rd' \in {r, r + RingLen}
  BY <1>1, <1>3
<1> QED
  BY <1>6, <1>7, <1>8, SamplesKept

\* The callback has moved rd past the oldest packet, and has it in a register
\* until it is wrapped.
LEMMA FlushSamples ==
  ASSUME Types, Types', Flow, Samples, OutFlush
  PROVE  Samples'
<1> SUFFICES ASSUME ~torn' PROVE Samples'
  BY DEF Samples
<1>1. /\ UNCHANGED <<wr, cells, recvAt, ev, app, total, last>>
      /\ at = "flush" /\ at' = "unwrap" /\ seen' = rd'
      /\ ~torn /\ app = NoCall /\ rd = seen /\ ~Emptied
  BY DEF OutFlush, control
<1>2. rd' = rd + EpSize
  BY <1>1 DEF OutFlush, Flushed
<1>3. PICK r \in 0 .. RingLen - 1, b \in Nat, u \in Nat : Holds(r, b, u)
  BY <1>1, SamplesHold
<1>4. /\ wr \in 0 .. RingLen - 1 /\ Follow(r, b, u) /\ Past
      /\ rd \in {r, r + RingLen} /\ total \in Nat /\ last \in Nat
  BY <1>1, <1>3 DEF Holds
<1>5. rd = r /\ app.use = "idle"
  BY <1>1, <1>4 DEF Past, NoCall
<1>6. /\ InRing(r, b, u) /\ total = b + u /\ last <= b /\ (u = 0 => last = b)
      /\ recvAt \in {NoBuffer, wr} /\ r >= wr /\ r - wr < EpSize
  BY <1>1, <1>4, <1>5 DEF Follow, Sent, Taken, Room, OutStep
<1>7. u # 0 /\ u <= RingLen /\ r + u \in {wr, wr + RingLen}
  BY <1>1, <1>4, <1>6 DEF Emptied, InRing
<1>8. r + u = wr + RingLen /\ EpSize \in 0 .. u
  BY <1>4, <1>6, <1>7
<1>9. r + EpSize \in 0 .. 2 * RingLen - 1 /\ InRing(Wrap(r + EpSize), b + EpSize, u - EpSize)
  BY <1>4, <1>6, <1>8, FirstTaken
<1>10. PICK q \in 0 .. RingLen - 1 : q = Wrap(r + EpSize)
  BY <1>9, WrapType
<1>11. \/ r + EpSize < RingLen /\ q = r + EpSize
       \/ r + EpSize >= RingLen /\ q = r + EpSize - RingLen
  BY <1>9, <1>10, WrapType
<1>12. PICK c \in Nat, x \in Nat : c = b + EpSize /\ x = u - EpSize
  BY <1>8
<1>13. InRing(q, c, x)'
  <2>1. InRing(q, c, x)
    BY <1>9, <1>10, <1>12
  <2> QED
    BY <1>1, <2>1 DEF InRing
<1>14. Sent(c, x)'
  <2>1. total = c + x
    BY <1>6, <1>8, <1>12
  <2> QED
    BY <1>1, <2>1 DEF Sent
<1>15. Taken(c, x)'
  <2>1. last <= c
    BY <1>4, <1>6, <1>12
  <2> QED
    BY <1>1, <1>5, <2>1 DEF Taken
<1>16. Room(q, x)'
  <2>1. x < RingLen /\ (q > wr => q - wr >= EpSize)
    BY <1>4, <1>6, <1>7, <1>11, <1>12
  <2> QED
    BY <1>1, <1>6, <2>1 DEF Room
<1>17. Past' /\ rd' \in {q, q + RingLen}
  <2>1. rd' \in {q, q + RingLen}
    BY <1>2, <1>5, <1>11
  <2> QED
    BY <1>1, <1>5, <2>1 DEF Past
<1>18. Follow(q, c, x)'
  BY <1>1, <1>13, <1>14, <1>15, <1>16 DEF Follow
<1> QED
  BY <1>17, <1>18, SamplesKept

\* The callback wraps rd, when it moved it past the end, and is done.
LEMMA UnwrapSamples ==
  ASSUME Types, Types', Flow, Samples, OutUnwrap
  PROVE  Samples'
<1> SUFFICES ASSUME ~torn' PROVE Samples'
  BY DEF Samples
<1>1. /\ UNCHANGED <<wr, cells, app, total, last>>
      /\ at = "unwrap" /\ at' = "idle" /\ recvAt' = wr /\ ev' = Tail(ev)
      /\ ~torn /\ (rd' # rd => app = NoCall)
  BY DEF OutUnwrap, Prepare, Returned
<1>2. PICK r \in 0 .. RingLen - 1, b \in Nat, u \in Nat : Holds(r, b, u)
  BY <1>1, SamplesHold
<1>3. /\ wr \in 0 .. RingLen - 1 /\ rd \in {r, r + RingLen} /\ Follow(r, b, u) /\ Past
      /\ seen \in Nat
  BY <1>1, <1>2 DEF Holds, Types
<1>4. rd' \in {r, r + RingLen} /\ (rd' < RingLen \/ app.use = "wrap")
  <2>1. PICK v \in {seen, rd} : rd' = Wrapped(v, rd)
    BY DEF OutUnwrap
  <2>2. CASE v >= RingLen
    <3>1. v = rd /\ rd' = rd - RingLen
      BY <1>1, <1>3, <2>1, <2>2 DEF Past, Wrapped
    <3> QED
      BY <1>3, <2>2, <3>1
  <2>3. CASE ~(v >= RingLen)
    <3>1. rd' = rd
      BY <2>1, <2>3 DEF Wrapped
    <3>2. rd < RingLen \/ app.use = "wrap"
      BY <1>1, <1>3, <2>1, <2>3 DEF Past
    <3> QED
      BY <1>3, <3>1, <3>2
  <2> QED
    BY <2>2, <2>3
<1>5. app.use \in {"ptr", "add", "wrap"} => rd' = rd
  BY <1>1 DEF NoCall
<1>6. /\ InRing(r, b, u) /\ total = b + u /\ Taken(b, u)
      /\ u < RingLen /\ (r > wr => r - wr >= EpSize)
  BY <1>1, <1>3 DEF Follow, Sent, Room, OutStep
<1>7. InRing(r, b, u)'
  BY <1>1, <1>6 DEF InRing
<1>8. Sent(b, u)'
  <2>1. \A i \in 1 .. Len(ev') : ~Out(i)'
    BY <1>1, NoPacket DEF OutStep
  <2> QED
    BY <1>1, <1>6, <2>1 DEF Sent
<1>9. Taken(b, u)' /\ Room(r, u)' /\ Past'
  BY <1>1, <1>4, <1>5, <1>6 DEF Taken, Room, Past
<1>10. Follow(r, b, u)'
  BY <1>1, <1>7, <1>8, <1>9 DEF Follow
<1> QED
  BY <1>4, <1>9, <1>10, SamplesKept

-----------------------------------------------------------------------------
(***************************************************************************)
(* The steps of the application.                                           *)
(***************************************************************************)
\* What all of them leave alone.
LEMMA AppLeaves ==
  ASSUME Types, App
  PROVE  UNCHANGED <<wr, cells, recvAt, ev, at, seen, total>> /\ (~torn' => ~torn)
<1>1. UNCHANGED <<wr, cells, recvAt, ev, at, seen, total>>
  BY DEF App, GetPointer, GetSize, GetNothing, AddLoad, AddStore, AddWrap, ring, control,
         callback, history
<1>2. torn' = torn \/ torn' = (torn \/ wr - rd >= RingLen)
  BY DEF App, GetPointer, GetSize, GetNothing, AddLoad, AddStore, AddWrap, history
<1>3. torn => torn'
  BY <1>2 DEF Types
<1> QED
  BY <1>1, <1>3

\* They leave the samples where they are, as long as they do not move rd.
LEMMA StillSent ==
  ASSUME NEW r \in 0 .. RingLen - 1, NEW b \in Nat, NEW u \in Nat, Types, Follow(r, b, u), App
  PROVE  (IF at = "wrap" THEN InLine(r, b, u) ELSE InRing(r, b, u))' /\ Sent(b, u)' /\ Room(r, u)'
<1>1. UNCHANGED <<wr, cells, recvAt, ev, at, seen, total>>
  BY AppLeaves
<1>2. (IF at = "wrap" THEN InLine(r, b, u) ELSE InRing(r, b, u)) /\ Sent(b, u) /\ Room(r, u)
  BY DEF Follow
<1>3. (IF at = "wrap" THEN InLine(r, b, u) ELSE InRing(r, b, u))'
  BY <1>1, <1>2 DEF InLine, InRing
<1>4. Sent(b, u)'
  BY <1>1, <1>2 DEF Sent, Out
<1>5. Room(r, u)'
  BY <1>1, <1>2 DEF Room
<1> QED
  BY <1>3, <1>4, <1>5

LEMMA CallSamples ==
  ASSUME Types, Types', Samples, GetPointer \/ GetNothing \/ AddLoad
  PROVE  Samples'
<1> SUFFICES ASSUME ~torn', at' # "init" PROVE Samples'
  BY DEF Samples
<1>1. App
  BY DEF App
<1>2. UNCHANGED <<wr, rd, cells, at, seen, last>> /\ ~torn
  BY <1>1, AppLeaves DEF GetPointer, GetNothing, AddLoad, ring, callback, history
<1>3. PICK r \in 0 .. RingLen - 1, b \in Nat, u \in Nat : Holds(r, b, u)
  BY <1>2, SamplesHold
<1>4. /\ rd \in {r, r + RingLen} /\ Follow(r, b, u) /\ Past /\ app \in CallType
  BY <1>3 DEF Holds, Types
<1>5. \/ app.use = "idle" /\ app'.use = "ptr" /\ app'.pos = rd
      \/ app.use = "ptr" /\ app'.use = "idle"
      \/ app.use = "held" /\ app'.use = "add" /\ app'.pos = rd /\ app'.n = app.n
         /\ app'.upto = app.upto
  <2>1. CASE GetPointer
    BY <2>1 DEF GetPointer, NoCall
  <2>2. CASE GetNothing
    BY <2>2 DEF GetNothing, NoCall
  <2>3. CASE AddLoad
    <3>1. app' = [app EXCEPT !.use = "add", !.pos = rd] /\ app.use = "held"
      BY <2>3 DEF AddLoad
    <3>2. app \in [use : {"idle", "ptr", "held", "add", "wrap"}, pos : Nat,
                  n : 0 .. Piece, upto : 0 .. MaxTotal]
      BY <1>4 DEF CallType
    <3> QED
      BY <3>1, <3>2
  <2> QED
    BY <2>1, <2>2, <2>3
<1>6. Taken(b, u)' /\ Past'
  BY <1>2, <1>4, <1>5 DEF Follow, Taken, Past
<1>7. Follow(r, b, u)'
  BY <1>1, <1>4, <1>6, StillSent DEF Follow
<1>8. rd' \in {r, r + RingLen}
  BY <1>2, <1>4
<1> QED
  BY <1>6, <1>7, <1>8, SamplesKept

\* What the application takes is the first of the samples.
LEMMA SizeSamples ==
  ASSUME Types, Types', Samples, NEW k \in 1 .. Piece, GetSize(k)
  PROVE  Samples'
<1> SUFFICES ASSUME ~torn', at' # "init" PROVE Samples'
  BY DEF Samples
<1>1. App
  BY DEF App
<1>2. /\ UNCHANGED <<wr, rd, cells, at, seen, last>> /\ ~torn /\ ~(wr - rd >= RingLen)
      /\ app.use = "ptr" /\ k <= Unread /\ \A sz \in PieceSizes : k <= sz
      /\ app'.use = "held" /\ app'.n = k /\ app'.upto = Cell(app.pos + k - 1)
  BY <1>1, AppLeaves DEF GetSize, MayTake, ring, callback
<1>3. PICK r \in 0 .. RingLen - 1, b \in Nat, u \in Nat : Holds(r, b, u)
  BY <1>2, SamplesHold
<1>4. /\ rd \in {r, r + RingLen} /\ Follow(r, b, u) /\ Past
      /\ wr \in 0 .. RingLen + EpSize - 1 /\ (at = "wrap" <=> wr >= RingLen)
      /\ DOMAIN cells = 0 .. RingLen + EpSize - 1
  BY <1>3 DEF Holds
<1>5. app.pos = rd
  BY <1>2, <1>4 DEF Follow, Taken
<1>6. rd = r
  <2>1. CASE rd >= RingLen
    <3>1. wr < RingLen
      BY <1>2, <1>4, <2>1 DEF Past
    <3>2. wr - rd < 0
      BY <1>4, <2>1, <3>1
    <3>3. PieceSizes = {RingLen - rd}
      BY <3>2 DEF PieceSizes
    <3> QED
      BY <1>2, <1>4, <2>1, <3>3
  <2> QED
    BY <1>4, <2>1
<1>7. k <= u /\ Cell(r + k - 1) = b + k
  <2>1. CASE at = "wrap"
    <3>0. InLine(r, b, u)
      BY <1>4, <2>1 DEF Follow
    <3>1. wr - u = r /\ \A j \in 1 .. u : cells[wr - u + j - 1] = b + j
      <4>1. wr - u \in {r, r + RingLen} /\ \A j \in 1 .. u : cells[wr - u + j - 1] = b + j
        BY <3>0 DEF InLine
      <4>2. wr - r < RingLen
        BY <1>2, <1>4, <1>6
      <4>3. wr - u = r
        BY <1>4, <4>1, <4>2
      <4> QED
        BY <4>1, <4>3
    <3>2. k \in 1 .. u
      BY <1>2, <1>4, <1>6, <2>1, <3>1 DEF Unread
    <3>3. wr - u + k - 1 = r + k - 1 /\ r + k - 1 \in DOMAIN cells
      BY <1>4, <3>1, <3>2
    <3>4. cells[r + k - 1] = b + k
      BY <3>1, <3>2, <3>3
    <3> QED
      BY <3>2, <3>3, <3>4 DEF Cell
  <2>2. CASE at # "wrap"
    <3>0. InRing(r, b, u)
      BY <1>4, <2>2 DEF Follow
    <3>1. /\ r + u \in {wr, wr + RingLen} /\ wr < RingLen
          /\ \A j \in 1 .. u : cells[Wrap(r + j - 1)] = b + j
      <4>1. wr < RingLen
        BY <1>4, <2>2
      <4> QED
        BY <3>0, <4>1 DEF InRing
    <3>2. k \in 1 .. u /\ r + k - 1 \in 0 .. RingLen - 1
      <4>1. CASE wr - r < 0
        <5>1. k <= wr - r + RingLen /\ k <= RingLen - r
          BY <1>2, <1>6, <4>1 DEF Unread, PieceSizes
        <5> QED
          BY <1>4, <3>1, <4>1, <5>1
      <4>2. CASE ~(wr - r < 0)
        <5>1. k <= wr - r
          BY <1>2, <1>6, <4>2 DEF Unread
        <5> QED
          BY <1>4, <3>1, <4>2, <5>1
      <4> QED
        BY <4>1, <4>2
    <3>3. Wrap(r + k - 1) = r + k - 1 /\ r + k - 1 \in DOMAIN cells
      BY <1>4, <3>2, WrapType
    <3>4. cells[r + k - 1] = b + k
      BY <3>1, <3>2, <3>3
    <3> QED
      BY <3>2, <3>3, <3>4 DEF Cell
  <2> QED
    BY <2>1, <2>2
<1>8. Taken(b, u)' /\ Past'
  <2>1. Taken(b, u)'
    BY <1>2, <1>4, <1>5, <1>6, <1>7 DEF Follow, Taken
  <2>2. Past'
    BY <1>2, <1>4, <1>6 DEF Past
  <2> QED
    BY <2>1, <2>2
<1>9. Follow(r, b, u)'
  BY <1>1, <1>4, <1>8, StillSent DEF Follow
<1>10. rd' \in {r, r + RingLen}
  BY <1>2, <1>4
<1> QED
  BY <1>8, <1>9, <1>10, SamplesKept

\* The application moves rd past what it took, which may be past the end.
LEMMA StoreSamples ==
  ASSUME Types, Types', Samples, AddStore
  PROVE  Samples'
<1> SUFFICES ASSUME ~torn', at' # "init" PROVE Samples'
  BY DEF Samples
<1>1. App
  BY DEF App
<1>2. /\ UNCHANGED <<wr, cells, recvAt, ev, at, seen, total>> /\ ~torn
      /\ app.use = "add" /\ rd' = app.pos + app.n /\ last' = app.upto
      /\ app'.use = "wrap" /\ app'.pos = rd'
  BY <1>1, AppLeaves DEF AddStore, NoCall
<1>3. PICK r \in 0 .. RingLen - 1, b \in Nat, u \in Nat : Holds(r, b, u)
  BY <1>2, SamplesHold
<1>4. /\ rd \in {r, r + RingLen} /\ Follow(r, b, u) /\ Past
      /\ wr \in 0 .. RingLen + EpSize - 1 /\ (at = "wrap" <=> wr >= RingLen)
  BY <1>3 DEF Holds
<1>5. rd = r /\ ~(at = "unwrap" /\ seen >= RingLen)
  <2>1. rd < RingLen
    BY <1>2, <1>4 DEF Past
  <2> QED
    BY <1>2, <1>4, <2>1 DEF Past
<1>6. /\ app.pos = r /\ app.n <= u /\ app.upto = b + app.n /\ app.n \in Nat
      /\ Sent(b, u) /\ Room(r, u)
  BY <1>2, <1>4, <1>5, CallFields DEF Follow, Taken
<1>7. PICK n \in 0 .. u : n = app.n
  BY <1>6
<1>8. PICK c \in Nat, x \in Nat : c = b + n /\ x = u - n
  OBVIOUS
<1>9. PICK q \in 0 .. RingLen - 1 :
        /\ r + n \in {q, q + RingLen}
        /\ (IF at = "wrap" THEN InLine(q, c, x) ELSE InRing(q, c, x))
  <2>1. CASE at = "wrap"
    <3>1. wr - u \in {r, r + RingLen} /\ \A j \in 1 .. u : cells[wr - u + j - 1] = b + j
      BY <1>4, <2>1 DEF Follow, InLine
    <3>2. r + n \in 0 .. 2 * RingLen - 1
      BY <1>4, <3>1
    <3>3. PICK q \in 0 .. RingLen - 1 : q = Wrap(r + n)
      BY <3>2, WrapType
    <3>4. (r + n < RingLen /\ q = r + n) \/ (r + n >= RingLen /\ q = r + n - RingLen)
      BY <3>2, <3>3, WrapType
    <3>5. wr - x \in {q, q + RingLen}
      BY <1>4, <1>8, <3>1, <3>4
    <3>6. ASSUME NEW j \in 1 .. x PROVE cells[wr - x + j - 1] = c + j
      <4>1. PICK m \in 1 .. u : m = j + n /\ wr - x + j - 1 = wr - u + m - 1 /\ b + m = c + j
        BY <1>4, <1>8
      <4> QED
        BY <3>1, <4>1
    <3>7. InLine(q, c, x)
      BY <3>5, <3>6 DEF InLine
    <3>8. r + n \in {q, q + RingLen}
      BY <3>4
    <3> QED
      BY <2>1, <3>7, <3>8
  <2>2. CASE at # "wrap"
    <3>1. InRing(r, b, u) /\ wr \in 0 .. RingLen - 1
      BY <1>4, <2>2 DEF Follow
    <3>2. r + n \in 0 .. 2 * RingLen - 1 /\ InRing(Wrap(r + n), c, x)
      BY <1>8, <3>1, FirstTaken
    <3>3. PICK q \in 0 .. RingLen - 1 : q = Wrap(r + n)
      BY <3>2, WrapType
    <3>4. r + n \in {q, q + RingLen}
      BY <3>2, <3>3, WrapType
    <3> QED
      BY <2>2, <3>2, <3>3, <3>4
  <2> QED
    BY <2>1, <2>2
<1>10. (IF at = "wrap" THEN InLine(q, c, x) ELSE InRing(q, c, x))'
  BY <1>2, <1>9 DEF InLine, InRing
<1>11. Sent(c, x)'
  <2>1. c + x = b + u
    BY <1>8
  <2> QED
    BY <1>2, <1>6, <2>1 DEF Sent, Out
<1>12. Taken(c, x)'
  <2>1. last' = c /\ c <= c
    BY <1>2, <1>6, <1>7, <1>8
  <2> QED
    BY <1>2, <2>1 DEF Taken
<1>13. Room(q, x)'
  <2>1. ASSUME at \in {"idle", "unwrap"}
        PROVE  x < RingLen /\ (q > wr => q - wr >= EpSize)
    <3>1. u < RingLen /\ (r > wr => r - wr >= EpSize) /\ r + u \in {wr, wr + RingLen}
      BY <1>4, <1>6, <2>1 DEF Room, Follow, InRing
    <3> QED
      BY <1>4, <1>8, <1>9, <2>1, <3>1
  <2> QED
    BY <1>2, <1>6, <2>1 DEF Room
<1>14. Past' /\ rd' \in {q, q + RingLen}
  <2>1. rd' \in {q, q + RingLen}
    BY <1>2, <1>6, <1>7, <1>9
  <2> QED
    BY <1>2, <1>5, <2>1 DEF Past
<1>15. Follow(q, c, x)'
  BY <1>10, <1>11, <1>12, <1>13 DEF Follow
<1> QED
  BY <1>14, <1>15, SamplesKept

\* And wraps it.
LEMMA AddWrapSamples ==
  ASSUME Types, Types', Samples, AddWrap
  PROVE  Samples'
<1> SUFFICES ASSUME ~torn', at' # "init" PROVE Samples'
  BY DEF Samples
<1>1. App
  BY DEF App
<1>2. /\ UNCHANGED <<wr, cells, at, seen, last>> /\ ~torn
      /\ app.use = "wrap" /\ app'.use = "idle"
  BY <1>1, AppLeaves DEF AddWrap, NoCall, callback, history
<1>3. PICK r \in 0 .. RingLen - 1, b \in Nat, u \in Nat : Holds(r, b, u)
  BY <1>2, SamplesHold
<1>4. rd \in {r, r + RingLen} /\ Follow(r, b, u) /\ Past
  BY <1>3 DEF Holds
<1>5. app.pos = rd
  BY <1>2, <1>4 DEF Follow, Taken
<1>6. rd' = r
  <2>1. rd' = Wrapped(rd, rd)
    BY <1>5 DEF AddWrap
  <2> QED
    BY <1>4, <2>1 DEF Wrapped
<1>7. Taken(b, u)' /\ Past'
  BY <1>2, <1>4, <1>6 DEF Follow, Taken, Past
<1>8. Follow(r, b, u)'
  BY <1>1, <1>4, <1>7, StillSent DEF Follow
<1>9. rd' \in {r, r + RingLen}
  BY <1>6
<1> QED
  BY <1>7, <1>8, <1>9, SamplesKept

-----------------------------------------------------------------------------
(***************************************************************************)
(* The invariant.                                                          *)
(***************************************************************************)
LEMMA AudioInvKept == AudioInv /\ [Next]_vars => AudioInv'
<1> SUFFICES ASSUME AudioInv, [Next]_vars PROVE AudioInv'
  OBVIOUS
<1>1. Types /\ Flow /\ Samples /\ Sizes /\ Working
  BY DEF AudioInv, Flow, Queue
<1>2. Types' /\ Flow'
  BY <1>1, TypesKept, FlowKept
<1>3. Samples'
  <2>1. CASE UNCHANGED vars
    <3> SUFFICES ASSUME ~torn', at' # "init" PROVE Samples'
      BY DEF Samples
    <3>1. UNCHANGED <<wr, rd, cells, recvAt, ev, at, seen, app, total, last, torn>>
      BY <2>1 DEF vars, ring, control, callback, history
    <3>2. PICK r \in 0 .. RingLen - 1, b \in Nat, u \in Nat : Holds(r, b, u)
      BY <1>1, <3>1, SamplesHold
    <3>3. Follow(r, b, u) /\ Past /\ rd \in {r, r + RingLen}
      BY <3>2 DEF Holds
    <3>4. Sent(b, u)' /\ Taken(b, u)' /\ Room(r, u)' /\ Past'
      BY <3>1, <3>3 DEF Follow, Sent, Out, Taken, Room, Past
    <3>5. (IF at = "wrap" THEN InLine(r, b, u) ELSE InRing(r, b, u))'
      BY <3>1, <3>3 DEF Follow, InLine, InRing
    <3>6. Follow(r, b, u)' /\ rd' \in {r, r + RingLen}
      BY <3>1, <3>3, <3>4, <3>5 DEF Follow
    <3> QED
      BY <1>2, <3>4, <3>6, SamplesKept
  <2>2. CASE InitStart \/ InitFinish
    BY <1>1, <1>2, <2>2, AudioInitSamples
  <2>3. CASE AudioDataOut
    BY <1>1, <1>2, <2>3, AdvanceSamples, WrapSamples, RoomSamples, OverrunSamples,
       FlushSamples, UnwrapSamples DEF AudioDataOut
  <2>4. CASE AudioDataIn \/ AudioSetup
    BY <1>1, <1>2, <2>4, OtherEventSamples
  <2>5. CASE App
    BY <1>1, <1>2, <2>5, CallSamples, SizeSamples, StoreSamples, AddWrapSamples DEF App
  <2>6. CASE Host
    BY <1>1, <1>2, <2>6, HostSendsSamples, OtherEventSamples DEF Host
  <2> QED
    BY <2>1, <2>2, <2>3, <2>4, <2>5, <2>6 DEF Next, Class
<1> QED
  BY <1>2, <1>3 DEF AudioInv

LEMMA AudioInitially == Init => AudioInv
<1> SUFFICES ASSUME Init PROVE AudioInv
  OBVIOUS
<1>1. /\ wr = 0 /\ rd = 0 /\ cells = Silence
      /\ alt = Zero /\ recvAt = NoBuffer /\ opened = Closed /\ inFly = FALSE
      /\ ev = <<Event("init", "out", 0)>> /\ at = "idle" /\ seen = 0
      /\ hostAlt = Zero /\ app = NoCall
      /\ total = 0 /\ last = 0 /\ torn = FALSE /\ dropped = {}
      /\ started = FALSE /\ resets = 0
  BY DEF Init
<1>2. Event("init", "out", 0) \in EventType /\ Event("init", "out", 0).type = "init"
  BY DEF Event, EventType, Stream
<1>3. ev \in Seq(EventType) /\ Len(ev) = 1 /\ ev[1].type = "init"
  BY <1>1, <1>2
<1>4. app \in CallType /\ app.use = "idle"
  BY <1>1 DEF NoCall, CallType
<1>5. Types
  <2>1. EvTyped
    BY <1>3 DEF EvTyped
  <2>2. cells \in [0 .. RingLen + EpSize - 1 -> 0 .. MaxTotal]
    BY <1>1 DEF Silence
  <2>3. /\ alt \in [Stream -> {0, 1}] /\ hostAlt \in [Stream -> {0, 1}]
        /\ opened \in [Stream -> BOOLEAN]
    BY <1>1 DEF Zero, Closed
  <2>4. /\ wr \in 0 .. RingLen + EpSize - 1 /\ ~(wr >= RingLen)
        /\ rd \in Nat /\ resets \in 0 .. MaxReset
        /\ total \in 0 .. MaxTotal /\ last \in 0 .. MaxTotal
    BY <1>1
  <2> QED
    BY <1>1, <1>4, <2>1, <2>2, <2>3, <2>4 DEF Types
<1>6. ~Waiting("out")
  BY <1>3, <1>5, WaitingAt
<1>7. Flow
  <2>1. Queue
    BY <1>3 DEF Queue, Sizes, InitsLast, OneOut, Out
  <2>2. Working
    BY <1>1 DEF Working, OutStep
  <2> QED
    BY <1>1, <2>1, <2>2 DEF Flow, Prepared, InitQuiet, Reception, InStream, Zero, Closed, Stream
<1>8. Samples
  <2>1. InRing(0, 0, 0)
    BY <1>1 DEF InRing
  <2>2. \A i \in 1 .. Len(ev) : ~Out(i)
    BY <1>3 DEF Out
  <2>3. Sent(0, 0) /\ Taken(0, 0) /\ Room(0, 0) /\ Past
    BY <1>1, <1>4, <2>2 DEF Sent, Taken, Room, Past, OutStep
  <2>4. Follow(0, 0, 0)
    BY <1>1, <2>1, <2>3 DEF Follow
  <2>5. rd \in {0, 0 + RingLen} /\ 0 \in 0 .. RingLen - 1 /\ 0 \in Nat
    BY <1>1
  <2> QED
    BY <2>3, <2>4, <2>5 DEF Samples
<1> QED
  BY <1>5, <1>7, <1>8 DEF AudioInv

\* The invariant holds through every store of the two contexts, and every packet,
\* request, lost event and bus reset.
THEOREM AudioInvariant == Spec => []AudioInv
<1>1. Init => AudioInv
  BY AudioInitially
<1>2. AudioInv /\ [Next]_vars => AudioInv'
  BY AudioInvKept
<1> QED
  BY <1>1, <1>2, PTL DEF Spec

-----------------------------------------------------------------------------
(***************************************************************************)
(* The theorems.                                                           *)
(***************************************************************************)
\* Positions stay in the ring or, until wrapped, within a packet behind it, and
\* every buffer handed to the controller lies within the memory Init allocated
\* (usbdaudio.c, UsbdAudioCbDataOut).  The read position: while no harmful race
\* ("torn") has happened.
THEOREM AudioTypes == Spec => []TypeOK
<1>1. AudioInv => TypeOK
  <2> SUFFICES ASSUME Types, Samples PROVE TypeOK
    BY DEF AudioInv
  <2>1. recvAt = NoBuffer \/ recvAt .. recvAt + EpSize - 1 \subseteq DOMAIN cells
    <3>1. CASE recvAt \in 0 .. RingLen - 1
      <4>1. DOMAIN cells = 0 .. RingLen + EpSize - 1
        BY DEF Types
      <4> QED
        BY <3>1, <4>1
    <3> QED
      BY <3>1 DEF Types
  <2>2. ~torn /\ app.use # "wrap" /\ at \notin {"init", "unwrap"} => rd < RingLen
    BY DEF Samples, Past
  <2>3. at # "wrap" => wr < RingLen
    BY DEF Types
  <2> QED
    BY <2>1, <2>2, <2>3 DEF Types, EvTyped, CallType, OutStep, TypeOK
<1> QED
  BY <1>1, AudioInvariant, PTL

\* Where a call made now finds the samples: it is offered all of them, or none
\* when the ring is full.
Offers(b, u) ==
  /\ Unread = u \/ (Unread = 0 /\ wr = rd)
  /\ \A k \in 1 .. u : Nth(k) = b + k
  /\ Taken(b, u) /\ last \in Nat /\ Unread <= u

LEMMA CallFinds ==
  ASSUME Types, Samples, ~torn, Readable
  PROVE  \E b \in Nat, u \in Nat : Offers(b, u)
<1>1. PICK r \in 0 .. RingLen - 1, b \in Nat, u \in Nat : Holds(r, b, u)
  BY SamplesHold DEF Readable
<1>2. /\ rd \in {r, r + RingLen} /\ Follow(r, b, u) /\ last \in Nat
      /\ wr \in 0 .. RingLen + EpSize - 1 /\ (at = "wrap" <=> wr >= RingLen)
      /\ DOMAIN cells = 0 .. RingLen + EpSize - 1
  BY <1>1 DEF Holds
<1>3. rd = r /\ wr - r < RingLen
  BY <1>2 DEF Readable
<1>4. CASE at = "wrap"
  <2>1. InLine(r, b, u)
    BY <1>2, <1>4 DEF Follow
  <2>2. wr - u \in {r, r + RingLen} /\ \A j \in 1 .. u : cells[wr - u + j - 1] = b + j
    BY <2>1 DEF InLine
  <2>3. wr - u = r /\ wr >= RingLen
    BY <1>2, <1>3, <1>4, <2>2
  <2>4. Unread = u
    BY <1>2, <1>3, <2>3 DEF Unread
  <2>5. ASSUME NEW k \in 1 .. u PROVE Nth(k) = b + k
    <3>1. r + k - 1 \in DOMAIN cells /\ wr - u + k - 1 = r + k - 1
      BY <1>2, <2>3
    <3>2. cells[r + k - 1] = b + k
      BY <2>2, <3>1
    <3> QED
      BY <1>3, <2>3, <3>1, <3>2 DEF Nth, Cell
  <2> QED
    BY <1>2, <2>4, <2>5 DEF Follow, Offers
<1>5. CASE at # "wrap"
  <2>1. InRing(r, b, u)
    BY <1>2, <1>5 DEF Follow
  <2>2. /\ u <= RingLen /\ r + u \in {wr, wr + RingLen} /\ wr < RingLen
        /\ \A j \in 1 .. u : cells[Wrap(r + j - 1)] = b + j
    <3>1. wr < RingLen
      BY <1>2, <1>5
    <3> QED
      BY <2>1, <3>1 DEF InRing
  <2>3. (Unread = u \/ (Unread = 0 /\ wr = rd)) /\ Unread <= u
    <3>1. CASE wr - r < 0
      BY <1>2, <1>3, <2>2, <3>1 DEF Unread
    <3>2. CASE ~(wr - r < 0)
      <4>1. Unread = wr - r
        BY <1>3, <3>2 DEF Unread
      <4> QED
        BY <1>2, <1>3, <2>2, <3>2, <4>1
    <3> QED
      BY <3>1, <3>2
  <2>4. ASSUME NEW k \in 1 .. u PROVE Nth(k) = b + k
    <3>1. PICK a \in 0 .. 2 * RingLen - 1 : a = r + k - 1
      BY <2>2
    <3>2. Wrap(a) \in DOMAIN cells
      BY <1>2, WrapType
    <3>3. cells[Wrap(a)] = b + k
      BY <2>2, <3>1
    <3>4. ~(wr >= RingLen) /\ a = rd + k - 1
      BY <1>2, <1>3, <1>5, <3>1
    <3> QED
      BY <3>2, <3>3, <3>4 DEF Nth, Cell
  <2> QED
    BY <1>2, <2>3, <2>4 DEF Follow, Offers
<1> QED
  BY <1>4, <1>5

\* What the application is offered is the host's stream in order and without a
\* hole, whatever packets, wraps, copies and flushes come between, and whatever
\* store of the two contexts the call comes after (UsbdAudioCbDataOut against
\* UsbdAudioGetRecvPointer) -- but for the harmful races "torn" records and a
\* call made while one position alone has been wrapped.
THEOREM SamplesInOrder == Spec => []OfferedInOrder
<1>1. AudioInv => OfferedInOrder
  <2> SUFFICES ASSUME Types, Samples, ~torn, Readable
               PROVE  /\ \A i \in 1 .. Unread - 1 : Nth(i + 1) = Nth(i) + 1
                      /\ Unread > 0 => Nth(1) > last
    BY DEF AudioInv, OfferedInOrder
  <2>1. PICK b \in Nat, u \in Nat : Offers(b, u)
    BY CallFinds
  <2>2. Unread \in {0, u} /\ last \in Nat /\ last <= b /\ \A k \in 1 .. u : Nth(k) = b + k
    BY <2>1 DEF Offers, Taken
  <2>3. ASSUME NEW i \in 1 .. Unread - 1 PROVE Nth(i + 1) = Nth(i) + 1
    <3>1. i \in 1 .. u /\ i + 1 \in 1 .. u
      BY <2>2
    <3>2. Nth(i) = b + i /\ Nth(i + 1) = b + (i + 1)
      BY <2>2, <3>1
    <3> QED
      BY <3>2
  <2>4. ASSUME Unread > 0 PROVE Nth(1) > last
    <3>1. 1 \in 1 .. u
      BY <2>2, <2>4
    <3>2. Nth(1) = b + 1
      BY <2>2, <3>1
    <3> QED
      BY <2>2, <3>2
  <2> QED
    BY <2>3, <2>4
<1> QED
  BY <1>1, AudioInvariant, PTL

\* Between the application's two calls no store of the callback moves the read
\* position away from what it was handed (UsbdAudioAddRecvPointer) -- but for
\* the same races.
THEOREM HandedMatches == Spec => []HandedIsNext
<1>1. AudioInv => HandedIsNext
  <2> SUFFICES ASSUME Types, Samples, ~torn, Readable, app.use \in {"held", "add"}
               PROVE  (app.n <= Unread \/ wr = rd) /\ Nth(app.n) = app.upto
    BY DEF AudioInv, HandedIsNext
  <2>1. PICK b \in Nat, u \in Nat : Offers(b, u)
    BY CallFinds
  <2>2. app.n \in 1 .. u /\ app.upto = b + app.n
    BY <2>1, CallFields DEF Offers, Taken
  <2> QED
    BY <2>1, <2>2 DEF Offers
<1> QED
  BY <1>1, AudioInvariant, PTL

\* In a session whose Init succeeded the controller has a buffer or the
\* callback is about to give it one (UsbdAudioCbDataOut), unless the core lost
\* the packet's event.
THEOREM AudioReceptionGoesOn == Spec => []ReceptionGoesOn
<1>1. AudioInv => ReceptionGoesOn
  BY DEF AudioInv, Flow, Reception, ReceptionGoesOn
<1> QED
  BY <1>1, AudioInvariant, PTL

\* An open IN endpoint never falls silent (UsbdAudioCbDataIn and
\* UsbdAudioStandardSetInterface), unless the core lost its event.
THEOREM AudioInGoesOn == Spec => []InStreamGoesOn
<1>1. AudioInv => InStreamGoesOn
  BY DEF AudioInv, Flow, InStream, InStreamGoesOn
<1> QED
  BY <1>1, AudioInvariant, PTL

=============================================================================
