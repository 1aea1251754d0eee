---------------------------- MODULE UsbdFeedback ----------------------------
(***************************************************************************)
(* The clock feedback of the audio class: the start of frame capture of    *)
(* usbdcore.c measures every frame with a free-running timer, the SOF      *)
(* callback of usbdaudio.c keeps the sum of the last deviations in a       *)
(* window and sends it to the host now and then, and SET_INTERFACE opens   *)
(* and closes the endpoint it is sent on.                                  *)
(*                                                                         *)
(* SOF interrupts come at any time, also in the middle of an Init by the   *)
(* core's task, which clears the window but not the sum.  The widths of    *)
(* the timer and of the frame counter are parameters.                      *)
(*                                                                         *)
(* Events wait in the queue of the core (usbdcore.c) in the order they     *)
(* happened; one that finds it full, of packets of any class, is dropped.  *)
(***************************************************************************)
EXTENDS Integers, Sequences, Functions

CONSTANTS TimerMod,     \* the timer counts down modulo this (2^32)
          Nominal,      \* ticks of a nominal frame (196608)
          Least,        \* a difference up to this is not taken (100000)
          Limit,        \* a deviation from this on is not taken (20)
          ListLen,      \* SOF_LIST_LEN
          Every,        \* frames between two transfers (250)
          CountMod,     \* modulus of the static counter (2^32)
          Deviations,   \* of the frames that really occur
          MaxEv,        \* bound: events waiting for the class
          MaxInit       \* bound: initialisations after the first

ASSUME FeedbackAssumption ==
  /\ {TimerMod, Nominal, Least, Limit, ListLen, Every, CountMod} \subseteq Nat \ {0}
  /\ MaxEv \in Nat /\ MaxInit \in Nat /\ Deviations \subseteq Int
  /\ Least <= Nominal - Limit /\ 2 * (Nominal + Limit) <= TimerMod
  /\ 2 * Limit <= Nominal
  /\ 2 * (Every + 1) < CountMod /\ CountMod % 2 = 0
  /\ \A d \in Deviations : Nominal - Limit <= Nominal + d /\ 2 * (Nominal + d) <= TimerMod

Interface == {"ctrl", "out", "in"}          \* ifCtrl, ifOut, ifIn
Number == [ctrl |-> 0, out |-> 1, in |-> 2]  \* control is the device's first
Alternates == [x \in Interface |-> IF x = "ctrl" THEN {0} ELSE {0, 1}]
Event(type, x, val) == [type |-> type, x |-> x, val |-> val]
Window == 0 .. ListLen - 1

VARIABLES
  timer,        \* CCR4, the timer at the last start of frame
  cntSofPrev,   \* static in UsbdevSofEntry
  accSof, bufSof, posSof,
  i,            \* static in UsbdAudioCbSof: frames since the last transfer
  alt,          \* altCtrl, altOut, altIn
  fbOpen,       \* the feedback endpoint is open
  fbFly,        \* a transfer is in progress on it
  cleared,      \* cells the memset of a running Init has cleared; 0: none runs
  ev,           \* events on their way to the class, oldest first
  hostAlt,      \* the alternates the host selected, <<>> if not in this session
  win,          \* (history) the true deviations of the frames in the window
  drift,        \* (history) deviations cleared from the window, not from the sum
  inits         \* initialisations after the first

capture == <<timer, cntSofPrev>>
sum     == <<accSof, bufSof, posSof>>
vars    == <<capture, sum, i, alt, fbOpen, fbFly, cleared, ev, hostAlt, win, drift, inits>>

\* The state after the first enumeration, the timer where it happens to be.
Init ==
  /\ timer \in 0 .. TimerMod - 1 /\ cntSofPrev = timer
  /\ accSof = 0 /\ bufSof = [k \in Window |-> 0] /\ posSof = 0 /\ i = 0
  /\ alt = [x \in Interface |-> 0] /\ fbOpen = FALSE /\ fbFly = FALSE
  /\ cleared = 0 /\ ev = <<>> /\ hostAlt = [x \in Interface |-> <<>>]
  /\ win = [k \in Window |-> 0] /\ drift = 0 /\ inits = 0

-----------------------------------------------------------------------------
(***************************************************************************)
(* Start of frame.                                                         *)
(***************************************************************************)
\* A number stored in a signed integer of this width.
SignedNot(x, mod) == x % mod                                    \* mutant
Signed(x, mod) == IF x % mod < mod \div 2 THEN x % mod ELSE (x % mod) - mod

\* UsbdevSofEntry: the deviation it makes of two captures.
Abs(x) == IF x < 0 THEN -x ELSE x
DiffSofPlain(prev, val) ==                                      \* mutant
  LET diff == prev - val
  IN  IF diff > Least /\ Abs(diff - Nominal) < Limit THEN diff - Nominal ELSE 0
DiffSof(prev, val) ==
  LET diff == Signed(prev - val, TimerMod)
  IN  IF diff > Least /\ Abs(diff - Nominal) < Limit THEN diff - Nominal ELSE 0

SumSofKeeps(diff) ==                                            \* mutant
  /\ accSof' = accSof + diff
  /\ bufSof' = [bufSof EXCEPT ![posSof] = diff]
  /\ posSof' = (posSof + 1) % ListLen
SumSof(diff) ==
  /\ accSof' = accSof + diff - bufSof[posSof]
  /\ bufSof' = [bufSof EXCEPT ![posSof] = diff]
  /\ posSof' = (posSof + 1) % ListLen

SendFeedbackCtrl ==                                             \* mutant
  IF alt["ctrl"] # 0 /\ i > Every
  THEN i' = 1 /\ fbFly' = (fbFly \/ fbOpen)
  ELSE i' = Signed(i + 1, CountMod) /\ UNCHANGED fbFly
\* While the OUT stream is on, every so many frames; a transfer on a closed
\* endpoint has no effect.  The counter runs on while the stream is off.
SendFeedback ==
  IF alt["out"] # 0 /\ i > Every
  THEN i' = 1 /\ fbFly' = (fbFly \/ fbOpen)
  ELSE i' = Signed(i + 1, CountMod) /\ UNCHANGED fbFly

\* A frame of d ticks more than nominal, or two of them when the interrupt in
\* between was missed.
Ticks(d, missed) == IF missed THEN 2 * Nominal + d ELSE Nominal + d

\* UsbdevSofEntry, UsbifCbSof and UsbdAudioCbSof, in the interrupt.
Sof(d, missed) ==
  /\ timer' = (timer - Ticks(d, missed)) % TimerMod
  /\ cntSofPrev' = timer'
  /\ SumSof(DiffSof(cntSofPrev, timer'))
  /\ SendFeedback
  /\ win' = [win EXCEPT ![posSof] = IF ~missed /\ Abs(d) < Limit THEN d ELSE 0]
  /\ UNCHANGED <<alt, fbOpen, cleared, ev, hostAlt, drift, inits>>

-----------------------------------------------------------------------------
(***************************************************************************)
(* The host.                                                               *)
(***************************************************************************)
Waiting(type) == \E k \in DOMAIN ev : ev[k].type = type

\* UsbdcoreCbIsr: an event is queued.
Queued(e) == Len(ev) < MaxEv /\ ev' = Append(ev, e)

\* A bus reset and the enumeration after it: the controller's endpoints are
\* closed, the host is back at no alternate it has selected.
BusReset ==
  /\ inits < MaxInit
  /\ inits' = inits + 1
  /\ fbOpen' = FALSE /\ fbFly' = FALSE
  /\ hostAlt' = [x \in Interface |-> <<>>]
  /\ Queued(Event("init", "ctrl", 0)) \/ ev' = ev
  /\ UNCHANGED <<capture, sum, i, alt, cleared, win, drift>>

\* SET_INTERFACE with an alternate the descriptors have, one at a time.  (One
\* that is lost is never answered and has no effect.)
HostSelects(x, val) ==
  /\ ~Waiting("init") /\ ~Waiting("select")
  /\ val \in Alternates[x]
  /\ hostAlt' = [hostAlt EXCEPT ![x] = <<val>>]
  /\ Queued(Event("select", x, val))
  /\ UNCHANGED <<capture, sum, i, alt, fbOpen, fbFly, cleared, win, drift, inits>>

\* The host polls the endpoint.
HostTakes ==
  /\ fbOpen /\ fbFly
  /\ fbFly' = FALSE
  /\ Queued(Event("done", "out", 0)) \/ ev' = ev
  /\ UNCHANGED <<capture, sum, i, alt, fbOpen, cleared, hostAlt, win, drift, inits>>

-----------------------------------------------------------------------------
(***************************************************************************)
(* The class, in the core's task.                                          *)
(***************************************************************************)
\* UsbdcoreCbExecute: the oldest event.
Handles(type) == ev # <<>> /\ Head(ev).type = type /\ ev' = Tail(ev)

\* UsbdAudioCbInit: the memset of the window, a cell in each step, and with the
\* last one the rest of the init, which leaves the alternates and the sum as
\* they are.
AudioInit ==
  /\ ev # <<>> /\ Head(ev).type = "init"
  /\ bufSof' = [bufSof EXCEPT ![cleared] = 0]
  /\ win'    = [win EXCEPT ![cleared] = 0]
  /\ drift'  = drift + win[cleared]
  /\ cleared' = (cleared + 1) % ListLen
  /\ ev' = IF cleared = ListLen - 1 THEN Tail(ev) ELSE ev
  /\ UNCHANGED <<capture, accSof, posSof, i, alt, fbOpen, fbFly, hostAlt, inits>>

\* UsbdAudioCbDataIn of the feedback endpoint: it asks for the alternate of the
\* control interface.
AudioDataIn ==
  /\ Handles("done")
  /\ fbFly' = (fbFly \/ (alt["ctrl"] # 0 /\ fbOpen))
  /\ UNCHANGED <<capture, sum, i, alt, fbOpen, cleared, hostAlt, win, drift, inits>>

\* The interface whose alternate the request with this wIndex changes: the
\* first test takes the alternate of the control interface for its number.
SelectedByOut(wIndex) == IF wIndex = Number["ctrl"] THEN "ctrl" ELSE "out"   \* mutant
Selected(wIndex) ==
  IF wIndex = alt["ctrl"] THEN "ctrl" ELSE CHOOSE x \in Interface : Number[x] = wIndex

\* UsbdAudioStandardSetInterface: opening the OUT stream flushes the feedback
\* endpoint, opens it and sends the nominal rate; closing it drops the transfer.
SetInterface ==
  LET e == Head(ev)
      x == Selected(Number[e.x])
  IN  /\ Handles("select")
      /\ alt' = [alt EXCEPT ![x] = e.val]
      /\ IF x = "out" THEN fbOpen' = (e.val # 0) /\ fbFly' = (e.val # 0)
                      ELSE UNCHANGED <<fbOpen, fbFly>>
      /\ UNCHANGED <<capture, sum, i, cleared, hostAlt, win, drift, inits>>

\* UsbdAudioStandardGetInterface.
GetInterface(wIndex) == alt[CHOOSE x \in Interface : Number[x] = wIndex]

Interrupt == \E d \in Deviations, missed \in BOOLEAN : Sof(d, missed)
Class == AudioInit \/ AudioDataIn \/ SetInterface
Host == BusReset \/ HostTakes \/ (\E x \in Interface, val \in {0, 1} : HostSelects(x, val))

Next == Interrupt \/ Class \/ Host

\* Frames start every millisecond and the core's task runs; the host need not
\* do anything.
Spec == Init /\ [][Next]_vars /\ WF_vars(Interrupt) /\ WF_vars(Class)

-----------------------------------------------------------------------------
(***************************************************************************)
(* Properties.                                                             *)
(***************************************************************************)
\* The captures stay in the timer's range, positions in the window, the counter
\* in its width, and a transfer is in progress only on an open endpoint.
TypeOK ==
  /\ timer \in 0 .. TimerMod - 1 /\ cntSofPrev = timer
  /\ bufSof \in [Window -> -Limit + 1 .. Limit - 1] /\ posSof \in Window
  /\ accSof \in Int /\ drift \in Int
  /\ i \in -(CountMod \div 2) .. (CountMod \div 2) - 1
  /\ alt \in [Interface -> {0, 1}]
  /\ fbOpen \in BOOLEAN /\ fbFly \in BOOLEAN /\ (fbFly => fbOpen)
  /\ cleared \in Window /\ Len(ev) <= MaxEv

\* The window holds the true deviations of the last frames, whatever the timer
\* wrapped around, the interrupts missed and the initialisations in between
\* (usbdcore.c:497-505).
WindowIsTrue == bufSof = win

\* The rate sent to the host is the sum of the window, but for the deviations an
\* initialisation cleared from the window alone (usbdaudio.c:71, 304).
SumIsWindow == accSof = SumFunction(bufSof) + drift

\* Every poll of the open feedback endpoint is followed by another value: the
\* completion starts no transfer, so the start of frame callback must, also
\* after its counter overflowed while the stream was off (usbdaudio.c:329, 338).
FeedbackGoesOn == [](fbOpen => <>(fbFly \/ ~fbOpen))

\* Once its request is handled, GET_INTERFACE answers what the host selected in
\* this session, whatever it selected on the other interfaces (usbdaudio.c:405).
\* (While the control interface has the number and the one alternate 0, as the
\* descriptors say: the comparison with altCtrl captures nothing then.)
AltAgrees ==
  \A x \in Interface :
    hostAlt[x] # <<>> /\ ~Waiting("init") /\ ~Waiting("select")
      => GetInterface(Number[x]) = hostAlt[x][1]
=============================================================================
