--------------------------- MODULE UsbdPipeProofs ---------------------------
(***************************************************************************)
(* Proofs about the class drivers on top of the core, for every number of  *)
(* units, every choice of a driver for each, every length of the queue and *)
(* every number of bus resets and timeouts.                                *)
(*                                                                         *)
(* A step of the drivers is a step of the core or leaves the core alone,   *)
(* so what UsbdCoreProofs shows of the core holds here; the invariant of   *)
(* the drivers rests on it.                                                *)
(***************************************************************************)
EXTENDS UsbdPipe, UsbdCoreProofs

\* What an init has left behind is there as long as its session lasts.
Ready(u) ==
  /\ classSess[u] > 0 => inited[u]
  /\ (classSess[u] > 0 /\ classSess[u] = sess[u]) => opened[u]

Busy(u) ==
  (Undisturbed(u) /\ txState[u] = 1) =>
    marked[u] > 0 \/ inflight[u] \/ IsWaiting(u, "dataInDone")

Receives(u) ==
  (Undisturbed(u) /\ class[u] \in HasOut) => armed[u] \/ held[u] \/ IsWaiting(u, "dataOut")

\* At most one completion of the unit waits.
Single(u) ==
  \A i, j \in 1 .. Len(Pending) : (Is(u, i, "dataInDone") /\ Is(u, j, "dataInDone")) => i = j

\* A transfer is marked, in progress or completed, one at a time, only under the
\* busy flag and with no call past the test.
OneTransfer(u) ==
  ~torn[u] =>
    /\ Single(u) /\ tested[u] <= 1 /\ marked[u] <= 1
    /\ (marked[u] > 0 \/ inflight[u] \/ Completing(u)) => txState[u] = 1 /\ tested[u] = 0
    /\ ~(marked[u] > 0 /\ inflight[u])
    /\ ~(Completing(u) /\ (marked[u] > 0 \/ inflight[u]))

PipeUnit(u) == Ready(u) /\ Busy(u) /\ Receives(u) /\ OneTransfer(u)

\* The inductive invariant, together with CoreInv.
PipeInv == PipeTypeOK /\ \A u \in Unit : PipeUnit(u)

USE PipeAssumption

-----------------------------------------------------------------------------
(***************************************************************************)
(* The composition implements the core.                                    *)
(***************************************************************************)
LEMMA PipeStepIsCoreStep == [PipeNext]_pipeVars => [Next]_vars
<1> SUFFICES ASSUME [PipeNext]_pipeVars PROVE Next \/ UNCHANGED vars
  OBVIOUS
<1>1. CASE OtherTask
  BY <1>1 DEF OtherTask, Next, Task, Execute
<1>2. ASSUME NEW u \in Unit, ClassInit(u) \/ Data(u) \/ ClassSetup(u) PROVE Next
  <2>1. CASE ClassInit(u)
    BY <2>1 DEF ClassInit, UsbdCdcInit, UsbdCdcRndisInit, UsbdHidInit, UsbdVendorInit, Opens,
                Next, Task, Execute
  <2>2. CASE Data(u)
    BY <2>2 DEF Data, UsbdCdcDataIn, UsbdCdcRndisDataIn, UsbdHidDataInDone, UsbdCdcDataOut,
                UsbdCdcRndisDataOut, TransferDone, PacketReceived, DataEvent, Next, Task, Execute
  <2>3. CASE ClassSetup(u)
    <3>1. \E c \in ClassStatus : CbSetup(u, c)
      BY <2>3 DEF ClassSetup, UsbdCdcSetup, UsbdCdcRndisSetup, UsbdVendorSetup, UsbdHidSetup,
                  Answered, ClassStatus
    <3> QED
      BY <3>1 DEF Next, Task, Execute
  <2> QED
    BY <1>2, <2>1, <2>2, <2>3
<1>3. ASSUME NEW u \in Unit, PipeBusReset(u) \/ DataOutDone(u) \/ DataInDone(u) \/ OtherHost(u)
      PROVE  Next
  <2>1. Host(u)
    BY <1>3 DEF PipeBusReset, DataOutDone, DataInDone, OtherHost, Host, DataEvent
  <2> QED
    BY <2>1 DEF Next
<1>4. ASSUME NEW u \in Unit, App(u) PROVE UNCHANGED vars
  BY <1>4 DEF App, UsbdCdcTransmit, UsbdCdcRndisTransmit, UsbdHidTransmit, TransmitTest,
     TransmitMark,
              TransmitSend, UsbdCdcReceiving, UsbdCdcRndisReceiving, Receiving
<1>5. CASE UNCHANGED pipeVars
  BY <1>5 DEF pipeVars
<1> QED
  BY <1>1, <1>2, <1>3, <1>4, <1>5 DEF PipeNext, PipeTask

\* The drivers with their application are a refinement of the core: what they
\* do is something the core may do (UsbifCbInit, UsbifCbSetup, UsbifCbDataOut,
\* UsbifCbDataInDone called from usbdcore.c).
THEOREM PipeImplementsCore == PipeSpec => Spec
<1>1. PipeInit => Init
  BY DEF PipeInit
<1> QED
  BY <1>1, PipeStepIsCoreStep, PTL DEF PipeSpec, Spec

-----------------------------------------------------------------------------
(***************************************************************************)
(* What waits, in every step of the queue.                                 *)
(***************************************************************************)
\* The data packets of the unit go on waiting; no completion is added.
DataKept(u) == \A p \in Waiting(u) : p.req \in DataEvent => p \in Waiting(u)'
NoMoreDone(u) == (Completing(u)' => Completing(u)) /\ (Single(u) => Single(u)')

LEMMA WaitingAt ==
  ASSUME NEW u \in Unit
  PROVE  /\ TypeOK =>
              /\ \A i \in 1 .. Len(Pending) : Of(u, i) => Pending[i] \in Waiting(u)
              /\ \A p \in Waiting(u) : \E i \in 1 .. Len(Pending) : Pending[i] = p /\ Of(u, i)
         /\ TypeOK' =>
              /\ \A i \in 1 .. Len(Pending') : Of(u, i)' => Pending'[i] \in Waiting(u)'
              /\ \A p \in Waiting(u)' : \E i \in 1 .. Len(Pending') : Pending'[i] = p /\ Of(u, i)'
<1>1. TypeOK => DOMAIN Pending = 1 .. Len(Pending)
  BY DEF TypeOK, Pending
<1>2. TypeOK' => DOMAIN (Pending') = 1 .. Len(Pending')
  BY DEF TypeOK, Pending
<1> QED
  BY <1>1, <1>2 DEF Waiting, Of

LEMMA CompletingAt ==
  ASSUME NEW u \in Unit
  PROVE  /\ TypeOK => (Completing(u) <=> \E i \in 1 .. Len(Pending) : Is(u, i, "dataInDone"))
         /\ TypeOK' => (Completing(u)' <=> \E i \in 1 .. Len(Pending') : Is(u, i, "dataInDone")')
BY WaitingAt DEF Completing, Is

\* The queue as it was: nothing changes.
LEMMA QueueKept ==
  ASSUME Pending' = Pending, NEW u \in Unit
  PROVE  DataKept(u) /\ NoMoreDone(u) /\ Waiting(u)' = Waiting(u)
<1>1. Waiting(u)' = Waiting(u)
  BY DEF Waiting
<1>2. Single(u) => Single(u)'
  BY DEF Single, Is, Of
<1> QED
  BY <1>1, <1>2 DEF DataKept, NoMoreDone, Completing

\* An interrupt: what waited still waits; a packet that is no completion of
\* the unit adds none; one that is queued waits from now on.
LEMMA InterruptKeeps ==
  ASSUME TypeOK, TypeOK', NEW p \in Packet, UsbdcoreCbIsr(p), UNCHANGED cur, NEW u \in Unit
  PROVE  /\ DataKept(u)
         /\ (p.unit # u \/ p.req # "dataInDone") => NoMoreDone(u)
         /\ (p.unit = u /\ Queued(p)) => p \in Waiting(u)'
         /\ ~Completing(u) => Single(u)'
<1>1. CASE Queued(p)
  <2>1. queue' = Append(queue, p)
    BY <1>1 DEF UsbdcoreCbIsr
  <2>2. PICK n \in Nat : n = Len(Pending)
    BY PendingType
  <2>3. /\ Len(Pending') = n + 1 /\ Pending'[n + 1] = p
        /\ \A i \in 1 .. n : Pending'[i] = Pending[i]
    BY <2>1, <2>2, Appended
  <2>4. DataKept(u)
    <3> SUFFICES ASSUME NEW q \in Waiting(u) PROVE q \in Waiting(u)'
      BY DEF DataKept
    <3>1. PICK i \in 1 .. n : Pending[i] = q /\ Of(u, i)
      BY <2>2, WaitingAt
    <3>2. i \in 1 .. Len(Pending') /\ Pending'[i] = q /\ Of(u, i)'
      BY <2>3, <3>1 DEF Of
    <3> QED
      BY <3>2, WaitingAt
  <2>5. p.unit = u => p \in Waiting(u)'
    <3> SUFFICES ASSUME p.unit = u PROVE p \in Waiting(u)'
      OBVIOUS
    <3>1. n + 1 \in 1 .. Len(Pending') /\ Of(u, n + 1)'
      BY <2>3 DEF Of
    <3> QED
      BY <2>3, <3>1, WaitingAt
  <2>6. ASSUME NEW i \in 1 .. Len(Pending'), Is(u, i, "dataInDone")', p.unit # u \/ p.req # "dataInDone"
        PROVE  i \in 1 .. n /\ Is(u, i, "dataInDone")
    BY <2>2, <2>3, <2>6 DEF Is, Of
  <2>7. ASSUME NEW i \in 1 .. Len(Pending'), Is(u, i, "dataInDone")', ~Completing(u) PROVE i = n + 1
    <3>1. ~Is(u, i, "dataInDone")
      BY <2>7, CompletingAt DEF Is, Of
    <3> QED
      BY <2>2, <2>3, <2>7, <3>1 DEF Is, Of
  <2>8. (p.unit # u \/ p.req # "dataInDone") => NoMoreDone(u)
    <3>1. \A i \in 1 .. Len(Pending') : Is(u, i, "dataInDone")' => i \in 1 .. Len(Pending')
      OBVIOUS
    <3> QED
      BY <2>2, <2>6, CompletingAt DEF NoMoreDone, Single
  <2>9. ~Completing(u) => Single(u)'
    BY <2>7 DEF Single
  <2> QED
    BY <2>4, <2>5, <2>8, <2>9
<1>2. CASE ~Queued(p)
  <2>1. Pending' = Pending
    BY <1>2 DEF UsbdcoreCbIsr, Pending
  <2>2. ~Completing(u) => Single(u)
    BY CompletingAt DEF Single
  <2> QED
    BY <2>1, <2>2, <1>2, QueueKept DEF NoMoreDone
<1> QED
  BY <1>1, <1>2

\* A handler of the task: what waited still waits, but for the packet handled.
LEMMA HandlerKeeps ==
  ASSUME TypeOK, TypeOK', cur # <<>>, cur' = <<>>, UNCHANGED queue, NEW u \in Unit
  PROVE  /\ \A p \in Waiting(u) : p = cur[1] \/ p \in Waiting(u)'
         /\ \A p \in Waiting(u)' : p \in Waiting(u)
         /\ NoMoreDone(u)
         /\ (Single(u) /\ cur[1].unit = u /\ cur[1].req = "dataInDone") => ~Completing(u)'
<1>1. PICK n \in Nat : n = Len(Pending)
  BY PendingType
<1>2. /\ n > 0 /\ Pending[1] = cur[1] /\ Len(Pending') = n - 1
      /\ \A i \in 1 .. n - 1 : Pending'[i] = Pending[i + 1]
      /\ \A i \in 2 .. n : Pending'[i - 1] = Pending[i]
  <2>1. Len(Pending) \in Nat \ {0} /\ Pending[1] = cur[1] /\ Len(Pending') = Len(Pending) - 1
    BY Removed
  <2>2. \A i \in 1 .. Len(Pending') : Pending'[i] = Pending[i + 1]
    BY Removed
  <2>3. \A i \in 2 .. Len(Pending) : Pending'[i - 1] = Pending[i]
    BY Removed
  <2>4. n > 0 /\ Pending[1] = cur[1] /\ Len(Pending') = n - 1
    BY <1>1, <2>1
  <2> QED
    BY <1>1, <2>2, <2>3, <2>4
<1>3. ASSUME NEW p \in Waiting(u), p # cur[1] PROVE p \in Waiting(u)'
  <2>1. PICK i \in 1 .. n : Pending[i] = p /\ Of(u, i)
    BY <1>1, WaitingAt
  <2>2. i - 1 \in 1 .. Len(Pending') /\ Pending'[i - 1] = p /\ Of(u, i - 1)'
    BY <1>2, <1>3, <2>1 DEF Of
  <2> QED
    BY <2>2, WaitingAt
<1>4. ASSUME NEW p \in Waiting(u)' PROVE p \in Waiting(u)
  <2>1. PICK i \in 1 .. n - 1 : Pending'[i] = p /\ Of(u, i)'
    BY <1>2, WaitingAt
  <2>2. i + 1 \in 1 .. Len(Pending) /\ Pending[i + 1] = p /\ Of(u, i + 1)
    BY <1>1, <1>2, <2>1 DEF Of
  <2> QED
    BY <2>2, WaitingAt
<1>5. ASSUME NEW i \in 1 .. n - 1, Is(u, i, "dataInDone")'
      PROVE  i + 1 \in 1 .. n /\ Is(u, i + 1, "dataInDone")
  BY <1>1, <1>2, <1>5 DEF Is, Of
<1>6. Single(u) => Single(u)'
  <2> SUFFICES ASSUME Single(u), NEW i \in 1 .. n - 1, NEW j \in 1 .. n - 1,
                      Is(u, i, "dataInDone")', Is(u, j, "dataInDone")'
               PROVE  i = j
    BY <1>2 DEF Single
  <2>1. i + 1 = j + 1
    BY <1>1, <1>5 DEF Single
  <2> QED
    BY <2>1
<1>7. ASSUME Single(u), cur[1].unit = u, cur[1].req = "dataInDone" PROVE ~Completing(u)'
  <2>1. 1 \in 1 .. n /\ Is(u, 1, "dataInDone")
    BY <1>1, <1>2, <1>7 DEF Is, Of
  <2>2. \A i \in 1 .. n - 1 : ~Is(u, i, "dataInDone")'
    BY <1>1, <1>5, <1>7, <2>1 DEF Single
  <2> QED
    BY <1>2, <2>2, CompletingAt
<1> QED
  BY <1>3, <1>4, <1>6, <1>7 DEF NoMoreDone, Completing

-----------------------------------------------------------------------------
(***************************************************************************)
(* Steps of the core in which a unit's driver and endpoints take no part.  *)
(***************************************************************************)
\* For the driver of unit u nothing happens in the core.
SameSession(u) ==
  /\ sess'[u] = sess[u] /\ classSess'[u] = classSess[u]
  /\ bad'[u] < sess'[u] => bad[u] < sess[u]
Quiet(u) == SameSession(u) /\ DataKept(u) /\ NoMoreDone(u)

PipeSame(u) ==
  /\ class'[u] = class[u] /\ torn'[u] = torn[u]
  /\ inited'[u] = inited[u] /\ txState'[u] = txState[u]
  /\ tested'[u] = tested[u] /\ marked'[u] = marked[u] /\ held'[u] = held[u]
  /\ opened'[u] = opened[u] /\ inflight'[u] = inflight[u] /\ armed'[u] = armed[u]

LEMMA StillWaits ==
  ASSUME NEW u \in Unit, SameSession(u), DataKept(u), NEW r \in DataEvent
  PROVE  IsWaiting(u, r) => IsWaiting(u, r)'
BY DEF SameSession, DataKept, IsWaiting

LEMMA PipeKept ==
  ASSUME NEW u \in Unit, PipeUnit(u), PipeSame(u), Quiet(u)
  PROVE  PipeUnit(u)'
<1>1. (IsWaiting(u, "dataInDone") => IsWaiting(u, "dataInDone")')
      /\ (IsWaiting(u, "dataOut") => IsWaiting(u, "dataOut")')
  BY StillWaits DEF Quiet, DataEvent
<1>2. Undisturbed(u)' => Undisturbed(u)
  BY DEF Quiet, SameSession, Undisturbed
<1>3. Ready(u)'
  BY DEF PipeUnit, Ready, PipeSame, Quiet, SameSession
<1>4. Busy(u)'
  BY <1>1, <1>2 DEF PipeUnit, Busy, PipeSame
<1>5. Receives(u)'
  BY <1>1, <1>2 DEF PipeUnit, Receives, PipeSame
<1>6. OneTransfer(u)'
  BY DEF PipeUnit, OneTransfer, PipeSame, Quiet, NoMoreDone
<1> QED
  BY <1>3, <1>4, <1>5, <1>6 DEF PipeUnit

\* What an interrupt of unit w changes for unit u.
LEMMA Notified ==
  ASSUME TypeOK, TypeOK', NEW w \in Unit, NEW r \in BusEvent \cup DataEvent, Notify(w, r),
         NEW u \in Unit
  PROVE  /\ SameSession(u) /\ DataKept(u)
         /\ (u # w \/ r # "dataInDone") => NoMoreDone(u)
         /\ (u = w /\ r \in DataEvent /\ bad'[u] < sess'[u]) => IsWaiting(u, r)'
         /\ ~Completing(u) => Single(u)'
<1> DEFINE p == Pkt(w, r)
<1>1. p \in Packet /\ p.unit = w /\ p.req = r /\ p.sess = sess[w]
  BY DEF Pkt, Packet, TypeOK
<1>2. UsbdcoreCbIsr(p) /\ UNCHANGED <<cur, sess, classSess>>
  BY DEF Notify, task
<1>3. bad'[u] = bad[u] \/ (u = w /\ bad'[u] = sess[u] /\ ~Queued(p) /\ r # "suspend")
  <2>1. bad' = [bad EXCEPT ![w] = IF Queued(p) \/ r = "suspend" THEN @ ELSE sess[w]]
    BY DEF Notify
  <2>2. DOMAIN bad = Unit
    BY DEF TypeOK
  <2> QED
    BY <2>1, <2>2
<1>4. SameSession(u)
  <2>1. sess' = sess /\ classSess' = classSess
    BY <1>2
  <2>2. sess[u] \in Nat
    BY CoreAssumption DEF TypeOK
  <2>3. bad'[u] < sess[u] => bad[u] < sess[u]
    BY <1>3, <2>2
  <2> QED
    BY <2>1, <2>3 DEF SameSession
<1>5. (u = w /\ r \in DataEvent /\ bad'[u] < sess'[u]) => IsWaiting(u, r)'
  <2> SUFFICES ASSUME u = w, r \in DataEvent, bad'[u] < sess'[u] PROVE IsWaiting(u, r)'
    OBVIOUS
  <2>1. Queued(p)
    <3>1. bad' = [bad EXCEPT ![w] = IF Queued(p) \/ r = "suspend" THEN @ ELSE sess[w]]
      BY DEF Notify
    <3>2. r # "suspend" /\ sess'[w] = sess[w] /\ sess[w] \in Nat
      BY <1>2 DEF DataEvent, TypeOK
    <3> QED
      BY <3>1, <3>2 DEF TypeOK
  <2>2. p \in Waiting(u)'
    BY <1>1, <1>2, <2>1, InterruptKeeps
  <2> QED
    BY <1>1, <1>2, <2>2 DEF IsWaiting
<1>6. /\ DataKept(u) /\ ((p.unit # u \/ p.req # "dataInDone") => NoMoreDone(u))
      /\ (~Completing(u) => Single(u)')
  BY <1>1, <1>2, InterruptKeeps
<1> QED
  BY <1>1, <1>4, <1>5, <1>6

LEMMA OtherHostQuiet ==
  ASSUME TypeOK, TypeOK', NEW w \in Unit, OtherHost(w), NEW u \in Unit
  PROVE  Quiet(u)
<1>0. bad \in [Unit -> 0 .. MaxSess] /\ sess[u] \in Nat /\ MaxSess \in Nat
  BY CoreAssumption DEF TypeOK
<1>1. CASE Enumerated(w) \/ Suspend(w)
  <2>1. Notify(w, "enumerated") \/ Notify(w, "suspend")
    BY <1>1 DEF Enumerated, Suspend
  <2> QED
    BY <2>1, Notified DEF BusEvent, Quiet
<1>2. ASSUME NEW r \in Request, HostSetup(w, r) PROVE Quiet(u)
  <2>1. Pkt(w, "setup") \in Packet /\ Pkt(w, "setup").req = "setup"
    BY DEF Pkt, Packet, TypeOK
  <2>2. DataKept(u) /\ NoMoreDone(u)
    BY <1>2, <2>1, InterruptKeeps DEF HostSetup, task
  <2>3. bad'[u] = bad[u] \/ bad'[u] = sess[u]
    <3>1. bad' = bad \/ bad' = [bad EXCEPT ![w] = sess[w]]
      BY <1>0, <1>2 DEF HostSetup
    <3> QED
      BY <1>0, <3>1
  <2>4. sess' = sess /\ classSess' = classSess
    BY <1>2 DEF HostSetup, bus, task
  <2>5. SameSession(u)
    BY <1>0, <2>3, <2>4 DEF SameSession
  <2> QED
    BY <2>2, <2>5 DEF Quiet
<1>3. CASE HostAnswered(w) \/ HostTimeout(w) \/ HostEarlyTimeout(w)
  <2>1. queue' = queue /\ cur' = cur /\ sess' = sess /\ classSess' = classSess
    BY <1>3 DEF HostAnswered, HostTimeout, HostEarlyTimeout, task, bus
  <2>2. bad'[u] = bad[u] \/ bad'[u] = sess[u]
    <3>1. bad' = bad \/ bad' = [bad EXCEPT ![w] = sess[w]]
      BY <1>3 DEF HostAnswered, HostTimeout, HostEarlyTimeout
    <3> QED
      BY <1>0, <3>1
  <2>3. DataKept(u) /\ NoMoreDone(u)
    BY <2>1, QueueKept DEF Pending
  <2>4. SameSession(u)
    BY <1>0, <2>1, <2>2 DEF SameSession
  <2> QED
    BY <2>3, <2>4 DEF Quiet
<1> QED
  BY <1>1, <1>2, <1>3 DEF OtherHost

\* A handler the driver of unit u has no part in.
LEMMA HandlerQuiet ==
  ASSUME TypeOK, TypeOK', cur # <<>>, cur' = <<>>, NEW u \in Unit,
         UNCHANGED <<queue, sess, bad>>, classSess'[u] = classSess[u],
         cur[1].unit # u \/ cur[1].req \notin DataEvent
  PROVE  Quiet(u)
<1>1. DataKept(u) /\ NoMoreDone(u)
  <2>1. \A p \in Waiting(u) : p.unit = u
    BY DEF Waiting
  <2> QED
    BY <2>1, HandlerKeeps DEF DataKept
<1> QED
  BY <1>1 DEF Quiet, SameSession

-----------------------------------------------------------------------------
(***************************************************************************)
(* The steps of the environment.                                           *)
(***************************************************************************)
LEMMA UnitTyped ==
  ASSUME PipeTypeOK, NEW u \in Unit
  PROVE  /\ sess[u] \in Nat /\ bad[u] \in Nat /\ classSess[u] \in Nat
         /\ txState[u] \in {0, 1} /\ tested[u] \in Nat /\ marked[u] \in Nat
         /\ inflight[u] \in BOOLEAN /\ opened[u] \in BOOLEAN /\ armed[u] \in BOOLEAN
         /\ held[u] \in BOOLEAN /\ inited[u] \in BOOLEAN /\ torn[u] \in BOOLEAN
BY CoreAssumption DEF PipeTypeOK, TypeOK

\* The sessions begin at 1, so an undisturbed one has had its init.
LEMMA UndisturbedIsUp ==
  ASSUME PipeTypeOK, NEW u \in Unit, Ready(u), Undisturbed(u)
  PROVE  inited[u] /\ opened[u]
BY UnitTyped DEF Ready, Undisturbed

LEMMA PipeBusResetStep ==
  ASSUME CoreInv, CoreInv', PipeInv, NEW w \in Unit, PipeBusReset(w), NEW u \in Unit
  PROVE  PipeUnit(u)'
<1>0. TypeOK /\ TypeOK' /\ PipeTypeOK /\ PipeUnit(u)
  BY DEF CoreInv, PipeInv
<1> DEFINE p == [Pkt(w, "reset") EXCEPT !.sess = @ + 1]
<1>1. p \in Packet /\ p.req = "reset"
  <2>1. sess[w] \in 0 .. MaxSess /\ sess[w] < MaxSess
    BY <1>0 DEF PipeBusReset, BusReset, TypeOK
  <2> QED
    BY <2>1, CoreAssumption DEF Pkt, Packet, BusEvent
<1>2. DataKept(u) /\ NoMoreDone(u)
  BY <1>0, <1>1, InterruptKeeps DEF PipeBusReset, BusReset, task
<1>3. CASE u # w
  <2>1. SameSession(u)
    BY <1>0, <1>3 DEF PipeBusReset, BusReset, task, TypeOK, SameSession
  <2>2. PipeSame(u)
    BY <1>0, <1>3 DEF PipeBusReset, driver, app, calls, fixed, PipeTypeOK, PipeSame
  <2> QED
    BY <1>0, <1>2, <2>1, <2>2, PipeKept DEF Quiet
<1>4. CASE u = w
  <2>1. sess'[u] = sess[u] + 1 /\ classSess'[u] = classSess[u] /\ classSess[u] <= sess[u]
    BY <1>0, <1>4 DEF PipeBusReset, BusReset, task, TypeOK, CoreInv, UnitInv, Bounded
  <2>2. /\ torn'[u] = torn[u] /\ inited'[u] = inited[u] /\ txState'[u] = txState[u]
        /\ tested'[u] = tested[u] /\ marked'[u] = marked[u] /\ inflight'[u] = FALSE
    BY <1>0, <1>4 DEF PipeBusReset, driver, app, calls, fixed, PipeTypeOK
  <2>3. classSess'[u] # sess'[u]
    BY <1>0, <2>1, UnitTyped
  <2>4. Ready(u)'
    BY <1>0, <2>1, <2>2, <2>3 DEF PipeUnit, Ready
  <2>5. Busy(u)' /\ Receives(u)'
    BY <2>3 DEF Busy, Receives, Undisturbed
  <2>6. OneTransfer(u)'
    BY <1>0, <1>2, <2>2 DEF PipeUnit, OneTransfer, NoMoreDone
  <2> QED
    BY <2>4, <2>5, <2>6 DEF PipeUnit
<1> QED
  BY <1>3, <1>4

LEMMA DataOutDoneStep ==
  ASSUME CoreInv, CoreInv', PipeInv, NEW w \in Unit, DataOutDone(w), NEW u \in Unit
  PROVE  PipeUnit(u)'
<1>0. TypeOK /\ TypeOK' /\ PipeTypeOK /\ PipeUnit(u)
  BY DEF CoreInv, PipeInv
<1>1. Notify(w, "dataOut")
  BY DEF DataOutDone, DataDone
<1>2. /\ SameSession(u) /\ DataKept(u) /\ NoMoreDone(u)
      /\ (u = w /\ bad'[u] < sess'[u]) => IsWaiting(u, "dataOut")'
  BY <1>0, <1>1, Notified DEF DataEvent
<1>3. CASE u # w
  <2>1. PipeSame(u)
    BY <1>0, <1>3 DEF DataOutDone, driver, app, calls, fixed, PipeTypeOK, PipeSame
  <2> QED
    BY <1>0, <1>2, <2>1, PipeKept DEF Quiet
<1>4. CASE u = w
  <2>1. /\ torn' = torn /\ class' = class /\ inited' = inited /\ txState' = txState
        /\ UNCHANGED calls /\ held' = held /\ opened' = opened /\ inflight' = inflight
    BY DEF DataOutDone, driver, app, calls, fixed
  <2>2. Ready(u)'
    BY <1>0, <1>2, <2>1 DEF PipeUnit, Ready, SameSession
  <2>3. Busy(u)'
    <3>1. IsWaiting(u, "dataInDone") => IsWaiting(u, "dataInDone")'
      BY <1>2, StillWaits DEF DataEvent
    <3>2. Undisturbed(u)' => Undisturbed(u)
      BY <1>2 DEF Undisturbed, SameSession
    <3> QED
      BY <1>0, <2>1, <3>1, <3>2 DEF PipeUnit, Busy, calls
  <2>4. Receives(u)'
    BY <1>2, <1>4 DEF Receives, Undisturbed
  <2>5. OneTransfer(u)'
    BY <1>0, <1>2, <2>1 DEF PipeUnit, OneTransfer, NoMoreDone, calls
  <2> QED
    BY <2>2, <2>3, <2>4, <2>5 DEF PipeUnit
<1> QED
  BY <1>3, <1>4

LEMMA DataInDoneStep ==
  ASSUME CoreInv, CoreInv', PipeInv, NEW w \in Unit, DataInDone(w), NEW u \in Unit
  PROVE  PipeUnit(u)'
<1>0. TypeOK /\ TypeOK' /\ PipeTypeOK /\ PipeUnit(u)
  BY DEF CoreInv, PipeInv
<1>1. Notify(w, "dataInDone")
  BY DEF DataInDone, DataDone
<1>2. /\ SameSession(u) /\ DataKept(u) /\ (u # w => NoMoreDone(u))
      /\ (u = w /\ bad'[u] < sess'[u]) => IsWaiting(u, "dataInDone")'
      /\ ~Completing(u) => Single(u)'
  BY <1>0, <1>1, Notified DEF DataEvent
<1>3. CASE u # w
  <2>1. PipeSame(u)
    BY <1>0, <1>3 DEF DataInDone, driver, app, calls, fixed, PipeTypeOK, PipeSame
  <2> QED
    BY <1>0, <1>2, <1>3, <2>1, PipeKept DEF Quiet
<1>4. CASE u = w
  <2>1. /\ torn' = torn /\ class' = class /\ inited' = inited /\ txState' = txState
        /\ UNCHANGED calls /\ held' = held /\ opened' = opened /\ armed' = armed
        /\ inflight[u] /\ inflight'[u] = FALSE
    BY <1>0, <1>4 DEF DataInDone, driver, app, calls, fixed, PipeTypeOK
  <2>2. Ready(u)'
    BY <1>0, <1>2, <2>1 DEF PipeUnit, Ready, SameSession
  <2>3. Busy(u)'
    BY <1>2, <1>4 DEF Busy, Undisturbed
  <2>4. Receives(u)'
    <3>1. IsWaiting(u, "dataOut") => IsWaiting(u, "dataOut")'
      BY <1>2, StillWaits DEF DataEvent
    <3>2. Undisturbed(u)' => Undisturbed(u)
      BY <1>2 DEF Undisturbed, SameSession
    <3> QED
      BY <1>0, <2>1, <3>1, <3>2 DEF PipeUnit, Receives
  <2>5. OneTransfer(u)'
    BY <1>0, <1>2, <2>1 DEF PipeUnit, OneTransfer, calls
  <2> QED
    BY <2>2, <2>3, <2>4, <2>5 DEF PipeUnit
<1> QED
  BY <1>3, <1>4

-----------------------------------------------------------------------------
(***************************************************************************)
(* The steps of the task.                                                  *)
(***************************************************************************)
\* A completion of an undisturbed session reaches the driver: by the invariant
\* of the core the unit is configured.
LEMMA UndisturbedIsReached ==
  ASSUME CoreInv, PipeInv, NEW u \in Unit, Working(u), cur[1].req \in DataEvent, Undisturbed(u)
  PROVE  Reached(u)
<1>1. TypeOK /\ UnitInv(u) /\ PipeTypeOK /\ PipeUnit(u)
  BY DEF CoreInv, PipeInv
<1>2. Len(Pending) \in Nat \ {0} /\ Pending[1] = cur[1]
  BY <1>1 DEF Working, Pending, TypeOK
<1>3. 1 \in 1 .. Len(Pending) /\ Of(u, 1) /\ IsData(u, 1)
  BY <1>2 DEF Of, IsData, Working
<1>4. Pending[1].sess = sess[u] /\ bad[u] < Pending[1].sess
  <2>1. classSess[u] <= Pending[1].sess /\ Pending[1].sess <= sess[u]
    BY <1>1, <1>3 DEF UnitInv, Ordered
  <2>2. Pending[1].sess \in Nat
    BY <1>1, <1>3, PendingType, CoreAssumption DEF Packet
  <2> QED
    BY <1>1, <2>1, <2>2, UnitTyped DEF Undisturbed
<1>5. deviceState[u] = "configured"
  BY <1>1, <1>3, <1>4 DEF UnitInv, DataInPlace
<1> QED
  BY <1>1, <1>5, UndisturbedIsUp DEF Reached, Delivers, PipeUnit

LEMMA ClassInitStep ==
  ASSUME CoreInv, CoreInv', PipeInv, NEW w \in Unit, ClassInit(w), NEW u \in Unit
  PROVE  PipeUnit(u)'
<1>0. TypeOK /\ TypeOK' /\ PipeTypeOK /\ PipeUnit(u)
  BY DEF CoreInv, PipeInv
<1>1. /\ Opens(w) /\ Cleared(w)
      /\ held' = held \/ held' = [held EXCEPT ![w] = TRUE]
      /\ armed' = armed \/ armed' = [armed EXCEPT ![w] = TRUE]
      /\ class[w] \in HasOut => armed' = [armed EXCEPT ![w] = TRUE]
                                \/ held' = [held EXCEPT ![w] = TRUE]
  BY DEF ClassInit, UsbdCdcInit, UsbdCdcRndisInit, UsbdHidInit, UsbdVendorInit, HasOut
<1>2. /\ cur # <<>> /\ cur[1].unit = w /\ cur[1].req = "enumerated" /\ cur' = <<>>
      /\ queue' = queue /\ sess' = sess /\ bad' = bad
      /\ classSess' = [classSess EXCEPT ![w] = cur[1].sess]
  BY <1>1 DEF Opens, CbEnumerated, Handles, Working, bus
<1>3. CASE u # w
  <2>1. classSess'[u] = classSess[u]
    BY <1>0, <1>2, <1>3 DEF TypeOK
  <2>2. Quiet(u)
    BY <1>0, <1>2, <1>3, <2>1, HandlerQuiet
  <2>3. PipeSame(u)
    BY <1>0, <1>1, <1>3 DEF Opens, Cleared, PipeTypeOK, PipeSame, calls
  <2> QED
    BY <1>0, <2>2, <2>3, PipeKept
<1>4. CASE u = w
  <2>1. /\ inited'[u] /\ opened'[u] /\ txState'[u] = 0 /\ class'[u] = class[u]
        /\ UNCHANGED calls /\ inflight'[u] = inflight[u] /\ torn'[u] = Unsettled(u)
    BY <1>0, <1>1, <1>4 DEF Opens, Cleared, PipeTypeOK
  <2>2. Ready(u)' /\ Busy(u)'
    BY <2>1 DEF Ready, Busy
  <2>3. Receives(u)'
    BY <1>0, <1>1, <1>4, <2>1 DEF Receives, PipeTypeOK
  <2>4. NoMoreDone(u)
    BY <1>0, <1>2, HandlerKeeps
  <2>5. OneTransfer(u)'
    <3> SUFFICES ASSUME ~torn'[u] PROVE OneTransfer(u)'
      BY DEF OneTransfer
    <3>0. ~Unsettled(u)
      BY <2>1
    <3>1. marked[u] = 0 /\ tested[u] <= 1 /\ ~inflight[u] /\ ~Completing(u)
      BY <1>0, <3>0, UnitTyped DEF Unsettled
    <3>2. ~Completing(u)'
      BY <2>4, <3>1 DEF NoMoreDone
    <3>3. Single(u)'
      BY <1>0, <3>2, CompletingAt DEF Single
    <3> QED
      BY <2>1, <3>1, <3>2, <3>3 DEF OneTransfer, calls
  <2> QED
    BY <2>2, <2>3, <2>5 DEF PipeUnit
<1> QED
  BY <1>3, <1>4

LEMMA TransferDoneStep ==
  ASSUME CoreInv, CoreInv', PipeInv, NEW w \in Unit, TransferDone(w), NEW u \in Unit
  PROVE  PipeUnit(u)'
<1>0. TypeOK /\ TypeOK' /\ PipeTypeOK /\ PipeUnit(u)
  BY DEF CoreInv, PipeInv
<1>1. /\ cur # <<>> /\ cur[1].unit = w /\ cur[1].req = "dataInDone" /\ cur' = <<>> /\ Working(w)
      /\ queue' = queue /\ sess' = sess /\ bad' = bad /\ classSess' = classSess
  BY DEF TransferDone, CbData, Handles, Working, bus
<1>2. /\ inited' = inited /\ tested' = tested /\ marked' = marked /\ held' = held
      /\ opened' = opened /\ inflight' = inflight /\ armed' = armed /\ class' = class
      /\ torn' = [torn EXCEPT ![w] = @ /\ Unsettled(w)']
      /\ txState' = [txState EXCEPT ![w] = IF Reached(w) THEN 0 ELSE @]
  BY DEF TransferDone, app, calls, endpoints
<1>3. CASE u # w
  <2>1. Quiet(u)
    BY <1>0, <1>1, <1>3, HandlerQuiet
  <2>2. PipeSame(u)
    BY <1>0, <1>2, <1>3 DEF PipeTypeOK, PipeSame
  <2> QED
    BY <1>0, <2>1, <2>2, PipeKept
<1>4. CASE u = w
  <2>1. Ready(u)'
    BY <1>0, <1>1, <1>2 DEF PipeUnit, Ready
  <2>2. Undisturbed(u)' = Undisturbed(u)
    BY <1>1 DEF Undisturbed
  <2>3. Undisturbed(u) => Reached(u)
    BY <1>1, <1>4, UndisturbedIsReached DEF DataEvent
  <2>4. Busy(u)'
    BY <1>0, <1>2, <1>4, <2>2, <2>3 DEF Busy, PipeTypeOK
  <2>5. Receives(u)'
    <3>1. IsWaiting(u, "dataOut") => IsWaiting(u, "dataOut")'
      BY <1>0, <1>1, HandlerKeeps DEF IsWaiting
    <3> QED
      BY <1>0, <1>2, <2>2, <3>1 DEF PipeUnit, Receives
  <2>6. OneTransfer(u)'
    <3> SUFFICES ASSUME ~torn'[u] PROVE OneTransfer(u)'
      BY DEF OneTransfer
    <3>0. torn'[u] = (torn[u] /\ Unsettled(u)')
      BY <1>0, <1>2, <1>4 DEF PipeTypeOK
    <3>1. Completing(u)
      <4>1. Len(Pending) \in Nat \ {0} /\ Pending[1] = cur[1]
        BY <1>0, <1>1, Removed
      <4>2. 1 \in 1 .. Len(Pending)
        BY <4>1
      <4>3. Is(u, 1, "dataInDone")
        BY <1>1, <1>4, <4>1 DEF Is, Of
      <4> QED
        BY <1>0, <4>2, <4>3, CompletingAt
    <3>2. CASE ~torn[u]
      <4>1. Single(u) /\ marked[u] = 0 /\ tested[u] <= 1 /\ ~inflight[u]
        BY <1>0, <3>1, <3>2, UnitTyped DEF PipeUnit, OneTransfer
      <4>2. ~Completing(u)' /\ Single(u)'
        BY <1>0, <1>1, <1>4, <4>1, HandlerKeeps DEF NoMoreDone
      <4> QED
        BY <1>2, <4>1, <4>2 DEF OneTransfer
    <3>3. CASE ~Unsettled(u)'
      <4>1. ~Completing(u)' /\ marked[u] = 0 /\ tested[u] <= 1 /\ ~inflight[u]
        BY <1>0, <1>2, <3>3, UnitTyped DEF Unsettled
      <4>2. Single(u)'
        BY <1>0, <4>1, CompletingAt DEF Single
      <4> QED
        BY <1>2, <4>1, <4>2 DEF OneTransfer
    <3> QED
      BY <3>0, <3>2, <3>3
  <2> QED
    BY <2>1, <2>4, <2>5, <2>6 DEF PipeUnit
<1> QED
  BY <1>3, <1>4

LEMMA PacketReceivedStep ==
  ASSUME CoreInv, CoreInv', PipeInv, NEW w \in Unit, PacketReceived(w), NEW u \in Unit
  PROVE  PipeUnit(u)'
<1>0. TypeOK /\ TypeOK' /\ PipeTypeOK /\ PipeUnit(u)
  BY DEF CoreInv, PipeInv
<1>1. /\ cur # <<>> /\ cur[1].unit = w /\ cur[1].req = "dataOut" /\ cur' = <<>> /\ Working(w)
      /\ queue' = queue /\ sess' = sess /\ bad' = bad /\ classSess' = classSess
  BY DEF PacketReceived, CbData, Handles, Working, bus
<1>2. /\ inited' = inited /\ tested' = tested /\ marked' = marked /\ opened' = opened
      /\ txState' = txState
      /\ inflight' = inflight /\ armed' = armed /\ class' = class /\ torn' = torn
      /\ held' = [held EXCEPT ![w] = @ \/ Reached(w)]
  BY DEF PacketReceived, driver, endpoints, fixed, calls
<1>3. CASE u # w
  <2>1. Quiet(u)
    BY <1>0, <1>1, <1>3, HandlerQuiet
  <2>2. PipeSame(u)
    BY <1>0, <1>2, <1>3 DEF PipeTypeOK, PipeSame
  <2> QED
    BY <1>0, <2>1, <2>2, PipeKept
<1>4. CASE u = w
  <2>1. Ready(u)'
    BY <1>0, <1>1, <1>2 DEF PipeUnit, Ready
  <2>2. Undisturbed(u)' = Undisturbed(u)
    BY <1>1 DEF Undisturbed
  <2>3. Undisturbed(u) => Reached(u)
    BY <1>1, <1>4, UndisturbedIsReached DEF DataEvent
  <2>4. Receives(u)'
    BY <1>0, <1>2, <1>4, <2>2, <2>3 DEF Receives, PipeTypeOK
  <2>5. Busy(u)'
    <3>1. IsWaiting(u, "dataInDone") => IsWaiting(u, "dataInDone")'
      BY <1>0, <1>1, HandlerKeeps DEF IsWaiting
    <3> QED
      BY <1>0, <1>2, <2>2, <3>1 DEF PipeUnit, Busy
  <2>6. OneTransfer(u)'
    <3>1. NoMoreDone(u)
      BY <1>0, <1>1, HandlerKeeps
    <3> QED
      BY <1>0, <1>2, <3>1 DEF PipeUnit, OneTransfer, NoMoreDone
  <2> QED
    BY <2>1, <2>4, <2>5, <2>6 DEF PipeUnit
<1> QED
  BY <1>3, <1>4

\* The handlers the driver has no part in, but for the report enable of HID.
LEMMA OtherTaskStep ==
  ASSUME CoreInv, CoreInv', PipeInv, NEW u \in Unit,
         OtherTask \/ \E w \in Unit : ClassSetup(w)
  PROVE  PipeUnit(u)'
<1>0. TypeOK /\ TypeOK' /\ PipeTypeOK /\ PipeUnit(u)
  BY DEF CoreInv, PipeInv
<1>1. PipeSame(u)
  <2>1. CASE OtherTask
    BY <2>1 DEF OtherTask, driver, app, calls, endpoints, fixed, PipeSame
  <2>2. ASSUME NEW w \in Unit, ClassSetup(w) PROVE PipeSame(u)
    BY <2>2 DEF ClassSetup, UsbdCdcSetup, UsbdCdcRndisSetup, UsbdVendorSetup, UsbdHidSetup,
                Answered, app, calls, endpoints, fixed, PipeSame
  <2> QED
    BY <2>1, <2>2
<1>2. Quiet(u)
  <2>1. CASE Receive
    <3>1. Pending' = Pending
      BY <1>0, <2>1, Received
    <3> QED
      BY <2>1, <3>1, QueueKept DEF Receive, bus, Quiet, SameSession
  <2>2. ASSUME NEW w \in Unit, CbReset(w) \/ CbOtherBusState(w) PROVE Quiet(u)
    <3>1. /\ cur # <<>> /\ cur' = <<>> /\ cur[1].req \notin DataEvent
          /\ UNCHANGED <<queue, sess, bad>> /\ classSess' = classSess
      BY <2>2 DEF CbReset, CbOtherBusState, Handles, Working, bus, DataEvent
    <3> QED
      BY <1>0, <3>1, HandlerQuiet
  <2>3. ASSUME NEW w \in Unit, NEW c \in ClassStatus, CbSetup(w, c) PROVE Quiet(u)
    <3>1. /\ cur # <<>> /\ cur' = <<>> /\ cur[1].req \notin DataEvent
          /\ UNCHANGED <<queue, sess, bad>> /\ classSess' = classSess
      BY <2>3 DEF CbSetup, Handles, Working, bus, DataEvent
    <3> QED
      BY <1>0, <3>1, HandlerQuiet
  <2>4. ASSUME NEW w \in Unit, ClassSetup(w) PROVE \E c \in ClassStatus : CbSetup(w, c)
    BY <2>4 DEF ClassSetup, UsbdCdcSetup, UsbdCdcRndisSetup, UsbdVendorSetup, UsbdHidSetup,
                Answered, ClassStatus
  <2> QED
    BY <2>1, <2>2, <2>3, <2>4 DEF OtherTask
<1> QED
  BY <1>0, <1>1, <1>2, PipeKept

-----------------------------------------------------------------------------
(***************************************************************************)
(* The steps of the application.                                           *)
(***************************************************************************)
LEMMA AppStep ==
  ASSUME CoreInv, CoreInv', PipeInv, NEW w \in Unit, App(w), NEW u \in Unit
  PROVE  PipeUnit(u)'
<1>0. TypeOK /\ TypeOK' /\ PipeTypeOK /\ PipeUnit(u)
  BY DEF CoreInv, PipeInv
<1>1. TransmitTest(w) \/ TransmitMark(w) \/ TransmitSend(w) \/ Receiving(w)
  BY DEF App, UsbdCdcTransmit, UsbdCdcRndisTransmit, UsbdHidTransmit, UsbdCdcReceiving,
         UsbdCdcRndisReceiving
<1>2. /\ UNCHANGED vars /\ inited' = inited /\ opened' = opened
      /\ class' = class
  BY <1>1 DEF TransmitTest, TransmitMark, TransmitSend, Receiving, driver, endpoints, fixed
<1>3. Quiet(u) /\ Waiting(u)' = Waiting(u)
  <2>1. Pending' = Pending /\ sess' = sess /\ classSess' = classSess /\ bad' = bad
    BY <1>2 DEF vars, task, bus, Pending
  <2>2. SameSession(u)
    BY <2>1 DEF SameSession
  <2> QED
    BY <2>1, <2>2, QueueKept DEF Quiet
<1>4. CASE u # w
  <2>1. PipeSame(u)
    BY <1>0, <1>1, <1>4 DEF TransmitTest, TransmitMark, TransmitSend, Receiving, driver, calls,
                            endpoints, fixed, PipeTypeOK, PipeSame
  <2> QED
    BY <1>0, <1>3, <2>1, PipeKept
<1>5. CASE u = w
  <2>1. /\ Undisturbed(u)' = Undisturbed(u) /\ Completing(u)' = Completing(u)
        /\ (IsWaiting(u, "dataInDone") => IsWaiting(u, "dataInDone")')
        /\ (IsWaiting(u, "dataOut") => IsWaiting(u, "dataOut")')
        /\ (Single(u) => Single(u)')
    <3>1. Undisturbed(u)' = Undisturbed(u)
      BY <1>2 DEF vars, task, bus, Undisturbed
    <3>2. (IsWaiting(u, "dataInDone") => IsWaiting(u, "dataInDone")')
          /\ (IsWaiting(u, "dataOut") => IsWaiting(u, "dataOut")')
      BY <1>3, StillWaits DEF Quiet, DataEvent
    <3> QED
      BY <1>3, <3>1, <3>2 DEF Quiet, NoMoreDone, Completing
  <2>2. Ready(u)'
    BY <1>0, <1>2 DEF vars, task, bus, PipeUnit, Ready
  <2>t. tested[u] \in Nat /\ marked[u] \in Nat
    BY <1>0, UnitTyped
  <2>6. CASE TransmitTest(w)
    <3>1. /\ txState[u] = 0 /\ txState' = txState /\ inflight' = inflight /\ marked' = marked
          /\ tested'[u] = tested[u] + 1 /\ torn'[u] = (torn[u] \/ tested[u] > 0)
          /\ armed' = armed /\ held' = held
      BY <1>0, <1>5, <2>6 DEF TransmitTest, driver, endpoints, PipeTypeOK
    <3>2. Busy(u)' /\ Receives(u)'
      BY <1>0, <1>2, <2>1, <3>1 DEF PipeUnit, Busy, Receives
    <3>3. OneTransfer(u)'
      <4>n. ~torn'[u] => ~torn[u] /\ ~(tested[u] > 0)
        BY <3>1
      <4>0. ~torn'[u] => ~torn[u] /\ tested[u] = 0
        BY <2>t, <4>n
      <4> SUFFICES ASSUME ~torn[u], tested[u] = 0 PROVE OneTransfer(u)'
        BY <4>0, Zenon DEF OneTransfer
      <4>1. ~(marked[u] > 0 \/ inflight[u] \/ Completing(u)) /\ Single(u)
        BY <1>0, <3>1 DEF PipeUnit, OneTransfer
      <4>2. tested'[u] <= 1 /\ marked'[u] <= 1 /\ ~(marked'[u] > 0)
        BY <2>t, <3>1, <4>1
      <4>3. ~inflight'[u] /\ ~Completing(u)' /\ Single(u)'
        BY <2>1, <3>1, <4>1
      <4> QED
        BY <4>2, <4>3, Zenon DEF OneTransfer
    <3> QED
      BY <2>2, <3>2, <3>3 DEF PipeUnit
  <2>3. CASE TransmitMark(w)
    <3>1. /\ txState'[u] = 1 /\ marked'[u] = marked[u] + 1 /\ inflight' = inflight
          /\ tested[u] > 0 /\ tested'[u] = tested[u] - 1
          /\ armed' = armed /\ held' = held /\ torn' = torn
      BY <1>0, <1>5, <2>3 DEF TransmitMark, endpoints, fixed, PipeTypeOK
    <3>2. Busy(u)' /\ Receives(u)'
      BY <1>0, <1>2, <2>1, <2>t, <3>1 DEF PipeUnit, Busy, Receives
    <3>3. OneTransfer(u)'
      <4> SUFFICES ASSUME ~torn[u] PROVE OneTransfer(u)'
        BY <3>1 DEF OneTransfer
      <4>1. tested[u] = 1 /\ marked[u] = 0 /\ ~inflight[u] /\ ~Completing(u) /\ Single(u)
        BY <1>0, <2>t, <3>1 DEF PipeUnit, OneTransfer
      <4>2. tested'[u] <= 1 /\ marked'[u] <= 1 /\ tested'[u] = 0
        BY <2>t, <3>1, <4>1
      <4>3. ~inflight'[u] /\ ~Completing(u)' /\ Single(u)'
        BY <2>1, <3>1, <4>1
      <4> QED
        BY <3>1, <4>2, <4>3, Zenon DEF OneTransfer
    <3> QED
      BY <2>2, <3>2, <3>3 DEF PipeUnit
  <2>4. CASE TransmitSend(w)
    <3>1. /\ marked[u] > 0 /\ marked'[u] = marked[u] - 1 /\ tested' = tested
          /\ txState' = txState /\ torn' = torn
          /\ inflight'[u] = (inflight[u] \/ opened[u]) /\ armed' = armed /\ held' = held
      BY <1>0, <1>5, <2>4 DEF TransmitSend, driver, fixed, PipeTypeOK
    <3>2. Busy(u)'
      BY <1>0, <2>1, <3>1, UndisturbedIsUp DEF PipeUnit, Busy
    <3>3. Receives(u)'
      BY <1>0, <1>2, <2>1, <3>1 DEF PipeUnit, Receives
    <3>4. OneTransfer(u)'
      <4> SUFFICES ASSUME ~torn[u] PROVE OneTransfer(u)'
        BY <3>1 DEF OneTransfer
      <4>1. /\ tested[u] = 0 /\ marked[u] = 1 /\ ~inflight[u] /\ ~Completing(u) /\ Single(u)
            /\ txState[u] = 1
        BY <1>0, <2>t, <3>1 DEF PipeUnit, OneTransfer
      <4> QED
        BY <2>1, <3>1, <4>1 DEF OneTransfer
    <3> QED
      BY <2>2, <3>2, <3>3, <3>4 DEF PipeUnit
  <2>5. CASE Receiving(w)
    <3>1. /\ tested' = tested /\ marked' = marked /\ txState' = txState /\ inflight' = inflight
          /\ armed'[u] = (armed[u] \/ opened[u]) /\ torn' = torn
      BY <1>0, <1>5, <2>5 DEF Receiving, driver, calls, fixed, PipeTypeOK
    <3>2. Busy(u)'
      BY <1>0, <2>1, <3>1 DEF PipeUnit, Busy
    <3>3. Receives(u)'
      BY <1>0, <2>1, <3>1, UndisturbedIsUp DEF PipeUnit, Receives
    <3>4. OneTransfer(u)'
      BY <1>0, <1>2, <2>1, <3>1 DEF PipeUnit, OneTransfer
    <3> QED
      BY <2>2, <3>2, <3>3, <3>4 DEF PipeUnit
  <2> QED
    BY <1>1, <2>3, <2>4, <2>5, <2>6
<1> QED
  BY <1>4, <1>5

LEMMA OtherHostStep ==
  ASSUME CoreInv, CoreInv', PipeInv, NEW w \in Unit, OtherHost(w), NEW u \in Unit
  PROVE  PipeUnit(u)'
<1>0. TypeOK /\ TypeOK' /\ PipeUnit(u)
  BY DEF CoreInv, PipeInv
<1>1. PipeSame(u)
  BY DEF OtherHost, driver, app, calls, endpoints, fixed, PipeSame
<1> QED
  BY <1>0, <1>1, OtherHostQuiet, PipeKept

-----------------------------------------------------------------------------
(***************************************************************************)
(* The invariant.                                                          *)
(***************************************************************************)
LEMMA PipeTypesKept ==
  ASSUME PipeTypeOK, TypeOK', [PipeNext]_pipeVars
  PROVE  PipeTypeOK'
<1>1. CASE UNCHANGED pipeVars
  BY <1>1 DEF pipeVars, driver, app, calls, endpoints, fixed, PipeTypeOK
<1>2. CASE OtherTask
  BY <1>2 DEF OtherTask, driver, app, calls, endpoints, fixed, PipeTypeOK
<1>3. ASSUME NEW w \in Unit, ClassInit(w) PROVE PipeTypeOK'
  <2>1. /\ Opens(w) /\ Cleared(w)
        /\ held' = held \/ held' = [held EXCEPT ![w] = TRUE]
        /\ armed' = armed \/ armed' = [armed EXCEPT ![w] = TRUE]
    BY <1>3 DEF ClassInit, UsbdCdcInit, UsbdCdcRndisInit, UsbdHidInit, UsbdVendorInit
  <2>2. Unsettled(w) \in BOOLEAN
    BY DEF Unsettled
  <2>3. torn' \in [Unit -> BOOLEAN]
    BY <2>1, <2>2 DEF Opens, PipeTypeOK
  <2>4. txState' \in [Unit -> {0, 1}]
    BY <2>1 DEF Cleared, PipeTypeOK
  <2> QED
    BY <2>1, <2>3, <2>4 DEF Opens, calls, PipeTypeOK
<1>4. ASSUME NEW w \in Unit, TransferDone(w) PROVE PipeTypeOK'
  <2>1. txState' \in [Unit -> {0, 1}]
    BY <1>4 DEF TransferDone, PipeTypeOK
  <2>2. torn' \in [Unit -> BOOLEAN]
    <3>1. torn' = [torn EXCEPT ![w] = @ /\ Unsettled(w)']
      BY <1>4 DEF TransferDone
    <3>2. (torn[w] /\ Unsettled(w)') \in BOOLEAN
      OBVIOUS
    <3> QED
      BY <3>1, <3>2 DEF PipeTypeOK
  <2> QED
    BY <1>4, <2>1, <2>2 DEF TransferDone, app, calls, endpoints, PipeTypeOK
<1>5. ASSUME NEW w \in Unit, PacketReceived(w) PROVE PipeTypeOK'
  <2>1. Reached(w) \in BOOLEAN
    BY DEF Reached, Delivers, PipeTypeOK
  <2>2. held' \in [Unit -> BOOLEAN]
    BY <1>5, <2>1 DEF PacketReceived, PipeTypeOK
  <2> QED
    BY <1>5, <2>2 DEF PacketReceived, driver, calls, endpoints, fixed, PipeTypeOK
<1>6. ASSUME NEW w \in Unit, ClassSetup(w) PROVE PipeTypeOK'
  <2>1. UNCHANGED <<inited, txState, app, endpoints, fixed>>
    BY <1>6 DEF ClassSetup, UsbdCdcSetup, UsbdCdcRndisSetup, UsbdVendorSetup, UsbdHidSetup, Answered
  <2>2. enabled' \in [Unit -> BOOLEAN]
    BY <1>6 DEF ClassSetup, UsbdCdcSetup, UsbdCdcRndisSetup, UsbdVendorSetup, UsbdHidSetup, PipeTypeOK
  <2> QED
    BY <2>1, <2>2 DEF app, calls, endpoints, fixed, PipeTypeOK
<1>7. ASSUME NEW w \in Unit, PipeBusReset(w) \/ DataOutDone(w) \/ DataInDone(w) \/ OtherHost(w)
      PROVE  PipeTypeOK'
  BY <1>7 DEF PipeBusReset, DataOutDone, DataInDone, OtherHost, driver, app, calls, endpoints,
              fixed, PipeTypeOK
<1>8. ASSUME NEW w \in Unit, App(w) PROVE PipeTypeOK'
  <2>1. TransmitTest(w) \/ TransmitMark(w) \/ TransmitSend(w) \/ Receiving(w)
    BY <1>8 DEF App, UsbdCdcTransmit, UsbdCdcRndisTransmit, UsbdHidTransmit, UsbdCdcReceiving,
                UsbdCdcRndisReceiving
  <2>m. MaxCalls[class[w]] \in Nat /\ class' = class
    <3>1. class[w] \in PipeClass
      BY DEF PipeTypeOK
    <3>2. class' = class
      BY <2>1 DEF TransmitTest, TransmitMark, TransmitSend, Receiving, fixed
    <3> QED
      BY <3>1, <3>2
  <2>5. CASE TransmitTest(w)
    <3>1. /\ tested' = [tested EXCEPT ![w] = @ + 1] /\ marked' = marked
          /\ tested[w] + marked[w] < MaxCalls[class[w]]
          /\ torn' \in [Unit -> BOOLEAN]
      BY <2>5 DEF TransmitTest, PipeTypeOK
    <3>2. /\ tested' \in [Unit -> Nat] /\ marked' \in [Unit -> Nat]
          /\ \A u \in Unit : tested'[u] + marked'[u] <= MaxCalls[class[u]]
      BY <2>m, <3>1 DEF PipeTypeOK
    <3> QED
      BY <2>5, <2>m, <3>1, <3>2 DEF TransmitTest, driver, endpoints, PipeTypeOK
  <2>2. CASE TransmitMark(w)
    <3>1. /\ tested' = [tested EXCEPT ![w] = @ - 1] /\ tested[w] > 0
          /\ marked' = [marked EXCEPT ![w] = @ + 1] /\ txState' \in [Unit -> {0, 1}]
      BY <2>2 DEF TransmitMark, PipeTypeOK
    <3>2. /\ tested' \in [Unit -> Nat] /\ marked' \in [Unit -> Nat]
          /\ \A u \in Unit : tested'[u] + marked'[u] <= MaxCalls[class[u]]
      BY <2>m, <3>1 DEF PipeTypeOK
    <3> QED
      BY <2>2, <2>m, <3>1, <3>2 DEF TransmitMark, endpoints, fixed, PipeTypeOK
  <2>3. CASE TransmitSend(w)
    <3>1. marked' = [marked EXCEPT ![w] = @ - 1] /\ marked[w] > 0 /\ tested' = tested
      BY <2>3 DEF TransmitSend
    <3>2. /\ tested' \in [Unit -> Nat] /\ marked' \in [Unit -> Nat]
          /\ \A u \in Unit : tested'[u] + marked'[u] <= MaxCalls[class[u]]
      BY <2>m, <3>1 DEF PipeTypeOK
    <3> QED
      BY <2>3, <2>m, <3>2 DEF TransmitSend, driver, fixed, PipeTypeOK
  <2>4. CASE Receiving(w)
    BY <2>4 DEF Receiving, driver, calls, fixed, PipeTypeOK
  <2> QED
    BY <2>1, <2>2, <2>3, <2>4, <2>5
<1>9. ASSUME NEW w \in Unit, Data(w) PROVE TransferDone(w) \/ PacketReceived(w)
  BY <1>9 DEF Data, UsbdCdcDataIn, UsbdCdcRndisDataIn, UsbdHidDataInDone, UsbdCdcDataOut,
              UsbdCdcRndisDataOut
<1> QED
  BY <1>1, <1>2, <1>3, <1>4, <1>5, <1>6, <1>7, <1>8, <1>9 DEF PipeNext, PipeTask

LEMMA PipeUnitsKept ==
  ASSUME CoreInv, CoreInv', PipeInv, [PipeNext]_pipeVars, NEW u \in Unit
  PROVE  PipeUnit(u)'
<1>1. CASE UNCHANGED pipeVars
  <2>1. Pending' = Pending /\ PipeSame(u) /\ SameSession(u)
    BY <1>1 DEF pipeVars, vars, task, bus, driver, app, calls, endpoints, fixed, Pending, PipeSame,
                SameSession
  <2> QED
    BY <2>1, QueueKept, PipeKept DEF Quiet, PipeInv
<1>2. CASE OtherTask
  BY <1>2, OtherTaskStep
<1>3. ASSUME NEW w \in Unit, ClassInit(w) \/ Data(w) \/ ClassSetup(w) PROVE PipeUnit(u)'
  <2>1. CASE ClassInit(w)
    BY <2>1, ClassInitStep
  <2>2. CASE Data(w)
    <3>1. TransferDone(w) \/ PacketReceived(w)
      BY <2>2 DEF Data, UsbdCdcDataIn, UsbdCdcRndisDataIn, UsbdHidDataInDone, UsbdCdcDataOut,
                  UsbdCdcRndisDataOut
    <3> QED
      BY <3>1, TransferDoneStep, PacketReceivedStep
  <2>3. CASE ClassSetup(w)
    BY <2>3, OtherTaskStep
  <2> QED
    BY <1>3, <2>1, <2>2, <2>3
<1>4. ASSUME NEW w \in Unit,
             PipeBusReset(w) \/ DataOutDone(w) \/ DataInDone(w) \/ OtherHost(w) \/ App(w)
      PROVE  PipeUnit(u)'
  BY <1>4, PipeBusResetStep, DataOutDoneStep, DataInDoneStep, OtherHostStep, AppStep
<1> QED
  BY <1>1, <1>2, <1>3, <1>4 DEF PipeNext, PipeTask

LEMMA PipeInvKept ==
  CoreInv /\ CoreInv' /\ PipeInv /\ [PipeNext]_pipeVars => PipeInv'
<1> SUFFICES ASSUME CoreInv, CoreInv', PipeInv, [PipeNext]_pipeVars PROVE PipeInv'
  OBVIOUS
<1>1. PipeTypeOK'
  BY PipeTypesKept DEF CoreInv, PipeInv
<1>2. \A u \in Unit : PipeUnit(u)'
  BY PipeUnitsKept
<1> QED
  BY <1>1, <1>2 DEF PipeInv

LEMMA PipeInitially == PipeInit /\ CoreInv => PipeInv
<1> SUFFICES ASSUME PipeInit, CoreInv PROVE PipeInv
  OBVIOUS
<1>1. PipeTypeOK
  BY DEF PipeInit, CoreInv, No, PipeTypeOK
<1>2. ASSUME NEW u \in Unit PROVE PipeUnit(u)
  <2>1. /\ txState[u] = 0 /\ tested[u] = 0 /\ marked[u] = 0 /\ ~inflight[u]
        /\ classSess[u] = 0 /\ sess[u] = 0
        /\ queue = <<>> /\ cur = <<>>
    BY DEF PipeInit, Init, No
  <2>2. ~Undisturbed(u)
    <3>1. bad[u] \in Nat
      BY <1>1, UnitTyped
    <3> QED
      BY <2>1, <3>1 DEF Undisturbed
  <2>3. Len(Pending) = 0 /\ TypeOK
    BY <2>1 DEF Pending, CoreInv
  <2>4. ~Completing(u) /\ Single(u)
    BY <2>3, CompletingAt DEF Single
  <2> QED
    BY <2>1, <2>2, <2>4 DEF PipeUnit, Ready, Busy, Receives, OneTransfer
<1> QED
  BY <1>1, <1>2 DEF PipeInv

\* What the driver of each unit knows agrees with its endpoints and with what
\* waits in the core's queue (usbdcdc.c, usbdcdcrndis.c, usbdhid.c and
\* usbdvendor.c over usbdcore.c).
THEOREM PipeInvariant == PipeSpec => [](CoreInv /\ PipeInv)
BY PipeImplementsCore, CoreInvariant, PipeInitially, PipeInvKept, PTL DEF PipeSpec

\* The variables of the drivers, of the application and of the endpoints have
\* their types; TxState is never counted past 1 (pClassData of the drivers).
THEOREM PipeTypes == PipeSpec => []PipeTypeOK
<1>1. PipeInv => PipeTypeOK
  BY DEF PipeInv
<1> QED
  BY <1>1, PipeInvariant, PTL

\* In an undisturbed session the busy flag has a reason: UsbdCdcTransmit is not
\* refused for good (TxState, cleared by UsbdCdcDataIn).
THEOREM BusyFlagHasReason == PipeSpec => []BusyHasReason
<1>1. PipeInv => BusyHasReason
  BY DEF PipeInv, PipeUnit, Busy, BusyHasReason
<1> QED
  BY <1>1, PipeInvariant, PTL

\* In an undisturbed session OUT is armed, or its data are with the
\* application or on the way to it (UsbdCdcReceiving, UsbdCdcDataOut).
THEOREM ReceptionNeverDries == PipeSpec => []ReceptionGoesOn
<1>1. PipeInv => ReceptionGoesOn
  BY DEF PipeInv, PipeUnit, Receives, ReceptionGoesOn
<1> QED
  BY <1>1, PipeInvariant, PTL

\* Whatever the host does and however many tasks call UsbdCdcTransmit, TxState
\* keeps one transfer from being started on another, but for the two races its
\* commented-out semaphore leaves open: two calls that pass the test together, and
\* a class init in the middle; and their effect ends with the last completion.
THEOREM NoOverlapWithoutRace == PipeSpec => []OverlapNeedsRace
<1>1. PipeInv => OverlapNeedsRace
  <2> SUFFICES ASSUME PipeInv, NEW u \in Unit, marked[u] > 0, ~torn[u]
               PROVE  marked[u] = 1 /\ ~inflight[u] /\ ~Completing(u)
    BY DEF OverlapNeedsRace
  <2> QED
    BY UnitTyped DEF PipeInv, PipeUnit, OneTransfer
<1> QED
  BY <1>1, PipeInvariant, PTL
=============================================================================
