------------------------------ MODULE UsbdCore ------------------------------
(***************************************************************************)
(* The core of the device stack, usbdcore.c: interrupts of the controllers *)
(* leave request packets in one short queue, a task takes them out one by  *)
(* one and runs the bus state, setup and data handlers, which keep the     *)
(* device state of every unit and call the class layer.                    *)
(*                                                                         *)
(* The environment is a controller per unit, with one setup buffer that    *)
(* the packet only points to, and a host that resets the bus, enumerates   *)
(* the device, and times out on a request it gets no answer to.  A bus     *)
(* reset starts a new session of the unit; sessions are numbered by the    *)
(* model and carried in the packets as history.                            *)
(***************************************************************************)
EXTENDS Integers, Sequences, FiniteSets

CONSTANTS Unit,          \* the units in use
          QueueLen,      \* length of idCoreQueue (4 in UsbdcoreInit)
          MaxSess,       \* bound: bus resets per unit
          MaxEarly,      \* bound: timeouts on requests still waiting in the queue
          HostRequests   \* what the host asks for in each of its states

\* usbdifStatus_t
SUCCESS == 0
UNKNOWN == -1
STALL   == -100
ClassStatus == {SUCCESS, UNKNOWN, STALL}

\* usbdifDeviceState_t; the host's view of the device uses the same values.
\* (The suspended states are declared and never entered.)
DeviceState == {"default", "addressed", "configured"}

\* Requests, as far as the handlers tell them apart.  Unconfig is
\* SET_CONFIGURATION(0); DeviceFeature stands for the three standard device
\* requests that are handed to the class layer in any device state.
Request == {"SetAddress", "SetConfig", "Unconfig", "GetDescriptor",
            "BadDescriptor", "DeviceFeature", "ClassRequest"}
None == "none"

ASSUME CoreAssumption ==
  /\ QueueLen \in Nat \ {0} /\ MaxSess \in Nat /\ MaxEarly \in Nat
  /\ HostRequests \in [DeviceState -> SUBSET Request]
  /\ HostRequests["default"] \cap {"SetConfig", "Unconfig"} = {}
  /\ HostRequests["addressed"] \cap {"SetAddress", "Unconfig"} = {}
  /\ HostRequests["configured"] \cap {"SetAddress", "SetConfig"} = {}

BusEvent  == {"reset", "enumerated", "suspend"}    \* suspend: any ignored event
DataEvent == {"dataOut", "dataInDone"}
Packet == [unit : Unit, req : BusEvent \cup DataEvent \cup {"setup"}, sess : 0 .. MaxSess]

VARIABLES
  queue,        \* usbdif.idCoreQueue
  cur,          \* the packet the task works on, if any: <<>> or <<p>>
  deviceState,  \* sc[u].deviceState
  setup,        \* the controller's setup buffer, what pkt.p points to
  devSess,      \* (history) session of the last bus reset the task handled
  classSess,    \* (history) session of the last UsbifCbInit, 0 before
  sess,         \* the controller's session: number of bus resets
  phase,        \* the bus: "off", "reset" or "up" (enumerated)
  host,         \* the state the host believes the device in
  req,          \* the host's request under way, or None
  ans,          \* its answer on endpoint 0: None, "data" or "stall"
  bad,          \* (history) last session with a lost or overtaken packet
  early         \* timeouts used up

task    == <<cur, deviceState, devSess, classSess>>
control == <<setup, req, ans>>
bus     == <<sess, phase, host>>
vars    == <<queue, task, control, bus, bad, early>>

-----------------------------------------------------------------------------
Init ==
  /\ queue = <<>> /\ cur = <<>>
  /\ deviceState = [u \in Unit |-> "default"]
  /\ setup = [u \in Unit |-> "GetDescriptor"]
  /\ devSess = [u \in Unit |-> 0] /\ classSess = [u \in Unit |-> 0]
  /\ sess = [u \in Unit |-> 0] /\ phase = [u \in Unit |-> "off"]
  /\ host = [u \in Unit |-> "default"]
  /\ req = [u \in Unit |-> None] /\ ans = [u \in Unit |-> None]
  /\ bad = [u \in Unit |-> 0]
  /\ early = [u \in Unit |-> 0]

\* UsbdcoreCbIsr: a packet goes to the end of the queue; when the queue is
\* full it is dropped, and the caller is told SUCCESS all the same.
Queued(p) == Len(queue) < QueueLen
UsbdcoreCbIsrUnbounded(p) == queue' = Append(queue, p)          \* mutant
UsbdcoreCbIsr(p) == queue' = IF Queued(p) THEN Append(queue, p) ELSE queue

\* The packets of unit u that the task has not dealt with yet.
Pending == cur \o queue
Waiting(u) == {p \in {Pending[i] : i \in DOMAIN Pending} : p.unit = u}
SetupWaiting(u) == \E p \in Waiting(u) : p.req = "setup"

-----------------------------------------------------------------------------
(***************************************************************************)
(* The controller's interrupts and the host behind them.                   *)
(***************************************************************************)
Pkt(u, r) == [unit |-> u, req |-> r, sess |-> sess[u]]

\* The host resets the bus: its requests are void, the device is unaddressed.
BusReset(u) ==
  /\ sess[u] < MaxSess
  /\ sess'  = [sess EXCEPT ![u] = @ + 1]
  /\ phase' = [phase EXCEPT ![u] = "reset"]
  /\ host'  = [host EXCEPT ![u] = "default"]
  /\ req'   = [req EXCEPT ![u] = None]
  /\ ans'   = [ans EXCEPT ![u] = None]
  /\ LET p == [Pkt(u, "reset") EXCEPT !.sess = @ + 1]
     IN  /\ UsbdcoreCbIsr(p)
         /\ bad' = [bad EXCEPT ![u] = IF Queued(p) THEN @ ELSE p.sess]
  /\ UNCHANGED <<task, setup, early>>

\* An interrupt that only leaves a packet behind.
Notify(u, r) ==
  /\ UsbdcoreCbIsr(Pkt(u, r))
  /\ bad' = [bad EXCEPT ![u] = IF Queued(Pkt(u, r)) \/ r = "suspend" THEN @ ELSE sess[u]]
  /\ UNCHANGED <<task, control, sess, host, early>>

Enumerated(u) ==
  /\ phase[u] = "reset"
  /\ phase' = [phase EXCEPT ![u] = "up"]
  /\ Notify(u, "enumerated")

Suspend(u) == phase[u] = "up" /\ Notify(u, "suspend") /\ UNCHANGED phase

\* A transfer completes; a host stops its pipes before it takes the
\* configuration away.
DataDone(u, r) ==
  /\ phase[u] = "up" /\ host[u] = "configured" /\ req[u] # "Unconfig"
  /\ Notify(u, r)
  /\ UNCHANGED phase

\* A SETUP packet arrives and overwrites the setup buffer, whether or not an
\* older one still waits to be handled.
HostSetup(u, r) ==
  /\ phase[u] = "up" /\ req[u] = None /\ r \in HostRequests[host[u]]
  /\ setup' = [setup EXCEPT ![u] = r]
  /\ req'   = [req EXCEPT ![u] = r]
  /\ ans'   = [ans EXCEPT ![u] = None]
  /\ UsbdcoreCbIsr(Pkt(u, "setup"))
  /\ bad' = [bad EXCEPT ![u] = IF Queued(Pkt(u, "setup")) /\ ~SetupWaiting(u)
                               THEN @ ELSE sess[u]]
  /\ UNCHANGED <<task, bus, early>>

HostView(h, r, a) ==
  CASE a = "data" /\ r \in {"SetAddress", "Unconfig"} -> "addressed"
    [] a = "data" /\ r = "SetConfig" -> "configured"
    [] OTHER -> h

HostAnswered(u) ==
  /\ req[u] # None /\ ans[u] # None
  /\ host' = [host EXCEPT ![u] = HostView(@, req[u], ans[u])]
  /\ req'  = [req EXCEPT ![u] = None]
  /\ ans'  = [ans EXCEPT ![u] = None]
  /\ UNCHANGED <<queue, task, setup, sess, phase, bad, early>>

\* The host gives up on a request that was lost or handled without an answer.
HostTimeout(u) ==
  /\ req[u] # None /\ ans[u] = None /\ ~SetupWaiting(u)
  /\ req' = [req EXCEPT ![u] = None]
  /\ UNCHANGED <<queue, task, setup, ans, bus, bad, early>>

\* The host gives up on a request the task has not come to yet.
HostEarlyTimeout(u) ==
  /\ req[u] # None /\ ans[u] = None /\ SetupWaiting(u)
  /\ early[u] < MaxEarly
  /\ early' = [early EXCEPT ![u] = @ + 1]
  /\ req' = [req EXCEPT ![u] = None]
  /\ bad' = [bad EXCEPT ![u] = sess[u]]
  /\ UNCHANGED <<queue, task, setup, ans, bus>>

-----------------------------------------------------------------------------
(***************************************************************************)
(* The task: UsbdcoreCbExecute, called over and over by UsbifLoop.         *)
(***************************************************************************)
ReceiveLast ==                                                  \* mutant
  /\ cur = <<>> /\ queue # <<>>
  /\ cur' = <<queue[Len(queue)]>> /\ queue' = SubSeq(queue, 1, Len(queue) - 1)
  /\ UNCHANGED <<deviceState, devSess, classSess, control, bus, bad, early>>
\* RtosQueueRecv(.., -1): blocks until there is a packet.
Receive ==
  /\ cur = <<>> /\ queue # <<>>
  /\ cur' = <<Head(queue)>> /\ queue' = Tail(queue)
  /\ UNCHANGED <<deviceState, devSess, classSess, control, bus, bad, early>>

Working(u) == cur # <<>> /\ cur[1].unit = u
Handles(u, r) == Working(u) /\ cur[1].req = r /\ cur' = <<>>

CbResetKeeps(u) ==                                              \* mutant
  /\ Handles(u, "reset")
  /\ devSess' = [devSess EXCEPT ![u] = cur[1].sess]
  /\ UNCHANGED <<queue, deviceState, classSess, control, bus, bad, early>>
\* UsbdcoreCbBusState.  UsbifCbDeInit calls no class; other events do nothing.
CbReset(u) ==
  /\ Handles(u, "reset")
  /\ deviceState' = [deviceState EXCEPT ![u] = "default"]
  /\ devSess' = [devSess EXCEPT ![u] = cur[1].sess]
  /\ UNCHANGED <<queue, classSess, control, bus, bad, early>>

CbEnumerated(u) ==
  /\ Handles(u, "enumerated")
  /\ classSess' = [classSess EXCEPT ![u] = cur[1].sess]    \* UsbifCbInit
  /\ UNCHANGED <<queue, deviceState, devSess, control, bus, bad, early>>

CbOtherBusState(u) ==
  /\ Handles(u, "suspend")
  /\ UNCHANGED <<queue, deviceState, devSess, classSess, control, bus, bad, early>>

\* A status that passes through a uint8_t result.
U8(x) == x % 256

StandardStateSticky(st, r) ==                                   \* mutant
  CASE r = "SetConfig" -> "configured"
    [] r = "SetAddress" /\ st = "default" -> "addressed"
    [] OTHER -> st
StandardStateNoConfig(st, r) ==                                 \* mutant
  IF r = "SetAddress" /\ st = "default" THEN "addressed" ELSE st
\* UsbdcoreSetupStandardDeviceRequest: SET_CONFIGURATION toggles, whatever the
\* configuration value.
StandardState(st, r) ==
  CASE r \in {"SetConfig", "Unconfig"} /\ st = "addressed" -> "configured"
    [] r \in {"SetConfig", "Unconfig"} /\ st = "configured" -> "addressed"
    [] r = "SetAddress" /\ st = "default" -> "addressed"
    [] OTHER -> st

StandardStatus(st, r) ==
  CASE r \in {"SetConfig", "Unconfig", "GetDescriptor"} -> SUCCESS
    [] r = "SetAddress" /\ st = "default" -> SUCCESS
    [] OTHER -> STALL

\* UsbdcoreCbSetup: the status of request r; the class layer is not asked
\* about anything but device features until the unit is configured.
SetupStatus(st, r, classStatus) ==
  CASE r = "ClassRequest"  -> IF st = "configured" THEN U8(classStatus) ELSE UNKNOWN
    [] r = "DeviceFeature" -> U8(classStatus)
    [] OTHER               -> U8(StandardStatus(st, r))

Answer(status) ==
  CASE status = SUCCESS -> "data"      \* UsbdevCtrlSendData
    [] status = STALL   -> "stall"     \* UsbdevCtrlStall
    [] OTHER            -> None

\* The buffer is read now, whichever request it holds now.
CbSetup(u, classStatus) ==
  LET r == setup[u]
  IN  /\ Handles(u, "setup")
      /\ deviceState' = [deviceState EXCEPT ![u] = StandardState(@, r)]
      /\ ans' = [ans EXCEPT ![u] =
                   IF req[u] = None THEN None
                   ELSE Answer(SetupStatus(deviceState[u], r, classStatus))]
      /\ UNCHANGED <<queue, devSess, classSess, setup, req, bus, bad, early>>

\* UsbdcoreCbDataOut, UsbdcoreCbDataInDone: the class gets the event only when
\* the unit is configured.
Delivers(u) == deviceState[u] = "configured"
CbData(u, r) ==
  /\ Handles(u, r)
  /\ UNCHANGED <<queue, deviceState, devSess, classSess, control, bus, bad, early>>

-----------------------------------------------------------------------------
Execute(u) ==
  \/ CbReset(u) \/ CbEnumerated(u) \/ CbOtherBusState(u)
  \/ \E c \in ClassStatus : CbSetup(u, c)
  \/ \E r \in DataEvent : CbData(u, r)

Task == Receive \/ \E u \in Unit : Execute(u)

Host(u) ==
  \/ BusReset(u) \/ Enumerated(u) \/ Suspend(u)
  \/ \E r \in DataEvent : DataDone(u, r)
  \/ \E r \in Request : HostSetup(u, r)
  \/ HostAnswered(u) \/ HostTimeout(u) \/ HostEarlyTimeout(u)

Next == Task \/ \E u \in Unit : Host(u)
Spec == Init /\ [][Next]_vars

\* The request that takes the enumeration one step on.
Progress(u) == IF host[u] = "default" THEN "SetAddress" ELSE "SetConfig"

\* The task loop runs; the controller finishes a reset; the host goes on with
\* an enumeration it has begun, whatever else it asks for in between.
Fairness ==
  /\ WF_vars(Task)
  /\ \A u \in Unit : /\ WF_vars(Enumerated(u))
                     /\ WF_vars(HostAnswered(u))
                     /\ WF_vars(HostTimeout(u))
                     /\ SF_vars(HostSetup(u, Progress(u)))
FairSpec == Spec /\ Fairness

-----------------------------------------------------------------------------
(***************************************************************************)
(* Properties.                                                             *)
(***************************************************************************)
TypeOK ==
  /\ queue \in Seq(Packet) /\ Len(queue) <= QueueLen
  /\ cur \in Seq(Packet) /\ Len(cur) <= 1
  /\ deviceState \in [Unit -> DeviceState]
  /\ setup \in [Unit -> Request]
  /\ devSess \in [Unit -> 0 .. MaxSess]
  /\ classSess \in [Unit -> 0 .. MaxSess]
  /\ sess \in [Unit -> 0 .. MaxSess]
  /\ phase \in [Unit -> {"off", "reset", "up"}]
  /\ host \in [Unit -> DeviceState]
  /\ req \in [Unit -> Request \cup {None}]
  /\ ans \in [Unit -> {None, "data", "stall"}]
  /\ bad \in [Unit -> 0 .. MaxSess]
  /\ early \in [Unit -> 0 .. MaxEarly]

\* Since its last handled bus reset nothing of the unit was lost or overtaken.
Clean(u) == bad[u] < devSess[u]

\* When nothing is under way, the device state is the one the host believes
\* in: the enumeration loses no step and no step is taken twice.  A reset
\* that gets through repairs whatever earlier sessions did.
HostAgrees ==
  \A u \in Unit :
    (phase[u] # "off" /\ Waiting(u) = {} /\ req[u] = None /\ bad[u] < sess[u])
    => devSess[u] = sess[u] /\ deviceState[u] = host[u]

\* A unit is never configured before its classes were initialised in the same
\* session: data and class requests meet an initialised class.
ConfiguredIsInitialised ==
  \A u \in Unit : (deviceState[u] = "configured" /\ Clean(u)) => classSess[u] = devSess[u]

\* A transfer completed before a bus reset is never handed to a class that was
\* initialised after it.
NoStaleDelivery ==
  \A u \in Unit :
    (Working(u) /\ cur[1].req \in DataEvent /\ Delivers(u) /\ Clean(u))
    => cur[1].sess = devSess[u]

\* A completed transfer of a configured device reaches the class: it is not
\* thrown away for the device state the task happens to be in.
CompletionReachesClass ==
  \A u \in Unit :
    (Working(u) /\ cur[1].req \in DataEvent /\ Clean(u)) => Delivers(u)

\* An answer is true when the host sees it: the device is already in the state
\* the host will believe in, although the task may be handling other packets
\* by then.
AnswerIsTrue ==
  \A u \in Unit :
    (bad[u] < sess[u] /\ ans[u] # None)
    => deviceState[u] = HostView(host[u], req[u], ans[u])

\* Every enumeration ends with a configured device, unless the bus is reset
\* again or a packet was lost or overtaken.
EnumerationCompletes ==
  \A u \in Unit :
    phase[u] = "up" ~> \/ deviceState[u] = "configured" /\ classSess[u] = sess[u]
                       \/ phase[u] # "up"
                       \/ bad[u] = sess[u]

\* A SETUP packet in the queue is reached, however many other interrupts keep
\* arriving (on a full queue they are the ones that are lost).
SetupReached ==
  \A u \in Unit : SetupWaiting(u) ~> (Working(u) /\ cur[1].req = "setup")

-----------------------------------------------------------------------------
(***************************************************************************)
(* What the comments say and the code does not do.                         *)
(***************************************************************************)

\* "send the response packet": a request the handler rejects with STALL is
\* answered with a stall.
RejectedIsStalled ==
  [][\A u \in Unit :
       (Handles(u, "setup") /\ req[u] = "BadDescriptor" /\ setup[u] = "BadDescriptor")
       => ans'[u] = "stall"]_vars

=============================================================================
