------------------------------ MODULE UsbdPipe ------------------------------
(***************************************************************************)
(* The class drivers that pass data straight between the host and an       *)
(* application, usbdcdc.c, usbdcdcrndis.c, usbdhid.c and usbdvendor.c, on   *)
(* top of the core: one driver per unit, with an IN endpoint and (CDC,     *)
(* RNDIS) an OUT endpoint, and an application that sends and receives from *)
(* a task of its own.  Every step of the core is taken together with what  *)
(* the class or the controller's endpoints do in it.                       *)
(*                                                                         *)
(* Transmit tests the busy flag, sets it and starts the transfer; its      *)
(* semaphore is commented out, so another task of the application can call *)
(* it, and the core's task can run, between any two of the three.          *)
(***************************************************************************)
EXTENDS UsbdCore

CONSTANTS Classes,     \* the drivers a unit may be built with
          MaxCalls     \* bound: calls of Transmit under way, by driver

PipeClass == {"CDC", "RNDIS", "HID", "Vendor"}
ASSUME PipeAssumption == Classes \subseteq PipeClass /\ MaxCalls \in [PipeClass -> Nat]

HasOut == {"CDC", "RNDIS"}           \* opens an OUT endpoint

VARIABLES
  class,     \* the driver registered for the unit
  inited,    \* pClassData has been allocated (it is never freed)
  txState,   \* TxState
  enabled,   \* enOutputReport (HID)
  tested,    \* calls of Transmit that found TxState 0 and have not set it yet
  marked,    \* calls of Transmit that set TxState and have not sent yet
  held,      \* the application holds the receive buffer: OUT waits for it
  opened,    \* the controller's endpoints are open
  inflight,  \* a transfer is in progress on the IN endpoint
  armed,     \* the OUT endpoint has a buffer
  torn       \* (history) two calls passed the test together, or a class init
             \* ran with a call past its test, a transfer or a completion; until
             \* a completion finds nothing else of that left

driver    == <<inited, txState, enabled>>
calls     == <<tested, marked>>
app       == <<calls, held>>
endpoints == <<opened, inflight, armed>>
fixed     == <<class, torn>>
pipeVars  == <<vars, driver, app, endpoints, fixed>>

No  == [u \in Unit |-> FALSE]
PipeInit ==
  /\ Init
  /\ class \in [Unit -> Classes]
  /\ inited = No /\ txState = [u \in Unit |-> 0] /\ enabled = No
  /\ tested = [u \in Unit |-> 0] /\ marked = [u \in Unit |-> 0] /\ held = No
  /\ opened = No /\ inflight = No /\ armed = No /\ torn = No

-----------------------------------------------------------------------------
\* A bus reset aborts all transfers and closes the endpoints in hardware.
PipeBusReset(u) ==
  /\ BusReset(u)
  /\ opened'   = [opened EXCEPT ![u] = FALSE]
  /\ inflight' = [inflight EXCEPT ![u] = FALSE]
  /\ armed'    = [armed EXCEPT ![u] = FALSE]
  /\ UNCHANGED <<driver, app, fixed>>

DataOutDone(u) ==
  /\ armed[u]
  /\ DataDone(u, "dataOut")
  /\ armed' = [armed EXCEPT ![u] = FALSE]
  /\ UNCHANGED <<driver, app, opened, inflight, fixed>>

DataInDone(u) ==
  /\ inflight[u]
  /\ DataDone(u, "dataInDone")
  /\ inflight' = [inflight EXCEPT ![u] = FALSE]
  /\ UNCHANGED <<driver, app, opened, armed, fixed>>

OtherHost(u) ==
  /\ \/ Enumerated(u) \/ Suspend(u)
     \/ \E r \in Request : HostSetup(u, r)
     \/ HostAnswered(u) \/ HostTimeout(u) \/ HostEarlyTimeout(u)
  /\ UNCHANGED <<driver, app, endpoints, fixed>>

-----------------------------------------------------------------------------
Completing(u) == \E p \in Waiting(u) : p.req = "dataInDone"

\* Something of Transmit is under way: a call about to send, a transfer, or a
\* completion not yet handled; or two calls are past the test.
Unsettled(u) == marked[u] > 0 \/ tested[u] > 1 \/ inflight[u] \/ Completing(u)

\* What the four inits share: the handle is allocated once, the endpoints are
\* opened, TxState is cleared.
Opens(u) ==
  /\ CbEnumerated(u)
  /\ inited'  = [inited EXCEPT ![u] = TRUE]
  /\ opened'  = [opened EXCEPT ![u] = TRUE]
  /\ torn'    = [torn EXCEPT ![u] = Unsettled(u)]
  /\ UNCHANGED <<class, enabled, calls, inflight>>
Cleared(u) == txState' = [txState EXCEPT ![u] = 0]

UsbdCdcInitKeepsTx(u) ==                                        \* mutant
  /\ class[u] = "CDC" /\ Opens(u)
  /\ armed' = [armed EXCEPT ![u] = TRUE]
  /\ UNCHANGED <<txState, held>>
UsbdCdcInitUnarmed(u) ==                                        \* mutant
  class[u] = "CDC" /\ Opens(u) /\ Cleared(u) /\ UNCHANGED <<armed, held>>
\* UsbdCdcInit, by way of UsbifCbInit: prepares the first OUT transfer.
UsbdCdcInit(u) ==
  /\ class[u] = "CDC" /\ Opens(u) /\ Cleared(u)
  /\ armed' = [armed EXCEPT ![u] = TRUE]
  /\ UNCHANGED held

\* UsbdCdcRndisInit leaves OUT unarmed and calls the application's init, which
\* has to give a buffer.
UsbdCdcRndisInit(u) ==
  /\ class[u] = "RNDIS" /\ Opens(u) /\ Cleared(u)
  /\ held' = [held EXCEPT ![u] = TRUE]
  /\ UNCHANGED armed

\* UsbdHidInit opens IN only; the report enable keeps its value.
UsbdHidInit(u)    == class[u] = "HID" /\ Opens(u) /\ Cleared(u) /\ UNCHANGED <<held, armed>>
UsbdVendorInit(u) == class[u] = "Vendor" /\ Opens(u) /\ Cleared(u) /\ UNCHANGED <<held, armed>>

ClassInit(u) ==
  UsbdCdcInit(u) \/ UsbdCdcRndisInit(u) \/ UsbdHidInit(u) \/ UsbdVendorInit(u)

TransferDoneKeeps(u) ==                                         \* mutant
  CbData(u, "dataInDone") /\ UNCHANGED <<driver, app, endpoints, fixed>>
\* An event reaches the driver's callback when the unit is configured and the
\* handle is there; the transfer is done.
Reached(u) == Delivers(u) /\ inited[u]
TransferDone(u) ==
  /\ CbData(u, "dataInDone")
  /\ txState' = [txState EXCEPT ![u] = IF Reached(u) THEN 0 ELSE @]
  /\ UNCHANGED <<class, inited, enabled, app, endpoints>>
  /\ torn' = [torn EXCEPT ![u] = @ /\ Unsettled(u)']
UsbdCdcDataIn(u)      == class[u] = "CDC" /\ TransferDone(u)
UsbdCdcRndisDataIn(u) == class[u] = "RNDIS" /\ TransferDone(u)
UsbdHidDataInDone(u)  == class[u] = "HID" /\ TransferDone(u)

\* The application's recv callback takes the data.
PacketReceived(u) ==
  /\ CbData(u, "dataOut")
  /\ held' = [held EXCEPT ![u] = @ \/ Reached(u)]
  /\ UNCHANGED <<driver, calls, endpoints, fixed>>
UsbdCdcDataOut(u)      == class[u] = "CDC" /\ PacketReceived(u)
UsbdCdcRndisDataOut(u) == class[u] = "RNDIS" /\ PacketReceived(u)

Data(u) ==
  \/ UsbdCdcDataIn(u) \/ UsbdCdcRndisDataIn(u) \/ UsbdHidDataInDone(u)
  \/ UsbdCdcDataOut(u) \/ UsbdCdcRndisDataOut(u)

-----------------------------------------------------------------------------
\* CDC knows some class requests, RNDIS accepts everything, the vendor driver
\* asks the application.  RNDIS starts the answer to an IN request itself, then
\* the core starts an empty one (its len is 0): ans stands for both, and which
\* of them the host gets is the device driver's.
Answered(u, statuses) ==
  /\ \E c \in statuses : CbSetup(u, c)
  /\ UNCHANGED <<inited, txState, app, endpoints, fixed>>
UsbdCdcSetup(u)      == class[u] = "CDC" /\ Answered(u, {SUCCESS, STALL}) /\ UNCHANGED enabled
UsbdCdcRndisSetup(u) == class[u] = "RNDIS" /\ Answered(u, {SUCCESS}) /\ UNCHANGED enabled
UsbdVendorSetup(u)   == class[u] = "Vendor" /\ Answered(u, ClassStatus) /\ UNCHANGED enabled

\* SET_OUTPUT_REPORT sets the enable from its data; for a request it does not
\* know the driver returns an uninitialised result.
UsbdHidSetup(u) ==
  /\ class[u] = "HID"
  /\ \/ Answered(u, ClassStatus) /\ UNCHANGED enabled
     \/ /\ Reached(u) /\ setup[u] = "ClassRequest"
        /\ Answered(u, {SUCCESS})
        /\ \E en \in BOOLEAN : enabled' = [enabled EXCEPT ![u] = en]

ClassSetup(u) == UsbdCdcSetup(u) \/ UsbdCdcRndisSetup(u) \/ UsbdVendorSetup(u) \/ UsbdHidSetup(u)

OtherTask ==
  /\ Receive \/ \E u \in Unit : CbReset(u) \/ CbOtherBusState(u)
  /\ UNCHANGED <<driver, app, endpoints, fixed>>

PipeTask ==
  \/ OtherTask
  \/ \E u \in Unit : ClassInit(u) \/ Data(u) \/ ClassSetup(u)

-----------------------------------------------------------------------------
TransmitTestBusy(u) ==                                          \* mutant
  /\ inited[u] /\ tested[u] + marked[u] < MaxCalls[class[u]]
  /\ tested' = [tested EXCEPT ![u] = @ + 1]
  /\ torn' = [torn EXCEPT ![u] = @ \/ tested[u] > 0]
  /\ UNCHANGED <<vars, driver, class, marked, held, endpoints>>
\* A transmit function, up to the test of TxState (a refused call does nothing).
TransmitTest(u) ==
  /\ inited[u] /\ tested[u] + marked[u] < MaxCalls[class[u]]
  /\ txState[u] = 0
  /\ tested' = [tested EXCEPT ![u] = @ + 1]
  /\ torn' = [torn EXCEPT ![u] = @ \/ tested[u] > 0]
  /\ UNCHANGED <<vars, driver, class, marked, held, endpoints>>
UsbdCdcTransmit(u)      == class[u] = "CDC" /\ TransmitTest(u)
UsbdCdcRndisTransmit(u) == class[u] = "RNDIS" /\ TransmitTest(u)
UsbdHidTransmit(u)      == class[u] = "HID" /\ enabled[u] /\ TransmitTest(u)

TransmitMarkCount(u) ==                                         \* mutant
  /\ tested[u] > 0
  /\ tested' = [tested EXCEPT ![u] = @ - 1]
  /\ txState' = [txState EXCEPT ![u] = @ + 1]
  /\ marked' = [marked EXCEPT ![u] = @ + 1]
  /\ UNCHANGED <<vars, inited, enabled, held, endpoints, fixed>>
\* .., TxState = 1, whatever it has become since the test.
TransmitMark(u) ==
  /\ tested[u] > 0
  /\ tested' = [tested EXCEPT ![u] = @ - 1]
  /\ txState' = [txState EXCEPT ![u] = 1]
  /\ marked' = [marked EXCEPT ![u] = @ + 1]
  /\ UNCHANGED <<vars, inited, enabled, held, endpoints, fixed>>

\* .., from UsbdevTransmit on; without effect on a closed endpoint.
TransmitSend(u) ==
  /\ marked[u] > 0
  /\ marked' = [marked EXCEPT ![u] = @ - 1]
  /\ inflight' = [inflight EXCEPT ![u] = @ \/ opened[u]]
  /\ UNCHANGED <<vars, driver, tested, held, opened, armed, fixed>>

\* The application gives a buffer for the next packet.
Receiving(u) ==
  /\ held[u]
  /\ held' = [held EXCEPT ![u] = FALSE]
  /\ armed' = [armed EXCEPT ![u] = @ \/ opened[u]]
  /\ UNCHANGED <<vars, driver, calls, opened, inflight, fixed>>
UsbdCdcReceiving(u)      == class[u] = "CDC" /\ Receiving(u)
UsbdCdcRndisReceiving(u) == class[u] = "RNDIS" /\ Receiving(u)

App(u) ==
  \/ UsbdCdcTransmit(u) \/ UsbdCdcRndisTransmit(u) \/ UsbdHidTransmit(u)
  \/ TransmitMark(u) \/ TransmitSend(u)
  \/ UsbdCdcReceiving(u) \/ UsbdCdcRndisReceiving(u)

-----------------------------------------------------------------------------
PipeNext ==
  \/ PipeTask
  \/ \E u \in Unit : PipeBusReset(u) \/ DataOutDone(u) \/ DataInDone(u) \/ OtherHost(u) \/ App(u)
PipeSpec == PipeInit /\ [][PipeNext]_pipeVars

\* As for the core; a host keeps polling the IN endpoint of a device it has
\* configured; a call of the application returns.
PipeFairness ==
  /\ WF_pipeVars(PipeTask)
  /\ \A u \in Unit :
       /\ WF_pipeVars(Enumerated(u) /\ OtherHost(u))
       /\ WF_pipeVars(HostAnswered(u) /\ OtherHost(u))
       /\ WF_pipeVars(HostTimeout(u) /\ OtherHost(u))
       /\ SF_pipeVars(HostSetup(u, Progress(u)) /\ OtherHost(u))
       /\ SF_pipeVars(DataInDone(u))
       /\ WF_pipeVars(TransmitSend(u))
PipeFairSpec == PipeSpec /\ PipeFairness

-----------------------------------------------------------------------------
(***************************************************************************)
(* Properties.                                                             *)
(***************************************************************************)
\* Every variable has its type.
PipeTypeOK ==
  /\ TypeOK
  /\ class \in [Unit -> Classes]
  /\ inited \in [Unit -> BOOLEAN] /\ enabled \in [Unit -> BOOLEAN]
  /\ txState \in [Unit -> {0, 1}]
  /\ tested \in [Unit -> Nat] /\ marked \in [Unit -> Nat]
  /\ \A u \in Unit : tested[u] + marked[u] <= MaxCalls[class[u]]
  /\ held \in [Unit -> BOOLEAN]
  /\ opened \in [Unit -> BOOLEAN]
  /\ inflight \in [Unit -> BOOLEAN]
  /\ armed \in [Unit -> BOOLEAN]
  /\ torn \in [Unit -> BOOLEAN]

\* Nothing of this session was lost or overtaken, and its classes are up.
Undisturbed(u) == classSess[u] = sess[u] /\ bad[u] < sess[u]
IsWaiting(u, r) == \E p \in Waiting(u) : p.req = r /\ p.sess = sess[u]

\* The busy flag never outlives its reason: a transfer about to start, under
\* way, or finished with its completion still in the queue.  (A flag without
\* a reason blocks the driver's Transmit for good.)
BusyHasReason ==
  \A u \in Unit : (Undisturbed(u) /\ txState[u] = 1) =>
    marked[u] > 0 \/ inflight[u] \/ IsWaiting(u, "dataInDone")

\* Reception never dries up: the OUT endpoint is armed, or its data are on
\* the way to the application or with it.
ReceptionGoesOn ==
  \A u \in Unit : (Undisturbed(u) /\ class[u] \in HasOut) =>
    armed[u] \/ held[u] \/ IsWaiting(u, "dataOut")

\* What TxState is worth without the semaphore: a second transfer is started on
\* a running one, or with a completion on its way, only after one of two races,
\* two calls that read TxState before either set it, or a class init between
\* the test and the handling of the completion; and not for longer than until
\* all they started has been handled.  A loss or an overtaken packet, a bus reset
\* and a call that comes while the endpoint is busy do no harm.
OverlapNeedsRace ==
  \A u \in Unit : (marked[u] > 0 /\ ~torn[u]) =>
    marked[u] = 1 /\ ~inflight[u] /\ ~Completing(u)

\* A busy endpoint becomes free again, unless the bus is reset or a packet is
\* lost or overtaken.
BusyIsReleased ==
  \A u \in Unit : txState[u] = 1 ~> txState[u] = 0 \/ phase[u] # "up" \/ bad[u] = sess[u]

-----------------------------------------------------------------------------
(***************************************************************************)
(* What the comments say and the code does not do.                         *)
(***************************************************************************)

\* TxState is the "idle/busy state" of the endpoint: a sender that found it
\* idle does not start a second transfer on top of one in progress.  False
\* when UsbdCdcInit clears TxState inside UsbdCdcTransmit.
NoTransferOnTopOfAnother == \A u \in Unit : marked[u] > 0 => ~inflight[u]

=============================================================================
