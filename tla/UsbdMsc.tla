------------------------------ MODULE UsbdMsc ------------------------------
(***************************************************************************)
(* The mass storage class: the endpoint callbacks of usbdmsc.c, the bulk   *)
(* only transport of usbdmsc_bot.c and the SCSI commands of                *)
(* usbdmsc_scsi.c, between a host and the application's drive.             *)
(*                                                                         *)
(*   setting:  CBW         ->  CSW                                         *)
(*   data out: CBW + data  ->  CSW                                         *)
(*   data in:  CBW         ->  data + CSW                                  *)
(*                                                                         *)
(* Lengths are counted in units smaller than a block.  The events of the   *)
(* endpoints reach the class in the order they happened, those from before *)
(* a bus reset before the initialisation that follows it: so does UsbdCore *)
(* as long as its queue drops none, which is assumed here.                 *)
(***************************************************************************)
EXTENDS Integers, Sequences, FiniteSetsExt

CONSTANTS BlockSize,   \* units of a drive block
          FirstMax,    \* the 4096 of UsbdmscBotDataInStart
          Chunk,       \* blocks in one buffer of the application
          CbwLen,      \* USBDMSC_BOT_CBW_SIZE
          RxBufLen,    \* sizeof(usbdmscBufRx)
          RespLen,     \* length of a response built in bufTx
          Commands,    \* the commands the host sends
          MaxReset     \* bound: bus resets

Op == {"read", "write", "response", "capacity", "ready", "setting", "unsupported"}
Command == [op : Op, dir : {"in", "out"}, lba : Nat, cnt : Nat, dataLen : Nat]

ASSUME MscAssumption ==
  /\ {BlockSize, FirstMax, Chunk, CbwLen, RespLen} \subseteq Nat \ {0}
  /\ RxBufLen \in Nat /\ CbwLen <= RxBufLen /\ MaxReset \in Nat
  /\ Commands \subseteq Command
  /\ \A c \in Commands : c.op \in {"read", "write"} => c.dataLen = c.cnt * BlockSize

\* What the proofs assume of the host and the application: data only for the
\* commands that have some, in their direction; room for every response; and a
\* buffer of the application as long as the first transfer.
Ordinary(commands) ==
  /\ FirstMax = Chunk * BlockSize /\ RespLen <= FirstMax
  /\ \A c \in commands : c.dataLen > 0 =>
       \/ c.op = "read" /\ c.dir = "in"
       \/ c.op = "write" /\ c.dir = "out"
       \/ c.op \in {"response", "capacity"} /\ c.dir = "in" /\ RespLen <= c.dataLen

None == [kind |-> "none"]

\* Buffers: usbdmscBufRx, bufTx, the application's buffer, which after a read
\* holds the blocks from lba on, and NULL.
BufferType == [kind : {"bufRx", "bufTx", "app", "disk", "null"}, lba : Nat]
Buffer(name, lba) == [kind |-> name, lba |-> lba]
BufRx  == Buffer("bufRx", 0)
BufTx  == Buffer("bufTx", 0)
AppBuf == Buffer("app", 0)
Null   == Buffer("null", 0)

VARIABLES
  m,        \* the driver's variables, see MscState
  open,     \* the endpoints are open
  armed,    \* the OUT transfer prepared: buffer length, or 0
  inEp,     \* the IN transfer in progress, or None
  ev,       \* events on their way to the class, oldest first
  host,     \* "reset", "ready", "data" or "status"; "confused" after a
            \* transfer it did not expect
  cmd,      \* the host's current or last command
  rest,     \* units of the command's data still to be transferred
  got,      \* (history) blocks received for the command
  result,   \* its status: 0, 1, or -1 before the CSW
  written,  \* (history) blocks written by it, in the order of the callbacks
  stray,    \* (history) length of the last stray packet since the last CBW
            \* or bus reset, or 0
  resets    \* bus resets so far

vars == <<m, open, armed, inEp, ev, host, cmd, rest, got, result, written, stray, resets>>
hostVars == <<host, cmd, rest, got, result, stray, resets>>

MscState ==
  [state : {"IDLE", "DATA"},                             \* bot.state
   sendBuf : BufferType,                                 \* usbdmscBotSendBuf
   sendBufLen : Nat, sendBufPos : Nat,                   \* ..SendBufLen, ..Pos
   sendLen : Nat, sendPos : Nat,                         \* usbdmscBotSendLen, ..Pos
   lba : Nat, lbaCnt : Nat, blockSize : {0, BlockSize},  \* usbdmsc_scsi.c
   rxBuf : BufferType, rxLen : Nat]                      \* pMsc->RxBuffer, RxLength

NoCommand == [op |-> "setting", dir |-> "out", lba |-> 0, cnt |-> 0, dataLen |-> 0]

Init ==
  /\ m = [state |-> "IDLE", sendBuf |-> Null, sendBufLen |-> 0, sendBufPos |-> 0,
          sendLen |-> 0, sendPos |-> 0, lba |-> 0, lbaCnt |-> 0, blockSize |-> 0,
          rxBuf |-> Null, rxLen |-> 0]
  /\ open = FALSE /\ armed = 0 /\ inEp = None
  /\ ev = <<[type |-> "init"]>>
  /\ host = "reset" /\ cmd = NoCommand /\ rest = 0 /\ got = <<>> /\ result = -1
  /\ written = <<>> /\ stray = 0 /\ resets = 0

-----------------------------------------------------------------------------
(***************************************************************************)
(* Host and controller.                                                    *)
(***************************************************************************)
BusReset ==
  /\ resets < MaxReset
  /\ resets' = resets + 1
  /\ host' = "reset" /\ result' = -1 /\ stray' = 0
  /\ open' = FALSE /\ armed' = 0 /\ inEp' = None
  /\ ev' = Append(ev, [type |-> "init"])
  /\ UNCHANGED <<m, cmd, rest, got, written>>

HostConfigures ==
  /\ host = "reset" /\ \A i \in DOMAIN ev : ev[i].type # "init"
  /\ host' = "ready"
  /\ UNCHANGED <<m, open, armed, inEp, ev, cmd, rest, got, result, written, stray, resets>>

\* The host asks for blocks only once it knows the capacity.  A packet arrives
\* whole, also when the transfer was prepared for less (the controller).
HostCommand(c) ==
  /\ host = "ready" /\ armed > 0
  /\ c.op \in {"read", "write"} => m.blockSize # 0
  /\ cmd' = c /\ rest' = c.dataLen /\ got' = <<>> /\ result' = -1 /\ written' = <<>>
  /\ host' = IF c.dataLen > 0 THEN "data" ELSE "status"
  /\ armed' = 0 /\ stray' = 0
  /\ ev' = Append(ev, [type |-> "out", size |-> CbwLen, cbw |-> TRUE])
  /\ UNCHANGED <<m, open, inEp, resets>>

\* The host sends data.  Blocks are whole packets, so the transfer completes
\* only when the prepared length has arrived.
HostSends ==
  /\ host = "data" /\ cmd.dir = "out" /\ armed > 0 /\ armed <= rest
  /\ rest' = rest - armed
  /\ host' = IF rest = armed THEN "status" ELSE "data"
  /\ ev' = Append(ev, [type |-> "out", size |-> armed, cbw |-> FALSE])
  /\ armed' = 0
  /\ UNCHANGED <<m, open, inEp, cmd, got, result, written, stray, resets>>

\* A packet without the signature of a CBW, of any length, the empty one too;
\* the host expects nothing of it.  The buffer takes one packet.
HostStray ==
  /\ host = "ready" /\ armed > 0
  /\ armed' = 0
  /\ stray' \in 0 .. RxBufLen
  /\ ev' = Append(ev, [type |-> "out", size |-> stray', cbw |-> FALSE])
  /\ UNCHANGED <<m, open, inEp, host, cmd, rest, got, result, written, resets>>

\* Blocks of the drive, cnt from lba on.
BlocksFrom(lba, cnt) == [i \in 1 .. cnt |-> lba + i - 1]

\* The blocks in a transfer.
BlocksIn(x) ==
  IF x.buf.kind = "disk" THEN BlocksFrom(x.buf.lba, x.size \div BlockSize) ELSE <<>>

\* The host takes the IN transfer: data until it has what it asked for or a
\* short packet ends the data phase, then the CSW.  The responses built in
\* bufTx are all shorter than a packet.
Short(x) == x.size = 0 \/ x.buf = BufTx
HostTakes ==
  /\ inEp # None /\ host \in {"data", "status"}
  /\ host = "data" => cmd.dir = "in"
  /\ CASE host = "data" /\ inEp.kind = "data" /\ inEp.size <= rest ->
            /\ rest' = rest - inEp.size
            /\ got'  = got \o BlocksIn(inEp)
            /\ host' = IF rest' = 0 \/ Short(inEp) THEN "status" ELSE "data"
            /\ UNCHANGED result
       [] host = "status" /\ inEp.kind = "csw" ->
            result' = inEp.status /\ host' = "ready" /\ UNCHANGED <<rest, got>>
       [] OTHER -> host' = "confused" /\ UNCHANGED <<rest, got, result>>
  /\ inEp' = None
  /\ ev' = Append(ev, [type |-> "in"])
  /\ UNCHANGED <<m, open, armed, cmd, written, stray, resets>>

-----------------------------------------------------------------------------
(***************************************************************************)
(* The application: the read and write callbacks (external).               *)
(***************************************************************************)
\* A buffer holds Chunk blocks; the callback is told how many blocks the
\* command names and hands out a buffer for at most that many.
Handed(s) == Min({s.lbaCnt, Chunk})

(***************************************************************************)
(* usbdmsc_scsi.c and the buffers of usbdmsc_bot.c.                        *)
(***************************************************************************)
\* UsbdmscBotSendData: total <= 0 leaves the running transfer's counters.
SendData(s, buf, len, total) ==
  LET t == [s EXCEPT !.sendBuf = buf, !.sendBufLen = len, !.sendBufPos = 0]
  IN  IF total > 0 THEN [t EXCEPT !.sendLen = total, !.sendPos = 0] ELSE t

ReadAndSendFixed(s, first) ==                                   \* mutant
  LET cnt == Handed(s)
      t   == SendData(s, Buffer("disk", s.lba), cnt * BlockSize,
                      IF first THEN s.lbaCnt * s.blockSize ELSE -1)
  IN  [t EXCEPT !.lba = @ + cnt, !.lbaCnt = @ - Chunk]
ReadAndSendAgain(s, first) ==                                   \* mutant
  LET t == SendData(s, Buffer("disk", s.lba), Handed(s) * BlockSize,
                    IF first THEN s.lbaCnt * s.blockSize ELSE -1)
  IN  [t EXCEPT !.lbaCnt = @ - Handed(s)]
\* UsbdmscScsiDataReadAndSend.
ReadAndSend(s, first) ==
  LET cnt == Handed(s)
      t   == SendData(s, Buffer("disk", s.lba), cnt * BlockSize,
                      IF first THEN s.lbaCnt * s.blockSize ELSE -1)
  IN  [t EXCEPT !.lba = @ + cnt, !.lbaCnt = @ - cnt]

RecvAndWriteAgain(s, size) ==                                   \* mutant
  SendData(s, AppBuf, Handed(s) * BlockSize, -1)
\* UsbdmscScsiDataRecvAndWrite: size units are written; lbaCnt stays.
RecvAndWrite(s, size) ==
  LET t == SendData(s, AppBuf, Handed(s) * BlockSize, -1)
  IN  [t EXCEPT !.lba = @ + size \div BlockSize]
WriteCall(s, size) == BlocksFrom(s.lba, size \div BlockSize)

\* Read(10) and write(10) take the blocks from the command; a write hands
\* nothing over yet, it only asks for a buffer.
Read10(s, c)  == ReadAndSend([s EXCEPT !.lba = c.lba, !.lbaCnt = c.cnt], TRUE)
Write10(s, c) == RecvAndWrite([s EXCEPT !.lba = c.lba, !.lbaCnt = c.cnt], 0)

\* INQUIRY, REQUEST SENSE, MODE SENSE: a fixed response.
Response(s) == SendData(s, BufTx, RespLen, RespLen)

\* UsbdmscScsiCtrl: the driver's state after the command.  READ CAPACITY and
\* TEST UNIT READY have the application fill in the drive information;
\* PREVENT ALLOW and START STOP change nothing the driver reads.
ScsiState(s, c) ==
  CASE c.op = "read"     -> Read10(s, c)
    [] c.op = "write"    -> Write10(s, c)
    [] c.op = "response" -> Response(s)
    [] c.op = "capacity" -> Response([s EXCEPT !.blockSize = BlockSize])
    [] c.op = "ready"    -> [s EXCEPT !.blockSize = BlockSize]
    [] OTHER             -> s

\* TEST UNIT READY asks the application, the rest is fixed.
ScsiStatuses(c) ==
  CASE c.op = "ready" -> {0, 1} [] c.op = "unsupported" -> {1} [] OTHER -> {0}

-----------------------------------------------------------------------------
(***************************************************************************)
(* usbdmsc_bot.c and usbdmsc.c.                                            *)
(***************************************************************************)
\* UsbdevTransmit and UsbdevPrepareRecv have no effect on a closed endpoint.
Transmit(x)      == inEp' = IF open THEN x ELSE inEp
PrepareRecv(len) == armed' = IF open THEN len ELSE armed

Data(buf, size) == [kind |-> "data", buf |-> buf, size |-> size]
Csw(status)     == [kind |-> "csw", status |-> status]

MscInitKeepsState ==                                            \* mutant
  /\ ev # <<>> /\ Head(ev).type = "init"
  /\ ev' = Tail(ev)
  /\ open' = TRUE
  /\ m' = [m EXCEPT !.rxBuf = BufRx, !.rxLen = RxBufLen]
  /\ armed' = RxBufLen
  /\ UNCHANGED <<inEp, hostVars, written>>
\* UsbdMscInit and UsbdmscBotInit: the SendXXX statics keep their values.
MscInit ==
  /\ ev # <<>> /\ Head(ev).type = "init"
  /\ ev' = Tail(ev)
  /\ open' = TRUE
  /\ m' = [m EXCEPT !.state = "IDLE", !.rxBuf = BufRx, !.rxLen = RxBufLen]
  /\ armed' = RxBufLen
  /\ UNCHANGED <<inEp, hostVars, written>>

Event(type) == ev # <<>> /\ Head(ev).type = type /\ ev' = Tail(ev)

\* UsbdmscBotDataInDone in state IDLE: the CSW has been taken.
AfterStatusAgain ==                                             \* mutant
  m.state = "IDLE" /\ Transmit(Csw(0)) /\ UNCHANGED m
AfterStatus ==
  m.state = "IDLE" /\ UNCHANGED <<m, inEp>>

\* In state DATA: the next data, of the length the last buffer had.
NextData ==
  /\ m.state = "DATA" /\ m.sendPos < m.sendLen
  /\ LET size == Min({m.sendLen - m.sendPos, m.sendBufLen})
         s    == ReadAndSend(m, FALSE)
     IN  /\ m' = [s EXCEPT !.sendPos = @ + size]
         /\ Transmit(Data(s.sendBuf, size))

\* In state DATA, when all data are sent: the CSW, always with SUCCESS.
AfterDataSilent ==                                              \* mutant
  /\ m.state = "DATA" /\ m.sendPos >= m.sendLen
  /\ m' = [m EXCEPT !.sendLen = 0, !.sendPos = 0, !.state = "IDLE"]
  /\ UNCHANGED inEp
AfterData ==
  /\ m.state = "DATA" /\ m.sendPos >= m.sendLen
  /\ m' = [m EXCEPT !.sendLen = 0, !.sendPos = 0, !.state = "IDLE"]
  /\ Transmit(Csw(0))

DataInDone ==
  /\ Event("in")
  /\ AfterStatus \/ NextData \/ AfterData
  /\ UNCHANGED <<open, armed, hostVars, written>>

RearmAsLeft(s, size) == m' = s /\ PrepareRecv(s.rxLen)          \* mutant
\* The end of UsbdMscDataOut: the next OUT transfer.
Rearm(s, size) ==
  LET t == IF s.rxBuf = Null \/ s.rxLen = 0 \/ size = 0
           THEN [s EXCEPT !.rxBuf = BufRx, !.rxLen = RxBufLen] ELSE s
  IN  m' = t /\ PrepareRecv(t.rxLen)

\* UsbdMscDataOut, a CBW.
DataOutCbw ==
  /\ Event("out") /\ m.state = "IDLE" /\ Head(ev).cbw
  /\ LET s == ScsiState([m EXCEPT !.rxLen = CbwLen], cmd)
     IN  \/ /\ cmd.dataLen > 0 /\ cmd.dir = "in"             \* UsbdmscBotDataInStart
            /\ LET size == Min({s.sendLen, FirstMax})
               IN  /\ Transmit(Data(s.sendBuf, size))
                   /\ Rearm([s EXCEPT !.sendPos = @ + size, !.state = "DATA"], CbwLen)
         \/ /\ cmd.dataLen > 0 /\ cmd.dir = "out"
            /\ Rearm([s EXCEPT !.sendLen = cmd.dataLen, !.sendPos = 0, !.state = "DATA",
                               !.rxBuf = s.sendBuf, !.rxLen = s.sendBufLen], CbwLen)
            /\ UNCHANGED inEp
         \/ /\ cmd.dataLen = 0
            /\ \E status \in ScsiStatuses(cmd) : Transmit(Csw(status))
            /\ Rearm(s, CbwLen)
  /\ UNCHANGED <<open, hostVars, written>>

\* UsbdMscDataOut, anything else in state IDLE: the signature check fails.
DataOutNoCbw ==
  /\ Event("out") /\ m.state = "IDLE" /\ ~Head(ev).cbw
  /\ Rearm([m EXCEPT !.rxLen = Head(ev).size], Head(ev).size)
  /\ UNCHANGED <<inEp, open, hostVars, written>>

\* UsbdMscDataOut in state DATA: a full buffer is written, and the count goes
\* on by *size, which by then is the length of the next buffer.
DataOutData ==
  /\ Event("out") /\ m.state = "DATA"
  /\ LET size == Head(ev).size
         full == m.sendBufPos + size >= m.sendBufLen
         w    == RecvAndWrite(m, m.sendBufLen)
         s    == IF full THEN [w EXCEPT !.rxBuf = w.sendBuf, !.rxLen = w.sendBufLen]
                 ELSE [m EXCEPT !.sendBufPos = @ + size, !.rxLen = size]
         pos  == s.sendPos + s.rxLen
     IN  /\ written' = IF full THEN written \o WriteCall(m, m.sendBufLen) ELSE written
         /\ \/ /\ pos >= m.sendLen
               /\ Transmit(Csw(0))
               /\ Rearm([s EXCEPT !.sendPos = pos, !.rxBuf = Null, !.rxLen = 0,
                                  !.state = "IDLE"], size)
            \/ /\ pos < m.sendLen
               /\ Rearm([s EXCEPT !.sendPos = pos], size)
               /\ UNCHANGED inEp
  /\ UNCHANGED <<open, hostVars>>

Task == MscInit \/ DataInDone \/ DataOutCbw \/ DataOutNoCbw \/ DataOutData
Host == BusReset \/ HostConfigures \/ HostSends \/ HostStray \/ HostTakes
        \/ \E c \in Commands : HostCommand(c)

Next == Task \/ Host
Spec == Init /\ [][Next]_vars

\* The task handles its events, and a host goes on with a command it began.
FairSpec == Spec /\ WF_vars(Task) /\ WF_vars(HostSends) /\ WF_vars(HostTakes)
                 /\ WF_vars(HostConfigures)

-----------------------------------------------------------------------------
(***************************************************************************)
(* Properties.                                                             *)
(***************************************************************************)
TypeOK ==
  /\ m \in MscState
  /\ open \in BOOLEAN /\ armed \in Nat
  /\ host \in {"reset", "ready", "data", "status", "confused"}
  /\ cmd \in Command /\ rest \in 0 .. cmd.dataLen
  /\ result \in {-1, 0, 1} /\ stray \in 0 .. RxBufLen /\ resets \in 0 .. MaxReset

Succeeded(op) == host = "ready" /\ cmd.op = op /\ result = 0

\* A read that ends well has given the host exactly the blocks it asked for,
\* each once and in order.
ReadIsExact == Succeeded("read") => got = BlocksFrom(cmd.lba, cmd.cnt)

\* A write that ends well has written exactly the blocks named, in order.
WriteIsExact == Succeeded("write") => written = BlocksFrom(cmd.lba, cmd.cnt)

\* When the class has nothing to do, in idle state, the OUT endpoint is armed
\* with the class's own buffer, for at least a CBW.  Only a stray packet leaves
\* it armed for less: for that packet's length, until the next CBW or reset.
IdleAwaitsCbw ==
  (m.state = "IDLE" /\ ev = <<>> /\ open) =>
    /\ m.rxBuf = BufRx /\ m.rxLen = armed /\ armed > 0
    /\ armed >= CbwLen \/ armed = stray

\* Host and class agree on the phase of the transport: the class is in its
\* data phase exactly while the host has data to transfer or the last data
\* transfer is not yet acknowledged, and no transfer takes the host by surprise.
PhasesAgree ==
  /\ host # "confused"
  /\ (ev = <<>> /\ host = "ready") => (m.state = "IDLE" /\ inEp = None)
  /\ (ev = <<>> /\ host = "data") => m.state = "DATA"
  /\ (ev = <<>> /\ host = "status") => (m.state = "IDLE" /\ inEp # None)

\* No transfer is started on an IN endpoint that is still busy.
NoTransferOverlap == [][inEp # None => inEp' \in {inEp, None}]_vars

\* Every command ends with its CSW, unless the bus is reset.
CommandCompletes == host \in {"data", "status"} ~> host \in {"ready", "reset"}

-----------------------------------------------------------------------------
(***************************************************************************)
(* The service the driver implements: MscService sees a command from the   *)
(* host's request to its status, and the blocks once it has ended.         *)
(***************************************************************************)
Transferred == IF cmd.dir = "out" THEN written ELSE got
Ended == host = "ready" /\ result # -1

Service == INSTANCE MscService WITH
  stage  <- CASE host = "reset" -> "off" [] host = "ready" -> "ready" [] OTHER -> "busy",
  cmd    <- cmd,
  status <- result,
  blocks <- IF Ended THEN Transferred ELSE <<>>

\* The driver implements the service: through all transfers, buffers, phases
\* and resets, every command ends with its own status and, read or write, with
\* exactly the blocks it names; no other command moves a block.
ImplementsService == Service!FairSpec

-----------------------------------------------------------------------------
(***************************************************************************)
(* What the comments say and the code does not do.                         *)
(***************************************************************************)

\* "then status send in DataInDone()": the status of a command with data is the
\* one its execution returned, and a command that is rejected writes nothing.
FailureIsReported ==
  (host = "ready" /\ cmd.op = "unsupported") => result # 0 /\ written = <<>>

=============================================================================
