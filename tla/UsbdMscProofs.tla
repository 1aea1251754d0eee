---------------------------- MODULE UsbdMscProofs ---------------------------
(***************************************************************************)
(* Proofs about the mass storage class, for every size of blocks, buffers, *)
(* wrappers and responses, every set of ordinary commands and any number   *)
(* of bus resets.                                                          *)
(*                                                                         *)
(* After the initialisation that follows a bus reset, host and driver go   *)
(* through five phases together; before it the driver works off stale      *)
(* events on closed endpoints.                                             *)
(***************************************************************************)
EXTENDS UsbdMsc, TLAPS

EventType == [type : {"init", "in"}] \cup [type : {"out"}, size : Nat, cbw : BOOLEAN]

EvTyped == ev \in Seq(EventType)
InTyped ==
  /\ inEp.kind = "csw" => inEp.status \in {0, 1}
  /\ inEp.kind = "data" => inEp.size \in Nat
Types == TypeOK /\ EvTyped /\ InTyped
InitsLast == \A i, j \in 1 .. Len(ev) :
               (i < j /\ ev[i].type = "init") => ev[j].type = "init"

\* No initialisation waits; while one does, nothing is transferred.
Settled == \A i \in 1 .. Len(ev) : ev[i].type # "init"
Quiet == ~open => inEp = None /\ armed = 0
Fresh == ~Settled => /\ host = "reset" /\ inEp = None
                     /\ open => \A i \in 1 .. Len(ev) : ev[i].type = "init"

\* The queue: nothing for OUT, or an OUT packet behind what was acknowledged.
NoOut == Len(ev) = 0 \/ (Len(ev) = 1 /\ ev[1].type = "in")
OutWaits(cbw) ==
  /\ Len(ev) \in {1, 2}
  /\ ev[Len(ev)].type = "out" /\ ev[Len(ev)].cbw = cbw
  /\ ev[Len(ev)].size = IF cbw THEN CbwLen ELSE stray
  /\ Len(ev) = 2 => ev[1].type = "in"

\* The OUT endpoint is armed for a CBW, or for the length of a stray packet.
AwaitsCbw ==
  /\ m.rxBuf = BufRx /\ m.rxLen = armed /\ armed > 0
  /\ armed >= CbwLen \/ armed = stray

\* Between commands; a packet without signature may be on its way.
Calm ==
  /\ host \in {"reset", "ready"} /\ m.state = "IDLE" /\ inEp = None
  /\ \/ NoOut /\ AwaitsCbw
     \/ OutWaits(FALSE) /\ armed = 0 /\ m.rxBuf = BufRx

\* The CBW is on its way to the class.
Asked ==
  /\ host = (IF cmd.dataLen > 0 THEN "data" ELSE "status") /\ m.state = "IDLE" /\ inEp = None
  /\ cmd \in Commands /\ rest = cmd.dataLen
  /\ cmd.op \in {"read", "write"} => m.blockSize = BlockSize
  /\ OutWaits(TRUE) /\ armed = 0 /\ m.rxBuf = BufRx

\* The data phase of a read, as far as n units are under way; and of a response.
Reading(n) ==
  /\ cmd.op = "read" /\ m.sendLen = cmd.dataLen
  /\ rest = m.sendLen - m.sendPos + n
  /\ m.sendPos = m.sendLen - m.lbaCnt * BlockSize
  /\ m.lbaCnt > 0 => m.sendBufLen = Chunk * BlockSize
Responding(n) ==
  /\ cmd.op \in {"response", "capacity"}
  /\ m.sendLen = RespLen /\ m.sendPos = RespLen /\ n <= rest

InFlight(n) ==
  /\ inEp.kind = "data" /\ inEp.size = n /\ n > 0 /\ ev = <<>> /\ host = "data"
  /\ \/ Reading(n) /\ inEp.buf.kind = "disk"
     \/ Responding(n) /\ inEp.buf = BufTx
Taken ==
  /\ inEp = None /\ Len(ev) = 1 /\ ev[1].type = "in"
  /\ host = (IF m.sendPos < m.sendLen THEN "data" ELSE "status")
  /\ Reading(0) \/ Responding(0)
Sending ==
  /\ cmd \in Commands /\ cmd.dir = "in" /\ m.state = "DATA" /\ AwaitsCbw
  /\ Taken \/ \E n \in Nat : InFlight(n)

\* The data phase of a write: the endpoint is armed for the buffer, or a full
\* buffer is on its way to the class.
Receiving ==
  /\ cmd \in Commands /\ cmd.op = "write" /\ cmd.dir = "out" /\ m.state = "DATA" /\ inEp = None
  /\ m.sendLen = cmd.dataLen /\ m.sendBufPos = 0
  /\ m.rxBuf = AppBuf /\ m.rxLen = m.sendBufLen /\ m.sendBufLen > 0
  /\ m.sendBufLen = Handed(m) * BlockSize
  /\ \/ /\ ev = <<>> /\ armed = m.sendBufLen /\ m.sendPos + rest = m.sendLen
        /\ host = "data" /\ rest > 0
     \/ /\ Len(ev) = 1 /\ ev[1].type = "out" /\ ~ev[1].cbw /\ ev[1].size = m.sendBufLen
        /\ armed = 0 /\ m.sendPos + m.sendBufLen + rest = m.sendLen
        /\ host = (IF rest > 0 THEN "data" ELSE "status")

\* The CSW waits for the host.
Answering ==
  /\ host = "status" /\ m.state = "IDLE" /\ inEp.kind = "csw" /\ inEp.status \in {0, 1}
  /\ ev = <<>> /\ AwaitsCbw

Phase == Calm \/ Asked \/ Sending \/ Receiving \/ Answering

\* The inductive invariant.
MscInv ==
  /\ Types /\ InitsLast /\ Quiet /\ Fresh
  /\ Settled => open /\ Phase

USE MscAssumption

-----------------------------------------------------------------------------
(***************************************************************************)
(* Numbers.                                                                *)
(***************************************************************************)
LEMMA MinIs ==
  ASSUME NEW a \in Nat, NEW b \in Nat
  PROVE  Min({a, b}) = IF a <= b THEN a ELSE b
<1> DEFINE x == IF a <= b THEN a ELSE b
<1>1. x \in {a, b} /\ \A y \in {a, b} : x <= y
  OBVIOUS
<1>2. \A z \in {a, b} : (\A y \in {a, b} : z <= y) => z = x
  OBVIOUS
<1> QED
  BY <1>1, <1>2 DEF Min

LEMMA Blocks ==
  ASSUME NEW a \in Nat, NEW b \in Nat
  PROVE  /\ a * BlockSize \in Nat
         /\ a > 0 => a * BlockSize > 0
         /\ a < b => a * BlockSize < b * BlockSize
         /\ a <= b => a * BlockSize <= b * BlockSize
         /\ a <= b => (b - a) * BlockSize = b * BlockSize - a * BlockSize
<1>1. PICK n \in Nat \ {0} : n = BlockSize
  OBVIOUS
<1>2. a * n \in Nat /\ b * n \in Nat
  OBVIOUS
<1>3. (b - a) * n = b * n - a * n
  OBVIOUS
<1>4. a > 0 => a * n > 0
  OBVIOUS
<1>5. b - a >= 0 => (b - a) * n >= 0
  OBVIOUS
<1>6. b - a > 0 => (b - a) * n > 0
  OBVIOUS
<1> QED
  BY <1>1, <1>2, <1>3, <1>4, <1>5, <1>6

\* n blocks of l, as many as a buffer holds.
LEMMA Piece ==
  ASSUME NEW l \in Nat \ {0}, NEW n, n = Min({l, Chunk})
  PROVE  /\ n \in Nat \ {0} /\ n <= l /\ l - n \in Nat /\ (l - n > 0 => n = Chunk)
         /\ n * BlockSize \in Nat \ {0}
         /\ (l - n) * BlockSize = l * BlockSize - n * BlockSize
         /\ n * BlockSize = Min({l * BlockSize, Chunk * BlockSize})
<1>1. PICK k \in Nat \ {0} : k = Chunk
  OBVIOUS
<1>2. n = IF l <= k THEN l ELSE k
  BY <1>1, MinIs
<1>3. n \in Nat \ {0} /\ n <= l /\ l - n \in Nat /\ (l - n > 0 => n = k)
  BY <1>2
<1>4. n * BlockSize \in Nat /\ n * BlockSize > 0
  BY <1>3, Blocks
<1>5. (l - n) * BlockSize = l * BlockSize - n * BlockSize
  BY <1>3, Blocks
<1>6. /\ l * BlockSize \in Nat /\ k * BlockSize \in Nat
      /\ l <= k => l * BlockSize <= k * BlockSize
      /\ k < l => k * BlockSize < l * BlockSize
  BY Blocks
<1>7. Min({l * BlockSize, k * BlockSize}) =
        IF l * BlockSize <= k * BlockSize THEN l * BlockSize ELSE k * BlockSize
  BY <1>6, MinIs
<1>8. n * BlockSize = Min({l * BlockSize, k * BlockSize})
  <2>1. CASE l <= k
    BY <1>2, <1>6, <1>7, <2>1
  <2>2. CASE k < l
    BY <1>2, <1>6, <1>7, <2>2
  <2> QED
    BY <2>1, <2>2
<1> QED
  BY <1>1, <1>3, <1>4, <1>5, <1>8

LEMMA HandedIs ==
  ASSUME NEW s \in MscState
  PROVE  /\ Handed(s) = IF s.lbaCnt <= Chunk THEN s.lbaCnt ELSE Chunk
         /\ Handed(s) \in Nat /\ Handed(s) <= s.lbaCnt /\ Handed(s) <= Chunk
         /\ Handed(s) * BlockSize \in Nat
         /\ s.lbaCnt - Handed(s) \in Nat
<1>1. s.lbaCnt \in Nat /\ Chunk \in Nat
  BY DEF MscState
<1>2. Handed(s) = IF s.lbaCnt <= Chunk THEN s.lbaCnt ELSE Chunk
  BY <1>1, MinIs DEF Handed
<1>3. Handed(s) \in Nat /\ Handed(s) <= s.lbaCnt /\ Handed(s) <= Chunk /\ s.lbaCnt - Handed(s) \in Nat
  BY <1>1, <1>2
<1> QED
  BY <1>2, <1>3, Blocks

-----------------------------------------------------------------------------
(***************************************************************************)
(* The driver's variables.                                                 *)
(***************************************************************************)
LEMMA StateIs ==
  ASSUME NEW s \in MscState
  PROVE  /\ s.state \in {"IDLE", "DATA"} /\ s.sendBuf \in BufferType /\ s.rxBuf \in BufferType
         /\ s.sendBufLen \in Nat /\ s.sendBufPos \in Nat /\ s.sendLen \in Nat /\ s.sendPos \in Nat
         /\ s.lba \in Nat /\ s.lbaCnt \in Nat /\ s.rxLen \in Nat
         /\ s.blockSize \in {0, BlockSize} /\ s.blockSize \in Nat
BY DEF MscState, BufferType

LEMMA BufTypes ==
  /\ BufRx \in BufferType /\ BufTx \in BufferType /\ AppBuf \in BufferType /\ Null \in BufferType
  /\ \A lba \in Nat : Buffer("disk", lba) \in BufferType /\ Buffer("disk", lba).kind = "disk"
  /\ AppBuf # Null /\ BufRx # Null
<1>1. BufRx \in BufferType /\ BufRx.kind = "bufRx"
  BY DEF BufRx, Buffer, BufferType
<1>2. BufTx \in BufferType
  BY DEF BufTx, Buffer, BufferType
<1>3. AppBuf \in BufferType /\ AppBuf.kind = "app"
  BY DEF AppBuf, Buffer, BufferType
<1>4. Null \in BufferType /\ Null.kind = "null"
  BY DEF Null, Buffer, BufferType
<1>5. \A lba \in Nat : Buffer("disk", lba) \in BufferType /\ Buffer("disk", lba).kind = "disk"
  BY DEF Buffer, BufferType
<1>6. AppBuf # Null /\ BufRx # Null
  <2>1. AppBuf.kind # Null.kind /\ BufRx.kind # Null.kind
    BY <1>1, <1>3, <1>4
  <2> QED
    BY <2>1
<1> QED
  BY <1>1, <1>2, <1>3, <1>4, <1>5, <1>6

\* t is s after SendData.
Sent(t, s, buf, len, total) ==
  /\ t \in MscState /\ t.state = s.state
  /\ t.sendBuf = buf /\ t.sendBufLen = len /\ t.sendBufPos = 0
  /\ total > 0 => t.sendLen = total /\ t.sendPos = 0
  /\ ~(total > 0) => t.sendLen = s.sendLen /\ t.sendPos = s.sendPos
  /\ t.lba = s.lba /\ t.lbaCnt = s.lbaCnt /\ t.blockSize = s.blockSize
  /\ t.rxBuf = s.rxBuf /\ t.rxLen = s.rxLen

LEMMA SendDataIs ==
  ASSUME NEW s \in MscState, NEW buf \in BufferType, NEW len \in Nat, NEW total \in Int
  PROVE  Sent(SendData(s, buf, len, total), s, buf, len, total)
<1> DEFINE t == [s EXCEPT !.sendBuf = buf, !.sendBufLen = len, !.sendBufPos = 0]
<1>1. /\ t \in MscState /\ t.sendBuf = buf /\ t.sendBufLen = len /\ t.sendBufPos = 0
      /\ t.state = s.state /\ t.sendLen = s.sendLen /\ t.sendPos = s.sendPos
      /\ t.lba = s.lba /\ t.lbaCnt = s.lbaCnt /\ t.blockSize = s.blockSize
      /\ t.rxBuf = s.rxBuf /\ t.rxLen = s.rxLen
  BY DEF MscState, BufferType
<1>2. SendData(s, buf, len, total) =
        IF total > 0 THEN [t EXCEPT !.sendLen = total, !.sendPos = 0] ELSE t
  BY DEF SendData
<1> HIDE DEF t
<1>3. CASE total > 0
  <2> DEFINE v == [t EXCEPT !.sendLen = total, !.sendPos = 0]
  <2>1. /\ v \in MscState /\ v.sendBuf = t.sendBuf /\ v.sendBufLen = t.sendBufLen
        /\ v.sendBufPos = t.sendBufPos
        /\ v.state = t.state /\ v.sendLen = total /\ v.sendPos = 0
        /\ v.lba = t.lba /\ v.lbaCnt = t.lbaCnt /\ v.blockSize = t.blockSize
        /\ v.rxBuf = t.rxBuf /\ v.rxLen = t.rxLen
    <3>1. total \in Nat
      BY <1>3
    <3> QED
      BY <1>1, <3>1 DEF MscState
  <2>2. SendData(s, buf, len, total) = v
    BY <1>2, <1>3
  <2> HIDE DEF v
  <2> QED
    BY <1>1, <1>3, <2>1, <2>2 DEF Sent
<1>4. CASE ~(total > 0)
  <2>1. SendData(s, buf, len, total) = t
    BY <1>2, <1>4
  <2> QED
    BY <1>1, <1>4, <2>1 DEF Sent
<1> QED
  BY <1>3, <1>4

\* t is s after ReadAndSend of n blocks, total units in all.
ReadSent(t, s, first, n, total) ==
  /\ t \in MscState /\ t.state = s.state
  /\ t.sendBuf = Buffer("disk", s.lba) /\ t.sendBuf.kind = "disk"
  /\ t.sendBufLen = n * BlockSize /\ t.sendBufPos = 0
  /\ (first /\ total > 0) => t.sendLen = total /\ t.sendPos = 0
  /\ ~(first /\ total > 0) => t.sendLen = s.sendLen /\ t.sendPos = s.sendPos
  /\ t.lba = s.lba + n /\ t.lbaCnt = s.lbaCnt - n /\ t.blockSize = s.blockSize
  /\ t.rxBuf = s.rxBuf /\ t.rxLen = s.rxLen

LEMMA ReadAndSendIs ==
  ASSUME NEW s \in MscState, NEW first \in BOOLEAN,
         NEW total \in Nat, total = s.lbaCnt * s.blockSize
  PROVE  ReadSent(ReadAndSend(s, first), s, first, Handed(s), total)
<1>1. PICK d \in BufferType : d = Buffer("disk", s.lba) /\ d.kind = "disk"
  BY StateIs, BufTypes
<1>2. PICK n \in Nat : n = Handed(s) /\ s.lbaCnt - n \in Nat /\ n * BlockSize \in Nat
  BY HandedIs
<1>3. PICK w \in Int : w = IF first THEN total ELSE -1
  OBVIOUS
<1>4. PICK u : u = SendData(s, d, n * BlockSize, w)
  OBVIOUS
<1>5. Sent(u, s, d, n * BlockSize, w)
  BY <1>2, <1>4, SendDataIs
<1>6. PICK t : t = [u EXCEPT !.lba = @ + n, !.lbaCnt = @ - n]
  OBVIOUS
<1>7. ReadAndSend(s, first) = t
  BY <1>1, <1>2, <1>3, <1>4, <1>6 DEF ReadAndSend
<1>8. u \in MscState /\ u.lba + n \in Nat /\ u.lbaCnt - n \in Nat
  BY <1>2, <1>5, StateIs DEF Sent
<1>9. /\ t \in MscState
      /\ t.state = u.state /\ t.sendBuf = u.sendBuf /\ t.sendBufLen = u.sendBufLen
      /\ t.sendBufPos = u.sendBufPos /\ t.sendLen = u.sendLen /\ t.sendPos = u.sendPos
      /\ t.lba = u.lba + n /\ t.lbaCnt = u.lbaCnt - n
      /\ t.blockSize = u.blockSize /\ t.rxBuf = u.rxBuf /\ t.rxLen = u.rxLen
  BY <1>6, <1>8 DEF MscState
<1>10. (w > 0) <=> (first /\ total > 0)
  BY <1>3
<1> QED
  BY <1>1, <1>2, <1>3, <1>5, <1>7, <1>9, <1>10 DEF Sent, ReadSent

\* t is s after RecvAndWrite of size, with a buffer of n blocks for what comes next.
RecvWritten(t, s, size, n) ==
  /\ t \in MscState /\ t.state = s.state
  /\ t.sendBuf = AppBuf /\ t.sendBufLen = n * BlockSize /\ t.sendBufPos = 0
  /\ t.sendLen = s.sendLen /\ t.sendPos = s.sendPos
  /\ t.lba = s.lba + (size \div BlockSize) /\ t.lbaCnt = s.lbaCnt
  /\ t.blockSize = s.blockSize /\ t.rxBuf = s.rxBuf /\ t.rxLen = s.rxLen

LEMMA RecvAndWriteIs ==
  ASSUME NEW s \in MscState, NEW size \in Nat
  PROVE  RecvWritten(RecvAndWrite(s, size), s, size, Handed(s))
<1>1. PICK n \in Nat : n = Handed(s) /\ n * BlockSize \in Nat
  BY HandedIs
<1>2. PICK u : u = SendData(s, AppBuf, n * BlockSize, -1)
  OBVIOUS
<1>3. Sent(u, s, AppBuf, n * BlockSize, -1)
  BY <1>1, <1>2, BufTypes, SendDataIs
<1>4. PICK b \in Nat : b = size \div BlockSize
  <2>1. size \div BlockSize \in Nat
    OBVIOUS
  <2> QED
    BY <2>1
<1>5. PICK t : t = [u EXCEPT !.lba = @ + b]
  OBVIOUS
<1>6. RecvAndWrite(s, size) = t
  BY <1>1, <1>2, <1>4, <1>5 DEF RecvAndWrite
<1>7. u \in MscState /\ u.lba + b \in Nat
  BY <1>3, <1>4, StateIs DEF Sent
<1>8. /\ t \in MscState
      /\ t.state = u.state /\ t.sendBuf = u.sendBuf /\ t.sendBufLen = u.sendBufLen
      /\ t.sendBufPos = u.sendBufPos /\ t.sendLen = u.sendLen /\ t.sendPos = u.sendPos
      /\ t.lba = u.lba + b /\ t.lbaCnt = u.lbaCnt
      /\ t.blockSize = u.blockSize /\ t.rxBuf = u.rxBuf /\ t.rxLen = u.rxLen
  BY <1>5, <1>7 DEF MscState
<1> QED
  BY <1>1, <1>3, <1>4, <1>6, <1>8 DEF Sent, RecvWritten

\* t is s after command c of the SCSI layer.
Executed(t, s, c) ==
  /\ t \in MscState /\ t.state = s.state /\ t.rxBuf = s.rxBuf /\ t.rxLen = s.rxLen
  /\ s.blockSize = BlockSize => t.blockSize = BlockSize
  /\ (c.op = "read" /\ c.cnt * s.blockSize > 0) =>
       /\ t.sendBuf = Buffer("disk", c.lba) /\ t.sendBuf.kind = "disk"
       /\ t.sendLen = c.cnt * s.blockSize /\ t.sendPos = 0
       /\ t.sendBufLen = Min({c.cnt, Chunk}) * BlockSize
       /\ t.lba = c.lba + Min({c.cnt, Chunk}) /\ t.lbaCnt = c.cnt - Min({c.cnt, Chunk})
  /\ c.op = "write" =>
       /\ t.sendBuf = AppBuf /\ t.sendBufPos = 0 /\ t.lba = c.lba /\ t.lbaCnt = c.cnt
       /\ t.sendBufLen = Min({c.cnt, Chunk}) * BlockSize
  /\ c.op \in {"response", "capacity"} =>
       t.sendBuf = BufTx /\ t.sendLen = RespLen /\ t.sendPos = 0

LEMMA ScsiStateIs ==
  ASSUME NEW s \in MscState, NEW c \in Command
  PROVE  Executed(ScsiState(s, c), s, c)
<1>1. c.op \in Op /\ c.lba \in Nat /\ c.cnt \in Nat
  BY DEF Command
<1>2. PICK v \in MscState : v = [s EXCEPT !.lba = c.lba, !.lbaCnt = c.cnt]
  BY <1>1 DEF MscState
<1>3. /\ v.state = s.state /\ v.rxBuf = s.rxBuf /\ v.rxLen = s.rxLen /\ v.lbaCnt = c.cnt
      /\ v.blockSize = s.blockSize /\ v.lba = c.lba
  BY <1>2 DEF MscState
<1>4. PICK n \in Nat : n = Handed(v) /\ n = Min({c.cnt, Chunk})
  BY <1>3, HandedIs DEF Handed
<1>5. CASE c.op = "read"
  <2>1. PICK total \in Nat : total = v.lbaCnt * v.blockSize
    BY StateIs
  <2>2. ReadSent(ReadAndSend(v, TRUE), v, TRUE, n, total)
    BY <1>4, <2>1, ReadAndSendIs
  <2>3. ScsiState(s, c) = ReadAndSend(v, TRUE)
    BY <1>2, <1>5 DEF ScsiState, Read10
  <2> QED
    BY <1>3, <1>4, <1>5, <2>1, <2>2, <2>3 DEF ReadSent, Executed
<1>6. CASE c.op = "write"
  <2>1. RecvWritten(RecvAndWrite(v, 0), v, 0, n)
    BY <1>4, RecvAndWriteIs
  <2>3. c.lba + (0 \div BlockSize) = c.lba
    BY <1>1
  <2>2. ScsiState(s, c) = RecvAndWrite(v, 0)
    BY <1>2, <1>6 DEF ScsiState, Write10
  <2> QED
    BY <1>3, <1>4, <1>6, <2>1, <2>2, <2>3 DEF RecvWritten, Executed
<1>7. CASE c.op \in {"response", "capacity"}
  <2>1. PICK w \in MscState : w = IF c.op = "response" THEN s
                                  ELSE [s EXCEPT !.blockSize = BlockSize]
    BY DEF MscState
  <2>2. /\ w.state = s.state /\ w.rxBuf = s.rxBuf /\ w.rxLen = s.rxLen
        /\ s.blockSize = BlockSize => w.blockSize = BlockSize
    BY <2>1 DEF MscState
  <2>3. Sent(SendData(w, BufTx, RespLen, RespLen), w, BufTx, RespLen, RespLen)
    BY BufTypes, SendDataIs
  <2>4. ScsiState(s, c) = SendData(w, BufTx, RespLen, RespLen)
    BY <1>7, <2>1 DEF ScsiState, Response
  <2> QED
    BY <1>7, <2>2, <2>3, <2>4 DEF Sent, Executed
<1>8. CASE c.op = "ready"
  <2>1. PICK w \in MscState : w = [s EXCEPT !.blockSize = BlockSize]
    BY DEF MscState
  <2>2. w.state = s.state /\ w.rxBuf = s.rxBuf /\ w.rxLen = s.rxLen /\ w.blockSize = BlockSize
    BY <2>1 DEF MscState
  <2>3. ScsiState(s, c) = w
    BY <1>8, <2>1 DEF ScsiState
  <2> QED
    BY <1>8, <2>2, <2>3 DEF Executed
<1>9. CASE c.op \in {"setting", "unsupported"}
  <2>1. ScsiState(s, c) = s
    BY <1>9 DEF ScsiState
  <2> QED
    BY <1>9, <2>1 DEF Executed
<1> QED
  BY <1>1, <1>5, <1>6, <1>7, <1>8, <1>9 DEF Op

\* What Rearm prepares.
Rearmed(s, size) ==
  /\ m' \in MscState /\ m'.state = s.state
  /\ m'.sendBuf = s.sendBuf /\ m'.sendBufLen = s.sendBufLen /\ m'.sendBufPos = s.sendBufPos
  /\ m'.sendLen = s.sendLen /\ m'.sendPos = s.sendPos
  /\ m'.lba = s.lba /\ m'.lbaCnt = s.lbaCnt /\ m'.blockSize = s.blockSize
  /\ s.rxBuf = Null \/ s.rxLen = 0 \/ size = 0 => m'.rxBuf = BufRx /\ m'.rxLen = RxBufLen
  /\ ~(s.rxBuf = Null \/ s.rxLen = 0 \/ size = 0) => m'.rxBuf = s.rxBuf /\ m'.rxLen = s.rxLen
  /\ armed' = IF open THEN m'.rxLen ELSE armed

LEMMA RearmIs ==
  ASSUME NEW s \in MscState, NEW size \in Nat, Rearm(s, size)
  PROVE  Rearmed(s, size)
<1>1. PICK v \in MscState : v = [s EXCEPT !.rxBuf = BufRx, !.rxLen = RxBufLen]
  BY BufTypes DEF MscState
<1>2. /\ v.state = s.state
      /\ v.sendBuf = s.sendBuf /\ v.sendBufLen = s.sendBufLen /\ v.sendBufPos = s.sendBufPos
      /\ v.sendLen = s.sendLen /\ v.sendPos = s.sendPos
      /\ v.lba = s.lba /\ v.lbaCnt = s.lbaCnt /\ v.blockSize = s.blockSize
      /\ v.rxBuf = BufRx /\ v.rxLen = RxBufLen
  BY <1>1 DEF MscState
<1>3. armed' = IF open THEN m'.rxLen ELSE armed
  BY DEF Rearm, PrepareRecv
<1>4. CASE s.rxBuf = Null \/ s.rxLen = 0 \/ size = 0
  <2>1. m' = v
    BY <1>1, <1>4 DEF Rearm
  <2> QED
    BY <1>2, <1>3, <1>4, <2>1 DEF Rearmed
<1>5. CASE ~(s.rxBuf = Null \/ s.rxLen = 0 \/ size = 0)
  <2>1. m' = s
    BY <1>5 DEF Rearm
  <2> QED
    BY <1>3, <1>5, <2>1 DEF Rearmed
<1> QED
  BY <1>4, <1>5

-----------------------------------------------------------------------------
(***************************************************************************)
(* Events.                                                                 *)
(***************************************************************************)
LEMMA Appended ==
  ASSUME EvTyped, NEW e \in EventType, ev' = Append(ev, e)
  PROVE  /\ EvTyped' /\ Len(ev) \in Nat /\ Len(ev') = Len(ev) + 1 /\ ev'[Len(ev) + 1] = e
         /\ \A i \in 1 .. Len(ev) : ev'[i] = ev[i]
BY DEF EvTyped

LEMMA Handled ==
  ASSUME EvTyped, ev # <<>>, ev' = Tail(ev)
  PROVE  /\ EvTyped' /\ Len(ev) \in Nat \ {0} /\ Len(ev') = Len(ev) - 1
         /\ Head(ev) = ev[1] /\ ev[1] \in EventType
         /\ \A i \in 1 .. Len(ev') : ev'[i] = ev[i + 1]
BY DEF EvTyped

LEMMA EventIs ==
  ASSUME NEW e \in EventType
  PROVE  /\ e.type \in {"init", "in", "out"}
         /\ e.type = "out" => e.size \in Nat /\ e.cbw \in BOOLEAN
BY DEF EventType

\* The events the environment adds.
LEMMA EventTypes ==
  /\ [type |-> "init"] \in EventType /\ [type |-> "in"] \in EventType
  /\ \A size \in Nat, cbw \in BOOLEAN :
       [type |-> "out", size |-> size, cbw |-> cbw] \in EventType
BY DEF EventType

-----------------------------------------------------------------------------
(***************************************************************************)
(* What the handlers do.                                                   *)
(***************************************************************************)
LEMMA Kinds ==
  /\ None.kind = "none" /\ (\A st : Csw(st).kind = "csw" /\ Csw(st).status = st)
  /\ \A buf, size : Data(buf, size).kind = "data" /\ Data(buf, size).buf = buf
                    /\ Data(buf, size).size = size
BY DEF None, Csw, Data

\* A CBW, s being the driver's state after its command; q is that before it.
CbwDone(q, s) ==
  /\ q.state = m.state /\ q.rxBuf = m.rxBuf /\ q.rxLen = CbwLen /\ q.blockSize = m.blockSize
  /\ Executed(s, q, cmd)
  /\ m' \in MscState /\ armed' = (IF open THEN m'.rxLen ELSE armed)
  /\ m'.sendBufLen = s.sendBufLen /\ m'.sendBufPos = s.sendBufPos
  /\ m'.lba = s.lba /\ m'.lbaCnt = s.lbaCnt /\ m'.blockSize = s.blockSize
  /\ \/ /\ cmd.dataLen > 0 /\ cmd.dir = "in" /\ m'.state = "DATA" /\ m'.sendLen = s.sendLen
        /\ m'.sendPos = s.sendPos + Min({s.sendLen, FirstMax})
        /\ inEp' = IF open THEN Data(s.sendBuf, Min({s.sendLen, FirstMax})) ELSE inEp
        /\ m.rxBuf # Null => m'.rxBuf = m.rxBuf /\ m'.rxLen = CbwLen
     \/ /\ cmd.dataLen > 0 /\ cmd.dir = "out" /\ m'.state = "DATA"
        /\ m'.sendLen = cmd.dataLen /\ m'.sendPos = 0 /\ inEp' = inEp
        /\ (s.sendBuf # Null /\ s.sendBufLen # 0) =>
             m'.rxBuf = s.sendBuf /\ m'.rxLen = s.sendBufLen
     \/ /\ cmd.dataLen = 0 /\ m'.state = "IDLE"
        /\ \E st \in ScsiStatuses(cmd) : inEp' = IF open THEN Csw(st) ELSE inEp
        /\ m.rxBuf # Null => m'.rxBuf = m.rxBuf /\ m'.rxLen = CbwLen

LEMMA DataOutCbwIs ==
  ASSUME Types, DataOutCbw
  PROVE  \E q, s \in MscState : CbwDone(q, s)
<1>1. m \in MscState /\ cmd \in Command /\ m.state = "IDLE"
  BY DEF Types, TypeOK, DataOutCbw
<1>2. cmd.dataLen \in Nat /\ cmd.dir \in {"in", "out"}
  BY <1>1 DEF Command
<1>3. PICK q \in MscState : q = [m EXCEPT !.rxLen = CbwLen]
  BY <1>1 DEF MscState
<1>4. /\ q.state = m.state /\ q.rxBuf = m.rxBuf /\ q.rxLen = CbwLen
      /\ q.blockSize = m.blockSize
  BY <1>1, <1>3 DEF MscState
<1>5. PICK s \in MscState : s = ScsiState(q, cmd) /\ Executed(s, q, cmd)
  BY <1>1, ScsiStateIs DEF Executed
<1>6. s.state = "IDLE" /\ s.rxBuf = m.rxBuf /\ s.rxLen = CbwLen
  BY <1>1, <1>4, <1>5 DEF Executed
<1>7. s = ScsiState([m EXCEPT !.rxLen = CbwLen], cmd)
  BY <1>3, <1>5
<1>8. \/ /\ cmd.dataLen > 0 /\ cmd.dir = "in"
         /\ Transmit(Data(s.sendBuf, Min({s.sendLen, FirstMax})))
         /\ Rearm([s EXCEPT !.sendPos = @ + Min({s.sendLen, FirstMax}), !.state = "DATA"], CbwLen)
      \/ /\ cmd.dataLen > 0 /\ cmd.dir = "out"
         /\ Rearm([s EXCEPT !.sendLen = cmd.dataLen, !.sendPos = 0, !.state = "DATA",
                            !.rxBuf = s.sendBuf, !.rxLen = s.sendBufLen], CbwLen)
         /\ UNCHANGED inEp
      \/ /\ cmd.dataLen = 0
         /\ \E status \in ScsiStatuses(cmd) : Transmit(Csw(status))
         /\ Rearm(s, CbwLen)
  BY <1>7 DEF DataOutCbw
<1>9. ASSUME cmd.dataLen > 0, cmd.dir = "in",
             Transmit(Data(s.sendBuf, Min({s.sendLen, FirstMax}))),
             Rearm([s EXCEPT !.sendPos = @ + Min({s.sendLen, FirstMax}), !.state = "DATA"], CbwLen)
      PROVE  CbwDone(q, s)
  <2>1. PICK size \in Nat : size = Min({s.sendLen, FirstMax})
    BY StateIs, MinIs
  <2>2. PICK t \in MscState : t = [s EXCEPT !.sendPos = @ + size, !.state = "DATA"]
    <3>1. s.sendPos + size \in Nat
      BY StateIs
    <3> QED
      BY <3>1 DEF MscState
  <2>3. /\ t.state = "DATA" /\ t.sendPos = s.sendPos + size /\ t.sendLen = s.sendLen
        /\ t.sendBufLen = s.sendBufLen /\ t.sendBufPos = s.sendBufPos
        /\ t.lba = s.lba /\ t.lbaCnt = s.lbaCnt
        /\ t.blockSize = s.blockSize /\ t.rxBuf = s.rxBuf /\ t.rxLen = s.rxLen
    BY <2>2 DEF MscState
  <2>4. Rearmed(t, CbwLen)
    BY <1>9, <2>1, <2>2, RearmIs
  <2>5. inEp' = IF open THEN Data(s.sendBuf, Min({s.sendLen, FirstMax})) ELSE inEp
    BY <1>9 DEF Transmit
  <2> QED
    BY <1>4, <1>5, <1>6, <1>9, <2>1, <2>3, <2>4, <2>5 DEF Rearmed, CbwDone
<1>10. ASSUME cmd.dataLen > 0, cmd.dir = "out", inEp' = inEp,
              Rearm([s EXCEPT !.sendLen = cmd.dataLen, !.sendPos = 0, !.state = "DATA",
                              !.rxBuf = s.sendBuf, !.rxLen = s.sendBufLen], CbwLen)
       PROVE  CbwDone(q, s)
  <2>1. PICK t \in MscState :
          t = [s EXCEPT !.sendLen = cmd.dataLen, !.sendPos = 0, !.state = "DATA",
                        !.rxBuf = s.sendBuf, !.rxLen = s.sendBufLen]
    BY <1>2 DEF MscState
  <2>2. /\ t.state = "DATA" /\ t.sendPos = 0 /\ t.sendLen = cmd.dataLen
        /\ t.sendBufLen = s.sendBufLen /\ t.sendBufPos = s.sendBufPos
        /\ t.lba = s.lba /\ t.lbaCnt = s.lbaCnt
        /\ t.blockSize = s.blockSize /\ t.rxBuf = s.sendBuf /\ t.rxLen = s.sendBufLen
    BY <2>1 DEF MscState
  <2>3. Rearmed(t, CbwLen)
    BY <1>10, <2>1, RearmIs
  <2> QED
    BY <1>4, <1>5, <1>10, <2>2, <2>3 DEF Rearmed, CbwDone
<1>11. ASSUME cmd.dataLen = 0, NEW st \in ScsiStatuses(cmd), Transmit(Csw(st)), Rearm(s, CbwLen)
       PROVE  CbwDone(q, s)
  <2>2. Rearmed(s, CbwLen)
    BY <1>11, RearmIs
  <2>3. inEp' = IF open THEN Csw(st) ELSE inEp
    BY <1>11 DEF Transmit
  <2> QED
    BY <1>4, <1>5, <1>6, <1>11, <2>2, <2>3 DEF Rearmed, CbwDone
<1> QED
  BY <1>8, <1>9, <1>10, <1>11

\* Data of a write; what is said of a full buffer is what the phases need.
DataDone(size, n) ==
  /\ m' \in MscState /\ armed' = (IF open THEN m'.rxLen ELSE armed)
  /\ inEp' = inEp \/ inEp' = (IF open THEN Csw(0) ELSE inEp)
  /\ (size = m.sendBufLen /\ size > 0) => written' = written \o WriteCall(m, size)
  /\ (size = m.sendBufLen /\ size > 0) =>
       IF m.sendPos + n * BlockSize >= m.sendLen
       THEN /\ m'.state = "IDLE" /\ m'.rxBuf = BufRx /\ m'.rxLen = RxBufLen
            /\ inEp' = IF open THEN Csw(0) ELSE inEp
       ELSE /\ m'.state = "DATA" /\ inEp' = inEp
            /\ m'.sendLen = m.sendLen /\ m'.sendPos = m.sendPos + n * BlockSize
            /\ m'.sendBufLen = n * BlockSize /\ m'.sendBufPos = 0
            /\ m'.lba = m.lba + (size \div BlockSize) /\ m'.lbaCnt = m.lbaCnt
            /\ n * BlockSize > 0 => m'.rxBuf = AppBuf /\ m'.rxLen = n * BlockSize

LEMMA DataOutDataIs ==
  ASSUME Types, DataOutData
  PROVE  /\ Head(ev).size \in Nat /\ m.state = "DATA"
         /\ DataDone(Head(ev).size, Handed(m))
<1>1. m \in MscState /\ m.state = "DATA" /\ ev # <<>> /\ ev' = Tail(ev) /\ Head(ev).type = "out"
  BY DEF Types, TypeOK, DataOutData, Event
<1>2. PICK size \in Nat : size = Head(ev).size
  <2>1. Head(ev) \in EventType
    BY <1>1, Handled DEF Types
  <2> QED
    BY <1>1, <2>1, EventIs
<1>3. PICK n \in Nat : n = Handed(m) /\ n * BlockSize \in Nat
  BY <1>1, HandedIs
<1>4. PICK w \in MscState : w = RecvAndWrite(m, m.sendBufLen) /\ RecvWritten(w, m, m.sendBufLen, n)
  <2>1. m.sendBufLen \in Nat
    BY <1>1, StateIs
  <2>2. RecvWritten(RecvAndWrite(m, m.sendBufLen), m, m.sendBufLen, n)
    BY <1>1, <1>3, <2>1, RecvAndWriteIs, Zenon
  <2>3. RecvAndWrite(m, m.sendBufLen) \in MscState
    BY <2>2 DEF RecvWritten
  <2> QED
    BY <2>2, <2>3
<1>5. PICK a \in MscState : a = [w EXCEPT !.rxBuf = w.sendBuf, !.rxLen = w.sendBufLen]
  BY StateIs DEF MscState
<1>6. /\ a.state = "DATA" /\ a.sendBuf = AppBuf /\ a.rxBuf = AppBuf
      /\ a.sendBufLen = n * BlockSize /\ a.rxLen = n * BlockSize /\ a.sendBufPos = 0
      /\ a.sendLen = m.sendLen /\ a.sendPos = m.sendPos /\ a.lbaCnt = m.lbaCnt
      /\ a.lba = m.lba + (m.sendBufLen \div BlockSize)
  BY <1>1, <1>4, <1>5 DEF RecvWritten, MscState
<1>7. PICK b \in MscState : b = [m EXCEPT !.sendBufPos = @ + size, !.rxLen = size]
  <2>1. m.sendBufPos + size \in Nat
    BY <1>1, StateIs
  <2> QED
    BY <1>1, <2>1 DEF MscState
<1>8. PICK s \in MscState : s = IF m.sendBufPos + size >= m.sendBufLen THEN a ELSE b
  OBVIOUS
<1>9. PICK pos \in Nat : pos = s.sendPos + s.rxLen
  BY StateIs
<1>10. \/ /\ pos >= m.sendLen /\ Transmit(Csw(0))
          /\ Rearm([s EXCEPT !.sendPos = pos, !.rxBuf = Null, !.rxLen = 0, !.state = "IDLE"], size)
       \/ /\ pos < m.sendLen /\ Rearm([s EXCEPT !.sendPos = pos], size)
          /\ UNCHANGED inEp
  BY <1>2, <1>4, <1>5, <1>7, <1>8, <1>9 DEF DataOutData
<1>11. (size = m.sendBufLen /\ size > 0) => s = a /\ pos = m.sendPos + n * BlockSize
  <2>1. m.sendBufPos \in Nat
    BY <1>1, StateIs
  <2> QED
    BY <1>6, <1>8, <1>9, <2>1
<1>0. (size = m.sendBufLen /\ size > 0) => written' = written \o WriteCall(m, size)
  <2> SUFFICES ASSUME size = m.sendBufLen PROVE written' = written \o WriteCall(m, size)
    OBVIOUS
  <2>1. m.sendBufPos + size >= m.sendBufLen
    BY <1>1, StateIs
  <2> QED
    BY <1>2, <2>1 DEF DataOutData
<1>12. pos \in Nat /\ m.sendLen \in Nat
  BY <1>1, StateIs
<1>13. ASSUME pos >= m.sendLen, Transmit(Csw(0)),
              Rearm([s EXCEPT !.sendPos = pos, !.rxBuf = Null, !.rxLen = 0, !.state = "IDLE"], size)
       PROVE  DataDone(size, n)
  <2>1. PICK t \in MscState :
          t = [s EXCEPT !.sendPos = pos, !.rxBuf = Null, !.rxLen = 0, !.state = "IDLE"]
    BY BufTypes DEF MscState
  <2>2. t.state = "IDLE" /\ t.rxBuf = Null /\ t.rxLen = 0
    BY <2>1 DEF MscState
  <2>3. Rearmed(t, size)
    BY <1>13, <2>1, RearmIs
  <2>4. inEp' = IF open THEN Csw(0) ELSE inEp
    BY <1>13 DEF Transmit
  <2> QED
    BY <1>0, <1>11, <1>13, <2>2, <2>3, <2>4 DEF Rearmed, DataDone
<1>14. ASSUME pos < m.sendLen, inEp' = inEp, Rearm([s EXCEPT !.sendPos = pos], size)
       PROVE  DataDone(size, n)
  <2>1. PICK t \in MscState : t = [s EXCEPT !.sendPos = pos]
    BY DEF MscState
  <2>2. /\ t.state = s.state /\ t.rxBuf = s.rxBuf /\ t.rxLen = s.rxLen /\ t.sendPos = pos
        /\ t.sendBuf = s.sendBuf /\ t.sendBufLen = s.sendBufLen /\ t.sendBufPos = s.sendBufPos
        /\ t.sendLen = s.sendLen /\ t.lba = s.lba /\ t.lbaCnt = s.lbaCnt
    BY <2>1 DEF MscState
  <2>3. Rearmed(t, size)
    BY <1>14, <2>1, RearmIs
  <2>4. m' \in MscState /\ armed' = (IF open THEN m'.rxLen ELSE armed)
    BY <2>3 DEF Rearmed
  <2>5. ASSUME size = m.sendBufLen, size > 0
        PROVE  /\ ~(m.sendPos + n * BlockSize >= m.sendLen)
               /\ m'.state = "DATA"
               /\ m'.sendLen = m.sendLen /\ m'.sendPos = m.sendPos + n * BlockSize
               /\ m'.sendBufLen = n * BlockSize /\ m'.sendBufPos = 0
               /\ m'.lba = m.lba + (size \div BlockSize) /\ m'.lbaCnt = m.lbaCnt
               /\ n * BlockSize > 0 => m'.rxBuf = AppBuf /\ m'.rxLen = n * BlockSize
    <3>1. s = a /\ pos = m.sendPos + n * BlockSize
      BY <1>11, <2>5
    <3>2. m.sendPos + n * BlockSize < m.sendLen /\ m.sendPos + n * BlockSize \in Nat
      BY <1>14, <3>1
    <3>3. n * BlockSize > 0 => m'.rxBuf = AppBuf /\ m'.rxLen = n * BlockSize
      BY <1>6, <2>2, <2>3, <2>5, <3>1, BufTypes DEF Rearmed
    <3> QED
      BY <1>6, <1>12, <2>2, <2>3, <2>5, <3>1, <3>2, <3>3 DEF Rearmed
  <2> QED
    BY <1>0, <1>14, <2>4, <2>5 DEF DataDone
<1> QED
  BY <1>1, <1>2, <1>3, <1>10, <1>13, <1>14

\* The next data of a read.
NextDone(size, n) ==
  /\ m.state = "DATA" /\ m.sendPos < m.sendLen
  /\ size = Min({m.sendLen - m.sendPos, m.sendBufLen})
  /\ m' \in MscState /\ m'.state = "DATA" /\ m'.sendLen = m.sendLen
  /\ m'.sendPos = m.sendPos + size /\ m'.blockSize = m.blockSize
  /\ m'.lba = m.lba + n /\ m'.lbaCnt = m.lbaCnt - n
  /\ m'.sendBufLen = n * BlockSize
  /\ m'.rxBuf = m.rxBuf /\ m'.rxLen = m.rxLen
  /\ inEp' = IF open THEN Data(Buffer("disk", m.lba), size) ELSE inEp

LEMMA NextDataIs ==
  ASSUME Types, NextData
  PROVE  \E size \in Nat : NextDone(size, Handed(m))
<1>1. m \in MscState /\ m.state = "DATA" /\ m.sendPos < m.sendLen
  BY DEF Types, TypeOK, NextData
<1>2. PICK size \in Nat : size = Min({m.sendLen - m.sendPos, m.sendBufLen})
  <2>1. m.sendLen - m.sendPos \in Nat /\ m.sendBufLen \in Nat
    BY <1>1, StateIs
  <2> QED
    BY <2>1, MinIs
<1>3. PICK total \in Nat : total = m.lbaCnt * m.blockSize
  BY <1>1, StateIs
<1>4. PICK s \in MscState : /\ s = ReadAndSend(m, FALSE)
                            /\ ReadSent(s, m, FALSE, Handed(m), total)
  BY <1>1, <1>3, ReadAndSendIs DEF ReadSent
<1>5. m' = [s EXCEPT !.sendPos = @ + size] /\ Transmit(Data(s.sendBuf, size))
  BY <1>2, <1>4 DEF NextData
<1>6. s.sendPos + size \in Nat
  BY StateIs
<1>7. /\ m' \in MscState /\ m'.state = s.state /\ m'.sendLen = s.sendLen
      /\ m'.sendPos = s.sendPos + size /\ m'.blockSize = s.blockSize
      /\ m'.lba = s.lba /\ m'.lbaCnt = s.lbaCnt
      /\ m'.sendBufLen = s.sendBufLen /\ m'.rxBuf = s.rxBuf /\ m'.rxLen = s.rxLen
  BY <1>5, <1>6 DEF MscState
<1>8. s.sendBuf = Buffer("disk", m.lba)
  BY <1>4 DEF ReadSent
<1>9. inEp' = IF open THEN Data(s.sendBuf, size) ELSE inEp
  BY <1>5 DEF Transmit
<1> QED
  BY <1>1, <1>2, <1>4, <1>7, <1>8, <1>9 DEF ReadSent, NextDone

LEMMA AfterDataIs ==
  ASSUME Types, AfterData
  PROVE  /\ m.state = "DATA" /\ m.sendPos >= m.sendLen
         /\ m' \in MscState /\ m'.state = "IDLE"
         /\ m'.rxBuf = m.rxBuf /\ m'.rxLen = m.rxLen /\ m'.blockSize = m.blockSize
         /\ inEp' = IF open THEN Csw(0) ELSE inEp
<1>1. m \in MscState
  BY DEF Types, TypeOK
<1>2. m' = [m EXCEPT !.sendLen = 0, !.sendPos = 0, !.state = "IDLE"]
  BY DEF AfterData
<1>3. /\ m' \in MscState /\ m'.state = "IDLE"
      /\ m'.rxBuf = m.rxBuf /\ m'.rxLen = m.rxLen /\ m'.blockSize = m.blockSize
  BY <1>1, <1>2 DEF MscState
<1> QED
  BY <1>3 DEF AfterData, Transmit

LEMMA DataOutNoCbwIs ==
  ASSUME Types, DataOutNoCbw
  PROVE  /\ m.state = "IDLE" /\ Head(ev).size \in Nat /\ ~Head(ev).cbw
         /\ m' \in MscState /\ m'.state = "IDLE" /\ m'.blockSize = m.blockSize
         /\ (m.rxBuf # Null /\ Head(ev).size > 0) =>
              m'.rxBuf = m.rxBuf /\ m'.rxLen = Head(ev).size
         /\ Head(ev).size = 0 => m'.rxBuf = BufRx /\ m'.rxLen = RxBufLen
         /\ armed' = IF open THEN m'.rxLen ELSE armed
<1>1. m \in MscState /\ m.state = "IDLE" /\ ev # <<>> /\ ev' = Tail(ev) /\ Head(ev).type = "out"
  BY DEF Types, TypeOK, DataOutNoCbw, Event
<1>2. PICK size \in Nat : size = Head(ev).size
  <2>1. Head(ev) \in EventType
    BY <1>1, Handled DEF Types
  <2> QED
    BY <1>1, <2>1, EventIs
<1>3. PICK t \in MscState : t = [m EXCEPT !.rxLen = size]
  BY <1>1 DEF MscState
<1>4. t.state = "IDLE" /\ t.rxBuf = m.rxBuf /\ t.rxLen = size /\ t.blockSize = m.blockSize
  BY <1>1, <1>3 DEF MscState
<1>5. Rearm(t, size)
  BY <1>2, <1>3 DEF DataOutNoCbw
<1>6. Rearmed(t, size)
  BY <1>5, RearmIs
<1> QED
  BY <1>1, <1>2, <1>4, <1>6 DEF Rearmed, DataOutNoCbw

LEMMA MscInitIs ==
  ASSUME Types, MscInit
  PROVE  /\ m' \in MscState /\ m'.state = "IDLE" /\ m'.rxBuf = BufRx /\ m'.rxLen = RxBufLen
         /\ open' = TRUE /\ armed' = RxBufLen /\ inEp' = inEp
<1>1. m \in MscState
  BY DEF Types, TypeOK
<1>2. m' = [m EXCEPT !.state = "IDLE", !.rxBuf = BufRx, !.rxLen = RxBufLen]
  BY DEF MscInit
<1>3. m' \in MscState /\ m'.state = "IDLE" /\ m'.rxBuf = BufRx /\ m'.rxLen = RxBufLen
  BY <1>1, <1>2, BufTypes DEF MscState
<1> QED
  BY <1>3 DEF MscInit

\* What every step of the class leaves alone, and what it keeps to its type.
LEMMA TaskIs ==
  ASSUME Types, Task
  PROVE  /\ ev # <<>> /\ ev' = Tail(ev) /\ UNCHANGED hostVars /\ Types'
         /\ MscInit \/ (Head(ev).type # "init" /\ UNCHANGED open)
         /\ ~MscInit /\ ~open => UNCHANGED <<inEp, armed>>
<1>1. ev # <<>> /\ ev' = Tail(ev) /\ UNCHANGED hostVars
  BY DEF Task, MscInit, DataInDone, DataOutCbw, DataOutNoCbw, DataOutData, Event
<1>2. EvTyped'
  BY <1>1, Handled DEF Types
<1>3. m \in MscState /\ armed \in Nat /\ open \in BOOLEAN
  BY DEF Types, TypeOK
<1>4. ASSUME m' \in MscState, armed' \in Nat, open' \in BOOLEAN, InTyped' PROVE Types'
  BY <1>1, <1>2, <1>4 DEF Types, TypeOK, hostVars
<1> DEFINE Kept == Head(ev).type # "init" /\ UNCHANGED open
                   /\ (~open => UNCHANGED <<inEp, armed>>)
<1>5. CASE MscInit
  <2>1. InTyped'
    BY <1>5, MscInitIs DEF Types, InTyped
  <2> QED
    BY <1>1, <1>4, <1>5, <2>1, MscInitIs
<1>6. CASE DataInDone
  <2>1. Kept
    BY <1>6, Zenon DEF DataInDone, Event, AfterStatus, NextData, AfterData, Transmit
  <2>2. m' \in MscState /\ InTyped'
    <3>1. CASE AfterStatus
      BY <1>3, <3>1 DEF AfterStatus, Types, InTyped
    <3>2. CASE NextData
      <4>1. PICK size \in Nat : NextDone(size, Handed(m))
        BY <3>2, NextDataIs
      <4> QED
        BY <4>1, Kinds DEF NextDone, Types, InTyped
    <3>3. CASE AfterData
      BY <3>3, AfterDataIs, Kinds DEF Types, InTyped
    <3> QED
      BY <1>6, <3>1, <3>2, <3>3 DEF DataInDone
  <2>3. armed' = armed
    BY <1>6 DEF DataInDone
  <2> QED
    BY <1>1, <1>3, <1>4, <2>1, <2>2, <2>3
<1>7. CASE DataOutCbw
  <2>1. PICK q \in MscState, s \in MscState : CbwDone(q, s)
    BY <1>7, DataOutCbwIs
  <2>2. Head(ev).type # "init" /\ UNCHANGED open
    BY <1>7 DEF DataOutCbw, Event
  <2>3. m' \in MscState /\ armed' = (IF open THEN m'.rxLen ELSE armed)
    BY <2>1 DEF CbwDone
  <2>4. PICK n \in Nat : n = Min({s.sendLen, FirstMax})
    BY StateIs, MinIs
  <2>5. \/ inEp' = inEp \/ inEp' = Data(s.sendBuf, n)
        \/ \E st \in {0, 1} : inEp' = Csw(st)
    <3>1. ScsiStatuses(cmd) \subseteq {0, 1}
      BY DEF ScsiStatuses
    <3> QED
      BY <2>1, <2>4, <3>1 DEF CbwDone
  <2>6. InTyped'
    BY <2>5, Kinds DEF Types, InTyped
  <2>7. ~open => inEp' = inEp
    BY <2>1 DEF CbwDone
  <2> QED
    BY <1>1, <1>3, <1>4, <2>2, <2>3, <2>6, <2>7, StateIs
<1>8. CASE DataOutNoCbw
  <2>1. Head(ev).type # "init" /\ UNCHANGED <<open, inEp>>
    BY <1>8 DEF DataOutNoCbw, Event
  <2>2. InTyped'
    BY <2>1 DEF Types, InTyped
  <2>3. m' \in MscState /\ armed' = (IF open THEN m'.rxLen ELSE armed)
    BY <1>8, DataOutNoCbwIs
  <2> QED
    BY <1>1, <1>3, <1>4, <2>1, <2>2, <2>3, StateIs
<1>9. CASE DataOutData
  <2>1. Head(ev).type # "init" /\ UNCHANGED open
    BY <1>9 DEF DataOutData, Event
  <2>2. /\ m' \in MscState /\ armed' = (IF open THEN m'.rxLen ELSE armed)
        /\ inEp' = inEp \/ inEp' = (IF open THEN Csw(0) ELSE inEp)
    BY <1>9, DataOutDataIs DEF DataDone
  <2>3. InTyped'
    BY <2>2, Kinds DEF Types, InTyped
  <2> QED
    BY <1>1, <1>3, <1>4, <2>1, <2>2, <2>3, StateIs
<1> QED
  BY <1>5, <1>6, <1>7, <1>8, <1>9 DEF Task

\* The host's steps.
LEMMA HostIs ==
  ASSUME Types, Host
  PROVE  Types' /\ UNCHANGED m
<1>1. UNCHANGED m
  BY DEF Host, BusReset, HostConfigures, HostSends, HostStray, HostTakes, HostCommand
<1>2. armed \in Nat /\ CbwLen \in Nat /\ rest \in 0 .. cmd.dataLen /\ cmd \in Command
  BY DEF Types, TypeOK
<1>3. cmd.dataLen \in Nat
  BY <1>2 DEF Command
<1>4. CASE BusReset
  <2>1. EvTyped'
    BY <1>4, Appended, EventTypes DEF BusReset, Types
  <2>2. InTyped'
    BY <1>4, Kinds DEF BusReset, InTyped
  <2>3. resets' \in 0 .. MaxReset /\ 0 \in 0 .. RxBufLen
    BY <1>4 DEF BusReset, Types, TypeOK
  <2>4. /\ open' = FALSE /\ armed' = 0 /\ host' = "reset" /\ result' = -1 /\ stray' = 0
        /\ UNCHANGED <<m, cmd, rest>>
    BY <1>4 DEF BusReset
  <2> QED
    BY <2>1, <2>2, <2>3, <2>4 DEF Types, TypeOK
<1>5. CASE HostConfigures
  BY <1>5 DEF HostConfigures, Types, TypeOK, EvTyped, InTyped
<1>6. CASE HostSends
  <2>1. EvTyped'
    BY <1>2, <1>6, Appended, EventTypes DEF HostSends, Types
  <2>2. rest' \in 0 .. cmd'.dataLen
    BY <1>2, <1>3, <1>6 DEF HostSends
  <2> QED
    BY <1>6, <2>1, <2>2 DEF HostSends, Types, TypeOK, InTyped
<1>7. CASE HostStray
  <2>1. stray' \in Nat
    BY <1>7 DEF HostStray
  <2>2. EvTyped'
    BY <2>1, <1>7, Appended, EventTypes DEF HostStray, Types
  <2> QED
    BY <1>7, <2>2 DEF HostStray, Types, TypeOK, InTyped
<1>8. CASE HostTakes
  <2>1. EvTyped' /\ InTyped'
    BY <1>8, Appended, EventTypes, Kinds DEF HostTakes, Types, InTyped
  <2>2. /\ UNCHANGED <<m, open, armed, cmd, stray, resets>>
        /\ \/ inEp.kind = "data" /\ inEp.size <= rest /\ rest' = rest - inEp.size
              /\ host' \in {"status", "data"} /\ result' = result
           \/ inEp.kind = "csw" /\ result' = inEp.status /\ host' = "ready" /\ rest' = rest
           \/ host' = "confused" /\ rest' = rest /\ result' = result
    BY <1>8 DEF HostTakes
  <2>3. rest' \in 0 .. cmd'.dataLen /\ result' \in {-1, 0, 1}
    BY <1>2, <1>3, <2>2 DEF Types, TypeOK, InTyped
  <2> QED
    BY <2>1, <2>2, <2>3 DEF Types, TypeOK
<1>9. ASSUME NEW c \in Commands, HostCommand(c) PROVE Types'
  <2>1. EvTyped'
    BY <1>2, <1>9, Appended, EventTypes DEF HostCommand, Types
  <2>2. c \in Command /\ c.dataLen \in Nat
    BY DEF Command
  <2> QED
    BY <1>9, <2>1, <2>2 DEF HostCommand, Types, TypeOK, InTyped
<1> QED
  BY <1>1, <1>4, <1>5, <1>6, <1>7, <1>8, <1>9 DEF Host

-----------------------------------------------------------------------------
(***************************************************************************)
(* Initialisations are last, and before them nothing is transferred.       *)
(***************************************************************************)
LEMMA OrderKept ==
  ASSUME Types, InitsLast, Quiet, Fresh, Settled => open, [Next]_vars
  PROVE  InitsLast' /\ Quiet' /\ Fresh' /\ (Settled' => open')
<1>1. CASE UNCHANGED vars
  BY <1>1 DEF vars, InitsLast, Quiet, Fresh, Settled
<1>2. CASE Task
  <2>1. /\ ev # <<>> /\ ev' = Tail(ev) /\ UNCHANGED hostVars
        /\ MscInit \/ (Head(ev).type # "init" /\ UNCHANGED open)
        /\ ~MscInit /\ ~open => UNCHANGED <<inEp, armed>>
    BY <1>2, TaskIs
  <2>2. /\ Len(ev) \in Nat \ {0} /\ Len(ev') = Len(ev) - 1 /\ Head(ev) = ev[1]
        /\ \A i \in 1 .. Len(ev') : ev'[i] = ev[i + 1]
    BY <2>1, Handled DEF Types
  <2>3. \A i \in 1 .. Len(ev') : i + 1 \in 1 .. Len(ev) /\ ev'[i] = ev[i + 1]
    BY <2>2
  <2>4. InitsLast'
    <3> SUFFICES ASSUME NEW i \in 1 .. Len(ev'), NEW j \in 1 .. Len(ev'),
                        i < j, ev'[i].type = "init"
                 PROVE  ev'[j].type = "init"
      BY DEF InitsLast
    <3>1. i + 1 < j + 1
      BY <2>2
    <3> QED
      BY <2>3, <3>1 DEF InitsLast
  <2>5. CASE MscInit
    <3>1. open' = TRUE /\ inEp' = inEp /\ ev[1].type = "init"
      BY <2>2, <2>5, MscInitIs DEF MscInit
    <3>2. ~Settled /\ host = "reset" /\ inEp = None
      <4>1. 1 \in 1 .. Len(ev)
        BY <2>2
      <4> QED
        BY <3>1, <4>1 DEF Settled, Fresh
    <3>3. \A i \in 1 .. Len(ev') : ev'[i].type = "init"
      <4> SUFFICES ASSUME NEW i \in 1 .. Len(ev') PROVE ev'[i].type = "init"
        OBVIOUS
      <4>1. 1 \in 1 .. Len(ev) /\ i + 1 \in 1 .. Len(ev) /\ 1 < i + 1
        BY <2>2
      <4> QED
        BY <2>3, <3>1, <4>1 DEF InitsLast
    <3> QED
      BY <2>1, <2>4, <3>1, <3>2, <3>3 DEF Quiet, Fresh, hostVars
  <2>6. CASE ~MscInit
    <3>1. Head(ev).type # "init" /\ open' = open
      BY <2>1, <2>6
    <3>2. Settled' => Settled
      <4> SUFFICES ASSUME Settled', NEW i \in 1 .. Len(ev) PROVE ev[i].type # "init"
        BY DEF Settled
      <4>1. i = 1 \/ (i - 1 \in 1 .. Len(ev') /\ (i - 1) + 1 = i)
        BY <2>2
      <4> QED
        BY <2>2, <3>1, <4>1 DEF Settled
    <3>3. Settled => Settled'
      BY <2>3 DEF Settled
    <3>4. ~Settled => ~open
      <4>1. 1 \in 1 .. Len(ev)
        BY <2>2
      <4> QED
        BY <2>2, <3>1, <4>1 DEF Fresh
    <3>5. ~open => inEp' = inEp /\ armed' = armed
      BY <2>1, <2>6
    <3>6. Quiet'
      BY <3>1, <3>5 DEF Quiet
    <3>7. Fresh'
      BY <2>1, <3>1, <3>2, <3>3, <3>4, <3>5 DEF Fresh, hostVars
    <3> QED
      BY <2>4, <3>1, <3>2, <3>6, <3>7
  <2> QED
    BY <2>5, <2>6
<1>3. CASE Host
  <2>1. CASE BusReset
    <3>1. PICK e \in EventType : e = [type |-> "init"] /\ e.type = "init"
      BY EventTypes
    <3>2. ev' = Append(ev, e) /\ open' = FALSE /\ inEp' = None /\ armed' = 0 /\ host' = "reset"
      BY <2>1, <3>1 DEF BusReset
    <3>3. /\ Len(ev) \in Nat /\ Len(ev') = Len(ev) + 1 /\ ev'[Len(ev) + 1] = e
          /\ \A i \in 1 .. Len(ev) : ev'[i] = ev[i]
      BY <3>2, Appended DEF Types
    <3>4. InitsLast'
      <4> SUFFICES ASSUME NEW i \in 1 .. Len(ev'), NEW j \in 1 .. Len(ev'),
                          i < j, ev'[i].type = "init"
                   PROVE  ev'[j].type = "init"
        BY DEF InitsLast
      <4>1. i \in 1 .. Len(ev) /\ (j \in 1 .. Len(ev) \/ j = Len(ev) + 1)
        BY <3>3
      <4> QED
        BY <3>1, <3>3, <4>1 DEF InitsLast
    <3>5. ~Settled'
      <4>1. Len(ev) + 1 \in 1 .. Len(ev')
        BY <3>3
      <4> QED
        BY <3>1, <3>3, <4>1 DEF Settled
    <3> QED
      BY <3>2, <3>4, <3>5 DEF Quiet, Fresh
  <2>2. CASE HostConfigures
    <3>1. UNCHANGED <<ev, open, inEp, armed>> /\ Settled
      <4>1. DOMAIN ev = 1 .. Len(ev)
        BY DEF Types, EvTyped
      <4> QED
        BY <2>2, <4>1 DEF HostConfigures, Settled
    <3> QED
      BY <3>1 DEF InitsLast, Quiet, Fresh, Settled
  <2>3. CASE HostSends \/ HostStray \/ HostTakes \/ \E c \in Commands : HostCommand(c)
    <3>1. host # "reset"
      BY <2>3 DEF HostSends, HostStray, HostTakes, HostCommand
    <3>2. Settled /\ open
      BY <3>1 DEF Fresh
    <3>3. PICK e \in EventType : e.type # "init" /\ ev' = Append(ev, e) /\ open' = open
      <4>1. armed \in Nat /\ CbwLen \in Nat /\ (HostStray => stray' \in Nat)
        BY DEF Types, TypeOK, HostStray
      <4> QED
        BY <2>3, <4>1, EventTypes DEF HostSends, HostStray, HostTakes, HostCommand
    <3>4. /\ Len(ev) \in Nat /\ Len(ev') = Len(ev) + 1 /\ ev'[Len(ev) + 1] = e
          /\ \A i \in 1 .. Len(ev) : ev'[i] = ev[i]
      BY <3>3, Appended DEF Types
    <3>5. Settled'
      <4> SUFFICES ASSUME NEW i \in 1 .. Len(ev') PROVE ev'[i].type # "init"
        BY DEF Settled
      <4>1. i \in 1 .. Len(ev) \/ i = Len(ev) + 1
        BY <3>4
      <4> QED
        BY <3>2, <3>3, <3>4, <4>1 DEF Settled
    <3>6. InitsLast' /\ Quiet' /\ Fresh'
      BY <3>2, <3>3, <3>5 DEF InitsLast, Settled, Quiet, Fresh
    <3> QED
      BY <3>2, <3>3, <3>6
  <2> QED
    BY <1>3, <2>1, <2>2, <2>3 DEF Host
<1> QED
  BY <1>1, <1>2, <1>3 DEF Next

-----------------------------------------------------------------------------
(***************************************************************************)
(* The phases, when the class handles an event.                            *)
(***************************************************************************)
LEMMA TaskQueue ==
  ASSUME Types, Task
  PROVE  /\ Len(ev) \in Nat \ {0} /\ Head(ev) = ev[1] /\ Len(ev') = Len(ev) - 1
         /\ \A i \in 1 .. Len(ev') : ev'[i] = ev[i + 1]
         /\ Len(ev) = 1 => ev' = <<>>
         /\ Len(ev) = 2 => Len(ev') = 1 /\ ev'[1] = ev[2]
         /\ UNCHANGED hostVars
<1>1. ev # <<>> /\ ev' = Tail(ev) /\ UNCHANGED hostVars
  BY TaskIs
<1>2. /\ Len(ev) \in Nat \ {0} /\ Head(ev) = ev[1] /\ Len(ev') = Len(ev) - 1 /\ EvTyped'
      /\ \A i \in 1 .. Len(ev') : ev'[i] = ev[i + 1]
  BY <1>1, Handled DEF Types
<1>3. Len(ev) = 1 => ev' = <<>>
  BY <1>2 DEF EvTyped
<1>4. Len(ev) = 2 => Len(ev') = 1 /\ ev'[1] = ev[2]
  BY <1>2
<1> QED
  BY <1>1, <1>2, <1>3, <1>4

\* An acknowledgement in state IDLE changes nothing.
LEMMA Acknowledged ==
  ASSUME Types, Task, m.state = "IDLE", ev[1].type = "in"
  PROVE  UNCHANGED <<m, inEp, open, armed>>
<1>1. Head(ev).type = "in"
  BY TaskQueue
<1>2. DataInDone
  BY <1>1 DEF Task, MscInit, DataOutCbw, DataOutNoCbw, DataOutData, Event
<1>3. AfterStatus
  BY <1>2 DEF DataInDone, AfterStatus, NextData, AfterData
<1> QED
  BY <1>2, <1>3 DEF DataInDone, AfterStatus

LEMMA SomeWaits ==
  ASSUME NEW cbw, OutWaits(cbw)
  PROVE  ev # <<>>
<1>1. Len(ev) \in {1, 2}
  BY DEF OutWaits
<1> SUFFICES ASSUME ev = <<>> PROVE FALSE
  OBVIOUS
<1>2. Len(ev) = 0
  OBVIOUS
<1> QED
  BY <1>1, <1>2

LEMMA CalmTask ==
  ASSUME Types, Calm, open, Task
  PROVE  Calm'
<1>1. /\ host' = host /\ m.state = "IDLE" /\ inEp = None /\ CbwLen \in Nat \ {0}
      /\ Len(ev) \in Nat \ {0} /\ Head(ev) = ev[1]
      /\ Len(ev) = 1 => ev' = <<>>
      /\ Len(ev) = 2 => Len(ev') = 1 /\ ev'[1] = ev[2]
      /\ stray' = stray
  BY TaskQueue DEF Calm, hostVars
<1>2. CASE NoOut /\ AwaitsCbw
  <2>1. Len(ev) = 1 /\ ev[1].type = "in"
    BY <1>1, <1>2 DEF NoOut
  <2>2. UNCHANGED <<m, inEp, armed>>
    BY <1>1, <2>1, Acknowledged
  <2>3. NoOut'
    BY <1>1, <2>1 DEF NoOut
  <2> QED
    BY <1>2, <2>2, <2>3, <1>1 DEF Calm, AwaitsCbw
<1>3. CASE OutWaits(FALSE) /\ armed = 0 /\ m.rxBuf = BufRx
  <2>1. CASE Len(ev) = 2
    <3>1. UNCHANGED <<m, inEp, armed>>
      BY <1>1, <1>3, <2>1, Acknowledged DEF OutWaits
    <3>2. OutWaits(FALSE)'
      BY <1>1, <1>3, <2>1 DEF OutWaits
    <3> QED
      BY <1>1, <1>3, <3>1, <3>2 DEF Calm
  <2>2. CASE Len(ev) = 1
    <3>1. Head(ev).type = "out" /\ ~Head(ev).cbw /\ Head(ev).size = stray
      BY <1>1, <1>3, <2>2 DEF OutWaits
    <3>2. DataOutNoCbw
      BY <1>1, <3>1 DEF Task, MscInit, DataInDone, DataOutCbw, DataOutData, Event
    <3>3. /\ m'.state = "IDLE" /\ m'.rxBuf = BufRx /\ armed' = m'.rxLen /\ inEp' = inEp
          /\ m'.rxLen = IF stray = 0 THEN RxBufLen ELSE stray
      BY <1>1, <1>3, <3>1, <3>2, DataOutNoCbwIs, BufTypes DEF DataOutNoCbw, Types, TypeOK
    <3>4. NoOut' /\ AwaitsCbw'
      BY <1>1, <2>2, <3>3 DEF NoOut, AwaitsCbw, Types, TypeOK
    <3> QED
      BY <1>1, <3>3, <3>4 DEF Calm
  <2> QED
    BY <1>3, <2>1, <2>2 DEF OutWaits
<1> QED
  BY <1>2, <1>3 DEF Calm

LEMMA AskedTask ==
  ASSUME Types, Asked, open, Task, Ordinary(Commands)
  PROVE  Phase'
<1>1. /\ UNCHANGED <<host, cmd, rest>> /\ CbwLen \in Nat \ {0} /\ m \in MscState
      /\ Len(ev) \in Nat \ {0} /\ Head(ev) = ev[1]
      /\ Len(ev) = 1 => ev' = <<>>
      /\ Len(ev) = 2 => Len(ev') = 1 /\ ev'[1] = ev[2]
  BY TaskQueue DEF Types, TypeOK, hostVars
<1>2. /\ m.state = "IDLE" /\ inEp = None /\ armed = 0 /\ m.rxBuf = BufRx /\ OutWaits(TRUE)
      /\ host = (IF cmd.dataLen > 0 THEN "data" ELSE "status")
      /\ cmd \in Commands /\ rest = cmd.dataLen
      /\ cmd.op \in {"read", "write"} => m.blockSize = BlockSize
  BY DEF Asked
<1>3. cmd.cnt \in Nat /\ cmd.dataLen \in Nat /\ FirstMax = Chunk * BlockSize /\ RespLen <= FirstMax
  BY <1>2 DEF Command, Ordinary
<1>4. CASE Len(ev) = 2
  <2>1. UNCHANGED <<m, inEp, armed>>
    BY <1>2, <1>4, Acknowledged DEF OutWaits
  <2>2. OutWaits(TRUE)'
    BY <1>1, <1>2, <1>4 DEF OutWaits
  <2>3. Asked'
    BY <1>1, <1>2, <2>1, <2>2 DEF Asked
  <2> QED
    BY <2>3 DEF Phase
<1>5. CASE Len(ev) = 1
  <2>1. Head(ev).type = "out" /\ Head(ev).cbw /\ ev' = <<>>
    BY <1>1, <1>2, <1>5 DEF OutWaits
  <2>2. DataOutCbw
    BY <1>2, <2>1 DEF Task, MscInit, DataInDone, DataOutNoCbw, DataOutData, Event
  <2>3. PICK q \in MscState, s \in MscState : CbwDone(q, s)
    BY <2>2, DataOutCbwIs
  <2>4. Executed(s, q, cmd) /\ q.blockSize = m.blockSize /\ armed' = m'.rxLen
    BY <2>3 DEF CbwDone
  <2>5. PICK n : n = Min({cmd.cnt, Chunk})
    OBVIOUS
  <2>6. CASE cmd.dataLen = 0
    <3>1. /\ m'.state = "IDLE" /\ m'.rxBuf = BufRx /\ m'.rxLen = CbwLen
          /\ \E st \in {0, 1} : inEp' = Csw(st)
      BY <1>2, <2>3, <2>6, BufTypes DEF CbwDone, ScsiStatuses
    <3>2. Answering'
      BY <1>1, <1>2, <2>1, <2>4, <2>6, <3>1, Kinds DEF Answering, AwaitsCbw
    <3> QED
      BY <3>2 DEF Phase
  <2>7. CASE cmd.dataLen > 0 /\ cmd.op = "read" /\ cmd.dir = "in"
    <3>1. cmd.dataLen = cmd.cnt * BlockSize /\ cmd.cnt * BlockSize > 0 /\ m.blockSize = BlockSize
      BY <1>2, <2>7
    <3>2. cmd.cnt > 0
      <4>1. cmd.cnt = 0 => cmd.cnt * BlockSize = 0
        OBVIOUS
      <4> QED
        BY <1>3, <3>1, <4>1
    <3>3. /\ s.sendBuf.kind = "disk" /\ s.sendLen = cmd.dataLen /\ s.sendPos = 0
          /\ s.sendBufLen = n * BlockSize /\ s.lbaCnt = cmd.cnt - n
      BY <2>4, <2>5, <2>7, <3>1 DEF Executed
    <3>4. /\ n \in Nat \ {0} /\ n * BlockSize \in Nat \ {0}
          /\ (cmd.cnt - n) * BlockSize = cmd.dataLen - n * BlockSize
          /\ cmd.cnt - n > 0 => n = Chunk
          /\ Min({s.sendLen, FirstMax}) = n * BlockSize
      <4>1. cmd.cnt \in Nat \ {0}
        BY <1>3, <3>2
      <4>2. /\ n \in Nat \ {0} /\ n * BlockSize \in Nat \ {0}
            /\ (cmd.cnt - n) * BlockSize = cmd.cnt * BlockSize - n * BlockSize
            /\ cmd.cnt - n > 0 => n = Chunk
            /\ n * BlockSize = Min({cmd.cnt * BlockSize, Chunk * BlockSize})
        BY <2>5, <4>1, Piece
      <4> QED
        BY <1>3, <3>1, <3>3, <4>2
    <3>5. 0 + n * BlockSize = n * BlockSize /\ n * BlockSize > 0
      BY <3>4
    <3>6. /\ m'.state = "DATA" /\ m'.sendLen = cmd.dataLen /\ m'.sendPos = n * BlockSize
          /\ m'.rxBuf = BufRx /\ m'.rxLen = CbwLen
          /\ m'.sendBufLen = n * BlockSize /\ m'.lbaCnt = cmd.cnt - n
          /\ inEp' = Data(s.sendBuf, n * BlockSize)
      BY <1>2, <2>3, <2>7, <3>3, <3>4, <3>5, BufTypes DEF CbwDone
    <3>7. Reading(n * BlockSize)'
      <4>1. PICK k \in Nat : k = n * BlockSize
        BY <3>4
      <4>2. /\ cmd.dataLen = cmd.dataLen - k + k
            /\ k = cmd.dataLen - (cmd.dataLen - k)
        BY <1>3
      <4>3. cmd'.op = "read" /\ m'.sendLen = cmd'.dataLen
        BY <1>1, <2>7, <3>6
      <4>4. rest' = m'.sendLen - m'.sendPos + n * BlockSize
        BY <1>1, <1>2, <3>6, <4>1, <4>2
      <4>5. m'.sendPos = m'.sendLen - m'.lbaCnt * BlockSize
        BY <3>4, <3>6, <4>1, <4>2
      <4>6. m'.lbaCnt > 0 => m'.sendBufLen = Chunk * BlockSize
        BY <3>4, <3>6
      <4> QED
        BY <4>3, <4>4, <4>5, <4>6 DEF Reading
    <3>8. InFlight(n * BlockSize)'
      BY <1>1, <1>2, <2>1, <2>7, <3>3, <3>5, <3>6, <3>7, Kinds DEF InFlight
    <3>9. Sending'
      BY <1>1, <1>2, <2>4, <2>7, <3>4, <3>6, <3>8 DEF Sending, AwaitsCbw
    <3> QED
      BY <3>9 DEF Phase
  <2>8. CASE cmd.dataLen > 0 /\ cmd.op \in {"response", "capacity"} /\ cmd.dir = "in"
             /\ RespLen <= cmd.dataLen
    <3>1. s.sendBuf = BufTx /\ s.sendLen = RespLen /\ s.sendPos = 0 /\ RespLen \in Nat \ {0}
      BY <2>4, <2>8 DEF Executed
    <3>2. Min({s.sendLen, FirstMax}) = RespLen
      BY <1>3, <3>1, MinIs
    <3>3. /\ m'.state = "DATA" /\ m'.sendLen = RespLen /\ m'.sendPos = RespLen
          /\ m'.rxBuf = BufRx /\ m'.rxLen = CbwLen /\ inEp' = Data(BufTx, RespLen)
      BY <1>2, <2>3, <2>8, <3>1, <3>2, BufTypes DEF CbwDone
    <3>4. Responding(RespLen)'
      BY <1>1, <1>2, <2>8, <3>3 DEF Responding
    <3>5. InFlight(RespLen)'
      BY <1>1, <1>2, <2>1, <2>8, <3>1, <3>3, <3>4, Kinds DEF InFlight
    <3>6. Sending'
      BY <1>1, <1>2, <2>4, <2>8, <3>1, <3>3, <3>5 DEF Sending, AwaitsCbw
    <3> QED
      BY <3>6 DEF Phase
  <2>9. CASE cmd.dataLen > 0 /\ cmd.op = "write" /\ cmd.dir = "out"
    <3>1. cmd.dataLen = cmd.cnt * BlockSize
      BY <1>2, <2>9
    <3>2. cmd.cnt > 0
      <4>1. cmd.cnt = 0 => cmd.cnt * BlockSize = 0
        OBVIOUS
      <4> QED
        BY <1>3, <2>9, <3>1, <4>1
    <3>3. n * BlockSize \in Nat /\ n * BlockSize > 0
      <4>1. cmd.cnt \in Nat \ {0}
        BY <1>3, <3>2
      <4>2. n * BlockSize \in Nat \ {0}
        BY <2>5, <4>1, Piece
      <4> QED
        BY <4>2
    <3>4. /\ s.sendBuf = AppBuf /\ s.sendBufPos = 0 /\ s.lbaCnt = cmd.cnt
          /\ s.sendBufLen = n * BlockSize
      BY <2>4, <2>5, <2>9 DEF Executed
    <3>5. /\ m'.state = "DATA" /\ m'.sendLen = cmd.dataLen /\ m'.sendPos = 0 /\ inEp' = inEp
          /\ m'.sendBufPos = 0 /\ m'.sendBufLen = n * BlockSize /\ m'.lbaCnt = cmd.cnt
          /\ m'.rxBuf = AppBuf /\ m'.rxLen = n * BlockSize
      BY <2>3, <2>9, <3>3, <3>4, BufTypes DEF CbwDone
    <3>6. Handed(m') = n
      BY <2>5, <3>5 DEF Handed
    <3>7. 0 + cmd.dataLen = cmd.dataLen
      BY <1>3
    <3>8. Receiving'
      BY <1>1, <1>2, <2>1, <2>4, <2>9, <3>3, <3>5, <3>6, <3>7 DEF Receiving, Handed
    <3> QED
      BY <3>8 DEF Phase
  <2> QED
    BY <1>2, <1>3, <2>6, <2>7, <2>8, <2>9 DEF Ordinary
<1> QED
  BY <1>2, <1>4, <1>5 DEF OutWaits

\* The next data of a read are the next n blocks, k units.
NextIs(n, k) ==
  /\ n = Handed(m) /\ n <= m.lbaCnt /\ k = n * BlockSize /\ NextDone(k, n)
  /\ (m.lbaCnt - n) * BlockSize = m.lbaCnt * BlockSize - k
  /\ m.lbaCnt - n > 0 => n = Chunk

LEMMA NextBlocks ==
  ASSUME Types, Reading(0), NextData
  PROVE  \E n \in Nat \ {0}, k \in Nat \ {0} : NextIs(n, k)
<1>1. m \in MscState /\ m.sendPos \in Nat /\ m.sendLen \in Nat /\ m.lbaCnt \in Nat
  BY StateIs DEF Types, TypeOK
<1>2. PICK n : n = Handed(m)
  OBVIOUS
<1>3. PICK size \in Nat : NextDone(size, n)
  BY <1>2, NextDataIs
<1>4. PICK b \in Nat : b = m.lbaCnt * BlockSize
  BY <1>1, Blocks
<1>5. b = m.sendLen - m.sendPos /\ b > 0
  BY <1>1, <1>3, <1>4 DEF Reading, NextDone
<1>6. m.lbaCnt \in Nat \ {0} /\ m.sendBufLen = Chunk * BlockSize
  <2>1. m.lbaCnt = 0 => m.lbaCnt * BlockSize = 0
    OBVIOUS
  <2>2. m.lbaCnt > 0
    BY <1>1, <1>4, <1>5, <2>1
  <2> QED
    BY <1>1, <2>2 DEF Reading
<1>7. /\ n \in Nat \ {0} /\ n <= m.lbaCnt /\ n * BlockSize \in Nat \ {0}
      /\ n * BlockSize = Min({m.lbaCnt * BlockSize, Chunk * BlockSize})
      /\ (m.lbaCnt - n) * BlockSize = m.lbaCnt * BlockSize - n * BlockSize
      /\ m.lbaCnt - n > 0 => n = Chunk
  BY <1>2, <1>6, Piece DEF Handed
<1>8. size = Min({b, Chunk * BlockSize})
  BY <1>3, <1>5, <1>6 DEF NextDone
<1>9. size = n * BlockSize /\ size \in Nat \ {0}
  BY <1>4, <1>7, <1>8
<1> QED
  BY <1>2, <1>3, <1>7, <1>9 DEF NextIs

LEMMA SendingTask ==
  ASSUME Types, Sending, open, Task, Ordinary(Commands)
  PROVE  Phase'
<1>1. /\ UNCHANGED <<host, cmd, rest, stray>> /\ m \in MscState
      /\ Len(ev) \in Nat \ {0} /\ Head(ev) = ev[1] /\ (Len(ev) = 1 => ev' = <<>>)
  BY TaskQueue DEF Types, TypeOK, hostVars
<1>2. cmd \in Commands /\ cmd.dir = "in" /\ m.state = "DATA" /\ AwaitsCbw /\ Taken
  <2>1. \A n : ~InFlight(n)
    BY <1>1 DEF InFlight
  <2> QED
    BY <2>1 DEF Sending
<1>3. inEp = None /\ Head(ev).type = "in" /\ ev' = <<>>
  BY <1>1, <1>2 DEF Taken
<1>4. DataInDone
  BY <1>3 DEF Task, MscInit, DataOutCbw, DataOutNoCbw, DataOutData, Event
<1>5. UNCHANGED armed /\ (NextData \/ AfterData)
  BY <1>2, <1>4 DEF DataInDone, AfterStatus
<1>6. m.sendPos \in Nat /\ m.sendLen \in Nat /\ m.lbaCnt \in Nat /\ rest \in Nat
  <2>1. rest \in Nat
    BY DEF Types, TypeOK
  <2> QED
    BY <1>1, <2>1, StateIs
<1>7. CASE AfterData
  <2>1. /\ m.sendPos >= m.sendLen /\ m'.state = "IDLE" /\ inEp' = Csw(0)
        /\ m'.rxBuf = m.rxBuf /\ m'.rxLen = m.rxLen
    BY <1>7, AfterDataIs
  <2>2. host = "status"
    BY <1>2, <1>6, <2>1 DEF Taken
  <2>3. Answering'
    BY <1>1, <1>2, <1>3, <1>5, <2>1, <2>2, Kinds DEF Answering, AwaitsCbw
  <2> QED
    BY <2>3 DEF Phase
<1>8. CASE NextData
  <2>1. host = "data" /\ Reading(0)
    BY <1>2, <1>6, <1>8 DEF Taken, Responding, NextData
  <2>2. PICK n \in Nat \ {0}, k \in Nat \ {0} : NextIs(n, k)
    BY <1>8, <2>1, NextBlocks
  <2>3. PICK b \in Nat : b = m.lbaCnt * BlockSize
    BY <1>6, Blocks
  <2>4. /\ cmd.op = "read" /\ m.sendLen = cmd.dataLen /\ rest = m.sendLen - m.sendPos
        /\ m.sendPos = m.sendLen - b /\ b = m.sendLen - m.sendPos
    BY <1>6, <2>1, <2>3 DEF Reading
  <2>7. (m.lbaCnt - n) * BlockSize = b - k /\ (m.lbaCnt - n > 0 => n = Chunk) /\ k = n * BlockSize
    BY <2>2, <2>3 DEF NextIs
  <2>8. /\ m'.state = "DATA" /\ m'.sendLen = m.sendLen /\ m'.sendPos = m.sendPos + k
        /\ m'.lbaCnt = m.lbaCnt - n /\ m'.sendBufLen = n * BlockSize
        /\ m'.rxBuf = m.rxBuf /\ m'.rxLen = m.rxLen
        /\ inEp' = Data(Buffer("disk", m.lba), k)
    BY <2>2 DEF NextIs, NextDone
  <2>9. PICK buf : buf.kind = "disk" /\ inEp' = Data(buf, k)
    <3>1. Buffer("disk", m.lba).kind = "disk"
      BY <1>1, StateIs, BufTypes
    <3> QED
      BY <2>8, <3>1
  <2>10. Reading(k)'
    <3>1. rest = m.sendLen - (m.sendPos + k) + k
      BY <1>6, <2>4
    <3>2. m.sendPos + k = m.sendLen - (b - k)
      BY <1>6, <2>4
    <3>3. rest' = m'.sendLen - m'.sendPos + k
      BY <1>1, <2>8, <3>1
    <3>4. m'.sendPos = m'.sendLen - m'.lbaCnt * BlockSize
      BY <2>7, <2>8, <3>2
    <3>5. m'.lbaCnt > 0 => m'.sendBufLen = Chunk * BlockSize
      BY <2>7, <2>8
    <3> QED
      BY <1>1, <2>4, <2>8, <3>3, <3>4, <3>5 DEF Reading
  <2>11. InFlight(k)'
    BY <1>1, <1>3, <2>1, <2>9, <2>10, Kinds DEF InFlight
  <2>12. Sending'
    BY <1>1, <1>2, <1>5, <2>8, <2>11 DEF Sending, AwaitsCbw
  <2> QED
    BY <2>12 DEF Phase
<1> QED
  BY <1>5, <1>7, <1>8

LEMMA ReceivingTask ==
  ASSUME Types, Receiving, open, Task
  PROVE  Phase'
<1>1. /\ UNCHANGED <<host, cmd, rest>> /\ m \in MscState
      /\ Len(ev) \in Nat \ {0} /\ Head(ev) = ev[1] /\ (Len(ev) = 1 => ev' = <<>>)
  BY TaskQueue DEF Types, TypeOK, hostVars
<1>2. /\ cmd \in Commands /\ cmd.op = "write" /\ cmd.dir = "out" /\ m.state = "DATA"
      /\ inEp = None /\ m.sendLen = cmd.dataLen /\ m.sendBufPos = 0 /\ m.sendBufLen > 0
      /\ m.sendBufLen = Handed(m) * BlockSize
      /\ Head(ev).type = "out" /\ Head(ev).size = m.sendBufLen /\ ev' = <<>>
      /\ m.sendPos + m.sendBufLen + rest = m.sendLen
      /\ host = (IF rest > 0 THEN "data" ELSE "status")
  BY <1>1 DEF Receiving
<1>3. DataOutData
  BY <1>2 DEF Task, MscInit, DataInDone, DataOutCbw, DataOutNoCbw, Event
<1>4. PICK n : n = Handed(m) /\ DataDone(m.sendBufLen, n)
  BY <1>2, <1>3, DataOutDataIs
<1>5. PICK k \in Nat : k = n * BlockSize /\ k = m.sendBufLen /\ k > 0
  BY <1>1, <1>2, <1>4, StateIs
<1>6. /\ m.sendPos \in Nat /\ m.sendLen \in Nat /\ rest \in Nat
      /\ CbwLen \in Nat \ {0} /\ RxBufLen >= CbwLen /\ RxBufLen \in Nat
  <2>1. rest \in Nat
    BY DEF Types, TypeOK
  <2> QED
    BY <1>1, <2>1, StateIs
<1>7. armed' = m'.rxLen
  BY <1>4 DEF DataDone
<1>8. CASE rest = 0
  <2>1. m.sendPos + k >= m.sendLen
    BY <1>2, <1>5, <1>6, <1>8
  <2>2. m'.state = "IDLE" /\ m'.rxBuf = BufRx /\ m'.rxLen = RxBufLen /\ inEp' = Csw(0)
    BY <1>4, <1>5, <2>1 DEF DataDone
  <2>3. Answering'
    BY <1>1, <1>2, <1>6, <1>7, <1>8, <2>2, Kinds DEF Answering, AwaitsCbw
  <2> QED
    BY <2>3 DEF Phase
<1>9. CASE rest > 0
  <2>1. ~(m.sendPos + k >= m.sendLen)
    BY <1>2, <1>5, <1>6, <1>9
  <2>2. /\ m'.state = "DATA" /\ inEp' = inEp
        /\ m'.sendLen = m.sendLen /\ m'.sendPos = m.sendPos + k
        /\ m'.sendBufLen = k /\ m'.sendBufPos = 0 /\ m'.lbaCnt = m.lbaCnt
        /\ m'.rxBuf = AppBuf /\ m'.rxLen = k
    BY <1>4, <1>5, <2>1 DEF DataDone
  <2>3. Handed(m') = n
    BY <1>4, <2>2 DEF Handed
  <2>4. m'.sendPos + rest = m'.sendLen
    BY <1>2, <1>5, <1>6, <2>2
  <2>5. Receiving'
    BY <1>1, <1>2, <1>5, <1>7, <1>9, <2>2, <2>3, <2>4 DEF Receiving, Handed
  <2> QED
    BY <2>5 DEF Phase
<1> QED
  BY <1>6, <1>8, <1>9

\* Nothing is on its way while the CSW waits.
LEMMA AnsweringTask ==
  ASSUME Types, Answering, Task
  PROVE  FALSE
BY TaskIs DEF Answering

-----------------------------------------------------------------------------
(***************************************************************************)
(* The phases, when host and controller act.                               *)
(***************************************************************************)
LEMMA CalmHost ==
  ASSUME Types, Calm,
         HostConfigures \/ HostStray \/ \E c \in Commands : HostCommand(c)
  PROVE  Phase'
<1>1. /\ host \in {"reset", "ready"} /\ m.state = "IDLE" /\ inEp = None /\ armed \in Nat
      /\ CbwLen \in Nat \ {0} /\ m \in MscState
  BY DEF Calm, Types, TypeOK
<1>2. CASE HostConfigures
  <2>1. host' = "ready" /\ UNCHANGED <<m, ev, inEp, armed, stray>>
    BY <1>2 DEF HostConfigures
  <2>2. Calm'
    BY <1>1, <2>1 DEF Calm, NoOut, OutWaits, AwaitsCbw
  <2> QED
    BY <2>2 DEF Phase
<1>3. ASSUME NEW cbw \in BOOLEAN, NEW n \in Nat, armed > 0, n = IF cbw THEN CbwLen ELSE stray',
             ev' = Append(ev, [type |-> "out", size |-> n, cbw |-> cbw])
      PROVE  OutWaits(cbw)' /\ m.rxBuf = BufRx
  <2>1. NoOut /\ AwaitsCbw
    <3>1. armed # 0
      BY <1>3
    <3> QED
      BY <3>1 DEF Calm
  <2>2. PICK e \in EventType : /\ e = [type |-> "out", size |-> n, cbw |-> cbw]
                               /\ e.type = "out" /\ e.size = n /\ e.cbw = cbw
    BY <1>1, EventTypes
  <2>3. /\ Len(ev) \in Nat /\ Len(ev') = Len(ev) + 1 /\ ev'[Len(ev) + 1] = e
        /\ \A i \in 1 .. Len(ev) : ev'[i] = ev[i]
    BY <1>3, <2>2, Appended DEF Types
  <2>4. Len(ev') \in {1, 2} /\ ev'[Len(ev')] = e /\ (Len(ev') = 2 => ev'[1].type = "in")
    BY <2>1, <2>3 DEF NoOut
  <2> QED
    BY <1>3, <2>1, <2>2, <2>4 DEF OutWaits, AwaitsCbw
<1>4. CASE HostStray
  <2>1. /\ armed > 0 /\ armed' = 0 /\ UNCHANGED <<m, inEp, host>>
        /\ stray' \in Nat
        /\ ev' = Append(ev, [type |-> "out", size |-> stray', cbw |-> FALSE])
    BY <1>4 DEF HostStray
  <2>2. OutWaits(FALSE)' /\ m.rxBuf = BufRx
    BY <1>3, <2>1
  <2>3. Calm'
    BY <1>1, <2>1, <2>2 DEF Calm
  <2> QED
    BY <2>3 DEF Phase
<1>5. ASSUME NEW c \in Commands, HostCommand(c) PROVE Phase'
  <2>1. /\ armed > 0 /\ armed' = 0 /\ UNCHANGED <<m, inEp>> /\ cmd' = c /\ rest' = c.dataLen
        /\ host' = (IF c.dataLen > 0 THEN "data" ELSE "status")
        /\ c.op \in {"read", "write"} => m.blockSize # 0
        /\ ev' = Append(ev, [type |-> "out", size |-> CbwLen, cbw |-> TRUE])
    BY <1>5 DEF HostCommand
  <2>2. OutWaits(TRUE)' /\ m.rxBuf = BufRx
    BY <1>1, <1>3, <2>1
  <2>3. m.blockSize \in {0, BlockSize}
    BY <1>1, StateIs
  <2>4. Asked'
    BY <1>1, <2>1, <2>2, <2>3 DEF Asked
  <2> QED
    BY <2>4 DEF Phase
<1> QED
  BY <1>2, <1>4, <1>5

LEMMA ReceivingHost ==
  ASSUME Types, Receiving, HostSends
  PROVE  Receiving'
<1>1. /\ armed > 0 /\ armed <= rest /\ rest' = rest - armed /\ armed' = 0
      /\ host' = (IF rest = armed THEN "status" ELSE "data") /\ UNCHANGED <<m, inEp, cmd>>
      /\ ev' = Append(ev, [type |-> "out", size |-> armed, cbw |-> FALSE])
  BY DEF HostSends
<1>2. /\ ev = <<>> /\ armed = m.sendBufLen /\ m.sendPos + rest = m.sendLen
      /\ armed \in Nat /\ rest \in Nat /\ m \in MscState
  BY <1>1 DEF Receiving, Types, TypeOK
<1>3. Len(ev') = 1 /\ ev'[1] = [type |-> "out", size |-> armed, cbw |-> FALSE]
  BY <1>1, <1>2
<1>4. ev'[1].type = "out" /\ ~ev'[1].cbw /\ ev'[1].size = m.sendBufLen
  BY <1>2, <1>3
<1>5. /\ m.sendPos + m.sendBufLen + rest' = m.sendLen
      /\ host' = (IF rest' > 0 THEN "data" ELSE "status")
  <2>1. m.sendPos \in Nat /\ m.sendBufLen \in Nat /\ m.sendLen \in Nat
    BY <1>2, StateIs
  <2>2. rest' = rest - m.sendBufLen /\ m.sendBufLen <= rest
    BY <1>1, <1>2
  <2>3. PICK a \in Nat, b \in Nat, c \in Nat, d \in Nat :
          a = m.sendPos /\ b = m.sendBufLen /\ c = m.sendLen /\ d = rest
    BY <1>2, <2>1
  <2>4. a + d = c /\ rest' = d - b /\ b <= d
    BY <1>2, <2>2, <2>3
  <2>5. a + b + (d - b) = c /\ (d = b <=> ~(d - b > 0))
    BY <2>4
  <2>6. host' = IF d = b THEN "status" ELSE "data"
    BY <1>1, <1>2, <2>3
  <2> QED
    BY <2>3, <2>4, <2>5, <2>6
<1>6. /\ cmd \in Commands /\ cmd.op = "write" /\ cmd.dir = "out" /\ m.state = "DATA" /\ inEp = None
      /\ m.sendLen = cmd.dataLen /\ m.sendBufPos = 0
      /\ m.rxBuf = AppBuf /\ m.rxLen = m.sendBufLen /\ m.sendBufLen > 0
      /\ m.sendBufLen = Handed(m) * BlockSize
  BY DEF Receiving
<1> QED
  BY <1>1, <1>3, <1>4, <1>5, <1>6 DEF Receiving, Handed

\* The host takes what it expects, data and status.
LEMMA SendingHost ==
  ASSUME Types, HostTakes, cmd \in Commands, cmd.dir = "in", m.state = "DATA", AwaitsCbw,
         NEW n \in Nat, InFlight(n)
  PROVE  Sending'
<1>1. /\ ev = <<>> /\ host = "data" /\ inEp.kind = "data" /\ inEp.size = n /\ n > 0
      /\ m \in MscState /\ rest \in Nat /\ cmd.dataLen \in Nat
  BY DEF InFlight, Types, TypeOK, Command
<1>2. /\ UNCHANGED <<m, open, armed, cmd, stray>> /\ inEp' = None
      /\ ev' = Append(ev, [type |-> "in"])
  BY DEF HostTakes
<1>3. Len(ev') = 1 /\ ev'[1].type = "in"
  BY <1>1, <1>2
<1>4. m.sendPos \in Nat /\ m.sendLen \in Nat /\ m.lbaCnt \in Nat
  BY <1>1, StateIs
<1>5. ASSUME n <= rest
      PROVE  rest' = rest - n /\ host' = (IF rest' = 0 \/ Short(inEp) THEN "status" ELSE "data")
  BY <1>1, <1>5 DEF HostTakes
<1>6. Taken'
  <2>1. CASE Reading(n) /\ inEp.buf.kind = "disk"
    <3>1. PICK b \in Nat : b = m.lbaCnt * BlockSize
      BY <1>4, Blocks
    <3>2. /\ cmd.op = "read" /\ m.sendLen = cmd.dataLen /\ rest = m.sendLen - m.sendPos + n
          /\ m.sendPos = m.sendLen - m.lbaCnt * BlockSize
          /\ m.lbaCnt > 0 => m.sendBufLen = Chunk * BlockSize
      BY <2>1 DEF Reading
    <3>3. n <= rest /\ m.sendPos <= m.sendLen
      <4>1. m.sendPos = m.sendLen - b /\ b \in Nat
        BY <3>1, <3>2
      <4>2. PICK p \in Nat, l \in Nat : p = m.sendPos /\ l = m.sendLen
        BY <1>4
      <4>3. rest = l - p + n /\ p = l - b
        BY <3>2, <4>1, <4>2
      <4>4. n <= l - p + n /\ p <= l
        <5>1. l - p = b
          BY <3>1, <4>2, <4>3
        <5> QED
          BY <3>1, <4>2, <5>1
      <4> QED
        BY <4>2, <4>3, <4>4
    <3>4. ~Short(inEp)
      BY <1>1, <2>1 DEF Short, BufTx, Buffer
    <3>5. rest' = m.sendLen - m.sendPos /\ host' = (IF rest' = 0 THEN "status" ELSE "data")
      <4>1. rest' = rest - n /\ host' = (IF rest' = 0 THEN "status" ELSE "data")
        BY <1>5, <3>3, <3>4
      <4>2. rest - n = m.sendLen - m.sendPos
        <5>1. PICK p \in Nat, l \in Nat : p = m.sendPos /\ l = m.sendLen
          BY <1>4
        <5>2. (l - p + n) - n = l - p
          OBVIOUS
        <5> QED
          BY <3>2, <5>1, <5>2
      <4> QED
        BY <4>1, <4>2
    <3>6. host' = IF m.sendPos < m.sendLen THEN "data" ELSE "status"
      BY <1>4, <3>3, <3>5
    <3>7. Reading(0)'
      <4>1. rest' = m.sendLen - m.sendPos + 0
        BY <1>4, <3>5
      <4> QED
        BY <1>2, <3>2, <4>1 DEF Reading
    <3> QED
      BY <1>2, <1>3, <3>6, <3>7 DEF Taken
  <2>2. CASE Responding(n) /\ inEp.buf = BufTx
    <3>1. /\ cmd.op \in {"response", "capacity"} /\ n <= rest
          /\ m.sendLen = RespLen /\ m.sendPos = RespLen
      BY <2>2 DEF Responding
    <3>2. rest' = rest - n /\ host' = "status" /\ 0 <= rest'
      BY <1>1, <1>5, <2>2, <3>1 DEF Short
    <3>3. Responding(0)' /\ ~(m.sendPos < m.sendLen)
      BY <1>2, <1>4, <3>1, <3>2 DEF Responding
    <3> QED
      BY <1>2, <1>3, <3>2, <3>3 DEF Taken
  <2> QED
    BY <2>1, <2>2 DEF InFlight
<1> QED
  BY <1>2, <1>6 DEF Sending, AwaitsCbw

LEMMA AnsweringHost ==
  ASSUME Answering, HostTakes
  PROVE  Calm'
<1>1. host = "status" /\ inEp.kind = "csw" /\ ev = <<>> /\ AwaitsCbw /\ m.state = "IDLE"
  BY DEF Answering
<1>2. /\ host' = "ready" /\ inEp' = None /\ UNCHANGED <<m, armed, stray>>
      /\ ev' = Append(ev, [type |-> "in"])
  BY <1>1 DEF HostTakes
<1>3. NoOut' /\ AwaitsCbw'
  BY <1>1, <1>2 DEF NoOut, AwaitsCbw
<1> QED
  BY <1>1, <1>2, <1>3 DEF Calm

LEMMA HostPhase ==
  ASSUME Types, Phase, Host, ~BusReset
  PROVE  Phase'
<1>1. CASE HostConfigures \/ HostStray \/ \E c \in Commands : HostCommand(c)
  <2>1. host \in {"reset", "ready"}
    BY <1>1 DEF HostConfigures, HostStray, HostCommand
  <2>2. Calm
    BY <2>1 DEF Phase, Asked, Sending, Taken, InFlight, Receiving, Answering
  <2> QED
    BY <1>1, <2>2, CalmHost
<1>2. CASE HostSends
  <2>1. host = "data" /\ cmd.dir = "out" /\ armed # 0
    BY <1>2 DEF HostSends
  <2>2. Receiving
    BY <2>1 DEF Phase, Calm, Asked, Sending, Answering
  <2> QED
    BY <1>2, <2>2, ReceivingHost DEF Phase
<1>3. CASE HostTakes
  <2>1. inEp # None
    BY <1>3 DEF HostTakes
  <2>2. Answering \/ (Sending /\ \E n \in Nat : InFlight(n))
    BY <2>1 DEF Phase, Calm, Asked, Receiving, Sending, Taken
  <2>3. CASE Answering
    BY <1>3, <2>3, AnsweringHost DEF Phase
  <2>4. CASE Sending /\ \E n \in Nat : InFlight(n)
    <3>1. PICK n \in Nat : InFlight(n)
      BY <2>4
    <3>2. cmd \in Commands /\ cmd.dir = "in" /\ m.state = "DATA" /\ AwaitsCbw
      BY <2>4 DEF Sending
    <3>3. Sending'
      BY <1>3, <3>1, <3>2, SendingHost
    <3> QED
      BY <3>3 DEF Phase
  <2> QED
    BY <2>2, <2>3, <2>4
<1> QED
  BY <1>1, <1>2, <1>3 DEF Host

-----------------------------------------------------------------------------
(***************************************************************************)
(* The invariant.                                                          *)
(***************************************************************************)
\* The initialisation that follows the last bus reset.
LEMMA InitialisedIsCalm ==
  ASSUME Types, Fresh, InitsLast, MscInit, Settled'
  PROVE  Calm'
<1>1. Task
  BY DEF Task
<1>2. /\ m'.state = "IDLE" /\ m'.rxBuf = BufRx /\ m'.rxLen = RxBufLen
      /\ armed' = RxBufLen /\ inEp' = inEp /\ RxBufLen >= CbwLen /\ RxBufLen > 0
  BY MscInitIs
<1>3. /\ Len(ev) \in Nat \ {0} /\ ev[1].type = "init" /\ Len(ev') = Len(ev) - 1
      /\ \A i \in 1 .. Len(ev') : ev'[i] = ev[i + 1]
      /\ Len(ev) = 1 => ev' = <<>>
      /\ host' = host
  BY <1>1, TaskQueue DEF MscInit, hostVars
<1>4. 1 \in 1 .. Len(ev)
  BY <1>3
<1>5. host = "reset" /\ inEp = None
  BY <1>3, <1>4 DEF Fresh, Settled
<1>6. Len(ev) = 1
  <2> SUFFICES ASSUME Len(ev) > 1 PROVE FALSE
    BY <1>3
  <2>1. 2 \in 1 .. Len(ev) /\ 1 \in 1 .. Len(ev') /\ ev'[1] = ev[2] /\ 1 < 2
    BY <1>3
  <2>2. ev[2].type = "init"
    BY <1>3, <1>4, <2>1 DEF InitsLast
  <2> QED
    BY <2>1, <2>2 DEF Settled
<1>7. NoOut'
  BY <1>3, <1>6 DEF NoOut
<1> QED
  BY <1>2, <1>3, <1>5, <1>7 DEF Calm, AwaitsCbw

\* Neither the handling of another event nor the host changes that no
\* initialisation waits; a bus reset lets one wait.
LEMMA TaskSettled ==
  ASSUME Types, Task, ~MscInit, Settled'
  PROVE  Settled
<1>1. /\ Len(ev) \in Nat \ {0} /\ ev[1].type # "init" /\ Len(ev') = Len(ev) - 1
      /\ \A i \in 1 .. Len(ev') : ev'[i] = ev[i + 1]
  BY TaskIs, TaskQueue
<1> SUFFICES ASSUME NEW i \in 1 .. Len(ev) PROVE ev[i].type # "init"
  BY DEF Settled
<1>2. i = 1 \/ (i - 1 \in 1 .. Len(ev') /\ (i - 1) + 1 = i)
  BY <1>1
<1> QED
  BY <1>1, <1>2 DEF Settled

LEMMA HostSettled ==
  ASSUME Fresh, Host, ~BusReset
  PROVE  Settled
<1>1. host # "reset" \/ HostConfigures
  BY DEF Host, HostSends, HostStray, HostTakes, HostCommand
<1>2. CASE HostConfigures
  BY <1>2 DEF HostConfigures, Settled
<1>3. CASE host # "reset"
  BY <1>3 DEF Fresh
<1> QED
  BY <1>1, <1>2, <1>3

LEMMA ResetUnsettles ==
  ASSUME Types, BusReset
  PROVE  ~Settled'
<1>1. PICK e \in EventType : e.type = "init" /\ ev' = Append(ev, e)
  BY EventTypes DEF BusReset
<1>2. Len(ev) \in Nat /\ Len(ev') = Len(ev) + 1 /\ ev'[Len(ev) + 1] = e
  BY <1>1, Appended DEF Types
<1>3. Len(ev) + 1 \in 1 .. Len(ev')
  BY <1>2
<1> QED
  BY <1>1, <1>2, <1>3 DEF Settled

LEMMA PhaseKept ==
  ASSUME MscInv, [Next]_vars, Settled', Ordinary(Commands)
  PROVE  Phase'
<1>1. Types /\ InitsLast /\ Fresh /\ (Settled => open /\ Phase)
  BY DEF MscInv
<1>2. CASE UNCHANGED vars
  <2>1. Phase
    BY <1>1, <1>2 DEF Settled, vars
  <2> QED
    BY <1>2, <2>1 DEF vars, Phase, Calm, NoOut, OutWaits, AwaitsCbw, Asked, Sending, Taken, InFlight,
                      Reading, Responding, Receiving, Answering, Handed
<1>3. CASE MscInit
  BY <1>1, <1>3, InitialisedIsCalm DEF Phase
<1>4. CASE Task /\ ~MscInit
  <2>1. Settled
    BY <1>1, <1>4, TaskSettled
  <2>2. open /\ Phase
    BY <1>1, <2>1
  <2>3. CASE Calm
    BY <1>1, <1>4, <2>2, <2>3, CalmTask DEF Phase
  <2>4. CASE Asked
    BY <1>1, <1>4, <2>2, <2>4, AskedTask
  <2>5. CASE Sending
    BY <1>1, <1>4, <2>2, <2>5, SendingTask
  <2>6. CASE Receiving
    BY <1>1, <1>4, <2>2, <2>6, ReceivingTask
  <2>7. CASE Answering
    BY <1>1, <1>4, <2>7, AnsweringTask
  <2> QED
    BY <2>2, <2>3, <2>4, <2>5, <2>6, <2>7 DEF Phase
<1>5. CASE BusReset
  BY <1>1, <1>5, ResetUnsettles
<1>6. CASE Host /\ ~BusReset
  <2>1. Settled
    BY <1>1, <1>6, HostSettled
  <2>2. Phase
    BY <1>1, <2>1
  <2> QED
    BY <1>1, <1>6, <2>2, HostPhase
<1> QED
  BY <1>2, <1>3, <1>4, <1>5, <1>6 DEF Next

LEMMA MscInvKept ==
  ASSUME MscInv, [Next]_vars, Ordinary(Commands)
  PROVE  MscInv'
<1>1. Types /\ InitsLast /\ Quiet /\ Fresh /\ (Settled => open /\ Phase)
  BY DEF MscInv
<1>2. Types'
  <2>1. CASE UNCHANGED vars
    BY <1>1, <2>1 DEF Types, TypeOK, EvTyped, InTyped, vars
  <2>2. CASE Task
    BY <1>1, <2>2, TaskIs
  <2>3. CASE Host
    BY <1>1, <2>3, HostIs
  <2> QED
    BY <2>1, <2>2, <2>3 DEF Next
<1>3. InitsLast' /\ Quiet' /\ Fresh' /\ (Settled' => open')
  BY <1>1, OrderKept
<1>4. Settled' => Phase'
  BY PhaseKept
<1> QED
  BY <1>2, <1>3, <1>4 DEF MscInv

LEMMA MscInitially == Init => MscInv
<1> SUFFICES ASSUME Init PROVE MscInv
  OBVIOUS
<1>1. m \in MscState
  BY BufTypes DEF Init, MscState
<1>2. cmd \in Command /\ cmd.dataLen = 0
  BY DEF Init, NoCommand, Command, Op
<1>3. EvTyped /\ Len(ev) = 1 /\ ev[1].type = "init"
  BY EventTypes DEF Init, EvTyped
<1>4. InTyped
  BY Kinds DEF Init, InTyped
<1>5. Types
  <2>1. rest \in 0 .. cmd.dataLen /\ resets \in 0 .. MaxReset /\ stray \in 0 .. RxBufLen
    BY <1>2 DEF Init
  <2>2. /\ open \in BOOLEAN /\ armed \in Nat /\ result \in {-1, 0, 1}
        /\ host \in {"reset", "ready", "data", "status", "confused"}
    BY DEF Init
  <2> QED
    BY <1>1, <1>2, <1>3, <1>4, <2>1, <2>2 DEF Types, TypeOK
<1>6. ~Settled /\ InitsLast
  BY <1>3 DEF Settled, InitsLast
<1>7. Quiet /\ Fresh
  BY DEF Init, Quiet, Fresh
<1> QED
  BY <1>5, <1>6, <1>7 DEF MscInv

-----------------------------------------------------------------------------
(***************************************************************************)
(* Theorems.                                                               *)
(***************************************************************************)
\* With an ordinary host and application, host and driver go through the
\* phases of the bulk-only transport together, whatever the sizes of blocks
\* and buffers and however often the bus is reset: the callbacks of usbdmsc.c
\* and the transport of usbdmsc_bot.c.
THEOREM MscInvariant == ASSUME Ordinary(Commands) PROVE Spec => []MscInv
<1>1. MscInv /\ [Next]_vars => MscInv'
  BY MscInvKept
<1> QED
  BY <1>1, MscInitially, PTL DEF Spec

\* The driver's counters stay numbers and the data still to be transferred
\* stay within the command's length (usbdmsc_bot.c, usbdmsc_scsi.c).
THEOREM MscTypes == ASSUME Ordinary(Commands) PROVE Spec => []TypeOK
<1>1. MscInv => TypeOK
  BY DEF MscInv, Types
<1> QED
  BY <1>1, MscInvariant, PTL

\* When the class has nothing to do in state idle, the OUT endpoint is armed
\* with usbdmscBufRx: UsbdMscDataOut and UsbdMscInit prepare it for a CBW after
\* every command, empty packet and bus reset, and after a stray packet for the
\* length that packet had.
THEOREM CbwIsAwaited == ASSUME Ordinary(Commands) PROVE Spec => []IdleAwaitsCbw
<1>1. MscInv => IdleAwaitsCbw
  <2> SUFFICES ASSUME MscInv, m.state = "IDLE", ev = <<>>
               PROVE  /\ m.rxBuf = BufRx /\ m.rxLen = armed /\ armed > 0
                      /\ armed >= CbwLen \/ armed = stray
    BY DEF IdleAwaitsCbw
  <2>1. Settled /\ Phase
    BY DEF MscInv, Settled
  <2> QED
    BY <2>1 DEF Phase, Calm, OutWaits, AwaitsCbw, Asked, Sending, Receiving, Answering
<1> QED
  BY <1>1, MscInvariant, PTL

\* Host and class agree on the phase of the transport, and no transfer takes
\* the host by surprise: bot.state against what the host has sent and taken.
THEOREM PhasesAlwaysAgree == ASSUME Ordinary(Commands) PROVE Spec => []PhasesAgree
<1>1. MscInv => PhasesAgree
  <2> SUFFICES ASSUME MscInv PROVE PhasesAgree
    OBVIOUS
  <2>1. CASE ~Settled
    <3>1. host = "reset"
      BY <2>1 DEF MscInv, Fresh
    <3> QED
      BY <3>1 DEF PhasesAgree
  <2>2. CASE Settled
    <3>1. Phase
      BY <2>2 DEF MscInv
    <3>2. CASE Calm
      BY <3>2 DEF Calm, PhasesAgree
    <3>3. CASE Asked
      <4>1. ev # <<>>
        BY <3>3, SomeWaits DEF Asked
      <4>2. host # "confused"
        BY <3>3 DEF Asked
      <4> QED
        BY <4>1, <4>2 DEF PhasesAgree
    <3>4. CASE Sending
      BY <3>4 DEF Sending, Taken, InFlight, PhasesAgree
    <3>5. CASE Receiving
      BY <3>5 DEF Receiving, PhasesAgree
    <3>6. CASE Answering
      BY <3>6, Kinds DEF Answering, PhasesAgree
    <3> QED
      BY <3>1, <3>2, <3>3, <3>4, <3>5, <3>6 DEF Phase
  <2> QED
    BY <2>1, <2>2
<1> QED
  BY <1>1, MscInvariant, PTL

\* UsbdevTransmit is never called for an IN endpoint that is still busy: the
\* next data, and the CSW, wait for the completion of the transfer before.
THEOREM NoOverlap == ASSUME Ordinary(Commands) PROVE Spec => NoTransferOverlap
<1>1. MscInv /\ [Next]_vars => [inEp # None => inEp' \in {inEp, None}]_vars
  <2> SUFFICES ASSUME MscInv, Next, inEp # None PROVE inEp' \in {inEp, None}
    OBVIOUS
  <2>1. Settled
    BY DEF MscInv, Fresh
  <2>2. Types /\ Phase
    BY <2>1 DEF MscInv
  <2>3. ev = <<>>
    BY <2>2 DEF Phase, Calm, Asked, Sending, Taken, InFlight, Receiving, Answering
  <2>4. ~Task
    BY <2>2, <2>3, TaskIs
  <2>5. Host
    BY <2>4 DEF Next
  <2> QED
    BY <2>5 DEF Host, BusReset, HostConfigures, HostSends, HostStray, HostTakes, HostCommand
<1> QED
  BY <1>1, MscInvariant, PTL DEF NoTransferOverlap, Spec
=============================================================================
