-------------------------- MODULE MscServiceProofs --------------------------
(***************************************************************************)
(* Proofs that the mass storage class moves the blocks it is asked for and *)
(* so implements the service: every command ends with its own status and   *)
(* with exactly the blocks it names, in order, for every size of blocks and*)
(* buffers, every set of ordinary commands and any number of bus resets.   *)
(*                                                                         *)
(* UsbdMscProofs says in which phase host and driver are; here is what has *)
(* been transferred in each of them.                                       *)
(***************************************************************************)
EXTENDS UsbdMscProofs, SequenceTheorems

\* What a command moves.
Named(c) == IF c.op \in {"read", "write"} THEN BlocksFrom(c.lba, c.cnt) ELSE <<>>
Done == /\ cmd \in Commands /\ Transferred = Named(cmd)
        /\ (IF cmd.dir = "out" THEN got ELSE written) = <<>>
Nothing == got = <<>> /\ written = <<>>

\* In the data phase of a read, lba and lbaCnt tell what has been read; the host
\* has all of it, but for the j blocks of the transfer in progress.
ReadData ==
  /\ written = <<>> /\ m.lbaCnt <= cmd.cnt /\ m.lba = cmd.lba + (cmd.cnt - m.lbaCnt)
  /\ inEp = None => got = BlocksFrom(cmd.lba, cmd.cnt - m.lbaCnt)
  /\ inEp # None =>
       \E k, j \in Nat :
         /\ k + j = cmd.cnt - m.lbaCnt /\ got = BlocksFrom(cmd.lba, k)
         /\ inEp = Data(Buffer("disk", cmd.lba + k), j * BlockSize)

\* In that of a write, lba and sendPos tell what has been written.
WriteData ==
  /\ got = <<>>
  /\ \E k \in Nat : /\ written = BlocksFrom(cmd.lba, k)
                    /\ m.lba = cmd.lba + k /\ m.sendPos = k * BlockSize

\* The blocks moved when the command has ended, when its CBW is on its way, in
\* its data phase, and when its CSW waits for the host.
Moved ==
  /\ Ended => Done
  /\ (m.state = "IDLE" /\ inEp = None /\ host \in {"data", "status"}) => Nothing
  /\ (m.state = "DATA" /\ cmd.op = "read") => ReadData
  /\ (m.state = "DATA" /\ cmd.op \in {"response", "capacity"}) => Nothing
  /\ (m.state = "DATA" /\ cmd.op = "write") => WriteData
  /\ (m.state = "IDLE" /\ inEp # None) => Done /\ inEp.status \in ScsiStatuses(cmd)

\* In a session without a command there is no result; after one it is one the
\* command may have.
ServiceInv ==
  /\ host = "reset" => result = -1
  /\ Ended => result \in ScsiStatuses(cmd)
  /\ Settled => Moved

-----------------------------------------------------------------------------
(***************************************************************************)
(* Blocks.                                                                 *)
(***************************************************************************)
LEMMA BlocksAre ==
  ASSUME NEW a \in Nat, NEW n \in Nat
  PROVE  /\ BlocksFrom(a, n) \in Seq(Int) /\ Len(BlocksFrom(a, n)) = n
         /\ \A i \in 1 .. n : BlocksFrom(a, n)[i] = a + i - 1
         /\ n = 0 => BlocksFrom(a, n) = <<>>
<1>1. BlocksFrom(a, n) \in Seq(Int) /\ Len(BlocksFrom(a, n)) = n
  BY DEF BlocksFrom
<1>2. \A i \in 1 .. n : BlocksFrom(a, n)[i] = a + i - 1
  BY DEF BlocksFrom
<1>3. n = 0 => BlocksFrom(a, n) = <<>>
  BY <1>1
<1> QED
  BY <1>1, <1>2, <1>3

LEMMA BlocksJoin ==
  ASSUME NEW a \in Nat, NEW k \in Nat, NEW n \in Nat
  PROVE  BlocksFrom(a, k) \o BlocksFrom(a + k, n) = BlocksFrom(a, k + n)
<1>1. PICK s \in Seq(Int) : s = BlocksFrom(a, k) /\ Len(s) = k /\ \A i \in 1 .. k : s[i] = a + i - 1
  BY BlocksAre
<1>2. PICK t \in Seq(Int) :
        t = BlocksFrom(a + k, n) /\ Len(t) = n /\ \A i \in 1 .. n : t[i] = (a + k) + i - 1
  <2>1. PICK c \in Nat : c = a + k
    OBVIOUS
  <2> QED
    BY <2>1, BlocksAre
<1>3. PICK u \in Seq(Int) :
        u = BlocksFrom(a, k + n) /\ Len(u) = k + n /\ \A i \in 1 .. k + n : u[i] = a + i - 1
  <2>1. PICK c \in Nat : c = k + n
    OBVIOUS
  <2> QED
    BY <2>1, BlocksAre
<1>4. /\ s \o t \in Seq(Int) /\ Len(s \o t) = Len(s) + Len(t)
      /\ \A i \in 1 .. Len(s) + Len(t) :
           (s \o t)[i] = IF i <= Len(s) THEN s[i] ELSE t[i - Len(s)]
  BY ConcatProperties
<1>5. PICK v \in Seq(Int) : v = s \o t
  BY <1>4
<1>6. Len(v) = k + n /\ \A i \in 1 .. k + n : v[i] = IF i <= k THEN s[i] ELSE t[i - k]
  <2>1. Len(s) = k /\ Len(t) = n
    BY <1>1, <1>2
  <2> QED
    BY <1>4, <1>5, <2>1, Zenon
<1>7. ASSUME NEW i \in 1 .. k + n PROVE v[i] = u[i]
  <2>1. CASE i <= k
    <3>1. v[i] = s[i] /\ i \in 1 .. k
      BY <1>6, <2>1
    <3> QED
      BY <1>1, <1>3, <3>1
  <2>2. CASE ~(i <= k)
    <3>1. i - k \in 1 .. n /\ v[i] = t[i - k]
      BY <1>6, <2>2
    <3>2. t[i - k] = (a + k) + (i - k) - 1
      BY <1>2, <3>1
    <3> QED
      BY <1>3, <3>1, <3>2
  <2> QED
    BY <2>1, <2>2
<1>8. v = u
  BY <1>3, <1>6, <1>7, SeqEqual
<1> QED
  BY <1>1, <1>2, <1>3, <1>5, <1>8

USE MscAssumption

LEMMA WholeBlocks ==
  ASSUME NEW n \in Nat
  PROVE  (n * BlockSize) \div BlockSize = n
<1>1. PICK b \in Nat \ {0} : b = BlockSize
  OBVIOUS
<1>2. (n * b) \div b = n
  OBVIOUS
<1> QED
  BY <1>1, <1>2

LEMMA BlocksInAre ==
  ASSUME NEW lba \in Nat, NEW n \in Nat
  PROVE  BlocksIn(Data(Buffer("disk", lba), n * BlockSize)) = BlocksFrom(lba, n)
BY WholeBlocks DEF BlocksIn, Data, Buffer

LEMMA ServiceIs ==
  /\ \A c : Service!Outcomes(c) = ScsiStatuses(c)
  /\ \A c : Service!Named(c) = Named(c)
BY DEF Service!Outcomes, Service!Named, ScsiStatuses, Named, BlocksFrom

-----------------------------------------------------------------------------
(***************************************************************************)
(* The blocks, when the class handles an event.                            *)
(***************************************************************************)
LEMMA CommandIs ==
  ASSUME NEW c \in Commands
  PROVE  /\ c.op \in Op /\ c.dir \in {"in", "out"} /\ c.lba \in Nat /\ c.cnt \in Nat /\ c.dataLen \in Nat
         /\ c.op \in {"read", "write"} => c.dataLen = c.cnt * BlockSize
         /\ (c.op \in {"read", "write"} /\ c.dataLen = 0) => c.cnt = 0
<1>1. /\ c.op \in Op /\ c.dir \in {"in", "out"} /\ c.lba \in Nat /\ c.cnt \in Nat /\ c.dataLen \in Nat
      /\ c.op \in {"read", "write"} => c.dataLen = c.cnt * BlockSize
  BY DEF Command
<1>2. c.cnt > 0 => c.cnt * BlockSize > 0
  BY <1>1, Blocks
<1> QED
  BY <1>1, <1>2

LEMMA CalmMoved ==
  ASSUME Types, Calm, Moved, open, Task, ~MscInit
  PROVE  Moved'
<1>1. UNCHANGED <<host, cmd, got, result>> /\ m.state = "IDLE"
  BY TaskQueue DEF hostVars, Calm
<1>2. written' = written
  BY <1>1 DEF Task, DataInDone, DataOutCbw, DataOutNoCbw, DataOutData
<1>3. m'.state = "IDLE" /\ inEp' = None /\ host' \in {"reset", "ready"}
  BY CalmTask DEF Calm
<1> QED
  BY <1>1, <1>2, <1>3 DEF Moved, Ended, Done, Transferred

LEMMA AskedMoved ==
  ASSUME Types, Asked, Moved, open, Task, Ordinary(Commands)
  PROVE  Moved'
<1>1. /\ UNCHANGED <<host, cmd, got, result>> /\ m \in MscState
      /\ Len(ev) \in Nat \ {0} /\ Head(ev) = ev[1]
  BY TaskQueue DEF Types, TypeOK, hostVars
<1>2. /\ m.state = "IDLE" /\ inEp = None /\ m.rxBuf = BufRx /\ OutWaits(TRUE)
      /\ host \in {"data", "status"} /\ cmd \in Commands
      /\ cmd.op \in {"read", "write"} => m.blockSize = BlockSize
  BY DEF Asked
<1>3. /\ got = <<>> /\ written = <<>> /\ ~Ended'
  BY <1>1, <1>2 DEF Moved, Nothing, Ended
<1>4. CASE Len(ev) = 2
  <2>1. UNCHANGED <<m, inEp>>
    BY <1>2, <1>4, Acknowledged DEF OutWaits
  <2>2. Head(ev).type = "in"
    BY <1>1, <1>2, <1>4 DEF OutWaits
  <2>3. written' = written
    BY <2>2 DEF Task, MscInit, DataInDone, DataOutCbw, DataOutNoCbw, DataOutData, Event
  <2> QED
    BY <1>1, <1>2, <1>3, <2>1, <2>3 DEF Moved, Nothing
<1>5. CASE Len(ev) = 1
  <2>1. Head(ev).type = "out" /\ Head(ev).cbw
    BY <1>1, <1>2, <1>5 DEF OutWaits
  <2>2. DataOutCbw
    BY <1>2, <2>1 DEF Task, MscInit, DataInDone, DataOutNoCbw, DataOutData, Event
  <2>3. PICK q \in MscState, s \in MscState : CbwDone(q, s)
    BY <2>2, DataOutCbwIs
  <2>4. Executed(s, q, cmd) /\ q.blockSize = m.blockSize /\ m'.lba = s.lba /\ m'.lbaCnt = s.lbaCnt
    BY <2>3 DEF CbwDone
  <2>5. got' = <<>> /\ written' = <<>>
    BY <1>1, <1>3, <2>2 DEF DataOutCbw
  <2>6. CASE cmd.dataLen = 0
    <3>1. m'.state = "IDLE" /\ \E st \in ScsiStatuses(cmd) : inEp' = Csw(st)
      BY <2>3, <2>6 DEF CbwDone
    <3>2. inEp' # None /\ inEp'.status \in ScsiStatuses(cmd)
      BY <3>1, Kinds
    <3>3. Named(cmd) = <<>>
      <4>1. cmd.op \in {"read", "write"} => cmd.cnt = 0 /\ cmd.lba \in Nat
        BY <1>2, <2>6, CommandIs
      <4>2. \A a \in Nat : BlocksFrom(a, 0) = <<>>
        BY BlocksAre
      <4> QED
        BY <4>1, <4>2 DEF Named
    <3>4. Done'
      BY <1>1, <1>2, <2>5, <3>3 DEF Done, Transferred
    <3> QED
      BY <1>1, <1>3, <3>1, <3>2, <3>4 DEF Moved
  <2>7. CASE cmd.dataLen > 0 /\ cmd.op = "read" /\ cmd.dir = "in"
    <3>1. /\ cmd.dataLen = cmd.cnt * BlockSize /\ cmd.cnt * m.blockSize > 0 /\ cmd.cnt \in Nat
          /\ cmd.lba \in Nat
      BY <1>2, <2>7, CommandIs
    <3>2. cmd.cnt \in Nat \ {0}
      <4>1. cmd.cnt = 0 => cmd.cnt * BlockSize = 0
        OBVIOUS
      <4> QED
        BY <2>7, <3>1, <4>1
    <3>3. PICK n \in Nat \ {0} : /\ n = Min({cmd.cnt, Chunk}) /\ n <= cmd.cnt
                                 /\ n * BlockSize = Min({cmd.cnt * BlockSize, Chunk * BlockSize})
      <4>1. PICK n : n = Min({cmd.cnt, Chunk})
        OBVIOUS
      <4> QED
        BY <3>2, <4>1, Piece
    <3>4. /\ s.sendBuf = Buffer("disk", cmd.lba) /\ s.sendLen = cmd.dataLen
          /\ s.lba = cmd.lba + n /\ s.lbaCnt = cmd.cnt - n
      BY <1>2, <2>4, <2>7, <3>1, <3>3 DEF Executed
    <3>5. Min({s.sendLen, FirstMax}) = n * BlockSize
      BY <3>1, <3>3, <3>4 DEF Ordinary
    <3>6. m'.state = "DATA" /\ inEp' = Data(Buffer("disk", cmd.lba), n * BlockSize)
      BY <2>3, <2>7, <3>4, <3>5 DEF CbwDone
    <3>7. inEp' # None
      BY <3>6, Kinds
    <3>8. cmd.cnt - (cmd.cnt - n) = n /\ cmd.cnt - n <= cmd.cnt /\ 0 + n = n /\ cmd.lba + 0 = cmd.lba
      BY <3>1
    <3>9. got' = BlocksFrom(cmd.lba, 0)
      BY <2>5, <3>1, BlocksAre
    <3>10. ReadData'
      BY <1>1, <2>4, <2>5, <3>4, <3>6, <3>7, <3>8, <3>9 DEF ReadData
    <3> QED
      BY <1>1, <1>3, <2>7, <3>6, <3>10 DEF Moved
  <2>8. CASE cmd.dataLen > 0 /\ cmd.op \in {"response", "capacity"} /\ cmd.dir = "in"
    <3>1. m'.state = "DATA"
      BY <2>3, <2>8 DEF CbwDone
    <3> QED
      BY <1>1, <1>3, <2>5, <2>8, <3>1 DEF Moved, Nothing
  <2>9. CASE cmd.dataLen > 0 /\ cmd.op = "write" /\ cmd.dir = "out"
    <3>1. m'.state = "DATA" /\ m'.sendPos = 0 /\ m'.lba = cmd.lba
      BY <2>3, <2>4, <2>9 DEF CbwDone, Executed
    <3>2. cmd.lba \in Nat /\ cmd.lba + 0 = cmd.lba /\ 0 * BlockSize = 0
      BY <1>2, CommandIs
    <3>3. written' = BlocksFrom(cmd.lba, 0)
      BY <2>5, <3>2, BlocksAre
    <3>4. WriteData'
      BY <1>1, <2>5, <3>1, <3>2, <3>3 DEF WriteData
    <3> QED
      BY <1>1, <1>3, <2>9, <3>1, <3>4 DEF Moved
  <2> QED
    BY <1>2, <2>6, <2>7, <2>8, <2>9, CommandIs DEF Ordinary
<1> QED
  BY <1>2, <1>4, <1>5 DEF OutWaits

\* The end of the data of a read or a response, and the next data of a read.
LEMMA SendingMoved ==
  ASSUME Types, Sending, Moved, open, Task
  PROVE  Moved'
<1>1. /\ UNCHANGED <<host, cmd, got, result>> /\ m \in MscState
      /\ Len(ev) \in Nat \ {0} /\ Head(ev) = ev[1] /\ (Len(ev) = 1 => ev' = <<>>)
  BY TaskQueue DEF Types, TypeOK, hostVars
<1>2. cmd \in Commands /\ cmd.dir = "in" /\ m.state = "DATA" /\ Taken
  <2>1. \A n : ~InFlight(n)
    BY <1>1 DEF InFlight
  <2> QED
    BY <2>1 DEF Sending
<1>3. inEp = None /\ Head(ev).type = "in" /\ host \in {"data", "status"} /\ ~Ended'
  BY <1>1, <1>2 DEF Taken, Ended
<1>4. DataInDone
  BY <1>3 DEF Task, MscInit, DataOutCbw, DataOutNoCbw, DataOutData, Event
<1>5. written' = written /\ (NextData \/ AfterData)
  BY <1>2, <1>4 DEF DataInDone, AfterStatus
<1>6. m.sendPos \in Nat /\ m.sendLen \in Nat /\ m.lbaCnt \in Nat /\ m.lba \in Nat
  BY <1>1, StateIs
<1>7. cmd.lba \in Nat /\ cmd.cnt \in Nat
  BY <1>2, CommandIs
<1>8. CASE AfterData
  <2>1. m.sendPos >= m.sendLen /\ m'.state = "IDLE" /\ inEp' = Csw(0)
    BY <1>8, AfterDataIs
  <2>2. got = Named(cmd) /\ written = <<>> /\ 0 \in ScsiStatuses(cmd)
    <3>1. CASE Reading(0)
      <4>1. cmd.op = "read" /\ ReadData /\ m.sendPos = m.sendLen - m.lbaCnt * BlockSize
        BY <1>2, <3>1 DEF Reading, Moved
      <4>2. m.lbaCnt > 0 => m.lbaCnt * BlockSize > 0 /\ m.lbaCnt * BlockSize \in Nat
        BY <1>6, Blocks
      <4>3. m.lbaCnt = 0
        BY <1>6, <2>1, <4>1, <4>2
      <4>4. got = BlocksFrom(cmd.lba, cmd.cnt)
        <5>1. cmd.cnt - 0 = cmd.cnt
          BY <1>7
        <5> QED
          BY <1>3, <4>1, <4>3, <5>1 DEF ReadData
      <4> QED
        BY <4>1, <4>4 DEF Named, ScsiStatuses, ReadData
    <3>2. CASE Responding(0)
      BY <1>2, <3>2 DEF Responding, Moved, Nothing, Named, ScsiStatuses
    <3> QED
      BY <1>2, <3>1, <3>2 DEF Taken
  <2>3. Done'
    BY <1>1, <1>2, <1>5, <2>2 DEF Done, Transferred
  <2>4. inEp' # None /\ inEp'.status = 0
    BY <2>1, Kinds
  <2> QED
    BY <1>1, <1>3, <2>1, <2>2, <2>3, <2>4 DEF Moved
<1>9. CASE NextData
  <2>1. Reading(0) /\ cmd.op = "read"
    BY <1>2, <1>6, <1>9 DEF Taken, Reading, Responding, NextData
  <2>2. PICK n \in Nat \ {0}, k \in Nat \ {0} : NextIs(n, k)
    BY <1>9, <2>1, NextBlocks
  <2>3. /\ m'.state = "DATA" /\ m'.lba = m.lba + n /\ m'.lbaCnt = m.lbaCnt - n
        /\ inEp' = Data(Buffer("disk", m.lba), n * BlockSize) /\ n <= m.lbaCnt
    BY <2>2 DEF NextIs, NextDone
  <2>4. /\ written = <<>> /\ m.lbaCnt <= cmd.cnt /\ m.lba = cmd.lba + (cmd.cnt - m.lbaCnt)
        /\ got = BlocksFrom(cmd.lba, cmd.cnt - m.lbaCnt)
    BY <1>2, <1>3, <2>1 DEF Moved, ReadData
  <2>5. PICK g \in Nat : g = cmd.cnt - m.lbaCnt
    BY <1>6, <1>7, <2>4
  <2>6. /\ m'.lbaCnt <= cmd.cnt /\ m'.lba = cmd.lba + (cmd.cnt - m'.lbaCnt)
        /\ g + n = cmd.cnt - m'.lbaCnt
    <3>1. PICK a \in Nat, c \in Nat, l \in Nat : a = cmd.lba /\ c = cmd.cnt /\ l = m.lbaCnt
      BY <1>6, <1>7
    <3>2. /\ l <= c /\ n <= l /\ m.lba = a + (c - l) /\ g = c - l
          /\ m'.lba = m.lba + n /\ m'.lbaCnt = l - n
      BY <2>3, <2>4, <2>5, <3>1
    <3>3. l - n <= c /\ (a + (c - l)) + n = a + (c - (l - n)) /\ (c - l) + n = c - (l - n)
      BY <3>2
    <3> QED
      BY <3>1, <3>2, <3>3
  <2>7. inEp' # None
    BY <2>3, Kinds
  <2>8. ReadData'
    BY <1>1, <1>5, <2>3, <2>4, <2>5, <2>6, <2>7 DEF ReadData
  <2> QED
    BY <1>1, <1>3, <2>1, <2>3, <2>8 DEF Moved
<1> QED
  BY <1>5, <1>8, <1>9

\* A full buffer is written: the next blocks, the last ones included.
LEMMA ReceivingMoved ==
  ASSUME Types, Receiving, Moved, open, Task
  PROVE  Moved'
<1>1. /\ UNCHANGED <<host, cmd, got, result>> /\ m \in MscState
      /\ Len(ev) \in Nat \ {0} /\ Head(ev) = ev[1] /\ (Len(ev) = 1 => ev' = <<>>)
  BY TaskQueue DEF Types, TypeOK, hostVars
<1>2. /\ cmd \in Commands /\ cmd.op = "write" /\ cmd.dir = "out" /\ m.state = "DATA"
      /\ inEp = None /\ m.sendLen = cmd.dataLen /\ m.sendBufLen > 0
      /\ m.sendBufLen = Handed(m) * BlockSize
      /\ Head(ev).type = "out" /\ Head(ev).size = m.sendBufLen
      /\ m.sendPos + m.sendBufLen + rest = m.sendLen
      /\ host \in {"data", "status"} /\ ~Ended'
  BY <1>1 DEF Receiving, Ended
<1>3. DataOutData
  BY <1>2 DEF Task, MscInit, DataInDone, DataOutCbw, DataOutNoCbw, Event
<1>4. PICK n \in Nat : n = Handed(m) /\ DataDone(m.sendBufLen, n)
  BY <1>1, <1>2, <1>3, DataOutDataIs, HandedIs
<1>5. PICK k \in Nat : k = n * BlockSize /\ k = m.sendBufLen /\ k > 0
  BY <1>1, <1>2, <1>4, StateIs
<1>6. m.sendPos \in Nat /\ m.sendLen \in Nat /\ rest \in Nat /\ m.lba \in Nat
  <2>1. rest \in Nat
    BY DEF Types, TypeOK
  <2> QED
    BY <1>1, <2>1, StateIs
<1>7. PICK w \in Nat : /\ written = BlocksFrom(cmd.lba, w) /\ m.lba = cmd.lba + w
                       /\ m.sendPos = w * BlockSize /\ got = <<>>
  BY <1>2 DEF Moved, WriteData
<1>8. /\ cmd.lba \in Nat /\ cmd.cnt \in Nat /\ cmd.dataLen = cmd.cnt * BlockSize
  BY <1>2, CommandIs
<1>9. k \div BlockSize = n
  BY <1>5, WholeBlocks
<1>10. written' = BlocksFrom(cmd.lba, w + n)
  <2>1. written' = written \o BlocksFrom(m.lba, n)
    BY <1>4, <1>5, <1>9 DEF DataDone, WriteCall
  <2>2. BlocksFrom(cmd.lba, w) \o BlocksFrom(cmd.lba + w, n) = BlocksFrom(cmd.lba, w + n)
    <3>1. PICK a \in Nat : a = cmd.lba
      BY <1>8
    <3>2. BlocksFrom(a, w) \o BlocksFrom(a + w, n) = BlocksFrom(a, w + n)
      BY BlocksJoin, Zenon
    <3> QED
      BY <3>1, <3>2, Zenon
  <2> QED
    BY <1>7, <2>1, <2>2, Zenon
<1>11. m.sendPos + k = (w + n) * BlockSize
  <2>1. PICK b \in Nat : b = BlockSize
    OBVIOUS
  <2>2. (w + n) * b = w * b + n * b
    OBVIOUS
  <2> QED
    BY <1>5, <1>7, <2>1, <2>2
<1>12. CASE m.sendPos + k >= m.sendLen
  <2>1. m'.state = "IDLE" /\ inEp' = Csw(0)
    BY <1>4, <1>5, <1>12 DEF DataDone
  <2>2. (w + n) * BlockSize = cmd.cnt * BlockSize
    <3>1. m.sendPos + k = m.sendLen
      BY <1>2, <1>5, <1>6, <1>12
    <3> QED
      BY <1>2, <1>8, <1>11, <3>1
  <2>3. w + n = cmd.cnt
    <3>1. PICK x \in Nat : x = w + n
      OBVIOUS
    <3>2. (x < cmd.cnt => x * BlockSize < cmd.cnt * BlockSize)
          /\ (cmd.cnt < x => cmd.cnt * BlockSize < x * BlockSize)
          /\ x * BlockSize \in Nat /\ cmd.cnt * BlockSize \in Nat
      BY <1>8, Blocks
    <3>3. x * BlockSize = cmd.cnt * BlockSize
      BY <2>2, <3>1
    <3>4. ~(x < cmd.cnt) /\ ~(cmd.cnt < x)
      BY <3>2, <3>3
    <3> QED
      BY <1>8, <3>1, <3>4
  <2>4. written' = Named(cmd) /\ 0 \in ScsiStatuses(cmd)
    BY <1>2, <1>10, <2>3 DEF Named, ScsiStatuses
  <2>5. Done'
    BY <1>1, <1>2, <1>7, <2>4 DEF Done, Transferred
  <2>6. inEp' # None /\ inEp'.status = 0
    BY <2>1, Kinds
  <2> QED
    BY <1>1, <1>2, <2>1, <2>4, <2>5, <2>6 DEF Moved
<1>13. CASE ~(m.sendPos + k >= m.sendLen)
  <2>1. /\ m'.state = "DATA" /\ m'.sendPos = m.sendPos + k /\ m'.lba = m.lba + n
    BY <1>4, <1>5, <1>9, <1>13 DEF DataDone
  <2>2. m'.lba = cmd.lba + (w + n) /\ w + n \in Nat
    BY <1>7, <1>8, <2>1
  <2>3. WriteData'
    BY <1>1, <1>7, <1>10, <1>11, <2>1, <2>2 DEF WriteData
  <2> QED
    BY <1>1, <1>2, <2>1, <2>3 DEF Moved
<1> QED
  BY <1>12, <1>13

-----------------------------------------------------------------------------
(***************************************************************************)
(* The blocks, when host and controller act.                               *)
(***************************************************************************)
LEMMA HostMoved ==
  ASSUME Types, Phase, Moved, Phase', Host, ~BusReset,
         host = "reset" => result = -1, Ended => result \in ScsiStatuses(cmd)
  PROVE  Moved' /\ (Ended' => result' \in ScsiStatuses(cmd'))
<1>1. CASE HostConfigures
  <2>1. host = "reset" /\ UNCHANGED <<m, inEp, cmd, got, result, written>> /\ host' = "ready" /\ ~Ended'
    BY <1>1 DEF HostConfigures, Ended
  <2>2. Calm
    BY <2>1 DEF Phase, Asked, Sending, Taken, InFlight, Receiving, Answering
  <2> QED
    BY <2>1, <2>2 DEF Calm, Moved
<1>2. CASE HostStray
  <2>1. host = "ready" /\ UNCHANGED <<m, inEp, host, cmd, got, result, written>>
    BY <1>2 DEF HostStray
  <2>2. Calm
    BY <2>1 DEF Phase, Asked, Sending, Taken, InFlight, Receiving, Answering
  <2> QED
    BY <2>1, <2>2 DEF Calm, Moved, Ended, Done, Transferred
<1>3. ASSUME NEW c \in Commands, HostCommand(c) PROVE Moved' /\ ~Ended'
  <2>1. host = "ready" /\ UNCHANGED <<m, inEp>> /\ got' = <<>> /\ written' = <<>> /\ result' = -1
    BY <1>3 DEF HostCommand
  <2>2. Calm
    BY <2>1 DEF Phase, Asked, Sending, Taken, InFlight, Receiving, Answering
  <2> QED
    BY <2>1, <2>2 DEF Calm, Moved, Ended, Nothing
<1>4. CASE HostSends
  <2>1. /\ host = "data" /\ cmd.dir = "out" /\ armed # 0 /\ host' \in {"data", "status"}
        /\ UNCHANGED <<m, inEp, cmd, got, result, written>>
    BY <1>4 DEF HostSends
  <2>2. Receiving
    BY <2>1 DEF Phase, Calm, Asked, Sending, Answering
  <2>3. WriteData'
    BY <2>1, <2>2 DEF Receiving, Moved, WriteData
  <2> QED
    BY <2>1, <2>2, <2>3 DEF Receiving, Moved, Ended
<1>5. CASE HostTakes
  <2>1. inEp # None /\ inEp' = None /\ UNCHANGED <<m, cmd, written>>
    BY <1>5 DEF HostTakes
  <2>2. CASE Answering
    <3>1. /\ host' = "ready" /\ result' = inEp.status /\ got' = got /\ m.state = "IDLE"
      BY <1>5, <2>2 DEF Answering, HostTakes
    <3>2. Done /\ inEp.status \in ScsiStatuses(cmd)
      BY <2>1, <3>1 DEF Moved
    <3>3. Done'
      BY <2>1, <3>1, <3>2 DEF Done, Transferred
    <3> QED
      BY <2>1, <3>1, <3>2, <3>3 DEF Moved
  <2>3. CASE Sending /\ \E n \in Nat : InFlight(n)
    <3>1. PICK n \in Nat : InFlight(n)
      BY <2>3
    <3>2. /\ cmd \in Commands /\ m.state = "DATA" /\ inEp.kind = "data" /\ inEp.size = n
          /\ host = "data" /\ n \in Nat
      BY <2>3, <3>1 DEF Sending, InFlight
    <3>3. host' # "confused"
      BY DEF Phase, Calm, Asked, Sending, Taken, InFlight, Receiving, Answering
    <3>4. got' = got \o BlocksIn(inEp) /\ host' \in {"data", "status"} /\ ~Ended'
      BY <1>5, <3>2, <3>3 DEF HostTakes, Ended
    <3>5. CASE Reading(n) /\ inEp.buf.kind = "disk"
      <4>1. cmd.op = "read" /\ ReadData
        BY <3>2, <3>5 DEF Reading, Moved
      <4>2. PICK k \in Nat, j \in Nat :
              /\ k + j = cmd.cnt - m.lbaCnt /\ got = BlocksFrom(cmd.lba, k)
              /\ inEp = Data(Buffer("disk", cmd.lba + k), j * BlockSize)
        BY <2>1, <4>1 DEF ReadData
      <4>3. cmd.lba \in Nat /\ cmd.lba + k \in Nat
        BY <3>2, CommandIs
      <4>4. BlocksIn(inEp) = BlocksFrom(cmd.lba + k, j)
        BY <4>2, <4>3, BlocksInAre
      <4>5. got' = BlocksFrom(cmd.lba, k + j)
        <5>1. BlocksFrom(cmd.lba, k) \o BlocksFrom(cmd.lba + k, j) = BlocksFrom(cmd.lba, k + j)
          <6>1. PICK a \in Nat : a = cmd.lba
            BY <4>3
          <6>2. BlocksFrom(a, k) \o BlocksFrom(a + k, j) = BlocksFrom(a, k + j)
            BY BlocksJoin, Zenon
          <6> QED
            BY <6>1, <6>2, Zenon
        <5> QED
          BY <3>4, <4>2, <4>4, <5>1, Zenon
      <4>6. ReadData'
        BY <2>1, <4>1, <4>2, <4>5 DEF ReadData
      <4> QED
        BY <2>1, <3>2, <3>4, <4>1, <4>6 DEF Moved
    <3>6. CASE Responding(n) /\ inEp.buf = BufTx
      <4>1. cmd.op \in {"response", "capacity"} /\ got = <<>> /\ written = <<>>
        BY <3>2, <3>6 DEF Responding, Moved, Nothing
      <4>2. BlocksIn(inEp) = <<>>
        <5>1. BufTx.kind # "disk"
          BY DEF BufTx, Buffer
        <5> QED
          BY <3>6, <5>1 DEF BlocksIn
      <4>3. got' = <<>> /\ written' = <<>>
        BY <2>1, <3>4, <4>1, <4>2
      <4> QED
        BY <2>1, <3>2, <3>4, <4>1, <4>3 DEF Moved, Nothing
    <3> QED
      BY <3>1, <3>5, <3>6 DEF InFlight
  <2> QED
    BY <2>1, <2>2, <2>3 DEF Phase, Calm, Asked, Receiving, Sending, Taken
<1> QED
  BY <1>1, <1>2, <1>3, <1>4, <1>5 DEF Host, HostConfigures, Ended

-----------------------------------------------------------------------------
(***************************************************************************)
(* The invariant.                                                          *)
(***************************************************************************)
LEMMA ServiceInvKept ==
  ASSUME MscInv, MscInv', ServiceInv, [Next]_vars, Ordinary(Commands)
  PROVE  ServiceInv'
<1>1. /\ Types /\ InitsLast /\ Fresh /\ (Settled => open /\ Phase)
      /\ (Settled' => Phase')
  BY DEF MscInv
<1>2. (host = "reset" => result = -1) /\ (Ended => result \in ScsiStatuses(cmd)) /\ (Settled => Moved)
  BY DEF ServiceInv
<1>3. CASE UNCHANGED vars
  <2>1. Settled' => Settled
    BY <1>3 DEF vars, Settled
  <2>2. Moved => Moved'
    BY <1>3 DEF vars, Moved, Ended, Done, Transferred, Nothing, ReadData, WriteData
  <2> QED
    BY <1>2, <1>3, <2>1, <2>2 DEF vars, ServiceInv, Ended
<1>4. CASE Task
  <2>1. UNCHANGED hostVars
    BY <1>1, <1>4, TaskQueue
  <2>2. (host' = "reset" => result' = -1) /\ (Ended' => result' \in ScsiStatuses(cmd'))
    BY <1>2, <2>1 DEF hostVars, Ended
  <2>3. CASE MscInit
    <3>1. Settled' => Calm'
      BY <1>1, <2>3, InitialisedIsCalm
    <3>2. host = "reset"
      <4>1. ev # <<>> /\ ev[1].type = "init"
        BY <1>1, <1>4, <2>3, TaskQueue DEF MscInit
      <4>2. 1 \in 1 .. Len(ev)
        BY <1>1, <1>4, TaskQueue
      <4> QED
        BY <1>1, <4>1, <4>2 DEF Fresh, Settled
    <3>3. host' = "reset"
      BY <2>1, <3>2 DEF hostVars
    <3>4. Settled' => Moved'
      BY <3>1, <3>3 DEF Calm, Moved, Ended
    <3> QED
      BY <2>2, <3>4 DEF ServiceInv
  <2>4. CASE ~MscInit
    <3>1. Settled' => Settled
      BY <1>1, <1>4, <2>4, TaskSettled
    <3>2. ASSUME Settled PROVE Moved'
      <4>1. open /\ Phase /\ Moved
        BY <1>1, <1>2, <3>2
      <4> QED
        BY <1>1, <1>4, <2>4, <4>1, CalmMoved, AskedMoved, SendingMoved, ReceivingMoved,
           AnsweringTask DEF Phase
    <3> QED
      BY <2>2, <3>1, <3>2 DEF ServiceInv
  <2> QED
    BY <2>3, <2>4
<1>5. CASE BusReset
  <2>1. host' = "reset" /\ result' = -1
    BY <1>5 DEF BusReset
  <2>2. ~Settled'
    BY <1>1, <1>5, ResetUnsettles
  <2> QED
    BY <2>1, <2>2 DEF ServiceInv, Ended
<1>6. CASE Host /\ ~BusReset
  <2>1. Settled
    BY <1>1, <1>6, HostSettled
  <2>2. Phase /\ Moved
    BY <1>1, <1>2, <2>1
  <2>3. Phase'
    BY <1>1, <1>6, <2>2, HostPhase
  <2>4. Moved' /\ (Ended' => result' \in ScsiStatuses(cmd'))
    BY <1>1, <1>2, <1>6, <2>2, <2>3, HostMoved
  <2>5. host' = "reset" => result' = -1
    BY <1>2, <1>6 DEF Host, HostConfigures, HostSends, HostStray, HostTakes, HostCommand, hostVars
  <2> QED
    BY <2>4, <2>5 DEF ServiceInv
<1> QED
  BY <1>3, <1>4, <1>5, <1>6 DEF Next

LEMMA ServiceInitially == Init => ServiceInv
<1> SUFFICES ASSUME Init PROVE ServiceInv
  OBVIOUS
<1>1. host = "reset" /\ result = -1 /\ ~Ended
  BY DEF Init, Ended
<1>2. Len(ev) = 1 /\ ev[1].type = "init"
  BY DEF Init
<1>3. ~Settled
  BY <1>2 DEF Settled
<1> QED
  BY <1>1, <1>3 DEF ServiceInv

\* What has been transferred whenever a command has ended.
LEMMA EndedIsDone ==
  ASSUME MscInv, ServiceInv, Ended
  PROVE  Done /\ result \in ScsiStatuses(cmd)
<1>1. Settled
  BY DEF MscInv, Fresh, Ended
<1> QED
  BY <1>1 DEF ServiceInv, Moved

-----------------------------------------------------------------------------
(***************************************************************************)
(* Theorems.                                                               *)
(***************************************************************************)
\* In every phase of a command the lba, the counters and the buffers of
\* usbdmsc_scsi.c and usbdmsc_bot.c stand for exactly the blocks that have been
\* transferred: those from the command's first one on, without gap or repeat.
THEOREM ServiceInvariant == ASSUME Ordinary(Commands) PROVE Spec => [](MscInv /\ ServiceInv)
<1>1. MscInv /\ MscInv' /\ ServiceInv /\ [Next]_vars => ServiceInv'
  BY ServiceInvKept
<1> QED
  BY <1>1, MscInvariant, ServiceInitially, PTL DEF Spec

\* A READ(10) that ends with success has given the host exactly the blocks it
\* asked for, each once and in order, through UsbdmscScsiDataReadAndSend and
\* every buffer the application hands out.
THEOREM ReadsAreExact == ASSUME Ordinary(Commands) PROVE Spec => []ReadIsExact
<1>1. MscInv /\ ServiceInv => ReadIsExact
  <2> SUFFICES ASSUME MscInv, ServiceInv, Succeeded("read")
               PROVE  got = BlocksFrom(cmd.lba, cmd.cnt)
    BY DEF ReadIsExact
  <2>1. Ended /\ cmd.op = "read"
    BY DEF Succeeded, Ended
  <2>2. Done
    BY <2>1, EndedIsDone
  <2>3. CASE cmd.dir = "in"
    BY <2>1, <2>2, <2>3 DEF Done, Transferred, Named
  <2>4. CASE cmd.dir # "in"
    <3>1. cmd.cnt = 0 /\ cmd.dir = "out" /\ cmd.lba \in Nat
      <4>1. cmd \in Commands
        BY <2>2 DEF Done
      <4>2. ~(cmd.dataLen > 0)
        BY <2>1, <2>4, <4>1 DEF Ordinary
      <4> QED
        BY <2>1, <2>4, <4>1, <4>2, CommandIs
    <3> QED
      BY <2>2, <3>1, BlocksAre DEF Done
  <2> QED
    BY <2>3, <2>4
<1> QED
  BY <1>1, ServiceInvariant, PTL

\* A WRITE(10) that ends with success has had the application write exactly
\* the blocks it names, in order: UsbdmscScsiDataRecvAndWrite, called by
\* UsbdmscBotDataOut for every full buffer and for the last one.
THEOREM WritesAreExact == ASSUME Ordinary(Commands) PROVE Spec => []WriteIsExact
<1>1. MscInv /\ ServiceInv => WriteIsExact
  <2> SUFFICES ASSUME MscInv, ServiceInv, Succeeded("write")
               PROVE  written = BlocksFrom(cmd.lba, cmd.cnt)
    BY DEF WriteIsExact
  <2>1. Ended /\ cmd.op = "write"
    BY DEF Succeeded, Ended
  <2>2. Done
    BY <2>1, EndedIsDone
  <2>3. CASE cmd.dir = "out"
    BY <2>1, <2>2, <2>3 DEF Done, Transferred, Named
  <2>4. CASE cmd.dir # "out"
    <3>1. cmd.cnt = 0 /\ cmd.lba \in Nat
      <4>1. cmd \in Commands
        BY <2>2 DEF Done
      <4>2. ~(cmd.dataLen > 0)
        BY <2>1, <2>4, <4>1 DEF Ordinary
      <4> QED
        BY <2>1, <2>4, <4>1, <4>2, CommandIs
    <3> QED
      BY <2>2, <2>4, <3>1, BlocksAre DEF Done
  <2> QED
    BY <2>3, <2>4
<1> QED
  BY <1>1, ServiceInvariant, PTL

\* The driver implements the service: behind all transfers, buffers and phases
\* the host sees commands that end with a status of their own and with the
\* blocks they name; everything else the driver does is invisible.
THEOREM DriverImplementsService == ASSUME Ordinary(Commands) PROVE Spec => Service!Spec
<1> DEFINE stage == CASE host = "reset" -> "off" [] host = "ready" -> "ready" [] OTHER -> "busy"
           blocks == IF Ended THEN Transferred ELSE <<>>
<1>1. Init => Service!Init
  BY DEF Init, Service!Init, Ended
<1>2. MscInv /\ ServiceInv /\ MscInv' /\ ServiceInv' /\ [Next]_vars => [Service!Next]_(Service!vars)
  <2> SUFFICES ASSUME MscInv, ServiceInv, MscInv', ServiceInv', [Next]_vars
               PROVE  Service!Next \/ UNCHANGED <<stage, cmd, result, blocks>>
    BY DEF Service!vars
  <2>1. /\ blocks = IF Ended THEN Named(cmd) ELSE <<>>
        /\ blocks' = IF Ended' THEN Named(cmd') ELSE <<>>
        /\ Ended' => result' \in ScsiStatuses(cmd')
    <3>1. Ended => Transferred = Named(cmd)
      BY EndedIsDone DEF Done
    <3>2. Ended' => Transferred' = Named(cmd') /\ result' \in ScsiStatuses(cmd')
      <4>1. Ended' => Done' /\ result' \in ScsiStatuses(cmd')
        <5>1. Ended' => Settled'
          BY DEF MscInv, Fresh, Ended
        <5> QED
          BY <5>1 DEF ServiceInv, Moved
      <4> QED
        BY <4>1 DEF Done
    <3> QED
      BY <3>1, <3>2
  <2>2. CASE UNCHANGED <<host, cmd, result>>
    BY <2>1, <2>2 DEF Ended
  <2>3. CASE BusReset
    <3>1. host' = "reset" /\ result' = -1 /\ cmd' = cmd /\ ~Ended'
      BY <2>3 DEF BusReset, Ended
    <3>2. Service!Reset
      BY <2>1, <3>1 DEF Service!Reset
    <3> QED
      BY <3>2 DEF Service!Next
  <2>4. CASE HostConfigures
    <3>1. /\ host = "reset" /\ host' = "ready" /\ result = -1 /\ UNCHANGED <<cmd, result>>
          /\ ~Ended /\ ~Ended'
      BY <2>4 DEF HostConfigures, ServiceInv, Ended
    <3>2. Service!Configure
      BY <2>1, <3>1 DEF Service!Configure
    <3> QED
      BY <3>2 DEF Service!Next
  <2>5. ASSUME NEW c \in Commands, HostCommand(c) PROVE Service!Next
    <3>1. /\ host = "ready" /\ host' \in {"data", "status"} /\ cmd' = c /\ result' = -1 /\ ~Ended'
      BY <2>5 DEF HostCommand, Ended
    <3>2. Service!Request(c)
      BY <2>1, <3>1 DEF Service!Request
    <3> QED
      BY <2>5, <3>2 DEF Service!Next
  <2>6. CASE HostSends \/ (HostTakes /\ host' # "ready")
    <3>1. /\ host \in {"data", "status"} /\ host' \in {"data", "status", "confused"}
          /\ UNCHANGED <<cmd, result>> /\ ~Ended /\ ~Ended'
      BY <2>6 DEF HostSends, HostTakes, Ended
    <3> QED
      BY <2>1, <3>1
  <2>7. CASE HostTakes /\ host' = "ready"
    <3>1. /\ host = "status" /\ inEp.kind = "csw" /\ result' = inEp.status /\ cmd' = cmd
      BY <2>7 DEF HostTakes
    <3>2. Ended'
      BY <2>7, <3>1 DEF MscInv, Types, InTyped, Ended
    <3>3. Service!Complete
      BY <2>1, <2>7, <3>1, <3>2, ServiceIs DEF Service!Complete
    <3> QED
      BY <3>3 DEF Service!Next
  <2>8. Task \/ HostStray => UNCHANGED <<host, cmd, result>>
    BY TaskQueue DEF MscInv, HostStray, hostVars
  <2> QED
    BY <2>2, <2>3, <2>4, <2>5, <2>6, <2>7, <2>8 DEF Next, Host, vars
<1> QED
  BY <1>1, <1>2, ServiceInvariant, PTL DEF Spec, Service!Spec

=============================================================================
