----------------------------- MODULE MCUsbdMsc ------------------------------
(***************************************************************************)
(* Instances of UsbdMsc for TLC.  A block is 4 units, a packet and a CBW   *)
(* are smaller; the application's buffer holds two blocks, as many as the  *)
(* first IN transfer takes.                                                *)
(***************************************************************************)
EXTENDS UsbdMsc

Block == 4
Cmd(op, dir, lba, cnt, len) ==
  [op |-> op, dir |-> dir, lba |-> lba, cnt |-> cnt, dataLen |-> len]

Reads(counts)  == {Cmd("read", "in", lba, n, n * Block) : lba \in {0, 3}, n \in counts}
Writes(counts) == {Cmd("write", "out", lba, n, n * Block) : lba \in {0, 3}, n \in counts}
Small == {Cmd("response", "in", 0, 0, 1), Cmd("response", "in", 0, 0, 2),
          Cmd("capacity", "in", 0, 0, 1),
          Cmd("ready", "out", 0, 0, 0), Cmd("setting", "out", 0, 0, 0),
          Cmd("unsupported", "out", 0, 0, 0)}

\* Writes of at most one buffer, or of whole buffers.
MCCommands == Reads(1 .. 5) \cup Writes({1, 2, 4, 6}) \cup Small
ASSUME MCOrdinary == Ordinary(MCCommands)
\* A write with a tail of less than a buffer.
TailCommands == Writes({3}) \cup Small
\* An unsupported command with a data phase, in either direction.
FailCommands ==
  Small \cup Writes({1}) \cup {Cmd("unsupported", "in", 0, 0, 1), Cmd("unsupported", "out", 0, 0, 4)}
=============================================================================
