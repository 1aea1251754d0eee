---------------------------- MODULE MCUsbdPipe ------------------------------
(***************************************************************************)
(* Instances of UsbdPipe for TLC.                                          *)
(***************************************************************************)
EXTENDS UsbdPipe

\* A host that configures, talks to the class and deconfigures.
PipeHost ==
  [default    |-> {"SetAddress"},
   addressed  |-> {"SetConfig"},
   configured |-> {"Unconfig", "ClassRequest"}]

\* Two callers of UsbdCdcTransmit; the code is the same in the other drivers.
PipeCalls == [c \in PipeClass |-> IF c = "CDC" THEN 2 ELSE 1]
OneCall   == [c \in PipeClass |-> 1]
=============================================================================
