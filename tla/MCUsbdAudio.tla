---------------------------- MODULE MCUsbdAudio -----------------------------
(***************************************************************************)
(* Instances of UsbdAudio for TLC: a nominal packet of two samples,        *)
(* packets of that size and one longer, a ring of two of the longest.      *)
(***************************************************************************)
EXTENDS UsbdAudio

MCPacketSizes == {2, 3}
=============================================================================
