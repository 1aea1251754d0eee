--------------------------- MODULE MCUsbdFeedback ---------------------------
(***************************************************************************)
(* Instances of UsbdFeedback for TLC: a nominal frame of four ticks, a     *)
(* timer that wraps after three of them, frames that are a tick short or   *)
(* two too long to be taken.                                               *)
(***************************************************************************)
EXTENDS UsbdFeedback

MCDeviations == {-1, 2}
=============================================================================
