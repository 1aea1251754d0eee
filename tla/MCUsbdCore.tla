----------------------------- MODULE MCUsbdCore -----------------------------
(***************************************************************************)
(* Instances of UsbdCore for TLC.                                          *)
(***************************************************************************)
EXTENDS UsbdCore

\* A host that enumerates, asks for things that do not exist, talks to the
\* class, and takes the configuration away again.
FullHost ==
  [default    |-> {"SetAddress", "GetDescriptor", "BadDescriptor"},
   addressed  |-> {"SetConfig", "GetDescriptor", "DeviceFeature"},
   configured |-> {"Unconfig", "ClassRequest"}]
=============================================================================
