----------------------------- MODULE MscService -----------------------------
(***************************************************************************)
(* What a mass storage device promises its host: one command at a time,    *)
(* which ends, with success only when exactly the blocks it names have     *)
(* been transferred, in order.  Nothing is said of transfers, buffers or   *)
(* phases; UsbdMsc is shown to implement it.                               *)
(***************************************************************************)
EXTENDS Integers, Sequences

CONSTANTS Commands,    \* the commands the host sends
          NoCommand    \* what cmd holds before the first one

VARIABLES
  stage,    \* "off", "ready" for a command, or "busy" with one
  cmd,      \* the current or last command
  status,   \* its status, -1 before it has ended
  blocks    \* the blocks it has transferred, in order, once it has ended

vars == <<stage, cmd, status, blocks>>

Init == stage = "off" /\ cmd = NoCommand /\ status = -1 /\ blocks = <<>>

\* A bus reset ends everything, at any time.
Reset == stage' = "off" /\ status' = -1 /\ blocks' = <<>> /\ UNCHANGED cmd

Configure == stage = "off" /\ stage' = "ready" /\ UNCHANGED <<cmd, status, blocks>>

Request(c) ==
  /\ stage = "ready"
  /\ stage' = "busy" /\ cmd' = c /\ status' = -1 /\ blocks' = <<>>

\* TEST UNIT READY may find the drive not ready; what is not supported fails.
Outcomes(c) ==
  CASE c.op = "ready" -> {0, 1} [] c.op = "unsupported" -> {1} [] OTHER -> {0}

Named(c) ==
  IF c.op \in {"read", "write"} THEN [i \in 1 .. c.cnt |-> c.lba + i - 1] ELSE <<>>

Complete ==
  /\ stage = "busy"
  /\ status' \in Outcomes(cmd)
  /\ stage' = "ready" /\ blocks' = Named(cmd)
  /\ UNCHANGED cmd

Next == Reset \/ Configure \/ Complete \/ \E c \in Commands : Request(c)
Spec == Init /\ [][Next]_vars

\* Every command ends.
FairSpec == Spec /\ WF_vars(Complete)

=============================================================================
