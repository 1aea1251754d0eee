------------------------------ MODULE MCUsbif ------------------------------
(***************************************************************************)
(* Instances of Usbif for TLC.  Tables of four entries: two OUT endpoints  *)
(* (bits 0, 1) and two IN endpoints (bits 2, 3).                           *)
(***************************************************************************)
EXTENDS Usbif, TLC

\* Types 0 none, 1 AUDIO (the only driver with sof), 2 CDC, 3 a type whose
\* driver is not compiled in (NULL in usbifClassCbTbl).
MCCallbacks ==
  0 :> {} @@ 1 :> {"init", "setup", "dataOut", "dataInDone", "sof"}
  @@ 2 :> {"init", "setup", "dataOut", "dataInDone"} @@ 3 :> {}

Def(n, t, ifs, eps) == [numClass |-> n, type |-> t, ifnum |-> ifs, epnum |-> eps]

\* Two classes that fit together, the second with an IN endpoint only, a third
\* that clashes with the second on this endpoint but neither on its position nor
\* on its interface, and a fourth that clashes with the second on an interface;
\* its own driver is missing.
MCClassDefs == {Def(0, 2, {0}, {0, 2}), Def(1, 1, {1}, {3}),
                Def(2, 2, {2}, {1, 3}), Def(3, 3, {1, 3}, {3})}
\* The SOF question alone needs two classes only.
MCSofDefs == {Def(0, 2, {0}, {0, 2}), Def(1, 2, {1}, {1, 3})}
============================================================================
