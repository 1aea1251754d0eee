---------------------------- MODULE ClassRouter ----------------------------
(***************************************************************************)
(* What the registry promises the classes of every unit: a registration    *)
(* succeeds whole or not at all, no two classes of a unit ever have a      *)
(* position, an interface or an endpoint in common, a class stays what it  *)
(* is until its unit is cleared, and an event calls the classes it is      *)
(* addressed to.  Nothing is said of tables, slots and the order of the    *)
(* assignments; Usbif is shown to implement it.                            *)
(***************************************************************************)
CONSTANTS Units,      \* the device controllers
          Handles,    \* what a successful registration returns
          ClassDefs,  \* the class definitions applications register
          Callbacks,  \* type -> callbacks it provides
          NoEvent     \* what event holds while there is none

VARIABLES
  registered,  \* of each unit its classes, each with its handle
  whole,       \* units that are set up and saw no registration fail half way
  event        \* the last event and whom it called

vars == <<registered, whole, event>>

Init ==
  /\ registered = [d \in Units |-> {}]
  /\ whole = {}
  /\ event = NoEvent

ClearAll ==
  /\ registered' = [d \in Units |-> {}]
  /\ whole' = {} /\ event' = NoEvent

Clear(d) ==
  /\ registered' = [registered EXCEPT ![d] = {}]
  /\ whole' = whole \cup {d} /\ event' = NoEvent

Apart(c, b) ==
  c.numClass # b.numClass /\ c.ifnum \cap b.ifnum = {} /\ c.epnum \cap b.epnum = {}

Register(d, h, c) ==
  /\ \A e \in Units : \A x \in registered[e] : x.handle # h
  /\ \A x \in registered[d] : Apart(c, x.def)
  /\ registered' = [registered EXCEPT ![d] = @ \cup {[handle |-> h, def |-> c]}]
  /\ event' = NoEvent /\ UNCHANGED whole

\* A refused registration is seen by no registered class.
Refuse(d) == whole' \in {whole, whole \ {d}} /\ event' = NoEvent /\ UNCHANGED registered

-----------------------------------------------------------------------------
\* An event is addressed to all classes (an enumeration), to the one at the
\* first position, or to that of an interface or of an endpoint.
Addressees(e) == {x \in registered[e.dev] :
  \/ e.recipient = "all"
  \/ e.recipient = "device"    /\ x.def.numClass = 0
  \/ e.recipient = "interface" /\ e.index \in x.def.ifnum
  \/ e.recipient = "endpoint"  /\ e.index \in x.def.epnum}

Handling(e) == {x \in Addressees(e) : e.op \in Callbacks[x.def.type]}

Calls(e) == {[pos |-> IF e.recipient = "all" THEN x.def.numClass ELSE e.index,
              cb |-> x.def.type, prc |-> x.handle] : x \in Handling(e)}

\* Two cases in which others may be called: a vendor request that no class
\* handles; and on a unit where a registration failed half way an enumeration,
\* or an event for none of its classes.
MayStray(e) ==
  \/ e.type = "vendor" /\ Handling(e) = {}
  \/ e.dev \notin whole /\ (e.recipient = "all" \/ Addressees(e) = {})

\* An event calls the classes it is addressed to, each once and with its own
\* driver's callback, and no other.
Deliver(e) ==
  /\ e # NoEvent
  /\ Calls(e) = e.to \/ (MayStray(e) /\ Calls(e) \subseteq e.to)
  /\ event' = e /\ UNCHANGED <<registered, whole>>

\* Whom a start of frame calls is left open.
StartOfFrame == event' = NoEvent /\ UNCHANGED <<registered, whole>>

Next ==
  \/ \E e \in {event'} : Deliver(e)       \* what happens is the host's choice
  \/ StartOfFrame \/ ClearAll
  \/ \E d \in Units : Clear(d) \/ Refuse(d) \/ \E h \in Handles, c \in ClassDefs : Register(d, h, c)

Spec == Init /\ [][Next]_vars

=============================================================================
