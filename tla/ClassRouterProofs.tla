-------------------------- MODULE ClassRouterProofs --------------------------
(***************************************************************************)
(* Proofs that the registry of usbdif.c implements the router: with tables *)
(* converted through shared slots and registrations that write before they *)
(* fail, every step is one of ClassRouter's or invisible, for any number   *)
(* of units, slots and table entries and any class definitions.            *)
(***************************************************************************)
EXTENDS UsbifProofs

\* A class is registered only on a unit that has been set up.
LiveSetUp == \A s \in live : desc[rc[s].dev]

\* The registered classes an event is for, and those that handle it.
For(e) == {t \in Slot : Owns(e.dev, t) /\
  \/ e.recipient = "all"
  \/ e.recipient = "device"    /\ rc[t].def.numClass = 0
  \/ e.recipient = "interface" /\ e.index \in rc[t].def.ifnum
  \/ e.recipient = "endpoint"  /\ e.index \in rc[t].def.epnum}
Served(e) == {t \in For(e) : e.op \in Callbacks[rc[t].def.type]}
Place(e, t) == IF e.recipient = "all" THEN rc[t].def.numClass ELSE e.index

\* The router's guard of an event.
Delivered(e) == Router!Calls(e) = e.to \/ (Router!MayStray(e) /\ Router!Calls(e) \subseteq e.to)

USE ConstantsAssumption

-----------------------------------------------------------------------------
(***************************************************************************)
(* The mapping.                                                            *)
(***************************************************************************)
LEMMA AddresseesAre ==
  ASSUME NEW e, e.dev \in Dev
  PROVE  Router!Addressees(e) = {[handle |-> t, def |-> rc[t].def] : t \in For(e)}
BY DEF Router!Addressees, Registered, For

LEMMA HandlingIs ==
  ASSUME NEW e, e.dev \in Dev
  PROVE  Router!Handling(e) = {[handle |-> t, def |-> rc[t].def] : t \in Served(e)}
BY AddresseesAre DEF Router!Handling, Served

LEMMA CallsAre ==
  ASSUME NEW e, e.dev \in Dev
  PROVE  Router!Calls(e) = {Callee(Place(e, t), rc[t].def.type, t) : t \in Served(e)}
<1> DEFINE X(t) == [handle |-> t, def |-> rc[t].def]
<1> DEFINE F(x) == [pos |-> IF e.recipient = "all" THEN x.def.numClass ELSE e.index,
                    cb |-> x.def.type, prc |-> x.handle]
<1>1. Router!Calls(e) = {F(x) : x \in Router!Handling(e)}
  BY DEF Router!Calls
<1>2. Router!Handling(e) = {X(t) : t \in Served(e)}
  BY HandlingIs
<1>3. \A t : F(X(t)) = Callee(Place(e, t), rc[t].def.type, t)
  BY DEF Callee, Place
<1> HIDE DEF X, F
<1>4. Router!Calls(e) = {F(X(t)) : t \in Served(e)}
  BY <1>1, <1>2, Zenon
<1> QED
  BY <1>3, <1>4

LEMMA StraysWhen ==
  ASSUME NEW e, e.dev \in Dev
  PROVE  /\ (e.type = "vendor" /\ Served(e) = {}) => Router!MayStray(e)
         /\ (~Settled(e.dev) /\ (e.recipient = "all" \/ For(e) = {})) => Router!MayStray(e)
BY AddresseesAre, HandlingIs DEF Router!MayStray

-----------------------------------------------------------------------------
(***************************************************************************)
(* What the tables find.                                                   *)
(***************************************************************************)
\* Entry s is the class the event is for, or no class is and s is invalid.
Finds(e, s) == For(e) = {s} \/ (For(e) = {} /\ s = Invalid)

LEMMA FoundIsCalled ==
  ASSUME NEW e, e.dev \in Dev, e.recipient # "all", NEW s, Finds(e, s)
  PROVE  Reach(e.op, e.index, s) = Router!Calls(e)
<1>1. CASE For(e) = {s}
  <2>1. s \in Slot /\ s # Invalid
    BY <1>1, Sets DEF For
  <2>2. Served(e) = IF e.op \in Callbacks[rc[s].def.type] THEN {s} ELSE {}
    BY <1>1 DEF Served
  <2>3. Router!Calls(e) = IF e.op \in Callbacks[rc[s].def.type]
                          THEN {Callee(e.index, rc[s].def.type, s)} ELSE {}
    BY <2>2, CallsAre DEF Place
  <2> QED
    BY <2>1, <2>3 DEF Reach
<1>2. CASE For(e) = {} /\ s = Invalid
  <2>1. Served(e) = {}
    BY <1>2 DEF Served
  <2> QED
    BY <1>2, <2>1, CallsAre DEF Reach
<1> QED
  BY <1>1, <1>2 DEF Finds

LEMMA TablesFind ==
  ASSUME TableInv, NEW d \in Dev, NEW e, e.dev = d, e.index \in Bit, For(e) # {} \/ Settled(d)
  PROVE  /\ e.recipient = "device" => Finds(e, byClass[d][0])
         /\ e.recipient = "interface" => Finds(e, byIf[d][e.index])
         /\ e.recipient = "endpoint" => Finds(e, byEp[d][e.index])
<1>1. \A t \in Slot : Owns(d, t) =>
        /\ byClass[d][rc[t].def.numClass] = t
        /\ \A b \in rc[t].def.ifnum : byIf[d][b] = t
        /\ \A b \in rc[t].def.epnum : byEp[d][b] = t
  BY DEF TableInv, RegisteredKeepsAll
<1>2. For(e) = {} => Converts(d)
  BY DEF TableInv, TablesConvert
<1>3. \A t : Owns(d, t) => t \in Slot
  BY DEF TableInv, TypeOK, Owns
<1>4. ASSUME e.recipient = "device" PROVE Finds(e, byClass[d][0])
  <2>1. \A t \in For(e) : byClass[d][0] = t
    BY <1>1, <1>4 DEF For
  <2>2. For(e) = {} => byClass[d][0] = Invalid
    BY <1>2, <1>3, <1>4, Sets DEF For, Converts
  <2> QED
    BY <2>1, <2>2 DEF Finds
<1>5. ASSUME e.recipient = "interface" PROVE Finds(e, byIf[d][e.index])
  <2>1. \A t \in For(e) : byIf[d][e.index] = t
    BY <1>1, <1>5 DEF For
  <2>2. For(e) = {} => byIf[d][e.index] = Invalid
    BY <1>2, <1>3, <1>5 DEF For, Converts
  <2> QED
    BY <2>1, <2>2 DEF Finds
<1>6. ASSUME e.recipient = "endpoint" PROVE Finds(e, byEp[d][e.index])
  <2>1. \A t \in For(e) : byEp[d][e.index] = t
    BY <1>1, <1>6 DEF For
  <2>2. For(e) = {} => byEp[d][e.index] = Invalid
    BY <1>2, <1>3, <1>6 DEF For, Converts
  <2> QED
    BY <2>1, <2>2 DEF Finds
<1> QED
  BY <1>4, <1>5, <1>6

-----------------------------------------------------------------------------
(***************************************************************************)
(* Events.                                                                 *)
(***************************************************************************)
\* An event for none of the registered classes of a unit that is not whole.
LEMMA NobodysEvent ==
  ASSUME NEW e, e.dev \in Dev, For(e) = {}, ~Settled(e.dev)
  PROVE  Delivered(e)
<1>1. Router!Calls(e) = {}
  BY CallsAre DEF Served
<1> QED
  BY <1>1, StraysWhen DEF Delivered

LEMMA DataDelivered ==
  ASSUME TableInv, NEW d \in Dev, NEW b \in Bit, NEW e,
         e.dev = d, e.recipient = "endpoint", e.index = b, e.to = Reach(e.op, b, byEp[d][b])
  PROVE  Delivered(e)
<1>1. CASE For(e) # {} \/ Settled(d)
  <2>1. Finds(e, byEp[d][b])
    BY <1>1, TablesFind
  <2>2. Reach(e.op, e.index, byEp[d][b]) = Router!Calls(e)
    BY <2>1, FoundIsCalled
  <2> QED
    BY <2>2 DEF Delivered
<1>2. CASE For(e) = {} /\ ~Settled(d)
  BY <1>2, NobodysEvent
<1> QED
  BY <1>1, <1>2

LEMMA SetupDelivered ==
  ASSUME TableInv, NEW d \in Dev, NEW rcp \in Recipient, NEW index \in Bit, NEW e,
         e.op = "setup", e.dev = d, e.recipient = rcp, e.index = index,
         NEW s, s = Addressee(d, rcp, index),
         e.to = IF (IF s = Invalid THEN 0 ELSE rc[s].def.type) # 0 THEN Reach("setup", index, s)
                ELSE IF e.type = "vendor" THEN Reach("setup", index, 0) ELSE {}
  PROVE  Delivered(e)
<1>1. CASE For(e) # {} \/ Settled(d)
  <2>1. Finds(e, s)
    <3>1. CASE rcp = "other"
      BY <3>1 DEF Finds, For, Addressee
    <3>2. CASE rcp \in {"device", "interface", "endpoint"}
      BY <1>1, <3>2, TablesFind DEF Addressee
    <3> QED
      BY <3>1, <3>2 DEF Recipient
  <2>2. Reach("setup", index, s) = Router!Calls(e)
    <3>1. e.recipient # "all"
      BY DEF Recipient
    <3> QED
      BY <2>1, <3>1, FoundIsCalled
  <2>3. CASE (IF s = Invalid THEN 0 ELSE rc[s].def.type) # 0
    BY <2>2, <2>3 DEF Delivered
  <2>4. CASE (IF s = Invalid THEN 0 ELSE rc[s].def.type) = 0
    <3>1. Router!Calls(e) = {}
      BY <2>2, <2>4 DEF Reach
    <3>2. Served(e) = {}
      BY <3>1, CallsAre
    <3>3. CASE e.type = "vendor"
      BY <3>1, <3>2, <3>3, StraysWhen DEF Delivered
    <3>4. CASE e.type # "vendor"
      BY <2>4, <3>1, <3>4 DEF Delivered
    <3> QED
      BY <3>3, <3>4
  <2> QED
    BY <2>3, <2>4
<1>2. CASE For(e) = {} /\ ~Settled(d)
  BY <1>2, NobodysEvent
<1> QED
  BY <1>1, <1>2

\* An enumeration finds every registered class below classnum.
LEMMA InitDelivered ==
  ASSUME TableInv, LiveSetUp, NEW d \in Dev, NEW e,
         e.op = "init", e.dev = d, e.recipient = "all",
         e.to = UNION {Reach("init", i, byClass[d][i]) : i \in 0 .. classnum[d] - 1}
  PROVE  Delivered(e)
<1>1. \A x : x \in e.to <=>
        \E i \in 0 .. classnum[d] - 1 :
          /\ byClass[d][i] # Invalid /\ "init" \in Callbacks[rc[byClass[d][i]].def.type]
          /\ x = Callee(i, rc[byClass[d][i]].def.type, byClass[d][i])
  BY DEF Reach
<1>2. \A x : x \in Router!Calls(e) <=>
        \E t \in Slot :
          /\ Owns(d, t) /\ "init" \in Callbacks[rc[t].def.type]
          /\ x = Callee(rc[t].def.numClass, rc[t].def.type, t)
  BY CallsAre DEF Served, For, Place
<1>3. Router!Calls(e) \subseteq e.to
  <2> SUFFICES ASSUME NEW t \in Slot, Owns(d, t)
               PROVE  /\ rc[t].def.numClass \in 0 .. classnum[d] - 1
                      /\ byClass[d][rc[t].def.numClass] = t /\ t # Invalid
    BY <1>1, <1>2
  <2>1. byClass[d][rc[t].def.numClass] = t /\ t # Invalid /\ rc[t].def.numClass \in Bit
    BY Sets DEF TableInv, TypeOK, RegisteredKeepsAll, ClassDef
  <2>2. desc[d]
    BY DEF LiveSetUp, Owns
  <2>3. classnum[d] \in 0 .. RcnumTotal
    BY DEF TableInv, TypeOK
  <2>4. \A i \in Bit : i >= classnum[d] => byClass[d][i] = Invalid
    BY <2>2 DEF TableInv, ClassnumIsNext
  <2>5. ~(rc[t].def.numClass >= classnum[d])
    BY <2>1, <2>4, Sets
  <2> QED
    BY <2>1, <2>3, <2>5 DEF Bit
<1>4. CASE Settled(d)
  <2>1. e.to \subseteq Router!Calls(e)
    <3> SUFFICES ASSUME NEW i \in 0 .. classnum[d] - 1, byClass[d][i] # Invalid
                 PROVE  /\ byClass[d][i] \in Slot /\ Owns(d, byClass[d][i])
                        /\ i = rc[byClass[d][i]].def.numClass
      BY <1>1, <1>2
    <3>1. i \in Bit
      <4>1. classnum[d] \in 0 .. RcnumTotal
        BY DEF TableInv, TypeOK
      <4> QED
        BY <4>1 DEF Bit
    <3>2. Converts(d)
      BY <1>4 DEF TableInv, TablesConvert
    <3>3. Owns(d, byClass[d][i]) /\ i = rc[byClass[d][i]].def.numClass
      BY <3>1, <3>2 DEF Converts
    <3> QED
      BY <3>3 DEF TableInv, TypeOK, Owns
  <2> QED
    BY <1>3, <2>1 DEF Delivered
<1>5. CASE ~Settled(d)
  BY <1>3, <1>5, StraysWhen DEF Delivered
<1> QED
  BY <1>4, <1>5

-----------------------------------------------------------------------------
(***************************************************************************)
(* Steps.  Every one of them maps to a step of the router or to a stutter. *)
(***************************************************************************)
\* What the router sees of the registry.
Seen  == [d \in Dev |-> Registered(d)]
Whole == {d \in Dev : Settled(d)}

LEMMA SeenKept ==
  ASSUME UNCHANGED <<live, rc>>
  PROVE  Seen' = Seen /\ \A d : Registered(d)' = Registered(d)
BY DEF Seen, Registered, Owns

LEMMA WholeKept ==
  ASSUME UNCHANGED <<desc, torn>>
  PROVE  Whole' = Whole
BY DEF Whole, Settled

LEMMA NothingHappened ==
  ASSUME NEW op \in {"start", "initall", "initunit", "register", "sof"}, NEW d, NEW arg, NEW to,
         call' = Called(op, d, arg, to)
  PROVE  LastEvent' = NoEvent
BY DEF LastEvent, Called

LEMMA InitAllMaps == InitAll => Router!ClearAll /\ LiveSetUp'
<1> SUFFICES ASSUME InitAll PROVE Router!ClearAll /\ LiveSetUp'
  OBVIOUS
<1>1. Seen' = [d \in Dev |-> {}]
  BY DEF InitAll, Seen, Registered, Owns
<1>2. Whole' = {}
  BY DEF InitAll, Whole, Settled, Zero
<1>3. LastEvent' = NoEvent
  BY NothingHappened DEF InitAll
<1>4. LiveSetUp'
  BY DEF InitAll, LiveSetUp
<1> QED
  BY <1>1, <1>2, <1>3, <1>4 DEF Router!ClearAll, Seen, Whole

LEMMA InitUnitMaps ==
  ASSUME TableInv, LiveSetUp, NEW d \in Dev, InitUnit(d)
  PROVE  Router!Clear(d) /\ LiveSetUp'
<1>1. /\ desc' = [desc EXCEPT ![d] = TRUE] /\ torn' = torn \ {d}
      /\ live' = {s \in live : rc[s].dev # d} /\ rc' = rc
      /\ desc \in [Dev -> BOOLEAN]
  BY DEF InitUnit, slots, TableInv, TypeOK
<1>2. Seen' = [Seen EXCEPT ![d] = {}]
  <2>1. Registered(d)' = {}
    BY <1>1 DEF Registered, Owns
  <2>2. ASSUME NEW e \in Dev, e # d PROVE Registered(e)' = Registered(e)
    BY <1>1, <2>2 DEF Registered, Owns
  <2> QED
    BY <2>1, <2>2 DEF Seen
<1>3. Whole' = Whole \cup {d}
  BY <1>1 DEF Whole, Settled
<1>4. LastEvent' = NoEvent
  BY NothingHappened DEF InitUnit
<1>5. LiveSetUp'
  BY <1>1 DEF LiveSetUp, TableInv, TypeOK
<1> QED
  BY <1>2, <1>3, <1>4, <1>5 DEF Router!Clear, Seen, Whole

\* Two classes of a unit cannot claim the same: the second finds it taken.
LEMMA NewcomerApart ==
  ASSUME TableInv, NEW d \in Dev, NEW c \in ClassDefs, CanRegister(d, c),
         Free(byIf[d], c.ifnum), Free(byEp[d], c.epnum), NEW x \in Registered(d)
  PROVE  Router!Apart(c, x.def)
<1>1. PICK s \in Slot : Owns(d, s) /\ x = [handle |-> s, def |-> rc[s].def]
  BY DEF Registered
<1>2. /\ byClass[d][x.def.numClass] = s
      /\ \A b \in x.def.ifnum : byIf[d][b] = s
      /\ \A b \in x.def.epnum : byEp[d][b] = s
      /\ s # Invalid
  BY <1>1, Sets DEF TableInv, RegisteredKeepsAll
<1>3. c.numClass # x.def.numClass
  BY <1>2 DEF CanRegister
<1>4. c.ifnum \cap x.def.ifnum = {} /\ c.epnum \cap x.def.epnum = {}
  BY <1>2 DEF Free
<1> QED
  BY <1>3, <1>4 DEF Router!Apart

LEMMA RegisterMaps ==
  ASSUME TableInv, LiveSetUp, NEW d \in Dev, NEW c \in ClassDefs, RegisterClass(d, c)
  PROVE  Router!Register(d, rcnum, c) /\ rcnum \in Slot /\ LiveSetUp'
<1>1. CanRegister(d, c) /\ WriteClass(d, c) /\ Free(byIf[d], c.ifnum) /\ Free(byEp[d], c.epnum)
  BY DEF RegisterClass
<1>2. WriteEffect(d, c)
  BY <1>1, WriteKeeps DEF TableInv
<1>3. /\ rcnum \in Slot /\ rc'[rcnum] = [dev |-> d, def |-> c]
      /\ \A s \in Slot : s # rcnum => rc'[s] = rc[s]
      /\ desc[d] /\ desc' = desc
      /\ live' = live \cup {rcnum} /\ torn' = torn
  BY <1>2 DEF WriteEffect, RegisterClass
<1>4. \A s \in live : s \in Slot /\ s # rcnum /\ rc'[s] = rc[s]
  <2>1. \A s \in live : s \in Slot /\ s # rcnum
    BY DEF TableInv, LiveBelow, TypeOK, Slot
  <2> QED
    BY <1>3, <2>1
<1>5. \A e \in Dev : \A x \in Registered(e) : x.handle # rcnum
  BY <1>4 DEF Registered, Owns
<1>6. \A x \in Registered(d) : Router!Apart(c, x.def)
  BY <1>1, NewcomerApart
<1>7. Seen' = [Seen EXCEPT ![d] = @ \cup {[handle |-> rcnum, def |-> c]}]
  <2>1. \A e \in Dev, s \in Slot : Owns(e, s)' <=> (Owns(e, s) \/ (e = d /\ s = rcnum))
    BY <1>3, <1>4 DEF Owns
  <2>2. \A e \in Dev, s \in Slot : Owns(e, s) => rc'[s] = rc[s]
    BY <1>4 DEF Owns
  <2>3. Registered(d)' = Registered(d) \cup {[handle |-> rcnum, def |-> c]}
    BY <1>3, <2>1, <2>2 DEF Registered
  <2>4. ASSUME NEW e \in Dev, e # d PROVE Registered(e)' = Registered(e)
    BY <2>1, <2>2, <2>4 DEF Registered
  <2> QED
    BY <2>3, <2>4 DEF Seen
<1>8. Whole' = Whole
  BY <1>3, WholeKept
<1>9. LastEvent' = NoEvent
  BY NothingHappened DEF RegisterClass
<1>10. LiveSetUp'
  BY <1>3, <1>4 DEF LiveSetUp
<1> QED
  BY <1>3, <1>5, <1>6, <1>7, <1>8, <1>9, <1>10 DEF Router!Register, Seen, Whole

\* A refused registration, also one that wrote: rc[rcnum] is nobody's.
LEMMA RefuseMaps ==
  ASSUME TableInv, LiveSetUp, NEW d \in Dev, NEW c \in ClassDefs,
         RegisterRefused(d, c) \/ RegisterTorn(d, c)
  PROVE  Router!Refuse(d) /\ LiveSetUp'
<1>1. LastEvent' = NoEvent
  BY NothingHappened DEF RegisterRefused, RegisterTorn
<1>2. CASE RegisterRefused(d, c)
  <2>1. UNCHANGED <<live, rc, desc, torn>>
    BY <1>2 DEF RegisterRefused, tables, slots, ghosts
  <2>2. Seen' = Seen /\ Whole' = Whole
    BY <2>1, SeenKept, WholeKept
  <2> QED
    BY <1>1, <2>1, <2>2 DEF Router!Refuse, Seen, Whole, LiveSetUp
<1>3. CASE RegisterTorn(d, c)
  <2>1. CanRegister(d, c) /\ WriteClass(d, c) /\ live' = live /\ torn' = torn \cup {d}
    BY <1>3 DEF RegisterTorn
  <2>2. WriteEffect(d, c)
    BY <2>1, WriteKeeps DEF TableInv
  <2>3. \A s \in live : s \in Slot /\ rc'[s] = rc[s]
    <3>1. \A s \in live : s \in Slot /\ s # rcnum
      BY DEF TableInv, LiveBelow, TypeOK, Slot
    <3> QED
      BY <2>2, <3>1 DEF WriteEffect
  <2>4. Seen' = Seen
    <3>1. \A e \in Dev, s \in Slot : Owns(e, s)' <=> Owns(e, s)
      BY <2>1, <2>3 DEF Owns
    <3>2. \A e \in Dev, s \in Slot : Owns(e, s) => rc'[s] = rc[s]
      BY <2>3 DEF Owns
    <3>3. \A e \in Dev : Registered(e)' = Registered(e)
      BY <3>1, <3>2 DEF Registered
    <3> QED
      BY <3>3 DEF Seen
  <2>5. desc' = desc
    BY <2>2 DEF WriteEffect
  <2>6. Whole' = Whole \ {d}
    BY <2>1, <2>5 DEF Whole, Settled
  <2>7. LiveSetUp'
    BY <2>1, <2>3, <2>5 DEF LiveSetUp
  <2> QED
    BY <1>1, <2>4, <2>6, <2>7 DEF Router!Refuse, Seen, Whole
<1> QED
  BY <1>2, <1>3

\* A dispatch changes nothing but the last event.
LEMMA DispatchMaps ==
  ASSUME LiveSetUp, NEW op, NEW d, NEW arg, NEW to, Dispatch(op, d, arg, to)
  PROVE  /\ LiveSetUp'
         /\ (LastEvent' # NoEvent /\ Delivered(LastEvent')) => Router!Deliver(LastEvent')
         /\ LastEvent' = NoEvent => Router!StartOfFrame
<1>1. UNCHANGED <<live, rc, desc, torn>>
  BY DEF Dispatch, tables, slots, ghosts
<1>2. Seen' = Seen /\ Whole' = Whole
  BY <1>1, SeenKept, WholeKept
<1> QED
  BY <1>1, <1>2 DEF Router!Deliver, Router!StartOfFrame, Delivered, Seen, Whole, LiveSetUp

LEMMA EventMaps ==
  ASSUME TableInv, LiveSetUp, Event
  PROVE  (Router!Deliver(LastEvent') \/ Router!StartOfFrame) /\ LiveSetUp'
<1>1. ASSUME NEW d \in Dev, CbInit(d)
      PROVE  Router!Deliver(LastEvent') /\ LiveSetUp'
  <2> DEFINE to == UNION {Reach("init", i, byClass[d][i]) : i \in 0 .. classnum[d] - 1}
  <2>1. Dispatch("init", d, 0, to)
    BY <1>1 DEF CbInit
  <2>2. LastEvent' = [op |-> "init", dev |-> d, recipient |-> "all", type |-> "none",
                      index |-> 0, to |-> to]
    BY <2>1 DEF Dispatch, Called, LastEvent, Happened
  <2>3. Delivered(LastEvent')
    BY <2>2, InitDelivered
  <2>4. LastEvent' # NoEvent
    BY <2>2 DEF NoEvent
  <2> QED
    BY <2>1, <2>3, <2>4, DispatchMaps
<1>2. ASSUME NEW d \in Dev, NEW op \in {"dataOut", "dataInDone"}, NEW b \in Bit,
             Dispatch(op, d, b, Reach(op, b, byEp[d][b]))
      PROVE  Router!Deliver(LastEvent') /\ LiveSetUp'
  <2>1. LastEvent' = [op |-> op, dev |-> d, recipient |-> "endpoint", type |-> "none",
                      index |-> b, to |-> Reach(op, b, byEp[d][b])]
    BY <1>2 DEF Dispatch, Called, LastEvent, Happened
  <2>2. Delivered(LastEvent')
    BY <2>1, DataDelivered
  <2>3. LastEvent' # NoEvent
    BY <2>1 DEF NoEvent
  <2> QED
    BY <1>2, <2>2, <2>3, DispatchMaps
<1>3. ASSUME NEW d \in Dev, NEW rcp \in Recipient, NEW type \in ReqType, NEW index \in Bit,
             CbSetup(d, rcp, type, index)
      PROVE  Router!Deliver(LastEvent') /\ LiveSetUp'
  <2> DEFINE s  == Addressee(d, rcp, index)
             to == IF (IF s = Invalid THEN 0 ELSE rc[s].def.type) # 0 THEN Reach("setup", index, s)
                   ELSE IF type = "vendor" THEN Reach("setup", index, 0) ELSE {}
             arg == [recipient |-> rcp, type |-> type, index |-> index]
  <2>1. Dispatch("setup", d, arg, to)
    BY <1>3 DEF CbSetup
  <2>2. LastEvent' = [op |-> "setup", dev |-> d, recipient |-> rcp, type |-> type,
                      index |-> index, to |-> to]
    BY <2>1 DEF Dispatch, Called, LastEvent, Happened
  <2>3. Delivered(LastEvent')
    BY <2>2, SetupDelivered
  <2>4. LastEvent' # NoEvent
    BY <2>2 DEF NoEvent
  <2> QED
    BY <2>1, <2>3, <2>4, DispatchMaps
<1>4. ASSUME NEW d \in Dev, CbSof(d) PROVE Router!StartOfFrame /\ LiveSetUp'
  <2>1. PICK to : Dispatch("sof", d, 0, to)
    BY <1>4 DEF CbSof
  <2>2. LastEvent' = NoEvent
    BY <2>1, NothingHappened DEF Dispatch
  <2> QED
    BY <2>1, <2>2, DispatchMaps
<1>5. Epnum \subseteq Bit /\ \A ep \in Epnum : ep + OffsetIn \in Bit
  BY DEF Epnum, OffsetIn, Bit
<1> QED
  BY <1>1, <1>2, <1>3, <1>4, <1>5 DEF Event, CbDataOut, CbDataInDone

LEMMA StepMaps == TableInv /\ LiveSetUp /\ [Next]_vars
                  => [Router!Next]_(Router!vars) /\ LiveSetUp'
<1> SUFFICES ASSUME TableInv, LiveSetUp, [Next]_vars
             PROVE  [Router!Next]_(Router!vars) /\ LiveSetUp'
  OBVIOUS
<1>1. CASE InitAll
  BY <1>1, InitAllMaps DEF Router!Next
<1>2. ASSUME NEW d \in Dev, InitUnit(d) PROVE Router!Next /\ LiveSetUp'
  BY <1>2, InitUnitMaps DEF Router!Next
<1>3. ASSUME NEW d \in Dev, NEW c \in ClassDefs, RegisterClass(d, c)
      PROVE  Router!Next /\ LiveSetUp'
  BY <1>3, RegisterMaps DEF Router!Next
<1>4. ASSUME NEW d \in Dev, NEW c \in ClassDefs, RegisterRefused(d, c) \/ RegisterTorn(d, c)
      PROVE  Router!Next /\ LiveSetUp'
  BY <1>4, RefuseMaps DEF Router!Next
<1>5. CASE Event
  BY <1>5, EventMaps DEF Router!Next
<1>6. CASE UNCHANGED vars
  <2>1. UNCHANGED <<live, rc, desc, torn, call>>
    BY <1>6 DEF vars, tables, slots, ghosts
  <2>2. Seen' = Seen /\ Whole' = Whole /\ LastEvent' = LastEvent
    BY <2>1, SeenKept, WholeKept DEF LastEvent, Happened
  <2> QED
    BY <2>1, <2>2 DEF Router!vars, Seen, Whole, LiveSetUp
<1> QED
  BY <1>1, <1>2, <1>3, <1>4, <1>5, <1>6 DEF Next, Register

LEMMA InitMaps == Init => Router!Init /\ LiveSetUp
<1> SUFFICES ASSUME Init PROVE Router!Init /\ LiveSetUp
  OBVIOUS
<1>1. Seen = [d \in Dev |-> {}] /\ Whole = {} /\ LiveSetUp
  BY DEF Init, Seen, Registered, Owns, Whole, Settled, Zero, LiveSetUp
<1>2. LastEvent = NoEvent
  BY DEF Init, LastEvent, Called
<1> QED
  BY <1>1, <1>2 DEF Router!Init, Seen, Whole

\* The invariant the refinement rests on, next to that of the tables: a slot is
\* registered only on a unit that UsbifInit has set up, so that classnum of its
\* unit bounds its position and UsbifCbInit finds it.
THEOREM RegisteredOnUnitSetUp == Spec => []LiveSetUp
<1>1. TableInv /\ LiveSetUp /\ [Next]_vars => LiveSetUp'
  BY StepMaps
<1>2. Init => LiveSetUp
  BY InitMaps
<1> QED
  BY <1>1, <1>2, RegistryInvariant, PTL DEF Spec

\* The registry of usbdif.c implements the router of ClassRouter: its classes
\* are never changed and never meet, and every event (UsbifCbInit, UsbifCbSetup,
\* UsbifCbDataOut, UsbifCbDataInDone) calls whom it is addressed to.
THEOREM RegistryImplementsRouter == Spec => ImplementsRouter
<1>1. Init => Router!Init
  BY InitMaps
<1>2. TableInv /\ LiveSetUp /\ [Next]_vars => [Router!Next]_(Router!vars)
  BY StepMaps
<1>3. Spec => [](TableInv /\ LiveSetUp)
  BY RegistryInvariant, RegisteredOnUnitSetUp, PTL
<1> QED
  BY <1>1, <1>2, <1>3, PTL DEF Spec, ImplementsRouter, Router!Spec

=============================================================================
