------------------------------- MODULE Usbif -------------------------------
(***************************************************************************)
(* The class registry and the callback dispatch of usbdif.c.               *)
(*                                                                         *)
(* The registry is the one global structure usbdif: for every unit (a USB  *)
(* device controller) three converter tables, indexed by class position,   *)
(* by interface number and by endpoint bit, whose entries are slots of the *)
(* array rc[] of registered classes, shared by all units.  The dispatch    *)
(* functions turn an event of a unit into the callback of a class driver.  *)
(***************************************************************************)
EXTENDS Integers, FiniteSets

CONSTANTS MaxDevice,     \* USBDIF_MAX_DEVICE: units are 0 .. MaxDevice - 1
          MaxRegClass,   \* USBDIF_MAX_REGCLASS: slots of rc[]
          RcnumTotal,    \* USBDIF_RCNUM_TOTAL: entries of a converter table
          ClassDefs,     \* the class definitions applications register
          Callbacks      \* usbifClassCbTbl: type -> callbacks it provides

Invalid  == 255                      \* USBDIF_CLASSPOS_INVALID
Dev      == 0 .. MaxDevice - 1
Slot     == 0 .. MaxRegClass - 1
Bit      == 0 .. RcnumTotal - 1
OffsetIn == RcnumTotal \div 2        \* USBDIF_RCNUM_OFFSET_IN
Epnum    == 0 .. OffsetIn - 1        \* epnum < USBDIF_MAX_EPNUM
Type     == DOMAIN Callbacks
ClassDef == [numClass : Bit, type : Type, ifnum : SUBSET Bit, epnum : SUBSET Bit]
Entry    == Slot \cup {Invalid}

Recipient == {"device", "interface", "endpoint", "other"}
ReqType   == {"standard", "class", "vendor"}

ASSUME ConstantsAssumption ==
  /\ MaxDevice \in Nat \ {0}
  /\ MaxRegClass \in 1 .. Invalid - 1
  /\ RcnumTotal \in Nat \ {0}
  /\ 0 \in Type /\ Callbacks[0] = {}     \* NULL entry 0 of the table
  /\ Type \subseteq Nat /\ Bit \subseteq Type
  /\ ClassDefs \subseteq ClassDef

VARIABLES
  desc,      \* desc[d]: UsbifInit(d) has set pDescTbl
  classnum,  \* sc[d].classnum
  byClass,   \* sc[d].rcnumByClassnum
  byIf,      \* sc[d].rcnumByIfnum
  byEp,      \* sc[d].rcnumByEpnum
  rc,        \* usbdif.rc[]: the class definition and its dev
  rcnum,     \* usbdif.rcnum
  live,      \* (history) slots whose registration returned success
  torn,      \* (history) units with a registration refused half way
  call       \* the last entry point executed and the callbacks it made

tables == <<desc, classnum, byClass, byIf, byEp>>
slots  == <<rc, rcnum>>
ghosts == <<live, torn>>
vars   == <<tables, slots, ghosts, call>>

-----------------------------------------------------------------------------
\* A zeroed slot: dev 0, type 0 (RESERVED0), no interface, no endpoint.
ZeroClass == [numClass |-> 0, type |-> 0, ifnum |-> {}, epnum |-> {}]
ZeroSlot  == [dev |-> 0, def |-> ZeroClass]

Filled(v) == [b \in Bit |-> v]

\* What a step called: entry point, unit, its argument, and the set of class
\* callbacks it made: table entry cb invoked with prc = &rc[prc].
Called(op, d, arg, to) == [op |-> op, dev |-> d, arg |-> arg, to |-> to]
Callee(pos, type, s)   == [pos |-> pos, cb |-> type, prc |-> s]

\* The loops of UsbifRegisterClass over the 32 bits, lowest first: a bit is
\* claimed as long as no requested bit up to it was taken ("goto fail").
Free(tbl, bits) == \A b \in bits : tbl[b] = Invalid
ClaimTaken(tbl, bits, num) ==          \* mutant: conflicts overwritten
  [b \in Bit |-> IF b \in bits THEN num ELSE tbl[b]]
Claim(tbl, bits, num) ==
  [b \in Bit |-> IF b \in bits /\ Free(tbl, {k \in bits : k <= b})
                 THEN num ELSE tbl[b]]

-----------------------------------------------------------------------------
Zero(v) == [d \in Dev |-> v]

\* Static storage: all zero, hence the converter tables hold 0, not Invalid.
Init ==
  /\ desc = Zero(FALSE) /\ classnum = Zero(0)
  /\ byClass = Zero(Filled(0)) /\ byIf = Zero(Filled(0)) /\ byEp = Zero(Filled(0))
  /\ rc = [s \in Slot |-> ZeroSlot] /\ rcnum = 0
  /\ live = {} /\ torn = {}
  /\ call = Called("start", 0, 0, {})

\* UsbifInit(-1): clear everything.
InitAll ==
  /\ desc' = Zero(FALSE) /\ classnum' = Zero(0)
  /\ byClass' = Zero(Filled(0)) /\ byIf' = Zero(Filled(0)) /\ byEp' = Zero(Filled(0))
  /\ rc' = [s \in Slot |-> ZeroSlot] /\ rcnum' = 0
  /\ live' = {} /\ torn' = {}
  /\ call' = Called("initall", 0, 0, {})

InitUnitKeepsIf(d) ==                  \* mutant: rcnumByIfnum not preset
  /\ desc'     = [desc EXCEPT ![d] = TRUE]
  /\ classnum' = [classnum EXCEPT ![d] = 0]
  /\ byClass'  = [byClass EXCEPT ![d] = Filled(Invalid)]
  /\ byEp'     = [byEp EXCEPT ![d] = Filled(Invalid)]
  /\ live'     = {s \in live : rc[s].dev # d}
  /\ torn'     = torn \ {d}
  /\ call'     = Called("initunit", d, 0, {})
  /\ UNCHANGED <<slots, byIf>>

\* UsbifInit(d): clear one unit.  rc[] and rcnum keep the unit's old classes.
InitUnit(d) ==
  /\ desc'     = [desc EXCEPT ![d] = TRUE]
  /\ classnum' = [classnum EXCEPT ![d] = 0]
  /\ byClass'  = [byClass EXCEPT ![d] = Filled(Invalid)]
  /\ byIf'     = [byIf EXCEPT ![d] = Filled(Invalid)]
  /\ byEp'     = [byEp EXCEPT ![d] = Filled(Invalid)]
  /\ live'     = {s \in live : rc[s].dev # d}
  /\ torn'     = torn \ {d}
  /\ call'     = Called("initunit", d, 0, {})
  /\ UNCHANGED slots

CanRegisterAny(d, c) == byClass[d][c.numClass] = Invalid  \* mutant: rc[] full
CanRegister(d, c) == rcnum < MaxRegClass /\ byClass[d][c.numClass] = Invalid

\* UsbifRegisterClass, refused before the first assignment.
RegisterRefused(d, c) ==
  /\ ~CanRegister(d, c)
  /\ call' = Called("register", d, -1, {})
  /\ UNCHANGED <<tables, slots, ghosts>>

WriteClassShort(d, c) ==               \* mutant: classnum without the + 1
  /\ rc'       = [rc EXCEPT ![rcnum] = [dev |-> d, def |-> c]]
  /\ byClass'  = [byClass EXCEPT ![d][c.numClass] = rcnum]
  /\ classnum' = [classnum EXCEPT ![d] = IF @ < c.numClass THEN c.numClass ELSE @]
  /\ byIf'     = [byIf EXCEPT ![d] = Claim(@, c.ifnum, rcnum)]
  /\ UNCHANGED desc

\* The assignments both remaining outcomes share: slot, class position,
\* interface bits up to the first conflict.
WriteClass(d, c) ==
  /\ rc'       = [rc EXCEPT ![rcnum] = [dev |-> d, def |-> c]]
  /\ byClass'  = [byClass EXCEPT ![d][c.numClass] = rcnum]
  /\ classnum' = [classnum EXCEPT ![d] = IF @ < c.numClass + 1 THEN c.numClass + 1 ELSE @]
  /\ byIf'     = [byIf EXCEPT ![d] = Claim(@, c.ifnum, rcnum)]
  /\ UNCHANGED desc

RegisterClassSameSlot(d, c) ==         \* mutant: rcnum not advanced
  /\ CanRegister(d, c)
  /\ Free(byIf[d], c.ifnum) /\ Free(byEp[d], c.epnum)
  /\ WriteClass(d, c)
  /\ byEp'  = [byEp EXCEPT ![d] = Claim(@, c.epnum, rcnum)]
  /\ live'  = live \cup {rcnum}
  /\ call'  = Called("register", d, rcnum, {})
  /\ UNCHANGED <<torn, rcnum>>

\* UsbifRegisterClass, accepted: the slot number is returned.
RegisterClass(d, c) ==
  /\ CanRegister(d, c)
  /\ Free(byIf[d], c.ifnum) /\ Free(byEp[d], c.epnum)
  /\ WriteClass(d, c)
  /\ byEp'  = [byEp EXCEPT ![d] = Claim(@, c.epnum, rcnum)]
  /\ rcnum' = rcnum + 1
  /\ live'  = live \cup {rcnum}
  /\ call'  = Called("register", d, rcnum, {})
  /\ UNCHANGED torn

\* UsbifRegisterClass, refused at an interface or an endpoint already taken:
\* what was written stays, and rcnum is not advanced.
RegisterTorn(d, c) ==
  /\ CanRegister(d, c)
  /\ ~(Free(byIf[d], c.ifnum) /\ Free(byEp[d], c.epnum))
  /\ WriteClass(d, c)
  /\ byEp'  = IF Free(byIf[d], c.ifnum)
              THEN [byEp EXCEPT ![d] = Claim(@, c.epnum, rcnum)] ELSE byEp
  /\ torn'  = torn \cup {d}
  /\ call'  = Called("register", d, -1, {})
  /\ UNCHANGED <<rcnum, live>>

-----------------------------------------------------------------------------
\* The callback op of the class in slot s, found at position pos of a table;
\* none when the entry is invalid or the driver lacks the callback.
Reach(op, pos, s) ==
  IF s # Invalid /\ op \in Callbacks[rc[s].def.type]
  THEN {Callee(pos, rc[s].def.type, s)} ELSE {}

Dispatch(op, d, arg, to) ==
  call' = Called(op, d, arg, to) /\ UNCHANGED <<tables, slots, ghosts>>

CbInitShort(d) ==                      \* mutant: the last position missed
  Dispatch("init", d, 0,
    UNION {Reach("init", i, byClass[d][i]) : i \in 0 .. classnum[d] - 2})

\* UsbifCbInit: every class position below classnum.
CbInit(d) ==
  Dispatch("init", d, 0,
    UNION {Reach("init", i, byClass[d][i]) : i \in 0 .. classnum[d] - 1})

\* UsbifCbDataOut and UsbifCbDataInDone: the class of the endpoint.
CbDataOut(d, ep) ==
  Dispatch("dataOut", d, ep, Reach("dataOut", ep, byEp[d][ep]))

CbDataInDoneOut(d, ep) ==              \* mutant: USBDIF_RCNUM_OFFSET_IN missed
  Dispatch("dataInDone", d, ep + OffsetIn, Reach("dataInDone", ep + OffsetIn, byEp[d][ep]))

CbDataInDone(d, ep) ==
  LET b == ep + OffsetIn
  IN  Dispatch("dataInDone", d, b, Reach("dataInDone", b, byEp[d][b]))

\* UsbifCbSetup: the recipient selects the table, wIndex the entry (index).
Addressee(d, rcp, index) ==
  CASE rcp = "device"    -> byClass[d][0]
    [] rcp = "interface" -> byIf[d][index]
    [] rcp = "endpoint"  -> byEp[d][index]
    [] OTHER             -> Invalid

CbSetupAdhoc(d, rcp, type, index) ==     \* mutant: all vendor requests to rc[0]
  LET s         == Addressee(d, rcp, index)
      classtype == IF s = Invalid THEN 0 ELSE rc[s].def.type
  IN  Dispatch("setup", d, [recipient |-> rcp, type |-> type, index |-> index],
        IF type = "vendor"   THEN Reach("setup", index, 0)
        ELSE IF classtype # 0 THEN Reach("setup", index, s) ELSE {})

\* Without a class, a vendor request goes to rc[0] of whatever unit.
CbSetup(d, rcp, type, index) ==
  LET s         == Addressee(d, rcp, index)
      classtype == IF s = Invalid THEN 0 ELSE rc[s].def.type
  IN  Dispatch("setup", d, [recipient |-> rcp, type |-> type, index |-> index],
        IF classtype # 0     THEN Reach("setup", index, s)
        ELSE IF type = "vendor" THEN Reach("setup", index, 0) ELSE {})

\* UsbifCbSof: position i selects the table entry and the slot alike.
CbSof(d) ==
  Dispatch("sof", d, 0,
    {Callee(i, i, i) : i \in {j \in 0 .. classnum[d] - 1 : "sof" \in Callbacks[j]}})

-----------------------------------------------------------------------------
Register == \E d \in Dev, c \in ClassDefs :
              RegisterRefused(d, c) \/ RegisterClass(d, c) \/ RegisterTorn(d, c)
Event == \E d \in Dev :
  \/ CbInit(d)
  \/ \E ep \in Epnum : CbDataOut(d, ep) \/ CbDataInDone(d, ep)
  \/ \E rcp \in Recipient, type \in ReqType, index \in Bit : CbSetup(d, rcp, type, index)
  \/ CbSof(d)

Next == InitAll \/ (\E d \in Dev : InitUnit(d)) \/ Register \/ Event
Spec == Init /\ [][Next]_vars

-----------------------------------------------------------------------------
(***************************************************************************)
(* Properties.                                                             *)
(***************************************************************************)

\* Type invariant of the registry.
TypeOK ==
  /\ desc \in [Dev -> BOOLEAN]
  /\ classnum \in [Dev -> 0 .. RcnumTotal]
  /\ byClass \in [Dev -> [Bit -> Entry]]
  /\ byIf \in [Dev -> [Bit -> Entry]]
  /\ byEp \in [Dev -> [Bit -> Entry]]
  /\ rc \in [Slot -> [dev : Dev, def : ClassDef]]
  /\ rcnum \in 0 .. MaxRegClass
  /\ live \subseteq Slot
  /\ torn \subseteq Dev
  /\ call.dev \in Dev

\* A unit set up by UsbifInit on which no registration was refused half way.
Settled(d) == desc[d] /\ d \notin torn

\* The class in slot s was registered on unit d and the unit not cleared since.
Owns(d, s) == s \in live /\ rc[s].dev = d

\* A registered class keeps its position, all its interfaces and all its
\* endpoints, whatever is registered or refused after it, on any unit.  (Hence
\* two registered classes of a unit never share a position or a bit.)
RegisteredKeepsAll ==
  \A d \in Dev, s \in Slot : Owns(d, s) =>
    /\ byClass[d][rc[s].def.numClass] = s
    /\ \A b \in rc[s].def.ifnum : byIf[d][b] = s
    /\ \A b \in rc[s].def.epnum : byEp[d][b] = s

\* The converter tables of a settled unit name only registered classes of this
\* unit, and each only where the class asked for (usbdif.h: "interface number
\* to rcnumber converter table").
Converts(d) ==
  /\ \A i \in Bit : byClass[d][i] # Invalid =>
       Owns(d, byClass[d][i]) /\ i = rc[byClass[d][i]].def.numClass
  /\ \A b \in Bit : byIf[d][b] # Invalid =>
       Owns(d, byIf[d][b]) /\ b \in rc[byIf[d][b]].def.ifnum
  /\ \A b \in Bit : byEp[d][b] # Invalid =>
       Owns(d, byEp[d][b]) /\ b \in rc[byEp[d][b]].def.epnum
TablesConvert == \A d \in Dev : Settled(d) => Converts(d)

\* "classnum: next unused position of rcnumByClassnum[] in each module"
\* (usbdif.h): nothing is registered at or above it, the one below is in use.
ClassnumIsNext ==
  \A d \in Dev : desc[d] =>
    /\ \A i \in Bit : i >= classnum[d] => byClass[d][i] = Invalid
    /\ classnum[d] > 0 => byClass[d][classnum[d] - 1] # Invalid

\* An enumeration initialises every registered class of a settled unit exactly
\* once (a second init would leak its handle), and no class of another unit.
EnumerationInitsEachClassOnce ==
  (call.op = "init" /\ Settled(call.dev)) =>
    /\ \A s \in Slot : Owns(call.dev, s) /\ "init" \in Callbacks[rc[s].def.type]
                       => \E e \in call.to : e.prc = s
    /\ \A e \in call.to : Owns(call.dev, e.prc) /\ e.cb = rc[e.prc].def.type
    /\ \A e, f \in call.to : e.prc = f.prc => e = f

\* A data event on an endpoint of a registered class reaches that class and no
\* other, even after refused registrations.
EndpointEventServed ==
  call.op \in {"dataOut", "dataInDone"} =>
    \A s \in Slot :
      (/\ Owns(call.dev, s) /\ call.arg \in rc[s].def.epnum
       /\ call.op \in Callbacks[rc[s].def.type])
      => call.to = {Callee(call.arg, rc[s].def.type, s)}

\* The registered classes of unit d that a control request is addressed to.
Addressed(d, req) == {s \in Slot :
  /\ Owns(d, s)
  /\ \/ req.recipient = "device"    /\ rc[s].def.numClass = 0
     \/ req.recipient = "interface" /\ req.index \in rc[s].def.ifnum
     \/ req.recipient = "endpoint"  /\ req.index \in rc[s].def.epnum}

\* On a settled unit every data or setup callback goes to a registered class
\* of the unit that owns what the event is addressed to.  Only a vendor request
\* nobody owns may go elsewhere, and then to slot 0 ("adhoc", rc[0]): the vendor
\* request to an interface with a class never goes past that class.
EventToOwner ==
  Settled(call.dev) =>
    \A e \in call.to :
      /\ call.op \in {"dataOut", "dataInDone"} =>
           Owns(call.dev, e.prc) /\ call.arg \in rc[e.prc].def.epnum
      /\ call.op = "setup" =>
           \/ e.prc \in Addressed(call.dev, call.arg)
           \/ /\ call.arg.type = "vendor" /\ e.prc = 0
              /\ \A s \in Addressed(call.dev, call.arg) : rc[s].def.type = 0

\* A slot handed out is not rewritten as long as its class is registered:
\* refused registrations and other units reuse only free slots.
RegisteredSlotsFrozen == [][\A s \in live \cap live' : rc'[s] = rc[s]]_vars

\* A class position, an interface or an endpoint of an initialised unit changes
\* hands only by way of UsbifInit: no registration, accepted, refused or refused
\* half way, takes what another one holds.
Keeps(tbl, next) == \A b \in Bit : tbl[b] # Invalid => next[b] \in {tbl[b], Invalid}
NoTakeover ==
  [][\A d \in Dev : (desc[d] /\ desc'[d]) =>
       /\ Keeps(byClass[d], byClass'[d])
       /\ Keeps(byIf[d], byIf'[d])
       /\ Keeps(byEp[d], byEp'[d])]_vars

-----------------------------------------------------------------------------
(***************************************************************************)
(* The router the registry implements: ClassRouter sees the registered     *)
(* classes of each unit and, of an event, whom it is for and whom it calls. *)
(***************************************************************************)
Registered(d) == {[handle |-> s, def |-> rc[s].def] : s \in {t \in Slot : Owns(d, t)}}

NoEvent == [op |-> "none", dev |-> 0, recipient |-> "none", type |-> "none",
            index |-> 0, to |-> {}]
Happened(recipient, type, index) ==
  [op |-> call.op, dev |-> call.dev, recipient |-> recipient, type |-> type,
   index |-> index, to |-> call.to]
LastEvent ==
  CASE call.op = "init"  -> Happened("all", "none", 0)
    [] call.op = "setup" -> Happened(call.arg.recipient, call.arg.type, call.arg.index)
    [] call.op \in {"dataOut", "dataInDone"} -> Happened("endpoint", "none", call.arg)
    [] OTHER -> NoEvent

Router == INSTANCE ClassRouter WITH
  Units      <- Dev,
  Handles    <- Slot,
  registered <- [d \in Dev |-> Registered(d)],
  whole      <- {d \in Dev : Settled(d)},
  event      <- LastEvent

\* The registry implements the router: with three tables, slots shared by all
\* units and registrations that write before they fail, no registered class ever
\* changes or meets another, and every event calls whom it is addressed to.
ImplementsRouter == Router!Spec

-----------------------------------------------------------------------------
(***************************************************************************)
(* What the comments say and the code does not do.                         *)
(***************************************************************************)

\* The callback table is indexed by class type ("1 AUDIO"): a callback taken
\* from entry t is applied to a class of type t.  False for start of frame.
CallbackMatchesType ==
  \A e \in call.to : Owns(call.dev, e.prc) => e.cb = rc[e.prc].def.type

=============================================================================
