---------------------------- MODULE UsbifProofs ----------------------------
(***************************************************************************)
(* Proofs about the class registry of Usbif, for every number of units,    *)
(* slots and table entries and every set of class definitions.             *)
(***************************************************************************)
EXTENDS Usbif, TLAPS

\* Registered slots lie below rcnum, the slot written next.
LiveBelow == live \subseteq 0 .. rcnum - 1

\* Nothing can be registered on a unit before UsbifInit: its zeroed tables
\* have no Invalid position.
UninitRefuses == \A d \in Dev : ~desc[d] => byClass[d] = Filled(0)

\* The inductive invariant of the tables.
TableInv ==
  /\ TypeOK
  /\ LiveBelow
  /\ UninitRefuses
  /\ RegisteredKeepsAll
  /\ TablesConvert
  /\ ClassnumIsNext

\* What holds of the callbacks made by the last step.
CallInv == EnumerationInitsEachClassOnce /\ EndpointEventServed /\ EventToOwner

USE ConstantsAssumption

-----------------------------------------------------------------------------
LEMMA Sets ==
  /\ Slot \subseteq Nat /\ Invalid \notin Slot /\ 0 \in Slot /\ 0 \in Dev
  /\ Bit \subseteq Nat /\ 0 \in Bit
  /\ \A c \in ClassDefs : /\ c.numClass \in Bit /\ c.type \in Type
                          /\ c.ifnum \subseteq Bit /\ c.epnum \subseteq Bit
                          /\ c \in ClassDef
  /\ ZeroClass \in ClassDef
BY DEF Slot, Invalid, Dev, Bit, ClassDef, ZeroClass

\* Claiming bits yields a table; it keeps every entry in use.
LEMMA ClaimKeeps ==
  ASSUME NEW tbl \in [Bit -> Entry], NEW bits, NEW num \in Slot
  PROVE  /\ Claim(tbl, bits, num) \in [Bit -> Entry]
         /\ \A b \in Bit : tbl[b] # Invalid => Claim(tbl, bits, num)[b] = tbl[b]
         /\ \A b \in Bit : \/ Claim(tbl, bits, num)[b] = tbl[b]
                           \/ b \in bits /\ Claim(tbl, bits, num)[b] = num
BY Sets DEF Claim, Free, Entry

\* Without a conflict the whole request is granted.
LEMMA ClaimGrants ==
  ASSUME NEW tbl \in [Bit -> Entry], NEW bits, NEW num \in Slot,
         Free(tbl, bits)
  PROVE  \A b \in Bit : Claim(tbl, bits, num)[b] = IF b \in bits THEN num ELSE tbl[b]
BY DEF Claim, Free

LEMMA InitTables == Init => TableInv
<1> SUFFICES ASSUME Init PROVE TableInv
  OBVIOUS
<1>1. TypeOK
  BY Sets DEF Init, TypeOK, Zero, Filled, Entry, ZeroSlot, Called
<1>2. LiveBelow /\ UninitRefuses
  BY DEF Init, LiveBelow, UninitRefuses, Zero
<1>3. RegisteredKeepsAll
  BY DEF Init, RegisteredKeepsAll, Owns
<1>4. TablesConvert /\ ClassnumIsNext
  BY DEF Init, TablesConvert, ClassnumIsNext, Settled, Zero
<1> QED
  BY <1>1, <1>2, <1>3, <1>4 DEF TableInv

LEMMA InitAllTables == InitAll => TableInv'
<1> SUFFICES ASSUME InitAll PROVE TableInv'
  OBVIOUS
<1>1. TypeOK'
  BY Sets DEF InitAll, TypeOK, Zero, Filled, Entry, ZeroSlot, Called
<1>2. LiveBelow' /\ UninitRefuses'
  BY DEF InitAll, LiveBelow, UninitRefuses, Zero
<1>3. RegisteredKeepsAll'
  BY DEF InitAll, RegisteredKeepsAll, Owns
<1>4. TablesConvert' /\ ClassnumIsNext'
  BY DEF InitAll, TablesConvert, ClassnumIsNext, Settled, Zero
<1> QED
  BY <1>1, <1>2, <1>3, <1>4 DEF TableInv

LEMMA InitUnitTables ==
  ASSUME TypeOK, LiveBelow, UninitRefuses, RegisteredKeepsAll,
         TablesConvert, ClassnumIsNext, NEW d \in Dev, InitUnit(d)
  PROVE  TableInv'
<1> USE DEF InitUnit, slots
<1>1. TypeOK'
  <2>1. Filled(Invalid) \in [Bit -> Entry]
    BY DEF Filled, Entry
  <2>2. /\ byClass' \in [Dev -> [Bit -> Entry]]
        /\ byIf' \in [Dev -> [Bit -> Entry]]
        /\ byEp' \in [Dev -> [Bit -> Entry]]
    BY <2>1 DEF TypeOK
  <2>3. desc' \in [Dev -> BOOLEAN] /\ classnum' \in [Dev -> 0 .. RcnumTotal]
    BY DEF TypeOK
  <2>4. live' \subseteq Slot /\ torn' \subseteq Dev /\ call'.dev \in Dev
    BY DEF TypeOK, Called
  <2> QED
    BY <2>2, <2>3, <2>4 DEF TypeOK
<1>2. LiveBelow'
  BY DEF LiveBelow
<1>3. UninitRefuses'
  BY DEF UninitRefuses, TypeOK
<1>4. RegisteredKeepsAll'
  <2> SUFFICES ASSUME NEW e \in Dev, NEW s \in Slot, Owns(e, s)'
               PROVE  /\ byClass'[e][rc[s].def.numClass] = s
                      /\ \A b \in rc[s].def.ifnum : byIf'[e][b] = s
                      /\ \A b \in rc[s].def.epnum : byEp'[e][b] = s
    BY DEF RegisteredKeepsAll
  <2>1. e # d /\ Owns(e, s)
    BY DEF Owns
  <2> QED
    BY <2>1 DEF RegisteredKeepsAll, TypeOK
<1>5. TablesConvert'
  <2> SUFFICES ASSUME NEW e \in Dev, Settled(e)' PROVE Converts(e)'
    BY DEF TablesConvert
  <2>1. CASE e = d
    BY <2>1 DEF Converts, Filled, TypeOK
  <2>2. CASE e # d
    <3>1. Converts(e)
      BY <2>2 DEF TablesConvert, Settled, TypeOK
    <3>2. byClass'[e] = byClass[e] /\ byIf'[e] = byIf[e] /\ byEp'[e] = byEp[e]
      BY <2>2 DEF TypeOK
    <3>3. \A s : Owns(e, s) => Owns(e, s)'
      BY <2>2 DEF Owns
    <3>4. rc' = rc
      OBVIOUS
    <3> QED
      BY <3>1, <3>2, <3>3, <3>4 DEF Converts
  <2> QED
    BY <2>1, <2>2
<1>6. ClassnumIsNext'
  BY DEF ClassnumIsNext, Filled, TypeOK
<1> QED
  BY <1>1, <1>2, <1>3, <1>4, <1>5, <1>6 DEF TableInv

\* What both outcomes of a registration that reaches rc[] do to the slots, the
\* class positions and the interfaces.
WriteEffect(d, c) ==
  /\ desc[d] /\ rcnum \in Slot /\ desc' = desc
  /\ rc' \in [Slot -> [dev : Dev, def : ClassDef]]
  /\ rc'[rcnum] = [dev |-> d, def |-> c]
  /\ \A s \in Slot : s # rcnum => rc'[s] = rc[s]
  /\ byClass' \in [Dev -> [Bit -> Entry]] /\ byIf' \in [Dev -> [Bit -> Entry]]
  /\ classnum' \in [Dev -> 0 .. RcnumTotal]
  /\ \A e \in Dev : e # d => byClass'[e] = byClass[e] /\ byIf'[e] = byIf[e]
  /\ byClass[d][c.numClass] = Invalid /\ byClass'[d][c.numClass] = rcnum
  /\ \A i \in Bit : i # c.numClass => byClass'[d][i] = byClass[d][i]
  /\ byIf'[d] = Claim(byIf[d], c.ifnum, rcnum)

LEMMA WriteKeeps ==
  ASSUME TypeOK, UninitRefuses, ClassnumIsNext, NEW d \in Dev, NEW c \in ClassDefs,
         CanRegister(d, c), WriteClass(d, c)
  PROVE  WriteEffect(d, c) /\ UninitRefuses' /\ ClassnumIsNext'
<1> USE DEF CanRegister, WriteClass
<1>1. desc[d]
  BY Sets DEF UninitRefuses, Filled, Invalid
<1>2. rcnum \in Slot
  BY DEF TypeOK, Slot
<1>3. /\ rc' \in [Slot -> [dev : Dev, def : ClassDef]]
      /\ rc'[rcnum] = [dev |-> d, def |-> c]
      /\ \A s \in Slot : s # rcnum => rc'[s] = rc[s]
  BY <1>2, Sets DEF TypeOK
<1>4. /\ byIf' \in [Dev -> [Bit -> Entry]]
      /\ byIf'[d] = Claim(byIf[d], c.ifnum, rcnum)
      /\ \A e \in Dev : e # d => byIf'[e] = byIf[e]
  <2>1. Claim(byIf[d], c.ifnum, rcnum) \in [Bit -> Entry]
    <3>1. byIf[d] \in [Bit -> Entry] /\ c.ifnum \in SUBSET Bit
      BY Sets DEF TypeOK
    <3> QED
      BY <3>1, <1>2, ClaimKeeps
  <2>2. byIf' = [byIf EXCEPT ![d] = Claim(byIf[d], c.ifnum, rcnum)]
    OBVIOUS
  <2> QED
    BY <2>1, <2>2 DEF TypeOK
<1>5. /\ byClass' \in [Dev -> [Bit -> Entry]]
      /\ \A e \in Dev : e # d => byClass'[e] = byClass[e]
      /\ byClass'[d][c.numClass] = rcnum
      /\ \A i \in Bit : i # c.numClass => byClass'[d][i] = byClass[d][i]
  BY <1>2, Sets DEF TypeOK, Entry
<1>6. c.numClass \in 0 .. RcnumTotal - 1
  BY Sets DEF Bit
<1>7. /\ classnum' \in [Dev -> 0 .. RcnumTotal]
      /\ \A e \in Dev : e # d => classnum'[e] = classnum[e]
      /\ classnum'[d] = IF classnum[d] < c.numClass + 1 THEN c.numClass + 1 ELSE classnum[d]
  BY <1>6 DEF TypeOK
<1>8. UninitRefuses'
  BY <1>1, <1>5 DEF UninitRefuses
<1>9. ClassnumIsNext'
  <2> SUFFICES ASSUME NEW e \in Dev, desc[e]
               PROVE  /\ \A i \in Bit : i >= classnum'[e] => byClass'[e][i] = Invalid
                      /\ classnum'[e] > 0 => byClass'[e][classnum'[e] - 1] # Invalid
    BY DEF ClassnumIsNext
  <2>1. CASE e # d
    BY <2>1, <1>5, <1>7 DEF ClassnumIsNext
  <2>2. CASE e = d
    <3>1. classnum[d] \in 0 .. RcnumTotal
      BY DEF TypeOK
    <3>2. /\ \A i \in Bit : i >= classnum[d] => byClass[d][i] = Invalid
          /\ classnum[d] > 0 => byClass[d][classnum[d] - 1] # Invalid
      BY <1>1 DEF ClassnumIsNext
    <3>3. ASSUME NEW i \in Bit, i >= classnum'[d] PROVE byClass'[d][i] = Invalid
      BY <3>1, <3>2, <3>3, <1>5, <1>6, <1>7 DEF Bit
    <3>4. classnum'[d] > 0 => byClass'[d][classnum'[d] - 1] # Invalid
      <4>1. CASE classnum[d] < c.numClass + 1
        BY <4>1, <1>2, <1>5, <1>6, <1>7, Sets DEF Bit
      <4>2. CASE ~(classnum[d] < c.numClass + 1)
        BY <4>2, <3>1, <3>2, <1>2, <1>5, <1>6, <1>7, Sets DEF Bit
      <4> QED
        BY <4>1, <4>2
    <3> QED
      BY <2>2, <3>3, <3>4
  <2> QED
    BY <2>1, <2>2
<1> QED
  BY <1>1, <1>2, <1>3, <1>4, <1>5, <1>7, <1>8, <1>9 DEF WriteEffect

\* A registration, granted or not, leaves alone what belongs to the classes
\* already registered and the tables of the other units.
LEMMA WriteSparesOthers ==
  ASSUME TypeOK, LiveBelow, UninitRefuses, RegisteredKeepsAll,
         TablesConvert, ClassnumIsNext, NEW d \in Dev, NEW c \in ClassDefs,
         CanRegister(d, c), WriteClass(d, c),
         live \subseteq live', \A e \in Dev : e # d => byEp'[e] = byEp[e],
         \A b \in Bit : byEp[d][b] # Invalid => byEp'[d][b] = byEp[d][b]
  PROVE  /\ \A e \in Dev, s \in live : Owns(e, s) =>
              /\ rc'[s] = rc[s] /\ byClass'[e][rc[s].def.numClass] = s
              /\ \A b \in rc[s].def.ifnum : byIf'[e][b] = s
              /\ \A b \in rc[s].def.epnum : byEp'[e][b] = s
         /\ \A e \in Dev : (e # d /\ desc[e] /\ e \notin torn) => Converts(e)'
<1>w. WriteEffect(d, c)
  BY WriteKeeps
<1>1. \A s \in live : s \in Slot /\ s # rcnum /\ rc'[s] = rc[s]
  <2>1. \A s \in live : s \in Slot /\ s # rcnum
    BY DEF LiveBelow, TypeOK, Slot
  <2> QED
    BY <2>1, <1>w DEF WriteEffect
<1>2. ASSUME NEW e \in Dev, NEW s \in live, Owns(e, s)
      PROVE  /\ byClass'[e][rc[s].def.numClass] = s
             /\ \A b \in rc[s].def.ifnum : byIf'[e][b] = s
             /\ \A b \in rc[s].def.epnum : byEp'[e][b] = s
  <2>1. /\ byClass[e][rc[s].def.numClass] = s
        /\ \A b \in rc[s].def.ifnum : byIf[e][b] = s
        /\ \A b \in rc[s].def.epnum : byEp[e][b] = s
    BY <1>1, <1>2 DEF RegisteredKeepsAll
  <2>2. /\ s # Invalid /\ rc[s].def.numClass \in Bit
        /\ rc[s].def.ifnum \subseteq Bit /\ rc[s].def.epnum \subseteq Bit
    BY <1>1, Sets DEF TypeOK, ClassDef
  <2>3. CASE e # d
    BY <2>1, <2>2, <2>3, <1>w DEF WriteEffect
  <2>4. CASE e = d
    <3>1. rc[s].def.numClass # c.numClass
      BY <2>1, <2>2, <2>4 DEF CanRegister
    <3>2. byClass'[e][rc[s].def.numClass] = s
      BY <2>1, <2>2, <2>4, <3>1, <1>w DEF WriteEffect
    <3>3. \A b \in Bit : byIf[d][b] # Invalid => byIf'[d][b] = byIf[d][b]
      <4>1. byIf[d] \in [Bit -> Entry] /\ c.ifnum \in SUBSET Bit /\ rcnum \in Slot
        BY Sets, <1>w DEF WriteEffect, TypeOK
      <4>2. \A b \in Bit : byIf[d][b] # Invalid
                            => Claim(byIf[d], c.ifnum, rcnum)[b] = byIf[d][b]
        BY <4>1, ClaimKeeps
      <4> QED
        BY <4>2, <1>w DEF WriteEffect
    <3>4. \A b \in rc[s].def.ifnum : byIf'[d][b] = s
      BY <2>1, <2>2, <2>4, <3>3
    <3>5. \A b \in rc[s].def.epnum : byEp'[d][b] = s
      BY <2>1, <2>2, <2>4
    <3> QED
      BY <2>4, <3>2, <3>4, <3>5
  <2> QED
    BY <2>3, <2>4
<1>3. ASSUME NEW e \in Dev, e # d, desc[e], e \notin torn PROVE Converts(e)'
  <2>1. Converts(e)
    BY <1>3 DEF TablesConvert, Settled
  <2>2. byClass'[e] = byClass[e] /\ byIf'[e] = byIf[e] /\ byEp'[e] = byEp[e]
    BY <1>3, <1>w DEF WriteEffect
  <2>3. \A s \in live : Owns(e, s) => s \in live' /\ rc'[s].dev = e /\ rc'[s] = rc[s]
    BY <1>1 DEF Owns
  <2>4. \A s : Owns(e, s) => s \in live
    BY DEF Owns
  <2>5. \A i \in Bit : byClass'[e][i] # Invalid =>
          Owns(e, byClass'[e][i]) /\ i = rc[byClass'[e][i]].def.numClass
    BY <2>1, <2>2 DEF Converts
  <2>6. \A b \in Bit : byIf'[e][b] # Invalid =>
          Owns(e, byIf'[e][b]) /\ b \in rc[byIf'[e][b]].def.ifnum
    BY <2>1, <2>2 DEF Converts
  <2>7. \A b \in Bit : byEp'[e][b] # Invalid =>
          Owns(e, byEp'[e][b]) /\ b \in rc[byEp'[e][b]].def.epnum
    BY <2>1, <2>2 DEF Converts
  <2> QED
    BY <2>3, <2>4, <2>5, <2>6, <2>7 DEF Converts, Owns
<1> QED
  BY <1>1, <1>2, <1>3

LEMMA RegisterTornTables ==
  ASSUME TypeOK, LiveBelow, UninitRefuses, RegisteredKeepsAll,
         TablesConvert, ClassnumIsNext, NEW d \in Dev, NEW c \in ClassDefs, RegisterTorn(d, c)
  PROVE  TableInv'
<1>0. CanRegister(d, c) /\ WriteClass(d, c)
  BY DEF RegisterTorn
<1>w. WriteEffect(d, c) /\ UninitRefuses' /\ ClassnumIsNext'
  BY <1>0, WriteKeeps
<1>1. byEp' \in [Dev -> [Bit -> Entry]]
      /\ (\A e \in Dev : e # d => byEp'[e] = byEp[e])
      /\ (\A b \in Bit : byEp[d][b] # Invalid => byEp'[d][b] = byEp[d][b])
  <2>1. byEp[d] \in [Bit -> Entry] /\ c.epnum \in SUBSET Bit /\ rcnum \in Slot
    BY <1>0, Sets, <1>w DEF WriteEffect, TypeOK
  <2>2. /\ Claim(byEp[d], c.epnum, rcnum) \in [Bit -> Entry]
        /\ \A b \in Bit : byEp[d][b] # Invalid
                          => Claim(byEp[d], c.epnum, rcnum)[b] = byEp[d][b]
    BY <2>1, ClaimKeeps
  <2>3. byEp' = byEp \/ byEp' = [byEp EXCEPT ![d] = Claim(byEp[d], c.epnum, rcnum)]
    BY DEF RegisterTorn
  <2>4. byEp \in [Dev -> [Bit -> Entry]]
    BY DEF TypeOK
  <2>5. CASE byEp' = byEp
    BY <2>4, <2>5
  <2>6. CASE byEp' = [byEp EXCEPT ![d] = Claim(byEp[d], c.epnum, rcnum)]
    <3>1. byEp'[d] = Claim(byEp[d], c.epnum, rcnum)
      BY <2>4, <2>6
    <3>2. byEp' \in [Dev -> [Bit -> Entry]] /\ \A e \in Dev : e # d => byEp'[e] = byEp[e]
      BY <2>2, <2>4, <2>6
    <3> QED
      BY <2>2, <3>1, <3>2
  <2> QED
    BY <2>3, <2>5, <2>6
<1>2. TypeOK'
  <2>1. desc' \in [Dev -> BOOLEAN]
    BY <1>0 DEF WriteClass, TypeOK
  <2>2. /\ rcnum' \in 0 .. MaxRegClass /\ live' \subseteq Slot /\ torn' \subseteq Dev
        /\ call'.dev \in Dev
    BY DEF RegisterTorn, Called, TypeOK
  <2> QED
    BY <1>0, <1>1, <2>1, <2>2, <1>w DEF WriteEffect, TypeOK
<1>3. LiveBelow'
  BY DEF RegisterTorn, LiveBelow
<1>4. UninitRefuses' /\ ClassnumIsNext'
  BY <1>0, <1>w DEF WriteEffect
<1>5. live \subseteq live'
  BY DEF RegisterTorn
<1>6. RegisteredKeepsAll'
  BY <1>0, <1>1, <1>5, WriteSparesOthers DEF RegisterTorn, RegisteredKeepsAll, Owns, TypeOK
<1>7. TablesConvert'
  <2> SUFFICES ASSUME NEW e \in Dev, Settled(e)' PROVE Converts(e)'
    BY DEF TablesConvert
  <2>1. e # d /\ desc[e] /\ e \notin torn
    BY <1>0 DEF Settled, RegisterTorn, WriteClass
  <2> QED
    BY <1>0, <1>1, <1>5, <2>1, WriteSparesOthers
<1> QED
  BY <1>2, <1>3, <1>4, <1>6, <1>7 DEF TableInv

\* Owns after the step.
OwnsNext(d, s) == s \in live' /\ rc'[s].dev = d

LEMMA RegisterClassTables ==
  ASSUME TypeOK, LiveBelow, UninitRefuses, RegisteredKeepsAll,
         TablesConvert, ClassnumIsNext, NEW d \in Dev, NEW c \in ClassDefs, RegisterClass(d, c)
  PROVE  TableInv'
<1>0. CanRegister(d, c) /\ WriteClass(d, c)
  BY DEF RegisterClass
<1>w. WriteEffect(d, c) /\ UninitRefuses' /\ ClassnumIsNext'
  BY <1>0, WriteKeeps
<1>1. /\ rcnum \in Slot /\ rc'[rcnum] = [dev |-> d, def |-> c]
      /\ byIf[d] \in [Bit -> Entry] /\ c.ifnum \in SUBSET Bit
      /\ byEp[d] \in [Bit -> Entry] /\ c.epnum \in SUBSET Bit
  BY <1>0, Sets, <1>w DEF WriteEffect, TypeOK
<1>2. /\ \A b \in Bit : byIf'[d][b] = IF b \in c.ifnum THEN rcnum ELSE byIf[d][b]
      /\ \A b \in c.ifnum : byIf[d][b] = Invalid
  <2>1. Free(byIf[d], c.ifnum)
    BY DEF RegisterClass
  <2>2. \A b \in Bit : Claim(byIf[d], c.ifnum, rcnum)[b]
                       = IF b \in c.ifnum THEN rcnum ELSE byIf[d][b]
    BY <1>1, <2>1, ClaimGrants
  <2> QED
    BY <2>1, <2>2, <1>w DEF WriteEffect, Free
<1>3. /\ byEp' \in [Dev -> [Bit -> Entry]]
      /\ \A e \in Dev : e # d => byEp'[e] = byEp[e]
      /\ \A b \in Bit : byEp'[d][b] = IF b \in c.epnum THEN rcnum ELSE byEp[d][b]
      /\ \A b \in c.epnum : byEp[d][b] = Invalid
  <2>1. Claim(byEp[d], c.epnum, rcnum) \in [Bit -> Entry]
    BY <1>1, ClaimKeeps
  <2>2. byEp' = [byEp EXCEPT ![d] = Claim(byEp[d], c.epnum, rcnum)] /\ Free(byEp[d], c.epnum)
    BY DEF RegisterClass
  <2>3. \A b \in Bit : Claim(byEp[d], c.epnum, rcnum)[b]
                       = IF b \in c.epnum THEN rcnum ELSE byEp[d][b]
    BY <1>1, <2>2, ClaimGrants
  <2> QED
    BY <2>1, <2>2, <2>3 DEF TypeOK, Free
<1>4. /\ live' = live \cup {rcnum} /\ rcnum' = rcnum + 1 /\ torn' = torn
      /\ call'.dev \in Dev /\ desc' = desc
  BY DEF RegisterClass, Called, WriteClass
<1>5. TypeOK'
  <2>1. rcnum' \in 0 .. MaxRegClass
    BY <1>1, <1>4 DEF Slot, Invalid
  <2>2. live' \subseteq Slot
    BY <1>1, <1>4 DEF TypeOK
  <2> QED
    BY <1>3, <1>4, <2>1, <2>2, <1>w DEF WriteEffect, TypeOK
<1>6. LiveBelow'
  BY <1>1, <1>4 DEF LiveBelow, Slot, Invalid
<1>7. UninitRefuses' /\ ClassnumIsNext'
  BY <1>0, <1>w DEF WriteEffect
<1>8. /\ \A b \in Bit : byEp[d][b] # Invalid => byEp'[d][b] = byEp[d][b]
      /\ live \subseteq live'
  BY <1>3, <1>4
<1>s. /\ \A e \in Dev, s \in live : Owns(e, s) =>
           /\ rc'[s] = rc[s] /\ byClass'[e][rc[s].def.numClass] = s
           /\ \A b \in rc[s].def.ifnum : byIf'[e][b] = s
           /\ \A b \in rc[s].def.epnum : byEp'[e][b] = s
      /\ \A e \in Dev : (e # d /\ desc[e] /\ e \notin torn) => Converts(e)'
  BY <1>0, <1>3, <1>8, WriteSparesOthers
<1>9. RegisteredKeepsAll'
  <2> SUFFICES ASSUME NEW e \in Dev, NEW s \in Slot, Owns(e, s)'
               PROVE  /\ byClass'[e][rc'[s].def.numClass] = s
                      /\ \A b \in rc'[s].def.ifnum : byIf'[e][b] = s
                      /\ \A b \in rc'[s].def.epnum : byEp'[e][b] = s
    BY DEF RegisteredKeepsAll
  <2>1. CASE s = rcnum
    <3>1. rc'[s].dev = d /\ rc'[s].def = c /\ e = d
      BY <1>1, <2>1 DEF Owns
    <3>2. byClass'[d][c.numClass] = s
      BY <2>1, <1>w DEF WriteEffect
    <3> QED
      BY <1>2, <1>3, <2>1, <3>1, <3>2, Sets
  <2>2. CASE s # rcnum
    <3>1. s \in live /\ rc'[s] = rc[s]
      BY <1>0, <1>4, <2>2, <1>w DEF WriteEffect, Owns, OwnsNext
    <3>2. Owns(e, s)
      BY <3>1 DEF Owns, OwnsNext
    <3> QED
      BY <1>s, <3>1, <3>2
  <2> QED
    BY <2>1, <2>2
<1>10. TablesConvert'
  <2> SUFFICES ASSUME NEW e \in Dev, Settled(e)' PROVE Converts(e)'
    BY DEF TablesConvert
  <2>1. desc[e] /\ e \notin torn
    BY <1>4 DEF Settled
  <2>2. CASE e # d
    BY <1>s, <2>1, <2>2
  <2>3. CASE e = d
    <3>1. Converts(d)
      BY <2>1, <2>3 DEF TablesConvert, Settled
    <3>2. OwnsNext(d, rcnum)
      BY <1>1, <1>4 DEF Owns, OwnsNext
    <3>3. \A s \in live : s \in Slot /\ s # rcnum
      BY DEF LiveBelow, TypeOK, Slot
    <3>4. \A s \in live : Owns(d, s) => OwnsNext(d, s) /\ rc'[s] = rc[s]
      BY <1>0, <1>4, <3>3, <1>w DEF WriteEffect, Owns, OwnsNext
    <3>5. \A i \in Bit : byClass'[d][i] # Invalid =>
            OwnsNext(d, byClass'[d][i]) /\ i = rc'[byClass'[d][i]].def.numClass
      <4> SUFFICES ASSUME NEW i \in Bit, byClass'[d][i] # Invalid
                   PROVE  OwnsNext(d, byClass'[d][i]) /\ i = rc'[byClass'[d][i]].def.numClass
        OBVIOUS
      <4>1. CASE i = c.numClass
        BY <1>0, <1>1, <3>2, <4>1, <1>w DEF WriteEffect
      <4>2. CASE i # c.numClass
        <5>1. byClass'[d][i] = byClass[d][i]
          BY <1>0, <4>2, <1>w DEF WriteEffect
        <5>2. Owns(d, byClass[d][i]) /\ i = rc[byClass[d][i]].def.numClass
          BY <3>1, <5>1 DEF Converts
        <5>3. byClass[d][i] \in live
          BY <5>2 DEF Owns, OwnsNext
        <5> QED
          BY <5>1, <5>2, <5>3, <3>4
      <4> QED
        BY <4>1, <4>2
    <3>6. \A b \in Bit : byIf'[d][b] # Invalid =>
            OwnsNext(d, byIf'[d][b]) /\ b \in rc'[byIf'[d][b]].def.ifnum
      BY <1>1, <1>2, <3>1, <3>2, <3>4 DEF Converts, Owns, OwnsNext
    <3>7. \A b \in Bit : byEp'[d][b] # Invalid =>
            OwnsNext(d, byEp'[d][b]) /\ b \in rc'[byEp'[d][b]].def.epnum
      BY <1>1, <1>3, <3>1, <3>2, <3>4 DEF Converts, Owns, OwnsNext
    <3> QED
      BY <2>3, <3>5, <3>6, <3>7 DEF Converts, Owns, OwnsNext
  <2> QED
    BY <2>2, <2>3
<1> QED
  BY <1>5, <1>6, <1>7, <1>9, <1>10 DEF TableInv

LEMMA QuietTables ==
  ASSUME TableInv, UNCHANGED <<tables, slots, ghosts>>, call'.dev \in Dev
  PROVE  TableInv'
<1> USE DEF TableInv, tables, slots, ghosts
<1>1. TypeOK'
  BY DEF TypeOK
<1>2. LiveBelow' /\ UninitRefuses'
  BY DEF LiveBelow, UninitRefuses
<1>3. RegisteredKeepsAll'
  BY DEF RegisteredKeepsAll, Owns
<1>4. TablesConvert'
  <2> SUFFICES ASSUME NEW d \in Dev, Settled(d)' PROVE Converts(d)'
    BY DEF TablesConvert
  <2>1. Converts(d)
    BY DEF TablesConvert, Settled
  <2> QED
    BY <2>1 DEF Converts, Owns
<1>5. ClassnumIsNext'
  BY DEF ClassnumIsNext
<1> QED
  BY <1>1, <1>2, <1>3, <1>4, <1>5

-----------------------------------------------------------------------------
\* A step that calls no class driver.
LEMMA QuietCall ==
  ASSUME NEW op \in {"start", "initall", "initunit", "register"}, NEW d, NEW arg,
         call' = Called(op, d, arg, {})
  PROVE  CallInv'
BY DEF CallInv, Called, EnumerationInitsEachClassOnce, EndpointEventServed, EventToOwner

LEMMA InitCall ==
  ASSUME TableInv, NEW d \in Dev, CbInit(d)
  PROVE  CallInv' /\ TableInv'
<1> DEFINE T(i) == rc[byClass[d][i]].def.type
<1> DEFINE Hit(i) == /\ i \in 0 .. classnum[d] - 1 /\ byClass[d][i] # Invalid
                     /\ "init" \in Callbacks[T(i)]
<1>1. UNCHANGED <<tables, slots, ghosts>>
      /\ call' = Called("init", d, 0,
           UNION {Reach("init", i, byClass[d][i]) : i \in 0 .. classnum[d] - 1})
  BY DEF CbInit, Dispatch
<1>2. /\ call'.op = "init" /\ call'.dev = d
      /\ \A e : e \in call'.to <=> \E i : Hit(i) /\ e = Callee(i, T(i), byClass[d][i])
  BY <1>1 DEF Called, Reach
<1>3. TableInv'
  BY <1>1, <1>2, QuietTables
<1>4. EnumerationInitsEachClassOnce'
  <2>0. /\ rc' = rc /\ live' = live /\ desc' = desc /\ torn' = torn
        /\ call'.op = "init" /\ call'.dev = d
    BY <1>1, <1>2 DEF tables, slots, ghosts
  <2> SUFFICES ASSUME Settled(d)
      PROVE /\ \A s \in Slot : Owns(d, s) /\ "init" \in Callbacks[rc[s].def.type]
                               => \E e \in call'.to : e.prc = s
            /\ \A e \in call'.to : Owns(d, e.prc) /\ e.cb = rc[e.prc].def.type
            /\ \A e, f \in call'.to : e.prc = f.prc => e = f
    BY <2>0 DEF EnumerationInitsEachClassOnce, Settled, Owns
  <2>1. desc[d] /\ Converts(d) /\ classnum[d] \in 0 .. RcnumTotal
    BY DEF TableInv, TablesConvert, Settled, TypeOK
  <2>2. 0 .. classnum[d] - 1 \subseteq Bit
    BY <2>1 DEF Bit
  <2>3. ASSUME NEW i, Hit(i)
        PROVE  Owns(d, byClass[d][i]) /\ i = rc[byClass[d][i]].def.numClass
    BY <2>1, <2>2, <2>3 DEF Converts
  <2>4. ASSUME NEW s \in Slot, Owns(d, s), "init" \in Callbacks[rc[s].def.type]
        PROVE  \E e \in call'.to : e.prc = s
    <3> DEFINE i == rc[s].def.numClass
    <3>1. byClass[d][i] = s /\ i \in Bit /\ s # Invalid
      BY <2>4, Sets DEF TableInv, RegisteredKeepsAll, TypeOK, ClassDef
    <3>2. i < classnum[d]
      BY <2>1, <3>1 DEF TableInv, ClassnumIsNext, Bit
    <3>3. Hit(i)
      BY <2>1, <2>4, <3>1, <3>2 DEF Bit
    <3>4. Callee(i, T(i), byClass[d][i]) \in call'.to
      BY <1>2, <3>3
    <3> QED
      BY <3>1, <3>4 DEF Callee
  <2>5. ASSUME NEW e \in call'.to
        PROVE  Owns(d, e.prc) /\ e.cb = rc[e.prc].def.type
    <3>1. PICK i : Hit(i) /\ e = Callee(i, T(i), byClass[d][i])
      BY <1>2
    <3> QED
      BY <2>3, <3>1 DEF Callee
  <2>6. ASSUME NEW e \in call'.to, NEW f \in call'.to, e.prc = f.prc
        PROVE  e = f
    <3>1. PICK i : Hit(i) /\ e = Callee(i, T(i), byClass[d][i])
      BY <1>2
    <3>2. PICK j : Hit(j) /\ f = Callee(j, T(j), byClass[d][j])
      BY <1>2
    <3>3. byClass[d][i] = byClass[d][j]
      BY <2>6, <3>1, <3>2 DEF Callee
    <3>4. /\ i = rc[byClass[d][i]].def.numClass
          /\ j = rc[byClass[d][j]].def.numClass
      BY <2>3, <3>1, <3>2
    <3>5. i = j
      BY <3>3, <3>4
    <3> QED
      BY <3>1, <3>2, <3>5
  <2> QED
    BY <2>4, <2>5, <2>6
<1>5. EndpointEventServed' /\ EventToOwner'
  BY <1>2 DEF EndpointEventServed, EventToOwner
<1> QED
  BY <1>3, <1>4, <1>5 DEF CallInv

\* Data out and data in done: bit b of the endpoint table.
LEMMA DataCall ==
  ASSUME TableInv, NEW d \in Dev, NEW op \in {"dataOut", "dataInDone"}, NEW b \in Bit,
         Dispatch(op, d, b, Reach(op, b, byEp[d][b]))
  PROVE  CallInv' /\ TableInv'
<1>1. /\ UNCHANGED <<tables, slots, ghosts>>
      /\ call'.op = op /\ call'.dev = d /\ call'.arg = b
      /\ call'.to = Reach(op, b, byEp[d][b])
  BY DEF Dispatch, Called
<1>2. TableInv'
  BY <1>1, QuietTables
<1>3. EnumerationInitsEachClassOnce'
  BY <1>1 DEF EnumerationInitsEachClassOnce
<1>4. EndpointEventServed'
  <2> SUFFICES ASSUME NEW s \in Slot, Owns(d, s), b \in rc[s].def.epnum,
                      op \in Callbacks[rc[s].def.type]
               PROVE  call'.to = {Callee(b, rc[s].def.type, s)}
    BY <1>1 DEF EndpointEventServed, Owns, slots, ghosts
  <2>1. byEp[d][b] = s /\ s # Invalid
    BY Sets DEF TableInv, RegisteredKeepsAll
  <2> QED
    BY <1>1, <2>1 DEF Reach
<1>5. EventToOwner'
  <2> SUFFICES ASSUME Settled(d), NEW e \in call'.to
               PROVE  Owns(d, e.prc) /\ b \in rc[e.prc].def.epnum
    BY <1>1 DEF EventToOwner, Settled, Owns, tables, slots, ghosts
  <2>1. Converts(d)
    BY DEF TableInv, TablesConvert
  <2>2. byEp[d][b] # Invalid /\ e = Callee(b, rc[byEp[d][b]].def.type, byEp[d][b])
    BY <1>1 DEF Reach
  <2>3. e.prc = byEp[d][b]
    BY <2>2 DEF Callee
  <2> QED
    BY <2>1, <2>2, <2>3 DEF Converts
<1> QED
  BY <1>2, <1>3, <1>4, <1>5 DEF CallInv

LEMMA SetupCall ==
  ASSUME TableInv, NEW d \in Dev, NEW rcp \in Recipient, NEW type \in ReqType,
         NEW index \in Bit, CbSetup(d, rcp, type, index)
  PROVE  CallInv' /\ TableInv'
<1> DEFINE s == Addressee(d, rcp, index)
<1> DEFINE classtype == IF s = Invalid THEN 0 ELSE rc[s].def.type
<1>1. /\ UNCHANGED <<tables, slots, ghosts>>
      /\ call'.op = "setup" /\ call'.dev = d
      /\ call'.arg = [recipient |-> rcp, type |-> type, index |-> index]
      /\ call'.to = IF classtype # 0 THEN Reach("setup", index, s)
                    ELSE IF type = "vendor" THEN Reach("setup", index, 0) ELSE {}
  BY DEF CbSetup, Dispatch, Called
<1>2. TableInv'
  BY <1>1, QuietTables
<1>3. EnumerationInitsEachClassOnce' /\ EndpointEventServed'
  BY <1>1 DEF EnumerationInitsEachClassOnce, EndpointEventServed
<1>4. EventToOwner'
  <2> DEFINE req == [recipient |-> rcp, type |-> type, index |-> index]
  <2> SUFFICES ASSUME Settled(d), NEW e \in call'.to
               PROVE  \/ e.prc \in Addressed(d, req)
                      \/ /\ type = "vendor" /\ e.prc = 0
                         /\ \A t \in Addressed(d, req) : rc[t].def.type = 0
    BY <1>1 DEF EventToOwner, Addressed, Settled, Owns, tables, slots, ghosts
  <2>1. Converts(d) /\ RegisteredKeepsAll
    BY DEF TableInv, TablesConvert
  <2>2. ASSUME s # Invalid PROVE s \in Addressed(d, req)
    <3>1. CASE rcp = "device"
      BY <2>1, <2>2, <3>1, Sets DEF Converts, Addressee, Addressed, Owns, TableInv, TypeOK
    <3>2. CASE rcp = "interface"
      BY <2>1, <2>2, <3>2 DEF Converts, Addressee, Addressed, Owns, TableInv, TypeOK
    <3>3. CASE rcp = "endpoint"
      BY <2>1, <2>2, <3>3 DEF Converts, Addressee, Addressed, Owns, TableInv, TypeOK
    <3>4. CASE rcp = "other"
      BY <2>2, <3>4 DEF Addressee
    <3> QED
      BY <3>1, <3>2, <3>3, <3>4 DEF Recipient
  <2>3. ASSUME NEW t \in Addressed(d, req) PROVE t = s
    <3>1. t \in Slot /\ Owns(d, t)
      BY DEF Addressed
    <3>2. CASE rcp = "device"
      BY <2>1, <3>1, <3>2 DEF Addressed, Addressee, RegisteredKeepsAll
    <3>3. CASE rcp = "interface"
      BY <2>1, <3>1, <3>3 DEF Addressed, Addressee, RegisteredKeepsAll
    <3>4. CASE rcp = "endpoint"
      BY <2>1, <3>1, <3>4 DEF Addressed, Addressee, RegisteredKeepsAll
    <3>5. CASE rcp = "other"
      BY <3>5 DEF Addressed
    <3> QED
      BY <3>2, <3>3, <3>4, <3>5 DEF Recipient
  <2>4. CASE classtype # 0
    <3>1. s # Invalid /\ e.prc = s
      BY <1>1, <2>4 DEF Reach, Callee
    <3> QED
      BY <2>2, <3>1
  <2>5. CASE classtype = 0
    <3>1. type = "vendor" /\ e.prc = 0
      BY <1>1, <2>5 DEF Reach, Callee
    <3>2. \A t \in Addressed(d, req) : t # Invalid
      BY Sets DEF Addressed
    <3>3. \A t \in Addressed(d, req) : rc[t].def.type = 0
      BY <2>3, <2>5, <3>2
    <3> QED
      BY <3>1, <3>3
  <2> QED
    BY <2>4, <2>5
<1> QED
  BY <1>2, <1>3, <1>4 DEF CallInv

LEMMA SofCall ==
  ASSUME TableInv, NEW d \in Dev, CbSof(d)
  PROVE  CallInv' /\ TableInv'
<1>1. /\ UNCHANGED <<tables, slots, ghosts>>
      /\ call'.op = "sof" /\ call'.dev = d
  BY DEF CbSof, Dispatch, Called
<1>2. TableInv'
  BY <1>1, QuietTables
<1>3. CallInv'
  BY <1>1 DEF CallInv, EnumerationInitsEachClassOnce, EndpointEventServed, EventToOwner
<1> QED
  BY <1>2, <1>3

-----------------------------------------------------------------------------
LEMMA StepInv == TableInv /\ CallInv /\ [Next]_vars => TableInv' /\ CallInv'
<1> SUFFICES ASSUME TableInv, CallInv, [Next]_vars PROVE TableInv' /\ CallInv'
  OBVIOUS
<1>0. /\ TypeOK /\ LiveBelow /\ UninitRefuses /\ RegisteredKeepsAll
      /\ TablesConvert /\ ClassnumIsNext
  BY DEF TableInv
<1>1. CASE InitAll
  BY <1>1, InitAllTables, QuietCall DEF InitAll
<1>2. ASSUME NEW d \in Dev, InitUnit(d) PROVE TableInv' /\ CallInv'
  BY <1>0, <1>2, InitUnitTables, QuietCall DEF InitUnit
<1>3. ASSUME NEW d \in Dev, NEW c \in ClassDefs, RegisterRefused(d, c)
      PROVE  TableInv' /\ CallInv'
  BY <1>3, QuietTables, QuietCall DEF RegisterRefused, Called
<1>4. ASSUME NEW d \in Dev, NEW c \in ClassDefs, RegisterClass(d, c)
      PROVE  TableInv' /\ CallInv'
  BY <1>0, <1>4, RegisterClassTables, QuietCall DEF RegisterClass
<1>5. ASSUME NEW d \in Dev, NEW c \in ClassDefs, RegisterTorn(d, c)
      PROVE  TableInv' /\ CallInv'
  BY <1>0, <1>5, RegisterTornTables, QuietCall DEF RegisterTorn
<1>6. ASSUME NEW d \in Dev, CbInit(d) PROVE TableInv' /\ CallInv'
  BY <1>6, InitCall
<1>7. ASSUME NEW d \in Dev, NEW ep \in Epnum, CbDataOut(d, ep)
      PROVE  TableInv' /\ CallInv'
  <2>1. ep \in Bit
    BY DEF Epnum, OffsetIn, Bit
  <2> QED
    BY <1>7, <2>1, DataCall DEF CbDataOut
<1>8. ASSUME NEW d \in Dev, NEW ep \in Epnum, CbDataInDone(d, ep)
      PROVE  TableInv' /\ CallInv'
  <2>1. ep + OffsetIn \in Bit
    BY DEF Epnum, OffsetIn, Bit
  <2> QED
    BY <1>8, <2>1, DataCall DEF CbDataInDone
<1>9. ASSUME NEW d \in Dev, NEW rcp \in Recipient, NEW type \in ReqType,
             NEW index \in Bit, CbSetup(d, rcp, type, index)
      PROVE  TableInv' /\ CallInv'
  BY <1>9, SetupCall
<1>10. ASSUME NEW d \in Dev, CbSof(d) PROVE TableInv' /\ CallInv'
  BY <1>10, SofCall
<1>11. CASE UNCHANGED vars
  <2>1. TableInv'
    BY <1>0, <1>11, QuietTables DEF vars, TypeOK
  <2>2. CallInv'
    BY <1>11 DEF vars, tables, slots, ghosts, CallInv, EnumerationInitsEachClassOnce,
                 EndpointEventServed, EventToOwner, Addressed, Settled, Owns
  <2> QED
    BY <2>1, <2>2
<1> QED
  BY <1>1, <1>2, <1>3, <1>4, <1>5, <1>6, <1>7, <1>8, <1>9, <1>10, <1>11
     DEF Next, Register, Event

\* The inductive invariant: what the tables hold (TableInv) and what the last
\* event called (CallInv), for usbdif.c as a whole.
THEOREM RegistryInvariant == Spec => [](TableInv /\ CallInv)
<1>1. Init => TableInv /\ CallInv
  BY InitTables DEF Init, CallInv, Called, EnumerationInitsEachClassOnce,
                    EndpointEventServed, EventToOwner
<1> QED
  BY <1>1, StepInv, PTL DEF Spec

\* The tables have their types: the slot count never passes MAX_REG_CLASS
\* (usbdif_reg) and classnum never passes RCNUM_TOTAL.
THEOREM RegistryTyped == Spec => []TypeOK
<1>1. TableInv => TypeOK
  BY DEF TableInv
<1> QED
  BY <1>1, RegistryInvariant, PTL

\* A registered class keeps its position, interfaces and endpoints, whatever
\* UsbifRegisterClass does or refuses after it.
THEOREM RegisteredClassKeeps == Spec => []RegisteredKeepsAll
<1>1. TableInv => RegisteredKeepsAll
  BY DEF TableInv
<1> QED
  BY <1>1, RegistryInvariant, PTL

\* The converter tables of a settled unit name registered classes only, each
\* where it asked for (rcnumByIfnum, rcnumByEpnum, rcnumByClassnum).
THEOREM RegistryCorrect == Spec => []TablesConvert
<1>1. TableInv => TablesConvert
  BY DEF TableInv
<1> QED
  BY <1>1, RegistryInvariant, PTL

\* classnum is the next unused position of rcnumByClassnum.
THEOREM NextPosition == Spec => []ClassnumIsNext
<1>1. TableInv => ClassnumIsNext
  BY DEF TableInv
<1> QED
  BY <1>1, RegistryInvariant, PTL

\* UsbifCbInit calls the init of every registered class once and no other.
THEOREM InitsEachOnce == Spec => []EnumerationInitsEachClassOnce
<1>1. CallInv => EnumerationInitsEachClassOnce
  BY DEF CallInv
<1> QED
  BY <1>1, RegistryInvariant, PTL

\* A data event calls the class that owns the endpoint (UsbifCbDataOut,
\* UsbifCbDataInDone), also where registrations were refused half way.
THEOREM DispatchCorrect == Spec => []EndpointEventServed
<1>1. CallInv => EndpointEventServed
  BY DEF CallInv
<1> QED
  BY <1>1, RegistryInvariant, PTL

\* On a settled unit no class gets an event addressed to another class's device
\* position, interface or endpoint, vendor requests included (UsbifCbSetup,
\* UsbifCbDataOut, UsbifCbDataInDone).
THEOREM EventsToOwners == Spec => []EventToOwner
<1>1. CallInv => EventToOwner
  BY DEF CallInv
<1> QED
  BY <1>1, RegistryInvariant, PTL

-----------------------------------------------------------------------------
\* The two action properties, step by step.
SlotsFrozen == \A s \in live \cap live' : rc'[s] = rc[s]
NotTaken == \A d \in Dev : (desc[d] /\ desc'[d]) =>
              /\ Keeps(byClass[d], byClass'[d])
              /\ Keeps(byIf[d], byIf'[d])
              /\ Keeps(byEp[d], byEp'[d])

LEMMA StepActions == TableInv /\ [Next]_vars => SlotsFrozen /\ NotTaken
<1> SUFFICES ASSUME TableInv, [Next]_vars PROVE SlotsFrozen /\ NotTaken
  OBVIOUS
<1>1. \A s \in live : s \in Slot /\ s # rcnum
  BY DEF TableInv, TypeOK, LiveBelow, Slot
<1>2. /\ rc \in [Slot -> [dev : Dev, def : ClassDef]] /\ byEp \in [Dev -> [Bit -> Entry]]
      /\ byClass \in [Dev -> [Bit -> Entry]] /\ byIf \in [Dev -> [Bit -> Entry]]
  BY DEF TableInv, TypeOK
<1>3. CASE InitAll
  BY <1>3 DEF InitAll, SlotsFrozen, NotTaken, Zero
<1>4. ASSUME NEW d \in Dev, InitUnit(d) PROVE SlotsFrozen /\ NotTaken
  <2>1. SlotsFrozen
    BY <1>4 DEF InitUnit, slots, SlotsFrozen
  <2>2. ASSUME NEW e \in Dev
        PROVE  /\ Keeps(byClass[e], byClass'[e])
               /\ Keeps(byIf[e], byIf'[e])
               /\ Keeps(byEp[e], byEp'[e])
    BY <1>2, <1>4 DEF InitUnit, Keeps, Filled
  <2> QED
    BY <2>1, <2>2 DEF NotTaken
<1>5. ASSUME NEW d \in Dev, NEW c \in ClassDefs, CanRegister(d, c), WriteClass(d, c),
             \/ byEp' = byEp
             \/ byEp' = [byEp EXCEPT ![d] = Claim(@, c.epnum, rcnum)]
      PROVE  SlotsFrozen /\ NotTaken
  <2>1. WriteEffect(d, c)
    BY <1>5, WriteKeeps DEF TableInv
  <2>2. SlotsFrozen
    BY <1>1, <2>1 DEF SlotsFrozen, WriteEffect
  <2>3. byEp[d] \in [Bit -> Entry] /\ rcnum \in Slot
    BY <1>2, <2>1 DEF WriteEffect
  <2>4. \A b \in Bit : byEp[d][b] # Invalid => Claim(byEp[d], c.epnum, rcnum)[b] = byEp[d][b]
    BY <2>3, ClaimKeeps
  <2>i. \A b \in Bit : byIf[d][b] # Invalid => Claim(byIf[d], c.ifnum, rcnum)[b] = byIf[d][b]
    <3>1. byIf[d] \in [Bit -> Entry] /\ rcnum \in Slot
      BY <1>2, <2>3
    <3> QED
      BY <3>1, ClaimKeeps
  <2>5. ASSUME NEW e \in Dev, desc[e]
        PROVE  /\ Keeps(byClass[e], byClass'[e])
               /\ Keeps(byIf[e], byIf'[e])
               /\ Keeps(byEp[e], byEp'[e])
    <3>1. Keeps(byEp[e], byEp'[e])
      BY <1>2, <1>5, <2>4 DEF Keeps
    <3>2. Keeps(byIf[e], byIf'[e])
      <4>1. CASE e = d
        BY <2>1, <2>i, <4>1 DEF Keeps, WriteEffect
      <4>2. CASE e # d
        BY <2>1, <4>2 DEF Keeps, WriteEffect
      <4> QED
        BY <4>1, <4>2
    <3>3. Keeps(byClass[e], byClass'[e])
      BY <1>2, <1>5, <2>1 DEF Keeps, WriteEffect, CanRegister
    <3> QED
      BY <3>1, <3>2, <3>3
  <2>6. NotTaken
    BY <2>5 DEF NotTaken
  <2> QED
    BY <2>2, <2>6
<1>6. ASSUME UNCHANGED <<tables, slots>> PROVE SlotsFrozen /\ NotTaken
  BY <1>6 DEF tables, slots, SlotsFrozen, NotTaken, Keeps
<1>7. ASSUME NEW d \in Dev, NEW c \in ClassDefs,
             RegisterRefused(d, c) \/ RegisterClass(d, c) \/ RegisterTorn(d, c)
      PROVE  SlotsFrozen /\ NotTaken
  BY <1>5, <1>6, <1>7 DEF RegisterRefused, RegisterClass, RegisterTorn
<1>8. CASE Event
  BY <1>6, <1>8 DEF Event, CbInit, CbDataOut, CbDataInDone, CbSetup, CbSof, Dispatch
<1>9. CASE UNCHANGED vars
  BY <1>6, <1>9 DEF vars
<1> QED
  BY <1>3, <1>4, <1>7, <1>8, <1>9 DEF Next, Register

\* A slot handed out is not rewritten while its class is registered.
THEOREM SlotsStayFrozen == Spec => RegisteredSlotsFrozen
<1>1. TableInv /\ [Next]_vars => [\A s \in live \cap live' : rc'[s] = rc[s]]_vars
  BY StepActions DEF SlotsFrozen
<1> QED
  BY <1>1, RegistryInvariant, PTL DEF Spec, RegisteredSlotsFrozen

\* A position, interface or endpoint of an initialised unit changes hands only by
\* way of UsbifInit, whatever UsbifRegisterClass accepts or refuses.
THEOREM NothingTakenOver == Spec => NoTakeover
<1>1. TableInv /\ [Next]_vars =>
        [\A d \in Dev : (desc[d] /\ desc'[d]) =>
           /\ Keeps(byClass[d], byClass'[d])
           /\ Keeps(byIf[d], byIf'[d])
           /\ Keeps(byEp[d], byEp'[d])]_vars
  BY StepActions DEF NotTaken
<1> QED
  BY <1>1, RegistryInvariant, PTL DEF Spec, NoTakeover

=============================================================================
