--------------------------- MODULE UsbdCoreProofs ---------------------------
(***************************************************************************)
(* Proofs about the core, for every number of units, length of the queue,  *)
(* number of bus resets and timeouts, and every host that asks for what    *)
(* CoreAssumption allows.                                                  *)
(*                                                                         *)
(* The packets not dealt with yet, Pending, are taken as one sequence: the *)
(* environment adds to its end, Receive leaves it alone, a handler removes *)
(* its head.                                                               *)
(***************************************************************************)
EXTENDS UsbdCore, TLAPS

\* Position i of Pending holds a packet of unit u.
Of(u, i) == i \in 1 .. Len(Pending) /\ Pending[i].unit = u
Is(u, i, r) == Of(u, i) /\ Pending[i].req = r
IsData(u, i) == Of(u, i) /\ Pending[i].req \in DataEvent

\* Sessions of a unit follow one another in the queue, each begun by its
\* reset; what the task has handled is not later than what it has not.
Bounded(u) == bad[u] <= sess[u] /\ devSess[u] <= sess[u] /\ classSess[u] <= sess[u]
Ordered(u) ==
  /\ \A i \in 1 .. Len(Pending) : Of(u, i) =>
       /\ devSess[u] <= Pending[i].sess /\ classSess[u] <= Pending[i].sess
       /\ Pending[i].sess <= sess[u]
       /\ Pending[i].req = "reset" => devSess[u] < Pending[i].sess
  /\ \A i, j \in 1 .. Len(Pending) : (Of(u, i) /\ Of(u, j) /\ i < j) =>
       /\ Pending[i].sess <= Pending[j].sess
       /\ Pending[j].req = "reset" => Pending[i].sess < Pending[j].sess

\* The reset of every session since the last bad one is handled or waits.
ResetKept(u) ==
  \A s \in bad[u] + 1 .. sess[u] :
    s <= devSess[u] \/ \E k \in 1 .. Len(Pending) : Is(u, k, "reset") /\ Pending[k].sess = s

\* The enumeration of a session that is up is handled or waits, and does so
\* before the session's requests and data.
EnumeratedKept(u) ==
  (phase[u] = "up" /\ bad[u] < sess[u]) =>
    \/ classSess[u] = sess[u]
    \/ \E k \in 1 .. Len(Pending) : Is(u, k, "enumerated") /\ Pending[k].sess = sess[u]
EnumeratedFirst(u) ==
  \A i \in 1 .. Len(Pending) :
    ((Is(u, i, "setup") \/ IsData(u, i)) /\ bad[u] < Pending[i].sess) =>
      \/ classSess[u] = Pending[i].sess
      \/ \E k \in 1 .. i - 1 : Is(u, k, "enumerated") /\ Pending[k].sess = Pending[i].sess

\* A SETUP is alone, and the setup buffer still holds the request under way.
SetupAlone(u) ==
  \A i, j \in 1 .. Len(Pending) :
    (Is(u, i, "setup") /\ bad[u] < Pending[i].sess /\ Is(u, j, "setup")) => i = j
SetupIsReq(u) ==
  bad[u] < sess[u] =>
    \A i \in 1 .. Len(Pending) : Is(u, i, "setup") =>
      IF Pending[i].sess = sess[u] THEN req[u] = setup[u] /\ ans[u] = None
                                   ELSE req[u] = None
ReqIsAllowed(u) == req[u] = None \/ req[u] \in HostRequests[host[u]]

\* What the host believes, as far as the task has come.
HostBehind(u) ==
  (bad[u] < sess[u] /\ devSess[u] < sess[u]) => host[u] = "default" /\ ans[u] = None
HostInStep(u) ==
  (bad[u] < sess[u] /\ devSess[u] = sess[u]) =>
    deviceState[u] =
      IF \E i \in 1 .. Len(Pending) : Is(u, i, "setup") THEN host[u]
      ELSE HostView(host[u], req[u], ans[u])

\* Data that wait are of the session the task is in, the unit is configured,
\* and nothing before them will change that.
DataInPlace(u) ==
  \A i \in 1 .. Len(Pending) : (IsData(u, i) /\ bad[u] < Pending[i].sess) =>
    /\ devSess[u] = Pending[i].sess /\ deviceState[u] = "configured"
    /\ (\E k \in 1 .. i - 1 : Is(u, k, "setup")) => setup[u] \notin {"SetConfig", "Unconfig"}

Initialised(u) == (deviceState[u] = "configured" /\ bad[u] < devSess[u]) => classSess[u] = devSess[u]

UnitInv(u) ==
  /\ Bounded(u) /\ Ordered(u) /\ ResetKept(u) /\ EnumeratedKept(u) /\ EnumeratedFirst(u)
  /\ SetupAlone(u) /\ SetupIsReq(u) /\ ReqIsAllowed(u)
  /\ HostBehind(u) /\ HostInStep(u) /\ DataInPlace(u) /\ Initialised(u)

\* The inductive invariant.
CoreInv == TypeOK /\ \A u \in Unit : UnitInv(u)

USE CoreAssumption

-----------------------------------------------------------------------------
(***************************************************************************)
(* Pending, in every step.                                                 *)
(***************************************************************************)
LEMMA PendingType ==
  ASSUME TypeOK
  PROVE  /\ Pending \in Seq(Packet) /\ Len(Pending) \in Nat
         /\ \A i \in 1 .. Len(Pending) : Pending[i] \in Packet
BY DEF TypeOK, Pending

LEMMA Appended ==
  ASSUME TypeOK, NEW p \in Packet, queue' = Append(queue, p), UNCHANGED cur
  PROVE  /\ Len(Pending') = Len(Pending) + 1
         /\ Pending'[Len(Pending) + 1] = p
         /\ \A i \in 1 .. Len(Pending) : Pending'[i] = Pending[i]
BY DEF TypeOK, Pending

LEMMA Received ==
  ASSUME TypeOK, Receive
  PROVE  Pending' = Pending
<1>1. PICK q \in Seq(Packet) : queue = q /\ q # <<>>
  BY DEF TypeOK, Receive
<1>2. <<Head(q)>> \o Tail(q) = <<>> \o q
  BY <1>1
<1> QED
  BY <1>1, <1>2 DEF Receive, Pending

LEMMA Removed ==
  ASSUME TypeOK, cur # <<>>, cur' = <<>>, UNCHANGED queue
  PROVE  /\ Len(Pending) \in Nat \ {0} /\ Pending[1] = cur[1] /\ cur[1] \in Packet
         /\ Len(Pending') = Len(Pending) - 1
         /\ \A i \in 1 .. Len(Pending') : Pending'[i] = Pending[i + 1]
         /\ \A i \in 2 .. Len(Pending) : Pending'[i - 1] = Pending[i]
BY DEF TypeOK, Pending

-----------------------------------------------------------------------------
(***************************************************************************)
(* What keeps the invariant of a unit whose own state does not change.     *)
(***************************************************************************)
Same(u) ==
  /\ deviceState'[u] = deviceState[u] /\ setup'[u] = setup[u]
  /\ devSess'[u] = devSess[u] /\ classSess'[u] = classSess[u] /\ sess'[u] = sess[u]
  /\ phase'[u] = phase[u] /\ host'[u] = host[u] /\ req'[u] = req[u] /\ ans'[u] = ans[u]
  /\ bad'[u] = bad[u]

LEMMA PendingKept ==
  ASSUME TypeOK, NEW u \in Unit, UnitInv(u), Same(u), Pending' = Pending
  PROVE  UnitInv(u)'
<1> USE DEF Same, Of, Is, IsData
<1>1. Bounded(u)' /\ Ordered(u)' /\ ResetKept(u)' /\ EnumeratedKept(u)' /\ EnumeratedFirst(u)'
  BY DEF UnitInv, Bounded, Ordered, ResetKept, EnumeratedKept, EnumeratedFirst
<1>2. SetupAlone(u)' /\ SetupIsReq(u)' /\ ReqIsAllowed(u)'
  BY DEF UnitInv, SetupAlone, SetupIsReq, ReqIsAllowed
<1>3. HostBehind(u)' /\ HostInStep(u)' /\ DataInPlace(u)' /\ Initialised(u)'
  BY DEF UnitInv, HostBehind, HostInStep, DataInPlace, Initialised
<1> QED
  BY <1>1, <1>2, <1>3 DEF UnitInv

\* With the last session bad, little is left to show.
LEMMA BadIsEnough ==
  ASSUME NEW u \in Unit, TypeOK', Bounded(u)', Ordered(u)', ReqIsAllowed(u)', bad'[u] = sess'[u]
  PROVE  UnitInv(u)'
<1>1. sess'[u] \in Nat /\ devSess'[u] \in Nat /\ devSess'[u] <= sess'[u]
  BY DEF TypeOK, Bounded
<1>2. \A i \in 1 .. Len(Pending)' : Of(u, i)' => ~(bad'[u] < Pending'[i].sess)
  <2> SUFFICES ASSUME NEW i \in 1 .. Len(Pending)', Of(u, i)' PROVE ~(bad'[u] < Pending'[i].sess)
    OBVIOUS
  <2>1. Pending'[i].sess <= sess'[u]
    BY DEF Ordered
  <2>2. Pending'[i].sess \in Nat
    <3>1. Pending' \in Seq(Packet)
      BY DEF TypeOK, Pending
    <3>2. Pending'[i] \in Packet
      BY <3>1
    <3> QED
      BY <3>2 DEF Packet
  <2> QED
    BY <1>1, <2>1, <2>2
<1>3. ResetKept(u)' /\ EnumeratedKept(u)' /\ SetupIsReq(u)' /\ HostBehind(u)' /\ HostInStep(u)'
      /\ Initialised(u)'
  BY <1>1 DEF ResetKept, EnumeratedKept, SetupIsReq, HostBehind, HostInStep, Initialised
<1>4. EnumeratedFirst(u)' /\ SetupAlone(u)' /\ DataInPlace(u)'
  BY <1>2 DEF EnumeratedFirst, SetupAlone, DataInPlace, Is, IsData
<1> QED
  BY <1>3, <1>4 DEF UnitInv

-----------------------------------------------------------------------------
(***************************************************************************)
(* Packets added.                                                          *)
(***************************************************************************)
Adds(p) ==
  /\ Len(Pending') = Len(Pending) + 1
  /\ Pending'[Len(Pending) + 1] = p
  /\ \A i \in 1 .. Len(Pending) : Pending'[i] = Pending[i]

LEMMA OtherAdded ==
  ASSUME TypeOK, NEW u \in Unit, UnitInv(u), Same(u), NEW p \in Packet, Adds(p), p.unit # u
  PROVE  UnitInv(u)'
<1> DEFINE n == Len(Pending)
<1>1. n \in Nat /\ Len(Pending') = n + 1 /\ \A i \in 1 .. n : Pending'[i] = Pending[i]
  BY PendingType DEF Adds
<1>2. \A i \in 1 .. n + 1 : Pending'[i].unit = u => i \in 1 .. n
  BY <1>1 DEF Adds
<1> USE <1>1, <1>2 DEF Same, Of, Is, IsData, UnitInv
<1> HIDE DEF n
<1>3. Bounded(u)' /\ Ordered(u)'
  BY DEF Bounded, Ordered, n
<1>4. ResetKept(u)'
  <2> SUFFICES ASSUME NEW s \in bad[u] + 1 .. sess[u], ~(s <= devSess[u])
               PROVE  \E k \in 1 .. n + 1 : Is(u, k, "reset")' /\ Pending'[k].sess = s
    BY DEF ResetKept
  <2>1. PICK k \in 1 .. n : Is(u, k, "reset") /\ Pending[k].sess = s
    BY DEF ResetKept, n
  <2>2. k \in 1 .. n + 1 /\ Is(u, k, "reset")' /\ Pending'[k].sess = s
    BY <2>1
  <2> QED
    BY <2>2
<1>5. EnumeratedKept(u)'
  <2> SUFFICES ASSUME phase[u] = "up", bad[u] < sess[u], classSess[u] # sess[u]
               PROVE  \E k \in 1 .. n + 1 : Is(u, k, "enumerated")' /\ Pending'[k].sess = sess[u]
    BY DEF EnumeratedKept
  <2>1. PICK k \in 1 .. n : Is(u, k, "enumerated") /\ Pending[k].sess = sess[u]
    BY DEF EnumeratedKept, n
  <2>2. k \in 1 .. n + 1 /\ Is(u, k, "enumerated")' /\ Pending'[k].sess = sess[u]
    BY <2>1
  <2> QED
    BY <2>2
<1>6. EnumeratedFirst(u)'
  <2> SUFFICES ASSUME NEW i \in 1 .. n + 1, Is(u, i, "setup")' \/ IsData(u, i)',
                      bad[u] < Pending'[i].sess, classSess[u] # Pending'[i].sess
               PROVE  \E k \in 1 .. i - 1 : Is(u, k, "enumerated")' /\ Pending'[k].sess = Pending'[i].sess
    BY DEF EnumeratedFirst
  <2>0. i \in 1 .. n
    <3>1. Pending'[i].unit = u
      OBVIOUS
    <3> QED
      BY <3>1
  <2>1. (Is(u, i, "setup") \/ IsData(u, i)) /\ Pending'[i] = Pending[i]
    BY <2>0 DEF n
  <2>2. PICK k \in 1 .. i - 1 : Is(u, k, "enumerated") /\ Pending[k].sess = Pending[i].sess
    BY <2>0, <2>1 DEF EnumeratedFirst, n
  <2>3. Is(u, k, "enumerated")' /\ Pending'[k].sess = Pending'[i].sess
    BY <2>0, <2>1, <2>2
  <2> QED
    BY <2>3
<1>7. SetupAlone(u)' /\ SetupIsReq(u)' /\ ReqIsAllowed(u)'
  BY DEF SetupAlone, SetupIsReq, ReqIsAllowed, n
<1>8. HostBehind(u)' /\ HostInStep(u)' /\ DataInPlace(u)' /\ Initialised(u)'
  BY DEF HostBehind, HostInStep, DataInPlace, Initialised, n
<1> QED
  BY <1>3, <1>4, <1>5, <1>6, <1>7, <1>8

LEMMA UnitTypes ==
  ASSUME TypeOK, NEW u \in Unit
  PROVE  /\ bad[u] \in Nat /\ sess[u] \in Nat /\ devSess[u] \in Nat /\ classSess[u] \in Nat
         /\ \A i \in 1 .. Len(Pending) : Pending[i].sess \in Nat
<1>1. bad[u] \in Nat /\ sess[u] \in Nat /\ devSess[u] \in Nat /\ classSess[u] \in Nat
  BY DEF TypeOK
<1>2. \A i \in 1 .. Len(Pending) : Pending[i].sess \in Nat
  BY PendingType DEF Packet
<1> QED
  BY <1>1, <1>2

LEMMA AddedParts ==
  ASSUME TypeOK, NEW p \in Packet, Adds(p)
  PROVE  \E n \in Nat : /\ n = Len(Pending) /\ Len(Pending') = n + 1
                        /\ Pending'[n + 1] = p
                        /\ \A i \in 1 .. n : Pending'[i] = Pending[i]
BY PendingType DEF Adds

LEMMA OwnOrdered ==
  ASSUME TypeOK, NEW u \in Unit, UnitInv(u), NEW p \in Packet, Adds(p),
         p.unit = u, p.sess = sess'[u],
         devSess'[u] = devSess[u], classSess'[u] = classSess[u],
         \/ p.req = "reset" /\ sess'[u] = sess[u] + 1
         \/ p.req # "reset" /\ sess'[u] = sess[u]
  PROVE  Ordered(u)'
<1>0. PICK n \in Nat : /\ n = Len(Pending) /\ Len(Pending') = n + 1
                      /\ Pending'[n + 1] = p
                      /\ \A i \in 1 .. n : Pending'[i] = Pending[i]
  BY AddedParts
<1>2. Pending'[n + 1] = p
  BY <1>0
<1>3. /\ bad[u] \in Nat /\ sess[u] \in Nat /\ devSess[u] \in Nat /\ classSess[u] \in Nat
      /\ \A i \in 1 .. n : Pending[i].sess \in Nat
  BY <1>0, UnitTypes
<1>4. sess'[u] \in Nat /\ sess[u] <= sess'[u]
  BY <1>3
<1> USE <1>0, <1>3, <1>4 DEF Of, UnitInv
<1>5. ASSUME NEW i \in 1 .. n + 1, Of(u, i)'
      PROVE  /\ devSess[u] <= Pending'[i].sess /\ classSess[u] <= Pending'[i].sess
             /\ Pending'[i].sess <= sess'[u]
             /\ Pending'[i].req = "reset" => devSess[u] < Pending'[i].sess
  <2>1. CASE i = n + 1
    BY <1>2, <1>5, <2>1 DEF Bounded
  <2>2. CASE i \in 1 .. n
    <3>1. Of(u, i) /\ Pending'[i] = Pending[i]
      BY <1>5, <2>2
    <3> QED
      BY <2>2, <3>1 DEF Ordered
  <2> QED
    BY <2>1, <2>2
<1>6. ASSUME NEW i \in 1 .. n + 1, NEW j \in 1 .. n + 1, Of(u, i)', Of(u, j)', i < j
      PROVE  /\ Pending'[i].sess <= Pending'[j].sess
             /\ Pending'[j].req = "reset" => Pending'[i].sess < Pending'[j].sess
  <2>1. i \in 1 .. n
    BY <1>6
  <2>2. CASE j = n + 1
    BY <1>2, <1>6, <2>1, <2>2 DEF Ordered
  <2>3. CASE j \in 1 .. n
    BY <1>6, <2>1, <2>3 DEF Ordered
  <2> QED
    BY <2>2, <2>3
<1> QED
  BY <1>5, <1>6 DEF Ordered

LEMMA OwnAdded ==
  ASSUME TypeOK, NEW u \in Unit, UnitInv(u), NEW p \in Packet, Adds(p),
         p.unit = u, p.sess = sess'[u],
         deviceState'[u] = deviceState[u], devSess'[u] = devSess[u],
         classSess'[u] = classSess[u], bad'[u] = bad[u],
         \/ p.req = "reset" /\ sess'[u] = sess[u] + 1 /\ phase'[u] = "reset"
         \/ p.req # "reset" /\ sess'[u] = sess[u] /\ (phase'[u] = phase[u] \/ p.req = "enumerated"),
         p.req \in DataEvent \cup {"setup"} => phase[u] = "up"
  PROVE  /\ Bounded(u)' /\ Ordered(u)' /\ ResetKept(u)'
         /\ EnumeratedKept(u)' /\ EnumeratedFirst(u)' /\ Initialised(u)'
<1>0. PICK n \in Nat : n = Len(Pending)
  BY PendingType
<1>1. n \in Nat /\ Len(Pending) = n /\ Len(Pending') = n + 1 /\ \A i \in 1 .. n : Pending'[i] = Pending[i]
  BY <1>0 DEF Adds
<1>2. Pending'[n + 1] = p
  BY <1>0 DEF Adds
<1>3. /\ bad[u] \in Nat /\ sess[u] \in Nat /\ devSess[u] \in Nat /\ classSess[u] \in Nat
      /\ \A i \in 1 .. n : Pending[i].sess \in Nat
  BY <1>0, UnitTypes
<1>4. sess'[u] \in Nat /\ sess[u] <= sess'[u]
  BY <1>3
<1> USE <1>1, <1>3, <1>4 DEF Of, Is, IsData, UnitInv
<1>5. Bounded(u)' /\ Initialised(u)'
  BY DEF Bounded, Initialised
<1>6. Ordered(u)'
  BY OwnOrdered
<1>7. ResetKept(u)'
  <2> SUFFICES ASSUME NEW s \in bad[u] + 1 .. sess'[u], ~(s <= devSess[u])
               PROVE  \E k \in 1 .. n + 1 : Is(u, k, "reset")' /\ Pending'[k].sess = s
    BY DEF ResetKept
  <2>1. CASE s <= sess[u]
    <3>0. s \in bad[u] + 1 .. sess[u]
      BY <2>1
    <3>1. PICK k \in 1 .. n : Is(u, k, "reset") /\ Pending[k].sess = s
      BY <3>0 DEF ResetKept
    <3>2. k \in 1 .. n + 1 /\ Is(u, k, "reset")' /\ Pending'[k].sess = s
      BY <3>1
    <3> QED
      BY <3>2
  <2>2. CASE ~(s <= sess[u])
    <3>1. n + 1 \in 1 .. n + 1 /\ Is(u, n + 1, "reset")' /\ Pending'[n + 1].sess = s
      BY <1>2, <2>2
    <3> QED
      BY <3>1
  <2> QED
    BY <2>1, <2>2
<1>8. EnumeratedKept(u)'
  <2> SUFFICES ASSUME phase'[u] = "up", bad[u] < sess'[u], classSess[u] # sess'[u]
               PROVE  \E k \in 1 .. n + 1 : Is(u, k, "enumerated")' /\ Pending'[k].sess = sess'[u]
    BY DEF EnumeratedKept
  <2>1. CASE p.req = "enumerated"
    <3>1. n + 1 \in 1 .. n + 1 /\ Is(u, n + 1, "enumerated")' /\ Pending'[n + 1].sess = sess'[u]
      BY <1>2, <2>1
    <3> QED
      BY <3>1
  <2>2. CASE p.req # "enumerated"
    <3>1. PICK k \in 1 .. n : Is(u, k, "enumerated") /\ Pending[k].sess = sess[u]
      BY <2>2 DEF EnumeratedKept
    <3>2. k \in 1 .. n + 1 /\ Is(u, k, "enumerated")' /\ Pending'[k].sess = sess'[u]
      BY <2>2, <3>1
    <3> QED
      BY <3>2
  <2> QED
    BY <2>1, <2>2
<1>9. EnumeratedFirst(u)'
  <2> SUFFICES ASSUME NEW i \in 1 .. n + 1, Is(u, i, "setup")' \/ IsData(u, i)',
                      bad[u] < Pending'[i].sess, classSess[u] # Pending'[i].sess
               PROVE  \E k \in 1 .. i - 1 : Is(u, k, "enumerated")' /\ Pending'[k].sess = Pending'[i].sess
    BY DEF EnumeratedFirst
  <2>1. CASE i \in 1 .. n
    <3>1. (Is(u, i, "setup") \/ IsData(u, i)) /\ Pending'[i] = Pending[i]
      BY <2>1
    <3>2. PICK k \in 1 .. i - 1 : Is(u, k, "enumerated") /\ Pending[k].sess = Pending[i].sess
      BY <2>1, <3>1 DEF EnumeratedFirst
    <3>3. Is(u, k, "enumerated")' /\ Pending'[k].sess = Pending'[i].sess
      BY <2>1, <3>1, <3>2
    <3> QED
      BY <3>3
  <2>2. CASE i = n + 1
    <3>1. p.req \in DataEvent \cup {"setup"} /\ bad[u] < sess[u] /\ classSess[u] # sess[u]
          /\ sess'[u] = sess[u] /\ Pending'[i].sess = sess[u]
      BY <1>2, <2>2 DEF DataEvent
    <3>2. PICK k \in 1 .. n : Is(u, k, "enumerated") /\ Pending[k].sess = sess[u]
      BY <3>1 DEF EnumeratedKept
    <3>3. k \in 1 .. i - 1 /\ Is(u, k, "enumerated")' /\ Pending'[k].sess = sess[u]
      BY <2>2, <3>2
    <3> QED
      BY <3>1, <3>3
  <2> QED
    BY <2>1, <2>2
<1> QED
  BY <1>5, <1>6, <1>7, <1>8, <1>9

LEMMA Sent ==
  ASSUME TypeOK, NEW p \in Packet, UsbdcoreCbIsr(p), UNCHANGED cur
  PROVE  IF Queued(p) THEN Adds(p) ELSE Pending' = Pending
<1>1. CASE Queued(p)
  BY <1>1, Appended DEF UsbdcoreCbIsr, Adds
<1>2. CASE ~Queued(p)
  BY <1>2 DEF UsbdcoreCbIsr, Pending
<1> QED
  BY <1>1, <1>2

LEMMA SetupWaits ==
  ASSUME TypeOK, NEW u \in Unit
  PROVE  SetupWaiting(u) <=> \E i \in 1 .. Len(Pending) : Is(u, i, "setup")
<1>1. DOMAIN Pending = 1 .. Len(Pending)
  BY PendingType
<1> QED
  BY <1>1 DEF SetupWaiting, Waiting, Is, Of

\* What a step does to units other than the one it is about.
LEMMA OtherUnits ==
  ASSUME CoreInv, NEW u \in Unit, NEW v \in Unit, v # u, Same(v),
         NEW p \in Packet, p.unit = u,
         UsbdcoreCbIsr(p), UNCHANGED cur
  PROVE  UnitInv(v)'
BY Sent, OtherAdded, PendingKept DEF CoreInv

-----------------------------------------------------------------------------
(***************************************************************************)
(* Types.                                                                  *)
(***************************************************************************)
\* The types of the queue, and of all that is kept per unit.
QueueOK ==
  /\ queue \in Seq(Packet) /\ Len(queue) <= QueueLen
  /\ cur \in Seq(Packet) /\ Len(cur) <= 1
FieldsOK ==
  /\ deviceState \in [Unit -> DeviceState] /\ setup \in [Unit -> Request]
  /\ devSess \in [Unit -> 0 .. MaxSess] /\ classSess \in [Unit -> 0 .. MaxSess]
  /\ sess \in [Unit -> 0 .. MaxSess] /\ phase \in [Unit -> {"off", "reset", "up"}]
  /\ host \in [Unit -> DeviceState] /\ req \in [Unit -> Request \cup {None}]
  /\ ans \in [Unit -> {None, "data", "stall"}]
  /\ bad \in [Unit -> 0 .. MaxSess] /\ early \in [Unit -> 0 .. MaxEarly]

LEMMA QueueType ==
  ASSUME TypeOK, NEW p \in Packet, UsbdcoreCbIsr(p)
  PROVE  queue' \in Seq(Packet) /\ Len(queue') <= QueueLen
BY DEF TypeOK, UsbdcoreCbIsr, Queued

LEMMA HostTypes ==
  ASSUME TypeOK, NEW u \in Unit, Host(u)
  PROVE  TypeOK'
<1>1. \A r \in BusEvent \cup DataEvent \cup {"setup"} : Pkt(u, r) \in Packet
  BY DEF TypeOK, Pkt, Packet
<1>2. ASSUME NEW r \in BusEvent \cup DataEvent, Notify(u, r), phase' \in [Unit -> {"off", "reset", "up"}]
      PROVE  TypeOK'
  <2>1. queue' \in Seq(Packet) /\ Len(queue') <= QueueLen
    BY <1>1, <1>2, QueueType DEF Notify
  <2>2. bad' \in [Unit -> 0 .. MaxSess]
    BY <1>2 DEF Notify, TypeOK
  <2> QED
    BY <1>2, <2>1, <2>2 DEF Notify, TypeOK, task, control
<1>3. CASE BusReset(u)
  <2> DEFINE p == [Pkt(u, "reset") EXCEPT !.sess = @ + 1]
  <2>0. p = [unit |-> u, req |-> "reset", sess |-> sess[u] + 1]
    BY DEF Pkt
  <2>00. sess[u] + 1 \in 0 .. MaxSess
    BY <1>3 DEF BusReset, TypeOK
  <2>1. p \in Packet /\ p.sess \in 0 .. MaxSess
    BY <2>0, <2>00 DEF Packet, BusEvent
  <2>2. queue' \in Seq(Packet) /\ Len(queue') <= QueueLen
    BY <1>3, <2>1, QueueType DEF BusReset
  <2>3. bad' \in [Unit -> 0 .. MaxSess] /\ sess' \in [Unit -> 0 .. MaxSess]
    BY <1>3, <2>1 DEF BusReset, TypeOK
  <2> QED
    BY <1>3, <2>2, <2>3 DEF BusReset, TypeOK, task, DeviceState
<1>4. CASE Enumerated(u)
  BY <1>2, <1>4 DEF Enumerated, TypeOK, BusEvent
<1>5. CASE Suspend(u)
  BY <1>2, <1>5 DEF Suspend, TypeOK, BusEvent
<1>6. ASSUME NEW r \in DataEvent, DataDone(u, r)
      PROVE  TypeOK'
  BY <1>2, <1>6 DEF DataDone, TypeOK
<1>7. ASSUME NEW r \in Request, HostSetup(u, r)
      PROVE  TypeOK'
  <2>1. queue' \in Seq(Packet) /\ Len(queue') <= QueueLen
    BY <1>1, <1>7, QueueType DEF HostSetup
  <2>2. bad' \in [Unit -> 0 .. MaxSess]
    BY <1>7 DEF HostSetup, TypeOK
  <2> QED
    BY <1>7, <2>1, <2>2 DEF HostSetup, TypeOK, task, bus
<1>8. ASSUME HostAnswered(u) \/ HostTimeout(u) \/ HostEarlyTimeout(u)
      PROVE  TypeOK'
  <2>1. QueueOK /\ FieldsOK
    BY DEF TypeOK, QueueOK, FieldsOK
  <2>2. QueueOK'
    BY <1>8, <2>1 DEF HostAnswered, HostTimeout, HostEarlyTimeout, QueueOK, task
  <2>3. HostView(host[u], req[u], ans[u]) \in DeviceState
    BY <2>1 DEF HostView, FieldsOK, DeviceState
  <2>4. FieldsOK'
    <3>1. CASE HostAnswered(u)
      BY <2>1, <2>3, <3>1 DEF HostAnswered, FieldsOK, task
    <3>2. CASE HostTimeout(u)
      BY <2>1, <3>2 DEF HostTimeout, FieldsOK, task, bus
    <3>3. CASE HostEarlyTimeout(u)
      BY <2>1, <3>3 DEF HostEarlyTimeout, FieldsOK, task, bus
    <3> QED
      BY <1>8, <3>1, <3>2, <3>3
  <2> QED
    BY <2>2, <2>4 DEF TypeOK, QueueOK, FieldsOK
<1> QED
  BY <1>3, <1>4, <1>5, <1>6, <1>7, <1>8 DEF Host

LEMMA TaskTypes ==
  ASSUME TypeOK, Task
  PROVE  TypeOK'
<1>1. QueueOK /\ FieldsOK
  BY DEF TypeOK, QueueOK, FieldsOK
<1>2. ASSUME QueueOK', FieldsOK' PROVE TypeOK'
  BY <1>2 DEF TypeOK, QueueOK, FieldsOK
<1>3. CASE Receive
  <2>1. QueueOK'
    BY <1>1, <1>3 DEF Receive, QueueOK
  <2>2. FieldsOK'
    BY <1>1, <1>3 DEF Receive, FieldsOK, control, bus
  <2> QED
    BY <1>2, <2>1, <2>2
<1>4. ASSUME NEW u \in Unit, Execute(u)
      PROVE  TypeOK'
  <2>1. cur # <<>> /\ cur' = <<>> /\ queue' = queue
    BY <1>4 DEF Execute, CbReset, CbEnumerated, CbOtherBusState, CbSetup, CbData, Handles, Working
  <2>2. QueueOK'
    BY <1>1, <2>1 DEF QueueOK
  <2>3. cur[1].sess \in 0 .. MaxSess
    <3>1. cur[1] \in Packet
      BY <1>1, <2>1 DEF QueueOK
    <3> QED
      BY <3>1 DEF Packet
  <2>4. ASSUME CbReset(u) PROVE FieldsOK'
    BY <1>1, <2>3, <2>4 DEF CbReset, FieldsOK, control, bus, DeviceState
  <2>5. ASSUME CbEnumerated(u) PROVE FieldsOK'
    BY <1>1, <2>3, <2>5 DEF CbEnumerated, FieldsOK, control, bus
  <2>6. ASSUME CbOtherBusState(u) PROVE FieldsOK'
    BY <1>1, <2>6 DEF CbOtherBusState, FieldsOK, control, bus
  <2>7. ASSUME NEW c \in ClassStatus, CbSetup(u, c)
        PROVE  FieldsOK'
    <3>1. deviceState' \in [Unit -> DeviceState]
      BY <1>1, <2>7 DEF CbSetup, StandardState, FieldsOK, DeviceState
    <3>2. ans' \in [Unit -> {None, "data", "stall"}]
      BY <1>1, <2>7 DEF CbSetup, Answer, FieldsOK
    <3>3. UNCHANGED <<devSess, classSess, setup, req, sess, phase, host, bad, early>>
      BY <2>7 DEF CbSetup, bus
    <3> QED
      BY <1>1, <3>1, <3>2, <3>3 DEF FieldsOK
  <2>8. ASSUME NEW r \in DataEvent, CbData(u, r)
        PROVE  FieldsOK'
    BY <1>1, <2>8 DEF CbData, FieldsOK, control, bus
  <2>9. FieldsOK'
    BY <1>4, <2>4, <2>5, <2>6, <2>7, <2>8 DEF Execute
  <2> QED
    BY <1>2, <2>2, <2>9
<1> QED
  BY <1>3, <1>4 DEF Task

-----------------------------------------------------------------------------
(***************************************************************************)
(* The host and the controllers.                                           *)
(***************************************************************************)
\* Data in the queue stay in place when something else is added.
LEMMA OtherThanData ==
  ASSUME TypeOK, NEW u \in Unit, UnitInv(u), NEW p \in Packet, Adds(p),
         p.req \notin DataEvent, p.req # "setup",
         deviceState'[u] = deviceState[u], devSess'[u] = devSess[u],
         setup'[u] = setup[u], bad'[u] = bad[u]
  PROVE  DataInPlace(u)'
<1>1. PICK n \in Nat : /\ n = Len(Pending) /\ Len(Pending') = n + 1
                      /\ Pending'[n + 1] = p
                      /\ \A i \in 1 .. n : Pending'[i] = Pending[i]
  BY AddedParts
<1> SUFFICES ASSUME NEW i \in 1 .. n + 1, IsData(u, i)', bad[u] < Pending'[i].sess
             PROVE  /\ devSess[u] = Pending'[i].sess /\ deviceState[u] = "configured"
                    /\ (\E k \in 1 .. i - 1 : Is(u, k, "setup")') => setup[u] \notin {"SetConfig", "Unconfig"}
  BY <1>1 DEF DataInPlace
<1>2. i \in 1 .. n /\ IsData(u, i) /\ Pending'[i] = Pending[i]
  BY <1>1 DEF IsData, Of, DataEvent
<1>3. \A k \in 1 .. i - 1 : Is(u, k, "setup")' => Is(u, k, "setup")
  BY <1>1, <1>2 DEF Is, Of
<1> QED
  BY <1>1, <1>2, <1>3 DEF DataInPlace, UnitInv

LEMMA BusResetStep ==
  ASSUME CoreInv, TypeOK', NEW u \in Unit, BusReset(u)
  PROVE  \A v \in Unit : UnitInv(v)'
<1> DEFINE p == [Pkt(u, "reset") EXCEPT !.sess = @ + 1]
<1>1. TypeOK /\ UnitInv(u)
  BY DEF CoreInv
<1>2. p = [unit |-> u, req |-> "reset", sess |-> sess[u] + 1] /\ sess'[u] = sess[u] + 1
  <2>1. p = [unit |-> u, req |-> "reset", sess |-> sess[u] + 1]
    BY DEF Pkt
  <2>2. sess'[u] = sess[u] + 1
    BY <1>1 DEF BusReset, TypeOK
  <2> QED
    BY <2>1, <2>2
<1>3. p \in Packet
  <2>1. sess[u] + 1 \in 0 .. MaxSess
    BY <1>1 DEF BusReset, TypeOK
  <2> QED
    BY <1>2, <2>1 DEF Packet, BusEvent
<1>4. UsbdcoreCbIsr(p) /\ UNCHANGED cur
  BY DEF BusReset, task
<1>5. /\ deviceState'[u] = deviceState[u] /\ devSess'[u] = devSess[u] /\ classSess'[u] = classSess[u]
      /\ phase'[u] = "reset" /\ host'[u] = "default" /\ req'[u] = None /\ ans'[u] = None
      /\ setup'[u] = setup[u]
      /\ bad'[u] = IF Queued(p) THEN bad[u] ELSE sess'[u]
  BY <1>1, <1>2 DEF BusReset, TypeOK, task
<1> HIDE DEF p
<1>6. ASSUME NEW v \in Unit, v # u PROVE UnitInv(v)'
  <2>1. Same(v)
    BY <1>1, <1>6 DEF BusReset, TypeOK, task, Same
  <2> QED
    BY <1>2, <1>3, <1>4, <1>6, <2>1, OtherUnits
<1>7. ReqIsAllowed(u)'
  BY <1>5 DEF ReqIsAllowed
<1>8. ASSUME Queued(p) PROVE UnitInv(u)'
  <2>1. Adds(p)
    BY <1>1, <1>3, <1>4, <1>8, Sent
  <2>2. /\ Bounded(u)' /\ Ordered(u)' /\ ResetKept(u)'
        /\ EnumeratedKept(u)' /\ EnumeratedFirst(u)' /\ Initialised(u)'
    BY <1>1, <1>2, <1>3, <1>5, <1>8, <2>1, OwnAdded DEF DataEvent
  <2>3. PICK n \in Nat : /\ n = Len(Pending) /\ Len(Pending') = n + 1
                        /\ Pending'[n + 1] = p
                        /\ \A i \in 1 .. n : Pending'[i] = Pending[i]
    BY <1>1, <1>3, <2>1, AddedParts
  <2>4. /\ sess[u] \in Nat /\ devSess[u] \in Nat /\ devSess[u] <= sess[u]
        /\ \A i \in 1 .. n : Of(u, i) => Pending[i].sess <= sess[u] /\ Pending[i].sess \in Nat
    BY <1>1, <2>3, UnitTypes DEF UnitInv, Bounded, Ordered
  <2>5. SetupAlone(u)' /\ SetupIsReq(u)'
    <3>1. \A i \in 1 .. n + 1 : Is(u, i, "setup")' => i \in 1 .. n /\ Is(u, i, "setup")
      BY <1>2, <2>3 DEF Is, Of
    <3>2. SetupAlone(u)'
      BY <1>1, <1>5, <1>8, <2>3, <3>1 DEF SetupAlone, UnitInv
    <3>3. SetupIsReq(u)'
      BY <1>2, <1>5, <2>3, <2>4, <3>1 DEF SetupIsReq, Is
    <3> QED
      BY <3>2, <3>3
  <2>6. HostBehind(u)' /\ HostInStep(u)'
    BY <1>2, <1>5, <1>8, <2>4 DEF HostBehind, HostInStep
  <2>7. DataInPlace(u)'
    BY <1>1, <1>2, <1>3, <1>5, <1>8, <2>1, OtherThanData DEF DataEvent
  <2> QED
    BY <1>7, <2>2, <2>5, <2>6, <2>7 DEF UnitInv
<1>9. ASSUME ~Queued(p) PROVE UnitInv(u)'
  <2>1. Pending' = Pending
    BY <1>1, <1>3, <1>4, <1>9, Sent
  <2>2. sess[u] \in Nat /\ devSess[u] \in Nat /\ classSess[u] \in Nat
        /\ \A i \in 1 .. Len(Pending) : Pending[i].sess \in Nat
    BY <1>1, UnitTypes
  <2>3. Bounded(u)' /\ Ordered(u)'
    <3>1. Bounded(u)'
      BY <1>1, <1>2, <1>5, <1>9, <2>2 DEF Bounded, UnitInv
    <3>2. \A i \in 1 .. Len(Pending') : Of(u, i)' <=> Of(u, i)
      BY <2>1 DEF Of
    <3>3. \A i \in 1 .. Len(Pending) : Of(u, i) => Pending[i].sess <= sess'[u]
      BY <1>1, <1>2, <2>2 DEF Ordered, UnitInv
    <3> QED
      BY <1>1, <1>5, <2>1, <3>1, <3>2, <3>3 DEF Ordered, UnitInv
  <2> QED
    BY <1>5, <1>7, <1>9, <2>3, BadIsEnough
<1> QED
  BY <1>6, <1>8, <1>9

\* A transfer that completes now finds the unit configured, and nothing in the
\* queue will change that.
LEMMA DataFits ==
  ASSUME TypeOK, NEW u \in Unit, UnitInv(u), bad[u] < sess[u],
         host[u] = "configured", req[u] # "Unconfig"
  PROVE  /\ devSess[u] = sess[u] /\ deviceState[u] = "configured"
         /\ (\E k \in 1 .. Len(Pending) : Is(u, k, "setup")) => setup[u] \notin {"SetConfig", "Unconfig"}
<1> USE DEF UnitInv
<1>1. devSess[u] = sess[u]
  BY UnitTypes DEF HostBehind, Bounded
<1>2. req[u] = None \/ req[u] \notin {"SetAddress", "SetConfig", "Unconfig"}
  BY DEF ReqIsAllowed, DeviceState
<1>3. HostView(host[u], req[u], ans[u]) = "configured"
  BY <1>2 DEF HostView, None
<1>4. deviceState[u] = "configured"
  BY <1>1, <1>3 DEF HostInStep
<1>5. ASSUME NEW k \in 1 .. Len(Pending), Is(u, k, "setup")
      PROVE  setup[u] \notin {"SetConfig", "Unconfig"}
  <2>1. Pending[k].sess = sess[u]
    BY <1>1, <1>5, UnitTypes DEF Ordered, Is
  <2>2. req[u] = setup[u]
    BY <1>5, <2>1 DEF SetupIsReq
  <2> QED
    BY <1>2, <2>2 DEF None
<1> QED
  BY <1>1, <1>4, <1>5

LEMMA NotifyStep ==
  ASSUME CoreInv, TypeOK', NEW u \in Unit, NEW r \in (BusEvent \ {"reset"}) \cup DataEvent, Notify(u, r),
         \A v \in Unit : v # u => phase'[v] = phase[v],
         phase'[u] = phase[u] \/ r = "enumerated",
         r \in DataEvent => phase[u] = "up" /\ host[u] = "configured" /\ req[u] # "Unconfig"
  PROVE  \A v \in Unit : UnitInv(v)'
<1>1. TypeOK /\ UnitInv(u)
  BY DEF CoreInv
<1>2. PICK p \in Packet : p = Pkt(u, r) /\ p.unit = u /\ p.req = r /\ p.sess = sess[u]
  <2>1. Pkt(u, r) \in Packet
    BY <1>1 DEF Pkt, Packet, TypeOK
  <2> QED
    BY <2>1 DEF Pkt
<1>3. UsbdcoreCbIsr(p) /\ UNCHANGED cur
  BY <1>2 DEF Notify, task
<1>4. /\ deviceState' = deviceState /\ devSess' = devSess /\ classSess' = classSess
      /\ setup' = setup /\ req' = req /\ ans' = ans /\ sess' = sess /\ host' = host
  BY DEF Notify, task, control
<1>5. bad'[u] = IF Queued(p) \/ r = "suspend" THEN bad[u] ELSE sess[u]
  BY <1>1, <1>2 DEF Notify, TypeOK
<1>6. ASSUME NEW v \in Unit, v # u PROVE UnitInv(v)'
  <2>1. Same(v)
    BY <1>1, <1>4, <1>6 DEF Notify, TypeOK, Same
  <2> QED
    BY <1>2, <1>3, <1>6, <2>1, OtherUnits
<1>7. ASSUME Queued(p) PROVE UnitInv(u)'
  <2>1. Adds(p)
    BY <1>1, <1>3, <1>7, Sent
  <2>2. /\ Bounded(u)' /\ Ordered(u)' /\ ResetKept(u)'
        /\ EnumeratedKept(u)' /\ EnumeratedFirst(u)' /\ Initialised(u)'
    BY <1>1, <1>2, <1>4, <1>5, <1>7, <2>1, OwnAdded DEF BusEvent, DataEvent
  <2>3. PICK n \in Nat : /\ n = Len(Pending) /\ Len(Pending') = n + 1
                        /\ Pending'[n + 1] = p
                        /\ \A i \in 1 .. n : Pending'[i] = Pending[i]
    BY <1>1, <2>1, AddedParts
  <2>4. \A i \in 1 .. n + 1 : Is(u, i, "setup")' => i \in 1 .. n /\ Is(u, i, "setup")
    BY <1>2, <2>3 DEF Is, Of, BusEvent, DataEvent
  <2>5. \A i \in 1 .. n : Is(u, i, "setup") => i \in 1 .. n + 1 /\ Is(u, i, "setup")'
    BY <2>3 DEF Is, Of
  <2>6. SetupAlone(u)' /\ SetupIsReq(u)' /\ ReqIsAllowed(u)'
    BY <1>1, <1>4, <1>5, <1>7, <2>3, <2>4 DEF SetupAlone, SetupIsReq, ReqIsAllowed, UnitInv
  <2>7. HostBehind(u)' /\ HostInStep(u)'
    BY <1>1, <1>4, <1>5, <1>7, <2>3, <2>4, <2>5 DEF HostBehind, HostInStep, UnitInv
  <2>8. DataInPlace(u)'
    <3>1. CASE r \notin DataEvent
      BY <1>1, <1>2, <1>4, <1>5, <1>7, <2>1, <3>1, OtherThanData DEF BusEvent
    <3>2. CASE r \in DataEvent
      <4> SUFFICES ASSUME NEW i \in 1 .. n + 1, IsData(u, i)', bad[u] < Pending'[i].sess
                   PROVE  /\ devSess[u] = Pending'[i].sess /\ deviceState[u] = "configured"
                          /\ (\E k \in 1 .. i - 1 : Is(u, k, "setup")') => setup[u] \notin {"SetConfig", "Unconfig"}
        BY <1>4, <1>5, <1>7, <2>3 DEF DataInPlace
      <4>1. CASE i = n + 1
        <5>1. bad[u] < sess[u] /\ Pending'[i].sess = sess[u]
          BY <1>2, <2>3, <4>1
        <5>2. /\ devSess[u] = sess[u] /\ deviceState[u] = "configured"
              /\ (\E k \in 1 .. n : Is(u, k, "setup")) => setup[u] \notin {"SetConfig", "Unconfig"}
          BY <1>1, <2>3, <3>2, <5>1, DataFits
        <5>3. \A k \in 1 .. i - 1 : k \in 1 .. n + 1 /\ k \in 1 .. n
          BY <4>1
        <5> QED
          BY <2>4, <5>1, <5>2, <5>3
      <4>2. CASE i \in 1 .. n
        <5>1. IsData(u, i) /\ Pending'[i] = Pending[i]
          BY <2>3, <4>2 DEF IsData, Of
        <5>2. \A k \in 1 .. i - 1 : k \in 1 .. n + 1
          BY <4>2
        <5> QED
          BY <1>1, <2>3, <2>4, <4>2, <5>1, <5>2 DEF DataInPlace, UnitInv
      <4> QED
        BY <4>1, <4>2
    <3> QED
      BY <3>1, <3>2
  <2> QED
    BY <2>2, <2>6, <2>7, <2>8 DEF UnitInv
<1>8. ASSUME ~Queued(p) PROVE UnitInv(u)'
  <2>1. Pending' = Pending
    BY <1>1, <1>3, <1>8, Sent
  <2>2. CASE r = "suspend"
    <3>1. Same(u)
      BY <1>4, <1>5, <2>2 DEF Same
    <3> QED
      BY <1>1, <2>1, <3>1, PendingKept
  <2>3. CASE r # "suspend"
    <3>1. Bounded(u)' /\ Ordered(u)' /\ ReqIsAllowed(u)' /\ bad'[u] = sess'[u]
      BY <1>1, <1>4, <1>5, <1>8, <2>1, <2>3, UnitTypes DEF Bounded, Ordered, ReqIsAllowed, UnitInv, Of
    <3> QED
      BY <3>1, BadIsEnough
  <2> QED
    BY <2>2, <2>3
<1> QED
  BY <1>6, <1>7, <1>8

LEMMA HostSetupStep ==
  ASSUME CoreInv, TypeOK', NEW u \in Unit, NEW r \in Request, HostSetup(u, r)
  PROVE  \A v \in Unit : UnitInv(v)'
<1>1. TypeOK /\ UnitInv(u)
  BY DEF CoreInv
<1>2. PICK p \in Packet : p = Pkt(u, "setup") /\ p.unit = u /\ p.req = "setup" /\ p.sess = sess[u]
  <2>1. Pkt(u, "setup") \in Packet
    BY <1>1 DEF Pkt, Packet, TypeOK
  <2> QED
    BY <2>1 DEF Pkt
<1>3. UsbdcoreCbIsr(p) /\ UNCHANGED cur
  BY <1>2 DEF HostSetup, task
<1>4. /\ deviceState' = deviceState /\ devSess' = devSess /\ classSess' = classSess
      /\ sess' = sess /\ host' = host /\ phase' = phase /\ phase[u] = "up"
      /\ req[u] = None /\ req'[u] = r /\ setup'[u] = r /\ ans'[u] = None
      /\ r \in HostRequests[host[u]]
  BY <1>1 DEF HostSetup, task, bus, TypeOK
<1>5. bad'[u] = IF Queued(p) /\ ~SetupWaiting(u) THEN bad[u] ELSE sess[u]
  BY <1>1, <1>2 DEF HostSetup, TypeOK
<1>6. ASSUME NEW v \in Unit, v # u PROVE UnitInv(v)'
  <2>1. Same(v)
    BY <1>1, <1>4, <1>6 DEF HostSetup, TypeOK, Same
  <2> QED
    BY <1>2, <1>3, <1>6, <2>1, OtherUnits
<1>7. ReqIsAllowed(u)'
  BY <1>4 DEF ReqIsAllowed
<1>8. ASSUME Queued(p), ~SetupWaiting(u) PROVE UnitInv(u)'
  <2>1. Adds(p)
    BY <1>1, <1>3, <1>8, Sent
  <2>2. /\ Bounded(u)' /\ Ordered(u)' /\ ResetKept(u)'
        /\ EnumeratedKept(u)' /\ EnumeratedFirst(u)' /\ Initialised(u)'
    BY <1>1, <1>2, <1>4, <1>5, <1>8, <2>1, OwnAdded DEF DataEvent
  <2>3. PICK n \in Nat : /\ n = Len(Pending) /\ Len(Pending') = n + 1
                        /\ Pending'[n + 1] = p
                        /\ \A i \in 1 .. n : Pending'[i] = Pending[i]
    BY <1>1, <2>1, AddedParts
  <2>4. \A i \in 1 .. n : ~Is(u, i, "setup")
    BY <1>1, <1>8, <2>3, SetupWaits
  <2>5. \A i \in 1 .. n + 1 : Is(u, i, "setup")' => i = n + 1
    BY <2>3, <2>4 DEF Is, Of
  <2>6. n + 1 \in 1 .. n + 1 /\ Is(u, n + 1, "setup")'
    BY <1>2, <2>3 DEF Is, Of
  <2>7. SetupAlone(u)' /\ SetupIsReq(u)'
    BY <1>2, <1>4, <2>3, <2>5 DEF SetupAlone, SetupIsReq
  <2>8. HostBehind(u)' /\ HostInStep(u)'
    <3>1. HostBehind(u)'
      BY <1>1, <1>4, <1>5, <1>8 DEF HostBehind, UnitInv
    <3>2. HostView(host[u], None, ans[u]) = host[u]
      BY DEF HostView, None
    <3>3. (bad[u] < sess[u] /\ devSess[u] = sess[u]) => deviceState[u] = host[u]
      BY <1>1, <1>4, <2>3, <2>4, <3>2 DEF HostInStep, UnitInv
    <3>4. \E i \in 1 .. Len(Pending') : Is(u, i, "setup")'
      BY <2>3, <2>6
    <3> QED
      BY <1>4, <1>5, <1>8, <3>1, <3>3, <3>4 DEF HostInStep
  <2>9. DataInPlace(u)'
    <3> SUFFICES ASSUME NEW i \in 1 .. n + 1, IsData(u, i)', bad[u] < Pending'[i].sess
                 PROVE  /\ devSess[u] = Pending'[i].sess /\ deviceState[u] = "configured"
                        /\ \A k \in 1 .. i - 1 : ~Is(u, k, "setup")'
      BY <1>4, <1>5, <1>8, <2>3 DEF DataInPlace
    <3>1. i \in 1 .. n /\ IsData(u, i) /\ Pending'[i] = Pending[i]
      BY <1>2, <2>3 DEF IsData, Of, DataEvent
    <3>2. \A k \in 1 .. i - 1 : k \in 1 .. n + 1 /\ k # n + 1
      BY <3>1
    <3> QED
      BY <1>1, <2>3, <2>5, <3>1, <3>2 DEF DataInPlace, UnitInv
  <2> QED
    BY <1>7, <2>2, <2>7, <2>8, <2>9 DEF UnitInv
<1>9. ASSUME ~Queued(p) \/ SetupWaiting(u) PROVE UnitInv(u)'
  <2>1. CASE Queued(p)
    <3>1. Adds(p)
      BY <1>1, <1>3, <2>1, Sent
    <3>2. PICK n \in Nat : /\ n = Len(Pending) /\ Len(Pending') = n + 1
                          /\ Pending'[n + 1] = p
                          /\ \A i \in 1 .. n : Pending'[i] = Pending[i]
      BY <1>1, <3>1, AddedParts
    <3>3. Bounded(u)' /\ bad'[u] = sess'[u]
      BY <1>1, <1>4, <1>5, <1>9, UnitTypes DEF Bounded, UnitInv
    <3>4. Ordered(u)'
      BY <1>1, <1>2, <1>4, <3>1, OwnOrdered
    <3> QED
      BY <1>7, <3>3, <3>4, BadIsEnough
  <2>2. CASE ~Queued(p)
    <3>1. Pending' = Pending
      BY <1>1, <1>3, <2>2, Sent
    <3>2. Bounded(u)' /\ Ordered(u)' /\ bad'[u] = sess'[u]
      BY <1>1, <1>4, <1>5, <1>9, <3>1, UnitTypes DEF Bounded, Ordered, UnitInv, Of
    <3> QED
      BY <1>7, <3>2, BadIsEnough
  <2> QED
    BY <2>1, <2>2
<1> QED
  BY <1>6, <1>8, <1>9

\* The host takes an answer, or gives up on one, without a packet.
LEMMA HostQuietStep ==
  ASSUME CoreInv, TypeOK', NEW u \in Unit,
         HostAnswered(u) \/ HostTimeout(u) \/ HostEarlyTimeout(u)
  PROVE  \A v \in Unit : UnitInv(v)'
<1>1. TypeOK /\ UnitInv(u)
  BY DEF CoreInv
<1>2. /\ Pending' = Pending /\ req[u] # None /\ req'[u] = None /\ ans'[u] = None
      /\ deviceState' = deviceState /\ devSess' = devSess /\ classSess' = classSess
      /\ setup' = setup /\ sess' = sess /\ phase' = phase
  <2>1. /\ queue' = queue /\ UNCHANGED task /\ setup' = setup /\ sess' = sess /\ phase' = phase
        /\ req[u] # None
    BY DEF HostAnswered, HostTimeout, HostEarlyTimeout, bus
  <2>2. req'[u] = None /\ ans'[u] = None
    BY <1>1 DEF HostAnswered, HostTimeout, HostEarlyTimeout, TypeOK
  <2> QED
    BY <2>1, <2>2 DEF task, Pending
<1>3. ASSUME NEW v \in Unit, v # u PROVE UnitInv(v)'
  <2>1. Same(v)
    <3>1. CASE HostAnswered(u)
      BY <1>1, <1>2, <1>3, <3>1 DEF HostAnswered, TypeOK, Same
    <3>2. CASE HostTimeout(u)
      BY <1>1, <1>2, <1>3, <3>2 DEF HostTimeout, bus, TypeOK, Same
    <3>3. CASE HostEarlyTimeout(u)
      BY <1>1, <1>2, <1>3, <3>3 DEF HostEarlyTimeout, bus, TypeOK, Same
    <3> QED
      BY <3>1, <3>2, <3>3
  <2> QED
    BY <1>1, <1>2, <1>3, <2>1, PendingKept DEF CoreInv
<1>4. ReqIsAllowed(u)'
  BY <1>2 DEF ReqIsAllowed
<1>5. Bounded(u)' /\ Ordered(u)' /\ bad'[u] \in {bad[u], sess[u]}
  <2>1. bad'[u] \in {bad[u], sess[u]}
    BY <1>1 DEF HostAnswered, HostTimeout, HostEarlyTimeout, TypeOK
  <2> QED
    BY <1>1, <1>2, <2>1, UnitTypes DEF Bounded, Ordered, UnitInv, Of
<1>6. CASE HostEarlyTimeout(u)
  <2>1. bad'[u] = sess'[u]
    BY <1>1, <1>6 DEF HostEarlyTimeout, TypeOK, bus
  <2>2. UnitInv(u)'
    BY <1>4, <1>5, <2>1, BadIsEnough
  <2> QED
    BY <1>3, <2>2
<1>7. ASSUME ~HostEarlyTimeout(u) PROVE UnitInv(u)'
  <2>1. bad' = bad /\ host'[u] = HostView(host[u], req[u], ans[u])
    <3>1. HostView(host[u], req[u], None) = host[u]
      BY DEF HostView, None
    <3> QED
      BY <1>1, <1>7, <3>1 DEF HostAnswered, HostTimeout, TypeOK, bus
  <2>2. bad[u] < sess[u] => \A i \in 1 .. Len(Pending) : ~Is(u, i, "setup")
    <3> SUFFICES ASSUME bad[u] < sess[u], NEW i \in 1 .. Len(Pending), Is(u, i, "setup")
                 PROVE  FALSE
      OBVIOUS
    <3>1. SetupWaiting(u)
      BY <1>1, SetupWaits
    <3>2. ans[u] # None
      BY <1>7, <3>1 DEF HostAnswered, HostTimeout
    <3>3. Pending[i].sess # sess[u]
      BY <1>1, <3>2 DEF UnitInv, SetupIsReq
    <3> QED
      BY <1>1, <1>2, <3>3 DEF UnitInv, SetupIsReq
  <2>3. HostBehind(u)' /\ HostInStep(u)'
    <3>1. HostView(host'[u], None, None) = host'[u]
      BY DEF HostView, None
    <3>2. (bad[u] < sess[u] /\ devSess[u] < sess[u]) => host'[u] = "default"
      BY <1>1, <2>1 DEF UnitInv, HostBehind, HostView, None
    <3>3. (bad[u] < sess[u] /\ devSess[u] = sess[u]) => deviceState[u] = host'[u]
      BY <1>1, <2>1, <2>2 DEF UnitInv, HostInStep
    <3>4. bad[u] < sess[u] => \A i \in 1 .. Len(Pending') : ~Is(u, i, "setup")'
      BY <1>2, <2>2 DEF Is, Of
    <3> QED
      BY <1>2, <2>1, <3>1, <3>2, <3>3, <3>4 DEF HostBehind, HostInStep
  <2>4. SetupIsReq(u)'
    BY <1>2, <2>1, <2>2 DEF SetupIsReq, Is, Of
  <2>5. ResetKept(u)' /\ EnumeratedKept(u)' /\ EnumeratedFirst(u)' /\ SetupAlone(u)'
    BY <1>1, <1>2, <2>1
    DEF UnitInv, ResetKept, EnumeratedKept, EnumeratedFirst, SetupAlone, Is, IsData, Of
  <2>6. DataInPlace(u)' /\ Initialised(u)'
    BY <1>1, <1>2, <2>1 DEF UnitInv, DataInPlace, Initialised, Is, IsData, Of
  <2> QED
    BY <1>4, <1>5, <2>3, <2>4, <2>5, <2>6 DEF UnitInv
<1> QED
  BY <1>3, <1>6, <1>7

\* What the host and the controllers do keeps the invariant.
LEMMA HostStep ==
  ASSUME CoreInv, NEW u \in Unit, Host(u)
  PROVE  CoreInv'
<1>1. TypeOK'
  BY HostTypes DEF CoreInv
<1>2. CASE BusReset(u)
  BY <1>1, <1>2, BusResetStep DEF CoreInv
<1>3. CASE Enumerated(u)
  BY <1>1, <1>3, NotifyStep DEF CoreInv, TypeOK, Enumerated, BusEvent, DataEvent
<1>4. CASE Suspend(u)
  BY <1>1, <1>4, NotifyStep DEF CoreInv, Suspend, BusEvent, DataEvent
<1>5. ASSUME NEW r \in DataEvent, DataDone(u, r) PROVE CoreInv'
  BY <1>1, <1>5, NotifyStep DEF CoreInv, DataDone
<1>6. ASSUME NEW r \in Request, HostSetup(u, r) PROVE CoreInv'
  BY <1>1, <1>6, HostSetupStep DEF CoreInv
<1>7. CASE HostAnswered(u) \/ HostTimeout(u) \/ HostEarlyTimeout(u)
  BY <1>1, <1>7, HostQuietStep DEF CoreInv
<1> QED
  BY <1>2, <1>3, <1>4, <1>5, <1>6, <1>7 DEF Host

-----------------------------------------------------------------------------
(***************************************************************************)
(* The task.                                                               *)
(***************************************************************************)
\* The head of Pending is dealt with; n packets are left.
Drops(n) ==
  /\ Len(Pending) = n + 1 /\ Len(Pending') = n
  /\ \A i \in 1 .. n : Pending'[i] = Pending[i + 1]

LEMMA ExecuteDrops ==
  ASSUME TypeOK, NEW u \in Unit, Execute(u)
  PROVE  \E n \in Nat : Drops(n) /\ Working(u) /\ Pending[1] = cur[1] /\ Of(u, 1)
<1>1. cur # <<>> /\ cur' = <<>> /\ UNCHANGED queue /\ Working(u)
  BY DEF Execute, CbReset, CbEnumerated, CbOtherBusState, CbSetup, CbData, Handles, Working
<1>2. Len(Pending) \in Nat \ {0} /\ Pending[1] = cur[1] /\ Len(Pending') = Len(Pending) - 1
      /\ \A i \in 1 .. Len(Pending') : Pending'[i] = Pending[i + 1]
  BY <1>1, Removed
<1>3. Drops(Len(Pending) - 1) /\ Len(Pending) - 1 \in Nat /\ Of(u, 1)
  BY <1>1, <1>2 DEF Drops, Of, Working
<1> QED
  BY <1>1, <1>2, <1>3

\* How positions move when the head goes.
LEMMA Moved ==
  ASSUME NEW n \in Nat, Drops(n), NEW u \in Unit
  PROVE  /\ \A i \in 1 .. n :
              /\ i + 1 \in 1 .. Len(Pending) /\ i \in 1 .. Len(Pending')
              /\ Pending'[i] = Pending[i + 1]
              /\ (IsData(u, i)' <=> IsData(u, i + 1))
              /\ \A r : (Is(u, i, r)' <=> Is(u, i + 1, r))
         /\ \A i \in 1 .. n + 1 : i # 1 =>
              /\ i - 1 \in 1 .. n /\ Pending'[i - 1] = Pending[i]
              /\ \A r : Is(u, i, r) => Is(u, i - 1, r)'
<1>1. Len(Pending) = n + 1 /\ Len(Pending') = n /\ \A i \in 1 .. n : Pending'[i] = Pending[i + 1]
  BY DEF Drops
<1>2. ASSUME NEW i \in 1 .. n
      PROVE  /\ i + 1 \in 1 .. Len(Pending) /\ i \in 1 .. Len(Pending')
             /\ Pending'[i] = Pending[i + 1]
             /\ (IsData(u, i)' <=> IsData(u, i + 1))
             /\ \A r : (Is(u, i, r)' <=> Is(u, i + 1, r))
  BY <1>1 DEF Of, Is, IsData
<1>3. ASSUME NEW i \in 1 .. n + 1, i # 1
      PROVE  /\ i - 1 \in 1 .. n /\ Pending'[i - 1] = Pending[i]
             /\ \A r : Is(u, i, r) => Is(u, i - 1, r)'
  <2>1. i - 1 \in 1 .. n /\ i = (i - 1) + 1
    BY <1>3
  <2>2. Pending'[i - 1] = Pending[(i - 1) + 1]
    BY <1>1, <2>1
  <2> QED
    BY <1>1, <2>1, <2>2 DEF Of, Is
<1> QED
  BY <1>2, <1>3

LEMMA SetupsMoved ==
  ASSUME NEW n \in Nat, Drops(n), NEW u \in Unit, ~Is(u, 1, "setup")
  PROVE  (\E i \in 1 .. Len(Pending) : Is(u, i, "setup")) <=> (\E i \in 1 .. n : Is(u, i, "setup")')
<1>1. Len(Pending) = n + 1
  BY DEF Drops
<1>2. ASSUME NEW i \in 1 .. n + 1, Is(u, i, "setup")
      PROVE  \E k \in 1 .. n : Is(u, k, "setup")'
  <2>1. i # 1
    BY <1>2
  <2>2. i - 1 \in 1 .. n /\ Is(u, i - 1, "setup")'
    BY <1>2, <2>1, Moved
  <2> QED
    BY <2>2
<1>3. ASSUME NEW i \in 1 .. n, Is(u, i, "setup")'
      PROVE  \E k \in 1 .. n + 1 : Is(u, k, "setup")
  <2>1. i + 1 \in 1 .. n + 1 /\ Is(u, i + 1, "setup")
    BY <1>3, Moved
  <2> QED
    BY <2>1
<1> QED
  BY <1>1, <1>2, <1>3

\* The head, unless it is a reset, is of the session the task is in.
LEMMA HeadSession ==
  ASSUME TypeOK, NEW u \in Unit, UnitInv(u), Of(u, 1),
         Pending[1].req # "reset", bad[u] < Pending[1].sess
  PROVE  devSess[u] = Pending[1].sess
<1> DEFINE s == Pending[1].sess
<1>1. /\ bad[u] \in Nat /\ sess[u] \in Nat /\ devSess[u] \in Nat /\ s \in Nat
      /\ devSess[u] <= s /\ s <= sess[u]
  BY UnitTypes DEF UnitInv, Ordered, Of
<1>2. s \in bad[u] + 1 .. sess[u]
  BY <1>1
<1>3. ~ \E k \in 1 .. Len(Pending) : Is(u, k, "reset") /\ Pending[k].sess = s
  <2> SUFFICES ASSUME NEW k \in 1 .. Len(Pending), Is(u, k, "reset"), Pending[k].sess = s
               PROVE  FALSE
    OBVIOUS
  <2>1. 1 < k /\ Of(u, k) /\ Pending[k].req = "reset"
    BY DEF Is
  <2>2. s < Pending[k].sess
    BY <2>1 DEF UnitInv, Ordered, Of
  <2> QED
    BY <1>1, <2>2
<1> QED
  BY <1>1, <1>2, <1>3 DEF UnitInv, ResetKept

\* What is left when the head goes is in order still.
LEMMA OrderDropped ==
  ASSUME TypeOK, NEW u \in Unit, UnitInv(u), NEW n \in Nat, Drops(n), sess'[u] = sess[u],
         devSess'[u] = devSess[u] \/ (Of(u, 1) /\ devSess'[u] = Pending[1].sess),
         classSess'[u] = classSess[u] \/ (Of(u, 1) /\ classSess'[u] = Pending[1].sess)
  PROVE  Ordered(u)'
<1>1. Len(Pending) = n + 1 /\ Len(Pending') = n /\ \A i \in 1 .. n : Pending'[i] = Pending[i + 1]
  BY DEF Drops
<1>2. \A i \in 1 .. n : Of(u, i)' =>
        Of(u, i + 1) /\ i + 1 \in 1 .. Len(Pending) /\ Pending'[i] = Pending[i + 1] /\ 1 < i + 1
  BY <1>1 DEF Of
<1>3. ASSUME NEW i \in 1 .. n, Of(u, i)'
      PROVE  /\ devSess'[u] <= Pending'[i].sess /\ classSess'[u] <= Pending'[i].sess
             /\ Pending'[i].sess <= sess'[u]
             /\ Pending'[i].req = "reset" => devSess'[u] < Pending'[i].sess
  <2>1. Of(u, i + 1) /\ i + 1 \in 1 .. Len(Pending) /\ Pending'[i] = Pending[i + 1]
    BY <1>2, <1>3
  <2>2. Of(u, 1) => /\ Pending[1].sess <= Pending[i + 1].sess
                    /\ Pending[i + 1].req = "reset" => Pending[1].sess < Pending[i + 1].sess
    <3>1. 1 \in 1 .. Len(Pending) /\ 1 < i + 1
      BY <1>1
    <3> QED
      BY <2>1, <3>1 DEF UnitInv, Ordered
  <2> QED
    BY <2>1, <2>2 DEF UnitInv, Ordered
<1>4. ASSUME NEW i \in 1 .. n, NEW j \in 1 .. n, Of(u, i)', Of(u, j)', i < j
      PROVE  /\ Pending'[i].sess <= Pending'[j].sess
             /\ Pending'[j].req = "reset" => Pending'[i].sess < Pending'[j].sess
  <2>1. i + 1 < j + 1
    BY <1>4
  <2> QED
    BY <1>2, <1>4, <2>1 DEF UnitInv, Ordered
<1> QED
  BY <1>1, <1>3, <1>4 DEF Ordered

LEMMA DroppedOrder ==
  ASSUME TypeOK, NEW u \in Unit, UnitInv(u), NEW n \in Nat, Drops(n),
         ~Is(u, 1, "reset"), ~Is(u, 1, "enumerated"),
         devSess'[u] = devSess[u], classSess'[u] = classSess[u],
         sess'[u] = sess[u], bad'[u] = bad[u], phase'[u] = phase[u]
  PROVE  /\ Bounded(u)' /\ Ordered(u)' /\ ResetKept(u)'
         /\ EnumeratedKept(u)' /\ EnumeratedFirst(u)'
<1>1. Len(Pending) = n + 1 /\ Len(Pending') = n /\ \A i \in 1 .. n : Pending'[i] = Pending[i + 1]
  BY DEF Drops
<1>2. Bounded(u)'
  BY DEF UnitInv, Bounded
<1>3. Ordered(u)'
  BY OrderDropped
<1>4. ResetKept(u)'
  <2> SUFFICES ASSUME NEW s \in bad[u] + 1 .. sess[u], ~(s <= devSess[u])
               PROVE  \E k \in 1 .. n : Is(u, k, "reset")' /\ Pending'[k].sess = s
    BY <1>1 DEF ResetKept
  <2>1. PICK k \in 1 .. n + 1 : Is(u, k, "reset") /\ Pending[k].sess = s
    BY <1>1 DEF UnitInv, ResetKept
  <2>2. k - 1 \in 1 .. n /\ Is(u, k - 1, "reset")' /\ Pending'[k - 1].sess = s
    BY <2>1, Moved
  <2> QED
    BY <2>2
<1>5. EnumeratedKept(u)'
  <2> SUFFICES ASSUME phase[u] = "up", bad[u] < sess[u], classSess[u] # sess[u]
               PROVE  \E k \in 1 .. n : Is(u, k, "enumerated")' /\ Pending'[k].sess = sess[u]
    BY <1>1 DEF EnumeratedKept
  <2>1. PICK k \in 1 .. n + 1 : Is(u, k, "enumerated") /\ Pending[k].sess = sess[u]
    BY <1>1 DEF UnitInv, EnumeratedKept
  <2>2. k - 1 \in 1 .. n /\ Is(u, k - 1, "enumerated")' /\ Pending'[k - 1].sess = sess[u]
    BY <2>1, Moved
  <2> QED
    BY <2>2
<1>6. EnumeratedFirst(u)'
  <2> SUFFICES ASSUME NEW i \in 1 .. n, Is(u, i, "setup")' \/ IsData(u, i)',
                      bad[u] < Pending'[i].sess, classSess[u] # Pending'[i].sess
               PROVE  \E k \in 1 .. i - 1 : Is(u, k, "enumerated")' /\ Pending'[k].sess = Pending'[i].sess
    BY <1>1 DEF EnumeratedFirst
  <2>1. /\ i + 1 \in 1 .. Len(Pending) /\ Pending'[i] = Pending[i + 1]
        /\ Is(u, i + 1, "setup") \/ IsData(u, i + 1)
    BY <1>1, Moved
  <2>2. PICK k \in 1 .. i + 1 - 1 : Is(u, k, "enumerated") /\ Pending[k].sess = Pending[i + 1].sess
    BY <2>1 DEF UnitInv, EnumeratedFirst
  <2>3. k \in 1 .. n + 1 /\ k # 1
    BY <2>2
  <2>4. k - 1 \in 1 .. i - 1 /\ Is(u, k - 1, "enumerated")' /\ Pending'[k - 1] = Pending[k]
    <3>1. k - 1 \in 1 .. i - 1
      BY <2>2, <2>3
    <3> QED
      BY <2>2, <2>3, <3>1, Moved
  <2> QED
    BY <2>1, <2>2, <2>4
<1> QED
  BY <1>2, <1>3, <1>4, <1>5, <1>6

\* A SETUP that is alone stays alone; data stay where they are.
LEMMA DroppedSetups ==
  ASSUME TypeOK, NEW u \in Unit, UnitInv(u), NEW n \in Nat, Drops(n), bad'[u] = bad[u]
  PROVE  SetupAlone(u)'
<1>1. Len(Pending) = n + 1 /\ Len(Pending') = n /\ \A i \in 1 .. n : Pending'[i] = Pending[i + 1]
  BY DEF Drops
<1> SUFFICES ASSUME NEW i \in 1 .. n, NEW j \in 1 .. n, Is(u, i, "setup")',
                    bad[u] < Pending'[i].sess, Is(u, j, "setup")'
             PROVE  i = j
  BY <1>1 DEF SetupAlone
<1>2. Is(u, i + 1, "setup") /\ Is(u, j + 1, "setup") /\ bad[u] < Pending[i + 1].sess
      /\ i + 1 \in 1 .. Len(Pending) /\ j + 1 \in 1 .. Len(Pending)
  BY <1>1, Moved
<1>3. i + 1 = j + 1
  BY <1>2 DEF UnitInv, SetupAlone
<1> QED
  BY <1>3

\* A packet that is no business of the unit's, or that changes nothing.
LEMMA DropKeeps ==
  ASSUME TypeOK, NEW u \in Unit, UnitInv(u), Same(u), NEW n \in Nat, Drops(n),
         ~Is(u, 1, "reset"), ~Is(u, 1, "enumerated"), ~Is(u, 1, "setup")
  PROVE  UnitInv(u)'
<1>1. Len(Pending) = n + 1 /\ Len(Pending') = n /\ \A i \in 1 .. n : Pending'[i] = Pending[i + 1]
  BY DEF Drops
<1> USE DEF Same
<1>2. /\ Bounded(u)' /\ Ordered(u)' /\ ResetKept(u)'
      /\ EnumeratedKept(u)' /\ EnumeratedFirst(u)' /\ SetupAlone(u)'
  BY DroppedOrder, DroppedSetups
<1>3. (\E i \in 1 .. Len(Pending) : Is(u, i, "setup")) <=> (\E i \in 1 .. n : Is(u, i, "setup")')
  BY SetupsMoved
<1>4. SetupIsReq(u)' /\ ReqIsAllowed(u)'
  <2>1. SetupIsReq(u)'
    <3> SUFFICES ASSUME bad[u] < sess[u], NEW i \in 1 .. n, Is(u, i, "setup")'
                 PROVE  IF Pending'[i].sess = sess[u] THEN req[u] = setup[u] /\ ans[u] = None
                                                      ELSE req[u] = None
      BY <1>1 DEF SetupIsReq
    <3>1. Is(u, i + 1, "setup") /\ i + 1 \in 1 .. Len(Pending) /\ Pending'[i] = Pending[i + 1]
      BY Moved
    <3> QED
      BY <3>1 DEF UnitInv, SetupIsReq
  <2> QED
    BY <2>1 DEF UnitInv, ReqIsAllowed
<1>5. HostBehind(u)' /\ HostInStep(u)' /\ Initialised(u)'
  BY <1>1, <1>3 DEF UnitInv, HostBehind, HostInStep, Initialised
<1>6. DataInPlace(u)'
  <2> SUFFICES ASSUME NEW i \in 1 .. n, IsData(u, i)', bad[u] < Pending'[i].sess
               PROVE  /\ devSess[u] = Pending'[i].sess /\ deviceState[u] = "configured"
                      /\ (\E k \in 1 .. i - 1 : Is(u, k, "setup")') => setup[u] \notin {"SetConfig", "Unconfig"}
    BY <1>1 DEF DataInPlace
  <2>1. IsData(u, i + 1) /\ i + 1 \in 1 .. Len(Pending) /\ Pending'[i] = Pending[i + 1]
    BY <1>1, Moved
  <2>2. \A k \in 1 .. i - 1 : Is(u, k, "setup")' => k + 1 \in 1 .. i + 1 - 1 /\ Is(u, k + 1, "setup")
    BY Moved
  <2> QED
    BY <2>1, <2>2 DEF UnitInv, DataInPlace
<1> QED
  BY <1>2, <1>4, <1>5, <1>6 DEF UnitInv

LEMMA CbResetStep ==
  ASSUME CoreInv, NEW u \in Unit, CbReset(u), NEW n \in Nat, Drops(n), Of(u, 1), Pending[1] = cur[1]
  PROVE  UnitInv(u)'
<1>1. TypeOK /\ UnitInv(u)
  BY DEF CoreInv
<1>2. PICK s \in Nat : s = Pending[1].sess
  BY <1>1, UnitTypes DEF Of
<1>3. /\ devSess'[u] = s /\ deviceState'[u] = "default" /\ classSess'[u] = classSess[u]
      /\ sess'[u] = sess[u] /\ bad'[u] = bad[u] /\ phase'[u] = phase[u] /\ setup'[u] = setup[u]
      /\ host'[u] = host[u] /\ req'[u] = req[u] /\ ans'[u] = ans[u] /\ Is(u, 1, "reset")
  BY <1>1, <1>2 DEF CbReset, Handles, control, bus, TypeOK, Is
<1>4. Len(Pending) = n + 1 /\ Len(Pending') = n /\ \A i \in 1 .. n : Pending'[i] = Pending[i + 1]
  BY DEF Drops
<1>5. /\ bad[u] \in Nat /\ sess[u] \in Nat /\ devSess[u] \in Nat /\ classSess[u] \in Nat
      /\ devSess[u] < s /\ s <= sess[u]
      /\ \A i \in 1 .. n + 1 : Of(u, i) => s <= Pending[i].sess /\ Pending[i].sess \in Nat
  <2>1. 1 \in 1 .. Len(Pending)
    BY <1>4
  <2>2. devSess[u] < s /\ s <= sess[u]
    BY <1>1, <1>2, <1>3, <2>1 DEF UnitInv, Ordered, Is
  <2>3. \A i \in 1 .. n + 1 : (Of(u, i) /\ 1 < i) => s <= Pending[i].sess
    BY <1>1, <1>2, <1>4, <2>1 DEF UnitInv, Ordered
  <2>4. \A i \in 1 .. n + 1 : i = 1 \/ 1 < i
    OBVIOUS
  <2>5. \A i \in 1 .. n + 1 : Of(u, i) => s <= Pending[i].sess
    BY <1>2, <2>3, <2>4
  <2> QED
    BY <1>1, <1>4, <2>2, <2>5, UnitTypes
<1>6. Ordered(u)' /\ Bounded(u)' /\ SetupAlone(u)' /\ ReqIsAllowed(u)'
  <2>1. Bounded(u)' /\ ReqIsAllowed(u)'
    BY <1>1, <1>3, <1>5 DEF UnitInv, Bounded, ReqIsAllowed
  <2> QED
    BY <1>1, <1>2, <1>3, <2>1, OrderDropped, DroppedSetups
<1>7. ResetKept(u)'
  <2> SUFFICES ASSUME NEW t \in bad[u] + 1 .. sess[u], ~(t <= s)
               PROVE  \E k \in 1 .. n : Is(u, k, "reset")' /\ Pending'[k].sess = t
    BY <1>3, <1>4 DEF ResetKept
  <2>1. ~(t <= devSess[u])
    BY <1>5
  <2>2. PICK k \in 1 .. n + 1 : Is(u, k, "reset") /\ Pending[k].sess = t
    BY <1>1, <1>4, <2>1 DEF UnitInv, ResetKept
  <2>3. k # 1
    BY <1>2, <2>2
  <2>4. k - 1 \in 1 .. n /\ Is(u, k - 1, "reset")' /\ Pending'[k - 1].sess = t
    BY <2>2, <2>3, Moved
  <2> QED
    BY <2>4
<1>8. EnumeratedKept(u)'
  <2> SUFFICES ASSUME phase[u] = "up", bad[u] < sess[u], classSess[u] # sess[u]
               PROVE  \E k \in 1 .. n : Is(u, k, "enumerated")' /\ Pending'[k].sess = sess[u]
    BY <1>3, <1>4 DEF EnumeratedKept
  <2>1. PICK k \in 1 .. n + 1 : Is(u, k, "enumerated") /\ Pending[k].sess = sess[u]
    BY <1>1, <1>4 DEF UnitInv, EnumeratedKept
  <2>2. k # 1
    BY <1>3, <2>1 DEF Is
  <2>3. k - 1 \in 1 .. n /\ Is(u, k - 1, "enumerated")' /\ Pending'[k - 1].sess = sess[u]
    BY <2>1, <2>2, Moved
  <2> QED
    BY <2>3
<1>9. EnumeratedFirst(u)'
  <2> SUFFICES ASSUME NEW i \in 1 .. n, Is(u, i, "setup")' \/ IsData(u, i)',
                      bad[u] < Pending'[i].sess, classSess[u] # Pending'[i].sess
               PROVE  \E k \in 1 .. i - 1 : Is(u, k, "enumerated")' /\ Pending'[k].sess = Pending'[i].sess
    BY <1>3, <1>4 DEF EnumeratedFirst
  <2>1. /\ i + 1 \in 1 .. Len(Pending) /\ Pending'[i] = Pending[i + 1]
        /\ Is(u, i + 1, "setup") \/ IsData(u, i + 1)
    BY <1>4, Moved
  <2>2. PICK k \in 1 .. i + 1 - 1 : Is(u, k, "enumerated") /\ Pending[k].sess = Pending[i + 1].sess
    BY <1>1, <2>1 DEF UnitInv, EnumeratedFirst
  <2>3. k \in 1 .. n + 1 /\ k # 1
    BY <1>3, <2>2 DEF Is
  <2>4. k - 1 \in 1 .. i - 1 /\ Is(u, k - 1, "enumerated")' /\ Pending'[k - 1] = Pending[k]
    <3>1. k - 1 \in 1 .. i - 1
      BY <2>2, <2>3
    <3> QED
      BY <2>2, <2>3, <3>1, Moved
  <2> QED
    BY <2>1, <2>2, <2>4
<1>10. SetupIsReq(u)'
  <2> SUFFICES ASSUME bad[u] < sess[u], NEW i \in 1 .. n, Is(u, i, "setup")'
               PROVE  IF Pending'[i].sess = sess[u] THEN req[u] = setup[u] /\ ans[u] = None
                                                    ELSE req[u] = None
    BY <1>3, <1>4 DEF SetupIsReq
  <2>1. Is(u, i + 1, "setup") /\ i + 1 \in 1 .. Len(Pending) /\ Pending'[i] = Pending[i + 1]
    BY Moved
  <2> QED
    BY <1>1, <2>1 DEF UnitInv, SetupIsReq
<1>11. HostBehind(u)' /\ HostInStep(u)'
  <2>1. bad[u] < sess[u] => host[u] = "default" /\ ans[u] = None
    BY <1>1, <1>5 DEF UnitInv, HostBehind
  <2>2. HostView("default", req[u], None) = "default"
    BY DEF HostView, None
  <2> QED
    BY <1>3, <2>1, <2>2 DEF HostBehind, HostInStep
<1>12. DataInPlace(u)' /\ Initialised(u)'
  <2>1. Initialised(u)'
    BY <1>3 DEF Initialised
  <2>2. ASSUME NEW i \in 1 .. n, IsData(u, i)', bad[u] < Pending'[i].sess
        PROVE  FALSE
    <3>1. IsData(u, i + 1) /\ i + 1 \in 1 .. n + 1 /\ Pending'[i] = Pending[i + 1]
      BY <1>4, <2>2, Moved
    <3>2. devSess[u] = Pending[i + 1].sess
      BY <1>1, <1>4, <2>2, <3>1 DEF UnitInv, DataInPlace
    <3> QED
      BY <1>5, <3>1, <3>2 DEF IsData
  <2>3. DataInPlace(u)'
    BY <1>3, <1>4, <2>2 DEF DataInPlace
  <2> QED
    BY <2>1, <2>3
<1> QED
  BY <1>6, <1>7, <1>8, <1>9, <1>10, <1>11, <1>12 DEF UnitInv

LEMMA CbEnumeratedStep ==
  ASSUME CoreInv, NEW u \in Unit, CbEnumerated(u), NEW n \in Nat, Drops(n), Of(u, 1), Pending[1] = cur[1]
  PROVE  UnitInv(u)'
<1>1. TypeOK /\ UnitInv(u)
  BY DEF CoreInv
<1>2. PICK s \in Nat : s = Pending[1].sess
  BY <1>1, UnitTypes DEF Of
<1>3. /\ classSess'[u] = s /\ deviceState'[u] = deviceState[u] /\ devSess'[u] = devSess[u]
      /\ sess'[u] = sess[u] /\ bad'[u] = bad[u] /\ phase'[u] = phase[u] /\ setup'[u] = setup[u]
      /\ host'[u] = host[u] /\ req'[u] = req[u] /\ ans'[u] = ans[u] /\ Is(u, 1, "enumerated")
  BY <1>1, <1>2 DEF CbEnumerated, Handles, control, bus, TypeOK, Is
<1>4. Len(Pending) = n + 1 /\ Len(Pending') = n /\ \A i \in 1 .. n : Pending'[i] = Pending[i + 1]
  BY DEF Drops
<1>5. /\ bad[u] \in Nat /\ sess[u] \in Nat /\ devSess[u] \in Nat /\ classSess[u] \in Nat
      /\ devSess[u] <= s /\ classSess[u] <= s /\ s <= sess[u]
      /\ \A i \in 1 .. n + 1 : Of(u, i) => s <= Pending[i].sess /\ Pending[i].sess \in Nat
  <2>1. 1 \in 1 .. Len(Pending)
    BY <1>4
  <2>2. devSess[u] <= s /\ classSess[u] <= s /\ s <= sess[u]
    BY <1>1, <1>2, <2>1 DEF UnitInv, Ordered
  <2>3. \A i \in 1 .. n + 1 : (Of(u, i) /\ 1 < i) => s <= Pending[i].sess
    BY <1>1, <1>2, <1>4, <2>1 DEF UnitInv, Ordered
  <2>4. \A i \in 1 .. n + 1 : i = 1 \/ 1 < i
    OBVIOUS
  <2>5. \A i \in 1 .. n + 1 : Of(u, i) => s <= Pending[i].sess
    BY <1>2, <2>3, <2>4
  <2> QED
    BY <1>1, <1>4, <2>2, <2>5, UnitTypes
<1>6. Ordered(u)' /\ Bounded(u)' /\ SetupAlone(u)' /\ ReqIsAllowed(u)'
  <2>1. Bounded(u)' /\ ReqIsAllowed(u)'
    BY <1>1, <1>3, <1>5 DEF UnitInv, Bounded, ReqIsAllowed
  <2> QED
    BY <1>1, <1>2, <1>3, <2>1, OrderDropped, DroppedSetups
<1>7. ResetKept(u)'
  <2> SUFFICES ASSUME NEW t \in bad[u] + 1 .. sess[u], ~(t <= devSess[u])
               PROVE  \E k \in 1 .. n : Is(u, k, "reset")' /\ Pending'[k].sess = t
    BY <1>3, <1>4 DEF ResetKept
  <2>1. PICK k \in 1 .. n + 1 : Is(u, k, "reset") /\ Pending[k].sess = t
    BY <1>1, <1>4 DEF UnitInv, ResetKept
  <2>2. k # 1
    BY <1>3, <2>1 DEF Is
  <2>3. k - 1 \in 1 .. n /\ Is(u, k - 1, "reset")' /\ Pending'[k - 1].sess = t
    BY <2>1, <2>2, Moved
  <2> QED
    BY <2>3
<1>8. EnumeratedKept(u)'
  <2> SUFFICES ASSUME phase[u] = "up", bad[u] < sess[u], s # sess[u]
               PROVE  \E k \in 1 .. n : Is(u, k, "enumerated")' /\ Pending'[k].sess = sess[u]
    BY <1>3, <1>4 DEF EnumeratedKept
  <2>1. classSess[u] # sess[u]
    BY <1>5
  <2>2. PICK k \in 1 .. n + 1 : Is(u, k, "enumerated") /\ Pending[k].sess = sess[u]
    BY <1>1, <1>4, <2>1 DEF UnitInv, EnumeratedKept
  <2>3. k # 1
    BY <1>2, <2>2
  <2>4. k - 1 \in 1 .. n /\ Is(u, k - 1, "enumerated")' /\ Pending'[k - 1].sess = sess[u]
    BY <2>2, <2>3, Moved
  <2> QED
    BY <2>4
<1>9. EnumeratedFirst(u)'
  <2> SUFFICES ASSUME NEW i \in 1 .. n, Is(u, i, "setup")' \/ IsData(u, i)',
                      bad[u] < Pending'[i].sess, s # Pending'[i].sess
               PROVE  \E k \in 1 .. i - 1 : Is(u, k, "enumerated")' /\ Pending'[k].sess = Pending'[i].sess
    BY <1>3, <1>4 DEF EnumeratedFirst
  <2>1. /\ i + 1 \in 1 .. Len(Pending) /\ Pending'[i] = Pending[i + 1]
        /\ Is(u, i + 1, "setup") \/ IsData(u, i + 1)
    BY <1>4, Moved
  <2>2. Of(u, i + 1)
    BY <2>1 DEF Is, IsData
  <2>3. classSess[u] # Pending[i + 1].sess
    BY <1>4, <1>5, <2>1, <2>2
  <2>4. PICK k \in 1 .. i + 1 - 1 : Is(u, k, "enumerated") /\ Pending[k].sess = Pending[i + 1].sess
    BY <1>1, <2>1, <2>3 DEF UnitInv, EnumeratedFirst
  <2>5. k \in 1 .. n + 1 /\ k # 1
    BY <1>2, <2>1, <2>4
  <2>6. k - 1 \in 1 .. i - 1 /\ Is(u, k - 1, "enumerated")' /\ Pending'[k - 1] = Pending[k]
    <3>1. k - 1 \in 1 .. i - 1
      BY <2>4, <2>5
    <3> QED
      BY <2>4, <2>5, <3>1, Moved
  <2> QED
    BY <2>1, <2>4, <2>6
<1>10. SetupIsReq(u)'
  <2> SUFFICES ASSUME bad[u] < sess[u], NEW i \in 1 .. n, Is(u, i, "setup")'
               PROVE  IF Pending'[i].sess = sess[u] THEN req[u] = setup[u] /\ ans[u] = None
                                                    ELSE req[u] = None
    BY <1>3, <1>4 DEF SetupIsReq
  <2>1. Is(u, i + 1, "setup") /\ i + 1 \in 1 .. Len(Pending) /\ Pending'[i] = Pending[i + 1]
    BY Moved
  <2> QED
    BY <1>1, <2>1 DEF UnitInv, SetupIsReq
<1>11. HostBehind(u)' /\ HostInStep(u)'
  <2>1. (\E i \in 1 .. Len(Pending) : Is(u, i, "setup")) <=> (\E i \in 1 .. n : Is(u, i, "setup")')
    <3>1. ~Is(u, 1, "setup")
      BY <1>3 DEF Is
    <3> QED
      BY <3>1, SetupsMoved
  <2> QED
    BY <1>1, <1>3, <1>4, <2>1 DEF UnitInv, HostBehind, HostInStep
<1>12. DataInPlace(u)'
  <2> SUFFICES ASSUME NEW i \in 1 .. n, IsData(u, i)', bad[u] < Pending'[i].sess
               PROVE  /\ devSess[u] = Pending'[i].sess /\ deviceState[u] = "configured"
                      /\ (\E k \in 1 .. i - 1 : Is(u, k, "setup")') => setup[u] \notin {"SetConfig", "Unconfig"}
    BY <1>3, <1>4 DEF DataInPlace
  <2>1. IsData(u, i + 1) /\ i + 1 \in 1 .. Len(Pending) /\ Pending'[i] = Pending[i + 1]
    BY <1>4, Moved
  <2>2. \A k \in 1 .. i - 1 : Is(u, k, "setup")' => k + 1 \in 1 .. i + 1 - 1 /\ Is(u, k + 1, "setup")
    BY Moved
  <2> QED
    BY <1>1, <2>1, <2>2 DEF UnitInv, DataInPlace
<1>13. Initialised(u)'
  <2>1. Pending[1].req # "reset"
    BY <1>3 DEF Is
  <2>2. bad[u] < devSess[u] => devSess[u] = s
    BY <1>1, <1>2, <1>5, <2>1, HeadSession
  <2> QED
    BY <1>3, <2>2 DEF Initialised
<1> QED
  BY <1>6, <1>7, <1>8, <1>9, <1>10, <1>11, <1>12, <1>13 DEF UnitInv

\* A request the host makes takes the device where the host then believes it.
LEMMA StateFollowsAnswer ==
  ASSUME NEW h \in DeviceState, NEW r \in HostRequests[h], NEW c \in ClassStatus
  PROVE  StandardState(h, r) = HostView(h, r, Answer(SetupStatus(h, r, c)))
<1>1. r \in Request /\ h \in {"default", "addressed", "configured"}
  BY DEF DeviceState
<1>2. r \in {"SetAddress", "SetConfig", "Unconfig", "GetDescriptor", "BadDescriptor",
             "DeviceFeature", "ClassRequest"}
  BY <1>1 DEF Request
<1>3. CASE r = "SetAddress"
  BY <1>1, <1>3 DEF StandardState, HostView, Answer, SetupStatus, StandardStatus, U8, SUCCESS, STALL, None
<1>4. CASE r = "SetConfig"
  BY <1>1, <1>4 DEF StandardState, HostView, Answer, SetupStatus, StandardStatus, U8, SUCCESS, STALL, None
<1>5. CASE r = "Unconfig"
  BY <1>1, <1>5 DEF StandardState, HostView, Answer, SetupStatus, StandardStatus, U8, SUCCESS, STALL, None
<1>6. CASE r \notin {"SetAddress", "SetConfig", "Unconfig"}
  BY <1>6 DEF StandardState, HostView
<1> QED
  BY <1>3, <1>4, <1>5, <1>6

LEMMA CbSetupStep ==
  ASSUME CoreInv, NEW u \in Unit, NEW c \in ClassStatus, CbSetup(u, c),
         NEW n \in Nat, Drops(n), Of(u, 1), Pending[1] = cur[1]
  PROVE  UnitInv(u)'
<1>1. TypeOK /\ UnitInv(u)
  BY DEF CoreInv
<1>2. PICK s \in Nat : s = Pending[1].sess
  BY <1>1, UnitTypes DEF Of
<1>3. /\ devSess'[u] = devSess[u] /\ classSess'[u] = classSess[u]
      /\ sess'[u] = sess[u] /\ bad'[u] = bad[u] /\ phase'[u] = phase[u] /\ setup'[u] = setup[u]
      /\ host'[u] = host[u] /\ req'[u] = req[u] /\ Is(u, 1, "setup")
      /\ deviceState'[u] = StandardState(deviceState[u], setup[u])
      /\ ans'[u] = IF req[u] = None THEN None ELSE Answer(SetupStatus(deviceState[u], setup[u], c))
  BY <1>1 DEF CbSetup, Handles, bus, TypeOK, Is
<1>4. Len(Pending) = n + 1 /\ Len(Pending') = n /\ \A i \in 1 .. n : Pending'[i] = Pending[i + 1]
  BY DEF Drops
<1>5. /\ bad[u] \in Nat /\ sess[u] \in Nat /\ devSess[u] \in Nat /\ classSess[u] \in Nat
      /\ devSess[u] <= s /\ s <= sess[u] /\ 1 \in 1 .. Len(Pending)
  <2>1. 1 \in 1 .. Len(Pending)
    BY <1>4
  <2>2. devSess[u] <= s /\ s <= sess[u]
    BY <1>1, <1>2, <2>1 DEF UnitInv, Ordered
  <2> QED
    BY <1>1, <2>1, <2>2, UnitTypes
<1>6. ~Is(u, 1, "reset") /\ ~Is(u, 1, "enumerated")
  BY <1>3 DEF Is
<1>7. bad[u] < s => devSess[u] = s
  BY <1>1, <1>2, <1>3, HeadSession DEF Is
<1>8. /\ Bounded(u)' /\ Ordered(u)' /\ ResetKept(u)'
      /\ EnumeratedKept(u)' /\ EnumeratedFirst(u)' /\ SetupAlone(u)' /\ ReqIsAllowed(u)'
  <2>1. /\ Bounded(u)' /\ Ordered(u)' /\ ResetKept(u)'
        /\ EnumeratedKept(u)' /\ EnumeratedFirst(u)' /\ SetupAlone(u)'
    BY <1>1, <1>3, <1>6, DroppedOrder, DroppedSetups
  <2> QED
    BY <1>1, <1>3, <2>1 DEF UnitInv, ReqIsAllowed
<1>9. ASSUME NEW i \in 1 .. n, Is(u, i, "setup")'
      PROVE  /\ Is(u, i + 1, "setup") /\ i + 1 \in 1 .. Len(Pending) /\ Pending'[i] = Pending[i + 1]
             /\ ~(bad[u] < Pending[i + 1].sess)
  <2>1. Is(u, i + 1, "setup") /\ i + 1 \in 1 .. Len(Pending) /\ Pending'[i] = Pending[i + 1] /\ i + 1 # 1
    BY <1>4, <1>9, Moved
  <2> QED
    BY <1>1, <1>3, <1>5, <2>1 DEF UnitInv, SetupAlone
<1>10. SetupIsReq(u)'
  <2> SUFFICES ASSUME bad[u] < sess[u], NEW i \in 1 .. n, Is(u, i, "setup")'
               PROVE  Pending'[i].sess # sess[u] /\ req[u] = None
    BY <1>3, <1>4 DEF SetupIsReq
  <2>1. /\ Is(u, i + 1, "setup") /\ i + 1 \in 1 .. Len(Pending) /\ Pending'[i] = Pending[i + 1]
        /\ Pending[i + 1].sess # sess[u]
    BY <1>9
  <2> QED
    BY <1>1, <2>1 DEF UnitInv, SetupIsReq
<1>11. HostBehind(u)'
  <2> SUFFICES ASSUME bad[u] < sess[u], devSess[u] < sess[u]
               PROVE  host[u] = "default" /\ ans'[u] = None
    BY <1>3 DEF HostBehind
  <2>1. s # sess[u]
    BY <1>7
  <2>2. req[u] = None
    BY <1>1, <1>2, <1>3, <1>5, <2>1 DEF UnitInv, SetupIsReq
  <2> QED
    BY <1>1, <1>3, <2>2 DEF UnitInv, HostBehind
<1>12. HostInStep(u)'
  <2> SUFFICES ASSUME bad[u] < sess[u], devSess[u] = sess[u]
               PROVE  /\ deviceState'[u] = HostView(host[u], req[u], ans'[u])
                      /\ \A i \in 1 .. n : ~Is(u, i, "setup")'
    BY <1>3, <1>4 DEF HostInStep
  <2>1. s = sess[u]
    BY <1>5
  <2>2. req[u] = setup[u] /\ setup[u] \in Request /\ req[u] # None
    <3>1. req[u] = setup[u] /\ setup[u] \in Request
      BY <1>1, <1>2, <1>3, <1>5, <2>1 DEF UnitInv, SetupIsReq, TypeOK
    <3> QED
      BY <3>1 DEF Request, None
  <2>3. deviceState[u] = host[u] /\ host[u] \in DeviceState /\ req[u] \in HostRequests[host[u]]
    BY <1>1, <1>3, <1>5, <2>2 DEF UnitInv, HostInStep, ReqIsAllowed, TypeOK
  <2>4. StandardState(host[u], req[u]) = HostView(host[u], req[u], Answer(SetupStatus(host[u], req[u], c)))
    BY <2>3, StateFollowsAnswer
  <2>5. ASSUME NEW i \in 1 .. n, Is(u, i, "setup")'
        PROVE  FALSE
    <3>1. Is(u, i + 1, "setup") /\ i + 1 \in 1 .. Len(Pending) /\ 1 < i + 1
          /\ ~(bad[u] < Pending[i + 1].sess)
      BY <1>9, <2>5
    <3>2. s <= Pending[i + 1].sess
      BY <1>1, <1>2, <1>5, <3>1 DEF UnitInv, Ordered, Is
    <3> QED
      BY <1>1, <1>5, <2>1, <3>1, <3>2, UnitTypes
  <2> QED
    BY <1>3, <2>2, <2>3, <2>4, <2>5
<1>13. DataInPlace(u)'
  <2> SUFFICES ASSUME NEW i \in 1 .. n, IsData(u, i)', bad[u] < Pending'[i].sess
               PROVE  /\ devSess[u] = Pending'[i].sess /\ deviceState'[u] = "configured"
                      /\ setup[u] \notin {"SetConfig", "Unconfig"}
    BY <1>3, <1>4 DEF DataInPlace
  <2>1. IsData(u, i + 1) /\ i + 1 \in 1 .. Len(Pending) /\ Pending'[i] = Pending[i + 1]
        /\ 1 \in 1 .. i + 1 - 1
    BY <1>4, Moved
  <2>2. /\ devSess[u] = Pending[i + 1].sess /\ deviceState[u] = "configured"
        /\ setup[u] \notin {"SetConfig", "Unconfig"}
    BY <1>1, <1>3, <2>1 DEF UnitInv, DataInPlace
  <2>3. StandardState("configured", setup[u]) = "configured"
    BY <2>2 DEF StandardState
  <2> QED
    BY <1>3, <2>1, <2>2, <2>3
<1>14. Initialised(u)'
  <2>1. bad[u] < devSess[u] => devSess[u] = s /\ bad[u] < s
    BY <1>5, <1>7
  <2>2. bad[u] < s => classSess[u] = s
    BY <1>1, <1>2, <1>3, <1>5 DEF UnitInv, EnumeratedFirst
  <2> QED
    BY <1>3, <2>1, <2>2 DEF Initialised
<1> QED
  BY <1>8, <1>10, <1>11, <1>12, <1>13, <1>14 DEF UnitInv

\* What the task does keeps the invariant.
LEMMA TaskStep ==
  ASSUME CoreInv, Task
  PROVE  CoreInv'
<1>1. TypeOK /\ TypeOK'
  BY TaskTypes DEF CoreInv
<1>2. CASE Receive
  <2>1. ASSUME NEW v \in Unit PROVE UnitInv(v)'
    <3>1. Same(v) /\ UnitInv(v) /\ Pending' = Pending
      BY <1>1, <1>2, Received DEF Receive, control, bus, Same, CoreInv
    <3> QED
      BY <1>1, <3>1, PendingKept
  <2> QED
    BY <1>1, <2>1 DEF CoreInv
<1>3. ASSUME NEW u \in Unit, Execute(u)
      PROVE  CoreInv'
  <2>1. PICK n \in Nat : Drops(n) /\ Working(u) /\ Pending[1] = cur[1] /\ Of(u, 1)
    BY <1>1, <1>3, ExecuteDrops
  <2>2. ASSUME NEW v \in Unit, v # u PROVE UnitInv(v)'
    <3>1. /\ deviceState'[v] = deviceState[v] /\ devSess'[v] = devSess[v]
          /\ classSess'[v] = classSess[v] /\ ans'[v] = ans[v]
      <4>1. CASE CbReset(u)
        BY <1>1, <2>2, <4>1 DEF CbReset, control, TypeOK
      <4>2. CASE CbEnumerated(u)
        BY <1>1, <2>2, <4>2 DEF CbEnumerated, control, TypeOK
      <4>3. ASSUME NEW c \in ClassStatus, CbSetup(u, c)
            PROVE  /\ deviceState'[v] = deviceState[v] /\ devSess'[v] = devSess[v]
                   /\ classSess'[v] = classSess[v] /\ ans'[v] = ans[v]
        BY <1>1, <2>2, <4>3 DEF CbSetup, TypeOK
      <4>4. ASSUME CbOtherBusState(u) \/ \E r \in DataEvent : CbData(u, r)
            PROVE  UNCHANGED <<deviceState, devSess, classSess, ans>>
        BY <4>4 DEF CbOtherBusState, CbData, control
      <4> QED
        BY <1>3, <4>1, <4>2, <4>3, <4>4 DEF Execute
    <3>2. UNCHANGED <<setup, sess, phase, host, req, bad>>
      BY <1>3 DEF Execute, CbReset, CbEnumerated, CbOtherBusState, CbSetup, CbData, control, bus
    <3>3. Same(v)
      BY <3>1, <3>2 DEF Same
    <3>4. ~Of(v, 1)
      BY <2>1, <2>2 DEF Of
    <3> QED
      BY <1>1, <2>1, <3>3, <3>4, DropKeeps DEF CoreInv, Is
  <2>3. UnitInv(u)'
    <3>1. CASE CbReset(u)
      BY <2>1, <3>1, CbResetStep
    <3>2. CASE CbEnumerated(u)
      BY <2>1, <3>2, CbEnumeratedStep
    <3>3. ASSUME NEW c \in ClassStatus, CbSetup(u, c) PROVE UnitInv(u)'
      BY <2>1, <3>3, CbSetupStep
    <3>4. ASSUME CbOtherBusState(u) \/ \E r \in DataEvent : CbData(u, r) PROVE UnitInv(u)'
      <4>1. Same(u) /\ Pending[1].req \notin {"reset", "enumerated", "setup"}
        BY <2>1, <3>4 DEF CbOtherBusState, CbData, Handles, control, bus, Same, DataEvent
      <4> QED
        BY <1>1, <2>1, <4>1, DropKeeps DEF CoreInv, Is
    <3> QED
      BY <1>3, <3>1, <3>2, <3>3, <3>4 DEF Execute
  <2> QED
    BY <1>1, <2>2, <2>3 DEF CoreInv
<1> QED
  BY <1>2, <1>3 DEF Task

-----------------------------------------------------------------------------
(***************************************************************************)
(* The theorems.                                                           *)
(***************************************************************************)
LEMMA CoreInit == Init => CoreInv
<1> SUFFICES ASSUME Init PROVE CoreInv
  OBVIOUS
<1>1. Pending = <<>> /\ Len(Pending) = 0
  BY DEF Init, Pending
<1>2. TypeOK
  BY DEF Init, TypeOK, DeviceState, Request, None
<1>3. ASSUME NEW u \in Unit PROVE UnitInv(u)
  <2>1. /\ bad[u] = 0 /\ sess[u] = 0 /\ devSess[u] = 0 /\ classSess[u] = 0
        /\ req[u] = None /\ phase[u] = "off" /\ deviceState[u] = "default"
    BY DEF Init
  <2>2. Bounded(u) /\ Ordered(u) /\ ResetKept(u) /\ EnumeratedKept(u) /\ EnumeratedFirst(u)
    BY <1>1, <2>1 DEF Bounded, Ordered, ResetKept, EnumeratedKept, EnumeratedFirst
  <2>3. SetupAlone(u) /\ SetupIsReq(u) /\ ReqIsAllowed(u)
    BY <1>1, <2>1 DEF SetupAlone, SetupIsReq, ReqIsAllowed
  <2>4. HostBehind(u) /\ HostInStep(u) /\ DataInPlace(u) /\ Initialised(u)
    BY <1>1, <2>1 DEF HostBehind, HostInStep, DataInPlace, Initialised
  <2> QED
    BY <2>2, <2>3, <2>4 DEF UnitInv
<1> QED
  BY <1>2, <1>3 DEF CoreInv

\* The invariant holds in every state the core can reach.
THEOREM CoreInvariant == Spec => []CoreInv
<1>1. CoreInv /\ [Next]_vars => CoreInv'
  <2> SUFFICES ASSUME CoreInv, [Next]_vars PROVE CoreInv'
    OBVIOUS
  <2>1. CASE Task
    BY <2>1, TaskStep
  <2>2. ASSUME NEW u \in Unit, Host(u) PROVE CoreInv'
    BY <2>2, HostStep
  <2>3. CASE UNCHANGED vars
    <3>1. TypeOK' /\ Pending' = Pending /\ \A u \in Unit : Same(u)
      BY <2>3 DEF CoreInv, TypeOK, vars, task, control, bus, Pending, Same
    <3> QED
      BY <3>1, PendingKept DEF CoreInv
  <2> QED
    BY <2>1, <2>2, <2>3 DEF Next
<1> QED
  BY <1>1, CoreInit, PTL DEF Spec

\* Every variable keeps its type; the queue never holds more than QueueLen
\* packets, whatever the interrupts send.
THEOREM CoreTypes == Spec => []TypeOK
<1>1. CoreInv => TypeOK
  BY DEF CoreInv
<1> QED
  BY <1>1, CoreInvariant, PTL

\* The device state follows the host's belief (UsbdcoreCbBusState, UsbdcoreCbSetup).
THEOREM HostIsFollowed == Spec => []HostAgrees
<1>1. ASSUME CoreInv, NEW u \in Unit,
             Waiting(u) = {}, req[u] = None, bad[u] < sess[u]
      PROVE  devSess[u] = sess[u] /\ deviceState[u] = host[u]
  <2>1. TypeOK /\ UnitInv(u)
    BY <1>1 DEF CoreInv
  <2>2. \A k \in 1 .. Len(Pending) : ~Of(u, k)
    <3>1. DOMAIN Pending = 1 .. Len(Pending)
      BY <2>1, PendingType
    <3> QED
      BY <1>1, <3>1 DEF Waiting, Of
  <2>3. sess[u] \in bad[u] + 1 .. sess[u]
    BY <1>1, <2>1, UnitTypes
  <2>4. devSess[u] = sess[u]
    BY <2>1, <2>2, <2>3, UnitTypes DEF UnitInv, ResetKept, Bounded, Is
  <2>5. HostView(host[u], None, ans[u]) = host[u]
    BY DEF HostView, None
  <2> QED
    BY <1>1, <2>1, <2>2, <2>4, <2>5 DEF UnitInv, HostInStep, Is
<1>2. CoreInv => HostAgrees
  BY <1>1 DEF HostAgrees
<1> QED
  BY <1>2, CoreInvariant, PTL

\* A configured unit's classes were initialised in the same session
\* (UsbifCbInit is reached before SET_CONFIGURATION).
THEOREM ClassesFirst == Spec => []ConfiguredIsInitialised
<1>1. CoreInv => ConfiguredIsInitialised
  BY DEF CoreInv, UnitInv, Initialised, ConfiguredIsInitialised, Clean
<1> QED
  BY <1>1, CoreInvariant, PTL

\* The packet the task works on heads Pending; when nothing was lost it is of
\* the session the task is in, unless it begins one.
LEMMA WorkedOn ==
  ASSUME CoreInv, NEW u \in Unit, Working(u), cur[1].req \in DataEvent, Clean(u)
  PROVE  /\ cur[1].sess = devSess[u] /\ 1 \in 1 .. Len(Pending) /\ IsData(u, 1)
         /\ bad[u] < Pending[1].sess
<1>1. TypeOK /\ UnitInv(u)
  BY DEF CoreInv
<1>2. Len(Pending) \in Nat \ {0} /\ Pending[1] = cur[1]
  BY <1>1 DEF Working, Pending, TypeOK
<1>3. 1 \in 1 .. Len(Pending) /\ Of(u, 1) /\ IsData(u, 1) /\ Pending[1].req # "reset"
  BY <1>2 DEF Of, IsData, Working, DataEvent
<1>4. bad[u] < Pending[1].sess
  BY <1>1, <1>3, UnitTypes DEF UnitInv, Ordered, Clean
<1>5. devSess[u] = Pending[1].sess
  BY <1>1, <1>3, <1>4, HeadSession
<1> QED
  BY <1>2, <1>3, <1>4, <1>5

\* No class is handed a transfer of an earlier session (UsbdcoreCbDataOut,
\* UsbdcoreCbDataInDone).
THEOREM NothingStale == Spec => []NoStaleDelivery
<1>1. CoreInv => NoStaleDelivery
  BY WorkedOn DEF NoStaleDelivery
<1> QED
  BY <1>1, CoreInvariant, PTL

\* No completed transfer of a configured device is thrown away.
THEOREM CompletionsArrive == Spec => []CompletionReachesClass
<1>1. ASSUME CoreInv, NEW u \in Unit, Working(u), cur[1].req \in DataEvent, Clean(u)
      PROVE  Delivers(u)
  BY <1>1, WorkedOn DEF CoreInv, UnitInv, DataInPlace, Delivers
<1>2. CoreInv => CompletionReachesClass
  BY <1>1 DEF CompletionReachesClass
<1> QED
  BY <1>2, CoreInvariant, PTL

\* An answer never runs ahead of the device (UsbdcoreCbSetup changes the state
\* before it answers, and nothing changes it back until the host has seen it).
THEOREM AnswersAreTrue == Spec => []AnswerIsTrue
<1>1. ASSUME CoreInv, NEW u \in Unit, bad[u] < sess[u], ans[u] # None
      PROVE  deviceState[u] = HostView(host[u], req[u], ans[u])
  <2>1. TypeOK /\ UnitInv(u)
    BY <1>1 DEF CoreInv
  <2>2. devSess[u] = sess[u]
    BY <1>1, <2>1, UnitTypes DEF UnitInv, HostBehind, Bounded
  <2>3. ASSUME NEW i \in 1 .. Len(Pending), Is(u, i, "setup")
        PROVE  FALSE
    <3>1. Pending[i].sess = sess[u]
      BY <2>1, <2>2, <2>3, UnitTypes DEF UnitInv, Ordered, Is
    <3> QED
      BY <1>1, <2>1, <2>3, <3>1 DEF UnitInv, SetupIsReq
  <2> QED
    BY <1>1, <2>1, <2>2, <2>3 DEF UnitInv, HostInStep
<1>2. CoreInv => AnswerIsTrue
  BY <1>1 DEF AnswerIsTrue
<1> QED
  BY <1>2, CoreInvariant, PTL

=============================================================================
