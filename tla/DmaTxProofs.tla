----------------------------- MODULE DmaTxProofs -----------------------------
(***************************************************************************)
(* Theorems about DmaTx, for every number of descriptors and devices, and     *)
(* about NapiPoll, for every budget and number of frames.                    *)
(*                                                                          *)
(* The positions of the ring are compared by their distance from deqPos.    *)
(* Inv, the types and RingConsistent, is inductive: one lemma for each of   *)
(* Enqueue, HwTransmits and Dequeue, which use no more of the modulus       *)
(* than NextPosWraps.  The other theorems add to it what they are about.    *)
(*                                                                          *)
(* That the poll function forgets no frame is because of where it stands      *)
(* whenever one is not announced by a status bit (LookInv), a status bit has  *)
(* no edge (EdgeInv), or an interrupt is masked (MaskInv).                   *)
(***************************************************************************)
EXTENDS DmaTx, NapiPoll, FiniteSetTheorems, SequenceTheorems, TLAPS

\* The modulus only wraps the last position to the first (edge_com_dma.c:310).
LEMMA NextPosWraps ==
  ASSUME NEW p \in Positions
  PROVE  NextPos(p) = IF p = DescCnt - 1 THEN 0 ELSE p + 1
BY DmaTxAssumption, SMT DEF NextPos, Positions

\* An empty ring satisfies the invariant.
LEMMA RingInvInit == Init => Inv
BY DmaTxAssumption DEF Init, Inv, TypeOK, RingConsistent, Dist, Positions


\* A frame is queued behind the others (edge_com_dma.c:308-318).
LEMMA EnqueueKeepsRing ==
  ASSUME Inv, NEW d \in Devices, Enqueue(d)
  PROVE  RingConsistent' /\ enqPos' \in Positions /\ cnt' \in 0..(DescCnt - 1)
         /\ slot' \in [Positions -> Devices \cup {NoFrame}]
         /\ initBit' \in [Positions -> BOOLEAN]
<1>1. enqPos \in Positions /\ deqPos \in Positions /\ hwPos \in Positions
      /\ cnt \in 0..(DescCnt - 1) /\ cnt < DescCnt - 1
  BY DEF Inv, TypeOK, Enqueue, Room
<1>2. slot \in [Positions -> Devices \cup {NoFrame}] /\ initBit \in [Positions -> BOOLEAN]
  BY DEF Inv, TypeOK
<1>3. enqPos' = IF enqPos = DescCnt - 1 THEN 0 ELSE enqPos + 1
  BY <1>1, NextPosWraps DEF Enqueue
<1>4. cnt' = cnt + 1 /\ deqPos' = deqPos /\ hwPos' = hwPos
  BY DEF Enqueue
<1>5. \A p \in Positions : Dist(p)' = Dist(p)
  BY <1>4 DEF Dist
<1>6. Dist(enqPos) = cnt /\ Dist(hwPos) <= cnt
  BY DEF Inv, RingConsistent
<1>7. enqPos' \in Positions /\ cnt' \in 0..(DescCnt - 1)
  BY <1>1, <1>3, <1>4, DmaTxAssumption DEF Positions
<1>8. Dist(enqPos)' = cnt' /\ Dist(hwPos)' <= cnt'
  BY <1>1, <1>3, <1>4, <1>6, DmaTxAssumption DEF Positions, Dist
<1>9. \A p \in Positions : Dist(p) = cnt <=> p = enqPos
  BY <1>1, <1>6, DmaTxAssumption DEF Positions, Dist
<1>10. \A p \in Positions : Dist(p) \in 0..(DescCnt - 1)
  BY <1>1, DmaTxAssumption DEF Positions, Dist
<1>11. ASSUME NEW p \in Positions
       PROVE  /\ slot'[p] # NoFrame <=> Dist(p) < cnt + 1
              /\ initBit'[p] <=> Dist(p) < cnt + 1 /\ Dist(hwPos) <= Dist(p)
  <2>1. /\ slot[p] # NoFrame <=> Dist(p) < cnt
        /\ initBit[p] <=> Dist(p) < cnt /\ Dist(hwPos) <= Dist(p)
    BY DEF Inv, RingConsistent
  <2>2. Dist(p) \in Int /\ cnt \in Int
    BY <1>1, <1>10
  <2>3. CASE p = enqPos
    <3>1. slot'[p] # NoFrame /\ initBit'[p]
      BY <2>3, <1>2, DmaTxAssumption DEF Enqueue
    <3>2. Dist(p) < cnt + 1 /\ Dist(hwPos) <= Dist(p)
      BY <2>3, <2>2, <1>6, <1>9
    <3> QED BY <3>1, <3>2
  <2>4. CASE p # enqPos
    <3>1. slot'[p] = slot[p] /\ initBit'[p] = initBit[p]
      BY <2>4, <1>2 DEF Enqueue
    <3>2. Dist(p) < cnt + 1 <=> Dist(p) < cnt
      BY <2>2, <2>4, <1>9
    <3> QED BY <3>1, <3>2, <2>1
  <2> QED BY <2>3, <2>4
<1>12. RingConsistent'
  BY <1>4, <1>5, <1>8, <1>11, <1>1 DEF RingConsistent
<1>13. slot' \in [Positions -> Devices \cup {NoFrame}] /\ initBit' \in [Positions -> BOOLEAN]
  BY <1>2 DEF Enqueue
<1> QED BY <1>7, <1>12, <1>13

\* The hardware gives back its oldest descriptor.
LEMMA TransmitKeepsRing ==
  ASSUME Inv, HwTransmits
  PROVE  RingConsistent' /\ hwPos' \in Positions /\ initBit' \in [Positions -> BOOLEAN]
         /\ Dist(hwPos) < cnt /\ Dist(hwPos)' = Dist(hwPos) + 1
<1>1. enqPos \in Positions /\ deqPos \in Positions /\ hwPos \in Positions
      /\ cnt \in 0..(DescCnt - 1)
  BY DEF Inv, TypeOK
<1>2. initBit \in [Positions -> BOOLEAN]
  BY DEF Inv, TypeOK
<1>3. hwPos' = IF hwPos = DescCnt - 1 THEN 0 ELSE hwPos + 1
  BY <1>1, NextPosWraps DEF HwTransmits
<1>4. cnt' = cnt /\ deqPos' = deqPos /\ enqPos' = enqPos /\ slot' = slot
  BY DEF HwTransmits
<1>5. \A p \in Positions : Dist(p)' = Dist(p)
  BY <1>4 DEF Dist
<1>6. Dist(hwPos) < cnt
  BY <1>1 DEF Inv, RingConsistent, HwTransmits
<1>7. hwPos' \in Positions
  BY <1>1, <1>3, DmaTxAssumption DEF Positions
<1>8. Dist(hwPos)' = Dist(hwPos) + 1
  BY <1>1, <1>3, <1>4, <1>6, DmaTxAssumption DEF Positions, Dist
<1>9. \A p \in Positions : Dist(p) \in Int /\ (Dist(p) = Dist(hwPos) <=> p = hwPos)
  BY <1>1, DmaTxAssumption DEF Positions, Dist
<1>10. ASSUME NEW p \in Positions
       PROVE  initBit'[p] <=> Dist(p) < cnt /\ Dist(hwPos) + 1 <= Dist(p)
  <2>1. initBit[p] <=> Dist(p) < cnt /\ Dist(hwPos) <= Dist(p)
    BY DEF Inv, RingConsistent
  <2>2. Dist(p) \in Int /\ Dist(hwPos) \in Int
    BY <1>1, <1>9
  <2>3. CASE p = hwPos
    <3>1. ~initBit'[p]
      BY <2>3, <1>2 DEF HwTransmits
    <3>2. ~(Dist(hwPos) + 1 <= Dist(p))
      BY <2>3, <2>2
    <3> QED BY <3>1, <3>2
  <2>4. CASE p # hwPos
    <3>1. initBit'[p] = initBit[p]
      BY <2>4, <1>2 DEF HwTransmits
    <3>2. Dist(hwPos) + 1 <= Dist(p) <=> Dist(hwPos) <= Dist(p)
      BY <2>2, <2>4, <1>1, <1>9
    <3> QED BY <3>1, <3>2, <2>1
  <2> QED BY <2>3, <2>4
<1>11. Dist(enqPos)' = cnt' /\ Dist(hwPos)' <= cnt'
  BY <1>1, <1>4, <1>5, <1>6, <1>8, <1>9 DEF Inv, RingConsistent
<1>12. ASSUME NEW p \in Positions
       PROVE  slot'[p] # NoFrame <=> Dist(p)' < cnt'
  BY <1>4, <1>5 DEF Inv, RingConsistent
<1>13. RingConsistent'
  BY <1>4, <1>5, <1>8, <1>10, <1>11, <1>12 DEF RingConsistent
<1>14. initBit' \in [Positions -> BOOLEAN]
  BY <1>2 DEF HwTransmits
<1> QED BY <1>6, <1>7, <1>8, <1>13, <1>14

\* The oldest frame is released (edge_com_dma.c:343-384).
LEMMA DequeueKeepsRing ==
  ASSUME Inv, Dequeue
  PROVE  RingConsistent' /\ deqPos' \in Positions /\ cnt' \in 0..(DescCnt - 1)
         /\ slot' \in [Positions -> Devices \cup {NoFrame}]
         /\ Dist(hwPos) > 0 /\ Dist(hwPos)' = Dist(hwPos) - 1
<1>1. enqPos \in Positions /\ deqPos \in Positions /\ hwPos \in Positions
      /\ cnt \in 0..(DescCnt - 1) /\ cnt # 0
  BY DEF Inv, TypeOK, Dequeue
<1>2. slot \in [Positions -> Devices \cup {NoFrame}]
  BY DEF Inv, TypeOK
<1>3. deqPos' = IF deqPos = DescCnt - 1 THEN 0 ELSE deqPos + 1
  BY <1>1, NextPosWraps DEF Dequeue
<1>4. cnt' = cnt - 1 /\ hwPos' = hwPos /\ enqPos' = enqPos /\ initBit' = initBit
  BY DEF Dequeue
<1>5. \A p \in Positions : Dist(p)' = IF p = deqPos THEN DescCnt - 1 ELSE Dist(p) - 1
  BY <1>1, <1>3, DmaTxAssumption DEF Positions, Dist
<1>6. Dist(deqPos) = 0
  BY <1>1 DEF Positions, Dist
<1>7. hwPos # deqPos
  <2>1. initBit[deqPos] <=> Dist(deqPos) < cnt /\ Dist(hwPos) <= Dist(deqPos)
    BY <1>1 DEF Inv, RingConsistent
  <2>2. ~initBit[deqPos]
    BY DEF Dequeue
  <2> QED BY <2>1, <2>2, <1>1, <1>6
<1>8. \A p \in Positions : Dist(p) \in Int /\ Dist(p) < DescCnt /\ (p # deqPos => Dist(p) > 0)
  BY <1>1, DmaTxAssumption DEF Positions, Dist
<1>9. Dist(enqPos) = cnt /\ Dist(hwPos) <= cnt
  BY DEF Inv, RingConsistent
<1>10. enqPos # deqPos
  BY <1>1, <1>6, <1>9
<1>11. Dist(hwPos) > 0 /\ Dist(hwPos)' = Dist(hwPos) - 1
  BY <1>1, <1>4, <1>5, <1>7, <1>8
<1>12. Dist(enqPos)' = cnt' /\ Dist(hwPos)' <= cnt'
  BY <1>1, <1>4, <1>5, <1>8, <1>9, <1>10, <1>11
<1>13. ASSUME NEW p \in Positions
       PROVE  /\ slot'[p] # NoFrame <=> Dist(p)' < cnt'
              /\ initBit[p] <=> Dist(p)' < cnt' /\ Dist(hwPos)' <= Dist(p)'
  <2>1. /\ slot[p] # NoFrame <=> Dist(p) < cnt
        /\ initBit[p] <=> Dist(p) < cnt /\ Dist(hwPos) <= Dist(p)
    BY DEF Inv, RingConsistent
  <2>2. CASE p = deqPos
    <3>1. slot'[p] = NoFrame /\ ~initBit[p]
      BY <2>2, <1>2 DEF Dequeue
    <3>2. ~(Dist(p)' < cnt')
      BY <2>2, <1>1, <1>4, <1>5, DmaTxAssumption
    <3> QED BY <3>1, <3>2
  <2>3. CASE p # deqPos
    <3>1. slot'[p] = slot[p]
      BY <2>3, <1>2 DEF Dequeue
    <3>2. Dist(p)' = Dist(p) - 1
      BY <2>3, <1>5
    <3>3. Dist(p)' < cnt' <=> Dist(p) < cnt
      BY <3>2, <1>1, <1>4, <1>8
    <3>4. Dist(hwPos)' <= Dist(p)' <=> Dist(hwPos) <= Dist(p)
      BY <3>2, <1>1, <1>8, <1>11
    <3> QED BY <3>1, <3>3, <3>4, <2>1
  <2> QED BY <2>2, <2>3
<1>14. RingConsistent'
  BY <1>4, <1>12, <1>13 DEF RingConsistent
<1>15. deqPos' \in Positions /\ cnt' \in 0..(DescCnt - 1)
  BY <1>1, <1>3, <1>4, DmaTxAssumption DEF Positions
<1>16. slot' \in [Positions -> Devices \cup {NoFrame}]
  BY <1>2 DEF Dequeue
<1> QED BY <1>11, <1>14, <1>15, <1>16

-----------------------------------------------------------------------------
\* Stopping a device changes no ring, and the fifo is never longer than its size.
LEMMA StopDeviceType ==
  ASSUME TypeOK, NEW d \in Devices, StopDevice(d)
  PROVE  /\ pending' \in Seq(Devices) /\ Len(pending') <= MaxPending
         /\ stopped' \subseteq Devices
BY DmaTxAssumption DEF TypeOK, StopDevice

\* Nor does waking one.
LEMMA WakeType ==
  ASSUME TypeOK, Wake
  PROVE  /\ pending' \in Seq(Devices) /\ Len(pending') <= MaxPending
         /\ stopped' \subseteq Devices
<1>1. CASE pending = <<>>
  BY <1>1 DEF TypeOK, Wake, waiters
<1>2. CASE pending # <<>>
  <2>1. pending \in Seq(Devices) /\ pending' = Tail(pending)
    BY <1>2 DEF TypeOK, Wake
  <2>2. Tail(pending) \in Seq(Devices) /\ Len(Tail(pending)) = Len(pending) - 1
    BY <1>2, <2>1
  <2> QED BY <1>2, <2>1, <2>2, DmaTxAssumption DEF TypeOK, Wake
<1> QED BY <1>1, <1>2

\* The ring does not change, in a step that leaves its variables alone.
LEMMA RingUnchanged ==
  ASSUME Inv, UNCHANGED ring
  PROVE  /\ RingConsistent'
         /\ enqPos' \in Positions /\ deqPos' \in Positions /\ hwPos' \in Positions
         /\ cnt' \in 0..(DescCnt - 1)
         /\ slot' \in [Positions -> Devices \cup {NoFrame}]
         /\ initBit' \in [Positions -> BOOLEAN]
<1>1. \A p \in Positions : Dist(p)' = Dist(p)
  BY DEF ring, Dist
<1>2. Dist(enqPos)' = Dist(enqPos) /\ Dist(hwPos)' = Dist(hwPos)
  BY DEF ring, Dist
<1>3. RingConsistent'
  BY <1>1, <1>2 DEF Inv, RingConsistent, ring
<1> QED BY <1>3 DEF Inv, TypeOK, ring

\* What may happen around the queue does not change.
LEMMA SetupStays == [Next]_vars => setup' = setup
BY DEF Next, vars, StartXmit, SendVerify, Xmit, Enqueue, Reject, HwTransmits, ReleaseFrame,
       Dequeue, TxTimeout

\* Every step of the queue keeps the invariant (edge_com_dma.c:275-465).
LEMMA RingInvStep == Inv /\ [Next]_vars => Inv'
<1> SUFFICES ASSUME Inv, [Next]_vars PROVE Inv'
  OBVIOUS
<1>t. TypeOK /\ setup' = setup
  BY SetupStays DEF Inv
<1>1. ASSUME NEW d \in Devices, Xmit(d) PROVE Inv'
  <2>1. CASE Enqueue(d) /\ IF cnt' < DescCnt - 1 THEN UNCHANGED waiters ELSE StopDevice(d)
    <3>1. /\ pending' \in Seq(Devices) /\ Len(pending') <= MaxPending
          /\ stopped' \subseteq Devices
      <4>1. CASE cnt' < DescCnt - 1
        BY <2>1, <4>1, <1>t DEF TypeOK, waiters
      <4>2. CASE ~(cnt' < DescCnt - 1)
        BY <2>1, <4>2, <1>t, StopDeviceType
      <4> QED BY <4>1, <4>2
    <3>2. deqPos' = deqPos /\ hwPos' = hwPos
      BY <2>1 DEF Enqueue
    <3> QED BY <2>1, <3>1, <3>2, <1>t, EnqueueKeepsRing DEF Inv, TypeOK
  <2>2. CASE Reject /\ StopDevice(d)
    <3>1. UNCHANGED ring
      BY <2>2 DEF Reject
    <3> QED BY <2>2, <3>1, <1>t, RingUnchanged, StopDeviceType DEF Inv, TypeOK
  <2> QED BY <1>1, <2>1, <2>2 DEF Xmit
<1>2. ASSUME NEW d \in Devices, StartXmit(d) PROVE Inv'
  BY <1>1, <1>2 DEF StartXmit
<1>3. ASSUME NEW d \in Devices, SendVerify(d) PROVE Inv'
  BY <1>1, <1>3 DEF SendVerify
<1>4. ASSUME NEW d \in Devices, TxTimeout(d) PROVE Inv'
  <2>1. UNCHANGED ring /\ pending' = pending /\ stopped' \subseteq Devices
    BY <1>4, <1>t DEF TxTimeout, TypeOK
  <2> QED BY <2>1, <1>t, RingUnchanged DEF Inv, TypeOK
<1>5. CASE HwTransmits
  <2>1. UNCHANGED <<enqPos, deqPos, cnt, slot, waiters>>
    BY <1>5 DEF HwTransmits
  <2> QED BY <1>5, <2>1, <1>t, TransmitKeepsRing DEF Inv, TypeOK, waiters
<1>6. CASE ReleaseFrame
  <2>1. UNCHANGED <<enqPos, initBit, hwPos>>
    BY <1>6 DEF ReleaseFrame, Dequeue
  <2> QED BY <1>6, <2>1, <1>t, DequeueKeepsRing, WakeType DEF Inv, TypeOK, ReleaseFrame
<1>7. CASE UNCHANGED vars
  BY <1>7, <1>t, RingUnchanged DEF Inv, TypeOK, vars, waiters
<1> QED BY <1>2, <1>3, <1>4, <1>5, <1>6, <1>7 DEF Next

\* Positions, count, frames and INIT bits of the ring never disagree, whatever the
\* number of descriptors and of devices (edge_com_dma.c:275-387).
THEOREM RingAlwaysConsistent == Spec => []Inv
BY RingInvInit, RingInvStep, PTL DEF Spec

\* In a consistent ring, the hardware does not own the descriptor behind the last frame.
LEMMA RingInvNoError == Inv => NoQueuingError
<1> SUFFICES ASSUME Inv, Room PROVE ~initBit[enqPos]
  BY DEF NoQueuingError
<1>1. enqPos \in Positions
  BY DEF Inv, TypeOK
<1>2. initBit[enqPos] => Dist(enqPos) < cnt
  BY <1>1 DEF Inv, RingConsistent
<1>3. Dist(enqPos) = cnt /\ cnt \in Int
  BY DEF Inv, RingConsistent, TypeOK
<1> QED BY <1>2, <1>3

\* The driver never finds that the hardware owns the descriptor it is about to fill:
\* the error "DMA queuing error!" (edge_com_dma.c:290) cannot occur.
THEOREM QueuingErrorNever == Spec => []NoQueuingError
BY RingInvInit, RingInvStep, RingInvNoError, PTL DEF Spec

-----------------------------------------------------------------------------
\* A frame is rejected for want of room only, if the mapping does not fail.
LEMMA RejectedWhenFull ==
  ASSUME Inv, ~setup.mayFail, Reject
  PROVE  cnt = DescCnt - 1
<1>1. ~Room
  BY RingInvNoError DEF Reject, NoQueuingError
<1> QED BY <1>1, DmaTxAssumption DEF Room, Inv, TypeOK

\* Stopping a device when the ring is full leaves enough frames to wake everyone.
LEMMA WakersStep ==
  ASSUME MaxPending <= DescCnt - 1, Inv, WakersSuffice, [Next]_vars
  PROVE  WakersSuffice'
<1>s. setup' = setup
  BY SetupStays
<1> SUFFICES ASSUME ~setup.mayFail PROVE WakersSuffice'
  BY <1>s DEF WakersSuffice
<1>t. TypeOK /\ TypeOK' /\ Len(pending) <= cnt
  BY RingInvStep DEF Inv, WakersSuffice
<1>1. ASSUME NEW d \in Devices, Xmit(d) PROVE WakersSuffice'
  <2>1. CASE Enqueue(d) /\ cnt' < DescCnt - 1 /\ UNCHANGED waiters
    BY <2>1, <1>t DEF Enqueue, WakersSuffice, waiters, TypeOK
  <2>2. CASE Enqueue(d) /\ ~(cnt' < DescCnt - 1)
    BY <2>2, <1>t, DmaTxAssumption DEF WakersSuffice, TypeOK
  <2>3. CASE Reject
    <3>1. cnt' = DescCnt - 1
      BY <2>3, RejectedWhenFull DEF Reject, ring
    <3> QED BY <3>1, <1>t, DmaTxAssumption DEF WakersSuffice, TypeOK
  <2> QED BY <1>1, <2>1, <2>2, <2>3 DEF Xmit
<1>2. CASE ReleaseFrame
  <2>1. cnt' = cnt - 1 /\ cnt # 0
    BY <1>2 DEF ReleaseFrame, Dequeue
  <2>2. CASE pending = <<>>
    BY <1>2, <2>1, <2>2, <1>t DEF ReleaseFrame, Wake, waiters, WakersSuffice, TypeOK
  <2>3. CASE pending # <<>>
    <3>1. pending' = Tail(pending)
      BY <1>2, <2>3 DEF ReleaseFrame, Wake
    <3>2. Len(pending') = Len(pending) - 1
      BY <3>1, <2>3, <1>t DEF TypeOK
    <3> QED BY <2>1, <3>2, <1>t DEF WakersSuffice, TypeOK
  <2> QED BY <2>2, <2>3
<1>3. CASE HwTransmits \/ UNCHANGED vars \/ \E d \in Devices : TxTimeout(d)
  BY <1>3, <1>t DEF HwTransmits, TxTimeout, vars, ring, waiters, WakersSuffice
<1> QED BY <1>1, <1>2, <1>3 DEF Next, StartXmit, SendVerify

\* As long as mappings succeed, everyone in the fifo is woken by the release of a
\* frame that is in the ring (edge_com_dma.c:412, :454), if the fifo has no more places
\* than the ring has frames (16 and 255 in edge_defines.h:50, edge_com_dma.c:59).
THEOREM WakersAlwaysSuffice ==
  ASSUME MaxPending <= DescCnt - 1
  PROVE  Spec => []WakersSuffice
<1>1. Init => WakersSuffice
  BY DEF Init, WakersSuffice
<1>2. Inv /\ WakersSuffice /\ [Next]_vars => WakersSuffice'
  BY WakersStep
<1> QED BY <1>1, <1>2, RingInvInit, RingInvStep, PTL DEF Spec

-----------------------------------------------------------------------------
\* Stopped and waiting: the devices are those of the fifo, and as many.
WaitInv == Waiting /\ IsFiniteSet(stopped) /\ Cardinality(stopped) = Len(pending)

\* Where devices transmit only while they are not stopped, each device takes one place
\* in the fifo, which therefore has room for the next one (edge_com_dma.c:412).
LEMMA StopDeviceWaits ==
  ASSUME TypeOK, WaitInv, IsFiniteSet(Devices), Cardinality(Devices) <= MaxPending,
         NEW d \in Devices, d \notin stopped, StopDevice(d)
  PROVE  WaitInv'
<1>1. stopped' = stopped \cup {d}
  BY DEF StopDevice
<1>2. IsFiniteSet(stopped') /\ Cardinality(stopped') = Cardinality(stopped) + 1
  BY <1>1, FS_AddElement DEF WaitInv
<1>3. stopped' \in SUBSET Devices
  BY <1>1 DEF TypeOK
<1>4. Cardinality(stopped') <= Cardinality(Devices)
  BY <1>3, FS_Subset
<1>5. pending \in Seq(Devices) /\ Len(pending) \in Nat /\ Cardinality(stopped) = Len(pending)
  BY DEF TypeOK, WaitInv
<1>6. Len(pending) < MaxPending
  <2>1. Cardinality(Devices) \in Nat
    BY FS_CardinalityType
  <2> QED BY <2>1, <1>2, <1>4, <1>5, DmaTxAssumption
<1>7. pending' = Append(pending, d)
  BY <1>6 DEF StopDevice
<1>8. /\ DOMAIN pending' = 1..(Len(pending) + 1) /\ DOMAIN pending = 1..Len(pending)
      /\ Len(pending') = Len(pending) + 1
      /\ pending'[Len(pending) + 1] = d
      /\ \A i \in 1..Len(pending) : pending'[i] = pending[i]
  BY <1>5, <1>7
<1>9. /\ stopped = {pending[i] : i \in 1..Len(pending)}
      /\ \A i, j \in 1..Len(pending) : pending[i] = pending[j] => i = j
  BY <1>8 DEF WaitInv, Waiting
<1>10. stopped' = {pending'[i] : i \in DOMAIN pending'}
  <2>1. \A i \in 1..(Len(pending) + 1) : i \in 1..Len(pending) \/ i = Len(pending) + 1
    BY <1>5
  <2>2. \A i \in 1..Len(pending) : i \in 1..(Len(pending) + 1)
    BY <1>5
  <2>3. Len(pending) + 1 \in 1..(Len(pending) + 1)
    BY <1>5
  <2> QED BY <2>1, <2>2, <2>3, <1>1, <1>8, <1>9
<1>11. ASSUME NEW i \in DOMAIN pending', NEW j \in DOMAIN pending', pending'[i] = pending'[j]
       PROVE  i = j
  <2>1. \A k \in 1..Len(pending) : pending[k] # d
    BY <1>9
  <2>2. \A k \in DOMAIN pending' : k \in 1..Len(pending) \/ k = Len(pending) + 1
    BY <1>5, <1>8
  <2> QED BY <2>1, <2>2, <1>8, <1>9, <1>11
<1> QED BY <1>2, <1>5, <1>8, <1>10, <1>11 DEF WaitInv, Waiting

\* The first device of the fifo is woken and leaves it (edge_com_dma.c:454-461).
LEMMA WakeWaits ==
  ASSUME TypeOK, WaitInv, Wake
  PROVE  WaitInv'
<1>1. CASE pending = <<>>
  BY <1>1 DEF Wake, waiters, WaitInv, Waiting
<1>2. CASE pending # <<>>
  <2>1. pending' = Tail(pending) /\ stopped' = stopped \ {Head(pending)}
    BY <1>2 DEF Wake
  <2>2. pending \in Seq(Devices) /\ Len(pending) \in Nat /\ Len(pending) > 0
    BY <1>2 DEF TypeOK
  <2>3. /\ DOMAIN pending = 1..Len(pending) /\ DOMAIN pending' = 1..(Len(pending) - 1)
        /\ Len(pending') = Len(pending) - 1 /\ Head(pending) = pending[1]
        /\ \A i \in 1..(Len(pending) - 1) : pending'[i] = pending[i + 1]
    BY <2>1, <2>2
  <2>4. /\ stopped = {pending[i] : i \in 1..Len(pending)}
        /\ \A i, j \in 1..Len(pending) : pending[i] = pending[j] => i = j
    BY <2>3 DEF WaitInv, Waiting
  <2>5. \A i \in 1..(Len(pending) - 1) : i + 1 \in 1..Len(pending) /\ i + 1 # 1
    BY <2>2
  <2>6. \A i \in 1..Len(pending) : i # 1 => i - 1 \in 1..(Len(pending) - 1) /\ (i - 1) + 1 = i
    BY <2>2
  <2>7. 1 \in 1..Len(pending)
    BY <2>2
  <2>8. stopped' = {pending'[i] : i \in DOMAIN pending'}
    <3>1. ASSUME NEW x \in stopped' PROVE \E i \in DOMAIN pending' : x = pending'[i]
      <4>1. PICK i \in 1..Len(pending) : x = pending[i]
        BY <2>1, <2>4, <3>1
      <4>2. i # 1
        BY <2>1, <2>3, <3>1, <4>1
      <4> QED BY <4>1, <4>2, <2>3, <2>6
    <3>2. ASSUME NEW i \in DOMAIN pending' PROVE pending'[i] \in stopped'
      <4>1. pending'[i] = pending[i + 1] /\ i + 1 \in 1..Len(pending) /\ i + 1 # 1
        BY <2>3, <2>5, <3>2
      <4>2. pending[i + 1] # pending[1]
        BY <4>1, <2>4, <2>7
      <4> QED BY <4>1, <4>2, <2>1, <2>3, <2>4
    <3> QED BY <3>1, <3>2
  <2>9. \A i, j \in DOMAIN pending' : pending'[i] = pending'[j] => i = j
    BY <2>2, <2>3, <2>4, <2>5
  <2>10. IsFiniteSet(stopped') /\ Cardinality(stopped') = Cardinality(stopped) - 1
    <3>1. Head(pending) \in stopped
      BY <2>3, <2>4, <2>7
    <3> QED BY <3>1, <2>1, FS_RemoveElement DEF WaitInv
  <2> QED BY <2>3, <2>8, <2>9, <2>10 DEF WaitInv, Waiting
<1> QED BY <1>1, <1>2

\* A device is stopped if and only if it waits in the fifo, once: nobody is stopped
\* and forgotten, for every number of devices up to the size of the fifo, if no device
\* transmits while it is stopped and the watchdog does not wake any.
THEOREM StoppedAlwaysPending ==
  ASSUME IsFiniteSet(Devices), Cardinality(Devices) <= MaxPending
  PROVE  Spec => []StoppedIffPending
<1> DEFINE Waits == StopRespected => WaitInv
<1>1. Init => Waits
  BY FS_EmptySet DEF Init, WaitInv, Waiting
<1>2. Inv /\ Waits /\ [Next]_vars => Waits'
  <2> SUFFICES ASSUME TypeOK, StopRespected, WaitInv, [Next]_vars PROVE WaitInv'
    BY SetupStays DEF Inv, StopRespected
  <2>1. ASSUME UNCHANGED waiters PROVE WaitInv'
    BY <2>1 DEF waiters, WaitInv, Waiting
  <2>2. ASSUME NEW d \in Devices, StartXmit(d) PROVE WaitInv'
    BY <2>1, <2>2, StopDeviceWaits DEF StartXmit, Xmit
  <2>3. ASSUME NEW d \in Devices, SendVerify(d) PROVE FALSE
    BY <2>3 DEF SendVerify, StopRespected
  <2>4. ASSUME NEW d \in Devices, TxTimeout(d) PROVE FALSE
    BY <2>4 DEF TxTimeout, StopRespected
  <2>5. CASE HwTransmits
    BY <2>1, <2>5 DEF HwTransmits
  <2>6. CASE ReleaseFrame
    BY <2>6, WakeWaits DEF ReleaseFrame
  <2>7. CASE UNCHANGED vars
    BY <2>1, <2>7 DEF vars
  <2> QED BY <2>2, <2>3, <2>4, <2>5, <2>6, <2>7 DEF Next
<1>3. Waits => StoppedIffPending
  BY DEF WaitInv, StoppedIffPending
<1> QED BY <1>1, <1>2, <1>3, RingInvInit, RingInvStep, PTL DEF Spec

-----------------------------------------------------------------------------
\* The abstract queue is a sequence of frames.
LEMMA FramesType ==
  ASSUME Inv
  PROVE  Frames \in Seq(Devices) /\ Len(Frames) = cnt /\ DOMAIN Frames = 1..cnt
<1>1. cnt \in Nat /\ deqPos \in Positions /\ cnt \in 0..(DescCnt - 1)
  BY DmaTxAssumption DEF Inv, TypeOK
<1>2. ASSUME NEW i \in 1..cnt PROVE slot[At(i - 1)] \in Devices
  <2>1. At(i - 1) \in Positions /\ Dist(At(i - 1)) = i - 1
    BY <1>1, DmaTxAssumption DEF Positions, At, Dist
  <2>2. slot[At(i - 1)] # NoFrame
    BY <2>1, <1>1 DEF Inv, RingConsistent
  <2> QED BY <2>1, <2>2 DEF Inv, TypeOK
<1> QED BY <1>1, <1>2 DEF Frames

\* A queued frame is appended to the abstract queue.
LEMMA EnqueueAppends ==
  ASSUME Inv, NEW d \in Devices, Enqueue(d)
  PROVE  Frames' = Append(Frames, d) /\ Dist(hwPos)' = Dist(hwPos)
<1>1. cnt \in Nat /\ cnt < DescCnt - 1 /\ deqPos \in Positions /\ enqPos \in Positions
  BY DmaTxAssumption DEF Inv, TypeOK, Enqueue, Room
<1>2. cnt' = cnt + 1 /\ deqPos' = deqPos /\ hwPos' = hwPos
  BY DEF Enqueue
<1>3. Dist(enqPos) = cnt
  BY DEF Inv, RingConsistent
<1>4. \A i \in 0..cnt : /\ At(i)' = At(i) /\ At(i) \in Positions
                        /\ At(i) = enqPos <=> i = cnt
  BY <1>1, <1>2, <1>3, DmaTxAssumption DEF At, Dist, Positions
<1>5. slot \in [Positions -> Devices \cup {NoFrame}]
  BY DEF Inv, TypeOK
<1>6. \A i \in 1..(cnt + 1) : i - 1 \in 0..cnt /\ (i # cnt + 1 => i \in 1..cnt)
                               /\ (i - 1 = cnt <=> i = cnt + 1)
  BY <1>1
<1>7. ASSUME NEW i \in 1..(cnt + 1)
      PROVE  slot'[At(i - 1)'] = IF i = cnt + 1 THEN d ELSE slot[At(i - 1)]
  BY <1>4, <1>5, <1>6 DEF Enqueue
<1>8. Frames' = [i \in 1..(cnt + 1) |-> slot'[At(i - 1)']]
  BY <1>2 DEF Frames
<1>9. \A i \in 1..(cnt + 1) : i # cnt + 1 => Frames[i] = slot[At(i - 1)] /\ Frames[i] \in Devices
  <2>1. \A i \in 1..cnt : Frames[i] = slot[At(i - 1)]
    BY DEF Frames
  <2>2. \A i \in 1..cnt : Frames[i] \in Devices
    BY FramesType
  <2> QED BY <2>1, <2>2, <1>6
<1>10. Frames' \in Seq(Devices) /\ Len(Frames') = cnt + 1
  <2>1. ASSUME NEW i \in 1..(cnt + 1) PROVE slot'[At(i - 1)'] \in Devices
    BY <1>7, <1>9
  <2> QED BY <1>1, <1>8, <2>1
<1>11. /\ Append(Frames, d) \in Seq(Devices) /\ Len(Append(Frames, d)) = cnt + 1
       /\ \A i \in 1..cnt : Append(Frames, d)[i] = Frames[i]
       /\ Append(Frames, d)[cnt + 1] = d
  BY FramesType, AppendProperties
<1>12. \A i \in 1..(cnt + 1) : Frames'[i] = Append(Frames, d)[i]
  BY <1>6, <1>7, <1>8, <1>9, <1>11
<1>13. Dist(hwPos)' = Dist(hwPos)
  BY <1>2 DEF Dist
<1> QED BY <1>10, <1>11, <1>12, <1>13, SeqEqual

\* A released frame is the first of the abstract queue.
LEMMA DequeueTakesHead ==
  ASSUME Inv, Dequeue
  PROVE  Frames' = Tail(Frames)
<1>1. cnt \in Nat /\ cnt # 0 /\ cnt <= DescCnt - 1 /\ deqPos \in Positions
  BY DmaTxAssumption DEF Inv, TypeOK, Dequeue
<1>2. cnt' = cnt - 1 /\ deqPos' = IF deqPos = DescCnt - 1 THEN 0 ELSE deqPos + 1
  BY <1>1, NextPosWraps DEF Dequeue
<1>3. \A i \in 1..(cnt - 1) : /\ At(i - 1)' = At(i) /\ At(i) \in Positions
                              /\ At(i) # deqPos /\ i + 1 \in 1..cnt /\ (i + 1) - 1 = i
  BY <1>1, <1>2, DmaTxAssumption DEF At, Positions
<1>4. slot \in [Positions -> Devices \cup {NoFrame}]
  BY DEF Inv, TypeOK
<1>5. \A i \in 1..(cnt - 1) : slot'[At(i - 1)'] = slot[At(i)]
  BY <1>3, <1>4 DEF Dequeue
<1>6. Frames' = [i \in 1..(cnt - 1) |-> slot'[At(i - 1)']]
  BY <1>2 DEF Frames
<1>7. \A i \in 1..(cnt - 1) : Frames[i + 1] = slot[At(i)] /\ Frames[i + 1] \in Devices
  <2>1. \A j \in 1..cnt : Frames[j] = slot[At(j - 1)]
    BY DEF Frames
  <2>2. \A j \in 1..cnt : Frames[j] \in Devices
    BY FramesType
  <2> QED BY <2>1, <2>2, <1>3
<1>8. Frames' \in Seq(Devices) /\ Len(Frames') = cnt - 1
  <2>1. ASSUME NEW i \in 1..(cnt - 1) PROVE slot'[At(i - 1)'] \in Devices
    BY <1>5, <1>7
  <2>2. cnt - 1 \in Nat
    BY <1>1
  <2> QED BY <2>2, <1>6, <2>1
<1>9. /\ Tail(Frames) \in Seq(Devices) /\ Len(Tail(Frames)) = cnt - 1
      /\ \A i \in 1..(cnt - 1) : Tail(Frames)[i] = Frames[i + 1]
  <2>1. Frames # <<>>
    BY FramesType, <1>1
  <2> QED BY <2>1, FramesType, HeadTailProperties
<1>10. \A i \in 1..(cnt - 1) : Frames'[i] = Tail(Frames)[i]
  BY <1>5, <1>6, <1>7, <1>9
<1> QED BY <1>8, <1>9, <1>10, SeqEqual

\* Frames of an unchanged ring do not change.
LEMMA FramesUnchanged ==
  ASSUME UNCHANGED <<deqPos, cnt, slot>>
  PROVE  Frames' = Frames
BY DEF Frames, At

\* Every step of the ring is a step of the abstract queue or leaves it unchanged.
LEMMA AbsStep == Inv /\ [Next]_vars => [Abs!Next]_(Abs!vars)
<1> SUFFICES ASSUME Inv, [Next]_vars PROVE [Abs!Next]_(Abs!vars)
  OBVIOUS
<1>t. cnt \in 0..(DescCnt - 1) /\ Len(Frames) = cnt /\ setup' = setup
  BY FramesType, SetupStays DEF Inv, TypeOK
<1>1. ASSUME NEW d \in Devices, StopDevice(d) PROVE Abs!Stop(d)
  BY <1>1 DEF StopDevice, Abs!Stop
<1>2. ASSUME NEW d \in Devices, Xmit(d) PROVE Abs!Next
  <2>1. CASE Enqueue(d) /\ IF cnt' < DescCnt - 1 THEN UNCHANGED waiters ELSE StopDevice(d)
    <3>1. Frames' = Append(Frames, d) /\ Dist(hwPos)' = Dist(hwPos)
      BY <2>1, EnqueueAppends
    <3>2. cnt < DescCnt - 1 /\ cnt' = cnt + 1
      BY <2>1 DEF Enqueue, Room
    <3>3. Len(Frames') = cnt'
      <4>1. Frames \in Seq(Devices)
        BY FramesType
      <4> QED BY <3>1, <3>2, <4>1, <1>t
    <3>4. IF Len(Frames') < DescCnt - 1
          THEN UNCHANGED <<pending, stopped>> ELSE Abs!Stop(d)
      BY <2>1, <3>3, <1>1 DEF waiters
    <3>5. Abs!Accept(d)
      BY <3>1, <3>2, <3>4, <1>t DEF Abs!Accept
    <3> QED BY <3>5 DEF Abs!Next
  <2>2. CASE Reject /\ StopDevice(d)
    <3>1. UNCHANGED <<deqPos, cnt, slot, hwPos>>
      BY <2>2 DEF Reject, ring
    <3>2. Frames' = Frames /\ Dist(hwPos)' = Dist(hwPos)
      BY <3>1, FramesUnchanged DEF Dist
    <3>3. Len(Frames) = DescCnt - 1 \/ setup.mayFail
      BY <2>2, <1>t, RejectedWhenFull
    <3>4. Abs!Refuse(d)
      BY <1>t, <2>2, <3>2, <3>3, <1>1 DEF Abs!Refuse
    <3> QED BY <3>4 DEF Abs!Next
  <2> QED BY <1>2, <2>1, <2>2 DEF Xmit
<1>3. ASSUME NEW d \in Devices, TxTimeout(d) PROVE Abs!Next
  <2>1. Frames' = Frames /\ Dist(hwPos)' = Dist(hwPos)
    BY <1>3, FramesUnchanged DEF TxTimeout, ring, Dist
  <2>2. Abs!GiveUpWaiting(d)
    BY <1>3, <2>1 DEF TxTimeout, Abs!GiveUpWaiting
  <2> QED BY <2>2 DEF Abs!Next
<1>4. CASE HwTransmits
  <2>1. Dist(hwPos) < cnt /\ Dist(hwPos)' = Dist(hwPos) + 1
    BY <1>4, TransmitKeepsRing
  <2>2. Frames' = Frames /\ UNCHANGED <<pending, stopped>>
    BY <1>4, FramesUnchanged DEF HwTransmits, waiters
  <2>3. Abs!Send
    BY <2>1, <2>2, <1>t DEF Abs!Send
  <2> QED BY <2>3 DEF Abs!Next
<1>5. CASE ReleaseFrame
  <2>1. Dist(hwPos) > 0 /\ Dist(hwPos)' = Dist(hwPos) - 1
    BY <1>5, DequeueKeepsRing DEF ReleaseFrame
  <2>2. Frames' = Tail(Frames)
    BY <1>5, DequeueTakesHead DEF ReleaseFrame
  <2>3. IF pending = <<>> THEN UNCHANGED <<pending, stopped>>
        ELSE pending' = Tail(pending) /\ stopped' = stopped \ {Head(pending)}
    BY <1>5 DEF ReleaseFrame, Wake, waiters
  <2>4. Abs!Release
    BY <1>t, <2>1, <2>2, <2>3 DEF Abs!Release
  <2> QED BY <2>4 DEF Abs!Next
<1>6. CASE UNCHANGED vars
  <2>1. Frames' = Frames /\ Dist(hwPos)' = Dist(hwPos) /\ UNCHANGED <<pending, stopped>>
    BY <1>6, FramesUnchanged DEF vars, ring, waiters, Dist
  <2> QED BY <1>t, <2>1 DEF Abs!vars
<1> QED BY <1>2, <1>3, <1>4, <1>5, <1>6 DEF Next, StartXmit, SendVerify

\* The empty ring is the empty queue.
LEMMA AbsInit == Init => Abs!Init
<1> SUFFICES ASSUME Init PROVE Abs!Init
  OBVIOUS
<1>1. Frames = <<>>
  BY DEF Init, Frames
<1>2. Dist(hwPos) = 0
  BY DEF Init, Dist
<1> QED BY <1>1, <1>2 DEF Init, Abs!Init

\* The ring implements the abstract queue, for every number of descriptors: frames
\* leave in the order they came, each once, and only after they were transmitted.
THEOREM RingImplementsQueue == Spec => ImplementsAbs
<1>1. Inv /\ [Next]_vars => Inv'
  BY RingInvStep
<1> QED BY <1>1, AbsInit, AbsStep, RingInvInit, PTL DEF Spec, ImplementsAbs, Abs!Spec

-----------------------------------------------------------------------------
(* The poll function and its interrupts (NapiPoll).                         *)

\* Not on a board with one edge-triggered line for all interrupts.
BoardInv ==
  /\ board.level \/ ~board.shared
  /\ missed => napi # "idle"

\* An interrupt is masked only until the poll function has been scheduled and completed.
MaskInv ==
  \A r \in Rings : r \notin mask =>
    Level /\ ((\E l \in Lines : r \in isr[l]) \/ napi # "idle" \/ enable[r] > 0)

\* Frames that are not announced by a status bit are those the poll function has yet to
\* look at, or knows of.
LookInv ==
  \A r \in Rings : done[r] > 0 =>
    \/ raising[r] > 0 \/ r \in stat
    \/ napi \in {"scheduled", "tx"}
    \/ r = Tx /\ napi = "post_tx"
    \/ r = Rx /\ napi \in {"clear_tx", "post_tx", "rx", "post_rx"}
    \/ (post \/ used[r] = Budget) /\ napi \in {"rx", "clear_rx", "post_rx", "decide"}

\* Without a level, a status bit that is set has its edge, or is looked at.
EdgeInv ==
  ~Level => \A r \in Rings : r \in stat =>
    \/ r \in edge \/ \E l \in Lines : r \in isr[l]
    \/ napi \notin {"idle", "complete"} \/ missed

\* Every arrival is counted.
CountInv == \A r \in Rings : done[r] + left <= MaxArrivals /\ raising[r] + left <= MaxArrivals

PollInv == NapiTypeOK /\ BoardInv /\ MaskInv /\ LookInv /\ EdgeInv /\ CountInv

\* A board that is not one edge-triggered line for all.
LEMMA NapiFacts ==
  ASSUME NapiPollAssumption, NapiTypeOK
  PROVE  /\ MaxArrivals \in Nat /\ Budget \in Nat /\ Budget > 0
         /\ Level \in BOOLEAN /\ Shared \in BOOLEAN
         /\ Tx \in Rings /\ Rx \in Rings /\ Tx # Rx /\ \A r \in Rings : r = Tx \/ r = Rx
         /\ Rings \subseteq Irqs /\ Irqs \subseteq Lines /\ Err \in Irqs /\ Err \notin Rings
<1>1. /\ MaxArrivals \in Nat /\ Budget \in Nat /\ Budget > 0
      /\ Boards \subseteq [level: BOOLEAN, shared: BOOLEAN] /\ board \in Boards
  BY DEF NapiPollAssumption, NapiTypeOK
<1>2. Level \in BOOLEAN /\ Shared \in BOOLEAN
  BY <1>1 DEF Level, Shared
<1>3. /\ Tx \in Rings /\ Rx \in Rings /\ Tx # Rx /\ \A r \in Rings : r = Tx \/ r = Rx
      /\ Rings \subseteq Irqs /\ Irqs \subseteq Lines /\ Err \in Irqs /\ Err \notin Rings
  BY DEF Rings, Irqs, Lines, Tx, Rx, Err
<1> QED BY <1>1, <1>2, <1>3

LEMMA NapiInitial ==
  ASSUME NapiPollAssumption, \A b \in Boards : b.level \/ ~b.shared, NapiInit
  PROVE  PollInv
<1>1. NapiTypeOK
  <2>1. MaxArrivals \in Nat /\ Budget \in Nat /\ 0 \in 0..MaxArrivals /\ 0 \in 0..Budget
        /\ MaxArrivals \in 0..MaxArrivals
    BY DEF NapiPollAssumption
  <2> QED BY <2>1 DEF NapiInit, NapiTypeOK
<1>2. BoardInv /\ MaskInv /\ LookInv /\ EdgeInv
  BY NapiFacts, <1>1 DEF NapiInit, BoardInv, MaskInv, LookInv, EdgeInv
<1>3. CountInv
  BY NapiFacts, <1>1 DEF NapiInit, CountInv
<1> QED BY <1>1, <1>2, <1>3 DEF PollInv

\* The hardware, the handlers and the poll function keep the types.
LEMMA NapiTypeStep ==
  ASSUME NapiPollAssumption, NapiTypeOK, CountInv, [NapiNext]_napiVars
  PROVE  NapiTypeOK' /\ CountInv'
<1> USE NapiFacts
<1>0. /\ done \in [Rings -> 0..MaxArrivals] /\ raising \in [Rings -> 0..MaxArrivals]
      /\ used \in [Rings -> 0..Budget] /\ enable \in [Rings -> Nat] /\ left \in 0..MaxArrivals
      /\ \A r \in Rings : done[r] + left <= MaxArrivals /\ raising[r] + left <= MaxArrivals
  BY DEF NapiTypeOK, CountInv
<1>1. board' \in Boards
  <2>1. board \in Boards
    BY DEF NapiTypeOK
  <2> QED
    BY <2>1 DEF NapiNext, napiVars, PollStep, IsrStep, FrameDone, RaiseStatus, RaiseError,
         IsrEnter, IsrDisable, IsrSchedule, IsrError, IsrErrorClears, PollStarts, Process,
         ProcessEnds, Clear, PostProcess, Decide, CheckStatus, Complete, Enable, ProcessElsewhere
\* the counters
<1>2. /\ done' \in [Rings -> 0..MaxArrivals] /\ raising' \in [Rings -> 0..MaxArrivals]
      /\ left' \in 0..MaxArrivals /\ CountInv'
  <2>1. CASE \E r \in Rings : FrameDone(r)
    BY <2>1, <1>0 DEF FrameDone, CountInv
  <2>2. CASE \E r \in Rings : RaiseStatus(r)
    BY <2>2, <1>0 DEF RaiseStatus, CountInv
  <2>3. CASE RaiseError
    BY <2>3, <1>0 DEF RaiseError, CountInv
  <2>4. ASSUME NEW r \in Rings, Process(r) \/ ProcessElsewhere(r) \/ PostProcess(r)
        PROVE  /\ done' \in [Rings -> 0..MaxArrivals] /\ raising' \in [Rings -> 0..MaxArrivals]
               /\ left' \in 0..MaxArrivals /\ CountInv'
    <3>1. raising' = raising /\ left' = left
      BY <2>4 DEF Process, ProcessElsewhere, PostProcess
    <3>2. PICK n \in 0..done[r] : done' = [done EXCEPT ![r] = n]
      <4>1. CASE Process(r) \/ ProcessElsewhere(r)
        <5>1. done[r] - 1 \in 0..done[r] /\ done' = [done EXCEPT ![r] = done[r] - 1]
          BY <4>1, <1>0 DEF Process, ProcessElsewhere
        <5> QED BY <5>1
      <4>2. CASE PostProcess(r)
        <5>1. (IF done[r] > 0 THEN done[r] - 1 ELSE 0) \in 0..done[r]
          BY <1>0
        <5>2. done' = [done EXCEPT ![r] = IF done[r] > 0 THEN done[r] - 1 ELSE 0]
          BY <4>2 DEF PostProcess
        <5> QED BY <5>1, <5>2
      <4> QED BY <2>4, <4>1, <4>2
    <3>3. n \in 0..MaxArrivals /\ n <= done[r]
      BY <3>2, <1>0
    <3> QED BY <3>1, <3>2, <3>3, <1>0 DEF CountInv
  <2>6. CASE \E r \in Rings : Clear(r)
    BY <2>6, <1>0 DEF Clear, CountInv
  <2>7. CASE UNCHANGED <<done, raising, left>>
    BY <2>7, <1>0 DEF CountInv
  <2> QED
    BY <2>1, <2>2, <2>3, <2>4, <2>6, <2>7 DEF NapiNext, napiVars, hw, PollStep, IsrStep,
       IsrEnter, IsrDisable, IsrSchedule, IsrError, IsrErrorClears, PollStarts, ProcessEnds,
       Decide, CheckStatus, Complete, Enable
<1>3. used' \in [Rings -> 0..Budget] /\ post' \in BOOLEAN
  <2>1. post \in BOOLEAN
    BY DEF NapiTypeOK
  <2>2. CASE PollStarts
    <3>1. used' = [r \in Rings |-> 0] /\ post' = FALSE /\ 0 \in 0..Budget
      BY <2>2, <1>0 DEF PollStarts
    <3> QED BY <3>1
  <2>3. CASE \E r \in Rings : Process(r)
    BY <2>3, <2>1, <1>0 DEF Process
  <2>4. CASE \E r \in Rings : PostProcess(r)
    BY <2>4, <2>1, <1>0 DEF PostProcess
  <2>5. CASE UNCHANGED <<used, post>>
    BY <2>5, <2>1, <1>0
  <2> QED
    BY <2>2, <2>3, <2>4, <2>5 DEF NapiNext, napiVars, poll, PollStep, IsrStep, FrameDone,
       RaiseStatus, RaiseError, IsrEnter, IsrDisable, IsrSchedule, IsrError, IsrErrorClears,
       ProcessEnds, Clear, Decide, CheckStatus, Complete, Enable, ProcessElsewhere
<1>4. napi' \in {"idle", "scheduled"} \cup Steps /\ missed' \in BOOLEAN
  <2>1. napi \in {"idle", "scheduled"} \cup Steps /\ missed \in BOOLEAN
    BY DEF NapiTypeOK
  <2>2. CASE \E l \in Lines : IsrError(l) \/ \E r \in Rings : IsrSchedule(l, r)
    BY <2>2, <2>1 DEF IsrError, IsrSchedule, Schedule
  <2>3. CASE PollStarts \/ Decide \/ CheckStatus \/ Complete
    BY <2>3, <2>1 DEF PollStarts, Decide, CheckStatus, Complete, Goto, Steps
  <2>4. CASE \E r \in Rings : ProcessEnds(r) \/ Clear(r) \/ PostProcess(r)
    BY <2>4, <2>1 DEF ProcessEnds, Clear, PostProcess, Goto, Steps
  <2>5. CASE UNCHANGED <<napi, missed>>
    BY <2>5, <2>1
  <2> QED
    BY <2>2, <2>3, <2>4, <2>5 DEF NapiNext, napiVars, poll, PollStep, IsrStep, FrameDone,
       RaiseStatus, RaiseError, IsrEnter, IsrDisable, IsrErrorClears, Process, Enable,
       ProcessElsewhere
<1>5. enable' \in [Rings -> Nat]
  <2>1. CASE Complete
    BY <2>1, <1>0 DEF Complete
  <2>2. CASE \E r \in Rings : Enable(r)
    BY <2>2, <1>0 DEF Enable
  <2>3. CASE UNCHANGED enable
    BY <2>3, <1>0
  <2> QED
    BY <2>1, <2>2, <2>3 DEF NapiNext, napiVars, PollStep, IsrStep, FrameDone, RaiseStatus,
       RaiseError, IsrEnter, IsrDisable, IsrSchedule, IsrError, IsrErrorClears, PollStarts,
       Process, ProcessEnds, Clear, PostProcess, Decide, CheckStatus, ProcessElsewhere
<1>6. stat' \subseteq Irqs /\ edge' \subseteq Irqs
  <2>1. stat \subseteq Irqs /\ edge \subseteq Irqs
    BY DEF NapiTypeOK
  <2>2. ASSUME NEW i \in Irqs, Raise(i) PROVE stat' \subseteq Irqs /\ edge' \subseteq Irqs
    BY <2>1, <2>2 DEF Raise
  <2>3. CASE (\E r \in Rings : RaiseStatus(r)) \/ RaiseError
    BY <2>2, <2>3 DEF RaiseStatus, RaiseError
  <2>4. CASE \E l \in Lines : IsrEnter(l) \/ IsrErrorClears(l)
    BY <2>1, <2>4 DEF IsrEnter, IsrErrorClears
  <2>5. CASE \E r \in Rings : Clear(r)
    BY <2>1, <2>5 DEF Clear
  <2>6. CASE UNCHANGED <<stat, edge>>
    BY <2>1, <2>6
  <2> QED
    BY <2>3, <2>4, <2>5, <2>6 DEF NapiNext, napiVars, hw, PollStep, IsrStep, FrameDone,
       IsrDisable, IsrSchedule, IsrError, PollStarts, Process, ProcessEnds, PostProcess,
       Decide, CheckStatus, Complete, Enable, ProcessElsewhere
<1>7. mask' \subseteq Irqs /\ masked' \subseteq Irqs
  <2>1. mask \subseteq Irqs /\ masked \subseteq Irqs
    BY DEF NapiTypeOK
  <2>2. CASE \E l \in Lines : \/ IsrError(l) \/ IsrErrorClears(l)
                              \/ \E r \in Rings : IsrDisable(l, r) \/ IsrSchedule(l, r)
    BY <2>1, <2>2 DEF IsrError, IsrErrorClears, IsrDisable, IsrSchedule
  <2>3. CASE \E r \in Rings : Enable(r)
    BY <2>1, <2>3 DEF Enable
  <2>4. CASE UNCHANGED <<mask, masked>>
    BY <2>1, <2>4
  <2> QED
    BY <2>2, <2>3, <2>4 DEF NapiNext, napiVars, PollStep, IsrStep, FrameDone, RaiseStatus,
       RaiseError, IsrEnter, PollStarts, Process, ProcessEnds, Clear, PostProcess, Decide,
       CheckStatus, Complete, ProcessElsewhere
<1>8. isr' \in [Lines -> SUBSET Irqs]
  <2>1. isr \in [Lines -> SUBSET Irqs]
    BY DEF NapiTypeOK
  <2>2. ASSUME NEW l \in Lines, IsrEnter(l)
        PROVE  isr' \in [Lines -> SUBSET Irqs]
    <3>1. Serves(l) \subseteq Irqs
      BY DEF Serves
    <3>2. ~Shared => l \in Irqs
      BY <2>2 DEF IsrEnter, Serves
    <3>3. PICK S \in SUBSET Irqs : isr' = [isr EXCEPT ![l] = S]
      BY <2>2, <3>1, <3>2 DEF IsrEnter
    <3> QED BY <2>1, <3>3
  <2>3. CASE \E l \in Lines : IsrErrorClears(l) \/ \E r \in Rings : IsrSchedule(l, r)
    BY <2>1, <2>3 DEF IsrErrorClears, IsrSchedule
  <2>4. CASE UNCHANGED isr
    BY <2>1, <2>4
  <2> QED
    BY <2>2, <2>3, <2>4 DEF NapiNext, napiVars, PollStep, IsrStep, FrameDone, RaiseStatus,
       RaiseError, IsrDisable, IsrError, PollStarts, Process, ProcessEnds, Clear,
       PostProcess, Decide, CheckStatus, Complete, Enable, ProcessElsewhere
<1> QED
  BY <1>1, <1>2, <1>3, <1>4, <1>5, <1>6, <1>7, <1>8 DEF NapiTypeOK

\* What every step does to the poll function's position.
LEMMA NapiMoves ==
  ASSUME NapiPollAssumption, NapiTypeOK, BoardInv, [NapiNext]_napiVars
  PROVE  /\ BoardInv'
         /\ Level' = Level /\ Shared' = Shared
         /\ napi # "idle" /\ napi' = "idle" => Complete /\ ~missed
         /\ missed /\ ~missed' => Complete
<1>1. board' = board
  BY DEF NapiNext, napiVars, PollStep, IsrStep, FrameDone, RaiseStatus, RaiseError,
     IsrEnter, IsrDisable, IsrSchedule, IsrError, IsrErrorClears, PollStarts, Process,
     ProcessEnds, Clear, PostProcess, Decide, CheckStatus, Complete, Enable, ProcessElsewhere
<1>2. Level' = Level /\ Shared' = Shared
  BY <1>1 DEF Level, Shared
<1>3. /\ napi # "idle" /\ napi' = "idle" => Complete /\ ~missed
      /\ missed /\ ~missed' => Complete
      /\ missed' => napi' # "idle"
  <2>0. missed => napi # "idle"
    BY DEF BoardInv
  <2>1. CASE Complete
    BY <2>1 DEF Complete
  <2>2. CASE \E l \in Lines : IsrError(l) \/ \E r \in Rings : IsrSchedule(l, r)
    BY <2>2, <2>0 DEF IsrError, IsrSchedule, Schedule
  <2>3. CASE PollStarts \/ Decide \/ CheckStatus
    BY <2>3, <2>0 DEF PollStarts, Decide, CheckStatus, Goto
  <2>4. CASE \E r \in Rings : ProcessEnds(r) \/ Clear(r) \/ PostProcess(r)
    BY <2>4, <2>0 DEF ProcessEnds, Clear, PostProcess, Goto
  <2>5. CASE UNCHANGED <<napi, missed>>
    BY <2>5, <2>0
  <2> QED
    BY <2>1, <2>2, <2>3, <2>4, <2>5 DEF NapiNext, napiVars, poll, PollStep, IsrStep,
       FrameDone, RaiseStatus, RaiseError, IsrEnter, IsrDisable, IsrErrorClears, Process,
       Enable, ProcessElsewhere
<1> QED BY <1>1, <1>2, <1>3 DEF BoardInv

\* edgx_br_irq_disable in a handler, edgx_br_irq_enable after napi_complete_done.
LEMMA MaskStep ==
  ASSUME NapiPollAssumption, NapiTypeOK, BoardInv, MaskInv, [NapiNext]_napiVars
  PROVE  MaskInv'
<1> USE NapiFacts
<1> SUFFICES ASSUME NEW r \in Rings, r \notin mask'
             PROVE  Level' /\ ((\E l \in Lines : r \in isr'[l]) \/ napi' # "idle" \/ enable'[r] > 0)
  BY DEF MaskInv
<1>0. /\ r \notin mask => Level /\ ((\E l \in Lines : r \in isr[l]) \/ napi # "idle" \/ enable[r] > 0)
      /\ isr \in [Lines -> SUBSET Irqs] /\ enable \in [Rings -> Nat]
      /\ Level' = Level
      /\ napi # "idle" /\ napi' = "idle" => Complete /\ ~missed
  BY NapiMoves DEF MaskInv, NapiTypeOK
<1>1. ASSUME NEW l \in Lines, NEW s \in Rings, IsrDisable(l, s)
      PROVE  Level' /\ ((\E k \in Lines : r \in isr'[k]) \/ napi' # "idle" \/ enable'[r] > 0)
  <2>1. CASE r \in mask
    <3>1. r = s /\ Level /\ s \in isr[l] /\ isr' = isr
      BY <1>1, <2>1 DEF IsrDisable
    <3> QED BY <3>1, <1>0
  <2>2. CASE r \notin mask
    <3>1. isr' = isr /\ napi' = napi /\ enable' = enable
      BY <1>1 DEF IsrDisable, poll
    <3> QED BY <3>1, <2>2, <1>0
  <2> QED BY <2>1, <2>2
<1>2. ASSUME NEW l \in Lines, IsrError(l) \/ \E s \in Rings : IsrSchedule(l, s)
      PROVE  Level' /\ ((\E k \in Lines : r \in isr'[k]) \/ napi' # "idle" \/ enable'[r] > 0)
  <2>1. mask' = mask /\ napi' # "idle"
    BY <1>2 DEF IsrError, IsrSchedule, Schedule
  <2> QED BY <2>1, <1>0
<1>3. ASSUME NEW l \in Lines, IsrEnter(l)
      PROVE  Level' /\ ((\E k \in Lines : r \in isr'[k]) \/ napi' # "idle" \/ enable'[r] > 0)
  <2>1. /\ isr[l] = {} /\ \A k \in Lines : k # l => isr'[k] = isr[k]
        /\ mask' = mask /\ napi' = napi /\ enable' = enable
    BY <1>3, <1>0 DEF IsrEnter, poll
  <2> QED BY <2>1, <1>0
<1>4. ASSUME NEW l \in Lines, IsrErrorClears(l)
      PROVE  Level' /\ ((\E k \in Lines : r \in isr'[k]) \/ napi' # "idle" \/ enable'[r] > 0)
  <2>1. /\ \A k \in Lines : r \in isr'[k] <=> r \in isr[k]
        /\ mask' = mask /\ napi' = napi /\ enable' = enable
    BY <1>4, <1>0 DEF IsrErrorClears, poll
  <2> QED BY <2>1, <1>0
<1>5. CASE Complete
  <2>1. mask' = mask /\ napi = "complete"
    BY <1>5 DEF Complete
  <2>2. CASE missed
    BY <2>1, <2>2, <1>0, <1>5 DEF Complete
  <2>3. CASE ~missed
    <3>1. enable'[r] = enable[r] + 1
      BY <1>5, <2>3 DEF Complete
    <3> QED BY <2>1, <3>1, <1>0
  <2> QED BY <2>2, <2>3
<1>6. ASSUME NEW s \in Rings, Enable(s)
      PROVE  Level' /\ ((\E k \in Lines : r \in isr'[k]) \/ napi' # "idle" \/ enable'[r] > 0)
  <2>1. r \notin mask /\ isr' = isr /\ napi' = napi
    BY <1>6 DEF Enable, poll
  <2>2. r # s
    BY <1>6, <1>0, <2>1 DEF Enable
  <2>3. enable'[r] = enable[r]
    BY <1>6, <1>0, <2>2 DEF Enable
  <2> QED BY <2>1, <2>3, <1>0
<1>7. CASE UNCHANGED <<mask, isr, enable>> /\ ~Complete
  BY <1>7, <1>0
<1> QED
  BY <1>1, <1>2, <1>3, <1>4, <1>5, <1>6, <1>7 DEF NapiNext, napiVars, PollStep, IsrStep,
     FrameDone, RaiseStatus, RaiseError, PollStarts, Process, ProcessEnds, Clear, PostProcess,
     Decide, CheckStatus, ProcessElsewhere

\* edgx_dma_poll_rx and the status: a frame that no status bit will announce is looked for
\* before the poll function completes.
LEMMA LookStep ==
  ASSUME NapiPollAssumption, NapiTypeOK, LookInv, [NapiNext]_napiVars
  PROVE  LookInv'
<1> USE NapiFacts
<1> DEFINE Announced(r) == raising[r] > 0 \/ r \in stat
           Looked(r) ==
             \/ napi \in {"scheduled", "tx"}
             \/ r = Tx /\ napi = "post_tx"
             \/ r = Rx /\ napi \in {"clear_tx", "post_tx", "rx", "post_rx"}
             \/ (post \/ used[r] = Budget) /\ napi \in {"rx", "clear_rx", "post_rx", "decide"}
<1> SUFFICES ASSUME NEW r \in Rings, done'[r] > 0
             PROVE  Announced(r)' \/ Looked(r)'
  BY DEF LookInv
<1>0. /\ done[r] > 0 => Announced(r) \/ Looked(r)
      /\ done \in [Rings -> 0..MaxArrivals] /\ raising \in [Rings -> 0..MaxArrivals]
      /\ used \in [Rings -> 0..Budget] /\ napi \in {"idle", "scheduled"} \cup Steps
  BY DEF LookInv, NapiTypeOK
\* the hardware
<1>1. ASSUME NEW s \in Rings, FrameDone(s)
      PROVE  Announced(r)' \/ Looked(r)'
  <2>1. r # s => done'[r] = done[r] /\ raising'[r] = raising[r]
    BY <1>1, <1>0 DEF FrameDone
  <2>2. r = s => raising'[r] > 0
    BY <1>1, <1>0 DEF FrameDone
  <2>3. stat' = stat /\ UNCHANGED poll
    BY <1>1 DEF FrameDone
  <2> QED BY <2>1, <2>2, <2>3, <1>0 DEF poll
<1>2. ASSUME NEW s \in Rings, RaiseStatus(s)
      PROVE  Announced(r)' \/ Looked(r)'
  <2>1. r # s => raising'[r] = raising[r]
    BY <1>2, <1>0 DEF RaiseStatus
  <2>2. stat' = stat \cup {s} /\ done' = done /\ UNCHANGED poll
    BY <1>2 DEF RaiseStatus, Raise
  <2> QED BY <2>1, <2>2, <1>0 DEF poll
<1>3. CASE RaiseError
  BY <1>3, <1>0 DEF RaiseError, Raise, poll
\* the handlers
<1>4. ASSUME NEW l \in Lines, IsrError(l) \/ \E s \in Rings : IsrSchedule(l, s)
      PROVE  Announced(r)' \/ Looked(r)'
  <2>1. /\ UNCHANGED <<done, raising, stat, used, post>>
        /\ napi' = napi \/ (napi = "idle" /\ napi' = "scheduled")
    BY <1>4 DEF IsrError, IsrSchedule, Schedule, hw
  <2>2. CASE napi' = napi
    BY <2>1, <2>2, <1>0
  <2>3. CASE napi' = "scheduled"
    BY <2>3
  <2> QED BY <2>1, <2>2, <2>3
<1>5. ASSUME NEW l \in Lines, IsrErrorClears(l)
      PROVE  Announced(r)' \/ Looked(r)'
  BY <1>5, <1>0 DEF IsrErrorClears, poll
\* the poll function
<1>6. CASE PollStarts
  BY <1>6, <1>0 DEF PollStarts, Goto, hw
<1>7. ASSUME NEW s \in Rings, Process(s)
      PROVE  Announced(r)' \/ Looked(r)'
  <2>1. /\ done'[r] \in Nat /\ done[r] >= done'[r] /\ UNCHANGED <<raising, stat, napi, post>>
        /\ used[s] < Budget /\ \A q \in Rings : q # s => used'[q] = used[q]
        /\ napi = IF s = Tx THEN "tx" ELSE "rx"
    BY <1>7, <1>0 DEF Process
  <2>2. CASE r = s
    BY <2>1, <2>2
  <2>3. CASE r # s
    <3>1. done[r] > 0 /\ used'[r] = used[r]
      BY <2>1, <2>3, <1>0
    <3> QED BY <2>1, <3>1, <1>0
  <2> QED BY <2>2, <2>3
<1>8. ASSUME NEW s \in Rings, ProcessEnds(s)
      PROVE  Announced(r)' \/ Looked(r)'
  <2>1. /\ napi = (IF s = Tx THEN "tx" ELSE "rx") /\ (done[s] = 0 \/ used[s] = Budget)
        /\ napi' = IF used[s] < Budget THEN (IF s = Tx THEN "clear_tx" ELSE "clear_rx")
                                       ELSE (IF s = Tx THEN "rx" ELSE "decide")
        /\ UNCHANGED <<done, raising, stat, used, post>>
    BY <1>8 DEF ProcessEnds, Goto, hw
  <2>2. CASE s = Tx /\ r = Tx
    BY <2>1, <2>2, <1>0
  <2>3. CASE s = Tx /\ r = Rx
    BY <2>1, <2>3, <1>0
  <2>4. CASE s = Rx /\ r = Tx
    BY <2>1, <2>4, <1>0
  <2>5. CASE s = Rx /\ r = Rx
    BY <2>1, <2>5, <1>0
  <2> QED BY <2>2, <2>3, <2>4, <2>5
<1>9. ASSUME NEW s \in Rings, Clear(s)
      PROVE  Announced(r)' \/ Looked(r)'
  <2>1. /\ napi = (IF s = Tx THEN "clear_tx" ELSE "clear_rx")
        /\ napi' = (IF s = Tx THEN "post_tx" ELSE "post_rx")
        /\ UNCHANGED <<done, used, post>>
        /\ r # s => UNCHANGED raising[r] /\ (r \in stat' <=> r \in stat)
    BY <1>9, <1>0 DEF Clear, Goto
  <2>2. CASE r = s
    BY <2>1, <2>2
  <2>3. CASE r # s
    BY <2>1, <2>3, <1>0
  <2> QED BY <2>2, <2>3
<1>10. ASSUME NEW s \in Rings, PostProcess(s)
       PROVE  Announced(r)' \/ Looked(r)'
  <2>1. /\ napi = (IF s = Tx THEN "post_tx" ELSE "post_rx")
        /\ napi' = (IF s = Tx THEN "rx" ELSE "decide")
        /\ UNCHANGED <<raising, stat, used>>
        /\ post' <=> (post \/ done[s] > 0)
    BY <1>10 DEF PostProcess, Goto
  <2>2. done[r] > 0 /\ (r # s => done'[r] = done[r])
    BY <1>10, <1>0 DEF PostProcess
  <2>3. CASE r = s
    BY <2>1, <2>2, <2>3
  <2>4. CASE r # s
    BY <2>1, <2>2, <2>4, <1>0
  <2> QED BY <2>3, <2>4
<1>11. CASE Decide
  <2>1. /\ napi = "decide" /\ UNCHANGED <<done, raising, stat, used, post>>
        /\ post \/ used[r] = Budget => napi' = "scheduled"
    BY <1>11 DEF Decide, Goto, hw
  <2> QED BY <2>1, <1>0
<1>12. CASE CheckStatus \/ Complete
  <2>1. /\ napi \in {"check_status", "complete"}
        /\ UNCHANGED <<done, raising, stat>>
    BY <1>12 DEF CheckStatus, Complete, hw
  <2> QED BY <2>1, <1>0
<1>13. ASSUME NEW s \in Rings, ProcessElsewhere(s)
       PROVE  Announced(r)' \/ Looked(r)'
  <2>1. done[r] > 0 /\ UNCHANGED <<raising, stat, poll>>
    BY <1>13, <1>0 DEF ProcessElsewhere
  <2> QED BY <2>1, <1>0 DEF poll
<1>14. CASE UNCHANGED <<done, raising, stat, poll>>
  BY <1>14, <1>0 DEF poll
<1> HIDE DEF Announced, Looked
<1> QED
  BY <1>1, <1>2, <1>3, <1>4, <1>5, <1>6, <1>7, <1>8, <1>9, <1>10, <1>11, <1>12, <1>13, <1>14
     DEF NapiNext, napiVars, hw, PollStep, IsrStep, IsrEnter, IsrDisable, Enable

\* EDGX_DMA_EDGE_TRIG_WORKAROUND: a bit that was set while it was cleared is looked for
\* after that; later, it makes an edge.
LEMMA EdgeStep ==
  ASSUME NapiPollAssumption, NapiTypeOK, BoardInv, MaskInv, EdgeInv, [NapiNext]_napiVars
  PROVE  EdgeInv'
<1> USE NapiFacts
<1> DEFINE Known(r) == \/ r \in edge \/ \E l \in Lines : r \in isr[l]
                       \/ napi \notin {"idle", "complete"} \/ missed
<1> SUFFICES ASSUME ~Level, NEW r \in Rings, r \in stat'
             PROVE  Known(r)'
  BY NapiMoves DEF EdgeInv
<1>0. /\ r \in stat => Known(r)
      /\ isr \in [Lines -> SUBSET Irqs] /\ ~Shared /\ r \in mask
      /\ missed => napi # "idle"
  BY DEF EdgeInv, NapiTypeOK, BoardInv, MaskInv, Level, Shared
\* the hardware: a bit that is set makes an edge
<1>1. ASSUME NEW i \in Irqs, Raise(i), UNCHANGED <<isr, poll>>
      PROVE  Known(r)'
  BY <1>1, <1>0 DEF Raise, Rises, poll
<1>2. CASE (\E s \in Rings : RaiseStatus(s)) \/ RaiseError
  BY <1>1, <1>2 DEF RaiseStatus, RaiseError
\* the handlers: an edge becomes an interrupt to serve, which schedules the poll function
<1>3. ASSUME NEW l \in Lines, IsrEnter(l)
      PROVE  Known(r)'
  <2>1. /\ edge' = edge \ Serves(l) /\ isr'[l] = {l} /\ isr[l] = {}
        /\ \A k \in Lines : k # l => isr'[k] = isr[k]
        /\ stat' = stat /\ UNCHANGED poll
    BY <1>3, <1>0 DEF IsrEnter
  <2>2. Serves(l) \subseteq {l}
    BY <1>0 DEF Serves
  <2> QED BY <2>1, <2>2, <1>0 DEF poll
<1>4. ASSUME NEW l \in Lines, IsrError(l) \/ \E s \in Rings : IsrSchedule(l, s)
      PROVE  Known(r)'
  <2>1. (napi' # "idle") /\ (napi # "idle" => missed') /\ (napi = "idle" => napi' = "scheduled")
    BY <1>4 DEF IsrError, IsrSchedule, Schedule
  <2> QED BY <2>1
<1>5. ASSUME NEW l \in Lines, IsrErrorClears(l)
      PROVE  Known(r)'
  <2>1. /\ \A k \in Lines : r \in isr'[k] <=> r \in isr[k]
        /\ r \in stat /\ UNCHANGED <<edge, poll>>
    BY <1>5, <1>0 DEF IsrErrorClears
  <2> QED BY <2>1, <1>0 DEF poll
\* the poll function
<1>6. CASE PollStarts \/ Decide \/ \E s \in Rings : ProcessEnds(s) \/ Clear(s) \/ PostProcess(s)
  BY <1>6 DEF PollStarts, Decide, ProcessEnds, Clear, PostProcess, Goto
<1>7. CASE CheckStatus
  <2>1. stat' = stat
    BY <1>7 DEF CheckStatus, hw
  <2>2. napi' = "scheduled"
    BY <1>7, <2>1 DEF CheckStatus, Goto
  <2> QED BY <2>2
<1>8. CASE Complete
  BY <1>8, <1>0 DEF Complete, hw
<1>9. ASSUME NEW s \in Rings,
             \/ FrameDone(s) \/ Process(s) \/ Enable(s) \/ ProcessElsewhere(s)
             \/ \E l \in Lines : IsrDisable(l, s)
      PROVE  Known(r)'
  BY <1>9, <1>0 DEF FrameDone, Process, Enable, ProcessElsewhere, IsrDisable, hw, poll
<1>10. CASE UNCHANGED napiVars
  BY <1>10, <1>0 DEF napiVars, hw, poll
<1> HIDE DEF Known
<1> QED
  BY <1>2, <1>3, <1>4, <1>5, <1>6, <1>7, <1>8, <1>9, <1>10 DEF NapiNext, PollStep, IsrStep

-----------------------------------------------------------------------------
\* The inductive invariant of the poll function and its interrupts
\* (edgx_dma_poll_rx, edgx_dma_tx_isr, edgx_dma_rx_isr, edgx_dma_err_isr).
THEOREM PollInvHolds ==
  ASSUME NapiPollAssumption, \A b \in Boards : b.level \/ ~b.shared
  PROVE  NapiSpec => []PollInv
<1>1. NapiInit => PollInv
  BY NapiInitial
<1>2. PollInv /\ [NapiNext]_napiVars => PollInv'
  BY NapiTypeStep, NapiMoves, MaskStep, LookStep, EdgeStep DEF PollInv
<1> QED BY <1>1, <1>2, PTL DEF NapiSpec

\* When everything rests, no frame is left in a ring and the next one interrupts
\* (edge_com_dma.c:574-628), on any number of boards, with any budget and many frames.
THEOREM NapiInvAlways ==
  ASSUME NapiPollAssumption, \A b \in Boards : b.level \/ ~b.shared
  PROVE  NapiSpec => []NapiInv
<1>1. PollInv => NapiInv
  <2> SUFFICES ASSUME PollInv, Resting
               PROVE  (\A r \in Rings : done[r] = 0) /\ Rings \subseteq mask /\ stat \cap Rings = {}
    BY DEF PollInv, NapiInv, NoFrameForgotten, NextFrameInterrupts
  <2>1. ASSUME NEW r \in Rings
        PROVE  done[r] = 0 /\ r \in mask /\ r \notin stat
    <3>1. napi = "idle" /\ enable[r] = 0 /\ raising[r] = 0 /\ \A l \in Lines : isr[l] = {}
      BY DEF Resting
    <3>2. r \in mask
      BY <3>1 DEF PollInv, MaskInv
    <3>3. r \notin stat
      <4>1. CASE Level
        BY <4>1, <3>2 DEF Resting
      <4>2. CASE ~Level
        <5>1. edge = {} /\ ~missed
          BY <4>2, <3>1 DEF Resting, PollInv, BoardInv
        <5> QED BY <4>2, <3>1, <5>1 DEF PollInv, EdgeInv
      <4> QED BY <4>1, <4>2
    <3>4. ~(done[r] > 0)
      BY <3>1, <3>3 DEF PollInv, LookInv
    <3>5. done[r] \in Nat
      BY NapiFacts DEF PollInv, NapiTypeOK
    <3> QED BY <3>2, <3>3, <3>4, <3>5
  <2> QED BY <2>1
<1> QED BY <1>1, PollInvHolds, PTL
=============================================================================
