--------------------------- MODULE TimestampProofs ---------------------------
(***************************************************************************)
(* Theorems about TxTimestamp and Receive, for any sizes of the rings and     *)
(* fifos, setups, range of the seconds and numbers of frames.                *)
(*                                                                          *)
(* Transmission.  No timestamp is forgotten, because of where the work item   *)
(* stands (IrqInv).  A timestamp is completed exactly, because it is read     *)
(* within a second of its own and of the clock's (StampInv), a frame leaves   *)
(* once (FrameInv), and the range of the seconds is larger than what is       *)
(* looked at.  The fifo stays in step, because no more frames wait for a      *)
(* timestamp than the switch has room for (QueueInv).                        *)
(*                                                                          *)
(* Reception (in the second half).  A frame gets its own timestamp only,  *)
(* with the right second, because frames and timestamps are kept in one order *)
(* (RxOrderInv), a place in the ring is taken once (RxRoomInv), and no frame  *)
(* waits so long that the seconds repeat (RxExactInv).  What a search takes   *)
(* away belongs to frames that were taken before, or is given in exchange     *)
(* for a frame that has lost its own (RxLossInv).                            *)
(***************************************************************************)
EXTENDS TxTimestamp, Receive, SequenceTheorems, FiniteSetTheorems, TLAPS

\* Timestamps without a new interrupt are about to be looked for; a masked interrupt
\* belongs to work to come or under way; and a status that is set has had its edge.
IrqInv ==
  /\ stamps # <<>> /\ ~stat => work \in {"time", "status", "read", "find"}
  /\ ~mask => Level /\ (queued \/ work # "idle")
  /\ ~Level /\ stat => edge \/ queued \/ work = "clear"

\* A timestamp of this second or the one before, and of its frame's.
Right(s) ==
  /\ s \in StampType
  /\ sentAt[s.frame] \in Nat /\ sentAt[s.frame] \in {now - 1, now}
  /\ s.sec = (IF s.over THEN sentAt[s.frame] - 1 ELSE sentAt[s.frame]) % SecRange
  /\ s.over => MayOverrun

\* The timestamps that are kept or have been read are right, and so is the clock.
StampInv ==
  /\ \A i \in DOMAIN stamps : Right(stamps[i])
  /\ stamp # NoStamp => Right(stamp)
  /\ work \in {"status", "read", "find"} => curTime \in {now - 1, now}
  /\ work = "find" <=> stamp # NoStamp
  /\ work = "read" => stamps # <<>>

\* A frame leaves once, after it was sent.
FrameInv ==
  /\ \A i \in DOMAIN ring : ring[i] < next /\ sentAt[ring[i]] = None
  /\ \A i, j \in DOMAIN ring : i < j => ring[i] < ring[j]
  /\ \A n \in Frames : n >= next => sentAt[n] = None

TxInv == TypeOK /\ IrqInv /\ StampInv /\ FrameInv /\ StampExact

\* The frames in the fifo wait for their timestamps, in their order; there are no more
\* than the stack has under way.
QueueInv ==
  Nominal =>
    /\ \A i \in DOMAIN queue : queue[i] \in Outstanding
    /\ \A i, j \in DOMAIN queue : i < j => queue[i] < queue[j]
    /\ Len(queue) <= MaxOutstanding
    /\ dropped = {}

-----------------------------------------------------------------------------
(* The seconds.                                                             *)

\* A multiple of n that is smaller than n is zero.
LEMMA Multiple ==
  ASSUME NEW n \in Nat \ {0}, NEW k \in Int, -n < n * k, n * k < n
  PROVE  k = 0
<1>1. k >= 1 => n * k >= n
  OBVIOUS
<1>2. k <= -1 => n * k <= -n
  OBVIOUS
<1> QED BY <1>1, <1>2

\* Division with remainder.
LEMMA ModForm ==
  ASSUME NEW n \in Nat \ {0}, NEW a \in Int
  PROVE  a % n \in 0..(n - 1) /\ \E q \in Int : a = (n * q) + (a % n)
<1>1. a % n \in 0..(n - 1) /\ a \div n \in Int
  OBVIOUS
<1>2. a = (n * (a \div n)) + (a % n)
  OBVIOUS
<1> QED BY <1>1, <1>2

\* Of less than n times in a row, the remainder tells which one it is.
LEMMA ModTells ==
  ASSUME NEW n \in Nat \ {0}, NEW a \in Int, NEW b \in Int,
         -n < a - b, a - b < n, a % n = b % n
  PROVE  a = b
<1>1. PICK p \in Int : a = (n * p) + (a % n)
  BY ModForm
<1>2. PICK q \in Int : b = (n * q) + (b % n)
  BY ModForm
<1>3. n * (p - q) = (n * p) - (n * q) /\ p - q \in Int
  OBVIOUS
<1>4. (a % n) \in Int /\ (n * p) \in Int /\ (n * q) \in Int
  BY ModForm
<1>5. -n < n * (p - q) /\ n * (p - q) < n
  BY <1>1, <1>2, <1>3, <1>4
<1>6. p - q = 0
  BY <1>3, <1>5, Multiple
<1> QED BY <1>1, <1>2, <1>6

\* Without a carry, the remainder before is one less.
LEMMA ModBefore ==
  ASSUME NEW n \in Nat \ {0}, NEW a \in Int, a % n > 0
  PROVE  (a - 1) % n = (a % n) - 1
<1>1. PICK q \in Int : a = (n * q) + (a % n)
  BY ModForm
<1>0. a - 1 \in Int
  OBVIOUS
<1>2. PICK p \in Int : a - 1 = (n * p) + ((a - 1) % n)
  BY <1>0, ModForm
<1>3. (a % n) \in 0..(n - 1) /\ ((a - 1) % n) \in 0..(n - 1)
  BY <1>0, ModForm
<1>4. n * (p - q) = (n * p) - (n * q) /\ p - q \in Int
  OBVIOUS
<1>5. (n * p) \in Int /\ (n * q) \in Int
  OBVIOUS
<1>6. n * (p - q) = (a % n) - 1 - ((a - 1) % n)
  BY <1>1, <1>2, <1>3, <1>4, <1>5
<1>7. -n < n * (p - q) /\ n * (p - q) < n
  BY <1>3, <1>6
<1>8. p - q = 0
  BY <1>4, <1>7, Multiple
<1> QED BY <1>3, <1>6, <1>8

\* edgx_com_ts_read: a second whose remainder is that of the timestamp, counted up but not
\* reduced if the nanoseconds were over, is the timestamp's if it is less than n away.
LEMMA SecondTells ==
  ASSUME NEW n \in Nat \ {0}, NEW x \in Int, NEW t \in Int, NEW over \in BOOLEAN,
         -n < x - t, x - t < n,
         x % n = ((IF over THEN t - 1 ELSE t) % n) + (IF over THEN 1 ELSE 0)
  PROVE  x = t
<1>1. CASE ~over
  <2>1. t % n \in Int
    BY ModForm
  <2>2. x % n = t % n
    BY <1>1, <2>1
  <2>3. QED
    BY <2>2, ModTells
<1>2. CASE over
  <2>1. (t - 1) % n \in 0..(n - 1) /\ t - 1 \in Int /\ x - 1 \in Int
    BY ModForm
  <2>2. x % n = ((t - 1) % n) + 1
    BY <1>2
  <2>3. x % n > 0
    BY <2>1, <2>2
  <2>4. (x - 1) % n = (x % n) - 1
    BY <2>3, ModBefore
  <2>5. (x - 1) % n = (t - 1) % n
    BY <2>1, <2>2, <2>4
  <2>6. -n < (x - 1) - (t - 1) /\ (x - 1) - (t - 1) < n
    OBVIOUS
  <2>7. x - 1 = t - 1
    BY <2>1, <2>5, <2>6, ModTells
  <2>8. QED
    BY <2>7
<1>3. QED
  BY <1>1, <1>2

\* edgx_com_ts_read: a timestamp read within a second of the clock's is completed with its
\* own seconds or, if the nanoseconds count one more and the sum is not reduced, with none.
LEMMA FullSecExact ==
  ASSUME TxTimestampAssumption, curTime \in Nat, NEW s \in StampType,
         NEW t \in Nat, t \in {curTime - 1, curTime, curTime + 1},
         s.sec = (IF s.over THEN t - 1 ELSE t) % SecRange
  PROVE  /\ FullSec(s) \in {t, None}
         /\ ~s.over => FullSec(s) = t
<1> DEFINE sec   == s.sec + (IF s.over THEN 1 ELSE 0)
           cands == {x \in {curTime, curTime - 1, curTime + 1} : x % SecRange = sec}
<1>1. SecRange \in Nat \ {0} /\ SecRange > 3
  BY DEF TxTimestampAssumption
<1>2. FullSec(s) = IF cands = {} THEN None ELSE CHOOSE x \in cands : TRUE
  BY DEF FullSec
<1>3. ASSUME NEW x \in cands PROVE x = t
  <2>1. x \in Int /\ x % SecRange = sec /\ -3 < x - t /\ x - t < 3
    OBVIOUS
  <2>2. -SecRange < x - t /\ x - t < SecRange
    BY <1>1, <2>1
  <2>3. x % SecRange = ((IF s.over THEN t - 1 ELSE t) % SecRange) + (IF s.over THEN 1 ELSE 0)
    BY <2>1
  <2>4. s.over \in BOOLEAN /\ t \in Int
    BY DEF StampType
  <2> HIDE DEF sec, cands
  <2>5. QED
    BY <1>1, <2>1, <2>2, <2>3, <2>4, SecondTells
<1>4. ~s.over => t \in cands
  <2>1. ASSUME ~s.over PROVE t % SecRange = sec
    <3>1. t % SecRange \in Int
      BY <1>1
    <3>2. QED
      BY <2>1, <3>1
  <2>2. QED
    BY <2>1
<1> HIDE DEF sec, cands
<1>5. cands # {} => (CHOOSE x \in cands : TRUE) = t
  BY <1>3
<1>6. QED
  BY <1>2, <1>4, <1>5

\* Seconds are whole numbers in any case.
LEMMA FullSecType ==
  ASSUME curTime \in Nat, NEW s PROVE FullSec(s) \in Int
<1> DEFINE sec   == s.sec + (IF s.over THEN 1 ELSE 0)
           cands == {x \in {curTime, curTime - 1, curTime + 1} : x % SecRange = sec}
<1>1. FullSec(s) = IF cands = {} THEN None ELSE CHOOSE x \in cands : TRUE
  BY DEF FullSec
<1>2. cands \subseteq Int
  OBVIOUS
<1> HIDE DEF cands
<1>3. cands # {} => (CHOOSE x \in cands : TRUE) \in cands
  OBVIOUS
<1>4. None \in Int
  BY DEF None
<1>5. QED
  BY <1>1, <1>2, <1>3, <1>4

-----------------------------------------------------------------------------
(* The types.                                                               *)

LEMMA SetupType ==
  ASSUME TxTimestampAssumption, TypeOK
  PROVE  /\ MaxOutstanding \in Nat \ {0} /\ setup.frames \in 0..MaxFrames
         /\ Level \in BOOLEAN /\ MayFail \in BOOLEAN /\ MayOverrun \in BOOLEAN
         /\ MaxFrames \in Nat /\ Frames \subseteq Nat
<1>1. setup \in Setups
  BY DEF TypeOK
<1>2. QED
  BY <1>1 DEF TxTimestampAssumption, MaxOutstanding, Level, MayFail, MayOverrun, Frames

\* A frame the stack may send has a number.
LEMMA NextFrame ==
  ASSUME TxTimestampAssumption, TypeOK, MaySend
  PROVE  next \in Frames /\ next + 1 \in 1..(MaxFrames + 1) /\ next \in Nat
<1>1. next \in 1..(MaxFrames + 1) /\ next <= setup.frames
  BY DEF TypeOK, MaySend
<1>2. setup.frames \in 0..MaxFrames /\ MaxFrames \in Nat
  BY SetupType
<1>3. QED
  BY <1>1, <1>2 DEF Frames

LEMMA NewStampType ==
  ASSUME TxTimestampAssumption, TypeOK, NEW n \in Frames, NEW over \in BOOLEAN
  PROVE  [frame |-> n, over |-> over,
          sec |-> (IF over THEN now - 1 ELSE now) % SecRange] \in StampType
<1>1. SecRange \in Nat \ {0} /\ now \in Nat
  BY DEF TxTimestampAssumption, TypeOK
<1>2. (now - 1) % SecRange \in 0..(SecRange - 1) /\ now % SecRange \in 0..(SecRange - 1)
  BY <1>1
<1>3. (IF over THEN now - 1 ELSE now) % SecRange \in 0..(SecRange - 1)
  BY <1>2
<1>4. QED
  BY <1>3 DEF StampType

LEMMA TypeStep ==
  ASSUME TxTimestampAssumption, TypeOK, StampInv, [Next]_vars
  PROVE  TypeOK'
<1>1. CASE Xmit /\ setup' = setup
  <2>1. MaySend
    BY <1>1 DEF Xmit, TsXmit, TsXmitUnrequested, TsXmitMappingFails
  <2>2. next \in Frames /\ next + 1 \in 1..(MaxFrames + 1)
    BY <2>1, NextFrame
  <2>3. /\ queue \in Seq(Frames) /\ Len(queue) \in Nat /\ Len(queue) <= FifoLen
        /\ ring \in Seq(Frames) /\ FifoLen \in Nat
    BY DEF TypeOK, TxTimestampAssumption
  <2>4. /\ Append(queue, next) \in Seq(Frames) /\ Len(Append(queue, next)) = Len(queue) + 1
        /\ Append(ring, next) \in Seq(Frames)
    BY <2>2, <2>3
  <2>5. queue' \in Seq(Frames) /\ Len(queue') <= FifoLen /\ ring' \in Seq(Frames)
    <3>1. /\ queue' = queue \/ (Len(queue) < FifoLen /\ queue' = Append(queue, next))
          /\ ring' = ring \/ ring' = Append(ring, next)
      BY <1>1 DEF Xmit, TsXmit, TsXmitUnrequested, TsXmitMappingFails
    <3>2. Len(queue) < FifoLen => Len(queue) + 1 <= FifoLen
      BY <2>3
    <3>3. QED
      BY <2>3, <2>4, <3>1, <3>2
  <2>6. next' \in 1..(MaxFrames + 1) /\ dropped' \subseteq Frames
    BY <1>1, <2>2 DEF Xmit, TsXmit, TsXmitUnrequested, TsXmitMappingFails, hist, TypeOK
  <2>7. QED
    BY <1>1, <2>5, <2>6
    DEF Xmit, TsXmit, TsXmitUnrequested, TsXmitMappingFails, irq, hist, TypeOK
<1>2. CASE HwTransmits /\ setup' = setup
  <2>1. ring \in Seq(Frames) /\ ring # <<>> /\ stamps \in Seq(StampType)
        /\ Len(stamps) <= HwFifoLen /\ HwFifoLen \in Nat /\ Len(stamps) \in Nat
    BY <1>2 DEF HwTransmits, TypeOK, TxTimestampAssumption
  <2>2. Head(ring) \in Frames /\ Tail(ring) \in Seq(Frames)
    BY <2>1
  <2>3. stamps' \in Seq(StampType) /\ Len(stamps') <= HwFifoLen
    <3>1. CASE Len(stamps) < HwFifoLen
      <4>1. PICK over \in BOOLEAN :
              stamps' = Append(stamps, [frame |-> Head(ring), over |-> over,
                                  sec |-> (IF over THEN now - 1 ELSE now) % SecRange])
        BY <1>2, <3>1 DEF HwTransmits
      <4>2. QED
        BY <2>1, <2>2, <3>1, <4>1, NewStampType
    <3>2. CASE ~(Len(stamps) < HwFifoLen)
      BY <1>2, <2>1, <3>2 DEF HwTransmits
    <3>3. QED
      BY <3>1, <3>2
  <2>4. stat' \in BOOLEAN /\ edge' \in BOOLEAN
    BY <1>2 DEF HwTransmits, TypeOK
  <2>5. sentAt' \in [Frames -> Int]
    BY <1>2, <2>2 DEF HwTransmits, TypeOK
  <2>6. QED
    BY <1>2, <2>2, <2>3, <2>4, <2>5 DEF HwTransmits, TypeOK
<1>3. CASE Tick /\ setup' = setup
  <2>1. now' \in Nat
    BY <1>3 DEF Tick, TypeOK
  <2>2. QED
    BY <1>3, <2>1 DEF Tick, irq, hist, TypeOK
<1>4. CASE Isr /\ setup' = setup
  BY <1>4 DEF Isr, hist, TypeOK
<1>5. CASE (WorkStarts \/ WorkClears \/ FindTxStatus \/ WorkEnables) /\ setup' = setup
  BY <1>5 DEF WorkStarts, WorkClears, FindTxStatus, WorkEnables, irq, hist, TypeOK, Steps
<1>6. CASE WorkTakesTime /\ setup' = setup
  BY <1>6 DEF WorkTakesTime, irq, hist, TypeOK, Steps
<1>7. CASE FindTxReads /\ setup' = setup
  <2>1. stamps \in Seq(StampType) /\ stamps # <<>> /\ Len(stamps) <= HwFifoLen
        /\ Len(stamps) \in Nat /\ HwFifoLen \in Nat
    BY <1>7 DEF FindTxReads, StampInv, TypeOK, TxTimestampAssumption
  <2>2. stamp' \in StampType /\ stamps' \in Seq(StampType) /\ Len(stamps') <= HwFifoLen
    BY <1>7, <2>1 DEF FindTxReads
  <2>3. QED
    BY <1>7, <2>2 DEF FindTxReads, irq, hist, TypeOK, Steps
<1>8. CASE FindTxMatches /\ setup' = setup
  <2>1. queue \in Seq(Frames) /\ queue # <<>> /\ Len(queue) <= FifoLen
        /\ Len(queue) \in Nat /\ FifoLen \in Nat
    BY <1>8 DEF FindTxMatches, TypeOK, TxTimestampAssumption
  <2>2. Head(queue) \in Frames /\ queue' \in Seq(Frames) /\ Len(queue') <= FifoLen
    BY <1>8, <2>1 DEF FindTxMatches
  <2>3. FullSec(stamp) \in Int
    BY FullSecType DEF TypeOK
  <2>4. got' \in [Frames -> Int] /\ dropped' \subseteq Frames
    BY <1>8, <2>2, <2>3 DEF FindTxMatches, TypeOK
  <2>5. work' \in Steps /\ stamp' \in StampType \cup {NoStamp}
    BY <1>8 DEF FindTxMatches, TypeOK, Steps
  <2>6. QED
    BY <1>8, <2>2, <2>4, <2>5 DEF FindTxMatches, irq, TypeOK
<1>9. CASE FindTxLoses /\ setup' = setup
  BY <1>9 DEF FindTxLoses, irq, hist, TypeOK, Steps
<1>10. CASE UNCHANGED vars
  BY <1>10 DEF vars, irq, hist, TypeOK
<1>11. QED
  BY <1>1, <1>2, <1>3, <1>4, <1>5, <1>6, <1>7, <1>8, <1>9, <1>10 DEF Next, WorkStep

-----------------------------------------------------------------------------
(* Interrupts.                                                              *)

LEMMA IrqInvStep ==
  ASSUME TxTimestampAssumption, TypeOK, IrqInv, [Next]_vars
  PROVE  IrqInv'
<1> USE SetupType
<1>1. CASE Xmit /\ setup' = setup
  BY <1>1 DEF Xmit, TsXmit, TsXmitUnrequested, TsXmitMappingFails, irq, IrqInv, Level
<1>2. CASE HwTransmits /\ setup' = setup
  BY <1>2 DEF HwTransmits, IrqInv, Level
<1>3. CASE Tick /\ setup' = setup
  BY <1>3 DEF Tick, irq, IrqInv, Level
<1>4. CASE Isr /\ setup' = setup
  BY <1>4 DEF Isr, IrqInv, Level
<1>5. CASE (WorkStarts \/ WorkClears \/ WorkTakesTime \/ WorkEnables) /\ setup' = setup
  BY <1>5 DEF WorkStarts, WorkClears, WorkTakesTime, WorkEnables, irq, IrqInv, Level
<1>6. CASE (FindTxStatus \/ FindTxLoses) /\ setup' = setup
  BY <1>6 DEF FindTxStatus, FindTxLoses, irq, IrqInv, Level
<1>7. CASE FindTxReads /\ setup' = setup
  BY <1>7 DEF FindTxReads, irq, IrqInv, Level
<1>8. CASE FindTxMatches /\ setup' = setup
  <2>1. work' \in {"find", "status"} /\ UNCHANGED <<stamps, stat, mask, edge, queued>>
    BY <1>8 DEF FindTxMatches, irq
  <2>2. work = "find"
    BY <1>8 DEF FindTxMatches
  <2>3. QED
    BY <1>8, <2>1, <2>2 DEF IrqInv, Level
<1>9. CASE UNCHANGED vars
  BY <1>9 DEF vars, irq, IrqInv, Level
<1>10. QED
  BY <1>1, <1>2, <1>3, <1>4, <1>5, <1>6, <1>7, <1>8, <1>9 DEF Next, WorkStep

-----------------------------------------------------------------------------
(* Frames and their timestamps.                                             *)

\* What is right stays right while its frame is not sent again and no time passes.
LEMMA RightStays ==
  ASSUME NEW s, Right(s), now' = now, setup' = setup, sentAt'[s.frame] = sentAt[s.frame]
  PROVE  Right(s)'
BY DEF Right, MayOverrun

\* The elements of a sequence of frames, and of one without its first.
LEMMA TailElements ==
  ASSUME NEW S, NEW seq \in Seq(S), seq # <<>>
  PROVE  /\ Head(seq) = seq[1] /\ 1 \in DOMAIN seq
         /\ \A i \in DOMAIN Tail(seq) : i + 1 \in DOMAIN seq /\ i \in Nat /\ i >= 1
                                        /\ Tail(seq)[i] = seq[i + 1]
<1>1. Len(seq) \in Nat /\ Len(seq) > 0
  OBVIOUS
<1>2. Head(seq) = seq[1] /\ 1 \in DOMAIN seq
  BY <1>1
<1>3. DOMAIN Tail(seq) = 1..(Len(seq) - 1)
  BY <1>1
<1>4. \A i \in 1..(Len(seq) - 1) : Tail(seq)[i] = seq[i + 1]
  BY HeadTailProperties
<1>5. \A i \in 1..(Len(seq) - 1) : i + 1 \in 1..Len(seq)
  BY <1>1
<1>6. QED
  BY <1>1, <1>2, <1>3, <1>4, <1>5

\* The elements of a sequence with one more.
LEMMA AppendElements ==
  ASSUME NEW S, NEW seq \in Seq(S), NEW e \in S
  PROVE  /\ DOMAIN seq = 1..Len(seq) /\ Len(seq) \in Nat
         /\ DOMAIN Append(seq, e) = 1..(Len(seq) + 1)
         /\ \A i \in 1..Len(seq) : Append(seq, e)[i] = seq[i]
         /\ Append(seq, e)[Len(seq) + 1] = e
BY AppendProperties

\* A timestamp that was read is completed with its own seconds, or with none.
LEMMA ReadExact ==
  ASSUME TxTimestampAssumption, TypeOK, StampInv, work = "find"
  PROVE  /\ FullSec(stamp) \in {sentAt[stamp.frame], None}
         /\ ~MayOverrun => FullSec(stamp) = sentAt[stamp.frame]
         /\ sentAt[stamp.frame] \in Nat /\ Right(stamp)
<1>1. Right(stamp) /\ curTime \in {now - 1, now} /\ now \in Nat /\ curTime \in Nat
  BY DEF StampInv, TypeOK
<1>2. stamp \in StampType /\ sentAt[stamp.frame] \in Nat
      /\ sentAt[stamp.frame] \in {curTime - 1, curTime, curTime + 1}
      /\ stamp.sec = (IF stamp.over THEN sentAt[stamp.frame] - 1 ELSE sentAt[stamp.frame])
                       % SecRange
      /\ (stamp.over => MayOverrun)
  BY <1>1 DEF Right
<1>3. /\ FullSec(stamp) \in {sentAt[stamp.frame], None}
      /\ ~stamp.over => FullSec(stamp) = sentAt[stamp.frame]
  BY <1>1, <1>2, FullSecExact
<1>4. QED
  BY <1>1, <1>2, <1>3

LEMMA FrameInvStep ==
  ASSUME TxTimestampAssumption, TypeOK, FrameInv, [Next]_vars
  PROVE  FrameInv'
<1> USE DEF None
<1>1. /\ ring \in Seq(Frames) /\ next \in Nat /\ Frames \subseteq Nat
      /\ \A i \in DOMAIN ring : ring[i] \in Frames /\ ring[i] \in Nat
  <2>1. ring \in Seq(Frames) /\ next \in Nat /\ Frames \subseteq Nat
    BY SetupType DEF TypeOK
  <2>2. \A i \in DOMAIN ring : ring[i] \in Frames
    BY <2>1, ElementOfSeq, LenProperties
  <2>3. QED
    BY <2>1, <2>2
<1>2. CASE (TsXmit \/ TsXmitUnrequested) /\ setup' = setup
  <2>1. next \in Frames /\ ring' = Append(ring, next) /\ next' = next + 1 /\ sentAt' = sentAt
    <3>1. MaySend
      BY <1>2 DEF TsXmit, TsXmitUnrequested
    <3>2. next \in Frames
      BY <3>1, NextFrame
    <3>3. QED
      BY <1>2, <3>2 DEF TsXmit, TsXmitUnrequested, hist
  <2>2. sentAt[next] = None
    BY <1>1, <2>1 DEF FrameInv
  <2>3. /\ DOMAIN ring = 1..Len(ring) /\ Len(ring) \in Nat
        /\ DOMAIN ring' = 1..(Len(ring) + 1)
        /\ \A i \in 1..Len(ring) : ring'[i] = ring[i]
        /\ ring'[Len(ring) + 1] = next
    BY <1>1, <2>1, AppendElements
  <2>4. \A i \in 1..Len(ring) : ring[i] \in Nat /\ ring[i] < next /\ sentAt[ring[i]] = None
    BY <1>1, <2>3 DEF FrameInv
  <2>5. ASSUME NEW i \in DOMAIN ring' PROVE ring'[i] < next' /\ sentAt'[ring'[i]] = None
    BY <1>1, <2>1, <2>2, <2>3, <2>4
  <2>6. ASSUME NEW i \in DOMAIN ring', NEW j \in DOMAIN ring', i < j
        PROVE  ring'[i] < ring'[j]
    <3>1. i \in 1..Len(ring)
      BY <2>3, <2>6
    <3>2. CASE j = Len(ring) + 1
      BY <2>3, <2>4, <3>1, <3>2
    <3>3. CASE j \in 1..Len(ring)
      BY <2>3, <2>6, <3>1, <3>3 DEF FrameInv
    <3>4. QED
      BY <2>3, <3>2, <3>3
  <2>7. \A n \in Frames : n >= next' => sentAt'[n] = None
    <3>1. \A n \in Frames : n >= next + 1 => n >= next
      BY <1>1
    <3>2. QED
      BY <2>1, <3>1 DEF FrameInv
  <2>8. QED
    BY <2>5, <2>6, <2>7 DEF FrameInv
<1>3. CASE HwTransmits /\ setup' = setup
  <2>1. ring # <<>> /\ ring' = Tail(ring) /\ next' = next
        /\ sentAt' = [sentAt EXCEPT ![Head(ring)] = now] /\ sentAt \in [Frames -> Int]
    BY <1>3 DEF HwTransmits, TypeOK
  <2>2. /\ Head(ring) = ring[1] /\ 1 \in DOMAIN ring
        /\ \A i \in DOMAIN Tail(ring) : i + 1 \in DOMAIN ring /\ i \in Nat /\ i >= 1
                                        /\ Tail(ring)[i] = ring[i + 1]
    BY <1>1, <2>1, TailElements
  <2>3. ASSUME NEW i \in DOMAIN ring' PROVE ring'[i] < next' /\ sentAt'[ring'[i]] = None
    <3>1. i + 1 \in DOMAIN ring /\ ring'[i] = ring[i + 1] /\ 1 < i + 1
      BY <2>1, <2>2
    <3>2. ring[1] < ring[i + 1] /\ ring[i + 1] < next /\ sentAt[ring[i + 1]] = None
      BY <2>2, <3>1 DEF FrameInv
    <3>3. ring[1] \in Nat /\ ring[i + 1] \in Frames /\ ring[i + 1] \in Nat
      BY <1>1, <2>2, <3>1
    <3>4. ring[i + 1] # Head(ring)
      BY <2>2, <3>2, <3>3
    <3>5. QED
      BY <2>1, <3>1, <3>2, <3>3, <3>4
  <2>4. ASSUME NEW i \in DOMAIN ring', NEW j \in DOMAIN ring', i < j
        PROVE  ring'[i] < ring'[j]
    <3>1. i + 1 \in DOMAIN ring /\ j + 1 \in DOMAIN ring /\ i + 1 < j + 1
          /\ ring'[i] = ring[i + 1] /\ ring'[j] = ring[j + 1]
      BY <2>1, <2>2, <2>4
    <3>2. QED
      BY <3>1 DEF FrameInv
  <2>5. ASSUME NEW n \in Frames, n >= next' PROVE sentAt'[n] = None
    <3>1. ring[1] < next /\ ring[1] \in Nat /\ n \in Nat
      BY <1>1, <2>2 DEF FrameInv
    <3>2. n # Head(ring)
      BY <1>1, <2>1, <2>2, <2>5, <3>1
    <3>3. QED
      BY <2>1, <2>5, <3>2 DEF FrameInv
  <2>6. QED
    BY <2>3, <2>4, <2>5 DEF FrameInv
<1>4. CASE UNCHANGED <<ring, next, sentAt>>
  BY <1>4 DEF FrameInv
<1>5. QED
  BY <1>2, <1>3, <1>4
  DEF Next, Xmit, WorkStep, TsXmitMappingFails, Tick, Isr, WorkStarts, WorkClears,
      WorkTakesTime, FindTxStatus, FindTxReads, FindTxMatches, FindTxLoses, WorkEnables,
      vars, hist

LEMMA StampInvStep ==
  ASSUME TxTimestampAssumption, TypeOK, IrqInv, StampInv, FrameInv, [Next]_vars
  PROVE  StampInv'
<1>1. /\ stamps \in Seq(StampType) /\ ring \in Seq(Frames) /\ now \in Nat /\ curTime \in Nat
      /\ sentAt \in [Frames -> Int] /\ Frames \subseteq Nat
      /\ \A s \in StampType : s.frame \in Frames
  BY SetupType DEF TypeOK, StampType
<1>2. CASE Xmit /\ setup' = setup
  <2>1. UNCHANGED <<setup, now, sentAt, stamps, stamp, work, curTime>>
    BY <1>2 DEF Xmit, TsXmit, TsXmitUnrequested, TsXmitMappingFails, hist
  <2>2. QED
    BY <2>1 DEF StampInv, Right, MayOverrun
<1>3. CASE HwTransmits /\ setup' = setup
  <2>1. /\ ring # <<>> /\ sentAt' = [sentAt EXCEPT ![Head(ring)] = now]
        /\ UNCHANGED <<setup, now, stamp, work, curTime>>
    BY <1>3 DEF HwTransmits
  <2>2. Head(ring) \in Frames /\ sentAt[Head(ring)] = None
    <3>1. Head(ring) = ring[1] /\ 1 \in DOMAIN ring
      BY <1>1, <2>1, TailElements
    <3>2. QED
      BY <1>1, <3>1 DEF FrameInv
  <2>3. ASSUME NEW s, Right(s) PROVE Right(s)'
    <3>1. s.frame # Head(ring)
      BY <2>2, <2>3 DEF Right, None
    <3>2. sentAt'[s.frame] = sentAt[s.frame]
      BY <1>1, <2>1, <3>1
    <3>3. QED
      BY <2>1, <2>3, <3>2, RightStays
  <2>4. CASE UNCHANGED stamps
    BY <2>1, <2>3, <2>4 DEF StampInv
  <2>5. CASE Len(stamps) < HwFifoLen
    <3>1. PICK over \in (IF MayOverrun /\ now > 0 THEN BOOLEAN ELSE {FALSE}) :
            stamps' = Append(stamps, [frame |-> Head(ring), over |-> over,
                                sec |-> (IF over THEN now - 1 ELSE now) % SecRange])
      BY <1>3, <2>5 DEF HwTransmits
    <3> DEFINE new == [frame |-> Head(ring), over |-> over,
                       sec |-> (IF over THEN now - 1 ELSE now) % SecRange]
    <3>2. over \in BOOLEAN /\ (over => MayOverrun)
      BY <3>1
    <3>3. new \in StampType
      BY <2>2, <3>2, NewStampType
    <3>4. new.frame = Head(ring) /\ new.over = over
          /\ new.sec = (IF over THEN now - 1 ELSE now) % SecRange
      OBVIOUS
    <3>5. sentAt'[Head(ring)] = now /\ now' = now /\ MayOverrun' = MayOverrun
      BY <1>1, <2>1, <2>2 DEF MayOverrun
    <3> HIDE DEF new
    <3>6. ASSUME NEW s, s = new PROVE Right(s)'
      BY <1>1, <3>2, <3>3, <3>4, <3>5, <3>6 DEF Right
    <3>7. /\ DOMAIN stamps = 1..Len(stamps) /\ Len(stamps) \in Nat
          /\ DOMAIN stamps' = 1..(Len(stamps) + 1)
          /\ \A i \in 1..Len(stamps) : stamps'[i] = stamps[i]
          /\ stamps'[Len(stamps) + 1] = new
      BY <1>1, <3>1, <3>3, AppendElements DEF new
    <3>8. ASSUME NEW i \in DOMAIN stamps' PROVE Right(stamps[i])'
      <4>1. PICK s : s = stamps'[i]
        OBVIOUS
      <4>2. Right(s)'
        <5>1. CASE i = Len(stamps) + 1
          BY <3>6, <3>7, <4>1, <5>1
        <5>2. CASE i \in 1..Len(stamps)
          <6>1. s = stamps[i] /\ Right(stamps[i])
            BY <3>7, <4>1, <5>2 DEF StampInv
          <6>2. QED
            BY <2>3, <6>1
        <5>3. QED
          BY <3>7, <5>1, <5>2
      <4>3. QED
        BY <4>1, <4>2 DEF Right
    <3>9. stamps' # <<>>
      BY <3>7
    <3>10. stamp' # NoStamp => Right(stamp)'
      <4>1. SUFFICES ASSUME stamp # NoStamp PROVE Right(stamp)'
        BY <2>1
      <4>2. PICK s : s = stamp
        OBVIOUS
      <4>3. Right(s)'
        BY <2>3, <4>1, <4>2 DEF StampInv
      <4>4. QED
        BY <2>1, <4>2, <4>3 DEF Right
    <3>11. QED
      BY <2>1, <3>8, <3>9, <3>10 DEF StampInv
  <2>6. QED
    BY <1>3, <2>4, <2>5 DEF HwTransmits
<1>4. CASE Tick /\ setup' = setup
  <2>1. /\ now' = now + 1 /\ UNCHANGED <<setup, stamps, stamp, work, curTime, sentAt>>
        /\ Prompt
    BY <1>4 DEF Tick, hist
  <2>2. ASSUME NEW s, Right(s), sentAt[s.frame] = now PROVE Right(s)'
    BY <1>1, <2>1, <2>2 DEF Right, MayOverrun
  <2>3. ASSUME NEW i \in DOMAIN stamps' PROVE Right(stamps[i])'
    <3>1. PICK s : s = stamps[i]
      OBVIOUS
    <3>2. Right(s) /\ sentAt[s.frame] = now
      BY <2>1, <3>1 DEF StampInv, Prompt
    <3>3. Right(s)'
      BY <2>2, <3>2
    <3>4. QED
      BY <2>1, <3>1, <3>3 DEF Right
  <2>4. stamp' # NoStamp => Right(stamp)'
    <3>1. SUFFICES ASSUME stamp # NoStamp PROVE Right(stamp)'
      BY <2>1
    <3>2. PICK s : s = stamp
      OBVIOUS
    <3>3. Right(s)'
      BY <2>1, <2>2, <3>1, <3>2 DEF StampInv, Prompt
    <3>4. QED
      BY <2>1, <3>2, <3>3 DEF Right
  <2>5. work' \in {"status", "read", "find"} => curTime' \in {now' - 1, now'}
    BY <1>1, <2>1 DEF Prompt
  <2>6. QED
    BY <2>1, <2>3, <2>4, <2>5 DEF StampInv
<1>5. CASE WorkTakesTime /\ setup' = setup
  <2>1. /\ UNCHANGED <<setup, now, sentAt, stamps, stamp>>
        /\ curTime' = now /\ work = "time" /\ work' = "status"
    BY <1>5 DEF WorkTakesTime, hist
  <2>2. QED
    BY <2>1 DEF StampInv, Right, MayOverrun
<1>6. CASE FindTxReads /\ setup' = setup
  <2>1. /\ UNCHANGED <<setup, now, sentAt, curTime>>
        /\ work = "read" /\ work' = "find" /\ stamps # <<>>
        /\ stamp' = Head(stamps) /\ stamps' = Tail(stamps)
    BY <1>6 DEF FindTxReads, hist, StampInv
  <2>2. /\ Head(stamps) = stamps[1] /\ 1 \in DOMAIN stamps
        /\ \A i \in DOMAIN Tail(stamps) : i + 1 \in DOMAIN stamps /\ i \in Nat /\ i >= 1
                                          /\ Tail(stamps)[i] = stamps[i + 1]
    BY <1>1, <2>1, TailElements
  <2>3. ASSUME NEW s, Right(s) PROVE Right(s)'
    BY <2>1, <2>3, RightStays
  <2>4. ASSUME NEW i \in DOMAIN stamps' PROVE Right(stamps[i])'
    <3>1. PICK s : s = stamps'[i]
      OBVIOUS
    <3>2. Right(s)
      BY <2>1, <2>2, <3>1 DEF StampInv
    <3>3. Right(s)'
      BY <2>3, <3>2
    <3>4. QED
      BY <3>1, <3>3 DEF Right
  <2>5. stamp' # NoStamp /\ Right(stamp)'
    <3>1. PICK s : s = stamp'
      OBVIOUS
    <3>2. Right(s)
      BY <2>1, <2>2, <3>1 DEF StampInv
    <3>3. Right(s)'
      BY <2>3, <3>2
    <3>4. s # NoStamp
      BY <1>1, <3>2 DEF Right, NoStamp, Frames
    <3>5. QED
      BY <3>1, <3>3, <3>4 DEF Right
  <2>6. QED
    BY <2>1, <2>4, <2>5 DEF StampInv
<1>7. CASE (FindTxMatches \/ FindTxLoses) /\ setup' = setup
  <2>1. /\ UNCHANGED <<setup, now, sentAt, stamps, curTime>>
        /\ work = "find"
        /\ \/ work' = "status" /\ stamp' = NoStamp
           \/ UNCHANGED <<work, stamp>>
    BY <1>7 DEF FindTxMatches, FindTxLoses, hist
  <2>2. QED
    BY <2>1 DEF StampInv, Right, MayOverrun
<1>8. CASE (Isr \/ WorkStarts \/ WorkClears \/ FindTxStatus \/ WorkEnables) /\ setup' = setup
  <2>1. UNCHANGED <<setup, now, sentAt, stamps, stamp, curTime>>
    BY <1>8 DEF Isr, WorkStarts, WorkClears, FindTxStatus, WorkEnables, hist
  <2>2. /\ work' = "find" <=> work = "find"
        /\ work' = "read" => stamps # <<>>
        /\ work' \in {"status", "read", "find"} => work \in {"status", "read", "find"}
    BY <1>8 DEF Isr, WorkStarts, WorkClears, FindTxStatus, WorkEnables, StampInv
  <2>3. QED
    BY <2>1, <2>2 DEF StampInv, Right, MayOverrun
<1>9. CASE UNCHANGED vars
  BY <1>9 DEF vars, hist, StampInv, Right, MayOverrun
<1>10. QED
  BY <1>2, <1>3, <1>4, <1>5, <1>6, <1>7, <1>8, <1>9 DEF Next, WorkStep

\* A frame is completed with the second it left in, and does not leave again.
LEMMA ExactStep ==
  ASSUME TxTimestampAssumption, TypeOK, StampInv, FrameInv, StampExact, [Next]_vars
  PROVE  StampExact'
<1>1. /\ sentAt \in [Frames -> Int] /\ got \in [Frames -> Int] /\ ring \in Seq(Frames)
      /\ now \in Nat /\ curTime \in Nat
  BY DEF TypeOK
<1>2. CASE HwTransmits
  <2>1. ring # <<>> /\ sentAt' = [sentAt EXCEPT ![Head(ring)] = now] /\ got' = got
    BY <1>2 DEF HwTransmits
  <2>2. Head(ring) \in Frames /\ sentAt[Head(ring)] = None
    <3>1. Head(ring) = ring[1] /\ 1 \in DOMAIN ring
      BY <1>1, <2>1, TailElements
    <3>2. QED
      BY <1>1, <3>1 DEF FrameInv
  <2>3. QED
    BY <1>1, <2>1, <2>2 DEF StampExact
<1>3. CASE FindTxMatches
  <2>1. /\ work = "find" /\ sentAt' = sentAt
        /\ \/ got' = got
           \/ Matches(Head(queue)) /\ got' = [got EXCEPT ![Head(queue)] = FullSec(stamp)]
              /\ FullSec(stamp) # None
    BY <1>3 DEF FindTxMatches
  <2>2. CASE got' = got
    BY <2>1, <2>2 DEF StampExact
  <2>3. CASE Matches(Head(queue)) /\ FullSec(stamp) # None
             /\ got' = [got EXCEPT ![Head(queue)] = FullSec(stamp)]
    <3>1. FullSec(stamp) = sentAt[stamp.frame]
      BY <2>1, <2>3, ReadExact
    <3>2. QED
      BY <1>1, <2>1, <2>3, <3>1 DEF StampExact, Matches
  <2>4. QED
    BY <2>1, <2>2, <2>3
<1>4. CASE UNCHANGED <<got, sentAt>>
  BY <1>4 DEF StampExact
<1>5. QED
  BY <1>2, <1>3, <1>4
  DEF Next, Xmit, WorkStep, TsXmit, TsXmitUnrequested, TsXmitMappingFails, Tick, Isr,
      WorkStarts, WorkClears, WorkTakesTime, FindTxStatus, FindTxReads, FindTxLoses,
      WorkEnables, vars, hist

-----------------------------------------------------------------------------
(* The fifo.                                                                *)

\* The frames of a sequence of timestamps, and of the timestamp that has been read.
FramesOf(ss) == [i \in DOMAIN ss |-> ss[i].frame]
Read == IF stamp = NoStamp THEN <<>> ELSE <<stamp.frame>>

LEMMA InStepIs == FifoInStep <=> (Nominal => queue = (Read \o FramesOf(stamps)) \o ring)
BY DEF FifoInStep, Read, FramesOf

\* Concatenations of frames.
LEMMA ConcatFrames ==
  /\ \A s, t, u \in Seq(Frames) : (s \o t) \o u = s \o (t \o u)
  /\ \A s, t \in Seq(Frames) : s \o t \in Seq(Frames) /\ Len(s \o t) = Len(s) + Len(t)
<1>1. ASSUME NEW s \in Seq(Frames), NEW t \in Seq(Frames), NEW u \in Seq(Frames)
      PROVE  (s \o t) \o u = s \o (t \o u)
  BY ConcatAssociative
<1>2. ASSUME NEW s \in Seq(Frames), NEW t \in Seq(Frames)
      PROVE  s \o t \in Seq(Frames) /\ Len(s \o t) = Len(s) + Len(t)
  BY ConcatProperties
<1>3. QED
  BY <1>1, <1>2

LEMMA FramesType ==
  ASSUME NEW ss \in Seq(StampType)
  PROVE  FramesOf(ss) \in Seq(Frames) /\ Len(FramesOf(ss)) = Len(ss)
<1>1. Len(ss) \in Nat /\ DOMAIN ss = 1..Len(ss)
  OBVIOUS
<1>2. \A i \in 1..Len(ss) : ss[i] \in StampType
  BY ElementOfSeq
<1>3. FramesOf(ss) \in [1..Len(ss) -> Frames]
  BY <1>1, <1>2 DEF FramesOf, StampType
<1>4. FramesOf(ss) \in Seq(Frames)
  BY <1>1, <1>3, SeqDef
<1>5. DOMAIN FramesOf(ss) = 1..Len(ss)
  BY <1>3
<1>6. QED
  BY <1>1, <1>4, <1>5, LenProperties

\* One timestamp more.
LEMMA FramesAppend ==
  ASSUME NEW ss \in Seq(StampType), NEW s \in StampType
  PROVE  FramesOf(Append(ss, s)) = FramesOf(ss) \o <<s.frame>>
<1>1. s.frame \in Frames
  BY DEF StampType
<1>2. Append(ss, s) \in Seq(StampType) /\ Len(Append(ss, s)) = Len(ss) + 1 /\ Len(ss) \in Nat
  OBVIOUS
<1>3. /\ FramesOf(ss) \in Seq(Frames) /\ Len(FramesOf(ss)) = Len(ss)
      /\ FramesOf(Append(ss, s)) \in Seq(Frames)
      /\ Len(FramesOf(Append(ss, s))) = Len(ss) + 1
  BY <1>2, FramesType
<1>4. Append(FramesOf(ss), s.frame) \in Seq(Frames)
      /\ Len(Append(FramesOf(ss), s.frame)) = Len(ss) + 1
  BY <1>1, <1>3
<1>5. ASSUME NEW i \in 1..(Len(ss) + 1)
      PROVE  FramesOf(Append(ss, s))[i] = Append(FramesOf(ss), s.frame)[i]
  <2>1. FramesOf(Append(ss, s))[i] = Append(ss, s)[i].frame
    BY <1>2 DEF FramesOf
  <2>2. CASE i = Len(ss) + 1
    <3>1. Append(ss, s)[i] = s
      BY <2>2, AppendElements
    <3>2. Append(FramesOf(ss), s.frame)[i] = s.frame
      BY <1>1, <1>3, <2>2, AppendElements
    <3>3. QED
      BY <2>1, <3>1, <3>2
  <2>3. CASE i \in 1..Len(ss)
    <3>1. Append(ss, s)[i] = ss[i]
      BY <2>3, AppendElements
    <3>2. Append(FramesOf(ss), s.frame)[i] = FramesOf(ss)[i]
      BY <1>1, <1>3, <2>3, AppendElements
    <3>3. FramesOf(ss)[i] = ss[i].frame
      BY <2>3 DEF FramesOf
    <3>4. QED
      BY <2>1, <3>1, <3>2, <3>3
  <2>4. i = Len(ss) + 1 \/ i \in 1..Len(ss)
    <3>1. Len(ss) \in Nat
      OBVIOUS
    <3>2. QED
      BY <3>1
  <2>5. QED
    BY <2>2, <2>3, <2>4
<1>6. FramesOf(Append(ss, s)) = Append(FramesOf(ss), s.frame)
  BY <1>3, <1>4, <1>5, SeqEqual
<1>7. QED
  BY <1>1, <1>3, <1>6, AppendIsConcat

\* A sequence is its first element and the rest.
LEMMA HeadAndTail ==
  ASSUME NEW S, NEW seq \in Seq(S), seq # <<>>
  PROVE  /\ seq = <<Head(seq)>> \o Tail(seq)
         /\ <<Head(seq)>> \in Seq(S) /\ Tail(seq) \in Seq(S) /\ Head(seq) \in S
<1>1. /\ Head(seq) \in S /\ Tail(seq) \in Seq(S) /\ Len(seq) \in Nat /\ Len(seq) > 0
      /\ Len(Tail(seq)) = Len(seq) - 1 /\ <<Head(seq)>> \in Seq(S)
      /\ Len(<<Head(seq)>>) = 1 /\ <<Head(seq)>>[1] = Head(seq)
  OBVIOUS
<1>2. /\ <<Head(seq)>> \o Tail(seq) \in Seq(S)
      /\ Len(<<Head(seq)>> \o Tail(seq)) = 1 + (Len(seq) - 1)
      /\ \A i \in 1..(1 + (Len(seq) - 1)) :
           (<<Head(seq)>> \o Tail(seq))[i] =
             IF i <= 1 THEN <<Head(seq)>>[i] ELSE Tail(seq)[i - 1]
  BY <1>1, ConcatProperties
<1>3. /\ seq[1] = Head(seq)
      /\ \A i \in DOMAIN Tail(seq) : Tail(seq)[i] = seq[i + 1]
  BY TailElements
<1>4. ASSUME NEW i \in 1..Len(seq) PROVE seq[i] = (<<Head(seq)>> \o Tail(seq))[i]
  <2>1. CASE i = 1
    BY <1>1, <1>2, <1>3, <2>1
  <2>2. CASE i # 1
    <3>1. i - 1 \in 1..(Len(seq) - 1) /\ i \in 1..(1 + (Len(seq) - 1)) /\ ~(i <= 1)
          /\ (i - 1) + 1 = i
      BY <1>1, <2>2
    <3>2. i - 1 \in DOMAIN Tail(seq)
      BY <1>1, <3>1, LenProperties
    <3>3. QED
      BY <1>2, <1>3, <3>1, <3>2
  <2>3. QED
    BY <2>1, <2>2
<1>5. QED
  BY <1>1, <1>2, <1>4, SeqEqual

\* One timestamp less.
LEMMA FramesTail ==
  ASSUME NEW ss \in Seq(StampType), ss # <<>>
  PROVE  /\ FramesOf(ss) = <<Head(ss).frame>> \o FramesOf(Tail(ss))
         /\ Head(ss).frame \in Frames
<1>1. /\ Head(ss) \in StampType /\ Tail(ss) \in Seq(StampType)
      /\ Len(ss) \in Nat /\ Len(ss) > 0 /\ Len(Tail(ss)) = Len(ss) - 1
  OBVIOUS
<1>2. Head(ss).frame \in Frames
  BY <1>1 DEF StampType
<1>3. /\ FramesOf(ss) \in Seq(Frames) /\ Len(FramesOf(ss)) = Len(ss)
      /\ FramesOf(Tail(ss)) \in Seq(Frames) /\ Len(FramesOf(Tail(ss))) = Len(ss) - 1
  BY <1>1, FramesType
<1>4. FramesOf(ss) # <<>>
  BY <1>1, <1>3
<1>5. Head(FramesOf(ss)) = Head(ss).frame
  <2>1. Head(FramesOf(ss)) = FramesOf(ss)[1] /\ Head(ss) = ss[1] /\ 1 \in DOMAIN ss
    BY <1>3, <1>4, TailElements
  <2>2. QED
    BY <2>1 DEF FramesOf
<1>6. Tail(FramesOf(ss)) = FramesOf(Tail(ss))
  <2>1. Tail(FramesOf(ss)) \in Seq(Frames) /\ Len(Tail(FramesOf(ss))) = Len(ss) - 1
    BY <1>3, <1>4
  <2>2. ASSUME NEW i \in 1..(Len(ss) - 1)
        PROVE  Tail(FramesOf(ss))[i] = FramesOf(Tail(ss))[i]
    <3>1. i \in DOMAIN Tail(ss) /\ i \in DOMAIN Tail(FramesOf(ss))
      BY <1>1, <2>1, LenProperties
    <3>2. Tail(ss)[i] = ss[i + 1] /\ i + 1 \in DOMAIN ss
      BY <3>1, TailElements
    <3>3. Tail(FramesOf(ss))[i] = FramesOf(ss)[i + 1]
      BY <1>3, <1>4, <3>1, TailElements
    <3>4. QED
      BY <3>1, <3>2, <3>3 DEF FramesOf
  <2>3. QED
    BY <1>3, <2>1, <2>2, SeqEqual
<1>7. QED
  BY <1>2, <1>3, <1>4, <1>5, <1>6, HeadAndTail

\* The fifo holds frames that are under way, each once, so that it is not fuller than
\* the stack allows.
LEMMA QueueBound ==
  ASSUME TxTimestampAssumption, TypeOK,
         \A i \in DOMAIN queue : queue[i] \in Outstanding,
         \A i, j \in DOMAIN queue : i < j => queue[i] < queue[j]
  PROVE  Len(queue) <= Cardinality(Outstanding) /\ Cardinality(Outstanding) \in Nat
<1>1. queue \in Seq(Frames) /\ DOMAIN queue = 1..Len(queue) /\ Len(queue) \in Nat
  BY DEF TypeOK
<1>2. MaxFrames \in Nat /\ Frames = 1..MaxFrames /\ Outstanding \subseteq Frames
  BY DEF TxTimestampAssumption, Frames, Outstanding
<1>3. IsFiniteSet(Frames)
  BY <1>2, FS_Interval
<1>4. IsFiniteSet(Outstanding) /\ Cardinality(Outstanding) \in Nat
  BY <1>2, <1>3, FS_Subset, FS_CardinalityType
<1>5. queue \in [1..Len(queue) -> Outstanding]
  BY <1>1
<1>6. \A i, j \in 1..Len(queue) : queue[i] = queue[j] => i = j
  <2>1. \A i \in 1..Len(queue) : queue[i] \in Nat
    BY <1>1, <1>2
  <2>2. \A i, j \in 1..Len(queue) : i = j \/ i < j \/ j < i
    BY <1>1
  <2>3. QED
    BY <1>1, <2>1, <2>2
<1>7. queue \in Injection(1..Len(queue), Outstanding)
  <2>1. IsInjective(queue)
    BY <1>1, <1>6 DEF IsInjective
  <2>2. QED
    BY <1>5, <2>1 DEF Injection
<1>8. Cardinality(1..Len(queue)) = Len(queue)
  <2>1. Cardinality(1..Len(queue)) =
          IF 1 > Len(queue) THEN 0 ELSE Len(queue) - 1 + 1
    BY <1>1, FS_Interval
  <2>2. QED
    BY <1>1, <2>1
<1>9. QED
  BY <1>4, <1>7, <1>8, FS_Injection

\* Without failures, and if the switch's own fifo is not larger, the fifo and the switch
\* have room whenever the stack sends.
LEMMA InStepStep ==
  ASSUME TxTimestampAssumption, HwFifoLen <= FifoLen, TxInv, FifoInStep, QueueInv,
         [Next]_vars
  PROVE  (FifoInStep /\ QueueInv)'
<1>1. TypeOK /\ StampInv /\ FrameInv /\ StampExact /\ setup' = setup
  BY DEF TxInv, Next, vars
<1>2. Nominal' <=> Nominal
  BY <1>1 DEF Nominal, MayFail, MayOverrun, MaxOutstanding
<1>3. SUFFICES ASSUME Nominal
               PROVE  /\ queue' = ((Read' \o FramesOf(stamps')) \o ring')
                      /\ \A i \in DOMAIN queue' : queue'[i] \in Outstanding'
                      /\ \A i, j \in DOMAIN queue' : i < j => queue'[i] < queue'[j]
                      /\ Len(queue') <= MaxOutstanding'
                      /\ dropped' = {}
  BY <1>2 DEF FifoInStep, Read, FramesOf, QueueInv
<1>4. /\ queue = (Read \o FramesOf(stamps)) \o ring
      /\ \A i \in DOMAIN queue : queue[i] \in Outstanding
      /\ \A i, j \in DOMAIN queue : i < j => queue[i] < queue[j]
      /\ Len(queue) <= MaxOutstanding
      /\ dropped = {} /\ ~MayFail /\ ~MayOverrun /\ MaxOutstanding <= HwFifoLen
  BY <1>3, InStepIs DEF QueueInv, Nominal
<1>5. /\ queue \in Seq(Frames) /\ ring \in Seq(Frames) /\ stamps \in Seq(StampType)
      /\ Frames \subseteq Nat /\ next \in Nat /\ MaxOutstanding \in Nat
      /\ HwFifoLen \in Nat /\ FifoLen \in Nat /\ got \in [Frames -> Int]
      /\ sentAt \in [Frames -> Int] /\ stamp \in StampType \cup {NoStamp}
  BY <1>1, SetupType DEF TypeOK, TxTimestampAssumption
<1>6. /\ FramesOf(stamps) \in Seq(Frames) /\ Len(FramesOf(stamps)) = Len(stamps)
      /\ Len(stamps) \in Nat /\ Read \in Seq(Frames)
      /\ Read = (IF stamp = NoStamp THEN <<>> ELSE <<stamp.frame>>)
  <2>1. stamp # NoStamp => stamp.frame \in Frames
    BY <1>5 DEF StampType
  <2>2. QED
    BY <1>5, <2>1, FramesType DEF Read
<1>7. UNCHANGED MaxOutstanding
  BY <1>1 DEF MaxOutstanding
<1>8. /\ DOMAIN queue = 1..Len(queue) /\ Len(queue) \in Nat
      /\ \A i \in DOMAIN queue : queue[i] \in Frames /\ queue[i] \in Nat /\ queue[i] < next
                                 /\ got[queue[i]] = None
  <2>1. DOMAIN queue = 1..Len(queue) /\ Len(queue) \in Nat
    BY <1>5
  <2>2. QED
    BY <1>4, <1>5, <2>1 DEF Outstanding
<1>9. CASE Xmit
  <2>1. MaySend /\ Len(queue) < MaxOutstanding
    <3>1. MaySend
      BY <1>9 DEF Xmit, TsXmit, TsXmitUnrequested, TsXmitMappingFails
    <3>2. Cardinality(Outstanding) < MaxOutstanding
      BY <3>1 DEF MaySend
    <3>3. Len(queue) <= Cardinality(Outstanding) /\ Cardinality(Outstanding) \in Nat
      BY <1>1, <1>4, QueueBound
    <3>4. QED
      BY <1>5, <1>8, <3>1, <3>2, <3>3
  <2>2. Len(queue) < FifoLen
    BY <1>4, <1>5, <1>8, <2>1
  <2>3. /\ queue' = Append(queue, next) /\ ring' = Append(ring, next) /\ next' = next + 1
        /\ UNCHANGED <<stamps, stamp, got, dropped>>
    <3>1. TsXmit
      BY <1>4, <1>8, <1>9, <2>2 DEF Xmit, TsXmitUnrequested, TsXmitMappingFails
    <3>2. QED
      BY <3>1 DEF TsXmit, hist
  <2>4. next \in Frames /\ got[next] = None
    <3>1. next \in Frames
      BY <1>1, <2>1, NextFrame
    <3>2. sentAt[next] = None
      BY <1>1, <1>5, <3>1 DEF FrameInv
    <3>3. QED
      BY <1>1, <3>1, <3>2 DEF StampExact
  <2>5. /\ DOMAIN queue' = 1..(Len(queue) + 1) /\ Len(queue') = Len(queue) + 1
        /\ \A i \in 1..Len(queue) : queue'[i] = queue[i]
        /\ queue'[Len(queue) + 1] = next
    BY <1>5, <2>3, <2>4, AppendElements, AppendProperties
  <2>6. queue' = (Read' \o FramesOf(stamps')) \o ring'
    <3>1. /\ queue' = queue \o <<next>> /\ ring' = ring \o <<next>> /\ <<next>> \in Seq(Frames)
      BY <1>5, <2>3, <2>4, AppendIsConcat
    <3> DEFINE a == Read \o FramesOf(stamps)
    <3>2. a \in Seq(Frames) /\ queue = a \o ring
      BY <1>4, <1>6
    <3> HIDE DEF a
    <3>3. queue \o <<next>> = a \o (ring \o <<next>>)
      BY <1>5, <3>1, <3>2, ConcatFrames
    <3>4. Read' = Read /\ FramesOf(stamps') = FramesOf(stamps)
      BY <2>3 DEF Read
    <3>5. QED
      BY <3>1, <3>3, <3>4 DEF a
  <2>7. ASSUME NEW i \in DOMAIN queue' PROVE queue'[i] \in Outstanding'
    <3>1. /\ queue'[i] \in Frames /\ queue'[i] < next + 1 /\ got[queue'[i]] = None
      <4>1. i \in 1..Len(queue) \/ i = Len(queue) + 1
        BY <1>8, <2>5
      <4>2. QED
        BY <1>5, <1>8, <2>4, <2>5, <4>1
    <3>2. QED
      BY <1>4, <2>3, <3>1 DEF Outstanding
  <2>8. ASSUME NEW i \in DOMAIN queue', NEW j \in DOMAIN queue', i < j
        PROVE  queue'[i] < queue'[j]
    <3>1. i \in 1..Len(queue) /\ (j \in 1..Len(queue) \/ j = Len(queue) + 1)
      BY <1>8, <2>5, <2>8
    <3>2. QED
      BY <1>4, <1>8, <2>5, <2>8, <3>1
  <2>9. Len(queue') <= MaxOutstanding'
    BY <1>5, <1>7, <1>8, <2>1, <2>5
  <2>10. QED
    BY <1>4, <2>3, <2>6, <2>7, <2>8, <2>9
<1>10. CASE HwTransmits
  <2>1. /\ ring # <<>> /\ ring' = Tail(ring)
        /\ UNCHANGED <<queue, stamp, next, got, dropped>>
    BY <1>10 DEF HwTransmits
  <2>2. Len(stamps) < HwFifoLen
    <3>1. Len(ring) > 0 /\ Len(ring) \in Nat /\ Len(Read) \in Nat
      BY <1>5, <1>6, <2>1
    <3>2. Read \o FramesOf(stamps) \in Seq(Frames)
          /\ Len(Read \o FramesOf(stamps)) = Len(Read) + Len(stamps)
      BY <1>6, ConcatFrames
    <3> DEFINE a == Read \o FramesOf(stamps)
    <3>3. a \in Seq(Frames) /\ queue = a \o ring /\ Len(a) = Len(Read) + Len(stamps)
      BY <1>4, <3>2
    <3> HIDE DEF a
    <3>4. Len(queue) = Len(Read) + Len(stamps) + Len(ring)
      BY <1>5, <3>3, ConcatFrames
    <3>5. QED
      BY <1>4, <1>5, <1>6, <3>1, <3>4
  <2>3. PICK over \in BOOLEAN :
          stamps' = Append(stamps, [frame |-> Head(ring), over |-> over,
                              sec |-> (IF over THEN now - 1 ELSE now) % SecRange])
    BY <1>10, <2>2 DEF HwTransmits
  <2> DEFINE new == [frame |-> Head(ring), over |-> over,
                     sec |-> (IF over THEN now - 1 ELSE now) % SecRange]
  <2>4. /\ ring = <<Head(ring)>> \o Tail(ring)
        /\ <<Head(ring)>> \in Seq(Frames) /\ Tail(ring) \in Seq(Frames) /\ Head(ring) \in Frames
    BY <1>5, <2>1, HeadAndTail
  <2>5. new \in StampType /\ new.frame = Head(ring)
    BY <1>1, <2>4, NewStampType
  <2> HIDE DEF new
  <2>6. FramesOf(stamps') = FramesOf(stamps) \o <<Head(ring)>>
    BY <1>5, <2>3, <2>5, FramesAppend DEF new
  <2>7. queue' = (Read' \o FramesOf(stamps')) \o ring'
    <3> DEFINE h == <<Head(ring)>>
               r == Tail(ring)
               f == FramesOf(stamps)
    <3>1. h \in Seq(Frames) /\ r \in Seq(Frames) /\ f \in Seq(Frames) /\ Read \in Seq(Frames)
          /\ Read \o f \in Seq(Frames)
      BY <1>6, <2>4
    <3>2. queue = (Read \o f) \o (h \o r)
      BY <1>4, <2>4
    <3>3. FramesOf(stamps') = f \o h /\ ring' = r
      BY <2>1, <2>6
    <3> HIDE DEF h, r, f
    <3>4. (Read \o f) \o (h \o r) = ((Read \o f) \o h) \o r
      <4>1. PICK a \in Seq(Frames) : a = Read \o f
        BY <3>1
      <4>2. (a \o h) \o r = a \o (h \o r)
        BY <3>1, ConcatFrames
      <4>3. QED
        BY <4>1, <4>2
    <3>5. (Read \o f) \o h = Read \o (f \o h)
      BY <3>1, ConcatFrames
    <3>6. Read' = Read /\ queue' = queue
      BY <2>1 DEF Read
    <3>7. QED
      BY <3>2, <3>3, <3>4, <3>5, <3>6
  <2>8. Outstanding' = Outstanding
    BY <2>1 DEF Outstanding
  <2>9. QED
    BY <1>4, <1>7, <2>1, <2>7, <2>8
<1>11. CASE FindTxReads
  <2>1. /\ work = "read" /\ stamp' = Head(stamps) /\ stamps' = Tail(stamps)
        /\ UNCHANGED <<queue, ring, next, got, dropped>>
    BY <1>11 DEF FindTxReads, hist
  <2>2. stamps # <<>> /\ stamp = NoStamp
    BY <1>1, <2>1 DEF StampInv
  <2>3. /\ FramesOf(stamps) = <<Head(stamps).frame>> \o FramesOf(Tail(stamps))
        /\ Head(stamps).frame \in Frames
    BY <1>5, <2>2, FramesTail
  <2>4. stamp' # NoStamp
    <3>1. 0 \notin Frames
      BY DEF Frames
    <3>2. QED
      BY <2>1, <2>3, <3>1 DEF NoStamp
  <2>5. Read' \o FramesOf(stamps') = Read \o FramesOf(stamps)
    <3>1. Read' = <<Head(stamps).frame>>
      BY <2>1, <2>4 DEF Read
    <3>2. Read = <<>>
      BY <2>2 DEF Read
    <3>3. Read \o FramesOf(stamps) = FramesOf(stamps)
      BY <1>6, <3>2, ConcatEmptySeq
    <3>4. QED
      BY <2>1, <2>3, <3>1, <3>3
  <2>6. Outstanding' = Outstanding
    BY <2>1 DEF Outstanding
  <2>7. QED
    BY <1>4, <1>7, <2>1, <2>5, <2>6
<1>12. CASE FindTxMatches \/ FindTxLoses
  <2>1. work = "find" /\ stamp # NoStamp /\ stamp.frame \in Frames
    BY <1>1, <1>5, <1>12 DEF FindTxMatches, FindTxLoses, StampInv, StampType
  <2>2. queue # <<>> /\ Head(queue) = stamp.frame
        /\ Tail(queue) = FramesOf(stamps) \o ring
        /\ FramesOf(stamps) \o ring \in Seq(Frames)
    <3> DEFINE rest == FramesOf(stamps) \o ring
    <3>1. rest \in Seq(Frames)
      BY <1>5, <1>6
    <3>2. Read = <<stamp.frame>>
      BY <2>1 DEF Read
    <3>3. queue = <<stamp.frame>> \o rest
      <4>1. PICK f \in Seq(Frames), g \in Seq(Frames), r \in Seq(Frames) :
              f = FramesOf(stamps) /\ g = Read /\ r = ring
        BY <1>5, <1>6
      <4>2. (g \o f) \o r = g \o (f \o r)
        BY ConcatFrames
      <4>3. QED
        BY <1>4, <3>2, <4>1, <4>2
    <3> HIDE DEF rest
    <3>4. Len(<<stamp.frame>>) = 1 /\ <<stamp.frame>> \in Seq(Frames)
          /\ <<stamp.frame>>[1] = stamp.frame
      BY <2>1
    <3>5. /\ Len(queue) = 1 + Len(rest) /\ Len(rest) \in Nat
          /\ \A i \in 1..(1 + Len(rest)) :
               queue[i] = IF i <= 1 THEN <<stamp.frame>>[i] ELSE rest[i - 1]
      BY <3>1, <3>3, <3>4, ConcatProperties
    <3>6. queue # <<>> /\ queue[1] = stamp.frame
      BY <1>5, <3>4, <3>5
    <3>7. Head(queue) = stamp.frame
      BY <1>5, <3>6, TailElements
    <3>8. Tail(queue) = rest
      <4>1. Tail(queue) \in Seq(Frames) /\ Len(Tail(queue)) = Len(rest)
        BY <1>5, <3>5, <3>6
      <4>2. ASSUME NEW i \in 1..Len(rest) PROVE Tail(queue)[i] = rest[i]
        <5>1. i \in DOMAIN Tail(queue)
          BY <4>1, LenProperties
        <5>2. Tail(queue)[i] = queue[i + 1]
          BY <1>5, <3>6, <5>1, TailElements
        <5>3. i + 1 \in 1..(1 + Len(rest)) /\ ~(i + 1 <= 1) /\ (i + 1) - 1 = i
          BY <3>5
        <5>4. QED
          BY <3>5, <5>2, <5>3
      <4>3. QED
        BY <3>1, <4>1, <4>2, SeqEqual
    <3>9. QED
      BY <3>1, <3>6, <3>7, <3>8 DEF rest
  <2>3. Matches(Head(queue)) /\ FullSec(stamp) # None
    <3>1. FullSec(stamp) \in Nat
      BY <1>1, <1>4, <2>1, ReadExact
    <3>2. QED
      BY <2>2, <3>1 DEF Matches, None
  <2>4. /\ queue' = Tail(queue) /\ stamp' = NoStamp
        /\ got' = [got EXCEPT ![Head(queue)] = FullSec(stamp)]
        /\ UNCHANGED <<ring, stamps, next, dropped>>
    BY <1>12, <2>2, <2>3 DEF FindTxMatches, FindTxLoses
  <2>5. queue' = (Read' \o FramesOf(stamps')) \o ring'
    <3>1. Read' = <<>>
      BY <2>4 DEF Read
    <3>2. Read' \o FramesOf(stamps) = FramesOf(stamps)
      BY <1>6, <3>1, ConcatEmptySeq
    <3>3. QED
      BY <2>2, <2>4, <3>2
  <2>6. /\ Head(queue) = queue[1] /\ 1 \in DOMAIN queue
        /\ \A i \in DOMAIN queue' : i + 1 \in DOMAIN queue /\ i \in Nat /\ i >= 1
                                    /\ queue'[i] = queue[i + 1]
    BY <1>5, <2>2, <2>4, TailElements
  <2>7. ASSUME NEW i \in DOMAIN queue' PROVE queue'[i] \in Outstanding'
    <3>1. i + 1 \in DOMAIN queue /\ queue'[i] = queue[i + 1] /\ 1 < i + 1
      BY <2>6
    <3>2. queue[1] < queue[i + 1] /\ queue[1] \in Nat /\ queue[i + 1] \in Nat
      BY <1>4, <1>8, <2>6, <3>1
    <3>3. got'[queue[i + 1]] = None
      BY <1>5, <1>8, <2>4, <2>6, <3>1, <3>2
    <3>4. QED
      BY <1>4, <1>8, <2>4, <3>1, <3>3 DEF Outstanding
  <2>8. ASSUME NEW i \in DOMAIN queue', NEW j \in DOMAIN queue', i < j
        PROVE  queue'[i] < queue'[j]
    <3>1. i + 1 \in DOMAIN queue /\ j + 1 \in DOMAIN queue /\ i + 1 < j + 1
      BY <2>6, <2>8
    <3>2. QED
      BY <1>4, <2>6, <3>1
  <2>9. Len(queue') <= MaxOutstanding'
    <3>1. Len(queue') = Len(queue) - 1
      BY <1>5, <2>2, <2>4
    <3>2. QED
      BY <1>4, <1>5, <1>7, <1>8, <3>1
  <2>10. QED
    BY <1>4, <2>4, <2>5, <2>7, <2>8, <2>9
<1>13. CASE UNCHANGED <<queue, ring, stamps, stamp, next, got, dropped>>
  <2>1. Outstanding' = Outstanding /\ Read' = Read
    BY <1>13 DEF Outstanding, Read
  <2>2. QED
    BY <1>4, <1>7, <1>13, <2>1
<1>14. QED
  BY <1>9, <1>10, <1>11, <1>12, <1>13
  DEF Next, WorkStep, Tick, Isr, WorkStarts, WorkClears, WorkTakesTime, FindTxStatus,
      WorkEnables, vars, hist

-----------------------------------------------------------------------------
(* The theorems.                                                            *)

LEMMA TxInit ==
  ASSUME TxTimestampAssumption, Init
  PROVE  TxInv /\ FifoInStep /\ QueueInv
<1>1. /\ setup \in Setups /\ queue = <<>> /\ ring = <<>> /\ stamps = <<>>
      /\ stamp = NoStamp /\ work = "idle" /\ dropped = {} /\ next = 1
  BY DEF Init
<1>2. MaxFrames \in Nat /\ setup.start \in 0..MaxTime /\ MaxTime \in Nat
      /\ FifoLen \in Nat /\ HwFifoLen \in Nat /\ setup.outstanding \in Nat
  BY <1>1 DEF TxTimestampAssumption
<1>3. TypeOK
  <2>1. next \in 1..(MaxFrames + 1) /\ now \in Nat
    BY <1>2 DEF Init
  <2>2. \A S : <<>> \in Seq(S) /\ Len(<<>>) = 0
    OBVIOUS
  <2>3. /\ queue \in Seq(Frames) /\ Len(queue) <= FifoLen /\ ring \in Seq(Frames)
        /\ stamps \in Seq(StampType) /\ Len(stamps) <= HwFifoLen
    BY <1>1, <1>2, <2>2
  <2>4. sentAt \in [Frames -> Int] /\ got \in [Frames -> Int] /\ None \in Int
    BY DEF Init, None
  <2>5. QED
    BY <1>1, <2>1, <2>3, <2>4 DEF Init, TypeOK, Steps
<1>4. IrqInv
  BY DEF Init, IrqInv
<1>5. StampInv
  BY <1>1 DEF StampInv
<1>6. FrameInv
  BY <1>1 DEF FrameInv, Init
<1>7. StampExact
  BY DEF StampExact, Init
<1>8. FifoInStep
  <2>1. stamps \in Seq(StampType) /\ Len(stamps) = 0 /\ <<>> \in Seq(Frames)
    BY <1>1
  <2>2. FramesOf(stamps) = <<>>
    <3>1. FramesOf(stamps) \in Seq(Frames) /\ Len(FramesOf(stamps)) = 0
      BY <2>1, FramesType
    <3>2. QED
      BY <3>1, EmptySeq
  <2>3. (<<>> \o <<>>) \o <<>> = <<>>
    BY <2>1, ConcatEmptySeq
  <2>4. QED
    BY <1>1, <2>2, <2>3, InStepIs DEF Read
<1>9. QueueInv
  BY <1>1, <1>2 DEF QueueInv, MaxOutstanding
<1>10. QED
  BY <1>3, <1>4, <1>5, <1>6, <1>7, <1>8, <1>9 DEF TxInv

\* The inductive invariant of transmission, switch and work item (edge_com_ts.c:157-235,
\* 340-411) holds in every reachable state, for any board and stack.
THEOREM TxInvHolds == Spec => []TxInv
<1>1. Init => TxInv
  BY TxInit, TxTimestampAssumption
<1>2. TxInv /\ [Next]_vars => TxInv'
  BY TypeStep, IrqInvStep, StampInvStep, FrameInvStep, ExactStep, TxTimestampAssumption
  DEF TxInv
<1>3. QED
  BY <1>1, <1>2, PTL DEF Spec

\* A frame is never completed with the timestamp of another, nor with a wrong second,
\* whatever fails, is lost or overruns (edge_com_ts.c:95-124, 203-231).
THEOREM StampExactAlways == Spec => []StampExact
<1>1. TxInv => StampExact
  BY DEF TxInv
<1>2. QED
  BY <1>1, TxInvHolds, PTL

\* If the switch keeps nanoseconds below a second, every timestamp that is read is
\* computed: the three seconds that are looked at suffice (edge_com_ts.c:104-113).
THEOREM StampComputedAlways ==
  ASSUME \A s \in Setups : ~s.overrun
  PROVE  Spec => []StampComputed
<1>1. TxInv => StampComputed
  <2>1. SUFFICES ASSUME TxInv, work = "find" PROVE FullSec(stamp) = sentAt[stamp.frame]
    BY DEF StampComputed
  <2>2. ~MayOverrun
    BY <2>1 DEF TxInv, TypeOK, MayOverrun
  <2>3. QED
    BY <2>1, <2>2, ReadExact, TxTimestampAssumption DEF TxInv
<1>2. QED
  BY <1>1, TxInvHolds, PTL

\* When everything rests, no timestamp is left in the switch and the next one raises an
\* interrupt (edge_com_ts.c:391-411); and without failures the fifo stays in step with the
\* switch (:203-219, :364-379).  The fifo is twice as long as the switch's
\* (edge_com_ts.h:35).
THEOREM InvAlways ==
  ASSUME HwFifoLen <= FifoLen
  PROVE  Spec => []Inv
<1>1. Init => FifoInStep /\ QueueInv
  BY TxInit, TxTimestampAssumption
<1>2. TxInv /\ FifoInStep /\ QueueInv /\ [Next]_vars => (FifoInStep /\ QueueInv)'
  BY InStepStep, TxTimestampAssumption
<1>3. TxInv => NoStampForgotten
  <2>1. SUFFICES ASSUME TxInv, Resting PROVE stamps = <<>> /\ ~stat /\ mask
    BY DEF NoStampForgotten
  <2>2. mask
    BY <2>1 DEF TxInv, IrqInv, Resting
  <2>3. ~stat
    BY <2>1, <2>2 DEF TxInv, IrqInv, Resting
  <2>4. stamps = <<>>
    BY <2>1, <2>3 DEF TxInv, IrqInv, Resting
  <2>5. QED
    BY <2>2, <2>3, <2>4
<1>4. TxInv => TypeOK
  BY DEF TxInv
<1>5. QED
  BY <1>1, <1>2, <1>3, <1>4, TxInvHolds, PTL DEF Spec, Inv
-----------------------------------------------------------------------------
(* Reception.                                                               *)

\* A thread that has taken a frame has taken its place in the ring.
RxHeld ==
  (IF at["poll"] # "deq" THEN 1 ELSE 0) + (IF Flush /\ at["flush"] # "deq" THEN 1 ELSE 0)
RxRoomInv ==
  /\ free + Len(done) + RxHeld <= Capacity
  /\ \A t \in Threads : at[t] = "deq" <=> skb[t] = 0

\* Everything in the system has arrived; timestamps are kept in the order of their frames.
RxOrderInv ==
  /\ \A t \in Threads : skb[t] < rxNext
  /\ \A i \in DOMAIN done : done[i] < rxNext
  /\ \A i \in DOMAIN delivered : delivered[i].frame < rxNext
  /\ \A n \in ptp : n < rxNext /\ taken[n] \in Nat
  /\ \A n \in RxFrames : ahead[n] # {} => n \in ptp
  /\ \A i \in DOMAIN rxStamps : rxStamps[i].frame \in ptp
  /\ \A i, j \in DOMAIN rxStamps : i < j => rxStamps[i].frame < rxStamps[j].frame

\* A timestamp is looked for PTP frames only, until it is found.
RxSearchInv ==
  \A t \in Threads :
    at[t] \in {"time", "status", "read"} => skb[t] \in ptp /\ hwtstamp[t] = RxNone

\* A timestamp is of the second its frame was taken in, as the switch keeps it.
RxRight(s) ==
  s.sec = (IF s.over THEN taken[s.frame] - 1 ELSE taken[s.frame]) % RxSecRange

\* A frame waits for its timestamp for MaxAge at most, so that the time a thread has
\* read is not further than that from the timestamp's.
RxExactInv ==
  /\ \A i \in DOMAIN rxStamps : RxRight(rxStamps[i])
  /\ \A n \in Waiting \cap ptp : taken[n] <= rxNow /\ rxNow <= taken[n] + MaxAge
  /\ \A t \in Threads :
       /\ at[t] \in {"status", "read"} =>
            taken[skb[t]] <= rxTime[t] /\ rxTime[t] <= taken[skb[t]] + MaxAge
       /\ at[t] = "dispatch" /\ hwtstamp[t] \notin {RxNone, Invalid} =>
            hwtstamp[t] = taken[skb[t]]
  /\ RxStampExact

\* The frames that are or will be delivered without a timestamp, for want of one.
RxUnsearched ==
  {done[i] : i \in DOMAIN done} \cup
  {skb[t] : t \in {u \in Threads : at[u] \in {"time", "status", "read"}}}
RxKept == {rxStamps[i].frame : i \in DOMAIN rxStamps}
RxLacking ==
  ((RxUnsearched \cap ptp) \ RxKept) \cup Missing \cup
  {skb[t] : t \in {u \in Threads :
     at[u] = "dispatch" /\ hwtstamp[u] = RxNone /\ skb[u] \in ptp}}

\* One thread takes the frames in their order.
RxSerialInv ==
  /\ \A i, j \in DOMAIN done : i < j => done[i] < done[j]
  /\ at["poll"] # "deq" => \A i \in DOMAIN done : skb["poll"] < done[i]
  /\ \A d \in DOMAIN delivered :
       /\ \A i \in DOMAIN done : delivered[d].frame < done[i]
       /\ at["poll"] \notin {"deq", "enq"} => delivered[d].frame < skb["poll"]

\* Who arrives behind a frame that may lack its timestamp knows of it; and a loss was
\* handed on by such a frame.
RxLossInv ==
  /\ RxKept \cap unstamped = {}
  /\ \A m, n \in RxUnsearched :
       m < n /\ n \in ptp \ unstamped /\ (m \in unstamped \/ ahead[m] # {}) => m \in ahead[n]
  /\ \A n \in RxFrames : \A m \in ahead[n] : m < n
  /\ \A n \in RxLacking \ unstamped : ahead[n] \cap RxLacking # {}

ReceiveInv == RxTypeOK /\ RxRoomInv /\ RxOrderInv /\ RxSearchInv /\ FifoAhead


-----------------------------------------------------------------------------
(* Types, places in the ring, order.                                        *)

LEMMA RxFacts ==
  ASSUME ReceiveAssumption, RxTypeOK, RxRoomInv, RxOrderInv
  PROVE  /\ RxFrames \subseteq Nat /\ RxMaxFrames \in Nat /\ Capacity \in Nat
         /\ RxSecRange \in Nat \ {0} /\ RxSecRange > 3 /\ MaxAge \in Nat
         /\ rxNext \in Nat /\ rxNow \in Nat /\ ptp \subseteq RxFrames
         /\ done \in Seq(RxFrames) /\ rxStamps \in Seq(RxStampType)
         /\ \A i \in DOMAIN done : done[i] \in RxFrames
         /\ \A i \in DOMAIN rxStamps : rxStamps[i] \in RxStampType /\ rxStamps[i].frame \in RxFrames
         /\ \A t \in Threads : at[t] # "deq" => skb[t] \in RxFrames
         /\ \A t \in Threads : skb[t] \in Nat /\ rxTime[t] \in Nat
         /\ \A n \in ptp : taken[n] \in Nat
<1>1. done \in Seq(RxFrames) /\ rxStamps \in Seq(RxStampType)
  BY DEF RxTypeOK
<1>2. \A i \in DOMAIN done : done[i] \in RxFrames
  BY <1>1
<1>3. \A i \in DOMAIN rxStamps : rxStamps[i] \in RxStampType
  BY <1>1
<1>4. \A i \in DOMAIN rxStamps : rxStamps[i].frame \in RxFrames
  BY <1>3 DEF RxStampType
<1>5. RxFrames \subseteq Nat /\ RxMaxFrames \in Nat /\ Capacity \in Nat
      /\ RxSecRange \in Nat \ {0} /\ RxSecRange > 3 /\ MaxAge \in Nat
  BY DEF ReceiveAssumption, RxFrames
<1>6. rxNext \in Nat /\ rxNow \in Nat /\ ptp \subseteq RxFrames
  BY <1>5 DEF RxTypeOK, ReceiveAssumption
<1>7. ASSUME NEW t \in Threads
      PROVE  (at[t] # "deq" => skb[t] \in RxFrames) /\ skb[t] \in Nat /\ rxTime[t] \in Nat
  <2>1. skb[t] \in RxFrames \cup {0} /\ rxTime[t] \in Nat
    BY DEF RxTypeOK
  <2>2. at[t] = "deq" <=> skb[t] = 0
    BY DEF RxRoomInv
  <2>3. skb[t] \in RxFrames => skb[t] \in Nat
    BY <1>5
  <2>4. skb[t] \in RxFrames \/ skb[t] = 0
    BY <2>1
  <2> QED BY <2>1, <2>2, <2>3, <2>4
<1>8. \A n \in ptp : taken[n] \in Nat
  BY DEF RxOrderInv
<1> QED BY <1>1, <1>2, <1>3, <1>4, <1>5, <1>6, <1>7, <1>8

\* edgx_com_ts_read: a number or the mark of a timestamp that could not be completed.
LEMMA RxFullSecType ==
  ASSUME ReceiveAssumption, NEW t \in Threads, rxTime[t] \in Nat, NEW s
  PROVE  RxFullSec(t, s) \in Nat \cup {Invalid}
<1> DEFINE sec   == s.sec + (IF s.over THEN 1 ELSE 0)
           cands == {x \in Nat \cap {rxTime[t], rxTime[t] - 1, rxTime[t] + 1} : x % RxSecRange = sec}
<1>1. RxFullSec(t, s) = IF cands = {} THEN Invalid ELSE CHOOSE x \in cands : TRUE
  BY DEF RxFullSec
<1>2. cands \subseteq Nat
  OBVIOUS
<1>3. cands # {} => (CHOOSE x \in cands : TRUE) \in cands
  OBVIOUS
<1> HIDE DEF cands
<1> QED BY <1>1, <1>2, <1>3

\* A timestamp the switch takes now.
LEMMA RxNewStamp ==
  ASSUME ReceiveAssumption, rxNow \in Nat, NEW n \in RxFrames, NEW over \in BOOLEAN
  PROVE  [frame |-> n, over |-> over,
          sec |-> (IF over THEN rxNow - 1 ELSE rxNow) % RxSecRange] \in RxStampType
<1>1. RxSecRange \in Nat \ {0}
  BY DEF ReceiveAssumption
<1>2. (IF over THEN rxNow - 1 ELSE rxNow) \in Int
  OBVIOUS
<1>3. (IF over THEN rxNow - 1 ELSE rxNow) % RxSecRange \in 0..(RxSecRange - 1)
  BY <1>1, <1>2, ModForm
<1> QED BY <1>3 DEF RxStampType

LEMMA RxTypeStep ==
  ASSUME ReceiveAssumption, RxTypeOK, RxRoomInv, RxOrderInv, [RxNext]_rxVars
  PROVE  RxTypeOK'
<1>0. /\ RxFrames \subseteq Nat /\ RxMaxFrames \in Nat /\ Capacity \in Nat
      /\ rxNext \in Nat /\ rxNow \in Nat /\ ptp \subseteq RxFrames
      /\ done \in Seq(RxFrames) /\ rxStamps \in Seq(RxStampType)
      /\ \A t \in Threads : at[t] # "deq" => skb[t] \in RxFrames
      /\ \A t \in Threads : skb[t] \in Nat /\ rxTime[t] \in Nat
  BY RxFacts
<1>9. free \in Nat /\ Len(done) \in Nat /\ Len(rxStamps) \in Nat /\ TsFifoLen \in Nat
      /\ Len(rxStamps) <= TsFifoLen /\ RxHeld \in Nat
  BY <1>0 DEF RxTypeOK, RxHeld, ReceiveAssumption
<1>a. CASE Arrive
  <2>1. rxNext \in RxFrames /\ rxNext' \in 1..(RxMaxFrames + 1)
    BY <1>a, <1>0 DEF Arrive, RxTypeOK, RxFrames
  <2>2. free' \in 0..Capacity /\ done' \in Seq(RxFrames) /\ free' + Len(done') <= Capacity
    <3>1. CASE free > 0
      <4>1. free' = free - 1 /\ done' = Append(done, rxNext)
        BY <1>a, <3>1 DEF Arrive
      <4>2. done' \in Seq(RxFrames) /\ Len(done') = Len(done) + 1
        BY <4>1, <2>1, <1>0
      <4> QED BY <4>1, <4>2, <3>1, <1>0, <1>9 DEF RxTypeOK
    <3>2. CASE ~(free > 0)
      BY <1>a, <3>2 DEF Arrive, RxTypeOK
    <3> QED BY <3>1, <3>2
  <2>3. UNCHANGED <<at, skb, rxTime, hwtstamp, rxNow, delivered>>
    BY <1>a DEF Arrive, thread
  <2>4. CASE UNCHANGED <<rxStamps, ptp, taken, unstamped, ahead>>
    BY <2>1, <2>2, <2>3, <2>4 DEF RxTypeOK
  <2>5. CASE ~UNCHANGED <<rxStamps, ptp, taken, unstamped, ahead>>
    <3>1. ptp' = ptp \cup {rxNext} /\ taken' = [taken EXCEPT ![rxNext] = rxNow]
      BY <1>a, <2>5 DEF Arrive, history
    <3>2. ptp' \subseteq RxFrames /\ ptp \subseteq ptp'
          /\ taken' \in [RxFrames -> Nat \cup {RxNone}]
      BY <3>1, <2>1, <1>0 DEF RxTypeOK
    <3>3. CASE Len(rxStamps) < TsFifoLen
      <4>1. /\ ahead' = [ahead EXCEPT ![rxNext] = MayLack] /\ unstamped' = unstamped
            /\ \E over \in BOOLEAN :
                 rxStamps' = Append(rxStamps, [frame |-> rxNext,
                   sec |-> (IF over THEN rxNow - 1 ELSE rxNow) % RxSecRange, over |-> over])
        BY <1>a, <2>5, <3>3 DEF Arrive, history
      <4>2. PICK over \in BOOLEAN : rxStamps' = Append(rxStamps, [frame |-> rxNext,
              sec |-> (IF over THEN rxNow - 1 ELSE rxNow) % RxSecRange, over |-> over])
        BY <4>1
      <4>3. [frame |-> rxNext, sec |-> (IF over THEN rxNow - 1 ELSE rxNow) % RxSecRange,
             over |-> over] \in RxStampType
        BY <1>0, <2>1, RxNewStamp
      <4>4. rxStamps' \in Seq(RxStampType) /\ Len(rxStamps') = Len(rxStamps) + 1
        BY <4>2, <4>3, <1>0
      <4>5. MayLack \subseteq ptp
        <5>1. \A n \in MayLack : n \in unstamped \/ (n \in RxFrames /\ ahead[n] # {})
          <6>1. \A n \in MayLack : n \in unstamped \/ ahead[n] # {}
            BY DEF MayLack
          <6>2. \A n \in MayLack : n \in RxFrames
            BY <1>0 DEF MayLack
          <6> QED BY <6>1, <6>2
        <5> QED BY <5>1 DEF RxTypeOK, RxOrderInv
      <4>6. ahead' \in [RxFrames -> SUBSET ptp']
        BY <4>1, <4>5, <3>2 DEF RxTypeOK
      <4>7. Len(rxStamps') <= TsFifoLen
        BY <4>4, <3>3, <1>9
      <4> QED BY <4>1, <4>4, <4>6, <4>7, <3>2, <2>1, <2>2, <2>3 DEF RxTypeOK
    <3>4. CASE ~(Len(rxStamps) < TsFifoLen)
      <4>1. unstamped' = unstamped \cup {rxNext} /\ rxStamps' = rxStamps /\ ahead' = ahead
        BY <1>a, <2>5, <3>4 DEF Arrive, history
      <4>2. ahead' \in [RxFrames -> SUBSET ptp']
        BY <4>1, <3>2 DEF RxTypeOK
      <4>3. unstamped' \subseteq ptp'
        BY <4>1, <3>1 DEF RxTypeOK
      <4> QED BY <4>1, <4>2, <4>3, <3>2, <2>1, <2>2, <2>3 DEF RxTypeOK
    <3> QED BY <3>3, <3>4
  <2> QED BY <2>4, <2>5
<1>t. CASE RxTick
  <2>1. rxNow' \in 0..RxMaxTime
    BY <1>t, <1>0 DEF RxTick, RxTypeOK, ReceiveAssumption
  <2> QED BY <1>t, <2>1 DEF RxTick, RxTypeOK, thread, history
<1>1. ASSUME NEW t \in Threads, Dequeue(t) PROVE RxTypeOK'
  <2>1. done # <<>> /\ done' = Tail(done) /\ skb' = [skb EXCEPT ![t] = Head(done)]
        /\ hwtstamp' = [hwtstamp EXCEPT ![t] = RxNone]
        /\ \E p \in {"time", "dispatch"} : at' = [at EXCEPT ![t] = p]
        /\ UNCHANGED <<free, rxStamps, rxTime, rxNext, rxNow, ptp, taken, unstamped, ahead, delivered>>
    BY <1>1 DEF Dequeue, Goto, history
  <2>2. done' \in Seq(RxFrames) /\ Len(done') = Len(done) - 1 /\ Head(done) \in RxFrames
    BY <2>1, <1>0
  <2>3. free' + Len(done') <= Capacity
    BY <2>1, <2>2, <1>9, <1>0 DEF RxTypeOK
  <2>4. at' \in [Threads -> RxSteps]
    BY <2>1 DEF RxTypeOK, RxSteps
  <2> QED BY <2>1, <2>2, <2>3, <2>4 DEF RxTypeOK
<1>2. ASSUME NEW t \in Threads, TakeTime(t) PROVE RxTypeOK'
  BY <1>2, <1>0 DEF TakeTime, Goto, history, RxTypeOK, RxSteps
<1>3. ASSUME NEW t \in Threads, FindRxStatus(t) PROVE RxTypeOK'
  BY <1>3 DEF FindRxStatus, Goto, history, RxTypeOK, RxSteps
<1>4. ASSUME NEW t \in Threads, FindRxReads(t) PROVE RxTypeOK'
  <2>1. UNCHANGED <<free, done, skb, rxTime, rxNext, rxNow, ptp, taken, unstamped, ahead, delivered>>
        /\ \E p \in {"status", "dispatch"} : at' = [at EXCEPT ![t] = p]
    BY <1>4 DEF FindRxReads, Goto, history
  <2>2. at' \in [Threads -> RxSteps]
    BY <2>1 DEF RxTypeOK, RxSteps
  <2>3. CASE rxStamps = <<>>
    BY <1>4, <2>1, <2>2, <2>3 DEF FindRxReads, RxTypeOK
  <2>4. CASE rxStamps # <<>>
    <3>1. rxStamps' = Tail(rxStamps)
          /\ \E h \in Nat \cup {RxNone, Invalid} : hwtstamp' = [hwtstamp EXCEPT ![t] = h]
      <4>1. hwtstamp[t] \in Nat \cup {RxNone, Invalid}
            /\ RxFullSec(t, Head(rxStamps)) \in Nat \cup {RxNone, Invalid}
        BY <1>0, RxFullSecType DEF RxTypeOK
      <4> QED BY <1>4, <2>4, <4>1 DEF FindRxReads
    <3>2. rxStamps' \in Seq(RxStampType) /\ Len(rxStamps') = Len(rxStamps) - 1
      BY <3>1, <2>4, <1>0
    <3>3. Len(rxStamps') <= TsFifoLen
      BY <3>2, <1>9
    <3> QED BY <2>1, <2>2, <3>1, <3>2, <3>3 DEF RxTypeOK
  <2> QED BY <2>3, <2>4
<1>5. ASSUME NEW t \in Threads, Dispatch(t) PROVE RxTypeOK'
  <2>1. skb[t] \in RxFrames /\ hwtstamp[t] \in Nat \cup {RxNone, Invalid}
    BY <1>5, <1>0 DEF Dispatch, RxTypeOK
  <2>2. delivered' = Append(delivered, [frame |-> skb[t], sec |-> hwtstamp[t]])
        /\ at' = [at EXCEPT ![t] = "enq"]
        /\ UNCHANGED <<free, done, rxStamps, skb, rxTime, hwtstamp, rxNext, rxNow, ptp, taken,
                       unstamped, ahead>>
    BY <1>5 DEF Dispatch, Goto, history
  <2>3. delivered' \in Seq([frame: RxFrames, sec: Nat \cup {RxNone, Invalid}])
    BY <2>1, <2>2 DEF RxTypeOK
  <2> QED BY <2>2, <2>3 DEF RxTypeOK, RxSteps
<1>6. ASSUME NEW t \in Threads, Refill(t) PROVE RxTypeOK'
  <2>1. skb' = [skb EXCEPT ![t] = 0] /\ at' = [at EXCEPT ![t] = "deq"] /\ free' \in {free, free + 1}
        /\ UNCHANGED <<done, rxStamps, rxTime, hwtstamp, rxNext, rxNow, ptp, taken, unstamped,
                       ahead, delivered>>
    BY <1>6 DEF Refill, Goto, history
  <2>2. RxHeld >= 1
    <3>1. t = "poll" \/ (Flush /\ t = "flush")
      BY DEF Threads
    <3>2. at[t] # "deq"
      BY <1>6 DEF Refill
    <3> QED BY <3>1, <3>2 DEF RxHeld
  <2>3. free' + Len(done') <= Capacity /\ free' \in 0..Capacity
    BY <2>1, <2>2, <1>9, <1>0 DEF RxRoomInv
  <2> QED BY <2>1, <2>3 DEF RxTypeOK, RxSteps
<1>s. CASE UNCHANGED rxVars
  BY <1>s DEF rxVars, thread, history, RxTypeOK
<1> QED BY <1>a, <1>t, <1>1, <1>2, <1>3, <1>4, <1>5, <1>6, <1>s DEF RxNext, ProcessRx


\* Places in the ring: a thread holds the one its frame had until it has refilled it.
LEMMA RxRoomStep ==
  ASSUME ReceiveAssumption, RxTypeOK, RxRoomInv, RxOrderInv, [RxNext]_rxVars
  PROVE  RxRoomInv'
<1>0. /\ RxFrames \subseteq Nat /\ Capacity \in Nat /\ free \in Nat
      /\ done \in Seq(RxFrames) /\ Len(done) \in Nat
      /\ at \in [Threads -> RxSteps] /\ skb \in [Threads -> RxFrames \cup {0}]
      /\ "poll" \in Threads /\ (Flush => "flush" \in Threads)
      /\ Threads \subseteq {"poll", "flush"} /\ ("flush" \in Threads => Flush)
      /\ 0 \notin RxFrames /\ Flush \in BOOLEAN
  BY RxFacts DEF RxTypeOK, Threads, RxFrames, ReceiveAssumption
<1>a. CASE Arrive
  <2>1. CASE free > 0
    <3>1. free' = free - 1 /\ done' = Append(done, rxNext) /\ at' = at /\ skb' = skb
      BY <1>a, <2>1 DEF Arrive, thread
    <3>2. Len(done') = Len(done) + 1
      BY <3>1, <1>0
    <3>3. RxHeld' = RxHeld /\ RxHeld \in Nat
      BY <3>1 DEF RxHeld
    <3>4. free' + Len(done') + RxHeld' <= Capacity
      BY <3>1, <3>2, <3>3, <1>0 DEF RxRoomInv
    <3> QED BY <3>1, <3>4 DEF RxRoomInv
  <2>2. CASE ~(free > 0)
    <3>1. UNCHANGED <<free, done, at, skb>>
      BY <1>a, <2>2 DEF Arrive, thread
    <3> QED BY <3>1 DEF RxRoomInv, RxHeld
  <2> QED BY <2>1, <2>2
<1>r. ASSUME UNCHANGED <<free, done, at, skb>> PROVE RxRoomInv'
  BY <1>r DEF RxRoomInv, RxHeld
<1>m. ASSUME NEW t \in Threads, NEW p \in RxSteps \ {"deq"}, at[t] # "deq",
             at' = [at EXCEPT ![t] = p], UNCHANGED <<free, done, skb>>
      PROVE  RxRoomInv'
  <2>1. \A u \in Threads : at'[u] = "deq" <=> at[u] = "deq"
    BY <1>m, <1>0
  <2>2. RxHeld' = RxHeld
    BY <2>1, <1>0 DEF RxHeld
  <2> QED BY <1>m, <2>1, <2>2 DEF RxRoomInv
<1>1. ASSUME NEW t \in Threads, Dequeue(t) PROVE RxRoomInv'
  <2>1. at[t] = "deq" /\ done # <<>> /\ done' = Tail(done) /\ skb' = [skb EXCEPT ![t] = Head(done)]
        /\ free' = free /\ \E p \in {"time", "dispatch"} : at' = [at EXCEPT ![t] = p]
    BY <1>1 DEF Dequeue, Goto
  <2>2. Len(done') = Len(done) - 1 /\ Head(done) \in RxFrames
    BY <2>1, <1>0
  <2>3. /\ \A u \in Threads : u # t => at'[u] = at[u] /\ skb'[u] = skb[u]
        /\ at'[t] # "deq" /\ skb'[t] \in RxFrames
    BY <2>1, <2>2, <1>0
  <2>4. RxHeld' = RxHeld + 1 /\ RxHeld \in Nat
    <3>1. CASE t = "poll"
      BY <3>1, <2>1, <2>3, <1>0 DEF RxHeld
    <3>2. CASE t = "flush"
      BY <3>2, <2>1, <2>3, <1>0 DEF RxHeld
    <3> QED BY <3>1, <3>2, <1>0
  <2>5. free' + Len(done') + RxHeld' <= Capacity
    BY <2>1, <2>2, <2>4, <1>0 DEF RxRoomInv
  <2>6. \A u \in Threads : at'[u] = "deq" <=> skb'[u] = 0
    BY <2>3, <1>0 DEF RxRoomInv
  <2> QED BY <2>5, <2>6 DEF RxRoomInv
<1>2. ASSUME NEW t \in Threads, TakeTime(t) PROVE RxRoomInv'
  BY <1>2, <1>m DEF TakeTime, Goto, RxSteps
<1>3. ASSUME NEW t \in Threads, FindRxStatus(t) PROVE RxRoomInv'
  BY <1>3, <1>m DEF FindRxStatus, Goto, RxSteps
<1>4. ASSUME NEW t \in Threads, FindRxReads(t) PROVE RxRoomInv'
  <2>1. at[t] = "read" /\ UNCHANGED <<free, done, skb>>
        /\ \E p \in {"status", "dispatch"} : at' = [at EXCEPT ![t] = p]
    BY <1>4 DEF FindRxReads, Goto
  <2> QED BY <2>1, <1>m DEF RxSteps
<1>5. ASSUME NEW t \in Threads, Dispatch(t) PROVE RxRoomInv'
  BY <1>5, <1>m DEF Dispatch, Goto, RxSteps
<1>6. ASSUME NEW t \in Threads, Refill(t) PROVE RxRoomInv'
  <2>1. at[t] # "deq" /\ skb' = [skb EXCEPT ![t] = 0] /\ at' = [at EXCEPT ![t] = "deq"]
        /\ free' \in {free, free + 1} /\ done' = done
    BY <1>6 DEF Refill, Goto
  <2>2. /\ \A u \in Threads : u # t => at'[u] = at[u] /\ skb'[u] = skb[u]
        /\ at'[t] = "deq" /\ skb'[t] = 0
    BY <2>1, <1>0
  <2>3. RxHeld' = RxHeld - 1 /\ RxHeld \in Nat
    <3>1. CASE t = "poll"
      BY <3>1, <2>1, <2>2, <1>0 DEF RxHeld
    <3>2. CASE t = "flush"
      BY <3>2, <2>1, <2>2, <1>0 DEF RxHeld
    <3> QED BY <3>1, <3>2, <1>0
  <2>4. free' + Len(done') + RxHeld' <= Capacity
    BY <2>1, <2>3, <1>0 DEF RxRoomInv
  <2>5. \A u \in Threads : at'[u] = "deq" <=> skb'[u] = 0
    BY <2>2, <1>0 DEF RxRoomInv
  <2> QED BY <2>4, <2>5 DEF RxRoomInv
<1>t. CASE RxTick
  BY <1>t, <1>r DEF RxTick, thread
<1>s. CASE UNCHANGED rxVars
  BY <1>s, <1>r DEF rxVars, thread
<1> QED BY <1>a, <1>t, <1>1, <1>2, <1>3, <1>4, <1>5, <1>6, <1>s DEF RxNext, ProcessRx

\* Nothing overtakes the frames that arrive, and the fifo keeps the order.
LEMMA RxOrderStep ==
  ASSUME ReceiveAssumption, RxTypeOK, RxRoomInv, RxOrderInv, [RxNext]_rxVars
  PROVE  RxOrderInv'
<1>0. /\ RxFrames \subseteq Nat /\ rxNext \in Nat /\ rxNow \in Nat /\ ptp \subseteq RxFrames
      /\ done \in Seq(RxFrames) /\ rxStamps \in Seq(RxStampType)
      /\ \A t \in Threads : skb[t] \in Nat
      /\ \A i \in DOMAIN rxStamps : rxStamps[i].frame \in RxFrames
      /\ skb \in [Threads -> RxFrames \cup {0}] /\ delivered \in Seq([frame: RxFrames,
           sec: Nat \cup {RxNone, Invalid}])
      /\ taken \in [RxFrames -> Nat \cup {RxNone}] /\ ahead \in [RxFrames -> SUBSET ptp]
  BY RxFacts DEF RxTypeOK
<1>9. /\ \A i \in DOMAIN done : done[i] \in Nat
      /\ \A i \in DOMAIN delivered : delivered[i].frame \in Nat
      /\ \A i \in DOMAIN rxStamps : rxStamps[i].frame \in Nat
  <2>1. \A i \in DOMAIN done : done[i] \in RxFrames
    BY <1>0
  <2>0. ASSUME NEW S, NEW q \in Seq(S) PROVE \A i \in DOMAIN q : q[i] \in S
    OBVIOUS
  <2>2. \A i \in DOMAIN delivered : delivered[i] \in [frame: RxFrames,
           sec: Nat \cup {RxNone, Invalid}]
    BY <2>0, <1>0
  <2>3. \A i \in DOMAIN delivered : delivered[i].frame \in RxFrames
    BY <2>2
  <2> QED BY <2>1, <2>3, <1>0
<1>a. CASE Arrive
  <2>1. rxNext' = rxNext + 1 /\ rxNext \in RxFrames
        /\ UNCHANGED <<at, skb, delivered>>
    BY <1>a, <1>0 DEF Arrive, RxFrames, thread, RxTypeOK
  <2>2. \A t \in Threads : skb'[t] < rxNext'
    BY <2>1, <1>0 DEF RxOrderInv
  <2>3. \A i \in DOMAIN done' : done'[i] < rxNext'
    <3>1. CASE done' = done
      BY <3>1, <2>1, <1>0, <1>9 DEF RxOrderInv
    <3>2. CASE done' = Append(done, rxNext)
      <4>1. /\ DOMAIN done = 1..Len(done) /\ Len(done) \in Nat
            /\ DOMAIN done' = 1..(Len(done) + 1)
            /\ \A i \in 1..Len(done) : done'[i] = done[i]
            /\ done'[Len(done) + 1] = rxNext
        BY <3>2, <1>0, <2>1, AppendElements
      <4>2. ASSUME NEW i \in DOMAIN done' PROVE done'[i] < rxNext'
        <5>1. CASE i \in 1..Len(done)
          <6>1. done'[i] = done[i] /\ done[i] < rxNext /\ done[i] \in Nat
            BY <5>1, <4>1, <1>9 DEF RxOrderInv
          <6> QED BY <6>1, <2>1, <1>0
        <5>2. CASE i = Len(done) + 1
          BY <5>2, <4>1, <2>1, <1>0
        <5> QED BY <5>1, <5>2, <4>1, <4>2
      <4> QED BY <4>2
    <3> QED BY <3>1, <3>2, <1>a DEF Arrive
  <2>4. \A i \in DOMAIN delivered' : delivered'[i].frame < rxNext'
    BY <2>1, <1>0, <1>9 DEF RxOrderInv
  <2>5. CASE UNCHANGED <<rxStamps, ptp, taken, unstamped, ahead>>
    <3>1. \A n \in ptp' : n < rxNext' /\ taken'[n] \in Nat
      BY <2>1, <2>5, <1>0 DEF RxOrderInv
    <3>2. \A n \in RxFrames : ahead'[n] # {} => n \in ptp'
      BY <2>5 DEF RxOrderInv
    <3>3. /\ \A i \in DOMAIN rxStamps' : rxStamps'[i].frame \in ptp'
          /\ \A i, j \in DOMAIN rxStamps' : i < j => rxStamps'[i].frame < rxStamps'[j].frame
      BY <2>5 DEF RxOrderInv
    <3> QED BY <2>2, <2>3, <2>4, <3>1, <3>2, <3>3 DEF RxOrderInv
  <2>6. CASE ~UNCHANGED <<rxStamps, ptp, taken, unstamped, ahead>>
    <3>1. ptp' = ptp \cup {rxNext} /\ taken' = [taken EXCEPT ![rxNext] = rxNow]
          /\ \/ /\ \E over \in BOOLEAN :
                     rxStamps' = Append(rxStamps, [frame |-> rxNext,
                       sec |-> (IF over THEN rxNow - 1 ELSE rxNow) % RxSecRange, over |-> over])
                /\ ahead' = [ahead EXCEPT ![rxNext] = MayLack]
             \/ rxStamps' = rxStamps /\ ahead' = ahead
      BY <1>a, <2>6 DEF Arrive, history
    <3>2. \A n \in ptp' : n < rxNext' /\ taken'[n] \in Nat
      BY <3>1, <2>1, <1>0 DEF RxOrderInv
    <3>3. \A n \in RxFrames : ahead'[n] # {} => n \in ptp'
      BY <3>1, <2>1, <1>0 DEF RxOrderInv
    <3>4. CASE rxStamps' = rxStamps
      <4>1. /\ \A i \in DOMAIN rxStamps' : rxStamps'[i].frame \in ptp'
            /\ \A i, j \in DOMAIN rxStamps' : i < j => rxStamps'[i].frame < rxStamps'[j].frame
        BY <3>1, <3>4 DEF RxOrderInv
      <4> QED BY <2>2, <2>3, <2>4, <3>2, <3>3, <4>1 DEF RxOrderInv
    <3>5. CASE ~(rxStamps' = rxStamps)
      <4>1. PICK over \in BOOLEAN : rxStamps' = Append(rxStamps, [frame |-> rxNext,
              sec |-> (IF over THEN rxNow - 1 ELSE rxNow) % RxSecRange, over |-> over])
        BY <3>1, <3>5
      <4>2. PICK s \in RxStampType : rxStamps' = Append(rxStamps, s) /\ s.frame = rxNext
        <5>1. [frame |-> rxNext, over |-> over,
               sec |-> (IF over THEN rxNow - 1 ELSE rxNow) % RxSecRange] \in RxStampType
          BY <1>0, <2>1, RxNewStamp
        <5> QED BY <4>1, <5>1
      <4>3. /\ DOMAIN rxStamps = 1..Len(rxStamps) /\ Len(rxStamps) \in Nat
            /\ DOMAIN rxStamps' = 1..(Len(rxStamps) + 1)
            /\ \A i \in 1..Len(rxStamps) : rxStamps'[i] = rxStamps[i]
            /\ rxStamps'[Len(rxStamps) + 1] = s
        BY <4>2, <1>0, AppendElements
      <4>4. \A i \in 1..Len(rxStamps) : rxStamps[i].frame \in ptp /\ rxStamps[i].frame < rxNext
        BY <4>3 DEF RxOrderInv
      <4>5. \A i \in DOMAIN rxStamps' : rxStamps'[i].frame \in ptp'
        <5>1. ASSUME NEW i \in 1..Len(rxStamps) PROVE rxStamps'[i].frame \in ptp'
          BY <3>1, <4>3, <4>4
        <5>2. rxStamps'[Len(rxStamps) + 1].frame \in ptp'
          BY <3>1, <4>2, <4>3
        <5>3. \A i \in DOMAIN rxStamps' : i \in 1..Len(rxStamps) \/ i = Len(rxStamps) + 1
          BY <4>3
        <5> QED BY <5>1, <5>2, <5>3
      <4>6. ASSUME NEW i \in DOMAIN rxStamps', NEW j \in DOMAIN rxStamps', i < j
            PROVE  rxStamps'[i].frame < rxStamps'[j].frame
        <5>1. i \in 1..Len(rxStamps)
          BY <4>3, <4>6
        <5>2. CASE j \in 1..Len(rxStamps)
          BY <5>1, <5>2, <4>3, <4>6 DEF RxOrderInv
        <5>3. CASE j = Len(rxStamps) + 1
          BY <5>1, <5>3, <4>2, <4>3, <4>4
        <5> QED BY <5>2, <5>3, <4>3, <4>6
      <4> QED BY <2>2, <2>3, <2>4, <3>2, <3>3, <4>5, <4>6 DEF RxOrderInv
    <3> QED BY <3>4, <3>5
  <2> QED BY <2>5, <2>6
<1>r. ASSUME UNCHANGED <<done, rxStamps, rxNext, ptp, taken, ahead>>,
             \A t \in Threads : skb'[t] < rxNext,
             \A i \in DOMAIN delivered' : delivered'[i].frame < rxNext
      PROVE  RxOrderInv'
  BY <1>r DEF RxOrderInv
<1>k. ASSUME UNCHANGED <<done, rxStamps, rxNext, ptp, taken, ahead, skb, delivered>>
      PROVE  RxOrderInv'
  BY <1>k DEF RxOrderInv
<1>t. CASE RxTick
  BY <1>t, <1>k DEF RxTick, thread, history
<1>1. ASSUME NEW t \in Threads, Dequeue(t) PROVE RxOrderInv'
  <2>1. done # <<>> /\ done' = Tail(done) /\ skb' = [skb EXCEPT ![t] = Head(done)]
        /\ UNCHANGED <<rxStamps, rxNext, ptp, taken, ahead, delivered>>
    BY <1>1 DEF Dequeue, history
  <2>2. /\ Head(done) = done[1] /\ 1 \in DOMAIN done
        /\ \A i \in DOMAIN Tail(done) : i + 1 \in DOMAIN done /\ Tail(done)[i] = done[i + 1]
    BY <2>1, <1>0, TailElements
  <2>3. \A i \in DOMAIN done' : done'[i] < rxNext
    BY <2>1, <2>2 DEF RxOrderInv
  <2>4. \A u \in Threads : skb'[u] < rxNext
    BY <2>1, <2>2, <1>0 DEF RxOrderInv
  <2> QED BY <2>1, <2>3, <2>4 DEF RxOrderInv
<1>2. ASSUME NEW t \in Threads, TakeTime(t) PROVE RxOrderInv'
  BY <1>2, <1>k DEF TakeTime, history
<1>3. ASSUME NEW t \in Threads, FindRxStatus(t) PROVE RxOrderInv'
  BY <1>3, <1>k DEF FindRxStatus, history
<1>4. ASSUME NEW t \in Threads, FindRxReads(t) PROVE RxOrderInv'
  <2>1. UNCHANGED <<done, rxNext, ptp, taken, ahead, skb, delivered>>
    BY <1>4 DEF FindRxReads, history
  <2>2. CASE rxStamps = <<>>
    BY <1>4, <2>1, <2>2, <1>k DEF FindRxReads
  <2>3. CASE rxStamps # <<>>
    <3>1. rxStamps' = Tail(rxStamps)
      BY <1>4, <2>3 DEF FindRxReads
    <3>2. \A i \in DOMAIN Tail(rxStamps) :
            i + 1 \in DOMAIN rxStamps /\ i \in Nat /\ Tail(rxStamps)[i] = rxStamps[i + 1]
      BY <2>3, <1>0, TailElements
    <3>3. \A i \in DOMAIN rxStamps' : rxStamps'[i].frame \in ptp'
      BY <3>1, <3>2, <2>1 DEF RxOrderInv
    <3>4. ASSUME NEW i \in DOMAIN rxStamps', NEW j \in DOMAIN rxStamps', i < j
          PROVE  rxStamps'[i].frame < rxStamps'[j].frame
      <4>1. i + 1 < j + 1 /\ i + 1 \in DOMAIN rxStamps /\ j + 1 \in DOMAIN rxStamps
        BY <3>1, <3>2, <3>4
      <4>2. rxStamps[i + 1].frame < rxStamps[j + 1].frame
        BY <4>1 DEF RxOrderInv
      <4> QED BY <4>2, <3>1, <3>2, <3>4
    <3> QED BY <3>3, <3>4, <2>1 DEF RxOrderInv
  <2> QED BY <2>2, <2>3
<1>5. ASSUME NEW t \in Threads, Dispatch(t) PROVE RxOrderInv'
  <2>1. delivered' = Append(delivered, [frame |-> skb[t], sec |-> hwtstamp[t]])
        /\ UNCHANGED <<done, rxStamps, skb, rxNext, ptp, taken, ahead>>
        /\ skb[t] \in RxFrames /\ hwtstamp[t] \in Nat \cup {RxNone, Invalid}
    BY <1>5, RxFacts DEF Dispatch, history, RxTypeOK
  <2>2. /\ DOMAIN delivered = 1..Len(delivered) /\ Len(delivered) \in Nat
        /\ DOMAIN delivered' = 1..(Len(delivered) + 1)
        /\ \A i \in 1..Len(delivered) : delivered'[i] = delivered[i]
        /\ delivered'[Len(delivered) + 1] = [frame |-> skb[t], sec |-> hwtstamp[t]]
    BY <2>1, <1>0, AppendElements
  <2>3. \A i \in DOMAIN delivered' : delivered'[i].frame < rxNext
    BY <2>2 DEF RxOrderInv
  <2>4. \A u \in Threads : skb'[u] < rxNext
    BY <2>1 DEF RxOrderInv
  <2> QED BY <2>1, <2>3, <2>4, <1>r
<1>6. ASSUME NEW t \in Threads, Refill(t) PROVE RxOrderInv'
  <2>1. UNCHANGED <<done, rxStamps, rxNext, ptp, taken, ahead, delivered>>
        /\ skb' = [skb EXCEPT ![t] = 0]
    BY <1>6 DEF Refill, history
  <2>2. rxNext >= 1
    BY DEF RxTypeOK
  <2>3. \A u \in Threads : skb'[u] < rxNext
    BY <2>1, <2>2, <1>0 DEF RxOrderInv
  <2> QED BY <2>1, <2>3, <1>r DEF RxOrderInv
<1>s. CASE UNCHANGED rxVars
  BY <1>s, <1>k DEF rxVars, thread, history
<1> QED BY <1>a, <1>t, <1>1, <1>2, <1>3, <1>4, <1>5, <1>6, <1>s DEF RxNext, ProcessRx


\* A search leaves only timestamps of frames behind its own in the fifo.
LEMMA RxAheadStep ==
  ASSUME ReceiveAssumption, RxTypeOK, RxRoomInv, RxOrderInv, FifoAhead,
         [RxNext]_rxVars
  PROVE  FifoAhead'
<1>0. /\ RxFrames \subseteq Nat /\ rxNext \in Nat /\ rxNow \in Nat /\ ptp \subseteq RxFrames
      /\ rxStamps \in Seq(RxStampType)
      /\ \A t \in Threads : skb[t] \in Nat /\ skb[t] < rxNext
      /\ at \in [Threads -> RxSteps] /\ skb \in [Threads -> RxFrames \cup {0}]
  BY RxFacts DEF RxTypeOK, RxOrderInv
<1> DEFINE Searched(t) == at[t] \in {"dispatch", "enq"} /\ skb[t] \in ptp
           Ahead(t)    == \A i \in DOMAIN rxStamps : rxStamps[i].frame > skb[t]
<1>9. \A t \in Threads : Searched(t) => Ahead(t)
  BY DEF FifoAhead
<1>8. SUFFICES ASSUME NEW t \in Threads, at'[t] \in {"dispatch", "enq"}, skb'[t] \in ptp',
                      NEW i \in DOMAIN rxStamps'
               PROVE  rxStamps'[i].frame > skb'[t]
  BY DEF FifoAhead
<1>r. ASSUME rxStamps' = rxStamps, skb'[t] = skb[t], Searched(t) PROVE rxStamps'[i].frame > skb'[t]
  BY <1>r, <1>8, <1>9
<1>a. CASE Arrive
  <2>1. at' = at /\ skb' = skb /\ ptp' \subseteq ptp \cup {rxNext}
    BY <1>a DEF Arrive, thread, history
  <2>2. Searched(t)
    BY <2>1, <1>8, <1>0
  <2>3. CASE rxStamps' = rxStamps
    BY <2>1, <2>2, <2>3, <1>r
  <2>4. CASE rxStamps' # rxStamps
    <3>1. rxNext \in RxFrames
      BY <1>a, <1>0 DEF Arrive, RxTypeOK, RxFrames
    <3>2. PICK over \in BOOLEAN : rxStamps' = Append(rxStamps, [frame |-> rxNext,
            sec |-> (IF over THEN rxNow - 1 ELSE rxNow) % RxSecRange, over |-> over])
      BY <1>a, <2>4 DEF Arrive
    <3>3. PICK s \in RxStampType : rxStamps' = Append(rxStamps, s) /\ s.frame = rxNext
      <4>1. [frame |-> rxNext, over |-> over,
             sec |-> (IF over THEN rxNow - 1 ELSE rxNow) % RxSecRange] \in RxStampType
        BY <1>0, <3>1, RxNewStamp
      <4> QED BY <3>2, <4>1
    <3>4. /\ DOMAIN rxStamps = 1..Len(rxStamps) /\ Len(rxStamps) \in Nat
          /\ DOMAIN rxStamps' = 1..(Len(rxStamps) + 1)
          /\ \A j \in 1..Len(rxStamps) : rxStamps'[j] = rxStamps[j]
          /\ rxStamps'[Len(rxStamps) + 1] = s
      BY <3>3, <1>0, AppendElements
    <3>5. CASE i \in 1..Len(rxStamps)
      BY <3>4, <3>5, <2>1, <2>2, <1>9
    <3>6. CASE i = Len(rxStamps) + 1
      BY <3>3, <3>4, <3>6, <2>1, <1>0
    <3> QED BY <3>4, <3>5, <3>6, <1>8
  <2> QED BY <2>3, <2>4
<1>t. CASE RxTick
  BY <1>t, <1>r, <1>8 DEF RxTick, thread, history
<1>o. ASSUME NEW u \in Threads, u # t, UNCHANGED <<rxStamps, ptp>>,
             \E p : at' = [at EXCEPT ![u] = p], \E k : skb' = [skb EXCEPT ![u] = k]
      PROVE  rxStamps'[i].frame > skb'[t]
  <2>1. at'[t] = at[t] /\ skb'[t] = skb[t]
    BY <1>o, <1>0
  <2> QED BY <2>1, <1>o, <1>8, <1>r
<1>v. ASSUME skb' = skb PROVE \A u \in Threads : \E k : skb' = [skb EXCEPT ![u] = k]
  <2>1. \A u \in Threads : skb' = [skb EXCEPT ![u] = skb[u]]
    BY <1>v, <1>0
  <2> QED BY <2>1
<1>1. ASSUME NEW u \in Threads, Dequeue(u) PROVE rxStamps'[i].frame > skb'[t]
  <2>1. u # t
    <3>1. ASSUME u = t PROVE FALSE
      <4>1. at'[t] = (IF Head(done) \in ptp THEN "time" ELSE "dispatch") /\ skb'[t] = Head(done)
            /\ ptp' = ptp
        BY <1>1, <3>1, <1>0 DEF Dequeue, Goto, history
      <4> QED BY <4>1, <1>8
    <3> QED BY <3>1
  <2> QED BY <1>1, <2>1, <1>o DEF Dequeue, Goto, history
<1>2. ASSUME NEW u \in Threads, TakeTime(u) PROVE rxStamps'[i].frame > skb'[t]
  <2>1. at' = [at EXCEPT ![u] = "status"] /\ skb' = skb /\ UNCHANGED <<rxStamps, ptp>>
    BY <1>2 DEF TakeTime, Goto, history
  <2>2. u # t
    BY <2>1, <1>8, <1>0
  <2> QED BY <2>1, <2>2, <1>o, <1>v
<1>3. ASSUME NEW u \in Threads, FindRxStatus(u) PROVE rxStamps'[i].frame > skb'[t]
  <2>1. at' = [at EXCEPT ![u] = IF rxStamps = <<>> THEN "dispatch" ELSE "read"]
        /\ skb' = skb /\ UNCHANGED <<rxStamps, ptp>>
    BY <1>3 DEF FindRxStatus, Goto, history
  <2>2. rxStamps # <<>>
    BY <2>1, <1>8
  <2>3. u # t
    BY <2>1, <2>2, <1>8, <1>0
  <2> QED BY <2>1, <2>3, <1>o, <1>v
<1>4. ASSUME NEW u \in Threads, FindRxReads(u) PROVE rxStamps'[i].frame > skb'[t]
  <2>1. skb' = skb /\ ptp' = ptp /\ at[u] = "read"
    BY <1>4 DEF FindRxReads, history
  <2>2. CASE rxStamps = <<>>
    <3>1. rxStamps' = rxStamps
      BY <1>4, <2>2 DEF FindRxReads
    <3> QED BY <3>1, <2>2, <1>8
  <2>3. CASE rxStamps # <<>>
    <3>1. rxStamps' = Tail(rxStamps)
          /\ at' = [at EXCEPT ![u] = IF Head(rxStamps).frame # skb[u] THEN "status" ELSE "dispatch"]
      BY <1>4, <2>3 DEF FindRxReads, Goto, NotItsOwn
    <3>2. /\ Head(rxStamps) = rxStamps[1] /\ 1 \in DOMAIN rxStamps
          /\ i + 1 \in DOMAIN rxStamps /\ i \in Nat /\ i >= 1 /\ Tail(rxStamps)[i] = rxStamps[i + 1]
      BY <3>1, <2>3, <1>0, <1>8, TailElements
    <3>3. CASE u # t
      <4>1. Searched(t)
        BY <3>1, <3>3, <2>1, <1>8, <1>0
      <4> QED BY <4>1, <3>1, <3>2, <2>1, <1>9
    <3>4. CASE u = t
      <4>1. Head(rxStamps).frame = skb[t]
        BY <3>1, <3>4, <1>8, <1>0
      <4>2. rxStamps[1].frame < rxStamps[i + 1].frame
        BY <3>2 DEF RxOrderInv
      <4>3. rxStamps[1].frame \in Nat /\ rxStamps[i + 1].frame \in Nat
        BY <3>2, RxFacts
      <4> QED BY <4>1, <4>2, <4>3, <3>1, <3>2, <2>1
    <3> QED BY <3>3, <3>4
  <2> QED BY <2>2, <2>3
<1>5. ASSUME NEW u \in Threads, Dispatch(u) PROVE rxStamps'[i].frame > skb'[t]
  <2>1. at[u] = "dispatch" /\ at' = [at EXCEPT ![u] = "enq"] /\ skb' = skb
        /\ UNCHANGED <<rxStamps, ptp>>
    BY <1>5 DEF Dispatch, Goto, history
  <2>2. Searched(t)
    BY <2>1, <1>8, <1>0
  <2> QED BY <2>1, <2>2, <1>r
<1>6. ASSUME NEW u \in Threads, Refill(u) PROVE rxStamps'[i].frame > skb'[t]
  <2>1. at' = [at EXCEPT ![u] = "deq"] /\ skb' = [skb EXCEPT ![u] = 0]
        /\ UNCHANGED <<rxStamps, ptp>>
    BY <1>6 DEF Refill, Goto, history
  <2>2. u # t
    BY <2>1, <1>8, <1>0
  <2> QED BY <2>1, <2>2, <1>o
<1>s. CASE UNCHANGED rxVars
  BY <1>s, <1>r, <1>8 DEF rxVars, thread, history
<1> QED BY <1>a, <1>t, <1>1, <1>2, <1>3, <1>4, <1>5, <1>6, <1>s DEF RxNext, ProcessRx

\* A search ends when its timestamp is found.
LEMMA RxSearchStep ==
  ASSUME ReceiveAssumption, RxTypeOK, RxSearchInv, [RxNext]_rxVars
  PROVE  RxSearchInv'
<1>0. /\ at \in [Threads -> RxSteps] /\ skb \in [Threads -> RxFrames \cup {0}]
      /\ hwtstamp \in [Threads -> Nat \cup {RxNone, Invalid}]
  BY DEF RxTypeOK
<1>9. SUFFICES ASSUME NEW u \in Threads, at'[u] \in {"time", "status", "read"}
               PROVE  skb'[u] \in ptp' /\ hwtstamp'[u] = RxNone
  BY DEF RxSearchInv
<1>8. at[u] \in {"time", "status", "read"} => skb[u] \in ptp /\ hwtstamp[u] = RxNone
  BY DEF RxSearchInv
<1>r. ASSUME at'[u] = at[u] \/ at[u] \in {"time", "status", "read"}, skb'[u] = skb[u],
             hwtstamp'[u] = hwtstamp[u], ptp \subseteq ptp'
      PROVE  skb'[u] \in ptp' /\ hwtstamp'[u] = RxNone
  BY <1>r, <1>8, <1>9
<1>7. CASE Arrive \/ RxTick \/ UNCHANGED rxVars
  <2>1. UNCHANGED <<at, skb, hwtstamp>> /\ ptp \subseteq ptp'
    BY <1>7 DEF Arrive, RxTick, rxVars, thread, history
  <2> QED BY <2>1, <1>r
<1>1. ASSUME NEW t \in Threads, Dequeue(t) PROVE skb'[u] \in ptp' /\ hwtstamp'[u] = RxNone
  <2>1. /\ at' = [at EXCEPT ![t] = IF Head(done) \in ptp THEN "time" ELSE "dispatch"]
        /\ skb' = [skb EXCEPT ![t] = Head(done)] /\ ptp' = ptp
        /\ hwtstamp' = [hwtstamp EXCEPT ![t] = RxNone]
    BY <1>1 DEF Dequeue, Goto, history
  <2>2. CASE t = u
    BY <2>1, <2>2, <1>0, <1>9
  <2>3. CASE t # u
    <3>1. at'[u] = at[u] /\ skb'[u] = skb[u] /\ hwtstamp'[u] = hwtstamp[u]
      BY <2>1, <2>3, <1>0
    <3> QED BY <3>1, <2>1, <1>r
  <2> QED BY <2>2, <2>3
<1>2. ASSUME NEW t \in Threads, TakeTime(t) \/ FindRxStatus(t)
      PROVE  skb'[u] \in ptp' /\ hwtstamp'[u] = RxNone
  <2>1. /\ at[t] \in {"time", "status"} /\ \E p : at' = [at EXCEPT ![t] = p]
        /\ UNCHANGED <<skb, hwtstamp, ptp>>
    BY <1>2 DEF TakeTime, FindRxStatus, Goto, history
  <2>2. at'[u] = at[u] \/ at[u] \in {"time", "status", "read"}
    BY <2>1, <1>0
  <2> QED BY <2>1, <2>2, <1>r
<1>4. ASSUME NEW t \in Threads, FindRxReads(t)
      PROVE  skb'[u] \in ptp' /\ hwtstamp'[u] = RxNone
  <2>1. at[t] = "read" /\ skb' = skb /\ ptp' = ptp /\ \E p : at' = [at EXCEPT ![t] = p]
    BY <1>4 DEF FindRxReads, Goto, history
  <2>2. at'[u] = at[u] \/ at[u] \in {"time", "status", "read"}
    BY <2>1, <1>0
  <2>3. hwtstamp'[u] = hwtstamp[u]
    <3>1. CASE rxStamps = <<>>
      BY <1>4, <3>1 DEF FindRxReads
    <3>2. CASE rxStamps # <<>> /\ Head(rxStamps).frame # skb[t]
      <4>1. hwtstamp' = [hwtstamp EXCEPT ![t] = hwtstamp[t]]
        BY <1>4, <3>2 DEF FindRxReads
      <4> QED BY <4>1, <1>0
    <3>3. CASE rxStamps # <<>> /\ Head(rxStamps).frame = skb[t]
      <4>1. at' = [at EXCEPT ![t] = "dispatch"] /\ \E h : hwtstamp' = [hwtstamp EXCEPT ![t] = h]
        BY <1>4, <3>3 DEF FindRxReads, Goto, NotItsOwn
      <4>2. t # u
        BY <4>1, <1>0, <1>9
      <4> QED BY <4>1, <4>2, <1>0
    <3> QED BY <3>1, <3>2, <3>3
  <2> QED BY <2>1, <2>2, <2>3, <1>r
<1>5. ASSUME NEW t \in Threads, Dispatch(t) \/ Refill(t)
      PROVE  skb'[u] \in ptp' /\ hwtstamp'[u] = RxNone
  <2>1. /\ \E p \in {"enq", "deq"} : at' = [at EXCEPT ![t] = p]
        /\ skb' = skb \/ skb' = [skb EXCEPT ![t] = 0]
        /\ UNCHANGED <<hwtstamp, ptp>>
    BY <1>5 DEF Dispatch, Refill, Goto, history
  <2>2. t # u
    BY <2>1, <1>0, <1>9
  <2>3. at'[u] = at[u] /\ skb'[u] = skb[u]
    BY <2>1, <2>2, <1>0
  <2> QED BY <2>1, <2>3, <1>r
<1> QED BY <1>7, <1>1, <1>2, <1>4, <1>5 DEF RxNext, ProcessRx

LEMMA RxInitial ==
  ASSUME ReceiveAssumption, RxInit
  PROVE  ReceiveInv
<1>1. RxTypeOK
  BY DEF RxInit, RxTypeOK, ReceiveAssumption, RxFrames, RxSteps, RxStampType, RxNone
<1>2. RxRoomInv
  BY DEF RxInit, RxRoomInv, RxHeld, ReceiveAssumption, Threads
<1>3. RxOrderInv
  BY DEF RxInit, RxOrderInv
<1>4. FifoAhead
  BY DEF RxInit, FifoAhead
<1>5. RxSearchInv
  BY DEF RxInit, RxSearchInv
<1> QED BY <1>1, <1>2, <1>3, <1>4, <1>5 DEF ReceiveInv

\* The invariant of reception, without the times, holds for any number of buffers and
\* timestamps, also if two threads process the ring (edge_com_dma.c:507-534, 849).
THEOREM RxInvHolds ==
  ASSUME ReceiveAssumption
  PROVE  RxSpec => []ReceiveInv
<1>1. RxInit => ReceiveInv
  BY RxInitial
<1>2. ReceiveInv /\ [RxNext]_rxVars => ReceiveInv'
  BY RxTypeStep, RxRoomStep, RxOrderStep, RxSearchStep, RxAheadStep DEF ReceiveInv
<1>3. QED
  BY <1>1, <1>2, PTL DEF RxSpec

\* Each search leaves fifo and ring in step, whatever was lost (edge_com_ts.c:254-273).
THEOREM RxInvAlways ==
  ASSUME ReceiveAssumption
  PROVE  RxSpec => []RxInv
<1>1. ReceiveInv => RxInv
  BY DEF ReceiveInv, RxInv
<1>2. QED
  BY <1>1, RxInvHolds, PTL


-----------------------------------------------------------------------------
(* The seconds of a received frame.                                         *)

\* edgx_com_ts_read: a timestamp that is not older than MaxAge is completed with its own
\* seconds, or not at all.
LEMMA RxFullSecExact ==
  ASSUME ReceiveAssumption, MaxAge < RxSecRange - 1,
         NEW t \in Threads, rxTime[t] \in Nat, NEW s \in RxStampType,
         NEW k \in Nat, k <= rxTime[t], rxTime[t] <= k + MaxAge,
         s.sec = (IF s.over THEN k - 1 ELSE k) % RxSecRange
  PROVE  RxFullSec(t, s) \in {k, Invalid}
<1> DEFINE sec   == s.sec + (IF s.over THEN 1 ELSE 0)
           cands == {x \in Nat \cap {rxTime[t], rxTime[t] - 1, rxTime[t] + 1} : x % RxSecRange = sec}
<1>1. RxSecRange \in Nat \ {0} /\ MaxAge \in Nat
  BY DEF ReceiveAssumption
<1>2. RxFullSec(t, s) = IF cands = {} THEN Invalid ELSE CHOOSE x \in cands : TRUE
  BY DEF RxFullSec
<1>3. ASSUME NEW x \in cands PROVE x = k
  <2>1. x \in Nat /\ x % RxSecRange = sec /\ x \in {rxTime[t], rxTime[t] - 1, rxTime[t] + 1}
    OBVIOUS
  <2>2. -1 <= x - k /\ x - k <= MaxAge + 1
    BY <2>1, <1>1
  <2>3. -RxSecRange < x - k /\ x - k < RxSecRange
    BY <1>1, <2>1, <2>2
  <2>4. s.over \in BOOLEAN /\ x \in Int /\ k \in Int
    BY <2>1 DEF RxStampType
  <2>5. x % RxSecRange = ((IF s.over THEN k - 1 ELSE k) % RxSecRange) + (IF s.over THEN 1 ELSE 0)
    BY <2>1
  <2> HIDE DEF sec, cands
  <2> QED BY <1>1, <2>3, <2>4, <2>5, SecondTells
<1> HIDE DEF cands
<1>4. cands # {} => (CHOOSE x \in cands : TRUE) \in cands
  OBVIOUS
<1> QED BY <1>2, <1>3, <1>4

\* What a step leaves of the history.
LEMMA RxHistory ==
  ASSUME ReceiveAssumption, RxTypeOK, RxRoomInv, RxOrderInv, [RxNext]_rxVars
  PROVE  /\ \A n \in RxFrames : n # rxNext => taken'[n] = taken[n]
         /\ ptp \subseteq ptp' /\ ptp' \subseteq ptp \cup {rxNext} /\ rxNext \notin ptp
         /\ rxNext \in ptp' =>
              Arrive /\ rxNext \in RxFrames /\ taken'[rxNext] = rxNow /\ rxNow' = rxNow
         /\ ~Arrive => UNCHANGED <<ptp, taken, unstamped, ahead>>
<1>1. rxNext \in Nat /\ rxNext \notin ptp /\ taken \in [RxFrames -> Nat \cup {RxNone}]
  BY RxFacts DEF RxOrderInv, RxTypeOK
<1>2. CASE Arrive
  <2>1. rxNext \in RxFrames /\ rxNow' = rxNow
    BY <1>2, RxFacts DEF Arrive, RxTypeOK, RxFrames
  <2>2. CASE ptp' = ptp /\ taken' = taken
    BY <1>1, <1>2, <2>1, <2>2
  <2>3. CASE ptp' = ptp \cup {rxNext} /\ taken' = [taken EXCEPT ![rxNext] = rxNow]
    BY <1>1, <1>2, <2>1, <2>3
  <2> QED BY <1>2, <2>2, <2>3 DEF Arrive, history
<1>3. CASE ~Arrive
  <2>1. UNCHANGED <<ptp, taken, unstamped, ahead>>
    BY <1>3 DEF RxNext, ProcessRx, RxTick, Dequeue, TakeTime, FindRxStatus,
       FindRxReads, Dispatch, Refill, history, rxVars
  <2> QED BY <1>1, <1>3, <2>1
<1> QED BY <1>2, <1>3

\* Every timestamp in the fifo is right.
LEMMA RxStampsStep ==
  ASSUME ReceiveAssumption, RxTypeOK, RxRoomInv, RxOrderInv,
         \A i \in DOMAIN rxStamps : RxRight(rxStamps[i]), [RxNext]_rxVars
  PROVE  (\A i \in DOMAIN rxStamps : RxRight(rxStamps[i]))'
<1> DEFINE Exact(s) == s.sec = (IF s.over THEN taken'[s.frame] - 1 ELSE taken'[s.frame]) % RxSecRange
<1>0. rxStamps \in Seq(RxStampType) /\ rxNext \in Nat /\ ptp \subseteq RxFrames /\ rxNow \in Nat
      /\ \A n \in ptp : n < rxNext
      /\ taken \in [RxFrames -> Nat \cup {RxNone}]
  BY RxFacts DEF RxOrderInv, RxTypeOK
<1>1. \A i \in DOMAIN rxStamps : Exact(rxStamps[i])
  <2>1. SUFFICES ASSUME NEW i \in DOMAIN rxStamps PROVE Exact(rxStamps[i])
    OBVIOUS
  <2>2. rxStamps[i].frame \in RxFrames /\ rxStamps[i].frame # rxNext
    BY <1>0 DEF RxOrderInv
  <2>3. taken'[rxStamps[i].frame] = taken[rxStamps[i].frame]
    BY <2>2, RxHistory
  <2>4. RxRight(rxStamps[i])
    OBVIOUS
  <2> QED BY <2>3, <2>4 DEF RxRight
<1>2. SUFFICES ASSUME NEW i \in DOMAIN rxStamps' PROVE Exact(rxStamps'[i])
  BY DEF RxRight
<1>3. CASE rxStamps' = rxStamps
  BY <1>1, <1>2, <1>3
<1>4. CASE rxStamps # <<>> /\ rxStamps' = Tail(rxStamps)
  <2>1. i + 1 \in DOMAIN rxStamps /\ Tail(rxStamps)[i] = rxStamps[i + 1]
    BY <1>0, <1>2, <1>4, TailElements
  <2> QED BY <2>1, <1>1, <1>4
<1>5. CASE Arrive /\ rxStamps' # rxStamps
  <2>1. PICK over \in BOOLEAN : rxStamps' = Append(rxStamps, [frame |-> rxNext,
          sec |-> (IF over THEN rxNow - 1 ELSE rxNow) % RxSecRange, over |-> over])
    BY <1>5 DEF Arrive
  <2>2. rxNext \in RxFrames /\ taken'[rxNext] = rxNow
    <3>1. rxNext \in ptp'
      BY <1>5 DEF Arrive
    <3> QED BY <3>1, RxHistory
  <2>3. PICK s \in RxStampType :
          rxStamps' = Append(rxStamps, s) /\
          s = [frame |-> rxNext, over |-> over,
               sec |-> (IF over THEN rxNow - 1 ELSE rxNow) % RxSecRange]
    <3>1. [frame |-> rxNext, over |-> over,
           sec |-> (IF over THEN rxNow - 1 ELSE rxNow) % RxSecRange] \in RxStampType
      BY <1>0, <2>2, RxNewStamp
    <3> QED BY <2>1, <3>1
  <2>4. /\ DOMAIN rxStamps = 1..Len(rxStamps) /\ Len(rxStamps) \in Nat
        /\ DOMAIN rxStamps' = 1..(Len(rxStamps) + 1)
        /\ \A j \in 1..Len(rxStamps) : rxStamps'[j] = rxStamps[j]
        /\ rxStamps'[Len(rxStamps) + 1] = s
    BY <2>3, <1>0, AppendElements
  <2>5. Exact(s)
    <3>1. s.frame = rxNext /\ s.over = over /\ s.sec = (IF over THEN rxNow - 1 ELSE rxNow) % RxSecRange
      BY <2>3
    <3> QED BY <3>1, <2>2
  <2> HIDE DEF Exact
  <2>6. CASE i \in 1..Len(rxStamps)
    BY <2>4, <2>6, <1>1
  <2>7. CASE i = Len(rxStamps) + 1
    BY <2>4, <2>5, <2>7
  <2> QED BY <2>4, <2>6, <2>7, <1>2
<1>6. \/ rxStamps' = rxStamps
      \/ (rxStamps # <<>> /\ rxStamps' = Tail(rxStamps))
      \/ (Arrive /\ rxStamps' # rxStamps)
  BY DEF RxNext, ProcessRx, RxTick, Dequeue, TakeTime, FindRxStatus,
     FindRxReads, Dispatch, Refill, rxVars
<1> HIDE DEF Exact
<1> QED BY <1>3, <1>4, <1>5, <1>6

\* A frame whose timestamp may still be completed is not older than MaxAge.
LEMMA RxWaitingStep ==
  ASSUME ReceiveAssumption, RxTypeOK, RxRoomInv, RxOrderInv,
         \A n \in Waiting \cap ptp : taken[n] <= rxNow /\ rxNow <= taken[n] + MaxAge,
         [RxNext]_rxVars
  PROVE  (\A n \in Waiting \cap ptp : taken[n] <= rxNow /\ rxNow <= taken[n] + MaxAge)'
<1>0. /\ done \in Seq(RxFrames) /\ rxNext \in Nat /\ ptp \subseteq RxFrames /\ rxNow \in Nat
      /\ MaxAge \in Nat /\ 0 \notin RxFrames
      /\ at \in [Threads -> RxSteps] /\ skb \in [Threads -> RxFrames \cup {0}]
  BY RxFacts DEF RxOrderInv, RxTypeOK, RxFrames
<1>1. SUFFICES ASSUME NEW n, n \in ptp', n \in (Waiting)'
               PROVE  taken'[n] <= rxNow' /\ rxNow' <= taken'[n] + MaxAge
  OBVIOUS
<1>2. \/ \E i \in DOMAIN done' : n = done'[i]
      \/ \E u \in Threads : at'[u] # "enq" /\ n = skb'[u]
  BY <1>1 DEF Waiting
<1>3. CASE n = rxNext
  BY <1>1, <1>3, <1>0, RxHistory
<1>4. CASE n # rxNext
  <2>1. n \in ptp /\ n \in RxFrames /\ taken'[n] = taken[n] /\ taken[n] \in Nat
    BY <1>0, <1>1, <1>4, RxHistory DEF RxOrderInv
  <2>2. n # 0
    BY <2>1, <1>0
  <2> DEFINE InRing == \E i \in DOMAIN done : n = done[i]
             InHand == \E u \in Threads : at[u] # "enq" /\ n = skb[u]
  <2>3. InRing \/ InHand
    <3>a. CASE Arrive
      <4>1. at' = at /\ skb' = skb
        BY <3>a DEF Arrive, thread
      <4>2. CASE done' = done
        BY <4>1, <4>2, <1>2
      <4>3. CASE done' = Append(done, rxNext) /\ rxNext \in RxFrames
        <5>1. /\ DOMAIN done = 1..Len(done) /\ Len(done) \in Nat
              /\ DOMAIN done' = 1..(Len(done) + 1)
              /\ \A i \in 1..Len(done) : done'[i] = done[i]
              /\ done'[Len(done) + 1] = rxNext
          BY <4>3, <1>0, AppendElements
        <5>2. ASSUME NEW i \in DOMAIN done', n = done'[i] PROVE InRing
          <6>1. i # Len(done) + 1
            BY <5>1, <5>2, <1>4
          <6>2. i \in DOMAIN done /\ n = done[i]
            BY <5>1, <5>2, <6>1
          <6> QED BY <6>2
        <5> QED BY <4>1, <5>2, <1>2
      <4>4. rxNext \in RxFrames
        BY <3>a, RxFacts DEF Arrive, RxTypeOK, RxFrames
      <4> QED BY <4>2, <4>3, <4>4, <3>a DEF Arrive
    <3>1. ASSUME NEW t \in Threads, Dequeue(t) PROVE InRing \/ InHand
      <4>1. done # <<>> /\ done' = Tail(done) /\ skb' = [skb EXCEPT ![t] = Head(done)]
            /\ \E p : at' = [at EXCEPT ![t] = p]
        BY <3>1 DEF Dequeue, Goto
      <4>2. /\ Head(done) = done[1] /\ 1 \in DOMAIN done
            /\ \A i \in DOMAIN Tail(done) : i + 1 \in DOMAIN done /\ Tail(done)[i] = done[i + 1]
        BY <4>1, <1>0, TailElements
      <4>3. CASE \E i \in DOMAIN done' : n = done'[i]
        BY <4>1, <4>2, <4>3
      <4>4. ASSUME NEW u \in Threads, at'[u] # "enq", n = skb'[u] PROVE InRing \/ InHand
        <5>1. CASE u = t
          <6>1. n = done[1]
            BY <5>1, <4>1, <4>2, <4>4, <1>0
          <6> QED BY <6>1, <4>2
        <5>2. CASE u # t
          BY <5>2, <4>1, <4>4, <1>0
        <5> QED BY <5>1, <5>2
      <4> QED BY <4>3, <4>4, <1>2
    <3>2. ASSUME NEW t \in Threads, at[t] # "enq", \E p : at' = [at EXCEPT ![t] = p],
                 UNCHANGED <<done, skb>>
          PROVE  InRing \/ InHand
      <4>1. ASSUME NEW u \in Threads, at'[u] # "enq", n = skb'[u] PROVE InHand
        <5>1. CASE u = t
          BY <5>1, <4>1, <3>2
        <5>2. CASE u # t
          BY <5>2, <4>1, <3>2, <1>0
        <5> QED BY <5>1, <5>2
      <4> QED BY <4>1, <3>2, <1>2
    <3>6. ASSUME NEW t \in Threads, Refill(t) PROVE InRing \/ InHand
      <4>1. done' = done /\ skb' = [skb EXCEPT ![t] = 0] /\ at' = [at EXCEPT ![t] = "deq"]
        BY <3>6 DEF Refill, Goto
      <4>2. ASSUME NEW u \in Threads, at'[u] # "enq", n = skb'[u] PROVE InHand
        <5>1. u # t
          BY <4>1, <4>2, <2>2, <1>0
        <5> QED BY <5>1, <4>1, <4>2, <1>0
      <4> QED BY <4>1, <4>2, <1>2
    <3>7. ASSUME UNCHANGED <<done, at, skb>> PROVE InRing \/ InHand
      BY <3>7, <1>2
    <3>8. ASSUME NEW t \in Threads,
                 TakeTime(t) \/ FindRxStatus(t) \/ FindRxReads(t) \/ Dispatch(t)
          PROVE  InRing \/ InHand
      <4>1. at[t] # "enq" /\ UNCHANGED <<done, skb>>
        BY <3>8 DEF TakeTime, FindRxStatus, FindRxReads, Dispatch
      <4>2. \E p : at' = [at EXCEPT ![t] = p]
        BY <3>8 DEF TakeTime, FindRxStatus, FindRxReads, Dispatch, Goto
      <4> HIDE DEF InRing, InHand
      <4> QED BY <4>1, <4>2, <3>2
    <3>9. CASE RxTick \/ UNCHANGED rxVars
      BY <3>9, <3>7 DEF RxTick, rxVars, thread
    <3> HIDE DEF InRing, InHand
    <3> QED BY <3>a, <3>1, <3>6, <3>8, <3>9 DEF RxNext, ProcessRx
  <2>4. n \in Waiting
    BY <2>3 DEF Waiting
  <2>5. taken[n] <= rxNow /\ rxNow <= taken[n] + MaxAge
    BY <2>1, <2>4
  <2>6. CASE RxTick
    <3>1. rxNow < taken[n] + MaxAge /\ rxNow' = rxNow + 1
      BY <2>1, <2>4, <2>6 DEF RxTick
    <3> QED BY <3>1, <2>1, <2>5, <1>0
  <2>7. CASE rxNow' = rxNow
    BY <2>1, <2>5, <2>7
  <2>8. RxTick \/ rxNow' = rxNow
    BY DEF RxNext, ProcessRx, Arrive, Dequeue, TakeTime, FindRxStatus,
       FindRxReads, Dispatch, Refill, rxVars
  <2> QED BY <2>6, <2>7, <2>8
<1> QED BY <1>3, <1>4


\* What a thread knows of its frame's timestamp.
LEMMA RxThreadsStep ==
  ASSUME ReceiveAssumption, MaxAge < RxSecRange - 1,
         RxTypeOK, RxRoomInv, RxOrderInv, RxSearchInv, RxExactInv,
         [RxNext]_rxVars, NEW u \in Threads
  PROVE  /\ at'[u] \in {"status", "read"} =>
              taken'[skb'[u]] <= rxTime'[u] /\ rxTime'[u] <= taken'[skb'[u]] + MaxAge
         /\ at'[u] = "dispatch" /\ hwtstamp'[u] \notin {RxNone, Invalid} =>
              hwtstamp'[u] = taken'[skb'[u]]
<1> DEFINE Goal ==
         /\ at'[u] \in {"status", "read"} =>
              taken'[skb'[u]] <= rxTime'[u] /\ rxTime'[u] <= taken'[skb'[u]] + MaxAge
         /\ at'[u] = "dispatch" /\ hwtstamp'[u] \notin {RxNone, Invalid} =>
              hwtstamp'[u] = taken'[skb'[u]]
<1> SUFFICES Goal
  OBVIOUS
<1>0. /\ at[u] \in {"time", "status", "read"} => skb[u] \in ptp /\ hwtstamp[u] = RxNone
      /\ at[u] \in {"status", "read"} =>
           taken[skb[u]] <= rxTime[u] /\ rxTime[u] <= taken[skb[u]] + MaxAge
      /\ at[u] = "dispatch" /\ hwtstamp[u] \notin {RxNone, Invalid} =>
           hwtstamp[u] = taken[skb[u]]
  BY DEF RxSearchInv, RxExactInv
<1>9. /\ at \in [Threads -> RxSteps] /\ skb \in [Threads -> RxFrames \cup {0}]
      /\ rxTime \in [Threads -> Nat]
      /\ hwtstamp \in [Threads -> Nat \cup {RxNone, Invalid}]
      /\ rxStamps \in Seq(RxStampType) /\ ptp \subseteq RxFrames
      /\ at[u] # "deq" => skb[u] \in RxFrames
      /\ skb[u] \in Nat /\ rxNext \in Nat /\ skb[u] < rxNext
      /\ \A n \in ptp : taken[n] \in Nat
  BY RxFacts DEF RxTypeOK, RxOrderInv
<1>8. skb[u] \in RxFrames => taken'[skb[u]] = taken[skb[u]]
  BY <1>9, RxHistory
<1>r. ASSUME at'[u] = at[u], skb'[u] = skb[u], hwtstamp'[u] = hwtstamp[u], rxTime'[u] = rxTime[u]
      PROVE  Goal
  <2>1. CASE at[u] = "deq"
    BY <1>r, <2>1
  <2>2. CASE at[u] # "deq"
    <3>1. taken'[skb[u]] = taken[skb[u]] /\ ptp \subseteq ptp'
      BY <2>2, <1>8, <1>9, RxHistory
    <3> QED BY <3>1, <1>r, <1>0
  <2> QED BY <2>1, <2>2
<1>o. ASSUME NEW t \in Threads, t # u,
             ProcessRx(t)
      PROVE  Goal
  <2>1. /\ \E p : at' = [at EXCEPT ![t] = p]
        /\ skb' = skb \/ \E k : skb' = [skb EXCEPT ![t] = k]
        /\ hwtstamp' = hwtstamp \/ \E h : hwtstamp' = [hwtstamp EXCEPT ![t] = h]
        /\ rxTime' = rxTime \/ \E c : rxTime' = [rxTime EXCEPT ![t] = c]
    <3>1. ASSUME Dequeue(t) \/ TakeTime(t) \/ FindRxStatus(t) PROVE <2>1!:
      BY <3>1 DEF Dequeue, TakeTime, FindRxStatus, Goto
    <3>2. ASSUME FindRxReads(t) PROVE <2>1!:
      BY <3>2 DEF FindRxReads, Goto
    <3>3. ASSUME Dispatch(t) \/ Refill(t) PROVE <2>1!:
      BY <3>3 DEF Dispatch, Refill, Goto
    <3> QED BY <1>o, <3>1, <3>2, <3>3 DEF ProcessRx
  <2>2. at'[u] = at[u]
    BY <2>1, <1>o, <1>9
  <2>3. skb'[u] = skb[u]
    BY <2>1, <1>o, <1>9
  <2>4. hwtstamp'[u] = hwtstamp[u]
    BY <2>1, <1>o, <1>9
  <2>5. rxTime'[u] = rxTime[u]
    BY <2>1, <1>o, <1>9
  <2> QED BY <2>2, <2>3, <2>4, <2>5, <1>r
<1>1. CASE Dequeue(u)
  <2>1. /\ skb'[u] = Head(done) /\ hwtstamp'[u] = RxNone /\ ptp' = ptp
        /\ at'[u] = IF Head(done) \in ptp THEN "time" ELSE "dispatch"
    BY <1>1, <1>9 DEF Dequeue, Goto, history
  <2> QED BY <2>1
<1>2. CASE TakeTime(u)
  <2>1. /\ at[u] = "time" /\ at'[u] = "status" /\ skb' = skb /\ hwtstamp' = hwtstamp
        /\ rxTime'[u] = rxNow /\ ptp' = ptp /\ taken' = taken
    BY <1>2, <1>9 DEF TakeTime, Goto, history
  <2>2. skb[u] \in Waiting \cap ptp
    BY <2>1, <1>0 DEF Waiting
  <2>3. taken[skb[u]] <= rxNow /\ rxNow <= taken[skb[u]] + MaxAge
    BY <2>2 DEF RxExactInv
  <2> QED BY <2>1, <2>2, <2>3, <1>0
<1>3. CASE FindRxStatus(u)
  <2>1. /\ at[u] = "status" /\ at'[u] \in {"read", "dispatch"}
        /\ UNCHANGED <<skb, hwtstamp, rxTime, ptp, taken>>
    BY <1>3, <1>9 DEF FindRxStatus, Goto, history
  <2> QED BY <2>1, <1>0
<1>4. CASE FindRxReads(u)
  <2>1. at[u] = "read" /\ UNCHANGED <<skb, rxTime, ptp, taken>>
    BY <1>4 DEF FindRxReads, history
  <2>2. CASE rxStamps = <<>>
    <3>1. at'[u] = "status" /\ hwtstamp' = hwtstamp
      BY <1>4, <2>2, <1>9 DEF FindRxReads, Goto
    <3> QED BY <3>1, <2>1, <1>0
  <2>3. CASE rxStamps # <<>> /\ Head(rxStamps).frame # skb[u]
    <3>1. at'[u] = "status" /\ hwtstamp'[u] = hwtstamp[u]
      BY <1>4, <2>3, <1>9 DEF FindRxReads, Goto, NotItsOwn
    <3> QED BY <3>1, <2>1, <1>0
  <2>4. CASE rxStamps # <<>> /\ Head(rxStamps).frame = skb[u]
    <3>1. at'[u] = "dispatch" /\ hwtstamp'[u] = RxFullSec(u, Head(rxStamps))
      BY <1>4, <2>4, <1>9 DEF FindRxReads, Goto, NotItsOwn
    <3>2. /\ Head(rxStamps) = rxStamps[1] /\ 1 \in DOMAIN rxStamps
          /\ rxStamps[1] \in RxStampType
      BY <2>4, <1>9, TailElements
    <3>3. RxRight(rxStamps[1])
      BY <3>2 DEF RxExactInv
    <3>4. PICK k \in Nat : k = taken[skb[u]]
      BY <2>1, <1>0, <1>9
    <3>5. rxStamps[1].sec = (IF rxStamps[1].over THEN k - 1 ELSE k) % RxSecRange
      BY <3>2, <3>3, <3>4, <2>4 DEF RxRight
    <3>6. k <= rxTime[u] /\ rxTime[u] <= k + MaxAge /\ rxTime[u] \in Nat
      BY <3>4, <2>1, <1>0, <1>9
    <3>7. RxFullSec(u, rxStamps[1]) \in {k, Invalid}
      BY <3>2, <3>5, <3>6, RxFullSecExact
    <3> QED BY <3>1, <3>2, <3>4, <3>7, <2>1
  <2> QED BY <2>2, <2>3, <2>4
<1>5. CASE Dispatch(u)
  <2>1. at'[u] = "enq"
    BY <1>5, <1>9 DEF Dispatch, Goto
  <2> QED BY <2>1
<1>6. CASE Refill(u)
  <2>1. at'[u] = "deq"
    BY <1>6, <1>9 DEF Refill, Goto
  <2> QED BY <2>1
<1>7. CASE Arrive \/ RxTick \/ UNCHANGED rxVars
  <2>1. UNCHANGED <<at, skb, hwtstamp, rxTime>>
    BY <1>7 DEF Arrive, RxTick, rxVars, thread
  <2> QED BY <2>1, <1>r
<1> HIDE DEF Goal
<1>10. CASE \E t \in Threads : ProcessRx(t)
  <2>1. PICK t \in Threads : ProcessRx(t)
    BY <1>10
  <2>2. CASE t # u
    BY <2>1, <2>2, <1>o
  <2>3. CASE t = u
    BY <2>1, <2>3, <1>1, <1>2, <1>3, <1>4, <1>5, <1>6 DEF ProcessRx
  <2> QED BY <2>2, <2>3
<1> QED BY <1>10, <1>7 DEF RxNext

\* A frame is delivered with what its thread knows.
LEMMA RxDeliveredStep ==
  ASSUME ReceiveAssumption, RxTypeOK, RxRoomInv, RxOrderInv, RxExactInv,
         [RxNext]_rxVars
  PROVE  RxStampExact'
<1>0. /\ \A i \in DOMAIN delivered : delivered[i].frame \in RxFrames
      /\ \A i \in DOMAIN delivered : delivered[i].frame < rxNext
      /\ RxFrames \subseteq Nat /\ rxNext \in Nat
      /\ delivered \in Seq([frame: RxFrames, sec: Nat \cup {RxNone, Invalid}])
  <2>1. ASSUME NEW S, NEW q \in Seq(S) PROVE \A i \in DOMAIN q : q[i] \in S
    OBVIOUS
  <2>2. \A i \in DOMAIN delivered : delivered[i] \in [frame: RxFrames,
           sec: Nat \cup {RxNone, Invalid}]
    BY <2>1 DEF RxTypeOK
  <2> QED BY <2>2, RxFacts DEF RxOrderInv, RxTypeOK
<1>1. \A i \in DOMAIN delivered : taken'[delivered[i].frame] = taken[delivered[i].frame]
  BY <1>0, RxHistory
<1>2. \A i \in DOMAIN delivered : delivered[i].sec \notin {RxNone, Invalid} =>
        delivered[i].sec = taken[delivered[i].frame]
  BY DEF RxExactInv, RxStampExact
<1>3. SUFFICES ASSUME NEW i \in DOMAIN delivered',
                      delivered'[i].sec \notin {RxNone, Invalid}
               PROVE  delivered'[i].sec = taken'[delivered'[i].frame]
  BY DEF RxStampExact
<1>4. CASE delivered' = delivered
  BY <1>1, <1>2, <1>3, <1>4
<1>5. ASSUME NEW t \in Threads, Dispatch(t)
      PROVE  delivered'[i].sec = taken'[delivered'[i].frame]
  <2>1. delivered' = Append(delivered, [frame |-> skb[t], sec |-> hwtstamp[t]])
        /\ taken' = taken /\ at[t] = "dispatch"
        /\ skb[t] \in RxFrames /\ hwtstamp[t] \in Nat \cup {RxNone, Invalid}
    BY <1>5, RxFacts DEF Dispatch, history, RxTypeOK
  <2>2. /\ DOMAIN delivered = 1..Len(delivered) /\ Len(delivered) \in Nat
        /\ DOMAIN delivered' = 1..(Len(delivered) + 1)
        /\ \A j \in 1..Len(delivered) : delivered'[j] = delivered[j]
        /\ delivered'[Len(delivered) + 1] = [frame |-> skb[t], sec |-> hwtstamp[t]]
    BY <2>1, <1>0, AppendElements
  <2>3. hwtstamp[t] \notin {RxNone, Invalid} => hwtstamp[t] = taken[skb[t]]
    BY <2>1 DEF RxExactInv
  <2>4. CASE i \in 1..Len(delivered)
    BY <2>1, <2>2, <2>4, <1>2, <1>3
  <2>5. CASE i = Len(delivered) + 1
    BY <2>1, <2>2, <2>3, <2>5, <1>3
  <2> QED BY <2>2, <2>4, <2>5, <1>3
<1>6. delivered' = delivered \/ \E t \in Threads : Dispatch(t)
  BY DEF RxNext, ProcessRx, Arrive, RxTick, Dequeue, TakeTime,
     FindRxStatus, FindRxReads, Refill, rxVars
<1> QED BY <1>4, <1>5, <1>6

\* A frame is never delivered with the timestamp of another, nor with a wrong second,
\* whatever was lost, and also if two threads process the ring, as long as frames do not
\* wait so long that two bits no longer tell the second (edge_com_ts.c:95-124, 234-274).
THEOREM RxStampExactAlways ==
  ASSUME ReceiveAssumption, MaxAge < RxSecRange - 1
  PROVE  RxSpec => []RxStampExact
<1>1. RxInit => RxExactInv
  <2>1. SUFFICES ASSUME RxInit PROVE RxExactInv
    OBVIOUS
  <2>2. rxStamps = <<>> /\ ptp = {} /\ delivered = <<>> /\ at = [t \in Threads |-> "deq"]
    BY <2>1 DEF RxInit
  <2> QED BY <2>2 DEF RxExactInv, RxStampExact
<1>2. ReceiveInv /\ RxExactInv /\ [RxNext]_rxVars => RxExactInv'
  <2>1. SUFFICES ASSUME RxTypeOK, RxRoomInv, RxOrderInv, RxSearchInv, RxExactInv,
                         [RxNext]_rxVars
                 PROVE  RxExactInv'
    BY DEF ReceiveInv
  <2>2. (\A i \in DOMAIN rxStamps : RxRight(rxStamps[i]))'
    BY <2>1, RxStampsStep DEF RxExactInv
  <2>3. (\A n \in Waiting \cap ptp : taken[n] <= rxNow /\ rxNow <= taken[n] + MaxAge)'
    BY <2>1, RxWaitingStep DEF RxExactInv
  <2>4. RxStampExact'
    BY <2>1, RxDeliveredStep
  <2> QED BY <2>1, <2>2, <2>3, <2>4, RxThreadsStep DEF RxExactInv
<1>3. RxExactInv => RxStampExact
  BY DEF RxExactInv
<1>4. QED
  BY <1>1, <1>2, <1>3, RxInvHolds, PTL DEF RxSpec


-----------------------------------------------------------------------------
(* Lost timestamps, with the poll function as the only one at the ring.      *)

\* What the step of a single thread is, as far as the frames go.
LEMMA RxOneThread ==
  ASSUME ReceiveAssumption, RxTypeOK, Flush = FALSE
  PROVE  /\ Threads = {"poll"}
         /\ at \in [{"poll"} -> RxSteps] /\ skb \in [{"poll"} -> RxFrames \cup {0}]
         /\ hwtstamp \in [{"poll"} -> Nat \cup {RxNone, Invalid}]
<1>1. Threads = {"poll"}
  BY DEF Threads
<1> QED BY <1>1 DEF RxTypeOK

\* The single thread takes the frames in the order in which they arrived.
LEMMA RxSerialStep ==
  ASSUME ReceiveAssumption, RxTypeOK, RxRoomInv, RxOrderInv, Flush = FALSE,
         RxSerialInv, [RxNext]_rxVars
  PROVE  RxSerialInv'
<1>0. /\ RxFrames \subseteq Nat /\ rxNext \in Nat /\ done \in Seq(RxFrames)
      /\ \A i \in DOMAIN done : done[i] \in Nat /\ done[i] < rxNext
      /\ at \in [{"poll"} -> RxSteps] /\ skb \in [{"poll"} -> RxFrames \cup {0}]
      /\ delivered \in Seq([frame: RxFrames, sec: Nat \cup {RxNone, Invalid}])
      /\ skb["poll"] \in Nat /\ skb["poll"] < rxNext
      /\ \A d \in DOMAIN delivered : delivered[d].frame < rxNext
  BY RxFacts, RxOneThread DEF RxOrderInv, RxTypeOK
<1>9. /\ \A i, j \in DOMAIN done : i < j => done[i] < done[j]
      /\ at["poll"] # "deq" => \A i \in DOMAIN done : skb["poll"] < done[i]
      /\ \A d \in DOMAIN delivered : \A i \in DOMAIN done : delivered[d].frame < done[i]
      /\ \A d \in DOMAIN delivered :
           at["poll"] \notin {"deq", "enq"} => delivered[d].frame < skb["poll"]
  BY DEF RxSerialInv
<1>a. CASE Arrive
  <2>1. at' = at /\ skb' = skb /\ delivered' = delivered
    BY <1>a DEF Arrive, thread
  <2>2. CASE done' = done
    BY <2>1, <2>2, <1>9 DEF RxSerialInv
  <2>3. CASE done' = Append(done, rxNext)
    <3>0. rxNext \in RxFrames
      BY <1>a, RxFacts DEF Arrive, RxTypeOK, RxFrames
    <3>1. /\ DOMAIN done = 1..Len(done) /\ Len(done) \in Nat
          /\ DOMAIN done' = 1..(Len(done) + 1)
          /\ \A i \in 1..Len(done) : done'[i] = done[i]
          /\ done'[Len(done) + 1] = rxNext
      BY <2>3, <3>0, <1>0, AppendElements
    <3>2. ASSUME NEW i \in DOMAIN done', NEW j \in DOMAIN done', i < j PROVE done'[i] < done'[j]
      <4>1. i \in 1..Len(done)
        BY <3>1, <3>2
      <4>2. CASE j \in 1..Len(done)
        BY <3>1, <3>2, <4>1, <4>2, <1>9
      <4>3. CASE j = Len(done) + 1
        BY <3>1, <4>1, <4>3, <1>0
      <4> QED BY <3>1, <4>2, <4>3
    <3>3. ASSUME NEW k, k < rxNext, \A i \in DOMAIN done : k < done[i]
          PROVE  \A i \in DOMAIN done' : k < done'[i]
      <4>1. ASSUME NEW i \in DOMAIN done' PROVE k < done'[i]
        <5>1. CASE i \in 1..Len(done)
          BY <3>1, <3>3, <5>1
        <5>2. CASE i = Len(done) + 1
          BY <3>1, <3>3, <5>2
        <5> QED BY <3>1, <5>1, <5>2
      <4> QED BY <4>1
    <3>4. at'["poll"] # "deq" => \A i \in DOMAIN done' : skb'["poll"] < done'[i]
      BY <3>3, <2>1, <1>0, <1>9
    <3>5. \A d \in DOMAIN delivered' : \A i \in DOMAIN done' : delivered'[d].frame < done'[i]
      BY <3>3, <2>1, <1>0, <1>9
    <3> QED BY <3>2, <3>4, <3>5, <2>1, <1>9 DEF RxSerialInv
  <2> QED BY <2>2, <2>3, <1>a DEF Arrive
<1>1. CASE Dequeue("poll")
  <2>1. /\ done # <<>> /\ done' = Tail(done) /\ skb'["poll"] = Head(done)
        /\ delivered' = delivered
    BY <1>1, <1>0 DEF Dequeue
  <2>2. /\ Head(done) = done[1] /\ 1 \in DOMAIN done
        /\ \A i \in DOMAIN Tail(done) : i + 1 \in DOMAIN done /\ i \in Nat /\ i >= 1
                                        /\ Tail(done)[i] = done[i + 1]
    BY <2>1, <1>0, TailElements
  <2>3. ASSUME NEW i \in DOMAIN done', NEW j \in DOMAIN done', i < j PROVE done'[i] < done'[j]
    <3>1. i + 1 < j + 1
      BY <2>1, <2>2, <2>3
    <3> QED BY <3>1, <2>1, <2>2, <2>3, <1>9
  <2>4. \A i \in DOMAIN done' : skb'["poll"] < done'[i]
    <3>1. ASSUME NEW i \in DOMAIN done' PROVE done[1] < done[i + 1]
      <4>1. 1 < i + 1 /\ i + 1 \in DOMAIN done
        BY <2>1, <2>2, <3>1
      <4> QED BY <4>1, <2>2, <1>9
    <3> QED BY <3>1, <2>1, <2>2
  <2>5. \A d \in DOMAIN delivered' : \A i \in DOMAIN done' : delivered'[d].frame < done'[i]
    BY <2>1, <2>2, <1>9
  <2>6. \A d \in DOMAIN delivered' : delivered'[d].frame < skb'["poll"]
    BY <2>1, <2>2, <1>9
  <2> QED BY <2>3, <2>4, <2>5, <2>6 DEF RxSerialInv
<1>2. CASE TakeTime("poll") \/ FindRxStatus("poll") \/ FindRxReads("poll")
  <2>1. at["poll"] \notin {"deq", "enq"} /\ UNCHANGED <<done, skb, delivered>>
    BY <1>2 DEF TakeTime, FindRxStatus, FindRxReads
  <2> QED BY <2>1, <1>9 DEF RxSerialInv
<1>5. CASE Dispatch("poll")
  <2>1. delivered' = Append(delivered, [frame |-> skb["poll"], sec |-> hwtstamp["poll"]])
        /\ at["poll"] = "dispatch" /\ at'["poll"] = "enq" /\ UNCHANGED <<done, skb>>
        /\ skb["poll"] \in RxFrames /\ hwtstamp["poll"] \in Nat \cup {RxNone, Invalid}
    BY <1>5, <1>0, RxFacts, RxOneThread DEF Dispatch, Goto, RxTypeOK
  <2>2. /\ DOMAIN delivered = 1..Len(delivered) /\ Len(delivered) \in Nat
        /\ DOMAIN delivered' = 1..(Len(delivered) + 1)
        /\ \A j \in 1..Len(delivered) : delivered'[j] = delivered[j]
        /\ delivered'[Len(delivered) + 1] = [frame |-> skb["poll"], sec |-> hwtstamp["poll"]]
    BY <2>1, <1>0, AppendElements
  <2>3. \A i \in DOMAIN done : skb["poll"] < done[i]
    BY <2>1, <1>9
  <2>4. ASSUME NEW d \in DOMAIN delivered', NEW i \in DOMAIN done'
        PROVE  delivered'[d].frame < done'[i]
    <3>1. CASE d \in 1..Len(delivered)
      BY <3>1, <2>1, <2>2, <2>4, <1>9
    <3>2. CASE d = Len(delivered) + 1
      BY <3>2, <2>1, <2>2, <2>3, <2>4
    <3> QED BY <2>2, <3>1, <3>2
  <2> QED BY <2>1, <2>3, <2>4, <1>9 DEF RxSerialInv
<1>6. CASE Refill("poll")
  <2>1. at'["poll"] = "deq" /\ UNCHANGED <<done, delivered>>
    BY <1>6, <1>0 DEF Refill, Goto
  <2> QED BY <2>1, <1>9 DEF RxSerialInv
<1>7. CASE RxTick \/ UNCHANGED rxVars
  <2>1. UNCHANGED <<done, at, skb, delivered>>
    BY <1>7 DEF RxTick, rxVars, thread
  <2> QED BY <2>1, <1>9 DEF RxSerialInv
<1> QED BY <1>a, <1>1, <1>2, <1>5, <1>6, <1>7, RxOneThread DEF RxNext, ProcessRx

\* The sets of frames, by their elements, before and after a step.
LEMMA RxElements ==
  ASSUME Flush = FALSE
  PROVE  /\ \A n : n \in RxUnsearched <=>
              \/ \E i \in DOMAIN done : n = done[i]
              \/ at["poll"] \in {"time", "status", "read"} /\ n = skb["poll"]
         /\ \A n : n \in RxKept <=> \E i \in DOMAIN rxStamps : n = rxStamps[i].frame
         /\ \A n : n \in Missing <=>
              n \in ptp /\ \E i \in DOMAIN delivered :
                n = delivered[i].frame /\ delivered[i].sec = RxNone
         /\ \A n : n \in RxLacking <=>
              \/ n \in RxUnsearched /\ n \in ptp /\ n \notin RxKept
              \/ n \in Missing
              \/ at["poll"] = "dispatch" /\ hwtstamp["poll"] = RxNone
                 /\ n = skb["poll"] /\ n \in ptp
         /\ \A n : n \in RxUnsearched' <=>
              \/ \E i \in DOMAIN done' : n = done'[i]
              \/ at'["poll"] \in {"time", "status", "read"} /\ n = skb'["poll"]
         /\ \A n : n \in RxKept' <=> \E i \in DOMAIN rxStamps' : n = rxStamps'[i].frame
         /\ \A n : n \in Missing' <=>
              n \in ptp' /\ \E i \in DOMAIN delivered' :
                n = delivered'[i].frame /\ delivered'[i].sec = RxNone
         /\ \A n : n \in RxLacking' <=>
              \/ n \in RxUnsearched' /\ n \in ptp' /\ n \notin RxKept'
              \/ n \in Missing'
              \/ at'["poll"] = "dispatch" /\ hwtstamp'["poll"] = RxNone
                 /\ n = skb'["poll"] /\ n \in ptp'
<1>1. Threads = {"poll"}
  BY DEF Threads
<1>2. \A n : n \in RxUnsearched <=>
              \/ \E i \in DOMAIN done : n = done[i]
              \/ at["poll"] \in {"time", "status", "read"} /\ n = skb["poll"]
  BY <1>1 DEF RxUnsearched
<1>3. \A n : n \in RxUnsearched' <=>
              \/ \E i \in DOMAIN done' : n = done'[i]
              \/ at'["poll"] \in {"time", "status", "read"} /\ n = skb'["poll"]
  BY <1>1 DEF RxUnsearched
<1>4. /\ \A n : n \in RxKept <=> \E i \in DOMAIN rxStamps : n = rxStamps[i].frame
      /\ \A n : n \in RxKept' <=> \E i \in DOMAIN rxStamps' : n = rxStamps'[i].frame
  BY DEF RxKept
<1>5. \A n : n \in Missing <=>
        n \in ptp /\ \E i \in DOMAIN delivered :
          n = delivered[i].frame /\ delivered[i].sec = RxNone
  BY DEF Missing
<1>6. \A n : n \in Missing' <=>
        n \in ptp' /\ \E i \in DOMAIN delivered' :
          n = delivered'[i].frame /\ delivered'[i].sec = RxNone
  BY DEF Missing
<1>7. \A n : n \in RxLacking <=>
              \/ n \in RxUnsearched /\ n \in ptp /\ n \notin RxKept
              \/ n \in Missing
              \/ at["poll"] = "dispatch" /\ hwtstamp["poll"] = RxNone
                 /\ n = skb["poll"] /\ n \in ptp
  BY <1>1 DEF RxLacking
<1>8. \A n : n \in RxLacking' <=>
              \/ n \in RxUnsearched' /\ n \in ptp' /\ n \notin RxKept'
              \/ n \in Missing'
              \/ at'["poll"] = "dispatch" /\ hwtstamp'["poll"] = RxNone
                 /\ n = skb'["poll"] /\ n \in ptp'
  BY <1>1 DEF RxLacking
<1> QED BY <1>2, <1>3, <1>4, <1>5, <1>6, <1>7, <1>8


\* A step adds at most the frame that arrives to those still to be searched for.  A frame
\* that lacks its timestamp goes on lacking it; others come to lack theirs because it did
\* not fit, or because the search for one in front has thrown it away.
LEMMA RxSetsStep ==
  ASSUME ReceiveAssumption, RxTypeOK, RxRoomInv, RxOrderInv, RxSearchInv, RxSerialInv,
         Flush = FALSE, [RxNext]_rxVars
  PROVE  /\ RxUnsearched' \subseteq RxUnsearched \cup {rxNext}
         /\ RxLacking \subseteq RxLacking'
         /\ \A n \in RxLacking' : n \notin RxLacking =>
              \/ n \in unstamped'
              \/ /\ n \in RxKept /\ n \in RxUnsearched /\ unstamped' = unstamped
                 /\ skb["poll"] \in RxUnsearched /\ skb["poll"] \in RxLacking /\ skb["poll"] < n
<1> DEFINE p == "poll"
           Goal == /\ RxUnsearched' \subseteq RxUnsearched \cup {rxNext}
                   /\ RxLacking \subseteq RxLacking'
                   /\ \A n \in RxLacking' : n \notin RxLacking =>
                        \/ n \in unstamped'
                        \/ /\ n \in RxKept /\ n \in RxUnsearched /\ unstamped' = unstamped
                           /\ skb[p] \in RxUnsearched /\ skb[p] \in RxLacking /\ skb[p] < n
<1> SUFFICES Goal
  OBVIOUS
<1>0. /\ rxNext \in Nat /\ done \in Seq(RxFrames) /\ rxStamps \in Seq(RxStampType)
      /\ \A i \in DOMAIN done : done[i] \in Nat /\ done[i] < rxNext
      /\ at \in [{p} -> RxSteps] /\ skb \in [{p} -> RxFrames \cup {0}]
      /\ hwtstamp \in [{p} -> Nat \cup {RxNone, Invalid}]
      /\ delivered \in Seq([frame: RxFrames, sec: Nat \cup {RxNone, Invalid}])
      /\ skb[p] \in Nat /\ skb[p] < rxNext
      /\ \A d \in DOMAIN delivered : delivered[d].frame < rxNext
      /\ \A i \in DOMAIN rxStamps : rxStamps[i].frame \in Nat /\ rxStamps[i].frame \in ptp
      /\ \A n \in ptp : n \in Nat /\ n < rxNext
      /\ Threads = {p}
  BY RxFacts, RxOneThread DEF RxOrderInv, RxTypeOK
<1>9. at[p] \in {"time", "status", "read"} => skb[p] \in ptp /\ hwtstamp[p] = RxNone
  BY <1>0 DEF RxSearchInv
<1>d. at[p] # "deq" => \A i \in DOMAIN done : skb[p] < done[i]
  BY DEF RxSerialInv
<1>eU. /\ \A n : n \in RxUnsearched <=>
              \/ \E i \in DOMAIN done : n = done[i]
              \/ at[p] \in {"time", "status", "read"} /\ n = skb[p]
       /\ \A n : n \in RxUnsearched' <=>
              \/ \E i \in DOMAIN done' : n = done'[i]
              \/ at'[p] \in {"time", "status", "read"} /\ n = skb'[p]
  BY RxElements
<1>eK. /\ \A n : n \in RxKept <=> \E i \in DOMAIN rxStamps : n = rxStamps[i].frame
       /\ \A n : n \in RxKept' <=> \E i \in DOMAIN rxStamps' : n = rxStamps'[i].frame
  BY RxElements
<1>eM. /\ \A n : n \in Missing <=>
              n \in ptp /\ \E i \in DOMAIN delivered :
                n = delivered[i].frame /\ delivered[i].sec = RxNone
       /\ \A n : n \in Missing' <=>
              n \in ptp' /\ \E i \in DOMAIN delivered' :
                n = delivered'[i].frame /\ delivered'[i].sec = RxNone
  BY RxElements
<1>eL. /\ \A n : n \in RxLacking <=>
              \/ n \in RxUnsearched /\ n \in ptp /\ n \notin RxKept
              \/ n \in Missing
              \/ at[p] = "dispatch" /\ hwtstamp[p] = RxNone /\ n = skb[p] /\ n \in ptp
       /\ \A n : n \in RxLacking' <=>
              \/ n \in RxUnsearched' /\ n \in ptp' /\ n \notin RxKept'
              \/ n \in Missing'
              \/ at'[p] = "dispatch" /\ hwtstamp'[p] = RxNone /\ n = skb'[p] /\ n \in ptp'
  BY RxElements
<1>m. ASSUME UNCHANGED <<ptp, delivered>> PROVE \A n : n \in Missing' <=> n \in Missing
  BY <1>m, <1>eM
\* everything stays where it is
<1>r. ASSUME UNCHANGED <<ptp, delivered, rxStamps>>,
             \A n : n \in RxUnsearched' /\ n \in ptp <=> n \in RxUnsearched /\ n \in ptp,
             RxUnsearched' \subseteq RxUnsearched,
             ~(at[p] = "dispatch" /\ hwtstamp[p] = RxNone /\ skb[p] \in ptp),
             ~(at'[p] = "dispatch" /\ hwtstamp'[p] = RxNone /\ skb'[p] \in ptp)
      PROVE  Goal
  <2>1. \A n : n \in RxKept' <=> n \in RxKept
    BY <1>r, <1>eK
  <2>2. \A n : n \in RxLacking' <=> n \in RxLacking
    BY <1>r, <1>m, <2>1, <1>eL
  <2> QED BY <2>2, <1>r
<1>u. ASSUME UNCHANGED <<ptp, delivered, rxStamps, done, at, skb, hwtstamp>> PROVE Goal
  <2>1. \A n : n \in RxUnsearched' <=> n \in RxUnsearched
    BY <1>u, <1>eU
  <2>2. \A n : n \in RxKept' <=> n \in RxKept
    BY <1>u, <1>eK
  <2>3. \A n : n \in RxLacking' <=> n \in RxLacking
    BY <1>u, <1>m, <2>1, <2>2, <1>eL
  <2> QED BY <2>1, <2>3
<1>a. CASE Arrive
  <2>1. UNCHANGED <<at, skb, hwtstamp, delivered>> /\ rxNext \in RxFrames
    BY <1>a, RxFacts DEF Arrive, thread, RxTypeOK, RxFrames
  <2>2. \A n : n \in RxUnsearched' /\ n # rxNext <=> n \in RxUnsearched
    <3>0. \A n \in RxUnsearched : n # rxNext
      BY <1>0, <1>eU
    <3>1. CASE done' = done
      <4>1. \A n : n \in RxUnsearched' <=> n \in RxUnsearched
        BY <2>1, <3>1, <1>eU
      <4> QED BY <4>1, <3>0
    <3>2. CASE done' = Append(done, rxNext)
      <4>1. /\ DOMAIN done = 1..Len(done) /\ Len(done) \in Nat
            /\ DOMAIN done' = 1..(Len(done) + 1)
            /\ \A i \in 1..Len(done) : done'[i] = done[i]
            /\ done'[Len(done) + 1] = rxNext
        BY <3>2, <2>1, <1>0, AppendElements
      <4>2. \A n : n # rxNext =>
              ((\E i \in DOMAIN done' : n = done'[i]) <=> (\E i \in DOMAIN done : n = done[i]))
        <5>1. \A i \in DOMAIN done' : i \in DOMAIN done \/ i = Len(done) + 1
          BY <4>1
        <5>2. \A i \in DOMAIN done : i \in DOMAIN done' /\ done'[i] = done[i]
          BY <4>1
        <5>3. \A i \in DOMAIN done' : done'[i] # rxNext => i \in DOMAIN done /\ done'[i] = done[i]
          BY <4>1, <5>1, <5>2
        <5> QED BY <5>2, <5>3
      <4> QED BY <4>2, <3>0, <2>1, <1>eU
    <3> QED BY <3>1, <3>2, <1>a DEF Arrive
  <2>3. \A n : n # rxNext => (n \in ptp' <=> n \in ptp)
    BY RxHistory
  <2>4. \A n : n \in Missing' <=> n \in Missing
    <3>1. \A d \in DOMAIN delivered : delivered[d].frame # rxNext
      BY <1>0
    <3> QED BY <2>1, <2>3, <3>1, <1>eM
  <2>5. \A n : n # rxNext => (n \in RxKept' <=> n \in RxKept)
    <3>1. CASE rxStamps' = rxStamps
      BY <3>1, <1>eK
    <3>2. CASE rxStamps' # rxStamps
      <4>1. PICK s \in RxStampType : rxStamps' = Append(rxStamps, s) /\ s.frame = rxNext
        <5>1. PICK over \in BOOLEAN : rxStamps' = Append(rxStamps, [frame |-> rxNext,
                sec |-> (IF over THEN rxNow - 1 ELSE rxNow) % RxSecRange, over |-> over])
          BY <1>a, <3>2 DEF Arrive
        <5>2. [frame |-> rxNext, over |-> over,
               sec |-> (IF over THEN rxNow - 1 ELSE rxNow) % RxSecRange] \in RxStampType
          BY <2>1, RxFacts, RxNewStamp
        <5> QED BY <5>1, <5>2
      <4>2. /\ DOMAIN rxStamps = 1..Len(rxStamps) /\ Len(rxStamps) \in Nat
            /\ DOMAIN rxStamps' = 1..(Len(rxStamps) + 1)
            /\ \A i \in 1..Len(rxStamps) : rxStamps'[i] = rxStamps[i]
            /\ rxStamps'[Len(rxStamps) + 1] = s
        BY <4>1, <1>0, AppendElements
      <4>3. \A i \in DOMAIN rxStamps : i \in DOMAIN rxStamps' /\ rxStamps'[i] = rxStamps[i]
        BY <4>2
      <4>4. \A i \in DOMAIN rxStamps' : rxStamps'[i].frame # rxNext =>
              i \in DOMAIN rxStamps /\ rxStamps'[i] = rxStamps[i]
        BY <4>1, <4>2
      <4> QED BY <4>3, <4>4, <1>eK
    <3> QED BY <3>1, <3>2
  <2>6. rxNext \notin RxLacking /\ (rxNext \in RxLacking' => rxNext \in unstamped')
    <3>1. rxNext \notin ptp
      BY <1>0
    <3>2. rxNext \notin RxLacking
      BY <3>1, <1>eL, <1>eM
    <3>3. ASSUME rxNext \in RxLacking', rxNext \notin unstamped' PROVE FALSE
      <4>1. rxNext \in ptp' /\ rxNext \notin RxKept'
        BY <2>1, <2>4, <3>1, <3>3, <1>0, <1>eL, <1>eM
      <4>2. rxNext \notin ptp => ptp' # ptp
        BY <4>1
      <4>3. \E over \in BOOLEAN : rxStamps' = Append(rxStamps, [frame |-> rxNext,
              sec |-> (IF over THEN rxNow - 1 ELSE rxNow) % RxSecRange, over |-> over])
        BY <1>a, <3>1, <3>3, <4>2 DEF Arrive, history
      <4>4. PICK over \in BOOLEAN : rxStamps' = Append(rxStamps, [frame |-> rxNext,
              sec |-> (IF over THEN rxNow - 1 ELSE rxNow) % RxSecRange, over |-> over])
        BY <4>3
      <4>5. [frame |-> rxNext, over |-> over,
             sec |-> (IF over THEN rxNow - 1 ELSE rxNow) % RxSecRange] \in RxStampType
        BY <2>1, RxFacts, RxNewStamp
      <4>6. PICK s \in RxStampType : rxStamps' = Append(rxStamps, s) /\ s.frame = rxNext
        BY <4>4, <4>5
      <4>7. Len(rxStamps) + 1 \in DOMAIN rxStamps' /\ rxStamps'[Len(rxStamps) + 1].frame = rxNext
        BY <4>6, <1>0, AppendElements
      <4> QED BY <4>1, <4>7, <1>eK
    <3> QED BY <3>2, <3>3
  <2>7. \A n : n # rxNext => (n \in RxLacking' <=> n \in RxLacking)
    BY <2>1, <2>2, <2>3, <2>4, <2>5, <1>eL
  <2> QED BY <2>2, <2>6, <2>7
<1>1. CASE Dequeue(p)
  <2>1. /\ at[p] = "deq" /\ done # <<>> /\ done' = Tail(done) /\ skb'[p] = Head(done)
        /\ at'[p] = (IF Head(done) \in ptp THEN "time" ELSE "dispatch")
        /\ UNCHANGED <<ptp, delivered, rxStamps>>
    BY <1>1, <1>0 DEF Dequeue, Goto, history
  <2>2. /\ Head(done) = done[1] /\ 1 \in DOMAIN done
        /\ \A i \in DOMAIN Tail(done) : i + 1 \in DOMAIN done /\ Tail(done)[i] = done[i + 1]
    BY <2>1, <1>0, TailElements
  <2>3. \A i \in DOMAIN done : i = 1 \/ (i - 1 \in DOMAIN done' /\ done'[i - 1] = done[i])
    BY <2>1, <1>0
  <2>4. \A n : (\E i \in DOMAIN done : n = done[i]) <=>
               n = Head(done) \/ \E i \in DOMAIN done' : n = done'[i]
    BY <2>1, <2>2, <2>3
  <2>5. \A n : n \in RxUnsearched' /\ n \in ptp <=> n \in RxUnsearched /\ n \in ptp
    <3>1. CASE Head(done) \in ptp
      <4>1. at'[p] = "time" /\ at[p] \notin {"time", "status", "read"}
        BY <3>1, <2>1
      <4>2. \A n : n \in RxUnsearched <=> \E i \in DOMAIN done : n = done[i]
        BY <4>1, <1>eU
      <4>3. \A n : n \in RxUnsearched' <=>
                   n = Head(done) \/ \E i \in DOMAIN done' : n = done'[i]
        BY <4>1, <2>1, <1>eU
      <4> QED BY <4>2, <4>3, <2>4
    <3>2. CASE Head(done) \notin ptp
      <4>1. at'[p] = "dispatch" /\ at[p] \notin {"time", "status", "read"}
        BY <3>2, <2>1
      <4> QED BY <4>1, <3>2, <2>4, <1>eU
    <3> QED BY <3>1, <3>2
  <2>6. RxUnsearched' \subseteq RxUnsearched
    BY <2>1, <2>4, <1>eU
  <2> QED BY <2>1, <2>5, <2>6, <1>r
<1>2. CASE TakeTime(p)
  <2>1. /\ at[p] = "time" /\ at'[p] = "status"
        /\ UNCHANGED <<ptp, delivered, rxStamps, done, skb, hwtstamp>>
    BY <1>2, <1>0 DEF TakeTime, Goto, history
  <2>2. \A n : n \in RxUnsearched' <=> n \in RxUnsearched
    BY <2>1, <1>eU
  <2> QED BY <2>1, <2>2, <1>r
<1>3. CASE FindRxStatus(p)
  <2>1. /\ at[p] = "status" /\ UNCHANGED <<ptp, delivered, rxStamps, done, skb, hwtstamp>>
        /\ at'[p] = IF rxStamps = <<>> THEN "dispatch" ELSE "read"
    BY <1>3, <1>0 DEF FindRxStatus, Goto, history
  <2>2. CASE rxStamps # <<>>
    <3>1. \A n : n \in RxUnsearched' <=> n \in RxUnsearched
      BY <2>1, <2>2, <1>eU
    <3> QED BY <2>1, <2>2, <3>1, <1>r
  <2>3. CASE rxStamps = <<>>
    <3>1. \A n : n \notin RxKept /\ n \notin RxKept'
      BY <2>1, <2>3, <1>eK
    <3>2. \A n : n \in RxUnsearched <=> n \in RxUnsearched' \/ n = skb[p]
      BY <2>1, <2>3, <1>eU
    <3>3. \A n : n \in RxLacking' <=> n \in RxLacking
      BY <2>1, <2>3, <3>1, <3>2, <1>m, <1>9, <1>eL
    <3> QED BY <3>2, <3>3
  <2> QED BY <2>2, <2>3
<1>4. CASE FindRxReads(p)
  <2>1. at[p] = "read" /\ UNCHANGED <<ptp, delivered, done, skb, unstamped>>
    BY <1>4 DEF FindRxReads, history
  <2>2. CASE rxStamps = <<>>
    <3>1. at'[p] = "status" /\ rxStamps' = rxStamps
      BY <1>4, <2>2, <1>0 DEF FindRxReads, Goto
    <3>2. \A n : n \in RxUnsearched' <=> n \in RxUnsearched
      BY <2>1, <3>1, <1>eU
    <3> QED BY <2>1, <3>1, <3>2, <1>r
  <2>3. CASE rxStamps # <<>>
    <3>1. rxStamps' = Tail(rxStamps)
      BY <1>4, <2>3 DEF FindRxReads
    <3>2. /\ Head(rxStamps) = rxStamps[1] /\ 1 \in DOMAIN rxStamps
          /\ \A i \in DOMAIN Tail(rxStamps) : i + 1 \in DOMAIN rxStamps /\ i \in Nat /\ i >= 1
                                              /\ Tail(rxStamps)[i] = rxStamps[i + 1]
      BY <2>3, <1>0, TailElements
    <3>3. \A i \in DOMAIN rxStamps :
            i = 1 \/ (i - 1 \in DOMAIN rxStamps' /\ rxStamps'[i - 1] = rxStamps[i] /\ 1 < i)
      BY <3>1, <2>3, <1>0
    <3>4. PICK h : h = Head(rxStamps).frame /\ h \in ptp /\ h \in Nat
      BY <3>2, <1>0
    <3>5. \A n : n \in RxKept <=> n = h \/ n \in RxKept'
      <4>1. ASSUME NEW n, n \in RxKept PROVE n = h \/ n \in RxKept'
        <5>1. PICK i \in DOMAIN rxStamps : n = rxStamps[i].frame
          BY <4>1, <1>eK
        <5> QED BY <5>1, <3>2, <3>3, <3>4, <1>eK
      <4>2. ASSUME NEW n, n \in RxKept' PROVE n \in RxKept
        <5>1. PICK i \in DOMAIN rxStamps' : n = rxStamps'[i].frame
          BY <4>2, <1>eK
        <5>2. i + 1 \in DOMAIN rxStamps /\ n = rxStamps[i + 1].frame
          BY <5>1, <3>1, <3>2
        <5> QED BY <5>2, <1>eK
      <4>3. h \in RxKept
        BY <3>2, <3>4, <1>eK
      <4> QED BY <4>1, <4>2, <4>3
    <3>6. \A n \in RxKept' : h < n
      <4>1. \A i \in DOMAIN rxStamps' : rxStamps[1].frame < rxStamps[i + 1].frame
        BY <3>1, <3>2 DEF RxOrderInv
      <4> QED BY <4>1, <3>1, <3>2, <3>4, <1>eK
    <3>7. CASE h = skb[p]
      <4>1. at'[p] = "dispatch" /\ hwtstamp'[p] = RxFullSec(p, Head(rxStamps))
        BY <1>4, <2>3, <3>4, <3>7, <1>0 DEF FindRxReads, Goto, NotItsOwn
      <4>2. hwtstamp'[p] # RxNone
        <5>1. rxTime[p] \in Nat
          BY <1>0, RxFacts
        <5>2. RxFullSec(p, Head(rxStamps)) \in Nat \cup {Invalid}
          BY <5>1, <1>0, RxFullSecType
        <5> QED BY <4>1, <5>2 DEF RxNone, Invalid
      <4>3. \A n : n \in RxUnsearched' <=> n \in RxUnsearched /\ n # skb[p]
        <5>1. \A i \in DOMAIN done : done[i] # skb[p]
          BY <2>1, <1>d, <1>0
        <5> QED BY <5>1, <2>1, <4>1, <1>eU
      <4>4. skb[p] \in RxKept /\ skb[p] \notin RxKept'
        BY <3>5, <3>6, <3>7, <1>0
      <4>5. \A n : n \in RxLacking' <=> n \in RxLacking
        BY <2>1, <3>5, <3>7, <4>1, <4>2, <4>3, <4>4, <1>m, <1>eL
      <4> QED BY <4>3, <4>5
    <3>8. CASE h # skb[p]
      <4>1. at'[p] = "status"
        BY <1>4, <2>3, <3>4, <3>8, <1>0 DEF FindRxReads, Goto, NotItsOwn
      <4>2. \A n : n \in RxUnsearched' <=> n \in RxUnsearched
        BY <2>1, <4>1, <1>eU
      <4>3. \A n : n \in RxLacking => n \in RxLacking'
        BY <2>1, <4>1, <4>2, <3>5, <1>m, <1>eL
      <4>4. ASSUME NEW n, n \in RxLacking', n \notin RxLacking
            PROVE  /\ n \in RxKept /\ n \in RxUnsearched
                   /\ skb[p] \in RxUnsearched /\ skb[p] \in RxLacking /\ skb[p] < n
        <5>1. n = h /\ n \in RxUnsearched
          BY <2>1, <4>1, <4>2, <4>4, <3>5, <1>m, <1>eL
        <5>2. skb[p] < n
          BY <5>1, <3>8, <2>1, <1>d, <1>eU
        <5>3. skb[p] \notin RxKept
          BY <5>1, <5>2, <3>5, <3>6, <3>4, <1>0
        <5>4. skb[p] \in RxUnsearched /\ skb[p] \in RxLacking
          BY <5>3, <2>1, <1>9, <1>eU, <1>eL
        <5> QED BY <5>1, <5>2, <5>4, <3>5
      <4> QED BY <4>2, <4>3, <4>4, <2>1
    <3> QED BY <3>7, <3>8
  <2> QED BY <2>2, <2>3
<1>5. CASE Dispatch(p)
  <2>1. delivered' = Append(delivered, [frame |-> skb[p], sec |-> hwtstamp[p]])
        /\ at[p] = "dispatch" /\ at'[p] = "enq" /\ UNCHANGED <<done, skb, ptp, rxStamps>>
        /\ skb[p] \in RxFrames /\ hwtstamp[p] \in Nat \cup {RxNone, Invalid}
    BY <1>5, <1>0, RxFacts, RxOneThread DEF Dispatch, Goto, RxTypeOK, history
  <2>2. /\ DOMAIN delivered = 1..Len(delivered) /\ Len(delivered) \in Nat
        /\ DOMAIN delivered' = 1..(Len(delivered) + 1)
        /\ \A j \in 1..Len(delivered) : delivered'[j] = delivered[j]
        /\ delivered'[Len(delivered) + 1] = [frame |-> skb[p], sec |-> hwtstamp[p]]
    BY <2>1, <1>0, AppendElements
  <2>3. \A n : n \in Missing' <=>
          n \in Missing \/ (hwtstamp[p] = RxNone /\ n = skb[p] /\ n \in ptp)
    <3>1. \A j \in DOMAIN delivered : j \in DOMAIN delivered' /\ delivered'[j] = delivered[j]
      BY <2>2
    <3>2. \A j \in DOMAIN delivered' : j \in DOMAIN delivered \/ j = Len(delivered) + 1
      BY <2>2
    <3>3. Len(delivered) + 1 \in DOMAIN delivered'
          /\ delivered'[Len(delivered) + 1].frame = skb[p]
          /\ delivered'[Len(delivered) + 1].sec = hwtstamp[p]
      BY <2>2
    <3> QED BY <2>1, <3>1, <3>2, <3>3, <1>eM
  <2>4. \A n : n \in RxUnsearched' <=> n \in RxUnsearched
    BY <2>1, <1>eU
  <2>5. \A n : n \in RxKept' <=> n \in RxKept
    BY <2>1, <1>eK
  <2>6. \A n : n \in RxLacking' <=> n \in RxLacking
    BY <2>1, <2>3, <2>4, <2>5, <1>eL
  <2> QED BY <2>4, <2>6
<1>6. CASE Refill(p)
  <2>1. at[p] = "enq" /\ at'[p] = "deq" /\ UNCHANGED <<ptp, delivered, rxStamps, done>>
    BY <1>6, <1>0 DEF Refill, Goto, history
  <2>2. \A n : n \in RxUnsearched' <=> n \in RxUnsearched
    BY <2>1, <1>eU
  <2> QED BY <2>1, <2>2, <1>r
<1>7. CASE RxTick \/ UNCHANGED rxVars
  <2>1. UNCHANGED <<ptp, delivered, rxStamps, done, at, skb, hwtstamp>>
    BY <1>7 DEF RxTick, rxVars, thread, history
  <2> QED BY <2>1, <1>u
<1> HIDE DEF Goal
<1> QED BY <1>a, <1>1, <1>2, <1>3, <1>4, <1>5, <1>6, <1>7, <1>0 DEF RxNext, ProcessRx


\* Who lacks a timestamp whose own did not fit knows of one in front that lacks its own.
LEMMA RxLossStep ==
  ASSUME ReceiveAssumption, RxTypeOK, RxRoomInv, RxOrderInv, RxSearchInv, RxSerialInv,
         RxLossInv, Flush = FALSE, [RxNext]_rxVars
  PROVE  RxLossInv'
<1>1. /\ RxUnsearched' \subseteq RxUnsearched \cup {rxNext}
      /\ RxLacking \subseteq RxLacking'
      /\ \A n \in RxLacking' : n \notin RxLacking =>
           \/ n \in unstamped'
           \/ /\ n \in RxKept /\ n \in RxUnsearched /\ unstamped' = unstamped
              /\ skb["poll"] \in RxUnsearched /\ skb["poll"] \in RxLacking /\ skb["poll"] < n
  BY RxSetsStep
<1>2. /\ RxKept \cap unstamped = {}
      /\ \A m, n \in RxUnsearched :
           m < n /\ n \in ptp \ unstamped /\ (m \in unstamped \/ ahead[m] # {}) => m \in ahead[n]
      /\ \A n \in RxFrames : \A m \in ahead[n] : m < n
      /\ \A n \in RxLacking \ unstamped : ahead[n] \cap RxLacking # {}
  BY DEF RxLossInv
<1>0. /\ rxNext \in Nat /\ rxNext \notin ptp /\ unstamped \subseteq ptp /\ ptp \subseteq RxFrames
      /\ RxFrames \subseteq Nat
      /\ ahead \in [RxFrames -> SUBSET ptp] /\ rxStamps \in Seq(RxStampType)
  BY RxFacts, RxHistory DEF RxTypeOK
\* the frames still to be searched for have arrived
<1>3. \A n \in RxUnsearched : n \in RxFrames /\ n < rxNext
  <2>1. /\ \A i \in DOMAIN done : done[i] \in RxFrames /\ done[i] < rxNext
        /\ at["poll"] # "deq" => skb["poll"] \in RxFrames /\ skb["poll"] < rxNext
    BY RxFacts, RxOneThread DEF RxOrderInv
  <2>2. \A n : n \in RxUnsearched <=>
              \/ \E i \in DOMAIN done : n = done[i]
              \/ at["poll"] \in {"time", "status", "read"} /\ n = skb["poll"]
    BY RxElements
  <2> QED BY <2>1, <2>2
<1>4. RxLacking \subseteq ptp /\ RxKept \subseteq ptp
  <2>1. /\ \A n : n \in RxKept <=> \E i \in DOMAIN rxStamps : n = rxStamps[i].frame
        /\ \A n : n \in Missing => n \in ptp
    BY RxElements
  <2>2. \A n : n \in RxLacking => n \in ptp
    BY <2>1 DEF RxLacking
  <2> QED BY <2>1, <2>2 DEF RxOrderInv
<1>5. ptp' \subseteq ptp \cup {rxNext}
  BY RxHistory
\* what is known of a frame is known when it arrives
<1>6. /\ \A n \in RxFrames : n # rxNext => ahead'[n] = ahead[n] /\ (n \in unstamped' <=> n \in unstamped)
      /\ rxNext \in ptp' /\ rxNext \notin unstamped' =>
           /\ rxNext \in RxFrames /\ unstamped' = unstamped /\ Arrive
           /\ ahead'[rxNext] = {m \in RxUnsearched : m \in unstamped \/ ahead[m] # {}}
      /\ ahead' # ahead => rxNext \in ptp' /\ rxNext \notin unstamped'
  <2>1. CASE ~Arrive
    BY <2>1, RxHistory
  <2>2. CASE Arrive /\ ptp' = ptp
    <3>1. ahead' = ahead /\ unstamped' = unstamped
      BY <2>2, <1>0 DEF Arrive, history
    <3> QED BY <3>1, <2>2, <1>0
  <2>3. CASE Arrive /\ ptp' # ptp
    <3>1. \/ unstamped' = unstamped \cup {rxNext} /\ ahead' = ahead
          \/ unstamped' = unstamped /\ ahead' = [ahead EXCEPT ![rxNext] = MayLack]
      BY <2>3 DEF Arrive, history
    <3>2. MayLack = {m \in RxUnsearched : m \in unstamped \/ ahead[m] # {}}
      BY DEF MayLack, RxUnsearched
    <3>3. rxNext \in RxFrames /\ rxNext \in ptp'
      BY <2>3, RxHistory DEF Arrive
    <3>4. CASE unstamped' = unstamped \cup {rxNext} /\ ahead' = ahead
      BY <3>4
    <3>5. CASE unstamped' = unstamped /\ ahead' = [ahead EXCEPT ![rxNext] = MayLack]
      BY <3>2, <3>3, <3>5, <2>3, <1>0
    <3> QED BY <3>1, <3>4, <3>5
  <2> QED BY <2>1, <2>2, <2>3
<1>7. (RxKept \cap unstamped)' = {}
  <2>1. ASSUME NEW n, n \in RxKept', n \in unstamped' PROVE FALSE
    <3>1. CASE n = rxNext
      <4>1. PICK i \in DOMAIN rxStamps' : rxStamps'[i].frame = rxNext
        BY <2>1, <3>1, RxElements
      <4>2. rxStamps' # rxStamps
        <5>1. \A j \in DOMAIN rxStamps : rxStamps[j].frame # rxNext
          BY <1>0 DEF RxOrderInv
        <5> QED BY <4>1, <5>1
      <4>3. CASE Arrive
        <5>1. unstamped' = unstamped
          BY <4>2, <4>3 DEF Arrive, history
        <5> QED BY <5>1, <2>1, <3>1, <1>0
      <4>4. CASE ~Arrive
        BY <4>4, <2>1, <3>1, <1>0, RxHistory
      <4> QED BY <4>3, <4>4
    <3>2. CASE n # rxNext
      <4>1. n \in unstamped' => n \in ptp' 
        BY RxTypeStep DEF RxTypeOK
      <4>2. n \in RxFrames /\ n \in unstamped
        BY <4>1, <2>1, <3>2, <1>0, <1>5, <1>6
      <4>3. n \in RxKept
        <5>1. PICK i \in DOMAIN rxStamps' : rxStamps'[i].frame = n
          BY <2>1, RxElements
        <5>2. \E j \in DOMAIN rxStamps : rxStamps[j].frame = n
          <6>1. CASE rxStamps' = rxStamps
            BY <5>1, <6>1
          <6>2. CASE rxStamps # <<>> /\ rxStamps' = Tail(rxStamps)
            BY <5>1, <6>2, <1>0, TailElements
          <6>3. CASE Arrive /\ rxStamps' # rxStamps
            <7>1. PICK over \in BOOLEAN : rxStamps' = Append(rxStamps, [frame |-> rxNext,
                    sec |-> (IF over THEN rxNow - 1 ELSE rxNow) % RxSecRange, over |-> over])
              BY <6>3 DEF Arrive
            <7>2. rxNext \in RxFrames
              BY <6>3, RxFacts DEF Arrive, RxTypeOK, RxFrames
            <7>3. [frame |-> rxNext, over |-> over,
                   sec |-> (IF over THEN rxNow - 1 ELSE rxNow) % RxSecRange] \in RxStampType
              BY <7>2, RxFacts, RxNewStamp
            <7>4. PICK s \in RxStampType : rxStamps' = Append(rxStamps, s) /\ s.frame = rxNext
              BY <7>1, <7>3
            <7>5. /\ DOMAIN rxStamps = 1..Len(rxStamps) /\ Len(rxStamps) \in Nat
                  /\ DOMAIN rxStamps' = 1..(Len(rxStamps) + 1)
                  /\ \A j \in 1..Len(rxStamps) : rxStamps'[j] = rxStamps[j]
                  /\ rxStamps'[Len(rxStamps) + 1] = s
              BY <7>4, <1>0, AppendElements
            <7>6. i \in 1..Len(rxStamps)
              BY <5>1, <7>4, <7>5, <3>2
            <7> QED BY <5>1, <7>5, <7>6
          <6>4. \/ rxStamps' = rxStamps
                \/ (rxStamps # <<>> /\ rxStamps' = Tail(rxStamps))
                \/ (Arrive /\ rxStamps' # rxStamps)
            BY DEF RxNext, ProcessRx, RxTick, Dequeue, TakeTime, FindRxStatus,
               FindRxReads, Dispatch, Refill, rxVars
          <6> QED BY <6>1, <6>2, <6>3, <6>4
        <5> QED BY <5>2, RxElements
      <4> QED BY <4>2, <4>3, <1>2
    <3> QED BY <3>1, <3>2
  <2> QED BY <2>1
<1>8. ASSUME NEW m, NEW n, m \in RxUnsearched', n \in RxUnsearched', m < n,
             n \in ptp', n \notin unstamped', m \in unstamped' \/ ahead'[m] # {}
      PROVE  m \in ahead'[n]
  <2>1. m # rxNext /\ m \in RxUnsearched /\ m \in RxFrames
    <3>1. m # rxNext
      <4>1. ASSUME m = rxNext PROVE FALSE
        <5>1. n # rxNext /\ n \in RxUnsearched
          BY <4>1, <1>8, <1>1, <1>0
        <5>2. n < rxNext /\ n \in Nat
          BY <5>1, <1>3, <1>0
        <5>3. rxNext < n /\ rxNext \in Nat
          BY <4>1, <1>8, <1>0
        <5> QED BY <5>2, <5>3
      <4> QED BY <4>1
    <3> QED BY <3>1, <1>8, <1>1, <1>3
  <2>2. m \in unstamped \/ ahead[m] # {}
    BY <2>1, <1>8, <1>6
  <2>3. CASE n = rxNext
    BY <2>1, <2>2, <2>3, <1>6, <1>8
  <2>4. CASE n # rxNext
    <3>1. n \in RxUnsearched /\ n \in ptp /\ n \notin unstamped /\ n \in RxFrames
      BY <2>4, <1>8, <1>1, <1>5, <1>3, <1>6
    <3>2. m \in ahead[n]
      BY <3>1, <2>1, <2>2, <1>2, <1>8
    <3> QED BY <3>1, <3>2, <2>4, <1>6
  <2> QED BY <2>3, <2>4
<1>9. ASSUME NEW n \in RxFrames, NEW m \in ahead'[n] PROVE m < n
  <2>1. CASE ahead'[n] = ahead[n]
    BY <2>1, <1>9, <1>2
  <2>2. CASE ahead'[n] # ahead[n]
    <3>1. n = rxNext
      BY <2>2, <1>6
    <3>2. m \in RxUnsearched
      BY <2>2, <3>1, <1>6, <1>9
    <3> QED BY <3>1, <3>2, <1>3
  <2> QED BY <2>1, <2>2
<1>10. ASSUME NEW n, n \in RxLacking', n \notin unstamped' PROVE ahead'[n] \cap RxLacking' # {}
  <2>1. CASE n \in RxLacking
    <3>1. n \in RxFrames /\ n # rxNext
      BY <2>1, <1>4, <1>0
    <3>2. n \notin unstamped /\ ahead'[n] = ahead[n]
      BY <3>1, <1>6, <1>10
    <3>3. ahead[n] \cap RxLacking # {}
      BY <2>1, <3>2, <1>2
    <3> QED BY <3>2, <3>3, <1>1
  <2>2. CASE n \notin RxLacking
    <3>1. /\ n \in RxKept /\ n \in RxUnsearched /\ unstamped' = unstamped
          /\ skb["poll"] \in RxUnsearched /\ skb["poll"] \in RxLacking /\ skb["poll"] < n
      BY <2>2, <1>1, <1>10
    <3>2. n \in ptp /\ n \notin unstamped /\ n # rxNext /\ n \in RxFrames
      BY <3>1, <1>2, <1>4, <1>0
    <3>3. skb["poll"] \in unstamped \/ ahead[skb["poll"]] # {}
      BY <3>1, <1>2
    <3>4. skb["poll"] \in ahead[n]
      BY <3>1, <3>2, <3>3, <1>2
    <3>5. skb["poll"] \in ahead'[n] /\ skb["poll"] \in RxLacking'
      BY <3>1, <3>2, <3>4, <1>6, <1>1
    <3> QED BY <3>5
  <2> QED BY <2>1, <2>2
<1> QED BY <1>7, <1>8, <1>9, <1>10 DEF RxLossInv

\* A frame whose timestamp fitted into the fifo lacks it only if it arrived before one that
\* lacks its own was searched for: however far a loss goes, it ends when the poll function
\* has caught up (edge_com_ts.c:254-273).
THEOREM LossHandedOnAlways ==
  ASSUME ReceiveAssumption, Flush = FALSE
  PROVE  RxSpec => []LossHandedOn
<1>1. RxInit => RxSerialInv /\ RxLossInv
  <2>1. SUFFICES ASSUME RxInit PROVE RxSerialInv /\ RxLossInv
    OBVIOUS
  <2>2. /\ done = <<>> /\ rxStamps = <<>> /\ delivered = <<>> /\ ptp = {} /\ unstamped = {}
        /\ at = [t \in Threads |-> "deq"] /\ ahead = [n \in RxFrames |-> {}]
    BY <2>1 DEF RxInit
  <2>3. at["poll"] = "deq" /\ DOMAIN done = {} /\ DOMAIN delivered = {} /\ DOMAIN rxStamps = {}
    BY <2>2 DEF Threads
  <2>4. RxSerialInv
    BY <2>3 DEF RxSerialInv
  <2>5. (\A n : n \notin RxUnsearched) /\ (\A n : n \notin RxKept) /\ (\A n : n \notin RxLacking)
    <3>1. (\A n : n \notin RxUnsearched) /\ (\A n : n \notin RxKept) /\ (\A n : n \notin Missing)
      BY <2>2, <2>3, RxElements
    <3> QED BY <2>2, <3>1 DEF RxLacking
  <2>6. RxLossInv
    BY <2>2, <2>5 DEF RxLossInv
  <2> QED BY <2>4, <2>6
<1>2. ReceiveInv /\ RxSerialInv /\ RxLossInv /\ [RxNext]_rxVars => (RxSerialInv /\ RxLossInv)'
  BY RxSerialStep, RxLossStep DEF ReceiveInv
<1>3. ReceiveInv /\ RxSerialInv /\ RxLossInv => LossHandedOn
  <2>1. SUFFICES ASSUME ReceiveInv, RxSerialInv, RxLossInv, NEW n \in Missing \ unstamped
                 PROVE  ahead[n] \cap Missing # {}
    BY DEF LossHandedOn
  <2>2. n \in RxLacking /\ n \in RxFrames
    BY <2>1, RxElements DEF ReceiveInv, RxTypeOK
  <2>3. PICK m : m \in ahead[n] /\ m \in RxLacking /\ m < n
    BY <2>1, <2>2 DEF RxLossInv
  <2>4. PICK d \in DOMAIN delivered : n = delivered[d].frame
    BY <2>1, RxElements
  <2>5. \A i \in DOMAIN done : n < done[i]
    BY <2>4, <2>1 DEF RxSerialInv
  <2>6. at["poll"] \notin {"deq", "enq"} => n < skb["poll"]
    BY <2>4, <2>1 DEF RxSerialInv
  <2>7. n \in Nat /\ m \in Nat
    BY <2>1, <2>2, <2>3, RxFacts DEF ReceiveInv, RxTypeOK
  <2>8. \A i \in DOMAIN done : m # done[i]
    BY <2>1, <2>3, <2>5, <2>7, RxFacts DEF ReceiveInv
  <2>9. at["poll"] \in {"time", "status", "read", "dispatch"} => m # skb["poll"]
    BY <2>1, <2>3, <2>6, <2>7, RxFacts, RxOneThread DEF ReceiveInv
  <2>10. m \in Missing
    <3>1. m \notin RxUnsearched
      BY <2>8, <2>9, RxElements
    <3>2. \/ m \in RxUnsearched /\ m \in ptp /\ m \notin RxKept
          \/ m \in Missing
          \/ at["poll"] = "dispatch" /\ hwtstamp["poll"] = RxNone /\ m = skb["poll"] /\ m \in ptp
      BY <2>3, RxElements
    <3> QED BY <2>9, <3>1, <3>2
  <2> QED BY <2>3, <2>10
<1>4. QED
  BY <1>1, <1>2, <1>3, RxInvHolds, PTL DEF RxSpec
==============================================================================
