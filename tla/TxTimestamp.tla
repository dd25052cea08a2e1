----------------------------- MODULE TxTimestamp -----------------------------
(***************************************************************************)
(* Transmit timestamps of one bridge port: edge_com_ts.c.                    *)
(*                                                                          *)
(* The original of a PTP event frame is put into a fifo and a clone of it is  *)
(* transmitted.  The switch takes a timestamp when the frame leaves, keeps it *)
(* in a short fifo of its own, and raises an interrupt.  A work item reads     *)
(* the timestamps, looks for the frame each belongs to by parts of its header, *)
(* drops the ones before it, and completes the two low bits of the seconds     *)
(* that the switch delivers with the seconds of the PTP clock.                *)
(*                                                                          *)
(* Actors: the transmission, the hardware, the interrupt handler, its work     *)
(* item, time.  The ring between transmission and hardware is DmaTx's, here a  *)
(* sequence of frames.  Frames are numbered in the order the stack sends them; *)
(* the header tells them apart (message type, domain, sequence id).            *)
(***************************************************************************)
EXTENDS Integers, Sequences, FiniteSets

CONSTANTS
  FifoLen,          \* EDGX_COM_TS_KFIFO_LEN
  HwFifoLen,        \* timestamps the switch can keep
  SecRange,         \* EDGX_COM_TS_FULLSEC_MASK + 1
  Setups,           \* the boards and stacks that are looked at
  MaxFrames, MaxTime  \* bounds on the frames sent and on time

Frames == 1..MaxFrames
None   == -1

ASSUME TxTimestampAssumption ==
  /\ FifoLen \in Nat \ {0} /\ HwFifoLen \in Nat \ {0}
  /\ SecRange \in Nat /\ SecRange > 3
  /\ \A s \in Setups :
       /\ s.outstanding \in Nat \ {0} /\ s.frames \in 0..MaxFrames
       /\ s.start \in 0..MaxTime
       /\ {s.level, s.fails, s.overrun} \subseteq BOOLEAN
  /\ MaxFrames \in Nat /\ MaxTime \in Nat

VARIABLES
  setup,       \* bound: the board and the stack of this behaviour
  queue,       \* pts->tx_queue
  ring,        \* frames on their way to the port
  stamps,      \* the timestamps the switch keeps
  stat, mask, edge,  \* its interrupt: status, enabled, edge latched
  queued,      \* work_tx is queued
  work,        \* where it stands
  curTime,     \* the seconds of the PTP clock, as it has read them
  stamp,       \* the timestamp it has read
  next,        \* the next frame the stack sends
  now,         \* time in seconds
  sentAt,      \* history: when each frame left the port
  got, dropped   \* history: the seconds each frame was completed with; frames
               \* that were given up

irq  == <<stat, mask, edge, queued>>
hist == <<sentAt, got, dropped>>
vars == <<setup, queue, ring, stamps, irq, work, curTime, stamp, next, now, hist>>

MaxOutstanding == setup.outstanding  \* frames the stack has under way at a time
Level      == setup.level    \* EDGX_IRQ_LEVEL_TRIG, or EDGX_IRQ_EDGE_TRIG
MayFail    == setup.fails    \* may cloning or mapping a frame fail?
MayOverrun == setup.overrun  \* nanoseconds beyond the second from the switch?

NoStamp   == [frame |-> 0, sec |-> 0, over |-> FALSE]
StampType == [frame: Frames, sec: 0..(SecRange - 1), over: BOOLEAN]
Steps     == {"idle", "clear", "time", "status", "read", "find", "enable"}

TypeOK ==
  /\ setup \in Setups
  /\ queue \in Seq(Frames) /\ Len(queue) <= FifoLen
  /\ ring \in Seq(Frames)
  /\ stamps \in Seq(StampType) /\ Len(stamps) <= HwFifoLen
  /\ stat \in BOOLEAN /\ mask \in BOOLEAN /\ edge \in BOOLEAN /\ queued \in BOOLEAN
  /\ work \in Steps /\ curTime \in Nat /\ stamp \in StampType \cup {NoStamp}
  /\ next \in 1..(MaxFrames + 1) /\ now \in Nat
  /\ sentAt \in [Frames -> Int] /\ got \in [Frames -> Int] /\ dropped \subseteq Frames

Init ==
  /\ setup \in Setups
  /\ queue = <<>> /\ ring = <<>> /\ stamps = <<>>
  /\ stat = FALSE /\ mask = TRUE /\ edge = FALSE /\ queued = FALSE
  /\ work = "idle" /\ curTime = 0 /\ stamp = NoStamp
  /\ next = 1 /\ now = setup.start
  /\ sentAt = [n \in Frames |-> None] /\ got = [n \in Frames |-> None] /\ dropped = {}

-----------------------------------------------------------------------------
(* Transmission.  The stack waits for the timestamps of what it has sent.   *)

Outstanding == {n \in Frames : n < next /\ got[n] = None /\ n \notin dropped}
MaySend == next <= setup.frames /\ Cardinality(Outstanding) < MaxOutstanding

\* edgx_com_ts_xmit: the original is put into the fifo, the clone is transmitted.
TsXmit ==
  /\ MaySend /\ Len(queue) < FifoLen
  /\ queue' = Append(queue, next)
  /\ ring' = Append(ring, next)
  /\ next' = next + 1
  /\ UNCHANGED <<stamps, irq, work, curTime, stamp, now, hist>>

\* No clone, or the fifo is full: the frame is transmitted without a request.
TsXmitUnrequested ==
  /\ MaySend /\ (MayFail \/ Len(queue) = FifoLen)
  /\ queue' = queue
  /\ ring' = Append(ring, next)
  /\ next' = next + 1
  /\ dropped' = dropped \cup {next}
  /\ UNCHANGED <<stamps, irq, work, curTime, stamp, now, sentAt, got>>

\* The clone cannot be mapped for the DMA: the original is in the fifo, and the stack
\* sends it again.
TsXmitMappingFails ==
  /\ MaySend /\ MayFail /\ Len(queue) < FifoLen
  /\ queue' = Append(queue, next)
  /\ UNCHANGED <<ring, stamps, irq, work, curTime, stamp, next, now, hist>>

-----------------------------------------------------------------------------
(* The switch.                                                              *)

\* A frame leaves, and its timestamp is kept, if there is room.  At the beginning of a
\* second, the old seconds may come with nanoseconds of a second and more.
HwTransmits ==
  /\ ring # <<>>
  /\ ring' = Tail(ring)
  /\ sentAt' = [sentAt EXCEPT ![Head(ring)] = now]
  /\ IF Len(stamps) < HwFifoLen
     THEN /\ \E over \in (IF MayOverrun /\ now > 0 THEN BOOLEAN ELSE {FALSE}) :
               stamps' = Append(stamps, [frame |-> Head(ring), over |-> over,
                                  sec |-> (IF over THEN now - 1 ELSE now) % SecRange])
          /\ stat' = TRUE
          /\ edge' = (edge \/ (~Level /\ ~stat))
     ELSE UNCHANGED <<stamps, stat, edge>>
  /\ UNCHANGED <<queue, mask, queued, work, curTime, stamp, next, now, got, dropped>>

\* "assume max. 1 s has passed": a timestamp is read in the second it was taken in, or
\* the next, and with the seconds of the clock as of one of the two.
Prompt ==
  /\ \A i \in DOMAIN stamps : sentAt[stamps[i].frame] = now
  /\ stamp # NoStamp => sentAt[stamp.frame] = now
  /\ work \in {"status", "read", "find"} => curTime = now

Tick ==
  /\ now < MaxTime /\ Prompt
  /\ now' = now + 1
  /\ UNCHANGED <<queue, ring, stamps, irq, work, curTime, stamp, next, hist>>

-----------------------------------------------------------------------------
(* The interrupt and its work item.                                         *)

\* edgx_com_ts_isr
Isr ==
  /\ IF Level THEN stat /\ mask ELSE edge
  /\ edge' = FALSE
  /\ mask' = ~Level
  /\ queued' = TRUE
  /\ UNCHANGED <<queue, ring, stamps, stat, work, curTime, stamp, next, now, hist>>

WorkStarts ==
  /\ queued /\ work = "idle"
  /\ queued' = FALSE
  /\ work' = "clear"
  /\ UNCHANGED <<queue, ring, stamps, stat, mask, edge, curTime, stamp, next, now, hist>>

\* Mutant: the status is not cleared.
WorkClearsNot ==
  /\ work = "clear"
  /\ work' = "time"
  /\ UNCHANGED <<queue, ring, stamps, irq, curTime, stamp, next, now, hist>>
\* edgx_com_ts_work_tx: edgx_br_clr_int_stat, ...
WorkClears ==
  /\ work = "clear"
  /\ stat' = FALSE
  /\ work' = "time"
  /\ UNCHANGED <<queue, ring, stamps, mask, edge, queued, curTime, stamp, next, now, hist>>

\* ... edgx_tm_get_ts_time, ...
WorkTakesTime ==
  /\ work = "time"
  /\ curTime' = now
  /\ work' = "status"
  /\ UNCHANGED <<queue, ring, stamps, irq, stamp, next, now, hist>>

\* ... edgx_com_ts_find_tx: are there timestamps?
FindTxStatus ==
  /\ work = "status"
  /\ work' = IF stamps # <<>> THEN "read" ELSE "enable"
  /\ UNCHANGED <<queue, ring, stamps, irq, curTime, stamp, next, now, hist>>

\* edgx_com_ts_read_tx takes one from the switch.
FindTxReads ==
  /\ work = "read"
  /\ stamp' = Head(stamps) /\ stamps' = Tail(stamps)
  /\ work' = "find"
  /\ UNCHANGED <<queue, ring, irq, curTime, next, now, hist>>

\* Mutant: only timestamps that are older than the time of the clock are expected.
FullSecBackward(s) ==
  LET sec == s.sec + (IF s.over THEN 1 ELSE 0)
      candidates == {t \in {curTime, curTime - 1} : t % SecRange = sec}
  IN  IF candidates = {} THEN None ELSE CHOOSE t \in candidates : TRUE
\* edgx_com_ts_read: the full seconds, from the two low bits and the current time.
\* The seconds are not reduced again when the nanoseconds count one more.
FullSec(s) ==
  LET sec == s.sec + (IF s.over THEN 1 ELSE 0)
      candidates == {t \in {curTime, curTime - 1, curTime + 1} : t % SecRange = sec}
  IN  IF candidates = {} THEN None ELSE CHOOSE t \in candidates : TRUE

\* Mutant: the first frame of the fifo is taken for the one the timestamp belongs to.
MatchesAny(n) == TRUE
Matches(n) == n = stamp.frame

\* One frame is taken out of the fifo.  If the timestamp is its own, it is completed (or,
\* without valid seconds, dropped), otherwise dropped.
FindTxMatches ==
  /\ work = "find" /\ queue # <<>>
  /\ queue' = Tail(queue)
  /\ IF Matches(Head(queue)) /\ FullSec(stamp) # None
     THEN /\ got' = [got EXCEPT ![Head(queue)] = FullSec(stamp)]
          /\ dropped' = dropped
     ELSE /\ dropped' = dropped \cup {Head(queue)}
          /\ got' = got
  /\ IF Matches(Head(queue)) THEN work' = "status" /\ stamp' = NoStamp
                             ELSE UNCHANGED <<work, stamp>>
  /\ UNCHANGED <<ring, stamps, irq, curTime, next, now, sentAt>>

\* "TX timestamp lost": the fifo has run empty.
FindTxLoses ==
  /\ work = "find" /\ queue = <<>>
  /\ work' = "status" /\ stamp' = NoStamp
  /\ UNCHANGED <<queue, ring, stamps, irq, curTime, next, now, hist>>

WorkEnables ==
  /\ work = "enable"
  /\ mask' = TRUE
  /\ work' = "idle"
  /\ UNCHANGED <<queue, ring, stamps, stat, edge, queued, curTime, stamp, next, now, hist>>

-----------------------------------------------------------------------------
Xmit == TsXmit \/ TsXmitUnrequested \/ TsXmitMappingFails

WorkStep ==
  \/ WorkStarts \/ WorkClears \/ WorkTakesTime
  \/ FindTxStatus \/ FindTxReads \/ FindTxMatches \/ FindTxLoses
  \/ WorkEnables

Next == setup' = setup /\ (Xmit \/ HwTransmits \/ Tick \/ Isr \/ WorkStep)

Spec == Init /\ [][Next]_vars

\* The switch transmits, the interrupt is served, and the work item runs on.
FairSpec ==
  /\ Spec
  /\ WF_vars(setup' = setup /\ HwTransmits)
  /\ WF_vars(setup' = setup /\ Isr)
  /\ WF_vars(setup' = setup /\ WorkStep)

-----------------------------------------------------------------------------
\* Nothing is under way that could read timestamps.
Resting == ~queued /\ work = "idle" /\ (IF Level THEN ~(stat /\ mask) ELSE ~edge)

\* No interrupt is lost between clearing the status and reading the timestamps: when
\* everything rests, none is left in the switch, and the next one will raise an
\* interrupt (edge_com_ts.c:391-401, :404-411).
NoStampForgotten == Resting => stamps = <<>> /\ ~stat /\ mask

\* A frame is never completed with the timestamp of another, nor with a wrong second:
\* what is reported is when this frame left, whatever was dropped, sent twice or lost
\* before (edge_com_ts.c:95-124, :203-231).
StampExact == \A n \in Frames : got[n] # None => got[n] = sentAt[n]

\* Every timestamp that is read within a second can be computed: "a new timestamp can
\* arrive also in the small time window after cur_time is captured.  Therefore full_sec
\* can be either larger or smaller than sec" (edge_com_ts.c:104-113).
StampComputed == work = "find" => FullSec(stamp) = sentAt[stamp.frame]

\* Nothing fails, and the switch has room for the timestamps of all frames that
\* are under way.
Nominal == ~MayFail /\ ~MayOverrun /\ MaxOutstanding <= HwFifoLen

\* Then the fifo stays in step with the switch: it holds, in their order, the frames
\* whose timestamp has been read, is kept, or is yet to be taken, so that no original
\* is dropped and none is left behind (edge_com_ts.c:364-379, :203-219).
FifoInStep ==
  Nominal =>
    queue = (IF stamp = NoStamp THEN <<>> ELSE <<stamp.frame>>)
              \o [i \in DOMAIN stamps |-> stamps[i].frame] \o ring

\* Neither a timestamp nor a frame is forgotten (edge_com_ts.c:157-235, :391-411).
Inv == TypeOK /\ NoStampForgotten /\ FifoInStep

\* Every frame in the fifo is completed with its timestamp at last.
StampsArrive ==
  \A n \in Frames :
    (Nominal /\ \E i \in DOMAIN queue : queue[i] = n) ~> got[n] # None

=============================================================================
