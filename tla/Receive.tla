------------------------------- MODULE Receive -------------------------------
(***************************************************************************)
(* Reception: the receive side of edge_com_dma.c and edge_com_ts.c.          *)
(*                                                                          *)
(* The switch takes a timestamp of each PTP frame a port receives, which it   *)
(* keeps in a short fifo, and writes the frame into a buffer of the receive   *)
(* ring.  The poll function takes a frame off the ring, looks for its          *)
(* timestamp by parts of its header, throwing away those in front, hands the   *)
(* frame to its port, and puts a new buffer into the ring.                     *)
(*                                                                          *)
(* Actors: the network, time, the poll function (NapiPoll says when it runs)   *)
(* and, if Flush, a read of the attribute "flush", which processes the ring    *)
(* too.  The ring is the queue of DmaTxAbs: buffers that wait for a frame and  *)
(* frames that wait for the poll function.  One port's timestamps; frames      *)
(* without one, of any port, are not PTP frames.                               *)
(***************************************************************************)
EXTENDS Integers, Sequences, FiniteSets

CONSTANTS
  Capacity,      \* EDGX_DMA_DESC_CNT - 1
  TsFifoLen,     \* timestamps the switch can keep: EDGX_COM_TS_CTRL_CNT
  RxSecRange,    \* EDGX_COM_TS_FULLSEC_MASK + 1
  Flush,         \* is the attribute "flush" read?
  AllocFails,    \* may the allocation or mapping of a buffer fail?
  MaxAge,        \* seconds a timestamp may wait at most
  RxMaxFrames, RxMaxTime  \* bounds on the frames received and on time

RxFrames == 1..RxMaxFrames
RxNone   == -1    \* no timestamp
Invalid  == -2    \* found, but it could not be completed: none either
Threads  == IF Flush THEN {"poll", "flush"} ELSE {"poll"}

ASSUME ReceiveAssumption ==
  /\ Capacity \in Nat \ {0} /\ TsFifoLen \in Nat \ {0}
  /\ RxSecRange \in Nat /\ RxSecRange > 3
  /\ Flush \in BOOLEAN /\ AllocFails \in BOOLEAN
  /\ MaxAge \in Nat /\ RxMaxFrames \in Nat /\ RxMaxTime \in Nat

VARIABLES
  free,        \* buffers that the switch can fill
  done,        \* frames in the ring
  rxStamps,    \* the timestamps the switch keeps
  at,          \* where each thread stands
  skb,         \* the frame it has taken off the ring
  rxTime,      \* the seconds of the PTP clock, as it has read them
  hwtstamp,    \* the seconds it has completed the timestamp with
  rxNext,      \* the next frame
  rxNow,       \* time in seconds
  ptp,         \* history: the frames that are PTP frames,
  taken,       \* when each timestamp was taken,
  unstamped,   \* the PTP frames whose timestamp did not fit into the fifo,
  ahead,       \* for the others, those in front that may lack theirs,
  delivered    \* the frames handed to their ports, with their timestamps

thread  == <<at, skb, rxTime, hwtstamp>>
history == <<ptp, taken, unstamped, ahead>>
rxVars  == <<free, done, rxStamps, thread, rxNext, rxNow, history, delivered>>

RxStampType == [frame: RxFrames, sec: 0..(RxSecRange - 1), over: BOOLEAN]
RxSteps     == {"deq", "time", "status", "read", "dispatch", "enq"}

RxTypeOK ==
  /\ free \in 0..Capacity
  /\ done \in Seq(RxFrames) /\ free + Len(done) <= Capacity
  /\ rxStamps \in Seq(RxStampType) /\ Len(rxStamps) <= TsFifoLen
  /\ at \in [Threads -> RxSteps]
  /\ skb \in [Threads -> RxFrames \cup {0}]
  /\ rxTime \in [Threads -> Nat]
  /\ hwtstamp \in [Threads -> Nat \cup {RxNone, Invalid}]
  /\ rxNext \in 1..(RxMaxFrames + 1) /\ rxNow \in 0..RxMaxTime
  /\ ptp \subseteq RxFrames /\ unstamped \subseteq ptp
  /\ taken \in [RxFrames -> Nat \cup {RxNone}] /\ ahead \in [RxFrames -> SUBSET ptp]
  /\ delivered \in Seq([frame: RxFrames, sec: Nat \cup {RxNone, Invalid}])

\* edgx_com_dma_init: the ring is filled, or the driver is not loaded.
RxInit ==
  /\ free = Capacity /\ done = <<>> /\ rxStamps = <<>>
  /\ at = [t \in Threads |-> "deq"] /\ skb = [t \in Threads |-> 0]
  /\ rxTime = [t \in Threads |-> 0] /\ hwtstamp = [t \in Threads |-> RxNone]
  /\ rxNext = 1 /\ rxNow = 0
  /\ ptp = {} /\ taken = [n \in RxFrames |-> RxNone] /\ unstamped = {}
  /\ ahead = [n \in RxFrames |-> {}]
  /\ delivered = <<>>

-----------------------------------------------------------------------------
(* The network and time.                                                    *)

\* the frames whose timestamp may still be completed
Waiting == {done[i] : i \in DOMAIN done} \cup {skb[t] : t \in {u \in Threads : at[u] # "enq"}}

\* the frames still to be searched for whose search may empty the fifo
MayLack ==
  {n \in {done[i] : i \in DOMAIN done} \cup
         {skb[t] : t \in {u \in Threads : at[u] \in {"time", "status", "read"}}} :
     n \in unstamped \/ ahead[n] # {}}

\* A frame arrives.  Its timestamp is lost if the fifo is full, the frame if
\* there is no buffer, one or the other or both.
Arrive ==
  /\ rxNext <= RxMaxFrames
  /\ rxNext' = rxNext + 1
  /\ IF free > 0 THEN free' = free - 1 /\ done' = Append(done, rxNext)
                 ELSE UNCHANGED <<free, done>>
  /\ \/ UNCHANGED <<rxStamps, history>>
     \/ /\ ptp' = ptp \cup {rxNext}
        /\ taken' = [taken EXCEPT ![rxNext] = rxNow]
        /\ IF Len(rxStamps) < TsFifoLen
           THEN /\ \E over \in BOOLEAN :
                     LET sec == (IF over THEN rxNow - 1 ELSE rxNow) % RxSecRange
                     IN  rxStamps' = Append(rxStamps, [frame |-> rxNext, sec |-> sec, over |-> over])
                /\ ahead' = [ahead EXCEPT ![rxNext] = MayLack]
                /\ UNCHANGED unstamped
           ELSE /\ unstamped' = unstamped \cup {rxNext}
                /\ UNCHANGED <<rxStamps, ahead>>
  /\ UNCHANGED <<thread, rxNow, delivered>>

RxTick ==
  /\ rxNow < RxMaxTime
  /\ \A n \in Waiting \cap ptp : rxNow < taken[n] + MaxAge
  /\ rxNow' = rxNow + 1
  /\ UNCHANGED <<free, done, rxStamps, thread, rxNext, history, delivered>>

-----------------------------------------------------------------------------
(* edgx_dma_process_rx.                                                     *)

Goto(t, step) == at' = [at EXCEPT ![t] = step]

\* edgx_dma_deq_rx, and the beginning of edgx_com_ts_rx
Dequeue(t) ==
  /\ at[t] = "deq" /\ done # <<>>
  /\ skb' = [skb EXCEPT ![t] = Head(done)]
  /\ done' = Tail(done)
  /\ hwtstamp' = [hwtstamp EXCEPT ![t] = RxNone]
  /\ Goto(t, IF Head(done) \in ptp THEN "time" ELSE "dispatch")
  /\ UNCHANGED <<free, rxStamps, rxTime, rxNext, rxNow, history, delivered>>

\* edgx_com_ts_rx: the time is read when the frame is already there
TakeTime(t) ==
  /\ at[t] = "time"
  /\ rxTime' = [rxTime EXCEPT ![t] = rxNow]
  /\ Goto(t, "status")
  /\ UNCHANGED <<free, done, rxStamps, skb, hwtstamp, rxNext, rxNow, history, delivered>>

\* edgx_com_ts_find_rx: is there a timestamp?  Asked before ts_lock is taken.
FindRxStatus(t) ==
  /\ at[t] = "status"
  /\ Goto(t, IF rxStamps = <<>> THEN "dispatch" ELSE "read")
  /\ UNCHANGED <<free, done, rxStamps, skb, rxTime, hwtstamp, rxNext, rxNow, history, delivered>>

\* Mutant: the second of the clock is taken whenever the two bits differ.
FullSecNow(t, s) == rxTime[t]
\* edgx_com_ts_read: the full seconds.  They are looked for around the time t
\* has read; sec is not reduced again when the nanoseconds count one more.
RxFullSec(t, s) ==
  LET sec   == s.sec + (IF s.over THEN 1 ELSE 0)
      cands == {x \in Nat \cap {rxTime[t], rxTime[t] - 1, rxTime[t] + 1} :
                  x % RxSecRange = sec}
  IN  IF cands = {} THEN Invalid ELSE CHOOSE x \in cands : TRUE

\* Mutants: the search goes on after the timestamp was found; it ends with the
\* first timestamp, whoever's that is.
Always(s, n) == TRUE
Never(s, n)  == FALSE
\* a search goes on until the timestamp of its frame
NotItsOwn(s, n) == s.frame # n

\* edgx_com_ts_find_rx, edgx_com_ts_read_rx: one timestamp is read.  If another
\* thread has taken the last, what the switch delivers is no frame's.
FindRxReads(t) ==
  /\ at[t] = "read"
  /\ IF rxStamps = <<>> THEN Goto(t, "status") /\ UNCHANGED <<rxStamps, hwtstamp>>
     ELSE /\ rxStamps' = Tail(rxStamps)
          /\ hwtstamp' = [hwtstamp EXCEPT ![t] =
               IF Head(rxStamps).frame = skb[t] THEN RxFullSec(t, Head(rxStamps)) ELSE @]
          /\ Goto(t, IF NotItsOwn(Head(rxStamps), skb[t]) THEN "status" ELSE "dispatch")
  /\ UNCHANGED <<free, done, skb, rxTime, rxNext, rxNow, history, delivered>>

\* edgx_com_rx_dispatch
Dispatch(t) ==
  /\ at[t] = "dispatch"
  /\ delivered' = Append(delivered, [frame |-> skb[t], sec |-> hwtstamp[t]])
  /\ Goto(t, "enq")
  /\ UNCHANGED <<free, done, rxStamps, skb, rxTime, hwtstamp, rxNext, rxNow, history>>

\* edgx_dma_enq_rx; if it fails, nobody tries again
Refill(t) ==
  /\ at[t] = "enq"
  /\ \/ free' = free + 1
     \/ AllocFails /\ UNCHANGED free
  /\ skb' = [skb EXCEPT ![t] = 0]
  /\ Goto(t, "deq")
  /\ UNCHANGED <<done, rxStamps, rxTime, hwtstamp, rxNext, rxNow, history, delivered>>

ProcessRx(t) ==
  \/ Dequeue(t) \/ TakeTime(t) \/ FindRxStatus(t) \/ FindRxReads(t)
  \/ Dispatch(t) \/ Refill(t)

RxNext == Arrive \/ RxTick \/ \E t \in Threads : ProcessRx(t)

RxSpec == RxInit /\ [][RxNext]_rxVars

-----------------------------------------------------------------------------
(* Properties.                                                              *)

\* A frame is never delivered with the timestamp of another, nor with a wrong
\* second, whatever timestamps and frames were lost before, and although a
\* timestamp has two bits of the seconds and is completed later
\* (edge_com_ts.c:95-124, 234-274).  It needs MaxAge < SecRange - 1.
RxStampExact ==
  \A i \in DOMAIN delivered :
    delivered[i].sec \notin {RxNone, Invalid} =>
      delivered[i].sec = taken[delivered[i].frame]

\* The timestamps in the fifo are of frames not yet searched for: whatever was
\* lost, each search leaves fifo and ring in step, so that timestamps of frames
\* that never came do not fill the fifo for good (edge_com_ts.c:254-273).
FifoAhead ==
  \A t \in Threads, i \in DOMAIN rxStamps :
    at[t] \in {"dispatch", "enq"} /\ skb[t] \in ptp => rxStamps[i].frame > skb[t]

\* The types, and FifoAhead.
RxInv == RxTypeOK /\ FifoAhead

\* The PTP frames that were delivered without a timestamp, for want of one.
Missing == {delivered[i].frame : i \in {j \in DOMAIN delivered :
              delivered[j].sec = RxNone /\ delivered[j].frame \in ptp}}

\* A frame whose timestamp fitted into the fifo lacks it only if it arrived
\* before a frame that lacks its own was searched for, which threw it away.
\* However many frames a loss is handed on to, it ends when the poll function
\* has caught up with the ring (edge_com_ts.c:254-273).
LossHandedOn ==
  \A n \in Missing \ unstamped : ahead[n] \cap Missing # {}

\* A timestamp that did not fit costs no more frames theirs than fit into the
\* fifo: does not hold.  The frames that arrive during a search lose theirs too.
StampLossLimited ==
  Cardinality(Missing) <= (1 + TsFifoLen) * Cardinality(unstamped)

\* A frame lacks its timestamp only if that did not fit: does not hold.
OnlyOwnStampLost == Missing \subseteq unstamped

\* Frames are delivered in the order they arrived in: does not hold if the
\* attribute "flush" is read (edge_com_dma.c:849).
RxInOrder ==
  \A i, j \in DOMAIN delivered : i < j => delivered[i].frame < delivered[j].frame

\* There is always a buffer to receive the next frame, now or when the frames
\* in the ring have been processed: does not hold if allocations fail, and then
\* nothing is ever received again (edge_com_dma.c:528-531).
NeverStarved ==
  free + Len(done) + Cardinality({t \in Threads : skb[t] # 0}) > 0
=============================================================================
