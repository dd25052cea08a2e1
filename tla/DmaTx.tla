-------------------------------- MODULE DmaTx --------------------------------
(***************************************************************************)
(* A transmit queue of the bridge's DMA: edge_com_dma.c.                    *)
(*                                                                          *)
(* A ring of descriptors is shared with the hardware, which owns those with *)
(* the INIT bit set.  One descriptor is always left empty.  The bridge      *)
(* ports and one subqueue of the end point share the queue: a device that   *)
(* fills it, or finds it full, is stopped and put into a fifo; each frame   *)
(* that is released wakes the first device of the fifo.                     *)
(*                                                                          *)
(* Actors: the network stack, which does not transmit on a stopped device;   *)
(* the preemption timers, which transmit regardless; the hardware; the poll  *)
(* function; the transmit watchdog.  All but the hardware hold q->lock.      *)
(*                                                                          *)
(* A frame is represented by its device: the order of the devices' frames is *)
(* what the properties tell apart.                                          *)
(***************************************************************************)
EXTENDS Integers, Sequences

CONSTANTS
  Devices,
  NoFrame,
  DescCnt,      \* EDGX_DMA_DESC_CNT
  MaxPending,   \* EDGX_BR_MAX_PORTS, the size of pending_devs
  Setups        \* what may happen around the queue: see setup

ASSUME DmaTxAssumption ==
  /\ DescCnt \in Nat /\ DescCnt >= 2
  /\ MaxPending \in Nat \ {0}
  /\ NoFrame \notin Devices
  /\ Setups \subseteq [direct : SUBSET Devices, mayFail : BOOLEAN, watchdog : BOOLEAN]

VARIABLES
  setup,       \* the devices on which verify frames are sent; may the mapping of a frame
               \* fail; does the kernel's transmit watchdog expire?
  \* struct edgx_dma_queue: positions, count, frames
  enqPos, deqPos, cnt, slot,
  initBit,     \* the descriptors the hardware owns
  hwPos,       \* the hardware's next descriptor
  pending,     \* pending_devs
  stopped      \* netif_stop_queue, per device

ring    == <<enqPos, deqPos, cnt, slot, initBit, hwPos>>
waiters == <<pending, stopped>>
vars    == <<setup, ring, waiters>>

Positions == 0..(DescCnt - 1)

TypeOK ==
  /\ setup \in Setups
  /\ enqPos \in Positions /\ deqPos \in Positions /\ hwPos \in Positions
  /\ cnt \in 0..(DescCnt - 1)
  /\ slot \in [Positions -> Devices \cup {NoFrame}]
  /\ initBit \in [Positions -> BOOLEAN]
  /\ pending \in Seq(Devices) /\ Len(pending) <= MaxPending
  /\ stopped \subseteq Devices

Init ==
  /\ setup \in Setups
  /\ enqPos = 0 /\ deqPos = 0 /\ hwPos = 0 /\ cnt = 0
  /\ slot = [p \in Positions |-> NoFrame]
  /\ initBit = [p \in Positions |-> FALSE]
  /\ pending = <<>> /\ stopped = {}

-----------------------------------------------------------------------------
NextPos(p) == (p + 1) % DescCnt

\* "Due to an IP limitation, keep one empty descriptor in the queue."
Room == cnt < DescCnt - 1

\* Mutant: INIT is not set.
EnqueueNotGiven(d) ==
  /\ Room /\ ~initBit[enqPos]
  /\ slot' = [slot EXCEPT ![enqPos] = d]
  /\ enqPos' = NextPos(enqPos) /\ cnt' = cnt + 1
  /\ UNCHANGED <<setup, deqPos, initBit, hwPos>>
\* edgx_dma_enq, a frame is queued and its descriptor given to the hardware
Enqueue(d) ==
  /\ Room /\ ~initBit[enqPos]
  /\ slot' = [slot EXCEPT ![enqPos] = d]
  /\ initBit' = [initBit EXCEPT ![enqPos] = TRUE]
  /\ enqPos' = NextPos(enqPos) /\ cnt' = cnt + 1
  /\ UNCHANGED <<setup, deqPos, hwPos>>

\* edgx_dma_enq, -ENOMEM: the ring is full, a queuing error, or a mapping error
Reject ==
  /\ ~Room \/ initBit[enqPos] \/ setup.mayFail
  /\ UNCHANGED <<setup, ring>>

\* Mutant: a device is stopped and not remembered.
StopDeviceForgets(d) ==
  /\ stopped' = stopped \cup {d}
  /\ pending' = pending
\* The fifo drops what it has no room for.
StopDevice(d) ==
  /\ stopped' = stopped \cup {d}
  /\ pending' = IF Len(pending) < MaxPending THEN Append(pending, d) ELSE pending

\* edgx_com_dma_xmit, edgx_dma_enq_tx: the device is stopped for -ENOSPC too,
\* which says that the frame was queued at the last place.
Xmit(d) ==
  \/ Enqueue(d) /\ IF cnt' < DescCnt - 1 THEN UNCHANGED waiters ELSE StopDevice(d)
  \/ Reject /\ StopDevice(d)

\* The network stack transmits a frame; one that is rejected stays with the stack.
StartXmit(d) == d \notin stopped /\ Xmit(d)

\* preempt_send_frame: a verify frame goes out whether or not the device is
\* stopped; one that is rejected is lost.
SendVerify(d) == d \in setup.direct /\ Xmit(d)

HwTransmits ==
  /\ initBit[hwPos]
  /\ initBit' = [initBit EXCEPT ![hwPos] = FALSE]
  /\ hwPos' = NextPos(hwPos)
  /\ UNCHANGED <<setup, enqPos, deqPos, cnt, slot, waiters>>

\* Mutant: the frame is released whether or not it has been transmitted.
DequeueEarly ==
  /\ cnt # 0
  /\ slot' = [slot EXCEPT ![deqPos] = NoFrame]
  /\ deqPos' = NextPos(deqPos) /\ cnt' = cnt - 1
  /\ UNCHANGED <<setup, enqPos, initBit, hwPos>>
\* edgx_dma_deq
Dequeue ==
  /\ cnt # 0 /\ ~initBit[deqPos]
  /\ slot' = [slot EXCEPT ![deqPos] = NoFrame]
  /\ deqPos' = NextPos(deqPos) /\ cnt' = cnt - 1
  /\ UNCHANGED <<setup, enqPos, initBit, hwPos>>

\* Mutant: a device is woken only when the ring has run empty.
WakeWhenEmpty ==
  IF pending = <<>> \/ cnt # 1
  THEN UNCHANGED waiters
  ELSE pending' = Tail(pending) /\ stopped' = stopped \ {Head(pending)}
Wake ==
  IF pending = <<>>
  THEN UNCHANGED waiters
  ELSE pending' = Tail(pending) /\ stopped' = stopped \ {Head(pending)}

\* edgx_dma_deq_tx, one frame of edgx_dma_process_tx
ReleaseFrame == Dequeue /\ Wake

\* edgx_com_dma_tx_timeout: what has been transmitted is released (ReleaseFrame),
\* then the device is woken; its entry stays in the fifo.
TxTimeout(d) ==
  /\ setup.watchdog /\ d \in stopped
  /\ stopped' = stopped \ {d}
  /\ UNCHANGED <<setup, ring, pending>>

Next ==
  \/ \E d \in Devices : StartXmit(d) \/ SendVerify(d) \/ TxTimeout(d)
  \/ HwTransmits \/ ReleaseFrame

Spec == Init /\ [][Next]_vars

\* The hardware transmits, and the poll function is called while there are frames to
\* release (NapiPoll).  Nothing makes the stack transmit or the watchdog expire.
FairSpec == Spec /\ WF_vars(HwTransmits) /\ WF_vars(ReleaseFrame)

-----------------------------------------------------------------------------
\* How far a position is behind the next one to be released.
Dist(p) == IF p >= deqPos THEN p - deqPos ELSE p + DescCnt - deqPos

\* The frames of the queue are those of cnt consecutive descriptors from deqPos on,
\* and the hardware owns the later ones among them: positions, count, frames and
\* INIT bits never disagree (edge_com_dma.c:287-320, :343-384).
RingConsistent ==
  /\ Dist(enqPos) = cnt /\ Dist(hwPos) <= cnt
  /\ \A p \in Positions :
       /\ slot[p] # NoFrame <=> Dist(p) < cnt
       /\ initBit[p] <=> Dist(p) < cnt /\ Dist(hwPos) <= Dist(p)

Inv == TypeOK /\ RingConsistent

\* When there is room, the next descriptor is not the hardware's: the error
\* "DMA queuing error!" is never reported (edge_com_dma.c:290).
NoQueuingError == Room => ~initBit[enqPos]

\* There are never more devices to wake than frames whose release will wake them
\* (edge_com_dma.c:412, :454): without mapping errors, whoever is in the fifo is woken.
WakersSuffice == ~setup.mayFail => Len(pending) <= cnt

\* Nobody transmits while stopped, and nobody is woken but by the release of a frame.
StopRespected == setup.direct = {} /\ ~setup.watchdog

Waiting ==
  /\ stopped = {pending[i] : i \in DOMAIN pending}
  /\ \A i, j \in DOMAIN pending : pending[i] = pending[j] => i = j

\* A device is stopped if and only if it is in the fifo, and it is there once
\* (edge_com_dma.c:412-418, :454-461).
StoppedIffPending == StopRespected => Waiting

\* A stopped device is woken by the transmission of frames alone, without the watchdog.
StoppedWakes ==
  \A d \in Devices :
    (StopRespected /\ ~setup.mayFail /\ d \in stopped) ~> (d \notin stopped)

\* The position i places after deqPos; the frames of the queue in their order.
At(i)  == IF deqPos + i < DescCnt THEN deqPos + i ELSE deqPos + i - DescCnt
Frames == [i \in 1..cnt |-> slot[At(i - 1)]]

Abs == INSTANCE DmaTxAbs WITH
  queue <- Frames, sent <- Dist(hwPos), waiting <- pending,
  Capacity <- DescCnt - 1, MaxWaiting <- MaxPending

\* The ring implements the queue of DmaTxAbs: frames are transmitted and released in
\* the order they were accepted, each once, and only after transmission.
ImplementsAbs == Abs!Spec

=============================================================================
