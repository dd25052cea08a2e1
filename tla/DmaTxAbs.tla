------------------------------ MODULE DmaTxAbs ------------------------------
(***************************************************************************)
(* What a transmit queue of the bridge's DMA promises to the network        *)
(* devices that share it: frames are sent and released in the order they    *)
(* were submitted, each exactly once; a device that finds the queue full,   *)
(* or fills it, is stopped, and each released frame wakes the one that has   *)
(* waited longest.                                                          *)
(***************************************************************************)
EXTENDS Naturals, Sequences

CONSTANTS Devices, Capacity, MaxWaiting, Setups

VARIABLES
  setup,     \* may a frame be refused while there is room; may a device give up waiting?
  queue,     \* frames submitted and not released, each named by its device
  sent,      \* how many of them have been sent
  waiting,   \* the devices to wake, longest waiting first
  stopped    \* the devices that must not submit

vars == <<setup, queue, sent, waiting, stopped>>

Init == setup \in Setups /\ queue = <<>> /\ sent = 0 /\ waiting = <<>> /\ stopped = {}

Stop(d) ==
  /\ stopped' = stopped \cup {d}
  /\ waiting' = IF Len(waiting) < MaxWaiting THEN Append(waiting, d) ELSE waiting

\* A frame is accepted only if there is room; whoever takes the last place waits.
Accept(d) ==
  /\ Len(queue) < Capacity
  /\ queue' = Append(queue, d)
  /\ IF Len(queue') < Capacity THEN UNCHANGED <<waiting, stopped>> ELSE Stop(d)
  /\ UNCHANGED <<setup, sent>>

Refuse(d) ==
  /\ Len(queue) = Capacity \/ setup.mayFail
  /\ Stop(d)
  /\ UNCHANGED <<setup, queue, sent>>

Send ==
  /\ sent < Len(queue)
  /\ sent' = sent + 1
  /\ UNCHANGED <<setup, queue, waiting, stopped>>

\* Only a frame that has been sent is released, and it wakes the first to wait.
Release ==
  /\ sent > 0
  /\ sent' = sent - 1
  /\ queue' = Tail(queue)
  /\ UNCHANGED setup
  /\ IF waiting = <<>>
     THEN UNCHANGED <<waiting, stopped>>
     ELSE waiting' = Tail(waiting) /\ stopped' = stopped \ {Head(waiting)}

GiveUpWaiting(d) ==
  /\ setup.watchdog /\ d \in stopped
  /\ stopped' = stopped \ {d}
  /\ UNCHANGED <<setup, queue, sent, waiting>>

Next ==
  \/ \E d \in Devices : Accept(d) \/ Refuse(d) \/ GiveUpWaiting(d)
  \/ Send \/ Release

Spec == Init /\ [][Next]_vars
=============================================================================
