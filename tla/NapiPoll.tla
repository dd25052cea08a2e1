------------------------------ MODULE NapiPoll ------------------------------
(***************************************************************************)
(* Interrupts and polling of the bridge's DMA: edgx_dma_poll_rx and the      *)
(* interrupt handlers in edge_com_dma.c, interrupt masks in edge_bridge.c.   *)
(*                                                                          *)
(* One poll function serves the transmit and the receive rings.  An          *)
(* interrupt schedules it and, if level-triggered, is masked until the poll  *)
(* function has found nothing more to do.  The status bits are cleared       *)
(* by the poll function while frames keep arriving.                          *)
(*                                                                          *)
(* Actors: the hardware, one interrupt handler per line, the poll function,  *)
(* its end (which may overlap the next poll on another CPU), and others that *)
(* process the rings too (the sysfs attribute "flush", the transmit watchdog).*)
(*                                                                          *)
(* External: a frame is visible in its ring before its status bit is set; an *)
(* edge is the change of a status bit to 1.  In the case the comment at       *)
(* edge_com_dma.c:606-613 describes, a bit that is set while it is cleared    *)
(* stays set without an edge.                                                *)
(***************************************************************************)
EXTENDS Naturals, FiniteSets

CONSTANTS
  Boards,       \* how the switch is connected: level-triggered, or edge-triggered;
                \* one line for all interrupts (edgx_br_single_isr), or one for each
  Budget,       \* EDGX_DMA_RX_WEIGHT
  MaxArrivals   \* bound: the frames that arrive or are transmitted

Tx    == "DMA_TX"
Rx    == "DMA_RX"
Err   == "DMA_ERR"
Rings == {Tx, Rx}
Irqs  == {Tx, Rx, Err}
Lines == Irqs \cup {"all"}

ASSUME NapiPollAssumption ==
  /\ Boards \subseteq [level: BOOLEAN, shared: BOOLEAN]
  /\ Budget \in Nat \ {0} /\ MaxArrivals \in Nat

VARIABLES
  board,      \* the board the driver runs on
  done,       \* per ring: descriptors completed by the hardware, not yet processed
  raising,    \* per ring: completed descriptors whose status bit is yet to be set
  stat, mask, \* interrupt status register, enabled interrupts
  edge,       \* edges latched by the interrupt controller (edge-triggered only)
  isr,        \* per line: the interrupts its handler has yet to serve
  masked,     \* those of them that are masked and yet to schedule the poll function
  napi,       \* the poll function: not scheduled, scheduled, or where it stands
  missed,     \* it was scheduled once more in the meantime
  used,       \* frames it has processed, per ring
  post,       \* it has found more after the status was cleared
  enable,     \* per ring: ends of the poll function that have yet to enable it
  left        \* arrivals left

hw    == <<done, raising, stat, edge, left>>
poll  == <<napi, missed, used, post>>
napiVars == <<board, hw, mask, isr, masked, poll, enable>>

Steps == {"tx", "clear_tx", "post_tx", "rx", "clear_rx", "post_rx", "decide",
          "check_status", "complete"}

Level  == board.level    \* EDGX_IRQ_LEVEL_TRIG or EDGX_IRQ_EDGE_TRIG
Shared == board.shared

NapiTypeOK ==
  /\ board \in Boards
  /\ done \in [Rings -> 0..MaxArrivals] /\ raising \in [Rings -> 0..MaxArrivals]
  /\ stat \subseteq Irqs /\ mask \subseteq Irqs /\ edge \subseteq Irqs
  /\ isr \in [Lines -> SUBSET Irqs] /\ masked \subseteq Irqs
  /\ napi \in {"idle", "scheduled"} \cup Steps /\ missed \in BOOLEAN
  /\ used \in [Rings -> 0..Budget] /\ post \in BOOLEAN
  /\ enable \in [Rings -> Nat]
  /\ left \in 0..MaxArrivals

NapiInit ==
  /\ board \in Boards
  /\ done = [r \in Rings |-> 0] /\ raising = [r \in Rings |-> 0]
  /\ stat = {} /\ mask = Irqs /\ edge = {}
  /\ isr = [l \in Lines |-> {}] /\ masked = {}
  /\ napi = "idle" /\ missed = FALSE
  /\ used = [r \in Rings |-> 0] /\ post = FALSE
  /\ enable = [r \in Rings |-> 0]
  /\ left = MaxArrivals

-----------------------------------------------------------------------------
(* The hardware.                                                            *)

\* A frame was received into the receive ring, or transmitted from the other.
FrameDone(r) ==
  /\ left > 0 /\ left' = left - 1
  /\ done' = [done EXCEPT ![r] = @ + 1]
  /\ raising' = [raising EXCEPT ![r] = @ + 1]
  /\ UNCHANGED <<board, stat, edge, mask, isr, masked, poll, enable>>

\* One line for all: its level rises only if no other enabled bit was set.
Rises(i) ==
  /\ i \in mask /\ i \notin stat
  /\ Shared => stat \cap mask = {}

Raise(i) ==
  /\ stat' = stat \cup {i}
  /\ edge' = IF Rises(i) THEN edge \cup {i} ELSE edge

RaiseStatus(r) ==
  /\ raising[r] > 0
  /\ raising' = [raising EXCEPT ![r] = @ - 1]
  /\ Raise(r)
  /\ UNCHANGED <<board, done, left, mask, isr, masked, poll, enable>>

\* A bus error.
RaiseError ==
  /\ Err \notin stat /\ left > 0 /\ left' = left - 1
  /\ Raise(Err)
  /\ UNCHANGED <<board, done, raising, mask, isr, masked, poll, enable>>

-----------------------------------------------------------------------------
(* Interrupt handlers.                                                      *)

\* napi_schedule
Schedule ==
  /\ napi' = IF napi = "idle" THEN "scheduled" ELSE napi
  /\ missed' = (missed \/ napi # "idle")

Serves(l) == IF Shared THEN {i \in Irqs : l = "all"} ELSE Irqs \cap {l}

\* The handler of a line is called, and reads which interrupts to serve.
IsrEnter(l) ==
  LET due == stat \cap mask \cap Serves(l)
  IN  /\ isr[l] = {}
      /\ IF Level THEN due # {} ELSE edge \cap Serves(l) # {}
      /\ edge' = edge \ Serves(l)
      /\ isr' = [isr EXCEPT ![l] = IF Shared THEN due ELSE {l}]
      /\ UNCHANGED <<board, done, raising, stat, left, mask, masked, poll, enable>>

\* edgx_dma_tx_isr, edgx_dma_rx_isr: edgx_br_irq_disable, ...
IsrDisable(l, r) ==
  /\ r \in isr[l] \ masked
  /\ mask' = IF Level THEN mask \ {r} ELSE mask
  /\ masked' = masked \cup {r}
  /\ UNCHANGED <<board, hw, isr, poll, enable>>

\* ... napi_schedule.
IsrSchedule(l, r) ==
  /\ r \in isr[l] \cap masked
  /\ Schedule
  /\ isr' = [isr EXCEPT ![l] = @ \ {r}] /\ masked' = masked \ {r}
  /\ UNCHANGED <<board, hw, mask, used, post, enable>>

\* edgx_dma_err_isr schedules first, and clears the status.
IsrError(l) ==
  /\ Err \in isr[l] \ masked
  /\ Schedule
  /\ masked' = masked \cup {Err}
  /\ UNCHANGED <<board, hw, mask, isr, used, post, enable>>
IsrErrorClears(l) ==
  /\ Err \in isr[l] \cap masked
  /\ stat' = stat \ {Err}
  /\ isr' = [isr EXCEPT ![l] = @ \ {Err}] /\ masked' = masked \ {Err}
  /\ UNCHANGED <<board, done, raising, edge, left, mask, poll, enable>>

-----------------------------------------------------------------------------
(* edgx_dma_poll_rx                                                         *)

Goto(step) == napi' = step /\ UNCHANGED missed

PollStarts ==
  /\ napi = "scheduled"
  /\ used' = [r \in Rings |-> 0] /\ post' = FALSE
  /\ Goto("tx")
  /\ UNCHANGED <<board, hw, mask, isr, masked, enable>>

\* edgx_dma_process_tx and _rx, one frame
Process(r) ==
  /\ napi = (IF r = Tx THEN "tx" ELSE "rx")
  /\ done[r] > 0 /\ used[r] < Budget
  /\ done' = [done EXCEPT ![r] = @ - 1]
  /\ used' = [used EXCEPT ![r] = @ + 1]
  /\ UNCHANGED <<board, raising, stat, edge, left, mask, isr, masked, napi,
                 missed, post, enable>>

\* The budget is used up, or the ring is empty: then the status is cleared.
ProcessEnds(r) ==
  /\ napi = (IF r = Tx THEN "tx" ELSE "rx")
  /\ done[r] = 0 \/ used[r] = Budget
  /\ Goto(IF used[r] < Budget THEN (IF r = Tx THEN "clear_tx" ELSE "clear_rx")
                              ELSE (IF r = Tx THEN "rx" ELSE "decide"))
  /\ UNCHANGED <<board, hw, mask, isr, masked, used, post, enable>>

\* Mutant: the status is not cleared.
ClearNot(r) ==
  /\ napi = (IF r = Tx THEN "clear_tx" ELSE "clear_rx")
  /\ Goto(IF r = Tx THEN "post_tx" ELSE "post_rx")
  /\ UNCHANGED <<board, hw, mask, isr, masked, used, post, enable>>
\* edgx_br_clr_int_stat.  A bit that is set at the same time stays set.
Clear(r) ==
  /\ napi = (IF r = Tx THEN "clear_tx" ELSE "clear_rx")
  /\ Goto(IF r = Tx THEN "post_tx" ELSE "post_rx")
  /\ UNCHANGED <<board, done, edge, left, mask, isr, masked, used, post, enable>>
  /\ \/ stat' = stat \ {r} /\ UNCHANGED raising
     \/ /\ ~Level /\ raising[r] > 0
        /\ raising' = [raising EXCEPT ![r] = @ - 1]
        /\ stat' = stat \cup {r}

\* Process one more, to see whether the ring is empty.
PostProcess(r) ==
  /\ napi = (IF r = Tx THEN "post_tx" ELSE "post_rx")
  /\ done' = [done EXCEPT ![r] = IF @ > 0 THEN @ - 1 ELSE 0]
  /\ post' = (post \/ done[r] > 0)
  /\ Goto(IF r = Tx THEN "rx" ELSE "decide")
  /\ UNCHANGED <<board, raising, stat, edge, left, mask, isr, masked, used, enable>>

\* Return budget, and be polled again, if there may be more to do.
Decide ==
  /\ napi = "decide"
  /\ Goto(IF post \/ \E r \in Rings : used[r] = Budget THEN "scheduled" ELSE "check_status")
  /\ UNCHANGED <<board, hw, mask, isr, masked, used, post, enable>>

\* Mutant: without EDGX_DMA_EDGE_TRIG_WORKAROUND.
CheckStatusNot ==
  /\ napi = "check_status"
  /\ Goto("complete")
  /\ UNCHANGED <<board, hw, mask, isr, masked, used, post, enable>>
\* EDGX_DMA_EDGE_TRIG_WORKAROUND
CheckStatus ==
  /\ napi = "check_status"
  /\ Goto(IF stat \cap Rings # {} THEN "scheduled" ELSE "complete")
  /\ UNCHANGED <<board, hw, mask, isr, masked, used, post, enable>>

\* Mutant: the transmit interrupt is not enabled again.
CompleteForgetsTx ==
  /\ napi = "complete"
  /\ napi' = IF missed THEN "scheduled" ELSE "idle"
  /\ missed' = FALSE
  /\ enable' = IF missed THEN enable ELSE [enable EXCEPT ![Rx] = @ + 1]
  /\ UNCHANGED <<board, hw, mask, isr, masked, used, post>>
\* napi_complete_done: the function is polled again if it was scheduled meanwhile.
Complete ==
  /\ napi = "complete"
  /\ napi' = IF missed THEN "scheduled" ELSE "idle"
  /\ missed' = FALSE
  /\ enable' = IF missed THEN enable ELSE [r \in Rings |-> enable[r] + 1]
  /\ UNCHANGED <<board, hw, mask, isr, masked, used, post>>

\* edgx_br_irq_enable, at the end of the poll function
Enable(r) ==
  /\ enable[r] > 0
  /\ enable' = [enable EXCEPT ![r] = @ - 1]
  /\ mask' = IF Level THEN mask \cup {r} ELSE mask
  /\ UNCHANGED <<board, hw, isr, masked, poll>>

\* dma_flush_show for the receive ring, edgx_com_dma_tx_timeout for the others.
ProcessElsewhere(r) ==
  /\ done[r] > 0
  /\ done' = [done EXCEPT ![r] = @ - 1]
  /\ UNCHANGED <<board, raising, stat, edge, left, mask, isr, masked, poll, enable>>

-----------------------------------------------------------------------------
PollStep ==
  \/ PollStarts \/ Decide \/ CheckStatus \/ Complete
  \/ \E r \in Rings : Process(r) \/ ProcessEnds(r) \/ Clear(r) \/ PostProcess(r)

IsrStep(l) ==
  \/ IsrEnter(l) \/ IsrError(l) \/ IsrErrorClears(l)
  \/ \E r \in Rings : IsrDisable(l, r) \/ IsrSchedule(l, r)

NapiNext ==
  \/ \E r \in Rings : FrameDone(r) \/ RaiseStatus(r) \/ Enable(r) \/ ProcessElsewhere(r)
  \/ \E l \in Lines : IsrStep(l)
  \/ RaiseError \/ PollStep

NapiSpec == NapiInit /\ [][NapiNext]_napiVars

\* The hardware sets the status of a completed frame; handlers and the poll function
\* run when they are due and run on.
Fairness ==
  /\ \A r \in Rings : WF_napiVars(RaiseStatus(r)) /\ WF_napiVars(Enable(r))
  /\ \A l \in Lines : WF_napiVars(IsrStep(l))
  /\ WF_napiVars(PollStep)

NapiFairSpec == NapiSpec /\ Fairness

-----------------------------------------------------------------------------
\* Nothing is under way that could lead to a poll.
Resting ==
  /\ napi = "idle" /\ \A r \in Rings : enable[r] = 0 /\ raising[r] = 0
  /\ \A l \in Lines : isr[l] = {}
  /\ IF Level THEN stat \cap mask = {} ELSE edge = {}

\* No interrupt is lost between clearing the status, looking at the rings once more and
\* napi_complete_done: when everything rests, no frame is left in a ring ("interrupt
\* loss and ... stopped polling", edge_com_dma.c:606-613).
NoFrameForgotten == Resting => \A r \in Rings : done[r] = 0

\* The frame after that is not lost either.  When everything rests, masking in the
\* handlers and enabling after napi_complete_done are balanced, whatever they
\* overlap with; and the status is clear, without which there is no edge.
NextFrameInterrupts == Resting => Rings \subseteq mask /\ stat \cap Rings = {}

\* What the interrupts must preserve (edge_com_dma.c:574-628, edge_bridge.c:377-391).
NapiInv == NapiTypeOK /\ NoFrameForgotten /\ NextFrameInterrupts

\* Every frame in a ring is processed at last, by the poll function alone
\* (ProcessElsewhere has no fairness), in whatever order status, handlers and
\* poll function take turns.
FramesProcessed == \A r \in Rings : (done[r] > 0) ~> (done[r] = 0)

\* Reporting the whole budget to be polled again (edge_com_dma.c:599, 617) comes to an
\* end: without new frames, the poll function completes and stays idle.
PollRests == <>[](napi = "idle")

=============================================================================
