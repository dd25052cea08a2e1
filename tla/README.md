# TLA+ models of the TTTech TSN switch software

The repository holds the software around the TTTech DE-Switch ("edge") TSN
switch core: a Linux kernel driver (`tsn_sw_base.edge-lkm`), a command-line tool
with its library (`tsn_sw_base.tsntool`), adapters to three management systems
(sysrepo, netopeer, net-snmp) and a glue driver for the STM32MP25 (`st.stm32-deip`).
The core logic is in the kernel driver, and so are most of the hard
interleavings: user calls through sysfs and switchdev, work items, kernel timers,
interrupt handlers, the NAPI poll function and the switch itself act on the same
tables and registers. That is what most of these models are about; one is about the
threads of the sysrepo plugins, which reset in a datastore what the driver has done.

Paths below are relative to `src/tsn_sw_base.edge-lkm/` unless they start with
`src/`. `PROJECT.json` lists, for every definition that models code, the lines it
stands for.

Contents

1. The system: components, state, operations, interactions
2. The modules and how they correspond to the code
3. The runs: what each checks, its bounds, its fairness
4. Where the code departs from what it says of itself
5. What is proved
6. What is only model-checked, and what is not modelled
7. Plan
8. Running the tools

## 1. The system

### 1.1 Components that are modelled

**Gate scheduler** (`edge_sched.c`; schedule-specific part in `edge_st_fscr.c`).
*State*: per scheduler an administrative table that the user edits (control list,
its length, cycle time, base time), two operational tables that mirror the two
tables of the hardware, the flags `gate_enabled` and `conf_change`, the state
IDLE / PENDING / PENDING_DELAYED, the computed start and change times, an error
counter, a delayed work; in the hardware two tables of rows, a start time each
(only the low bits of the seconds), "can use" and "in use" bits and the MUX.
*Operations*: the sysfs writes (base time, cycle time, list length, list,
configuration change, gates on/off), expiry of the delayed work, the interrupt's
work, the hardware's swap. *Hard*: a change may be superseded, cancelled or fail
half way at any point of its way to the hardware, the hardware swaps on its own,
the interrupt comes late, and the start time is cut to a few bits.
*Correct if*: the hardware only ever runs whole tables the user asked for, not
before their time; driver state and hardware agree; no change is left pending for
ever; who depends on the schedule is told of the one that runs.

**Credit-based shaper** (`edge_fqtss.c`). *State*: per queue the transmission
selection algorithm, the administrative idle slope, the "addend", the register.
*Operations*: two sysfs writes, the notification by the gate scheduler. *Hard*:
the slope depends on the gate schedule, which is read under another lock, at
another time. *Correct if*: when all is quiet the register holds the slope that
algorithm, user and running schedule call for.

**Frame preemption** (`edge_preempt.c`). *State*: per port four flags, the
verification status, a kernel timer, the preemptible queues and their register;
one counter of attempts for all ports. *Operations*: three sysfs writes, link
changes, reception of a verify or response frame, the timer. *Hard*: no lock
covers the handlers; each reads flags at one point and acts on them at another.
*Correct if*: frames are preempted only on ports on which preemption is active;
the reported status agrees with the flags; a port that should be verified is, after
the right number of attempts.

**DMA transmit ring** (`edge_com_dma.c`). *State*: per queue a ring of descriptors,
shared with the hardware through the INIT bit, positions, count, frames; a fifo of
the devices that were stopped. *Operations*: enqueue (from the network stack and
from the preemption timers), release in the poll function, transmit watchdog.
*Hard*: several devices share a ring, one is woken per released frame, errors on
the way. *Correct if*: frames are released in order, once, after they were sent;
nobody is stopped for ever.

**DMA interrupts and poll function** (`edge_com_dma.c`, `edge_bridge.c`). *State*:
interrupt status, mask, NAPI's state, rings. *Operations*: interrupt handlers, the
steps of the poll function, the sysfs attribute `flush` and the watchdog, which
process the rings from elsewhere. *Hard*: status bits are cleared while frames
arrive; level- and edge-triggered lines, shared or not; a poll may start while the
end of the last one has not enabled the interrupts. *Correct if*: no frame is left
in a ring with nobody coming for it.

**Transmit timestamps** (`edge_com_ts.c`). *State*: per port a fifo of frames that
wait for their timestamps, a work item; in the switch a short fifo of timestamps.
*Operations*: transmission of a PTP event frame, interrupt, work item. *Hard*: the
two fifos get out of step when something fails; the switch delivers two bits of the
seconds. *Correct if*: a frame only ever gets its own timestamp, with the right
second; no timestamp is forgotten.

**Reception** (`edge_com_dma.c`, `edge_com_ts.c`). *State*: the receive ring with its
buffers; per port a fifo of timestamps in the switch. *Operations*: the poll function
takes a frame off the ring, looks for its timestamp, throwing away those in front,
hands the frame on and puts a new buffer into the ring; so does a read of the
attribute `flush`. *Hard*: timestamps and frames are lost separately; a buffer that
cannot be allocated is missing for good; two bits of the seconds. *Correct if*: no
frame gets another's timestamp or a wrong second; a loss ends when the ring has been worked
off; there is always a buffer.

**Stream filters** (`edge_psfp.c`). *State*: numbered filters with a pattern (stream
handle and priority, either may be a wildcard), and per stream and priority a row of the
hardware, the filter it holds, and its counter. *Operations*: definition and deletion of
a filter, reading its counters. *Hard*: patterns overlap, only the rows of the filter
that changed are rewritten, one by one, while frames are counted. *Correct if*: a row
holds the filter with the smallest number among those that match; counters continue.

**Frame replication and elimination** (`edge_frer.c`). *State*: sequence generation
functions, encodings and recovery functions, and the columns of the stream table they
are written to. *Operations*: some ten attributes that build a function piece by piece.
*Hard*: a function is written when it is complete, whatever came last; errors are
rolled back. *Correct if*: hardware and functions agree.

**Dynamic addresses** (`edge_br_fdb.c`, `edge_br_vlan.c`). *State*: the allocation of
VLANs to filtering databases (FIDs), their ports; a tree of addresses; what the Linux bridge
was told. *Operations*: a work item that reads the switch's table and notifies the
bridge, starting and stopping it, moving a VLAN to another FID, adding and removing ports.
*Hard*: three locks, taken in different orders, and steps before they are taken.
*Correct if*: the bridge knows what the switch keeps, and nothing else.

**Triggers of the sysrepo plugins**
(`src/tsn_sw_base.sysrepo-plugins/common/config_change.c`, `sched.c` of
ietf-interfaces, `stream_filter_gates.c` of ieee802-dot1q-bridge). *State*: the
datastore's gate-enabled and config-change, the driver's, a list of what was handled in
a transaction, a queue of lists to be reset, a helper thread. *Operations*: the callback
for CHANGE, ENABLED, DONE and ABORT, the helper's transactions, start and stop of a plugin.
*Hard*: the driver takes a change over while the transaction may still be refused; a trigger
must be reset after it is stored, in a transaction of its own; the plugin dies in between.
*Correct if*: driver and datastore agree; a trigger is taken over once; it is reset.

### 1.2 How they interact

    user (sysfs, tsntool)
      |            |                |
      v            v                v
    gate        shaper          preemption <------ link (phylib)
    scheduler --> (notify;        |     ^
      ^   |        asks for rate) |     | response frames
      |   v                       v     |
      |  hardware tables       DMA transmit ring <---- network stack, PTP
      |                           |     ^  \
    interrupt work                v     |   `--> transmit timestamps <- interrupt work
                               hardware |
                                  |     |
                                  v     |
                            DMA interrupts and poll function

* The scheduler calls the shaper (`edgx_fqtss_st_change`, under `sched->lock`); the
  shaper calls the scheduler for the rate (`edgx_st_get_trans_rate`, which takes
  it). `Scheduler` has the shaper's copy of the rates as the variable `fqtss`;
  `Shaper` has the scheduler reduced to its rates, flags and the order of its calls.
* Preemption timers send verify frames through the transmit ring without regard to
  stopped devices: `setup.direct` of `DmaTx`.
* The poll function releases frames of the transmit ring: the fairness `DmaTx` assumes of
  `ReleaseFrame` is what `NapiPoll` shows as `FramesProcessed`.
* The transmit path hands originals to the timestamp fifo before it maps the clone:
  `TsXmitMappingFails` of `TxTimestamp` is the mapping error of `DmaTx`.
* The poll function's turn through the receive ring is `Receive`; its ring is the queue
  of `DmaTxAbs` (the same functions), its schedule that of `NapiPoll`.
* The filters' gates run on the state machine of `Scheduler`, with other callbacks.
* Moving a VLAN (`edge_br_vlan.c`) calls `edgx_brfdb_update_vid2fid` (`edge_br_fdb.c`): both
  are in `AddrSync`.
* The plugins of `ConfigChange` write the attributes whose calls are `SetGateEnabled` and
  `SetConfigChange` of `Scheduler`. `ConfigChange` has the driver reduced to what a
  request does: it is taken over once gates and request are both set, and then withdrawn
  (`Settled`; `SchedulerAbs` says when it becomes effective).

### 1.3 The other components

| Component | State and operations | Modelled? |
|---|---|---|
| Stream identification, `edge_br_sid*.c` | streams and references of ports to them | no: see section 7 |
| Static addresses, `edge_br_fdb.c` | rows found in and written to the switch under one lock | no: see section 7 |
| MSTP tables, `edge_br_vlan.c` | FIDs, MSTIs, forwarding states | no: see section 7 |
| Stream gates, `edge_psfp.c` | the state machine of `edge_sched.c` with other callbacks | no: `Scheduler` has the machine |
| Statistics, `edge_stat.c` | 32-bit hardware counters collected into 64-bit ones by a work item | no: see section 7 |
| Legacy scheduler, `edge_st_fsc.c` | the build variant `sched=fsc`: the same state machine (1107-1225), without stream gates | no: superseded |
| Ports, links, `edge_port.c`, `edge_link.c`, `edge_mdio.c` | network devices, phylib glue | no: mostly calls into the kernel; the calls of the bridge that add and remove ports are in `AddrSync` |
| Clocks, `edge_time.c` | PTP clock operations | no: an input of other models |
| Bridge core, buses, `edge_bridge.c`, `edge_platform.c`, `edge_pcie*.c`, `altera_pio.c` | probing and removal; the interrupt registers are in `NapiPoll` | no |
| xMII communication, `edge_com.c`, `edge_com_xmii.c` | management tags | no: stateless |
| Access control, utilities, `edge_ac.c`, `edge_util.h` | a table read once; macros | no |
| The other leaves of the sysrepo plugins | each callback translates one value into one call of libtsn | no: no state |
| netopeer modules, net-snmp modules | translation of management data | no |
| tsntool and libtsn | issue the user calls of the models | no |
| STM32 glue driver | clocks and resets in a fixed order | no |

### 1.4 Hazards

The hazards the models are about, at their lines and with the properties that would catch
them, are listed in `PROJECT.json`. Further ones, which no property of a run covers and which
are mostly about memory and removal:

* `edge_sched.c:1559`: the scheduler is freed without cancelling its delayed work.
* `edge_sched.c:1408`: a list with a bad entry is rejected after it was installed, and can be
  submitted (modelled, but nothing says that it should not be so).
* `edge_st_fscr.c:480`: the last row is repeated without the hold bit.
* `edge_fqtss.c:135`: nothing recomputes the slope when the speed of the link changes.
* `edge_preempt.c:456`: two threads that make different queues preemptible read and write the
  same word; one choice may be lost. `:595`, `:721`: frames that are never freed.
* `edge_com_dma.c:253`: queues are released without waiting for the hardware; `:401`, a frame
  whose padding failed is freed and also returned to the stack; `:411`, a frame is read after
  the timestamp fifo may have freed it.
* `edge_bridge.c:399`: with one edge-triggered line for all interrupts, an interrupt that
  rises while another keeps the line high gives no edge. `NapiPoll` leaves frames in the rings on such
  a board; whether there is one is not in the source (`edge_platform.c:185` allows it).
* `edge_com_ts.c:203`: if frames leave in another order than they were queued, the search drops
  the ones overtaken.
* `edge_frer.c:987`: a stream's port mask is read from a freed node; both ways to clear the
  row do the same then.
* `config_change.c:256`: the lists of the queue are freed, their elements are not.
  `ietf-interfaces.c`: when the initialisation fails after subscriptions were made, the list
  they were given is freed and they stay. `sched.c:2115`, `:2145`: a port that does not
  support schedules is closed twice.

## 2. The modules and how they correspond to the code

| Module | Models | Used by |
|---|---|---|
| `Scheduler` | gate scheduler, its delayed work, interrupt and hardware | `MCScheduler`, `SchedulerProofs` |
| `SchedulerAbs` | what a scheduler promises its user | `Scheduler` (`Abs`) |
| `SchedulerProofs` | theorems about `Scheduler` and `Shaper` | |
| `Shaper` | one queue's shaper | `MCShaper`, `SchedulerProofs` |
| `Preempt` | preemption of all ports | `MCPreempt`, `PreemptProofs` |
| `PreemptProofs` | theorems about `Preempt` | |
| `DmaTx` | one transmit queue | `MCDmaTx`, `DmaTxProofs` |
| `DmaTxAbs` | a fifo of frames with a fifo of waiting devices | `DmaTx` (`Abs`) |
| `DmaTxProofs` | theorems about `DmaTx` and `NapiPoll` | |
| `NapiPoll` | DMA interrupts and poll function | `MCNapiPoll`, `DmaTxProofs` |
| `TxTimestamp` | transmit timestamps of one port | `MCTxTimestamp`, `TimestampProofs` |
| `TimestampProofs` | theorems about `TxTimestamp` and `Receive` | |
| `Receive` | the receive ring, and the receive timestamps of one port | `MCReceive`, `TimestampProofs` |
| `Psfp` | the stream filters and their rows | `MCPsfp`, `PsfpProofs` |
| `PsfpProofs` | theorems about `Psfp` | |
| `Frer` | sequence generation, encoding, recovery | `MCFrer`, `FrerProofs` |
| `FrerProofs` | theorems about `Frer` | |
| `AddrSync` | dynamic addresses, VLANs and FIDs | `MCAddrSync`, `AddrSyncProofs` |
| `AddrSyncProofs` | theorems about `AddrSync` | |
| `ConfigChange` | triggers of the sysrepo plugins | `MCConfigChange`, `ConfigChangeProofs` |
| `ConfigChangeProofs` | theorems about `ConfigChange` | |

Conventions. Variables and actions bear the code's names where there are any. What the
code does in one critical section is one action, unless something that does not take
the lock can act in between. An action of the hardware is modelled from what the driver
expects of it, and is marked external in `PROJECT.json`. A definition marked
"mutant" is a variant with a plausible bug; no specification uses it. Each
property has one, listed in `PROJECT.json`: put in the place of the original, it
violates the property under the configuration of its run. In most modules the invariant
`Inv` is the conjunction of the types and of the named invariants that stand before it.
Variables called history or bounds in the comments have no counterpart in the code.

**Scheduler.** `lock` is `sched->lock`, `pc` where its owner stands. A user call is one
step if it only edits the administrative table; a call that goes through
`edgx_sched_stm_cfg_change` takes the steps `CfgCancel`, `CfgReject` or `CfgCalcTime`,
`CfgWriteRows` or `CfgWriteRowsFails`, `CfgSubmit`, between which the hardware, time
and the interrupt handler move. The rows are written one by one in the code; since nobody
reads the table in between (this is what `LiveTablesUntouched` says), they are written
in one step, and after a failed transfer any prefix has been. `CancelPending` is
`cancel_delayed_work_sync`: it is disabled while the work runs, and the work cannot end
without the lock. Rates of queues are represented by the table they were computed from,
so the properties tell rates apart exactly by schedule. Time is counted in ticks;
`SecRange` is the range of the hardware's seconds register, and the hardware takes a
start time in the nearer half of its circle for the future.

**Shaper.** `discipline` is chosen initially and says what the actors may do: overlap;
act while a schedule is pending; disable the gates. The scheduler's half makes the calls
that `Scheduler` makes, with the rates that are visible at that moment. As in `NapiPoll` below, the
standard definitions have names of their own (`ShaperInit`, `ShaperSpec`, ...). A rate is a
numerator and a denominator that are not reduced, as in the code: with the billion every numerator
has, their product with a slope overflows 64 bits in ordinary schedules. `ProdMax` stands for that
limit and `Overflows`, `Whole` and `Scaled` for what `edge_fqtss.c:138-151` does beyond it; a
division by zero there gives 0 (`Calc`) or ends the thread (`Oops`).

**Preempt.** Each handler is an event (flags change), `Evaluate` (the flags are read),
`Apply` (state and timer), `SetTx`, `WriteTx`. `Overlap` says whether handlers of
different actors may interleave. Whether the partner answers is external. `made` is history: the
attempts of a port since its timer was started or it was declared failed, whatever happens to
the counter `verCnt`, which all ports share and any of them resets.

**DmaTx.** A frame is named by its device. `Xmit` is `edgx_com_dma_xmit` with
`edgx_dma_enq` under `q->lock`, `ReleaseFrame` one turn of the loop of
`edgx_dma_process_tx`. `setup` is chosen initially and says what may happen around the ring:
transmissions on stopped devices, failing mappings, the watchdog.

**NapiPoll.** Each access to the status register, the mask or NAPI's state is a step.
`done` counts frames in the rings. `Enable` is separate from `Complete`, since
`napi_complete_done` lets the next poll begin on another CPU. Its standard definitions have names of
their own (`NapiInit`, `NapiSpec`, ...), so that `DmaTxProofs` can extend it together with `DmaTx`.

**TxTimestamp.** A frame is a number, by which timestamps match (the header fields that the
code compares). `setup` is chosen initially: what may fail, the kind of interrupt line, how many
frames are sent and may be under way, and the second the clock starts with. A timestamp is read
within a second ("assume max. 1 s has passed" is the code's assumption).

**Receive.** A thread that processes the ring (`at`) takes the steps of
`edgx_dma_deq_rx`: off the ring, then for a PTP frame the time, the status and one
timestamp after the other, then to the port, then a new buffer, or none. `Flush` adds the
second thread. `ptp`, `taken`, `unstamped`, `ahead` and `delivered` are history: which frames
are PTP frames, when their timestamps were taken, whose did not fit, and behind whom the others
arrived. What it has in common with `TxTimestamp` bears the prefix `Rx`.

**Psfp.** A filter is named by its number. `AddFilter` and `DeleteFilter` are the user's writes
up to the loop over the rows; then `WriteRow` and `AccountRow` are the two halves of a turn of that
loop, between which frames are counted (`Frame`, `OversizedFrame`). A row is chosen from the same four
candidates as in the code. `entry` keeps the filter that is being deleted, as the code does
until the loop has ended.

**Frer.** Every call holds `f->lock` and is one action, with its roll back if it fails.
The three kinds of function use columns of their own and share no state: `area` says
which of them a behaviour is about. `FreedKept = FALSE` makes what is read from a freed list
element arbitrary, and `SharedIn` says for which kinds users list a stream in two functions, so
that the hardware refuses it to the second (`-EBUSY`) and the call is rolled back. The run `frer`
has both: `GenFollows` does not hold then, and `GenPartsOnly` says that it is lost about a
stream only by deleting a function that has streams (another that lists the
stream, if freed memory keeps its contents), or by adding a stream to a function again that is on its
list, when another of its streams was taken over meanwhile.

**AddrSync.** A step ends where a lock is taken or given back, or a register of the
switch is read. `work`, `stop` and `move` say where the work item, the user's stop and the user's
move stand; `Overlap` says whether a stop, and calls of the bridge, may overlap with the
others. The bridge's answer to a notification is `bridge`, what it was told last.

**ConfigChange.** `tx` is sysrepo's transaction, `todo` the changes it has yet to report to
the callback, one `HandleNode` each, in any order. `Store` and `Done` are sysrepo's; `Done` calls
`config_change_list_enqueue`. `life` is how far the plugin's thread is in
`sr_plugin_init_cb` or `sr_plugin_cleanup_cb`, `helper` where the helper thread is. The two plugins
differ in what they do on errors only (`setup.plugin`); each has a list of its own, and
they share the helper, which serves one plugin here. `Crash` is the death of the process.
`owed` is history: the triggers that were stored and not given to the driver.

## 3. The runs

Every run explores its instance completely. The bounded counters (calls, events, frames, time)
make most of them finite, so the system may come to rest: those configurations have
`CHECK_DEADLOCK FALSE`. `MCDmaTx.cfg`, `MCFrer.cfg` and `MCPsfp.cfg` have no such bound and
check for deadlock. Symmetry is used for `Frer` only, where streams, functions and ports are
interchangeable and no liveness is checked.

### 3.1 What they check

| Run | Properties | Distinct states |
|---|---|---|
| `sched_safety` | `Inv`, `PendingAccounted`, `NothingLost`, `LiveTablesUntouched`, `StartTimes`, `ImplementsAbs`. One user, every call, failing transfers, lists with bad entries, level-triggered: the mirror of a live table agrees with it, live tables are never written, state and hardware agree, no swap interrupt and no request is lost, no configuration takes effect early, the reported change time is the time of the swap up to the register's range, and the whole implements `SchedulerAbs` | 1,625,173 |
| `sched_nominal` | `ShaperFollows`, `PendingEnds`, `OnlyWorkBlocks`. Two users submit usable tables, hold them back, supersede them and switch the gates, edge-triggered, nothing fails: the shaper follows the running schedule, a pending change is reported in the end, and nothing blocks a call or a change that is held back but the wait for the delayed work under its lock | 102,393 |
| `preempt_serial` | `Inv`, `RegisterFollows`, `FailureEarned`, `VerificationEnds`. One port, or two that share the counter, handlers one by one, frames may be lost: register, status and timer agree with the flags, no port is declared failed before all attempts were made, verification completes, the timer rests | 94,235 |
| `shaper` | `ShaperInv`, `SlopeFollows`. Two users: the register follows the algorithm in all disciplines, the slope follows the schedule in the orderly one, to the fraction an overflowing product loses | 767,954 |
| `dma` | `Inv`, `StoppedIffPending`, `ImplementsAbs`, `StoppedWakes`. Three devices, in one setup with everything that can go wrong, in another with nothing: the ring is consistent and implements `DmaTxAbs`; without faults, stopped means waiting, and a stopped device is woken | 160,616 |
| `ts` | `Inv`, `StampExact`, `StampsArrive`. In one setup cloning and mapping may fail and fifos overflow: a completed frame has its own, exact timestamp, none stays in the switch. In the other nothing fails: fifo and switch are in step, every timestamp arrives | 305,376 |
| `napi` | `NapiInv`, `FramesProcessed`, `PollRests`. Level-triggered shared and edge-triggered separate lines: no frame is forgotten, the next one interrupts, all are processed, polling ends | 126,530 |
| `rx` | `RxInv`, `RxStampExact`, `LossHandedOn`. Lost frames, full fifos, failing allocations: a timestamp is a frame's own and exact, each search leaves fifo and ring in step, a lost timestamp costs only frames that arrive before the loss has been noticed theirs | 3,916,842 |
| `psfp` | `TypeOK`, `RowsFollow`, `CountersContinue`. Three filters over two streams and two priorities, with every pattern: rows, mirror and counters are right, also between two writes | 440,316 |
| `frer` | `Inv`, `EncFollows`, `GenPartsOnly`. Two streams, functions and ports in every order of calls, also for users who list a stream twice: lists, masks and the columns of the encoding agree, no stream is eliminated for a function that is gone, and the lists and rows of sequence generation part in two cases only | 18,561 |
| `addr_sync` | `NoDangling`, `Inv`, `BridgeFollows`. Six events of the environment against the work: nothing dangles, a stop withdraws everything, the bridge knows in the end what the switch keeps | 191,112 |
| `config_change` | `Inv`, `TakenOnce`, `HelperServes`. Two instances, both plugins, faults, refused changes, restarts: driver and datastore agree between transactions, triggers are taken over once and reset, stopping ends | 372,407 |

### 3.2 Bounds and why they are enough

* *Scheduler.* Two usable tables, of one and two rows, with a bad entry and an overlong
  list among the writes; `MaxCycle` 2, delays of up to 2, advance 1 and a register of
  8 or 16 seconds keep the proportions 32 : 64 : 256 of the code. Five calls are
  enough to submit a change, let it run, submit the next and supersede or cancel it;
  calls are made up to time 4 and time runs to 6, so every start time that is submitted is reached.
  `sched_nominal` starts from a table within reach or from one that is held back (base times 1
  and 5) and has four calls up to time 3: enough for a call to find the delayed work armed, to
  find it running, and to supersede a change the hardware has. Its users do not disable the
  gates while the hardware has a change, and once one was within reach none is held back:
  otherwise `ShaperFollows` does not hold (section 4).
* *Shaper.* Three slopes, one beyond the speed of the link; gates open for a part of the cycle, for
  longer than it, or never. The product of the larger slope and of three of the rates exceeds
  `ProdMax` (2^64 - 1 in the code), with a quotient that has a fraction, that is below 1 and divides
  the open time evenly, and that does not (a division by zero); the other products fit. Scaled
  slopes exceed `BitRange` (2^32) in one further configuration only (section 4). Seven calls.
* *Preempt.* Three attempts as in the code, four writes, two link changes: enough to be
  enabled, verified, lose the link and be verified again. Two ports where they share
  something, the counter: `preempt_serial` has one port with all of that, or two, of which `p2` is
  enabled first, and then `p1` is enabled or `p2` disabled, while `p1` may lose its link once: a
  port starts, fails or stops while the other counts. One queue, as the bits of queues are independent.
* *DmaTx.* Four descriptors wrap the ring many times (nothing bounds the number of frames);
  three devices are enough for two to wait and one to take the place. The theorems of
  section 5 hold for any number.
* *NapiPoll.* A budget of two and three frames: a budget that is used up, one that is
  not, and a frame for each interesting moment in between. On an idle system the next
  frame is again the first.
* *TxTimestamp.* Fifos of two overflow with three frames; `SecRange` 4 is the code's;
  five seconds wrap it.
* *Receive.* A ring of two buffers and a fifo of two timestamps, both of which five frames
  overflow; `SecRange` 4 is the code's. A timestamp may wait two seconds: with
  `MaxAge < RxSecRange - 1` two bits are enough, and the poll function is never later than that.
* *Psfp.* Two streams and two priorities give all four kinds of pattern, more than
  once; three filters are a best one, a next one and another that comes or goes. A counter of three
  values wraps; frames of one row are enough, since rows share nothing but the filters.
  Nothing bounds the number of calls. Section 5 has it for any number of all these.
* *Frer.* Two of everything: a stream in one function or another or in both, a function's first
  and last stream, one applied before another that is refused. Nothing bounds the number of calls.
* *AddrSync.* One address in two FIDs, two VLANs, two ports; six events are a station that is
  learned, moves and ages, and three calls. `NoDangling` is proved for any number.
* *ConfigChange.* Two instances, since a list has several and both leaves of each; two
  changes, so that one meets the reset of the other; two starts. A change that waits for its
  callback when the plugin is stopped has ended before the plugin starts again.
  Section 5 has the safety properties for any number.

### 3.3 Fairness

User calls, link changes, losses, the watchdog and the network stack are never
assumed to happen. Assumed are: the owner of a lock, a queued work item, an enabled interrupt
handler, an armed timer that expires and the poll function run on (the kernel's
scheduler and timers); the hardware transmits, swaps tables and sets status bits;
time passes. In `Preempt` strong fairness is used for events that compete for the
handlers' turn (`RcvResponse`, `TimerFires`), and for the link partner, which answers
if it is asked again and again: a link on which every verify frame is lost cannot be
verified. In `DmaTx`, that released frames are taken out is `NapiPoll`'s `FramesProcessed`.

In `AddrSync` the work, a stop, a move and a call of the bridge run on once begun (weak fairness);
the user's stop gets the VLANs' lock strongly fairly, since the kernel's mutexes hand
over to a waiter that has waited for long, and the work gives the lock back each time. In
`ConfigChange` the callback, sysrepo's storing and reporting, the helper thread and
`pthread_join` run on. `HelperServes` speaks of orderly behaviours only, in which the
plugin subscribes after its helper has reached the condition, and stops while the helper waits;
nothing in the code sees to that, and section 4 shows what happens otherwise.

## 4. Where the code departs from what it says of itself

The following configurations are not among the runs of `PROJECT.json`; TLC finds the
named property violated in each. They show where a property of section 3 needs the
restriction its run has, or that a stronger one does not hold. A file with several properties
or instances has the others in its comments, to be checked one at a time.

| Configuration | Property | What happens |
|---|---|---|
| `MCSchedulerHeldBack.cfg` | `DelayedSubmitted` | `edgx_sched_stm_cfg_change` clears `conf_change` at `edge_sched.c:1050` also after arming the delayed work. When the delay expires, `edgx_sched_stm_pending_delayed` calls the same function, which returns at once for want of a request: a change held back, "waiting to be submitted to HW" (`edge_sched.c:116`), is never submitted |
| | `CallsReturn` | `cancel_delayed_work_sync` is called with `sched->lock` held (`edge_sched.c:1018`, `:1083`) and waits for a work that takes the lock at `:1096`. `OnlyWorkBlocks`, in `sched_nominal`, has this as its exception |
| `MCSchedulerLostNotify.cfg` | `ShaperFollows` | A request arrives between the hardware's swap and the interrupt's work (`edge_sched.c:1014`): the state becomes IDLE or PENDING for the next table, and the swap is never notified |
| `MCSchedulerStaleRate.cfg` | `ShaperFollows` | The rates are overwritten when a change is prepared (`edge_st_fscr.c:498`); if it is cancelled, the next notification hands them out for the schedule that went on |
| `MCSchedulerWrap.cfg` | `ReportedExactly` | `edgx_sched_fix_cc_time` subtracts reduced seconds (`edge_sched.c:957`): across a wrap the reported time is off by the register's range |
| `MCShaperViolations.cfg` | `SlopeAlwaysFollows` | A slope written while a schedule is pending is scaled for that schedule (`edge_fqtss.c:196`); with gates disabled the rate is 1/1, for which the addend is left scaled as it is (`:132`); the scaled slope is stored in 32 bits before it is limited (`:154`); if slope times numerator is beyond 64 bits, the quotient is taken first and loses its fraction (`:141`), and for a gate that is open longer than the cycle lasts, the slope is left unscaled, or 0 is divided by 0 (`:150`); `tsa_tbl_write` stores an addend it read before taking the lock (`:306`); a schedule takes effect between reading the rate and writing the addend (`:264`) |
| `MCPreemptOverlap.cfg` | `RegisterFollows` | Two handlers overlap in `preempt_set_tx` (`edge_preempt.c:143`): the older decision is written last |
| | `VerificationDue` | The timer is found active while its handler is about to stop (`edge_preempt.c:537`): the port is not verified |
| | `StatusTruthful` | Two handlers read the flags and set the status in a different order (`edge_preempt.c:545`) |
| `MCPreemptClaims.cfg` | `AttemptsCounted` | With two ports: the counter of attempts is a static variable (`edge_preempt.c:605`), shared by the timers of all, so that a port is declared failed before it has made its own. `FailureEarned` is what remains true |
| | `PartnerVerified` | A response received before the link failed verifies the next partner (`edge_preempt.c:717`) |
| `MCTxTimestampOverrun.cfg` | `StampComputed` | Nanoseconds beyond the second with seconds 3 make the seconds 4, which match no time (`edge_com_ts.c:101`): the timestamp is lost |
| `MCReceiveLoss.cfg` | `OnlyOwnStampLost` | A frame whose timestamp did not fit into the fifo takes those behind it away (`edge_com_ts.c:254`) |
| | `StampLossLimited` | and not only those the fifo holds then: each search that empties the fifo in vain takes more time, and the timestamps of frames that arrive meanwhile |
| | `NeverStarved` | Buffers that cannot be allocated are never replaced (`edge_com_dma.c:528`): in the end nothing is received |
| `MCReceiveFlush.cfg` | `RxInOrder` | A read of the attribute `flush` (`edge_com_dma.c:849`) hands on a frame after the poll function has handed on the next |
| `MCPsfpBlocked.cfg` | `BlockedIsOwn` | `flt_tbl_read` (`edge_psfp.c:1700`) reports the bit of the row, which may hold another filter |
| | `BlockStands` | An update of a row writes the user's value over the bit the hardware has set (`edge_psfp.c:586`) |
| `MCFrerViolations.cfg` | `GenFollows` | The handle in a freed element says which row is disabled (`edge_frer.c:531`); or two functions share a stream. These are the two cases `GenPartsOnly` leaves |
| | `RecActivated` | When a recovery function becomes complete, the rows are tested with the stream of this call only (`edge_frer.c:1286`; `:1283` says all are written) |
| | `RecConfigured` | Parameters changed while no stream is listed are not written (`edge_frer.c:1260` says they can be overwritten at any time) |
| `MCAddrSyncViolations.cfg` | `NodesAlive` | A stop walks from a node it took before it cancelled the work (`edge_br_fdb.c:808`), which the work has freed. (A move takes its node before the lock, too, but is safe: `MoveNodeAlive`, section 5.4) |
| | `StopWithdraws` | and entries inserted before that node are left |
| | `BridgeCallsReturn` | The notifiers take rtnl with `v2f_lock` held (`edge_br_fdb.c:687`), calls of the bridge the other way round (`edge_br_vlan.c:532`): deadlock |
| | `NoDanglingEver` | Addresses of a VLAN that lost its last port do not "eventually age out": they are withdrawn in the VLANs the FID still has |
| | `PortFollows` | A station that moves to another port is not announced there |
| `MCConfigChangeViolations.cfg` | `FollowsDespiteRefusals` | A change that another callback refuses has been given to the driver, and stays there (`sched.c:2059`) |
| | `FollowsDespiteFaults` | `psfp_config_change_cb` reports success when a write fails (`stream_filter_gates.c:2266`) |
| | `ResetOwn` | A reset that comes late withdraws the request the user has made since |
| | `OwedTaken` | A start resets triggers the driver was never given (`sched.c:2231`): set while the plugin is down, they are lost |
| | `StopAlwaysReturns` | The helper waits without looking at `users` or the queue (`config_change.c:386`): signalled before it waits, it never ends, and a list may stay in the queue |

## 5. What is proved

TLAPS checks the theorems of eight modules, some 12,500 obligations in all. They hold for every
value of the constants under the named assumption of the module (`SchedAssumption`,
`DmaTxAssumption`, ...), which gives the types of the constants and, where the code has such, a
minimum advance of at most the maximum delay, a seconds register wider than twice
that delay, a ring of at least two descriptors.

### 5.1 `SchedulerProofs`

| Theorem | Statement |
|---|---|
| `SchedInvHolds` | `Spec => []SchedInv` |
| `InvCorrect` | `Spec => []Inv` (types and `Mirror`) |
| `PendingCorrect` | `Spec => []PendingAccounted` |
| `LiveTablesCorrect` | `Spec => LiveTablesUntouched` |
| `NothingLostCorrect` | `Spec => []NothingLost` |
| `StartTimesCorrect` | `Spec => StartTimes` |
| `ShaperFollowsCorrect` | `Spec /\ [][Patient]_vars => []ShaperFollows` |
| `SchedulerImplementsAbs` | `Spec => ImplementsAbs` |

`Mirror` alone is not inductive: a table becomes live when the lock's owner submits
it, so the invariant has to say what the owner has written by then. `SchedInv` is
`TypeOK`, `Mirror` and nine parts:

* `LockInv`: who stands in the middle of a call owns the lock. Hence there is one.
* `BusyInv`: from the cancellation on, nothing is pending in driver or hardware, so
  the hardware cannot swap and `FreeTab` stays the same table until it is submitted.
* `SubmitInv`: the table being submitted is usable and, before the submission, written
  and mirrored completely; it cannot be edited, because the lock is held.
* `PendInv`: at most one table is handed over, the one not in use, and only in state
  PENDING.
* `TimerInv`: the delayed work is under way exactly in state PENDING_DELAYED.
* `GateInv`: the MUX follows the flag, except between the two steps of "gates off".
* `RequestInv`: a request is being dealt with by the lock's owner, or kept for enabled gates.
* `SwapInv`: a swap the state machine has not seen is on its way to the handler, whoever
  holds the lock. With edges this needs that a status bit that is set has an edge before it,
  latched or queued: the next swap raises none.
* `StartInv`: a start time is submitted within the hardware's reach, and stays so until it
  has come; after the swap the register of the running table holds the time of it.

Each part has a lemma that a step preserves it, one step of proof per action or group
of actions that disturb it. `PendingAccounted` follows from `LockInv`, `PendInv` and `GateInv`;
`LiveTablesUntouched` from `BusyInv` and the lemma that `FreeTab` is not in use. `NothingLost`
is `RequestInv` and `SwapInv` at the moments in which the lock is free.

`StartTimes` rests on a few lemmas about remainders: one is unique (`ModUnique`), a time less
than the range ahead is recognised from it (`ModAhead`), which is why a start time may be
handed over without its upper bits, and only within reach (PENDING_DELAYED); and the driver's
correction gives the reported time the remainder of the swap's (`ModShift`).

`ShaperFollows` is false in general (section 4: `MCSchedulerLostNotify.cfg`,
`MCSchedulerStaleRate.cfg`), and its run restricts the calls (section 3.2). What it needs is
`Patient`: nobody asks for a change, or disables the gates, while a submitted one is still to be
reported, which a user can see from the attribute `config_pending`. Then no submitted change is cancelled
(`PatientInv`), so that the rates are always those of the table that was submitted last
(`RateInv`), and the shaper has those of the running one, but between a swap and its interrupt's
work (`FollowInv`). Failures, requests withdrawn, edits, changes held back and either kind
of interrupt make no difference.

The refinement is proved step by step (`AbsStep`): an edit of the administrative table, a
cancellation (of one table or none, by `PendInv`), a submission (by `SubmitInv` the hardware
has the whole table as the user left it), the swap (not early, by `StartInv`) and a new plan are
steps of `SchedulerAbs`; all others leave its variables alone.

The shaper (`Shaper`):

| Theorem | Statement | Assumes in addition |
|---|---|---|
| `ShaperInvAlways` | `ShaperSpec => []ShaperInv` (types, `RegisterFollowsTsa`) | |
| `SlopeFollowsAlways` | `ShaperSpec => []SlopeFollows` | `SlopesFit` |

`ShaperInv` is inductive as it stands, in every discipline: whoever writes the addend
writes the register in the same critical section. `SlopeFollows` needs to know what is under way
(`SlopeInv`): the handler that has read the rate has read that of the running schedule, and the value
it is about to write is what the code stores for that rate (`Stored`). For that the rate the
scheduler hands out has to be that of the running schedule (`ScheduleInv`), which is why the
theorem, like the property, is about the orderly discipline. What is stored is what is due
unless the product overflows (`StoredFollows`); then a lemma about the two orders of
multiplication and division (`DivideFirst`) gives at least half of it and at most all. The
property leaves out an overflow for a gate that is open longer than the cycle lasts
(`Divides`): there the code does not scale at all, or divides by zero. `SlopesFit` says that no
scaled slope within the link's speed is beyond 32 bits. The code does not see to that
(`edge_fqtss.c:154`); without it the slope is wrong, as TLC shows (section 4).

### 5.2 `DmaTxProofs`

| Theorem | Statement | Assumes in addition |
|---|---|---|
| `RingAlwaysConsistent` | `Spec => []Inv` (types and `RingConsistent`) | |
| `QueuingErrorNever` | `Spec => []NoQueuingError` | |
| `WakersAlwaysSuffice` | `Spec => []WakersSuffice` | the fifo is not larger than the ring |
| `StoppedAlwaysPending` | `Spec => []StoppedIffPending` | finitely many devices, not more than the fifo's places |
| `RingImplementsQueue` | `Spec => ImplementsAbs` | |

`Inv` is inductive as it stands: `Dist` measures a position from the dequeue position, and
one lemma each shows what enqueueing, transmission and release do to it. For `StoppedIffPending` the
invariant `WaitInv` also counts: there are as many stopped devices as entries in the fifo,
so that there is room for the next one. The refinement maps the ring to the sequence of its
frames (`Frames`), and shows that enqueueing appends and release takes the head.

`WakersSuffice` speaks of setups without mapping errors, `StoppedIffPending` of those without
direct transmissions and watchdog: a device the watchdog woke is still in the fifo.
`NoQueuingError` and `WakersSuffice` are proved, and not among the properties of the runs.
The assumptions hold in the code for the sizes (16 places, 255 frames; not in a build with
`EDGX_COM_DMA_DBG`, whose ring has 16 descriptors).

The interrupts and the poll function (`NapiPoll`):

| Theorem | Statement | Assumes in addition |
|---|---|---|
| `PollInvHolds` | `NapiSpec => []PollInv` | no board with a single edge-triggered line |
| `NapiInvAlways` | `NapiSpec => []NapiInv` (types, `NoFrameForgotten`, `NextFrameInterrupts`) | the same |

`NapiInv` speaks of moments in which everything rests, and says nothing of how it came to that.
`PollInv` does: an interrupt that is masked is still to be served, or the poll function is
at work, or about to enable it (`MaskInv`); a frame that no status bit announces is one the
poll function has yet to look at, or has seen, or for which its budget was used up (`LookInv`); and on
edge-triggered lines a status bit that is set has an edge, or the poll function has yet to look
at the status (`EdgeInv`), which is what the workaround at `edge_com_dma.c:606` adds. It covers
level-triggered lines of either kind; with a single edge-triggered line `NapiInv` is false (section 1).

### 5.3 `PsfpProofs`

| Theorem | Statement |
|---|---|
| `TypeCorrect` | `Spec => []TypeOK` |
| `RowsAlwaysFollow` | `Spec => []RowsFollow` |
| `CountersAlwaysContinue` | `Spec => []CountersContinue` |

The code never looks at all filters: it picks a row's filter from four candidates, the first
filters of the four patterns that cover the row. `EffSubIsEffective` shows that the smallest of them is the
smallest of all that match. `RowsInv` adds to the types what holds while rows are rewritten
(`UpdateInv`): those that wait have the filter they had before the change (`Before`), so that
comparing `cur_sub` with the filter that changed tells whose counter moves; the others are
up to date (`RestInv`). The counters need that a filter that does not have its row keeps a
sum, one that has it an offset, modulo the counters' width (`ModDiff`, `ModNext`).

### 5.4 `AddrSyncProofs`

| Theorem | Statement |
|---|---|
| `TypesAlways` | `Spec => [](TypeOK /\ OwnerInv)` |
| `NoDanglingAlways` | `Spec => []NoDangling` |
| `MoveNodeAlive` | `Spec => [](move = "notify" => moveFrom \in Entries \cup {None})` |
| `InvAlways` | `Spec => []Inv` (types, `NodesAlive`, `StopWithdraws`), if `Overlap = FALSE` |

`NoDangling` is about moments in which the VLANs' lock is free. The invariant `AddrInv` is
the types and: who owns the lock (`OwnerInv`); at all times, what the bridge was told of a
VLAN belongs to an entry of its home, the FID it is in or is being moved from (`Told`); and an
entry that was announced is not before the node at which a move starts its walk
(`ToldFrom`), although that node was taken before the lock: the work may have inserted
entries before it, but needs the VLANs' lock to announce them; and that node is not freed
(`MoveInv`). All of `AddrInv` holds with overlapping calls too (`Overlap`).

A stop is different: its node is safe, and it leaves the bridge nothing, only if nothing
starts the work again meanwhile, which is what `Overlap = FALSE` says of the bridge's calls.
Then the work neither runs nor is armed while a stop is under way, and the tree is empty
whenever the work is off (`StopInv`); `Told` does the rest: what the bridge was told belongs to
an entry, and there is none. With `Overlap`, TLC refutes both (section 4).

### 5.5 `ConfigChangeProofs`

| Theorem | Statement |
|---|---|
| `InvAlways` | `Spec => []Inv` (types, `ListClean`, `DriverFollows`) |
| `TakenOnceAlways` | `Spec => TakenOnce` |

`Inv` says nothing of the middle of a transaction. `CCInv` does: how the plugin's life and the
transaction fit together (`Shape`); what the driver has taken over (`Counted`, `OnceEach`); that an
instance is either in the list, and the driver has its new values, or it is not, and the
driver has the old ones, and a change of it is still to be reported (`Handled`); that the driver
follows (`Followed`); and that from the reset at the start to the end of the subscription a
trigger that is set is one the driver was not given (`Owing`), which is why a restart
triggers nothing twice. `TakenOnce` says of every step that it ends with `OnceEach` and is
`RestartQuiet`; both follow from `CCInv`.

### 5.6 `FrerProofs`

| Theorem | Statement | Assumes in addition |
|---|---|---|
| `FrerInvHolds` | `Spec => []FrerInv` | |
| `FrerInvCorrect` | `Spec => []Inv` (types and `RecSound`) | |
| `EncFollowsCorrect` | `Spec => []EncFollows` | |
| `GenPartsOnlyCorrect` | `Spec => GenPartsOnly` | |

`EncFollows` is inductive as it stands. `RecSound` is not: the first write for a function covers its
whole list, and a deletion that comes before it writes what is left; `RecRows` adds that only a
function that was applied has rows. The streams of a generation function are a sequence, of
which the code removes one entry; that the rest keeps no copy of it is because no list has a
stream twice (`ListsDistinct`), which `seqgen_addstr` looks after even for users who try.
`GenPartsOnly` is shown call by call. A call writes rows of its own function only, and only rows
that nobody has (`AppliedRows`), so the other functions stay as they are (`OthersAgree`). One that
fails has enabled streams it keeps on the list, unless the stream it takes off was on
the list before: a new one is the last, and not reached (`NewNotReached`).

### 5.7 `PreemptProofs`

| Theorem | Statement | Assumes in addition |
|---|---|---|
| `PreemptTypes` | `Spec => []TypeOK` | |
| `SerialInvHolds` | `Spec => []SerialInv` | `Overlap = FALSE` |
| `PreemptInvCorrect` | `Spec => []Inv` | `Overlap = FALSE` |
| `RegisterFollowsCorrect` | `Spec => []RegisterFollows` | `Overlap = FALSE` |
| `FailureEarnedCorrect` | `Spec => FailureEarned` | `IsFiniteSet(Ports)` |

The properties speak of moments in which everything is quiet. `SerialInv` says what holds
in between, for any number of ports: one handler or timer is at work (`Serial`); the timer's
handler still does what the flags ask for (`TimerInv`); every port no handler works on is right,
in its status, its timer and its register (`PortsInv`); and the port one works on as far as the handler
has come (`HandlerInv`): what it decided fits the flags when it is applied, and the
mask it writes is that of the status it set. With overlapping handlers neither holds, as TLC
shows (section 4): the code has no lock around them.

`FailureEarned` needs no such assumption. The counter is the driver's and not the port's, so it can be
no measure of what one port has done; `Counted` says that it never exceeds the attempts of all
verifications under way, each since its own start. A timer that stops takes its attempts out of the sum
(and resets the counter, without which the property fails), one that starts again begins with none,
and one that makes an attempt adds it to both (`AttemptCounted`). That each port makes all
attempts itself, TLC refutes for two ports (section 4).

### 5.8 `TimestampProofs`

| Theorem | Statement | Assumes in addition |
|---|---|---|
| `TxInvHolds` | `Spec => []TxInv` | |
| `StampExactAlways` | `Spec => []StampExact` | |
| `StampComputedAlways` | `Spec => []StampComputed` | nanoseconds do not go beyond the second |
| `InvAlways` | `Spec => []Inv` (types, `NoStampForgotten`, `FifoInStep`) | the driver's fifo is at least as large as the switch's |
| `RxInvHolds` | `RxSpec => []ReceiveInv` | |
| `RxInvAlways` | `RxSpec => []RxInv` (types, `FifoAhead`) | |
| `RxStampExactAlways` | `RxSpec => []RxStampExact` | `MaxAge < RxSecRange - 1` |
| `LossHandedOnAlways` | `RxSpec => []LossHandedOn` | `Flush = FALSE` |

**Transmission.** `TxInv` is the types and four parts. `IrqInv`: timestamps without an interrupt to come are
about to be looked for, because the status is cleared before the fifo is read. `StampInv`: a
timestamp that is kept or has been read, and the clock as the work item read it, are of this
second or the one before. `FrameInv`: a frame leaves once. And `StampExact` itself: the second the
driver looks for is at most one from the one it has read, so with more than three seconds in
the register's range only one has the two bits (`ModTells`), or none (`FullSecExact`). None is
the case in which the nanoseconds count one more after second 3, which `StampComputedAlways` excludes.

That fifo and switch stay in step if nothing fails needs to know that the fifo is never full:
it holds no more frames than wait for a timestamp (`QueueInv`), and the stack has no more under
way than the switch keeps. The code makes the driver's fifo twice as long
(`edge_com_ts.h:35`), which is the assumption.

**Reception.** `ReceiveInv` is the types
and: a thread that has taken a frame has taken its place in the ring (`RxRoomInv`), so that
refilling never makes the ring larger than it is; frames and timestamps keep the order of
arrival (`RxOrderInv`); a search is for PTP frames only (`RxSearchInv`); and, since a search
takes everything up to its frame away, later timestamps only are left (`FifoAhead`). All of it
holds with a second thread (`Flush`) too.

`RxStampExact` needs the seconds as well (`RxExactInv`): a timestamp is of the second its frame
was taken in, and a frame waits for `MaxAge` seconds at most, so that the driver's clock is
not further than that from the timestamp. With `MaxAge < RxSecRange - 1` the second the driver
looks for, one more if the nanoseconds were over, is the only one in reach (`SecondTells`, which
both directions use). The code has no such limit: it takes for granted that frames do
not wait for so long, and that is the assumption. With it, exactness does not
depend on how many threads take frames.

`LossHandedOn` does: one thread delivers in the order of arrival (`RxSerialInv`). `RxLossInv` counts
as lacking also the frames that are going to be delivered without a timestamp, because the switch
keeps none for them (`RxLacking`). Besides a timestamp that does not fit, one step makes a
frame `n` lacking: a search for a frame `m` before it that has no timestamp left takes
that of `n`. Then `m` was lacking already, so it lost its own for want of room, or has a lacking
frame in `ahead[m]` itself; and of such an `m` whoever arrives behind it knows,
`m \in ahead[n]`.

## 6. What is only model-checked, and what is not modelled

Every safety property of a run is proved, under the assumptions section 5 names. Out of the
prover's reach and left to TLC are liveness properties
(`PendingEnds`, `OnlyWorkBlocks`, `VerificationEnds`, `StoppedWakes`, `FramesProcessed`,
`PollRests`, `StampsArrive`, `BridgeFollows`, `HelperServes`): the proof system has no rules for
fairness and ENABLED. Induction over data is too, but no module needs it: none has recursive
definitions.

Left out of the modelled components:

* scheduler: the delay compensation's computation (one constant, `TimeAdvance`), attributes that
  only show or convert values, the maximum SDU table, the repetition of the hold bit,
  the values of the rates (a rate is represented by its table);
* preemption: statistics, the attributes verifyTime and fragment size; sending a verify
  frame that the ring has no room for is a lost frame;
* DMA: memory ownership of frames, padding, mapping lengths;
* timestamps: the fields of the PTP header (a frame is recognised or not), several ports;
* filters: the gates and flow meters, the heat indicator, three of the four counters of a row,
  which are captured with the fourth;
* replication: the counters, resetting a sequence number, the latent error parameters;
* addresses: static entries, ageing time, MSTIs and forwarding states, tags and PVIDs. A
  notification that fails is not retried by the code, and does not fail here;
* plugins: every leaf but the two; the startup datastore, which is fixed like the running
  one; the first start after installation, when callbacks do nothing until the startup
  configuration has been copied; an initialisation that fails after its subscriptions;
* probing and removal of all components.

External, modelled from how the code uses them: the switch hardware (table swap,
correction of missed start times, DMA, timestamps, interrupt status, address learning), the
kernel's NAPI states, interrupt controller, fifos, timers, work queues and bridge, the link
partner, sysrepo's transactions and events.

## 7. Plan

Done, in this order: `Scheduler` with abstraction and proofs, `Preempt` with proofs, `Shaper` with proofs,
`DmaTx` with abstraction and proofs, `TxTimestamp` with proofs, `NapiPoll` with proofs, `Psfp` with proofs, `Frer` with
proofs, `Receive` with proofs, `AddrSync` with proofs, `ConfigChange` with proofs.

What could follow, the most stateful code first:

1. `StreamId`: stream handles, ports and hardware entries (`edge_br_sid2.c`): references never
   dangle, tables and hardware agree.
2. Stream gates as a second instance of `Scheduler` with the callbacks of `edge_psfp.c`, whose
   blocking by invalid or excess frames is what is new there.
3. MSTP: FIDs, MSTIs and forwarding states (`edge_br_vlan.c`), and the static address table.
4. `Stat`: counters that wrap between two collections (`edge_stat.c`).

## 8. Running the tools

In this directory, `tlc -config MCDmaTx.cfg MCDmaTx` checks a run, `tlapm
DmaTxProofs.tla` the proofs of a module. The longest runs, `rx` and `sched_safety`, take
about two minutes with two workers.
