------------------------------ MODULE Scheduler ------------------------------
(***************************************************************************)
(* One hardware scheduler (IEEE 802.1Qbv "FSC") of the switch driver:       *)
(* edge_sched.c, with the schedule-specific callbacks of edge_st_fscr.c.    *)
(*                                                                          *)
(* The user edits an administrative table and asks for a configuration      *)
(* change.  The driver copies the table to the hardware table that is not   *)
(* in use and hands it over with a start time; at that time the hardware    *)
(* swaps the tables and raises an interrupt, whose work handler reports the *)
(* change (and makes the credit-based shaper recompute its slopes).  A      *)
(* start time beyond the reach of the hardware's short seconds register is  *)
(* held back in a delayed work.                                             *)
(*                                                                          *)
(* Actors: user calls (one per thread), the delayed work, the interrupt     *)
(* and its work item, the hardware, time.  sched->lock serialises the first *)
(* three; the hardware and time move whenever they like.                    *)
(*                                                                          *)
(* Time is counted in ticks, which stand for seconds where the code looks   *)
(* at tv_sec only.                                                          *)
(***************************************************************************)
EXTENDS Integers, Sequences

CONSTANTS
  Users,            \* threads that call the user interface
  Entries,          \* control list entries (operation, gate states, interval)
  BadEntries,       \* ... whose interval is out of range or off the granularity
  MaxEntries,       \* limits.max_entry_cnt
  MaxCycle,         \* EDGX_SCHED_MAX_CYC_NS
  MaxDelay,         \* EDGX_SCHED_MAX_DELAY
  MinAdvance,       \* EDGX_SCHED_MIN_ADVANCE
  SecRange,         \* EDGX_SCHED_START_TIME_SEC_MASK + 1
  TimeAdvance,      \* -offset_ns: the schedule starts that much early
  LevelTriggered,   \* irq->trig = EDGX_IRQ_LEVEL_TRIG
  MayFail,          \* can the callbacks and the table transfer return an error?
  \* The inputs and the bounds of the model.
  InitAdmins,       \* administrative tables to start from
  Calls,            \* the user calls that are made
  ListWrites, Lens, Cycles, BaseTimes,
  MaxCalls,         \* number of user calls
  LastCall,         \* no call after this time
  MaxTime,          \* time stops here
  ErrCap            \* conf_change_err saturates here

Tabs    == {0, 1}
NoTab   == 2
NoLock  == "unlocked"
Worker  == "delayed work"
Procs   == Users \cup {Worker}
NoEntry == "unwritten"
FullRate == [list |-> <<>>, cycle |-> 0]  \* tr_rate 1/1: no gate limits the queue
RowIdx  == 1..(MaxEntries + 1)

ListType  == {l \in Seq(Entries) : Len(l) <= MaxEntries}
AdminType == [list: ListType, len: 0..MaxEntries, cycle: 0..MaxCycle, base: Nat]
RateType  == [list: ListType, cycle: 0..MaxCycle]
EmptyAdmin == [list |-> <<>>, len |-> 0, cycle |-> 0, base |-> 0]

ASSUME SchedAssumption ==
  /\ NoLock \notin Procs /\ Worker \notin Users
  /\ NoEntry \notin Entries /\ BadEntries \subseteq Entries
  /\ MaxEntries \in Nat \ {0} /\ MaxCycle \in Nat
  /\ MaxDelay \in Nat /\ MinAdvance \in 1..MaxDelay
  /\ SecRange \in Nat /\ SecRange > 2 * MaxDelay
  /\ TimeAdvance \in Nat
  /\ LevelTriggered \in BOOLEAN /\ MayFail \in BOOLEAN
  /\ InitAdmins \subseteq AdminType
  /\ ListWrites \subseteq [first: Nat, es: ListType]
  /\ Lens \subseteq Nat /\ Cycles \subseteq Nat /\ BaseTimes \subseteq Nat
  /\ MaxCalls \in Nat /\ LastCall \in Nat /\ MaxTime \in Nat /\ ErrCap \in Nat

VARIABLES
  \* struct edgx_sched
  lock,         \* owner of sched->lock, where it is held across steps
  pc,           \* where a thread that owns the lock stands
  admin,        \* admin_tab
  op,           \* op_tabs, with the entries each was filled from
  gateEnabled, confChange, state, startTime, ccTime, err,
  \* the delayed work: "off", "armed" or "running", and when it is due
  work, workDue,
  \* struct edgx_st (transmission rates) and the shaper's slope registers
  trRate, fqtss,
  \* the interrupt: status, mask, edge latch, queued work item, its progress
  intStat, intMask, latch, queued, isr,
  \* the scheduler hardware
  hwRows, hwStart, canUse, inUse, muxOn,
  \* environment and history: time, user calls left, time of the last swap
  now, calls, switchedAt

driver == <<admin, op, gateEnabled, confChange, state, startTime, ccTime, err,
            trRate, fqtss>>
timer  == <<work, workDue>>
irq    == <<intStat, intMask, latch, queued, isr>>
hw     == <<hwRows, hwStart, canUse, inUse, muxOn>>
env    == <<now, calls, switchedAt>>
vars   == <<lock, pc, driver, timer, irq, hw, env>>

LockType ==
  /\ lock \in Procs \cup {NoLock}
  /\ pc \in [Procs -> {"idle", "cfg", "gate off", "calc", "rows", "submit"}]

TableType == admin \in AdminType /\ op \in [Tabs -> AdminType]

DriverType ==
  /\ gateEnabled \in BOOLEAN /\ confChange \in BOOLEAN
  /\ state \in {"IDLE", "PENDING", "DELAYED"}
  /\ startTime \in Int /\ ccTime \in Int /\ err \in 0..ErrCap

ShaperType == trRate \in RateType /\ fqtss \in RateType

TimerType == work \in {"off", "armed", "running"} /\ workDue \in Nat

IrqType ==
  /\ intStat \in BOOLEAN /\ intMask \in BOOLEAN /\ latch \in BOOLEAN
  /\ queued \in BOOLEAN /\ isr \in {"idle", "handle", "unmask"}

HwType ==
  /\ hwRows \in [Tabs -> [RowIdx -> Entries \cup {NoEntry}]]
  /\ hwStart \in [Tabs -> 0..(SecRange - 1)]
  /\ canUse \subseteq Tabs /\ inUse \in Tabs \cup {NoTab} /\ muxOn \in BOOLEAN

EnvType == now \in Nat /\ calls \in 0..MaxCalls /\ switchedAt \in Nat

TypeOK ==
  /\ LockType /\ TableType /\ DriverType /\ ShaperType
  /\ TimerType /\ IrqType /\ HwType /\ EnvType

-----------------------------------------------------------------------------
(* Helpers. *)

CountErr(e) == IF e < ErrCap THEN e + 1 ELSE ErrCap

\* The row the callback writes at index i for table a: the list's rows, then
\* the last one again ("FSC will stop on this entry").
RowOf(a, i) == a.list[IF i <= a.len THEN i ELSE a.len]

\* What the shaper is told of a table: the share of the cycle each gate is open.
RateOf(a) == [list |-> SubSeq(a.list, 1, a.len), cycle |-> a.cycle]

FreeTabSwapped == IF inUse # 0 THEN 1 ELSE 0     \* mutant
FreeTab == IF inUse # 0 THEN 0 ELSE 1

HwIsPendingOrInUse == canUse # {} \/ inUse # NoTab     \* mutant
HwIsPending == canUse # {}

ParamsOK(a) ==
  /\ a.list # <<>>
  /\ a.cycle # 0
  /\ a.len # 0
  /\ Len(a.list) >= a.len

\* The first base + k * cycle that is not before t (rounded up).
FutureTime(base, t, cycle) ==
  base + cycle * ((t - base + cycle - 1) \div cycle)

StartBase(a) == IF a.base <= now THEN FutureTime(a.base, now, a.cycle) ELSE a.base

DelayNever(start) == IF start - now <= SecRange THEN 0 ELSE MaxDelay     \* mutant

\* Seconds to wait before submission; 0 means submit at once.
Delay(start) ==
  LET diff == start - now
  IN  IF diff <= MaxDelay THEN 0
      ELSE IF diff - MinAdvance < MaxDelay THEN diff - MinAdvance ELSE MaxDelay

-----------------------------------------------------------------------------
Init ==
  /\ lock = NoLock /\ pc = [p \in Procs |-> "idle"]
  /\ admin \in InitAdmins /\ op = [t \in Tabs |-> EmptyAdmin]
  /\ gateEnabled = FALSE /\ confChange = FALSE /\ state = "IDLE"
  /\ startTime = 0 /\ ccTime = 0 /\ err = 0
  /\ work = "off" /\ workDue = 0
  /\ trRate = FullRate /\ fqtss = FullRate
  /\ intStat = FALSE /\ intMask = TRUE /\ latch = FALSE
  /\ queued = FALSE /\ isr = "idle"
  /\ hwRows = [t \in Tabs |-> [i \in RowIdx |-> NoEntry]]
  /\ hwStart = [t \in Tabs |-> 0]
  /\ canUse = {} /\ inUse = NoTab /\ muxOn = FALSE
  /\ now = 0 /\ calls = MaxCalls /\ switchedAt = 0

-----------------------------------------------------------------------------
(* User calls: each is one critical section under sched->lock.  A call that *)
(* reaches the configuration change state machine keeps the lock over the   *)
(* steps below it; the others are a single step.                            *)

Call(u, c) ==
  /\ c \in Calls /\ calls > 0 /\ now <= LastCall
  /\ lock = NoLock /\ pc[u] = "idle"
  /\ calls' = calls - 1
  /\ UNCHANGED <<now, switchedAt>>

\* Enter the state machine at `step', still holding the lock.
Proceed(p, step) == lock' = p /\ pc' = [pc EXCEPT ![p] = step]
Return(p)        == lock' = NoLock /\ pc' = [pc EXCEPT ![p] = "idle"]

\* The end of edgx_sched_stm_cfg_change: the request is dealt with.
Done(p) == confChange' = FALSE /\ Return(p)

\* edgx_sched_notify: recompute the slopes from the rates.  A rate of 1/1, which
\* is also what the shaper is told while the gates are disabled, leaves them as
\* they are (enabled is the current flag).
NotifyNot(enabled) == fqtss' = fqtss     \* mutant
Notify(enabled) == fqtss' = IF enabled /\ trRate # FullRate THEN trRate ELSE fqtss

SetBaseTime(u) ==
  /\ Call(u, "base")
  /\ \E b \in BaseTimes : admin' = [admin EXCEPT !.base = b]
  /\ UNCHANGED <<lock, pc, op, gateEnabled, confChange, state, startTime, ccTime,
                 err, trRate, fqtss, timer, irq, hw>>

SetCycleTime(u) ==
  /\ Call(u, "cycle")
  /\ \E c \in Cycles :
       \/ c <= MaxCycle /\ admin' = [admin EXCEPT !.cycle = c] /\ err' = err
       \/ c >  MaxCycle /\ err' = CountErr(err) /\ admin' = admin
  /\ UNCHANGED <<lock, pc, op, gateEnabled, confChange, state, startTime, ccTime,
                 trRate, fqtss, timer, irq, hw>>

SetCtrlListLen(u) ==
  /\ Call(u, "len")
  /\ \E n \in Lens : admin' = IF n <= MaxEntries THEN [admin EXCEPT !.len = n]
                                                 ELSE admin
  /\ UNCHANGED <<lock, pc, op, gateEnabled, confChange, state, startTime, ccTime,
                 err, trRate, fqtss, timer, irq, hw>>

\* edgx_sched_set_entries: writing entry 0 clears the table first, writes must
\* be consecutive, and the whole list is checked after it has been installed.
SetAdminCtrlList(u) ==
  /\ Call(u, "list")
  /\ \E w \in ListWrites :
       LET tooBig == w.first + Len(w.es) > MaxEntries
           before == IF w.first = 0 THEN <<>> ELSE admin.list
           gap    == w.first # Len(before)
           list   == before \o w.es
       IN  \/ tooBig /\ UNCHANGED <<admin, err>>
           \/ ~tooBig /\ gap /\ UNCHANGED <<admin, err>>
           \/ /\ ~tooBig /\ ~gap
              /\ admin' = [admin EXCEPT !.list = list]
              /\ err' = IF \E i \in DOMAIN list : list[i] \in BadEntries
                        THEN CountErr(err) ELSE err
  /\ UNCHANGED <<lock, pc, op, gateEnabled, confChange, state, startTime, ccTime,
                 trRate, fqtss, timer, irq, hw>>

SetConfigChange(u) ==
  /\ Call(u, "config change")
  /\ confChange' = TRUE
  /\ Proceed(u, "cfg")
  /\ UNCHANGED <<admin, op, gateEnabled, state, startTime, ccTime, err,
                 trRate, fqtss, timer, irq, hw>>

ResetConfigChange(u) ==
  /\ Call(u, "no config change")
  /\ confChange' = FALSE
  /\ UNCHANGED <<lock, pc, admin, op, gateEnabled, state, startTime, ccTime, err,
                 trRate, fqtss, timer, irq, hw>>

\* edgx_sched_stm_gate_enable: notify only if there is a running schedule.
SetGateEnabled(u) ==
  /\ Call(u, "gate on")
  /\ gateEnabled' = TRUE
  /\ IF state = "IDLE"
     THEN /\ muxOn' = TRUE
          /\ IF inUse # NoTab THEN Notify(TRUE) ELSE fqtss' = fqtss
          /\ IF confChange THEN Proceed(u, "cfg") ELSE UNCHANGED <<lock, pc>>
     ELSE UNCHANGED <<muxOn, fqtss, lock, pc>>
  /\ UNCHANGED <<admin, op, confChange, state, startTime, ccTime, err, trRate,
                 timer, irq, hwRows, hwStart, canUse, inUse>>

SetGateDisabled(u) ==
  /\ Call(u, "gate off")
  /\ gateEnabled' = FALSE
  /\ Proceed(u, "gate off")
  /\ UNCHANGED <<admin, op, confChange, state, startTime, ccTime, err,
                 trRate, fqtss, timer, irq, hw>>

CancelHwNot == canUse' = canUse     \* mutant
CancelHw == canUse' = IF state = "PENDING" THEN {} ELSE canUse

CancelSyncsIsr ==     \* mutant: waits for the interrupt's work too
  /\ state = "DELAYED" => work # "running"
  /\ ~queued /\ isr = "idle"
  /\ CancelHw
  /\ work'  = IF state = "DELAYED" THEN "off" ELSE work
  /\ state' = "IDLE"

\* Cancel whatever is pending.  cancel_delayed_work_sync() waits for a work that
\* already runs, so the caller cannot pass while it does.
CancelPending ==
  /\ state = "DELAYED" => work # "running"
  /\ CancelHw
  /\ work'  = IF state = "DELAYED" THEN "off" ELSE work
  /\ state' = "IDLE"

\* edgx_sched_stm_gate_disable
GateDisable(p) ==
  /\ pc[p] = "gate off"
  /\ CancelPending
  /\ muxOn' = FALSE
  /\ Notify(FALSE)
  /\ Return(p)
  /\ UNCHANGED <<admin, op, gateEnabled, confChange, startTime, ccTime, err,
                 trRate, workDue, irq, hwRows, hwStart, inUse, env>>

-----------------------------------------------------------------------------
(* edgx_sched_stm_cfg_change, with the lock held by p and conf_change set. *)

\* Cancel the pending change.  With the gates disabled the request is kept and
\* taken up when they are enabled.
CfgCancel(p) ==
  /\ pc[p] = "cfg"
  /\ CancelPending
  /\ IF gateEnabled THEN Proceed(p, "calc") ELSE Return(p)
  /\ UNCHANGED <<admin, op, gateEnabled, confChange, startTime, ccTime, err, trRate,
                 fqtss, workDue, irq, hwRows, hwStart, inUse, muxOn, env>>

\* check_cc_params: unusable parameters, or get_sched_offset returns an error.
CfgReject(p) ==
  /\ pc[p] = "calc"
  /\ ~ParamsOK(admin) \/ MayFail
  /\ Done(p)
  /\ UNCHANGED <<admin, op, gateEnabled, state, startTime, ccTime, err, trRate,
                 fqtss, timer, irq, hw, env>>

\* calc_cc_time, and arming the delayed work if the start is too far away.
CfgCalcTime(p) ==
  /\ pc[p] = "calc"
  /\ ParamsOK(admin)
  /\ LET start == StartBase(admin) - TimeAdvance
         delay == Delay(start)
     IN  /\ ccTime' = StartBase(admin)
         /\ startTime' = start
         /\ IF delay > 0
            THEN /\ state' = "DELAYED" /\ work' = "armed" /\ workDue' = now + delay
                 /\ Done(p)
            ELSE /\ UNCHANGED <<state, timer, confChange>>
                 /\ Proceed(p, "rows")
  /\ err' = IF admin.base <= now THEN CountErr(err) ELSE err
  /\ UNCHANGED <<admin, op, gateEnabled, trRate, fqtss, irq, hw, env>>

RowsWrittenShort(t, k) ==     \* mutant
  [hwRows EXCEPT ![t] = [i \in RowIdx |-> IF i < k THEN RowOf(admin, i) ELSE @[i]]]

\* The rows of table t once the first k rows for admin have been written.
RowsWritten(t, k) ==
  [hwRows EXCEPT ![t] = [i \in RowIdx |-> IF i <= k THEN RowOf(admin, i) ELSE @[i]]]

\* config_change and prepare_config: mirror the table and write all its rows.
CfgWriteRows(p) ==
  /\ pc[p] = "rows"
  /\ op' = [op EXCEPT ![FreeTab] = admin]
  /\ hwRows' = RowsWritten(FreeTab, admin.len + 1)
  /\ trRate' = RateOf(admin)
  /\ Proceed(p, "submit")
  /\ UNCHANGED <<admin, gateEnabled, confChange, state, startTime, ccTime, err,
                 fqtss, timer, irq, hwStart, canUse, inUse, muxOn, env>>

CfgWriteRowsErrorIgnored(p) ==     \* mutant
  /\ pc[p] = "rows" /\ MayFail
  /\ op' = [op EXCEPT ![FreeTab] = admin]
  /\ \E k \in 0..(admin.len + 1) : hwRows' = RowsWritten(FreeTab, k)
  /\ Proceed(p, "submit")
  /\ UNCHANGED <<admin, gateEnabled, confChange, state, startTime, ccTime, err, trRate,
                 fqtss, timer, irq, hwStart, canUse, inUse, muxOn, env>>

\* The transfer of a row times out: the change is given up half way.
CfgWriteRowsFails(p) ==
  /\ pc[p] = "rows" /\ MayFail
  /\ op' = [op EXCEPT ![FreeTab] = admin]
  /\ \E k \in 0..(admin.len + 1) : hwRows' = RowsWritten(FreeTab, k)
  /\ Done(p)
  /\ UNCHANGED <<admin, gateEnabled, state, startTime, ccTime, err, trRate,
                 fqtss, timer, irq, hwStart, canUse, inUse, muxOn, env>>

\* hw_set_pending: the start time loses its upper seconds bits.
CfgSubmit(p) ==
  /\ pc[p] = "submit"
  /\ hwStart' = [hwStart EXCEPT ![FreeTab] = startTime % SecRange]
  /\ canUse' = canUse \cup {FreeTab}
  /\ state' = "PENDING"
  /\ Done(p)
  /\ UNCHANGED <<admin, op, gateEnabled, startTime, ccTime, err, trRate,
                 fqtss, timer, irq, hwRows, inUse, muxOn, env>>

-----------------------------------------------------------------------------
(* The delayed work.                                                       *)

WorkExpires ==
  /\ work = "armed" /\ now >= workDue
  /\ work' = "running"
  /\ UNCHANGED <<lock, pc, driver, workDue, irq, hw, env>>

\* edgx_sched_stm_pending_delayed.  Nobody else can tell the work from a finished
\* one once it owns the lock.
PendingDelayed ==
  /\ work = "running" /\ lock = NoLock
  /\ state' = "IDLE"
  /\ work' = "off"
  /\ IF confChange THEN Proceed(Worker, "cfg") ELSE UNCHANGED <<lock, pc>>
  /\ UNCHANGED <<admin, op, gateEnabled, confChange, startTime, ccTime, err, trRate,
                 fqtss, workDue, irq, hw, env>>

-----------------------------------------------------------------------------
(* The interrupt.  A level-triggered one is masked until its work is done.  *)

Isr ==
  /\ IF LevelTriggered THEN intStat /\ intMask ELSE latch
  /\ latch' = FALSE
  /\ intMask' = ~LevelTriggered
  /\ queued' = TRUE
  /\ UNCHANGED <<lock, pc, driver, timer, intStat, isr, hw, env>>

\* The work item starts: the status is cleared before the handler looks.
IsrWorkStart ==
  /\ queued /\ isr = "idle"
  /\ queued' = FALSE /\ isr' = "handle"
  /\ intStat' = FALSE
  /\ UNCHANGED <<lock, pc, driver, timer, intMask, latch, hw, env>>

\* edgx_sched_fix_cc_time: the hardware may have moved the start time.
FixCcTime ==
  LET delta == hwStart[inUse] - (startTime % SecRange)
  IN  IF inUse # NoTab /\ delta # 0
      THEN /\ err' = CountErr(err)
           /\ startTime' = startTime + delta
           /\ ccTime' = startTime' + TimeAdvance
      ELSE UNCHANGED <<err, startTime, ccTime>>

\* edgx_sched_stm_cct_handler
CctHandler ==
  /\ isr = "handle" /\ lock = NoLock
  /\ isr' = "unmask"
  /\ IF state = "PENDING" /\ ~HwIsPending
     THEN FixCcTime /\ state' = "IDLE" /\ Notify(gateEnabled)
     ELSE UNCHANGED <<err, startTime, ccTime, state, fqtss>>
  /\ UNCHANGED <<lock, pc, admin, op, gateEnabled, confChange, trRate, timer,
                 intStat, intMask, latch, queued, hw, env>>

IsrWorkDoneClearsStat ==     \* mutant
  /\ isr = "unmask"
  /\ isr' = "idle"
  /\ intMask' = TRUE /\ intStat' = FALSE
  /\ UNCHANGED <<lock, pc, driver, timer, latch, queued, hw, env>>
IsrWorkDone ==
  /\ isr = "unmask"
  /\ isr' = "idle"
  /\ intMask' = TRUE
  /\ UNCHANGED <<lock, pc, driver, timer, intStat, latch, queued, hw, env>>

-----------------------------------------------------------------------------
(* The hardware: it knows the start time only modulo SecRange and takes one *)
(* in the nearer half of the circle for the future.                         *)

Ahead(t)  == (hwStart[t] - now) % SecRange
Missed(t) == Ahead(t) > SecRange \div 2
Behind(t) == SecRange - Ahead(t)

\* At the start time the table is taken into use, and the interrupt is raised;
\* an edge is seen only if the status was clear.
HwSwap(t) ==
  /\ t \in canUse /\ Ahead(t) = 0
  /\ inUse' = t /\ canUse' = canUse \ {t}
  /\ intStat' = TRUE
  /\ latch' = (latch \/ (~LevelTriggered /\ ~intStat))
  /\ switchedAt' = now
  /\ UNCHANGED <<lock, pc, driver, timer, intMask, queued, isr,
                 hwRows, hwStart, muxOn, now, calls>>

\* A start time that has passed is moved to the next cycle boundary.
HwAdjustStart(t) ==
  /\ t \in canUse /\ Missed(t)
  /\ hwStart' = [hwStart EXCEPT ![t] =
       FutureTime(now - Behind(t), now, op[t].cycle) % SecRange]
  /\ UNCHANGED <<lock, pc, driver, timer, irq, hwRows, canUse, inUse, muxOn, env>>

\* Time goes on unless the hardware has something to do at this instant.
Tick ==
  /\ now < MaxTime
  /\ \A t \in canUse : Ahead(t) # 0 /\ ~Missed(t)
  /\ now' = now + 1
  /\ UNCHANGED <<lock, pc, driver, timer, irq, hw, calls, switchedAt>>

-----------------------------------------------------------------------------
UserCall(u) ==
  \/ SetBaseTime(u) \/ SetCycleTime(u) \/ SetCtrlListLen(u) \/ SetAdminCtrlList(u)
  \/ SetConfigChange(u) \/ ResetConfigChange(u)
  \/ SetGateEnabled(u) \/ SetGateDisabled(u)

LockedStep(p) ==
  \/ GateDisable(p) \/ CfgCancel(p) \/ CfgReject(p) \/ CfgCalcTime(p)
  \/ CfgWriteRows(p) \/ CfgWriteRowsFails(p) \/ CfgSubmit(p)

IsrStep == Isr \/ IsrWorkStart \/ CctHandler \/ IsrWorkDone
HwStep  == \E t \in Tabs : HwSwap(t) \/ HwAdjustStart(t)

Next ==
  \/ \E u \in Users : UserCall(u)
  \/ \E p \in Procs : LockedStep(p)
  \/ WorkExpires \/ PendingDelayed
  \/ IsrStep \/ HwStep \/ Tick

Spec == Init /\ [][Next]_vars

\* Kernel threads, work items and the hardware make progress; users need not call.
Fairness ==
  /\ \A p \in Procs : WF_vars(LockedStep(p))
  /\ WF_vars(WorkExpires) /\ WF_vars(PendingDelayed)
  /\ WF_vars(Isr) /\ WF_vars(IsrWorkStart) /\ WF_vars(CctHandler) /\ WF_vars(IsrWorkDone)
  /\ WF_vars(HwStep) /\ WF_vars(Tick)

FairSpec == Spec /\ Fairness

-----------------------------------------------------------------------------
(* Safety. *)

InOperation(t) == t \in canUse \/ t = inUse

\* The operational tables mirror the hardware tables (edge_sched.c:141): a table
\* the hardware runs or may take into use at any moment has, row by row, the
\* contents its mirror was filled with, although rows are written one at a time,
\* a transfer may stop half way, and the user goes on editing meanwhile.
Mirror ==
  \A t \in Tabs : InOperation(t) =>
    \A i \in 1..(op[t].len + 1) : hwRows[t][i] = RowOf(op[t], i)

Inv == TypeOK /\ Mirror

\* No step writes a row or the mirror of the table the hardware is running, nor
\* of one that it may take into use in that very step (get_free_tab, and
\* cancelling before the next table is filled).
LiveTablesUntouched ==
  [][\A t \in Tabs : InOperation(t) /\ InOperation(t)' =>
       hwRows'[t] = hwRows[t] /\ op'[t] = op[t]]_vars

\* The driver's state and the hardware agree whenever sched->lock is free: only a
\* PENDING scheduler has a table handed over, at most one, never the running one;
\* with the gates disabled nothing is pending at all and the MUX is off.
PendingAccounted ==
  /\ lock = NoLock /\ canUse # {} => state = "PENDING" /\ gateEnabled
  /\ inUse \notin canUse /\ \A s, t \in canUse : s = t
  /\ lock = NoLock => muxOn = gateEnabled /\ (~gateEnabled => state = "IDLE")

\* A request outlives the call that made it only while the gates are disabled
\* (edgx_sched_stm_cfg_change keeps conf_change there, to be taken up by
\* edgx_sched_stm_gate_enable): it is never parked beside a pending change.
RequestAccounted ==
  lock = NoLock /\ confChange => ~gateEnabled /\ state = "IDLE"

\* The swap interrupt is never lost, neither between clearing the status and
\* looking at the tables, nor while it is masked, nor if the change it belongs to
\* was superseded: a swap the state machine has not seen is on its way to it.
SwapNeverLost ==
  lock = NoLock /\ state = "PENDING" /\ canUse = {} =>
    \/ IF LevelTriggered THEN intStat ELSE latch
    \/ queued \/ isr = "handle"

\* Neither a request nor a swap is lost (edge_sched.c:1012, :514-524).
NothingLost == RequestAccounted /\ SwapNeverLost

\* A configuration never takes effect before the start time computed for it
\* (the base time less the path delays), although the hardware sees only the low
\* seconds bits of it: this is what PENDING_DELAYED is for.
NotEarly == \A t \in canUse : inUse' = t /\ inUse # t => now >= startTime

\* The change time that is reported is the time of the swap, up to the range of
\* the hardware's seconds register (edgx_sched_fix_cc_time).
TimeReported ==
  state = "PENDING" /\ state' = "IDLE" /\ isr' # isr =>
    /\ startTime' % SecRange = switchedAt % SecRange
    /\ ccTime' = startTime' + TimeAdvance

\* Schedules start when they are said to (edge_sched.c:866-909, :941-977).
StartTimes == [][NotEarly /\ TimeReported]_vars

\* The same without the reservation: "Check if HW adjusted the start time. Adjust
\* CCT accordingly." (edge_sched.c:941).
ReportedExactly ==
  [][state = "PENDING" /\ state' = "IDLE" /\ isr' # isr => startTime' = switchedAt]_vars

\* No interrupt is outstanding and no call is under way.
Quiet == lock = NoLock /\ ~intStat /\ ~latch /\ ~queued /\ isr # "handle"

\* When everything is quiet and nothing is pending, the shaper works with the
\* rates of the schedule that gates the port (edge_sched.h:66, "Notify after
\* switch to new configuration").
ShaperFollows ==
  Quiet /\ state = "IDLE" /\ gateEnabled /\ inUse # NoTab => fqtss = RateOf(op[inUse])

-----------------------------------------------------------------------------
(* The inductive invariant behind the safety properties: what holds at each *)
(* step of the owner of the lock.                                           *)

\* Who stands in the middle of a call owns the lock.
LockInv == \A p \in Procs : pc[p] # "idle" => lock = p

\* From cfg_change's cancellation to its end nothing is pending, in the driver or
\* in the hardware, so that no swap can come in between.
BusyInv ==
  \A p \in Procs : pc[p] \in {"calc", "rows", "submit"} =>
    canUse = {} /\ state = "IDLE" /\ gateEnabled

\* What is being submitted is a usable table, as it stands: nobody can edit it.
SubmitInv ==
  /\ \A p \in Procs : pc[p] \in {"rows", "submit"} => ParamsOK(admin)
  /\ \A p \in Procs : pc[p] = "submit" =>
       /\ op[FreeTab] = admin
       /\ \A i \in 1..(admin.len + 1) : hwRows[FreeTab][i] = RowOf(admin, i)

\* A table the hardware may take into use is the other one, and the only one.
PendInv ==
  /\ canUse # {} => state = "PENDING"
  /\ inUse \notin canUse
  /\ \A s, t \in canUse : s = t
  /\ \A t \in canUse : ParamsOK(op[t])

\* The delayed work is under way exactly while the state says so.
TimerInv == work # "off" <=> state = "DELAYED"

\* The MUX follows the enable flag, and only enabled gates have a pending change,
\* but for the moment between the flag and the handler of "gates off".
GateInv ==
  /\ \A p \in Procs : pc[p] = "gate off" => ~gateEnabled
  /\ \/ muxOn = gateEnabled /\ (gateEnabled \/ state = "IDLE")
     \/ \E p \in Procs : pc[p] = "gate off"

\* A request is being dealt with by the owner of the lock, or kept for enabled gates.
RequestInv ==
  confChange => \/ \E p \in Procs : pc[p] \in {"cfg", "calc", "rows", "submit"}
                \/ ~gateEnabled /\ state = "IDLE"

\* A swap is on its way to the handler, whoever holds the lock; an edge that could
\* not be latched because the status was still set has an earlier one before it.
SwapInv ==
  /\ state = "PENDING" /\ canUse = {} =>
       (IF LevelTriggered THEN intStat ELSE latch) \/ queued \/ isr = "handle"
  /\ ~LevelTriggered /\ intStat => latch \/ queued

\* A start time is submitted within the hardware's reach and stays as it is until it
\* has come; after the swap the register of the running table holds the time of it.
StartInv ==
  /\ \A p \in Procs : pc[p] \in {"rows", "submit"} =>
       startTime - now <= MaxDelay /\ ccTime = startTime + TimeAdvance
  /\ \A t \in canUse : startTime > now =>
       startTime - now <= MaxDelay /\ hwStart[t] = startTime % SecRange
  /\ state = "PENDING" =>
       /\ ccTime = startTime + TimeAdvance
       /\ canUse = {} => inUse # NoTab /\ hwStart[inUse] = switchedAt % SecRange

SchedInv ==
  /\ TypeOK /\ LockInv /\ BusyInv /\ SubmitInv /\ PendInv /\ TimerInv /\ GateInv
  /\ Mirror /\ RequestInv /\ SwapInv /\ StartInv

-----------------------------------------------------------------------------
(* What the user is promised, SchedulerAbs: the configurations are read from *)
(* the rows of the hardware tables.                                          *)

RowsOf(a) == [i \in 1..(a.len + 1) |-> RowOf(a, i)]
Config(a) == [rows |-> RowsOf(a), cycle |-> a.cycle, base |-> a.base]
HwConfig(t) == [rows  |-> [i \in 1..(op[t].len + 1) |-> hwRows[t][i]],
                cycle |-> op[t].cycle, base |-> op[t].base]

Abs == INSTANCE SchedulerAbs WITH
         Admins <- AdminType, Usable <- ParamsOK,
         pending <- {HwConfig(t) : t \in canUse},
         oper    <- {HwConfig(t) : t \in Tabs \cap {inUse}},
         start   <- startTime

\* The driver and the hardware together implement the promise: what runs on the
\* port is at any time a whole table the user asked for, never a mixture of an
\* older and a newer one, nor one whose submission failed, and never too early.
ImplementsAbs == Abs!Spec

-----------------------------------------------------------------------------
(* Liveness, under Fairness. *)

\* A change that was submitted is reported: the hardware swaps at its start time,
\* and the interrupt, its work and the lock all get their turn.
PendingEnds == state = "PENDING" ~> state = "IDLE"

\* The owner of sched->lock waits for a delayed work that has started, and that
\* waits for sched->lock: cancel_delayed_work_sync at edge_sched.c:1018 and :1083,
\* mutex_lock at :1096.
WaitsForWork(u) ==
  lock = u /\ pc[u] \in {"cfg", "gate off"} /\ state = "DELAYED" /\ work = "running"

\* Nothing but the delayed work blocks the scheduler: a call returns, and a change
\* that is held back leaves that state, by its work or by a call that supersedes
\* it, unless a call waits for the work just as the work waits for the lock.
OnlyWorkBlocks ==
  /\ \A u \in Users : pc[u] # "idle" ~> pc[u] = "idle" \/ WaitsForWork(u)
  /\ state = "DELAYED" ~> state # "DELAYED" \/ \E u \in Users : WaitsForWork(u)

\* What the code aims at, without the exception: nobody waits for sched->lock, or
\* with it, for ever.  It does not hold (MCSchedulerHeldBack.cfg).
CallsReturn == \A u \in Users : pc[u] # "idle" ~> pc[u] = "idle"

\* A change that waits in software is submitted to the hardware in the end
\* (edge_sched.c:116, "pending in SW and waiting to be submitted to HW"), here
\* once no more calls interfere.
DelayedSubmitted == state = "DELAYED" /\ calls = 0 ~> state = "PENDING"

=============================================================================
