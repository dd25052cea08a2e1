--------------------------- MODULE SchedulerProofs ---------------------------
(***************************************************************************)
(* Theorems about Scheduler and, at the end, Shaper, proved for every value *)
(* of their constants.                                                      *)
(* SchedInv is inductive; each of its parts has a lemma that says a step    *)
(* keeps it, with one step per action that can disturb the part and one for *)
(* all the others, which leave its variables alone.                         *)
(***************************************************************************)
EXTENDS Scheduler, Shaper, TLAPS

-----------------------------------------------------------------------------
(* Lemmas about the operators. *)

\* A saturating counter stays in its range.
LEMMA CountErrType ==
  ASSUME SchedAssumption, NEW e \in 0..ErrCap
  PROVE  CountErr(e) \in 0..ErrCap
BY DEF CountErr, SchedAssumption

\* edgx_sched_calc_future_time returns a time, whatever the base time.
LEMMA FutureTimeType ==
  ASSUME NEW base \in Int, NEW t \in Int, NEW cycle \in Nat, cycle # 0
  PROVE  FutureTime(base, t, cycle) \in Int
BY DEF FutureTime

\* The start time is reduced to the range of the hardware's register.
LEMMA ReducedType ==
  ASSUME SchedAssumption, NEW t \in Int
  PROVE  t % SecRange \in 0..(SecRange - 1)
BY DEF SchedAssumption

\* Arithmetic modulo the range of the seconds register.  A multiple of n that is
\* smaller than n is zero.
LEMMA Multiple ==
  ASSUME NEW n \in Nat \ {0}, NEW k \in Int, -n < n * k, n * k < n
  PROVE  k = 0
<1>1. k >= 1 => n * k >= n
  OBVIOUS
<1>2. k <= -1 => n * k <= -n
  OBVIOUS
<1> QED BY <1>1, <1>2

\* Division with remainder.
LEMMA ModForm ==
  ASSUME NEW n \in Nat \ {0}, NEW a \in Int
  PROVE  a % n \in 0..(n - 1) /\ \E q \in Int : a = n * q + (a % n)
<1>1. a % n \in 0..(n - 1) /\ a \div n \in Int
  OBVIOUS
<1>2. a = n * (a \div n) + (a % n)
  OBVIOUS
<1> QED BY <1>1, <1>2

\* The remainder is the only one.
LEMMA ModUnique ==
  ASSUME NEW n \in Nat \ {0}, NEW r \in 0..(n - 1), NEW q \in Int
  PROVE  (n * q + r) % n = r
<1> DEFINE a == n * q + r
<1>1. a \in Int
  OBVIOUS
<1>2. PICK p \in Int : a = n * p + (a % n)
  BY <1>1, ModForm
<1>3. a % n \in 0..(n - 1)
  BY <1>1, ModForm
<1>4. n * (q - p) = n * q - n * p
  OBVIOUS
<1>6. -n < n * (q - p) /\ n * (q - p) < n
  BY <1>2, <1>3, <1>4
<1>5. q - p = 0
  BY <1>6, Multiple
<1> QED BY <1>2, <1>5

\* A number that is divided without remainder.
LEMMA ModZero ==
  ASSUME NEW n \in Nat \ {0}, NEW h \in 0..(n - 1), NEW w \in Int, (h - w) % n = 0
  PROVE  w % n = h
<1>1. h - w \in Int
  OBVIOUS
<1>2. PICK q \in Int : h - w = n * q + ((h - w) % n)
  BY <1>1, ModForm
<1>3. -q \in Int /\ w = n * (-q) + h
  BY <1>2
<1> QED BY <1>3, ModUnique

\* A time less than n ahead is recognised from its remainder: why a start time may be
\* handed to the hardware without its upper bits, and only within reach.
LEMMA ModAhead ==
  ASSUME NEW n \in Nat \ {0}, NEW s \in Int, NEW w \in Int, s - w \in 0..(n - 1)
  PROVE  ((s % n) - w) % n = s - w
<1>1. PICK q \in Int : s = n * q + (s % n)
  BY ModForm
<1>2. (s % n) \in Int
  BY ModForm
<1>3. -q \in Int /\ (s % n) - w = n * (-q) + (s - w)
  BY <1>1, <1>2
<1>4. (n * (-q) + (s - w)) % n = s - w
  BY <1>3, ModUnique
<1> QED BY <1>3, <1>4

\* Corrected by the difference of the remainders, a time has the other remainder
\* (edgx_sched_fix_cc_time).
LEMMA ModShift ==
  ASSUME NEW n \in Nat \ {0}, NEW s \in Int, NEW h \in 0..(n - 1)
  PROVE  (s + (h - (s % n))) % n = h
<1>1. PICK q \in Int : s = n * q + (s % n)
  BY ModForm
<1>2. (s % n) \in Int
  BY ModForm
<1>3. s + (h - (s % n)) = n * q + h
  BY <1>1, <1>2
<1> QED BY <1>3, ModUnique

\* The range of the seconds register is more than twice the longest delay.
LEMMA RangeType ==
  ASSUME SchedAssumption
  PROVE  /\ SecRange \in Nat \ {0} /\ MaxDelay \in Nat \ {0}
         /\ 2 * MaxDelay < SecRange /\ MaxDelay <= SecRange \div 2
BY DEF SchedAssumption

\* Only a start time within reach is submitted at once.
LEMMA DelayNone ==
  ASSUME SchedAssumption, NEW start \in Int, now \in Nat, ~(Delay(start) > 0)
  PROVE  start - now <= MaxDelay
BY DEF SchedAssumption, Delay

\* The rows written for a usable table are entries of its list.
LEMMA RowOfType ==
  ASSUME SchedAssumption, NEW a \in AdminType, ParamsOK(a), NEW i \in Nat \ {0}
  PROVE  RowOf(a, i) \in Entries
BY DEF SchedAssumption, AdminType, ListType, ParamsOK, RowOf

\* The rows of a table are at most one more than its entries.
LEMMA UpperBound == \A n \in Nat : \A i \in 1..(n + 1) : i <= n + 1
OBVIOUS

\* The rows of a table and the one after them fit the hardware table.
LEMMA LenType ==
  ASSUME SchedAssumption, NEW a \in AdminType
  PROVE  a.len \in Nat /\ a.len + 1 \in RowIdx /\ 1..(a.len + 1) \subseteq RowIdx
<1>1. a.len \in 0..MaxEntries
  BY DEF AdminType
<1>2. MaxEntries \in Nat
  BY DEF SchedAssumption
<1> QED
  BY <1>1, <1>2 DEF RowIdx

\* A usable table yields rates.
LEMMA RateOfType ==
  ASSUME SchedAssumption, NEW a \in AdminType, ParamsOK(a)
  PROVE  RateOf(a) \in RateType
<1>1. a.len \in 0..Len(a.list) /\ a.list \in Seq(Entries) /\ Len(a.list) <= MaxEntries
  BY DEF SchedAssumption, AdminType, ListType, ParamsOK
<1>2. SubSeq(a.list, 1, a.len) \in Seq(Entries) /\ Len(SubSeq(a.list, 1, a.len)) = a.len
  BY <1>1
<1> QED
  BY <1>1, <1>2 DEF SchedAssumption, RateOf, RateType, ListType, AdminType

\* The rate without a schedule is a rate.
LEMMA FullRateType == ASSUME SchedAssumption PROVE FullRate \in RateType
BY DEF SchedAssumption, FullRate, RateType, ListType

\* The delay the delayed work is armed with is never negative.
LEMMA DelayType ==
  ASSUME SchedAssumption, NEW start \in Int, now \in Nat
  PROVE  Delay(start) \in Nat
BY DEF SchedAssumption, Delay

\* The next table is never the running one.
LEMMA FreeTabFree ==
  ASSUME HwType
  PROVE  FreeTab \in Tabs /\ FreeTab # inUse
BY DEF HwType, FreeTab, Tabs, NoTab

\* A call moves no clock.
LEMMA CallEnv ==
  ASSUME SchedAssumption, EnvType, NEW u, NEW c, Call(u, c)
  PROVE  EnvType'
BY DEF EnvType, Call, SchedAssumption

\* The start of a usable table is a time.
LEMMA StartBaseType ==
  ASSUME SchedAssumption, TableType, EnvType, ParamsOK(admin)
  PROVE  StartBase(admin) \in Int
<1>1. admin.base \in Int /\ admin.cycle \in Nat /\ admin.cycle # 0 /\ now \in Int
  BY DEF ParamsOK, TableType, AdminType, EnvType, SchedAssumption
<1>2. FutureTime(admin.base, now, admin.cycle) \in Int
  BY <1>1, FutureTimeType
<1> QED
  BY <1>1, <1>2 DEF StartBase

\* Taking the lock, or moving on with it, and giving it back.
LEMMA ProceedLock ==
  ASSUME SchedAssumption, LockType, LockInv, NEW p \in Procs, NEW step,
         lock = NoLock \/ lock = p, Proceed(p, step)
  PROVE  LockInv'
<1> SUFFICES ASSUME NEW q \in Procs, pc'[q] # "idle"
             PROVE  lock' = q
  BY DEF LockInv
<1>1. CASE q = p
  BY <1>1 DEF Proceed
<1>2. CASE q # p
  BY <1>2 DEF SchedAssumption, LockType, LockInv, Proceed
<1> QED
  BY <1>1, <1>2

\* A handler that returns leaves sched->lock free and in order.
LEMMA ReturnLock ==
  ASSUME SchedAssumption, LockType, LockInv, NEW p \in Procs, lock = p, Return(p)
  PROVE  LockInv'
BY DEF SchedAssumption, LockType, LockInv, Return, Procs

-----------------------------------------------------------------------------
(* Every step keeps each part of the invariant. *)

\* The lock and the program counters.
LEMMA LockTypeStep ==
  ASSUME SchedAssumption, LockType, Next
  PROVE  LockType'
<1> USE DEF LockType, Procs
<1>1. ASSUME NEW u \in Users, SetConfigChange(u) PROVE LockType'
  BY <1>1 DEF SetConfigChange, Call, Proceed, timer, irq, hw
<1>2. ASSUME NEW u \in Users, SetGateEnabled(u) PROVE LockType'
  BY <1>2 DEF SetGateEnabled, Call, Proceed, Notify, timer, irq
<1>3. ASSUME NEW u \in Users, SetGateDisabled(u) PROVE LockType'
  BY <1>3 DEF SetGateDisabled, Call, Proceed, timer, irq, hw
<1>4. ASSUME NEW p \in Procs, GateDisable(p) PROVE LockType'
  BY <1>4 DEF GateDisable, Return, Notify, CancelPending, irq, env, CancelHw
<1>5. ASSUME NEW p \in Procs, CfgCancel(p) PROVE LockType'
  BY <1>5 DEF CfgCancel, Proceed, Return, CancelPending, irq, env, CancelHw
<1>6. ASSUME NEW p \in Procs, CfgReject(p) PROVE LockType'
  BY <1>6 DEF CfgReject, Return, timer, irq, hw, env, Done
<1>7. ASSUME NEW p \in Procs, CfgCalcTime(p) PROVE LockType'
  BY <1>7 DEF CfgCalcTime, Proceed, Return, timer, irq, hw, env, Done
<1>8. ASSUME NEW p \in Procs, CfgWriteRows(p) PROVE LockType'
  BY <1>8 DEF CfgWriteRows, Proceed, timer, irq, env
<1>9. ASSUME NEW p \in Procs, CfgWriteRowsFails(p) PROVE LockType'
  BY <1>9 DEF CfgWriteRowsFails, Return, timer, irq, env, Done
<1>10. ASSUME NEW p \in Procs, CfgSubmit(p) PROVE LockType'
  BY <1>10 DEF CfgSubmit, Return, timer, irq, env, Done
<1>11. ASSUME PendingDelayed PROVE LockType'
  BY <1>11 DEF PendingDelayed, Proceed, irq, hw, env
<1>12. ASSUME UNCHANGED <<lock, pc>> PROVE LockType'
  BY <1>12
<1> QED
  BY <1>1, <1>2, <1>3, <1>4, <1>5, <1>6, <1>7, <1>8, <1>9, <1>10, <1>11, <1>12 DEF Next, UserCall, LockedStep, IsrStep, HwStep,
    SetBaseTime, Call, timer, irq, hw, SetCycleTime, SetCtrlListLen, SetAdminCtrlList, ResetConfigChange, WorkExpires, driver, env, Isr, IsrWorkStart, CctHandler, IsrWorkDone, Tick, HwSwap, HwAdjustStart, HwIsPending

\* The administrative table and its copies.
LEMMA TableTypeStep ==
  ASSUME SchedAssumption, TableType, Next
  PROVE  TableType'
<1> USE DEF TableType
<1>1. ASSUME NEW u \in Users, SetBaseTime(u) PROVE TableType'
  BY <1>1 DEF SetBaseTime, Call, timer, irq, hw, AdminType, SchedAssumption
<1>2. ASSUME NEW u \in Users, SetCycleTime(u) PROVE TableType'
  BY <1>2 DEF SetCycleTime, Call, timer, irq, hw, AdminType, SchedAssumption
<1>3. ASSUME NEW u \in Users, SetCtrlListLen(u) PROVE TableType'
  BY <1>3 DEF SetCtrlListLen, Call, timer, irq, hw, AdminType, SchedAssumption
<1>4. ASSUME NEW u \in Users, SetAdminCtrlList(u) PROVE TableType'
  <2>1. PICK w \in ListWrites :
          LET tooBig == w.first + Len(w.es) > MaxEntries
              before == IF w.first = 0 THEN <<>> ELSE admin.list
              gap    == w.first # Len(before)
          IN  \/ admin' = admin
              \/ /\ ~tooBig /\ ~gap
                 /\ admin' = [admin EXCEPT !.list = before \o w.es]
    BY <1>4 DEF SetAdminCtrlList
  <2>2. op' = op
    BY <1>4 DEF SetAdminCtrlList
  <2>3. w.first \in Nat /\ w.es \in Seq(Entries) /\ MaxEntries \in Nat
    BY DEF SchedAssumption, ListType
  <2>4. admin.list \in Seq(Entries) /\ admin \in AdminType
    BY DEF AdminType, ListType
  <2> DEFINE before == IF w.first = 0 THEN <<>> ELSE admin.list
  <2>5. before \in Seq(Entries)
    BY <2>4
  <2>6. before \o w.es \in Seq(Entries) /\ Len(before \o w.es) = Len(before) + Len(w.es)
    BY <2>3, <2>5
  <2> HIDE DEF before
  <2>7. CASE admin' = admin
    BY <2>7, <2>2
  <2>8. CASE /\ ~(w.first + Len(w.es) > MaxEntries) /\ w.first = Len(before)
             /\ admin' = [admin EXCEPT !.list = before \o w.es]
    <3>1. before \o w.es \in ListType
      BY <2>3, <2>5, <2>6, <2>8 DEF ListType
    <3> QED
      BY <2>2, <2>4, <2>8, <3>1 DEF AdminType
  <2> QED
    BY <2>1, <2>7, <2>8 DEF before
<1>5. ASSUME NEW p \in Procs, CfgWriteRows(p) PROVE TableType'
  BY <1>5 DEF CfgWriteRows, Proceed, timer, irq, env
<1>6. ASSUME NEW p \in Procs, CfgWriteRowsFails(p) PROVE TableType'
  BY <1>6 DEF CfgWriteRowsFails, Return, timer, irq, env, Done
<1>7. ASSUME UNCHANGED <<admin, op>> PROVE TableType'
  BY <1>7
<1> QED
  BY <1>1, <1>2, <1>3, <1>4, <1>5, <1>6, <1>7 DEF Next, UserCall, LockedStep, IsrStep, HwStep,
    SetConfigChange, Call, Proceed, timer, irq, hw, ResetConfigChange, SetGateEnabled, SetGateDisabled, GateDisable, Return, env, CfgCancel, CfgReject, CfgCalcTime, CfgSubmit, WorkExpires, driver, PendingDelayed, Isr, IsrWorkStart, CctHandler, IsrWorkDone, Tick, HwSwap, HwAdjustStart, Done, HwIsPending

\* The state machine's variables.
LEMMA DriverTypeStep ==
  ASSUME SchedAssumption, DriverType, TableType, HwType, EnvType, Next
  PROVE  DriverType'
<1> USE DEF DriverType
<1>1. ASSUME NEW u \in Users, SetCycleTime(u) PROVE DriverType'
  BY <1>1, CountErrType DEF SetCycleTime, Call, timer, irq, hw
<1>2. ASSUME NEW u \in Users, SetAdminCtrlList(u) PROVE DriverType'
  BY <1>2, CountErrType DEF SetAdminCtrlList, Call, timer, irq, hw
<1>3. ASSUME NEW u \in Users, SetConfigChange(u) PROVE DriverType'
  BY <1>3 DEF SetConfigChange, Call, Proceed, timer, irq, hw
<1>4. ASSUME NEW u \in Users, ResetConfigChange(u) PROVE DriverType'
  BY <1>4 DEF ResetConfigChange, Call, timer, irq, hw
<1>5. ASSUME NEW u \in Users, SetGateEnabled(u) PROVE DriverType'
  BY <1>5 DEF SetGateEnabled, Call, Proceed, Notify, timer, irq
<1>6. ASSUME NEW u \in Users, SetGateDisabled(u) PROVE DriverType'
  BY <1>6 DEF SetGateDisabled, Call, Proceed, timer, irq, hw
<1>7. ASSUME NEW p \in Procs, GateDisable(p) PROVE DriverType'
  BY <1>7 DEF GateDisable, Return, Notify, CancelPending, irq, env, CancelHw
<1>8. ASSUME NEW p \in Procs, CfgCancel(p) PROVE DriverType'
  BY <1>8 DEF CfgCancel, Proceed, Return, CancelPending, irq, env, CancelHw
<1>9. ASSUME NEW p \in Procs, CfgReject(p) PROVE DriverType'
  BY <1>9 DEF CfgReject, Return, timer, irq, hw, env, Done
<1>10. ASSUME NEW p \in Procs, CfgCalcTime(p) PROVE DriverType'
  <2>1. ParamsOK(admin) /\ StartBase(admin) \in Int
    BY <1>10, StartBaseType DEF CfgCalcTime, Done
  <2>2. ccTime' \in Int /\ startTime' \in Int
    BY <1>10, <2>1 DEF CfgCalcTime, SchedAssumption, Done
  <2> QED
    BY <1>10, <2>2, CountErrType DEF CfgCalcTime, Proceed, Return, Done
<1>11. ASSUME NEW p \in Procs, CfgWriteRowsFails(p) PROVE DriverType'
  BY <1>11 DEF CfgWriteRowsFails, Return, timer, irq, env, Done
<1>12. ASSUME NEW p \in Procs, CfgSubmit(p) PROVE DriverType'
  BY <1>12 DEF CfgSubmit, Return, timer, irq, env, Done
<1>13. ASSUME PendingDelayed PROVE DriverType'
  BY <1>13 DEF PendingDelayed, Proceed, irq, hw, env
<1>14. ASSUME CctHandler PROVE DriverType'
  <2>1. ASSUME inUse # NoTab PROVE hwStart[inUse] \in Int
    BY <2>1 DEF HwType, SchedAssumption
  <2>2. startTime % SecRange \in Int
    BY ReducedType DEF SchedAssumption
  <2>3. ASSUME FixCcTime
        PROVE  startTime' \in Int /\ ccTime' \in Int /\ err' \in 0..ErrCap
    BY <2>1, <2>2, <2>3, CountErrType DEF FixCcTime, SchedAssumption
  <2> QED
    BY <1>14, <2>3 DEF CctHandler, Notify, HwIsPending
<1>15. ASSUME UNCHANGED <<gateEnabled, confChange, state, startTime, ccTime, err>> PROVE DriverType'
  BY <1>15
<1> QED
  BY <1>1, <1>2, <1>3, <1>4, <1>5, <1>6, <1>7, <1>8, <1>9, <1>10, <1>11, <1>12, <1>13, <1>14, <1>15 DEF Next, UserCall, LockedStep, IsrStep, HwStep,
    SetBaseTime, Call, timer, irq, hw, SetCtrlListLen, CfgWriteRows, Proceed, env, WorkExpires, driver, Isr, IsrWorkStart, IsrWorkDone, Tick, HwSwap, HwAdjustStart

\* The rates.
LEMMA ShaperTypeStep ==
  ASSUME SchedAssumption, ShaperType, TableType, SubmitInv, Next
  PROVE  ShaperType'
<1> USE DEF ShaperType
<1>1. ASSUME NEW u \in Users, SetGateEnabled(u) PROVE ShaperType'
  BY <1>1 DEF SetGateEnabled, Call, Proceed, Notify, timer, irq
<1>2. ASSUME NEW p \in Procs, GateDisable(p) PROVE ShaperType'
  BY <1>2 DEF GateDisable, Return, Notify, CancelPending, irq, env, CancelHw
<1>3. ASSUME NEW p \in Procs, CfgWriteRows(p) PROVE ShaperType'
  BY <1>3, RateOfType DEF CfgWriteRows, Proceed, timer, irq, env, SubmitInv, TableType
<1>4. ASSUME CctHandler PROVE ShaperType'
  BY <1>4 DEF CctHandler, Notify, FixCcTime, timer, hw, env, HwIsPending
<1>5. ASSUME UNCHANGED <<trRate, fqtss>> PROVE ShaperType'
  BY <1>5
<1> QED
  BY <1>1, <1>2, <1>3, <1>4, <1>5 DEF Next, UserCall, LockedStep, IsrStep, HwStep,
    SetBaseTime, Call, timer, irq, hw, SetCycleTime, SetCtrlListLen, SetAdminCtrlList, SetConfigChange, Proceed, ResetConfigChange, SetGateDisabled, CfgCancel, Return, env, CfgReject, CfgCalcTime, CfgWriteRowsFails, CfgSubmit, WorkExpires, driver, PendingDelayed, Isr, IsrWorkStart, IsrWorkDone, Tick, HwSwap, HwAdjustStart, Done

\* The delayed work.
LEMMA TimerTypeStep ==
  ASSUME SchedAssumption, TimerType, TableType, EnvType, Next
  PROVE  TimerType'
<1> USE DEF TimerType
<1>1. ASSUME NEW p \in Procs, GateDisable(p) PROVE TimerType'
  BY <1>1 DEF GateDisable, Return, Notify, CancelPending, irq, env, CancelHw
<1>2. ASSUME NEW p \in Procs, CfgCancel(p) PROVE TimerType'
  BY <1>2 DEF CfgCancel, Proceed, Return, CancelPending, irq, env, CancelHw
<1>3. ASSUME NEW p \in Procs, CfgCalcTime(p) PROVE TimerType'
  <2>1. ParamsOK(admin) /\ StartBase(admin) \in Int
    BY <1>3, StartBaseType DEF CfgCalcTime, Done
  <2>2. StartBase(admin) - TimeAdvance \in Int /\ now \in Nat
    BY <2>1 DEF SchedAssumption, EnvType
  <2>3. Delay(StartBase(admin) - TimeAdvance) \in Nat
    BY <2>2, DelayType
  <2> QED
    BY <1>3, <2>2, <2>3 DEF CfgCalcTime, timer, Done
<1>4. ASSUME WorkExpires PROVE TimerType'
  BY <1>4 DEF WorkExpires, driver, irq, hw, env
<1>5. ASSUME PendingDelayed PROVE TimerType'
  BY <1>5 DEF PendingDelayed, Proceed, irq, hw, env
<1>6. ASSUME UNCHANGED <<work, workDue>> PROVE TimerType'
  BY <1>6
<1> QED
  BY <1>1, <1>2, <1>3, <1>4, <1>5, <1>6 DEF Next, UserCall, LockedStep, IsrStep, HwStep,
    SetBaseTime, Call, timer, irq, hw, SetCycleTime, SetCtrlListLen, SetAdminCtrlList, SetConfigChange, Proceed, ResetConfigChange, SetGateEnabled, SetGateDisabled, CfgReject, Return, env, CfgWriteRows, CfgWriteRowsFails, CfgSubmit, Isr, driver, IsrWorkStart, CctHandler, IsrWorkDone, Tick, HwSwap, HwAdjustStart, Done, HwIsPending

\* The interrupt.
LEMMA IrqTypeStep ==
  ASSUME SchedAssumption, IrqType, Next
  PROVE  IrqType'
<1> USE DEF IrqType
<1>1. ASSUME Isr PROVE IrqType'
  BY <1>1 DEF Isr, driver, timer, hw, env
<1>2. ASSUME IsrWorkStart PROVE IrqType'
  BY <1>2 DEF IsrWorkStart, driver, timer, hw, env
<1>3. ASSUME CctHandler PROVE IrqType'
  BY <1>3 DEF CctHandler, Notify, FixCcTime, timer, hw, env, HwIsPending
<1>4. ASSUME IsrWorkDone PROVE IrqType'
  BY <1>4 DEF IsrWorkDone, driver, timer, hw, env
<1>5. ASSUME NEW t \in Tabs, HwSwap(t) PROVE IrqType'
  BY <1>5 DEF HwSwap, driver, timer
<1>6. ASSUME UNCHANGED <<intStat, intMask, latch, queued, isr>> PROVE IrqType'
  BY <1>6
<1> QED
  BY <1>1, <1>2, <1>3, <1>4, <1>5, <1>6 DEF Next, UserCall, LockedStep, IsrStep, HwStep,
    SetBaseTime, Call, timer, irq, hw, SetCycleTime, SetCtrlListLen, SetAdminCtrlList, SetConfigChange, Proceed, ResetConfigChange, SetGateEnabled, SetGateDisabled, GateDisable, Return, env, CfgCancel, CfgReject, CfgCalcTime, CfgWriteRows, CfgWriteRowsFails, CfgSubmit, WorkExpires, driver, PendingDelayed, Tick, HwAdjustStart, Done

\* The hardware tables.
LEMMA HwTypeStep ==
  ASSUME SchedAssumption, HwType, TableType, DriverType, EnvType, SubmitInv, PendInv, Next
  PROVE  HwType'
<1> USE DEF HwType
<1>1. ASSUME NEW u \in Users, SetGateEnabled(u) PROVE HwType'
  BY <1>1 DEF SetGateEnabled, Call, Proceed, Notify, timer, irq
<1>2. ASSUME NEW p \in Procs, GateDisable(p) PROVE HwType'
  BY <1>2 DEF GateDisable, Return, Notify, CancelPending, irq, env, CancelHw
<1>3. ASSUME NEW p \in Procs, CfgCancel(p) PROVE HwType'
  BY <1>3 DEF CfgCancel, Proceed, Return, CancelPending, irq, env, CancelHw
<1>4. ASSUME NEW p \in Procs, CfgWriteRows(p) PROVE HwType'
  <2>1. ParamsOK(admin) /\ admin \in AdminType
    BY <1>4 DEF CfgWriteRows, SubmitInv, TableType
  <2>2. \A i \in RowIdx : RowOf(admin, i) \in Entries
    BY <2>1, RowOfType DEF RowIdx, SchedAssumption
  <2>3. \A k : RowsWritten(FreeTab, k) \in [Tabs -> [RowIdx -> Entries \cup {NoEntry}]]
    BY <2>2, FreeTabFree DEF RowsWritten
  <2> QED
    BY <1>4, <2>3 DEF CfgWriteRows
<1>5. ASSUME NEW p \in Procs, CfgWriteRowsFails(p) PROVE HwType'
  <2>1. ParamsOK(admin) /\ admin \in AdminType
    BY <1>5 DEF CfgWriteRowsFails, SubmitInv, TableType, Done
  <2>2. \A i \in RowIdx : RowOf(admin, i) \in Entries
    BY <2>1, RowOfType DEF RowIdx, SchedAssumption
  <2>3. \A k : RowsWritten(FreeTab, k) \in [Tabs -> [RowIdx -> Entries \cup {NoEntry}]]
    BY <2>2, FreeTabFree DEF RowsWritten
  <2> QED
    BY <1>5, <2>3 DEF CfgWriteRowsFails, Done
<1>6. ASSUME NEW p \in Procs, CfgSubmit(p) PROVE HwType'
  BY <1>6, ReducedType, FreeTabFree DEF CfgSubmit, Return, timer, irq, env, DriverType, Done
<1>7. ASSUME NEW t \in Tabs, HwSwap(t) PROVE HwType'
  BY <1>7 DEF HwSwap, driver, timer
<1>8. ASSUME NEW t \in Tabs, HwAdjustStart(t) PROVE HwType'
  <2>1. op[t].cycle \in Nat /\ op[t].cycle # 0
    BY <1>8 DEF HwAdjustStart, PendInv, ParamsOK, TableType, AdminType, SchedAssumption
  <2>2. Behind(t) \in Int
    BY DEF Behind, Ahead, EnvType, SchedAssumption
  <2>3. FutureTime(now - Behind(t), now, op[t].cycle) \in Int
    BY <2>1, <2>2, FutureTimeType DEF EnvType
  <2> QED
    BY <1>8, <2>3, ReducedType DEF HwAdjustStart
<1>9. ASSUME UNCHANGED <<hwRows, hwStart, canUse, inUse, muxOn>> PROVE HwType'
  BY <1>9
<1> QED
  BY <1>1, <1>2, <1>3, <1>4, <1>5, <1>6, <1>7, <1>8, <1>9 DEF Next, UserCall, LockedStep, IsrStep, HwStep,
    SetBaseTime, Call, timer, irq, hw, SetCycleTime, SetCtrlListLen, SetAdminCtrlList, SetConfigChange, Proceed, ResetConfigChange, SetGateDisabled, CfgReject, Return, env, CfgCalcTime, WorkExpires, driver, PendingDelayed, Isr, IsrWorkStart, CctHandler, IsrWorkDone, Tick, Done, HwIsPending

\* Time and history.
LEMMA EnvTypeStep ==
  ASSUME SchedAssumption, EnvType, Next
  PROVE  EnvType'
<1> USE DEF SchedAssumption
<1>1. ASSUME NEW u \in Users, SetBaseTime(u) PROVE EnvType'
  BY <1>1, CallEnv DEF SetBaseTime
<1>2. ASSUME NEW u \in Users, SetCycleTime(u) PROVE EnvType'
  BY <1>2, CallEnv DEF SetCycleTime
<1>3. ASSUME NEW u \in Users, SetCtrlListLen(u) PROVE EnvType'
  BY <1>3, CallEnv DEF SetCtrlListLen
<1>4. ASSUME NEW u \in Users, SetAdminCtrlList(u) PROVE EnvType'
  BY <1>4, CallEnv DEF SetAdminCtrlList
<1>5. ASSUME NEW u \in Users, SetConfigChange(u) PROVE EnvType'
  BY <1>5, CallEnv DEF SetConfigChange
<1>6. ASSUME NEW u \in Users, ResetConfigChange(u) PROVE EnvType'
  BY <1>6, CallEnv DEF ResetConfigChange
<1>7. ASSUME NEW u \in Users, SetGateEnabled(u) PROVE EnvType'
  BY <1>7, CallEnv DEF SetGateEnabled
<1>8. ASSUME NEW u \in Users, SetGateDisabled(u) PROVE EnvType'
  BY <1>8, CallEnv DEF SetGateDisabled
<1>9. ASSUME Tick PROVE EnvType'
  BY <1>9 DEF Tick, driver, timer, irq, hw, EnvType
<1>10. ASSUME NEW t \in Tabs, HwSwap(t) PROVE EnvType'
  BY <1>10 DEF HwSwap, driver, timer, EnvType
<1>11. ASSUME UNCHANGED <<now, calls, switchedAt>> PROVE EnvType'
  BY <1>11 DEF EnvType
<1> QED
  BY <1>1, <1>2, <1>3, <1>4, <1>5, <1>6, <1>7, <1>8, <1>9, <1>10, <1>11 DEF Next, UserCall, LockedStep, IsrStep, HwStep,
    GateDisable, Return, irq, env, CfgCancel, Proceed, CfgReject, timer, hw, CfgCalcTime, CfgWriteRows, CfgWriteRowsFails, CfgSubmit, WorkExpires, driver, PendingDelayed, Isr, IsrWorkStart, CctHandler, IsrWorkDone, HwAdjustStart, Done, HwIsPending

\* Mutual exclusion: only the owner of the lock is in the middle of a call.
LEMMA LockInvStep ==
  ASSUME SchedAssumption, LockType, LockInv, Next
  PROVE  LockInv'
<1> USE DEF Procs
<1>1. ASSUME NEW u \in Users, SetConfigChange(u) PROVE LockInv'
  BY <1>1, ProceedLock DEF SetConfigChange, Call
<1>2. ASSUME NEW u \in Users, SetGateEnabled(u) PROVE LockInv'
  <2>1. CASE Proceed(u, "cfg")
    BY <1>2, <2>1, ProceedLock DEF SetGateEnabled, Call
  <2>2. CASE UNCHANGED <<lock, pc>>
    BY <2>2 DEF LockInv
  <2> QED
    BY <1>2, <2>1, <2>2 DEF SetGateEnabled
<1>3. ASSUME NEW u \in Users, SetGateDisabled(u) PROVE LockInv'
  BY <1>3, ProceedLock DEF SetGateDisabled, Call
<1>4. ASSUME NEW p \in Procs, GateDisable(p) PROVE LockInv'
  <2>1. lock = p /\ (Return(p) \/ \E step : Proceed(p, step))
    BY <1>4 DEF GateDisable, LockInv
  <2> QED
    BY <2>1, ProceedLock, ReturnLock
<1>5. ASSUME NEW p \in Procs, CfgCancel(p) PROVE LockInv'
  <2>1. lock = p /\ (Return(p) \/ \E step : Proceed(p, step))
    BY <1>5 DEF CfgCancel, LockInv
  <2> QED
    BY <2>1, ProceedLock, ReturnLock
<1>6. ASSUME NEW p \in Procs, CfgReject(p) PROVE LockInv'
  <2>1. lock = p /\ (Return(p) \/ \E step : Proceed(p, step))
    BY <1>6 DEF CfgReject, LockInv, Done
  <2> QED
    BY <2>1, ProceedLock, ReturnLock
<1>7. ASSUME NEW p \in Procs, CfgCalcTime(p) PROVE LockInv'
  <2>1. lock = p /\ (Return(p) \/ \E step : Proceed(p, step))
    BY <1>7 DEF CfgCalcTime, LockInv, Done
  <2> QED
    BY <2>1, ProceedLock, ReturnLock
<1>8. ASSUME NEW p \in Procs, CfgWriteRows(p) PROVE LockInv'
  <2>1. lock = p /\ (Return(p) \/ \E step : Proceed(p, step))
    BY <1>8 DEF CfgWriteRows, LockInv
  <2> QED
    BY <2>1, ProceedLock, ReturnLock
<1>9. ASSUME NEW p \in Procs, CfgWriteRowsFails(p) PROVE LockInv'
  <2>1. lock = p /\ (Return(p) \/ \E step : Proceed(p, step))
    BY <1>9 DEF CfgWriteRowsFails, LockInv, Done
  <2> QED
    BY <2>1, ProceedLock, ReturnLock
<1>10. ASSUME NEW p \in Procs, CfgSubmit(p) PROVE LockInv'
  <2>1. lock = p /\ (Return(p) \/ \E step : Proceed(p, step))
    BY <1>10 DEF CfgSubmit, LockInv, Done
  <2> QED
    BY <2>1, ProceedLock, ReturnLock
<1>11. ASSUME PendingDelayed PROVE LockInv'
  <2>1. CASE Proceed(Worker, "cfg")
    BY <1>11, <2>1, ProceedLock DEF PendingDelayed
  <2>2. CASE UNCHANGED <<lock, pc>>
    BY <2>2 DEF LockInv
  <2> QED
    BY <1>11, <2>1, <2>2 DEF PendingDelayed
<1>12. ASSUME UNCHANGED <<lock, pc>> PROVE LockInv'
  BY <1>12 DEF LockInv
<1> QED
  BY <1>1, <1>2, <1>3, <1>4, <1>5, <1>6, <1>7, <1>8, <1>9, <1>10, <1>11, <1>12 DEF Next, UserCall, LockedStep, IsrStep, HwStep,
    SetBaseTime, Call, timer, irq, hw, SetCycleTime, SetCtrlListLen, SetAdminCtrlList, ResetConfigChange, WorkExpires, driver, env, Isr, IsrWorkStart, CctHandler, IsrWorkDone, Tick, HwSwap, HwAdjustStart, HwIsPending

\* Nothing is pending while a change is being made.
LEMMA BusyInvStep ==
  ASSUME SchedAssumption, LockType, LockInv, BusyInv, PendInv, Next
  PROVE  BusyInv'
<1> USE DEF BusyInv, LockInv, LockType, SchedAssumption, Procs
<1>1. ASSUME NEW u \in Users, SetConfigChange(u) PROVE BusyInv'
  BY <1>1 DEF SetConfigChange, Call, Proceed, timer, irq, hw
<1>2. ASSUME NEW u \in Users, SetGateEnabled(u) PROVE BusyInv'
  BY <1>2 DEF SetGateEnabled, Call, Proceed, Notify, timer, irq
<1>3. ASSUME NEW u \in Users, SetGateDisabled(u) PROVE BusyInv'
  BY <1>3 DEF SetGateDisabled, Call, Proceed, timer, irq, hw
<1>4. ASSUME NEW p \in Procs, GateDisable(p) PROVE BusyInv'
  BY <1>4 DEF GateDisable, Return, Notify, CancelPending, irq, env, CancelHw
<1>5. ASSUME NEW p \in Procs, CfgCancel(p) PROVE BusyInv'
  BY <1>5 DEF CfgCancel, Proceed, Return, CancelPending, irq, env, PendInv, CancelHw
<1>6. ASSUME NEW p \in Procs, CfgReject(p) PROVE BusyInv'
  BY <1>6 DEF CfgReject, Return, timer, irq, hw, env, Done
<1>7. ASSUME NEW p \in Procs, CfgCalcTime(p) PROVE BusyInv'
  BY <1>7 DEF CfgCalcTime, Proceed, Return, timer, irq, hw, env, Done
<1>8. ASSUME NEW p \in Procs, CfgWriteRows(p) PROVE BusyInv'
  BY <1>8 DEF CfgWriteRows, Proceed, timer, irq, env
<1>9. ASSUME NEW p \in Procs, CfgWriteRowsFails(p) PROVE BusyInv'
  BY <1>9 DEF CfgWriteRowsFails, Return, timer, irq, env, Done
<1>10. ASSUME NEW p \in Procs, CfgSubmit(p) PROVE BusyInv'
  BY <1>10 DEF CfgSubmit, Return, timer, irq, env, Done
<1>11. ASSUME PendingDelayed PROVE BusyInv'
  BY <1>11 DEF PendingDelayed, Proceed, irq, hw, env
<1>12. ASSUME CctHandler PROVE BusyInv'
  BY <1>12 DEF CctHandler, Notify, FixCcTime, timer, hw, env, HwIsPending
<1>13. ASSUME NEW t \in Tabs, HwSwap(t) PROVE BusyInv'
  BY <1>13 DEF HwSwap, driver, timer
<1>14. ASSUME UNCHANGED <<pc, canUse, state, gateEnabled>> PROVE BusyInv'
  BY <1>14
<1> QED
  BY <1>1, <1>2, <1>3, <1>4, <1>5, <1>6, <1>7, <1>8, <1>9, <1>10, <1>11, <1>12, <1>13, <1>14 DEF Next, UserCall, LockedStep, IsrStep, HwStep,
    SetBaseTime, Call, timer, irq, hw, SetCycleTime, SetCtrlListLen, SetAdminCtrlList, ResetConfigChange, WorkExpires, driver, env, Isr, IsrWorkStart, IsrWorkDone, Tick, HwAdjustStart

\* What is being submitted is a usable table, copied in full.
LEMMA SubmitInvStep ==
  ASSUME SchedAssumption, LockType, TableType, HwType, LockInv, BusyInv, SubmitInv, Next
  PROVE  SubmitInv'
<1> USE DEF SubmitInv, LockInv, LockType, SchedAssumption, Procs
<1>1. ASSUME NEW u \in Users, SetBaseTime(u) PROVE SubmitInv'
  BY <1>1 DEF SetBaseTime, Call, timer, irq, hw
<1>2. ASSUME NEW u \in Users, SetCycleTime(u) PROVE SubmitInv'
  BY <1>2 DEF SetCycleTime, Call, timer, irq, hw
<1>3. ASSUME NEW u \in Users, SetCtrlListLen(u) PROVE SubmitInv'
  BY <1>3 DEF SetCtrlListLen, Call, timer, irq, hw
<1>4. ASSUME NEW u \in Users, SetAdminCtrlList(u) PROVE SubmitInv'
  BY <1>4 DEF SetAdminCtrlList, Call, timer, irq, hw
<1>5. ASSUME NEW u \in Users, SetConfigChange(u) PROVE SubmitInv'
  BY <1>5 DEF SetConfigChange, Call, Proceed, timer, irq, hw
<1>6. ASSUME NEW u \in Users, SetGateEnabled(u) PROVE SubmitInv'
  BY <1>6 DEF SetGateEnabled, Call, Proceed, Notify, timer, irq
<1>7. ASSUME NEW u \in Users, SetGateDisabled(u) PROVE SubmitInv'
  BY <1>7 DEF SetGateDisabled, Call, Proceed, timer, irq, hw
<1>8. ASSUME NEW p \in Procs, GateDisable(p) PROVE SubmitInv'
  BY <1>8 DEF GateDisable, Return, Notify, CancelPending, irq, env, CancelHw
<1>9. ASSUME NEW p \in Procs, CfgCancel(p) PROVE SubmitInv'
  BY <1>9 DEF CfgCancel, Proceed, Return, CancelPending, irq, env, CancelHw
<1>10. ASSUME NEW p \in Procs, CfgReject(p) PROVE SubmitInv'
  BY <1>10 DEF CfgReject, Return, timer, irq, hw, env, Done
<1>11. ASSUME NEW p \in Procs, CfgCalcTime(p) PROVE SubmitInv'
  BY <1>11 DEF CfgCalcTime, Proceed, Return, timer, irq, hw, env, Done
<1>12. ASSUME NEW p \in Procs, CfgWriteRows(p) PROVE SubmitInv'
  <2>1. FreeTab' = FreeTab /\ FreeTab \in Tabs /\ admin' = admin
    BY <1>12, FreeTabFree DEF CfgWriteRows, FreeTab
  <2>2. op'[FreeTab] = admin
    BY <1>12, <2>1 DEF CfgWriteRows, TableType
  <2>3. ASSUME NEW i \in 1..(admin.len + 1)
        PROVE  hwRows'[FreeTab][i] = RowOf(admin, i)
    <3>0. admin.len \in Nat /\ 1..(admin.len + 1) \subseteq RowIdx
      BY LenType DEF TableType
    <3> HIDE DEF SchedAssumption
    <3>1. i \in RowIdx
      BY <3>0
    <3>2. i <= admin.len + 1
      BY <3>0, UpperBound
    <3>3. hwRows' = RowsWritten(FreeTab, admin.len + 1) /\ FreeTab \in DOMAIN hwRows
      BY <1>12, <2>1 DEF CfgWriteRows, HwType
    <3> QED
      BY <3>1, <3>2, <3>3 DEF RowsWritten
  <2> QED
    BY <1>12, <2>1, <2>2, <2>3 DEF CfgWriteRows, Proceed
<1>13. ASSUME NEW p \in Procs, CfgWriteRowsFails(p) PROVE SubmitInv'
  BY <1>13 DEF CfgWriteRowsFails, Return, timer, irq, env, Done
<1>14. ASSUME NEW p \in Procs, CfgSubmit(p) PROVE SubmitInv'
  BY <1>14 DEF CfgSubmit, Return, timer, irq, env, Done
<1>15. ASSUME PendingDelayed PROVE SubmitInv'
  BY <1>15 DEF PendingDelayed, Proceed, irq, hw, env
<1>16. ASSUME NEW t \in Tabs, HwSwap(t) PROVE SubmitInv'
  BY <1>16 DEF HwSwap, driver, timer, BusyInv
<1>17. ASSUME UNCHANGED <<pc, admin, op, hwRows, inUse>> PROVE SubmitInv'
  BY <1>17 DEF FreeTab
<1> QED
  BY <1>1, <1>2, <1>3, <1>4, <1>5, <1>6, <1>7, <1>8, <1>9, <1>10, <1>11, <1>12, <1>13, <1>14, <1>15, <1>16, <1>17 DEF Next, UserCall, LockedStep, IsrStep, HwStep,
    ResetConfigChange, Call, timer, irq, hw, WorkExpires, driver, env, Isr, IsrWorkStart, CctHandler, IsrWorkDone, Tick, HwAdjustStart, HwIsPending

\* A pending table is the other one, and the driver knows of it.
LEMMA PendInvStep ==
  ASSUME SchedAssumption, LockType, TableType, HwType, LockInv, BusyInv, SubmitInv, PendInv, TimerInv, Next
  PROVE  PendInv'
<1> USE DEF PendInv
<1>1. ASSUME NEW p \in Procs, GateDisable(p) PROVE PendInv'
  BY <1>1 DEF GateDisable, Return, Notify, CancelPending, irq, env, CancelHw
<1>2. ASSUME NEW p \in Procs, CfgCancel(p) PROVE PendInv'
  BY <1>2 DEF CfgCancel, Proceed, Return, CancelPending, irq, env, CancelHw
<1>3. ASSUME NEW p \in Procs, CfgCalcTime(p) PROVE PendInv'
  BY <1>3 DEF CfgCalcTime, Proceed, Return, timer, irq, hw, env, BusyInv, Done
<1>4. ASSUME NEW p \in Procs, CfgWriteRows(p) PROVE PendInv'
  BY <1>4 DEF CfgWriteRows, Proceed, timer, irq, env, BusyInv
<1>5. ASSUME NEW p \in Procs, CfgWriteRowsFails(p) PROVE PendInv'
  BY <1>5 DEF CfgWriteRowsFails, Return, timer, irq, env, BusyInv, Done
<1>6. ASSUME NEW p \in Procs, CfgSubmit(p) PROVE PendInv'
  BY <1>6, FreeTabFree DEF CfgSubmit, Return, timer, irq, env, BusyInv, SubmitInv, Done
<1>7. ASSUME PendingDelayed PROVE PendInv'
  BY <1>7 DEF PendingDelayed, Proceed, irq, hw, env, TimerInv
<1>8. ASSUME CctHandler PROVE PendInv'
  BY <1>8 DEF CctHandler, Notify, FixCcTime, timer, hw, env, HwIsPending
<1>9. ASSUME NEW t \in Tabs, HwSwap(t) PROVE PendInv'
  BY <1>9 DEF HwSwap, driver, timer
<1>10. ASSUME UNCHANGED <<canUse, state, inUse, op>> PROVE PendInv'
  BY <1>10
<1> QED
  BY <1>1, <1>2, <1>3, <1>4, <1>5, <1>6, <1>7, <1>8, <1>9, <1>10 DEF Next, UserCall, LockedStep, IsrStep, HwStep,
    SetBaseTime, Call, timer, irq, hw, SetCycleTime, SetCtrlListLen, SetAdminCtrlList, SetConfigChange, Proceed, ResetConfigChange, SetGateEnabled, SetGateDisabled, CfgReject, Return, env, WorkExpires, driver, Isr, IsrWorkStart, IsrWorkDone, Tick, HwAdjustStart, Done

\* The delayed work and the state agree.
LEMMA TimerInvStep ==
  ASSUME SchedAssumption, LockType, TimerType, DriverType, LockInv, BusyInv, TimerInv, Next
  PROVE  TimerInv'
<1> USE DEF TimerInv
<1>1. ASSUME NEW p \in Procs, GateDisable(p) PROVE TimerInv'
  BY <1>1 DEF GateDisable, Return, Notify, CancelPending, irq, env, CancelHw
<1>2. ASSUME NEW p \in Procs, CfgCancel(p) PROVE TimerInv'
  BY <1>2 DEF CfgCancel, Proceed, Return, CancelPending, irq, env, CancelHw
<1>3. ASSUME NEW p \in Procs, CfgCalcTime(p) PROVE TimerInv'
  BY <1>3 DEF CfgCalcTime, Proceed, Return, timer, irq, hw, env, Done
<1>4. ASSUME NEW p \in Procs, CfgSubmit(p) PROVE TimerInv'
  BY <1>4 DEF CfgSubmit, Return, timer, irq, env, BusyInv, Done
<1>5. ASSUME WorkExpires PROVE TimerInv'
  BY <1>5 DEF WorkExpires, driver, irq, hw, env
<1>6. ASSUME PendingDelayed PROVE TimerInv'
  BY <1>6 DEF PendingDelayed, Proceed, irq, hw, env
<1>7. ASSUME CctHandler PROVE TimerInv'
  BY <1>7 DEF CctHandler, Notify, FixCcTime, timer, hw, env, HwIsPending
<1>8. ASSUME UNCHANGED <<work, state>> PROVE TimerInv'
  BY <1>8
<1> QED
  BY <1>1, <1>2, <1>3, <1>4, <1>5, <1>6, <1>7, <1>8 DEF Next, UserCall, LockedStep, IsrStep, HwStep,
    SetBaseTime, Call, timer, irq, hw, SetCycleTime, SetCtrlListLen, SetAdminCtrlList, SetConfigChange, Proceed, ResetConfigChange, SetGateEnabled, SetGateDisabled, CfgReject, Return, env, CfgWriteRows, CfgWriteRowsFails, Isr, driver, IsrWorkStart, IsrWorkDone, Tick, HwSwap, HwAdjustStart, Done

\* The MUX and the enable flag agree.
LEMMA GateInvStep ==
  ASSUME SchedAssumption, LockType, DriverType, HwType, LockInv, BusyInv, GateInv, Next
  PROVE  GateInv'
<1> USE DEF GateInv, LockInv, LockType, SchedAssumption, Procs
<1>1. ASSUME NEW u \in Users, SetConfigChange(u) PROVE GateInv'
  BY <1>1 DEF SetConfigChange, Call, Proceed, timer, irq, hw
<1>2. ASSUME NEW u \in Users, SetGateEnabled(u) PROVE GateInv'
  BY <1>2 DEF SetGateEnabled, Call, Proceed, Notify, timer, irq
<1>3. ASSUME NEW u \in Users, SetGateDisabled(u) PROVE GateInv'
  BY <1>3 DEF SetGateDisabled, Call, Proceed, timer, irq, hw
<1>4. ASSUME NEW p \in Procs, GateDisable(p) PROVE GateInv'
  BY <1>4 DEF GateDisable, Return, Notify, CancelPending, irq, env, DriverType, CancelHw
<1>5. ASSUME NEW p \in Procs, CfgCancel(p) PROVE GateInv'
  BY <1>5 DEF CfgCancel, Proceed, Return, CancelPending, irq, env, CancelHw
<1>6. ASSUME NEW p \in Procs, CfgReject(p) PROVE GateInv'
  BY <1>6 DEF CfgReject, Return, timer, irq, hw, env, Done
<1>7. ASSUME NEW p \in Procs, CfgCalcTime(p) PROVE GateInv'
  BY <1>7 DEF CfgCalcTime, Proceed, Return, timer, irq, hw, env, BusyInv, Done
<1>8. ASSUME NEW p \in Procs, CfgWriteRows(p) PROVE GateInv'
  BY <1>8 DEF CfgWriteRows, Proceed, timer, irq, env
<1>9. ASSUME NEW p \in Procs, CfgWriteRowsFails(p) PROVE GateInv'
  BY <1>9 DEF CfgWriteRowsFails, Return, timer, irq, env, Done
<1>10. ASSUME NEW p \in Procs, CfgSubmit(p) PROVE GateInv'
  BY <1>10 DEF CfgSubmit, Return, timer, irq, env, BusyInv, Done
<1>11. ASSUME PendingDelayed PROVE GateInv'
  BY <1>11 DEF PendingDelayed, Proceed, irq, hw, env
<1>12. ASSUME CctHandler PROVE GateInv'
  BY <1>12 DEF CctHandler, Notify, FixCcTime, timer, hw, env, HwIsPending
<1>13. ASSUME UNCHANGED <<muxOn, gateEnabled, state, pc>> PROVE GateInv'
  BY <1>13
<1> QED
  BY <1>1, <1>2, <1>3, <1>4, <1>5, <1>6, <1>7, <1>8, <1>9, <1>10, <1>11, <1>12, <1>13 DEF Next, UserCall, LockedStep, IsrStep, HwStep,
    SetBaseTime, Call, timer, irq, hw, SetCycleTime, SetCtrlListLen, SetAdminCtrlList, ResetConfigChange, WorkExpires, driver, env, Isr, IsrWorkStart, IsrWorkDone, Tick, HwSwap, HwAdjustStart

\* The mirrors and the hardware tables agree.
LEMMA MirrorStep ==
  ASSUME SchedAssumption, LockType, TableType, HwType, LockInv, BusyInv, SubmitInv, PendInv, Mirror, Next
  PROVE  Mirror'
<1> USE DEF Mirror, InOperation
<1>1. ASSUME NEW p \in Procs, GateDisable(p) PROVE Mirror'
  BY <1>1 DEF GateDisable, Return, Notify, CancelPending, irq, env, CancelHw
<1>2. ASSUME NEW p \in Procs, CfgCancel(p) PROVE Mirror'
  BY <1>2 DEF CfgCancel, Proceed, Return, CancelPending, irq, env, CancelHw
<1>3. ASSUME NEW p \in Procs, CfgWriteRows(p) PROVE Mirror'
  BY <1>3, FreeTabFree DEF CfgWriteRows, Proceed, timer, irq, env, BusyInv, RowsWritten, TableType, HwType
<1>4. ASSUME NEW p \in Procs, CfgWriteRowsFails(p) PROVE Mirror'
  BY <1>4, FreeTabFree DEF CfgWriteRowsFails, Return, timer, irq, env, BusyInv, RowsWritten, TableType, HwType, Done
<1>5. ASSUME NEW p \in Procs, CfgSubmit(p) PROVE Mirror'
  BY <1>5, FreeTabFree DEF CfgSubmit, Return, timer, irq, env, BusyInv, SubmitInv, Done
<1>6. ASSUME NEW t \in Tabs, HwSwap(t) PROVE Mirror'
  BY <1>6 DEF HwSwap, driver, timer
<1>7. ASSUME UNCHANGED <<canUse, inUse, op, hwRows>> PROVE Mirror'
  BY <1>7
<1> QED
  BY <1>1, <1>2, <1>3, <1>4, <1>5, <1>6, <1>7 DEF Next, UserCall, LockedStep, IsrStep, HwStep,
    SetBaseTime, Call, timer, irq, hw, SetCycleTime, SetCtrlListLen, SetAdminCtrlList, SetConfigChange, Proceed, ResetConfigChange, SetGateEnabled, SetGateDisabled, CfgReject, Return, env, CfgCalcTime, WorkExpires, driver, PendingDelayed, Isr, IsrWorkStart, CctHandler, IsrWorkDone, Tick, HwAdjustStart, Done, HwIsPending

\* A request is dealt with by the lock's owner, or kept while the gates are disabled.
LEMMA RequestInvStep ==
  ASSUME SchedAssumption, LockType, DriverType, LockInv, GateInv, RequestInv, Next
  PROVE  RequestInv'
<1> USE DEF RequestInv, LockType, LockInv, Procs, SchedAssumption
<1>1. ASSUME NEW u \in Users, SetConfigChange(u) PROVE RequestInv'
  BY <1>1 DEF SetConfigChange, Proceed
<1>2. ASSUME NEW u \in Users, ResetConfigChange(u) PROVE RequestInv'
  BY <1>2 DEF ResetConfigChange
<1>3. ASSUME NEW u \in Users, SetGateEnabled(u) PROVE RequestInv'
  <2>1. confChange => state = "IDLE"
    BY <1>3 DEF SetGateEnabled, Call
  <2> QED
    BY <1>3, <2>1 DEF SetGateEnabled, Proceed
<1>4. ASSUME NEW u \in Users, SetGateDisabled(u) PROVE RequestInv'
  BY <1>4 DEF SetGateDisabled, Call, Proceed
<1>5. ASSUME NEW p \in Procs, GateDisable(p) PROVE RequestInv'
  BY <1>5 DEF GateDisable, CancelPending, GateInv
<1>6. ASSUME NEW p \in Procs, CfgCancel(p) PROVE RequestInv'
  BY <1>6 DEF CfgCancel, CancelPending, Proceed
<1>7. ASSUME NEW p \in Procs, CfgReject(p) PROVE RequestInv'
  BY <1>7 DEF CfgReject, Done
<1>8. ASSUME NEW p \in Procs, CfgCalcTime(p) PROVE RequestInv'
  BY <1>8 DEF CfgCalcTime, Done, Proceed
<1>9. ASSUME NEW p \in Procs, CfgWriteRows(p) PROVE RequestInv'
  BY <1>9 DEF CfgWriteRows, Proceed
<1>10. ASSUME NEW p \in Procs, CfgWriteRowsFails(p) PROVE RequestInv'
  BY <1>10 DEF CfgWriteRowsFails, Done
<1>11. ASSUME NEW p \in Procs, CfgSubmit(p) PROVE RequestInv'
  BY <1>11 DEF CfgSubmit, Done
<1>12. ASSUME PendingDelayed PROVE RequestInv'
  BY <1>12 DEF PendingDelayed, Proceed
<1>13. ASSUME CctHandler PROVE RequestInv'
  BY <1>13 DEF CctHandler
<1>14. ASSUME UNCHANGED <<pc, confChange, gateEnabled, state>> PROVE RequestInv'
  BY <1>14
<1> QED
  BY <1>1, <1>2, <1>3, <1>4, <1>5, <1>6, <1>7, <1>8, <1>9, <1>10, <1>11, <1>12, <1>13,
     <1>14 DEF Next, UserCall, LockedStep, IsrStep, HwStep,
    SetBaseTime, SetCycleTime, SetCtrlListLen, SetAdminCtrlList, WorkExpires, driver,
    Isr, IsrWorkStart, IsrWorkDone, Tick, HwSwap, HwAdjustStart

\* The handler gets to know of every swap.
LEMMA SwapInvStep ==
  ASSUME SchedAssumption, HwType, IrqType, BusyInv, SwapInv, Next
  PROVE  SwapInv'
<1> USE DEF SwapInv
<1>1. ASSUME NEW p \in Procs, GateDisable(p) PROVE SwapInv'
  BY <1>1 DEF GateDisable, CancelPending, irq
<1>2. ASSUME NEW p \in Procs, CfgCancel(p) PROVE SwapInv'
  BY <1>2 DEF CfgCancel, CancelPending, irq
<1>3. ASSUME NEW p \in Procs, CfgCalcTime(p) PROVE SwapInv'
  BY <1>3 DEF CfgCalcTime, BusyInv, irq, hw
<1>4. ASSUME NEW p \in Procs, CfgSubmit(p) PROVE SwapInv'
  BY <1>4 DEF CfgSubmit, irq
<1>5. ASSUME PendingDelayed PROVE SwapInv'
  BY <1>5 DEF PendingDelayed, irq
<1>6. ASSUME Isr PROVE SwapInv'
  BY <1>6 DEF Isr, driver, hw
<1>7. ASSUME IsrWorkStart PROVE SwapInv'
  BY <1>7 DEF IsrWorkStart, driver, hw
<1>8. ASSUME CctHandler PROVE SwapInv'
  BY <1>8 DEF CctHandler, HwIsPending, hw
<1>9. ASSUME IsrWorkDone PROVE SwapInv'
  BY <1>9 DEF IsrWorkDone, driver, hw
<1>10. ASSUME NEW t \in Tabs, HwSwap(t) PROVE SwapInv'
  BY <1>10 DEF HwSwap, IrqType
<1>11. ASSUME UNCHANGED <<state, canUse, intStat, latch, queued, isr>> PROVE SwapInv'
  BY <1>11
<1> QED
  BY <1>1, <1>2, <1>3, <1>4, <1>5, <1>6, <1>7, <1>8, <1>9, <1>10, <1>11
  DEF Next, UserCall, LockedStep, IsrStep, HwStep,
    SetBaseTime, SetCycleTime, SetCtrlListLen, SetAdminCtrlList, SetConfigChange,
    ResetConfigChange, SetGateEnabled, SetGateDisabled, CfgReject, CfgWriteRows,
    CfgWriteRowsFails, WorkExpires, driver, Tick, HwAdjustStart, irq, hw

\* A start time that has not come is what the hardware sees of it, and within reach.
LEMMA AheadOfStart ==
  ASSUME SchedAssumption, DriverType, EnvType, StartInv, NEW t \in canUse, startTime > now
  PROVE  Ahead(t) = startTime - now /\ Ahead(t) # 0 /\ ~Missed(t)
<1>1. startTime - now <= MaxDelay /\ hwStart[t] = startTime % SecRange
  BY DEF StartInv
<1>2. startTime \in Int /\ now \in Int
  BY DEF DriverType, EnvType
<1>3. startTime - now \in 0..(SecRange - 1)
  BY <1>1, <1>2, RangeType
<1>4. ((startTime % SecRange) - now) % SecRange = startTime - now
  BY <1>2, <1>3, RangeType, ModAhead
<1>5. Ahead(t) = startTime - now
  BY <1>1, <1>4 DEF Ahead
<1> QED
  BY <1>1, <1>2, <1>5, RangeType DEF Missed

\* The hardware swaps when the low bits of the time are those in its register.
LEMMA SwapTime ==
  ASSUME SchedAssumption, HwType, EnvType, NEW t \in Tabs, Ahead(t) = 0
  PROVE  hwStart[t] = now % SecRange
<1>1. hwStart[t] \in 0..(SecRange - 1) /\ now \in Int
  BY DEF HwType, EnvType
<1> QED
  BY <1>1, RangeType, ModZero DEF Ahead

\* Start times are submitted within reach, wait in the register, and stay there.
LEMMA StartInvStep ==
  ASSUME SchedAssumption, LockType, TableType, DriverType, HwType, EnvType, LockInv,
         BusyInv, PendInv, StartInv, Next
  PROVE  StartInv'
<1> USE DEF StartInv, LockType
<1>1. ASSUME NEW u \in Users, SetConfigChange(u) PROVE StartInv'
  BY <1>1 DEF SetConfigChange, Call, Proceed, Procs, hw
<1>2. ASSUME NEW u \in Users, SetGateEnabled(u) PROVE StartInv'
  BY <1>2 DEF SetGateEnabled, Call, Proceed, Procs
<1>3. ASSUME NEW u \in Users, SetGateDisabled(u) PROVE StartInv'
  BY <1>3 DEF SetGateDisabled, Call, Proceed, Procs, hw
<1>4. ASSUME NEW p \in Procs, GateDisable(p) PROVE StartInv'
  BY <1>4 DEF GateDisable, CancelPending, CancelHw, Return, env
<1>5. ASSUME NEW p \in Procs, CfgCancel(p) PROVE StartInv'
  BY <1>5 DEF CfgCancel, CancelPending, CancelHw, Return, Proceed, env
<1>6. ASSUME NEW p \in Procs, CfgReject(p) PROVE StartInv'
  BY <1>6 DEF CfgReject, Done, Return, hw, env
<1>7. ASSUME NEW p \in Procs, CfgCalcTime(p) PROVE StartInv'
  <2> HIDE DEF StartInv, LockType
  <2>1. StartBase(admin) \in Int /\ TimeAdvance \in Nat /\ now \in Nat
    BY <1>7, StartBaseType DEF CfgCalcTime, EnvType, SchedAssumption
  <2>2. /\ startTime' = StartBase(admin) - TimeAdvance /\ startTime' \in Int
        /\ ccTime' = startTime' + TimeAdvance
    <3>1. startTime' = StartBase(admin) - TimeAdvance /\ ccTime' = StartBase(admin)
      BY <1>7 DEF CfgCalcTime
    <3> QED
      BY <2>1, <3>1
  <2>3. UNCHANGED <<canUse, hwStart, inUse, now, switchedAt>>
    BY <1>7 DEF CfgCalcTime, hw, env
  <2>4. canUse = {} /\ state = "IDLE" /\ lock = p
    BY <1>7 DEF CfgCalcTime, BusyInv, LockInv
  <2>5. state' # "PENDING"
    BY <1>7, <2>4 DEF CfgCalcTime
  <2>6. ASSUME NEW q \in Procs, pc'[q] \in {"rows", "submit"}
        PROVE  startTime' - now' <= MaxDelay
    <3>1. q = p
      BY <1>7, <2>4, <2>6 DEF CfgCalcTime, Done, Return, Proceed, LockInv, LockType
    <3>2. ~(Delay(startTime') > 0)
      BY <1>7, <2>2, <2>6, <3>1 DEF CfgCalcTime, Done, Return, LockType
    <3>3. startTime' - now <= MaxDelay
      BY <2>1, <2>2, <3>2, DelayNone
    <3> QED
      BY <2>3, <3>3
  <2> QED
    BY <2>2, <2>3, <2>4, <2>5, <2>6 DEF StartInv
<1>8. ASSUME NEW p \in Procs, CfgWriteRows(p) PROVE StartInv'
  BY <1>8 DEF CfgWriteRows, Proceed, env
<1>9. ASSUME NEW p \in Procs, CfgWriteRowsFails(p) PROVE StartInv'
  BY <1>9 DEF CfgWriteRowsFails, Done, Return, env
<1>10. ASSUME NEW p \in Procs, CfgSubmit(p) PROVE StartInv'
  <2>1. canUse' = {FreeTab} /\ UNCHANGED <<startTime, ccTime, now>>
    BY <1>10 DEF CfgSubmit, BusyInv, env
  <2>2. hwStart'[FreeTab] = startTime % SecRange
    BY <1>10, FreeTabFree DEF CfgSubmit, HwType
  <2>3. startTime - now <= MaxDelay /\ ccTime = startTime + TimeAdvance
    BY <1>10 DEF CfgSubmit
  <2>4. \A q \in Procs : pc'[q] \notin {"rows", "submit"}
    BY <1>10 DEF CfgSubmit, Done, Return, LockInv
  <2> QED
    BY <2>1, <2>2, <2>3, <2>4
<1>11. ASSUME PendingDelayed PROVE StartInv'
  BY <1>11 DEF PendingDelayed, Proceed, hw, env
<1>12. ASSUME CctHandler PROVE StartInv'
  <2>1. \A p \in Procs : pc'[p] = "idle"
    BY <1>12 DEF CctHandler, LockInv, SchedAssumption
  <2>2. CASE state = "PENDING" /\ ~HwIsPending
    BY <1>12, <2>1, <2>2 DEF CctHandler, HwIsPending, hw
  <2>3. CASE ~(state = "PENDING" /\ ~HwIsPending)
    BY <1>12, <2>1, <2>3 DEF CctHandler, hw, env
  <2> QED
    BY <2>2, <2>3
<1>13. ASSUME NEW t \in Tabs, HwSwap(t) PROVE StartInv'
  <2> HIDE DEF StartInv, LockType
  <2>1. hwStart'[t] = now % SecRange /\ inUse' = t /\ switchedAt' = now /\ canUse' = {}
    BY <1>13, SwapTime DEF HwSwap, PendInv
  <2>2. UNCHANGED <<pc, startTime, ccTime, now, state>>
    BY <1>13 DEF HwSwap, driver
  <2>3. t # NoTab
    BY DEF Tabs, NoTab
  <2> QED
    BY <1>13, <2>1, <2>2, <2>3 DEF HwSwap, PendInv, StartInv
<1>14. ASSUME NEW t \in Tabs, HwAdjustStart(t) PROVE StartInv'
  <2>1. UNCHANGED <<pc, startTime, ccTime, now, state, canUse>> /\ canUse # {}
    BY <1>14 DEF HwAdjustStart, driver, env
  <2>2. ~(startTime > now)
    BY <1>14, AheadOfStart DEF HwAdjustStart
  <2> QED
    BY <2>1, <2>2
<1>15. ASSUME Tick PROVE StartInv'
  <2> HIDE DEF StartInv, LockType
  <2>1. UNCHANGED <<pc, startTime, ccTime, state, canUse, hwStart, inUse, switchedAt>>
    BY <1>15 DEF Tick, driver, hw
  <2>2. now' = now + 1 /\ now \in Int
    BY <1>15 DEF Tick, EnvType
  <2>3. startTime \in Int /\ MaxDelay \in Int
    BY RangeType DEF DriverType
  <2>4. /\ startTime - now <= MaxDelay => startTime - now' <= MaxDelay
        /\ startTime > now' => startTime > now
    BY <2>2, <2>3
  <2> QED
    BY <2>1, <2>4 DEF StartInv
<1>16. ASSUME UNCHANGED <<pc, startTime, ccTime, now, state, canUse, hwStart, inUse,
                          switchedAt>>
       PROVE  StartInv'
  BY <1>16
<1> QED
  BY <1>1, <1>2, <1>3, <1>4, <1>5, <1>6, <1>7, <1>8, <1>9, <1>10, <1>11, <1>12, <1>13,
     <1>14, <1>15, <1>16 DEF Next, UserCall, LockedStep, IsrStep, HwStep,
    SetBaseTime, SetCycleTime, SetCtrlListLen, SetAdminCtrlList, ResetConfigChange, Call,
    WorkExpires, driver, Isr, IsrWorkStart, IsrWorkDone, hw, env

-----------------------------------------------------------------------------
(* The invariant, and what follows from it. *)

\* The invariant holds after edgx_sched_init.
LEMMA SchedInvInit ==
  ASSUME SchedAssumption, Init
  PROVE  SchedInv
<1>1. ErrCap \in Nat /\ MaxCalls \in Nat /\ SecRange \in Nat \ {0}
  BY DEF SchedAssumption
<1>2. LockType /\ TimerType /\ IrqType
  BY DEF LockType, TimerType, IrqType, Init
<1>3. TableType /\ ShaperType
  BY FullRateType DEF TableType, ShaperType, Init, SchedAssumption, EmptyAdmin, AdminType,
     ListType
<1>4. DriverType
  <2>1. err \in 0..ErrCap /\ startTime \in Int /\ ccTime \in Int
    BY <1>1 DEF Init
  <2> QED
    BY <2>1 DEF DriverType, Init
<1>5. HwType
  <2>1. hwStart \in [Tabs -> 0..(SecRange - 1)]
    BY <1>1 DEF Init
  <2> QED
    BY <2>1 DEF HwType, Init
<1>6. EnvType
  BY <1>1 DEF EnvType, Init
<1>7. LockInv /\ BusyInv /\ SubmitInv /\ PendInv /\ TimerInv /\ GateInv
  BY DEF LockInv, BusyInv, SubmitInv, PendInv, TimerInv, GateInv, Init, Tabs, NoTab
<1>8. Mirror
  BY DEF Mirror, InOperation, Init, Tabs, NoTab
<1>9. RequestInv /\ SwapInv /\ StartInv
  BY DEF RequestInv, SwapInv, StartInv, Init
<1> QED
  BY <1>2, <1>3, <1>4, <1>5, <1>6, <1>7, <1>8, <1>9 DEF SchedInv, TypeOK

\* Every step of users, delayed work, interrupt, hardware and time keeps the invariant.
LEMMA SchedInvStep ==
  ASSUME SchedAssumption, SchedInv, [Next]_vars
  PROVE  SchedInv'
<1>1. CASE Next
  BY <1>1, LockTypeStep, TableTypeStep, DriverTypeStep, ShaperTypeStep, TimerTypeStep, IrqTypeStep, HwTypeStep, EnvTypeStep,
     LockInvStep, BusyInvStep, SubmitInvStep, PendInvStep, TimerInvStep, GateInvStep, MirrorStep,
     RequestInvStep, SwapInvStep, StartInvStep DEF SchedInv, TypeOK
<1>2. CASE UNCHANGED vars
  <2>1. UNCHANGED <<lock, pc, admin, op, gateEnabled, confChange, state, startTime, ccTime,
                    err, trRate, fqtss>>
    BY <1>2 DEF vars, driver
  <2>2. UNCHANGED <<work, workDue, intStat, intMask, latch, queued, isr, hwRows, hwStart,
                    canUse, inUse, muxOn, now, calls, switchedAt>>
    BY <1>2 DEF vars, timer, irq, hw, env
  <2>3. TypeOK'
    <3>1. (LockType /\ TableType /\ DriverType /\ ShaperType)'
      BY <2>1 DEF SchedInv, TypeOK, LockType, TableType, DriverType, ShaperType
    <3>2. (TimerType /\ IrqType /\ HwType /\ EnvType)'
      BY <2>2 DEF SchedInv, TypeOK, TimerType, IrqType, HwType, EnvType
    <3> QED
      BY <3>1, <3>2 DEF TypeOK
  <2>4. (LockInv /\ BusyInv /\ SubmitInv /\ PendInv /\ TimerInv /\ GateInv)'
    BY <2>1, <2>2 DEF SchedInv, LockInv, BusyInv, SubmitInv, PendInv, TimerInv, GateInv,
       FreeTab
  <2>5. Mirror'
    BY <2>1, <2>2 DEF SchedInv, Mirror, InOperation
  <2>6. (RequestInv /\ SwapInv /\ StartInv)'
    BY <2>1, <2>2 DEF SchedInv, RequestInv, SwapInv, StartInv
  <2> QED
    BY <2>3, <2>4, <2>5, <2>6 DEF SchedInv
<1> QED
  BY <1>1, <1>2

\* The inductive invariant holds of every behaviour of the driver and the hardware.
THEOREM SchedInvHolds == Spec => []SchedInv
<1> USE SchedAssumption
<1>1. Init => SchedInv
  BY SchedInvInit
<1>2. SchedInv /\ [Next]_vars => SchedInv'
  BY SchedInvStep
<1> QED
  BY <1>1, <1>2, PTL DEF Spec

\* Every variable keeps its type; in particular the row indices, the register values
\* and the copied tables stay within their bounds.  The operational tables mirror the
\* hardware tables that run or may run (edgx_sched_config_change, edgx_st_prepare_config).
THEOREM InvCorrect == Spec => []Inv
<1>1. SchedInv => Inv
  BY DEF SchedInv, Inv
<1> QED
  BY <1>1, SchedInvHolds, PTL

\* With the lock free, the driver's state, the enable flag and the hardware agree on
\* whether a change is pending (the stm_* handlers).
THEOREM PendingCorrect == Spec => []PendingAccounted
<1>1. ASSUME SchedAssumption, SchedInv PROVE PendingAccounted
  <2>1. ASSUME lock = NoLock PROVE \A p \in Procs : pc[p] # "gate off"
    BY <1>1, <2>1 DEF SchedInv, LockInv, SchedAssumption
  <2> QED
    BY <1>1, <2>1 DEF SchedInv, TypeOK, DriverType, PendInv, GateInv, PendingAccounted
<1> QED
  BY <1>1, SchedAssumption, SchedInvHolds, PTL

\* No step changes a table the hardware runs or may be taking into use, nor its mirror.
LEMMA LiveTablesStep ==
  ASSUME SchedAssumption, SchedInv, Next
  PROVE  \A t \in Tabs : InOperation(t) /\ InOperation(t)' =>
           hwRows'[t] = hwRows[t] /\ op'[t] = op[t]
<1> SUFFICES ASSUME NEW t \in Tabs, InOperation(t)
             PROVE  hwRows'[t] = hwRows[t] /\ op'[t] = op[t]
  OBVIOUS
<1>1. ASSUME UNCHANGED <<op, hwRows>>
      PROVE  hwRows'[t] = hwRows[t] /\ op'[t] = op[t]
  BY <1>1
<1>2. ASSUME NEW p \in Procs, CfgWriteRows(p) \/ CfgWriteRowsFails(p)
      PROVE  hwRows'[t] = hwRows[t] /\ op'[t] = op[t]
  <2>1. t # FreeTab
    BY <1>2, FreeTabFree DEF CfgWriteRows, CfgWriteRowsFails, SchedInv, TypeOK, BusyInv, Done,
       InOperation
  <2>2. op' = [op EXCEPT ![FreeTab] = admin] /\ \E k : hwRows' = RowsWritten(FreeTab, k)
    BY <1>2 DEF CfgWriteRows, CfgWriteRowsFails, Done
  <2> QED
    BY <2>1, <2>2 DEF RowsWritten, SchedInv, TypeOK, TableType, HwType
<1> QED
  BY <1>1, <1>2 DEF Next, UserCall, LockedStep, IsrStep, HwStep,
    SetBaseTime, timer, irq, hw, SetCycleTime, SetCtrlListLen, SetAdminCtrlList,
    SetConfigChange, ResetConfigChange, SetGateEnabled, SetGateDisabled,
    GateDisable, env, CfgCancel, CfgReject, CfgCalcTime, CfgSubmit, WorkExpires,
    driver, PendingDelayed, Isr, IsrWorkStart, CctHandler, IsrWorkDone, Tick,
    HwSwap, HwAdjustStart

\* No step touches a table that the hardware runs or may be about to run
\* (edgx_sched_get_free_tab, and the cancellation before a table is filled).
THEOREM LiveTablesCorrect == Spec => LiveTablesUntouched
<1> USE SchedAssumption
<1>1. SchedInv /\ [Next]_vars =>
        [\A t \in Tabs : InOperation(t) /\ InOperation(t)' =>
           hwRows'[t] = hwRows[t] /\ op'[t] = op[t]]_vars
  BY LiveTablesStep
<1> QED
  BY <1>1, SchedInvHolds, PTL DEF Spec, LiveTablesUntouched

\* Neither a request nor a swap is lost: a request is kept only while the gates are
\* disabled (edgx_sched_stm_cfg_change, _gate_enable), and a swap that the state machine
\* has not seen is on its way to it, whatever is masked, latched or queued meanwhile
\* (edgx_sched_isr_wq), for level-triggered and edge-triggered interrupts.
THEOREM NothingLostCorrect == Spec => []NothingLost
<1>1. ASSUME SchedAssumption, SchedInv PROVE NothingLost
  <2>1. ASSUME lock = NoLock PROVE \A p \in Procs : pc[p] = "idle"
    BY <1>1, <2>1 DEF SchedInv, LockInv, SchedAssumption
  <2>2. RequestAccounted
    BY <1>1, <2>1 DEF SchedInv, RequestInv, RequestAccounted
  <2>3. SwapNeverLost
    BY <1>1 DEF SchedInv, SwapInv, SwapNeverLost
  <2> QED
    BY <2>2, <2>3 DEF NothingLost
<1> QED
  BY <1>1, SchedAssumption, SchedInvHolds, PTL

\* The table that a step takes into use is swapped in by the hardware.
LEMMA OnlyHwSwaps ==
  ASSUME Next, inUse' # inUse
  PROVE  \E t \in Tabs : HwSwap(t) /\ inUse' = t
<1>1. ASSUME NEW t \in Tabs, HwSwap(t) PROVE inUse' = t
  BY <1>1 DEF HwSwap
<1> QED
  BY <1>1 DEF Next, UserCall, LockedStep, IsrStep, HwStep,
    SetBaseTime, SetCycleTime, SetCtrlListLen, SetAdminCtrlList,
    SetConfigChange, ResetConfigChange, SetGateEnabled, SetGateDisabled,
    GateDisable, CfgCancel, CfgReject, CfgCalcTime, CfgWriteRows, CfgWriteRowsFails,
    CfgSubmit, WorkExpires, PendingDelayed, Isr, IsrWorkStart, CctHandler, IsrWorkDone,
    Tick, HwAdjustStart, hw

\* The hardware swaps no earlier than at the start time.
LEMMA SwapInTime ==
  ASSUME SchedAssumption, SchedInv, NEW t \in Tabs, HwSwap(t)
  PROVE  now >= startTime
<1>1. ASSUME startTime > now PROVE FALSE
  BY <1>1, AheadOfStart DEF HwSwap, SchedInv, TypeOK
<1>2. startTime \in Int /\ now \in Int
  BY DEF SchedInv, TypeOK, DriverType, EnvType
<1> QED
  BY <1>1, <1>2

\* The handler of the interrupt reports the time of the swap.
LEMMA HandlerReports ==
  ASSUME SchedAssumption, SchedInv, CctHandler, state = "PENDING", state' = "IDLE"
  PROVE  /\ startTime' % SecRange = switchedAt % SecRange
         /\ ccTime' = startTime' + TimeAdvance
<1>1. FixCcTime /\ canUse = {}
  BY DEF CctHandler, HwIsPending
<1>2. /\ ccTime = startTime + TimeAdvance /\ inUse # NoTab
      /\ hwStart[inUse] = switchedAt % SecRange
  BY <1>1 DEF SchedInv, StartInv
<1>3. hwStart[inUse] \in 0..(SecRange - 1) /\ startTime \in Int
  BY <1>2 DEF SchedInv, TypeOK, HwType, DriverType
<1> DEFINE delta == hwStart[inUse] - (startTime % SecRange)
<1>4. CASE delta = 0
  <2>1. startTime' = startTime /\ ccTime' = ccTime
    BY <1>1, <1>4 DEF FixCcTime
  <2>2. startTime % SecRange \in Int
    BY <1>3, ReducedType
  <2> QED
    BY <1>2, <1>3, <1>4, <2>1, <2>2
<1>5. CASE delta # 0
  <2>1. startTime' = startTime + delta /\ ccTime' = startTime' + TimeAdvance
    BY <1>1, <1>2, <1>5 DEF FixCcTime
  <2>2. (startTime + delta) % SecRange = hwStart[inUse]
    BY <1>3, RangeType, ModShift
  <2> QED
    BY <1>2, <2>1, <2>2
<1> QED
  BY <1>4, <1>5

\* Only the handler of the interrupt turns a pending change into an idle state while
\* it moves the interrupt's work on.
LEMMA OnlyHandlerReports ==
  ASSUME Next, state = "PENDING", state' = "IDLE", isr' # isr
  PROVE  CctHandler
BY DEF Next, UserCall, LockedStep, IsrStep, HwStep,
    SetBaseTime, SetCycleTime, SetCtrlListLen, SetAdminCtrlList,
    SetConfigChange, ResetConfigChange, SetGateEnabled, SetGateDisabled,
    GateDisable, CfgCancel, CfgReject, CfgCalcTime, CfgWriteRows, CfgWriteRowsFails,
    CfgSubmit, WorkExpires, PendingDelayed, Isr, IsrWorkStart, IsrWorkDone,
    Tick, HwSwap, HwAdjustStart, irq, driver

\* No schedule starts before the time computed for it, although the hardware is given
\* the low bits only (edgx_sched_calc_cc_time, edgx_sched_get_delay), and the change
\* time that is reported is that of the swap (edgx_sched_fix_cc_time), for every base
\* time, cycle, delay limit and register width.
THEOREM StartTimesCorrect == Spec => StartTimes
<1> USE SchedAssumption
<1>1. ASSUME SchedInv, Next PROVE NotEarly /\ TimeReported
  <2>1. NotEarly
    BY <1>1, OnlyHwSwaps, SwapInTime DEF NotEarly
  <2>2. TimeReported
    BY <1>1, OnlyHandlerReports, HandlerReports DEF TimeReported
  <2> QED
    BY <2>1, <2>2
<1>2. SchedInv /\ [Next]_vars => [NotEarly /\ TimeReported]_vars
  BY <1>1
<1> QED
  BY <1>2, SchedInvHolds, PTL DEF Spec, StartTimes

-----------------------------------------------------------------------------
(* The driver and the hardware implement SchedulerAbs.                      *)

Pending == {HwConfig(t) : t \in canUse}
Oper    == {HwConfig(t) : t \in Tabs \cap {inUse}}

\* What is pending or runs stays the same if its table does.
LEMMA ConfigKept ==
  ASSUME SchedInv, UNCHANGED <<canUse, inUse>>,
         \A t \in Tabs : InOperation(t) => hwRows'[t] = hwRows[t] /\ op'[t] = op[t]
  PROVE  UNCHANGED <<Pending, Oper>>
<1>1. \A t \in Tabs : InOperation(t) => HwConfig(t)' = HwConfig(t)
  BY DEF HwConfig
<1>2. canUse \subseteq Tabs
  BY DEF SchedInv, TypeOK, HwType
<1> QED
  BY <1>1, <1>2 DEF Pending, Oper, InOperation

\* In particular if no table changes at all.
LEMMA TablesKept ==
  ASSUME SchedInv, UNCHANGED <<canUse, inUse, op, hwRows>>
  PROVE  UNCHANGED <<Pending, Oper>>
BY ConfigKept

\* Nothing is pending in the abstraction if and only if no table is handed over.
LEMMA NothingPending == Pending = {} <=> canUse = {}
BY DEF Pending

\* An edit of the administrative table.
LEMMA EditStep ==
  ASSUME SchedAssumption, SchedInv, Next, UNCHANGED <<op, startTime, hw, now>>
  PROVE  Abs!Edit
<1>1. admin' \in AdminType
  BY TableTypeStep DEF SchedInv, TypeOK, TableType
<1>2. UNCHANGED <<Pending, Oper>>
  BY TablesKept DEF hw
<1> QED
  BY <1>1, <1>2 DEF Abs!Edit, Pending, Oper

\* Cancelling what is pending leaves no table handed over.
LEMMA CancelAll ==
  ASSUME SchedInv, CancelPending
  PROVE  canUse' = {}
BY DEF SchedInv, PendInv, CancelPending, CancelHw

\* A cancellation.
LEMMA CancelStep ==
  ASSUME SchedAssumption, SchedInv, CancelPending,
         UNCHANGED <<admin, op, startTime, hwRows, inUse, now>>
  PROVE  Abs!Cancel
<1>1. Pending' = {}
  BY CancelAll DEF Pending
<1>2. Oper' = Oper
  BY DEF Oper, HwConfig
<1> QED
  BY <1>1, <1>2 DEF Abs!Cancel, Pending, Oper

\* The table handed over is the administrative one, row by row.
LEMMA SubmitStep ==
  ASSUME SchedAssumption, SchedInv, NEW p \in Procs, CfgSubmit(p)
  PROVE  Abs!Submit
<1>1. /\ canUse = {} /\ ParamsOK(admin) /\ op[FreeTab] = admin
      /\ \A i \in 1..(admin.len + 1) : hwRows[FreeTab][i] = RowOf(admin, i)
  BY DEF CfgSubmit, SchedInv, BusyInv, SubmitInv
<1>2. canUse' = {FreeTab} /\ UNCHANGED <<admin, op, startTime, hwRows, inUse, now>>
  BY <1>1 DEF CfgSubmit, env
<1>3. HwConfig(FreeTab) = Config(admin)
  BY <1>1 DEF HwConfig, Config, RowsOf
<1>4. \A t : HwConfig(t)' = HwConfig(t)
  BY <1>2 DEF HwConfig
<1>5. Pending = {} /\ Pending' = {Config(admin)} /\ Oper' = Oper
  BY <1>1, <1>2, <1>3, <1>4 DEF Pending, Oper
<1> QED
  BY <1>1, <1>2, <1>5 DEF Abs!Submit, Pending, Oper

\* The hardware takes what is pending into use as a whole, and not too early.
LEMMA SwapStep ==
  ASSUME SchedAssumption, SchedInv, NEW t \in Tabs, HwSwap(t)
  PROVE  Abs!Swap
<1>1. canUse = {t} /\ canUse' = {} /\ inUse' = t
  BY DEF HwSwap, SchedInv, PendInv
<1>2. UNCHANGED <<admin, op, startTime, hwRows, now>>
  BY DEF HwSwap, driver
<1>3. HwConfig(t)' = HwConfig(t)
  BY <1>2 DEF HwConfig
<1>4. Pending = {HwConfig(t)} /\ Pending' = {} /\ Oper' = {HwConfig(t)}
  BY <1>1, <1>3 DEF Pending, Oper
<1>5. now >= startTime
  BY SwapInTime
<1> QED
  BY <1>2, <1>4, <1>5 DEF Abs!Swap, Pending, Oper

\* A start time is chosen or corrected only with nothing pending.
LEMMA PlanStep ==
  ASSUME SchedAssumption, SchedInv, Next, canUse = {}, UNCHANGED <<admin, op, hw, now>>
  PROVE  Abs!Plan
<1>1. startTime' \in Int
  BY DriverTypeStep DEF SchedInv, TypeOK, DriverType
<1>2. Pending = {} /\ UNCHANGED <<Pending, Oper>>
  BY TablesKept, NothingPending DEF hw
<1> QED
  BY <1>1, <1>2 DEF Abs!Plan, Pending, Oper

\* A step that changes no table in operation is none of the abstraction.
LEMMA SilentStep ==
  ASSUME SchedAssumption, SchedInv, UNCHANGED <<admin, startTime, canUse, inUse, now>>,
         \A t \in Tabs : InOperation(t) => hwRows'[t] = hwRows[t] /\ op'[t] = op[t]
  PROVE  UNCHANGED Abs!vars
<1>1. UNCHANGED <<Pending, Oper>>
  BY ConfigKept
<1> QED
  BY <1>1 DEF Abs!vars, Pending, Oper

\* Every step is a step of the abstraction, or none.
LEMMA AbsStep ==
  ASSUME SchedAssumption, SchedInv, [Next]_vars
  PROVE  [Abs!Next]_(Abs!vars)
<1> DEFINE Silent == UNCHANGED <<admin, op, startTime, hwRows, canUse, inUse, now>>
<1>0. Silent => UNCHANGED Abs!vars
  BY SilentStep
<1>1. ASSUME NEW u \in Users, UserCall(u), Next PROVE Abs!Next \/ UNCHANGED Abs!vars
  <2>1. CASE SetGateEnabled(u)
    BY <1>0, <2>1 DEF SetGateEnabled, Call
  <2>2. CASE ~SetGateEnabled(u)
    <3>1. UNCHANGED <<op, startTime, hw, now>>
      BY <1>1, <2>2 DEF UserCall, SetBaseTime, SetCycleTime, SetCtrlListLen,
         SetAdminCtrlList, SetConfigChange, ResetConfigChange, SetGateDisabled, Call
    <3> QED
      BY <1>1, <3>1, EditStep DEF Abs!Next
  <2> QED
    BY <2>1, <2>2
<1>2. ASSUME NEW p \in Procs, GateDisable(p) PROVE Abs!Next
  BY <1>2, CancelStep DEF GateDisable, Abs!Next, env
<1>3. ASSUME NEW p \in Procs, CfgCancel(p) PROVE Abs!Next
  BY <1>3, CancelStep DEF CfgCancel, Abs!Next, env
<1>4. ASSUME NEW p \in Procs, CfgReject(p) PROVE UNCHANGED Abs!vars
  BY <1>0, <1>4 DEF CfgReject, hw, env
<1>5. ASSUME NEW p \in Procs, CfgCalcTime(p), Next PROVE Abs!Next
  <2>1. canUse = {}
    BY <1>5 DEF CfgCalcTime, SchedInv, BusyInv
  <2> QED
    BY <1>5, <2>1, PlanStep DEF CfgCalcTime, Abs!Next, env
<1>6. ASSUME NEW p \in Procs, CfgWriteRows(p) \/ CfgWriteRowsFails(p), Next
      PROVE  UNCHANGED Abs!vars
  <2>1. UNCHANGED <<admin, startTime, canUse, inUse, now>>
    BY <1>6 DEF CfgWriteRows, CfgWriteRowsFails, env
  <2>2. \A t \in Tabs : InOperation(t) => hwRows'[t] = hwRows[t] /\ op'[t] = op[t]
    BY <1>6, <2>1, LiveTablesStep DEF InOperation
  <2> QED
    BY <2>1, <2>2, SilentStep
<1>7. ASSUME NEW p \in Procs, CfgSubmit(p) PROVE Abs!Next
  BY <1>7, SubmitStep DEF Abs!Next
<1>8. CASE WorkExpires \/ PendingDelayed
  BY <1>0, <1>8 DEF WorkExpires, PendingDelayed, driver, hw, env
<1>9. CASE Isr \/ IsrWorkStart \/ IsrWorkDone
  BY <1>0, <1>9 DEF Isr, IsrWorkStart, IsrWorkDone, driver, hw, env
<1>10. ASSUME CctHandler, Next PROVE Abs!Next \/ UNCHANGED Abs!vars
  <2>1. CASE state = "PENDING" /\ ~HwIsPending
    BY <1>10, <2>1, PlanStep DEF CctHandler, HwIsPending, Abs!Next, env
  <2>2. CASE ~(state = "PENDING" /\ ~HwIsPending)
    BY <1>0, <1>10, <2>2 DEF CctHandler, hw, env
  <2> QED
    BY <2>1, <2>2
<1>11. ASSUME NEW t \in Tabs, HwSwap(t) PROVE Abs!Next
  BY <1>11, SwapStep DEF Abs!Next
<1>12. ASSUME NEW t \in Tabs, HwAdjustStart(t) PROVE UNCHANGED Abs!vars
  BY <1>0, <1>12 DEF HwAdjustStart, driver, env
<1>13. CASE Tick
  <2>1. UNCHANGED <<admin, startTime, canUse, inUse, op, hwRows>> /\ now' = now + 1
    BY <1>13 DEF Tick, driver, hw
  <2>2. UNCHANGED <<Pending, Oper>>
    BY <2>1, TablesKept
  <2> QED
    BY <2>1, <2>2 DEF Abs!Next, Abs!Tick, Pending, Oper
<1>14. CASE UNCHANGED vars
  BY <1>0, <1>14 DEF vars, driver, hw, env
<1> QED
  BY <1>1, <1>2, <1>3, <1>4, <1>5, <1>6, <1>7, <1>8, <1>9, <1>10, <1>11, <1>12, <1>13,
     <1>14 DEF Next, LockedStep, IsrStep, HwStep

\* The scheduler after edgx_sched_init: nothing pends, nothing runs.
LEMMA AbsInit ==
  ASSUME SchedAssumption, Init
  PROVE  Abs!Init
<1>1. Pending = {} /\ Oper = {}
  BY DEF Init, Pending, Oper, Tabs, NoTab
<1> QED
  BY <1>1 DEF Abs!Init, Init, Pending, Oper, SchedAssumption

\* The driver and the hardware implement the abstract scheduler, for every number of
\* users, every table size, delay and register width: what becomes operational is one
\* whole administrative table, as it stood at one instant at which it was usable, and
\* not before its start time, although the rows are written one by one, writing may
\* fail half way, and the user goes on editing (edgx_sched_stm_cfg_change).
THEOREM SchedulerImplementsAbs == Spec => ImplementsAbs
<1> USE SchedAssumption
<1>1. Init => Abs!Init
  BY AbsInit
<1>2. SchedInv /\ [Next]_vars => [Abs!Next]_(Abs!vars)
  BY AbsStep
<1> QED
  BY <1>1, <1>2, SchedInvHolds, PTL DEF Spec, ImplementsAbs, Abs!Spec

-----------------------------------------------------------------------------
(* The shaper follows the schedule if users wait until a change they asked  *)
(* for has been reported before they ask for the next or disable the gates. *)

\* A call that would supersede or cancel a change the hardware has is not made.
Patient == \A u \in Users : SetConfigChange(u) \/ SetGateDisabled(u) => state # "PENDING"

\* So no change is cancelled after it was submitted.
PatientInv == \A p \in Procs : pc[p] \in {"cfg", "gate off"} => state # "PENDING"

\* The rates are those of the table that was submitted last, or is being submitted.
RateInv ==
  /\ inUse # NoTab => ParamsOK(op[inUse])
  /\ \A p \in Procs : pc[p] = "submit" => trRate = RateOf(admin)
  /\ \A t \in canUse : trRate = RateOf(op[t])
  /\ canUse = {} /\ (\A p \in Procs : pc[p] # "submit") /\ inUse # NoTab =>
       trRate = RateOf(op[inUse])

\* The shaper has those of the running table, but between a swap and its interrupt's work.
FollowInv ==
  gateEnabled /\ inUse # NoTab /\ ~(state = "PENDING" /\ canUse = {}) =>
    fqtss = RateOf(op[inUse])

\* A usable table limits some queue.
LEMMA RateNotFull ==
  ASSUME SchedAssumption, NEW a \in AdminType, ParamsOK(a)
  PROVE  RateOf(a) # FullRate
<1>1. a.cycle # 0
  BY DEF ParamsOK
<1> QED BY <1>1 DEF RateOf, FullRate

LEMMA PatientInvStep ==
  ASSUME SchedAssumption, LockType, LockInv, BusyInv, PatientInv, Patient, Next
  PROVE  PatientInv'
<1> USE DEF PatientInv, LockInv, LockType, SchedAssumption, Procs
<1>1. ASSUME NEW u \in Users, SetConfigChange(u) PROVE PatientInv'
  BY <1>1 DEF Patient, SetConfigChange, Call, Proceed
<1>2. ASSUME NEW u \in Users, SetGateEnabled(u) PROVE PatientInv'
  BY <1>2 DEF SetGateEnabled, Call, Proceed
<1>3. ASSUME NEW u \in Users, SetGateDisabled(u) PROVE PatientInv'
  BY <1>3 DEF Patient, SetGateDisabled, Call, Proceed
<1>4. ASSUME NEW p \in Procs, GateDisable(p) PROVE PatientInv'
  BY <1>4 DEF GateDisable, Return, CancelPending
<1>5. ASSUME NEW p \in Procs, CfgCancel(p) PROVE PatientInv'
  BY <1>5 DEF CfgCancel, Proceed, Return, CancelPending
<1>6. ASSUME NEW p \in Procs, CfgReject(p) PROVE PatientInv'
  BY <1>6 DEF CfgReject, Return, Done
<1>7. ASSUME NEW p \in Procs, CfgCalcTime(p) PROVE PatientInv'
  BY <1>7 DEF CfgCalcTime, Proceed, Return, Done, BusyInv
<1>8. ASSUME NEW p \in Procs, CfgWriteRows(p) PROVE PatientInv'
  BY <1>8 DEF CfgWriteRows, Proceed
<1>9. ASSUME NEW p \in Procs, CfgWriteRowsFails(p) PROVE PatientInv'
  BY <1>9 DEF CfgWriteRowsFails, Return, Done
<1>10. ASSUME NEW p \in Procs, CfgSubmit(p) PROVE PatientInv'
  BY <1>10 DEF CfgSubmit, Return, Done
<1>11. ASSUME PendingDelayed PROVE PatientInv'
  BY <1>11 DEF PendingDelayed, Proceed
<1>12. ASSUME CctHandler PROVE PatientInv'
  BY <1>12 DEF CctHandler
<1>13. ASSUME UNCHANGED <<pc, state>> PROVE PatientInv'
  BY <1>13
<1> QED
  BY <1>1, <1>2, <1>3, <1>4, <1>5, <1>6, <1>7, <1>8, <1>9, <1>10, <1>11, <1>12, <1>13
     DEF Next, UserCall, LockedStep, IsrStep, HwStep, SetBaseTime, SetCycleTime,
         SetCtrlListLen, SetAdminCtrlList, ResetConfigChange, WorkExpires, driver, Isr,
         IsrWorkStart, IsrWorkDone, Tick, HwSwap, HwAdjustStart

\* Only a submission and the writing of the rows change what the rates are those of.
LEMMA RateInvStep ==
  ASSUME SchedAssumption, TableType, HwType, LockType, LockInv, BusyInv, SubmitInv, PendInv,
         TimerInv, PatientInv, RateInv, Next
  PROVE  RateInv'
<1>f. FreeTab \in Tabs /\ FreeTab # inUse /\ inUse \in Tabs \cup {NoTab} /\ canUse \subseteq Tabs
      /\ NoTab \notin Tabs
  BY FreeTabFree DEF HwType, Tabs, NoTab
<1>o. DOMAIN op = Tabs
  BY DEF TableType
<1>k. ASSUME UNCHANGED <<op, trRate, canUse, inUse>>, \A p \in Procs : pc'[p] # "submit",
             \A p \in Procs : pc[p] # "submit"
      PROVE  RateInv'
  BY <1>k DEF RateInv
<1>1. ASSUME NEW u \in Users, SetConfigChange(u) \/ SetGateDisabled(u) \/ SetGateEnabled(u)
      PROVE  RateInv'
  <2>1. \A p \in Procs : pc[p] # "submit"
    BY <1>1 DEF LockInv, SetConfigChange, SetGateDisabled, SetGateEnabled, Call, SchedAssumption
  <2>2. \A p \in Procs : pc'[p] # "submit"
    BY <1>1, <2>1 DEF SetConfigChange, SetGateDisabled, SetGateEnabled, Proceed, LockType, Procs
  <2>3. UNCHANGED <<op, trRate, canUse, inUse>>
    BY <1>1 DEF SetConfigChange, SetGateDisabled, SetGateEnabled, hw
  <2> QED BY <2>1, <2>2, <2>3, <1>k
<1>2. ASSUME NEW u \in Users,
             SetBaseTime(u) \/ SetCycleTime(u) \/ SetCtrlListLen(u) \/ SetAdminCtrlList(u)
      PROVE  RateInv'
  <2>1. \A p \in Procs : pc[p] # "submit"
    BY <1>2 DEF LockInv, SetBaseTime, SetCycleTime, SetCtrlListLen, SetAdminCtrlList, Call,
       SchedAssumption
  <2>2. UNCHANGED <<op, trRate, canUse, inUse, pc>>
    BY <1>2 DEF SetBaseTime, SetCycleTime, SetCtrlListLen, SetAdminCtrlList, hw
  <2> QED BY <2>1, <2>2, <1>k
<1>3. ASSUME NEW p \in Procs, GateDisable(p) \/ CfgCancel(p)
      PROVE  RateInv'
  <2>1. pc[p] \in {"gate off", "cfg"} /\ lock = p /\ state # "PENDING"
    BY <1>3 DEF GateDisable, CfgCancel, LockInv, PatientInv
  <2>2. \A q \in Procs : pc[q] # "submit"
    BY <2>1 DEF LockInv
  <2>3. \A q \in Procs : pc'[q] # "submit"
    BY <1>3, <2>2 DEF GateDisable, CfgCancel, Proceed, Return, LockType
  <2>4. UNCHANGED <<op, trRate, canUse, inUse>>
    BY <1>3, <2>1 DEF GateDisable, CfgCancel, CancelPending, CancelHw
  <2> QED BY <2>2, <2>3, <2>4, <1>k
<1>4. ASSUME NEW p \in Procs, CfgReject(p) \/ CfgCalcTime(p)
      PROVE  RateInv'
  <2>1. pc[p] = "calc" /\ lock = p
    BY <1>4 DEF CfgReject, CfgCalcTime, LockInv
  <2>2. \A q \in Procs : pc[q] # "submit"
    BY <2>1 DEF LockInv
  <2>3. \A q \in Procs : pc'[q] # "submit"
    BY <1>4, <2>2 DEF CfgReject, CfgCalcTime, Proceed, Return, Done, LockType
  <2>4. UNCHANGED <<op, trRate, canUse, inUse>>
    BY <1>4 DEF CfgReject, CfgCalcTime, hw
  <2> QED BY <2>2, <2>3, <2>4, <1>k
<1>5. ASSUME NEW p \in Procs, CfgWriteRows(p) PROVE RateInv'
  <2>1. canUse = {} /\ canUse' = {} /\ inUse' = inUse /\ admin' = admin
    BY <1>5 DEF CfgWriteRows, BusyInv
  <2>2. trRate' = RateOf(admin)
    BY <1>5 DEF CfgWriteRows
  <2>3. inUse # NoTab => op'[inUse] = op[inUse]
    BY <1>5, <1>f, <1>o DEF CfgWriteRows
  <2>4. pc'[p] = "submit"
    BY <1>5 DEF CfgWriteRows, Proceed, LockType
  <2> QED BY <2>1, <2>2, <2>3, <2>4 DEF RateInv
<1>6. ASSUME NEW p \in Procs, CfgWriteRowsFails(p) PROVE RateInv'
  <2>1. canUse = {} /\ canUse' = {} /\ inUse' = inUse /\ trRate' = trRate /\ lock = p
        /\ pc[p] = "rows"
    BY <1>6 DEF CfgWriteRowsFails, BusyInv, LockInv
  <2>2. inUse # NoTab => op'[inUse] = op[inUse]
    BY <1>6, <1>f, <1>o DEF CfgWriteRowsFails
  <2>3. \A q \in Procs : pc[q] # "submit"
    BY <2>1 DEF LockInv
  <2>4. \A q \in Procs : pc'[q] # "submit"
    BY <1>6, <2>3 DEF CfgWriteRowsFails, Done, Return, LockType
  <2> QED BY <2>1, <2>2, <2>3, <2>4 DEF RateInv
<1>7. ASSUME NEW p \in Procs, CfgSubmit(p) PROVE RateInv'
  <2>1. canUse' = {FreeTab} /\ op' = op /\ inUse' = inUse /\ trRate' = trRate /\ lock = p
    BY <1>7 DEF CfgSubmit, BusyInv, LockInv
  <2>2. trRate = RateOf(op[FreeTab])
    BY <1>7 DEF CfgSubmit, RateInv, SubmitInv
  <2>3. \A q \in Procs : pc'[q] # "submit"
    BY <1>7, <2>1 DEF CfgSubmit, Done, Return, LockType, LockInv
  <2> QED BY <2>1, <2>2, <2>3 DEF RateInv
<1>8. ASSUME PendingDelayed PROVE RateInv'
  <2>1. \A p \in Procs : pc[p] # "submit"
    BY <1>8 DEF LockInv, PendingDelayed, SchedAssumption
  <2>2. \A p \in Procs : pc'[p] # "submit"
    BY <1>8, <2>1 DEF PendingDelayed, Proceed, LockType, Procs
  <2>3. UNCHANGED <<op, trRate, canUse, inUse>>
    BY <1>8 DEF PendingDelayed, hw
  <2> QED BY <2>1, <2>2, <2>3, <1>k
<1>9. ASSUME NEW t \in Tabs, HwSwap(t) PROVE RateInv'
  <2>1. t \in canUse /\ canUse' = {} /\ inUse' = t /\ UNCHANGED <<op, trRate, pc, admin>>
    BY <1>9 DEF HwSwap, driver, PendInv
  <2>2. \A p \in Procs : pc[p] # "submit"
    BY <2>1 DEF BusyInv
  <2>3. trRate = RateOf(op[t]) /\ ParamsOK(op[t])
    BY <2>1 DEF RateInv, PendInv
  <2> QED BY <2>1, <2>2, <2>3 DEF RateInv
<1>10. ASSUME UNCHANGED <<admin, op, trRate, canUse, inUse, pc>> PROVE RateInv'
  BY <1>10 DEF RateInv
<1> QED
  BY <1>1, <1>2, <1>3, <1>4, <1>5, <1>6, <1>7, <1>8, <1>9, <1>10
     DEF Next, UserCall, LockedStep, IsrStep, HwStep, ResetConfigChange, WorkExpires, driver,
         Isr, IsrWorkStart, CctHandler, IsrWorkDone, Tick, HwAdjustStart, hw

\* The shaper is notified when the hardware has swapped, and when the gates are enabled.
LEMMA FollowInvStep ==
  ASSUME SchedAssumption, SchedInv, PatientInv, RateInv, FollowInv, Next
  PROVE  FollowInv'
<1>f. FreeTab \in Tabs /\ FreeTab # inUse /\ inUse \in Tabs \cup {NoTab}
  BY FreeTabFree DEF HwType, SchedInv, TypeOK
<1>o. DOMAIN op = Tabs /\ \A t \in Tabs : op[t] \in AdminType
  BY DEF TableType, SchedInv, TypeOK
<1>u. inUse # NoTab => RateOf(op[inUse]) # FullRate
  BY <1>f, <1>o, RateNotFull DEF RateInv
<1>1. ASSUME NEW u \in Users, SetGateEnabled(u) PROVE FollowInv'
  <2>1. lock = NoLock /\ UNCHANGED <<op, canUse, inUse, state>>
    BY <1>1 DEF SetGateEnabled, Call
  <2>2. \A p \in Procs : pc[p] = "idle"
    BY <2>1 DEF LockInv, SchedInv, SchedAssumption
  <2>3. CASE state = "IDLE"
    <3>1. canUse = {}
      BY <2>3 DEF SchedInv, PendInv
    <3>2. inUse # NoTab => trRate = RateOf(op[inUse])
      BY <3>1, <2>2 DEF RateInv
    <3>3. inUse # NoTab => fqtss' = trRate
      BY <1>1, <2>3, <3>2, <1>u DEF SetGateEnabled, Notify
    <3> QED BY <2>1, <3>2, <3>3 DEF FollowInv
  <2>4. CASE state # "IDLE"
    <3>1. gateEnabled
      BY <2>2, <2>4 DEF SchedInv, GateInv
    <3>2. fqtss' = fqtss
      BY <1>1, <2>4 DEF SetGateEnabled
    <3> QED BY <2>1, <3>1, <3>2 DEF FollowInv
  <2> QED BY <2>3, <2>4
<1>2. ASSUME NEW p \in Procs, GateDisable(p) PROVE FollowInv'
  BY <1>2 DEF GateDisable, SchedInv, GateInv, FollowInv
<1>3. ASSUME NEW u \in Users, SetGateDisabled(u) PROVE FollowInv'
  BY <1>3 DEF SetGateDisabled, FollowInv
<1>4. ASSUME NEW p \in Procs, CfgCancel(p) PROVE FollowInv'
  <2>1. state # "PENDING"
    BY <1>4 DEF CfgCancel, PatientInv
  <2>2. UNCHANGED <<op, canUse, inUse, gateEnabled, fqtss>>
    BY <1>4, <2>1 DEF CfgCancel, CancelPending, CancelHw
  <2> QED BY <2>1, <2>2 DEF FollowInv
<1>5. ASSUME NEW p \in Procs, CfgCalcTime(p) PROVE FollowInv'
  <2>1. state # "PENDING"
    BY <1>5 DEF CfgCalcTime, SchedInv, BusyInv
  <2>2. UNCHANGED <<op, canUse, inUse, gateEnabled, fqtss>>
    BY <1>5 DEF CfgCalcTime, hw
  <2> QED BY <2>1, <2>2 DEF FollowInv
<1>6. ASSUME NEW p \in Procs, CfgWriteRows(p) \/ CfgWriteRowsFails(p) PROVE FollowInv'
  <2>1. UNCHANGED <<canUse, inUse, gateEnabled, fqtss, state>>
    BY <1>6 DEF CfgWriteRows, CfgWriteRowsFails
  <2>2. inUse # NoTab => op'[inUse] = op[inUse]
    BY <1>6, <1>f, <1>o DEF CfgWriteRows, CfgWriteRowsFails
  <2> QED BY <2>1, <2>2 DEF FollowInv
<1>7. ASSUME NEW p \in Procs, CfgSubmit(p) PROVE FollowInv'
  <2>1. state = "IDLE"
    BY <1>7 DEF CfgSubmit, SchedInv, BusyInv
  <2>2. UNCHANGED <<op, inUse, gateEnabled, fqtss>>
    BY <1>7 DEF CfgSubmit
  <2> QED BY <2>1, <2>2 DEF FollowInv
<1>8. ASSUME PendingDelayed PROVE FollowInv'
  <2>1. state # "PENDING"
    BY <1>8 DEF PendingDelayed, SchedInv, TimerInv
  <2>2. UNCHANGED <<op, canUse, inUse, gateEnabled, fqtss>>
    BY <1>8 DEF PendingDelayed, hw
  <2> QED BY <2>1, <2>2 DEF FollowInv
<1>9. ASSUME CctHandler PROVE FollowInv'
  <2>1. lock = NoLock /\ UNCHANGED <<op, canUse, inUse, gateEnabled>>
    BY <1>9 DEF CctHandler, hw
  <2>2. CASE state = "PENDING" /\ ~HwIsPending
    <3>1. canUse = {} /\ \A p \in Procs : pc[p] # "submit"
      BY <2>1, <2>2 DEF HwIsPending, LockInv, SchedInv, SchedAssumption
    <3>2. inUse # NoTab => trRate = RateOf(op[inUse])
      BY <3>1 DEF RateInv
    <3>3. inUse # NoTab /\ gateEnabled => fqtss' = trRate
      BY <1>9, <2>2, <3>2, <1>u DEF CctHandler, Notify
    <3> QED BY <2>1, <3>2, <3>3 DEF FollowInv
  <2>3. CASE ~(state = "PENDING" /\ ~HwIsPending)
    <3>1. UNCHANGED <<state, fqtss>>
      BY <1>9, <2>3 DEF CctHandler
    <3> QED BY <2>1, <3>1 DEF FollowInv
  <2> QED BY <2>2, <2>3
<1>10. ASSUME NEW t \in Tabs, HwSwap(t) PROVE FollowInv'
  <2>1. canUse' = {} /\ state' = "PENDING"
    BY <1>10 DEF HwSwap, driver, SchedInv, PendInv
  <2> QED BY <2>1 DEF FollowInv
<1>11. ASSUME UNCHANGED <<op, canUse, inUse, gateEnabled, state, fqtss>> PROVE FollowInv'
  BY <1>11 DEF FollowInv
<1> QED
  BY <1>1, <1>2, <1>3, <1>4, <1>5, <1>6, <1>7, <1>8, <1>9, <1>10, <1>11
     DEF Next, UserCall, LockedStep, IsrStep, HwStep, SetBaseTime, SetCycleTime,
         SetCtrlListLen, SetAdminCtrlList, SetConfigChange, ResetConfigChange, CfgReject,
         WorkExpires, driver, Isr, IsrWorkStart, IsrWorkDone, Tick, HwAdjustStart, hw

\* When no interrupt is outstanding, the shaper works with the rates of the schedule that
\* runs (edgx_sched_notify), if nobody asks for a change or disables the gates before the
\* last change was reported.
THEOREM ShaperFollowsCorrect == Spec /\ [][Patient]_vars => []ShaperFollows
<1> DEFINE RatesInv == PatientInv /\ RateInv /\ FollowInv
<1>1. Init => RatesInv
  BY DEF Init, PatientInv, RateInv, FollowInv
<1>2. SchedInv /\ RatesInv /\ [Next]_vars /\ [Patient]_vars => RatesInv'
  <2> SUFFICES ASSUME SchedInv, RatesInv, [Next]_vars, [Patient]_vars PROVE RatesInv'
    OBVIOUS
  <2>1. CASE UNCHANGED vars
    <3>1. UNCHANGED <<pc, admin, op, gateEnabled, state, trRate, fqtss, canUse, inUse>>
      BY <2>1 DEF vars, driver, hw
    <3> QED BY <3>1 DEF PatientInv, RateInv, FollowInv
  <2>2. CASE Next /\ Patient
    BY <2>2, SchedAssumption, PatientInvStep, RateInvStep, FollowInvStep DEF SchedInv, TypeOK
  <2> QED BY <2>1, <2>2
<1>3. SchedInv /\ RatesInv => ShaperFollows
  BY DEF FollowInv, ShaperFollows
<1> HIDE DEF RatesInv
<1> QED BY <1>1, <1>2, <1>3, SchedInvHolds, PTL DEF Spec

-----------------------------------------------------------------------------
(* The shaper, with the scheduler reduced to its rates and flags.           *)

\* No scaled slope is larger than the 32 bits it is stored in before it is limited.
SlopesFit ==
  \A s \in Slopes \cup {0}, r \in Rates : s <= LinkSpeed => (s * r.num) \div r.dnm < BitRange

\* What the handlers store for a rate: that of the slope the user gave if the rate is 1/1.
Stored(r) == IF r.num = 0 THEN 0
             ELSE IF r = Full THEN AddendOf(adminSlope)
             ELSE AddendOf(Scaled(r))

\* Handlers one by one, none while a schedule is pending; the rates the scheduler hands out
\* are then those of the schedule that runs, if one does.
ScheduleInv ==
  /\ \A a, b \in Actors : at[a] # "idle" /\ at[b] # "idle" => a = b
  /\ pending => Settled /\ enabled /\ stRate \in Rates
  /\ ~pending => stRate = operRate
  /\ ~enabled => operRate = Full

\* What a handler has read and computed, and what the addend is until it is written.
SlopeInv ==
  /\ Settled => addend = Stored(operRate)
  /\ \A u \in Writers :
       /\ at[u] \in {"get_rate", "calc"} => addend = Stored(Full)
       /\ at[u] = "calc" => rate[u] = operRate
  /\ at[Sched] # "get_rate"
  /\ at[Sched] = "calc" => rate[Sched] = operRate /\ operRate # Full
  /\ \A a \in Actors : at[a] = "write" => value[a] = Stored(operRate)

OrderlyInv == Orderly => ScheduleInv /\ SlopeInv

\* The quotient of naturals is a natural.
LEMMA DivNat ==
  ASSUME NEW n \in Nat \ {0}, NEW a \in Nat
  PROVE  a \div n \in Nat
<1>1. a \div n \in Int /\ a = n * (a \div n) + (a % n) /\ a % n < n
  OBVIOUS
<1>2. a \div n < 0 => n * (a \div n) <= -n
  BY <1>1
<1> QED BY <1>1, <1>2

\* Quotient and remainder of naturals.
LEMMA DivParts ==
  ASSUME NEW n \in Nat \ {0}, NEW a \in Nat
  PROVE  a = n * (a \div n) + (a % n) /\ a % n \in Nat /\ a % n < n
OBVIOUS

\* A number smaller than the range is not changed by its reduction.
LEMMA ModSmall ==
  ASSUME NEW n \in Nat \ {0}, NEW a \in 0..(n - 1)
  PROVE  a % n = a
<1>1. (n * 0 + a) % n = a
  BY ModUnique
<1> QED BY <1>1

\* edgx_fqtss_calc_addend fits the register's width.
LEMMA AddendType ==
  ASSUME ShaperAssumption
  PROVE  /\ Width \in Nat \ {0} /\ MaxAddend \in Addends /\ 0 \in Addends
         /\ \A x \in Nat : AddendOf(x) \in Addends
<1>1. /\ LinkSpeed \in Nat /\ Scale \in Nat \ {0} /\ Clk \in Nat \ {0} /\ Width \in Nat
      /\ (LinkSpeed * Scale + Clk - 1) \div Clk < Width
  BY DEF ShaperAssumption
<1>2. ASSUME NEW x \in Nat
      PROVE  x * Scale + Clk - 1 \in Nat /\ (x * Scale + Clk - 1) \div Clk \in Nat
  <2>1. x * Scale \in Nat
    BY <1>1
  <2>2. x * Scale + Clk - 1 \in Nat
    BY <1>1, <2>1
  <2> HIDE DEF AddendOf
  <2> QED BY <1>1, <2>2, DivNat
<1>3. (LinkSpeed * Scale + Clk - 1) \div Clk \in Nat
  BY <1>1, <1>2
<1>4. Width \in Nat \ {0}
  BY <1>1, <1>3
<1>5. MaxAddend \in Addends /\ 0 \in Addends
  BY <1>4 DEF MaxAddend, Addends
<1>6. ASSUME NEW x \in Nat
      PROVE  AddendOf(x) \in Addends
  <2>1. (x * Scale + Clk - 1) \div Clk \in Int
    BY <1>2
  <2>2. AddendOf(x) \in 0..(Width - 1)
    BY <1>4, <2>1, ModForm DEF AddendOf
  <2> QED BY <2>2 DEF Addends, MaxAddend
<1> QED BY <1>4, <1>5, <1>6

\* edgx_fqtss_calc_idle_slope, for the addend that is stored.
LEMMA CalcType ==
  ASSUME ShaperAssumption, ShaperTypeOK, NEW r \in Rates \cup {Full}
  PROVE  /\ CalcIdleSlope(r) \in Addends
         /\ adminSlope \in Nat
         /\ r.num \in Nat /\ r.dnm \in Nat \ {0}
         /\ (adminSlope * r.num) \div r.dnm \in Nat
<1>1. r.num \in Nat /\ r.dnm \in Nat \ {0} /\ adminSlope \in Nat /\ addend \in Addends
      /\ BitRange \in Nat \ {0} /\ LinkSpeed \in Nat
  BY DEF ShaperAssumption, ShaperTypeOK, Full
<1>2. adminSlope * r.num \in Nat
  BY <1>1
<1>3. (adminSlope * r.num) \div r.dnm \in Nat
  BY <1>1, <1>2, DivNat
<1>4. Overflows(r) => Whole(r) \in Nat
  <2>1. Overflows(r) => r.num \in Nat \ {0}
    <3>1. r.num = 0 => adminSlope * r.num = 0
      BY <1>1
    <3> QED BY <1>1, <3>1 DEF Overflows, ShaperAssumption
  <2>2. r.num \div r.dnm \in Nat
    BY <1>1, DivNat
  <2>3. ASSUME Overflows(r)
        PROVE  (r.num * (r.dnm \div r.num)) \div r.dnm \in Nat
    <3>1. r.dnm \div r.num \in Nat
      BY <1>1, <2>1, <2>3, DivNat
    <3>2. r.num * (r.dnm \div r.num) \in Nat
      BY <1>1, <3>1
    <3> QED BY <1>1, <3>2, DivNat
  <2> QED BY <2>2, <2>3 DEF Whole
<1>5. Scaled(r) \in Nat
  <2> DEFINE y == (adminSlope * r.num) \div r.dnm
             z == Whole(r) * adminSlope
  <2>1. Overflows(r) => z % BitRange \in Nat
    <3>1. Overflows(r) => z \in Nat
      BY <1>1, <1>4
    <3> HIDE DEF z
    <3> QED BY <1>1, <3>1, DivParts
  <2>2. y % BitRange \in Nat
    <3> HIDE DEF y
    <3>1. y \in Nat
      BY <1>3 DEF y
    <3> QED BY <1>1, <3>1, DivParts
  <2> QED BY <1>1, <2>1, <2>2 DEF Scaled, AtMostLinkSpeed
<1>6. AddendOf(Scaled(r)) \in Addends /\ 0 \in Addends
  BY <1>5, AddendType
<1> QED BY <1>1, <1>3, <1>6 DEF CalcIdleSlope

\* edgx_fqtss_calc_idle_slope, if the addend is unscaled where it is left as it is.
LEMMA CalcStored ==
  ASSUME NEW r, r = Full => addend = Stored(Full)
  PROVE  CalcIdleSlope(r) = Stored(r)
BY DEF CalcIdleSlope, Stored, Full

\* Products of naturals keep and reflect their factors' order.
LEMMA TimesOrder ==
  ASSUME NEW k \in Nat, NEW a \in Nat, NEW c \in Nat
  PROVE  /\ a <= c => k * a <= k * c
         /\ k # 0 /\ k * a <= k * c => a <= c
<1>1. ASSUME a <= c PROVE k * a <= k * c
  <2>1. c - a \in Nat /\ k * c = k * a + k * (c - a)
    BY <1>1
  <2>2. k * (c - a) \in Nat /\ k * a \in Nat
    BY <2>1
  <2> QED BY <2>1, <2>2
<1>2. ASSUME k # 0, c < a PROVE k * c < k * a
  <2>1. a - c \in Nat \ {0} /\ k * a = k * c + k * (a - c)
    BY <1>2
  <2>2. k * (a - c) \in Nat /\ k * (a - c) # 0 /\ k * c \in Nat
    BY <2>1, <1>2
  <2> QED BY <2>1, <2>2
<1>3. k * a \in Nat /\ k * c \in Nat
  OBVIOUS
<1> QED BY <1>1, <1>2, <1>3

\* Dividing first and multiplying then gives at most as much as the other order, and at
\* least half of it.
LEMMA DivideFirst ==
  ASSUME NEW b \in Nat, NEW n \in Nat, NEW d \in Nat \ {0}, d <= n
  PROVE  /\ n \div d \in Nat \ {0} /\ (b * n) \div d \in Nat
         /\ (n \div d) * b <= (b * n) \div d
         /\ (b * n) \div d <= 2 * ((n \div d) * b)
<1> DEFINE w == n \div d
           y == (b * n) \div d
           e == n % d
           f == (b * n) % d
<1>1. w \in Nat /\ b * n \in Nat /\ y \in Nat
  BY DivNat
<1>2. e \in Nat /\ e < d /\ n = d * w + e
  BY DivParts
<1>3. f \in Nat /\ f < d /\ b * n = d * y + f
  BY <1>1, DivParts
<1>4. w # 0
  BY <1>2
<1> HIDE DEF w, y, e, f
<1>5. d * w \in Nat /\ w * b \in Nat /\ d * y \in Nat /\ b * e \in Nat
  BY <1>1, <1>2, <1>3
<1>6. b * n = d * (w * b) + b * e
  BY <1>1, <1>2
<1>7. w * b <= y
  <2>1. d * (w * b) <= d * y + f
    BY <1>1, <1>3, <1>5, <1>6
  <2>2. d * (y + 1) = d * y + d
    BY <1>1
  <2>3. ~(d * (y + 1) <= d * (w * b))
    <3>1. d * (w * b) \in Nat
      BY <1>5
    <3> QED BY <2>1, <2>2, <1>3, <1>5, <3>1
  <2>4. ~(y + 1 <= w * b)
    BY <2>3, <1>1, <1>5, TimesOrder
  <2> QED BY <2>4, <1>1, <1>5
<1>8. y <= 2 * (w * b)
  <2>1. d <= d * w
    <3>1. d * 1 <= d * w
      BY <1>1, <1>4, TimesOrder
    <3> QED BY <3>1
  <2>2. n <= 2 * (d * w)
    BY <2>1, <1>2, <1>5
  <2>3. b * n <= b * (2 * (d * w))
    BY <2>2, <1>5, TimesOrder
  <2>4. b * (2 * (d * w)) = d * (2 * (w * b))
    BY <1>1
  <2>5. d * y <= d * (2 * (w * b))
    <3>1. d * (2 * (w * b)) \in Nat
      BY <1>5
    <3> QED BY <2>3, <2>4, <1>1, <1>3, <1>5, <3>1
  <2> QED BY <2>5, <1>1, <1>5, TimesOrder
<1> QED BY <1>1, <1>4, <1>7, <1>8 DEF w, y

\* What is stored is due, or as much less as DivideFirst says.
LEMMA StoredFollows ==
  ASSUME ShaperAssumption, SlopesFit, ShaperTypeOK, NEW r \in Rates \cup {Full},
         addend = Stored(r), Divides(r)
  PROVE  Follows(r)
<1>1. /\ r.num \in Nat /\ r.dnm \in Nat \ {0} /\ adminSlope \in Nat
      /\ (adminSlope * r.num) \div r.dnm \in Nat
  BY CalcType
<1>2. /\ LinkSpeed \in Nat /\ Clk \in Nat \ {0} /\ Scale \in Nat \ {0}
      /\ BitRange \in Nat \ {0} /\ Full \notin Rates
      /\ adminSlope \in Slopes \cup {0} /\ adminSlope <= LinkSpeed
  BY DEF ShaperAssumption, ShaperTypeOK
<1>3. CASE r = Full
  <2>1. addend = AddendOf(adminSlope) /\ DueSlope(r) = adminSlope
    BY <1>3 DEF Stored, DueSlope, Full
  <2>2. adminSlope \in 0..LinkSpeed /\ adminSlope <= 2 * adminSlope
    BY <1>1, <1>2
  <2> QED BY <2>1, <2>2, <1>1 DEF Follows, Due
<1>4. CASE r # Full /\ r.num = 0
  <2>1. (adminSlope * r.num) \div r.dnm = 0
    <3>1. adminSlope * r.num = 0
      BY <1>1, <1>4
    <3>2. 0 \div r.dnm = 0
      BY <1>1
    <3> QED BY <3>1, <3>2
  <2>2. DueSlope(r) = 0
    BY <2>1, <1>2, <1>4 DEF AtMostLinkSpeed, DueSlope
  <2>3. AddendOf(0) = 0
    <3>1. 0 * Scale + Clk - 1 = Clk - 1
      BY <1>2
    <3>2. (Clk - 1) \div Clk = 0
      BY <1>2
    <3>3. 0 % Width = 0
      BY AddendType, ModSmall
    <3> QED BY <3>1, <3>2, <3>3 DEF AddendOf
  <2>4. addend = AddendOf(0)
    BY <1>4, <2>3 DEF Stored
  <2>5. 0 \in 0..LinkSpeed /\ 0 <= 2 * 0
    BY <1>2
  <2> QED BY <2>2, <2>4, <2>5 DEF Follows, Due
<1>5. CASE r # Full /\ r.num # 0
  <2> DEFINE y == (adminSlope * r.num) \div r.dnm
             z == Whole(r) * adminSlope
  <2>1. y \in Nat /\ y < BitRange
    BY <1>1, <1>2, <1>5 DEF SlopesFit
  <2>2. DueSlope(r) = AtMostLinkSpeed(y) /\ addend = AddendOf(Scaled(r))
    BY <1>5 DEF DueSlope, Stored
  <2>3. CASE ~Overflows(r)
    <3>1. Scaled(r) = AtMostLinkSpeed(y % BitRange)
      BY <2>3 DEF Scaled
    <3> HIDE DEF y
    <3>2. y % BitRange = y
      BY <2>1, <1>2, ModSmall
    <3>3. addend = AddendOf(AtMostLinkSpeed(y))
      BY <3>1, <3>2, <2>2
    <3>4. /\ AtMostLinkSpeed(y) \in 0..LinkSpeed
          /\ AtMostLinkSpeed(y) <= 2 * AtMostLinkSpeed(y)
      BY <2>1, <1>2 DEF AtMostLinkSpeed
    <3> QED BY <2>2, <3>3, <3>4 DEF Follows, Due
  <2>4. CASE Overflows(r)
    <3>1. r.dnm <= r.num
      BY <2>4 DEF Divides
    <3>2. /\ r.num \div r.dnm \in Nat \ {0}
          /\ (r.num \div r.dnm) * adminSlope <= y
          /\ y <= 2 * ((r.num \div r.dnm) * adminSlope)
      BY <3>1, <1>1, DivideFirst
    <3>3. Whole(r) = r.num \div r.dnm
      BY <3>2 DEF Whole
    <3>4. z \in Nat /\ z <= y /\ y <= 2 * z
      BY <3>2, <3>3, <1>1
    <3>5. Scaled(r) = AtMostLinkSpeed(z % BitRange)
      BY <2>4 DEF Scaled
    <3> HIDE DEF y, z
    <3>6. z % BitRange = z
      BY <3>4, <2>1, <1>2, ModSmall
    <3>7. addend = AddendOf(AtMostLinkSpeed(z))
      BY <3>5, <3>6, <2>2
    <3>8. /\ AtMostLinkSpeed(z) \in 0..LinkSpeed
          /\ AtMostLinkSpeed(z) <= AtMostLinkSpeed(y)
          /\ AtMostLinkSpeed(y) <= 2 * AtMostLinkSpeed(z)
      BY <3>4, <2>1, <1>2 DEF AtMostLinkSpeed
    <3> QED BY <2>2, <2>4, <3>7, <3>8 DEF Follows
  <2> QED BY <2>3, <2>4
<1> QED BY <1>3, <1>4, <1>5

LEMMA ShaperFacts ==
  ASSUME ShaperAssumption
  PROVE  /\ Sched \in Actors /\ Sched \notin Writers /\ Writers \subseteq Actors
         /\ \A a \in Actors : a # Sched => a \in Writers
         /\ Full \notin Rates /\ Full \in Rates \cup {Full}
BY DEF ShaperAssumption, Actors

LEMMA ShaperInitial ==
  ASSUME ShaperAssumption, ShaperInit
  PROVE  ShaperTypeOK /\ RegisterFollowsTsa /\ OrderlyInv
<1>1. 0 \in Addends /\ MaxAddend \in Addends /\ LinkSpeed \in Nat /\ MaxEvents \in Nat
  BY AddendType DEF ShaperAssumption
<1>2. ShaperTypeOK
  <2>1. /\ at \in [Actors -> {"idle", "get_rate", "calc", "write", "stopped"}]
        /\ rate \in [Actors -> Rates \cup {Full}] /\ value \in [Actors -> Addends]
    BY <1>1 DEF ShaperInit
  <2>2. events \in 0..MaxEvents /\ adminSlope <= LinkSpeed
    BY <1>1 DEF ShaperInit
  <2> QED BY <1>1, <2>1, <2>2 DEF ShaperInit, ShaperTypeOK
<1>3. RegisterFollowsTsa
  BY DEF ShaperInit, RegisterFollowsTsa
<1>4. ScheduleInv
  BY DEF ShaperInit, ScheduleInv
<1>5. SlopeInv
  <2>1. Stored(operRate) = AddendOf(0) /\ Stored(Full) = AddendOf(0)
    BY DEF ShaperInit, Stored, Full
  <2>2. AddendOf(0) = 0
    <3>1. Clk \in Nat \ {0} /\ Scale \in Nat
      BY DEF ShaperAssumption
    <3>2. 0 * Scale + Clk - 1 = Clk - 1 /\ (Clk - 1) \div Clk = 0
      BY <3>1
    <3>3. 0 % Width = 0
      BY AddendType, ModSmall
    <3> QED BY <3>2, <3>3 DEF AddendOf
  <2> QED BY <2>1, <2>2, ShaperFacts DEF ShaperInit, SlopeInv
<1> QED BY <1>2, <1>3, <1>4, <1>5 DEF OrderlyInv

\* What a step does, by who makes it and what it leaves alone.
LEMMA FqtssTypeStep ==
  ASSUME ShaperAssumption, ShaperTypeOK, [ShaperNext]_shaperVars
  PROVE  ShaperTypeOK'
<1> USE ShaperFacts
<1>0. /\ tsa \in {"CBS", "STRICT_PRIO"} /\ adminSlope \in {0} \cup Slopes
      /\ adminSlope <= LinkSpeed /\ addend \in Addends /\ reg \in Addends
      /\ enabled \in BOOLEAN /\ pending \in BOOLEAN
      /\ stRate \in Rates \cup {Full} /\ operRate \in Rates \cup {Full}
      /\ at \in [Actors -> {"idle", "get_rate", "calc", "write", "stopped"}]
      /\ rate \in [Actors -> Rates \cup {Full}] /\ value \in [Actors -> Addends]
      /\ events \in 0..MaxEvents /\ discipline \in Disciplines
  BY DEF ShaperTypeOK
<1>1. ASSUME NEW a, NEW c, Called(a, c)
      PROVE  events' \in 0..MaxEvents /\ discipline' = discipline
  BY <1>1, <1>0 DEF Called, ShaperAssumption
<1>2. CASE PrepareConfig
  BY <1>1, <1>2, <1>0 DEF PrepareConfig, ShaperTypeOK, shaper, seen
<1>3. CASE ConfigChanged
  <2>1. events' \in 0..MaxEvents /\ discipline' = discipline
    BY <1>1, <1>3 DEF ConfigChanged
  <2>2. /\ rate' \in [Actors -> Rates \cup {Full}] /\ value' = value
        /\ at' \in [Actors -> {"idle", "get_rate", "calc", "write", "stopped"}]
    <3>1. enabled' = enabled /\ stRate' = stRate /\ StChange
      BY <1>3 DEF ConfigChanged
    <3>2. rate' \in [Actors -> Rates \cup {Full}] /\ value' = value
      BY <3>1, <1>0 DEF StChange
    <3>3. at' \in [Actors -> {"idle", "get_rate", "calc", "write", "stopped"}]
      BY <3>1, <1>0 DEF StChange, Goto
    <3> QED BY <3>2, <3>3
  <2> QED BY <2>1, <2>2, <1>3, <1>0 DEF ConfigChanged, ShaperTypeOK, shaper
<1>4. CASE GateOn \/ GateOff
  <2>1. events' \in 0..MaxEvents /\ discipline' = discipline
    BY <1>1, <1>4 DEF GateOn, GateOff
  <2>2. /\ enabled' \in BOOLEAN /\ pending' \in BOOLEAN /\ UNCHANGED <<stRate, operRate, shaper>>
        /\ StChange \/ UNCHANGED <<at, seen>>
    BY <1>4, <1>0 DEF GateOn, GateOff
  <2>3. CASE StChange
    <3>2. rate' \in [Actors -> Rates \cup {Full}] /\ value' = value
      BY <2>3, <2>2, <1>0 DEF StChange
    <3>3. at' \in [Actors -> {"idle", "get_rate", "calc", "write", "stopped"}]
      BY <2>3, <1>0 DEF StChange, Goto
    <3> QED BY <3>2, <3>3, <2>1, <2>2, <1>0 DEF ShaperTypeOK, shaper
  <2>4. CASE UNCHANGED <<at, seen>>
    BY <2>4, <2>1, <2>2, <1>0 DEF ShaperTypeOK, shaper, seen
  <2> QED BY <2>2, <2>3, <2>4
<1>5. ASSUME NEW u \in Writers, AdminSlopeTblWrite(u)
      PROVE  ShaperTypeOK'
  <2>1. events' \in 0..MaxEvents /\ discipline' = discipline
    BY <1>1, <1>5 DEF AdminSlopeTblWrite
  <2>2. PICK s \in Slopes : s <= LinkSpeed /\ adminSlope' = s /\ addend' = AddendOf(s)
    BY <1>5 DEF AdminSlopeTblWrite
  <2>3. s \in Nat /\ addend' \in Addends
    BY <2>2, AddendType DEF ShaperAssumption
  <2>4. at' \in [Actors -> {"idle", "get_rate", "calc", "write", "stopped"}]
    BY <1>5, <1>0 DEF AdminSlopeTblWrite, Goto
  <2>5. UNCHANGED <<tsa, reg, enabled, stRate, operRate, pending, rate, value>>
    BY <1>5 DEF AdminSlopeTblWrite, sched, seen
  <2> QED BY <2>1, <2>2, <2>3, <2>4, <2>5, <1>0 DEF ShaperTypeOK
<1>6. ASSUME NEW u \in Writers, GetTransRate(u)
      PROVE  ShaperTypeOK'
  <2>1. RateNow \in Rates \cup {Full}
    BY <1>0 DEF RateNow
  <2>2. /\ rate' \in [Actors -> Rates \cup {Full}]
        /\ at' \in [Actors -> {"idle", "get_rate", "calc", "write", "stopped"}]
    BY <1>6, <2>1, <1>0 DEF GetTransRate, Goto
  <2>3. UNCHANGED <<tsa, adminSlope, addend, reg, enabled, stRate, operRate, pending, value,
                    events, discipline>>
    BY <1>6 DEF GetTransRate, sched, shaper
  <2> QED BY <2>2, <2>3, <1>0 DEF ShaperTypeOK
<1>7. ASSUME NEW u \in Writers, TsaTblWrite(u)
      PROVE  ShaperTypeOK'
  <2>1. events' \in 0..MaxEvents /\ discipline' = discipline
    BY <1>1, <1>7 DEF TsaTblWrite
  <2>2. /\ value' \in [Actors -> Addends] /\ tsa' \in {"CBS", "STRICT_PRIO"}
        /\ at' \in [Actors -> {"idle", "get_rate", "calc", "write", "stopped"}]
    BY <1>7, <1>0 DEF TsaTblWrite, Goto
  <2>3. UNCHANGED <<adminSlope, addend, reg, enabled, stRate, operRate, pending, rate>>
    BY <1>7 DEF TsaTblWrite, sched
  <2> QED BY <2>1, <2>2, <2>3, <1>0 DEF ShaperTypeOK
<1>8. ASSUME NEW a \in Actors, Calc(a)
      PROVE  ShaperTypeOK'
  <2>1. CalcIdleSlope(rate[a]) \in Addends
    BY <1>0, CalcType
  <2>2. /\ value' \in [Actors -> Addends]
        /\ at' \in [Actors -> {"idle", "get_rate", "calc", "write", "stopped"}]
    BY <1>8, <2>1, <1>0 DEF Calc, Goto
  <2>3. UNCHANGED <<tsa, adminSlope, addend, reg, enabled, stRate, operRate, pending, rate,
                    events, discipline>>
    BY <1>8 DEF Calc, sched, shaper
  <2> QED BY <2>2, <2>3, <1>0 DEF ShaperTypeOK
<1>9. ASSUME NEW a \in Actors, WriteAddend(a)
       PROVE  ShaperTypeOK'
  <2>1. addend' \in Addends /\ reg' \in Addends
    BY <1>9, <1>0, AddendType DEF WriteAddend
  <2>2. /\ value' \in [Actors -> Addends] /\ rate' \in [Actors -> Rates \cup {Full}]
        /\ at' \in [Actors -> {"idle", "get_rate", "calc", "write", "stopped"}]
    BY <1>9, <1>0, AddendType DEF WriteAddend, Goto
  <2>3. UNCHANGED <<tsa, adminSlope, enabled, stRate, operRate, pending, events, discipline>>
    BY <1>9 DEF WriteAddend, sched
  <2> QED BY <2>1, <2>2, <2>3, <1>0 DEF ShaperTypeOK
<1>10. ASSUME NEW a \in Actors, Oops(a)
       PROVE  ShaperTypeOK'
  <2>1. at' \in [Actors -> {"idle", "get_rate", "calc", "write", "stopped"}]
    BY <1>10, <1>0 DEF Oops, Goto
  <2>2. UNCHANGED <<tsa, adminSlope, addend, reg, enabled, stRate, operRate, pending, rate,
                    value, events, discipline>>
    BY <1>10 DEF Oops, sched, shaper, seen
  <2> QED BY <2>1, <2>2, <1>0 DEF ShaperTypeOK
<1>11. CASE UNCHANGED shaperVars
  BY <1>11, <1>0 DEF ShaperTypeOK, shaperVars, shaper, sched, seen
<1> QED
  BY <1>2, <1>3, <1>4, <1>5, <1>6, <1>7, <1>8, <1>9, <1>10, <1>11
     DEF ShaperNext, SchedStep, UserStep

\* edgx_fqtss_write_addend is the last step of every handler that changes the algorithm
\* or the addend: before, its actor is not idle.
LEMMA RegisterStep ==
  ASSUME ShaperAssumption, ShaperTypeOK, RegisterFollowsTsa, [ShaperNext]_shaperVars
  PROVE  RegisterFollowsTsa'
<1> USE ShaperFacts
<1> SUFFICES ASSUME Settled'
             PROVE  reg' = IF tsa' = "CBS" THEN addend' ELSE MaxAddend
  BY DEF RegisterFollowsTsa
<1>0. at \in [Actors -> {"idle", "get_rate", "calc", "write", "stopped"}] /\ \A a \in Actors : at'[a] = "idle"
  BY DEF ShaperTypeOK, Settled
<1>1. ASSUME NEW a \in Actors, WriteAddend(a)
      PROVE  reg' = IF tsa' = "CBS" THEN addend' ELSE MaxAddend
  BY <1>1 DEF WriteAddend
<1>2. ASSUME NEW a \in Actors, NEW s, s # "idle", Goto(a, s)
      PROVE  FALSE
  BY <1>2, <1>0 DEF Goto
<1>3. CASE UNCHANGED <<tsa, addend, reg, at>>
  BY <1>3 DEF RegisterFollowsTsa, Settled
<1>4. CASE SchedStep
  <2>1. ~StChange
    BY <1>2 DEF StChange
  <2> QED
    BY <2>1, <1>3, <1>4 DEF SchedStep, PrepareConfig, ConfigChanged, GateOn, GateOff, shaper, seen
<1>5. ASSUME NEW u \in Writers, UserStep(u)
      PROVE  FALSE
  BY <1>2, <1>5 DEF UserStep, AdminSlopeTblWrite, GetTransRate, TsaTblWrite
<1>6. ASSUME NEW a \in Actors, Calc(a) \/ Oops(a)
      PROVE  FALSE
  BY <1>2, <1>6 DEF Calc, Oops
<1>7. CASE UNCHANGED shaperVars
  BY <1>7, <1>3 DEF shaperVars, shaper
<1> QED
  BY <1>1, <1>4, <1>5, <1>6, <1>7 DEF ShaperNext

\* What the orderly discipline means for a call.
LEMMA OrderlyCall ==
  ASSUME Orderly, NEW a \in Actors, NEW c, Called(a, c)
  PROVE  Settled /\ (c = "swap" \/ ~pending) /\ c # "gate_off"
BY DEF Orderly, Called

\* Where the handlers stand after one of them has moved on.
LEMMA GotoOne ==
  ASSUME ShaperTypeOK, NEW a \in Actors, NEW s, Goto(a, s)
  PROVE  at'[a] = s /\ \A b \in Actors : b # a => at'[b] = at[b]
BY DEF ShaperTypeOK, Goto

\* edgx_st_prepare_config, the swap and edgx_sched_stm_gate_enable, in that order: the rates
\* that are handed out are those of the schedule that runs.
LEMMA ScheduleStep ==
  ASSUME ShaperAssumption, ShaperTypeOK, Orderly, ScheduleInv, [ShaperNext]_shaperVars
  PROVE  ScheduleInv'
<1> USE ShaperFacts
<1>0. /\ \A a, b \in Actors : at[a] # "idle" /\ at[b] # "idle" => a = b
      /\ pending => Settled /\ enabled /\ stRate \in Rates
      /\ ~pending => stRate = operRate
      /\ ~enabled => operRate = Full
      /\ enabled \in BOOLEAN /\ pending \in BOOLEAN
  BY DEF ScheduleInv, ShaperTypeOK
\* a handler begins when all are idle, and goes on when it is the one that is not
<1>1. ASSUME NEW a \in Actors, NEW s, Goto(a, s), Settled \/ at[a] # "idle"
      PROVE  \A b, c \in Actors : at'[b] # "idle" /\ at'[c] # "idle" => b = c
  <2>1. \A b \in Actors : b # a => at'[b] = "idle"
    BY <1>1, <1>0, GotoOne DEF Settled
  <2> QED BY <2>1
<1>2. CASE PrepareConfig
  <2>1. Settled /\ ~pending /\ enabled
    BY <1>2, OrderlyCall DEF PrepareConfig
  <2>2. at' = at /\ enabled' = enabled /\ pending' /\ stRate' \in Rates
    BY <1>2 DEF PrepareConfig
  <2> QED BY <2>1, <2>2, <1>0 DEF ScheduleInv, Settled
<1>3. CASE ConfigChanged
  <2>1. Settled /\ pending /\ ~pending' /\ operRate' = stRate' /\ enabled' = enabled
    BY <1>3, OrderlyCall DEF ConfigChanged
  <2>2. \A b, c \in Actors : at'[b] # "idle" /\ at'[c] # "idle" => b = c
    BY <1>1, <1>3, <2>1 DEF ConfigChanged, StChange
  <2> QED BY <2>1, <2>2, <1>0 DEF ScheduleInv
<1>4. CASE GateOn
  <2>1. Settled /\ ~pending /\ enabled' /\ UNCHANGED <<stRate, operRate, pending>>
    BY <1>4, OrderlyCall DEF GateOn
  <2>2. \A b, c \in Actors : at'[b] # "idle" /\ at'[c] # "idle" => b = c
    <3>1. CASE StChange
      BY <1>1, <3>1, <2>1 DEF StChange
    <3>2. CASE at' = at
      BY <3>2, <1>0
    <3> QED BY <1>4, <3>1, <3>2 DEF GateOn
  <2> QED BY <2>1, <2>2, <1>0 DEF ScheduleInv
<1>5. ~GateOff
  BY OrderlyCall DEF GateOff
<1>6. ASSUME NEW u \in Writers, AdminSlopeTblWrite(u) \/ TsaTblWrite(u)
      PROVE  ScheduleInv'
  <2>1. Settled /\ ~pending
    BY <1>6, OrderlyCall DEF AdminSlopeTblWrite, TsaTblWrite
  <2>2. UNCHANGED <<enabled, stRate, operRate, pending>>
    BY <1>6 DEF AdminSlopeTblWrite, TsaTblWrite, sched
  <2>3. \A b, c \in Actors : at'[b] # "idle" /\ at'[c] # "idle" => b = c
    BY <1>1, <1>6, <2>1 DEF AdminSlopeTblWrite, TsaTblWrite
  <2> QED BY <2>1, <2>2, <2>3, <1>0 DEF ScheduleInv
<1>7. ASSUME NEW a \in Actors,
             (a \in Writers /\ GetTransRate(a)) \/ Calc(a) \/ Oops(a) \/ WriteAddend(a)
      PROVE  ScheduleInv'
  <2>1. at[a] # "idle" /\ UNCHANGED <<enabled, stRate, operRate, pending>>
    BY <1>7 DEF GetTransRate, Calc, Oops, WriteAddend, sched
  <2>2. ~pending
    BY <2>1, <1>0 DEF Settled
  <2>3. \A b, c \in Actors : at'[b] # "idle" /\ at'[c] # "idle" => b = c
    BY <1>1, <1>7, <2>1 DEF GetTransRate, Calc, Oops, WriteAddend
  <2> QED BY <2>1, <2>2, <2>3, <1>0 DEF ScheduleInv
<1>8. CASE UNCHANGED shaperVars
  BY <1>8 DEF shaperVars, sched, ScheduleInv, Settled
<1> QED
  BY <1>2, <1>3, <1>4, <1>5, <1>6, <1>7, <1>8 DEF ShaperNext, SchedStep, UserStep

\* edgx_fqtss_st_change, admin_slope_tbl_write and tsa_tbl_write: they write what is
\* to be stored.
LEMMA SlopeStep ==
  ASSUME ShaperAssumption, ShaperTypeOK, Orderly, ScheduleInv, SlopeInv,
         [ShaperNext]_shaperVars
  PROVE  SlopeInv'
<1> USE ShaperFacts
<1>0. /\ at \in [Actors -> {"idle", "get_rate", "calc", "write", "stopped"}]
      /\ rate \in [Actors -> Rates \cup {Full}] /\ value \in [Actors -> Addends]
      /\ enabled \in BOOLEAN /\ pending \in BOOLEAN
      /\ operRate \in Rates \cup {Full} /\ stRate \in Rates \cup {Full}
      /\ \A a, b \in Actors : at[a] # "idle" /\ at[b] # "idle" => a = b
      /\ pending => Settled /\ enabled /\ stRate \in Rates
      /\ ~pending => stRate = operRate
      /\ ~enabled => operRate = Full
  BY DEF ScheduleInv, ShaperTypeOK
<1>1. /\ Settled => addend = Stored(operRate)
      /\ \A u \in Writers :
           /\ at[u] \in {"get_rate", "calc"} => addend = Stored(Full)
           /\ at[u] = "calc" => rate[u] = operRate
      /\ at[Sched] # "get_rate"
      /\ at[Sched] = "calc" => rate[Sched] = operRate /\ operRate # Full
      /\ \A a \in Actors : at[a] = "write" => value[a] = Stored(operRate)
  BY DEF SlopeInv
<1>2. adminSlope' = adminSlope => \A r : Stored(r)' = Stored(r)
  BY DEF Stored, Scaled, Overflows
\* the scheduler notifies the shaper
<1>3. ASSUME Settled, StChange, enabled', ~pending', stRate' = operRate', operRate' # Full
      PROVE  SlopeInv'
  <2>1. at'[Sched] = "calc" /\ \A b \in Actors : b # Sched => at'[b] = "idle"
    BY <1>3, GotoOne DEF StChange, Settled
  <2>2. rate'[Sched] = operRate'
    BY <1>3, <1>0 DEF StChange
  <2> QED BY <1>3, <2>1, <2>2 DEF SlopeInv, Settled
<1>4. CASE PrepareConfig
  <2>1. UNCHANGED <<adminSlope, addend, at, rate, value, operRate>>
    BY <1>4 DEF PrepareConfig, shaper, seen
  <2> QED BY <2>1, <1>1, <1>2 DEF SlopeInv, Settled
<1>5. CASE ConfigChanged
  <2>1. Settled /\ pending
    BY <1>5, OrderlyCall DEF ConfigChanged
  <2>2. enabled' /\ ~pending' /\ stRate' = operRate' /\ operRate' = stRate /\ StChange
    BY <1>5, <2>1, <1>0 DEF ConfigChanged
  <2>3. stRate # Full
    BY <2>1, <1>0
  <2> QED BY <1>3, <2>1, <2>2, <2>3
<1>6. CASE GateOn
  <2>1. Settled /\ ~pending /\ enabled' /\ ~pending' /\ UNCHANGED <<stRate, operRate, shaper>>
    BY <1>6, OrderlyCall DEF GateOn
  <2>2. CASE operRate # Full
    BY <1>3, <1>6, <2>1, <2>2, <1>0 DEF GateOn
  <2>3. CASE operRate = Full
    BY <1>6, <2>1, <2>3, <1>1, <1>2 DEF GateOn, SlopeInv, Settled, shaper, seen
  <2> QED BY <2>2, <2>3
<1>7. ~GateOff
  BY OrderlyCall DEF GateOff
\* the user
<1>8. ASSUME NEW u \in Writers, AdminSlopeTblWrite(u)
      PROVE  SlopeInv'
  <2>1. Settled
    BY <1>8, OrderlyCall DEF AdminSlopeTblWrite
  <2>2. at'[u] = "get_rate" /\ \A b \in Actors : b # u => at'[b] = "idle"
    BY <1>8, <2>1, GotoOne DEF AdminSlopeTblWrite, Settled
  <2>3. addend' = Stored(Full)'
    BY <1>8 DEF AdminSlopeTblWrite, Stored, Full
  <2> QED BY <2>2, <2>3 DEF SlopeInv, Settled
<1>9. ASSUME NEW u \in Writers, GetTransRate(u)
      PROVE  SlopeInv'
  <2>1. at[u] = "get_rate" /\ UNCHANGED <<adminSlope, addend, operRate>>
    BY <1>9 DEF GetTransRate, shaper, sched
  <2>2. at'[u] = "calc" /\ \A b \in Actors : b # u => at'[b] = "idle"
    BY <1>9, <2>1, <1>0, GotoOne DEF GetTransRate
  <2>3. RateNow = operRate
    BY <2>1, <1>0 DEF RateNow, Settled
  <2>4. rate'[u] = operRate
    BY <1>9, <2>3, <1>0 DEF GetTransRate
  <2> QED BY <2>1, <2>2, <2>4, <1>1, <1>2 DEF SlopeInv, Settled
<1>10. ASSUME NEW u \in Writers, TsaTblWrite(u)
       PROVE  SlopeInv'
  <2>1. Settled /\ UNCHANGED <<adminSlope, addend, operRate>>
    BY <1>10, OrderlyCall DEF TsaTblWrite, sched
  <2>2. at'[u] = "write" /\ \A b \in Actors : b # u => at'[b] = "idle"
    BY <1>10, <2>1, GotoOne DEF TsaTblWrite, Settled
  <2>3. value'[u] = addend
    BY <1>10, <1>0 DEF TsaTblWrite
  <2> QED BY <2>1, <2>2, <2>3, <1>1, <1>2 DEF SlopeInv, Settled
\* both
<1>11. ASSUME NEW a \in Actors, Calc(a)
       PROVE  SlopeInv'
  <2>1. at[a] = "calc" /\ UNCHANGED <<adminSlope, addend, operRate>>
    BY <1>11 DEF Calc, shaper, sched
  <2>2. at'[a] = "write" /\ \A b \in Actors : b # a => at'[b] = "idle"
    BY <1>11, <2>1, <1>0, GotoOne DEF Calc
  <2>3. rate[a] = operRate /\ (operRate = Full => addend = Stored(Full))
    BY <2>1, <1>1
  <2>4. CalcIdleSlope(rate[a]) = Stored(operRate)
    BY <2>3, CalcStored
  <2>5. value'[a] = Stored(operRate)
    BY <1>11, <2>4, <1>0 DEF Calc
  <2> QED BY <2>1, <2>2, <2>5, <1>2 DEF SlopeInv, Settled
<1>12. ASSUME NEW a \in Actors, WriteAddend(a)
       PROVE  SlopeInv'
  <2>1. at[a] = "write" /\ addend' = value[a] /\ UNCHANGED <<adminSlope, operRate>>
    BY <1>12 DEF WriteAddend, sched
  <2>2. \A b \in Actors : at'[b] = "idle"
    BY <1>12, <2>1, <1>0, GotoOne DEF WriteAddend
  <2>3. addend' = Stored(operRate)'
    BY <2>1, <1>1, <1>2
  <2> QED BY <2>2, <2>3 DEF SlopeInv
<1>13. ASSUME NEW a \in Actors, Oops(a)
       PROVE  SlopeInv'
  <2>1. at[a] = "calc" /\ at'[a] = "stopped" /\ \A b \in Actors : b # a => at'[b] = "idle"
    BY <1>13, <1>0, GotoOne DEF Oops
  <2> QED BY <2>1 DEF SlopeInv, Settled
<1>14. CASE UNCHANGED shaperVars
  BY <1>14, <1>1, <1>2 DEF shaperVars, shaper, sched, seen, SlopeInv, Settled
<1> QED
  BY <1>4, <1>5, <1>6, <1>7, <1>8, <1>9, <1>10, <1>11, <1>12, <1>13, <1>14
     DEF ShaperNext, SchedStep, UserStep

LEMMA ShaperInvStep ==
  ASSUME ShaperAssumption
  PROVE  ShaperInv /\ [ShaperNext]_shaperVars => ShaperInv'
BY FqtssTypeStep, RegisterStep DEF ShaperInv

\* The register follows the algorithm, however many threads and notifications overlap
\* (edge_fqtss.c:90-105).
THEOREM ShaperInvAlways ==
  ASSUME ShaperAssumption
  PROVE  ShaperSpec => []ShaperInv
<1>1. ShaperInit => ShaperInv
  BY ShaperInitial DEF ShaperInv
<1>2. ShaperInv /\ [ShaperNext]_shaperVars => ShaperInv'
  BY ShaperInvStep
<1> QED BY <1>1, <1>2, PTL DEF ShaperSpec

\* The addend is that of the slope the user gave last, scaled for the schedule that runs, if
\* the handlers do not overlap, none runs while a schedule is pending, the gates stay enabled
\* and no scaled slope is beyond 32 bits; where the product is beyond 64 bits and the gate is
\* open no longer than the cycle, that of a slope at least half as large
\* (edge_fqtss.c:110-198).
THEOREM SlopeFollowsAlways ==
  ASSUME ShaperAssumption, SlopesFit
  PROVE  ShaperSpec => []SlopeFollows
<1>1. ShaperInit => OrderlyInv
  BY ShaperInitial
<1>2. ShaperInv /\ OrderlyInv /\ [ShaperNext]_shaperVars => OrderlyInv'
  <2> SUFFICES ASSUME ShaperInv, OrderlyInv, [ShaperNext]_shaperVars, Orderly'
               PROVE  ScheduleInv' /\ SlopeInv'
    BY DEF OrderlyInv
  <2>1. discipline' = discipline
    BY DEF ShaperNext, shaperVars, SchedStep, UserStep, PrepareConfig, ConfigChanged, GateOn,
       GateOff, AdminSlopeTblWrite, GetTransRate, TsaTblWrite, Calc, Oops, WriteAddend, Called
  <2>2. Orderly
    BY <2>1 DEF Orderly
  <2> QED BY <2>2, ScheduleStep, SlopeStep DEF OrderlyInv, ShaperInv
<1>3. ShaperInv /\ OrderlyInv => SlopeFollows
  <2> SUFFICES ASSUME ShaperInv, OrderlyInv, Orderly, Settled, Divides(RateThatRuns)
               PROVE  Follows(RateThatRuns)
    BY DEF SlopeFollows
  <2>1. addend = Stored(operRate) /\ (~enabled => operRate = Full)
    BY DEF OrderlyInv, ScheduleInv, SlopeInv
  <2>2. RateThatRuns = operRate /\ operRate \in Rates \cup {Full} /\ ShaperTypeOK
    BY <2>1 DEF RateThatRuns, ShaperInv, ShaperTypeOK
  <2> QED BY <2>1, <2>2, StoredFollows
<1> QED BY <1>1, <1>2, <1>3, ShaperInvAlways, PTL DEF ShaperSpec
=============================================================================
