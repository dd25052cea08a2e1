------------------------------- MODULE Shaper -------------------------------
(***************************************************************************)
(* The credit-based shaper of one traffic queue: edge_fqtss.c.              *)
(*                                                                          *)
(* The user gives a queue an idle slope and a transmission selection          *)
(* algorithm.  While a gate schedule runs, the slope is scaled up by the share *)
(* of the cycle the queue's gate is closed: the scheduler notifies the shaper  *)
(* when a schedule takes effect and when the gates are enabled or disabled,    *)
(* and the shaper asks it for the rate when the user sets a slope.            *)
(*                                                                          *)
(* Actors: sysfs writes (one per thread) and the scheduler's notifications,    *)
(* which run under sched->lock.  The shaper's own lock covers single writes,   *)
(* but not what they are computed from.  The queues do not share state that    *)
(* matters here, so there is one.                                            *)
(***************************************************************************)
EXTENDS Integers, FiniteSets

CONSTANTS
  Writers,        \* threads that write to sysfs
  Slopes,         \* the slopes they write
  Rates,          \* the rates schedules have for the queue
  LinkSpeed,      \* as bit rate
  Scale, Clk,     \* units of the addend: 2^12, and the frequency of the clock
  Width,          \* 2^16, of the addend
  BitRange,       \* 2^32, of a bit rate
  ProdMax,        \* U64_MAX, of the product of a bit rate and a rate
  Disciplines,    \* what the actors may do: see discipline
  Events,         \* what is called
  MaxEvents       \* bound on the number of calls

Sched  == "scheduler"
Actors == Writers \cup {Sched}
Full   == [num |-> 1, dnm |-> 1]   \* of struct edgx_st_tr_rate: no schedule
MaxAddend == Width - 1

ASSUME ShaperAssumption ==
  /\ Slopes \subseteq Nat
  /\ Rates \subseteq [num: 0..ProdMax, dnm: 1..ProdMax] /\ Full \notin Rates
  /\ LinkSpeed \in Nat /\ Scale \in Nat \ {0} /\ Clk \in Nat \ {0}
  /\ BitRange \in Nat /\ LinkSpeed < BitRange
  /\ ProdMax \in Nat /\ BitRange <= ProdMax
  /\ Width \in Nat /\ (LinkSpeed * Scale + Clk - 1) \div Clk < Width
  /\ Disciplines \subseteq [overlap: BOOLEAN, early: BOOLEAN, off: BOOLEAN]
  /\ MaxEvents \in Nat /\ Sched \notin Writers

VARIABLES
  \* struct edgx_fqtss
  tsa, adminSlope, addend,
  reg,          \* the shaper's register
  \* the scheduler: gate_enabled, st->tr_rate, the rate of the schedule that runs,
  \* is another one about to?
  enabled, stRate, operRate, pending,
  \* the handlers under way: where each actor stands and what it has read
  at, rate, value,
  events,
  \* May handlers overlap?  May anything happen to the shaper between the preparation of
  \* a schedule and the moment it takes effect?  Are the gates disabled?
  discipline

shaper     == <<tsa, adminSlope, addend, reg>>
sched      == <<enabled, stRate, operRate, pending>>
seen       == <<rate, value>>
shaperVars == <<shaper, sched, at, seen, events, discipline>>

Addends == 0..MaxAddend

ShaperTypeOK ==
  /\ tsa \in {"CBS", "STRICT_PRIO"} /\ adminSlope \in {0} \cup Slopes
  /\ adminSlope <= LinkSpeed
  /\ addend \in Addends /\ reg \in Addends
  /\ enabled \in BOOLEAN /\ pending \in BOOLEAN
  /\ stRate \in Rates \cup {Full} /\ operRate \in Rates \cup {Full}
  /\ at \in [Actors -> {"idle", "get_rate", "calc", "write", "stopped"}]
  /\ rate \in [Actors -> Rates \cup {Full}] /\ value \in [Actors -> Addends]
  /\ events \in 0..MaxEvents /\ discipline \in Disciplines

ShaperInit ==
  /\ tsa = "STRICT_PRIO" /\ adminSlope = 0 /\ addend = 0 /\ reg = MaxAddend
  /\ enabled = FALSE /\ stRate = Full /\ operRate = Full /\ pending = FALSE
  /\ at = [a \in Actors |-> "idle"]
  /\ rate = [a \in Actors |-> Full] /\ value = [a \in Actors |-> 0]
  /\ events = MaxEvents /\ discipline \in Disciplines

-----------------------------------------------------------------------------
\* edgx_fqtss_calc_addend: round up, in the units of the register.
AddendOf(bitrate) == ((bitrate * Scale + Clk - 1) \div Clk) % Width

AtMostLinkSpeed(bitrate) == IF bitrate > LinkSpeed THEN LinkSpeed ELSE bitrate

\* The product of slope and numerator is beyond 64 bits (a*b > c if and only if a > c/b).
Overflows(r) == adminSlope * r.num > ProdMax

\* What the slope is multiplied with then: the quotient as an integer, or, for an open
\* time longer than the cycle, 1 if it is a multiple of the cycle, else 0.
Whole(r) == IF r.num \div r.dnm > 0 THEN r.num \div r.dnm
            ELSE (r.num * (r.dnm \div r.num)) \div r.dnm

\* With 0 the code divides 0 by 0.
DividesByZero(r) == Overflows(r) /\ Whole(r) = 0

\* Mutant: the product is taken in 64 bits whatever its size.
ScaledUnchecked(r) ==
  AtMostLinkSpeed((((adminSlope * r.num) % (ProdMax + 1)) \div r.dnm) % BitRange)
\* The slope while the gate is open, truncated to 32 bits before it is limited.  An open
\* time longer than the cycle is divided by again: by 1.
Scaled(r) == AtMostLinkSpeed(
  IF Overflows(r) THEN (Whole(r) * adminSlope) % BitRange
  ELSE ((adminSlope * r.num) \div r.dnm) % BitRange)

\* edgx_fqtss_calc_idle_slope: a rate of 1/1 leaves the addend as it is; 0/0 is 0 where
\* the division does not trap.
CalcIdleSlope(r) ==
  IF r.num = 0 THEN 0
  ELSE IF r = Full THEN addend
  ELSE AddendOf(Scaled(r))

\* edgx_st_get_trans_rate
RateNow == IF enabled THEN stRate ELSE Full

Settled == \A a \in Actors : at[a] = "idle"

Called(a, call) ==
  /\ call \in Events /\ events > 0
  /\ at[a] = "idle"
  /\ Settled \/ discipline.overlap
  /\ call = "swap" \/ ~pending \/ discipline.early
  /\ call # "gate_off" \/ discipline.off
  /\ events' = events - 1 /\ UNCHANGED discipline

Goto(a, step) == at' = [at EXCEPT ![a] = step]

-----------------------------------------------------------------------------
(* The scheduler, under sched->lock.                                        *)

\* edgx_st_prepare_config: the rates of the next schedule are computed.
PrepareConfig ==
  /\ Called(Sched, "prepare") /\ enabled
  /\ \E r \in Rates : stRate' = r
  /\ pending' = TRUE
  /\ UNCHANGED <<shaper, enabled, operRate, at, seen>>

\* edgx_fqtss_st_change is called with the rates as they are now.
StChange ==
  /\ rate' = [rate EXCEPT ![Sched] = IF enabled' THEN stRate' ELSE Full]
  /\ Goto(Sched, "calc")
  /\ UNCHANGED value

\* The schedule takes effect.
ConfigChanged ==
  /\ Called(Sched, "swap") /\ pending
  /\ pending' = FALSE
  /\ operRate' = stRate
  /\ UNCHANGED <<shaper, enabled, stRate>>
  /\ StChange

\* Written again while a schedule is pending, it changes nothing.
GateOn ==
  /\ Called(Sched, "gate_on") /\ ~pending
  /\ enabled' = TRUE
  /\ UNCHANGED <<shaper, stRate, operRate, pending>>
  /\ IF operRate # Full THEN StChange ELSE UNCHANGED <<at, seen>>

\* A pending schedule is cancelled; its rates stay.
GateOff ==
  /\ Called(Sched, "gate_off")
  /\ enabled' = FALSE /\ pending' = FALSE
  /\ UNCHANGED <<shaper, stRate, operRate>>
  /\ StChange

-----------------------------------------------------------------------------
(* sysfs.                                                                   *)

\* admin_slope_tbl_write
AdminSlopeTblWrite(u) ==
  /\ Called(u, "slope")
  /\ \E s \in Slopes : s <= LinkSpeed /\ adminSlope' = s /\ addend' = AddendOf(s)
  /\ Goto(u, "get_rate")
  /\ UNCHANGED <<tsa, reg, sched, seen>>

\* It waits for sched->lock.
GetTransRate(u) ==
  /\ at[u] = "get_rate" /\ at[Sched] = "idle"
  /\ ~pending \/ discipline.early
  /\ rate' = [rate EXCEPT ![u] = RateNow]
  /\ Goto(u, "calc")
  /\ UNCHANGED <<shaper, sched, value, events, discipline>>

\* tsa_tbl_write: the addend is read before the lock is taken.
TsaTblWrite(u) ==
  /\ Called(u, "tsa")
  /\ tsa' \in {"CBS", "STRICT_PRIO"}
  /\ value' = [value EXCEPT ![u] = addend]
  /\ Goto(u, "write")
  /\ UNCHANGED <<adminSlope, addend, reg, sched, rate>>

Calc(a) ==
  /\ at[a] = "calc"
  /\ value' = [value EXCEPT ![a] = CalcIdleSlope(rate[a])]
  /\ Goto(a, "write")
  /\ UNCHANGED <<shaper, sched, rate, events, discipline>>

\* The division by zero traps (it does on x86; ARM yields 0): the thread ends where it is,
\* the scheduler's with sched->lock held.
Oops(a) ==
  /\ at[a] = "calc" /\ DividesByZero(rate[a])
  /\ Goto(a, "stopped")
  /\ UNCHANGED <<shaper, sched, seen, events, discipline>>

\* Mutant: the register is written whatever the algorithm.
WriteAddendAlways(a) ==
  /\ at[a] = "write"
  /\ addend' = value[a] /\ reg' = value[a]
  /\ Goto(a, "idle")
  /\ rate' = [rate EXCEPT ![a] = Full] /\ value' = [value EXCEPT ![a] = 0]
  /\ UNCHANGED <<tsa, adminSlope, sched, events, discipline>>
\* edgx_fqtss_write_addend
WriteAddend(a) ==
  /\ at[a] = "write"
  /\ addend' = value[a]
  /\ reg' = IF tsa = "CBS" THEN value[a] ELSE MaxAddend
  /\ Goto(a, "idle")
  /\ rate' = [rate EXCEPT ![a] = Full] /\ value' = [value EXCEPT ![a] = 0]
  /\ UNCHANGED <<tsa, adminSlope, sched, events, discipline>>

-----------------------------------------------------------------------------
SchedStep == PrepareConfig \/ ConfigChanged \/ GateOn \/ GateOff

UserStep(u) == AdminSlopeTblWrite(u) \/ GetTransRate(u) \/ TsaTblWrite(u)

ShaperNext ==
  \/ SchedStep
  \/ \E u \in Writers : UserStep(u)
  \/ \E a \in Actors : Calc(a) \/ Oops(a) \/ WriteAddend(a)

ShaperSpec == ShaperInit /\ [][ShaperNext]_shaperVars

-----------------------------------------------------------------------------
\* The register follows the algorithm: credit is limited for CBS only, and then by the
\* addend, however the handlers overlap (edge_fqtss.c:90-105).
RegisterFollowsTsa == Settled => reg = IF tsa = "CBS" THEN addend ELSE MaxAddend

ShaperInv == ShaperTypeOK /\ RegisterFollowsTsa

\* The slope a rate demands: "idleSlope = (operIdleSlope(N) x OperCycleTime /
\* GateOpenTime)" (edge_fqtss.c:118).
DueSlope(r) == IF r = Full THEN adminSlope
               ELSE AtMostLinkSpeed((adminSlope * r.num) \div r.dnm)
Due(r) == AddendOf(DueSlope(r))

RateThatRuns == IF enabled THEN operRate ELSE Full

\* Whatever was called before: the addend is that of the slope the user gave last, scaled
\* for the schedule that runs, and unscaled while the gates are disabled or no schedule runs.
SlopeAlwaysFollows == Settled => addend = Due(RateThatRuns)

\* It is the due one or, where the product does not fit and the quotient loses its fraction,
\* that of a slope at least half as large, and never of a larger one.
Follows(r) ==
  /\ ~Overflows(r) => addend = Due(r)
  /\ \E x \in 0..LinkSpeed : addend = AddendOf(x) /\ x <= DueSlope(r) /\ DueSlope(r) <= 2 * x

\* Unless the product overflows for a gate that is open longer than the cycle lasts.
Divides(r) == Overflows(r) => r.dnm <= r.num

\* It follows, in whatever order the handlers are called, if they do not overlap, nothing
\* happens while a schedule is pending, and the gates stay enabled.
Orderly == discipline = [overlap |-> FALSE, early |-> FALSE, off |-> FALSE]
SlopeFollows == Orderly /\ Settled /\ Divides(RateThatRuns) => Follows(RateThatRuns)

=============================================================================
