---------------------------- MODULE SchedulerAbs ----------------------------
(***************************************************************************)
(* What a scheduler promises its user: an administrative table that can be  *)
(* edited at any time, at most one pending configuration, and an operational*)
(* one.  A configuration is always a whole administrative table, taken at   *)
(* one instant at which it was usable; it becomes operational only as a     *)
(* whole, only by having been pending, and not before its start time.       *)
(***************************************************************************)
EXTENDS Integers, Sequences

CONSTANT Admins,        \* administrative tables
         Config(_),     \* what of an administrative table the hardware is given
         Usable(_)      \* can it be submitted?

VARIABLES admin, pending, oper, start, now     \* pending, oper: at most one each

vars == <<admin, pending, oper, start, now>>

Init ==
  /\ admin \in Admins
  /\ pending = {} /\ oper = {}
  /\ start = 0 /\ now = 0

Edit == admin' \in Admins /\ UNCHANGED <<pending, oper, start, now>>

\* The start time is chosen, or corrected after the fact, with nothing pending.
Plan == pending = {} /\ start' \in Int /\ UNCHANGED <<admin, pending, oper, now>>

Submit ==
  /\ pending = {} /\ Usable(admin)
  /\ pending' = {Config(admin)}
  /\ UNCHANGED <<admin, oper, start, now>>

Cancel == pending' = {} /\ UNCHANGED <<admin, oper, start, now>>

Swap ==
  /\ pending # {} /\ now >= start
  /\ oper' = pending /\ pending' = {}
  /\ UNCHANGED <<admin, start, now>>

Tick == now' = now + 1 /\ UNCHANGED <<admin, pending, oper, start>>

Next == Edit \/ Plan \/ Submit \/ Cancel \/ Swap \/ Tick

Spec == Init /\ [][Next]_vars
=============================================================================
