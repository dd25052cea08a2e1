---------------------------- MODULE MCScheduler ----------------------------
(* Instances of Scheduler for TLC. *)
EXTENDS Scheduler

CONSTANTS u1, u2, a, b, bad

\* Two usable tables, as calls to the setters leave them.
Near(l, t) == [list |-> l, len |-> Len(l), cycle |-> 1, base |-> t]

InitEmpty == {EmptyAdmin}
InitReady == {Near(<<a>>, 1), Near(<<a, b>>, 0)}
InitFar   == {Near(<<a, b>>, 5)}
InitOne   == {Near(<<a, b>>, 1)}
InitBoth  == {Near(<<a, b>>, 1), Near(<<a, b>>, 5)}   \* within reach, and held back

AllCalls   == {"base", "cycle", "len", "list", "config change", "no config change",
               "gate on", "gate off"}
Submitting == {"gate on", "gate off", "list", "len", "base", "config change"}

\* What ShaperFollows needs of the users: the gates are not disabled while the
\* hardware has a change (MCSchedulerStaleRate.cfg).  A later change may supersede it.
GatesStay   == \A u \in Users : SetGateDisabled(u) => state # "PENDING"
NominalSpec == Init /\ [][Next /\ GatesStay]_vars /\ Fairness

WritesAll == {[first |-> 0, es |-> <<a>>], [first |-> 0, es |-> <<b, a>>],
              [first |-> 1, es |-> <<bad>>], [first |-> 2, es |-> <<b>>]}
WritesFull == {[first |-> 0, es |-> <<b, a>>]}
=============================================================================
