---------------------------- MODULE PreemptProofs ----------------------------
(***************************************************************************)
(* Theorems about Preempt, for any ports, queues, threads and limit.         *)
(*                                                                          *)
(* Where handlers do not overlap, what Inv and RegisterFollows say of a quiet *)
(* system holds of every port no handler works on (PortsInv), and of the port *)
(* one works on as much as its place says (HandlerInv): before the status is  *)
(* set, only that it need not be changed if it will not be.  What the timer   *)
(* decided when it fired is still true when it acts.                          *)
(*                                                                          *)
(* The counter of attempts is not the port's own.  Whatever overlaps, it never  *)
(* exceeds the attempts of the verifications under way: a timer that stops    *)
(* takes its attempts away, but resets the counter; one that starts has none. *)
(***************************************************************************)
EXTENDS Preempt, FiniteSetTheorems, TLAPS

\* What the register of a port should be.
Wanted(p) == IF PActive(p) THEN pmtStatus[p] ELSE {}

\* The status of a port and its timer, as Inv has them for a quiet system.
StatusRight(p) ==
  /\ verState[p] = "SUCCESS"
       <=> pEnable[p] /\ ~linkFail[p] /\ ~disableVer[p] /\ verified[p]
  /\ ~verified[p] /\ disableVer[p] => verState[p] = "DISABLED"
  /\ ~verified[p] /\ ~disableVer[p] /\ ~ToVerify(p) => verState[p] = "INIT"
TimerDue(p) == ToVerify(p) => timer[p] \in {"armed", "verify"}

\* One handler or timer at a time.
Serial ==
  /\ \A a, b \in Actors : ~Idle(a) /\ ~Idle(b) => a = b
  /\ \A a \in Actors, p \in Ports : ~Idle(a) => ~InTimer(p)
  /\ \A p, q \in Ports : InTimer(p) /\ InTimer(q) => p = q

\* The timer's handler will do what the flags ask for.
TimerInv ==
  \A p \in Ports : /\ timer[p] = "stop" => ~ToVerify(p)
                   /\ timer[p] = "verify" => ToVerify(p)

\* A port no handler works on is as it should be.
PortsInv ==
  \A p \in Ports : (\A a \in Actors : Idle(a) \/ port[a] # p) =>
    /\ StatusRight(p) /\ TimerDue(p) /\ txPree[p] = Wanted(p)

\* What a handler relies on, at the port it works on.
Relies(a) ==
  LET p == port[a]
  IN /\ pc[a] \in {"evaluate", "apply"} =>
          (Decision(p) \in {"none", "start"} => verState[p] # "SUCCESS")
     /\ pc[a] = "apply" => decided[a] = Decision(p)
     /\ pc[a] \in {"set status", "set tx", "write"} => StatusRight(p) /\ TimerDue(p)
     /\ pc[a] = "write" => mask[a] = Wanted(p)
HandlerInv == \A a \in Actors : Relies(a)

SerialInv == Serial /\ TimerInv /\ PortsInv /\ HandlerInv

\* What was counted was attempted by a verification that is under way.
Counted == verCnt <= Cardinality(Attempts)

-----------------------------------------------------------------------------
(* Types.                                                                   *)

\* Each flag is a Boolean, so that Decision picks the case that applies.
LEMMA DecisionIs ==
  ASSUME NEW p,
         pEnable[p] \in BOOLEAN, disableVer[p] \in BOOLEAN,
         linkFail[p] \in BOOLEAN, verified[p] \in BOOLEAN
  PROVE  /\ Decision(p) \in Decisions
         /\ Decision(p) = "success"
              <=> verified[p] /\ ~linkFail[p] /\ ~disableVer[p] /\ pEnable[p]
         /\ Decision(p) = "disabled" <=> ~verified[p] /\ disableVer[p]
         /\ Decision(p) = "init" <=> ~verified[p] /\ ~disableVer[p]
                                       /\ (linkFail[p] \/ ~pEnable[p])
         /\ Decision(p) = "start" <=> ToVerify(p)
BY DEF Decision, Decisions, ToVerify

\* The next state of a handler's place.
LEMMA GotoType ==
  ASSUME TypeOK, NEW a \in Actors, NEW p \in Ports,
         NEW step \in {"idle", "evaluate", "apply", "set status", "set tx", "write"},
         Goto(a, p, step)
  PROVE  /\ pc' \in [Actors -> {"idle", "evaluate", "apply", "set status", "set tx",
                                "write"}]
         /\ port' \in [Actors -> Ports]
         /\ \A b \in Actors : /\ pc'[b] = IF b = a THEN step ELSE pc[b]
                              /\ port'[b] = IF b = a THEN p ELSE port[b]
BY DEF TypeOK, Goto

LEMMA InitType == PreemptAssumption /\ Init => TypeOK
<1> SUFFICES ASSUME PreemptAssumption, Init PROVE TypeOK
  OBVIOUS
<1>1. (CHOOSE p \in Ports : TRUE) \in Ports
  BY DEF PreemptAssumption
<1>2. QED
  BY <1>1 DEF Init, TypeOK, PreemptAssumption, Status, Decisions

\* The counters and bounds, apart from the rest of the types.
LEMMA CounterTypes ==
  ASSUME PreemptAssumption, TypeOK
  PROVE  /\ VerifyLimit \in Nat /\ VerifyLimit > 0 /\ MaxStores \in Nat
         /\ MaxLinkChanges \in Nat
         /\ verCnt \in 0..VerifyLimit /\ made \in [Ports -> 0..VerifyLimit]
         /\ stores \in 0..MaxStores /\ linkChanges \in 0..MaxLinkChanges
<1>1. /\ verCnt \in 0..VerifyLimit /\ made \in [Ports -> 0..VerifyLimit]
      /\ stores \in 0..MaxStores /\ linkChanges \in 0..MaxLinkChanges
  BY DEF TypeOK
<1>2. /\ VerifyLimit \in Nat /\ VerifyLimit > 0 /\ MaxStores \in Nat
      /\ MaxLinkChanges \in Nat
  BY DEF PreemptAssumption
<1>3. QED
  BY <1>1, <1>2

\* Users are actors, and so are the link and the receiver.
LEMMA ActorsAre == Link \in Actors /\ Rx \in Actors /\ Users \subseteq Actors
BY DEF Actors

LEMMA TypeStep ==
  ASSUME PreemptAssumption, TypeOK, [Next]_vars
  PROVE  TypeOK'
<1> USE ActorsAre
<1>1. ASSUME NEW u \in Users, NEW p \in Ports, EnableTxStore(u, p)
      PROVE  TypeOK'
  <2>1. stores' \in 0..MaxStores
    <3>1. stores > 0 /\ stores' = stores - 1
      BY <1>1 DEF EnableTxStore, Store
    <3>2. QED
      BY <3>1, CounterTypes
  <2>2. /\ pEnable' \in [Ports -> BOOLEAN] /\ disableVer' \in [Ports -> BOOLEAN]
        /\ verified' \in [Ports -> BOOLEAN]
    BY <1>1 DEF EnableTxStore, TypeOK
  <2>3. Goto(u, p, "evaluate")
    BY <1>1 DEF EnableTxStore
  <2>4. /\ pc' \in [Actors -> {"idle", "evaluate", "apply", "set status", "set tx",
                                "write"}]
        /\ port' \in [Actors -> Ports]
    BY <2>3, GotoType
  <2>5. QED
    BY <1>1, <2>1, <2>2, <2>4 DEF EnableTxStore, Store, TypeOK, seen, wire, history
<1>2. ASSUME NEW u \in Users, NEW p \in Ports, VerDisTxStore(u, p)
      PROVE  TypeOK'
  <2>1. stores' \in 0..MaxStores
    <3>1. stores > 0 /\ stores' = stores - 1
      BY <1>2 DEF VerDisTxStore, Store
    <3>2. QED
      BY <3>1, CounterTypes
  <2>2. /\ pEnable' \in [Ports -> BOOLEAN] /\ disableVer' \in [Ports -> BOOLEAN]
        /\ verified' \in [Ports -> BOOLEAN]
    BY <1>2 DEF VerDisTxStore, TypeOK
  <2>3. Goto(u, p, "evaluate")
    BY <1>2 DEF VerDisTxStore
  <2>4. /\ pc' \in [Actors -> {"idle", "evaluate", "apply", "set status", "set tx",
                                "write"}]
        /\ port' \in [Actors -> Ports]
    BY <2>3, GotoType
  <2>5. QED
    BY <1>2, <2>1, <2>2, <2>4 DEF VerDisTxStore, Store, TypeOK, seen, wire, history
<1>3. ASSUME NEW u \in Users, NEW p \in Ports, FramePreemptStatusWrite(u, p)
      PROVE  TypeOK'
  <2>1. stores' \in 0..MaxStores
    <3>1. stores > 0 /\ stores' = stores - 1
      BY <1>3 DEF FramePreemptStatusWrite, Store
    <3>2. QED
      BY <3>1, CounterTypes
  <2>2. mask' \in [Actors -> SUBSET Queues]
    <3>1. PICK q \in Queues : mask' = [mask EXCEPT ![u] =
            IF q \in pmtStatus[p] THEN pmtStatus[p] \ {q} ELSE pmtStatus[p] \cup {q}]
      BY <1>3 DEF FramePreemptStatusWrite
    <3>2. mask \in [Actors -> SUBSET Queues] /\ pmtStatus[p] \in SUBSET Queues
      BY DEF TypeOK
    <3>3. QED
      BY <3>1, <3>2
  <2>3. Goto(u, p, "set status")
    BY <1>3 DEF FramePreemptStatusWrite
  <2>4. /\ pc' \in [Actors -> {"idle", "evaluate", "apply", "set status", "set tx",
                                "write"}]
        /\ port' \in [Actors -> Ports]
    BY <2>3, GotoType
  <2>5. QED
    BY <1>3, <2>1, <2>2, <2>4
       DEF FramePreemptStatusWrite, Store, TypeOK, flags, wire, history
<1>4. ASSUME NEW p \in Ports, LinkChange(p)
      PROVE  TypeOK'
  <2>1. linkChanges' \in 0..MaxLinkChanges
    <3>1. linkChanges > 0 /\ linkChanges' = linkChanges - 1
      BY <1>4 DEF LinkChange
    <3>2. QED
      BY <3>1, CounterTypes
  <2>2. /\ linkFail' \in [Ports -> BOOLEAN] /\ verified' \in [Ports -> BOOLEAN]
        /\ answered' \in [Ports -> BOOLEAN] /\ verifyTx' \subseteq Ports
    BY <1>4 DEF LinkChange, TypeOK
  <2>3. Goto(Link, p, "evaluate")
    BY <1>4 DEF LinkChange
  <2>4. /\ pc' \in [Actors -> {"idle", "evaluate", "apply", "set status", "set tx",
                                "write"}]
        /\ port' \in [Actors -> Ports]
    BY <2>3, GotoType
  <2>5. QED
    BY <1>4, <2>1, <2>2, <2>4 DEF LinkChange, TypeOK, seen
<1>5. ASSUME NEW p \in Ports, RcvResponse(p)
      PROVE  TypeOK'
  BY <1>5, GotoType DEF RcvResponse, TypeOK, seen, history, bounds
<1>6. ASSUME NEW a \in Actors, SetStatus(a)
      PROVE  TypeOK'
  BY <1>6, GotoType DEF SetStatus, TypeOK, flags, seen, wire, history, bounds
<1>7. ASSUME NEW a \in Actors, Evaluate(a)
      PROVE  TypeOK'
  <2>1. port[a] \in Ports /\ Decision(port[a]) \in Decisions
    <3>1. /\ port[a] \in Ports
          /\ \A p \in Ports : /\ pEnable[p] \in BOOLEAN /\ disableVer[p] \in BOOLEAN
                             /\ linkFail[p] \in BOOLEAN /\ verified[p] \in BOOLEAN
      BY DEF TypeOK
    <3>2. QED
      BY <3>1, DecisionIs
  <2>2. QED
    <3>1. decided' \in [Actors -> Decisions]
      BY <1>7, <2>1 DEF Evaluate, TypeOK
    <3>2. Goto(a, port[a], "apply")
      BY <1>7 DEF Evaluate
    <3>3. /\ pc' \in [Actors -> {"idle", "evaluate", "apply", "set status", "set tx",
                                  "write"}]
          /\ port' \in [Actors -> Ports]
      BY <2>1, <3>2, GotoType
    <3>4. QED
      BY <1>7, <3>1, <3>3 DEF Evaluate, TypeOK, flags, wire, history, bounds
<1>8. ASSUME NEW a \in Actors, Apply(a)
      PROVE  TypeOK'
  <2>1. verState' \in [Ports -> Status]
    BY <1>8 DEF Apply, TypeOK, Status
  <2>2. /\ timer' \in [Ports -> {"off", "armed", "stop", "verify"}]
        /\ made' \in [Ports -> 0..VerifyLimit]
    <3>1. /\ timer' = IF Starts(a) THEN [timer EXCEPT ![port[a]] = "armed"] ELSE timer
          /\ made' = IF Starts(a) THEN [made EXCEPT ![port[a]] = 0] ELSE made
      BY <1>8 DEF Apply
    <3>2. timer \in [Ports -> {"off", "armed", "stop", "verify"}]
      BY DEF TypeOK
    <3>3. made \in [Ports -> 0..VerifyLimit] /\ 0 \in 0..VerifyLimit
      BY CounterTypes
    <3>4. CASE Starts(a)
      BY <3>1, <3>2, <3>3, <3>4
    <3>5. CASE ~Starts(a)
      BY <3>1, <3>2, <3>3, <3>5
    <3> QED BY <3>4, <3>5
  <2>3. QED
    BY <1>8, <2>1, <2>2, GotoType
       DEF Apply, TypeOK, flags, seen, wire, bounds
<1>9. ASSUME NEW a \in Actors, SetTx(a)
      PROVE  TypeOK'
  BY <1>9, GotoType DEF SetTx, TypeOK, flags, wire, history, bounds
<1>10. ASSUME NEW a \in Actors, WriteTx(a)
       PROVE  TypeOK'
  BY <1>10, GotoType DEF WriteTx, TypeOK, Decisions, flags, wire, history, bounds
<1>11. ASSUME NEW p \in Ports, TimerFires(p)
       PROVE  TypeOK'
  BY <1>11 DEF TimerFires, TypeOK, flags, actors, seen, wire, history, bounds
<1>12. ASSUME NEW p \in Ports, TimerStops(p)
       PROVE  TypeOK'
  <2>1. verCnt' \in 0..VerifyLimit
    <3>1. verCnt' = 0
      BY <1>12 DEF TimerStops
    <3>2. QED
      BY <3>1, CounterTypes
  <2>2. QED
    BY <1>12, <2>1 DEF TimerStops, TypeOK, flags, actors, seen, wire, history, bounds
<1>13. ASSUME NEW p \in Ports, TimerVerifies(p)
       PROVE  TypeOK'
  <2>1. verCnt' \in 0..VerifyLimit
    <3>1. verCnt < VerifyLimit /\ verCnt' = verCnt + 1
      BY <1>13 DEF TimerVerifies
    <3>2. QED
      BY <3>1, CounterTypes
  <2>2. made' \in [Ports -> 0..VerifyLimit]
    <3>1. made' = [made EXCEPT ![p] = IF @ < VerifyLimit THEN @ + 1 ELSE @]
      BY <1>13 DEF TimerVerifies
    <3>2. QED
      BY <3>1, CounterTypes
  <2>3. QED
    BY <1>13, <2>1, <2>2 DEF TimerVerifies, TypeOK, flags, actors, seen, bounds, Status
<1>14. ASSUME NEW p \in Ports, TimerFails(p)
       PROVE  TypeOK'
  <2>1. verCnt' \in 0..VerifyLimit
    <3>1. verCnt' = 0
      BY <1>14 DEF TimerFails
    <3>2. QED
      BY <3>1, CounterTypes
  <2>2. made' \in [Ports -> 0..VerifyLimit]
    <3>1. made' = [made EXCEPT ![p] = 0]
      BY <1>14 DEF TimerFails
    <3>2. QED
      BY <3>1, CounterTypes
  <2>3. QED
    BY <1>14, <2>1, <2>2 DEF TimerFails, TypeOK, flags, actors, seen, wire, bounds, Status
<1>15. ASSUME NEW p \in Ports, PartnerAnswers(p)
       PROVE  TypeOK'
  BY <1>15 DEF PartnerAnswers, TypeOK, flags, actors, seen, bounds
<1>16. ASSUME NEW p \in Ports, FrameLost(p)
       PROVE  TypeOK'
  BY <1>16 DEF FrameLost, TypeOK, flags, actors, seen, bounds, history
<1>17. CASE UNCHANGED vars
  BY <1>17 DEF vars, TypeOK, flags, actors, seen, wire, history, bounds
<1>18. QED
  BY <1>1, <1>2, <1>3, <1>4, <1>5, <1>6, <1>7, <1>8, <1>9, <1>10, <1>11, <1>12,
     <1>13, <1>14, <1>15, <1>16, <1>17
     DEF Next, PortStep, UserStep, TimerStep, HandlerStep

-----------------------------------------------------------------------------
(* Handlers that do not overlap.                                            *)

\* A port that a step leaves as it is.
SameAt(p) ==
  /\ pEnable'[p] = pEnable[p] /\ disableVer'[p] = disableVer[p]
  /\ linkFail'[p] = linkFail[p] /\ verified'[p] = verified[p]
  /\ verState'[p] = verState[p] /\ pmtStatus'[p] = pmtStatus[p]
  /\ txPree'[p] = txPree[p] /\ timer'[p] = timer[p]

Right(p) == StatusRight(p) /\ TimerDue(p) /\ txPree[p] = Wanted(p)

LEMMA RightStays ==
  ASSUME NEW p, SameAt(p)
  PROVE  /\ StatusRight(p)' <=> StatusRight(p)
         /\ TimerDue(p)' <=> TimerDue(p)
         /\ Right(p)' <=> Right(p)
         /\ ToVerify(p)' <=> ToVerify(p)
         /\ Decision(p)' = Decision(p) /\ Wanted(p)' = Wanted(p)
<1>1. (ToVerify(p)' <=> ToVerify(p)) /\ Decision(p)' = Decision(p)
  BY DEF SameAt, ToVerify, Decision
<1>2. (StatusRight(p)' <=> StatusRight(p)) /\ (TimerDue(p)' <=> TimerDue(p))
  BY <1>1 DEF SameAt, StatusRight, TimerDue
<1>3. Wanted(p)' = Wanted(p) /\ txPree'[p] = txPree[p]
  BY DEF SameAt, Wanted, PActive
<1>4. QED
  BY <1>1, <1>2, <1>3 DEF Right

\* PortsInv in terms of Right.
LEMMA PortsRight ==
  PortsInv <=> \A p \in Ports : (\A a \in Actors : Idle(a) \/ port[a] # p) => Right(p)
BY DEF PortsInv, Right

\* An event starts a handler in a quiet system: the other ports stay right, and the
\* handler finds what it relies on.
LEMMA HandlerStarts ==
  ASSUME TypeOK, SerialInv, Quiet, NEW a \in Actors, NEW p \in Ports,
         NEW step \in {"evaluate", "set status"}, Goto(a, p, step), timer' = timer,
         \A q \in Ports \ {p} : SameAt(q), Relies(a)'
  PROVE  SerialInv'
<1>1. \A b \in Actors : /\ pc'[b] = IF b = a THEN step ELSE pc[b]
                        /\ port'[b] = IF b = a THEN p ELSE port[b]
  <2>1. pc' = [pc EXCEPT ![a] = step] /\ port' = [port EXCEPT ![a] = p]
    BY DEF Goto
  <2>2. pc = [b \in Actors |-> pc[b]] /\ port = [b \in Actors |-> port[b]]
    BY DEF TypeOK
  <2>3. QED
    BY <2>1, <2>2
<1>2. \A b \in Actors : (Idle(b) /\ pc[b] = "idle") /\ (Idle(b)' <=> b # a)
  BY <1>1 DEF Quiet, Idle
<1>3. \A q \in Ports : ~InTimer(q) /\ ~InTimer(q)'
  BY DEF Quiet, InTimer
<1>4. Serial'
  BY <1>2, <1>3 DEF Serial
<1>5. TimerInv'
  BY <1>3 DEF TimerInv, InTimer
<1>6. PortsInv'
  <2>1. \A q \in Ports : Right(q)
    BY <1>2, PortsRight DEF SerialInv
  <2>2. ASSUME NEW q \in Ports, \A b \in Actors : Idle(b)' \/ port'[b] # q
        PROVE  Right(q)'
    <3>1. q # p
      BY <1>1, <1>2, <2>2
    <3>2. QED
      BY <2>1, <3>1, RightStays
  <2>3. QED
    BY <2>2 DEF PortsInv, Right
<1>7. HandlerInv'
  <2>1. ASSUME NEW b \in Actors, b # a PROVE Relies(b)'
    <3>1. pc'[b] = "idle"
      BY <1>1, <1>2, <2>1
    <3>2. QED
      BY <3>1 DEF Relies
  <2>2. QED
    BY <2>1 DEF HandlerInv
<1>8. QED
  BY <1>4, <1>5, <1>6, <1>7 DEF SerialInv

\* A handler goes on, or ends with the port as it should be.
LEMMA HandlerGoesOn ==
  ASSUME TypeOK, SerialInv, NEW a \in Actors, ~Idle(a), NEW p \in Ports, p = port[a],
         NEW step \in {"idle", "apply", "set tx", "write"}, Goto(a, p, step),
         \A q \in Ports : timer'[q] \in {timer[q], "armed"},
         \A q \in Ports \ {p} : SameAt(q), Relies(a)', step = "idle" => Right(p)'
  PROVE  SerialInv'
<1>1. \A b \in Actors : /\ pc'[b] = IF b = a THEN step ELSE pc[b]
                        /\ port'[b] = IF b = a THEN p ELSE port[b]
  <2>1. pc' = [pc EXCEPT ![a] = step] /\ port' = [port EXCEPT ![a] = p]
    BY DEF Goto
  <2>2. pc = [b \in Actors |-> pc[b]] /\ port = [b \in Actors |-> port[b]]
    BY DEF TypeOK
  <2>3. QED
    BY <2>1, <2>2
<1>2. \A b \in Actors : b # a => Idle(b) /\ Idle(b)' /\ pc'[b] = "idle"
  BY <1>1 DEF SerialInv, Serial, Idle
<1>3. \A q \in Ports : ~InTimer(q) /\ ~InTimer(q)'
  BY DEF SerialInv, Serial, InTimer
<1>4. Serial'
  BY <1>2, <1>3 DEF Serial
<1>5. TimerInv'
  BY <1>3 DEF TimerInv, InTimer
<1>6. PortsInv'
  <2>1. \A q \in Ports : q # p => Right(q)
    BY <1>2, PortsRight DEF SerialInv
  <2>2. ASSUME NEW q \in Ports, \A b \in Actors : Idle(b)' \/ port'[b] # q
        PROVE  Right(q)'
    <3>1. CASE q # p
      BY <2>1, <3>1, RightStays
    <3>2. CASE q = p
      <4>1. step = "idle"
        BY <1>1, <2>2, <3>2 DEF Idle
      <4>2. QED
        BY <3>2, <4>1
    <3>3. QED
      BY <3>1, <3>2
  <2>3. QED
    BY <2>2 DEF PortsInv, Right
<1>7. HandlerInv'
  <2>1. ASSUME NEW b \in Actors, b # a PROVE Relies(b)'
    BY <1>2, <2>1 DEF Relies
  <2>2. QED
    BY <2>1 DEF HandlerInv
<1>8. QED
  BY <1>4, <1>5, <1>6, <1>7 DEF SerialInv

\* The timer of a port acts while no handler is under way.
LEMMA TimerActs ==
  ASSUME SerialInv, NEW p \in Ports, \A a \in Actors : Idle(a), pc' = pc,
         \A q \in Ports \ {p} : ~InTimer(q) /\ SameAt(q), Right(p)',
         timer'[p] = "stop" => ~ToVerify(p)', timer'[p] = "verify" => ToVerify(p)'
  PROVE  SerialInv'
<1>1. \A a \in Actors : Idle(a)' /\ pc'[a] = "idle"
  BY DEF Idle
<1>2. \A q \in Ports : InTimer(q)' => q = p
  BY DEF InTimer, SameAt
<1>3. Serial'
  BY <1>1, <1>2 DEF Serial
<1>4. TimerInv'
  BY <1>2 DEF TimerInv, InTimer
<1>5. PortsInv'
  <2>1. \A q \in Ports : Right(q)
    BY PortsRight DEF SerialInv
  <2>2. \A q \in Ports : Right(q)'
    BY <2>1, RightStays
  <2>3. QED
    BY <2>2 DEF PortsInv, Right
<1>6. HandlerInv'
  BY <1>1 DEF HandlerInv, Relies
<1>7. QED
  BY <1>3, <1>4, <1>5, <1>6 DEF SerialInv

\* A step that changes neither handlers nor what they work on.
LEMMA NothingActs ==
  ASSUME SerialInv, UNCHANGED <<flags, verState, pmtStatus, timer, txPree, actors>>
  PROVE  SerialInv'
<1>1. \A q : SameAt(q)
  BY DEF SameAt, flags
<1>2. pc' = pc /\ port' = port /\ decided' = decided /\ mask' = mask /\ timer' = timer
      /\ verState' = verState
  BY DEF actors, seen
<1>3. \A q : /\ StatusRight(q)' <=> StatusRight(q)
             /\ TimerDue(q)' <=> TimerDue(q)
             /\ Right(q)' <=> Right(q)
             /\ ToVerify(q)' <=> ToVerify(q)
             /\ Decision(q)' = Decision(q) /\ Wanted(q)' = Wanted(q)
  BY <1>1, RightStays
<1>4. Serial'
  BY <1>2 DEF SerialInv, Serial, Idle, InTimer
<1>5. TimerInv'
  BY <1>2, <1>3 DEF SerialInv, TimerInv
<1>6. PortsInv'
  <2>1. ASSUME NEW q \in Ports, \A a \in Actors : Idle(a)' \/ port'[a] # q
        PROVE  Right(q)'
    BY <1>2, <1>3, <2>1, PortsRight DEF SerialInv, Idle
  <2>2. QED
    BY <2>1 DEF PortsInv, Right
<1>7. HandlerInv'
  <2>1. ASSUME NEW a \in Actors PROVE Relies(a)'
    <3>1. Relies(a)
      BY DEF SerialInv, HandlerInv
    <3>2. QED
      BY <1>2, <1>3, <3>1 DEF Relies
  <2>2. QED
    BY <2>1 DEF HandlerInv
<1>8. QED
  BY <1>4, <1>5, <1>6, <1>7 DEF SerialInv

SuccessFlags(p) == pEnable[p] /\ ~linkFail[p] /\ ~disableVer[p] /\ verified[p]

\* An event changes the flags of a port: unless it stays verified, the status will be
\* set, so that the next step finds what it relies on.
LEMMA EventLeaves ==
  ASSUME TypeOK', NEW a \in Actors, NEW p \in Ports, Right(p), verState' = verState,
         pc'[a] = "evaluate", port'[a] = p,
         SuccessFlags(p) =>
           SuccessFlags(p)' \/ (~verified'[p] /\ (disableVer'[p] \/ linkFail'[p]
                                                  \/ ~pEnable'[p]))
  PROVE  Relies(a)'
<1>1. /\ pEnable'[p] \in BOOLEAN /\ disableVer'[p] \in BOOLEAN
      /\ linkFail'[p] \in BOOLEAN /\ verified'[p] \in BOOLEAN
  BY DEF TypeOK
<1>2. Decision(p)' \in {"none", "start"} =>
        ~SuccessFlags(p)' /\ ~(~verified'[p] /\ (disableVer'[p] \/ linkFail'[p]
                                                 \/ ~pEnable'[p]))
  BY <1>1 DEF Decision, SuccessFlags
<1>3. verState[p] = "SUCCESS" <=> SuccessFlags(p)
  BY DEF Right, StatusRight, SuccessFlags
<1>4. Decision(p)' \in {"none", "start"} => verState'[p] # "SUCCESS"
  BY <1>2, <1>3
<1>5. QED
  BY <1>4 DEF Relies

\* In a quiet system every port is right.
LEMMA QuietRight ==
  ASSUME SerialInv, Quiet
  PROVE  \A p \in Ports : Right(p)
BY PortsRight DEF SerialInv, Quiet

\* The place of an actor after Goto.
LEMMA GotoPlace ==
  ASSUME TypeOK, NEW a \in Actors, NEW p, NEW step, Goto(a, p, step)
  PROVE  pc'[a] = step /\ port'[a] = p
BY DEF TypeOK, Goto

\* The events.
LEMMA SerialEvents ==
  ASSUME PreemptAssumption, Overlap = FALSE, TypeOK, TypeOK', SerialInv,
         NEW p \in Ports,
         (\E u \in Users : UserStep(u, p)) \/ LinkChange(p) \/ RcvResponse(p)
  PROVE  SerialInv'
<1>0. Quiet /\ \A q \in Ports : Right(q)
  <2>1. Alone
    BY DEF UserStep, EnableTxStore, VerDisTxStore, FramePreemptStatusWrite, Store,
           LinkChange, RcvResponse
  <2>2. QED
    BY <2>1, QuietRight DEF Alone
<1>1. ASSUME NEW u \in Users, EnableTxStore(u, p)
      PROVE  SerialInv'
  <2>1. PICK v \in BOOLEAN :
          /\ pEnable' = [pEnable EXCEPT ![p] = v]
          /\ verified' = IF v THEN verified ELSE [verified EXCEPT ![p] = FALSE]
    BY <1>1 DEF EnableTxStore
  <2>2. /\ Goto(u, p, "evaluate") /\ u \in Actors
        /\ UNCHANGED <<disableVer, linkFail, verState, pmtStatus, timer, txPree>>
    BY <1>1 DEF EnableTxStore, Actors
  <2>3. pEnable'[p] = v /\ (v => verified'[p] = verified[p]) /\ (~v => ~verified'[p])
    BY <2>1 DEF TypeOK
  <2>4. \A q \in Ports \ {p} : SameAt(q)
    BY <2>1, <2>2 DEF SameAt, TypeOK
  <2>5. SuccessFlags(p) => SuccessFlags(p)' \/ (~verified'[p] /\ ~pEnable'[p])
    BY <2>2, <2>3 DEF SuccessFlags
  <2>6. Relies(u)'
    BY <1>0, <2>2, <2>5, EventLeaves, GotoPlace
  <2>7. QED
    BY <1>0, <2>2, <2>4, <2>6, HandlerStarts
<1>2. ASSUME NEW u \in Users, VerDisTxStore(u, p)
      PROVE  SerialInv'
  <2>1. PICK v \in BOOLEAN :
          /\ disableVer' = [disableVer EXCEPT ![p] = v]
          /\ verified' = IF v THEN [verified EXCEPT ![p] = FALSE] ELSE verified
    BY <1>2 DEF VerDisTxStore
  <2>2. /\ Goto(u, p, "evaluate") /\ u \in Actors
        /\ UNCHANGED <<pEnable, linkFail, verState, pmtStatus, timer, txPree>>
    BY <1>2 DEF VerDisTxStore, Actors
  <2>3. disableVer'[p] = v /\ (~v => verified'[p] = verified[p]) /\ (v => ~verified'[p])
    BY <2>1 DEF TypeOK
  <2>4. \A q \in Ports \ {p} : SameAt(q)
    BY <2>1, <2>2 DEF SameAt, TypeOK
  <2>5. SuccessFlags(p) => SuccessFlags(p)' \/ (~verified'[p] /\ disableVer'[p])
    BY <2>2, <2>3 DEF SuccessFlags
  <2>6. Relies(u)'
    BY <1>0, <2>2, <2>5, EventLeaves, GotoPlace
  <2>7. QED
    BY <1>0, <2>2, <2>4, <2>6, HandlerStarts
<1>3. ASSUME NEW u \in Users, FramePreemptStatusWrite(u, p)
      PROVE  SerialInv'
  <2>1. /\ Goto(u, p, "set status") /\ u \in Actors
        /\ UNCHANGED <<flags, verState, pmtStatus, timer, txPree>>
    BY <1>3 DEF FramePreemptStatusWrite, Actors
  <2>2. \A q : SameAt(q)
    BY <2>1 DEF SameAt, flags
  <2>3. Right(p)'
    BY <1>0, <2>2, RightStays
  <2>4. pc'[u] = "set status" /\ port'[u] = p
    BY <2>1, GotoPlace
  <2>5. Relies(u)'
    BY <2>3, <2>4 DEF Relies, Right
  <2>6. QED
    BY <1>0, <2>1, <2>2, <2>5, HandlerStarts
<1>4. ASSUME LinkChange(p)
      PROVE  SerialInv'
  <2>1. /\ linkFail' = [linkFail EXCEPT ![p] = ~@]
        /\ verified' = IF linkFail'[p] THEN [verified EXCEPT ![p] = FALSE] ELSE verified
        /\ Goto(Link, p, "evaluate") /\ Link \in Actors
        /\ UNCHANGED <<pEnable, disableVer, verState, pmtStatus, timer, txPree>>
    BY <1>4 DEF LinkChange, Actors
  <2>2. (linkFail'[p] <=> ~linkFail[p]) /\ (linkFail'[p] => ~verified'[p])
    BY <2>1 DEF TypeOK
  <2>3. \A q \in Ports \ {p} : SameAt(q)
    BY <2>1 DEF SameAt, TypeOK
  <2>4. SuccessFlags(p) => ~verified'[p] /\ linkFail'[p]
    BY <2>2 DEF SuccessFlags
  <2>5. Relies(Link)'
    BY <1>0, <2>1, <2>4, EventLeaves, GotoPlace
  <2>6. QED
    BY <1>0, <2>1, <2>3, <2>5, HandlerStarts
<1>5. ASSUME RcvResponse(p)
      PROVE  SerialInv'
  <2>1. /\ verified' = [verified EXCEPT ![p] = TRUE]
        /\ Goto(Rx, p, "evaluate") /\ Rx \in Actors
        /\ UNCHANGED <<pEnable, disableVer, linkFail, verState, pmtStatus, timer, txPree>>
    BY <1>5 DEF RcvResponse, Actors
  <2>2. verified'[p]
    BY <2>1 DEF TypeOK
  <2>3. \A q \in Ports \ {p} : SameAt(q)
    BY <2>1 DEF SameAt, TypeOK
  <2>4. SuccessFlags(p) => SuccessFlags(p)'
    BY <2>1, <2>2 DEF SuccessFlags
  <2>5. Relies(Rx)'
    BY <1>0, <2>1, <2>4, EventLeaves, GotoPlace
  <2>6. QED
    BY <1>0, <2>1, <2>3, <2>5, HandlerStarts
<1>6. QED
  BY <1>1, <1>2, <1>3, <1>4, <1>5 DEF UserStep

\* The end of every handler: preempt_update_sm and preempt_set_tx.
LEMMA SerialHandlers ==
  ASSUME TypeOK, SerialInv, NEW a \in Actors, HandlerStep(a)
  PROVE  SerialInv'
<1>0. PICK p \in Ports : p = port[a] /\ Relies(a)
  BY DEF TypeOK, SerialInv, HandlerInv
<1>1. ASSUME SetStatus(a) PROVE SerialInv'
  <2>1. /\ pc[a] = "set status" /\ Goto(a, p, "set tx")
        /\ pmtStatus' = [pmtStatus EXCEPT ![p] = mask[a]]
        /\ UNCHANGED <<flags, verState, timer, txPree>>
    BY <1>0, <1>1 DEF SetStatus
  <2>2. \A q \in Ports \ {p} : SameAt(q)
    BY <2>1 DEF SameAt, TypeOK, flags
  <2>3. StatusRight(p)' /\ TimerDue(p)'
    <3>1. StatusRight(p) /\ TimerDue(p)
      BY <1>0, <2>1 DEF Relies
    <3>2. ToVerify(p)' <=> ToVerify(p)
      BY <2>1 DEF flags, ToVerify
    <3>3. QED
      BY <2>1, <3>1, <3>2 DEF flags, StatusRight, TimerDue
  <2>4. pc'[a] = "set tx" /\ port'[a] = p
    BY <2>1, GotoPlace
  <2>5. Relies(a)'
    BY <2>3, <2>4 DEF Relies
  <2>6. ~Idle(a) /\ timer' = timer
    BY <2>1 DEF Idle
  <2>7. QED
    BY <1>0, <2>1, <2>2, <2>5, <2>6, HandlerGoesOn
<1>2. ASSUME Evaluate(a) PROVE SerialInv'
  <2>1. /\ pc[a] = "evaluate" /\ Goto(a, p, "apply")
        /\ decided' = [decided EXCEPT ![a] = Decision(p)]
        /\ UNCHANGED <<flags, verState, pmtStatus, timer, txPree>>
    BY <1>0, <1>2 DEF Evaluate
  <2>2. \A q : SameAt(q)
    BY <2>1 DEF SameAt, flags
  <2>3. decided'[a] = Decision(p) /\ Decision(p)' = Decision(p)
    BY <2>1, <2>2, RightStays DEF TypeOK
  <2>4. pc'[a] = "apply" /\ port'[a] = p
    BY <2>1, GotoPlace
  <2>5. Relies(a)'
    BY <1>0, <2>1, <2>3, <2>4 DEF Relies
  <2>6. ~Idle(a) /\ timer' = timer
    BY <2>1 DEF Idle
  <2>7. QED
    BY <1>0, <2>1, <2>2, <2>5, <2>6, HandlerGoesOn
<1>3. ASSUME Apply(a) PROVE SerialInv'
  <2> DEFINE d == Decision(p)
  <2>1. /\ pc[a] = "apply" /\ Goto(a, p, "set tx") /\ decided[a] = d
        /\ UNCHANGED <<flags, pmtStatus, txPree>>
    BY <1>0, <1>3 DEF Apply, Relies
  <2>2. /\ verState' = CASE d = "success"  -> [verState EXCEPT ![p] = "SUCCESS"]
                         [] d = "disabled" -> [verState EXCEPT ![p] = "DISABLED"]
                         [] d = "init"     -> [verState EXCEPT ![p] = "INIT"]
                         [] OTHER          -> verState
        /\ timer' = IF d = "start" /\ timer[p] = "off"
                    THEN [timer EXCEPT ![p] = "armed"] ELSE timer
    BY <1>0, <1>3, <2>1 DEF Apply, Starts
  <2> HIDE DEF d
  <2>3. /\ verState'[p] = CASE d = "success"  -> "SUCCESS"
                            [] d = "disabled" -> "DISABLED"
                            [] d = "init"     -> "INIT"
                            [] OTHER          -> verState[p]
        /\ \A q \in Ports \ {p} : verState'[q] = verState[q]
    <3>1. verState = [q \in Ports |-> verState[q]]
      BY DEF TypeOK
    <3>2. CASE d = "success"
      BY <1>0, <2>2, <3>1, <3>2
    <3>3. CASE d = "disabled"
      BY <1>0, <2>2, <3>1, <3>3
    <3>4. CASE d = "init"
      BY <1>0, <2>2, <3>1, <3>4
    <3>5. CASE d \notin {"success", "disabled", "init"}
      BY <1>0, <2>2, <3>5
    <3>6. QED
      BY <3>2, <3>3, <3>4, <3>5
  <2>4. /\ \A q \in Ports : timer'[q] \in {timer[q], "armed"}
        /\ \A q \in Ports \ {p} : timer'[q] = timer[q]
        /\ d = "start" => timer'[p] = "armed" \/ (timer'[p] = timer[p]
                                                  /\ timer[p] # "off")
    <3>1. timer = [q \in Ports |-> timer[q]]
      BY DEF TypeOK
    <3>2. CASE d = "start" /\ timer[p] = "off"
      <4>1. timer' = [timer EXCEPT ![p] = "armed"]
        BY <2>2, <3>2
      <4>2. \A q \in Ports : timer'[q] = IF q = p THEN "armed" ELSE timer[q]
        BY <1>0, <3>1, <4>1
      <4>3. timer'[p] = "armed"
        BY <1>0, <4>2
      <4>4. QED
        BY <4>2, <4>3
    <3>3. CASE ~(d = "start" /\ timer[p] = "off")
      BY <2>2, <3>3
    <3>4. QED
      BY <3>2, <3>3
  <2>5. ~Idle(a)
    BY <2>1 DEF Idle
  <2>6. timer[p] \in {"off", "armed"}
    BY <1>0, <2>5 DEF SerialInv, Serial, InTimer, TypeOK
  <2>7. /\ pEnable[p] \in BOOLEAN /\ disableVer[p] \in BOOLEAN
        /\ linkFail[p] \in BOOLEAN /\ verified[p] \in BOOLEAN
    BY <1>0 DEF TypeOK
  <2>8. /\ d = "success" <=> SuccessFlags(p)
        /\ d = "disabled" <=> ~verified[p] /\ disableVer[p]
        /\ d = "init" <=> ~verified[p] /\ ~disableVer[p] /\ ~ToVerify(p)
        /\ d = "start" <=> ToVerify(p)
        /\ d \in Decisions
    BY <2>7, DecisionIs DEF d, SuccessFlags, ToVerify
  <2>9. d \in {"none", "start"} => verState[p] # "SUCCESS"
    BY <1>0, <2>1 DEF Relies, d
  <2>10. (ToVerify(p)' <=> ToVerify(p)) /\ (SuccessFlags(p)' <=> SuccessFlags(p))
         /\ verified'[p] = verified[p] /\ disableVer'[p] = disableVer[p]
    BY <2>1 DEF flags, ToVerify, SuccessFlags
  <2>11. StatusRight(p)'
    <3>1. verState'[p] = "SUCCESS" <=> SuccessFlags(p)
      BY <2>3, <2>8, <2>9 DEF Decisions
    <3>2. ~verified[p] /\ disableVer[p] => verState'[p] = "DISABLED"
      BY <2>3, <2>8
    <3>3. ~verified[p] /\ ~disableVer[p] /\ ~ToVerify(p) => verState'[p] = "INIT"
      BY <2>3, <2>8
    <3>4. QED
      BY <2>10, <3>1, <3>2, <3>3 DEF StatusRight, SuccessFlags
  <2>12. TimerDue(p)'
    BY <2>4, <2>6, <2>8, <2>10 DEF TimerDue
  <2>13. pc'[a] = "set tx" /\ port'[a] = p
    BY <2>1, GotoPlace
  <2>14. Relies(a)'
    BY <2>11, <2>12, <2>13 DEF Relies
  <2>15. \A q \in Ports \ {p} : SameAt(q)
    BY <2>1, <2>3, <2>4 DEF SameAt, flags
  <2>16. QED
    BY <1>0, <2>1, <2>4, <2>5, <2>14, <2>15, HandlerGoesOn
<1>4. ASSUME SetTx(a) PROVE SerialInv'
  <2>1. /\ pc[a] = "set tx" /\ Goto(a, p, "write")
        /\ mask' = [mask EXCEPT ![a] = Wanted(p)]
        /\ UNCHANGED <<flags, verState, pmtStatus, timer, txPree>>
    BY <1>0, <1>4 DEF SetTx, Wanted
  <2>2. \A q : SameAt(q)
    BY <2>1 DEF SameAt, flags
  <2>3. mask'[a] = Wanted(p) /\ Wanted(p)' = Wanted(p)
    BY <2>1, <2>2, RightStays DEF TypeOK
  <2>4. StatusRight(p)' /\ TimerDue(p)'
    BY <1>0, <2>1, <2>2, RightStays DEF Relies
  <2>5. pc'[a] = "write" /\ port'[a] = p
    BY <2>1, GotoPlace
  <2>6. Relies(a)'
    BY <2>3, <2>4, <2>5 DEF Relies
  <2>7. ~Idle(a) /\ timer' = timer
    BY <2>1 DEF Idle
  <2>8. QED
    BY <1>0, <2>1, <2>2, <2>6, <2>7, HandlerGoesOn
<1>5. ASSUME WriteTx(a) PROVE SerialInv'
  <2>1. /\ pc[a] = "write" /\ Goto(a, p, "idle")
        /\ txPree' = [txPree EXCEPT ![p] = mask[a]]
        /\ UNCHANGED <<flags, verState, pmtStatus, timer>>
    BY <1>0, <1>5 DEF WriteTx
  <2>2. \A q \in Ports \ {p} : SameAt(q)
    BY <2>1 DEF SameAt, flags, TypeOK
  <2>3. StatusRight(p) /\ TimerDue(p) /\ mask[a] = Wanted(p)
    BY <1>0, <2>1 DEF Relies
  <2>4. txPree'[p] = Wanted(p)
    BY <1>0, <2>1, <2>3 DEF TypeOK
  <2>5. Right(p)'
    <3>1. ToVerify(p)' <=> ToVerify(p)
      BY <2>1 DEF flags, ToVerify
    <3>2. StatusRight(p)' /\ TimerDue(p)'
      BY <2>1, <2>3, <3>1 DEF flags, StatusRight, TimerDue
    <3>3. Wanted(p)' = Wanted(p)
      BY <2>1 DEF flags, Wanted, PActive
    <3>4. QED
      BY <2>4, <3>2, <3>3 DEF Right
  <2>6. pc'[a] = "idle"
    BY <2>1, GotoPlace
  <2>7. Relies(a)'
    BY <2>6 DEF Relies
  <2>8. ~Idle(a) /\ timer' = timer
    BY <2>1 DEF Idle
  <2>9. QED
    BY <1>0, <2>1, <2>2, <2>5, <2>7, <2>8, HandlerGoesOn
<1>6. QED
  BY <1>1, <1>2, <1>3, <1>4, <1>5 DEF HandlerStep

\* The timer: it finds the flags as they were when it fired.
LEMMA SerialTimer ==
  ASSUME PreemptAssumption, Overlap = FALSE, TypeOK, SerialInv, NEW p \in Ports,
         TimerStep(p)
  PROVE  SerialInv'
<1>1. timer[p] \in {"stop", "verify"} =>
        (\A a \in Actors : Idle(a)) /\ \A q \in Ports \ {p} : ~InTimer(q)
  BY DEF SerialInv, Serial, InTimer
<1>2. (\A a \in Actors : Idle(a)) => Right(p)
  BY PortsRight DEF SerialInv
<1>3. ASSUME TimerFires(p) PROVE SerialInv'
  <2>1. /\ Quiet /\ timer[p] = "armed" /\ pc' = pc
        /\ timer' = [timer EXCEPT ![p] =
             IF disableVer[p] \/ linkFail[p] \/ ~pEnable[p] \/ verified[p]
             THEN "stop" ELSE "verify"]
        /\ UNCHANGED <<flags, verState, pmtStatus, txPree>>
    BY <1>3 DEF TimerFires, Alone, actors
  <2>2. timer'[p] = IF ToVerify(p) THEN "verify" ELSE "stop"
    BY <2>1 DEF TypeOK, ToVerify
  <2>3. \A q \in Ports \ {p} : ~InTimer(q) /\ SameAt(q)
    BY <2>1 DEF Quiet, SameAt, TypeOK, flags
  <2>4. ToVerify(p)' <=> ToVerify(p)
    BY <2>1 DEF flags, ToVerify
  <2>5. Right(p)
    BY <1>2, <2>1 DEF Quiet
  <2>6. Right(p)'
    <3>1. StatusRight(p)'
      BY <2>1, <2>4, <2>5 DEF flags, Right, StatusRight
    <3>2. TimerDue(p)'
      BY <2>2, <2>4 DEF TimerDue
    <3>3. (txPree[p] = Wanted(p))'
      BY <2>1, <2>5 DEF flags, Right, Wanted, PActive
    <3>4. QED
      BY <3>1, <3>2, <3>3 DEF Right
  <2>7. \A a \in Actors : Idle(a)
    BY <2>1 DEF Quiet
  <2>8. QED
    BY <2>1, <2>2, <2>3, <2>4, <2>6, <2>7, TimerActs
<1>4. ASSUME TimerStops(p) PROVE SerialInv'
  <2>1. /\ timer[p] = "stop" /\ pc' = pc /\ timer' = [timer EXCEPT ![p] = "off"]
        /\ UNCHANGED <<flags, verState, pmtStatus, txPree>>
    BY <1>4 DEF TimerStops, actors
  <2>2. timer'[p] = "off" /\ ~ToVerify(p)
    BY <2>1 DEF TypeOK, SerialInv, TimerInv
  <2>3. \A q \in Ports \ {p} : ~InTimer(q) /\ SameAt(q)
    BY <1>1, <2>1 DEF SameAt, TypeOK, flags
  <2>4. ToVerify(p)' <=> ToVerify(p)
    BY <2>1 DEF flags, ToVerify
  <2>5. Right(p)'
    <3>1. Right(p)
      BY <1>1, <1>2, <2>1
    <3>2. StatusRight(p)'
      BY <2>1, <2>4, <3>1 DEF flags, Right, StatusRight
    <3>3. TimerDue(p)'
      BY <2>2, <2>4 DEF TimerDue
    <3>4. (txPree[p] = Wanted(p))'
      BY <2>1, <3>1 DEF flags, Right, Wanted, PActive
    <3>5. QED
      BY <3>2, <3>3, <3>4 DEF Right
  <2>6. QED
    BY <1>1, <2>1, <2>2, <2>3, <2>5, TimerActs
<1>5. ASSUME TimerVerifies(p) \/ TimerFails(p) PROVE SerialInv'
  <2>1. timer[p] = "verify" /\ pc' = pc /\ ToVerify(p) /\ Right(p)
    BY <1>1, <1>2, <1>5 DEF TimerVerifies, TimerFails, actors, SerialInv, TimerInv
  <2>2. /\ timer' = [timer EXCEPT ![p] = "armed"]
        /\ UNCHANGED <<pEnable, disableVer, linkFail, pmtStatus, txPree>>
        /\ verified' = verified \/ verified' = [verified EXCEPT ![p] = FALSE]
        /\ \/ verState' = [verState EXCEPT ![p] = "INPROCESS"]
           \/ verState' = [verState EXCEPT ![p] = "FAILED"]
    BY <1>5 DEF TimerVerifies, TimerFails, flags
  <2>3. timer'[p] = "armed" /\ verified'[p] = verified[p] /\ ~verified[p]
        /\ verState'[p] \in {"INPROCESS", "FAILED"}
    BY <2>1, <2>2 DEF TypeOK, ToVerify
  <2>4. \A q \in Ports \ {p} : ~InTimer(q) /\ SameAt(q)
    BY <1>1, <2>1, <2>2 DEF SameAt, TypeOK
  <2>5. ToVerify(p)'
    BY <2>1, <2>2, <2>3 DEF ToVerify
  <2>6. Right(p)'
    <3>1. StatusRight(p)'
      BY <2>3, <2>5 DEF StatusRight, ToVerify
    <3>2. TimerDue(p)'
      BY <2>3 DEF TimerDue
    <3>3. (txPree[p] = Wanted(p))'
      BY <2>1, <2>2, <2>3 DEF Right, Wanted, PActive
    <3>4. QED
      BY <3>1, <3>2, <3>3 DEF Right
  <2>7. QED
    BY <1>1, <2>1, <2>3, <2>4, <2>6, TimerActs
<1>6. QED
  BY <1>3, <1>4, <1>5 DEF TimerStep

\* All steps keep the ports right, if handlers do not overlap.
LEMMA SerialStep ==
  ASSUME PreemptAssumption, Overlap = FALSE, TypeOK, TypeOK', SerialInv, [Next]_vars
  PROVE  SerialInv'
<1>1. ASSUME NEW p \in Ports, PartnerAnswers(p) \/ FrameLost(p) PROVE SerialInv'
  <2>1. UNCHANGED <<flags, verState, pmtStatus, timer, txPree, actors>>
    BY <1>1 DEF PartnerAnswers, FrameLost
  <2>2. QED
    BY <2>1, NothingActs
<1>2. CASE UNCHANGED vars
  <2>1. UNCHANGED <<flags, verState, pmtStatus, timer, txPree, actors>>
    BY <1>2 DEF vars
  <2>2. QED
    BY <2>1, NothingActs
<1>3. ASSUME NEW p \in Ports, PortStep(p) PROVE SerialInv'
  BY <1>1, <1>3, SerialEvents, SerialTimer DEF PortStep
<1>4. ASSUME NEW u \in Users, NEW p \in Ports, UserStep(u, p) PROVE SerialInv'
  BY <1>4, SerialEvents
<1>5. ASSUME NEW a \in Actors, HandlerStep(a) PROVE SerialInv'
  BY <1>5, SerialHandlers
<1>6. QED
  BY <1>2, <1>3, <1>4, <1>5 DEF Next

LEMMA SerialInit == PreemptAssumption /\ Init => SerialInv
<1> SUFFICES ASSUME PreemptAssumption, Init PROVE SerialInv
  OBVIOUS
<1>1. \A a \in Actors : Idle(a) /\ pc[a] = "idle"
  BY DEF Init, Idle
<1>2. \A p \in Ports : timer[p] = "off" /\ ~InTimer(p) /\ ~ToVerify(p)
  BY DEF Init, InTimer, ToVerify
<1>3. \A p \in Ports : Right(p)
  <2>1. ASSUME NEW p \in Ports PROVE Right(p)
    <3>1. /\ ~pEnable[p] /\ ~disableVer[p] /\ ~verified[p] /\ verState[p] = "INIT"
          /\ txPree[p] = {}
      BY DEF Init
    <3>2. QED
      BY <1>2, <3>1 DEF Right, StatusRight, TimerDue, Wanted, PActive
  <2>2. QED
    BY <2>1
<1>4. Serial /\ TimerInv
  BY <1>1, <1>2 DEF Serial, TimerInv
<1>5. PortsInv
  BY <1>3, PortsRight
<1>6. HandlerInv
  BY <1>1 DEF HandlerInv, Relies
<1>7. QED
  BY <1>4, <1>5, <1>6 DEF SerialInv

-----------------------------------------------------------------------------
(* The theorems.                                                            *)

\* The flags, the handlers' places and the counters keep their types, and the counter
\* that the timers share (ver_cnt in preempt_verification_fn) its limit, overlapping or
\* not.
THEOREM PreemptTypes == Spec => []TypeOK
<1>1. Init => TypeOK
  BY InitType, PreemptAssumption
<1>2. TypeOK /\ [Next]_vars => TypeOK'
  BY TypeStep, PreemptAssumption
<1>3. QED
  BY <1>1, <1>2, PTL DEF Spec

\* Where handlers do not overlap, a handler or the timer of a port always finds the
\* flags as it left them (preempt_update_sm, preempt_verification_fn).
THEOREM SerialInvHolds ==
  ASSUME Overlap = FALSE
  PROVE  Spec => []SerialInv
<1>1. Init => SerialInv
  BY SerialInit, PreemptAssumption
<1>2. TypeOK /\ TypeOK' /\ SerialInv /\ [Next]_vars => SerialInv'
  BY SerialStep, PreemptAssumption
<1>3. QED
  BY <1>1, <1>2, PreemptTypes, PTL DEF Spec

\* Whenever no handler runs, the status that is reported is the flags', and a port that
\* is to be verified has its timer armed, for any number of ports, if handlers do not
\* overlap (edge_preempt.c:530-568).
THEOREM PreemptInvCorrect ==
  ASSUME Overlap = FALSE
  PROVE  Spec => []Inv
<1>1. TypeOK /\ SerialInv => Inv
  <2> SUFFICES ASSUME TypeOK, SerialInv, Quiet
               PROVE  /\ \A p \in Ports : StatusRight(p)
                      /\ \A p \in Ports : ToVerify(p) => timer[p] = "armed"
    BY DEF Inv, StatusTruthful, VerificationDue, StatusRight
  <2>1. \A p \in Ports : Right(p) /\ ~InTimer(p)
    BY QuietRight DEF Quiet
  <2>2. QED
    BY <2>1 DEF Right, TimerDue, InTimer
<1>2. QED
  BY <1>1, PreemptTypes, SerialInvHolds, PTL

\* Whenever no handler runs, the queues that are preempted are those the user chose if
\* preemption is active, and none otherwise (preempt_set_tx), if handlers do not overlap.
THEOREM RegisterFollowsCorrect ==
  ASSUME Overlap = FALSE
  PROVE  Spec => []RegisterFollows
<1>1. SerialInv => RegisterFollows
  BY QuietRight DEF Right, Wanted, PActive, RegisterFollows
<1>2. QED
  BY <1>1, SerialInvHolds, PTL

\* Sets of attempts are finite; one that has all of one port is as large as the limit.
LEMMA AttemptsFinite ==
  ASSUME PreemptAssumption, IsFiniteSet(Ports), NEW A \in SUBSET (Ports \X (1..VerifyLimit))
  PROVE  /\ IsFiniteSet(A) /\ Cardinality(A) \in Nat
         /\ \A p \in Ports : {p} \X (1..VerifyLimit) \subseteq A
                               => VerifyLimit <= Cardinality(A)
<1>1. VerifyLimit \in Nat /\ VerifyLimit > 0
  BY DEF PreemptAssumption
<1>2. /\ IsFiniteSet(1..VerifyLimit) /\ Cardinality(1..VerifyLimit) = VerifyLimit
  BY <1>1, FS_Interval
<1>3. IsFiniteSet(Ports \X (1..VerifyLimit))
  BY <1>2, FS_Product
<1>4. IsFiniteSet(A) /\ Cardinality(A) \in Nat
  BY <1>3, FS_Subset, FS_CardinalityType
<1>5. ASSUME NEW p \in Ports, {p} \X (1..VerifyLimit) \subseteq A
      PROVE  VerifyLimit <= Cardinality(A)
  <2>1. IsFiniteSet({p}) /\ Cardinality({p}) = 1
    BY FS_Singleton
  <2>2. Cardinality({p} \X (1..VerifyLimit)) = Cardinality({p}) * Cardinality(1..VerifyLimit)
    BY <1>2, <2>1, FS_Product
  <2>3. Cardinality({p} \X (1..VerifyLimit)) = VerifyLimit
    BY <1>1, <1>2, <2>1, <2>2
  <2>4. Cardinality({p} \X (1..VerifyLimit)) <= Cardinality(A)
    BY <1>4, <1>5, FS_Subset
  <2> QED BY <2>3, <2>4
<1> QED BY <1>4, <1>5

LEMMA AttemptsAre ==
  /\ Attempts \in SUBSET (Ports \X (1..VerifyLimit))
  /\ Attempts' \in SUBSET (Ports \X (1..VerifyLimit))
BY DEF Attempts

\* An attempt is counted once, as one of the port that makes it.
LEMMA AttemptCounted ==
  ASSUME PreemptAssumption, TypeOK, TypeOK', IsFiniteSet(Ports), Counted,
         NEW p \in Ports, TimerVerifies(p)
  PROVE  Counted'
<1>1. /\ VerifyLimit \in Nat /\ verCnt \in 0..VerifyLimit /\ verCnt < VerifyLimit
      /\ verCnt' = verCnt + 1
      /\ made \in [Ports -> 0..VerifyLimit] /\ timer[p] = "verify"
  BY CounterTypes DEF TimerVerifies
<1>2. /\ timer \in [Ports -> {"off", "armed", "stop", "verify"}]
      /\ timer' = [timer EXCEPT ![p] = "armed"]
      /\ made' = [made EXCEPT ![p] = IF made[p] < VerifyLimit THEN made[p] + 1 ELSE made[p]]
  BY DEF TimerVerifies, TypeOK
<1>3. CASE made[p] < VerifyLimit
  <2> DEFINE new == <<p, made[p] + 1>>
  <2>1. new \notin Attempts
    BY <1>1 DEF Attempts
  <2>2. Attempts' = Attempts \cup {new}
    <3>1. ASSUME NEW q \in Ports, NEW k \in 1..VerifyLimit
          PROVE  <<q, k>> \in Attempts' <=> <<q, k>> \in Attempts \/ <<q, k>> = new
      BY <1>1, <1>2, <1>3, <3>1 DEF Attempts
    <3>2. new \in Ports \X (1..VerifyLimit)
      BY <1>1, <1>3
    <3>3. /\ Attempts \subseteq Ports \X (1..VerifyLimit)
          /\ Attempts' \subseteq Ports \X (1..VerifyLimit)
      BY DEF Attempts
    <3> QED BY <3>1, <3>2, <3>3
  <2>3. Cardinality(Attempts') = Cardinality(Attempts) + 1
    BY <2>1, <2>2, AttemptsFinite, AttemptsAre, FS_AddElement
  <2>4. Cardinality(Attempts) \in Nat
    BY AttemptsFinite, AttemptsAre
  <2> QED BY <1>1, <2>3, <2>4 DEF Counted
<1>4. CASE ~(made[p] < VerifyLimit)
  <2>1. /\ timer'[p] # "off" /\ made'[p] = VerifyLimit
    BY <1>1, <1>2, <1>4
  <2>2. {p} \X (1..VerifyLimit) \subseteq Attempts'
    BY <1>1, <2>1 DEF Attempts
  <2>3. Cardinality(Attempts') \in Nat /\ VerifyLimit <= Cardinality(Attempts')
    BY <2>2, AttemptsFinite, AttemptsAre
  <2> QED BY <1>1, <2>3 DEF Counted
<1> QED BY <1>3, <1>4

\* The other steps leave the attempts as they are, or reset the counter.
LEMMA CountedStays ==
  ASSUME PreemptAssumption, TypeOK, IsFiniteSet(Ports), Counted,
         UNCHANGED verCnt, NEW p \in Ports,
         \/ UNCHANGED <<timer, made>>
         \/ /\ timer[p] = "off" /\ timer' = [timer EXCEPT ![p] = "armed"]
            /\ made' = [made EXCEPT ![p] = 0]
         \/ /\ timer[p] = "armed" /\ UNCHANGED made
            /\ \E t \in {"stop", "verify"} : timer' = [timer EXCEPT ![p] = t]
  PROVE  Counted'
<1>1. /\ VerifyLimit \in Nat /\ made \in [Ports -> 0..VerifyLimit]
      /\ timer \in [Ports -> {"off", "armed", "stop", "verify"}]
  BY CounterTypes DEF TypeOK
<1>2. ASSUME NEW a \in Ports \X (1..VerifyLimit)
      PROVE  timer'[a[1]] # "off" /\ a[2] <= made'[a[1]]
               <=> timer[a[1]] # "off" /\ a[2] <= made[a[1]]
  BY <1>1, <1>2
<1>3. Attempts' = Attempts
  BY <1>2 DEF Attempts
<1> QED BY <1>3 DEF Counted

\* No port is declared failed unless the verifications under way have made all attempts
\* between them (preempt_verification_fn, edge_preempt.c:600-632): for any finite number
\* of ports that share the counter, any limit, and also when handlers overlap.
THEOREM FailureEarnedCorrect ==
  ASSUME IsFiniteSet(Ports)
  PROVE  Spec => FailureEarned
<1>1. PreemptAssumption /\ Init => Counted
  <2> SUFFICES ASSUME PreemptAssumption, Init PROVE Counted
    OBVIOUS
  <2>1. verCnt = 0 /\ Cardinality(Attempts) \in Nat
    BY AttemptsFinite, AttemptsAre DEF Init
  <2> QED BY <2>1 DEF Counted
<1>2. TypeOK /\ TypeOK' /\ Counted /\ [Next]_vars
        => /\ Counted'
           /\ \A p \in Ports : verState'[p] = "FAILED" /\ verState[p] # "FAILED"
                                 => Cardinality(Attempts) >= VerifyLimit
  <2> SUFFICES ASSUME TypeOK, TypeOK', Counted, [Next]_vars
               PROVE  /\ Counted'
                      /\ \A p \in Ports : verState'[p] = "FAILED" /\ verState[p] # "FAILED"
                                            => Cardinality(Attempts) >= VerifyLimit
    OBVIOUS
  <2> USE PreemptAssumption
  <2>1. /\ VerifyLimit \in Nat /\ verCnt \in 0..VerifyLimit
        /\ Cardinality(Attempts) \in Nat /\ Cardinality(Attempts') \in Nat
        /\ verState \in [Ports -> Status]
        /\ \A a \in Actors : port[a] \in Ports
    BY CounterTypes, AttemptsFinite, AttemptsAre DEF TypeOK
  <2>2. ASSUME NEW p \in Ports, TimerStops(p)
        PROVE  Counted' /\ UNCHANGED verState
    BY <2>1, <2>2 DEF TimerStops, Counted
  <2>3. ASSUME NEW p \in Ports, TimerVerifies(p)
        PROVE  Counted' /\ \A q \in Ports : verState'[q] = "FAILED" => verState[q] = "FAILED"
    <3>1. verState' = [verState EXCEPT ![p] = "INPROCESS"]
      BY <2>3 DEF TimerVerifies
    <3> QED BY <2>1, <2>3, <3>1, AttemptCounted
  <2>4. ASSUME NEW p \in Ports, TimerFails(p)
        PROVE  Counted' /\ Cardinality(Attempts) >= VerifyLimit
    <3>1. verCnt >= VerifyLimit /\ verCnt' = 0
      BY <2>4 DEF TimerFails
    <3> QED BY <2>1, <3>1 DEF Counted
  <2>5. ASSUME NEW p \in Ports, TimerFires(p)
        PROVE  Counted' /\ UNCHANGED verState
    <3>1. /\ timer[p] = "armed" /\ UNCHANGED <<verCnt, made, verState>>
          /\ \E t \in {"stop", "verify"} : timer' = [timer EXCEPT ![p] = t]
      BY <2>5 DEF TimerFires, history
    <3> QED BY <3>1, CountedStays
  <2>6. ASSUME NEW a \in Actors, Apply(a)
        PROVE  Counted' /\ \A q \in Ports : verState'[q] = "FAILED" => verState[q] = "FAILED"
    <3> DEFINE o == port[a]
               d == decided[a]
    <3>1. /\ UNCHANGED verCnt
          /\ \/ UNCHANGED <<timer, made>>
             \/ /\ timer[o] = "off" /\ timer' = [timer EXCEPT ![o] = "armed"]
                /\ made' = [made EXCEPT ![o] = 0]
      BY <2>6 DEF Apply, Starts
    <3>2. verState' = CASE d = "success"  -> [verState EXCEPT ![o] = "SUCCESS"]
                        [] d = "disabled" -> [verState EXCEPT ![o] = "DISABLED"]
                        [] d = "init"     -> [verState EXCEPT ![o] = "INIT"]
                        [] OTHER          -> verState
      BY <2>6 DEF Apply
    <3>3. o \in Ports
      BY <2>1
    <3> HIDE DEF o, d
    <3>4. Counted'
      BY <3>1, <3>3, CountedStays
    <3>5. ASSUME NEW q \in Ports, verState'[q] = "FAILED" PROVE verState[q] = "FAILED"
      <4>1. CASE d = "success"
        BY <2>1, <3>2, <3>5, <4>1
      <4>2. CASE d = "disabled"
        BY <2>1, <3>2, <3>5, <4>2
      <4>3. CASE d = "init"
        BY <2>1, <3>2, <3>5, <4>3
      <4>4. CASE d \notin {"success", "disabled", "init"}
        BY <3>2, <3>5, <4>4
      <4> QED BY <4>1, <4>2, <4>3, <4>4
    <3> QED BY <3>4, <3>5
  <2>7. ASSUME UNCHANGED <<verCnt, made, timer, verState>>
        PROVE  Counted' /\ UNCHANGED verState
    <3>1. PICK p : p \in Ports
      BY DEF PreemptAssumption
    <3> QED BY <2>7, <3>1, CountedStays
  <2>8. ASSUME NEW a \in Actors, SetStatus(a) \/ Evaluate(a) \/ SetTx(a) \/ WriteTx(a)
        PROVE  UNCHANGED <<verCnt, made, timer, verState>>
    BY <2>8 DEF SetStatus, Evaluate, SetTx, WriteTx, history
  <2>9. ASSUME NEW q \in Ports,
               \/ \E u \in Users : UserStep(u, q)
               \/ LinkChange(q) \/ RcvResponse(q) \/ PartnerAnswers(q) \/ FrameLost(q)
        PROVE  UNCHANGED <<verCnt, made, timer, verState>>
    BY <2>9 DEF UserStep, EnableTxStore, VerDisTxStore, FramePreemptStatusWrite,
                LinkChange, RcvResponse, PartnerAnswers, FrameLost, history
  <2>10. CASE UNCHANGED vars
    BY <2>7, <2>10 DEF vars, history
  <2> QED
    BY <2>2, <2>3, <2>4, <2>5, <2>6, <2>7, <2>8, <2>9, <2>10
       DEF Next, PortStep, TimerStep, HandlerStep
<1>3. QED
  BY <1>1, <1>2, PreemptTypes, PreemptAssumption, PTL DEF Spec, FailureEarned

=============================================================================
