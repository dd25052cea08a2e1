------------------------------- MODULE Preempt -------------------------------
(***************************************************************************)
(* Frame preemption of the bridge ports (IEEE 802.3br MAC merge):           *)
(* edge_preempt.c.                                                          *)
(*                                                                          *)
(* Before a port may preempt frames, it verifies that its link partner can  *)
(* reassemble them: a timer sends verify frames until a response arrives or *)
(* the attempts are used up; then the port rests and starts over.  The user *)
(* enables preemption, may disable the verification, and chooses the        *)
(* preemptible queues; the link may fail at any time.                       *)
(*                                                                          *)
(* Actors: sysfs writes (one per thread), link changes, the reception of a  *)
(* response, the timer of each port.  No lock is held over any of the       *)
(* handlers: each reads the flags in one place and uses them in another.    *)
(* The link partner is external: it answers a verify frame.                 *)
(***************************************************************************)
EXTENDS Naturals, FiniteSets

CONSTANTS
  Ports,
  Users,           \* threads that write to sysfs
  Queues,          \* traffic queues
  VerifyLimit,     \* PMT_VERIFY_LIMIT
  Overlap,         \* may the handlers overlap?  If not, they run one by one
  MayLose,         \* are verify frames lost on the link?
  Stores,          \* the attributes that are written
  MaxStores, MaxLinkChanges  \* bounds on the user's and the link's events

Link   == "link"
Rx     == "rx"
Actors == Users \cup {Link, Rx}
Status == {"INIT", "INPROCESS", "SUCCESS", "FAILED", "DISABLED"}

ASSUME PreemptAssumption ==
  /\ Ports # {}
  /\ VerifyLimit \in Nat \ {0}
  /\ Overlap \in BOOLEAN /\ MayLose \in BOOLEAN
  /\ {Link, Rx} \cap Users = {}
  /\ MaxStores \in Nat /\ MaxLinkChanges \in Nat

VARIABLES
  \* struct edgx_preempt, one per port
  pEnable, disableVer, linkFail, verified, verState, pmtStatus,
  timer,       \* "off", "armed", or in its handler after reading the flags
  verCnt,      \* the static counter of preempt_verification_fn
  txPree,      \* register PMT_TX_PREE0: the queues that may be preempted
  \* the handlers under way: where each actor stands, at which port, and what it
  \* has read
  pc, port, decided, mask,
  \* frames on their way to the link partner, and responses received from it
  verifyTx, respRx,
  \* history and bounds: attempts the port has made since its timer was started, or
  \* since it was declared failed (no more than VerifyLimit), whether the partner has answered since
  \* the link came up, events left
  made, answered, stores, linkChanges

flags   == <<pEnable, disableVer, linkFail, verified>>
seen    == <<decided, mask>>
actors  == <<pc, port, seen>>
wire    == <<verifyTx, respRx>>
history == <<made, answered>>
bounds  == <<stores, linkChanges>>
vars    == <<flags, verState, pmtStatus, timer, verCnt, txPree, actors, wire,
             history, bounds>>

Decisions == {"success", "disabled", "init", "start", "none"}

TypeOK ==
  /\ pEnable \in [Ports -> BOOLEAN] /\ disableVer \in [Ports -> BOOLEAN]
  /\ linkFail \in [Ports -> BOOLEAN] /\ verified \in [Ports -> BOOLEAN]
  /\ verState \in [Ports -> Status] /\ pmtStatus \in [Ports -> SUBSET Queues]
  /\ timer \in [Ports -> {"off", "armed", "stop", "verify"}]
  /\ verCnt \in 0..VerifyLimit /\ txPree \in [Ports -> SUBSET Queues]
  /\ pc \in [Actors -> {"idle", "evaluate", "apply", "set status", "set tx", "write"}]
  /\ port \in [Actors -> Ports]
  /\ decided \in [Actors -> Decisions] /\ mask \in [Actors -> SUBSET Queues]
  /\ verifyTx \subseteq Ports /\ respRx \subseteq Ports
  /\ made \in [Ports -> 0..VerifyLimit] /\ answered \in [Ports -> BOOLEAN]
  /\ stores \in 0..MaxStores /\ linkChanges \in 0..MaxLinkChanges

-----------------------------------------------------------------------------
\* preempt_calc_p_active
PActiveUnverified(p) == pEnable[p]     \* mutant
PActive(p) == pEnable[p] /\ (verified[p] \/ disableVer[p])

\* The switch of preempt_update_sm: combinations it does not list are ignored.
DecisionRestartNever(p) ==     \* mutant
  CASE pEnable[p] /\ verified[p] /\ ~linkFail[p] /\ ~disableVer[p] -> "success"
    [] disableVer[p] /\ ~verified[p] /\ (pEnable[p] \/ linkFail[p] \/ ~linkFail[p])
                                                                   -> "disabled"
    [] OTHER -> "init"
Decision(p) ==
  CASE verified[p] /\ ~linkFail[p] /\ ~disableVer[p] /\ pEnable[p] -> "success"
    [] ~verified[p] /\ disableVer[p]                               -> "disabled"
    [] ~verified[p] /\ ~disableVer[p] /\ (linkFail[p] \/ ~pEnable[p]) -> "init"
    [] ~verified[p] /\ ~disableVer[p] /\ ~linkFail[p] /\ pEnable[p] -> "start"
    [] OTHER -> "none"

Idle(a) == pc[a] = "idle"
InTimer(p) == timer[p] \in {"stop", "verify"}

\* No handler is under way; none starts during another, where they do not overlap.
Quiet == (\A a \in Actors : Idle(a)) /\ (\A p \in Ports : ~InTimer(p))
Alone == Overlap \/ Quiet

Goto(a, p, step) == pc' = [pc EXCEPT ![a] = step] /\ port' = [port EXCEPT ![a] = p]

Init ==
  /\ pEnable = [p \in Ports |-> FALSE] /\ disableVer = [p \in Ports |-> FALSE]
  /\ linkFail \in [Ports -> BOOLEAN] /\ verified = [p \in Ports |-> FALSE]
  /\ verState = [p \in Ports |-> "INIT"] /\ pmtStatus = [p \in Ports |-> {}]
  /\ timer = [p \in Ports |-> "off"] /\ verCnt = 0
  /\ txPree = [p \in Ports |-> {}]
  /\ pc = [a \in Actors |-> "idle"]
  /\ port = [a \in Actors |-> CHOOSE p \in Ports : TRUE]
  /\ decided = [a \in Actors |-> "none"] /\ mask = [a \in Actors |-> {}]
  /\ verifyTx = {} /\ respRx = {}
  /\ made = [p \in Ports |-> 0] /\ answered = [p \in Ports |-> FALSE]
  /\ stores \in 0..MaxStores /\ linkChanges \in 0..MaxLinkChanges

-----------------------------------------------------------------------------
(* The first step of each handler: the event and what it does to the flags. *)

Store(u, attr) ==
  /\ attr \in Stores /\ stores > 0 /\ Idle(u) /\ Alone
  /\ stores' = stores - 1
  /\ UNCHANGED linkChanges

\* enable_tx_store
EnableTxStore(u, p) ==
  /\ Store(u, "enable")
  /\ \E v \in BOOLEAN :
       /\ pEnable' = [pEnable EXCEPT ![p] = v]
       /\ verified' = IF v THEN verified ELSE [verified EXCEPT ![p] = FALSE]
  /\ Goto(u, p, "evaluate")
  /\ UNCHANGED <<disableVer, linkFail, verState, pmtStatus, timer, verCnt, txPree,
                 seen, wire, history>>

\* ver_dis_tx_store
VerDisTxStore(u, p) ==
  /\ Store(u, "disable verify")
  /\ \E v \in BOOLEAN :
       /\ disableVer' = [disableVer EXCEPT ![p] = v]
       /\ verified' = IF v THEN [verified EXCEPT ![p] = FALSE] ELSE verified
  /\ Goto(u, p, "evaluate")
  /\ UNCHANGED <<pEnable, linkFail, verState, pmtStatus, timer, verCnt, txPree,
                 seen, wire, history>>

\* frame_preempt_status_write reads the word of all queues, ...
FramePreemptStatusWrite(u, p) ==
  /\ Store(u, "status")
  /\ \E q \in Queues :
       mask' = [mask EXCEPT ![u] = IF q \in pmtStatus[p] THEN pmtStatus[p] \ {q}
                                                         ELSE pmtStatus[p] \cup {q}]
  /\ Goto(u, p, "set status")
  /\ UNCHANGED <<flags, verState, pmtStatus, timer, verCnt, txPree, decided, wire,
                 history>>

\* ... and writes it back with the bit of one changed.
SetStatus(a) ==
  /\ pc[a] = "set status"
  /\ pmtStatus' = [pmtStatus EXCEPT ![port[a]] = mask[a]]
  /\ Goto(a, port[a], "set tx")
  /\ UNCHANGED <<flags, verState, timer, verCnt, txPree, seen, wire, history, bounds>>

\* edgx_preempt_link_chng.  What is on the wire is lost with the link; a response
\* that was received is still in the receive ring.
LinkChange(p) ==
  /\ linkChanges > 0 /\ Idle(Link) /\ Alone
  /\ linkChanges' = linkChanges - 1
  /\ linkFail' = [linkFail EXCEPT ![p] = ~@]
  /\ verified' = IF linkFail'[p] THEN [verified EXCEPT ![p] = FALSE] ELSE verified
  /\ answered' = [answered EXCEPT ![p] = FALSE]
  /\ verifyTx' = verifyTx \ {p}
  /\ Goto(Link, p, "evaluate")
  /\ UNCHANGED <<pEnable, disableVer, verState, pmtStatus, timer, verCnt, txPree,
                 seen, respRx, made, stores>>

\* edgx_preempt_rcv with a response frame.  (A verify frame is only answered.)
RcvResponse(p) ==
  /\ p \in respRx /\ Idle(Rx) /\ Alone
  /\ respRx' = respRx \ {p}
  /\ verified' = [verified EXCEPT ![p] = TRUE]
  /\ Goto(Rx, p, "evaluate")
  /\ UNCHANGED <<pEnable, disableVer, linkFail, verState, pmtStatus, timer, verCnt,
                 txPree, seen, verifyTx, history, bounds>>

-----------------------------------------------------------------------------
(* preempt_update_sm and preempt_set_tx, the end of every handler.          *)

Evaluate(a) ==
  /\ pc[a] = "evaluate"
  /\ decided' = [decided EXCEPT ![a] = Decision(port[a])]
  /\ Goto(a, port[a], "apply")
  /\ UNCHANGED <<flags, verState, pmtStatus, timer, verCnt, txPree, mask, wire,
                 history, bounds>>

\* preempt_start_ver arms the timer unless it is armed or its handler runs.
Starts(a) == decided[a] = "start" /\ timer[port[a]] = "off"

Apply(a) ==
  LET p == port[a]
  IN  /\ pc[a] = "apply"
      /\ verState' = CASE decided[a] = "success"  -> [verState EXCEPT ![p] = "SUCCESS"]
                       [] decided[a] = "disabled" -> [verState EXCEPT ![p] = "DISABLED"]
                       [] decided[a] = "init"     -> [verState EXCEPT ![p] = "INIT"]
                       [] OTHER                -> verState
      /\ timer' = IF Starts(a) THEN [timer EXCEPT ![p] = "armed"] ELSE timer
      /\ made' = IF Starts(a) THEN [made EXCEPT ![p] = 0] ELSE made
      /\ Goto(a, p, "set tx")
      /\ UNCHANGED <<flags, pmtStatus, verCnt, txPree, seen, wire, answered, bounds>>

SetTx(a) ==
  /\ pc[a] = "set tx"
  /\ mask' = [mask EXCEPT ![a] = IF PActive(port[a]) THEN pmtStatus[port[a]] ELSE {}]
  /\ Goto(a, port[a], "write")
  /\ UNCHANGED <<flags, verState, pmtStatus, timer, verCnt, txPree, decided, wire,
                 history, bounds>>

WriteTx(a) ==
  /\ pc[a] = "write"
  /\ txPree' = [txPree EXCEPT ![port[a]] = mask[a]]
  /\ Goto(a, port[a], "idle")
  /\ decided' = [decided EXCEPT ![a] = "none"] /\ mask' = [mask EXCEPT ![a] = {}]
  /\ UNCHANGED <<flags, verState, pmtStatus, timer, verCnt, wire, history, bounds>>

-----------------------------------------------------------------------------
(* preempt_verification_fn, one timer per port.                             *)

TimerFires(p) ==
  /\ timer[p] = "armed" /\ Alone
  /\ timer' = [timer EXCEPT ![p] =
       IF disableVer[p] \/ linkFail[p] \/ ~pEnable[p] \/ verified[p]
       THEN "stop" ELSE "verify"]
  /\ UNCHANGED <<flags, verState, pmtStatus, verCnt, txPree, actors, wire, history,
                 bounds>>

TimerStopsKeepsCount(p) ==     \* mutant
  /\ timer[p] = "stop"
  /\ timer' = [timer EXCEPT ![p] = "off"]
  /\ UNCHANGED <<flags, verState, pmtStatus, verCnt, txPree, actors, wire, history,
                 bounds>>
TimerStops(p) ==
  /\ timer[p] = "stop"
  /\ timer' = [timer EXCEPT ![p] = "off"]
  /\ verCnt' = 0
  /\ UNCHANGED <<flags, verState, pmtStatus, txPree, actors, wire, history, bounds>>

TimerVerifies(p) ==
  /\ timer[p] = "verify" /\ verCnt < VerifyLimit
  /\ timer' = [timer EXCEPT ![p] = "armed"]
  /\ verState' = [verState EXCEPT ![p] = "INPROCESS"]
  /\ verCnt' = verCnt + 1
  /\ verifyTx' = IF linkFail[p] THEN verifyTx ELSE verifyTx \cup {p}
  /\ made' = [made EXCEPT ![p] = IF @ < VerifyLimit THEN @ + 1 ELSE @]
  /\ UNCHANGED <<flags, pmtStatus, txPree, actors, respRx, answered, bounds>>

\* The attempts are used up: rest (for 100 periods) and start over.
TimerFailsAndStops(p) ==     \* mutant
  /\ timer[p] = "verify" /\ verCnt >= VerifyLimit
  /\ timer' = [timer EXCEPT ![p] = "off"]
  /\ verified' = [verified EXCEPT ![p] = FALSE]
  /\ verState' = [verState EXCEPT ![p] = "FAILED"]
  /\ verCnt' = 0
  /\ made' = [made EXCEPT ![p] = 0]
  /\ UNCHANGED <<pEnable, disableVer, linkFail, pmtStatus, txPree, actors, wire,
                 answered, bounds>>
TimerFails(p) ==
  /\ timer[p] = "verify" /\ verCnt >= VerifyLimit
  /\ timer' = [timer EXCEPT ![p] = "armed"]
  /\ verified' = [verified EXCEPT ![p] = FALSE]
  /\ verState' = [verState EXCEPT ![p] = "FAILED"]
  /\ verCnt' = 0
  /\ made' = [made EXCEPT ![p] = 0]
  /\ UNCHANGED <<pEnable, disableVer, linkFail, pmtStatus, txPree, actors, wire,
                 answered, bounds>>

-----------------------------------------------------------------------------
(* The link and the link partner.                                           *)

PartnerAnswers(p) ==
  /\ p \in verifyTx /\ ~linkFail[p]
  /\ verifyTx' = verifyTx \ {p}
  /\ respRx' = respRx \cup {p}
  /\ answered' = [answered EXCEPT ![p] = TRUE]
  /\ UNCHANGED <<flags, verState, pmtStatus, timer, verCnt, txPree, actors, made, bounds>>

FrameLost(p) ==
  /\ MayLose /\ p \in verifyTx
  /\ verifyTx' = verifyTx \ {p}
  /\ UNCHANGED <<flags, verState, pmtStatus, timer, verCnt, txPree, actors, respRx,
                 history, bounds>>

-----------------------------------------------------------------------------
HandlerStep(a) == SetStatus(a) \/ Evaluate(a) \/ Apply(a) \/ SetTx(a) \/ WriteTx(a)

UserStep(u, p) == EnableTxStore(u, p) \/ VerDisTxStore(u, p) \/ FramePreemptStatusWrite(u, p)
TimerStep(p) == TimerFires(p) \/ TimerStops(p) \/ TimerVerifies(p) \/ TimerFails(p)
PortStep(p)  == LinkChange(p) \/ RcvResponse(p) \/ TimerStep(p) \/ PartnerAnswers(p)
                \/ FrameLost(p)

Next ==
  \/ \E p \in Ports : PortStep(p)
  \/ \E u \in Users, p \in Ports : UserStep(u, p)
  \/ \E a \in Actors : HandlerStep(a)

Spec == Init /\ [][Next]_vars

\* Handlers finish, timers expire and responses are received; the partner answers
\* a verify frame if enough of them are sent.
Fairness ==
  /\ \A a \in Actors : WF_vars(HandlerStep(a))
  /\ \A p \in Ports : /\ SF_vars(RcvResponse(p)) /\ SF_vars(TimerFires(p))
                      /\ WF_vars(TimerStops(p) \/ TimerVerifies(p) \/ TimerFails(p))
                      /\ SF_vars(PartnerAnswers(p))

FairSpec == Spec /\ Fairness

-----------------------------------------------------------------------------
ToVerify(p) == pEnable[p] /\ ~linkFail[p] /\ ~disableVer[p] /\ ~verified[p]

\* Frames are preempted if and only if preemption is active (it is enabled, and
\* verified or verification is disabled), and then those of the queues the user
\* chose (edge_preempt.c:142, "if preemption is not active, it is disabled").
RegisterFollows ==
  Quiet => \A p \in Ports :
    txPree[p] = IF pEnable[p] /\ (verified[p] \/ disableVer[p]) THEN pmtStatus[p] ELSE {}

\* The status that is reported agrees with the flags (edge_preempt.c:43-49): an
\* enabled port that is verified and has a link, and no other, reports success;
\* of the unverified ones, a port without verification reports that, and one that
\* is not enabled or has no link is in the initial phase.
StatusTruthful ==
  Quiet => \A p \in Ports :
    /\ verState[p] = "SUCCESS"
         <=> pEnable[p] /\ ~linkFail[p] /\ ~disableVer[p] /\ verified[p]
    /\ ~verified[p] /\ disableVer[p] => verState[p] = "DISABLED"
    /\ ~verified[p] /\ ~disableVer[p] /\ ~ToVerify(p) => verState[p] = "INIT"

\* A port that is to be verified is not forgotten: as long as it is enabled, has a
\* link and is not verified, its timer is armed (preempt_start_ver).
VerificationDue == Quiet => \A p \in Ports : ToVerify(p) => timer[p] = "armed"

\* Whenever no handler runs, the state of a port is true to its link, and what it
\* asks for is under way (edge_preempt.c:530-568).
Inv == TypeOK /\ StatusTruthful /\ VerificationDue

\* The attempts the ports under verification have made, each since its own start.
Attempts ==
  {a \in Ports \X (1..VerifyLimit) : timer[a[1]] # "off" /\ a[2] <= made[a[1]]}

\* However the timers of the ports take turns at the counter they share, start,
\* stop and fail, no port is declared failed on attempts of verifications that are
\* over: those under way have made the full number between them
\* (edge_preempt.c:64, "Max number of verification attempts"; :611, :629).
FailureEarned ==
  [][\A p \in Ports : verState'[p] = "FAILED" /\ verState[p] # "FAILED" =>
       Cardinality(Attempts) >= VerifyLimit]_vars

\* The same of each port: its own verification has made the full number of attempts
\* when it is declared failed.  It does not hold for two ports (MCPreemptClaims.cfg).
AttemptsCounted ==
  [][\A p \in Ports :
       verState'[p] = "FAILED" /\ verState[p] # "FAILED" => made[p] = VerifyLimit]_vars

\* A port reports success only for the partner that is on its link now
\* (edge_preempt.c:47, "Verification succeeded").
PartnerVerified ==
  Quiet => \A p \in Ports : verState[p] = "SUCCESS" => answered[p]

\* Settled: no more events come, and the port is to be verified.
Settled(p) == stores = 0 /\ linkChanges = 0 /\ pEnable[p] /\ ~disableVer[p] /\ ~linkFail[p]

\* A port whose partner answers is verified in the end, however often its frames
\* get lost, and whatever the user and the link did before.
VerifyCompletes == \A p \in Ports : Settled(p) ~> (verified[p] /\ verState[p] = "SUCCESS")

\* No verify frames are sent for ever: the timer stops once there is nothing (more)
\* to verify.
TimerRests ==
  \A p \in Ports :
    stores = 0 /\ linkChanges = 0 /\ (~pEnable[p] \/ verified[p]) ~> timer[p] = "off"

\* Verification comes to an end either way (edge_preempt.c:600-660).
VerificationEnds == VerifyCompletes /\ TimerRests

=============================================================================
