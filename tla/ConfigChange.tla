---------------------------- MODULE ConfigChange ----------------------------
(***************************************************************************)
(* How the sysrepo plugins apply gate-enabled and config-change:            *)
(* common/config_change.c with its users, sched.c of ietf-interfaces (for   *)
(* the ports) and stream_filter_gates.c of ieee802-dot1q-bridge (for the    *)
(* stream gates).                                                           *)
(*                                                                          *)
(* config-change is a trigger kept in a datastore.  The plugin's callback    *)
(* writes it to the driver before sysrepo stores it (CHANGE), collects what  *)
(* it has written in reset_list, and when it is stored (DONE) hands the list *)
(* to a helper thread, which sets the triggers back to false in a            *)
(* transaction of its own.  A restarted plugin resets the triggers it finds, *)
(* then has the whole configuration written to the driver (ENABLED).         *)
(*                                                                          *)
(* Actors: the users of sysrepo; the thread of the callbacks; the helper     *)
(* thread; the thread that starts and stops the plugin.  sysrepo applies one *)
(* transaction at a time.                                                   *)
(***************************************************************************)
EXTENDS Integers, Sequences

CONSTANTS
  Inst,        \* the ports, or the stream gates
  Setups,      \* the plugins, and what may happen to them: see setup
  MaxEdits,    \* bound: changes by users
  MaxStarts    \* bound: starts of the plugin

VARIABLES
  setup,     \* the plugin; may calls fail, may other callbacks refuse a change;
             \* does the helper wait on its condition whenever it has to?
  running,   \* the datastore
  driver,    \* what the driver was given, and changes taken over in this transaction
  tx,        \* the transaction sysrepo applies, and the changes to go through
  list,      \* reset_list: is a change recorded, and is its trigger to be reset?
  queue,     \* helper->queue, the instances to be reset by each list
  helper,    \* where the helper thread is, and the list it processes
  life,      \* how far the plugin has started or stopped
  owed,      \* history: triggers stored that the driver was not given
  edits, starts

vars == <<setup, running, driver, tx, list, queue, helper, life, owed, edits, starts>>

ASSUME ConfigChangeAssumption ==
  /\ Setups \subseteq [plugin : {"sched", "psfp"}, faults : BOOLEAN, refusals : BOOLEAN,
                       orderly : BOOLEAN]
  /\ MaxEdits \in Nat /\ MaxStarts \in Nat

Leaves == {"gate", "change"}      \* gate-enabled, config-change
Values == [gate : BOOLEAN, change : BOOLEAN]
Nodes  == Inst \X Leaves

Off == [gate |-> FALSE, change |-> FALSE]
NoTx == [by |-> "nobody", new |-> [i \in Inst |-> Off], todo |-> {}, st |-> "none"]
Clear == [i \in Inst |-> "absent"]
Helper(at) == [at |-> at, cur |-> {}]
Lives == {"down", "fix", "reset", "subscribe", "enabling", "run", "unsubscribed", "join"}

TypeOK ==
  /\ setup \in Setups
  /\ running \in [Inst -> Values]
  /\ driver \in [Inst -> [gate : BOOLEAN, change : BOOLEAN, taken : Nat]]
  /\ tx \in [by : {"nobody", "user", "helper", "enabled"}, new : [Inst -> Values],
             todo : SUBSET Nodes, st : {"none", "change", "stored"}]
  /\ list \in [Inst -> {"absent", "quiet", "trigger"}]
  /\ queue \in Seq(SUBSET Inst)
  /\ helper \in [at : {"none", "born", "wait", "woken", "process", "applying", "ended"},
                 cur : SUBSET Inst]
  /\ life \in Lives
  /\ owed \subseteq Inst
  /\ edits \in 0..MaxEdits /\ starts \in 0..MaxStarts

Init ==
  /\ setup \in Setups
  /\ running = [i \in Inst |-> Off]
  /\ driver = [i \in Inst |-> [gate |-> FALSE, change |-> FALSE, taken |-> 0]]
  /\ tx = NoTx /\ list = Clear /\ queue = <<>>
  /\ helper = Helper("none") /\ life = "down"
  /\ owed = {} /\ edits = 0 /\ starts = 0

-----------------------------------------------------------------------------
\* The driver (Scheduler): a change is taken over as soon as it is requested and the
\* gates are enabled, and the request is then withdrawn.
Both(c) == c.gate /\ c.change
Settled(d) == IF Both(d) THEN [gate |-> TRUE, change |-> FALSE, taken |-> d.taken + 1] ELSE d
SetGate(d, v)   == Settled([d EXCEPT !.gate = v])
SetChange(d, v) == Settled([d EXCEPT !.change = v])

\* Mutant: gate-enabled is always written first.
ApplyGateFirst(d, c) == SetChange(SetGate(d, c.gate), c.change)
\* interface_sched_apply_config_change, psfp_apply_config_change
Apply(d, c) == IF c.gate THEN SetGate(SetChange(d, c.change), TRUE)
                         ELSE SetChange(SetGate(d, FALSE), c.change)
\* The first of the two writes.
ApplyHalf(d, c) == IF c.gate THEN SetChange(d, c.change) ELSE SetGate(d, FALSE)
\* What is written when something fails; the driver may refuse the table and drop the
\* request.
ApplyFails(d, c) ==
  {d, ApplyHalf(d, c), Apply(d, c), [Apply(d, c) EXCEPT !.taken = d.taken]}

\* What config_change_list_push records of a change.
Record(c) == IF Both(c) THEN "trigger" ELSE "quiet"

-----------------------------------------------------------------------------
\* Transactions of sysrepo.

Changed(old, new) == {n \in Nodes : old[n[1]][n[2]] # new[n[1]][n[2]]}
Subscribed == life \in {"enabling", "run"}

Begin(who, new, nodes) == tx' = [by |-> who, new |-> new, todo |-> nodes, st |-> "change"]
End == tx' = NoTx /\ driver' = [i \in Inst |-> [driver[i] EXCEPT !.taken = 0]]

\* Without a subscription a change is stored at once.
Commit(who, new) ==
  IF life = "run" THEN Begin(who, new, Changed(running, new)) /\ UNCHANGED running
                  ELSE running' = new /\ UNCHANGED tx

UserEdits ==
  /\ tx = NoTx /\ edits < MaxEdits
  /\ \E new \in [Inst -> Values] \ {running} : Commit("user", new)
  /\ edits' = edits + 1
  /\ UNCHANGED <<setup, driver, list, queue, helper, life, starts>>

\* CHANGE or ENABLED, one change: interface_sched_config_change_cb and
\* interface_sched_handle_config_change, psfp_config_change_cb and
\* psfp_handle_config_change.  The second change of an instance is skipped.
HandleNode(n) ==
  /\ Subscribed /\ tx.st = "change" /\ n \in tx.todo
  /\ tx' = [tx EXCEPT !.todo = @ \ {n}]
  /\ LET i == n[1] IN
       IF list[i] # "absent" THEN UNCHANGED <<driver, list>>
       ELSE /\ driver' = [driver EXCEPT ![i] = Apply(@, tx.new[i])]
            /\ list' = [list EXCEPT ![i] = Record(tx.new[i])]
  /\ UNCHANGED <<setup, running, queue, helper, life, edits, starts>>

\* The callback reports an error: sysrepo drops the transaction, and the plugin does
\* not start if this was its subscription.
Refused(d) ==
  /\ tx' = NoTx
  /\ driver' = [i \in Inst |-> [d[i] EXCEPT !.taken = 0]]
  /\ life' = IF tx.by = "enabled" THEN "unsubscribed" ELSE life

\* The port cannot be opened.  psfp_config_change_cb returns without clearing the list.
OpenFails(n) ==
  /\ setup.faults /\ Subscribed /\ tx.st = "change" /\ n \in tx.todo
  /\ list' = IF setup.plugin = "psfp" THEN list ELSE Clear
  /\ Refused(driver)
  /\ UNCHANGED <<setup, running, queue, helper, edits, starts>>

\* The validation, a write or the recording fails.  psfp_config_change_cb clears the
\* list and returns SR_ERR_OK: sysrepo goes on.
HandleFails(n) ==
  /\ setup.faults /\ Subscribed /\ tx.st = "change" /\ n \in tx.todo
  /\ list[n[1]] = "absent"
  /\ list' = Clear
  /\ LET i == n[1] IN
       \E di \in ApplyFails(driver[i], tx.new[i]) :
         LET d == [driver EXCEPT ![i] = di] IN
         IF setup.plugin = "sched" THEN Refused(d)
         ELSE driver' = d /\ tx' = [tx EXCEPT !.todo = {}] /\ UNCHANGED life
  /\ UNCHANGED <<setup, running, queue, helper, edits, starts>>

\* ABORT: a callback for other parts of the change has refused it.
OthersRefuse ==
  /\ setup.refusals /\ life = "run"
  /\ tx.by = "user" /\ tx.st = "change" /\ tx.todo = {}
  /\ list' = Clear /\ End
  /\ UNCHANGED <<setup, running, queue, helper, life, edits, starts>>

\* sysrepo stores the change when the callbacks have accepted it, or are gone.
Store ==
  /\ tx.st = "change" /\ (Subscribed => tx.todo = {})
  /\ running' = tx.new
  /\ tx' = [tx EXCEPT !.st = "stored"]
  /\ UNCHANGED <<setup, driver, list, queue, helper, life, edits, starts>>

Triggers == {i \in Inst : list[i] = "trigger"}

\* pthread_cond_signal reaches the helper only if it waits.
Signalled == IF helper.at = "wait" THEN Helper("woken") ELSE helper

\* Mutant: the list is handed over, but not emptied.
EnqueueKeeps ==
  /\ list' = list
  /\ IF Triggers = {} THEN UNCHANGED <<queue, helper>>
     ELSE queue' = Append(queue, Triggers) /\ helper' = Signalled
\* config_change_list_enqueue; if there is no memory the list stays as it is.
Enqueue ==
  \/ /\ list' = Clear
     /\ IF Triggers = {} THEN UNCHANGED <<queue, helper>>
        ELSE queue' = Append(queue, Triggers) /\ helper' = Signalled
  \/ setup.faults /\ Triggers # {} /\ UNCHANGED <<list, queue, helper>>

\* DONE
Done ==
  /\ tx.st = "stored"
  /\ IF Subscribed THEN Enqueue ELSE UNCHANGED <<list, queue, helper>>
  /\ life' = IF tx.by = "enabled" THEN "run" ELSE life
  /\ End
  /\ UNCHANGED <<setup, running, edits, starts>>

-----------------------------------------------------------------------------
\* The helper thread.

\* config_change_queue_pop: the next list, or back to the condition.
NextList ==
  IF queue = <<>> THEN helper' = Helper("wait") /\ UNCHANGED queue
  ELSE helper' = [at |-> "process", cur |-> Head(queue)] /\ queue' = Tail(queue)

\* pthread_cond_wait is called without looking at the queue or at users.
HelperReady ==
  /\ helper.at = "born" /\ helper' = Helper("wait")
  /\ UNCHANGED <<setup, running, driver, tx, list, queue, life, edits, starts>>

HelperSpurious ==
  /\ helper.at = "wait" /\ helper' = Helper("woken")
  /\ UNCHANGED <<setup, running, driver, tx, list, queue, life, edits, starts>>

\* Mutant: the helper looks for the termination request only when the queue is empty.
HelperWakesBusy ==
  /\ helper.at = "woken"
  /\ IF life = "join" /\ queue = <<>> THEN helper' = Helper("ended") /\ queue' = <<>>
     ELSE NextList
  /\ UNCHANGED <<setup, running, driver, tx, list, life, edits, starts>>
\* users is 0 from config_change_helper_stop on.
HelperWakes ==
  /\ helper.at = "woken"
  /\ IF life = "join" THEN helper' = Helper("ended") /\ queue' = <<>> ELSE NextList
  /\ UNCHANGED <<setup, running, driver, tx, list, life, edits, starts>>

ResetOf(is) == [i \in Inst |-> IF i \in is THEN [running[i] EXCEPT !.change = FALSE]
                                           ELSE running[i]]

\* config_change_list_process, without helper->lock; what is false already is no change.
HelperApplies ==
  /\ helper.at = "process" /\ tx = NoTx
  /\ \/ IF ResetOf(helper.cur) = running THEN UNCHANGED <<running, tx>>
        ELSE Commit("helper", ResetOf(helper.cur))
     \/ setup.faults /\ UNCHANGED <<running, tx>>
  /\ helper' = Helper("applying")
  /\ UNCHANGED <<setup, driver, list, queue, life, edits, starts>>

\* sr_apply_changes returns when the transaction has ended.
HelperResumes ==
  /\ helper.at = "applying" /\ tx.by # "helper"
  /\ NextList
  /\ UNCHANGED <<setup, running, driver, tx, list, life, edits, starts>>

-----------------------------------------------------------------------------
\* Start and stop of the plugin.

\* sr_plugin_init_cb, config_change_helper_start; a change that was under way when the
\* plugin stopped has ended by then.
Start ==
  /\ life = "down" /\ starts < MaxStarts /\ tx = NoTx
  /\ starts' = starts + 1 /\ life' = "fix" /\ helper' = Helper("born")
  /\ UNCHANGED <<setup, running, driver, tx, list, queue, edits>>

\* interface_sched_fix_datastore, psfp_fix_datastore: the triggers are collected in a
\* list of their own, and reset.
FixRead ==
  /\ life = "fix" /\ life' = "reset"
  /\ list' = [i \in Inst |-> Record(running[i])]
  /\ UNCHANGED <<setup, running, driver, tx, queue, helper, edits, starts>>
FixReset ==
  /\ life = "reset" /\ tx = NoTx /\ life' = "subscribe"
  /\ running' = ResetOf(Triggers) \/ (setup.faults /\ UNCHANGED running)
  /\ list' = Clear
  /\ UNCHANGED <<setup, driver, tx, queue, helper, edits, starts>>

\* sr_module_change_subscribe with SR_SUBSCR_ENABLED: every value is reported.
Subscribe ==
  /\ life = "subscribe" /\ tx = NoTx /\ life' = "enabling"
  /\ setup.orderly => helper.at # "born"
  /\ Begin("enabled", running, Nodes)
  /\ UNCHANGED <<setup, running, driver, list, queue, helper, edits, starts>>

\* sr_plugin_cleanup_cb: sr_unsubscribe waits for a callback that runs.
Unsubscribe ==
  /\ life = "run" /\ life' = "unsubscribed"
  /\ tx.st = "change" => tx.todo \in {{}, Changed(running, tx.new)}
  /\ list' = Clear
  /\ UNCHANGED <<setup, running, driver, tx, queue, helper, edits, starts>>

\* config_change_helper_stop
StopHelper ==
  /\ life = "unsubscribed" /\ life' = "join"
  /\ setup.orderly => helper.at \in {"wait", "woken"}
  /\ helper' = Signalled
  /\ UNCHANGED <<setup, running, driver, tx, list, queue, edits, starts>>

\* pthread_join returns.
Joined ==
  /\ life = "join" /\ helper.at = "ended"
  /\ life' = "down" /\ helper' = Helper("none")
  /\ UNCHANGED <<setup, running, driver, tx, list, queue, edits, starts>>

\* The process of the plugin dies.  A user's change that waits for its callback is
\* stored or not; the helper's own change is not.
Crash ==
  /\ life # "down" /\ life' = "down"
  /\ \/ UNCHANGED running
     \/ tx.by = "user" /\ tx.st = "change" /\ running' = tx.new
  /\ End
  /\ list' = Clear /\ queue' = <<>> /\ helper' = Helper("none")
  /\ UNCHANGED <<setup, edits, starts>>

-----------------------------------------------------------------------------
\* History: a trigger that is stored while the driver has not taken it over.
Remember ==
  owed' = {i \in Inst : /\ Both(running'[i]) /\ driver[i].taken = 0 /\ driver'[i].taken = 0
                        /\ i \in owed \/ running'[i] # running[i]}

Callback == \E n \in Nodes : HandleNode(n)
HelperStep == HelperReady \/ HelperWakes \/ HelperApplies \/ HelperResumes

Next ==
  /\ \/ UserEdits
     \/ \E n \in Nodes : HandleNode(n) \/ OpenFails(n) \/ HandleFails(n)
     \/ OthersRefuse \/ Store \/ Done
     \/ HelperReady \/ HelperSpurious \/ HelperWakes \/ HelperApplies \/ HelperResumes
     \/ Start \/ FixRead \/ FixReset \/ Subscribe
     \/ Unsubscribe \/ StopHelper \/ Joined \/ Crash
  /\ Remember

Spec == Init /\ [][Next]_vars

\* The threads of the plugin and of sysrepo run.  Nobody has to change anything, start
\* or stop the plugin.
FairSpec ==
  /\ Spec
  /\ WF_vars(Callback /\ Remember) /\ WF_vars(Store /\ Remember) /\ WF_vars(Done /\ Remember)
  /\ WF_vars(HelperStep /\ Remember) /\ WF_vars(Joined /\ Remember)

-----------------------------------------------------------------------------
\* Between transactions reset_list is empty: otherwise the next change of an instance
\* is taken for one that has been handled, and is not written (sched.c:1970).
ListClean == ~setup.faults /\ life = "run" /\ tx = NoTx => list = Clear

\* Between transactions of a started plugin the driver has what is stored, also after
\* restarts and after changes made while the plugin was down; a request stays with the
\* driver while the gates are disabled.
DriverFollows ==
  ~setup.faults /\ ~setup.refusals /\ life = "run" /\ tx = NoTx =>
    \A i \in Inst : /\ driver[i].gate <=> running[i].gate
                    /\ driver[i].change <=> running[i].change /\ ~running[i].gate

Inv == TypeOK /\ ListClean /\ DriverFollows

Touched(i) == tx.by = "enabled" \/ running[i] # tx.new[i]

\* A transaction makes the driver take a change over at most once, only if both leaves
\* are to be true, and then it does: the order of the two writes and the list of what
\* is handled see to it (sched.c:1902-1914, :1970-1978).  A reset never does.
OnceEach ==
  \A i \in Inst :
    /\ driver[i].taken <= 1
    /\ driver[i].taken = 1 => Both(tx.new[i])
    /\ ~setup.faults /\ tx.st = "change" /\ Touched(i)
         /\ (\A l \in Leaves : <<i, l>> \notin tx.todo)
       => (driver[i].taken = 1 <=> Both(tx.new[i]))

\* When the plugin starts again, the driver takes over only what it was not given
\* before (ietf-interfaces.c:913-929).
RestartQuiet ==
  ~setup.faults /\ tx.by = "enabled" =>
    \A i \in Inst : driver'[i].taken > driver[i].taken => i \in owed

TakenOnce == [][OnceEach' /\ RestartQuiet]_vars

\* Triggers are reset, and stopping the plugin comes to an end: config_change.c:381-409,
\* :461-476.  Both need the helper to wait whenever it is signalled.
TriggersReset ==
  \A i \in Inst :
    (setup.orderly /\ ~setup.faults /\ life = "run" /\ Both(running[i]))
      ~> (life # "run" \/ ~Both(running[i]))
StopReturns == (setup.orderly /\ life = "join") ~> (life = "down")
HelperServes == TriggersReset /\ StopReturns

-----------------------------------------------------------------------------
\* What does not hold.

\* sched.c:2063, stream_filter_gates.c:2142: "there is no need to reset": but the driver
\* keeps what it was given before another callback refused the change.
FollowsDespiteRefusals ==
  ~setup.faults /\ life = "run" /\ tx = NoTx =>
    \A i \in Inst : driver[i].gate = running[i].gate

\* stream_filter_gates.c:2258: "Datastore will not be written in case of errors".
FollowsDespiteFaults ==
  ~setup.refusals /\ life = "run" /\ tx = NoTx =>
    \A i \in Inst : driver[i].gate = running[i].gate

\* A reset that comes late withdraws a request the user has made in the meantime.
ResetOwn == [][tx.by = "helper" => \A i \in Inst : driver[i].change => driver'[i].change]_vars

\* A restart resets triggers that were never given to the driver.
OwedTaken ==
  [][\A i \in Inst : i \in owed /\ ~Both(running'[i]) => ~FixReset]_vars

\* The helper may be signalled while it does not wait.
StopAlwaysReturns == (life = "join") ~> (life = "down")
=============================================================================
