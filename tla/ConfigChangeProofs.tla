------------------------- MODULE ConfigChangeProofs -------------------------
(***************************************************************************)
(* Theorems about ConfigChange, for any number of ports or gates, changes and *)
(* restarts.                                                                *)
(*                                                                          *)
(* While a transaction goes through the callback, an instance is either       *)
(* recorded in the list, and the driver has its new values, or it is not, and *)
(* the driver has the old ones (Handled).  From the reset at the start to the *)
(* subscription, a trigger that is set is one the driver was not given        *)
(* (Owing).                                                                 *)
(***************************************************************************)
EXTENDS ConfigChange, TLAPS

\* The life of the plugin and the transaction.
Shape ==
  /\ tx.st = "none" => tx = NoTx
  /\ tx.by = "enabled" <=> life = "enabling"
  /\ tx.by = "enabled" => tx.new = running
  /\ life \in {"fix", "reset", "subscribe"} => tx = NoTx
  /\ life = "subscribe" => list = Clear
  /\ ~setup.faults /\ life = "run" /\ tx.st = "none" => list = Clear

\* What the driver has taken over in this transaction.
Counted ==
  \A i \in Inst :
    /\ ~Both(driver[i])
    /\ driver[i].taken \in {0, 1}
    /\ tx.st = "none" => driver[i].taken = 0
    /\ driver[i].taken = 1 => Both(tx.new[i])
    /\ Subscribed /\ tx.st = "change" /\ tx.todo # {} /\ list[i] = "absent"
         => driver[i].taken = 0

Agrees(d, c) == (d.gate <=> c.gate) /\ (d.change <=> c.change /\ ~c.gate)

\* An instance that has been handled, and one that has not.
Handled ==
  ~setup.faults /\ Subscribed /\ tx.st = "change" =>
    \A i \in Inst :
      /\ list[i] # "absent" => /\ driver[i].taken = 1 <=> Both(tx.new[i])
                               /\ Agrees(driver[i], tx.new[i])
      /\ list[i] = "absent" => /\ driver[i].taken = 0
                               /\ Touched(i) => \E l \in Leaves : <<i, l>> \in tx.todo
                               /\ ~setup.refusals /\ life = "run"
                                    => Agrees(driver[i], running[i])

Followed ==
  /\ ~setup.faults /\ ~setup.refusals
  /\ \/ Subscribed /\ tx.st = "stored"
     \/ life = "run" /\ tx.st = "none"
  => \A i \in Inst : Agrees(driver[i], running[i])

\* Triggers that are set although they are being, or have been, reset.
Owing ==
  ~setup.faults =>
    \A i \in Inst :
      /\ life = "reset" /\ Both(running[i]) => list[i] = "trigger" \/ i \in owed
      /\ life = "subscribe" /\ Both(running[i]) => i \in owed
      /\ life = "enabling" /\ tx.st = "change" /\ list[i] = "absent" /\ Both(running[i])
           => i \in owed

Kept  == Shape /\ Counted /\ Handled /\ Followed /\ Owing /\ OnceEach
CCInv == TypeOK /\ Kept

-----------------------------------------------------------------------------
(* The driver.                                                              *)

Drivers == [gate : BOOLEAN, change : BOOLEAN, taken : Nat]

LEMMA SettledIs ==
  ASSUME NEW d \in Drivers
  PROVE  /\ Settled(d) \in Drivers
         /\ Settled(d).gate <=> d.gate
         /\ Settled(d).change <=> d.change /\ ~d.gate
         /\ Both(d)  => Settled(d).taken = d.taken + 1
         /\ ~Both(d) => Settled(d).taken = d.taken
<1>1. CASE Both(d)
  <2> DEFINE e == [gate |-> TRUE, change |-> FALSE, taken |-> d.taken + 1]
  <2>1. e \in Drivers /\ e.gate /\ ~e.change /\ e.taken = d.taken + 1
    BY DEF Drivers
  <2>2. Settled(d) = e
    BY <1>1 DEF Settled
  <2> HIDE DEF e
  <2>3. QED
    BY <1>1, <2>1, <2>2, Zenon DEF Both
<1>2. CASE ~Both(d)
  <2>1. Settled(d) = d
    BY <1>2 DEF Settled
  <2>2. QED
    BY <1>2, <2>1, Zenon DEF Both
<1>3. QED
  BY <1>1, <1>2, Zenon

LEMMA SetGateIs ==
  ASSUME NEW d \in Drivers, NEW v \in BOOLEAN
  PROVE  /\ SetGate(d, v) \in Drivers
         /\ SetGate(d, v).gate <=> v
         /\ SetGate(d, v).change <=> d.change /\ ~v
         /\ v /\ d.change    => SetGate(d, v).taken = d.taken + 1
         /\ ~(v /\ d.change) => SetGate(d, v).taken = d.taken
<1> DEFINE e == [d EXCEPT !.gate = v]
<1>1. e \in Drivers /\ (e.gate <=> v) /\ (e.change <=> d.change) /\ e.taken = d.taken
  BY DEF Drivers
<1>2. SetGate(d, v) = Settled(e)
  BY DEF SetGate
<1> HIDE DEF e
<1>3. QED
  BY <1>1, <1>2, SettledIs DEF Both

LEMMA SetChangeIs ==
  ASSUME NEW d \in Drivers, NEW v \in BOOLEAN
  PROVE  /\ SetChange(d, v) \in Drivers
         /\ SetChange(d, v).gate <=> d.gate
         /\ SetChange(d, v).change <=> v /\ ~d.gate
         /\ v /\ d.gate    => SetChange(d, v).taken = d.taken + 1
         /\ ~(v /\ d.gate) => SetChange(d, v).taken = d.taken
<1> DEFINE e == [d EXCEPT !.change = v]
<1>1. e \in Drivers /\ (e.gate <=> d.gate) /\ (e.change <=> v) /\ e.taken = d.taken
  BY DEF Drivers
<1>2. SetChange(d, v) = Settled(e)
  BY DEF SetChange
<1> HIDE DEF e
<1>3. QED
  BY <1>1, <1>2, SettledIs DEF Both

\* Whatever the driver has, the two writes in their order leave it with the new values
\* and one change taken over, if both are true.
LEMMA ApplyIs ==
  ASSUME NEW d \in Drivers, NEW c \in Values, ~Both(d)
  PROVE  /\ Apply(d, c) \in Drivers
         /\ ~Both(Apply(d, c))
         /\ Agrees(Apply(d, c), c)
         /\ Both(c)  => Apply(d, c).taken = d.taken + 1
         /\ ~Both(c) => Apply(d, c).taken = d.taken
<1>1. c.gate \in BOOLEAN /\ c.change \in BOOLEAN /\ d.gate \in BOOLEAN
        /\ d.change \in BOOLEAN /\ d.taken \in Nat
  BY DEF Values, Drivers
<1>2. CASE c.gate
  <2> DEFINE e == SetChange(d, c.change)
  <2>1. e \in Drivers /\ (e.gate <=> d.gate) /\ (e.change <=> c.change /\ ~d.gate)
          /\ (c.change /\ d.gate => e.taken = d.taken + 1)
          /\ (~(c.change /\ d.gate) => e.taken = d.taken)
    BY <1>1, SetChangeIs
  <2>2. Apply(d, c) = SetGate(e, TRUE)
    BY <1>2 DEF Apply
  <2> HIDE DEF e
  <2>3. /\ SetGate(e, TRUE) \in Drivers /\ SetGate(e, TRUE).gate
        /\ ~SetGate(e, TRUE).change
        /\ e.change  => SetGate(e, TRUE).taken = e.taken + 1
        /\ ~e.change => SetGate(e, TRUE).taken = e.taken
    BY <2>1, SetGateIs, Zenon
  <2>4. QED
    BY <1>2, <2>1, <2>2, <2>3, Zenon DEF Both, Agrees
<1>3. CASE ~c.gate
  <2> DEFINE e == SetGate(d, FALSE)
  <2>1. e \in Drivers /\ ~e.gate /\ e.taken = d.taken
    BY <1>1, SetGateIs
  <2>2. Apply(d, c) = SetChange(e, c.change)
    BY <1>3 DEF Apply
  <2> HIDE DEF e
  <2>3. /\ SetChange(e, c.change) \in Drivers /\ ~SetChange(e, c.change).gate
        /\ SetChange(e, c.change).change <=> c.change
        /\ SetChange(e, c.change).taken = e.taken
    BY <1>1, <2>1, SetChangeIs, Zenon
  <2>4. QED
    BY <1>3, <2>1, <2>2, <2>3, Zenon DEF Both, Agrees
<1>4. QED
  BY <1>2, <1>3

LEMMA HalfIs ==
  ASSUME NEW d \in Drivers, NEW c \in Values, ~Both(d)
  PROVE  /\ ApplyHalf(d, c) \in Drivers
         /\ ~Both(ApplyHalf(d, c))
         /\ \/ ApplyHalf(d, c).taken = d.taken
            \/ Both(c) /\ ApplyHalf(d, c).taken = d.taken + 1
<1>1. c.gate \in BOOLEAN /\ c.change \in BOOLEAN /\ d.gate \in BOOLEAN
        /\ d.change \in BOOLEAN /\ d.taken \in Nat
  BY DEF Values, Drivers
<1>2. CASE c.gate
  BY <1>1, <1>2, SetChangeIs DEF ApplyHalf, Both
<1>3. CASE ~c.gate
  BY <1>1, <1>3, SetGateIs DEF ApplyHalf, Both
<1>4. QED
  BY <1>2, <1>3

\* At the end of a transaction the count starts again.
LEMMA RestartIs ==
  ASSUME NEW d \in Drivers
  PROVE  LET e == [d EXCEPT !.taken = 0] IN
         e \in Drivers /\ (e.gate <=> d.gate) /\ (e.change <=> d.change) /\ e.taken = 0
BY DEF Drivers

-----------------------------------------------------------------------------
(* Initially.                                                               *)

LEMMA InvInit == Init => CCInv
<1> SUFFICES ASSUME Init PROVE CCInv
  OBVIOUS
<1>1. TypeOK
  <2>1. setup \in Setups /\ edits \in 0..MaxEdits /\ starts \in 0..MaxStarts
    BY ConfigChangeAssumption DEF Init
  <2>2. running \in [Inst -> Values] /\ NoTx.new \in [Inst -> Values]
    BY DEF Init, Off, Values, NoTx
  <2>3. tx \in [by : {"nobody", "user", "helper", "enabled"}, new : [Inst -> Values],
                todo : SUBSET Nodes, st : {"none", "change", "stored"}]
    BY <2>2 DEF Init, NoTx
  <2>4. driver \in [Inst -> [gate : BOOLEAN, change : BOOLEAN, taken : Nat]]
    BY DEF Init
  <2>5. QED
    BY <2>1, <2>2, <2>3, <2>4 DEF Init, TypeOK, Clear, Helper, Lives
<1>2. Kept
  BY DEF Init, Kept, Shape, Counted, Handled, Followed, Owing, OnceEach, NoTx, Clear,
         Subscribed, Both, Off
<1>3. QED
  BY <1>1, <1>2 DEF CCInv

-----------------------------------------------------------------------------
(* The types.                                                               *)

Transactions ==
  [by : {"nobody", "user", "helper", "enabled"}, new : [Inst -> Values],
   todo : SUBSET Nodes, st : {"none", "change", "stored"}]
HelperStates ==
  [at : {"none", "born", "wait", "woken", "process", "applying", "ended"},
   cur : SUBSET Inst]

\* What the types say of the parts of the state.
LEMMA Parts ==
  ASSUME CCInv
  PROVE  /\ running \in [Inst -> Values] /\ tx.new \in [Inst -> Values]
         /\ driver \in [Inst -> Drivers] /\ list \in [Inst -> {"absent", "quiet", "trigger"}]
         /\ tx \in Transactions /\ queue \in Seq(SUBSET Inst) /\ helper \in HelperStates
         /\ \A i \in Inst : ~Both(driver[i])
BY DEF CCInv, Kept, TypeOK, Drivers, Transactions, HelperStates, Counted

LEMMA NoTxType == NoTx \in Transactions /\ Clear \in [Inst -> {"absent", "quiet", "trigger"}]
<1>1. [i \in Inst |-> Off] \in [Inst -> Values]
  BY DEF Off, Values
<1>2. QED
  BY <1>1 DEF NoTx, Clear, Transactions

LEMMA ResetType ==
  ASSUME running \in [Inst -> Values], NEW is
  PROVE  ResetOf(is) \in [Inst -> Values]
<1>1. ASSUME NEW c \in Values PROVE [c EXCEPT !.change = FALSE] \in Values
  BY DEF Values
<1>2. QED
  BY <1>1 DEF ResetOf

LEMMA BeginType ==
  ASSUME NEW who \in {"user", "helper", "enabled"}, NEW new \in [Inst -> Values],
         NEW nodes \in SUBSET Nodes, Begin(who, new, nodes)
  PROVE  tx' \in Transactions
BY DEF Begin, Transactions

LEMMA CommitType ==
  ASSUME CCInv, NEW who \in {"user", "helper"}, NEW new \in [Inst -> Values], Commit(who, new)
  PROVE  tx' \in Transactions /\ running' \in [Inst -> Values]
<1>1. Changed(running, new) \in SUBSET Nodes
  BY DEF Changed
<1>2. QED
  BY <1>1, BeginType, Parts DEF Commit

LEMMA EndType ==
  ASSUME CCInv, NEW d \in [Inst -> Drivers],
         driver' = [i \in Inst |-> [d[i] EXCEPT !.taken = 0]]
  PROVE  driver' \in [Inst -> Drivers]
BY RestartIs

LEMMA EnqueueType ==
  ASSUME CCInv, Enqueue
  PROVE  /\ list' \in [Inst -> {"absent", "quiet", "trigger"}]
         /\ queue' \in Seq(SUBSET Inst) /\ helper' \in HelperStates
<1>1. Triggers \in SUBSET Inst
  BY DEF Triggers
<1>2. Signalled \in HelperStates
  BY Parts DEF Signalled, Helper, HelperStates
<1>3. QED
  BY <1>1, <1>2, Parts, NoTxType DEF Enqueue

LEMMA NextListType ==
  ASSUME CCInv, NextList
  PROVE  queue' \in Seq(SUBSET Inst) /\ helper' \in HelperStates
<1>1. CASE queue = <<>>
  BY <1>1, Parts DEF NextList, Helper, HelperStates
<1>2. CASE queue # <<>>
  <2>1. queue \in Seq(SUBSET Inst)
    BY Parts
  <2>2. Head(queue) \in SUBSET Inst /\ Tail(queue) \in Seq(SUBSET Inst)
    BY <1>2, <2>1
  <2>3. QED
    BY <1>2, <2>2 DEF NextList, HelperStates
<1>3. QED
  BY <1>1, <1>2

\* What HandleFails may leave in the driver.
LEMMA FailedIs ==
  ASSUME NEW d \in Drivers, NEW c \in Values, ~Both(d),
         NEW e \in ApplyFails(d, c)
  PROVE  /\ e \in Drivers /\ ~Both(e)
         /\ e.taken = d.taken \/ (Both(c) /\ e.taken = d.taken + 1)
<1>1. CASE e = d
  BY <1>1
<1>2. CASE e = ApplyHalf(d, c)
  BY <1>2, HalfIs, Zenon
<1>3. CASE e = Apply(d, c)
  BY <1>3, ApplyIs, Zenon
<1>4. CASE e = [Apply(d, c) EXCEPT !.taken = d.taken]
  <2> DEFINE a == Apply(d, c)
  <2>1. a \in Drivers /\ ~Both(a)
    BY ApplyIs
  <2> HIDE DEF a
  <2>2. e = [a EXCEPT !.taken = d.taken]
    BY <1>4 DEF a
  <2>3. d.taken \in Nat
    BY DEF Drivers
  <2>4. e \in Drivers /\ (e.gate <=> a.gate) /\ (e.change <=> a.change) /\ e.taken = d.taken
    BY <2>1, <2>2, <2>3 DEF Drivers
  <2>5. QED
    BY <2>1, <2>4, Zenon DEF Both
<1>5. QED
  BY <1>1, <1>2, <1>3, <1>4 DEF ApplyFails

LEMMA TypeStep ==
  ASSUME CCInv, Next
  PROVE  TypeOK'
<1>0. TypeOK /\ owed' \subseteq Inst
  BY DEF CCInv, Next, Remember
<1> DEFINE Rest == /\ setup' = setup /\ life' \in Lives
                   /\ edits' \in 0..MaxEdits /\ starts' \in 0..MaxStarts
           Data == /\ running' \in [Inst -> Values] /\ driver' \in [Inst -> Drivers]
                   /\ tx' \in Transactions
                   /\ list' \in [Inst -> {"absent", "quiet", "trigger"}]
           Threads == queue' \in Seq(SUBSET Inst) /\ helper' \in HelperStates
<1> HIDE DEF Rest, Data, Threads
<1>1. ASSUME Rest, Data, Threads PROVE TypeOK'
  BY <1>0, <1>1 DEF TypeOK, Rest, Data, Threads, Drivers, Transactions, HelperStates
<1>2. CASE UserEdits
  <2>1. PICK new \in [Inst -> Values] : Commit("user", new)
    BY <1>2 DEF UserEdits
  <2>2. tx' \in Transactions /\ running' \in [Inst -> Values]
    BY <2>1, CommitType
  <2>3. Rest
    BY <1>0, <1>2, ConfigChangeAssumption DEF UserEdits, TypeOK, Rest
  <2>4. Data /\ Threads
    BY <1>2, <2>2, Parts DEF UserEdits, Data, Threads
  <2>5. QED
    BY <1>1, <2>3, <2>4
<1>3. ASSUME NEW n \in Nodes, HandleNode(n) PROVE TypeOK'
  <2>1. n[1] \in Inst /\ tx.new[n[1]] \in Values /\ driver[n[1]] \in Drivers
    BY Parts DEF Nodes
  <2>2. Apply(driver[n[1]], tx.new[n[1]]) \in Drivers
    BY <2>1, Parts, ApplyIs
  <2>3. Record(tx.new[n[1]]) \in {"absent", "quiet", "trigger"}
    BY DEF Record
  <2>4. tx' \in Transactions
    BY <1>3, Parts DEF HandleNode, Transactions
  <2>5. Rest
    BY <1>0, <1>3 DEF HandleNode, TypeOK, Rest
  <2>6. Threads
    BY <1>3, Parts DEF HandleNode, Threads
  <2>7. driver' \in [Inst -> Drivers] /\ list' \in [Inst -> {"absent", "quiet", "trigger"}]
    BY <1>3, <2>1, <2>2, <2>3, Parts DEF HandleNode
  <2>8. Data
    BY <1>3, <2>4, <2>7, Parts DEF HandleNode, Data
  <2>9. QED
    BY <1>1, <2>5, <2>6, <2>8
<1>4. ASSUME NEW n \in Nodes, OpenFails(n) PROVE TypeOK'
  <2>1. Rest
    BY <1>0, <1>4 DEF OpenFails, Refused, TypeOK, Rest, Lives
  <2>2. driver' \in [Inst -> Drivers]
    BY <1>4, Parts, EndType DEF OpenFails, Refused
  <2>3. Data
    BY <1>4, <2>2, Parts, NoTxType DEF OpenFails, Refused, Data
  <2>4. Threads
    BY <1>4, Parts DEF OpenFails, Threads
  <2>5. QED
    BY <1>1, <2>1, <2>3, <2>4
<1>5. ASSUME NEW n \in Nodes, HandleFails(n) PROVE TypeOK'
  <2>1. n[1] \in Inst /\ tx.new[n[1]] \in Values /\ driver[n[1]] \in Drivers
          /\ ~Both(driver[n[1]])
    BY Parts DEF Nodes
  <2>2. PICK di \in ApplyFails(driver[n[1]], tx.new[n[1]]) :
          LET d == [driver EXCEPT ![n[1]] = di] IN
          IF setup.plugin = "sched" THEN Refused(d)
          ELSE driver' = d /\ tx' = [tx EXCEPT !.todo = {}] /\ UNCHANGED life
    BY <1>5 DEF HandleFails
  <2>3. di \in Drivers
    BY <2>1, <2>2, FailedIs
  <2> DEFINE d == [driver EXCEPT ![n[1]] = di]
  <2>4. d \in [Inst -> Drivers]
    BY <2>3, Parts
  <2>5. driver' \in [Inst -> Drivers]
    BY <2>2, <2>4, EndType DEF Refused
  <2>6. tx' \in Transactions
    BY <2>2, Parts, NoTxType DEF Refused, Transactions
  <2>7. Rest
    BY <1>0, <1>5, <2>2 DEF HandleFails, Refused, TypeOK, Rest, Lives
  <2>8. Data
    BY <1>5, <2>5, <2>6, Parts, NoTxType DEF HandleFails, Data
  <2>9. Threads
    BY <1>5, Parts DEF HandleFails, Threads
  <2>10. QED
    BY <1>1, <2>7, <2>8, <2>9
<1>6. CASE OthersRefuse \/ Crash
  <2>1. Rest
    BY <1>0, <1>6 DEF OthersRefuse, Crash, TypeOK, Rest, Lives
  <2>2. driver' \in [Inst -> Drivers]
    BY <1>6, Parts, EndType DEF OthersRefuse, Crash, End
  <2>3. Data
    BY <1>6, <2>2, Parts, NoTxType DEF OthersRefuse, Crash, End, Data
  <2>4. CASE OthersRefuse
    BY <1>1, <2>1, <2>3, <2>4, Parts DEF OthersRefuse, Threads
  <2>5. CASE Crash
    <3>1. Helper("none") \in HelperStates /\ <<>> \in Seq(SUBSET Inst)
      BY DEF Helper, HelperStates
    <3>2. QED
      BY <1>1, <2>1, <2>3, <2>5, <3>1 DEF Crash, Threads
  <2>6. QED
    BY <1>6, <2>4, <2>5
<1>7. CASE Store
  <2>1. Rest /\ Threads
    BY <1>0, <1>7, Parts DEF Store, TypeOK, Rest, Threads
  <2>2. tx' \in Transactions
    BY <1>7, Parts DEF Store, Transactions
  <2>3. Data
    BY <1>7, <2>2, Parts DEF Store, Data
  <2>4. QED
    BY <1>1, <2>1, <2>3
<1>8. CASE Done
  <2>1. Rest
    BY <1>0, <1>8 DEF Done, TypeOK, Rest, Lives
  <2>2. driver' \in [Inst -> Drivers]
    BY <1>8, Parts, EndType DEF Done, End
  <2>3. Threads /\ list' \in [Inst -> {"absent", "quiet", "trigger"}]
    BY <1>8, Parts, EnqueueType DEF Done, Threads
  <2>4. Data
    BY <1>8, <2>2, <2>3, Parts, NoTxType DEF Done, End, Data
  <2>5. QED
    BY <1>1, <2>1, <2>3, <2>4
<1>9. CASE HelperReady \/ HelperSpurious \/ HelperWakes \/ HelperResumes
  <2>1. Rest /\ Data
    BY <1>0, <1>9, Parts
       DEF HelperReady, HelperSpurious, HelperWakes, HelperResumes, TypeOK, Rest, Data
  <2>2. CASE HelperReady \/ HelperSpurious
    BY <1>1, <2>1, <2>2, Parts DEF HelperReady, HelperSpurious, Threads, Helper, HelperStates
  <2>3. CASE HelperWakes /\ life = "join"
    BY <1>1, <2>1, <2>3 DEF HelperWakes, Threads, Helper, HelperStates
  <2>4. CASE HelperResumes \/ (HelperWakes /\ life # "join")
    BY <1>1, <2>1, <2>4, NextListType DEF HelperWakes, HelperResumes, Threads
  <2>5. QED
    BY <1>9, <2>2, <2>3, <2>4
<1>10. CASE HelperApplies
  <2>1. ResetOf(helper.cur) \in [Inst -> Values]
    BY Parts, ResetType
  <2>2. tx' \in Transactions /\ running' \in [Inst -> Values]
    BY <1>10, <2>1, Parts, CommitType DEF HelperApplies
  <2>3. Rest
    BY <1>0, <1>10 DEF HelperApplies, TypeOK, Rest
  <2>4. Data /\ Threads
    BY <1>10, <2>2, Parts DEF HelperApplies, Helper, HelperStates, Data, Threads
  <2>5. QED
    BY <1>1, <2>3, <2>4
<1>11. CASE Start \/ Unsubscribe \/ StopHelper \/ Joined
  <2>1. starts' \in 0..MaxStarts
    BY <1>0, <1>11, ConfigChangeAssumption DEF Start, Unsubscribe, StopHelper, Joined, TypeOK
  <2>2. Rest
    BY <1>0, <1>11, <2>1 DEF Start, Unsubscribe, StopHelper, Joined, TypeOK, Rest, Lives
  <2>3. Data
    BY <1>11, Parts, NoTxType DEF Start, Unsubscribe, StopHelper, Joined, Data
  <2>4. Threads
    BY <1>11, Parts
       DEF Start, Unsubscribe, StopHelper, Joined, Signalled, Helper, HelperStates, Threads
  <2>5. QED
    BY <1>1, <2>2, <2>3, <2>4
<1>12. CASE FixRead \/ FixReset
  <2>1. Rest
    BY <1>0, <1>12 DEF FixRead, FixReset, TypeOK, Rest, Lives
  <2>2. \A i \in Inst : Record(running[i]) \in {"absent", "quiet", "trigger"}
    BY DEF Record
  <2>3. ResetOf(Triggers) \in [Inst -> Values]
    BY Parts, ResetType
  <2>4. Data
    BY <1>12, <2>2, <2>3, Parts, NoTxType DEF FixRead, FixReset, Data
  <2>5. Threads
    BY <1>12, Parts DEF FixRead, FixReset, Threads
  <2>6. QED
    BY <1>1, <2>1, <2>4, <2>5
<1>13. CASE Subscribe
  <2>1. Rest
    BY <1>0, <1>13 DEF Subscribe, TypeOK, Rest, Lives
  <2>2. tx' \in Transactions
    BY <1>13, Parts, BeginType DEF Subscribe
  <2>3. Data /\ Threads
    BY <1>13, <2>2, Parts DEF Subscribe, Data, Threads
  <2>4. QED
    BY <1>1, <2>1, <2>3
<1>14. QED
  BY <1>2, <1>3, <1>4, <1>5, <1>6, <1>7, <1>8, <1>9, <1>10, <1>11, <1>12, <1>13 DEF Next

-----------------------------------------------------------------------------
(* Steps that leave the datastore, the driver and the transaction alone.    *)

\* What is owed stays owed while the driver takes nothing over.
LEMMA OwedStays ==
  ASSUME Remember, NEW i \in Inst, Both(running'[i]), driver[i].taken = 0,
         driver'[i].taken = 0, i \in owed \/ running'[i] # running[i]
  PROVE  i \in owed'
BY DEF Remember

LEMMA QuietKeeps ==
  ASSUME CCInv, Remember, UNCHANGED <<setup, running, driver, tx, list>>,
         \/ life' = life
         \/ life = "down" /\ life' = "fix" /\ tx = NoTx
         \/ life = "unsubscribed" /\ life' = "join"
         \/ life = "join" /\ life' = "down"
  PROVE  Kept'
<1>0. Kept
  BY DEF CCInv
<1>1. Shape'
  BY <1>0 DEF Kept, Shape
<1>2. Counted'
  BY <1>0 DEF Kept, Counted, Subscribed, Both
<1>3. Handled'
  BY <1>0 DEF Kept, Handled, Subscribed, Touched, Agrees, Both
<1>4. Followed'
  BY <1>0 DEF Kept, Followed, Subscribed, Agrees
<1>5. Owing'
  <2> SUFFICES ASSUME ~setup.faults, NEW i \in Inst, Both(running[i]),
                      life' \in {"reset", "subscribe"}
                        \/ (life' = "enabling" /\ tx.st = "change" /\ list[i] = "absent"),
                      ~(life' = "reset" /\ list[i] = "trigger")
               PROVE  i \in owed'
    BY DEF Owing, Both
  <2>1. life' = life
    OBVIOUS
  <2>2. i \in owed
    BY <1>0, <2>1 DEF Kept, Owing
  <2>3. driver[i].taken = 0
    <3>1. CASE life \in {"reset", "subscribe"}
      BY <1>0, <3>1 DEF Kept, Shape, Counted, NoTx
    <3>2. CASE life = "enabling" /\ tx.st = "change" /\ list[i] = "absent"
      BY <1>0, <3>2 DEF Kept, Handled, Subscribed
    <3>3. QED
      BY <2>1, <3>1, <3>2
  <2>4. QED
    BY <2>2, <2>3, OwedStays DEF Both
<1>6. OnceEach'
  BY <1>0 DEF Kept, OnceEach, Touched, Both
<1>7. QED
  BY <1>1, <1>2, <1>3, <1>4, <1>5, <1>6 DEF Kept

-----------------------------------------------------------------------------
(* The beginning of a transaction.                                          *)

\* Values that differ differ in a leaf.
LEMMA LeavesDiffer ==
  ASSUME NEW old \in [Inst -> Values], NEW new \in [Inst -> Values], NEW i \in Inst,
         old[i] # new[i]
  PROVE  \E l \in Leaves : <<i, l>> \in Changed(old, new)
<1>1. old[i] \in Values /\ new[i] \in Values
  OBVIOUS
<1>2. old[i].gate # new[i].gate \/ old[i].change # new[i].change
  BY <1>1 DEF Values
<1>3. CASE old[i].gate # new[i].gate
  BY <1>3 DEF Leaves, Changed, Nodes
<1>4. CASE old[i].change # new[i].change
  BY <1>4 DEF Leaves, Changed, Nodes
<1>5. QED
  BY <1>2, <1>3, <1>4

\* While no transaction is under way the driver has taken nothing over.
LEMMA RestingTaken ==
  ASSUME CCInv, tx = NoTx
  PROVE  \A i \in Inst : driver[i].taken = 0
BY DEF CCInv, Kept, Counted, NoTx

LEMMA CommitKeeps ==
  ASSUME CCInv, Remember, tx = NoTx, UNCHANGED <<setup, driver, list, life>>,
         NEW who \in {"user", "helper"}, NEW new \in [Inst -> Values], Commit(who, new)
  PROVE  Kept'
<1>0. Kept
  BY DEF CCInv
<1>1. life # "enabling" /\ \A i \in Inst : driver[i].taken = 0
  BY <1>0, RestingTaken DEF Kept, Shape, NoTx
<1>2. CASE life = "run"
  <2>1. tx' = [by |-> who, new |-> new, todo |-> Changed(running, new), st |-> "change"]
          /\ running' = running
    BY <1>2 DEF Commit, Begin
  <2>2. Shape'
    BY <1>0, <1>2, <2>1 DEF Kept, Shape
  <2>3. Counted'
    BY <1>0, <1>1, <2>1 DEF Kept, Counted, Both
  <2>4. \A i \in Inst : Touched(i)' => \E l \in Leaves : <<i, l>> \in tx'.todo
    BY <2>1, Parts, LeavesDiffer DEF Touched
  <2>5. Handled'
    <3> SUFFICES ASSUME ~setup.faults PROVE Handled'
      BY DEF Handled
    <3>1. \A i \in Inst : list[i] = "absent"
      BY <1>0, <1>2 DEF Kept, Shape, NoTx, Clear
    <3>2. ~setup.refusals => \A i \in Inst : Agrees(driver[i], running[i])
      BY <1>0, <1>2 DEF Kept, Followed, NoTx
    <3>3. QED
      BY <1>1, <2>1, <2>4, <3>1, <3>2 DEF Handled, Agrees
  <2>6. Followed' /\ Owing'
    BY <1>2, <2>1 DEF Followed, Owing
  <2>7. OnceEach'
    <3>1. \A i \in Inst : driver'[i].taken = 0
      BY <1>1
    <3>2. \A i \in Inst : Touched(i)' => ~\A l \in Leaves : <<i, l>> \notin tx'.todo
      BY <2>4
    <3>3. QED
      BY <3>1, <3>2 DEF OnceEach, Touched
  <2>8. QED
    BY <2>2, <2>3, <2>5, <2>6, <2>7 DEF Kept
<1>3. CASE life # "run"
  <2>1. tx' = tx /\ running' = new
    BY <1>3 DEF Commit
  <2>2. Shape'
    BY <1>0, <1>1, <1>3, <2>1 DEF Kept, Shape, NoTx
  <2>3. Counted'
    BY <1>0, <1>1, <2>1 DEF Kept, Counted, Both, NoTx
  <2>4. Handled' /\ Followed' /\ OnceEach'
    BY <1>1, <1>3, <2>1 DEF Handled, Followed, OnceEach, NoTx
  <2>5. Owing'
    <3> SUFFICES ASSUME ~setup.faults, NEW i \in Inst, Both(running'[i]),
                        life \in {"reset", "subscribe"},
                        ~(life = "reset" /\ list[i] = "trigger")
                 PROVE  i \in owed'
      BY <1>1, <2>1 DEF Owing
    <3>1. i \in owed \/ running'[i] # running[i]
      BY <1>0 DEF Kept, Owing
    <3>2. QED
      BY <1>1, <3>1, OwedStays
  <2>6. QED
    BY <2>2, <2>3, <2>4, <2>5 DEF Kept
<1>4. QED
  BY <1>2, <1>3

LEMMA SubscribeKeeps ==
  ASSUME CCInv, Remember, Subscribe
  PROVE  Kept'
<1>0. Kept /\ tx = NoTx /\ life = "subscribe" /\ life' = "enabling"
        /\ UNCHANGED <<setup, running, driver, list>>
  BY DEF CCInv, Subscribe
<1>1. tx' = [by |-> "enabled", new |-> running, todo |-> Nodes, st |-> "change"]
  BY DEF Subscribe, Begin
<1>2. \A i \in Inst : driver[i].taken = 0 /\ list[i] = "absent"
  BY <1>0, RestingTaken DEF Kept, Shape, Clear
<1>3. \A i \in Inst : <<i, "gate">> \in Nodes
  BY DEF Nodes, Leaves
<1>4. Shape'
  BY <1>0, <1>1 DEF Shape
<1>5. Counted'
  BY <1>0, <1>1, <1>2 DEF Kept, Counted, Both
<1>6. Handled' /\ OnceEach'
  BY <1>0, <1>1, <1>2, <1>3 DEF Handled, OnceEach, Leaves
<1>7. Followed'
  BY <1>0, <1>1 DEF Followed
<1>8. Owing'
  <2> SUFFICES ASSUME ~setup.faults, NEW i \in Inst, Both(running'[i]) PROVE i \in owed'
    BY <1>0 DEF Owing
  <2>1. i \in owed
    BY <1>0 DEF Kept, Owing
  <2>2. QED
    BY <1>0, <1>2, <2>1, OwedStays
<1>9. QED
  BY <1>4, <1>5, <1>6, <1>7, <1>8 DEF Kept

-----------------------------------------------------------------------------
(* The callback.                                                            *)

LEMMA HandleKeeps ==
  ASSUME CCInv, Remember, NEW n \in Nodes, HandleNode(n)
  PROVE  Kept'
<1> DEFINE i0 == n[1]
<1>0. /\ Kept /\ Subscribed /\ tx.st = "change" /\ n \in tx.todo /\ i0 \in Inst
      /\ UNCHANGED <<setup, running, life>>
  BY DEF CCInv, HandleNode, Nodes
<1>1. tx'.by = tx.by /\ tx'.new = tx.new /\ tx'.st = "change" /\ tx'.todo = tx.todo \ {n}
  BY Parts DEF HandleNode, Transactions
<1>2. \A i \in Inst : i # i0 => driver'[i] = driver[i] /\ list'[i] = list[i]
  BY Parts DEF HandleNode
<1>3. list[i0] # "absent" => driver'[i0] = driver[i0] /\ list'[i0] = list[i0]
  BY DEF HandleNode
<1>4. list[i0] = "absent" =>
        /\ driver[i0].taken = 0 /\ ~Both(driver'[i0]) /\ list'[i0] # "absent"
        /\ Agrees(driver'[i0], tx.new[i0])
        /\ Both(tx.new[i0])  => driver'[i0].taken = 1
        /\ ~Both(tx.new[i0]) => driver'[i0].taken = 0
  <2> SUFFICES ASSUME list[i0] = "absent"
               PROVE  /\ driver[i0].taken = 0 /\ ~Both(driver'[i0]) /\ list'[i0] # "absent"
                      /\ Agrees(driver'[i0], tx.new[i0])
                      /\ Both(tx.new[i0])  => driver'[i0].taken = 1
                      /\ ~Both(tx.new[i0]) => driver'[i0].taken = 0
    OBVIOUS
  <2>1. driver[i0].taken = 0
    BY <1>0 DEF Kept, Counted
  <2>2. driver'[i0] = Apply(driver[i0], tx.new[i0]) /\ list'[i0] = Record(tx.new[i0])
    BY <1>0, Parts DEF HandleNode
  <2>3. driver[i0] \in Drivers /\ tx.new[i0] \in Values /\ ~Both(driver[i0])
    BY <1>0, Parts
  <2>4. Record(tx.new[i0]) # "absent"
    BY DEF Record
  <2> HIDE DEF i0
  <2>5. QED
    BY <2>1, <2>2, <2>3, <2>4, ApplyIs
<1>5. list'[i0] # "absent"
  BY <1>3, <1>4
<1>6. Shape'
  BY <1>0, <1>1 DEF Kept, Shape, Subscribed, NoTx
<1>7. Counted'
  <2> SUFFICES ASSUME NEW i \in Inst
               PROVE  /\ ~Both(driver'[i])
                      /\ driver'[i].taken \in {0, 1}
                      /\ driver'[i].taken = 1 => Both(tx.new[i])
                      /\ tx'.todo # {} /\ list'[i] = "absent" => driver'[i].taken = 0
    BY <1>1 DEF Counted, Both
  <2>1. CASE i # i0 \/ list[i0] # "absent"
    BY <1>0, <1>2, <1>3, <2>1 DEF Kept, Counted
  <2>2. CASE i = i0 /\ list[i0] = "absent"
    BY <1>4, <2>2
  <2>3. QED
    BY <2>1, <2>2
<1>8. Handled'
  <2> SUFFICES ASSUME ~setup.faults, NEW i \in Inst
               PROVE  /\ list'[i] # "absent" => /\ driver'[i].taken = 1 <=> Both(tx.new[i])
                                                /\ Agrees(driver'[i], tx.new[i])
                      /\ list'[i] = "absent" =>
                           /\ driver'[i].taken = 0
                           /\ Touched(i) => \E l \in Leaves : <<i, l>> \in tx'.todo
                           /\ ~setup.refusals /\ life = "run"
                                => Agrees(driver'[i], running[i])
    BY <1>0, <1>1 DEF Handled, Touched, Agrees, Both
  <2>1. CASE i # i0
    <3>1. \A l \in Leaves : <<i, l>> # n
      BY <2>1
    <3>2. QED
      BY <1>0, <1>1, <1>2, <2>1, <3>1 DEF Kept, Handled
  <2>2. CASE i = i0 /\ list[i0] # "absent"
    BY <1>0, <1>3, <2>2 DEF Kept, Handled
  <2>3. CASE i = i0 /\ list[i0] = "absent"
    BY <1>4, <2>3
  <2>4. QED
    BY <2>1, <2>2, <2>3
<1>9. Followed'
  BY <1>1 DEF Followed
<1>10. Owing'
  <2> SUFFICES ASSUME ~setup.faults, NEW i \in Inst, Both(running'[i]), life = "enabling",
                      list'[i] = "absent"
               PROVE  i \in owed'
    BY <1>0 DEF Owing, Subscribed
  <2>1. i # i0
    BY <1>5
  <2>2. driver[i].taken = 0 /\ i \in owed
    BY <1>0, <1>2, <2>1 DEF Kept, Handled, Owing
  <2>3. QED
    BY <1>2, <2>1, <2>2, OwedStays
<1>11. OnceEach'
  <2> SUFFICES ASSUME ~setup.faults, NEW i \in Inst, Touched(i)',
                      \A l \in Leaves : <<i, l>> \notin tx'.todo
               PROVE  driver'[i].taken = 1 <=> Both(tx'.new[i])
    BY <1>0, <1>1, <1>7 DEF OnceEach, Counted, Both
  <2>1. QED
    BY <1>0, <1>1, <1>8 DEF Handled, Subscribed
<1>12. QED
  BY <1>6, <1>7, <1>8, <1>9, <1>10, <1>11 DEF Kept

\* A transaction that ends, whatever is left in the driver.
LEMMA EndKeeps ==
  ASSUME CCInv, tx' = NoTx, setup' = setup,
         NEW d \in [Inst -> Drivers], \A i \in Inst : ~Both(d[i]),
         driver' = [i \in Inst |-> [d[i] EXCEPT !.taken = 0]],
         life' \notin {"enabling", "reset", "subscribe"},
         ~setup.faults /\ life' = "run" =>
           list' = Clear /\ (~setup.refusals => \A i \in Inst : Agrees(d[i], running'[i]))
  PROVE  Kept'
<1>1. \A i \in Inst : /\ driver'[i].taken = 0
                      /\ driver'[i].gate <=> d[i].gate
                      /\ driver'[i].change <=> d[i].change
  BY RestartIs
<1>2. Shape'
  BY DEF Shape, NoTx
<1>3. Counted'
  BY <1>1 DEF Counted, NoTx, Both
<1>4. Handled' /\ Owing' /\ OnceEach'
  BY <1>1 DEF Handled, Owing, OnceEach, NoTx
<1>5. Followed'
  <2> SUFFICES ASSUME ~setup.faults, ~setup.refusals, life' = "run", NEW i \in Inst
               PROVE  Agrees(driver'[i], running'[i])
    BY DEF Followed, NoTx, Agrees
  <2>1. Agrees(d[i], running'[i])
    OBVIOUS
  <2>2. QED
    BY <1>1, <2>1, Zenon DEF Agrees
<1>6. QED
  BY <1>2, <1>3, <1>4, <1>5 DEF Kept

\* A call fails, or another callback refuses the change.
LEMMA FailKeeps ==
  ASSUME CCInv, Remember,
         \/ \E n \in Nodes : OpenFails(n) \/ HandleFails(n)
         \/ OthersRefuse \/ Crash
  PROVE  Kept'
<1>0. Kept /\ setup' = setup
  BY DEF CCInv, OpenFails, HandleFails, OthersRefuse, Crash
<1>1. ASSUME NEW d \in [Inst -> Drivers], \A i \in Inst : ~Both(d[i]), Refused(d),
             setup.faults, tx.st = "change"
      PROVE  Kept'
  <2>1. life' \notin {"enabling", "reset", "subscribe"}
    BY <1>0, <1>1 DEF Kept, Shape, Refused, NoTx
  <2>2. QED
    BY <1>0, <1>1, <2>1, EndKeeps DEF Refused
<1>2. ASSUME NEW n \in Nodes, OpenFails(n) PROVE Kept'
  BY <1>1, <1>2, Parts DEF OpenFails
<1>3. ASSUME NEW n \in Nodes, HandleFails(n) PROVE Kept'
  <2>0. n[1] \in Inst /\ tx.new[n[1]] \in Values /\ driver[n[1]] \in Drivers
          /\ ~Both(driver[n[1]]) /\ driver[n[1]].taken = 0
          /\ tx.st = "change" /\ Subscribed /\ setup.faults
    BY <1>0, <1>3, Parts DEF Nodes, HandleFails, Kept, Counted
  <2>1. PICK di \in ApplyFails(driver[n[1]], tx.new[n[1]]) :
          LET d == [driver EXCEPT ![n[1]] = di] IN
          IF setup.plugin = "sched" THEN Refused(d)
          ELSE driver' = d /\ tx' = [tx EXCEPT !.todo = {}] /\ UNCHANGED life
    BY <1>3 DEF HandleFails
  <2>2. di \in Drivers /\ ~Both(di) /\ (di.taken = 0 \/ (Both(tx.new[n[1]]) /\ di.taken = 1))
    BY <2>0, <2>1, FailedIs
  <2> DEFINE d == [driver EXCEPT ![n[1]] = di]
  <2>3. d \in [Inst -> Drivers] /\ \A i \in Inst : ~Both(d[i])
    BY <2>0, <2>2, Parts
  <2>4. CASE setup.plugin = "sched"
    BY <1>1, <2>0, <2>1, <2>3, <2>4
  <2>5. CASE setup.plugin # "sched"
    <3>1. driver' = d /\ life' = life
      BY <2>1, <2>5
    <3>2. tx'.by = tx.by /\ tx'.new = tx.new /\ tx'.st = "change" /\ tx'.todo = {}
      BY <2>0, <2>1, <2>5, Parts DEF Transactions
    <3>3. running' = running
      BY <1>3 DEF HandleFails
    <3>4. Shape'
      BY <1>0, <2>0, <3>1, <3>2, <3>3 DEF Kept, Shape, Subscribed, NoTx
    <3>5. \A i \in Inst : /\ ~Both(driver'[i]) /\ driver'[i].taken \in {0, 1}
                          /\ driver'[i].taken = 1 => Both(tx.new[i])
      <4>1. ASSUME NEW i \in Inst, i # n[1]
            PROVE  /\ ~Both(driver'[i]) /\ driver'[i].taken \in {0, 1}
                   /\ driver'[i].taken = 1 => Both(tx.new[i])
        <5>1. driver'[i] = driver[i]
          BY <3>1, <4>1, Parts
        <5>2. QED
          BY <1>0, <5>1 DEF Kept, Counted
      <4>2. driver'[n[1]] = di
        BY <2>0, <3>1, Parts
      <4>3. QED
        BY <2>2, <4>1, <4>2
    <3>6. Counted'
      BY <3>2, <3>5 DEF Counted, Both
    <3>7. Handled' /\ Followed' /\ Owing'
      BY <1>0, <2>0 DEF Handled, Followed, Owing
    <3>8. OnceEach'
      BY <1>0, <2>0, <3>2, <3>5 DEF OnceEach, Both
    <3>9. QED
      BY <3>4, <3>6, <3>7, <3>8 DEF Kept
  <2>6. QED
    BY <2>4, <2>5
<1>4. CASE OthersRefuse
  <2>1. life' = "run" /\ setup.refusals /\ list' = Clear
    BY <1>4 DEF OthersRefuse
  <2>2. QED
    BY <1>0, <1>4, <2>1, Parts, EndKeeps DEF OthersRefuse, End
<1>5. CASE Crash
  BY <1>0, <1>5, Parts, EndKeeps DEF Crash, End
<1>6. QED
  BY <1>2, <1>3, <1>4, <1>5

LEMMA StoreKeeps ==
  ASSUME CCInv, Remember, Store
  PROVE  Kept'
<1>0. /\ Kept /\ tx.st = "change" /\ (Subscribed => tx.todo = {}) /\ running' = tx.new
      /\ UNCHANGED <<setup, driver, list, life>>
  BY DEF CCInv, Store
<1>1. tx'.by = tx.by /\ tx'.new = tx.new /\ tx'.st = "stored" /\ tx'.todo = tx.todo
  BY Parts DEF Store, Transactions
<1>2. Shape'
  BY <1>0, <1>1 DEF Kept, Shape, NoTx
<1>3. Counted'
  BY <1>0, <1>1 DEF Kept, Counted, Both
<1>4. Handled' /\ Owing'
  BY <1>0, <1>1 DEF Kept, Shape, Handled, Owing, NoTx
<1>5. Followed'
  <2> SUFFICES ASSUME ~setup.faults, ~setup.refusals, Subscribed, NEW i \in Inst
               PROVE  Agrees(driver[i], tx.new[i])
    BY <1>0, <1>1 DEF Followed, Subscribed, Agrees
  <2>1. CASE list[i] # "absent"
    BY <1>0, <2>1 DEF Kept, Handled
  <2>2. CASE list[i] = "absent"
    <3>1. ~Touched(i)
      BY <1>0, <2>2 DEF Kept, Handled
    <3>2. life = "run" /\ running[i] = tx.new[i]
      BY <1>0, <3>1 DEF Touched, Kept, Shape, Subscribed
    <3>3. QED
      BY <1>0, <2>2, <3>2 DEF Kept, Handled
  <2>3. QED
    BY <2>1, <2>2
<1>6. OnceEach'
  BY <1>0, <1>1, <1>3 DEF OnceEach, Counted, Both
<1>7. QED
  BY <1>2, <1>3, <1>4, <1>5, <1>6 DEF Kept

LEMMA DoneKeeps ==
  ASSUME CCInv, Remember, Done
  PROVE  Kept'
<1>0. Kept /\ tx.st = "stored" /\ UNCHANGED <<setup, running>>
  BY DEF CCInv, Done
<1>1. life' = IF tx.by = "enabled" THEN "run" ELSE life
  BY DEF Done
<1>2. life' \notin {"enabling", "reset", "subscribe"} /\ (life' = "run" => Subscribed)
  BY <1>0, <1>1 DEF Kept, Shape, Subscribed, NoTx
<1>3. ASSUME ~setup.faults, life' = "run"
      PROVE  list' = Clear /\ (~setup.refusals => \A i \in Inst : Agrees(driver[i], running'[i]))
  <2>1. list' = Clear
    BY <1>2, <1>3 DEF Done, Enqueue
  <2>2. ~setup.refusals => \A i \in Inst : Agrees(driver[i], running[i])
    BY <1>0, <1>2, <1>3 DEF Kept, Followed
  <2>3. QED
    BY <1>0, <2>1, <2>2
<1>4. QED
  BY <1>0, <1>2, <1>3, Parts, EndKeeps DEF Done, End

-----------------------------------------------------------------------------
(* The start and the stop of the plugin.                                    *)

LEMMA FixKeeps ==
  ASSUME CCInv, Remember, FixRead \/ FixReset
  PROVE  Kept'
<1>0. Kept /\ tx = NoTx /\ tx' = tx /\ UNCHANGED <<setup, driver>>
        /\ life' \in {"reset", "subscribe"}
  BY DEF CCInv, Kept, Shape, FixRead, FixReset
<1>1. \A i \in Inst : driver[i].taken = 0
  BY <1>0, RestingTaken
<1>2. Shape'
  BY <1>0 DEF Shape, NoTx, FixRead, FixReset
<1>3. Counted'
  BY <1>0 DEF Kept, Counted, Both, NoTx
<1>4. Handled' /\ Followed'
  BY <1>0 DEF Handled, Followed, NoTx
<1>5. OnceEach'
  BY <1>0, <1>1 DEF OnceEach, NoTx
<1>6. Owing'
  <2>1. CASE FixRead
    <3>1. \A i \in Inst : Both(running[i]) => list'[i] = "trigger"
      BY <2>1 DEF FixRead, Record
    <3>2. QED
      BY <2>1, <3>1 DEF FixRead, Owing, Both
  <2>2. CASE FixReset
    <3> SUFFICES ASSUME ~setup.faults, NEW i \in Inst, Both(running'[i]) PROVE i \in owed'
      BY <1>0, <2>2 DEF FixReset, Owing
    <3>1. running' = ResetOf(Triggers)
      BY <2>2 DEF FixReset
    <3>2. i \notin Triggers
      <4>1. ~[running[i] EXCEPT !.change = FALSE].change
        BY Parts DEF Values
      <4>2. QED
        BY <3>1, <4>1, Zenon DEF ResetOf, Both
    <3>3. running'[i] = running[i] /\ list[i] # "trigger"
      BY <3>1, <3>2 DEF ResetOf, Triggers
    <3>4. i \in owed
      BY <1>0, <2>2, <3>3 DEF Kept, Owing, FixReset
    <3>5. QED
      BY <1>0, <1>1, <3>4, OwedStays
  <2>3. QED
    BY <2>1, <2>2
<1>7. QED
  BY <1>2, <1>3, <1>4, <1>5, <1>6 DEF Kept

LEMMA UnsubscribeKeeps ==
  ASSUME CCInv, Remember, Unsubscribe
  PROVE  Kept'
<1>0. Kept /\ life = "run" /\ life' = "unsubscribed"
        /\ UNCHANGED <<setup, running, driver, tx>>
  BY DEF CCInv, Unsubscribe
<1>1. Shape'
  BY <1>0 DEF Kept, Shape
<1>2. Counted'
  BY <1>0 DEF Kept, Counted, Subscribed, Both
<1>3. Handled' /\ Followed' /\ Owing'
  BY <1>0 DEF Handled, Followed, Owing, Subscribed
<1>4. OnceEach'
  BY <1>0 DEF Kept, OnceEach, Touched, Both
<1>5. QED
  BY <1>1, <1>2, <1>3, <1>4 DEF Kept

-----------------------------------------------------------------------------
(* Every step, and the theorems.                                            *)

LEMMA StepKeeps ==
  ASSUME CCInv, Next
  PROVE  Kept'
<1>0. Remember
  BY DEF Next
<1>1. CASE UserEdits
  <2>1. PICK new \in [Inst -> Values] : Commit("user", new)
    BY <1>1 DEF UserEdits
  <2>2. QED
    BY <1>0, <1>1, <2>1, CommitKeeps DEF UserEdits
<1>2. CASE HelperApplies
  <2>1. ResetOf(helper.cur) \in [Inst -> Values]
    BY Parts, ResetType
  <2>2. CASE Commit("helper", ResetOf(helper.cur))
    BY <1>0, <1>2, <2>1, <2>2, CommitKeeps DEF HelperApplies
  <2>3. CASE UNCHANGED <<running, tx>>
    BY <1>0, <1>2, <2>3, QuietKeeps DEF HelperApplies
  <2>4. QED
    BY <1>2, <2>2, <2>3 DEF HelperApplies
<1>3. CASE HelperReady \/ HelperSpurious \/ HelperWakes \/ HelperResumes
  BY <1>0, <1>3, QuietKeeps DEF HelperReady, HelperSpurious, HelperWakes, HelperResumes
<1>4. CASE Start \/ StopHelper \/ Joined
  BY <1>0, <1>4, QuietKeeps DEF Start, StopHelper, Joined
<1>5. QED
  BY <1>0, <1>1, <1>2, <1>3, <1>4, HandleKeeps, FailKeeps, StoreKeeps, DoneKeeps, FixKeeps,
     SubscribeKeeps, UnsubscribeKeeps DEF Next

LEMMA InvStep == CCInv /\ [Next]_vars => CCInv'
<1>1. ASSUME CCInv, Next PROVE CCInv'
  BY <1>1, TypeStep, StepKeeps DEF CCInv
<1>2. ASSUME CCInv, UNCHANGED vars PROVE CCInv'
  <2>0. CCInv /\ UNCHANGED <<setup, running, driver, tx, list, queue, helper, life, owed,
                             edits, starts>>
    BY <1>2 DEF vars
  <2>1. TypeOK'
    BY <2>0 DEF CCInv, TypeOK
  <2>2. Shape' /\ Counted'
    BY <2>0 DEF CCInv, Kept, Shape, Counted, Subscribed, Both
  <2>3. Handled'
    BY <2>0 DEF CCInv, Kept, Handled, Subscribed, Touched, Agrees, Both
  <2>4. Followed' /\ Owing'
    BY <2>0 DEF CCInv, Kept, Followed, Owing, Subscribed, Agrees, Both
  <2>5. OnceEach'
    BY <2>0 DEF CCInv, Kept, OnceEach, Touched, Both
  <2>6. QED
    BY <2>1, <2>2, <2>3, <2>4, <2>5 DEF CCInv, Kept
<1>3. QED
  BY <1>1, <1>2

LEMMA InvHolds == Spec => []CCInv
BY InvInit, InvStep, PTL DEF Spec

\* Between transactions reset_list is empty and the driver has what is stored, for any
\* number of instances, changes and restarts (config_change_list_clear, sched.c:1970,
\* ietf-interfaces.c:913-929).
THEOREM InvAlways == Spec => []Inv
<1>1. CCInv => Inv
  <2> SUFFICES ASSUME CCInv PROVE Inv
    OBVIOUS
  <2>1. TypeOK /\ Kept
    BY DEF CCInv
  <2>2. ListClean
    BY <2>1 DEF Kept, Shape, ListClean, NoTx
  <2>3. DriverFollows
    <3> SUFFICES ASSUME ~setup.faults, ~setup.refusals, life = "run", tx = NoTx, NEW i \in Inst
                 PROVE  /\ driver[i].gate <=> running[i].gate
                        /\ driver[i].change <=> running[i].change /\ ~running[i].gate
      BY DEF DriverFollows
    <3>1. Agrees(driver[i], running[i])
      BY <2>1 DEF Kept, Followed, NoTx
    <3>2. QED
      BY <3>1, Zenon DEF Agrees
  <2>4. QED
    BY <2>1, <2>2, <2>3 DEF Inv
<1>2. QED
  BY <1>1, InvHolds, PTL

\* A transaction makes the driver take a change over exactly once, and a restart none
\* that the driver was given before (interface_sched_apply_config_change,
\* interface_sched_fix_datastore).
THEOREM TakenOnceAlways == Spec => TakenOnce
<1>1. CCInv' => OnceEach'
  BY DEF CCInv, Kept
<1>2. CCInv /\ [Next]_vars => [RestartQuiet]_vars
  <2> SUFFICES ASSUME CCInv, Next, ~setup.faults, tx.by = "enabled", NEW i \in Inst,
                      driver'[i].taken > driver[i].taken
               PROVE  i \in owed
    BY DEF RestartQuiet
  <2>0. Kept /\ driver[i].taken \in {0, 1} /\ life = "enabling"
    BY DEF CCInv, Kept, Counted, Shape
  <2>1. \E n \in Nodes : HandleNode(n)
    <3>1. ASSUME driver' = driver \/ driver' = [j \in Inst |-> [driver[j] EXCEPT !.taken = 0]]
          PROVE  FALSE
      <4>1. driver'[i] = driver[i] \/ driver'[i].taken = 0
        <5>1. driver[i] \in Drivers
          BY Parts
        <5>2. [driver[i] EXCEPT !.taken = 0].taken = 0
          BY <5>1, RestartIs
        <5>3. QED
          BY <3>1, <5>2
      <4>2. QED
        BY <2>0, <4>1
    <3>2. QED
      BY <3>1 DEF Next, UserEdits, OpenFails, HandleFails, OthersRefuse, Store, Done, End,
         HelperReady, HelperSpurious, HelperWakes, HelperApplies, HelperResumes, Start,
         FixRead, FixReset, Subscribe, Unsubscribe, StopHelper, Joined, Crash
  <2>2. PICK n \in Nodes : HandleNode(n)
    BY <2>1
  <2>3. i = n[1] /\ list[i] = "absent" /\ tx.st = "change"
    BY <2>0, <2>2, Parts DEF HandleNode
  <2>4. Both(tx.new[i])
    <3>1. driver'[i] = Apply(driver[i], tx.new[i])
      BY <2>2, <2>3, Parts DEF HandleNode
    <3>2. driver[i] \in Drivers /\ tx.new[i] \in Values /\ ~Both(driver[i])
      BY Parts
    <3>3. QED
      BY <2>0, <3>1, <3>2, ApplyIs
  <2>5. Both(running[i])
    BY <2>0, <2>4 DEF Kept, Shape
  <2>6. QED
    BY <2>0, <2>3, <2>5 DEF Kept, Owing
<1>3. CCInv /\ CCInv' /\ [Next]_vars => [OnceEach' /\ RestartQuiet]_vars
  BY <1>1, <1>2, Zenon
<1>4. QED
  BY <1>3, InvHolds, PTL DEF Spec, TakenOnce
=============================================================================
