--------------------------- MODULE AddrSyncProofs ---------------------------
(***************************************************************************)
(* Theorems about AddrSync, for any stations, VLANs, FIDs and ports, with     *)
(* or without overlapping calls.                                             *)
(*                                                                          *)
(* What the bridge was told belongs to an entry of the VLAN's home: the FID   *)
(* the VLAN is in or, while it is being moved, comes from (Told).  The walk    *)
(* of a move starts at a node taken before the lock, and the work may insert   *)
(* entries before it; but those have not been announced (ToldFrom), and the   *)
(* node itself stays while the move holds v2f_lock (MoveInv).                 *)
(*                                                                          *)
(* A stop takes its node before any lock and before the work is cancelled.    *)
(* That it finds all there is depends on the work being at rest meanwhile     *)
(* (StopInv), which is so if the calls do not overlap.                        *)
(***************************************************************************)
EXTENDS AddrSync, WellFoundedInduction, TLAPS

\* Who holds v2f_lock, and what a move knows.
OwnerInv ==
  /\ v2fLock = "move" <=> move # "rest"
  /\ v2fLock = "work" <=> work \in {"tree", "notify"}
  /\ v2fLock = "stop" <=> stop = "tree"
  /\ move = "rest" => moveVid = None
  /\ move # "rest" => moveVid \in Vids /\ moveOld \in Fids

\* NoDangling, also while a VLAN is moved.
Told ==
  \A m \in Macs, v \in Vids :
    bridge[<<m, v>>] # None /\ v \notin deleted =>
      /\ Home(v) \in Fids
      /\ tree[<<Home(v), m>>].ptid = bridge[<<m, v>>]

\* What was told of a VLAN that is moved will be found by the walk.
ToldFrom ==
  move \in {"tree", "notify"} =>
    \A m \in Macs :
      bridge[<<m, moveVid>>] # None /\ moveVid \notin deleted =>
        <<moveOld, m>> \in From(moveFrom)

\* The node a move has taken is not freed before the move is over.
MoveInv == move \in {"tree", "notify"} => moveFrom \in Entries \cup {None}

AddrInv == TypeOK /\ OwnerInv /\ Told /\ ToldFrom /\ MoveInv

\* While a stop is under way the work neither runs nor is armed, so that the node is
\* still the first; and whenever the work is off, nothing is left in the tree.
StopInv ==
  /\ stop # "rest" => ~armed /\ work = "rest" /\ stopFrom = First(Entries)
  /\ Stopped => Entries = {}

-----------------------------------------------------------------------------
(* The order of the keys.                                                   *)

NatRel == {ss \in Nat \X Nat : ss[1] < ss[2]}

\* A set of numbers that is not empty has a smallest element.
LEMMA NatMin ==
  ASSUME NEW S \in SUBSET Nat, S # {}
  PROVE  \E m \in S : \A n \in S : m <= n
<1>1. OpToRel(<, Nat) = NatRel
  BY Zenon DEF OpToRel, NatRel
<1>2. IsWellFoundedOn(NatRel, Nat)
  BY <1>1, NatLessThanWellFounded, Zenon
<1>3. PICK m \in S : \A n \in S : <<n, m>> \notin NatRel
  BY <1>2, WFMin
<1>4. \A a, b \in Nat : <<a, b>> \in NatRel <=> a < b
  BY DEF NatRel
<1>5. ASSUME NEW n \in S PROVE m <= n
  <2>1. n \in Nat /\ m \in Nat
    OBVIOUS
  <2>2. ~(n < m)
    BY <1>3, <1>4, <2>1, Zenon
  <2>3. QED
    BY <2>1, <2>2
<1>6. QED
  BY <1>5

\* A key is a pair of numbers.
LEMMA KeyIs ==
  \A k \in Keys : k[1] \in Nat /\ k[2] \in Nat /\ k = <<k[1], k[2]>>
<1>1. Macs \subseteq Nat /\ Fids \subseteq Nat
  BY AddrSyncAssumption
<1>2. \A k \in Keys : k[1] \in Fids /\ k[2] \in Macs /\ k = <<k[1], k[2]>>
  BY DEF Keys
<1>3. QED
  BY <1>1, <1>2

\* rb_first returns a node before all others (edgx_dmac_cmp).
LEMMA FirstIs ==
  ASSUME NEW S \in SUBSET Keys, S # {}
  PROVE  /\ First(S) \in S
         /\ \A l \in S : l = First(S) \/ Before(First(S), l)
<1> DEFINE F == {k[1] : k \in S}
<1>0. \A k \in S : k[1] \in Nat /\ k[2] \in Nat /\ k = <<k[1], k[2]>>
  BY KeyIs
<1>1. F \in SUBSET Nat /\ F # {}
  <2>1. \A g \in F : g \in Nat
    BY <1>0
  <2>2. PICK k \in S : TRUE
    OBVIOUS
  <2>3. k[1] \in F
    BY <2>2
  <2>4. QED
    BY <2>1, <2>3
<1>2. PICK f \in F : \A g \in F : f <= g
  BY <1>1, NatMin
<1> DEFINE M == {k[2] : k \in {l \in S : l[1] = f}}
<1>3. M \in SUBSET Nat /\ M # {}
  BY <1>0
<1>4. PICK m \in M : \A n \in M : m <= n
  BY <1>3, NatMin
<1>5. PICK k \in S : k[1] = f /\ k[2] = m
  OBVIOUS
<1>6. ASSUME NEW l \in S PROVE l = k \/ Before(k, l)
  <2>1. l[1] \in F /\ l[1] \in Nat /\ f \in Nat /\ f <= l[1]
    BY <1>1, <1>2
  <2>2. CASE f < l[1]
    BY <1>5, <2>2 DEF Before
  <2>3. CASE l[1] = f
    <3>1. l[2] \in M /\ l[2] \in Nat /\ m \in Nat /\ m <= l[2]
      BY <1>3, <1>4, <2>3
    <3>2. CASE m < l[2]
      BY <1>5, <2>3, <3>2 DEF Before
    <3>3. CASE l[2] = m
      BY <1>0, <1>5, <2>3, <3>3
    <3>4. QED
      BY <3>1, <3>2, <3>3
  <2>4. QED
    BY <2>1, <2>2, <2>3
<1>7. QED
  BY <1>6 DEF First

\* rb_first of a part of the tree, which may be empty.
LEMMA FirstType ==
  ASSUME NEW S \in SUBSET Keys
  PROVE  First(S) \in S \cup {None}
BY FirstIs DEF First

-----------------------------------------------------------------------------
(* Initially.                                                               *)

LEMMA InvInit == Init => AddrInv
<1> SUFFICES ASSUME Init PROVE AddrInv
  OBVIOUS
<1>1. TypeOK
  <2>1. NoEntry \in [ptid: Ports \cup {None}, seen: BOOLEAN]
    BY DEF NoEntry
  <2>2. tree \in [Keys -> [ptid: Ports \cup {None}, seen: BOOLEAN]]
    BY <2>1 DEF Init
  <2>3. v2f \in [Vids -> Fids \cup {None}] /\ ptvec \in [Vids -> SUBSET Ports]
    BY AddrSyncAssumption DEF Init
  <2>4. events \in 0..MaxEvents
    BY AddrSyncAssumption DEF Init
  <2>5. QED
    BY <2>2, <2>3, <2>4 DEF Init, TypeOK
<1>2. OwnerInv
  BY AddrSyncAssumption DEF Init, OwnerInv
<1>3. Told
  BY DEF Init, Told
<1>4. ToldFrom
  BY DEF Init, ToldFrom
<1>5. MoveInv
  BY DEF Init, MoveInv
<1>6. QED
  BY <1>1, <1>2, <1>3, <1>4, <1>5 DEF AddrInv

-----------------------------------------------------------------------------
(* Types.                                                                   *)

LEMMA EventRange == \A n \in 0..MaxEvents : n > 0 => n - 1 \in 0..MaxEvents
<1>1. MaxEvents \in Nat
  BY AddrSyncAssumption
<1>2. QED
  BY <1>1

LEMMA EraseType ==
  ASSUME TypeOK, NEW S, Erase(S)
  PROVE  tree' \in [Keys -> [ptid: Ports \cup {None}, seen: BOOLEAN]]
<1>1. NoEntry \in [ptid: Ports \cup {None}, seen: BOOLEAN]
  BY DEF NoEntry
<1>2. QED
  BY <1>1 DEF TypeOK, Erase

LEMMA NotifyType ==
  ASSUME TypeOK, NEW gone, NEW there \in SUBSET Keys, Notify(gone, there)
  PROVE  bridge' \in [Macs \X Vids -> Ports \cup {None}]
<1> SUFFICES ASSUME NEW a \in Macs \X Vids,
                    NEW k, k = <<v2f[a[2]], a[1]>>
             PROVE  (IF k \in there THEN tree[k].ptid
                     ELSE IF k \in gone THEN None ELSE bridge[a])
                      \in Ports \cup {None}
  BY DEF Notify
<1>1. k \in there => tree[k].ptid \in Ports \cup {None}
  BY DEF TypeOK
<1>2. bridge[a] \in Ports \cup {None}
  BY DEF TypeOK
<1>3. QED
  BY <1>1, <1>2

\* The steps of the switch and of the work.
LEMMA WorkType == TypeOK /\ (Work \/ ReadNextFails \/ Switch) => TypeOK'
<1> SUFFICES ASSUME TypeOK, Work \/ ReadNextFails \/ Switch
             PROVE  TypeOK'
  OBVIOUS
<1> USE DEF vars, tables, locks, works, stops, moves
<1>0. \A n \in 0..MaxEvents : n > 0 => n - 1 \in 0..MaxEvents
  BY EventRange
<1>1. ASSUME NEW k \in Keys, NEW p \in Ports, HwLearns(k, p) PROVE TypeOK'
  BY <1>0, <1>1 DEF HwLearns, Event, TypeOK
<1>2. ASSUME NEW k \in Keys, HwAges(k) PROVE TypeOK'
  BY <1>0, <1>2 DEF HwAges, Event, TypeOK
<1>3. CASE WorkStarts
  <2>1. armed' \in BOOLEAN
    BY <1>3, Zenon DEF WorkStarts
  <2>2. QED
    BY <1>3, <2>1 DEF WorkStarts, TypeOK
<1>4. CASE ReadStarts
  BY <1>4 DEF ReadStarts, TypeOK
<1>5. CASE ReadNext
  <2>1. ToRead \in SUBSET Keys /\ at' \in ToRead
    BY <1>5, FirstIs DEF ReadNext, ToRead
  <2>2. hw[at'] \in Ports
    BY <2>1 DEF ToRead, TypeOK
  <2>3. Seen(at', hw[at'], detector) \in [ptid: Ports \cup {None}, seen: BOOLEAN]
    BY <2>1, <2>2 DEF Seen, TypeOK
  <2>4. tree' \in [Keys -> [ptid: Ports \cup {None}, seen: BOOLEAN]]
    BY <1>5, <2>1, <2>3 DEF ReadNext, TypeOK
  <2>5. QED
    BY <1>5, <2>1, <2>4 DEF ReadNext, TypeOK
<1>6. CASE ReadNextFails
  <2>1. at' \in Keys
    BY <1>6, FirstIs DEF ReadNextFails, ToRead
  <2>2. QED
    BY <1>0, <1>6, <2>1 DEF ReadNextFails, Event, TypeOK
<1>7. CASE ReadEnds
  BY <1>7 DEF ReadEnds, TypeOK
<1>8. CASE WorkTakesAllocation
  BY <1>8 DEF WorkTakesAllocation, TakesAllocation, TypeOK
<1>9. CASE WorkTakesTree
  BY <1>9 DEF WorkTakesTree, TypeOK
<1>10. CASE CallNotifiers
  <2>1. Visited \ Aged \in SUBSET Keys
    BY DEF Visited, Entries
  <2>2. bridge' \in [Macs \X Vids -> Ports \cup {None}]
    BY <1>10, <2>1, NotifyType DEF CallNotifiers
  <2>3. tree' \in [Keys -> [ptid: Ports \cup {None}, seen: BOOLEAN]]
    BY <1>10, EraseType DEF CallNotifiers
  <2>4. QED
    BY <1>10, <2>2, <2>3 DEF CallNotifiers, TypeOK
<1>11. CASE Rearm
  BY <1>11 DEF Rearm, TypeOK
<1>12. QED
  BY <1>1, <1>2, <1>3, <1>4, <1>5, <1>6, <1>7, <1>8, <1>9, <1>10, <1>11
     DEF Work, Switch

\* The steps of the attributes and of the bridge.
LEMMA CallType ==
  ASSUME TypeOK,
         \/ SyncEnable \/ SyncDisable \/ Stop
         \/ (\E v \in Vids, fid \in Fids : MoveStarts(v, fid)) \/ Move
         \/ BridgeCalls \/ Bridge
  PROVE  TypeOK'
<1> USE DEF vars, tables, locks, works, stops, moves
<1>0. \A n \in 0..MaxEvents : n > 0 => n - 1 \in 0..MaxEvents
  BY EventRange
<1>1. CASE SyncEnable
  BY <1>0, <1>1 DEF SyncEnable, Event, TypeOK
<1>2. First(Entries) \in Keys \cup {None}
  BY FirstType DEF Entries
<1>3. CASE SyncDisable
  <2>1. armed' \in BOOLEAN
    BY <1>3, Zenon DEF SyncDisable
  <2>2. QED
    BY <1>0, <1>2, <1>3, <2>1 DEF SyncDisable, Event, TypeOK
<1>4. CASE StopCancelled
  BY <1>4 DEF StopCancelled, TypeOK
<1>5. CASE StopTakesAllocation
  BY <1>5 DEF StopTakesAllocation, TakesAllocation, TypeOK
<1>6. CASE StopWalks
  <2>1. PICK S : Notify(S, {}) /\ Erase(S)
    BY <1>6 DEF StopWalks
  <2>2. bridge' \in [Macs \X Vids -> Ports \cup {None}]
    BY <2>1, NotifyType
  <2>3. tree' \in [Keys -> [ptid: Ports \cup {None}, seen: BOOLEAN]]
    BY <2>1, EraseType
  <2>4. QED
    BY <1>6, <2>2, <2>3 DEF StopWalks, TypeOK
<1>7. ASSUME NEW v \in Vids, NEW fid \in Fids, MoveStarts(v, fid) PROVE TypeOK'
  <2>1. v2f[v] \in Fids
    BY <1>7 DEF MoveStarts, TypeOK
  <2>2. hw' \in [Keys -> Ports \cup {None}]
    BY <1>7 DEF MoveStarts, TypeOK
  <2>3. v2f' \in [Vids -> Fids \cup {None}]
    BY <1>7 DEF MoveStarts, TypeOK
  <2>4. QED
    BY <1>0, <1>7, <2>1, <2>2, <2>3
       DEF MoveStarts, TakesAllocation, Event, TypeOK
<1>8. CASE MoveTakesNode
  BY <1>2, <1>8 DEF MoveTakesNode, TypeOK
<1>9. CASE MoveTakesTree
  BY <1>9 DEF MoveTakesTree, TypeOK
<1>10. CASE MoveNotifies
  <2>1. bridge' \in [Macs \X Vids -> Ports \cup {None}]
    BY <1>10 DEF MoveNotifies, TypeOK
  <2>2. QED
    BY <1>10, <2>1 DEF MoveNotifies, TypeOK
<1>11. CASE BridgeCalls
  BY <1>0, <1>11 DEF BridgeCalls, Event, TypeOK
<1>12. ASSUME NEW v \in Vids, VlanAddPtFails(v) PROVE TypeOK'
  BY <1>12 DEF VlanAddPtFails, InCall, TypeOK
<1>13. ASSUME NEW v \in Vids, NEW p \in Ports, VlanAddPt(v, p) PROVE TypeOK'
  <2>1. ptvec' \in [Vids -> SUBSET Ports]
    BY <1>13 DEF VlanAddPt, TypeOK
  <2>2. v2f' \in [Vids -> Fids \cup {None}]
    <3>1. CASE UNCHANGED v2f
      BY <3>1 DEF TypeOK
    <3>2. CASE \E fid \in Fids : v2f' = [v2f EXCEPT ![v] = fid]
      BY <3>2 DEF TypeOK
    <3>3. QED
      BY <1>13, <3>1, <3>2 DEF VlanAddPt, FreeFids
  <2>3. QED
    BY <1>13, <2>1, <2>2 DEF VlanAddPt, InCall, TypeOK
<1>14. ASSUME NEW v \in Vids, NEW p \in Ports, VlanDelPt(v, p) PROVE TypeOK'
  <2>1. ptvec' \in [Vids -> SUBSET Ports]
    BY <1>14 DEF VlanDelPt, TypeOK
  <2>2. bridge' \in [Macs \X Vids -> Ports \cup {None}]
    BY <1>14 DEF VlanDelPt, TypeOK
  <2>3. v2f' \in [Vids -> Fids \cup {None}] /\ deleted' \in SUBSET Vids
    BY <1>14 DEF VlanDelPt, TypeOK
  <2>4. QED
    BY <1>14, <2>1, <2>2, <2>3 DEF VlanDelPt, InCall, TypeOK
<1>15. QED
  BY <1>1, <1>3, <1>4, <1>5, <1>6, <1>7, <1>8, <1>9, <1>10, <1>11, <1>12,
     <1>13, <1>14 DEF Stop, Move, Bridge

LEMMA TypeStep == TypeOK /\ [Next]_vars => TypeOK'
<1> SUFFICES ASSUME TypeOK, [Next]_vars PROVE TypeOK'
  OBVIOUS
<1>1. CASE Next
  BY <1>1, WorkType, CallType DEF Next
<1>2. CASE UNCHANGED vars
  BY <1>2 DEF vars, tables, locks, works, stops, moves, TypeOK
<1>3. QED
  BY <1>1, <1>2

-----------------------------------------------------------------------------
(* The owners.                                                              *)

LEMMA OwnerStep == TypeOK /\ OwnerInv /\ [Next]_vars => OwnerInv'
<1> SUFFICES ASSUME TypeOK, OwnerInv, [Next]_vars PROVE OwnerInv'
  OBVIOUS
<1> USE DEF vars, tables, locks, works, stops, moves
<1>0. None \notin {"work", "stop", "move"} /\ None \notin Vids
  BY AddrSyncAssumption
<1>1. ASSUME NEW k \in Keys, NEW p \in Ports, HwLearns(k, p) PROVE OwnerInv'
  BY <1>1 DEF HwLearns, OwnerInv
<1>2. ASSUME NEW k \in Keys, HwAges(k) PROVE OwnerInv'
  BY <1>2 DEF HwAges, OwnerInv
<1>3. CASE WorkStarts \/ ReadStarts \/ ReadNext \/ ReadNextFails \/ ReadEnds
           \/ Rearm
  BY <1>3 DEF WorkStarts, ReadStarts, ReadNext, ReadNextFails, ReadEnds, Rearm,
              OwnerInv
<1>4. CASE WorkTakesAllocation
  BY <1>0, <1>4 DEF WorkTakesAllocation, TakesAllocation, OwnerInv
<1>5. CASE WorkTakesTree
  BY <1>5 DEF WorkTakesTree, OwnerInv
<1>6. CASE CallNotifiers
  BY <1>0, <1>6 DEF CallNotifiers, OwnerInv
<1>7. CASE SyncEnable \/ SyncDisable \/ StopCancelled
  BY <1>7 DEF SyncEnable, SyncDisable, StopCancelled, OwnerInv
<1>8. CASE StopTakesAllocation
  BY <1>0, <1>8 DEF StopTakesAllocation, TakesAllocation, OwnerInv
<1>9. CASE StopWalks
  BY <1>0, <1>9 DEF StopWalks, OwnerInv
<1>10. ASSUME NEW v \in Vids, NEW fid \in Fids, MoveStarts(v, fid)
       PROVE  OwnerInv'
  <2>1. v2f[v] \in Fids
    BY <1>10 DEF MoveStarts, TypeOK
  <2>2. QED
    BY <1>0, <1>10, <2>1 DEF MoveStarts, TakesAllocation, OwnerInv
<1>11. CASE MoveTakesNode \/ MoveTakesTree
  BY <1>11 DEF MoveTakesNode, MoveTakesTree, OwnerInv
<1>12. CASE MoveNotifies
  BY <1>0, <1>12 DEF MoveNotifies, OwnerInv
<1>13. CASE BridgeCalls
  BY <1>13 DEF BridgeCalls, OwnerInv
<1>14. CASE InCall
  BY <1>14 DEF InCall, OwnerInv
<1>15. CASE UNCHANGED vars
  BY <1>15 DEF OwnerInv
<1>16. Bridge => InCall
  BY DEF Bridge, VlanAddPtFails, VlanAddPt, VlanDelPt
<1>17. QED
  BY <1>1, <1>2, <1>3, <1>4, <1>5, <1>6, <1>7, <1>8, <1>9, <1>10, <1>11,
     <1>12, <1>13, <1>14, <1>15, <1>16
     DEF Next, Work, Stop, Move, Switch

-----------------------------------------------------------------------------
(* What the bridge was told.                                                *)

\* Steps that leave alone all that Told speaks of.
LEMMA ToldSame ==
  ASSUME Told,
         UNCHANGED <<bridge, tree, v2f, moveVid, moveOld, deleted>>
  PROVE  Told'
BY DEF Told, Home

\* While no VLAN is moved, its home is its FID.
LEMMA AtHome ==
  ASSUME TypeOK, OwnerInv, move = "rest", NEW v \in Vids
  PROVE  Home(v) = v2f[v]
BY AddrSyncAssumption DEF OwnerInv, Home

\* The notifications of a walk that withdraws what it erases.
LEMMA NotifyTold ==
  ASSUME TypeOK, OwnerInv, Told, move = "rest",
         NEW gone \in SUBSET Keys, NEW there \in SUBSET Keys,
         gone \cap there = {},
         Notify(gone, there), Erase(gone),
         UNCHANGED <<v2f, moveVid, moveOld, deleted>>
  PROVE  Told'
<1> SUFFICES ASSUME NEW m \in Macs, NEW v \in Vids,
                    bridge'[<<m, v>>] # None, v \notin deleted
             PROVE  /\ v2f[v] \in Fids
                    /\ tree'[<<v2f[v], m>>].ptid = bridge'[<<m, v>>]
  <2>1. \A v \in Vids : Home(v)' = v2f[v]
    BY AddrSyncAssumption DEF OwnerInv, Home
  <2>2. QED
    BY <2>1 DEF Told
<1> DEFINE k == <<v2f[v], m>>
<1>1. bridge'[<<m, v>>] = IF k \in there THEN tree[k].ptid
                         ELSE IF k \in gone THEN None ELSE bridge[<<m, v>>]
  BY DEF Notify
<1>2. CASE k \in there
  <2>1. v2f[v] \in Fids /\ k \in Keys /\ k \notin gone
    BY <1>2 DEF Keys
  <2>2. tree'[k] = tree[k]
    BY <2>1 DEF Erase
  <2>3. QED
    BY <1>1, <1>2, <2>1, <2>2
<1>3. CASE k \notin there
  <2>1. k \notin gone /\ bridge'[<<m, v>>] = bridge[<<m, v>>]
    BY <1>1, <1>3
  <2>2. v2f[v] \in Fids /\ tree[k].ptid = bridge[<<m, v>>]
    BY <2>1, AtHome DEF Told
  <2>3. k \in Keys
    BY <2>2 DEF Keys
  <2>4. tree'[k] = tree[k]
    BY <2>1, <2>3 DEF Erase
  <2>5. QED
    BY <2>1, <2>2, <2>4
<1>4. QED
  BY <1>2, <1>3

\* An entry that is in the tree keeps its port while the table is read.
LEMMA ReadNextKeeps ==
  ASSUME TypeOK, ReadNext, NEW k \in Entries
  PROVE  tree'[k].ptid = tree[k].ptid
<1>1. k \in Keys
  BY DEF Entries
<1>2. ToRead \in SUBSET Keys /\ at' \in Keys
  BY FirstIs DEF ReadNext, ToRead
<1>3. CASE k = at'
  BY <1>1, <1>2, <1>3 DEF ReadNext, Seen, TypeOK
<1>4. CASE k # at'
  BY <1>1, <1>2, <1>4 DEF ReadNext, TypeOK
<1>5. QED
  BY <1>3, <1>4

LEMMA ToldStep == TypeOK /\ OwnerInv /\ Told /\ ToldFrom /\ [Next]_vars => Told'
<1> SUFFICES ASSUME TypeOK, OwnerInv, Told, ToldFrom, [Next]_vars PROVE Told'
  OBVIOUS
<1> USE DEF vars, tables, locks, works, stops, moves
<1>0. None \notin {"work", "stop", "move"} /\ None \notin Vids
      /\ None \notin Fids
  BY AddrSyncAssumption
<1>1. ASSUME NEW k \in Keys, NEW p \in Ports, HwLearns(k, p) PROVE Told'
  BY <1>1, ToldSame DEF HwLearns
<1>2. ASSUME NEW k \in Keys, HwAges(k) PROVE Told'
  BY <1>2, ToldSame DEF HwAges
<1>3. CASE WorkStarts \/ ReadStarts \/ ReadNextFails \/ ReadEnds
           \/ WorkTakesAllocation \/ WorkTakesTree \/ Rearm
  BY <1>3, ToldSame DEF WorkStarts, ReadStarts, ReadNextFails, ReadEnds,
                        WorkTakesAllocation, WorkTakesTree, Rearm
<1>4. CASE ReadNext
  <2> SUFFICES ASSUME NEW m \in Macs, NEW v \in Vids,
                      bridge[<<m, v>>] # None, v \notin deleted
               PROVE  /\ Home(v) \in Fids
                      /\ tree'[<<Home(v), m>>].ptid = bridge[<<m, v>>]
    BY <1>4 DEF ReadNext, Told, Home
  <2>1. Home(v) \in Fids /\ tree[<<Home(v), m>>].ptid = bridge[<<m, v>>]
    BY DEF Told
  <2>2. <<Home(v), m>> \in Entries
    BY <2>1 DEF Entries, Keys
  <2>3. QED
    BY <1>4, <2>1, <2>2, ReadNextKeeps
<1>5. CASE CallNotifiers
  <2>1. move = "rest"
    BY <1>5 DEF CallNotifiers, OwnerInv, TypeOK
  <2>2. Aged \in SUBSET Keys /\ Visited \ Aged \in SUBSET Keys
        /\ Aged \cap (Visited \ Aged) = {}
    BY DEF Aged, Visited, Entries
  <2>3. QED
    BY <1>5, <2>1, <2>2, NotifyTold DEF CallNotifiers
<1>6. CASE SyncEnable \/ SyncDisable \/ StopCancelled \/ StopTakesAllocation
  BY <1>6, ToldSame DEF SyncEnable, SyncDisable, StopCancelled,
                        StopTakesAllocation
<1>7. CASE StopWalks
  <2>1. move = "rest"
    BY <1>7 DEF StopWalks, OwnerInv, TypeOK
  <2>2. From(stopFrom) \in SUBSET Keys /\ Entries \in SUBSET Keys
    BY DEF From, Entries
  <2>3. PICK S \in SUBSET Keys : Notify(S, {}) /\ Erase(S)
    BY <1>7, <2>2 DEF StopWalks
  <2>4. QED
    BY <1>7, <2>1, <2>3, NotifyTold DEF StopWalks
<1>8. ASSUME NEW v \in Vids, NEW fid \in Fids, MoveStarts(v, fid) PROVE Told'
  <2>1. move = "rest"
    BY <1>0, <1>8 DEF MoveStarts, TakesAllocation, OwnerInv
  <2>2. \A w \in Vids : Home(w)' = v2f[w]
    BY <1>8 DEF MoveStarts, Home, TypeOK
  <2>3. \A w \in Vids : Home(w)' = Home(w)
    BY <2>1, <2>2, AtHome
  <2>4. UNCHANGED <<bridge, tree, deleted>>
    BY <1>8 DEF MoveStarts
  <2>5. QED
    BY <2>3, <2>4 DEF Told
<1>9. CASE MoveTakesNode \/ MoveTakesTree
  BY <1>9, ToldSame DEF MoveTakesNode, MoveTakesTree
<1>10. CASE MoveNotifies
  <2> SUFFICES ASSUME NEW m \in Macs, NEW v \in Vids,
                      bridge'[<<m, v>>] # None, v \notin deleted
               PROVE  /\ v2f[v] \in Fids
                      /\ tree[<<v2f[v], m>>].ptid = bridge'[<<m, v>>]
    BY <1>0, <1>10 DEF MoveNotifies, Told, Home
  <2>1. /\ bridge[<<m, v>>] # None /\ bridge'[<<m, v>>] = bridge[<<m, v>>]
        /\ ~(v = moveVid /\ \E k \in Left : k[2] = m)
    BY <1>10 DEF MoveNotifies
  <2>2. v # moveVid
    <3>1. SUFFICES ASSUME v = moveVid PROVE FALSE
      OBVIOUS
    <3>2. <<moveOld, m>> \in From(moveFrom)
      BY <1>10, <2>1, <3>1 DEF MoveNotifies, ToldFrom
    <3>3. <<moveOld, m>> \in Left
      BY <3>2 DEF Left
    <3>4. QED
      BY <2>1, <3>1, <3>3
  <2>3. QED
    BY <2>1, <2>2 DEF Told, Home
<1>11. CASE BridgeCalls
  BY <1>11, ToldSame DEF BridgeCalls
<1>12. ASSUME NEW v \in Vids, VlanAddPtFails(v) PROVE Told'
  BY <1>12, ToldSame DEF VlanAddPtFails, InCall
<1>13. ASSUME NEW v \in Vids, NEW p \in Ports, VlanAddPt(v, p) PROVE Told'
  <2>1. move = "rest" /\ UNCHANGED <<bridge, tree, deleted, moveVid, moveOld>>
    BY <1>0, <1>13 DEF VlanAddPt, InCall, OwnerInv
  <2>2. \A w \in Vids : v2f[w] # None => v2f'[w] = v2f[w]
    <3>1. CASE UNCHANGED v2f
      BY <3>1
    <3>2. CASE v2f[v] = None /\ \E fid \in FreeFids : v2f' = [v2f EXCEPT ![v] = fid]
      BY <3>2 DEF TypeOK
    <3>3. QED
      BY <1>13, <3>1, <3>2 DEF VlanAddPt
  <2>3. \A w \in Vids : Home(w) = v2f[w] /\ Home(w)' = v2f'[w]
    BY <1>0, <2>1 DEF OwnerInv, Home
  <2>4. SUFFICES ASSUME NEW m \in Macs, NEW w \in Vids,
                        bridge[<<m, w>>] # None, w \notin deleted
                 PROVE  /\ Home(w)' \in Fids
                        /\ tree[<<Home(w)', m>>].ptid = bridge[<<m, w>>]
    BY <2>1 DEF Told
  <2>5. Home(w) \in Fids /\ tree[<<Home(w), m>>].ptid = bridge[<<m, w>>]
    BY <2>4 DEF Told
  <2>6. Home(w)' = Home(w)
    BY <1>0, <2>2, <2>3, <2>5
  <2>7. QED
    BY <2>5, <2>6
<1>14. ASSUME NEW v \in Vids, NEW p \in Ports, VlanDelPt(v, p) PROVE Told'
  <2>1. move = "rest" /\ UNCHANGED <<tree, moveVid, moveOld>>
    BY <1>0, <1>14 DEF VlanDelPt, InCall, OwnerInv
  <2>2. /\ deleted \subseteq deleted'
        /\ \A w \in Vids : w \notin deleted' => v2f'[w] = v2f[w]
    BY <1>14 DEF VlanDelPt, TypeOK
  <2>3. \A a \in Macs \X Vids : bridge'[a] # None => bridge'[a] = bridge[a]
    BY <1>14 DEF VlanDelPt
  <2>4. \A w \in Vids : Home(w) = v2f[w] /\ Home(w)' = v2f'[w]
    BY <1>0, <2>1 DEF OwnerInv, Home
  <2>5. QED
    BY <2>1, <2>2, <2>3, <2>4 DEF Told
<1>15. CASE UNCHANGED vars
  BY <1>15, ToldSame
<1>16. QED
  BY <1>1, <1>2, <1>3, <1>4, <1>5, <1>6, <1>7, <1>8, <1>9, <1>10, <1>11,
     <1>12, <1>13, <1>14, <1>15
     DEF Next, Work, Stop, Move, Switch, Bridge

-----------------------------------------------------------------------------
(* What the walk of a move will find.                                       *)

\* Steps that leave alone all that ToldFrom speaks of.
LEMMA ToldFromSame ==
  ASSUME ToldFrom,
         UNCHANGED <<bridge, tree, move, moveVid, moveOld, moveFrom, deleted>>
  PROVE  ToldFrom'
BY DEF ToldFrom, From, Entries

LEMMA ToldFromStep ==
  TypeOK /\ OwnerInv /\ Told /\ ToldFrom /\ [Next]_vars => ToldFrom'
<1> SUFFICES ASSUME TypeOK, OwnerInv, Told, ToldFrom, [Next]_vars
             PROVE  ToldFrom'
  OBVIOUS
<1> USE DEF vars, tables, locks, works, stops, moves
<1>0. None \notin {"work", "stop", "move"}
  BY AddrSyncAssumption
<1>1. ASSUME NEW k \in Keys, NEW p \in Ports, HwLearns(k, p) PROVE ToldFrom'
  BY <1>1, ToldFromSame DEF HwLearns
<1>2. ASSUME NEW k \in Keys, HwAges(k) PROVE ToldFrom'
  BY <1>2, ToldFromSame DEF HwAges
<1>3. CASE WorkStarts \/ ReadStarts \/ ReadNextFails \/ ReadEnds
           \/ WorkTakesAllocation \/ WorkTakesTree \/ Rearm
  BY <1>3, ToldFromSame DEF WorkStarts, ReadStarts, ReadNextFails, ReadEnds,
                            WorkTakesAllocation, WorkTakesTree, Rearm
<1>4. CASE ReadNext
  <2>1. \A k \in Entries : k \in Entries'
    BY <1>4, ReadNextKeeps DEF Entries
  <2>2. \A k \in From(moveFrom) : k \in From(moveFrom)'
    BY <1>4, <2>1 DEF From, ReadNext
  <2>3. QED
    BY <1>4, <2>2 DEF ToldFrom, ReadNext
<1>5. CASE CallNotifiers \/ StopWalks
  BY <1>5 DEF CallNotifiers, StopWalks, OwnerInv, ToldFrom
<1>6. CASE SyncEnable \/ SyncDisable \/ StopCancelled \/ StopTakesAllocation
  BY <1>6, ToldFromSame DEF SyncEnable, SyncDisable, StopCancelled,
                            StopTakesAllocation
<1>7. ASSUME NEW v \in Vids, NEW fid \in Fids, MoveStarts(v, fid)
      PROVE  ToldFrom'
  BY <1>7 DEF MoveStarts, ToldFrom
<1>8. CASE MoveTakesNode
  <2> SUFFICES ASSUME NEW m \in Macs,
                      bridge[<<m, moveVid>>] # None, moveVid \notin deleted
               PROVE  <<moveOld, m>> \in From(moveFrom)'
    BY <1>8 DEF MoveTakesNode, ToldFrom
  <2>1. moveVid \in Vids /\ moveOld \in Fids
    BY <1>8 DEF MoveTakesNode, OwnerInv
  <2>2. tree[<<moveOld, m>>].ptid # None
    BY <2>1 DEF Told, Home
  <2>3. <<moveOld, m>> \in Entries
    BY <2>1, <2>2 DEF Entries, Keys
  <2>4. \A l \in Entries : l = First(Entries) \/ Before(First(Entries), l)
    BY <2>3, FirstIs DEF Entries
  <2>5. First(Entries) # None
    <3>1. First(Entries) \in Entries
      BY <2>3, FirstIs DEF Entries
    <3>2. QED
      BY <3>1, AddrSyncAssumption DEF Entries, Keys
  <2>6. moveFrom' = First(Entries) /\ Entries' = Entries
    BY <1>8 DEF MoveTakesNode, Entries
  <2>7. QED
    BY <2>3, <2>4, <2>5, <2>6 DEF From
<1>9. CASE MoveTakesTree
  BY <1>9 DEF MoveTakesTree, ToldFrom, From, Entries
<1>10. CASE MoveNotifies
  BY <1>10 DEF MoveNotifies, ToldFrom
<1>11. CASE BridgeCalls
  BY <1>11, ToldFromSame DEF BridgeCalls
<1>12. CASE InCall
  BY <1>0, <1>12 DEF InCall, OwnerInv, ToldFrom
<1>13. CASE UNCHANGED vars
  BY <1>13, ToldFromSame
<1>14. Bridge => InCall
  BY DEF Bridge, VlanAddPtFails, VlanAddPt, VlanDelPt
<1>15. QED
  BY <1>1, <1>2, <1>3, <1>4, <1>5, <1>6, <1>7, <1>8, <1>9, <1>10, <1>11,
     <1>12, <1>13, <1>14
     DEF Next, Work, Stop, Move, Switch

-----------------------------------------------------------------------------
(* The nodes that are taken before the lock.                                *)

\* Entries appear while the table is read, and go only with v2f_lock held by the
\* work or by a stop.
LEMMA EntriesStay ==
  ASSUME TypeOK, OwnerInv, [Next]_vars, move # "rest"
  PROVE  Entries \subseteq Entries'
<1> USE DEF vars
<1>1. CASE UNCHANGED tree
  BY <1>1 DEF Entries
<1>2. CASE ReadNext
  BY <1>2, ReadNextKeeps DEF Entries
<1>3. ~CallNotifiers /\ ~StopWalks
  BY DEF CallNotifiers, StopWalks, OwnerInv
<1>4. QED
  BY <1>1, <1>2, <1>3
     DEF Next, Work, Stop, Move, Switch, Bridge, WorkStarts, ReadStarts, ReadEnds,
         ReadNextFails, WorkTakesAllocation, WorkTakesTree, Rearm, SyncEnable,
         SyncDisable, StopCancelled, StopTakesAllocation, MoveStarts, MoveTakesNode,
         MoveTakesTree, MoveNotifies, BridgeCalls, VlanAddPt, VlanAddPtFails, VlanDelPt,
         InCall, HwLearns, HwAges

\* Only a move itself takes a node and moves on.
LEMMA MoveOnly ==
  ASSUME [Next]_vars, move' \in {"tree", "notify"}
  PROVE  MoveTakesNode \/ (move \in {"tree", "notify"} /\ UNCHANGED moveFrom)
BY DEF Next, Work, Stop, Move, Switch, Bridge, WorkStarts, ReadStarts, ReadNext,
       ReadEnds, ReadNextFails, WorkTakesAllocation, WorkTakesTree, CallNotifiers,
       Rearm, SyncEnable, SyncDisable, StopCancelled, StopTakesAllocation, StopWalks,
       MoveStarts, MoveTakesTree, MoveNotifies, BridgeCalls, VlanAddPt,
       VlanAddPtFails, VlanDelPt, InCall, HwLearns, HwAges, vars, moves

LEMMA MoveInvStep == TypeOK /\ OwnerInv /\ MoveInv /\ [Next]_vars => MoveInv'
<1> SUFFICES ASSUME TypeOK, OwnerInv, MoveInv, [Next]_vars,
                    move' \in {"tree", "notify"}
             PROVE  moveFrom' \in Entries' \cup {None}
  BY DEF MoveInv
<1>1. CASE MoveTakesNode
  <2>1. moveFrom' = First(Entries) /\ Entries' = Entries
    BY <1>1 DEF MoveTakesNode, Entries
  <2>2. QED
    BY <2>1, FirstType DEF Entries
<1>2. CASE move \in {"tree", "notify"} /\ UNCHANGED moveFrom
  BY <1>2, EntriesStay DEF MoveInv
<1>3. QED
  BY <1>1, <1>2, MoveOnly

\* From the first node, a walk finds all entries.
LEMMA FromFirst == From(First(Entries)) = Entries
<1>1. CASE Entries = {}
  BY <1>1, FirstType DEF From, Entries
<1>2. CASE Entries # {}
  <2>1. /\ First(Entries) \in Entries
        /\ \A l \in Entries : l = First(Entries) \/ Before(First(Entries), l)
    BY <1>2, FirstIs DEF Entries
  <2>2. First(Entries) # None
    BY <2>1, AddrSyncAssumption DEF Entries, Keys
  <2>3. QED
    BY <2>1, <2>2 DEF From
<1>3. QED
  BY <1>1, <1>2

\* The steps that touch neither the tree nor what StopInv says of the work.
LEMMA StopInvSame ==
  ASSUME StopInv, UNCHANGED <<tree, armed, work, stop, stopFrom>>
  PROVE  StopInv'
BY DEF StopInv, Stopped, Entries

LEMMA StopInvStep ==
  ASSUME Overlap = FALSE, TypeOK, StopInv, [Next]_vars
  PROVE  StopInv'
<1> USE DEF vars, tables, locks, works, stops, moves
<1>1. CASE WorkStarts \/ ReadStarts \/ ReadNext \/ ReadNextFails \/ ReadEnds
           \/ WorkTakesAllocation \/ WorkTakesTree \/ CallNotifiers
  <2>1. stop = "rest" /\ work' # "rest" /\ UNCHANGED stops
    BY <1>1 DEF StopInv, WorkStarts, ReadStarts, ReadNext, ReadNextFails, ReadEnds,
       WorkTakesAllocation, WorkTakesTree, CallNotifiers
  <2>2. QED
    BY <2>1 DEF StopInv, Stopped
<1>2. CASE Rearm
  BY <1>2 DEF Rearm, StopInv, Stopped
<1>3. CASE SyncEnable
  BY <1>3 DEF SyncEnable, StopInv, Stopped, Entries
<1>4. CASE SyncDisable
  <2>1. /\ work' = "rest" /\ armed' = FALSE /\ stop' = "cancel"
        /\ stopFrom' = First(Entries) /\ Entries' = Entries
    BY <1>4 DEF SyncDisable, Entries
  <2>2. QED
    BY <2>1 DEF StopInv, Stopped
<1>5. CASE StopCancelled \/ StopTakesAllocation
  <2>1. stop # "rest" /\ stop' # "rest" /\ UNCHANGED <<armed, work, stopFrom, tree>>
    BY <1>5 DEF StopCancelled, StopTakesAllocation
  <2>2. QED
    BY <2>1 DEF StopInv, Stopped, Entries
<1>6. CASE StopWalks
  <2>1. stopFrom = First(Entries) /\ stop' = "rest"
    BY <1>6 DEF StopWalks, StopInv
  <2>2. stopFrom \in Entries \cup {None} /\ From(stopFrom) = Entries
    BY <2>1, FirstType, FromFirst DEF Entries
  <2>3. Erase(Entries)
    BY <1>6, <2>2 DEF StopWalks
  <2>4. Entries' = {}
    BY <2>3 DEF Erase, Entries, NoEntry
  <2>5. QED
    BY <2>1, <2>4 DEF StopInv
<1>7. ASSUME NEW v \in Vids, NEW fid \in Fids, MoveStarts(v, fid) PROVE StopInv'
  BY <1>7, StopInvSame DEF MoveStarts
<1>8. CASE Move \/ BridgeCalls
  BY <1>8, StopInvSame
     DEF Move, MoveTakesNode, MoveTakesTree, MoveNotifies, BridgeCalls
<1>9. CASE Bridge
  BY <1>9, StopInvSame DEF Bridge, VlanAddPt, VlanAddPtFails, VlanDelPt, InCall
<1>10. CASE Switch
  BY <1>10, StopInvSame DEF Switch, HwLearns, HwAges
<1>11. CASE UNCHANGED vars
  BY <1>11, StopInvSame
<1>12. QED
  BY <1>1, <1>2, <1>3, <1>4, <1>5, <1>6, <1>7, <1>8, <1>9, <1>10, <1>11
     DEF Next, Work, Stop

-----------------------------------------------------------------------------
(* Theorems.                                                                *)

LEMMA AddrInvAlways == Spec => []AddrInv
<1>1. Init => AddrInv
  BY InvInit
<1>2. AddrInv /\ [Next]_vars => AddrInv'
  BY TypeStep, OwnerStep, ToldStep, ToldFromStep, MoveInvStep DEF AddrInv
<1>3. QED
  BY <1>1, <1>2, PTL DEF Spec

\* The tables, trees and locks of edge_br_fdb.c and edge_br_vlan.c keep their
\* types, and each lock has the owner its holder believes.
THEOREM TypesAlways == Spec => [](TypeOK /\ OwnerInv)
<1>1. AddrInv => TypeOK /\ OwnerInv
  BY DEF AddrInv
<1>2. QED
  BY <1>1, AddrInvAlways, PTL

\* Whenever the VLANs' lock is free, what the bridge was told of a VLAN that
\* still has ports can be withdrawn: edgx_brfdb_update_vid2fid, which takes the
\* first node of the tree before the lock, leaves no dangling entry whatever
\* passes of edgx_dmac_sync_work come in between.
THEOREM NoDanglingAlways == Spec => []NoDangling
<1>1. AddrInv => NoDangling
  <2> SUFFICES ASSUME AddrInv, v2fLock = None,
                      NEW m \in Macs, NEW v \in Vids,
                      bridge[<<m, v>>] # None, v \notin deleted
               PROVE  /\ v2f[v] # None
                      /\ tree[<<v2f[v], m>>].ptid = bridge[<<m, v>>]
    BY DEF NoDangling
  <2>1. move = "rest"
    BY AddrSyncAssumption DEF AddrInv, OwnerInv
  <2>2. Home(v) = v2f[v]
    BY <2>1, AtHome DEF AddrInv
  <2>3. Home(v) \in Fids /\ tree[<<Home(v), m>>].ptid = bridge[<<m, v>>]
    BY DEF AddrInv, Told
  <2>4. None \notin Fids
    BY AddrSyncAssumption
  <2>5. QED
    BY <2>2, <2>3, <2>4
<1>2. QED
  BY <1>1, AddrInvAlways, PTL

\* The node from which _edgx_br_set_vid2fid walks was taken before dmac->lock, but is
\* still in the tree when the walk starts, with or without overlapping calls: nobody
\* frees nodes without v2f_lock.
THEOREM MoveNodeAlive ==
  Spec => [](move = "notify" => moveFrom \in Entries \cup {None})
<1>1. AddrInv => (move = "notify" => moveFrom \in Entries \cup {None})
  BY DEF AddrInv, MoveInv
<1>2. QED
  BY <1>1, AddrInvAlways, PTL

\* If the calls of the user and of the bridge do not overlap with the work and with
\* each other, no walk starts from a freed node, and edgx_dmac_sync_disable leaves
\* neither an entry in the tree nor an address of a VLAN with ports in the bridge,
\* whatever moves, ports and addresses came and went before.
THEOREM InvAlways == ASSUME Overlap = FALSE PROVE Spec => []Inv
<1>1. Init => StopInv
  <2>1. Init => Entries = {} /\ stop = "rest"
    BY DEF Init, Entries, NoEntry
  <2>2. QED
    BY <2>1 DEF StopInv
<1>2. TypeOK /\ StopInv /\ [Next]_vars => StopInv'
  BY StopInvStep
<1>3. ASSUME AddrInv, StopInv PROVE Inv
  <2>1. TypeOK
    BY <1>3 DEF AddrInv
  <2>2. NodesAlive
    <3>1. stop = "tree" => stopFrom \in Entries \cup {None}
      BY <1>3, FirstType DEF StopInv, Entries
    <3>2. QED
      BY <1>3, <3>1 DEF AddrInv, MoveInv, NodesAlive
  <2>3. StopWithdraws
    <3>1. SUFFICES ASSUME Stopped
                   PROVE  /\ Entries = {}
                          /\ \A a \in Macs \X Vids : bridge[a] = None \/ a[2] \in deleted
      BY DEF StopWithdraws
    <3>2. Entries = {}
      BY <1>3, <3>1 DEF StopInv
    <3>3. ASSUME NEW m \in Macs, NEW v \in Vids, bridge[<<m, v>>] # None, v \notin deleted
          PROVE  FALSE
      <4>1. Home(v) \in Fids /\ tree[<<Home(v), m>>].ptid # None
        BY <1>3, <3>3 DEF AddrInv, Told
      <4>2. <<Home(v), m>> \in Entries
        BY <4>1 DEF Entries, Keys
      <4>3. QED
        BY <3>2, <4>2
    <3>4. QED
      BY <3>2, <3>3
  <2>4. QED
    BY <2>1, <2>2, <2>3 DEF Inv
<1>4. AddrInv => TypeOK
  BY DEF AddrInv
<1>5. QED
  BY <1>1, <1>2, <1>3, <1>4, AddrInvAlways, PTL DEF Spec
=============================================================================
