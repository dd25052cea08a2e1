------------------------------ MODULE AddrSync ------------------------------
(***************************************************************************)
(* Dynamic addresses: the second half of edge_br_fdb.c, and the allocation   *)
(* of VLANs to filtering databases in edge_br_vlan.c.                        *)
(*                                                                          *)
(* The switch learns and ages addresses per FID.  Every minute a work item   *)
(* reads its table into a tree, then tells the Linux bridge what is new and  *)
(* what has gone, once for every VLAN of the FID.  Meanwhile the user moves  *)
(* VLANs to other FIDs and stops or starts the work, and the bridge adds     *)
(* ports to VLANs and removes them.                                          *)
(*                                                                          *)
(* Three locks: v2f_lock for the allocation, dmac->lock for the tree, rtnl   *)
(* for the bridge.  A step ends where a lock is taken or given back, or      *)
(* where a register of the switch is read.                                   *)
(***************************************************************************)
EXTENDS Integers, FiniteSets

CONSTANTS
  Macs, Fids, Vids, Ports,
  None,
  MaxVlans,     \* max_vlans
  StartFid,     \* the allocation at the start
  StartPorts,   \* and the ports of each VLAN
  Overlap,      \* bound: may the user's stop and the bridge's calls overlap
                \* with the work, or with others that hold a lock?
  MaxEvents     \* bound: what the environment does in a behaviour

ASSUME AddrSyncAssumption ==
  /\ Macs \subseteq Nat /\ Fids \subseteq Nat
  /\ None \notin Nat \cup Ports \cup Vids \cup (Fids \X Macs)
  /\ None \notin {"work", "stop", "move", "bridge"}
  /\ StartFid \in [Vids -> Fids \cup {None}]
  /\ StartPorts \in [Vids -> SUBSET Ports]
  /\ \A v \in Vids : StartFid[v] = None <=> StartPorts[v] = {}
  /\ Overlap \in BOOLEAN /\ MaxVlans \in Nat /\ MaxEvents \in Nat

Keys == Fids \X Macs

VARIABLES
  hw,              \* the switch: the port of each address it has learned
  v2f, ptvec,      \* struct _vlan: FID and ports
  tree, detector,  \* struct edgx_dmac
  bridge,          \* what the bridge was told: the port of each address
  v2fLock, dmacLock, rtnl,          \* the owner, or None
  armed, work, at,                  \* work_sync: timer, place, last key read
  stop, stopFrom,                   \* edgx_dmac_sync_disable and its `node`
  move, moveVid, moveOld, moveFrom, \* _edgx_br_set_vid2fid
  deleted,         \* history: VLANs that have lost their last port
  events           \* bound: what is left of MaxEvents

tables == <<v2f, ptvec>>
locks  == <<v2fLock, dmacLock, rtnl>>
works  == <<armed, work, at>>
stops  == <<stop, stopFrom>>
moves  == <<move, moveVid, moveOld, moveFrom>>
vars   == <<hw, tables, tree, detector, bridge, locks, works, stops, moves,
            deleted, events>>

NoEntry == [ptid |-> None, seen |-> FALSE]

TypeOK ==
  /\ hw \in [Keys -> Ports \cup {None}]
  /\ v2f \in [Vids -> Fids \cup {None}] /\ ptvec \in [Vids -> SUBSET Ports]
  /\ tree \in [Keys -> [ptid: Ports \cup {None}, seen: BOOLEAN]]
  /\ detector \in BOOLEAN
  /\ bridge \in [Macs \X Vids -> Ports \cup {None}]
  /\ v2fLock \in {None, "work", "stop", "move"}
  /\ dmacLock \in {None, "work", "stop", "move"}
  /\ rtnl \in {None, "bridge"}
  /\ armed \in BOOLEAN /\ at \in Keys \cup {None}
  /\ work \in {"rest", "started", "read", "allocation", "tree", "notify",
               "rearm"}
  /\ stop \in {"rest", "cancel", "allocation", "tree"}
  /\ move \in {"rest", "moved", "tree", "notify"}
  /\ stopFrom \in Keys \cup {None} /\ moveFrom \in Keys \cup {None}
  /\ moveVid \in Vids \cup {None} /\ moveOld \in Fids \cup {None}
  /\ deleted \subseteq Vids /\ events \in 0..MaxEvents

Init ==
  /\ hw = [k \in Keys |-> None]
  /\ v2f = StartFid /\ ptvec = StartPorts
  /\ tree = [k \in Keys |-> NoEntry] /\ detector = FALSE
  /\ bridge = [a \in Macs \X Vids |-> None]
  /\ v2fLock = None /\ dmacLock = None /\ rtnl = None
  /\ armed = FALSE /\ work = "rest" /\ at = None
  /\ stop = "rest" /\ stopFrom = None
  /\ move = "rest" /\ moveVid = None /\ moveOld = None /\ moveFrom = None
  /\ deleted = {} /\ events = MaxEvents

Event == events > 0 /\ events' = events - 1

\* mutex_lock(&brvlan->v2f_lock) by one that does not hold rtnl
TakesAllocation(who) ==
  /\ v2fLock = None /\ (Overlap \/ rtnl = None)
  /\ v2fLock' = who

-----------------------------------------------------------------------------
(* The tree, in the order of edgx_dmac_cmp.                                  *)

Before(k, l) == k[1] < l[1] \/ (k[1] = l[1] /\ k[2] < l[2])

Entries == {k \in Keys : tree[k].ptid # None}

\* rb_first
First(S) ==
  IF S = {} THEN None ELSE CHOOSE k \in S : \A l \in S : l = k \/ Before(k, l)

\* Mutant: the walk starts with the next node.
FromNext(first) ==
  IF first = None THEN {} ELSE {k \in Entries : Before(first, k)}

\* What a walk with rb_next from this node visits.
From(first) ==
  IF first = None THEN {} ELSE {k \in Entries : k = first \/ Before(first, k)}

\* The vlanlist of the FID.
VidsOf(fid) == {v \in Vids : v2f[v] = fid}

\* The notifications of a walk: `gone` is withdrawn and `there` announced,
\* each in the VLANs of its FID.
Notify(gone, there) ==
  bridge' = [a \in Macs \X Vids |->
     LET k == <<v2f[a[2]], a[1]>>
     IN IF k \in there THEN tree[k].ptid
        ELSE IF k \in gone THEN None ELSE bridge[a]]

\* The entries that edgx_dmac_erase frees.
Erase(S) == tree' = [k \in Keys |-> IF k \in S THEN NoEntry ELSE tree[k]]

-----------------------------------------------------------------------------
(* The switch, external.                                                     *)

\* A frame of a VLAN's port shows where a station is; it may have moved.
HwLearns(k, p) ==
  /\ Event
  /\ hw[k] # p /\ \E v \in VidsOf(k[1]) : p \in ptvec[v]
  /\ hw' = [hw EXCEPT ![k] = p]
  /\ UNCHANGED <<tables, tree, detector, bridge, locks, works, stops, moves,
                 deleted>>

HwAges(k) ==
  /\ Event
  /\ hw[k] # None
  /\ hw' = [hw EXCEPT ![k] = None]
  /\ UNCHANGED <<tables, tree, detector, bridge, locks, works, stops, moves,
                 deleted>>

-----------------------------------------------------------------------------
(* The work item, edgx_dmac_sync_work.                                       *)

WorkStarts ==
  /\ armed /\ work = "rest"
  /\ armed' = FALSE /\ work' = "started"
  /\ UNCHANGED <<hw, tables, tree, detector, bridge, locks, at, stops, moves,
                 deleted, events>>

ReadStarts ==
  /\ work = "started" /\ dmacLock = None
  /\ dmacLock' = "work" /\ detector' = ~detector
  /\ work' = "read" /\ at' = None
  /\ UNCHANGED <<hw, tables, tree, bridge, v2fLock, rtnl, armed, stops, moves,
                 deleted, events>>

\* The keys the switch has yet to return; it goes through its table in order.
ToRead == {k \in Keys : hw[k] # None /\ (at = None \/ Before(at, k))}

\* Mutant: an entry that exists is left alone.
SeenNewOnly(k, port, det) ==
  IF k \in Entries THEN tree[k] ELSE [ptid |-> port, seen |-> det]

\* An entry that exists keeps its port: nothing but edgx_dmac_create writes
\* ptid_new.
Seen(k, port, det) ==
  [ptid |-> IF k \in Entries THEN tree[k].ptid ELSE port, seen |-> det]

\* edgx_dmac_read_next
ReadNext ==
  /\ work = "read" /\ ToRead # {}
  /\ at' = First(ToRead)
  /\ tree' = [tree EXCEPT ![at'] = Seen(at', hw[at'], detector)]
  /\ UNCHANGED <<hw, tables, detector, bridge, locks, armed, work, stops,
                 moves, deleted, events>>

\* Without memory for a new entry, the pass goes on with the next address.
ReadNextFails ==
  /\ Event
  /\ work = "read" /\ ToRead # {} /\ First(ToRead) \notin Entries
  /\ at' = First(ToRead)
  /\ UNCHANGED <<hw, tables, tree, detector, bridge, locks, armed, work, stops,
                 moves, deleted>>

ReadEnds ==
  /\ work = "read" /\ ToRead = {}
  /\ dmacLock' = None /\ work' = "allocation" /\ at' = None
  /\ UNCHANGED <<hw, tables, tree, detector, bridge, v2fLock, rtnl, armed,
                 stops, moves, deleted, events>>

\* edgx_br_vlan_lock: no VLAN moves to another FID during the notifications.
WorkTakesAllocation ==
  /\ work = "allocation" /\ TakesAllocation("work")
  /\ work' = "tree"
  /\ UNCHANGED <<hw, tables, tree, detector, bridge, dmacLock, rtnl, armed, at,
                 stops, moves, deleted, events>>

WorkTakesTree ==
  /\ work = "tree" /\ dmacLock = None
  /\ dmacLock' = "work" /\ work' = "notify"
  /\ UNCHANGED <<hw, tables, tree, detector, bridge, v2fLock, rtnl, armed, at,
                 stops, moves, deleted, events>>

\* Only entries whose FID has VLANs are looked at.
Visited == {k \in Entries : VidsOf(k[1]) # {}}
Aged == {k \in Visited : tree[k].seen # detector}

\* edgx_dmac_call_notifiers, with rtnl, and the end of the work's locks.
CallNotifiers ==
  /\ work = "notify" /\ rtnl = None
  /\ Notify(Aged, Visited \ Aged) /\ Erase(Aged)
  /\ v2fLock' = None /\ dmacLock' = None /\ work' = "rearm"
  /\ UNCHANGED <<hw, tables, detector, rtnl, armed, at, stops, moves, deleted,
                 events>>

\* schedule_delayed_work, which has no effect while the work is cancelled.
Rearm ==
  /\ work = "rearm"
  /\ armed' = (stop # "cancel") /\ work' = "rest"
  /\ UNCHANGED <<hw, tables, tree, detector, bridge, locks, at, stops, moves,
                 deleted, events>>

-----------------------------------------------------------------------------
(* The attribute sync_enable.                                                *)

SyncEnable ==
  /\ Event
  /\ Overlap \/ stop = "rest"
  /\ armed' = (armed \/ stop # "cancel")
  /\ UNCHANGED <<hw, tables, tree, detector, bridge, locks, work, at, stops,
                 moves, deleted>>

\* edgx_dmac_sync_disable takes the first node, before any lock and before it
\* cancels the work.
SyncDisable ==
  /\ Event
  /\ stop = "rest" /\ (Overlap \/ work = "rest")
  /\ stopFrom' = First(Entries)
  /\ armed' = FALSE /\ stop' = "cancel"
  /\ UNCHANGED <<hw, tables, tree, detector, bridge, locks, work, at, moves,
                 deleted>>

\* cancel_delayed_work_sync returns.
StopCancelled ==
  /\ stop = "cancel" /\ work = "rest"
  /\ stop' = "allocation"
  /\ UNCHANGED <<hw, tables, tree, detector, bridge, locks, works, stopFrom,
                 moves, deleted, events>>

StopTakesAllocation ==
  /\ stop = "allocation" /\ TakesAllocation("stop")
  /\ stop' = "tree"
  /\ UNCHANGED <<hw, tables, tree, detector, bridge, dmacLock, rtnl, works,
                 stopFrom, moves, deleted, events>>

\* A walk from a node that was freed meanwhile may find anything.
StopWalks ==
  /\ stop = "tree" /\ dmacLock = None
  /\ \E S \in IF stopFrom \in Entries \cup {None} THEN {From(stopFrom)}
              ELSE SUBSET Entries :
       Notify(S, {}) /\ Erase(S)
  /\ v2fLock' = None /\ stop' = "rest" /\ stopFrom' = None
  /\ UNCHANGED <<hw, tables, detector, dmacLock, rtnl, works, moves, deleted,
                 events>>

-----------------------------------------------------------------------------
(* The attribute vid2fid.                                                    *)

\* _edgx_br_set_vid2fid: the VLAN joins the list of its new FID, in the switch
\* as well, and the addresses of the old one are flushed there.
MoveStarts(v, fid) ==
  /\ Event
  /\ move = "rest" /\ TakesAllocation("move")
  /\ v2f[v] \notin {None, fid}
  /\ move' = "moved"
  /\ moveVid' = v /\ moveOld' = v2f[v]
  /\ v2f' = [v2f EXCEPT ![v] = fid]
  /\ hw' = [k \in Keys |-> IF k[1] = v2f[v] THEN None ELSE hw[k]]
  /\ UNCHANGED <<ptvec, tree, detector, bridge, dmacLock, rtnl, works, stops,
                 moveFrom, deleted>>

\* edgx_brfdb_update_vid2fid takes the first node before it has the lock.
MoveTakesNode ==
  /\ move = "moved"
  /\ moveFrom' = First(Entries) /\ move' = "tree"
  /\ UNCHANGED <<hw, tables, tree, detector, bridge, locks, works, stops,
                 moveVid, moveOld, deleted, events>>

MoveTakesTree ==
  /\ move = "tree" /\ dmacLock = None
  /\ dmacLock' = "move" /\ move' = "notify"
  /\ UNCHANGED <<hw, tables, tree, detector, bridge, v2fLock, rtnl, works,
                 stops, moveVid, moveOld, moveFrom, deleted, events>>

\* Mutant: the entries of the new FID.
LeftOfNew == {k \in From(moveFrom) : k[1] = v2f[moveVid]}

\* The entries that are no longer of the VLAN.
Left == {k \in From(moveFrom) : k[1] = moveOld}

MoveNotifies ==
  /\ move = "notify" /\ rtnl = None
  /\ bridge' = [a \in Macs \X Vids |->
       IF a[2] = moveVid /\ \E k \in Left : k[2] = a[1] THEN None
       ELSE bridge[a]]
  /\ v2fLock' = None /\ dmacLock' = None
  /\ move' = "rest" /\ moveVid' = None /\ moveOld' = None /\ moveFrom' = None
  /\ UNCHANGED <<hw, tables, tree, detector, rtnl, works, stops, deleted,
                 events>>

-----------------------------------------------------------------------------
(* The calls of the bridge, which hold rtnl.                                 *)

BridgeCalls ==
  /\ Event
  /\ rtnl = None /\ (Overlap \/ v2fLock = None)
  /\ rtnl' = "bridge"
  /\ UNCHANGED <<hw, tables, tree, detector, bridge, v2fLock, dmacLock, works,
                 stops, moves, deleted>>

\* The call takes v2f_lock, and gives both back when it ends.
InCall ==
  /\ rtnl = "bridge" /\ v2fLock = None
  /\ rtnl' = None
  /\ UNCHANGED <<hw, tree, detector, v2fLock, dmacLock, works, stops, moves,
                 events>>

InUse == {v \in Vids : v2f[v] # None}
FreeFids == {fid \in Fids : VidsOf(fid) = {}}

\* edgx_br_vlan_add_pt: a new VLAN gets the first FID that has none.
VlanAddPt(v, p) ==
  /\ InCall
  /\ Cardinality(InUse) < MaxVlans
  /\ ptvec' = [ptvec EXCEPT ![v] = @ \cup {p}]
  /\ \/ v2f[v] # None /\ UNCHANGED v2f
     \/ /\ v2f[v] = None
        /\ \E fid \in FreeFids :
             /\ \A other \in FreeFids : fid <= other
             /\ v2f' = [v2f EXCEPT ![v] = fid]
  /\ UNCHANGED <<bridge, deleted>>

\* The table of VLANs is full, even if the VLAN is in it, or no FID is free.
VlanAddPtFails(v) ==
  /\ InCall
  /\ Cardinality(InUse) >= MaxVlans \/ (v2f[v] = None /\ FreeFids = {})
  /\ UNCHANGED <<tables, bridge, deleted>>

\* edgx_br_vlan_del_pt.  Before it calls the driver, the bridge forgets what it
\* knows of the port in this VLAN (external).
VlanDelPt(v, p) ==
  /\ InCall
  /\ p \in ptvec[v]
  /\ bridge' = [a \in Macs \X Vids |->
       IF a[2] = v /\ bridge[a] = p THEN None ELSE bridge[a]]
  /\ ptvec' = [ptvec EXCEPT ![v] = @ \ {p}]
  /\ IF ptvec'[v] = {}
     THEN v2f' = [v2f EXCEPT ![v] = None] /\ deleted' = deleted \cup {v}
     ELSE UNCHANGED <<v2f, deleted>>

-----------------------------------------------------------------------------
Work ==
  \/ WorkStarts \/ ReadStarts \/ ReadNext \/ ReadEnds
  \/ WorkTakesAllocation \/ WorkTakesTree \/ CallNotifiers \/ Rearm

Stop == StopCancelled \/ StopTakesAllocation \/ StopWalks

Move == MoveTakesNode \/ MoveTakesTree \/ MoveNotifies

Switch == \E k \in Keys : HwAges(k) \/ \E p \in Ports : HwLearns(k, p)

Bridge ==
  \E v \in Vids : \/ VlanAddPtFails(v)
                  \/ \E p \in Ports : VlanAddPt(v, p) \/ VlanDelPt(v, p)

Next ==
  \/ Work \/ ReadNextFails
  \/ SyncEnable \/ SyncDisable \/ Stop
  \/ (\E v \in Vids, fid \in Fids : MoveStarts(v, fid)) \/ Move
  \/ BridgeCalls \/ Bridge
  \/ Switch

\* The timer expires, the kernel's threads run, and its mutexes are handed to
\* those who wait.  Nothing is asked of the user, the bridge and the switch.
Fairness ==
  /\ WF_vars(Work) /\ WF_vars(Stop) /\ WF_vars(Move) /\ WF_vars(Bridge)
  /\ SF_vars(StopTakesAllocation)

Spec == Init /\ [][Next]_vars /\ Fairness

-----------------------------------------------------------------------------
(* Properties.                                                               *)

\* The FID a VLAN's addresses were announced from.
Home(v) == IF v = moveVid THEN moveOld ELSE v2f[v]

\* What the bridge was told of a VLAN belongs to an entry of the tree, on the
\* same port, and can thus be withdrawn ("to avoid dangling entries",
\* edgx_brfdb_update_vid2fid): whenever the VLANs' lock is free, whatever the
\* order of moves, passes and stops.  VLANs that have lost their last port are
\* excepted: see NoDanglingEver.
NoDangling ==
  v2fLock = None =>
    \A a \in Macs \X Vids :
      bridge[a] # None /\ a[2] \notin deleted =>
        /\ v2f[a[2]] # None
        /\ tree[<<v2f[a[2]], a[1]>>].ptid = bridge[a]

\* edgx_br_vlan_del_pt: what remains of a deleted VLAN "will eventually age
\* out".  Not so: the withdrawal is sent in the VLANs the FID still has.
NoDanglingEver ==
  v2fLock = None =>
    \A a \in Macs \X Vids : bridge[a] # None =>
      /\ v2f[a[2]] # None
      /\ tree[<<v2f[a[2]], a[1]>>].ptid = bridge[a]

\* After edgx_dmac_sync_disable, no address that the driver announced is left
\* in the bridge, and no entry in the tree.
Stopped == ~armed /\ work = "rest" /\ stop = "rest"
StopWithdraws ==
  Stopped => /\ Entries = {}
             /\ \A a \in Macs \X Vids : bridge[a] = None \/ a[2] \in deleted

\* edgx_dmac_sync_disable and edgx_brfdb_update_vid2fid walk from a node they
\* took before the lock: it must not have been freed.
NodesAlive ==
  /\ stop = "tree" /\ dmacLock = None => stopFrom \in Entries \cup {None}
  /\ move = "notify" => moveFrom \in Entries \cup {None}

\* The types, and what a stop must leave behind (edge_br_fdb.c:804-835).
Inv == TypeOK /\ NodesAlive /\ StopWithdraws

Syncing == armed \/ work # "rest"
Learned(m, v) == v2f[v] # None /\ hw[<<v2f[v], m>>] # None

\* As long as the work is enabled, an address the switch keeps is announced in
\* the end and stays, and one it does not keep is withdrawn for good, however
\* passes, moves and calls of the bridge interleave.
BridgeFollows ==
  \A m \in Macs, v \in Vids :
    /\ <>[](Syncing /\ Learned(m, v)) => <>[](bridge[<<m, v>>] # None)
    /\ <>[](Syncing /\ ~Learned(m, v)) =>
         <>[](bridge[<<m, v>>] = None \/ v \in deleted)

\* A station that has moved is announced at its new port.
PortFollows ==
  \A m \in Macs, v \in Vids, p \in Ports :
    <>[](Syncing /\ v2f[v] # None /\ hw[<<v2f[v], m>>] = p) =>
      <>[](bridge[<<m, v>>] = p)

\* No call of the bridge is blocked for ever.
BridgeCallsReturn == rtnl = "bridge" ~> rtnl = None
=============================================================================
