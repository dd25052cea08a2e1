-------------------------------- MODULE Frer --------------------------------
(***************************************************************************)
(* Frame replication and elimination, IEEE 802.1CB: edge_frer.c.            *)
(*                                                                          *)
(* The user builds sequence generation functions (a direction and a list of  *)
(* streams), sequence encodings (per port: active or passive, and streams)   *)
(* and sequence recovery functions (parameters, ports and streams) piece by  *)
(* piece, in any order.  The driver writes a function to the hardware's       *)
(* stream table once it is complete, and afterwards what changes.            *)
(*                                                                          *)
(* Every call holds f->lock.  The three kinds of function have columns of     *)
(* the stream table of their own and share no state: each behaviour deals     *)
(* with one of them, `area`.                                                 *)
(***************************************************************************)
EXTENDS Integers, Sequences, FiniteSets, SequencesExt

CONSTANTS
  Streams,     \* stream handles
  Fns,         \* function indices
  Ports,
  NoFn,        \* the row of the stream table is not enabled
  Values,      \* values of a recovery function's parameters
  SharedIn,    \* bound: where may the user list a stream in two functions?
  FreedKept    \* does freed memory keep its contents for a while?

Unset == 0     \* a parameter that has not been given

ASSUME FrerAssumption ==
  /\ NoFn \notin Fns
  /\ Values \subseteq Nat \ {Unset}
  /\ SharedIn \subseteq {"gen", "rec"}
  /\ FreedKept \in BOOLEAN

VARIABLES
  area,                 \* bound: what this behaviour's user configures
  gen, genTbl,          \* sg_root; STREAM_TABLE2
  encActive, encList,   \* se_ports
  encMask,              \* se_root
  modify, output,       \* STREAM_TABLE0 and STREAM_TABLE1
  rec, recTbl, recCfg   \* sr_root; STREAM_TABLE3; the SeqRecTable

genVars == <<gen, genTbl>>
encVars == <<encActive, encList, encMask, modify, output>>
recVars == <<rec, recTbl, recCfg>>
vars    == <<area, genVars, encVars, recVars>>

Modes == {"passive", "active", "unknown", "undefined"}

NoGen == [there |-> FALSE, dir |-> FALSE, list |-> <<>>]
NoRec == [there |-> FALSE, val |-> Unset, ports |-> {}, list |-> {},
          applied |-> FALSE]

TypeOK ==
  /\ area \in {"gen", "enc", "rec"}
  /\ gen \in [Fns -> [there: BOOLEAN, dir: BOOLEAN, list: Seq(Streams)]]
  /\ genTbl \in [Streams -> Fns \cup {NoFn}]
  /\ encActive \in [Ports -> Modes]
  /\ encList \in [Ports -> SUBSET Streams]
  /\ encMask \in [Streams -> SUBSET Ports]
  /\ modify \in [Streams -> SUBSET Ports]
  /\ output \in [Streams -> SUBSET Ports]
  /\ rec \in [Fns -> [there: BOOLEAN, val: Values \cup {Unset},
                      ports: SUBSET Ports, list: SUBSET Streams,
                      applied: BOOLEAN]]
  /\ recTbl \in [Streams -> Fns \cup {NoFn}]
  /\ recCfg \in [Fns -> Values \cup {Unset}]

Init ==
  /\ area \in {"gen", "enc", "rec"}
  /\ gen = [f \in Fns |-> NoGen] /\ genTbl = [s \in Streams |-> NoFn]
  /\ encActive = [p \in Ports |-> "undefined"]
  /\ encList = [p \in Ports |-> {}] /\ encMask = [s \in Streams |-> {}]
  /\ modify = [s \in Streams |-> {}] /\ output = [s \in Streams |-> {}]
  /\ rec = [f \in Fns |-> NoRec]
  /\ recTbl = [s \in Streams |-> NoFn] /\ recCfg = [f \in Fns |-> Unset]

-----------------------------------------------------------------------------
(* Sequence generation.                                                     *)

\* edgx_frer_seqgen_apply: enable the function for the streams of its list up
\* to the first that belongs to another function.
Foreign(list, fn) == {i \in DOMAIN list : genTbl[list[i]] \notin {NoFn, fn}}
ApplyFails(g, fn) == g.dir /\ Foreign(g.list, fn) # {}
Applied(g, fn) ==
  LET reached == {i \in DOMAIN g.list : \A j \in Foreign(g.list, fn) : i < j}
  IN [s \in Streams |-> IF g.dir /\ \E i \in reached : g.list[i] = s
                        THEN fn ELSE genTbl[s]]

\* edgx_frer_seqgen_create
GenCreate(fn) ==
  /\ ~gen[fn].there
  /\ gen' = [gen EXCEPT ![fn] = [NoGen EXCEPT !.there = TRUE]]
  /\ UNCHANGED genTbl

\* Mutant: a stream that cannot be numbered stays on the list.
GenAddStrKeeps(str, fn) ==
  /\ gen[fn].there
  /\ "gen" \in SharedIn
       \/ \A f \in Fns \ {fn} : \A i \in DOMAIN gen[f].list : gen[f].list[i] # str
  /\ LET known == \E i \in DOMAIN gen[fn].list : gen[fn].list[i] = str
         g     == IF known THEN gen[fn]
                  ELSE [gen[fn] EXCEPT !.list = Append(@, str)]
     IN gen' = [gen EXCEPT ![fn] = g] /\ genTbl' = Applied(g, fn)
\* edgx_frer_seqgen_addstr: if it cannot be applied the stream is taken off
\* the list again, also one that was on the list before
GenAddStr(str, fn) ==
  /\ gen[fn].there
  /\ "gen" \in SharedIn
       \/ \A f \in Fns \ {fn} : \A i \in DOMAIN gen[f].list : gen[f].list[i] # str
  /\ LET known == \E i \in DOMAIN gen[fn].list : gen[fn].list[i] = str
         g     == IF known THEN gen[fn]
                  ELSE [gen[fn] EXCEPT !.list = Append(@, str)]
     IN /\ gen' = [gen EXCEPT ![fn] =
                     IF ApplyFails(g, fn)
                     THEN [g EXCEPT !.list = RemoveFirst(@, str)] ELSE g]
        /\ genTbl' = Applied(g, fn)

\* edgx_frer_seqgen_adddir
GenAddDir(fn) ==
  /\ gen[fn].there
  /\ LET g == [gen[fn] EXCEPT !.dir = TRUE]
     IN /\ gen' = [gen EXCEPT ![fn].dir = ~ApplyFails(g, fn)]
        /\ genTbl' = Applied(g, fn)

\* _seqgen_list_del_entry: the function is looked up in the stream table
GenDelStr(str) ==
  LET fn == genTbl[str] IN
  /\ fn # NoFn /\ gen[fn].there
  /\ \E i \in DOMAIN gen[fn].list : gen[fn].list[i] = str
  /\ gen' = [gen EXCEPT ![fn].list = RemoveFirst(@, str)]
  /\ genTbl' = [genTbl EXCEPT ![str] = NoFn]

\* _seqgen_rbt_del_entry: the stream's handle is read from the list element after that was
\* freed, and may be another stream's or nobody's; its row is disabled whoever enabled it
GenDelFn(fn) ==
  /\ gen[fn].there
  /\ \E read \in IF FreedKept THEN {gen[fn].list}
                ELSE [DOMAIN gen[fn].list -> Streams \cup {NoFn}] :
       genTbl' = [s \in Streams |-> IF \E i \in DOMAIN gen[fn].list : read[i] = s
                                   THEN NoFn ELSE genTbl[s]]
  /\ gen' = [gen EXCEPT ![fn] = NoGen]

-----------------------------------------------------------------------------
(* Sequence encoding.                                                       *)

\* edgx_frer_seqenc_apply, with the port's mode and list of streams
EncApply(p, mode, list) ==
  LET to == IF mode \in {"active", "passive"} THEN list ELSE {}
  IN /\ modify' = [s \in Streams |-> IF s \in to THEN modify[s] \cup {p}
                                     ELSE modify[s]]
     /\ output' = [s \in Streams |-> IF s \notin to THEN output[s]
                                     ELSE IF mode = "active"
                                     THEN output[s] \cup {p}
                                     ELSE output[s] \ {p}]

\* Mutant: all of a stream's bits go, whatever ports it still has.
EncApplyDelAll(p, strs) ==
  /\ modify' = [s \in Streams |-> IF s \in strs THEN {} ELSE modify[s]]
  /\ output' = [s \in Streams |-> IF s \in strs THEN {} ELSE output[s]]
\* edgx_frer_seqenc_applydel: all of a stream's bits go with its last port
EncApplyDel(p, strs) ==
  /\ modify' = [s \in Streams |-> IF s \notin strs THEN modify[s]
                                  ELSE IF encMask'[s] = {} THEN {}
                                  ELSE modify[s] \ {p}]
  /\ output' = [s \in Streams |-> IF s \notin strs THEN output[s]
                                  ELSE IF encMask'[s] = {} THEN {}
                                  ELSE output[s] \ {p}]

\* edgx_frer_seqenc_create_entry: does not look whether there is one already
EncCreate(p) ==
  /\ encActive' = [encActive EXCEPT ![p] = "unknown"]
  /\ UNCHANGED <<encList, encMask, modify, output>>

\* edgx_frer_seqenc_add_str
EncAddStr(str, p) ==
  /\ encActive[p] # "undefined"
  /\ encList' = [encList EXCEPT ![p] = @ \cup {str}]
  /\ encMask' = [encMask EXCEPT ![str] = @ \cup {p}]
  /\ EncApply(p, encActive[p], encList'[p])
  /\ UNCHANGED encActive

\* edgx_frer_seqenc_set_active
EncSetActive(p, mode) ==
  /\ encActive[p] # "undefined"
  /\ encActive' = [encActive EXCEPT ![p] = mode]
  /\ EncApply(p, mode, encList[p])
  /\ UNCHANGED <<encList, encMask>>

\* edgx_frer_seqenc_delportfn; a stream's mask may be read from a freed node, but then
\* the stream has no bit besides this port's: both ways to clear its row do the same
EncDelPort(p) ==
  /\ encActive[p] # "undefined"
  /\ encMask' = [s \in Streams |-> encMask[s] \ {p}]
  /\ EncApplyDel(p, encList[p])
  /\ encList' = [encList EXCEPT ![p] = {}]
  /\ encActive' = [encActive EXCEPT ![p] = "undefined"]

\* edgx_frer_seqenc_delstr: the entry goes with its last stream, and also when
\* it has none and the call fails
EncDelStr(str, p) ==
  /\ encList' = [encList EXCEPT ![p] = @ \ {str}]
  /\ encActive' = [encActive EXCEPT ![p] = IF encList'[p] = {}
                                           THEN "undefined" ELSE @]
  /\ encMask' = IF str \in encList[p] THEN [encMask EXCEPT ![str] = @ \ {p}]
                ELSE encMask
  /\ EncApplyDel(p, encList[p] \cap {str})

-----------------------------------------------------------------------------
(* Sequence recovery.                                                       *)

\* _seqrec_all_set; the parameters are set together
AllSet(r) == r.val # Unset /\ r.ports # {} /\ r.list # {}

\* _seqrec_write_tbl_err: does the row belong to another function?
Taken(str, fn) == recTbl[str] \notin {NoFn, fn}

\* Mutant: a deletion, too, waits for all parameters.
RecApplyComplete(fn, r, strs, to) ==
  /\ recTbl' = [s \in Streams |->
                  IF AllSet(r) /\ s \in strs /\ ~Taken(s, fn)
                  THEN to ELSE recTbl[s]]
  /\ recCfg' = IF AllSet(r) THEN [recCfg EXCEPT ![fn] = r.val] ELSE recCfg
  /\ rec' = [rec EXCEPT ![fn] = [r EXCEPT !.applied = @ \/ AllSet(r)]]
\* edgx_frer_seqrec_apply for function fn, which is now r.  `to` is what an
\* enabled row is set to: fn, or NoFn to delete.  strs is {str}, or {} for
\* FRER_U16_INVALID, when the first loop asks for the owner of row 0xFFFF,
\* which tells nothing about the streams it writes.
RecApply(fn, r, strs, to) ==
  LET run   == AllSet(r) \/ to = NoFn
      first == run /\ ~r.applied
  IN /\ \E err \in IF first /\ strs = {} THEN BOOLEAN
                   ELSE {\E s \in strs : Taken(s, fn)} :
          LET rows == IF ~run \/ err THEN {}
                      ELSE IF first THEN r.list ELSE strs
          IN recTbl' = [s \in Streams |-> IF s \in rows THEN to ELSE recTbl[s]]
     /\ recCfg' = IF first \/ (run /\ strs = {})
                  THEN [recCfg EXCEPT ![fn] = r.val] ELSE recCfg
     /\ rec' = [rec EXCEPT ![fn] = [r EXCEPT !.applied = @ \/ run]]

\* edgx_frer_seqrec_create
RecCreate(fn) ==
  /\ ~rec[fn].there
  /\ rec' = [rec EXCEPT ![fn] = [NoRec EXCEPT !.there = TRUE]]
  /\ UNCHANGED <<recTbl, recCfg>>

\* edgx_frer_seqrec_set_alg, _set_rrst, _set_histl, _set_rbt_bool, _adddir
RecSet(fn, v) ==
  /\ rec[fn].there
  /\ RecApply(fn, [rec[fn] EXCEPT !.val = v], {}, fn)

\* edgx_frer_seqrec_addport, edgx_frer_seqrec_delport
RecAddPort(fn, p) ==
  /\ rec[fn].there
  /\ RecApply(fn, [rec[fn] EXCEPT !.ports = @ \cup {p}], {}, fn)

RecDelPort(fn, p) ==
  /\ rec[fn].there
  /\ rec' = [rec EXCEPT ![fn].ports = @ \ {p}]
  /\ UNCHANGED <<recTbl, recCfg>>

\* edgx_frer_seqrec_addstr
RecAddStr(fn, str) ==
  /\ rec[fn].there
  /\ "rec" \in SharedIn \/ \A f \in Fns \ {fn} : str \notin rec[f].list
  /\ RecApply(fn, [rec[fn] EXCEPT !.list = @ \cup {str}], {str}, fn)

\* edgx_frer_seqrec_delstr
RecDelStr(fn, str) ==
  /\ rec[fn].there /\ str \in rec[fn].list
  /\ RecApply(fn, [rec[fn] EXCEPT !.list = @ \ {str}], {str}, NoFn)

\* edgx_frer_seqrec_delfn: applies the deletion for each stream; the first
\* call for a function that was never applied covers the whole list
RecDelFn(fn) ==
  /\ rec[fn].there
  /\ LET list == rec[fn].list IN
     \E one \in IF list = {} THEN {{}} ELSE {{s} : s \in list} :
       LET all  == ~rec[fn].applied /\ \A s \in one : ~Taken(s, fn)
       IN recTbl' = [s \in Streams |->
                       IF s \in list /\ (all \/ ~Taken(s, fn))
                       THEN NoFn ELSE recTbl[s]]
  /\ recCfg' = IF ~rec[fn].applied /\ rec[fn].list # {}
               THEN [recCfg EXCEPT ![fn] = rec[fn].val] ELSE recCfg
  /\ rec' = [rec EXCEPT ![fn] = NoRec]

-----------------------------------------------------------------------------
GenNext ==
  \/ \E fn \in Fns : GenCreate(fn) \/ GenAddDir(fn) \/ GenDelFn(fn)
  \/ \E fn \in Fns, str \in Streams : GenAddStr(str, fn)
  \/ \E str \in Streams : GenDelStr(str)

EncNext ==
  \/ \E p \in Ports : EncCreate(p) \/ EncDelPort(p)
  \/ \E p \in Ports, mode \in {"active", "passive"} : EncSetActive(p, mode)
  \/ \E p \in Ports, str \in Streams : EncAddStr(str, p) \/ EncDelStr(str, p)

RecNext ==
  \/ \E fn \in Fns : RecCreate(fn) \/ RecDelFn(fn)
  \/ \E fn \in Fns, v \in Values : RecSet(fn, v)
  \/ \E fn \in Fns, p \in Ports : RecAddPort(fn, p) \/ RecDelPort(fn, p)
  \/ \E fn \in Fns, str \in Streams : RecAddStr(fn, str) \/ RecDelStr(fn, str)

Next ==
  \/ area = "gen" /\ GenNext /\ UNCHANGED <<area, encVars, recVars>>
  \/ area = "enc" /\ EncNext /\ UNCHANGED <<area, genVars, recVars>>
  \/ area = "rec" /\ RecNext /\ UNCHANGED <<area, genVars, encVars>>

Spec == Init /\ [][Next]_vars

-----------------------------------------------------------------------------
(* Properties.                                                              *)

Lists(fn, str) == gen[fn].there /\ \E i \in DOMAIN gen[fn].list :
                                      gen[fn].list[i] = str

\* The hardware numbers a stream for a generation function exactly if that function lists
\* it, once its direction is known.
Agree(str, fn) ==
  /\ genTbl[str] = fn => Lists(fn, str)
  /\ Lists(fn, str) /\ gen[fn].dir => genTbl[str] = fn

\* For all of them: does not hold if users list a stream in two functions, nor if a freed
\* handle is read.
GenFollows == \A str \in Streams, fn \in Fns : Agree(str, fn)

\* A function is deleted that lists the stream as well, or whose freed handles are
\* somebody else's.
DeletedBeside(str, fn) ==
  \E f \in Fns :
    /\ gen[f].there /\ ~gen'[f].there /\ gen[f].list # <<>>
    /\ FreedKept => f # fn /\ Lists(f, str)

\* A stream is added again to a function of whose streams another has taken one over.
AddedAgain(str, fn) ==
  /\ Lists(fn, str) /\ gen'[fn].there /\ ~Lists(fn, str)'
  /\ \E s \in Streams \ {str} : Lists(fn, s) /\ genTbl[s] \notin {NoFn, fn}

\* Table and lists never part about a stream but in these two cases, even if users list
\* streams in two functions: not when a call fails at a later stream of a list
\* and takes back what it did with the list or the direction, but not the rows before
\* (edgx_frer_seqgen_apply and the roll backs of its callers, edge_frer.c:586-664).
GenPartsOnly ==
  [][\A str \in Streams, fn \in Fns :
       Agree(str, fn) /\ ~Agree(str, fn)' =>
         DeletedBeside(str, fn) \/ AddedAgain(str, fn)]_vars

\* The three places a stream's encoding is kept in agree: the port's list, the
\* stream's port mask and the two columns of the hardware, which tag a stream
\* on the ports that list it, in the mode of the port (lines 794-1033; the last
\* port of a stream clears all of its row, which is why the mask must be right).
EncFollows ==
  \A str \in Streams, p \in Ports :
    /\ p \in encMask[str] <=> str \in encList[p]
    /\ p \in modify[str] \cup output[str] => str \in encList[p]
    /\ str \in encList[p] /\ encActive[p] \in {"active", "passive"} =>
         p \in modify[str] /\ (p \in output[str] <=> encActive[p] = "active")
    /\ encActive[p] = "undefined" => encList[p] = {}

\* No stream is eliminated on behalf of a recovery function that has been
\* deleted, or that does not list it, even if users list a stream twice: a
\* deletion never leaves its row enabled (edgx_frer_seqrec_apply with del).
RecSound ==
  \A str \in Streams :
    recTbl[str] # NoFn => /\ rec[recTbl[str]].there
                          /\ str \in rec[recTbl[str]].list

\* The types, and RecSound.
Inv == TypeOK /\ RecSound

\* "First time when all parameters are set, all streams from stream list are
\* written to the IP" (edge_frer.c:1283): does not hold.
RecActivated ==
  \A fn \in Fns : rec[fn].there /\ AllSet(rec[fn]) =>
     \A str \in rec[fn].list : recTbl[str] = fn

\* "Configuration can be overwritten at any time all parameters for SeqRecFn
\* are set" (edge_frer.c:1260): an enabled function has the user's parameters.
\* Does not hold: those changed while no stream is listed are not written.
RecConfigured ==
  \A str \in Streams : recTbl[str] # NoFn =>
     recCfg[recTbl[str]] = rec[recTbl[str]].val
=============================================================================
