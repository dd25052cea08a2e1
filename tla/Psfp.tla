-------------------------------- MODULE Psfp --------------------------------
(***************************************************************************)
(* The stream filters of IEEE 802.1Qci: edge_psfp.c.                        *)
(*                                                                          *)
(* The user defines numbered filters, each for a stream handle and a PCP,    *)
(* either of which may be a wildcard.  The hardware has no wildcards: it has *)
(* one row per stream and PCP.  The driver keeps in each row the filter with *)
(* the smallest number among those that match, rewrites the rows a filter    *)
(* covers one after the other when that filter comes or goes, and moves the  *)
(* row's frame counter from the old filter to the new one.                   *)
(*                                                                          *)
(* Actors: the user, whose writes hold flt->lock, and the traffic, which     *)
(* does not stop while the rows are rewritten.  The rest of a filter's data  *)
(* (gate, frame size) is identified with its number; of the four hardware     *)
(* counters of a row, which are captured together, one is kept.              *)
(***************************************************************************)
EXTENDS Integers

CONSTANTS
  Handles,      \* stream handles, 0..max_str_cnt - 1
  Pcps,         \* 0..EDGX_BR_NUM_PCP - 1
  Filters,      \* filter numbers
  None,         \* no filter
  CounterMod,   \* the counters' 2^32
  FrameRows,    \* bound: the rows whose traffic is observed
  Blocking      \* the filters that are defined with blk_oversz_ena

WC == -1        \* PSFP_WC_STR_HDL, PSFP_WC_PCP

Rows     == Handles \X Pcps
Patterns == (Handles \cup {WC}) \X (Pcps \cup {WC})
Counts   == 0..(CounterMod - 1)

ASSUME PsfpAssumption ==
  /\ Handles \subseteq Nat /\ Handles # {}
  /\ Pcps \subseteq Nat /\ Pcps # {}
  /\ Filters \subseteq Nat
  /\ None \notin Filters
  /\ CounterMod \in Nat \ {0}
  /\ FrameRows \subseteq Rows
  /\ Blocking \subseteq Filters

VARIABLES
  tree,      \* flt_root: the filters that exist
  entry,     \* struct psfp_flt_entry: pattern and cnt_ref, also of the
             \* filter being deleted
  cur,       \* cur_sub: the filter the driver knows to be in each row
  row, blk,  \* the hardware's row: its filter; has it blocked the stream?
  cnt,       \* the hardware's frame counters
  trigger,   \* the filter whose rows are being rewritten, None: lock is free
  todo,      \* its rows that have not been handled
  written,   \* has the first of them been written to the hardware?
  seen       \* history: the frames a filter has to answer for

driver == <<tree, entry, cur>>
update == <<trigger, todo, written>>
vars   == <<driver, row, blk, cnt, update, seen>>

NoEntry == [pat |-> <<WC, WC>>, ref |-> 0]

TypeOK ==
  /\ tree \subseteq Filters
  /\ entry \in [Filters -> [pat: Patterns, ref: Counts]]
  /\ cur \in [Rows -> Filters \cup {None}]
  /\ row \in [Rows -> Filters \cup {None}]
  /\ blk \in [Rows -> BOOLEAN]
  /\ cnt \in [Rows -> Counts]
  /\ trigger \in Filters \cup {None}
  /\ todo \subseteq Rows
  /\ written \in BOOLEAN
  /\ seen \in [Filters -> Counts]

-----------------------------------------------------------------------------
(* Lookups.                                                                 *)

\* the smallest of a set of filters
Least(S) == IF S = {} THEN None ELSE CHOOSE f \in S : \A g \in S : f <= g

IsWild(f) == WC \in {entry[f].pat[1], entry[f].pat[2]}

\* edgx_psfp_flt_first_sub: the first filter of a stream entry
FirstSub(pat) == Least({f \in tree : entry[f].pat = pat})

\* edgx_psfp_flt_get_cand: the trigger stands for its pattern while it exists
Cand(pat) == IF trigger \in tree /\ entry[trigger].pat = pat
             THEN trigger ELSE FirstSub(pat)

\* Mutant: a wildcard of the stream is not looked up.
CandsNarrow(r) == {Cand(r), Cand(<<r[1], WC>>), Cand(<<WC, WC>>)}
\* the candidates of a row, and the one with the smallest number
Cands(r)  == {Cand(r), Cand(<<r[1], WC>>), Cand(<<WC, r[2]>>), Cand(<<WC, WC>>)}
EffSub(r) == Least(Cands(r) \ {None})

\* edgx_psfp_flt_for_each: the rows a pattern covers
Covered(pat) == {r \in Rows : /\ pat[1] \in {r[1], WC}
                              /\ pat[2] \in {r[2], WC}}

\* they are handled by stream, then by PCP
NextRow == CHOOSE r \in todo : \A s \in todo :
              r[1] < s[1] \/ (r[1] = s[1] /\ r[2] <= s[2])

-----------------------------------------------------------------------------
Init ==
  /\ tree = {} /\ entry = [f \in Filters |-> NoEntry]
  /\ cur = [r \in Rows |-> None] /\ row = [r \in Rows |-> None]
  /\ blk = [r \in Rows |-> FALSE]
  /\ \E c \in Counts : cnt = [r \in Rows |-> c]
  /\ trigger = None /\ todo = {} /\ written = FALSE
  /\ seen = [f \in Filters |-> 0]

\* edgx_psfp_flt_upd_hw: rewrite the rows of filter f
StartUpdate(f, pat) ==
  /\ trigger' = f
  /\ todo' = Covered(pat)
  /\ written' = FALSE

\* flt_tbl_write: define filter f
AddFilter(f, pat) ==
  /\ trigger = None
  /\ f \notin tree
  /\ tree' = tree \cup {f}
  /\ entry' = [entry EXCEPT ![f] = [pat |-> pat, ref |-> 0]]
  /\ seen' = [seen EXCEPT ![f] = 0]
  /\ IF \A g \in tree : entry[g].pat = pat => f < g
     THEN StartUpdate(f, pat)
     ELSE UNCHANGED update
  /\ UNCHANGED <<cur, row, blk, cnt>>

\* flt_del_store: delete filter f; its entry is freed when its rows are done
DeleteFilter(f) ==
  /\ trigger = None
  /\ f \in tree
  /\ tree' = tree \ {f}
  /\ IF f = FirstSub(entry[f].pat)
     THEN /\ StartUpdate(f, entry[f].pat)
          /\ UNCHANGED entry
     ELSE /\ entry' = [entry EXCEPT ![f] = NoEntry]
          /\ UNCHANGED update
  /\ UNCHANGED <<cur, row, blk, cnt, seen>>

\* _edgx_psfp_flt_write_hw: write the effective filter into the next row.
\* blk_oversz is written as the user gave it, which is cleared.
WriteRow ==
  /\ trigger # None /\ ~written
  /\ row' = [row EXCEPT ![NextRow] = EffSub(NextRow)]
  /\ blk' = [blk EXCEPT ![NextRow] = FALSE]
  /\ written' = TRUE
  /\ UNCHANGED <<driver, cnt, trigger, todo, seen>>

\* Mutant: only the filter that gets the row takes the counter over.
MovedRefsIn(r, eff) ==
  IF eff = cur[r] THEN {} ELSE {f \in {eff} \ {None} : ~IsWild(f)}
\* edgx_psfp_flt_upd_cnt: the filters whose reference moves with the row.  A
\* wildcard filter does not count, a deleted one need not.
MovedRefs(r, eff) ==
  IF eff = cur[r] THEN {}
  ELSE {f \in {eff} \ {None} : ~IsWild(f)} \cup
       {f \in {cur[r]} \ {None} : trigger = eff /\ ~IsWild(f)}

\* Mutant: the difference is not reduced to the counter's width.
MoveRefWide(ref, now) == now - ref
\* edgx_psfp_flt_update_cnt_ref
MoveRef(ref, now) == (now - ref) % CounterMod

\* edgx_psfp_flt_upd_hw_iter, the part after the hardware has been written;
\* after the last row a deleted filter is freed and the lock released
AccountRow ==
  /\ written
  /\ LET r    == NextRow
         eff  == EffSub(r)
         last == todo = {r}
     IN /\ entry' = [f \in Filters |->
                       IF last /\ f = trigger /\ f \notin tree THEN NoEntry
                       ELSE IF f \in MovedRefs(r, eff)
                       THEN [entry[f] EXCEPT !.ref = MoveRef(@, cnt[r])]
                       ELSE entry[f]]
        /\ cur' = [cur EXCEPT ![r] = eff]
        /\ todo' = todo \ {r}
        /\ trigger' = IF last THEN None ELSE trigger
  /\ written' = FALSE
  /\ UNCHANGED <<tree, row, blk, cnt, seen>>

\* A frame of a stream: the row counts it, on behalf of the filter the driver
\* has there.
Frame(r) ==
  /\ cnt' = [cnt EXCEPT ![r] = (@ + 1) % CounterMod]
  /\ seen' = [f \in Filters |->
                IF f = cur[r] /\ entry[f].pat = r
                THEN (seen[f] + 1) % CounterMod ELSE seen[f]]
  /\ UNCHANGED <<driver, row, blk, update>>

\* An oversized frame: the row blocks the stream if its filter says so.
OversizedFrame(r) ==
  /\ row[r] \in Blocking
  /\ ~blk[r]
  /\ blk' = [blk EXCEPT ![r] = TRUE]
  /\ UNCHANGED <<driver, row, cnt, update, seen>>

Next ==
  \/ \E f \in Filters, pat \in Patterns : AddFilter(f, pat)
  \/ \E f \in Filters : DeleteFilter(f)
  \/ WriteRow
  \/ AccountRow
  \/ \E r \in FrameRows : Frame(r) \/ OversizedFrame(r)

Spec == Init /\ [][Next]_vars

-----------------------------------------------------------------------------
(* Properties.                                                              *)

\* The filter a row should have: the one with the smallest number among all
\* those whose pattern covers it.
Matching(r)  == {f \in tree : r \in Covered(entry[f].pat)}
Effective(r) == Least(Matching(r))

\* Every row that is not waiting to be rewritten holds the filter it should,
\* in the hardware and in cur_sub, however filters with overlapping wildcards
\* came and went; and a row that is waiting still holds its former filter, or
\* already its new one, never that of a third pattern.  In particular no
\* pointer to a freed filter is left in cur_sub.  (Lines 770-911 update only
\* the rows of the filter that changed, from four candidates.)
RowsFollow ==
  /\ \A r \in Rows \ todo : cur[r] = Effective(r) /\ row[r] = cur[r]
  /\ \A r \in todo : row[r] \in {cur[r], Effective(r)}
  /\ \A r \in Rows : cur[r] \in tree \cup {None, trigger}

\* edgx_psfp_flt_get_cnt: what the user reads as the counter of a filter
UserCount(f) ==
  IF IsWild(f) THEN 0
  ELSE IF cur[entry[f].pat] # f THEN entry[f].ref
  ELSE (cnt[entry[f].pat] - entry[f].ref) % CounterMod

\* The counter of a filter for one stream and PCP is the number of frames it
\* had to answer for since it was defined, modulo the counter's width, however
\* often it lost its row to another filter and got it back: cnt_ref is an
\* offset while the filter has its row and a sum while it does not
\* (edgx_psfp_flt_upd_cnt, edgx_psfp_flt_get_cnt).
CountersContinue == \A f \in tree : ~IsWild(f) => UserCount(f) = seen[f]

\* flt_tbl_read: what the user reads as "stream blocked due to oversize"
BlockedStatus(f) == IF IsWild(f) THEN FALSE ELSE blk[entry[f].pat]

\* A filter is reported to block its stream only if it does: does not hold,
\* flt_tbl_read takes the bit from the row, which may hold another filter.
BlockedIsOwn ==
  \A f \in tree : trigger = None /\ BlockedStatus(f) => cur[entry[f].pat] = f

\* A stream that was blocked stays so while its filter stays in the row: does
\* not hold, every update of the row writes the bit the user gave (line 586).
BlockStands ==
  [][\A r \in Rows : blk[r] /\ row'[r] = row[r] => blk'[r]]_vars
=============================================================================
