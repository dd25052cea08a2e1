------------------------------ MODULE PsfpProofs ------------------------------
(***************************************************************************)
(* Theorems about Psfp, for any filters, streams, PCPs and counter width.   *)
(*                                                                          *)
(* A row is found up to date without looking at all filters because the      *)
(* four candidates are the smallest of the only four patterns that cover it   *)
(* (EffSubIsEffective).  While rows are rewritten, those that wait still have *)
(* what they had before the filter came or went (UpdateInv), which is why      *)
(* the counters can be moved by comparing cur_sub with the trigger.            *)
(***************************************************************************)
EXTENDS Psfp, WellFoundedInduction, TLAPS

\* The filter row r had before the update that is going on.
Before(r) == Least(IF trigger \in tree THEN Matching(r) \ {trigger}
                                       ELSE Matching(r) \cup {trigger})

\* What holds of the update that is going on.
UpdateInv ==
  /\ trigger = None => todo = {} /\ ~written
  /\ trigger # None => todo # {} /\ todo \subseteq Covered(entry[trigger].pat)
  /\ trigger \in tree =>
       \A g \in tree : entry[g].pat = entry[trigger].pat => trigger <= g
  /\ \A r \in todo :
       /\ cur[r] = Before(r)
       /\ row[r] = IF written /\ r = NextRow THEN Effective(r) ELSE cur[r]

\* The rows that do not wait are up to date.
RestInv == \A r \in Rows \ todo : cur[r] = Effective(r) /\ row[r] = cur[r]

RowsInv == TypeOK /\ UpdateInv /\ RestInv

-----------------------------------------------------------------------------
(* Smallest elements.                                                       *)

NatRel == {ss \in Nat \X Nat : ss[1] < ss[2]}

\* A set of numbers that is not empty has a smallest element.
LEMMA NatMin ==
  ASSUME NEW S \in SUBSET Nat, S # {}
  PROVE  \E m \in S : \A n \in S : m <= n
<1>1. OpToRel(<, Nat) = NatRel
  BY Zenon DEF OpToRel, NatRel
<1>2. IsWellFoundedOn(NatRel, Nat)
  BY <1>1, NatLessThanWellFounded, Zenon
<1>3. PICK m \in S : \A n \in S : <<n, m>> \notin NatRel
  BY <1>2, WFMin
<1>4. \A a, b \in Nat : <<a, b>> \in NatRel <=> a < b
  BY DEF NatRel
<1>5. ASSUME NEW n \in S PROVE m <= n
  <2>1. n \in Nat /\ m \in Nat
    OBVIOUS
  <2>2. ~(n < m)
    BY <1>3, <1>4, <2>1, Zenon
  <2>3. QED
    BY <2>1, <2>2
<1>6. QED
  BY <1>5

\* Least is the smallest filter of a set that is not empty.
LEMMA LeastOfSome ==
  ASSUME NEW S \in SUBSET Filters, S # {}
  PROVE  Least(S) \in S /\ \A g \in S : Least(S) <= g
<1>1. \E f \in S : \A g \in S : f <= g
  BY NatMin, PsfpAssumption
<1>2. QED
  BY <1>1 DEF Least

\* A filter of the set that is not larger than any is its least.
LEMMA LeastIs ==
  ASSUME NEW S \in SUBSET Filters, NEW m \in S, \A g \in S : m <= g
  PROVE  Least(S) = m
<1>1. Least(S) \in S /\ Least(S) <= m /\ m <= Least(S)
  BY LeastOfSome
<1>2. Least(S) \in Nat /\ m \in Nat
  BY <1>1, PsfpAssumption
<1>3. QED
  BY <1>1, <1>2

\* Least of any set of filters is one of them, or there is none.
LEMMA LeastType ==
  ASSUME NEW S \in SUBSET Filters
  PROVE  Least(S) \in S \cup {None}
BY LeastOfSome DEF Least

\* The next row is one of those that wait (edge_psfp.c:889-911).
LEMMA NextRowWaits ==
  ASSUME todo \subseteq Rows, todo # {}
  PROVE  NextRow \in todo
<1> DEFINE H == {r[1] : r \in todo}
<1>1. H \in SUBSET Nat /\ H # {}
  BY PsfpAssumption DEF Rows
<1>2. PICK h \in H : \A k \in H : h <= k
  BY <1>1, NatMin
<1> DEFINE P == {r[2] : r \in {s \in todo : s[1] = h}}
<1>3. P \in SUBSET Nat /\ P # {}
  BY PsfpAssumption DEF Rows
<1>4. PICK p \in P : \A q \in P : p <= q
  BY <1>3, NatMin
<1>5. PICK r \in todo : r[1] = h /\ r[2] = p
  OBVIOUS
<1>6. ASSUME NEW s \in todo
      PROVE  r[1] < s[1] \/ (r[1] = s[1] /\ r[2] <= s[2])
  <2>1. r[1] <= s[1] /\ r[1] \in Nat /\ s[1] \in Nat
    BY <1>1, <1>2, <1>5
  <2>2. r[1] = s[1] => r[2] <= s[2]
    BY <1>4, <1>5
  <2>3. QED
    BY <2>1, <2>2
<1>7. QED
  BY <1>6 DEF NextRow

-----------------------------------------------------------------------------
(* The effective filter of a row.                                           *)

\* The four patterns that cover a row.
Four(r) == {r, <<r[1], WC>>, <<WC, r[2]>>, <<WC, WC>>}

LEMMA CoveredByFour ==
  ASSUME NEW r \in Rows, NEW pat \in Patterns
  PROVE  r \in Covered(pat) <=> pat \in Four(r)
BY PsfpAssumption DEF Covered, Four, Rows, Patterns, WC

\* The candidate of a pattern is its first filter, also if that is the trigger.
LEMMA CandIsFirst ==
  ASSUME TypeOK, UpdateInv, NEW pat \in Patterns
  PROVE  Cand(pat) = FirstSub(pat)
<1>1. CASE trigger \in tree /\ entry[trigger].pat = pat
  <2>1. {f \in tree : entry[f].pat = pat} \in SUBSET Filters
    BY DEF TypeOK
  <2>2. FirstSub(pat) = trigger
    BY <1>1, <2>1, LeastIs DEF FirstSub, UpdateInv
  <2>3. QED
    BY <1>1, <2>2 DEF Cand
<1>2. CASE ~(trigger \in tree /\ entry[trigger].pat = pat)
  BY <1>2 DEF Cand
<1>3. QED
  BY <1>1, <1>2

\* The four candidates suffice (edge_psfp.c:453-487, 760-887).
LEMMA EffSubIsEffective ==
  ASSUME TypeOK, UpdateInv, NEW r \in Rows
  PROVE  EffSub(r) = Effective(r)
<1> DEFINE Of(pat) == {f \in tree : entry[f].pat = pat}
<1>1. \A f \in tree : entry[f].pat \in Patterns /\ f \in Filters /\ f # None
  BY PsfpAssumption DEF TypeOK
<1>2. \A pat : Of(pat) \in SUBSET Filters
  BY DEF TypeOK
<1>3. \A pat \in Four(r) : pat \in Patterns
  BY DEF Four, Patterns, Rows
<1>4. Cands(r) = {FirstSub(pat) : pat \in Four(r)}
  BY <1>3, CandIsFirst DEF Cands, Four
<1>5. Matching(r) = {f \in tree : entry[f].pat \in Four(r)}
  BY <1>1, CoveredByFour DEF Matching
<1>6. \A pat : FirstSub(pat) \in Of(pat) \cup {None}
  BY <1>2, LeastType DEF FirstSub
<1>7. Cands(r) \ {None} \subseteq Matching(r)
  BY <1>4, <1>5, <1>6
<1>8. Matching(r) \in SUBSET Filters
  BY <1>1 DEF Matching
<1>9. CASE Matching(r) = {}
  BY <1>7, <1>9 DEF EffSub, Effective
<1>10. CASE Matching(r) # {}
  <2> DEFINE m == Least(Matching(r))
  <2>1. m \in Matching(r) /\ \A g \in Matching(r) : m <= g
    BY <1>8, <1>10, LeastOfSome
  <2>2. entry[m].pat \in Four(r) /\ m \in tree /\ m # None
    BY <1>1, <1>5, <2>1
  <2>3. m \in Of(entry[m].pat) /\ \A g \in Of(entry[m].pat) : m <= g
    BY <1>5, <2>1, <2>2
  <2>4. FirstSub(entry[m].pat) = m
    BY <1>2, <2>3, LeastIs DEF FirstSub
  <2>5. m \in Cands(r) \ {None}
    BY <1>4, <2>2, <2>4
  <2>6. Cands(r) \ {None} \in SUBSET Filters /\ \A g \in Cands(r) \ {None} : m <= g
    BY <1>7, <1>8, <2>1
  <2>7. Least(Cands(r) \ {None}) = m
    BY <2>5, <2>6, LeastIs
  <2>8. QED
    BY <2>7 DEF EffSub, Effective
<1>11. QED
  BY <1>9, <1>10

-----------------------------------------------------------------------------
(* The rows.                                                                *)

LEMMA EffectiveType ==
  ASSUME TypeOK
  PROVE  \A r : Effective(r) \in tree \cup {None} /\ Effective(r) \in Filters \cup {None}
BY LeastType DEF TypeOK, Matching, Effective

\* A count stays within the counter's width (edge_psfp.c:690-697).
LEMMA ModType ==
  ASSUME NEW a \in Int
  PROVE  a % CounterMod \in Counts
BY PsfpAssumption, SMT DEF Counts

LEMMA ZeroCount == 0 \in Counts
BY PsfpAssumption DEF Counts

LEMMA CoveredSome ==
  ASSUME NEW pat \in Patterns
  PROVE  Covered(pat) # {} /\ Covered(pat) \subseteq Rows
<1>1. PICK h \in Handles : pat[1] \in {h, WC}
  BY PsfpAssumption DEF Patterns
<1>2. PICK p \in Pcps : pat[2] \in {p, WC}
  BY PsfpAssumption DEF Patterns
<1>3. <<h, p>> \in Covered(pat)
  BY <1>1, <1>2 DEF Covered, Rows
<1>4. QED
  BY <1>3 DEF Covered

\* Effective depends on the filters and their patterns only.
LEMMA MatchingSame ==
  ASSUME tree' = tree, \A g \in tree : entry'[g].pat = entry[g].pat
  PROVE  /\ \A r : Matching(r)' = Matching(r)
         /\ \A r : Effective(r)' = Effective(r)
<1>1. \A r : Matching(r)' = Matching(r)
  BY DEF Matching, Covered
<1>2. QED
  BY <1>1 DEF Effective

LEMMA RowsInit == Init => RowsInv
<1> SUFFICES ASSUME Init PROVE RowsInv
  OBVIOUS
<1>1. TypeOK
  <2>1. NoEntry \in [pat: Patterns, ref: Counts]
    BY ZeroCount DEF NoEntry, Patterns
  <2>2. QED
    BY <2>1, ZeroCount DEF Init, TypeOK
<1>2. UpdateInv
  BY DEF Init, UpdateInv
<1>3. \A r : Effective(r) = None
  BY DEF Init, Effective, Matching, Least
<1>4. RestInv
  BY <1>3 DEF Init, RestInv
<1>5. QED
  BY <1>1, <1>2, <1>4 DEF RowsInv

\* A filter is defined (edge_psfp.c:1716-1838).
LEMMA AddFilterKeepsRows ==
  ASSUME RowsInv, NEW f \in Filters, NEW pat \in Patterns, AddFilter(f, pat)
  PROVE  RowsInv'
<1>1. TypeOK /\ trigger = None /\ todo = {} /\ ~written /\ f \notin tree
      /\ tree' = tree \cup {f} /\ f # None
  BY PsfpAssumption DEF RowsInv, UpdateInv, AddFilter
<1>2. entry' = [entry EXCEPT ![f] = [pat |-> pat, ref |-> 0]]
      /\ seen' = [seen EXCEPT ![f] = 0] /\ cur' = cur /\ row' = row
      /\ blk' = blk /\ cnt' = cnt
  BY DEF AddFilter
<1>3. Covered(pat) # {} /\ Covered(pat) \subseteq Rows
  BY CoveredSome
<1>4. \A g \in tree : entry'[g] = entry[g] /\ g # f
  BY <1>1, <1>2 DEF TypeOK
<1>5. entry'[f] = [pat |-> pat, ref |-> 0]
  BY <1>1, <1>2 DEF TypeOK
<1>6. \A r : Matching(r)' = IF r \in Covered(pat) THEN Matching(r) \cup {f} ELSE Matching(r)
  BY <1>1, <1>4, <1>5 DEF Matching, Covered
<1>7. \A r \in Rows : cur[r] = Effective(r) /\ row[r] = cur[r]
  BY <1>1 DEF RowsInv, RestInv
<1>8. \A r : Matching(r) \in SUBSET Filters /\ f \notin Matching(r)
  BY <1>1 DEF TypeOK, Matching
<1>9. \A r \in Rows : r \notin Covered(pat) => Effective(r)' = Effective(r)
  BY <1>6 DEF Effective
<1>10. entry' \in [Filters -> [pat: Patterns, ref: Counts]] /\ seen' \in [Filters -> Counts]
  <2>1. [pat |-> pat, ref |-> 0] \in [pat: Patterns, ref: Counts]
    BY ZeroCount
  <2>2. QED
    BY <1>1, <1>2, <2>1, ZeroCount DEF TypeOK
<1>11. tree' \subseteq Filters /\ None \notin tree'
  BY <1>1, PsfpAssumption DEF TypeOK
<1>12. CASE \A g \in tree : entry[g].pat = pat => f < g
  <2>1. trigger' = f /\ todo' = Covered(pat) /\ written' = FALSE
    BY <1>12 DEF AddFilter, StartUpdate
  <2>2. TypeOK'
    BY <1>1, <1>2, <1>3, <1>10, <1>11, <2>1 DEF TypeOK
  <2>3. \A r \in todo' : Before(r)' = Effective(r)
    <3>1. \A r \in todo' : Matching(r)' \ {f} = Matching(r)
      BY <1>6, <1>8, <2>1
    <3>2. QED
      BY <1>1, <2>1, <3>1 DEF Before, Effective
  <2>4. \A g \in tree' : entry'[g].pat = pat => f <= g
    BY <1>1, <1>4, <1>12, PsfpAssumption DEF TypeOK
  <2>5. UpdateInv'
    BY <1>1, <1>2, <1>3, <1>5, <1>7, <2>1, <2>3, <2>4 DEF UpdateInv, Covered
  <2>6. RestInv'
    BY <1>2, <1>7, <1>9, <2>1 DEF RestInv
  <2>7. QED
    BY <2>2, <2>5, <2>6 DEF RowsInv
<1>13. CASE ~ \A g \in tree : entry[g].pat = pat => f < g
  <2>1. trigger' = trigger /\ todo' = todo /\ written' = written
    BY <1>13 DEF AddFilter, update
  <2>2. TypeOK'
    BY <1>1, <1>2, <1>10, <1>11, <2>1 DEF TypeOK
  <2>3. PICK g \in tree : entry[g].pat = pat /\ ~(f < g)
    BY <1>13
  <2>4. g < f
    BY <1>1, <2>3, PsfpAssumption DEF TypeOK
  <2>5. ASSUME NEW r \in Covered(pat) PROVE Effective(r)' = Effective(r)
    <3> DEFINE m == Least(Matching(r))
    <3>1. g \in Matching(r)
      BY <2>3, <2>5 DEF Matching
    <3>2. m \in Matching(r) /\ m <= g /\ \A h \in Matching(r) : m <= h
      BY <1>8, <3>1, LeastOfSome
    <3>3. m \in Nat /\ g \in Nat /\ f \in Nat
      BY <1>8, <3>1, <3>2, PsfpAssumption
    <3>4. Least(Matching(r) \cup {f}) = m
      BY <1>8, <2>4, <3>2, <3>3, LeastIs
    <3>5. QED
      BY <1>6, <2>5, <3>4 DEF Effective
  <2>6. UpdateInv'
    BY <1>1, <1>11, <2>1 DEF UpdateInv
  <2>7. RestInv'
    BY <1>2, <1>7, <1>9, <2>1, <2>5 DEF RestInv
  <2>8. QED
    BY <2>2, <2>6, <2>7 DEF RowsInv
<1>14. QED
  BY <1>12, <1>13

\* A filter is deleted (edge_psfp.c:1840-1889).
LEMMA DeleteFilterKeepsRows ==
  ASSUME RowsInv, NEW f \in Filters, DeleteFilter(f)
  PROVE  RowsInv'
<1> DEFINE pat == entry[f].pat
<1>1. TypeOK /\ trigger = None /\ todo = {} /\ ~written /\ f \in tree
      /\ tree' = tree \ {f} /\ f # None /\ cur' = cur /\ row' = row
      /\ blk' = blk /\ cnt' = cnt /\ seen' = seen
  BY PsfpAssumption DEF RowsInv, UpdateInv, DeleteFilter
<1>2. pat \in Patterns /\ Covered(pat) # {} /\ Covered(pat) \subseteq Rows
  BY <1>1, CoveredSome DEF TypeOK
<1>3. \/ entry' = entry
      \/ entry' = [entry EXCEPT ![f] = NoEntry]
  BY DEF DeleteFilter
<1>4. \A g \in tree' : entry'[g] = entry[g]
  BY <1>1, <1>3 DEF TypeOK
<1>5. \A r : Matching(r)' = Matching(r) \ {f}
  BY <1>1, <1>4 DEF Matching, Covered
<1>6. \A r \in Rows : cur[r] = Effective(r) /\ row[r] = cur[r]
  BY <1>1 DEF RowsInv, RestInv
<1>7. \A r : Matching(r) \in SUBSET Filters
  BY DEF TypeOK, Matching, RowsInv
<1>8. \A r \in Rows : f \in Matching(r) <=> r \in Covered(pat)
  BY <1>1 DEF Matching
<1>9. \A r \in Rows : r \notin Covered(pat) => Effective(r)' = Effective(r)
  <2>1. \A r \in Rows : r \notin Covered(pat) => Matching(r)' = Matching(r)
    BY <1>5, <1>8
  <2>2. QED
    BY <2>1 DEF Effective
<1>10. entry' \in [Filters -> [pat: Patterns, ref: Counts]]
  <2>1. NoEntry \in [pat: Patterns, ref: Counts]
    BY ZeroCount DEF NoEntry, Patterns
  <2>2. QED
    BY <1>1, <1>3, <2>1 DEF TypeOK
<1>11. tree' \subseteq Filters /\ None \notin tree'
  BY <1>1, PsfpAssumption DEF TypeOK
<1>12. CASE f = FirstSub(pat)
  <2>1. trigger' = f /\ todo' = Covered(pat) /\ written' = FALSE /\ entry' = entry
    BY <1>12 DEF DeleteFilter, StartUpdate
  <2>2. TypeOK'
    BY <1>1, <1>2, <1>10, <1>11, <2>1 DEF TypeOK
  <2>3. \A r \in todo' : Before(r)' = Effective(r)
    <3>1. \A r \in todo' : Matching(r)' \cup {f} = Matching(r)
      BY <1>2, <1>5, <1>8, <2>1
    <3>2. QED
      BY <1>1, <2>1, <3>1 DEF Before, Effective
  <2>4. UpdateInv'
    BY <1>1, <1>2, <1>6, <2>1, <2>3 DEF UpdateInv, Covered
  <2>5. RestInv'
    BY <1>1, <1>6, <1>9, <2>1 DEF RestInv
  <2>6. QED
    BY <2>2, <2>4, <2>5 DEF RowsInv
<1>13. CASE f # FirstSub(pat)
  <2>1. trigger' = trigger /\ todo' = todo /\ written' = written
    BY <1>13 DEF DeleteFilter, update
  <2>2. TypeOK'
    BY <1>1, <1>10, <1>11, <2>1 DEF TypeOK
  <2> DEFINE first == FirstSub(pat)
  <2>3. first \in tree /\ entry[first].pat = pat /\ first < f
    <3>1. {g \in tree : entry[g].pat = pat} \in SUBSET Filters
      BY <1>1 DEF TypeOK
    <3>2. first \in tree /\ entry[first].pat = pat /\ first <= f
      BY <1>1, <3>1, LeastOfSome DEF FirstSub
    <3>3. first \in Nat /\ f \in Nat
      BY <1>1, <3>2, PsfpAssumption DEF TypeOK
    <3>4. QED
      BY <1>13, <3>2, <3>3
  <2>4. ASSUME NEW r \in Covered(pat) PROVE Effective(r)' = Effective(r)
    <3> DEFINE m == Least(Matching(r))
    <3>1. first \in Matching(r)
      BY <2>3, <2>4 DEF Matching
    <3>2. m \in Matching(r) /\ m <= first /\ \A h \in Matching(r) : m <= h
      BY <1>7, <3>1, LeastOfSome
    <3>3. m \in Nat /\ first \in Nat /\ f \in Nat
      BY <1>7, <3>1, <3>2, PsfpAssumption
    <3>4. m # f
      BY <2>3, <3>2, <3>3
    <3>5. m \in Matching(r) \ {f} /\ \A h \in Matching(r) \ {f} : m <= h
      BY <3>2, <3>4
    <3>6. Least(Matching(r) \ {f}) = m
      BY <1>7, <3>5, LeastIs
    <3>7. QED
      BY <1>5, <3>6 DEF Effective
  <2>5. UpdateInv'
    BY <1>1, <1>11, <2>1 DEF UpdateInv
  <2>6. RestInv'
    BY <1>1, <1>6, <1>9, <2>1, <2>4 DEF RestInv
  <2>7. QED
    BY <2>2, <2>5, <2>6 DEF RowsInv
<1>14. QED
  BY <1>12, <1>13

\* A row is rewritten (edge_psfp.c:565-616).
LEMMA WriteRowKeepsRows ==
  ASSUME RowsInv, WriteRow
  PROVE  RowsInv'
<1>1. TypeOK /\ trigger # None /\ ~written /\ todo # {} /\ todo \subseteq Rows
  BY DEF RowsInv, UpdateInv, TypeOK, WriteRow
<1>2. NextRow \in todo /\ NextRow' = NextRow
  BY <1>1, NextRowWaits DEF WriteRow, NextRow
<1>3. EffSub(NextRow) = Effective(NextRow)
  BY <1>1, <1>2, EffSubIsEffective DEF RowsInv
<1>4. tree' = tree /\ entry' = entry /\ cur' = cur /\ cnt' = cnt /\ seen' = seen
      /\ trigger' = trigger /\ todo' = todo /\ written' = TRUE
      /\ row' = [row EXCEPT ![NextRow] = Effective(NextRow)]
      /\ blk' = [blk EXCEPT ![NextRow] = FALSE]
  BY <1>3 DEF WriteRow, driver
<1>5. \A r : Matching(r)' = Matching(r) /\ Effective(r)' = Effective(r)
  BY <1>4, MatchingSame
<1>6. TypeOK'
  BY <1>1, <1>4, EffectiveType DEF TypeOK
<1>7. \A r : Before(r)' = Before(r)
  BY <1>4, <1>5 DEF Before
<1>8. UpdateInv'
  BY <1>1, <1>2, <1>4, <1>5, <1>7 DEF RowsInv, UpdateInv, TypeOK, Covered
<1>9. RestInv'
  BY <1>1, <1>2, <1>4, <1>5 DEF RowsInv, RestInv, TypeOK
<1>10. QED
  BY <1>6, <1>8, <1>9 DEF RowsInv

\* What AccountRow does, without the LET (edge_psfp.c:913-963).
LEMMA AccountRowDoes ==
  ASSUME RowsInv, AccountRow
  PROVE  /\ NextRow \in todo /\ NextRow \in Rows
         /\ trigger # None /\ written
         /\ EffSub(NextRow) = Effective(NextRow)
         /\ entry' = [f \in Filters |->
               IF todo = {NextRow} /\ f = trigger /\ f \notin tree THEN NoEntry
               ELSE IF f \in MovedRefs(NextRow, Effective(NextRow))
               THEN [entry[f] EXCEPT !.ref = MoveRef(@, cnt[NextRow])]
               ELSE entry[f]]
         /\ cur' = [cur EXCEPT ![NextRow] = Effective(NextRow)]
         /\ todo' = todo \ {NextRow}
         /\ trigger' = IF todo = {NextRow} THEN None ELSE trigger
         /\ written' = FALSE
         /\ tree' = tree /\ row' = row /\ blk' = blk /\ cnt' = cnt /\ seen' = seen
         /\ \A g \in tree : entry'[g].pat = entry[g].pat
<1>1. TypeOK /\ UpdateInv /\ written /\ trigger # None
  BY DEF RowsInv, UpdateInv, AccountRow
<1>2. NextRow \in todo /\ NextRow \in Rows
  BY <1>1, NextRowWaits DEF UpdateInv, TypeOK
<1>3. EffSub(NextRow) = Effective(NextRow)
  BY <1>1, <1>2, EffSubIsEffective
<1>4. entry' = [f \in Filters |->
               IF todo = {NextRow} /\ f = trigger /\ f \notin tree THEN NoEntry
               ELSE IF f \in MovedRefs(NextRow, Effective(NextRow))
               THEN [entry[f] EXCEPT !.ref = MoveRef(@, cnt[NextRow])]
               ELSE entry[f]]
  BY <1>3 DEF AccountRow
<1>5. \A g \in tree : entry'[g].pat = entry[g].pat
  BY <1>1, <1>4 DEF TypeOK
<1>6. QED
  BY <1>1, <1>2, <1>3, <1>4, <1>5 DEF AccountRow

\* A row is accounted for, and the deleted filter freed after the last.
LEMMA AccountRowKeepsRows ==
  ASSUME RowsInv, AccountRow
  PROVE  RowsInv'
<1> DEFINE r == NextRow
           last == todo = {r}
<1>1. TypeOK /\ UpdateInv /\ RestInv
  BY DEF RowsInv
<1>2. /\ r \in todo /\ r \in Rows /\ trigger # None /\ written
      /\ cur' = [cur EXCEPT ![r] = Effective(r)]
      /\ todo' = todo \ {r} /\ written' = FALSE
      /\ trigger' = IF last THEN None ELSE trigger
      /\ tree' = tree /\ row' = row /\ blk' = blk /\ cnt' = cnt /\ seen' = seen
      /\ \A g \in tree : entry'[g].pat = entry[g].pat
  BY AccountRowDoes
<1>3. entry' = [f \in Filters |->
               IF last /\ f = trigger /\ f \notin tree THEN NoEntry
               ELSE IF f \in MovedRefs(r, Effective(r))
               THEN [entry[f] EXCEPT !.ref = MoveRef(@, cnt[r])]
               ELSE entry[f]]
  BY AccountRowDoes
<1>4. \A x : Matching(x)' = Matching(x) /\ Effective(x)' = Effective(x)
  BY <1>2, MatchingSame
<1>5. TypeOK'
  <2>1. NoEntry \in [pat: Patterns, ref: Counts]
    BY ZeroCount DEF NoEntry, Patterns
  <2>2. cnt[r] \in Int /\ \A f \in Filters : entry[f].ref \in Int
    BY <1>1, <1>2, PsfpAssumption DEF TypeOK, Counts
  <2>3. \A f \in Filters : MoveRef(entry[f].ref, cnt[r]) \in Counts
    BY <2>2, ModType DEF MoveRef
  <2>4. \A f \in Filters :
          [entry[f] EXCEPT !.ref = MoveRef(@, cnt[r])] \in [pat: Patterns, ref: Counts]
    BY <1>1, <2>3 DEF TypeOK
  <2>5. entry' \in [Filters -> [pat: Patterns, ref: Counts]]
    BY <1>1, <1>3, <2>1, <2>4 DEF TypeOK
  <2>6. Effective(r) \in Filters \cup {None}
    BY <1>1, EffectiveType
  <2>7. QED
    BY <1>1, <1>2, <2>5, <2>6 DEF TypeOK
<1>6. trigger' # None => trigger' = trigger /\ entry'[trigger].pat = entry[trigger].pat
  BY <1>1, <1>2, <1>3 DEF TypeOK
<1>7. trigger' # None => \A x : Before(x)' = Before(x)
  BY <1>2, <1>4, <1>6 DEF Before
<1>8. UpdateInv'
  <2>1. trigger' = None => todo' = {} /\ ~written'
    BY <1>2
  <2>2. trigger' # None => todo' # {} /\ todo' \subseteq Covered(entry[trigger].pat)
    BY <1>1, <1>2 DEF UpdateInv
  <2>3. trigger' # None => Covered(entry[trigger].pat)' = Covered(entry[trigger].pat)
    BY <1>6 DEF Covered
  <2>4. trigger' \in tree' =>
          \A g \in tree' : entry'[g].pat = entry'[trigger'].pat => trigger' <= g
    BY <1>1, <1>2, PsfpAssumption DEF UpdateInv, TypeOK
  <2>5. \A x \in todo' : cur'[x] = Before(x) /\ row'[x] = cur'[x] /\ trigger' # None
    BY <1>1, <1>2 DEF UpdateInv, TypeOK
  <2>6. QED
    BY <1>2, <1>6, <1>7, <2>1, <2>2, <2>3, <2>4, <2>5 DEF UpdateInv
<1>9. RestInv'
  <2>1. row[r] = Effective(r)
    BY <1>1, <1>2 DEF UpdateInv
  <2>2. QED
    BY <1>1, <1>2, <1>4, <2>1 DEF RestInv, TypeOK
<1>10. QED
  BY <1>5, <1>8, <1>9 DEF RowsInv

\* Traffic changes none of it.
LEMMA TrafficKeepsRows ==
  ASSUME RowsInv, NEW r \in FrameRows, Frame(r) \/ OversizedFrame(r)
  PROVE  RowsInv'
<1>1. TypeOK /\ UpdateInv /\ RestInv /\ r \in Rows
  BY PsfpAssumption DEF RowsInv
<1>2. tree' = tree /\ entry' = entry /\ cur' = cur /\ row' = row
      /\ trigger' = trigger /\ todo' = todo /\ written' = written
  BY DEF Frame, OversizedFrame, driver, update
<1>3. \A x : Matching(x)' = Matching(x) /\ Effective(x)' = Effective(x)
  BY <1>2, MatchingSame
<1>4. cnt' \in [Rows -> Counts] /\ seen' \in [Filters -> Counts]
      /\ blk' \in [Rows -> BOOLEAN]
  <2>1. /\ (cnt[r] + 1) % CounterMod \in Counts
        /\ \A f \in Filters : (seen[f] + 1) % CounterMod \in Counts
    <3>1. cnt[r] + 1 \in Int /\ \A f \in Filters : seen[f] + 1 \in Int
      BY <1>1, PsfpAssumption DEF TypeOK, Counts
    <3>2. QED
      BY <3>1, ModType
  <2>2. CASE Frame(r)
    BY <1>1, <2>1, <2>2 DEF Frame, TypeOK
  <2>3. CASE OversizedFrame(r)
    BY <1>1, <2>3 DEF OversizedFrame, TypeOK
  <2>4. QED
    BY <2>2, <2>3
<1>5. TypeOK'
  BY <1>1, <1>2, <1>4 DEF TypeOK
<1>6. NextRow' = NextRow /\ \A x : Before(x)' = Before(x)
  BY <1>2, <1>3 DEF NextRow, Before
<1>7. UpdateInv'
  BY <1>1, <1>2, <1>3, <1>6 DEF UpdateInv, Covered
<1>8. RestInv'
  BY <1>1, <1>2, <1>3 DEF RestInv
<1>9. QED
  BY <1>5, <1>7, <1>8 DEF RowsInv

LEMMA RowsStep == RowsInv /\ [Next]_vars => RowsInv'
<1> SUFFICES ASSUME RowsInv, [Next]_vars PROVE RowsInv'
  OBVIOUS
<1>1. CASE \E f \in Filters, pat \in Patterns : AddFilter(f, pat)
  BY <1>1, AddFilterKeepsRows
<1>2. CASE \E f \in Filters : DeleteFilter(f)
  BY <1>2, DeleteFilterKeepsRows
<1>3. CASE WriteRow
  BY <1>3, WriteRowKeepsRows
<1>4. CASE AccountRow
  BY <1>4, AccountRowKeepsRows
<1>5. CASE \E r \in FrameRows : Frame(r) \/ OversizedFrame(r)
  BY <1>5, TrafficKeepsRows
<1>6. CASE UNCHANGED vars
  <2>1. tree' = tree /\ entry' = entry /\ cur' = cur /\ row' = row /\ blk' = blk
        /\ cnt' = cnt /\ trigger' = trigger /\ todo' = todo
        /\ written' = written /\ seen' = seen
    BY <1>6 DEF vars, driver, update
  <2>2. \A x : Matching(x)' = Matching(x) /\ Effective(x)' = Effective(x)
    BY <2>1, MatchingSame
  <2>3. NextRow' = NextRow /\ \A x : Before(x)' = Before(x)
    BY <2>1, <2>2 DEF NextRow, Before
  <2>4. TypeOK'
    BY <2>1 DEF RowsInv, TypeOK
  <2>5. UpdateInv'
    BY <2>1, <2>2, <2>3 DEF RowsInv, UpdateInv, Covered
  <2>6. RestInv'
    BY <2>1, <2>2 DEF RowsInv, RestInv
  <2>7. QED
    BY <2>4, <2>5, <2>6 DEF RowsInv
<1>7. QED
  BY <1>1, <1>2, <1>3, <1>4, <1>5, <1>6 DEF Next

\* The variables keep their ranges, the references of the counters included.
THEOREM TypeCorrect == Spec => []TypeOK
<1>1. RowsInv => TypeOK
  BY DEF RowsInv
<1>2. QED
  BY <1>1, RowsInit, RowsStep, PTL DEF Spec

LEMMA RowsInvFollow == RowsInv => RowsFollow
<1> SUFFICES ASSUME RowsInv PROVE RowsFollow
  OBVIOUS
<1>1. TypeOK /\ UpdateInv /\ RestInv
  BY DEF RowsInv
<1>2. ASSUME NEW r \in todo
      PROVE  row[r] \in {cur[r], Effective(r)} /\ cur[r] \in tree \cup {None, trigger}
  <2>1. trigger \in Filters
    BY <1>1, <1>2 DEF UpdateInv, TypeOK
  <2>2. Matching(r) \subseteq tree /\ tree \subseteq Filters
    BY <1>1 DEF Matching, TypeOK
  <2>3. Before(r) \in Matching(r) \cup {trigger, None}
    <3>1. CASE trigger \in tree
      BY <2>2, <3>1, LeastType DEF Before
    <3>2. CASE trigger \notin tree
      <4>1. Matching(r) \cup {trigger} \in SUBSET Filters
        BY <2>1, <2>2
      <4>2. QED
        BY <3>2, <4>1, LeastType DEF Before
    <3>3. QED
      BY <3>1, <3>2
  <2>4. QED
    BY <1>1, <1>2, <2>2, <2>3 DEF UpdateInv
<1>3. \A r : Effective(r) \in tree \cup {None}
  BY <1>1, EffectiveType
<1>4. QED
  BY <1>1, <1>2, <1>3 DEF RestInv, RowsFollow

\* Every row that does not wait holds the filter it should, in the hardware
\* and in cur_sub, whatever filters with overlapping wildcards were defined and
\* deleted (edge_psfp.c:770-974).
THEOREM RowsAlwaysFollow == Spec => []RowsFollow
BY RowsInit, RowsStep, RowsInvFollow, PTL DEF Spec

-----------------------------------------------------------------------------
(* The counters.                                                            *)

LEMMA ModDiff ==
  ASSUME NEW a \in Counts, NEW b \in Counts
  PROVE  (a - b) % CounterMod = IF a >= b THEN a - b ELSE a - b + CounterMod
BY PsfpAssumption, SMT DEF Counts

LEMMA ModNext ==
  ASSUME NEW a \in Counts
  PROVE  (a + 1) % CounterMod = IF a = CounterMod - 1 THEN 0 ELSE a + 1
BY PsfpAssumption, SMT DEF Counts

\* Moved twice at the same count, a reference is what it was.
LEMMA MovedBack ==
  ASSUME NEW ref \in Counts, NEW now \in Counts
  PROVE  (now - MoveRef(ref, now)) % CounterMod = ref
<1>1. MoveRef(ref, now) = IF now >= ref THEN now - ref ELSE now - ref + CounterMod
  BY ModDiff DEF MoveRef
<1>2. MoveRef(ref, now) \in Counts
  BY <1>1, PsfpAssumption DEF Counts
<1>3. (now - MoveRef(ref, now)) % CounterMod =
        IF now >= MoveRef(ref, now) THEN now - MoveRef(ref, now)
        ELSE now - MoveRef(ref, now) + CounterMod
  BY <1>2, ModDiff
<1>4. QED
  BY <1>1, <1>2, <1>3, PsfpAssumption DEF Counts

\* A frame more in the row is one more since the reference was taken.
LEMMA CountedOn ==
  ASSUME NEW ref \in Counts, NEW now \in Counts
  PROVE  (((now + 1) % CounterMod) - ref) % CounterMod =
           (((now - ref) % CounterMod) + 1) % CounterMod
<1> DEFINE n == (now + 1) % CounterMod
           d == (now - ref) % CounterMod
<1>1. n = (IF now = CounterMod - 1 THEN 0 ELSE now + 1) /\ n \in Counts
  BY ModNext, PsfpAssumption DEF Counts
<1>2. d = (IF now >= ref THEN now - ref ELSE now - ref + CounterMod) /\ d \in Counts
  BY ModDiff, PsfpAssumption DEF Counts
<1>3. (n - ref) % CounterMod = IF n >= ref THEN n - ref ELSE n - ref + CounterMod
  BY <1>1, ModDiff
<1>4. (d + 1) % CounterMod = IF d = CounterMod - 1 THEN 0 ELSE d + 1
  BY <1>2, ModNext
<1> HIDE DEF n, d
<1>5. (n - ref) % CounterMod = (d + 1) % CounterMod
  BY <1>1, <1>2, <1>3, <1>4, PsfpAssumption DEF Counts
<1>6. QED
  BY <1>5 DEF n, d

\* A filter's count is what it was if its entry, its row's filter and its row's
\* count are.
LEMMA CountSame ==
  ASSUME NEW f, entry'[f] = entry[f], cur' = cur, cnt' = cnt
  PROVE  UserCount(f)' = UserCount(f) /\ IsWild(f)' = IsWild(f)
BY DEF UserCount, IsWild

LEMMA AddFilterCounts ==
  ASSUME RowsInv, CountersContinue,
         NEW f \in Filters, NEW pat \in Patterns, AddFilter(f, pat)
  PROVE  CountersContinue'
<1>1. TypeOK /\ trigger = None /\ todo = {} /\ f \notin tree /\ tree' = tree \cup {f}
      /\ entry' = [entry EXCEPT ![f] = [pat |-> pat, ref |-> 0]]
      /\ seen' = [seen EXCEPT ![f] = 0] /\ cur' = cur /\ cnt' = cnt
  BY DEF RowsInv, UpdateInv, AddFilter
<1>2. \A r \in Rows : cur[r] # f
  <2>1. \A r \in Rows : cur[r] \in tree \cup {None}
    BY <1>1, EffectiveType DEF RowsInv, RestInv
  <2>2. QED
    BY <1>1, <2>1, PsfpAssumption
<1>3. ~IsWild(f)' => UserCount(f)' = seen'[f]
  <2>1. entry'[f] = [pat |-> pat, ref |-> 0] /\ seen'[f] = 0
    BY <1>1 DEF TypeOK
  <2>2. ~IsWild(f)' => pat \in Rows
    BY <2>1 DEF IsWild, Patterns, Rows
  <2>3. QED
    BY <1>1, <1>2, <2>1, <2>2 DEF UserCount, IsWild
<1>4. ASSUME NEW g \in tree, ~IsWild(g)' PROVE UserCount(g)' = seen'[g]
  <2>1. entry'[g] = entry[g] /\ seen'[g] = seen[g]
    BY <1>1 DEF TypeOK
  <2>2. UserCount(g)' = UserCount(g) /\ IsWild(g)' = IsWild(g)
    BY <1>1, <2>1, CountSame
  <2>3. QED
    BY <1>4, <2>1, <2>2 DEF CountersContinue
<1>5. QED
  BY <1>1, <1>3, <1>4 DEF CountersContinue

LEMMA DeleteFilterCounts ==
  ASSUME RowsInv, CountersContinue, NEW f \in Filters, DeleteFilter(f)
  PROVE  CountersContinue'
<1>1. TypeOK /\ tree' = tree \ {f} /\ seen' = seen /\ cur' = cur /\ cnt' = cnt
      /\ (entry' = entry \/ entry' = [entry EXCEPT ![f] = NoEntry])
  BY DEF RowsInv, DeleteFilter
<1>2. ASSUME NEW g \in tree', ~IsWild(g)' PROVE UserCount(g)' = seen'[g]
  <2>1. entry'[g] = entry[g] /\ g \in tree
    BY <1>1 DEF TypeOK
  <2>2. UserCount(g)' = UserCount(g) /\ IsWild(g)' = IsWild(g)
    BY <1>1, <2>1, CountSame
  <2>3. QED
    BY <1>1, <1>2, <2>1, <2>2 DEF CountersContinue
<1>3. QED
  BY <1>2 DEF CountersContinue

\* A row changes hands: the filter that gets it and the one that loses it, if
\* that one still exists, move their references, no other filter does.
LEMMA AccountRowCounts ==
  ASSUME RowsInv, CountersContinue, AccountRow
  PROVE  CountersContinue'
<1> DEFINE r == NextRow
           eff == Effective(r)
<1>1. TypeOK /\ UpdateInv
  BY DEF RowsInv
<1>2. /\ r \in todo /\ r \in Rows /\ trigger # None
      /\ cur' = [cur EXCEPT ![r] = eff]
      /\ tree' = tree /\ cnt' = cnt /\ seen' = seen
      /\ \A g \in tree : entry'[g].pat = entry[g].pat
  BY AccountRowDoes
<1>3. ASSUME NEW f \in tree
      PROVE  entry'[f] = IF f \in MovedRefs(r, eff)
                         THEN [entry[f] EXCEPT !.ref = MoveRef(@, cnt[r])]
                         ELSE entry[f]
  <2>1. f \in Filters
    BY <1>1, <1>3 DEF TypeOK
  <2>2. QED
    BY <1>3, <2>1, AccountRowDoes
<1>4. Matching(r) \in SUBSET Filters /\ Matching(r) \subseteq tree /\ trigger \in Filters
  BY <1>1, <1>2 DEF TypeOK, Matching
<1>5. cur[r] = Before(r)
  BY <1>1, <1>2 DEF UpdateInv
<1>6. \A f \in Matching(r) : ~IsWild(f) => entry[f].pat = r
  <2>1. \A f \in Matching(r) : entry[f].pat \in Patterns
    BY <1>1, <1>4 DEF TypeOK
  <2>2. QED
    BY <2>1, CoveredByFour, <1>2 DEF Matching, Four, IsWild
<1>7. eff \in Matching(r) \cup {None}
  BY <1>4, LeastType DEF Effective
<1>8. cur[r] \in tree => cur[r] \in Matching(r)
  <2>1. CASE trigger \in tree
    <3>1. Matching(r) \ {trigger} \in SUBSET Filters
      BY <1>4
    <3>2. cur[r] \in (Matching(r) \ {trigger}) \cup {None}
      BY <1>5, <2>1, <3>1, LeastType DEF Before
    <3>3. QED
      BY <1>1, <3>2, PsfpAssumption DEF TypeOK
  <2>2. CASE trigger \notin tree
    <3>1. Matching(r) \cup {trigger} \in SUBSET Filters
      BY <1>4
    <3>2. QED
      BY <1>1, <1>5, <2>2, <3>1, LeastType, PsfpAssumption DEF Before, TypeOK
  <2>3. QED
    BY <2>1, <2>2
<1>9. cur[r] \in tree /\ cur[r] # eff => trigger = eff
  <2> SUFFICES ASSUME cur[r] \in tree, cur[r] # eff, trigger # eff PROVE FALSE
    OBVIOUS
  <2>1. cur[r] \in Matching(r)
    BY <1>8
  <2>2. eff \in Matching(r) /\ \A g \in Matching(r) : eff <= g
    BY <1>4, <2>1, LeastOfSome DEF Effective
  <2>3. eff \in Nat /\ cur[r] \in Nat /\ eff <= cur[r]
    BY <1>4, <2>1, <2>2, PsfpAssumption
  <2>4. CASE trigger \in tree
    <3>1. Matching(r) \ {trigger} \in SUBSET Filters /\ eff \in Matching(r) \ {trigger}
      BY <1>4, <2>2
    <3>2. cur[r] <= eff
      BY <1>5, <2>4, <3>1, LeastOfSome DEF Before
    <3>3. QED
      BY <2>3, <3>2
  <2>5. CASE trigger \notin tree
    <3>1. Matching(r) \cup {trigger} \in SUBSET Filters /\ eff \in Matching(r) \cup {trigger}
      BY <1>4, <2>2
    <3>2. cur[r] <= eff
      BY <1>5, <2>5, <3>1, LeastOfSome DEF Before
    <3>3. QED
      BY <2>3, <3>2
  <2>6. QED
    BY <2>4, <2>5
<1>10. ASSUME NEW f \in tree, ~IsWild(f)'
       PROVE  UserCount(f)' = seen'[f]
  <2>1. ~IsWild(f) /\ entry'[f].pat = entry[f].pat /\ UserCount(f) = seen[f]
        /\ f # None /\ f \in Filters
    BY <1>1, <1>2, <1>10, PsfpAssumption DEF IsWild, CountersContinue, TypeOK
  <2>2. entry[f].pat \in Rows /\ entry[f].ref \in Counts /\ cnt[r] \in Counts
    BY <1>1, <1>2, <2>1 DEF TypeOK, IsWild, Patterns, Rows
  <2>3. CASE entry[f].pat # r
    <3>1. f \notin Matching(r)
      BY <1>6, <2>1, <2>3
    <3>2. f # eff /\ f # cur[r]
      BY <1>7, <1>8, <2>1, <3>1
    <3>3. f \notin MovedRefs(r, eff)
      BY <3>2 DEF MovedRefs
    <3>4. entry'[f] = entry[f] /\ cur'[entry[f].pat] = cur[entry[f].pat]
      BY <1>1, <1>2, <1>3, <2>2, <2>3, <3>3 DEF TypeOK
    <3>5. UserCount(f)' = UserCount(f)
      BY <1>2, <2>1, <3>4 DEF UserCount, IsWild
    <3>6. QED
      BY <1>2, <2>1, <3>5
  <2>4. CASE entry[f].pat = r /\ f = eff /\ f # cur[r]
    <3>1. f \in MovedRefs(r, eff)
      BY <2>1, <2>4 DEF MovedRefs
    <3>2. entry'[f].ref = MoveRef(entry[f].ref, cnt[r])
      BY <1>1, <1>3, <2>1, <3>1 DEF TypeOK
    <3>3. UserCount(f) = entry[f].ref
      BY <2>1, <2>4 DEF UserCount
    <3>4. cur'[r] = f
      BY <1>1, <1>2, <2>4 DEF TypeOK
    <3>5. UserCount(f)' = (cnt'[r] - entry'[f].ref) % CounterMod
      BY <1>10, <2>1, <2>4, <3>4 DEF UserCount
    <3>6. QED
      BY <1>2, <2>1, <2>2, <3>2, <3>3, <3>5, MovedBack
  <2>5. CASE entry[f].pat = r /\ f # eff /\ f = cur[r]
    <3>1. f \in MovedRefs(r, eff)
      BY <1>9, <2>1, <2>5 DEF MovedRefs
    <3>2. entry'[f].ref = MoveRef(entry[f].ref, cnt[r])
      BY <1>1, <1>3, <2>1, <3>1 DEF TypeOK
    <3>3. UserCount(f) = MoveRef(entry[f].ref, cnt[r])
      BY <2>1, <2>5 DEF UserCount, MoveRef
    <3>4. cur'[r] # f
      BY <1>1, <1>2, <2>5 DEF TypeOK
    <3>5. UserCount(f)' = entry'[f].ref
      BY <1>10, <2>1, <2>5, <3>4 DEF UserCount
    <3>6. QED
      BY <1>2, <2>1, <3>2, <3>3, <3>5
  <2>6. CASE entry[f].pat = r /\ (f = eff <=> f = cur[r])
    <3>1. f \notin MovedRefs(r, eff)
      BY <2>6 DEF MovedRefs
    <3>2. entry'[f] = entry[f] /\ (cur'[r] = f <=> cur[r] = f)
      BY <1>1, <1>2, <1>3, <2>6, <3>1 DEF TypeOK
    <3>3. UserCount(f)' = UserCount(f)
      BY <1>2, <2>1, <2>6, <3>2 DEF UserCount, IsWild
    <3>4. QED
      BY <1>2, <2>1, <3>3
  <2>7. QED
    BY <2>3, <2>4, <2>5, <2>6
<1>11. QED
  BY <1>2, <1>10 DEF CountersContinue

\* A frame counts for the filter of its row.
LEMMA FrameCounts ==
  ASSUME RowsInv, CountersContinue, NEW r \in FrameRows, Frame(r)
  PROVE  CountersContinue'
<1>1. TypeOK /\ r \in Rows /\ tree' = tree /\ entry' = entry /\ cur' = cur
      /\ cnt' = [cnt EXCEPT ![r] = (@ + 1) % CounterMod]
      /\ seen' = [f \in Filters |->
                   IF f = cur[r] /\ entry[f].pat = r
                   THEN (seen[f] + 1) % CounterMod ELSE seen[f]]
  BY PsfpAssumption DEF RowsInv, Frame, driver
<1>2. ASSUME NEW f \in tree, ~IsWild(f)
      PROVE  UserCount(f)' = seen'[f]
  <2>1. UserCount(f) = seen[f] /\ f \in Filters /\ entry[f].pat \in Rows
        /\ entry[f].ref \in Counts /\ cnt[r] \in Counts /\ IsWild(f)' = IsWild(f)
    BY <1>1, <1>2 DEF CountersContinue, TypeOK, IsWild, Patterns, Rows
  <2>2. CASE entry[f].pat = r /\ cur[r] = f
    <3>1. UserCount(f)' = (((cnt[r] + 1) % CounterMod) - entry[f].ref) % CounterMod
      BY <1>1, <1>2, <2>1, <2>2 DEF UserCount, TypeOK
    <3>2. seen'[f] = (seen[f] + 1) % CounterMod
      BY <1>1, <2>1, <2>2
    <3>3. seen[f] = (cnt[r] - entry[f].ref) % CounterMod
      BY <1>2, <2>1, <2>2 DEF UserCount
    <3>4. QED
      BY <2>1, <3>1, <3>2, <3>3, CountedOn
  <2>3. CASE ~(entry[f].pat = r /\ cur[r] = f)
    <3>1. seen'[f] = seen[f]
      BY <1>1, <2>1, <2>3
    <3>2. cur[entry[f].pat] = f => cnt'[entry[f].pat] = cnt[entry[f].pat]
      BY <1>1, <2>1, <2>3 DEF TypeOK
    <3>3. UserCount(f)' = UserCount(f)
      BY <1>1, <2>1, <3>2 DEF UserCount
    <3>4. QED
      BY <2>1, <3>1, <3>3
  <2>4. QED
    BY <2>2, <2>3
<1>3. \A f : IsWild(f)' = IsWild(f)
  BY <1>1 DEF IsWild
<1>4. QED
  BY <1>1, <1>2, <1>3 DEF CountersContinue

LEMMA CountsStep ==
  RowsInv /\ CountersContinue /\ [Next]_vars => CountersContinue'
<1> SUFFICES ASSUME RowsInv, CountersContinue, [Next]_vars
             PROVE  CountersContinue'
  OBVIOUS
<1>1. CASE \E f \in Filters, pat \in Patterns : AddFilter(f, pat)
  BY <1>1, AddFilterCounts
<1>2. CASE \E f \in Filters : DeleteFilter(f)
  BY <1>2, DeleteFilterCounts
<1>3. CASE AccountRow
  BY <1>3, AccountRowCounts
<1>4. CASE \E r \in FrameRows : Frame(r)
  BY <1>4, FrameCounts
<1>5. CASE WriteRow \/ (\E r \in FrameRows : OversizedFrame(r)) \/ UNCHANGED vars
  <2>1. tree' = tree /\ entry' = entry /\ cur' = cur /\ cnt' = cnt /\ seen' = seen
    BY <1>5 DEF WriteRow, OversizedFrame, vars, driver
  <2>2. QED
    BY <2>1 DEF CountersContinue, UserCount, IsWild
<1>6. QED
  BY <1>1, <1>2, <1>3, <1>4, <1>5 DEF Next

\* What the user reads as a filter's count is the number of frames it had to
\* answer for, however often it lost its row and got it back, for every width
\* of the counters (edge_psfp.c:913-947, 976-1011).
THEOREM CountersAlwaysContinue == Spec => []CountersContinue
<1>1. Init => CountersContinue
  BY DEF Init, CountersContinue
<1>2. QED
  BY <1>1, RowsInit, RowsStep, CountsStep, PTL DEF Spec
=============================================================================
