------------------------------ MODULE FrerProofs ------------------------------
(***************************************************************************)
(* Theorems about Frer, for any streams, functions, ports and parameters.    *)
(*                                                                          *)
(* RecSound is not inductive: the first write for a function covers its       *)
(* whole list, and a deletion that comes first writes what is left of it.     *)
(* It holds because only a function that was applied has rows (RecRows).      *)
(* GenPartsOnly is about single steps, from any state in which a list has a   *)
(* stream once: a call writes rows of its own function only, and only rows    *)
(* nobody has (AppliedRows).  EncFollows is inductive as it stands.           *)
(***************************************************************************)
EXTENDS Frer, SequenceTheorems, TLAPS

GenFn == [there: BOOLEAN, dir: BOOLEAN, list: Seq(Streams)]
RecFn == [there: BOOLEAN, val: Values \cup {Unset}, ports: SUBSET Ports,
          list: SUBSET Streams, applied: BOOLEAN]

GenType == gen \in [Fns -> GenFn] /\ genTbl \in [Streams -> Fns \cup {NoFn}]
EncType ==
  /\ encActive \in [Ports -> Modes] /\ encList \in [Ports -> SUBSET Streams]
  /\ encMask \in [Streams -> SUBSET Ports]
  /\ modify \in [Streams -> SUBSET Ports] /\ output \in [Streams -> SUBSET Ports]
RecType ==
  /\ rec \in [Fns -> RecFn] /\ recTbl \in [Streams -> Fns \cup {NoFn}]
  /\ recCfg \in [Fns -> Values \cup {Unset}]

HasStr(list, str) == \E i \in DOMAIN list : list[i] = str

\* A stream is on a list once: seqgen_addstr looks before it adds.
Distinct(list) == \A i, j \in DOMAIN list : list[i] = list[j] => i = j
ListsDistinct == \A fn \in Fns : Distinct(gen[fn].list)

\* The rows of recovery belong to functions that list the stream and were applied.
RecRows ==
  \A str \in Streams :
    recTbl[str] # NoFn => /\ rec[recTbl[str]].there
                          /\ str \in rec[recTbl[str]].list
                          /\ rec[recTbl[str]].applied

FrerInv == area \in {"gen", "enc", "rec"} /\ GenType /\ ListsDistinct /\ EncType
           /\ EncFollows /\ RecType /\ RecRows

-----------------------------------------------------------------------------
(* Lists of streams.                                                        *)

\* RemoveFirst takes the element away and closes the gap.
LEMMA RemoveOne ==
  ASSUME NEW S, NEW list \in Seq(S), Distinct(list), NEW k \in DOMAIN list
  PROVE  LET r == RemoveFirst(list, list[k])
         IN /\ r \in Seq(S) /\ Len(r) = Len(list) - 1
            /\ \A i \in DOMAIN r : r[i] = IF i < k THEN list[i] ELSE list[i + 1]
<1> DEFINE I == {i \in 1..Len(list) : list[i] = list[k]}
<1>1. I = {k} /\ k \in 1..Len(list) /\ Len(list) \in Nat
  BY DEF Distinct
<1>2. Min(I) = k
  BY <1>1 DEF Min
<1>3. RemoveFirst(list, list[k]) = RemoveAt(list, k)
  BY <1>1, <1>2 DEF RemoveFirst, SelectInSeq
<1>4. RemoveAt(list, k) = SubSeq(list, 1, k - 1) \o SubSeq(list, k + 1, Len(list))
  BY DEF RemoveAt
<1>5. /\ SubSeq(list, 1, k - 1) \in Seq(S)
      /\ Len(SubSeq(list, 1, k - 1)) = k - 1
      /\ \A i \in 1..(k - 1) : SubSeq(list, 1, k - 1)[i] = list[i]
  BY <1>1
<1>6. /\ SubSeq(list, k + 1, Len(list)) \in Seq(S)
      /\ Len(SubSeq(list, k + 1, Len(list))) = Len(list) - k
      /\ \A i \in 1..(Len(list) - k) : SubSeq(list, k + 1, Len(list))[i] = list[k + i]
  BY <1>1
<1> DEFINE a == SubSeq(list, 1, k - 1)
           b == SubSeq(list, k + 1, Len(list))
<1>7. /\ a \in Seq(S) /\ Len(a) = k - 1 /\ \A i \in 1..(k - 1) : a[i] = list[i]
      /\ b \in Seq(S) /\ Len(b) = Len(list) - k
      /\ \A i \in 1..(Len(list) - k) : b[i] = list[k + i]
      /\ RemoveFirst(list, list[k]) = a \o b
  BY <1>3, <1>4, <1>5, <1>6
<1> HIDE DEF a, b
<1>8. /\ a \o b \in Seq(S) /\ Len(a \o b) = Len(list) - 1
      /\ \A i \in 1..(Len(list) - 1) :
           (a \o b)[i] = IF i <= k - 1 THEN a[i] ELSE b[i - (k - 1)]
  <2>1. a \in Seq(S) /\ b \in Seq(S)
    BY <1>7
  <2>2. /\ a \o b \in Seq(S) /\ Len(a \o b) = Len(a) + Len(b)
        /\ \A i \in 1..(Len(a) + Len(b)) :
             (a \o b)[i] = IF i <= Len(a) THEN a[i] ELSE b[i - Len(a)]
    BY <2>1, ConcatProperties
  <2>3. Len(a) = k - 1 /\ Len(b) = Len(list) - k /\ Len(a) + Len(b) = Len(list) - 1
    BY <1>1, <1>7
  <2>4. QED
    BY <2>2, <2>3
<1>9. ASSUME NEW i \in DOMAIN (a \o b)
      PROVE  (a \o b)[i] = IF i < k THEN list[i] ELSE list[i + 1]
  <2>1. i \in 1..(Len(list) - 1)
    BY <1>1, <1>8
  <2>2. CASE i < k
    BY <1>1, <1>7, <1>8, <2>1, <2>2
  <2>3. CASE ~(i < k)
    <3>1. i - (k - 1) \in 1..(Len(list) - k) /\ ~(i <= k - 1)
          /\ k + (i - (k - 1)) = i + 1
      BY <1>1, <2>1, <2>3
    <3>2. QED
      BY <1>7, <1>8, <2>1, <2>3, <3>1
  <2>4. QED
    BY <2>2, <2>3
<1>10. QED
  BY <1>7, <1>8, <1>9

\* What is left: every other element, each once.
LEMMA RemoveOneLeaves ==
  ASSUME NEW S, NEW list \in Seq(S), Distinct(list), NEW k \in DOMAIN list
  PROVE  LET r == RemoveFirst(list, list[k])
         IN /\ r \in Seq(S) /\ Distinct(r)
            /\ \A e : HasStr(r, e) <=> e # list[k] /\ HasStr(list, e)
<1> DEFINE r == RemoveFirst(list, list[k])
<1>1. /\ r \in Seq(S) /\ Len(r) = Len(list) - 1
      /\ \A i \in DOMAIN r : r[i] = IF i < k THEN list[i] ELSE list[i + 1]
  BY RemoveOne
<1> HIDE DEF r
<1>2. /\ DOMAIN r = 1..(Len(list) - 1) /\ DOMAIN list = 1..Len(list)
      /\ Len(list) \in Nat /\ k \in 1..Len(list)
  BY <1>1
<1> DEFINE from(i) == IF i < k THEN i ELSE i + 1
<1>3. Distinct(r)
  <2>1. \A i \in DOMAIN r : from(i) \in DOMAIN list /\ r[i] = list[from(i)]
    BY <1>1, <1>2
  <2>2. \A i, j \in DOMAIN r : from(i) = from(j) => i = j
    BY <1>2
  <2> HIDE DEF from
  <2>3. QED
    BY <2>1, <2>2 DEF Distinct
<1>4. ASSUME NEW i \in DOMAIN r
      PROVE  r[i] # list[k] /\ \E j \in DOMAIN list : list[j] = r[i]
  BY <1>1, <1>2 DEF Distinct
<1>5. ASSUME NEW j \in DOMAIN list, list[j] # list[k]
      PROVE  \E i \in DOMAIN r : r[i] = list[j]
  <2>1. CASE j < k
    <3>1. j \in DOMAIN r /\ r[j] = list[j]
      BY <1>1, <1>2, <2>1
    <3>2. QED
      BY <3>1
  <2>2. CASE j > k
    <3>1. j - 1 \in DOMAIN r /\ r[j - 1] = list[j]
      BY <1>1, <1>2, <2>2
    <3>2. QED
      BY <3>1
  <2>3. j # k
    BY <1>5
  <2>4. QED
    BY <1>2, <2>1, <2>2, <2>3
<1>6. \A e : HasStr(r, e) <=> e # list[k] /\ HasStr(list, e)
  BY <1>4, <1>5 DEF HasStr
<1>7. QED
  BY <1>1, <1>3, <1>6 DEF r

\* A list to which an element is appended that it does not have.
LEMMA AppendNew ==
  ASSUME NEW S, NEW list \in Seq(S), Distinct(list), NEW e \in S,
         ~HasStr(list, e)
  PROVE  /\ Append(list, e) \in Seq(S) /\ Distinct(Append(list, e))
         /\ \A x : HasStr(Append(list, e), x) <=> x = e \/ HasStr(list, x)
<1> DEFINE r == Append(list, e)
<1>1. /\ r \in Seq(S) /\ DOMAIN list = 1..Len(list) /\ Len(list) \in Nat
      /\ DOMAIN r = 1..(Len(list) + 1)
      /\ r[Len(list) + 1] = e
      /\ \A i \in 1..Len(list) : r[i] = list[i]
  OBVIOUS
<1> HIDE DEF r
<1>2. Distinct(r)
  <2>1. \A i \in 1..Len(list) : r[i] # e
    BY <1>1 DEF HasStr
  <2>2. QED
    BY <1>1, <2>1 DEF Distinct
<1>3. ASSUME NEW i \in DOMAIN r
      PROVE  r[i] = e \/ \E j \in DOMAIN list : list[j] = r[i]
  BY <1>1
<1>4. \E i \in DOMAIN r : r[i] = e
  BY <1>1
<1>5. ASSUME NEW j \in DOMAIN list PROVE j \in DOMAIN r /\ r[j] = list[j]
  BY <1>1
<1>6. \A x : HasStr(r, x) <=> x = e \/ HasStr(list, x)
  BY <1>3, <1>4, <1>5 DEF HasStr
<1>7. QED
  BY <1>1, <1>2, <1>6 DEF r

-----------------------------------------------------------------------------
(* Sequence generation: types and lists.                                    *)

\* One function is set, to something with a list that has no stream twice.
LEMMA GenSet ==
  ASSUME GenType, ListsDistinct, NEW fn \in Fns, NEW g \in GenFn, Distinct(g.list),
         gen' = [gen EXCEPT ![fn] = g],
         genTbl' \in [Streams -> Fns \cup {NoFn}]
  PROVE  GenType' /\ ListsDistinct'
BY DEF GenType, ListsDistinct

\* What applying a function writes are functions.
LEMMA AppliedType ==
  ASSUME GenType, NEW fn \in Fns, NEW g
  PROVE  Applied(g, fn) \in [Streams -> Fns \cup {NoFn}]
BY DEF GenType, Applied

\* The function a stream is added to, before it is applied (edgx_frer_seqgen_addstr).
WithStr(fn, str) ==
  IF HasStr(gen[fn].list, str) THEN gen[fn]
  ELSE [gen[fn] EXCEPT !.list = Append(@, str)]

\* It has the stream, once, and what it had.
LEMMA WithStrHas ==
  ASSUME GenType, ListsDistinct, NEW fn \in Fns, NEW str \in Streams
  PROVE  /\ WithStr(fn, str) \in GenFn /\ Distinct(WithStr(fn, str).list)
         /\ WithStr(fn, str).there = gen[fn].there
         /\ WithStr(fn, str).dir = gen[fn].dir
         /\ \A x : HasStr(WithStr(fn, str).list, x)
                     <=> x = str \/ HasStr(gen[fn].list, x)
<1>1. gen[fn] \in GenFn /\ gen[fn].list \in Seq(Streams) /\ Distinct(gen[fn].list)
  BY DEF GenType, GenFn, ListsDistinct
<1>2. CASE HasStr(gen[fn].list, str)
  BY <1>1, <1>2 DEF WithStr
<1>3. CASE ~HasStr(gen[fn].list, str)
  <2> DEFINE list == Append(gen[fn].list, str)
  <2>1. /\ list \in Seq(Streams) /\ Distinct(list)
        /\ \A x : HasStr(list, x) <=> x = str \/ HasStr(gen[fn].list, x)
    BY <1>1, <1>3, AppendNew
  <2>2. WithStr(fn, str) = [gen[fn] EXCEPT !.list = list]
    BY <1>3 DEF WithStr
  <2> HIDE DEF list
  <2>3. /\ WithStr(fn, str) \in GenFn /\ WithStr(fn, str).list = list
        /\ WithStr(fn, str).there = gen[fn].there
        /\ WithStr(fn, str).dir = gen[fn].dir
    BY <1>1, <2>1, <2>2 DEF GenFn
  <2>4. QED
    BY <2>1, <2>3
<1>4. QED
  BY <1>2, <1>3

\* The step of GenAddStr in terms of WithStr.
LEMMA GenAddStrSets ==
  ASSUME GenType, NEW fn \in Fns, NEW str \in Streams, GenAddStr(str, fn)
  PROVE  LET g == WithStr(fn, str)
         IN /\ gen' = [gen EXCEPT ![fn] = IF ApplyFails(g, fn)
                         THEN [g EXCEPT !.list = RemoveFirst(@, str)] ELSE g]
            /\ genTbl' = Applied(g, fn)
BY DEF GenAddStr, WithStr, HasStr

\* What is left of a function when a stream it lists is taken off.
LEMMA OffList ==
  ASSUME NEW g \in GenFn, Distinct(g.list), NEW str, HasStr(g.list, str)
  PROVE  LET h == [g EXCEPT !.list = RemoveFirst(@, str)]
         IN /\ h \in GenFn /\ Distinct(h.list) /\ h.there = g.there /\ h.dir = g.dir
            /\ \A x : HasStr(h.list, x) <=> x # str /\ HasStr(g.list, x)
<1> DEFINE r == RemoveFirst(g.list, str)
<1>1. PICK k \in DOMAIN g.list : str = g.list[k]
  BY DEF HasStr
<1>2. g.list \in Seq(Streams)
  BY DEF GenFn
<1>3. /\ r \in Seq(Streams) /\ Distinct(r)
      /\ \A x : HasStr(r, x) <=> x # str /\ HasStr(g.list, x)
  BY <1>1, <1>2, RemoveOneLeaves
<1> HIDE DEF r
<1>4. LET h == [g EXCEPT !.list = r]
      IN h \in GenFn /\ h.list = r /\ h.there = g.there /\ h.dir = g.dir
  BY <1>3 DEF GenFn
<1>5. QED
  BY <1>3, <1>4 DEF r

\* A function without direction and list.
LEMMA EmptyFn ==
  ASSUME NEW b \in BOOLEAN
  PROVE  LET g == [NoGen EXCEPT !.there = b]
         IN g \in GenFn /\ g.there = b /\ g.list = <<>> /\ Distinct(g.list)
            /\ g.dir = FALSE /\ \A x : ~HasStr(g.list, x)
<1>1. <<>> \in Seq(Streams) /\ DOMAIN <<>> = {}
  OBVIOUS
<1>2. Distinct(<<>>) /\ \A x : ~HasStr(<<>>, x)
  BY <1>1 DEF Distinct, HasStr
<1>3. QED
  BY <1>1, <1>2 DEF NoGen, GenFn

\* Types and lists survive every call of sequence generation.
LEMMA GenTypeStep ==
  ASSUME GenType, ListsDistinct, GenNext
  PROVE  GenType' /\ ListsDistinct'
<1>1. ASSUME NEW fn \in Fns, GenCreate(fn)
      PROVE  GenType' /\ ListsDistinct'
  <2>1. genTbl' = genTbl /\ gen' = [gen EXCEPT ![fn] = [NoGen EXCEPT !.there = TRUE]]
    BY <1>1 DEF GenCreate
  <2>2. genTbl' \in [Streams -> Fns \cup {NoFn}]
    BY <2>1 DEF GenType
  <2>3. QED
    BY <2>1, <2>2, EmptyFn, GenSet
<1>2. ASSUME NEW fn \in Fns, GenAddDir(fn)
      PROVE  GenType' /\ ListsDistinct'
  <2> DEFINE g == [gen[fn] EXCEPT !.dir = TRUE]
             h == [gen[fn] EXCEPT !.dir = ~ApplyFails(g, fn)]
  <2>1. gen' = [gen EXCEPT ![fn] = h] /\ genTbl' = Applied(g, fn)
    BY <1>2 DEF GenAddDir
  <2>2. gen[fn] \in GenFn /\ Distinct(gen[fn].list)
    BY DEF GenType, ListsDistinct
  <2>3. h \in GenFn /\ h.list = gen[fn].list
    <3>1. (~ApplyFails(g, fn)) \in BOOLEAN
      OBVIOUS
    <3> HIDE DEF g
    <3>2. QED
      BY <2>2, <3>1 DEF GenFn
  <2> HIDE DEF h
  <2>4. genTbl' \in [Streams -> Fns \cup {NoFn}]
    BY <2>1, AppliedType
  <2>5. QED
    BY <2>1, <2>2, <2>3, <2>4, GenSet
<1>3. ASSUME NEW fn \in Fns, GenDelFn(fn)
      PROVE  GenType' /\ ListsDistinct'
  <2>1. gen' = [gen EXCEPT ![fn] = NoGen]
        /\ genTbl' \in [Streams -> Fns \cup {NoFn}]
    BY <1>3 DEF GenDelFn, GenType
  <2>2. NoGen \in GenFn /\ Distinct(NoGen.list)
    BY DEF NoGen, GenFn, Distinct
  <2>3. QED
    BY <2>1, <2>2, GenSet
<1>4. ASSUME NEW fn \in Fns, NEW str \in Streams, GenAddStr(str, fn)
      PROVE  GenType' /\ ListsDistinct'
  <2> DEFINE g == WithStr(fn, str)
             h == [g EXCEPT !.list = RemoveFirst(@, str)]
  <2>1. gen' = [gen EXCEPT ![fn] = IF ApplyFails(g, fn) THEN h ELSE g]
        /\ genTbl' = Applied(g, fn)
    BY <1>4, GenAddStrSets
  <2>2. g \in GenFn /\ Distinct(g.list) /\ HasStr(g.list, str)
    BY WithStrHas
  <2> HIDE DEF g
  <2>3. h \in GenFn /\ Distinct(h.list)
    BY <2>2, OffList
  <2> HIDE DEF h
  <2>4. genTbl' \in [Streams -> Fns \cup {NoFn}]
    BY <2>1, AppliedType
  <2>5. QED
    BY <2>1, <2>2, <2>3, <2>4, GenSet
<1>5. ASSUME NEW str \in Streams, GenDelStr(str)
      PROVE  GenType' /\ ListsDistinct'
  <2> DEFINE fn == genTbl[str]
             h  == [gen[fn] EXCEPT !.list = RemoveFirst(@, str)]
  <2>1. fn \in Fns /\ HasStr(gen[fn].list, str) /\ gen' = [gen EXCEPT ![fn] = h]
        /\ genTbl' = [genTbl EXCEPT ![str] = NoFn]
    BY <1>5 DEF GenDelStr, GenType, HasStr
  <2>2. gen[fn] \in GenFn /\ Distinct(gen[fn].list)
    BY <2>1 DEF GenType, ListsDistinct
  <2>3. genTbl' \in [Streams -> Fns \cup {NoFn}]
    BY <2>1 DEF GenType
  <2> HIDE DEF fn
  <2>4. h \in GenFn /\ Distinct(h.list)
    BY <2>1, <2>2, OffList
  <2> HIDE DEF h
  <2>5. QED
    BY <2>1, <2>3, <2>4, GenSet
<1>6. QED
  BY <1>1, <1>2, <1>3, <1>4, <1>5 DEF GenNext

-----------------------------------------------------------------------------
(* Sequence generation: rows and lists.                                     *)

\* Lists, in terms of HasStr.
LEMMA ListsIs ==
  ASSUME NEW fn \in Fns, NEW str
  PROVE  Lists(fn, str) <=> gen[fn].there /\ HasStr(gen[fn].list, str)
BY DEF Lists, HasStr

\* The lists after one function was set.
LEMMA ListsSet ==
  ASSUME GenType, NEW fn \in Fns, NEW g, gen' = [gen EXCEPT ![fn] = g],
         NEW f \in Fns, NEW str
  PROVE  /\ Lists(f, str)' <=> IF f = fn THEN g.there /\ HasStr(g.list, str)
                                         ELSE Lists(f, str)
         /\ gen'[f] = IF f = fn THEN g ELSE gen[f]
BY DEF GenType, Lists, HasStr

\* Applying a function writes rows of streams on its list that nobody has, and all of them
\* unless it fails (edgx_frer_seqgen_apply).
LEMMA AppliedRows ==
  ASSUME GenType, NEW fn \in Fns, NEW g \in GenFn, NEW str \in Streams
  PROVE  /\ Applied(g, fn)[str] # genTbl[str] =>
              /\ Applied(g, fn)[str] = fn /\ genTbl[str] = NoFn
              /\ g.dir /\ HasStr(g.list, str)
         /\ g.dir /\ ~ApplyFails(g, fn) /\ HasStr(g.list, str) => Applied(g, fn)[str] = fn
<1> DEFINE reached == {i \in DOMAIN g.list : \A j \in Foreign(g.list, fn) : i < j}
<1>1. Applied(g, fn)[str] = IF g.dir /\ \E i \in reached : g.list[i] = str
                            THEN fn ELSE genTbl[str]
  BY DEF Applied
<1>2. ASSUME NEW i \in reached PROVE genTbl[g.list[i]] \in {NoFn, fn}
  <2>1. i \in DOMAIN g.list /\ i \notin Foreign(g.list, fn)
    <3>1. i \in Nat
      BY DEF GenFn
    <3> QED BY <3>1
  <2> QED BY <2>1 DEF Foreign
<1>3. ~ApplyFails(g, fn) /\ g.dir => reached = DOMAIN g.list
  BY DEF ApplyFails
<1> HIDE DEF reached
<1>4. reached \subseteq DOMAIN g.list
  BY DEF reached
<1> QED BY <1>1, <1>2, <1>3, <1>4 DEF HasStr

\* A stream that is new on the list is its last, and not reached if the call fails
\* (edgx_frer_seqgen_addstr).
LEMMA NewNotReached ==
  ASSUME GenType, NEW fn \in Fns, NEW str \in Streams, ~HasStr(gen[fn].list, str),
         ApplyFails(WithStr(fn, str), fn)
  PROVE  Applied(WithStr(fn, str), fn)[str] = genTbl[str]
<1> DEFINE g == WithStr(fn, str)
           list == Append(gen[fn].list, str)
           n == Len(gen[fn].list) + 1
<1>1. gen[fn] \in GenFn /\ gen[fn].list \in Seq(Streams)
  BY DEF GenType, GenFn
<1>2. g.list = list
  BY <1>1 DEF WithStr, GenFn
<1>3. /\ n \in Nat /\ DOMAIN list = 1..n
      /\ \A i \in 1..n : list[i] = str => i = n
  <2>1. n \in Nat /\ DOMAIN list = 1..n /\ \A i \in 1..(n - 1) : list[i] = gen[fn].list[i]
    BY <1>1
  <2> QED BY <1>1, <2>1 DEF HasStr
<1> HIDE DEF list, n
<1>4. PICK j \in DOMAIN g.list : j \in Foreign(g.list, fn)
  BY DEF ApplyFails, Foreign
<1>5. ASSUME NEW i \in DOMAIN g.list, g.list[i] = str, \A k \in Foreign(g.list, fn) : i < k
      PROVE  FALSE
  BY <1>2, <1>3, <1>4, <1>5
<1> HIDE DEF g
<1> QED BY <1>5 DEF Applied, g

\* A call that applies a function leaves the others' rows and lists together.
LEMMA OthersAgree ==
  ASSUME GenType, FrerAssumption, NEW fn \in Fns, NEW g \in GenFn, NEW h,
         gen' = [gen EXCEPT ![fn] = h], genTbl' = Applied(g, fn),
         NEW str \in Streams, NEW f \in Fns \ {fn}, Agree(str, f)
  PROVE  Agree(str, f)'
<1>1. (Lists(f, str)' <=> Lists(f, str)) /\ gen'[f] = gen[f]
  <2>1. gen'[f] = gen[f]
    BY DEF GenType
  <2> QED BY <2>1 DEF Lists
<1>2. genTbl'[str] # genTbl[str] => genTbl'[str] = fn /\ genTbl[str] = NoFn
  BY AppliedRows
<1> QED BY <1>1, <1>2 DEF Agree, FrerAssumption

\* edgx_frer_seqgen_addstr
LEMMA GenAddStrParts ==
  ASSUME GenType, ListsDistinct, FrerAssumption, NEW fn \in Fns, NEW s \in Streams,
         GenAddStr(s, fn), NEW str \in Streams, NEW f \in Fns, Agree(str, f)
  PROVE  Agree(str, f)' \/ AddedAgain(str, f)
<1> DEFINE g == WithStr(fn, s)
           h == [g EXCEPT !.list = RemoveFirst(@, s)]
<1>1. /\ gen' = [gen EXCEPT ![fn] = IF ApplyFails(g, fn) THEN h ELSE g]
      /\ genTbl' = Applied(g, fn)
  BY GenAddStrSets
<1>2. /\ g \in GenFn /\ Distinct(g.list) /\ g.there = gen[fn].there /\ g.dir = gen[fn].dir
      /\ \A x : HasStr(g.list, x) <=> x = s \/ HasStr(gen[fn].list, x)
  BY WithStrHas
<1>3. gen[fn].there
  BY DEF GenAddStr
<1>4. ApplyFails(g, fn) /\ ~HasStr(gen[fn].list, s) => Applied(g, fn)[s] = genTbl[s]
  BY NewNotReached
<1> HIDE DEF g
<1>5. /\ h.there = g.there /\ h.dir = g.dir
      /\ \A x : HasStr(h.list, x) <=> x # s /\ HasStr(g.list, x)
  BY <1>2, OffList
<1> HIDE DEF h
<1>6. CASE f # fn
  BY <1>1, <1>2, <1>6, OthersAgree
<1>7. CASE f = fn /\ ~ApplyFails(g, fn)
  <2>1. /\ Lists(f, str)' <=> HasStr(g.list, str)
        /\ gen'[f].dir = g.dir
    <3>1. gen' = [gen EXCEPT ![fn] = g]
      BY <1>1, <1>7
    <3>2. /\ Lists(f, str)' <=> IF f = fn THEN g.there /\ HasStr(g.list, str)
                                          ELSE Lists(f, str)
          /\ gen'[f] = IF f = fn THEN g ELSE gen[f]
      BY <3>1, ListsSet
    <3> QED BY <1>2, <1>3, <1>7, <3>2
  <2>2. Lists(f, str) <=> HasStr(gen[fn].list, str)
    BY <1>3, <1>7, ListsIs
  <2>3. /\ genTbl'[str] # genTbl[str] => HasStr(g.list, str)
        /\ g.dir /\ HasStr(g.list, str) => genTbl'[str] = fn
    BY <1>1, <1>2, <1>7, AppliedRows
  <2> QED BY <1>2, <1>7, <2>1, <2>2, <2>3 DEF Agree
<1>8. CASE f = fn /\ ApplyFails(g, fn)
  <2>1. /\ Lists(f, str)' <=> str # s /\ HasStr(g.list, str)
        /\ gen'[f].dir = g.dir /\ gen'[f].there
    <3>1. gen' = [gen EXCEPT ![fn] = h]
      BY <1>1, <1>8
    <3>2. /\ Lists(f, str)' <=> IF f = fn THEN h.there /\ HasStr(h.list, str)
                                          ELSE Lists(f, str)
          /\ gen'[f] = IF f = fn THEN h ELSE gen[f]
      BY <3>1, ListsSet
    <3> QED BY <1>2, <1>3, <1>5, <1>8, <3>2
  <2>2. \A x \in Streams : Lists(f, x) <=> HasStr(gen[fn].list, x)
    BY <1>3, <1>8, ListsIs
  <2>3. genTbl'[str] # genTbl[str] =>
          /\ genTbl'[str] = fn /\ genTbl[str] = NoFn /\ HasStr(g.list, str)
    BY <1>1, <1>2, AppliedRows
  <2>4. CASE str # s
    BY <1>2, <1>8, <2>1, <2>2, <2>3, <2>4 DEF Agree
  <2>5. CASE str = s /\ ~HasStr(gen[fn].list, s)
    BY <1>1, <1>4, <1>8, <2>1, <2>2, <2>5 DEF Agree
  <2>6. CASE str = s /\ HasStr(gen[fn].list, s) /\ ~Agree(str, f)'
    <3>1. genTbl'[str] = fn
      BY <1>8, <2>1, <2>6 DEF Agree
    <3>2. PICK i \in DOMAIN g.list : genTbl[g.list[i]] \notin {NoFn, fn}
      BY <1>8 DEF ApplyFails, Foreign
    <3>3. g.list[i] \in Streams /\ HasStr(g.list, g.list[i])
      BY <1>2 DEF GenFn, HasStr
    <3>4. g.list[i] # str
      BY <2>3, <3>1, <3>2
    <3>5. Lists(f, g.list[i]) /\ Lists(f, str)
      BY <1>2, <2>2, <2>6, <3>3, <3>4
    <3> QED BY <1>8, <2>1, <2>6, <3>2, <3>3, <3>4, <3>5 DEF AddedAgain
  <2> QED BY <2>4, <2>5, <2>6
<1> QED BY <1>6, <1>7, <1>8

\* _seqgen_rbt_del_entry
LEMMA GenDelFnParts ==
  ASSUME GenType, FrerAssumption, NEW fn \in Fns, GenDelFn(fn),
         NEW str \in Streams, NEW f \in Fns, Agree(str, f)
  PROVE  Agree(str, f)' \/ DeletedBeside(str, f)
<1>1. PICK read : /\ FreedKept => read = gen[fn].list
                  /\ genTbl' = [x \in Streams |->
                       IF \E i \in DOMAIN gen[fn].list : read[i] = x THEN NoFn ELSE genTbl[x]]
  BY DEF GenDelFn
<1>2. gen[fn].there /\ gen' = [gen EXCEPT ![fn] = NoGen] /\ ~NoGen.there
  BY DEF GenDelFn, NoGen
<1>3. /\ Lists(f, str)' <=> f # fn /\ Lists(f, str)
      /\ gen'[f] = IF f = fn THEN NoGen ELSE gen[f]
      /\ ~gen'[fn].there
  BY <1>2, ListsSet DEF GenType
<1>4. Lists(fn, str) <=> \E i \in DOMAIN gen[fn].list : gen[fn].list[i] = str
  BY <1>2 DEF Lists
<1>5. genTbl'[str] = NoFn \/ genTbl'[str] = genTbl[str]
  BY <1>1
<1>6. CASE gen[fn].list = <<>>
  <2>1. genTbl'[str] = genTbl[str] /\ ~Lists(fn, str)
    BY <1>1, <1>4, <1>6
  <2> QED BY <1>3, <2>1 DEF Agree
<1>7. CASE gen[fn].list # <<>> /\ ~FreedKept
  BY <1>2, <1>3, <1>7 DEF DeletedBeside
<1>8. CASE gen[fn].list # <<>> /\ FreedKept
  <2>1. genTbl'[str] = IF Lists(fn, str) THEN NoFn ELSE genTbl[str]
    BY <1>1, <1>4, <1>8
  <2>2. CASE f = fn
    BY <1>3, <2>1, <2>2 DEF Agree, FrerAssumption
  <2>3. CASE f # fn /\ Lists(fn, str)
    BY <1>2, <1>3, <1>8, <2>3 DEF DeletedBeside
  <2>4. CASE f # fn /\ ~Lists(fn, str)
    BY <1>3, <2>1, <2>4 DEF Agree
  <2> QED BY <2>2, <2>3, <2>4
<1> QED BY <1>6, <1>7, <1>8

\* Every call of sequence generation.
LEMMA GenParts ==
  ASSUME GenType, ListsDistinct, FrerAssumption, GenNext,
         NEW str \in Streams, NEW f \in Fns, Agree(str, f)
  PROVE  Agree(str, f)' \/ DeletedBeside(str, f) \/ AddedAgain(str, f)
<1>1. ASSUME NEW fn \in Fns, GenCreate(fn)
      PROVE  Agree(str, f)'
  <2> DEFINE g == [NoGen EXCEPT !.there = TRUE]
  <2>1. ~gen[fn].there /\ genTbl' = genTbl /\ gen' = [gen EXCEPT ![fn] = g]
    BY <1>1 DEF GenCreate
  <2>2. \A x : ~HasStr(g.list, x)
    BY EmptyFn
  <2> HIDE DEF g
  <2>3. /\ Lists(f, str)' <=> f # fn /\ Lists(f, str)
        /\ gen'[f] = IF f = fn THEN g ELSE gen[f]
    <3>1. gen' = [gen EXCEPT ![fn] = g]
      BY <2>1
    <3>2. /\ Lists(f, str)' <=> IF f = fn THEN g.there /\ HasStr(g.list, str)
                                          ELSE Lists(f, str)
          /\ gen'[f] = IF f = fn THEN g ELSE gen[f]
      BY <3>1, ListsSet
    <3> QED BY <2>2, <3>2
  <2>4. ~Lists(fn, str)
    BY <2>1 DEF Lists
  <2> QED BY <2>1, <2>3, <2>4 DEF Agree
<1>2. ASSUME NEW fn \in Fns, GenAddDir(fn)
      PROVE  Agree(str, f)'
  <2> DEFINE g == [gen[fn] EXCEPT !.dir = TRUE]
             h == [gen[fn] EXCEPT !.dir = ~ApplyFails(g, fn)]
  <2>1. gen[fn].there /\ genTbl' = Applied(g, fn) /\ gen' = [gen EXCEPT ![fn] = h]
    BY <1>2 DEF GenAddDir
  <2>2. gen[fn] \in GenFn /\ g \in GenFn /\ g.dir /\ g.list = gen[fn].list
    BY DEF GenType, GenFn
  <2> HIDE DEF g
  <2>3. h.list = gen[fn].list /\ h.there = gen[fn].there /\ h.dir = ~ApplyFails(g, fn)
    BY <2>2 DEF GenFn
  <2> HIDE DEF h
  <2>4. CASE f # fn
    BY <2>1, <2>2, <2>4, OthersAgree
  <2>5. CASE f = fn
    <3>1. /\ Lists(f, str)' <=> HasStr(g.list, str)
          /\ gen'[f].dir = ~ApplyFails(g, fn)
      <4>1. /\ Lists(f, str)' <=> IF f = fn THEN h.there /\ HasStr(h.list, str)
                                            ELSE Lists(f, str)
            /\ gen'[f] = IF f = fn THEN h ELSE gen[f]
        BY <2>1, ListsSet
      <4> QED BY <2>1, <2>2, <2>3, <2>5, <4>1
    <3>2. Lists(f, str) <=> HasStr(g.list, str)
      BY <2>1, <2>2, <2>5, ListsIs
    <3>3. /\ genTbl'[str] # genTbl[str] => HasStr(g.list, str)
          /\ ~ApplyFails(g, fn) /\ HasStr(g.list, str) => genTbl'[str] = fn
      BY <2>1, <2>2, AppliedRows
    <3> QED BY <2>5, <3>1, <3>2, <3>3 DEF Agree
  <2> QED BY <2>4, <2>5
<1>3. ASSUME NEW s \in Streams, GenDelStr(s)
      PROVE  Agree(str, f)'
  <2> DEFINE fn == genTbl[s]
             h  == [gen[fn] EXCEPT !.list = RemoveFirst(@, s)]
  <2>1. /\ fn \in Fns /\ gen[fn].there /\ HasStr(gen[fn].list, s)
        /\ gen' = [gen EXCEPT ![fn] = h] /\ genTbl' = [genTbl EXCEPT ![s] = NoFn]
    BY <1>3 DEF GenDelStr, GenType, HasStr
  <2>2. gen[fn] \in GenFn /\ Distinct(gen[fn].list)
    BY <2>1 DEF GenType, ListsDistinct
  <2>3. genTbl'[str] = IF str = s THEN NoFn ELSE genTbl[str]
    BY <2>1 DEF GenType
  <2>4. str = s => genTbl[str] = fn
    OBVIOUS
  <2> HIDE DEF fn
  <2>5. /\ h.there = gen[fn].there /\ h.dir = gen[fn].dir
        /\ \A x : HasStr(h.list, x) <=> x # s /\ HasStr(gen[fn].list, x)
    BY <2>1, <2>2, OffList
  <2> HIDE DEF h
  <2>6. /\ Lists(f, str)' <=> IF f = fn THEN h.there /\ HasStr(h.list, str)
                                        ELSE Lists(f, str)
        /\ gen'[f] = IF f = fn THEN h ELSE gen[f]
    BY <2>1, ListsSet
  <2>7. /\ Lists(f, str)' <=> Lists(f, str) /\ (f = fn => str # s)
        /\ gen'[f].dir = gen[f].dir
    BY <2>1, <2>5, <2>6, ListsIs
  <2> QED BY <2>3, <2>4, <2>7 DEF Agree, FrerAssumption
<1> QED BY <1>1, <1>2, <1>3, GenAddStrParts, GenDelFnParts DEF GenNext

-----------------------------------------------------------------------------
(* Sequence encoding: list, mask and hardware.                              *)

\* What writing the streams of a port does to its bits, and to no others.
LEMMA EncApplyBits ==
  ASSUME EncType, NEW p \in Ports, NEW mode, NEW list, EncApply(p, mode, list)
  PROVE  /\ modify' \in [Streams -> SUBSET Ports] /\ output' \in [Streams -> SUBSET Ports]
         /\ \A str \in Streams, q \in Ports :
              LET on == q = p /\ mode \in {"active", "passive"} /\ str \in list
              IN /\ q \in modify'[str] <=> q \in modify[str] \/ on
                 /\ q \in output'[str] <=> IF on THEN mode = "active"
                                                 ELSE q \in output[str]
BY DEF EncType, EncApply

\* What clearing streams of a port does, if a mask is empty when no other port has a bit.
LEMMA EncApplyDelBits ==
  ASSUME EncType, NEW p \in Ports, NEW strs, EncApplyDel(p, strs),
         \A str \in Streams : encMask'[str] = {} =>
           \A q \in Ports : q \in modify[str] \cup output[str] => q = p
  PROVE  /\ modify' \in [Streams -> SUBSET Ports] /\ output' \in [Streams -> SUBSET Ports]
         /\ \A str \in Streams, q \in Ports :
              /\ q \in modify'[str] <=> q \in modify[str] /\ ~(q = p /\ str \in strs)
              /\ q \in output'[str] <=> q \in output[str] /\ ~(q = p /\ str \in strs)
BY DEF EncType, EncApplyDel

\* Types and EncFollows survive every call of sequence encoding.
LEMMA EncStep ==
  ASSUME EncType, EncFollows, EncNext
  PROVE  EncType' /\ EncFollows'
<1>1. ASSUME NEW p \in Ports, EncCreate(p)
      PROVE  EncType' /\ EncFollows'
  BY <1>1 DEF EncCreate, EncType, EncFollows, Modes
<1>2. ASSUME NEW p \in Ports, NEW mode \in {"active", "passive"}, EncSetActive(p, mode)
      PROVE  EncType' /\ EncFollows'
  <2>1. /\ encActive[p] # "undefined" /\ encActive' = [encActive EXCEPT ![p] = mode]
        /\ encList' = encList /\ encMask' = encMask /\ EncApply(p, mode, encList[p])
    BY <1>2 DEF EncSetActive
  <2>2. /\ modify' \in [Streams -> SUBSET Ports] /\ output' \in [Streams -> SUBSET Ports]
        /\ \A str \in Streams, q \in Ports :
             LET on == q = p /\ mode \in {"active", "passive"} /\ str \in encList[p]
             IN /\ q \in modify'[str] <=> q \in modify[str] \/ on
                /\ q \in output'[str] <=> IF on THEN mode = "active"
                                                ELSE q \in output[str]
    BY <2>1, EncApplyBits
  <2>3. EncType'
    BY <2>1, <2>2 DEF EncType, Modes
  <2>4. EncFollows'
    BY <2>1, <2>2 DEF EncType, EncFollows
  <2>5. QED
    BY <2>3, <2>4
<1>3. ASSUME NEW p \in Ports, NEW str \in Streams, EncAddStr(str, p)
      PROVE  EncType' /\ EncFollows'
  <2> DEFINE mode == encActive[p]
             list == encList[p] \cup {str}
  <2>1. /\ mode # "undefined" /\ encActive' = encActive
        /\ encList' = [encList EXCEPT ![p] = list]
        /\ encMask' = [encMask EXCEPT ![str] = @ \cup {p}] /\ EncApply(p, mode, list)
    BY <1>3 DEF EncAddStr, EncType
  <2>2. /\ modify' \in [Streams -> SUBSET Ports] /\ output' \in [Streams -> SUBSET Ports]
        /\ \A s \in Streams, q \in Ports :
             LET on == q = p /\ mode \in {"active", "passive"} /\ s \in list
             IN /\ q \in modify'[s] <=> q \in modify[s] \/ on
                /\ q \in output'[s] <=> IF on THEN mode = "active"
                                              ELSE q \in output[s]
    <3> HIDE DEF mode, list
    <3>1. QED
      BY <2>1, EncApplyBits
  <2>3. EncType'
    <3>1. /\ encActive' \in [Ports -> Modes] /\ encList' \in [Ports -> SUBSET Streams]
          /\ encMask' \in [Streams -> SUBSET Ports]
      BY <2>1 DEF EncType
    <3>2. modify' \in [Streams -> SUBSET Ports] /\ output' \in [Streams -> SUBSET Ports]
      BY <2>2
    <3> QED BY <3>1, <3>2 DEF EncType
  <2>4. EncFollows'
    BY <2>1, <2>2 DEF EncType, EncFollows
  <2>5. QED
    BY <2>3, <2>4
<1>4. ASSUME NEW p \in Ports, EncDelPort(p)
      PROVE  EncType' /\ EncFollows'
  <2>1. /\ encMask' = [s \in Streams |-> encMask[s] \ {p}] /\ EncApplyDel(p, encList[p])
        /\ encList' = [encList EXCEPT ![p] = {}]
        /\ encActive' = [encActive EXCEPT ![p] = "undefined"]
    BY <1>4 DEF EncDelPort
  <2>2. \A s \in Streams : encMask'[s] = {} =>
          \A q \in Ports : q \in modify[s] \cup output[s] => q = p
    BY <2>1 DEF EncType, EncFollows
  <2>3. /\ modify' \in [Streams -> SUBSET Ports] /\ output' \in [Streams -> SUBSET Ports]
        /\ \A s \in Streams, q \in Ports :
             /\ q \in modify'[s] <=> q \in modify[s] /\ ~(q = p /\ s \in encList[p])
             /\ q \in output'[s] <=> q \in output[s] /\ ~(q = p /\ s \in encList[p])
    BY <2>1, <2>2, EncApplyDelBits
  <2>4. EncType'
    BY <2>1, <2>3 DEF EncType, Modes
  <2>5. EncFollows'
    BY <2>1, <2>3 DEF EncType, EncFollows
  <2>6. QED
    BY <2>4, <2>5
<1>5. ASSUME NEW p \in Ports, NEW str \in Streams, EncDelStr(str, p)
      PROVE  EncType' /\ EncFollows'
  <2>1. /\ encList' = [encList EXCEPT ![p] = @ \ {str}]
        /\ encActive' = [encActive EXCEPT ![p] = IF encList'[p] = {}
                                                 THEN "undefined" ELSE @]
        /\ encMask' = IF str \in encList[p] THEN [encMask EXCEPT ![str] = @ \ {p}]
                      ELSE encMask
        /\ EncApplyDel(p, encList[p] \cap {str})
    BY <1>5 DEF EncDelStr
  <2>2. \A s \in Streams : encMask'[s] = {} =>
          \A q \in Ports : q \in modify[s] \cup output[s] => q = p
    BY <2>1 DEF EncType, EncFollows
  <2>3. /\ modify' \in [Streams -> SUBSET Ports] /\ output' \in [Streams -> SUBSET Ports]
        /\ \A s \in Streams, q \in Ports :
             /\ q \in modify'[s]
                  <=> q \in modify[s] /\ ~(q = p /\ s \in encList[p] \cap {str})
             /\ q \in output'[s]
                  <=> q \in output[s] /\ ~(q = p /\ s \in encList[p] \cap {str})
    BY <2>1, <2>2, EncApplyDelBits
  <2>4. EncType'
    BY <2>1, <2>3 DEF EncType, Modes
  <2>5. EncFollows'
    BY <2>1, <2>3 DEF EncType, EncFollows
  <2>6. QED
    BY <2>4, <2>5
<1>6. QED
  BY <1>1, <1>2, <1>3, <1>4, <1>5 DEF EncNext

-----------------------------------------------------------------------------
(* Sequence recovery: no row without a function that lists its stream.       *)

\* The types after a function was applied.
LEMMA RecApplyType ==
  ASSUME RecType, NEW fn \in Fns, NEW r \in RecFn, NEW strs, NEW to \in {fn, NoFn},
         RecApply(fn, r, strs, to)
  PROVE  RecType'
<1>1. recTbl' \in [Streams -> Fns \cup {NoFn}]
  BY DEF RecApply, RecType
<1>2. recCfg' \in [Fns -> Values \cup {Unset}]
  BY DEF RecApply, RecType, RecFn
<1> DEFINE h == [r EXCEPT !.applied = @ \/ AllSet(r) \/ to = NoFn]
<1>3. rec' = [rec EXCEPT ![fn] = h]
  BY DEF RecApply
<1>4. h \in RecFn
  BY DEF RecFn
<1> HIDE DEF h
<1>5. QED
  BY <1>1, <1>2, <1>3, <1>4 DEF RecType

\* The functions after one was applied.
LEMMA RecApplyFns ==
  ASSUME RecType, NEW fn \in Fns, NEW r \in RecFn, NEW strs, NEW to,
         RecApply(fn, r, strs, to)
  PROVE  /\ \A f \in Fns \ {fn} : rec'[f] = rec[f]
         /\ rec'[fn].there = r.there /\ rec'[fn].list = r.list
         /\ rec'[fn].applied <=> r.applied \/ AllSet(r) \/ to = NoFn
<1> DEFINE h == [r EXCEPT !.applied = @ \/ AllSet(r) \/ to = NoFn]
<1>1. rec' = [rec EXCEPT ![fn] = h]
  BY DEF RecApply
<1>2. /\ h.there = r.there /\ h.list = r.list
      /\ h.applied <=> r.applied \/ AllSet(r) \/ to = NoFn
  BY DEF RecFn
<1> HIDE DEF h
<1>3. QED
  BY <1>1, <1>2 DEF RecType

\* A function that has become more is applied: its rows are of streams it lists.
LEMMA RecAdds ==
  ASSUME RecType, RecRows, FrerAssumption, NEW fn \in Fns, NEW r \in RecFn, r.there,
         rec[fn].list \subseteq r.list, rec[fn].applied => r.applied,
         NEW strs \in SUBSET r.list, RecApply(fn, r, strs, fn)
  PROVE  RecType' /\ RecRows'
<1>1. RecType'
  BY RecApplyType
<1>2. /\ \A f \in Fns \ {fn} : rec'[f] = rec[f]
      /\ rec'[fn].there /\ rec'[fn].list = r.list
      /\ rec'[fn].applied <=> r.applied \/ AllSet(r)
  <2>1. fn # NoFn
    BY DEF FrerAssumption
  <2>2. QED
    BY <2>1, RecApplyFns
<1>3. \E rows \in SUBSET r.list :
        /\ rows # {} => AllSet(r)
        /\ recTbl' = [s \in Streams |-> IF s \in rows THEN fn ELSE recTbl[s]]
  BY DEF RecApply, FrerAssumption
<1>4. PICK rows \in SUBSET r.list :
        /\ rows # {} => AllSet(r)
        /\ \A s \in Streams : recTbl'[s] = IF s \in rows THEN fn ELSE recTbl[s]
  BY <1>3
<1>5. ASSUME NEW str \in Streams, recTbl'[str] # NoFn
      PROVE  (/\ rec[recTbl[str]].there
              /\ str \in rec[recTbl[str]].list
              /\ rec[recTbl[str]].applied)'
  <2>1. CASE str \in rows
    BY <1>2, <1>4, <2>1
  <2>2. CASE str \notin rows
    <3>1. recTbl'[str] = recTbl[str] /\ recTbl[str] \in Fns
      BY <1>4, <1>5, <2>2 DEF RecType
    <3>2. /\ rec[recTbl[str]].there /\ str \in rec[recTbl[str]].list
          /\ rec[recTbl[str]].applied
      BY <1>5, <3>1 DEF RecRows
    <3>3. CASE recTbl[str] = fn
      BY <1>2, <3>1, <3>2, <3>3
    <3>4. CASE recTbl[str] # fn
      BY <1>2, <3>1, <3>2, <3>4
    <3>5. QED
      BY <3>3, <3>4
  <2>3. QED
    BY <2>1, <2>2
<1>6. QED
  BY <1>1, <1>5 DEF RecRows

\* Types and rows survive every call of sequence recovery.
LEMMA RecStep ==
  ASSUME RecType, RecRows, FrerAssumption, RecNext
  PROVE  RecType' /\ RecRows'
<1>0. \A f \in Fns : rec[f] \in RecFn
  BY DEF RecType
<1>1. ASSUME NEW fn \in Fns, RecCreate(fn)
      PROVE  RecType' /\ RecRows'
  <2> DEFINE g == [NoRec EXCEPT !.there = TRUE]
  <2>1. /\ ~rec[fn].there /\ rec' = [rec EXCEPT ![fn] = g]
        /\ recTbl' = recTbl /\ recCfg' = recCfg
    BY <1>1 DEF RecCreate
  <2>2. g \in RecFn
    BY DEF NoRec, RecFn
  <2> HIDE DEF g
  <2>3. \A str \in Streams : recTbl[str] # fn
    BY <2>1 DEF RecRows, FrerAssumption
  <2>4. QED
    BY <2>1, <2>2, <2>3 DEF RecType, RecRows
<1>2. ASSUME NEW fn \in Fns, NEW v \in Values, RecSet(fn, v)
      PROVE  RecType' /\ RecRows'
  <2> DEFINE r == [rec[fn] EXCEPT !.val = v]
  <2>1. rec[fn].there /\ RecApply(fn, r, {}, fn)
    BY <1>2 DEF RecSet
  <2>2. /\ r \in RecFn /\ r.there = rec[fn].there /\ r.list = rec[fn].list
        /\ r.applied = rec[fn].applied
    BY <1>0 DEF RecFn
  <2> HIDE DEF r
  <2>3. QED
    BY <2>1, <2>2, RecAdds
<1>3. ASSUME NEW fn \in Fns, NEW p \in Ports, RecAddPort(fn, p)
      PROVE  RecType' /\ RecRows'
  <2> DEFINE r == [rec[fn] EXCEPT !.ports = @ \cup {p}]
  <2>1. rec[fn].there /\ RecApply(fn, r, {}, fn)
    BY <1>3 DEF RecAddPort
  <2>2. /\ r \in RecFn /\ r.there = rec[fn].there /\ r.list = rec[fn].list
        /\ r.applied = rec[fn].applied
    BY <1>0 DEF RecFn
  <2> HIDE DEF r
  <2>3. QED
    BY <2>1, <2>2, RecAdds
<1>4. ASSUME NEW fn \in Fns, NEW p \in Ports, RecDelPort(fn, p)
      PROVE  RecType' /\ RecRows'
  <2> DEFINE r == [rec[fn] EXCEPT !.ports = @ \ {p}]
  <2>1. rec' = [rec EXCEPT ![fn] = r] /\ recTbl' = recTbl /\ recCfg' = recCfg
    BY <1>4 DEF RecDelPort
  <2>2. /\ r \in RecFn /\ r.there = rec[fn].there /\ r.list = rec[fn].list
        /\ r.applied = rec[fn].applied
    BY <1>0 DEF RecFn
  <2> HIDE DEF r
  <2>3. QED
    BY <2>1, <2>2 DEF RecType, RecRows
<1>5. ASSUME NEW fn \in Fns, NEW str \in Streams, RecAddStr(fn, str)
      PROVE  RecType' /\ RecRows'
  <2> DEFINE r == [rec[fn] EXCEPT !.list = @ \cup {str}]
  <2>1. rec[fn].there /\ RecApply(fn, r, {str}, fn)
    BY <1>5 DEF RecAddStr
  <2>2. /\ r \in RecFn /\ r.there = rec[fn].there /\ r.list = rec[fn].list \cup {str}
        /\ r.applied = rec[fn].applied
    BY <1>0 DEF RecFn
  <2> HIDE DEF r
  <2>3. {str} \in SUBSET r.list /\ rec[fn].list \subseteq r.list
    BY <2>2
  <2>4. QED
    BY <2>1, <2>2, <2>3, RecAdds
<1>6. ASSUME NEW fn \in Fns, NEW str \in Streams, RecDelStr(fn, str)
      PROVE  RecType' /\ RecRows'
  <2> DEFINE r == [rec[fn] EXCEPT !.list = @ \ {str}]
  <2>1. /\ rec[fn].there /\ str \in rec[fn].list /\ RecApply(fn, r, {str}, NoFn)
    BY <1>6 DEF RecDelStr
  <2>2. /\ r \in RecFn /\ r.there = rec[fn].there /\ r.list = rec[fn].list \ {str}
        /\ r.applied = rec[fn].applied
    BY <1>0 DEF RecFn
  <2> HIDE DEF r
  <2>3. RecType'
    BY <2>1, <2>2, RecApplyType
  <2>4. /\ \A f \in Fns \ {fn} : rec'[f] = rec[f]
        /\ rec'[fn].there = r.there /\ rec'[fn].list = r.list /\ rec'[fn].applied
    BY <2>1, <2>2, RecApplyFns
  <2>5. \A s \in Streams : recTbl'[s] \in {recTbl[s], NoFn}
    BY <2>1 DEF RecApply
  <2>6. recTbl'[str] # fn
    <3>1. CASE r.applied /\ ~Taken(str, fn)
      BY <2>1, <3>1 DEF RecApply, FrerAssumption
    <3>2. CASE Taken(str, fn)
      BY <2>5, <3>2 DEF Taken, FrerAssumption
    <3>3. CASE ~r.applied
      <4>1. recTbl[str] # fn
        BY <2>2, <3>3 DEF RecRows, FrerAssumption
      <4>2. QED
        BY <2>5, <4>1 DEF FrerAssumption
    <3>4. QED
      BY <3>1, <3>2, <3>3
  <2>7. ASSUME NEW s \in Streams, recTbl'[s] # NoFn
        PROVE  (/\ rec[recTbl[s]].there
                /\ s \in rec[recTbl[s]].list
                /\ rec[recTbl[s]].applied)'
    <3>1. recTbl'[s] = recTbl[s] /\ recTbl[s] \in Fns
      BY <2>5, <2>7 DEF RecType
    <3>2. /\ rec[recTbl[s]].there /\ s \in rec[recTbl[s]].list
          /\ rec[recTbl[s]].applied
      BY <2>7, <3>1 DEF RecRows
    <3>3. CASE recTbl[s] = fn
      BY <2>2, <2>4, <2>6, <3>1, <3>2, <3>3
    <3>4. CASE recTbl[s] # fn
      BY <2>4, <3>1, <3>2, <3>4
    <3>5. QED
      BY <3>3, <3>4
  <2>8. QED
    BY <2>3, <2>7 DEF RecRows
<1>7. ASSUME NEW fn \in Fns, RecDelFn(fn)
      PROVE  RecType' /\ RecRows'
  <2>1. /\ rec' = [rec EXCEPT ![fn] = NoRec] /\ NoRec \in RecFn
        /\ recCfg' \in [Fns -> Values \cup {Unset}]
        /\ recTbl' \in [Streams -> Fns \cup {NoFn}]
    <3>1. rec' = [rec EXCEPT ![fn] = NoRec] /\ NoRec \in RecFn
      BY <1>7 DEF RecDelFn, NoRec, RecFn
    <3>2. recCfg' \in [Fns -> Values \cup {Unset}]
      BY <1>0, <1>7 DEF RecDelFn, RecType, RecFn
    <3>3. recTbl' \in [Streams -> Fns \cup {NoFn}]
      BY <1>7 DEF RecDelFn, RecType
    <3>4. QED
      BY <3>1, <3>2, <3>3
  <2>2. \A s \in Streams :
          /\ recTbl'[s] \in {recTbl[s], NoFn}
          /\ s \in rec[fn].list /\ ~Taken(s, fn) => recTbl'[s] = NoFn
    BY <1>7 DEF RecDelFn
  <2>3. \A s \in Streams : recTbl'[s] # fn
    BY <2>2 DEF RecRows, RecType, Taken, FrerAssumption
  <2>4. QED
    BY <2>1, <2>2, <2>3 DEF RecType, RecRows
<1>8. QED
  BY <1>1, <1>2, <1>3, <1>4, <1>5, <1>6, <1>7 DEF RecNext

-----------------------------------------------------------------------------
(* The theorems.                                                            *)

LEMMA FrerInit == FrerAssumption /\ Init => FrerInv
<1> SUFFICES ASSUME FrerAssumption, Init PROVE FrerInv
  OBVIOUS
<1>1. NoGen \in GenFn /\ Distinct(NoGen.list)
  BY DEF NoGen, GenFn, Distinct
<1>2. GenType /\ ListsDistinct
  BY <1>1 DEF Init, GenType, ListsDistinct
<1>3. EncType /\ EncFollows
  BY DEF Init, EncType, EncFollows, Modes
<1>4. RecType /\ RecRows
  BY DEF Init, RecType, RecRows, NoRec, RecFn
<1>5. QED
  BY <1>2, <1>3, <1>4 DEF Init, FrerInv

\* Every call keeps FrerInv; the other two kinds of function are left alone.
LEMMA FrerStep ==
  ASSUME FrerAssumption, FrerInv, [Next]_vars
  PROVE  FrerInv'
<1> USE DEF FrerInv
<1>1. CASE area = "gen" /\ GenNext /\ UNCHANGED <<area, encVars, recVars>>
  <2>1. GenType' /\ ListsDistinct'
    BY <1>1, GenTypeStep
  <2>2. EncType' /\ EncFollows'
    BY <1>1 DEF encVars, EncType, EncFollows
  <2>3. RecType' /\ RecRows'
    BY <1>1 DEF recVars, RecType, RecRows
  <2>4. QED
    BY <1>1, <2>1, <2>2, <2>3
<1>2. CASE area = "enc" /\ EncNext /\ UNCHANGED <<area, genVars, recVars>>
  <2>1. GenType' /\ ListsDistinct'
    BY <1>2 DEF genVars, GenType, ListsDistinct
  <2>2. EncType' /\ EncFollows'
    BY <1>2, EncStep
  <2>3. RecType' /\ RecRows'
    BY <1>2 DEF recVars, RecType, RecRows
  <2>4. QED
    BY <1>2, <2>1, <2>2, <2>3
<1>3. CASE area = "rec" /\ RecNext /\ UNCHANGED <<area, genVars, encVars>>
  <2>1. GenType' /\ ListsDistinct'
    BY <1>3 DEF genVars, GenType, ListsDistinct
  <2>2. EncType' /\ EncFollows'
    BY <1>3 DEF encVars, EncType, EncFollows
  <2>3. RecType' /\ RecRows'
    BY <1>3, RecStep
  <2>4. QED
    BY <1>3, <2>1, <2>2, <2>3
<1>4. CASE UNCHANGED vars
  BY <1>4 DEF vars, genVars, encVars, recVars, GenType, ListsDistinct, EncType,
              EncFollows, RecType, RecRows
<1>5. QED
  BY <1>1, <1>2, <1>3, <1>4 DEF Next

\* Types, lists without a stream twice, encodings in step with the hardware, and rows
\* of recovery functions that were applied (edge_frer.c), however users build and
\* delete functions, even if they list a stream in two.
THEOREM FrerInvHolds == Spec => []FrerInv
<1>1. Init => FrerInv
  BY FrerInit, FrerAssumption
<1>2. FrerInv /\ [Next]_vars => FrerInv'
  BY FrerStep, FrerAssumption
<1>3. QED
  BY <1>1, <1>2, PTL DEF Spec

\* No stream is eliminated for a recovery function that is gone or does not list it
\* (edgx_frer_seqrec_apply, edgx_frer_seqrec_delfn).
THEOREM FrerInvCorrect == Spec => []Inv
<1>1. FrerInv => TypeOK
  BY DEF FrerInv, TypeOK, GenType, EncType, RecType, GenFn, RecFn
<1>2. FrerInv => RecSound
  BY DEF FrerInv, RecSound, RecRows
<1>3. FrerInv => Inv
  BY <1>1, <1>2 DEF Inv
<1>4. QED
  BY <1>3, FrerInvHolds, PTL

\* List, port mask and both columns of the hardware agree on every stream's encoding
\* (edgx_frer_seqenc_apply, edgx_frer_seqenc_applydel).
THEOREM EncFollowsCorrect == Spec => []EncFollows
<1>1. FrerInv => EncFollows
  BY DEF FrerInv
<1>2. QED
  BY <1>1, FrerInvHolds, PTL

\* Table and lists of sequence generation part about a stream only when a function that
\* shares it, or whose freed handles are read, is deleted, or when the stream is added again
\* to a function that has lost another one; no other call and no roll back parts them
\* (edgx_frer_seqgen_apply, edgx_frer_seqgen_addstr, _seqgen_rbt_del_entry).
THEOREM GenPartsOnlyCorrect == Spec => GenPartsOnly
<1> DEFINE Parts(str, fn) == Agree(str, fn) /\ ~Agree(str, fn)' =>
                               DeletedBeside(str, fn) \/ AddedAgain(str, fn)
<1>1. FrerInv /\ [Next]_vars =>
        [\A str \in Streams, fn \in Fns : Parts(str, fn)]_vars
  <2> SUFFICES ASSUME FrerInv, [Next]_vars, NEW str \in Streams, NEW fn \in Fns,
                      Agree(str, fn), ~Agree(str, fn)'
               PROVE  DeletedBeside(str, fn) \/ AddedAgain(str, fn)
    OBVIOUS
  <2>1. CASE GenNext
    BY <2>1, GenParts, FrerAssumption DEF FrerInv
  <2>2. CASE UNCHANGED genVars
    BY <2>2 DEF genVars, Agree, Lists
  <2> QED BY <2>1, <2>2 DEF Next, vars
<1> QED BY <1>1, FrerInvHolds, PTL DEF Spec, GenPartsOnly

=============================================================================
