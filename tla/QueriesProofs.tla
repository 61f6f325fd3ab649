---------------------------- MODULE QueriesProofs ----------------------------
(***************************************************************************)
(* Proofs about Queries, for every set of traces, filters, pages, columns   *)
(* and windows and every bound: what the readers, whose statements run      *)
(* between promotions and deletions, still promise.                         *)
(***************************************************************************)
EXTENDS Queries, FiniteSetTheorems, FunctionTheorems, TLAPS

(* The largest and the smallest of two numbers.                            *)
LEMMA MaxOfTwo ==
  ASSUME NEW a \in Int, NEW b \in Int
  PROVE  Max({a, b}) = IF a < b THEN b ELSE a
  <1> DEFINE m == IF a < b THEN b ELSE a
  <1>1. m \in {a, b} /\ \A y \in {a, b} : m >= y
    OBVIOUS
  <1>2. \A x \in {a, b} : (\A y \in {a, b} : x >= y) => x = m
    OBVIOUS
  <1> HIDE DEF m
  <1>3. (CHOOSE x \in {a, b} : \A y \in {a, b} : x >= y) = m
    BY <1>1, <1>2
  <1> QED BY <1>3 DEF Max, m

LEMMA MinOfTwo ==
  ASSUME NEW a \in Int, NEW b \in Int
  PROVE  Min({a, b}) = IF a < b THEN a ELSE b
  <1> DEFINE m == IF a < b THEN a ELSE b
  <1>1. m \in {a, b} /\ \A y \in {a, b} : m <= y
    OBVIOUS
  <1>2. \A x \in {a, b} : (\A y \in {a, b} : x <= y) => x = m
    OBVIOUS
  <1> HIDE DEF m
  <1>3. (CHOOSE x \in {a, b} : \A y \in {a, b} : x <= y) = m
    BY <1>1, <1>2
  <1> QED BY <1>3 DEF Min, m

-----------------------------------------------------------------------------
(* The types of the calls.                                                 *)
RowType == [what : Kinds, created : Times]
Keys(x) == {w[x.col] : w \in Kinds}
Chains  == {w.error_chain : w \in Kinds}
Options == UNION {Values(x[1], Facets[x[2]]) : x \in Kinds \X (1..6)}

ListType ==
  [op : {"list"}, start : SUBSET Nat, upTo : Nat, x : Lists, page : Nat,
   stage : {"count", "page", "turn", "done"}, total : 0..MaxRows, as : Int, got : Nat,
   seen : SUBSET Nat]
OptionsType ==
  [op : {"options"}, start : SUBSET Nat, upTo : Nat, f : Filters,
   options : Seq(SUBSET Options), cut : BOOLEAN]
AggregateType(x) ==
  [op : {"aggregate"}, start : SUBSET Nat, upTo : Nat, x : Aggregates,
   results : SUBSET [key : Keys(x), count : 1..MaxRows, top : SUBSET Chains],
   groups : SUBSET [key : Keys(x), count : 1..MaxRows]]

(* The rows there are were there when the call began or came since.        *)
Began ==
  /\ call.upTo \in 0..Len(promoted)
  /\ call.start \subseteq 1..call.upTo
  /\ Rows \subseteq Touched

TableOK ==
  /\ promoted \in Seq(RowType) /\ Len(promoted) <= MaxRows
  /\ gone \subseteq 1..Len(promoted)

ListOK == call.op = "list" => call \in ListType /\ call.seen \subseteq Touched

OptionsOK ==
  call.op = "options" =>
    /\ call \in OptionsType
    /\ \A i \in DOMAIN call.options : i \in 3..5 => "" \notin call.options[i]

AggregateOK ==
  call.op = "aggregate" =>
    call \in AggregateType(call.x) /\ \A g \in call.results : Cardinality(g.top) <= Top

(* The inductive invariant behind TypeOK.                                  *)
TInv ==
  /\ TableOK
  /\ call.op \in {"none", "list", "options", "aggregate"}
  /\ ListOK /\ OptionsOK /\ AggregateOK
  /\ call.op /= "none" => Began

(* Sets of rows are finite.                                                *)
LEMMA RowSets ==
  ASSUME TInv, NEW S \in SUBSET (1..Len(promoted))
  PROVE  IsFiniteSet(S) /\ Cardinality(S) \in 0..MaxRows /\ Cardinality(S) \in Nat
  <1> DEFINE n == Len(promoted)
  <1>1. n \in Nat /\ n <= MaxRows /\ MaxRows \in Nat
    BY BoundsAssumption DEF TInv, TableOK
  <1> HIDE DEF n
  <1>2. IsFiniteSet(1..n) /\ Cardinality(1..n) = n
    <2>1. Cardinality(1..n) = (IF 1 > n THEN 0 ELSE n - 1 + 1) /\ IsFiniteSet(1..n)
      BY <1>1, FS_Interval
    <2> QED BY <1>1, <2>1
  <1>3. S \in SUBSET (1..n)
    BY DEF n
  <1>4. IsFiniteSet(S) /\ Cardinality(S) <= n
    BY <1>2, <1>3, FS_Subset
  <1>5. Cardinality(S) \in Nat
    BY <1>4, FS_CardinalityType
  <1> QED BY <1>1, <1>4, <1>5

LEMMA RowParts ==
  ASSUME NEW x \in RowType
  PROVE  x.what \in Kinds /\ x.created \in Nat
  BY TimesAssumption DEF RowType

LEMMA RowsAreRows ==
  ASSUME TInv
  PROVE  /\ Rows = (1..Len(promoted)) \ gone /\ Len(promoted) \in Nat
         /\ \A r \in 1..Len(promoted) :
              r \in Nat /\ promoted[r] \in RowType /\ What(r) \in Kinds /\ promoted[r].created \in Nat
  <1>1. promoted \in Seq(RowType) /\ DOMAIN promoted = 1..Len(promoted) /\ Len(promoted) \in Nat
    BY DEF TInv, TableOK
  <1>2. \A r \in 1..Len(promoted) : promoted[r] \in RowType
    BY <1>1
  <1>3. ASSUME NEW r \in 1..Len(promoted)
        PROVE  r \in Nat /\ What(r) \in Kinds /\ promoted[r].created \in Nat
    <2>1. promoted[r] \in RowType /\ r \in Nat
      BY <1>1, <1>2
    <2> QED BY <2>1, RowParts DEF What
  <1>4. Rows = (1..Len(promoted)) \ gone
    BY <1>1 DEF Rows
  <1> QED BY <1>1, <1>2, <1>3, <1>4

-----------------------------------------------------------------------------
(* What the other goroutines do to the table: rows come at the end, and    *)
(* rows go.                                                                *)
Others ==
  /\ call' = call
  /\ promoted' \in Seq(RowType)
  /\ Len(promoted) <= Len(promoted') /\ Len(promoted') <= MaxRows
  /\ \A r \in 1..Len(promoted) : promoted'[r] = promoted[r]
  /\ gone \subseteq gone' /\ gone' \subseteq 1..Len(promoted)

LEMMA PromoteStep ==
  ASSUME TInv, NEW w \in Kinds, NEW t \in Times, Promote(w, t)
  PROVE  /\ Others /\ gone' = gone
         /\ Len(promoted') = Len(promoted) + 1
         /\ Rows' = Rows \cup {Len(promoted) + 1}
  <1> DEFINE row == [what |-> w, created |-> t]
             n == Len(promoted)
  <1>1. row \in RowType
    BY DEF RowType
  <1>2. /\ promoted \in Seq(RowType) /\ n \in Nat /\ n < MaxRows /\ gone \subseteq 1..n
        /\ promoted' = Append(promoted, row) /\ UNCHANGED <<gone, call>>
    BY DEF TInv, TableOK, Promote
  <1>3. MaxRows \in Nat
    BY BoundsAssumption
  <1> HIDE DEF row
  <1>4. /\ promoted' \in Seq(RowType) /\ Len(promoted') = n + 1
        /\ \A r \in 1..n : promoted'[r] = promoted[r]
    BY <1>1, <1>2
  <1>5. Others
    BY <1>2, <1>3, <1>4 DEF Others
  <1>6. DOMAIN promoted' = 1..(n + 1) /\ DOMAIN promoted = 1..n
    BY <1>2, <1>4
  <1>7. Rows' = Rows \cup {n + 1}
    BY <1>2, <1>6 DEF Rows
  <1> QED BY <1>2, <1>4, <1>5, <1>7

LEMMA DeleteStep ==
  ASSUME TInv, NEW r \in Rows, Delete(r)
  PROVE  /\ Others /\ promoted' = promoted /\ gone' = gone \cup {r}
         /\ r \in 1..Len(promoted) /\ r \notin gone
         /\ Rows' = Rows \ {r}
  <1>1. r \in 1..Len(promoted) /\ r \notin gone
    BY RowsAreRows
  <1>2. promoted' = promoted /\ gone' = gone \cup {r} /\ call' = call
    BY DEF Delete
  <1>3. Others
    BY <1>1, <1>2 DEF Others, TInv, TableOK
  <1> QED BY <1>1, <1>2, <1>3 DEF Rows

(* What that means to a call under way.                                    *)
LEMMA OthersSteps ==
  ASSUME TInv, Others
  PROVE  /\ TInv'
         /\ \A r \in 1..Len(promoted) : What(r)' = What(r) /\ promoted'[r] = promoted[r]
         /\ call.op /= "none" =>
              /\ Stayed' \subseteq Stayed /\ Touched \subseteq Touched'
              /\ Stayed \subseteq Touched
              /\ Touched \subseteq 1..Len(promoted)
  <1> DEFINE n == Len(promoted)
             m == Len(promoted')
  <1>1. /\ n \in Nat /\ m \in Nat /\ n <= m
        /\ DOMAIN promoted = 1..n /\ DOMAIN promoted' = 1..m
    BY DEF TInv, TableOK, Others
  <1>2. Rows = (1..n) \ gone /\ Rows' = (1..m) \ gone'
    BY <1>1 DEF Rows
  <1> HIDE DEF n, m
  <1>3. ASSUME call.op /= "none"
        PROVE  /\ Stayed' \subseteq Stayed /\ Touched \subseteq Touched'
               /\ Stayed \subseteq Touched /\ Touched \subseteq 1..n
               /\ Began'
    <2> DEFINE u == call.upTo
    <2>1. /\ u \in 0..n /\ call.start \subseteq 1..u /\ Rows \subseteq Touched
      BY <1>3 DEF TInv, Began, n
    <2>2. Touched = call.start \cup ((u + 1)..n) /\ Touched' = call.start \cup ((u + 1)..m)
      BY DEF Touched, Others, n, m
    <2>3. Stayed = call.start \cap Rows /\ Stayed' = call.start \cap Rows'
      BY DEF Stayed, Others
    <2> HIDE DEF u
    <2>4. Stayed' \subseteq Stayed
      BY <1>1, <1>2, <2>1, <2>3 DEF Others
    <2>5. Touched \subseteq Touched' /\ Stayed \subseteq Touched /\ Touched \subseteq 1..n
      BY <1>1, <2>1, <2>2, <2>3
    <2>6. Rows' \subseteq Touched'
      <3>1. ASSUME NEW r \in Rows' PROVE r \in Touched'
        <4>1. r \in 1..m /\ r \notin gone
          BY <1>2 DEF Others
        <4>2. CASE r \in 1..n
          BY <1>2, <2>1, <2>5, <4>1, <4>2
        <4>3. CASE r \notin 1..n
          BY <1>1, <2>1, <2>2, <4>1, <4>3
        <4> QED BY <4>2, <4>3
      <3> QED BY <3>1
    <2>7. u \in 0..m
      BY <1>1, <2>1
    <2> QED BY <2>1, <2>4, <2>5, <2>6, <2>7 DEF Began, Others, m, u
  <1>4. \A r \in 1..n : What(r)' = What(r) /\ promoted'[r] = promoted[r]
    BY DEF Others, What, n
  <1>5. TInv'
    <2>1. gone' \subseteq 1..m
      BY <1>1 DEF Others, n
    <2>2. call.op = "list" => call.seen \subseteq Touched'
      BY <1>3 DEF TInv, ListOK
    <2>3. TableOK'
      BY <2>1 DEF Others, TableOK, m
    <2>4. ListOK' /\ OptionsOK' /\ AggregateOK'
      BY <2>2 DEF TInv, Others, ListOK, OptionsOK, AggregateOK
    <2> QED BY <1>3, <2>3, <2>4 DEF TInv, Others
  <1> QED BY <1>3, <1>4, <1>5 DEF n

-----------------------------------------------------------------------------
(* How many rows of the walk have been read, and what it has not shown.    *)
Offset(page) == (Max({page, 1}) - 1) * PageLength(call.x.perPage)

Walked ==
  IF call.stage = "turn" THEN Max({call.page, 1}) * PageLength(call.x.perPage)
  ELSE Offset(call.page)

Before(x, r) == {s \in Selected(x.f) : Precedes(x.sort, x.dir, s, r)}

Unseen  == {r \in Stayed : Selects(call.x.f, What(r)) /\ Alone(r)} \ call.seen
Skipped ==
  IF call.stage = "done" THEN Unseen
  ELSE {r \in Unseen : Cardinality(Before(call.x, r)) < Walked}
Removed == {r \in Touched \cap gone : Selects(call.x.f, What(r))}

(* The inductive invariant behind WalkMissesNothing.                       *)
WInv ==
  call.op = "list" =>
    /\ \A r \in call.seen : Selects(call.x.f, What(r))
    /\ Cardinality(Skipped) <= Cardinality(Removed)

(* The inductive invariant behind TotalFitsPage: the total is that of the   *)
(* traces there are, but for what changed since the count.                 *)
Near(total, f, at) ==
  total - Cardinality(Selected(f)) \in (at - Changes)..(Changes - at)

FInv ==
  call.op = "list" /\ call.stage = "page" => Near(call.total, call.x.f, call.as)

(* The inductive invariant behind AggregateIsTrue.                         *)
OfGroup(rows, key) ==
  {r \in Group(call.x.col, key, rows) :
     call.x.since = None \/ promoted[r].created >= call.x.since}

CountIsTrue(g) ==
  /\ g.count \in Cardinality(OfGroup(Stayed, g.key))..Cardinality(OfGroup(Touched, g.key))
  /\ g.count >= Least(call.x)

ChainsAreTrue(g) ==
  /\ \A x \in g.top : \E r \in OfGroup(Touched, g.key) : What(r).error_chain = x
  /\ \A r \in OfGroup(Stayed, g.key) :
       Cardinality(g.top) < Top - 1 => What(r).error_chain \in g.top \cup {""}

Listed(key) == \E g \in call.groups \cup call.results : g.key = key

AInv ==
  call.op = "aggregate" =>
    /\ \A g \in call.groups \cup call.results : CountIsTrue(g)
    /\ \A g \in call.results : ChainsAreTrue(g)
    /\ \A r \in Stayed :
         LET key == What(r)[call.x.col]
         IN  Cardinality(OfGroup(Stayed, key)) >= Least(call.x) => Listed(key)

-----------------------------------------------------------------------------
(* Rows in an order in which equals may come in any order: those before a  *)
(* row count its rank, which rows that are not equal do not share.         *)
LEMMA SortKeys ==
  ASSUME TInv, NEW sort, NEW r \in Rows
  PROVE  SortKey(sort, r) \in Int
  <1>1. What(r) \in Kinds /\ promoted[r].created \in Nat
    BY RowsAreRows
  <1>2. What(r).status \in Int
    BY <1>1, KindsAssumption
  <1> QED BY <1>1, <1>2 DEF SortKey, What

LEMMA RowsInOrder ==
  ASSUME TInv, NEW x \in Lists
  PROVE  /\ IsFiniteSet(Selected(x.f)) /\ Cardinality(Selected(x.f)) \in 0..MaxRows
         /\ \A r \in Selected(x.f) :
              IsFiniteSet(Before(x, r)) /\ Cardinality(Before(x, r)) \in Nat
         /\ \A r, s \in Selected(x.f) :
              Cardinality(Before(x, r)) = Cardinality(Before(x, s)) =>
                SortKey(x.sort, r) = SortKey(x.sort, s)
  <1> DEFINE S == Selected(x.f)
             key == [r \in S |-> SortKey(x.sort, r)]
  <1>1. S \in SUBSET (1..Len(promoted)) /\ S \subseteq Rows
    BY RowsAreRows DEF Selected
  <1>2. IsFiniteSet(S) /\ Cardinality(S) \in 0..MaxRows
    BY <1>1, RowSets
  <1>3. key \in [S -> Int]
    BY <1>1, SortKeys
  <1>4. ASSUME NEW r \in S, NEW s
        PROVE  s \in Before(x, r) <=>
                 s \in S /\ IF x.dir = "asc" THEN key[s] < key[r] ELSE key[r] < key[s]
    <2>1. s \in Before(x, r) <=> s \in S /\ Precedes(x.sort, x.dir, s, r)
      BY Zenon DEF Before
    <2>2. key[r] = SortKey(x.sort, r) /\ \A q \in S : key[q] = SortKey(x.sort, q)
      OBVIOUS
    <2> HIDE DEF key, S
    <2> QED BY <2>1, <2>2 DEF Precedes
  <1> HIDE DEF key, S
  <1>5. \A r \in S : IsFiniteSet(Before(x, r)) /\ Cardinality(Before(x, r)) \in Nat
    <2> SUFFICES ASSUME NEW r \in S
                 PROVE  IsFiniteSet(Before(x, r)) /\ Cardinality(Before(x, r)) \in Nat
      OBVIOUS
    <2>1. Before(x, r) \in SUBSET S
      BY <1>4
    <2> QED BY <1>2, <2>1, FS_Subset, FS_CardinalityType
  <1>6. ASSUME NEW r \in S, NEW s \in S, r \in Before(x, s)
        PROVE  Cardinality(Before(x, r)) < Cardinality(Before(x, s))
    <2>1. r \notin Before(x, r)
      BY <1>3, <1>4
    <2>2. IsFiniteSet(Before(x, r) \cup {r})
          /\ Cardinality(Before(x, r) \cup {r}) = Cardinality(Before(x, r)) + 1
      BY <1>5, <2>1, FS_AddElement
    <2>3. (Before(x, r) \cup {r}) \in SUBSET Before(x, s)
      <3> SUFFICES ASSUME NEW t \in Before(x, r) PROVE t \in Before(x, s)
        BY <1>6
      <3> QED BY <1>3, <1>4, <1>6
    <2>4. Cardinality(Before(x, r) \cup {r}) <= Cardinality(Before(x, s))
      BY <1>5, <2>3, FS_Subset
    <2> QED BY <1>5, <2>2, <2>4
  <1>7. ASSUME NEW r \in S, NEW s \in S,
               Cardinality(Before(x, r)) = Cardinality(Before(x, s))
        PROVE  SortKey(x.sort, r) = SortKey(x.sort, s)
    <2>1. r \notin Before(x, s) /\ s \notin Before(x, r)
      BY <1>5, <1>6, <1>7
    <2>2. key[r] = key[s]
      BY <1>3, <1>4, <2>1
    <2> QED BY <2>2 DEF key
  <1> QED BY <1>2, <1>5, <1>7 DEF S

(* The first k rows, and all of them if there are no more.                 *)
LEMMA FirstsAre ==
  ASSUME NEW x, NEW R, IsFiniteSet(R), NEW k \in Nat, NEW Q \in Firsts(x, R, k)
  PROVE  /\ Q \subseteq R /\ IsFiniteSet(Q) /\ Cardinality(R) \in Nat
         /\ Cardinality(Q) = (IF k < Cardinality(R) THEN k ELSE Cardinality(R))
         /\ Q /= R => Cardinality(Q) = k
         /\ Cardinality(R \ Q) = Cardinality(R) - Cardinality(Q) /\ IsFiniteSet(R \ Q)
         /\ \A q \in Q, s \in R \ Q : ~Precedes(x.sort, x.dir, s, q)
  <1>1. /\ Q \in SUBSET R /\ Cardinality(Q) = Min({k, Cardinality(R)})
        /\ \A q \in Q, s \in R \ Q : ~Precedes(x.sort, x.dir, s, q)
    BY Zenon DEF Firsts
  <1>2. Cardinality(R) \in Nat
    BY FS_CardinalityType
  <1>3. Cardinality(Q) = (IF k < Cardinality(R) THEN k ELSE Cardinality(R))
    BY <1>1, <1>2, MinOfTwo
  <1>4. IsFiniteSet(Q) /\ (Cardinality(R) = Cardinality(Q) => R = Q)
    BY <1>1, FS_Subset
  <1>5. IsFiniteSet(R \ Q) /\ Cardinality(R \ Q) = Cardinality(R) - Cardinality(R \cap Q)
    BY FS_Difference
  <1>6. R \cap Q = Q
    BY <1>1
  <1> QED BY <1>1, <1>2, <1>3, <1>4, <1>5, <1>6

LEMMA PageLengthType ==
  ASSUME NEW x \in Lists
  PROVE  PageLength(x.perPage) \in Nat /\ PageLength(x.perPage) >= 1 /\ x.page \in {0, 1}
  <1>1. x.perPage \in Int /\ x.page \in {0, 1}
    BY CallsAssumption
  <1> QED BY <1>1 DEF PageLength

LEMMA OffsetType ==
  ASSUME NEW x \in Lists, NEW page \in Nat
  PROVE  /\ Max({page, 1}) = (IF page < 1 THEN 1 ELSE page)
         /\ (Max({page, 1}) - 1) * PageLength(x.perPage) \in Nat
         /\ Max({page, 1}) * PageLength(x.perPage) =
              (Max({page, 1}) - 1) * PageLength(x.perPage) + PageLength(x.perPage)
  <1> DEFINE n == PageLength(x.perPage)
  <1>1. n \in Nat
    BY PageLengthType
  <1>2. Max({page, 1}) = (IF page < 1 THEN 1 ELSE page)
    BY MaxOfTwo
  <1> DEFINE k == Max({page, 1}) - 1
  <1>3. k \in Nat /\ Max({page, 1}) = k + 1
    BY <1>2
  <1> HIDE DEF n, k
  <1>4. k * n \in Nat /\ (k + 1) * n = k * n + n
    BY <1>1, <1>3
  <1>5. (Max({page, 1}) - 1) * n \in Nat /\ Max({page, 1}) * n = (Max({page, 1}) - 1) * n + n
    BY <1>3, <1>4 DEF k
  <1> QED BY <1>2, <1>5 DEF n

(* A page has as many rows as there are from its offset on.  A row that it *)
(* does not have, and that is equal to no other, ranks before the offset   *)
(* or after the page, and the page is not empty then.                      *)
LEMMA PageHas ==
  ASSUME TInv, NEW x \in Lists, NEW page \in Nat, NEW P \in Pages(x, page)
  PROVE  LET n == PageLength(x.perPage)
             o == (Max({page, 1}) - 1) * n
             m == Cardinality(Selected(x.f))
         IN  /\ P \subseteq Selected(x.f) /\ IsFiniteSet(P)
             /\ Cardinality(P) = Min({n, Max({0, m - o})})
             /\ \A r \in Selected(x.f) \ P :
                  (\A s \in Selected(x.f) \ {r} : SortKey(x.sort, s) /= SortKey(x.sort, r)) =>
                    \/ Cardinality(Before(x, r)) < o
                    \/ P /= {} /\ Cardinality(Before(x, r)) >= o + n
  <1> DEFINE n == PageLength(x.perPage)
             o == (Max({page, 1}) - 1) * n
             S == Selected(x.f)
             m == Cardinality(S)
  <1>1. n \in Nat /\ n >= 1 /\ o \in Nat
    BY PageLengthType, OffsetType
  <1>2. IsFiniteSet(S) /\ m \in Nat /\ S \subseteq Rows
    <2>1. IsFiniteSet(S) /\ m \in Nat
      BY RowsInOrder, BoundsAssumption
    <2>2. S \subseteq Rows
      BY DEF Selected
    <2> QED BY <2>1, <2>2
  <1>3. PICK Q \in Firsts(x, S, o) : P \in Firsts(x, S \ Q, n)
    BY Zenon DEF Pages
  <1> HIDE DEF n, o, S
  <1>a. \A R, k, T :
          IsFiniteSet(R) /\ k \in Nat /\ T \in Firsts(x, R, k) =>
            /\ T \subseteq R /\ IsFiniteSet(T)
            /\ Cardinality(T) = (IF k < Cardinality(R) THEN k ELSE Cardinality(R))
            /\ T /= R => Cardinality(T) = k
            /\ Cardinality(R \ T) = Cardinality(R) - Cardinality(T) /\ IsFiniteSet(R \ T)
            /\ \A q \in T, s \in R \ T : ~Precedes(x.sort, x.dir, s, q)
    BY FirstsAre, Zenon
  <1>4. /\ Q \subseteq S /\ IsFiniteSet(Q) /\ IsFiniteSet(S \ Q)
        /\ Cardinality(Q) = (IF o < m THEN o ELSE m)
        /\ Q /= S => Cardinality(Q) = o
        /\ Cardinality(S \ Q) = m - Cardinality(Q)
        /\ \A q \in Q, s \in S \ Q : ~Precedes(x.sort, x.dir, s, q)
    BY <1>1, <1>2, <1>3, <1>a, Zenon
  <1>5. /\ P \subseteq S \ Q /\ IsFiniteSet(P)
        /\ Cardinality(P) = (IF n < Cardinality(S \ Q) THEN n ELSE Cardinality(S \ Q))
        /\ P /= S \ Q => Cardinality(P) = n
        /\ \A q \in P, s \in (S \ Q) \ P : ~Precedes(x.sort, x.dir, s, q)
    BY <1>1, <1>3, <1>4, <1>a, Zenon
  <1>6. Cardinality(P) = Min({n, Max({0, m - o})})
    <2>1. Max({0, m - o}) = (IF 0 < m - o THEN m - o ELSE 0)
      BY <1>1, <1>2, MaxOfTwo
    <2>2. Min({n, Max({0, m - o})}) =
            (IF n < Max({0, m - o}) THEN n ELSE Max({0, m - o}))
      BY <1>1, <1>2, <2>1, MinOfTwo
    <2> QED BY <1>1, <1>2, <1>4, <1>5, <2>1, <2>2
  <1>7. ASSUME NEW r \in S \ P,
               \A s \in S \ {r} : SortKey(x.sort, s) /= SortKey(x.sort, r)
        PROVE  \/ Cardinality(Before(x, r)) < o
               \/ P /= {} /\ Cardinality(Before(x, r)) >= o + n
    <2>1. IsFiniteSet(Before(x, r)) /\ Cardinality(Before(x, r)) \in Nat
      BY RowsInOrder DEF S
    <2>2. \A s : s \in Before(x, r) <=> s \in S /\ Precedes(x.sort, x.dir, s, r)
      BY Zenon DEF Before, S
    <2>3. \A s \in S : SortKey(x.sort, s) \in Int
      BY <1>2, SortKeys
    <2>4. \A s \in S \ {r} : ~Precedes(x.sort, x.dir, r, s) => s \in Before(x, r)
      <3> SUFFICES ASSUME NEW s \in S \ {r}, ~Precedes(x.sort, x.dir, r, s)
                   PROVE  Precedes(x.sort, x.dir, s, r)
        BY <2>2
      <3>1. PICK a \in Int, b \in Int : a = SortKey(x.sort, r) /\ b = SortKey(x.sort, s)
        BY <2>3
      <3>2. a /= b
        BY <1>7, <3>1
      <3>3. CASE x.dir = "asc"
        BY <3>1, <3>2, <3>3 DEF Precedes
      <3>4. CASE x.dir /= "asc"
        BY <3>1, <3>2, <3>4 DEF Precedes
      <3> QED BY <3>3, <3>4
    <2>5. r \notin Before(x, r)
      <3>1. SortKey(x.sort, r) \in Int
        BY <2>3
      <3> QED BY <2>2, <3>1 DEF Precedes
    <2>6. CASE r \in Q
      <3>1. Before(x, r) \in SUBSET (Q \ {r})
        BY <1>4, <2>2, <2>5, <2>6
      <3>2. IsFiniteSet(Q \ {r}) /\ Cardinality(Q \ {r}) = Cardinality(Q) - 1
        BY <1>4, <2>6, FS_RemoveElement
      <3>3. Cardinality(Before(x, r)) <= Cardinality(Q \ {r})
        BY <3>1, <3>2, FS_Subset
      <3> QED BY <1>1, <1>2, <1>4, <2>1, <3>2, <3>3
    <2>7. CASE r \notin Q
      <3>1. r \in (S \ Q) \ P
        BY <1>7, <2>7
      <3>2. Cardinality(Q) = o /\ Cardinality(P) = n
        BY <1>4, <1>5, <3>1
      <3>3. (Q \cup P) \in SUBSET Before(x, r)
        BY <1>4, <1>5, <2>4, <3>1
      <3>4. Cardinality(Q \cap P) = 0 /\ Cardinality(Q) + Cardinality(P) > 0
        <4>1. Q \cap P = {}
          BY <1>5
        <4>2. Cardinality(Q \cap P) = 0
          BY <4>1, FS_EmptySet
        <4> QED BY <1>1, <3>2, <4>2
      <3>5. Cardinality(Q \cup P) = Cardinality(Q) + Cardinality(P) - Cardinality(Q \cap P)
        BY <1>4, <1>5, FS_Union
      <3>6. Cardinality(Q \cup P) <= Cardinality(Before(x, r))
        BY <2>1, <3>3, FS_Subset
      <3>7. P /= {}
        BY <1>1, <3>2, FS_EmptySet
      <3>8. Cardinality(Q \cup P) = o + n
        BY <1>1, <3>2, <3>4, <3>5
      <3>9. Cardinality(Before(x, r)) >= o + n
        BY <1>1, <2>1, <3>6, <3>8
      <3> QED BY <3>7, <3>9
    <2> QED BY <2>6, <2>7
  <1> QED BY <1>4, <1>5, <1>6, <1>7 DEF n, o, S

-----------------------------------------------------------------------------
(* A statement of the reader leaves the table as it is.                    *)
LEMMA SameTable ==
  ASSUME TInv, UNCHANGED <<promoted, gone>>
  PROVE  /\ TableOK' /\ Rows' = Rows /\ Changes' = Changes
         /\ Len(promoted) \in Nat /\ Rows \subseteq 1..Len(promoted)
         /\ Changes \in Nat
  <1>1. TableOK' /\ Rows' = Rows /\ Changes' = Changes
    BY DEF TInv, TableOK, Rows, Changes
  <1>2. Len(promoted) \in Nat /\ Rows \subseteq 1..Len(promoted)
    BY RowsAreRows
  <1>3. gone \in SUBSET (1..Len(promoted))
    BY DEF TInv, TableOK
  <1>4. Cardinality(gone) \in Nat
    BY <1>3, RowSets
  <1> QED BY <1>1, <1>2, <1>4 DEF Changes

LEMMA CallBegins ==
  ASSUME TInv, UNCHANGED <<promoted, gone>>, call'.start = Rows, call'.upTo = Len(promoted)
  PROVE  Began' /\ Stayed' = Rows /\ Touched' = Rows
  <1>1. Len(promoted) \in Nat /\ Rows \subseteq 1..Len(promoted) /\ Rows' = Rows
    BY SameTable
  <1>2. Touched' = Rows \cup ((Len(promoted) + 1)..Len(promoted))
    BY DEF Touched
  <1>3. Touched' = Rows
    BY <1>1, <1>2
  <1> QED BY <1>1, <1>3 DEF Began, Stayed

LEMMA CallGoesOn ==
  ASSUME TInv, UNCHANGED <<promoted, gone>>, call.op /= "none",
         call'.start = call.start, call'.upTo = call.upTo
  PROVE  /\ Began' /\ Stayed' = Stayed /\ Touched' = Touched
         /\ Stayed \subseteq Rows /\ Rows \subseteq Touched
         /\ Touched \subseteq 1..Len(promoted)
  <1>1. Began /\ Rows' = Rows /\ Len(promoted) \in Nat
    BY SameTable DEF TInv
  <1>2. Stayed' = Stayed /\ Touched' = Touched
    BY <1>1 DEF Stayed, Touched
  <1>3. Touched \subseteq 1..Len(promoted)
    BY <1>1 DEF Began, Touched
  <1>4. Began'
    BY <1>1, <1>2 DEF Began
  <1> QED BY <1>1, <1>2, <1>3, <1>4 DEF Began, Stayed

(* The statements of ListTraces.                                           *)
LEMMA CountStep ==
  ASSUME TInv, CountTraces
  PROVE  /\ UNCHANGED <<promoted, gone>>
         /\ call.op = "list" /\ call \in ListType /\ call.stage \in {"count", "turn"}
         /\ call' \in ListType /\ call'.op = "list"
         /\ call'.start = call.start /\ call'.upTo = call.upTo /\ call'.x = call.x
         /\ call'.page = (IF call.stage = "turn" THEN call.page + 1 ELSE call.page)
         /\ call'.stage = "page" /\ call'.total = Cardinality(Selected(call.x.f))
         /\ call'.as = Changes /\ call'.got = 0 /\ call'.seen = call.seen
  <1> DEFINE total == Cardinality(Selected(call.x.f))
             page == IF call.stage = "turn" THEN call.page + 1 ELSE call.page
  <1>1. /\ UNCHANGED <<promoted, gone>> /\ call.op = "list"
        /\ call.stage \in {"count", "turn"}
        /\ call' = [call EXCEPT !.page = page, !.stage = "page", !.total = total,
                                !.as = Changes, !.got = 0]
    BY DEF CountTraces
  <1>2. call \in ListType /\ call.op = "list"
    BY <1>1, Zenon DEF TInv, ListOK
  <1>3. call.x \in Lists /\ page \in Nat /\ call.seen \in SUBSET Nat
    BY <1>2 DEF ListType
  <1>4. total \in 0..MaxRows
    BY <1>3, RowsInOrder
  <1>5. Changes \in Int
    BY <1>1, SameTable
  <1> HIDE DEF total, page
  <1> DEFINE c == [call EXCEPT !.page = page, !.stage = "page"]
  <1>6. call' \in ListType
    <2>1. c \in ListType
      BY <1>2, <1>3 DEF ListType
    <2>2. call' = [c EXCEPT !.total = total, !.as = Changes, !.got = 0]
      BY <1>1
    <2> HIDE DEF c
    <2> QED BY <1>4, <1>5, <2>1, <2>2 DEF ListType
  <1>7. /\ call'.op = call.op
        /\ call'.start = call.start /\ call'.upTo = call.upTo /\ call'.x = call.x
        /\ call'.page = page
        /\ call'.stage = "page" /\ call'.total = total
        /\ call'.as = Changes /\ call'.got = 0 /\ call'.seen = call.seen
    BY <1>1, <1>2 DEF ListType
  <1> QED BY <1>1, <1>2, <1>6, <1>7 DEF total, page

LEMMA PageStep ==
  ASSUME TInv, PageTraces
  PROVE  \E page \in Pages(call.x, call.page) :
             /\ UNCHANGED <<promoted, gone>>
             /\ call.op = "list" /\ call \in ListType /\ call.stage = "page"
             /\ call' \in ListType /\ call'.op = "list"
             /\ call'.start = call.start /\ call'.upTo = call.upTo /\ call'.x = call.x
             /\ call'.page = call.page
             /\ call'.stage = (IF page = {} THEN "done" ELSE "turn")
             /\ call'.total = call.total /\ call'.as = Changes - call.as
             /\ call'.got = Cardinality(page) /\ call'.seen = call.seen \cup page
             /\ page \subseteq Selected(call.x.f) /\ Cardinality(page) \in Nat
  <1>0. PICK page \in Pages(call.x, call.page) :
          call' = [call EXCEPT !.stage = IF page = {} THEN "done" ELSE "turn",
                               !.seen = @ \cup page, !.got = Cardinality(page),
                               !.as = Changes - @]
    BY Zenon DEF PageTraces
  <1> DEFINE got == Cardinality(page)
             stage == IF page = {} THEN "done" ELSE "turn"
             as == Changes - call.as
             seen == call.seen \cup page
  <1>1. /\ UNCHANGED <<promoted, gone>> /\ call.op = "list" /\ call.stage = "page"
        /\ call' = [call EXCEPT !.stage = stage, !.seen = seen, !.got = got, !.as = as]
    BY <1>0, Zenon DEF PageTraces
  <1>2. call \in ListType /\ call.op = "list"
    BY <1>1, Zenon DEF TInv, ListOK
  <1>3. /\ call.x \in Lists /\ call.page \in Nat /\ call.seen \in SUBSET Nat
        /\ call.total \in 0..MaxRows /\ call.as \in Int
    BY <1>2 DEF ListType
  <1>4. IsFiniteSet(page) /\ page \subseteq Selected(call.x.f)
    BY <1>3, PageHas
  <1>5. page \subseteq Rows /\ got \in Nat
    BY <1>4, FS_CardinalityType DEF Selected
  <1>6. Changes \in Nat /\ Len(promoted) \in Nat /\ Rows \subseteq 1..Len(promoted)
    BY <1>1, SameTable
  <1>7. as \in Int /\ stage \in {"count", "page", "turn", "done"} /\ seen \in SUBSET Nat
    <2> HIDE DEF got
    <2>1. \A r \in 1..Len(promoted) : r \in Nat
      BY <1>6
    <2>2. page \subseteq Nat
      BY <1>5, <1>6, <2>1, Zenon
    <2>3. seen \in SUBSET Nat
      BY <1>3, <2>2
    <2>4. as \in Int
      BY <1>3, <1>6
    <2> QED BY <2>3, <2>4
  <1> HIDE DEF got, stage, as, seen
  <1> DEFINE c == [call EXCEPT !.stage = stage, !.seen = seen]
  <1>8. call' \in ListType
    <2>1. c \in ListType
      BY <1>2, <1>7 DEF ListType
    <2>2. call' = [c EXCEPT !.got = got, !.as = as]
      BY <1>1
    <2> HIDE DEF c
    <2> QED BY <1>5, <1>7, <2>1, <2>2 DEF ListType
  <1>9. /\ call'.op = call.op
        /\ call'.start = call.start /\ call'.upTo = call.upTo /\ call'.x = call.x
        /\ call'.page = call.page /\ call'.stage = stage /\ call'.total = call.total
        /\ call'.as = as /\ call'.got = got /\ call'.seen = seen
    BY <1>1, <1>2 DEF ListType
  <1> QED BY <1>1, <1>2, <1>4, <1>5, <1>8, <1>9 DEF got, stage, as, seen

LEMMA ListSteps ==
  ASSUME TInv, (\E x \in Lists : ListTraces(x)) \/ CountTraces \/ PageTraces
  PROVE  TInv'
  <1>1. UNCHANGED <<promoted, gone>>
    BY DEF ListTraces, CountTraces, PageTraces
  <1>2. /\ TableOK' /\ Rows' = Rows /\ Changes \in Nat
        /\ Len(promoted) \in Nat /\ Rows \subseteq 1..Len(promoted)
    BY <1>1, SameTable
  <1> SUFFICES /\ call' \in ListType /\ call'.op = "list" /\ call'.seen \subseteq Touched'
               /\ Began'
    BY <1>2, Zenon DEF TInv, ListOK, OptionsOK, AggregateOK
  <1>3. ASSUME NEW x \in Lists, ListTraces(x)
        PROVE  call' \in ListType /\ call'.op = "list" /\ call'.seen \subseteq Touched' /\ Began'
    <2>1. x.page \in {0, 1} /\ MaxRows \in Nat
      BY CallsAssumption, BoundsAssumption
    <2>2. call' = [op |-> "list", start |-> Rows, upTo |-> Len(promoted), x |-> x,
                   page |-> x.page, stage |-> "count", total |-> 0, as |-> 0, got |-> 0,
                   seen |-> {}]
      BY <1>3 DEF ListTraces
    <2>3. call' \in ListType /\ call'.op = "list" /\ call'.seen = {}
      BY <1>2, <2>1, <2>2 DEF ListType
    <2>4. Began'
      BY <1>1, <2>2, CallBegins
    <2> QED BY <2>3, <2>4
  <1>4. ASSUME call.op = "list", call' \in ListType, call'.start = call.start,
               call'.upTo = call.upTo, call'.seen \subseteq call.seen \cup Rows
        PROVE  call'.op = "list" /\ call'.seen \subseteq Touched' /\ Began'
    <2>1. Began' /\ Touched' = Touched /\ Rows \subseteq Touched
      BY <1>1, <1>4, CallGoesOn
    <2>2. call.seen \subseteq Touched
      BY <1>4 DEF TInv, ListOK
    <2>3. call'.op = "list"
      BY <1>4 DEF ListType
    <2> QED BY <1>4, <2>1, <2>2, <2>3
  <1>5. CASE CountTraces
    BY <1>4, <1>5, CountStep
  <1>6. CASE PageTraces
    <2>1. PICK page :
          /\ call.op = "list" /\ call' \in ListType /\ call'.start = call.start
          /\ call'.upTo = call.upTo /\ call'.seen = call.seen \cup page
          /\ page \subseteq Selected(call.x.f)
      BY <1>6, PageStep
    <2>2. page \subseteq Rows
      BY <2>1 DEF Selected
    <2> QED BY <1>4, <2>1, <2>2
  <1> QED BY <1>3, <1>5, <1>6

-----------------------------------------------------------------------------
(* The statements of AvailableFilters.                                     *)
Offerable(f, facet) ==
  UNION {Values(promoted[r].what, facet) : r \in Selected(Excluding(f, facet))}

LEMMA OfferableHas ==
  ASSUME NEW f, NEW facet, NEW v
  PROVE  v \in Offerable(f, facet) <=>
           \E r \in Selected(Excluding(f, facet)) : v \in Values(What(r), facet)
  <1> DEFINE V(r) == Values(promoted[r].what, facet)
             S == Selected(Excluding(f, facet))
  <1>1. v \in UNION {V(r) : r \in S} <=> \E r \in S : v \in V(r)
    <2> HIDE DEF V, S
    <2> QED OBVIOUS
  <1> QED BY <1>1 DEF Offerable, What

LEMMA OptionsBegin ==
  ASSUME TInv, NEW f \in Filters, AvailableFilters(f)
  PROVE  /\ UNCHANGED <<promoted, gone>>
         /\ call' \in OptionsType /\ call'.op = "options" /\ call'.options = <<>>
         /\ call'.start = Rows /\ call'.upTo = Len(promoted) /\ call'.f = f
  <1>1. UNCHANGED <<promoted, gone>>
    BY DEF AvailableFilters
  <1>2. call' = [op |-> "options", start |-> Rows, upTo |-> Len(promoted), f |-> f,
                 options |-> <<>>, cut |-> FALSE]
    BY DEF AvailableFilters
  <1>3. Len(promoted) \in Nat /\ Rows \subseteq Nat
    BY <1>1, SameTable
  <1>4. call' \in OptionsType
    BY <1>2, <1>3 DEF OptionsType
  <1> QED BY <1>1, <1>2, <1>4

LEMMA AskStep ==
  ASSUME TInv, AskFacet
  PROVE  LET i      == Len(call.options) + 1
             values == Offerable(call.f, Facets[i])
         IN  /\ UNCHANGED <<promoted, gone>>
             /\ call.op = "options" /\ call \in OptionsType
             /\ i \in 1..6
             /\ call' \in OptionsType /\ call'.op = "options"
             /\ call'.start = call.start /\ call'.upTo = call.upTo /\ call'.f = call.f
             /\ call.cut => call'.cut
             /\ \E offered \in SUBSET values :
                  /\ call'.options = Append(call.options, offered)
                  /\ call'.cut \/ offered = values
  <1> DEFINE i == Len(call.options) + 1
             values == Offerable(call.f, Facets[i])
  <1>1. /\ UNCHANGED <<promoted, gone>> /\ call.op = "options"
        /\ Len(call.options) < Len(Facets)
        /\ \E offered \in IF call.cut THEN {values} ELSE SUBSET values :
             call' = [call EXCEPT !.options = Append(@, offered),
                                  !.cut = @ \/ offered /= values]
    <2> DEFINE S == UNION {Values(promoted[r].what, Facets[i]) :
                             r \in Selected(Excluding(call.f, Facets[i]))}
    <2>1. S = values
      BY Zenon DEF Offerable
    <2>2. /\ UNCHANGED <<promoted, gone>> /\ call.op = "options"
          /\ Len(call.options) < Len(Facets)
          /\ \E offered \in IF call.cut THEN {S} ELSE SUBSET S :
               call' = [call EXCEPT !.options = Append(@, offered),
                                    !.cut = @ \/ offered /= S]
      BY Zenon DEF AskFacet
    <2> HIDE DEF S, values
    <2> QED BY <2>1, <2>2, Zenon
  <1>2. call \in OptionsType
    BY <1>1, Zenon DEF TInv, OptionsOK
  <1>3. /\ call.options \in Seq(SUBSET Options) /\ call.cut \in BOOLEAN
        /\ call.f \in Filters
    BY <1>2 DEF OptionsType
  <1>4. i \in 1..6
    <2>1. Len(Facets) = 6
      BY DEF Facets
    <2> QED BY <1>1, <1>3, <2>1
  <1>5. values \subseteq Options
    <2>1. \A r \in Rows : What(r) \in Kinds
      BY <1>1, SameTable, RowsAreRows
    <2>2. ASSUME NEW v \in values PROVE v \in Options
      <3>1. PICK r \in Selected(Excluding(call.f, Facets[i])) : v \in Values(What(r), Facets[i])
        BY OfferableHas
      <3> DEFINE x == <<What(r), i>>
      <3>2. x \in Kinds \X (1..6) /\ x[1] = What(r) /\ x[2] = i
        BY <1>4, <2>1 DEF Selected
      <3>3. v \in Values(x[1], Facets[x[2]])
        BY <3>1, <3>2
      <3> HIDE DEF x
      <3> QED BY <3>2, <3>3, Zenon DEF Options
    <2> QED BY <2>2
  <1> HIDE DEF values, i
  <1>6. PICK offered \in IF call.cut THEN {values} ELSE SUBSET values :
          call' = [call EXCEPT !.options = Append(@, offered), !.cut = @ \/ offered /= values]
    BY <1>1
  <1>7. offered \in SUBSET values /\ offered \in SUBSET Options
    BY <1>5
  <1> DEFINE options == Append(call.options, offered)
             cut == call.cut \/ offered /= values
  <1>8. options \in Seq(SUBSET Options) /\ cut \in BOOLEAN
    BY <1>3, <1>7
  <1>9. call' = [call EXCEPT !.options = options, !.cut = cut]
    BY <1>6
  <1> HIDE DEF options, cut
  <1>10. /\ call' \in OptionsType /\ call'.op = "options"
         /\ call'.start = call.start /\ call'.upTo = call.upTo /\ call'.f = call.f
         /\ call'.options = options /\ call'.cut = cut
    BY <1>1, <1>2, <1>8, <1>9 DEF OptionsType
  <1>11. (call.cut => cut) /\ (cut \/ offered = values)
    BY DEF cut
  <1> QED BY <1>1, <1>2, <1>4, <1>7, <1>10, <1>11 DEF options, values, i

LEMMA OptionsSteps ==
  ASSUME TInv, (\E f \in Filters : AvailableFilters(f)) \/ AskFacet
  PROVE  TInv'
  <1>1. UNCHANGED <<promoted, gone>>
    BY DEF AvailableFilters, AskFacet
  <1>2. TableOK'
    BY <1>1, SameTable
  <1> SUFFICES /\ call' \in OptionsType /\ call'.op = "options" /\ Began'
               /\ \A j \in DOMAIN call'.options : j \in 3..5 => "" \notin call'.options[j]
    BY <1>2, Zenon DEF TInv, ListOK, OptionsOK, AggregateOK
  <1>3. ASSUME NEW f \in Filters, AvailableFilters(f)
        PROVE  /\ call' \in OptionsType /\ call'.op = "options" /\ Began'
               /\ \A j \in DOMAIN call'.options : j \in 3..5 => "" \notin call'.options[j]
    <2>1. call' \in OptionsType /\ call'.op = "options" /\ call'.options = <<>>
      BY <1>3, OptionsBegin
    <2>2. Began'
      BY <1>1, <1>3, OptionsBegin, CallBegins
    <2> QED BY <2>1, <2>2
  <1>4. CASE AskFacet
    <2> DEFINE i == Len(call.options) + 1
    <2>1. /\ call.op = "options" /\ call \in OptionsType /\ i \in 1..6
          /\ call' \in OptionsType /\ call'.op = "options"
          /\ call'.start = call.start /\ call'.upTo = call.upTo
      BY <1>4, AskStep
    <2>2. PICK offered \in SUBSET Offerable(call.f, Facets[i]) :
            call'.options = Append(call.options, offered)
      BY <1>4, AskStep
    <2>3. Began'
      BY <1>1, <2>1, CallGoesOn
    <2>4. call.options \in Seq(SUBSET Options)
      BY <2>1 DEF OptionsType
    <2>5. \A j \in DOMAIN call.options : j \in 3..5 => "" \notin call.options[j]
      BY <2>1, Zenon DEF TInv, OptionsOK
    <2>6. i \in 3..5 => "" \notin offered
      <3> SUFFICES ASSUME i \in 3..5 PROVE "" \notin Offerable(call.f, Facets[i])
        BY <2>2
      <3>1. Facets[i] \in {"remote_ip", "route", "user_id"}
        BY DEF Facets
      <3> HIDE DEF i
      <3>2. \A w : "" \notin Values(w, Facets[i])
        BY <3>1 DEF Values
      <3> QED BY <3>2, OfferableHas, Zenon
    <2>7. offered \in SUBSET Options
      <3>1. \A s : Append(call.options, s) \in Seq(SUBSET Options) => s \in SUBSET Options
        <4> SUFFICES ASSUME NEW s, Append(call.options, s) \in Seq(SUBSET Options)
                     PROVE  s \in SUBSET Options
          OBVIOUS
        <4>1. Append(call.options, s)[i] = s /\ i \in DOMAIN Append(call.options, s)
          BY <2>4
        <4> QED BY <4>1
      <3>2. Append(call.options, offered) \in Seq(SUBSET Options)
        BY <2>1, <2>2 DEF OptionsType
      <3> QED BY <3>1, <3>2
    <2>8. \A j \in DOMAIN call'.options : j \in 3..5 => "" \notin call'.options[j]
      <3> SUFFICES ASSUME NEW j \in DOMAIN Append(call.options, offered), j \in 3..5
                   PROVE  "" \notin Append(call.options, offered)[j]
        BY <2>2
      <3> DEFINE s == call.options
      <3>1. \/ j = i /\ Append(s, offered)[j] = offered
            \/ j \in DOMAIN s /\ Append(s, offered)[j] = s[j]
        <4> HIDE DEF s
        <4> QED BY <2>4, <2>7 DEF s
      <3> HIDE DEF i
      <3> QED BY <2>5, <2>6, <3>1, Zenon
    <2> QED BY <2>1, <2>3, <2>8
  <1> QED BY <1>3, <1>4

-----------------------------------------------------------------------------
(* The statements of Aggregate.                                            *)
LEMMA LeastType ==
  ASSUME NEW x \in Aggregates
  PROVE  Least(x) \in Nat /\ Least(x) >= 1
  <1>1. x.least \in Int
    BY CallsAssumption
  <1> DEFINE l == x.least
  <1>2. l \in Int
    BY <1>1
  <1> HIDE DEF l
  <1>3. Max({l, 1}) = (IF l < 1 THEN 1 ELSE l)
    BY <1>2, MaxOfTwo
  <1>4. Max({l, 1}) \in Nat /\ Max({l, 1}) >= 1
    BY <1>2, <1>3
  <1> QED BY <1>4 DEF Least, l

LEMMA AggregateBegins ==
  ASSUME TInv, NEW x \in Aggregates, Aggregate(x)
  PROVE  /\ UNCHANGED <<promoted, gone>>
         /\ call' \in AggregateType(x) /\ call'.op = "aggregate"
         /\ call'.start = Rows /\ call'.upTo = Len(promoted) /\ call'.x = x
         /\ call'.results = {}
         /\ \A g \in call'.groups :
              /\ g.count = Cardinality(Group(x.col, g.key, Recent(x.since)))
              /\ g.count \in Nat /\ g.count >= Least(x)
         /\ \A r \in Recent(x.since) :
              LET key == What(r)[x.col]
                  n   == Cardinality(Group(x.col, key, Recent(x.since)))
              IN  n >= Least(x) => \E g \in call'.groups : g.key = key
  <1> DEFINE rows == Recent(x.since)
             keys == {promoted[r].what[x.col] : r \in rows}
             all  == [key : keys, count : Least(x)..Cardinality(rows)]
             groups == {g \in all : g.count = Cardinality(Group(x.col, g.key, rows))}
  <1>1. /\ UNCHANGED <<promoted, gone>>
        /\ call' = [op |-> "aggregate", start |-> Rows, upTo |-> Len(promoted), x |-> x,
                    results |-> {}, groups |-> groups]
    BY Zenon DEF Aggregate
  <1>2. Len(promoted) \in Nat /\ Rows \subseteq 1..Len(promoted)
    BY <1>1, SameTable
  <1>3. rows \in SUBSET (1..Len(promoted)) /\ rows \subseteq Rows
    BY <1>2 DEF Recent
  <1>4. IsFiniteSet(rows) /\ Cardinality(rows) \in 0..MaxRows
    BY <1>3, RowSets
  <1>5. \A r \in rows : What(r) \in Kinds
    BY <1>3, RowsAreRows
  <1>6. keys \subseteq Keys(x)
    BY <1>5 DEF Keys, What
  <1>7. Least(x) \in Nat /\ Least(x) >= 1 /\ MaxRows \in Nat
    BY LeastType, BoundsAssumption
  <1> HIDE DEF rows, keys
  <1>8. ASSUME NEW g \in groups
        PROVE  /\ g \in [key : Keys(x), count : 1..MaxRows]
               /\ g.count = Cardinality(Group(x.col, g.key, rows))
               /\ g.count \in Nat /\ g.count >= Least(x)
    <2>1. g \in all /\ g.count = Cardinality(Group(x.col, g.key, rows))
      OBVIOUS
    <2>2. g \in [key : Keys(x), count : 1..MaxRows] /\ g.count \in Nat /\ g.count >= Least(x)
      BY <1>4, <1>6, <1>7, <2>1
    <2> QED BY <2>1, <2>2
  <1>9. ASSUME NEW r \in rows,
               Cardinality(Group(x.col, What(r)[x.col], rows)) >= Least(x)
        PROVE  \E g \in groups : g.key = What(r)[x.col]
    <2> DEFINE key == What(r)[x.col]
               n == Cardinality(Group(x.col, key, rows))
               g == [key |-> key, count |-> n]
    <2>1. key \in keys
      BY DEF keys, What
    <2>2. n \in Nat /\ n <= Cardinality(rows)
      <3>1. Group(x.col, key, rows) \in SUBSET rows
        BY DEF Group
      <3>2. IsFiniteSet(Group(x.col, key, rows)) /\ n <= Cardinality(rows)
        BY <1>4, <3>1, FS_Subset
      <3> QED BY <3>2, FS_CardinalityType
    <2>3. n >= Least(x)
      BY <1>9
    <2>4. g \in all
      <3> HIDE DEF n, key
      <3> QED BY <1>4, <1>7, <2>1, <2>2, <2>3
    <2>5. g.key = key /\ g.count = n
      OBVIOUS
    <2> HIDE DEF g
    <2>6. g \in groups
      BY <2>4, <2>5
    <2> QED BY <2>5, <2>6
  <1> HIDE DEF groups
  <1>10. /\ call' \in AggregateType(x)
    <2>1. groups \in SUBSET [key : Keys(x), count : 1..MaxRows]
      BY <1>8
    <2>2. Rows \subseteq Nat
      BY <1>2
    <2> QED BY <1>1, <1>2, <2>1, <2>2 DEF AggregateType
  <1>11. /\ call'.op = "aggregate" /\ call'.start = Rows /\ call'.upTo = Len(promoted)
         /\ call'.x = x /\ call'.results = {} /\ call'.groups = groups
    BY <1>1
  <1> QED BY <1>1, <1>8, <1>9, <1>10, <1>11 DEF rows

(* The most common chains of some rows, as many as there is place for.     *)
LEMMA MostCommonAre ==
  ASSUME TInv, NEW rows \in SUBSET (1..Len(promoted)), NEW s \in MostCommon(rows)
  PROVE  /\ \A y \in s : \E r \in rows : What(r).error_chain = y
         /\ s \in SUBSET Chains /\ IsFiniteSet(s)
         /\ Cardinality(s) \in Nat /\ Cardinality(s) <= Top
         /\ Cardinality(s) < Top => \A r \in rows : What(r).error_chain \in s
  <1> DEFINE chains == {promoted[r].what.error_chain : r \in rows}
             f == [r \in rows |-> promoted[r].what.error_chain]
             n == [x \in chains |-> Cardinality(Group("error_chain", x, rows))]
  <1>1. s \in {t \in SUBSET chains :
                 /\ Cardinality(t) = Min({Top, Cardinality(chains)})
                 /\ \A x \in t, y \in chains \ t : n[x] >= n[y]}
    BY Zenon DEF MostCommon
  <1>2. f \in Surjection(rows, chains)
    <2>1. f \in [rows -> chains] /\ \A y \in chains : \E r \in rows : f[r] = y
      OBVIOUS
    <2> HIDE DEF f, chains
    <2> QED BY <2>1, Fun_IsSurj
  <1>3. IsFiniteSet(rows)
    BY RowSets
  <1>4. \A y \in chains : \E r \in rows : What(r).error_chain = y
    BY DEF What
  <1>5. \A r \in rows : What(r).error_chain \in chains
    BY DEF What
  <1>6. chains \in SUBSET Chains
    <2>1. \A r \in rows : What(r) \in Kinds
      BY RowsAreRows
    <2> QED BY <1>4, <2>1 DEF Chains
  <1> HIDE DEF f, chains, n
  <1>7. IsFiniteSet(chains)
    BY <1>2, <1>3, FS_Surjection
  <1>8. s \in SUBSET chains /\ Cardinality(s) = Min({Top, Cardinality(chains)})
    BY <1>1
  <1>9. IsFiniteSet(s) /\ Cardinality(s) \in Nat /\ Cardinality(chains) \in Nat /\ Top \in Nat
    BY <1>7, <1>8, FS_Subset, FS_CardinalityType, BoundsAssumption
  <1>10. Cardinality(s) = (IF Top < Cardinality(chains) THEN Top ELSE Cardinality(chains))
    BY <1>8, <1>9, MinOfTwo
  <1>11. Cardinality(s) < Top => s = chains
    BY <1>7, <1>8, <1>9, <1>10, FS_Subset
  <1> QED BY <1>4, <1>5, <1>6, <1>8, <1>9, <1>10, <1>11

LEMMA TopErrorsStep ==
  ASSUME TInv, call.op = "aggregate", NEW g \in call.groups, TopErrors(g)
  PROVE  /\ UNCHANGED <<promoted, gone>>
         /\ call \in AggregateType(call.x)
         /\ call' \in AggregateType(call.x) /\ call'.op = "aggregate"
         /\ call'.start = call.start /\ call'.upTo = call.upTo /\ call'.x = call.x
         /\ call'.groups = call.groups \ {g}
         /\ \E s \in MostCommon(Group(call.x.col, g.key, Recent(call.x.since))) :
              /\ call'.results = call.results \cup
                                   {[key |-> g.key, count |-> g.count, top |-> s \ {""}]}
              /\ Cardinality(s \ {""}) \in Nat /\ Cardinality(s \ {""}) <= Top
              /\ Cardinality(s) \in Nat /\ Cardinality(s) <= Cardinality(s \ {""}) + 1
  <1> DEFINE rows == Group(call.x.col, g.key, Recent(call.x.since))
  <1>1. /\ UNCHANGED <<promoted, gone>>
        /\ \E s \in MostCommon(rows) :
             call' = [call EXCEPT !.groups = @ \ {g},
                                  !.results = @ \cup {[key |-> g.key, count |-> g.count,
                                                       top |-> s \ {""}]}]
    BY DEF TopErrors
  <1>2. call \in AggregateType(call.x)
    BY Zenon DEF TInv, AggregateOK
  <1>3. Len(promoted) \in Nat /\ Rows \subseteq 1..Len(promoted)
    BY <1>1, SameTable
  <1>4. rows \in SUBSET (1..Len(promoted))
    BY <1>3 DEF Group, Recent
  <1> HIDE DEF rows
  <1>5. PICK s \in MostCommon(rows) :
          call' = [call EXCEPT !.groups = @ \ {g},
                               !.results = @ \cup {[key |-> g.key, count |-> g.count,
                                                    top |-> s \ {""}]}]
    BY <1>1
  <1>6. /\ s \in SUBSET Chains /\ IsFiniteSet(s)
        /\ Cardinality(s) \in Nat /\ Cardinality(s) <= Top
    BY <1>4, MostCommonAre
  <1>7. /\ Cardinality(s \ {""}) \in Nat /\ Cardinality(s \ {""}) <= Top
        /\ Cardinality(s) <= Cardinality(s \ {""}) + 1
    <2>1. /\ IsFiniteSet(s \ {""})
          /\ Cardinality(s \ {""}) = (IF "" \in s THEN Cardinality(s) - 1 ELSE Cardinality(s))
      BY <1>6, FS_RemoveElement
    <2>2. Cardinality(s \ {""}) \in Nat /\ Top \in Nat
      BY <2>1, FS_CardinalityType, BoundsAssumption
    <2> DEFINE n == Cardinality(s)
               m == Cardinality(s \ {""})
    <2>3. m = n - 1 \/ m = n
      BY <2>1, Zenon
    <2> HIDE DEF m
    <2>4. m \in Nat /\ n \in Nat /\ n <= Top /\ Top \in Nat
      BY <1>6, <2>2 DEF m
    <2> HIDE DEF n
    <2>5. m <= Top /\ n <= m + 1
      BY <2>3, <2>4
    <2> QED BY <2>4, <2>5 DEF m, n
  <1> DEFINE row == [key |-> g.key, count |-> g.count, top |-> s \ {""}]
             groups == call.groups \ {g}
             results == call.results \cup {row}
             type == [key : Keys(call.x), count : 1..MaxRows, top : SUBSET Chains]
  <1>8. /\ call.groups \in SUBSET [key : Keys(call.x), count : 1..MaxRows]
        /\ call.results \in SUBSET type
    BY <1>2 DEF AggregateType
  <1>9. row \in type
    BY <1>6, <1>8
  <1>10. call' = [call EXCEPT !.groups = groups, !.results = results]
    BY <1>5
  <1>11. /\ groups \in SUBSET [key : Keys(call.x), count : 1..MaxRows]
         /\ results \in SUBSET type
    BY <1>8, <1>9
  <1>12. results = call.results \cup {row} /\ groups = call.groups \ {g}
    OBVIOUS
  <1> HIDE DEF groups, results, row
  <1>13. /\ call' \in AggregateType(call.x) /\ call'.op = "aggregate"
         /\ call'.start = call.start /\ call'.upTo = call.upTo /\ call'.x = call.x
         /\ call'.groups = groups /\ call'.results = results
    BY <1>2, <1>10, <1>11 DEF AggregateType
  <1> QED BY <1>1, <1>2, <1>6, <1>7, <1>12, <1>13 DEF row, rows

LEMMA AggregateSteps ==
  ASSUME TInv,
         \/ \E x \in Aggregates : Aggregate(x)
         \/ call.op = "aggregate" /\ \E g \in call.groups : TopErrors(g)
  PROVE  TInv'
  <1>1. UNCHANGED <<promoted, gone>>
    BY DEF Aggregate, TopErrors
  <1>2. TableOK'
    BY <1>1, SameTable
  <1> SUFFICES /\ call' \in AggregateType(call'.x) /\ call'.op = "aggregate" /\ Began'
               /\ \A g \in call'.results : Cardinality(g.top) <= Top
    BY <1>2, Zenon DEF TInv, ListOK, OptionsOK, AggregateOK
  <1>3. ASSUME NEW x \in Aggregates, Aggregate(x)
        PROVE  /\ call' \in AggregateType(call'.x) /\ call'.op = "aggregate" /\ Began'
               /\ \A g \in call'.results : Cardinality(g.top) <= Top
    <2>1. /\ call' \in AggregateType(x) /\ call'.op = "aggregate" /\ call'.results = {}
          /\ call'.start = Rows /\ call'.upTo = Len(promoted) /\ call'.x = x
      BY <1>3, AggregateBegins
    <2>2. Began'
      BY <1>1, <2>1, CallBegins
    <2> QED BY <2>1, <2>2
  <1>4. ASSUME call.op = "aggregate", NEW g \in call.groups, TopErrors(g)
        PROVE  /\ call' \in AggregateType(call'.x) /\ call'.op = "aggregate" /\ Began'
               /\ \A h \in call'.results : Cardinality(h.top) <= Top
    <2>1. /\ call' \in AggregateType(call.x) /\ call'.op = "aggregate"
          /\ call'.start = call.start /\ call'.upTo = call.upTo /\ call'.x = call.x
      BY <1>4, TopErrorsStep
    <2>2. PICK s \in MostCommon(Group(call.x.col, g.key, Recent(call.x.since))) :
            /\ call'.results = call.results \cup
                                 {[key |-> g.key, count |-> g.count, top |-> s \ {""}]}
            /\ Cardinality(s \ {""}) <= Top
      BY <1>4, TopErrorsStep
    <2>3. Began'
      BY <1>1, <1>4, <2>1, CallGoesOn
    <2>4. \A h \in call.results : Cardinality(h.top) <= Top
      BY <1>4, Zenon DEF TInv, AggregateOK
    <2> DEFINE row == [key |-> g.key, count |-> g.count, top |-> s \ {""}]
    <2>5. row.top = s \ {""}
      OBVIOUS
    <2> HIDE DEF row
    <2>6. ASSUME NEW h \in call'.results PROVE Cardinality(h.top) <= Top
      <3>1. h \in call.results \/ h = row
        BY <2>2 DEF row
      <3> QED BY <2>2, <2>4, <2>5, <3>1, Zenon
    <2> QED BY <2>1, <2>3, <2>6
  <1> QED BY <1>3, <1>4

-----------------------------------------------------------------------------
LEMMA ReturnStep ==
  ASSUME TInv, Return
  PROVE  TInv' /\ UNCHANGED <<promoted, gone>> /\ call'.op = "none"
  <1>1. UNCHANGED <<promoted, gone>> /\ call'.op = "none"
    BY DEF Return, NoCall
  <1>2. TableOK'
    BY <1>1, SameTable
  <1> QED BY <1>1, <1>2, Zenon DEF TInv, ListOK, OptionsOK, AggregateOK

LEMMA TInitially == Init => TInv
  <1> SUFFICES ASSUME Init PROVE TInv
    OBVIOUS
  <1>1. promoted = <<>> /\ gone = {} /\ call.op = "none"
    BY DEF Init, NoCall
  <1>2. MaxRows \in Nat
    BY BoundsAssumption
  <1>3. TableOK
    BY <1>1, <1>2 DEF TableOK
  <1> QED BY <1>1, <1>3, Zenon DEF TInv, ListOK, OptionsOK, AggregateOK

(* Every step: the others change the table, or the reader goes on.         *)
LEMMA Steps ==
  ASSUME TInv, Next
  PROVE  \/ \E w \in Kinds, t \in Times : Promote(w, t)
         \/ \E r \in Rows : Delete(r)
         \/ \E x \in Lists : ListTraces(x)
         \/ CountTraces \/ PageTraces
         \/ \E f \in Filters : AvailableFilters(f)
         \/ AskFacet
         \/ \E x \in Aggregates : Aggregate(x)
         \/ call.op = "aggregate" /\ \E g \in call.groups : TopErrors(g)
         \/ Return
  BY Zenon DEF Next, Reader

LEMMA TKept == TInv /\ [Next]_vars => TInv'
  <1> SUFFICES ASSUME TInv, [Next]_vars PROVE TInv'
    OBVIOUS
  <1>1. CASE UNCHANGED vars
    <2>1. TableOK' /\ Rows' = Rows /\ Touched' = Touched /\ Began = Began'
      BY <1>1 DEF vars, TInv, TableOK, Rows, Touched, Began
    <2> QED BY <1>1, <2>1, Zenon DEF vars, TInv, ListOK, OptionsOK, AggregateOK
  <1>2. ASSUME NEW w \in Kinds, NEW t \in Times, Promote(w, t) PROVE TInv'
    BY <1>2, PromoteStep, OthersSteps
  <1>3. ASSUME NEW r \in Rows, Delete(r) PROVE TInv'
    BY <1>3, DeleteStep, OthersSteps
  <1> QED BY <1>1, <1>2, <1>3, Steps, ListSteps, OptionsSteps, AggregateSteps, ReturnStep

LEMMA TAlways == Spec => []TInv
  BY TInitially, TKept, PTL DEF Spec

(* What the readers return is of its type: a page shows rows there were,   *)
(* no facet but status, method and tags offers an empty value, and no      *)
(* group has more chains than were asked for.                              *)
THEOREM QueriesTypeCorrect == Spec => []TypeOK
  <1>1. ASSUME TInv PROVE TypeOK
    <2>1. promoted \in Seq([what : Kinds, created : Times]) /\ gone \subseteq DOMAIN promoted
      BY <1>1 DEF TInv, TableOK, RowType
    <2>2. ASSUME call.op = "list"
          PROVE  call.x \in Lists /\ call.seen \subseteq Touched /\ call.total \in 0..MaxRows
      <3>1. call \in ListType /\ call.seen \subseteq Touched
        BY <1>1, <2>2, Zenon DEF TInv, ListOK
      <3> QED BY <3>1 DEF ListType
    <2>3. ASSUME call.op = "aggregate"
          PROVE  \A g \in call.results : g.count \in 1..MaxRows /\ Cardinality(g.top) <= Top
      <3>1. call \in AggregateType(call.x) /\ \A g \in call.results : Cardinality(g.top) <= Top
        BY <1>1, <2>3, Zenon DEF TInv, AggregateOK
      <3>2. \A g \in call.results : g.count \in 1..MaxRows
        BY <3>1 DEF AggregateType
      <3> QED BY <3>1, <3>2
    <2>4. /\ call.op \in {"none", "list", "options", "aggregate"}
          /\ call.op = "options" =>
               \A i \in DOMAIN call.options : i \in 3..5 => "" \notin call.options[i]
      BY <1>1, Zenon DEF TInv, OptionsOK
    <2> QED BY <2>1, <2>2, <2>3, <2>4, Zenon DEF TypeOK
  <1> QED BY <1>1, TAlways, PTL

-----------------------------------------------------------------------------
(* A filter without its clause for a facet, and one that chose a value.    *)
FieldsAre(f, facet, v) ==
  LET e == Excluding(f, facet)
      c == Choose(f, facet, v)
  IN  /\ e.q = f.q
      /\ e.status = (IF facet = "status" THEN AnyStatus ELSE f.status)
      /\ e.method = (IF facet = "method" THEN "" ELSE f.method)
      /\ e.tags = (IF facet = "tags" THEN {} ELSE f.tags)
      /\ c.q = f.q
      /\ c.status = (IF facet = "status" THEN [range |-> "", code |-> v] ELSE f.status)
      /\ c.method = (IF facet = "method" THEN v ELSE f.method)
      /\ c.tags = (IF facet = "tags" THEN {v} ELSE f.tags)

LEMMA FilterFields ==
  ASSUME NEW f \in Filters, NEW facet, NEW v
  PROVE  FieldsAre(f, facet, v)
  <1>1. DOMAIN f = {"q", "status", "method", "tags"}
    BY CallsAssumption
  <1>2. CASE facet = "status"
    BY <1>1, <1>2 DEF Excluding, Choose, FieldsAre
  <1>3. CASE facet = "method"
    BY <1>1, <1>3 DEF Excluding, Choose, FieldsAre
  <1>4. CASE facet = "tags"
    BY <1>1, <1>4 DEF Excluding, Choose, FieldsAre
  <1>5. CASE facet \notin {"status", "method", "tags"}
    BY <1>1, <1>5 DEF Excluding, Choose, FieldsAre
  <1> QED BY <1>2, <1>3, <1>4, <1>5

LEMMA ChosenSelects ==
  ASSUME NEW f \in Filters, NEW w \in Kinds, NEW i \in 1..6, NEW v \in Values(w, Facets[i])
  PROVE  LET facet == Facets[i]
         IN  /\ Selects(Excluding(f, facet), w) /\ Filterable(facet, v) =>
                  Selects(Choose(f, facet, v), w)
             /\ Selects(Choose(f, facet, v), w) => Selects(Excluding(f, facet), w)
             /\ facet = "status" => v \in Int
  <1> DEFINE facet == Facets[i]
             e == Excluding(f, facet)
             c == Choose(f, facet, v)
  <1>1. facet \in {"status", "method", "remote_ip", "route", "user_id", "tags"}
    BY DEF Facets
  <1>2. /\ e.q = f.q
        /\ e.status = (IF facet = "status" THEN AnyStatus ELSE f.status)
        /\ e.method = (IF facet = "method" THEN "" ELSE f.method)
        /\ e.tags = (IF facet = "tags" THEN {} ELSE f.tags)
        /\ c.q = f.q
        /\ c.status = (IF facet = "status" THEN [range |-> "", code |-> v] ELSE f.status)
        /\ c.method = (IF facet = "method" THEN v ELSE f.method)
        /\ c.tags = (IF facet = "tags" THEN {v} ELSE f.tags)
    <2>1. FieldsAre(f, facet, v)
      BY FilterFields
    <2> QED BY <2>1, Zenon DEF FieldsAre
  <1>3. v \in Values(w, facet)
    OBVIOUS
  <1>4. /\ Selects(e, w) <=> /\ e.q \subseteq w.text
                             /\ StatusSelects(e.status, w.status)
                             /\ e.method \in {"", w.method}
                             /\ \A t \in e.tags : t \in w.tags /\ t.key \in PlainKeys
        /\ Selects(c, w) <=> /\ c.q \subseteq w.text
                             /\ StatusSelects(c.status, w.status)
                             /\ c.method \in {"", w.method}
                             /\ \A t \in c.tags : t \in w.tags /\ t.key \in PlainKeys
    BY Zenon DEF Selects
  <1>5. StatusSelects(AnyStatus, w.status)
    BY DEF StatusSelects, AnyStatus
  <1> HIDE DEF facet, e, c
  <1> SUFFICES /\ Selects(e, w) /\ Filterable(facet, v) => Selects(c, w)
               /\ Selects(c, w) => Selects(e, w)
               /\ facet = "status" => v \in Int
    BY DEF facet, e, c
  <1>6. CASE facet = "status"
    <2>1. v = w.status
      BY <1>3, <1>6 DEF Values
    <2>2. v \in Int
      BY <2>1, KindsAssumption
    <2>3. StatusSelects([range |-> "", code |-> v], w.status)
      BY <2>1 DEF StatusSelects
    <2> QED BY <1>2, <1>4, <1>5, <1>6, <2>2, <2>3, Zenon
  <1>7. CASE facet = "method"
    <2>1. v = w.method
      BY <1>3, <1>7 DEF Values
    <2> QED BY <1>2, <1>4, <1>7, <2>1, Zenon
  <1>8. CASE facet = "tags"
    <2>1. v \in w.tags
      BY <1>3, <1>8 DEF Values
    <2>2. Filterable(facet, v) => v.key \in PlainKeys
      BY <1>8 DEF Filterable
    <2> QED BY <1>2, <1>4, <1>8, <2>1, <2>2, Zenon
  <1>9. CASE facet \notin {"status", "method", "tags"}
    BY <1>2, <1>4, <1>9, Zenon
  <1> QED BY <1>6, <1>7, <1>8, <1>9

LEMMA StatusChosen ==
  ASSUME NEW v \in Int, v > 0, NEW code, StatusSelects([range |-> "", code |-> v], code)
  PROVE  v = code
  BY DEF StatusSelects

LEMMA ChosenHave ==
  ASSUME NEW f \in Filters, NEW w \in Kinds, NEW facet \in {"status", "method", "tags"}, NEW v,
         Filterable(facet, v), facet = "status" => v \in Int,
         Selects(Choose(f, facet, v), w)
  PROVE  v \in Values(w, facet)
  <1> DEFINE c == Choose(f, facet, v)
  <1>1. /\ c.status = (IF facet = "status" THEN [range |-> "", code |-> v] ELSE f.status)
        /\ c.method = (IF facet = "method" THEN v ELSE f.method)
        /\ c.tags = (IF facet = "tags" THEN {v} ELSE f.tags)
    <2>1. FieldsAre(f, facet, v)
      BY FilterFields
    <2> QED BY <2>1, Zenon DEF FieldsAre
  <1>2. /\ StatusSelects(c.status, w.status)
        /\ c.method \in {"", w.method}
        /\ \A t \in c.tags : t \in w.tags /\ t.key \in PlainKeys
    BY Zenon DEF Selects
  <1> HIDE DEF c
  <1>3. CASE facet = "status"
    <2>1. v \in Int /\ v > 0
      BY <1>3 DEF Filterable
    <2>2. c.status = [range |-> "", code |-> v]
      BY <1>1, <1>3
    <2>3. StatusSelects([range |-> "", code |-> v], w.status)
      BY <1>2, <2>2, Zenon
    <2>4. v = w.status
      BY <2>1, <2>3, StatusChosen, Zenon
    <2> QED BY <1>3, <2>4 DEF Values
  <1>4. CASE facet = "method"
    <2>1. v /= ""
      BY <1>4 DEF Filterable
    <2> QED BY <1>1, <1>2, <1>4, <2>1 DEF Values
  <1>5. CASE facet = "tags"
    BY <1>1, <1>2, <1>5 DEF Values
  <1> QED BY <1>3, <1>4, <1>5

(* What is inductive of OfferedOptionsSelect: that a choice selects only    *)
(* what has it is true of every trace.                                     *)
OfferedSelects(i, v) ==
  \E r \in Touched : Selects(Choose(call.f, Facets[i], v), What(r)) /\ v \in Values(What(r), Facets[i])

NoneLeftOut(i) ==
  \A r \in Stayed : \A v \in Values(What(r), Facets[i]) :
    Selects(Choose(call.f, Facets[i], v), What(r)) => v \in call.options[i]

OInv ==
  call.op = "options" =>
    \A i \in DOMAIN call.options :
      /\ i \in 1..6
      /\ \A v \in call.options[i] : Filterable(Facets[i], v) => OfferedSelects(i, v)
      /\ call.cut \/ NoneLeftOut(i)

LEMMA OInvOthers ==
  ASSUME TInv, OInv, Others
  PROVE  OInv'
  <1> SUFFICES ASSUME call.op = "options", NEW i \in DOMAIN call.options
               PROVE  /\ i \in 1..6
                      /\ \A v \in call.options[i] : Filterable(Facets[i], v) => OfferedSelects(i, v)'
                      /\ call.cut \/ NoneLeftOut(i)'
    BY Zenon DEF OInv, Others
  <1>1. /\ i \in 1..6
        /\ \A v \in call.options[i] : Filterable(Facets[i], v) => OfferedSelects(i, v)
        /\ call.cut \/ NoneLeftOut(i)
    BY Zenon DEF OInv
  <1>2. /\ Stayed' \subseteq Stayed /\ Touched \subseteq Touched'
        /\ \A r \in Touched : What(r)' = What(r)
        /\ \A r \in Stayed : What(r)' = What(r)
        /\ call' = call
    BY OthersSteps DEF Others
  <1>3. ASSUME NEW v, OfferedSelects(i, v) PROVE OfferedSelects(i, v)'
    <2>1. PICK r \in Touched : /\ Selects(Choose(call.f, Facets[i], v), What(r))
                               /\ v \in Values(What(r), Facets[i])
      BY <1>3 DEF OfferedSelects
    <2>2. r \in Touched' /\ What(r)' = What(r)
      BY <1>2
    <2> QED BY <1>2, <2>1, <2>2, Zenon DEF OfferedSelects
  <1>4. NoneLeftOut(i) => NoneLeftOut(i)'
    <2> SUFFICES ASSUME NoneLeftOut(i), NEW r \in Stayed', NEW v \in Values(What(r)', Facets[i]),
                        Selects(Choose(call'.f, Facets[i], v), What(r)')
                 PROVE  v \in call'.options[i]
      BY Zenon DEF NoneLeftOut
    <2>1. r \in Stayed /\ What(r)' = What(r)
      BY <1>2
    <2> QED BY <1>2, <2>1, Zenon DEF NoneLeftOut
  <1> QED BY <1>1, <1>3, <1>4

LEMMA OInvAsk ==
  ASSUME TInv, OInv, AskFacet
  PROVE  OInv'
  <1> PICK n \in 1..6 : n = Len(call.options) + 1
    BY AskStep
  <1> DEFINE all == Offerable(call.f, Facets[n])
  <1>1. /\ UNCHANGED <<promoted, gone>> /\ call.op = "options" /\ call \in OptionsType
        /\ n \in 1..6 /\ call' \in OptionsType /\ call'.op = "options"
        /\ call'.start = call.start /\ call'.upTo = call.upTo /\ call'.f = call.f
        /\ call.cut => call'.cut
        /\ \E offered \in SUBSET all : /\ call'.options = Append(call.options, offered)
                                       /\ call'.cut \/ offered = all
    BY AskStep
  <1>2. PICK offered \in SUBSET all : /\ call'.options = Append(call.options, offered)
                                      /\ call'.cut \/ offered = all
    BY <1>1
  <1>3. /\ Stayed' = Stayed /\ Touched' = Touched /\ Stayed \subseteq Rows /\ Rows \subseteq Touched
        /\ Touched \subseteq 1..Len(promoted)
    BY <1>1, CallGoesOn
  <1>4. call.f \in Filters /\ call.options \in Seq(SUBSET Options)
    BY <1>1 DEF OptionsType
  <1>5. \A r : What(r)' = What(r)
    BY <1>1 DEF What
  <1>6. \A r \in Touched : What(r) \in Kinds
    BY <1>3, RowsAreRows
  <1>7. \A v : v \in all <=> \E r \in Selected(Excluding(call.f, Facets[n])) :
                               v \in Values(What(r), Facets[n])
    BY OfferableHas
  <1> HIDE DEF all
  <1>8. \A r \in Rows : r \in Selected(Excluding(call.f, Facets[n])) <=>
                          Selects(Excluding(call.f, Facets[n]), What(r))
    BY DEF Selected, What
  <1>9. Selected(Excluding(call.f, Facets[n])) \subseteq Rows
    BY DEF Selected
  <1>10. /\ DOMAIN call'.options = DOMAIN call.options \cup {n}
         /\ call'.options[n] = offered
         /\ \A i \in DOMAIN call.options : call'.options[i] = call.options[i]
    <2> DEFINE s == call.options
    <2>1. s \in Seq(SUBSET Options) /\ n = Len(s) + 1 /\ call'.options = Append(s, offered)
      BY <1>2, <1>4
    <2> HIDE DEF s
    <2>2. /\ DOMAIN Append(s, offered) = DOMAIN s \cup {n}
          /\ Append(s, offered)[n] = offered
          /\ \A i \in DOMAIN s : Append(s, offered)[i] = s[i]
      BY <2>1
    <2> QED BY <2>1, <2>2, Zenon DEF s
  <1>11. ASSUME NEW v \in offered, Filterable(Facets[n], v) PROVE OfferedSelects(n, v)
    <2>1. PICK r \in Rows : /\ Selects(Excluding(call.f, Facets[n]), What(r))
                            /\ v \in Values(What(r), Facets[n])
      BY <1>2, <1>7, <1>8, <1>9
    <2>2. r \in Touched /\ What(r) \in Kinds
      BY <1>3, <1>6
    <2>3. Selects(Choose(call.f, Facets[n], v), What(r))
      BY <1>1, <1>4, <1>11, <2>1, <2>2, ChosenSelects
    <2> QED BY <2>1, <2>2, <2>3 DEF OfferedSelects
  <1>12. ASSUME offered = all, NEW r \in Stayed, NEW v \in Values(What(r), Facets[n]),
                Selects(Choose(call.f, Facets[n], v), What(r))
         PROVE  v \in offered
    <2>1. r \in Rows /\ What(r) \in Kinds
      BY <1>3, <1>6
    <2>2. Selects(Excluding(call.f, Facets[n]), What(r))
      BY <1>1, <1>4, <1>12, <2>1, ChosenSelects
    <2> QED BY <1>7, <1>8, <1>12, <2>1, <2>2
  <1>13. \A i, v : OfferedSelects(i, v)' <=> OfferedSelects(i, v)
    BY <1>1, <1>3, <1>5, Zenon DEF OfferedSelects
  <1>14. \A i \in DOMAIN call.options : NoneLeftOut(i)' <=> NoneLeftOut(i)
    BY <1>1, <1>3, <1>5, <1>10, Zenon DEF NoneLeftOut
  <1>15. call'.cut \/ NoneLeftOut(n)'
    BY <1>1, <1>2, <1>3, <1>5, <1>10, <1>12, Zenon DEF NoneLeftOut
  <1> SUFFICES ASSUME NEW i \in DOMAIN call'.options
               PROVE  /\ i \in 1..6
                      /\ \A v \in call'.options[i] :
                           Filterable(Facets[i], v) => OfferedSelects(i, v)'
                      /\ call'.cut \/ NoneLeftOut(i)'
    BY Zenon DEF OInv
  <1>16. CASE i \in DOMAIN call.options
    BY <1>1, <1>10, <1>13, <1>14, <1>16, Zenon DEF OInv
  <1>17. CASE i = n
    BY <1>1, <1>10, <1>11, <1>13, <1>15, <1>17, Zenon
  <1> QED BY <1>10, <1>16, <1>17

(* Which call a statement belongs to.                                      *)
LEMMA ListOps ==
  ASSUME TInv, (\E x \in Lists : ListTraces(x)) \/ CountTraces \/ PageTraces
  PROVE  call'.op = "list"
  <1>1. ASSUME NEW x \in Lists, ListTraces(x) PROVE call'.op = "list"
    BY <1>1 DEF ListTraces
  <1> QED BY <1>1, CountStep, PageStep

LEMMA AggregateOps ==
  ASSUME TInv,
         \/ \E x \in Aggregates : Aggregate(x)
         \/ call.op = "aggregate" /\ \E g \in call.groups : TopErrors(g)
  PROVE  call'.op = "aggregate"
  BY AggregateBegins, TopErrorsStep

LEMMA OInvKept == TInv /\ OInv /\ [Next]_vars => OInv'
  <1> SUFFICES ASSUME TInv, OInv, [Next]_vars PROVE OInv'
    OBVIOUS
  <1>1. CASE UNCHANGED vars
    <2>1. \A r : What(r)' = What(r)
      BY <1>1 DEF vars, What
    <2>2. Stayed' = Stayed /\ Touched' = Touched /\ call' = call
      BY <1>1 DEF vars, Stayed, Touched, Rows
    <2> QED BY <2>1, <2>2, Zenon DEF OInv, OfferedSelects, NoneLeftOut
  <1>2. CASE Next
    <2>1. ASSUME call'.op /= "options" PROVE OInv'
      BY <2>1 DEF OInv
    <2>2. ASSUME NEW w \in Kinds, NEW t \in Times, Promote(w, t) PROVE OInv'
      BY <2>2, PromoteStep, OInvOthers
    <2>3. ASSUME NEW r \in Rows, Delete(r) PROVE OInv'
      BY <2>3, DeleteStep, OInvOthers
    <2>4. CASE (\E x \in Lists : ListTraces(x)) \/ CountTraces \/ PageTraces
      BY <2>1, <2>4, ListOps
    <2>5. ASSUME NEW f \in Filters, AvailableFilters(f) PROVE OInv'
      <3>1. call'.options = <<>>
        BY <2>5, OptionsBegin
      <3>2. \A i \in DOMAIN call'.options : FALSE
        BY <3>1
      <3> QED BY <3>2 DEF OInv
    <2>6. CASE \/ \E x \in Aggregates : Aggregate(x)
               \/ call.op = "aggregate" /\ \E g \in call.groups : TopErrors(g)
      BY <2>1, <2>6, AggregateOps
    <2>7. CASE Return
      BY <2>1, <2>7, ReturnStep
    <2> QED BY <1>2, <2>2, <2>3, <2>4, <2>5, <2>6, <2>7, OInvAsk, Steps
  <1> QED BY <1>1, <1>2

(* An option that AvailableFilters offers, chosen in place of the filter's   *)
(* own, selects a trace that was there during the call and only traces     *)
(* that have it; and none is left out that would select a trace that was    *)
(* there all the time.                                                     *)
THEOREM OptionsAgreeWithFilters == Spec => []OfferedOptionsSelect
  <1>1. ASSUME TInv, OInv PROVE OfferedOptionsSelect
    <2> SUFFICES ASSUME call.op = "options", NEW i \in DOMAIN call.options
                 PROVE  LET facet == Facets[i]
                        IN  /\ \A v \in call.options[i] : Filterable(facet, v) =>
                                 LET f == Choose(call.f, facet, v)
                                 IN  /\ \E r \in Touched : Selects(f, What(r)) /\ v \in Values(What(r), facet)
                                     /\ facet \in {"status", "method", "tags"} =>
                                          \A r \in Touched : Selects(f, What(r)) => v \in Values(What(r), facet)
                            /\ call.cut \/ \A r \in Stayed : \A v \in Values(What(r), facet) :
                                 Selects(Choose(call.f, facet, v), What(r)) => v \in call.options[i]
      BY Zenon DEF OfferedOptionsSelect
    <2> DEFINE facet == Facets[i]
    <2>1. /\ i \in 1..6
          /\ \A v \in call.options[i] : Filterable(facet, v) => OfferedSelects(i, v)
          /\ call.cut \/ NoneLeftOut(i)
      BY <1>1, Zenon DEF OInv
    <2>2. call.f \in Filters
      <3>1. call \in OptionsType
        BY <1>1, Zenon DEF TInv, OptionsOK
      <3> QED BY <3>1 DEF OptionsType
    <2>3. \A r \in Touched : What(r) \in Kinds
      <3>1. Began /\ Len(promoted) \in Nat
        BY <1>1, RowsAreRows DEF TInv
      <3>2. Touched \subseteq 1..Len(promoted)
        BY <3>1 DEF Began, Touched
      <3> QED BY <1>1, <3>2, RowsAreRows
    <2>4. ASSUME NEW v \in call.options[i], Filterable(facet, v)
          PROVE  /\ \E r \in Touched : /\ Selects(Choose(call.f, facet, v), What(r))
                                       /\ v \in Values(What(r), facet)
                 /\ facet \in {"status", "method", "tags"} =>
                      \A r \in Touched :
                        Selects(Choose(call.f, facet, v), What(r)) => v \in Values(What(r), facet)
      <3>1. PICK r \in Touched : /\ Selects(Choose(call.f, facet, v), What(r))
                                 /\ v \in Values(What(r), facet)
        BY <2>1, <2>4, Zenon DEF OfferedSelects
      <3>2. facet = "status" => v \in Int
        BY <2>1, <2>2, <2>3, <3>1, ChosenSelects
      <3> HIDE DEF facet
      <3>3. ASSUME facet \in {"status", "method", "tags"}, NEW s \in Touched,
                   Selects(Choose(call.f, facet, v), What(s))
            PROVE  v \in Values(What(s), facet)
        BY <2>2, <2>3, <2>4, <3>2, <3>3, ChosenHave
      <3> QED BY <3>1, <3>3, Zenon
    <2>5. call.cut \/ \A r \in Stayed : \A v \in Values(What(r), facet) :
            Selects(Choose(call.f, facet, v), What(r)) => v \in call.options[i]
      BY <2>1, Zenon DEF NoneLeftOut
    <2> QED BY <2>4, <2>5, Zenon
  <1>2. Init => OInv
    <2> SUFFICES ASSUME Init PROVE call.op /= "options"
      BY DEF OInv
    <2> QED BY DEF Init, NoCall
  <1> QED BY <1>1, <1>2, TAlways, OInvKept, PTL DEF Spec

-----------------------------------------------------------------------------
(* What a promotion and a deletion do to what a filter selects.            *)
LEMMA SelectedAfterPromote ==
  ASSUME TInv, NEW w \in Kinds, NEW t \in Times, Promote(w, t), NEW f
  PROVE  LET n == Len(promoted) + 1
         IN  /\ Selected(f)' = Selected(f) \cup (IF Selects(f, w) THEN {n} ELSE {})
             /\ n \notin Rows /\ Changes' = Changes + 1
  <1> DEFINE n == Len(promoted) + 1
  <1>1. Others /\ gone' = gone /\ Len(promoted') = n /\ Rows' = Rows \cup {n}
    BY PromoteStep
  <1>2. /\ Len(promoted) \in Nat /\ Rows \subseteq 1..Len(promoted)
        /\ \A r \in Rows : promoted'[r] = promoted[r]
    BY <1>1, RowsAreRows DEF Others
  <1>3. n \notin Rows
    BY <1>2
  <1>4. promoted'[n].what = w
    <2>1. promoted' = Append(promoted, [what |-> w, created |-> t]) /\ promoted \in Seq(RowType)
      BY DEF Promote, TInv, TableOK
    <2>2. promoted'[n] = [what |-> w, created |-> t]
      BY <2>1
    <2> QED BY <2>2
  <1>5. Cardinality(gone) \in Nat
    <2>1. gone \in SUBSET (1..Len(promoted))
      BY DEF TInv, TableOK
    <2> QED BY <2>1, RowSets
  <1>6. Changes' = Changes + 1
    BY <1>1, <1>2, <1>5 DEF Changes
  <1> HIDE DEF n
  <1>7. Selected(f)' = Selected(f) \cup (IF Selects(f, w) THEN {n} ELSE {})
    <2>1. Selected(f)' = {r \in Rows \cup {n} : Selects(f, promoted'[r].what)}
      BY <1>1 DEF Selected
    <2>2. Selected(f) = {r \in Rows : Selects(f, promoted[r].what)}
      BY DEF Selected
    <2> QED BY <1>2, <1>3, <1>4, <2>1, <2>2
  <1> QED BY <1>3, <1>6, <1>7 DEF n

LEMMA SelectedAfterDelete ==
  ASSUME TInv, NEW d \in Rows, Delete(d), NEW f
  PROVE  /\ Selected(f)' = Selected(f) \ {d}
         /\ Changes' = Changes + 1
  <1>1. Others /\ promoted' = promoted /\ gone' = gone \cup {d} /\ d \notin gone
        /\ Rows' = Rows \ {d}
    BY DeleteStep
  <1>2. Selected(f)' = Selected(f) \ {d}
    BY <1>1 DEF Selected
  <1>3. gone \in SUBSET (1..Len(promoted)) /\ Len(promoted) \in Nat
    BY RowsAreRows DEF TInv, TableOK
  <1>4. IsFiniteSet(gone) /\ Cardinality(gone) \in Nat
    BY <1>3, RowSets
  <1>5. Cardinality(gone \cup {d}) = Cardinality(gone) + 1
    BY <1>1, <1>4, FS_AddElement
  <1>6. Changes' = Changes + 1
    BY <1>1, <1>3, <1>4, <1>5 DEF Changes
  <1> QED BY <1>2, <1>6

LEMMA NearArithmetic ==
  ASSUME NEW t \in Int, NEW at \in Int, NEW m \in Int, NEW k \in Int, NEW c \in Int,
         NEW e \in Int,
         e = c + 1, k \in (m - 1)..(m + 1), t - m \in (at - c)..(c - at)
  PROVE  t - k \in (at - e)..(e - at)
  OBVIOUS

LEMMA NearStays ==
  ASSUME TInv, NEW x \in Lists, NEW total \in Nat, NEW at \in Int, Near(total, x.f, at),
         \/ \E w \in Kinds, t \in Times : Promote(w, t)
         \/ \E r \in Rows : Delete(r)
  PROVE  Near(total, x.f, at)'
  <1> DEFINE S == Selected(x.f)
  <1>1. IsFiniteSet(S) /\ Cardinality(S) \in Nat
    BY RowsInOrder
  <1>2. Changes \in Nat
    <2>1. gone \in SUBSET (1..Len(promoted)) /\ Len(promoted) \in Nat
      BY RowsAreRows DEF TInv, TableOK
    <2>2. Cardinality(gone) \in Nat
      BY <2>1, RowSets
    <2> QED BY <2>1, <2>2 DEF Changes
  <1>3. /\ Changes' = Changes + 1
        /\ Cardinality(S') \in (Cardinality(S) - 1)..(Cardinality(S) + 1)
    <2>1. ASSUME NEW w \in Kinds, NEW t \in Times, Promote(w, t)
          PROVE  /\ Changes' = Changes + 1
                 /\ Cardinality(S') \in (Cardinality(S) - 1)..(Cardinality(S) + 1)
      <3> DEFINE n == Len(promoted) + 1
      <3>1. /\ S' = S \cup (IF Selects(x.f, w) THEN {n} ELSE {})
            /\ Changes' = Changes + 1
        BY <2>1, SelectedAfterPromote
      <3>2. S' = S \/ S' = S \cup {n}
        BY <3>1
      <3>3. Cardinality(S \cup {n}) = (IF n \in S THEN Cardinality(S) ELSE Cardinality(S) + 1)
        BY <1>1, FS_AddElement
      <3> HIDE DEF S, n
      <3>4. Cardinality(S') \in {Cardinality(S), Cardinality(S) + 1}
        BY <3>2, <3>3
      <3> QED BY <1>1, <3>1, <3>4
    <2>2. ASSUME NEW r \in Rows, Delete(r)
          PROVE  /\ Changes' = Changes + 1
                 /\ Cardinality(S') \in (Cardinality(S) - 1)..(Cardinality(S) + 1)
      <3>1. S' = S \ {r} /\ Changes' = Changes + 1
        BY <2>2, SelectedAfterDelete
      <3>2. Cardinality(S \ {r}) = (IF r \in S THEN Cardinality(S) - 1 ELSE Cardinality(S))
        BY <1>1, FS_RemoveElement
      <3> HIDE DEF S
      <3> QED BY <1>1, <3>1, <3>2
    <2> QED BY <2>1, <2>2
  <1>4. total - Cardinality(S) \in (at - Changes)..(Changes - at)
    BY DEF Near
  <1>5. Changes' \in Nat /\ Cardinality(S') \in Int /\ Cardinality(S) \in Int
    BY <1>1, <1>2, <1>3
  <1>6. PICK m \in Int, k \in Int, c \in Int, e \in Int :
          m = Cardinality(S) /\ k = Cardinality(S') /\ c = Changes /\ e = Changes'
    BY <1>2, <1>5
  <1> HIDE DEF S
  <1>7. e = c + 1 /\ k \in (m - 1)..(m + 1) /\ total - m \in (at - c)..(c - at)
    BY <1>3, <1>4, <1>6
  <1>8. total - k \in (at - e)..(e - at)
    BY <1>7, NearArithmetic
  <1>9. total - Cardinality(S') \in (at - Changes')..(Changes' - at)
    BY <1>6, <1>8
  <1> QED BY <1>9 DEF Near, S

(* A page and the total that goes with it.                                 *)
LEMMA PageNearTotal ==
  ASSUME NEW n \in Nat, NEW o \in Nat, NEW m \in Nat, NEW t \in Nat, NEW d \in Int,
         t - m \in -d..d
  PROVE  Min({n, Max({0, t - o})}) - Min({n, Max({0, m - o})}) \in -d..d
  <1> DEFINE a == Max({0, t - o})
             b == Max({0, m - o})
  <1>1. a = (IF 0 < t - o THEN t - o ELSE 0) /\ b = (IF 0 < m - o THEN m - o ELSE 0)
    BY MaxOfTwo
  <1> HIDE DEF a, b
  <1>2. a \in Int /\ b \in Int
    BY <1>1
  <1>3. Min({n, a}) = (IF n < a THEN n ELSE a) /\ Min({n, b}) = (IF n < b THEN n ELSE b)
    BY <1>2, MinOfTwo
  <1>4. Min({n, a}) - Min({n, b}) \in -d..d
    BY <1>1, <1>3
  <1> QED BY <1>4 DEF a, b

Fits == FInv /\ TotalFitsPage

LEMMA FitsKept == TInv /\ Fits /\ [Next]_vars => Fits'
  <1> SUFFICES ASSUME TInv, Fits, [Next]_vars PROVE Fits'
    OBVIOUS
  <1>1. TInv'
    BY TKept
  <1>2. CASE UNCHANGED vars
    <2>1. call' = call /\ Changes' = Changes /\ Selected(call.x.f)' = Selected(call.x.f)
      BY <1>2 DEF vars, Changes, Selected, Rows
    <2>2. FInv'
      BY <2>1 DEF Fits, FInv, Near
    <2>3. TotalFitsPage'
      BY <2>1, Zenon DEF Fits, TotalFitsPage
    <2> QED BY <2>2, <2>3 DEF Fits
  <1>3. ASSUME call'.op /= "list" PROVE Fits'
    BY <1>3 DEF Fits, FInv, TotalFitsPage
  <1>4. CASE \/ \E w \in Kinds, t \in Times : Promote(w, t)
             \/ \E r \in Rows : Delete(r)
    <2>1. call' = call
      BY <1>4 DEF Promote, Delete
    <2>2. TotalFitsPage'
      BY <2>1, Zenon DEF Fits, TotalFitsPage
    <2>3. ASSUME call.op = "list", call.stage = "page" PROVE FInv'
      <3>1. call \in ListType
        BY <2>3, Zenon DEF TInv, ListOK
      <3>2. call.x \in Lists /\ call.total \in Nat /\ call.as \in Int
        BY <3>1, BoundsAssumption DEF ListType
      <3>3. Near(call.total, call.x.f, call.as)
        BY <2>3 DEF Fits, FInv
      <3>4. \A x \in Lists, total \in Nat, at \in Int :
              Near(total, x.f, at) => Near(total, x.f, at)'
        BY <1>4, NearStays
      <3>5. PICK x \in Lists, total \in Nat, at \in Int :
              x = call.x /\ total = call.total /\ at = call.as
        BY <3>2
      <3>6. Near(total, x.f, at)'
        BY <3>3, <3>4, <3>5
      <3>7. Near(call.total, call.x.f, call.as)'
        BY <2>1, <3>5, <3>6 DEF Near
      <3> QED BY <2>1, <3>7 DEF FInv
    <2> QED BY <2>1, <2>2, <2>3 DEF Fits, FInv
  <1>5. ASSUME NEW x \in Lists, ListTraces(x) PROVE Fits'
    BY <1>5 DEF ListTraces, Fits, FInv, TotalFitsPage
  <1>6. CASE CountTraces
    <2>1. /\ UNCHANGED <<promoted, gone>> /\ call \in ListType /\ call'.x = call.x
          /\ call'.stage = "page" /\ call'.total = Cardinality(Selected(call.x.f))
          /\ call'.as = Changes
      BY <1>6, CountStep
    <2>2. Changes' = Changes /\ Changes \in Nat
      BY <2>1, SameTable
    <2>3. PICK x \in Lists : x = call.x
      BY <2>1 DEF ListType
    <2>4. Selected(x.f)' = Selected(x.f) /\ Cardinality(Selected(x.f)) \in Nat
      <3>1. Selected(x.f)' = Selected(x.f)
        BY <2>1 DEF Selected, Rows
      <3> QED BY <3>1, RowsInOrder
    <2>5. Near(call.total, call.x.f, call.as)'
      <3>1. Selected(call.x.f)' = Selected(x.f)'
        BY <2>1, <2>3 DEF Selected
      <3>2. call'.total - Cardinality(Selected(call.x.f)') = 0 /\ call'.as - Changes' = 0
            /\ Changes' - call'.as = 0
        BY <2>1, <2>2, <2>3, <2>4, <3>1
      <3> QED BY <3>2 DEF Near
    <2>6. FInv'
      BY <2>5 DEF FInv
    <2> QED BY <2>1, <2>6 DEF Fits, TotalFitsPage
  <1>7. CASE PageTraces
    <2> DEFINE n == PageLength(call.x.perPage)
               o == (Max({call.page, 1}) - 1) * n
               m == Cardinality(Selected(call.x.f))
               d == Changes - call.as
    <2>1. PICK P \in Pages(call.x, call.page) :
          /\ UNCHANGED <<promoted, gone>> /\ call.op = "list" /\ call \in ListType
          /\ call.stage = "page" /\ call'.x = call.x /\ call'.page = call.page
          /\ call'.stage \in {"done", "turn"} /\ call'.total = call.total /\ call'.as = d
          /\ call'.got = Cardinality(P)
      BY <1>7, PageStep
    <2>2. call.x \in Lists /\ call.page \in Nat /\ call.total \in Nat /\ call.as \in Int
      BY <2>1, BoundsAssumption DEF ListType
    <2>3. n \in Nat /\ o \in Nat
      BY <2>2, PageLengthType, OffsetType
    <2>4. m \in Nat
      BY <2>2, RowsInOrder
    <2>5. Cardinality(P) = Min({n, Max({0, m - o})})
      BY <2>2, PageHas
    <2>6. d \in Int /\ call.total - m \in -d..d
      <3>1. call.total - m \in (call.as - Changes)..(Changes - call.as)
        BY <2>1, Zenon DEF Fits, FInv, Near
      <3>2. Changes \in Int
        BY <2>1, SameTable
      <3> HIDE DEF m
      <3>3. d \in Int /\ -d = call.as - Changes
        BY <2>2, <3>2
      <3> QED BY <3>1, <3>3
    <2> HIDE DEF m, d, n, o
    <2>7. Min({n, Max({0, call.total - o})}) - Min({n, Max({0, m - o})}) \in -d..d
      BY <2>2, <2>3, <2>4, <2>6, PageNearTotal
    <2>8. Min({n, Max({0, call'.total - (Max({call'.page, 1}) - 1) * PageLength(call'.x.perPage)})})
            - call'.got \in -call'.as..call'.as
      BY <2>1, <2>5, <2>7 DEF n, o
    <2>9. TotalFitsPage'
      BY <2>1, <2>8 DEF TotalFitsPage, n
    <2>10. FInv'
      BY <2>1 DEF FInv
    <2> QED BY <2>9, <2>10 DEF Fits
  <1>8. CASE (\E f \in Filters : AvailableFilters(f)) \/ AskFacet
    <2>1. call'.op = "options"
      BY <1>8, OptionsBegin, AskStep
    <2> QED BY <1>3, <2>1
  <1>9. CASE \/ \E x \in Aggregates : Aggregate(x)
             \/ call.op = "aggregate" /\ \E g \in call.groups : TopErrors(g)
    BY <1>3, <1>9, AggregateOps
  <1>10. CASE Return
    BY <1>3, <1>10, ReturnStep
  <1> QED BY <1>2, <1>4, <1>5, <1>6, <1>7, <1>8, <1>9, <1>10, Steps

(* The total that comes with a page is that of the traces the page was      *)
(* taken from, but for what was promoted and deleted in between.           *)
THEOREM TotalsFit == Spec => []TotalFitsPage
  <1>1. Init => Fits
    <2> SUFFICES ASSUME Init PROVE call.op /= "list"
      BY DEF Fits, FInv, TotalFitsPage
    <2> QED BY DEF Init, NoCall
  <1>2. Fits => TotalFitsPage
    BY DEF Fits
  <1> QED BY <1>1, <1>2, TAlways, FitsKept, PTL DEF Spec

-----------------------------------------------------------------------------
(* Rows are numbers from 1 on.                                             *)
LEMMA NumberedSets ==
  ASSUME NEW n \in Nat, NEW T \in SUBSET (1..n), NEW S \in SUBSET T
  PROVE  /\ IsFiniteSet(S) /\ IsFiniteSet(T)
         /\ Cardinality(S) \in Nat /\ Cardinality(T) \in Nat
         /\ Cardinality(S) <= Cardinality(T)
  <1>1. IsFiniteSet(1..n)
    BY FS_Interval
  <1>2. IsFiniteSet(T)
    BY <1>1, FS_Subset
  <1> QED BY <1>2, FS_Subset, FS_CardinalityType

(* A group in the window, among all rows or those of before and since.     *)
LEMMA GroupsInWindow ==
  ASSUME TInv, call.op = "aggregate", NEW key
  PROVE  /\ OfGroup(Stayed, key) \subseteq OfGroup(Rows, key)
         /\ OfGroup(Rows, key) \subseteq OfGroup(Touched, key)
         /\ OfGroup(Touched, key) \subseteq 1..Len(promoted)
         /\ OfGroup(Rows, key) = Group(call.x.col, key, Recent(call.x.since))
  <1>1. Began /\ Len(promoted) \in Nat
    BY RowsAreRows DEF TInv
  <1>2. Stayed \subseteq Rows /\ Rows \subseteq Touched /\ Touched \subseteq 1..Len(promoted)
    BY <1>1 DEF Began, Touched, Stayed
  <1>3. \A S, r : r \in OfGroup(S, key) <=>
                    /\ r \in S /\ promoted[r].what[call.x.col] = key
                    /\ call.x.since = None \/ promoted[r].created >= call.x.since
    BY Zenon DEF OfGroup, Group
  <1>4. \A r : r \in Group(call.x.col, key, Recent(call.x.since)) <=>
                 /\ r \in Rows /\ promoted[r].what[call.x.col] = key
                 /\ call.x.since = None \/ promoted[r].created >= call.x.since
    BY Zenon DEF Group, Recent
  <1>5. OfGroup(Rows, key) = Group(call.x.col, key, Recent(call.x.since))
    BY <1>3, <1>4, Zenon
  <1> QED BY <1>2, <1>3, <1>5, Zenon

LEMMA AInvOthers ==
  ASSUME TInv, AInv, Others
  PROVE  AInv'
  <1> SUFFICES ASSUME call.op = "aggregate"
               PROVE  /\ \A g \in call.groups \cup call.results : CountIsTrue(g)'
                      /\ \A g \in call.results : ChainsAreTrue(g)'
                      /\ \A key : \A r \in Stayed' :
                           /\ key = What(r)'[call.x.col]
                           /\ Cardinality(OfGroup(Stayed, key)') >= Least(call.x)
                           => Listed(key)
    <2>1. call' = call
      BY DEF Others
    <2> QED BY <2>1, Zenon DEF AInv, Listed
  <1>1. /\ Stayed' \subseteq Stayed /\ Touched \subseteq Touched' /\ Stayed \subseteq Touched
        /\ Touched \subseteq 1..Len(promoted)
        /\ \A r \in 1..Len(promoted) : What(r)' = What(r) /\ promoted'[r] = promoted[r]
        /\ call' = call /\ TInv'
    BY OthersSteps DEF Others
  <1>2. PICK n \in Nat : n = Len(promoted')
    BY <1>1 DEF TInv, TableOK
  <1>3. Touched' \subseteq 1..n
    <2>1. call'.op /= "none" /\ Began'
      BY <1>1 DEF TInv
    <2>2. Touched' = call'.start \cup ((call'.upTo + 1)..n)
      BY <1>2 DEF Touched
    <2> QED BY <1>2, <2>1, <2>2 DEF Began
  <1>4. ASSUME NEW key
        PROVE  /\ OfGroup(Stayed, key)' \subseteq OfGroup(Stayed, key)
               /\ OfGroup(Touched, key) \subseteq OfGroup(Touched, key)'
               /\ OfGroup(Touched, key)' \subseteq 1..n
               /\ OfGroup(Stayed, key) \subseteq OfGroup(Touched, key)
    <2>1. \A S, r : r \in OfGroup(S, key) <=>
                      /\ r \in S /\ promoted[r].what[call.x.col] = key
                      /\ call.x.since = None \/ promoted[r].created >= call.x.since
      BY Zenon DEF OfGroup, Group
    <2>2. \A r : r \in OfGroup(Stayed, key)' <=>
                   /\ r \in Stayed' /\ promoted'[r].what[call.x.col] = key
                   /\ call.x.since = None \/ promoted'[r].created >= call.x.since
      BY <1>1, Zenon DEF OfGroup, Group
    <2>3. \A r : r \in OfGroup(Touched, key)' <=>
                   /\ r \in Touched' /\ promoted'[r].what[call.x.col] = key
                   /\ call.x.since = None \/ promoted'[r].created >= call.x.since
      BY <1>1, Zenon DEF OfGroup, Group
    <2>4. \A r \in Touched : promoted'[r] = promoted[r]
      BY <1>1
    <2>5. ASSUME NEW r \in OfGroup(Stayed, key)' PROVE r \in OfGroup(Stayed, key)
      <3>1. r \in Stayed /\ promoted'[r] = promoted[r]
        BY <1>1, <2>2, <2>4, <2>5
      <3> QED BY <2>1, <2>2, <2>5, <3>1, Zenon
    <2>6. ASSUME NEW r \in OfGroup(Touched, key) PROVE r \in OfGroup(Touched, key)'
      <3>1. r \in Touched' /\ promoted'[r] = promoted[r]
        BY <1>1, <2>1, <2>4, <2>6
      <3> QED BY <2>1, <2>3, <2>6, <3>1, Zenon
    <2>7. OfGroup(Touched, key)' \subseteq 1..n
      BY <1>3, <2>3
    <2>8. OfGroup(Stayed, key) \subseteq OfGroup(Touched, key)
      BY <1>1, <2>1
    <2> QED BY <2>5, <2>6, <2>7, <2>8
  <1>5. ASSUME NEW key
        PROVE  /\ Cardinality(OfGroup(Stayed, key)') <= Cardinality(OfGroup(Stayed, key))
               /\ Cardinality(OfGroup(Touched, key)) <= Cardinality(OfGroup(Touched, key)')
               /\ Cardinality(OfGroup(Stayed, key)) \in Nat
               /\ Cardinality(OfGroup(Stayed, key)') \in Nat
               /\ Cardinality(OfGroup(Touched, key)) \in Nat
               /\ Cardinality(OfGroup(Touched, key)') \in Nat
    <2>1. /\ OfGroup(Stayed, key)' \subseteq OfGroup(Stayed, key)
          /\ OfGroup(Touched, key) \subseteq OfGroup(Touched, key)'
          /\ OfGroup(Touched, key)' \subseteq 1..n
          /\ OfGroup(Stayed, key) \subseteq OfGroup(Touched, key)
      BY <1>4
    <2> QED BY <2>1, NumberedSets
  <1>6. ASSUME NEW g \in call.groups \cup call.results PROVE CountIsTrue(g)'
    <2>1. /\ g.count \in Cardinality(OfGroup(Stayed, g.key))..Cardinality(OfGroup(Touched, g.key))
          /\ g.count >= Least(call.x)
      BY Zenon DEF AInv, CountIsTrue
    <2> DEFINE key == g.key
    <2>2. /\ Cardinality(OfGroup(Stayed, key)') <= Cardinality(OfGroup(Stayed, key))
          /\ Cardinality(OfGroup(Touched, key)) <= Cardinality(OfGroup(Touched, key)')
          /\ Cardinality(OfGroup(Stayed, key)) \in Nat
          /\ Cardinality(OfGroup(Stayed, key)') \in Nat
          /\ Cardinality(OfGroup(Touched, key)) \in Nat
          /\ Cardinality(OfGroup(Touched, key)') \in Nat
      BY <1>5
    <2>3. g.count \in Cardinality(OfGroup(Stayed, key)')..Cardinality(OfGroup(Touched, key)')
      BY <2>1, <2>2
    <2> QED BY <1>1, <2>1, <2>3 DEF CountIsTrue
  <1>7. ASSUME NEW g \in call.results PROVE ChainsAreTrue(g)'
    <2>1. ChainsAreTrue(g)
      BY Zenon DEF AInv
    <2>2. /\ OfGroup(Stayed, g.key)' \subseteq OfGroup(Stayed, g.key)
          /\ OfGroup(Touched, g.key) \subseteq OfGroup(Touched, g.key)'
          /\ OfGroup(Touched, g.key) \subseteq Touched
          /\ OfGroup(Stayed, g.key) \subseteq Touched
      BY <1>1, <1>4, Zenon DEF OfGroup, Group
    <2>3. \A r \in Touched : What(r)' = What(r)
      BY <1>1
    <2> QED BY <2>1, <2>2, <2>3, Zenon DEF ChainsAreTrue
  <1>8. ASSUME NEW key, NEW r \in Stayed', key = What(r)'[call.x.col],
               Cardinality(OfGroup(Stayed, key)') >= Least(call.x)
        PROVE  Listed(key)
    <2>1. r \in Stayed /\ What(r)' = What(r)
      BY <1>1
    <2>2. call.x \in Aggregates
      <3>1. call \in AggregateType(call.x)
        BY Zenon DEF TInv, AggregateOK
      <3> QED BY <3>1 DEF AggregateType
    <2>3. Least(call.x) \in Nat
      BY <2>2, LeastType
    <2>4. Cardinality(OfGroup(Stayed, key)) >= Least(call.x)
      BY <1>5, <1>8, <2>3
    <2>5. key = What(r)[call.x.col]
      BY <1>8, <2>1
    <2> QED BY <2>1, <2>4, <2>5, Zenon DEF AInv
  <1> QED BY <1>6, <1>7, <1>8, Zenon

LEMMA AInvBegins ==
  ASSUME TInv, NEW x \in Aggregates, Aggregate(x)
  PROVE  AInv'
  <1>1. /\ UNCHANGED <<promoted, gone>>
        /\ call'.op = "aggregate"
        /\ call'.start = Rows /\ call'.upTo = Len(promoted) /\ call'.x = x
        /\ call'.results = {}
        /\ \A g \in call'.groups :
             /\ g.count = Cardinality(Group(x.col, g.key, Recent(x.since)))
             /\ g.count \in Nat /\ g.count >= Least(x)
        /\ \A r \in Recent(x.since) :
             LET key == What(r)[x.col]
                 n   == Cardinality(Group(x.col, key, Recent(x.since)))
             IN  n >= Least(x) => \E g \in call'.groups : g.key = key
    BY AggregateBegins
  <1>2. Stayed' = Rows /\ Touched' = Rows /\ \A r : What(r)' = What(r)
    BY <1>1, CallBegins DEF What
  <1>3. ASSUME NEW key
        PROVE  /\ OfGroup(Stayed, key)' = Group(x.col, key, Recent(x.since))
               /\ OfGroup(Touched, key)' = Group(x.col, key, Recent(x.since))
    <2>1. \A r : r \in Group(x.col, key, Recent(x.since)) <=>
                   /\ r \in Rows /\ promoted[r].what[x.col] = key
                   /\ x.since = None \/ promoted[r].created >= x.since
      BY Zenon DEF Group, Recent
    <2>2. \A r : r \in OfGroup(Stayed, key)' <=>
                   /\ r \in Stayed' /\ promoted'[r].what[call'.x.col] = key
                   /\ call'.x.since = None \/ promoted'[r].created >= call'.x.since
      BY Zenon DEF OfGroup, Group
    <2>3. \A r : r \in OfGroup(Touched, key)' <=>
                   /\ r \in Touched' /\ promoted'[r].what[call'.x.col] = key
                   /\ call'.x.since = None \/ promoted'[r].created >= call'.x.since
      BY Zenon DEF OfGroup, Group
    <2>4. promoted' = promoted
      BY <1>1
    <2> QED BY <1>1, <1>2, <2>1, <2>2, <2>3, <2>4, Zenon
  <1>4. ASSUME NEW g \in call'.groups PROVE CountIsTrue(g)'
    <2>1. /\ OfGroup(Stayed, g.key)' = Group(x.col, g.key, Recent(x.since))
          /\ OfGroup(Touched, g.key)' = Group(x.col, g.key, Recent(x.since))
      BY <1>3
    <2>2. g.count \in Cardinality(OfGroup(Stayed, g.key)')..Cardinality(OfGroup(Touched, g.key)')
      BY <1>1, <2>1
    <2> QED BY <1>1, <2>2 DEF CountIsTrue
  <1>5. ASSUME NEW key, NEW r \in Stayed', key = What(r)'[call'.x.col],
               Cardinality(OfGroup(Stayed, key)') >= Least(call'.x)
        PROVE  Listed(key)'
    <2>1. r \in Rows /\ key = What(r)[x.col]
      BY <1>1, <1>2, <1>5
    <2>2. Cardinality(Group(x.col, key, Recent(x.since))) >= Least(x)
      BY <1>1, <1>3, <1>5
    <2>3. PICK g \in call'.groups : g.key = key
      <3>1. CASE Group(x.col, key, Recent(x.since)) = {}
        <4>1. Cardinality(Group(x.col, key, Recent(x.since))) = 0
          BY <3>1, FS_EmptySet
        <4>2. Least(x) \in Nat /\ Least(x) >= 1
          BY LeastType
        <4> QED BY <2>2, <4>1, <4>2
      <3>2. CASE Group(x.col, key, Recent(x.since)) /= {}
        <4>1. PICK s \in Recent(x.since) : What(s)[x.col] = key
          BY <3>2 DEF Group, What
        <4> QED BY <1>1, <2>2, <4>1, Zenon
      <3> QED BY <3>1, <3>2
    <2> QED BY <2>3, Zenon DEF Listed
  <1> QED BY <1>1, <1>4, <1>5, Zenon DEF AInv

LEMMA AInvTopErrors ==
  ASSUME TInv, AInv, call.op = "aggregate", NEW g \in call.groups, TopErrors(g)
  PROVE  AInv'
  <1> DEFINE S(key) == Group(call.x.col, key, Recent(call.x.since))
  <1>1. /\ UNCHANGED <<promoted, gone>>
        /\ call'.op = "aggregate"
        /\ call'.start = call.start /\ call'.upTo = call.upTo /\ call'.x = call.x
        /\ call'.groups = call.groups \ {g}
        /\ \E s \in MostCommon(S(g.key)) :
             /\ call'.results = call.results \cup
                                  {[key |-> g.key, count |-> g.count, top |-> s \ {""}]}
             /\ Cardinality(s \ {""}) \in Nat /\ Cardinality(s \ {""}) <= Top
             /\ Cardinality(s) \in Nat /\ Cardinality(s) <= Cardinality(s \ {""}) + 1
    BY TopErrorsStep
  <1>2. PICK s \in MostCommon(S(g.key)) :
          /\ call'.results = call.results \cup
                               {[key |-> g.key, count |-> g.count, top |-> s \ {""}]}
          /\ Cardinality(s \ {""}) \in Nat
          /\ Cardinality(s) \in Nat /\ Cardinality(s) <= Cardinality(s \ {""}) + 1
    BY <1>1
  <1>3. Stayed' = Stayed /\ Touched' = Touched /\ \A r : What(r)' = What(r)
    BY <1>1, CallGoesOn DEF What
  <1>4. \A key : OfGroup(Stayed, key)' = OfGroup(Stayed, key)
    BY <1>1, <1>3, Zenon DEF OfGroup, Group
  <1>5. \A key : OfGroup(Touched, key)' = OfGroup(Touched, key)
    BY <1>1, <1>3, Zenon DEF OfGroup, Group
  <1> DEFINE row == [key |-> g.key, count |-> g.count, top |-> s \ {""}]
  <1>6. PICK h : h = row
    OBVIOUS
  <1>7. h.key = g.key /\ h.count = g.count /\ h.top = s \ {""}
    BY <1>6
  <1>8. call'.results = call.results \cup {h}
    BY <1>2, <1>6
  <1> HIDE DEF row
  <1>9. \A f : CountIsTrue(f)' <=> CountIsTrue(f)
    BY <1>1, <1>4, <1>5, Zenon DEF CountIsTrue
  <1>10. \A f : ChainsAreTrue(f)' <=> ChainsAreTrue(f)
    <2> SUFFICES ASSUME NEW f PROVE ChainsAreTrue(f)' <=> ChainsAreTrue(f)
      OBVIOUS
    <2>1. /\ OfGroup(Stayed, f.key)' = OfGroup(Stayed, f.key)
          /\ OfGroup(Touched, f.key)' = OfGroup(Touched, f.key)
      BY <1>4, <1>5
    <2>2. ASSUME NEW x
          PROVE  (\E r \in OfGroup(Touched, f.key) : What(r).error_chain = x)' <=>
                   \E r \in OfGroup(Touched, f.key) : What(r).error_chain = x
      BY <1>3, <2>1, Zenon
    <2>3. ASSUME NEW r
          PROVE  (What(r).error_chain \in f.top \cup {""})' <=> What(r).error_chain \in f.top \cup {""}
      BY <1>3, Zenon
    <2> QED BY <2>1, <2>2, <2>3, Zenon DEF ChainsAreTrue
  <1>11. CountIsTrue(h)
    <2>1. CountIsTrue(g)
      BY Zenon DEF AInv
    <2> QED BY <1>7, <2>1, Zenon DEF CountIsTrue
  <1>12. ChainsAreTrue(h)
    <2>1. /\ OfGroup(Stayed, g.key) \subseteq S(g.key) /\ S(g.key) \subseteq OfGroup(Touched, g.key)
          /\ S(g.key) \in SUBSET (1..Len(promoted))
      BY GroupsInWindow
    <2> HIDE DEF S
    <2>2. /\ \A y \in s : \E r \in S(g.key) : What(r).error_chain = y
          /\ Cardinality(s) < Top => \A r \in S(g.key) : What(r).error_chain \in s
      BY <2>1, MostCommonAre
    <2>3. ASSUME NEW y \in h.top PROVE \E r \in OfGroup(Touched, g.key) : What(r).error_chain = y
      BY <1>7, <2>1, <2>2, <2>3
    <2>4. ASSUME Cardinality(h.top) < Top - 1, NEW r \in OfGroup(Stayed, g.key)
          PROVE  What(r).error_chain \in h.top \cup {""}
      <3>1. Cardinality(s) < Top
        <4>1. Cardinality(h.top) \in Nat /\ Cardinality(s) <= Cardinality(h.top) + 1 /\ Top \in Nat
          BY <1>2, <1>7, BoundsAssumption
        <4> DEFINE n == Cardinality(s)
                   m == Cardinality(h.top)
        <4>2. n \in Nat /\ m \in Nat /\ n <= m + 1 /\ m < Top - 1
          BY <1>2, <2>4, <4>1
        <4> HIDE DEF n, m
        <4>3. n < Top
          BY <4>1, <4>2
        <4> QED BY <4>3 DEF n
      <3>2. What(r).error_chain \in s
        BY <2>1, <2>2, <2>4, <3>1
      <3> QED BY <1>7, <3>2
    <2> QED BY <1>7, <2>3, <2>4, Zenon DEF ChainsAreTrue
  <1>13. \A key : Listed(key) => Listed(key)'
    <2> SUFFICES ASSUME NEW f \in call.groups \cup call.results
                 PROVE  \E e \in call'.groups \cup call'.results : e.key = f.key
      BY Zenon DEF Listed
    <2>1. CASE f = g
      BY <1>7, <1>8, <2>1
    <2>2. CASE f /= g
      BY <1>1, <1>8, <2>2
    <2> QED BY <2>1, <2>2
  <1>14. \A f \in call'.groups \cup call'.results : CountIsTrue(f)'
    <2> SUFFICES ASSUME NEW f \in call'.groups \cup call'.results PROVE CountIsTrue(f)
      BY <1>9
    <2>1. f \in call.groups \cup call.results \/ f = h
      BY <1>1, <1>8
    <2> QED BY <1>11, <2>1, Zenon DEF AInv
  <1>15. \A f \in call'.results : ChainsAreTrue(f)'
    <2> SUFFICES ASSUME NEW f \in call'.results PROVE ChainsAreTrue(f)
      BY <1>10
    <2>1. f \in call.results \/ f = h
      BY <1>8
    <2> QED BY <1>12, <2>1, Zenon DEF AInv
  <1>16. ASSUME NEW key, NEW r \in Stayed', key = What(r)'[call'.x.col],
                Cardinality(OfGroup(Stayed, key)') >= Least(call'.x)
         PROVE  Listed(key)'
    <2>1. r \in Stayed /\ key = What(r)[call.x.col] /\ Cardinality(OfGroup(Stayed, key)) >= Least(call.x)
      BY <1>1, <1>3, <1>4, <1>16
    <2>2. Listed(key)
      BY <2>1, Zenon DEF AInv
    <2> QED BY <1>13, <2>2
  <1> QED BY <1>14, <1>15, <1>16, Zenon DEF AInv

LEMMA AInvKept == TInv /\ AInv /\ [Next]_vars => AInv'
  <1> SUFFICES ASSUME TInv, AInv, [Next]_vars PROVE AInv'
    OBVIOUS
  <1>1. CASE UNCHANGED vars
    <2>1. UNCHANGED <<promoted, gone, call>>
      BY <1>1 DEF vars
    <2>2. Stayed' = Stayed /\ Touched' = Touched /\ \A r : What(r)' = What(r)
      BY <2>1 DEF Stayed, Touched, Rows, What
    <2>3. \A key : OfGroup(Stayed, key)' = OfGroup(Stayed, key)
      BY <2>1, <2>2, Zenon DEF OfGroup, Group
    <2>4. \A key : OfGroup(Touched, key)' = OfGroup(Touched, key)
      BY <2>1, <2>2, Zenon DEF OfGroup, Group
    <2>5. \A g : (CountIsTrue(g)' <=> CountIsTrue(g)) /\ (ChainsAreTrue(g)' <=> ChainsAreTrue(g))
      BY <2>1, <2>2, <2>3, <2>4, Zenon DEF CountIsTrue, ChainsAreTrue
    <2>6. \A key : Listed(key)' <=> Listed(key)
      BY <2>1, Zenon DEF Listed
    <2> QED BY <2>1, <2>2, <2>3, <2>5, <2>6, Zenon DEF AInv
  <1>2. ASSUME call'.op /= "aggregate" PROVE AInv'
    BY <1>2, Zenon DEF AInv
  <1>3. ASSUME NEW w \in Kinds, NEW t \in Times, Promote(w, t) PROVE AInv'
    BY <1>3, PromoteStep, AInvOthers
  <1>4. ASSUME NEW r \in Rows, Delete(r) PROVE AInv'
    BY <1>4, DeleteStep, AInvOthers
  <1>5. CASE (\E x \in Lists : ListTraces(x)) \/ CountTraces \/ PageTraces
    BY <1>2, <1>5, ListOps
  <1>6. CASE (\E f \in Filters : AvailableFilters(f)) \/ AskFacet
    <2>1. call'.op = "options"
      BY <1>6, OptionsBegin, AskStep
    <2> QED BY <1>2, <2>1
  <1>7. CASE Return
    BY <1>2, <1>7, ReturnStep
  <1> QED BY <1>1, <1>3, <1>4, <1>5, <1>6, <1>7, AInvBegins, AInvTopErrors, Steps

(* A group that Aggregate reports has as many traces as it says, but for    *)
(* those that came or went meanwhile, its chains are those of traces it     *)
(* had, and no group and no chain is left out but for want of traces or of *)
(* places.                                                                 *)
THEOREM AggregatesAreTrue == Spec => []AggregateIsTrue
  <1>1. ASSUME AInv PROVE AggregateIsTrue
    <2> SUFFICES ASSUME call.op = "aggregate"
                 PROVE  /\ \A g \in call.results :
                             /\ g.count \in Cardinality(OfGroup(Stayed, g.key))..
                                              Cardinality(OfGroup(Touched, g.key))
                             /\ g.count >= Least(call.x)
                             /\ \A x \in g.top :
                                  \E r \in OfGroup(Touched, g.key) : What(r).error_chain = x
                             /\ \A r \in OfGroup(Stayed, g.key) :
                                  Cardinality(g.top) < Top - 1 =>
                                    What(r).error_chain \in g.top \cup {""}
                        /\ call.groups = {} => \A r \in Stayed :
                             Cardinality(OfGroup(Stayed, What(r)[call.x.col])) >= Least(call.x) =>
                               \E g \in call.results : g.key = What(r)[call.x.col]
      BY Zenon DEF AggregateIsTrue, OfGroup
    <2>1. /\ \A g \in call.results : CountIsTrue(g) /\ ChainsAreTrue(g)
          /\ \A r \in Stayed :
               Cardinality(OfGroup(Stayed, What(r)[call.x.col])) >= Least(call.x) =>
                 Listed(What(r)[call.x.col])
      BY <1>1, Zenon DEF AInv
    <2>2. ASSUME NEW key, call.groups = {}, Listed(key) PROVE \E g \in call.results : g.key = key
      BY <2>2 DEF Listed
    <2> QED BY <2>1, <2>2, Zenon DEF CountIsTrue, ChainsAreTrue
  <1>2. Init => AInv
    <2> SUFFICES ASSUME Init PROVE call.op /= "aggregate"
      BY Zenon DEF AInv
    <2> QED BY DEF Init, NoCall
  <1> QED BY <1>1, <1>2, TAlways, AInvKept, PTL DEF Spec

-----------------------------------------------------------------------------
(* What a walk has left out so far is of rows there are, which the filter   *)
(* selects.                                                                *)
LEMMA WalkSets ==
  ASSUME TInv, call.op = "list"
  PROVE  /\ call \in ListType /\ call.x \in Lists /\ call.page \in Nat
         /\ Stayed \subseteq Rows /\ Rows \subseteq Touched /\ Touched \subseteq 1..Len(promoted)
         /\ Unseen \subseteq Selected(call.x.f)
         /\ Skipped \subseteq Unseen /\ IsFiniteSet(Skipped) /\ Cardinality(Skipped) \in Nat
         /\ IsFiniteSet(Removed) /\ Cardinality(Removed) \in Nat
         /\ Offset(call.page) \in Nat /\ Walked \in Nat
         /\ Max({call.page, 1}) * PageLength(call.x.perPage) =
              Offset(call.page) + PageLength(call.x.perPage)
  <1>1. call \in ListType
    BY Zenon DEF TInv, ListOK
  <1>2. call.x \in Lists /\ call.page \in Nat
    BY <1>1 DEF ListType
  <1>3. Began /\ Len(promoted) \in Nat
    BY RowsAreRows DEF TInv
  <1>4. Stayed \subseteq Rows /\ Rows \subseteq Touched /\ Touched \subseteq 1..Len(promoted)
    BY <1>3 DEF Began, Touched, Stayed
  <1>5. Unseen \subseteq Selected(call.x.f)
    BY <1>4 DEF Unseen, Selected, What
  <1>6. Skipped \subseteq Unseen
    BY DEF Skipped
  <1>7. Skipped \in SUBSET (1..Len(promoted)) /\ Removed \in SUBSET (1..Len(promoted))
    BY <1>4, <1>6 DEF Unseen, Removed
  <1>8. /\ Offset(call.page) \in Nat
        /\ Max({call.page, 1}) * PageLength(call.x.perPage) =
             Offset(call.page) + PageLength(call.x.perPage)
    BY <1>2, OffsetType DEF Offset
  <1>9. PageLength(call.x.perPage) \in Nat
    BY <1>2, PageLengthType
  <1>10. Walked \in Nat
    BY <1>8, <1>9 DEF Walked
  <1> QED BY <1>1, <1>2, <1>4, <1>5, <1>6, <1>7, <1>8, <1>10, RowSets

(* What is not shown yet is equal to no other row, so ranks tell it apart. *)
LEMMA UnseenStandAlone ==
  ASSUME TInv, call.op = "list", NEW x, x = call.x, NEW r \in Unseen
  PROVE  \A s \in Selected(x.f) \ {r} : SortKey(x.sort, s) /= SortKey(x.sort, r)
  <1>1. Alone(r)
    BY DEF Unseen
  <1>2. \A s \in Selected(x.f) : s \in Touched /\ Selects(x.f, What(s))
    BY WalkSets DEF Selected, What
  <1> QED BY <1>1, <1>2 DEF Alone

LEMMA UnseenRanks ==
  ASSUME TInv, call.op = "list", NEW x, x = call.x, NEW r \in Unseen, NEW s \in Unseen,
         Cardinality(Before(x, r)) = Cardinality(Before(x, s))
  PROVE  r = s
  <1>1. r \in Selected(x.f) /\ s \in Selected(x.f) /\ x \in Lists
    BY WalkSets
  <1>2. SortKey(x.sort, r) = SortKey(x.sort, s)
    BY <1>1, RowsInOrder
  <1> QED BY <1>1, <1>2, UnseenStandAlone

(* The order of two rows never changes.                                    *)
LEMMA OrderStays ==
  ASSUME TInv, Others, NEW x, NEW r \in Rows, NEW s \in Rows
  PROVE  Precedes(x.sort, x.dir, s, r)' <=> Precedes(x.sort, x.dir, s, r)
  <1>1. promoted'[r] = promoted[r] /\ promoted'[s] = promoted[s]
    BY RowsAreRows DEF Others
  <1>2. /\ SortKey(x.sort, r)' = SortKey(x.sort, r)
        /\ SortKey(x.sort, s)' = SortKey(x.sort, s)
    BY <1>1 DEF SortKey
  <1>3. CASE x.dir = "asc"
    BY <1>2, <1>3, Zenon DEF Precedes
  <1>4. CASE x.dir /= "asc"
    BY <1>2, <1>4, Zenon DEF Precedes
  <1> QED BY <1>3, <1>4

(* A promotion moves no trace to an earlier rank, ...                      *)
LEMMA RankAfterPromote ==
  ASSUME TInv, NEW w \in Kinds, NEW t \in Times, Promote(w, t), NEW x \in Lists,
         NEW r \in Selected(x.f)
  PROVE  /\ Cardinality(Before(x, r)) <= Cardinality(Before(x, r)')
         /\ Cardinality(Before(x, r)) \in Nat /\ Cardinality(Before(x, r)') \in Nat
  <1> DEFINE n == Len(promoted) + 1
  <1>1. Selected(x.f)' = Selected(x.f) \cup (IF Selects(x.f, w) THEN {n} ELSE {}) /\ Others
    BY SelectedAfterPromote, PromoteStep
  <1>2. IsFiniteSet(Selected(x.f))
    BY RowsInOrder
  <1>3. IsFiniteSet(Selected(x.f)')
    <2>1. IsFiniteSet(Selected(x.f) \cup {n})
      BY <1>2, FS_AddElement
    <2>2. Selected(x.f)' \in SUBSET (Selected(x.f) \cup {n})
      BY <1>1
    <2> QED BY <2>1, <2>2, FS_Subset
  <1>4. Before(x, r)' \in SUBSET (Selected(x.f)')
    BY DEF Before
  <1>5. Before(x, r) \in SUBSET (Before(x, r)')
    <2> SUFFICES ASSUME NEW s \in Before(x, r) PROVE s \in Before(x, r)'
      OBVIOUS
    <2>1. s \in Selected(x.f) /\ Precedes(x.sort, x.dir, s, r)
      BY DEF Before
    <2>2. r \in Rows /\ s \in Rows
      BY <2>1 DEF Selected
    <2>3. Precedes(x.sort, x.dir, s, r)'
      BY <1>1, <2>1, <2>2, OrderStays
    <2>4. s \in Selected(x.f)'
      BY <1>1, <2>1
    <2> QED BY <2>3, <2>4 DEF Before
  <1>6. IsFiniteSet(Before(x, r)')
    BY <1>3, <1>4, FS_Subset
  <1> QED BY <1>5, <1>6, FS_Subset, FS_CardinalityType

(* ... and a deletion moves one by one rank at most.                       *)
LEMMA RankAfterDelete ==
  ASSUME TInv, NEW d \in Rows, Delete(d), NEW x \in Lists, NEW r \in Selected(x.f)
  PROVE  /\ Cardinality(Before(x, r)) \in Nat /\ Cardinality(Before(x, r)') \in Nat
         /\ Cardinality(Before(x, r)) <= Cardinality(Before(x, r)') + 1
         /\ d \notin Selected(x.f) => Cardinality(Before(x, r)') = Cardinality(Before(x, r))
  <1>1. Selected(x.f)' = Selected(x.f) \ {d} /\ Others
    BY SelectedAfterDelete, DeleteStep
  <1>2. Before(x, r)' = Before(x, r) \ {d}
    <2>1. \A s : s \in Before(x, r)' <=> s \in Selected(x.f)' /\ Precedes(x.sort, x.dir, s, r)'
      BY Zenon DEF Before
    <2>2. \A s : s \in Before(x, r) <=> s \in Selected(x.f) /\ Precedes(x.sort, x.dir, s, r)
      BY Zenon DEF Before
    <2>3. \A s \in Selected(x.f) :
            Precedes(x.sort, x.dir, s, r)' <=> Precedes(x.sort, x.dir, s, r)
      <3>1. r \in Rows /\ Selected(x.f) \subseteq Rows
        BY DEF Selected
      <3> QED BY <1>1, <3>1, OrderStays
    <2>4. \A s : s \in Before(x, r)' <=> s \in Before(x, r) /\ s /= d
      <3>1. \A s : s \in Selected(x.f)' <=> s \in Selected(x.f) /\ s /= d
        BY <1>1
      <3> QED BY <2>1, <2>2, <2>3, <3>1, Zenon
    <2> QED BY <2>4
  <1>3. IsFiniteSet(Before(x, r)) /\ Cardinality(Before(x, r)) \in Nat
    BY RowsInOrder, FS_CardinalityType
  <1>4. /\ IsFiniteSet(Before(x, r) \ {d})
        /\ Cardinality(Before(x, r) \ {d}) =
             (IF d \in Before(x, r) THEN Cardinality(Before(x, r)) - 1
              ELSE Cardinality(Before(x, r)))
    BY <1>3, FS_RemoveElement
  <1>5. Cardinality(Before(x, r)') \in Nat
    BY <1>2, <1>4, FS_CardinalityType
  <1>6. d \in Before(x, r) => d \in Selected(x.f)
    BY DEF Before
  <1> QED BY <1>2, <1>3, <1>4, <1>5, <1>6

(* What the others do to a walk: what it has not shown yet only shrinks,    *)
(* and what it may have left out is decided by ranks alone.                *)
LEMMA WalkOthers ==
  ASSUME TInv, Others, call.op = "list", NEW x, x = call.x
  PROVE  /\ \A r \in 1..Len(promoted) : Selects(x.f, What(r))' <=> Selects(x.f, What(r))
         /\ Unseen' \subseteq Unseen /\ call'.seen = call.seen
         /\ call'.op = "list" /\ call'.stage = call.stage /\ call'.page = call.page
         /\ \A r : r \in Skipped <=>
              r \in Unseen /\ (call.stage = "done" \/ Cardinality(Before(x, r)) < Walked)
         /\ \A r : r \in Skipped' <=>
              r \in Unseen' /\ (call.stage = "done" \/ Cardinality(Before(x, r)') < Walked)
  <1>1. /\ Stayed' \subseteq Stayed /\ Stayed \subseteq Touched
        /\ Touched \subseteq 1..Len(promoted) /\ Touched \subseteq Touched'
        /\ \A r \in 1..Len(promoted) : What(r)' = What(r)
        /\ call' = call
    BY OthersSteps DEF Others
  <1>2. \A r \in 1..Len(promoted) : Selects(x.f, What(r))' <=> Selects(x.f, What(r))
    <2>1. ASSUME NEW r \in 1..Len(promoted)
          PROVE  Selects(x.f, What(r))' <=> Selects(x.f, What(r))
      <3>1. What(r)' = What(r)
        BY <1>1
      <3> QED BY <3>1, Zenon DEF Selects
    <2> QED BY <2>1
  <1>3. Unseen' \subseteq Unseen
    <2>1. \A r : r \in Unseen <=>
            r \in Stayed /\ Selects(x.f, What(r)) /\ Alone(r) /\ r \notin call.seen
      BY Zenon DEF Unseen
    <2>2. \A r : r \in Unseen' <=>
            r \in Stayed' /\ Selects(x.f, What(r))' /\ Alone(r)' /\ r \notin call.seen
      BY <1>1, Zenon DEF Unseen, Selects
    <2>3. \A r \in Stayed : r \in 1..Len(promoted)
      BY <1>1
    <2>4. ASSUME NEW r \in Stayed, Alone(r)' PROVE Alone(r)
      <3> SUFFICES ASSUME NEW s \in Touched \ {r}, Selects(x.f, What(s))
                   PROVE  SortKey(x.sort, s) /= SortKey(x.sort, r)
        BY Zenon DEF Alone
      <3>1. s \in Touched' /\ r \in 1..Len(promoted) /\ s \in 1..Len(promoted)
        BY <1>1, <2>3
      <3>2. Selects(call.x.f, What(s))'
        BY <1>1, <1>2, <3>1, Zenon DEF Selects
      <3>3. SortKey(call.x.sort, s)' /= SortKey(call.x.sort, r)'
        BY <2>4, <3>1, <3>2 DEF Alone
      <3>4. promoted'[r] = promoted[r] /\ promoted'[s] = promoted[s]
        BY <3>1 DEF Others
      <3> QED BY <1>1, <3>3, <3>4 DEF SortKey
    <2> QED BY <1>1, <1>2, <2>1, <2>2, <2>3, <2>4, Zenon
  <1>4. Walked' = Walked
    BY <1>1, Zenon DEF Walked, Offset
  <1>5. \A r : Before(call.x, r)' = Before(x, r)'
    <2>1. call'.x = x
      BY <1>1
    <2>2. Selected(call.x.f)' = Selected(x.f)'
      BY <2>1 DEF Selected
    <2>3. \A r, s : Precedes(call.x.sort, call.x.dir, s, r)' <=> Precedes(x.sort, x.dir, s, r)'
      <3>1. \A r : SortKey(call.x.sort, r)' = SortKey(x.sort, r)'
        BY <2>1 DEF SortKey
      <3>2. call'.x.dir = x.dir
        BY <2>1
      <3>3. CASE x.dir = "asc"
        BY <3>1, <3>2, <3>3, Zenon DEF Precedes
      <3>4. CASE x.dir /= "asc"
        BY <3>1, <3>2, <3>4, Zenon DEF Precedes
      <3> QED BY <3>3, <3>4
    <2>4. \A r, s : s \in Before(call.x, r)' <=> s \in Before(x, r)'
      BY <2>2, <2>3, Zenon DEF Before
    <2> QED BY <2>4 DEF Before
  <1>6. \A r : r \in Skipped <=>
          r \in Unseen /\ (call.stage = "done" \/ Cardinality(Before(x, r)) < Walked)
    BY Zenon DEF Skipped
  <1>7. \A r : r \in Skipped' <=>
          r \in Unseen' /\ (call.stage = "done" \/ Cardinality(Before(x, r)') < Walked)
    BY <1>1, <1>4, <1>5, Zenon DEF Skipped
  <1> QED BY <1>1, <1>2, <1>3, <1>6, <1>7

LEMMA WInvPromote ==
  ASSUME TInv, WInv, call.op = "list", NEW w \in Kinds, NEW t \in Times, Promote(w, t)
  PROVE  WInv'
  <1>1. Others /\ gone' = gone /\ Len(promoted') = Len(promoted) + 1
    BY PromoteStep
  <1>2. PICK x \in Lists : x = call.x
    BY WalkSets
  <1>3. /\ Unseen \subseteq Selected(x.f) /\ Walked \in Nat
        /\ IsFiniteSet(Skipped) /\ call.seen \subseteq Touched
        /\ Touched \subseteq 1..Len(promoted)
    BY <1>2, WalkSets DEF TInv, ListOK
  <1>4. /\ \A r \in 1..Len(promoted) : Selects(x.f, What(r))' <=> Selects(x.f, What(r))
        /\ Unseen' \subseteq Unseen /\ call'.seen = call.seen
        /\ call'.op = "list" /\ call'.stage = call.stage /\ call'.page = call.page
        /\ \A r : r \in Skipped <=>
             r \in Unseen /\ (call.stage = "done" \/ Cardinality(Before(x, r)) < Walked)
        /\ \A r : r \in Skipped' <=>
             r \in Unseen' /\ (call.stage = "done" \/ Cardinality(Before(x, r)') < Walked)
    BY <1>1, <1>2, WalkOthers
  <1>5. Skipped' \subseteq Skipped
    <2> SUFFICES ASSUME NEW r \in Skipped' PROVE r \in Skipped
      OBVIOUS
    <2>1. r \in Unseen /\ r \in Selected(x.f)
      BY <1>3, <1>4
    <2>2. /\ Cardinality(Before(x, r)) <= Cardinality(Before(x, r)')
          /\ Cardinality(Before(x, r)) \in Nat /\ Cardinality(Before(x, r)') \in Nat
      BY <2>1, RankAfterPromote
    <2>3. Cardinality(Before(x, r)') < Walked => Cardinality(Before(x, r)) < Walked
      BY <1>3, <2>2
    <2> QED BY <1>4, <2>1, <2>3, Zenon
  <1>6. Removed' = Removed
    <2>1. \A r : r \in Removed <=> r \in Touched /\ r \in gone /\ Selects(x.f, What(r))
      BY <1>2, Zenon DEF Removed
    <2>2. \A r : r \in Removed' <=> r \in Touched' /\ r \in gone /\ Selects(x.f, What(r))'
      BY <1>1, <1>2, Zenon DEF Removed, Others, Selects
    <2>3. gone \subseteq 1..Len(promoted) /\ Len(promoted) \in Nat
      BY RowsAreRows DEF TInv, TableOK
    <2>4. \A r \in 1..Len(promoted) : r \in Touched' <=> r \in Touched
      <3>1. /\ Touched = call.start \cup ((call.upTo + 1)..Len(promoted))
            /\ Touched' = call.start \cup ((call.upTo + 1)..(Len(promoted) + 1))
        BY <1>1 DEF Touched, Others
      <3>2. call.upTo \in Nat
        BY WalkSets DEF ListType
      <3> QED BY <2>3, <3>1, <3>2
    <2> QED BY <1>4, <2>1, <2>2, <2>3, <2>4, Zenon
  <1>7. Cardinality(Skipped') <= Cardinality(Removed')
    <2>1. IsFiniteSet(Skipped') /\ Cardinality(Skipped') <= Cardinality(Skipped)
      BY <1>3, <1>5, FS_Subset
    <2>2. Cardinality(Skipped') \in Nat /\ Cardinality(Skipped) \in Nat /\ Cardinality(Removed) \in Nat
      BY <2>1, WalkSets, FS_CardinalityType
    <2>3. Cardinality(Skipped) <= Cardinality(Removed)
      BY Zenon DEF WInv
    <2> QED BY <1>6, <2>1, <2>2, <2>3
  <1>8. \A r \in call.seen : Selects(x.f, What(r))'
    BY <1>2, <1>3, <1>4, Zenon DEF WInv
  <1>9. call'.x = x
    BY <1>1, <1>2 DEF Others
  <1>10. \A r \in call'.seen : Selects(call.x.f, What(r))'
    BY <1>4, <1>8, <1>9, Zenon DEF Selects
  <1> QED BY <1>4, <1>7, <1>10, Zenon DEF WInv

(* A deletion makes the walk miss one trace more at most: the one that      *)
(* takes the last rank of those walked.                                    *)
LEMMA WInvDelete ==
  ASSUME TInv, WInv, call.op = "list", NEW d \in Rows, Delete(d)
  PROVE  WInv'
  <1>1. /\ Others /\ promoted' = promoted /\ gone' = gone \cup {d}
        /\ d \in 1..Len(promoted) /\ d \notin gone
    BY DeleteStep
  <1>2. PICK x \in Lists : x = call.x
    BY WalkSets
  <1>3. /\ Unseen \subseteq Selected(x.f) /\ Walked \in Nat
        /\ IsFiniteSet(Skipped) /\ Cardinality(Skipped) \in Nat
        /\ IsFiniteSet(Removed) /\ Cardinality(Removed) \in Nat
        /\ call.seen \subseteq Touched /\ Touched \subseteq 1..Len(promoted)
        /\ d \in Touched
    BY <1>2, WalkSets DEF TInv, ListOK
  <1>4. /\ \A r \in 1..Len(promoted) : Selects(x.f, What(r))' <=> Selects(x.f, What(r))
        /\ Unseen' \subseteq Unseen /\ call'.seen = call.seen
        /\ call'.op = "list" /\ call'.stage = call.stage /\ call'.page = call.page
        /\ \A r : r \in Skipped <=>
             r \in Unseen /\ (call.stage = "done" \/ Cardinality(Before(x, r)) < Walked)
        /\ \A r : r \in Skipped' <=>
             r \in Unseen' /\ (call.stage = "done" \/ Cardinality(Before(x, r)') < Walked)
    BY <1>1, <1>2, WalkOthers
  <1>5. \A r \in Unseen :
          /\ Cardinality(Before(x, r)) \in Nat /\ Cardinality(Before(x, r)') \in Nat
          /\ Cardinality(Before(x, r)) <= Cardinality(Before(x, r)') + 1
          /\ d \notin Selected(x.f) => Cardinality(Before(x, r)') = Cardinality(Before(x, r))
    BY <1>3, RankAfterDelete
  <1>6. \A r : r \in Removed' <=>
          r \in Removed \/ (r = d /\ d \in Selected(x.f))
    <2>1. \A r : r \in Removed <=> r \in Touched /\ r \in gone /\ Selects(x.f, What(r))
      BY <1>2, Zenon DEF Removed
    <2>2. Touched' = Touched /\ \A r : What(r)' = What(r)
      BY <1>1 DEF Touched, What, Others
    <2>3. \A r : r \in Removed' <=> r \in Touched /\ r \in gone' /\ Selects(x.f, What(r))
      BY <1>1, <1>2, <2>2, Zenon DEF Removed, Others
    <2>4. \A r : r \in gone' <=> r \in gone \/ r = d
      BY <1>1
    <2>5. d \in Selected(x.f) <=> Selects(x.f, What(d))
      BY DEF Selected, What
    <2> QED BY <1>3, <2>1, <2>3, <2>4, <2>5, Zenon
  <1>7. d \notin Removed
    BY <1>1 DEF Removed
  <1>8. Cardinality(Skipped') <= Cardinality(Removed')
    <2>1. Cardinality(Skipped) <= Cardinality(Removed)
      BY Zenon DEF WInv
    <2>2. CASE d \notin Selected(x.f)
      <3>1. Skipped' \subseteq Skipped
        BY <1>4, <1>5, <2>2
      <3>2. Removed' = Removed
        BY <1>6, <2>2
      <3>3. IsFiniteSet(Skipped') /\ Cardinality(Skipped') <= Cardinality(Skipped)
        BY <1>3, <3>1, FS_Subset
      <3>4. Cardinality(Skipped') \in Nat
        BY <3>3, FS_CardinalityType
      <3> QED BY <1>3, <2>1, <3>2, <3>3, <3>4
    <2>3. CASE d \in Selected(x.f)
      <3>1. Removed' = Removed \cup {d}
        BY <1>6, <2>3
      <3>2. Cardinality(Removed \cup {d}) = Cardinality(Removed) + 1
        BY <1>3, <1>7, FS_AddElement
      <3>3. \E z : Skipped' \subseteq Skipped \cup {z}
        <4>1. CASE \E z \in Unseen : Cardinality(Before(x, z)) = Walked
          <5>1. PICK z \in Unseen : Cardinality(Before(x, z)) = Walked
            BY <4>1
          <5>2. ASSUME NEW r \in Skipped' PROVE r \in Skipped \cup {z}
            <6>1. r \in Unseen
              BY <1>4
            <6>2. CASE Cardinality(Before(x, r)) = Walked
              <7>2. r = z
                BY <1>2, <5>1, <6>1, <6>2, UnseenRanks
              <7> QED BY <7>2
            <6>3. CASE Cardinality(Before(x, r)) /= Walked
              BY <1>3, <1>4, <1>5, <6>1, <6>3
            <6> QED BY <6>2, <6>3
          <5> QED BY <5>2
        <4>2. CASE \A z \in Unseen : Cardinality(Before(x, z)) /= Walked
          <5>1. Skipped' \subseteq Skipped
            BY <1>3, <1>4, <1>5, <4>2
          <5> QED BY <5>1
        <4> QED BY <4>1, <4>2
      <3>4. PICK z : Skipped' \in SUBSET (Skipped \cup {z})
        BY <3>3
      <3>5. /\ IsFiniteSet(Skipped \cup {z})
            /\ Cardinality(Skipped \cup {z}) \in {Cardinality(Skipped), Cardinality(Skipped) + 1}
        BY <1>3, FS_AddElement
      <3>6. IsFiniteSet(Skipped') /\ Cardinality(Skipped') <= Cardinality(Skipped \cup {z})
        BY <3>4, <3>5, FS_Subset
      <3>7. Cardinality(Skipped') \in Nat
        BY <3>6, FS_CardinalityType
      <3> QED BY <1>3, <2>1, <3>1, <3>2, <3>5, <3>6, <3>7
    <2> QED BY <2>2, <2>3
  <1>9. \A r \in call.seen : Selects(x.f, What(r))'
    BY <1>2, <1>3, <1>4, Zenon DEF WInv
  <1>10. call'.x = x
    BY <1>1, <1>2 DEF Others
  <1>11. \A r \in call'.seen : Selects(call.x.f, What(r))'
    BY <1>4, <1>9, <1>10, Zenon DEF Selects
  <1> QED BY <1>4, <1>8, <1>11, Zenon DEF WInv

(* What a statement of the walk changes: only what has been read.           *)
LEMMA WalkReads ==
  ASSUME TInv, call.op = "list", UNCHANGED <<promoted, gone>>,
         call'.start = call.start, call'.upTo = call.upTo, call'.x = call.x, NEW x, x = call.x
  PROVE  /\ Removed' = Removed
         /\ \A r : Selects(call.x.f, What(r))' <=> Selects(x.f, What(r))
         /\ \A r : r \in Unseen <=>
              r \in Stayed /\ Selects(x.f, What(r)) /\ Alone(r) /\ r \notin call.seen
         /\ \A r : r \in Unseen' <=>
              r \in Stayed /\ Selects(x.f, What(r)) /\ Alone(r) /\ r \notin call'.seen
         /\ \A r : r \in Skipped <=>
              r \in Unseen /\ (call.stage = "done" \/ Cardinality(Before(x, r)) < Walked)
         /\ \A r : r \in Skipped' <=>
              r \in Unseen' /\ (call'.stage = "done" \/ Cardinality(Before(x, r)) < Walked')
  <1>1. Stayed' = Stayed /\ Touched' = Touched /\ call'.x = x /\ \A r : What(r)' = What(r)
    BY CallGoesOn DEF What
  <1>2. \A r : Selects(call.x.f, What(r))' <=> Selects(x.f, What(r))
    BY <1>1, Zenon DEF Selects
  <1>3. Removed' = Removed
    <2>1. \A r : r \in Removed <=> r \in Touched /\ r \in gone /\ Selects(x.f, What(r))
      BY Zenon DEF Removed
    <2>2. \A r : r \in Removed' <=> r \in Touched' /\ r \in gone' /\ Selects(call.x.f, What(r))'
      BY Zenon DEF Removed
    <2> QED BY <1>1, <1>2, <2>1, <2>2
  <1>4. \A r : r \in Unseen <=>
          r \in Stayed /\ Selects(x.f, What(r)) /\ Alone(r) /\ r \notin call.seen
    BY Zenon DEF Unseen
  <1>5. \A r : r \in Unseen' <=>
          r \in Stayed /\ Selects(x.f, What(r)) /\ Alone(r) /\ r \notin call'.seen
    <2>1. \A r : r \in Unseen' <=>
            r \in Stayed' /\ Selects(call.x.f, What(r))' /\ Alone(r)' /\ r \notin call'.seen
      BY Zenon DEF Unseen
    <2>2. \A r : SortKey(call.x.sort, r)' = SortKey(x.sort, r)
      BY <1>1 DEF SortKey
    <2>3. \A r : Alone(r)' <=> Alone(r)
      BY <1>1, <1>2, <2>2 DEF Alone
    <2> QED BY <1>1, <1>2, <2>1, <2>3, Zenon
  <1>6. \A r : Before(call.x, r)' = Before(x, r)
    <2>1. Selected(call.x.f)' = Selected(x.f)
      BY <1>1 DEF Selected, Rows
    <2>2. \A r, s : Precedes(call.x.sort, call.x.dir, s, r)' <=> Precedes(x.sort, x.dir, s, r)
      <3>1. \A r : SortKey(call.x.sort, r)' = SortKey(x.sort, r)
        BY <1>1 DEF SortKey
      <3>2. call'.x.dir = x.dir
        BY <1>1
      <3> SUFFICES ASSUME NEW r, NEW s
                   PROVE  Precedes(call.x.sort, call.x.dir, s, r)' <=>
                            Precedes(x.sort, x.dir, s, r)
        OBVIOUS
      <3>3. PICK a, b : a = SortKey(x.sort, r) /\ b = SortKey(x.sort, s)
        OBVIOUS
      <3>4. SortKey(call.x.sort, r)' = a /\ SortKey(call.x.sort, s)' = b
        BY <3>1, <3>3
      <3>5. CASE x.dir = "asc"
        BY <3>2, <3>3, <3>4, <3>5 DEF Precedes
      <3>6. CASE x.dir /= "asc"
        BY <3>2, <3>3, <3>4, <3>6 DEF Precedes
      <3> QED BY <3>5, <3>6
    <2>3. \A r, s : s \in Before(call.x, r)' <=> s \in Before(x, r)
      BY <2>1, <2>2, Zenon DEF Before
    <2> QED BY <2>3 DEF Before
  <1>7. \A r : r \in Skipped <=>
          r \in Unseen /\ (call.stage = "done" \/ Cardinality(Before(x, r)) < Walked)
    BY Zenon DEF Skipped
  <1>8. \A r : r \in Skipped' <=>
          r \in Unseen' /\ (call'.stage = "done" \/ Cardinality(Before(x, r)) < Walked')
    BY <1>6, Zenon DEF Skipped
  <1> QED BY <1>2, <1>3, <1>4, <1>5, <1>7, <1>8

LEMMA FewerSkipped ==
  ASSUME TInv, WInv, call.op = "list", Skipped' \subseteq Skipped, Removed' = Removed
  PROVE  Cardinality(Skipped') <= Cardinality(Removed')
  <1>1. IsFiniteSet(Skipped)
    BY WalkSets
  <1>2. IsFiniteSet(Skipped') /\ Cardinality(Skipped') <= Cardinality(Skipped)
    BY <1>1, FS_Subset
  <1>3. Cardinality(Skipped') \in Nat /\ Cardinality(Skipped) \in Nat /\ Cardinality(Removed) \in Nat
    BY <1>2, WalkSets, FS_CardinalityType
  <1>4. Cardinality(Skipped) <= Cardinality(Removed)
    BY Zenon DEF WInv
  <1> QED BY <1>2, <1>3, <1>4

(* The next page begins where the last one ended.                          *)
LEMMA WInvCount ==
  ASSUME TInv, WInv, CountTraces
  PROVE  WInv'
  <1>1. /\ UNCHANGED <<promoted, gone>>
        /\ call.op = "list" /\ call.stage \in {"count", "turn"} /\ call'.op = "list"
        /\ call'.start = call.start /\ call'.upTo = call.upTo /\ call'.x = call.x
        /\ call'.page = (IF call.stage = "turn" THEN call.page + 1 ELSE call.page)
        /\ call'.stage = "page" /\ call'.seen = call.seen
    BY CountStep
  <1>2. PICK x \in Lists : x = call.x
    BY <1>1, WalkSets
  <1>3. /\ Removed' = Removed
        /\ \A r : Selects(call.x.f, What(r))' <=> Selects(x.f, What(r))
        /\ \A r : r \in Unseen' <=> r \in Unseen
        /\ \A r : r \in Skipped <=>
             r \in Unseen /\ (call.stage = "done" \/ Cardinality(Before(x, r)) < Walked)
        /\ \A r : r \in Skipped' <=>
             r \in Unseen' /\ (call'.stage = "done" \/ Cardinality(Before(x, r)) < Walked')
    <2>1. /\ \A r : r \in Unseen <=>
               r \in Stayed /\ Selects(x.f, What(r)) /\ Alone(r) /\ r \notin call.seen
          /\ \A r : r \in Unseen' <=>
               r \in Stayed /\ Selects(x.f, What(r)) /\ Alone(r) /\ r \notin call'.seen
      BY <1>1, <1>2, WalkReads
    <2>2. \A r : r \in Unseen' <=> r \in Unseen
      BY <1>1, <2>1, Zenon
    <2> QED BY <1>1, <1>2, <2>2, WalkReads
  <1>4. call.page \in Nat /\ Walked \in Nat /\ Unseen \subseteq Selected(x.f)
    BY <1>1, <1>2, WalkSets
  <1>5. Walked' \in Nat /\ Walked' <= Walked
    <2> DEFINE n == PageLength(x.perPage)
    <2>1. Walked' = (Max({call'.page, 1}) - 1) * n
      BY <1>1, <1>2 DEF Walked, Offset
    <2>2. CASE call.stage = "turn"
      <3>1. Walked = Max({call.page, 1}) * n /\ call'.page = call.page + 1
        BY <1>1, <1>2, <2>2 DEF Walked
      <3>2. /\ Max({call.page + 1, 1}) = (IF call.page + 1 < 1 THEN 1 ELSE call.page + 1)
            /\ Max({call.page, 1}) = (IF call.page < 1 THEN 1 ELSE call.page)
        BY <1>4, MaxOfTwo
      <3>3. n \in Nat
        BY PageLengthType
      <3> HIDE DEF n
      <3>4. CASE call.page >= 1
        <4>1. Max({call'.page, 1}) - 1 = Max({call.page, 1})
          BY <1>4, <3>1, <3>2, <3>4
        <4>2. Walked' = Walked
          BY <2>1, <3>1, <4>1
        <4> QED BY <1>4, <4>2
      <3>5. CASE call.page = 0
        <4>1. Max({call'.page, 1}) - 1 = 0
          BY <3>1, <3>2, <3>5
        <4>2. Walked' = 0
          BY <2>1, <3>3, <4>1
        <4> QED BY <1>4, <4>2
      <3> QED BY <1>4, <3>4, <3>5
    <2>3. CASE call.stage = "count"
      <3>1. Walked' = Walked
        BY <1>1, <1>2, <2>1, <2>3 DEF Walked, Offset
      <3> QED BY <1>4, <3>1
    <2> QED BY <1>1, <2>2, <2>3
  <1>6. Skipped' \subseteq Skipped
    <2> SUFFICES ASSUME NEW r \in Skipped' PROVE r \in Skipped
      OBVIOUS
    <2>1. r \in Unseen /\ Cardinality(Before(x, r)) < Walked'
      BY <1>1, <1>3
    <2>2. Cardinality(Before(x, r)) \in Nat
      <3>1. IsFiniteSet(Before(x, r))
        BY <1>4, <2>1, RowsInOrder
      <3> QED BY <3>1, FS_CardinalityType
    <2> QED BY <1>3, <1>4, <1>5, <2>1, <2>2
  <1>7. Cardinality(Skipped') <= Cardinality(Removed')
    BY <1>1, <1>3, <1>6, FewerSkipped
  <1>8. \A r \in call'.seen : Selects(call.x.f, What(r))'
    BY <1>1, <1>2, <1>3, Zenon DEF WInv
  <1> QED BY <1>7, <1>8, Zenon DEF WInv

(* What a page shows are the next ranks; an empty page is past the last.    *)
LEMMA WInvPage ==
  ASSUME TInv, WInv, PageTraces
  PROVE  WInv'
  <1>1. PICK P \in Pages(call.x, call.page) :
        /\ UNCHANGED <<promoted, gone>>
        /\ call.op = "list" /\ call.stage = "page" /\ call'.op = "list"
        /\ call'.start = call.start /\ call'.upTo = call.upTo /\ call'.x = call.x
        /\ call'.page = call.page
        /\ call'.stage = (IF P = {} THEN "done" ELSE "turn")
        /\ call'.seen = call.seen \cup P
        /\ P \subseteq Selected(call.x.f)
    BY PageStep
  <1>2. PICK x \in Lists : x = call.x
    BY <1>1, WalkSets
  <1>3. /\ Removed' = Removed
        /\ \A r : Selects(call.x.f, What(r))' <=> Selects(x.f, What(r))
        /\ \A r : r \in Unseen <=>
             r \in Stayed /\ Selects(x.f, What(r)) /\ Alone(r) /\ r \notin call.seen
        /\ \A r : r \in Unseen' <=>
             r \in Stayed /\ Selects(x.f, What(r)) /\ Alone(r) /\ r \notin call'.seen
        /\ \A r : r \in Skipped <=>
             r \in Unseen /\ (call.stage = "done" \/ Cardinality(Before(x, r)) < Walked)
        /\ \A r : r \in Skipped' <=>
             r \in Unseen' /\ (call'.stage = "done" \/ Cardinality(Before(x, r)) < Walked')
    BY <1>1, <1>2, WalkReads
  <1> DEFINE n == PageLength(x.perPage)
             o == (Max({call.page, 1}) - 1) * n
  <1>4. /\ call.page \in Nat /\ Walked = o /\ o \in Nat /\ n \in Nat /\ n >= 1
        /\ Unseen \subseteq Selected(x.f)
    <2>1. Walked = o
      BY <1>1, <1>2 DEF Walked, Offset
    <2> QED BY <1>1, <1>2, <2>1, WalkSets, PageLengthType
  <1>5. call'.stage = "turn" => Walked' = o + n
    <2>1. ASSUME call'.stage = "turn" PROVE Walked' = Max({call.page, 1}) * n
      BY <1>1, <1>2, <2>1 DEF Walked
    <2> QED BY <1>4, <2>1, OffsetType
  <1> HIDE DEF n
  <1>6. \A r \in Selected(x.f) \ P :
          (\A s \in Selected(x.f) \ {r} : SortKey(x.sort, s) /= SortKey(x.sort, r)) =>
            \/ Cardinality(Before(x, r)) < o
            \/ P /= {} /\ Cardinality(Before(x, r)) >= o + n
    <2>1. P \in Pages(x, call.page) /\ call.page \in Nat
      BY <1>1, <1>2, <1>4
    <2> QED BY <2>1, PageHas, Zenon DEF o, n
  <1> HIDE DEF o
  <1>7. \A r \in Unseen' :
          /\ r \in Unseen /\ r \notin P /\ r \in Selected(x.f)
          /\ \A s \in Selected(x.f) \ {r} : SortKey(x.sort, s) /= SortKey(x.sort, r)
    <2> SUFFICES ASSUME NEW r \in Unseen'
                 PROVE  /\ r \in Unseen /\ r \notin P /\ r \in Selected(x.f)
                        /\ \A s \in Selected(x.f) \ {r} :
                             SortKey(x.sort, s) /= SortKey(x.sort, r)
      OBVIOUS
    <2>1. r \in Unseen /\ r \notin P
      BY <1>1, <1>3
    <2> QED BY <1>1, <1>2, <1>4, <2>1, UnseenStandAlone
  <1>8. \A r \in Unseen' : Cardinality(Before(x, r)) \in Nat
    BY <1>7, RowsInOrder
  <1>10. ASSUME P = {} PROVE Skipped' \subseteq Skipped
    BY <1>1, <1>3, <1>4, <1>6, <1>7, <1>10
  <1>11. ASSUME P /= {} PROVE Skipped' \subseteq Skipped
    <2>1. \A r : r \in Skipped' <=> r \in Unseen' /\ Cardinality(Before(x, r)) < o + n
      BY <1>1, <1>3, <1>5, <1>11
    <2>2. \A r \in Unseen' : Cardinality(Before(x, r)) < o + n => Cardinality(Before(x, r)) < o
      BY <1>4, <1>6, <1>7, <1>8
    <2> QED BY <1>3, <1>4, <1>7, <2>1, <2>2
  <1>12. Cardinality(Skipped') <= Cardinality(Removed')
    BY <1>1, <1>3, <1>10, <1>11, FewerSkipped
  <1>13. \A r \in call'.seen : Selects(call.x.f, What(r))'
    <2>1. \A r \in P : Selects(x.f, What(r))
      BY <1>1, <1>2, Zenon DEF Selected, What
    <2>2. \A r \in call.seen : Selects(x.f, What(r))
      BY <1>1, <1>2, Zenon DEF WInv
    <2> QED BY <1>1, <1>3, <2>1, <2>2
  <1> QED BY <1>12, <1>13, Zenon DEF WInv

LEMMA WInvBegins ==
  ASSUME TInv, NEW x \in Lists, ListTraces(x)
  PROVE  WInv'
  <1>1. /\ UNCHANGED <<promoted, gone>> /\ call'.op = "list"
        /\ call'.start = Rows /\ call'.upTo = Len(promoted) /\ call'.x = x
        /\ call'.page = x.page /\ call'.stage = "count" /\ call'.seen = {}
    BY DEF ListTraces
  <1>2. Touched' = Rows
    BY <1>1, CallBegins
  <1>3. Walked' = 0
    <2>1. PageLength(x.perPage) \in Nat /\ x.page \in {0, 1}
      BY PageLengthType
    <2>2. Max({x.page, 1}) = 1
      BY <2>1, MaxOfTwo
    <2>3. Walked' = (Max({x.page, 1}) - 1) * PageLength(x.perPage)
      BY <1>1 DEF Walked, Offset
    <2> HIDE DEF PageLength
    <2> QED BY <2>1, <2>2, <2>3
  <1>4. Skipped' = {}
    <2>1. TInv'
      BY ListSteps
    <2>2. Unseen' \subseteq Selected(x.f)
      <3>1. Stayed' = Rows /\ \A r : What(r)' = What(r)
        BY <1>1, CallBegins DEF What
      <3> QED BY <1>1, <3>1 DEF Unseen, Selected, What
    <2>3. \A r : Before(call.x, r)' = Before(x, r)
      <3>1. Selected(call.x.f)' = Selected(x.f)
        BY <1>1 DEF Selected, Rows
      <3>2. \A r, s : Precedes(call.x.sort, call.x.dir, s, r)' <=> Precedes(x.sort, x.dir, s, r)
        BY <1>1 DEF Precedes, SortKey
      <3>3. \A r, s : s \in Before(call.x, r)' <=> s \in Before(x, r)
        BY <3>1, <3>2, Zenon DEF Before
      <3> QED BY <3>3 DEF Before
    <2>4. \A r : r \in Skipped' <=> r \in Unseen' /\ Cardinality(Before(x, r)) < 0
      BY <1>1, <1>3, <2>3 DEF Skipped
    <2>5. \A r \in Selected(x.f) : Cardinality(Before(x, r)) \in Nat
      BY RowsInOrder, FS_CardinalityType
    <2> QED BY <2>2, <2>4, <2>5
  <1>5. Removed' = {}
    BY <1>1, <1>2 DEF Removed, Rows
  <1>6. Cardinality(Skipped') <= Cardinality(Removed')
    <2>1. Cardinality({}) = 0
      BY FS_EmptySet
    <2>2. Cardinality(Skipped') = 0 /\ Cardinality(Removed') = 0
      BY <1>4, <1>5, <2>1
    <2> QED BY <2>2
  <1>7. \A r \in call'.seen : Selects(call.x.f, What(r))'
    BY <1>1
  <1> QED BY <1>6, <1>7, Zenon DEF WInv

LEMMA WInvKept == TInv /\ WInv /\ [Next]_vars => WInv'
  <1> SUFFICES ASSUME TInv, WInv, [Next]_vars PROVE WInv'
    OBVIOUS
  <1>1. ASSUME call'.op /= "list" PROVE WInv'
    BY <1>1, Zenon DEF WInv
  <1>2. CASE UNCHANGED vars
    <2>1. UNCHANGED <<promoted, gone, call>>
      BY <1>2 DEF vars
    <2> SUFFICES ASSUME call.op = "list" PROVE WInv'
      BY <1>1, <2>1
    <2>2. PICK x \in Lists : x = call.x
      BY WalkSets
    <2>3. /\ Removed' = Removed
          /\ \A r : Selects(call.x.f, What(r))' <=> Selects(x.f, What(r))
          /\ \A r : r \in Unseen <=>
               r \in Stayed /\ Selects(x.f, What(r)) /\ Alone(r) /\ r \notin call.seen
          /\ \A r : r \in Unseen' <=>
               r \in Stayed /\ Selects(x.f, What(r)) /\ Alone(r) /\ r \notin call'.seen
          /\ \A r : r \in Skipped <=>
               r \in Unseen /\ (call.stage = "done" \/ Cardinality(Before(x, r)) < Walked)
          /\ \A r : r \in Skipped' <=>
               r \in Unseen' /\ (call'.stage = "done" \/ Cardinality(Before(x, r)) < Walked')
      BY <2>1, <2>2, WalkReads
    <2>4. Walked' = Walked
      BY <2>1, Zenon DEF Walked, Offset
    <2>5. Skipped' \subseteq Skipped
      BY <2>1, <2>3, <2>4
    <2>6. Cardinality(Skipped') <= Cardinality(Removed')
      BY <2>3, <2>5, FewerSkipped
    <2>7. \A r \in call'.seen : Selects(call.x.f, What(r))'
      BY <2>1, <2>2, <2>3, Zenon DEF WInv
    <2> QED BY <2>6, <2>7, Zenon DEF WInv
  <1>3. CASE \/ \E w \in Kinds, t \in Times : Promote(w, t)
             \/ \E r \in Rows : Delete(r)
    <2>1. call' = call
      BY <1>3 DEF Promote, Delete
    <2> QED BY <1>1, <1>3, <2>1, WInvPromote, WInvDelete
  <1>4. CASE (\E f \in Filters : AvailableFilters(f)) \/ AskFacet
    <2>1. call'.op = "options"
      BY <1>4, OptionsBegin, AskStep
    <2> QED BY <1>1, <2>1
  <1>5. CASE \/ \E x \in Aggregates : Aggregate(x)
             \/ call.op = "aggregate" /\ \E g \in call.groups : TopErrors(g)
    BY <1>1, <1>5, AggregateOps
  <1>6. CASE Return
    BY <1>1, <1>6, ReturnStep
  <1> QED BY <1>2, <1>3, <1>4, <1>5, <1>6, WInvBegins, WInvCount, WInvPage, Steps

(* A reader who turns the pages until one is empty has been shown nothing   *)
(* that the filter does not select, and of the traces that were there all   *)
(* the time and that no other equals in the column of the ORDER BY has      *)
(* missed no more than were deleted meanwhile, in whatever order each       *)
(* statement puts those that are equal.                                    *)
THEOREM WalksMissNothing == Spec => []WalkMissesNothing
  <1>1. ASSUME TInv, WInv PROVE WalkMissesNothing
    <2> SUFFICES ASSUME call.op = "list"
                 PROVE  /\ \A r \in call.seen : Selects(call.x.f, What(r))
                        /\ call.stage = "done" => Cardinality(Unseen) <= Cardinality(Removed)
      BY Zenon DEF WalkMissesNothing, Unseen, Removed
    <2>1. call.stage = "done" => Skipped = Unseen
      BY DEF Skipped
    <2> QED BY <1>1, <2>1, Zenon DEF WInv
  <1>2. Init => WInv
    <2> SUFFICES ASSUME Init PROVE call.op /= "list"
      BY Zenon DEF WInv
    <2> QED BY DEF Init, NoCall
  <1> QED BY <1>1, <1>2, TAlways, WInvKept, PTL DEF Spec
==============================================================================
