------------------------------- MODULE Queries -------------------------------
(***************************************************************************)
(* The readers of the error_traces table (sqlite/store.go): ListTraces,     *)
(* AvailableFilters and Aggregate.  Each is several statements without a    *)
(* transaction, and between any two of them traces are promoted, with       *)
(* whatever timestamp, and deleted.  Readers write nothing, so there is     *)
(* one, running one call at a time.                                         *)
(*                                                                         *)
(* A row's text columns are what the reader can tell apart: the search      *)
(* terms found in them, status code, method, tags, and so on.               *)
(***************************************************************************)
EXTENDS Integers, Sequences, FiniteSets, Functions, FiniteSetsExt

CONSTANTS
  Kinds,       \* what a trace can say
  Times,       \* the values of created_at
  Lists,       \* what ListTraces is asked for: filter, order, length of a page
  Filters,     \* what AvailableFilters is asked for
  Aggregates,  \* what Aggregate is asked for: column, window, least count
  PlainKeys,   \* the tag keys that json_extract takes for one key: no dots
  Top,         \* how many error chains of a group are asked for
  MaxRows,     \* bound: traces promoted
  MaxDeletes   \* bound: traces deleted

None == -1     \* no window: every row is recent enough

ASSUME TimesAssumption == Times \subseteq Nat
ASSUME KindsAssumption ==
  \A w \in Kinds :
    /\ DOMAIN w = {"text", "status", "method", "remote_ip", "route", "user_id", "error_chain", "tags"}
    /\ w.status \in Int
ASSUME CallsAssumption ==
  /\ \A f \in Filters : DOMAIN f = {"q", "status", "method", "tags"}
  /\ Lists \subseteq [f : {x.f : x \in Lists}, sort : {"created_at", "status"},
                      dir : {"asc", "desc"}, perPage : Int, page : {0, 1}]
  /\ Aggregates \subseteq [col : {"route", "status", "method", "error_chain"},
                           since : Times \cup {None}, least : Int]
ASSUME BoundsAssumption == {Top, MaxRows, MaxDeletes} \subseteq Nat

VARIABLES
  promoted,  \* the rows there ever were, in the order of their keys
  gone,      \* the keys of those deleted
  call       \* the call that is running or ran last

vars == <<promoted, gone, call>>

Rows    == DOMAIN promoted \ gone
Changes == Len(promoted) + Cardinality(gone)

(* Every call: op, what it is, and history: the rows there were when it    *)
(* began, and the largest key then.                                        *)
NoCall == [op |-> "none"]

Init == promoted = <<>> /\ gone = {} /\ call = NoCall

Promote(w, t) ==
  /\ Len(promoted) < MaxRows
  /\ promoted' = Append(promoted, [what |-> w, created |-> t])
  /\ UNCHANGED <<gone, call>>

Delete(r) ==
  /\ Cardinality(gone) < MaxDeletes
  /\ gone' = gone \cup {r}
  /\ UNCHANGED <<promoted, call>>

-----------------------------------------------------------------------------
(* The WHERE clauses.                                                      *)

AnyStatus == [range |-> "", code |-> 0]

(* A code that is not positive makes no clause, as no code does.           *)
StatusSelects(s, code) ==
  \/ s.range = "" /\ (s.code <= 0 \/ s.code = code)
  \/ s.range = "4xx" /\ code \in 400..499
  \/ s.range = "5xx" /\ code >= 500

(* buildWhere.  A dot in a tag's key is taken for a path into the value.   *)
Selects(f, w) ==
  /\ f.q \subseteq w.text
  /\ StatusSelects(f.status, w.status)
  /\ f.method \in {"", w.method}
  /\ \A t \in f.tags : t \in w.tags /\ t.key \in PlainKeys

(* Mutant of Excluding: a filter applies to its own options too.           *)
ExcludingNothing(f, facet) == f

(* buildWhereExcluding.                                                    *)
Excluding(f, facet) ==
  [f EXCEPT !.status = IF facet = "status" THEN AnyStatus ELSE @,
            !.method = IF facet = "method" THEN "" ELSE @,
            !.tags   = IF facet = "tags" THEN {} ELSE @]

Selected(f) == {r \in Rows : Selects(f, promoted[r].what)}

-----------------------------------------------------------------------------
(* ListTraces, called by a reader who turns the pages, from page 0 or 1,   *)
(* until one is empty.                                                     *)

(* Mutant of PageLength: no default.                                       *)
PageLengthAsGiven(n) == n

PageLength(n) == IF n < 1 THEN 25 ELSE n

(* ORDER BY names one column, and nothing orders the rows that are equal   *)
(* there.  Route and method are sorted as the status code is.              *)
SortKey(sort, r) == IF sort = "status" THEN promoted[r].what.status ELSE promoted[r].created
Precedes(sort, dir, r, s) ==
  IF dir = "asc" THEN SortKey(sort, r) < SortKey(sort, s) ELSE SortKey(sort, s) < SortKey(sort, r)

(* Any k of the rows that can come first.                                  *)
Firsts(x, rows, k) ==
  {Q \in SUBSET rows :
     /\ Cardinality(Q) = Min({k, Cardinality(rows)})
     /\ \A q \in Q, s \in rows \ Q : ~Precedes(x.sort, x.dir, s, q)}

(* LIMIT ... OFFSET: what comes first when what comes first is left out.   *)
(* Two statements may order equal rows differently.                        *)
Pages(x, page) ==
  LET all    == Selected(x.f)
      offset == (Max({page, 1}) - 1) * PageLength(x.perPage)
  IN  UNION {Firsts(x, all \ Q, PageLength(x.perPage)) : Q \in Firsts(x, all, offset)}

ListTraces(x) ==
  /\ call.op = "none"
  /\ call' = [op |-> "list", start |-> Rows, upTo |-> Len(promoted), x |-> x,
              page |-> x.page, stage |-> "count", total |-> 0, as |-> 0, got |-> 0, seen |-> {}]
  /\ UNCHANGED <<promoted, gone>>

(* Mutant of CountTraces: the count has no WHERE.                          *)
CountAll ==
  /\ call.op = "list" /\ call.stage \in {"count", "turn"}
  /\ call' = [call EXCEPT !.page = IF call.stage = "turn" THEN @ + 1 ELSE @,
                          !.stage = "page", !.total = Cardinality(Rows),
                          !.as = Changes, !.got = 0]
  /\ UNCHANGED <<promoted, gone>>

(* The history is how much had changed when the count was made, ...        *)
CountTraces ==
  /\ call.op = "list" /\ call.stage \in {"count", "turn"}
  /\ call' = [call EXCEPT !.page = IF call.stage = "turn" THEN @ + 1 ELSE @,
                          !.stage = "page", !.total = Cardinality(Selected(call.x.f)),
                          !.as = Changes, !.got = 0]
  /\ UNCHANGED <<promoted, gone>>

(* ... and then what changed until the page was read.                      *)
PageTraces ==
  /\ call.op = "list" /\ call.stage = "page"
  /\ \E page \in Pages(call.x, call.page) :
       call' = [call EXCEPT !.stage = IF page = {} THEN "done" ELSE "turn",
                            !.seen = @ \cup page, !.got = Cardinality(page),
                            !.as = Changes - @]
  /\ UNCHANGED <<promoted, gone>>

-----------------------------------------------------------------------------
(* AvailableFilters: a statement per facet.                                *)

Facets == <<"status", "method", "remote_ip", "route", "user_id", "tags">>

(* Mutant of Values: empty columns are offered too.                        *)
ValuesWithEmpty(w, facet) == IF facet = "tags" THEN w.tags ELSE {w[facet]}

Values(w, facet) ==
  IF facet = "tags" THEN w.tags
  ELSE IF facet \in {"status", "method"} THEN {w[facet]}
  ELSE {w[facet]} \ {""}

AvailableFilters(f) ==
  /\ call.op = "none"
  /\ call' = [op |-> "options", start |-> Rows, upTo |-> Len(promoted), f |-> f,
              options |-> <<>>, cut |-> FALSE]
  /\ UNCHANGED <<promoted, gone>>

(* The rows may end early, with an error that nobody looks at (rows.Err):  *)
(* then some of the values are missing; once in a call.                    *)
AskFacet ==
  /\ call.op = "options" /\ Len(call.options) < Len(Facets)
  /\ LET facet  == Facets[Len(call.options) + 1]
         values == UNION {Values(promoted[r].what, facet) :
                            r \in Selected(Excluding(call.f, facet))}
     IN  \E offered \in IF call.cut THEN {values} ELSE SUBSET values :
           call' = [call EXCEPT !.options = Append(@, offered),
                                !.cut = @ \/ offered /= values]
  /\ UNCHANGED <<promoted, gone>>

-----------------------------------------------------------------------------
(* Aggregate: the groups in one statement, and their chains in one each.   *)

Recent(since) == {r \in Rows : since = None \/ promoted[r].created >= since}

Group(col, key, rows) == {r \in rows : promoted[r].what[col] = key}

(* Any of the largest sets of chains, at most Top, of which none is rarer  *)
(* than one left out.  The empty chain takes a place and is dropped then.  *)
MostCommon(rows) ==
  LET chains == {promoted[r].what.error_chain : r \in rows}
      n      == [x \in chains |-> Cardinality(Group("error_chain", x, rows))]
  IN  {s \in SUBSET chains :
         /\ Cardinality(s) = Min({Top, Cardinality(chains)})
         /\ \A x \in s, y \in chains \ s : n[x] >= n[y]}

Least(x) == Max({x.least, 1})

Aggregate(x) ==
  /\ call.op = "none"
  /\ LET rows  == Recent(x.since)
         keys  == {promoted[r].what[x.col] : r \in rows}
     IN  call' = [op |-> "aggregate", start |-> Rows, upTo |-> Len(promoted), x |-> x,
                  results |-> {},
                  groups |-> {g \in [key : keys, count : Least(x)..Cardinality(rows)] :
                                g.count = Cardinality(Group(x.col, g.key, rows))}]
  /\ UNCHANGED <<promoted, gone>>

(* Mutant of TopErrors: the window is forgotten.                           *)
TopErrorsOfAll(g) ==
  /\ \E s \in MostCommon(Group(call.x.col, g.key, Rows)) :
       call' = [call EXCEPT !.groups = @ \ {g},
                            !.results = @ \cup {[key |-> g.key, count |-> g.count,
                                                 top |-> s \ {""}]}]
  /\ UNCHANGED <<promoted, gone>>

TopErrors(g) ==
  /\ \E s \in MostCommon(Group(call.x.col, g.key, Recent(call.x.since))) :
       call' = [call EXCEPT !.groups = @ \ {g},
                            !.results = @ \cup {[key |-> g.key, count |-> g.count,
                                                 top |-> s \ {""}]}]
  /\ UNCHANGED <<promoted, gone>>

-----------------------------------------------------------------------------
(* The call returns what it has, or a statement fails and it is over.      *)
Return ==
  /\ call.op /= "none"
  /\ call' = NoCall
  /\ UNCHANGED <<promoted, gone>>

Reader ==
  \/ \E x \in Lists : ListTraces(x)
  \/ CountTraces \/ PageTraces
  \/ \E f \in Filters : AvailableFilters(f)
  \/ AskFacet
  \/ \E x \in Aggregates : Aggregate(x)
  \/ call.op = "aggregate" /\ \E g \in call.groups :
       (\A h \in call.groups : h.count <= g.count) /\ TopErrors(g)
  \/ Return

Next ==
  \/ \E w \in Kinds, t \in Times : Promote(w, t)
  \/ \E r \in Rows : Delete(r)
  \/ Reader

Spec == Init /\ [][Next]_vars

-----------------------------------------------------------------------------
(* Rows there were all the time since the call began, and rows there were  *)
(* at some time since.                                                     *)
Stayed  == call.start \cap Rows
Touched == call.start \cup ((call.upTo + 1)..Len(promoted))

What(r) == promoted[r].what

TypeOK ==
  /\ promoted \in Seq([what : Kinds, created : Times])
  /\ gone \subseteq DOMAIN promoted
  /\ call.op \in {"none", "list", "options", "aggregate"}
  /\ call.op = "list" =>
       call.x \in Lists /\ call.seen \subseteq Touched /\ call.total \in 0..MaxRows
  /\ call.op = "options" =>
       \A i \in DOMAIN call.options : i \in 3..5 => "" \notin call.options[i]
  /\ call.op = "aggregate" =>
       \A g \in call.results : g.count \in 1..MaxRows /\ Cardinality(g.top) <= Top

(* No other trace that there was, and that the filter selects, is equal to *)
(* r in the column of the ORDER BY.                                        *)
Alone(r) ==
  \A s \in Touched \ {r} :
    Selects(call.x.f, What(s)) => SortKey(call.x.sort, s) /= SortKey(call.x.sort, r)

(* Of the traces that ORDER BY gives a place of their own, turning the     *)
(* pages to the end misses no more than were deleted meanwhile: promotions, *)
(* in whatever order of time, move traces to later pages only, and each     *)
(* deletion of a trace that the filter selects moves one to a page that was *)
(* read, however the rows before it are tied.  Tied rows have no such       *)
(* promise: they may be missed even if nothing is deleted.                 *)
(* And the pages show nothing that the filter does not select.             *)
WalkMissesNothing ==
  call.op = "list" =>
    /\ \A r \in call.seen : Selects(call.x.f, What(r))
    /\ call.stage = "done" =>
         Cardinality({r \in Stayed : Selects(call.x.f, What(r)) /\ Alone(r)} \ call.seen)
           <= Cardinality({r \in Touched \cap gone : Selects(call.x.f, What(r))})

(* The total that comes with a page is that of the same traces: the page   *)
(* is as long as the total says, but for what was promoted and deleted     *)
(* between the two statements.                                             *)
TotalFitsPage ==
  call.op = "list" /\ call.stage \in {"turn", "done"} =>
    LET n    == PageLength(call.x.perPage)
        left == Max({0, call.total - (Max({call.page, 1}) - 1) * n})
    IN  Min({n, left}) - call.got \in -call.as..call.as

(* The options and the filters agree although they are made by different   *)
(* statements: an option that is offered, chosen in place of the one there *)
(* was, selects a trace that was there during the call, and selects only   *)
(* traces that have it; and, if no result was cut short, no option is left *)
(* out that would select a trace that was there all the time.  The first   *)
(* does not hold for what makes no clause (codes below 1 and the empty      *)
(* method, which operations have) and for keys of tags with a dot.         *)
Choose(f, facet, v) ==
  CASE facet = "status" -> [f EXCEPT !.status = [range |-> "", code |-> v]]
    [] facet = "method" -> [f EXCEPT !.method = v]
    [] facet = "tags"   -> [f EXCEPT !.tags = {v}]
    [] OTHER            -> f

Filterable(facet, v) ==
  CASE facet = "status" -> v > 0
    [] facet = "method" -> v /= ""
    [] facet = "tags"   -> v.key \in PlainKeys
    [] OTHER            -> TRUE

OfferedOptionsSelect ==
  call.op = "options" =>
    \A i \in DOMAIN call.options :
      LET facet == Facets[i]
      IN  /\ \A v \in call.options[i] : Filterable(facet, v) =>
               LET f == Choose(call.f, facet, v)
               IN  /\ \E r \in Touched : Selects(f, What(r)) /\ v \in Values(What(r), facet)
                   /\ facet \in {"status", "method", "tags"} =>
                        \A r \in Touched : Selects(f, What(r)) => v \in Values(What(r), facet)
          /\ call.cut \/ \A r \in Stayed : \A v \in Values(What(r), facet) :
               Selects(Choose(call.f, facet, v), What(r)) => v \in call.options[i]

(* Groups and their chains are true although they are made by different    *)
(* statements: a group has as many traces as it says, but for those that   *)
(* came or went; none that is large enough is left out; its chains are     *)
(* those of traces of the group in the window; and one is only left out    *)
(* if others took all the places.                                          *)
AggregateIsTrue ==
  call.op = "aggregate" =>
    LET In(rows, key) == {r \in Group(call.x.col, key, rows) :
                            call.x.since = None \/ promoted[r].created >= call.x.since}
    IN  /\ \A g \in call.results :
             /\ g.count \in Cardinality(In(Stayed, g.key))..Cardinality(In(Touched, g.key))
             /\ g.count >= Least(call.x)
             /\ \A x \in g.top : \E r \in In(Touched, g.key) : What(r).error_chain = x
             /\ \A r \in In(Stayed, g.key) :
                  Cardinality(g.top) < Top - 1 => What(r).error_chain \in g.top \cup {""}
        /\ call.groups = {} => \A r \in Stayed :
             Cardinality(In(Stayed, What(r)[call.x.col])) >= Least(call.x) =>
               \E g \in call.results : g.key = What(r)[call.x.col]
==============================================================================
