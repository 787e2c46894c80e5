----------------------------- MODULE Pipelines -----------------------------
(***************************************************************************)
(* The aggregation pipelines of core/shared/base.service.ts.               *)
(*                                                                         *)
(* A document maps each of its fields to the set of the field's values: a  *)
(* scalar is a singleton, an array its elements, and a field the document  *)
(* lacks is not in its domain.  A pipeline is a sequence of stages, run    *)
(* over the documents of a collection in their natural order.              *)
(***************************************************************************)
EXTENDS Integers, SequencesExt

Values(doc, field) == IF field \in DOMAIN doc THEN doc[field] ELSE {}

\* 'outer.inner', where outer holds the documents of a $lookup or an array.
ValuesAt(doc, path) ==
  IF Len(path) = 1 THEN Values(doc, path[1])
  ELSE UNION {Values(inner, path[2]) : inner \in Values(doc, path[1])}

-----------------------------------------------------------------------------
(* Stages *)

Match(field, value) == <<[op |-> "match", path |-> <<field>>, any |-> {value}]>>
MatchAt(path, value) == <<[op |-> "match", path |-> path, any |-> {value}]>>
Except(field, value) == <<[op |-> "except", path |-> <<field>>, any |-> {value}]>>
Present(field) == <<[op |-> "present", field |-> field]>>
Unset(fields) == <<[op |-> "unset", fields |-> fields]>>
Lookup(from, local, foreign, as) ==
  <<[op |-> "lookup", from |-> from, local |-> local, foreign |-> foreign, as |-> as]>>
Unwind(field, keepEmpty) == <<[op |-> "unwind", field |-> field, keepEmpty |-> keepEmpty]>>
Group(path) == <<[op |-> "group", path |-> path]>>

\* {$match: {entityId}} and the like, left out where the caller passes none.
Scope(field, value) == IF value = "none" THEN <<>> ELSE Match(field, value)

\* sort: only on 'asc' and 'desc'.
Sort(field, dir) == <<[op |-> "sort", field |-> field, dir |-> dir]>>

\* filter: every non-empty {field: value}; an array of values matches any.
Filter(filterBy) ==
  LET given == SelectSeq(filterBy, LAMBDA f : f.any # {})
  IN  [k \in DOMAIN given |-> [op |-> "match", path |-> <<given[k].field>>, any |-> given[k].any]]

\* search: a $regex over some fields, which an id never matches.
Search(paths, term) == <<[op |-> "search", paths |-> paths, term |-> term]>>

\* project: arrayToProjection keeps the attributes and _id.
Project(attributes) == <<[op |-> "project", fields |-> attributes \union {"_id"}]>>

\* createdAt as 'YYYY-MM-DD', compared with both ends of the range.
DateRange(from, to) == <<[op |-> "dates", from |-> from, to |-> to]>>
Dated(o) == IF o.dates = <<>> THEN <<>> ELSE DateRange(o.dates[1], o.dates[2])

\* Mutation: a search handler that selects the fields before it filters on them.
SearchStagesProjectFirst(sort, o, paths) ==
  (IF sort # "" /\ o.dir # "" THEN Sort(sort, o.dir) ELSE <<>>)
    \o (IF o.attributes = {} THEN <<>> ELSE Project(o.attributes))
    \o Filter(o.filterBy)
    \o (IF o.searchTerm = "" THEN <<>> ELSE Search(paths, o.searchTerm))

\* The first stages of every search handler, in the order all of them have.
SearchStages(sort, o, paths) ==
  (IF sort # "" /\ o.dir # "" THEN Sort(sort, o.dir) ELSE <<>>)
    \o Filter(o.filterBy)
    \o (IF o.searchTerm = "" THEN <<>> ELSE Search(paths, o.searchTerm))
    \o (IF o.attributes = {} THEN <<>> ELSE Project(o.attributes))

-----------------------------------------------------------------------------
(* What a stage does *)

Selecting == {"match", "except", "present", "search", "dates"}

Selects(stage, doc) ==
  CASE stage.op = "match" -> ValuesAt(doc, stage.path) \intersect stage.any # {}
    [] stage.op = "except" -> ValuesAt(doc, stage.path) \intersect stage.any = {}
    [] stage.op = "present" -> Values(doc, stage.field) # {}
    [] stage.op = "search" -> \E p \in stage.paths : stage.term \in ValuesAt(doc, p)
    [] stage.op = "dates" -> \E d \in Values(doc, "createdAt") : stage.from <= d /\ d <= stage.to

Matching(rows, stage) == SelectSeq(rows, LAMBDA row : Selects(stage, row))

\* A missing field sorts as null, before every value.  Documents with equal
\* keys come in an order of the server's choice: here the natural one or its
\* reverse.
SortKey(row, field) == IF Values(row, field) = {} THEN -1 ELSE Max(Values(row, field))
Sorting(rows, stage, tie) ==
  LET up(m, n) == SortKey(rows[m], stage.field) < SortKey(rows[n], stage.field)
      before(m, n) ==
        \/ IF stage.dir = "asc" THEN up(m, n) ELSE up(n, m)
        \/ ~up(m, n) /\ ~up(n, m) /\ IF tie = "natural" THEN m < n ELSE n < m
      order == SetToSortSeq(DOMAIN rows, before)
  IN  [k \in DOMAIN rows |-> rows[order[k]]]

Without(row, fields) == [f \in DOMAIN row \ fields |-> row[f]]
Keeping(row, fields) == [f \in DOMAIN row \intersect fields |-> row[f]]
With(row, field, value) == (field :> value) @@ row

\* Each row with the documents whose foreign field holds one of its values.
Joining(db, rows, stage) ==
  [k \in DOMAIN rows |->
     With(rows[k], stage.as,
          {d \in ToSet(db[stage.from]) :
             Values(d, stage.foreign) \intersect ValuesAt(rows[k], stage.local) # {}})]

\* One row for each element; an empty array gives its row back or drops it.
Unwinding(rows, stage) ==
  FlattenSeq([k \in DOMAIN rows |->
    LET elements == SetToSeq(Values(rows[k], stage.field))
    IN  IF elements = <<>> /\ stage.keepEmpty
        THEN <<Without(rows[k], {stage.field})>>
        ELSE [n \in DOMAIN elements |-> With(rows[k], stage.field, {elements[n]})]])

\* One row for each value of the path, with the rows that have it and their
\* number; the missing value is a group of its own.
Grouping(rows, stage) ==
  LET key(row) == ValuesAt(row, stage.path)
      keys == SetToSeq({key(rows[k]) : k \in DOMAIN rows})
  IN  [n \in DOMAIN keys |->
         ("_id" :> keys[n])
           @@ ("items" :> {rows[k] : k \in {j \in DOMAIN rows : key(rows[j]) = keys[n]}})
           @@ ("count" :> {Cardinality({j \in DOMAIN rows : key(rows[j]) = keys[n]})})]

Through(db, stage, rows, tie) ==
  CASE stage.op \in Selecting -> Matching(rows, stage)
    [] stage.op = "sort" -> Sorting(rows, stage, tie)
    [] stage.op = "project" -> [k \in DOMAIN rows |-> Keeping(rows[k], stage.fields)]
    [] stage.op = "unset" -> [k \in DOMAIN rows |-> Without(rows[k], stage.fields)]
    [] stage.op = "lookup" -> Joining(db, rows, stage)
    [] stage.op = "unwind" -> Unwinding(rows, stage)
    [] stage.op = "group" -> Grouping(rows, stage)

Aggregate(db, from, stages, tie) ==
  FoldLeft(LAMBDA rows, stage : Through(db, stage, rows, tie), db[from], stages)

\* Mutation: a page that starts one late.
PaginateSkips(rows, offset, size) ==
  [count |-> Len(rows), content |-> SubSeq(rows, offset + 2, Min({offset + size, Len(rows)}))]

\* aggregate: $group pushes every row into one array and counts it, and $slice
\* takes the page; no row at all leaves the Pagination as it is constructed.
Paginate(rows, offset, size) ==
  [count |-> Len(rows), content |-> SubSeq(rows, offset + 1, Min({offset + size, Len(rows)}))]

\* MongoDB refuses an empty $or, which a search without fields builds.
Refused(stages) == \E k \in DOMAIN stages : stages[k].op = "search" /\ stages[k].paths = {}

\* aggregateOne: the first row, or nothing.
First(rows) == SubSeq(rows, 1, Min({1, Len(rows)}))
=============================================================================
