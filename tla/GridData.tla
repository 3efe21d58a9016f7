------------------------------ MODULE GridData ------------------------------
(***************************************************************************)
(* The data source of the data grid (fuelux/sample/datasource.js): search, *)
(* filter, sort and cut out a page, after a delay.                         *)
(*                                                                         *)
(* The grid passes the same options object on every call and goes on       *)
(* changing it, so the page is the one of the options when the timer       *)
(* fires.  The grid itself is generated code: its controls are modelled    *)
(* from the calls they make, as external.                                  *)
(***************************************************************************)
EXTENDS Integers, SequencesExt

CONSTANTS
  Items,     \* the data: [pos, words, population, key]
  Searches,  \* search strings
  PageSize,
  MaxAsks,   \* how often the grid asks
  Off        \* an option that is not set

GridAssumption ==
  /\ \A i \in DOMAIN Items : Items[i].pos = i /\ Items[i].words \subseteq Searches
  /\ PageSize \in Nat \ {0} /\ MaxAsks \in Nat

ASSUME GridAssumption

VARIABLES
  dataOptions,  \* the options of the grid
  dataTimers,   \* pending calls of data
  gridShown,    \* the last answer, or Off
  gridAsks

gridVars == << dataOptions, dataTimers, gridShown, gridAsks >>

Matches(item, o) ==
  /\ o.search # Off => o.search \in item.words
  /\ o.filter = "lt5m" => item.population < 5000000
  /\ o.filter = "gte5m" => item.population >= 5000000

\* _.sortBy keeps the order of equals, reverse turns it round.
sorted(data, o) ==
  LET up == SortSeq(data, LAMBDA a, b : a.key < b.key \/ (a.key = b.key /\ a.pos < b.pos))
  IN CASE o.sort = Off -> data
       [] o.sort = "asc" -> up
       [] o.sort = "desc" -> Reverse(up)

\* Array.slice: an index below zero counts from the end.
slice(s, from, to) ==
  LET index(i) == IF i < 0 THEN Max({Len(s) + i, 0}) ELSE Min({i, Len(s)})
  IN SubSeq(s, index(from) + 1, index(to))

pageOfRounded(o) ==
  LET data == sorted(SelectSeq(Items, LAMBDA item : Matches(item, o)), o)
      count == Len(data)
      endIndex == o.pageIndex * PageSize + PageSize
  IN [data |-> slice(data, o.pageIndex * PageSize, endIndex),
      start |-> o.pageIndex * PageSize + 1,
      end |-> IF endIndex > count THEN count ELSE endIndex,
      count |-> count, pages |-> count \div PageSize, page |-> o.pageIndex + 1]

\* What data() answers.
pageOf(o) ==
  LET data == sorted(SelectSeq(Items, LAMBDA item : Matches(item, o)), o)
      count == Len(data)
      endIndex == o.pageIndex * PageSize + PageSize
  IN [data |-> slice(data, o.pageIndex * PageSize, endIndex),
      start |-> o.pageIndex * PageSize + 1,
      end |-> IF endIndex > count THEN count ELSE endIndex,
      count |-> count,
      pages |-> (count + PageSize - 1) \div PageSize,
      page |-> o.pageIndex + 1]

\* renderData of the grid, with options o.
renderData(o) ==
  /\ gridAsks < MaxAsks /\ gridAsks' = gridAsks + 1
  /\ dataOptions' = o
  /\ dataTimers' = dataTimers + 1
  /\ UNCHANGED gridShown

search(s) == renderData([dataOptions EXCEPT !.search = s, !.pageIndex = 0])
filter(f) == renderData([dataOptions EXCEPT !.filter = f, !.pageIndex = 0])
headerClicked ==
  renderData([dataOptions EXCEPT !.sort = IF @ = "asc" THEN "desc" ELSE "asc",
                                 !.pageIndex = 0])

\* The buttons are disabled by the answer shown, not by the options.
next ==
  /\ gridShown # Off /\ gridShown.page # gridShown.pages
  /\ renderData([dataOptions EXCEPT !.pageIndex = @ + 1])
previous ==
  /\ gridShown # Off /\ gridShown.page # 1
  /\ renderData([dataOptions EXCEPT !.pageIndex = @ - 1])

\* A timer of data() fires.
dataFires ==
  /\ dataTimers > 0
  /\ dataTimers' = dataTimers - 1
  /\ gridShown' = pageOf(dataOptions)
  /\ UNCHANGED << dataOptions, gridAsks >>

GridInit ==
  /\ dataOptions = [search |-> Off, filter |-> Off, sort |-> Off, pageIndex |-> 0]
  /\ dataTimers = 0 /\ gridShown = Off /\ gridAsks = 0

GridNext ==
  \/ dataFires \/ headerClicked \/ next \/ previous
  \/ \E s \in Searches : search(s)
  \/ \E f \in {"lt5m", "gte5m", "all"} : filter(f)

-----------------------------------------------------------------------------
\* Every variable has its type, and an ask has been answered when no timer runs.
GridTypeOK ==
  /\ dataTimers \in 0..MaxAsks /\ dataOptions.pageIndex \in Int
  /\ dataTimers = 0 /\ gridAsks > 0 => gridShown # Off

\* The items that answer the options, and how many of them come before one.
Matching(o) == {item \in Range(Items) : Matches(item, o)}
Precedes(a, b, o) ==
  CASE o.sort = Off -> a.pos < b.pos
    [] o.sort = "asc" -> a.key < b.key \/ (a.key = b.key /\ a.pos < b.pos)
    [] o.sort = "desc" -> a.key > b.key \/ (a.key = b.key /\ a.pos > b.pos)
Rank(item, o) == Cardinality({other \in Matching(o) : Precedes(other, item, o)})

\* When no call is pending the grid shows the items whose place among the
\* matching ones lies on the page, in order, and says where they stand and how
\* many pages there are: pages are neither overlapping nor short, whatever
\* options changed while a call was under way (data).
GridShowsAsked ==
  dataTimers = 0 /\ gridShown # Off =>
    LET o == dataOptions
        onPage == {item \in Matching(o) : Rank(item, o) \div PageSize = o.pageIndex}
    IN /\ o.pageIndex >= 0 =>
            /\ Len(gridShown.data) = Cardinality(onPage)
            /\ \A i \in DOMAIN gridShown.data :
                 /\ gridShown.data[i] \in onPage
                 /\ Rank(gridShown.data[i], o) = gridShown.start + i - 2
            /\ onPage # {} => gridShown.end = gridShown.start + Cardinality(onPage) - 1
       /\ gridShown.count = Cardinality(Matching(o))
       /\ {Rank(item, o) \div PageSize : item \in Matching(o)} = 0..(gridShown.pages - 1)
=============================================================================
