-------------------------------- MODULE Aql --------------------------------
(***************************************************************************)
(* The parts of the query compiler (index.js, graphql.peg) that rearrange  *)
(* what a client asked for: normalizeProps merges repeated selections,     *)
(* sqlForProperty moves filters around before it writes SQL.  Each is an   *)
(* operator over the syntax tree, with a reference definition of what the  *)
(* tree means beside it.                                                   *)
(***************************************************************************)
EXTENDS Integers, FiniteSets, Sequences, SequencesExt

-----------------------------------------------------------------------------
(* Selections.  A property is [alias, sig, props]; sig stands for the      *)
(* string that sig builds from name, filters and arguments.                *)

Ok(props) == [ok |-> TRUE, props |-> props]
Clash == [ok |-> FALSE, props |-> <<>>]

RECURSIVE mergeProps(_, _)
RECURSIVE normalizeProps(_)

(* Mutant: a repeated property is dropped with its selections. *)
MergeOneDrop(dest, sp) ==
  IF \E i \in DOMAIN dest : dest[i].alias = sp.alias
  THEN LET i == CHOOSE k \in DOMAIN dest : dest[k].alias = sp.alias
       IN  IF dest[i].sig = sp.sig THEN Ok(dest) ELSE Clash
  ELSE Ok(Append(dest, sp))

(* mergeProps for one property of src: into the one of dest with the same  *)
(* alias (dest holds one at most, having been normalised), or at the end.  *)
MergeOne(dest, sp) ==
  IF \E i \in DOMAIN dest : dest[i].alias = sp.alias
  THEN LET i == CHOOSE k \in DOMAIN dest : dest[k].alias = sp.alias
           merged == mergeProps(dest[i].props, sp.props)
       IN  IF dest[i].sig = sp.sig /\ merged.ok
           THEN Ok([dest EXCEPT ![i].props = merged.props])
           ELSE Clash
  ELSE Ok(Append(dest, sp))

mergeProps(dest, src) ==
  IF src = <<>> THEN Ok(dest)
  ELSE LET one == MergeOne(dest, Head(src))
       IN  IF one.ok THEN mergeProps(one.props, Tail(src)) ELSE Clash

(* normalizeProps: the children first, then into the earlier property of   *)
(* the same alias, which is the same step as in mergeProps.                *)
normalizeProps(props) ==
  IF props = <<>> THEN Ok(<<>>)
  ELSE LET before == normalizeProps(Front(props))
           kids == normalizeProps(Last(props).props)
       IN  IF before.ok /\ kids.ok
           THEN MergeOne(before.props, [Last(props) EXCEPT !.props = kids.props])
           ELSE Clash

(* Reference: a selection is the set of its paths from the root. *)
RECURSIVE Paths(_)
Paths(props) ==
  UNION {LET step == <<props[i].alias, props[i].sig>>
         IN  {<<step>>} \cup {<<step>> \o path : path \in Paths(props[i].props)}
         : i \in DOMAIN props}

Aliases(path) == [i \in DOMAIN path |-> path[i][1]]

(* Two paths clash when they give one chain of aliases two meanings. *)
Ambiguous(props) ==
  \E p, q \in Paths(props) : p # q /\ Aliases(p) = Aliases(q)

RECURSIVE NodeCount(_)
NodeCount(props) ==
  IF props = <<>> THEN 0
  ELSE 1 + NodeCount(Head(props).props) + NodeCount(Tail(props))

(* A normalised selection has one node for each path and nothing else. *)
MergedAs(props, result) ==
  /\ result.ok <=> ~Ambiguous(props)
  /\ result.ok => /\ Paths(result.props) = Paths(props)
                  /\ NodeCount(result.props) = Cardinality(Paths(props))

-----------------------------------------------------------------------------
(* Filters on an array of records.  A row is a number.  A filter is        *)
(* [name, op, n, k]: where tests row op n, and k = 1 when its operands are *)
(* written in descending order, which graphql.peg undoes by swapping them  *)
(* and leaving the operator alone; take has n; slice has n and k.          *)

Test(op, a, b) == CASE op = "=" -> a = b [] op = "<" -> a < b

WhereHolds(f, row) ==
  IF f.k = 1 THEN Test(f.op, f.n, row) ELSE Test(f.op, row, f.n)

Sorted(rows) == SortSeq(rows, <)
Slice(rows, offset, limit) ==
  SubSeq(rows, offset + 1, IF offset + limit < Len(rows) THEN offset + limit ELSE Len(rows))

(* The first loop over the filters: where and sort move into the query     *)
(* itself, a second sort or anything after count is an error, and a second *)
(* where writes the word WHERE twice.                                      *)
Hoist(filters) ==
  FoldLeft(LAMBDA acc, f :
             IF acc.halt THEN [acc EXCEPT !.ok = FALSE]
             ELSE CASE f.name = "where" ->
                         [acc EXCEPT !.where = Append(@, f), !.ok = @ /\ acc.where = <<>>]
                    [] f.name = "sort" ->
                         [acc EXCEPT !.sort = TRUE, !.ok = @ /\ ~acc.sort]
                    [] OTHER ->
                         [acc EXCEPT !.rest = Append(@, f), !.halt = f.name = "count"],
           [ok |-> TRUE, halt |-> FALSE, where |-> <<>>, sort |-> FALSE, rest |-> <<>>],
           filters)

(* The format decides what the last query makes of the rows: an array of   *)
(* all of them, the one row, or its first column alone.  first gives the   *)
(* row of an array, and the column of what is a row already.               *)
FormatOfFirst(format) == IF format = "ARRAY_OF_OBJECTS" THEN "OBJECT" ELSE "SIMPLE"

(* Mutant: the second argument of slice is an end. *)
ApplyRange(acc, f) ==
  CASE f.name = "first"  -> [acc EXCEPT !.rows = Slice(@, 0, 1), !.format = FormatOfFirst(@)]
    [] f.name = "count"  -> [acc EXCEPT !.rows = <<Len(@)>>, !.format = "SIMPLE"]
    [] f.name = "take"   -> [acc EXCEPT !.rows = Slice(@, 0, f.n)]
    [] f.name = "slice"  -> [acc EXCEPT !.rows = Slice(@, f.n, f.k - f.n)]
    [] f.name = "unique" -> [acc EXCEPT !.ok = FALSE]

(* The second loop: one nested query for each filter that is left, and the *)
(* format of the result.  unique is not known here.                        *)
Apply(acc, f) ==
  CASE f.name = "first"  -> [acc EXCEPT !.rows = Slice(@, 0, 1), !.format = FormatOfFirst(@)]
    [] f.name = "count"  -> [acc EXCEPT !.rows = <<Len(@)>>, !.format = "SIMPLE"]
    [] f.name = "take"   -> [acc EXCEPT !.rows = Slice(@, 0, f.n)]
    [] f.name = "slice"  -> [acc EXCEPT !.rows = Slice(@, f.n, f.k)]
    [] f.name = "unique" -> [acc EXCEPT !.ok = FALSE]

sqlForFilters(filters, rows) ==
  LET h == Hoist(filters)
      kept == SelectSeq(rows, LAMBDA r : \A i \in DOMAIN h.where : WhereHolds(h.where[i], r))
  IN  FoldLeft(Apply,
               [ok |-> h.ok, format |-> "ARRAY_OF_OBJECTS",
                rows |-> IF h.sort THEN Sorted(kept) ELSE kept],
               h.rest)

(* Reference: the filters one after the other, as they are written.  The   *)
(* first row is a row, also of an answer that is one row.                  *)
Written(acc, f) ==
  LET rows == acc.rows
      Between(a, b) == [i \in 1..Cardinality({j \in DOMAIN rows : a < j /\ j <= b}) |-> rows[a + i]]
  IN  CASE f.name = "where" -> [acc EXCEPT !.rows = SelectSeq(@, LAMBDA r : Test(f.op, r, f.n))]
        [] f.name = "sort"  -> [acc EXCEPT !.rows = Sorted(@)]
        [] f.name = "first" -> [acc EXCEPT !.rows = Between(0, 1), !.format = "OBJECT"]
        [] f.name = "count" -> [acc EXCEPT !.rows = <<Cardinality(DOMAIN rows)>>, !.format = "SIMPLE"]
        [] f.name = "take"  -> [acc EXCEPT !.rows = Between(0, f.n)]
        [] f.name = "slice" -> [acc EXCEPT !.rows = Between(f.n, f.n + f.k)]

LeftToRight(filters, rows) ==
  FoldLeft(Written, [ok |-> TRUE, format |-> "ARRAY_OF_OBJECTS", rows |-> rows], filters)

Selects(f) == f.name \in {"where", "sort"}

(* The chains for which moving where and sort to the front is harmless. *)
SelectsFirst(filters) ==
  \A i, j \in DOMAIN filters : i < j /\ Selects(filters[j]) => Selects(filters[i])

(* The chains whose comparisons survive the swap of their operands. *)
Symmetric(filters) ==
  \A i \in DOMAIN filters : filters[i].name = "where" => filters[i].op = "=" \/ filters[i].k = 0

(* The chains that ask once for the first row. *)
FirstOnce(filters) ==
  \A i, j \in DOMAIN filters : filters[i].name = "first" /\ filters[j].name = "first" => i = j

-----------------------------------------------------------------------------
(* Chains of plucks.  A property is [name, plucks, props]; its type is an  *)
(* array of records for every name but the last of a chain.                *)

(* Mutant: the selection written after a chain is lost. *)
PluckedShort(a) ==
  LET n == Len(a.plucks)
      given == IF a.props # <<>> /\ n = 1 THEN [a.plucks EXCEPT ![n].props = a.props]
               ELSE a.plucks
  IN  [given[1] EXCEPT !.plucks = @ \o Tail(given)]

(* The normalisation of the filters of one property: its first pluck takes *)
(* over the later ones, and the last of them the selection written after   *)
(* the chain.  The result is what the array is made of.                    *)
Plucked(a) ==
  LET n == Len(a.plucks)
      given == IF a.props # <<>> THEN [a.plucks EXCEPT ![n].props = a.props]
               ELSE a.plucks
  IN  [given[1] EXCEPT !.plucks = @ \o Tail(given)]

(* What sqlForProperty descends through, property by property. *)
RECURSIVE Descent(_)
Descent(a) ==
  IF a.plucks = <<>> THEN [names |-> <<a.name>>, props |-> a.props]
  ELSE LET inner == Descent(Plucked(a))
       IN  [names |-> <<a.name>> \o inner.names, props |-> inner.props]

(* Reference: the names in the order they are written, nested or chained,  *)
(* and the selections that are written.                                    *)
RECURSIVE NamesOf(_)
NamesOf(a) ==
  <<a.name>> \o FoldLeft(LAMBDA s, p : s \o NamesOf(p), <<>>, a.plucks)

RECURSIVE SelectionsOf(_)
SelectionsOf(a) ==
  SelectSeq(<<a.props>>, LAMBDA p : p # <<>>)
  \o FoldLeft(LAMBDA s, p : s \o SelectionsOf(p), <<>>, a.plucks)
=============================================================================
