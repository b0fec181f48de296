------------------------------ MODULE Queries ------------------------------
(***************************************************************************)
(* What arla.query makes of a query of the started runtime (Runtime): the  *)
(* operators of Aql against what the query says.                           *)
(***************************************************************************)
EXTENDS Runtime, Aql

(* normalizeProps and mergeProps (index.js:604, 629) neither lose nor      *)
(* invent a selection, whatever the depth at which repetitions meet, leave *)
(* one node for each path, and refuse a query exactly when one chain of    *)
(* aliases stands for two different properties.                            *)
NormalizeMerges ==
  asked /\ query.kind = "props" => MergedAs(query.ast, normalizeProps(query.ast))

(* A chain of filters with its where and sort in front of the others, its  *)
(* comparisons symmetric or in the order graphql.peg sorts operands, and   *)
(* one first at most, gives the rows and the format it says from left to   *)
(* right, although sqlForProperty (index.js:410, 498) takes it apart.      *)
(* Other chains do not: a second first gives the first column of the row.  *)
FiltersCompose ==
  asked /\ query.kind = "filters" =>
    LET answer == sqlForFilters(query.ast, query.rows)
    IN  answer.ok /\ SelectsFirst(query.ast) /\ Symmetric(query.ast) /\ FirstOnce(query.ast)
          => answer = LeftToRight(query.ast, query.rows)

(* "chaining plucks should be equivilent to nesting" (main_test.go:222):   *)
(* sqlForProperty (index.js:412) walks down the names in the order they    *)
(* are written, chained, nested or mixed, and selects at the end of the    *)
(* walk what is written once, before, inside or after the chain.  Of       *)
(* several selections it takes one.                                        *)
PluckChainsNest ==
  asked /\ query.kind = "plucks" =>
    LET answer == Descent(query.ast)
        written == SelectionsOf(query.ast)
    IN  /\ answer.names = NamesOf(query.ast)
        /\ IF written = <<>> THEN answer.props = <<>>
           ELSE \E i \in DOMAIN written : answer.props = written[i]
=============================================================================
