------------------------------ MODULE Runtime ------------------------------
(***************************************************************************)
(* The JavaScript runtime from the start of the database to a query: the   *)
(* schema is defined and its DDL run (Schema), the log is replayed through *)
(* arla.exec (Exec), and a query is sent.  psql runs the phases one after  *)
(* the other, and an error in one is the end of the start.  What becomes   *)
(* of the query is in Queries.                                             *)
(***************************************************************************)
EXTENDS Schema, Exec

CONSTANTS Inputs    \* what a start meets: [app, job, query]

VARIABLES query,    \* the query that follows the start
          asked     \* it has been sent

vars == <<schemaVars, execVars, query, asked>>

(* A query is [kind, ast, rows]. *)
Init ==
  /\ \E input \in Inputs : app = input.app /\ job = input.job /\ query = input.query
  /\ SchemaInit /\ ExecInit
  /\ asked = FALSE

Start == SchemaNext /\ UNCHANGED <<execVars, query, asked>>

Replay == status = "up" /\ ExecNext /\ UNCHANGED <<schemaVars, query, asked>>

(* arla.query changes nothing: what it makes of the query is compared with *)
(* the reference in Queries once it is asked.                              *)
Query ==
  /\ at = "done" /\ ~asked
  /\ asked' = TRUE
  /\ UNCHANGED <<schemaVars, execVars, query>>

Next == Start \/ Replay \/ Query

Spec == Init /\ [][Next]_vars
FairSpec == Spec /\ WF_vars(Next)

-----------------------------------------------------------------------------
(* The types of the parts; nothing is replayed before the DDL has run and  *)
(* nothing is answered before the log has been replayed.                   *)
TypeOK ==
  /\ SchemaTypeOK /\ ExecTypeOK
  /\ status # "up" => at = "next" /\ ran = <<>>
  /\ asked => at = "done"

(* Neither classes that name each other in a circle nor a transform that   *)
(* never gets anywhere can hang the start of a server: it ends, with an    *)
(* error or with the log replayed.                                         *)
StartEnds == <>(status = "error" \/ at \in {"done", "error"})
=============================================================================
