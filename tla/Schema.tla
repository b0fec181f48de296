------------------------------- MODULE Schema -------------------------------
(***************************************************************************)
(* The start of the JavaScript runtime inside postgres: arla.configure     *)
(* defines the classes of the application (index.js, define) and           *)
(* arla.init runs the DDL statements that define has collected.            *)
(*                                                                         *)
(* define is recursive: a class that names another one by class (in        *)
(* requires, ref, of or type) defines it first.  The recursion is a stack  *)
(* of frames here.  arla.init sorts the statements by priority with the    *)
(* sort of a V8 that is not stable, so any statement of the lowest         *)
(* priority may be next.                                                   *)
(*                                                                         *)
(* An application is a record                                              *)
(*   roots    the classes listed in cfg.schema                             *)
(*   uses     per class, the classes it names by class                     *)
(*   refs     per class, the targets of its reference columns; a target    *)
(*            outside uses is named by a string, which defines nothing     *)
(*   keyed    the classes with a primary key column                        *)
(*   keyref   per class, the target if the key column is itself a ref      *)
(*   indexed  the classes with an index over their reference columns       *)
(*   bare     the classes for which define throws: no props, or a ref or   *)
(*            type that is undefined                                       *)
(*   wrong    what else ends a start: "handlers" if authenticate or        *)
(*            register is missing, "bootstrap" if a statement of           *)
(*            cfg.bootstrap fails                                          *)
(***************************************************************************)
EXTENDS Naturals, Sequences

CONSTANTS Classes,  \* the names of the application's classes
          Root,     \* the class 'root', which has no table
          Apps      \* the applications to start

VARIABLES app,      \* the application
          status,   \* "configure", "init", "up" or "error"
          todo,     \* the classes of cfg.schema not yet passed to define
          schema,   \* the classes recorded in the schema object
          stack,    \* the calls of define in progress, outermost first
          made,     \* the classes whose statements were pushed, in order
          ddl,      \* the statements still to run
          db        \* the statements that have run

schemaVars == <<app, status, todo, schema, stack, made, ddl, db>>

AppType == [roots : SUBSET Classes, uses : [Classes -> SUBSET Classes],
            refs : [Classes -> SUBSET Classes], keyed : SUBSET Classes,
            keyref : [Classes -> SUBSET Classes],
            indexed : SUBSET Classes, bare : SUBSET Classes,
            wrong : SUBSET {"handlers", "bootstrap"}]

ASSUME SchemaAssumption == Root \in Classes /\ Apps \subseteq AppType

Kinds == {"table", "pk", "col", "index", "trigger"}
Stmt(kind, on, to) == [kind |-> kind, on |-> on, to |-> to]
Stmts == [kind : Kinds, on : Classes, to : Classes]

(* Mutant: keys have no priority over other columns. *)
PriorityFlat(s) == CASE s.kind = "table"   -> 0
                     [] s.kind = "pk"      -> 2
                     [] s.kind = "col"     -> 2
                     [] s.kind = "index"   -> 3
                     [] s.kind = "trigger" -> 10

(* The second argument of alter, for each kind of statement. *)
Priority(s) == CASE s.kind = "table"   -> 0
                 [] s.kind = "pk"      -> 1
                 [] s.kind = "col"     -> 2
                 [] s.kind = "index"   -> 3
                 [] s.kind = "trigger" -> 10

(* The statements define pushes for a class; alter drops those of root. *)
Pushed(c) ==
  IF c = Root THEN {}
  ELSE {Stmt("table", c, c), Stmt("trigger", c, c)}
       \cup {Stmt("pk", k, k) : k \in {c} \cap app.keyed}
       \cup {Stmt("col", c, d) : d \in app.refs[c]}
       \cup {Stmt("index", i, i) : i \in {c} \cap app.indexed}

(* What postgres wants to find before it accepts a statement. *)
Needs(s) ==
  CASE s.kind = "table"   -> {}
    [] s.kind = "trigger" -> {Stmt("table", s.on, s.on)}
    [] s.kind = "pk"      -> {Stmt("table", s.on, s.on)}
                             \cup {Stmt("pk", d, d) : d \in app.keyref[s.on]}
    [] s.kind = "col"     -> {Stmt("table", s.on, s.on), Stmt("pk", s.to, s.to)}
    [] s.kind = "index"   -> {Stmt("table", s.on, s.on)}
                             \cup {Stmt("col", s.on, d) : d \in app.refs[s.on]}

SchemaInit ==
  /\ app \in Apps
  /\ status = "configure"
  /\ todo = app.roots
  /\ schema = {}
  /\ stack = <<>>
  /\ made = <<>>
  /\ ddl = {}
  /\ db = {}

-----------------------------------------------------------------------------
Frame(c) == [class |-> c, left |-> app.uses[c]]
Top == stack[Len(stack)]
Pop == SubSeq(stack, 1, Len(stack) - 1)

(* Mutant: a class is defined although its name is known. *)
DefineAgain(c, calls) ==
  stack' = Append(calls, Frame(c)) /\ schema' = schema \cup {c}

(* define(c), called with the given calls in progress: it returns at once   *)
(* if the name is known, and records the class before it looks at what the *)
(* class names, so that classes may name each other in a circle.           *)
Define(c, calls) ==
  IF c \in schema THEN stack' = calls /\ schema' = schema
  ELSE stack' = Append(calls, Frame(c)) /\ schema' = schema \cup {c}

(* configure passes the next class of cfg.schema to define. *)
DefineRoot ==
  /\ status = "configure" /\ stack = <<>>
  /\ \E c \in todo : todo' = todo \ {c} /\ Define(c, stack)
  /\ UNCHANGED <<app, status, made, ddl, db>>

(* The innermost call meets a class that its class names and defines it. *)
DefineUsed ==
  /\ status = "configure" /\ stack # <<>>
  /\ \E d \in Top.left : Define(d, Append(Pop, [Top EXCEPT !.left = @ \ {d}]))
  /\ UNCHANGED <<app, status, todo, made, ddl, db>>

(* The innermost call pushes its statements and returns.  A class without  *)
(* props throws instead, and configure ends.                               *)
DefineReturns ==
  /\ status = "configure" /\ stack # <<>> /\ Top.left = {}
  /\ IF Top.class \in app.bare
     THEN status' = "error" /\ UNCHANGED <<stack, made, ddl>>
     ELSE /\ made' = Append(made, Top.class)
          /\ ddl' = ddl \cup Pushed(Top.class)
          /\ stack' = Pop
          /\ UNCHANGED status
  /\ UNCHANGED <<app, todo, schema, db>>

(* configure is done, if cfg has what it must have, and arla.init starts   *)
(* on the sorted statements.                                               *)
StartInit ==
  /\ status = "configure" /\ stack = <<>> /\ todo = {}
  /\ status' = IF "handlers" \in app.wrong THEN "error" ELSE "init"
  /\ UNCHANGED <<app, todo, schema, stack, made, ddl, db>>

IsNext(s) == \A t \in ddl : Priority(s) <= Priority(t)

(* arla.init runs one statement; an error ends it. *)
RunStmt ==
  /\ status = "init"
  /\ \E s \in ddl :
       /\ IsNext(s)
       /\ IF Needs(s) \subseteq db
          THEN ddl' = ddl \ {s} /\ db' = db \cup {s} /\ UNCHANGED status
          ELSE status' = "error" /\ UNCHANGED <<ddl, db>>
  /\ UNCHANGED <<app, todo, schema, stack, made>>

(* arla.bootstrap, and the end of arla.init. *)
InitDone ==
  /\ status = "init" /\ ddl = {}
  /\ status' = IF "bootstrap" \in app.wrong THEN "error" ELSE "up"
  /\ UNCHANGED <<app, todo, schema, stack, made, ddl, db>>

SchemaNext == DefineRoot \/ DefineUsed \/ DefineReturns \/ StartInit
              \/ RunStmt \/ InitDone

SchemaSpec == SchemaInit /\ [][SchemaNext]_schemaVars

-----------------------------------------------------------------------------
(* The variables keep their types: nothing but the statements of defined   *)
(* classes is collected or run, and no statement runs twice.               *)
SchemaTypeOK ==
  /\ app \in Apps
  /\ status \in {"configure", "init", "up", "error"}
  /\ todo \subseteq app.roots
  /\ schema \subseteq Classes
  /\ stack \in Seq([class : Classes, left : SUBSET Classes])
  /\ made \in Seq(Classes)
  /\ ddl \subseteq Stmts /\ db \subseteq Stmts /\ ddl \cap db = {}

Closed(S) == app.roots \subseteq S /\ \A c \in S : app.uses[c] \subseteq S

(* define (index.js:155) defines each class once, however the classes name *)
(* each other, and configure ends with exactly the classes that cfg.schema *)
(* leads to: the smallest set that holds them and what its members name by *)
(* class.  A class that is only named by a string is not among them.       *)
DefinesReachable ==
  /\ \A i, j \in 1..Len(made) : made[i] = made[j] => i = j
  /\ status \in {"init", "up"} =>
       /\ \A c \in schema : \E i \in 1..Len(made) : made[i] = c
       /\ Closed(schema)
       /\ \A S \in SUBSET Classes : Closed(S) => schema \subseteq S

(* What an application must respect for its DDL to be ordered by priority  *)
(* alone: references lead to defined classes that have a table and a key,  *)
(* and no key is itself a reference (both have priority 1).                *)
Sound ==
  /\ app.bare = {} /\ app.wrong = {}
  /\ \A c \in schema \ {Root} :
       app.keyref[c] = {} /\ app.refs[c] \subseteq (schema \cap app.keyed) \ {Root}

(* Whatever order the unstable sort of arla.init (index.js:867) leaves the *)
(* statements of one priority in, no statement of a sound application runs *)
(* before the table, the key or the columns it needs.                      *)
DDLSucceeds ==
  status = "error" => ~Sound
=============================================================================
