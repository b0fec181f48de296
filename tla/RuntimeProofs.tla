---------------------------- MODULE RuntimeProofs ----------------------------
(***************************************************************************)
(* Proofs about the start of the JavaScript runtime.  For every            *)
(* application, define ends with exactly the classes that cfg.schema leads *)
(* to, each defined once, and the DDL of a sound application runs without  *)
(* error in every order that a sort by priority allows.  For every log,    *)
(* every transform and every limit, the loop of arla.exec gives each line  *)
(* the version that it becomes by the definition of Orbit, or stops at the *)
(* first that gets nowhere.                                                *)
(*                                                                         *)
(* The invariant of the schema says where a recorded class is: its         *)
(* statements have been pushed, or its call of define is on the stack      *)
(* (PlaceInv); that what a call has already looked at is recorded; and     *)
(* that the statements are those of the classes that were made (StmtInv).  *)
(* The invariant of the replay says that the mutation in hand is what as   *)
(* many turns as were counted make of the line (LoopInv).                  *)
(***************************************************************************)
EXTENDS Runtime, Recursion, TLAPS


IsMade(c) == \E i \in 1..Len(made) : made[i] = c
IsOpen(c) == \E j \in 1..Len(stack) : stack[j].class = c

\* A class is recorded while it is open and after it was made, and never both.
PlaceInv ==
  /\ \A i, j \in 1..Len(made) : made[i] = made[j] => i = j
  /\ \A i, j \in 1..Len(stack) : stack[i].class = stack[j].class => i = j
  /\ \A i \in 1..Len(made), j \in 1..Len(stack) : made[i] # stack[j].class
  /\ \A c \in Classes : c \in schema <=> IsMade(c) \/ IsOpen(c)

\* What was looked at is recorded, and nothing else is.
ReachInv ==
  /\ \A i \in 1..Len(made) : app.uses[made[i]] \subseteq schema
  /\ \A j \in 1..Len(stack) :
       /\ stack[j].left \subseteq app.uses[stack[j].class]
       /\ app.uses[stack[j].class] \subseteq schema \cup stack[j].left
  /\ app.roots \subseteq schema \cup todo
  /\ \A S \in SUBSET Classes : Closed(S) => schema \subseteq S

\* The statements are those of the classes that were made.
StmtInv ==
  /\ \A s : s \in ddl \cup db <=> \E i \in 1..Len(made) : s \in Pushed(made[i])
  /\ status = "configure" => db = {}
  /\ status \in {"init", "up"} => stack = <<>> /\ todo = {}

SchemaInv == SchemaTypeOK /\ PlaceInv /\ ReachInv /\ StmtInv /\ DDLSucceeds

\* Append adds an element at the end.
LEMMA AppendFacts ==
  ASSUME NEW S, NEW q \in Seq(S), NEW e \in S
  PROVE  /\ Append(q, e) \in Seq(S)
         /\ Len(Append(q, e)) = Len(q) + 1 /\ Len(q) \in Nat
         /\ \A j \in 1..Len(q) : Append(q, e)[j] = q[j]
         /\ Append(q, e)[Len(q) + 1] = e
         /\ \A j \in 1..(Len(q) + 1) : j \in 1..Len(q) \/ j = Len(q) + 1
  OBVIOUS

\* A sequence without its last element.
LEMMA FrontFacts ==
  ASSUME NEW S, NEW q \in Seq(S), q # <<>>
  PROVE  /\ Len(q) \in Nat /\ Len(q) > 0 /\ Len(q) \in 1..Len(q) /\ q[Len(q)] \in S
         /\ SubSeq(q, 1, Len(q) - 1) \in Seq(S)
         /\ Len(SubSeq(q, 1, Len(q) - 1)) = Len(q) - 1
         /\ \A j \in 1..(Len(q) - 1) : SubSeq(q, 1, Len(q) - 1)[j] = q[j] /\ j \in 1..Len(q)
  <1>1. Len(q) \in Nat /\ Len(q) > 0
    OBVIOUS
  <1>2. Len(q) \in 1..Len(q) /\ Len(q) - 1 \in 0..Len(q)
    BY <1>1
  <1>3. q[Len(q)] \in S
    BY <1>2
  <1> DEFINE n == Len(q) - 1
  <1>4. /\ SubSeq(q, 1, n) \in Seq(S) /\ Len(SubSeq(q, 1, n)) = n
        /\ \A j \in 1..n : SubSeq(q, 1, n)[j] = q[j] /\ j \in 1..Len(q)
    <2>1. n \in 0..Len(q)
      BY <1>2
    <2> HIDE DEF n
    <2> QED
      BY <2>1
  <1> QED
    BY <1>1, <1>2, <1>3, <1>4

\* The parts of an application have their types.
LEMMA AppFacts ==
  ASSUME app \in Apps
  PROVE  /\ app.roots \subseteq Classes
         /\ \A c \in Classes : app.uses[c] \subseteq Classes /\ app.refs[c] \subseteq Classes
  BY SchemaAssumption DEF AppType

\* Every statement of a class is a statement.
LEMMA PushedType ==
  ASSUME app \in Apps, NEW c \in Classes
  PROVE  Pushed(c) \subseteq Stmts
  BY AppFacts DEF Pushed, Stmts, Stmt, Kinds

\* arla.configure starts with nothing defined.
LEMMA InitSchemaInv == SchemaInit => SchemaInv
  <1> SUFFICES ASSUME SchemaInit PROVE SchemaInv
    OBVIOUS
  <1>1. Len(made) = 0 /\ Len(stack) = 0 /\ schema = {} /\ made \in Seq(Classes)
        /\ stack \in Seq([class : Classes, left : SUBSET Classes])
    BY DEF SchemaInit
  <1>2. 1..Len(made) = {} /\ 1..Len(stack) = {}
    BY <1>1
  <1>3. SchemaTypeOK
    BY <1>1 DEF SchemaInit, SchemaTypeOK
  <1>4. PlaceInv
    BY <1>1, <1>2 DEF PlaceInv, IsMade, IsOpen
  <1>5. ReachInv
    BY <1>1, <1>2 DEF ReachInv, SchemaInit
  <1>6. StmtInv /\ DDLSucceeds
    BY <1>2 DEF StmtInv, DDLSucceeds, SchemaInit
  <1> QED
    BY <1>3, <1>4, <1>5, <1>6 DEF SchemaInv
-----------------------------------------------------------------------------
\* A call of define keeps the invariant, when the class is one that cfg.schema
\* leads to and the calls in progress have looked at nothing else.
LEMMA DefineKeeps ==
  ASSUME SchemaInv, status = "configure",
         NEW c \in Classes, NEW calls \in Seq([class : Classes, left : SUBSET Classes]),
         Define(c, calls), UNCHANGED <<app, status, made, ddl, db>>,
         todo' \subseteq app.roots, app.roots \subseteq schema \cup todo' \cup {c},
         Len(calls) = Len(stack),
         \A j \in 1..Len(stack) : /\ calls[j].class = stack[j].class
                                  /\ calls[j].left \subseteq stack[j].left
                                  /\ stack[j].left \subseteq calls[j].left \cup {c},
         \A S \in SUBSET Classes : Closed(S) => c \in S
  PROVE  SchemaInv'
  <1> USE DEF SchemaInv
  <1>1. /\ schema' = schema \cup {c} /\ schema \subseteq Classes
        /\ stack' \in Seq([class : Classes, left : SUBSET Classes])
        /\ app' = app /\ made' = made
    <2>1. app.uses[c] \in SUBSET Classes
      BY AppFacts DEF SchemaTypeOK
    <2>2. Frame(c) \in [class : Classes, left : SUBSET Classes]
      BY <2>1 DEF Frame
    <2>3. schema' = schema \cup {c} /\ stack' \in {calls, Append(calls, Frame(c))}
      BY DEF Define
    <2>4. Append(calls, Frame(c)) \in Seq([class : Classes, left : SUBSET Classes])
      BY <2>2, AppendFacts
    <2> QED
      BY <2>3, <2>4, Zenon DEF SchemaTypeOK
  <1>2. \A S \in SUBSET Classes : Closed(S)' <=> Closed(S)
    BY <1>1 DEF Closed
  <1>3. SchemaTypeOK'
    BY <1>1 DEF SchemaTypeOK
  <1>4. StmtInv'
    BY <1>1 DEF StmtInv, Pushed
  <1>5. DDLSucceeds'
    BY DEF DDLSucceeds
  <1>6. CASE c \in schema
    <2>1. stack' = calls /\ schema' = schema
      BY <1>6 DEF Define
    <2>2. PlaceInv'
      <3>1. \A j \in 1..Len(stack) : stack'[j].class = stack[j].class
        BY <2>1
      <3>2. Len(stack') = Len(stack)
        BY <2>1
      <3>3. \A d \in Classes : (IsOpen(d)' <=> IsOpen(d)) /\ (IsMade(d)' <=> IsMade(d))
        BY <1>1, <3>1, <3>2 DEF IsOpen, IsMade
      <3> QED
        BY <1>1, <2>1, <3>1, <3>2, <3>3 DEF PlaceInv
    <2>3. ReachInv'
      <3>1. \A j \in 1..Len(stack) :
              /\ calls[j].left \subseteq app.uses[calls[j].class]
              /\ app.uses[calls[j].class] \subseteq schema \cup calls[j].left
        BY <1>6 DEF ReachInv
      <3> QED
        BY <1>1, <1>2, <1>6, <2>1, <3>1 DEF ReachInv
    <2> QED
      BY <1>3, <1>4, <1>5, <2>2, <2>3
  <1>7. CASE c \notin schema
    <2> DEFINE n == Len(stack)
    <2>1. /\ stack' = Append(calls, Frame(c))
          /\ Len(stack') = n + 1 /\ n \in Nat
          /\ \A j \in 1..n : stack'[j] = calls[j]
          /\ stack'[n + 1] = Frame(c)
          /\ \A j \in 1..(n + 1) : j \in 1..n \/ j = n + 1
      BY <1>7 DEF Define, SchemaTypeOK
    <2>2. Frame(c).class = c /\ Frame(c).left = app.uses[c]
      BY DEF Frame
    <2>3. ~IsMade(c) /\ ~IsOpen(c)
      BY <1>7 DEF PlaceInv
    <2>4. /\ \A j \in 1..n : stack'[j].class = stack[j].class /\ stack'[j].class # c
          /\ stack'[n + 1].class = c /\ stack'[n + 1].left = app.uses[c]
          /\ \A i \in 1..Len(made) : made[i] # c
      BY <2>1, <2>2, <2>3 DEF IsMade, IsOpen
    <2> HIDE DEF n
    <2>5. PlaceInv'
      <3>1. \A i, j \in 1..Len(stack') : stack'[i].class = stack'[j].class => i = j
        BY <2>1, <2>4 DEF PlaceInv, n
      <3>2. \A i \in 1..Len(made), j \in 1..Len(stack') : made[i] # stack'[j].class
        BY <2>1, <2>4 DEF PlaceInv, n
      <3>3. ASSUME NEW d \in Classes PROVE IsOpen(d)' <=> IsOpen(d) \/ d = c
        <4>1. n + 1 \in 1..Len(stack') /\ \A j \in 1..n : j \in 1..Len(stack')
          BY <2>1
        <4> QED
          BY <2>1, <2>4, <4>1 DEF IsOpen, n
      <3>4. \A d \in Classes : d \in schema' <=> IsMade(d) \/ IsOpen(d)'
        BY <1>1, <3>3 DEF PlaceInv
      <3> QED
        BY <1>1, <3>1, <3>2, <3>4 DEF PlaceInv, IsMade
    <2>6. ReachInv'
      <3>1. ASSUME NEW j \in 1..Len(stack')
            PROVE  /\ stack'[j].left \subseteq app.uses[stack'[j].class]
                   /\ app.uses[stack'[j].class] \subseteq schema' \cup stack'[j].left
        <4>1. CASE j = n + 1
          BY <2>4, <4>1
        <4>2. CASE j \in 1..n
          BY <1>1, <2>1, <2>4, <4>2, Zenon DEF ReachInv, n
        <4> QED
          BY <2>1, <4>1, <4>2
      <3> QED
        BY <1>1, <1>2, <3>1 DEF ReachInv
    <2> QED
      BY <1>3, <1>4, <1>5, <2>5, <2>6
  <1> QED
    BY <1>6, <1>7

\* The calls in progress but the innermost.
LEMMA PopFacts ==
  ASSUME stack \in Seq([class : Classes, left : SUBSET Classes]), stack # <<>>
  PROVE  /\ Len(stack) \in Nat /\ Len(stack) > 0 /\ Len(stack) \in 1..Len(stack)
         /\ Top \in [class : Classes, left : SUBSET Classes]
         /\ Pop \in Seq([class : Classes, left : SUBSET Classes])
         /\ Len(Pop) = Len(stack) - 1
         /\ \A j \in 1..(Len(stack) - 1) : Pop[j] = stack[j] /\ j \in 1..Len(stack)
  BY FrontFacts, Zenon DEF Top, Pop

\* configure and define pass a class to define.
LEMMA DefineStep ==
  ASSUME SchemaInv, DefineRoot \/ DefineUsed
  PROVE  SchemaInv'
  <1> USE DEF SchemaInv
  <1>1. CASE DefineRoot
    <2>1. PICK c \in todo : todo' = todo \ {c} /\ Define(c, stack)
      BY <1>1 DEF DefineRoot
    <2>2. c \in Classes /\ \A S \in SUBSET Classes : Closed(S) => c \in S
      BY AppFacts DEF SchemaTypeOK, Closed
    <2>3. app.roots \subseteq schema \cup todo' \cup {c} /\ todo' \subseteq app.roots
      BY <2>1 DEF ReachInv, SchemaTypeOK
    <2>4. UNCHANGED <<app, status, made, ddl, db>> /\ status = "configure"
      BY <1>1 DEF DefineRoot
    <2>5. stack \in Seq([class : Classes, left : SUBSET Classes])
      BY DEF SchemaTypeOK
    <2> QED
      BY <2>1, <2>2, <2>3, <2>4, <2>5, DefineKeeps, Zenon
  <1>2. CASE DefineUsed
    <2>1. stack # <<>> /\ stack \in Seq([class : Classes, left : SUBSET Classes])
      BY <1>2 DEF DefineUsed, SchemaTypeOK
    <2>2. PICK d \in Top.left : Define(d, Append(Pop, [Top EXCEPT !.left = @ \ {d}]))
      BY <1>2, Zenon DEF DefineUsed
    <2> DEFINE n == Len(stack)
               f == [Top EXCEPT !.left = @ \ {d}]
               calls == Append(Pop, f)
    <2>3. f \in [class : Classes, left : SUBSET Classes]
          /\ f.class = Top.class /\ f.left = Top.left \ {d}
      BY <2>1, PopFacts
    <2>4. /\ calls \in Seq([class : Classes, left : SUBSET Classes])
          /\ Len(calls) = n
          /\ calls[n] = f
          /\ \A j \in 1..(n - 1) : calls[j] = stack[j]
      <3> HIDE DEF f
      <3>1. Pop \in Seq([class : Classes, left : SUBSET Classes]) /\ Len(Pop) = n - 1 /\ n \in Nat
            /\ \A j \in 1..(n - 1) : Pop[j] = stack[j]
        BY <2>1, PopFacts
      <3>2. Len(Pop) + 1 = n
        BY <3>1
      <3> QED
        BY <2>3, <3>1, <3>2, AppendFacts
    <2>5. \A j \in 1..n : /\ calls[j].class = stack[j].class
                          /\ calls[j].left \subseteq stack[j].left
                          /\ stack[j].left \subseteq calls[j].left \cup {d}
      <3> SUFFICES ASSUME NEW j \in 1..n
                   PROVE  /\ calls[j].class = stack[j].class
                          /\ calls[j].left \subseteq stack[j].left
                          /\ stack[j].left \subseteq calls[j].left \cup {d}
        BY Zenon
      <3> HIDE DEF f, calls
      <3>1. CASE j = n
        BY <2>3, <2>4, <3>1 DEF Top
      <3>2. CASE j # n
        <4>1. j \in 1..(n - 1)
          BY <2>1, <3>2, PopFacts
        <4> QED
          BY <2>4, <4>1
      <3> QED
        BY <3>1, <3>2
    <2>6. Top.class \in schema /\ d \in app.uses[Top.class]
      <3>1. n \in 1..n /\ Top = stack[n] /\ Top.class \in Classes
        BY <2>1, PopFacts DEF Top
      <3> QED
        BY <3>1 DEF PlaceInv, IsOpen, ReachInv
    <2>7. d \in Classes /\ \A S \in SUBSET Classes : Closed(S) => d \in S
      BY <2>1, <2>6, PopFacts, AppFacts, Zenon DEF ReachInv, Closed, SchemaTypeOK
    <2>8. UNCHANGED <<app, status, todo, made, ddl, db>> /\ status = "configure"
      BY <1>2 DEF DefineUsed
    <2>9. app.roots \subseteq schema \cup todo' \cup {d} /\ todo' \subseteq app.roots
      BY <2>8 DEF ReachInv, SchemaTypeOK
    <2>10. Define(d, calls)
      BY <2>2
    <2> HIDE DEF f, calls
    <2> QED
      BY <2>4, <2>5, <2>7, <2>8, <2>9, <2>10, DefineKeeps, Zenon
  <1> QED
    BY <1>1, <1>2

\* A call of define pushes the statements of its class and returns, or throws.
LEMMA DefineReturnsStep ==
  ASSUME SchemaInv, DefineReturns
  PROVE  SchemaInv'
  <1> USE DEF SchemaInv
  <1> DEFINE n == Len(stack)
             c == Top.class
             k == Len(made)
  <1>1. /\ status = "configure" /\ stack # <<>> /\ Top.left = {}
        /\ UNCHANGED <<app, todo, schema, db>>
    BY DEF DefineReturns
  <1>2. /\ n \in Nat /\ n \in 1..n /\ Top = stack[n] /\ c \in Classes
        /\ Pop \in Seq([class : Classes, left : SUBSET Classes]) /\ Len(Pop) = n - 1
        /\ \A j \in 1..(n - 1) : Pop[j] = stack[j] /\ j \in 1..n
    BY <1>1, PopFacts DEF SchemaTypeOK, Top
  <1>3. CASE c \in app.bare
    <2>1. status' = "error" /\ UNCHANGED <<stack, made, ddl>>
      BY <1>3 DEF DefineReturns
    <2>2. DDLSucceeds'
      BY <1>1, <1>3 DEF DDLSucceeds, Sound
    <2>3. SchemaTypeOK' /\ StmtInv'
      BY <1>1, <2>1 DEF SchemaTypeOK, StmtInv, Pushed
    <2>4. PlaceInv'
      BY <1>1, <2>1 DEF PlaceInv, IsMade, IsOpen
    <2>5. ReachInv'
      BY <1>1, <2>1 DEF ReachInv, Closed
    <2> QED
      BY <2>2, <2>3, <2>4, <2>5
  <1>4. CASE c \notin app.bare
    <2>1. /\ made' = Append(made, c) /\ ddl' = ddl \cup Pushed(c)
          /\ stack' = Pop /\ status' = status
      BY <1>4 DEF DefineReturns
    <2>2. /\ made' \in Seq(Classes) /\ k \in Nat /\ Len(made') = k + 1
          /\ \A i \in 1..k : made'[i] = made[i]
          /\ made'[k + 1] = c
          /\ \A i \in 1..(k + 1) : i \in 1..k \/ i = k + 1
          /\ k + 1 \in 1..(k + 1) /\ \A i \in 1..k : i \in 1..(k + 1)
      <3>1. made \in Seq(Classes)
        BY DEF SchemaTypeOK
      <3>2. k \in Nat /\ k + 1 \in 1..(k + 1) /\ \A i \in 1..k : i \in 1..(k + 1)
        BY <3>1
      <3> QED
        BY <1>2, <2>1, <3>1, <3>2, AppendFacts
    <2>3. \A j \in 1..n : j \in 1..(n - 1) \/ j = n
      BY <1>2
    <2> HIDE DEF n, c, k
    <2>4. /\ \A i \in 1..k : made[i] # c
          /\ \A j \in 1..(n - 1) : Pop[j].class # c
          /\ stack[n].class = c
      <3>1. stack[n].class = c
        BY <1>2 DEF c
      <3>2. \A i \in 1..k : made[i] # c
        BY <1>2, <3>1 DEF PlaceInv, n, k
      <3>3. ASSUME NEW j \in 1..(n - 1) PROVE Pop[j].class # c
        <4>1. j \in 1..n /\ j # n /\ Pop[j] = stack[j]
          BY <1>2
        <4> QED
          BY <1>2, <3>1, <4>1 DEF PlaceInv, n
      <3> QED
        BY <3>1, <3>2, <3>3
    <2>5. SchemaTypeOK'
      <3>1. ddl' \subseteq Stmts /\ db' = {}
        BY <1>1, <1>2, <2>1, PushedType DEF SchemaTypeOK, StmtInv
      <3> QED
        BY <1>1, <1>2, <2>1, <2>2, <3>1 DEF SchemaTypeOK
    <2>6. PlaceInv'
      <3>1. \A i, j \in 1..Len(made') : made'[i] = made'[j] => i = j
        BY <2>2, <2>4 DEF PlaceInv, k
      <3>2. \A i, j \in 1..Len(stack') : stack'[i].class = stack'[j].class => i = j
        BY <1>2, <2>1 DEF PlaceInv, n
      <3>3. \A i \in 1..Len(made'), j \in 1..Len(stack') : made'[i] # stack'[j].class
        <4> SUFFICES ASSUME NEW i \in 1..(k + 1), NEW j \in 1..(n - 1)
                     PROVE  made'[i] # Pop[j].class
          BY <1>2, <2>1, <2>2
        <4>1. CASE i = k + 1
          BY <2>2, <2>4, <4>1
        <4>2. CASE i \in 1..k
          BY <1>2, <2>2, <4>2 DEF PlaceInv, n, k
        <4> QED
          BY <2>2, <4>1, <4>2
      <3>4. ASSUME NEW d \in Classes PROVE IsMade(d)' <=> IsMade(d) \/ d = c
        BY <2>2 DEF IsMade, k
      <3>5. ASSUME NEW d \in Classes PROVE IsOpen(d) <=> IsOpen(d)' \/ d = c
        <4>1. IsOpen(d)' => IsOpen(d)
          BY <1>2, <2>1 DEF IsOpen, n
        <4>2. d = c => IsOpen(d)
          BY <1>2, <2>4 DEF IsOpen, n
        <4>3. ASSUME IsOpen(d), d # c PROVE IsOpen(d)'
          <5>1. PICK j \in 1..n : stack[j].class = d
            BY <4>3 DEF IsOpen, n
          <5>2. j \in 1..(n - 1)
            BY <2>3, <2>4, <4>3, <5>1
          <5> QED
            BY <1>2, <2>1, <5>1, <5>2 DEF IsOpen
        <4> QED
          BY <4>1, <4>2, <4>3
      <3>6. \A d \in Classes : d \in schema' <=> IsMade(d)' \/ IsOpen(d)'
        BY <1>1, <3>4, <3>5 DEF PlaceInv
      <3> QED
        BY <3>1, <3>2, <3>3, <3>6 DEF PlaceInv
    <2>7. ReachInv'
      <3>1. app.uses[c] \subseteq schema
        BY <1>1, <1>2, <2>4 DEF ReachInv, n
      <3>2. \A i \in 1..Len(made') : app.uses[made'[i]] \subseteq schema
        BY <2>2, <3>1 DEF ReachInv, k
      <3>3. \A j \in 1..Len(stack') :
              /\ stack'[j].left \subseteq app.uses[stack'[j].class]
              /\ app.uses[stack'[j].class] \subseteq schema \cup stack'[j].left
        BY <1>2, <2>1 DEF ReachInv, n
      <3>4. \A S \in SUBSET Classes : Closed(S)' <=> Closed(S)
        BY <1>1 DEF Closed
      <3> QED
        BY <1>1, <3>2, <3>3, <3>4 DEF ReachInv
    <2>8. StmtInv'
      <3>1. \A d : Pushed(d)' = Pushed(d)
        BY <1>1 DEF Pushed
      <3>2. ASSUME NEW s
            PROVE  s \in ddl' \cup db' <=> \E i \in 1..Len(made') : s \in Pushed(made'[i])
        <4>1. s \in ddl' \cup db' <=> (s \in ddl \cup db) \/ s \in Pushed(c)
          BY <1>1, <2>1
        <4>2. s \in ddl \cup db <=> \E i \in 1..k : s \in Pushed(made[i])
          BY DEF StmtInv, k
        <4>3. (\E i \in 1..Len(made') : s \in Pushed(made'[i]))
                <=> (\E i \in 1..k : s \in Pushed(made[i])) \/ s \in Pushed(c)
          BY <2>2
        <4> QED
          BY <4>1, <4>2, <4>3
      <3> QED
        BY <1>1, <2>1, <3>1, <3>2 DEF StmtInv
    <2>9. DDLSucceeds'
      BY <1>1, <2>1 DEF DDLSucceeds
    <2> QED
      BY <2>5, <2>6, <2>7, <2>8, <2>9
  <1> QED
    BY <1>3, <1>4

\* In a sound application everything that a statement needs was pushed too, with
\* a lower priority.
LEMMA NeedsPushed ==
  ASSUME SchemaInv, Sound, status = "init", NEW s \in ddl, NEW t \in Needs(s)
  PROVE  t \in ddl \cup db /\ Priority(t) < Priority(s)
  <1> USE DEF SchemaInv
  <1>1. PICK i \in 1..Len(made) : s \in Pushed(made[i])
    BY DEF StmtInv
  <1> DEFINE c == made[i]
  <1>2. /\ \A d \in Classes : d \in schema <=> IsMade(d)
        /\ c \in Classes /\ c \in schema
    <2>1. Len(stack) = 0
      BY DEF StmtInv
    <2>2. \A d \in Classes : ~IsOpen(d)
      BY <2>1 DEF IsOpen
    <2>3. c \in Classes
      BY <1>1 DEF SchemaTypeOK
    <2> QED
      BY <1>1, <2>2, <2>3 DEF PlaceInv, IsMade
  <1>3. c # Root /\ app.keyref[c] = {} /\ app.refs[c] \subseteq (schema \cap app.keyed) \ {Root}
    BY <1>1, <1>2 DEF Pushed, Sound
  <1>4. Pushed(c) \subseteq ddl \cup db
    BY <1>1 DEF StmtInv
  <1> HIDE DEF c
  <1>5. ASSUME NEW d \in app.refs[c] PROVE Stmt("pk", d, d) \in ddl \cup db
    <2>1. d \in schema /\ d \in app.keyed /\ d # Root /\ d \in Classes
      BY <1>3 DEF SchemaTypeOK
    <2>2. PICK j \in 1..Len(made) : made[j] = d
      BY <1>2, <2>1 DEF IsMade
    <2>3. Stmt("pk", d, d) \in Pushed(d)
      BY <2>1 DEF Pushed
    <2> QED
      BY <2>2, <2>3 DEF StmtInv
  <1>6. \/ s \in {Stmt("table", c, c), Stmt("trigger", c, c)}
        \/ s = Stmt("pk", c, c)
        \/ \E d \in app.refs[c] : s = Stmt("col", c, d)
        \/ s = Stmt("index", c, c)
    BY <1>1, <1>3 DEF Pushed, c
  <1>7. Stmt("table", c, c) \in ddl \cup db
        /\ \A d \in app.refs[c] : Stmt("col", c, d) \in ddl \cup db
    BY <1>3, <1>4 DEF Pushed
  <1>8. CASE s = Stmt("table", c, c)
    BY <1>8 DEF Needs, Stmt
  <1>9. CASE s = Stmt("trigger", c, c)
    BY <1>7, <1>9 DEF Needs, Stmt, Priority
  <1>10. CASE s = Stmt("pk", c, c)
    BY <1>3, <1>7, <1>10 DEF Needs, Stmt, Priority
  <1>11. ASSUME NEW d \in app.refs[c], s = Stmt("col", c, d)
         PROVE  t \in ddl \cup db /\ Priority(t) < Priority(s)
    BY <1>5, <1>7, <1>11 DEF Needs, Stmt, Priority
  <1>12. CASE s = Stmt("index", c, c)
    BY <1>7, <1>12 DEF Needs, Stmt, Priority
  <1> QED
    BY <1>6, <1>8, <1>9, <1>10, <1>11, <1>12

\* arla.init runs the statements.
LEMMA InitStep ==
  ASSUME SchemaInv, StartInit \/ RunStmt \/ InitDone
  PROVE  SchemaInv'
  <1> USE DEF SchemaInv
  <1>1. UNCHANGED <<app, todo, schema, stack, made>>
    BY DEF StartInit, RunStmt, InitDone
  <1>2. PlaceInv'
    BY <1>1 DEF PlaceInv, IsMade, IsOpen
  <1>3. ReachInv'
    <2>1. \A S \in SUBSET Classes : Closed(S)' <=> Closed(S)
      BY <1>1 DEF Closed
    <2> QED
      BY <1>1, <2>1 DEF ReachInv
  <1>4. Sound' <=> Sound
    BY <1>1 DEF Sound
  <1>5. \A d : Pushed(d)' = Pushed(d)
    BY <1>1 DEF Pushed
  <1>6. CASE StartInit \/ InitDone
    <2>1. /\ UNCHANGED <<ddl, db>> /\ status' \in {"init", "up", "error"}
          /\ stack = <<>> /\ todo = {} /\ (status' = "error" => app.wrong # {})
      BY <1>6 DEF StartInit, InitDone, StmtInv
    <2>2. SchemaTypeOK' /\ StmtInv' /\ DDLSucceeds'
      BY <1>1, <1>4, <1>5, <2>1 DEF SchemaTypeOK, StmtInv, DDLSucceeds, Sound
    <2> QED
      BY <1>2, <1>3, <2>2
  <1>7. CASE RunStmt
    <2>1. PICK s \in ddl :
             /\ IsNext(s)
             /\ IF Needs(s) \subseteq db
                THEN ddl' = ddl \ {s} /\ db' = db \cup {s} /\ UNCHANGED status
                ELSE status' = "error" /\ UNCHANGED <<ddl, db>>
      BY <1>7 DEF RunStmt
    <2>2. status = "init"
      BY <1>7 DEF RunStmt
    <2>3. Sound => Needs(s) \subseteq db
      <3> SUFFICES ASSUME Sound, NEW t \in Needs(s) PROVE t \in db
        OBVIOUS
      <3>1. t \in ddl \cup db /\ Priority(t) < Priority(s)
        BY <2>2, NeedsPushed
      <3>2. t \in ddl => Priority(s) <= Priority(t)
        BY <2>1 DEF IsNext
      <3>3. t \in Stmts /\ s \in Stmts
        BY <3>1 DEF SchemaTypeOK
      <3>4. Priority(t) \in Nat /\ Priority(s) \in Nat
        BY <3>3 DEF Priority, Stmts, Kinds
      <3> QED
        BY <3>1, <3>2, <3>4
    <2>4. SchemaTypeOK'
      BY <1>1, <2>1, <2>2 DEF SchemaTypeOK
    <2>5. ddl' \cup db' = ddl \cup db
      BY <2>1
    <2>6. StmtInv'
      BY <1>1, <1>5, <2>1, <2>2, <2>5 DEF StmtInv
    <2>7. DDLSucceeds'
      BY <1>4, <2>1, <2>2, <2>3 DEF DDLSucceeds
    <2> QED
      BY <1>2, <1>3, <2>4, <2>6, <2>7
  <1> QED
    BY <1>6, <1>7

\* A step that changes nothing keeps the invariant.
LEMMA StutterSchemaInv ==
  ASSUME SchemaInv, UNCHANGED schemaVars
  PROVE  SchemaInv'
  <1> USE DEF SchemaInv, schemaVars
  <1>1. PlaceInv'
    BY DEF PlaceInv, IsMade, IsOpen
  <1>2. ReachInv'
    <2>1. \A S \in SUBSET Classes : Closed(S)' <=> Closed(S)
      BY DEF Closed
    <2> QED
      BY <2>1 DEF ReachInv
  <1>3. StmtInv' /\ SchemaTypeOK'
    BY DEF StmtInv, Pushed, SchemaTypeOK
  <1>4. DDLSucceeds'
    BY DEF DDLSucceeds, Sound
  <1> QED
    BY <1>1, <1>2, <1>3, <1>4

\* The invariant holds in every state of every behaviour.
LEMMA SpecSchemaInv == SchemaSpec => []SchemaInv
  <1>1. SchemaInv /\ [SchemaNext]_schemaVars => SchemaInv'
    BY DefineStep, DefineReturnsStep, InitStep, StutterSchemaInv DEF SchemaNext
  <1> QED
    BY InitSchemaInv, <1>1, PTL DEF SchemaSpec
-----------------------------------------------------------------------------
\* Every variable stays in its range, and no statement is both run and to run.
THEOREM SchemaTypeCorrect == SchemaSpec => []SchemaTypeOK
  BY SpecSchemaInv, PTL DEF SchemaInv

\* define makes each class once, and the classes that it made when arla.init
\* starts are the smallest set that holds cfg.schema and what its members name
\* by class, for every application, also one whose classes name each other in a
\* circle.
THEOREM ExactlyReachableClasses == SchemaSpec => []DefinesReachable
  <1>1. SchemaInv => DefinesReachable
    <2> SUFFICES ASSUME SchemaInv PROVE DefinesReachable
      OBVIOUS
    <2> USE DEF SchemaInv
    <2>1. \A i, j \in 1..Len(made) : made[i] = made[j] => i = j
      BY DEF PlaceInv
    <2>2. ASSUME status \in {"init", "up"}
          PROVE  /\ \A c \in schema : \E i \in 1..Len(made) : made[i] = c
                 /\ Closed(schema)
                 /\ \A S \in SUBSET Classes : Closed(S) => schema \subseteq S
      <3>1. Len(stack) = 0 /\ todo = {}
        BY <2>2 DEF StmtInv
      <3>2. \A c \in schema : IsMade(c)
        <4>1. \A c \in Classes : ~IsOpen(c)
          BY <3>1 DEF IsOpen
        <4> QED
          BY <4>1, Zenon DEF PlaceInv, SchemaTypeOK
      <3>3. Closed(schema)
        BY <3>1, <3>2 DEF Closed, ReachInv, IsMade
      <3> QED
        BY <3>2, <3>3 DEF IsMade, ReachInv
    <2> QED
      BY <2>1, <2>2 DEF DefinesReachable
  <1> QED
    BY <1>1, SpecSchemaInv, PTL

\* In a sound application no statement runs before what it needs, whichever order
\* the sort of arla.init leaves the statements of one priority in.
THEOREM SoundSchemasStart == SchemaSpec => []DDLSucceeds
  BY SpecSchemaInv, PTL DEF SchemaInv
-----------------------------------------------------------------------------
(* The replay: what becomes of a version.                                *)

\* What transform may make of a mutation.
Values == Versions \cup {NoVersion, Throws}
\* Older under configuration j.
OlderIn(j, x) == x # NoVersion /\ x < j.version

\* One turn of the loop of arla.exec under configuration j, on version x.
Turn(j, x) == IF x = Throws \/ ~OlderIn(j, x) THEN x ELSE j.transform[x]

\* f is the function that Orbit defines by recursion.
IsOrbit(j, v, f) ==
    f = [k \in 0..MaxTransforms + 1 |-> IF k = 0 THEN v ELSE Turn(j, f[k - 1])]

\* Orbit under a given configuration.
OrbitOf(j, v) == CHOOSE f : IsOrbit(j, v, f)

\* Orbit depends on nothing but the configuration, which no step changes.
LEMMA OrbitIsOrbitOf ==
  ASSUME NEW v
  PROVE  Orbit(v) = OrbitOf(job, v) /\ (Orbit(v) = OrbitOf(job, v))'
  BY DEF Orbit, OrbitOf, IsOrbit, Turn, Older, OlderIn

\* transform makes a version of a version, or throws.
LEMMA TurnTyped ==
  ASSUME NEW j \in Jobs, NEW x \in Values
  PROVE  Turn(j, x) \in Values
  <1>1. j.transform \in [Versions -> Versions \cup {NoVersion, Throws}]
    BY ExecAssumption
  <1> QED
    BY <1>1 DEF Turn, OlderIn, Values

\* Orbit starts with the version of the line and takes one turn after the other.
LEMMA OrbitFacts ==
  ASSUME NEW j \in Jobs, NEW v \in Versions
  PROVE  /\ OrbitOf(j, v) \in [0..MaxTransforms + 1 -> Values]
         /\ OrbitOf(j, v)[0] = v
         /\ \A k \in 1..MaxTransforms + 1 : OrbitOf(j, v)[k] = Turn(j, OrbitOf(j, v)[k - 1])
  <1> DEFINE n == MaxTransforms + 1
             F == [i \in 1..n |-> [x \in Values |-> Turn(j, x)]]
  <1>1. n \in Nat /\ v \in Values
    BY ExecAssumption DEF Values
  <1>2. F \in [1..n -> [Values -> Values]]
    BY TurnTyped
  <1>3. \A x \in Values, i \in 1..n : F[i][x] = Turn(j, x)
    OBVIOUS
  <1>4. \E f : IsOrbit(j, v, f)
    <2> HIDE DEF F, n
    <2>1. PICK f \in [0..n -> Values] : f[0] = v /\ \A i \in 1..n : f[i] = F[i][f[i - 1]]
      <3>1. Steps(Values, v, n, F)
        BY <1>1, <1>2 DEF Steps
      <3>2. \E f : Follows(Values, v, n, F, f)
        BY <3>1, RecursionExists, Zenon
      <3> QED
        BY <3>2, Zenon DEF Follows
    <2>2. \A i \in 1..n : f[i] = Turn(j, f[i - 1])
      <3> SUFFICES ASSUME NEW i \in 1..n PROVE F[i][f[i - 1]] = Turn(j, f[i - 1])
        BY <2>1
      <3>1. i - 1 \in 0..n
        BY <1>1
      <3> QED
        BY <1>3, <3>1
    <2>3. f = [k \in 0..n |-> IF k = 0 THEN v ELSE Turn(j, f[k - 1])]
      BY <1>1, <2>1, <2>2
    <2> QED
      BY <2>3, Zenon DEF IsOrbit, n
  <1> DEFINE o == OrbitOf(j, v)
             T == {k \in 0..n : o[k] \in Values}
  <1>5. o = [k \in 0..n |-> IF k = 0 THEN v ELSE Turn(j, o[k - 1])]
    BY <1>4, Zenon DEF OrbitOf, IsOrbit
  <1> HIDE DEF o, n
  <1>6. o[0] = v /\ \A k \in 1..n : o[k] = Turn(j, o[k - 1])
    BY <1>1, <1>5
  <1>7. 0 \in T /\ \A k \in 1..n : k - 1 \in T => k \in T
    BY <1>1, <1>6, TurnTyped
  <1>8. \A k \in 0..n : k \in T
    <2> HIDE DEF T
    <2> QED
      BY <1>1, <1>7, BoundedInduction
  <1>9. o \in [0..n -> Values]
    BY <1>5, <1>8
  <1> QED
    BY <1>6, <1>9 DEF o, n

\* A version that is not older is what the line becomes: the loop is over.
LEMMA OrbitStays ==
  ASSUME NEW j \in Jobs, NEW v \in Versions, NEW k \in 0..MaxTransforms + 1,
         LET x == OrbitOf(j, v)[k] IN x = Throws \/ ~OlderIn(j, x)
  PROVE  OrbitOf(j, v)[MaxTransforms + 1] = OrbitOf(j, v)[k]
  <1> DEFINE n == MaxTransforms + 1
             o == OrbitOf(j, v)
             T == {i \in 0..n : i >= k => o[i] = o[k]}
  <1>1. n \in Nat /\ k \in Nat /\ k <= n
    BY ExecAssumption
  <1>2. o[k] = Throws \/ ~OlderIn(j, o[k])
    OBVIOUS
  <1>3. \A i \in 1..n : o[i] = Turn(j, o[i - 1])
    BY OrbitFacts
  <1> HIDE DEF o, n
  <1>4. 0 \in T
    BY <1>1
  <1>5. ASSUME NEW i \in 1..n, i - 1 \in T PROVE i \in T
    <2>1. CASE i > k
      <3>1. o[i - 1] = o[k]
        BY <1>1, <1>5, <2>1
      <3>2. o[i] = o[k]
        BY <1>2, <1>3, <3>1 DEF Turn
      <3> QED
        BY <3>2
    <2>2. CASE ~(i > k)
      <3>1. i >= k => i = k
        BY <1>1, <2>2
      <3> QED
        BY <3>1
    <2> QED
      BY <2>1, <2>2
  <1>6. \A i \in 0..n : i \in T
    <2> HIDE DEF T
    <2> QED
      BY <1>1, <1>4, <1>5, BoundedInduction
  <1>7. n \in T /\ n >= k
    BY <1>1, <1>6
  <1> QED
    BY <1>7 DEF o, n
\* In the loop: m is what iter calls of transform have made of the line, and there
\* was a transform to call.
LoopInv ==
  at = "loop" =>
    /\ Line <= Len(job.log) /\ job.log[Line] # 0
    /\ m = Orbit(job.log[Line])[iter]
    /\ iter > 0 => job.defined

ExecInv == ExecTypeOK /\ LoopInv /\ ReplaysAsTransformed

\* The parts of a job have their types.
LEMMA JobFacts ==
  ASSUME ExecTypeOK
  PROVE  /\ job \in Jobs /\ job.log \in Seq(Versions) /\ Len(job.log) \in Nat
         /\ job.transform \in [Versions -> Values]
         /\ ran \in Seq(Versions \cup {NoVersion}) /\ Len(ran) \in Nat /\ Len(ran) <= Len(job.log)
         /\ Line \in Nat /\ (Line <= Len(job.log) => job.log[Line] \in Versions)
         /\ m \in Values /\ m # Throws /\ iter \in Nat /\ iter <= MaxTransforms + 1
         /\ MaxTransforms \in Nat
  <1>1. job \in Jobs /\ job.log \in Seq(Versions) /\ job.transform \in [Versions -> Values]
    BY ExecAssumption DEF ExecTypeOK, Values
  <1>2. ran \in Seq(Versions \cup {NoVersion}) /\ Len(ran) \in Nat /\ Len(ran) <= Len(job.log)
    BY DEF ExecTypeOK
  <1>3. Line \in Nat /\ (Line <= Len(job.log) => job.log[Line] \in Versions) /\ Len(job.log) \in Nat
    BY <1>1, <1>2 DEF Line
  <1>4. /\ m \in Values /\ m # Throws
        /\ iter \in Nat /\ iter <= MaxTransforms + 1 /\ MaxTransforms \in Nat
    BY ExecAssumption DEF ExecTypeOK, Values
  <1> QED
    BY <1>1, <1>2, <1>3, <1>4

\* When the loop is over m is what becomes of the line, and only the action can
\* still reject it.
LEMMA LoopEnds ==
  ASSUME ExecTypeOK, LoopInv, at = "loop", ~Older(m)
  PROVE  /\ Outcome(job.log[Line]) = m
         /\ Replayable(job.log[Line]) <=> m \notin job.rejects
  <1> DEFINE v == job.log[Line]
  <1>1. v \in Versions /\ job \in Jobs /\ v # 0 /\ m = OrbitOf(job, v)[iter] /\ m # Throws
        /\ iter \in 0..MaxTransforms + 1 /\ (iter > 0 => job.defined) /\ iter \in Nat
    BY JobFacts, OrbitIsOrbitOf DEF LoopInv, ExecTypeOK
  <1> HIDE DEF v
  <1>2. ~OlderIn(job, m)
    BY DEF Older, OlderIn
  <1>3. OrbitOf(job, v)[MaxTransforms + 1] = m
    BY <1>1, <1>2, OrbitStays
  <1>4. Outcome(v) = m
    BY <1>3, OrbitIsOrbitOf DEF Outcome
  <1>5. iter = 0 => v = m
    BY <1>1, OrbitFacts
  <1>6. Older(v) => job.defined
    BY <1>1, <1>5
  <1> QED
    BY <1>1, <1>4, <1>6 DEF Replayable, v

\* An error in the loop means that the line gets nowhere within the limit.
LEMMA LoopFails ==
  ASSUME ExecTypeOK, LoopInv, at = "loop", Older(m),
         iter > MaxTransforms \/ ~job.defined \/ job.transform[m] = Throws
  PROVE  ~Replayable(job.log[Line])
  <1> DEFINE v == job.log[Line]
             o == OrbitOf(job, v)
             n == MaxTransforms + 1
  <1>1. /\ v \in Versions /\ job \in Jobs /\ m = o[iter] /\ m # Throws /\ n \in Nat
        /\ iter \in 0..n /\ (iter > 0 => job.defined) /\ iter \in Nat /\ MaxTransforms \in Nat
    BY JobFacts, OrbitIsOrbitOf DEF LoopInv, ExecTypeOK
  <1>2. Orbit(v) = o
    BY OrbitIsOrbitOf
  <1> HIDE DEF v
  <1>3. /\ o[0] = v /\ \A k \in 1..n : o[k] = Turn(job, o[k - 1])
        /\ OlderIn(job, m)
    BY <1>1, OrbitFacts DEF Older, OlderIn
  <1>4. \A k \in 0..n : o[k] = Throws \/ ~OlderIn(job, o[k]) => o[n] = o[k]
    BY <1>1, OrbitStays
  <1> HIDE DEF o, n
  <1>5. Older(v)
    <2> SUFFICES ASSUME ~OlderIn(job, v) PROVE FALSE
      BY DEF Older, OlderIn
    <2> DEFINE T == {k \in 0..n : o[k] = v}
    <2>1. 0 \in T
      BY <1>1, <1>3
    <2>2. \A k \in 1..n : k - 1 \in T => k \in T
      BY <1>1, <1>3 DEF Turn
    <2>3. \A k \in 0..n : k \in T
      <3> HIDE DEF T
      <3> QED
        BY <1>1, <2>1, <2>2, BoundedInduction
    <2> QED
      BY <1>1, <1>3, <2>3
  <1>6. CASE iter > MaxTransforms
    <2>1. iter = n
      BY <1>1, <1>6 DEF n
    <2>2. Older(Outcome(v))
      BY <1>1, <1>2, <2>1 DEF Outcome, n
    <2> QED
      BY <1>5, <2>2 DEF Replayable, v
  <1>7. CASE ~job.defined
    BY <1>5, <1>7 DEF Replayable, v
  <1>8. CASE ~(iter > MaxTransforms) /\ job.transform[m] = Throws
    <2>1. iter + 1 \in 1..n /\ iter + 1 \in 0..n /\ (iter + 1) - 1 = iter
      BY <1>1, <1>8 DEF n
    <2>2. o[iter + 1] = Throws
      BY <1>1, <1>3, <1>8, <2>1 DEF Turn
    <2>3. Outcome(v) = Throws
      BY <1>2, <1>4, <2>1, <2>2 DEF Outcome, n
    <2> QED
      BY <1>5, <2>3 DEF Replayable, v
  <1> QED
    BY <1>6, <1>7, <1>8

\* No step changes what becomes of a version.
LEMMA SameJob ==
  ASSUME job' = job
  PROVE  \A v : /\ Orbit(v)' = Orbit(v) /\ Outcome(v)' = Outcome(v)
                /\ Replayable(v)' <=> Replayable(v)
  <1> SUFFICES ASSUME NEW v
               PROVE  /\ Orbit(v)' = Orbit(v) /\ Outcome(v)' = Outcome(v)
                      /\ Replayable(v)' <=> Replayable(v)
    OBVIOUS
  <1>1. Orbit(v)' = Orbit(v)
    BY OrbitIsOrbitOf
  <1>2. Outcome(v)' = Outcome(v)
    BY <1>1 DEF Outcome
  <1>3. Older(v)' <=> Older(v)
    BY DEF Older
  <1>4. Older(Outcome(v))' <=> Older(Outcome(v))
    BY <1>2 DEF Older
  <1> QED
    BY <1>1, <1>2, <1>3, <1>4 DEF Replayable

\* The replay starts with no line read.
LEMMA InitExecInv == ExecInit => ExecInv
  <1> SUFFICES ASSUME ExecInit PROVE ExecInv
    OBVIOUS
  <1>1. job \in Jobs /\ job.log \in Seq(Versions) /\ 0 \in Versions /\ MaxTransforms \in Nat
    BY ExecAssumption DEF ExecInit
  <1>2. ExecTypeOK
    BY <1>1 DEF ExecInit, ExecTypeOK
  <1> QED
    BY <1>1, <1>2 DEF ExecInit, ExecInv, LoopInv, ReplaysAsTransformed

\* Every step of the replay.
LEMMA NextExecInv ==
  ASSUME ExecInv, [ExecNext]_execVars
  PROVE  ExecInv'
  <1>0. /\ job \in Jobs /\ job.log \in Seq(Versions) /\ Len(job.log) \in Nat
        /\ job.transform \in [Versions -> Values]
        /\ ran \in Seq(Versions \cup {NoVersion}) /\ Len(ran) \in Nat /\ Len(ran) <= Len(job.log)
        /\ Line \in Nat /\ (Line <= Len(job.log) => job.log[Line] \in Versions)
        /\ m \in Values /\ m # Throws /\ iter \in Nat /\ iter <= MaxTransforms + 1
        /\ MaxTransforms \in Nat
    BY JobFacts DEF ExecInv
  <1>1. job' = job
    BY DEF ExecNext, Begin, TransformOnce, RunAction, ReplayDone, execVars
  <1>2. \A v : /\ Orbit(v)' = Orbit(v) /\ Outcome(v)' = Outcome(v)
               /\ Replayable(v)' <=> Replayable(v)
    BY <1>1, SameJob
  <1>3. CASE Begin
    <2>1. /\ Line <= Len(job.log) /\ m' = job.log[Line] /\ iter' = 0 /\ ran' = ran
          /\ at' = IF m' = 0 THEN "error" ELSE "loop"
          /\ Line' = Line
      BY <1>3 DEF Begin, Line
    <2>2. ExecTypeOK'
      BY <1>0, <1>1, <2>1 DEF ExecTypeOK
    <2>3. Orbit(job.log[Line])[0] = job.log[Line]
      BY <1>0, <2>1, OrbitIsOrbitOf, OrbitFacts
    <2>4. LoopInv'
      BY <1>0, <1>1, <1>2, <2>1, <2>3 DEF LoopInv
    <2>5. ReplaysAsTransformed'
      <3>1. m' = 0 => ~Replayable(job.log[Line])
        BY <2>1 DEF Replayable
      <3> QED
        BY <1>1, <1>2, <2>1, <3>1 DEF ReplaysAsTransformed, ExecInv
    <2> QED
      BY <2>2, <2>4, <2>5 DEF ExecInv
  <1>4. CASE TransformOnce
    <2>0. at = "loop" /\ Older(m) /\ ran' = ran /\ Line' = Line
      BY <1>4 DEF TransformOnce, Line
    <2>1. CASE iter > MaxTransforms \/ ~job.defined \/ job.transform[m] = Throws
      <3>1. at' = "error" /\ m' = m /\ iter' = iter
        BY <1>4, <2>1 DEF TransformOnce
      <3>2. ~Replayable(job.log[Line])
        BY <2>0, <2>1, LoopFails DEF ExecInv
      <3>3. ExecTypeOK' /\ LoopInv'
        BY <1>1, <2>0, <3>1 DEF ExecInv, ExecTypeOK, LoopInv
      <3>4. ReplaysAsTransformed'
        BY <1>1, <1>2, <2>0, <3>1, <3>2 DEF ReplaysAsTransformed, ExecInv
      <3> QED
        BY <3>3, <3>4 DEF ExecInv
    <2>2. CASE ~(iter > MaxTransforms \/ ~job.defined \/ job.transform[m] = Throws)
      <3>1. at' = at /\ m' = job.transform[m] /\ iter' = iter + 1 /\ iter <= MaxTransforms
        BY <1>0, <1>4, <2>2 DEF TransformOnce
      <3>2. m \in Versions /\ m' \in Versions \cup {NoVersion}
        BY <1>0, <2>0, <2>2, <3>1 DEF Older, Values
      <3>3. ExecTypeOK'
        BY <1>0, <1>1, <2>0, <3>1, <3>2 DEF ExecInv, ExecTypeOK
      <3>4. m' = Orbit(job.log[Line])[iter + 1]
        <4>1. job.log[Line] \in Versions /\ m = OrbitOf(job, job.log[Line])[iter]
          BY <1>0, <2>0, OrbitIsOrbitOf DEF ExecInv, LoopInv
        <4>2. iter + 1 \in 1..MaxTransforms + 1 /\ (iter + 1) - 1 = iter
          BY <1>0, <3>1
        <4>3. OrbitOf(job, job.log[Line])[iter + 1] = Turn(job, m)
          BY <1>0, <4>1, <4>2, OrbitFacts
        <4> QED
          BY <1>0, <2>0, <3>1, <4>3, OrbitIsOrbitOf DEF Turn, Older, OlderIn
      <3>5. LoopInv'
        BY <1>1, <1>2, <2>0, <2>2, <3>1, <3>4 DEF ExecInv, LoopInv
      <3>6. ReplaysAsTransformed'
        BY <1>1, <1>2, <2>0, <3>1 DEF ReplaysAsTransformed, ExecInv
      <3> QED
        BY <3>3, <3>5, <3>6 DEF ExecInv
    <2> QED
      BY <2>1, <2>2
  <1>5. CASE RunAction
    <2>0. /\ at = "loop" /\ ~Older(m) /\ m' = m /\ iter' = iter
          /\ Line <= Len(job.log)
      BY <1>5 DEF RunAction, ExecInv, LoopInv
    <2>1. /\ Outcome(job.log[Line]) = m
          /\ Replayable(job.log[Line]) <=> m \notin job.rejects
      BY <2>0, LoopEnds DEF ExecInv
    <2>2. CASE m \in job.rejects
      <3>1. at' = "error" /\ ran' = ran /\ Line' = Line
        BY <1>5, <2>2 DEF RunAction, Line
      <3>2. ExecTypeOK' /\ LoopInv'
        BY <1>1, <2>0, <3>1 DEF ExecInv, ExecTypeOK, LoopInv
      <3>3. ReplaysAsTransformed'
        BY <1>1, <1>2, <2>1, <2>2, <3>1 DEF ReplaysAsTransformed, ExecInv
      <3> QED
        BY <3>2, <3>3 DEF ExecInv
    <2>3. CASE m \notin job.rejects
      <3>1. at' = "next" /\ ran' = Append(ran, m)
        BY <1>5, <2>3 DEF RunAction
      <3>2. m \in Versions \cup {NoVersion}
        BY DEF ExecInv, ExecTypeOK
      <3>3. /\ ran' \in Seq(Versions \cup {NoVersion}) /\ Len(ran') = Line
            /\ ran'[Line] = m /\ \A i \in 1..Len(ran) : ran'[i] = ran[i]
            /\ \A i \in 1..Line : i \in 1..Len(ran) \/ i = Line
        BY <1>0, <3>1, <3>2 DEF Line
      <3>4. ExecTypeOK' /\ LoopInv'
        BY <1>1, <2>0, <3>1, <3>3 DEF ExecInv, ExecTypeOK, LoopInv
      <3>5. ReplaysAsTransformed'
        BY <1>1, <1>2, <2>1, <2>3, <3>1, <3>3 DEF ReplaysAsTransformed, ExecInv
      <3> QED
        BY <3>4, <3>5 DEF ExecInv
    <2> QED
      BY <2>2, <2>3
  <1>6. CASE ReplayDone
    <2>1. /\ at' = "done" /\ m' = m /\ iter' = iter /\ ran' = ran /\ Len(ran) = Len(job.log)
      BY <1>0, <1>6 DEF ReplayDone, Line
    <2>2. ExecTypeOK' /\ LoopInv'
      BY <1>1, <2>1 DEF ExecInv, ExecTypeOK, LoopInv
    <2>3. ReplaysAsTransformed'
      BY <1>1, <1>2, <2>1 DEF ReplaysAsTransformed, ExecInv
    <2> QED
      BY <2>2, <2>3 DEF ExecInv
  <1>7. CASE UNCHANGED execVars
    <2>1. at' = at /\ m' = m /\ iter' = iter /\ ran' = ran /\ Line' = Line
      BY <1>7 DEF execVars, Line
    <2>2. ExecTypeOK' /\ LoopInv'
      BY <1>1, <1>2, <2>1 DEF ExecInv, ExecTypeOK, LoopInv
    <2>3. ReplaysAsTransformed'
      BY <1>1, <1>2, <2>1 DEF ReplaysAsTransformed, ExecInv
    <2> QED
      BY <2>2, <2>3 DEF ExecInv
  <1> QED
    BY <1>3, <1>4, <1>5, <1>6, <1>7 DEF ExecNext

\* The invariant holds in every state of every replay.
LEMMA SpecExecInv == ExecSpec => []ExecInv
  BY InitExecInv, NextExecInv, PTL DEF ExecSpec

\* Each action of the log runs once, in order, with the first version on the way
\* that is not older than cfg.version, and the replay stops at the first line that
\* does not get there within the limit or is rejected: arla.exec (index.js:718),
\* whatever transform does and whatever the limit is.
THEOREM ReplayTransforms == ExecSpec => []ReplaysAsTransformed
  <1>1. ExecInv => ReplaysAsTransformed
    BY DEF ExecInv
  <1> QED
    BY <1>1, SpecExecInv, PTL
-----------------------------------------------------------------------------
(* The composition.                                                        *)

\* Nothing is replayed before the DDL has run and nothing is answered before the
\* log has been replayed.
PhaseInv == /\ status # "up" => at = "next" /\ ran = <<>>
            /\ asked => at = "done"

\* A start of the runtime is a start of the schema and, once that is up, a replay.
LEMMA RuntimeParts == Spec => SchemaSpec /\ ExecSpec
  <1>1. Init => SchemaInit /\ ExecInit
    BY DEF Init
  <1>2. [Next]_vars => [SchemaNext]_schemaVars /\ [ExecNext]_execVars
    BY DEF Next, Start, Replay, Query, vars
  <1> QED
    BY <1>1, <1>2, PTL DEF Spec, SchemaSpec, ExecSpec

\* The types of the parts hold, and the phases of a start come one after the other.
THEOREM RuntimeTypeCorrect == Spec => []TypeOK
  <1>1. Init => PhaseInv
    BY DEF Init, ExecInit, PhaseInv
  <1>2. ASSUME PhaseInv, [Next]_vars PROVE PhaseInv'
    <2>1. CASE Start
      <3>1. at' = at /\ ran' = ran /\ asked' = asked /\ status # "up"
        BY <2>1 DEF Start, execVars, SchemaNext, DefineRoot, DefineUsed, DefineReturns, StartInit,
                    RunStmt, InitDone
      <3> QED
        BY <1>2, <3>1 DEF PhaseInv
    <2>2. CASE Replay
      <3>1. status = "up" /\ status' = status /\ asked' = asked /\ at \in {"next", "loop"}
        BY <2>2, Zenon DEF Replay, schemaVars, ExecNext, Begin, TransformOnce, RunAction, ReplayDone
      <3> QED
        BY <1>2, <3>1 DEF PhaseInv
    <2>3. CASE Query
      BY <1>2, <2>3 DEF PhaseInv, Query, schemaVars, execVars
    <2>4. CASE UNCHANGED vars
      BY <1>2, <2>4 DEF PhaseInv, vars, schemaVars, execVars
    <2> QED
      BY <1>2, <2>1, <2>2, <2>3, <2>4 DEF Next
  <1>3. Spec => []PhaseInv
    BY <1>1, <1>2, PTL DEF Spec
  <1>4. SchemaInv /\ ExecInv /\ PhaseInv => TypeOK
    BY DEF SchemaInv, ExecInv, PhaseInv, TypeOK
  <1> QED
    BY <1>3, <1>4, RuntimeParts, SpecSchemaInv, SpecExecInv, PTL

\* A start of the runtime defines exactly the classes that cfg.schema leads to, runs
\* the DDL of a sound application without error, and replays the log as transform
\* says.
THEOREM RuntimeStarts == Spec => [](DefinesReachable /\ DDLSucceeds /\ ReplaysAsTransformed)
  BY RuntimeParts, ExactlyReachableClasses, SoundSchemasStart, ReplayTransforms, PTL
=============================================================================
