----------------------------- MODULE Recursion -----------------------------
(***************************************************************************)
(* Induction over the natural numbers for sets, and what it gives:         *)
(* functions that are defined by recursion exist, and do what their        *)
(* definition says.                                                        *)
(*                                                                         *)
(* A recursive function of TLA+ is a CHOOSE, of which nothing is known     *)
(* until a function that satisfies the recursion has been shown to exist.  *)
(* The induction of the library is about operators; here it is about a     *)
(* set, and an instance names the set of the numbers of which a fact holds.*)
(*                                                                         *)
(* The second half is about machines that take one argument after the      *)
(* other, as postgres takes the mutations of a log: where a sequence of    *)
(* arguments leads, and when the arguments may come in another order.      *)
(***************************************************************************)
EXTENDS Naturals, Sequences, WellFoundedInduction, TLAPS

\* Every set of natural numbers that has an element has a least one.
LEMMA LeastNatural ==
  ASSUME NEW T, T \subseteq Nat, T # {}
  PROVE  \E n \in T : \A k \in T : n <= k
  <1> DEFINE Less == {ss \in Nat \X Nat : ss[1] < ss[2]}
  <1>1. IsWellFoundedOn(Less, Nat)
    BY NatLessThanWellFounded DEF OpToRel
  <1>2. PICK n \in T : \A k \in T : <<k, n>> \notin Less
    <2> HIDE DEF Less
    <2> QED
      BY <1>1, WFMin, Zenon
  <1>3. \A k \in T : ~(k < n)
    BY <1>2, Zenon
  <1> QED
    BY <1>3

\* Induction: a set that holds 0 and with each number the next holds all.
LEMMA Induction ==
  ASSUME NEW T, 0 \in T, \A n \in Nat : n \in T => n + 1 \in T
  PROVE  \A n \in Nat : n \in T
  <1> SUFFICES ASSUME Nat \ T # {} PROVE FALSE
    OBVIOUS
  <1>1. PICK n \in Nat \ T : \A k \in Nat \ T : n <= k
    BY LeastNatural, Zenon
  <1>2. n - 1 \in Nat /\ n - 1 \in T
    BY <1>1
  <1> QED
    BY <1>1, <1>2

\* Induction up to a bound.
LEMMA BoundedInduction ==
  ASSUME NEW n \in Nat, NEW T, 0 \in T, \A i \in 1..n : i - 1 \in T => i \in T
  PROVE  \A i \in 0..n : i \in T
  <1> DEFINE U == {i \in Nat : i <= n => i \in T}
  <1>1. \A i \in Nat : i \in U => i + 1 \in U
    <2> SUFFICES ASSUME NEW i \in Nat, i <= n => i \in T, i + 1 <= n PROVE i + 1 \in T
      OBVIOUS
    <2>1. i + 1 \in 1..n /\ (i + 1) - 1 = i
      OBVIOUS
    <2> QED
      BY <2>1
  <1>2. 0 \in U
    OBVIOUS
  <1>3. \A i \in Nat : i \in U
    <2> HIDE DEF U
    <2> QED
      BY <1>1, <1>2, Induction
  <1> QED
    BY <1>3

\* Induction down from a bound.
LEMMA DownwardInduction ==
  ASSUME NEW n \in Nat, NEW T, n \in T, \A i \in 1..n : i \in T => i - 1 \in T
  PROVE  \A i \in 0..n : i \in T
  <1> DEFINE U == {i \in 0..n : n - i \in T}
  <1>1. \A i \in 1..n : i - 1 \in U => i \in U
    <2> SUFFICES ASSUME NEW i \in 1..n, n - (i - 1) \in T PROVE n - i \in T
      OBVIOUS
    <2>1. n - (i - 1) \in 1..n /\ (n - (i - 1)) - 1 = n - i
      OBVIOUS
    <2> QED
      BY <2>1
  <1>2. 0 \in U
    BY n - 0 = n
  <1>3. \A i \in 0..n : i \in U
    <2> HIDE DEF U
    <2> QED
      BY <1>1, <1>2, BoundedInduction
  <1> SUFFICES ASSUME NEW i \in 0..n PROVE i \in T
    OBVIOUS
  <1>4. n - i \in 0..n /\ n - (n - i) = i
    OBVIOUS
  <1> QED
    BY <1>3, <1>4

\* n steps F of values of S, from e on; and values g that follow them.
Steps(S, e, n, F) == e \in S /\ n \in Nat /\ F \in [1..n -> [S -> S]]
Follows(S, e, n, F, g) ==
    g \in [0..n -> S] /\ g[0] = e /\ \A i \in 1..n : g[i] = F[i][g[i - 1]]

\* For every start and all steps there is a sequence of values that begins with
\* the one and follows the others.
LEMMA RecursionExists ==
  ASSUME NEW S, NEW e, NEW n, NEW F, Steps(S, e, n, F)
  PROVE  \E g : Follows(S, e, n, F, g)
  <1>0. e \in S /\ n \in Nat /\ F \in [1..n -> [S -> S]]
    BY DEF Steps
  <1> SUFFICES \E g \in [0..n -> S] : g[0] = e /\ \A i \in 1..n : g[i] = F[i][g[i - 1]]
    BY Zenon DEF Follows
  <1> DEFINE Upto(k, g) == g[0] = e /\ \A i \in 1..k : g[i] = F[i][g[i - 1]]
             T == {k \in 0..n : \E g \in [0..k -> S] : Upto(k, g)}
  <1>1. 0 \in T
    <2> DEFINE z == [i \in 0..0 |-> e]
    <2>1. z \in [0..0 -> S] /\ Upto(0, z)
      BY <1>0
    <2> HIDE DEF z, Upto
    <2> QED
      BY <1>0, <2>1
  <1>2. ASSUME NEW k \in 1..n, k - 1 \in T PROVE k \in T
    <2>1. PICK g \in [0..(k - 1) -> S] : Upto(k - 1, g)
      BY <1>2
    <2> DEFINE v == F[k][g[k - 1]]
               h == [i \in 0..k |-> IF i = k THEN v ELSE g[i]]
    <2>2. v \in S
      BY <1>0
    <2> HIDE DEF v
    <2>3. h \in [0..k -> S]
      BY <2>2
    <2>4. h[0] = e
      BY <2>1
    <2>5. ASSUME NEW i \in 1..k PROVE h[i] = F[i][h[i - 1]]
      <3>1. h[i - 1] = g[i - 1] /\ i \in 0..k
        BY <2>5
      <3>2. CASE i = k
        BY <3>1, <3>2 DEF v
      <3>3. CASE i # k
        <4>1. i \in 1..(k - 1) /\ h[i] = g[i]
          BY <3>1, <3>3
        <4> QED
          BY <2>1, <3>1, <4>1
      <3> QED
        BY <3>2, <3>3
    <2>6. Upto(k, h)
      BY <2>4, <2>5, Zenon
    <2> HIDE DEF h, Upto
    <2> QED
      BY <2>3, <2>6
  <1>3. n \in T
    <2> HIDE DEF T
    <2>1. \A k \in 0..n : k \in T
      BY <1>0, <1>1, <1>2, BoundedInduction, Zenon
    <2> QED
      BY <1>0, <2>1
  <1> QED
    BY <1>3

-----------------------------------------------------------------------------
(* A machine m starts at a point of Data(m), its Origin(m).  Move(m) says  *)
(* where an argument of Args(m) takes it from there, or that the argument  *)
(* is rejected, with Error(m).                                             *)
Data(m)   == m.data
Args(m)   == m.args
Error(m)  == m.error
Origin(m) == m.start
Move(m)   == m.move

Machine(m) ==
    /\ Error(m) \notin Data(m)
    /\ Origin(m) \in Data(m)
    /\ Move(m) \in [Data(m) \X Args(m) -> Data(m) \cup {Error(m)}]

\* The step from d with argument w; none is taken after a rejection.
After(m, d, w) == IF d = Error(m) THEN Error(m) ELSE Move(m)[<<d, w>>]

\* run holds the points that the arguments s lead through.
IsRun(m, s, run) ==
    run = [i \in 0..Len(s) |-> IF i = 0 THEN Origin(m) ELSE After(m, run[i - 1], s[i])]

\* Where the arguments s lead.
Result(m, s) ==
    LET run[i \in 0..Len(s)] == IF i = 0 THEN Origin(m) ELSE After(m, run[i - 1], s[i])
    IN  run[Len(s)]

\* Every sequence of arguments has a run.
LEMMA RunExists ==
  ASSUME NEW m, Machine(m),
         NEW s \in Seq(Args(m))
  PROVE  \E run \in [0..Len(s) -> Data(m) \cup {Error(m)}] : IsRun(m, s, run)
  <1>0. /\ Error(m) \notin Data(m) /\ Origin(m) \in Data(m)
        /\ Move(m) \in [Data(m) \X Args(m) -> Data(m) \cup {Error(m)}]
    BY DEF Machine
  <1> DEFINE X == Data(m) \cup {Error(m)}
             n == Len(s)
             G == [i \in 1..n |-> [d \in X |-> After(m, d, s[i])]]
  <1>1. n \in Nat /\ Origin(m) \in X
    BY <1>0
  <1>2. \A d \in X, i \in 1..n : After(m, d, s[i]) \in X
    BY <1>0 DEF After
  <1>3. G \in [1..n -> [X -> X]]
    BY <1>2
  <1>4. \A d \in X, i \in 1..n : G[i][d] = After(m, d, s[i])
    OBVIOUS
  <1> HIDE DEF G, n, X
  <1>5. PICK run \in [0..n -> X] :
           run[0] = Origin(m) /\ \A i \in 1..n : run[i] = G[i][run[i - 1]]
    <2>1. Steps(X, Origin(m), n, G)
      BY <1>1, <1>3 DEF Steps
    <2>2. \E g : Follows(X, Origin(m), n, G, g)
      BY <2>1, RecursionExists, Zenon
    <2> QED
      BY <2>2, Zenon DEF Follows
  <1>6. \A i \in 1..n : run[i] = After(m, run[i - 1], s[i])
    <2> SUFFICES ASSUME NEW i \in 1..n PROVE G[i][run[i - 1]] = After(m, run[i - 1], s[i])
      BY <1>5
    <2>1. i - 1 \in 0..n
      BY <1>1
    <2> QED
      BY <1>4, <2>1
  <1>7. run = [i \in 0..n |-> IF i = 0 THEN Origin(m) ELSE After(m, run[i - 1], s[i])]
    BY <1>1, <1>5, <1>6
  <1> QED
    BY <1>7, Zenon DEF IsRun, n, X

\* A run starts at Origin(m) and takes one argument after the other.
LEMMA RunTyped ==
  ASSUME NEW m, Machine(m),
         NEW s \in Seq(Args(m)), NEW run, IsRun(m, s, run)
  PROVE  /\ run \in [0..Len(s) -> Data(m) \cup {Error(m)}] /\ run[0] = Origin(m)
         /\ \A i \in 1..Len(s) : run[i] = After(m, run[i - 1], s[i])
  <1>0. /\ Error(m) \notin Data(m) /\ Origin(m) \in Data(m)
        /\ Move(m) \in [Data(m) \X Args(m) -> Data(m) \cup {Error(m)}]
    BY DEF Machine
  <1> DEFINE n == Len(s)
             T == {i \in 0..n : run[i] \in Data(m) \cup {Error(m)}}
  <1>1. n \in Nat /\ run[0] = Origin(m) /\ \A i \in 1..n : run[i] = After(m, run[i - 1], s[i])
    BY DEF IsRun
  <1>2. 0 \in T
    BY <1>1, <1>0
  <1>3. \A d \in Data(m) \cup {Error(m)}, i \in 1..n : After(m, d, s[i]) \in Data(m) \cup {Error(m)}
    BY <1>0 DEF After
  <1>4. \A i \in 1..n : i - 1 \in T => i \in T
    BY <1>1, <1>3
  <1>5. \A i \in 0..n : i \in T
    <2> HIDE DEF T, n
    <2> QED
      BY <1>1, <1>2, <1>4, BoundedInduction, Zenon
  <1>6. run = [i \in 0..n |-> run[i]]
    BY DEF IsRun
  <1> QED
    BY <1>1, <1>5, <1>6, Zenon

\* The result is the end of a run.
LEMMA ResultIsRun ==
  ASSUME NEW m, Machine(m),
         NEW s \in Seq(Args(m))
  PROVE  \E run : IsRun(m, s, run) /\ Result(m, s) = run[Len(s)]
  <1> DEFINE run == CHOOSE run : IsRun(m, s, run)
  <1>1. IsRun(m, s, run)
    BY RunExists
  <1>2. Result(m, s) = run[Len(s)]
    BY DEF Result, IsRun, After
  <1> HIDE DEF run
  <1> QED
    BY <1>1, <1>2

\* Two runs agree as long as their sequences do.
LEMMA RunsAgree ==
  ASSUME NEW m, Machine(m),
         NEW s \in Seq(Args(m)), NEW t \in Seq(Args(m)), NEW f, NEW g,
         IsRun(m, s, f), IsRun(m, t, g),
         NEW k \in Nat, k <= Len(s), k <= Len(t), \A i \in 1..k : s[i] = t[i]
  PROVE  \A i \in 0..k : f[i] = g[i]
  <1> DEFINE T == {i \in 0..k : f[i] = g[i]}
  <1>1. 0 \in T
    BY RunTyped
  <1>2. ASSUME NEW i \in 1..k, i - 1 \in T PROVE i \in T
    <2>1. i \in 1..Len(s) /\ i \in 1..Len(t)
      OBVIOUS
    <2>2. f[i] = After(m, f[i - 1], s[i]) /\ g[i] = After(m, g[i - 1], t[i])
      BY <2>1, RunTyped
    <2> QED
      BY <1>2, <2>2
  <1> HIDE DEF T
  <1>3. \A i \in 0..k : i \in T
    BY <1>1, <1>2, BoundedInduction, Zenon
  <1> QED
    BY <1>3 DEF T

\* The run of a longer sequence passes through the end of the run of a prefix.
LEMMA ResultAt ==
  ASSUME NEW m, Machine(m),
         NEW s \in Seq(Args(m)), NEW run, IsRun(m, s, run), NEW t \in Seq(Args(m)),
         Len(t) <= Len(s), \A i \in 1..Len(t) : s[i] = t[i]
  PROVE  Result(m, t) = run[Len(t)]
  <1>1. PICK f : IsRun(m, t, f) /\ Result(m, t) = f[Len(t)]
    BY ResultIsRun
  <1>2. Len(t) \in Nat /\ Len(t) \in 0..Len(t)
    OBVIOUS
  <1>3. \A i \in 0..Len(t) : run[i] = f[i]
    BY <1>1, <1>2, RunsAgree
  <1> QED
    BY <1>1, <1>2, <1>3

\* Nothing leaves the machine where it starts.
LEMMA ResultEmpty ==
  ASSUME NEW m, Machine(m)
  PROVE  Result(m, <<>>) = Origin(m)
  <1>1. <<>> \in Seq(Args(m)) /\ Len(<<>>) = 0
    OBVIOUS
  <1> DEFINE s == <<>>
  <1> HIDE DEF s
  <1>2. s \in Seq(Args(m))
    BY <1>1 DEF s
  <1>3. PICK f : IsRun(m, s, f) /\ Result(m, s) = f[Len(s)]
    BY <1>2, ResultIsRun, Zenon
  <1>4. f[0] = Origin(m)
    BY <1>2, <1>3, RunTyped
  <1> QED
    BY <1>1, <1>3, <1>4 DEF s

\* One argument more at the end is one step more.
LEMMA ResultAppend ==
  ASSUME NEW m, Machine(m),
         NEW s \in Seq(Args(m)), NEW w \in Args(m)
  PROVE  /\ Result(m, s) \in Data(m) \cup {Error(m)}
         /\ Result(m, Append(s, w)) = After(m, Result(m, s), w)
  <1> DEFINE t == Append(s, w)
             n == Len(s)
  <1>1. /\ t \in Seq(Args(m)) /\ n \in Nat /\ Len(t) = n + 1 /\ t[n + 1] = w
        /\ \A i \in 1..n : t[i] = s[i]
    OBVIOUS
  <1>2. PICK f : IsRun(m, t, f) /\ Result(m, t) = f[Len(t)]
    BY <1>1, ResultIsRun, Zenon
  <1> HIDE DEF t
  <1>3. Result(m, s) = f[n]
    BY <1>1, <1>2, ResultAt
  <1> HIDE DEF n
  <1>4. f[n + 1] = After(m, f[(n + 1) - 1], t[n + 1]) /\ n \in 0..Len(t) /\ (n + 1) - 1 = n
    BY <1>1, <1>2, RunTyped
  <1>5. f[n] \in Data(m) \cup {Error(m)}
    <2>1. f \in [0..Len(t) -> Data(m) \cup {Error(m)}]
      BY <1>1, <1>2, RunTyped
    <2> QED
      BY <1>4, <2>1, Zenon
  <1> QED
    BY <1>1, <1>2, <1>3, <1>4, <1>5 DEF t

\* When a run comes to its end so does that of any prefix.
LEMMA ResultPrefix ==
  ASSUME NEW m, Machine(m),
         NEW s \in Seq(Args(m)), NEW n \in 0..Len(s), Result(m, s) \in Data(m)
  PROVE  Result(m, SubSeq(s, 1, n)) \in Data(m)
  <1>0. /\ Error(m) \notin Data(m) /\ Origin(m) \in Data(m)
        /\ Move(m) \in [Data(m) \X Args(m) -> Data(m) \cup {Error(m)}]
    BY DEF Machine
  <1>1. PICK f : IsRun(m, s, f) /\ Result(m, s) = f[Len(s)]
    BY ResultIsRun
  <1> DEFINE t == SubSeq(s, 1, n)
             T == {i \in 0..Len(s) : f[i] \in Data(m)}
  <1>2. t \in Seq(Args(m)) /\ Len(t) = n /\ Len(t) <= Len(s) /\ \A i \in 1..n : s[i] = t[i]
    OBVIOUS
  <1>3. Result(m, t) = f[n]
    <2> HIDE DEF t
    <2> QED
      BY <1>1, <1>2, ResultAt
  <1>4. Len(s) \in T /\ Len(s) \in Nat
    BY <1>1
  <1>5. ASSUME NEW i \in 1..Len(s), i \in T PROVE i - 1 \in T
    <2>1. f[i] = After(m, f[i - 1], s[i]) /\ i - 1 \in 0..Len(s)
      BY <1>1, RunTyped
    <2>2. f[i - 1] \in Data(m) \cup {Error(m)}
      BY <1>1, <2>1, RunTyped
    <2> QED
      BY <1>5, <2>1, <2>2, <1>0 DEF After
  <1>6. \A i \in 0..Len(s) : i \in T
    <2> HIDE DEF T
    <2> QED
      BY <1>4, <1>5, DownwardInduction
  <1> QED
    BY <1>3, <1>6

-----------------------------------------------------------------------------
(* A set of arguments leads from a point to another when a machine that is *)
(* given each of them once, in some order, goes there without a rejection. *)

\* The n arguments u, one for each member of U, take d to e through the points g.
Chain(m, d, e, U, n, u, g) ==
    /\ g[0] = d /\ g[n] = e
    /\ \A i \in 1..n : g[i] = Move(m)[<<g[i - 1], u[i]>>]
    /\ \A i, j \in 1..n : u[i] = u[j] => i = j
    /\ \A x \in U : \E i \in 1..n : u[i] = x

\* The members of U lead from d to e.
Leads(m, d, e, U) ==
    \E n \in Nat : \E u \in [1..n -> U], g \in [0..n -> Data(m)] : Chain(m, d, e, U, n, u, g)

\* When r is accepted after x it is accepted before x, with the same result of both.
Commute(m) ==
    \A d \in Data(m), x, r \in Args(m) :
        /\ x # r
        /\ Move(m)[<<d, x>>] # Error(m)
        /\ Move(m)[<<Move(m)[<<d, x>>], r>>] # Error(m)
        => /\ Move(m)[<<d, r>>] # Error(m)
           /\ Move(m)[<<Move(m)[<<d, r>>], x>>] = Move(m)[<<Move(m)[<<d, x>>], r>>]

\* No arguments lead nowhere else.
LEMMA LeadsNone ==
  ASSUME NEW m, NEW d \in Data(m)
  PROVE  /\ Leads(m, d, d, {})
         /\ \A e : Leads(m, d, e, {}) => e = d
  <1>1. Leads(m, d, d, {})
    <2>1. [i \in 0..0 |-> d] \in [0..0 -> Data(m)] /\ [i \in 1..0 |-> d] \in [1..0 -> {}]
      OBVIOUS
    <2>2. 1..0 = {} /\ [i \in 0..0 |-> d][0] = d /\ 0 \in Nat
      OBVIOUS
    <2> DEFINE g == [i \in 0..0 |-> d]
               u == [i \in 1..0 |-> d]
    <2> HIDE DEF g, u
    <2>3. Chain(m, d, d, {}, 0, u, g)
      BY <2>2 DEF Chain, g
    <2> QED
      BY <2>1, <2>2, <2>3 DEF Leads, g, u
  <1>2. ASSUME NEW e, Leads(m, d, e, {}) PROVE e = d
    <2>0. PICK n \in Nat :
             \E u \in [1..n -> {}], g \in [0..n -> Data(m)] : Chain(m, d, e, {}, n, u, g)
      BY <1>2 DEF Leads
    <2>1. PICK u \in [1..n -> {}], g \in [0..n -> Data(m)] : Chain(m, d, e, {}, n, u, g)
      BY <2>0
    <2>2. n = 0
      <3> SUFFICES ASSUME n # 0 PROVE FALSE
        OBVIOUS
      <3>1. 1 \in 1..n
        OBVIOUS
      <3>2. u[1] \in {}
        BY <3>1
      <3> QED
        BY <3>2
    <2> QED
      BY <2>1, <2>2 DEF Chain
  <1> QED
    BY <1>1, <1>2

\* One argument more.
LEMMA LeadsMore ==
  ASSUME NEW m, NEW d \in Data(m), NEW e \in Data(m), NEW U, Leads(m, d, e, U), NEW w, w \notin U,
         Move(m)[<<e, w>>] \in Data(m)
  PROVE  Leads(m, d, Move(m)[<<e, w>>], U \cup {w})
  <1>0. PICK n \in Nat : \E u \in [1..n -> U], g \in [0..n -> Data(m)] : Chain(m, d, e, U, n, u, g)
    BY DEF Leads
  <1>1. PICK u \in [1..n -> U], g \in [0..n -> Data(m)] : Chain(m, d, e, U, n, u, g)
    BY <1>0
  <1> DEFINE v == [i \in 1..(n + 1) |-> IF i = n + 1 THEN w ELSE u[i]]
             h == [i \in 0..(n + 1) |-> IF i = n + 1 THEN Move(m)[<<e, w>>] ELSE g[i]]
  <1>2. /\ \A i \in 1..(n + 1) : i = n + 1 \/ i \in 1..n
        /\ \A i \in 0..(n + 1) : i = n + 1 \/ i \in 0..n
        /\ \A i \in 1..n : i \in 1..(n + 1) /\ i # n + 1 /\ i - 1 \in 0..n /\ i - 1 # n + 1
        /\ n + 1 \in Nat /\ n + 1 \in 1..(n + 1) /\ n \in 0..n /\ n + 1 # 0 /\ n # n + 1
        /\ (n + 1) - 1 = n
    OBVIOUS
  <1>3. v \in [1..(n + 1) -> U \cup {w}]
    BY <1>2
  <1>4. h \in [0..(n + 1) -> Data(m)]
    BY <1>2
  <1>5. /\ v[n + 1] = w /\ \A i \in 1..n : v[i] = u[i]
        /\ h[n + 1] = Move(m)[<<e, w>>] /\ \A i \in 0..n : h[i] = g[i]
        /\ \A i \in 1..n : u[i] \in U
    <2>1. v[n + 1] = w /\ \A i \in 1..n : v[i] = u[i]
      BY <1>2
    <2>2. \A i \in 0..(n + 1) : h[i] = IF i = n + 1 THEN Move(m)[<<e, w>>] ELSE g[i]
      OBVIOUS
    <2>4. h[n + 1] = Move(m)[<<e, w>>] /\ \A i \in 0..n : h[i] = g[i]
      <3>1. n + 1 \in 0..(n + 1) /\ \A i \in 0..n : i \in 0..(n + 1) /\ i # n + 1
        OBVIOUS
      <3> HIDE DEF h
      <3> QED
        BY <2>2, <3>1, Zenon
    <2>3. \A i \in 1..n : u[i] \in U
      OBVIOUS
    <2> QED
      BY <2>1, <2>3, <2>4
  <1> HIDE DEF v, h
  <1>6. Chain(m, d, Move(m)[<<e, w>>], U \cup {w}, n + 1, v, h)
    <2>1. h[0] = d /\ h[n + 1] = Move(m)[<<e, w>>]
      <3>1. 0 \in 0..n /\ g[0] = d
        BY <1>1 DEF Chain
      <3> QED
        BY <1>5, <3>1
    <2>2. ASSUME NEW i \in 1..(n + 1) PROVE h[i] = Move(m)[<<h[i - 1], v[i]>>]
      <3>1. CASE i = n + 1
        <4>1. h[n] = e /\ i - 1 = n
          BY <1>1, <1>2, <1>5, <3>1 DEF Chain
        <4> QED
          BY <1>5, <3>1, <4>1, Zenon
      <3>2. CASE i \in 1..n
        <4>1. i - 1 \in 0..n /\ i \in 0..n
          BY <3>2
        <4> QED
          BY <1>1, <1>5, <3>2, <4>1 DEF Chain
      <3> QED
        BY <1>2, <3>1, <3>2
    <2>3. \A i, j \in 1..(n + 1) : v[i] = v[j] => i = j
      <3>1. /\ \A i, j \in 1..n : u[i] = u[j] => i = j
            /\ \A i \in 1..n : u[i] # w
        BY <1>1, <1>5, Zenon DEF Chain
      <3>2. \A i \in 1..n : v[i] = u[i] /\ v[i] # w
        BY <1>5, <3>1
      <3> QED
        BY <1>2, <1>5, <3>1, <3>2
    <2>4. ASSUME NEW x \in U \cup {w} PROVE \E i \in 1..(n + 1) : v[i] = x
      <3>1. CASE x = w
        BY <1>2, <1>5, <3>1
      <3>2. CASE x \in U
        <4>1. PICK i \in 1..n : u[i] = x
          BY <1>1, <3>2 DEF Chain
        <4> QED
          BY <1>2, <1>5, <4>1
      <3> QED
        BY <3>1, <3>2
    <2> QED
      BY <2>1, <2>2, <2>3, <2>4 DEF Chain
  <1> QED
    BY <1>2, <1>3, <1>4, <1>6, Zenon DEF Leads

\* An argument from the middle may be taken first, if arguments commute.
LEMMA LeadsFirst ==
  ASSUME NEW m, Machine(m),
         NEW d \in Data(m), NEW e, NEW U \in SUBSET Args(m), Leads(m, d, e, U), NEW w \in U,
         Commute(m) \/ U = {w}
  PROVE  /\ Move(m)[<<d, w>>] \in Data(m)
         /\ Leads(m, Move(m)[<<d, w>>], e, U \ {w})
  <1>0. PICK n \in Nat : \E u \in [1..n -> U], g \in [0..n -> Data(m)] : Chain(m, d, e, U, n, u, g)
    BY DEF Leads
  <1>1. PICK u \in [1..n -> U], g \in [0..n -> Data(m)] : Chain(m, d, e, U, n, u, g)
    BY <1>0
  <1>2. PICK k \in 1..n : u[k] = w
    BY <1>1 DEF Chain
  <1> DEFINE T == {i \in 0..(k - 1) :
                     /\ Move(m)[<<g[i], w>>] \in Data(m)
                     /\ i < k - 1 =>
                          Move(m)[<<Move(m)[<<g[i], w>>], u[i + 1]>>] = Move(m)[<<g[i + 1], w>>]}
  <1>3. k - 1 \in Nat /\ k \in Nat /\ k <= n /\ k - 1 \in 0..(k - 1)
    OBVIOUS
  <1>4. \A i \in 1..n : /\ g[i] = Move(m)[<<g[i - 1], u[i]>>] /\ u[i] \in Args(m) /\ u[i] \in U
                        /\ g[i] \in Data(m) /\ g[i - 1] \in Data(m)
                        /\ u[i] = w => i = k
    <2> SUFFICES ASSUME NEW i \in 1..n
                 PROVE  /\ g[i] = Move(m)[<<g[i - 1], u[i]>>] /\ u[i] \in U
                        /\ g[i] \in Data(m) /\ g[i - 1] \in Data(m)
                        /\ u[i] = w => i = k
      OBVIOUS
    <2>1. i \in 0..n /\ i - 1 \in 0..n
      OBVIOUS
    <2> QED
      BY <1>1, <1>2, <2>1 DEF Chain
  <1>5. k - 1 \in T
    <2>1. Move(m)[<<g[k - 1], w>>] = g[k] /\ g[k] \in Data(m)
      BY <1>2, <1>4
    <2>2. k - 1 \in 0..(k - 1) /\ ~(k - 1 < k - 1)
      BY <1>3
    <2> QED
      BY <2>1, <2>2
  <1>6. ASSUME NEW i \in 1..(k - 1), i \in T PROVE i - 1 \in T
    <2>1. /\ i \in 1..n /\ i - 1 \in 0..(k - 1) /\ i # k /\ (i - 1) + 1 = i
          /\ i - 1 < k - 1
      BY <1>3
    <2>2. Move(m)[<<g[i], w>>] \in Data(m)
      BY <1>6
    <2>3. /\ g[i] = Move(m)[<<g[i - 1], u[i]>>] /\ u[i] \in Args(m) /\ g[i] \in Data(m)
          /\ g[i - 1] \in Data(m) /\ u[i] # w /\ u[i] \in U
      BY <1>4, <2>1
    <2>4. /\ Commute(m) /\ w \in Args(m) /\ Error(m) \notin Data(m)
          /\ Move(m) \in [Data(m) \X Args(m) -> Data(m) \cup {Error(m)}]
      BY <2>3 DEF Machine
    <2>5. /\ Move(m)[<<g[i - 1], w>>] # Error(m)
          /\ Move(m)[<<Move(m)[<<g[i - 1], w>>], u[i]>>] = Move(m)[<<g[i], w>>]
      <3>1. /\ Move(m)[<<g[i - 1], u[i]>>] # Error(m)
            /\ Move(m)[<<Move(m)[<<g[i - 1], u[i]>>], w>>] # Error(m)
        BY <2>2, <2>3, <2>4
      <3>2. /\ Move(m)[<<g[i - 1], w>>] # Error(m)
            /\ Move(m)[<<Move(m)[<<g[i - 1], w>>], u[i]>>]
                 = Move(m)[<<Move(m)[<<g[i - 1], u[i]>>], w>>]
        <4> HIDE DEF T
        <4> QED
          BY <2>3, <2>4, <3>1 DEF Commute
      <3> QED
        BY <2>3, <3>2, Zenon
    <2>6. Move(m)[<<g[i - 1], w>>] \in Data(m)
      BY <2>3, <2>4, <2>5
    <2> QED
      BY <2>1, <2>5, <2>6, Zenon
  <1>7. \A i \in 0..(k - 1) : i \in T
    <2> HIDE DEF T
    <2> QED
      BY <1>3, <1>5, <1>6, DownwardInduction
  <1>8. \A i \in 0..(k - 1) :
           /\ Move(m)[<<g[i], w>>] \in Data(m)
           /\ i < k - 1 => Move(m)[<<Move(m)[<<g[i], w>>], u[i + 1]>>] = Move(m)[<<g[i + 1], w>>]
    BY <1>7
  <1>9. g[k] = Move(m)[<<g[k - 1], w>>]
    BY <1>2, <1>4
  <1> HIDE DEF T
  <1> DEFINE v == [i \in 1..(n - 1) |-> IF i < k THEN u[i] ELSE u[i + 1]]
             h == [i \in 0..(n - 1) |-> IF i < k THEN Move(m)[<<g[i], w>>] ELSE g[i + 1]]
  <1>10. v \in [1..(n - 1) -> U \ {w}]
    <2> SUFFICES ASSUME NEW i \in 1..(n - 1)
                 PROVE  (IF i < k THEN u[i] ELSE u[i + 1]) \in U \ {w}
      OBVIOUS
    <2>1. i \in 1..n /\ i + 1 \in 1..n
      OBVIOUS
    <2>2. CASE i < k
      <3>1. i # k
        BY <2>2
      <3> QED
        BY <1>4, <2>1, <2>2, <3>1, Zenon
    <2>3. CASE ~(i < k)
      <3>1. i + 1 # k
        BY <2>3
      <3> QED
        BY <1>4, <2>1, <2>3, <3>1, Zenon
    <2> QED
      BY <2>2, <2>3
  <1>11. h \in [0..(n - 1) -> Data(m)]
    <2> SUFFICES ASSUME NEW i \in 0..(n - 1)
                 PROVE  (IF i < k THEN Move(m)[<<g[i], w>>] ELSE g[i + 1]) \in Data(m)
      OBVIOUS
    <2>1. i + 1 \in 1..n /\ (i < k => i \in 0..(k - 1))
      OBVIOUS
    <2> QED
      BY <1>4, <1>8, <2>1, Zenon
  <1>12. /\ \A i \in 1..(n - 1) : v[i] = IF i < k THEN u[i] ELSE u[i + 1]
         /\ \A i \in 0..(n - 1) : h[i] = IF i < k THEN Move(m)[<<g[i], w>>] ELSE g[i + 1]
    OBVIOUS
  <1> HIDE DEF v, h
  <1>13. h[0] = Move(m)[<<d, w>>] /\ Move(m)[<<d, w>>] \in Data(m)
    <2>1. 0 \in 0..(n - 1) /\ 0 < k /\ 0 \in 0..(k - 1)
      OBVIOUS
    <2> QED
      BY <1>1, <1>8, <1>12, <2>1, Zenon DEF Chain
  <1>14. h[n - 1] = e
    <2>1. n - 1 \in 0..(n - 1) /\ (n - 1) + 1 = n
      OBVIOUS
    <2>2. CASE n - 1 < k
      <3>1. n = k
        BY <2>2
      <3> QED
        BY <1>1, <1>9, <1>12, <2>1, <2>2, <3>1 DEF Chain
    <2>3. CASE ~(n - 1 < k)
      BY <1>1, <1>12, <2>1, <2>3, Zenon DEF Chain
    <2> QED
      BY <2>2, <2>3
  <1>15. ASSUME NEW i \in 1..(n - 1) PROVE h[i] = Move(m)[<<h[i - 1], v[i]>>]
    <2>1. /\ i - 1 \in 0..(n - 1) /\ i \in 0..(n - 1) /\ i + 1 \in 1..n
          /\ (i - 1) + 1 = i /\ (i + 1) - 1 = i
      OBVIOUS
    <2>2. CASE i < k
      <3>1. i - 1 \in 0..(k - 1) /\ i - 1 < k - 1 /\ i - 1 < k
        BY <2>2
      <3>2. h[i] = Move(m)[<<g[i], w>>] /\ h[i - 1] = Move(m)[<<g[i - 1], w>>] /\ v[i] = u[i]
        BY <1>12, <2>1, <2>2, <3>1
      <3>3. Move(m)[<<Move(m)[<<g[i - 1], w>>], u[i]>>] = Move(m)[<<g[i], w>>]
        BY <1>8, <2>1, <3>1
      <3> QED
        BY <3>2, <3>3
    <2>3. CASE i = k
      <3>0. ~(i < k) /\ i - 1 < k
        BY <2>3
      <3>1. h[i] = g[i + 1] /\ h[i - 1] = Move(m)[<<g[i - 1], w>>] /\ v[i] = u[i + 1]
        BY <1>12, <2>1, <3>0, Zenon
      <3>2. h[i - 1] = g[i]
        BY <1>9, <2>3, <3>1, Zenon
      <3> QED
        BY <1>4, <2>1, <3>1, <3>2
    <2>4. CASE i > k
      <3>0. ~(i < k) /\ ~(i - 1 < k)
        BY <2>4
      <3>1. h[i] = g[i + 1] /\ h[i - 1] = g[i] /\ v[i] = u[i + 1]
        BY <1>12, <2>1, <3>0, Zenon
      <3> QED
        BY <1>4, <2>1, <3>1
    <2>5. i < k \/ i = k \/ i > k
      OBVIOUS
    <2> QED
      BY <2>2, <2>3, <2>4, <2>5, Zenon
  <1>16. \A i, j \in 1..(n - 1) : v[i] = v[j] => i = j
    <2> SUFFICES ASSUME NEW i \in 1..(n - 1), NEW j \in 1..(n - 1), v[i] = v[j] PROVE i = j
      OBVIOUS
    <2>1. PICK a \in 1..n : a = IF i < k THEN i ELSE i + 1
      OBVIOUS
    <2>2. PICK b \in 1..n : b = IF j < k THEN j ELSE j + 1
      OBVIOUS
    <2>3. u[a] = v[i] /\ u[b] = v[j]
      BY <1>12, <2>1, <2>2
    <2>4. a = b
      <3>1. \A p, q \in 1..n : u[p] = u[q] => p = q
        BY <1>1 DEF Chain
      <3>2. u[a] = u[b]
        BY <2>3
      <3> QED
        BY <3>1, <3>2
    <2> QED
      BY <2>1, <2>2, <2>4
  <1>17. \A x \in U \ {w} : \E i \in 1..(n - 1) : v[i] = x
    <2> SUFFICES ASSUME NEW x \in U \ {w} PROVE \E i \in 1..(n - 1) : v[i] = x
      OBVIOUS
    <2>1. PICK a \in 1..n : u[a] = x
      BY <1>1 DEF Chain
    <2>2. a # k
      BY <1>2, <2>1
    <2>3. CASE a < k
      <3>1. a \in 1..(n - 1)
        BY <2>3
      <3> QED
        BY <1>12, <2>1, <2>3, <3>1
    <2>4. CASE a > k
      <3>1. a - 1 \in 1..(n - 1) /\ ~(a - 1 < k) /\ (a - 1) + 1 = a
        BY <2>4
      <3> QED
        BY <1>12, <2>1, <3>1, Zenon
    <2> QED
      BY <2>2, <2>3, <2>4
  <1>18. n - 1 \in Nat
    OBVIOUS
  <1>19. Chain(m, Move(m)[<<d, w>>], e, U \ {w}, n - 1, v, h)
    BY <1>13, <1>14, <1>15, <1>16, <1>17, Zenon DEF Chain
  <1> QED
    BY <1>10, <1>11, <1>13, <1>18, <1>19, Zenon DEF Leads
=============================================================================
