--------------------------- MODULE ConnPoolProofs ---------------------------
(***************************************************************************)
(* Proofs, for any number of readers, connections and crashes, that the    *)
(* pool neither leaks nor shares a connection, that a reader in cond.Wait  *)
(* is never forgotten as long as connecting works, and that a crash of the *)
(* backends costs at most MaxConnections reads.                            *)
(*                                                                         *)
(* The invariant says that a connection of the pool is in one place        *)
(* (PoolInv), counts the dead connections that are still in the pool       *)
(* against the crashes (CostInv), and that the queue of the condition      *)
(* variable holds each waiting reader once (QueueInv).                     *)
(***************************************************************************)
EXTENDS ConnPool, FiniteSetTheorems, TLAPS

PoolInv ==
    /\ \A i, j \in 1..Len(available) : available[i] = available[j] => i = j
    /\ \A i \in 1..Len(available) : available[i] \in all
    /\ \A u \in Borrowers : conn[u] \in all /\ \A i \in 1..Len(available) : available[i] # conn[u]
    /\ \A u, v \in Borrowers : conn[u] = conn[v] => u = v
    /\ \A c \in all : \/ \E i \in 1..Len(available) : available[i] = c
                      \/ \E u \in Borrowers : conn[u] = c

CountInv ==
    /\ IsFiniteSet(Borrowers)
    /\ Cardinality(all) = Len(available) + Cardinality(Borrowers)
    /\ Cardinality(all) <= MaxConnections

CostInv == broken + Cardinality(all \cap gone) <= crashes * MaxConnections

QueueInv ==
    /\ \A i \in 1..Len(waiters) : at[waiters[i]] = "waiting"
    /\ \A i, j \in 1..Len(waiters) : waiters[i] = waiters[j] => i = j

IndInv == TypeOK /\ PoolInv /\ CountInv /\ CostInv /\ QueueInv /\ NoLostWakeup
-----------------------------------------------------------------------------
\* Append adds an element at the end.
LEMMA AppendFacts ==
  ASSUME NEW S, NEW q \in Seq(S), NEW e \in S
  PROVE  /\ Append(q, e) \in Seq(S)
         /\ Len(Append(q, e)) = Len(q) + 1 /\ Len(q) \in Nat
         /\ \A j \in 1..Len(q) : Append(q, e)[j] = q[j] /\ j \in 1..(Len(q) + 1)
         /\ Append(q, e)[Len(q) + 1] = e /\ Len(q) + 1 \in 1..(Len(q) + 1)
         /\ \A j \in 1..(Len(q) + 1) : j \in 1..Len(q) \/ j = Len(q) + 1
  OBVIOUS

\* A sequence without its last element.
LEMMA FrontFacts ==
  ASSUME NEW S, NEW q \in Seq(S), q # <<>>
  PROVE  /\ Len(q) \in Nat /\ Len(q) > 0 /\ Len(q) \in 1..Len(q) /\ q[Len(q)] \in S
         /\ SubSeq(q, 1, Len(q) - 1) \in Seq(S)
         /\ Len(SubSeq(q, 1, Len(q) - 1)) = Len(q) - 1
         /\ \A j \in 1..(Len(q) - 1) : /\ SubSeq(q, 1, Len(q) - 1)[j] = q[j]
                                       /\ j \in 1..Len(q) /\ j # Len(q)
         /\ \A j \in 1..Len(q) : j \in 1..(Len(q) - 1) \/ j = Len(q)
  <1>1. Len(q) \in Nat /\ Len(q) > 0
    OBVIOUS
  <1>2. Len(q) \in 1..Len(q) /\ Len(q) - 1 \in 0..Len(q)
    BY <1>1
  <1>3. q[Len(q)] \in S
    BY <1>2
  <1> DEFINE n == Len(q) - 1
  <1>4. /\ SubSeq(q, 1, n) \in Seq(S) /\ Len(SubSeq(q, 1, n)) = n
        /\ \A j \in 1..n : SubSeq(q, 1, n)[j] = q[j]
    <2>1. n \in 0..Len(q)
      BY <1>2
    <2> HIDE DEF n
    <2> QED
      BY <2>1
  <1>5. /\ \A j \in 1..(Len(q) - 1) : j \in 1..Len(q) /\ j # Len(q)
        /\ \A j \in 1..Len(q) : j \in 1..(Len(q) - 1) \/ j = Len(q)
    BY <1>1
  <1> QED
    BY <1>1, <1>2, <1>3, <1>4, <1>5

\* Finite sets of connections, and their numbers.
LEMMA PoolFinite ==
  ASSUME TypeOK
  PROVE  /\ \A S \in SUBSET Conns : IsFiniteSet(S) /\ Cardinality(S) \in Nat
         /\ IsFiniteSet(all) /\ Cardinality(all) \in Nat
         /\ Cardinality(all \cap gone) \in Nat
         /\ MaxConnections \in Nat /\ MaxConnections > 0
         /\ broken \in Nat /\ crashes \in Nat
  <1>1. \A S \in SUBSET Conns : IsFiniteSet(S) /\ Cardinality(S) \in Nat
    BY PoolAssumption, FS_Subset, FS_CardinalityType
  <1>2. all \in SUBSET Conns /\ (all \cap gone) \in SUBSET Conns
    BY DEF TypeOK
  <1> QED
    BY <1>1, <1>2, PoolAssumption DEF TypeOK

\* A pool with room can have one more connection.
LEMMA RoomForOne ==
  ASSUME TypeOK, Cardinality(all) < MaxConnections
  PROVE  (CHOOSE c \in Conns : c \notin all) \in Conns \ all
  <1>1. \E c \in Conns : c \notin all
    <2> SUFFICES ASSUME Conns \subseteq all PROVE FALSE
      OBVIOUS
    <2>1. all = Conns
      BY Zenon DEF TypeOK
    <2>2. Cardinality(Conns) \in Nat
      BY PoolAssumption, FS_CardinalityType
    <2> QED
      BY <2>1, <2>2, PoolAssumption
  <1> QED
    BY <1>1

\* NewConnPool has made one connection.
LEMMA InitIndInv == Init => IndInv
  <1> SUFFICES ASSUME Init PROVE IndInv
    OBVIOUS
  <1> DEFINE c == CHOOSE c \in Conns : TRUE
  <1>1. c \in Conns
    <2>1. Conns # {}
      BY PoolAssumption, FS_EmptySet
    <2> QED
      BY <2>1
  <1> HIDE DEF c
  <1>2. /\ available = <<c>> /\ all = {c} /\ Len(available) = 1 /\ available[1] = c
        /\ available \in Seq(Conns) /\ \A i \in 1..Len(available) : i = 1
    BY <1>1 DEF Init, c
  <1>3. Borrowers = {} /\ waiters = <<>> /\ Len(waiters) = 0 /\ waiters \in Seq(Readers)
    BY DEF Init, Borrowers
  <1>4. crashes \in 0..MaxCrashes /\ broken \in Nat /\ broken = 0 /\ crashes = 0
    BY PoolAssumption DEF Init
  <1>5. TypeOK
    BY <1>1, <1>2, <1>3, <1>4, Zenon DEF Init, TypeOK
  <1>6. PoolInv
    BY <1>2, <1>3 DEF PoolInv
  <1>7. CountInv
    <2>1. Cardinality({c}) = 1 /\ IsFiniteSet({}) /\ Cardinality({}) = 0
      BY FS_EmptySet, FS_Singleton
    <2> QED
      BY <1>2, <1>3, <2>1, PoolAssumption DEF CountInv
  <1>8. CostInv
    <2>1. all \cap gone = {}
      BY DEF Init
    <2> QED
      BY <1>4, <2>1, FS_EmptySet, PoolAssumption DEF CostInv
  <1>9. QueueInv /\ NoLostWakeup
    BY <1>3 DEF QueueInv, NoLostWakeup
  <1> QED
    BY <1>5, <1>6, <1>7, <1>8, <1>9 DEF IndInv
-----------------------------------------------------------------------------
\* A connection is lent to one more reader.
LEMMA LendFacts ==
  ASSUME TypeOK, IsFiniteSet(Borrowers), NEW u \in Readers, at[u] \in {"idle", "woken"},
         NEW c \in Conns, Lend(u, c)
  PROVE  /\ at' \in [Readers -> {"idle", "done", "error"} \cup Pending]
         /\ conn' \in [Readers -> Conns \cup {NoConn}]
         /\ at'[u] = "using" /\ \A v \in Readers \ {u} : at'[v] = at[v]
         /\ u \notin Borrowers /\ Borrowers' = Borrowers \cup {u}
         /\ conn'[u] = c /\ \A v \in Borrowers : conn'[v] = conn[v]
         /\ IsFiniteSet(Borrowers') /\ Cardinality(Borrowers') = Cardinality(Borrowers) + 1
         /\ Cardinality(Borrowers) \in Nat
  <1>1. /\ at' = [at EXCEPT ![u] = "using"] /\ conn' = [conn EXCEPT ![u] = c]
        /\ at \in [Readers -> {"idle", "done", "error"} \cup Pending]
        /\ conn \in [Readers -> Conns \cup {NoConn}]
    BY DEF Lend, Goto, TypeOK
  <1>2. /\ at' \in [Readers -> {"idle", "done", "error"} \cup Pending]
        /\ conn' \in [Readers -> Conns \cup {NoConn}]
        /\ at'[u] = "using" /\ \A v \in Readers \ {u} : at'[v] = at[v]
        /\ conn'[u] = c /\ \A v \in Readers \ {u} : conn'[v] = conn[v]
    BY <1>1 DEF Pending
  <1>3. u \notin Borrowers /\ Borrowers' = Borrowers \cup {u}
    BY <1>2 DEF Borrowers
  <1>4. \A v \in Borrowers : conn'[v] = conn[v]
    BY <1>2, <1>3 DEF Borrowers
  <1> QED
    BY <1>2, <1>3, <1>4, FS_AddElement, FS_CardinalityType

\* A step of one reader that is not in the queue, and leaves it as it is.
LEMMA QueueKept ==
  ASSUME TypeOK, QueueInv, NEW u \in Readers, at[u] # "waiting", waiters' = waiters,
         \A v \in Readers \ {u} : at'[v] = at[v]
  PROVE  QueueInv'
  <1>1. \A i \in 1..Len(waiters) : waiters[i] \in Readers
    BY DEF TypeOK
  <1> QED
    BY <1>1 DEF QueueInv

\* A reader that gets a connection holds it.
LEMMA LendQueue ==
  ASSUME TypeOK, QueueInv, NEW u \in Readers, at[u] \in {"idle", "woken"}, waiters' = waiters,
         \A v \in Readers \ {u} : at'[v] = at[v], at'[u] = "using"
  PROVE  QueueInv' /\ NoLostWakeup'
  BY QueueKept DEF NoLostWakeup

\* acquire takes the last of the available connections.
LEMMA TakeStep ==
  ASSUME IndInv, NEW u \in Readers, at[u] \in {"idle", "woken"}, TakeAvailable(u),
         UNCHANGED <<pg, crashes, broken>>
  PROVE  IndInv'
  <1> USE DEF IndInv
  <1> DEFINE n == Len(available)
             c == available[n]
             rest == SubSeq(available, 1, n - 1)
  <1>1. /\ available # <<>> /\ Lend(u, c) /\ available' = rest
        /\ UNCHANGED <<all, gone, waiters, refused>>
    BY DEF TakeAvailable
  <1>2. /\ n \in Nat /\ n > 0 /\ n \in 1..n /\ c \in Conns
        /\ rest \in Seq(Conns) /\ Len(rest) = n - 1
        /\ \A j \in 1..(n - 1) : rest[j] = available[j] /\ j \in 1..n /\ j # n
        /\ \A j \in 1..n : j \in 1..(n - 1) \/ j = n
    BY <1>1, FrontFacts, Zenon DEF TypeOK
  <1> HIDE DEF n, c, rest
  <1>3. /\ at' \in [Readers -> {"idle", "done", "error"} \cup Pending]
        /\ conn' \in [Readers -> Conns \cup {NoConn}]
        /\ at'[u] = "using" /\ \A v \in Readers \ {u} : at'[v] = at[v]
        /\ u \notin Borrowers /\ Borrowers' = Borrowers \cup {u}
        /\ conn'[u] = c /\ \A v \in Borrowers : conn'[v] = conn[v]
        /\ IsFiniteSet(Borrowers') /\ Cardinality(Borrowers') = Cardinality(Borrowers) + 1
        /\ Cardinality(Borrowers) \in Nat
    BY <1>1, <1>2, LendFacts DEF CountInv
  <1>4. TypeOK'
    BY <1>1, <1>2, <1>3 DEF TypeOK
  <1>5. PoolInv'
    <2>1. c = available[n]
      BY DEF c
    <2>2. ASSUME NEW i \in 1..(n - 1), NEW j \in 1..(n - 1), rest[i] = rest[j] PROVE i = j
      <3>1. i \in 1..n /\ j \in 1..n /\ available[i] = available[j]
        BY <1>2, <2>2
      <3> QED
        BY <3>1 DEF PoolInv, n
    <2>3. \A i \in 1..(n - 1) : rest[i] \in all /\ rest[i] # c
      BY <1>2, <2>1 DEF PoolInv, n
    <2>4. \A v \in Borrowers' : conn'[v] \in all /\ \A i \in 1..(n - 1) : rest[i] # conn'[v]
      BY <1>2, <1>3, <2>1, <2>3 DEF PoolInv, n
    <2>5. \A v, w \in Borrowers' : conn'[v] = conn'[w] => v = w
      BY <1>2, <1>3, <2>1 DEF PoolInv, n
    <2>6. ASSUME NEW d \in all
          PROVE  \/ \E i \in 1..(n - 1) : rest[i] = d
                 \/ \E v \in Borrowers' : conn'[v] = d
      <3>1. CASE \E i \in 1..n : available[i] = d
        BY <1>2, <1>3, <2>1, <3>1
      <3>2. CASE \E v \in Borrowers : conn[v] = d
        BY <1>3, <3>2
      <3> QED
        BY <3>1, <3>2 DEF PoolInv, n
    <2> QED
      BY <1>1, <1>2, <2>2, <2>3, <2>4, <2>5, <2>6 DEF PoolInv
  <1>6. CountInv'
    BY <1>1, <1>2, <1>3 DEF CountInv, n
  <1>7. CostInv'
    BY <1>1 DEF CostInv
  <1>8. QueueInv' /\ NoLostWakeup'
    BY <1>1, <1>3, LendQueue
  <1> QED
    BY <1>4, <1>5, <1>6, <1>7, <1>8

\* acquire makes a connection.
LEMMA CreateStep ==
  ASSUME IndInv, NEW u \in Readers, at[u] \in {"idle", "woken"}, CreateConnection(u), pg = "up",
         UNCHANGED <<pg, crashes, broken>>
  PROVE  IndInv'
  <1> USE DEF IndInv
  <1> DEFINE c == CHOOSE c \in Conns : c \notin all
  <1>1. /\ available = <<>> /\ Cardinality(all) < MaxConnections
        /\ Lend(u, c) /\ all' = all \cup {c} /\ gone' = gone \ {c}
        /\ UNCHANGED <<refused, available, waiters>>
    BY DEF CreateConnection
  <1>2. c \in Conns /\ c \notin all
    BY <1>1, RoomForOne
  <1> HIDE DEF c
  <1>3. /\ at' \in [Readers -> {"idle", "done", "error"} \cup Pending]
        /\ conn' \in [Readers -> Conns \cup {NoConn}]
        /\ at'[u] = "using" /\ \A v \in Readers \ {u} : at'[v] = at[v]
        /\ u \notin Borrowers /\ Borrowers' = Borrowers \cup {u}
        /\ conn'[u] = c /\ \A v \in Borrowers : conn'[v] = conn[v]
        /\ IsFiniteSet(Borrowers') /\ Cardinality(Borrowers') = Cardinality(Borrowers) + 1
        /\ Cardinality(Borrowers) \in Nat
    BY <1>1, <1>2, LendFacts DEF CountInv
  <1>4. TypeOK'
    BY <1>1, <1>2, <1>3 DEF TypeOK
  <1>5. PoolInv'
    <2>1. Len(available) = 0 /\ available' = available
      BY <1>1
    <2> QED
      BY <1>1, <1>2, <1>3, <2>1 DEF PoolInv
  <1>6. CountInv'
    <2>1. Cardinality(all') = Cardinality(all) + 1 /\ Cardinality(all) \in Nat
      BY <1>1, <1>2, PoolFinite, FS_AddElement
    <2>2. Len(available) = 0 /\ available' = available
      BY <1>1
    <2> QED
      BY <1>1, <1>3, <2>1, <2>2, PoolFinite DEF CountInv
  <1>7. CostInv'
    <2>1. all' \cap gone' = all \cap gone
      BY <1>1, <1>2
    <2> QED
      BY <1>1, <2>1, Zenon DEF CostInv
  <1>8. QueueInv' /\ NoLostWakeup'
    BY <1>1, <1>3, LendQueue
  <1> QED
    BY <1>4, <1>5, <1>6, <1>7, <1>8

\* Steps that leave the pool and its readers' connections alone.
LEMMA PoolKept ==
  ASSUME PoolInv, CountInv, CostInv, UNCHANGED <<all, available, gone, conn, crashes, broken>>,
         Borrowers' = Borrowers
  PROVE  PoolInv' /\ CountInv' /\ CostInv'
  BY DEF PoolInv, CountInv, CostInv

\* acquire fails to connect.
LEMMA RefusedStep ==
  ASSUME IndInv, NEW u \in Readers, at[u] \in {"idle", "woken"}, CreateConnection(u), pg # "up",
         UNCHANGED <<pg, crashes, broken>>
  PROVE  IndInv'
  <1> USE DEF IndInv
  <1>1. Goto(u, "error") /\ refused' = TRUE /\ UNCHANGED <<all, gone, conn, available, waiters>>
    BY DEF CreateConnection
  <1>2. /\ at' \in [Readers -> {"idle", "done", "error"} \cup Pending]
        /\ at'[u] = "error" /\ \A v \in Readers \ {u} : at'[v] = at[v]
    BY <1>1 DEF Goto, TypeOK
  <1>3. Borrowers' = Borrowers
    BY <1>2 DEF Borrowers
  <1>4. TypeOK'
    BY <1>1, <1>2 DEF TypeOK
  <1>5. QueueInv'
    BY <1>1, <1>2, QueueKept
  <1>6. NoLostWakeup'
    BY <1>1 DEF NoLostWakeup
  <1> QED
    BY <1>1, <1>3, <1>4, <1>5, <1>6, PoolKept

\* acquire waits: every connection is lent, so that somebody will signal.
LEMMA WaitStep ==
  ASSUME IndInv, NEW u \in Readers, at[u] \in {"idle", "woken"}, Wait(u),
         UNCHANGED <<pg, crashes, broken>>
  PROVE  IndInv'
  <1> USE DEF IndInv
  <1> DEFINE n == Len(waiters)
  <1>1. /\ available = <<>> /\ Cardinality(all) = MaxConnections
        /\ waiters' = Append(waiters, u) /\ Goto(u, "waiting")
        /\ UNCHANGED <<all, available, gone, conn, refused>>
    BY DEF Wait
  <1>2. /\ at' \in [Readers -> {"idle", "done", "error"} \cup Pending]
        /\ at'[u] = "waiting" /\ \A v \in Readers \ {u} : at'[v] = at[v]
    BY <1>1 DEF Goto, TypeOK, Pending
  <1>3. Borrowers' = Borrowers
    BY <1>2 DEF Borrowers
  <1>4. /\ waiters' \in Seq(Readers) /\ Len(waiters') = n + 1
        /\ \A j \in 1..n : waiters'[j] = waiters[j] /\ waiters[j] \in Readers
        /\ waiters'[n + 1] = u
        /\ \A j \in 1..(n + 1) : j \in 1..n \/ j = n + 1
    <2>1. waiters \in Seq(Readers)
      BY DEF TypeOK
    <2>2. \A j \in 1..n : waiters[j] \in Readers
      BY <2>1
    <2> QED
      BY <1>1, <2>1, <2>2, AppendFacts
  <1> HIDE DEF n
  <1>5. TypeOK'
    BY <1>1, <1>2, <1>4 DEF TypeOK
  <1>6. \A j \in 1..n : waiters[j] # u
    BY DEF QueueInv, n
  <1>7. QueueInv'
    <2>1. \A j \in 1..(n + 1) : at'[waiters'[j]] = "waiting"
      BY <1>2, <1>4, <1>6 DEF QueueInv, n
    <2>2. \A i, j \in 1..n : waiters'[i] = waiters'[j] => i = j
      BY <1>4 DEF QueueInv, n
    <2>3. \A i, j \in 1..(n + 1) : waiters'[i] = waiters'[j] => i = j
      BY <1>4, <1>6, <2>2
    <2> QED
      BY <1>4, <2>1, <2>3 DEF QueueInv
  <1>8. NoLostWakeup'
    <2>1. Cardinality(Borrowers) > 0
      <3>1. Len(available) = 0
        BY <1>1
      <3>2. Cardinality(Borrowers) \in Nat
        BY FS_CardinalityType DEF CountInv
      <3> QED
        BY <1>1, <3>1, <3>2, PoolFinite DEF CountInv
    <2>2. PICK v \in Readers : at[v] = "using"
      BY <2>1, FS_EmptySet DEF Borrowers, CountInv
    <2>3. at'[v] = "using"
      BY <1>2, <2>2
    <2> QED
      BY <2>3 DEF NoLostWakeup
  <1> QED
    BY <1>1, <1>3, <1>5, <1>7, <1>8, PoolKept

\* cond.Signal
LEMMA SignalStep ==
  ASSUME IndInv, NEW u \in Readers, Signal(u)
  PROVE  IndInv'
  <1> USE DEF IndInv
  <1>1. at[u] = "signal" /\ UNCHANGED <<pg, all, available, gone, conn, crashes, refused, broken>>
    BY DEF Signal
  <1>2. CASE waiters = <<>>
    <2>1. Goto(u, "done") /\ UNCHANGED waiters
      BY <1>2 DEF Signal
    <2>2. /\ at' \in [Readers -> {"idle", "done", "error"} \cup Pending]
          /\ at'[u] = "done" /\ \A v \in Readers \ {u} : at'[v] = at[v]
      BY <2>1 DEF Goto, TypeOK
    <2>3. Borrowers' = Borrowers
      BY <1>1, <2>2 DEF Borrowers
    <2>4. TypeOK' /\ NoLostWakeup'
      BY <1>1, <1>2, <2>1, <2>2 DEF TypeOK, NoLostWakeup
    <2>5. QueueInv'
      BY <1>1, <2>1, <2>2, QueueKept
    <2> QED
      BY <1>1, <2>3, <2>4, <2>5, PoolKept
  <1>3. CASE waiters # <<>>
    <2> DEFINE h == Head(waiters)
               n == Len(waiters)
    <2>1. at' = [at EXCEPT ![u] = "done", ![h] = "woken"] /\ waiters' = Tail(waiters)
      BY <1>3 DEF Signal
    <2>2. /\ n \in Nat /\ n > 0 /\ h = waiters[1] /\ 1 \in 1..n /\ h \in Readers
          /\ waiters' \in Seq(Readers) /\ Len(waiters') = n - 1
          /\ \A j \in 1..(n - 1) : waiters'[j] = waiters[j + 1] /\ j + 1 \in 1..n /\ j + 1 # 1
          /\ \A j \in 1..n : waiters[j] \in Readers
      BY <1>3, <2>1 DEF TypeOK
    <2> HIDE DEF h, n
    <2>3. at[h] = "waiting" /\ h # u
      BY <1>1, <2>2 DEF QueueInv, n
    <2>4. /\ at' \in [Readers -> {"idle", "done", "error"} \cup Pending]
          /\ at'[u] = "done" /\ at'[h] = "woken"
          /\ \A v \in Readers \ {u, h} : at'[v] = at[v]
      BY <2>1, <2>2, <2>3 DEF TypeOK, Pending
    <2>5. Borrowers' = Borrowers
      BY <1>1, <2>3, <2>4 DEF Borrowers
    <2>6. TypeOK'
      BY <1>1, <2>2, <2>4 DEF TypeOK
    <2>7. QueueInv'
      <3>1. ASSUME NEW j \in 1..(n - 1) PROVE at'[waiters'[j]] = "waiting"
        <4>1. waiters'[j] = waiters[j + 1] /\ j + 1 \in 1..n /\ j + 1 # 1
          BY <2>2
        <4>2. waiters[j + 1] # h /\ waiters[j + 1] # u /\ at[waiters[j + 1]] = "waiting"
          BY <1>1, <2>2, <4>1 DEF QueueInv, n
        <4> QED
          BY <2>2, <2>4, <4>1, <4>2
      <3>2. ASSUME NEW i \in 1..(n - 1), NEW j \in 1..(n - 1), waiters'[i] = waiters'[j] PROVE i = j
        <4>1. i + 1 \in 1..n /\ j + 1 \in 1..n /\ waiters[i + 1] = waiters[j + 1]
          BY <2>2, <3>2
        <4>2. i + 1 = j + 1
          BY <4>1 DEF QueueInv, n
        <4> QED
          BY <2>2, <4>2
      <3> QED
        BY <2>2, <3>1, <3>2 DEF QueueInv
    <2>8. NoLostWakeup'
      BY <2>2, <2>4 DEF NoLostWakeup
    <2> QED
      BY <1>1, <2>5, <2>6, <2>7, <2>8, PoolKept
  <1> QED
    BY <1>2, <1>3

\* A reader gives its connection back.
LEMMA ReleaseFacts ==
  ASSUME TypeOK, PoolInv, IsFiniteSet(Borrowers), NEW u \in Readers, Release(u)
  PROVE  /\ at' \in [Readers -> {"idle", "done", "error"} \cup Pending]
         /\ conn' \in [Readers -> Conns \cup {NoConn}]
         /\ at'[u] = "signal" /\ \A v \in Readers \ {u} : at'[v] = at[v]
         /\ u \in Borrowers /\ Borrowers' = Borrowers \ {u}
         /\ conn[u] \in all /\ conn[u] \in Conns /\ \A v \in Borrowers' : conn'[v] = conn[v]
         /\ IsFiniteSet(Borrowers') /\ Cardinality(Borrowers') = Cardinality(Borrowers) - 1
         /\ Cardinality(Borrowers) \in Nat /\ at[u] = "using"
  <1>1. /\ at' = [at EXCEPT ![u] = "signal"] /\ conn' = [conn EXCEPT ![u] = NoConn]
        /\ at \in [Readers -> {"idle", "done", "error"} \cup Pending]
        /\ conn \in [Readers -> Conns \cup {NoConn}] /\ at[u] = "using"
    BY DEF Release, Goto, TypeOK
  <1>2. /\ at' \in [Readers -> {"idle", "done", "error"} \cup Pending]
        /\ conn' \in [Readers -> Conns \cup {NoConn}]
        /\ at'[u] = "signal" /\ \A v \in Readers \ {u} : at'[v] = at[v]
        /\ \A v \in Readers \ {u} : conn'[v] = conn[v]
    BY <1>1 DEF Pending
  <1>3. u \in Borrowers /\ Borrowers' = Borrowers \ {u}
    BY <1>1, <1>2 DEF Borrowers
  <1>4. \A v \in Borrowers' : conn'[v] = conn[v]
    BY <1>2, <1>3 DEF Borrowers
  <1>5. conn[u] \in all /\ conn[u] \in Conns
    BY <1>3 DEF PoolInv, TypeOK
  <1>6. IsFiniteSet(Borrowers') /\ Cardinality(Borrowers') = Cardinality(Borrowers) - 1
    BY <1>3, FS_RemoveElement
  <1> QED
    BY <1>1, <1>2, <1>3, <1>4, <1>5, <1>6, FS_CardinalityType

\* Release of a connection that is alive, and of one that is dead.
LEMMA ReleaseStep ==
  ASSUME IndInv, NEW u \in Readers, Release(u)
  PROVE  IndInv'
  <1> USE DEF IndInv
  <1> DEFINE n == Len(available)
             c == conn[u]
  <1>1. /\ at' \in [Readers -> {"idle", "done", "error"} \cup Pending]
        /\ conn' \in [Readers -> Conns \cup {NoConn}]
        /\ at'[u] = "signal" /\ \A v \in Readers \ {u} : at'[v] = at[v]
        /\ u \in Borrowers /\ Borrowers' = Borrowers \ {u}
        /\ c \in all /\ c \in Conns /\ \A v \in Borrowers' : conn'[v] = conn[v]
        /\ IsFiniteSet(Borrowers') /\ Cardinality(Borrowers') = Cardinality(Borrowers) - 1
        /\ Cardinality(Borrowers) \in Nat /\ at[u] = "using"
    BY ReleaseFacts DEF CountInv
  <1>2. UNCHANGED <<pg, gone, waiters, crashes, refused>>
    BY DEF Release
  <1>3. QueueInv' /\ NoLostWakeup'
    <2>1. QueueInv'
      BY <1>1, <1>2, QueueKept
    <2>2. NoLostWakeup'
      BY <1>1 DEF NoLostWakeup
    <2> QED
      BY <2>1, <2>2
  <1>4. /\ \A v \in Borrowers' : conn'[v] # c
        /\ \A v, w \in Borrowers' : conn'[v] = conn'[w] => v = w
        /\ \A v \in Borrowers' : conn'[v] \in all /\ \A i \in 1..n : available[i] # conn'[v]
        /\ \A i \in 1..n : available[i] # c
    BY <1>1 DEF PoolInv
  <1>5. CASE c \notin gone
    <2>1. available' = Append(available, c) /\ UNCHANGED <<all, broken>>
      BY <1>5 DEF Release, KeepOrDrop
    <2>2. /\ available' \in Seq(Conns) /\ Len(available') = n + 1 /\ n \in Nat
          /\ \A j \in 1..n : available'[j] = available[j] /\ j \in 1..(n + 1)
          /\ available'[n + 1] = c /\ n + 1 \in 1..(n + 1)
          /\ \A j \in 1..(n + 1) : j \in 1..n \/ j = n + 1
      BY <1>1, <2>1, AppendFacts DEF TypeOK
    <2> HIDE DEF n, c
    <2>3. TypeOK'
      BY <1>1, <1>2, <2>1, <2>2 DEF TypeOK
    <2>4. PoolInv'
      <3>1. \A i, j \in 1..(n + 1) : available'[i] = available'[j] => i = j
        <4>1. ASSUME NEW i \in 1..(n + 1), NEW j \in 1..(n + 1), available'[i] = available'[j]
              PROVE  i = j
          <5>1. CASE i \in 1..n /\ j \in 1..n
            BY <2>2, <4>1, <5>1 DEF PoolInv, n
          <5>2. CASE i = n + 1 /\ j \in 1..n
            BY <1>4, <2>2, <4>1, <5>2
          <5>3. CASE i \in 1..n /\ j = n + 1
            BY <1>4, <2>2, <4>1, <5>3
          <5> QED
            BY <2>2, <5>1, <5>2, <5>3
        <4> QED
          BY <4>1
      <3>2. \A i \in 1..(n + 1) : available'[i] \in all
        BY <1>1, <2>2 DEF PoolInv, n
      <3>3. \A v \in Borrowers' : \A i \in 1..(n + 1) : available'[i] # conn'[v]
        BY <1>4, <2>2
      <3>4. ASSUME NEW d \in all
            PROVE  \/ \E i \in 1..(n + 1) : available'[i] = d
                   \/ \E v \in Borrowers' : conn'[v] = d
        <4>1. CASE \E i \in 1..n : available[i] = d
          BY <2>2, <4>1
        <4>2. CASE \E v \in Borrowers : conn[v] = d
          <5>1. PICK v \in Borrowers : conn[v] = d
            BY <4>2
          <5>2. CASE v = u
            BY <2>2, <5>1, <5>2 DEF c
          <5>3. CASE v # u
            BY <1>1, <5>1, <5>3
          <5> QED
            BY <5>2, <5>3
        <4> QED
          BY <4>1, <4>2 DEF PoolInv, n
      <3> QED
        BY <1>4, <2>1, <2>2, <3>1, <3>2, <3>3, <3>4, ZenonT(40) DEF PoolInv
    <2>5. CountInv'
      BY <1>1, <2>1, <2>2 DEF CountInv, n
    <2>6. CostInv'
      BY <1>2, <2>1 DEF CostInv
    <2> QED
      BY <1>3, <2>3, <2>4, <2>5, <2>6
  <1>6. CASE c \in gone
    <2>1. all' = all \ {c} /\ broken' = broken + 1 /\ available' = available
      BY <1>6 DEF Release, KeepOrDrop
    <2> HIDE DEF c
    <2>2. TypeOK'
      BY <1>1, <1>2, <2>1 DEF TypeOK
    <2>3. PoolInv'
      <3>1. \A i \in 1..n : available[i] \in all'
        BY <1>4, <2>1 DEF PoolInv
      <3>2. \A v \in Borrowers' : conn'[v] \in all'
        BY <1>4, <2>1
      <3>3. ASSUME NEW d \in all'
            PROVE  \/ \E i \in 1..n : available[i] = d
                   \/ \E v \in Borrowers' : conn'[v] = d
        <4>1. d \in all /\ d # c
          BY <2>1
        <4>2. \A v \in Borrowers : conn[v] = d => v \in Borrowers' /\ conn'[v] = d
          BY <1>1, <4>1 DEF c
        <4> QED
          BY <4>1, <4>2 DEF PoolInv
      <3> QED
        BY <1>4, <2>1, <3>1, <3>2, <3>3, ZenonT(40) DEF PoolInv
    <2>4. Cardinality(all') = Cardinality(all) - 1
      BY <1>1, <2>1, PoolFinite, FS_RemoveElement
    <2>5. CountInv'
      BY <1>1, <2>1, <2>4, PoolFinite DEF CountInv, TypeOK
    <2>6. CostInv'
      <3>1. all' \cap gone' = (all \cap gone) \ {c} /\ c \in all \cap gone
        BY <1>1, <1>2, <1>6, <2>1
      <3>2. IsFiniteSet(all \cap gone)
        BY PoolFinite DEF TypeOK
      <3>3. Cardinality(all' \cap gone') = Cardinality(all \cap gone) - 1
        BY <3>1, <3>2, FS_RemoveElement, Zenon
      <3> QED
        BY <1>2, <2>1, <3>3, PoolFinite DEF CostInv
    <2> QED
      BY <1>3, <2>2, <2>3, <2>5, <2>6
  <1> QED
    BY <1>5, <1>6

\* A crash leaves every connection of the pool dead: at most MaxConnections.
LEMMA CrashStep ==
  ASSUME IndInv, Crash
  PROVE  IndInv'
  <1> USE DEF IndInv
  <1>1. /\ crashes < MaxCrashes /\ crashes' = crashes + 1 /\ pg' \in {"recovering", "down"}
        /\ gone' = Conns
        /\ UNCHANGED <<all, available, at, conn, waiters, refused, broken>>
    BY DEF Crash
  <1>2. crashes' \in 0..MaxCrashes
    BY <1>1, PoolAssumption DEF TypeOK
  <1>3. TypeOK'
    BY <1>1, <1>2 DEF TypeOK
  <1>4. PoolInv' /\ CountInv' /\ QueueInv' /\ NoLostWakeup'
    <2>1. PoolInv'
      BY <1>1 DEF PoolInv, Borrowers
    <2>2. CountInv'
      BY <1>1 DEF CountInv, Borrowers
    <2>3. QueueInv' /\ NoLostWakeup'
      BY <1>1 DEF QueueInv, NoLostWakeup, Borrowers
    <2> QED
      BY <2>1, <2>2, <2>3
  <1>5. CostInv'
    <2>1. all' \cap gone' = all
      BY <1>1 DEF TypeOK
    <2>2. broken <= crashes * MaxConnections
      <3>1. crashes * MaxConnections \in Nat
        BY PoolFinite
      <3> QED
        BY <3>1, PoolFinite DEF CostInv
    <2>3. (crashes + 1) * MaxConnections = crashes * MaxConnections + MaxConnections
      BY PoolFinite
    <2>4. crashes * MaxConnections \in Nat
      BY PoolFinite
    <2> DEFINE k == crashes * MaxConnections
    <2>5. crashes' * MaxConnections = k + MaxConnections /\ k \in Nat /\ broken <= k
      BY <1>1, <2>2, <2>3, <2>4
    <2> HIDE DEF k
    <2>6. broken + Cardinality(all) <= k + MaxConnections
      BY <2>5, PoolFinite DEF CountInv
    <2> QED
      BY <1>1, <2>1, <2>5, <2>6, Zenon DEF CostInv
  <1> QED
    BY <1>3, <1>4, <1>5

\* Recovery, and a step that changes nothing.
LEMMA QuietStep ==
  ASSUME IndInv, Recover \/ UNCHANGED vars
  PROVE  IndInv'
  <1>1. /\ UNCHANGED <<all, available, gone, at, conn, waiters, crashes, refused, broken>>
        /\ pg' \in {"up", "recovering", "down"}
    BY DEF Recover, vars, IndInv, TypeOK
  <1> QED
    BY <1>1 DEF IndInv, TypeOK, PoolInv, CountInv, CostInv, QueueInv, NoLostWakeup, Borrowers
-----------------------------------------------------------------------------
\* Every step keeps the invariant.
LEMMA SpecIndInv == Spec => []IndInv
  <1>1. ASSUME IndInv, [Next]_vars PROVE IndInv'
    <2>1. ASSUME NEW u \in Readers, Acquire(u) PROVE IndInv'
      <3>1. at[u] \in {"idle", "woken"} /\ UNCHANGED <<pg, crashes, broken>>
        BY <2>1 DEF Acquire
      <3>2. CASE TakeAvailable(u)
        BY <1>1, <3>1, <3>2, TakeStep
      <3>3. CASE CreateConnection(u)
        BY <1>1, <3>1, <3>3, CreateStep, RefusedStep
      <3>4. CASE Wait(u)
        BY <1>1, <3>1, <3>4, WaitStep
      <3> QED
        BY <2>1, <3>2, <3>3, <3>4 DEF Acquire
    <2>2. ASSUME NEW u \in Readers, Release(u) PROVE IndInv'
      BY <1>1, <2>2, ReleaseStep
    <2>3. ASSUME NEW u \in Readers, Signal(u) PROVE IndInv'
      BY <1>1, <2>3, SignalStep
    <2>4. CASE Crash
      BY <1>1, <2>4, CrashStep
    <2>5. CASE Recover \/ UNCHANGED vars
      BY <1>1, <2>5, QuietStep
    <2> QED
      BY <1>1, <2>1, <2>2, <2>3, <2>4, <2>5 DEF Next, Step
  <1> QED
    BY <1>1, InitIndInv, PTL DEF Spec

\* Every reachable state of the pool has its type: what acquire lends and what
\* Release puts back are connections.
THEOREM PoolTypeCorrect == Spec => []TypeOK
  <1>1. IndInv => TypeOK
    BY DEF IndInv
  <1> QED
    BY <1>1, SpecIndInv, PTL

\* acquire and Release neither leak a connection nor lend one to two readers, and
\* never have more than MaxConnections, for any number of readers and crashes.
THEOREM PoolNeverLeaks == Spec => []NoLeak
  <1>1. ASSUME IndInv PROVE NoLeak
    <2>1. DOMAIN available = 1..Len(available)
      BY <1>1 DEF IndInv, TypeOK
    <2>2. all = {available[i] : i \in DOMAIN available} \cup {conn[u] : u \in Borrowers}
      BY <1>1, <2>1 DEF IndInv, PoolInv
    <2> QED
      BY <1>1, <2>2 DEF NoLeak, IndInv, CountInv
  <1> QED
    BY <1>1, SpecIndInv, PTL

\* As long as createConnection works, a reader in cond.Wait of acquire is never
\* left without somebody who will wake it.
THEOREM WaitersAreWoken == Spec => []NoLostWakeup
  <1>1. IndInv => NoLostWakeup
    BY DEF IndInv
  <1> QED
    BY <1>1, SpecIndInv, PTL

\* Release takes dead connections out: each crash of the backends costs at most
\* MaxConnections reads.
THEOREM PoolHeals == Spec => []CrashCost
  <1>1. ASSUME IndInv PROVE CrashCost
    <2>1. crashes * MaxConnections \in Nat
      BY <1>1, PoolFinite DEF IndInv
    <2> QED
      BY <1>1, <2>1, PoolFinite DEF IndInv, CostInv, CrashCost
  <1> QED
    BY <1>1, SpecIndInv, PTL
=============================================================================
