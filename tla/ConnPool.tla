------------------------------ MODULE ConnPool ------------------------------
(***************************************************************************)
(* The pool of connections that Query, Authenticate and Register of        *)
(* querystore/postgres.go borrow from: github.com/jackc/pgx/conn_pool.go,  *)
(* with its lock and its condition variable, while backends of postgres    *)
(* crash and postgres comes back or dies.                                  *)
(*                                                                         *)
(* A connection notices that its backend is gone when it is used.  Close   *)
(* and Reset of the pool are never called, and it has no AcquireTimeout.   *)
(***************************************************************************)
EXTENDS Naturals, Sequences, FiniteSets

CONSTANTS Readers,          \* calls of Query, Authenticate and Register
          Conns,            \* the connections there can be
          MaxConnections,   \* ConnPool.maxConnections
          NoConn,
          MaxCrashes        \* bound: crashes of backends

ASSUME PoolAssumption == /\ MaxConnections \in Nat \ {0}
                         /\ IsFiniteSet(Conns)
                         /\ MaxConnections <= Cardinality(Conns)
                         /\ NoConn \notin Conns
                         /\ MaxCrashes \in Nat

VARIABLES
    pg,         \* postgres: "up", "recovering" from a crash, "down"
    all,        \* ConnPool.allConnections
    available,  \* ConnPool.availableConnections
    gone,       \* the connections whose backend is gone
    at,         \* where each reader is
    conn,       \* the connection lent to it
    waiters,    \* the readers in cond.Wait, in the order of their arrival
    crashes,    \* how often backends crashed
    refused,    \* history: a createConnection failed
    broken      \* history: how many readers met a connection that was gone

vars == <<pg, all, available, gone, at, conn, waiters, crashes, refused, broken>>

\* "using": Conn.Query and Row.Scan; "woken": cond.Wait has returned; "signal":
\* between the Unlock of Release and its cond.Signal.
Pending == {"using", "waiting", "woken", "signal"}

TypeOK == /\ pg \in {"up", "recovering", "down"}
          /\ all \subseteq Conns
          /\ available \in Seq(Conns)
          /\ gone \subseteq Conns
          /\ at \in [Readers -> {"idle", "done", "error"} \cup Pending]
          /\ conn \in [Readers -> Conns \cup {NoConn}]
          /\ waiters \in Seq(Readers)
          /\ crashes \in 0..MaxCrashes
          /\ refused \in BOOLEAN
          /\ broken \in Nat

\* NewConnPool has made one connection.
Init == /\ pg = "up"
        /\ available = <<CHOOSE c \in Conns : TRUE>>
        /\ all = {available[1]}
        /\ gone = {}
        /\ at = [u \in Readers |-> "idle"]
        /\ conn = [u \in Readers |-> NoConn]
        /\ waiters = <<>>
        /\ crashes = 0
        /\ refused = FALSE
        /\ broken = 0

Goto(u, place) == at' = [at EXCEPT ![u] = place]

Lend(u, c) == conn' = [conn EXCEPT ![u] = c] /\ Goto(u, "using")

-----------------------------------------------------------------------------
(* ConnPool.acquire holds the lock from its tests to its end, also while   *)
(* it connects.                                                            *)

TakeAvailable(u) ==
    /\ available # <<>>
    /\ Lend(u, available[Len(available)])
    /\ available' = SubSeq(available, 1, Len(available) - 1)
    /\ UNCHANGED <<all, gone, waiters, refused>>

\* createConnection, which works while postgres is up.
CreateConnection(u) ==
    /\ available = <<>>
    /\ Cardinality(all) < MaxConnections
    /\ \/ /\ pg = "up"
          /\ LET c == CHOOSE c \in Conns : c \notin all
             IN  Lend(u, c) /\ all' = all \cup {c} /\ gone' = gone \ {c}
          /\ UNCHANGED refused
       \/ /\ pg # "up"
          /\ Goto(u, "error")
          /\ refused' = TRUE
          /\ UNCHANGED <<all, gone, conn>>
    /\ UNCHANGED <<available, waiters>>

Wait(u) ==
    /\ available = <<>>
    /\ Cardinality(all) = MaxConnections
    /\ waiters' = Append(waiters, u)
    /\ Goto(u, "waiting")
    /\ UNCHANGED <<all, available, gone, conn, refused>>

\* acquire, called by ConnPool.Query, and after cond.Wait.
Acquire(u) ==
    /\ at[u] \in {"idle", "woken"}
    /\ TakeAvailable(u) \/ CreateConnection(u) \/ Wait(u)
    /\ UNCHANGED <<pg, crashes, broken>>

\* Mutant: a dead connection is put back among the available ones.
KeepOrDropKeeps(u) ==
    /\ available' = Append(available, conn[u])
    /\ broken' = IF conn[u] \in gone THEN broken + 1 ELSE broken
    /\ UNCHANGED all

\* Mutant: a dead connection is not taken out of allConnections.
KeepOrDropLeaks(u) ==
    \/ /\ conn[u] \notin gone
       /\ available' = Append(available, conn[u])
       /\ UNCHANGED <<all, broken>>
    \/ /\ conn[u] \in gone
       /\ broken' = broken + 1
       /\ UNCHANGED <<all, available>>

\* The query gives an answer or an SQL error and the connection is available
\* again; or the backend is gone, and the dead connection makes room.
KeepOrDrop(u) ==
    \/ /\ conn[u] \notin gone
       /\ available' = Append(available, conn[u])
       /\ UNCHANGED <<all, broken>>
    \/ /\ conn[u] \in gone
       /\ all' = all \ {conn[u]}
       /\ broken' = broken + 1
       /\ UNCHANGED available

\* Mutant: only a connection that is alive is signalled.
ReleaseQuiet(u) ==
    /\ at[u] = "using"
    /\ KeepOrDrop(u)
    /\ conn' = [conn EXCEPT ![u] = NoConn]
    /\ Goto(u, IF conn[u] \in gone THEN "done" ELSE "signal")
    /\ UNCHANGED <<pg, gone, waiters, crashes, refused>>

\* The end of a query, and ConnPool.Release up to its Unlock.
Release(u) ==
    /\ at[u] = "using"
    /\ KeepOrDrop(u)
    /\ conn' = [conn EXCEPT ![u] = NoConn]
    /\ Goto(u, "signal")
    /\ UNCHANGED <<pg, gone, waiters, crashes, refused>>

\* Mutant: a signal is given only when a connection is available by then.
SignalLate(u) ==
    /\ at[u] = "signal"
    /\ \/ (waiters = <<>> \/ available = <<>>) /\ Goto(u, "done") /\ UNCHANGED waiters
       \/ /\ waiters # <<>> /\ available # <<>>
          /\ at' = [at EXCEPT ![u] = "done", ![Head(waiters)] = "woken"]
          /\ waiters' = Tail(waiters)
    /\ UNCHANGED <<pg, all, available, gone, conn, crashes, refused, broken>>

\* cond.Signal wakes the reader that has waited longest.
Signal(u) ==
    /\ at[u] = "signal"
    /\ \/ waiters = <<>> /\ Goto(u, "done") /\ UNCHANGED waiters
       \/ /\ waiters # <<>>
          /\ at' = [at EXCEPT ![u] = "done", ![Head(waiters)] = "woken"]
          /\ waiters' = Tail(waiters)
    /\ UNCHANGED <<pg, all, available, gone, conn, crashes, refused, broken>>

-----------------------------------------------------------------------------
(* postgres.                                                               *)

\* A backend crashes and postgres ends all of them; or postgres itself dies.
Crash ==
    /\ pg = "up"
    /\ crashes < MaxCrashes
    /\ crashes' = crashes + 1
    /\ pg' \in {"recovering", "down"}
    /\ gone' = Conns
    /\ UNCHANGED <<all, available, at, conn, waiters, refused, broken>>

Recover ==
    /\ pg = "recovering"
    /\ pg' = "up"
    /\ UNCHANGED <<all, available, gone, at, conn, waiters, crashes, refused, broken>>

Step(u) == Acquire(u) \/ Release(u) \/ Signal(u)

Next == (\E u \in Readers : Step(u)) \/ Crash \/ Recover

Spec == Init /\ [][Next]_vars

\* Goroutines that can run do, and a query comes to an end.
FairSpec == Spec /\ \A u \in Readers : WF_vars(Step(u))

-----------------------------------------------------------------------------
(* Properties.                                                             *)

Borrowers == {u \in Readers : at[u] = "using"}

\* Every connection of the pool is available once or lent to one reader, and
\* there are no more than MaxConnections: none leaks and none is shared, also
\* when connections die (acquire, Release).
NoLeak ==
    /\ all = {available[i] : i \in DOMAIN available} \cup {conn[u] : u \in Borrowers}
    /\ Cardinality(all) = Len(available) + Cardinality(Borrowers)
    /\ Cardinality(all) <= MaxConnections

\* A reader in cond.Wait is never forgotten: somebody has a connection, is about
\* to signal or was woken.  This holds until a createConnection has failed, after
\* which acquire returns without a Signal although there is room (acquire, Release).
NoLostWakeup ==
    waiters # <<>> /\ ~refused =>
        \E u \in Readers : at[u] \in {"using", "signal", "woken"}

\* The pool heals: a crash of the backends costs at most MaxConnections reads,
\* besides those that could not connect (Release takes a dead connection out).
CrashCost == broken <= crashes * MaxConnections

\* Every read returns, unless a createConnection has failed (acquire, Release).
ReadsReturn == \A u \in Readers : at[u] \in Pending ~> (at[u] \in {"done", "error"} \/ refused)
=============================================================================
