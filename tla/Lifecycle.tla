----------------------------- MODULE Lifecycle -----------------------------
(***************************************************************************)
(* The life of the server process: Start, Run, Wait and Stop of            *)
(* src/src/arla/main.go, the start of postgres in querystore/postgres.go,  *)
(* and the HTTP server of gopkg.in/tylerb/graceful.v1, with the goroutines *)
(* they leave behind: the watcher of postgres, the poll for its readiness, *)
(* the HTTP server and the handler of signals.                             *)
(*                                                                         *)
(* s.qs and s.http are read and set by several of them without a lock; a   *)
(* read of nil ends the process.  The process is the container's: nothing  *)
(* but the data directory outlives it, and of that nothing is synced: what *)
(* a loss of power leaves is what the kernel had written back, and any     *)
(* part of the rest.  What the requests do is in Arla.                     *)
(***************************************************************************)
EXTENDS Naturals

CONSTANTS Limits,       \* the values of Config.MaxConnections
          Reserved,     \* postgres: superuser_reserved_connections
          MaxBusy,      \* bound: connections of clients at the same time
          MaxLaunches   \* bound: how often the process is started

ASSUME LifecycleAssumption == /\ Limits \subseteq Nat
                              /\ Reserved \in Nat \ {0, 1}
                              /\ MaxBusy \in Nat
                              /\ MaxLaunches \in Nat

VARIABLES
    data,       \* the files in the data directory
    disk,       \* those of them that have reached the disk
    outlived,   \* history: a loss of power left the marker and not all it stands for
    limit,      \* Config.MaxConnections
    grace,      \* Config.GraceDuration is not 0
    launches,   \* how often the process was started
    p           \* the process and its postgres

dirVars == <<data, disk, outlived>>
vars == <<data, disk, outlived, limit, grace, launches, p>>

\* What the marker stands for: all that initdb writes, and the two files of arla.
Complete == {"cluster", "postgresql.conf", "pg_hba.conf"}
\* "begun": something of initdb is there; ".init": the marker, with its content.
Files == {"begun", ".init"} \cup Complete

Starting == {"initdb", "install", "spawn", "select", "init", "connect", "info", "log",
             "replay", "writer", "http"}
Stop == {"stop", "stopHTTP", "stopQs", "killQs", "stopWait"}
Ended == {"down", "exited", "panicked", "killed"}

Process == [
    main      : Starting \cup {"started", "wait"} \cup Stop \cup Ended,
    asked     : BOOLEAN,    \* history: Stop was called
    pg        : {"none", "starting", "up", "exited"},   \* the process of postgres
    killed    : BOOLEAN,    \* it was sent SIGKILL
    died      : BOOLEAN,    \* history: it exited although it was not
    poller    : {"none", "polling", "sending", "done"}, \* goroutine of pollForReady
    qs        : BOOLEAN,    \* Server.qs is not nil
    http      : BOOLEAN,    \* Server.http is not nil
    watcher   : {"none", "new", "call", "wait", "done"},    \* goroutine of startQueryEngine
    httpd     : {"none", "new", "listen", "serve", "drain", "timed", "done", "failed"},
                            \* goroutine of startHTTP, in graceful.Server
    timed     : BOOLEAN,    \* its Timeout is not 0
    interrupt : BOOLEAN,    \* its channel of signals holds one
    stopping  : BOOLEAN,    \* its Interrupted: the listener is closed
    busy      : 0..MaxBusy] \* its connections

TypeOK == /\ data \subseteq Files
          /\ disk \subseteq data
          /\ outlived \in BOOLEAN
          /\ limit \in Limits
          /\ grace \in BOOLEAN
          /\ launches \in 0..MaxLaunches
          /\ p \in Process

Boot(main) ==
    [main |-> main, asked |-> FALSE, pg |-> "none", killed |-> FALSE, died |-> FALSE,
     poller |-> "none", qs |-> FALSE, http |-> FALSE, watcher |-> "none", httpd |-> "none",
     timed |-> grace, interrupt |-> FALSE, stopping |-> FALSE, busy |-> 0]

Init == /\ data = {}
        /\ disk = {}
        /\ outlived = FALSE
        /\ limit \in Limits
        /\ grace \in BOOLEAN
        /\ launches = 0
        /\ p = Boot("down")

Goto(place) == p' = [p EXCEPT !.main = place]

\* Start returns an error, and first calls Stop.
Fail == p' = [p EXCEPT !.main = "stop", !.asked = TRUE]

\* A method of a nil pointer or interface is called.
Panic == Goto("panicked")

-----------------------------------------------------------------------------
(* postgres.Start, called by startQueryEngine through querystore.New.      *)

\* Mutant: an engine that failed to start is not remembered.
NewFailsForgets == p' = [p EXCEPT !.main = "stop", !.asked = TRUE, !.qs = FALSE]

\* querystore.New returns an error: s.qs is set nevertheless, so that Stop finds it.
NewFails == p' = [p EXCEPT !.main = "stop", !.asked = TRUE, !.qs = TRUE]

\* postgres.initdb: a directory that has the marker is complete.  The program
\* initdb refuses one that is not empty.
Initdb ==
    /\ p.main = "initdb"
    /\ \/ ".init" \in data /\ Goto("spawn") /\ UNCHANGED data
       \/ data = {} /\ data' = {"begun"} /\ Goto("install")
       \/ ".init" \notin data /\ data # {} /\ NewFails /\ UNCHANGED data

\* The next file is written when the one before it has been.
Put(before, file) == before \in data /\ file \notin data /\ data' = data \cup {file}

\* Mutant: the marker is written before the configuration files are copied.
InstallMarksEarly ==
    /\ p.main = "install"
    /\ \/ Put("begun", "cluster") /\ UNCHANGED p
       \/ Put("cluster", ".init") /\ UNCHANGED p
       \/ Put(".init", "postgresql.conf") /\ UNCHANGED p
       \/ Put("postgresql.conf", "pg_hba.conf") /\ Goto("spawn")
       \/ NewFails /\ UNCHANGED data

\* initdb, cpConfig of two files and markAsInitialized; each may fail.
Install ==
    /\ p.main = "install"
    /\ \/ Put("begun", "cluster") /\ UNCHANGED p
       \/ Put("cluster", "postgresql.conf") /\ UNCHANGED p
       \/ Put("postgresql.conf", "pg_hba.conf") /\ UNCHANGED p
       \/ Put("pg_hba.conf", ".init") /\ Goto("spawn")
       \/ NewFails /\ UNCHANGED data

\* The max_connections that spawn gives postgres.
Slots == limit + 1

\* ConnPool.maxConnections as NewConnPool sets it.
PoolMax == IF limit = 0 THEN 5 ELSE limit

\* postgres.spawn: the process and the goroutine that polls it.
Spawn ==
    /\ p.main = "spawn"
    /\ \/ p' = [p EXCEPT !.main = "select", !.pg = "starting", !.poller = "polling"]
       \/ NewFails

\* Mutant: neither a timeout nor the exit of postgres ends the select.
SelectReady ==
    /\ p.main = "select"
    /\ p.poller = "sending"
    /\ p' = [p EXCEPT !.main = "init", !.poller = "done"]

\* The select of spawn: ready, 10 seconds, or the exit of postgres.
Select ==
    /\ p.main = "select"
    /\ \/ p.poller = "sending" /\ p' = [p EXCEPT !.main = "init", !.poller = "done"]
       \/ p' = [p EXCEPT !.main = "stop", !.asked = TRUE, !.qs = TRUE, !.killed = TRUE]
       \/ p.pg = "exited" /\ NewFails

\* postgres.init: createdb, dropdb, browserify and psql.
InitDatabase ==
    /\ p.main = "init"
    /\ (p.pg = "up" /\ Goto("connect")) \/ NewFails

\* Mutant: startQueryEngine assigns to a variable of its own that hides s.qs.
ConnectShadows ==
    /\ p.main = "connect"
    /\ (p.pg = "up" /\ p' = [p EXCEPT !.main = "info", !.watcher = "new"]) \/ NewFails

\* execConn, the pool and arla_info; startQueryEngine starts the watcher.
Connect ==
    /\ p.main = "connect"
    /\ \/ p.pg = "up" /\ p' = [p EXCEPT !.main = "info", !.qs = TRUE, !.watcher = "new"]
       \/ NewFails

-----------------------------------------------------------------------------
(* The rest of Server.Start, and Run.                                      *)

\* s.qs.Info in startQueryEngine
Info == p.main = "info" /\ IF p.qs THEN Goto("log") ELSE Panic

StartLog == p.main = "log" /\ (Goto("replay") \/ Fail)

\* replayLog up to NewWriter, which starts psql.
Replay ==
    /\ p.main = "replay"
    /\ IF p.qs THEN Goto("writer") \/ Fail ELSE Panic

\* WriteTo, s.qs.SetLogLevel and Close, which waits for psql.  Its connection is
\* the third, after execConn and the first of the pool.
Writer ==
    /\ p.main = "writer"
    /\ \/ Fail
       \/ IF p.qs THEN p.pg = "up" /\ 3 <= Slots /\ Goto("http") ELSE Panic

StartHTTP ==
    /\ p.main = "http"
    /\ p' = [p EXCEPT !.main = "started", !.http = TRUE, !.httpd = "new"]

\* Run goes on with Wait; a test that called Start itself calls Stop.
Started == p.main = "started" /\ (Goto("wait") \/ Fail)

\* Mutant: a goroutine counts itself when it runs, not when it is started.
RunningLate == p.watcher \in {"call", "wait"} \/ p.httpd \in {"listen", "serve", "drain", "timed"}

\* The goroutines that s.wg counts.
Running == \/ p.watcher \in {"new", "call", "wait"}
           \/ p.httpd \in {"new", "listen", "serve", "drain", "timed"}

\* Server.Wait, at the end of Run or of Stop; the process exits.
Wait == p.main \in {"wait", "stopWait"} /\ ~Running /\ Goto("exited")

-----------------------------------------------------------------------------
(* Server.Stop, called by Start when it fails, and by tests.               *)

StopHTTP == p.main = "stop" /\ Goto(IF p.http THEN "stopHTTP" ELSE "stopQs")

\* s.http.Stop sets the timeout and sends to a channel with one place.
SendInterrupt ==
    /\ p.main = "stopHTTP"
    /\ \/ ~p.http /\ Panic
       \/ /\ p.http
          /\ ~p.interrupt
          /\ p' = [p EXCEPT !.main = "stopQs", !.http = FALSE, !.timed = TRUE, !.interrupt = TRUE]

StopQs == p.main = "stopQs" /\ Goto(IF p.qs THEN "killQs" ELSE "stopWait")

\* s.qs.Stop kills postgres, if it was started.  (s.ms.Close is in Arla.)
KillQs ==
    /\ p.main = "killQs"
    /\ IF p.qs THEN p' = [p EXCEPT !.main = "stopWait", !.qs = FALSE, !.killed = (p.pg # "none")]
               ELSE Panic

-----------------------------------------------------------------------------
(* The watcher of postgres and the poll for its readiness.                 *)

\* Mutant: the watcher leaves s.qs as it is.
WatcherKeeps ==
    \/ /\ p.watcher = "new"
       /\ p' = [p EXCEPT !.watcher = IF p.qs THEN "wait" ELSE "done"]
    \/ /\ p.watcher = "wait"
       /\ p.pg = "exited"
       /\ p' = [p EXCEPT !.watcher = "done"]

\* It tests s.qs, calls s.qs.Wait, which receives from quit, and sets s.qs to nil.
Watcher ==
    \/ /\ p.watcher = "new"
       /\ p' = [p EXCEPT !.watcher = IF p.qs THEN "call" ELSE "done"]
    \/ /\ p.watcher = "call"
       /\ IF p.qs THEN p' = [p EXCEPT !.watcher = "wait"] ELSE Panic
    \/ /\ p.watcher = "wait"
       /\ p.pg = "exited"
       /\ p' = [p EXCEPT !.watcher = "done", !.qs = FALSE]

\* pollForReady, which then sends on a channel that nobody may read any more.
Poll ==
    /\ p.poller = "polling"
    /\ p.pg = "up"
    /\ p' = [p EXCEPT !.poller = "sending"]

-----------------------------------------------------------------------------
(* graceful.Server, called by the goroutine of startHTTP.                  *)

\* s.http.ListenAndServe, as far as the read of s.http.
CallServe ==
    /\ p.httpd = "new"
    /\ IF p.http THEN p' = [p EXCEPT !.httpd = "listen"] ELSE Panic

\* ListenAndServe returns to the goroutine.
Served(end) == p' = [p EXCEPT !.httpd = end, !.http = FALSE]

Listen ==
    /\ p.httpd = "listen"
    /\ p' = [p EXCEPT !.httpd = "serve"] \/ Served("failed")

\* Serve has told the runtime to send signals to its channel.
Notified == p.httpd \in {"serve", "drain", "timed", "done"}

\* handleInterrupt, which goes on receiving signals for ever.
HandleInterrupt ==
    /\ Notified
    /\ p.interrupt
    /\ p' = [p EXCEPT !.interrupt = FALSE, !.stopping = TRUE]

\* manageConnections adds a connection ...
Open ==
    /\ p.httpd = "serve"
    /\ ~p.stopping
    /\ p.busy < MaxBusy
    /\ p' = [p EXCEPT !.busy = @ + 1]

\* ... or removes one.
Close == p.busy > 0 /\ p' = [p EXCEPT !.busy = @ - 1]

\* Mutant: the timeout is not looked at.
ShutdownPatient ==
    \/ p.httpd = "serve" /\ p.stopping /\ p' = [p EXCEPT !.httpd = "timed"]
    \/ p.httpd = "timed" /\ p.busy = 0 /\ Served("done")

\* shutdown, when the listener is closed: it waits for the connections, and no
\* longer than Timeout if that is not 0.
Shutdown ==
    \/ /\ p.httpd = "serve"
       /\ p.stopping
       /\ p' = [p EXCEPT !.httpd = IF p.timed THEN "timed" ELSE "drain"]
    \/ /\ p.httpd = "timed" \/ (p.httpd = "drain" /\ p.busy = 0)
       /\ Served("done")

-----------------------------------------------------------------------------
(* postgres and the operating system.                                      *)

PgReady ==
    /\ p.pg = "starting"
    /\ Reserved < Slots
    /\ p' = [p EXCEPT !.pg = "up"]

PgExits ==
    /\ p.pg \in {"starting", "up"}
    /\ p' = [p EXCEPT !.pg = "exited", !.died = ~p.killed]

\* SIGTERM or SIGINT goes to the HTTP server, or ends the process when there
\* is none yet; a signal that finds the channel full is lost.
Terminate == IF Notified THEN p' = [p EXCEPT !.interrupt = TRUE] ELSE Goto("killed")

\* The process dies, and the machine does not.
Crash == Goto("killed")

\* postgres changes its files, and with fsync off does not sync them either.
PgWrites ==
    /\ p.main \notin Ended
    /\ p.pg \in {"starting", "up"}
    /\ "cluster" \in disk
    /\ disk' = disk \ {"cluster"}
    /\ UNCHANGED <<data, outlived, limit, grace, launches, p>>

\* The kernel has written back what is in the directory.
WriteBack ==
    /\ disk # data
    /\ disk' = data
    /\ UNCHANGED <<data, outlived, limit, grace, launches, p>>

\* The machine loses its power.  initdb --nosync, cp, WriteFile and postgres leave
\* their files to the kernel, which writes them back in any order.
PowerLoss ==
    /\ \E kept \in SUBSET data :
          /\ disk \subseteq kept
          /\ data' = kept
          /\ outlived' = (outlived \/ (".init" \in kept /\ ~(Complete \subseteq kept)))
    /\ disk' = data'
    /\ p' = Boot("down")
    /\ UNCHANGED <<limit, grace, launches>>

Launch ==
    /\ p.main \in Ended
    /\ launches < MaxLaunches
    /\ launches' = launches + 1
    /\ p' = Boot("initdb")
    /\ UNCHANGED <<dirVars, limit, grace>>

\* The main goroutine.
Main == \/ Initdb \/ Install
        \/ /\ \/ Spawn \/ Select \/ InitDatabase \/ Connect
              \/ Info \/ StartLog \/ Replay \/ Writer \/ StartHTTP \/ Started
              \/ StopHTTP \/ SendInterrupt \/ StopQs \/ KillQs \/ Wait
           /\ UNCHANGED data

\* A step of the process, or of its surroundings while it runs.
Step(A) == p.main \notin Ended /\ A /\ UNCHANGED <<dirVars, limit, grace, launches>>

MainStep == p.main \notin Ended /\ Main /\ UNCHANGED <<disk, outlived, limit, grace, launches>>

Next == \/ MainStep
        \/ Step(Watcher) \/ Step(Poll)
        \/ Step(CallServe) \/ Step(Listen) \/ Step(HandleInterrupt) \/ Step(Shutdown)
        \/ Step(Open) \/ Step(Close)
        \/ Step(PgReady) \/ Step(PgExits) \/ Step(Terminate) \/ Step(Crash)
        \/ PgWrites \/ WriteBack \/ PowerLoss \/ Launch

Spec == Init /\ [][Next]_vars

\* Goroutines that can run do, timers fire, and a killed process dies.  Clients
\* need not close their connections, and postgres need not become ready.
Fairness == /\ WF_vars(MainStep)
            /\ WF_vars(Step(Watcher))
            /\ WF_vars(Step(CallServe)) /\ WF_vars(Step(Listen))
            /\ WF_vars(Step(HandleInterrupt)) /\ WF_vars(Step(Shutdown))
            /\ WF_vars(Step(p.killed /\ PgExits))

FairSpec == Spec /\ Fairness

-----------------------------------------------------------------------------
(* Properties.                                                             *)

\* postgres runs only on a data directory that initdb has finished and that has
\* the configuration files of arla, at whatever step an error, the death of the
\* process or a loss of power ended an earlier start.  The marker vouches for
\* the files, which nobody syncs: a loss of power that leaves it without them
\* is the one exception (postgres.initdb, alreadyInitialized, markAsInitialized).
CompleteCluster == p.pg # "none" => Complete \subseteq data \/ outlived

\* A server that exits leaves no postgres that was not told to end, be it that
\* Start failed at any of its steps, or that Stop or Wait returned
\* (querystore.New, Server.Start, Server.Stop).
NoOrphan == p.main = "exited" => p.pg \in {"none", "exited"} \/ p.killed

\* Once the engine is connected, postgres has a connection for each of its
\* users: the pool and execConn; and psql beside the first of them (spawn,
\* NewConnPool, replayLog).
EnoughSlots == p.main \in {"replay", "writer", "http", "started", "wait"} =>
                   PoolMax + 1 <= Slots /\ 3 <= Slots

\* main.go:416, "Wait blocks while the server is running": when Run returns
\* without an error nobody listens and postgres is gone (wg, startHTTP,
\* startQueryEngine).
WaitMeansOver == p.main = "exited" /\ ~p.asked => p.httpd \in {"done", "failed"} /\ p.pg = "exited"

\* While postgres runs and nobody calls Stop, no goroutine meets a nil s.qs or
\* s.http (startQueryEngine and startHTTP set them before they start the
\* goroutines that read them; the watcher waits for postgres).
PanicNeedsRace == p.main = "panicked" => p.died \/ p.asked

\* Start returns, be postgres ready late, never, or gone in the meantime (the
\* timeout and quit in spawn).  createdb, psql and the first connections have no
\* timeout in the code; here they end or fail.
StartReturns == p.main \in Starting ~> p.main \notin Starting

\* Stop returns and the process exits, unless a signal told the HTTP server to
\* stop before and GraceDuration is 0: then it waits for its clients.
StopReturns == p.main \in Stop ~> (p.main \in Ended \/ p.httpd = "drain")

\* The loss of postgres is noticed: s.qs becomes nil, so that requests are
\* answered 503 (the watcher of startQueryEngine).
LossNoticed == (p.watcher # "none" /\ p.pg = "exited") ~> (~p.qs \/ p.main \in Ended)
=============================================================================
