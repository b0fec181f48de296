--------------------------- MODULE LifecycleProofs ---------------------------
(***************************************************************************)
(* Proofs, for any number of launches, connections and settings, of the    *)
(* safety of the server's life: postgres runs on a complete data directory *)
(* or one that a loss of power tore, nothing that exits leaves postgres    *)
(* behind, it has the connections it needs, Wait means what it says, and   *)
(* no nil pointer is met without a death of postgres or a Stop.            *)
(*                                                                         *)
(* The invariant ties the goroutines to each other: the watcher exists     *)
(* once the engine is connected, and is done only when postgres is gone or *)
(* was killed; a postgres that runs is known to s.qs, except to the few    *)
(* steps of Start before it is assigned; SIGKILL is sent by Stop only.     *)
(***************************************************************************)
EXTENDS Lifecycle, TLAPS

Early == {"initdb", "install", "spawn"}         \* there is no postgres yet
Middle == {"select", "init", "connect"}         \* s.qs does not know it
Late == {"info", "log", "replay", "writer", "http", "started", "wait"}

Sound == Complete \subseteq data \/ outlived    \* what the marker vouches for

ClusterInv == /\ ".init" \in data => Sound
              /\ "postgresql.conf" \in data /\ p.main = "install" => "cluster" \in data
              /\ "pg_hba.conf" \in data /\ p.main = "install" =>
                     {"cluster", "postgresql.conf"} \subseteq data
              /\ p.main = "spawn" => Sound
              /\ p.pg # "none" => Sound
              /\ p.main \in Early => p.pg = "none"

SlotsInv == /\ p.pg = "up" => Reserved < Slots
            /\ p.main \in Late => Reserved < Slots

AskedInv == /\ p.main \in Stop => p.asked
            /\ p.killed => p.asked
            /\ p.pg = "exited" => p.died \/ p.asked

WatcherInv == /\ p.main \in Late => p.watcher # "none"
              /\ p.main \in Early \cup Middle => p.watcher = "none"
              /\ p.watcher # "none" => p.pg # "none"
              /\ p.watcher = "done" => p.pg = "exited" \/ p.killed
              /\ p.watcher # "none" => p.qs \/ p.died \/ p.asked

KnownInv == /\ p.pg \in {"starting", "up"} /\ ~p.killed => p.qs \/ p.main \in Middle \cup Ended
            /\ p.main \in {"stopWait", "exited"} => p.pg \in {"none", "exited"} \/ p.killed

HttpInv == /\ p.main \in {"started", "wait"} => p.httpd # "none"
           /\ p.httpd = "new" => p.http \/ p.asked

Inv == /\ ClusterInv /\ SlotsInv /\ AskedInv /\ WatcherInv /\ KnownInv /\ HttpInv
       /\ WaitMeansOver /\ PanicNeedsRace

IndInv == TypeOK /\ Inv

\* Slots is a number that depends on the configuration only.
LEMMA SlotsFacts ==
  ASSUME TypeOK
  PROVE  limit \in Nat /\ Slots = limit + 1 /\ Slots \in Nat /\ Reserved \in Nat /\ Reserved >= 2
  BY LifecycleAssumption DEF TypeOK, Slots

\* A process begins without goroutines and without postgres.
LEMMA BootFacts ==
  ASSUME TypeOK, NEW main \in {"down", "initdb"}
  PROVE  /\ Boot(main) \in Process
         /\ Boot(main).main = main /\ Boot(main).pg = "none" /\ Boot(main).watcher = "none"
         /\ Boot(main).httpd = "none" /\ ~Boot(main).killed
  <1>1. 0 \in 0..MaxBusy
    BY LifecycleAssumption
  <1>2. grace \in BOOLEAN
    BY DEF TypeOK
  <1> QED
    BY <1>1, <1>2 DEF Boot, Process, Starting, Ended
-----------------------------------------------------------------------------
\* querystore.New fails while postgres is being started.
LEMMA NewFailsInv ==
  ASSUME IndInv, UNCHANGED <<limit, data, outlived>>, p.main \in Early \cup Middle, NewFails
  PROVE  Inv' /\ p' \in Process
  <1>1. Inv'
    BY DEF IndInv, Inv, TypeOK, Process, ClusterInv, Sound, SlotsInv, AskedInv, WatcherInv,
                KnownInv,
                HttpInv, WaitMeansOver, PanicNeedsRace, Early, Middle, Late, Stop, Ended, Slots,
                Starting, NewFails
  <1>2. p' \in Process
    BY Zenon DEF NewFails, Process, TypeOK, IndInv, Starting, Stop
  <1> QED
    BY <1>1, <1>2

\* Start fails after that, or a test calls Stop.
LEMMA FailInv ==
  ASSUME IndInv, UNCHANGED <<limit, data, outlived>>, p.main \in Late, Fail
  PROVE  Inv' /\ p' \in Process
  <1>1. Inv'
    BY DEF IndInv, Inv, TypeOK, Process, ClusterInv, Sound, SlotsInv, AskedInv, WatcherInv,
                KnownInv,
                HttpInv, WaitMeansOver, PanicNeedsRace, Early, Middle, Late, Stop, Ended, Slots,
                Starting, Fail
  <1>2. p' \in Process
    BY Zenon DEF Fail, Process, TypeOK, IndInv, Starting, Stop
  <1> QED
    BY <1>1, <1>2

\* A goroutine meets nil.
LEMMA PanicInv ==
  ASSUME IndInv, UNCHANGED <<limit, data, outlived>>, p.died \/ p.asked, Panic
  PROVE  Inv' /\ p' \in Process
  BY DEF IndInv, Inv, TypeOK, Process, ClusterInv, Sound, SlotsInv, AskedInv, WatcherInv, KnownInv,
              HttpInv, WaitMeansOver, PanicNeedsRace, Early, Middle, Late, Stop, Ended, Slots,
              Starting, Panic, Goto

\* The HTTP server ends.
LEMMA ServedInv ==
  ASSUME IndInv, UNCHANGED <<limit, data, outlived>>, NEW end \in {"done", "failed"},
                p.httpd # "new",
         p.httpd # "none", Served(end)
  PROVE  Inv' /\ p' \in Process
  <1>1. Inv'
    BY DEF IndInv, Inv, TypeOK, Process, ClusterInv, Sound, SlotsInv, AskedInv, WatcherInv,
                KnownInv,
                HttpInv, WaitMeansOver, PanicNeedsRace, Early, Middle, Late, Stop, Ended, Slots,
                Starting, Served
  <1>2. p' \in Process
    BY Zenon DEF Served, Process, TypeOK, IndInv, Starting, Stop
  <1> QED
    BY <1>1, <1>2

\* Start goes on after the engine is connected.
LEMMA GotoInv ==
  ASSUME IndInv, UNCHANGED <<limit, data, outlived>>, p.main \in Late,
         NEW place \in Late, place \in {"started", "wait"} => p.httpd # "none", Goto(place)
  PROVE  Inv' /\ p' \in Process
  BY DEF IndInv, Inv, TypeOK, Process, ClusterInv, Sound, SlotsInv, AskedInv, WatcherInv,
              KnownInv, HttpInv, WaitMeansOver, PanicNeedsRace, Early, Middle, Late, Stop, Ended,
              Slots, Starting, Goto

\* The steps of the main goroutine that start postgres.
LEMMA EngineInv ==
  ASSUME IndInv, UNCHANGED <<limit, outlived>>,
         \/ Initdb \/ Install
         \/ UNCHANGED data /\ (Spawn \/ Select \/ InitDatabase \/ Connect)
  PROVE  Inv' /\ p' \in Process
  <1> USE DEF IndInv, Inv, TypeOK, Process, ClusterInv, Sound, SlotsInv, AskedInv, WatcherInv,
                KnownInv,
              HttpInv, WaitMeansOver, PanicNeedsRace, Early, Middle, Late, Stop, Ended, Slots,
              Starting
  <1>1. CASE Initdb
    <2> USE <1>1 DEF Initdb
    <2>1. CASE data = {} /\ data' = {"begun"} /\ Goto("install")
      BY <2>1 DEF Goto
    <2>2. CASE ".init" \in data /\ Goto("spawn") /\ UNCHANGED data
      BY <2>2 DEF Goto
    <2>3. CASE NewFails /\ UNCHANGED data
      BY <2>3, NewFailsInv
    <2> QED
      BY <2>1, <2>2, <2>3, Zenon
  <1>2. CASE Install
    <2> USE <1>2 DEF Install
    <2>1. CASE Put("begun", "cluster") /\ UNCHANGED p
      BY <2>1 DEF Put, Complete
    <2>2. CASE Put("cluster", "postgresql.conf") /\ UNCHANGED p
      BY <2>2 DEF Put, Complete
    <2>3. CASE Put("postgresql.conf", "pg_hba.conf") /\ UNCHANGED p
      BY <2>3 DEF Put, Complete
    <2>4. CASE Put("pg_hba.conf", ".init") /\ Goto("spawn")
      BY <2>4 DEF Put, Complete, Goto
    <2>5. CASE NewFails /\ UNCHANGED data
      BY <2>5, NewFailsInv
    <2> QED
      BY <2>1, <2>2, <2>3, <2>4, <2>5
  <1>3. CASE UNCHANGED data /\ Spawn
    <2> USE <1>3 DEF Spawn
    <2>1. CASE p' = [p EXCEPT !.main = "select", !.pg = "starting", !.poller = "polling"]
      <3>1. Inv'
        BY <2>1
      <3>2. p' \in Process
        BY <2>1, ZenonT(40)
      <3> QED
        BY <3>1, <3>2
    <2>2. CASE NewFails
      BY <2>2, NewFailsInv
    <2> QED
      BY <2>1, <2>2
  <1>4. CASE UNCHANGED data /\ Select
    <2> USE <1>4 DEF Select
    <2>1. CASE p' = [p EXCEPT !.main = "init", !.poller = "done"]
      <3>1. Inv'
        BY <2>1
      <3>2. p' \in Process
        BY <2>1, ZenonT(40) DEF Process, TypeOK, IndInv, Starting, Stop
      <3> QED
        BY <3>1, <3>2
    <2>2. CASE p' = [p EXCEPT !.main = "stop", !.asked = TRUE, !.qs = TRUE, !.killed = TRUE]
      <3>1. Inv'
        BY <2>2
      <3>2. p' \in Process
        BY <2>2, ZenonT(40)
      <3> QED
        BY <3>1, <3>2
    <2>3. CASE NewFails
      BY <2>3, NewFailsInv
    <2> QED
      BY <2>1, <2>2, <2>3
  <1>5. CASE UNCHANGED data /\ InitDatabase
    <2> USE <1>5 DEF InitDatabase
    <2>1. CASE p.pg = "up" /\ Goto("connect")
      BY <2>1 DEF Goto
    <2>2. CASE NewFails
      BY <2>2, NewFailsInv
    <2> QED
      BY <2>1, <2>2
  <1>6. CASE UNCHANGED data /\ Connect
    <2> USE <1>6 DEF Connect
    <2>1. CASE p.pg = "up" /\ p' = [p EXCEPT !.main = "info", !.qs = TRUE, !.watcher = "new"]
      <3>1. Inv'
        BY <2>1
      <3>2. p' \in Process
        BY <2>1, ZenonT(40)
      <3> QED
        BY <3>1, <3>2
    <2>2. CASE NewFails
      BY <2>2, NewFailsInv
    <2> QED
      BY <2>1, <2>2
  <1> QED
    BY <1>1, <1>2, <1>3, <1>4, <1>5, <1>6

\* The rest of Server.Start.
LEMMA StartInv ==
  ASSUME IndInv, UNCHANGED <<limit, data, outlived>>,
         Info \/ StartLog \/ Replay \/ Writer \/ StartHTTP \/ Started
  PROVE  Inv' /\ p' \in Process
  <1> USE DEF Info, StartLog, Replay, Writer, Started
  <1>1. CASE StartHTTP
    <2>1. Inv'
      BY <1>1 DEF StartHTTP, IndInv, Inv, TypeOK, Process, ClusterInv, Sound, SlotsInv, AskedInv,
                  WatcherInv,
                KnownInv, HttpInv, WaitMeansOver, PanicNeedsRace, Early, Middle, Late, Stop,
                Ended, Slots, Starting
    <2>2. p' \in Process
      BY <1>1, ZenonT(40) DEF StartHTTP, Process, TypeOK, IndInv, Starting, Stop
    <2> QED
      BY <2>1, <2>2
  <1>2. ASSUME ~StartHTTP PROVE p.main \in {"info", "log", "replay", "writer", "started"} /\
              p.main \in Late
    BY <1>2 DEF Late
  <1>3. CASE Fail
    BY <1>3, <1>2, FailInv DEF StartHTTP, Late
  <1>4. CASE Panic /\ ~p.qs /\ p.main \in Late
    <2>1. p.died \/ p.asked
      BY <1>4 DEF IndInv, Inv, WatcherInv
    <2> QED
      BY <1>4, <2>1, PanicInv
  <1>5. CASE \E place \in {"log", "replay", "writer", "http"} : p.main \in Late /\ Goto(place)
    BY <1>5, GotoInv DEF Late
  <1>6. CASE p.main = "started" /\ Goto("wait")
    <2>1. p.httpd # "none"
      BY <1>6 DEF IndInv, Inv, HttpInv
    <2> QED
      BY <1>6, <2>1, GotoInv DEF Late
  <1> QED
    BY <1>1, <1>2, <1>3, <1>4, <1>5, <1>6

\* Server.Wait and Server.Stop.
LEMMA StopInv ==
  ASSUME IndInv, UNCHANGED <<limit, data, outlived>>,
         StopHTTP \/ SendInterrupt \/ StopQs \/ KillQs \/ Wait
  PROVE  Inv' /\ p' \in Process
  <1> USE DEF IndInv, Inv, TypeOK, Process, ClusterInv, Sound, SlotsInv, AskedInv, WatcherInv,
                KnownInv,
              HttpInv, WaitMeansOver, PanicNeedsRace, Early, Middle, Late, Stop, Ended, Slots,
              Starting
  <1>1. CASE StopHTTP
    BY <1>1 DEF StopHTTP, Goto
  <1>2. CASE SendInterrupt
    <2> USE <1>2 DEF SendInterrupt
    <2>1. CASE Panic
      BY <2>1, PanicInv
    <2>2. CASE p' = [p EXCEPT !.main = "stopQs", !.http = FALSE, !.timed = TRUE, !.interrupt = TRUE]
      <3>1. Inv'
        BY <2>2
      <3>2. p' \in Process
        BY <2>2, ZenonT(40) DEF Process, TypeOK, IndInv, Starting, Stop
      <3> QED
        BY <3>1, <3>2
    <2> QED
      BY <2>1, <2>2
  <1>3. CASE StopQs
    BY <1>3 DEF StopQs, Goto
  <1>4. CASE KillQs
    <2> USE <1>4 DEF KillQs
    <2>1. CASE Panic
      BY <2>1, PanicInv
    <2>2. CASE p' = [p EXCEPT !.main = "stopWait", !.qs = FALSE, !.killed = (p.pg # "none")]
      <3>1. Inv'
        BY <2>2
      <3>2. PICK b \in BOOLEAN : b = (p.pg # "none")
        BY Zenon
      <3>3. p' = [p EXCEPT !.main = "stopWait", !.qs = FALSE, !.killed = b]
        BY <2>2, <3>2, Zenon
      <3>4. p' \in Process
        BY <3>3, Zenon, ZenonT(40)
      <3> QED
        BY <3>1, <3>4
    <2> QED
      BY <2>1, <2>2
  <1>5. CASE Wait
    BY <1>5 DEF Wait, Running, Goto
  <1> QED
    BY <1>1, <1>2, <1>3, <1>4, <1>5

\* The watcher of postgres, the poll and the HTTP server.
LEMMA GoroutineInv ==
  ASSUME IndInv, p.main \notin Ended, UNCHANGED <<limit, data, outlived>>,
         \/ Watcher \/ Poll \/ CallServe \/ Listen \/ HandleInterrupt \/ Shutdown
         \/ Open \/ Close
  PROVE  Inv' /\ p' \in Process
  <1> USE DEF IndInv, Inv, TypeOK, Process, ClusterInv, Sound, SlotsInv, AskedInv, WatcherInv,
                KnownInv,
              HttpInv, WaitMeansOver, PanicNeedsRace, Early, Middle, Late, Stop, Ended, Slots,
              Starting
  <1>1. CASE Watcher
    <2> USE <1>1 DEF Watcher
    <2>1. CASE p.watcher = "new" /\ p' = [p EXCEPT !.watcher = IF p.qs THEN "call" ELSE "done"]
      BY <2>1
    <2>2. CASE p.watcher = "call" /\ p' = [p EXCEPT !.watcher = "wait"]
      BY <2>2
    <2>3. CASE p.watcher = "call" /\ ~p.qs /\ Panic
      <3>1. p.died \/ p.asked
        BY <2>3
      <3> QED
        BY <2>3, <3>1, PanicInv
    <2>4. CASE p.watcher = "wait" /\ p.pg = "exited" /\ p' = [p EXCEPT !.watcher = "done", !.qs =
                FALSE]
      <3>1. Inv'
        BY <2>4
      <3>2. p' \in Process
        BY <2>4, ZenonT(40) DEF Process, TypeOK, IndInv, Starting, Stop
      <3> QED
        BY <3>1, <3>2
    <2> QED
      BY <2>1, <2>2, <2>3, <2>4
  <1>2. CASE Poll
    BY <1>2 DEF Poll
  <1>3. CASE CallServe
    <2> USE <1>3 DEF CallServe
    <2>1. CASE ~p.http /\ Panic
      <3>1. p.died \/ p.asked
        BY <2>1
      <3> QED
        BY <2>1, <3>1, PanicInv
    <2>2. CASE p' = [p EXCEPT !.httpd = "listen"]
      BY <2>2
    <2> QED
      BY <2>1, <2>2
  <1>4. CASE Listen
    <2> USE <1>4 DEF Listen
    <2>1. CASE p' = [p EXCEPT !.httpd = "serve"]
      BY <2>1
    <2>2. CASE Served("failed")
      BY <2>2, ServedInv
    <2> QED
      BY <2>1, <2>2
  <1>5. CASE HandleInterrupt
    <2>1. Inv'
      BY <1>5 DEF HandleInterrupt
    <2>2. p' \in Process
      BY <1>5, ZenonT(40) DEF HandleInterrupt, Process, TypeOK, IndInv, Starting, Stop
    <2> QED
      BY <2>1, <2>2
  <1>6. CASE Shutdown
    <2> USE <1>6 DEF Shutdown
    <2>1. CASE p.httpd = "serve" /\ p' = [p EXCEPT !.httpd = IF p.timed THEN "timed" ELSE "drain"]
      BY <2>1
    <2>2. CASE p.httpd \in {"timed", "drain"} /\ Served("done")
      BY <2>2, ServedInv
    <2> QED
      BY <2>1, <2>2
  <1>7. CASE Open
    <2>1. Inv'
      BY <1>7 DEF Open
    <2>2. PICK n \in 0..MaxBusy : n = p.busy + 1
      BY <1>7, LifecycleAssumption DEF Open
    <2>3. p' = [p EXCEPT !.busy = n]
      BY <1>7, <2>2, Zenon DEF Open
    <2>4. p' \in Process
      BY <2>3, Zenon, ZenonT(40)
    <2> QED
      BY <2>1, <2>4
  <1>8. CASE Close
    <2>1. Inv'
      BY <1>8 DEF Close
    <2>2. PICK n \in 0..MaxBusy : n = p.busy - 1
      BY <1>8, LifecycleAssumption DEF Close
    <2>3. p' = [p EXCEPT !.busy = n]
      BY <1>8, <2>2, Zenon DEF Close
    <2>4. p' \in Process
      BY <2>3, Zenon, ZenonT(40)
    <2> QED
      BY <2>1, <2>4
  <1> QED
    BY <1>1, <1>2, <1>3, <1>4, <1>5, <1>6, <1>7, <1>8, Zenon

\* postgres and the operating system.
LEMMA SystemInv ==
  ASSUME IndInv, p.main \notin Ended, UNCHANGED <<limit, data, outlived>>,
         PgReady \/ PgExits \/ Terminate \/ Crash
  PROVE  Inv' /\ p' \in Process
  <1> USE DEF IndInv, Inv, TypeOK, Process, ClusterInv, Sound, SlotsInv, AskedInv, WatcherInv,
                KnownInv,
              HttpInv, WaitMeansOver, PanicNeedsRace, Early, Middle, Late, Stop, Ended, Slots,
              Starting
  <1>1. CASE PgReady
    BY <1>1 DEF PgReady
  <1>2. CASE PgExits
    <2>1. CASE p.pg # "none" /\ p.killed /\ p' = [p EXCEPT !.pg = "exited", !.died = FALSE]
      <3>1. Inv'
        BY <2>1
      <3>2. p' \in Process
        BY <2>1, ZenonT(40) DEF Process, TypeOK, IndInv, Starting, Stop
      <3> QED
        BY <3>1, <3>2
    <2>2. CASE p.pg # "none" /\ p' = [p EXCEPT !.pg = "exited", !.died = TRUE]
      <3>1. Inv'
        BY <2>2
      <3>2. p' \in Process
        BY <2>2, ZenonT(40) DEF Process, TypeOK, IndInv, Starting, Stop
      <3> QED
        BY <3>1, <3>2
    <2> QED
      BY <1>2, <2>1, <2>2, Zenon DEF PgExits
  <1>3. CASE p' = [p EXCEPT !.interrupt = TRUE]
    <2>1. Inv'
      BY <1>3
    <2>2. p' \in Process
      BY <1>3, ZenonT(40) DEF Process, TypeOK, IndInv, Starting, Stop
    <2> QED
      BY <2>1, <2>2
  <1>4. CASE Goto("killed")
    BY <1>4 DEF Goto
  <1> QED
    BY <1>1, <1>2, <1>3, <1>4 DEF Terminate, Crash

\* A new process, after the end of the last one.
LEMMA LaunchInv ==
  ASSUME IndInv, Launch
  PROVE  IndInv'
  <1>1. /\ p' = Boot("initdb") /\ launches' = launches + 1
        /\ launches < MaxLaunches /\ UNCHANGED <<data, disk, outlived, limit, grace>>
    BY DEF Launch, dirVars
  <1>2. /\ p' \in Process /\ p'.main = "initdb" /\ p'.pg = "none" /\ p'.watcher = "none"
        /\ p'.httpd = "none" /\ ~p'.killed
    BY <1>1, BootFacts DEF IndInv
  <1>3. launches' \in 0..MaxLaunches
    BY <1>1, LifecycleAssumption DEF IndInv, TypeOK
  <1>4. TypeOK'
    BY <1>1, <1>2, <1>3, Zenon DEF IndInv, TypeOK
  <1>5. Inv'
    BY <1>1, <1>2 DEF IndInv, Inv, ClusterInv, Sound, SlotsInv, AskedInv, WatcherInv, KnownInv,
                HttpInv,
                      WaitMeansOver, PanicNeedsRace, Early, Middle, Late, Stop
  <1> QED
    BY <1>4, <1>5 DEF IndInv

\* A loss of power ends every process, and takes what was not written back.
LEMMA PowerLossInv ==
  ASSUME IndInv, PowerLoss
  PROVE  IndInv'
  <1>1. PICK kept \in SUBSET data :
           /\ data' = kept
           /\ outlived' = (outlived \/ (".init" \in kept /\ ~(Complete \subseteq kept)))
    BY DEF PowerLoss
  <1>2. p' = Boot("down") /\ disk' = data' /\ UNCHANGED <<limit, grace, launches>>
    BY DEF PowerLoss
  <1>3. /\ p' \in Process /\ p'.main = "down" /\ p'.pg = "none" /\ p'.watcher = "none"
        /\ p'.httpd = "none" /\ ~p'.killed
    BY <1>2, BootFacts DEF IndInv
  <1>4. TypeOK'
    BY <1>1, <1>2, <1>3, Zenon DEF IndInv, TypeOK
  <1>5. ".init" \in data' => Sound'
    BY <1>1, Zenon DEF Sound
  <1>6. Inv'
    BY <1>3, <1>5 DEF IndInv, Inv, ClusterInv, SlotsInv, AskedInv, WatcherInv, KnownInv, HttpInv,
                      WaitMeansOver, PanicNeedsRace, Early, Middle, Late, Stop
  <1> QED
    BY <1>4, <1>6 DEF IndInv

\* What is on the disk concerns a loss of power only.
LEMMA DiskInv ==
  ASSUME IndInv, PgWrites \/ WriteBack
  PROVE  IndInv'
  <1>1. UNCHANGED <<data, outlived, limit, grace, launches, p>> /\ disk' \subseteq data
    BY DEF PgWrites, WriteBack, IndInv, TypeOK
  <1> QED
    BY <1>1 DEF IndInv, Inv, TypeOK, ClusterInv, Sound, SlotsInv, AskedInv, WatcherInv, KnownInv,
                HttpInv, WaitMeansOver, PanicNeedsRace, Slots

\* A process that has not been started is in the invariant.
LEMMA InitIndInv == Init => IndInv
  <1> SUFFICES ASSUME Init PROVE IndInv
    OBVIOUS
  <1>1. /\ data \subseteq Files /\ disk \subseteq data
        /\ launches \in 0..MaxLaunches /\ 0 \in 0..MaxBusy
    BY LifecycleAssumption DEF Init
  <1>2. p = Boot("down") /\ grace \in BOOLEAN
    BY DEF Init
  <1>3. p \in Process
    BY <1>1, <1>2, Zenon DEF Boot, Process, Ended
  <1>4. TypeOK
    BY <1>1, <1>3, Zenon DEF Init, TypeOK
  <1>5. /\ p.main = "down" /\ p.pg = "none" /\ p.watcher = "none"
        /\ p.httpd = "none" /\ ~p.killed
    BY <1>2 DEF Boot
  <1>6. Inv
    BY <1>5 DEF Init, Inv, ClusterInv, Sound, SlotsInv, AskedInv, WatcherInv, KnownInv, HttpInv,
                WaitMeansOver, PanicNeedsRace, Early, Middle, Late, Stop
  <1> QED
    BY <1>4, <1>6 DEF IndInv

\* Every step of the main goroutine keeps the invariant.
LEMMA MainStepInv ==
  ASSUME IndInv, MainStep
  PROVE  IndInv'
  <1>1. UNCHANGED <<disk, outlived, limit, grace, launches>> /\ Main
    BY DEF MainStep
  <1>2. Inv' /\ p' \in Process
    BY <1>1, EngineInv, StartInv, StopInv DEF Main
  <1>3. data' \subseteq Files /\ data \subseteq data'
    BY <1>1, Zenon DEF Main, Initdb, Install, Put, IndInv, TypeOK, Files, Complete
  <1> QED
    BY <1>1, <1>2, <1>3 DEF IndInv, TypeOK

\* The invariant holds in every state of every behaviour.
LEMMA SpecIndInv == Spec => []IndInv
  <1>1. ASSUME IndInv, Next PROVE IndInv'
    <2>1. ASSUME p.main \notin Ended, UNCHANGED <<data, disk, outlived, limit, grace, launches>>,
                 \/ Watcher \/ Poll \/ CallServe \/ Listen \/ HandleInterrupt \/ Shutdown
                 \/ Open \/ Close \/ PgReady \/ PgExits \/ Terminate \/ Crash
          PROVE  IndInv'
      BY <1>1, <2>1, GoroutineInv, SystemInv DEF IndInv, TypeOK
    <2> QED
      BY <1>1, <2>1, MainStepInv, LaunchInv, PowerLossInv, DiskInv DEF Next, Step, dirVars
  <1>2. ASSUME IndInv, UNCHANGED vars PROVE IndInv'
    BY <1>2 DEF vars, IndInv, Inv, TypeOK, ClusterInv, Sound, SlotsInv, AskedInv, WatcherInv,
                KnownInv,
                HttpInv, WaitMeansOver, PanicNeedsRace, Slots
  <1> QED
    BY InitIndInv, <1>1, <1>2, PTL DEF Spec
-----------------------------------------------------------------------------
\* Every variable of the process and its surroundings stays in its range.
THEOREM LifecycleTypeCorrect == Spec => []TypeOK
  BY SpecIndInv, PTL DEF IndInv

\* Wherever an error, a crash or a loss of power ended earlier starts, postgres
\* is started on a finished data directory, or on one whose marker a loss of
\* power left without the files it stands for (postgres.initdb,
\* markAsInitialized).
THEOREM ClusterIsComplete == Spec => []CompleteCluster
  <1>1. IndInv => CompleteCluster
    BY DEF IndInv, Inv, ClusterInv, CompleteCluster, Sound
  <1> QED
    BY <1>1, SpecIndInv, PTL

\* A server that exits, by whichever way, leaves no postgres that was not told
\* to end (Server.Start, Server.Stop, Server.Wait).
THEOREM NothingIsLeftRunning == Spec => []NoOrphan
  <1>1. IndInv => NoOrphan
    BY DEF IndInv, Inv, KnownInv, NoOrphan
  <1> QED
    BY <1>1, SpecIndInv, PTL

\* For every MaxConnections with which postgres starts at all, there are enough
\* connections for the pool and execConn, and for psql beside them (spawn).
THEOREM ConnectionsSuffice == Spec => []EnoughSlots
  <1>1. IndInv => EnoughSlots
    <2> SUFFICES ASSUME IndInv, p.main \in {"replay", "writer", "http", "started", "wait"}
                 PROVE  PoolMax + 1 <= Slots /\ 3 <= Slots
      BY DEF EnoughSlots
    <2>1. Reserved < Slots
      BY DEF IndInv, Inv, SlotsInv, Late
    <2> QED
      BY <2>1, SlotsFacts DEF IndInv, PoolMax
  <1> QED
    BY <1>1, SpecIndInv, PTL

\* When Run returns without an error, nobody listens and postgres has exited
\* (Server.Wait).
THEOREM WaitIsTrue == Spec => []WaitMeansOver
  BY SpecIndInv, PTL DEF IndInv, Inv

\* A nil s.qs or s.http is only met after a death of postgres or in a Stop.
THEOREM PanicsNeedRaces == Spec => []PanicNeedsRace
  BY SpecIndInv, PTL DEF IndInv, Inv
=============================================================================
