-------------------------------- MODULE Arla --------------------------------
(***************************************************************************)
(* The server of src/src/arla/main.go: HTTP handlers that run              *)
(* concurrently, each of which applies a mutation to the query engine and  *)
(* then writes it to the mutation log; Start, which builds the query       *)
(* engine anew and replays the log into it before it serves; Stop, the     *)
(* death of postgres, and the death of the process or the machine.         *)
(*                                                                         *)
(* The log is DurableLog, which MutationLog implements.  What a mutation   *)
(* does to the data is the application's (Effect); that one is applied at  *)
(* a time is the engine's (execMu, and one SQL statement per mutation).    *)
(***************************************************************************)
EXTENDS Naturals, Sequences, FiniteSets

CONSTANTS Exec, Register, Query, Auth,  \* the requests, by end point
          DB,           \* the states of the data
          Fresh,        \* the data after bootstrap
          Rejected,     \* the outcome of a mutation that fails
          Effect,       \* outcome of a mutation, by data and request
          Quoted,       \* requests whose mutation contains a single quote
          Long,         \* requests whose mutation is a line over 64KB
          MaxInFlight,  \* bound: requests in process at the same time
          MaxRestarts   \* bound: how often the process ends

Writes == Exec \cup Register
Reqs == Writes \cup Query \cup Auth

ASSUME EffectAssumption == /\ Effect \in [DB \X Writes -> DB \cup {Rejected}]
                           /\ Fresh \in DB
                           /\ Rejected \notin DB
ASSUME KindAssumption == /\ Exec \cap Register = {}
                         /\ Writes \cap (Query \cup Auth) = {}
                         /\ Query \cap Auth = {}
                         /\ MaxRestarts \in Nat

VARIABLES
    proc,       \* "down", or how far Server.Start has come; "failed" in the
                \* replay, "broken" by another error
    stop,       \* how far Server.Stop has come
    accepting,  \* the listener takes requests
    qs, ms,     \* Server.qs and Server.ms are not nil
    closed,     \* Log.closed
    alive,      \* the postgres process runs
    db,         \* the data in it
    ran,        \* history: the mutations it ran since it was started
    pos,        \* the lines of the log that were replayed
    at,         \* where the handler of each request is, or its answer
    restarts,   \* how often the process ended
    log, bare, torn, dead, st   \* the mutation log

Log == INSTANCE DurableLog WITH Calls <- Writes

logVars == <<log, bare, torn, dead, st>>
engineVars == <<alive, db, ran>>
lifeVars == <<proc, stop, accepting, pos, restarts>>
vars == <<proc, stop, accepting, qs, ms, closed, alive, db, ran, pos, at,
          restarts, log, bare, torn, dead, st>>

Ran == {ran[i] : i \in DOMAIN ran}

\* Steps of a handler, named for what it does next.
Stages == {"begin", "register", "recheck", "mutate", "applied", "write",
           "logging", "login", "query"}
\* "dropped": the handler panicked and net/http closed the connection.
\* "lost": the process ended with the request unanswered.
Answers == {"200", "400", "401", "500", "503", "dropped", "lost"}

TypeOK == /\ proc \in {"down", "engine", "opened", "serving", "failed", "broken"}
          /\ stop \in {"no", "http", "qs", "close", "wait"}
          /\ accepting \in BOOLEAN
          /\ qs \in BOOLEAN
          /\ ms \in BOOLEAN
          /\ closed \in BOOLEAN
          /\ alive \in BOOLEAN
          /\ db \in DB
          /\ ran \in Seq(Writes)
          /\ pos \in Nat
          /\ at \in [Reqs -> {"idle"} \cup Stages \cup Answers]
          /\ restarts \in 0..MaxRestarts
          /\ Log!LogTypeOK

Init == /\ proc = "down"
        /\ stop = "no"
        /\ accepting = FALSE
        /\ qs = FALSE
        /\ ms = FALSE
        /\ closed = FALSE
        /\ alive = FALSE
        /\ db = Fresh
        /\ ran = <<>>
        /\ pos = 0
        /\ at = [r \in Reqs |-> "idle"]
        /\ restarts = 0
        /\ Log!LogInit

InFlight == {r \in Reqs : at[r] \in Stages}

Goto(r, stage) == at' = [at EXCEPT ![r] = stage]

-----------------------------------------------------------------------------
(* The handlers.  None of them holds a lock from one step to the next.     *)

\* ServeHTTP calls the handler of the request.
Accept(r) ==
    /\ accepting
    /\ at[r] = "idle"
    /\ Cardinality(InFlight) < MaxInFlight
    /\ Goto(r, IF r \in Auth THEN "login" ELSE "begin")
    /\ UNCHANGED <<lifeVars, engineVars, logVars, qs, ms, closed>>

\* The token is not valid or the body cannot be read.
BadRequest(r) ==
    /\ at[r] = IF r \in Auth THEN "login" ELSE "begin"
    /\ \/ Goto(r, "400")
       \/ r \in Exec \cup Query /\ Goto(r, "401")
    /\ UNCHANGED <<lifeVars, engineVars, logVars, qs, ms, closed>>

\* if s.qs == nil { return tempError() }
CheckEngine(r) ==
    /\ at[r] \in {"begin", "recheck"}
    /\ \/ ~qs /\ Goto(r, "503")
       \/ qs /\ r \in Query /\ Goto(r, "query")
       \/ qs /\ r \in Register /\ at[r] = "begin" /\ Goto(r, "register")
       \/ qs /\ (r \in Exec \/ at[r] = "recheck") /\ Goto(r, "mutate")
    /\ UNCHANGED <<lifeVars, engineVars, logVars, qs, ms, closed>>

\* s.qs.Register(b): the application turns the request into a mutation.
RegisterUser(r) ==
    /\ at[r] = "register"
    /\ \/ ~qs /\ Goto(r, "dropped")
       \/ qs /\ Goto(r, "400")
       \/ qs /\ alive /\ Goto(r, "recheck")
    /\ UNCHANGED <<lifeVars, engineVars, logVars, qs, ms, closed>>

\* Mutant: the error of s.qs.Mutate is not looked at.
MutateUnchecked(r) ==
    LET new == Effect[<<db, r>>]
    IN  /\ at[r] = "mutate"
        /\ Goto(r, IF qs THEN "applied" ELSE "dropped")
        /\ IF qs /\ alive /\ new # Rejected
           THEN db' = new /\ ran' = Append(ran, r)
           ELSE UNCHANGED <<db, ran>>
        /\ UNCHANGED <<lifeVars, logVars, qs, ms, closed, alive>>

\* s.qs.Mutate(m), which runs arla_exec on the one connection for mutations.
Mutate(r) ==
    LET new == Effect[<<db, r>>]
    IN  /\ at[r] = "mutate"
        /\ IF qs /\ alive /\ new # Rejected
           THEN /\ Goto(r, "applied")
                /\ db' = new
                /\ ran' = Append(ran, r)
           ELSE /\ Goto(r, IF qs THEN "400" ELSE "dropped")
                /\ UNCHANGED <<db, ran>>
        /\ UNCHANGED <<lifeVars, logVars, qs, ms, closed, alive>>

\* if s.ms == nil { return tempError() }
CheckLog(r) ==
    /\ at[r] = "applied"
    /\ Goto(r, IF ms THEN "write" ELSE "503")
    /\ UNCHANGED <<lifeVars, engineVars, logVars, qs, ms, closed>>

\* The status of a failed Log.Write.
WriteError(r) == IF r \in Exec THEN "400" ELSE "500"

\* Mutant: the handler answers without waiting for Log.Write.
WriteLogAsync(r) ==
    /\ at[r] = "write"
    /\ \/ ~ms /\ Goto(r, "dropped") /\ UNCHANGED logVars
       \/ ms /\ closed /\ Log!Refuse(r) /\ Goto(r, WriteError(r))
       \/ ms /\ ~closed /\ Log!Call(r) /\ Goto(r, "200")
    /\ UNCHANGED <<lifeVars, engineVars, qs, ms, closed>>

\* s.ms.Write(m) is entered: the log takes the request or has been closed.
WriteLog(r) ==
    /\ at[r] = "write"
    /\ \/ ~ms /\ Goto(r, "dropped") /\ UNCHANGED logVars
       \/ ms /\ closed /\ Log!Refuse(r) /\ Goto(r, WriteError(r))
       \/ ms /\ ~closed /\ Log!Call(r) /\ Goto(r, "logging")
    /\ UNCHANGED <<lifeVars, engineVars, qs, ms, closed>>

\* s.ms.Write(m) returns nil; the answer of execHandler may fail to be sent.
LogWritten(r) ==
    /\ at[r] = "logging"
    /\ Log!Ack(r)
    /\ \/ r \in Exec /\ Goto(r, "200")
       \/ r \in Exec /\ Goto(r, "500")
       \/ r \in Register /\ Goto(r, "login")
    /\ UNCHANGED <<lifeVars, engineVars, qs, ms, closed>>

\* Mutant: a failed Log.Write is answered with tempError.
LogFailedTemp(r) ==
    /\ at[r] = "logging"
    /\ \/ Log!Fail(r) /\ Goto(r, "503")
       \/ closed /\ Log!Panic(r) /\ Goto(r, "dropped")
    /\ UNCHANGED <<lifeVars, engineVars, qs, ms, closed>>

\* s.ms.Write(m) returns an error, or panics on the channel that was closed.
LogFailed(r) ==
    /\ at[r] = "logging"
    /\ \/ Log!Fail(r) /\ Goto(r, WriteError(r))
       \/ closed /\ Log!Panic(r) /\ Goto(r, "dropped")
    /\ UNCHANGED <<lifeVars, engineVars, qs, ms, closed>>

\* s.login asks the engine for the claims, without a test of s.qs; the token
\* may fail to be signed or sent.
Login(r) ==
    /\ at[r] = "login"
    /\ \/ ~qs /\ Goto(r, "dropped")
       \/ qs /\ Goto(r, "401")
       \/ qs /\ alive /\ Goto(r, "500")
       \/ qs /\ alive /\ Goto(r, "200")
    /\ UNCHANGED <<lifeVars, engineVars, logVars, qs, ms, closed>>

\* s.qs.Query reads the data.
RunQuery(r) ==
    /\ at[r] = "query"
    /\ \/ ~qs /\ Goto(r, "dropped")
       \/ qs /\ Goto(r, "400")
       \/ qs /\ alive /\ Goto(r, "200")
    /\ UNCHANGED <<lifeVars, engineVars, logVars, qs, ms, closed>>

Handle(r) == \/ BadRequest(r) \/ CheckEngine(r) \/ RegisterUser(r) \/ Mutate(r)
             \/ CheckLog(r) \/ WriteLog(r) \/ LogWritten(r) \/ LogFailed(r)
             \/ Login(r) \/ RunQuery(r)

\* The writer goroutine of the log, which MutationLog has in detail.
LogWriter ==
    /\ \/ \E r \in Writes : Log!Append1(r) \/ Log!Tear(r)
       \/ closed /\ Log!WriterEnds
    /\ UNCHANGED <<lifeVars, engineVars, qs, ms, closed, at>>

-----------------------------------------------------------------------------
(* Server.Start.                                                           *)

\* Mutant: postgres starts on the data of the last time.
StartEngineDirty ==
    /\ proc = "down"
    /\ proc' = "engine"
    /\ qs' = TRUE
    /\ alive' = TRUE
    /\ ran' = <<>>
    /\ UNCHANGED <<logVars, stop, accepting, ms, closed, db, pos, at, restarts>>

\* startQueryEngine: a new postgres with a new database.
StartEngine ==
    /\ proc = "down"
    /\ proc' = "engine"
    /\ qs' = TRUE
    /\ alive' = TRUE
    /\ db' = Fresh
    /\ ran' = <<>>
    /\ UNCHANGED <<logVars, stop, accepting, ms, closed, pos, at, restarts>>

\* Mutant: the replay starts at the second line.
StartLogSkips ==
    /\ proc = "engine"
    /\ proc' = "opened"
    /\ ms' = TRUE
    /\ closed' = FALSE
    /\ pos' = IF log = <<>> THEN 0 ELSE 1
    /\ UNCHANGED <<engineVars, logVars, stop, accepting, qs, at, restarts>>

\* startLog
StartLog ==
    /\ proc = "engine"
    /\ proc' = "opened"
    /\ ms' = TRUE
    /\ closed' = FALSE
    /\ pos' = 0
    /\ UNCHANGED <<engineVars, logVars, stop, accepting, qs, at, restarts>>

\* Record i ends its line.
EndsLine(i) == i \in bare => i = Len(log) /\ ~torn

\* Whether a record reaches arla_replay and is executed: the scanner of WriteTo
\* stops at a line over 64KB; the line becomes an SQL string literal as it
\* is; psql stops at the first statement that fails, as one with two records
\* on its line does.
Replays(i) == /\ alive
              /\ EndsLine(i)
              /\ log[i] \notin Long
              /\ log[i] \notin Quoted
              /\ Effect[<<db, log[i]>>] # Rejected

\* replayLog, one line.
ReplayLine ==
    /\ proc = "opened"
    /\ pos < Len(log)
    /\ IF Replays(pos + 1)
       THEN /\ db' = Effect[<<db, log[pos + 1]>>]
            /\ ran' = Append(ran, log[pos + 1])
            /\ pos' = pos + 1
            /\ UNCHANGED proc
       ELSE /\ proc' = "failed"
            /\ UNCHANGED <<db, ran, pos>>
    /\ UNCHANGED <<logVars, stop, accepting, qs, ms, closed, alive, at, restarts>>

\* Mutant: the error of the scanner, which stops at a long line, is not looked at.
ReplayEndSilent ==
    /\ proc = "opened"
    /\ pos < Len(log) => log[pos + 1] \in Long
    /\ IF torn \/ ~alive THEN proc' = "failed" /\ UNCHANGED accepting
                         ELSE proc' = "serving" /\ accepting' = TRUE
    /\ UNCHANGED <<engineVars, logVars, stop, qs, ms, closed, pos, at, restarts>>

\* replayLog, the end of the file, where a part of a record is a last line;
\* then startHTTP.
ReplayEnd ==
    /\ proc = "opened"
    /\ pos = Len(log)
    /\ IF torn \/ ~alive THEN proc' = "failed" /\ UNCHANGED accepting
                         ELSE proc' = "serving" /\ accepting' = TRUE
    /\ UNCHANGED <<engineVars, logVars, stop, qs, ms, closed, pos, at, restarts>>

\* mutationstore.Open or s.qs.NewWriter returns an error.
StartFails ==
    /\ proc = "engine" \/ (proc = "opened" /\ pos = 0)
    /\ proc' = "broken"
    /\ UNCHANGED <<engineVars, logVars, stop, accepting, qs, ms, closed, pos, at, restarts>>

-----------------------------------------------------------------------------
(* The end of the engine and of the process.                               *)

EngineDies ==
    /\ alive
    /\ alive' = FALSE
    /\ UNCHANGED <<lifeVars, logVars, qs, ms, closed, db, ran, at>>

\* Mutant: the goroutine does not wait for the end of postgres.
EngineWatcherEager ==
    /\ qs
    /\ qs' = FALSE
    /\ UNCHANGED <<lifeVars, engineVars, logVars, ms, closed, at>>

\* The goroutine of startQueryEngine that waits for postgres.
EngineWatcher ==
    /\ qs
    /\ ~alive
    /\ qs' = FALSE
    /\ UNCHANGED <<lifeVars, engineVars, logVars, ms, closed, at>>

\* Server.Stop: http.Stop asks another goroutine to close the listener.
StopHTTP ==
    /\ proc = "serving"
    /\ stop = "no"
    /\ stop' = "http"
    /\ UNCHANGED <<engineVars, logVars, proc, accepting, qs, ms, closed, pos, at, restarts>>

CloseListener ==
    /\ stop # "no"
    /\ accepting
    /\ accepting' = FALSE
    /\ UNCHANGED <<engineVars, logVars, proc, stop, qs, ms, closed, pos, at, restarts>>

\* Postgres is killed and s.qs set to nil.
StopEngine ==
    /\ stop = "http"
    /\ stop' = "qs"
    /\ alive' = IF qs THEN FALSE ELSE alive
    /\ qs' = FALSE
    /\ UNCHANGED <<logVars, proc, accepting, ms, closed, db, ran, pos, at, restarts>>

\* Log.Close
StopLog ==
    /\ stop = "qs"
    /\ stop' = "close"
    /\ closed' = TRUE
    /\ UNCHANGED <<engineVars, logVars, proc, accepting, qs, ms, pos, at, restarts>>

\* s.ms = nil
StopLogNil ==
    /\ stop = "close"
    /\ stop' = "wait"
    /\ ms' = FALSE
    /\ UNCHANGED <<engineVars, logVars, proc, accepting, qs, closed, pos, at, restarts>>

\* What the end of the process leaves of everything but the log.
ProcessEnds ==
    /\ proc' = "down"
    /\ stop' = "no"
    /\ accepting' = FALSE
    /\ qs' = FALSE
    /\ ms' = FALSE
    /\ closed' = FALSE
    /\ alive' = FALSE
    /\ pos' = 0
    /\ at' = [r \in Reqs |-> IF at[r] \in Stages THEN "lost" ELSE at[r]]
    /\ UNCHANGED <<db, ran>>

\* Stop, having waited for the listener, returns; or Start failed and called
\* Stop.  The process exits.
Exit ==
    /\ \/ /\ stop = "wait" /\ ~accepting
          /\ restarts < MaxRestarts
          /\ restarts' = restarts + 1
       \/ proc \in {"failed", "broken"} /\ UNCHANGED restarts
    /\ ProcessEnds
    /\ Log!LoseTail
    /\ UNCHANGED <<log, bare, torn>>

\* The process is killed or the machine dies.
Crash ==
    /\ proc # "down"
    /\ restarts < MaxRestarts
    /\ restarts' = restarts + 1
    /\ ProcessEnds
    /\ Log!LoseTail

Next == \/ \E r \in Reqs : Accept(r) \/ Handle(r)
        \/ LogWriter
        \/ StartEngine \/ StartLog \/ StartFails \/ ReplayLine \/ ReplayEnd
        \/ EngineDies \/ EngineWatcher
        \/ StopHTTP \/ CloseListener \/ StopEngine \/ StopLog \/ StopLogNil
        \/ Exit \/ Crash

Spec == Init /\ [][Next]_vars

-----------------------------------------------------------------------------
(* Properties.                                                             *)

\* Whoever was told that a mutation succeeded finds it in the log file, after
\* any number of crashes, stops and restarts (execHandler and
\* registrationHandler answer after Log.Write returned nil).
AckedLogged == \A r \in Writes : at[r] = "200" => r \in Log!Logged

\* While the server serves and postgres runs, every mutation somebody was told
\* of has been run by this postgres, be it by a handler or by the replay
\* (Server.Start serves only after the whole log was replayed).
AckedVisible ==
    (proc = "serving" /\ alive) =>
        \A r \in Writes : at[r] = "200" => r \in Ran

\* "Service is temporarily unavailable" means that the mutation will not come
\* back after a restart: the client may send it again (tempError is returned
\* before Log.Write is called).
TempErrorNotLogged == \A r \in Writes : at[r] = "503" => r \notin Log!Logged

\* The data that a replay of s leaves, or Rejected when it stops.
Rebuild(s) ==
    LET run[i \in 0..Len(s)] ==
            IF i = 0 THEN Fresh
            ELSE IF run[i - 1] = Rejected THEN Rejected ELSE Effect[<<run[i - 1], s[i]>>]
    IN  run[Len(s)]

\* When the engine has run nothing that is not in the log, a replay of the log
\* gives the data that the engine has (execHandler and registrationHandler
\* log what they ran; replayLog runs what is logged).
LogRebuildsStore ==
    (proc = "serving" /\ alive /\ Ran \subseteq Log!Logged) => Rebuild(log) = db

\* main.go:115, "replayLog sends all previous mutations to the querystore": with
\* a postgres that runs it fails only when the file is damaged, because its end
\* is a part of a record or a newline between two records is missing.  No
\* mutation that was run once is refused when it is run again (execHandler,
\* registrationHandler, replayLog).
UndamagedLogReplays ==
    (proc = "failed" /\ alive) => torn \/ \E i \in bare : i < Len(log)

\* errors.go:82, "If a request is in the middle of being processed when server
\* is shutdown or when qs or ms fails then return a 'come back later' error":
\* that error, and the panic on a nil s.qs or s.ms that may take its place, are
\* for these times only.  No handler meets a nil field or a closed log while
\* postgres runs and Stop was not called (Server.Start sets the fields before it
\* serves; the watcher waits for postgres).
ServesUntilTheEnd ==
    [][\A r \in Reqs : at[r] \in Stages /\ at'[r] \in {"503", "dropped"}
                          => stop # "no" \/ ~alive]_vars

\* The order of the mutations that somebody was told of is settled: the record
\* of a Write that returned nil keeps its place in the file, and so in every
\* later replay, whatever crashes, stops and writes come (Log.Write answers
\* after the file was synced; the writer only appends).
AckedInPlace ==
    [][\A i \in DOMAIN log :
          st[log[i]] = "ok" => i \in DOMAIN log' /\ log'[i] = log[i]]_vars
=============================================================================
