---------------------------- MODULE MutationLog ----------------------------
(***************************************************************************)
(* The mutation log of src/src/arla/mutationstore/store.go: callers of     *)
(* Write hand a request to one writer goroutine over the buffered channel  *)
(* "in"; the writer encodes the mutation as a line of the file, syncs the  *)
(* file and answers over the request's own unbuffered channel.  Close may  *)
(* come at any time, a write or a sync may fail, the process may be killed *)
(* and the machine may lose power; the log is then opened and replayed     *)
(* again (Server.startLog and Server.replayLog).                           *)
(***************************************************************************)
EXTENDS Naturals, Sequences

CONSTANTS Calls,        \* the calls of Log.Write, one mutation each
          Cap,          \* capacity of the channel "in" (1000 in the code)
          MaxRestarts   \* bound: how often the process may die

ASSUME CapAssumption == Cap \in Nat \ {0}
ASSUME RestartsAssumption == MaxRestarts \in Nat

VARIABLES
    phase,      \* "down", "opened" (Open returned) or "serving" (replayed)
    restarts,   \* how often the process died
    closed,     \* Log.closed, an unsynchronised flag
    chan,       \* whether the channel "in" was closed
    in,         \* the requests buffered in the channel
    count,      \* Log.count
    pc,         \* where each call of Write is
    seen,       \* the value of count a call loaded for count++
    wpc,        \* where the writer goroutine is
    cur,        \* the request the writer received last
    file,       \* the complete records of the file, in order
    bare,       \* the positions of those that no newline follows
    torn,       \* whether the file ends with a part of a record
    synced      \* how many of the records are known to be on the disk

callVars == <<pc, seen, count>>
chanVars == <<closed, chan, in>>
fileVars == <<file, bare, torn, synced>>
procVars == <<phase, restarts>>
vars == <<phase, restarts, closed, chan, in, count, pc, seen, wpc, cur,
          file, bare, torn, synced>>

Written == {file[i] : i \in DOMAIN file}

\* A call between its channel send and the answer.
Queued == {"load", "store", "wait"}
Active == Queued \cup {"send"}
PcStates == Active \cup {"idle", "ok", "err", "refused", "panic", "killed"}
WpcStates == {"recv", "encode", "sync", "ack", "nack", "check", "exit"}

\* Every line of the file is one record (the last needs no newline).
Readable == ~torn /\ bare \subseteq {Len(file)}

TypeOK == /\ phase \in {"down", "opened", "serving"}
          /\ restarts \in 0..MaxRestarts
          /\ closed \in BOOLEAN
          /\ chan \in {"open", "closed"}
          /\ in \in Seq(Calls)
          /\ count \in Nat
          /\ pc \in [Calls -> PcStates]
          /\ seen \in [Calls -> Nat]
          /\ wpc \in WpcStates
          /\ cur \in Calls \cup {"none"}
          /\ file \in Seq(Calls)
          /\ bare \subseteq Nat
          /\ torn \in BOOLEAN
          /\ synced \in Nat

Init == /\ phase = "down"
        /\ restarts = 0
        /\ closed = FALSE
        /\ chan = "open"
        /\ in = <<>>
        /\ count = 0
        /\ pc = [c \in Calls |-> "idle"]
        /\ seen = [c \in Calls |-> 0]
        /\ wpc = "exit"
        /\ cur = "none"
        /\ file = <<>>
        /\ bare = {}
        /\ torn = FALSE
        /\ synced = 0

-----------------------------------------------------------------------------
(* Log.Write, as the goroutine of one caller runs it.                      *)

\* The test of l.closed.  The server starts to serve after the replay.
WriteCheck(c) ==
    /\ phase = "serving"
    /\ pc[c] = "idle"
    /\ pc' = [pc EXCEPT ![c] = IF closed THEN "refused" ELSE "send"]
    /\ UNCHANGED <<procVars, chanVars, fileVars, seen, count, wpc, cur>>

\* l.in <- r blocks while the buffer is full and panics on a closed channel.
WriteSend(c) ==
    /\ pc[c] = "send"
    /\ \/ /\ chan = "closed"
          /\ pc' = [pc EXCEPT ![c] = "panic"]
          /\ UNCHANGED in
       \/ /\ chan = "open"
          /\ Len(in) < Cap
          /\ in' = Append(in, c)
          /\ pc' = [pc EXCEPT ![c] = "load"]
    /\ UNCHANGED <<procVars, fileVars, closed, chan, seen, count, wpc, cur>>

\* l.count++ loads the shared counter ...
WriteLoad(c) ==
    /\ pc[c] = "load"
    /\ seen' = [seen EXCEPT ![c] = count]
    /\ pc' = [pc EXCEPT ![c] = "store"]
    /\ UNCHANGED <<procVars, chanVars, fileVars, count, wpc, cur>>

\* ... and stores it, without a lock in between.
WriteStore(c) ==
    /\ pc[c] = "store"
    /\ count' = seen[c] + 1
    /\ pc' = [pc EXCEPT ![c] = "wait"]
    /\ UNCHANGED <<procVars, chanVars, fileVars, seen, wpc, cur>>

-----------------------------------------------------------------------------
(* Log.Close, called by Server.Stop.                                       *)

CloseFlag ==
    /\ phase = "serving"
    /\ ~closed
    /\ closed' = TRUE
    /\ UNCHANGED <<procVars, callVars, fileVars, chan, in, wpc, cur>>

CloseChan ==
    /\ phase = "serving"
    /\ closed
    /\ chan = "open"
    /\ chan' = "closed"
    /\ UNCHANGED <<procVars, callVars, fileVars, closed, in, wpc, cur>>

-----------------------------------------------------------------------------
(* Log.writer, the only goroutine that touches the file.                   *)

\* r, ok := <-l.in; a closed channel still delivers what it has buffered.
WriterRecv ==
    /\ wpc = "recv"
    /\ in # <<>>
    /\ cur' = Head(in)
    /\ in' = Tail(in)
    /\ wpc' = "encode"
    /\ UNCHANGED <<procVars, callVars, fileVars, closed, chan>>

\* Mutant: on a closed channel the loop continues.
WriterRecvClosedIgnored ==
    /\ wpc = "recv"
    /\ in = <<>>
    /\ chan = "closed"
    /\ UNCHANGED vars

WriterRecvClosed ==
    /\ wpc = "recv"
    /\ in = <<>>
    /\ chan = "closed"
    /\ wpc' = "exit"
    /\ UNCHANGED <<procVars, callVars, chanVars, fileVars, cur>>

\* enc.Encode writes the record and a newline.  What is written behind a part
\* of a record is lost in it; what is written behind a record without a newline
\* shares its line.
WriterEncode ==
    /\ wpc = "encode"
    /\ file' = IF torn THEN file ELSE Append(file, cur)
    /\ wpc' = "sync"
    /\ UNCHANGED <<procVars, callVars, chanVars, bare, torn, synced, cur>>

\* The file took only a part of what enc.Encode wrote: of the record, or all
\* but the newline.
PartialWrite ==
    \/ torn' = TRUE /\ UNCHANGED <<file, bare>>
    \/ /\ ~torn
       /\ file' = Append(file, cur)
       /\ bare' = bare \cup {Len(file) + 1}
       /\ UNCHANGED torn

\* Mutant: the error of enc.Encode is not looked at.
WriterEncodeErrorIgnored ==
    /\ wpc = "encode"
    /\ PartialWrite \/ UNCHANGED <<file, bare, torn>>
    /\ wpc' = "sync"
    /\ UNCHANGED <<procVars, callVars, chanVars, synced, cur>>

\* A nil mutation or a mutation that cannot be marshalled writes nothing, a
\* failed write may leave a part of the line.
WriterEncodeError ==
    /\ wpc = "encode"
    /\ PartialWrite \/ UNCHANGED <<file, bare, torn>>
    /\ wpc' = "nack"
    /\ UNCHANGED <<procVars, callVars, chanVars, synced, cur>>

\* Mutant: the answer is given without f.Sync.
WriterSyncSkipped ==
    /\ wpc = "sync"
    /\ wpc' = "ack"
    /\ UNCHANGED <<procVars, callVars, chanVars, fileVars, cur>>

WriterSync ==
    /\ wpc = "sync"
    /\ synced' = Len(file)
    /\ wpc' = "ack"
    /\ UNCHANGED <<procVars, callVars, chanVars, file, bare, torn, cur>>

\* Mutant: a failed f.Sync makes the writer try the request again.
WriterSyncErrorRetries ==
    /\ wpc = "sync"
    /\ wpc' = "encode"
    /\ UNCHANGED <<procVars, callVars, chanVars, fileVars, cur>>

WriterSyncError ==
    /\ wpc = "sync"
    /\ wpc' = "nack"
    /\ UNCHANGED <<procVars, callVars, chanVars, fileVars, cur>>

\* Mutant: no answer is sent.
WriterAckSilent ==
    /\ wpc = "ack"
    /\ wpc' = "check"
    /\ UNCHANGED <<procVars, callVars, chanVars, fileVars, cur>>

\* r.err <- nil: the answer is handed over when the caller waits for it.
WriterAck ==
    /\ wpc = "ack"
    /\ pc[cur] = "wait"
    /\ pc' = [pc EXCEPT ![cur] = "ok"]
    /\ wpc' = "check"
    /\ UNCHANGED <<procVars, chanVars, fileVars, seen, count, cur>>

\* Mutant: the writer goes on after an error.
WriterNackContinues ==
    /\ wpc = "nack"
    /\ pc[cur] = "wait"
    /\ pc' = [pc EXCEPT ![cur] = "err"]
    /\ wpc' = "recv"
    /\ UNCHANGED <<procVars, chanVars, fileVars, seen, count, cur>>

\* r.err <- err, after which the goroutine returns.
WriterNack ==
    /\ wpc = "nack"
    /\ pc[cur] = "wait"
    /\ pc' = [pc EXCEPT ![cur] = "err"]
    /\ wpc' = "exit"
    /\ UNCHANGED <<procVars, chanVars, fileVars, seen, count, cur>>

\* if l.closed { return }, whatever the channel has buffered.
WriterCheckClosed ==
    /\ wpc = "check"
    /\ wpc' = IF closed THEN "exit" ELSE "recv"
    /\ UNCHANGED <<procVars, callVars, chanVars, fileVars, cur>>

Writer == \/ WriterRecv \/ WriterRecvClosed
          \/ WriterEncode \/ WriterEncodeError
          \/ WriterSync \/ WriterSyncError
          \/ WriterAck \/ WriterNack \/ WriterCheckClosed

-----------------------------------------------------------------------------
(* The life of the process.                                                *)

\* mutationstore.Open: a new Log on the file that is there, a new writer.
Open ==
    /\ phase = "down"
    /\ phase' = "opened"
    /\ closed' = FALSE
    /\ chan' = "open"
    /\ in' = <<>>
    /\ count' = 0
    /\ wpc' = "recv"
    /\ UNCHANGED <<fileVars, restarts, pc, seen, cur>>

\* Server.replayLog: WriteTo sends every line to the query engine and counts
\* it; psql stops at the first line that is not one mutation, and Start then
\* fails, closes the log and lets the process exit.
Replay ==
    /\ phase = "opened"
    /\ IF Readable THEN /\ phase' = "serving"
                        /\ count' = count + Len(file)
                        /\ UNCHANGED wpc
                   ELSE /\ phase' = "down"
                        /\ wpc' = "exit"
                        /\ UNCHANGED count
    /\ UNCHANGED <<chanVars, fileVars, restarts, pc, seen, cur>>

\* What the death of the process leaves of everything but the file.
ProcessDies ==
    /\ phase # "down"
    /\ restarts < MaxRestarts
    /\ restarts' = restarts + 1
    /\ phase' = "down"
    /\ in' = <<>>
    /\ pc' = [c \in Calls |-> IF pc[c] \in Active THEN "killed" ELSE pc[c]]
    /\ wpc' = "exit"
    /\ UNCHANGED <<closed, chan, seen, count, cur>>

\* Only the process dies: the file keeps what was written to it, possibly a
\* part of the line that was being written.
Kill ==
    /\ ProcessDies
    /\ \/ wpc = "encode" /\ PartialWrite
       \/ UNCHANGED <<file, bare, torn>>
    /\ UNCHANGED synced

\* The machine dies: of the bytes that were not synced any first part may be
\* left.  "cut": they end just before the newline of record n.
PowerLoss ==
    /\ ProcessDies
    /\ \E n \in synced..Len(file), cut \in BOOLEAN :
          /\ cut => n > synced
          /\ file' = SubSeq(file, 1, n)
          /\ bare' = {i \in bare : i <= n} \cup (IF cut THEN {n} ELSE {})
          /\ torn' \in IF ~cut /\ (n < Len(file) \/ torn \/ wpc = "encode")
                       THEN BOOLEAN ELSE {FALSE}
          /\ synced' = n

WriteStep(c) == WriteSend(c) \/ WriteLoad(c) \/ WriteStore(c)

Next == \/ \E c \in Calls : WriteCheck(c) \/ WriteStep(c)
        \/ Writer
        \/ CloseFlag \/ CloseChan
        \/ Open \/ Replay \/ Kill \/ PowerLoss

Spec == Init /\ [][Next]_vars

\* Goroutines that can run do run; nothing forces a caller to call Write,
\* the server to close the log, an operation to fail or the process to die.
Fairness == /\ \A c \in Calls : WF_vars(WriteStep(c))
            /\ WF_vars(Writer)
            /\ WF_vars(CloseChan)

FairSpec == Spec /\ Fairness

-----------------------------------------------------------------------------
(* Properties.                                                             *)

\* A Write that returned nil has its record in the part of the file that is
\* known to be on the disk, through crashes, power loss and restarts
\* (enc.Encode, then f.Sync, then r.err <- nil in Log.writer).
AckedDurable ==
    \A c \in Calls : pc[c] = "ok" =>
        \E i \in 1..Len(file) : i <= synced /\ file[i] = c

\* The file has no mutation twice, and none of a Write that was refused or
\* that panicked on the closed channel (Log.Write, Log.writer).
LoggedOnce ==
    /\ \A i, j \in DOMAIN file : file[i] = file[j] => i = j
    /\ \A c \in Written : pc[c] \notin {"idle", "send", "refused", "panic"}

\* No record is ever written behind a part of a record, where nothing could
\* read it back: the writer returns after a failed Encode, and a log that ends
\* with a part of a record is not served again (Log.writer, Server.Start).
NeverGarbled == ~(torn /\ phase = "serving" /\ wpc \notin {"nack", "exit"})

\* What is known to be on the disk is never changed or cut off again.
SyncedPrefixStable ==
    [][\A i \in 1..synced : /\ i \in DOMAIN file'
                            /\ file'[i] = file[i]
                            /\ i \in bare' <=> i \in bare]_vars

\* A Write that was let in returns, panics or dies with the process, unless
\* the writer goroutine is gone (Log.Write against Log.writer).
WriteReturns ==
    \A c \in Calls : pc[c] \in Active ~> (pc[c] \notin Active \/ wpc = "exit")

\* Close ends the writer goroutine (Log.Close, Log.writer).
CloseStopsWriter == (closed /\ phase = "serving") ~> wpc = "exit"

\* The log as its users see it.
AbsState(p) == CASE p \in Active -> "open"
                 [] p \in {"err", "refused", "panic"} -> "err"
                 [] p = "killed" -> "gone"
                 [] OTHER -> p

Durable == INSTANCE DurableLog
             WITH log <- file,
                  bare <- bare,
                  torn <- torn,
                  dead <- phase = "serving" /\ wpc = "exit",
                  st <- [c \in Calls |-> AbsState(pc[c])]

\* The log implements the durable log that the server relies on.
ImplementsDurableLog == Durable!LogSpec

\* errors.go:82 promises an answer to a request that is being processed "when
\* server is shutdown or when qs or ms fails"; this is the part of it that
\* Log.Write would have to keep: it returns.
EveryWriteReturns == \A c \in Calls : pc[c] \in Active ~> pc[c] \notin Active

\* store.go:1, "reading/writing a sequential log of Mutations to disk in a safe
\* way": a mutation whose Write returned nil is on a line of its own, so that
\* WriteTo can send it to the query engine.
AckedOnOwnLine ==
    \A i \in DOMAIN file : pc[file[i]] = "ok" =>
        (i - 1) \notin bare /\ (i \in bare => i = Len(file))
=============================================================================
