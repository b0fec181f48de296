----------------------------- MODULE DurableLog -----------------------------
(***************************************************************************)
(* What the mutation log (src/src/arla/mutationstore) promises the server: *)
(* one total order of mutations that only grows at its end, where a Write  *)
(* that returned nil stays for ever, a Write that was refused leaves       *)
(* nothing, and a Write that failed is the last that the log answers until *)
(* the process ends.  MutationLog is shown to implement this               *)
(* specification; Arla composes it with the request handlers and the query *)
(* engine.                                                                 *)
(***************************************************************************)
EXTENDS Naturals, Sequences

CONSTANT Calls          \* the calls of Log.Write, one mutation each

VARIABLES log,          \* the complete records of the log file, in order
          bare,         \* the positions of those that no newline follows
          torn,         \* whether a part of a record is at the end
          dead,         \* the writer goroutine has returned
          st            \* how far each call of Write has come

logVars == <<log, bare, torn, dead, st>>

\* "open": Write has been entered and has not returned.
\* "gone": the process died with the call open.
States == {"idle", "open", "ok", "err", "gone"}

Logged == {log[i] : i \in DOMAIN log}

LogTypeOK == /\ log \in Seq(Calls)
             /\ bare \subseteq Nat
             /\ torn \in BOOLEAN
             /\ dead \in BOOLEAN
             /\ st \in [Calls -> States]

LogInit == /\ log = <<>>
           /\ bare = {}
           /\ torn = FALSE
           /\ dead = FALSE
           /\ st = [c \in Calls |-> "idle"]

\* Write is entered and the log accepts the request.
Call(c) == /\ st[c] = "idle"
           /\ st' = [st EXCEPT ![c] = "open"]
           /\ UNCHANGED <<log, bare, torn, dead>>

\* Write returns "cannot write to closed log".
Refuse(c) == /\ st[c] = "idle"
             /\ st' = [st EXCEPT ![c] = "err"]
             /\ UNCHANGED <<log, bare, torn, dead>>

\* The record of an open call becomes the last of the file.
Append1(c) == /\ st[c] = "open"
              /\ c \notin Logged
              /\ ~torn /\ ~dead
              /\ log' = Append(log, c)
              /\ UNCHANGED <<bare, torn, dead, st>>

\* Only a part of the record of an open call is written, behind which nothing
\* is appended, or all of it but the newline.
Tear(c) == /\ st[c] = "open"
           /\ ~dead
           /\ \/ torn' = TRUE /\ UNCHANGED <<log, bare>>
              \/ /\ c \notin Logged
                 /\ log' = Append(log, c)
                 /\ bare' = bare \cup {Len(log) + 1}
                 /\ UNCHANGED torn
           /\ UNCHANGED <<dead, st>>

\* Write returns nil.
Ack(c) == /\ st[c] = "open"
          /\ c \in Logged
          /\ ~dead
          /\ st' = [st EXCEPT ![c] = "ok"]
          /\ UNCHANGED <<log, bare, torn, dead>>

\* Write returns an error and the writer goroutine returns; the record may be
\* in the file all the same (a failed fsync).
Fail(c) == /\ st[c] = "open"
           /\ ~dead
           /\ st' = [st EXCEPT ![c] = "err"]
           /\ dead' = TRUE
           /\ UNCHANGED <<log, bare, torn>>

\* Write panics because the log was closed after it had let the call in.
Panic(c) == /\ st[c] = "open"
            /\ c \notin Logged
            /\ st' = [st EXCEPT ![c] = "err"]
            /\ UNCHANGED <<log, bare, torn, dead>>

\* The writer goroutine returns because the log was closed.  Calls that are
\* open then stay open.
WriterEnds == /\ ~dead
              /\ dead' = TRUE
              /\ UNCHANGED <<log, bare, torn, st>>

\* What the log can become while the process dies: the record of one open
\* call more may reach it.
Grown == {log} \cup
         {Append(log, c) : c \in {d \in Calls : st[d] = "open" /\ d \notin Logged
                                               /\ ~torn /\ ~dead}}

\* The process dies.  Only records nobody was told of can be missing
\* afterwards, or have lost their newline ("cut").
LoseTail == \E g \in Grown : \E n \in 0..Len(g), cut \in BOOLEAN :
               /\ \A i \in (n + 1)..Len(g) : st[g[i]] # "ok"
               /\ cut => n > 0 /\ st[g[n]] # "ok"
               /\ bare' = {i \in bare : i <= n} \cup (IF cut THEN {n} ELSE {})
               /\ log' = SubSeq(g, 1, n)
               /\ torn' \in BOOLEAN
               /\ torn' => \/ torn
                           \/ n < Len(g)
                           \/ \E c \in Calls : st[c] = "open"
               /\ dead' = FALSE
               /\ st' = [c \in Calls |-> IF st[c] = "open" THEN "gone" ELSE st[c]]

LogNext == \/ LoseTail \/ WriterEnds
           \/ \E c \in Calls : \/ Call(c) \/ Refuse(c) \/ Append1(c)
                               \/ Tear(c) \/ Ack(c) \/ Fail(c) \/ Panic(c)

LogSpec == LogInit /\ [][LogNext]_logVars
=============================================================================
