----------------------------- MODULE ArlaProofs -----------------------------
(***************************************************************************)
(* Proofs for every application (DB, Effect), every set of requests and    *)
(* every number of them in flight that                                     *)
(*   - the type invariant holds;                                           *)
(*   - a mutation that was acknowledged is in the log for ever;            *)
(*   - a server that serves has run every mutation that was acknowledged;  *)
(*   - a mutation answered "temporarily unavailable" is not in the log;    *)
(*   - no handler meets a nil field or a closed log before the end;        *)
(*   - the log is used as it allows, and what was acknowledged keeps its   *)
(*     place in it;                                                        *)
(* and, for requests one at a time or mutations that commute, that         *)
(*   - the log rebuilds the data of a postgres that ran what is logged;    *)
(*   - the replay of an undamaged log comes to its end.                    *)
(*                                                                         *)
(* The invariant that carries the first four (IndInv) pairs the place of a *)
(* handler with the state of its call of Log.Write, and says that what the *)
(* log holds was run by this postgres: by a handler, or by the replay,     *)
(* which leaves no line out before the server serves.  The one for the     *)
(* data (StoreInv) says that the mutations that were run and are not       *)
(* logged lead, in some order, from the data of the log to the data of the *)
(* engine.                                                                 *)
(***************************************************************************)
EXTENDS Arla, Recursion, TLAPS

\* Places of a handler that has not called Log.Write (and the answer of one
\* that never will).
Unlogged == {"idle", "begin", "register", "recheck", "mutate", "applied",
             "write", "503"}
\* Places that only the handlers of mutations reach.
Mutating == {"register", "recheck", "mutate", "applied", "write", "logging"}
\* Places after s.qs.Mutate and before the end of Log.Write.
Applied == {"applied", "write", "logging"}

\* A handler at place p has its call of Log.Write in state q.
Fits(p, q) == /\ p \in Unlogged => q = "idle"
              /\ p = "logging" <=> q = "open"
              /\ p \in {"login", "200"} => q = "ok"

CallInv == \A w \in Writes : /\ Fits(at[w], st[w])
                             /\ st[w] = "ok" => w \in Log!Logged
                             /\ st[w] = "idle" => w \notin Log!Logged

HandlerInv == \A r \in Reqs : /\ at[r] \in Mutating => r \in Writes
                              /\ at[r] = "begin" => r \notin Auth
                              /\ at[r] = "query" => r \in Query
                              /\ at[r] \in Stages => proc = "serving"
                              /\ at[r] \in Applied => r \in Ran

ReplayInv == /\ accepting => proc = "serving"
             /\ stop # "no" => proc = "serving"
             /\ proc = "opened" => /\ pos <= Len(log)
                                   /\ \A i \in 1..pos : log[i] \in Ran
             /\ proc = "serving" => Log!Logged \subseteq Ran

IndInv == TypeOK /\ CallInv /\ HandlerInv /\ ReplayInv
-----------------------------------------------------------------------------
\* What is in a sequence.
Elems(s) == {s[i] : i \in DOMAIN s}

\* Append adds one element at the end (the log, the history of the engine).
LEMMA AppendFacts ==
  ASSUME NEW S, NEW s \in Seq(S), NEW e \in S
  PROVE  /\ Append(s, e) \in Seq(S)
         /\ Len(Append(s, e)) = Len(s) + 1
         /\ Elems(Append(s, e)) = Elems(s) \cup {e}
         /\ \A i \in 1..Len(s) : Append(s, e)[i] = s[i]
  <1>1. /\ Append(s, e) \in Seq(S)
        /\ Len(Append(s, e)) = Len(s) + 1
        /\ DOMAIN Append(s, e) = 1..(Len(s) + 1)
        /\ DOMAIN s = 1..Len(s) /\ Len(s) \in Nat
        /\ Append(s, e)[Len(s) + 1] = e
        /\ \A i \in 1..Len(s) : Append(s, e)[i] = s[i]
    OBVIOUS
  <1>2. \A i \in DOMAIN Append(s, e) : i \in DOMAIN s \/ i = Len(s) + 1
    BY <1>1
  <1>3. Len(s) + 1 \in DOMAIN Append(s, e) /\ \A i \in DOMAIN s : i \in DOMAIN Append(s, e)
    BY <1>1
  <1> QED
    BY <1>1, <1>2, <1>3 DEF Elems

\* What is in a sequence after Append.
LEMMA AppendSet ==
  ASSUME NEW S, NEW s \in Seq(S), NEW e \in S
  PROVE  Elems(Append(s, e)) = Elems(s) \cup {e}
  BY AppendFacts

\* A prefix of a sequence (what a crash leaves of the log).
LEMMA PrefixFacts ==
  ASSUME NEW S, NEW s \in Seq(S), NEW n \in 0..Len(s)
  PROVE  /\ SubSeq(s, 1, n) \in Seq(S)
         /\ DOMAIN SubSeq(s, 1, n) = 1..n
         /\ \A i \in 1..n : SubSeq(s, 1, n)[i] = s[i] /\ i \in 1..Len(s)
  OBVIOUS

\* The empty log and the empty channel are the initial states.
LEMMA InitIndInv == Init => IndInv
  <1> SUFFICES ASSUME Init PROVE IndInv
    OBVIOUS
  <1> USE DEF Init, Log!LogInit
  <1>1. log \in Seq(Writes) /\ ran \in Seq(Writes) /\ Log!Logged = {}
    BY DEF Log!Logged
  <1>2. TypeOK
    <2>1. restarts \in 0..MaxRestarts /\ pos \in Nat
      BY KindAssumption
    <2>2. db \in DB
      BY EffectAssumption
    <2>3. Log!LogTypeOK
      BY <1>1, Zenon DEF Log!LogTypeOK, Log!States
    <2>4. at \in [Reqs -> {"idle"} \cup Stages \cup Answers]
      OBVIOUS
    <2> QED
      BY <1>1, <2>1, <2>2, <2>3, <2>4, Zenon DEF TypeOK
  <1>3. CallInv
    BY <1>1 DEF CallInv, Fits, Unlogged, Reqs
  <1>4. HandlerInv
    BY DEF HandlerInv, Mutating, Stages, Applied
  <1>5. ReplayInv
    BY DEF ReplayInv
  <1> QED
    BY <1>2, <1>3, <1>4, <1>5 DEF IndInv

\* A step of one handler that leaves the log file alone keeps the invariant
\* when the place it goes to fits the state of its call of Log.Write.
LEMMA HandlerStep ==
  ASSUME IndInv, TypeOK',
         NEW r \in Reqs,
         proc = "serving", UNCHANGED <<lifeVars, log>>,
         \A x \in Reqs \ {r} : at'[x] = at[x],
         \A w \in Writes \ {r} : st'[w] = st[w],
         Ran \subseteq Ran',
         at'[r] \in Mutating => r \in Writes,
         at'[r] = "begin" => r \notin Auth,
         at'[r] = "query" => r \in Query,
         at'[r] \in Applied => r \in Ran',
         r \in Writes => /\ Fits(at'[r], st'[r])
                         /\ st'[r] = "ok" => r \in Log!Logged
                         /\ st'[r] = "idle" => r \notin Log!Logged
  PROVE  IndInv'
  <1> USE DEF IndInv
  <1>0. Log!Logged' = Log!Logged
    BY DEF Log!Logged, lifeVars
  <1>1. CallInv'
    <2> SUFFICES ASSUME NEW w \in Writes
                 PROVE  /\ Fits(at'[w], st'[w])
                        /\ st'[w] = "ok" => w \in Log!Logged
                        /\ st'[w] = "idle" => w \notin Log!Logged
      BY <1>0 DEF CallInv, Fits
    <2>1. CASE w = r
      BY <2>1
    <2>2. CASE w # r
      <3>1. at'[w] = at[w] /\ st'[w] = st[w]
        BY <2>2 DEF Reqs
      <3> QED
        BY <3>1 DEF CallInv
    <2> QED
      BY <2>1, <2>2
  <1>2. HandlerInv'
    <2> SUFFICES ASSUME NEW x \in Reqs
                 PROVE  /\ at'[x] \in Mutating => x \in Writes
                        /\ at'[x] = "begin" => x \notin Auth
                        /\ at'[x] = "query" => x \in Query
                        /\ at'[x] \in Stages => proc' = "serving"
                        /\ at'[x] \in Applied => x \in Ran'
      BY DEF HandlerInv
    <2>1. CASE x = r
      BY <2>1 DEF lifeVars
    <2>2. CASE x # r
      BY <2>2 DEF HandlerInv, lifeVars
    <2> QED
      BY <2>1, <2>2
  <1>3. ReplayInv'
    BY <1>0 DEF ReplayInv, lifeVars
  <1> QED
    BY <1>1, <1>2, <1>3

\* A step of one handler that changes nothing but its own place.
LEMMA GotoStep ==
  ASSUME IndInv, NEW r \in Reqs, NEW p \in {"idle"} \cup Stages \cup Answers,
         proc = "serving", Goto(r, p),
         UNCHANGED <<lifeVars, engineVars, logVars, qs, ms, closed>>,
         p \in Mutating => r \in Writes,
         p = "begin" => r \notin Auth,
         p = "query" => r \in Query,
         p \in Applied => r \in Ran,
         r \in Writes => Fits(p, st[r])
  PROVE  IndInv'
  <1>1. TypeOK' /\ at'[r] = p /\ \A x \in Reqs \ {r} : at'[x] = at[x]
    BY DEF IndInv, TypeOK, Log!LogTypeOK, Goto, lifeVars, engineVars, logVars
  <1>2. st' = st /\ log' = log /\ Ran' = Ran /\ UNCHANGED lifeVars
    BY DEF Ran, engineVars, logVars, lifeVars
  <1>3. r \in Writes => /\ st[r] = "ok" => r \in Log!Logged
                        /\ st[r] = "idle" => r \notin Log!Logged
    BY DEF IndInv, CallInv
  <1> QED
    BY <1>1, <1>2, <1>3, HandlerStep

\* Every step of a handler that only reads the server's fields and goes on.
LEMMA ReadStepIndInv ==
  ASSUME IndInv, NEW r \in Reqs,
         Accept(r) \/ BadRequest(r) \/ CheckEngine(r) \/ RegisterUser(r)
           \/ CheckLog(r) \/ Login(r) \/ RunQuery(r)
  PROVE  IndInv'
  <1>0. /\ at \in [Reqs -> {"idle"} \cup Stages \cup Answers]
        /\ UNCHANGED <<lifeVars, engineVars, logVars, qs, ms, closed>>
        /\ r \in Writes => Fits(at[r], st[r])
        /\ at[r] \in Mutating => r \in Writes
        /\ at[r] = "begin" => r \notin Auth
        /\ at[r] = "query" => r \in Query
        /\ at[r] \in Stages => proc = "serving"
        /\ at[r] \in Applied => r \in Ran
    BY DEF IndInv, TypeOK, CallInv, HandlerInv, Accept, BadRequest, CheckEngine,
           RegisterUser, CheckLog, Login, RunQuery
  <1>1. CASE Accept(r)
    <2>1. proc = "serving" /\ at[r] = "idle"
      BY <1>1 DEF Accept, IndInv, ReplayInv
    <2>2. r \in Auth => r \notin Writes
      BY KindAssumption
    <2>3. CASE r \in Auth
      BY <1>0, <1>1, <2>1, <2>2, <2>3, GotoStep DEF Accept, Stages, Mutating, Applied
    <2>4. CASE r \notin Auth
      BY <1>0, <1>1, <2>1, <2>4, GotoStep
      DEF Accept, Stages, Mutating, Applied, Fits, Unlogged
    <2> QED
      BY <2>3, <2>4
  <1>2. CASE BadRequest(r)
    <2>1. PICK code \in {"400", "401"} : Goto(r, code)
      BY <1>2 DEF BadRequest
    <2>2. CASE r \in Auth
      <3>1. at[r] = "login" /\ r \notin Writes
        BY <1>2, <2>2, KindAssumption DEF BadRequest
      <3> QED
        BY <1>0, <2>1, <3>1, GotoStep DEF Stages, Answers, Mutating, Applied
    <2>3. CASE r \notin Auth
      <3>1. at[r] = "begin"
        BY <1>2, <2>3 DEF BadRequest
      <3> QED
        BY <1>0, <2>1, <3>1, GotoStep
        DEF Stages, Answers, Mutating, Applied, Fits, Unlogged
    <2> QED
      BY <2>2, <2>3
  <1>3. CASE CheckEngine(r)
    <2>1. at[r] \in {"begin", "recheck"} /\ r \notin Query => r \in Writes
      BY <1>0 DEF Reqs, Mutating
    <2>2. at[r] \in {"begin", "recheck"}
      BY <1>3 DEF CheckEngine
    <2>3. r \in Query => r \notin Writes
      BY KindAssumption
    <2>4. CASE Goto(r, "503")
      BY <1>0, <2>2, <2>4, GotoStep
      DEF Stages, Answers, Mutating, Applied, Fits, Unlogged
    <2>5. CASE r \in Query /\ Goto(r, "query")
      BY <1>0, <2>2, <2>3, <2>5, GotoStep
      DEF Stages, Answers, Mutating, Applied, Fits, Unlogged
    <2>6. CASE r \notin Query /\ (Goto(r, "register") \/ Goto(r, "mutate"))
      BY <1>0, <2>1, <2>2, <2>6, GotoStep
      DEF Stages, Answers, Mutating, Applied, Fits, Unlogged
    <2>7. r \in Exec \cup Register => r \notin Query
      BY <2>3 DEF Writes
    <2>8. at[r] = "recheck" => r \notin Query
      BY <1>0, <2>3 DEF Mutating
    <2> QED
      BY <1>3, <2>4, <2>5, <2>6, <2>7, <2>8 DEF CheckEngine
  <1>4. CASE RegisterUser(r)
    <2>1. PICK p \in {"dropped", "400", "recheck"} : Goto(r, p)
      BY <1>4 DEF RegisterUser
    <2>2. at[r] = "register"
      BY <1>4 DEF RegisterUser
    <2> QED
      BY <1>0, <2>1, <2>2, GotoStep
      DEF Stages, Answers, Mutating, Applied, Fits, Unlogged
  <1>5. CASE CheckLog(r)
    <2>1. PICK p \in {"write", "503"} : Goto(r, p)
      BY <1>5 DEF CheckLog
    <2>2. at[r] = "applied"
      BY <1>5 DEF CheckLog
    <2> QED
      BY <1>0, <2>1, <2>2, GotoStep
      DEF Stages, Answers, Mutating, Applied, Fits, Unlogged
  <1>6. CASE Login(r) \/ RunQuery(r)
    <2>1. PICK p \in {"dropped", "400", "401", "500", "200"} : Goto(r, p)
      BY <1>6 DEF Login, RunQuery
    <2>2. at[r] \in {"login", "query"}
      BY <1>6 DEF Login, RunQuery
    <2>3. CASE at[r] = "login"
      BY <1>0, <2>1, <2>3, GotoStep
      DEF Stages, Answers, Mutating, Applied, Fits, Unlogged
    <2>4. CASE at[r] = "query"
      BY <1>0, <2>1, <2>4, GotoStep, KindAssumption
      DEF Stages, Answers, Mutating, Applied, Fits, Unlogged
    <2> QED
      BY <2>2, <2>3, <2>4
  <1> QED
    BY <1>1, <1>2, <1>3, <1>4, <1>5, <1>6

\* A handler applies its mutation.
LEMMA MutateIndInv ==
  ASSUME IndInv, NEW r \in Reqs, Mutate(r)
  PROVE  IndInv'
  <1>0. /\ at[r] = "mutate" /\ r \in Writes /\ proc = "serving" /\ Fits(at[r], st[r])
        /\ db \in DB /\ ran \in Seq(Writes)
        /\ UNCHANGED <<lifeVars, logVars, qs, ms, closed, alive>>
    BY DEF IndInv, TypeOK, CallInv, HandlerInv, Mutate, Mutating, Stages
  <1>3. ran \in Seq(Writes) /\ r \in Writes
    BY <1>0
  <1>1. CASE qs /\ alive /\ Effect[<<db, r>>] # Rejected
    <2>1. Goto(r, "applied") /\ db' = Effect[<<db, r>>] /\ ran' = Append(ran, r)
      BY <1>1 DEF Mutate
    <2>2. db' \in DB
      BY <1>0, <1>1, <2>1, EffectAssumption
    <2>3. ran' \in Seq(Writes) /\ Ran' = Ran \cup {r}
      <3>1. Elems(Append(ran, r)) = Elems(ran) \cup {r}
        BY <1>3, AppendSet
      <3>2. Append(ran, r) \in Seq(Writes)
        BY <1>3, AppendFacts
      <3> QED
        BY <2>1, <3>1, <3>2 DEF Ran, Elems
    <2>4. /\ at' \in [Reqs -> {"idle"} \cup Stages \cup Answers]
          /\ at'[r] = "applied"
          /\ \A x \in Reqs \ {r} : at'[x] = at[x]
      BY <2>1 DEF Goto, IndInv, TypeOK, Stages
    <2>5. TypeOK'
      BY <1>0, <2>2, <2>3, <2>4
      DEF IndInv, TypeOK, Log!LogTypeOK, lifeVars, logVars
    <2>6. Fits("applied", st[r]) /\ st[r] = "idle" /\ r \notin Log!Logged
      BY <1>0 DEF Fits, Unlogged, IndInv, CallInv
    <2>7. st' = st /\ log' = log /\ UNCHANGED lifeVars
      BY <1>0 DEF logVars
    <2> QED
      BY <1>0, <2>3, <2>4, <2>5, <2>6, <2>7, HandlerStep
  <1>2. CASE ~(qs /\ alive /\ Effect[<<db, r>>] # Rejected)
    <2>1. PICK p \in {"400", "dropped"} : Goto(r, p) /\ UNCHANGED <<db, ran>>
      BY <1>2 DEF Mutate
    <2> QED
      BY <1>0, <2>1, GotoStep
      DEF Stages, Answers, Mutating, Applied, Fits, Unlogged, engineVars
  <1> QED
    BY <1>1, <1>2

\* A handler enters Log.Write or Log.Write returns to it.
LEMMA WriteStepIndInv ==
  ASSUME IndInv, NEW r \in Reqs, WriteLog(r) \/ LogWritten(r) \/ LogFailed(r)
  PROVE  IndInv'
  <1>0. /\ at[r] \in {"write", "logging"} /\ r \in Writes /\ proc = "serving"
        /\ Fits(at[r], st[r]) /\ r \in Ran
        /\ at \in [Reqs -> {"idle"} \cup Stages \cup Answers]
        /\ st \in [Writes -> Log!States]
        /\ UNCHANGED <<lifeVars, engineVars, qs, ms, closed>>
    BY DEF IndInv, TypeOK, Log!LogTypeOK, CallInv, HandlerInv, WriteLog, LogWritten,
           LogFailed, Mutating, Stages, Applied
  <1>1. ASSUME NEW p \in {"idle"} \cup Stages \cup Answers, Goto(r, p),
               NEW q \in Log!States, st' = [st EXCEPT ![r] = q],
               log' = log, bare' = bare, torn' = torn, dead' \in BOOLEAN,
               q # "idle", Fits(p, q), q = "ok" => r \in Log!Logged,
               p \notin {"begin", "query"}
        PROVE  IndInv'
    <2>1. /\ at' \in [Reqs -> {"idle"} \cup Stages \cup Answers]
          /\ at'[r] = p
          /\ \A x \in Reqs \ {r} : at'[x] = at[x]
      BY <1>0, <1>1 DEF Goto
    <2>2. /\ st' \in [Writes -> Log!States]
          /\ st'[r] = q
          /\ \A x \in Writes \ {r} : st'[x] = st[x]
      BY <1>0, <1>1
    <2>3. TypeOK' /\ Ran' = Ran /\ UNCHANGED lifeVars
      BY <1>0, <1>1, <2>1, <2>2
      DEF IndInv, TypeOK, Log!LogTypeOK, lifeVars, engineVars, Ran
    <2> QED
      BY <1>0, <1>1, <2>1, <2>2, <2>3, HandlerStep
  <1>2. CASE WriteLog(r)
    <2>1. CASE Goto(r, "dropped") /\ UNCHANGED logVars
      BY <1>0, <1>2, <2>1, GotoStep
      DEF WriteLog, Stages, Answers, Mutating, Applied, Fits, Unlogged
    <2>2. CASE Log!Refuse(r) /\ Goto(r, WriteError(r))
      BY <1>1, <2>2
      DEF Log!Refuse, Log!States, WriteError, Answers, Fits, Unlogged, IndInv, TypeOK,
          Log!LogTypeOK
    <2>3. CASE Log!Call(r) /\ Goto(r, "logging")
      BY <1>1, <2>3
      DEF Log!Call, Log!States, Stages, Fits, Unlogged, IndInv, TypeOK, Log!LogTypeOK
    <2> QED
      BY <1>2, <2>1, <2>2, <2>3 DEF WriteLog
  <1>3. CASE LogWritten(r)
    <2>1. PICK p \in {"200", "500", "login"} : Goto(r, p)
      BY <1>3 DEF LogWritten
    <2> QED
      BY <1>1, <1>3, <2>1
      DEF LogWritten, Log!Ack, Log!States, Stages, Answers, Fits, Unlogged, IndInv,
          TypeOK, Log!LogTypeOK
  <1>4. CASE LogFailed(r)
    <2>1. PICK p \in {"400", "500", "dropped"} : Goto(r, p)
      BY <1>4 DEF LogFailed, WriteError
    <2>2. /\ st' = [st EXCEPT ![r] = "err"]
          /\ log' = log /\ bare' = bare /\ torn' = torn /\ dead' \in BOOLEAN
      BY <1>4, Zenon DEF LogFailed, Log!Fail, Log!Panic, IndInv, TypeOK, Log!LogTypeOK
    <2> QED
      BY <1>1, <2>1, <2>2 DEF Log!States, Answers, Fits, Unlogged
  <1> QED
    BY <1>2, <1>3, <1>4

\* The writer goroutine of the log: what it appends was run by the engine.
LEMMA LogWriterIndInv ==
  ASSUME IndInv, LogWriter
  PROVE  IndInv'
  <1>0. UNCHANGED <<lifeVars, engineVars, qs, ms, closed, at>> /\ Ran' = Ran
    BY DEF LogWriter, engineVars, Ran
  <1>1. ASSUME NEW w \in Writes, st[w] = "open", log' = Append(log, w),
               bare' \subseteq Nat, torn' = torn, dead' = dead, st' = st
        PROVE  IndInv'
    <2>2. at[w] = "logging" /\ w \in Reqs
      BY <1>1 DEF IndInv, CallInv, Fits, Reqs
    <2>3. proc = "serving" /\ w \in Ran
      BY <2>2 DEF IndInv, HandlerInv, Stages, Applied
    <2>4. log \in Seq(Writes)
      BY DEF IndInv, TypeOK, Log!LogTypeOK
    <2>5. log' \in Seq(Writes) /\ Log!Logged' = Log!Logged \cup {w}
      <3>1. Elems(Append(log, w)) = Elems(log) \cup {w}
        BY <2>4, AppendSet
      <3> QED
        BY <1>1, <2>4, <3>1, AppendFacts DEF Log!Logged, Elems
    <2>6. TypeOK'
      BY <1>0, <1>1, <2>5 DEF IndInv, TypeOK, Log!LogTypeOK, lifeVars, engineVars
    <2>7. CallInv'
      BY <1>0, <1>1, <2>5 DEF IndInv, CallInv, Fits
    <2>8. HandlerInv'
      BY <1>0 DEF IndInv, HandlerInv, lifeVars
    <2>9. ReplayInv'
      BY <1>0, <2>3, <2>5 DEF IndInv, ReplayInv, lifeVars
    <2> QED
      BY <2>6, <2>7, <2>8, <2>9 DEF IndInv
  <1>2. ASSUME log' = log, bare' = bare, st' = st, torn' \in BOOLEAN, dead' \in BOOLEAN
        PROVE  IndInv'
    <2>1. Log!Logged' = Log!Logged
      BY <1>2 DEF Log!Logged
    <2>2. TypeOK'
      BY <1>0, <1>2 DEF IndInv, TypeOK, Log!LogTypeOK, lifeVars, engineVars
    <2>3. CallInv'
      BY <1>0, <1>2, <2>1 DEF IndInv, CallInv, Fits
    <2>4. HandlerInv' /\ ReplayInv'
      BY <1>0, <1>2, <2>1 DEF IndInv, HandlerInv, ReplayInv, lifeVars
    <2> QED
      BY <2>2, <2>3, <2>4 DEF IndInv
  <1>3. torn \in BOOLEAN /\ dead \in BOOLEAN /\ bare \subseteq Nat /\ Len(log) \in Nat
    BY DEF IndInv, TypeOK, Log!LogTypeOK
  <1>4. ASSUME NEW w \in Writes, Log!Append1(w)
        PROVE  IndInv'
    BY <1>1, <1>3, <1>4 DEF Log!Append1
  <1>5. ASSUME NEW w \in Writes, Log!Tear(w)
        PROVE  IndInv'
    <2>1. CASE torn' = TRUE /\ UNCHANGED <<log, bare>>
      BY <1>2, <1>3, <1>5, <2>1 DEF Log!Tear
    <2>2. CASE log' = Append(log, w) /\ bare' = bare \cup {Len(log) + 1} /\ UNCHANGED torn
      <3>1. bare' \subseteq Nat
        <4>1. Len(log) + 1 \in Nat
          BY <1>3
        <4> QED
          BY <1>3, <2>2, <4>1, Zenon
      <3> QED
        BY <1>1, <1>5, <2>2, <3>1 DEF Log!Tear
    <2> QED
      BY <1>5, <2>1, <2>2, Zenon DEF Log!Tear
  <1>6. ASSUME Log!WriterEnds PROVE IndInv'
    BY <1>2, <1>3, <1>6 DEF Log!WriterEnds
  <1> QED
    BY <1>4, <1>5, <1>6 DEF LogWriter

\* Steps of Start and Stop that neither end the process nor replay a line
\* leave the handlers and the log where they are.
LEMMA LifeStepIndInv ==
  ASSUME IndInv,
         StartEngine \/ StartLog \/ StartFails \/ ReplayEnd \/ EngineDies \/ EngineWatcher
           \/ StopHTTP \/ CloseListener \/ StopEngine \/ StopLog \/ StopLogNil
  PROVE  IndInv'
  <1> USE DEF lifeVars, engineVars, logVars
  <1>1. log' = log /\ bare' = bare /\ torn' = torn /\ dead' = dead /\ st' = st /\ at' = at
    BY Zenon DEF StartEngine, StartLog, StartFails, ReplayEnd, EngineDies, EngineWatcher, StopHTTP,
           CloseListener, StopEngine, StopLog, StopLogNil
  <1>2. Log!Logged' = Log!Logged
    BY <1>1 DEF Log!Logged
  <1>3. CallInv'
    BY <1>1, <1>2 DEF IndInv, CallInv, Fits
  <1>4. TypeOK'
    <2>0. /\ ran' = ran \/ ran' = <<>>
          /\ db' = db \/ db' = Fresh
          /\ pos' = pos \/ pos' = 0
      BY Zenon DEF StartEngine, StartLog, StartFails, ReplayEnd, EngineDies, EngineWatcher,
             StopHTTP, CloseListener, StopEngine, StopLog, StopLogNil
    <2>1. ran' \in Seq(Writes) /\ db' \in DB /\ pos' \in Nat
      <3>1. ran \in Seq(Writes) /\ db \in DB /\ pos \in Nat
        BY DEF IndInv, TypeOK
      <3>2. <<>> \in Seq(Writes)
        OBVIOUS
      <3>3. Fresh \in DB /\ 0 \in Nat
        BY EffectAssumption
      <3> QED
        BY <2>0, <3>1, <3>2, <3>3, Zenon
    <2>2. /\ proc' \in {"down", "engine", "opened", "serving", "failed", "broken"}
          /\ stop' \in {"no", "http", "qs", "close", "wait"}
          /\ restarts' = restarts
      BY Zenon DEF IndInv, TypeOK, StartEngine, StartLog, StartFails, ReplayEnd, EngineDies,
             EngineWatcher, StopHTTP, CloseListener, StopEngine, StopLog, StopLogNil
    <2>3. /\ accepting' \in BOOLEAN /\ qs' \in BOOLEAN /\ ms' \in BOOLEAN
          /\ closed' \in BOOLEAN /\ alive' \in BOOLEAN
      BY Zenon DEF IndInv, TypeOK, StartEngine, StartLog, StartFails, ReplayEnd, EngineDies,
             EngineWatcher, StopHTTP, CloseListener, StopEngine, StopLog, StopLogNil
    <2> QED
      BY <1>1, <2>1, <2>2, <2>3 DEF IndInv, TypeOK, Log!LogTypeOK
  <1>5. CASE StartEngine \/ StartLog \/ StartFails
    <2>1. /\ proc # "serving" /\ proc' # "serving" /\ stop' = stop
          /\ accepting' = accepting
          /\ proc' = "opened" => pos' = 0
      BY <1>5 DEF StartEngine, StartLog, StartFails
    <2>2. HandlerInv'
      BY <1>1, <2>1 DEF IndInv, HandlerInv, Applied, Stages
    <2>3. ReplayInv'
      <3>1. Len(log) \in Nat
        BY DEF IndInv, TypeOK, Log!LogTypeOK
      <3> QED
        BY <1>1, <2>1, <3>1 DEF IndInv, ReplayInv
    <2> QED
      BY <1>3, <1>4, <2>2, <2>3 DEF IndInv
  <1>6. CASE ReplayEnd
    <2>1. /\ proc = "opened" /\ pos = Len(log) /\ ran' = ran /\ stop' = stop
          /\ proc' \in {"failed", "serving"}
      BY <1>6 DEF ReplayEnd
    <2>2. Ran' = Ran /\ Log!Logged \subseteq Ran
      <3>1. \A i \in DOMAIN log : i \in 1..Len(log)
        BY DEF IndInv, TypeOK, Log!LogTypeOK
      <3> QED
        BY <2>1, <3>1 DEF IndInv, ReplayInv, Ran, Log!Logged
    <2>3. HandlerInv'
      BY <1>1, <2>1, <2>2 DEF IndInv, HandlerInv, Applied, Stages
    <2>4. (accepting => proc = "serving")' /\ (stop # "no" => proc = "serving")'
      BY <1>6, <2>1 DEF ReplayEnd, IndInv, ReplayInv, TypeOK
    <2>5. ReplayInv'
      BY <1>2, <2>1, <2>2, <2>4 DEF ReplayInv
    <2> QED
      BY <1>3, <1>4, <2>3, <2>5 DEF IndInv
  <1>7. CASE EngineDies \/ EngineWatcher \/ StopHTTP \/ CloseListener \/ StopEngine
               \/ StopLog \/ StopLogNil
    <2>1. /\ proc' = proc /\ ran' = ran /\ pos' = pos
          /\ accepting' = accepting \/ accepting' = FALSE
          /\ stop' # "no" => stop # "no" \/ proc = "serving"
      BY <1>7, Zenon DEF EngineDies, EngineWatcher, StopHTTP, CloseListener, StopEngine,
                  StopLog, StopLogNil
    <2>2. Ran' = Ran
      BY <2>1 DEF Ran
    <2>3. HandlerInv'
      BY <1>1, <2>1, <2>2 DEF IndInv, HandlerInv
    <2>4. (accepting => proc = "serving")' /\ (stop # "no" => proc = "serving")'
      <3>1. accepting \in BOOLEAN /\ accepting' \in BOOLEAN
        BY <1>4 DEF IndInv, TypeOK
      <3> QED
        BY <2>1, <3>1 DEF IndInv, ReplayInv
    <2>5. ReplayInv'
      BY <1>1, <1>2, <2>1, <2>2, <2>4 DEF IndInv, ReplayInv
    <2> QED
      BY <1>3, <1>4, <2>3, <2>5 DEF IndInv
  <1> QED
    BY <1>5, <1>6, <1>7

\* The replay runs one line of the log or fails.
LEMMA ReplayLineIndInv ==
  ASSUME IndInv, ReplayLine
  PROVE  IndInv'
  <1>0. /\ proc = "opened" /\ pos < Len(log) /\ pos \in Nat
        /\ log \in Seq(Writes) /\ ran \in Seq(Writes) /\ db \in DB
        /\ UNCHANGED <<logVars, stop, accepting, qs, ms, closed, alive, at, restarts>>
    BY DEF ReplayLine, IndInv, TypeOK, Log!LogTypeOK
  <1>1. log' = log /\ bare' = bare /\ torn' = torn /\ dead' = dead /\ st' = st /\ at' = at
    BY <1>0 DEF logVars
  <1>2. Log!Logged' = Log!Logged
    BY <1>1 DEF Log!Logged
  <1>3. CallInv'
    BY <1>1, <1>2 DEF IndInv, CallInv, Fits
  <1>4. HandlerInv'
    BY <1>0, <1>1 DEF IndInv, HandlerInv, Applied, Stages
  <1>5. CASE Replays(pos + 1)
    <2>1. PICK r \in Writes : r = log[pos + 1]
      BY <1>0
    <2>2. db' = Effect[<<db, r>>] /\ ran' = Append(ran, r) /\ pos' = pos + 1 /\ proc' = proc
      BY <1>5, <2>1 DEF ReplayLine
    <2>3. Effect[<<db, r>>] \in DB
      BY <1>0, <1>5, <2>1, EffectAssumption DEF Replays
    <2>4. Append(ran, r) \in Seq(Writes)
      BY <1>0, <2>1, AppendFacts, Zenon
    <2>5. Elems(Append(ran, r)) = Elems(ran) \cup {r}
      <3>1. ran \in Seq(Writes) /\ r \in Writes
        BY <1>0
      <3> QED
        BY <3>1, AppendSet
    <2>6. Ran' = Ran \cup {r}
      BY <2>2, <2>5 DEF Ran, Elems
    <2>7. TypeOK'
      <3>1. pos' \in Nat
        BY <1>0, <2>2
      <3> QED
        BY <1>0, <1>1, <2>2, <2>3, <2>4, <3>1, Zenon DEF IndInv, TypeOK, Log!LogTypeOK
    <2>8. \A i \in 1..pos' : log[i] \in Ran'
      <3>1. \A i \in 1..(pos + 1) : i \in 1..pos \/ i = pos + 1
        BY <1>0
      <3> QED
        BY <1>0, <2>1, <2>2, <2>6, <3>1 DEF IndInv, ReplayInv
    <2>9. pos' <= Len(log)
      BY <1>0, <2>2
    <2>10. ReplayInv'
      BY <1>0, <1>1, <2>2, <2>8, <2>9 DEF IndInv, ReplayInv
    <2> QED
      BY <1>3, <1>4, <2>7, <2>10 DEF IndInv
  <1>6. CASE ~Replays(pos + 1)
    <2>1. proc' = "failed" /\ db' = db /\ ran' = ran /\ pos' = pos
      BY <1>6 DEF ReplayLine
    <2>2. TypeOK'
      BY <1>0, <1>1, <2>1 DEF IndInv, TypeOK, Log!LogTypeOK
    <2>3. ReplayInv'
      BY <1>0, <2>1 DEF IndInv, ReplayInv
    <2> QED
      BY <1>3, <1>4, <2>2, <2>3 DEF IndInv
  <1> QED
    BY <1>5, <1>6

\* What the log becomes while the process ends has records of open calls only
\* behind those it had.
LEMMA GrownFacts ==
  ASSUME IndInv, NEW g \in Log!Grown
  PROVE  /\ g \in Seq(Writes)
         /\ \A i \in DOMAIN log : i \in 1..Len(g) /\ g[i] = log[i]
         /\ \A i \in 1..Len(g) : g[i] \in Log!Logged \/ st[g[i]] = "open"
  <1>1. log \in Seq(Writes)
    BY DEF IndInv, TypeOK, Log!LogTypeOK
  <1>2. CASE g = log
    BY <1>1, <1>2 DEF Log!Logged
  <1>3. ASSUME NEW w \in Writes, st[w] = "open", g = Append(log, w)
        PROVE  /\ g \in Seq(Writes)
               /\ \A i \in DOMAIN log : i \in 1..Len(g) /\ g[i] = log[i]
               /\ \A i \in 1..Len(g) : g[i] \in Log!Logged \/ st[g[i]] = "open"
    <2>1. /\ g \in Seq(Writes) /\ Len(g) = Len(log) + 1 /\ Len(log) \in Nat
          /\ DOMAIN log = 1..Len(log)
          /\ g[Len(log) + 1] = w
          /\ \A i \in 1..Len(log) : g[i] = log[i]
      BY <1>1, <1>3
    <2>2. \A i \in 1..Len(g) : i \in DOMAIN log \/ i = Len(log) + 1
      BY <2>1
    <2>3. \A i \in DOMAIN log : i \in 1..Len(g)
      BY <2>1
    <2> QED
      BY <1>3, <2>1, <2>2, <2>3 DEF Log!Logged
  <1> QED
    BY <1>2, <1>3 DEF Log!Grown

\* The process ends: the log keeps every record that was acknowledged.
LEMMA EndIndInv ==
  ASSUME IndInv, Exit \/ Crash
  PROVE  IndInv'
  <1>0. /\ ProcessEnds /\ Log!LoseTail
        /\ log \in Seq(Writes) /\ st \in [Writes -> Log!States] /\ bare \subseteq Nat
        /\ at \in [Reqs -> {"idle"} \cup Stages \cup Answers]
    BY DEF Exit, Crash, IndInv, TypeOK, Log!LogTypeOK
  <1>1. PICK g \in Log!Grown : \E n \in 0..Len(g), cut \in BOOLEAN :
           /\ \A i \in (n + 1)..Len(g) : st[g[i]] # "ok"
           /\ log' = SubSeq(g, 1, n)
           /\ bare' = {i \in bare : i <= n} \cup (IF cut THEN {n} ELSE {})
           /\ torn' \in BOOLEAN
           /\ dead' = FALSE
           /\ st' = [c \in Writes |-> IF st[c] = "open" THEN "gone" ELSE st[c]]
    BY <1>0 DEF Log!LoseTail
  <1>8. PICK n \in 0..Len(g), cut \in BOOLEAN :
           /\ \A i \in (n + 1)..Len(g) : st[g[i]] # "ok"
           /\ log' = SubSeq(g, 1, n)
           /\ bare' = {i \in bare : i <= n} \cup (IF cut THEN {n} ELSE {})
           /\ torn' \in BOOLEAN
           /\ dead' = FALSE
           /\ st' = [c \in Writes |-> IF st[c] = "open" THEN "gone" ELSE st[c]]
    BY <1>1
  <1>9. /\ g \in Seq(Writes)
        /\ \A i \in DOMAIN log : i \in 1..Len(g) /\ g[i] = log[i]
        /\ \A i \in 1..Len(g) : g[i] \in Log!Logged \/ st[g[i]] = "open"
    BY GrownFacts
  <1>2. /\ at' = [r \in Reqs |-> IF at[r] \in Stages THEN "lost" ELSE at[r]]
        /\ proc' = "down" /\ stop' = "no" /\ pos' = 0 /\ db' = db /\ ran' = ran
        /\ accepting' = FALSE /\ qs' = FALSE /\ ms' = FALSE /\ closed' = FALSE
        /\ alive' = FALSE
    BY <1>0 DEF ProcessEnds
  <1>3. /\ log' \in Seq(Writes) /\ DOMAIN log' = 1..n
        /\ n \in Nat /\ Len(g) \in Nat
        /\ \A i \in 1..n : log'[i] = g[i] /\ i \in 1..Len(g)
    <2>1. log' = SubSeq(g, 1, n)
      BY <1>8
    <2>3. g \in Seq(Writes) /\ n \in 0..Len(g)
      BY <1>9
    <2>2. n \in Nat /\ Len(g) \in Nat
      BY <2>3
    <2> QED
      BY <2>1, <2>2, <2>3, PrefixFacts
  <1>4. TypeOK'
    <2>5. bare' \subseteq Nat
      BY <1>0, <1>3, <1>8, Zenon
    <2>1. Log!LogTypeOK'
      BY <1>0, <1>3, <1>8, <2>5, Zenon DEF Log!LogTypeOK, Log!States
    <2>2. at' \in [Reqs -> {"idle"} \cup Stages \cup Answers]
      BY <1>0, <1>2 DEF Answers
    <2>3. restarts' \in 0..MaxRestarts
      BY KindAssumption DEF Exit, Crash, IndInv, TypeOK
    <2>4. db' \in DB /\ ran' \in Seq(Writes)
      BY <1>2 DEF IndInv, TypeOK
    <2> QED
      BY <1>2, <2>1, <2>2, <2>3, <2>4, Zenon DEF TypeOK
  <1>5. CallInv'
    <2> SUFFICES ASSUME NEW w \in Writes
                 PROVE  /\ Fits(at'[w], st'[w])
                        /\ st'[w] = "ok" => w \in Log!Logged'
                        /\ st'[w] = "idle" => w \notin Log!Logged'
      BY DEF CallInv, Fits
    <2>1. /\ Fits(at[w], st[w])
          /\ st[w] = "ok" => w \in Log!Logged
          /\ st[w] = "idle" => w \notin Log!Logged
          /\ w \in Reqs
      BY DEF IndInv, CallInv, Reqs
    <2>2. /\ st'[w] = IF st[w] = "open" THEN "gone" ELSE st[w]
          /\ at'[w] = IF at[w] \in Stages THEN "lost" ELSE at[w]
      BY <1>2, <1>8, <2>1
    <2>3. Fits(at'[w], st'[w])
      BY <2>1, <2>2 DEF Fits, Unlogged, Stages
    <2>4. ASSUME st[w] = "ok" PROVE w \in Log!Logged'
      <3>1. PICK i \in 1..Len(g) : g[i] = w
        BY <1>9, <2>1, <2>4 DEF Log!Logged
      <3>2. i \in 1..n
        BY <1>3, <1>8, <2>4, <3>1
      <3> QED
        BY <1>3, <3>1, <3>2 DEF Log!Logged
    <2>5. w \in Log!Logged' => w \in Log!Logged \/ st[w] = "open"
      BY <1>3, <1>9 DEF Log!Logged
    <2> QED
      BY <2>1, <2>2, <2>3, <2>4, <2>5
  <1>6. HandlerInv'
    <2> SUFFICES ASSUME NEW x \in Reqs
                 PROVE  /\ at'[x] \in {"idle"} \cup Answers
      BY <1>2 DEF HandlerInv, Mutating, Stages, Applied, Answers
    <2> QED
      BY <1>0, <1>2 DEF Answers
  <1>7. ReplayInv'
    BY <1>2 DEF ReplayInv
  <1> QED
    BY <1>4, <1>5, <1>6, <1>7 DEF IndInv

\* A step that changes nothing keeps the invariant.
LEMMA StutterIndInv ==
  ASSUME IndInv, UNCHANGED vars
  PROVE  IndInv'
  <1>1. Log!Logged' = Log!Logged /\ Ran' = Ran
    BY DEF vars, Log!Logged, Ran
  <1>2. TypeOK'
    BY DEF vars, IndInv, TypeOK, Log!LogTypeOK
  <1>3. CallInv' /\ HandlerInv' /\ ReplayInv'
    BY <1>1 DEF vars, IndInv, CallInv, Fits, HandlerInv, ReplayInv
  <1> QED
    BY <1>2, <1>3 DEF IndInv

\* The invariant holds in every state of every behaviour.
LEMMA SpecIndInv == Spec => []IndInv
  <1>1. IndInv /\ [Next]_vars => IndInv'
    BY ReadStepIndInv, MutateIndInv, WriteStepIndInv, LogWriterIndInv,
       LifeStepIndInv, ReplayLineIndInv, EndIndInv, StutterIndInv DEF Next, Handle
  <1> QED
    BY InitIndInv, <1>1, PTL DEF Spec
-----------------------------------------------------------------------------
\* Every variable of the server stays in its range: a mutation that the
\* application rejected is never the state of the data, whatever Effect is.
THEOREM ServerTypeCorrect == Spec => []TypeOK
  <1>1. IndInv => TypeOK
    BY DEF IndInv
  <1> QED
    BY <1>1, SpecIndInv, PTL

\* Whoever was answered 200 by execHandler or registrationHandler finds the
\* mutation in the log, after any number of crashes and restarts.
THEOREM AcknowledgedIsLogged == Spec => []AckedLogged
  <1>1. IndInv => AckedLogged
    BY DEF IndInv, CallInv, Fits, AckedLogged
  <1> QED
    BY <1>1, SpecIndInv, PTL

\* A server that serves has run every acknowledged mutation on the postgres
\* that it queries, also after a restart (Server.Start).
THEOREM AcknowledgedIsVisible == Spec => []AckedVisible
  <1>1. IndInv => AckedVisible
    BY DEF IndInv, CallInv, Fits, ReplayInv, AckedVisible
  <1> QED
    BY <1>1, SpecIndInv, PTL

\* A mutation that was answered "temporarily unavailable" (tempError) is never
\* in the log, so no replay brings it back.
THEOREM TempErrorIsNotLogged == Spec => []TempErrorNotLogged
  <1>1. IndInv => TempErrorNotLogged
    BY DEF IndInv, CallInv, Fits, Unlogged, TempErrorNotLogged
  <1> QED
    BY <1>1, SpecIndInv, PTL

-----------------------------------------------------------------------------
\* While Stop was not called, a server that has come so far has its log, and
\* one whose postgres runs has s.qs.
ServiceInv == stop = "no" => /\ proc \in {"opened", "serving"} => ms /\ ~closed
                             /\ proc # "down" /\ alive => qs

\* The fields of the server are set before it serves, and only Stop, the watcher
\* of a postgres that died and the end of the process take them back.
LEMMA SpecServiceInv == Spec => []ServiceInv
  <1>1. Init => ServiceInv
    BY DEF Init, ServiceInv
  <1>2. ASSUME ServiceInv, [Next]_vars PROVE ServiceInv'
    <2> USE DEF ServiceInv
    <2>1. CASE UNCHANGED vars
      BY <1>2, <2>1 DEF vars
    <2>2. ASSUME NEW r \in Reqs, Accept(r) \/ Handle(r) PROVE ServiceInv'
      BY <1>2, <2>2, Zenon DEF Accept, Handle, BadRequest, CheckEngine, RegisterUser, Mutate,
                  CheckLog, WriteLog, LogWritten, LogFailed, Login, RunQuery, lifeVars, engineVars
    <2>3. CASE LogWriter
      BY <1>2, <2>3 DEF LogWriter, lifeVars, engineVars
    <2>4. CASE StartEngine \/ StartLog \/ StartFails \/ ReplayLine \/ ReplayEnd
      BY <1>2, <2>4, Zenon DEF StartEngine, StartLog, StartFails, ReplayLine, ReplayEnd, engineVars
    <2>5. CASE EngineDies \/ EngineWatcher
      BY <1>2, <2>5 DEF EngineDies, EngineWatcher, lifeVars, engineVars
    <2>6. CASE StopHTTP \/ CloseListener \/ StopEngine \/ StopLog \/ StopLogNil
      BY <1>2, <2>6 DEF StopHTTP, CloseListener, StopEngine, StopLog, StopLogNil, engineVars
    <2>7. CASE Exit \/ Crash
      BY <1>2, <2>7 DEF Exit, Crash, ProcessEnds
    <2> QED
      BY <1>2, <2>1, <2>2, <2>3, <2>4, <2>5, <2>6, <2>7 DEF Next
  <1> QED
    BY <1>1, <1>2, PTL DEF Spec

\* A handler answers 503, or panics on a nil s.qs or s.ms or on a closed log, only
\* when postgres has died or Stop was called (tempError, Server.Stop).
THEOREM ServiceLastsUntilTheEnd == Spec => ServesUntilTheEnd
  <1>1. ASSUME IndInv, ServiceInv, [Next]_vars, NEW r \in Reqs,
               at[r] \in Stages, at'[r] \in {"503", "dropped"}
        PROVE  stop # "no" \/ ~alive
    <2> SUFFICES ASSUME stop = "no", alive PROVE FALSE
      OBVIOUS
    <2>1. proc = "serving" /\ ms /\ ~closed /\ qs
      BY <1>1 DEF IndInv, HandlerInv, ServiceInv
    <2>2. at \in [Reqs -> {"idle"} \cup Stages \cup Answers] /\ at'[r] # at[r]
      BY <1>1 DEF IndInv, TypeOK, Stages
    <2>3. ASSUME NEW x \in Reqs, Accept(x) \/ Handle(x) PROVE FALSE
      <3>1. at'[x] \notin {"503", "dropped"} \/ x # r
        BY <2>1, <2>2, <2>3, Zenon DEF Accept, Handle, BadRequest, CheckEngine, RegisterUser,
              Mutate, CheckLog, WriteLog, LogWritten, LogFailed, Login, RunQuery, Goto, WriteError
      <3>2. x = r
        BY <2>2, <2>3, Zenon DEF Accept, Handle, BadRequest, CheckEngine, RegisterUser, Mutate,
              CheckLog, WriteLog, LogWritten, LogFailed, Login, RunQuery, Goto
      <3> QED
        BY <1>1, <3>1, <3>2
    <2>4. CASE Exit \/ Crash
      BY <1>1, <2>4 DEF Exit, Crash, ProcessEnds
    <2>5. at' = at \/ (\E x \in Reqs : Accept(x) \/ Handle(x)) \/ Exit \/ Crash
      BY <1>1, Zenon DEF Next, vars, LogWriter, StartEngine, StartLog, StartFails, ReplayLine,
                  ReplayEnd, EngineDies, EngineWatcher, StopHTTP, CloseListener,
                  StopEngine, StopLog, StopLogNil
    <2> QED
      BY <2>2, <2>3, <2>4, <2>5
  <1>2. IndInv /\ ServiceInv /\ [Next]_vars =>
          [\A r \in Reqs : at[r] \in Stages /\ at'[r] \in {"503", "dropped"}
                              => stop # "no" \/ ~alive]_vars
    BY <1>1
  <1> QED
    BY <1>2, SpecIndInv, SpecServiceInv, PTL DEF Spec, ServesUntilTheEnd

-----------------------------------------------------------------------------
(* The server as a user of the log.                                        *)

\* Each step of the server is one of the log or leaves the log alone: the handlers
\* of mutations are the only ones that call Log.Write, once each.
LEMMA LogStep ==
  ASSUME IndInv, [Next]_vars
  PROVE  [Log!LogNext]_(Log!logVars)
  <1>1. CASE UNCHANGED vars
    BY <1>1 DEF vars, Log!logVars
  <1>2. ASSUME NEW r \in Reqs, Accept(r) PROVE UNCHANGED Log!logVars
    BY <1>2 DEF Accept, logVars, Log!logVars
  <1>3. ASSUME NEW r \in Writes, WriteLog(r) \/ LogWritten(r) \/ LogFailed(r)
        PROVE  [Log!LogNext]_(Log!logVars)
    <2>1. CASE WriteLog(r)
      BY <2>1 DEF WriteLog, logVars, Log!logVars, Log!LogNext
    <2>2. CASE LogWritten(r)
      BY <2>2 DEF LogWritten, Log!LogNext
    <2>3. CASE LogFailed(r)
      BY <2>3 DEF LogFailed, Log!LogNext
    <2> QED
      BY <1>3, <2>1, <2>2, <2>3
  <1>4. ASSUME NEW r \in Reqs, \/ BadRequest(r) \/ CheckEngine(r) \/ RegisterUser(r) \/ Mutate(r)
                               \/ CheckLog(r) \/ Login(r) \/ RunQuery(r)
        PROVE  UNCHANGED Log!logVars
    BY <1>4, Zenon DEF BadRequest, CheckEngine, RegisterUser, Mutate, CheckLog, Login, RunQuery,
       logVars, Log!logVars
  <1>5. CASE LogWriter
    BY <1>5 DEF LogWriter, Log!LogNext
  <1>6. CASE \/ StartEngine \/ StartLog \/ StartFails \/ ReplayLine \/ ReplayEnd
             \/ EngineDies \/ EngineWatcher
             \/ StopHTTP \/ CloseListener \/ StopEngine \/ StopLog \/ StopLogNil
    BY <1>6, Zenon DEF StartEngine, StartLog, StartFails, ReplayLine, ReplayEnd, EngineDies,
       EngineWatcher, StopHTTP, CloseListener, StopEngine, StopLog, StopLogNil, logVars,
       Log!logVars
  <1>7. CASE Exit \/ Crash
    BY <1>7 DEF Exit, Crash, Log!LogNext
  <1>8. ASSUME NEW r \in Reqs, WriteLog(r) \/ LogWritten(r) \/ LogFailed(r)
        PROVE  r \in Writes
    BY <1>8 DEF WriteLog, LogWritten, LogFailed, IndInv, HandlerInv, Mutating
  <1> QED
    BY <1>1, <1>2, <1>3, <1>4, <1>5, <1>6, <1>7, <1>8 DEF Next, Handle

\* What the handlers, Start, Stop and the crashes do with the log is what DurableLog
\* allows, which MutationLog is proved to implement.
THEOREM ServerUsesTheLog == Spec => Log!LogSpec
  <1>1. Init => Log!LogInit
    BY DEF Init
  <1>2. IndInv /\ [Next]_vars => [Log!LogNext]_(Log!logVars)
    BY LogStep
  <1> QED
    BY <1>1, <1>2, SpecIndInv, PTL DEF Spec, Log!LogSpec

\* A step of the log leaves an acknowledged record where it is, also one that
\* cuts off the end of the file.
LEMMA LogKeepsPlaces ==
  ASSUME Log!LogTypeOK, [Log!LogNext]_(Log!logVars),
         NEW i \in DOMAIN log, st[log[i]] = "ok"
  PROVE  i \in DOMAIN log' /\ log'[i] = log[i]
  <1>0. log \in Seq(Writes)
    BY DEF Log!LogTypeOK
  <1>1. ASSUME NEW w \in Writes
        PROVE  i \in DOMAIN Append(log, w) /\ Append(log, w)[i] = log[i]
    BY <1>0
  <1>2. CASE log' = log
    BY <1>2
  <1>3. ASSUME NEW w \in Writes, log' = Append(log, w)
        PROVE  i \in DOMAIN log' /\ log'[i] = log[i]
    BY <1>1, <1>3
  <1>4. CASE Log!LoseTail
    <2>1. PICK g \in Log!Grown : \E n \in 0..Len(g) :
             /\ \A j \in (n + 1)..Len(g) : st[g[j]] # "ok"
             /\ log' = SubSeq(g, 1, n)
      BY <1>4 DEF Log!LoseTail
    <2>2. PICK n \in 0..Len(g) : /\ \A j \in (n + 1)..Len(g) : st[g[j]] # "ok"
                                 /\ log' = SubSeq(g, 1, n)
      BY <2>1
    <2>0. g = log \/ \E w \in Writes : g = Append(log, w)
      BY <2>1, Zenon DEF Log!Grown
    <2>3. g \in Seq(Writes)
      <3>1. \A w \in Writes : Append(log, w) \in Seq(Writes)
        BY <1>0
      <3> QED
        BY <1>0, <2>0, <3>1, Zenon
    <2>4. i \in DOMAIN g /\ g[i] = log[i]
      BY <1>1, <2>0, Zenon
    <2>5. i \in 1..Len(g) /\ n \in Nat /\ Len(g) \in Nat /\ n <= Len(g)
      BY <2>3, <2>4
    <2>6. i \in 1..n
      <3>1. i \notin (n + 1)..Len(g)
        BY <2>2, <2>4
      <3> QED
        BY <2>5, <3>1
    <2>7. i \in DOMAIN SubSeq(g, 1, n) /\ SubSeq(g, 1, n)[i] = g[i]
      BY <2>3, <2>5, <2>6
    <2> QED
      BY <2>2, <2>4, <2>7, Zenon
  <1> QED
    BY <1>2, <1>3, <1>4 DEF Log!LogNext, Log!logVars, Log!WriterEnds, Log!Call, Log!Refuse,
       Log!Append1, Log!Tear, Log!Ack, Log!Fail, Log!Panic

\* The record of a mutation whose Log.Write returned nil keeps its place in the log,
\* through crashes, shutdowns and later writes.
THEOREM AcknowledgedKeepPlace == Spec => AckedInPlace
  <1>1. IndInv /\ [Next]_vars =>
          [\A i \in DOMAIN log :
              st[log[i]] = "ok" => i \in DOMAIN log' /\ log'[i] = log[i]]_vars
    BY LogStep, LogKeepsPlaces DEF IndInv, TypeOK
  <1> QED
    BY <1>1, SpecIndInv, PTL DEF Spec, AckedInPlace
-----------------------------------------------------------------------------
(* What a replay of the log leaves.                                        *)

\* What one mutation can leave: data, or an error.
Outcomes == DB \cup {Rejected}
\* The data after mutation w on data d; nothing runs after an error (psql stops).
Then(d, w) == IF d = Rejected THEN Rejected ELSE Effect[<<d, w>>]
\* run is the sequence of data that a replay of s goes through, from bootstrap on:
\* what Rebuild defines by recursion.
IsReplay(s, run) == run = [i \in 0..Len(s) |-> IF i = 0 THEN Fresh ELSE Then(run[i - 1], s[i])]

\* The application as a machine of Recursion: its arguments are the mutations.
App == [data |-> DB, args |-> Writes, error |-> Rejected, start |-> Fresh, move |-> Effect]

LEMMA AppParts == /\ Data(App) = DB /\ Args(App) = Writes /\ Error(App) = Rejected
                  /\ Origin(App) = Fresh /\ Move(App) = Effect
  BY DEF App, Data, Args, Error, Origin, Move

LEMMA AppMachine == Machine(App)
  BY AppParts, EffectAssumption DEF Machine

LEMMA AppAfter ==
  ASSUME NEW d, NEW w
  PROVE  After(App, d, w) = Then(d, w)
  BY AppParts DEF After, Then

\* A replay is a run of the machine.
LEMMA AppRun ==
  ASSUME NEW s \in Seq(Writes), NEW run
  PROVE  IsRun(App, s, run) <=> IsReplay(s, run)
  BY AppParts, AppAfter DEF IsRun, IsReplay

\* Rebuild is where the machine ends.
LEMMA RebuildIsResult ==
  ASSUME NEW s \in Seq(Writes)
  PROVE  Rebuild(s) = Result(App, s)
  <1> DEFINE run == CHOOSE run : IsReplay(s, run)
  <1>1. s \in Seq(Args(App))
    BY AppParts
  <1>2. \E f : IsRun(App, s, f)
    BY <1>1, AppMachine, RunExists
  <1>3. IsReplay(s, run)
    BY <1>2, AppRun
  <1>4. Rebuild(s) = run[Len(s)]
    BY DEF Rebuild, IsReplay, Then
  <1> HIDE DEF run
  <1>5. IsRun(App, s, run)
    BY <1>3, AppRun
  <1>6. Len(s) <= Len(s) /\ \A i \in 1..Len(s) : s[i] = s[i]
    OBVIOUS
  <1>7. Result(App, s) = run[Len(s)]
    BY <1>1, <1>5, <1>6, AppMachine, ResultAt
  <1> QED
    BY <1>4, <1>7

\* An empty log leaves the data of bootstrap.
LEMMA RebuildEmpty == Rebuild(<<>>) = Fresh
  <1>1. <<>> \in Seq(Writes)
    OBVIOUS
  <1>2. Result(App, <<>>) = Fresh
    BY AppMachine, AppParts, ResultEmpty
  <1> QED
    BY <1>1, <1>2, RebuildIsResult, Zenon

\* One mutation more at the end of the log is one mutation more on its data.
LEMMA RebuildAppend ==
  ASSUME NEW s \in Seq(Writes), NEW w \in Writes
  PROVE  /\ Rebuild(s) \in Outcomes
         /\ Rebuild(Append(s, w)) = Then(Rebuild(s), w)
  <1>1. s \in Seq(Args(App)) /\ w \in Args(App) /\ Append(s, w) \in Seq(Writes)
    BY AppParts
  <1>2. /\ Result(App, s) \in Data(App) \cup {Error(App)}
        /\ Result(App, Append(s, w)) = After(App, Result(App, s), w)
    BY <1>1, AppMachine, ResultAppend
  <1>3. Rebuild(s) = Result(App, s) /\ Rebuild(Append(s, w)) = Result(App, Append(s, w))
    BY <1>1, RebuildIsResult, Zenon
  <1> QED
    BY <1>2, <1>3, AppParts, AppAfter, Zenon DEF Outcomes

\* When a replay comes to its end so does the replay of any prefix, such as what a
\* crash leaves of the file.
LEMMA RebuildPrefix ==
  ASSUME NEW s \in Seq(Writes), NEW n \in 0..Len(s), Rebuild(s) \in DB
  PROVE  Rebuild(SubSeq(s, 1, n)) \in DB
  <1>1. s \in Seq(Args(App)) /\ Result(App, s) \in Data(App)
    BY AppParts, RebuildIsResult
  <1>2. Result(App, SubSeq(s, 1, n)) \in Data(App)
    BY <1>1, AppMachine, ResultPrefix
  <1>3. SubSeq(s, 1, n) \in Seq(Writes)
    OBVIOUS
  <1>4. Rebuild(SubSeq(s, 1, n)) = Result(App, SubSeq(s, 1, n))
    BY <1>3, RebuildIsResult, Zenon
  <1> QED
    BY <1>2, <1>4, AppParts, Zenon

\* replayLog, from one line to the next.
LEMMA RebuildNext ==
  ASSUME NEW s \in Seq(Writes), NEW n \in Nat, n < Len(s)
  PROVE  Rebuild(SubSeq(s, 1, n + 1)) = Then(Rebuild(SubSeq(s, 1, n)), s[n + 1])
  <1>1. /\ SubSeq(s, 1, n) \in Seq(Writes) /\ s[n + 1] \in Writes
        /\ SubSeq(s, 1, n + 1) = Append(SubSeq(s, 1, n), s[n + 1])
    OBVIOUS
  <1> QED
    BY <1>1, RebuildAppend, Zenon

-----------------------------------------------------------------------------
(* Mutations in another order.                                             *)

\* The mutations of U, run once each in some order, take the data from d to e
\* without an error.
Takes(d, e, U) == Leads(App, d, e, U)

\* The application's mutations commute: when r succeeded after x it would have
\* succeeded before x, with the same data at the end.
Commuting ==
    \A d \in DB, x, r \in Writes :
        /\ x # r
        /\ Effect[<<d, x>>] # Rejected
        /\ Effect[<<Effect[<<d, x>>], r>>] # Rejected
        => /\ Effect[<<d, r>>] # Rejected
           /\ Effect[<<Effect[<<d, r>>], x>>] = Effect[<<Effect[<<d, x>>], r>>]

\* Nothing takes the data nowhere else.
LEMMA TakesNone ==
  ASSUME NEW d \in DB
  PROVE  /\ Takes(d, d, {})
         /\ \A e : Takes(d, e, {}) => e = d
  BY AppParts, LeadsNone DEF Takes

\* One mutation more.
LEMMA TakesMore ==
  ASSUME NEW d \in DB, NEW e \in DB, NEW U, Takes(d, e, U), NEW w \in Writes, w \notin U,
         Effect[<<e, w>>] \in DB
  PROVE  Takes(d, Effect[<<e, w>>], U \cup {w})
  <1>1. /\ d \in Data(App) /\ e \in Data(App) /\ Leads(App, d, e, U)
        /\ Move(App)[<<e, w>>] \in Data(App)
    BY AppParts DEF Takes
  <1>2. Leads(App, d, Move(App)[<<e, w>>], U \cup {w})
    BY <1>1, LeadsMore, Zenon
  <1> QED
    BY <1>2, AppParts DEF Takes

\* Any of the mutations could have been the first, when mutations commute: the log
\* may hold them in another order than the one they ran in.
LEMMA TakesFirst ==
  ASSUME NEW d \in DB, NEW e, NEW U \in SUBSET Writes, Takes(d, e, U), NEW w \in U,
         Commuting \/ U = {w}
  PROVE  /\ Effect[<<d, w>>] \in DB
         /\ Takes(Effect[<<d, w>>], e, U \ {w})
  <1>1. Commute(App) \/ U = {w}
    <2>1. ASSUME Commuting PROVE Commute(App)
      <3> SUFFICES ASSUME NEW a \in Data(App), NEW x \in Args(App), NEW r \in Args(App), x # r,
                          Move(App)[<<a, x>>] # Error(App),
                          Move(App)[<<Move(App)[<<a, x>>], r>>] # Error(App)
                   PROVE  /\ Move(App)[<<a, r>>] # Error(App)
                          /\ Move(App)[<<Move(App)[<<a, r>>], x>>]
                               = Move(App)[<<Move(App)[<<a, x>>], r>>]
        BY Zenon DEF Commute
      <3>1. /\ a \in DB /\ x \in Writes /\ r \in Writes
            /\ Effect[<<a, x>>] # Rejected /\ Effect[<<Effect[<<a, x>>], r>>] # Rejected
        BY AppParts, Zenon
      <3>2. /\ Effect[<<a, r>>] # Rejected
            /\ Effect[<<Effect[<<a, r>>], x>>] = Effect[<<Effect[<<a, x>>], r>>]
        BY <2>1, <3>1, Zenon DEF Commuting
      <3> QED
        BY <3>2, AppParts, Zenon
    <2> QED
      BY <2>1
  <1>2. d \in Data(App) /\ U \in SUBSET Args(App) /\ Leads(App, d, e, U)
    BY AppParts DEF Takes
  <1>3. Move(App)[<<d, w>>] \in Data(App) /\ Leads(App, Move(App)[<<d, w>>], e, U \ {w})
    BY <1>1, <1>2, AppMachine, LeadsFirst, Zenon
  <1> QED
    BY <1>3, AppParts, Zenon DEF Takes

-----------------------------------------------------------------------------
(* The data of the engine and the log.                                     *)

\* Places of a handler before the success of s.qs.Mutate.
Early == {"idle", "begin", "register", "recheck", "mutate"}

\* The log replays without an error, and what has been run but is not logged is
\* what the data of the engine has on top of it.
StoreInv ==
    /\ Rebuild(log) \in DB
    /\ proc = "engine" => db = Fresh /\ ran = <<>>
    /\ proc = "opened" => db = Rebuild(SubSeq(log, 1, pos)) /\ Ran \subseteq Log!Logged
    /\ proc = "serving" => Takes(Rebuild(log), db, Ran \ Log!Logged)
    /\ \A w \in Writes : at[w] \in Early => w \notin Ran

\* Nothing more is appended to the log before the process ends.
Stuck == dead \/ ((closed \/ ~ms) /\ \A w \in Writes : st[w] # "open")

\* With one request in process at a time: a mutation that was run and not logged
\* is that of this request, unless the log has come to its end.
SerialInv ==
    /\ \A r, s \in InFlight : r = s
    /\ proc = "serving" => \A x \in Ran \ Log!Logged : at[x] \in Applied \/ Stuck

\* The empty log replays to the data of bootstrap.
LEMMA InitStoreInv == Init => StoreInv
  <1> SUFFICES ASSUME Init PROVE StoreInv
    OBVIOUS
  <1>1. log = <<>> /\ proc = "down" /\ Ran = {}
    BY DEF Init, Log!LogInit, Ran
  <1> QED
    BY <1>1, RebuildEmpty, EffectAssumption DEF StoreInv

\* What the engine ran are mutations.
LEMMA RanTyped == ASSUME IndInv PROVE Ran \subseteq Writes
  BY DEF IndInv, TypeOK, Ran

\* The record that the writer goroutine appends replays on the log as it is, and
\* the rest of what was run still leads to the data of the engine.
LEMMA LogGrows ==
  ASSUME IndInv, StoreInv, Commuting \/ SerialInv,
         NEW w \in Writes, st[w] = "open", w \notin Log!Logged, ~dead
  PROVE  /\ Rebuild(Append(log, w)) \in DB
         /\ Takes(Rebuild(Append(log, w)), db, (Ran \ Log!Logged) \ {w})
  <1> DEFINE U == Ran \ Log!Logged
             d == Rebuild(log)
  <1>1. at[w] = "logging" /\ w \in Reqs
    BY DEF IndInv, CallInv, Fits, Reqs
  <1>2. proc = "serving" /\ w \in Ran
    BY <1>1 DEF IndInv, HandlerInv, Stages, Applied
  <1>3. U \in SUBSET Writes /\ w \in U /\ d \in DB /\ Takes(d, db, U)
    BY <1>2, RanTyped DEF StoreInv
  <1>4. Commuting \/ U = {w}
    <2> SUFFICES ASSUME SerialInv PROVE U = {w}
      OBVIOUS
    <2>1. ASSUME NEW x \in U PROVE x = w
      <3>1. at[x] \in Applied /\ x \in Reqs
        BY <1>2, <1>3, Zenon DEF SerialInv, Stuck, Reqs
      <3>2. x \in InFlight /\ w \in InFlight
        BY <1>1, <3>1 DEF InFlight, Applied, Stages
      <3> QED
        BY <3>2 DEF SerialInv
    <2> QED
      BY <1>3, <2>1
  <1> HIDE DEF U, d
  <1>5. Effect[<<d, w>>] \in DB /\ Takes(Effect[<<d, w>>], db, U \ {w})
    BY <1>3, <1>4, TakesFirst
  <1>6. Rebuild(Append(log, w)) = Effect[<<d, w>>]
    <2>1. log \in Seq(Writes)
      BY DEF IndInv, TypeOK, Log!LogTypeOK
    <2>2. Rebuild(Append(log, w)) = Then(d, w)
      BY <2>1, RebuildAppend DEF d
    <2> QED
      BY <1>3, <2>2, EffectAssumption DEF Then
  <1> QED
    BY <1>5, <1>6 DEF U

\* Steps that touch neither the data nor the log.
LEMMA QuietStore ==
  ASSUME IndInv, StoreInv, log' = log, db' = db, ran' = ran,
         proc' = proc \/ proc' \in {"down", "failed", "broken"},
         proc = "opened" => pos' = pos,
         \A w \in Writes : at'[w] \in Early => at[w] \in Early
  PROVE  StoreInv'
  <1>1. Ran' = Ran /\ Log!Logged' = Log!Logged /\ Rebuild(log)' = Rebuild(log)
    BY DEF Ran, Log!Logged
  <1>2. Takes(Rebuild(log), db, Ran \ Log!Logged)' <=> Takes(Rebuild(log), db, Ran \ Log!Logged)
    BY <1>1, Zenon
  <1>3. proc = "opened" => Rebuild(SubSeq(log, 1, pos))' = Rebuild(SubSeq(log, 1, pos))
    OBVIOUS
  <1> QED
    BY <1>1, <1>2, <1>3 DEF StoreInv

\* The steps of a handler but s.qs.Mutate.
LEMMA HandlerStore ==
  ASSUME IndInv, StoreInv, NEW r \in Reqs,
         Accept(r) \/ BadRequest(r) \/ CheckEngine(r) \/ RegisterUser(r) \/ CheckLog(r)
           \/ WriteLog(r) \/ LogWritten(r) \/ LogFailed(r) \/ Login(r) \/ RunQuery(r)
  PROVE  StoreInv'
  <1>1. log' = log /\ db' = db /\ ran' = ran /\ proc' = proc /\ pos' = pos
    BY Zenon DEF Accept, BadRequest, CheckEngine, RegisterUser, CheckLog, WriteLog, LogWritten,
           LogFailed, Login, RunQuery, lifeVars, engineVars, logVars, Log!Refuse, Log!Call,
           Log!Ack, Log!Fail, Log!Panic
  <1>2. at \in [Reqs -> {"idle"} \cup Stages \cup Answers]
    BY DEF IndInv, TypeOK
  <1>3. at'[r] \in Early => at[r] \in Early
    BY <1>2, Zenon DEF Accept, BadRequest, CheckEngine, RegisterUser, CheckLog, WriteLog,
           LogWritten, LogFailed, Login, RunQuery, Goto, WriteError, Early
  <1>4. \A x \in Reqs : x # r => at'[x] = at[x]
    BY <1>2, Zenon DEF Accept, BadRequest, CheckEngine, RegisterUser, CheckLog, WriteLog,
           LogWritten, LogFailed, Login, RunQuery, Goto
  <1>5. \A w \in Writes : at'[w] \in Early => at[w] \in Early
    BY <1>3, <1>4, Zenon DEF Reqs
  <1> QED
    BY <1>1, <1>5, QuietStore, Zenon

\* s.qs.Mutate: the mutation was run last and is not logged yet.
LEMMA MutateStore ==
  ASSUME IndInv, StoreInv, NEW r \in Reqs, Mutate(r)
  PROVE  StoreInv'
  <1>0. /\ at[r] = "mutate" /\ r \in Writes /\ proc = "serving" /\ db \in DB
        /\ ran \in Seq(Writes) /\ r \notin Log!Logged /\ r \notin Ran
        /\ at \in [Reqs -> {"idle"} \cup Stages \cup Answers]
        /\ proc' = proc /\ log' = log /\ pos' = pos
    BY Zenon DEF IndInv, TypeOK, CallInv, Fits, Unlogged, HandlerInv, Mutate, Mutating, Stages,
           StoreInv, Early, lifeVars, logVars
  <1>1. CASE qs /\ alive /\ Effect[<<db, r>>] # Rejected
    <2>1. Goto(r, "applied") /\ db' = Effect[<<db, r>>] /\ ran' = Append(ran, r)
      BY <1>1, Zenon DEF Mutate
    <2>2. db' \in DB
      BY <1>0, <1>1, <2>1, EffectAssumption
    <2>3. Ran' = Ran \cup {r}
      <3>1. Elems(Append(ran, r)) = Elems(ran) \cup {r}
        <4>1. ran \in Seq(Writes) /\ r \in Writes
          BY <1>0
        <4> QED
          BY <4>1, AppendSet
      <3> QED
        BY <2>1, <3>1 DEF Ran, Elems
    <2>4. Log!Logged' = Log!Logged /\ Rebuild(log)' = Rebuild(log)
      BY <1>0, Zenon DEF Log!Logged
    <2> DEFINE U == Ran \ Log!Logged
               d == Rebuild(log)
               e == Effect[<<db, r>>]
    <2>5. Takes(d, e, U \cup {r})
      <3>1. d \in DB /\ Takes(d, db, U) /\ r \notin U /\ Effect[<<db, r>>] \in DB
        BY <1>0, <2>1, <2>2, Zenon DEF StoreInv
      <3> HIDE DEF d, U
      <3> QED
        BY <1>0, <3>1, TakesMore, Zenon
    <2>6. (Ran \ Log!Logged)' = U \cup {r}
      BY <1>0, <2>3, <2>4
    <2>7. Takes(Rebuild(log), db, Ran \ Log!Logged)'
      <3> HIDE DEF U, d
      <3>1. (Ran \ Log!Logged)' = U \cup {r} /\ db' = Effect[<<db, r>>] /\ Rebuild(log)' = d
        BY <2>1, <2>4, <2>6 DEF d
      <3> QED
        BY <2>5, <3>1, Zenon
    <2>8. \A w \in Writes : at'[w] \in Early => w \notin Ran'
      <3> SUFFICES ASSUME NEW w \in Writes, at'[w] \in Early PROVE w \notin Ran'
        OBVIOUS
      <3>1. w # r /\ at'[w] = at[w]
        BY <1>0, <2>1 DEF Goto, Early, Reqs
      <3> QED
        BY <2>3, <3>1 DEF StoreInv
    <2> QED
      BY <1>0, <2>4, <2>7, <2>8 DEF StoreInv
  <1>2. CASE ~(qs /\ alive /\ Effect[<<db, r>>] # Rejected)
    <2>1. PICK p \in {"400", "dropped"} : Goto(r, p) /\ UNCHANGED <<db, ran>>
      BY <1>2, Zenon DEF Mutate
    <2>2. \A w \in Writes : at'[w] \in Early => at[w] \in Early
      BY <1>0, <2>1 DEF Goto, Early, Reqs
    <2> QED
      BY <1>0, <2>1, <2>2, QuietStore
  <1> QED
    BY <1>1, <1>2, Zenon

\* The writer goroutine of the log, also when it loses the newline.
LEMMA LogWriterStore ==
  ASSUME IndInv, StoreInv, Commuting \/ SerialInv, LogWriter
  PROVE  StoreInv'
  <1>0. /\ db' = db /\ ran' = ran /\ proc' = proc /\ pos' = pos /\ at' = at
        /\ log \in Seq(Writes)
    BY DEF LogWriter, lifeVars, engineVars, IndInv, TypeOK, Log!LogTypeOK
  <1>1. CASE log' = log
    BY <1>0, <1>1, QuietStore
  <1>2. ASSUME NEW w \in Writes, st[w] = "open", w \notin Log!Logged, ~dead, log' = Append(log, w)
        PROVE  StoreInv'
    <2>1. /\ Rebuild(Append(log, w)) \in DB
          /\ Takes(Rebuild(Append(log, w)), db, (Ran \ Log!Logged) \ {w})
      BY <1>2, LogGrows
    <2>2. proc = "serving"
      BY <1>2 DEF IndInv, CallInv, Fits, HandlerInv, Reqs, Stages
    <2>3. Log!Logged' = Log!Logged \cup {w} /\ Ran' = Ran
      <3>1. Elems(Append(log, w)) = Elems(log) \cup {w}
        <4>1. log \in Seq(Writes) /\ w \in Writes
          BY <1>0
        <4> QED
          BY <4>1, AppendSet
      <3> QED
        BY <1>0, <1>2, <3>1 DEF Log!Logged, Ran, Elems
    <2>4. (Ran \ Log!Logged)' = (Ran \ Log!Logged) \ {w}
      BY <2>3
    <2>5. Rebuild(log)' = Rebuild(Append(log, w))
      BY <1>2
    <2>6. Takes(Rebuild(log), db, Ran \ Log!Logged)'
      BY <1>0, <2>1, <2>4, <2>5, Zenon
    <2> QED
      BY <1>0, <2>1, <2>2, <2>3, <2>5, <2>6, Zenon DEF StoreInv
  <1> QED
    BY <1>1, <1>2 DEF LogWriter, Log!Append1, Log!Tear, Log!WriterEnds

\* Start and Stop: a new postgres has the data of an empty log, and when the replay
\* is at the end of the file its data is that of the log.
LEMMA LifeStore ==
  ASSUME IndInv, StoreInv,
         StartEngine \/ StartLog \/ StartFails \/ ReplayEnd \/ EngineDies \/ EngineWatcher
           \/ StopHTTP \/ CloseListener \/ StopEngine \/ StopLog \/ StopLogNil
  PROVE  StoreInv'
  <1> USE DEF lifeVars, engineVars, logVars
  <1>1. log' = log /\ at' = at /\ Log!Logged' = Log!Logged /\ log \in Seq(Writes)
    BY Zenon DEF StartEngine, StartLog, StartFails, ReplayEnd, EngineDies, EngineWatcher, StopHTTP,
           CloseListener, StopEngine, StopLog, StopLogNil, Log!Logged, IndInv, TypeOK, Log!LogTypeOK
  <1>2. CASE StartEngine
    <2>1. proc' = "engine" /\ db' = Fresh /\ ran' = <<>>
      BY <1>2 DEF StartEngine
    <2>2. Ran' = {}
      BY <2>1 DEF Ran
    <2> QED
      BY <1>1, <2>1, <2>2 DEF StoreInv
  <1>3. CASE StartLog
    <2>1. proc = "engine" /\ proc' = "opened" /\ db' = db /\ ran' = ran /\ pos' = 0
      BY <1>3 DEF StartLog
    <2>2. db' = Fresh /\ Ran' = {} /\ Ran = {}
      BY <2>1 DEF StoreInv, Ran
    <2>3. SubSeq(log, 1, 0) = <<>>
      BY <1>1
    <2>4. Rebuild(SubSeq(log, 1, pos))' = Fresh
      BY <1>1, <2>1, <2>3, RebuildEmpty, Zenon
    <2> QED
      BY <1>1, <2>1, <2>2, <2>4 DEF StoreInv
  <1>4. CASE ReplayEnd /\ proc' = "serving"
    <2>1. proc = "opened" /\ pos = Len(log) /\ db' = db /\ ran' = ran
      BY <1>4 DEF ReplayEnd
    <2>2. SubSeq(log, 1, Len(log)) = log
      BY <1>1
    <2>3. db = Rebuild(log) /\ Ran' = Ran /\ Ran \ Log!Logged = {}
      BY <2>1, <2>2, Zenon DEF StoreInv, Ran
    <2>4. Takes(Rebuild(log), Rebuild(log), {})
      BY TakesNone DEF StoreInv
    <2>5. Takes(Rebuild(log), db, Ran \ Log!Logged)'
      BY <1>1, <2>1, <2>3, <2>4, Zenon
    <2> QED
      BY <1>1, <1>4, <2>3, <2>5 DEF StoreInv
  <1>5. CASE (ReplayEnd /\ proc' # "serving") \/ StartFails \/ EngineDies \/ EngineWatcher
               \/ StopHTTP \/ CloseListener \/ StopEngine \/ StopLog \/ StopLogNil
    <2>1. /\ db' = db /\ ran' = ran /\ pos' = pos
          /\ proc' = proc \/ proc' \in {"down", "failed", "broken"}
      BY <1>5, Zenon DEF StartFails, ReplayEnd, EngineDies, EngineWatcher, StopHTTP,
                  CloseListener, StopEngine, StopLog, StopLogNil
    <2> QED
      BY <1>1, <2>1, QuietStore
  <1> QED
    BY <1>2, <1>3, <1>4, <1>5

\* replayLog runs one line more of the log, or fails.
LEMMA ReplayLineStore ==
  ASSUME IndInv, StoreInv, ReplayLine
  PROVE  StoreInv'
  <1>0. /\ proc = "opened" /\ pos < Len(log) /\ pos \in Nat /\ log' = log /\ at' = at
        /\ log \in Seq(Writes) /\ ran \in Seq(Writes) /\ db \in DB
        /\ log[pos + 1] \in Writes /\ pos + 1 \in DOMAIN log
    <2>1. /\ proc = "opened" /\ pos < Len(log) /\ pos \in Nat /\ log' = log /\ at' = at
          /\ log \in Seq(Writes) /\ ran \in Seq(Writes) /\ db \in DB
      BY Zenon DEF ReplayLine, logVars, IndInv, TypeOK, Log!LogTypeOK
    <2>2. log[pos + 1] \in Writes /\ pos + 1 \in DOMAIN log
      BY <2>1
    <2> QED
      BY <2>1, <2>2
  <1>1. CASE Replays(pos + 1)
    <2> DEFINE r == log[pos + 1]
    <2>1. db' = Effect[<<db, r>>] /\ ran' = Append(ran, r) /\ pos' = pos + 1 /\ proc' = "opened"
      BY <1>0, <1>1 DEF ReplayLine
    <2>2. Rebuild(SubSeq(log, 1, pos + 1)) = Effect[<<db, r>>]
      <3>1. Rebuild(SubSeq(log, 1, pos + 1)) = Then(Rebuild(SubSeq(log, 1, pos)), r)
        BY <1>0, RebuildNext, Zenon
      <3> QED
        BY <1>0, <3>1, EffectAssumption, Zenon DEF Then, StoreInv
    <2>3. Ran' = Ran \cup {r} /\ Log!Logged' = Log!Logged /\ r \in Log!Logged
      <3>1. Elems(Append(ran, r)) = Elems(ran) \cup {r}
        <4> HIDE DEF r
        <4>1. ran \in Seq(Writes) /\ r \in Writes
          BY <1>0 DEF r
        <4> QED
          BY <4>1, AppendSet
      <3> QED
        BY <1>0, <2>1, <3>1, Zenon DEF Ran, Log!Logged, Elems
    <2>4. ASSUME NEW w \in Writes, at[w] \in Early PROVE w \notin Ran \cup {r}
      <3>1. w \notin Log!Logged
        BY <2>4 DEF IndInv, CallInv, Fits, Early, Unlogged
      <3> QED
        BY <2>3, <2>4, <3>1, Zenon DEF StoreInv
    <2>5. (SubSeq(log, 1, pos))' = SubSeq(log, 1, pos + 1)
      BY <1>0, <2>1
    <2> HIDE DEF r
    <2>6. db' = Rebuild(SubSeq(log, 1, pos))'
      BY <2>1, <2>2, <2>5, Zenon
    <2> QED
      BY <1>0, <2>1, <2>3, <2>4, <2>6, Zenon DEF StoreInv
  <1>2. CASE ~Replays(pos + 1)
    <2>1. proc' = "failed" /\ db' = db /\ ran' = ran /\ pos' = pos
      BY <1>2, Zenon DEF ReplayLine
    <2> QED
      BY <1>0, <2>1, QuietStore
  <1> QED
    BY <1>1, <1>2

\* The process ends: what is left of the log is a prefix of one that replays.
LEMMA EndStore ==
  ASSUME IndInv, StoreInv, Commuting \/ SerialInv, Exit \/ Crash
  PROVE  StoreInv'
  <1>0. /\ ProcessEnds /\ Log!LoseTail /\ log \in Seq(Writes)
    BY DEF Exit, Crash, IndInv, TypeOK, Log!LogTypeOK
  <1>1. PICK g \in Log!Grown : \E n \in 0..Len(g) : log' = SubSeq(g, 1, n)
    BY <1>0, Zenon DEF Log!LoseTail
  <1>2. PICK n \in 0..Len(g) : log' = SubSeq(g, 1, n)
    BY <1>1
  <1>3. g \in Seq(Writes)
    BY GrownFacts
  <1>4. Rebuild(g) \in DB
    <2>1. CASE g = log
      BY <2>1 DEF StoreInv
    <2>2. ASSUME NEW w \in Writes, st[w] = "open", w \notin Log!Logged, ~dead, g = Append(log, w)
          PROVE  Rebuild(g) \in DB
      BY <2>2, LogGrows, Zenon
    <2> QED
      BY <2>1, <2>2 DEF Log!Grown
  <1>5. Rebuild(log') \in DB
    BY <1>2, <1>3, <1>4, RebuildPrefix
  <1>6. /\ proc' = "down" /\ Ran' = Ran
        /\ at' = [r \in Reqs |-> IF at[r] \in Stages THEN "lost" ELSE at[r]]
    BY <1>0, Zenon DEF ProcessEnds, Ran
  <1>7. ASSUME NEW w \in Writes, at'[w] \in Early PROVE at[w] \in Early
    BY <1>6, <1>7 DEF Reqs, Early
  <1> QED
    BY <1>5, <1>6, <1>7 DEF StoreInv

\* Every step.
LEMMA NextStore ==
  ASSUME IndInv, StoreInv, Commuting \/ SerialInv, [Next]_vars
  PROVE  StoreInv'
  <1>1. CASE UNCHANGED vars
    BY <1>1, QuietStore DEF vars
  <1> QED
    BY <1>1, HandlerStore, MutateStore, LogWriterStore, LifeStore, ReplayLineStore, EndStore
    DEF Next, Handle

-----------------------------------------------------------------------------
(* One request at a time.                                                  *)

\* f is the function that Cardinality defines by recursion on the subsets of S.
Counts(S, f) == f = [T \in SUBSET S |-> IF T = {} THEN 0 ELSE 1 + f[T \ {CHOOSE x : x \in T}]]

\* A set with one element has cardinality 1.
LEMMA SingletonCardinality ==
  ASSUME NEW e
  PROVE  Cardinality({e}) = 1
  <1> DEFINE f == [T \in SUBSET {e} |-> IF T = {} THEN 0 ELSE 1]
             c == CHOOSE x : x \in {e}
             g == CHOOSE g : Counts({e}, g)
  <1>1. c = e
    OBVIOUS
  <1>2. \A T \in SUBSET {e} : T # {} => T = {e}
    OBVIOUS
  <1>3. {e} \ {c} = {} /\ {} \in SUBSET {e} /\ {e} \in SUBSET {e} /\ {e} # {}
    BY <1>1
  <1>4. ASSUME NEW T \in SUBSET {e}
        PROVE  f[T] = IF T = {} THEN 0 ELSE 1 + f[T \ {CHOOSE x : x \in T}]
    <2>1. CASE T = {}
      BY <2>1
    <2>2. CASE T # {}
      <3>1. T = {e} /\ f[T] = 1 /\ f[{}] = 0
        BY <1>2, <1>3, <2>2
      <3>2. T \ {CHOOSE x : x \in T} = {}
        BY <1>3, <3>1
      <3> QED
        BY <2>2, <3>1, <3>2
    <2> QED
      BY <2>1, <2>2
  <1>5. Counts({e}, f)
    BY <1>4 DEF Counts
  <1>6. Counts({e}, g)
    BY <1>5, Zenon
  <1>7. Cardinality({e}) = g[{e}]
    BY DEF Cardinality, Counts
  <1> HIDE DEF g
  <1>8. g[{e}] = 1 + g[{e} \ {c}] /\ g[{}] = 0
    BY <1>3, <1>6 DEF Counts
  <1> QED
    BY <1>3, <1>7, <1>8

\* A request is let in when no other is in process (the bound MaxInFlight).
LEMMA AloneAccepted ==
  ASSUME MaxInFlight = 1, SerialInv, Cardinality(InFlight) < MaxInFlight
  PROVE  InFlight = {}
  <1> SUFFICES ASSUME NEW s \in InFlight PROVE FALSE
    OBVIOUS
  <1>1. InFlight = {s}
    BY DEF SerialInv
  <1>2. Cardinality({s}) = 1
    BY SingletonCardinality, Zenon
  <1> QED
    BY <1>1, <1>2

\* While a handler takes a step no other is in process.
LEMMA AloneStep ==
  ASSUME IndInv, MaxInFlight = 1, SerialInv, NEW r \in Reqs, Accept(r) \/ Handle(r)
  PROVE  /\ \A x, s \in InFlight' : x = s
         /\ \A x \in Reqs : x # r => at[x] \notin Stages /\ at'[x] = at[x]
  <1>0. at \in [Reqs -> {"idle"} \cup Stages \cup Answers]
    BY DEF IndInv, TypeOK
  <1>1. \A x \in Reqs : x # r => at'[x] = at[x]
    BY <1>0, Zenon DEF Accept, Handle, BadRequest, CheckEngine, RegisterUser, Mutate, CheckLog,
                WriteLog, LogWritten, LogFailed, Login, RunQuery, Goto
  <1>2. \A x \in Reqs : x # r => at[x] \notin Stages
    <2>1. CASE Accept(r)
      BY <2>1, AloneAccepted DEF Accept, InFlight
    <2>2. CASE Handle(r)
      <3>1. r \in InFlight
        BY <2>2, Zenon DEF Handle, BadRequest, CheckEngine, RegisterUser, Mutate, CheckLog,
                WriteLog, LogWritten, LogFailed, Login, RunQuery, InFlight, Stages
      <3> QED
        BY <3>1 DEF SerialInv, InFlight
    <2> QED
      BY <2>1, <2>2
  <1> QED
    BY <1>1, <1>2 DEF InFlight

\* A handler that has run its mutation and does not log it leaves a log behind that
\* is at its end: Stop has closed it, or the writer goroutine has failed.
LEMMA HandlerSerial ==
  ASSUME IndInv, MaxInFlight = 1, SerialInv, NEW r \in Reqs, Accept(r) \/ Handle(r)
  PROVE  SerialInv'
  <1>1. /\ \A x, s \in InFlight' : x = s
        /\ \A x \in Reqs : x # r => at[x] \notin Stages /\ at'[x] = at[x]
    BY AloneStep, Zenon
  <1>2. /\ log' = log /\ proc' = proc /\ ms' = ms /\ closed' = closed
        /\ dead => dead'
        /\ at \in [Reqs -> {"idle"} \cup Stages \cup Answers]
        /\ st \in [Writes -> Log!States]
    BY Zenon DEF Accept, Handle, BadRequest, CheckEngine, RegisterUser, Mutate, CheckLog,
           WriteLog, LogWritten, LogFailed, Login, RunQuery, lifeVars, logVars, Log!Refuse,
           Log!Call, Log!Ack, Log!Fail, Log!Panic, IndInv, TypeOK, Log!LogTypeOK
  <1>3. Log!Logged' = Log!Logged
    BY <1>2 DEF Log!Logged
  \* No call is open but that of this handler.
  <1>4. \A w \in Writes : w # r => st[w] # "open"
    BY <1>1, Zenon DEF IndInv, CallInv, Fits, Stages, Reqs
  <1>5. \A w \in Writes : st'[w] = "open" => w = r /\ at'[r] = "logging"
    BY <1>2, <1>4, Zenon DEF Accept, Handle, BadRequest, CheckEngine, RegisterUser, Mutate,
           CheckLog, WriteLog, LogWritten, LogFailed, Login, RunQuery, logVars, Log!Refuse,
           Log!Call, Log!Ack, Log!Fail, Log!Panic, Log!States, Goto, IndInv, CallInv, Fits, Unlogged
  <1>6. Stuck => Stuck'
    <2> SUFFICES ASSUME closed \/ ~ms, \A w \in Writes : st[w] # "open",
                        NEW w \in Writes, st'[w] = "open"
                 PROVE  FALSE
      BY <1>2 DEF Stuck
    <2>1. w = r /\ at'[r] = "logging"
      BY <1>5
    <2>2. at[r] # "logging"
      BY <2>1, Zenon DEF IndInv, CallInv, Fits
    <2> QED
      BY <1>2, <2>1, <2>2, Zenon DEF Accept, Handle, BadRequest, CheckEngine, RegisterUser, Mutate,
           CheckLog, WriteLog, LogWritten, LogFailed, Login, RunQuery, Goto, WriteError
  <1>7. Ran' = Ran \/ (Ran' = Ran \cup {r} /\ at'[r] = "applied")
    <2>1. CASE ran' = ran
      BY <2>1 DEF Ran
    <2>2. CASE ran' # ran
      <3>1. ran' = Append(ran, r) /\ at'[r] = "applied" /\ at[r] = "mutate"
        BY <1>2, <2>2, Zenon DEF Accept, Handle, BadRequest, CheckEngine, RegisterUser, Mutate,
           CheckLog, WriteLog, LogWritten, LogFailed, Login, RunQuery, Goto, engineVars
      <3>2. ran \in Seq(Writes) /\ r \in Writes
        BY <3>1 DEF IndInv, TypeOK, HandlerInv, Mutating
      <3>3. Elems(Append(ran, r)) = Elems(ran) \cup {r}
        BY <3>2, AppendSet
      <3> QED
        BY <3>1, <3>3 DEF Ran, Elems
    <2> QED
      BY <2>1, <2>2
  <1>8. ASSUME at[r] \in Applied, r \notin Log!Logged
        PROVE  at'[r] \in Applied \/ Stuck'
    <2>1. CASE CheckLog(r)
      <3>1. at'[r] = "write" \/ (~ms /\ at'[r] = "503")
        BY <1>2, <2>1 DEF CheckLog, Goto
      <3> QED
        BY <1>2, <1>5, <3>1, Zenon DEF Applied, Stuck
    <2>2. CASE WriteLog(r)
      <3>1. at'[r] = "logging" \/ ((~ms \/ closed) /\ at'[r] \in {"400", "500", "dropped"})
        BY <1>2, <2>2 DEF WriteLog, Goto, WriteError
      <3> QED
        BY <1>2, <1>5, <3>1, Zenon DEF Applied, Stuck
    <2>3. CASE LogFailed(r)
      <3>1. (dead' \/ closed) /\ at'[r] \in {"400", "500", "dropped"}
        BY <1>2, <2>3 DEF LogFailed, Log!Fail, Goto, WriteError
      <3> QED
        BY <1>2, <1>5, <3>1 DEF Stuck
    <2>4. CASE LogWritten(r)
      BY <1>8, <2>4, Zenon DEF LogWritten, Log!Ack
    <2> QED
      BY <1>8, <2>1, <2>2, <2>3, <2>4, Zenon
      DEF Applied, Accept, Handle, BadRequest, CheckEngine, RegisterUser, Mutate, Login, RunQuery
  <1>9. ASSUME proc' = "serving", NEW x \in (Ran \ Log!Logged)'
        PROVE  at'[x] \in Applied \/ Stuck'
    <2>1. CASE x \in Ran
      <3>1. x \notin Log!Logged /\ x \in Reqs /\ (at[x] \in Applied \/ Stuck)
        BY <1>2, <1>3, <1>9, <2>1, RanTyped DEF SerialInv, Reqs
      <3>2. x # r => at[x] \notin Applied
        BY <1>1, <3>1, Zenon DEF Applied, Stages
      <3> QED
        BY <1>6, <1>8, <3>1, <3>2
    <2>2. CASE x \notin Ran
      BY <1>7, <1>9, <2>2 DEF Applied
    <2> QED
      BY <2>1, <2>2
  <1> QED
    BY <1>1, <1>9, Zenon DEF SerialInv

\* The writer goroutine only adds to the log.
LEMMA LogWriterSerial ==
  ASSUME IndInv, SerialInv, LogWriter
  PROVE  SerialInv'
  <1>1. /\ ran' = ran /\ proc' = proc /\ at' = at /\ ms' = ms /\ closed' = closed
        /\ st' = st /\ (dead => dead') /\ log \in Seq(Writes)
    BY DEF LogWriter, lifeVars, engineVars, Log!Append1, Log!Tear, Log!WriterEnds, IndInv, TypeOK,
           Log!LogTypeOK
  <1>2. Ran' = Ran /\ InFlight' = InFlight
    BY <1>1 DEF Ran, InFlight
  <1>3. Log!Logged \subseteq Log!Logged'
    <2>1. CASE log' = log
      BY <2>1 DEF Log!Logged
    <2>2. ASSUME NEW w \in Writes, log' = Append(log, w) PROVE Log!Logged \subseteq Log!Logged'
      <3>1. Elems(Append(log, w)) = Elems(log) \cup {w}
        <4>1. log \in Seq(Writes) /\ w \in Writes
          BY <1>1
        <4> QED
          BY <4>1, AppendSet
      <3> QED
        BY <2>2, <3>1 DEF Log!Logged, Elems
    <2> QED
      BY <2>1, <2>2 DEF LogWriter, Log!Append1, Log!Tear, Log!WriterEnds
  <1>4. Stuck => Stuck'
    BY <1>1 DEF Stuck
  <1> QED
    BY <1>1, <1>2, <1>3, <1>4 DEF SerialInv

\* Stop closes the log for good; Start serves when all that was run is logged.
LEMMA LifeSerial ==
  ASSUME IndInv, StoreInv, SerialInv,
         \/ StartEngine \/ StartLog \/ StartFails \/ ReplayLine \/ ReplayEnd
         \/ EngineDies \/ EngineWatcher
         \/ StopHTTP \/ CloseListener \/ StopEngine \/ StopLog \/ StopLogNil
  PROVE  SerialInv'
  <1> USE DEF lifeVars, engineVars, logVars
  <1>1. /\ at' = at /\ log' = log /\ st' = st /\ dead' = dead
        /\ closed \in BOOLEAN /\ ms \in BOOLEAN
    BY Zenon DEF StartEngine, StartLog, StartFails, ReplayLine, ReplayEnd, EngineDies,
           EngineWatcher, StopHTTP, CloseListener, StopEngine, StopLog, StopLogNil, IndInv, TypeOK
  <1>2. InFlight' = InFlight /\ Log!Logged' = Log!Logged
    BY <1>1 DEF InFlight, Log!Logged
  <1>3. CASE proc = "serving"
    <2>1. /\ ran' = ran
          /\ closed' = closed \/ closed'
          /\ ms' = ms \/ ~ms'
      BY <1>3, Zenon DEF StartEngine, StartLog, StartFails, ReplayLine, ReplayEnd, EngineDies,
           EngineWatcher, StopHTTP, CloseListener, StopEngine, StopLog, StopLogNil
    <2>2. Ran' = Ran
      BY <2>1, Zenon DEF Ran
    <2>3. ASSUME Stuck PROVE Stuck'
      <3>1. CASE dead
        BY <1>1, <3>1, Zenon DEF Stuck
      <3>2. CASE (closed \/ ~ms) /\ \A w \in Writes : st[w] # "open"
        <4>1. closed' \/ ~ms'
          BY <2>1, <3>2, Zenon
        <4> QED
          BY <1>1, <3>2, <4>1, Zenon DEF Stuck
      <3> QED
        BY <2>3, <3>1, <3>2, Zenon DEF Stuck
    <2> QED
      BY <1>1, <1>2, <1>3, <2>2, <2>3 DEF SerialInv
  <1>4. CASE proc # "serving" /\ proc' = "serving"
    <2>1. proc = "opened" /\ ran' = ran
      BY <1>4, Zenon DEF StartEngine, StartLog, StartFails, ReplayLine, ReplayEnd, EngineDies,
           EngineWatcher, StopHTTP, CloseListener, StopEngine, StopLog, StopLogNil
    <2>2. Ran' \subseteq Log!Logged
      BY <2>1 DEF StoreInv, Ran
    <2> QED
      BY <1>2, <2>2, Zenon DEF SerialInv
  <1>5. CASE proc' # "serving"
    BY <1>2, <1>5 DEF SerialInv
  <1> QED
    BY <1>3, <1>4, <1>5

\* No handler outlives the process.
LEMMA EndSerial ==
  ASSUME IndInv, SerialInv, Exit \/ Crash
  PROVE  SerialInv'
  <1>1. proc' = "down" /\ at' = [r \in Reqs |-> IF at[r] \in Stages THEN "lost" ELSE at[r]]
    BY DEF Exit, Crash, ProcessEnds
  <1>2. InFlight' = {}
    BY <1>1 DEF InFlight, Stages
  <1> QED
    BY <1>1, <1>2 DEF SerialInv

\* Every step.
LEMMA NextSerial ==
  ASSUME IndInv, StoreInv, MaxInFlight = 1, SerialInv, [Next]_vars
  PROVE  SerialInv'
  <1>1. CASE UNCHANGED vars
    <2>1. Ran' = Ran /\ Log!Logged' = Log!Logged /\ InFlight' = InFlight /\ (Stuck <=> Stuck')
      BY <1>1 DEF vars, Ran, Log!Logged, InFlight, Stuck
    <2> QED
      BY <1>1, <2>1 DEF vars, SerialInv
  <1> QED
    BY <1>1, HandlerSerial, LogWriterSerial, LifeSerial, EndSerial DEF Next

\* StoreInv holds when requests come one at a time, or when mutations commute.
LEMMA SpecStoreInv ==
  ASSUME MaxInFlight = 1 \/ Commuting
  PROVE  Spec => []StoreInv
  <1>1. CASE Commuting
    <2>1. IndInv /\ StoreInv /\ [Next]_vars => StoreInv'
      BY <1>1, NextStore
    <2> QED
      BY <2>1, InitStoreInv, SpecIndInv, PTL DEF Spec
  <1>2. CASE MaxInFlight = 1
    <2>1. Init => SerialInv
      BY DEF Init, SerialInv, InFlight, Stages
    <2>2. IndInv /\ StoreInv /\ SerialInv /\ [Next]_vars => StoreInv' /\ SerialInv'
      BY <1>2, NextStore, NextSerial
    <2> QED
      BY <2>1, <2>2, InitStoreInv, SpecIndInv, PTL DEF Spec
  <1> QED
    BY <1>1, <1>2

\* When postgres has run nothing that is not in the log, a restart gives the same
\* data: Rebuild(log) is the data it has, though concurrent handlers may have logged
\* their mutations in another order than execMu ran them (execHandler,
\* registrationHandler, replayLog).  This needs requests one at a time or mutations
\* that commute; without either it fails (MCArlaOrder.cfg).
THEOREM LogRebuildsTheStore ==
  ASSUME MaxInFlight = 1 \/ Commuting
  PROVE  Spec => []LogRebuildsStore
  <1>1. ASSUME StoreInv PROVE LogRebuildsStore
    <2> SUFFICES ASSUME proc = "serving", Ran \subseteq Log!Logged PROVE Rebuild(log) = db
      BY DEF LogRebuildsStore
    <2>1. Ran \ Log!Logged = {}
      OBVIOUS
    <2> QED
      BY <1>1, <2>1, TakesNone DEF StoreInv
  <1>2. StoreInv => LogRebuildsStore
    BY <1>1
  <1> QED
    BY <1>2, SpecStoreInv, PTL

\* replayLog comes to the end of every log that no crash or failed write damaged: a
\* mutation that was run once is not refused when it is run again, in the order of
\* the log and behind any prefix that a crash left of it.  Besides the hypothesis of
\* LogRebuildsTheStore this needs that no mutation has a quote or is over 64KB; with
\* one that has a quote it fails (MCArlaQuote.cfg).
THEOREM UndamagedLogIsReplayed ==
  ASSUME MaxInFlight = 1 \/ Commuting, (Quoted \cup Long) \cap Writes = {}
  PROVE  Spec => []UndamagedLogReplays
  <1> USE DEF UndamagedLogReplays
  <1>1. Init => UndamagedLogReplays
    BY DEF Init
  <1>2. ASSUME IndInv, StoreInv, UndamagedLogReplays, [Next]_vars,
               proc' = "failed", alive'
        PROVE  (torn \/ \E i \in bare : i < Len(log))'
    <2>1. CASE ReplayLine
      <3>1. /\ proc = "opened" /\ pos < Len(log) /\ ~Replays(pos + 1) /\ alive
            /\ log' = log /\ bare' = bare /\ torn' = torn
            /\ pos \in Nat /\ log \in Seq(Writes) /\ db \in DB
        BY <1>2, <2>1, Zenon DEF ReplayLine, logVars, IndInv, TypeOK, Log!LogTypeOK
      <3>2. /\ log[pos + 1] \in Writes /\ pos + 1 \in 0..Len(log) /\ Len(log) \in Nat
            /\ pos + 1 # Len(log) => pos + 1 < Len(log)
        BY <3>1
      <3>3. Effect[<<db, log[pos + 1]>>] # Rejected
        <4>1. Rebuild(SubSeq(log, 1, pos + 1)) \in DB
          BY <1>2, <3>1, <3>2, RebuildPrefix, Zenon DEF StoreInv
        <4>2. Rebuild(SubSeq(log, 1, pos + 1)) = Then(db, log[pos + 1])
          BY <1>2, <3>1, RebuildNext, Zenon DEF StoreInv
        <4> QED
          BY <3>1, <4>1, <4>2, EffectAssumption DEF Then
      <3>4. ~EndsLine(pos + 1)
        BY <3>1, <3>2, <3>3 DEF Replays
      <3> QED
        BY <3>1, <3>2, <3>4 DEF EndsLine
    <2>2. CASE ReplayEnd
      BY <1>2, <2>2 DEF ReplayEnd, engineVars, logVars
    <2>3. CASE proc = "failed" /\ alive /\ log' = log /\ bare' = bare /\ torn' = torn
      BY <1>2, <2>3
    <2>4. CASE \E r \in Reqs : Accept(r) \/ Handle(r)
      <3>1. proc' = proc /\ alive' = alive /\ log' = log /\ bare' = bare /\ torn' = torn
        BY <2>4, Zenon DEF Accept, Handle, BadRequest, CheckEngine, RegisterUser, Mutate, CheckLog,
             WriteLog, LogWritten, LogFailed, Login, RunQuery, lifeVars, engineVars, logVars,
             Log!Refuse, Log!Call, Log!Ack, Log!Fail, Log!Panic
      <3> QED
        BY <1>2, <2>3, <3>1
    <2>5. CASE LogWriter
      <3>1. proc = "failed" /\ alive
        BY <1>2, <2>5 DEF LogWriter, lifeVars, engineVars
      <3>2. \A w \in Writes : st[w] # "open"
        BY <1>2, <3>1, Zenon DEF IndInv, CallInv, Fits, HandlerInv, Stages, Reqs
      <3> QED
        BY <2>3, <2>5, <3>1, <3>2 DEF LogWriter, Log!Append1, Log!Tear, Log!WriterEnds
    <2>6. CASE StartEngine \/ StartLog \/ StartFails \/ Exit \/ Crash
      BY <1>2, <2>6 DEF StartEngine, StartLog, StartFails, Exit, Crash, ProcessEnds
    <2>7. CASE EngineDies \/ EngineWatcher \/ StopHTTP \/ CloseListener \/ StopEngine
                 \/ StopLog \/ StopLogNil
      <3>1. /\ proc' = proc /\ log' = log /\ bare' = bare /\ torn' = torn
            /\ alive' = alive \/ ~alive'
        BY <2>7, Zenon DEF EngineDies, EngineWatcher, StopHTTP, CloseListener, StopEngine, StopLog,
                    StopLogNil, lifeVars, engineVars, logVars
      <3> QED
        BY <1>2, <2>3, <3>1, Zenon
    <2>8. CASE UNCHANGED vars
      BY <1>2, <2>3, <2>8 DEF vars
    <2> QED
      BY <1>2, <2>1, <2>2, <2>4, <2>5, <2>6, <2>7, <2>8 DEF Next
  <1>3. IndInv /\ StoreInv /\ UndamagedLogReplays /\ [Next]_vars => UndamagedLogReplays'
    BY <1>2
  <1> QED
    BY <1>1, <1>3, SpecStoreInv, SpecIndInv, PTL DEF Spec
=============================================================================
