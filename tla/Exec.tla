-------------------------------- MODULE Exec --------------------------------
(***************************************************************************)
(* arla.exec (index.js) on the lines of the mutation log, one after the    *)
(* other, as the replay of a server start does: a mutation written by an   *)
(* older version of the application goes through cfg.transform until its   *)
(* version is no longer older, and then its action runs.                   *)
(*                                                                         *)
(* A mutation is its version here; what its name and arguments say is the  *)
(* application's business.  Two mutations differ in nothing else that the  *)
(* loop looks at.                                                          *)
(***************************************************************************)
EXTENDS Naturals, Sequences

CONSTANTS Versions,       \* version numbers; 0 is the missing version
          NoVersion,      \* what a result of transform without version has
          Throws,         \* transform throws
          MaxTransforms,  \* 1000 in the code
          Jobs            \* the logs and configurations to replay

(* A job: cfg.version, whether cfg.transform is defined, what it makes of  *)
(* each version, the versions of the lines of the log, and the versions in *)
(* which there is no such action, the action throws or what it returns is  *)
(* not a statement that runs.                                              *)
ASSUME ExecAssumption ==
  /\ 0 \in Versions /\ Versions \subseteq Nat
  /\ NoVersion \notin Versions /\ Throws \notin Versions /\ NoVersion # Throws
  /\ MaxTransforms \in Nat
  /\ \A j \in Jobs : j \in [version : Versions \ {0}, defined : BOOLEAN,
       transform : [Versions -> Versions \cup {NoVersion, Throws}],
       log : Seq(Versions),
       rejects : SUBSET (Versions \cup {NoVersion})]

VARIABLES job,    \* the configuration and the log
          at,     \* "next", "loop", "done" or "error"
          m,      \* the version of the mutation in hand
          iter,   \* calls of transform for it
          ran     \* the versions with which actions ran, in order

execVars == <<job, at, m, iter, ran>>

ExecInit == job \in Jobs /\ at = "next" /\ m = 0 /\ iter = 0 /\ ran = <<>>

Line == Len(ran) + 1

(* The condition of the loop: undefined < n is false in JavaScript. *)
Older(v) == v # NoVersion /\ v < job.version

(* exec is called with the next line; one without name or version throws. *)
Begin ==
  /\ at = "next" /\ Line <= Len(job.log)
  /\ m' = job.log[Line] /\ iter' = 0
  /\ at' = IF m' = 0 THEN "error" ELSE "loop"
  /\ UNCHANGED <<job, ran>>

(* Mutant: the limit is one call too low. *)
TransformShort ==
  /\ at = "loop" /\ Older(m)
  /\ IF iter >= MaxTransforms \/ ~job.defined \/ job.transform[m] = Throws
     THEN at' = "error" /\ UNCHANGED <<m, iter>>
     ELSE m' = job.transform[m] /\ iter' = iter + 1 /\ UNCHANGED at
  /\ UNCHANGED <<job, ran>>

(* Mutant: the limit is one call too high. *)
TransformLong ==
  /\ at = "loop" /\ Older(m)
  /\ IF iter > MaxTransforms + 1 \/ ~job.defined \/ job.transform[m] = Throws
     THEN at' = "error" /\ UNCHANGED <<m, iter>>
     ELSE m' = job.transform[m] /\ iter' = iter + 1 /\ UNCHANGED at
  /\ UNCHANGED <<job, ran>>

(* Mutant: iter++ is missing. *)
TransformUncounted ==
  /\ at = "loop" /\ Older(m)
  /\ IF iter > MaxTransforms \/ ~job.defined \/ job.transform[m] = Throws
     THEN at' = "error" /\ UNCHANGED <<m, iter>>
     ELSE m' = job.transform[m] /\ UNCHANGED <<at, iter>>
  /\ UNCHANGED <<job, ran>>

(* One turn of the loop; the three errors of its body end the replay. *)
TransformOnce ==
  /\ at = "loop" /\ Older(m)
  /\ IF iter > MaxTransforms \/ ~job.defined \/ job.transform[m] = Throws
     THEN at' = "error" /\ UNCHANGED <<m, iter>>
     ELSE m' = job.transform[m] /\ iter' = iter + 1 /\ UNCHANGED at
  /\ UNCHANGED <<job, ran>>

(* The loop is over: the action runs with the mutation as it is now, and   *)
(* so does the statement that it returns.                                  *)
RunAction ==
  /\ at = "loop" /\ ~Older(m)
  /\ IF m \in job.rejects THEN at' = "error" /\ UNCHANGED ran
     ELSE ran' = Append(ran, m) /\ at' = "next"
  /\ UNCHANGED <<job, m, iter>>

ReplayDone ==
  /\ at = "next" /\ Line > Len(job.log)
  /\ at' = "done"
  /\ UNCHANGED <<job, m, iter, ran>>

ExecNext == Begin \/ TransformOnce \/ RunAction \/ ReplayDone

ExecSpec == ExecInit /\ [][ExecNext]_execVars

-----------------------------------------------------------------------------
ExecTypeOK ==
  /\ job \in Jobs /\ at \in {"next", "loop", "done", "error"}
  /\ m \in Versions \cup {NoVersion} /\ iter \in 0..MaxTransforms + 1
  /\ ran \in Seq(Versions \cup {NoVersion}) /\ Len(ran) <= Len(job.log)

(* The versions a mutation passes through: 0 calls of transform, 1 call... *)
(* It stops changing when it is no longer older.                           *)
Orbit(v) ==
  LET orbit[k \in 0..MaxTransforms + 1] ==
        IF k = 0 THEN v
        ELSE IF orbit[k-1] = Throws \/ ~Older(orbit[k-1]) THEN orbit[k-1]
        ELSE job.transform[orbit[k-1]]
  IN  orbit

Outcome(v) == Orbit(v)[MaxTransforms + 1]

(* A line can be replayed if it has a version, and is not older or becomes *)
(* not older within MaxTransforms + 1 calls of a transform that is there;  *)
(* and if the action accepts what became of it.                            *)
Replayable(v) ==
  /\ v # 0
  /\ Older(v) => job.defined /\ Outcome(v) # Throws /\ ~Older(Outcome(v))
  /\ Outcome(v) \notin job.rejects

(* The loop of arla.exec (index.js:718) against its meaning: each action   *)
(* runs once, in the order of the log, with the first version on the way   *)
(* that is not older than cfg.version, and the replay stops at the first   *)
(* line that does not get there within 1001 calls or is rejected, no       *)
(* earlier.                                                                *)
ReplaysAsTransformed ==
  /\ \A i \in 1..Len(ran) : Replayable(job.log[i]) /\ ran[i] = Outcome(job.log[i])
  /\ at = "error" => ~Replayable(job.log[Line])
  /\ at = "done" => Len(ran) = Len(job.log)
=============================================================================
