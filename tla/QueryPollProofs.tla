--------------------------- MODULE QueryPollProofs ---------------------------
(***************************************************************************)
(* Proofs, for any number of calls of poll and of runs beside the loop,    *)
(* that Query.polling is never the promise of a loop that is over, and     *)
(* that a query that was stopped starts no run.  The invariant adds that   *)
(* polling is set only when poll was called and stop was not called since. *)
(***************************************************************************)
EXTENDS QueryPoll, TLAPS

IndInv == TypeOK /\ PollingIsLive /\ (~asked => polling = 0)

\* A query starts without a loop.
LEMMA InitIndInv == Init => IndInv
  <1> SUFFICES ASSUME Init PROVE IndInv
    OBVIOUS
  <1>1. extra \in 0..MaxExtra
    BY PollAssumption DEF Init
  <1>2. TypeOK
    BY <1>1, Zenon DEF Init, TypeOK
  <1> QED
    BY <1>2 DEF Init, IndInv, PollingIsLive

\* poll, the end of a run and the timer.
LEMMA LoopStep ==
  ASSUME IndInv, NEW l \in Loops, Poll(l) \/ RunEnds(l) \/ Timer(l)
  PROVE  IndInv'
  <1> USE DEF IndInv
  <1>0. l # 0 /\ 0 \notin Loops
    BY PollAssumption DEF Loops
  <1>1. CASE Poll(l)
    BY <1>0, <1>1, Zenon DEF Poll, Link, TypeOK, PollingIsLive, Live
  <1>2. CASE RunEnds(l)
    BY <1>0, <1>2, Zenon DEF RunEnds, Ends, TypeOK, PollingIsLive, Live
  <1>3. CASE Timer(l)
    BY <1>0, <1>3 DEF Timer, Link, Ends, TypeOK, PollingIsLive, Live
  <1> QED
    BY <1>1, <1>2, <1>3

\* stop, refresh, the session and the runs beside the loop.
LEMMA OtherStep ==
  ASSUME IndInv, Stop \/ Refresh \/ SetToken \/ ClearToken \/ ExtraEnds
  PROVE  IndInv'
  <1> USE DEF IndInv, Stop, Refresh, SetToken, ClearToken, ExtraEnds
  <1>1. \/ extra' = extra
        \/ extra < MaxExtra /\ extra' = extra + 1
        \/ extra > 0 /\ extra' = extra - 1
    BY Zenon
  <1>2. extra' \in 0..MaxExtra
    BY <1>1, PollAssumption DEF TypeOK
  <1> QED
    BY <1>2, Zenon DEF TypeOK, PollingIsLive, Live

\* The invariant holds in every state of every behaviour.
LEMMA SpecIndInv == Spec => []IndInv
  <1>1. IndInv /\ UNCHANGED vars => IndInv'
    BY DEF IndInv, vars, TypeOK, PollingIsLive
  <1>2. IndInv /\ [Next]_vars => IndInv'
    BY <1>1, LoopStep, OtherStep DEF Next, Step
  <1> QED
    BY InitIndInv, <1>2, PTL DEF Spec
-----------------------------------------------------------------------------
\* Every variable of the query stays in its range.
THEOREM QueryTypeCorrect == Spec => []TypeOK
  BY SpecIndInv, PTL DEF IndInv

\* Query.polling never holds the promise of a loop that is over, so that poll is
\* rejected only while the query really polls.
THEOREM PollingStaysLive == Spec => []PollingIsLive
  BY SpecIndInv, PTL DEF IndInv

\* After stop and before the next poll nothing starts a run of the query.
THEOREM StopIsObeyed == Spec => StopHalts
  <1>1. ASSUME IndInv, [Next]_vars, ~asked, ~asked'
        PROVE  /\ extra' <= extra
               /\ \A l \in Loops : loop'[l] = "run" => loop[l] = "run"
    <2> USE DEF IndInv
    <2>1. polling = 0 /\ extra \in Nat
      BY <1>1 DEF TypeOK
    <2>2. CASE UNCHANGED vars
      BY <2>1, <2>2 DEF vars
    <2>3. ASSUME NEW l \in Loops, Poll(l) PROVE polling' = 0 /\ loop' = [loop EXCEPT ![l] = "thrown"]
      <3>1. polling' = 0
        BY <1>1, <2>3, Zenon DEF Poll
      <3>2. l # 0
        BY PollAssumption DEF Loops
      <3> QED
        BY <2>3, <3>1, <3>2 DEF Poll, Link
    <2>4. ASSUME NEW l \in Loops, RunEnds(l) \/ Timer(l) PROVE loop' = [loop EXCEPT ![l] = "done"]
      BY <2>1, <2>4, Zenon DEF RunEnds, Timer, Ends
    <2>5. ASSUME NEW l \in Loops, Poll(l) \/ RunEnds(l) \/ Timer(l)
          PROVE  extra' = extra /\ \A k \in Loops : loop'[k] = "run" => loop[k] = "run"
      BY <1>1, <2>3, <2>4, <2>5, Zenon DEF Poll, RunEnds, Timer, TypeOK
    <2>6. CASE Stop \/ Refresh \/ SetToken \/ ClearToken \/ ExtraEnds
      <3>1. loop' = loop /\ (extra' = extra \/ extra' = extra - 1)
        BY <2>1, <2>6, Zenon DEF Stop, Refresh, SetToken, ClearToken, ExtraEnds
      <3> QED
        BY <2>1, <3>1
    <2> QED
      BY <1>1, <2>1, <2>2, <2>5, <2>6 DEF Next, Step
  <1>2. IndInv /\ [Next]_vars =>
          [(~asked /\ ~asked') => /\ extra' <= extra
                                  /\ \A l \in Loops : loop'[l] = "run" => loop[l] = "run"]_vars
    BY <1>1
  <1> QED
    BY <1>2, SpecIndInv, PTL DEF Spec, StopHalts
=============================================================================
