----------------------------- MODULE QueryPoll -----------------------------
(***************************************************************************)
(* A prepared query of the JavaScript client (src/client/src/query.js):    *)
(* poll, stop and the chain of promises and timers behind them, with the   *)
(* runs that Client.refresh adds and a client that gains and loses its     *)
(* session.  JavaScript runs one callback at a time, so a callback is one  *)
(* step; responses and timers come in any order.                           *)
(*                                                                         *)
(* A loop is what one call of poll has started: its promises resolve when  *)
(* the last one does, so Query.polling is the loop whose promise it holds. *)
(***************************************************************************)
EXTENDS Naturals, FiniteSets

CONSTANTS MaxPolls,     \* bound: calls of poll that start a loop
          MaxExtra,     \* bound: runs at the same time outside a loop
          BuilderThrows \* whether _getQuery may throw

ASSUME PollAssumption == MaxPolls \in Nat /\ MaxExtra \in Nat /\ BuilderThrows \in BOOLEAN

VARIABLES
    session,    \* client.state is "authenticated"
    polling,    \* Query.polling: the loop of its promise, 0 when false
    loop,       \* where each loop is
    extra,      \* the runs under way that belong to no loop
    awaited,    \* the loops whose end the promise of a stop() waits for
    asked       \* history: poll was called and stop was not called since

vars == <<session, polling, loop, extra, awaited, asked>>

Loops == 1..MaxPolls
Live == {"run", "timer"}

TypeOK == /\ session \in BOOLEAN
          /\ polling \in {0} \cup Loops
          /\ loop \in [Loops -> {"unused", "done", "thrown"} \cup Live]
          /\ extra \in 0..MaxExtra
          /\ awaited \subseteq Loops
          /\ asked \in BOOLEAN

Init == /\ session = FALSE
        /\ polling = 0
        /\ loop = [l \in Loops |-> "unused"]
        /\ extra = 0
        /\ awaited = {}
        /\ asked = FALSE

\* _getQuery throws when the builder is not one, or its function throws or
\* returns nothing.
GetQueryThrows == BuilderThrows

\* _poll after its test of this.polling, which is false: a timer when there is
\* no session, else run(), which may throw before it has sent anything.
Link(l) ==
    \/ /\ polling' = l
       /\ loop' = [loop EXCEPT ![l] = IF session THEN "run" ELSE "timer"]
    \/ /\ session
       /\ GetQueryThrows
       /\ polling' = 0
       /\ loop' = [loop EXCEPT ![l] = "thrown"]

\* Query.poll.  A call while the query polls is rejected and changes nothing.
Poll(l) ==
    /\ polling = 0
    /\ loop[l] = "unused"
    /\ \A k \in 1..(l - 1) : loop[k] # "unused"
    /\ Link(l)
    /\ asked' = (polling' # 0)
    /\ UNCHANGED <<session, extra, awaited>>

\* The promise of loop l resolves, and with it that of the stop() that waits.
Ends(l) ==
    /\ loop' = [loop EXCEPT ![l] = "done"]
    /\ UNCHANGED polling

\* A run of a loop was answered or failed; a 401 ends the session.
RunEnds(l) ==
    /\ loop[l] = "run"
    /\ \/ polling = 0 /\ Ends(l)
       \/ polling # 0 /\ loop' = [loop EXCEPT ![l] = "timer"] /\ UNCHANGED polling
    /\ session' \in {session, FALSE}
    /\ UNCHANGED <<extra, awaited, asked>>

\* Mutant: a timer that finds no session ends its loop.
TimerEndsLoop(l) ==
    /\ loop[l] = "timer"
    /\ \/ (polling = 0 \/ ~session) /\ Ends(l)
       \/ polling # 0 /\ session /\ Link(l)
    /\ UNCHANGED <<session, extra, awaited, asked>>

\* Mutant: a timer that was not stopped leaves this.polling set, so that the
\* call of _poll is rejected.
TimerRejected(l) ==
    /\ loop[l] = "timer"
    /\ Ends(l)
    /\ UNCHANGED <<session, extra, awaited, asked>>

\* Mutant: the timer does not look at this.polling.
TimerUnchecked(l) ==
    /\ loop[l] = "timer"
    /\ Link(l)
    /\ UNCHANGED <<session, extra, awaited, asked>>

\* The timer of _pollLater fires.
Timer(l) ==
    /\ loop[l] = "timer"
    /\ \/ polling = 0 /\ Ends(l)
       \/ polling # 0 /\ Link(l)
    /\ UNCHANGED <<session, extra, awaited, asked>>

\* Query.stop, also called by Client.disconnect.  Its promise waits for the loop
\* that polling holds, and is resolved at once when there is none.
Stop ==
    /\ polling' = 0
    /\ awaited' = IF polling = 0 THEN awaited ELSE awaited \cup {polling}
    /\ asked' = FALSE
    /\ UNCHANGED <<session, loop, extra>>

\* Client.refresh, after a mutation or by the application.
Refresh ==
    /\ session
    /\ polling # 0
    /\ extra < MaxExtra
    /\ extra' = extra + 1
    /\ UNCHANGED <<session, polling, loop, awaited, asked>>

\* Client._setToken(token): a session, and a refresh.
SetToken ==
    /\ session' = TRUE
    /\ \/ polling = 0 /\ UNCHANGED extra
       \/ polling # 0 /\ extra < MaxExtra /\ extra' = extra + 1
    /\ UNCHANGED <<polling, loop, awaited, asked>>

\* Client._setToken(null)
ClearToken ==
    /\ session
    /\ session' = FALSE
    /\ UNCHANGED <<polling, loop, extra, awaited, asked>>

\* A run outside a loop was answered or failed; a 401 ends the session.
ExtraEnds ==
    /\ extra > 0
    /\ extra' = extra - 1
    /\ session' \in {session, FALSE}
    /\ UNCHANGED <<polling, loop, awaited, asked>>

Step(l) == RunEnds(l) \/ Timer(l)

Next == \/ \E l \in Loops : Poll(l) \/ Step(l)
        \/ Stop \/ Refresh \/ SetToken \/ ClearToken \/ ExtraEnds

Spec == Init /\ [][Next]_vars

\* A request is answered or fails, a timer fires.
Fairness == \A l \in Loops : WF_vars(RunEnds(l)) /\ WF_vars(Timer(l))

FairSpec == Spec /\ Fairness

-----------------------------------------------------------------------------
(* Properties.                                                             *)

\* poll is rejected with "query is already polling" only when some loop really
\* runs or has its timer set: the promise in Query.polling is never that of a
\* loop that is over (Query._poll, Query._pollLater, Query.stop).
PollingIsLive == polling # 0 => loop[polling] \in Live

\* Once stop was called, and until poll is called again, no timer, response or
\* refresh starts a run (the tests of this.polling in Query._poll and
\* Query._pollLater, and of q.polling in Client.refresh).
StopHalts ==
    [][(~asked /\ ~asked') =>
          /\ extra' <= extra
          /\ \A l \in Loops : loop'[l] = "run" => loop[l] = "run"]_vars

\* A query that polls, with a session that lasts, is run again and again until
\* it is stopped or its builder throws (Query._poll, Query._pollLater).
PollContinues ==
    (asked /\ session) ~> (\/ ~asked \/ ~session
                            \/ \E l \in Loops : loop[l] \in {"run", "thrown"})

\* The promise that stop returns resolves, unless the query is polled again or
\* the builder throws (Query.stop waits for the loop, and the loop sees that
\* polling is false).
StopResolves ==
    \A l \in Loops : (l \in awaited) ~> (loop[l] \in {"done", "thrown"} \/ asked)
=============================================================================
