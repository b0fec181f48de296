------------------------------- MODULE Client -------------------------------
(***************************************************************************)
(* The session of the JavaScript client (src/client/src/client.js): calls  *)
(* of authenticate, register, exec and query that wait for /info, carry    *)
(* the token of the moment they were made and are answered in any order or *)
(* not at all, while the application connects, disconnects and calls       *)
(* again.  One callback runs at a time and is one step.  The server grants *)
(* tokens, lets them expire and executes mutations.                        *)
(***************************************************************************)
EXTENDS Naturals

CONSTANTS Auths,        \* calls of authenticate (or connect with credentials)
          Registers,    \* calls of register, which then authenticate
          Execs,        \* calls of exec, or of query
          Tokens,       \* the tokens the server may grant
          NoToken,
          MaxFailures   \* bound: failures of /info

Logins == Auths \cup Registers
Calls == Logins \cup Execs

ASSUME ClientAssumption == /\ NoToken \notin Tokens
                           /\ Execs \cap Logins = {}
                           /\ MaxFailures \in Nat

VARIABLES
    token,      \* Client.token
    state,      \* Client.state
    info,       \* Client.info is set
    at,         \* where each call is
    carried,    \* the token in a call's request, or in the answer to it
    registered, \* the calls of register that went on to authenticate
    failures,   \* how often /info failed
    granted,    \* server: the tokens that were granted
    valid,      \* server: those that have not expired
    executed,   \* server: how often it executed each exec
    left,       \* history: disconnect was called and no connect, authenticate or
                \* register since
    late        \* history: those of them that were under way at the disconnect

sessionVars == <<token, state>>
serverVars == <<granted, valid, executed>>
leftVars == <<left, late>>
vars == <<token, state, info, at, carried, registered, failures, granted,
          valid, executed, left, late>>

\* "info": /info was requested; "retry": it failed and the timer is set;
\* "ready": the request is about to be sent; "sent": it is on its way; "200",
\* "401", "error": so is the answer.
Pending == {"info", "retry", "ready", "sent", "200", "401", "error"}
Settled == {"resolved", "rejected"}

TypeOK == /\ token \in Tokens \cup {NoToken}
          /\ state \in {"authenticated", "unauthenticated"}
          /\ info \in BOOLEAN
          /\ at \in [Calls -> {"idle"} \cup Pending \cup Settled]
          /\ carried \in [Calls -> Tokens \cup {NoToken}]
          /\ registered \subseteq Registers
          /\ failures \in 0..MaxFailures
          /\ granted \subseteq Tokens
          /\ valid \subseteq granted
          /\ executed \in [Execs -> Nat]
          /\ left \in BOOLEAN
          /\ late \subseteq Logins

Init == /\ token = NoToken
        /\ state = "unauthenticated"
        /\ info = FALSE
        /\ at = [c \in Calls |-> "idle"]
        /\ carried = [c \in Calls |-> NoToken]
        /\ registered = {}
        /\ failures = 0
        /\ granted = {}
        /\ valid = {}
        /\ executed = [c \in Execs |-> 0]
        /\ left = FALSE
        /\ late = {}

\* _setToken and _setState, which listens to its events.  (The refresh of
\* polling queries is in QueryPoll.)
SetToken(t) ==
    /\ token' = t
    /\ state' = IF t = NoToken THEN "unauthenticated" ELSE "authenticated"

Goto(c, place) == at' = [at EXCEPT ![c] = place]

\* _post takes the token and asks _configure for /info.
Post(c) ==
    /\ carried' = [carried EXCEPT ![c] = token]
    /\ Goto(c, IF info THEN "ready" ELSE "info")

Authenticating(c) == c \in Auths \cup registered

\* Bookkeeping for the properties.
Leaves == left' = TRUE /\ late' = {c \in Logins : at[c] \in Pending}
Returns == left' = FALSE /\ late' = {}

-----------------------------------------------------------------------------
(* The client.                                                             *)

\* The application calls authenticate, register, exec or query.
Call(c) ==
    /\ at[c] = "idle"
    /\ Post(c)
    /\ IF c \in Logins THEN Returns ELSE UNCHANGED leftVars
    /\ UNCHANGED <<sessionVars, serverVars, info, registered, failures>>

InfoArrives(c) ==
    /\ at[c] = "info"
    /\ info' = TRUE
    /\ Goto(c, "ready")
    /\ UNCHANGED <<sessionVars, serverVars, carried, registered, failures, leftVars>>

InfoFails(c) ==
    /\ at[c] = "info"
    /\ failures < MaxFailures
    /\ failures' = failures + 1
    /\ Goto(c, "retry")
    /\ UNCHANGED <<sessionVars, serverVars, info, carried, registered, leftVars>>

\* Mutant: a failure of /info is not tried again.
RetryNever(c) ==
    /\ at[c] = "retry"
    /\ ~info
    /\ UNCHANGED vars

\* The timer of _configure fires.
Retry(c) ==
    /\ at[c] = "retry"
    /\ Goto(c, IF info THEN "ready" ELSE "info")
    /\ UNCHANGED <<sessionVars, serverVars, info, carried, registered, failures, leftVars>>

Send(c) ==
    /\ at[c] = "ready"
    /\ Goto(c, "sent")
    /\ UNCHANGED <<sessionVars, serverVars, info, carried, registered, failures, leftVars>>

\* authenticate sets the token it was given, or none.
Authenticated(c) ==
    /\ SetToken(IF at[c] = "200" THEN carried[c] ELSE NoToken)
    /\ Goto(c, "resolved")
    /\ UNCHANGED <<carried, registered>>

\* register goes on with authenticate.
Registered(c) ==
    /\ at[c] = "200"
    /\ registered' = registered \cup {c}
    /\ Post(c)
    /\ UNCHANGED sessionVars

\* Mutant: whatever went wrong with a request ends the session.
SettleHarsh(c) ==
    /\ IF at[c] # "200" THEN SetToken(NoToken) ELSE UNCHANGED sessionVars
    /\ Goto(c, IF at[c] = "200" THEN "resolved" ELSE "rejected")
    /\ UNCHANGED <<carried, registered>>

\* The promise resolves, or is rejected by _maybeReject after
\* _maybeDeauthenticate has seen the status.
Settle(c) ==
    /\ IF at[c] = "401" THEN SetToken(NoToken) ELSE UNCHANGED sessionVars
    /\ Goto(c, IF at[c] = "200" THEN "resolved" ELSE "rejected")
    /\ UNCHANGED <<carried, registered>>

\* Mutant: a request that failed is sent again.
AnswerResends(c) ==
    /\ at[c] \in {"200", "401", "error"}
    /\ \/ at[c] = "error" /\ Goto(c, "ready") /\ UNCHANGED <<sessionVars, carried, registered>>
       \/ at[c] # "error" /\ Authenticating(c) /\ Authenticated(c)
       \/ at[c] # "error" /\ ~Authenticating(c) /\ c \in Registers /\ Registered(c)
       \/ at[c] # "error" /\ ~Authenticating(c) /\ ~(c \in Registers /\ at[c] = "200") /\ Settle(c)
    /\ UNCHANGED <<serverVars, info, failures, leftVars>>

\* The callbacks of _req and of its caller.
Answer(c) ==
    /\ at[c] \in {"200", "401", "error"}
    /\ \/ Authenticating(c) /\ Authenticated(c)
       \/ ~Authenticating(c) /\ c \in Registers /\ Registered(c)
       \/ ~Authenticating(c) /\ ~(c \in Registers /\ at[c] = "200") /\ Settle(c)
    /\ UNCHANGED <<serverVars, info, failures, leftVars>>

\* connect with a token the application kept
ConnectToken(t) ==
    /\ SetToken(t)
    /\ Returns
    /\ UNCHANGED <<serverVars, info, at, carried, registered, failures>>

\* deauthenticate, or connect without credentials
Deauthenticate ==
    /\ SetToken(NoToken)
    /\ UNCHANGED <<serverVars, info, at, carried, registered, failures, leftVars>>

\* Mutant: disconnect keeps the token.
DisconnectKeeps ==
    /\ info' = FALSE
    /\ Leaves
    /\ UNCHANGED <<sessionVars, serverVars, at, carried, registered, failures>>

Disconnect ==
    /\ info' = FALSE
    /\ SetToken(NoToken)
    /\ Leaves
    /\ UNCHANGED <<serverVars, at, carried, registered, failures>>

-----------------------------------------------------------------------------
(* The server (main.go) and the network.                                   *)

Grant(c) ==
    /\ Goto(c, "200")
    /\ \E t \in Tokens \ granted :
          /\ carried' = [carried EXCEPT ![c] = t]
          /\ granted' = granted \cup {t}
          /\ valid' = valid \cup {t}
    /\ UNCHANGED executed

Refuse(c, status) == Goto(c, status) /\ UNCHANGED <<serverVars, carried>>

\* An exec is executed; the server may still fail to log it.
Execute(c) ==
    /\ carried[c] \in valid
    /\ executed' = [executed EXCEPT ![c] = @ + 1]
    /\ Goto(c, "200") \/ Goto(c, "error")
    /\ UNCHANGED <<granted, valid, carried>>

Serve(c) ==
    /\ at[c] = "sent"
    /\ \/ Refuse(c, "error")
       \/ Authenticating(c) /\ (Grant(c) \/ Refuse(c, "401"))
       \/ ~Authenticating(c) /\ c \in Registers /\ (Refuse(c, "200") \/ Refuse(c, "401"))
       \/ c \in Execs /\ carried[c] \notin valid /\ Refuse(c, "401")
       \/ c \in Execs /\ Execute(c)
    /\ UNCHANGED <<sessionVars, info, registered, failures, leftVars>>

\* The answer is lost and fetch rejects.
Lose(c) ==
    /\ at[c] \in {"200", "401"}
    /\ Goto(c, "error")
    /\ UNCHANGED <<sessionVars, serverVars, info, carried, registered, failures, leftVars>>

Expire(t) ==
    /\ valid' = valid \ {t}
    /\ UNCHANGED <<sessionVars, info, at, carried, registered, failures, granted, executed, leftVars>>

Step(c) == \/ InfoArrives(c) \/ InfoFails(c) \/ Retry(c) \/ Send(c)
           \/ Serve(c) \/ Lose(c) \/ Answer(c)

Next == \/ \E c \in Calls : Call(c) \/ Step(c)
        \/ \E t \in granted : ConnectToken(t)
        \/ Deauthenticate \/ Disconnect
        \/ \E t \in valid : Expire(t)

Spec == Init /\ [][Next]_vars

\* Requests are answered or fail, timers fire, callbacks run.
FairSpec == Spec /\ \A c \in Calls : WF_vars(Step(c))

-----------------------------------------------------------------------------
(* Properties.                                                             *)

\* A call of exec reaches the engine at most once, however often /info was
\* tried again, and its promise resolves only when it was executed (_post,
\* _configure, _maybeReject).
ExecOnce ==
    \A c \in Execs : /\ executed[c] <= 1
                     /\ at[c] = "resolved" => executed[c] = 1

\* After disconnect no answer to an exec or a query brings a session back, and
\* neither does a login, except one that was under way at that disconnect: if
\* there is a token, such a call was granted it (disconnect, authenticate,
\* register, _maybeDeauthenticate).
LeftStaysOut ==
    left => token = NoToken \/ \E c \in late : at[c] = "resolved" /\ token = carried[c]

\* A session that the server honours is not ended by what becomes of its own
\* requests: an exec or query that carried its token may fail or be lost, and is
\* refused for its token only if that has expired.  (A 401 to a request with
\* another token does end it.)  _maybeDeauthenticate, authError in main.go.
HonouredSessionLasts ==
    [][\A c \in Execs : at'[c] # at[c] /\ carried[c] = token /\ token \in valid
                          => token' = token]_vars

\* Every call settles: /info is tried again until it is there, and each answer
\* or failure reaches the promise of the call (_configure, _req).
CallSettles == \A c \in Calls : at[c] \in Pending ~> at[c] \in Settled
=============================================================================
