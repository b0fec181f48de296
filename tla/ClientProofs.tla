---------------------------- MODULE ClientProofs ----------------------------
(***************************************************************************)
(* Proofs, for any number of calls, tokens and failures of /info, that an  *)
(* exec is executed at most once, that after a disconnect a session comes  *)
(* from a late login only, and that a session which the server honours     *)
(* outlasts the failures of its own requests.                              *)
(*                                                                         *)
(* The invariant adds what each of the three rests on: a call of exec that *)
(* has not been answered has not been executed (ExecInv), after a          *)
(* disconnect every login under way was so at that time (LeftInv), and a   *)
(* token for which a request was refused never becomes valid again         *)
(* (RefusedInv, with GrantedInv: the server grants each token once).       *)
(***************************************************************************)
EXTENDS Client, TLAPS

Unsent == {"idle", "info", "retry", "ready", "sent"}

ExecInv == \A c \in Execs : /\ executed[c] <= 1
                            /\ at[c] \in Unsent => executed[c] = 0
                            /\ at[c] \in {"200", "resolved"} => executed[c] = 1

LeftInv == left => /\ LeftStaysOut
                   /\ \A c \in Logins : at[c] \in Pending => c \in late

RefusedInv == \A c \in Execs : at[c] = "401" => carried[c] \notin valid

GrantedInv == /\ token \in granted \cup {NoToken}
              /\ \A c \in Calls : carried[c] \in granted \cup {NoToken}

IndInv == TypeOK /\ ExecInv /\ LeftInv /\ RefusedInv /\ GrantedInv

\* The client starts without a session and without calls.
LEMMA InitIndInv == Init => IndInv
  <1> SUFFICES ASSUME Init PROVE IndInv
    OBVIOUS
  <1>1. failures \in 0..MaxFailures /\ executed \in [Execs -> Nat]
    BY ClientAssumption DEF Init
  <1>2. TypeOK
    BY <1>1, Zenon DEF Init, TypeOK
  <1>3. ExecInv
    BY DEF Init, ExecInv, Calls
  <1>4. LeftInv /\ RefusedInv /\ GrantedInv
    BY DEF Init, LeftInv, RefusedInv, GrantedInv, Calls
  <1> QED
    BY <1>2, <1>3, <1>4 DEF IndInv
-----------------------------------------------------------------------------
\* A call of the application, /info and the timer of _configure.
LEMMA ConfigureStep ==
  ASSUME IndInv, NEW c \in Calls,
         Call(c) \/ InfoArrives(c) \/ InfoFails(c) \/ Retry(c) \/ Send(c)
  PROVE  IndInv'
  <1> USE DEF IndInv, Call, InfoArrives, InfoFails, Retry, Send, sessionVars, serverVars
  <1>1. TypeOK'
    <2>1. at' \in [Calls -> {"idle"} \cup Pending \cup Settled]
      BY DEF TypeOK, Goto, Post, Pending
    <2>2. carried' \in [Calls -> Tokens \cup {NoToken}]
      BY DEF TypeOK, Post
    <2>3. failures' \in 0..MaxFailures
      BY ClientAssumption DEF TypeOK
    <2>4. info' \in BOOLEAN /\ left' \in BOOLEAN /\ late' \subseteq Logins
      BY Zenon DEF TypeOK, Returns, leftVars
    <2> QED
      BY <2>1, <2>2, <2>3, <2>4 DEF TypeOK
  <1>2. RefusedInv' /\ GrantedInv'
    <2>1. UNCHANGED <<token, granted, valid>>
      OBVIOUS
    <2>2. \A d \in Calls : carried'[d] \in {carried[d], token}
      BY DEF TypeOK, Post
    <2>3. \A d \in Calls : at'[d] = "401" => at[d] = "401" /\ carried'[d] = carried[d]
      BY DEF TypeOK, Goto, Post
    <2> QED
      BY <2>1, <2>2, <2>3 DEF RefusedInv, GrantedInv, Calls
  <1>3. /\ at[c] \in Unsent /\ at'[c] \in Unsent
        /\ \A d \in Calls \ {c} : at'[d] = at[d]
    BY DEF TypeOK, Goto, Post, Unsent
  <1>4. ExecInv'
    BY <1>3 DEF ExecInv, Calls, Unsent
  <1>5. LeftInv'
    <2>1. CASE Call(c) /\ c \in Logins
      BY <2>1 DEF LeftInv, Returns
    <2>2. CASE ~(Call(c) /\ c \in Logins)
      <3>1. UNCHANGED <<token, left, late>>
        BY <2>2 DEF leftVars
      <3>2. \A d \in Logins : at'[d] \in Pending => at[d] \in Pending
        BY <1>3, <2>2, ClientAssumption DEF Calls, Pending
      <3>3. \A d \in Logins : at[d] = "resolved" => at'[d] = at[d] /\ carried'[d] = carried[d]
        BY <1>3, <2>2 DEF Calls, Unsent, TypeOK, Post
      <3> QED
        BY <3>1, <3>2, <3>3 DEF LeftInv, LeftStaysOut, TypeOK
    <2> QED
      BY <2>1, <2>2
  <1> QED
    BY <1>1, <1>2, <1>4, <1>5

\* The server answers, executes or refuses a call; an answer is lost.
LEMMA ServeStep ==
  ASSUME IndInv, NEW c \in Calls, Serve(c) \/ Lose(c)
  PROVE  IndInv'
  <1> USE DEF IndInv
  <1>1. TypeOK'
    BY DEF Serve, Lose, Grant, Refuse, Execute, Goto, TypeOK, Pending, sessionVars, serverVars,
           leftVars
  <1>2. UNCHANGED <<token, left, late>>
    BY DEF Serve, Lose, sessionVars, leftVars
  <1>3. RefusedInv' /\ GrantedInv'
    <2>1. granted \subseteq granted' /\ valid' \subseteq valid \cup (granted' \ granted)
      BY DEF Serve, Lose, Grant, Refuse, Execute, serverVars
    <2>2. \A d \in Calls : carried'[d] = carried[d] \/ (carried'[d] \in granted' /\ d \notin Execs)
      BY ClientAssumption DEF Serve, Lose, Grant, Refuse, Execute, Authenticating, TypeOK, Logins
    <2>3. \A d \in Execs :
             at'[d] = "401" => at[d] = "401" \/ (carried[d] \notin valid /\ valid' = valid)
      BY ClientAssumption DEF Serve, Lose, Grant, Refuse, Execute, Goto, Authenticating, TypeOK,
                              Calls, Logins, serverVars
    <2>4. NoToken \notin valid'
      BY <1>1, ClientAssumption DEF TypeOK
    <2> QED
      BY <1>2, <2>1, <2>2, <2>3, <2>4 DEF RefusedInv, GrantedInv, Calls
  <1>4. /\ at[c] \in Pending
        /\ \A d \in Calls \ {c} : at'[d] = at[d]
    BY DEF Serve, Lose, Grant, Refuse, Execute, Goto, TypeOK, Pending
  <1>5. LeftInv'
    <2>1. \A d \in Calls : at[d] = "resolved" => at'[d] = at[d] /\ carried'[d] = carried[d]
      BY DEF Serve, Lose, Grant, Refuse, Execute, Goto, TypeOK
    <2> QED
      BY <1>2, <1>4, <2>1 DEF LeftInv, LeftStaysOut, Calls, TypeOK
  <1>6. ExecInv'
    <2> SUFFICES ASSUME NEW d \in Execs
                 PROVE  /\ executed'[d] <= 1
                        /\ at'[d] \in Unsent => executed'[d] = 0
                        /\ at'[d] \in {"200", "resolved"} => executed'[d] = 1
      BY DEF ExecInv
    <2>1. CASE d # c
      <3>1. executed'[d] = executed[d]
        BY <2>1 DEF Serve, Lose, Grant, Refuse, Execute, TypeOK, serverVars
      <3> QED
        BY <1>4, <2>1, <3>1 DEF ExecInv, Calls
    <2>2. CASE d = c
      <3>1. ~Authenticating(c) /\ c \notin Registers
        BY <2>2, ClientAssumption DEF Authenticating, TypeOK, Logins
      <3>2. CASE Lose(c)
        BY <2>2, <3>2 DEF Lose, Goto, ExecInv, Unsent, TypeOK, serverVars
      <3>3. CASE Execute(c) /\ at[c] = "sent"
        <4>1. executed[c] = 0 /\ executed'[c] = 1
          BY <2>2, <3>3 DEF Execute, ExecInv, Unsent, TypeOK
        <4>2. at'[c] \in {"200", "error"}
          BY <3>3 DEF Execute, Goto, TypeOK
        <4> QED
          BY <2>2, <4>1, <4>2 DEF Unsent
      <3>4. CASE at[c] = "sent" /\ \E status \in {"401", "error"} : Refuse(c, status)
        BY <2>2, <3>4 DEF Refuse, Goto, ExecInv, Unsent, TypeOK, serverVars
      <3> QED
        BY <3>1, <3>2, <3>3, <3>4 DEF Serve
    <2> QED
      BY <2>1, <2>2
  <1> QED
    BY <1>1, <1>3, <1>5, <1>6

\* The callbacks of _req and of its caller.
LEMMA AnswerStep ==
  ASSUME IndInv, NEW c \in Calls, Answer(c)
  PROVE  IndInv'
  <1> USE DEF IndInv
  <1>1. TypeOK'
    BY DEF Answer, Authenticated, Registered, Settle, SetToken, Post, Goto, TypeOK, Pending,
           Settled, sessionVars, serverVars, leftVars
  <1>2. /\ at[c] \in Pending
        /\ UNCHANGED <<granted, valid, executed, left, late>>
        /\ \A d \in Calls \ {c} : at'[d] = at[d] /\ carried'[d] = carried[d]
    BY DEF Answer, Authenticated, Registered, Settle, Post, Goto, TypeOK, Pending, serverVars,
           leftVars
  <1>3. /\ at'[c] # "401"
        /\ token' \in {token, carried[c], NoToken}
        /\ carried'[c] \in {carried[c], token}
    BY DEF Answer, Authenticated, Registered, Settle, SetToken, Post, Goto, TypeOK, sessionVars
  <1>4. RefusedInv' /\ GrantedInv'
    BY <1>2, <1>3 DEF RefusedInv, GrantedInv, Calls
  <1>5. CASE c \in Execs
    <2>1. Settle(c)
      BY <1>5, ClientAssumption DEF Answer, Authenticating, TypeOK, Logins
    <2>2. at'[c] = IF at[c] = "200" THEN "resolved" ELSE "rejected"
      BY <2>1 DEF Settle, Goto, TypeOK
    <2>3. ExecInv'
      BY <1>2, <2>2 DEF ExecInv, Unsent, Calls
    <2>4. token' \in {token, NoToken}
      BY <2>1 DEF Settle, SetToken, sessionVars
    <2>5. \A d \in Logins : at'[d] = at[d] /\ carried'[d] = carried[d]
      BY <1>2, <1>5, ClientAssumption DEF Calls
    <2>6. LeftInv'
      BY <1>2, <2>4, <2>5 DEF LeftInv, LeftStaysOut, TypeOK
    <2> QED
      BY <1>1, <1>4, <2>3, <2>6
  <1>6. CASE c \in Logins
    <2>1. ExecInv'
      BY <1>2, <1>6, ClientAssumption DEF ExecInv, Calls
    <2>2. \/ token' \in {token, NoToken}
          \/ token' = carried'[c] /\ at'[c] = "resolved"
      BY DEF Answer, Authenticated, Registered, Settle, SetToken, Goto, TypeOK, sessionVars
    <2>3. ASSUME left PROVE c \in late /\ \A d \in Logins : at'[d] \in Pending => d \in late
      BY <1>2, <1>6, <2>3 DEF LeftInv, Calls
    <2>4. \A d \in Calls : at[d] = "resolved" => at'[d] = at[d] /\ carried'[d] = carried[d]
      BY <1>2 DEF Pending
    <2>5. LeftInv'
      BY <1>2, <2>2, <2>3, <2>4 DEF LeftInv, LeftStaysOut, TypeOK, Calls
    <2> QED
      BY <1>1, <1>4, <2>1, <2>5
  <1> QED
    BY <1>5, <1>6 DEF Calls

\* connect, deauthenticate, disconnect, and the expiry of a token.
LEMMA SessionStep ==
  ASSUME IndInv,
         \/ \E t \in granted : ConnectToken(t)
         \/ Deauthenticate \/ Disconnect
         \/ \E t \in valid : Expire(t)
  PROVE  IndInv'
  <1> USE DEF IndInv, ConnectToken, Deauthenticate, Disconnect, Expire, SetToken, sessionVars,
              serverVars
  <1>1. TypeOK'
    BY Zenon DEF TypeOK, Leaves, Returns, leftVars
  <1>2. RefusedInv' /\ GrantedInv'
    BY DEF RefusedInv, GrantedInv, TypeOK
  <1>3. ExecInv'
    BY DEF ExecInv
  <1>4. LeftInv'
    BY Zenon DEF LeftInv, LeftStaysOut, Leaves, Returns, leftVars
  <1> QED
    BY <1>1, <1>2, <1>3, <1>4

\* The invariant holds in every state of every behaviour.
LEMMA SpecIndInv == Spec => []IndInv
  <1>1. IndInv /\ UNCHANGED vars => IndInv'
    BY DEF IndInv, vars, TypeOK, ExecInv, LeftInv, LeftStaysOut, RefusedInv, GrantedInv
  <1>2. IndInv /\ [Next]_vars => IndInv'
    BY <1>1, ConfigureStep, ServeStep, AnswerStep, SessionStep DEF Next, Step
  <1> QED
    BY InitIndInv, <1>2, PTL DEF Spec
-----------------------------------------------------------------------------
\* Every variable of the client and of its server stays in its range.
THEOREM ClientTypeCorrect == Spec => []TypeOK
  BY SpecIndInv, PTL DEF IndInv

\* A call of exec is executed at most once, and exactly once when its promise
\* resolves, for any number of failures of /info and of lost answers.
THEOREM ExecutedAtMostOnce == Spec => []ExecOnce
  <1>1. IndInv => ExecOnce
    BY DEF IndInv, ExecInv, ExecOnce
  <1> QED
    BY <1>1, SpecIndInv, PTL

\* After a disconnect there is no session until the application asks for one,
\* except the one that a login brings which was under way at that disconnect.
THEOREM DisconnectLasts == Spec => []LeftStaysOut
  <1>1. IndInv => LeftStaysOut
    BY DEF IndInv, LeftInv, LeftStaysOut
  <1> QED
    BY <1>1, SpecIndInv, PTL

\* No failure of an exec or query that carried the token of the session ends
\* the session while the server honours that token (_maybeDeauthenticate).
THEOREM HonouredSessionsLast == Spec => HonouredSessionLasts
  <1> DEFINE Lasts == \A c \in Execs : at'[c] # at[c] /\ carried[c] = token /\ token \in valid
                                          => token' = token
  <1>1. ASSUME IndInv, Next PROVE Lasts
    <2> SUFFICES ASSUME NEW c \in Execs, at'[c] # at[c], carried[c] = token, token \in valid
                 PROVE  token' = token
      OBVIOUS
    <2>1. CASE \E d \in Calls : Answer(d)
      <3>1. PICK d \in Calls : Answer(d)
        BY <2>1
      <3>2. d = c
        BY <1>1, <3>1 DEF Answer, Authenticated, Registered, Settle, Post, Goto, IndInv, TypeOK,
                          Calls
      <3>3. Settle(c)
        BY <1>1, <3>1, <3>2, ClientAssumption DEF Answer, Authenticating, IndInv, TypeOK, Logins
      <3>4. at[c] # "401"
        BY <1>1 DEF IndInv, RefusedInv
      <3> QED
        BY <3>3, <3>4 DEF Settle, sessionVars
    <2>2. CASE \E d \in Calls : Call(d) \/ InfoArrives(d) \/ InfoFails(d) \/ Retry(d) \/ Send(d)
                                \/ Serve(d) \/ Lose(d)
      BY <2>2 DEF Call, InfoArrives, InfoFails, Retry, Send, Serve, Lose, sessionVars
    <2>3. CASE \/ \E t \in granted : ConnectToken(t)
               \/ Deauthenticate \/ Disconnect \/ \E t \in valid : Expire(t)
      BY <2>3 DEF ConnectToken, Deauthenticate, Disconnect, Expire
    <2> QED
      BY <1>1, <2>1, <2>2, <2>3 DEF Next, Step
  <1>2. IndInv /\ [Next]_vars => [Lasts]_vars
    BY <1>1
  <1> QED
    BY <1>2, SpecIndInv, PTL DEF Spec, HonouredSessionLasts
=============================================================================
