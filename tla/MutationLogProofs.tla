------------------------- MODULE MutationLogProofs -------------------------
(***************************************************************************)
(* The safety of the mutation log for any number of callers, any capacity  *)
(* of the channel and any number of restarts.                              *)
(***************************************************************************)
EXTENDS MutationLog, TLAPS

-----------------------------------------------------------------------------
(* The inductive invariant.  The requests in the channel and the one the   *)
(* writer holds are different calls, none of which was answered or is in   *)
(* the file; the step the writer is at says how far the request it holds   *)
(* has come; only a process that serves has calls under way.               *)

Holding == {"encode", "sync", "ack", "nack"}

ChannelInv ==
    /\ \A i \in DOMAIN in : pc[in[i]] \in Queued /\ in[i] \notin Written
    /\ \A i, j \in DOMAIN in : in[i] = in[j] => i = j

WriterInv ==
    /\ wpc \in Holding => /\ cur \in Calls
                          /\ pc[cur] \in Queued
                          /\ \A i \in DOMAIN in : in[i] # cur
    /\ wpc = "encode" => cur \notin Written
    /\ wpc \in {"sync", "ack"} => Len(file) > 0 /\ file[Len(file)] = cur
    /\ wpc = "ack" => synced = Len(file)

PhaseInv ==
    /\ phase # "serving" => /\ \A c \in Calls : pc[c] \notin Active
                            /\ in = <<>>
    /\ phase = "down" => wpc = "exit"
    /\ phase = "opened" => wpc = "recv" /\ chan = "open"

BareInv == bare \subseteq 1..Len(file)

IndInv == /\ TypeOK
          /\ synced <= Len(file)
          /\ BareInv
          /\ ChannelInv
          /\ WriterInv
          /\ PhaseInv
          /\ AckedDurable
          /\ LoggedOnce
          /\ NeverGarbled
-----------------------------------------------------------------------------
\* What Append does to a sequence (the channel, the file).
LEMMA AppendFacts ==
  ASSUME NEW S, NEW s \in Seq(S), NEW e \in S
  PROVE  /\ Append(s, e) \in Seq(S)
         /\ Len(Append(s, e)) = Len(s) + 1
         /\ DOMAIN Append(s, e) = 1..(Len(s) + 1)
         /\ DOMAIN s = 1..Len(s)
         /\ Append(s, e)[Len(s) + 1] = e
         /\ \A i \in 1..Len(s) : Append(s, e)[i] = s[i]
  OBVIOUS

\* What Head and Tail give of a sequence that is not empty (the channel).
LEMMA TailFacts ==
  ASSUME NEW S, NEW s \in Seq(S), s # <<>>
  PROVE  /\ Head(s) \in S
         /\ Tail(s) \in Seq(S)
         /\ Len(s) > 0
         /\ Head(s) = s[1]
         /\ DOMAIN s = 1..Len(s)
         /\ DOMAIN Tail(s) = 1..(Len(s) - 1)
         /\ \A i \in 1..(Len(s) - 1) : Tail(s)[i] = s[i + 1]
  OBVIOUS

\* What a first part of a sequence is (the file after a power loss).
LEMMA PrefixFacts ==
  ASSUME NEW S, NEW s \in Seq(S), NEW n \in 0..Len(s)
  PROVE  /\ SubSeq(s, 1, n) \in Seq(S)
         /\ Len(SubSeq(s, 1, n)) = n
         /\ DOMAIN SubSeq(s, 1, n) = 1..n
         /\ DOMAIN s = 1..Len(s)
         /\ \A i \in 1..n : SubSeq(s, 1, n)[i] = s[i]
  OBVIOUS

\* The records of the file are mutations that Write was called with.
LEMMA WrittenAreCalls == TypeOK => Written \subseteq Calls
  BY DEF TypeOK, Written

\* The invariant holds when the program starts for the first time.
LEMMA InitIndInv == Init => IndInv
  <1> SUFFICES ASSUME Init PROVE IndInv
    OBVIOUS
  <1>1. in \in Seq(Calls) /\ file \in Seq(Calls)
    BY DEF Init
  <1>2. DOMAIN in = {} /\ DOMAIN file = {} /\ Len(file) = 0
    BY DEF Init
  <1>3. pc \in [Calls -> PcStates] /\ seen \in [Calls -> Nat]
    BY DEF Init, PcStates
  <1>4. TypeOK
    <2>1. restarts \in 0..MaxRestarts
      BY RestartsAssumption DEF Init
    <2> QED
      BY <1>1, <1>3, <2>1, Zenon DEF Init, TypeOK, WpcStates
  <1>5. synced <= Len(file)
    BY <1>2 DEF Init
  <1>6. ChannelInv /\ WriterInv /\ PhaseInv
    BY <1>2 DEF Init, ChannelInv, WriterInv, PhaseInv, Holding, Active, Queued
  <1>7. AckedDurable /\ LoggedOnce /\ NeverGarbled
    BY <1>2 DEF Init, AckedDurable, LoggedOnce, NeverGarbled, Written
  <1> QED
    BY <1>4, <1>5, <1>6, <1>7 DEF IndInv, Init, BareInv

\* A request enters the channel.
LEMMA WriteSendIndInv ==
  ASSUME IndInv, NEW c \in Calls, WriteSend(c)
  PROVE  IndInv'
  <1> USE DEF IndInv
  <1>1. /\ pc[c] = "send"
        /\ pc' \in [Calls -> PcStates]
        /\ pc'[c] \in {"panic", "load"}
        /\ \A d \in Calls : d # c => pc'[d] = pc[d]
    BY Zenon DEF TypeOK, WriteSend, PcStates, Active, Queued
  <1>2. UNCHANGED <<phase, restarts, closed, chan, count, seen, wpc, cur,
                    file, bare, torn, synced>>
    BY DEF WriteSend, procVars, fileVars
  <1>3. in \in Seq(Calls) /\ DOMAIN in = 1..Len(in)
    BY DEF TypeOK
  <1>4. \A i \in DOMAIN in : in[i] \in Calls /\ in[i] # c
    BY <1>1, <1>3 DEF ChannelInv, Queued
  <1>5. c \notin Written
    BY <1>1 DEF LoggedOnce
  <1>6. wpc \in Holding => cur # c
    BY <1>1 DEF WriterInv, Queued
  <1>7. Written' = Written
    BY <1>2 DEF Written
  <1>8. AckedDurable' /\ LoggedOnce' /\ NeverGarbled'
    <2>1. Written \subseteq Calls
      BY WrittenAreCalls
    <2>2. LoggedOnce'
      BY <1>1, <1>2, <1>5, <1>7, <2>1 DEF LoggedOnce
    <2> QED
      BY <1>1, <1>2, <2>2 DEF AckedDurable, NeverGarbled
  <1>9. CASE chan = "closed"
    <2>1. in' = in /\ pc'[c] = "panic"
      BY <1>9, <1>1 DEF WriteSend, TypeOK
    <2>2. TypeOK'
      BY <1>1, <1>2, <2>1 DEF TypeOK
    <2>3. ChannelInv' /\ WriterInv' /\ PhaseInv'
      BY <1>1, <1>2, <1>3, <1>4, <1>6, <1>7, <2>1
      DEF ChannelInv, WriterInv, PhaseInv, Holding, Active
    <2> QED
      BY <1>2, <1>8, <2>2, <2>3 DEF BareInv
  <1>10. CASE chan = "open"
    <2>1. in' = Append(in, c) /\ pc'[c] = "load"
      BY <1>10, <1>1 DEF WriteSend, TypeOK
    <2>2. /\ in' \in Seq(Calls)
          /\ DOMAIN in' = 1..(Len(in) + 1)
          /\ in'[Len(in) + 1] = c
          /\ \A i \in 1..Len(in) : in'[i] = in[i]
      BY <1>3, <2>1, AppendFacts
    <2>3. TypeOK'
      BY <1>1, <1>2, <2>2 DEF TypeOK
    <2>4. \A i \in DOMAIN in' : i \in DOMAIN in \/ i = Len(in) + 1
      BY <1>3, <2>2
    <2>5. ChannelInv'
      BY <1>1, <1>3, <1>4, <1>5, <1>7, <2>1, <2>2, <2>4 DEF ChannelInv, Queued
    <2>6. WriterInv'
      BY <1>1, <1>2, <1>3, <1>6, <1>7, <2>1, <2>2, <2>4 DEF WriterInv, Holding
    <2>7. PhaseInv'
      BY <1>1, <1>2 DEF PhaseInv, Active
    <2> QED
      BY <1>2, <1>8, <2>3, <2>5, <2>6, <2>7 DEF BareInv
  <1> QED
    BY <1>9, <1>10 DEF TypeOK

\* The writer takes the first request out of the channel.
LEMMA WriterRecvIndInv ==
  ASSUME IndInv, WriterRecv
  PROVE  IndInv'
  <1> USE DEF IndInv, TypeOK, WriterRecv, procVars, callVars, fileVars
  <1>1. /\ cur' = in[1]
        /\ cur' \in Calls
        /\ 1 \in DOMAIN in
        /\ in' \in Seq(Calls)
        /\ \A i \in DOMAIN in' : i + 1 \in DOMAIN in /\ in'[i] = in[i + 1]
    BY TailFacts
  <1>2. TypeOK'
    BY <1>1 DEF WpcStates
  <1>3. ChannelInv'
    <2>1. \A i \in DOMAIN in' : pc'[in'[i]] \in Queued /\ in'[i] \notin Written'
      BY <1>1 DEF ChannelInv, Written
    <2>2. DOMAIN in' \subseteq Nat
      BY <1>1
    <2>3. \A i, j \in DOMAIN in' : in'[i] = in'[j] => i = j
      BY <1>1, <2>2 DEF ChannelInv
    <2> QED
      BY <2>1, <2>3 DEF ChannelInv
  <1>4. WriterInv'
    BY <1>1 DEF ChannelInv, WriterInv, Written, Holding
  <1>5. PhaseInv'
    BY DEF PhaseInv
  <1>6. AckedDurable' /\ LoggedOnce' /\ NeverGarbled'
    BY DEF AckedDurable, LoggedOnce, NeverGarbled, Written
  <1> QED
    BY <1>2, <1>3, <1>4, <1>5, <1>6 DEF BareInv

\* The writer finds the channel closed and drained.
LEMMA WriterRecvClosedIndInv ==
  ASSUME IndInv, WriterRecvClosed
  PROVE  IndInv'
  <1> USE DEF IndInv
  <1>1. /\ wpc = "recv" /\ wpc' = "exit" /\ chan = "closed"
        /\ UNCHANGED <<phase, restarts, pc, seen, count, closed, chan, in, cur,
                       file, bare, torn, synced>>
    BY DEF WriterRecvClosed, procVars, callVars, chanVars, fileVars
  <1>2. TypeOK'
    BY <1>1 DEF TypeOK, WpcStates
  <1>3. ChannelInv' /\ WriterInv'
    BY <1>1 DEF ChannelInv, WriterInv, Written, Holding
  <1>4. phase # "opened"
    BY <1>1 DEF PhaseInv
  <1>5. PhaseInv'
    BY <1>1, <1>4 DEF PhaseInv
  <1>6. AckedDurable' /\ LoggedOnce' /\ NeverGarbled'
    BY <1>1 DEF AckedDurable, LoggedOnce, NeverGarbled, Written
  <1> QED
    BY <1>1, <1>2, <1>3, <1>5, <1>6 DEF BareInv

\* The record of the request that the writer holds becomes the last of the file.
LEMMA FileGrows ==
  ASSUME IndInv, wpc = "encode", file' = Append(file, cur)
  PROVE  /\ cur \in Calls /\ pc[cur] \in Queued
         /\ file' \in Seq(Calls) /\ Len(file) \in Nat /\ Len(file') = Len(file) + 1
         /\ file'[Len(file) + 1] = cur
         /\ \A i \in 1..Len(file) : i \in DOMAIN file' /\ file'[i] = file[i]
         /\ Written' = Written \cup {cur}
         /\ \A i, j \in DOMAIN file' : file'[i] = file'[j] => i = j
         /\ \A c \in Calls : pc[c] = "ok" =>
               \E i \in 1..Len(file') : i <= synced /\ file'[i] = c
  <1> USE DEF IndInv
  <1>1. cur \in Calls /\ pc[cur] \in Queued /\ cur \notin Written
    BY DEF WriterInv, Holding
  <1>2. file \in Seq(Calls)
    BY DEF TypeOK
  <1>3. /\ file' \in Seq(Calls)
        /\ Len(file') = Len(file) + 1
        /\ Len(file) \in Nat
        /\ DOMAIN file = 1..Len(file)
        /\ DOMAIN file' = 1..(Len(file) + 1)
        /\ file'[Len(file) + 1] = cur
        /\ \A i \in 1..Len(file) : file'[i] = file[i]
    BY <1>1, <1>2, AppendFacts
  <1>4. \A i \in DOMAIN file' : i \in DOMAIN file \/ i = Len(file) + 1
    BY <1>3
  <1>5. Written' = Written \cup {cur}
    BY <1>3, <1>4 DEF Written
  <1>6. \A i \in DOMAIN file : file[i] # cur
    BY <1>1 DEF Written
  <1>7. \A i, j \in DOMAIN file' : file'[i] = file'[j] => i = j
    BY <1>3, <1>4, <1>6 DEF LoggedOnce
  <1>8. \A i \in 1..Len(file) : i \in 1..Len(file')
    BY <1>3
  <1>9. \A c \in Calls : pc[c] = "ok" =>
          \E i \in 1..Len(file') : i <= synced /\ file'[i] = c
    BY <1>3, <1>8 DEF AckedDurable
  <1> QED
    BY <1>1, <1>3, <1>5, <1>7, <1>8, <1>9

\* The writer wrote the record of the request it holds, with or without the
\* newline, and goes on to sync the file or to report the error.
LEMMA GrowIndInv ==
  ASSUME IndInv, wpc = "encode", file' = Append(file, cur),
         wpc' \in {"sync", "nack"}, ~torn, torn' = torn,
         bare' = bare \/ bare' = bare \cup {Len(file) + 1},
         UNCHANGED <<phase, restarts, pc, seen, count, closed, chan, in, synced, cur>>
  PROVE  IndInv'
  <1> USE DEF IndInv
  <1>0. BareInv' /\ bare' \subseteq Nat
    <2>1. Len(file) \in Nat /\ Len(file') = Len(file) + 1
      BY FileGrows
    <2>2. \A i \in bare : i \in 1..Len(file)
      BY DEF BareInv
    <2>3. \A i \in 1..Len(file) : i \in 1..Len(file')
      BY <2>1
    <2>4. Len(file) + 1 \in 1..Len(file')
      BY <2>1
    <2>5. \A i \in bare' : i \in bare \/ i = Len(file) + 1
      OBVIOUS
    <2>6. \A i \in bare' : i \in 1..Len(file')
      BY <2>2, <2>3, <2>4, <2>5, Zenon
    <2> QED
      BY <2>6 DEF BareInv
  <1>1. TypeOK'
    BY <1>0, FileGrows DEF TypeOK, WpcStates
  <1>2. (synced <= Len(file))'
    BY FileGrows DEF TypeOK
  <1>3. phase = "serving"
    BY DEF PhaseInv, TypeOK
  <1>4. ChannelInv' /\ WriterInv' /\ PhaseInv'
    BY <1>3, FileGrows DEF ChannelInv, WriterInv, PhaseInv, Holding
  <1>5. AckedDurable'
    BY FileGrows DEF AckedDurable
  <1>6. LoggedOnce'
    BY FileGrows DEF LoggedOnce, Queued
  <1> QED
    BY <1>0, <1>1, <1>2, <1>4, <1>5, <1>6 DEF NeverGarbled

\* The writer writes the line of the request it holds.
LEMMA WriterEncodeIndInv ==
  ASSUME IndInv, WriterEncode
  PROVE  IndInv'
  <1>1. /\ wpc = "encode" /\ wpc' = "sync" /\ bare' = bare /\ torn' = torn
        /\ UNCHANGED <<phase, restarts, pc, seen, count, closed, chan, in, synced, cur>>
    BY DEF WriterEncode, procVars, callVars, chanVars
  <1>2. ~torn
    BY <1>1 DEF IndInv, PhaseInv, NeverGarbled, TypeOK
  <1>3. file' = Append(file, cur)
    BY <1>2 DEF WriterEncode
  <1> QED
    BY <1>1, <1>2, <1>3, GrowIndInv

\* The writer fails to write the line of the request it holds.
LEMMA WriterEncodeErrorIndInv ==
  ASSUME IndInv, WriterEncodeError
  PROVE  IndInv'
  <1>1. /\ wpc = "encode" /\ wpc' = "nack"
        /\ UNCHANGED <<phase, restarts, pc, seen, count, closed, chan, in, synced, cur>>
    BY DEF WriterEncodeError, procVars, callVars, chanVars
  <1>2. CASE file' = file /\ bare' = bare /\ torn' \in BOOLEAN
    <2>1. TypeOK'
      BY <1>1, <1>2 DEF IndInv, TypeOK, WpcStates
    <2>2. phase = "serving"
      BY <1>1 DEF IndInv, PhaseInv, TypeOK
    <2>3. ChannelInv' /\ WriterInv' /\ PhaseInv'
      BY <1>1, <1>2, <2>2 DEF IndInv, ChannelInv, WriterInv, PhaseInv, Holding, Written
    <2>4. AckedDurable' /\ LoggedOnce' /\ NeverGarbled'
      BY <1>1, <1>2 DEF IndInv, AckedDurable, LoggedOnce, NeverGarbled, Written
    <2> QED
      BY <1>1, <1>2, <2>1, <2>3, <2>4 DEF IndInv, BareInv
  <1>3. CASE /\ ~torn /\ torn' = torn /\ file' = Append(file, cur)
             /\ bare' = bare \cup {Len(file) + 1}
    BY <1>1, <1>3, GrowIndInv
  <1>4. torn \in BOOLEAN
    BY DEF IndInv, TypeOK
  <1> QED
    BY <1>2, <1>3, <1>4, Zenon DEF WriterEncodeError, PartialWrite

\* A new process opens the file that is there.
LEMMA OpenIndInv ==
  ASSUME IndInv, Open
  PROVE  IndInv'
  <1> USE DEF IndInv, TypeOK, Open, fileVars
  <1>1. in' \in Seq(Calls) /\ DOMAIN in' = {}
    OBVIOUS
  <1>2. TypeOK'
    BY <1>1, Zenon DEF WpcStates
  <1>3. ChannelInv' /\ WriterInv' /\ PhaseInv'
    BY <1>1 DEF ChannelInv, WriterInv, PhaseInv, Holding
  <1>4. AckedDurable' /\ LoggedOnce' /\ NeverGarbled'
    BY DEF AckedDurable, LoggedOnce, NeverGarbled, Written
  <1> QED
    BY <1>2, <1>3, <1>4 DEF BareInv

\* The log is replayed; the server serves it or gives up.
LEMMA ReplayIndInv ==
  ASSUME IndInv, Replay
  PROVE  IndInv'
  <1>1. /\ phase = "opened"
        /\ UNCHANGED <<closed, chan, in, file, bare, torn, synced, restarts, pc, seen, cur>>
    BY DEF Replay, chanVars, fileVars
  <1>2. \/ phase' = "serving" /\ wpc' = wpc /\ count' = count + Len(file) /\ ~torn
        \/ phase' = "down" /\ wpc' = "exit" /\ count' = count
    BY DEF Replay, Readable
  <1>3. TypeOK'
    <2>1. count' \in Nat
      BY <1>2 DEF IndInv, TypeOK
    <2> QED
      BY <1>1, <1>2, <2>1 DEF IndInv, TypeOK, WpcStates
  <1>4. ChannelInv' /\ WriterInv' /\ PhaseInv'
    BY <1>1, <1>2 DEF IndInv, ChannelInv, WriterInv, PhaseInv, Holding, Written
  <1>5. AckedDurable' /\ LoggedOnce'
    BY <1>1 DEF IndInv, AckedDurable, LoggedOnce, Written
  <1>6. NeverGarbled' /\ BareInv'
    BY <1>1, <1>2 DEF IndInv, NeverGarbled, BareInv
  <1> QED
    BY <1>1, <1>3, <1>4, <1>5, <1>6 DEF IndInv

\* The process dies and leaves a file without a duplicate in which every
\* acknowledged record is synced.
LEMMA DiesIndInv ==
  ASSUME IndInv, ProcessDies,
         file' \in Seq(Calls), BareInv', torn' \in BOOLEAN,
         synced' \in Nat, synced' <= Len(file'),
         \A i, j \in DOMAIN file' : file'[i] = file'[j] => i = j,
         \A c \in Written' : c \in Written \/ (c \in Calls /\ pc[c] \in Queued),
         \A c \in Calls : pc[c] = "ok" =>
            \E i \in 1..Len(file') : i <= synced' /\ file'[i] = c
  PROVE  IndInv'
  <1> USE DEF IndInv
  <1>1. /\ pc' \in [Calls -> PcStates]
        /\ \A c \in Calls : pc'[c] \notin Active
        /\ \A c \in Calls : pc[c] \in Active => pc'[c] = "killed"
        /\ \A c \in Calls : pc[c] \notin Active => pc'[c] = pc[c]
    BY DEF TypeOK, ProcessDies, PcStates, Active, Queued
  <1>2. in' = <<>> /\ in' \in Seq(Calls) /\ DOMAIN in' = {}
    BY DEF ProcessDies
  <1>3. /\ phase' = "down" /\ wpc' = "exit" /\ restarts' \in 0..MaxRestarts
        /\ UNCHANGED <<closed, chan, seen, count, cur>>
    BY RestartsAssumption DEF TypeOK, ProcessDies
  <1>4. TypeOK'
    <2>1. in' \in Seq(Calls)
      BY <1>2
    <2>2. bare' \subseteq Nat
      BY DEF BareInv
    <2> QED
      BY <1>1, <1>3, <2>1, <2>2 DEF TypeOK, WpcStates
  <1>5. ChannelInv' /\ WriterInv' /\ PhaseInv'
    BY <1>1, <1>2, <1>3 DEF ChannelInv, WriterInv, PhaseInv, Holding
  <1>6. AckedDurable'
    <2> SUFFICES ASSUME NEW c \in Calls, pc'[c] = "ok"
                 PROVE  pc[c] = "ok"
      BY DEF AckedDurable
    <2> QED
      BY <1>1
  <1>7. LoggedOnce'
    <2> SUFFICES ASSUME NEW c \in Written'
                 PROVE  pc'[c] \notin {"idle", "send", "refused", "panic"}
      BY DEF LoggedOnce
    <2>1. c \in Calls /\ pc[c] \notin {"idle", "send", "refused", "panic"}
      BY WrittenAreCalls DEF LoggedOnce, Queued
    <2> QED
      BY <1>1, <2>1
  <1>8. NeverGarbled'
    BY <1>3 DEF NeverGarbled
  <1> QED
    BY <1>4, <1>5, <1>6, <1>7, <1>8

\* The process is killed, possibly in the middle of a write.
LEMMA KillIndInv ==
  ASSUME IndInv, Kill
  PROVE  IndInv'
  <1>0. /\ ProcessDies /\ synced' = synced /\ synced \in Nat /\ synced <= Len(file)
        /\ file \in Seq(Calls) /\ bare \subseteq 1..Len(file) /\ torn \in BOOLEAN
    BY DEF BareInv, Kill, IndInv, TypeOK
  <1>1. CASE file' = file /\ bare' = bare /\ torn' \in BOOLEAN
    BY <1>0, <1>1, DiesIndInv DEF IndInv, LoggedOnce, AckedDurable, Written, BareInv
  <1>2. CASE /\ wpc = "encode" /\ torn' = torn /\ file' = Append(file, cur)
             /\ bare' = bare \cup {Len(file) + 1}
    <2>1. BareInv'
      <3>1. Len(file) \in Nat /\ Len(file') = Len(file) + 1
        BY <1>2, FileGrows
      <3>2. \A i \in bare' : i \in 1..Len(file')
        BY <1>0, <1>2, <3>1
      <3> QED
        BY <3>2 DEF BareInv
    <2>2. synced' <= Len(file')
      BY <1>0, <1>2, FileGrows
    <2> QED
      BY <1>0, <1>2, <2>1, <2>2, FileGrows, DiesIndInv
  <1> QED
    BY <1>0, <1>1, <1>2, Zenon DEF Kill, PartialWrite

\* The machine dies and the file loses a part that was not synced.
LEMMA PowerLossIndInv ==
  ASSUME IndInv, PowerLoss
  PROVE  IndInv'
  <1> USE DEF IndInv
  <1>1. PICK n \in synced..Len(file), cut \in BOOLEAN :
           /\ cut => n > synced
           /\ file' = SubSeq(file, 1, n)
           /\ bare' = {i \in bare : i <= n} \cup (IF cut THEN {n} ELSE {})
           /\ torn' \in BOOLEAN
           /\ synced' = n
    BY Zenon DEF PowerLoss
  <1>2. n \in 0..Len(file) /\ synced <= n /\ synced \in Nat
    BY <1>1 DEF TypeOK
  <1>3. file \in Seq(Calls)
    BY DEF TypeOK
  <1>11. cut => n \in 1..n
    BY <1>1, <1>2
  <1>4. /\ file' \in Seq(Calls)
        /\ Len(file') = n
        /\ DOMAIN file' = 1..n
        /\ DOMAIN file = 1..Len(file)
        /\ \A i \in 1..n : file'[i] = file[i]
    BY <1>1, <1>2, <1>3, PrefixFacts
  <1>5. BareInv'
    <2>2. \A i \in bare : i <= n => i \in 1..n
      BY <1>2 DEF BareInv
    <2> QED
      BY <1>1, <1>4, <1>11, <2>2, Zenon DEF BareInv
  <1>6. synced' \in Nat /\ synced' <= Len(file')
    BY <1>1, <1>2, <1>4
  <1>7. \A i \in DOMAIN file' : i \in DOMAIN file /\ file'[i] = file[i]
    BY <1>2, <1>4
  <1>8. /\ \A i, j \in DOMAIN file' : file'[i] = file'[j] => i = j
        /\ Written' \subseteq Written
    BY <1>7 DEF LoggedOnce, Written
  <1>9. ASSUME NEW c \in Calls, pc[c] = "ok"
        PROVE  \E i \in 1..Len(file') : i <= synced' /\ file'[i] = c
    <2>1. PICK i \in 1..Len(file) : i <= synced /\ file[i] = c
      BY <1>9 DEF AckedDurable
    <2>2. i \in 1..n /\ i <= synced'
      BY <1>1, <1>2, <2>1
    <2> QED
      BY <1>4, <2>1, <2>2
  <1>10. ProcessDies
    BY DEF PowerLoss
  <1> QED
    BY <1>1, <1>4, <1>5, <1>6, <1>8, <1>9, <1>10, DiesIndInv

\* A step of a caller that leaves the channel, the writer and the file alone.
LEMMA CallerIndInv ==
  ASSUME IndInv, NEW c \in Calls, WriteCheck(c) \/ WriteLoad(c) \/ WriteStore(c)
  PROVE  IndInv'
  <1> USE DEF IndInv
  <1>0. /\ UNCHANGED <<phase, restarts, closed, chan, in, wpc, cur, file, bare, torn, synced>>
        /\ pc \in [Calls -> PcStates]
    BY DEF WriteCheck, WriteLoad, WriteStore, procVars, chanVars, fileVars, TypeOK
  <1>1. PICK p \in {"refused", "send", "store", "wait"} :
           /\ pc' = [pc EXCEPT ![c] = p]
           /\ pc[c] = "idle" \/ (pc[c] \in {"load", "store"} /\ p \in {"store", "wait"})
    BY DEF WriteCheck, WriteLoad, WriteStore
  <1>2. pc'[c] = p /\ \A d \in Calls \ {c} : pc'[d] = pc[d]
    BY <1>0, <1>1
  <1>3. phase = "serving"
    BY <1>1 DEF WriteCheck, WriteLoad, WriteStore, PhaseInv, Active, Queued
  <1>4. TypeOK'
    <2>1. pc' \in [Calls -> PcStates]
      BY <1>0, <1>1 DEF PcStates, Active, Queued
    <2>2. seen' \in [Calls -> Nat] /\ count' \in Nat
      BY DEF WriteCheck, WriteLoad, WriteStore, TypeOK
    <2> QED
      BY <1>0, <2>1, <2>2 DEF TypeOK
  <1>5. \A d \in Calls : pc[d] \in Queued => pc'[d] \in Queued
    BY <1>1, <1>2 DEF Queued
  <1>6. \A d \in Calls : pc'[d] = "ok" <=> pc[d] = "ok"
    BY <1>1, <1>2
  <1>7. Written' = Written /\ Written \subseteq Calls
    BY <1>0, WrittenAreCalls DEF Written
  <1>8. ChannelInv'
    <2>1. \A i \in DOMAIN in : in[i] \in Calls
      BY DEF TypeOK
    <2> QED
      BY <1>0, <1>5, <1>7, <2>1 DEF ChannelInv
  <1>9. WriterInv'
    BY <1>0, <1>5, <1>7 DEF WriterInv
  <1>10. PhaseInv' /\ BareInv' /\ NeverGarbled'
    BY <1>0, <1>3 DEF PhaseInv, BareInv, NeverGarbled
  <1>11. AckedDurable'
    BY <1>0, <1>6 DEF AckedDurable
  <1>12. LoggedOnce'
    BY <1>0, <1>1, <1>2, <1>7 DEF LoggedOnce
  <1> QED
    BY <1>0, <1>4, <1>8, <1>9, <1>10, <1>11, <1>12

\* The writer answers the request it holds.
LEMMA AnswerIndInv ==
  ASSUME IndInv, WriterAck \/ WriterNack
  PROVE  IndInv'
  <1> USE DEF IndInv
  <1>0. /\ UNCHANGED <<phase, restarts, closed, chan, in, cur, file, bare, torn, synced,
                       seen, count>>
        /\ wpc \in {"ack", "nack"} /\ wpc' \in {"check", "exit"}
        /\ wpc' = "check" => wpc = "ack"
        /\ pc \in [Calls -> PcStates]
    BY DEF WriterAck, WriterNack, procVars, chanVars, fileVars, TypeOK
  <1>1. /\ cur \in Calls /\ phase = "serving"
        /\ \A i \in DOMAIN in : in[i] # cur /\ in[i] \in Calls
    BY <1>0 DEF WriterInv, PhaseInv, Holding, TypeOK
  <1>2. PICK p \in {"ok", "err"} :
           /\ pc' = [pc EXCEPT ![cur] = p]
           /\ p = "ok" => wpc = "ack"
    BY DEF WriterAck, WriterNack
  <1>3. pc'[cur] = p /\ \A d \in Calls \ {cur} : pc'[d] = pc[d]
    BY <1>0, <1>1, <1>2
  <1>4. TypeOK'
    <2>1. pc' \in [Calls -> PcStates]
      BY <1>0, <1>2, Zenon DEF PcStates
    <2> QED
      BY <1>0, <2>1 DEF TypeOK, WpcStates
  <1>5. Written' = Written /\ Written \subseteq Calls
    BY <1>0, WrittenAreCalls DEF Written
  <1>6. ChannelInv'
    BY <1>0, <1>1, <1>3, <1>5 DEF ChannelInv
  <1>7. WriterInv' /\ PhaseInv' /\ BareInv'
    BY <1>0, <1>1 DEF WriterInv, PhaseInv, BareInv, Holding
  <1>8. NeverGarbled'
    BY <1>0, <1>1 DEF NeverGarbled
  <1>9. AckedDurable'
    <2> SUFFICES ASSUME NEW d \in Calls, pc'[d] = "ok"
                 PROVE  \E i \in 1..Len(file) : i <= synced /\ file[i] = d
      BY <1>0 DEF AckedDurable
    <2>1. CASE d = cur
      <3>1. Len(file) > 0 /\ file[Len(file)] = cur /\ synced = Len(file)
        BY <1>2, <1>3, <2>1 DEF WriterInv
      <3>2. Len(file) \in 1..Len(file) /\ Len(file) <= synced
        BY <3>1 DEF TypeOK
      <3> QED
        BY <2>1, <3>1, <3>2
    <2>2. CASE d # cur
      BY <1>3, <2>2 DEF AckedDurable
    <2> QED
      BY <2>1, <2>2
  <1>10. LoggedOnce'
    BY <1>0, <1>1, <1>3, <1>5 DEF LoggedOnce
  <1> QED
    BY <1>0, <1>4, <1>6, <1>7, <1>8, <1>9, <1>10

\* The writer syncs the file or fails to, or looks whether the log was closed;
\* Close sets the flag and closes the channel.
LEMMA SyncIndInv ==
  ASSUME IndInv,
         WriterSync \/ WriterSyncError \/ WriterCheckClosed \/ CloseFlag \/ CloseChan
  PROVE  IndInv'
  <1> USE DEF IndInv
  <1>0. /\ UNCHANGED <<phase, restarts, in, cur, file, bare, torn, seen, count, pc>>
        /\ Written' = Written /\ BareInv'
    BY DEF WriterSync, WriterSyncError, WriterCheckClosed, CloseFlag, CloseChan,
           procVars, callVars, chanVars, fileVars, Written, BareInv
  <1>1. /\ \/ synced' = synced
           \/ synced' = Len(file) /\ wpc = "sync" /\ wpc' = "ack"
        /\ wpc' # wpc => \/ wpc = "sync" /\ wpc' = "nack"
                         \/ wpc = "sync" /\ wpc' = "ack" /\ synced' = Len(file)
                         \/ wpc = "check" /\ wpc' \in {"exit", "recv"}
        /\ closed' \in BOOLEAN /\ chan' \in {"open", "closed"}
        /\ chan' # chan => phase = "serving"
    BY Zenon DEF WriterSync, WriterSyncError, WriterCheckClosed, CloseFlag, CloseChan,
           callVars, chanVars, fileVars, TypeOK
  <1>2. Len(file) \in Nat /\ synced \in Nat /\ file \in Seq(Calls)
    BY DEF TypeOK
  <1>3. TypeOK' /\ (synced <= Len(file))'
    BY <1>0, <1>1, <1>2 DEF TypeOK, WpcStates
  <1>4. ChannelInv'
    BY <1>0 DEF ChannelInv
  <1>5. WriterInv'
    BY <1>0, <1>1 DEF WriterInv, Holding
  <1>6. PhaseInv'
    BY <1>0, <1>1 DEF PhaseInv, TypeOK
  <1>7. NeverGarbled'
    BY <1>0, <1>1 DEF NeverGarbled
  <1>8. AckedDurable'
    BY <1>0, <1>1, <1>2 DEF AckedDurable
  <1>9. LoggedOnce'
    BY <1>0 DEF LoggedOnce
  <1> QED
    BY <1>0, <1>3, <1>4, <1>5, <1>6, <1>7, <1>8, <1>9

\* A step that changes nothing keeps the invariant.
LEMMA StutterIndInv ==
  ASSUME IndInv, UNCHANGED vars
  PROVE  IndInv'
  <1> USE DEF IndInv, vars
  <1>1. TypeOK' /\ synced' <= Len(file')
    BY DEF TypeOK
  <1>2. WriterInv'
    BY DEF WriterInv, Written
  <1>3. BareInv'
    BY DEF BareInv
  <1>4. ChannelInv' /\ PhaseInv'
    BY DEF ChannelInv, PhaseInv, Written
  <1>5. AckedDurable' /\ LoggedOnce' /\ NeverGarbled'
    BY DEF AckedDurable, LoggedOnce, NeverGarbled, Written
  <1> QED
    BY <1>1, <1>2, <1>3, <1>4, <1>5

\* Every step of the log keeps the invariant.
LEMMA NextIndInv == IndInv /\ [Next]_vars => IndInv'
  BY CallerIndInv, WriteSendIndInv, WriterRecvIndInv, WriterRecvClosedIndInv,
     WriterEncodeIndInv, WriterEncodeErrorIndInv, SyncIndInv, AnswerIndInv,
     OpenIndInv, ReplayIndInv, KillIndInv, PowerLossIndInv, StutterIndInv
  DEF Next, WriteStep, Writer
-----------------------------------------------------------------------------
\* The invariant holds in every reachable state.
LEMMA SpecIndInv == Spec => []IndInv
  BY InitIndInv, NextIndInv, PTL DEF Spec

\* The variables of the log keep their types.
THEOREM LogTypeCorrect == Spec => []TypeOK
  BY SpecIndInv, PTL DEF IndInv

\* A Write that returned nil has its record on the disk, whatever happens
\* afterwards (Log.writer syncs before it answers).
THEOREM AckedWritesAreDurable == Spec => []AckedDurable
  BY SpecIndInv, PTL DEF IndInv

\* No mutation is in the file twice, and none of a Write that was refused or
\* panicked (Log.Write, Log.writer).
THEOREM MutationsAreLoggedOnce == Spec => []LoggedOnce
  BY SpecIndInv, PTL DEF IndInv

\* No record is written behind a part of a line (Log.writer returns after a
\* failed Encode, Server.Start does not serve a log that ends like this).
THEOREM LogIsNeverGarbled == Spec => []NeverGarbled
  BY SpecIndInv, PTL DEF IndInv

-----------------------------------------------------------------------------
\* The file changes by a record more at its end or by a loss of power.
LEMMA FileChanges ==
  ASSUME [Next]_vars
  PROVE  \/ UNCHANGED <<file, bare>>
         \/ /\ wpc = "encode" /\ file' = Append(file, cur)
            /\ bare' = bare \/ bare' = bare \cup {Len(file) + 1}
         \/ PowerLoss
  <1>1. CASE WriterEncode
    BY <1>1 DEF WriterEncode
  <1>2. CASE WriterEncodeError \/ Kill
    BY <1>2 DEF WriterEncodeError, Kill, PartialWrite
  <1>3. CASE ~(WriterEncode \/ WriterEncodeError \/ Kill \/ PowerLoss)
    BY <1>3
    DEF Next, vars, Writer, WriteStep, WriteCheck, WriteSend, WriteLoad, WriteStore,
        WriterRecv, WriterRecvClosed, WriterSync, WriterSyncError, WriterAck,
        WriterNack, WriterCheckClosed, CloseFlag, CloseChan, Open, Replay, fileVars
  <1> QED
    BY <1>1, <1>2, <1>3

\* No step changes or cuts off what is known to be on the disk.
THEOREM SyncedPrefixIsStable == Spec => SyncedPrefixStable
  <1> DEFINE Kept == \A i \in 1..synced : /\ i \in DOMAIN file'
                                          /\ file'[i] = file[i]
                                          /\ i \in bare' <=> i \in bare
  <1>1. ASSUME IndInv, [Next]_vars
        PROVE  Kept
    <2>1. /\ file \in Seq(Calls) /\ DOMAIN file = 1..Len(file) /\ Len(file) \in Nat
          /\ synced \in Nat /\ synced <= Len(file)
      BY <1>1 DEF IndInv, TypeOK
    <2>2. CASE UNCHANGED <<file, bare>>
      BY <2>1, <2>2
    <2>3. CASE /\ wpc = "encode" /\ file' = Append(file, cur)
               /\ bare' = bare \/ bare' = bare \cup {Len(file) + 1}
      <3>1. \A i \in 1..synced : i \in 1..Len(file) /\ i # Len(file) + 1
        BY <2>1
      <3> QED
        BY <1>1, <2>3, <3>1, FileGrows
    <2>4. CASE PowerLoss
      <3>1. PICK n \in synced..Len(file), cut \in BOOLEAN :
               /\ cut => n > synced
               /\ file' = SubSeq(file, 1, n)
               /\ bare' = {i \in bare : i <= n} \cup (IF cut THEN {n} ELSE {})
        BY <2>4 DEF PowerLoss
      <3>2. n \in 0..Len(file) /\ synced <= n
        BY <2>1, <3>1
      <3>3. \A i \in 1..synced : i \in DOMAIN file' /\ file'[i] = file[i]
        BY <2>1, <3>1, <3>2, PrefixFacts
      <3>4. \A i \in 1..synced : i \in bare' <=> i \in bare
        BY <2>1, <3>1, <3>2
      <3> QED
        BY <3>3, <3>4
    <2> QED
      BY <1>1, <2>2, <2>3, <2>4, FileChanges
  <1>2. IndInv /\ [Next]_vars => [Kept]_vars
    BY <1>1
  <1> QED
    BY <1>2, SpecIndInv, PTL DEF Spec, SyncedPrefixStable

-----------------------------------------------------------------------------
(* The log implements DurableLog.                                          *)

\* The state of a call as the users of the log see it.
LEMMA AbsStates ==
  ASSUME NEW p \in PcStates
  PROVE  /\ p \in Active <=> AbsState(p) = "open"
         /\ p \in {"err", "refused", "panic"} <=> AbsState(p) = "err"
         /\ p = "killed" <=> AbsState(p) = "gone"
         /\ p = "ok" <=> AbsState(p) = "ok"
         /\ p = "idle" <=> AbsState(p) = "idle"
  BY DEF PcStates, Active, Queued, AbsState
St == [c \in Calls |-> AbsState(pc[c])]
Dead == phase = "serving" /\ wpc = "exit"

\* A step of one call is a step of its state, and of nothing else.
LEMMA StChanges ==
  ASSUME TypeOK, NEW c \in Calls, NEW p \in PcStates,
         pc' = [pc EXCEPT ![c] = p]
  PROVE  St' = [St EXCEPT ![c] = AbsState(p)]
  BY Zenon DEF TypeOK, St

\* Steps that leave the state of every call and the file alone.
LEMMA StStutters ==
  ASSUME TypeOK, NEW c \in Calls, NEW p \in PcStates,
         pc' = [pc EXCEPT ![c] = p], AbsState(p) = AbsState(pc[c])
  PROVE  St' = St
  BY StChanges DEF TypeOK, St

\* Every step of the log is a step of DurableLog or leaves its state alone.
LEMMA StepImplements ==
  ASSUME IndInv, [Next]_vars
  PROVE  [Durable!LogNext]_(Durable!logVars)
  <1> USE DEF IndInv
  <1>0. TypeOK /\ pc \in [Calls -> PcStates] /\ file \in Seq(Calls)
    BY DEF TypeOK
  <1> DEFINE Same == file' = file /\ bare' = bare /\ torn' = torn /\ Dead' = Dead
             Stutter == St' = St /\ Same
  <1>1. ASSUME Stutter PROVE [Durable!LogNext]_(Durable!logVars)
    BY <1>1 DEF Durable!logVars, St, Dead
  <1>2. ASSUME NEW c \in Calls, WriteCheck(c)
        PROVE  Durable!Refuse(c) \/ Durable!Call(c)
    <2>1. pc[c] = "idle" /\ Same
      BY <1>2 DEF WriteCheck, fileVars, procVars, Dead
    <2>2. CASE closed
      <3>1. St' = [St EXCEPT ![c] = AbsState("refused")]
        BY <1>0, <1>2, <2>2, StChanges, Zenon DEF WriteCheck, PcStates
      <3> QED
        BY <1>0, <2>1, <3>1, AbsStates, Zenon DEF Durable!Refuse, St, Dead, PcStates
    <2>3. CASE ~closed
      <3>1. St' = [St EXCEPT ![c] = AbsState("send")]
        BY <1>0, <1>2, <2>3, StChanges, Zenon DEF WriteCheck, PcStates, Active
      <3> QED
        BY <1>0, <2>1, <3>1, AbsStates, Zenon DEF Durable!Call, St, Dead, PcStates, Active
    <2> QED
      BY <2>2, <2>3
  <1>3. ASSUME NEW c \in Calls, WriteSend(c)
        PROVE  Durable!Panic(c) \/ Stutter
    <2>1. pc[c] = "send" /\ Same
      BY <1>3 DEF WriteSend, fileVars, procVars, Dead
    <2>2. CASE pc' = [pc EXCEPT ![c] = "panic"]
      <3>1. St' = [St EXCEPT ![c] = AbsState("panic")]
        BY <1>0, <2>2, StChanges, Zenon DEF PcStates
      <3>2. c \notin Written
        BY <2>1 DEF LoggedOnce
      <3> QED
        BY <1>0, <2>1, <3>1, <3>2, AbsStates, Zenon
        DEF Durable!Panic, Durable!Logged, Written, St, Dead, PcStates, Active
    <2>3. CASE pc' = [pc EXCEPT ![c] = "load"]
      BY <1>0, <2>1, <2>3, StStutters, Zenon DEF PcStates, Active, Queued, AbsState
    <2> QED
      BY <1>3, <2>2, <2>3 DEF WriteSend
  <1>4. ASSUME NEW c \in Calls, WriteLoad(c) \/ WriteStore(c)
        PROVE  Stutter
    <2>1. /\ pc[c] \in {"load", "store"} /\ Same
          /\ \E p \in {"store", "wait"} : pc' = [pc EXCEPT ![c] = p]
      BY <1>4 DEF WriteLoad, WriteStore, fileVars, procVars, Dead
    <2> QED
      BY <1>0, <2>1, StStutters, Zenon DEF PcStates, Active, Queued, AbsState
  <1>5. ASSUME WriterEncode
        PROVE  cur \in Calls /\ Durable!Append1(cur)
    <2>1. ~torn /\ cur \in Calls /\ pc[cur] \in Active /\ cur \notin Written
      BY <1>5
      DEF WriterEncode, WriterInv, PhaseInv, NeverGarbled, Holding, Active, TypeOK
    <2>2. file' = Append(file, cur) /\ bare' = bare /\ torn' = torn /\ pc' = pc /\ ~Dead /\ ~Dead'
      BY <1>5, <2>1 DEF WriterEncode, callVars, Dead
    <2> QED
      BY <1>0, <2>1, <2>2, AbsStates DEF Durable!Append1, Durable!Logged, Written, Dead
  <1>6. ASSUME WriterAck
        PROVE  cur \in Calls /\ Durable!Ack(cur)
    <2>1. /\ cur \in Calls /\ pc[cur] = "wait" /\ cur \in Written
          /\ pc' = [pc EXCEPT ![cur] = "ok"]
          /\ file' = file /\ bare' = bare /\ torn' = torn /\ ~Dead /\ ~Dead'
      BY <1>0, <1>6 DEF WriterAck, WriterInv, Holding, Written, fileVars, Dead
    <2>2. St' = [St EXCEPT ![cur] = AbsState("ok")]
      BY <1>0, <2>1, StChanges, Zenon DEF PcStates
    <2> QED
      BY <1>0, <2>1, <2>2, AbsStates, Zenon
      DEF Durable!Ack, Durable!Logged, Written, St, Dead, PcStates, Active, Queued
  <1>7. ASSUME WriterNack
        PROVE  cur \in Calls /\ Durable!Fail(cur)
    <2>1. /\ cur \in Calls /\ pc[cur] = "wait"
          /\ pc' = [pc EXCEPT ![cur] = "err"]
          /\ file' = file /\ bare' = bare /\ torn' = torn /\ ~Dead
      BY <1>7 DEF WriterNack, WriterInv, Holding, fileVars, Dead
    <2>2. Dead'
      BY <1>7 DEF WriterNack, procVars, PhaseInv, TypeOK, Dead
    <2>3. St' = [St EXCEPT ![cur] = AbsState("err")]
      BY <1>0, <2>1, StChanges, Zenon DEF PcStates
    <2> QED
      BY <1>0, <2>1, <2>2, <2>3, AbsStates, Zenon
      DEF Durable!Fail, St, Dead, PcStates, Active, Queued
  <1>8. ASSUME NEW g \in Durable!Grown, NEW n \in 0..Len(g), NEW cut \in BOOLEAN,
               ProcessDies, file' = SubSeq(g, 1, n),
               \A i \in 1..Len(g) : g[i] \in Calls,
               \A i \in (n + 1)..Len(g) : pc[g[i]] # "ok",
               cut => n > 0 /\ pc[g[n]] # "ok",
               bare' = {i \in bare : i <= n} \cup (IF cut THEN {n} ELSE {}),
               torn' \in BOOLEAN,
               torn' => torn \/ n < Len(g) \/ wpc = "encode"
        PROVE  Durable!LoseTail
    <2>1. St' = [c \in Calls |-> IF St[c] = "open" THEN "gone" ELSE St[c]]
      BY <1>0, <1>8, AbsStates DEF ProcessDies, St, AbsState, PcStates, Active, Queued
    <2>2. \A i \in (n + 1)..Len(g) : St[g[i]] # "ok"
      <3>1. \A i \in (n + 1)..Len(g) : i \in 1..Len(g)
        BY <1>8
      <3> QED
        BY <1>0, <1>8, <3>1, AbsStates DEF St
    <2>3. cut => n > 0 /\ St[g[n]] # "ok"
      <3>1. cut => n \in 1..Len(g)
        BY <1>8
      <3> QED
        BY <1>0, <1>8, <3>1, AbsStates DEF St
    <2>4. wpc = "encode" => \E c \in Calls : St[c] = "open"
      BY <1>0, AbsStates DEF WriterInv, Holding, Active, St
    <2>5. ~Dead'
      BY <1>8 DEF ProcessDies, Dead
    <2> QED
      BY <1>8, <2>1, <2>2, <2>3, <2>4, <2>5 DEF Durable!LoseTail, St, Dead
  <1>9. file \in Durable!Grown /\ \A i \in 1..Len(file) : file[i] \in Calls
    BY <1>0 DEF Durable!Grown
  <1>10. ASSUME Kill PROVE Durable!LoseTail
    <2>1. CASE /\ file' = file /\ bare' = bare /\ torn' \in BOOLEAN
               /\ torn' => torn \/ wpc = "encode"
      <3>1. Len(file) \in 0..Len(file) /\ file' = SubSeq(file, 1, Len(file))
        BY <1>0, <2>1
      <3>2. bare' = {i \in bare : i <= Len(file)} \cup (IF FALSE THEN {Len(file)} ELSE {})
        <4>1. \A i \in bare : i <= Len(file)
          BY <1>0 DEF BareInv
        <4> QED
          BY <2>1, <4>1
      <3>3. \A i \in (Len(file) + 1)..Len(file) : pc[file[i]] # "ok"
        BY <1>0
      <3>4. ProcessDies
        BY <1>10 DEF Kill
      <3> QED
        BY <1>8, <1>9, <2>1, <3>1, <3>2, <3>3, <3>4, Zenon
    <2>2. CASE /\ wpc = "encode" /\ ~torn /\ torn' = torn /\ file' = Append(file, cur)
               /\ bare' = bare \cup {Len(file) + 1}
      <3> DEFINE g == Append(file, cur)
      <3>1. /\ cur \in Calls /\ pc[cur] \in Active /\ cur \notin Written /\ ~Dead
            /\ file \in Seq(Calls)
        BY <1>0, <2>2 DEF WriterInv, Holding, Active, Dead
      <3>2. g \in Durable!Grown
        BY <1>0, <2>2, <3>1, AbsStates, Zenon
        DEF Durable!Grown, Durable!Logged, Written, Dead
      <3>3. /\ g \in Seq(Calls) /\ Len(g) = Len(file) + 1 /\ g[Len(file) + 1] = cur
            /\ Len(file) \in Nat /\ g = SubSeq(g, 1, Len(g))
            /\ \A i \in 1..Len(g) : g[i] \in Calls
        BY <3>1
      <3>4. bare' = {i \in bare : i <= Len(g)} \cup (IF TRUE THEN {Len(g)} ELSE {})
        <4>1. \A i \in bare : i <= Len(g)
          BY <3>3 DEF BareInv
        <4> QED
          BY <2>2, <3>3, <4>1
      <3>5. Len(g) \in 0..Len(g) /\ Len(g) > 0 /\ pc[g[Len(g)]] # "ok"
        BY <3>1, <3>3 DEF Active, Queued
      <3>6. file' = SubSeq(g, 1, Len(g)) /\ torn' \in BOOLEAN /\ ~torn'
        BY <2>2, <3>3 DEF TypeOK
      <3>7. ProcessDies /\ \A i \in (Len(g) + 1)..Len(g) : pc[g[i]] # "ok"
        BY <1>10, <3>3 DEF Kill
      <3> HIDE DEF g
      <3> QED
        BY <1>8, <3>2, <3>3, <3>4, <3>5, <3>6, <3>7, Zenon
    <2>3. torn \in BOOLEAN
      BY DEF TypeOK
    <2> QED
      <3>1. CASE UNCHANGED <<file, bare, torn>>
        BY <2>1, <2>3, <3>1
      <3>2. CASE wpc = "encode" /\ PartialWrite
        BY <2>1, <2>2, <3>2, Zenon DEF PartialWrite
      <3> QED
        BY <1>10, <3>1, <3>2 DEF Kill
  <1>11. ASSUME PowerLoss PROVE Durable!LoseTail
    <2>1. PICK n \in synced..Len(file), cut \in BOOLEAN :
             /\ cut => n > synced
             /\ file' = SubSeq(file, 1, n)
             /\ bare' = {i \in bare : i <= n} \cup (IF cut THEN {n} ELSE {})
             /\ torn' \in BOOLEAN
             /\ torn' => torn \/ n < Len(file) \/ wpc = "encode"
      BY <1>11, Zenon DEF PowerLoss
    <2>2. n \in 0..Len(file) /\ synced <= n /\ synced \in Nat
      BY <1>0, <2>1 DEF TypeOK
    <2>3. ASSUME NEW i \in 1..Len(file), i > synced, pc[file[i]] = "ok" PROVE FALSE
      <3>1. i \in DOMAIN file /\ file[i] \in Calls
        BY <1>0
      <3>2. PICK j \in 1..Len(file) : j <= synced /\ file[j] = file[i]
        BY <2>3, <3>1 DEF AckedDurable
      <3>3. i = j
        BY <1>0, <3>1, <3>2 DEF LoggedOnce
      <3> QED
        BY <1>0, <2>2, <2>3, <3>2, <3>3
    <2>4. /\ \A i \in (n + 1)..Len(file) : pc[file[i]] # "ok"
          /\ cut => n > 0 /\ pc[file[n]] # "ok"
      BY <2>1, <2>2, <2>3
    <2> QED
      BY <1>8, <1>9, <1>11, <2>1, <2>2, <2>4 DEF PowerLoss
  <1>15. ASSUME WriterEncodeError
         PROVE  cur \in Calls /\ (Durable!Tear(cur) \/ Stutter)
    <2>1. /\ cur \in Calls /\ pc[cur] \in Active /\ cur \notin Written /\ pc' = pc
          /\ ~Dead /\ ~Dead'
          /\ PartialWrite \/ UNCHANGED <<file, bare, torn>>
      BY <1>15 DEF WriterEncodeError, WriterInv, Holding, Active, callVars, Dead
    <2> QED
      BY <1>0, <2>1, AbsStates
      DEF PartialWrite, Durable!Tear, Durable!Logged, Written, St, Dead
  <1>12. ASSUME WriterRecvClosed \/ WriterCheckClosed
         PROVE  Durable!WriterEnds \/ Stutter
    <2>1. pc' = pc /\ file' = file /\ bare' = bare /\ torn' = torn /\ phase' = phase /\ ~Dead
      BY <1>12
      DEF WriterRecvClosed, WriterCheckClosed, callVars, fileVars, procVars, Dead
    <2> QED
      BY <2>1 DEF Durable!WriterEnds, St, Dead
  <1>13. ASSUME WriterRecv \/ WriterSync \/ WriterSyncError \/ CloseFlag \/ CloseChan
         PROVE  Stutter
    BY <1>13 DEF WriterRecv, WriterSync, WriterSyncError, CloseFlag, CloseChan,
                 callVars, fileVars, procVars, St, Dead
  <1>14. ASSUME Open \/ Replay \/ UNCHANGED vars
         PROVE  Stutter
    BY <1>14 DEF Open, Replay, PhaseInv, vars, fileVars, St, Dead
  <1> QED
    BY <1>1, <1>2, <1>3, <1>4, <1>5, <1>6, <1>7, <1>9, <1>10, <1>11, <1>12,
       <1>13, <1>14, <1>15
    DEF Next, WriteStep, Writer, Durable!LogNext

\* The log implements the durable log of DurableLog: the server may rely on
\* that specification instead of channels, goroutines and file operations.
THEOREM LogImplementsDurableLog == Spec => ImplementsDurableLog
  <1>1. Init => Durable!LogInit
    BY DEF Init, Durable!LogInit, AbsState, Active, Queued
  <1>2. IndInv /\ [Next]_vars => [Durable!LogNext]_(Durable!logVars)
    BY StepImplements
  <1> QED
    BY <1>1, <1>2, SpecIndInv, PTL DEF Spec, ImplementsDurableLog, Durable!LogSpec
=============================================================================
