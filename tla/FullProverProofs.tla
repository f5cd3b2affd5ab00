-------------------------- MODULE FullProverProofs --------------------------
(***************************************************************************)
(* Proofs about FullProver, for any clients, detached threads, circuits    *)
(* and inputs, and any number of cancellations and stops.                  *)
(***************************************************************************)
EXTENDS FullProver, FiniteSetTheorems, TLAPS

-----------------------------------------------------------------------------
(* The inductive invariant.                                                *)

Statuses == {"ready", "busy"} \cup Final
Strings(S) == S \cup {None}
Pairs == [input : Strings(Inputs), circuit : Strings(Circuits)]
Results == [status : Statuses \cup {None, Empty}, proof : Strings(Inputs),
            pubData : Strings(Inputs)]

Places == {"ended", "parse", "write", "witness", "load", "public", "prove?", "prove",
           "avoid", "catch", "finish"}
ClientRecords == [at : {"new", "posting", "polling", "done"}, input : Strings(Inputs),
                  circuit : Strings(Circuits), result : Results]
WorkerRecords == [at : Places, circuit : Strings(Circuits), wtns : Strings(Inputs)]

ServerRecords == [at : {"idle", "start", "status", "cancel", "ok", "abort"},
                  for : Strings(Clients), reads : 0..5]

TypeOK ==
  /\ status \in Statuses
  /\ mtx \in {None, Server}
  /\ pending \in Pairs /\ executing \in Pairs /\ accepted \in Pairs
  /\ canceled \in BOOLEAN /\ errString \in BOOLEAN /\ up \in BOOLEAN
  /\ proof \in Strings(Inputs) /\ pubData \in Strings(Inputs)
  /\ server \in ServerRecords
  /\ worker \in [Workers -> WorkerRecords]
  /\ inputFile \in [Circuits -> Strings(Inputs)]
  /\ wtnsFile \in [Circuits -> Strings(Inputs)]
  /\ client \in [Clients -> ClientRecords]
  /\ cancels \in Nat /\ stops \in Nat

\* The endpoint's thread: whom it answers, and what the comparisons it has made
\* say of the status it has not locked.  An input is pending only when the
\* thread has stopped at the mutex it holds.
ServerOK ==
  /\ server.at \in {"start", "status"} => server.for \in Clients
  /\ server.at # "idle" => up
  /\ server.at = "cancel" => server.for = None /\ cancels > 0
  /\ server.at \in {"start", "ok"} =>
       \A c \in Clients : server.for = c => client[c].at = "posting"
  /\ server.at = "status" =>
       /\ \A c \in Clients : server.for = c => client[c].at = "polling"
       /\ server.reads > 0 => status # "ready"
       /\ server.reads = 5 => status \in Final
  /\ pending.input # None => server.at = "abort" /\ mtx = Server

ClientsOK ==
  \A c \in Clients : client[c].at # "new" =>
    client[c].input \in Inputs /\ client[c].circuit \in Circuits

Runs(w) == worker[w].at # "ended"

\* One thread runs while the status is busy, on the last input accepted.
RunsOK ==
  /\ \A v, w \in Workers : Runs(v) /\ Runs(w) => v = w
  /\ status = "busy" <=> \E w \in Workers : Runs(w)
  /\ canceled => status = "busy"
  /\ cancels = 0 => ~canceled /\ status # "aborted"
  /\ status = "busy" =>
       /\ executing = accepted
       /\ accepted.input \in Inputs /\ accepted.circuit \in Circuits
       /\ Kind[accepted.input] # "empty"

\* The accepted input's witness is the one in build/, unless the calculator
\* leaves an earlier one there.
Provable ==
  Kind[accepted.input] # "rejected" /\ accepted.circuit \in Calculators
IsOf(wtns) == Provable => wtns = accepted.input
Proved == proof # None /\ pubData = proof /\ IsOf(proof)

\* What a thread has done when it is where it is.
StagesOK ==
  \A w \in Workers : Runs(w) =>
    LET x == worker[w] IN
    /\ x.at # "parse" =>
         x.circuit = accepted.circuit /\ Kind[accepted.input] # "badjson"
    /\ x.at = "witness" => inputFile[x.circuit] = accepted.input
    /\ x.at = "load" => IsOf(wtnsFile[x.circuit])
    /\ x.at \in {"public", "prove?", "prove", "avoid"} =>
         x.wtns # None /\ IsOf(x.wtns)
    /\ x.at \in {"prove?", "prove", "avoid"} => pubData = x.wtns
    /\ x.at = "avoid" => canceled
    /\ x.at = "catch" => ~Provable
    /\ x.at = "finish" => canceled \/ errString \/ Proved

\* What the status says of the last input accepted.
OutcomeOK ==
  /\ status = "success" => Proved
  /\ status = "failed" => ~Provable
  /\ status = "busy" /\ errString => ~Provable

IInv ==
  /\ TypeOK
  /\ ServerOK
  /\ ClientsOK
  /\ RunsOK
  /\ StagesOK
  /\ OutcomeOK

-----------------------------------------------------------------------------
(* What one answer and one step of a thread change.                        *)

LEMMA AnsweredOne ==
  ASSUME client \in [Clients -> ClientRecords], NEW c \in Clients, NEW r \in Results, Answered(c, r)
  PROVE  /\ client' \in [Clients -> ClientRecords]
         /\ client'[c].at # "new"
         /\ client'[c].result = IF client[c].at = "posting" \/ r.status = "busy" THEN client[c].result ELSE r
         /\ \A d \in Clients : client'[d].input = client[d].input /\ client'[d].circuit = client[d].circuit
         /\ \A d \in Clients : d # c => client'[d] = client[d]
<1> DEFINE kept == client[c].at = "posting" \/ r.status = "busy"
           next == [client[c] EXCEPT !.at = IF kept THEN "polling" ELSE "done",
                                     !.result = IF kept THEN client[c].result ELSE r]
<1>1. client[c] \in ClientRecords
  OBVIOUS
<1>2. client' = [client EXCEPT ![c] = next]
  BY DEF Answered
<1>3. /\ next \in ClientRecords /\ next.at # "new"
      /\ next.result = (IF kept THEN client[c].result ELSE r)
      /\ next.input = client[c].input /\ next.circuit = client[c].circuit
  BY <1>1 DEF ClientRecords
<1> QED  BY <1>2, <1>3

LEMMA GoesTo ==
  ASSUME worker \in [Workers -> WorkerRecords], NEW w \in Workers, NEW place \in Places, Goto(w, place)
  PROVE  /\ worker' \in [Workers -> WorkerRecords]
         /\ worker'[w].at = place
         /\ worker'[w].circuit = worker[w].circuit /\ worker'[w].wtns = worker[w].wtns
         /\ \A v \in Workers : v # w => worker'[v] = worker[v]
BY DEF WorkerRecords, Goto

-----------------------------------------------------------------------------
(* What steps of one side leave to the other.                              *)

LEMMA RunsKept ==
  ASSUME RunsOK, StagesOK, OutcomeOK, cancels \in Nat, cancels' \in {cancels, cancels + 1},
         UNCHANGED <<prover, worker, files, accepted>>
  PROVE  RunsOK' /\ StagesOK' /\ OutcomeOK'
<1>1. RunsOK'
  BY DEF RunsOK, Runs, prover
<1>2. StagesOK'
  BY DEF StagesOK, Runs, Provable, IsOf, Proved, prover, files
<1>3. OutcomeOK'
  BY DEF OutcomeOK, Provable, IsOf, Proved, prover
<1> QED  BY <1>1, <1>2, <1>3

LEMMA RequestsKept ==
  ASSUME ServerOK, ClientsOK, UNCHANGED <<status, pending, mtx, server, up, client, cancels>>
  PROVE  ServerOK' /\ ClientsOK'
<1>1. ServerOK'
  BY DEF ServerOK
<1>2. ClientsOK'
  BY DEF ClientsOK
<1> QED  BY <1>1, <1>2

-----------------------------------------------------------------------------
LEMMA InitInv == Init => IInv
<1> SUFFICES ASSUME Init PROVE IInv
  OBVIOUS
<1>1. TypeOK
  <2>1. client \in [Clients -> ClientRecords]
    BY DEF Init, Strings, ClientRecords, Results, NoResult
  <2>2. worker \in [Workers -> WorkerRecords]
    BY DEF Init, Strings, WorkerRecords, Places, Ended
  <2>3. pending \in Pairs /\ executing \in Pairs /\ accepted \in Pairs
    BY DEF Init, Pairs, NoInput, Strings
  <2>4. server \in ServerRecords
    BY DEF Init, ServerRecords, Idle, Strings
  <2>5. /\ proof \in Strings(Inputs) /\ pubData \in Strings(Inputs)
        /\ inputFile \in [Circuits -> Strings(Inputs)] /\ wtnsFile \in [Circuits -> Strings(Inputs)]
    BY DEF Init, Strings
  <2> QED  BY <2>1, <2>2, <2>3, <2>4, <2>5 DEF Init, TypeOK, Statuses
<1>2. ServerOK /\ ClientsOK
  BY DEF Init, ServerOK, ClientsOK, Idle, NoInput
<1>3. RunsOK /\ StagesOK /\ OutcomeOK
  BY DEF Init, RunsOK, StagesOK, OutcomeOK, Runs, Ended
<1> QED  BY <1>1, <1>2, <1>3 DEF IInv

-----------------------------------------------------------------------------
(* Clients and requests.                                                   *)

\* What a poll is answered.
Polled ==
  [status |-> status, proof |-> IF status = "success" THEN proof ELSE None,
   pubData |-> IF status = "success" THEN pubData ELSE None]

LEMMA ReadResult ==
  ASSUME IInv, ReadStatus
  PROVE  Polled \in Results /\ (Answered(server.for, Polled) \/ UNCHANGED client)
BY DEF IInv, TypeOK, ReadStatus, Polled, Results, Strings

LEMMA EmptyResult ==
  [NoResult EXCEPT !.status = Empty] \in Results
BY DEF NoResult, Results, Strings

LEMMA PostPreserves ==
  ASSUME IInv, NEW c \in Clients, Post(c)
  PROVE  IInv'
<1>1. TypeOK'
  <2>1. client' \in [Clients -> ClientRecords]
    <3>1. PICK i \in Inputs, k \in Circuits :
            client' = [client EXCEPT ![c].at = "posting", ![c].input = i, ![c].circuit = k]
      BY DEF Post
    <3> DEFINE next == [client[c] EXCEPT !.at = "posting", !.input = i, !.circuit = k]
    <3>2. client' = [client EXCEPT ![c] = next]
      BY <3>1
    <3>3. next \in ClientRecords
      BY DEF IInv, TypeOK, ClientRecords, Strings
    <3> QED  BY <3>2, <3>3 DEF IInv, TypeOK
  <2> QED  BY <2>1 DEF IInv, TypeOK, Post, prover, files
<1>2. ServerOK'
  BY DEF IInv, TypeOK, ServerOK, Post, ClientRecords, prover
<1>3. ClientsOK'
  BY DEF IInv, TypeOK, ClientsOK, Post, ClientRecords
<1>4. RunsOK' /\ StagesOK' /\ OutcomeOK'
  BY RunsKept DEF IInv, TypeOK, Post
<1> QED  BY <1>1, <1>2, <1>3, <1>4 DEF IInv

LEMMA RefusedPreserves ==
  ASSUME IInv, NEW c \in Clients, Refused(c)
  PROVE  IInv'
<1>1. TypeOK'
  <2>1. client' \in [Clients -> ClientRecords]
    BY DEF IInv, TypeOK, Refused, ClientRecords
  <2> QED  BY <2>1 DEF IInv, TypeOK, Refused, prover, files
<1>2. ServerOK'
  BY DEF IInv, ServerOK, Refused, prover
<1>3. ClientsOK'
  BY DEF IInv, TypeOK, ClientsOK, Refused, ClientRecords
<1>4. RunsOK' /\ StagesOK' /\ OutcomeOK'
  BY RunsKept DEF IInv, TypeOK, Refused
<1> QED  BY <1>1, <1>2, <1>3, <1>4 DEF IInv

LEMMA AcceptPreserves ==
  ASSUME IInv, NEW c \in Clients, Accept(c)
  PROVE  IInv'
<1>1. TypeOK'
  BY DEF IInv, TypeOK, Accept, Strings, ServerRecords, prover, files
<1>2. ServerOK'
  BY DEF IInv, TypeOK, ServerOK, Accept, prover
<1>3. ClientsOK'
  BY DEF IInv, ClientsOK, Accept
<1>4. RunsOK' /\ StagesOK' /\ OutcomeOK'
  BY RunsKept DEF IInv, TypeOK, Accept
<1> QED  BY <1>1, <1>2, <1>3, <1>4 DEF IInv

LEMMA AcceptCancelPreserves ==
  ASSUME IInv, AcceptCancel
  PROVE  IInv'
<1>1. TypeOK'
  BY DEF IInv, TypeOK, AcceptCancel, Idle, Strings, ServerRecords, prover, files
<1>2. ServerOK'
  BY ServerAssumption DEF IInv, TypeOK, ServerOK, AcceptCancel, Idle, prover
<1>3. ClientsOK'
  BY DEF IInv, ClientsOK, AcceptCancel
<1>4. RunsOK' /\ StagesOK' /\ OutcomeOK'
  BY RunsKept DEF IInv, TypeOK, AcceptCancel
<1> QED  BY <1>1, <1>2, <1>3, <1>4 DEF IInv

LEMMA Responded ==
  ASSUME IInv, Respond
  PROVE  \/ UNCHANGED client
         \/ server.for \in Clients /\ NoResult \in Results /\ Answered(server.for, NoResult)
<1>1. server.for \in Clients \cup {None}
  BY DEF IInv, TypeOK, ServerRecords, Strings
<1>2. NoResult \in Results
  BY DEF NoResult, Results, Strings
<1> QED  BY <1>1, <1>2 DEF Respond

LEMMA RespondPreserves ==
  ASSUME IInv, Respond
  PROVE  IInv'
<1>1. TypeOK'
  <2>1. client' \in [Clients -> ClientRecords]
    <3>1. client \in [Clients -> ClientRecords]
      BY DEF IInv, TypeOK
    <3> QED  BY <3>1, Responded, AnsweredOne
  <2> QED  BY <2>1 DEF IInv, TypeOK, Respond, Idle, Strings, ServerRecords, prover, files
<1>2. ServerOK'
  BY DEF IInv, ServerOK, Respond, Idle, prover
<1>3. ClientsOK'
  <2>1. client \in [Clients -> ClientRecords] /\ ClientsOK
    BY DEF IInv, TypeOK
  <2>2. CASE UNCHANGED client
    BY <2>1, <2>2 DEF ClientsOK
  <2>3. CASE server.for \in Clients /\ NoResult \in Results /\ Answered(server.for, NoResult)
    <3>1. client[server.for].at = "posting"
      BY <2>3 DEF IInv, ServerOK, Respond
    <3> QED  BY <2>1, <2>3, <3>1, AnsweredOne DEF ClientsOK
  <2> QED  BY <2>2, <2>3, Responded
<1>4. RunsOK' /\ StagesOK' /\ OutcomeOK'
  BY RunsKept DEF IInv, TypeOK, Respond
<1> QED  BY <1>1, <1>2, <1>3, <1>4 DEF IInv

LEMMA ReadStatusPreserves ==
  ASSUME IInv, ReadStatus
  PROVE  IInv'
<1>1. TypeOK'
  <2>1. client' \in [Clients -> ClientRecords]
    BY ReadResult, AnsweredOne DEF IInv, TypeOK, ServerOK, ReadStatus
  <2>2. server' \in ServerRecords
    BY DEF IInv, TypeOK, ReadStatus, ServerRecords, Idle, Strings
  <2> QED  BY <2>1, <2>2 DEF IInv, TypeOK, ReadStatus, prover, files
<1>2. ServerOK'
  <2>1. UNCHANGED <<status, pending, mtx, up, cancels>> /\ server.at = "status"
    BY DEF ReadStatus, prover
  <2>2. pending.input = None
    BY <2>1 DEF IInv, ServerOK
  <2>3. CASE server' = Idle
    BY <2>1, <2>2, <2>3 DEF ServerOK, Idle
  <2>4. CASE server' = [server EXCEPT !.reads = @ + 1] /\ UNCHANGED client /\ status # Compared[server.reads + 1]
    <3>1. server \in ServerRecords /\ server.reads < 5 /\ status \in Statuses
      BY DEF IInv, TypeOK, ReadStatus
    <3>2. server'.at = server.at /\ server'.for = server.for /\ server'.reads = server.reads + 1
      BY <2>4, <3>1 DEF ServerRecords
    <3>3. server.reads = 0 => status # "ready"
      BY <2>4 DEF Compared
    <3>4. server.reads = 4 => status \in Final
      <4>1. server.reads = 4 => status # "busy"
        BY <2>4 DEF Compared
      <4>2. server.reads = 4 => status # "ready"
        BY <2>1 DEF IInv, ServerOK
      <4> QED  BY <3>1, <4>1, <4>2 DEF Statuses
    <3>5. server.reads \in 0..4
      BY <3>1 DEF ServerRecords
    <3> QED  BY <2>1, <2>2, <2>4, <3>2, <3>3, <3>4, <3>5 DEF IInv, ServerOK
  <2> QED  BY <2>3, <2>4 DEF ReadStatus
<1>3. ClientsOK'
  <2>1. CASE UNCHANGED client
    BY <2>1 DEF IInv, ClientsOK
  <2>2. CASE ~UNCHANGED client
    BY <2>2, ReadResult, AnsweredOne DEF IInv, TypeOK, ServerOK, ClientsOK, ReadStatus
  <2> QED  BY <2>1, <2>2
<1>4. RunsOK' /\ StagesOK' /\ OutcomeOK'
  BY RunsKept DEF IInv, TypeOK, ReadStatus
<1> QED  BY <1>1, <1>2, <1>3, <1>4 DEF IInv

LEMMA AnswerEmptyPreserves ==
  ASSUME IInv, AnswerEmpty
  PROVE  IInv'
<1>1. TypeOK'
  <2>1. client' \in [Clients -> ClientRecords]
    BY EmptyResult, AnsweredOne DEF IInv, TypeOK, ServerOK, AnswerEmpty
  <2> QED  BY <2>1 DEF IInv, TypeOK, AnswerEmpty, Idle, Strings, ServerRecords, prover, files
<1>2. ServerOK'
  BY DEF IInv, ServerOK, AnswerEmpty, Idle, prover
<1>3. ClientsOK'
  BY EmptyResult, AnsweredOne DEF IInv, TypeOK, ServerOK, ClientsOK, AnswerEmpty
<1>4. RunsOK' /\ StagesOK' /\ OutcomeOK'
  BY RunsKept DEF IInv, TypeOK, AnswerEmpty
<1> QED  BY <1>1, <1>2, <1>3, <1>4 DEF IInv

LEMMA RestartPreserves ==
  ASSUME IInv, Restart
  PROVE  IInv'
<1>1. TypeOK'
  BY DEF IInv, TypeOK, Restart, prover, files
<1>2. ServerOK'
  BY DEF IInv, ServerOK, Restart, prover
<1>3. ClientsOK'
  BY DEF IInv, ClientsOK, Restart
<1>4. RunsOK' /\ StagesOK' /\ OutcomeOK'
  BY RunsKept DEF IInv, TypeOK, Restart
<1> QED  BY <1>1, <1>2, <1>3, <1>4 DEF IInv

-----------------------------------------------------------------------------
(* The endpoint's thread under the lock.                                   *)

LEMMA StartProvePreserves ==
  ASSUME IInv, StartProve
  PROVE  IInv'
<1> DEFINE i == client[server.for].input
           posted == [input |-> IF Kind[i] = "empty" THEN None ELSE i, circuit |-> client[server.for].circuit]
<1>1. /\ i \in Inputs /\ client[server.for].circuit \in Circuits
      /\ i # None /\ client[server.for].circuit # None
      /\ posted \in Pairs
  BY ServerAssumption DEF IInv, ServerOK, ClientsOK, StartProve, Pairs, Strings
<1>2. UNCHANGED <<pubData, up, files, client, cancels, stops>> /\ mtx = None /\ server.at = "start"
  BY DEF StartProve
<1>3. ASSUME status = "busy"
      PROVE  IInv'
  <2>1. /\ pending' = posted /\ mtx' = Server /\ server' = [server EXCEPT !.at = "abort"]
        /\ UNCHANGED <<status, executing, canceled, errString, proof, worker, accepted>>
    BY <1>3 DEF StartProve, posted, i
  <2>2. TypeOK'
    BY <1>1, <1>2, <2>1 DEF IInv, TypeOK, ServerRecords, files
  <2>3. ServerOK' /\ ClientsOK'
    BY <1>2, <2>1 DEF IInv, TypeOK, ServerOK, ClientsOK
  <2>4. RunsOK' /\ StagesOK' /\ OutcomeOK'
    BY <1>2, <2>1 DEF IInv, RunsOK, StagesOK, OutcomeOK, Runs, Provable, IsOf, Proved, files
  <2> QED  BY <2>2, <2>3, <2>4 DEF IInv
<1>4. ASSUME status # "busy", Kind[i] = "empty"
      PROVE  IInv'
  <2>1. /\ pending' = posted /\ posted.input = None /\ server' = [server EXCEPT !.at = "ok"]
        /\ UNCHANGED <<mtx, status, executing, canceled, errString, proof, worker, accepted>>
    BY <1>4 DEF StartProve, CheckPending, posted, i
  <2>2. TypeOK'
    BY <1>1, <1>2, <2>1 DEF IInv, TypeOK, ServerRecords, files
  <2>3. ServerOK' /\ ClientsOK'
    BY <1>2, <2>1 DEF IInv, TypeOK, ServerOK, ClientsOK
  <2>4. RunsOK' /\ StagesOK' /\ OutcomeOK'
    BY <1>2, <2>1 DEF IInv, RunsOK, StagesOK, OutcomeOK, Runs, Provable, IsOf, Proved, files
  <2> QED  BY <2>2, <2>3, <2>4 DEF IInv
<1>5. ASSUME status # "busy", Kind[i] # "empty"
      PROVE  IInv'
  <2>1. posted = [input |-> i, circuit |-> client[server.for].circuit]
    BY <1>5
  <2>2. /\ status' = "busy" /\ executing' = posted /\ accepted' = posted /\ pending' = NoInput
        /\ errString' = FALSE /\ canceled' = FALSE /\ proof' = None
        /\ UNCHANGED mtx /\ server' = [server EXCEPT !.at = "ok"]
        /\ \E w \in Workers : worker[w].at = "ended" /\ worker' = [worker EXCEPT ![w].at = "parse"]
    BY <1>1, <1>5, <2>1 DEF StartProve, CheckPending, posted, i
  <2>3. PICK w \in Workers : worker' = [worker EXCEPT ![w].at = "parse"]
    BY <2>2
  <2>4. /\ worker' \in [Workers -> WorkerRecords] /\ worker'[w].at = "parse"
        /\ \A v \in Workers : v # w => worker'[v] = worker[v]
    BY <2>3, GoesTo DEF IInv, TypeOK, Goto, Places
  <2>5. \A v \in Workers : ~Runs(v)
    BY <1>5 DEF IInv, RunsOK
  <2>6. TypeOK'
    BY <1>1, <1>2, <2>2, <2>4 DEF IInv, TypeOK, NoInput, Pairs, Strings, Statuses, ServerRecords, files
  <2>7. ServerOK' /\ ClientsOK'
    BY <1>2, <2>2 DEF IInv, TypeOK, ServerOK, ClientsOK, NoInput
  <2>8. RunsOK'
    BY <1>1, <1>2, <1>5, <2>1, <2>2, <2>4, <2>5 DEF RunsOK, Runs
  <2>9. StagesOK' /\ OutcomeOK'
    BY <2>2, <2>4, <2>5 DEF StagesOK, OutcomeOK, Runs
  <2> QED  BY <2>6, <2>7, <2>8, <2>9 DEF IInv
<1> QED  BY <1>3, <1>4, <1>5

LEMMA AbortPreserves ==
  ASSUME IInv, Abort
  PROVE  IInv'
<1>1. canceled' => status = "busy"
  BY DEF IInv, RunsOK, Abort
<1>2. cancels > 0
  BY DEF IInv, ServerOK, Abort
<1>3. TypeOK'
  BY DEF IInv, TypeOK, ServerRecords, Abort, files
<1>4. ServerOK' /\ ClientsOK'
  BY ServerAssumption DEF IInv, TypeOK, ServerOK, ClientsOK, Abort
<1>5. RunsOK'
  BY <1>1, <1>2 DEF IInv, TypeOK, RunsOK, Runs, Abort
<1>6. StagesOK' /\ OutcomeOK'
  BY DEF IInv, StagesOK, OutcomeOK, Runs, Provable, IsOf, Proved, Abort, files
<1> QED  BY <1>3, <1>4, <1>5, <1>6 DEF IInv

-----------------------------------------------------------------------------
(* The end of the process.                                                 *)

LEMMA ProcessEndsPreserves ==
  ASSUME IInv, ProcessEnds, stops' \in Nat
  PROVE  IInv'
<1>1. TypeOK'
  <2>1. client' \in [Clients -> ClientRecords]
    BY DEF IInv, TypeOK, ProcessEnds, Disconnected, ClientRecords
  <2>2. worker' \in [Workers -> WorkerRecords]
    BY DEF ProcessEnds, Ended, WorkerRecords, Places, Strings
  <2>3. pending' \in Pairs /\ executing' \in Pairs
    BY DEF ProcessEnds, FreshProver, Pairs, NoInput, Strings
  <2>4. server' \in ServerRecords
    BY DEF ProcessEnds, ServerRecords, Idle, Strings
  <2>5. proof' \in Strings(Inputs) /\ pubData' \in Strings(Inputs)
    BY DEF ProcessEnds, FreshProver, Strings
  <2> QED  BY <2>1, <2>2, <2>3, <2>4, <2>5 DEF IInv, TypeOK, ProcessEnds, FreshProver, Statuses, files
<1>2. ServerOK'
  BY DEF ServerOK, ProcessEnds, FreshProver, Idle, NoInput
<1>3. ClientsOK'
  BY DEF IInv, TypeOK, ClientsOK, ProcessEnds, Disconnected
<1>4. RunsOK' /\ StagesOK' /\ OutcomeOK'
  BY DEF RunsOK, StagesOK, OutcomeOK, Runs, ProcessEnds, FreshProver, Ended
<1> QED  BY <1>1, <1>2, <1>3, <1>4 DEF IInv

LEMMA StopPreserves ==
  ASSUME IInv, Stop
  PROVE  IInv'
BY ProcessEndsPreserves DEF IInv, TypeOK, Stop

-----------------------------------------------------------------------------
(* A proving thread.                                                       *)

LEMMA ParsePreserves ==
  ASSUME IInv, NEW w \in Workers, Parse(w)
  PROVE  IInv'
<1> SUFFICES ASSUME ~ProcessEnds PROVE IInv'
  BY ProcessEndsPreserves DEF IInv, TypeOK, Parse
<1>1. /\ worker' \in [Workers -> WorkerRecords]
      /\ worker'[w].at = "write" /\ worker'[w].circuit = executing.circuit
      /\ \A v \in Workers : v # w => worker'[v] = worker[v]
  BY DEF IInv, TypeOK, Pairs, WorkerRecords, Places, Parse
<1>2. \A v \in Workers : v # w => ~Runs(v) /\ ~Runs(v)'
  BY <1>1 DEF IInv, RunsOK, Runs, Parse, At
<1>3. TypeOK'
  BY <1>1 DEF IInv, TypeOK, Parse, prover, files
<1>4. ServerOK' /\ ClientsOK'
  BY RequestsKept DEF IInv, Parse, prover
<1>5. RunsOK'
  BY <1>1, <1>2 DEF IInv, RunsOK, Runs, Parse, At, prover
<1>6. StagesOK'
  BY <1>1, <1>2 DEF IInv, RunsOK, StagesOK, Runs, Provable, IsOf, Proved, Parse, At, prover, files
<1>7. OutcomeOK'
  BY DEF IInv, OutcomeOK, Provable, IsOf, Proved, Parse, prover
<1> QED  BY <1>3, <1>4, <1>5, <1>6, <1>7 DEF IInv

LEMMA WriteInputPreserves ==
  ASSUME IInv, NEW w \in Workers, WriteInput(w)
  PROVE  IInv'
<1>1. /\ worker' \in [Workers -> WorkerRecords] /\ worker'[w].at \in {"witness"}
      /\ worker'[w].circuit = worker[w].circuit /\ worker'[w].wtns = worker[w].wtns
      /\ \A v \in Workers : v # w => worker'[v] = worker[v]
  BY GoesTo DEF IInv, TypeOK, Places, WriteInput
<1>2. \A v \in Workers : v # w => ~Runs(v) /\ ~Runs(v)'
  BY <1>1 DEF IInv, RunsOK, Runs, WriteInput, At
<1>3. TypeOK'
  BY <1>1 DEF IInv, TypeOK, Pairs, WriteInput, prover, files
<1>4. ServerOK' /\ ClientsOK'
  BY RequestsKept DEF IInv, WriteInput, prover
<1>5. RunsOK'
  BY <1>1, <1>2 DEF IInv, RunsOK, Runs, WriteInput, At, prover
<1>6. StagesOK'
  BY <1>1, <1>2 DEF IInv, TypeOK, RunsOK, StagesOK, Runs, Provable, IsOf, Proved, WriteInput, At, prover, files
<1>7. OutcomeOK'
  BY DEF IInv, OutcomeOK, Provable, IsOf, Proved, WriteInput, prover
<1> QED  BY <1>3, <1>4, <1>5, <1>6, <1>7 DEF IInv

LEMMA CalculateWitnessPreserves ==
  ASSUME IInv, NEW w \in Workers, CalculateWitness(w)
  PROVE  IInv'
<1>1. /\ worker' \in [Workers -> WorkerRecords] /\ worker'[w].at \in {"load"}
      /\ worker'[w].circuit = worker[w].circuit /\ worker'[w].wtns = worker[w].wtns
      /\ \A v \in Workers : v # w => worker'[v] = worker[v]
  BY GoesTo DEF IInv, TypeOK, Places, CalculateWitness
<1>2. \A v \in Workers : v # w => ~Runs(v) /\ ~Runs(v)'
  BY <1>1 DEF IInv, RunsOK, Runs, CalculateWitness, At
<1>3. TypeOK'
  BY <1>1 DEF IInv, TypeOK, CalculateWitness, prover, files
<1>4. ServerOK' /\ ClientsOK'
  BY RequestsKept DEF IInv, CalculateWitness, prover
<1>5. RunsOK'
  BY <1>1, <1>2 DEF IInv, RunsOK, Runs, CalculateWitness, At, prover
<1>6. StagesOK'
  <2> DEFINE k == worker[w].circuit
  <2>1. /\ k = accepted.circuit /\ k \in Circuits
        /\ Kind[accepted.input] \in Kinds /\ Kind[accepted.input] \notin {"badjson", "empty"}
        /\ inputFile[k] = accepted.input
    BY ServerAssumption DEF IInv, RunsOK, StagesOK, Runs, CalculateWitness, At
  <2>2. Provable => wtnsFile' = [wtnsFile EXCEPT ![k] = accepted.input]
    BY <2>1 DEF CalculateWitness, Provable, Kinds
  <2>3. Provable => wtnsFile'[k] = accepted.input
    BY <2>1, <2>2 DEF IInv, TypeOK
  <2>4. UNCHANGED <<accepted, inputFile, canceled, errString, proof, pubData>>
    BY DEF CalculateWitness, prover
  <2>5. (Provable <=> Provable') /\ IsOf(wtnsFile'[k])
    BY <2>3, <2>4 DEF Provable, IsOf
  <2>6. IsOf(wtnsFile[k])'
    BY <1>1, <2>4, <2>5 DEF Provable, IsOf
  <2>7. worker'[w].circuit = accepted'.circuit /\ Kind[accepted'.input] # "badjson"
    BY <1>1, <2>1, <2>4
  <2> QED  BY <1>1, <1>2, <2>6, <2>7 DEF StagesOK, Runs
<1>7. OutcomeOK'
  BY DEF IInv, OutcomeOK, Provable, IsOf, Proved, CalculateWitness, prover
<1> QED  BY <1>3, <1>4, <1>5, <1>6, <1>7 DEF IInv

LEMMA LoadWitnessPreserves ==
  ASSUME IInv, NEW w \in Workers, LoadWitness(w)
  PROVE  IInv'
<1> DEFINE found == wtnsFile[worker[w].circuit]
           next == [worker[w] EXCEPT !.at = IF found = None THEN "catch" ELSE "public", !.wtns = found]
<1>1. /\ worker' \in [Workers -> WorkerRecords]
      /\ worker'[w].at = (IF found = None THEN "catch" ELSE "public")
      /\ worker'[w].circuit = worker[w].circuit /\ worker'[w].wtns = found
      /\ \A v \in Workers : v # w => worker'[v] = worker[v]
  <2>1. worker[w] \in WorkerRecords /\ worker' = [worker EXCEPT ![w] = next]
    BY DEF IInv, TypeOK, LoadWitness
  <2>2. worker[w].circuit \in Circuits
    BY DEF IInv, RunsOK, StagesOK, Runs, LoadWitness, At
  <2>3. found \in Strings(Inputs)
    BY <2>2 DEF IInv, TypeOK
  <2>4. /\ next \in WorkerRecords /\ next.at = (IF found = None THEN "catch" ELSE "public")
        /\ next.circuit = worker[w].circuit /\ next.wtns = found
    BY <2>1, <2>3 DEF WorkerRecords, Places
  <2> QED  BY <2>1, <2>4 DEF IInv, TypeOK
<1>2. \A v \in Workers : v # w => ~Runs(v) /\ ~Runs(v)'
  BY <1>1 DEF IInv, RunsOK, Runs, LoadWitness, At
<1>3. TypeOK'
  BY <1>1 DEF IInv, TypeOK, LoadWitness, prover, files
<1>4. ServerOK' /\ ClientsOK'
  BY RequestsKept DEF IInv, LoadWitness, prover
<1>5. RunsOK'
  BY <1>1, <1>2 DEF IInv, RunsOK, Runs, LoadWitness, At, prover
<1>6. StagesOK'
  <2>1. UNCHANGED <<accepted, inputFile, wtnsFile, canceled, errString, proof, pubData>>
    BY DEF LoadWitness, prover, files
  <2>2. /\ worker[w].circuit = accepted.circuit /\ Kind[accepted.input] # "badjson"
        /\ IsOf(found) /\ accepted.input # None
    BY ServerAssumption DEF IInv, RunsOK, StagesOK, Runs, LoadWitness, At
  <2>3. found = None => ~Provable
    BY <2>2 DEF IsOf
  <2>4. (Provable <=> Provable') /\ (IsOf(found) <=> IsOf(worker[w].wtns)')
    BY <1>1, <2>1 DEF Provable, IsOf
  <2> QED  BY <1>1, <1>2, <2>1, <2>2, <2>3, <2>4 DEF StagesOK, Runs
<1>7. OutcomeOK'
  BY DEF IInv, OutcomeOK, Provable, IsOf, Proved, LoadWitness, prover
<1> QED  BY <1>3, <1>4, <1>5, <1>6, <1>7 DEF IInv

LEMMA SetPubDataPreserves ==
  ASSUME IInv, NEW w \in Workers, SetPubData(w)
  PROVE  IInv'
<1> SUFFICES ASSUME ~ProcessEnds PROVE IInv'
  BY ProcessEndsPreserves DEF IInv, TypeOK, SetPubData
<1>1. /\ worker' \in [Workers -> WorkerRecords] /\ worker'[w].at \in {"prove?"}
      /\ worker'[w].circuit = worker[w].circuit /\ worker'[w].wtns = worker[w].wtns
      /\ \A v \in Workers : v # w => worker'[v] = worker[v]
  BY GoesTo DEF IInv, TypeOK, Places, SetPubData
<1>2. \A v \in Workers : v # w => ~Runs(v) /\ ~Runs(v)'
  BY <1>1 DEF IInv, RunsOK, Runs, SetPubData, At
<1>3. TypeOK'
  BY <1>1 DEF IInv, TypeOK, WorkerRecords, SetPubData, prover, files
<1>4. ServerOK' /\ ClientsOK'
  BY RequestsKept DEF IInv, SetPubData, prover
<1>5. RunsOK'
  BY <1>1, <1>2 DEF IInv, RunsOK, Runs, SetPubData, At, prover
<1>6. StagesOK'
  BY <1>1, <1>2 DEF IInv, StagesOK, Runs, Provable, IsOf, Proved, SetPubData, At, prover, files
<1>7. OutcomeOK'
  BY DEF IInv, RunsOK, Runs, At, OutcomeOK, Provable, IsOf, Proved, SetPubData, prover
<1> QED  BY <1>3, <1>4, <1>5, <1>6, <1>7 DEF IInv

LEMMA TestCanceledPreserves ==
  ASSUME IInv, NEW w \in Workers, TestCanceled(w)
  PROVE  IInv'
<1>1. /\ worker' \in [Workers -> WorkerRecords] /\ worker'[w].at \in {"prove", "avoid"}
      /\ worker'[w].circuit = worker[w].circuit /\ worker'[w].wtns = worker[w].wtns
      /\ \A v \in Workers : v # w => worker'[v] = worker[v]
  BY GoesTo DEF IInv, TypeOK, Places, TestCanceled
<1>2. \A v \in Workers : v # w => ~Runs(v) /\ ~Runs(v)'
  BY <1>1 DEF IInv, RunsOK, Runs, TestCanceled, At
<1>3. TypeOK'
  BY <1>1 DEF IInv, TypeOK, TestCanceled, prover, files
<1>4. ServerOK' /\ ClientsOK'
  BY RequestsKept DEF IInv, TestCanceled, prover
<1>5. RunsOK'
  BY <1>1, <1>2 DEF IInv, RunsOK, Runs, TestCanceled, At, prover
<1>6. StagesOK'
  <2>1. UNCHANGED <<accepted, inputFile, wtnsFile, canceled, errString, proof, pubData>>
    BY DEF TestCanceled, prover, files
  <2>2. worker'[w].at = "avoid" => canceled
    BY DEF IInv, TypeOK, TestCanceled, Goto
  <2>3. /\ worker[w].circuit = accepted.circuit /\ Kind[accepted.input] # "badjson"
        /\ worker[w].wtns # None /\ IsOf(worker[w].wtns) /\ pubData = worker[w].wtns
    BY DEF IInv, StagesOK, Runs, TestCanceled, At
  <2>4. IsOf(worker[w].wtns)'
    BY <1>1, <2>1, <2>3 DEF Provable, IsOf
  <2> QED  BY <1>1, <1>2, <2>1, <2>2, <2>3, <2>4 DEF StagesOK, Runs
<1>7. OutcomeOK'
  BY DEF IInv, OutcomeOK, Provable, IsOf, Proved, TestCanceled, prover
<1> QED  BY <1>3, <1>4, <1>5, <1>6, <1>7 DEF IInv

LEMMA ProvePreserves ==
  ASSUME IInv, NEW w \in Workers, Prove(w)
  PROVE  IInv'
<1>1. /\ worker' \in [Workers -> WorkerRecords] /\ worker'[w].at \in {"finish"}
      /\ worker'[w].circuit = worker[w].circuit /\ worker'[w].wtns = worker[w].wtns
      /\ \A v \in Workers : v # w => worker'[v] = worker[v]
  BY GoesTo DEF IInv, TypeOK, Places, Prove
<1>2. \A v \in Workers : v # w => ~Runs(v) /\ ~Runs(v)'
  BY <1>1 DEF IInv, RunsOK, Runs, Prove, At
<1>3. TypeOK'
  BY <1>1 DEF IInv, TypeOK, WorkerRecords, Strings, Prove, prover, files
<1>4. ServerOK' /\ ClientsOK'
  BY RequestsKept DEF IInv, Prove, prover
<1>5. RunsOK'
  BY <1>1, <1>2 DEF IInv, RunsOK, Runs, Prove, At, prover
<1>6. StagesOK'
  BY <1>1, <1>2 DEF IInv, StagesOK, Runs, Provable, IsOf, Proved, Prove, At, prover, files
<1>7. OutcomeOK'
  BY DEF IInv, RunsOK, Runs, OutcomeOK, Provable, IsOf, Proved, Prove, prover
<1> QED  BY <1>3, <1>4, <1>5, <1>6, <1>7 DEF IInv

LEMMA CatchPreserves ==
  ASSUME IInv, NEW w \in Workers, Catch(w)
  PROVE  IInv'
<1>1. /\ worker' \in [Workers -> WorkerRecords] /\ worker'[w].at \in {"finish"}
      /\ worker'[w].circuit = worker[w].circuit /\ worker'[w].wtns = worker[w].wtns
      /\ \A v \in Workers : v # w => worker'[v] = worker[v]
  BY GoesTo DEF IInv, TypeOK, Places, Catch
<1>2. \A v \in Workers : v # w => ~Runs(v) /\ ~Runs(v)'
  BY <1>1 DEF IInv, RunsOK, Runs, Catch, At
<1>3. TypeOK'
  BY <1>1 DEF IInv, TypeOK, Catch, prover, files
<1>4. ServerOK' /\ ClientsOK'
  BY RequestsKept DEF IInv, Catch, prover
<1>5. RunsOK'
  BY <1>1, <1>2 DEF IInv, RunsOK, Runs, Catch, At, prover
<1>6. StagesOK'
  BY <1>1, <1>2 DEF IInv, StagesOK, Runs, Provable, IsOf, Proved, Catch, At, prover, files
<1>7. OutcomeOK'
  BY DEF IInv, StagesOK, Runs, At, OutcomeOK, Provable, IsOf, Proved, Catch, prover
<1> QED  BY <1>3, <1>4, <1>5, <1>6, <1>7 DEF IInv

LEMMA CalcFinishedPreserves ==
  ASSUME IInv, NEW w \in Workers, CalcFinished(w)
  PROVE  IInv'
<1>1. pending.input = None
  BY ServerAssumption DEF IInv, ServerOK, CalcFinished
<1> DEFINE outcome == IF canceled THEN "aborted" ELSE IF errString THEN "failed" ELSE "success"
<1>2. /\ status' = outcome
      /\ executing' = [executing EXCEPT !.input = None]
      /\ pending' = pending /\ errString' = errString /\ canceled' = FALSE
      /\ worker' = [worker EXCEPT ![w] = Ended]
      /\ UNCHANGED <<proof, accepted, pubData, mtx, server, up, files, client, cancels, stops>>
  BY <1>1 DEF CalcFinished, CheckPending
<1>3. \A v \in Workers : ~Runs(v)'
  BY <1>2 DEF IInv, TypeOK, RunsOK, Runs, CalcFinished, At, Ended
<1>4. TypeOK'
  <2>1. worker' \in [Workers -> WorkerRecords]
    BY <1>2 DEF IInv, TypeOK, Ended, WorkerRecords, Places, Strings
  <2>2. executing' \in Pairs
    BY <1>2 DEF IInv, TypeOK, Pairs, Strings
  <2> QED  BY <1>2, <2>1, <2>2 DEF IInv, TypeOK, Statuses, Final, files
<1>5. ServerOK' /\ ClientsOK'
  BY <1>2 DEF IInv, ServerOK, ClientsOK, Final
<1>6. RunsOK'
  BY <1>2, <1>3 DEF IInv, RunsOK
<1>7. StagesOK'
  BY <1>3 DEF StagesOK, Runs
<1>8. OutcomeOK'
  BY <1>2 DEF IInv, RunsOK, StagesOK, OutcomeOK, Runs, Provable, IsOf, Proved, CalcFinished, At
<1> QED  BY <1>4, <1>5, <1>6, <1>7, <1>8 DEF IInv

-----------------------------------------------------------------------------
LEMMA StutterPreserves == IInv /\ UNCHANGED vars => IInv'
<1> SUFFICES ASSUME IInv, UNCHANGED vars PROVE IInv'
  OBVIOUS
<1>1. TypeOK'
  BY DEF IInv, TypeOK, vars, prover, files
<1>2. ServerOK' /\ ClientsOK'
  BY RequestsKept DEF IInv, vars, prover
<1>3. RunsOK' /\ StagesOK' /\ OutcomeOK'
  BY RunsKept DEF IInv, TypeOK, vars
<1> QED  BY <1>1, <1>2, <1>3 DEF IInv

LEMMA NextPreserves == IInv /\ [Next]_vars => IInv'
<1> SUFFICES ASSUME IInv, Next PROVE IInv'
  BY StutterPreserves
<1>1. ASSUME NEW c \in Clients, Post(c) \/ Accept(c) \/ Refused(c) PROVE IInv'
  BY <1>1, PostPreserves, AcceptPreserves, RefusedPreserves
<1>2. ASSUME AcceptCancel \/ Serve PROVE IInv'
  BY <1>2, AcceptCancelPreserves, StartProvePreserves, RespondPreserves, AbortPreserves,
     ReadStatusPreserves, AnswerEmptyPreserves
  DEF Serve
<1>3. ASSUME NEW w \in Workers, Work(w) PROVE IInv'
  BY <1>3, ParsePreserves, WriteInputPreserves, CalculateWitnessPreserves, LoadWitnessPreserves,
     SetPubDataPreserves, TestCanceledPreserves, ProvePreserves, CatchPreserves, CalcFinishedPreserves
  DEF Work
<1>4. ASSUME Stop \/ Restart PROVE IInv'
  BY <1>4, StopPreserves, RestartPreserves
<1> QED  BY <1>1, <1>2, <1>3, <1>4 DEF Next

\* The invariant, and with it the types, hold in every reachable state of the
\* server, however it is interrupted and restarted.
THEOREM Invariant == Spec => []IInv
<1> QED  BY InitInv, NextPreserves, PTL DEF Spec

\* One calculation at a time: the status is busy exactly while a detached
\* thread runs, and no two do.
THEOREM OneCalculationAtATime == Spec => []OneCalculation
<1>1. IInv => OneCalculation
  <2> SUFFICES ASSUME IInv PROVE OneCalculation
    OBVIOUS
  <2>1. status = "busy" <=> Running # {}
    BY DEF IInv, RunsOK, Runs, Running
  <2>2. Cardinality(Running) <= 1
    <3>1. CASE Running = {}
      BY <3>1, FS_EmptySet
    <3>2. CASE Running # {}
      <4>1. PICK w \in Workers : Runs(w)
        BY <3>2 DEF Runs, Running
      <4>2. Running = {w}
        BY <4>1 DEF IInv, RunsOK, Runs, Running
      <4> QED  BY <4>2, FS_Singleton
    <3> QED  BY <3>1, <3>2
  <2> QED  BY <2>1, <2>2 DEF OneCalculation
<1> QED  BY <1>1, Invariant, PTL

\* A cancellation ends with the calculation it was answered for.
THEOREM CancelsStayWithTheirRun == Spec => []CancelStaysWithItsRun
<1>1. IInv => CancelStaysWithItsRun
  BY DEF IInv, RunsOK, Runs, Running, CancelStaysWithItsRun
<1> QED  BY <1>1, Invariant, PTL

\* A success is the proof of the last input accepted, unless its calculator
\* left an earlier witness in its place.
THEOREM SuccessIsOfAccepted == Spec => []SuccessProvesAccepted
<1>1. IInv => SuccessProvesAccepted
  BY DEF IInv, OutcomeOK, Provable, IsOf, Proved, SuccessProvesAccepted
<1> QED  BY <1>1, Invariant, PTL

-----------------------------------------------------------------------------
(* What clients are told.                                                  *)

LEMMA ReadStatusIsGood ==
  ASSUME IInv, ReadStatus, NEW c \in Clients
  PROVE  GoodAnswer(c)
<1> SUFFICES ASSUME client[c].at = "polling", client'[c].result # client[c].result,
                    accepted = [input |-> client[c].input, circuit |-> client[c].circuit],
                    Kind[client[c].input] = "good", client[c].circuit \in ZKeys \cap Calculators,
                    cancels = 0
             PROVE  \/ client'[c].result.status = "ready"
                    \/ client'[c].result = [status |-> "success", proof |-> client[c].input,
                                            pubData |-> client[c].input]
  BY DEF GoodAnswer
<1>1. server.for \in Clients /\ client \in [Clients -> ClientRecords]
  BY DEF IInv, TypeOK, ServerOK, ReadStatus
<1>2. Answered(server.for, Polled)
  BY ReadResult
<1>3. c = server.for /\ status # "busy" /\ client'[c].result = Polled
  BY <1>1, <1>2, ReadResult, AnsweredOne DEF Polled
<1>4. accepted.input = client[c].input /\ Provable
  BY DEF Provable
<1>5. status \in {"ready", "success"}
  BY <1>3, <1>4 DEF IInv, TypeOK, Statuses, Final, RunsOK, OutcomeOK
<1>6. status = "success" => proof = client[c].input /\ pubData = client[c].input
  BY <1>4 DEF IInv, OutcomeOK, Proved, IsOf
<1> QED  BY <1>3, <1>5, <1>6 DEF Polled

LEMMA AnswerEmptyIsGood ==
  ASSUME IInv, AnswerEmpty, NEW c \in Clients
  PROVE  GoodAnswer(c)
BY DEF IInv, TypeOK, ServerOK, AnswerEmpty, Answered, NoResult, GoodAnswer

\* Only an answer to a poll changes what a client knows.
LEMMA OtherStepsTellNothing ==
  ASSUME IInv, [Next]_vars, ~ReadStatus, ~AnswerEmpty, NEW c \in Clients
  PROVE  GoodAnswer(c)
<1> SUFFICES ASSUME client[c].at = "polling" PROVE client'[c].result = client[c].result
  BY DEF GoodAnswer
<1>1. ASSUME NEW d \in Clients, Post(d) PROVE client'[c].result = client[c].result
  BY <1>1 DEF IInv, TypeOK, Post
<1>2. ASSUME NEW d \in Clients, Refused(d) PROVE client'[c].result = client[c].result
  BY <1>2 DEF IInv, TypeOK, Refused
<1>3. ASSUME Respond PROVE client'[c].result = client[c].result
  BY <1>3 DEF IInv, TypeOK, ServerOK, Respond, Answered
<1>4. ASSUME ProcessEnds PROVE client'[c].result = client[c].result
  BY <1>4 DEF IInv, TypeOK, ProcessEnds, Disconnected
<1>5. ASSUME NEW w \in Workers, Work(w) PROVE client'[c].result = client[c].result
  BY <1>4, <1>5
  DEF Work, Parse, WriteInput, CalculateWitness, LoadWitness, SetPubData, TestCanceled, Prove, Catch, CalcFinished
<1>6. ASSUME \/ \E d \in Clients : Accept(d)
             \/ AcceptCancel \/ StartProve \/ Abort \/ Restart \/ UNCHANGED vars
      PROVE  client'[c].result = client[c].result
  BY <1>6 DEF Accept, AcceptCancel, StartProve, Abort, Restart, vars
<1> QED  BY <1>1, <1>2, <1>3, <1>4, <1>5, <1>6 DEF Next, Serve, Stop

\* Nobody whose good input was the last one accepted is told that it failed,
\* or was aborted when nobody canceled.
THEOREM GoodInputsAreAlwaysProved == Spec => GoodInputsAreProved
<1>1. IInv /\ [Next]_vars => [\A c \in Clients : GoodAnswer(c)]_vars
  BY ReadStatusIsGood, AnswerEmptyIsGood, OtherStepsTellNothing
<1> QED  BY <1>1, Invariant, PTL DEF Spec, GoodInputsAreProved

=============================================================================
