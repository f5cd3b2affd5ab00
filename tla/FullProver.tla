----------------------------- MODULE FullProver -----------------------------
(***************************************************************************)
(* The proof server (rapidsnark/src): FullProver, which proves one input   *)
(* at a time in a detached thread, behind an HTTP endpoint with one thread *)
(* (main_proofserver.cpp, proverapi.cpp), and the clients that post an     *)
(* input and poll its status (tools/request.js).  The process is restarted *)
(* when it ends (service/rapidsnark.service); its files stay.              *)
(***************************************************************************)
EXTENDS Naturals, FiniteSets

CONSTANTS
  Clients,       \* processes that run tools/request.js, once each
  Workers,       \* detached threads; a thread that has ended is used again
  Inputs,        \* bodies of POST /input
  Kind,          \* what an input is: see Kinds
  Circuits,      \* names in POST /input/:circuit
  ZKeys,         \* circuits the server was started with
  Calculators,   \* circuits whose witness calculator is in build/
  None,          \* an empty string, no thread, no file, a null json
  Empty,         \* the json {}
  MaxCancels,    \* bound: POST /cancel
  MaxStops       \* bound: the process is stopped from outside

\* The calculator writes the witness of a good input, and rejects one whose
\* signals do not satisfy the circuit: it ends before it writes.
Kinds == {"good", "rejected", "badjson", "empty"}

Server == "server"

ASSUME ServerAssumption ==
  /\ Kind \in [Inputs -> Kinds]
  /\ ZKeys \subseteq Circuits /\ Calculators \subseteq Circuits
  /\ None \notin Inputs \cup Circuits \cup Clients \cup Workers \cup {Server}
  /\ Empty # None
  /\ MaxCancels \in Nat /\ MaxStops \in Nat

VARIABLES
  status,      \* status
  mtx,         \* holder of mtx
  pending,     \* pendingInput, pendingCircuit
  executing,   \* executingInput, executingCircuit
  canceled,    \* canceled
  errString,   \* whether errString is not empty
  proof,       \* proof, as the input it proves
  pubData,     \* pubData, as the input whose signals it holds
  server,      \* the endpoint's thread
  worker,      \* the detached threads
  up,          \* the process runs
  inputFile,   \* build/input_<circuit>.json
  wtnsFile,    \* build/<circuit>.wtns, as the input it was computed from
  client,      \* the clients
  accepted,    \* the last input a thread was started for
  cancels, stops

prover == <<status, pending, executing, canceled, errString, proof, pubData>>
files == <<inputFile, wtnsFile>>
vars == <<prover, mtx, server, worker, up, files, client, accepted, cancels,
          stops>>

NoInput == [input |-> None, circuit |-> None]

\* What the constructor sets.
FreshProver ==
  /\ status' = "ready"
  /\ pending' = NoInput /\ executing' = NoInput
  /\ canceled' = FALSE /\ errString' = FALSE
  /\ proof' = None /\ pubData' = None

Idle == [at |-> "idle", for |-> None, reads |-> 0]
Ended == [at |-> "ended", circuit |-> None, wtns |-> None]
NoResult == [status |-> None, proof |-> None, pubData |-> None]

Init ==
  /\ status = "ready" /\ mtx = None
  /\ pending = NoInput /\ executing = NoInput
  /\ canceled = FALSE /\ errString = FALSE /\ proof = None /\ pubData = None
  /\ server = Idle
  /\ worker = [w \in Workers |-> Ended]
  /\ up = TRUE
  /\ inputFile = [c \in Circuits |-> None]
  /\ wtnsFile = [c \in Circuits |-> None]
  /\ client = [c \in Clients |->
                [at |-> "new", input |-> None, circuit |-> None,
                 result |-> NoResult]]
  /\ accepted = NoInput
  /\ cancels = 0 /\ stops = 0

-----------------------------------------------------------------------------
(* checkPending, called with mtx held, from values its caller has set.     *)

\* Mutation of CheckPending: the status is left as it was.
CheckPendingStill(st, pend, canc, err, exec, workers) ==
  IF st # "busy" /\ pend.input # None /\ pend.circuit # None
  THEN /\ status' = st
       /\ executing' = pend
       /\ pending' = NoInput
       /\ errString' = FALSE /\ canceled' = FALSE /\ proof' = None
       /\ accepted' = pend
       /\ \E w \in Workers :
            /\ workers[w].at = "ended"
            /\ worker' = [workers EXCEPT ![w].at = "parse"]
  ELSE /\ status' = st /\ executing' = exec /\ pending' = pend
       /\ errString' = err /\ canceled' = canc
       /\ worker' = workers
       /\ UNCHANGED <<proof, accepted>>

\* Mutation of CheckPending: the error of the last calculation is kept.
CheckPendingKeepsError(st, pend, canc, err, exec, workers) ==
  IF st # "busy" /\ pend.input # None /\ pend.circuit # None
  THEN /\ status' = "busy"
       /\ executing' = pend
       /\ pending' = NoInput
       /\ errString' = err /\ canceled' = FALSE /\ proof' = None
       /\ accepted' = pend
       /\ \E w \in Workers :
            /\ workers[w].at = "ended"
            /\ worker' = [workers EXCEPT ![w].at = "parse"]
  ELSE /\ status' = st /\ executing' = exec /\ pending' = pend
       /\ errString' = err /\ canceled' = canc
       /\ worker' = workers
       /\ UNCHANGED <<proof, accepted>>

CheckPending(st, pend, canc, err, exec, workers) ==
  IF st # "busy" /\ pend.input # None /\ pend.circuit # None
  THEN /\ status' = "busy"
       /\ executing' = pend
       /\ pending' = NoInput
       /\ errString' = FALSE /\ canceled' = FALSE /\ proof' = None
       /\ accepted' = pend
       /\ \E w \in Workers :
            /\ workers[w].at = "ended"
            /\ worker' = [workers EXCEPT ![w].at = "parse"]
  ELSE /\ status' = st /\ executing' = exec /\ pending' = pend
       /\ errString' = err /\ canceled' = canc
       /\ worker' = workers
       /\ UNCHANGED <<proof, accepted>>

-----------------------------------------------------------------------------
(* A client: it posts, and polls until the status is not busy.             *)

Post(c) ==
  /\ client[c].at = "new"
  /\ \E i \in Inputs, k \in Circuits :
       client' = [client EXCEPT ![c].at = "posting", ![c].input = i,
                                ![c].circuit = k]
  /\ UNCHANGED <<prover, mtx, server, worker, up, files, accepted, cancels,
                 stops>>

\* The answer to a post is not kept; the first answer to a poll that is not
\* busy is the client's result.  A connection that breaks ends the client.
Answered(c, result) ==
  client' = [client EXCEPT
    ![c].at = IF @ = "posting" \/ result.status = "busy"
              THEN "polling" ELSE "done",
    ![c].result = IF client[c].at = "posting" \/ result.status = "busy"
                  THEN @ ELSE result]

Disconnected ==
  client' = [c \in Clients |->
              IF client[c].at \in {"posting", "polling"} /\ server.for = c
              THEN [client[c] EXCEPT !.at = "done"] ELSE client[c]]

\* Nobody listens while the process is down.
Refused(c) ==
  /\ ~up /\ client[c].at \in {"posting", "polling"}
  /\ client' = [client EXCEPT ![c].at = "done"]
  /\ UNCHANGED <<prover, mtx, server, worker, up, files, accepted, cancels,
                 stops>>

-----------------------------------------------------------------------------
(* The endpoint's thread handles one request at a time.                    *)

Accept(c) ==
  /\ up /\ server.at = "idle"
  /\ client[c].at \in {"posting", "polling"}
  /\ server' = [at |-> IF client[c].at = "posting" THEN "start" ELSE "status",
                for |-> c, reads |-> 0]
  /\ UNCHANGED <<prover, mtx, worker, up, files, client, accepted, cancels,
                 stops>>

AcceptCancel ==
  /\ up /\ server.at = "idle" /\ cancels < MaxCancels
  /\ cancels' = cancels + 1
  /\ server' = [Idle EXCEPT !.at = "cancel"]
  /\ UNCHANGED <<prover, mtx, worker, up, files, client, accepted, stops>>

\* startProve.  An empty body is an empty pendingInput.  When a proof is being
\* computed it calls abort(), which locks the mutex its caller holds: a
\* std::mutex is not recursive, and no step leaves "abort".
StartProve ==
  /\ server.at = "start" /\ mtx = None
  /\ LET i == client[server.for].input
         pend == [input |-> IF Kind[i] = "empty" THEN None ELSE i,
                  circuit |-> client[server.for].circuit]
     IN  \/ /\ status = "busy"
            /\ pending' = pend
            /\ mtx' = Server
            /\ server' = [server EXCEPT !.at = "abort"]
            /\ UNCHANGED <<status, executing, canceled, errString, proof,
                           worker, accepted>>
         \/ /\ status # "busy"
            /\ CheckPending(status, pend, canceled, errString, executing, worker)
            /\ server' = [server EXCEPT !.at = "ok"]
            /\ UNCHANGED mtx
  /\ UNCHANGED <<pubData, up, files, client, cancels, stops>>

Respond ==
  /\ server.at = "ok"
  /\ server' = Idle
  /\ IF server.for = None THEN UNCHANGED client
     ELSE Answered(server.for, NoResult)
  /\ UNCHANGED <<prover, mtx, worker, up, files, accepted, cancels, stops>>

\* Mutation of Abort: the status is not looked at.
AbortAlways ==
  /\ server.at = "cancel" /\ mtx = None
  /\ canceled' = TRUE
  /\ server' = [server EXCEPT !.at = "ok"]
  /\ UNCHANGED <<status, pending, executing, errString, proof, pubData, mtx,
                 worker, up, files, client, accepted, cancels, stops>>

\* abort(), for POST /cancel.
Abort ==
  /\ server.at = "cancel" /\ mtx = None
  /\ canceled' = (canceled \/ status = "busy")
  /\ server' = [server EXCEPT !.at = "ok"]
  /\ UNCHANGED <<status, pending, executing, errString, proof, pubData, mtx,
                 worker, up, files, client, accepted, cancels, stops>>

\* getStatus compares status with one value after the other, without mtx.
Compared == <<"ready", "aborted", "failed", "success", "busy">>

ReadStatus ==
  /\ server.at = "status" /\ server.reads < 5
  /\ IF status = Compared[server.reads + 1]
     THEN /\ Answered(server.for,
               [status |-> status,
                proof |-> IF status = "success" THEN proof ELSE None,
                pubData |-> IF status = "success" THEN pubData ELSE None])
          /\ server' = Idle
     ELSE /\ server' = [server EXCEPT !.reads = @ + 1]
          /\ UNCHANGED client
  /\ UNCHANGED <<prover, mtx, worker, up, files, accepted, cancels, stops>>

\* None of the comparisons held: the answer is {}.
AnswerEmpty ==
  /\ server.at = "status" /\ server.reads = 5
  /\ Answered(server.for, [NoResult EXCEPT !.status = Empty])
  /\ server' = Idle
  /\ UNCHANGED <<prover, mtx, worker, up, files, accepted, cancels, stops>>

-----------------------------------------------------------------------------
(* thread_calculateProve.                                                  *)

\* The process ends: an exception nobody catches, a bad pointer, or a stop
\* from outside.  Its threads and its memory are gone.
ProcessEnds ==
  /\ up' = FALSE
  /\ mtx' = None
  /\ server' = Idle
  /\ worker' = [w \in Workers |-> Ended]
  /\ FreshProver
  /\ Disconnected
  /\ UNCHANGED <<files, accepted, cancels>>

At(w, place) == worker[w].at = place
Goto(w, place) == worker' = [worker EXCEPT ![w].at = place]

\* json::parse throws json::parse_error, which is no std::runtime_error.
Parse(w) ==
  /\ At(w, "parse")
  /\ IF Kind[executing.input] = "badjson"
     THEN ProcessEnds /\ UNCHANGED stops
     ELSE /\ worker' = [worker EXCEPT ![w].at = "write",
                                      ![w].circuit = executing.circuit]
          /\ UNCHANGED <<prover, mtx, server, up, files, client, accepted,
                         cancels, stops>>

WriteInput(w) ==
  /\ At(w, "write")
  /\ inputFile' = [inputFile EXCEPT ![worker[w].circuit] = executing.input]
  /\ Goto(w, "witness")
  /\ UNCHANGED <<prover, mtx, server, up, wtnsFile, client, accepted, cancels,
                 stops>>

\* The calculator's exit code is printed and not looked at.
CalculateWitness(w) ==
  /\ At(w, "witness")
  /\ LET c == worker[w].circuit IN
       IF c \in Calculators /\ Kind[inputFile[c]] = "good"
       THEN wtnsFile' = [wtnsFile EXCEPT ![c] = inputFile[c]]
       ELSE UNCHANGED wtnsFile
  /\ Goto(w, "load")
  /\ UNCHANGED <<prover, mtx, server, up, inputFile, client, accepted,
                 cancels, stops>>

\* openExisting throws a std::system_error when there is no witness.
LoadWitness(w) ==
  /\ At(w, "load")
  /\ LET wtns == wtnsFile[worker[w].circuit] IN
       worker' = [worker EXCEPT ![w].at = IF wtns = None THEN "catch" ELSE "public",
                                ![w].wtns = wtns]
  /\ UNCHANGED <<prover, mtx, server, up, files, client, accepted, cancels,
                 stops>>

\* The header of a circuit the server has no zkey of is a null pointer.
SetPubData(w) ==
  /\ At(w, "public")
  /\ IF worker[w].circuit \notin ZKeys
     THEN ProcessEnds /\ UNCHANGED stops
     ELSE /\ pubData' = worker[w].wtns
          /\ Goto(w, "prove?")
          /\ UNCHANGED <<status, pending, executing, canceled, errString, proof,
                         mtx, server, up, files, client, accepted, cancels,
                         stops>>

\* isCanceled, under mtx, decides whether prove is called.
TestCanceled(w) ==
  /\ At(w, "prove?") /\ mtx = None
  /\ Goto(w, IF canceled THEN "avoid" ELSE "prove")
  /\ UNCHANGED <<prover, mtx, server, up, files, client, accepted, cancels,
                 stops>>

Prove(w) ==
  /\ worker[w].at \in {"prove", "avoid"}
  /\ proof' = IF At(w, "prove") THEN worker[w].wtns ELSE None
  /\ Goto(w, "finish")
  /\ UNCHANGED <<status, pending, executing, canceled, errString, pubData, mtx,
                 server, up, files, client, accepted, cancels, stops>>

\* catch (std::runtime_error e).
Catch(w) ==
  /\ At(w, "catch") /\ mtx = None
  /\ errString' = (errString \/ ~canceled)
  /\ Goto(w, "finish")
  /\ UNCHANGED <<status, pending, executing, canceled, proof, pubData, mtx,
                 server, up, files, client, accepted, cancels, stops>>

\* Mutation of CalcFinished: the error is not looked at.
CalcFinishedAnyhow(w) ==
  /\ At(w, "finish") /\ mtx = None
  /\ CheckPending(
       IF canceled THEN "aborted" ELSE "success",
       pending, FALSE, errString, [executing EXCEPT !.input = None],
       [worker EXCEPT ![w] = Ended])
  /\ UNCHANGED <<pubData, mtx, server, up, files, client, cancels, stops>>

\* Mutation of CalcFinished: a canceled calculation leaves the status as it was.
CalcFinishedBusy(w) ==
  /\ At(w, "finish") /\ mtx = None
  /\ CheckPending(
       IF canceled THEN status ELSE IF errString THEN "failed" ELSE "success",
       pending, FALSE, errString, [executing EXCEPT !.input = None],
       [worker EXCEPT ![w] = Ended])
  /\ UNCHANGED <<pubData, mtx, server, up, files, client, cancels, stops>>

CalcFinished(w) ==
  /\ At(w, "finish") /\ mtx = None
  /\ CheckPending(
       IF canceled THEN "aborted" ELSE IF errString THEN "failed" ELSE "success",
       pending, FALSE, errString, [executing EXCEPT !.input = None],
       [worker EXCEPT ![w] = Ended])
  /\ UNCHANGED <<pubData, mtx, server, up, files, client, cancels, stops>>

Work(w) ==
  \/ Parse(w) \/ WriteInput(w) \/ CalculateWitness(w) \/ LoadWitness(w)
  \/ SetPubData(w) \/ TestCanceled(w) \/ Prove(w) \/ Catch(w) \/ CalcFinished(w)

-----------------------------------------------------------------------------
\* The process is stopped from outside, and systemd starts it again.
Stop ==
  /\ up /\ stops < MaxStops
  /\ stops' = stops + 1
  /\ ProcessEnds

Restart ==
  /\ ~up
  /\ up' = TRUE
  /\ UNCHANGED <<prover, mtx, server, worker, files, client, accepted, cancels,
                 stops>>

Serve == StartProve \/ Respond \/ Abort \/ ReadStatus \/ AnswerEmpty

Next ==
  \/ \E c \in Clients : Post(c) \/ Accept(c) \/ Refused(c)
  \/ AcceptCancel
  \/ Serve
  \/ \E w \in Workers : Work(w)
  \/ Stop \/ Restart

Spec == Init /\ [][Next]_vars

\* The threads run, the process is restarted (Restart=always), and the
\* endpoint does not leave a client's request for ever behind the others'.
Fairness ==
  /\ WF_vars(Serve)
  /\ \A w \in Workers : WF_vars(Work(w))
  /\ \A c \in Clients : SF_vars(Accept(c))
  /\ WF_vars(Restart)

FairSpec == Spec /\ Fairness

-----------------------------------------------------------------------------
(* Properties.                                                             *)

Running == {w \in Workers : worker[w].at # "ended"}
Final == {"aborted", "failed", "success"}

\* The threads share the files of a circuit, pubData and proof without a lock:
\* one is running exactly while the status is busy, and never two.
OneCalculation ==
  /\ Cardinality(Running) <= 1
  /\ status = "busy" <=> Running # {}

\* A cancellation belongs to the calculation it was answered for: the flag is
\* never left set for the next one, wherever between isCanceled and
\* calcFinished it comes.
CancelStaysWithItsRun == canceled => Running # {}

\* A status of success comes with a proof and public signals of one witness,
\* and the input it is of is the last one accepted, unless the calculator
\* rejected that one: its exit code is not looked at, and the witness an
\* earlier input left in build/ is proved in its place.
SuccessProvesAccepted ==
  status = "success" =>
    /\ proof # None /\ pubData = proof
    /\ proof # accepted.input =>
         \/ Kind[accepted.input] = "rejected"
         \/ accepted.circuit \notin Calculators

\* A client whose input is good and was the last one accepted is never told
\* that it failed or was aborted when nobody canceled: it gets the proof of its
\* own input, or "ready" from a process started anew, or an answer without a
\* status because the calculation ended while the status was compared.
GoodAnswer(c) ==
  LET mine == client[c].input
      result == client'[c].result
  IN  /\ client[c].at = "polling" /\ result # client[c].result
      /\ accepted = [input |-> mine, circuit |-> client[c].circuit]
      /\ Kind[mine] = "good"
      /\ client[c].circuit \in ZKeys \cap Calculators
      /\ cancels = 0
      => \/ result.status = "ready"
         \/ result.status = Empty /\ status \in Final
         \/ result = [status |-> "success", proof |-> mine, pubData |-> mine]
GoodInputsAreProved == [][\A c \in Clients : GoodAnswer(c)]_vars

\* The loop of tools/request.js ends: the status does not stay busy, and the
\* endpoint does not stop answering.
PollingEnds ==
  \A c \in Clients : (client[c].at = "posting") ~> (client[c].at = "done")

\* It ends unless an input was posted while another was being proved: nothing
\* else blocks the endpoint or the calculation.
SelfDeadlock == server.at = "abort"
PollingEndsOrDeadlock ==
  \A c \in Clients :
    (client[c].at = "posting") ~> (client[c].at = "done" \/ SelfDeadlock)

=============================================================================
