---------------------------- MODULE WorkerExchange ----------------------------
(***************************************************************************)
(* GP-E: the messages between the supervisor of an attempt and a worker    *)
(* (gpe_protocol.py, gpe_adapter.py), over a wire that loses, repeats,     *)
(* reorders and garbles them.                                              *)
(*                                                                         *)
(* A worker request is named after its attempt and sealed with everything  *)
(* in it, so two requests of one attempt with different context have one   *)
(* id and two digests.  A supervisor that dies loses its request and makes *)
(* another one for the attempt that is still started; what is unclear is   *)
(* in the job's ledger, from which it passes the flag on.                  *)
(***************************************************************************)
EXTENDS Naturals, FiniteSets

CONSTANTS
  Attempts,   \* attempts of a job
  Contexts,   \* context packages the system may assemble for them
  Workers,    \* identities of workers
  Garbage,    \* a message that cannot be decoded
  Nothing,    \* no request, no result
  MaxMessages \* requests delivered, and results sent, in all

Claims == {"completed", "failed"}
ErrorCategories == {"timed_out", "cancelled", "context_too_large", "unknown_failure"}
Statuses ==
  Claims \cup {"partial", "blocked", "timed_out", "cancelled", "context_insufficient",
               "capability_denied", "execution_unknown"}

ASSUME ExchangeAssumption == MaxMessages \in Nat /\ Nothing \notin Statuses

VARIABLES
  outgoing,   \* the request the supervisor holds, and the worker it is for
  invoked,    \* requests that workers were given
  answers,    \* results that workers sent: each may arrive never or often
  unclear,    \* attempts of which it is durably unknown what they did
  settled,    \* attempts with a recorded result
  outcome     \* the status of the result for the held request

exchangeVars == <<outgoing, invoked, answers, unclear, settled, outcome>>

ExchangeInit ==
  /\ outgoing = Nothing /\ outcome = Nothing
  /\ invoked = {} /\ answers = {} /\ unclear = {} /\ settled = {}

\* Only an attempt that is started is given a request.
NewRequest(attempt, context, worker) ==
  /\ outgoing = Nothing /\ attempt \notin settled
  /\ outgoing' = [attempt |-> attempt, context |-> context, worker |-> worker]
  /\ UNCHANGED <<invoked, answers, unclear, settled, outcome>>

\* prepare_context: the bytes delivered are those of the sealed context.
Invoke(package) ==
  /\ outgoing \notin {Nothing} \cup invoked /\ outcome = Nothing
  /\ package = outgoing.context /\ Cardinality(invoked) < MaxMessages
  /\ invoked' = invoked \cup {outgoing}
  /\ UNCHANGED <<outgoing, answers, unclear, settled, outcome>>

\* normalize_adapter_error
NormalizedStatus(category, mayHaveRun) ==
  CASE mayHaveRun -> "execution_unknown"
    [] ~mayHaveRun /\ category \in {"timed_out", "cancelled"} -> category
    [] ~mayHaveRun /\ category = "context_too_large" -> "context_insufficient"
    [] ~mayHaveRun /\ category = "unknown_failure" -> "failed"

\* What GP-D keeps of a result: a new attempt, or a reconciliation first.
Record(status) ==
  /\ outcome' = status
  /\ settled' = settled \cup {outgoing.attempt}
  /\ unclear' = IF status = "execution_unknown" THEN unclear \cup {outgoing.attempt}
                ELSE unclear

\* The adapter reports an error of its own.
AdapterFails(category) ==
  /\ outgoing # Nothing /\ outcome = Nothing
  /\ Record(NormalizedStatus(category,
       outgoing \in invoked \/ outgoing.attempt \in unclear))
  /\ UNCHANGED <<outgoing, invoked, answers>>

\* The supervisor saw a timeout, a lost connection or a crash of the worker.
ObserveUncertainty ==
  /\ outgoing \in invoked /\ outcome = Nothing
  /\ unclear' = unclear \cup {outgoing.attempt}
  /\ UNCHANGED <<outgoing, invoked, answers, settled, outcome>>

\* create_worker_result, in the worker.
Answer(given, claim) ==
  /\ Cardinality(answers) < MaxMessages
  /\ answers' = answers \cup {[to |-> given, status |-> claim]}
  /\ UNCHANGED <<outgoing, invoked, unclear, settled, outcome>>

\* Mutant: the digest of the request is not compared.
ResultMatchesId(message) ==
  /\ message.to.attempt = outgoing.attempt
  /\ message.to.worker = outgoing.worker

\* validate_worker_result, of a message that could be decoded: request id,
\* request digest, attempt and worker are those of the held request.
ResultMatches(message) == message.to = outgoing

\* receive_worker_result
ReceivedStatus(message) ==
  IF message = Garbage THEN NormalizedStatus("unknown_failure", TRUE)
  ELSE IF ~ResultMatches(message) THEN NormalizedStatus("unknown_failure", TRUE)
  ELSE IF outgoing.attempt \in unclear THEN NormalizedStatus("unknown_failure", TRUE)
  ELSE message.status

Receive(message) ==
  /\ outgoing \in invoked /\ outcome = Nothing
  /\ Record(ReceivedStatus(message))
  /\ UNCHANGED <<outgoing, invoked, answers>>

\* The supervisor goes on with another request, or dies.
DropRequest ==
  /\ outgoing # Nothing
  /\ outgoing' = Nothing /\ outcome' = Nothing
  /\ UNCHANGED <<invoked, answers, unclear, settled>>

ExchangeNext ==
  \/ \E a \in Attempts, c \in Contexts, w \in Workers : NewRequest(a, c, w)
  \/ \E package \in Contexts : Invoke(package)
  \/ \E category \in ErrorCategories : AdapterFails(category)
  \/ ObserveUncertainty
  \/ \E given \in invoked, claim \in Claims : Answer(given, claim)
  \/ \E message \in answers \cup {Garbage} : Receive(message)
  \/ DropRequest

ExchangeSpec == ExchangeInit /\ [][ExchangeNext]_exchangeVars

\* A status that claims to know what happened is right: the worker the request
\* was sent to said it of this very request and nothing cast doubt on it, or
\* the worker was never given the request.  A result that is late, repeated,
\* of another request of the same attempt or of another worker never becomes
\* the result of this one (gpe_adapter.py, receive_worker_result).
OutcomeIsEarned ==
  outcome \notin {Nothing, "execution_unknown"} =>
    /\ outgoing.attempt \notin unclear
    /\ \/ [to |-> outgoing, status |-> outcome] \in answers
       \/ outgoing \notin invoked

\* However often the supervisor dies and assembles the request anew: once the
\* result of an attempt is recorded, no worker is given a request of it again.
NoRunAfterResult ==
  [][\A r \in invoked' \ invoked : r.attempt \notin settled]_exchangeVars
===============================================================================
