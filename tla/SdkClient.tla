----------------------------- MODULE SdkClient -----------------------------
(***************************************************************************)
(* The JavaScript client's queue (logwolf-client/js/lib/client.ts):        *)
(* capture, flush, destroy, and the batches flushQueue sends with retries  *)
(* to POST /logs/batch.                                                    *)
(*                                                                         *)
(* JavaScript runs one callback at a time, so each action is one stretch   *)
(* of code between two awaits. A settled promise runs its continuations    *)
(* before the next timer or response is looked at; other continuations,    *)
(* the application's own, may come in between and call the client.         *)
(***************************************************************************)
EXTENDS Naturals, Sequences, SequencesExt

CONSTANTS
  NumEvents,     \* how many events are captured; one sampled out never is
  Unencodable,   \* events toObject or JSON.stringify throws on
  Calls,         \* calls of flush
  MaxBatchSize,  \* maxBatchSize
  MaxQueueSize,  \* maxQueueSize
  MaxRetries     \* retryDelaysMs.length

Events == 1..NumEvents \* in the order they are captured

ASSUME SdkClientAssumption ==
  /\ NumEvents \in Nat
  /\ Unencodable \subseteq Events
  /\ MaxBatchSize \in Nat \ {0}
  /\ MaxQueueSize \in Nat \ {0}
  /\ MaxRetries \in Nat

VARIABLES
  captured,  \* how many events have been captured
  queue,     \* this.queue
  timer,     \* whether this.flushTimer is set
  promise,   \* this.flushPromise: null, or where sendBatchWithRetry is
  batch,     \* the batch that flushPromise sends
  attempt,   \* sendBatchWithRetry's attempt
  arrived,   \* the events of the batch the server took in this attempt
  late,      \* how many abandoned requests may still bring each event
  received,  \* how often the server took each event
  reports,   \* how often onDropped named each event
  failures,  \* how many attempts that carried each event failed (history)
  call,      \* where each call of flush is
  asked      \* the events each call of flush was made for (history)

sendVars == <<promise, batch, attempt, arrived>>
serverVars == <<late, received>>
callVars == <<call, asked>>
vars == <<captured, queue, timer, sendVars, serverVars, reports, failures, callVars>>

Promises == {"null", "fetching", "sleeping", "resolved", "rejected"}
CallStates == {"none", "waiting", "resuming", "flushing", "done"}

TypeOK ==
  /\ captured \in 0..NumEvents
  /\ queue \in Seq(Events)
  /\ timer \in BOOLEAN
  /\ promise \in Promises
  /\ batch \in Seq(Events)
  /\ attempt \in 0..MaxRetries
  /\ arrived \in SUBSET Events
  /\ late \in [Events -> Nat]
  /\ received \in [Events -> Nat]
  /\ reports \in [Events -> Nat]
  /\ failures \in [Events -> Nat]
  /\ call \in [Calls -> CallStates]
  /\ asked \in [Calls -> SUBSET Events]

Init ==
  /\ captured = 0 /\ queue = <<>> /\ timer = FALSE
  /\ promise = "null" /\ batch = <<>> /\ attempt = 0 /\ arrived = {}
  /\ late = [e \in Events |-> 0] /\ received = [e \in Events |-> 0]
  /\ reports = [e \in Events |-> 0] /\ failures = [e \in Events |-> 0]
  /\ call = [c \in Calls |-> "none"] /\ asked = [c \in Calls |-> {}]

(* One more for each event of S. *)
CountedIn(count, S) == [e \in Events |-> IF e \in S THEN count[e] + 1 ELSE count[e]]

-----------------------------------------------------------------------------
(* The queue.                                                              *)

(* Mutant: the batch is copied from the queue (slice for splice).         *)
FlushQueueCopies(q) ==
  /\ queue' = q
  /\ \/ /\ promise # "null" \/ q = <<>>
        /\ UNCHANGED sendVars
     \/ /\ promise = "null" /\ q # <<>>
        /\ batch' = q /\ attempt' = 0 /\ arrived' = {}
        /\ promise' = IF ToSet(q) \cap Unencodable = {} THEN "fetching" ELSE "rejected"

(* Nothing to do while a flush is under way or the queue q is empty; else   *)
(* all of q becomes the batch, which sendBatchWithRetry encodes at once.    *)
FlushQueue(q) ==
  \/ /\ promise # "null" \/ q = <<>>
     /\ queue' = q /\ UNCHANGED sendVars
  \/ /\ promise = "null" /\ q # <<>>
     /\ queue' = <<>> /\ batch' = q
     /\ attempt' = 0 /\ arrived' = {}
     /\ promise' = IF ToSet(q) \cap Unencodable = {} THEN "fetching" ELSE "rejected"

(* capture, of an event that is not sampled out: the oldest event makes     *)
(* room in a full queue, the first capture starts the timer, and a queue of *)
(* maxBatchSize is flushed.                                                 *)
Capture ==
  LET e == captured + 1
      full == Len(queue) >= MaxQueueSize
      q == Append(IF full THEN Tail(queue) ELSE queue, e)
  IN /\ captured < NumEvents
     /\ captured' = captured + 1
     /\ reports' = IF full THEN CountedIn(reports, {Head(queue)}) ELSE reports
     /\ timer' = TRUE
     /\ IF Len(q) >= MaxBatchSize THEN FlushQueue(q) ELSE queue' = q /\ UNCHANGED sendVars
     /\ UNCHANGED <<serverVars, failures, callVars>>

(* No promise has settled whose continuations have yet to run.             *)
NoMicrotask ==
  promise \notin {"resolved", "rejected"} /\ \A c \in Calls : call[c] # "resuming"

(* flushTimer fires. *)
Tick ==
  /\ timer /\ NoMicrotask
  /\ FlushQueue(queue)
  /\ UNCHANGED <<captured, timer, serverVars, reports, failures, callVars>>

Destroy ==
  /\ timer /\ timer' = FALSE
  /\ UNCHANGED <<captured, queue, sendVars, serverVars, reports, failures, callVars>>

(* The last line of flush: what is in the queue is flushed and waited for,  *)
(* except when a flush is under way, as flushQueue then answers at once.    *)
FlushRest(c) ==
  /\ FlushQueue(queue)
  /\ call' = [call EXCEPT ![c] =
       IF promise = "null" /\ queue # <<>> THEN "flushing" ELSE "done"]

(* Mutant: flush does not wait for the flush under way.                    *)
FlushWithoutWaiting(c) ==
  /\ call[c] = "none"
  /\ asked' = [asked EXCEPT ![c] = ToSet(queue) \cup ToSet(batch)]
  /\ FlushRest(c)
  /\ UNCHANGED <<captured, timer, serverVars, reports, failures>>

(* flush is called: it waits for the flush under way, if there is one.     *)
Flush(c) ==
  /\ call[c] = "none"
  /\ asked' = [asked EXCEPT ![c] = ToSet(queue) \cup ToSet(batch)]
  /\ \/ /\ promise # "null"
        /\ call' = [call EXCEPT ![c] = "waiting"]
        /\ UNCHANGED <<queue, sendVars>>
     \/ promise = "null" /\ FlushRest(c)
  /\ UNCHANGED <<captured, timer, serverVars, reports, failures>>

ResumeFlush(c) ==
  /\ call[c] = "resuming"
  /\ FlushRest(c)
  /\ UNCHANGED <<captured, timer, serverVars, reports, failures, asked>>

-----------------------------------------------------------------------------
(* A batch and its attempts.                                               *)

(* The server (broker publishEvents) takes the events one by one.          *)
ServerTakes(e) ==
  /\ promise = "fetching" /\ e \in ToSet(batch) \ arrived
  /\ arrived' = arrived \cup {e}
  /\ received' = CountedIn(received, {e})
  /\ UNCHANGED <<captured, queue, timer, promise, batch, attempt, late, reports,
                 failures, callVars>>

Answered == promise = "fetching" /\ NoMicrotask

(* response.ok. *)
AnswerOk ==
  /\ Answered /\ arrived = ToSet(batch)
  /\ promise' = "resolved"
  /\ UNCHANGED <<captured, queue, timer, batch, attempt, arrived, serverVars, reports,
                 failures, callVars>>

(* 401 or 403: reported, not retried.                                      *)
AnswerDenied ==
  /\ Answered /\ arrived = {}
  /\ promise' = "resolved"
  /\ reports' = CountedIn(reports, ToSet(batch))
  /\ UNCHANGED <<captured, queue, timer, batch, attempt, arrived, serverVars,
                 failures, callVars>>

(* Mutant: one attempt too many (<= for <).                                *)
AttemptFailsOnceMore ==
  /\ promise' = IF attempt <= MaxRetries THEN "sleeping" ELSE "rejected"
  /\ failures' = CountedIn(failures, ToSet(batch))
  /\ UNCHANGED <<captured, queue, timer, batch, attempt, arrived, received, reports, callVars>>

(* The attempt failed: another follows after its delay, or none is left.   *)
AttemptFails ==
  /\ promise' = IF attempt < MaxRetries THEN "sleeping" ELSE "rejected"
  /\ failures' = CountedIn(failures, ToSet(batch))
  /\ UNCHANGED <<captured, queue, timer, batch, attempt, arrived, received, reports, callVars>>

(* Any other status, a batch the broker published in part included.        *)
AnswerError ==
  /\ Answered
  /\ AttemptFails
  /\ UNCHANGED late

(* Mutant: fetch without the AbortController.                              *)
RequestFailsNever == FALSE /\ UNCHANGED vars

(* requestTimeoutMs passed or the network failed: what the server had not   *)
(* taken may still reach it.                                                *)
RequestFails ==
  /\ Answered
  /\ AttemptFails
  /\ late' = CountedIn(late, ToSet(batch) \ arrived)

(* retryDelaysMs[attempt] has passed. *)
NextAttempt ==
  /\ promise = "sleeping" /\ NoMicrotask
  /\ promise' = "fetching" /\ attempt' = attempt + 1 /\ arrived' = {}
  /\ UNCHANGED <<captured, queue, timer, batch, serverVars, reports, failures, callVars>>

(* A request the client gave up on reaches the server.                     *)
LateArrival(e) ==
  /\ late[e] > 0
  /\ late' = [late EXCEPT ![e] = @ - 1]
  /\ received' = CountedIn(received, {e})
  /\ UNCHANGED <<captured, queue, timer, sendVars, reports, failures, callVars>>

(* Mutant: flushPromise is reset by then, not finally.                     *)
FlushEndsOnSuccess ==
  /\ promise = "resolved"
  /\ promise' = "null" /\ batch' = <<>> /\ attempt' = 0 /\ arrived' = {}
  /\ call' = [c \in Calls |->
       IF call[c] = "waiting" THEN "resuming"
       ELSE IF call[c] = "flushing" THEN "done" ELSE call[c]]
  /\ UNCHANGED <<captured, queue, timer, serverVars, reports, failures, asked>>

(* Mutant: no onDropped in catch.                                          *)
FlushEndsUnreported ==
  /\ promise \in {"resolved", "rejected"}
  /\ promise' = "null" /\ batch' = <<>> /\ attempt' = 0 /\ arrived' = {}
  /\ call' = [c \in Calls |->
       IF call[c] = "waiting" THEN "resuming"
       ELSE IF call[c] = "flushing" THEN "done" ELSE call[c]]
  /\ UNCHANGED <<captured, queue, timer, serverVars, reports, failures, asked>>

(* flushQueue's catch reports a batch that failed, its finally resets       *)
(* flushPromise; then the calls of flush that wait for it go on.            *)
FlushEnds ==
  /\ promise \in {"resolved", "rejected"}
  /\ promise' = "null" /\ batch' = <<>> /\ attempt' = 0 /\ arrived' = {}
  /\ reports' = IF promise = "rejected" THEN CountedIn(reports, ToSet(batch)) ELSE reports
  /\ call' = [c \in Calls |->
       IF call[c] = "waiting" THEN "resuming"
       ELSE IF call[c] = "flushing" THEN "done" ELSE call[c]]
  /\ UNCHANGED <<captured, queue, timer, serverVars, failures, asked>>

-----------------------------------------------------------------------------
ServerNext == \E e \in Events : ServerTakes(e) \/ LateArrival(e)

SendNext == AnswerOk \/ AnswerDenied \/ AnswerError \/ RequestFails \/ NextAttempt \/ FlushEnds

Next ==
  \/ Capture \/ (\E c \in Calls : Flush(c) \/ ResumeFlush(c))
  \/ Tick \/ Destroy
  \/ SendNext \/ ServerNext

Spec == Init /\ [][Next]_vars

(* The event loop runs what is due: timers (flushTimer, the retry delays,   *)
(* requestTimeoutMs) and continuations. Nothing is assumed of the server.   *)
FairSpec ==
  /\ Spec
  /\ WF_vars(Tick) /\ WF_vars(NextAttempt) /\ WF_vars(RequestFails) /\ WF_vars(FlushEnds)
  /\ \A c \in Calls : WF_vars(ResumeFlush(c))
=============================================================================
