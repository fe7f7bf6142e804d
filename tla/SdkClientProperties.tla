------------------------ MODULE SdkClientProperties ------------------------
(* What the JavaScript client has to guarantee.                            *)
EXTENDS SdkClient

(* No event vanishes: one that capture took is queued, being sent, taken by *)
(* the server or named to onDropped (enqueue, flushQueue).                  *)
NothingVanishes ==
  \A e \in 1..captured :
    e \in ToSet(queue) \cup ToSet(batch) \/ received[e] > 0 \/ reports[e] > 0

(* The server gets an event twice only if an attempt that carried it failed *)
(* (sendBatchWithRetry): batches never share an event.                      *)
CopiesCostFailures ==
  \A e \in Events : received[e] + late[e] <= 1 + failures[e]

(* A flush that resolved left nothing of what it found in the queue there.  *)
FlushEmptiesQueue ==
  \A c \in Calls : call[c] = "done" => asked[c] \cap ToSet(queue) = {}

(* Every event that was captured is taken by the server or reported, unless *)
(* destroy stopped the timer and nothing was captured since.                *)
EveryEventSettles ==
  \A e \in Events :
    e <= captured ~>
      \/ received[e] > 0 \/ reports[e] > 0
      \/ ~ timer /\ e \in ToSet(queue)

(* Every call of flush returns, whatever the server does.                   *)
FlushReturns == \A c \in Calls : call[c] \in {"waiting", "flushing"} ~> call[c] = "done"

-----------------------------------------------------------------------------
(* client.ts:147 "If a background flush is already in progress, waits for   *)
(* it to complete before flushing any remaining events - so all enqueued    *)
(* events are sent". Violated: when a flush starts before the waiting call  *)
(* goes on, flushQueue answers that call at once.                           *)
FlushDrains ==
  \A c \in Calls : call[c] = "done" =>
    \A e \in asked[c] : received[e] > 0 \/ reports[e] > 0
=============================================================================
