------------------------------ MODULE Delivery ------------------------------
(***************************************************************************)
(* How an event travels from the broker's HTTP handler to MongoDB:         *)
(*                                                                         *)
(*   broker  publishEvents, Emitter.Publish   (broker/cmd/api/events.go,   *)
(*                                             toolbox/event/emitter.go)   *)
(*   RabbitMQ  the durable queue logwolf_logs  (external)                  *)
(*   listener  Consumer.Listen, handleDelivery, forward, loggerClient      *)
(*                        (toolbox/event/consumer.go, logger_client.go)    *)
(*   logger  RPCServer.LogInfo, projectCache, DeleteProject                *)
(*                        (logger/cmd/api/rpc.go, projects.go)             *)
(*                                                                         *)
(* Any of the four may stop at any step, connections are lost, a call may  *)
(* time out while the logger is still running it, and the logger may refuse *)
(* an event. MaxFaults bounds how often all of that happens in a behaviour. *)
(***************************************************************************)
EXTENDS Naturals, Sequences, FiniteSets, SequencesExt

CONSTANTS
  Requests,      \* POST /logs and POST /logs/batch requests
  Messages,      \* the messages that can reach the queue
  Batch,         \* [Requests -> Seq(Messages)]: the events of each request
  Unsupported,   \* events whose severity NormalizeSeverity refuses
  Malformed,     \* messages of other publishers that are not a Payload
  UnknownAction, \* messages of other publishers whose action is not "log"
  Projects,
  ProjectOf,     \* [Messages -> Projects]: the project an event is filed under
  Slots,         \* the logger's concurrent LogInfo calls
  Prefetch,      \* prefetchCount
  MaxRefusals,   \* maxRefusals
  MaxFaults,     \* the bound on faults in one behaviour
  None           \* no message, no call

Carries == [r \in Requests |-> ToSet(Batch[r])]
Published == UNION {Carries[r] : r \in Requests}
Foreign == Malformed \cup UnknownAction

ASSUME DeliveryAssumption ==
  /\ Batch \in [Requests -> Seq(Messages)]
  /\ Unsupported \subseteq Messages
  /\ Foreign \subseteq Messages \ Published
  /\ ProjectOf \in [Messages -> Projects]
  /\ Prefetch \in Nat \ {0}
  /\ MaxRefusals \in Nat \ {0}
  /\ MaxFaults \in Nat
  /\ None \notin Messages
  /\ None \notin Slots

(* Every event is published as a message of its own.                       *)
ASSUME OneRequestEach ==
  \A q, r \in Requests : q # r => Carries[q] \cap Carries[r] = {}

VARIABLES
  request,   \* the broker's handling of each request
  wire,      \* how far publishing each message has come
  rabbit,    \* "up" or "down"
  ready,     \* the messages in the queue, not handed to the listener
  channel,   \* the listener's channel, as RabbitMQ sees it
  process,   \* the listener process
  buffer,    \* the deliveries in the listener's hands, oldest first
  phase,     \* where handleDelivery is with Head(buffer)
  attempt,   \* forward's attempt, counted up to MaxRefusals
  link,      \* loggerClient's connection, if it has one
  call,      \* the slot of the LogInfo call the listener waits for
  verdict,   \* how handleDelivery settles Head(buffer)
  logger,    \* "up" or "down"
  calls,     \* the LogInfo calls the logger is running, by slot
  projects,  \* the projects collection
  known,     \* projectCache: the projects with an unexpired entry
  evicting,  \* projects deleted whose cache entry DeleteProject has yet to drop
  stored,    \* how many log entries MongoDB holds of each message
  dropped,   \* why the queue let go of a message without storing it
  refusals,  \* how often the logger has refused Head(buffer) (history)
  faults     \* faults so far (history)

brokerVars == <<request, wire>>
queueVars == <<rabbit, ready, channel>>
listenerVars == <<process, buffer, phase, attempt, link, call, verdict, refusals>>
loggerVars == <<logger, calls, projects, known, evicting, stored>>
vars == <<brokerVars, queueVars, listenerVars, loggerVars, dropped, faults>>

RequestStates == {"idle", "publishing", "unconfirmed", "failed", "202", "400", "503"}
WireStates == {"unsent", "sent", "taken", "saved", "confirmed", "lost"}
Phases == {"idle", "trying", "calling", "backoff", "settling"}
Verdicts == {"none", "stored", "malformed", "unknown_action",
             "unknown_project", "refused", "shutdown"}
Stages == {"free", "checking", "caching", "inserting", "stored", "refused", "unknown"}
Free == [msg |-> None, stage |-> "free"]

TypeOK ==
  /\ request \in [Requests -> RequestStates]
  /\ wire \in [Messages -> WireStates]
  /\ rabbit \in {"up", "down"}
  /\ ready \in Seq(Messages)
  /\ channel \in {"open", "closed"}
  /\ process \in {"down", "running", "stopping"}
  /\ buffer \in Seq(Messages) /\ Len(buffer) <= Prefetch
  /\ phase \in Phases
  /\ attempt \in 0..MaxRefusals
  /\ link \in {"none", "open", "broken"}
  /\ call \in Slots \cup {None}
  /\ verdict \in Verdicts
  /\ logger \in {"up", "down"}
  /\ calls \in [Slots -> [msg : Messages \cup {None}, stage : Stages]]
  /\ projects \in SUBSET Projects
  /\ known \in SUBSET Projects
  /\ evicting \in SUBSET Projects
  /\ stored \in [Messages -> Nat]
  /\ dropped \in [Messages -> Verdicts]
  /\ refusals \in Nat
  /\ faults \in 0..MaxFaults

Init ==
  /\ request = [r \in Requests |-> "idle"]
  /\ wire = [m \in Messages |-> "unsent"]
  /\ rabbit = "up" /\ ready = <<>> /\ channel = "closed"
  /\ process = "down" /\ buffer = <<>> /\ phase = "idle"
  /\ attempt = 0 /\ link = "none" /\ call = None /\ verdict = "none" /\ refusals = 0
  /\ logger = "up" /\ calls = [s \in Slots |-> Free]
  /\ projects = Projects /\ known = {} /\ evicting = {}
  /\ stored = [m \in Messages |-> 0]
  /\ dropped = [m \in Messages |-> "none"]
  /\ faults = 0

Fault == faults < MaxFaults /\ faults' = faults + 1
NoFault == faults' = faults

-----------------------------------------------------------------------------
(* The broker.                                                             *)

(* publishEvents normalizes and encodes every event before it sends any;   *)
(* Publish then needs an open connection, and dials one if RabbitMQ is up. *)
PublishEvents(r) ==
  /\ request[r] = "idle"
  /\ request' = [request EXCEPT ![r] =
       IF Carries[r] \cap Unsupported # {} THEN "400"
       ELSE IF rabbit = "up" THEN "publishing" ELSE "503"]
  /\ UNCHANGED <<wire, queueVars, listenerVars, loggerVars, dropped, faults>>

(* A step of Publish that leaves the messages where they are.              *)
Turns(r, from, to) ==
  /\ request[r] = from
  /\ request' = [request EXCEPT ![r] = to]
  /\ UNCHANGED <<wire, queueVars, listenerVars, loggerVars, dropped, faults>>

(* Publish opens a channel in confirm mode, and its first loop writes the   *)
(* next message. No timeout bounds either: they wait for as long as RabbitMQ *)
(* does not read the connection.                                            *)
PublishNext(r) ==
  /\ request[r] = "publishing"
  /\ \E i \in DOMAIN Batch[r] :
       /\ wire[Batch[r][i]] = "unsent"
       /\ \A j \in 1..(i - 1) : wire[Batch[r][j]] # "unsent"
       /\ wire' = [wire EXCEPT ![Batch[r][i]] = "sent"]
  /\ UNCHANGED <<request, queueVars, listenerVars, loggerVars, dropped, faults>>

Written(r) == \A m \in Carries[r] : wire[m] # "unsent"
AllConfirmed(r) == \A m \in Carries[r] : wire[m] = "confirmed"

(* RabbitMQ refuses the channel, or closes it before the last confirm.     *)
ChannelFails(r) == ~ AllConfirmed(r) /\ Turns(r, "publishing", "failed")

(* A confirm reaches the request that waits for it.                        *)
ReceiveConfirm(r, m) ==
  /\ request[r] = "publishing"
  /\ m \in Carries[r] /\ wire[m] = "saved"
  /\ wire' = [wire EXCEPT ![m] = "confirmed"]
  /\ UNCHANGED <<request, queueVars, listenerVars, loggerVars, dropped, faults>>

(* Mutant: 202 once every message is sent, as before publisher confirms.   *)
AnswerAcceptedUnconfirmed(r) == Written(r) /\ Turns(r, "publishing", "202")

(* Publish's second loop ends well, and its deferred Close returns.        *)
AnswerAccepted(r) == AllConfirmed(r) /\ Turns(r, "publishing", "202")

(* Mutant: no publishTimeout, only a message RabbitMQ refused ends the wait. *)
GiveUpWaitingWithoutTimeout(r) ==
  /\ Written(r) /\ \E m \in Carries[r] : wire[m] = "lost"
  /\ Turns(r, "publishing", "unconfirmed")

(* The second loop ends badly: publishTimeout passed, the client left, or   *)
(* RabbitMQ refused a message. Only this loop watches ctx. What was sent may *)
(* still reach the queue.                                                   *)
GiveUpWaiting(r) == Written(r) /\ Turns(r, "publishing", "unconfirmed")

(* The deferred Close waits for RabbitMQ's answer, without a timeout too.  *)
CloseChannel(r) == Turns(r, "unconfirmed", "failed")

AnswerFailed(r) == Turns(r, "failed", "503")

(* The broker and RabbitMQ lose their connection, the broker crashing       *)
(* included: what RabbitMQ had not taken is lost, a confirm that had not    *)
(* arrived never will, and no call on a channel waits any longer.           *)
Disconnect ==
  /\ request' = [r \in Requests |->
       IF request[r] = "unconfirmed" \/ (request[r] = "publishing" /\ ~ AllConfirmed(r))
       THEN "failed" ELSE request[r]]
  /\ wire' = [m \in Messages |-> IF wire[m] = "sent" THEN "lost" ELSE wire[m]]

ConnectionLost ==
  /\ rabbit = "up" /\ Fault
  /\ Disconnect
  /\ UNCHANGED <<queueVars, listenerVars, loggerVars, dropped>>

-----------------------------------------------------------------------------
(* RabbitMQ: a durable queue of persistent messages, publisher confirms,   *)
(* one consumer with manual acknowledgements and a prefetch limit.         *)

TakeMessage(m) ==
  /\ rabbit = "up" /\ wire[m] = "sent"
  /\ wire' = [wire EXCEPT ![m] = "taken"]
  /\ ready' = Append(ready, m)
  /\ UNCHANGED <<request, rabbit, channel, listenerVars, loggerVars, dropped, faults>>

RefuseMessage(m) ==
  /\ rabbit = "up" /\ wire[m] = "sent" /\ Fault
  /\ wire' = [wire EXCEPT ![m] = "lost"]
  /\ UNCHANGED <<request, queueVars, listenerVars, loggerVars, dropped>>

(* The message is on disk, or was acknowledged before it had to be: the    *)
(* confirm is sent.                                                        *)
SaveMessage(m) ==
  /\ rabbit = "up" /\ wire[m] = "taken"
  /\ wire' = [wire EXCEPT ![m] = "saved"]
  /\ UNCHANGED <<request, queueVars, listenerVars, loggerVars, dropped, faults>>

(* Another publisher reaches the exchange.                                 *)
PublishForeign(m) ==
  /\ m \in Foreign /\ rabbit = "up" /\ wire[m] = "unsent"
  /\ wire' = [wire EXCEPT ![m] = "saved"]
  /\ ready' = Append(ready, m)
  /\ UNCHANGED <<request, rabbit, channel, listenerVars, loggerVars, dropped, faults>>

(* What the listener has not acknowledged goes back to the queue.          *)
Requeue == IF channel = "open" THEN buffer \o ready ELSE ready

RabbitCrash ==
  /\ rabbit = "up" /\ Fault
  /\ rabbit' = "down" /\ channel' = "closed" /\ ready' = Requeue
  /\ Disconnect
  /\ UNCHANGED <<listenerVars, loggerVars, dropped>>

(* A message the crash found in memory only is gone, ...                   *)
LoseUnsaved(m) ==
  /\ rabbit = "down" /\ wire[m] = "taken"
  /\ \E i \in DOMAIN ready : ready[i] = m /\ ready' = RemoveAt(ready, i)
  /\ wire' = [wire EXCEPT ![m] = "lost"]
  /\ UNCHANGED <<request, rabbit, channel, listenerVars, loggerVars, dropped, faults>>

(* ... and what is left when RabbitMQ is back was read from disk.          *)
RabbitRestart ==
  /\ rabbit = "down" /\ rabbit' = "up"
  /\ wire' = [m \in Messages |-> IF wire[m] = "taken" THEN "saved" ELSE wire[m]]
  /\ UNCHANGED <<request, ready, channel, listenerVars, loggerVars, dropped, faults>>

ChannelLost ==
  /\ channel = "open" /\ Fault
  /\ channel' = "closed" /\ ready' = Requeue
  /\ UNCHANGED <<brokerVars, rabbit, listenerVars, loggerVars, dropped>>

(* Mutant: no Qos, RabbitMQ sends all it has.                              *)
DeliverUnlimited ==
  /\ channel = "open" /\ ready # <<>>
  /\ buffer' = Append(buffer, Head(ready))
  /\ ready' = Tail(ready)
  /\ UNCHANGED <<brokerVars, rabbit, channel, process, phase, attempt, link, call,
                 verdict, refusals, loggerVars, dropped, faults>>

Deliver ==
  /\ channel = "open" /\ ready # <<>> /\ Len(buffer) < Prefetch
  /\ buffer' = Append(buffer, Head(ready))
  /\ ready' = Tail(ready)
  /\ UNCHANGED <<brokerVars, rabbit, channel, process, phase, attempt, link, call,
                 verdict, refusals, loggerVars, dropped, faults>>

-----------------------------------------------------------------------------
(* The listener.                                                           *)

(* main connects and Listen starts consuming. A process that cannot connect *)
(* exits and is restarted.                                                  *)
StartListener ==
  /\ process = "down" /\ rabbit = "up"
  /\ process' = "running" /\ channel' = "open" /\ buffer' = <<>>
  /\ UNCHANGED <<brokerVars, rabbit, ready, phase, attempt, link, call, verdict,
                 refusals, loggerVars, dropped, faults>>

(* SIGTERM cancels ctx. *)
StopListener ==
  /\ process = "running" /\ Fault
  /\ process' = "stopping"
  /\ UNCHANGED <<brokerVars, queueVars, buffer, phase, attempt, link, call, verdict,
                 refusals, loggerVars, dropped>>

(* Listen's select picks a delivery. It may while ctx is cancelled, and it  *)
(* may take one more the client had buffered when the channel closed.       *)
HandleDelivery ==
  /\ process # "down" /\ phase = "idle" /\ buffer # <<>>
  /\ LET m == Head(buffer) IN
       \/ /\ m \in Malformed
          /\ phase' = "settling" /\ verdict' = "malformed" /\ UNCHANGED attempt
       \/ /\ m \in UnknownAction
          /\ phase' = "settling" /\ verdict' = "unknown_action" /\ UNCHANGED attempt
       \/ /\ m \notin Foreign
          /\ phase' = "trying" /\ attempt' = 1 /\ UNCHANGED verdict
  /\ UNCHANGED <<brokerVars, queueVars, process, buffer, link, call, refusals,
                 loggerVars, dropped, faults>>

(* loggerClient.LogInfo dials if it has no connection, and calls.          *)
CallLogger(s) ==
  /\ phase = "trying" /\ logger = "up" /\ link # "broken" /\ calls[s] = Free
  /\ calls' = [calls EXCEPT ![s] = [msg |-> Head(buffer), stage |-> "checking"]]
  /\ link' = "open" /\ call' = s /\ phase' = "calling"
  /\ UNCHANGED <<brokerVars, queueVars, process, buffer, attempt, verdict, refusals,
                 logger, projects, known, evicting, stored, dropped, faults>>

(* forward's error path: the refusals of an event are counted by attempts,  *)
(* so an attempt that found the logger unreachable counts as one too.       *)
Refused(cause) ==
  IF cause = "unknown" THEN phase' = "settling" /\ verdict' = "unknown_project"
  ELSE IF attempt >= MaxRefusals THEN phase' = "settling" /\ verdict' = "refused"
  ELSE phase' = "backoff" /\ UNCHANGED verdict

(* The logger answered. *)
ReceiveReply ==
  /\ phase = "calling" /\ call # None
  /\ calls[call].stage \in {"stored", "refused", "unknown"}
  /\ IF calls[call].stage = "stored"
     THEN phase' = "settling" /\ verdict' = "stored" /\ UNCHANGED refusals
     ELSE Refused(calls[call].stage) /\ refusals' = refusals + 1
  /\ calls' = [calls EXCEPT ![call] = Free]
  /\ call' = None
  /\ UNCHANGED <<brokerVars, queueVars, process, buffer, attempt, link, logger, projects,
                 known, evicting, stored, dropped, faults>>

(* Mutant: an unreachable logger counts as a refusal.                      *)
LoggerUnreachableRefused ==
  /\ \/ phase = "trying" /\ (logger = "down" \/ link = "broken")
     \/ phase = "calling" /\ call = None
  /\ Refused("unreachable") /\ link' = "none"
  /\ UNCHANGED <<brokerVars, queueVars, process, buffer, attempt, call,
                 refusals, loggerVars, dropped, faults>>

(* The logger cannot be dialed, or the connection broke, under the call or  *)
(* since the last one: not a refusal, and retried however many attempts     *)
(* there have been. The next attempt dials again.                           *)
LoggerUnreachable ==
  /\ \/ phase = "trying" /\ (logger = "down" \/ link = "broken")
     \/ phase = "calling" /\ call = None
  /\ phase' = "backoff" /\ link' = "none"
  /\ UNCHANGED <<brokerVars, queueVars, process, buffer, attempt, call, verdict,
                 refusals, loggerVars, dropped, faults>>

(* The logger goes on running a call nobody waits for; one it had finished *)
(* is over.                                                                *)
Abandon ==
  calls' = [s \in Slots |->
    IF s = call /\ calls[s].stage \in {"stored", "refused", "unknown"}
    THEN Free ELSE calls[s]]

(* loggerCallTimeout passes: the connection is closed. *)
CallTimesOut ==
  /\ phase = "calling" /\ call # None /\ Fault
  /\ Abandon /\ call' = None /\ link' = "none" /\ phase' = "backoff"
  /\ UNCHANGED <<brokerVars, queueVars, process, buffer, attempt, verdict, refusals,
                 logger, projects, known, evicting, stored, dropped>>

(* retryDelay has passed: the next attempt. The code counts on; Refused only *)
(* asks whether MaxRefusals is reached, so counting stops there.            *)
Retry ==
  /\ phase = "backoff"
  /\ phase' = "trying"
  /\ attempt' = IF attempt < MaxRefusals THEN attempt + 1 ELSE attempt
  /\ UNCHANGED <<brokerVars, queueVars, process, buffer, link, call, verdict, refusals,
                 loggerVars, dropped, faults>>

(* Mutant: forward sleeps without watching ctx.                            *)
GiveUpNever == FALSE /\ UNCHANGED vars

(* ctx is cancelled while forward waits to retry. *)
GiveUp ==
  /\ phase = "backoff" /\ process = "stopping"
  /\ phase' = "settling" /\ verdict' = "shutdown"
  /\ UNCHANGED <<brokerVars, queueVars, process, buffer, attempt, link, call, refusals,
                 loggerVars, dropped, faults>>

(* Mutant: an event dropped is rejected back to the queue, Reject(true).   *)
SettleDeliveryRejectRequeues ==
  /\ phase = "settling"
  /\ phase' = "idle" /\ verdict' = "none" /\ attempt' = 0 /\ refusals' = 0
  /\ buffer' = Tail(buffer)
  /\ ready' = IF channel = "open" /\ verdict # "stored"
              THEN <<Head(buffer)>> \o ready ELSE ready
  /\ UNCHANGED <<brokerVars, rabbit, channel, process, link, call, loggerVars,
                 dropped, faults>>

(* Mutant: a stored event is put back, Nack(false, true) for Ack(false).   *)
SettleDeliveryNacksStored ==
  /\ phase = "settling"
  /\ phase' = "idle" /\ verdict' = "none" /\ attempt' = 0 /\ refusals' = 0
  /\ buffer' = Tail(buffer)
  /\ ready' = IF channel = "open" THEN <<Head(buffer)>> \o ready ELSE ready
  /\ UNCHANGED <<brokerVars, rabbit, channel, process, link, call, loggerVars,
                 dropped, faults>>

(* handleDelivery acks a message stored or skipped, requeues it on shutdown *)
(* and rejects, which drops, any other. On a closed channel that fails, and *)
(* RabbitMQ has requeued the message already.                               *)
SettleDelivery ==
  /\ phase = "settling"
  /\ phase' = "idle" /\ verdict' = "none" /\ attempt' = 0 /\ refusals' = 0
  /\ buffer' = Tail(buffer)
  /\ IF channel = "closed" THEN UNCHANGED <<ready, dropped>>
     ELSE /\ ready' = IF verdict = "shutdown" THEN <<Head(buffer)>> \o ready ELSE ready
          /\ dropped' = IF verdict \in {"stored", "shutdown"} THEN dropped
                        ELSE [dropped EXCEPT ![Head(buffer)] = verdict]
  /\ UNCHANGED <<brokerVars, rabbit, channel, process, link, call, loggerVars, faults>>

(* Mutant: Listen does not notice that its channel closed.                 *)
ListenReturnsOnlyOnShutdown ==
  /\ process = "stopping" /\ phase = "idle"
  /\ process' = "down" /\ channel' = "closed" /\ buffer' = <<>> /\ ready' = Requeue
  /\ link' = "none"
  /\ UNCHANGED <<brokerVars, rabbit, phase, attempt, call, verdict, refusals,
                 loggerVars, dropped, faults>>

(* Listen returns, between two deliveries, when it sees ctx cancelled or    *)
(* the channel closed; the process exits and its connection closes.         *)
ListenReturns ==
  /\ process # "down" /\ phase = "idle"
  /\ process = "stopping" \/ channel = "closed"
  /\ process' = "down" /\ channel' = "closed" /\ buffer' = <<>> /\ ready' = Requeue
  /\ link' = "none"
  /\ UNCHANGED <<brokerVars, rabbit, phase, attempt, call, verdict, refusals,
                 loggerVars, dropped, faults>>

ListenerCrash ==
  /\ process # "down" /\ Fault
  /\ process' = "down" /\ channel' = "closed" /\ buffer' = <<>> /\ ready' = Requeue
  /\ link' = "none" /\ phase' = "idle" /\ verdict' = "none" /\ attempt' = 0
  /\ refusals' = 0
  /\ Abandon /\ call' = None
  /\ UNCHANGED <<brokerVars, rabbit, logger, projects, known, evicting,
                 stored, dropped>>

-----------------------------------------------------------------------------
(* The logger.                                                             *)

Running(s, stage) == calls[s].stage = stage
ProjectIn(s) == ProjectOf[calls[s].msg]

(* LogInfo answers: a call nobody waits for ends there. *)
Advance(s, stage) ==
  calls' = [calls EXCEPT ![s] = [msg |-> calls[s].msg, stage |-> stage]]
Answer(s, stage) ==
  IF s = call THEN Advance(s, stage) ELSE calls' = [calls EXCEPT ![s] = Free]

(* projectCache.exists: a known project passes; any other is looked up, out *)
(* of the cache's lock.                                                     *)
CheckProject(s) ==
  /\ Running(s, "checking")
  /\ \/ /\ ProjectIn(s) \in known
        /\ Advance(s, "inserting") /\ UNCHANGED known
     \/ /\ ProjectIn(s) \notin known /\ ProjectIn(s) \in projects
        /\ Advance(s, "caching") /\ UNCHANGED known
     \/ /\ ProjectIn(s) \notin known /\ ProjectIn(s) \notin projects
        /\ Answer(s, "unknown") /\ UNCHANGED known
  /\ UNCHANGED <<brokerVars, queueVars, listenerVars, logger, projects, evicting,
                 stored, dropped, faults>>

CacheProject(s) ==
  /\ Running(s, "caching")
  /\ known' = known \cup {ProjectIn(s)}
  /\ Advance(s, "inserting")
  /\ UNCHANGED <<brokerVars, queueVars, listenerVars, logger, projects, evicting,
                 stored, dropped, faults>>

InsertEvent(s) ==
  /\ Running(s, "inserting")
  /\ stored' = [stored EXCEPT ![calls[s].msg] = @ + 1]
  /\ Answer(s, "stored")
  /\ UNCHANGED <<brokerVars, queueVars, listenerVars, logger, projects, known, evicting,
                 dropped, faults>>

(* Mutant: a lookup that failed answers that the project does not exist.   *)
DatabaseFailsUnknown(s) ==
  /\ Running(s, "checking") /\ ProjectIn(s) \notin known
  /\ Answer(s, "unknown")
  /\ UNCHANGED <<brokerVars, queueVars, listenerVars, logger, projects, known, evicting,
                 stored, dropped, faults>>

(* MongoDB answers the lookup or the insert with an error. *)
DatabaseFails(s) ==
  /\ \/ Running(s, "checking") /\ ProjectIn(s) \notin known
     \/ Running(s, "inserting")
  /\ Answer(s, "refused")
  /\ UNCHANGED <<brokerVars, queueVars, listenerVars, logger, projects, known, evicting,
                 stored, dropped, faults>>

(* An insert whose acknowledgement was lost: the entry is there, LogInfo   *)
(* answers an error.                                                        *)
InsertUnacknowledged(s) ==
  /\ Running(s, "inserting") /\ Fault
  /\ stored' = [stored EXCEPT ![calls[s].msg] = @ + 1]
  /\ Answer(s, "refused")
  /\ UNCHANGED <<brokerVars, queueVars, listenerVars, logger, projects, known, evicting,
                 dropped>>

(* DeleteProject: the transaction commits, then the cache entry is dropped. *)
DeleteProject(p) ==
  /\ logger = "up" /\ p \in projects
  /\ projects' = projects \ {p}
  /\ evicting' = evicting \cup {p}
  /\ UNCHANGED <<brokerVars, queueVars, listenerVars, logger, calls, known, stored,
                 dropped, faults>>

ForgetProject(p) ==
  /\ p \in evicting
  /\ known' = known \ {p}
  /\ evicting' = evicting \ {p}
  /\ UNCHANGED <<brokerVars, queueVars, listenerVars, logger, calls, projects, stored,
                 dropped, faults>>

(* projectCacheTTL has passed since the project was looked up. *)
ExpireProject(p) ==
  /\ p \in known
  /\ known' = known \ {p}
  /\ UNCHANGED <<brokerVars, queueVars, listenerVars, logger, calls, projects, evicting,
                 stored, dropped, faults>>

LoggerCrash ==
  /\ logger = "up" /\ Fault
  /\ logger' = "down" /\ calls' = [s \in Slots |-> Free] /\ call' = None
  /\ link' = IF link = "open" THEN "broken" ELSE link
  /\ known' = {} /\ evicting' = {}
  /\ UNCHANGED <<brokerVars, queueVars, process, buffer, phase, attempt, verdict,
                 refusals, projects, stored, dropped>>

LoggerRestart ==
  /\ logger = "down" /\ logger' = "up"
  /\ UNCHANGED <<brokerVars, queueVars, listenerVars, calls, projects, known, evicting,
                 stored, dropped, faults>>

-----------------------------------------------------------------------------
BrokerNext ==
  \/ \E r \in Requests : PublishEvents(r) \/ ChannelFails(r) \/ PublishNext(r)
                          \/ AnswerAccepted(r) \/ GiveUpWaiting(r)
                          \/ CloseChannel(r) \/ AnswerFailed(r)
  \/ \E r \in Requests, m \in Messages : ReceiveConfirm(r, m)
  \/ ConnectionLost

RabbitNext ==
  \/ \E m \in Messages : TakeMessage(m) \/ RefuseMessage(m) \/ SaveMessage(m)
                           \/ PublishForeign(m) \/ LoseUnsaved(m)
  \/ RabbitCrash \/ RabbitRestart \/ ChannelLost \/ Deliver

ListenerNext ==
  \/ StartListener \/ StopListener \/ HandleDelivery \/ (\E s \in Slots : CallLogger(s))
  \/ ReceiveReply \/ LoggerUnreachable \/ CallTimesOut \/ Retry \/ GiveUp
  \/ SettleDelivery \/ ListenReturns \/ ListenerCrash

LogInfoNext(s) == CheckProject(s) \/ CacheProject(s) \/ InsertEvent(s) \/ DatabaseFails(s)

LoggerNext ==
  \/ \E s \in Slots : LogInfoNext(s) \/ InsertUnacknowledged(s)
  \/ \E p \in Projects : DeleteProject(p) \/ ForgetProject(p) \/ ExpireProject(p)
  \/ LoggerCrash \/ LoggerRestart

Next == BrokerNext \/ RabbitNext \/ ListenerNext \/ LoggerNext

Spec == Init /\ [][Next]_vars

(* What runs on: each handler and goroutine takes its next step, and docker *)
(* compose restarts what stopped (restart: always). Go's select picks among *)
(* ready cases at random, so a listener told to stop can neither pick       *)
(* deliveries for ever nor retry for ever: SF. Of RabbitMQ reading the       *)
(* broker's connection and confirming what it takes nothing is assumed, nor *)
(* of clients, deletes, refusals, call timeouts or crashes, and the logger  *)
(* need not come back while the listener is stopping.                       *)
Fairness ==
  /\ \A r \in Requests : WF_vars(GiveUpWaiting(r) \/ AnswerFailed(r))
  /\ WF_vars(RabbitRestart \/ Deliver)
  /\ WF_vars(\/ StartListener \/ HandleDelivery \/ (\E s \in Slots : CallLogger(s))
             \/ ReceiveReply \/ LoggerUnreachable \/ Retry \/ SettleDelivery)
  /\ SF_vars(GiveUp) /\ SF_vars(ListenReturns)
  /\ \A s \in Slots :
       WF_vars(LogInfoNext(s) \/ (process # "stopping" /\ LoggerRestart))

FairSpec == Spec /\ Fairness
=============================================================================
