------------------------- MODULE DeliveryProperties -------------------------
(* What the path of an event has to guarantee.                             *)
EXTENDS Delivery

(* RabbitMQ holds the message: in the queue, or handed out unacknowledged. *)
Held(m) == \/ m \in ToSet(ready)
           \/ channel = "open" /\ m \in ToSet(buffer)

Kept(m) == Held(m) \/ stored[m] > 0 \/ dropped[m] # "none"

(* A 202 is kept: every event of an accepted request is in RabbitMQ's hands, *)
(* in MongoDB, or dropped for a cause, whatever stopped since (publishEvents, *)
(* Emitter.Publish, handleDelivery).                                         *)
AcceptedIsKept ==
  \A r \in Requests : request[r] = "202" => \A m \in Carries[r] : Kept(m)

(* "At least once" costs no more than it must: each copy of an event beyond *)
(* the first was paid for by a crash, a lost connection, a lost answer or a *)
(* timeout (loggerClient.LogInfo, settle). Refusals, retries and backlog    *)
(* never store an event twice.                                              *)
CopiesCostFaults == \A m \in Messages : stored[m] <= 1 + faults

(* forward drops an event at once when its project does not exist, because  *)
(* "that will not change": no such drop is for a project that is there.     *)
UnknownProjectIsGone ==
  \A m \in Messages : dropped[m] = "unknown_project" => ProjectOf[m] \notin projects

(* An unreachable logger drops nothing, however long it stays away          *)
(* (consumer.go:72): a message dropped as refused was refused in this       *)
(* delivery.                                                                *)
OutageDropsNothing ==
  [][\A m \in Messages :
       dropped'[m] = "refused" /\ dropped[m] # "refused" => refusals > 0]_vars

(* The promise of AtLeastOnce, kept by the four processes together: the     *)
(* steps the client and MongoDB see, and that every accepted event settles. *)
Answer202(r) == IF request[r] \in {"202", "400", "503"} THEN request[r] ELSE "none"
Fate(m) == IF stored[m] > 0 THEN "stored"
           ELSE IF dropped[m] # "none" THEN "dropped"
           ELSE IF Held(m) THEN "queued" ELSE "nowhere"

Promise == INSTANCE AtLeastOnce WITH
  answer <- [r \in Requests |-> Answer202(r)],
  fate <- [m \in Messages |-> Fate(m)]

(* Delivery implements AtLeastOnce, liveness included: every event of an    *)
(* accepted request is eventually stored or dropped for a cause.            *)
KeepsPromise == Promise!Spec

(* No request waits for ever for a confirm: RabbitMQ may never take or      *)
(* confirm an event, and publishTimeout ends the wait (publishEvents). It   *)
(* does not bound opening the channel, writing to it and closing it: the    *)
(* promise is for a RabbitMQ that gets round to those.                      *)
InFlight(r) == request[r] \in {"publishing", "unconfirmed", "failed"}

RabbitServes(r) == WF_vars(PublishNext(r) \/ CloseChannel(r))

EveryRequestAnswered ==
  \A r \in Requests :
    RabbitServes(r) => (InFlight(r) ~> request[r] \in {"202", "503"})

(* Nothing holds up the queue for ever: not a message that cannot be read,  *)
(* not one the logger goes on refusing (maxRefusals), not a restart. With   *)
(* nothing new published, the queue is empty again.                         *)
BacklogDrains == []<>(\A m \in Messages : ~ Held(m))

(* A listener told to stop stops, even while the logger is down and stays   *)
(* down (forward selects on ctx, Listen between two deliveries).            *)
ShutdownCompletes == process = "stopping" ~> process = "down"

-----------------------------------------------------------------------------
(* What the comments say and the code does not do.                         *)

(* consumer.go:66 "maxRefusals is how many times an event the logger        *)
(* refuses is tried before it is dropped". Violated: attempts that found    *)
(* the logger unreachable are counted too.                                  *)
DroppedAfterMaxRefusals ==
  [][\A m \in Messages :
       dropped'[m] = "refused" /\ dropped[m] # "refused" => refusals >= MaxRefusals]_vars
=============================================================================
