---------------------------- MODULE AtLeastOnce ----------------------------
(***************************************************************************)
(* What Logwolf promises about an event, whatever carries it: once the     *)
(* broker has answered 202 for a request, none of its events can vanish,   *)
(* and each ends up stored, or dropped for a cause the listener names.     *)
(* The promise is stated in toolbox/event/emitter.go:26 ("an event the     *)
(* broker has answered 202 for is one RabbitMQ holds on disk") and in      *)
(* toolbox/event/consumer.go:75 ("delivery is at least once").             *)
(***************************************************************************)

CONSTANTS Requests,     \* POST /logs and /logs/batch requests
          Messages,     \* the events they carry, one message each
          Carries       \* [Requests -> SUBSET Messages], the messages of each

VARIABLES answer,       \* what the client of each request was told
          fate          \* what has become of each message

vars == <<answer, fate>>

Answers == {"none", "202", "400", "503"}
Fates == {"nowhere", "queued", "stored", "dropped"}

Accepted(m) == \E r \in Requests : m \in Carries[r] /\ answer[r] = "202"
Refused(m) == \E r \in Requests : m \in Carries[r] /\ answer[r] = "400"

Init == /\ answer = [r \in Requests |-> "none"]
        /\ fate = [m \in Messages |-> "nowhere"]

(* The broker accepts a request only when none of its messages is nowhere. *)
Accept(r) ==
  /\ answer[r] = "none"
  /\ \A m \in Carries[r] : fate[m] # "nowhere"
  /\ answer' = [answer EXCEPT ![r] = "202"]
  /\ UNCHANGED fate

(* A request that failed part-way may have left some of its messages behind; *)
(* one that was refused as malformed left none.                              *)
Fail(r) ==
  /\ answer[r] = "none"
  /\ answer' = [answer EXCEPT ![r] = "503"]
  /\ UNCHANGED fate

Refuse(r) ==
  /\ answer[r] = "none"
  /\ \A m \in Carries[r] : fate[m] = "nowhere"
  /\ answer' = [answer EXCEPT ![r] = "400"]
  /\ UNCHANGED fate

Enqueue(m) ==
  /\ fate[m] = "nowhere"
  /\ ~ Refused(m)
  /\ fate' = [fate EXCEPT ![m] = "queued"]
  /\ UNCHANGED answer

Vanish(m) ==
  /\ fate[m] = "queued"
  /\ ~ Accepted(m)
  /\ fate' = [fate EXCEPT ![m] = "nowhere"]
  /\ UNCHANGED answer

(* At least once: a message may be stored after it was dropped, by a call the *)
(* listener had given up on.                                                  *)
Store(m) ==
  /\ fate[m] # "stored"
  /\ ~ Refused(m)
  /\ fate' = [fate EXCEPT ![m] = "stored"]
  /\ UNCHANGED answer

Drop(m) ==
  /\ fate[m] = "queued"
  /\ fate' = [fate EXCEPT ![m] = "dropped"]
  /\ UNCHANGED answer

Settle(m) == Accepted(m) /\ fate[m] = "queued" /\ (Store(m) \/ Drop(m))

Next == \/ \E r \in Requests : Accept(r) \/ Fail(r) \/ Refuse(r)
        \/ \E m \in Messages : Enqueue(m) \/ Vanish(m) \/ Store(m) \/ Drop(m)

(* Safety alone, and with the promise that every accepted message settles.  *)
Safety == Init /\ [][Next]_vars
Spec == Safety /\ \A m \in Messages : WF_vars(Settle(m))
=============================================================================
