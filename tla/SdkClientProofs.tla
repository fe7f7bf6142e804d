-------------------------- MODULE SdkClientProofs --------------------------
(***************************************************************************)
(* The client loses no event and flush leaves nothing behind: proved for   *)
(* every number of events and of calls of flush, every size of batch and   *)
(* queue and every number of retries.                                      *)
(***************************************************************************)
EXTENDS SdkClientProperties, SequenceTheorems, TLAPS

(* What capture adds to the queue of events. *)
LEMMA ToSetAppend ==
  ASSUME NEW S, NEW s \in Seq(S), NEW x \in S
  PROVE  Append(s, x) \in Seq(S) /\ ToSet(Append(s, x)) = ToSet(s) \cup {x}
<1>1. /\ DOMAIN s = 1..Len(s) /\ DOMAIN Append(s, x) = 1..(Len(s) + 1)
      /\ \A i \in 1..Len(s) : Append(s, x)[i] = s[i]
      /\ Append(s, x)[Len(s) + 1] = x /\ Len(s) \in Nat /\ Append(s, x) \in Seq(S)
  BY AppendProperties, LenProperties
<1> QED  BY <1>1 DEF ToSet

(* What it leaves of a queue that is full. *)
LEMMA ToSetHeadTail ==
  ASSUME NEW S, NEW s \in Seq(S), s # <<>>
  PROVE  /\ Head(s) \in S /\ Tail(s) \in Seq(S)
         /\ ToSet(s) = {Head(s)} \cup ToSet(Tail(s))
<1>1. /\ Head(s) \in S /\ Tail(s) \in Seq(S) /\ Len(s) \in Nat \ {0}
      /\ DOMAIN s = 1..Len(s) /\ DOMAIN Tail(s) = 1..(Len(s) - 1)
      /\ Head(s) = s[1] /\ \A i \in 1..(Len(s) - 1) : Tail(s)[i] = s[i + 1]
  BY HeadTailProperties, EmptySeq, LenProperties
<1>2. \A i \in 1..Len(s) : i = 1 \/ (i - 1 \in DOMAIN Tail(s) /\ s[i] = Tail(s)[i - 1])
  BY <1>1
<1>3. \A i \in 1..Len(s) : s[i] \in {Head(s)} \cup ToSet(Tail(s))
  BY <1>1, <1>2 DEF ToSet
<1>4. ToSet(Tail(s)) \subseteq ToSet(s) /\ Head(s) \in ToSet(s)
  BY <1>1 DEF ToSet
<1>5. \A x \in ToSet(s) : \E i \in 1..Len(s) : x = s[i]
  BY <1>1 DEF ToSet
<1> QED  BY <1>1, <1>3, <1>4, <1>5

(* The batch is what flushPromise is about; only a retry is waited for, and *)
(* a promise that resolved did so with every event taken by the server or   *)
(* reported.                                                                *)
BatchOK ==
  /\ promise = "null" => batch = <<>>
  /\ promise = "sleeping" => attempt < MaxRetries
  /\ \A e \in arrived : received[e] > 0
  /\ promise = "resolved" => \A e \in ToSet(batch) : received[e] > 0 \/ reports[e] > 0

(* Only events that were captured are queued, being sent or asked for. *)
Known ==
  /\ ToSet(queue) \cup ToSet(batch) \subseteq 1..captured
  /\ \A c \in Calls : asked[c] \subseteq 1..captured

(* A call of flush that will not flush again, or that finds another flush   *)
(* under way when it goes on, left nothing of what it was made for.         *)
Past(c) ==
  \/ call[c] \in {"flushing", "done"}
  \/ call[c] = "resuming" /\ promise # "null"
LeftNothing == \A c \in Calls : Past(c) => asked[c] \cap ToSet(queue) = {}

(* FlushEmptiesQueue is not inductive: whether a call that goes on may be   *)
(* done depends on what was queued when the flush under way started.        *)
IInv == TypeOK /\ BatchOK /\ Known /\ NothingVanishes /\ LeftNothing

SendTypes ==
  /\ queue \in Seq(Events) /\ batch \in Seq(Events)
  /\ promise \in Promises /\ attempt \in 0..MaxRetries /\ arrived \in SUBSET Events

(* What flushQueue, called with q queued, does to the queue and the batch. *)
Flushed(q) ==
  /\ SendTypes'
  /\ ToSet(queue') \cup ToSet(batch') = ToSet(q) \cup ToSet(batch)
  /\ queue' = q \/ queue' = <<>>
  /\ promise = "null" /\ promise' # "null" => queue' = <<>>
  /\ promise # "null" => promise' # "null"
  /\ promise' = "null" => batch' = <<>>
  /\ promise' = "resolved" => promise = "resolved" /\ batch' = batch
  /\ arrived' \subseteq arrived

(* The empty sequence has no elements. *)
LEMMA ToSetEmpty == ToSet(<<>>) = {}
  BY DEF ToSet

(* The elements of a sequence of events are events. *)
LEMMA ToSetEvents == ASSUME NEW q \in Seq(Events)  PROVE ToSet(q) \subseteq Events
  BY DEF ToSet

(* flushQueue does what Flushed says of it. *)
LEMMA FlushQueueEffect ==
  ASSUME SdkClientAssumption, SendTypes, promise = "null" => batch = <<>>,
         NEW q \in Seq(Events), FlushQueue(q)
  PROVE  Flushed(q)
<1>1. CASE queue' = q /\ UNCHANGED sendVars
  BY <1>1 DEF sendVars, SendTypes, Flushed
<1>2. CASE promise = "null" /\ q # <<>>
  <2>1. /\ queue' = <<>> /\ batch' = q /\ attempt' = 0 /\ arrived' = {}
        /\ promise' \in {"fetching", "rejected"}
    BY <1>2 DEF FlushQueue
  <2>2. <<>> \in Seq(Events)
    OBVIOUS
  <2>3. SendTypes'
    BY <2>1, <2>2 DEF SendTypes, Promises, SdkClientAssumption
  <2>4. ToSet(queue') \cup ToSet(batch') = ToSet(q) \cup ToSet(batch)
    BY <2>1, <1>2, ToSetEmpty
  <2> QED  BY <2>1, <2>3, <2>4, <1>2 DEF Flushed
<1> QED  BY <1>1, <1>2 DEF FlushQueue

(* Counting keeps counters and never takes from them. *)
LEMMA Counting ==
  ASSUME NEW count \in [Events -> Nat], NEW S
  PROVE  /\ CountedIn(count, S) \in [Events -> Nat]
         /\ \A e \in Events : CountedIn(count, S)[e] >= count[e]
         /\ \A e \in Events \cap S : CountedIn(count, S)[e] > 0
  BY DEF CountedIn

(* capture: the new event is queued or sent, and an event that had to make  *)
(* room for it is reported.                                                 *)
LEMMA CaptureEffect ==
  ASSUME SdkClientAssumption, IInv, Capture
  PROVE  \E q \in Seq(Events) :
           /\ Flushed(q)
           /\ captured + 1 \in Events
           /\ captured + 1 \in ToSet(q)
           /\ ToSet(q) \subseteq ToSet(queue) \cup {captured + 1}
           /\ reports' \in [Events -> Nat]
           /\ \A e \in Events : reports'[e] >= reports[e]
           /\ \A e \in ToSet(queue) : e \in ToSet(q) \/ reports'[e] > 0
<1> USE DEF IInv, TypeOK
<1> DEFINE full == Len(queue) >= MaxQueueSize
           rest == IF full THEN Tail(queue) ELSE queue
           q == Append(rest, captured + 1)
<1>1. captured + 1 \in Events
  BY DEF Capture, Events, SdkClientAssumption
<1>2. /\ rest \in Seq(Events)
      /\ ToSet(rest) \subseteq ToSet(queue)
      /\ reports' \in [Events -> Nat]
      /\ \A e \in Events : reports'[e] >= reports[e]
      /\ \A e \in ToSet(queue) : e \in ToSet(rest) \/ reports'[e] > 0
  <2>1. CASE full
    <3>1. queue # <<>>
      BY <2>1 DEF SdkClientAssumption
    <3>2. reports' = CountedIn(reports, {Head(queue)})
      BY <2>1 DEF Capture
    <3>3. /\ Head(queue) \in Events /\ Tail(queue) \in Seq(Events)
          /\ ToSet(queue) = {Head(queue)} \cup ToSet(Tail(queue))
      BY <3>1, ToSetHeadTail
    <3>4. reports'[Head(queue)] > 0 /\ reports' \in [Events -> Nat]
          /\ \A e \in Events : reports'[e] >= reports[e]
      BY <3>2, <3>3, Counting
    <3> QED  BY <2>1, <3>3, <3>4
  <2>2. CASE ~ full
    BY <2>2 DEF Capture
  <2> QED  BY <2>1, <2>2
<1>3. q \in Seq(Events) /\ ToSet(q) = ToSet(rest) \cup {captured + 1}
  <2> HIDE DEF rest
  <2> QED  BY <1>1, <1>2, ToSetAppend
<1>4. FlushQueue(q) \/ (queue' = q /\ UNCHANGED sendVars)
  BY DEF Capture
<1>5. Flushed(q)
  <2> HIDE DEF q
  <2>1. CASE FlushQueue(q)
    BY <2>1, <1>3, FlushQueueEffect DEF SendTypes, BatchOK
  <2>2. CASE queue' = q /\ UNCHANGED sendVars
    BY <2>2, <1>3 DEF Flushed, SendTypes, sendVars, BatchOK
  <2> QED  BY <1>4, <2>1, <2>2
<1> HIDE DEF q, rest
<1> QED  BY <1>1, <1>2, <1>3, <1>5

(* The timer and the calls of flush call flushQueue with what is queued. *)
LEMMA QueueEffect ==
  ASSUME SdkClientAssumption, IInv, FlushQueue(queue)
  PROVE  Flushed(queue)
  BY FlushQueueEffect DEF IInv, TypeOK, SendTypes, BatchOK

-----------------------------------------------------------------------------
(* The initial state satisfies the invariant. *)
LEMMA InitIInv == ASSUME SdkClientAssumption  PROVE Init => IInv
<1> SUFFICES ASSUME Init PROVE IInv
  OBVIOUS
<1>1. TypeOK
  <2>1. <<>> \in Seq(Events)
    OBVIOUS
  <2>2. /\ late \in [Events -> Nat] /\ received \in [Events -> Nat]
        /\ reports \in [Events -> Nat] /\ failures \in [Events -> Nat]
    BY DEF Init
  <2>3. call \in [Calls -> CallStates] /\ asked \in [Calls -> SUBSET Events]
    BY DEF Init, CallStates
  <2>4. captured \in 0..NumEvents /\ attempt \in 0..MaxRetries
    BY DEF Init, SdkClientAssumption
  <2> QED  BY <2>1, <2>2, <2>3, <2>4 DEF Init, TypeOK, Promises
<1>2. BatchOK /\ Known /\ LeftNothing
  BY ToSetEmpty DEF Init, BatchOK, Known, LeftNothing, Past
<1>3. NothingVanishes
  BY DEF Init, NothingVanishes
<1> QED  BY <1>1, <1>2, <1>3 DEF IInv

(* Every step keeps the types. *)
LEMMA TypeStep ==
  ASSUME SdkClientAssumption, IInv, [Next]_vars  PROVE TypeOK'
<1> USE DEF IInv, TypeOK, Promises, CallStates
<1>1. CASE Capture
  <2>1. /\ captured' \in 0..NumEvents /\ timer' \in BOOLEAN
        /\ UNCHANGED <<serverVars, failures, callVars>>
    BY <1>1 DEF Capture, SdkClientAssumption
  <2>2. SendTypes' /\ reports' \in [Events -> Nat]
    BY <1>1, CaptureEffect DEF Flushed
  <2> QED  BY <2>1, <2>2 DEF SendTypes, serverVars, callVars
<1>2. CASE Tick
  <2>1. SendTypes' /\ UNCHANGED <<captured, timer, serverVars, reports, failures, callVars>>
    BY <1>2, QueueEffect DEF Tick, Flushed
  <2> QED  BY <2>1 DEF SendTypes, serverVars, callVars
<1>3. CASE Destroy
  BY <1>3 DEF Destroy, sendVars, serverVars, callVars
<1>4. ASSUME NEW c \in Calls, Flush(c)  PROVE TypeOK'
  <2>1. ToSet(queue) \cup ToSet(batch) \subseteq Events
    BY SMTT(30) DEF ToSet
  <2>2. asked' \in [Calls -> SUBSET Events] /\ call' \in [Calls -> CallStates]
    BY <1>4, <2>1 DEF Flush, FlushRest
  <2>3. SendTypes'
    BY <1>4, QueueEffect DEF Flush, FlushRest, Flushed, SendTypes, sendVars
  <2>4. UNCHANGED <<captured, timer, serverVars, reports, failures>>
    BY <1>4 DEF Flush
  <2> QED  BY <2>2, <2>3, <2>4 DEF SendTypes, serverVars
<1>5. ASSUME NEW c \in Calls, ResumeFlush(c)  PROVE TypeOK'
  <2>1. SendTypes' /\ call' \in [Calls -> CallStates]
    BY <1>5, QueueEffect DEF ResumeFlush, FlushRest, Flushed
  <2>2. UNCHANGED <<captured, timer, serverVars, reports, failures, asked>>
    BY <1>5 DEF ResumeFlush
  <2> QED  BY <2>1, <2>2 DEF SendTypes, serverVars
<1>6. CASE AnswerOk
  BY <1>6 DEF AnswerOk, serverVars, callVars
<1>7. CASE AnswerDenied
  <2>1. reports' \in [Events -> Nat]
    BY <1>7, Counting DEF AnswerDenied
  <2> QED  BY <1>7, <2>1 DEF AnswerDenied, serverVars, callVars
<1>8. CASE AnswerError \/ RequestFails
  <2>1. failures' \in [Events -> Nat]
    <3>1. failures' = CountedIn(failures, ToSet(batch))
      BY <1>8 DEF AnswerError, RequestFails, AttemptFails
    <3> QED  BY <3>1, Counting
  <2>2. late' \in [Events -> Nat]
    <3>1. CASE AnswerError
      BY <3>1 DEF AnswerError
    <3>2. CASE RequestFails
      <4>1. late' = CountedIn(late, ToSet(batch) \ arrived)
        BY <3>2 DEF RequestFails
      <4> QED  BY <4>1, Counting
    <3> QED  BY <1>8, <3>1, <3>2
  <2>3. promise' \in Promises
    BY <1>8 DEF AnswerError, RequestFails, AttemptFails
  <2> QED  BY <1>8, <2>1, <2>2, <2>3 DEF AnswerError, RequestFails, AttemptFails, callVars
<1>9. CASE NextAttempt
  <2>1. attempt' \in 0..MaxRetries
    BY <1>9 DEF NextAttempt, BatchOK, SdkClientAssumption
  <2> QED  BY <1>9, <2>1 DEF NextAttempt, serverVars, callVars
<1>10. CASE FlushEnds
  <2>1. reports' \in [Events -> Nat]
    BY <1>10, Counting DEF FlushEnds
  <2>2. call' \in [Calls -> CallStates]
    BY <1>10 DEF FlushEnds
  <2>3. <<>> \in Seq(Events)
    OBVIOUS
  <2> QED  BY <1>10, <2>1, <2>2, <2>3 DEF FlushEnds, serverVars, SdkClientAssumption
<1>11. ASSUME NEW e \in Events, ServerTakes(e)  PROVE TypeOK'
  <2>1. received' \in [Events -> Nat]
    BY <1>11, Counting DEF ServerTakes
  <2> QED  BY <1>11, <2>1 DEF ServerTakes, callVars
<1>12. ASSUME NEW e \in Events, LateArrival(e)  PROVE TypeOK'
  <2>1. received' \in [Events -> Nat]
    BY <1>12, Counting DEF LateArrival
  <2>2. late' \in [Events -> Nat]
    BY <1>12 DEF LateArrival
  <2> QED  BY <1>12, <2>1, <2>2 DEF LateArrival, sendVars, callVars
<1>13. CASE UNCHANGED vars
  BY <1>13 DEF vars, sendVars, serverVars, callVars
<1> QED
  BY <1>1, <1>2, <1>3, <1>4, <1>5, <1>6, <1>7, <1>8, <1>9, <1>10, <1>11, <1>12, <1>13
     DEF Next, SendNext, ServerNext

(* The batch is sent or settled as BatchOK says, after every step. *)
LEMMA BatchStep ==
  ASSUME SdkClientAssumption, IInv, [Next]_vars  PROVE BatchOK'
<1> USE DEF IInv, TypeOK, BatchOK
<1>1. ASSUME NEW q \in Seq(Events), Flushed(q), UNCHANGED received,
             \A e \in Events : reports'[e] >= reports[e],
             reports' \in [Events -> Nat],
             promise' = "sleeping" => promise = "sleeping" /\ attempt' = attempt
      PROVE  BatchOK'
  <2>1. \A e \in arrived' : received'[e] > 0
    BY <1>1 DEF Flushed
  <2>2. ASSUME promise' = "resolved"
        PROVE  \A e \in ToSet(batch') : received'[e] > 0 \/ reports'[e] > 0
    <3>1. promise = "resolved" /\ batch' = batch /\ ToSet(batch) \subseteq Events
      BY <1>1, <2>2, ToSetEvents DEF Flushed
    <3> QED  BY <1>1, <3>1
  <2> QED  BY <1>1, <2>1, <2>2 DEF Flushed
<1>2. ASSUME FlushQueue(queue), UNCHANGED <<received, reports>>
      PROVE  BatchOK'
  <2>1. promise' = "sleeping" => promise = "sleeping" /\ attempt' = attempt
    BY <1>2 DEF FlushQueue, sendVars
  <2>2. Flushed(queue) /\ queue \in Seq(Events)
    BY <1>2, QueueEffect
  <2>3. reports' \in [Events -> Nat] /\ \A e \in Events : reports'[e] >= reports[e]
    BY <1>2
  <2>4. UNCHANGED received
    BY <1>2
  <2> QED  BY <1>1, <2>1, <2>2, <2>3, <2>4
<1>3. CASE Capture
  <2>1. promise' = "sleeping" => promise = "sleeping" /\ attempt' = attempt
    BY <1>3 DEF Capture, FlushQueue, sendVars
  <2> QED  BY <1>1, <1>3, <2>1, CaptureEffect DEF Capture, serverVars
<1>4. CASE Tick
  <2>1. FlushQueue(queue) /\ UNCHANGED <<received, reports>>
    BY <1>4 DEF Tick, serverVars
  <2> QED  BY <1>2, <2>1
<1>5. ASSUME NEW c \in Calls, Flush(c) \/ ResumeFlush(c)  PROVE BatchOK'
  <2>1. (FlushQueue(queue) \/ UNCHANGED sendVars) /\ UNCHANGED <<received, reports>>
    BY <1>5 DEF Flush, ResumeFlush, FlushRest, serverVars, sendVars
  <2>2. CASE FlushQueue(queue)
    BY <1>2, <2>1, <2>2
  <2>3. CASE UNCHANGED sendVars
    BY <2>1, <2>3 DEF sendVars
  <2> QED  BY <2>1, <2>2, <2>3
<1>6. CASE Destroy
  BY <1>6 DEF Destroy, sendVars, serverVars
<1>7. CASE AnswerOk
  BY <1>7 DEF AnswerOk, serverVars
<1>8. CASE AnswerDenied
  <2>1. \A e \in Events \cap ToSet(batch) : reports'[e] > 0
    BY <1>8, Counting DEF AnswerDenied
  <2> QED  BY <1>8, <2>1, ToSetEvents DEF AnswerDenied, serverVars
<1>9. CASE AnswerError \/ RequestFails
  BY <1>9 DEF AnswerError, RequestFails, AttemptFails
<1>10. CASE NextAttempt
  BY <1>10 DEF NextAttempt, serverVars
<1>11. CASE FlushEnds
  BY <1>11 DEF FlushEnds, serverVars
<1>12. ASSUME NEW e \in Events, ServerTakes(e)  PROVE BatchOK'
  <2>1. received' \in [Events -> Nat] /\ received'[e] > 0
        /\ \A x \in Events : received'[x] >= received[x]
    BY <1>12, Counting DEF ServerTakes
  <2>2. UNCHANGED <<promise, batch, attempt, reports>> /\ arrived' = arrived \cup {e}
        /\ promise = "fetching"
    BY <1>12 DEF ServerTakes
  <2> QED  BY <2>1, <2>2
<1>13. ASSUME NEW e \in Events, LateArrival(e)  PROVE BatchOK'
  <2>1. received' \in [Events -> Nat] /\ \A x \in Events : received'[x] >= received[x]
    BY <1>13, Counting DEF LateArrival
  <2>2. UNCHANGED <<promise, batch, attempt, arrived, reports>>
    BY <1>13 DEF LateArrival, sendVars
  <2>3. ToSet(batch) \subseteq Events /\ received \in [Events -> Nat]
    BY ToSetEvents
  <2>4. \A x \in Events : received[x] > 0 => received'[x] > 0
    BY <2>1, <2>3
  <2>5. \A x \in arrived' : received'[x] > 0
    BY <2>2, <2>4
  <2>6. promise' = "resolved" => \A x \in ToSet(batch') : received'[x] > 0 \/ reports'[x] > 0
    BY <2>2, <2>3, <2>4
  <2> QED  BY <2>2, <2>5, <2>6
<1>14. CASE UNCHANGED vars
  BY <1>14 DEF vars, sendVars, serverVars
<1> QED
  BY <1>3, <1>4, <1>5, <1>6, <1>7, <1>8, <1>9, <1>10, <1>11, <1>12, <1>13, <1>14
     DEF Next, SendNext, ServerNext

(* What is queued or sent was captured, and so was what a flush is for. *)
LEMMA KnownStep ==
  ASSUME SdkClientAssumption, IInv, [Next]_vars  PROVE Known'
<1> USE DEF IInv, TypeOK, Known
<1>1. ASSUME NEW c \in Calls, Flush(c)  PROVE Known'
  <2>1. UNCHANGED captured /\ asked' = [asked EXCEPT ![c] = ToSet(queue) \cup ToSet(batch)]
    BY <1>1 DEF Flush
  <2>2. ToSet(queue') \cup ToSet(batch') = ToSet(queue) \cup ToSet(batch)
    BY <1>1, QueueEffect DEF Flush, FlushRest, Flushed, sendVars
  <2> QED  BY <2>1, <2>2
<1>2. CASE Capture
  <2>1. captured' = captured + 1 /\ UNCHANGED asked
    BY <1>2 DEF Capture, callVars
  <2>2. ToSet(queue') \cup ToSet(batch') \subseteq ToSet(queue) \cup ToSet(batch) \cup {captured + 1}
    BY <1>2, CaptureEffect DEF Flushed
  <2>3. captured \in Nat
    BY DEF SdkClientAssumption
  <2>4. 1..captured \cup {captured + 1} \subseteq 1..captured'
    BY <2>1, <2>3
  <2>5. ToSet(queue') \cup ToSet(batch') \subseteq 1..captured'
    BY <2>2, <2>4
  <2>6. \A c \in Calls : asked'[c] \subseteq 1..captured'
    BY <2>1, <2>4
  <2> QED  BY <2>5, <2>6
<1>3. CASE Tick
  BY <1>3, QueueEffect DEF Tick, Flushed, callVars
<1>4. ASSUME NEW c \in Calls, ResumeFlush(c)  PROVE Known'
  BY <1>4, QueueEffect DEF ResumeFlush, FlushRest, Flushed
<1>5. CASE FlushEnds
  BY <1>5, ToSetEmpty DEF FlushEnds
<1>6. CASE AnswerOk \/ AnswerDenied \/ AnswerError \/ RequestFails \/ NextAttempt
  BY <1>6 DEF AnswerOk, AnswerDenied, AnswerError, RequestFails, AttemptFails, NextAttempt,
     callVars
<1>7. CASE Destroy \/ \E e \in Events : ServerTakes(e) \/ LateArrival(e)
  BY <1>7 DEF Destroy, ServerTakes, LateArrival, sendVars, callVars
<1>8. CASE UNCHANGED vars
  BY <1>8 DEF vars, sendVars, callVars
<1> QED
  BY <1>1, <1>2, <1>3, <1>4, <1>5, <1>6, <1>7, <1>8 DEF Next, SendNext, ServerNext

(* An event stays in the client's hands until it is taken or reported. *)
LEMMA VanishStep ==
  ASSUME SdkClientAssumption, IInv, [Next]_vars  PROVE NothingVanishes'
<1> USE DEF IInv, TypeOK
<1> DEFINE About == ToSet(queue) \cup ToSet(batch)
<1>1. /\ \A e \in 1..captured : e \in About \/ received[e] > 0 \/ reports[e] > 0
      /\ 1..captured \subseteq Events
  BY DEF NothingVanishes, Events, SdkClientAssumption
<1>2. ASSUME UNCHANGED captured, About \subseteq About',
             \A e \in Events : received'[e] >= received[e] /\ reports'[e] >= reports[e],
             received' \in [Events -> Nat], reports' \in [Events -> Nat]
      PROVE  NothingVanishes'
  BY <1>1, <1>2 DEF NothingVanishes
<1>3. \A e \in Events : received[e] >= received[e] /\ reports[e] >= reports[e]
  OBVIOUS
<1>4. CASE Capture
  <2>1. captured' = captured + 1 /\ UNCHANGED received /\ captured \in Nat
    BY <1>4 DEF Capture, serverVars, SdkClientAssumption
  <2>2. PICK q \in Seq(Events) :
           /\ Flushed(q)
           /\ captured + 1 \in ToSet(q)
           /\ reports' \in [Events -> Nat]
           /\ \A e \in Events : reports'[e] >= reports[e]
           /\ \A e \in ToSet(queue) : e \in ToSet(q) \/ reports'[e] > 0
    BY <1>4, CaptureEffect
  <2>3. About' = ToSet(q) \cup ToSet(batch)
    BY <2>2 DEF Flushed
  <2>4. ASSUME NEW e \in 1..(captured + 1)
        PROVE  e \in About' \/ received'[e] > 0 \/ reports'[e] > 0
    <3>1. CASE e = captured + 1
      BY <3>1, <2>2, <2>3
    <3>2. CASE e \in 1..captured
      BY <1>1, <2>1, <2>2, <2>3, <3>2
    <3> QED  BY <2>1, <3>1, <3>2
  <2> QED  BY <2>1, <2>4 DEF NothingVanishes
<1>5. ASSUME FlushQueue(queue) \/ UNCHANGED <<queue, sendVars>>,
             UNCHANGED <<captured, serverVars, reports>>
      PROVE  NothingVanishes'
  <2>1. About' = About
    BY <1>5, QueueEffect DEF Flushed, sendVars
  <2> QED  BY <1>5, <2>1 DEF NothingVanishes, serverVars
<1>6. CASE Tick \/ \E c \in Calls : Flush(c) \/ ResumeFlush(c)
  BY <1>5, <1>6 DEF Tick, Flush, ResumeFlush, FlushRest
<1>7. CASE FlushEnds
  <2>1. UNCHANGED <<captured, queue, received>> /\ ToSet(batch) \subseteq Events
    BY <1>7, ToSetEvents DEF FlushEnds, serverVars
  <2>2. /\ reports' \in [Events -> Nat] /\ \A e \in Events : reports'[e] >= reports[e]
        /\ \A e \in ToSet(batch) : received'[e] > 0 \/ reports'[e] > 0
    <3>1. CASE promise = "rejected"
      <4>1. reports' = CountedIn(reports, ToSet(batch))
        BY <1>7, <3>1 DEF FlushEnds
      <4> QED  BY <2>1, <4>1, Counting
    <3>2. CASE promise = "resolved"
      <4>1. reports' = reports
        BY <1>7, <3>2 DEF FlushEnds
      <4> QED  BY <2>1, <3>2, <4>1 DEF BatchOK
    <3> QED  BY <1>7, <3>1, <3>2 DEF FlushEnds
  <2> QED  BY <1>1, <2>1, <2>2 DEF NothingVanishes
<1>8. CASE AnswerDenied
  <2>1. reports' \in [Events -> Nat] /\ \A e \in Events : reports'[e] >= reports[e]
    BY <1>8, Counting DEF AnswerDenied
  <2> QED  BY <1>2, <1>3, <1>8, <2>1 DEF AnswerDenied, serverVars
<1>9. CASE AnswerOk \/ AnswerError \/ RequestFails \/ NextAttempt \/ Destroy
  BY <1>9 DEF AnswerOk, AnswerError, RequestFails, AttemptFails, NextAttempt, Destroy,
     serverVars, sendVars, NothingVanishes
<1>10. ASSUME NEW e \in Events, ServerTakes(e) \/ LateArrival(e)  PROVE NothingVanishes'
  <2>1. received' \in [Events -> Nat] /\ \A x \in Events : received'[x] >= received[x]
    <3>1. received' = CountedIn(received, {e})
      BY <1>10 DEF ServerTakes, LateArrival
    <3> QED  BY <3>1, Counting
  <2>2. UNCHANGED <<captured, queue, batch, reports>>
    BY <1>10 DEF ServerTakes, LateArrival, sendVars
  <2> QED  BY <1>2, <1>3, <2>1, <2>2
<1>11. CASE UNCHANGED vars
  BY <1>11 DEF vars, sendVars, serverVars, NothingVanishes
<1> QED
  BY <1>4, <1>6, <1>7, <1>8, <1>9, <1>10, <1>11 DEF Next, SendNext, ServerNext

(* A flush that is past leaves nothing, whatever the others do. *)
LEMMA LeftStep ==
  ASSUME SdkClientAssumption, IInv, [Next]_vars  PROVE LeftNothing'
<1> USE DEF IInv, TypeOK, LeftNothing
<1>1. ASSUME ToSet(queue') \subseteq ToSet(queue), UNCHANGED asked,
             \A c \in Calls : Past(c)' => Past(c) \/ queue' = <<>>
      PROVE  LeftNothing'
  BY <1>1, ToSetEmpty
<1>2. ASSUME FlushQueue(queue)
      PROVE  /\ ToSet(queue') \subseteq ToSet(queue)
             /\ promise' # "null" => promise # "null" \/ queue' = <<>>
             /\ promise = "null" => queue' = <<>>
  BY <1>2, QueueEffect, ToSetEmpty DEF Flushed, FlushQueue
<1>3. CASE Capture
  <2>1. UNCHANGED <<call, asked>> /\ captured \in Nat
    BY <1>3 DEF Capture, callVars, SdkClientAssumption
  <2>2. PICK q \in Seq(Events) :
          Flushed(q) /\ ToSet(q) \subseteq ToSet(queue) \cup {captured + 1}
    BY <1>3, CaptureEffect
  <2>3. CASE queue' = <<>>
    BY <2>3, ToSetEmpty
  <2>4. CASE queue' = q /\ queue' # <<>>
    <3>1. ASSUME NEW c \in Calls, Past(c)'  PROVE asked'[c] \cap ToSet(queue') = {}
      <4>1. Past(c)
        BY <2>1, <2>2, <2>4, <3>1 DEF Past, Flushed
      <4>2. captured + 1 \notin asked[c]
        BY <2>1 DEF Known
      <4> QED  BY <2>1, <2>2, <2>4, <4>1, <4>2
    <3> QED  BY <3>1
  <2> QED  BY <2>2, <2>3, <2>4 DEF Flushed
<1>4. CASE Tick
  <2>1. FlushQueue(queue) /\ UNCHANGED <<call, asked>>
    BY <1>4 DEF Tick, callVars
  <2>2. \A c \in Calls : Past(c)' => Past(c) \/ queue' = <<>>
    BY <1>2, <2>1 DEF Past
  <2> QED  BY <1>1, <1>2, <2>1, <2>2
<1>5. ASSUME NEW c \in Calls, FlushRest(c), call[c] \in {"none", "resuming"},
             \A d \in Calls \ {c} : asked'[d] = asked[d],
             promise # "null" => call[c] = "resuming" /\ asked'[c] = asked[c]
      PROVE  LeftNothing'
  <2>1. FlushQueue(queue) /\ \A d \in Calls \ {c} : call'[d] = call[d]
    BY <1>5 DEF FlushRest
  <2>2. ASSUME NEW d \in Calls, Past(d)'  PROVE asked'[d] \cap ToSet(queue') = {}
    <3>1. CASE queue' = <<>>
      BY <3>1, ToSetEmpty
    <3>2. CASE queue' # <<>>
      <4>1. promise # "null" /\ ToSet(queue') \subseteq ToSet(queue)
        BY <1>2, <2>1, <3>2
      <4>2. Past(d) /\ asked'[d] = asked[d]
        BY <1>5, <2>1, <2>2, <4>1 DEF Past
      <4> QED  BY <4>1, <4>2
    <3> QED  BY <3>1, <3>2
  <2> QED  BY <2>2
<1>6. ASSUME NEW c \in Calls, Flush(c)  PROVE LeftNothing'
  <2>1. CASE promise # "null" /\ UNCHANGED <<queue, sendVars>>
              /\ call' = [call EXCEPT ![c] = "waiting"]
    <3>1. \A d \in Calls \ {c} : asked'[d] = asked[d]
      BY <1>6 DEF Flush
    <3> QED  BY <2>1, <3>1 DEF Past, sendVars
  <2>2. CASE promise = "null" /\ FlushRest(c)
    <3>1. call[c] = "none" /\ \A d \in Calls \ {c} : asked'[d] = asked[d]
      BY <1>6 DEF Flush
    <3> QED  BY <1>5, <2>2, <3>1
  <2> QED  BY <1>6, <2>1, <2>2 DEF Flush
<1>7. ASSUME NEW c \in Calls, ResumeFlush(c)  PROVE LeftNothing'
  BY <1>5, <1>7 DEF ResumeFlush
<1>8. CASE FlushEnds
  BY <1>1, <1>8 DEF FlushEnds, Past
<1>9. CASE AnswerOk \/ AnswerDenied \/ AnswerError \/ RequestFails \/ NextAttempt
  BY <1>1, <1>9 DEF AnswerOk, AnswerDenied, AnswerError, RequestFails, AttemptFails,
     NextAttempt, Answered, Past, callVars
<1>10. CASE Destroy \/ \E e \in Events : ServerTakes(e) \/ LateArrival(e)
  BY <1>1, <1>10 DEF Destroy, ServerTakes, LateArrival, sendVars, callVars, Past
<1>11. CASE UNCHANGED vars
  BY <1>1, <1>11 DEF vars, sendVars, callVars, Past
<1> QED
  BY <1>3, <1>4, <1>6, <1>7, <1>8, <1>9, <1>10, <1>11 DEF Next, SendNext, ServerNext

-----------------------------------------------------------------------------
(* The inductive invariant holds in every reachable state. *)
THEOREM SdkClientInvariant == ASSUME SdkClientAssumption  PROVE Spec => []IInv
<1>1. Init => IInv
  BY InitIInv
<1>2. IInv /\ [Next]_vars => IInv'
  BY TypeStep, BatchStep, KnownStep, VanishStep, LeftStep DEF IInv
<1> QED  BY <1>1, <1>2, PTL DEF Spec

(* Every variable keeps its type. *)
THEOREM TypeCorrect == ASSUME SdkClientAssumption  PROVE Spec => []TypeOK
<1>1. IInv => TypeOK
  BY DEF IInv
<1> QED  BY <1>1, SdkClientInvariant, PTL

(* No captured event vanishes, whatever the answers and the timing of the   *)
(* server and of the application's calls (enqueue, flushQueue,              *)
(* sendBatchWithRetry).                                                     *)
THEOREM CapturedNeverLost == ASSUME SdkClientAssumption  PROVE Spec => []NothingVanishes
<1>1. IInv => NothingVanishes
  BY DEF IInv
<1> QED  BY <1>1, SdkClientInvariant, PTL

(* However many calls of flush overlap, one that is done left nothing of    *)
(* what it was called for in the queue (flush, flushQueue).                 *)
THEOREM FlushLeavesNothing == ASSUME SdkClientAssumption  PROVE Spec => []FlushEmptiesQueue
<1>1. IInv => FlushEmptiesQueue
  <2>1. \A c \in Calls : call[c] = "done" => Past(c)
    BY DEF Past
  <2> QED  BY <2>1 DEF IInv, LeftNothing, FlushEmptiesQueue
<1> QED  BY <1>1, SdkClientInvariant, PTL

-----------------------------------------------------------------------------
(* What copies cost.                                                       *)

(* The server has not got, and will not get, e more often than attempts with *)
(* it failed: so much is known of an event that is still to be sent, or     *)
(* that the attempt under way has not brought yet.                         *)
Paid(e) == received[e] + late[e] <= failures[e]
ToBeSent(e) ==
  \/ e > captured
  \/ e \in ToSet(queue)
  \/ e \in ToSet(batch) /\ (e \notin arrived \/ promise \in {"sleeping", "rejected"})

(* CopiesCostFailures is not inductive: that no event is in the queue and in *)
(* a batch at once is why no two batches send it.                          *)
Spent ==
  /\ ToSet(queue) \cap ToSet(batch) = {}
  /\ arrived \subseteq ToSet(batch)
  /\ \A e \in Events : ToBeSent(e) => Paid(e)
  /\ CopiesCostFailures

(* Nothing is sent twice as long as nothing more is to be sent. *)
LEMMA SpentStays ==
  ASSUME Spent, UNCHANGED <<serverVars, failures>>,
         ToSet(queue') \cap ToSet(batch') = {}, arrived' \subseteq ToSet(batch'),
         \A e \in Events : ToBeSent(e)' => ToBeSent(e)
  PROVE  Spent'
<1>1. \A e \in Events : Paid(e)' <=> Paid(e)
  BY DEF Paid, serverVars
<1>2. CopiesCostFailures'
  BY DEF Spent, CopiesCostFailures, serverVars
<1> QED  BY <1>1, <1>2 DEF Spent

(* flushQueue sends what was to be sent. *)
LEMMA SpentFlush ==
  ASSUME SdkClientAssumption, IInv, Spent, NEW q \in Seq(Events),
         FlushQueue(q) \/ (queue' = q /\ UNCHANGED sendVars),
         UNCHANGED <<serverVars, failures>>, captured' >= captured, captured' \in Nat,
         \A e \in ToSet(q) : e > captured \/ e \in ToSet(queue)
  PROVE  Spent'
<1>1. ToSet(q) \cap ToSet(batch) = {} /\ ToSet(q) \subseteq Events
  BY ToSetEvents DEF IInv, Known, Spent, TypeOK
<1>2. captured \in Nat
  BY DEF IInv, TypeOK, SdkClientAssumption
<1>3. \A e \in Events : e > captured' => e > captured
  BY <1>2 DEF Events
<1>4. CASE queue' = q /\ UNCHANGED sendVars
  <2>1. \A e \in Events : ToBeSent(e)' => ToBeSent(e)
    BY <1>3, <1>4 DEF ToBeSent, sendVars
  <2> QED  BY <1>1, <1>4, <2>1, SpentStays DEF Spent, sendVars
<1>5. CASE queue' = <<>> /\ batch' = q /\ arrived' = {}
  <2>1. \A e \in Events : ToBeSent(e)' => ToBeSent(e)
    BY <1>3, <1>5, ToSetEmpty DEF ToBeSent
  <2> QED  BY <1>5, <2>1, ToSetEmpty, SpentStays
<1> QED  BY <1>4, <1>5 DEF FlushQueue

(* Every step keeps it: what arrives was paid for by a failure, or is first. *)
LEMMA SpentStep ==
  ASSUME SdkClientAssumption, IInv, Spent, [Next]_vars  PROVE Spent'
<1>1. /\ received \in [Events -> Nat] /\ late \in [Events -> Nat] /\ failures \in [Events -> Nat]
      /\ queue \in Seq(Events) /\ batch \in Seq(Events) /\ captured \in Nat
      /\ ToSet(queue) \subseteq Events /\ ToSet(batch) \subseteq Events
      /\ \A e \in ToSet(batch) : ~ (e > captured)
  BY ToSetEvents DEF IInv, TypeOK, Known, SdkClientAssumption
<1>2. CASE Capture
  <2>1. PICK q \in Seq(Events) :
          /\ FlushQueue(q) \/ (queue' = q /\ UNCHANGED sendVars)
          /\ \A e \in ToSet(q) : e > captured \/ e \in ToSet(queue)
    <3> DEFINE full == Len(queue) >= MaxQueueSize
               rest == IF full THEN Tail(queue) ELSE queue
               q == Append(rest, captured + 1)
    <3>1. captured + 1 \in Events
      BY <1>2 DEF Capture, Events, SdkClientAssumption, IInv, TypeOK
    <3>2. rest \in Seq(Events) /\ ToSet(rest) \subseteq ToSet(queue)
      <4>1. full => queue # <<>>
        BY <1>1 DEF SdkClientAssumption
      <4> QED  BY <1>1, <4>1, ToSetHeadTail
    <3>3. FlushQueue(q) \/ (queue' = q /\ UNCHANGED sendVars)
      BY <1>2 DEF Capture
    <3>4. q \in Seq(Events) /\ ToSet(q) = ToSet(rest) \cup {captured + 1}
      <4> HIDE DEF rest
      <4> QED  BY <3>1, <3>2, ToSetAppend
    <3> HIDE DEF q, rest
    <3> QED  BY <1>1, <3>2, <3>3, <3>4
  <2>2. captured' = captured + 1 /\ UNCHANGED <<serverVars, failures>>
    BY <1>2 DEF Capture
  <2> QED  BY <1>1, <2>1, <2>2, SpentFlush
<1>3. CASE Tick \/ \E c \in Calls : Flush(c) \/ ResumeFlush(c)
  <2>1. FlushQueue(queue) \/ (queue' = queue /\ UNCHANGED sendVars)
    BY <1>3 DEF Tick, Flush, ResumeFlush, FlushRest
  <2>2. UNCHANGED <<captured, serverVars, failures>>
    BY <1>3 DEF Tick, Flush, ResumeFlush
  <2> QED  BY <1>1, <2>1, <2>2, SpentFlush
<1>4. CASE AnswerOk \/ AnswerDenied
  <2>1. UNCHANGED <<captured, queue, batch, arrived, serverVars, failures>>
    BY <1>4 DEF AnswerOk, AnswerDenied
  <2>2. \A e \in Events : ToBeSent(e)' => ToBeSent(e)
    BY <1>4, <2>1 DEF AnswerOk, AnswerDenied, ToBeSent
  <2> QED  BY <2>1, <2>2, SpentStays DEF Spent
<1>5. CASE Destroy \/ UNCHANGED vars
  <2>1. UNCHANGED <<captured, queue, promise, batch, arrived, serverVars, failures>>
    BY <1>5 DEF Destroy, vars, sendVars
  <2>2. \A e \in Events : ToBeSent(e)' => ToBeSent(e)
    BY <2>1 DEF ToBeSent
  <2> QED  BY <2>1, <2>2, SpentStays DEF Spent
<1>6. CASE FlushEnds
  <2>1. UNCHANGED <<captured, queue, serverVars, failures>> /\ batch' = <<>> /\ arrived' = {}
    BY <1>6 DEF FlushEnds
  <2>2. \A e \in Events : ToBeSent(e)' => ToBeSent(e)
    BY <2>1, ToSetEmpty DEF ToBeSent
  <2> QED  BY <2>1, <2>2, ToSetEmpty, SpentStays
<1>7. CASE NextAttempt
  <2>1. /\ UNCHANGED <<captured, queue, batch, serverVars, failures>>
        /\ promise = "sleeping" /\ arrived' = {}
    BY <1>7 DEF NextAttempt
  <2>2. \A e \in Events : ToBeSent(e)' => ToBeSent(e)
    BY <2>1 DEF ToBeSent
  <2> QED  BY <2>1, <2>2, SpentStays DEF Spent
<1>8. CASE AnswerError \/ RequestFails
  <2>1. /\ UNCHANGED <<captured, queue, batch, arrived, received>>
        /\ failures' = CountedIn(failures, ToSet(batch)) /\ promise = "fetching"
        /\ late' \in {late, CountedIn(late, ToSet(batch) \ arrived)}
    BY <1>8 DEF AnswerError, RequestFails, AttemptFails, Answered
  <2>2. ASSUME NEW e \in Events
        PROVE  /\ failures'[e] = IF e \in ToSet(batch) THEN failures[e] + 1 ELSE failures[e]
               /\ late'[e] \in {late[e], IF e \in ToSet(batch) \ arrived THEN late[e] + 1 ELSE late[e]}
    BY <2>1 DEF CountedIn
  <2>3. ASSUME NEW e \in Events
        PROVE  /\ received[e] \in Nat /\ late[e] \in Nat /\ failures[e] \in Nat
               /\ received[e] + late[e] <= 1 + failures[e]
               /\ ToBeSent(e) => received[e] + late[e] <= failures[e]
    BY <1>1 DEF Spent, CopiesCostFailures, Paid
  <2>4. ASSUME NEW e \in Events, ToBeSent(e)'  PROVE Paid(e)'
    <3>1. CASE e \in ToSet(batch)
      <4>1. e \notin arrived => received[e] + late[e] <= failures[e]
        BY <2>3, <3>1 DEF ToBeSent
      <4> QED  BY <2>1, <2>2, <2>3, <3>1, <4>1 DEF Paid
    <3>2. CASE e \notin ToSet(batch)
      <4>1. ToBeSent(e)
        BY <2>1, <2>4, <3>2 DEF ToBeSent
      <4> QED  BY <2>1, <2>2, <2>3, <3>2, <4>1 DEF Paid
    <3> QED  BY <3>1, <3>2
  <2>5. ASSUME NEW e \in Events  PROVE received'[e] + late'[e] <= 1 + failures'[e]
    <3>1. e \in ToSet(batch) \ arrived => received[e] + late[e] <= failures[e]
      BY <2>3 DEF ToBeSent
    <3> QED  BY <2>1, <2>2, <2>3, <3>1
  <2> QED  BY <2>1, <2>4, <2>5 DEF Spent, CopiesCostFailures
<1>9. ASSUME NEW x \in Events, ServerTakes(x)  PROVE Spent'
  <2>1. /\ UNCHANGED <<captured, queue, promise, batch, late, failures>>
        /\ promise = "fetching" /\ x \in ToSet(batch) \ arrived /\ arrived' = arrived \cup {x}
        /\ received' = CountedIn(received, {x})
    BY <1>9 DEF ServerTakes
  <2>2. \A e \in Events : received'[e] = IF e = x THEN received[e] + 1 ELSE received[e]
    BY <2>1 DEF CountedIn
  <2>3. received[x] + late[x] <= failures[x]
    BY <2>1 DEF Spent, ToBeSent, Paid
  <2>4. \A e \in Events : ToBeSent(e)' => ToBeSent(e) /\ e # x
    BY <1>1, <2>1 DEF ToBeSent, Spent
  <2>5. \A e \in Events : ToBeSent(e)' => Paid(e)'
    BY <2>1, <2>2, <2>4 DEF Spent, Paid
  <2>6. ASSUME NEW e \in Events  PROVE received'[e] + late'[e] <= 1 + failures'[e]
    <3>1. received[e] + late[e] <= 1 + failures[e]
      BY DEF Spent, CopiesCostFailures
    <3>2. /\ late'[e] = late[e] /\ failures'[e] = failures[e]
          /\ received[e] \in Nat /\ late[e] \in Nat /\ failures[e] \in Nat
      BY <1>1, <2>1
    <3>3. CASE e = x
      BY <2>2, <2>3, <3>2, <3>3
    <3>4. CASE e # x
      BY <2>2, <3>1, <3>2, <3>4
    <3> QED  BY <3>3, <3>4
  <2> QED  BY <2>1, <2>5, <2>6 DEF Spent, CopiesCostFailures
<1>10. ASSUME NEW x \in Events, LateArrival(x)  PROVE Spent'
  <2>1. /\ UNCHANGED <<captured, queue, promise, batch, arrived, failures>> /\ late[x] > 0
        /\ late' = [late EXCEPT ![x] = @ - 1] /\ received' = CountedIn(received, {x})
    BY <1>10 DEF LateArrival, sendVars
  <2>2. ASSUME NEW e \in Events  PROVE received'[e] + late'[e] = received[e] + late[e]
    <3>1. /\ received'[e] = IF e = x THEN received[e] + 1 ELSE received[e]
          /\ late'[e] = IF e = x THEN late[e] - 1 ELSE late[e]
      BY <1>1, <2>1 DEF CountedIn
    <3> QED  BY <1>1, <3>1
  <2>3. \A e \in Events : (ToBeSent(e)' <=> ToBeSent(e)) /\ (Paid(e)' <=> Paid(e))
    BY <2>1, <2>2 DEF ToBeSent, Paid
  <2> QED  BY <2>1, <2>2, <2>3 DEF Spent, CopiesCostFailures
<1> QED
  BY <1>2, <1>3, <1>4, <1>5, <1>6, <1>7, <1>8, <1>9, <1>10 DEF Next, SendNext, ServerNext

(* The server gets an event once more than attempts with it failed, at most, *)
(* whatever arrives late and however flushes overlap (sendBatchWithRetry).  *)
THEOREM CopiesArePaidFor == ASSUME SdkClientAssumption  PROVE Spec => []CopiesCostFailures
<1>1. Init => IInv /\ Spent
  <2> SUFFICES ASSUME Init PROVE Spent
    BY InitIInv
  <2> QED  BY ToSetEmpty DEF Init, Spent, Paid, CopiesCostFailures
<1>2. IInv /\ Spent /\ [Next]_vars => IInv' /\ Spent'
  BY SpentStep, TypeStep, BatchStep, KnownStep, VanishStep, LeftStep DEF IInv
<1>3. Spent => CopiesCostFailures
  BY DEF Spent
<1> QED  BY <1>1, <1>2, <1>3, PTL DEF Spec
=============================================================================
