--------------------------- MODULE DeliveryProofs ---------------------------
(***************************************************************************)
(* Delivery keeps what the broker accepted: proved for every set of        *)
(* requests, messages and projects, every batch and every bound.           *)
(***************************************************************************)
EXTENDS DeliveryProperties, SequenceTheorems, FiniteSetTheorems, TLAPS

-----------------------------------------------------------------------------
(* What the operations on the queue do to the set of messages it holds.     *)

(* What appending a message, as TakeMessage does, adds to a queue. *)
LEMMA ToSetAppend ==
  ASSUME NEW S, NEW s \in Seq(S), NEW x \in S
  PROVE  /\ Append(s, x) \in Seq(S) /\ ToSet(Append(s, x)) = ToSet(s) \cup {x}
         /\ Append(s, x) # <<>> /\ (s # <<>> => Head(Append(s, x)) = Head(s))
         /\ Len(Append(s, x)) = Len(s) + 1
<1>1. /\ Append(s, x) \in Seq(S)
      /\ Len(Append(s, x)) = Len(s) + 1
      /\ \A i \in 1..Len(s) : Append(s, x)[i] = s[i]
      /\ Append(s, x)[Len(s) + 1] = x
      /\ Len(s) \in Nat
  BY AppendProperties, LenProperties
<1>2. DOMAIN Append(s, x) = 1..(Len(s) + 1) /\ DOMAIN s = 1..Len(s)
  BY <1>1, LenProperties
<1>3. ToSet(Append(s, x)) = ToSet(s) \cup {x}
  BY <1>1, <1>2 DEF ToSet
<1>4. Append(s, x) # <<>>
  BY <1>1, EmptySeq
<1>5. s # <<>> => Head(Append(s, x)) = Head(s)
  BY <1>1, EmptySeq, HeadTailProperties
<1> QED  BY <1>1, <1>3, <1>4, <1>5

(* What requeueing deliveries in front of the queue, as Requeue does, keeps. *)
LEMMA ToSetConcat ==
  ASSUME NEW S, NEW s \in Seq(S), NEW t \in Seq(S)
  PROVE  s \o t \in Seq(S) /\ ToSet(s \o t) = ToSet(s) \cup ToSet(t)
<1>1. /\ s \o t \in Seq(S)
      /\ Len(s \o t) = Len(s) + Len(t)
      /\ \A i \in 1..(Len(s) + Len(t)) :
           (s \o t)[i] = IF i <= Len(s) THEN s[i] ELSE t[i - Len(s)]
      /\ Len(s) \in Nat /\ Len(t) \in Nat
  BY ConcatProperties, LenProperties
<1>2. /\ DOMAIN (s \o t) = 1..(Len(s) + Len(t))
      /\ DOMAIN s = 1..Len(s) /\ DOMAIN t = 1..Len(t)
  BY <1>1, LenProperties
<1>3. ASSUME NEW x \in ToSet(t)  PROVE x \in ToSet(s \o t)
  <2>1. PICK i \in 1..Len(t) : t[i] = x  BY <1>2, <1>3 DEF ToSet
  <2>2. (s \o t)[i + Len(s)] = x /\ i + Len(s) \in 1..(Len(s) + Len(t))
    BY <1>1, <2>1
  <2> QED  BY <1>2, <2>2 DEF ToSet
<1>4. ASSUME NEW x \in ToSet(s)  PROVE x \in ToSet(s \o t)
  BY <1>1, <1>2 DEF ToSet
<1>5. ASSUME NEW x \in ToSet(s \o t)  PROVE x \in ToSet(s) \cup ToSet(t)
  BY <1>1, <1>2 DEF ToSet
<1> QED  BY <1>1, <1>3, <1>4, <1>5

(* A sequence is its head and its tail. *)
LEMMA ToSetHeadTail ==
  ASSUME NEW S, NEW s \in Seq(S), s # <<>>
  PROVE  /\ Head(s) \in S /\ Tail(s) \in Seq(S)
         /\ ToSet(s) = {Head(s)} \cup ToSet(Tail(s))
         /\ Len(Tail(s)) = Len(s) - 1 /\ Len(s) \in Nat
<1>1. /\ Head(s) \in S /\ Tail(s) \in Seq(S) /\ Len(s) \in Nat \ {0}
      /\ DOMAIN s = 1..Len(s) /\ DOMAIN Tail(s) = 1..(Len(s) - 1)
      /\ Len(Tail(s)) = Len(s) - 1
      /\ Head(s) = s[1] /\ \A i \in 1..(Len(s) - 1) : Tail(s)[i] = s[i + 1]
  BY HeadTailProperties, EmptySeq, LenProperties
<1>2. \A i \in 1..Len(s) : i = 1 \/ (i - 1 \in DOMAIN Tail(s) /\ s[i] = Tail(s)[i - 1])
  BY <1>1
<1>3. \A i \in 1..Len(s) : s[i] \in {Head(s)} \cup ToSet(Tail(s))
  BY <1>1, <1>2 DEF ToSet
<1>4. ToSet(Tail(s)) \subseteq ToSet(s) /\ Head(s) \in ToSet(s)
  BY <1>1 DEF ToSet
<1>5. \A x \in ToSet(s) : \E i \in 1..Len(s) : x = s[i]
  BY <1>1 DEF ToSet
<1> QED  BY <1>1, <1>3, <1>4, <1>5

(* RemoveAt, which LoseUnsaved uses, removes no other message and adds none. *)
LEMMA ToSetRemoveAt ==
  ASSUME NEW S, NEW s \in Seq(S), NEW i \in DOMAIN s
  PROVE  /\ RemoveAt(s, i) \in Seq(S)
         /\ \A x \in ToSet(s) : x # s[i] => x \in ToSet(RemoveAt(s, i))
         /\ ToSet(RemoveAt(s, i)) \subseteq ToSet(s)
<1> DEFINE a == SubSeq(s, 1, i - 1)
           b == SubSeq(s, i + 1, Len(s))
<1>1. DOMAIN s = 1..Len(s) /\ Len(s) \in Nat /\ i \in 1..Len(s)
      /\ \A j \in 1..Len(s) : s[j] \in S
  BY LenProperties, ElementOfSeq
<1>2. /\ a \in Seq(S) /\ Len(a) = i - 1
      /\ \A j \in 1..(i - 1) : a[j] = s[j]
  BY <1>1, SubSeqProperties
<1>3. /\ b \in Seq(S) /\ Len(b) = Len(s) - i
      /\ \A j \in 1..(Len(s) - i) : b[j] = s[i + j]
  BY <1>1, SubSeqProperties
<1>4. RemoveAt(s, i) = a \o b
  BY DEF RemoveAt
<1> HIDE DEF a, b
<1>5. a \o b \in Seq(S) /\ ToSet(a \o b) = ToSet(a) \cup ToSet(b)
  BY <1>2, <1>3, ToSetConcat
<1>6. DOMAIN a = 1..(i - 1) /\ DOMAIN b = 1..(Len(s) - i)
  BY <1>2, <1>3, LenProperties
<1>7. ASSUME NEW x \in ToSet(s), x # s[i]  PROVE x \in ToSet(a) \cup ToSet(b)
  <2>1. PICK j \in 1..Len(s) : s[j] = x /\ j # i  BY <1>1, <1>7 DEF ToSet
  <2>2. CASE j < i
    <3>1. j \in 1..(i - 1) /\ a[j] = x  BY <1>1, <1>2, <2>1, <2>2
    <3> QED  BY <1>6, <3>1 DEF ToSet
  <2>3. CASE j > i
    <3>1. j - i \in 1..(Len(s) - i) /\ i + (j - i) = j  BY <1>1, <2>1, <2>3
    <3>2. b[j - i] = x  BY <1>3, <2>1, <3>1
    <3> QED  BY <1>6, <3>1, <3>2 DEF ToSet
  <2> QED  BY <1>1, <2>1, <2>2, <2>3
<1>8. ToSet(a) \subseteq ToSet(s)
  BY <1>1, <1>2, <1>6 DEF ToSet
<1>9. ToSet(b) \subseteq ToSet(s)
  <2>1. \A j \in 1..(Len(s) - i) : i + j \in 1..Len(s)
    BY <1>1
  <2> QED  BY <1>1, <1>3, <1>6, <2>1 DEF ToSet
<1> QED  BY <1>4, <1>5, <1>7, <1>8, <1>9

(* A message that is not in the queue yet is in it once when it is appended; *)
(* deliveries that are not in it are in it once when they are requeued.      *)
LEMMA InjectiveAppend ==
  ASSUME NEW S, NEW s \in Seq(S), NEW x \in S, IsInjective(s), x \notin ToSet(s)
  PROVE  IsInjective(Append(s, x))
<1>1. /\ DOMAIN Append(s, x) = 1..(Len(s) + 1) /\ DOMAIN s = 1..Len(s) /\ Len(s) \in Nat
      /\ \A i \in 1..Len(s) : Append(s, x)[i] = s[i]
      /\ Append(s, x)[Len(s) + 1] = x
  BY AppendProperties, LenProperties
<1>2. \A i \in 1..Len(s) : s[i] # x
  BY <1>1 DEF ToSet
<1>3. \A i \in 1..(Len(s) + 1) : i = Len(s) + 1 \/ i \in 1..Len(s)
  BY <1>1
<1> QED  BY <1>1, <1>2, <1>3 DEF IsInjective

LEMMA InjectiveConcat ==
  ASSUME NEW S, NEW s \in Seq(S), NEW t \in Seq(S), IsInjective(s), IsInjective(t),
         ToSet(s) \cap ToSet(t) = {}
  PROVE  IsInjective(s \o t)
<1>1. /\ DOMAIN (s \o t) = 1..(Len(s) + Len(t)) /\ Len(s) \in Nat /\ Len(t) \in Nat
      /\ DOMAIN s = 1..Len(s) /\ DOMAIN t = 1..Len(t)
      /\ \A i \in 1..(Len(s) + Len(t)) :
           (s \o t)[i] = IF i <= Len(s) THEN s[i] ELSE t[i - Len(s)]
  BY ConcatProperties, LenProperties
<1>2. \A i \in 1..Len(s), j \in 1..Len(t) : s[i] # t[j]
  BY <1>1 DEF ToSet
<1> SUFFICES ASSUME NEW i \in 1..(Len(s) + Len(t)), NEW j \in 1..(Len(s) + Len(t)),
                    (s \o t)[i] = (s \o t)[j]
             PROVE  i = j
  BY <1>1 DEF IsInjective
<1>3. CASE i <= Len(s) /\ j <= Len(s)
  BY <1>1, <1>3 DEF IsInjective
<1>4. CASE i > Len(s) /\ j > Len(s)
  <2>1. i - Len(s) \in 1..Len(t) /\ j - Len(s) \in 1..Len(t)
    BY <1>1, <1>4
  <2>2. t[i - Len(s)] = t[j - Len(s)]
    BY <1>1, <1>4
  <2>3. i - Len(s) = j - Len(s)
    BY <1>1, <2>1, <2>2 DEF IsInjective
  <2> QED  BY <1>1, <2>3
<1>5. CASE i <= Len(s) /\ j > Len(s)
  BY <1>1, <1>2, <1>5
<1>6. CASE i > Len(s) /\ j <= Len(s)
  BY <1>1, <1>2, <1>6
<1> QED  BY <1>1, <1>3, <1>4, <1>5, <1>6

(* Of a queue that holds no message twice, the tail does not hold the head.  *)
LEMMA InjectiveTail ==
  ASSUME NEW S, NEW s \in Seq(S), s # <<>>, IsInjective(s)
  PROVE  IsInjective(Tail(s)) /\ Head(s) \notin ToSet(Tail(s))
<1>1. /\ Len(s) \in Nat \ {0} /\ DOMAIN s = 1..Len(s) /\ DOMAIN Tail(s) = 1..(Len(s) - 1)
      /\ Head(s) = s[1] /\ \A i \in 1..(Len(s) - 1) : Tail(s)[i] = s[i + 1]
  BY HeadTailProperties, EmptySeq, LenProperties
<1>2. \A i \in 1..(Len(s) - 1) : i + 1 \in 1..Len(s) /\ i + 1 # 1
  BY <1>1
<1>3. Head(s) \notin ToSet(Tail(s))
  BY <1>1, <1>2 DEF ToSet, IsInjective
<1>4. ASSUME NEW i \in 1..(Len(s) - 1), NEW j \in 1..(Len(s) - 1), Tail(s)[i] = Tail(s)[j]
      PROVE  i = j
  <2>1. i + 1 = j + 1
    BY <1>1, <1>2, <1>4 DEF IsInjective
  <2> QED  BY <1>1, <2>1
<1> QED  BY <1>1, <1>3, <1>4 DEF IsInjective

(* ... and it still holds none twice when one is removed.                    *)
LEMMA InjectiveRemoveAt ==
  ASSUME NEW S, NEW s \in Seq(S), NEW i \in DOMAIN s, IsInjective(s)
  PROVE  IsInjective(RemoveAt(s, i))
<1> DEFINE a == SubSeq(s, 1, i - 1)
           b == SubSeq(s, i + 1, Len(s))
<1>1. DOMAIN s = 1..Len(s) /\ Len(s) \in Nat /\ i \in 1..Len(s)
      /\ \A j \in 1..Len(s) : s[j] \in S
  BY LenProperties, ElementOfSeq
<1>2. /\ a \in Seq(S) /\ DOMAIN a = 1..(i - 1)
      /\ \A j \in 1..(i - 1) : a[j] = s[j]
  BY <1>1, SubSeqProperties, LenProperties
<1>3. /\ b \in Seq(S) /\ DOMAIN b = 1..(Len(s) - i)
      /\ \A j \in 1..(Len(s) - i) : b[j] = s[i + j]
  BY <1>1, SubSeqProperties, LenProperties
<1>4. RemoveAt(s, i) = a \o b
  BY DEF RemoveAt
<1> HIDE DEF a, b
<1>5. (\A j \in 1..(i - 1) : j \in 1..Len(s)) /\ (\A j \in 1..(Len(s) - i) : i + j \in 1..Len(s))
  BY <1>1
<1>6. IsInjective(a)
  BY <1>1, <1>2, <1>5 DEF IsInjective
<1>7. IsInjective(b)
  <2> SUFFICES ASSUME NEW j \in 1..(Len(s) - i), NEW k \in 1..(Len(s) - i), b[j] = b[k]
               PROVE  j = k
    BY <1>3 DEF IsInjective
  <2>1. i + j = i + k
    BY <1>1, <1>3, <1>5 DEF IsInjective
  <2> QED  BY <1>1, <2>1
<1>8. ASSUME NEW j \in 1..(i - 1), NEW k \in 1..(Len(s) - i)  PROVE a[j] # b[k]
  <2>1. j # i + k
    BY <1>1
  <2> QED  BY <1>1, <1>2, <1>3, <1>5, <2>1 DEF IsInjective
<1>9. ToSet(a) \cap ToSet(b) = {}
  BY <1>2, <1>3, <1>8 DEF ToSet
<1> QED  BY <1>2, <1>3, <1>4, <1>6, <1>7, <1>9, InjectiveConcat

-----------------------------------------------------------------------------

(* forward has a message in hand whenever handleDelivery runs, and waits    *)
(* only for a call of that message.                                         *)
InHand ==
  /\ phase # "idle" => process # "down" /\ buffer # <<>>
  /\ process = "down" => channel = "closed"
  /\ phase # "calling" => call = None
  /\ call # None => calls[call].msg = Head(buffer)

(* LogInfo answers, and handleDelivery acks, only what MongoDB holds.       *)
Truthful ==
  /\ \A s \in Slots : calls[s].stage = "free" \/ calls[s].msg \in Messages
  /\ \A s \in Slots : calls[s].stage = "stored" => stored[calls[s].msg] > 0
  /\ verdict # "none" <=> phase = "settling"
  /\ verdict = "stored" => stored[Head(buffer)] > 0

(* What RabbitMQ took and has not lost is kept, and a request is accepted   *)
(* only on its confirms.                                                    *)
Secured ==
  /\ \A m \in Messages : wire[m] \in {"taken", "saved", "confirmed"} => Kept(m)
  /\ \A r \in Requests : request[r] = "202" => \A m \in Carries[r] : wire[m] = "confirmed"

(* AcceptedIsKept alone is not inductive: a step may lose a message only    *)
(* because of what the listener believes about it.                          *)
IInv == TypeOK /\ InHand /\ Truthful /\ Secured

(* The ways of a request that ends in a 503.                                *)
Fails(r) == ChannelFails(r) \/ GiveUpWaiting(r) \/ CloseChannel(r) \/ AnswerFailed(r)

-----------------------------------------------------------------------------
(* The initial state satisfies the invariant. *)
LEMMA InitIInv == ASSUME DeliveryAssumption  PROVE Init => IInv
<1> SUFFICES ASSUME Init PROVE IInv
  OBVIOUS
<1>1. TypeOK
  BY DEF DeliveryAssumption, Init, TypeOK, RequestStates, WireStates, Phases, Verdicts,
         Stages, Free
<1>2. InHand /\ Truthful
  BY DEF Init, InHand, Truthful, Free
<1>3. Secured
  BY DEF Init, Secured, DeliveryAssumption, Carries, Held, Kept
<1> QED  BY <1>1, <1>2, <1>3 DEF IInv
(* LogInfo's answers keep the logger's calls well-typed. *)
CallsOK == calls \in [Slots -> [msg : Messages \cup {None}, stage : Stages]]

(* A call of the logger that moves on or is answered stays a call. *)
LEMMA AnswerCalls ==
  ASSUME CallsOK, NEW s \in Slots, NEW stage \in Stages,
         Advance(s, stage) \/ Answer(s, stage)
  PROVE  CallsOK'
<1>1. calls[s].msg \in Messages \cup {None}
  BY DEF CallsOK
<1>2. [msg |-> calls[s].msg, stage |-> stage] \in [msg : Messages \cup {None}, stage : Stages]
  BY <1>1
<1>3. Free \in [msg : Messages \cup {None}, stage : Stages]
  BY DEF Free, Stages
<1> QED  BY <1>2, <1>3 DEF CallsOK, Advance, Answer

(* Every step keeps the types. *)
LEMMA TypeStep ==
  ASSUME DeliveryAssumption, IInv, [Next]_vars  PROVE TypeOK'
<1> USE DEF DeliveryAssumption, IInv, TypeOK, InHand, Truthful, RequestStates, WireStates,
            Phases, Verdicts, Stages, brokerVars, queueVars, listenerVars, loggerVars
<1>1. ASSUME NEW r \in Requests, PublishEvents(r)  PROVE TypeOK'
  BY <1>1 DEF PublishEvents
<1>2. ASSUME NEW r \in Requests, PublishNext(r)  PROVE TypeOK'
  BY <1>2 DEF PublishNext
<1>3. ASSUME NEW r \in Requests, AnswerAccepted(r)  PROVE TypeOK'
  BY <1>3 DEF AnswerAccepted, Turns
<1>4. ASSUME NEW r \in Requests, Fails(r)  PROVE TypeOK'
  <2>1. ASSUME NEW a \in {"unconfirmed", "failed", "503"}, NEW from, Turns(r, from, a)
        PROVE  TypeOK'
    BY <2>1 DEF Turns
  <2> QED  BY <1>4, <2>1 DEF Fails, ChannelFails, GiveUpWaiting, CloseChannel, AnswerFailed
<1>5. ASSUME NEW r \in Requests, NEW m \in Messages, ReceiveConfirm(r, m)  PROVE TypeOK'
  BY <1>5 DEF ReceiveConfirm
<1>6. CASE ConnectionLost
  BY <1>6 DEF ConnectionLost, Disconnect, Fault
<1>7. ASSUME NEW m \in Messages, TakeMessage(m)  PROVE TypeOK'
  BY <1>7, ToSetAppend DEF TakeMessage
<1>8. ASSUME NEW m \in Messages, RefuseMessage(m)  PROVE TypeOK'
  BY <1>8 DEF RefuseMessage, Fault
<1>9. ASSUME NEW m \in Messages, SaveMessage(m)  PROVE TypeOK'
  BY <1>9 DEF SaveMessage
<1>10. ASSUME NEW m \in Messages, PublishForeign(m)  PROVE TypeOK'
  BY <1>10, ToSetAppend DEF PublishForeign
<1>11. ASSUME NEW m \in Messages, LoseUnsaved(m)  PROVE TypeOK'
  BY <1>11, ToSetRemoveAt DEF LoseUnsaved
<1>12. CASE RabbitCrash
  BY <1>12, ToSetConcat, SMTT(30) DEF RabbitCrash, Disconnect, Fault, Requeue
<1>13. CASE RabbitRestart
  BY <1>13 DEF RabbitRestart
<1>14. CASE ChannelLost
  BY <1>14, ToSetConcat DEF ChannelLost, Requeue, Fault
<1>15. CASE Deliver
  BY <1>15, ToSetAppend, ToSetHeadTail DEF Deliver
<1>16. CASE StartListener
  BY <1>16 DEF StartListener
<1>17. CASE StopListener
  BY <1>17 DEF StopListener, Fault
<1>18. CASE HandleDelivery
  BY <1>18, ToSetHeadTail DEF HandleDelivery
<1>19. ASSUME NEW s \in Slots, CallLogger(s)  PROVE TypeOK'
  BY <1>19, ToSetHeadTail DEF CallLogger, Free
<1>20. CASE ReceiveReply
  BY <1>20 DEF ReceiveReply, Refused, Free
<1>21. CASE LoggerUnreachable
  BY <1>21 DEF LoggerUnreachable
<1>22. CASE CallTimesOut
  BY <1>22 DEF CallTimesOut, Abandon, Fault, Free
<1>23. CASE Retry
  BY <1>23 DEF Retry
<1>24. CASE GiveUp
  BY <1>24 DEF GiveUp
<1>25. CASE SettleDelivery
  <2>1. Head(buffer) \in Messages /\ Tail(buffer) \in Seq(Messages)
    BY <1>25, ToSetHeadTail DEF SettleDelivery
  <2>2. <<Head(buffer)>> \in Seq(Messages)
    BY <2>1
  <2>3. <<Head(buffer)>> \o ready \in Seq(Messages)
    BY <2>2, ToSetConcat
  <2>4. ready' \in Seq(Messages) /\ dropped' \in [Messages -> Verdicts]
    BY <1>25, <2>1, <2>3, ZenonT(60) DEF SettleDelivery
  <2> QED  BY <1>25, <2>1, <2>4, SMTT(30) DEF SettleDelivery
<1>26. CASE ListenReturns
  BY <1>26, ToSetConcat DEF ListenReturns, Requeue
<1>27. CASE ListenerCrash
  BY <1>27, ToSetConcat, SMTT(30) DEF ListenerCrash, Requeue, Abandon, Fault, Free
<1>28. ASSUME NEW s \in Slots, CheckProject(s)  PROVE TypeOK'
  <2>1. PICK stage \in Stages : Advance(s, stage) \/ Answer(s, stage)
    BY <1>28 DEF CheckProject
  <2>2. CallsOK'  BY <2>1, AnswerCalls DEF CallsOK
  <2> QED  BY <1>28, <2>2 DEF CheckProject, CallsOK
<1>29. ASSUME NEW s \in Slots, CacheProject(s)  PROVE TypeOK'
  <2>1. PICK stage \in Stages : Advance(s, stage) \/ Answer(s, stage)
    BY <1>29 DEF CacheProject
  <2>2. CallsOK'  BY <2>1, AnswerCalls DEF CallsOK
  <2>3. ProjectIn(s) \in Projects
    BY <1>29 DEF CacheProject, Running, ProjectIn
  <2> QED  BY <1>29, <2>2, <2>3 DEF CacheProject, CallsOK
<1>30. ASSUME NEW s \in Slots, InsertEvent(s)  PROVE TypeOK'
  <2>1. PICK stage \in Stages : Advance(s, stage) \/ Answer(s, stage)
    BY <1>30 DEF InsertEvent
  <2>2. CallsOK'  BY <2>1, AnswerCalls DEF CallsOK
  <2> QED  BY <1>30, <2>2 DEF InsertEvent, CallsOK, Running
<1>31. ASSUME NEW s \in Slots, DatabaseFails(s)  PROVE TypeOK'
  <2>1. PICK stage \in Stages : Advance(s, stage) \/ Answer(s, stage)
    BY <1>31 DEF DatabaseFails
  <2>2. CallsOK'  BY <2>1, AnswerCalls DEF CallsOK
  <2> QED  BY <1>31, <2>2 DEF DatabaseFails, CallsOK
<1>32. ASSUME NEW s \in Slots, InsertUnacknowledged(s)  PROVE TypeOK'
  <2>1. PICK stage \in Stages : Advance(s, stage) \/ Answer(s, stage)
    BY <1>32 DEF InsertUnacknowledged
  <2>2. CallsOK'  BY <2>1, AnswerCalls DEF CallsOK
  <2> QED  BY <1>32, <2>2 DEF InsertUnacknowledged, CallsOK, Running, Fault
<1>33. ASSUME NEW p \in Projects, DeleteProject(p)  PROVE TypeOK'
  BY <1>33 DEF DeleteProject
<1>34. ASSUME NEW p \in Projects, ForgetProject(p)  PROVE TypeOK'
  BY <1>34 DEF ForgetProject
<1>35. ASSUME NEW p \in Projects, ExpireProject(p)  PROVE TypeOK'
  BY <1>35 DEF ExpireProject
<1>36. CASE LoggerCrash
  BY <1>36 DEF LoggerCrash, Fault, Free
<1>37. CASE LoggerRestart
  BY <1>37 DEF LoggerRestart
<1>38. CASE UNCHANGED vars
  BY <1>38 DEF vars, brokerVars, queueVars, listenerVars, loggerVars
<1> QED
  BY <1>1, <1>2, <1>3, <1>4, <1>5, <1>6, <1>7, <1>8, <1>9, <1>10, <1>11, <1>12, <1>13, <1>14, <1>15, <1>16, <1>17, <1>18, <1>19, <1>20, <1>21, <1>22, <1>23, <1>24, <1>25, <1>26, <1>27, <1>28, <1>29, <1>30, <1>31, <1>32, <1>33, <1>34, <1>35, <1>36, <1>37, <1>38
  DEF Next, BrokerNext, Fails, RabbitNext, ListenerNext, LoggerNext, LogInfoNext

(* A call the listener waits for stays the call of the message in hand.     *)
LEMMA InHandStep ==
  ASSUME DeliveryAssumption, IInv, [Next]_vars  PROVE InHand'
<1> USE DEF IInv, InHand, vars, brokerVars, queueVars, listenerVars, loggerVars
<1> DEFINE seen == <<process, buffer, phase, channel, call, calls>>
<1>1. CASE UNCHANGED seen
  BY <1>1
<1>2. ASSUME BrokerNext  PROVE UNCHANGED seen
  BY <1>2 DEF BrokerNext, PublishEvents, PublishNext, ReceiveConfirm, AnswerAccepted,
              ChannelFails, GiveUpWaiting, CloseChannel, AnswerFailed, Turns,
              ConnectionLost
<1>3. ASSUME NEW m \in Messages,
             TakeMessage(m) \/ RefuseMessage(m) \/ SaveMessage(m) \/ PublishForeign(m)
               \/ LoseUnsaved(m)
      PROVE  UNCHANGED seen
  BY <1>3 DEF TakeMessage, RefuseMessage, SaveMessage, PublishForeign, LoseUnsaved
<1>4. CASE RabbitCrash
  BY <1>4 DEF RabbitCrash
<1>5. CASE ChannelLost
  BY <1>5 DEF ChannelLost
<1>6. CASE Deliver
  <2>1. Head(ready) \in Messages
    BY <1>6, ToSetHeadTail DEF Deliver, TypeOK
  <2>2. buffer' # <<>> /\ (buffer # <<>> => Head(buffer') = Head(buffer))
    BY <1>6, <2>1, ToSetAppend, ZenonT(60) DEF Deliver, TypeOK
  <2> QED  BY <1>6, <2>2 DEF Deliver
<1>7. CASE RabbitNext
  BY <1>1, <1>3, <1>4, <1>5, <1>6, <1>7 DEF RabbitNext, RabbitRestart
<1>8. CASE StartListener
  BY <1>8 DEF StartListener
<1>9. CASE StopListener
  BY <1>9 DEF StopListener
<1>10. CASE HandleDelivery
  BY <1>10 DEF HandleDelivery
<1>11. ASSUME NEW s \in Slots, CallLogger(s)  PROVE InHand'
  BY <1>11 DEF CallLogger, TypeOK, DeliveryAssumption
<1>12. CASE ReceiveReply
  BY <1>12 DEF ReceiveReply, Refused
<1>13. CASE LoggerUnreachable \/ CallTimesOut \/ Retry \/ GiveUp
  BY <1>13 DEF LoggerUnreachable, CallTimesOut, Retry, GiveUp
<1>14. CASE SettleDelivery
  BY <1>14 DEF SettleDelivery
<1>15. CASE ListenReturns
  BY <1>15 DEF ListenReturns
<1>16. CASE ListenerCrash
  BY <1>16 DEF ListenerCrash
<1>17. CASE ListenerNext
  BY <1>8, <1>9, <1>10, <1>11, <1>12, <1>13, <1>14, <1>15, <1>16, <1>17 DEF ListenerNext
<1>18. ASSUME NEW s \in Slots, LogInfoNext(s) \/ InsertUnacknowledged(s)  PROVE InHand'
  <2>1. UNCHANGED <<process, buffer, phase, channel, call>>
    BY <1>18 DEF LogInfoNext, CheckProject, CacheProject, InsertEvent, DatabaseFails,
                 InsertUnacknowledged
  <2>2. PICK stage \in Stages : Advance(s, stage) \/ Answer(s, stage)
    BY <1>18 DEF LogInfoNext, CheckProject, CacheProject, InsertEvent, DatabaseFails,
                 InsertUnacknowledged, Stages
  <2>3. call # None => calls'[call].msg = calls[call].msg
    BY <2>2 DEF Advance, Answer, TypeOK
  <2> QED  BY <2>1, <2>3
<1>19. ASSUME NEW p \in Projects, DeleteProject(p) \/ ForgetProject(p) \/ ExpireProject(p)
       PROVE  UNCHANGED seen
  BY <1>19 DEF DeleteProject, ForgetProject, ExpireProject
<1>20. CASE LoggerCrash
  BY <1>20 DEF LoggerCrash
<1>21. CASE LoggerNext
  BY <1>1, <1>18, <1>19, <1>20, <1>21 DEF LoggerNext, LoggerRestart
<1> QED  BY <1>1, <1>2, <1>7, <1>17, <1>21 DEF Next

(* LogInfo's outcomes: what it answered as stored is, and nothing is unstored. *)
LEMMA LogInfoStep ==
  ASSUME DeliveryAssumption, IInv, NEW s \in Slots, LogInfoNext(s) \/ InsertUnacknowledged(s)
  PROVE  /\ UNCHANGED <<brokerVars, queueVars, listenerVars, dropped>>
         /\ \A m \in Messages : stored'[m] \in Nat /\ stored'[m] >= stored[m]
         /\ \A t \in Slots : calls'[t].stage = "free" \/ calls'[t].msg \in Messages
         /\ \A t \in Slots : calls'[t].stage = "stored" => stored'[calls'[t].msg] > 0
<1> DEFINE Answered(stage) ==
      \A t \in Slots : calls'[t] \in {calls[t], Free, [msg |-> calls[s].msg, stage |-> stage]}
    Progress == CheckProject(s) \/ CacheProject(s) \/ DatabaseFails(s)
    Inserts == InsertEvent(s) \/ InsertUnacknowledged(s)
<1>1. calls[s].msg \in Messages
  BY DEF LogInfoNext, CheckProject, CacheProject, DatabaseFails, InsertEvent,
         InsertUnacknowledged, Running, IInv, Truthful
<1>2. ASSUME NEW stage, Advance(s, stage) \/ Answer(s, stage)  PROVE Answered(stage)
  BY <1>2 DEF Advance, Answer, IInv, TypeOK
<1>3. UNCHANGED <<brokerVars, queueVars, listenerVars, dropped>>
  BY DEF LogInfoNext, CheckProject, CacheProject, DatabaseFails, InsertEvent,
         InsertUnacknowledged, brokerVars, queueVars, listenerVars
<1>4. ASSUME Inserts
      PROVE  stored' = [stored EXCEPT ![calls[s].msg] = stored[calls[s].msg] + 1]
  BY <1>4 DEF InsertEvent, InsertUnacknowledged
<1>5. ASSUME Progress  PROVE stored' = stored
  BY <1>5 DEF CheckProject, CacheProject, DatabaseFails
<1>6. \A m \in Messages : stored'[m] \in Nat /\ stored'[m] >= stored[m]
  <2>1. stored' = stored \/ stored' = [stored EXCEPT ![calls[s].msg] = stored[calls[s].msg] + 1]
    BY <1>4, <1>5 DEF LogInfoNext
  <2>2. stored \in [Messages -> Nat]
    BY DEF IInv, TypeOK
  <2> QED  BY <1>1, <2>1, <2>2
<1>7. PICK stage \in Stages : Answered(stage) /\ (stage = "stored" => Inserts)
  <2>1. CASE CheckProject(s)
    BY <1>2, <2>1 DEF CheckProject, Stages
  <2>2. CASE CacheProject(s)
    BY <1>2, <2>2 DEF CacheProject, Stages
  <2>3. CASE DatabaseFails(s)
    BY <1>2, <2>3 DEF DatabaseFails, Stages
  <2>4. CASE InsertEvent(s)
    BY <1>2, <2>4 DEF InsertEvent, Stages
  <2>5. CASE InsertUnacknowledged(s)
    BY <1>2, <2>5 DEF InsertUnacknowledged, Stages
  <2> QED  BY <2>1, <2>2, <2>3, <2>4, <2>5 DEF LogInfoNext
<1>8. \A t \in Slots : calls'[t].stage = "free" \/ calls'[t].msg \in Messages
  BY <1>1, <1>7 DEF Free, IInv, Truthful
<1>9. ASSUME NEW t \in Slots, calls'[t].stage = "stored"  PROVE stored'[calls'[t].msg] > 0
  <2>0. stored \in [Messages -> Nat]
    BY DEF IInv, TypeOK
  <2>1. CASE calls'[t] = calls[t]
    <3>1. calls[t].msg \in Messages /\ stored[calls[t].msg] > 0
      BY <1>9, <2>1 DEF IInv, Truthful, Free
    <3> QED  BY <1>6, <2>0, <2>1, <3>1
  <2>2. CASE calls'[t] = Free
    BY <1>9, <2>2 DEF Free
  <2>3. CASE calls'[t] = [msg |-> calls[s].msg, stage |-> stage]
    BY <1>1, <1>4, <1>7, <1>9, <2>3 DEF IInv, TypeOK
  <2> QED  BY <1>7, <2>1, <2>2, <2>3
<1> QED  BY <1>3, <1>6, <1>8, <1>9

(* An ack is only ever decided on what MongoDB holds.                       *)
LEMMA TruthfulStep ==
  ASSUME DeliveryAssumption, IInv, [Next]_vars  PROVE Truthful'
<1> USE DEF IInv, InHand, Truthful, vars, brokerVars, queueVars, listenerVars, loggerVars
<1> DEFINE seen == <<buffer, phase, verdict, calls, stored>>
<1>1. CASE UNCHANGED seen
  BY <1>1
<1>2. ASSUME BrokerNext  PROVE UNCHANGED seen
  BY <1>2 DEF BrokerNext, PublishEvents, PublishNext, ReceiveConfirm, AnswerAccepted,
              ChannelFails, GiveUpWaiting, CloseChannel, AnswerFailed, Turns,
              ConnectionLost
<1>3. ASSUME NEW m \in Messages,
             TakeMessage(m) \/ RefuseMessage(m) \/ SaveMessage(m) \/ PublishForeign(m)
               \/ LoseUnsaved(m)
      PROVE  UNCHANGED seen
  BY <1>3 DEF TakeMessage, RefuseMessage, SaveMessage, PublishForeign, LoseUnsaved
<1>4. ASSUME RabbitCrash \/ RabbitRestart \/ ChannelLost  PROVE UNCHANGED seen
  BY <1>4 DEF RabbitCrash, RabbitRestart, ChannelLost
<1>5. CASE Deliver
  <2>1. Head(ready) \in Messages
    BY <1>5, ToSetHeadTail DEF Deliver, TypeOK
  <2>2. buffer # <<>> => Head(buffer') = Head(buffer)
    BY <1>5, <2>1, ToSetAppend DEF Deliver, TypeOK
  <2> QED  BY <1>5, <2>2 DEF Deliver
<1>6. CASE RabbitNext
  BY <1>1, <1>3, <1>4, <1>5, <1>6 DEF RabbitNext
<1>7. CASE StartListener
  BY <1>7 DEF StartListener
<1>8. CASE StopListener
  BY <1>8 DEF StopListener
<1>9. CASE HandleDelivery
  BY <1>9 DEF HandleDelivery
<1>10. ASSUME NEW s \in Slots, CallLogger(s)  PROVE Truthful'
  <2>1. Head(buffer) \in Messages
    BY <1>10, ToSetHeadTail DEF CallLogger, TypeOK
  <2> QED  BY <1>10, <2>1 DEF CallLogger, TypeOK
<1>11. CASE ReceiveReply
  BY <1>11 DEF ReceiveReply, Refused, TypeOK, Free
<1>12. CASE CallTimesOut
  BY <1>12 DEF CallTimesOut, Abandon, Free
<1>13. CASE LoggerUnreachable \/ Retry \/ GiveUp
  BY <1>13 DEF LoggerUnreachable, Retry, GiveUp
<1>14. CASE SettleDelivery
  BY <1>14 DEF SettleDelivery
<1>15. CASE ListenReturns
  BY <1>15 DEF ListenReturns
<1>16. CASE ListenerCrash
  BY <1>16 DEF ListenerCrash, Abandon, Free
<1>17. CASE ListenerNext
  BY <1>7, <1>8, <1>9, <1>10, <1>11, <1>12, <1>13, <1>14, <1>15, <1>16, <1>17
  DEF ListenerNext
<1>18. ASSUME NEW s \in Slots, LogInfoNext(s) \/ InsertUnacknowledged(s)  PROVE Truthful'
  <2>1. phase # "idle" => Head(buffer) \in Messages
    BY ToSetHeadTail DEF TypeOK
  <2> QED  BY <1>18, <2>1, LogInfoStep DEF TypeOK
<1>19. ASSUME NEW p \in Projects, DeleteProject(p) \/ ForgetProject(p) \/ ExpireProject(p)
       PROVE  UNCHANGED seen
  BY <1>19 DEF DeleteProject, ForgetProject, ExpireProject
<1>20. CASE LoggerCrash
  BY <1>20 DEF LoggerCrash, Free
<1>21. CASE LoggerNext
  BY <1>1, <1>18, <1>19, <1>20, <1>21 DEF LoggerNext, LoggerRestart
<1> QED  BY <1>1, <1>2, <1>6, <1>17, <1>21 DEF Next

(* No step loses a message RabbitMQ took: it leaves the queue only when      *)
(* MongoDB holds it, when it is dropped for a cause, or when RabbitMQ loses  *)
(* what it had not confirmed.                                                *)
LEMMA KeptStep ==
  ASSUME DeliveryAssumption, IInv, [Next]_vars, NEW m \in Messages, Kept(m),
         wire'[m] # "lost"
  PROVE  Kept(m)'
<1> USE DEF IInv, InHand, vars, brokerVars, queueVars, listenerVars, loggerVars
<1>0. ready \in Seq(Messages) /\ buffer \in Seq(Messages) /\ stored \in [Messages -> Nat]
      /\ dropped \in [Messages -> Verdicts]
  BY DEF TypeOK
<1> DEFINE seen == <<ready, buffer, channel, stored, dropped>>
<1>1. ASSUME UNCHANGED seen  PROVE Kept(m)'
  BY <1>1 DEF Kept, Held
<1>2. ASSUME BrokerNext  PROVE UNCHANGED seen
  BY <1>2 DEF BrokerNext, PublishEvents, PublishNext, ReceiveConfirm, AnswerAccepted,
              ChannelFails, GiveUpWaiting, CloseChannel, AnswerFailed, Turns,
              ConnectionLost
<1>3. ASSUME NEW n \in Messages, RefuseMessage(n) \/ SaveMessage(n)  PROVE UNCHANGED seen
  BY <1>3 DEF RefuseMessage, SaveMessage
<1>4. ASSUME NEW n \in Messages, TakeMessage(n) \/ PublishForeign(n)  PROVE Kept(m)'
  <2>1. ready' = Append(ready, n) /\ UNCHANGED <<buffer, channel, stored, dropped>>
    BY <1>4 DEF TakeMessage, PublishForeign
  <2> QED  BY <1>0, <2>1, ToSetAppend DEF Kept, Held
<1>5. ASSUME NEW n \in Messages, LoseUnsaved(n)  PROVE Kept(m)'
  <2>1. PICK i \in DOMAIN ready : ready[i] = n /\ ready' = RemoveAt(ready, i)
    BY <1>5 DEF LoseUnsaved
  <2>2. m # n
    BY <1>5 DEF LoseUnsaved, TypeOK
  <2>3. m \in ToSet(ready) => m \in ToSet(ready')
    BY <1>0, <2>1, <2>2, ToSetRemoveAt
  <2> QED  BY <1>5, <2>3 DEF LoseUnsaved, Kept, Held
<1>6. ASSUME channel' = "closed", ready' = Requeue, UNCHANGED <<stored, dropped>>
      PROVE  Kept(m)'
  BY <1>0, <1>6, ToSetConcat DEF Requeue, Kept, Held
<1>7. CASE RabbitCrash \/ ChannelLost \/ ListenReturns \/ ListenerCrash
  BY <1>6, <1>7 DEF RabbitCrash, ChannelLost, ListenReturns, ListenerCrash
<1>8. CASE Deliver
  <2>1. /\ Head(ready) \in Messages
        /\ ToSet(ready) = {Head(ready)} \cup ToSet(ready')
        /\ ToSet(buffer') = ToSet(buffer) \cup {Head(ready)}
    BY <1>0, <1>8, ToSetHeadTail, ToSetAppend DEF Deliver
  <2> QED  BY <1>8, <2>1 DEF Deliver, Kept, Held
<1>9. CASE RabbitNext
  BY <1>1, <1>3, <1>4, <1>5, <1>7, <1>8, <1>9 DEF RabbitNext, RabbitRestart
<1>10. CASE StartListener
  BY <1>10 DEF StartListener, Kept, Held
<1>11. CASE SettleDelivery
  <2>1. Head(buffer) \in Messages /\ ToSet(buffer) = {Head(buffer)} \cup ToSet(buffer')
    BY <1>0, <1>11, ToSetHeadTail DEF SettleDelivery
  <2>2. CASE channel = "closed"
    BY <1>11, <2>2 DEF SettleDelivery, Kept, Held
  <2>3. CASE channel = "open" /\ verdict = "shutdown"
    <3> DEFINE h == <<Head(buffer)>>
    <3>1. h \in Seq(Messages) /\ Head(buffer) \in ToSet(h)
      BY <2>1 DEF ToSet
    <3>2. Head(buffer) \in ToSet(ready') /\ ToSet(ready) \subseteq ToSet(ready')
      <4>1. ready' = h \o ready
        BY <1>11, <2>3 DEF SettleDelivery
      <4> HIDE DEF h
      <4>2. ToSet(h \o ready) = ToSet(h) \cup ToSet(ready)
        BY <1>0, <3>1, ToSetConcat
      <4> QED  BY <3>1, <4>1, <4>2
    <3>3. UNCHANGED <<channel, stored, dropped>>
      BY <1>11, <2>3 DEF SettleDelivery
    <3> QED  BY <2>1, <2>3, <3>2, <3>3 DEF Kept, Held
  <2>4. CASE channel = "open" /\ verdict = "stored"
    BY <1>11, <2>1, <2>4 DEF SettleDelivery, Kept, Held, Truthful
  <2>5. CASE channel = "open" /\ verdict \notin {"shutdown", "stored"}
    <3>1. verdict # "none"
      BY <1>11 DEF SettleDelivery, Truthful
    <3>2. dropped'[Head(buffer)] # "none"
          /\ \A n \in Messages : dropped[n] # "none" => dropped'[n] # "none"
      BY <1>0, <1>11, <2>1, <2>5, <3>1 DEF SettleDelivery
    <3> QED  BY <1>11, <2>1, <2>5, <3>2 DEF SettleDelivery, Kept, Held
  <2> QED  BY <2>2, <2>3, <2>4, <2>5 DEF TypeOK
<1>12. ASSUME NEW s \in Slots, CallLogger(s)  PROVE UNCHANGED seen
  BY <1>12 DEF CallLogger
<1>13. ASSUME StopListener \/ HandleDelivery \/ ReceiveReply \/ LoggerUnreachable
                \/ CallTimesOut \/ Retry \/ GiveUp
       PROVE  UNCHANGED seen
  BY <1>13 DEF StopListener, HandleDelivery, ReceiveReply, LoggerUnreachable, CallTimesOut,
               Retry, GiveUp
<1>14. CASE ListenerNext
  BY <1>1, <1>7, <1>10, <1>11, <1>12, <1>13, <1>14 DEF ListenerNext
<1>15. ASSUME NEW s \in Slots, LogInfoNext(s) \/ InsertUnacknowledged(s)  PROVE Kept(m)'
  <2>1. UNCHANGED <<ready, buffer, channel, dropped>> /\ stored'[m] \in Nat
        /\ stored'[m] >= stored[m]
    BY <1>15, LogInfoStep
  <2> QED  BY <1>0, <2>1 DEF Kept, Held
<1>16. ASSUME NEW p \in Projects, DeleteProject(p) \/ ForgetProject(p) \/ ExpireProject(p)
       PROVE  UNCHANGED seen
  BY <1>16 DEF DeleteProject, ForgetProject, ExpireProject
<1>17. CASE LoggerNext
  BY <1>1, <1>15, <1>16, <1>17 DEF LoggerNext, LoggerCrash, LoggerRestart
<1> QED  BY <1>1, <1>2, <1>9, <1>14, <1>17 DEF Next

(* How publishing moves on: RabbitMQ holds what it takes, and a confirmed    *)
(* message stays confirmed.                                                  *)
Taken == {"taken", "saved", "confirmed"}

(* A message leaves the exchange for the queue, and a confirm stays. *)
LEMMA WireStep ==
  ASSUME DeliveryAssumption, IInv, [Next]_vars, NEW m \in Messages
  PROVE  /\ wire'[m] \in Taken => wire[m] \in Taken \/ m \in ToSet(ready')
         /\ wire[m] = "confirmed" => wire'[m] = "confirmed"
<1> USE DEF IInv, vars, brokerVars, queueVars, listenerVars, loggerVars, Taken
<1>0. ready \in Seq(Messages) /\ wire \in [Messages -> WireStates]
  BY DEF TypeOK
<1>1. CASE UNCHANGED wire
  BY <1>1
<1>2. ASSUME NEW r \in Requests, PublishNext(r)
      PROVE  wire'[m] = wire[m] \/ (wire'[m] = "sent" /\ wire[m] = "unsent")
  <2>1. PICK n : wire[n] = "unsent" /\ wire' = [wire EXCEPT ![n] = "sent"]
    BY <1>2 DEF PublishNext
  <2> QED  BY <1>0, <2>1
<1>3. CASE ConnectionLost \/ RabbitCrash
  BY <1>0, <1>3 DEF ConnectionLost, RabbitCrash, Disconnect
<1>4. ASSUME NEW r \in Requests, NEW n \in Messages, ReceiveConfirm(r, n)
      PROVE  wire'[m] \in Taken => wire[m] \in Taken /\ wire'[m] \in {wire[m], "confirmed"}
  BY <1>0, <1>4 DEF ReceiveConfirm
<1>5. ASSUME NEW r \in Requests, NEW n \in Messages, ReceiveConfirm(r, n)
      PROVE  wire[m] = "confirmed" => wire'[m] = "confirmed"
  BY <1>0, <1>5 DEF ReceiveConfirm
<1>6. ASSUME NEW r \in Requests, PublishEvents(r) \/ AnswerAccepted(r) \/ Fails(r)
      PROVE  UNCHANGED wire
  BY <1>6 DEF PublishEvents, AnswerAccepted, Fails, ChannelFails, GiveUpWaiting, CloseChannel,
              AnswerFailed, Turns
<1>7. CASE BrokerNext
  <2>1. CASE \E r \in Requests : PublishEvents(r) \/ AnswerAccepted(r) \/ Fails(r)
    BY <1>1, <1>6, <2>1
  <2>2. CASE \E r \in Requests : PublishNext(r)
    BY <1>2, <2>2
  <2>3. CASE \E r \in Requests, n \in Messages : ReceiveConfirm(r, n)
    BY <1>4, <1>5, <2>3
  <2> QED  BY <1>3, <1>7, <2>1, <2>2, <2>3 DEF BrokerNext, Fails
<1>8. ASSUME NEW n \in Messages, TakeMessage(n) \/ PublishForeign(n)
      PROVE  wire'[m] = wire[m] \/ (m \in ToSet(ready') /\ wire[m] # "confirmed")
  <2>1. ready' = Append(ready, n) /\ wire[n] # "confirmed"
    BY <1>8 DEF TakeMessage, PublishForeign
  <2>2. n \in ToSet(ready')
    BY <1>0, <2>1, ToSetAppend
  <2>3. wire'[m] = wire[m] \/ m = n
    BY <1>0, <1>8 DEF TakeMessage, PublishForeign
  <2> QED  BY <2>1, <2>2, <2>3
<1>9. ASSUME NEW n \in Messages, RefuseMessage(n) \/ SaveMessage(n) \/ LoseUnsaved(n)
      PROVE  \/ wire'[m] = wire[m]
             \/ wire[m] = "taken" /\ wire'[m] = "saved"
             \/ wire'[m] = "lost" /\ wire[m] # "confirmed"
  BY <1>0, <1>9 DEF RefuseMessage, SaveMessage, LoseUnsaved
<1>10. CASE RabbitRestart
  BY <1>0, <1>10 DEF RabbitRestart
<1>11. CASE RabbitNext
  BY <1>1, <1>3, <1>8, <1>9, <1>10, <1>11 DEF RabbitNext, ChannelLost, Deliver
<1>12. ASSUME ListenerNext  PROVE UNCHANGED wire
  BY <1>12 DEF ListenerNext, StartListener, StopListener, HandleDelivery, CallLogger,
               ReceiveReply, LoggerUnreachable, CallTimesOut, Retry, GiveUp, SettleDelivery,
               ListenReturns, ListenerCrash
<1>13. ASSUME LoggerNext  PROVE UNCHANGED wire
  BY <1>13 DEF LoggerNext, LogInfoNext, CheckProject, CacheProject, InsertEvent,
               DatabaseFails, InsertUnacknowledged, DeleteProject, ForgetProject,
               ExpireProject, LoggerCrash, LoggerRestart
<1> QED  BY <1>1, <1>7, <1>11, <1>12, <1>13 DEF Next

(* A request is answered 202 on its confirms, or was before. *)
LEMMA AcceptStep ==
  ASSUME DeliveryAssumption, IInv, [Next]_vars, NEW r \in Requests, request'[r] = "202"
  PROVE  request[r] = "202" \/ \A m \in Carries[r] : wire[m] = "confirmed"
<1> USE DEF IInv, vars, brokerVars, queueVars, listenerVars, loggerVars
<1>0. request \in [Requests -> RequestStates]
  BY DEF TypeOK
<1>1. ASSUME NEW q \in Requests, PublishEvents(q) \/ Fails(q)
      PROVE  request'[r] = request[r] \/ request'[r] # "202"
  BY <1>0, <1>1 DEF PublishEvents, Fails, ChannelFails, GiveUpWaiting, CloseChannel,
              AnswerFailed, Turns
<1>2. ASSUME NEW q \in Requests, AnswerAccepted(q)
      PROVE  request'[r] = request[r] \/ \A m \in Carries[r] : wire[m] = "confirmed"
  BY <1>0, <1>2 DEF AnswerAccepted, AllConfirmed, Turns
<1>3. CASE ConnectionLost \/ RabbitCrash
  BY <1>0, <1>3 DEF ConnectionLost, RabbitCrash, Disconnect
<1>4. ASSUME NEW q \in Requests, PublishNext(q) \/ \E m \in Messages : ReceiveConfirm(q, m)
      PROVE  UNCHANGED request
  BY <1>4 DEF PublishNext, ReceiveConfirm
<1>5. CASE BrokerNext
  BY <1>1, <1>2, <1>3, <1>4, <1>5 DEF BrokerNext, Fails
<1>6. CASE RabbitNext
  BY <1>3, <1>6 DEF RabbitNext, TakeMessage, RefuseMessage, SaveMessage, PublishForeign,
                    LoseUnsaved, RabbitRestart, ChannelLost, Deliver
<1>7. ASSUME ListenerNext  PROVE UNCHANGED request
  BY <1>7 DEF ListenerNext, StartListener, StopListener, HandleDelivery, CallLogger,
              ReceiveReply, LoggerUnreachable, CallTimesOut, Retry, GiveUp, SettleDelivery,
              ListenReturns, ListenerCrash
<1>8. ASSUME LoggerNext  PROVE UNCHANGED request
  BY <1>8 DEF LoggerNext, LogInfoNext, CheckProject, CacheProject, InsertEvent,
              DatabaseFails, InsertUnacknowledged, DeleteProject, ForgetProject,
              ExpireProject, LoggerCrash, LoggerRestart
<1> QED  BY <1>5, <1>6, <1>7, <1>8 DEF Next

(* The events of a request are messages. *)
LEMMA CarriesMessages ==
  ASSUME DeliveryAssumption, NEW r \in Requests  PROVE Carries[r] \subseteq Messages
<1>1. Batch[r] \in Seq(Messages)
  BY DEF DeliveryAssumption
<1>2. \A i \in 1..Len(Batch[r]) : Batch[r][i] \in Messages
  BY <1>1, ElementOfSeq
<1>3. DOMAIN Batch[r] = 1..Len(Batch[r])
  BY <1>1, LenProperties
<1> QED  BY <1>2, <1>3 DEF Carries, ToSet

(* What RabbitMQ took stays somewhere on its way to MongoDB, or is settled. *)
LEMMA SecuredStep ==
  ASSUME DeliveryAssumption, IInv, [Next]_vars  PROVE Secured'
<1>1. ASSUME NEW m \in Messages, wire'[m] \in Taken  PROVE Kept(m)'
  <2>1. CASE m \in ToSet(ready')
    BY <2>1 DEF Kept, Held
  <2>2. CASE wire[m] \in Taken
    BY <1>1, <2>2, KeptStep DEF IInv, Secured, Taken
  <2> QED  BY <1>1, <2>1, <2>2, WireStep
<1>2. ASSUME NEW r \in Requests, request'[r] = "202", NEW m \in Carries[r]
      PROVE  wire'[m] = "confirmed"
  <2>1. m \in Messages
    BY CarriesMessages
  <2>2. wire[m] = "confirmed"
    BY <1>2, AcceptStep DEF IInv, Secured
  <2> QED  BY <2>1, <2>2, WireStep
<1> QED  BY <1>1, <1>2 DEF Secured, Taken

-----------------------------------------------------------------------------
(* The inductive invariant holds in every reachable state. *)
THEOREM DeliveryInvariant == ASSUME DeliveryAssumption  PROVE Spec => []IInv
<1>1. Init => IInv
  BY InitIInv
<1>2. IInv /\ [Next]_vars => IInv'
  BY TypeStep, InHandStep, TruthfulStep, SecuredStep DEF IInv
<1> QED  BY <1>1, <1>2, PTL DEF Spec

(* Every variable keeps its type. *)
THEOREM TypeCorrect == ASSUME DeliveryAssumption  PROVE Spec => []TypeOK
<1>1. IInv => TypeOK
  BY DEF IInv
<1> QED  BY <1>1, DeliveryInvariant, PTL

(* What the broker answered 202 for is never lost, whatever the batch, the  *)
(* number of faults and the order of every step (publishEvents, Emitter,    *)
(* handleDelivery, forward, LogInfo).                                       *)
THEOREM AcceptedNeverLost == ASSUME DeliveryAssumption  PROVE Spec => []AcceptedIsKept
<1>1. IInv => AcceptedIsKept
  BY CarriesMessages DEF IInv, Secured, AcceptedIsKept
<1> QED  BY <1>1, DeliveryInvariant, PTL

-----------------------------------------------------------------------------
(* Why events are dropped.                                                 *)

(* LogInfo answers that a project does not exist, and the listener believes  *)
(* it, only of a project that is gone; and who gives an event up as refused  *)
(* has been refused.                                                       *)
Founded ==
  /\ \A s \in Slots : calls[s].stage = "unknown" => ProjectOf[calls[s].msg] \notin projects
  /\ verdict = "unknown_project" => ProjectOf[Head(buffer)] \notin projects
  /\ verdict = "refused" => refusals > 0
  /\ UnknownProjectIsGone

(* What LogInfo answers is founded: it looked the project up. *)
LEMMA AnswersFounded ==
  ASSUME DeliveryAssumption, IInv, Founded, NEW s \in Slots, LogInfoNext(s) \/ InsertUnacknowledged(s)
  PROVE  /\ \A t \in Slots : calls'[t].stage = "unknown" => ProjectOf[calls'[t].msg] \notin projects
         /\ UNCHANGED <<projects, verdict, buffer, refusals, dropped>>
<1> USE DEF LogInfoNext, CheckProject, CacheProject, InsertEvent, DatabaseFails, InsertUnacknowledged
<1> DEFINE Answered(stage) ==
      \A t \in Slots : calls'[t] \in {calls[t], Free, [msg |-> calls[s].msg, stage |-> stage]}
<1>1. ASSUME NEW stage, Advance(s, stage) \/ Answer(s, stage)  PROVE Answered(stage)
  BY <1>1 DEF Advance, Answer, IInv, TypeOK
<1>2. PICK stage : Answered(stage) /\ (stage = "unknown" => ProjectIn(s) \notin projects)
  <2>1. CASE CheckProject(s)
    <3>1. CASE Advance(s, "inserting") \/ Advance(s, "caching")
      <4>1. PICK stage \in {"inserting", "caching"} : Advance(s, stage)
        BY <3>1
      <4> QED  BY <1>1, <4>1
    <3>2. CASE Answer(s, "unknown") /\ ProjectIn(s) \notin projects
      BY <1>1, <3>2
    <3> QED  BY <2>1, <3>1, <3>2
  <2>2. CASE ~ CheckProject(s)
    <3>1. PICK stage \in {"inserting", "refused", "stored"} : Advance(s, stage) \/ Answer(s, stage)
      BY <2>2
    <3> QED  BY <1>1, <3>1
  <2> QED  BY <2>1, <2>2
<1>3. ASSUME NEW t \in Slots, calls'[t].stage = "unknown"
      PROVE  ProjectOf[calls'[t].msg] \notin projects
  BY <1>2, <1>3 DEF Founded, Free, ProjectIn
<1>4. UNCHANGED <<projects, verdict, buffer, refusals, dropped>>
  BY DEF listenerVars
<1> QED  BY <1>3, <1>4

(* Every step keeps it: a project that is gone does not come back. *)
LEMMA FoundedStep ==
  ASSUME DeliveryAssumption, IInv, Founded, [Next]_vars  PROVE Founded'
<1> USE DEF Founded, UnknownProjectIsGone, vars, brokerVars, queueVars, listenerVars, loggerVars
<1> DEFINE seen == <<calls, projects, verdict, buffer, refusals, dropped>>
<1>0. /\ InHand /\ Truthful /\ TypeOK
      /\ calls \in [Slots -> [msg : Messages \cup {None}, stage : Stages]]
  BY DEF IInv, TypeOK
<1>1. CASE UNCHANGED seen
  BY <1>1
<1>2. ASSUME BrokerNext  PROVE UNCHANGED seen
  BY <1>2 DEF BrokerNext, PublishEvents, PublishNext, ReceiveConfirm, AnswerAccepted,
              ChannelFails, GiveUpWaiting, CloseChannel, AnswerFailed, Turns,
              ConnectionLost
<1>3. ASSUME NEW m \in Messages,
             TakeMessage(m) \/ RefuseMessage(m) \/ SaveMessage(m) \/ PublishForeign(m)
               \/ LoseUnsaved(m)
      PROVE  UNCHANGED seen
  BY <1>3 DEF TakeMessage, RefuseMessage, SaveMessage, PublishForeign, LoseUnsaved
<1>4. ASSUME RabbitCrash \/ RabbitRestart \/ ChannelLost  PROVE UNCHANGED seen
  BY <1>4 DEF RabbitCrash, RabbitRestart, ChannelLost
<1>5. CASE Deliver
  <2>1. Head(ready) \in Messages
    BY <1>0, <1>5, ToSetHeadTail DEF Deliver, TypeOK
  <2>2. verdict # "none" => Head(buffer') = Head(buffer)
    BY <1>0, <1>5, <2>1, ToSetAppend DEF Deliver, TypeOK, InHand, Truthful
  <2> QED  BY <1>5, <2>2 DEF Deliver
<1>6. CASE RabbitNext
  BY <1>1, <1>3, <1>4, <1>5, <1>6 DEF RabbitNext
<1>7. CASE StartListener \/ ListenReturns
  BY <1>0, <1>7 DEF StartListener, ListenReturns, InHand, Truthful
<1>8. CASE HandleDelivery
  BY <1>0, <1>8 DEF HandleDelivery, Truthful
<1>9. ASSUME NEW s \in Slots, CallLogger(s)  PROVE Founded'
  BY <1>0, <1>9 DEF CallLogger
<1>10. CASE ReceiveReply
  <2>1. calls[call].msg = Head(buffer) /\ verdict = "none" /\ refusals \in Nat /\ call \in Slots
    BY <1>0, <1>10 DEF ReceiveReply, InHand, Truthful, TypeOK
  <2>2. \A t \in Slots : calls'[t] \in {calls[t], Free}
    BY <1>0, <1>10 DEF ReceiveReply
  <2> QED  BY <1>10, <2>1, <2>2 DEF ReceiveReply, Refused, Free
<1>11. CASE StopListener \/ LoggerUnreachable \/ Retry \/ GiveUp
  BY <1>11 DEF StopListener, LoggerUnreachable, Retry, GiveUp
<1>12. CASE CallTimesOut
  BY <1>0, <1>12 DEF CallTimesOut, Abandon, Free
<1>13. CASE SettleDelivery
  <2>1. dropped' = dropped \/ dropped' = [dropped EXCEPT ![Head(buffer)] = verdict]
    BY <1>13 DEF SettleDelivery
  <2> QED  BY <1>0, <1>13, <2>1 DEF SettleDelivery, TypeOK
<1>14. CASE ListenerCrash
  BY <1>0, <1>14 DEF ListenerCrash, Abandon, Free
<1>15. CASE ListenerNext
  BY <1>7, <1>8, <1>9, <1>10, <1>11, <1>12, <1>13, <1>14, <1>15 DEF ListenerNext
<1>16. ASSUME NEW s \in Slots, LogInfoNext(s) \/ InsertUnacknowledged(s)  PROVE Founded'
  BY <1>16, AnswersFounded
<1>17. ASSUME NEW q \in Projects, DeleteProject(q) \/ ForgetProject(q) \/ ExpireProject(q)
       PROVE  Founded'
  BY <1>17 DEF DeleteProject, ForgetProject, ExpireProject
<1>18. CASE LoggerCrash
  BY <1>18 DEF LoggerCrash, Free
<1>19. CASE LoggerNext
  BY <1>1, <1>16, <1>17, <1>18, <1>19 DEF LoggerNext, LoggerRestart
<1> QED  BY <1>1, <1>2, <1>6, <1>15, <1>19 DEF Next

(* Both invariants hold together. *)
LEMMA FoundedInvariant == ASSUME DeliveryAssumption  PROVE Spec => [](IInv /\ Founded)
<1>1. Init => IInv /\ Founded
  BY InitIInv DEF Init, Founded, Free, UnknownProjectIsGone
<1>2. IInv /\ Founded /\ [Next]_vars => IInv' /\ Founded'
  BY FoundedStep, TypeStep, InHandStep, TruthfulStep, SecuredStep DEF IInv
<1> QED  BY <1>1, <1>2, PTL DEF Spec

(* No event of a project that exists is dropped because its project does not *)
(* (projectCache.exists, forward).                                         *)
THEOREM LivingProjectsKeepEvents == ASSUME DeliveryAssumption  PROVE Spec => []UnknownProjectIsGone
<1>1. Founded => UnknownProjectIsGone
  BY DEF Founded
<1> QED  BY <1>1, FoundedInvariant, PTL

(* However long the logger stays away, an event is given up as refused only *)
(* if the logger has refused it in this delivery (forward).                *)
THEOREM OutagesDropNothing == ASSUME DeliveryAssumption  PROVE Spec => OutageDropsNothing
<1> DEFINE Drops == \A m \in Messages :
                      dropped'[m] = "refused" /\ dropped[m] # "refused" => refusals > 0
<1>1. IInv /\ Founded /\ [Next]_vars => [Drops]_vars
  <2> SUFFICES ASSUME IInv, Founded, Next, NEW m \in Messages,
                      dropped'[m] = "refused", dropped[m] # "refused"
               PROVE  refusals > 0
    OBVIOUS
  <2>1. ~ (BrokerNext \/ RabbitNext \/ LoggerNext)
    BY DEF BrokerNext, PublishEvents, PublishNext, ReceiveConfirm, AnswerAccepted, ChannelFails,
       GiveUpWaiting, CloseChannel, AnswerFailed, Turns, ConnectionLost, RabbitNext, TakeMessage, RefuseMessage, SaveMessage, PublishForeign, LoseUnsaved,
       RabbitCrash, RabbitRestart, ChannelLost, Deliver, LoggerNext, LogInfoNext, CheckProject,
       CacheProject, InsertEvent, DatabaseFails, InsertUnacknowledged, DeleteProject, ForgetProject,
       ExpireProject, LoggerCrash, LoggerRestart
  <2>2. SettleDelivery
    BY <2>1 DEF Next, ListenerNext, StartListener, StopListener, HandleDelivery, CallLogger, ReceiveReply,
       LoggerUnreachable, CallTimesOut, Retry, GiveUp, ListenReturns, ListenerCrash
  <2>3. verdict = "refused"
    BY <2>2 DEF SettleDelivery, IInv, TypeOK
  <2> QED  BY <2>3 DEF Founded
<1> QED  BY <1>1, FoundedInvariant, PTL DEF OutageDropsNothing, Spec
-----------------------------------------------------------------------------
(* The four processes implement AtLeastOnce.                               *)

(* Where a message leaves traces once it has got past the exchange.        *)
Abroad(m) == \/ m \in ToSet(ready) \/ m \in ToSet(buffer)
             \/ stored[m] > 0 \/ dropped[m] # "none"
             \/ \E s \in Slots : calls[s].msg = m

(* Nothing is known of a message that RabbitMQ has not taken, and nothing   *)
(* of a request is sent before it is accepted as well-formed.              *)
Unsent == {"unsent", "sent"}
Untouched == \A m \in Messages : wire[m] \in Unsent => ~ Abroad(m)
Unpublished ==
  /\ Untouched
  /\ \A r \in Requests : request[r] \in {"idle", "400"} =>
       \A m \in Carries[r] : wire[m] = "unsent"

(* A request is refused, if at all, when it arrives.                       *)
LEMMA RequestStep ==
  ASSUME DeliveryAssumption, IInv, [Next]_vars, NEW r \in Requests
  PROVE  request'[r] \in {"idle", "400"} => request[r] \in {request'[r], "idle"}
<1> USE DEF vars, brokerVars, queueVars, listenerVars, loggerVars
<1>0. request \in [Requests -> RequestStates]
  BY DEF IInv, TypeOK
<1>1. ASSUME NEW q \in Requests, PublishEvents(q) \/ Fails(q) \/ AnswerAccepted(q)
      PROVE  request'[r] = request[r] \/ request'[r] \notin {"idle", "400"} \/ request[r] = "idle"
  BY <1>0, <1>1 DEF PublishEvents, Fails, ChannelFails, GiveUpWaiting, CloseChannel,
              AnswerFailed, Turns, AnswerAccepted
<1>2. CASE ConnectionLost \/ RabbitCrash
  BY <1>0, <1>2 DEF ConnectionLost, RabbitCrash, Disconnect
<1>3. ASSUME NEW q \in Requests, PublishNext(q) \/ \E m \in Messages : ReceiveConfirm(q, m)
      PROVE  UNCHANGED request
  BY <1>3 DEF PublishNext, ReceiveConfirm
<1>4. CASE BrokerNext
  BY <1>1, <1>2, <1>3, <1>4 DEF BrokerNext, Fails
<1>5. CASE RabbitNext
  BY <1>2, <1>5 DEF RabbitNext, TakeMessage, RefuseMessage, SaveMessage, PublishForeign,
                    LoseUnsaved, RabbitRestart, ChannelLost, Deliver
<1>6. ASSUME ListenerNext  PROVE UNCHANGED request
  BY <1>6 DEF ListenerNext, StartListener, StopListener, HandleDelivery, CallLogger,
              ReceiveReply, LoggerUnreachable, CallTimesOut, Retry, GiveUp, SettleDelivery,
              ListenReturns, ListenerCrash
<1>7. ASSUME LoggerNext  PROVE UNCHANGED request
  BY <1>7 DEF LoggerNext, LogInfoNext, CheckProject, CacheProject, InsertEvent,
              DatabaseFails, InsertUnacknowledged, DeleteProject, ForgetProject,
              ExpireProject, LoggerCrash, LoggerRestart
<1> QED  BY <1>4, <1>5, <1>6, <1>7 DEF Next

(* A message is sent by the request that carries it, or by another          *)
(* publisher; what was taken is not unsent.                                *)
LEMMA SendStep ==
  ASSUME DeliveryAssumption, IInv, [Next]_vars, NEW m \in Messages
  PROVE  /\ wire[m] = "unsent" /\ wire'[m] # "unsent" =>
              m \in Foreign \/ \E r \in Requests : request[r] = "publishing" /\ m \in Carries[r]
         /\ wire'[m] \in Unsent => wire[m] \in Unsent
<1> USE DEF vars, brokerVars, queueVars, listenerVars, loggerVars, Unsent
<1>0. wire \in [Messages -> WireStates]
  BY DEF IInv, TypeOK
<1>1. CASE UNCHANGED wire
  BY <1>1
<1>2. ASSUME NEW r \in Requests, PublishNext(r)
      PROVE  wire'[m] = wire[m]
             \/ (wire'[m] = "sent" /\ wire[m] = "unsent" /\ request[r] = "publishing" /\ m \in Carries[r])
  <2>1. PICK i \in DOMAIN Batch[r] :
          wire[Batch[r][i]] = "unsent" /\ wire' = [wire EXCEPT ![Batch[r][i]] = "sent"]
    BY <1>2 DEF PublishNext
  <2>2. Batch[r][i] \in Carries[r]
    BY <2>1 DEF Carries, ToSet
  <2> QED  BY <1>0, <1>2, <2>1, <2>2 DEF PublishNext
<1>3. CASE ConnectionLost \/ RabbitCrash
  BY <1>0, <1>3 DEF ConnectionLost, RabbitCrash, Disconnect
<1>4. ASSUME NEW r \in Requests, NEW n \in Messages, ReceiveConfirm(r, n)
      PROVE  wire'[m] = wire[m] \/ (wire[m] \notin Unsent /\ wire'[m] \notin Unsent)
  BY <1>0, <1>4 DEF ReceiveConfirm
<1>5. ASSUME NEW r \in Requests, PublishEvents(r) \/ AnswerAccepted(r) \/ Fails(r)
      PROVE  UNCHANGED wire
  BY <1>5 DEF PublishEvents, AnswerAccepted, Fails, ChannelFails, GiveUpWaiting, CloseChannel,
              AnswerFailed, Turns
<1>6. CASE BrokerNext
  <2>1. CASE \E r \in Requests : PublishEvents(r) \/ AnswerAccepted(r) \/ Fails(r)
    BY <1>1, <1>5, <2>1
  <2>2. CASE \E r \in Requests : PublishNext(r)
    BY <1>2, <2>2
  <2>3. CASE \E r \in Requests, n \in Messages : ReceiveConfirm(r, n)
    BY <1>4, <2>3
  <2> QED  BY <1>3, <1>6, <2>1, <2>2, <2>3 DEF BrokerNext, Fails
<1>7. ASSUME NEW n \in Messages,
             TakeMessage(n) \/ PublishForeign(n) \/ RefuseMessage(n) \/ SaveMessage(n) \/ LoseUnsaved(n)
      PROVE  \/ wire'[m] = wire[m]
             \/ wire'[m] \notin Unsent /\ (wire[m] = "unsent" => m \in Foreign)
  BY <1>0, <1>7 DEF TakeMessage, PublishForeign, RefuseMessage, SaveMessage, LoseUnsaved
<1>8. CASE RabbitRestart
  BY <1>0, <1>8 DEF RabbitRestart
<1>9. CASE RabbitNext
  BY <1>1, <1>3, <1>7, <1>8, <1>9 DEF RabbitNext, ChannelLost, Deliver
<1>10. ASSUME ListenerNext  PROVE UNCHANGED wire
  BY <1>10 DEF ListenerNext, StartListener, StopListener, HandleDelivery, CallLogger,
               ReceiveReply, LoggerUnreachable, CallTimesOut, Retry, GiveUp, SettleDelivery,
               ListenReturns, ListenerCrash
<1>11. ASSUME LoggerNext  PROVE UNCHANGED wire
  BY <1>11 DEF LoggerNext, LogInfoNext, CheckProject, CacheProject, InsertEvent,
               DatabaseFails, InsertUnacknowledged, DeleteProject, ForgetProject,
               ExpireProject, LoggerCrash, LoggerRestart
<1> QED  BY <1>1, <1>6, <1>9, <1>10, <1>11 DEF Next

(* A call of the logger stores at most its own message, and no call turns   *)
(* to another one.                                                         *)
LEMMA LogInfoStores ==
  ASSUME DeliveryAssumption, IInv, NEW s \in Slots, LogInfoNext(s) \/ InsertUnacknowledged(s)
  PROVE  /\ calls[s].msg \in Messages
         /\ \/ UNCHANGED stored
            \/ stored' = [stored EXCEPT ![calls[s].msg] = stored[calls[s].msg] + 1]
         /\ \A t \in Slots : calls'[t].msg \in {calls[t].msg, calls[s].msg, None}
         /\ UNCHANGED <<brokerVars, queueVars, listenerVars, dropped>>
<1>1. calls[s].msg \in Messages
  BY DEF LogInfoNext, CheckProject, CacheProject, DatabaseFails, InsertEvent,
         InsertUnacknowledged, Running, IInv, Truthful
<1>2. ASSUME NEW stage, Advance(s, stage) \/ Answer(s, stage)
      PROVE  \A t \in Slots : calls'[t].msg \in {calls[t].msg, calls[s].msg, None}
  <2>1. \A t \in Slots : calls'[t] \in {calls[t], Free, [msg |-> calls[s].msg, stage |-> stage]}
    BY <1>2 DEF Advance, Answer, IInv, TypeOK
  <2> QED  BY <2>1 DEF Free
<1>3. UNCHANGED stored \/ stored' = [stored EXCEPT ![calls[s].msg] = stored[calls[s].msg] + 1]
  BY DEF LogInfoNext, CheckProject, CacheProject, DatabaseFails, InsertEvent,
         InsertUnacknowledged
<1>4. \E stage \in Stages : Advance(s, stage) \/ Answer(s, stage)
  BY DEF LogInfoNext, CheckProject, CacheProject, DatabaseFails, InsertEvent,
         InsertUnacknowledged, Stages
<1> QED  BY <1>1, <1>2, <1>3, <1>4, LogInfoStep

(* Only what RabbitMQ has just taken leaves its first traces.              *)
LEMMA AbroadStep ==
  ASSUME DeliveryAssumption, IInv, [Next]_vars, NEW m \in Messages, Abroad(m)'
  PROVE  Abroad(m) \/ wire'[m] \notin Unsent
<1> USE DEF IInv, InHand, vars, brokerVars, queueVars, listenerVars, loggerVars
<1>0. /\ ready \in Seq(Messages) /\ buffer \in Seq(Messages) /\ stored \in [Messages -> Nat]
      /\ dropped \in [Messages -> Verdicts] /\ call \in Slots \cup {None}
      /\ calls \in [Slots -> [msg : Messages \cup {None}, stage : Stages]]
      /\ wire \in [Messages -> WireStates]
  BY DEF TypeOK
<1> DEFINE seen == <<ready, buffer, stored, dropped>>
           inCalls == \A t \in Slots : calls'[t].msg \in {calls[t].msg, None}
<1>n. m # None
  BY DEF DeliveryAssumption
<1>1. ASSUME UNCHANGED seen, inCalls  PROVE Abroad(m)
  BY <1>1, <1>n DEF Abroad
<1>2. ASSUME BrokerNext  PROVE UNCHANGED <<seen, calls>>
  BY <1>2 DEF BrokerNext, PublishEvents, PublishNext, ReceiveConfirm, AnswerAccepted,
              ChannelFails, GiveUpWaiting, CloseChannel, AnswerFailed, Turns,
              ConnectionLost
<1>3. ASSUME NEW n \in Messages, RefuseMessage(n) \/ SaveMessage(n)  PROVE UNCHANGED <<seen, calls>>
  BY <1>3 DEF RefuseMessage, SaveMessage
<1>4. ASSUME NEW n \in Messages, TakeMessage(n) \/ PublishForeign(n)
      PROVE  Abroad(m) \/ wire'[m] \notin Unsent
  <2>1. /\ ready' = Append(ready, n) /\ UNCHANGED <<buffer, stored, dropped, calls>>
        /\ wire'[n] \notin Unsent
    BY <1>0, <1>4 DEF TakeMessage, PublishForeign, Unsent
  <2> QED  BY <1>0, <2>1, ToSetAppend DEF Abroad
<1>5. ASSUME NEW n \in Messages, LoseUnsaved(n)  PROVE Abroad(m)
  <2>1. PICK i \in DOMAIN ready : ready' = RemoveAt(ready, i)
    BY <1>5 DEF LoseUnsaved
  <2>2. ToSet(ready') \subseteq ToSet(ready)
    BY <1>0, <2>1, ToSetRemoveAt
  <2> QED  BY <1>5, <2>2 DEF LoseUnsaved, Abroad
<1>6. ASSUME ready' = Requeue, ToSet(buffer') \subseteq ToSet(buffer), UNCHANGED <<stored, dropped>>, inCalls
      PROVE  Abroad(m)
  <2>1. ToSet(ready') \subseteq ToSet(buffer) \cup ToSet(ready)
    BY <1>0, <1>6, ToSetConcat DEF Requeue
  <2> QED  BY <1>6, <1>n, <2>1 DEF Abroad
<1>7. CASE RabbitCrash \/ ChannelLost \/ ListenReturns
  <2>1. buffer' \in {buffer, <<>>} /\ ready' = Requeue /\ UNCHANGED <<stored, dropped, calls>>
    BY <1>7 DEF RabbitCrash, ChannelLost, ListenReturns
  <2> QED  BY <1>6, <2>1 DEF ToSet
<1>8. CASE ListenerCrash
  <2>1. buffer' = <<>> /\ ready' = Requeue /\ UNCHANGED <<stored, dropped>> /\ inCalls
    BY <1>0, <1>8 DEF ListenerCrash, Abandon, Free
  <2> QED  BY <1>6, <2>1 DEF ToSet
<1>9. CASE Deliver
  <2>1. /\ Head(ready) \in Messages
        /\ ToSet(ready) = {Head(ready)} \cup ToSet(ready')
        /\ ToSet(buffer') = ToSet(buffer) \cup {Head(ready)}
    BY <1>0, <1>9, ToSetHeadTail, ToSetAppend DEF Deliver
  <2> QED  BY <1>9, <2>1 DEF Deliver, Abroad
<1>10. CASE RabbitNext
  BY <1>1, <1>3, <1>4, <1>5, <1>7, <1>9, <1>10 DEF RabbitNext, RabbitRestart
<1>11. CASE StartListener
  <2>1. buffer' = <<>> /\ UNCHANGED <<ready, stored, dropped, calls>>
    BY <1>11 DEF StartListener
  <2> QED  BY <2>1 DEF Abroad, ToSet
<1>12. CASE SettleDelivery
  <2>1. Head(buffer) \in Messages /\ ToSet(buffer) = {Head(buffer)} \cup ToSet(buffer')
    BY <1>0, <1>12, ToSetHeadTail DEF SettleDelivery
  <2>2. ToSet(ready') \subseteq ToSet(ready) \cup {Head(buffer)}
    <3>1. ToSet(<<Head(buffer)>> \o ready) = {Head(buffer)} \cup ToSet(ready)
      <4> DEFINE h == <<Head(buffer)>>
      <4>1. h \in Seq(Messages) /\ ToSet(h) = {Head(buffer)}
        BY <2>1 DEF ToSet
      <4> HIDE DEF h
      <4>2. ToSet(h \o ready) = ToSet(h) \cup ToSet(ready)
        BY <1>0, <4>1, ToSetConcat
      <4> QED  BY <4>1, <4>2 DEF h
    <3> QED  BY <1>12, <3>1 DEF SettleDelivery
  <2>3. UNCHANGED <<stored, calls>> /\ \A n \in Messages \ {Head(buffer)} : dropped'[n] = dropped[n]
    BY <1>0, <1>12 DEF SettleDelivery
  <2> QED  BY <2>1, <2>2, <2>3 DEF Abroad
<1>13. ASSUME NEW s \in Slots, CallLogger(s)  PROVE Abroad(m)
  <2>1. Head(buffer) \in ToSet(buffer)
    BY <1>0, <1>13, ToSetHeadTail DEF CallLogger
  <2>2. \A t \in Slots : calls'[t].msg \in {calls[t].msg, Head(buffer)}
    BY <1>0, <1>13 DEF CallLogger
  <2> QED  BY <1>13, <2>1, <2>2 DEF CallLogger, Abroad
<1>14. ASSUME StopListener \/ HandleDelivery \/ LoggerUnreachable \/ Retry \/ GiveUp
       PROVE  UNCHANGED <<seen, calls>>
  BY <1>14 DEF StopListener, HandleDelivery, LoggerUnreachable, Retry, GiveUp
<1>15. ASSUME ReceiveReply \/ CallTimesOut  PROVE UNCHANGED seen /\ inCalls
  <2>1. \A t \in Slots : calls'[t] \in {calls[t], Free}
    BY <1>0, <1>15 DEF ReceiveReply, CallTimesOut, Abandon
  <2> QED  BY <1>15, <2>1 DEF ReceiveReply, CallTimesOut, Free
<1>16. CASE ListenerNext
  BY <1>1, <1>7, <1>8, <1>11, <1>12, <1>13, <1>14, <1>15, <1>16 DEF ListenerNext
<1>17. ASSUME NEW s \in Slots, LogInfoNext(s) \/ InsertUnacknowledged(s)  PROVE Abroad(m)
  <2>1. \A n \in Messages : stored'[n] = stored[n] \/ n = calls[s].msg
    BY <1>0, <1>17, LogInfoStores
  <2> QED  BY <1>n, <1>17, <2>1, LogInfoStores DEF Abroad
<1>18. ASSUME NEW p \in Projects, DeleteProject(p) \/ ForgetProject(p) \/ ExpireProject(p)
       PROVE  UNCHANGED <<seen, calls>>
  BY <1>18 DEF DeleteProject, ForgetProject, ExpireProject
<1>19. ASSUME LoggerCrash \/ LoggerRestart  PROVE UNCHANGED seen /\ inCalls
  BY <1>0, <1>19 DEF LoggerCrash, LoggerRestart, Free
<1>20. CASE LoggerNext
  BY <1>1, <1>17, <1>18, <1>19, <1>20 DEF LoggerNext
<1> QED  BY <1>1, <1>2, <1>10, <1>16, <1>20 DEF Next

(* Every step keeps it.                                                    *)
LEMMA UntouchedStep ==
  ASSUME DeliveryAssumption, IInv, Untouched, [Next]_vars  PROVE Untouched'
  BY AbroadStep, SendStep DEF Untouched

LEMMA UnpublishedStep ==
  ASSUME DeliveryAssumption, OneRequestEach, IInv, Unpublished, [Next]_vars  PROVE Unpublished'
<1>1. Untouched'
  BY UntouchedStep DEF Unpublished
<1>2. ASSUME NEW r \in Requests, request'[r] \in {"idle", "400"}, NEW m \in Carries[r]
      PROVE  wire'[m] = "unsent"
  <2>1. request[r] \in {"idle", "400"} /\ m \in Messages
    BY <1>2, RequestStep, CarriesMessages
  <2>2. wire[m] = "unsent"
    BY <2>1 DEF Unpublished
  <2>3. m \notin Foreign
    BY DEF DeliveryAssumption, Published
  <2>4. ASSUME NEW q \in Requests, m \in Carries[q]  PROVE q = r
    BY <2>4 DEF OneRequestEach
  <2> QED  BY <2>1, <2>2, <2>3, <2>4, SendStep
<1> QED  BY <1>1, <1>2 DEF Unpublished

(* What AtLeastOnce sees of a state.                                       *)
Told == [r \in Requests |-> Answer202(r)]
Ends == [m \in Messages |-> Fate(m)]

(* What RabbitMQ goes on holding ends no differently.                      *)
LEMMA SameEnds ==
  ASSUME UNCHANGED <<stored, dropped>>, \A m \in Messages : Held(m)' = Held(m)
  PROVE  Ends' = Ends
BY DEF Ends, Fate

(* A step that settles one message changes nothing else of the ends.       *)
LEMMA OneEnd ==
  ASSUME NEW n \in Messages, \A m \in Messages \ {n} : Fate(m)' = Fate(m)
  PROVE  Ends' = [Ends EXCEPT ![n] = Fate(n)']
BY DEF Ends

(* A step that answers one request tells its client alone.                 *)
LEMMA OneTold ==
  ASSUME TypeOK, NEW r \in Requests, NEW a, request' = [request EXCEPT ![r] = a]
  PROVE  Told' = [Told EXCEPT ![r] = IF a \in {"202", "400", "503"} THEN a ELSE "none"]
<1>1. request \in [Requests -> RequestStates]
  BY DEF TypeOK
<1> QED  BY <1>1 DEF Told, Answer202

(* A request whose connection broke has not been answered.                 *)
LEMMA FailedIsUntold == ASSUME TypeOK, Disconnect  PROVE Told' = Told
<1>1. request \in [Requests -> RequestStates]
  BY DEF TypeOK
<1> QED  BY <1>1 DEF Disconnect, Told, Answer202

(* A step that changes neither is unseen.                                  *)
LEMMA UnseenStep == ASSUME Told' = Told, Ends' = Ends  PROVE UNCHANGED Promise!vars
BY DEF Promise!vars, Told, Ends

(* What goes back to the queue stays in RabbitMQ's hands.                  *)
LEMMA RequeueHolds ==
  ASSUME TypeOK, channel' = "closed", ready' = Requeue, NEW m \in Messages
  PROVE  Held(m)' = Held(m)
<1>0. ready \in Seq(Messages) /\ buffer \in Seq(Messages) /\ channel \in {"open", "closed"}
  BY DEF TypeOK
<1>1. ToSet(buffer \o ready) = ToSet(buffer) \cup ToSet(ready)
  BY <1>0, ToSetConcat
<1> QED  BY <1>0, <1>1 DEF Requeue, Held

(* What the broker answers, AtLeastOnce answers.                           *)
LEMMA BrokerRefines ==
  ASSUME DeliveryAssumption, IInv, Unpublished, BrokerNext
  PROVE  [Promise!Next]_(Promise!vars)
<1> USE DEF brokerVars, queueVars, listenerVars, loggerVars
<1>0. TypeOK /\ request \in [Requests -> RequestStates]
  BY DEF IInv, TypeOK
<1>s. Ends' = Ends
  <2>1. UNCHANGED <<ready, buffer, channel, stored, dropped>>
    BY DEF BrokerNext, PublishEvents, PublishNext, ReceiveConfirm, AnswerAccepted, ChannelFails,
           GiveUpWaiting, CloseChannel, AnswerFailed, Turns, ConnectionLost
  <2> QED  BY <2>1, SameEnds DEF Held
<1>n. ASSUME NEW r \in Requests, Promise!Accept(r) \/ Promise!Fail(r) \/ Promise!Refuse(r)
      PROVE  Promise!Next
  BY <1>n DEF Promise!Next
<1>u. ASSUME Told' = Told  PROVE UNCHANGED Promise!vars
  BY <1>s, <1>u, UnseenStep
<1>f. ASSUME NEW r \in Requests, request[r] \in {"idle", "failed"},
             request' = [request EXCEPT ![r] = "503"]
      PROVE  Promise!Fail(r)
  <2>1. Told' = [Told EXCEPT ![r] = "503"] /\ Told[r] = "none"
    BY <1>0, <1>f, OneTold DEF Told, Answer202
  <2> QED  BY <1>s, <2>1 DEF Promise!Fail, Told, Ends
<1>1. ASSUME NEW r \in Requests, PublishEvents(r)  PROVE [Promise!Next]_(Promise!vars)
  <2>1. CASE request' = [request EXCEPT ![r] = "400"]
    <3>1. Told' = [Told EXCEPT ![r] = "400"] /\ Told[r] = "none"
      BY <1>0, <1>1, <2>1, OneTold DEF Told, Answer202, PublishEvents
    <3>2. ASSUME NEW m \in Carries[r]  PROVE Fate(m) = "nowhere"
      <4>1. m \in Messages /\ ~ Abroad(m)
        BY <1>1, CarriesMessages DEF Unpublished, Untouched, PublishEvents, Unsent
      <4>2. stored[m] \in Nat
        BY <1>0, <4>1 DEF TypeOK
      <4> QED  BY <4>1, <4>2 DEF Abroad, Fate, Held
    <3>3. Promise!Refuse(r)
      BY <1>s, <3>1, <3>2, CarriesMessages DEF Promise!Refuse, Told, Ends
    <3> QED  BY <1>n, <3>3
  <2>2. CASE request' = [request EXCEPT ![r] = "publishing"]
    <3>1. Told' = [Told EXCEPT ![r] = "none"] /\ Told[r] = "none" /\ Told \in [Requests -> {Told[q] : q \in Requests}]
      BY <1>0, <1>1, <2>2, OneTold DEF Told, Answer202, PublishEvents
    <3> QED  BY <1>u, <3>1
  <2>3. CASE request' = [request EXCEPT ![r] = "503"]
    BY <1>1, <1>f, <1>n, <2>3 DEF PublishEvents
  <2> QED  BY <1>1, <2>1, <2>2, <2>3 DEF PublishEvents
<1>2. ASSUME NEW r \in Requests, PublishNext(r) \/ \E m \in Messages : ReceiveConfirm(r, m)
      PROVE  [Promise!Next]_(Promise!vars)
  <2>1. UNCHANGED request
    BY <1>2 DEF PublishNext, ReceiveConfirm
  <2> QED  BY <1>u, <2>1 DEF Told, Answer202
<1>3. ASSUME NEW r \in Requests, AnswerAccepted(r)  PROVE Promise!Next
  <2>1. Told' = [Told EXCEPT ![r] = "202"] /\ Told[r] = "none"
    BY <1>0, <1>3, OneTold DEF Told, Answer202, AnswerAccepted, Turns
  <2>2. ASSUME NEW m \in Carries[r]  PROVE Fate(m) # "nowhere"
    <3>1. m \in Messages /\ Kept(m)
      BY <1>3, CarriesMessages DEF IInv, Secured, AnswerAccepted, AllConfirmed
    <3> QED  BY <3>1 DEF Kept, Fate
  <2>3. Promise!Accept(r)
    BY <1>s, <2>1, <2>2, CarriesMessages DEF Promise!Accept, Told, Ends
  <2> QED  BY <1>n, <2>3
<1>4. ASSUME NEW r \in Requests, AnswerFailed(r)  PROVE Promise!Next
  BY <1>4, <1>f, <1>n DEF AnswerFailed, Turns
<1>6. ASSUME NEW r \in Requests, NEW a \in {"unconfirmed", "failed"},
             request[r] \in {"publishing", "unconfirmed"}, request' = [request EXCEPT ![r] = a]
      PROVE  UNCHANGED Promise!vars
  <2>1. Told' = [Told EXCEPT ![r] = "none"] /\ Told[r] = "none"
        /\ Told \in [Requests -> {Told[q] : q \in Requests}]
    BY <1>0, <1>6, OneTold DEF Told, Answer202
  <2> QED  BY <1>u, <2>1
<1>7. ASSUME NEW r \in Requests, ChannelFails(r) \/ GiveUpWaiting(r) \/ CloseChannel(r)
      PROVE  UNCHANGED Promise!vars
  BY <1>6, <1>7 DEF ChannelFails, GiveUpWaiting, CloseChannel, Turns
<1>5. CASE ConnectionLost
  BY <1>0, <1>5, <1>u, FailedIsUntold DEF ConnectionLost
<1> QED  BY <1>1, <1>2, <1>3, <1>4, <1>5, <1>7 DEF BrokerNext

(* A message that is on its way was not refused.                           *)
LEMMA AbroadNotRefused ==
  ASSUME DeliveryAssumption, IInv, Unpublished, NEW m \in Messages, wire[m] # "unsent" \/ m \in Foreign
  PROVE  ~ Promise!Refused(m)
<1>1. SUFFICES ASSUME NEW r \in Requests, m \in Carries[r], request[r] = "400"  PROVE FALSE
  BY DEF Promise!Refused, Answer202
<1>2. wire[m] = "unsent"
  BY <1>1 DEF Unpublished, Untouched
<1>3. m \notin Foreign
  BY <1>1 DEF DeliveryAssumption, Published
<1> QED  BY <1>2, <1>3

(* RabbitMQ takes a message, and loses only what it has not confirmed.     *)
LEMMA RabbitRefines ==
  ASSUME DeliveryAssumption, IInv, Unpublished, RabbitNext
  PROVE  [Promise!Next]_(Promise!vars)
<1> USE DEF brokerVars, queueVars, listenerVars, loggerVars
<1>0. /\ TypeOK /\ ready \in Seq(Messages) /\ buffer \in Seq(Messages)
      /\ wire \in [Messages -> WireStates]
  BY DEF IInv, TypeOK
<1>n. ASSUME NEW m \in Messages, Promise!Enqueue(m) \/ Promise!Vanish(m)  PROVE Promise!Next
  BY <1>n DEF Promise!Next
<1>1. ASSUME NEW n \in Messages, TakeMessage(n) \/ PublishForeign(n)
      PROVE  [Promise!Next]_(Promise!vars)
  <2>1. /\ ready' = Append(ready, n) /\ UNCHANGED <<request, buffer, channel, stored, dropped>>
        /\ wire[n] \in Unsent /\ (wire[n] = "unsent" => n \in Foreign)
    BY <1>1 DEF TakeMessage, PublishForeign, Unsent
  <2>2. ToSet(ready') = ToSet(ready) \cup {n}
    BY <1>0, <2>1, ToSetAppend
  <2>3. ~ Abroad(n) /\ stored[n] \in Nat
    BY <1>0, <2>1 DEF Unpublished, Untouched, TypeOK
  <2>4. Fate(n) = "nowhere" /\ Fate(n)' = "queued"
    BY <2>1, <2>2, <2>3 DEF Abroad, Fate, Held
  <2>5. \A m \in Messages \ {n} : Fate(m)' = Fate(m)
    BY <2>1, <2>2 DEF Fate, Held
  <2>6. Ends' = [Ends EXCEPT ![n] = "queued"] /\ Ends[n] = "nowhere"
    <3>1. Ends' = [Ends EXCEPT ![n] = Fate(n)']  BY <2>5, OneEnd
    <3> QED  BY <2>4, <3>1 DEF Ends
  <2>7. Told' = Told
    BY <2>1 DEF Told, Answer202
  <2>8. ~ Promise!Refused(n)
    BY <2>1, AbroadNotRefused
  <2>9. Promise!Enqueue(n)
    BY <2>6, <2>7, <2>8 DEF Promise!Enqueue, Told, Ends
  <2> QED  BY <1>n, <2>9
<1>2. ASSUME NEW n \in Messages, RefuseMessage(n) \/ SaveMessage(n)  PROVE UNCHANGED Promise!vars
  <2>1. UNCHANGED <<request, ready, buffer, channel, stored, dropped>>
    BY <1>2 DEF RefuseMessage, SaveMessage
  <2> QED  BY <2>1, SameEnds, UnseenStep DEF Told, Answer202, Held
<1>3. ASSUME NEW n \in Messages, LoseUnsaved(n)  PROVE [Promise!Next]_(Promise!vars)
  <2>1. PICK i \in DOMAIN ready : ready[i] = n /\ ready' = RemoveAt(ready, i)
    BY <1>3 DEF LoseUnsaved
  <2>2. UNCHANGED <<request, buffer, channel, stored, dropped>> /\ wire[n] = "taken"
    BY <1>3 DEF LoseUnsaved
  <2>3. \A m \in ToSet(ready) : m # n => m \in ToSet(ready')
    BY <1>0, <2>1, ToSetRemoveAt
  <2>4. ToSet(ready') \subseteq ToSet(ready) /\ n \in ToSet(ready)
    <3>1. n \in ToSet(ready)
      BY <2>1 DEF ToSet
    <3> QED  BY <1>0, <2>1, <3>1, ToSetRemoveAt
  <2>5. \A m \in Messages \ {n} : Fate(m)' = Fate(m)
    BY <2>2, <2>3, <2>4 DEF Fate, Held
  <2>6. Told' = Told /\ Ends' = [Ends EXCEPT ![n] = Fate(n)']
    BY <2>2, <2>5, OneEnd DEF Told, Answer202
  <2>7. CASE Fate(n)' = Fate(n)
    BY <2>6, <2>7, UnseenStep DEF Ends
  <2>8. CASE Fate(n)' # Fate(n)
    <3>1. Fate(n) = "queued" /\ Fate(n)' = "nowhere"
      BY <2>2, <2>4, <2>8 DEF Fate, Held
    <3>2. ~ Promise!Accepted(n)
      <4>1. SUFFICES ASSUME NEW r \in Requests, n \in Carries[r], request[r] = "202"  PROVE FALSE
        BY DEF Promise!Accepted, Answer202
      <4> QED  BY <2>2, <4>1 DEF IInv, Secured
    <3>3. Promise!Vanish(n)
      BY <2>6, <3>1, <3>2 DEF Promise!Vanish, Told, Ends
    <3> QED  BY <1>n, <3>3
  <2> QED  BY <2>7, <2>8
<1>4. CASE RabbitCrash
  <2>1. Told' = Told
    BY <1>0, <1>4, FailedIsUntold DEF RabbitCrash
  <2>2. Ends' = Ends
    BY <1>0, <1>4, RequeueHolds, SameEnds DEF RabbitCrash
  <2> QED  BY <2>1, <2>2, UnseenStep
<1>5. CASE ChannelLost
  <2>1. Ends' = Ends
    BY <1>0, <1>5, RequeueHolds, SameEnds DEF ChannelLost
  <2> QED  BY <1>5, <2>1, UnseenStep DEF ChannelLost, Told, Answer202
<1>6. CASE RabbitRestart
  <2>1. UNCHANGED <<request, ready, buffer, channel, stored, dropped>>
    BY <1>6 DEF RabbitRestart
  <2> QED  BY <2>1, SameEnds, UnseenStep DEF Told, Answer202, Held
<1>7. CASE Deliver
  <2>1. /\ Head(ready) \in Messages
        /\ ToSet(ready) = {Head(ready)} \cup ToSet(ready')
        /\ ToSet(buffer') = ToSet(buffer) \cup {Head(ready)}
    BY <1>0, <1>7, ToSetHeadTail, ToSetAppend DEF Deliver
  <2>2. UNCHANGED <<request, channel, stored, dropped>> /\ channel = "open"
    BY <1>7 DEF Deliver
  <2>3. \A m \in Messages : Held(m)' = Held(m)
    BY <2>1, <2>2 DEF Held
  <2> QED  BY <2>2, <2>3, SameEnds, UnseenStep DEF Told, Answer202
<1> QED  BY <1>1, <1>2, <1>3, <1>4, <1>5, <1>6, <1>7 DEF RabbitNext

(* The listener drops a message while it holds it, and otherwise only       *)
(* passes it on.                                                           *)
LEMMA ListenerRefines ==
  ASSUME DeliveryAssumption, IInv, Unpublished, ListenerNext
  PROVE  [Promise!Next]_(Promise!vars)
<1> USE DEF brokerVars, queueVars, listenerVars, loggerVars
<1>0. /\ TypeOK /\ ready \in Seq(Messages) /\ buffer \in Seq(Messages) /\ channel \in {"open", "closed"}
      /\ dropped \in [Messages -> Verdicts]
  BY DEF IInv, TypeOK
<1>t. Told' = Told
  <2>1. UNCHANGED request
    BY DEF ListenerNext, StartListener, StopListener, HandleDelivery, CallLogger,
           ReceiveReply, LoggerUnreachable, CallTimesOut, Retry, GiveUp, SettleDelivery,
           ListenReturns, ListenerCrash
  <2> QED  BY <2>1 DEF Told, Answer202
<1>h. ASSUME UNCHANGED <<stored, dropped>>, \A m \in Messages : Held(m)' = Held(m)
      PROVE  UNCHANGED Promise!vars
  BY <1>h, <1>t, SameEnds, UnseenStep
<1>1. CASE StartListener
  <2>1. channel = "closed" /\ buffer' = <<>> /\ UNCHANGED <<ready, stored, dropped>>
    BY <1>1 DEF StartListener, IInv, InHand
  <2>2. \A m \in Messages : Held(m)' = Held(m)
    BY <2>1 DEF Held, ToSet
  <2> QED  BY <1>h, <2>1, <2>2
<1>2. CASE ListenReturns \/ ListenerCrash
  <2>1. channel' = "closed" /\ ready' = Requeue /\ UNCHANGED <<stored, dropped>>
    BY <1>2 DEF ListenReturns, ListenerCrash
  <2> QED  BY <1>0, <1>h, <2>1, RequeueHolds
<1>3. ASSUME \/ StopListener \/ HandleDelivery \/ ReceiveReply \/ LoggerUnreachable
             \/ CallTimesOut \/ Retry \/ GiveUp \/ \E s \in Slots : CallLogger(s)
      PROVE  UNCHANGED Promise!vars
  <2>1. UNCHANGED <<ready, buffer, channel, stored, dropped>>
    BY <1>3 DEF StopListener, HandleDelivery, CallLogger, ReceiveReply, LoggerUnreachable,
                CallTimesOut, Retry, GiveUp
  <2> QED  BY <1>h, <2>1 DEF Held
<1>4. CASE SettleDelivery
  <2> DEFINE h == Head(buffer)
  <2>0. UNCHANGED <<channel, stored>> /\ buffer' = Tail(buffer)
    BY <1>4 DEF SettleDelivery
  <2>1. h \in Messages /\ ToSet(buffer) = {h} \cup ToSet(buffer')
    BY <1>0, <1>4, ToSetHeadTail DEF SettleDelivery, IInv, InHand
  <2>2. CASE channel = "closed"
    <3>1. UNCHANGED <<ready, dropped>>
      BY <1>4, <2>2 DEF SettleDelivery
    <3>2. \A m \in Messages : Held(m)' = Held(m)
      BY <2>0, <2>2, <3>1 DEF Held
    <3> QED  BY <1>h, <2>0, <3>1, <3>2
  <2>3. CASE channel = "open" /\ verdict = "shutdown"
    <3>1. ready' = <<h>> \o ready /\ dropped' = dropped
      BY <1>4, <2>3 DEF SettleDelivery
    <3>2. <<h>> \in Seq(Messages) /\ ToSet(<<h>>) = {h}
      BY <2>1 DEF ToSet
    <3>3. ToSet(ready') = {h} \cup ToSet(ready)
      <4> DEFINE first == <<h>>
      <4>1. first \in Seq(Messages) /\ ToSet(first) = {h} /\ ready' = first \o ready
        BY <3>1, <3>2
      <4> HIDE DEF first
      <4>2. ToSet(first \o ready) = ToSet(first) \cup ToSet(ready)
        BY <1>0, <4>1, ToSetConcat
      <4> QED  BY <4>1, <4>2
    <3>4. \A m \in Messages : Held(m)' = Held(m)
      BY <2>0, <2>1, <2>3, <3>3 DEF Held
    <3> QED  BY <1>h, <2>0, <3>1, <3>4
  <2>4. CASE channel = "open" /\ verdict # "shutdown"
    <3>0. PICK n \in Messages : n = h
      BY <2>1
    <3>1. /\ ready' = ready /\ Held(n) /\ Held(n) \in BOOLEAN
          /\ dropped' = IF verdict = "stored" THEN dropped ELSE [dropped EXCEPT ![n] = verdict]
      BY <1>4, <2>1, <2>4, <3>0 DEF SettleDelivery, Held
    <3>2. \A m \in Messages \ {n} : Fate(m)' = Fate(m)
      BY <1>0, <2>0, <2>1, <3>0, <3>1 DEF Fate, Held
    <3>3. Ends' = [Ends EXCEPT ![n] = Fate(n)']
      BY <3>2, OneEnd
    <3>4. CASE Fate(n)' = Fate(n)
      BY <1>t, <2>1, <3>3, <3>4, UnseenStep DEF Ends
    <3>5. CASE Fate(n)' # Fate(n)
      <4>1. ~ (stored[n] > 0)
        BY <2>0, <3>5 DEF Fate
      <4>2. verdict \notin {"none", "stored"}
        BY <1>4, <3>0, <4>1 DEF IInv, Truthful, SettleDelivery
      <4>3. dropped'[n] # "none"
        BY <1>0, <2>1, <3>1, <4>2
      <4>4. Fate(n)' = "dropped" /\ Fate(n) = "queued"
        BY <2>0, <3>1, <3>5, <4>1, <4>3 DEF Fate
      <4>5. Promise!Drop(n)
        BY <1>t, <2>1, <3>3, <4>4 DEF Promise!Drop, Told, Ends
      <4> QED  BY <2>1, <4>5 DEF Promise!Next
    <3> QED  BY <3>4, <3>5
  <2> QED  BY <1>0, <2>2, <2>3, <2>4
<1> QED  BY <1>1, <1>2, <1>3, <1>4 DEF ListenerNext

(* The logger stores a message, once or again.                             *)
LEMMA LoggerRefines ==
  ASSUME DeliveryAssumption, IInv, Unpublished, LoggerNext
  PROVE  [Promise!Next]_(Promise!vars)
<1> USE DEF brokerVars, queueVars, listenerVars, loggerVars
<1>0. TypeOK /\ stored \in [Messages -> Nat]
  BY DEF IInv, TypeOK
<1>1. ASSUME NEW s \in Slots, LogInfoNext(s) \/ InsertUnacknowledged(s)
      PROVE  [Promise!Next]_(Promise!vars)
  <2>0. PICK n \in Messages : n = calls[s].msg
    BY <1>1, LogInfoStores
  <2>1. /\ UNCHANGED <<request, ready, buffer, channel, dropped>>
        /\ stored' = stored \/ stored' = [stored EXCEPT ![n] = stored[n] + 1]
    BY <1>1, <2>0, LogInfoStores
  <2>2. Told' = Told /\ \A m \in Messages : Held(m)' = Held(m)
    BY <2>1 DEF Told, Answer202, Held
  <2>3. CASE stored' = stored
    BY <2>1, <2>2, <2>3, SameEnds, UnseenStep
  <2>4. CASE stored' = [stored EXCEPT ![n] = stored[n] + 1]
    <3>1. \A m \in Messages \ {n} : Fate(m)' = Fate(m)
      BY <1>0, <2>1, <2>2, <2>4 DEF Fate
    <3>2. stored'[n] > 0
      BY <1>0, <2>1, <2>4
    <3>3. Ends' = [Ends EXCEPT ![n] = "stored"]
      <4>1. Ends' = [Ends EXCEPT ![n] = Fate(n)']  BY <2>1, <3>1, OneEnd
      <4>2. Fate(n)' = "stored"  BY <3>2 DEF Fate
      <4> QED  BY <4>1, <4>2
    <3>4. CASE Fate(n) = "stored"
      <4>1. Ends' = Ends  BY <2>1, <3>3, <3>4 DEF Ends
      <4> QED  BY <2>2, <4>1, UnseenStep
    <3>5. CASE Fate(n) # "stored"
      <4>0. n \in Messages /\ s \in Slots /\ calls[s].msg = n  BY <2>0
      <4>1. wire[n] # "unsent"
        BY <4>0 DEF Unpublished, Untouched, Unsent, Abroad
      <4>2. ~ Promise!Refused(n)
        BY <2>1, <4>1, AbroadNotRefused
      <4>3. Promise!Store(n)
        BY <2>1, <2>2, <3>3, <3>5, <4>2 DEF Promise!Store, Told, Ends
      <4> QED  BY <2>1, <4>3 DEF Promise!Next
    <3> QED  BY <3>4, <3>5
  <2> QED  BY <2>1, <2>3, <2>4
<1>2. ASSUME \/ \E p \in Projects : DeleteProject(p) \/ ForgetProject(p) \/ ExpireProject(p)
             \/ LoggerCrash \/ LoggerRestart
      PROVE  UNCHANGED Promise!vars
  <2>1. UNCHANGED <<request, ready, buffer, channel, stored, dropped>>
    BY <1>2 DEF DeleteProject, ForgetProject, ExpireProject, LoggerCrash, LoggerRestart
  <2> QED  BY <2>1, SameEnds, UnseenStep DEF Told, Answer202, Held
<1> QED  BY <1>1, <1>2 DEF LoggerNext

(* What was answered and what became of each event is as AtLeastOnce        *)
(* allows, whatever fails and in whatever order: broker, RabbitMQ, listener *)
(* and logger together implement its safety.                               *)
THEOREM DeliveryImplementsAtLeastOnce ==
  ASSUME DeliveryAssumption, OneRequestEach  PROVE Spec => Promise!Safety
<1>1. Init => Promise!Init
  <2> SUFFICES ASSUME Init  PROVE Promise!Init
    OBVIOUS
  <2>1. \A m \in Messages : Fate(m) = "nowhere"
    BY DEF Init, Fate, Held, ToSet
  <2> QED  BY <2>1 DEF Init, Promise!Init, Answer202
<1>2. Init => IInv /\ Unpublished
  <2>1. Init => Unpublished
    BY CarriesMessages DEF DeliveryAssumption, Init, Unpublished, Untouched, Unsent, Abroad, ToSet, Free
  <2> QED  BY <2>1, InitIInv
<1>3. IInv /\ Unpublished /\ [Next]_vars => IInv' /\ Unpublished'
  BY UnpublishedStep, TypeStep, InHandStep, TruthfulStep, SecuredStep DEF IInv
<1>4. IInv /\ Unpublished /\ [Next]_vars => [Promise!Next]_(Promise!vars)
  <2>1. ASSUME UNCHANGED vars  PROVE UNCHANGED Promise!vars
    <3>1. UNCHANGED <<request, ready, buffer, channel, stored, dropped>>
      BY <2>1 DEF vars, brokerVars, queueVars, listenerVars, loggerVars
    <3> QED  BY <3>1, SameEnds, UnseenStep DEF Told, Answer202, Held
  <2> QED  BY <2>1, BrokerRefines, RabbitRefines, ListenerRefines, LoggerRefines DEF Next
<1> QED  BY <1>1, <1>2, <1>3, <1>4, PTL DEF Spec, Promise!Safety

-----------------------------------------------------------------------------
(* Copies.                                                                 *)

(* RabbitMQ hands a message to one place at a time, unless it believes that  *)
(* the listener has let go of it.                                          *)
Single ==
  /\ IsInjective(ready) /\ IsInjective(buffer)
  /\ channel = "open" => ToSet(ready) \cap ToSet(buffer) = {}

(* Requeueing deliveries puts no message into the queue twice.             *)
LEMMA RequeueSingle ==
  ASSUME IInv, Single  PROVE IsInjective(Requeue)
<1>1. ready \in Seq(Messages) /\ buffer \in Seq(Messages)
  BY DEF IInv, TypeOK
<1> QED  BY <1>1, InjectiveConcat DEF Requeue, Single

(* No step of any process duplicates a delivery that is not given back.    *)
LEMMA SingleStep ==
  ASSUME DeliveryAssumption, IInv, Untouched, Single, [Next]_vars  PROVE Single'
<1> USE DEF IInv, InHand, vars, brokerVars, queueVars, listenerVars, loggerVars
<1>0. /\ ready \in Seq(Messages) /\ buffer \in Seq(Messages) /\ wire \in [Messages -> WireStates]
      /\ <<>> \in Seq(Messages) /\ IsInjective(<<>>) /\ ToSet(<<>>) = {}
  BY DEF TypeOK, IsInjective, ToSet
<1>1. CASE UNCHANGED <<ready, buffer, channel>>
  BY <1>1 DEF Single
<1>2. ASSUME BrokerNext  PROVE UNCHANGED <<ready, buffer, channel>>
  BY <1>2 DEF BrokerNext, PublishEvents, PublishNext, ReceiveConfirm, AnswerAccepted,
              ChannelFails, GiveUpWaiting, CloseChannel, AnswerFailed, Turns,
              ConnectionLost
<1>3. ASSUME NEW n \in Messages, RefuseMessage(n) \/ SaveMessage(n)
      PROVE  UNCHANGED <<ready, buffer, channel>>
  BY <1>3 DEF RefuseMessage, SaveMessage
<1>4. ASSUME NEW n \in Messages, TakeMessage(n) \/ PublishForeign(n)  PROVE Single'
  <2>1. /\ ready' = Append(ready, n) /\ UNCHANGED <<buffer, channel>>
        /\ wire[n] \in Unsent
    BY <1>4 DEF TakeMessage, PublishForeign, Unsent
  <2>2. n \notin ToSet(ready) /\ n \notin ToSet(buffer)
    BY <2>1 DEF Untouched, Abroad
  <2>3. IsInjective(Append(ready, n)) /\ ToSet(Append(ready, n)) = ToSet(ready) \cup {n}
    BY <1>0, <2>2, InjectiveAppend, ToSetAppend DEF Single
  <2> QED  BY <2>1, <2>2, <2>3 DEF Single
<1>5. ASSUME NEW n \in Messages, LoseUnsaved(n)  PROVE Single'
  <2>1. PICK i \in DOMAIN ready : ready' = RemoveAt(ready, i)
    BY <1>5 DEF LoseUnsaved
  <2>2. ToSet(ready') \subseteq ToSet(ready) /\ IsInjective(ready')
    BY <1>0, <2>1, ToSetRemoveAt, InjectiveRemoveAt DEF Single
  <2> QED  BY <1>5, <2>2 DEF LoseUnsaved, Single
<1>6. CASE RabbitCrash \/ ChannelLost \/ ListenReturns \/ ListenerCrash
  <2>1. buffer' \in {buffer, <<>>} /\ ready' = Requeue /\ channel' = "closed"
    BY <1>6 DEF RabbitCrash, ChannelLost, ListenReturns, ListenerCrash
  <2> QED  BY <1>0, <2>1, RequeueSingle DEF Single
<1>7. CASE Deliver
  <2>1. /\ ready # <<>> /\ channel = "open" /\ UNCHANGED channel
        /\ ready' = Tail(ready) /\ buffer' = Append(buffer, Head(ready))
    BY <1>7 DEF Deliver
  <2>2. /\ Head(ready) \in Messages /\ ToSet(ready) = {Head(ready)} \cup ToSet(Tail(ready))
        /\ IsInjective(Tail(ready)) /\ Head(ready) \notin ToSet(Tail(ready))
    BY <1>0, <2>1, ToSetHeadTail, InjectiveTail DEF Single
  <2>3. Head(ready) \notin ToSet(buffer)
    BY <2>1, <2>2 DEF Single
  <2>4. /\ IsInjective(Append(buffer, Head(ready)))
        /\ ToSet(Append(buffer, Head(ready))) = ToSet(buffer) \cup {Head(ready)}
    BY <1>0, <2>2, <2>3, InjectiveAppend, ToSetAppend DEF Single
  <2> QED  BY <2>1, <2>2, <2>4 DEF Single
<1>8. CASE RabbitNext
  BY <1>1, <1>3, <1>4, <1>5, <1>6, <1>7, <1>8 DEF RabbitNext, RabbitRestart
<1>9. CASE StartListener
  <2>1. buffer' = <<>> /\ UNCHANGED ready
    BY <1>9 DEF StartListener
  <2> QED  BY <1>0, <2>1 DEF Single
<1>10. CASE SettleDelivery
  <2>1. buffer # <<>> /\ buffer' = Tail(buffer) /\ UNCHANGED channel
    BY <1>10 DEF SettleDelivery
  <2>2. /\ Head(buffer) \in Messages /\ ToSet(buffer) = {Head(buffer)} \cup ToSet(Tail(buffer))
        /\ IsInjective(Tail(buffer)) /\ Head(buffer) \notin ToSet(Tail(buffer))
    BY <1>0, <2>1, ToSetHeadTail, InjectiveTail DEF Single
  <2>3. CASE UNCHANGED ready
    BY <2>1, <2>2, <2>3 DEF Single
  <2>4. CASE ready' # ready
    <3>1. ready' = <<Head(buffer)>> \o ready /\ channel # "closed" /\ channel \in {"open", "closed"}
      BY <1>10, <2>4, Zenon DEF SettleDelivery, TypeOK
    <3> DEFINE h == <<Head(buffer)>>
    <3>2. h \in Seq(Messages) /\ ToSet(h) = {Head(buffer)} /\ IsInjective(h)
      BY <2>2 DEF ToSet, IsInjective
    <3>3. Head(buffer) \notin ToSet(ready)
      BY <2>2, <3>1 DEF Single
    <3> HIDE DEF h
    <3>4. IsInjective(h \o ready) /\ ToSet(h \o ready) = {Head(buffer)} \cup ToSet(ready)
      BY <1>0, <3>2, <3>3, InjectiveConcat, ToSetConcat DEF Single
    <3>5. ready' = h \o ready
      BY <3>1 DEF h
    <3> QED  BY <2>1, <2>2, <3>1, <3>4, <3>5 DEF Single
  <2> QED  BY <2>3, <2>4
<1>11. CASE ListenerNext
  BY <1>1, <1>6, <1>9, <1>10, <1>11
  DEF ListenerNext, StopListener, HandleDelivery, CallLogger, ReceiveReply, LoggerUnreachable,
      CallTimesOut, Retry, GiveUp
<1>12. ASSUME LoggerNext  PROVE UNCHANGED <<ready, buffer, channel>>
  BY <1>12 DEF LoggerNext, LogInfoNext, CheckProject, CacheProject, InsertEvent,
               DatabaseFails, InsertUnacknowledged, DeleteProject, ForgetProject,
               ExpireProject, LoggerCrash, LoggerRestart
<1> QED  BY <1>1, <1>2, <1>8, <1>11, <1>12 DEF Next

(* The listener may still have m stored: it has m in its hands, and has not *)
(* yet been told, nor is about to be told, that it is in MongoDB.           *)
ReportedStored(m) ==
  m = Head(buffer) /\ (verdict = "stored" \/ (call # None /\ calls[call].stage = "stored"))
ToBeStored(m) == m \in ToSet(buffer) /\ ~ ReportedStored(m)

(* The calls of m that go on although nobody waits for them.               *)
Live == {"checking", "caching", "inserting"}
Orphans(m) == {s \in Slots : s # call /\ calls[s].msg = m /\ calls[s].stage \in Live}

(* The copies of m that there are, and those there may still be without a    *)
(* further fault.                                                          *)
One(b) == IF b THEN 1 ELSE 0
Copies(m) ==
  stored[m] + One(m \in ToSet(ready)) + One(ToBeStored(m)) + Cardinality(Orphans(m))

PaidFor(m) == IsFiniteSet(Orphans(m)) /\ Copies(m) <= 1 + faults

CopiesInv == Untouched /\ Single /\ \A m \in Messages : PaidFor(m)

(* Calls that end, and a call that is abandoned.                           *)
LEMMA Fewer ==
  ASSUME NEW T, NEW S, IsFiniteSet(S), T \subseteq S
  PROVE  IsFiniteSet(T) /\ Cardinality(T) \in Nat /\ Cardinality(S) \in Nat
         /\ Cardinality(T) <= Cardinality(S)
  BY FS_Subset, FS_CardinalityType

LEMMA OneMore ==
  ASSUME NEW T, NEW S, NEW x, IsFiniteSet(S), T \subseteq S \cup {x}
  PROVE  IsFiniteSet(T) /\ Cardinality(T) \in Nat /\ Cardinality(S) \in Nat
         /\ Cardinality(T) <= Cardinality(S) + 1
<1>1. /\ IsFiniteSet(S \cup {x}) /\ Cardinality(S) \in Nat
      /\ Cardinality(S \cup {x}) = IF x \in S THEN Cardinality(S) ELSE Cardinality(S) + 1
  BY FS_AddElement, FS_CardinalityType
<1>2. /\ IsFiniteSet(T) /\ Cardinality(T) \in Nat
      /\ Cardinality(T) <= Cardinality(S \cup {x})
  BY <1>1, Fewer
<1> QED  BY <1>1, <1>2

LEMMA OneLess ==
  ASSUME NEW T, NEW S, NEW x \in S, IsFiniteSet(S), T \subseteq S \ {x}
  PROVE  IsFiniteSet(T) /\ Cardinality(T) \in Nat /\ Cardinality(S) \in Nat
         /\ Cardinality(T) + 1 <= Cardinality(S)
<1>1. /\ IsFiniteSet(S \ {x}) /\ Cardinality(S) \in Nat
      /\ Cardinality(S \ {x}) = Cardinality(S) - 1
  BY FS_RemoveElement, FS_CardinalityType
<1>2. /\ IsFiniteSet(T) /\ Cardinality(T) \in Nat
      /\ Cardinality(T) <= Cardinality(S \ {x})
  BY <1>1, Fewer
<1> QED  BY <1>1, <1>2

(* A step that stores nothing and brings m to no further place costs        *)
(* nothing; one that brings it to a further place takes a fault.            *)
LEMMA NoFurtherCopy ==
  ASSUME IInv, NEW m \in Messages, PaidFor(m), stored'[m] = stored[m], Orphans(m)' \subseteq Orphans(m),
         faults' \in Nat, faults' >= faults,
         \/ /\ m \in ToSet(ready') => m \in ToSet(ready) \/ (ToBeStored(m) /\ ~ ToBeStored(m)')
            /\ ToBeStored(m)' => ToBeStored(m)
         \/ /\ m \in ToSet(ready') => m \in ToSet(ready)
            /\ ToBeStored(m)' => ToBeStored(m) \/ (m \in ToSet(ready) /\ m \notin ToSet(ready'))
         \/ faults' = faults + 1 /\ (m \in ToSet(ready') => m \in ToSet(ready))
         \/ faults' = faults + 1 /\ (ToBeStored(m)' => ToBeStored(m))
  PROVE  PaidFor(m)'
<1>1. IsFiniteSet(Orphans(m)') /\ Cardinality(Orphans(m)') \in Nat /\ Cardinality(Orphans(m)) \in Nat
      /\ Cardinality(Orphans(m)') <= Cardinality(Orphans(m))
  BY Fewer DEF PaidFor
<1>2. stored[m] \in Nat /\ faults \in Nat
  BY DEF IInv, TypeOK
<1> DEFINE old == Cardinality(Orphans(m))
           new == Cardinality(Orphans(m)')
           a == m \in ToSet(ready)
           b == m \in ToSet(ready')
<1>3. /\ Copies(m) = stored[m] + One(a) + One(ToBeStored(m)) + old
      /\ Copies(m)' = stored[m] + One(b) + One(ToBeStored(m)') + new
  BY DEF Copies, One
<1>4. Copies(m) <= 1 + faults
  BY DEF PaidFor
<1>5. old \in Nat /\ new \in Nat /\ new <= old
  BY <1>1
<1> HIDE DEF old, new
<1>6. stored[m] + One(b) + One(ToBeStored(m)') + new <= 1 + faults'
  BY <1>2, <1>3, <1>4, <1>5 DEF One
<1> QED  BY <1>1, <1>3, <1>6 DEF PaidFor
(* A step that abandons a call of m, and brings it to no further place,      *)
(* takes a fault.                                                          *)
LEMMA AbandonedCopy ==
  ASSUME IInv, NEW m \in Messages, PaidFor(m), stored'[m] = stored[m], NEW s,
         Orphans(m)' \subseteq Orphans(m) \cup {s}, faults' = faults + 1,
         m \in ToSet(ready') => m \in ToSet(ready) \/ (ToBeStored(m) /\ ~ ToBeStored(m)'),
         ToBeStored(m)' => ToBeStored(m)
  PROVE  PaidFor(m)'
<1>1. IsFiniteSet(Orphans(m)') /\ Cardinality(Orphans(m)') \in Nat /\ Cardinality(Orphans(m)) \in Nat
      /\ Cardinality(Orphans(m)') <= Cardinality(Orphans(m)) + 1
  BY OneMore DEF PaidFor
<1>2. stored[m] \in Nat /\ faults \in Nat
  BY DEF IInv, TypeOK
<1> DEFINE old == Cardinality(Orphans(m))
           new == Cardinality(Orphans(m)')
           a == m \in ToSet(ready)
           b == m \in ToSet(ready')
<1>3. /\ Copies(m) = stored[m] + One(a) + One(ToBeStored(m)) + old
      /\ Copies(m)' = stored[m] + One(b) + One(ToBeStored(m)') + new
  BY DEF Copies, One
<1>4. Copies(m) <= 1 + faults
  BY DEF PaidFor
<1>5. old \in Nat /\ new \in Nat /\ new <= old + 1
  BY <1>1
<1> HIDE DEF old, new
<1>6. stored[m] + One(b) + One(ToBeStored(m)') + new <= 1 + faults'
  BY <1>2, <1>3, <1>4, <1>5 DEF One
<1> QED  BY <1>1, <1>3, <1>6 DEF PaidFor

(* A call that nobody waits for stores m: what could still be stored is.     *)
LEMMA OrphanStores ==
  ASSUME IInv, NEW m \in Messages, PaidFor(m), stored'[m] = stored[m] + 1, NEW s \in Orphans(m),
         Orphans(m)' \subseteq Orphans(m) \ {s}, UNCHANGED <<ready, faults>>,
         ToBeStored(m)' => ToBeStored(m)
  PROVE  PaidFor(m)'
<1>1. IsFiniteSet(Orphans(m)') /\ Cardinality(Orphans(m)') \in Nat /\ Cardinality(Orphans(m)) \in Nat
      /\ Cardinality(Orphans(m)') + 1 <= Cardinality(Orphans(m))
  BY OneLess DEF PaidFor
<1>2. stored[m] \in Nat /\ faults \in Nat
  BY DEF IInv, TypeOK
<1> DEFINE old == Cardinality(Orphans(m))
           new == Cardinality(Orphans(m)')
           a == m \in ToSet(ready)
<1>3. /\ Copies(m) = stored[m] + One(a) + One(ToBeStored(m)) + old
      /\ Copies(m)' = stored[m] + 1 + One(a) + One(ToBeStored(m)') + new
  BY DEF Copies, One
<1>4. Copies(m) <= 1 + faults
  BY DEF PaidFor
<1>5. old \in Nat /\ new \in Nat /\ new + 1 <= old
  BY <1>1
<1> HIDE DEF old, new
<1>6. stored[m] + 1 + One(a) + One(ToBeStored(m)') + new <= 1 + faults
  BY <1>2, <1>3, <1>4, <1>5 DEF One
<1> QED  BY <1>1, <1>3, <1>6 DEF PaidFor

(* The call the listener waits for stores m; and an insert whose answer is   *)
(* lost takes a fault.                                                     *)
LEMMA CallStores ==
  ASSUME IInv, NEW m \in Messages, PaidFor(m), stored'[m] = stored[m] + 1,
         Orphans(m)' \subseteq Orphans(m), UNCHANGED ready,
         \/ faults' = faults /\ ToBeStored(m) /\ ~ ToBeStored(m)'
         \/ faults' = faults + 1 /\ (ToBeStored(m)' => ToBeStored(m))
  PROVE  PaidFor(m)'
<1>1. IsFiniteSet(Orphans(m)') /\ Cardinality(Orphans(m)') \in Nat /\ Cardinality(Orphans(m)) \in Nat
      /\ Cardinality(Orphans(m)') <= Cardinality(Orphans(m))
  BY Fewer DEF PaidFor
<1>2. stored[m] \in Nat /\ faults \in Nat
  BY DEF IInv, TypeOK
<1> DEFINE old == Cardinality(Orphans(m))
           new == Cardinality(Orphans(m)')
           a == m \in ToSet(ready)
<1>3. /\ Copies(m) = stored[m] + One(a) + One(ToBeStored(m)) + old
      /\ Copies(m)' = stored[m] + 1 + One(a) + One(ToBeStored(m)') + new
  BY DEF Copies, One
<1>4. Copies(m) <= 1 + faults
  BY DEF PaidFor
<1>5. old \in Nat /\ new \in Nat /\ new <= old
  BY <1>1
<1> HIDE DEF old, new
<1>6. stored[m] + 1 + One(a) + One(ToBeStored(m)') + new <= 1 + faults'
  BY <1>2, <1>3, <1>4, <1>5 DEF One
<1> QED  BY <1>1, <1>3, <1>6 DEF PaidFor

(* Broker and RabbitMQ: a message is taken once, and handed out once; a lost *)
(* connection puts a copy of it back into the queue.                        *)
LEMMA CopiesRabbit ==
  ASSUME DeliveryAssumption, IInv, CopiesInv, BrokerNext \/ RabbitNext, NEW m \in Messages
  PROVE  PaidFor(m)'
<1> USE DEF IInv, vars, brokerVars, queueVars, listenerVars, loggerVars
<1>0. /\ ready \in Seq(Messages) /\ buffer \in Seq(Messages) /\ wire \in [Messages -> WireStates]
      /\ faults \in Nat /\ PaidFor(m) /\ m # None
  BY DEF TypeOK, CopiesInv, DeliveryAssumption
<1> DEFINE hands == <<verdict, call, calls, stored>>
<1>1. ASSUME UNCHANGED <<hands, buffer>>
      PROVE  Orphans(m)' = Orphans(m) /\ ToBeStored(m)' = ToBeStored(m) /\ UNCHANGED stored
  BY <1>1 DEF Orphans, ToBeStored, ReportedStored
<1>2. ASSUME UNCHANGED <<hands, buffer>>, faults' \in Nat, faults' >= faults,
             faults' = faults + 1 \/ (m \in ToSet(ready') => m \in ToSet(ready))
      PROVE  PaidFor(m)'
  BY <1>0, <1>1, <1>2, NoFurtherCopy
<1>3. ASSUME BrokerNext  PROVE UNCHANGED <<hands, buffer, ready>> /\ faults' \in {faults, faults + 1}
  BY <1>3 DEF BrokerNext, PublishEvents, PublishNext, ReceiveConfirm, AnswerAccepted,
              ChannelFails, GiveUpWaiting, CloseChannel, AnswerFailed, Turns,
              ConnectionLost, Fault
<1>4. ASSUME NEW n \in Messages, RefuseMessage(n) \/ SaveMessage(n)
      PROVE  UNCHANGED <<hands, buffer, ready>> /\ faults' \in {faults, faults + 1}
  BY <1>4 DEF RefuseMessage, SaveMessage, Fault
<1>5. ASSUME RabbitRestart  PROVE UNCHANGED <<hands, buffer, ready>> /\ faults' = faults
  BY <1>5 DEF RabbitRestart
<1>6. ASSUME UNCHANGED <<hands, buffer, ready>>, faults' \in {faults, faults + 1}  PROVE PaidFor(m)'
  BY <1>0, <1>2, <1>6
<1>7. ASSUME RabbitCrash \/ ChannelLost
      PROVE  UNCHANGED <<hands, buffer>> /\ faults' = faults + 1
  BY <1>7 DEF RabbitCrash, ChannelLost, Fault
<1>8. ASSUME NEW n \in Messages, LoseUnsaved(n)  PROVE PaidFor(m)'
  <2>1. PICK i \in DOMAIN ready : ready' = RemoveAt(ready, i)
    BY <1>8 DEF LoseUnsaved
  <2>2. ToSet(ready') \subseteq ToSet(ready)
    BY <1>0, <2>1, ToSetRemoveAt
  <2>3. UNCHANGED <<hands, buffer>> /\ faults' = faults
    BY <1>8 DEF LoseUnsaved
  <2> QED  BY <1>0, <1>2, <2>2, <2>3
<1>9. ASSUME NEW n \in Messages, TakeMessage(n) \/ PublishForeign(n)  PROVE PaidFor(m)'
  <2>1. /\ ready' = Append(ready, n) /\ UNCHANGED <<hands, buffer>> /\ faults' = faults
        /\ wire[n] \in Unsent
    BY <1>9 DEF TakeMessage, PublishForeign, Unsent
  <2>2. ToSet(ready') = ToSet(ready) \cup {n}
    BY <1>0, <2>1, ToSetAppend
  <2>3. CASE n # m
    <3>1. m \in ToSet(ready') => m \in ToSet(ready)
      BY <2>2, <2>3
    <3> QED  BY <1>0, <1>2, <2>1, <3>1
  <2>4. CASE n = m
    <3>1. ~ Abroad(m)
      BY <2>1, <2>4 DEF CopiesInv, Untouched
    <3>2. stored[m] \in Nat
      BY DEF TypeOK
    <3>3. stored[m] = 0 /\ m \notin ToSet(buffer) /\ Orphans(m) = {}
      BY <3>1, <3>2 DEF Abroad, Orphans
    <3>4. Orphans(m)' = {} /\ stored'[m] = 0 /\ ~ ToBeStored(m)'
      BY <1>1, <2>1, <3>3 DEF ToBeStored
    <3>5. IsFiniteSet({}) /\ Cardinality({}) = 0
      BY FS_EmptySet
    <3>6. Copies(m)' <= 1
      BY <3>4, <3>5 DEF Copies, One
    <3>7. Copies(m)' = 0 \/ Copies(m)' = 1
      BY <3>4, <3>5 DEF Copies, One
    <3> QED  BY <1>0, <2>1, <3>4, <3>5, <3>7 DEF PaidFor
  <2> QED  BY <2>3, <2>4
<1>10. CASE Deliver
  <2>1. /\ ready # <<>> /\ channel = "open" /\ UNCHANGED hands /\ faults' = faults
        /\ ready' = Tail(ready) /\ buffer' = Append(buffer, Head(ready))
    BY <1>10 DEF Deliver
  <2>2. /\ Head(ready) \in Messages /\ ToSet(ready) = {Head(ready)} \cup ToSet(ready')
        /\ Head(ready) \notin ToSet(ready')
    BY <1>0, <2>1, ToSetHeadTail, InjectiveTail DEF CopiesInv, Single
  <2>3. /\ ToSet(buffer') = ToSet(buffer) \cup {Head(ready)}
        /\ buffer # <<>> => Head(buffer') = Head(buffer)
    BY <1>0, <2>1, <2>2, ToSetAppend
  <2>4. Orphans(m)' = Orphans(m) /\ UNCHANGED stored
    BY <2>1 DEF Orphans
  <2>5. m \in ToSet(ready') => m \in ToSet(ready)
    BY <2>2
  <2>6. ASSUME ToBeStored(m)', m # Head(ready)  PROVE ToBeStored(m)
    <3>1. m \in ToSet(buffer)
      BY <2>3, <2>6 DEF ToBeStored
    <3>2. buffer # <<>>
      BY <3>1 DEF ToSet
    <3> QED  BY <2>1, <2>3, <2>6, <3>1, <3>2 DEF ToBeStored, ReportedStored
  <2>7. ToBeStored(m)' => ToBeStored(m) \/ (m \in ToSet(ready) /\ m \notin ToSet(ready'))
    BY <2>2, <2>6
  <2> QED  BY <1>0, <2>1, <2>4, <2>5, <2>7, NoFurtherCopy
<1>11. CASE BrokerNext
  BY <1>3, <1>6, <1>11
<1>12. CASE RabbitCrash \/ ChannelLost
  <2>1. faults' \in Nat /\ faults' >= faults
    BY <1>0, <1>7, <1>12
  <2> QED  BY <1>2, <1>7, <1>12, <2>1
<1> QED
  BY <1>4, <1>5, <1>6, <1>8, <1>9, <1>10, <1>11, <1>12 DEF RabbitNext

(* The listener: what it puts back it has let go of; a call it gives up, and *)
(* an answer it loses, cost a fault.                                       *)
LEMMA CopiesListener ==
  ASSUME DeliveryAssumption, IInv, CopiesInv, ListenerNext, NEW m \in Messages
  PROVE  PaidFor(m)'
<1> USE DEF IInv, InHand, vars, brokerVars, queueVars, listenerVars, loggerVars
<1>0. /\ ready \in Seq(Messages) /\ buffer \in Seq(Messages) /\ ToSet(<<>>) = {}
      /\ faults \in Nat /\ PaidFor(m) /\ m # None /\ None \notin Slots
      /\ calls \in [Slots -> [msg : Messages \cup {None}, stage : Stages]]
      /\ call \in Slots \cup {None}
  BY DEF TypeOK, CopiesInv, DeliveryAssumption, ToSet
<1>v. verdict # "none" <=> phase = "settling"
  BY DEF Truthful
<1> DEFINE rest == <<ready, stored, buffer>>
<1>1. ASSUME UNCHANGED <<ready, stored>>, faults' = faults, Orphans(m)' \subseteq Orphans(m),
             ToBeStored(m)' => ToBeStored(m)
      PROVE  PaidFor(m)'
  BY <1>0, <1>1, NoFurtherCopy
<1>2. CASE StartListener
  <2>1. UNCHANGED <<ready, stored, calls, call>> /\ faults' = faults /\ buffer' = <<>>
    BY <1>2 DEF StartListener
  <2>2. ~ ToBeStored(m)' /\ Orphans(m)' = Orphans(m)
    BY <1>0, <2>1 DEF ToBeStored, Orphans
  <2> QED  BY <1>1, <2>1, <2>2
<1>3. CASE StopListener
  <2>1. UNCHANGED <<rest, calls, call, verdict>> /\ faults' = faults + 1
    BY <1>3 DEF StopListener, Fault
  <2>2. ToBeStored(m)' = ToBeStored(m) /\ Orphans(m)' = Orphans(m) /\ faults' \in Nat /\ faults' >= faults
    BY <1>0, <2>1 DEF ToBeStored, ReportedStored, Orphans
  <2> QED  BY <1>0, <2>1, <2>2, NoFurtherCopy
<1>4. CASE HandleDelivery \/ GiveUp
  <2>1. /\ UNCHANGED <<rest, calls, call>> /\ faults' = faults
        /\ verdict = "none" /\ verdict' # "stored"
    BY <1>4, <1>v DEF HandleDelivery, GiveUp
  <2>2. (ToBeStored(m)' => ToBeStored(m)) /\ Orphans(m)' = Orphans(m)
    BY <2>1 DEF ToBeStored, ReportedStored, Orphans
  <2> QED  BY <1>1, <2>1, <2>2
<1>5. ASSUME NEW s \in Slots, CallLogger(s)  PROVE PaidFor(m)'
  <2>1. /\ UNCHANGED <<rest, verdict>> /\ faults' = faults /\ call = None /\ call' = s
        /\ verdict = "none" /\ calls[s] = Free
        /\ \A t \in Slots : t # s => calls'[t] = calls[t]
    BY <1>0, <1>5, <1>v DEF CallLogger
  <2>2. Orphans(m)' \subseteq Orphans(m)
    BY <1>0, <2>1 DEF Orphans
  <2>3. ToBeStored(m)' => ToBeStored(m)
    BY <2>1 DEF ToBeStored, ReportedStored
  <2> QED  BY <1>1, <2>1, <2>2, <2>3
<1>6. CASE ReceiveReply
  <2>1. /\ UNCHANGED rest /\ faults' = faults /\ call \in Slots /\ call' = None
        /\ calls[call].stage \in {"stored", "refused", "unknown"} /\ verdict = "none"
        /\ calls' = [calls EXCEPT ![call] = Free]
        /\ calls[call].stage = "stored" => verdict' = "stored"
    BY <1>0, <1>6, <1>v DEF ReceiveReply
  <2>2. Orphans(m)' \subseteq Orphans(m)
    BY <1>0, <2>1 DEF Orphans, Live, Free
  <2>3. ToBeStored(m)' => ToBeStored(m)
    BY <2>1 DEF ToBeStored, ReportedStored
  <2> QED  BY <1>1, <2>1, <2>2, <2>3
<1>7. CASE LoggerUnreachable \/ Retry
  <2>1. UNCHANGED <<rest, calls, call, verdict>> /\ faults' = faults
    BY <1>7 DEF LoggerUnreachable, Retry
  <2>2. ToBeStored(m)' = ToBeStored(m) /\ Orphans(m)' = Orphans(m)
    BY <2>1 DEF ToBeStored, ReportedStored, Orphans
  <2> QED  BY <1>1, <2>1, <2>2
<1>8. CASE SettleDelivery
  <2>1. /\ buffer # <<>> /\ buffer' = Tail(buffer) /\ call = None /\ verdict' = "none"
        /\ UNCHANGED <<stored, calls, call>> /\ faults' = faults
    BY <1>8 DEF SettleDelivery
  <2>2. /\ Head(buffer) \in Messages /\ ToSet(buffer) = {Head(buffer)} \cup ToSet(Tail(buffer))
        /\ Head(buffer) \notin ToSet(Tail(buffer))
    BY <1>0, <2>1, ToSetHeadTail, InjectiveTail DEF CopiesInv, Single
  <2>3. Orphans(m)' = Orphans(m)
    BY <2>1 DEF Orphans
  <2>4. ToBeStored(m)' => ToBeStored(m) /\ m # Head(buffer)
    BY <2>1, <2>2 DEF ToBeStored, ReportedStored
  <2>5. CASE ready' = ready
    BY <1>1, <2>1, <2>3, <2>4, <2>5
  <2>6. CASE ready' # ready
    <3>1. ready' = <<Head(buffer)>> \o ready /\ verdict = "shutdown"
      BY <1>8, <2>6, Zenon DEF SettleDelivery
    <3> DEFINE h == <<Head(buffer)>>
    <3>2. h \in Seq(Messages) /\ ToSet(h) = {Head(buffer)}
      BY <2>2 DEF ToSet
    <3> HIDE DEF h
    <3>3. ToSet(h \o ready) = {Head(buffer)} \cup ToSet(ready)
      BY <1>0, <3>2, ToSetConcat
    <3>4. ToSet(ready') = {Head(buffer)} \cup ToSet(ready)
      BY <3>1, <3>3 DEF h
    <3>5. m = Head(buffer) => ToBeStored(m) /\ ~ ToBeStored(m)'
      BY <2>1, <2>2, <2>4, <3>1 DEF ToBeStored, ReportedStored
    <3>6. m \in ToSet(ready') => m \in ToSet(ready) \/ (ToBeStored(m) /\ ~ ToBeStored(m)')
      BY <3>4, <3>5
    <3> QED  BY <1>0, <2>1, <2>3, <2>4, <3>6, NoFurtherCopy
  <2> QED  BY <2>5, <2>6
<1>9. ASSUME ready' = Requeue, m \in ToSet(ready')
      PROVE  m \in ToSet(ready) \/ (channel = "open" /\ m \in ToSet(buffer))
  BY <1>0, <1>9, ToSetConcat DEF Requeue
<1>10. CASE ListenReturns
  <2>1. /\ buffer' = <<>> /\ ready' = Requeue /\ call = None /\ verdict = "none"
        /\ UNCHANGED <<stored, calls, call>> /\ faults' = faults
    BY <1>10, <1>v DEF ListenReturns
  <2>2. Orphans(m)' = Orphans(m) /\ ~ ToBeStored(m)'
    BY <1>0, <2>1 DEF Orphans, ToBeStored
  <2>3. m \in ToSet(ready') => m \in ToSet(ready) \/ (ToBeStored(m) /\ ~ ToBeStored(m)')
    BY <1>9, <2>1, <2>2 DEF ToBeStored, ReportedStored
  <2> QED  BY <1>0, <2>1, <2>2, <2>3, NoFurtherCopy
<1>11. CASE CallTimesOut
  <2>1. /\ UNCHANGED <<rest, verdict>> /\ faults' = faults + 1 /\ call \in Slots /\ call' = None
        /\ verdict = "none" /\ Abandon
    BY <1>0, <1>11, <1>v DEF CallTimesOut, Fault
  <2>2. faults' \in Nat /\ faults' >= faults
    BY <1>0, <2>1
  <2>3. CASE calls[call].stage \in {"stored", "refused", "unknown"}
    <3>1. Orphans(m)' \subseteq Orphans(m)
      BY <1>0, <2>1, <2>3 DEF Orphans, Abandon, Live, Free
    <3> QED  BY <1>0, <2>1, <2>2, <3>1, NoFurtherCopy
  <2>4. CASE calls[call].stage \notin {"stored", "refused", "unknown"}
    <3>1. Orphans(m)' \subseteq Orphans(m) \cup {call}
      BY <1>0, <2>1, <2>4 DEF Orphans, Abandon
    <3>2. ToBeStored(m)' => ToBeStored(m)
      BY <2>1, <2>4 DEF ToBeStored, ReportedStored
    <3> QED  BY <1>0, <2>1, <3>1, <3>2, AbandonedCopy
  <2> QED  BY <2>3, <2>4
<1>12. CASE ListenerCrash
  <2>1. /\ UNCHANGED stored /\ faults' = faults + 1 /\ call' = None /\ Abandon
        /\ buffer' = <<>> /\ ready' = Requeue
    BY <1>12 DEF ListenerCrash, Fault
  <2>2. faults' \in Nat /\ faults' >= faults /\ ~ ToBeStored(m)'
    BY <1>0, <2>1 DEF ToBeStored
  <2>3. Orphans(m)' \subseteq Orphans(m) \cup {call}
    BY <1>0, <2>1 DEF Orphans, Abandon, Live, Free
  <2>4. CASE call \notin Orphans(m)'
    <3>1. Orphans(m)' \subseteq Orphans(m)
      BY <2>3, <2>4
    <3> QED  BY <1>0, <2>1, <2>2, <3>1, NoFurtherCopy
  <2>5. CASE call \in Orphans(m)'
    <3>1. call \in Slots /\ calls'[call].msg = m /\ calls'[call].stage \in Live
      BY <2>5 DEF Orphans
    <3>2. calls[call].msg = m /\ calls[call].stage \in Live
      BY <1>0, <2>1, <3>1 DEF Abandon, Live, Free
    <3>3. call # None /\ buffer # <<>> /\ m = Head(buffer) /\ verdict = "none"
      BY <1>0, <1>v, <3>1, <3>2
    <3>4. m \in ToSet(buffer)
      BY <1>0, <3>3, ToSetHeadTail
    <3>5. ToBeStored(m)
      BY <3>2, <3>3, <3>4 DEF ToBeStored, ReportedStored, Live
    <3>6. m \in ToSet(ready') => m \in ToSet(ready) \/ (ToBeStored(m) /\ ~ ToBeStored(m)')
      BY <2>2, <3>5
    <3> QED  BY <1>0, <2>1, <2>2, <2>3, <3>6, AbandonedCopy
  <2> QED  BY <2>4, <2>5
<1> QED
  BY <1>2, <1>3, <1>4, <1>5, <1>6, <1>7, <1>8, <1>10, <1>11, <1>12 DEF ListenerNext

(* What the logger's next step of a call that answers nothing "stored" does. *)
LEMMA CallGoesOn ==
  ASSUME DeliveryAssumption, IInv, NEW m \in Messages, NEW s \in Slots, calls[s].stage \in Live,
         NEW stage \in Stages \ {"stored"}, Advance(s, stage) \/ Answer(s, stage),
         UNCHANGED <<buffer, call, verdict>>
  PROVE  Orphans(m)' \subseteq Orphans(m) /\ (ToBeStored(m)' => ToBeStored(m))
<1>0. /\ calls \in [Slots -> [msg : Messages \cup {None}, stage : Stages]]
      /\ call \in Slots \cup {None} /\ m # None
  BY DEF IInv, TypeOK, DeliveryAssumption
<1>1. \A t \in Slots : t # s => calls'[t] = calls[t]
  BY <1>0 DEF Advance, Answer
<1>2. calls'[s] \in {Free, [msg |-> calls[s].msg, stage |-> stage]}
  BY <1>0 DEF Advance, Answer
<1>3. Orphans(m)' \subseteq Orphans(m)
  BY <1>0, <1>1, <1>2 DEF Orphans, Free, Live
<1>4. calls[s].stage # "stored"
  BY DEF Live
<1>5. ToBeStored(m)' => ToBeStored(m)
  BY <1>0, <1>1, <1>4 DEF ToBeStored, ReportedStored
<1> QED  BY <1>3, <1>5

(* The logger: each call stores its event once, and the listener is told.    *)
LEMMA CopiesLogger ==
  ASSUME DeliveryAssumption, IInv, CopiesInv, LoggerNext, NEW m \in Messages
  PROVE  PaidFor(m)'
<1> USE DEF IInv, InHand, vars, brokerVars, queueVars, listenerVars, loggerVars
<1>0. /\ buffer \in Seq(Messages) /\ faults \in Nat /\ PaidFor(m) /\ m # None /\ None \notin Slots
      /\ calls \in [Slots -> [msg : Messages \cup {None}, stage : Stages]]
      /\ stored \in [Messages -> Nat] /\ call \in Slots \cup {None}
  BY DEF TypeOK, CopiesInv, DeliveryAssumption
<1>v. verdict # "none" <=> phase = "settling"
  BY DEF Truthful
<1> DEFINE hands == <<ready, buffer, call, verdict>>
<1>1. ASSUME NEW s \in Slots, CheckProject(s) \/ CacheProject(s) \/ DatabaseFails(s)  PROVE PaidFor(m)'
  <2>1. UNCHANGED <<hands, stored>> /\ faults' = faults /\ calls[s].stage \in Live
    BY <1>1 DEF CheckProject, CacheProject, DatabaseFails, Running, Live
  <2>2. PICK stage \in Stages \ {"stored"} : Advance(s, stage) \/ Answer(s, stage)
    BY <1>1 DEF CheckProject, CacheProject, DatabaseFails, Stages
  <2>3. Orphans(m)' \subseteq Orphans(m) /\ (ToBeStored(m)' => ToBeStored(m))
    BY <2>1, <2>2, CallGoesOn
  <2> QED  BY <1>0, <2>1, <2>3, NoFurtherCopy
<1>2. ASSUME NEW s \in Slots, InsertUnacknowledged(s)  PROVE PaidFor(m)'
  <2>1. UNCHANGED hands /\ faults' = faults + 1 /\ calls[s].stage \in Live /\ Answer(s, "refused")
    BY <1>2 DEF InsertUnacknowledged, Running, Live, Fault
  <2>2. stored'[m] = stored[m] \/ stored'[m] = stored[m] + 1
    BY <1>0, <1>2 DEF InsertUnacknowledged
  <2>3. Orphans(m)' \subseteq Orphans(m) /\ (ToBeStored(m)' => ToBeStored(m))
    BY <2>1, CallGoesOn DEF Stages
  <2>4. CASE stored'[m] = stored[m]
    BY <1>0, <2>1, <2>3, <2>4, NoFurtherCopy
  <2>5. CASE stored'[m] = stored[m] + 1
    BY <1>0, <2>1, <2>3, <2>5, CallStores
  <2> QED  BY <2>2, <2>4, <2>5
<1>3. ASSUME NEW s \in Slots, InsertEvent(s)  PROVE PaidFor(m)'
  <2>1. UNCHANGED hands /\ faults' = faults /\ calls[s].stage = "inserting" /\ Answer(s, "stored")
    BY <1>3 DEF InsertEvent, Running
  <2>2. \A t \in Slots : t # s => calls'[t] = calls[t]
    BY <1>0, <2>1 DEF Answer, Advance
  <2>3. calls[s].msg \in Messages
    BY <2>1 DEF Truthful
  <2>4. CASE s = call
    <3>1. /\ call # None /\ buffer # <<>> /\ calls[s].msg = Head(buffer) /\ verdict = "none"
          /\ calls'[s].stage = "stored" /\ calls'[s].msg = calls[s].msg
      BY <1>0, <1>v, <2>1, <2>4 DEF Answer, Advance
    <3>2. Orphans(m)' \subseteq Orphans(m)
      BY <2>1, <2>2, <2>4 DEF Orphans
    <3>3. CASE m # Head(buffer)
      <4>1. stored'[m] = stored[m]
        BY <1>0, <1>3, <3>1, <3>3 DEF InsertEvent
      <4>2. ToBeStored(m)' => ToBeStored(m)
        BY <2>1, <3>3 DEF ToBeStored, ReportedStored
      <4> QED  BY <1>0, <2>1, <3>2, <4>1, <4>2, NoFurtherCopy
    <3>4. CASE m = Head(buffer)
      <4>1. stored'[m] = stored[m] + 1
        BY <1>0, <1>3, <3>1, <3>4 DEF InsertEvent
      <4>2. m \in ToSet(buffer)
        BY <1>0, <3>1, <3>4, ToSetHeadTail
      <4>3. ToBeStored(m) /\ ~ ToBeStored(m)'
        BY <2>1, <2>4, <3>1, <3>4, <4>2 DEF ToBeStored, ReportedStored
      <4> QED  BY <1>0, <2>1, <3>2, <4>1, <4>3, CallStores
    <3> QED  BY <3>3, <3>4
  <2>5. CASE s # call
    <3>1. calls'[s] = Free
      BY <1>0, <2>1, <2>5 DEF Answer
    <3>2. Orphans(m)' \subseteq Orphans(m) \ {s}
      BY <1>0, <2>1, <2>2, <3>1 DEF Orphans, Free
    <3>3. ToBeStored(m)' => ToBeStored(m)
      BY <1>0, <2>1, <2>2, <2>5 DEF ToBeStored, ReportedStored
    <3>4. CASE calls[s].msg = m
      <4>1. stored'[m] = stored[m] + 1 /\ s \in Orphans(m)
        BY <1>0, <1>3, <2>1, <2>5, <3>4 DEF InsertEvent, Orphans, Live
      <4> QED  BY <1>0, <2>1, <3>2, <3>3, <4>1, OrphanStores
    <3>5. CASE calls[s].msg # m
      <4>1. stored'[m] = stored[m]
        BY <1>0, <1>3, <3>5 DEF InsertEvent
      <4> QED  BY <1>0, <2>1, <3>2, <3>3, <4>1, NoFurtherCopy
    <3> QED  BY <3>4, <3>5
  <2> QED  BY <2>4, <2>5
<1>4. CASE LoggerCrash
  <2>1. UNCHANGED <<ready, buffer, verdict, stored>> /\ faults' = faults + 1 /\ calls' = [s \in Slots |-> Free]
    BY <1>4 DEF LoggerCrash, Fault
  <2>2. Orphans(m)' \subseteq Orphans(m)
    BY <1>0, <2>1 DEF Orphans, Free
  <2>3. /\ stored'[m] = stored[m] /\ faults' \in Nat /\ faults' >= faults
        /\ m \in ToSet(ready') => m \in ToSet(ready)
    BY <1>0, <2>1
  <2> QED  BY <1>0, <2>1, <2>2, <2>3, NoFurtherCopy
<1>5. ASSUME LoggerRestart \/ \E p \in Projects : DeleteProject(p) \/ ForgetProject(p) \/ ExpireProject(p)
      PROVE  PaidFor(m)'
  <2>1. UNCHANGED <<hands, stored, calls, faults>>
    BY <1>5 DEF LoggerRestart, DeleteProject, ForgetProject, ExpireProject
  <2>2. Orphans(m)' \subseteq Orphans(m) /\ (ToBeStored(m)' => ToBeStored(m))
    BY <2>1 DEF Orphans, ToBeStored, ReportedStored
  <2>3. /\ stored'[m] = stored[m] /\ faults' \in Nat /\ faults' >= faults
        /\ m \in ToSet(ready') => m \in ToSet(ready)
    BY <1>0, <2>1
  <2> QED  BY <1>0, <2>2, <2>3, NoFurtherCopy
<1> QED
  BY <1>1, <1>2, <1>3, <1>4, <1>5 DEF LoggerNext, LogInfoNext

(* Every step keeps it.                                                    *)
LEMMA CopiesStep ==
  ASSUME DeliveryAssumption, IInv, CopiesInv, [Next]_vars  PROVE CopiesInv'
<1>1. Untouched' /\ Single'
  BY UntouchedStep, SingleStep DEF CopiesInv
<1>2. ASSUME NEW m \in Messages, UNCHANGED vars  PROVE PaidFor(m)'
  BY <1>2 DEF CopiesInv, PaidFor, Copies, Orphans, ToBeStored, ReportedStored,
              vars, brokerVars, queueVars, listenerVars, loggerVars
<1>3. ASSUME NEW m \in Messages  PROVE PaidFor(m)'
  BY <1>2, CopiesRabbit, CopiesListener, CopiesLogger DEF Next
<1> QED  BY <1>1, <1>3 DEF CopiesInv

(* Each copy of an event beyond the first was paid for by a fault: refusals, *)
(* retries and backlog never store an event twice, whatever the number of    *)
(* calls, messages and faults.                                             *)
THEOREM CopiesArePaidFor == ASSUME DeliveryAssumption  PROVE Spec => []CopiesCostFaults
<1>1. Init => CopiesInv
  <2> SUFFICES ASSUME Init  PROVE CopiesInv
    OBVIOUS
  <2>1. \A m \in Messages : ~ Abroad(m)
    BY DEF Init, DeliveryAssumption, Abroad, ToSet, Free
  <2>2. Single
    BY DEF Init, Single, IsInjective, ToSet
  <2>3. ASSUME NEW m \in Messages  PROVE PaidFor(m)
    <3>1. Orphans(m) = {} /\ stored[m] = 0 /\ faults = 0 /\ m \notin ToSet(ready) /\ ~ ToBeStored(m)
      BY <2>1 DEF Init, Orphans, Abroad, ToBeStored
    <3>2. IsFiniteSet({}) /\ Cardinality({}) = 0
      BY FS_EmptySet
    <3> QED  BY <3>1, <3>2 DEF PaidFor, Copies, One
  <2> QED  BY <2>1, <2>2, <2>3 DEF CopiesInv, Untouched
<1>2. IInv /\ CopiesInv => CopiesCostFaults
  <2> SUFFICES ASSUME IInv, CopiesInv, NEW m \in Messages  PROVE stored[m] <= 1 + faults
    BY DEF CopiesCostFaults
  <2>1. stored[m] \in Nat /\ faults \in Nat
    BY DEF IInv, TypeOK
  <2>2. Cardinality(Orphans(m)) \in Nat /\ Copies(m) <= 1 + faults
    BY FS_CardinalityType DEF CopiesInv, PaidFor
  <2> QED  BY <2>1, <2>2 DEF Copies, One
<1>3. IInv /\ CopiesInv /\ [Next]_vars => CopiesInv'
  BY CopiesStep
<1> QED  BY <1>1, <1>2, <1>3, DeliveryInvariant, PTL DEF Spec
=============================================================================
