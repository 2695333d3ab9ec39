------------------------------ MODULE ChanProofs ------------------------------
(***************************************************************************)
(* Theorems about Chan for every set of threads and items and every         *)
(* capacity: type correctness, no lost wake-up, and the refinement of the   *)
(* atomic channel.                                                          *)
(***************************************************************************)
EXTENDS Chan, FiniteSetTheorems, TLAPS

\* What is left of a thread's call when it returns.
LEMMA ReturnTypes ==
  ASSUME TypeOK, NEW t \in Threads,
         NEW r \in Items \cup {NoItem, "ok", "full", "closed"}, Return(t, r)
  PROVE  /\ op' = [op EXCEPT ![t] = "none"] /\ op' \in [Threads -> Ops]
         /\ item' \in [Threads -> Items \cup {NoItem}]
         /\ ret' \in [Threads -> Items \cup {NoItem, "ok", "full", "closed"}]
         /\ \A u \in Threads : op'[u] \in SendOps => item'[u] \in Items
         /\ expired' \subseteq Threads
         /\ Receivers' = Receivers \ {t}
         /\ Senders' = Senders \ {t}
BY DEF TypeOK, Return, Ops, SendOps, RecvOps, Receivers, Senders

\* notify_one moves at most one waiter; the caller leaves the woken threads.
LEMMA NotifyTypes ==
  ASSUME TypeOK, NEW t \in Threads, t \notin waiting,
         NotifyNotEmpty(t) \/ NotifyNotFull(t)
  PROVE  /\ notEmpty' \subseteq notEmpty
         /\ notFull' \subseteq notFull
         /\ woken' \subseteq (woken \ {t}) \cup waiting
         /\ woken' \cap (notEmpty' \cup notFull') = {}
         /\ t \notin woken'
BY DEF TypeOK, NotifyNotEmpty, NotifyNotFull, waiting, Receivers, Senders

LEMMA TypeInit == Init => TypeOK
<1> SUFFICES ASSUME Init PROVE TypeOK
  OBVIOUS
<1>1. <<>> \in Seq(Items) /\ Len(<<>>) = 0 /\ 0 <= Capacity
  BY ChanAssumption DEF ChanAssumption
<1>2. \A t \in Threads : op[t] \notin SendOps
  BY DEF Init, SendOps
<1> QED BY <1>1, <1>2 DEF Init, TypeOK, Ops, waiting

LEMMA TypeAnswer ==
  ASSUME TypeOK, NEW t \in Threads, t \notin waiting,
         NEW r \in {NoItem, "ok", "full", "closed"}, Answer(t, r)
  PROVE  TypeOK'
<1>1. Return(t, r) BY DEF Answer
<1> QED BY <1>1, ReturnTypes DEF Answer, TypeOK, waiting

LEMMA TypePut ==
  ASSUME TypeOK, NEW t \in Threads, t \notin waiting, op[t] \in SendOps, ~Full, Put(t)
  PROVE  TypeOK'
<1>1. Return(t, "ok") /\ NotifyNotEmpty(t) /\ closed' = closed BY DEF Put
<1>2. buf' \in Seq(Items) /\ Len(buf') <= Capacity
  BY ChanAssumption DEF Put, TypeOK, Full, ChanAssumption
<1> QED BY <1>1, <1>2, ReturnTypes, NotifyTypes DEF TypeOK, waiting

LEMMA TypeTake ==
  ASSUME TypeOK, NEW t \in Threads, t \notin waiting, buf # <<>>, Take(t)
  PROVE  TypeOK'
<1>1. Head(buf) \in Items BY DEF TypeOK
<1>2. Return(t, Head(buf)) /\ NotifyNotFull(t) /\ closed' = closed BY DEF Take
<1>3. buf' \in Seq(Items) /\ Len(buf') <= Capacity
  BY ChanAssumption DEF Take, TypeOK, ChanAssumption
<1> QED BY <1>1, <1>2, <1>3, ReturnTypes, NotifyTypes DEF TypeOK, waiting

LEMMA TypeBlock ==
  ASSUME TypeOK, NEW t \in Threads, t \notin waiting,
         \/ t \in Receivers /\ BlockOnNotEmpty(t)
         \/ t \in Senders /\ BlockOnNotFull(t)
  PROVE  TypeOK'
BY DEF TypeOK, BlockOnNotEmpty, BlockOnNotFull, Receivers, Senders, waiting

LEMMA TypeNext == TypeOK /\ [Next]_vars => TypeOK'
<1> SUFFICES ASSUME TypeOK, [Next]_vars PROVE TypeOK'
  OBVIOUS
<1>1. CASE UNCHANGED vars
  BY <1>1 DEF vars, TypeOK, Receivers, Senders, waiting
<1>2. ASSUME NEW t \in Threads, Call(t) PROVE TypeOK'
  <2>1. ASSUME NEW o \in Ops \ {"none"}, NEW i \in Items \cup {NoItem},
               o \in SendOps => i \in Items, Invoke(t, o, i)
        PROVE  TypeOK'
    <3>1. /\ op' \in [Threads -> Ops] /\ item' \in [Threads -> Items \cup {NoItem}]
          /\ ret' \in [Threads -> Items \cup {NoItem, "ok", "full", "closed"}]
          /\ \A u \in Threads : op'[u] \in SendOps => item'[u] \in Items
      BY <2>1 DEF Invoke, TypeOK
    <3>2. Receivers \subseteq Receivers' /\ Senders \subseteq Senders'
      BY <2>1 DEF Invoke, TypeOK, Receivers, Senders
    <3> QED BY <2>1, <3>1, <3>2 DEF Invoke, TypeOK, waiting
  <2> QED BY <1>2, <2>1 DEF Call, Ops, SendOps, RecvOps
<1>3. ASSUME NEW t \in Threads, Step(t) PROVE TypeOK'
  <2>1. CASE Send(t)
    BY <2>1, TypeAnswer, TypePut, TypeBlock DEF Send, Enters, SendOps, Senders
  <2>2. CASE TrySend(t)
    BY <2>2, TypeAnswer, TypePut DEF TrySend, Enters, SendOps
  <2>3. CASE SendDropOldest(t)
    <3>1. CASE closed
      BY <2>3, <3>1, TypeAnswer DEF SendDropOldest, Enters
    <3>2. CASE ~closed
      <4>1. buf' = Append(IF Full THEN Tail(buf) ELSE buf, item[t]) /\ item[t] \in Items
        BY <2>3, <3>2 DEF SendDropOldest, Enters, SendOps, TypeOK
      <4>2. Return(t, "ok") /\ NotifyNotEmpty(t) /\ closed' = closed /\ t \notin waiting
        BY <2>3, <3>2 DEF SendDropOldest, Enters
      <4>3. buf' \in Seq(Items) /\ Len(buf') <= Capacity
        <5>1. CASE Full
          <6>1. buf # <<>> /\ Capacity \in Nat /\ Len(buf) <= Capacity
            BY <5>1, ChanAssumption DEF Full, ChanAssumption, TypeOK
          <6>2. Tail(buf) \in Seq(Items) /\ Len(Tail(buf)) = Len(buf) - 1
            BY <6>1 DEF TypeOK
          <6> QED BY <4>1, <5>1, <6>1, <6>2 DEF TypeOK
        <5>2. CASE ~Full
          BY <4>1, <5>2, ChanAssumption DEF Full, ChanAssumption, TypeOK
        <5> QED BY <5>1, <5>2
      <4> QED BY <4>2, <4>3, ReturnTypes, NotifyTypes DEF TypeOK, waiting
    <3> QED BY <3>1, <3>2
  <2>4. CASE Recv(t)
    BY <2>4, TypeAnswer, TypeTake, TypeBlock DEF Recv, Enters, Receivers
  <2>5. CASE RecvFor(t)
    BY <2>5, TypeAnswer, TypeTake, TypeBlock DEF RecvFor, Enters, Receivers
  <2>6. CASE TryRecv(t)
    BY <2>6, TypeAnswer, TypeTake DEF TryRecv, Enters
  <2>7. CASE Close(t)
    <3>1. Return(t, "ok") /\ t \notin waiting BY <2>7 DEF Close, Enters
    <3> QED BY <2>7, <3>1, ReturnTypes DEF Close, TypeOK, waiting
  <2> QED BY <1>3, <2>1, <2>2, <2>3, <2>4, <2>5, <2>6, <2>7 DEF Step
<1>4. ASSUME NEW t \in Threads, Expire(t) \/ SpuriousWakeup(t) PROVE TypeOK'
  BY <1>4 DEF Expire, SpuriousWakeup, TypeOK, Receivers, Senders, waiting
<1> QED BY <1>1, <1>2, <1>3, <1>4 DEF Next

\* Chan keeps its types: in particular the buffer never exceeds capacity_
\* (channel.hpp:51-69) and a blocked thread is blocked for its own operation.
THEOREM TypeCorrect == Spec => []TypeOK
BY TypeInit, TypeNext, PTL DEF Spec

-----------------------------------------------------------------------------
\* The threads on their way back to mu_, by what they wait for.
WokenReceivers == woken \cap Receivers
WokenSenders == woken \cap Senders

LEMMA CountMonotone ==
  ASSUME NEW A \in SUBSET Threads, NEW B \in SUBSET A
  PROVE  Cardinality(B) \in Nat /\ Cardinality(A) \in Nat /\ Cardinality(B) <= Cardinality(A)
<1>1. IsFiniteSet(A)
  BY FS_Subset, ChanAssumption DEF ChanAssumption
<1>2. IsFiniteSet(B) /\ Cardinality(B) <= Cardinality(A)
  BY <1>1, FS_Subset
<1> QED BY <1>1, <1>2, FS_CardinalityType

LEMMA CountAdd ==
  ASSUME NEW A \in SUBSET Threads, NEW w, w \notin A
  PROVE  Cardinality(A) \in Nat /\ Cardinality(A \cup {w}) = Cardinality(A) + 1
<1>1. IsFiniteSet(A)
  BY FS_Subset, ChanAssumption DEF ChanAssumption
<1> QED BY <1>1, FS_AddElement, FS_CardinalityType

LEMMA CountRemove ==
  ASSUME NEW A \in SUBSET Threads, NEW t
  PROVE  /\ Cardinality(A) \in Nat /\ Cardinality(A \ {t}) \in Nat
         /\ Cardinality(A) <= Cardinality(A \ {t}) + 1
<1>1. IsFiniteSet(A)
  BY FS_Subset, ChanAssumption DEF ChanAssumption
<1>2. IsFiniteSet(A \ {t}) /\ Cardinality(A \ {t}) = IF t \in A THEN Cardinality(A) - 1 ELSE Cardinality(A)
  BY <1>1, FS_RemoveElement
<1>3. Cardinality(A) \in Nat /\ Cardinality(A \ {t}) \in Nat
  BY <1>1, <1>2, FS_CardinalityType
<1> QED BY <1>2, <1>3

LEMMA WokenAreThreads ==
  ASSUME TypeOK
  PROVE  /\ WokenReceivers \in SUBSET Threads /\ WokenSenders \in SUBSET Threads
         /\ Cardinality(WokenReceivers) \in Nat /\ Cardinality(WokenSenders) \in Nat
         /\ Len(buf) \in Nat /\ Capacity \in Nat
<1>1. /\ WokenReceivers \in SUBSET Threads /\ WokenSenders \in SUBSET Threads
      /\ Len(buf) \in Nat /\ Capacity \in Nat
  BY ChanAssumption DEF TypeOK, WokenReceivers, WokenSenders, Receivers, Senders, ChanAssumption
<1> QED BY <1>1, CountMonotone

\* A successful push: the notified receiver, if any, balances the new item,
\* and the place that is gone was the pushing sender's.
LEMMA PutWakes ==
  ASSUME TypeOK, NoLostWakeup, NEW t \in Threads, t \notin waiting, op[t] \in SendOps,
         Return(t, "ok"), NotifyNotEmpty(t), ~closed, closed' = closed,
         \/ Len(buf') = Len(buf) + 1
         \/ Len(buf') = Len(buf) /\ Capacity <= Len(buf)
  PROVE  NoLostWakeup'
<1>1. Receivers' = Receivers /\ Senders' = Senders \ {t} /\ t \notin Receivers
  BY ReturnTypes DEF Receivers, SendOps
<1>2. notEmpty' # {} => Len(buf') <= Cardinality(WokenReceivers')
  <2> SUFFICES ASSUME notEmpty' # {} PROVE Len(buf') <= Cardinality(WokenReceivers')
    OBVIOUS
  <2>1. PICK w \in notEmpty : notEmpty' = notEmpty \ {w} /\ woken' = (woken \ {t}) \cup {w}
    BY DEF NotifyNotEmpty
  <2>2. w \in Receivers /\ w \notin WokenReceivers
    BY <2>1 DEF TypeOK, waiting, WokenReceivers
  <2>3. WokenReceivers' = WokenReceivers \cup {w}
    BY <1>1, <2>1, <2>2 DEF WokenReceivers
  <2>4. Cardinality(WokenReceivers') = Cardinality(WokenReceivers) + 1
    BY <2>2, <2>3, CountAdd, WokenAreThreads
  <2>5. Len(buf) <= Cardinality(WokenReceivers)
    BY <2>1 DEF NoLostWakeup, WokenReceivers
  <2> QED BY <2>4, <2>5, WokenAreThreads
<1>3. notFull' # {} => Capacity <= Len(buf') + Cardinality(WokenSenders')
  <2> SUFFICES ASSUME notFull' # {} PROVE Capacity <= Len(buf') + Cardinality(WokenSenders')
    OBVIOUS
  <2>1. notFull' = notFull /\ notEmpty \cap Senders = {}
    BY DEF NotifyNotEmpty, TypeOK, Receivers, Senders
  <2>2. WokenSenders' = WokenSenders \ {t}
    BY <1>1, <2>1 DEF WokenSenders, NotifyNotEmpty
  <2>3. Capacity <= Len(buf) + Cardinality(WokenSenders)
    BY <2>1 DEF NoLostWakeup, WokenSenders
  <2>4. /\ Cardinality(WokenSenders') \in Nat
        /\ Cardinality(WokenSenders) <= Cardinality(WokenSenders') + 1
    BY <2>2, CountRemove, WokenAreThreads
  <2> QED BY <2>3, <2>4, WokenAreThreads
<1>4. closed' => waiting' = {}
  OBVIOUS
<1> QED BY <1>2, <1>3, <1>4 DEF NoLostWakeup, WokenReceivers, WokenSenders

\* A successful pop, the mirror image.
LEMMA TakeWakes ==
  ASSUME TypeOK, NoLostWakeup, NEW t \in Threads, t \notin waiting, op[t] \in RecvOps,
         buf # <<>>, Take(t)
  PROVE  NoLostWakeup'
<1>1. Head(buf) \in Items /\ Len(buf') = Len(buf) - 1 /\ Len(buf) \in Nat \ {0}
  BY DEF TypeOK, Take
<1>2. Return(t, Head(buf)) /\ NotifyNotFull(t) /\ closed' = closed BY DEF Take
<1>3. Senders' = Senders /\ Receivers' = Receivers \ {t} /\ t \notin Senders
  BY <1>1, <1>2, ReturnTypes DEF Senders, RecvOps
<1>4. notFull' # {} => Capacity <= Len(buf') + Cardinality(WokenSenders')
  <2> SUFFICES ASSUME notFull' # {} PROVE Capacity <= Len(buf') + Cardinality(WokenSenders')
    OBVIOUS
  <2>1. PICK w \in notFull : notFull' = notFull \ {w} /\ woken' = (woken \ {t}) \cup {w}
    BY <1>2 DEF NotifyNotFull
  <2>2. w \in Senders /\ w \notin WokenSenders
    BY <2>1 DEF TypeOK, waiting, WokenSenders
  <2>3. WokenSenders' = WokenSenders \cup {w}
    BY <1>3, <2>1, <2>2 DEF WokenSenders
  <2>4. Cardinality(WokenSenders') = Cardinality(WokenSenders) + 1
    BY <2>2, <2>3, CountAdd, WokenAreThreads
  <2>5. Capacity <= Len(buf) + Cardinality(WokenSenders)
    BY <2>1 DEF NoLostWakeup, WokenSenders
  <2> QED BY <1>1, <2>4, <2>5, WokenAreThreads
<1>5. notEmpty' # {} => Len(buf') <= Cardinality(WokenReceivers')
  <2> SUFFICES ASSUME notEmpty' # {} PROVE Len(buf') <= Cardinality(WokenReceivers')
    OBVIOUS
  <2>1. notEmpty' = notEmpty /\ notFull \cap Receivers = {}
    BY <1>2 DEF NotifyNotFull, TypeOK, Receivers, Senders
  <2>2. WokenReceivers' = WokenReceivers \ {t}
    BY <1>2, <1>3, <2>1 DEF WokenReceivers, NotifyNotFull
  <2>3. Len(buf) <= Cardinality(WokenReceivers)
    BY <2>1 DEF NoLostWakeup, WokenReceivers
  <2>4. /\ Cardinality(WokenReceivers') \in Nat
        /\ Cardinality(WokenReceivers) <= Cardinality(WokenReceivers') + 1
    BY <2>2, CountRemove, WokenAreThreads
  <2> QED BY <1>1, <2>3, <2>4, WokenAreThreads
<1>6. closed' => waiting' = {}
  BY <1>2 DEF NoLostWakeup, NotifyNotFull, waiting
<1> QED BY <1>4, <1>5, <1>6 DEF NoLostWakeup, WokenReceivers, WokenSenders

\* A return that leaves the buffer alone: the caller was not counted, or the
\* buffer is empty, or the channel is closed.
LEMMA AnswerKeeps ==
  ASSUME TypeOK, NoLostWakeup, NEW t \in Threads,
         NEW r \in {NoItem, "ok", "full", "closed"}, Answer(t, r),
         closed \/ t \notin Senders, buf = <<>> \/ t \notin Receivers
  PROVE  NoLostWakeup'
<1>1. /\ Receivers' = Receivers \ {t} /\ Senders' = Senders \ {t} /\ woken' = woken \ {t}
      /\ buf' = buf /\ closed' = closed /\ notEmpty' = notEmpty /\ notFull' = notFull
  BY ReturnTypes DEF Answer
<1>2. t \notin Senders => WokenSenders' = WokenSenders
  BY <1>1 DEF WokenSenders
<1>3. t \notin Receivers => WokenReceivers' = WokenReceivers
  BY <1>1 DEF WokenReceivers
<1>4. WokenReceivers' \in SUBSET Threads /\ Cardinality(WokenReceivers') \in Nat
  BY <1>1, CountRemove, WokenAreThreads DEF WokenReceivers
<1>5. notEmpty' # {} => Len(buf') <= Cardinality(WokenReceivers')
  <2>1. CASE buf = <<>>
    <3>1. Len(buf') = 0 BY <1>1, <2>1
    <3> QED BY <1>4, <3>1
  <2>2. CASE t \notin Receivers
    BY <1>1, <1>3, <2>2 DEF NoLostWakeup, WokenReceivers
  <2> QED BY <2>1, <2>2
<1>6. notFull' # {} => Capacity <= Len(buf') + Cardinality(WokenSenders')
  BY <1>1, <1>2 DEF NoLostWakeup, WokenSenders, waiting
<1> QED BY <1>1, <1>5, <1>6 DEF NoLostWakeup, WokenReceivers, WokenSenders, waiting

\* Nobody who was woken goes away and nobody new blocks: the counts can only grow.
LEMMA WakesKeep ==
  ASSUME TypeOK, TypeOK', NoLostWakeup, UNCHANGED <<buf, closed>>,
         WokenReceivers \subseteq WokenReceivers', WokenSenders \subseteq WokenSenders',
         notEmpty' \subseteq notEmpty, notFull' \subseteq notFull
  PROVE  NoLostWakeup'
<1>1. WokenReceivers' \in SUBSET Threads /\ WokenSenders' \in SUBSET Threads
  BY DEF TypeOK, WokenReceivers, WokenSenders, Receivers, Senders
<1>2. /\ Cardinality(WokenReceivers) <= Cardinality(WokenReceivers')
      /\ Cardinality(WokenSenders) <= Cardinality(WokenSenders')
      /\ Cardinality(WokenReceivers') \in Nat /\ Cardinality(WokenSenders') \in Nat
  BY <1>1, CountMonotone
<1>3. notEmpty' # {} => Len(buf') <= Cardinality(WokenReceivers')
  <2> SUFFICES ASSUME notEmpty' # {} PROVE Len(buf) <= Cardinality(WokenReceivers')
    OBVIOUS
  <2>1. Len(buf) <= Cardinality(WokenReceivers) BY DEF NoLostWakeup, WokenReceivers
  <2> QED BY <1>2, <2>1, WokenAreThreads
<1>4. notFull' # {} => Capacity <= Len(buf') + Cardinality(WokenSenders')
  <2> SUFFICES ASSUME notFull' # {} PROVE Capacity <= Len(buf) + Cardinality(WokenSenders')
    OBVIOUS
  <2>1. Capacity <= Len(buf) + Cardinality(WokenSenders) BY DEF NoLostWakeup, WokenSenders
  <2> QED BY <1>2, <2>1, WokenAreThreads
<1>5. closed' => waiting' = {}
  BY DEF NoLostWakeup, waiting
<1> QED BY <1>3, <1>4, <1>5 DEF NoLostWakeup, WokenReceivers, WokenSenders

LEMMA WakeupNext == TypeOK /\ TypeOK' /\ NoLostWakeup /\ [Next]_vars => NoLostWakeup'
<1> SUFFICES ASSUME TypeOK, TypeOK', NoLostWakeup, [Next]_vars PROVE NoLostWakeup'
  OBVIOUS
<1>1. CASE UNCHANGED vars
  BY <1>1 DEF vars, NoLostWakeup, Receivers, Senders, waiting
<1>2. ASSUME NEW t \in Threads, Call(t) PROVE NoLostWakeup'
  <2>1. PICK o \in Ops \ {"none"}, i \in Items \cup {NoItem} : Invoke(t, o, i)
    BY <1>2 DEF Call, Ops, SendOps, RecvOps
  <2>2. WokenReceivers \subseteq WokenReceivers' /\ WokenSenders \subseteq WokenSenders'
    BY <2>1 DEF Invoke, TypeOK, Receivers, Senders, WokenReceivers, WokenSenders
  <2> QED BY <2>1, <2>2, WakesKeep DEF Invoke
<1>3. ASSUME NEW t \in Threads, Step(t) PROVE NoLostWakeup'
  <2>1. CASE Send(t)
    <3>1. op[t] = "send" /\ t \notin waiting BY <2>1 DEF Send, Enters
    <3>2. CASE closed /\ Answer(t, "closed")
      BY <3>1, <3>2, AnswerKeeps DEF Receivers
    <3>3. CASE ~closed /\ Full /\ BlockOnNotFull(t)
      <4>1. /\ UNCHANGED <<buf, closed, notEmpty>> /\ Receivers' = Receivers
            /\ woken' = woken \ {t} /\ t \notin Receivers
        BY <3>1, <3>3 DEF BlockOnNotFull, Receivers
      <4>2. WokenReceivers' = WokenReceivers BY <4>1 DEF WokenReceivers
      <4>3. Capacity <= Len(buf') + Cardinality(WokenSenders')
        <5>1. WokenSenders' \in SUBSET Threads
          BY DEF TypeOK, WokenSenders, Senders
        <5>2. Cardinality(WokenSenders') \in Nat BY <5>1, CountMonotone
        <5> QED BY <3>3, <4>1, <5>2, WokenAreThreads DEF Full
      <4> QED BY <3>3, <4>1, <4>2, <4>3 DEF NoLostWakeup, WokenReceivers, WokenSenders
    <3>4. CASE ~closed /\ ~Full /\ Put(t)
      <4>1. Len(buf') = Len(buf) + 1 BY <3>4 DEF Put, TypeOK
      <4> QED BY <3>1, <3>4, <4>1, PutWakes DEF Put, SendOps
    <3> QED BY <2>1, <3>2, <3>3, <3>4 DEF Send
  <2>2. CASE TrySend(t)
    <3>1. op[t] = "trySend" /\ t \notin waiting BY <2>2 DEF TrySend, Enters
    <3>2. CASE Answer(t, "closed") \/ Answer(t, "full")
      BY <3>1, <3>2, AnswerKeeps DEF Receivers, Senders
    <3>3. CASE ~closed /\ ~Full /\ Put(t)
      <4>1. Len(buf') = Len(buf) + 1 BY <3>3 DEF Put, TypeOK
      <4> QED BY <3>1, <3>3, <4>1, PutWakes DEF Put, SendOps
    <3> QED BY <2>2, <3>2, <3>3 DEF TrySend
  <2>3. CASE SendDropOldest(t)
    <3>1. op[t] = "sendDropOldest" /\ t \notin waiting BY <2>3 DEF SendDropOldest, Enters
    <3>2. CASE closed /\ Answer(t, "closed")
      BY <3>1, <3>2, AnswerKeeps DEF Receivers, Senders
    <3>3. CASE ~(closed /\ Answer(t, "closed"))
      <4>1. /\ ~closed /\ buf' = Append(IF Full THEN Tail(buf) ELSE buf, item[t])
            /\ NotifyNotEmpty(t) /\ Return(t, "ok") /\ closed' = closed
        BY <2>3, <3>3 DEF SendDropOldest
      <4>2. CASE Full
        <5>1. Capacity <= Len(buf) /\ buf # <<>>
          BY <4>2, ChanAssumption DEF Full, TypeOK, ChanAssumption
        <5>2. Tail(buf) \in Seq(Items) /\ Len(Tail(buf)) = Len(buf) - 1
          BY <5>1 DEF TypeOK
        <5>3. Len(buf') = Len(buf)
          BY <4>1, <4>2, <5>2 DEF TypeOK
        <5> QED BY <3>1, <4>1, <5>1, <5>3, PutWakes DEF SendOps
      <4>3. CASE ~Full
        <5>1. Len(buf') = Len(buf) + 1 BY <4>1, <4>3 DEF TypeOK
        <5> QED BY <3>1, <4>1, <5>1, PutWakes DEF SendOps
      <4> QED BY <4>2, <4>3
    <3> QED BY <3>2, <3>3
  <2>4. ASSUME Recv(t) \/ RecvFor(t) PROVE NoLostWakeup'
    <3>1. op[t] \in {"recv", "recvFor"} /\ t \notin waiting
      BY <2>4 DEF Recv, RecvFor, Enters
    <3>2. CASE buf # <<>> /\ Take(t)
      BY <3>1, <3>2, TakeWakes DEF RecvOps
    <3>3. CASE buf = <<>> /\ Answer(t, NoItem)
      BY <3>1, <3>3, AnswerKeeps DEF Senders
    <3>4. CASE buf = <<>> /\ ~closed /\ BlockOnNotEmpty(t)
      <4>1. /\ UNCHANGED <<buf, closed, notFull>> /\ Senders' = Senders
            /\ woken' = woken \ {t} /\ t \notin Senders
        BY <3>1, <3>4 DEF BlockOnNotEmpty, Senders
      <4>2. WokenSenders' = WokenSenders BY <4>1 DEF WokenSenders
      <4>3. Len(buf') <= Cardinality(WokenReceivers')
        <5>1. WokenReceivers' \in SUBSET Threads
          BY DEF TypeOK, WokenReceivers, Receivers
        <5>2. Cardinality(WokenReceivers') \in Nat BY <5>1, CountMonotone
        <5>3. Len(buf') = 0 BY <3>4, <4>1
        <5> QED BY <5>2, <5>3
      <4> QED BY <3>4, <4>1, <4>2, <4>3 DEF NoLostWakeup, WokenReceivers, WokenSenders
    <3> QED BY <2>4, <3>2, <3>3, <3>4 DEF Recv, RecvFor
  <2>5. CASE TryRecv(t)
    <3>1. op[t] = "tryRecv" /\ t \notin waiting BY <2>5 DEF TryRecv, Enters
    <3> QED BY <2>5, <3>1, TakeWakes, AnswerKeeps DEF TryRecv, RecvOps, Senders
  <2>6. CASE Close(t)
    BY <2>6 DEF Close, NoLostWakeup, waiting
  <2> QED BY <1>3, <2>1, <2>2, <2>3, <2>4, <2>5, <2>6 DEF Step
<1>4. ASSUME NEW t \in Threads, Expire(t) \/ SpuriousWakeup(t) PROVE NoLostWakeup'
  <2>1. /\ WokenReceivers \subseteq WokenReceivers' /\ WokenSenders \subseteq WokenSenders'
        /\ notEmpty' \subseteq notEmpty /\ notFull' \subseteq notFull
        /\ UNCHANGED <<buf, closed>>
    BY <1>4 DEF Expire, SpuriousWakeup, WokenReceivers, WokenSenders, Receivers, Senders
  <2> QED BY <2>1, WakesKeep
<1> QED BY <1>1, <1>2, <1>3, <1>4 DEF Next

\* No wake-up is lost: a thread stays blocked only while enough others are on
\* their way to take what is there, for every number of threads and every
\* capacity (the notify calls of channel.hpp:37-113).
THEOREM WakeupsNotLost == Spec => []NoLostWakeup
<1>1. Init => NoLostWakeup BY DEF Init, NoLostWakeup, waiting
<1> QED BY <1>1, TypeInit, TypeNext, WakeupNext, PTL DEF Spec

-----------------------------------------------------------------------------
\* A critical section is one atomic effect, or a block, which the atomic
\* channel does not see.
LEMMA StepRefines ==
  ASSUME TypeOK, NEW t \in Threads, Step(t)
  PROVE  Atomic!Effect(t) \/ UNCHANGED Atomic!vars
<1> USE DEF Enters, Answer, Put, Take, Return, Atomic!Answer, Atomic!Put, Atomic!Take, Atomic!Return
<1>0. Len(buf) \in Nat /\ Capacity \in Nat
  BY ChanAssumption DEF TypeOK, ChanAssumption
<1>1. CASE Send(t)
  <2>1. Atomic!Send(t) \/ UNCHANGED Atomic!vars
    BY <1>0, <1>1 DEF Send, Full, BlockOnNotFull, Atomic!Send, Atomic!vars
  <2> QED BY <2>1 DEF Atomic!Effect
<1>2. CASE TrySend(t)
  <2>1. Atomic!TrySend(t)
    BY <1>0, <1>2 DEF TrySend, Full, Atomic!TrySend
  <2> QED BY <2>1 DEF Atomic!Effect
<1>3. CASE SendDropOldest(t)
  <2>1. Atomic!SendDropOldest(t)
    BY <1>0, <1>3 DEF SendDropOldest, Full, Atomic!SendDropOldest
  <2> QED BY <2>1 DEF Atomic!Effect
<1>4. CASE Recv(t)
  <2>1. Atomic!Recv(t) \/ UNCHANGED Atomic!vars
    BY <1>4 DEF Recv, BlockOnNotEmpty, Atomic!Recv, Atomic!vars
  <2> QED BY <2>1 DEF Atomic!Effect
<1>5. CASE RecvFor(t)
  <2>1. Atomic!RecvFor(t) \/ UNCHANGED Atomic!vars
    BY <1>5 DEF RecvFor, BlockOnNotEmpty, Atomic!RecvFor, Atomic!vars
  <2> QED BY <2>1 DEF Atomic!Effect
<1>6. CASE TryRecv(t)
  <2>1. Atomic!TryRecv(t)
    BY <1>6 DEF TryRecv, Atomic!TryRecv
  <2> QED BY <2>1 DEF Atomic!Effect
<1>7. CASE Close(t)
  <2>1. Atomic!Close(t)
    BY <1>7 DEF Close, Atomic!Close
  <2> QED BY <2>1 DEF Atomic!Effect
<1> QED BY <1>1, <1>2, <1>3, <1>4, <1>5, <1>6, <1>7 DEF Step

LEMMA NextRefines == TypeOK /\ [Next]_vars => [Atomic!Next]_(Atomic!vars)
<1> SUFFICES ASSUME TypeOK, [Next]_vars PROVE [Atomic!Next]_(Atomic!vars)
  OBVIOUS
<1>0. Threads = Atomic!Threads BY DEF Threads, Atomic!Threads
<1>1. CASE UNCHANGED vars
  BY <1>1 DEF vars, Atomic!vars
<1>2. ASSUME NEW t \in Threads, Call(t) PROVE Atomic!Next
  <2>1. Atomic!Call(t)
    BY <1>2 DEF Call, Invoke, SendOps, RecvOps, Atomic!Call, Atomic!Invoke, Atomic!SendOps, Atomic!RecvOps
  <2> QED BY <1>0, <2>1 DEF Atomic!Next
<1>3. ASSUME NEW t \in Threads, Step(t) PROVE [Atomic!Next]_(Atomic!vars)
  BY <1>0, <1>3, StepRefines DEF Atomic!Next
<1>4. ASSUME NEW t \in Threads, Expire(t) \/ SpuriousWakeup(t) PROVE UNCHANGED Atomic!vars
  BY <1>4 DEF Expire, SpuriousWakeup, Atomic!vars
<1> QED BY <1>1, <1>2, <1>3, <1>4 DEF Next

\* The monitor of channel.hpp implements the atomic bounded FIFO channel: with
\* any threads, items and capacity, what callers see of the operations and of
\* the buffer is a behaviour of BoundedChannel.
THEOREM Refinement == Spec => ImplementsChannel
<1>1. Init => Atomic!Init
  BY DEF Init, Atomic!Init, Threads, Atomic!Threads
<1> QED BY <1>1, TypeInit, TypeNext, NextRefines, PTL DEF Spec, ImplementsChannel, Atomic!Spec

===============================================================================
