--------------------------------- MODULE Chan ---------------------------------
(***************************************************************************)
(* Chan<T> of include/can/channel.hpp: a monitor with one mutex (mu_) and   *)
(* two condition variables.  A critical section - from the acquisition of   *)
(* mu_ to its release, or to the wait that releases it - is one action.     *)
(* A condition variable is the set of the threads blocked on it; a thread   *)
(* taken out of that set (by a notify, a time-out or spuriously) is woken:  *)
(* it still has to win mu_ and to look at the predicate again, and any      *)
(* other thread may get there first.                                        *)
(***************************************************************************)
EXTENDS Naturals, Sequences, FiniteSets

CONSTANTS Producers,  \* threads that call send, try_send, send_drop_oldest
          Consumers,  \* threads that call recv, recv_for, try_recv
          Items,      \* values that travel through the channel
          NoItem,     \* "no argument" / std::nullopt
          Capacity    \* capacity_

Threads == Producers \cup Consumers

\* The buses normalise a depth of zero or less (SubscriberConfig::effective_depth).
ASSUME ChanAssumption ==
  /\ Capacity \in Nat \ {0}
  /\ IsFiniteSet(Threads)
  /\ NoItem \notin Items

VARIABLES buf,        \* buf_
          closed,     \* closed_
          op,         \* op[t]: the operation thread t is in, or "none"
          item,       \* item[t]: its argument
          ret,        \* ret[t]: what the last operation of t returned
          notEmpty,   \* threads blocked on cv_not_empty_
          notFull,    \* threads blocked on cv_not_full_
          woken,      \* threads that left a wait set and must re-acquire mu_
          expired     \* recv_for calls whose deadline has passed

vars == <<buf, closed, op, item, ret, notEmpty, notFull, woken, expired>>

SendOps == {"send", "trySend", "sendDropOldest"}
RecvOps == {"recv", "recvFor", "tryRecv"}
Ops == SendOps \cup RecvOps \cup {"close", "none"}

waiting == notEmpty \cup notFull

Full == Len(buf) >= Capacity

-----------------------------------------------------------------------------
Init ==
  /\ buf = <<>>
  /\ closed = FALSE
  /\ op = [t \in Threads |-> "none"]
  /\ item = [t \in Threads |-> NoItem]
  /\ ret = [t \in Threads |-> NoItem]
  /\ notEmpty = {} /\ notFull = {} /\ woken = {} /\ expired = {}

Invoke(t, o, i) ==
  /\ op[t] = "none"
  /\ op' = [op EXCEPT ![t] = o]
  /\ item' = [item EXCEPT ![t] = i]
  /\ ret' = [ret EXCEPT ![t] = NoItem]
  /\ UNCHANGED <<buf, closed, notEmpty, notFull, woken, expired>>

Call(t) ==
  \/ t \in Producers /\ \E o \in SendOps, i \in Items : Invoke(t, o, i)
  \/ t \in Consumers /\ \E o \in RecvOps : Invoke(t, o, NoItem)
  \/ Invoke(t, "close", NoItem)

\* Thread t is inside operation o and not blocked: it may acquire mu_.
Enters(t, o) == op[t] = o /\ t \notin waiting

Return(t, r) ==
  /\ op' = [op EXCEPT ![t] = "none"]
  /\ item' = [item EXCEPT ![t] = NoItem]
  /\ ret' = [ret EXCEPT ![t] = r]
  /\ expired' = expired \ {t}

\* cv_not_empty_.notify_one() by t, which leaves the monitor.
NotifyNotEmpty(t) ==
  /\ \/ notEmpty = {} /\ woken' = woken \ {t} /\ UNCHANGED notEmpty
     \/ \E w \in notEmpty : /\ notEmpty' = notEmpty \ {w}
                            /\ woken' = (woken \ {t}) \cup {w}
  /\ UNCHANGED notFull

\* cv_not_full_.notify_one() by t, which leaves the monitor.
NotifyNotFull(t) ==
  /\ \/ notFull = {} /\ woken' = woken \ {t} /\ UNCHANGED notFull
     \/ \E w \in notFull : /\ notFull' = notFull \ {w}
                           /\ woken' = (woken \ {t}) \cup {w}
  /\ UNCHANGED notEmpty

\* t returns without touching the buffer.
Answer(t, r) ==
  /\ Return(t, r)
  /\ woken' = woken \ {t}
  /\ UNCHANGED <<buf, closed, notEmpty, notFull>>

\* push_back, notify a receiver, return success.
Put(t) ==
  /\ buf' = Append(buf, item[t])
  /\ NotifyNotEmpty(t)
  /\ Return(t, "ok")
  /\ UNCHANGED closed

\* pop_front, notify a sender, return the item.
Take(t) ==
  /\ buf' = Tail(buf)
  /\ NotifyNotFull(t)
  /\ Return(t, Head(buf))
  /\ UNCHANGED closed

\* t blocks: it joins one wait set and gives mu_ up.
BlockOnNotEmpty(t) ==
  /\ notEmpty' = notEmpty \cup {t}
  /\ woken' = woken \ {t}
  /\ UNCHANGED <<buf, closed, op, item, ret, notFull, expired>>

BlockOnNotFull(t) ==
  /\ notFull' = notFull \cup {t}
  /\ woken' = woken \ {t}
  /\ UNCHANGED <<buf, closed, op, item, ret, notEmpty, expired>>

-----------------------------------------------------------------------------
\* send, and push, which forwards to it.
Send(t) ==
  /\ Enters(t, "send")
  /\ \/ closed /\ Answer(t, "closed")
     \/ ~closed /\ Full /\ BlockOnNotFull(t)
     \/ ~closed /\ ~Full /\ Put(t)

\* Fault: try_send does not notify.
TrySend_NoNotify(t) ==
  /\ Enters(t, "trySend")
  /\ \/ closed /\ Answer(t, "closed")
     \/ ~closed /\ Full /\ Answer(t, "full")
     \/ /\ ~closed /\ ~Full
        /\ buf' = Append(buf, item[t])
        /\ Return(t, "ok")
        /\ woken' = woken \ {t}
        /\ UNCHANGED <<closed, notEmpty, notFull>>

TrySend(t) ==
  /\ Enters(t, "trySend")
  /\ \/ closed /\ Answer(t, "closed")
     \/ ~closed /\ Full /\ Answer(t, "full")
     \/ ~closed /\ ~Full /\ Put(t)

\* Fault: the head is not evicted.
SendDropOldest_KeepsHead(t) ==
  /\ Enters(t, "sendDropOldest")
  /\ \/ closed /\ Answer(t, "closed")
     \/ ~closed /\ Put(t)

SendDropOldest(t) ==
  /\ Enters(t, "sendDropOldest")
  /\ \/ closed /\ Answer(t, "closed")
     \/ /\ ~closed
        /\ buf' = Append(IF Full THEN Tail(buf) ELSE buf, item[t])
        /\ NotifyNotEmpty(t)
        /\ Return(t, "ok")
        /\ UNCHANGED closed

\* Fault: a receiver that finds the channel closed drops what is queued.
Recv_ClosedFirst(t) ==
  /\ Enters(t, "recv")
  /\ \/ closed /\ Answer(t, NoItem)
     \/ buf # <<>> /\ ~closed /\ Take(t)
     \/ buf = <<>> /\ ~closed /\ BlockOnNotEmpty(t)

Recv(t) ==
  /\ Enters(t, "recv")
  /\ \/ buf # <<>> /\ Take(t)
     \/ buf = <<>> /\ closed /\ Answer(t, NoItem)
     \/ buf = <<>> /\ ~closed /\ BlockOnNotEmpty(t)

\* wait_for re-evaluates the predicate after the deadline: an item that is
\* there is taken even by a call that has timed out.
RecvFor(t) ==
  /\ Enters(t, "recvFor")
  /\ \/ buf # <<>> /\ Take(t)
     \/ buf = <<>> /\ (closed \/ t \in expired) /\ Answer(t, NoItem)
     \/ buf = <<>> /\ ~closed /\ t \notin expired /\ BlockOnNotEmpty(t)

TryRecv(t) ==
  /\ Enters(t, "tryRecv")
  /\ \/ buf # <<>> /\ Take(t)
     \/ buf = <<>> /\ Answer(t, NoItem)

\* Fault: close wakes the receivers only.
Close_ReceiversOnly(t) ==
  /\ Enters(t, "close")
  /\ closed' = TRUE
  /\ woken' = (woken \cup notEmpty) \ {t}
  /\ notEmpty' = {} /\ UNCHANGED notFull
  /\ Return(t, "ok")
  /\ UNCHANGED buf

\* Both notify_all calls.
Close(t) ==
  /\ Enters(t, "close")
  /\ closed' = TRUE
  /\ woken' = (woken \cup waiting) \ {t}
  /\ notEmpty' = {} /\ notFull' = {}
  /\ Return(t, "ok")
  /\ UNCHANGED buf

-----------------------------------------------------------------------------
\* The deadline of a recv_for passes; if it is blocked it wakes up.
Expire(t) ==
  /\ op[t] = "recvFor" /\ t \notin expired
  /\ expired' = expired \cup {t}
  /\ notEmpty' = notEmpty \ {t}
  /\ woken' = woken \cup (notEmpty \cap {t})
  /\ UNCHANGED <<buf, closed, op, item, ret, notFull>>

\* A condition variable may wake a thread that nobody notified.
SpuriousWakeup(t) ==
  /\ t \in waiting
  /\ notEmpty' = notEmpty \ {t}
  /\ notFull' = notFull \ {t}
  /\ woken' = woken \cup {t}
  /\ UNCHANGED <<buf, closed, op, item, ret, expired>>

\* One critical section of the operation t is in.
Step(t) ==
  \/ Send(t) \/ TrySend(t) \/ SendDropOldest(t)
  \/ Recv(t) \/ RecvFor(t) \/ TryRecv(t)
  \/ Close(t)

Next == \E t \in Threads : Call(t) \/ Step(t) \/ Expire(t) \/ SpuriousWakeup(t)

Spec == Init /\ [][Next]_vars

\* A thread that can run runs, and timers fire.  Nobody is obliged to call an
\* operation, notify_one may pick any waiter, and there are no spurious
\* wake-ups to rely on.
Fairness == \A t \in Threads : WF_vars(Step(t)) /\ WF_vars(Expire(t))

FairSpec == Spec /\ Fairness

-----------------------------------------------------------------------------
Receivers == {t \in Threads : op[t] \in {"recv", "recvFor"}}
Senders == {t \in Threads : op[t] = "send"}

\* The types, and who may be where: only a receiving call blocks on
\* cv_not_empty_, only a blocking send on cv_not_full_, and a thread is in one
\* place at a time.  This is about the members of Chan<T> (channel.hpp:128-133).
TypeOK ==
  /\ buf \in Seq(Items) /\ Len(buf) <= Capacity
  /\ closed \in BOOLEAN
  /\ op \in [Threads -> Ops]
  /\ item \in [Threads -> Items \cup {NoItem}]
  /\ ret \in [Threads -> Items \cup {NoItem, "ok", "full", "closed"}]
  /\ \A t \in Threads : op[t] \in SendOps => item[t] \in Items
  /\ notEmpty \subseteq Receivers
  /\ notFull \subseteq Senders
  /\ woken \subseteq (Receivers \cup Senders) \ waiting
  /\ expired \subseteq Threads

\* A wake-up is never lost, whatever the interleaving of notify_one, barging
\* threads, time-outs and spurious wake-ups: when a receiver is blocked there
\* are at least as many receivers already on their way to mu_ as there are
\* items to take; when a sender is blocked there are as many senders on their
\* way as there are free places; and nobody stays blocked on a closed channel.
\* This is the protocol of the notify_one / notify_all calls of
\* channel.hpp:42, 56, 67, 78, 93, 103, 111-112.
NoLostWakeup ==
  /\ notEmpty # {} => Len(buf) <= Cardinality(woken \cap Receivers)
  /\ notFull # {} => Capacity <= Len(buf) + Cardinality(woken \cap Senders)
  /\ closed => waiting = {}

-----------------------------------------------------------------------------
Atomic == INSTANCE BoundedChannel

\* The monitor implements the atomic bounded FIFO channel: hide the wait sets
\* and every critical section is one atomic effect or none.  This covers the
\* order of items, refusal after close, and the drain of what was queued.
ImplementsChannel == Atomic!Spec

\* ... and it is live: a call whose effect stays possible returns, although
\* notify_one chooses freely and other threads may barge in.  A receiver is
\* served, a sender gets its place, close releases everybody, recv_for returns.
ServesEveryCall == Atomic!Progress

=============================================================================
