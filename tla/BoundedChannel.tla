---------------------------- MODULE BoundedChannel ----------------------------
(***************************************************************************)
(* What Chan<T> promises: every operation of the channel takes effect once, *)
(* atomically, between its call and its return, on a bounded FIFO buffer    *)
(* and a closed flag.  A blocking operation is a call whose effect is not   *)
(* enabled yet.  There are no condition variables here: Chan.tla shows that *)
(* the monitor of include/can/channel.hpp implements this specification.    *)
(***************************************************************************)
EXTENDS Naturals, Sequences

CONSTANTS Producers,  \* threads that call the sending operations
          Consumers,  \* threads that call the receiving operations
          Items,      \* values that travel through the channel
          NoItem,     \* "no argument" / std::nullopt
          Capacity    \* capacity_

VARIABLES buf,        \* buf_
          closed,     \* closed_
          op,         \* op[t]: the operation thread t is calling, or "none"
          item,       \* item[t]: the argument of that operation
          ret         \* ret[t]: what the last operation of t returned

vars == <<buf, closed, op, item, ret>>

Threads == Producers \cup Consumers

SendOps == {"send", "trySend", "sendDropOldest"}
RecvOps == {"recv", "recvFor", "tryRecv"}

-----------------------------------------------------------------------------
Init ==
  /\ buf = <<>>
  /\ closed = FALSE
  /\ op = [t \in Threads |-> "none"]
  /\ item = [t \in Threads |-> NoItem]
  /\ ret = [t \in Threads |-> NoItem]

Invoke(t, o, i) ==
  /\ op[t] = "none"
  /\ op' = [op EXCEPT ![t] = o]
  /\ item' = [item EXCEPT ![t] = i]
  /\ ret' = [ret EXCEPT ![t] = NoItem]
  /\ UNCHANGED <<buf, closed>>

Call(t) ==
  \/ t \in Producers /\ \E o \in SendOps, i \in Items : Invoke(t, o, i)
  \/ t \in Consumers /\ \E o \in RecvOps : Invoke(t, o, NoItem)
  \/ Invoke(t, "close", NoItem)

Return(t, r) ==
  /\ op' = [op EXCEPT ![t] = "none"]
  /\ item' = [item EXCEPT ![t] = NoItem]
  /\ ret' = [ret EXCEPT ![t] = r]

-----------------------------------------------------------------------------
Put(t) == buf' = Append(buf, item[t]) /\ UNCHANGED closed /\ Return(t, "ok")

Take(t) == buf' = Tail(buf) /\ UNCHANGED closed /\ Return(t, Head(buf))

Answer(t, r) == Return(t, r) /\ UNCHANGED <<buf, closed>>

\* A send waits for room; a closed channel refuses.
Send(t) ==
  /\ op[t] = "send"
  /\ \/ closed /\ Answer(t, "closed")
     \/ ~closed /\ Len(buf) < Capacity /\ Put(t)

TrySend(t) ==
  /\ op[t] = "trySend"
  /\ \/ closed /\ Answer(t, "closed")
     \/ ~closed /\ Len(buf) >= Capacity /\ Answer(t, "full")
     \/ ~closed /\ Len(buf) < Capacity /\ Put(t)

\* The oldest item makes room for the new one.
SendDropOldest(t) ==
  /\ op[t] = "sendDropOldest"
  /\ \/ closed /\ Answer(t, "closed")
     \/ ~closed /\ Len(buf) < Capacity /\ Put(t)
     \/ /\ ~closed /\ Len(buf) >= Capacity
        /\ buf' = Append(Tail(buf), item[t])
        /\ UNCHANGED closed
        /\ Return(t, "ok")

\* A receive waits for an item; only closed and empty returns nullopt.
Recv(t) ==
  /\ op[t] = "recv"
  /\ \/ buf # <<>> /\ Take(t)
     \/ buf = <<>> /\ closed /\ Answer(t, NoItem)

\* A timed receive may also give up, but never while an item is there to take.
RecvFor(t) ==
  /\ op[t] = "recvFor"
  /\ \/ buf # <<>> /\ Take(t)
     \/ buf = <<>> /\ Answer(t, NoItem)

TryRecv(t) ==
  /\ op[t] = "tryRecv"
  /\ \/ buf # <<>> /\ Take(t)
     \/ buf = <<>> /\ Answer(t, NoItem)

Close(t) ==
  /\ op[t] = "close"
  /\ closed' = TRUE
  /\ Return(t, "ok")
  /\ UNCHANGED buf

Effect(t) ==
  \/ Send(t) \/ TrySend(t) \/ SendDropOldest(t)
  \/ Recv(t) \/ RecvFor(t) \/ TryRecv(t)
  \/ Close(t)

Next == \E t \in Threads : Call(t) \/ Effect(t)

Spec == Init /\ [][Next]_vars

\* An operation that stays possible takes effect.
Progress == \A t \in Threads : WF_vars(Effect(t))
=============================================================================
