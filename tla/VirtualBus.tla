------------------------------ MODULE VirtualBus ------------------------------
(***************************************************************************)
(* can::virt::Bus (src/virtual/bus.cpp): an in-process broadcast bus.       *)
(* Threads send under a shared lock of mu_, subscribe and close under an    *)
(* exclusive one.  A send walks the subscriptions one by one and releases   *)
(* the lock only at the end, so a blocking push to one subscriber keeps the *)
(* bus read-locked.  The operations of a channel are atomic (BoundedChannel,*)
(* which Chan implements).                                                  *)
(***************************************************************************)
EXTENDS Naturals, Sequences, FiniteSets, SequencesExt

CONSTANTS
  Senders,        \* threads that call send
  Closers,        \* threads that call close
  Drainers,       \* threads that call close_with_drain
  Subs,           \* one member per call of subscribe (and its consumer)
  SelfClosers,    \* the consumers that may close their own channel
  Filter,         \* Filter[s]: the frame ids the filters of s let through
  Policies,       \* Policies[s]: the BackPressurePolicy values it may be made with
  ChanDepth,      \* ChanDepth[s]: the requested chan_depth, 0 when not given
  DefaultDepth,   \* kDefaultChanDepth
  Ids, BadId,     \* frame ids; BadId stands for a frame validate_frame refuses
  MaxSends        \* bound: MaxSends[t], the calls of send of t

Threads == Senders \cup Closers \cup Drainers
None == "none"

ASSUME VirtualBusAssumption ==
  /\ MaxSends \in [Senders -> Nat] /\ DefaultDepth \in Nat \ {0}
  /\ Policies \in [Subs -> SUBSET {"DropNewest", "DropOldest", "Block"}]
  /\ ChanDepth \in [Subs -> Nat]
  /\ Filter \in [Subs -> SUBSET Ids]
  /\ SelfClosers \subseteq Subs
  /\ IsFiniteSet(Subs) /\ IsFiniteSet(Threads)
  /\ Senders \cap (Closers \cup Drainers) = {} /\ None \notin Threads

VARIABLES
  readers, writer,  \* mu_: threads holding it shared, the one holding it exclusively
  closed,           \* closed_
  subs,             \* subs_
  policy,           \* policy[s]: the back-pressure policy of subscription s
  ch,               \* ch[s]: the channel of subscription s
  metrics,          \* write_count_, deliver_count_, drop_count_, error_count_
  pc, frame, idx,   \* where thread t is, the frame it sends, its place in subs_
  late,             \* late[t]: the deadline of t's close_with_drain has passed
  res,              \* res[t]: what t's last call returns
  sends,            \* sends[t]: calls of send made by t
  accepted,         \* history: accepted[s], every frame the channel of s took, in order
  done,             \* history: done[t], the frames whose send returned no error
  base,             \* history: base[s][t], calls of send t had finished when s subscribed
  seen              \* history: seen[t], the frames sent before drainer t's last look, if
                    \* all channels were empty or it has not finished

lockVars == <<readers, writer>>
busVars == <<closed, subs, policy, ch, metrics>>
threadVars == <<pc, frame, idx, late, res, sends>>
history == <<accepted, done, base, seen>>
vars == <<lockVars, busVars, threadVars, history>>

Frames == UNION {[src : {t}, n : 0..MaxSends[t], id : Ids \cup {BadId}] : t \in Senders}

\* SubscriberConfig::effective_depth
EffectiveDepth(s) == IF ChanDepth[s] > 0 THEN ChanDepth[s] ELSE DefaultDepth

\* An empty filter list is Filter[s] = Ids.
MatchesAny(s, f) == f.id \in Filter[s]

Full(s) == Len(ch[s].buf) >= EffectiveDepth(s)

Init ==
  /\ readers = {} /\ writer = None
  /\ closed = FALSE /\ subs = <<>> /\ policy = [s \in Subs |-> None]
  /\ ch = [s \in Subs |-> [buf |-> <<>>, closed |-> FALSE]]
  /\ metrics = [write |-> 0, deliver |-> 0, drop |-> 0, error |-> 0]
  /\ pc = [t \in Threads |-> "idle"]
  /\ frame = [t \in Senders |-> [src |-> t, n |-> 0, id |-> BadId]]
  /\ idx = [t \in Threads |-> 1]
  /\ late = [t \in Drainers |-> FALSE]
  /\ res = [t \in Threads |-> None]
  /\ sends = [t \in Senders |-> 0]
  /\ accepted = [s \in Subs |-> <<>>]
  /\ done = [t \in Senders |-> {}]
  /\ base = [s \in Subs |-> [t \in Senders |-> 0]]
  /\ seen = [t \in Drainers |-> {}]

GoTo(t, label) == pc' = [pc EXCEPT ![t] = label]
Return(t, r) == GoTo(t, "idle") /\ res' = [res EXCEPT ![t] = r]
Count(field) == metrics' = [metrics EXCEPT ![field] = @ + 1]

-----------------------------------------------------------------------------
(* send *)

SendCall(t) ==
  /\ pc[t] = "idle" /\ sends[t] < MaxSends[t]
  /\ \E id \in Ids \cup {BadId} :
        frame' = [frame EXCEPT ![t] = [src |-> t, n |-> sends[t] + 1, id |-> id]]
  /\ sends' = [sends EXCEPT ![t] = @ + 1]
  /\ GoTo(t, "send")
  /\ UNCHANGED <<lockVars, busVars, idx, late, res, history>>

\* validate_frame throws before the lock is taken.
SendInvalid(t) ==
  /\ pc[t] = "send" /\ frame[t].id = BadId
  /\ Count("error")
  /\ Return(t, "payload_too_large")
  /\ UNCHANGED <<lockVars, closed, subs, policy, ch, frame, idx, late, sends, history>>

SendClosed(t) ==
  /\ pc[t] = "send" /\ frame[t].id # BadId
  /\ writer = None /\ closed
  /\ Count("error")
  /\ Return(t, "closed")
  /\ UNCHANGED <<lockVars, closed, subs, policy, ch, frame, idx, late, sends, history>>

SendEnter(t) ==
  /\ pc[t] = "send" /\ frame[t].id # BadId
  /\ writer = None /\ ~closed
  /\ readers' = readers \cup {t}
  /\ Count("write")
  /\ idx' = [idx EXCEPT ![t] = 1]
  /\ GoTo(t, "loop")
  /\ UNCHANGED <<writer, closed, subs, policy, ch, frame, late, res, sends, history>>

InLoop(t, s) ==
  /\ pc[t] = "loop" /\ idx[t] <= Len(subs)
  /\ s = subs[idx[t]]

Advance(t) == idx' = [idx EXCEPT ![t] = @ + 1]

Skip(t) ==
  /\ \E s \in Subs : InLoop(t, s) /\ ~MatchesAny(s, frame[t])
  /\ Advance(t)
  /\ UNCHANGED <<lockVars, busVars, pc, frame, late, res, sends, history>>

Push(s, f) ==
  /\ ch' = [ch EXCEPT ![s].buf = Append(@, f)]
  /\ accepted' = [accepted EXCEPT ![s] = Append(@, f)]

\* Fault: the head stays.
Evict_KeepsHead(s, f) ==
  /\ ch' = [ch EXCEPT ![s].buf = Append(@, f)]
  /\ accepted' = [accepted EXCEPT ![s] = Append(@, f)]

Evict(s, f) ==
  /\ ch' = [ch EXCEPT ![s].buf = Append(Tail(@), f)]
  /\ accepted' = [accepted EXCEPT ![s] = Append(@, f)]

\* try_send: a closed channel is passed over, a full one costs a drop.
DropNewest(t) ==
  /\ \E s \in Subs :
       /\ InLoop(t, s) /\ MatchesAny(s, frame[t]) /\ policy[s] = "DropNewest"
       /\ \/ /\ ch[s].closed
             /\ Advance(t)
             /\ UNCHANGED <<ch, accepted, pc>>
          \/ /\ ~ch[s].closed /\ Full(s)
             /\ GoTo(t, "drop")
             /\ UNCHANGED <<ch, accepted, idx>>
          \/ /\ ~ch[s].closed /\ ~Full(s)
             /\ Push(s, frame[t])
             /\ GoTo(t, "deliver")
             /\ UNCHANGED idx
  /\ UNCHANGED <<lockVars, closed, subs, policy, metrics, frame, late, res, sends, done, base, seen>>

\* send_drop_oldest: its result is ignored, the frame counts as delivered.
DropOldest(t) ==
  /\ \E s \in Subs :
       /\ InLoop(t, s) /\ MatchesAny(s, frame[t]) /\ policy[s] = "DropOldest"
       /\ \/ ch[s].closed /\ UNCHANGED <<ch, accepted>>
          \/ ~ch[s].closed /\ Full(s) /\ Evict(s, frame[t])
          \/ ~ch[s].closed /\ ~Full(s) /\ Push(s, frame[t])
  /\ GoTo(t, "deliver")
  /\ UNCHANGED <<lockVars, closed, subs, policy, metrics, frame, idx, late, res, sends, done, base, seen>>

\* Fault: the push does not wait for room.
Block_GivesUp(t) ==
  /\ \E s \in Subs :
       /\ InLoop(t, s) /\ MatchesAny(s, frame[t]) /\ policy[s] = "Block"
       /\ \/ (ch[s].closed \/ Full(s)) /\ UNCHANGED <<ch, accepted>>
          \/ ~ch[s].closed /\ ~Full(s) /\ Push(s, frame[t])
  /\ GoTo(t, "deliver")
  /\ UNCHANGED <<lockVars, closed, subs, policy, metrics, frame, idx, late, res, sends, done, base, seen>>

\* The blocking send, with mu_ held shared: it waits while the channel is full
\* and open.  Its result is ignored.
Block(t) ==
  /\ \E s \in Subs :
       /\ InLoop(t, s) /\ MatchesAny(s, frame[t]) /\ policy[s] = "Block"
       /\ \/ ch[s].closed /\ UNCHANGED <<ch, accepted>>
          \/ ~ch[s].closed /\ ~Full(s) /\ Push(s, frame[t])
  /\ GoTo(t, "deliver")
  /\ UNCHANGED <<lockVars, closed, subs, policy, metrics, frame, idx, late, res, sends, done, base, seen>>

\* Fault: the loop does not move on to the next subscription.
Tally_NoAdvance(t) ==
  /\ pc[t] \in {"deliver", "drop"}
  /\ Count(pc[t])
  /\ GoTo(t, "loop")
  /\ UNCHANGED <<lockVars, closed, subs, policy, ch, frame, idx, late, res, sends, history>>

\* Fault: a load and a store instead of fetch_add; the delivery is not counted.
Tally_Lost(t) ==
  /\ pc[t] \in {"deliver", "drop"}
  /\ \/ Count(pc[t])
     \/ UNCHANGED metrics
  /\ Advance(t)
  /\ GoTo(t, "loop")
  /\ UNCHANGED <<lockVars, closed, subs, policy, ch, frame, late, res, sends, history>>

\* The counters are updated after the channel operation.
Tally(t) ==
  /\ pc[t] \in {"deliver", "drop"}
  /\ Count(pc[t])
  /\ Advance(t)
  /\ GoTo(t, "loop")
  /\ UNCHANGED <<lockVars, closed, subs, policy, ch, frame, late, res, sends, history>>

SendReturn(t) ==
  /\ pc[t] = "loop" /\ idx[t] > Len(subs)
  /\ readers' = readers \ {t}
  /\ done' = [done EXCEPT ![t] = @ \cup {frame[t]}]
  /\ Return(t, "ok")
  /\ UNCHANGED <<writer, busVars, frame, idx, late, sends, accepted, base, seen>>

-----------------------------------------------------------------------------
(* subscribe *)

\* mu_ can be taken exclusively.
Free == readers = {} /\ writer = None

Subscribed(s) == s \in ToSet(subs)

\* One critical section; on a closed bus no channel is made.
Subscribe(s) ==
  /\ Free /\ ~closed
  /\ ~Subscribed(s)
  /\ subs' = Append(subs, s)
  /\ \E p \in Policies[s] : policy' = [policy EXCEPT ![s] = p]
  /\ base' = [base EXCEPT ![s] =
                [t \in Senders |-> IF pc[t] = "idle" THEN sends[t] ELSE sends[t] - 1]]
  /\ UNCHANGED <<lockVars, closed, ch, metrics, threadVars, accepted, done, seen>>

-----------------------------------------------------------------------------
(* close *)

CloseCall(t) ==
  /\ pc[t] = "idle" /\ t \in Closers
  /\ GoTo(t, "close")
  /\ res' = [res EXCEPT ![t] = "ok"]
  /\ UNCHANGED <<lockVars, busVars, frame, idx, late, sends, history>>

CloseAgain(t) ==
  /\ pc[t] = "close" /\ Free /\ closed
  /\ GoTo(t, "idle")
  /\ UNCHANGED <<lockVars, busVars, frame, idx, late, res, sends, history>>

\* Fault: close takes the lock shared.
CloseEnter_Shared(t) ==
  /\ pc[t] = "close" /\ writer = None /\ ~closed
  /\ writer' = t
  /\ closed' = TRUE
  /\ idx' = [idx EXCEPT ![t] = 1]
  /\ GoTo(t, "closing")
  /\ UNCHANGED <<readers, subs, policy, ch, metrics, frame, late, res, sends, history>>

CloseEnter(t) ==
  /\ pc[t] = "close" /\ Free /\ ~closed
  /\ writer' = t
  /\ closed' = TRUE
  /\ idx' = [idx EXCEPT ![t] = 1]
  /\ GoTo(t, "closing")
  /\ UNCHANGED <<readers, subs, policy, ch, metrics, frame, late, res, sends, history>>

\* Consumers see their channels closed one after the other.
CloseChannel(t) ==
  /\ pc[t] = "closing" /\ idx[t] <= Len(subs)
  /\ ch' = [ch EXCEPT ![subs[idx[t]]].closed = TRUE]
  /\ Advance(t)
  /\ UNCHANGED <<lockVars, closed, subs, policy, metrics, pc, frame, late, res, sends, history>>

\* Fault: the last channel is not closed.
CloseReturn_OneShort(t) ==
  /\ pc[t] = "closing" /\ idx[t] >= Len(subs)
  /\ subs' = <<>>
  /\ writer' = None
  /\ GoTo(t, "idle")
  /\ UNCHANGED <<readers, closed, policy, ch, metrics, frame, idx, late, res, sends, history>>

CloseReturn(t) ==
  /\ pc[t] = "closing" /\ idx[t] > Len(subs)
  /\ subs' = <<>>
  /\ writer' = None
  /\ GoTo(t, "idle")
  /\ UNCHANGED <<readers, closed, policy, ch, metrics, frame, idx, late, res, sends, history>>

-----------------------------------------------------------------------------
(* close_with_drain *)

\* Bound: one call per drainer.
DrainCall(t) ==
  /\ pc[t] = "idle" /\ t \in Drainers /\ res[t] = None
  /\ late' = [late EXCEPT ![t] = FALSE]
  /\ GoTo(t, "drain")
  /\ UNCHANGED <<lockVars, busVars, frame, idx, res, sends, history>>

\* Time passes.
Deadline(t) ==
  /\ pc[t] \in {"drain", "scan"} /\ ~late[t]
  /\ late' = [late EXCEPT ![t] = TRUE]
  /\ UNCHANGED <<lockVars, busVars, pc, frame, idx, res, sends, history>>

\* The head of the loop: out of time, or all_drained, which locks mu_ shared.
DrainTimeout(t) ==
  /\ pc[t] = "drain" /\ late[t]
  /\ GoTo(t, "close")
  /\ res' = [res EXCEPT ![t] = "timeout"]
  /\ UNCHANGED <<lockVars, busVars, frame, idx, late, sends, history>>

DrainScan(t) ==
  /\ pc[t] = "drain" /\ ~late[t]
  /\ writer = None
  /\ readers' = readers \cup {t}
  /\ idx' = [idx EXCEPT ![t] = 1]
  /\ seen' = [seen EXCEPT ![t] = IF closed THEN {} ELSE UNION {done[u] : u \in Senders}]
  /\ GoTo(t, "scan")
  /\ UNCHANGED <<writer, busVars, frame, late, res, sends, accepted, done, base>>

\* Fault: the next channel is looked at whatever is in this one.
ScanEmpty_Any(t) ==
  /\ pc[t] = "scan" /\ idx[t] <= Len(subs)
  /\ Advance(t)
  /\ UNCHANGED <<lockVars, busVars, pc, frame, late, res, sends, history>>

ScanEmpty(t) ==
  /\ pc[t] = "scan" /\ idx[t] <= Len(subs)
  /\ ch[subs[idx[t]]].buf = <<>>
  /\ Advance(t)
  /\ UNCHANGED <<lockVars, busVars, pc, frame, late, res, sends, history>>

\* An item is left: unlock, sleep, look again.
ScanNotEmpty(t) ==
  /\ pc[t] = "scan" /\ idx[t] <= Len(subs)
  /\ ch[subs[idx[t]]].buf # <<>>
  /\ readers' = readers \ {t}
  /\ seen' = [seen EXCEPT ![t] = {}]
  /\ GoTo(t, "drain")
  /\ UNCHANGED <<writer, busVars, frame, idx, late, res, sends, accepted, done, base>>

\* Fault: close is called with the shared lock in hand.
ScanDone_KeepsLock(t) ==
  /\ pc[t] = "scan" /\ idx[t] > Len(subs)
  /\ GoTo(t, "close")
  /\ res' = [res EXCEPT ![t] = "ok"]
  /\ UNCHANGED <<lockVars, busVars, frame, idx, late, sends, history>>

\* Everything looked empty: unlock, then close, which locks again.
ScanDone(t) ==
  /\ pc[t] = "scan" /\ idx[t] > Len(subs)
  /\ readers' = readers \ {t}
  /\ GoTo(t, "close")
  /\ res' = [res EXCEPT ![t] = "ok"]
  /\ UNCHANGED <<writer, busVars, frame, idx, late, sends, history>>

-----------------------------------------------------------------------------
(* The consumers. *)

Recv(s) ==
  /\ ch[s].buf # <<>>
  /\ ch' = [ch EXCEPT ![s].buf = Tail(@)]
  /\ UNCHANGED <<lockVars, closed, subs, policy, metrics, threadVars, history>>

SelfClose(s) ==
  /\ s \in SelfClosers /\ Subscribed(s) /\ ~ch[s].closed
  /\ ch' = [ch EXCEPT ![s].closed = TRUE]
  /\ UNCHANGED <<lockVars, closed, subs, policy, metrics, threadVars, history>>

-----------------------------------------------------------------------------
SendStep(t) ==
  \/ SendInvalid(t) \/ SendClosed(t) \/ SendEnter(t)
  \/ Skip(t) \/ DropNewest(t) \/ DropOldest(t) \/ Block(t) \/ Tally(t)
  \/ SendReturn(t)

CloseStep(t) == CloseAgain(t) \/ CloseEnter(t) \/ CloseChannel(t) \/ CloseReturn(t)

DrainStep(t) ==
  \/ DrainTimeout(t) \/ DrainScan(t) \/ ScanEmpty(t) \/ ScanNotEmpty(t) \/ ScanDone(t)

Step(t) ==
  \/ t \in Senders /\ SendStep(t)
  \/ t \in Closers \cup Drainers /\ CloseStep(t)
  \/ t \in Drainers /\ DrainStep(t)

Next ==
  \/ \E t \in Senders : SendCall(t)
  \/ \E t \in Closers : CloseCall(t)
  \/ \E t \in Drainers : DrainCall(t) \/ Deadline(t)
  \/ \E t \in Threads : Step(t)
  \/ \E s \in Subs : Subscribe(s) \/ Recv(s) \/ SelfClose(s)

Spec == Init /\ [][Next]_vars

\* A thread inside a call runs when it can and clocks advance.  A writer can be
\* kept out by a stream of readers (std::shared_mutex prefers nobody), so weak
\* fairness is all a waiting thread gets.
Fairness ==
  /\ \A t \in Threads : WF_vars(Step(t))
  /\ \A t \in Drainers : WF_vars(Deadline(t))

\* The consumers of Block subscriptions keep receiving; the others may stop.
ConsumerFairness == \A s \in Subs : WF_vars(policy[s] = "Block" /\ Recv(s))

FairSpec == Spec /\ Fairness
DrainedSpec == FairSpec /\ ConsumerFairness

-----------------------------------------------------------------------------
\* Types, and the discipline of mu_: a writer is alone, the readers are the
\* threads inside a send loop or a scan, subs_ only changes under a writer.
TypeOK ==
  /\ readers = {t \in Threads : pc[t] \in {"loop", "deliver", "drop", "scan"}}
  /\ writer \in {None} \cup {t \in Threads : pc[t] = "closing"}
  /\ writer # None => readers = {} /\ closed
  /\ closed \in BOOLEAN
  /\ subs \in Seq(Subs) /\ IsInjective(subs)
  /\ \A s \in Subs : /\ ch[s].buf \in Seq(Frames) /\ Len(ch[s].buf) <= EffectiveDepth(s)
                      /\ IsSuffix(ch[s].buf, accepted[s])
  /\ \A s \in ToSet(subs) : policy[s] \in Policies[s]
  /\ metrics \in [{"write", "deliver", "drop", "error"} -> Nat]
  /\ frame \in [Senders -> Frames]
  /\ \A t \in Threads : idx[t] \in 1..(Cardinality(Subs) + 1)
  /\ \A t \in Senders : sends[t] \in 0..MaxSends[t]

\* A subscriber gets only frames its filters let through, and the frames of one
\* sender in the order they were sent and at most once, although senders
\* interleave inside the loop (bus.cpp:46-73).
OrderedAndFiltered ==
  \A s \in Subs :
    /\ \A i \in DOMAIN accepted[s] : MatchesAny(s, accepted[s][i]) /\ accepted[s][i].id # BadId
    /\ \A i, j \in DOMAIN accepted[s] :
          i < j /\ accepted[s][i].src = accepted[s][j].src => accepted[s][i].n < accepted[s][j].n

\* A frame whose send returned no error reached the channel of every matching
\* subscription that was there when the send began and is still open, unless
\* its policy is DropNewest (bus.cpp:61-71, 79-92).
NothingSkipped ==
  \A s \in ToSet(subs) : ~ch[s].closed /\ policy[s] # "DropNewest" =>
    \A t \in Senders : \A f \in done[t] :
      f.n > base[s][t] /\ MatchesAny(s, f) => f \in ToSet(accepted[s])

Missed(s) == {f \in UNION {done[t] : t \in Senders} :
                f.n > base[s][f.src] /\ MatchesAny(s, f) /\ f \notin ToSet(accepted[s])}
Dropped == UNION {{s} \X Missed(s) : s \in {s \in ToSet(subs) : policy[s] = "DropNewest"}}
Entered == UNION {{s} \X DOMAIN accepted[s] : s \in Subs}
Uncounted == Cardinality({t \in Senders : pc[t] = "deliver"})

\* The counters lag behind the channels but lose nothing: with no send in flight
\* drop_count is exactly the number of frames that open DropNewest subscriptions
\* missed, and deliver_count, once every send in flight has updated it, is not less
\* than the number of frames that entered a channel (bus.cpp:51-71).
CountersAgree ==
  /\ readers = {} /\ ~closed /\ (\A s \in Subs : ~ch[s].closed) =>
       metrics.drop = Cardinality(Dropped)
  /\ Cardinality(Entered) <= metrics.deliver + Uncounted

\* Once a close has released the lock no subscription is left and every channel that
\* subscribe ever handed out is closed, also one that never took a frame: its
\* consumer may be blocked in recv ("unblocking any blocked recv() callers",
\* REQ-VIRT-007; bus.cpp:94-101).
CloseIsComplete ==
  closed /\ writer = None =>
    subs = <<>> /\ \A s \in Subs : policy[s] # None => ch[s].closed

\* From then on no frame enters any channel: a send that was under way when
\* close was called has finished first, a later one is refused (bus.cpp:37-41).
NothingAfterClose == [][closed => accepted' = accepted]_vars

\* "waits until all subscriber channels are empty or timeout elapses" (bus.hpp:56):
\* when close_with_drain goes on to close for the reason that everything looked
\* empty, no frame whose send had returned before that look is left in a channel,
\* although the look is not one step and the lock is given back after it.  A frame
\* sent since may be left (bus.cpp:138-153).
DrainedBeforeClose ==
  \A t \in Drainers : pc[t] \in {"close", "closing"} /\ res[t] = "ok" =>
    \A s \in Subs : ToSet(ch[s].buf) \cap seen[t] = {}

\* Every call of send, close and close_with_drain returns.  Without Block
\* subscriptions this needs nothing from the consumers, a slow or dead one never
\* delays the bus; with them it needs that their consumers keep receiving.
EveryCallReturns == \A t \in Threads : pc[t] # "idle" ~> pc[t] = "idle"

\* Every call of close and close_with_drain returns.  With Block subscriptions
\* it depends on their consumers: the sender waits for them with mu_ in hand.
EveryCloseReturns == \A t \in Closers \cup Drainers : pc[t] # "idle" ~> pc[t] = "idle"

===============================================================================
