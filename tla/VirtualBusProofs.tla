------------------------------ MODULE VirtualBusProofs ------------------------------
(***************************************************************************)
(* Proofs about VirtualBus, for any number of senders, closers, drainers and *)
(* subscribers, any filters, policies and depths: what close leaves behind,  *)
(* nothing is delivered after it, the order of the frames of a sender,       *)
(* nothing is skipped, what close_with_drain leaves, the types, the counters. *)
(***************************************************************************)
EXTENDS VirtualBus, SequenceLemmas, FiniteSetTheorems, TLAPS

-----------------------------------------------------------------------------
(* The discipline of mu_, and what it gives close *)

Inside == {"loop", "deliver", "drop", "scan"}

Shapes ==
  /\ DOMAIN pc = Threads /\ idx \in [Threads -> Nat \ {0}]
  /\ closed \in BOOLEAN /\ subs \in Seq(Subs)
  /\ DOMAIN accepted = Subs /\ DOMAIN policy = Subs
  /\ DOMAIN ch = Subs /\ \A s \in Subs : DOMAIN ch[s] = {"buf", "closed"}

\* The readers are the threads inside a loop over subs_, a writer is alone, and a
\* send that is under way keeps the bus open.
Lock ==
  /\ \A t \in readers : t \in Threads
  /\ \A t \in Threads : t \in readers <=> pc[t] \in Inside
  /\ writer \in Threads \cup {None}
  /\ \A t \in Threads : writer = t <=> pc[t] = "closing"
  /\ writer # None => readers = {} /\ closed
  /\ closed => \A t \in Senders : pc[t] \notin Inside

\* A channel that subscribe has handed out is in subs_ until it is closed; close has
\* closed the channels before its place in subs_.
Handed ==
  /\ \A s \in Subs : policy[s] # None => Subscribed(s) \/ ch[s].closed
  /\ writer # None => /\ idx[writer] \in Nat
                      /\ \A i \in DOMAIN subs : i < idx[writer] => ch[subs[i]].closed
  /\ closed /\ writer = None => subs = << >>

LockInv == Shapes /\ Lock /\ Handed

LEMMA InSequence ==
  ASSUME NEW S, NEW q \in Seq(S), NEW e
  PROVE  /\ e \in ToSet(q) <=> \E i \in DOMAIN q : q[i] = e
         /\ \A i \in DOMAIN q : q[i] \in S
  BY DEF ToSet

LEMMA LockInit == Init => LockInv
<1> SUFFICES ASSUME Init PROVE LockInv
  OBVIOUS
<1>1. Shapes
  <2>1. \A S : << >> \in Seq(S)
    OBVIOUS
  <2>2. /\ idx \in [Threads -> Nat \ {0}] /\ DOMAIN pc = Threads
        /\ DOMAIN accepted = Subs /\ DOMAIN policy = Subs
    BY DEF Init
  <2>3. DOMAIN ch = Subs /\ \A s \in Subs : DOMAIN ch[s] = {"buf", "closed"}
    BY DEF Init
  <2> QED
    BY <2>1, <2>2, <2>3 DEF Init, Shapes
<1>2. Lock
  BY VirtualBusAssumption DEF VirtualBusAssumption, Init, Lock, Inside
<1>3. Handed
  BY DEF Init, Handed
<1> QED
  BY <1>1, <1>2, <1>3 DEF LockInv

\* Steps that take or give back no lock, hand out no channel and open none again.
LEMMA LockKept ==
  ASSUME LockInv, UNCHANGED <<readers, writer, closed, subs, policy>>,
         DOMAIN pc' = Threads, idx' \in [Threads -> Nat \ {0}], DOMAIN accepted' = Subs,
         DOMAIN ch' = Subs, \A s \in Subs : DOMAIN ch'[s] = {"buf", "closed"},
         \A t \in Threads : (pc'[t] \in Inside <=> pc[t] \in Inside) /\ (pc'[t] = "closing" <=> pc[t] = "closing"),
         \A t \in Threads : pc[t] = "closing" => idx'[t] = idx[t],
         \A s \in Subs : ch[s].closed => ch'[s].closed
  PROVE  LockInv'
<1>1. Shapes'
  BY DEF LockInv, Shapes
<1>2. Lock'
  BY VirtualBusAssumption DEF VirtualBusAssumption, LockInv, Lock, Threads
<1>3. Handed'
  <2>1. \A s \in Subs : policy'[s] # None => Subscribed(s)' \/ ch'[s].closed
    BY DEF LockInv, Handed, Subscribed
  <2>2. ASSUME writer # None
        PROVE  /\ idx'[writer] \in Nat
               /\ \A i \in DOMAIN subs : i < idx'[writer] => ch'[subs[i]].closed
    <3>1. writer \in Threads /\ idx'[writer] = idx[writer]
      BY <2>2 DEF LockInv, Lock
    <3> QED
      BY <2>2, <3>1, InSequence DEF LockInv, Shapes, Handed
  <2> QED
    BY <2>1, <2>2 DEF LockInv, Handed
<1> QED
  BY <1>1, <1>2, <1>3 DEF LockInv

LEMMA SendsKeepLock ==
  ASSUME LockInv, NEW t \in Senders,
         SendCall(t) \/ SendInvalid(t) \/ SendClosed(t) \/ Skip(t) \/ DropNewest(t) \/ DropOldest(t)
           \/ Block(t) \/ Tally(t)
  PROVE  LockInv'
<1>1. UNCHANGED <<readers, writer, closed, subs, policy>>
  BY DEF SendCall, SendInvalid, SendClosed, Skip, DropNewest, DropOldest, Block, Tally, lockVars, busVars
<1>2. t \in Threads
  BY DEF Threads
<1>3. /\ DOMAIN pc' = Threads /\ idx' \in [Threads -> Nat \ {0}]
      /\ \A u \in Threads : u # t => pc'[u] = pc[u] /\ idx'[u] = idx[u]
      /\ pc'[t] \in Inside <=> pc[t] \in Inside
      /\ pc[t] # "closing" /\ pc'[t] # "closing"
  BY <1>2 DEF SendCall, SendInvalid, SendClosed, Skip, DropNewest, DropOldest, Block, Tally, GoTo, Return,
     Advance, InLoop, Inside, LockInv, Shapes
<1>4. CASE UNCHANGED <<ch, accepted>>
  BY <1>1, <1>3, <1>4, LockKept DEF LockInv, Shapes
<1>5. CASE DropNewest(t) \/ DropOldest(t) \/ Block(t)
  <2>1. PICK s \in Subs : /\ InLoop(t, s)
                          /\ \/ UNCHANGED <<ch, accepted>>
                             \/ Push(s, frame[t]) \/ Evict(s, frame[t])
    BY <1>5 DEF DropNewest, DropOldest, Block
  <2>2. DOMAIN accepted = Subs /\ DOMAIN ch = Subs /\ \A u \in Subs : DOMAIN ch[u] = {"buf", "closed"}
    BY DEF LockInv, Shapes
  <2>3. /\ DOMAIN ch' = Subs /\ DOMAIN accepted' = Subs
        /\ \A u \in Subs : DOMAIN ch'[u] = {"buf", "closed"} /\ ch'[u].closed = ch[u].closed
    BY <2>1, <2>2 DEF Push, Evict
  <2> QED
    BY <1>1, <1>3, <2>3, LockKept
<1> QED
  BY <1>4, <1>5 DEF SendCall, SendInvalid, SendClosed, Skip, Tally, busVars, history

LEMMA CallsKeepLock ==
  ASSUME LockInv, NEW t \in Closers \cup Drainers,
         CloseCall(t) \/ CloseAgain(t) \/ (t \in Drainers /\ (DrainCall(t) \/ Deadline(t)))
           \/ DrainTimeout(t) \/ ScanEmpty(t)
  PROVE  LockInv'
<1>1. UNCHANGED <<readers, writer, closed, subs, policy, ch, accepted>>
  BY DEF CloseCall, CloseAgain, DrainCall, Deadline, DrainTimeout, ScanEmpty, lockVars, busVars, history
<1>2. /\ t \in Threads /\ DOMAIN pc' = Threads /\ idx' \in [Threads -> Nat \ {0}]
      /\ \A u \in Threads : u # t => pc'[u] = pc[u] /\ idx'[u] = idx[u]
      /\ pc'[t] \in Inside <=> pc[t] \in Inside
      /\ pc[t] # "closing" /\ pc'[t] # "closing"
  BY DEF CloseCall, CloseAgain, DrainCall, Deadline, DrainTimeout, ScanEmpty, GoTo, Advance, Threads, LockInv,
     Shapes, Inside
<1> QED
  BY <1>1, <1>2, LockKept DEF LockInv, Shapes

LEMMA ConsumersKeepLock ==
  ASSUME LockInv, NEW s \in Subs, Recv(s) \/ SelfClose(s)
  PROVE  LockInv'
<1>1. UNCHANGED <<readers, writer, closed, subs, policy, pc, idx, accepted>>
  BY DEF Recv, SelfClose, lockVars, threadVars, history
<1>2. DOMAIN ch = Subs /\ \A u \in Subs : DOMAIN ch[u] = {"buf", "closed"}
  BY DEF LockInv, Shapes
<1>3. /\ DOMAIN ch' = Subs
      /\ \A u \in Subs : DOMAIN ch'[u] = {"buf", "closed"} /\ (ch[u].closed => ch'[u].closed)
  BY <1>2 DEF Recv, SelfClose
<1> QED
  BY <1>1, <1>3, LockKept DEF LockInv, Shapes

\* Taking mu_ shared, and giving it back.
LEMMA ReadersKeepLock ==
  ASSUME LockInv, NEW t \in Threads,
         \/ t \in Senders /\ (SendEnter(t) \/ SendReturn(t))
         \/ t \in Drainers /\ (DrainScan(t) \/ ScanNotEmpty(t) \/ ScanDone(t))
  PROVE  LockInv'
<1>1. DOMAIN pc = Threads /\ idx \in [Threads -> Nat \ {0}]
  BY DEF LockInv, Shapes
<1>2. /\ UNCHANGED <<writer, closed, subs, policy, ch, accepted>>
      /\ DOMAIN pc' = Threads /\ idx' \in [Threads -> Nat \ {0}]
      /\ \A u \in Threads : u # t => pc'[u] = pc[u] /\ idx'[u] = idx[u]
      /\ pc[t] # "closing" /\ pc'[t] # "closing"
      /\ \/ readers' = readers \cup {t} /\ pc'[t] \in Inside /\ writer = None /\ (closed => t \notin Senders)
         \/ readers' = readers \ {t} /\ pc[t] \in Inside /\ pc'[t] \notin Inside
  BY <1>1, VirtualBusAssumption
  DEF VirtualBusAssumption, SendEnter, SendReturn, DrainScan, ScanNotEmpty, ScanDone, GoTo, Return, busVars,
      history, Inside
<1>3. Shapes'
  BY <1>2 DEF LockInv, Shapes
<1>4. writer # t /\ (writer # None => t \notin readers)
  BY <1>2 DEF LockInv, Lock
<1>5. Lock'
  BY <1>2, <1>4, VirtualBusAssumption DEF VirtualBusAssumption, LockInv, Lock, Threads
<1>6. Handed'
  BY <1>2, <1>4 DEF LockInv, Lock, Handed, Subscribed
<1> QED
  BY <1>3, <1>5, <1>6 DEF LockInv

\* Taking mu_ exclusively.
LEMMA WriterKeepsLock ==
  ASSUME LockInv, NEW t \in Closers \cup Drainers, CloseEnter(t) \/ CloseChannel(t) \/ CloseReturn(t)
  PROVE  LockInv'
<1> USE VirtualBusAssumption DEF VirtualBusAssumption
<1>1. t \in Threads /\ t # None /\ DOMAIN pc = Threads /\ idx \in [Threads -> Nat \ {0}]
  BY DEF LockInv, Shapes, Threads
<1>2. CASE CloseEnter(t)
  <2>1. /\ readers = {} /\ writer = None /\ ~closed /\ writer' = t /\ closed'
        /\ pc' = [pc EXCEPT ![t] = "closing"] /\ idx' = [idx EXCEPT ![t] = 1]
        /\ UNCHANGED <<readers, subs, policy, ch, accepted>> /\ closed' \in BOOLEAN
    BY <1>2 DEF CloseEnter, Free, GoTo, history
  <2>2. Shapes'
    BY <1>1, <2>1 DEF LockInv, Shapes
  <2>3. Lock'
    BY <1>1, <2>1 DEF LockInv, Lock, Inside, Threads
  <2>4. Handed'
    <3>1. idx'[writer'] = 1 /\ writer' # None /\ \A i \in DOMAIN subs : ~(i < 1)
      BY <1>1, <2>1 DEF LockInv, Shapes
    <3> QED
      BY <2>1, <3>1 DEF LockInv, Handed, Subscribed
  <2> QED
    BY <2>2, <2>3, <2>4 DEF LockInv
<1>3. CASE CloseChannel(t)
  <2>1. writer = t /\ closed /\ readers = {}
    BY <1>1, <1>3 DEF CloseChannel, LockInv, Lock
  <2>2. /\ idx[t] \in Nat /\ idx' = [idx EXCEPT ![t] = idx[t] + 1]
        /\ \A i \in DOMAIN subs : i < idx[t] => ch[subs[i]].closed
        /\ UNCHANGED <<readers, writer, closed, subs, policy, pc, accepted>>
    BY <1>1, <1>3, <2>1 DEF CloseChannel, Advance, LockInv, Handed, lockVars, history
  <2>3. /\ DOMAIN ch' = Subs /\ \A s \in Subs : DOMAIN ch'[s] = {"buf", "closed"}
        /\ \A s \in Subs : ch[s].closed => ch'[s].closed
        /\ idx[t] \in DOMAIN subs => ch'[subs[idx[t]]].closed
    <3>1. idx[t] \in DOMAIN subs => subs[idx[t]] \in Subs
      BY InSequence DEF LockInv, Shapes
    <3> QED
      BY <1>3, <3>1 DEF CloseChannel, LockInv, Shapes
  <2>4. Shapes'
    BY <1>1, <2>2, <2>3 DEF LockInv, Shapes
  <2>5. Lock'
    BY <2>2 DEF LockInv, Lock
  <2>6. \A i \in DOMAIN subs : i < idx'[t] => ch'[subs[i]].closed
    <3>1. \A i \in DOMAIN subs : i \in Nat /\ subs[i] \in Subs
      BY InSequence DEF LockInv, Shapes
    <3>2. \A i \in DOMAIN subs : i < idx'[t] => i < idx[t] \/ i = idx[t]
      BY <1>1, <2>2, <3>1
    <3> QED
      BY <2>2, <2>3, <3>1, <3>2
  <2>7. Handed'
    <3>1. idx'[t] \in Nat
      BY <1>1, <2>2
    <3> QED
      BY <2>1, <2>2, <2>3, <2>6, <3>1, <1>1 DEF LockInv, Handed, Subscribed
  <2> QED
    BY <2>4, <2>5, <2>7 DEF LockInv
<1>4. CASE CloseReturn(t)
  <2>1. writer = t /\ closed /\ readers = {} /\ idx[t] \in Nat
    BY <1>1, <1>4 DEF CloseReturn, LockInv, Lock, Handed
  <2>2. /\ writer' = None /\ pc' = [pc EXCEPT ![t] = "idle"] /\ subs' = << >>
        /\ UNCHANGED <<readers, closed, policy, idx, ch, accepted>>
    BY <1>4 DEF CloseReturn, GoTo, history
  <2>3. \A S : << >> \in Seq(S)
    OBVIOUS
  <2>4. Shapes'
    BY <1>1, <2>2, <2>3 DEF LockInv, Shapes
  <2>5. Lock'
    BY <1>1, <2>1, <2>2 DEF LockInv, Lock, Inside
  <2>6. ASSUME NEW s \in Subs, Subscribed(s) PROVE ch[s].closed
    <3>1. PICK i \in DOMAIN subs : subs[i] = s
      BY <2>6, InSequence DEF Subscribed, LockInv, Shapes
    <3>2. i < idx[t]
      BY <1>4, <2>1, <3>1 DEF CloseReturn, LockInv, Shapes
    <3> QED
      BY <1>1, <2>1, <3>1, <3>2 DEF LockInv, Handed
  <2>7. Handed'
    BY <2>2, <2>6 DEF LockInv, Handed
  <2> QED
    BY <2>4, <2>5, <2>7 DEF LockInv
<1> QED
  BY <1>2, <1>3, <1>4

LEMMA SubscribeKeepsLock ==
  ASSUME LockInv, NEW s \in Subs, Subscribe(s)
  PROVE  LockInv'
<1>1. /\ writer = None /\ readers = {} /\ ~closed /\ subs' = Append(subs, s)
      /\ UNCHANGED <<readers, writer, closed, ch, pc, idx, accepted>>
      /\ \E p \in Policies[s] : policy' = [policy EXCEPT ![s] = p]
  BY DEF Subscribe, Free, lockVars, threadVars
<1>2. subs \in Seq(Subs) /\ Append(subs, s) \in Seq(Subs)
  BY DEF LockInv, Shapes
<1>3. ASSUME NEW u \in Subs, Subscribed(u) PROVE Subscribed(u)'
  <2>1. PICK i \in DOMAIN subs : subs[i] = u
    BY <1>3 DEF Subscribed, ToSet
  <2>2. i \in DOMAIN subs' /\ subs'[i] = u
    BY <1>1, <1>2, <2>1
  <2> QED
    BY <2>2 DEF Subscribed, ToSet
<1>4. Shapes'
  BY <1>1, <1>2 DEF LockInv, Shapes
<1>5. Lock'
  BY <1>1 DEF LockInv, Lock
<1>6. Subscribed(s)' /\ \A u \in Subs : u # s => policy'[u] = policy[u]
  <2>1. Len(subs) + 1 \in DOMAIN subs' /\ subs'[Len(subs) + 1] = s
    BY <1>1, <1>2
  <2> QED
    BY <1>1, <2>1 DEF Subscribed, ToSet, LockInv, Shapes
<1>7. Handed'
  BY <1>1, <1>3, <1>6 DEF LockInv, Handed
<1> QED
  BY <1>4, <1>5, <1>7 DEF LockInv

LEMMA LockNext == LockInv /\ [Next]_vars => LockInv'
<1> SUFFICES ASSUME LockInv, [Next]_vars PROVE LockInv'
  OBVIOUS
<1>1. CASE UNCHANGED vars
  BY <1>1, LockKept DEF vars, lockVars, busVars, threadVars, history, LockInv, Shapes
<1>2. ASSUME NEW t \in Senders, SendCall(t) \/ SendStep(t) PROVE LockInv'
  BY <1>2, SendsKeepLock, ReadersKeepLock DEF SendStep, Threads
<1>3. ASSUME NEW t \in Closers \cup Drainers, CloseStep(t) PROVE LockInv'
  BY <1>3, CallsKeepLock, WriterKeepsLock DEF CloseStep
<1>4. ASSUME NEW t \in Drainers, DrainStep(t) \/ DrainCall(t) \/ Deadline(t) PROVE LockInv'
  BY <1>4, CallsKeepLock, ReadersKeepLock DEF DrainStep, Threads
<1>5. ASSUME NEW t \in Closers, CloseCall(t) PROVE LockInv'
  BY <1>5, CallsKeepLock
<1>6. ASSUME NEW s \in Subs, Subscribe(s) \/ Recv(s) \/ SelfClose(s) PROVE LockInv'
  BY <1>6, SubscribeKeepsLock, ConsumersKeepLock
<1> QED
  BY <1>1, <1>2, <1>3, <1>4, <1>5, <1>6 DEF Next, Step

LEMMA LockInvariance == Spec => []LockInv
  BY LockInit, LockNext, PTL DEF Spec

\* When a close has released the lock no subscription is left and every channel that
\* subscribe handed out is closed, also one that never took a frame (bus.cpp:94-101).
THEOREM ClosesAll == Spec => []CloseIsComplete
<1>1. LockInv => CloseIsComplete
  BY DEF LockInv, Handed, CloseIsComplete, Subscribed, ToSet
<1> QED
  BY <1>1, LockInvariance, PTL

\* No frame enters a channel of a closed bus (bus.cpp:37-41).
THEOREM SilentOnceClosed == Spec => NothingAfterClose
<1>1. LockInv /\ [Next]_vars => [closed => accepted' = accepted]_vars
  <2> SUFFICES ASSUME LockInv, [Next]_vars, closed PROVE accepted' = accepted
    OBVIOUS
  <2>1. \A t \in Senders : pc[t] # "loop"
    BY DEF LockInv, Lock, Inside
  <2>2. CASE UNCHANGED vars
    BY <2>2 DEF vars, history
  <2>3. ASSUME NEW t \in Senders, SendCall(t) \/ SendStep(t) PROVE accepted' = accepted
    BY <2>1, <2>3 DEF SendCall, SendStep, SendInvalid, SendClosed, SendEnter, Skip, DropNewest, DropOldest,
       Block, Tally, SendReturn, InLoop, history
  <2>4. ASSUME NEW t \in Closers \cup Drainers, CloseStep(t) \/ CloseCall(t) PROVE accepted' = accepted
    BY <2>4 DEF CloseStep, CloseAgain, CloseEnter, CloseChannel, CloseReturn, CloseCall, history
  <2>5. ASSUME NEW t \in Drainers, DrainStep(t) \/ DrainCall(t) \/ Deadline(t) PROVE accepted' = accepted
    BY <2>5 DEF DrainStep, DrainTimeout, DrainScan, ScanEmpty, ScanNotEmpty, ScanDone, DrainCall, Deadline,
       history
  <2>6. ASSUME NEW s \in Subs, Subscribe(s) \/ Recv(s) \/ SelfClose(s) PROVE accepted' = accepted
    BY <2>6 DEF Subscribe, Recv, SelfClose, history
  <2> QED
    BY <2>2, <2>3, <2>4, <2>5, <2>6 DEF Next, Step
<1> QED
  BY <1>1, LockInvariance, PTL DEF Spec, NothingAfterClose

-----------------------------------------------------------------------------
(* The order of the frames of a sender *)

\* Every frame the channel of s took from t is older than the one t has in hand.
Before(t, s) ==
  \A i \in DOMAIN accepted[s] : accepted[s][i].src = t => accepted[s][i].n < sends[t]

Entries == [src : Senders, n : Nat, id : Ids \cup {BadId}]

Fields ==
  /\ sends \in [Senders -> Nat]
  /\ frame \in [Senders -> Entries]
  /\ \A t \in Senders : /\ frame[t].src = t /\ frame[t].n = sends[t]
                        /\ pc[t] \in {"loop", "deliver", "drop"} => frame[t].id # BadId
  /\ accepted \in [Subs -> Seq(Entries)]
  /\ \A i, j \in DOMAIN subs : subs[i] = subs[j] => i = j

\* The channels a send has not come to yet do not hold its frame.
Ahead ==
  \A t \in Senders :
    /\ pc[t] = "send" => \A s \in Subs : Before(t, s)
    /\ pc[t] = "loop" => \A j \in DOMAIN subs : j >= idx[t] => Before(t, subs[j])
    /\ pc[t] \in {"deliver", "drop"} => \A j \in DOMAIN subs : j > idx[t] => Before(t, subs[j])

Taken(s) ==
  /\ \A i \in DOMAIN accepted[s] : /\ MatchesAny(s, accepted[s][i]) /\ accepted[s][i].id # BadId
                                   /\ accepted[s][i].src \in Senders /\ accepted[s][i].n \in Nat
                                   /\ accepted[s][i].n <= sends[accepted[s][i].src]
  /\ \A i, j \in DOMAIN accepted[s] :
       i < j /\ accepted[s][i].src = accepted[s][j].src => accepted[s][i].n < accepted[s][j].n

OrderInv == Fields /\ Ahead /\ \A s \in Subs : Taken(s)

LEMMA OrderInit == Init => OrderInv
<1> SUFFICES ASSUME Init PROVE OrderInv
  OBVIOUS
<1>1. Fields
  <2>1. sends \in [Senders -> Nat] /\ frame \in [Senders -> Entries]
    BY DEF Init, Entries
  <2>2. \A t \in Senders : frame[t].src = t /\ frame[t].n = sends[t] /\ pc[t] = "idle"
    BY DEF Init, Threads
  <2>3. accepted \in [Subs -> Seq(Entries)]
    <3>1. \A S : << >> \in Seq(S)
      OBVIOUS
    <3> QED
      BY <3>1, Zenon DEF Init
  <2>4. subs = << >>
    BY DEF Init
  <2> QED
    BY <2>1, <2>2, <2>3, <2>4 DEF Fields
<1>2. Ahead
  BY DEF Init, Ahead, Threads
<1>3. \A s \in Subs : Taken(s)
  BY DEF Init, Taken
<1> QED
  BY <1>1, <1>2, <1>3 DEF OrderInv

\* What a sender does between two pushes.
Moves(t) ==
  \/ pc'[t] = pc[t] /\ idx'[t] = idx[t]
  \/ pc'[t] = "idle"
  \/ pc[t] = "send" /\ pc'[t] = "loop" /\ frame[t].id # BadId
  \/ pc[t] = "loop" /\ pc'[t] \in {"drop", "deliver"} /\ idx'[t] = idx[t]
  \/ pc[t] \in {"loop", "deliver", "drop"} /\ pc'[t] = "loop" /\ idx'[t] = idx[t] + 1

LEMMA OrderKept ==
  ASSUME LockInv, LockInv', OrderInv, UNCHANGED <<accepted, sends, frame>>,
         \A i, j \in DOMAIN subs' : subs'[i] = subs'[j] => i = j,
         \A t \in Senders : Moves(t) /\ (subs' = subs \/ pc'[t] \notin Inside)
  PROVE  OrderInv'
<1>1. Fields'
  BY DEF OrderInv, Fields, Moves
<1>2. \A t, s : Before(t, s)' <=> Before(t, s)
  BY DEF Before
<1>3. Ahead'
  <2> SUFFICES ASSUME NEW t \in Senders
               PROVE  /\ pc'[t] = "send" => \A s \in Subs : Before(t, s)'
                      /\ pc'[t] = "loop" => \A j \in DOMAIN subs' : j >= idx'[t] => Before(t, subs[j])'
                      /\ pc'[t] \in {"deliver", "drop"} => \A j \in DOMAIN subs' : j > idx'[t] => Before(t, subs[j])'
    BY DEF Ahead
  <2>1. \A j : Before(t, subs[j])' <=> Before(t, subs'[j])
    BY DEF Before
  <2>2. idx[t] \in Nat /\ idx'[t] \in Nat /\ \A j \in DOMAIN subs : j \in Nat /\ subs[j] \in Subs
    BY InSequence DEF LockInv, Shapes, Threads
  <2>3. subs' = subs \/ pc'[t] \notin Inside
    OBVIOUS
  <2> QED
    BY <1>2, <2>1, <2>2, <2>3 DEF OrderInv, Ahead, Moves, Inside
<1>4. \A s \in Subs : Taken(s)'
  BY DEF OrderInv, Taken, MatchesAny
<1> QED
  BY <1>1, <1>3, <1>4 DEF OrderInv

\* Of the threads only t may move.
LEMMA OneMoves ==
  ASSUME LockInv, LockInv', OrderInv, UNCHANGED <<accepted, sends, frame, subs>>, NEW t \in Threads,
         \A u \in Threads : u # t => pc'[u] = pc[u] /\ idx'[u] = idx[u],
         t \in Senders => Moves(t)
  PROVE  OrderInv'
<1>1. \A u \in Senders : Moves(u)
  BY DEF Moves, Threads
<1> QED
  BY <1>1, OrderKept DEF OrderInv, Fields

LEMMA CallInOrder == ASSUME LockInv, OrderInv, NEW t \in Senders, SendCall(t) PROVE OrderInv'
<1>1. /\ UNCHANGED <<subs, accepted, idx>> /\ sends' = [sends EXCEPT ![t] = sends[t] + 1]
      /\ pc' = [pc EXCEPT ![t] = "send"] /\ DOMAIN pc = Threads /\ t \in Threads
      /\ \E id \in Ids \cup {BadId} :
           frame' = [frame EXCEPT ![t] = [src |-> t, n |-> sends[t] + 1, id |-> id]]
      /\ sends \in [Senders -> Nat] /\ frame \in [Senders -> Entries]
  BY DEF SendCall, GoTo, busVars, history, OrderInv, Fields, LockInv, Shapes, Threads
<1>2. Fields'
  <2>1. sends' \in [Senders -> Nat]
    BY <1>1
  <2>2. frame' \in [Senders -> Entries]
    BY <1>1 DEF Entries
  <2>3. ASSUME NEW u \in Senders
        PROVE  /\ frame'[u].src = u /\ frame'[u].n = sends'[u]
               /\ pc'[u] \in {"loop", "deliver", "drop"} => frame'[u].id # BadId
    <3>1. CASE u = t
      <4>1. frame'[t].src = t /\ frame'[t].n = sends[t] + 1
        BY <1>1
      <4>2. sends'[t] = sends[t] + 1 /\ pc'[t] = "send"
        BY <1>1
      <4> QED
        BY <3>1, <4>1, <4>2
    <3>2. CASE u # t
      <4>1. frame'[u] = frame[u] /\ sends'[u] = sends[u]
        BY <1>1, <3>2
      <4>2. pc'[u] = pc[u]
        BY <1>1, <3>2 DEF Threads
      <4> QED
        BY <4>1, <4>2 DEF OrderInv, Fields
    <3> QED
      BY <3>1, <3>2
  <2> QED
    BY <1>1, <2>1, <2>2, <2>3 DEF OrderInv, Fields
<1>3. \A u \in Senders : sends[u] \in Nat /\ sends'[u] \in Nat /\ sends[u] <= sends'[u]
  BY <1>1
<1>4. \A s \in Subs : Taken(s)'
  BY <1>1, <1>3 DEF OrderInv, Taken, MatchesAny
<1>5. \A s \in Subs : Before(t, s)'
  BY <1>1 DEF OrderInv, Taken, Before
<1>6. ASSUME NEW u \in Senders, u # t PROVE \A s : Before(u, s)' <=> Before(u, s)
  BY <1>1, <1>6 DEF Before
<1>7. Ahead'
  <2>1. \A j \in DOMAIN subs : subs[j] \in Subs
    BY InSequence DEF LockInv, Shapes
  <2>2. \A u \in Senders : u # t => pc'[u] = pc[u]
    BY <1>1 DEF Threads
  <2>3. pc'[t] = "send"
    BY <1>1
  <2> QED
    BY <1>1, <1>5, <1>6, <2>1, <2>2, <2>3 DEF OrderInv, Ahead
<1> QED
  BY <1>2, <1>4, <1>7 DEF OrderInv

\* A frame enters the channel the send has come to.
LEMMA PushInOrder ==
  ASSUME LockInv, OrderInv, NEW t \in Senders, NEW s \in Subs, InLoop(t, s), MatchesAny(s, frame[t]),
         UNCHANGED <<subs, idx, sends, frame>>, pc' = [pc EXCEPT ![t] = "deliver"],
         accepted' = [accepted EXCEPT ![s] = Append(@, frame[t])]
  PROVE  OrderInv'
<1> DEFINE a == accepted[s]
           b == accepted'[s]
           f == frame[t]
<1>1. /\ DOMAIN pc = Threads /\ t \in Threads /\ DOMAIN accepted = Subs
      /\ idx[t] \in DOMAIN subs /\ subs[idx[t]] = s
  BY DEF InLoop, LockInv, Shapes, Threads
<1>2. /\ b = Append(a, f) /\ \A u \in Subs : u # s => accepted'[u] = accepted[u]
      /\ a \in Seq(Entries) /\ f \in Entries
      /\ f.src = t /\ f.n = sends[t] /\ f.id # BadId /\ sends[t] \in Nat
  BY <1>1 DEF OrderInv, Fields, InLoop
<1> HIDE DEF a, b, f
<1>3. /\ Len(a) \in Nat /\ DOMAIN a = 1..Len(a) /\ b \in Seq(Entries)
      /\ Len(b) = Len(a) + 1 /\ DOMAIN b = 1..(Len(a) + 1)
      /\ (\A i \in 1..Len(a) : b[i] = a[i]) /\ b[Len(a) + 1] = f
  BY <1>2
<1>4. /\ DOMAIN b = 1..(Len(a) + 1) /\ Len(b) = Len(a) + 1
      /\ \A i \in DOMAIN a : b[i] = a[i]
      /\ \A i \in DOMAIN b : i \in DOMAIN a \/ (i = Len(a) + 1 /\ b[i] = f)
      /\ \A i, j \in DOMAIN b : i < j => i \in DOMAIN a
  BY <1>2, <1>3
<1>5. Before(t, s)
  BY <1>1 DEF OrderInv, Ahead, InLoop, LockInv, Shapes
<1>6. Taken(s)'
  <2>1. /\ \A i \in DOMAIN a : /\ MatchesAny(s, a[i]) /\ a[i].id # BadId
                               /\ a[i].src \in Senders /\ a[i].n \in Nat /\ a[i].n <= sends[a[i].src]
        /\ \A i, j \in DOMAIN a : i < j /\ a[i].src = a[j].src => a[i].n < a[j].n
        /\ \A i \in DOMAIN a : a[i].src = t => a[i].n < sends[t]
    BY <1>5 DEF OrderInv, Taken, Before, a
  <2>2. MatchesAny(s, f)
    BY DEF f
  <2>3. \A i \in DOMAIN b : /\ MatchesAny(s, b[i]) /\ b[i].id # BadId
                            /\ b[i].src \in Senders /\ b[i].n \in Nat /\ b[i].n <= sends[b[i].src]
    BY <1>2, <1>4, <2>1, <2>2
  <2>4. \A i, j \in DOMAIN b : i < j /\ b[i].src = b[j].src => b[i].n < b[j].n
    BY <1>2, <1>4, <2>1
  <2> QED
    BY <2>3, <2>4 DEF Taken, MatchesAny, b
<1>7. ASSUME NEW u \in Subs, u # s PROVE Taken(u)'
  BY <1>2, <1>7 DEF OrderInv, Taken, MatchesAny
<1>8. Fields'
  <2>2. \A u \in Senders : pc'[u] = pc[u] \/ u = t
    BY <1>1 DEF Threads
  <2>3. accepted' \in [Subs -> Seq(Entries)]
    <3>1. accepted' = [accepted EXCEPT ![s] = b]
      BY <1>1, <1>2 DEF a, f
    <3> QED
      BY <1>3, <3>1 DEF OrderInv, Fields
  <2> QED
    BY <1>2, <2>2, <2>3 DEF OrderInv, Fields, f
<1>9. ASSUME NEW u \in Senders, NEW w \in Subs, u # t \/ w # s, Before(u, w) PROVE Before(u, w)'
  <2>1. CASE w # s
    BY <1>2, <1>9, <2>1 DEF Before
  <2>2. CASE w = s
    <3>1. \A i \in DOMAIN b : b[i].src = u => b[i].n < sends[u]
      BY <1>2, <1>4, <1>9, <2>2 DEF Before, a
    <3> QED
      BY <2>2, <3>1 DEF Before, b
  <2> QED
    BY <2>1, <2>2
<1>10. Ahead'
  <2>1. \A j \in DOMAIN subs : subs[j] \in Subs /\ j \in Nat
    BY InSequence DEF LockInv, Shapes
  <2>2. ASSUME NEW u \in Senders, u # t
        PROVE  /\ pc'[u] = "send" => \A w \in Subs : Before(u, w)'
               /\ pc'[u] = "loop" => \A j \in DOMAIN subs' : j >= idx'[u] => Before(u, subs[j])'
               /\ pc'[u] \in {"deliver", "drop"} => \A j \in DOMAIN subs' : j > idx'[u] => Before(u, subs[j])'
    <3>1. pc'[u] = pc[u]
      BY <1>1, <2>2 DEF Threads
    <3>2. \A j \in DOMAIN subs : Before(u, subs[j]) => Before(u, subs[j])'
      BY <1>9, <2>1, <2>2 DEF Before
    <3> QED
      BY <1>9, <2>2, <3>1, <3>2 DEF OrderInv, Ahead
  <2>3. pc'[t] = "deliver"
    BY <1>1
  <2>4. ASSUME NEW j \in DOMAIN subs', j > idx'[t] PROVE Before(t, subs[j])'
    <3>1. subs[j] \in Subs /\ subs[j] # s
      BY <1>1, <2>1, <2>4 DEF OrderInv, Fields, LockInv, Shapes
    <3>2. Before(t, subs[j])
      BY <1>1, <2>1, <2>4 DEF OrderInv, Ahead, InLoop, LockInv, Shapes
    <3>3. accepted'[subs[j]] = accepted[subs[j]]
      BY <1>2, <3>1
    <3> QED
      BY <3>2, <3>3 DEF Before
  <2> QED
    BY <2>2, <2>3, <2>4 DEF Ahead
<1> QED
  BY <1>6, <1>7, <1>8, <1>10 DEF OrderInv

LEMMA SendsInOrder ==
  ASSUME LockInv, LockInv', OrderInv, NEW t \in Senders, SendStep(t)
  PROVE  OrderInv'
<1>1. t \in Threads /\ t \in Senders /\ DOMAIN pc = Threads /\ DOMAIN idx = Threads
  BY DEF Threads, LockInv, Shapes
<1>2. UNCHANGED <<subs, sends, frame>> /\ \A u \in Threads : u # t => pc'[u] = pc[u] /\ idx'[u] = idx[u]
  BY <1>1 DEF SendStep, SendInvalid, SendClosed, SendEnter, Skip, DropNewest, DropOldest, Block, Tally,
     SendReturn, GoTo, Return, Advance, busVars
<1>3. CASE SendInvalid(t) \/ SendClosed(t) \/ SendEnter(t) \/ Skip(t) \/ Tally(t) \/ SendReturn(t)
  <2>1. accepted' = accepted /\ Moves(t)
    BY <1>1, <1>3 DEF SendInvalid, SendClosed, SendEnter, Skip, Tally, SendReturn, GoTo, Return, Advance,
       InLoop, Moves, history
  <2> QED
    BY <1>1, <1>2, <2>1, OneMoves
<1>4. CASE DropNewest(t) \/ DropOldest(t) \/ Block(t)
  <2>1. PICK s \in Subs :
          /\ InLoop(t, s) /\ MatchesAny(s, frame[t])
          /\ \/ accepted' = accepted /\ pc' = [pc EXCEPT ![t] = "drop"] /\ idx' = idx
             \/ accepted' = accepted /\ pc' = pc /\ Advance(t)
             \/ accepted' = accepted /\ pc' = [pc EXCEPT ![t] = "deliver"] /\ idx' = idx
             \/ /\ accepted' = [accepted EXCEPT ![s] = Append(@, frame[t])]
                /\ pc' = [pc EXCEPT ![t] = "deliver"] /\ idx' = idx
    BY <1>4 DEF DropNewest, DropOldest, Block, Push, Evict, GoTo
  <2>2. CASE accepted' = accepted
    <3>1. Moves(t)
      BY <1>1, <2>1, <2>2 DEF Advance, Moves, InLoop
    <3> QED
      BY <1>1, <1>2, <2>2, <3>1, OneMoves
  <2>3. CASE accepted' # accepted
    BY <1>2, <2>1, <2>3, PushInOrder
  <2> QED
    BY <2>2, <2>3
<1> QED
  BY <1>3, <1>4 DEF SendStep

LEMMA OrderNext == LockInv /\ LockInv' /\ OrderInv /\ [Next]_vars => OrderInv'
<1> SUFFICES ASSUME LockInv, LockInv', OrderInv, [Next]_vars PROVE OrderInv'
  OBVIOUS
<1> USE DEF lockVars, busVars, threadVars, history
<1>1. CASE UNCHANGED <<accepted, sends, frame, subs, pc, idx>>
  BY <1>1, OrderKept DEF Moves, OrderInv, Fields
<1>2. ASSUME NEW t \in Senders, SendCall(t) \/ SendStep(t) PROVE OrderInv'
  BY <1>2, CallInOrder, SendsInOrder
<1>3. ASSUME NEW t \in Closers \cup Drainers,
             CloseAgain(t) \/ CloseEnter(t) \/ CloseChannel(t) \/ CloseCall(t)
               \/ (t \in Drainers /\ (DrainStep(t) \/ DrainCall(t) \/ Deadline(t)))
      PROVE  OrderInv'
  <2>1. t \in Threads /\ t \notin Senders /\ DOMAIN pc = Threads /\ DOMAIN idx = Threads
    BY VirtualBusAssumption DEF VirtualBusAssumption, Threads, LockInv, Shapes
  <2>2. /\ UNCHANGED <<accepted, sends, frame, subs>>
        /\ \A u \in Threads : u # t => pc'[u] = pc[u] /\ idx'[u] = idx[u]
    BY <1>3, <2>1 DEF CloseAgain, CloseEnter, CloseChannel, CloseCall, DrainStep, DrainTimeout, DrainScan,
       ScanEmpty, ScanNotEmpty, ScanDone, DrainCall, Deadline, GoTo, Advance
  <2> QED
    BY <2>1, <2>2, OneMoves
<1>4. ASSUME NEW t \in Closers \cup Drainers, CloseReturn(t) PROVE OrderInv'
  <2>1. \A u \in Senders : pc'[u] = pc[u] /\ idx'[u] = idx[u]
    <3>1. t \notin Senders /\ DOMAIN pc = Threads
      BY VirtualBusAssumption DEF VirtualBusAssumption, LockInv, Shapes
    <3> QED
      BY <1>4, <3>1 DEF CloseReturn, GoTo, Threads
  <2>2. \A u \in Senders : pc[u] \notin Inside
    <3>1. t \in Threads /\ pc[t] = "closing"
      BY <1>4 DEF CloseReturn, Threads
    <3>2. closed
      BY <3>1, VirtualBusAssumption DEF VirtualBusAssumption, LockInv, Lock
    <3> QED
      BY <3>2 DEF LockInv, Lock
  <2>3. UNCHANGED <<accepted, sends, frame>> /\ subs' = << >>
    BY <1>4 DEF CloseReturn
  <2> QED
    BY <2>1, <2>2, <2>3, OrderKept DEF Moves
<1>5. ASSUME NEW s \in Subs, Subscribe(s) PROVE OrderInv'
  <2>1. UNCHANGED <<accepted, sends, frame, pc, idx>> /\ subs' = Append(subs, s) /\ ~Subscribed(s)
    BY <1>5 DEF Subscribe
  <2>2. \A u \in Senders : pc[u] \notin Inside
    BY <1>5 DEF Subscribe, Free, LockInv, Lock, Threads
  <2>3. \A i, j \in DOMAIN subs' : subs'[i] = subs'[j] => i = j
    <3>1. subs \in Seq(Subs) /\ \A i \in DOMAIN subs : subs[i] # s
      BY <2>1, InSequence DEF LockInv, Shapes, Subscribed
    <3>2. /\ DOMAIN subs = 1..Len(subs) /\ DOMAIN subs' = 1..(Len(subs) + 1) /\ Len(subs) \in Nat
          /\ \A i \in DOMAIN subs : subs'[i] = subs[i]
          /\ subs'[Len(subs) + 1] = s
      BY <2>1, <3>1
    <3>3. \A i \in DOMAIN subs' : i \in DOMAIN subs \/ i = Len(subs) + 1
      BY <3>2
    <3> QED
      BY <3>1, <3>2, <3>3 DEF OrderInv, Fields
  <2> QED
    BY <2>1, <2>2, <2>3, OrderKept DEF Moves
<1>6. ASSUME NEW s \in Subs, Recv(s) \/ SelfClose(s) PROVE OrderInv'
  BY <1>1, <1>6 DEF Recv, SelfClose
<1> QED
  BY <1>1, <1>2, <1>3, <1>4, <1>5, <1>6 DEF Next, Step, vars, CloseStep

\* A subscriber gets only what its filters let through, and the frames of a sender in
\* the order they were sent and at most once (bus.cpp:46-73).
THEOREM InOrderAndFiltered == Spec => []OrderedAndFiltered
<1>1. OrderInv => OrderedAndFiltered
  BY DEF OrderInv, Taken, OrderedAndFiltered
<1> QED
  BY <1>1, OrderInit, OrderNext, LockInvariance, PTL DEF Spec

-----------------------------------------------------------------------------
(* Nothing is skipped *)

\* The frames t has finished are its own and older than the one it has in hand.
Finished ==
  /\ base \in [Subs -> [Senders -> Nat]]
  /\ \A t \in Senders :
       /\ pc[t] # "idle" => sends[t] > 0
       /\ \A f \in done[t] : /\ f \in Entries /\ f.src = t /\ f.n <= sends[t]
                             /\ pc[t] # "idle" => f.n < sends[t]

\* Subscription s is not owed the frame t has in hand.
Got(t, s) ==
  ~ch[s].closed /\ policy[s] # "DropNewest" /\ frame[t].n > base[s][t] /\ MatchesAny(s, frame[t]) =>
    frame[t] \in ToSet(accepted[s])

\* A send has served the subscriptions before its place in subs_.
Passed ==
  \A t \in Senders :
    /\ pc[t] = "loop" => \A j \in DOMAIN subs : j < idx[t] => Got(t, subs[j])
    /\ pc[t] \in {"deliver", "drop"} => \A j \in DOMAIN subs : j <= idx[t] => Got(t, subs[j])

Kept(s) ==
  ~ch[s].closed /\ policy[s] # "DropNewest" =>
    \A t \in Senders : \A f \in done[t] : f.n > base[s][t] /\ MatchesAny(s, f) => f \in ToSet(accepted[s])

DeliveryInv == DOMAIN done = Senders /\ DOMAIN policy = Subs /\ Finished /\ Passed
                 /\ \A j \in DOMAIN subs : Kept(subs[j])

LEMMA DeliveryInit == Init => DeliveryInv
<1> SUFFICES ASSUME Init PROVE DeliveryInv
  OBVIOUS
<1>1. Finished
  BY DEF Init, Finished, Threads
<1>2. Passed /\ \A j \in DOMAIN subs : Kept(subs[j])
  BY DEF Init, Passed, Kept, Threads
<1> QED
  BY <1>1, <1>2 DEF Init, DeliveryInv

\* A channel never forgets a frame it took and never opens again.
Grows == \A s \in Subs : /\ ToSet(accepted[s]) \subseteq ToSet(accepted'[s])
                         /\ ch[s].closed => ch'[s].closed

\* A step of a sender that serves s.
Serving(t, s) ==
  ~ch'[s].closed /\ policy[s] # "DropNewest" /\ frame[t].n > base[s][t] /\ MatchesAny(s, frame[t]) =>
    frame[t] \in ToSet(accepted'[s])

\* A step of a sender inside its call.
Serves(t) ==
  \/ pc'[t] = pc[t] /\ idx'[t] = idx[t]
  \/ pc[t] = "send" /\ pc'[t] = "idle"
  \/ pc[t] = "send" /\ pc'[t] = "loop" /\ idx'[t] = 1
  \/ pc[t] = "loop" /\ pc'[t] = "loop" /\ idx'[t] = idx[t] + 1 /\ Serving(t, subs[idx[t]])
  \/ pc[t] = "loop" /\ pc'[t] \in {"deliver", "drop"} /\ idx'[t] = idx[t] /\ Serving(t, subs[idx[t]])
  \/ pc[t] \in {"deliver", "drop"} /\ pc'[t] = "loop" /\ idx'[t] = idx[t] + 1

LEMMA DeliveryKept ==
  ASSUME LockInv, OrderInv, DeliveryInv, UNCHANGED <<sends, frame, done, base, policy, subs>>, Grows,
         \A t \in Senders : Serves(t)
  PROVE  DeliveryInv'
<1>1. Finished'
  BY DEF DeliveryInv, Finished, Serves
<1>2. \A j \in DOMAIN subs : subs[j] \in Subs /\ j \in Nat
  BY InSequence DEF LockInv, Shapes
<1>3. \A t, s : s \in Subs /\ Got(t, s) => Got(t, s)'
  BY DEF Grows, Got, MatchesAny
<1>4. Passed'
  <2> SUFFICES ASSUME NEW t \in Senders, NEW j \in DOMAIN subs,
                      \/ pc'[t] = "loop" /\ j < idx'[t]
                      \/ pc'[t] \in {"deliver", "drop"} /\ j <= idx'[t]
               PROVE  Got(t, subs[j])'
    BY DEF Passed
  <2>1. idx[t] \in Nat
    BY DEF LockInv, Shapes, Threads
  <2>2. Serves(t) /\ j \in Nat /\ j >= 1
    BY <1>2 DEF LockInv, Shapes
  <2>4. \A s : Serving(t, s) => Got(t, s)'
    BY DEF Serving, Got, MatchesAny
  <2>3. \/ pc[t] = "loop" /\ j < idx[t]
        \/ pc[t] \in {"deliver", "drop"} /\ j <= idx[t]
        \/ j = idx[t] /\ Serving(t, subs[idx[t]])
    BY <2>1, <2>2 DEF Serves
  <2> QED
    BY <2>3, <2>4, <1>2, <1>3 DEF DeliveryInv, Passed
<1>5. \A j \in DOMAIN subs : Kept(subs[j])'
  BY <1>2 DEF DeliveryInv, Kept, Grows, MatchesAny
<1> QED
  BY <1>1, <1>4, <1>5 DEF DeliveryInv

LEMMA OneServes ==
  ASSUME LockInv, OrderInv, DeliveryInv, UNCHANGED <<sends, frame, done, base, policy, subs>>, Grows,
         NEW t \in Threads, \A u \in Threads : u # t => pc'[u] = pc[u] /\ idx'[u] = idx[u],
         t \in Senders => Serves(t)
  PROVE  DeliveryInv'
<1>1. \A u \in Senders : Serves(u)
  BY DEF Serves, Threads
<1> QED
  BY <1>1, DeliveryKept

\* What a send does at the channel of s.
LEMMA ServedGrows ==
  ASSUME LockInv, OrderInv, NEW s \in Subs, NEW f \in Entries,
         UNCHANGED <<ch, accepted>> \/ Push(s, f) \/ Evict(s, f)
  PROVE  Grows /\ (accepted' # accepted => f \in ToSet(accepted'[s]))
<1>1. DOMAIN ch = Subs /\ DOMAIN accepted = Subs /\ accepted[s] \in Seq(Entries)
      /\ \A u \in Subs : DOMAIN ch[u] = {"buf", "closed"}
  BY DEF LockInv, Shapes, OrderInv, Fields
<1>2. CASE UNCHANGED <<ch, accepted>>
  BY <1>2 DEF Grows
<1>3. CASE Push(s, f) \/ Evict(s, f)
  <2>1. accepted'[s] = Append(accepted[s], f) /\ \A u \in Subs : u # s => accepted'[u] = accepted[u]
    BY <1>1, <1>3 DEF Push, Evict
  <2>2. \A u \in Subs : ch'[u].closed = ch[u].closed
    BY <1>1, <1>3 DEF Push, Evict
  <2>3. ToSet(accepted'[s]) = ToSet(accepted[s]) \cup {f}
    BY <1>1, <2>1, Appended
  <2> QED
    BY <2>1, <2>2, <2>3 DEF Grows
<1> QED
  BY <1>2, <1>3

LEMMA SendsServe ==
  ASSUME LockInv, OrderInv, DeliveryInv, NEW t \in Senders,
         SendInvalid(t) \/ SendClosed(t) \/ SendEnter(t) \/ Skip(t) \/ DropNewest(t) \/ DropOldest(t)
           \/ Block(t) \/ Tally(t)
  PROVE  DeliveryInv'
<1>1. t \in Threads /\ DOMAIN pc = Threads /\ DOMAIN idx = Threads
  BY DEF Threads, LockInv, Shapes
<1>2. /\ UNCHANGED <<subs, sends, frame, done, base, policy>>
      /\ \A u \in Threads : u # t => pc'[u] = pc[u] /\ idx'[u] = idx[u]
  BY <1>1 DEF SendInvalid, SendClosed, SendEnter, Skip, DropNewest, DropOldest, Block, Tally,
     GoTo, Return, Advance, busVars, history
<1>3. CASE SendInvalid(t) \/ SendClosed(t) \/ SendEnter(t) \/ Tally(t)
  <2>1. Grows
    BY <1>3 DEF SendInvalid, SendClosed, SendEnter, Tally, Grows, history
  <2>2. Serves(t)
    BY <1>1, <1>3 DEF SendInvalid, SendClosed, SendEnter, Tally, GoTo, Return, Advance, Serves
  <2> QED
    BY <1>1, <1>2, <2>1, <2>2, OneServes
<1>4. CASE Skip(t)
  <2>1. Grows
    BY <1>4 DEF Skip, Grows, busVars, history
  <2>2. Serving(t, subs[idx[t]])
    BY <1>2, <1>4 DEF Skip, InLoop, Serving, MatchesAny
  <2>3. Serves(t)
    BY <1>1, <1>4, <2>2 DEF Skip, InLoop, Advance, Serves
  <2> QED
    BY <1>1, <1>2, <2>1, <2>3, OneServes
<1>5. CASE DropNewest(t) \/ DropOldest(t) \/ Block(t)
  <2>1. PICK s \in Subs :
          /\ InLoop(t, s) /\ MatchesAny(s, frame[t])
          /\ \/ UNCHANGED <<ch, accepted>> /\ (ch[s].closed \/ policy[s] = "DropNewest")
             \/ Push(s, frame[t])
             \/ Evict(s, frame[t])
          /\ \/ pc' = pc /\ Advance(t)
             \/ pc' = [pc EXCEPT ![t] = "deliver"] /\ idx' = idx
             \/ pc' = [pc EXCEPT ![t] = "drop"] /\ idx' = idx
    BY <1>5, Zenon DEF DropNewest, DropOldest, Block, GoTo
  <2>2. frame[t] \in Entries /\ subs[idx[t]] = s
    BY <2>1 DEF OrderInv, Fields, InLoop
  <2>3. Grows /\ (accepted' # accepted => frame[t] \in ToSet(accepted'[s]))
    BY <2>1, <2>2, ServedGrows
  <2>4. accepted' # accepted \/ (ch'[s].closed \/ policy[s] = "DropNewest")
    <3>1. Push(s, frame[t]) \/ Evict(s, frame[t]) => accepted' # accepted
      <4>1. accepted[s] \in Seq(Entries) /\ DOMAIN accepted = Subs
        BY DEF OrderInv, Fields
      <4>2. Append(accepted[s], frame[t]) # accepted[s]
        BY <4>1, <2>2
      <4> QED
        BY <4>1, <4>2 DEF Push, Evict
    <3> QED
      BY <2>1, <3>1
  <2>5. Serving(t, subs[idx[t]])
    BY <1>2, <2>2, <2>3, <2>4 DEF Serving, MatchesAny
  <2>6. Serves(t)
    BY <1>1, <2>1, <2>5 DEF InLoop, Advance, Serves
  <2> QED
    BY <1>1, <1>2, <2>3, <2>6, OneServes
<1> QED
  BY <1>3, <1>4, <1>5

LEMMA DeliveryNext == LockInv /\ OrderInv /\ OrderInv' /\ DeliveryInv /\ [Next]_vars => DeliveryInv'
<1> SUFFICES ASSUME LockInv, OrderInv, OrderInv', DeliveryInv, [Next]_vars PROVE DeliveryInv'
  OBVIOUS
<1> USE DEF lockVars, busVars, threadVars, history
<1>1. CASE UNCHANGED vars
  BY <1>1, DeliveryKept DEF vars, Serves, Grows
<1>2. ASSUME NEW t \in Senders, SendStep(t) PROVE DeliveryInv'
  <2>1. CASE SendReturn(t)
    <3>1. /\ UNCHANGED <<sends, frame, base, policy, subs, ch, accepted, idx>>
          /\ pc' = [pc EXCEPT ![t] = "idle"] /\ done' = [done EXCEPT ![t] = @ \cup {frame[t]}]
          /\ pc[t] = "loop" /\ idx[t] > Len(subs)
      BY <2>1 DEF SendReturn, Return, GoTo
    <3>2. /\ DOMAIN pc = Threads /\ t \in Threads /\ DOMAIN done = Senders
          /\ frame[t] \in Entries /\ frame[t].src = t /\ frame[t].n = sends[t] /\ sends[t] \in Nat
          /\ idx[t] \in Nat /\ subs \in Seq(Subs)
      BY DEF LockInv, Shapes, DeliveryInv, OrderInv, Fields, Threads
    <3>3. Finished'
      <4>1. ASSUME NEW u \in Senders
            PROVE  /\ pc'[u] # "idle" => sends[u] > 0
                   /\ \A f \in done'[u] : /\ f \in Entries /\ f.src = u /\ f.n <= sends[u]
                                          /\ pc'[u] # "idle" => f.n < sends[u]
        <5>1. CASE u = t
          <6>1. pc'[t] = "idle" /\ done'[t] = done[t] \cup {frame[t]}
            BY <3>1, <3>2
          <6> QED
            BY <5>1, <6>1, <3>2 DEF DeliveryInv, Finished
        <5>2. CASE u # t
          BY <5>2, <3>1, <3>2 DEF DeliveryInv, Finished, Threads
        <5> QED
          BY <5>1, <5>2
      <4>2. base' \in [Subs -> [Senders -> Nat]] /\ sends' = sends
        BY <3>1 DEF DeliveryInv, Finished
      <4> QED
        BY <4>1, <4>2 DEF Finished, Entries
    <3>4. Passed'
      <4>1. \A u, s : Got(u, s)' <=> Got(u, s)
        BY <3>1 DEF Got, MatchesAny
      <4>2. \A u \in Senders : pc'[u] = pc[u] \/ pc'[u] = "idle"
        BY <3>1, <3>2 DEF Threads
      <4> QED
        BY <3>1, <4>1, <4>2 DEF DeliveryInv, Passed, Got, MatchesAny
    <3>5. ASSUME NEW j \in DOMAIN subs PROVE Kept(subs[j])'
      <4>1. Got(t, subs[j])
        BY <3>1, <3>2, <3>5 DEF DeliveryInv, Passed
      <4>2. \A u \in Senders : \A f \in done'[u] : f \in done[u] \/ (u = t /\ f = frame[t])
        BY <3>1, <3>2
      <4> QED
        BY <3>1, <4>1, <4>2 DEF DeliveryInv, Kept, Got, MatchesAny
    <3> QED
      BY <3>1, <3>2, <3>3, <3>4, <3>5 DEF DeliveryInv
  <2> QED
    BY <1>2, <2>1, SendsServe DEF SendStep
<1>3. ASSUME NEW t \in Senders, SendCall(t) PROVE DeliveryInv'
  <2>1. /\ UNCHANGED <<base, policy, subs, ch, accepted, idx, done>>
        /\ pc' = [pc EXCEPT ![t] = "send"] /\ sends' = [sends EXCEPT ![t] = @ + 1] /\ pc[t] = "idle"
        /\ \A u \in Senders : u # t => frame'[u] = frame[u]
    BY <1>3 DEF SendCall, GoTo, OrderInv, Fields
  <2>2. DOMAIN pc = Threads /\ t \in Threads /\ sends \in [Senders -> Nat]
    BY DEF LockInv, Shapes, OrderInv, Fields, Threads
  <2>3. \A u \in Senders : u # t => pc'[u] = pc[u] /\ sends'[u] = sends[u]
    BY <2>1, <2>2 DEF Threads
  <2>4. pc'[t] = "send" /\ sends'[t] = sends[t] + 1 /\ sends[t] \in Nat
    BY <2>1, <2>2
  <2>5. Finished'
    <3>1. ASSUME NEW u \in Senders
          PROVE  /\ pc'[u] # "idle" => sends'[u] > 0
                 /\ \A f \in done[u] : /\ f \in Entries /\ f.src = u /\ f.n <= sends'[u]
                                       /\ pc'[u] # "idle" => f.n < sends'[u]
      <4>1. CASE u = t
        <5>1. \A f \in done[t] : f \in Entries /\ f.src = t /\ f.n <= sends[t] /\ f.n \in Nat
          BY DEF DeliveryInv, Finished, Entries
        <5>2. \A f \in done[t] : f.n < sends'[t] /\ f.n <= sends'[t]
          BY <2>4, <5>1
        <5>3. sends'[t] > 0
          BY <2>4
        <5> QED
          BY <4>1, <5>1, <5>2, <5>3
      <4>2. CASE u # t
        BY <4>2, <2>3 DEF DeliveryInv, Finished
      <4> QED
        BY <4>1, <4>2
    <3>2. base' \in [Subs -> [Senders -> Nat]] /\ done' = done
      BY <2>1 DEF DeliveryInv, Finished
    <3> QED
      BY <3>1, <3>2 DEF Finished, Entries
  <2>6. Passed'
    <3>1. \A u \in Senders : \A s : u # t => (Got(u, s)' <=> Got(u, s))
      BY <2>1 DEF Got, MatchesAny
    <3>2. \A j : \A u \in Senders : u # t => (Got(u, subs[j])' <=> Got(u, subs[j]))
      BY <2>1 DEF Got, MatchesAny
    <3> QED
      BY <2>1, <2>3, <2>4, <3>2 DEF DeliveryInv, Passed
  <2>7. \A j \in DOMAIN subs : Kept(subs[j])'
    BY <2>1 DEF DeliveryInv, Kept, MatchesAny
  <2> QED
    BY <2>1, <2>5, <2>6, <2>7 DEF DeliveryInv
<1>4. ASSUME NEW t \in Closers \cup Drainers,
             CloseAgain(t) \/ CloseEnter(t) \/ CloseChannel(t) \/ CloseCall(t)
               \/ (t \in Drainers /\ (DrainStep(t) \/ DrainCall(t) \/ Deadline(t)))
      PROVE  DeliveryInv'
  <2>1. t \in Threads /\ t \notin Senders /\ DOMAIN pc = Threads /\ DOMAIN idx = Threads
    BY VirtualBusAssumption DEF VirtualBusAssumption, Threads, LockInv, Shapes
  <2>2. /\ UNCHANGED <<accepted, sends, frame, subs, done, base, policy>>
        /\ \A u \in Threads : u # t => pc'[u] = pc[u] /\ idx'[u] = idx[u]
    BY <1>4, <2>1 DEF CloseAgain, CloseEnter, CloseChannel, CloseCall, DrainStep, DrainTimeout, DrainScan,
       ScanEmpty, ScanNotEmpty, ScanDone, DrainCall, Deadline, GoTo, Advance
  <2>3. \A s \in Subs : ch[s].closed => ch'[s].closed
    BY <1>4 DEF CloseAgain, CloseEnter, CloseChannel, CloseCall, DrainStep, DrainTimeout, DrainScan,
       ScanEmpty, ScanNotEmpty, ScanDone, DrainCall, Deadline, LockInv, Shapes
  <2>4. Grows
    BY <2>2, <2>3 DEF Grows
  <2> QED
    BY <2>1, <2>2, <2>4, OneServes
<1>5. ASSUME NEW t \in Closers \cup Drainers, CloseReturn(t) PROVE DeliveryInv'
  <2>1. t \notin Senders /\ t \in Threads /\ DOMAIN pc = Threads
    BY VirtualBusAssumption DEF VirtualBusAssumption, LockInv, Shapes, Threads
  <2>2. /\ \A u \in Senders : pc'[u] = pc[u]
        /\ UNCHANGED <<sends, done, base, policy>> /\ subs' = << >>
    BY <1>5, <2>1 DEF CloseReturn, GoTo, Threads
  <2> QED
    BY <2>2 DEF DeliveryInv, Finished, Passed
<1>6. ASSUME NEW s \in Subs, Subscribe(s) PROVE DeliveryInv'
  <2>1. /\ UNCHANGED <<accepted, sends, frame, pc, idx, ch, done>> /\ subs' = Append(subs, s) /\ ~Subscribed(s)
        /\ \A u \in Subs : u # s => policy'[u] = policy[u]
        /\ DOMAIN policy' = Subs
        /\ base' = [base EXCEPT ![s] =
                       [t \in Senders |-> IF pc[t] = "idle" THEN sends[t] ELSE sends[t] - 1]]
    BY <1>6 DEF Subscribe, DeliveryInv
  <2>2. \A u \in Senders : pc[u] \notin Inside
    BY <1>6 DEF Subscribe, Free, LockInv, Lock, Threads
  <2>3. Passed'
    BY <2>1, <2>2 DEF Passed, Inside
  <2>4. [t \in Senders |-> IF pc[t] = "idle" THEN sends[t] ELSE sends[t] - 1] \in [Senders -> Nat]
    BY DEF DeliveryInv, Finished, OrderInv, Fields
  <2>5. Finished'
    BY <2>1, <2>4 DEF DeliveryInv, Finished
  <2>6. ASSUME NEW t \in Senders, NEW f \in done[t] PROVE ~(f.n > base'[s][t])
    <3>1. base'[s][t] = IF pc[t] = "idle" THEN sends[t] ELSE sends[t] - 1
      BY <2>1 DEF DeliveryInv, Finished
    <3>2. f.n \in Nat /\ sends[t] \in Nat /\ f.n <= sends[t] /\ (pc[t] # "idle" => f.n < sends[t])
      BY <2>6 DEF DeliveryInv, Finished, OrderInv, Fields, Entries
    <3> QED
      BY <3>1, <3>2
  <2>7. ASSUME NEW j \in DOMAIN subs' PROVE Kept(subs[j])'
    <3>1. /\ DOMAIN subs = 1..Len(subs) /\ DOMAIN subs' = 1..(Len(subs) + 1) /\ Len(subs) \in Nat
          /\ \A i \in DOMAIN subs : subs'[i] = subs[i] /\ subs[i] \in Subs /\ subs[i] # s
          /\ subs'[Len(subs) + 1] = s
      <4>1. subs \in Seq(Subs) /\ \A i \in DOMAIN subs : subs[i] # s /\ subs[i] \in Subs
        BY <2>1, InSequence DEF LockInv, Shapes, Subscribed
      <4> QED
        BY <2>1, <4>1
    <3>2. CASE j = Len(subs) + 1
      BY <2>1, <2>6, <3>1, <3>2 DEF Kept
    <3>3. CASE j \in DOMAIN subs
      <4>1. \A u \in Senders : base'[subs[j]][u] = base[subs[j]][u]
        BY <2>1, <3>1, <3>3 DEF DeliveryInv, Finished
      <4>2. Kept(subs[j])
        BY <3>3 DEF DeliveryInv
      <4>3. subs'[j] = subs[j] /\ policy'[subs[j]] = policy[subs[j]]
        BY <2>1, <3>1, <3>3
      <4> QED
        BY <2>1, <4>1, <4>2, <4>3 DEF Kept, MatchesAny
    <3> QED
      BY <2>7, <3>1, <3>2, <3>3
  <2> QED
    BY <2>1, <2>3, <2>5, <2>7 DEF DeliveryInv
<1>7. ASSUME NEW s \in Subs, Recv(s) \/ SelfClose(s) PROVE DeliveryInv'
  <2>1. DOMAIN ch = Subs /\ \A u \in Subs : DOMAIN ch[u] = {"buf", "closed"}
    BY DEF LockInv, Shapes
  <2>2. Grows
    BY ZenonT(60), <1>7, <2>1 DEF Recv, SelfClose, Grows
  <2> QED
    BY <1>7, <2>2, DeliveryKept DEF Recv, SelfClose, Serves
<1> QED
  BY <1>1, <1>2, <1>3, <1>4, <1>5, <1>6, <1>7 DEF Next, Step, CloseStep

\* A frame whose send returned no error reached every matching subscription that was
\* there when the send began and is still open, whatever its depth and whoever else
\* sends, subscribes and closes, unless its policy is DropNewest (bus.cpp:61-71, 79-92).
THEOREM SkipsNothing == Spec => []NothingSkipped
<1>1. LockInv /\ DeliveryInv => NothingSkipped
  <2> SUFFICES ASSUME LockInv, DeliveryInv, NEW s \in ToSet(subs) PROVE Kept(s)
    BY DEF NothingSkipped, Kept
  <2>1. PICK j \in DOMAIN subs : subs[j] = s
    BY InSequence DEF LockInv, Shapes
  <2> QED
    BY <2>1 DEF DeliveryInv
<1> QED
  BY <1>1, OrderInit, OrderNext, LockInvariance, DeliveryInit, DeliveryNext, PTL DEF Spec

-----------------------------------------------------------------------------
(* What a channel holds *)

\* The channel of s holds the last frames it took, not more than its depth.
Stored(s) ==
  /\ ch[s].buf \in Seq(Entries) /\ Len(ch[s].buf) <= EffectiveDepth(s)
  /\ Ends(ch[s].buf, accepted[s])

StoreInv ==
  /\ \A s \in Subs : Stored(s)
  /\ ~closed => \A s \in Subs : accepted[s] # << >> => Subscribed(s)

LEMMA StoreInit == Init => StoreInv
<1> SUFFICES ASSUME Init PROVE StoreInv
  OBVIOUS
<1>1. \A S : << >> \in Seq(S)
  OBVIOUS
<1>2. \A s \in Subs : EffectiveDepth(s) \in Nat
  BY VirtualBusAssumption DEF VirtualBusAssumption, EffectiveDepth
<1>3. ASSUME NEW s \in Subs PROVE Stored(s)
  <2>1. ch[s].buf = << >> /\ accepted[s] = << >>
    BY DEF Init
  <2> QED
    BY <1>1, <1>2, <2>1 DEF Stored, Ends
<1>4. \A s \in Subs : accepted[s] = << >>
  BY DEF Init
<1> QED
  BY <1>3, <1>4 DEF StoreInv

\* What a step may do to the channel of s: nothing or a receive, or a push of f.
Quiet(s) ==
  /\ accepted'[s] = accepted[s]
  /\ ch'[s].buf = ch[s].buf \/ (ch[s].buf # << >> /\ ch'[s].buf = Tail(ch[s].buf))
Takes(s, f) ==
  /\ f \in Entries /\ accepted'[s] = Append(accepted[s], f)
  /\ \/ ~Full(s) /\ ch'[s].buf = Append(ch[s].buf, f)
     \/ Full(s) /\ ch'[s].buf = Append(Tail(ch[s].buf), f)

LEMMA StoredKept ==
  ASSUME StoreInv, OrderInv, NEW s \in Subs, NEW f, Quiet(s) \/ Takes(s, f)
  PROVE  /\ Stored(s)'
         /\ ToSet(ch'[s].buf) \subseteq ToSet(ch[s].buf) \cup {f}
         /\ Quiet(s) => ToSet(ch'[s].buf) \subseteq ToSet(ch[s].buf)
<1> DEFINE q == ch[s].buf
           a == accepted[s]
<1>1. q \in Seq(Entries) /\ a \in Seq(Entries) /\ Ends(q, a) /\ Len(q) \in Nat /\ Len(q) <= EffectiveDepth(s)
  BY DEF StoreInv, Stored, OrderInv, Fields
<1>2. EffectiveDepth(s) \in Nat /\ EffectiveDepth(s) > 0
  BY VirtualBusAssumption DEF VirtualBusAssumption, EffectiveDepth
<1>3. Stored(s)' <=> /\ ch'[s].buf \in Seq(Entries) /\ Len(ch'[s].buf) <= EffectiveDepth(s)
                     /\ Ends(ch'[s].buf, accepted'[s])
  BY DEF Stored, Ends, EffectiveDepth, Entries
<1>4. ASSUME q # << >>
      PROVE  /\ Tail(q) \in Seq(Entries) /\ Len(Tail(q)) = Len(q) - 1
             /\ Ends(Tail(q), a) /\ ToSet(Tail(q)) \subseteq ToSet(q)
  <2>1. Len(q) > 0 /\ Tail(q) \in Seq(Entries) /\ Len(Tail(q)) = Len(q) - 1
        /\ \A i \in 1..(Len(q) - 1) : Tail(q)[i] = q[i + 1]
    BY <1>1, <1>4
  <2>2. /\ DOMAIN Tail(q) = 1..(Len(q) - 1) /\ DOMAIN q = 1..Len(q)
        /\ \A i \in 1..(Len(q) - 1) : i + 1 \in 1..Len(q)
    BY <1>1, <2>1
  <2>3. ToSet(Tail(q)) \subseteq ToSet(q)
    BY <2>1, <2>2 DEF ToSet
  <2> QED
    BY <1>1, <1>4, <2>1, <2>3, EndsKept
<1>5. CASE ch'[s].buf = q /\ accepted'[s] = a
  BY <1>1, <1>3, <1>5
<1>8. CASE q # << >> /\ ch'[s].buf = Tail(q) /\ accepted'[s] = a
  <2>1. /\ ch'[s].buf \in Seq(Entries) /\ Len(ch'[s].buf) = Len(q) - 1
        /\ Ends(ch'[s].buf, accepted'[s]) /\ ToSet(ch'[s].buf) \subseteq ToSet(q)
    BY <1>4, <1>8
  <2> QED
    BY <1>1, <1>2, <1>3, <2>1
<1>6. CASE f \in Entries /\ ~Full(s) /\ ch'[s].buf = Append(q, f) /\ accepted'[s] = Append(a, f)
  <2>1. Len(Append(q, f)) = Len(q) + 1 /\ Append(q, f) \in Seq(Entries) /\ ~(Len(q) >= EffectiveDepth(s))
    BY <1>1, <1>6 DEF Full
  <2>2. Ends(Append(q, f), Append(a, f)) /\ ToSet(Append(q, f)) = ToSet(q) \cup {f}
    BY <1>1, <1>6, EndsKept, Appended
  <2>3. ~Quiet(s)
    <3>1. Append(a, f) # a
      BY <1>1, <1>6
    <3> QED
      BY <1>6, <3>1 DEF Quiet
  <2> QED
    BY <1>1, <1>2, <1>3, <1>6, <2>1, <2>2, <2>3
<1>7. CASE f \in Entries /\ Full(s) /\ ch'[s].buf = Append(Tail(q), f) /\ accepted'[s] = Append(a, f)
  <2>1. q # << >>
    BY <1>1, <1>2, <1>7 DEF Full
  <2>2. /\ Tail(q) \in Seq(Entries) /\ Len(Tail(q)) = Len(q) - 1
        /\ Ends(Tail(q), a) /\ ToSet(Tail(q)) \subseteq ToSet(q)
    BY <2>1, <1>4
  <2> DEFINE r == Tail(q)
  <2> HIDE DEF r
  <2>3. r \in Seq(Entries) /\ Len(r) = Len(q) - 1 /\ Ends(r, a) /\ ToSet(r) \subseteq ToSet(q)
        /\ ch'[s].buf = Append(r, f)
    BY <1>7, <2>2 DEF r
  <2>4. Len(Append(r, f)) = Len(r) + 1 /\ Append(r, f) \in Seq(Entries)
    BY <1>7, <2>3
  <2>5. Ends(Append(r, f), Append(a, f)) /\ ToSet(Append(r, f)) = ToSet(r) \cup {f}
    BY <1>1, <1>7, <2>3, EndsKept, Appended
  <2>6. Len(q) <= EffectiveDepth(s) /\ Len(q) \in Nat /\ accepted'[s] = Append(a, f)
    BY <1>1, <1>7
  <2>7. Len(ch'[s].buf) <= EffectiveDepth(s)
    BY <1>1, <1>2, <2>3, <2>4, <2>6
  <2>8. ToSet(ch'[s].buf) \subseteq ToSet(q) \cup {f}
    BY <2>3, <2>5
  <2>9. Stored(s)'
    BY <1>3, <2>3, <2>4, <2>5, <2>6, <2>7
  <2>10. ~Quiet(s)
    <3>1. Append(a, f) # a
      BY <1>1, <1>7
    <3> QED
      BY <1>7, <3>1 DEF Quiet
  <2> QED
    BY <2>8, <2>9, <2>10
<1> QED
  BY <1>5, <1>6, <1>7, <1>8 DEF Quiet, Takes

\* What a step does to the channels: a receive, or a push of the frame of a sender that
\* has come to that channel.
Traffic == \A s \in Subs : Quiet(s) \/ \E u \in Senders : InLoop(u, s) /\ Takes(s, frame[u])

LEMMA StepsCarry == LockInv /\ OrderInv /\ [Next]_vars => Traffic
<1> SUFFICES ASSUME LockInv, OrderInv, [Next]_vars PROVE Traffic
  OBVIOUS
<1> USE DEF lockVars, busVars, threadVars, history
<1>0. DOMAIN ch = Subs /\ DOMAIN accepted = Subs /\ \A s \in Subs : DOMAIN ch[s] = {"buf", "closed"}
  BY DEF LockInv, Shapes
<1>1. CASE UNCHANGED <<ch, accepted>>
  BY <1>1 DEF Traffic, Quiet
<1>2. ASSUME NEW t \in Senders, SendStep(t) PROVE Traffic
  <2>1. CASE DropNewest(t) \/ DropOldest(t) \/ Block(t)
    <3>1. PICK s \in Subs :
            /\ InLoop(t, s)
            /\ \/ UNCHANGED <<ch, accepted>>
               \/ ~Full(s) /\ Push(s, frame[t])
               \/ Full(s) /\ Evict(s, frame[t])
      BY <2>1, Zenon DEF DropNewest, DropOldest, Block
    <3>2. frame[t] \in Entries
      BY DEF OrderInv, Fields
    <3>3. ASSUME NEW w \in Subs, w # s PROVE Quiet(w)
      BY <1>0, <3>1, <3>3 DEF Push, Evict, Quiet
    <3>4. Quiet(s) \/ Takes(s, frame[t])
      BY <1>0, <3>1, <3>2 DEF Push, Evict, Quiet, Takes
    <3> QED
      BY <3>1, <3>3, <3>4 DEF Traffic
  <2> QED
    BY <1>1, <1>2, <2>1 DEF SendStep, SendInvalid, SendClosed, SendEnter, Skip, Tally, SendReturn
<1>3. ASSUME NEW t \in Closers \cup Drainers, CloseStep(t) PROVE Traffic
  BY <1>0, <1>3 DEF CloseStep, CloseAgain, CloseEnter, CloseChannel, CloseReturn, Traffic, Quiet
<1>4. ASSUME NEW t \in Drainers, DrainStep(t) \/ DrainCall(t) \/ Deadline(t) PROVE Traffic
  BY <1>1, <1>4 DEF DrainStep, DrainTimeout, DrainScan, ScanEmpty, ScanNotEmpty, ScanDone, DrainCall, Deadline
<1>5. ASSUME NEW s \in Subs, Subscribe(s) \/ Recv(s) \/ SelfClose(s) PROVE Traffic
  BY ZenonT(60), <1>0, <1>5 DEF Subscribe, Recv, SelfClose, Traffic, Quiet
<1> QED
  BY <1>1, <1>2, <1>3, <1>4, <1>5 DEF Next, Step, vars, SendCall, CloseCall

LEMMA StoreNext == LockInv /\ LockInv' /\ OrderInv /\ StoreInv /\ [Next]_vars => StoreInv'
<1> SUFFICES ASSUME LockInv, LockInv', OrderInv, StoreInv, [Next]_vars PROVE StoreInv'
  OBVIOUS
<1>1. Traffic
  BY StepsCarry
<1>2. \A s \in Subs : Stored(s)'
  <2> SUFFICES ASSUME NEW s \in Subs PROVE Stored(s)'
    OBVIOUS
  <2>1. PICK f : Quiet(s) \/ Takes(s, f)
    BY <1>1 DEF Traffic
  <2> QED
    BY <2>1, StoredKept
<1>3. ASSUME ~closed' PROVE ~closed /\ \A s \in Subs : Subscribed(s) => Subscribed(s)'
  <2> USE DEF lockVars, busVars, threadVars, history
  <2>1. CASE UNCHANGED <<closed, subs>>
    BY <1>3, <2>1 DEF Subscribed
  <2>2. ASSUME NEW t \in Senders, SendStep(t) PROVE UNCHANGED <<closed, subs>>
    BY <2>2 DEF SendStep, SendInvalid, SendClosed, SendEnter, Skip, DropNewest, DropOldest, Block, Tally, SendReturn
  <2>3. ASSUME NEW t \in Closers \cup Drainers, CloseStep(t) PROVE UNCHANGED <<closed, subs>>
    <3>1. ~CloseEnter(t)
      BY <1>3 DEF CloseEnter
    <3>2. ~CloseReturn(t)
      <4>1. ASSUME CloseReturn(t) PROVE FALSE
        <5>1. t \in Threads /\ pc[t] = "closing" /\ closed' = closed
          BY <4>1 DEF CloseReturn, Threads
        <5>2. closed
          BY <5>1, VirtualBusAssumption DEF VirtualBusAssumption, LockInv, Lock
        <5> QED
          BY <1>3, <5>1, <5>2
      <4> QED
        BY <4>1
    <3> QED
      BY <2>3, <3>1, <3>2 DEF CloseStep, CloseAgain, CloseChannel
  <2>4. ASSUME NEW t \in Drainers, DrainStep(t) \/ DrainCall(t) \/ Deadline(t) PROVE UNCHANGED <<closed, subs>>
    BY <2>4 DEF DrainStep, DrainTimeout, DrainScan, ScanEmpty, ScanNotEmpty, ScanDone, DrainCall, Deadline
  <2>5. ASSUME NEW s \in Subs, Recv(s) \/ SelfClose(s) PROVE UNCHANGED <<closed, subs>>
    BY <2>5 DEF Recv, SelfClose
  <2>6. ASSUME NEW s \in Subs, Subscribe(s) PROVE closed' = closed /\ subs' = Append(subs, s)
    BY <2>6 DEF Subscribe
  <2>7. ASSUME NEW s \in Subs, closed' = closed, subs' = Append(subs, s)
        PROVE  ~closed /\ \A w \in Subs : Subscribed(w) => Subscribed(w)'
    <3>1. ToSet(Append(subs, s)) = ToSet(subs) \cup {s}
      BY Appended DEF LockInv, Shapes
    <3> QED
      BY <1>3, <2>7, <3>1 DEF Subscribed
  <2> QED
    BY <2>1, <2>2, <2>3, <2>4, <2>5, <2>6, <2>7 DEF Next, Step, vars, SendCall, CloseCall
<1>4. ASSUME ~closed', NEW s \in Subs, accepted'[s] # << >> PROVE Subscribed(s)'
  <2>1. ~closed /\ (Subscribed(s) => Subscribed(s)')
    BY <1>3, <1>4
  <2>2. CASE accepted'[s] = accepted[s]
    BY <1>4, <2>1, <2>2 DEF StoreInv
  <2>3. CASE \E u \in Senders : InLoop(u, s)
    <3>1. PICK u \in Senders : InLoop(u, s)
      BY <2>3
    <3>2. idx[u] \in DOMAIN subs
      BY <3>1 DEF InLoop, LockInv, Shapes, Threads
    <3>3. Subscribed(s)
      BY <3>1, <3>2 DEF InLoop, Subscribed, ToSet
    <3> QED
      BY <2>1, <3>3
  <2> QED
    BY <1>1, <2>2, <2>3 DEF Traffic, Quiet
<1> QED
  BY <1>2, <1>4 DEF StoreInv

-----------------------------------------------------------------------------
(* What close_with_drain leaves behind *)

\* The channel of s holds no frame that was sent before the last look of t.
Clean(t, s) == ToSet(ch[s].buf) \cap seen[t] = {}

\* What t has seen was sent.  It is gone from the channels t has looked at, and, when t is
\* not looking, from every channel; the bus stays open while t looks.
Looks(t) ==
  /\ \A f \in seen[t] : f.src \in Senders /\ f \in done[f.src]
  /\ pc[t] = "scan" => /\ \A j \in DOMAIN subs : j < idx[t] => Clean(t, subs[j])
                       /\ closed => seen[t] = {}
  /\ pc[t] # "scan" => \A s \in Subs : Clean(t, s)

SeenInv == DOMAIN seen = Drainers /\ \A t \in Drainers : Looks(t)

LEMMA SeenInit == Init => SeenInv
  BY DEF Init, SeenInv, Looks, Clean, ToSet, Threads

\* No frame that a sender may still push has been seen.
LEMMA NewToAll ==
  ASSUME OrderInv, DeliveryInv, SeenInv, NEW t \in Drainers, NEW u \in Senders, pc[u] = "loop"
  PROVE  frame[u] \notin seen[t]
<1>1. frame[u].src = u /\ frame[u].n = sends[u] /\ sends[u] \in Nat
  BY DEF OrderInv, Fields
<1>2. frame[u] \notin done[u]
  BY <1>1 DEF DeliveryInv, Finished
<1> QED
  BY <1>1, <1>2 DEF SeenInv, Looks

\* A clean channel stays clean.
LEMMA StaysClean ==
  ASSUME LockInv, OrderInv, DeliveryInv, StoreInv, SeenInv, Traffic, seen' = seen
  PROVE  \A t \in Drainers, s \in Subs : Clean(t, s) => Clean(t, s)'
<1> SUFFICES ASSUME NEW t \in Drainers, NEW s \in Subs, Clean(t, s) PROVE Clean(t, s)'
  OBVIOUS
<1>1. CASE Quiet(s)
  <2>1. PICK f : Quiet(s) \/ Takes(s, f)
    BY <1>1
  <2>2. ToSet(ch'[s].buf) \subseteq ToSet(ch[s].buf)
    BY <1>1, <2>1, StoredKept
  <2> QED
    BY <2>2 DEF Clean
<1>2. CASE \E u \in Senders : InLoop(u, s) /\ Takes(s, frame[u])
  <2>1. PICK u \in Senders : InLoop(u, s) /\ Takes(s, frame[u])
    BY <1>2
  <2>2. ToSet(ch'[s].buf) \subseteq ToSet(ch[s].buf) \cup {frame[u]}
    BY <2>1, StoredKept
  <2>3. frame[u] \notin seen[t]
    BY <2>1, NewToAll DEF InLoop
  <2> QED
    BY <2>2, <2>3 DEF Clean
<1> QED
  BY <1>1, <1>2 DEF Traffic

\* Steps of others, and steps of a drainer outside its look.
LEMMA SeenKept ==
  ASSUME LockInv, OrderInv, DeliveryInv, StoreInv, SeenInv, Traffic, seen' = seen,
         \A u \in Senders : done[u] \subseteq done'[u],
         \A t \in Drainers : \/ /\ pc[t] = "scan" /\ pc'[t] = "scan" /\ idx'[t] = idx[t]
                                /\ subs' = subs /\ closed' = closed
                             \/ pc[t] # "scan" /\ pc'[t] # "scan"
  PROVE  SeenInv'
<1> SUFFICES ASSUME NEW t \in Drainers PROVE Looks(t)'
  BY DEF SeenInv
<1>1. \A s \in Subs : Clean(t, s) => Clean(t, s)'
  BY StaysClean
<1>2. \A f \in seen'[t] : f.src \in Senders /\ f \in done'[f.src]
  BY DEF SeenInv, Looks
<1>3. CASE pc[t] # "scan" /\ pc'[t] # "scan"
  BY <1>1, <1>2, <1>3 DEF SeenInv, Looks
<1>4. CASE pc[t] = "scan" /\ pc'[t] = "scan" /\ idx'[t] = idx[t] /\ subs' = subs /\ closed' = closed
  <2>1. \A j \in DOMAIN subs : subs[j] \in Subs
    BY InSequence DEF LockInv, Shapes
  <2>3. \A j \in DOMAIN subs : j < idx[t] => Clean(t, subs[j])'
    BY <1>1, <1>4, <2>1 DEF SeenInv, Looks, Clean
  <2> QED
    BY <1>2, <1>4, <2>3 DEF SeenInv, Looks, Clean
<1> QED
  BY <1>3, <1>4

LEMMA SeenNext ==
  LockInv /\ LockInv' /\ OrderInv /\ DeliveryInv /\ StoreInv /\ SeenInv /\ [Next]_vars => SeenInv'
<1> SUFFICES ASSUME LockInv, LockInv', OrderInv, DeliveryInv, StoreInv, SeenInv, [Next]_vars PROVE SeenInv'
  OBVIOUS
<1> USE DEF lockVars, busVars, threadVars, history
<1>0. Traffic /\ DOMAIN pc = Threads /\ DOMAIN idx = Threads /\ DOMAIN done = Senders /\ DOMAIN seen = Drainers
  BY StepsCarry DEF LockInv, Shapes, DeliveryInv, SeenInv
<1>1. CASE UNCHANGED <<seen, done, pc, idx, subs, closed>>
  BY <1>0, <1>1, SeenKept
<1>2. ASSUME NEW t \in Senders, SendCall(t) \/ SendStep(t) PROVE SeenInv'
  <2>1. /\ UNCHANGED <<seen, subs, closed>>
        /\ \A u \in Threads : u # t => pc'[u] = pc[u] /\ idx'[u] = idx[u]
        /\ \A u \in Senders : done[u] \subseteq done'[u]
    BY <1>0, <1>2 DEF SendCall, SendStep, SendInvalid, SendClosed, SendEnter, Skip, DropNewest, DropOldest,
       Block, Tally, SendReturn, GoTo, Return, Advance
  <2>2. \A u \in Drainers : u # t /\ u \in Threads
    BY VirtualBusAssumption DEF VirtualBusAssumption, Threads
  <2> QED
    BY <1>0, <2>1, <2>2, SeenKept
<1>3. ASSUME NEW t \in Closers \cup Drainers,
             \/ CloseCall(t) \/ CloseAgain(t) \/ CloseChannel(t)
             \/ t \in Drainers /\ (DrainCall(t) \/ Deadline(t) \/ DrainTimeout(t))
      PROVE  SeenInv'
  <2>1. /\ UNCHANGED <<seen, done, subs, closed>>
        /\ (pc[t] # "scan" /\ pc'[t] # "scan") \/ (pc' = pc /\ idx' = idx)
        /\ \A u \in Threads : u # t => pc'[u] = pc[u] /\ idx'[u] = idx[u]
    BY <1>0, <1>3 DEF CloseAgain, CloseChannel, CloseCall, DrainCall, Deadline, DrainTimeout, GoTo, Advance,
       Threads
  <2>2. \A u \in Drainers : u \in Threads
    BY DEF Threads
  <2> QED
    BY <1>0, <2>1, <2>2, SeenKept
<1>4. ASSUME NEW t \in Closers \cup Drainers, CloseEnter(t) \/ CloseReturn(t) PROVE SeenInv'
  <2>1. t \in Threads /\ (pc[t] = "closing" => writer = t /\ readers = {})
    BY VirtualBusAssumption DEF VirtualBusAssumption, LockInv, Lock, Threads
  <2>2. UNCHANGED <<seen, done>> /\ readers = {} /\ pc' \in {[pc EXCEPT ![t] = "closing"], [pc EXCEPT ![t] = "idle"]}
    BY <1>4, <2>1 DEF CloseEnter, CloseReturn, Free, GoTo
  <2>3. \A u \in Drainers : pc[u] # "scan" /\ pc'[u] # "scan"
    BY <1>0, <2>2 DEF LockInv, Lock, Inside, Threads
  <2> QED
    BY <1>0, <2>2, <2>3, SeenKept
<1>5. ASSUME NEW s \in Subs, Subscribe(s) PROVE SeenInv'
  <2>1. UNCHANGED <<seen, done, pc, idx>> /\ readers = {}
    BY <1>5 DEF Subscribe, Free
  <2>2. \A u \in Drainers : pc[u] # "scan"
    BY <2>1 DEF LockInv, Lock, Inside, Threads
  <2> QED
    BY <1>0, <2>1, <2>2, SeenKept
<1>6. ASSUME NEW s \in Subs, Recv(s) \/ SelfClose(s) PROVE SeenInv'
  BY <1>1, <1>6 DEF Recv, SelfClose
<1>7. ASSUME NEW t \in Drainers, DrainScan(t) \/ ScanEmpty(t) \/ ScanNotEmpty(t) \/ ScanDone(t) PROVE SeenInv'
  <2>1. /\ UNCHANGED <<ch, done, subs, closed>> /\ DOMAIN seen' = Drainers
        /\ \A u \in Drainers : u # t => pc'[u] = pc[u] /\ idx'[u] = idx[u] /\ seen'[u] = seen[u]
    BY <1>0, <1>7 DEF DrainScan, ScanEmpty, ScanNotEmpty, ScanDone, GoTo, Advance, Threads
  <2>2. t \in Threads /\ idx[t] \in Nat /\ Looks(t) /\ \A j \in DOMAIN subs : j \in Nat \ {0} /\ subs[j] \in Subs
    BY InSequence DEF LockInv, Shapes, Threads, SeenInv
  <2>3. CASE DrainScan(t)
    <3>1. /\ pc'[t] = "scan" /\ idx'[t] = 1
          /\ seen'[t] = IF closed THEN {} ELSE UNION {done[u] : u \in Senders}
      BY <1>0, <2>2, <2>3 DEF DrainScan, GoTo
    <3>2. \A f \in seen'[t] : f.src \in Senders /\ f \in done[f.src]
      BY <3>1 DEF DeliveryInv, Finished
    <3>3. \A j \in DOMAIN subs : ~(j < 1)
      BY <2>2
    <3>4. Looks(t)'
      BY <2>1, <3>1, <3>2, <3>3 DEF Looks
    <3> QED
      BY <2>1, <3>4 DEF SeenInv, Looks, Clean
  <2>4. CASE ScanEmpty(t)
    <3>1. /\ pc'[t] = "scan" /\ pc[t] = "scan" /\ idx'[t] = idx[t] + 1 /\ seen' = seen
          /\ ch[subs[idx[t]]].buf = << >>
      BY <1>0, <2>2, <2>4 DEF ScanEmpty, Advance
    <3>2. Clean(t, subs[idx[t]])
      BY <3>1 DEF Clean, ToSet
    <3>3. \A j \in DOMAIN subs : j < idx[t] + 1 => j < idx[t] \/ j = idx[t]
      BY <2>2
    <3>4. \A j \in DOMAIN subs : j < idx'[t] => Clean(t, subs[j])
      BY <2>2, <3>1, <3>2, <3>3 DEF Looks
    <3>5. Looks(t)'
      BY <2>1, <2>2, <3>1, <3>4 DEF Looks, Clean
    <3> QED
      BY <2>1, <3>5 DEF SeenInv, Looks, Clean
  <2>5. CASE ScanNotEmpty(t)
    <3>1. pc'[t] = "drain" /\ seen'[t] = {}
      BY <1>0, <2>2, <2>5 DEF ScanNotEmpty, GoTo
    <3>2. Looks(t)'
      BY <3>1 DEF Looks, Clean
    <3> QED
      BY <2>1, <3>2 DEF SeenInv, Looks, Clean
  <2>6. CASE ScanDone(t)
    <3>1. pc[t] = "scan" /\ pc'[t] = "close" /\ seen' = seen /\ idx[t] > Len(subs)
      BY <1>0, <2>2, <2>6 DEF ScanDone, GoTo
    <3>2. \A j \in DOMAIN subs : Clean(t, subs[j])
      <4>1. \A j \in DOMAIN subs : j < idx[t]
        BY <2>2, <3>1 DEF LockInv, Shapes
      <4> QED
        BY <2>2, <3>1, <4>1 DEF Looks
    <3>3. ASSUME NEW s \in Subs PROVE Clean(t, s)
      <4>1. CASE closed
        BY <2>2, <3>1, <4>1 DEF Looks, Clean
      <4>2. CASE Subscribed(s)
        BY <3>2, <4>2, InSequence DEF Subscribed, LockInv, Shapes
      <4>3. CASE ~closed /\ ~Subscribed(s)
        <5>1. accepted[s] = << >>
          BY <4>3 DEF StoreInv
        <5>2. ch[s].buf = << >>
          <6>1. ch[s].buf \in Seq(Entries) /\ Len(ch[s].buf) <= 0
            BY <5>1 DEF StoreInv, Stored, Ends
          <6> QED
            BY <6>1
        <5> QED
          BY <5>2 DEF Clean, ToSet
      <4> QED
        BY <4>1, <4>2, <4>3
    <3>4. Looks(t)'
      BY <2>1, <2>2, <3>1, <3>3 DEF Looks, Clean
    <3> QED
      BY <2>1, <3>4 DEF SeenInv, Looks, Clean
  <2> QED
    BY <1>7, <2>3, <2>4, <2>5, <2>6
<1> QED
  BY <1>1, <1>2, <1>3, <1>4, <1>5, <1>6, <1>7 DEF Next, Step, CloseStep, DrainStep, vars

LEMMA DeliveryInvariance == Spec => [](LockInv /\ OrderInv /\ DeliveryInv /\ StoreInv /\ SeenInv)
  BY LockInvariance, OrderInit, OrderNext, DeliveryInit, DeliveryNext, StoreInit, StoreNext, SeenInit, SeenNext,
     PTL DEF Spec

\* When close_with_drain goes on to close because everything looked empty, no frame whose
\* send had returned before that look is left in a channel, although the look takes many
\* steps and the lock is given back after it (bus.cpp:138-153).
THEOREM DrainsFirst == Spec => []DrainedBeforeClose
<1>1. SeenInv => DrainedBeforeClose
  BY DEF SeenInv, Looks, Clean, DrainedBeforeClose
<1> QED
  BY <1>1, DeliveryInvariance, PTL

-----------------------------------------------------------------------------
(* Types *)

Counters == {"write", "deliver", "drop", "error"}

Bounds ==
  /\ metrics \in [Counters -> Nat]
  /\ \A t \in Senders : sends[t] <= MaxSends[t]
  /\ \A t \in Threads : /\ idx[t] <= Cardinality(Subs) + 1
                        /\ pc[t] \in {"deliver", "drop"} => idx[t] <= Len(subs)
  /\ DOMAIN policy = Subs /\ \A j \in DOMAIN subs : policy[subs[j]] \in Policies[subs[j]]

LEMMA BoundsInit == Init => Bounds
<1> SUFFICES ASSUME Init PROVE Bounds
  OBVIOUS
<1>1. Cardinality(Subs) \in Nat
  BY FS_CardinalityType, VirtualBusAssumption DEF VirtualBusAssumption
<1>2. metrics \in [Counters -> Nat]
  BY DEF Init, Counters
<1>3. \A t \in Senders : sends[t] = 0 /\ MaxSends[t] \in Nat
  BY VirtualBusAssumption DEF VirtualBusAssumption, Init
<1>4. \A t \in Threads : idx[t] = 1 /\ pc[t] = "idle"
  BY DEF Init
<1>5. subs = << >> /\ DOMAIN policy = Subs
  BY DEF Init
<1> QED
  BY <1>1, <1>2, <1>3, <1>4, <1>5 DEF Bounds

\* A subscription is in subs_ once.
LEMMA SubsFit == LockInv /\ OrderInv => Len(subs) <= Cardinality(Subs) /\ Cardinality(Subs) \in Nat
<1> SUFFICES ASSUME LockInv, OrderInv PROVE Len(subs) <= Cardinality(Subs) /\ Cardinality(Subs) \in Nat
  OBVIOUS
<1>1. subs \in [1..Len(subs) -> Subs] /\ Len(subs) \in Nat
  BY DEF LockInv, Shapes
<1>2. IsFiniteSet(Subs)
  BY VirtualBusAssumption DEF VirtualBusAssumption
<1>3. \A i, j \in 1..Len(subs) : i # j => subs[i] # subs[j]
  BY <1>1 DEF OrderInv, Fields
<1>4. IsFiniteSet(1..Len(subs)) /\ Cardinality(1..Len(subs)) = Len(subs)
  <2>1. Cardinality(1..Len(subs)) = IF 1 > Len(subs) THEN 0 ELSE (Len(subs) - 1) + 1
    BY <1>1, FS_Interval
  <2> QED
    BY <1>1, <2>1, FS_Interval
<1>5. Cardinality(1..Len(subs)) <= Cardinality(Subs)
  BY <1>1, <1>2, <1>3, FS_Injection DEF Injection, IsInjective
<1> QED
  BY <1>2, <1>4, <1>5, FS_CardinalityType

LEMMA CountType ==
  ASSUME metrics \in [Counters -> Nat], NEW c \in Counters, metrics' = [metrics EXCEPT ![c] = @ + 1]
  PROVE  metrics' \in [Counters -> Nat]
  OBVIOUS

LEMMA BoundsNext == LockInv /\ LockInv' /\ OrderInv /\ Bounds /\ [Next]_vars => Bounds'
<1> SUFFICES ASSUME LockInv, LockInv', OrderInv, Bounds, [Next]_vars PROVE Bounds'
  OBVIOUS
<1> USE DEF lockVars, busVars, threadVars, history
<1>0. /\ DOMAIN pc = Threads /\ idx \in [Threads -> Nat \ {0}] /\ sends \in [Senders -> Nat]
      /\ MaxSends \in [Senders -> Nat] /\ subs \in Seq(Subs)
      /\ Len(subs) \in Nat /\ Len(subs) <= Cardinality(Subs) /\ Cardinality(Subs) \in Nat
  BY SubsFit, VirtualBusAssumption DEF VirtualBusAssumption, LockInv, Shapes, OrderInv, Fields
<1>1. CASE UNCHANGED <<metrics, sends, idx, pc, subs, policy>>
  BY <1>1 DEF Bounds
<1>2. ASSUME NEW t \in Senders, SendCall(t) \/ SendStep(t) PROVE Bounds'
  <2>1. t \in Threads /\ UNCHANGED <<subs, policy>>
        /\ \A u \in Threads : u # t => pc'[u] = pc[u] /\ idx'[u] = idx[u]
    BY <1>0, <1>2 DEF SendCall, SendStep, SendInvalid, SendClosed, SendEnter, Skip, DropNewest, DropOldest,
       Block, Tally, SendReturn, GoTo, Return, Advance, Threads
  <2>2. /\ idx'[t] <= Cardinality(Subs) + 1
        /\ pc'[t] \in {"deliver", "drop"} => idx'[t] <= Len(subs)
    BY <1>0, <1>2, <2>1 DEF SendCall, SendStep, SendInvalid, SendClosed, SendEnter, Skip, DropNewest,
       DropOldest, Block, Tally, SendReturn, GoTo, Return, Advance, InLoop, Bounds
  <2>3. metrics' = metrics \/ \E c \in Counters : metrics' = [metrics EXCEPT ![c] = @ + 1]
    BY <1>2 DEF SendCall, SendStep, SendInvalid, SendClosed, SendEnter, Skip, DropNewest,
       DropOldest, Block, Tally, SendReturn, Count, Counters
  <2>4. metrics' \in [Counters -> Nat]
    BY <2>3, CountType DEF Bounds
  <2>5. \A u \in Senders : sends'[u] <= MaxSends[u]
    <3>1. sends' = sends \/ (sends' = [sends EXCEPT ![t] = @ + 1] /\ sends[t] < MaxSends[t])
      BY <1>2 DEF SendCall, SendStep, SendInvalid, SendClosed, SendEnter, Skip, DropNewest,
       DropOldest, Block, Tally, SendReturn
    <3> QED
      BY <1>0, <3>1 DEF Bounds
  <2> QED
    BY <2>1, <2>2, <2>4, <2>5 DEF Bounds
<1>3. ASSUME NEW t \in Closers \cup Drainers,
             CloseAgain(t) \/ CloseEnter(t) \/ CloseChannel(t) \/ CloseCall(t)
               \/ (t \in Drainers /\ (DrainStep(t) \/ DrainCall(t) \/ Deadline(t)))
      PROVE  Bounds'
  <2>1. t \in Threads /\ UNCHANGED <<subs, policy, metrics, sends>>
        /\ \A u \in Threads : u # t => pc'[u] = pc[u] /\ idx'[u] = idx[u]
    BY <1>0, <1>3 DEF CloseAgain, CloseEnter, CloseChannel, CloseCall, DrainStep, DrainTimeout, DrainScan,
       ScanEmpty, ScanNotEmpty, ScanDone, DrainCall, Deadline, GoTo, Advance, Threads
  <2>2. /\ idx'[t] <= Cardinality(Subs) + 1
        /\ pc'[t] \in {"deliver", "drop"} => idx'[t] <= Len(subs)
    BY <1>0, <1>3, <2>1 DEF CloseAgain, CloseEnter, CloseChannel, CloseCall, DrainStep, DrainTimeout, DrainScan,
       ScanEmpty, ScanNotEmpty, ScanDone, DrainCall, Deadline, GoTo, Advance, Bounds
  <2> QED
    BY <2>1, <2>2 DEF Bounds
<1>4. ASSUME NEW t \in Closers \cup Drainers, CloseReturn(t) PROVE Bounds'
  <2>1. UNCHANGED <<policy, metrics, sends, idx>> /\ pc' = [pc EXCEPT ![t] = "idle"] /\ subs' = << >>
    BY <1>4 DEF CloseReturn, GoTo
  <2>2. t \in Threads /\ pc[t] = "closing"
    BY <1>4 DEF CloseReturn, Threads
  <2>3. readers = {}
    BY <2>2, VirtualBusAssumption DEF VirtualBusAssumption, LockInv, Lock
  <2>4. \A u \in Threads : pc'[u] \notin {"deliver", "drop"}
    BY <1>0, <2>1, <2>3 DEF LockInv, Lock, Inside
  <2> QED
    BY <2>1, <2>4 DEF Bounds
<1>5. ASSUME NEW s \in Subs, Subscribe(s) PROVE Bounds'
  <2>1. /\ UNCHANGED <<metrics, sends, idx, pc>> /\ readers = {} /\ subs' = Append(subs, s)
        /\ \E p \in Policies[s] : policy' = [policy EXCEPT ![s] = p]
    BY <1>5 DEF Subscribe, Free
  <2>2. \A u \in Threads : pc[u] \notin {"deliver", "drop"}
    BY <2>1 DEF LockInv, Lock, Inside
  <2>3. \A j \in DOMAIN subs' : policy'[subs'[j]] \in Policies[subs'[j]] /\ DOMAIN policy' = Subs
    <3>1. /\ DOMAIN subs = 1..Len(subs) /\ DOMAIN subs' = 1..(Len(subs) + 1)
          /\ \A i \in DOMAIN subs : subs'[i] = subs[i] /\ subs[i] \in Subs
          /\ subs'[Len(subs) + 1] = s
      BY <1>0, <2>1, InSequence
    <3>2. \A j \in DOMAIN subs' : j \in DOMAIN subs \/ j = Len(subs) + 1
      BY <1>0, <3>1
    <3> QED
      BY <2>1, <3>1, <3>2 DEF Bounds
  <2> QED
    BY <1>0, <2>1, <2>2, <2>3 DEF Bounds
<1>6. ASSUME NEW s \in Subs, Recv(s) \/ SelfClose(s) PROVE Bounds'
  BY <1>1, <1>6 DEF Recv, SelfClose
<1> QED
  BY <1>1, <1>2, <1>3, <1>4, <1>5, <1>6 DEF Next, Step, vars, CloseStep

\* What a channel holds is the end of what it took, within its depth; the lock is never
\* held by a reader and a writer, and subs_ changes only under a writer (bus.cpp:27-101).
THEOREM Types == Spec => []TypeOK
<1>1. LockInv /\ OrderInv /\ StoreInv /\ Bounds => TypeOK
  <2> SUFFICES ASSUME LockInv, OrderInv, StoreInv, Bounds PROVE TypeOK
    OBVIOUS
  <2>1. readers = {t \in Threads : pc[t] \in {"loop", "deliver", "drop", "scan"}}
    BY DEF LockInv, Lock, Inside
  <2>2. writer \in {None} \cup {t \in Threads : pc[t] = "closing"} /\ (writer # None => readers = {} /\ closed)
    BY DEF LockInv, Lock
  <2>3. closed \in BOOLEAN /\ subs \in Seq(Subs) /\ IsInjective(subs)
    BY DEF LockInv, Shapes, OrderInv, Fields, IsInjective
  <2>4. \A f \in Entries : f.n <= sends[f.src] => f \in Frames
    <3> SUFFICES ASSUME NEW f \in Entries, f.n <= sends[f.src] PROVE f \in Frames
      OBVIOUS
    <3>1. f.src \in Senders /\ f.n \in Nat /\ sends[f.src] \in Nat /\ MaxSends[f.src] \in Nat
      BY VirtualBusAssumption DEF VirtualBusAssumption, Entries, OrderInv, Fields
    <3>2. f.n \in 0..MaxSends[f.src]
      BY <3>1 DEF Bounds
    <3>3. f \in [src : {f.src}, n : 0..MaxSends[f.src], id : Ids \cup {BadId}]
      BY <3>2 DEF Entries
    <3> QED
      BY <3>1, <3>3 DEF Frames
  <2>5. ASSUME NEW s \in Subs
        PROVE  /\ ch[s].buf \in Seq(Frames) /\ Len(ch[s].buf) <= EffectiveDepth(s)
               /\ IsSuffix(ch[s].buf, accepted[s])
    <3> DEFINE q == ch[s].buf
               a == accepted[s]
    <3>1. q \in Seq(Entries) /\ a \in Seq(Entries) /\ Ends(q, a) /\ Len(q) <= EffectiveDepth(s)
      BY DEF StoreInv, Stored, OrderInv, Fields
    <3>2. \A i \in DOMAIN a : a[i] \in Frames
      <4>1. \A i \in DOMAIN a : a[i] \in Entries /\ a[i].n <= sends[a[i].src]
        BY <3>1, InSequence DEF OrderInv, Taken
      <4> QED
        BY <2>4, <4>1
    <3> HIDE DEF q, a
    <3>3. \A i \in 1..Len(q) : q[i] \in Frames
      <4>1. \A i \in 1..Len(q) : (Len(a) - Len(q)) + i \in DOMAIN a
        BY <3>1 DEF Ends
      <4> QED
        BY <3>1, <3>2, <4>1 DEF Ends
    <3>4. q \in Seq(Frames)
      BY <3>1, <3>3
    <3>5. IsSuffix(q, a)
      BY <3>1, EndIsSuffix
    <3> QED
      BY <3>1, <3>4, <3>5 DEF q, a
  <2>6. \A s \in ToSet(subs) : policy[s] \in Policies[s]
    BY DEF Bounds, ToSet
  <2>7. metrics \in [{"write", "deliver", "drop", "error"} -> Nat]
    BY DEF Bounds, Counters
  <2>8. frame \in [Senders -> Frames]
    <3>1. frame \in [Senders -> Entries] /\ \A t \in Senders : frame[t].src = t /\ frame[t].n = sends[t] /\ sends[t] \in Nat
      BY DEF OrderInv, Fields
    <3>2. \A t \in Senders : frame[t] \in Frames
      BY <2>4, <3>1
    <3> QED
      BY <3>1, <3>2
  <2>9. \A t \in Threads : idx[t] \in 1..(Cardinality(Subs) + 1)
    BY SubsFit DEF Bounds, LockInv, Shapes
  <2>10. \A t \in Senders : sends[t] \in 0..MaxSends[t]
    BY VirtualBusAssumption DEF VirtualBusAssumption, Bounds, OrderInv, Fields
  <2> QED
    BY <2>1, <2>2, <2>3, <2>5, <2>6, <2>7, <2>8, <2>9, <2>10 DEF TypeOK
<1> QED
  BY <1>1, DeliveryInvariance, BoundsInit, BoundsNext, PTL DEF Spec

-----------------------------------------------------------------------------
(* The counters *)

\* A send that is under way began after every subscription it can meet.
Based == \A s \in Subs : \A t \in Senders :
           base[s][t] <= sends[t] /\ (pc[t] # "idle" => base[s][t] < sends[t])

\* A sender between the channel operation and its counter.
Stands(t, s) ==
  /\ MatchesAny(s, frame[t])
  /\ pc[t] = "deliver" /\ policy[s] = "DropNewest" => frame[t] \in ToSet(accepted[s])
  /\ pc[t] = "drop" => policy[s] = "DropNewest" /\ frame[t] \notin ToSet(accepted[s])

Standing ==
  \A t \in Senders : pc[t] \in {"deliver", "drop"} => idx[t] \in DOMAIN subs /\ Stands(t, subs[idx[t]])

\* The send of t has served s.
Served(t, s) == pc[t] \in {"loop", "deliver", "drop"} /\ \E j \in DOMAIN subs : j < idx[t] /\ subs[j] = s

\* The DropNewest subscription s missed f, of a send that has finished or has served s.
Miss(s, f) ==
  /\ Subscribed(s) /\ policy[s] = "DropNewest" /\ MatchesAny(s, f) /\ f \notin ToSet(accepted[s])
  /\ \E t \in Senders : \/ f \in done[t] /\ f.n > base[s][t]
                        \/ f = frame[t] /\ Served(t, s)
Misses == {p \in Subs \X Entries : Miss(p[1], p[2])}

Open == ~closed /\ \A s \in Subs : ~ch[s].closed

DropInv == Open => IsFiniteSet(Misses) /\ metrics.drop = Cardinality(Misses)
EnterInv == IsFiniteSet(Entered) /\ Cardinality(Entered) <= metrics.deliver + Uncounted

CountInv == Based /\ Standing /\ DropInv /\ EnterInv

\* What the counters rest on.
BusInv == LockInv /\ OrderInv /\ DeliveryInv /\ Bounds

LEMMA CountInit == Init => CountInv
<1> SUFFICES ASSUME Init PROVE CountInv
  OBVIOUS
<1>1. Based /\ Standing
  BY DEF Init, Based, Standing, Threads
<1>2. Misses = {}
  BY DEF Init, Misses, Miss, Subscribed, ToSet
<1>3. Entered = {}
  BY DEF Init, Entered
<1>4. Uncounted = 0
  <2>1. {t \in Senders : pc[t] = "deliver"} = {}
    BY DEF Init, Threads
  <2> QED
    BY <2>1, FS_EmptySet DEF Uncounted
<1>5. metrics.drop = 0 /\ metrics.deliver = 0
  BY DEF Init
<1>6. DropInv
  BY <1>2, <1>5, FS_EmptySet DEF DropInv
<1>7. EnterInv
  BY <1>3, <1>4, <1>5, FS_EmptySet DEF EnterInv
<1> QED
  BY <1>1, <1>6, <1>7 DEF CountInv

\* The fields of the state, for the steps below.
LEMMA BusFacts ==
  ASSUME BusInv
  PROVE  /\ DOMAIN pc = Threads /\ DOMAIN idx = Threads /\ DOMAIN done = Senders /\ DOMAIN accepted = Subs
         /\ subs \in Seq(Subs) /\ DOMAIN subs = 1..Len(subs) /\ Len(subs) \in Nat
         /\ \A j \in DOMAIN subs : j \in Nat /\ subs[j] \in Subs
         /\ \A i, j \in DOMAIN subs : subs[i] = subs[j] => i = j
         /\ \A t \in Threads : idx[t] \in Nat \ {0}
         /\ \A t \in Senders : /\ t \in Threads /\ sends[t] \in Nat /\ frame[t] \in Entries
                               /\ frame[t].src = t /\ frame[t].n = sends[t]
                               /\ \A f \in done[t] : f \in Entries /\ f.src = t /\ f.n \in Nat /\ f.n <= sends[t]
                               /\ \A f \in done[t] : pc[t] # "idle" => f.n < sends[t]
         /\ \A s \in Subs : \A t \in Senders : base[s][t] \in Nat
         /\ \A s \in Subs : accepted[s] \in Seq(Entries)
         /\ metrics \in [Counters -> Nat]
<1>1. subs \in Seq(Subs) /\ idx \in [Threads -> Nat \ {0}] /\ DOMAIN pc = Threads /\ DOMAIN accepted = Subs
  BY DEF BusInv, LockInv, Shapes
<1>2. DOMAIN subs = 1..Len(subs) /\ Len(subs) \in Nat /\ \A j \in DOMAIN subs : j \in Nat /\ subs[j] \in Subs
  BY <1>1
<1>3. \A i, j \in DOMAIN subs : subs[i] = subs[j] => i = j
  BY DEF BusInv, OrderInv, Fields
<1>4. ASSUME NEW t \in Senders
      PROVE  /\ t \in Threads /\ sends[t] \in Nat /\ frame[t] \in Entries
             /\ frame[t].src = t /\ frame[t].n = sends[t]
             /\ \A f \in done[t] : f \in Entries /\ f.src = t /\ f.n \in Nat /\ f.n <= sends[t]
             /\ \A f \in done[t] : pc[t] # "idle" => f.n < sends[t]
  BY DEF BusInv, OrderInv, Fields, DeliveryInv, Finished, Threads, Entries
<1>5. \A s \in Subs : \A t \in Senders : base[s][t] \in Nat
  BY DEF BusInv, DeliveryInv, Finished
<1>6. \A s \in Subs : accepted[s] \in Seq(Entries)
  BY DEF BusInv, OrderInv, Fields
<1>7. metrics \in [Counters -> Nat] /\ DOMAIN done = Senders
  BY DEF BusInv, DeliveryInv, Bounds
<1> QED
  BY <1>1, <1>2, <1>3, <1>4, <1>5, <1>6, <1>7

\* Only the send of t can make s miss the frame t has in hand.
LEMMA OwnFrame ==
  ASSUME BusInv, NEW s \in Subs, NEW t \in Senders, pc[t] # "idle", Miss(s, frame[t])
  PROVE  Served(t, s)
<1>1. PICK u \in Senders : \/ frame[t] \in done[u] /\ frame[t].n > base[s][u]
                           \/ frame[t] = frame[u] /\ Served(u, s)
  BY DEF Miss
<1>2. frame[t].src = t /\ frame[u].src = u /\ frame[t].n = sends[t] /\ sends[t] \in Nat
  BY BusFacts
<1>3. ASSUME frame[t] \in done[u] PROVE FALSE
  <2>1. frame[t].src = u /\ (pc[u] # "idle" => frame[t].n < sends[u])
    BY <1>3, BusFacts
  <2> QED
    BY <1>2, <2>1
<1> QED
  BY <1>1, <1>2, <1>3

\* The send of t has not served the subscription it is at.
LEMMA NotYet ==
  ASSUME BusInv, NEW t \in Senders, idx[t] \in DOMAIN subs
  PROVE  ~Served(t, subs[idx[t]])
  BY BusFacts DEF Served

LEMMA MissesSame ==
  ASSUME \A s \in Subs : \A f \in Entries : Miss(s, f)' <=> Miss(s, f)
  PROVE  Misses' = Misses
<1>1. Entries' = Entries
  BY DEF Entries
<1>2. \A p \in Subs \X Entries : p[1] \in Subs /\ p[2] \in Entries
  OBVIOUS
<1> QED
  BY <1>1, <1>2 DEF Misses

\* Steps after which the same frames are missed.
LEMMA DropKept ==
  ASSUME DropInv, Open' => Open, metrics'.drop = metrics.drop,
         Open' => \A s \in Subs : \A f \in Entries : Miss(s, f)' <=> Miss(s, f)
  PROVE  DropInv'
<1> SUFFICES ASSUME Open' PROVE IsFiniteSet(Misses') /\ metrics'.drop = Cardinality(Misses')
  BY DEF DropInv
<1> QED
  BY MissesSame DEF DropInv

\* A step of t at its subscription s: only whether s misses the frame in hand may change.
LEMMA Elsewhere ==
  ASSUME BusInv, NEW t \in Senders, NEW s \in Subs,
         pc[t] \in {"loop", "deliver", "drop"}, pc'[t] \in {"loop", "deliver", "drop"},
         idx[t] \in DOMAIN subs, subs[idx[t]] = s, idx'[t] = idx[t] \/ idx'[t] = idx[t] + 1,
         \A u \in Threads : u # t => pc'[u] = pc[u] /\ idx'[u] = idx[u],
         UNCHANGED <<frame, done, base, policy, subs>>,
         \A u \in Subs : u # s => accepted'[u] = accepted[u],
         accepted'[s] = accepted[s] \/ ToSet(accepted'[s]) = ToSet(accepted[s]) \cup {frame[t]}
  PROVE  /\ \A u \in Subs : \A f \in Entries : u # s \/ f # frame[t] => (Miss(u, f)' <=> Miss(u, f))
         /\ ~Miss(s, frame[t])
         /\ Served(t, s)' <=> idx'[t] = idx[t] + 1
<1>1. ASSUME NEW u \in Senders, NEW w \in Subs, u # t \/ w # s
      PROVE  Served(u, w)' <=> Served(u, w)
  <2>1. CASE u # t
    <3>1. pc'[u] = pc[u] /\ idx'[u] = idx[u] /\ subs' = subs
      BY <2>1, BusFacts
    <3> QED
      BY <3>1 DEF Served
  <2>2. CASE u = t /\ w # s
    <3>1. \A j \in DOMAIN subs : subs[j] = w => (j < idx'[t] <=> j < idx[t])
      BY <2>2, BusFacts
    <3> QED
      BY <2>2, <3>1 DEF Served
  <2> QED
    BY <1>1, <2>1, <2>2
<1>2. Served(t, s)' <=> idx'[t] = idx[t] + 1
  <2>1. \A j \in DOMAIN subs : subs[j] = s <=> j = idx[t]
    BY BusFacts
  <2>2. idx[t] \in Nat /\ idx[t] \in DOMAIN subs
    BY BusFacts
  <2>3. Served(t, s)' <=> idx[t] < idx'[t]
    BY <2>1, <2>2 DEF Served
  <2> QED
    BY <2>2, <2>3
<1>3. ~Miss(s, frame[t])
  BY OwnFrame, NotYet
<1>4. ASSUME NEW u \in Subs, NEW f \in Entries, u # s \/ f # frame[t]
      PROVE  Miss(u, f)' <=> Miss(u, f)
  <2>1. /\ Subscribed(u)' <=> Subscribed(u)
        /\ (policy'[u] = "DropNewest") <=> (policy[u] = "DropNewest")
        /\ MatchesAny(u, f)' <=> MatchesAny(u, f)
    BY DEF Subscribed, MatchesAny
  <2>2. f \in ToSet(accepted'[u]) <=> f \in ToSet(accepted[u])
    BY <1>4
  <2>3. ASSUME NEW v \in Senders
        PROVE  (\/ f \in done'[v] /\ f.n > base'[u][v]
                \/ f = frame'[v] /\ Served(v, u)')
               <=> (\/ f \in done[v] /\ f.n > base[u][v]
                    \/ f = frame[v] /\ Served(v, u))
    BY <1>1, <1>4
  <2>4. (f \in ToSet(accepted[u])') <=> f \in ToSet(accepted'[u])
    OBVIOUS
  <2> QED
    BY <2>1, <2>2, <2>3, <2>4 DEF Miss
<1> QED
  BY <1>2, <1>3, <1>4

\* What the step of t does at s: nothing, or the channel takes the frame.
At(t, s) ==
  /\ InLoop(t, s)
  /\ \/ UNCHANGED accepted
     \/ Push(s, frame[t]) \/ Evict(s, frame[t])

LEMMA AtFacts ==
  ASSUME BusInv, NEW t \in Senders, NEW s \in Subs, At(t, s)
  PROVE  /\ pc[t] = "loop" /\ idx[t] \in DOMAIN subs /\ subs[idx[t]] = s
         /\ \A u \in Subs : u # s => accepted'[u] = accepted[u]
         /\ accepted'[s] = accepted[s] \/ ToSet(accepted'[s]) = ToSet(accepted[s]) \cup {frame[t]}
         /\ Push(s, frame[t]) \/ Evict(s, frame[t]) =>
              /\ accepted'[s] = Append(accepted[s], frame[t])
              /\ frame[t] \in ToSet(accepted'[s])
         /\ frame[t] \notin ToSet(accepted[s])
<1>1. /\ accepted[s] \in Seq(Entries) /\ frame[t] \in Entries /\ frame[t].src = t /\ frame[t].n = sends[t]
      /\ DOMAIN accepted = Subs /\ sends[t] \in Nat
  BY BusFacts
<1>2. pc[t] = "loop" /\ idx[t] \in DOMAIN subs /\ subs[idx[t]] = s
  BY BusFacts DEF At, InLoop
<1>3. Append(accepted[s], frame[t]) \in Seq(Entries)
      /\ ToSet(Append(accepted[s], frame[t])) = ToSet(accepted[s]) \cup {frame[t]}
  BY <1>1, Appended
<1>4. Push(s, frame[t]) \/ Evict(s, frame[t]) => accepted' = [accepted EXCEPT ![s] = Append(accepted[s], frame[t])]
  BY DEF Push, Evict
<1>5. Before(t, s)
  <2>1. idx[t] >= idx[t]
    BY <1>2, BusFacts
  <2> QED
    BY <1>2, <2>1 DEF BusInv, OrderInv, Ahead
<1>6. frame[t] \notin ToSet(accepted[s])
  BY <1>1, <1>5 DEF Before, ToSet
<1> QED
  BY <1>1, <1>2, <1>3, <1>4, <1>6 DEF At

LEMMA SendsKeepDrops ==
  ASSUME BusInv, Based, Standing, DropInv, NEW t \in Senders, SendStep(t) \/ SendCall(t)
  PROVE  DropInv'
<1> USE DEF lockVars, busVars, threadVars, history
<1>0. /\ t \in Threads /\ DOMAIN pc = Threads /\ DOMAIN idx = Threads
      /\ Open' => Open
  <2>1. /\ closed' = closed
        /\ ch' = ch \/ \E s \in Subs : Push(s, frame[t]) \/ Evict(s, frame[t])
    BY DEF SendStep, SendCall, SendInvalid, SendClosed, SendEnter, Skip, DropNewest, DropOldest, Block, Tally,
       SendReturn
  <2>2. \A s \in Subs : ch'[s].closed = ch[s].closed
    <3>1. DOMAIN ch = Subs /\ \A s \in Subs : DOMAIN ch[s] = {"buf", "closed"}
      BY DEF BusInv, LockInv, Shapes
    <3>2. ASSUME NEW w \in Subs, Push(w, frame[t]) \/ Evict(w, frame[t])
          PROVE  \A s \in Subs : ch'[s].closed = ch[s].closed
      BY <3>1, <3>2 DEF Push, Evict
    <3> QED
      BY <2>1, <3>2
  <2> QED
    BY <2>1, <2>2, BusFacts DEF Open
<1>1. CASE SendCall(t) \/ SendInvalid(t) \/ SendClosed(t) \/ SendEnter(t)
  <2>0. metrics'.drop = metrics.drop
    <3>1. metrics' = metrics \/ \E c \in {"write", "error"} : metrics' = [metrics EXCEPT ![c] = @ + 1]
      BY <1>1 DEF SendCall, SendInvalid, SendClosed, SendEnter, Count
    <3> QED
      BY <3>1, BusFacts DEF Counters
  <2>1. /\ UNCHANGED <<accepted, done, base, policy, subs>>
        /\ \A u \in Threads : u # t => pc'[u] = pc[u] /\ idx'[u] = idx[u]
        /\ \A u \in Senders : u # t => frame'[u] = frame[u]
        /\ pc[t] \in {"idle", "send"}
        /\ pc'[t] \in {"idle", "send"} \/ idx'[t] = 1
    BY <1>0, <1>1 DEF SendCall, SendInvalid, SendClosed, SendEnter, GoTo, Return, BusInv, OrderInv, Fields, Threads
  <2>2. ASSUME NEW u \in Senders, NEW s \in Subs PROVE IF u = t THEN ~Served(u, s) /\ ~Served(u, s)'
                                                     ELSE Served(u, s)' <=> Served(u, s)
    <3>1. CASE u = t
      <4>1. \A j \in DOMAIN subs : ~(j < 1)
        BY BusFacts
      <4> QED
        BY <2>1, <3>1, <4>1 DEF Served
    <3>2. CASE u # t
      <4>1. pc'[u] = pc[u] /\ idx'[u] = idx[u]
        BY <2>1, <3>2, BusFacts
      <4> QED
        BY <2>1, <3>2, <4>1 DEF Served
    <3> QED
      BY <3>1, <3>2
  <2>3. ASSUME NEW s \in Subs, NEW f \in Entries PROVE Miss(s, f)' <=> Miss(s, f)
    <3>1. \A v \in Senders : (\/ f \in done'[v] /\ f.n > base'[s][v]
                              \/ f = frame'[v] /\ Served(v, s)')
                             <=> (\/ f \in done[v] /\ f.n > base[s][v]
                                  \/ f = frame[v] /\ Served(v, s))
      BY <2>1, <2>2
    <3> QED
      BY <2>1, <3>1 DEF Miss, Subscribed, MatchesAny
  <2> QED
    BY <1>0, <2>0, <2>3, DropKept
<1>2. CASE Skip(t) \/ DropNewest(t) \/ DropOldest(t) \/ Block(t)
  <2>1. PICK s \in Subs :
          /\ At(t, s)
          /\ \/ pc' = pc /\ Advance(t) /\ (~MatchesAny(s, frame[t]) \/ ch[s].closed)
             \/ /\ pc' = [pc EXCEPT ![t] = "deliver"] /\ idx' = idx
             \/ /\ pc' = [pc EXCEPT ![t] = "drop"] /\ idx' = idx
    BY <1>2, Zenon DEF Skip, DropNewest, DropOldest, Block, GoTo, At
  <2>2. UNCHANGED <<frame, done, base, policy, subs, metrics>>
    BY <1>2 DEF Skip, DropNewest, DropOldest, Block
  <2>3. /\ pc[t] = "loop" /\ pc'[t] \in {"loop", "deliver", "drop"}
        /\ idx[t] \in DOMAIN subs /\ subs[idx[t]] = s /\ (idx'[t] = idx[t] \/ idx'[t] = idx[t] + 1)
        /\ \A u \in Threads : u # t => pc'[u] = pc[u] /\ idx'[u] = idx[u]
        /\ \A u \in Subs : u # s => accepted'[u] = accepted[u]
        /\ accepted'[s] = accepted[s] \/ ToSet(accepted'[s]) = ToSet(accepted[s]) \cup {frame[t]}
    BY <1>0, <2>1, AtFacts DEF Advance
  <2>4. /\ \A u \in Subs : \A f \in Entries : u # s \/ f # frame[t] => (Miss(u, f)' <=> Miss(u, f))
        /\ ~Miss(s, frame[t])
        /\ Served(t, s)' <=> idx'[t] = idx[t] + 1
    BY <2>2, <2>3, Elsewhere
  <2>5. ASSUME Open' PROVE ~Miss(s, frame[t])'
    <3>1. CASE idx' = idx
      <4>1. ~Served(t, s)'
        BY <2>3, <2>4, <3>1, BusFacts
      <4>2. \A u \in Senders : /\ frame[t] = frame[u] => u = t
                               /\ frame[t] \notin done[u]
        <5>1. \A u \in Senders : \A f \in done[u] : f.src = u /\ (pc[u] # "idle" => f.n < sends[u])
          BY BusFacts
        <5>2. \A u \in Senders : frame[u].src = u /\ frame[u].n = sends[u] /\ sends[u] \in Nat
          BY BusFacts
        <5> QED
          BY <2>3, <5>1, <5>2
      <4> QED
        BY <2>2, <4>1, <4>2 DEF Miss
    <3>2. CASE ~MatchesAny(s, frame[t])
      BY <2>2, <3>2 DEF Miss, MatchesAny
    <3>3. CASE ch[s].closed
      BY <1>0, <2>5, <3>3 DEF Open
    <3> QED
      BY <2>1, <3>1, <3>2, <3>3
  <2>6. Open' => \A u \in Subs : \A f \in Entries : Miss(u, f)' <=> Miss(u, f)
    BY <2>2, <2>4, <2>5
  <2> QED
    BY <1>0, <2>2, <2>6, DropKept
<1>3. CASE Tally(t)
  <2>1. /\ UNCHANGED <<frame, done, base, policy, subs, accepted>>
        /\ pc[t] \in {"deliver", "drop"} /\ pc'[t] = "loop" /\ idx'[t] = idx[t] + 1
        /\ \A u \in Threads : u # t => pc'[u] = pc[u] /\ idx'[u] = idx[u]
        /\ metrics'.drop = IF pc[t] = "drop" THEN metrics.drop + 1 ELSE metrics.drop
    BY <1>0, <1>3, BusFacts DEF Tally, GoTo, Advance, Count, Counters
  <2>2. PICK w \in Subs : idx[t] \in DOMAIN subs /\ subs[idx[t]] = w /\ Stands(t, w)
    BY <2>1, BusFacts DEF Standing
  <2>3. /\ \A u \in Subs : \A f \in Entries : u # w \/ f # frame[t] => (Miss(u, f)' <=> Miss(u, f))
        /\ ~Miss(w, frame[t])
        /\ Served(t, w)'
    BY <2>1, <2>2, Elsewhere
  <2>5. CASE pc[t] = "deliver"
    <3>1. ~Miss(w, frame[t])'
      BY <2>1, <2>2, <2>5 DEF Miss, Stands
    <3>2. \A u \in Subs : \A f \in Entries : Miss(u, f)' <=> Miss(u, f)
      BY <2>1, <2>3, <3>1
    <3> QED
      BY <1>0, <2>1, <2>5, <3>2, DropKept
  <2>6. CASE pc[t] = "drop"
    <3>1. Miss(w, frame[t])'
      <4>1. Subscribed(w)' /\ policy'[w] = "DropNewest" /\ MatchesAny(w, frame[t])' /\ frame[t] \notin ToSet(accepted[w])'
        BY <2>1, <2>2, <2>6 DEF Stands, Subscribed, ToSet, MatchesAny
      <4>2. Served(t, w)' /\ frame[t] = frame'[t]
        BY <2>1, <2>3
      <4> QED
        BY <2>1, <4>1, <4>2 DEF Miss
    <3>2. frame[t] \in Entries /\ Entries' = Entries
      BY BusFacts DEF Entries
    <3>3. Misses' = Misses \cup {<<w, frame[t]>>} /\ <<w, frame[t]>> \notin Misses
      <4>1. \A p \in Subs \X Entries : p \in Misses' <=> (p \in Misses \/ p = <<w, frame[t]>>)
        <5> SUFFICES ASSUME NEW u \in Subs, NEW f \in Entries
                     PROVE  <<u, f>> \in Misses' <=> (<<u, f>> \in Misses \/ <<u, f>> = <<w, frame[t]>>)
          OBVIOUS
        <5>1. (<<u, f>> \in Misses' <=> Miss(u, f)') /\ (<<u, f>> \in Misses <=> Miss(u, f))
          BY <3>2 DEF Misses
        <5>2. CASE u = w /\ f = frame[t]
          BY <2>1, <3>1, <5>1, <5>2
        <5>3. CASE u # w \/ f # frame[t]
          BY <2>3, <5>1, <5>3
        <5> QED
          BY <5>2, <5>3
      <4>2. Misses' \subseteq Subs \X Entries /\ Misses \subseteq Subs \X Entries /\ <<w, frame[t]>> \in Subs \X Entries
        BY <3>2 DEF Misses
      <4>3. <<w, frame[t]>> \notin Misses
        BY <2>3 DEF Misses
      <4> QED
        BY <4>1, <4>2, <4>3
    <3> SUFFICES ASSUME Open' PROVE IsFiniteSet(Misses') /\ metrics'.drop = Cardinality(Misses')
      BY DEF DropInv
    <3>4. IsFiniteSet(Misses) /\ metrics.drop = Cardinality(Misses)
      BY <1>0 DEF DropInv
    <3>5. /\ IsFiniteSet(Misses \cup {<<w, frame[t]>>})
          /\ Cardinality(Misses \cup {<<w, frame[t]>>}) = Cardinality(Misses) + 1
      BY <3>3, <3>4, FS_AddElement
    <3> QED
      BY <2>1, <2>6, <3>3, <3>4, <3>5
  <2> QED
    BY <2>1, <2>5, <2>6
<1>4. CASE SendReturn(t)
  <2>1. /\ UNCHANGED <<frame, base, policy, subs, accepted, metrics, idx>>
        /\ pc[t] = "loop" /\ pc'[t] = "idle" /\ idx[t] > Len(subs)
        /\ \A u \in Threads : u # t => pc'[u] = pc[u]
        /\ done'[t] = done[t] \cup {frame[t]} /\ \A u \in Senders : u # t => done'[u] = done[u]
    BY <1>0, <1>4, BusFacts DEF SendReturn, Return, GoTo
  <2>2. ASSUME NEW s \in Subs, NEW f \in Entries PROVE Miss(s, f)' <=> Miss(s, f)
    <3>1. CASE ~Subscribed(s)
      BY <2>1, <3>1 DEF Miss, Subscribed
    <3>2. CASE Subscribed(s)
      <4>1. Served(t, s) /\ ~Served(t, s)'
        <5>1. PICK j \in DOMAIN subs : subs[j] = s
          BY <3>2 DEF Subscribed, ToSet
        <5>2. j < idx[t]
          BY <2>1, BusFacts
        <5> QED
          BY <2>1, <5>1, <5>2 DEF Served
      <4>2. frame[t].n > base[s][t]
        BY <2>1, BusFacts DEF Based
      <4>3. \A u \in Senders : u # t => (Served(u, s)' <=> Served(u, s))
        BY <2>1, BusFacts DEF Served
      <4>4. \A v \in Senders : (\/ f \in done'[v] /\ f.n > base'[s][v]
                                \/ f = frame'[v] /\ Served(v, s)')
                               <=> (\/ f \in done[v] /\ f.n > base[s][v]
                                    \/ f = frame[v] /\ Served(v, s))
        BY <2>1, <4>1, <4>2, <4>3
      <4> QED
        BY <2>1, <4>4 DEF Miss, Subscribed, MatchesAny
    <3> QED
      BY <3>1, <3>2
  <2> QED
    BY <1>0, <2>1, <2>2, DropKept
<1> QED
  BY <1>1, <1>2, <1>3, <1>4 DEF SendStep

\* What everybody else does: the counters stay, and frames reach no channel.
LEMMA OthersAside ==
  ASSUME BusInv, [Next]_vars, ~\E t \in Senders : SendCall(t) \/ SendStep(t)
  PROVE  /\ UNCHANGED <<metrics, accepted, sends, frame, done>>
         /\ \A t \in Senders : pc'[t] = pc[t] /\ idx'[t] = idx[t]
         /\ \/ UNCHANGED <<subs, policy, base>> /\ (Open' => Open)
            \/ (\A t \in Senders : pc[t] \notin Inside) /\ UNCHANGED <<policy, base>> /\ subs' = <<>> /\ ~Open'
            \/ \E s \in Subs : Subscribe(s) /\ (\A t \in Senders : pc[t] \notin Inside) /\ (Open' => Open)
<1> USE DEF lockVars, busVars, threadVars, history
<1>0. DOMAIN ch = Subs /\ (\A s \in Subs : DOMAIN ch[s] = {"buf", "closed"}) /\ closed \in BOOLEAN
  BY DEF BusInv, LockInv, Shapes
<1>1. CASE UNCHANGED vars
  BY <1>1 DEF vars, Open
<1>2. ASSUME NEW t \in Closers \cup Drainers,
             CloseAgain(t) \/ CloseEnter(t) \/ CloseChannel(t) \/ CloseCall(t)
               \/ (t \in Drainers /\ (DrainStep(t) \/ DrainCall(t) \/ Deadline(t)))
      PROVE  /\ UNCHANGED <<metrics, accepted, sends, frame, done, subs, policy, base>>
             /\ \A u \in Senders : pc'[u] = pc[u] /\ idx'[u] = idx[u]
             /\ Open' => Open
  <2>1. t \notin Senders /\ DOMAIN pc = Threads /\ DOMAIN idx = Threads
    BY VirtualBusAssumption, BusFacts DEF VirtualBusAssumption
  <2>2. /\ UNCHANGED <<metrics, accepted, sends, frame, done, subs, policy, base>>
        /\ \A u \in Senders : pc'[u] = pc[u] /\ idx'[u] = idx[u]
    BY <1>2, <2>1 DEF CloseAgain, CloseEnter, CloseChannel, CloseCall, DrainStep, DrainTimeout, DrainScan,
       ScanEmpty, ScanNotEmpty, ScanDone, DrainCall, Deadline, GoTo, Advance, Threads
  <2>3. (closed => closed') /\ \A s \in Subs : ch[s].closed => ch'[s].closed
    BY <1>0, <1>2 DEF CloseAgain, CloseEnter, CloseChannel, CloseCall, DrainStep, DrainTimeout, DrainScan,
       ScanEmpty, ScanNotEmpty, ScanDone, DrainCall, Deadline
  <2> QED
    BY <2>2, <2>3 DEF Open
<1>3. ASSUME NEW t \in Closers \cup Drainers, CloseReturn(t)
      PROVE  /\ UNCHANGED <<metrics, accepted, sends, frame, done, policy, base>> /\ subs' = <<>>
             /\ \A u \in Senders : pc'[u] = pc[u] /\ idx'[u] = idx[u]
             /\ \A u \in Senders : pc[u] \notin Inside
             /\ ~Open'
  <2>1. t \notin Senders /\ t \in Threads /\ DOMAIN pc = Threads /\ pc[t] = "closing"
    BY <1>3, VirtualBusAssumption, BusFacts DEF VirtualBusAssumption, CloseReturn, Threads
  <2>2. closed
    BY <2>1, VirtualBusAssumption DEF VirtualBusAssumption, BusInv, LockInv, Lock
  <2>3. \A u \in Senders : pc[u] \notin Inside
    BY <2>2 DEF BusInv, LockInv, Lock
  <2> QED
    BY <1>3, <2>1, <2>2, <2>3 DEF CloseReturn, GoTo, Open, Threads
<1>4. ASSUME NEW s \in Subs, Subscribe(s)
      PROVE  /\ UNCHANGED <<metrics, accepted, sends, frame, done, pc, idx>>
             /\ \A u \in Senders : pc[u] \notin Inside
             /\ Open' => Open
  <2>1. readers = {}
    BY <1>4 DEF Subscribe, Free
  <2> QED
    BY <1>4, <2>1 DEF Subscribe, Open, BusInv, LockInv, Lock, Threads
<1>5. ASSUME NEW s \in Subs, Recv(s) \/ SelfClose(s)
      PROVE  UNCHANGED <<metrics, accepted, sends, frame, done, pc, idx, subs, policy, base>> /\ (Open' => Open)
  <2>1. \A u \in Subs : ch[u].closed => ch'[u].closed
    BY <1>0, <1>5 DEF Recv, SelfClose
  <2> QED
    BY <1>5, <2>1 DEF Recv, SelfClose, Open
<1>6. ASSUME NEW t \in Closers, CloseCall(t)
      PROVE  t \in Closers \cup Drainers
  OBVIOUS
<1>7. CASE \E t \in Closers \cup Drainers : CloseReturn(t)
  BY <1>3, <1>7
<1>8. CASE \E t \in Closers \cup Drainers :
             CloseAgain(t) \/ CloseEnter(t) \/ CloseChannel(t) \/ CloseCall(t)
               \/ (t \in Drainers /\ (DrainStep(t) \/ DrainCall(t) \/ Deadline(t)))
  BY <1>2, <1>8
<1>9. CASE \E s \in Subs : Subscribe(s)
  BY <1>4, <1>9
<1>10. CASE \E s \in Subs : Recv(s) \/ SelfClose(s)
  BY <1>5, <1>10
<1> QED
  BY <1>1, <1>7, <1>8, <1>9, <1>10 DEF Next, Step, CloseStep

LEMMA OthersKeepCount ==
  ASSUME BusInv, CountInv, [Next]_vars, ~\E t \in Senders : SendCall(t) \/ SendStep(t)
  PROVE  CountInv'
<1>1. /\ UNCHANGED <<metrics, accepted, sends, frame, done>>
      /\ \A t \in Senders : pc'[t] = pc[t] /\ idx'[t] = idx[t]
      /\ \/ UNCHANGED <<subs, policy, base>> /\ (Open' => Open)
         \/ (\A t \in Senders : pc[t] \notin Inside) /\ UNCHANGED <<policy, base>> /\ subs' = <<>> /\ ~Open'
         \/ \E s \in Subs : Subscribe(s) /\ (\A t \in Senders : pc[t] \notin Inside) /\ (Open' => Open)
  BY OthersAside
<1>2. EnterInv'
  <2>1. Entered' = Entered /\ Uncounted' = Uncounted
    BY <1>1 DEF Entered, Uncounted
  <2> QED
    BY <1>1, <2>1 DEF CountInv, EnterInv
<1>3. CASE UNCHANGED <<subs, policy, base>> /\ (Open' => Open)
  <2>1. Based' /\ Standing'
    BY <1>1, <1>3 DEF CountInv, Based, Standing, Stands, MatchesAny
  <2>2. \A s \in Subs : \A t \in Senders : Served(t, s)' <=> Served(t, s)
    BY <1>1, <1>3 DEF Served
  <2>3. \A s \in Subs : \A f \in Entries : Miss(s, f)' <=> Miss(s, f)
    BY <1>1, <1>3, <2>2 DEF Miss, Subscribed, MatchesAny
  <2> QED
    BY <1>1, <1>2, <1>3, <2>1, <2>3, DropKept DEF CountInv
<1>4. CASE (\A t \in Senders : pc[t] \notin Inside) /\ UNCHANGED <<policy, base>> /\ subs' = <<>> /\ ~Open'
  <2>1. Based' /\ Standing'
    BY <1>1, <1>4 DEF CountInv, Based, Standing, Inside
  <2> QED
    BY <1>2, <1>4, <2>1 DEF CountInv, DropInv
<1>5. CASE \E s \in Subs : Subscribe(s) /\ (\A t \in Senders : pc[t] \notin Inside) /\ (Open' => Open)
  <2>1. PICK s \in Subs : Subscribe(s) /\ (\A t \in Senders : pc[t] \notin Inside) /\ (Open' => Open)
    BY <1>5
  <2>2. /\ subs' = Append(subs, s) /\ ~Subscribed(s)
        /\ \A u \in Subs : u # s => policy'[u] = policy[u] /\ base'[u] = base[u]
        /\ \A t \in Senders : base'[s][t] = IF pc[t] = "idle" THEN sends[t] ELSE sends[t] - 1
    BY <2>1 DEF Subscribe, BusInv, DeliveryInv, Finished
  <2>3. \A t \in Senders : sends[t] \in Nat
    BY BusFacts
  <2>4. Based'
    BY <1>1, <2>2, <2>3 DEF CountInv, Based
  <2>5. Standing'
    BY <1>1, <2>1 DEF Standing, Inside
  <2>6. \A u \in Subs : \A t \in Senders : ~Served(t, u) /\ ~Served(t, u)'
    BY <1>1, <2>1 DEF Served, Inside
  <2>7. \A u \in Subs : u # s => (Subscribed(u)' <=> Subscribed(u))
    <3>1. ToSet(Append(subs, s)) = ToSet(subs) \cup {s}
      BY BusFacts, Appended
    <3> QED
      BY <2>2, <3>1 DEF Subscribed
  <2>8. ASSUME NEW f \in Entries PROVE Miss(s, f)' <=> Miss(s, f)
    <3>1. ~Miss(s, f)
      BY <2>2 DEF Miss
    <3>2. ASSUME NEW t \in Senders, f \in done[t] PROVE ~(f.n > base'[s][t])
      <4>1. f.n \in Nat /\ sends[t] \in Nat /\ f.n <= sends[t] /\ (pc[t] # "idle" => f.n < sends[t])
        BY <3>2, BusFacts
      <4> QED
        BY <2>2, <4>1
    <3>3. ~Miss(s, f)'
      BY <1>1, <2>6, <3>2 DEF Miss
    <3> QED
      BY <3>1, <3>3
  <2>9. ASSUME NEW u \in Subs, NEW f \in Entries, u # s PROVE Miss(u, f)' <=> Miss(u, f)
    BY <1>1, <2>2, <2>6, <2>7, <2>9 DEF Miss, MatchesAny
  <2>10. DropInv'
    BY <1>1, <2>1, <2>8, <2>9, DropKept DEF CountInv
  <2> QED
    BY <1>2, <2>4, <2>5, <2>10 DEF CountInv
<1> QED
  BY <1>1, <1>3, <1>4, <1>5

\* One frame more, and one send more that has still to count it.
LEMMA SendsKeepEntered ==
  ASSUME BusInv, EnterInv, NEW t \in Senders, SendStep(t) \/ SendCall(t)
  PROVE  EnterInv'
<1> USE DEF lockVars, busVars, threadVars, history
<1> DEFINE D == {u \in Senders : pc[u] = "deliver"}
<1>0. /\ t \in Threads /\ DOMAIN pc = Threads /\ DOMAIN accepted = Subs
      /\ metrics \in [Counters -> Nat] /\ \A u \in Senders : u \in Threads
  BY BusFacts
<1>1. IsFiniteSet(D) /\ Cardinality(D) \in Nat /\ Uncounted = Cardinality(D)
  <2>1. IsFiniteSet(Threads) /\ D \subseteq Threads
    BY VirtualBusAssumption DEF VirtualBusAssumption, Threads
  <2> QED
    BY <2>1, FS_Subset, FS_CardinalityType DEF Uncounted
<1>2. IsFiniteSet(Entered) /\ Cardinality(Entered) \in Nat /\ metrics.deliver \in Nat
      /\ Cardinality(Entered) <= metrics.deliver + Cardinality(D)
  BY <1>0, <1>1, FS_CardinalityType DEF EnterInv, Counters
<1>3. Uncounted' = Cardinality({u \in Senders : pc'[u] = "deliver"})
  BY DEF Uncounted
<1> DEFINE D2 == {u \in Senders : pc'[u] = "deliver"}
<1>4. CASE SendCall(t) \/ SendInvalid(t) \/ SendClosed(t) \/ SendEnter(t) \/ Skip(t) \/ SendReturn(t)
  <2>1. /\ UNCHANGED accepted /\ pc[t] # "deliver" /\ pc'[t] # "deliver"
        /\ \A u \in Threads : u # t => pc'[u] = pc[u]
    BY <1>0, <1>4 DEF SendCall, SendInvalid, SendClosed, SendEnter, Skip, SendReturn, InLoop, GoTo, Return
  <2>2. metrics'.deliver = metrics.deliver
    <3>1. metrics' = metrics \/ \E c \in {"write", "error"} : metrics' = [metrics EXCEPT ![c] = @ + 1]
      BY <1>4 DEF SendCall, SendInvalid, SendClosed, SendEnter, Skip, SendReturn, Count
    <3> QED
      BY <1>0, <3>1 DEF Counters
  <2>3. D2 = D /\ Entered' = Entered
    BY <1>0, <2>1 DEF Entered
  <2> QED
    BY <1>1, <1>2, <1>3, <2>2, <2>3 DEF EnterInv
<1>5. CASE DropNewest(t) \/ DropOldest(t) \/ Block(t)
  <2>1. PICK s \in Subs :
          /\ At(t, s)
          /\ \/ UNCHANGED accepted /\ (pc' = pc \/ pc' = [pc EXCEPT ![t] = "drop"])
             \/ /\ pc' = [pc EXCEPT ![t] = "deliver"]
                /\ UNCHANGED accepted \/ Push(s, frame[t]) \/ Evict(s, frame[t])
    BY <1>5, Zenon DEF DropNewest, DropOldest, Block, GoTo, At
  <2>2. metrics' = metrics
    BY <1>5 DEF DropNewest, DropOldest, Block
  <2>3. pc[t] = "loop"
    BY <2>1, AtFacts
  <2>4. pc' = pc \/ pc' = [pc EXCEPT ![t] = "drop"] => D2 = D
    BY <1>0, <2>3
  <2>5. ASSUME pc' = [pc EXCEPT ![t] = "deliver"] PROVE D2 = D \cup {t} /\ t \notin D
    BY <1>0, <2>3, <2>5
  <2>6. UNCHANGED accepted => Entered' = Entered
    BY DEF Entered
  <2>7. ASSUME Push(s, frame[t]) \/ Evict(s, frame[t])
        PROVE  IsFiniteSet(Entered') /\ Cardinality(Entered') = Cardinality(Entered) + 1
    <3>1. accepted'[s] = Append(accepted[s], frame[t]) /\ \A u \in Subs : u # s => accepted'[u] = accepted[u]
      BY <2>1, <2>7, AtFacts
    <3>2. accepted[s] \in Seq(Entries) /\ frame[t] \in Entries
      BY BusFacts
    <3> DEFINE e == <<s, Len(accepted[s]) + 1>>
    <3>3. /\ DOMAIN accepted[s] = 1..Len(accepted[s]) /\ Len(accepted[s]) \in Nat
          /\ DOMAIN accepted'[s] = DOMAIN accepted[s] \cup {Len(accepted[s]) + 1}
      BY <3>1, <3>2
    <3>4. \A u \in Subs : {u} \X DOMAIN accepted'[u] =
                            ({u} \X DOMAIN accepted[u]) \cup (IF u = s THEN {e} ELSE {})
      BY <3>1, <3>3
    <3>5. e \notin Entered
      BY <3>3 DEF Entered
    <3>6. Entered' = Entered \cup {e}
      BY <3>4 DEF Entered
    <3> HIDE DEF e
    <3>7. IsFiniteSet(Entered \cup {e}) /\ Cardinality(Entered \cup {e}) = Cardinality(Entered) + 1
      BY <1>2, <3>5, FS_AddElement
    <3> QED
      BY <3>6, <3>7
  <2>8. IsFiniteSet(D \cup {t}) /\ (t \notin D => Cardinality(D \cup {t}) = Cardinality(D) + 1)
    BY <1>1, FS_AddElement
  <2> HIDE DEF D, D2
  <2>9. CASE UNCHANGED accepted /\ (pc' = pc \/ pc' = [pc EXCEPT ![t] = "drop"])
    <3>1. D2 = D /\ Entered' = Entered
      BY <2>4, <2>6, <2>9
    <3>2. Uncounted' = Cardinality(D)
      BY <1>3, <3>1 DEF D2
    <3> QED
      BY <1>2, <2>2, <3>1, <3>2 DEF EnterInv
  <2>10. CASE /\ pc' = [pc EXCEPT ![t] = "deliver"]
              /\ UNCHANGED accepted \/ Push(s, frame[t]) \/ Evict(s, frame[t])
    <3>1. Uncounted' = Cardinality(D) + 1
      BY <1>3, <2>5, <2>8, <2>10 DEF D2
    <3>2. IsFiniteSet(Entered') /\ (Cardinality(Entered') = Cardinality(Entered) \/ Cardinality(Entered') = Cardinality(Entered) + 1)
      BY <1>2, <2>6, <2>7, <2>10
    <3>3. Cardinality(Entered') <= metrics'.deliver + Uncounted'
      BY <1>1, <1>2, <2>2, <3>1, <3>2
    <3> QED
      BY <3>2, <3>3 DEF EnterInv
  <2> QED
    BY <2>1, <2>9, <2>10
<1>6. CASE Tally(t)
  <2>1. /\ UNCHANGED accepted /\ pc[t] \in {"deliver", "drop"} /\ pc'[t] = "loop"
        /\ \A u \in Threads : u # t => pc'[u] = pc[u]
        /\ metrics'.deliver = IF pc[t] = "deliver" THEN metrics.deliver + 1 ELSE metrics.deliver
    BY <1>0, <1>6 DEF Tally, GoTo, Count, Counters
  <2>2. Entered' = Entered
    BY <2>1 DEF Entered
  <2>3. D2 = D \ {t} /\ (t \in D <=> pc[t] = "deliver")
    BY <1>0, <2>1
  <2>4. Cardinality(D \ {t}) = IF t \in D THEN Cardinality(D) - 1 ELSE Cardinality(D)
    BY <1>1, FS_RemoveElement
  <2> HIDE DEF D, D2
  <2>5. Uncounted' = IF pc[t] = "deliver" THEN Cardinality(D) - 1 ELSE Cardinality(D)
    BY <1>3, <2>3, <2>4 DEF D2
  <2>6. Cardinality(Entered') <= metrics'.deliver + Uncounted'
    <3>1. PICK c \in Nat, d \in Nat, m \in Nat :
            c = Cardinality(Entered) /\ d = Cardinality(D) /\ m = metrics.deliver /\ c <= m + d
      BY <1>1, <1>2
    <3>2. Cardinality(Entered') = c
      BY <2>2, <3>1
    <3>3. CASE pc[t] = "deliver"
      <4>1. Uncounted' = d - 1 /\ metrics'.deliver = m + 1
        BY <2>1, <2>5, <3>1, <3>3
      <4> QED
        BY <3>1, <3>2, <4>1
    <3>4. CASE pc[t] = "drop"
      <4>1. Uncounted' = d /\ metrics'.deliver = m
        BY <2>1, <2>5, <3>1, <3>4
      <4> QED
        BY <3>1, <3>2, <4>1
    <3> QED
      BY <2>1, <3>3, <3>4
  <2> QED
    BY <1>2, <2>2, <2>6 DEF EnterInv
<1> QED
  BY <1>4, <1>5, <1>6 DEF SendStep

LEMMA SendsKeepStanding ==
  ASSUME BusInv, Based, Standing, NEW t \in Senders, SendStep(t) \/ SendCall(t)
  PROVE  Based' /\ Standing'
<1> USE DEF lockVars, busVars, threadVars, history
<1>0. /\ t \in Threads /\ DOMAIN pc = Threads /\ DOMAIN idx = Threads
      /\ \A u \in Senders : u \in Threads /\ frame[u].src = u
  BY BusFacts
<1>1. /\ UNCHANGED <<base, subs, policy>>
      /\ \A u \in Threads : u # t => pc'[u] = pc[u] /\ idx'[u] = idx[u]
      /\ \A u \in Senders : u # t => frame'[u] = frame[u] /\ sends'[u] = sends[u]
      /\ \/ UNCHANGED <<sends, frame>> /\ pc[t] # "idle"
         \/ sends'[t] = sends[t] + 1 /\ pc'[t] = "send"
  <2>1. CASE SendCall(t)
    BY <1>0, <2>1 DEF SendCall, GoTo, BusInv, OrderInv, Fields
  <2>2. CASE SendStep(t)
    <3>1. UNCHANGED <<base, subs, policy, sends, frame>> /\ pc[t] # "idle"
      BY <2>2 DEF SendStep, SendInvalid, SendClosed, SendEnter, Skip, DropNewest, DropOldest, Block, Tally,
         SendReturn, InLoop
    <3>2. \A u \in Threads : u # t => pc'[u] = pc[u] /\ idx'[u] = idx[u]
      BY <1>0, <2>2 DEF SendStep, SendInvalid, SendClosed, SendEnter, Skip, DropNewest, DropOldest, Block, Tally,
         SendReturn, GoTo, Return, Advance
    <3> QED
      BY <3>1, <3>2
  <2> QED
    BY <2>1, <2>2
<1>2. Based'
  <2>1. \A s \in Subs : \A u \in Senders : base[s][u] \in Nat /\ sends[u] \in Nat
    BY BusFacts
  <2> QED
    BY <1>0, <1>1, <2>1 DEF Based
<1>3. \A u \in Senders : u # t /\ pc[u] \in {"deliver", "drop"} => Stands(u, subs[idx[u]])'
  <2> SUFFICES ASSUME NEW u \in Senders, u # t, pc[u] \in {"deliver", "drop"}
               PROVE  Stands(u, subs[idx[u]])'
    OBVIOUS
  <2>1. PICK w \in Subs : subs[idx[u]] = w /\ Stands(u, w)
    BY BusFacts DEF Standing
  <2>2. pc'[u] = pc[u] /\ idx'[u] = idx[u] /\ frame'[u] = frame[u] /\ policy' = policy /\ subs' = subs
    BY <1>0, <1>1
  <2>3. frame[u] \in ToSet(accepted'[w]) <=> frame[u] \in ToSet(accepted[w])
    <3>1. CASE accepted' = accepted
      BY <3>1
    <3>2. CASE DropNewest(t) \/ DropOldest(t) \/ Block(t)
      <4>1. PICK s \in Subs : At(t, s)
        BY <3>2, Zenon DEF DropNewest, DropOldest, Block, At
      <4>2. \/ accepted'[w] = accepted[w]
            \/ ToSet(accepted'[w]) = ToSet(accepted[w]) \cup {frame[t]}
        BY <4>1, AtFacts
      <4>3. frame[u] # frame[t]
        BY <1>0
      <4> QED
        BY <4>2, <4>3
    <3> QED
      BY <3>1, <3>2 DEF SendStep, SendCall, SendInvalid, SendClosed, SendEnter, Skip, Tally, SendReturn
  <2>4. Stands(u, w)'
    BY <2>1, <2>2, <2>3 DEF Stands, MatchesAny
  <2>5. subs'[idx'[u]] = w
    BY <2>1, <2>2
  <2> QED
    BY <2>4, <2>5 DEF Stands, MatchesAny
<1>4. ASSUME pc'[t] \in {"deliver", "drop"}
      PROVE  idx'[t] \in DOMAIN subs' /\ Stands(t, subs[idx[t]])'
  <2>1. DropNewest(t) \/ DropOldest(t) \/ Block(t)
    BY <1>0, <1>4 DEF SendStep, SendCall, SendInvalid, SendClosed, SendEnter, Skip, Tally, SendReturn, GoTo, Return, InLoop
  <2>2. PICK s \in Subs :
          /\ At(t, s) /\ MatchesAny(s, frame[t])
          /\ \/ pc' = pc
             \/ /\ pc' = [pc EXCEPT ![t] = "drop"] /\ idx' = idx
                /\ policy[s] = "DropNewest" /\ UNCHANGED accepted
             \/ /\ pc' = [pc EXCEPT ![t] = "deliver"] /\ idx' = idx
                /\ policy[s] # "DropNewest" \/ Push(s, frame[t])
    BY <2>1, Zenon DEF DropNewest, DropOldest, Block, GoTo, At
  <2>3. /\ pc[t] = "loop" /\ idx[t] \in DOMAIN subs /\ subs[idx[t]] = s
        /\ frame[t] \notin ToSet(accepted[s])
        /\ Push(s, frame[t]) => frame[t] \in ToSet(accepted'[s])
    BY <2>2, AtFacts
  <2>4. frame' = frame
    BY <2>1 DEF DropNewest, DropOldest, Block
  <2>5. Stands(t, s)'
    BY <1>0, <1>1, <1>4, <2>2, <2>3, <2>4 DEF Stands, MatchesAny
  <2>6. subs'[idx'[t]] = s /\ idx'[t] \in DOMAIN subs'
    BY <1>0, <1>1, <1>4, <2>2, <2>3
  <2> QED
    BY <2>5, <2>6 DEF Stands, MatchesAny
<1>5. Standing'
  BY <1>0, <1>1, <1>3, <1>4 DEF Standing
<1> QED
  BY <1>2, <1>5

LEMMA CountNext == BusInv /\ CountInv /\ [Next]_vars => CountInv'
  BY SendsKeepDrops, SendsKeepEntered, SendsKeepStanding, OthersKeepCount DEF CountInv

\* With no send under way drop_count is the number of frames the open DropNewest
\* subscriptions missed, and deliver_count never falls behind the frames that entered a
\* channel by more than the sends that have still to update it (bus.cpp:51-71).
THEOREM CountsAgree == Spec => []CountersAgree
<1>1. BusInv /\ CountInv => CountersAgree
  <2> SUFFICES ASSUME BusInv, CountInv PROVE CountersAgree
    OBVIOUS
  <2>1. Cardinality(Entered) <= metrics.deliver + Uncounted
    BY DEF CountInv, EnterInv
  <2>2. ASSUME readers = {}, ~closed, \A s \in Subs : ~ch[s].closed
        PROVE  metrics.drop = Cardinality(Dropped)
    <3>1. metrics.drop = Cardinality(Misses)
      BY <2>2 DEF CountInv, DropInv, Open
    <3>2. \A s \in Subs : \A t \in Senders : ~Served(t, s)
      BY <2>2 DEF BusInv, LockInv, Lock, Inside, Served, Threads
    <3>3. \A s : s \in ToSet(subs) => s \in Subs
      BY BusFacts DEF ToSet
    <3>4. ASSUME NEW s \in Subs, NEW f
          PROVE  (f \in Entries /\ Miss(s, f)) <=> (Subscribed(s) /\ policy[s] = "DropNewest" /\ f \in Missed(s))
      <4>1. ASSUME NEW t \in Senders, f \in done[t] PROVE f.src = t /\ f \in Entries
        BY <4>1, BusFacts
      <4>2. (\E t \in Senders : f \in done[t] /\ f.n > base[s][t])
              <=> f \in UNION {done[t] : t \in Senders} /\ f.n > base[s][f.src]
        BY <4>1
      <4> QED
        BY <3>2, <4>1, <4>2 DEF Miss, Missed
    <3>5. Dropped = Misses
      <4>1. Dropped \subseteq Misses
        BY <3>3, <3>4 DEF Dropped, Misses, Subscribed
      <4>2. Misses \subseteq Dropped
        BY <3>3, <3>4 DEF Dropped, Misses, Subscribed
      <4> QED
        BY <4>1, <4>2
    <3> QED
      BY <3>1, <3>5
  <2> QED
    BY <2>1, <2>2 DEF CountersAgree
<1> QED
  BY <1>1, DeliveryInvariance, BoundsInit, BoundsNext, CountInit, CountNext, PTL DEF Spec, BusInv
====================================================================================
