------------------------------ MODULE RelayNodeProofs ------------------------------
(***************************************************************************)
(* Proofs about RelayNode and the SocketCan bus under it, for any number of  *)
(* senders, closers and subscribers and any traffic: the reader owns the     *)
(* socket while it reads, what close leaves behind, nothing is sent after    *)
(* it, the numbering of the messages, that frames are written and handed on  *)
(* field by field, and the types.                                            *)
(***************************************************************************)
EXTENDS RelayNode, SequenceLemmas, FiniteSetTheorems, TLAPS

-----------------------------------------------------------------------------
(* The close protocol *)

SenderPlaces == {"idle", "encode", "write"}
CloserPlaces == {"idle", "stop", "join", "close_fd", "clear_fd", "close_channels", "closed"}

\* What the places of a thread may be, and the channels.
Places ==
  /\ pc = [t \in Senders \cup Closers |-> pc[t]]
  /\ \A t \in Senders : pc[t] \in SenderPlaces
  /\ \A t \in Closers : pc[t] \in CloserPlaces
  /\ reader \in {"top", "read", "fan", "done"}
  /\ sock \in {"open", "closed"} /\ fd \in {"socket", "none"}
  /\ got \in Nat
  /\ ch \in [Subs -> [buf : Seq(Nat), closed : BOOLEAN]]

\* One thread is inside close, and what it has done by the place it is at.
Protocol ==
  /\ \A c, d \in Closing : c = d
  /\ Closing # {} => closed
  /\ \A c \in Closers : pc[c] \in {"close_fd", "clear_fd", "close_channels"} => reader = "done"
  /\ \A c \in Closers : pc[c] \in {"clear_fd", "close_channels"} => sock = "closed"
  /\ \A c \in Closers : pc[c] = "close_channels" => fd = "none"
  /\ sock = "closed" => reader = "done"
  /\ fd = "none" => sock = "closed"
  /\ closed /\ Closing = {} =>
       reader = "done" /\ sock = "closed" /\ fd = "none" /\ subs = {}

\* A channel that has been handed out is in subs_ until it is closed.
HandedOut ==
  /\ bridge = [s \in Subs |-> bridge[s]]
  /\ \A s \in Subscribed : s \in subs \/ ch[s].closed

CloseInv == Places /\ Protocol /\ HandedOut

LEMMA CloseInit == Init => CloseInv
  BY SocketCanAssumption
  DEF SocketCanAssumption, Init, BusInit, CloseInv, Places, Protocol, HandedOut, Closing, Subscribed,
      SenderPlaces, CloserPlaces

\* Steps that leave the threads' places, the socket and the subscriptions alone.
LEMMA Undisturbed ==
  ASSUME CloseInv, UNCHANGED <<sock, fd, closed, subs, pc, bridge>>,
         reader' \in {"top", "read", "fan", "done"}, reader = "done" => reader' = "done",
         got' \in Nat, ch' \in [Subs -> [buf : Seq(Nat), closed : BOOLEAN]],
         \A s \in Subs : ch[s].closed => ch'[s].closed
  PROVE  CloseInv'
<1>1. Places'
  BY DEF CloseInv, Places
<1>2. Protocol'
  BY DEF CloseInv, Protocol, Closing
<1>3. HandedOut'
  BY DEF CloseInv, HandedOut, Subscribed
<1> QED
  BY <1>1, <1>2, <1>3 DEF CloseInv

\* The steps of a sender move it among its own places.
LEMMA SenderMoves ==
  ASSUME CloseInv, NEW t \in Senders, NEW place \in SenderPlaces,
         UNCHANGED <<sock, fd, closed, subs, ch, reader, got, bridge>>,
         pc' = [pc EXCEPT ![t] = place]
  PROVE  CloseInv'
<1>1. \A c \in Closers : pc'[c] = pc[c]
  BY SocketCanAssumption DEF SocketCanAssumption, CloseInv, Places
<1>2. Places'
  BY <1>1 DEF CloseInv, Places
<1>3. Closing' = Closing
  BY <1>1 DEF Closing
<1>4. Protocol'
  BY <1>1, <1>3 DEF CloseInv, Protocol
<1>5. HandedOut'
  BY DEF CloseInv, HandedOut, Subscribed
<1> QED
  BY <1>2, <1>4, <1>5 DEF CloseInv

\* Every step of close.
LEMMA CloserMoves ==
  ASSUME CloseInv, NEW c \in Closers, UNCHANGED nodeVars,
         CloseAgain(c) \/ CloseEnter(c) \/ CloseStep(c)
  PROVE  CloseInv'
<1> DEFINE next == pc'[c]
<1>1. /\ next \in CloserPlaces
      /\ pc' = [pc EXCEPT ![c] = next]
      /\ UNCHANGED <<reader, got, bridge>>
  BY DEF CloseInv, Places, CloseAgain, CloseEnter, CloseStep, StopReader, JoinReader, CloseFd, ClearFd,
         CloseChannels, GoTo, readVars, nodeVars, CloserPlaces
<1>2. \A d \in Closers : d # c => pc'[d] = pc[d]
  BY <1>1 DEF CloseInv, Places
<1>3. Places'
  <2>1. sock' \in {"open", "closed"} /\ fd' \in {"socket", "none"}
    BY DEF CloseInv, Places, CloseAgain, CloseEnter, CloseStep, StopReader, JoinReader, CloseFd, ClearFd,
           CloseChannels, busVars
  <2>2. ch' \in [Subs -> [buf : Seq(Nat), closed : BOOLEAN]]
    BY DEF CloseInv, Places, CloseAgain, CloseEnter, CloseStep, StopReader, JoinReader, CloseFd, ClearFd,
           CloseChannels, busVars
  <2>3. \A t \in Senders : pc'[t] = pc[t]
    BY <1>1, SocketCanAssumption DEF SocketCanAssumption, CloseInv, Places
  <2> QED
    BY <1>1, <1>2, <2>1, <2>2, <2>3 DEF CloseInv, Places
<1>4. ASSUME pc[c] \notin {"idle", "closed"}
      PROVE  /\ closed /\ Closing = {c}
             /\ Closing' = IF next \in {"idle", "closed"} THEN {} ELSE {c}
  <2>1. \A d \in Closers : d # c => pc[d] \in {"idle", "closed"}
    BY <1>4 DEF CloseInv, Protocol, Closing
  <2> QED
    BY <1>1, <1>2, <1>4, <2>1 DEF CloseInv, Protocol, Closing, Places
<1>5. Protocol' /\ HandedOut'
  <2> USE <1>1, <1>2 DEF CloseInv, Places, Protocol, HandedOut, Subscribed, GoTo, busVars, nodeVars
  <2>1. CASE CloseAgain(c)
    <3>1. Closing' = Closing
      BY <2>1 DEF CloseAgain, Closing
    <3> QED
      BY <2>1, <3>1 DEF CloseAgain
  <2>2. CASE CloseEnter(c)
    <3>1. Closing' = {c} /\ closed'
      BY <2>2 DEF CloseEnter, Closing
    <3> QED
      BY <2>2, <3>1 DEF CloseEnter, Closing
  <2>3. CASE StopReader(c)
    BY <1>4, <2>3 DEF StopReader
  <2>4. CASE JoinReader(c)
    BY <1>4, <2>4 DEF JoinReader
  <2>5. CASE CloseFd(c)
    BY <1>4, <2>5 DEF CloseFd
  <2>6. CASE ClearFd(c)
    BY <1>4, <2>6 DEF ClearFd
  <2>7. CASE CloseChannels(c)
    BY <1>4, <2>7 DEF CloseChannels
  <2> QED
    BY <2>1, <2>2, <2>3, <2>4, <2>5, <2>6, <2>7 DEF CloseStep
<1> QED
  BY <1>3, <1>5 DEF CloseInv

\* What leaves the socket, the subscriptions and the bridges' places alone.
LEMMA SendKeeps ==
  ASSUME CloseInv, UNCHANGED nodeVars, NEW t \in Senders,
         SendStep(t) \/ \E f : SendRefused(t, f) \/ SendClosed(t, f) \/ SendEnter(t, f)
  PROVE  CloseInv'
<1>1. UNCHANGED <<sock, fd, closed, subs, ch, reader, got, bridge>>
  BY DEF SendStep, LoadFd, Write, SendRefused, SendClosed, SendEnter, busVars, readVars, nodeVars
<1>2. \/ pc' = pc
      \/ \E place \in SenderPlaces : pc' = [pc EXCEPT ![t] = place]
  BY DEF SendStep, LoadFd, Write, SendRefused, SendClosed, SendEnter, GoTo, SenderPlaces
<1>3. CASE pc' = pc
  BY <1>1, <1>3, Undisturbed DEF CloseInv, Places
<1>4. CASE \E place \in SenderPlaces : pc' = [pc EXCEPT ![t] = place]
  BY <1>1, <1>4, SenderMoves
<1> QED
  BY <1>2, <1>3, <1>4

LEMMA ReaderKeeps ==
  ASSUME CloseInv, UNCHANGED nodeVars, ReaderStep \/ ReadFails
  PROVE  CloseInv'
<1>1. UNCHANGED <<sock, fd, closed, subs, pc, bridge>>
  BY DEF ReaderStep, ReaderTop, ReadFrame, ReadTimeout, ReadFails, FanOut, busVars, threadVars, nodeVars
<1>2. reader' \in {"top", "read", "fan", "done"} /\ (reader = "done" => reader' = "done")
  BY DEF ReaderStep, ReaderTop, ReadFrame, ReadTimeout, ReadFails, FanOut
<1>3. got' \in Nat
  BY DEF ReaderStep, ReaderTop, ReadFrame, ReadTimeout, ReadFails, FanOut, CloseInv, Places
<1>4. /\ ch' \in [Subs -> [buf : Seq(Nat), closed : BOOLEAN]]
      /\ \A s \in Subs : ch[s].closed => ch'[s].closed
  <2>1. CASE UNCHANGED ch
    BY <2>1 DEF CloseInv, Places
  <2>2. CASE FanOut
    <3>1. ASSUME NEW u \in Subs
          PROVE  /\ ch'[u] = ch[u] \/ ch'[u] = [ch[u] EXCEPT !.buf = Append(@, got)]
      BY <2>2 DEF FanOut, CloseInv, Places
    <3>2. ASSUME NEW u \in Subs
          PROVE  ch[u] \in [buf : Seq(Nat), closed : BOOLEAN] /\ Append(ch[u].buf, got) \in Seq(Nat)
      BY DEF CloseInv, Places
    <3>3. ASSUME NEW u \in Subs
          PROVE  ch'[u] \in [buf : Seq(Nat), closed : BOOLEAN] /\ ch'[u].closed = ch[u].closed
      BY <3>1, <3>2
    <3>4. ch' = [u \in Subs |-> ch'[u]]
      BY <2>2 DEF FanOut
    <3> QED
      BY <3>3, <3>4
  <2> QED
    BY <2>1, <2>2 DEF ReaderStep, ReaderTop, ReadFrame, ReadTimeout, ReadFails, busVars
<1> QED
  BY <1>1, <1>2, <1>3, <1>4, Undisturbed

LEMMA SubscribeKeeps ==
  ASSUME CloseInv, NEW s \in Subs, NodeSubscribe(s)
  PROVE  CloseInv'
<1>1. /\ ~closed /\ subs' = subs \cup {s} /\ bridge' = [bridge EXCEPT ![s] = "recv"]
      /\ UNCHANGED <<sock, fd, closed, ch, reader, got, pc>>
  BY DEF NodeSubscribe, Subscribe, readVars, threadVars
<1> QED
  BY <1>1 DEF CloseInv, Places, Protocol, HandedOut, Closing, Subscribed

LEMMA BridgeKeeps ==
  ASSUME CloseInv, NEW s \in Subs, BridgeStep(s) \/ Recv(s) \/ Leave(s)
  PROVE  CloseInv'
<1>1. UNCHANGED <<sock, fd, closed, subs, pc, reader, got>>
  BY DEF BridgeStep, BridgeRecv, Stamp, Push, BridgeEnd, Recv, Leave, socketVars, busVars, readVars, threadVars
<1>2. /\ ch' \in [Subs -> [buf : Seq(Nat), closed : BOOLEAN]]
      /\ \A u \in Subs : ch'[u].closed = ch[u].closed
  <2>1. CASE UNCHANGED ch
    BY <2>1 DEF CloseInv, Places
  <2>2. CASE BridgeRecv(s)
    <3>1. ch[s] \in [buf : Seq(Nat), closed : BOOLEAN] /\ ch[s].buf # <<>>
      BY <2>2 DEF BridgeRecv, CloseInv, Places
    <3>2. Tail(ch[s].buf) \in Seq(Nat)
      BY <3>1
    <3>3. ch' = [ch EXCEPT ![s] = [ch[s] EXCEPT !.buf = Tail(ch[s].buf)]]
      BY <2>2, <3>1 DEF BridgeRecv, CloseInv, Places
    <3>4. [ch[s] EXCEPT !.buf = Tail(ch[s].buf)] \in [buf : Seq(Nat), closed : BOOLEAN]
          /\ [ch[s] EXCEPT !.buf = Tail(ch[s].buf)].closed = ch[s].closed
      BY <3>1, <3>2
    <3> QED
      BY <3>3, <3>4 DEF CloseInv, Places
  <2> QED
    BY <2>1, <2>2 DEF BridgeStep, Stamp, Push, BridgeEnd, Recv, Leave, socketVars, busVars
<1>3. bridge' = [u \in Subs |-> bridge'[u]] /\ Subscribed' = Subscribed
  BY DEF BridgeStep, BridgeRecv, Stamp, Push, BridgeEnd, Recv, Leave, CloseInv, HandedOut, Subscribed
<1>4. Places' /\ Protocol'
  BY <1>1, <1>2 DEF CloseInv, Places, Protocol, Closing
<1>5. HandedOut'
  BY <1>1, <1>2, <1>3 DEF CloseInv, HandedOut, Subscribed
<1> QED
  BY <1>4, <1>5 DEF CloseInv

LEMMA CloseNext == CloseInv /\ [Next]_vars => CloseInv'
<1> SUFFICES ASSUME CloseInv, [Next]_vars PROVE CloseInv'
  OBVIOUS
<1>1. CASE UNCHANGED vars
  BY <1>1, Undisturbed DEF vars, socketVars, busVars, readVars, threadVars, nodeVars, CloseInv, Places
<1>2. CASE BusNext /\ UNCHANGED nodeVars
  BY <1>2, SendKeeps, CloserMoves, ReaderKeeps DEF BusNext
<1>3. ASSUME NEW t \in Senders, NEW m \in Messages, NodeSendInvalid(t, m) PROVE CloseInv'
  BY <1>3, Undisturbed DEF NodeSendInvalid, busVars, readVars, nodeVars, CloseInv, Places
<1>4. ASSUME NEW t \in Senders, NEW m \in Messages, NodeSend(t, m) PROVE CloseInv'
  <2>1. \E f : SendRefused(t, f) \/ SendClosed(t, f) \/ SendEnter(t, f)
    BY <1>4 DEF NodeSend
  <2> QED
    BY <1>4, <2>1, SendKeeps DEF NodeSend
<1>5. ASSUME NEW s \in Subs, NodeSubscribe(s) \/ BridgeStep(s) \/ Recv(s) \/ Leave(s) PROVE CloseInv'
  BY <1>5, SubscribeKeeps, BridgeKeeps
<1> QED
  BY <1>1, <1>2, <1>3, <1>4, <1>5 DEF Next

LEMMA CloseInvariance == Spec => []CloseInv
  BY CloseInit, CloseNext, PTL DEF Spec

\* The reader reads only from a socket the bus owns (bus.cpp:153-158, 171).
THEOREM ReaderOwns == Spec => []ReaderOwnsSocket
<1>1. CloseInv => ReaderOwnsSocket
  BY DEF CloseInv, Places, Protocol, ReaderOwnsSocket
<1> QED
  BY <1>1, CloseInvariance, PTL

\* When the close that did the work has returned, nothing of the bus is left
\* (bus.cpp:146-164).
THEOREM ClosesCompletely == Spec => []CloseComplete
<1>1. CloseInv => CloseComplete
  BY DEF CloseInv, Protocol, HandedOut, CloseComplete, CloseIsComplete
<1> QED
  BY <1>1, CloseInvariance, PTL

\* Nothing reaches the wire once that close has returned, although a send may
\* still hold a descriptor it loaded before (bus.cpp:96-115, 155-158).
THEOREM SilentAfterClose == Spec => NothingSentAfterClose
<1>1. CloseInv /\ [Next]_vars => [closed /\ Closing = {} => wire' = wire]_socketVars
  <2> SUFFICES ASSUME CloseInv, [Next]_vars, closed, Closing = {} PROVE wire' = wire
    OBVIOUS
  <2>1. sock = "closed"
    BY DEF CloseInv, Protocol
  <2>2. CASE UNCHANGED vars
    BY <2>2 DEF vars, socketVars, threadVars
  <2>3. ASSUME NEW t \in Senders, Write(t) PROVE wire' = wire
    BY <2>1, <2>3 DEF Write
  <2>4. CASE BusNext /\ UNCHANGED nodeVars
    BY <2>3, <2>4 DEF BusNext, SendStep, LoadFd, SendRefused, SendClosed, SendEnter, CloseAgain, CloseEnter,
       CloseStep, StopReader, JoinReader, CloseFd, ClearFd, CloseChannels, ReaderStep, ReaderTop, ReadFrame,
       ReadTimeout, ReadFails, FanOut, threadVars
  <2>5. ASSUME NEW t \in Senders, NEW m \in Messages, NodeSendInvalid(t, m) \/ NodeSend(t, m)
        PROVE  wire' = wire
    BY <2>5 DEF NodeSendInvalid, NodeSend, SendRefused, SendClosed, SendEnter
  <2>6. ASSUME NEW s \in Subs, NodeSubscribe(s) \/ BridgeStep(s) \/ Recv(s) \/ Leave(s)
        PROVE  wire' = wire
    BY <2>6 DEF NodeSubscribe, Subscribe, BridgeStep, BridgeRecv, Stamp, Push, BridgeEnd, Recv, Leave,
       socketVars, threadVars
  <2> QED
    BY <2>2, <2>4, <2>5, <2>6 DEF Next
<1> QED
  BY <1>1, CloseInvariance, PTL DEF Spec, NothingSentAfterClose
-----------------------------------------------------------------------------
(* The order of the messages *)

\* What a bridge holds: the place of the frame in Traffic, the message, its number.
Held == [i : Nat, body : {ToMessage(Decode(Traffic[j])) : j \in Nat}, seq : Nat]

Holds(s) == bridge[s] \in {"stamp", "push"}

\* A frame that has been read and, if the reader holds one, is older than that one.
Older(i) == i \in Nat /\ i <= got /\ (reader = "fan" => i < got)

OrderTypes ==
  /\ seq \in Nat /\ got \in Nat
  /\ DOMAIN ch = Subs /\ \A s \in Subs : DOMAIN ch[s] = {"buf", "closed"} /\ ch[s].buf \in Seq(Nat)
  /\ DOMAIN bridge = Subs /\ DOMAIN msg = Subs
  /\ emitted \in [Subs -> Seq(Held)]
  /\ \A s \in Subs : Holds(s) => msg[s] \in Held

\* The frames on the way to s are in the order they were read: first those it has
\* been given, then the one its bridge holds, then those in its channel of the bus.
Line(s) ==
  /\ \A k \in DOMAIN emitted[s] : Older(emitted[s][k].i)
  /\ \A k, l \in DOMAIN emitted[s] : k < l => emitted[s][k].i < emitted[s][l].i
  /\ Holds(s) => /\ Older(msg[s].i)
                 /\ \A k \in DOMAIN emitted[s] : emitted[s][k].i < msg[s].i
                 /\ \A k \in DOMAIN ch[s].buf : msg[s].i < ch[s].buf[k]
  /\ \A k \in DOMAIN ch[s].buf : Older(ch[s].buf[k])
  /\ \A k, l \in DOMAIN ch[s].buf : k < l => ch[s].buf[k] < ch[s].buf[l]
  /\ \A k \in DOMAIN emitted[s], l \in DOMAIN ch[s].buf : emitted[s][k].i < ch[s].buf[l]

\* The numbers given to s rise, up to the one its bridge is about to give, and none
\* is beyond seq_.
Numbers(s) ==
  /\ \A k \in DOMAIN emitted[s] : emitted[s][k].seq <= seq
  /\ \A k, l \in DOMAIN emitted[s] : k < l => emitted[s][k].seq < emitted[s][l].seq
  /\ bridge[s] = "push" => /\ msg[s].seq <= seq
                           /\ \A k \in DOMAIN emitted[s] : emitted[s][k].seq < msg[s].seq

\* No two bridges give the same number.
Apart(s, u) ==
  /\ \A k \in DOMAIN emitted[s], l \in DOMAIN emitted[u] : emitted[s][k].seq # emitted[u][l].seq
  /\ bridge[s] = "push" => \A l \in DOMAIN emitted[u] : msg[s].seq # emitted[u][l].seq
  /\ bridge[u] = "push" => \A k \in DOMAIN emitted[s] : emitted[s][k].seq # msg[u].seq
  /\ bridge[s] = "push" /\ bridge[u] = "push" => msg[s].seq # msg[u].seq

OrderInv ==
  /\ OrderTypes
  /\ \A s \in Subs : Line(s) /\ Numbers(s)
  /\ \A s, u \in Subs : s # u => Apart(s, u)

LEMMA HeldFields ==
  ASSUME NEW m \in Held
  PROVE  /\ m.i \in Nat /\ m.seq \in Nat
         /\ \A n \in Nat : LET m2 == [m EXCEPT !.seq = n] IN m2 \in Held /\ m2.i = m.i /\ m2.seq = n
  BY DEF Held

LEMMA OrderInit == Init => OrderInv
<1> SUFFICES ASSUME Init PROVE OrderInv
  OBVIOUS
<1> USE DEF Init, BusInit
<1>1. OrderTypes
  <2>1. emitted \in [Subs -> Seq(Held)]
    OBVIOUS
  <2>2. \A s \in Subs : DOMAIN ch[s] = {"buf", "closed"} /\ ch[s].buf \in Seq(Nat)
    <3>1. \A S : << >> \in Seq(S)
      OBVIOUS
    <3>2. emitted = [s \in Subs |-> << >>]
      OBVIOUS
    <3> QED
      BY <3>1, <3>2, Zenon
  <2> QED
    BY <2>1, <2>2 DEF OrderTypes, Holds
<1>2. \A s \in Subs : Line(s) /\ Numbers(s)
  BY DEF Line, Numbers, Holds
<1>3. \A s, u \in Subs : Apart(s, u)
  BY DEF Apart
<1> QED
  BY <1>1, <1>2, <1>3 DEF OrderInv

\* Steps that move no message.
LEMMA NoMessageMoves ==
  ASSUME OrderInv, UNCHANGED <<seq, msg, emitted, got>>,
         reader' = reader \/ reader' # "fan",
         DOMAIN ch' = Subs,
         \A s \in Subs : DOMAIN ch'[s] = {"buf", "closed"} /\ ch'[s].buf = ch[s].buf,
         DOMAIN bridge' = Subs,
         \A s \in Subs : bridge'[s] = bridge[s] \/ bridge'[s] \notin {"stamp", "push"}
  PROVE  OrderInv'
<1>1. OrderTypes'
  BY DEF OrderInv, OrderTypes, Holds
<1>2. \A i : Older(i) => Older(i)'
  BY DEF Older
<1>3. ASSUME NEW s \in Subs PROVE Line(s)' /\ Numbers(s)'
  BY <1>2 DEF OrderInv, Line, Numbers, Holds
<1>4. ASSUME NEW s \in Subs, NEW u \in Subs, s # u PROVE Apart(s, u)'
  BY <1>4 DEF OrderInv, Apart
<1> QED
  BY <1>1, <1>3, <1>4 DEF OrderInv

\* A frame that is read is newer than every one before it.
LEMMA ReadInOrder == OrderInv /\ ReadFrame /\ UNCHANGED nodeVars => OrderInv'
<1> SUFFICES ASSUME OrderInv, ReadFrame, UNCHANGED nodeVars PROVE OrderInv'
  OBVIOUS
<1>1. got \in Nat /\ got' = got + 1 /\ reader = "read" /\ UNCHANGED <<seq, bridge, msg, emitted, ch>>
  BY DEF OrderInv, OrderTypes, ReadFrame, busVars, nodeVars
<1>2. OrderTypes'
  BY <1>1 DEF OrderInv, OrderTypes, Holds
<1>3. \A i : Older(i) => Older(i)'
  BY <1>1 DEF Older
<1>4. ASSUME NEW s \in Subs PROVE Line(s)' /\ Numbers(s)'
  BY <1>1, <1>3 DEF OrderInv, Line, Numbers, Holds
<1>5. ASSUME NEW s \in Subs, NEW u \in Subs, s # u PROVE Apart(s, u)'
  BY <1>1, <1>5 DEF OrderInv, Apart
<1> QED
  BY <1>2, <1>4, <1>5 DEF OrderInv

\* What the reader hands out goes behind what is there.
LEMMA FanOutInOrder == OrderInv /\ FanOut /\ UNCHANGED nodeVars => OrderInv'
<1> SUFFICES ASSUME OrderInv, FanOut, UNCHANGED nodeVars PROVE OrderInv'
  OBVIOUS
<1>1. got \in Nat /\ got' = got /\ reader = "fan" /\ reader' = "top" /\ UNCHANGED <<seq, bridge, msg, emitted>>
  BY DEF OrderInv, OrderTypes, FanOut, nodeVars
<1>2. ASSUME NEW s \in Subs
      PROVE  /\ DOMAIN ch'[s] = {"buf", "closed"}
             /\ ch'[s].buf = ch[s].buf \/ ch'[s].buf = Append(ch[s].buf, got)
             /\ ch[s].buf \in Seq(Nat)
  BY <1>1 DEF FanOut, OrderInv, OrderTypes
<1>3. OrderTypes'
  <2>1. DOMAIN ch' = Subs
    BY DEF FanOut
  <2>2. ASSUME NEW s \in Subs PROVE ch'[s].buf \in Seq(Nat)
    <3>1. Append(ch[s].buf, got) \in Seq(Nat)
      BY <1>1, <1>2
    <3> QED
      BY <1>2, <3>1
  <2> QED
    BY <1>1, <1>2, <2>1, <2>2 DEF OrderInv, OrderTypes, Holds
<1>4. \A i : Older(i) => Older(i)' /\ i \in Nat /\ i < got
  BY <1>1 DEF Older
<1>5. Older(got)'
  BY <1>1 DEF Older
<1>6. ASSUME NEW s \in Subs PROVE Line(s)'
  <2>1. Line(s) /\ ch[s].buf \in Seq(Nat)
    BY <1>2 DEF OrderInv
  <2>2. CASE ch'[s].buf = ch[s].buf
    BY <1>1, <1>4, <2>1, <2>2 DEF Line, Holds
  <2>3. CASE ch'[s].buf = Append(ch[s].buf, got)
    <3>1. /\ DOMAIN ch[s].buf = 1..Len(ch[s].buf) /\ Len(ch[s].buf) \in Nat
          /\ DOMAIN ch'[s].buf = 1..(Len(ch[s].buf) + 1)
          /\ \A k \in DOMAIN ch[s].buf : ch'[s].buf[k] = ch[s].buf[k]
          /\ ch'[s].buf[Len(ch[s].buf) + 1] = got
      BY <1>1, <2>1, <2>3
    <3>2. \A k \in DOMAIN ch'[s].buf : k \in DOMAIN ch[s].buf \/ (k = Len(ch[s].buf) + 1 /\ ch'[s].buf[k] = got)
      BY <3>1
    <3>3. \A k, l \in DOMAIN ch'[s].buf : k < l => k \in DOMAIN ch[s].buf
      BY <3>1
    <3>4. \A k \in DOMAIN ch[s].buf : Older(ch[s].buf[k])
      BY <2>1 DEF Line
    <3>6. (\A k \in DOMAIN ch[s].buf : Older(ch[s].buf[k]))'
      BY <1>1, <1>4, <1>5, <3>1, <3>2, <3>4
    <3>7. \A k, l \in DOMAIN ch'[s].buf : k < l => ch'[s].buf[k] < ch'[s].buf[l]
      <4>1. \A k, l \in DOMAIN ch[s].buf : k < l => ch[s].buf[k] < ch[s].buf[l]
        BY <2>1 DEF Line
      <4> QED
        BY <1>4, <3>1, <3>2, <3>3, <3>4, <4>1
    <3>5. \A i : (Older(i) /\ \A k \in DOMAIN ch[s].buf : i < ch[s].buf[k])
                   => \A k \in DOMAIN ch'[s].buf : i < ch'[s].buf[k]
      BY <1>4, <3>1, <3>2
    <3> QED
      BY <1>1, <1>4, <2>1, <3>5, <3>6, <3>7 DEF Line, Holds
  <2> QED
    BY <1>2, <2>2, <2>3
<1>7. ASSUME NEW s \in Subs, NEW u \in Subs PROVE Numbers(s)' /\ (s # u => Apart(s, u)')
  BY <1>1 DEF OrderInv, Numbers, Apart
<1> QED
  BY <1>3, <1>6, <1>7 DEF OrderInv

LEMMA BridgeRecvInOrder == ASSUME OrderInv, NEW s \in Subs, BridgeRecv(s) PROVE OrderInv'
<1> DEFINE i == ch[s].buf[1]
           m == [i |-> i, body |-> ToMessage(Decode(Traffic[i])), seq |-> 0]
           buf == ch[s].buf
<1>1. buf \in Seq(Nat) /\ buf # <<>> /\ 1 \in DOMAIN buf /\ i \in Nat
  BY DEF BridgeRecv, OrderInv, OrderTypes
<1>2. m \in Held /\ m.i = i
  BY <1>1 DEF Held
<1>3. /\ UNCHANGED <<seq, emitted, got, reader>>
      /\ bridge' = [bridge EXCEPT ![s] = "stamp"] /\ msg' = [msg EXCEPT ![s] = m]
      /\ DOMAIN bridge = Subs /\ DOMAIN msg = Subs
  BY <1>1 DEF BridgeRecv, readVars, OrderInv, OrderTypes
<1>4. /\ DOMAIN ch' = Subs
      /\ \A u \in Subs : u # s => ch'[u] = ch[u]
      /\ DOMAIN ch'[s] = {"buf", "closed"} /\ ch'[s].buf = Tail(buf)
  BY DEF BridgeRecv, OrderInv, OrderTypes
<1>5. /\ Tail(buf) \in Seq(Nat)
      /\ DOMAIN Tail(buf) = 1..(Len(buf) - 1)
      /\ \A k \in DOMAIN Tail(buf) : Tail(buf)[k] = buf[k + 1] /\ k + 1 \in DOMAIN buf /\ k \in Nat /\ k > 0
  BY <1>1
<1> HIDE DEF m, i, buf
<1>6. OrderTypes'
  BY <1>2, <1>3, <1>4, <1>5 DEF OrderInv, OrderTypes, Holds
<1>7. \A j : Older(j)' = Older(j)
  BY <1>3 DEF Older
<1>8. Line(s)'
  <2> DEFINE e == emitted[s]
  <2>1. /\ \A k \in DOMAIN e : Older(e[k].i)
        /\ \A k, l \in DOMAIN e : k < l => e[k].i < e[l].i
        /\ \A k \in DOMAIN buf : Older(buf[k])
        /\ \A k, l \in DOMAIN buf : k < l => buf[k] < buf[l]
        /\ \A k \in DOMAIN e, l \in DOMAIN buf : e[k].i < buf[l]
    BY DEF OrderInv, Line, buf
  <2>2. i = buf[1] /\ 1 \in DOMAIN buf
    BY <1>1 DEF i, buf
  <2>3. msg'[s].i = i /\ emitted' = emitted /\ ch'[s].buf = Tail(buf)
    BY <1>2, <1>3, <1>4
  <2> HIDE DEF e
  <2>4. \A k \in DOMAIN Tail(buf) : i < Tail(buf)[k] /\ Older(Tail(buf)[k])
    BY <1>5, <2>1, <2>2
  <2>5. \A k, l \in DOMAIN Tail(buf) : k < l => Tail(buf)[k] < Tail(buf)[l]
    BY <1>5, <2>1
  <2>6. \A k \in DOMAIN e, l \in DOMAIN Tail(buf) : e[k].i < Tail(buf)[l]
    BY <1>5, <2>1
  <2>7. Older(i) /\ \A k \in DOMAIN e : e[k].i < i
    BY <2>1, <2>2
  <2> QED
    BY <1>7, <2>1, <2>3, <2>4, <2>5, <2>6, <2>7 DEF Line, e
<1>9. ASSUME NEW u \in Subs, u # s PROVE Line(u)'
  BY <1>3, <1>4, <1>7, <1>9 DEF OrderInv, Line, Holds
<1>10. ASSUME NEW u \in Subs PROVE Numbers(u)'
  BY <1>3 DEF OrderInv, Numbers
<1>11. ASSUME NEW u \in Subs, NEW w \in Subs, u # w PROVE Apart(u, w)'
  BY <1>3, <1>11 DEF OrderInv, Apart
<1> QED
  BY <1>6, <1>8, <1>9, <1>10, <1>11 DEF OrderInv

\* The number a bridge takes is greater than every number before.
LEMMA StampInOrder == ASSUME OrderInv, NEW s \in Subs, Stamp(s) PROVE OrderInv'
<1> DEFINE m == [msg[s] EXCEPT !.seq = seq + 1]
<1>1. seq \in Nat /\ seq' = seq + 1 /\ msg[s] \in Held /\ bridge[s] = "stamp"
  BY DEF OrderInv, OrderTypes, Stamp, Holds
<1>2. m \in Held /\ m.i = msg[s].i /\ m.seq = seq + 1
  BY <1>1, HeldFields
<1>3. /\ UNCHANGED <<emitted, got, reader, ch>>
      /\ bridge' = [bridge EXCEPT ![s] = "push"] /\ msg' = [msg EXCEPT ![s] = m]
      /\ DOMAIN bridge = Subs /\ DOMAIN msg = Subs
  BY DEF Stamp, socketVars, busVars, readVars, OrderInv, OrderTypes
<1> HIDE DEF m
<1>4. OrderTypes'
  BY <1>1, <1>2, <1>3 DEF OrderInv, OrderTypes, Holds
<1>5. \A j : Older(j)' = Older(j)
  BY <1>3 DEF Older
<1>6. ASSUME NEW u \in Subs PROVE Line(u)'
  BY <1>1, <1>2, <1>3, <1>5 DEF OrderInv, Line, Holds
<1>7. ASSUME NEW u \in Subs
      PROVE  /\ \A k \in DOMAIN emitted[u] : emitted[u][k].seq \in Nat /\ emitted[u][k].seq <= seq
             /\ bridge[u] = "push" => msg[u].seq \in Nat /\ msg[u].seq <= seq
  <2>1. \A k \in DOMAIN emitted[u] : emitted[u][k] \in Held
    BY DEF OrderInv, OrderTypes
  <2>2. bridge[u] = "push" => msg[u] \in Held
    BY DEF OrderInv, OrderTypes, Holds
  <2> QED
    BY <2>1, <2>2, HeldFields DEF OrderInv, Numbers
<1>8. ASSUME NEW u \in Subs PROVE Numbers(u)'
  BY <1>1, <1>2, <1>3, <1>7 DEF OrderInv, Numbers
<1>9. ASSUME NEW u \in Subs, NEW w \in Subs, u # w PROVE Apart(u, w)'
  BY <1>1, <1>2, <1>3, <1>7, <1>9 DEF OrderInv, Apart
<1> QED
  BY <1>4, <1>6, <1>8, <1>9 DEF OrderInv

LEMMA PushInOrder == ASSUME OrderInv, NEW s \in Subs, Push(s) PROVE OrderInv'
<1>1. /\ bridge[s] = "push" /\ UNCHANGED <<seq, got, reader, ch>>
      /\ bridge' = [bridge EXCEPT ![s] = "recv"] /\ msg' = [msg EXCEPT ![s] = NoMessage]
      /\ DOMAIN bridge = Subs /\ DOMAIN msg = Subs /\ emitted \in [Subs -> Seq(Held)] /\ msg[s] \in Held
  BY DEF Push, socketVars, busVars, readVars, OrderInv, OrderTypes, Holds
<1>2. \/ emitted' = emitted
      \/ emitted' = [emitted EXCEPT ![s] = Append(@, msg[s])]
  BY DEF Push, Emit
<1>3. \A u \in Subs : u # s => emitted'[u] = emitted[u] /\ bridge'[u] = bridge[u] /\ msg'[u] = msg[u]
  BY <1>1, <1>2
<1>4. \A j : Older(j)' = Older(j)
  BY <1>1 DEF Older
<1> DEFINE e == emitted[s]
           f == emitted'[s]
<1>5. /\ e \in Seq(Held) /\ f \in Seq(Held) /\ emitted' \in [Subs -> Seq(Held)]
      /\ \A k \in DOMAIN f : (k \in DOMAIN e /\ f[k] = e[k]) \/ f[k] = msg[s]
      /\ \A k, l \in DOMAIN f : k < l => k \in DOMAIN e /\ f[k] = e[k]
  <2>1. CASE emitted' = emitted
    BY <1>1, <2>1
  <2>2. CASE emitted' = [emitted EXCEPT ![s] = Append(@, msg[s])]
    <3>1. f = Append(e, msg[s]) /\ e \in Seq(Held)
      BY <1>1, <2>2
    <3>2. f \in Seq(Held) /\ DOMAIN e = 1..Len(e) /\ DOMAIN f = 1..(Len(e) + 1) /\ Len(e) \in Nat
          /\ (\A k \in DOMAIN e : f[k] = e[k]) /\ f[Len(e) + 1] = msg[s]
      BY <1>1, <3>1
    <3>3. emitted' \in [Subs -> Seq(Held)]
      BY <1>1, <2>2, <3>1, <3>2
    <3> HIDE DEF e, f
    <3> QED
      BY <3>1, <3>2, <3>3
  <2> QED
    BY <1>2, <2>1, <2>2
<1>6. OrderTypes'
  BY <1>1, <1>5 DEF OrderInv, OrderTypes, Holds
<1>7. Line(s)'
  <2>1. /\ \A k \in DOMAIN e : Older(e[k].i)
        /\ \A k, l \in DOMAIN e : k < l => e[k].i < e[l].i
        /\ Older(msg[s].i)
        /\ \A k \in DOMAIN e : e[k].i < msg[s].i
        /\ \A k \in DOMAIN ch[s].buf : msg[s].i < ch[s].buf[k]
        /\ \A k \in DOMAIN ch[s].buf : Older(ch[s].buf[k])
        /\ \A k, l \in DOMAIN ch[s].buf : k < l => ch[s].buf[k] < ch[s].buf[l]
        /\ \A k \in DOMAIN e, l \in DOMAIN ch[s].buf : e[k].i < ch[s].buf[l]
    BY <1>1 DEF OrderInv, Line, Holds
  <2>2. ~Holds(s)'
    BY <1>1 DEF Holds
  <2> HIDE DEF e
  <2>3. /\ \A k \in DOMAIN f : Older(f[k].i)
        /\ \A k \in DOMAIN f, l \in DOMAIN ch[s].buf : f[k].i < ch[s].buf[l]
    BY <1>5, <2>1
  <2>4. \A k, l \in DOMAIN f : k < l => f[k].i < f[l].i
    BY <1>5, <2>1
  <2> QED
    BY <1>1, <1>4, <2>1, <2>2, <2>3, <2>4 DEF Line
<1>8. ASSUME NEW u \in Subs, u # s PROVE Line(u)'
  BY <1>1, <1>3, <1>4, <1>8 DEF OrderInv, Line, Holds
<1>9. ASSUME NEW u \in Subs PROVE Numbers(u)'
  <2>1. CASE u = s
    <3>1. /\ \A k \in DOMAIN e : e[k].seq <= seq
          /\ \A k, l \in DOMAIN e : k < l => e[k].seq < e[l].seq
          /\ msg[s].seq <= seq
          /\ \A k \in DOMAIN e : e[k].seq < msg[s].seq
      BY <1>1 DEF OrderInv, Numbers
    <3>2. bridge'[s] # "push" /\ seq' = seq
      BY <1>1
    <3> HIDE DEF e
    <3>3. \A k \in DOMAIN f : f[k].seq <= seq
      BY <1>5, <3>1
    <3>4. \A k, l \in DOMAIN f : k < l => f[k].seq < f[l].seq
      BY <1>5, <3>1
    <3> QED
      BY <2>1, <3>2, <3>3, <3>4 DEF Numbers
  <2>2. CASE u # s
    BY <1>1, <1>3, <2>2 DEF OrderInv, Numbers
  <2> QED
    BY <2>1, <2>2
<1>10. ASSUME NEW u \in Subs, u # s PROVE Apart(s, u)' /\ Apart(u, s)'
  <2>1. Apart(s, u)
    BY <1>10 DEF OrderInv
  <2>2. /\ bridge'[s] # "push" /\ emitted'[u] = emitted[u] /\ bridge'[u] = bridge[u] /\ msg'[u] = msg[u]
    BY <1>1, <1>3, <1>10
  <2>3. /\ \A k \in DOMAIN e, l \in DOMAIN emitted[u] : e[k].seq # emitted[u][l].seq
        /\ \A l \in DOMAIN emitted[u] : msg[s].seq # emitted[u][l].seq
        /\ bridge[u] = "push" => \A k \in DOMAIN e : e[k].seq # msg[u].seq
        /\ bridge[u] = "push" => msg[s].seq # msg[u].seq
    BY <1>1, <2>1 DEF Apart
  <2> HIDE DEF e
  <2>4. /\ \A k \in DOMAIN f, l \in DOMAIN emitted[u] : f[k].seq # emitted[u][l].seq
        /\ bridge[u] = "push" => \A k \in DOMAIN f : f[k].seq # msg[u].seq
    BY <1>5, <2>3
  <2>5. Apart(s, u)'
    BY <2>2, <2>4 DEF Apart
  <2>6. Apart(u, s)'
    BY <2>2, <2>4 DEF Apart
  <2> QED
    BY <2>5, <2>6
<1>11. ASSUME NEW u \in Subs, NEW w \in Subs, u # w, u # s, w # s PROVE Apart(u, w)'
  BY <1>3, <1>11 DEF OrderInv, Apart
<1> QED
  BY <1>6, <1>7, <1>8, <1>9, <1>10, <1>11 DEF OrderInv

LEMMA OrderNext == OrderInv /\ [Next]_vars => OrderInv'
<1> SUFFICES ASSUME OrderInv, [Next]_vars PROVE OrderInv'
  OBVIOUS
<1>1. CASE UNCHANGED vars
  BY <1>1, NoMessageMoves DEF vars, socketVars, busVars, readVars, nodeVars, OrderInv, OrderTypes
<1>2. CASE BusNext /\ UNCHANGED nodeVars
  <2>1. CASE ReadFrame
    BY <1>2, <2>1, ReadInOrder
  <2>2. CASE FanOut
    BY <1>2, <2>2, FanOutInOrder
  <2>3. CASE ReaderTop \/ ReadTimeout \/ ReadFails
    BY <1>2, <2>3, NoMessageMoves
    DEF ReaderTop, ReadTimeout, ReadFails, busVars, nodeVars, OrderInv, OrderTypes
  <2>4. ASSUME NEW t \in Senders,
               SendStep(t) \/ \E f \in Samples : SendRefused(t, f) \/ SendClosed(t, f) \/ SendEnter(t, f)
        PROVE  OrderInv'
    BY <1>2, <2>4, NoMessageMoves
    DEF SendStep, LoadFd, Write, SendRefused, SendClosed, SendEnter, busVars, readVars, nodeVars, OrderInv,
        OrderTypes
  <2>5. ASSUME NEW c \in Closers, CloseAgain(c) \/ CloseEnter(c) \/ CloseStep(c) PROVE OrderInv'
    <3>1. UNCHANGED <<reader, got>>
      BY <2>5 DEF CloseAgain, CloseEnter, CloseStep, StopReader, JoinReader, CloseFd, ClearFd, CloseChannels,
         readVars
    <3>2. DOMAIN ch' = Subs /\ \A s \in Subs : DOMAIN ch'[s] = {"buf", "closed"} /\ ch'[s].buf = ch[s].buf
      BY <2>5 DEF CloseAgain, CloseEnter, CloseStep, StopReader, JoinReader, CloseFd, ClearFd, CloseChannels,
         busVars, OrderInv, OrderTypes
    <3> QED
      BY <1>2, <3>1, <3>2, NoMessageMoves DEF nodeVars, OrderInv, OrderTypes
  <2> QED
    BY <1>2, <2>1, <2>2, <2>3, <2>4, <2>5 DEF BusNext, ReaderStep
<1>3. ASSUME NEW t \in Senders, NEW m \in Messages, NodeSendInvalid(t, m) \/ NodeSend(t, m) PROVE OrderInv'
  BY <1>3, NoMessageMoves
  DEF NodeSendInvalid, NodeSend, SendRefused, SendClosed, SendEnter, busVars, readVars, nodeVars, OrderInv,
      OrderTypes
<1>4. ASSUME NEW s \in Subs, NodeSubscribe(s) \/ BridgeEnd(s) \/ Recv(s) \/ Leave(s) PROVE OrderInv'
  BY <1>4, NoMessageMoves
  DEF NodeSubscribe, Subscribe, BridgeEnd, Recv, Leave, socketVars, busVars, readVars, OrderInv, OrderTypes
<1>5. ASSUME NEW s \in Subs, BridgeStep(s) PROVE OrderInv'
  BY <1>4, <1>5, BridgeRecvInOrder, StampInOrder, PushInOrder DEF BridgeStep
<1> QED
  BY <1>1, <1>2, <1>3, <1>4, <1>5 DEF Next

\* Every subscriber sees rising numbers and its frames in the order they were read,
\* and no number is given twice in the node (can.cpp:196, REQ-CAN-016).
THEOREM NumbersInOrder == Spec => []NumberedInOrder
<1>1. OrderInv => NumberedInOrder
  BY DEF OrderInv, Line, Numbers, Apart, NumberedInOrder
<1> QED
  BY <1>1, OrderInit, OrderNext, PTL DEF Spec

-----------------------------------------------------------------------------
(* Frames *)

\* A frame the bus writes is read back as it was given, but for the fields of CAN XL.
LEMMA EncodeExact ==
  ASSUME NEW f \in CanFrame, Valid(f), ~f.xl
  PROVE  Decode(Encode(f)) = [f EXCEPT !.sdt = 0]
<1>1. f.fd \in BOOLEAN /\ f.ext \in BOOLEAN /\ f.rtr \in BOOLEAN /\ f.brs \in BOOLEAN /\ f.esi \in BOOLEAN
      /\ f.xl \in BOOLEAN /\ f.id \in Nat /\ f.len \in Nat
  BY DEF CanFrame
<1>2. /\ f.id <= (IF f.ext THEN 2^29 - 1 ELSE 2^11 - 1)
      /\ f.rtr => ~f.fd
      /\ f.len <= (IF f.fd THEN 64 ELSE 8)
      /\ f.brs \/ f.esi => f.fd
  BY DEF Valid, ValidClassicOrFd, MaxExtId, MaxStdId, CanonicalFdLen, MaxDataLen
<1>3. f.id % (IF f.ext THEN 2^29 ELSE 2^11) = f.id
  BY <1>1, <1>2
<1>4. AtMost(f.len, IF f.fd THEN 64 ELSE 8) = f.len
  BY <1>1, <1>2 DEF AtMost
<1> DEFINE k == Encode(f)
           e == [id |-> f.id, ext |-> f.ext, rtr |-> f.rtr, fd |-> f.fd, brs |-> f.brs, esi |-> f.esi,
                 xl |-> FALSE, sdt |-> 0, len |-> f.len]
<1>5. /\ k.id = f.id /\ k.eff = f.ext /\ k.rtr = f.rtr /\ k.brs = (f.fd /\ f.brs) /\ k.esi = (f.fd /\ f.esi)
      /\ k.len = f.len /\ k.size = IF f.fd THEN "canfd_frame" ELSE "can_frame"
  BY DEF Encode
<1>6. (k.size = "canfd_frame") = f.fd
  BY <1>1, <1>5
<1>7. (~f.fd /\ f.rtr) = f.rtr /\ (f.fd /\ (f.fd /\ f.brs)) = f.brs /\ (f.fd /\ (f.fd /\ f.esi)) = f.esi
  BY <1>1, <1>2
<1> HIDE DEF k
<1>8. Decode(k) = e
  <2>1. Decode(k) = [id |-> k.id % (IF k.eff THEN 2^29 ELSE 2^11), ext |-> k.eff, rtr |-> ~f.fd /\ k.rtr,
                     fd |-> f.fd, brs |-> f.fd /\ k.brs, esi |-> f.fd /\ k.esi, xl |-> FALSE, sdt |-> 0,
                     len |-> AtMost(k.len, IF f.fd THEN 64 ELSE 8)]
    BY <1>6 DEF Decode, FdMaxDataLen, MaxDataLen
  <2> QED
    BY <1>3, <1>4, <1>5, <1>7, <2>1
<1>9. [f EXCEPT !.sdt = 0] = e
  <2>1. f.xl = FALSE
    BY <1>1
  <2>2. [f EXCEPT !.sdt = 0]
         = [id |-> f.id, ext |-> f.ext, rtr |-> f.rtr, fd |-> f.fd, brs |-> f.brs, esi |-> f.esi,
            xl |-> f.xl, sdt |-> 0, len |-> f.len]
    BY DEF CanFrame
  <2> QED
    BY <2>1, <2>2
<1> QED
  BY <1>8, <1>9 DEF k

-----------------------------------------------------------------------------
(* What is written *)

\* What the bus may write.
Sendable(f) == f \in CanFrame /\ Valid(f) /\ ~f.xl

\* The frame a message describes is a frame, whatever is in its meta.
LEMMA FrameOfType ==
  ASSUME NEW m \in Messages, Accepts(m)
  PROVE  FrameOf(m) \in CanFrame
<1>1. m.id \in Nat /\ m.len \in Nat
  BY RelayNodeAssumption DEF RelayNodeAssumption, Accepts, MaxExtId
<1>2. "sdt" \in DOMAIN m.meta => m.meta.sdt \in Nat
  BY RelayNodeAssumption DEF RelayNodeAssumption, Accepts
<1> DEFINE n == IF "sdt" \in DOMAIN m.meta THEN m.meta.sdt % 256 ELSE 0
<1>3. n \in Nat
  BY <1>2
<1>4. \A k : Has(m, k) \in BOOLEAN
  BY DEF Has
<1> HIDE DEF n
<1>5. FrameOf(m) = [id |-> m.id, len |-> m.len, ext |-> Has(m, "ext"), rtr |-> Has(m, "rtr"),
                    fd |-> Has(m, "fd"), brs |-> Has(m, "brs"), esi |-> Has(m, "esi"), xl |-> Has(m, "xl"),
                    sdt |-> n]
  BY DEF FrameOf, n
<1> QED
  BY <1>1, <1>3, <1>4, <1>5 DEF CanFrame

\* A sender inside send holds a frame that may be written; what has been written is
\* such a frame, encoded.
WireInv ==
  /\ pc = [t \in Senders \cup Closers |-> pc[t]] /\ frame = [t \in Senders |-> frame[t]]
  /\ \A t \in Senders : pc[t] \in {"encode", "write"} => Sendable(frame[t])
  /\ \A w \in wire : Sendable(w.given) /\ w.written = Encode(w.given)

LEMMA SendKeepsWire ==
  ASSUME WireInv, NEW t \in Senders, NEW f \in CanFrame,
         SendStep(t) \/ SendRefused(t, f) \/ SendClosed(t, f) \/ SendEnter(t, f)
  PROVE  WireInv'
<1>1. CASE SendRefused(t, f) \/ SendClosed(t, f)
  BY <1>1 DEF WireInv, SendRefused, SendClosed
<1>2. CASE SendEnter(t, f)
  BY <1>2 DEF WireInv, SendEnter, GoTo, Sendable
<1>3. CASE LoadFd(t)
  BY <1>3 DEF WireInv, LoadFd, GoTo
<1>4. CASE Write(t)
  <2> DEFINE w == [given |-> frame[t], written |-> Encode(frame[t])]
  <2>1. Sendable(w.given) /\ w.written = Encode(w.given)
    BY <1>4 DEF WireInv, Write
  <2>2. /\ wire' \subseteq wire \cup {w}
        /\ frame' = [frame EXCEPT ![t] = NoFrame] /\ pc' = [pc EXCEPT ![t] = "idle"]
    BY <1>4 DEF Write, GoTo
  <2> HIDE DEF w
  <2>3. \A x \in wire' : Sendable(x.given) /\ x.written = Encode(x.given)
    BY <2>1, <2>2 DEF WireInv
  <2> QED
    BY <2>2, <2>3 DEF WireInv
<1> QED
  BY <1>1, <1>2, <1>3, <1>4 DEF SendStep

LEMMA WireNext == WireInv /\ [Next]_vars => WireInv'
<1> SUFFICES ASSUME WireInv, [Next]_vars PROVE WireInv'
  OBVIOUS
<1>1. ASSUME UNCHANGED <<pc, frame, wire>> PROVE WireInv'
  BY <1>1 DEF WireInv
<1>2. CASE UNCHANGED vars
  BY <1>1, <1>2 DEF vars, socketVars, threadVars
<1>3. CASE BusNext /\ UNCHANGED nodeVars
  <2>1. ASSUME NEW t \in Senders, SendStep(t) PROVE WireInv'
    <3>1. \E f : f \in CanFrame
      <4>1. [id |-> 0, len |-> 0, ext |-> FALSE, rtr |-> FALSE, fd |-> FALSE, brs |-> FALSE, esi |-> FALSE,
             xl |-> FALSE, sdt |-> 0] \in CanFrame
        BY DEF CanFrame
      <4> QED
        BY <4>1
    <3> QED
      BY <2>1, <3>1, SendKeepsWire
  <2>2. ASSUME NEW t \in Senders, NEW f \in Samples, SendRefused(t, f) \/ SendClosed(t, f) \/ SendEnter(t, f)
        PROVE  WireInv'
    BY <2>2, SendKeepsWire, SocketCanAssumption DEF SocketCanAssumption
  <2>3. ASSUME NEW c \in Closers, CloseAgain(c) \/ CloseEnter(c) \/ CloseStep(c) PROVE WireInv'
    <3>1. /\ UNCHANGED <<frame, wire>>
          /\ \E place : pc' = [pc EXCEPT ![c] = place]
      BY <2>3 DEF CloseAgain, CloseEnter, CloseStep, StopReader, JoinReader, CloseFd, ClearFd, CloseChannels,
         GoTo
    <3>2. PICK place : pc' = [pc EXCEPT ![c] = place]
      BY <3>1
    <3>3. \A t \in Senders : pc'[t] = pc[t]
      BY <3>2, SocketCanAssumption DEF SocketCanAssumption, WireInv
    <3> QED
      BY <3>1, <3>2, <3>3 DEF WireInv
  <2>4. CASE ReaderStep \/ ReadFails
    BY <1>1, <2>4 DEF ReaderStep, ReaderTop, ReadFrame, ReadTimeout, ReadFails, FanOut, threadVars
  <2> QED
    BY <1>3, <2>1, <2>2, <2>3, <2>4 DEF BusNext
<1>4. ASSUME NEW t \in Senders, NEW m \in Messages, NodeSendInvalid(t, m) PROVE WireInv'
  BY <1>1, <1>4 DEF NodeSendInvalid
<1>5. ASSUME NEW t \in Senders, NEW m \in Messages, NodeSend(t, m) PROVE WireInv'
  <2>1. FrameOf(m) \in CanFrame
    BY <1>5, FrameOfType DEF NodeSend
  <2> QED
    BY <1>5, <2>1, SendKeepsWire DEF NodeSend
<1>6. ASSUME NEW s \in Subs, NodeSubscribe(s) \/ BridgeStep(s) \/ Recv(s) \/ Leave(s) PROVE WireInv'
  BY <1>1, <1>6 DEF NodeSubscribe, Subscribe, BridgeStep, BridgeRecv, Stamp, Push, BridgeEnd, Recv, Leave,
     socketVars, threadVars
<1> QED
  BY <1>2, <1>3, <1>4, <1>5, <1>6 DEF Next

\* What is on the wire decodes to the frame that was given to send (REQ-SCAN-003,
\* 007, 008; bus.cpp:60-94, 177-204).
THEOREM WritesExactly == Spec => []WireExact
<1>1. Init => WireInv
  BY DEF Init, BusInit, WireInv
<1>2. WireInv => WireExact
  BY EncodeExact DEF WireInv, WireExact, Sendable
<1> QED
  BY <1>1, <1>2, WireNext, PTL DEF Spec

-----------------------------------------------------------------------------
(* What is handed out *)

\* What comes from the bus is a frame without the fields of CAN XL.
LEMMA DecodeType ==
  ASSUME NEW k \in KernelFrame
  PROVE  Decode(k) \in CanFrame /\ Decode(k).sdt = 0 /\ ~Decode(k).xl
<1> DEFINE isFd == k.size = "canfd_frame"
           id == k.id % (IF k.eff THEN 2^29 ELSE 2^11)
           len == AtMost(k.len, IF isFd THEN FdMaxDataLen ELSE MaxDataLen)
<1>1. k.id \in Nat /\ k.len \in Nat /\ {k.eff, k.rtr, k.brs, k.esi} \subseteq BOOLEAN
  BY DEF KernelFrame
<1>2. id \in Nat
  BY <1>1
<1>3. len \in Nat
  BY <1>1 DEF AtMost, FdMaxDataLen, MaxDataLen
<1> HIDE DEF id, len
<1>4. Decode(k) = [id |-> id, ext |-> k.eff, rtr |-> ~isFd /\ k.rtr, fd |-> isFd, brs |-> isFd /\ k.brs,
                   esi |-> isFd /\ k.esi, xl |-> FALSE, sdt |-> 0, len |-> len]
  BY DEF Decode, id, len
<1>5. {~isFd /\ k.rtr, isFd, isFd /\ k.brs, isFd /\ k.esi} \subseteq BOOLEAN
  OBVIOUS
<1> HIDE DEF isFd
<1> QED
  BY <1>1, <1>2, <1>3, <1>4, <1>5 DEF CanFrame

\* A frame is found again in the message made of it, as long as sdt fits.
LEMMA MessageExact ==
  ASSUME NEW f \in CanFrame, f.sdt < 256
  PROVE  FrameOf(ToMessage(f)) = f
<1> DEFINE m == ToMessage(f)
           D == AlwaysInMeta \cup {k \in InMetaIfSet : f[k]} \cup {k \in {"sdt"} : f[k] # 0}
           Flags == {"ext", "rtr", "fd", "brs", "esi", "xl"}
<1>1. m.id = f.id /\ m.len = f.len /\ m.meta = [k \in D |-> f[k]]
  BY DEF ToMessage
<1>2. \A k \in Flags : f[k] \in BOOLEAN
  BY DEF CanFrame
<1>3. \A k \in Flags : k \in D \/ f[k] = FALSE
  BY <1>2 DEF AlwaysInMeta, InMetaIfSet
<1>4. "sdt" \in D <=> f.sdt # 0
  BY DEF AlwaysInMeta, InMetaIfSet
<1> HIDE DEF m, D
<1>5. \A k \in Flags : Has(m, k) = f[k]
  BY <1>1, <1>2, <1>3 DEF Has
<1>6. (IF "sdt" \in DOMAIN m.meta THEN m.meta.sdt % 256 ELSE 0) = f.sdt
  <2>1. f.sdt \in Nat
    BY DEF CanFrame
  <2>2. f.sdt % 256 = f.sdt
    BY <2>1
  <2> QED
    BY <1>1, <1>4, <2>2
<1>7. FrameOf(m) = [id |-> f.id, len |-> f.len, ext |-> f.ext, rtr |-> f.rtr, fd |-> f.fd, brs |-> f.brs,
                    esi |-> f.esi, xl |-> f.xl, sdt |-> f.sdt]
  BY <1>1, <1>5, <1>6 DEF FrameOf
<1>8. f = [id |-> f.id, len |-> f.len, ext |-> f.ext, rtr |-> f.rtr, fd |-> f.fd, brs |-> f.brs,
           esi |-> f.esi, xl |-> f.xl, sdt |-> f.sdt]
  BY DEF CanFrame
<1> QED
  BY <1>7, <1>8 DEF m

\* A frame from the bus is valid, unless it was a remote request with a length or
\* has a length a CAN FD frame cannot have.
LEMMA DecodeValid ==
  ASSUME NEW k \in KernelFrame, Readable(k), k.size = "canfd_frame" => k.len \in CanonicalFdLen
  PROVE  Valid(Decode(k)) <=> ~IsRequestWithLength(k)
<1> DEFINE isFd == k.size = "canfd_frame"
           f == Decode(k)
<1>1. k.id \in Nat /\ k.len \in Nat /\ {k.eff, k.rtr, k.brs, k.esi} \subseteq BOOLEAN
  BY DEF KernelFrame
<1>2. /\ f.id = k.id % (IF k.eff THEN 2^29 ELSE 2^11) /\ f.ext = k.eff /\ f.rtr = (~isFd /\ k.rtr) /\ f.fd = isFd
      /\ f.brs = (isFd /\ k.brs) /\ f.esi = (isFd /\ k.esi) /\ f.xl = FALSE
      /\ f.len = AtMost(k.len, IF isFd THEN FdMaxDataLen ELSE MaxDataLen)
  BY DEF Decode
<1>3. f.id <= (IF f.ext THEN MaxExtId ELSE MaxStdId)
  BY <1>1, <1>2 DEF MaxExtId, MaxStdId
<1>4. isFd => f.len = k.len
  <2>1. isFd => k.len <= 64
    BY DEF CanonicalFdLen
  <2> QED
    BY <1>1, <1>2, <2>1 DEF AtMost, FdMaxDataLen
<1>5. ~isFd => f.len <= 8 /\ (f.len = 0 <=> k.len = 0)
  BY <1>1, <1>2 DEF AtMost, MaxDataLen
<1>6. IsRequestWithLength(k) <=> f.rtr /\ k.len # 0
  <2>1. k.size = "can_frame" <=> ~isFd
    BY DEF Readable
  <2>2. k.len > 0 <=> k.len # 0
    BY <1>1
  <2>3. f.rtr <=> ~isFd /\ k.rtr
    BY <1>2
  <2> HIDE DEF f, isFd
  <2> QED
    BY <2>1, <2>2, <2>3 DEF IsRequestWithLength
<1>7. f.brs \/ f.esi => f.fd
  BY <1>2
<1>8. f.rtr => ~f.fd
  BY <1>2
<1>9. IF f.fd THEN f.len \in CanonicalFdLen ELSE f.len <= MaxDataLen
  BY <1>2, <1>4, <1>5 DEF MaxDataLen
<1>10. Valid(f) <=> (f.rtr => f.len = 0)
  BY <1>2, <1>3, <1>7, <1>8, <1>9 DEF Valid, ValidClassicOrFd
<1> HIDE DEF f, isFd
<1>11. Valid(f) <=> ~IsRequestWithLength(k)
  BY <1>2, <1>5, <1>6, <1>8, <1>10
<1> QED
  BY <1>11 DEF f

\* A bus codes the length of a CAN FD frame in four bits.
CanonicalTraffic == \A i \in DOMAIN Traffic : Traffic[i].size = "canfd_frame" => Traffic[i].len \in CanonicalFdLen

\* The message made of a frame from the bus.
LEMMA HandedOn ==
  ASSUME CanonicalTraffic, NEW i \in DOMAIN Traffic, Readable(Traffic[i])
  PROVE  LET k == Traffic[i]
             body == ToMessage(Decode(k))
         IN IF IsRequestWithLength(k) THEN ~Accepts(body)
            ELSE Accepts(body) /\ FrameOf(body) = Decode(k)
<1> DEFINE k == Traffic[i]
           body == ToMessage(Decode(k))
<1>1. k \in KernelFrame
  BY SocketCanAssumption DEF SocketCanAssumption
<1>2. Decode(k) \in CanFrame /\ Decode(k).sdt = 0
  BY <1>1, DecodeType
<1>3. FrameOf(body) = Decode(k)
  BY <1>2, MessageExact
<1>4. Valid(Decode(k)) <=> ~IsRequestWithLength(k)
  BY <1>1, DecodeValid DEF CanonicalTraffic
<1>5. body.id = Decode(k).id
  BY DEF ToMessage
<1>6. "sdt" \notin DOMAIN body.meta
  BY <1>2 DEF ToMessage, AlwaysInMeta, InMetaIfSet
<1>7. body.id \in 0..MaxExtId
  <2>1. Decode(k).id = k.id % (IF k.eff THEN 2^29 ELSE 2^11) /\ k.id \in Nat
    BY <1>1 DEF Decode, KernelFrame
  <2> QED
    BY <1>5, <2>1 DEF MaxExtId
<1> HIDE DEF k, body
<1>8. Accepts(body) <=> Valid(Decode(k))
  BY <1>3, <1>6, <1>7 DEF Accepts
<1> QED
  BY <1>3, <1>4, <1>8 DEF k, body

\* A frame the reader has read, and a message made of one.
Arrived(i) == i \in DOMAIN Traffic /\ Readable(Traffic[i])
Carries(m) == Arrived(m.i) /\ m.body = ToMessage(Decode(Traffic[m.i]))

\* What is on its way to s, in the bus, with its bridge and given to it, has arrived.
CarryInv ==
  /\ reader = "fan" => Arrived(got)
  /\ \A s \in Subs :
       /\ \A k \in DOMAIN ch[s].buf : Arrived(ch[s].buf[k])
       /\ Holds(s) => Carries(msg[s])
       /\ \A k \in DOMAIN emitted[s] : Carries(emitted[s][k])

\* Steps that move no message and read no frame.
LEMMA CarryKept ==
  ASSUME CarryInv, UNCHANGED <<msg, emitted, got>>,
         reader' = reader \/ reader' # "fan",
         \A s \in Subs : ch'[s].buf = ch[s].buf,
         \A s \in Subs : bridge'[s] = bridge[s] \/ bridge'[s] \notin {"stamp", "push"}
  PROVE  CarryInv'
<1>1. \A i : Arrived(i)' = Arrived(i)
  BY DEF Arrived
<1>2. \A m : Carries(m)' = Carries(m)
  BY DEF Carries, Arrived
<1> QED
  BY <1>1, <1>2 DEF CarryInv, Holds

LEMMA ReadCarries == OrderInv /\ CarryInv /\ ReadFrame /\ UNCHANGED nodeVars => CarryInv'
<1> SUFFICES ASSUME OrderInv, CarryInv, ReadFrame, UNCHANGED nodeVars PROVE CarryInv'
  OBVIOUS
<1>1. reader' = "fan" => Arrived(got')
  <2>1. got \in Nat /\ got < Len(Traffic) /\ got' = got + 1 /\ Traffic \in Seq(KernelFrame)
    BY SocketCanAssumption DEF ReadFrame, OrderInv, OrderTypes, SocketCanAssumption
  <2>2. got' \in DOMAIN Traffic
    BY <2>1
  <2> QED
    BY <2>2 DEF ReadFrame, Arrived
<1>2. UNCHANGED <<ch, bridge, msg, emitted>>
  BY DEF ReadFrame, busVars, nodeVars
<1> QED
  BY <1>1, <1>2 DEF CarryInv, Holds, Arrived, Carries

LEMMA FanOutCarries == OrderInv /\ CarryInv /\ FanOut /\ UNCHANGED nodeVars => CarryInv'
<1> SUFFICES ASSUME OrderInv, CarryInv, FanOut, UNCHANGED nodeVars PROVE CarryInv'
  OBVIOUS
<1>1. got \in Nat /\ Arrived(got) /\ reader' = "top" /\ UNCHANGED <<got, bridge, msg, emitted>>
  BY DEF OrderInv, OrderTypes, FanOut, CarryInv, nodeVars
<1>2. ASSUME NEW s \in Subs PROVE \A k \in DOMAIN ch'[s].buf : Arrived(ch'[s].buf[k])
  <2>1. /\ ch[s].buf \in Seq(Nat) /\ DOMAIN ch[s] = {"buf", "closed"}
        /\ ch'[s].buf = ch[s].buf \/ ch'[s].buf = Append(ch[s].buf, got)
    BY DEF FanOut, OrderInv, OrderTypes
  <2> DEFINE q == ch[s].buf
  <2>2. /\ DOMAIN Append(q, got) = 1..(Len(q) + 1) /\ DOMAIN q = 1..Len(q) /\ Len(q) \in Nat
        /\ \A k \in DOMAIN q : Append(q, got)[k] = q[k]
        /\ Append(q, got)[Len(q) + 1] = got
    BY <1>1, <2>1
  <2> HIDE DEF q
  <2>3. \A k \in DOMAIN Append(q, got) : k \in DOMAIN q \/ k = Len(q) + 1
    BY <2>2
  <2>4. \A k \in DOMAIN q : Arrived(q[k])
    BY DEF CarryInv, q
  <2> QED
    BY <1>1, <2>1, <2>2, <2>3, <2>4 DEF q
<1> QED
  BY <1>1, <1>2 DEF CarryInv, Holds, Arrived, Carries

LEMMA BridgeRecvCarries == ASSUME OrderInv, CarryInv, NEW s \in Subs, BridgeRecv(s) PROVE CarryInv'
<1> DEFINE q == ch[s].buf
           i == Head(q)
           m == [i |-> i, body |-> ToMessage(Decode(Traffic[i])), seq |-> 0]
<1>1. q \in Seq(Nat) /\ q # << >> /\ DOMAIN ch[s] = {"buf", "closed"}
  BY DEF BridgeRecv, OrderInv, OrderTypes
<1>2. /\ 1 \in DOMAIN q /\ i = q[1]
      /\ \A k \in DOMAIN Tail(q) : k + 1 \in DOMAIN q /\ Tail(q)[k] = q[k + 1]
  BY <1>1
<1>3. Arrived(i)
  BY <1>2 DEF CarryInv
<1>4. Carries(m)
  BY <1>3 DEF Carries
<1>5. /\ msg' = [msg EXCEPT ![s] = m] /\ bridge' = [bridge EXCEPT ![s] = "stamp"]
      /\ UNCHANGED <<emitted, got, reader>> /\ DOMAIN msg = Subs /\ DOMAIN bridge = Subs
      /\ ch'[s].buf = Tail(q) /\ \A u \in Subs : u # s => ch'[u] = ch[u]
  BY <1>1 DEF BridgeRecv, readVars, OrderInv, OrderTypes
<1>6. \A k \in DOMAIN Tail(q) : Arrived(Tail(q)[k])
  BY <1>2 DEF CarryInv
<1> HIDE DEF m, q
<1>7. \A j : Arrived(j)' = Arrived(j)
  BY DEF Arrived
<1>8. \A x : Carries(x)' = Carries(x)
  BY DEF Carries, Arrived
<1>9. ASSUME NEW u \in Subs
      PROVE  /\ \A k \in DOMAIN ch'[u].buf : Arrived(ch'[u].buf[k])
             /\ Holds(u)' => Carries(msg'[u])
             /\ \A k \in DOMAIN emitted'[u] : Carries(emitted'[u][k])
  <2>1. CASE u = s
    BY <1>4, <1>5, <1>6, <2>1 DEF CarryInv
  <2>2. CASE u # s
    BY <1>5, <2>2 DEF CarryInv, Holds
  <2> QED
    BY <2>1, <2>2
<1> QED
  BY <1>5, <1>7, <1>8, <1>9 DEF CarryInv

LEMMA StampCarries == ASSUME OrderInv, CarryInv, NEW s \in Subs, Stamp(s) PROVE CarryInv'
<1> DEFINE m == [msg[s] EXCEPT !.seq = seq + 1]
<1>1. msg[s] \in Held /\ Carries(msg[s])
  BY DEF Stamp, Holds, OrderInv, OrderTypes, CarryInv
<1>2. m.i = msg[s].i /\ m.body = msg[s].body
  BY <1>1 DEF Held
<1>3. Carries(m)
  BY <1>1, <1>2 DEF Carries
<1>4. /\ msg' = [msg EXCEPT ![s] = m] /\ bridge' = [bridge EXCEPT ![s] = "push"]
      /\ UNCHANGED <<emitted, got, reader, ch>> /\ DOMAIN msg = Subs /\ DOMAIN bridge = Subs
  BY DEF Stamp, socketVars, busVars, readVars, OrderInv, OrderTypes
<1> HIDE DEF m
<1>5. \A j : Arrived(j)' = Arrived(j)
  BY DEF Arrived
<1>6. \A x : Carries(x)' = Carries(x)
  BY DEF Carries, Arrived
<1> QED
  BY <1>3, <1>4, <1>5, <1>6 DEF CarryInv, Holds

LEMMA PushCarries == ASSUME OrderInv, CarryInv, NEW s \in Subs, Push(s) PROVE CarryInv'
<1>1. /\ msg[s] \in Held /\ Carries(msg[s]) /\ emitted \in [Subs -> Seq(Held)]
      /\ DOMAIN msg = Subs /\ DOMAIN bridge = Subs
  BY DEF Push, Holds, OrderInv, OrderTypes, CarryInv
<1>2. /\ msg' = [msg EXCEPT ![s] = NoMessage] /\ bridge' = [bridge EXCEPT ![s] = "recv"]
      /\ UNCHANGED <<got, reader, ch>>
      /\ emitted' = emitted \/ emitted' = [emitted EXCEPT ![s] = Append(@, msg[s])]
  BY DEF Push, Emit, socketVars, busVars, readVars
<1> DEFINE e == emitted[s]
<1>3. /\ e \in Seq(Held)
      /\ emitted'[s] = e \/ emitted'[s] = Append(e, msg[s])
      /\ \A u \in Subs : u # s => emitted'[u] = emitted[u]
  BY <1>1, <1>2
<1>4. /\ DOMAIN Append(e, msg[s]) = 1..(Len(e) + 1) /\ DOMAIN e = 1..Len(e) /\ Len(e) \in Nat
      /\ \A k \in DOMAIN e : Append(e, msg[s])[k] = e[k]
      /\ Append(e, msg[s])[Len(e) + 1] = msg[s]
  BY <1>1, <1>3
<1> HIDE DEF e
<1>5. \A k \in DOMAIN Append(e, msg[s]) : k \in DOMAIN e \/ k = Len(e) + 1
  BY <1>4
<1>6. \A k \in DOMAIN e : Carries(e[k])
  BY DEF CarryInv, e
<1>7. \A k \in DOMAIN emitted'[s] : Carries(emitted'[s][k])
  BY <1>1, <1>3, <1>4, <1>5, <1>6
<1>8. \A j : Arrived(j)' = Arrived(j)
  BY DEF Arrived
<1>9. \A x : Carries(x)' = Carries(x)
  BY DEF Carries, Arrived
<1> QED
  BY <1>1, <1>2, <1>3, <1>7, <1>8, <1>9 DEF CarryInv, Holds

LEMMA CarryNext == OrderInv /\ CarryInv /\ [Next]_vars => CarryInv'
<1> SUFFICES ASSUME OrderInv, CarryInv, [Next]_vars PROVE CarryInv'
  OBVIOUS
<1>1. CASE UNCHANGED vars
  BY <1>1, CarryKept DEF vars, socketVars, busVars, readVars, nodeVars
<1>2. CASE BusNext /\ UNCHANGED nodeVars
  <2>1. CASE ReadFrame
    BY <1>2, <2>1, ReadCarries
  <2>2. CASE FanOut
    BY <1>2, <2>2, FanOutCarries
  <2>3. CASE ReaderTop \/ ReadTimeout \/ ReadFails
    BY <1>2, <2>3, CarryKept DEF ReaderTop, ReadTimeout, ReadFails, busVars, nodeVars
  <2>4. ASSUME NEW t \in Senders,
               SendStep(t) \/ \E f \in Samples : SendRefused(t, f) \/ SendClosed(t, f) \/ SendEnter(t, f)
        PROVE  CarryInv'
    BY <1>2, <2>4, CarryKept
    DEF SendStep, LoadFd, Write, SendRefused, SendClosed, SendEnter, busVars, readVars, nodeVars
  <2>5. ASSUME NEW c \in Closers, CloseAgain(c) \/ CloseEnter(c) \/ CloseStep(c) PROVE CarryInv'
    <3>1. UNCHANGED <<reader, got>>
      BY <2>5 DEF CloseAgain, CloseEnter, CloseStep, StopReader, JoinReader, CloseFd, ClearFd, CloseChannels,
         readVars
    <3>2. \A s \in Subs : ch'[s].buf = ch[s].buf
      BY <2>5 DEF CloseAgain, CloseEnter, CloseStep, StopReader, JoinReader, CloseFd, ClearFd, CloseChannels,
         busVars, OrderInv, OrderTypes
    <3> QED
      BY <1>2, <3>1, <3>2, CarryKept DEF nodeVars
  <2> QED
    BY <1>2, <2>1, <2>2, <2>3, <2>4, <2>5 DEF BusNext, ReaderStep
<1>3. ASSUME NEW t \in Senders, NEW m \in Messages, NodeSendInvalid(t, m) \/ NodeSend(t, m) PROVE CarryInv'
  BY <1>3, CarryKept
  DEF NodeSendInvalid, NodeSend, SendRefused, SendClosed, SendEnter, busVars, readVars, nodeVars
<1>4. ASSUME NEW s \in Subs, NodeSubscribe(s) \/ BridgeEnd(s) \/ Recv(s) \/ Leave(s) PROVE CarryInv'
  BY <1>4, CarryKept
  DEF NodeSubscribe, Subscribe, BridgeEnd, Recv, Leave, socketVars, busVars, readVars, OrderInv, OrderTypes
<1>5. ASSUME NEW s \in Subs, BridgeStep(s) PROVE CarryInv'
  BY <1>4, <1>5, BridgeRecvCarries, StampCarries, PushCarries DEF BridgeStep
<1> QED
  BY <1>1, <1>2, <1>3, <1>4, <1>5 DEF Next

\* What a node hands out stands for the frame on the wire and can be sent on, unless
\* it is a remote request with a length (REQ-CAN-015, can.cpp:79-152), on a bus where
\* frames of CAN FD have the lengths of CAN FD.
THEOREM HandsOnExactly ==
  ASSUME CanonicalTraffic
  PROVE  Spec => []Forwardable
<1>1. Init => CarryInv
  BY DEF Init, BusInit, CarryInv, Holds
<1>2. CarryInv => Forwardable
  <2> SUFFICES ASSUME CarryInv, NEW s \in Subs, NEW l \in DOMAIN emitted[s]
               PROVE  LET k == Traffic[emitted[s][l].i]
                          body == emitted[s][l].body
                      IN IF IsRequestWithLength(k) THEN ~Accepts(body)
                         ELSE Accepts(body) /\ FrameOf(body) = Decode(k)
    BY DEF Forwardable
  <2>1. Carries(emitted[s][l])
    BY DEF CarryInv
  <2> QED
    BY <2>1, HandedOn DEF Carries, Arrived
<1> QED
  BY <1>1, <1>2, OrderInit, OrderNext, CarryNext, PTL DEF Spec

-----------------------------------------------------------------------------
(* Types *)

\* A channel of the bus keeps its size; the threads are told to stop by close.
BusSizes ==
  /\ closed \in BOOLEAN /\ stop \in BOOLEAN /\ (stop => closed) /\ subs \subseteq Subs
  /\ \A s \in Subs : Len(ch[s].buf) <= ChanDepth[s]

\* The channel of a subscriber holds the last messages it took, not more than its depth.
OutFits(s) ==
  /\ DOMAIN out[s] = {"buf", "closed"} /\ out[s].buf \in Seq(Held)
  /\ Len(out[s].buf) <= OutDepth[s]
  /\ Ends(out[s].buf, emitted[s])

NodeSizes ==
  /\ DOMAIN out = Subs
  /\ \A s \in Subs : /\ bridge[s] \in {"none", "recv", "stamp", "push", "done"}
                     /\ ~Holds(s) => msg[s] = NoMessage
                     /\ OutFits(s)

LEMMA SizesInit == Init => BusSizes /\ NodeSizes
<1> SUFFICES ASSUME Init PROVE BusSizes /\ NodeSizes
  OBVIOUS
<1>1. \A s \in Subs : ChanDepth[s] \in Nat /\ OutDepth[s] \in Nat
  BY SocketCanAssumption, RelayNodeAssumption DEF SocketCanAssumption, RelayNodeAssumption
<1>2. \A S : << >> \in Seq(S)
  OBVIOUS
<1>3. BusSizes
  <2>1. \A s \in Subs : ch[s].buf = << >>
    BY DEF Init, BusInit
  <2>2. \A s \in Subs : Len(ch[s].buf) <= ChanDepth[s]
    BY <1>1, <2>1
  <2> QED
    BY <2>2 DEF Init, BusInit, BusSizes
<1>4. ASSUME NEW s \in Subs PROVE OutFits(s)
  <2>1. out[s].buf = << >> /\ emitted[s] = << >> /\ DOMAIN out[s] = {"buf", "closed"}
    BY DEF Init
  <2> QED
    BY <1>1, <1>2, <2>1 DEF OutFits, Ends
<1>5. NodeSizes
  BY <1>4 DEF Init, NodeSizes, Holds
<1> QED
  BY <1>3, <1>5

LEMMA BusSizesNext == CloseInv /\ BusSizes /\ [Next]_vars => BusSizes'
<1> SUFFICES ASSUME CloseInv, BusSizes, [Next]_vars PROVE BusSizes'
  OBVIOUS
<1>1. \A s \in Subs : DOMAIN ch[s] = {"buf", "closed"} /\ ch[s].buf \in Seq(Nat) /\ ChanDepth[s] \in Nat
  BY SocketCanAssumption DEF SocketCanAssumption, CloseInv, Places
<1>2. ASSUME UNCHANGED <<closed, stop, subs, ch>> PROVE BusSizes'
  BY <1>2 DEF BusSizes
<1>3. CASE UNCHANGED vars
  BY <1>2, <1>3 DEF vars, socketVars, busVars
<1>4. CASE FanOut
  <2>1. ASSUME NEW s \in Subs PROVE Len(ch'[s].buf) <= ChanDepth[s]
    <3>1. \/ ch'[s] = ch[s]
          \/ ch'[s].buf = Append(ch[s].buf, got) /\ Len(ch[s].buf) < ChanDepth[s]
      BY <1>1, <1>4 DEF FanOut, Takes
    <3>2. got \in Nat => Len(Append(ch[s].buf, got)) = Len(ch[s].buf) + 1
      BY <1>1
    <3> QED
      BY <1>1, <3>1, <3>2 DEF BusSizes, CloseInv, Places
  <2> QED
    BY <1>4, <2>1 DEF FanOut, BusSizes
<1>5. ASSUME NEW c \in Closers, CloseAgain(c) \/ CloseEnter(c) \/ CloseStep(c) PROVE BusSizes'
  <2>1. CASE CloseAgain(c) \/ CloseEnter(c)
    BY <2>1 DEF CloseAgain, CloseEnter, busVars, BusSizes
  <2>2. CASE StopReader(c)
    <3>1. c \in Closing
      BY <2>2 DEF StopReader, Closing
    <3> QED
      BY <2>2, <3>1 DEF StopReader, CloseInv, Protocol, BusSizes
  <2>3. CASE JoinReader(c) \/ CloseFd(c) \/ ClearFd(c)
    BY <2>3 DEF JoinReader, CloseFd, ClearFd, busVars, BusSizes
  <2>4. CASE CloseChannels(c)
    <3>1. \A s \in Subs : ch'[s].buf = ch[s].buf
      BY <1>1, <2>4 DEF CloseChannels
    <3> QED
      BY <2>4, <3>1 DEF CloseChannels, BusSizes
  <2> QED
    BY <1>5, <2>1, <2>2, <2>3, <2>4 DEF CloseStep
<1>6. ASSUME NEW t \in Senders, NEW f, SendStep(t) \/ SendRefused(t, f) \/ SendClosed(t, f) \/ SendEnter(t, f)
      PROVE  BusSizes'
  BY <1>2, <1>6 DEF SendStep, LoadFd, Write, SendRefused, SendClosed, SendEnter, busVars
<1>7. CASE BusNext
  BY <1>2, <1>4, <1>5, <1>6, <1>7 DEF BusNext, ReaderStep, ReaderTop, ReadFrame, ReadTimeout, ReadFails, busVars
<1>8. ASSUME NEW t \in Senders, NEW m \in Messages, NodeSendInvalid(t, m) \/ NodeSend(t, m) PROVE BusSizes'
  BY <1>2, <1>6, <1>8 DEF NodeSendInvalid, NodeSend, busVars
<1>9. ASSUME NEW s \in Subs, NodeSubscribe(s) PROVE BusSizes'
  BY <1>9 DEF NodeSubscribe, Subscribe, BusSizes
<1>10. ASSUME NEW s \in Subs, BridgeRecv(s) PROVE BusSizes'
  <2>1. ASSUME NEW u \in Subs PROVE Len(ch'[u].buf) <= ChanDepth[u]
    <3>1. CASE u = s
      <4>1. ch[s].buf # << >> /\ ch'[s].buf = Tail(ch[s].buf)
        BY <1>1, <1>10 DEF BridgeRecv, CloseInv, Places
      <4>2. Len(Tail(ch[s].buf)) = Len(ch[s].buf) - 1 /\ Len(ch[s].buf) \in Nat
        BY <1>1, <4>1
      <4> QED
        BY <1>1, <3>1, <4>1, <4>2 DEF BusSizes
    <3>2. CASE u # s
      BY <1>10, <3>2 DEF BridgeRecv, CloseInv, Places, BusSizes
    <3> QED
      BY <3>1, <3>2
  <2> QED
    BY <1>10, <2>1 DEF BridgeRecv, BusSizes
<1>11. ASSUME NEW s \in Subs, Stamp(s) \/ Push(s) \/ BridgeEnd(s) \/ Recv(s) \/ Leave(s) PROVE BusSizes'
  BY <1>2, <1>11 DEF Stamp, Push, BridgeEnd, Recv, Leave, socketVars, busVars
<1> QED
  BY <1>3, <1>7, <1>8, <1>9, <1>10, <1>11 DEF Next, BridgeStep

\* Steps that leave the bridges and the channels of the subscribers alone.
LEMMA NodeStill ==
  ASSUME NodeSizes, UNCHANGED <<bridge, msg, out, emitted>>
  PROVE  NodeSizes'
  BY ZenonT(60) DEF NodeSizes, OutFits, Holds, Ends, Held

LEMMA PushFits == ASSUME OrderInv, NodeSizes, NEW s \in Subs, Push(s) PROVE OutFits(s)'
<1> DEFINE q == out[s].buf
           e == emitted[s]
           m == msg[s]
<1>1. m \in Held /\ emitted \in [Subs -> Seq(Held)]
  BY DEF Push, Holds, OrderInv, OrderTypes
<1>2. /\ q \in Seq(Held) /\ e \in Seq(Held) /\ Ends(q, e) /\ Len(q) \in Nat /\ Len(q) <= OutDepth[s]
      /\ DOMAIN out[s] = {"buf", "closed"} /\ DOMAIN out = Subs
  BY <1>1 DEF NodeSizes, OutFits
<1>3. OutDepth[s] \in Nat /\ OutDepth[s] > 0
  BY RelayNodeAssumption DEF RelayNodeAssumption
<1>4. \/ out' = out /\ emitted' = emitted
      \/ ~Full(s) /\ out'[s].buf = Append(q, m) /\ emitted'[s] = Append(e, m)
      \/ Full(s) /\ out'[s].buf = Append(Tail(q), m) /\ emitted'[s] = Append(e, m)
  BY <1>1, <1>2 DEF Push, Emit, MakeRoom
<1>5. DOMAIN out'[s] = {"buf", "closed"}
  BY <1>2 DEF Push, Emit
<1>6. OutFits(s)' <=> /\ DOMAIN out'[s] = {"buf", "closed"} /\ out'[s].buf \in Seq(Held)
                      /\ Len(out'[s].buf) <= OutDepth[s]
                      /\ Ends(out'[s].buf, emitted'[s])
  BY DEF OutFits, Ends, Held
<1>7. Full(s) <=> Len(q) >= OutDepth[s]
  BY DEF Full
<1>8. ASSUME Full(s)
      PROVE  Tail(q) \in Seq(Held) /\ Len(Tail(q)) = Len(q) - 1 /\ Ends(Tail(q), e)
  <2>1. q # << >>
    BY <1>2, <1>3, <1>7, <1>8
  <2>2. Ends(Tail(q), e)
    BY <1>2, <2>1, EndsKept
  <2> QED
    BY <1>2, <2>1, <2>2
<1> HIDE DEF q, e, m
<1>9. CASE out' = out /\ emitted' = emitted
  BY <1>2, <1>6, <1>9 DEF q, e
<1>10. CASE ~Full(s) /\ out'[s].buf = Append(q, m) /\ emitted'[s] = Append(e, m)
  <2>1. Ends(Append(q, m), Append(e, m))
    BY <1>1, <1>2, EndsKept DEF m
  <2>2. Append(q, m) \in Seq(Held) /\ Len(Append(q, m)) = Len(q) + 1
    BY <1>1, <1>2 DEF m
  <2> QED
    BY <1>2, <1>3, <1>5, <1>6, <1>7, <1>10, <2>1, <2>2
<1>11. CASE Full(s) /\ out'[s].buf = Append(Tail(q), m) /\ emitted'[s] = Append(e, m)
  <2> DEFINE r == Tail(q)
  <2>1. r \in Seq(Held) /\ Len(r) = Len(q) - 1 /\ Ends(r, e)
    BY <1>8, <1>11
  <2> HIDE DEF r
  <2>2. Ends(Append(r, m), Append(e, m))
    BY <1>1, <1>2, <2>1, EndsKept DEF m
  <2>3. Append(r, m) \in Seq(Held) /\ Len(Append(r, m)) = Len(r) + 1
    BY <1>1, <2>1 DEF m
  <2>4. Len(r) + 1 <= OutDepth[s]
    BY <1>2, <1>3, <2>1
  <2> QED
    BY <1>5, <1>6, <1>11, <2>2, <2>3, <2>4 DEF r
<1> QED
  BY <1>4, <1>9, <1>10, <1>11

LEMMA NodeSizesNext == OrderInv /\ NodeSizes /\ [Next]_vars => NodeSizes'
<1> SUFFICES ASSUME OrderInv, NodeSizes, [Next]_vars PROVE NodeSizes'
  OBVIOUS
<1>1. DOMAIN bridge = Subs /\ DOMAIN msg = Subs /\ DOMAIN out = Subs /\ emitted \in [Subs -> Seq(Held)]
  BY DEF OrderInv, OrderTypes, NodeSizes
<1>2. ASSUME NEW s \in Subs, UNCHANGED <<out, emitted>> PROVE OutFits(s)'
  BY <1>2 DEF NodeSizes, OutFits, Ends, Held
<1>3. CASE UNCHANGED nodeVars
  BY <1>3, NodeStill DEF nodeVars
<1>4. ASSUME NEW s \in Subs, NodeSubscribe(s) PROVE NodeSizes'
  BY <1>1, <1>2, <1>4 DEF NodeSubscribe, NodeSizes, Holds
<1>5. ASSUME NEW s \in Subs, BridgeRecv(s) \/ Stamp(s) PROVE NodeSizes'
  <2>1. \E place \in {"stamp", "push"} : bridge' = [bridge EXCEPT ![s] = place]
    BY <1>5 DEF BridgeRecv, Stamp
  <2>2. UNCHANGED <<out, emitted>> /\ \A u \in Subs : u # s => msg'[u] = msg[u]
    BY <1>1, <1>5 DEF BridgeRecv, Stamp
  <2> QED
    BY <1>1, <1>2, <2>1, <2>2 DEF NodeSizes, Holds
<1>6. ASSUME NEW s \in Subs, Push(s) PROVE NodeSizes'
  <2>1. ASSUME NEW u \in Subs PROVE OutFits(u)'
    <3>1. CASE u = s
      BY <1>6, <3>1, PushFits
    <3>2. CASE u # s
      <4>1. out'[u] = out[u] /\ emitted'[u] = emitted[u]
        BY <1>1, <1>6, <3>2 DEF Push, Emit
      <4> QED
        BY ZenonT(60), <4>1 DEF NodeSizes, OutFits, Ends, Held
    <3> QED
      BY <3>1, <3>2
  <2>2. msg' = [msg EXCEPT ![s] = NoMessage] /\ bridge' = [bridge EXCEPT ![s] = "recv"] /\ DOMAIN out' = Subs
    BY <1>1, <1>6 DEF Push, Emit
  <2> QED
    BY <1>1, <2>1, <2>2 DEF NodeSizes, Holds
<1>7. ASSUME NEW s \in Subs, BridgeEnd(s) \/ Leave(s) PROVE NodeSizes'
  <2>1. /\ UNCHANGED <<msg, emitted>> /\ out' = [out EXCEPT ![s].closed = TRUE]
        /\ bridge' = bridge \/ (bridge[s] = "recv" /\ bridge' = [bridge EXCEPT ![s] = "done"])
    <3>1. CASE BridgeEnd(s)
      BY <3>1 DEF BridgeEnd
    <3>2. CASE Leave(s)
      BY <3>2 DEF Leave
    <3> QED
      BY <1>7, <3>1, <3>2
  <2>2. ASSUME NEW u \in Subs PROVE OutFits(u)'
    <3>1. DOMAIN out[u] = {"buf", "closed"}
      BY DEF NodeSizes, OutFits
    <3>2. out'[u].buf = out[u].buf /\ DOMAIN out'[u] = {"buf", "closed"}
      BY <1>1, <2>1, <3>1
    <3>3. OutFits(u)' <=> /\ DOMAIN out'[u] = {"buf", "closed"} /\ out'[u].buf \in Seq(Held)
                          /\ Len(out'[u].buf) <= OutDepth[u]
                          /\ Ends(out'[u].buf, emitted'[u])
      BY DEF OutFits, Ends, Held
    <3>4. emitted'[u] = emitted[u]
      BY <2>1
    <3> QED
      BY <3>2, <3>3, <3>4 DEF NodeSizes, OutFits
  <2> QED
    BY <1>1, <2>1, <2>2 DEF NodeSizes, Holds
<1>8. ASSUME NEW s \in Subs, Recv(s) PROVE NodeSizes'
  <2>1. ASSUME NEW u \in Subs PROVE OutFits(u)'
    <3>1. CASE u = s
      <4> DEFINE q == out[s].buf
                 r == Tail(q)
      <4>1. q # << >> /\ q \in Seq(Held) /\ DOMAIN out[s] = {"buf", "closed"} /\ Ends(q, emitted[s])
            /\ Len(q) <= OutDepth[s] /\ OutDepth[s] \in Nat
        BY <1>8, RelayNodeAssumption DEF Recv, NodeSizes, OutFits, RelayNodeAssumption
      <4>2. out'[s].buf = r /\ DOMAIN out'[s] = {"buf", "closed"} /\ emitted' = emitted
        BY <1>1, <1>8, <4>1 DEF Recv
      <4>3. Ends(r, emitted[s])
        BY <1>1, <4>1, EndsKept
      <4>4. r \in Seq(Held) /\ Len(r) = Len(q) - 1 /\ Len(q) \in Nat
        BY <4>1
      <4> HIDE DEF r, q
      <4>5. Len(r) <= OutDepth[s]
        BY <4>1, <4>4
      <4> QED
        BY <3>1, <4>2, <4>3, <4>4, <4>5 DEF OutFits, Ends, Held
    <3>2. CASE u # s
      <4>1. out'[u] = out[u] /\ emitted'[u] = emitted[u]
        BY <1>1, <1>8, <3>2 DEF Recv
      <4> QED
        BY ZenonT(60), <4>1 DEF NodeSizes, OutFits, Ends, Held
    <3> QED
      BY <3>1, <3>2
  <2> QED
    BY <1>1, <1>8, <2>1 DEF Recv, NodeSizes, Holds
<1>9. ASSUME NEW t \in Senders, NEW m \in Messages, NodeSendInvalid(t, m) \/ NodeSend(t, m) PROVE NodeSizes'
  BY <1>3, <1>9 DEF NodeSendInvalid, NodeSend
<1>10. CASE UNCHANGED vars
  BY <1>3, <1>10 DEF vars
<1> QED
  BY <1>3, <1>4, <1>5, <1>6, <1>7, <1>8, <1>9, <1>10 DEF Next, BridgeStep

\* One thread at most is inside close, no channel is larger than it may be, and what
\* a subscriber has still to receive is the end of what it was given.
THEOREM Types == Spec => []TypeOK
<1>1. CloseInv /\ OrderInv /\ BusSizes /\ NodeSizes => TypeOK
  <2> SUFFICES ASSUME CloseInv, OrderInv, BusSizes, NodeSizes PROVE TypeOK
    OBVIOUS
  <2>1. Cardinality(Closing) <= 1
    <3>1. CASE Closing = {}
      BY <3>1, FS_EmptySet
    <3>2. CASE Closing # {}
      <4>1. PICK c \in Closing : Closing = {c}
        BY <3>2 DEF CloseInv, Protocol
      <4>2. Cardinality({c}) = 1
        BY FS_Singleton
      <4> QED
        BY <4>1, <4>2
    <3> QED
      BY <3>1, <3>2
  <2>2. BusTypeOK
    BY <2>1 DEF BusTypeOK, BusSizes, CloseInv, Places, Protocol
  <2>3. ASSUME NEW s \in Subs PROVE msg[s] # NoMessage <=> bridge[s] \in {"stamp", "push"}
    <3>1. Holds(s) => msg[s] # NoMessage
      <4>1. \A m \in Held : "i" \in DOMAIN m
        BY DEF Held
      <4> QED
        BY <4>1 DEF OrderInv, OrderTypes, NoMessage
    <3> QED
      BY <3>1 DEF NodeSizes, Holds
  <2>4. ASSUME NEW s \in Subs PROVE IsSuffix(out[s].buf, emitted[s])
    BY EndIsSuffix DEF NodeSizes, OutFits, OrderInv, OrderTypes
  <2> QED
    BY <2>2, <2>3, <2>4 DEF TypeOK, NodeSizes, OutFits, OrderInv, OrderTypes
<1> QED
  BY <1>1, CloseInit, CloseNext, OrderInit, OrderNext, SizesInit, BusSizesNext, NodeSizesNext, PTL DEF Spec
====================================================================================
