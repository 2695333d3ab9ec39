-------------------------------- MODULE J1939Bam --------------------------------
(***************************************************************************)
(* The broadcast transport of can::j1939::Bus (src/j1939/pgn.cpp): send_tp   *)
(* announces a payload of more than eight bytes (TP.CM_BAM) and sends it in  *)
(* packets of seven (TP.DT); the thread that subscribe_tp starts reassembles *)
(* one session per source address.  Nothing is acknowledged: the medium may  *)
(* lose or repeat packets, sessions expire, other ECUs announce what they    *)
(* like.  A frame carries which part of which message it is, an announcement *)
(* part 0; of that the reassembly looks at nothing but the sequence number.  *)
(***************************************************************************)
EXTENDS Naturals, Sequences, FiniteSets, Functions

CONSTANTS
  Senders,       \* threads that call send_tp, each on a bus of its own ...
  Addr,          \* ... with source address Addr[t]
  Sizes,         \* payload sizes
  Pgns, Wanted,  \* parameter group numbers; those the subscription asks for
  Announced,     \* announcements of other ECUs: [src, total, np, pgn]
  MaxSessions,   \* kMaxBamSessions
  OutDepth,      \* capacity of the channel of messages (64)
  MaxMsgs,       \* bound: MaxMsgs[t], the calls of send_tp of t
  MaxQueue,      \* bound: frames the reader lags behind
  MaxForeign,    \* bound: announcements of other ECUs
  MaxFaults      \* bound: packets the medium loses or repeats

Addrs == {Addr[t] : t \in Senders} \cup {b.src : b \in Announced}

ASSUME J1939BamAssumption ==
  /\ Addr \in [Senders -> Addrs] /\ IsInjective(Addr)
  /\ {Addr[t] : t \in Senders} \cap {b.src : b \in Announced} = {}
  /\ Announced \subseteq [src : {b.src : b \in Announced}, total : Nat, np : Nat, pgn : Pgns]
  /\ Sizes \subseteq Nat /\ Wanted \subseteq Pgns
  /\ {MaxSessions, MaxQueue, OutDepth} \subseteq Nat \ {0}
  /\ {MaxForeign, MaxFaults} \subseteq Nat /\ MaxMsgs \in [Senders -> Nat]

VARIABLES
  raw,        \* the CAN frames the reassembly thread has not read
  closed,     \* the CAN bus, and so raw, is closed
  tx,         \* tx[t]: the locals of t's send_tp: packets sent, of how many
  msgs,       \* msgs[t]: the payloads t has announced
  sessions,   \* sessions[a]: the session of source address a; of is a history: the
              \* message it was opened for
  out,        \* the channel handed to the subscriber, not yet read
  outClosed,
  faults, foreign,  \* for the bounds
  delivered,  \* history: the messages put into out, in order
  disturbed,  \* history: addresses whose traffic the medium, a full channel, a
              \* time-out, the session limit or close has cut short
  unannounced \* history: addresses that had an announcement lost

vars == <<raw, closed, tx, msgs, sessions, out, outClosed, faults, foreign,
          delivered, disturbed, unannounced>>

MinBytes == 9
MaxBytes == 1785
BytesPerPacket == 7

NoSession == [total |-> 0, np |-> 0]
Idle == [m |-> 0, sent |-> 0, np |-> 0]

Bam(a, total, np, pgn, m) ==
  [type |-> "BAM", src |-> a, total |-> total, np |-> np, pgn |-> pgn, part |-> <<m, 0>>]
Dt(a, i, m) == [type |-> "DT", src |-> a, seq |-> i, part |-> <<m, i>>]

Init ==
  /\ raw = <<>> /\ closed = FALSE
  /\ tx = [t \in Senders |-> Idle]
  /\ msgs = [t \in Senders |-> <<>>]
  /\ sessions = [a \in Addrs |-> NoSession]
  /\ out = <<>> /\ outClosed = FALSE
  /\ faults = 0 /\ foreign = 0
  /\ delivered = <<>> /\ disturbed = {} /\ unannounced = {}

-----------------------------------------------------------------------------
(* send_tp *)

\* can_->send: a frame may be lost, on the way or by a full subscription, or be
\* repeated.
Broadcast(f) ==
  \/ /\ Len(raw) < MaxQueue
     /\ raw' = Append(raw, f)
     /\ UNCHANGED <<faults, disturbed, unannounced>>
  \/ /\ faults < MaxFaults
     /\ faults' = faults + 1
     /\ disturbed' = disturbed \cup {f.src}
     /\ unannounced' = unannounced \cup {a \in {f.src} : f.type = "BAM"}
     /\ UNCHANGED raw
  \/ /\ faults < MaxFaults /\ Len(raw) < MaxQueue
     /\ faults' = faults + 1
     /\ raw' = raw \o <<f, f>>
     /\ UNCHANGED <<disturbed, unannounced>>

Packets(n) == (n + BytesPerPacket - 1) \div BytesPerPacket

MayCall(t) == tx[t] = Idle /\ Len(msgs[t]) < MaxMsgs[t]

\* A payload of another size is refused before anything is sent.
Announce(t) ==
  /\ MayCall(t) /\ ~closed
  /\ \E n \in Sizes, pgn \in Pgns :
       /\ n \in MinBytes..MaxBytes
       /\ Broadcast(Bam(Addr[t], n, Packets(n), pgn, Len(msgs[t]) + 1))
       /\ msgs' = [msgs EXCEPT ![t] = Append(@, [size |-> n, pgn |-> pgn])]
       /\ tx' = [tx EXCEPT ![t] = [m |-> Len(msgs[t]) + 1, sent |-> 0, np |-> Packets(n)]]
  /\ UNCHANGED <<closed, sessions, out, outClosed, foreign, delivered>>

Packet(t) ==
  /\ tx[t] # Idle /\ ~closed
  /\ LET i == tx[t].sent + 1 IN
       /\ Broadcast(Dt(Addr[t], i, tx[t].m))
       /\ tx' = [tx EXCEPT ![t] = IF i = @.np THEN Idle ELSE [@ EXCEPT !.sent = i]]
  /\ UNCHANGED <<closed, msgs, sessions, out, outClosed, foreign, delivered>>

\* The bus refuses the packet; send_tp gives up and returns the error.
SendClosed(t) ==
  /\ tx[t] # Idle /\ closed
  /\ tx' = [tx EXCEPT ![t] = Idle]
  /\ disturbed' = disturbed \cup {Addr[t]}
  /\ UNCHANGED <<raw, closed, msgs, sessions, out, outClosed, faults, foreign, delivered, unannounced>>

\* Another ECU announces something; its packets never come.
ForeignBam ==
  /\ foreign < MaxForeign /\ ~closed /\ Len(raw) < MaxQueue
  /\ \E b \in Announced : raw' = Append(raw, Bam(b.src, b.total, b.np, b.pgn, 0))
  /\ foreign' = foreign + 1
  /\ UNCHANGED <<closed, tx, msgs, sessions, out, outClosed, faults, delivered, disturbed, unannounced>>

-----------------------------------------------------------------------------
(* The thread of subscribe_tp: one iteration per frame. *)

\* T1 passes without a packet for a's session.
T1Expires(a) ==
  /\ ~outClosed /\ sessions[a] # NoSession /\ ~sessions[a].stale
  /\ sessions' = [sessions EXCEPT ![a].stale = TRUE]
  /\ disturbed' = disturbed \cup {a}
  /\ UNCHANGED <<raw, closed, tx, msgs, out, outClosed, faults, foreign, delivered, unannounced>>

\* Fault: sessions are kept for ever.
Swept_Never == sessions

\* sweep_expired.
Swept == [a \in Addrs |-> IF sessions[a] # NoSession /\ sessions[a].stale
                          THEN NoSession ELSE sessions[a]]

Open(ss) == {a \in Addrs : ss[a] # NoSession}

Consume == raw # <<>> /\ raw' = Tail(raw)

\* Fault: the limit is checked against the old number of sessions.
RoomFor_Late(f, ss) == ss[f.src] # NoSession \/ Cardinality(Open(ss)) <= MaxSessions

RoomFor(f, ss) == ss[f.src] # NoSession \/ Cardinality(Open(ss)) < MaxSessions

\* A malformed announcement, or one session too many.
IgnoreBam ==
  /\ Consume
  /\ LET f == Head(raw) IN
       /\ f.type = "BAM"
       /\ f.total \notin MinBytes..MaxBytes \/ f.np = 0 \/ ~RoomFor(f, Swept)
       /\ disturbed' = disturbed \cup {f.src}
  /\ sessions' = Swept
  /\ UNCHANGED <<closed, tx, msgs, out, outClosed, faults, foreign, delivered, unannounced>>

\* A new session, in place of the one its source may have had.
OpenSession ==
  /\ Consume
  /\ LET f == Head(raw) IN
       /\ f.type = "BAM"
       /\ f.total \in MinBytes..MaxBytes /\ f.np > 0 /\ RoomFor(f, Swept)
       /\ sessions' = [Swept EXCEPT ![f.src] =
            [total |-> f.total, np |-> f.np, pgn |-> f.pgn, buf |-> <<>>,
             received |-> 0, stale |-> FALSE, of |-> f.part[1]]]
  /\ UNCHANGED <<closed, tx, msgs, out, outClosed, faults, foreign, delivered, disturbed, unannounced>>

\* Fault: the last packet is taken for one too many.
Fits_Short(f, s) == f.seq < s.np /\ f.seq \notin DOMAIN s.buf

\* Fault: a repeated packet counts again.
Fits_Repeated(f, s) == f.seq <= s.np

\* The packet is one the session still misses.
Fits(f, s) == f.seq <= s.np /\ f.seq \notin DOMAIN s.buf

IgnorePacket ==
  /\ Consume
  /\ LET f == Head(raw) IN
       /\ f.type = "DT"
       /\ Swept[f.src] = NoSession \/ ~Fits(f, Swept[f.src])
  /\ sessions' = Swept
  /\ UNCHANGED <<closed, tx, msgs, out, outClosed, faults, foreign, delivered, disturbed, unannounced>>

\* The session with the packet's seven bytes written.
Filled(s, f) ==
  [s EXCEPT !.buf = [i \in DOMAIN @ \cup {f.seq} |-> IF i = f.seq THEN f.part ELSE s.buf[i]],
            !.received = @ + 1]

TakePacket ==
  /\ Consume
  /\ LET f == Head(raw) IN
       /\ f.type = "DT"
       /\ Swept[f.src] # NoSession /\ Fits(f, Swept[f.src])
       /\ Filled(Swept[f.src], f).received < Swept[f.src].np
       /\ sessions' = [Swept EXCEPT ![f.src] = Filled(@, f)]
  /\ UNCHANGED <<closed, tx, msgs, out, outClosed, faults, foreign, delivered, disturbed, unannounced>>

\* The last missing packet: the message goes out, unless nobody asked for it or
\* the channel is full, and the session ends.
Complete ==
  /\ Consume
  /\ LET f == Head(raw)
         s == Filled(Swept[f.src], f)
         message == [src |-> f.src, total |-> s.total, pgn |-> s.pgn, buf |-> s.buf]
     IN /\ f.type = "DT"
        /\ Swept[f.src] # NoSession /\ Fits(f, Swept[f.src])
        /\ s.received = s.np
        /\ sessions' = [Swept EXCEPT ![f.src] = NoSession]
        /\ \/ /\ s.pgn \in Wanted /\ Len(out) < OutDepth
              /\ out' = Append(out, message)
              /\ delivered' = Append(delivered, message)
              /\ UNCHANGED disturbed
           \/ /\ s.pgn \in Wanted /\ Len(out) >= OutDepth
              /\ disturbed' = disturbed \cup {f.src}
              /\ UNCHANGED <<out, delivered>>
           \/ s.pgn \notin Wanted /\ UNCHANGED <<out, delivered, disturbed>>
  /\ UNCHANGED <<closed, tx, msgs, outClosed, faults, foreign, unannounced>>

\* What was queued is worked off before the end of raw is seen.
EndOfInput ==
  /\ raw = <<>> /\ closed /\ ~outClosed
  /\ outClosed' = TRUE
  /\ UNCHANGED <<raw, closed, tx, msgs, sessions, out, faults, foreign, delivered, disturbed, unannounced>>

-----------------------------------------------------------------------------
CloseBus ==
  /\ ~closed /\ closed' = TRUE
  /\ UNCHANGED <<raw, tx, msgs, sessions, out, outClosed, faults, foreign,
                 delivered, disturbed, unannounced>>

Recv ==
  /\ out # <<>> /\ out' = Tail(out)
  /\ UNCHANGED <<raw, closed, tx, msgs, sessions, outClosed, faults, foreign,
                 delivered, disturbed, unannounced>>

Read == IgnoreBam \/ OpenSession \/ IgnorePacket \/ TakePacket \/ Complete \/ EndOfInput

Next ==
  \/ \E t \in Senders : Announce(t) \/ Packet(t) \/ SendClosed(t)
  \/ ForeignBam
  \/ Read
  \/ \E a \in Addrs : T1Expires(a)
  \/ CloseBus \/ Recv

Spec == Init /\ [][Next]_vars

-----------------------------------------------------------------------------
\* Types; the number of sessions stays within its limit, a session counts the
\* packets it holds and is not complete.
TypeOK ==
  /\ Len(raw) <= MaxQueue + 1 /\ Len(out) <= OutDepth
  /\ closed \in BOOLEAN /\ (outClosed => closed /\ raw = <<>>)
  /\ Cardinality(Open(sessions)) <= MaxSessions
  /\ \A a \in Open(sessions) :
       /\ sessions[a].received = Cardinality(DOMAIN sessions[a].buf)
       /\ sessions[a].received < sessions[a].np

\* d is the m-th message of t: its packets, all of them and no others.
IsMessage(d, t, m) ==
  /\ d.src = Addr[t] /\ d.total = msgs[t][m].size /\ d.pgn = msgs[t][m].pgn
  /\ BytesPerPacket * Cardinality(DOMAIN d.buf) \in d.total..(d.total + BytesPerPacket - 1)
  /\ \A i \in DOMAIN d.buf : d.buf[i] = <<m, i>>

\* What is delivered has every packet in its place, and is a message its source has
\* sent, whole - no gap, no packet of another message - however packets are lost or
\* repeated, sessions expire or are replaced and sources interleave
\* (pgn.cpp:225-247; src/CHANGELOG.md:39).  Only an announcement that is lost lets the
\* packets of the next message into the session of the one before.
Whole ==
  \A k \in DOMAIN delivered : LET d == delivered[k] IN
    /\ \A i \in DOMAIN d.buf : d.buf[i][2] = i
    /\ d.src \notin unannounced => \E t \in Senders : \E m \in DOMAIN msgs[t] : IsMessage(d, t, m)

\* A session that has been silent for T1 delivers nothing any more, although it
\* is only looked at when the next frame comes (pgn.cpp:184-191, 198-201).
ExpiredIsDead ==
  [][\A a \in Addrs :
       delivered' # delivered /\ delivered'[Len(delivered')].src = a
         => sessions[a] # NoSession /\ ~sessions[a].stale]_vars

\* A message send_tp has sent and the subscriber asked for: once the reader has
\* caught up it is delivered, unless the traffic of its source was disturbed; a noisy
\* neighbour alone costs nothing (pgn.cpp:152-160, 205-224, 229-246).
Reaches ==
  raw = <<>> => \A t \in Senders :
    Addr[t] \notin disturbed /\ tx[t] = Idle
      => \A m \in DOMAIN msgs[t] : msgs[t][m].pgn \in Wanted
           => \E k \in DOMAIN delivered : IsMessage(delivered[k], t, m)

===============================================================================
