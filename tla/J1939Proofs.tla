------------------------------- MODULE J1939Proofs --------------------------------
(***************************************************************************)
(* Proofs about J1939Bam, for any number of senders, messages, other ECUs    *)
(* and faults and any limits: the sessions stay within their limit, what is  *)
(* delivered is whole, an expired session delivers nothing, and what nothing *)
(* disturbed arrives.  At the end, proofs about J1939Frames: the id of a      *)
(* frame says what send was given.                                           *)
(***************************************************************************)
EXTENDS J1939Bam, J1939Frames, FiniteSetTheorems, TLAPS

-----------------------------------------------------------------------------
(* The invariant *)

FrameSet ==
  [type : {"BAM"}, src : Addrs, total : Nat, np : Nat, pgn : Pgns, part : Nat \X Nat]
    \cup [type : {"DT"}, src : Addrs, seq : Nat, part : Nat \X Nat]

Message == [size : Nat, pgn : Pgns]
Buffers == UNION {[D -> Nat \X Nat] : D \in SUBSET Nat}
SessionSet ==
  [total : Nat, np : Nat, pgn : Pgns, buf : Buffers, received : Nat, stale : BOOLEAN, of : Nat]

Locals == [m : Nat, sent : Nat, np : Nat]

Shapes ==
  /\ raw \in Seq(FrameSet)
  /\ tx \in [Senders -> Locals]
  /\ msgs \in [Senders -> Seq(Message)]
  /\ DOMAIN sessions = Addrs

\* s is what t sends of its message m.
SessionFor(s, t, m, ms) ==
  /\ m \in DOMAIN ms[t]
  /\ s.total = ms[t][m].size /\ s.pgn = ms[t][m].pgn
  /\ s.total \in MinBytes..MaxBytes /\ s.np = Packets(s.total)

\* An announcement of t is one of a message of t; packets are sent by senders only.
Honest(f, ms) ==
  /\ f.type = "BAM" => \A t \in Senders : f.src = Addr[t] => SessionFor(f, t, f.part[1], ms)
  /\ f.type = "DT" => f.part[2] = f.seq /\ \E t \in Senders : f.src = Addr[t]

\* A session counts the packets it holds, each in its place; one of t was opened for
\* a message of t, and holds packets of no other if no announcement was lost.
Sound(a, s, ms, lost) ==
  s # NoSession =>
    /\ s \in SessionSet /\ s.total \in MinBytes..MaxBytes
    /\ IsFiniteSet(DOMAIN s.buf) /\ s.received = Cardinality(DOMAIN s.buf) /\ s.received < s.np
    /\ \A i \in DOMAIN s.buf : s.buf[i][2] = i
    /\ \A t \in Senders : a = Addr[t] =>
         /\ SessionFor(s, t, s.of, ms)
         /\ a \notin lost => \A i \in DOMAIN s.buf : s.buf[i] = <<s.of, i>>

Announces(f, a, m) == f.type = "BAM" /\ f.src = a /\ f.part[1] = m

\* A packet of message m of a at place j of r will find no session but that of m: the
\* announcement of m comes after whatever announces or has opened another one.
Ready(r, s, a, j, m) ==
  /\ s # NoSession /\ s.of # m => \E k \in 1..(j - 1) : Announces(r[k], a, m)
  /\ \A i \in 1..(j - 1) :
       r[i].type = "BAM" /\ r[i].src = a /\ r[i].part[1] # m
         => \E k \in (i + 1)..(j - 1) : Announces(r[k], a, m)

InTurn(t) ==
  /\ tx[t] # Idle => Ready(raw, sessions[Addr[t]], Addr[t], Len(raw) + 1, tx[t].m)
  /\ \A j \in DOMAIN raw : raw[j].type = "DT" /\ raw[j].src = Addr[t]
       => Ready(raw, sessions[Addr[t]], Addr[t], j, raw[j].part[1])

Inv ==
  /\ Shapes
  /\ \A j \in DOMAIN raw : Honest(raw[j], msgs)
  /\ \A a \in Addrs : Sound(a, sessions[a], msgs, unannounced)
  /\ \A t \in Senders : Addr[t] \notin unannounced => InTurn(t)

-----------------------------------------------------------------------------
(* Addresses and packets *)

\* Addresses tell senders apart, and other ECUs from them.
LEMMA Apart ==
  /\ \A t \in Senders : Addr[t] \in Addrs
  /\ \A t, u \in Senders : Addr[t] = Addr[u] => t = u
  /\ \A t \in Senders, b \in Announced : Addr[t] # b.src
  /\ \A b \in Announced : b.src \in Addrs /\ b.total \in Nat /\ b.np \in Nat /\ b.pgn \in Pgns
<1>1. /\ \A t \in Senders : Addr[t] \in Addrs
      /\ \A t, u \in Senders : Addr[t] = Addr[u] => t = u
  BY J1939BamAssumption DEF J1939BamAssumption, IsInjective
<1>2. \A t \in Senders, b \in Announced : Addr[t] # b.src
  BY J1939BamAssumption DEF J1939BamAssumption
<1>3. \A b \in Announced : b.src \in Addrs /\ b.total \in Nat /\ b.np \in Nat /\ b.pgn \in Pgns
  BY J1939BamAssumption DEF J1939BamAssumption, Addrs
<1> QED
  BY <1>1, <1>2, <1>3

\* The packets of a message hold its bytes, with room for less than one packet more.
LEMMA EnoughPackets ==
  ASSUME NEW n \in MinBytes..MaxBytes
  PROVE  /\ n \in Nat /\ Packets(n) \in Nat \ {0}
         /\ BytesPerPacket * Packets(n) \in n..(n + BytesPerPacket - 1)
  BY SMT DEF MinBytes, MaxBytes, BytesPerPacket, Packets

-----------------------------------------------------------------------------
(* What is said of frames and sessions outlasts new messages and losses. *)

Grows(ms, ms2) ==
  \A t \in Senders : \A m \in DOMAIN ms[t] : m \in DOMAIN ms2[t] /\ ms2[t][m] = ms[t][m]

LEMMA HonestGrows ==
  ASSUME NEW f, NEW ms, NEW ms2, Grows(ms, ms2), Honest(f, ms)
  PROVE  Honest(f, ms2)
  BY DEF Grows, Honest, SessionFor

LEMMA SoundGrows ==
  ASSUME NEW a, NEW s, NEW ms, NEW ms2, NEW lost, NEW lost2,
         Grows(ms, ms2), lost \subseteq lost2, Sound(a, s, ms, lost)
  PROVE  Sound(a, s, ms2, lost2)
  BY DEF Grows, Sound, SessionFor

LEMMA InitInv == Init => Inv
<1> SUFFICES ASSUME Init PROVE Inv
  OBVIOUS
<1>1. raw = <<>> /\ sessions = [a \in Addrs |-> NoSession] /\ \A t \in Senders : tx[t] = Idle
  BY DEF Init
<1>2. Shapes
  BY <1>1 DEF Init, Shapes, Locals, Idle
<1>3. \A t \in Senders : InTurn(t)
  BY <1>1 DEF InTurn
<1>4. \A a \in Addrs : Sound(a, sessions[a], msgs, unannounced)
  BY <1>1 DEF Sound
<1> QED
  BY <1>1, <1>2, <1>3, <1>4 DEF Inv

-----------------------------------------------------------------------------
(* What is sent *)

\* r2 is r with f behind it, not at all or once or more.
Extends(r, r2, f) ==
  /\ r2 \in Seq(FrameSet) /\ Len(r) <= Len(r2)
  /\ \A j \in 1..Len(r) : r2[j] = r[j]
  /\ \A j \in (Len(r) + 1)..Len(r2) : r2[j] = f

LEMMA BroadcastExtends ==
  ASSUME Inv, NEW f \in FrameSet, Broadcast(f)
  PROVE  /\ Extends(raw, raw', f)
         /\ unannounced \subseteq unannounced'
         /\ f.type = "BAM" /\ Len(raw') = Len(raw) => f.src \in unannounced'
<1>1. raw \in Seq(FrameSet)
  BY DEF Inv, Shapes
<1>2. CASE raw' = Append(raw, f) /\ UNCHANGED unannounced
  BY <1>1, <1>2 DEF Extends
<1>3. CASE raw' = raw /\ unannounced' = unannounced \cup {a \in {f.src} : f.type = "BAM"}
  <2>1. Extends(raw, raw', f)
    BY <1>1, <1>3 DEF Extends
  <2> QED
    BY <2>1, <1>3
<1>4. CASE raw' = raw \o <<f, f>> /\ UNCHANGED unannounced
  <2>1. <<f, f>> \in Seq(FrameSet) /\ Len(<<f, f>>) = 2
    OBVIOUS
  <2> QED
    BY <1>1, <1>4, <2>1 DEF Extends
<1> QED
  BY <1>2, <1>3, <1>4 DEF Broadcast

\* What is behind a place does not matter for it.
LEMMA ReadyKept ==
  ASSUME NEW r \in Seq(FrameSet), NEW r2, NEW f, Extends(r, r2, f), NEW s, NEW a,
         NEW j \in 1..(Len(r) + 1), NEW m, Ready(r, s, a, j, m)
  PROVE  Ready(r2, s, a, j, m)
<1>1. \A i \in 1..(j - 1) : r2[i] = r[i]
  BY DEF Extends
<1>2. \A i \in 1..(j - 1) : \A k \in (i + 1)..(j - 1) : k \in 1..(j - 1)
  OBVIOUS
<1> QED
  BY <1>1, <1>2 DEF Ready, Announces

\* Frames of others, packets and announcements of m do no harm.
LEMMA ReadyBehind ==
  ASSUME NEW r \in Seq(FrameSet), NEW r2, NEW f, Extends(r, r2, f), NEW s, NEW a, NEW m,
         Ready(r, s, a, Len(r) + 1, m), f.type = "BAM" /\ f.src = a => f.part[1] = m,
         NEW j \in (Len(r) + 1)..(Len(r2) + 1)
  PROVE  Ready(r2, s, a, j, m)
<1>1. Ready(r2, s, a, Len(r) + 1, m)
  BY ReadyKept
<1>2. Len(r) \in Nat /\ Len(r2) \in Nat
  BY DEF Extends
<1>3. \A i \in (Len(r) + 1)..(j - 1) : r2[i] = f
  BY <1>2 DEF Extends
<1>4. \A i \in 1..(j - 1) : i \in 1..Len(r) \/ i \in (Len(r) + 1)..(j - 1)
  BY <1>2
<1>5. \A i \in Nat : \A k \in (i + 1)..((Len(r) + 1) - 1) : k \in (i + 1)..(j - 1)
  BY <1>2
<1> QED
  BY <1>1, <1>2, <1>3, <1>4, <1>5 DEF Ready

\* A new announcement makes its message the one whose packets may follow.
LEMMA ReadyAnnounced ==
  ASSUME NEW r \in Seq(FrameSet), NEW r2, NEW f, Extends(r, r2, f), Len(r2) # Len(r), f.type = "BAM",
         NEW s
  PROVE  Ready(r2, s, f.src, Len(r2) + 1, f.part[1])
<1>1. Len(r) \in Nat /\ Len(r2) \in Nat /\ Len(r) + 1 \in 1..Len(r2)
  BY DEF Extends
<1>2. Announces(r2[Len(r) + 1], f.src, f.part[1])
  BY <1>1 DEF Extends, Announces
<1>3. \A i \in 1..Len(r2) : r2[i].part[1] # f.part[1] => Len(r) + 1 \in (i + 1)..Len(r2)
  BY <1>1 DEF Extends
<1> QED
  BY <1>1, <1>2, <1>3 DEF Ready


\* A step that sends an honest frame and leaves the reassembly alone; what is left to
\* show is about the sender itself.
LEMMA SendKeeps ==
  ASSUME Inv, NEW f \in FrameSet, Extends(raw, raw', f), unannounced \subseteq unannounced',
         UNCHANGED sessions, Grows(msgs, msgs'), msgs' \in [Senders -> Seq(Message)], Honest(f, msgs'),
         tx' \in [Senders -> Locals],
         \A u \in Senders : f.src # Addr[u] => tx'[u] = tx[u],
         \A u \in Senders : f.src = Addr[u] /\ Addr[u] \notin unannounced' => InTurn(u)'
  PROVE  Inv'
<1>1. Shapes'
  BY DEF Inv, Shapes, Extends
<1>2. ASSUME NEW j \in DOMAIN raw' PROVE Honest(raw'[j], msgs')
  <2>1. raw \in Seq(FrameSet) /\ raw' \in Seq(FrameSet)
    BY DEF Inv, Shapes, Extends
  <2>2. CASE j \in 1..Len(raw)
    <3>1. raw'[j] = raw[j] /\ Honest(raw[j], msgs)
      BY <2>1, <2>2 DEF Extends, Inv
    <3> QED
      BY <3>1, HonestGrows
  <2>3. CASE j \in (Len(raw) + 1)..Len(raw')
    BY <2>3 DEF Extends
  <2> QED
    BY <2>1, <2>2, <2>3
<1>3. ASSUME NEW a \in Addrs PROVE Sound(a, sessions'[a], msgs', unannounced')
  BY SoundGrows DEF Inv
<1>4. ASSUME NEW u \in Senders, Addr[u] \notin unannounced', f.src # Addr[u] PROVE InTurn(u)'
  <2> DEFINE a == Addr[u]
             s == sessions[Addr[u]]
  <2>1. InTurn(u) /\ tx'[u] = tx[u] /\ raw \in Seq(FrameSet) /\ raw' \in Seq(FrameSet)
    BY <1>4 DEF Inv, Shapes, Extends
  <2>2. ASSUME tx[u] # Idle PROVE Ready(raw', s, a, Len(raw') + 1, tx[u].m)
    <3>1. Ready(raw, s, a, Len(raw) + 1, tx[u].m)
      BY <2>1, <2>2 DEF InTurn
    <3>2. Len(raw') + 1 \in (Len(raw) + 1)..(Len(raw') + 1)
      BY <2>1 DEF Extends
    <3> QED
      BY <1>4, <2>1, <3>1, <3>2, ReadyBehind
  <2>3. ASSUME NEW j \in DOMAIN raw', raw'[j].type = "DT", raw'[j].src = a
        PROVE  Ready(raw', s, a, j, raw'[j].part[1])
    <3>1. j \in DOMAIN raw /\ raw'[j] = raw[j]
      <4>1. j \in 1..Len(raw) \/ j \in (Len(raw) + 1)..Len(raw')
        BY <2>1, <2>3
      <4>2. j \notin (Len(raw) + 1)..Len(raw')
        BY <1>4, <2>3 DEF Extends
      <4> QED
        BY <2>1, <4>1, <4>2 DEF Extends
    <3>2. Ready(raw, s, a, j, raw[j].part[1]) /\ j \in 1..(Len(raw) + 1)
      BY <2>1, <2>3, <3>1 DEF InTurn
    <3> QED
      BY <2>1, <3>1, <3>2, ReadyKept
  <2> QED
    BY <2>1, <2>2, <2>3 DEF InTurn
<1> QED
  BY <1>1, <1>2, <1>3, <1>4 DEF Inv

LEMMA AnnounceKeeps == ASSUME Inv, NEW t \in Senders, Announce(t) PROVE Inv'
<1> DEFINE m == Len(msgs[t]) + 1
<1>1. PICK n \in Sizes, pgn \in Pgns :
        /\ n \in MinBytes..MaxBytes
        /\ Broadcast(Bam(Addr[t], n, Packets(n), pgn, m))
        /\ msgs' = [msgs EXCEPT ![t] = Append(@, [size |-> n, pgn |-> pgn])]
        /\ tx' = [tx EXCEPT ![t] = [m |-> m, sent |-> 0, np |-> Packets(n)]]
  BY DEF Announce
<1> DEFINE f == Bam(Addr[t], n, Packets(n), pgn, m)
<1>2. /\ raw \in Seq(FrameSet) /\ msgs[t] \in Seq(Message) /\ m \in Nat
      /\ msgs \in [Senders -> Seq(Message)] /\ tx \in [Senders -> Locals]
  BY DEF Inv, Shapes
<1>3. n \in Nat /\ Packets(n) \in Nat \ {0} /\ [size |-> n, pgn |-> pgn] \in Message
  BY <1>1, EnoughPackets DEF Message
<1>4. /\ f \in FrameSet /\ f.type = "BAM" /\ f.src = Addr[t] /\ f.part[1] = m
      /\ f.total = n /\ f.np = Packets(n) /\ f.pgn = pgn
  BY <1>2, <1>3, Apart DEF Bam, FrameSet
<1>5. /\ msgs' \in [Senders -> Seq(Message)] /\ Grows(msgs, msgs')
      /\ m \in DOMAIN msgs'[t] /\ msgs'[t][m] = [size |-> n, pgn |-> pgn]
  <2>1. msgs'[t] = Append(msgs[t], [size |-> n, pgn |-> pgn]) /\ \A u \in Senders : u # t => msgs'[u] = msgs[u]
    BY <1>1, <1>2
  <2>2. msgs' \in [Senders -> Seq(Message)]
    BY <1>1, <1>2, <1>3
  <2>3. \A k \in DOMAIN msgs[t] : k \in DOMAIN msgs'[t] /\ msgs'[t][k] = msgs[t][k]
    BY <1>2, <1>3, <2>1
  <2>4. m \in DOMAIN msgs'[t] /\ msgs'[t][m] = [size |-> n, pgn |-> pgn]
    BY <1>2, <1>3, <2>1
  <2> QED
    BY <2>1, <2>2, <2>3, <2>4 DEF Grows
<1>6. Honest(f, msgs')
  <2>1. SessionFor(f, t, m, msgs')
    BY <1>1, <1>4, <1>5 DEF SessionFor
  <2>2. f.type # "DT"
    BY <1>4
  <2> QED
    BY <1>4, <2>1, <2>2, Apart DEF Honest
<1>7. /\ Extends(raw, raw', f) /\ unannounced \subseteq unannounced'
      /\ Len(raw') = Len(raw) => Addr[t] \in unannounced'
  BY <1>1, <1>4, BroadcastExtends
<1>8. UNCHANGED sessions
  BY DEF Announce
<1>9. /\ tx' \in [Senders -> Locals] /\ \A u \in Senders : u # t => tx'[u] = tx[u]
      /\ tx'[t].m = m
  <2>1. [m |-> m, sent |-> 0, np |-> Packets(n)] \in Locals
    BY <1>2, <1>3 DEF Locals
  <2> QED
    BY <1>1, <1>2, <2>1
<1>10. ASSUME Addr[t] \notin unannounced' PROVE InTurn(t)'
  <2> DEFINE s == sessions[Addr[t]]
  <2>1. Ready(raw', s, Addr[t], Len(raw') + 1, m)
    BY <1>2, <1>4, <1>7, <1>10, ReadyAnnounced
  <2>2. ASSUME NEW j \in DOMAIN raw', raw'[j].type = "DT", raw'[j].src = Addr[t]
        PROVE  Ready(raw', s, Addr[t], j, raw'[j].part[1])
    <3>1. j \in DOMAIN raw /\ raw'[j] = raw[j]
      <4>1. j \in 1..Len(raw) \/ j \in (Len(raw) + 1)..Len(raw')
        BY <1>2, <1>7, <2>2 DEF Extends
      <4>2. j \notin (Len(raw) + 1)..Len(raw')
        BY <1>4, <1>7, <2>2 DEF Extends
      <4> QED
        BY <1>2, <1>7, <4>1, <4>2 DEF Extends
    <3>2. Ready(raw, s, Addr[t], j, raw[j].part[1]) /\ j \in 1..(Len(raw) + 1)
      <4>1. InTurn(t) /\ Len(raw) \in Nat /\ DOMAIN raw = 1..Len(raw)
        BY <1>2, <1>7, <1>10 DEF Inv
      <4> QED
        BY <2>2, <3>1, <4>1 DEF InTurn
    <3> QED
      BY <1>2, <1>7, <3>1, <3>2, ReadyKept
  <2> QED
    BY <1>8, <1>9, <2>1, <2>2 DEF InTurn
<1>11. \A u \in Senders : f.src # Addr[u] => tx'[u] = tx[u]
  BY <1>4, <1>9
<1>12. \A u \in Senders : f.src = Addr[u] /\ Addr[u] \notin unannounced' => InTurn(u)'
  BY <1>4, <1>10, Apart
<1> QED
  BY <1>4, <1>5, <1>6, <1>7, <1>8, <1>9, <1>11, <1>12, SendKeeps

LEMMA PacketKeeps == ASSUME Inv, NEW t \in Senders, Packet(t) PROVE Inv'
<1> DEFINE m == tx[t].m
           i == tx[t].sent + 1
           f == Dt(Addr[t], i, m)
<1>1. /\ tx[t] # Idle /\ Broadcast(f)
      /\ tx' = [tx EXCEPT ![t] = IF i = @.np THEN Idle ELSE [@ EXCEPT !.sent = i]]
      /\ UNCHANGED <<msgs, sessions>>
  BY DEF Packet
<1>2. /\ raw \in Seq(FrameSet) /\ msgs \in [Senders -> Seq(Message)]
      /\ tx \in [Senders -> Locals] /\ m \in Nat /\ i \in Nat
  BY DEF Inv, Shapes, Locals
<1>3. f \in FrameSet /\ f.type = "DT" /\ f.src = Addr[t] /\ f.part[1] = m /\ f.part[2] = f.seq
  BY <1>2, Apart DEF Dt, FrameSet
<1>4. Grows(msgs, msgs') /\ Honest(f, msgs')
  BY <1>1, <1>3 DEF Grows, Honest
<1>5. Extends(raw, raw', f) /\ unannounced \subseteq unannounced'
  BY <1>1, <1>3, BroadcastExtends
<1>6. /\ tx' \in [Senders -> Locals] /\ \A u \in Senders : u # t => tx'[u] = tx[u]
      /\ tx'[t] = Idle \/ tx'[t].m = m
  <2>1. tx'[t] = IF i = tx[t].np THEN Idle ELSE [tx[t] EXCEPT !.sent = i]
    BY <1>1, <1>2
  <2>2. [tx[t] EXCEPT !.sent = i] \in Locals /\ [tx[t] EXCEPT !.sent = i].m = m
    BY <1>2 DEF Locals
  <2>3. Idle \in Locals
    BY DEF Idle, Locals
  <2> QED
    BY <1>1, <1>2, <2>1, <2>2, <2>3
<1>7. ASSUME Addr[t] \notin unannounced' PROVE InTurn(t)'
  <2> DEFINE s == sessions[Addr[t]]
  <2>1. InTurn(t) /\ Len(raw) \in Nat /\ Len(raw') \in Nat
    BY <1>5, <1>7 DEF Inv, Extends
  <2>2. Ready(raw, s, Addr[t], Len(raw) + 1, m)
    BY <1>1, <2>1 DEF InTurn
  <2>3. \A j \in (Len(raw) + 1)..(Len(raw') + 1) : Ready(raw', s, Addr[t], j, m)
    BY <1>2, <1>3, <1>5, <2>2, ReadyBehind
  <2>4. Len(raw') + 1 \in (Len(raw) + 1)..(Len(raw') + 1)
    BY <2>1, <1>5 DEF Extends
  <2>5. ASSUME NEW j \in DOMAIN raw', raw'[j].type = "DT", raw'[j].src = Addr[t]
        PROVE  Ready(raw', s, Addr[t], j, raw'[j].part[1])
    <3>1. CASE j \in 1..Len(raw)
      <4>1. raw'[j] = raw[j] /\ j \in DOMAIN raw
        BY <1>2, <1>5, <3>1 DEF Extends
      <4>2. Ready(raw, s, Addr[t], j, raw[j].part[1]) /\ j \in 1..(Len(raw) + 1)
        BY <2>1, <2>5, <3>1, <4>1 DEF InTurn
      <4> QED
        BY <1>2, <1>5, <4>1, <4>2, ReadyKept
    <3>2. CASE j \in (Len(raw) + 1)..Len(raw')
      <4>1. raw'[j] = f /\ j \in (Len(raw) + 1)..(Len(raw') + 1)
        BY <1>5, <2>1, <3>2 DEF Extends
      <4> QED
        BY <1>3, <2>3, <4>1
    <3> QED
      BY <1>5, <2>1, <2>5, <3>1, <3>2 DEF Extends
  <2> QED
    BY <1>1, <1>6, <2>3, <2>4, <2>5 DEF InTurn
<1> HIDE DEF f
<1>8. \A u \in Senders : f.src # Addr[u] => tx'[u] = tx[u]
  BY <1>3, <1>6
<1>9. \A u \in Senders : f.src = Addr[u] /\ Addr[u] \notin unannounced' => InTurn(u)'
  BY <1>3, <1>7, Apart
<1> QED
  BY <1>1, <1>2, <1>3, <1>4, <1>5, <1>6, <1>8, <1>9, SendKeeps

LEMMA ForeignKeeps == ASSUME Inv, ForeignBam PROVE Inv'
<1>1. PICK b \in Announced : raw' = Append(raw, Bam(b.src, b.total, b.np, b.pgn, 0))
  BY DEF ForeignBam
<1> DEFINE f == Bam(b.src, b.total, b.np, b.pgn, 0)
<1>2. UNCHANGED <<tx, msgs, sessions, unannounced>>
  BY DEF ForeignBam
<1>3. raw \in Seq(FrameSet) /\ msgs \in [Senders -> Seq(Message)]
  BY DEF Inv, Shapes
<1>4. f \in FrameSet /\ f.type = "BAM" /\ f.src = b.src
  BY Apart DEF Bam, FrameSet
<1> HIDE DEF f
<1>5. Extends(raw, raw', f)
  BY <1>1, <1>3, <1>4 DEF Extends, f
<1>6. Grows(msgs, msgs') /\ Honest(f, msgs')
  BY <1>2, <1>4, Apart DEF Grows, Honest
<1>7. \A u \in Senders : f.src # Addr[u]
  BY <1>4, Apart
<1> QED
  BY <1>2, <1>3, <1>4, <1>5, <1>6, <1>7, SendKeeps DEF Inv, Shapes

-----------------------------------------------------------------------------
(* What is read *)

\* s2 is what is left of s, or nothing.
Continues(s, s2) == s2 # NoSession => s # NoSession /\ s2.of = s.of

\* The sessions of senders are what they were, and closed ones.
LEMMA Still ==
  ASSUME Inv, UNCHANGED <<raw, msgs, unannounced>>, tx' \in [Senders -> Locals],
         \A t \in Senders : tx'[t] = Idle \/ tx'[t] = tx[t],
         DOMAIN sessions' = Addrs,
         \A a \in Addrs : Sound(a, sessions'[a], msgs, unannounced) /\ Continues(sessions[a], sessions'[a])
  PROVE  Inv'
<1>1. Shapes'
  BY DEF Inv, Shapes
<1>2. \A j \in DOMAIN raw' : Honest(raw'[j], msgs')
  BY DEF Inv
<1>3. ASSUME NEW t \in Senders, Addr[t] \notin unannounced' PROVE InTurn(t)'
  <2>1. InTurn(t) /\ Continues(sessions[Addr[t]], sessions'[Addr[t]])
    BY <1>3, Apart DEF Inv
  <2>2. \A j, m : Ready(raw, sessions[Addr[t]], Addr[t], j, m)
                    => Ready(raw, sessions'[Addr[t]], Addr[t], j, m)
    BY <2>1 DEF Ready, Continues
  <2> QED
    BY <2>1, <2>2 DEF InTurn
<1> QED
  BY <1>1, <1>2, <1>3 DEF Inv

LEMMA SendClosedKeeps == ASSUME Inv, NEW t \in Senders, SendClosed(t) PROVE Inv'
<1>1. /\ UNCHANGED <<raw, msgs, unannounced, sessions>> /\ tx \in [Senders -> Locals]
      /\ tx' = [tx EXCEPT ![t] = Idle]
  BY DEF Inv, Shapes, SendClosed
<1>2. Idle \in Locals
  BY DEF Idle, Locals
<1>3. tx' \in [Senders -> Locals] /\ \A u \in Senders : tx'[u] = Idle \/ tx'[u] = tx[u]
  BY <1>1, <1>2
<1>4. \A a \in Addrs : Continues(sessions[a], sessions'[a])
  BY <1>1 DEF Continues
<1> QED
  BY <1>1, <1>3, <1>4, Still DEF Inv, Shapes

LEMMA T1ExpiresKeeps == ASSUME Inv, NEW a \in Addrs, T1Expires(a) PROVE Inv'
<1>1. /\ UNCHANGED <<raw, msgs, unannounced, tx>> /\ tx \in [Senders -> Locals] /\ DOMAIN sessions = Addrs
      /\ sessions[a] # NoSession /\ sessions' = [sessions EXCEPT ![a].stale = TRUE]
  BY DEF Inv, Shapes, T1Expires
<1> DEFINE s == [sessions[a] EXCEPT !.stale = TRUE]
<1>2. DOMAIN sessions' = Addrs /\ sessions'[a] = s /\ \A b \in Addrs : b # a => sessions'[b] = sessions[b]
  BY <1>1
<1>3. Sound(a, sessions[a], msgs, unannounced) /\ sessions[a] \in SessionSet
  BY <1>1 DEF Inv, Sound
<1>4. /\ s \in SessionSet /\ s.total = sessions[a].total /\ s.np = sessions[a].np /\ s.of = sessions[a].of
      /\ s.pgn = sessions[a].pgn /\ s.buf = sessions[a].buf /\ s.received = sessions[a].received
  BY <1>3 DEF SessionSet
<1> HIDE DEF s
<1>5. Sound(a, s, msgs, unannounced)
  BY <1>1, <1>3, <1>4 DEF Sound, SessionFor
<1>6. \A b \in Addrs : Sound(b, sessions'[b], msgs, unannounced) /\ Continues(sessions[b], sessions'[b])
  BY <1>1, <1>2, <1>4, <1>5 DEF Inv, Continues
<1> QED
  BY <1>1, <1>2, <1>6, Still

\* What is said of places after the first outlasts its being read, if the first frame
\* left a session as it was, or announced what the session is now for.
LEMMA ReadyTail ==
  ASSUME NEW r \in Seq(FrameSet), r # <<>>, NEW a, NEW s, NEW s2,
         s2 # NoSession => \/ Announces(r[1], a, s2.of)
                           \/ Continues(s, s2) /\ ~(r[1].type = "BAM" /\ r[1].src = a),
         NEW j \in 2..(Len(r) + 1), NEW m, Ready(r, s, a, j, m)
  PROVE  Ready(Tail(r), s2, a, j - 1, m)
<1>1. Len(r) \in Nat /\ Len(r) >= 1 /\ \A i \in 1..(j - 2) : Tail(r)[i] = r[i + 1]
  OBVIOUS
<1>2. \A i \in 1..(j - 1) : \A k \in (i + 1)..(j - 1) :
        Announces(r[k], a, m) => k - 1 \in i..(j - 2) /\ Announces(Tail(r)[k - 1], a, m)
  BY <1>1
<1>3. ASSUME NEW k \in 1..(j - 1), k # 1, Announces(r[k], a, m)
      PROVE  k - 1 \in 1..((j - 1) - 1) /\ Announces(Tail(r)[k - 1], a, m)
  BY <1>1, <1>3
<1>4. ASSUME s2 # NoSession, s2.of # m
      PROVE  \E k \in 1..((j - 1) - 1) : Announces(Tail(r)[k], a, m)
  <2>1. \E k \in 1..(j - 1) : k # 1 /\ Announces(r[k], a, m)
    <3>1. CASE Announces(r[1], a, s2.of)
      <4>1. r[1].type = "BAM" /\ r[1].src = a /\ r[1].part[1] # m /\ 1 \in 1..(j - 1)
        BY <1>4, <3>1 DEF Announces
      <4>2. \E k \in (1 + 1)..(j - 1) : Announces(r[k], a, m)
        BY <4>1 DEF Ready
      <4> QED
        BY <4>2
    <3>2. CASE Continues(s, s2) /\ ~(r[1].type = "BAM" /\ r[1].src = a)
      BY <1>4, <3>2 DEF Ready, Continues, Announces
    <3> QED
      BY <1>4, <3>1, <3>2
  <2> QED
    BY <1>3, <2>1
<1>5. ASSUME NEW i \in 1..((j - 1) - 1), Tail(r)[i].type = "BAM", Tail(r)[i].src = a,
             Tail(r)[i].part[1] # m
      PROVE  \E k \in (i + 1)..((j - 1) - 1) : Announces(Tail(r)[k], a, m)
  <2>1. i + 1 \in 1..(j - 1) /\ Tail(r)[i] = r[i + 1]
    BY <1>1
  <2>2. \E k \in ((i + 1) + 1)..(j - 1) : Announces(r[k], a, m)
    BY <1>5, <2>1 DEF Ready
  <2>3. PICK k \in ((i + 1) + 1)..(j - 1) : Announces(r[k], a, m)
    BY <2>2
  <2>4. k - 1 \in (i + 1)..((j - 1) - 1) /\ Announces(Tail(r)[k - 1], a, m)
    BY <1>1, <2>3
  <2> QED
    BY <2>4
<1> QED
  BY <1>4, <1>5 DEF Ready

\* A step that reads the first frame and, of each session, keeps it, closes it or
\* opens it for what that frame announced.
LEMMA ReadKeeps ==
  ASSUME Inv, Consume, UNCHANGED <<tx, msgs, unannounced>>, DOMAIN sessions' = Addrs,
         \A a \in Addrs : Sound(a, sessions'[a], msgs, unannounced),
         \A t \in Senders : sessions'[Addr[t]] # NoSession =>
           \/ Announces(Head(raw), Addr[t], sessions'[Addr[t]].of)
           \/ /\ Continues(sessions[Addr[t]], sessions'[Addr[t]])
              /\ ~(Head(raw).type = "BAM" /\ Head(raw).src = Addr[t])
  PROVE  Inv'
<1>1. /\ raw \in Seq(FrameSet) /\ raw # <<>> /\ raw' = Tail(raw) /\ raw' \in Seq(FrameSet)
      /\ Head(raw) = raw[1]
  BY DEF Inv, Shapes, Consume
<1>2. Shapes'
  BY <1>1 DEF Inv, Shapes
<1>3. \A j \in DOMAIN raw' : j + 1 \in DOMAIN raw /\ raw'[j] = raw[j + 1] /\ j + 1 \in 2..(Len(raw) + 1)
  BY <1>1
<1>4. \A j \in DOMAIN raw' : Honest(raw'[j], msgs')
  BY <1>3 DEF Inv
<1>5. ASSUME NEW t \in Senders, Addr[t] \notin unannounced' PROVE InTurn(t)'
  <2> DEFINE a == Addr[t]
             s == sessions[Addr[t]]
             s2 == sessions'[Addr[t]]
  <2>1. InTurn(t)
    BY <1>5 DEF Inv
  <2>2. \A j \in 2..(Len(raw) + 1) : \A m : Ready(raw, s, a, j, m) => Ready(raw', s2, a, j - 1, m)
    BY <1>1, ReadyTail
  <2>3. ASSUME tx[t] # Idle PROVE Ready(raw', s2, a, Len(raw') + 1, tx[t].m)
    <3>1. Len(raw) + 1 \in 2..(Len(raw) + 1) /\ Len(raw') + 1 = (Len(raw) + 1) - 1
      BY <1>1
    <3> QED
      BY <2>1, <2>2, <2>3, <3>1 DEF InTurn
  <2>4. ASSUME NEW j \in DOMAIN raw', raw'[j].type = "DT", raw'[j].src = a
        PROVE  Ready(raw', s2, a, j, raw'[j].part[1])
    <3>1. Ready(raw, s, a, j + 1, raw[j + 1].part[1])
      BY <1>3, <2>1, <2>4 DEF InTurn
    <3>2. (j + 1) - 1 = j
      BY <1>1, <2>4
    <3> QED
      BY <1>3, <2>2, <3>1, <3>2
  <2> QED
    BY <2>3, <2>4 DEF InTurn
<1> QED
  BY <1>2, <1>4, <1>5 DEF Inv

\* What the sweep leaves.
LEMMA SweptFacts ==
  ASSUME Inv
  PROVE  /\ DOMAIN Swept = Addrs
         /\ \A a \in Addrs : Swept[a] = NoSession \/ (Swept[a] = sessions[a] /\ ~sessions[a].stale)
         /\ \A a \in Addrs : Sound(a, Swept[a], msgs, unannounced) /\ Continues(sessions[a], Swept[a])
<1>1. ASSUME NEW a \in Addrs
      PROVE  Swept[a] = NoSession \/ (Swept[a] = sessions[a] /\ ~sessions[a].stale)
  <2>1. Swept[a] = IF sessions[a] # NoSession /\ sessions[a].stale THEN NoSession ELSE sessions[a]
    BY DEF Swept
  <2> QED
    BY <2>1, Zenon
<1>2. ASSUME NEW a \in Addrs
      PROVE  Sound(a, Swept[a], msgs, unannounced) /\ Continues(sessions[a], Swept[a])
  <2>1. Sound(a, NoSession, msgs, unannounced) /\ Continues(sessions[a], NoSession)
    BY DEF Sound, Continues
  <2>2. Sound(a, sessions[a], msgs, unannounced) /\ Continues(sessions[a], sessions[a])
    BY DEF Inv, Continues
  <2> QED
    BY <1>1, <2>1, <2>2
<1> QED
  BY <1>1, <1>2 DEF Swept

\* The first frame.
LEMMA First ==
  ASSUME Inv, raw # <<>>
  PROVE  /\ Head(raw) = raw[1] /\ Head(raw) \in FrameSet /\ Honest(Head(raw), msgs)
         /\ Head(raw).src \in Addrs
         /\ \A t \in Senders : /\ Addr[t] \notin unannounced
                               /\ Head(raw).type = "DT" /\ Head(raw).src = Addr[t]
              => Ready(raw, sessions[Addr[t]], Addr[t], 1, Head(raw).part[1])
<1>1. raw \in Seq(FrameSet) /\ 1 \in DOMAIN raw /\ Head(raw) = raw[1] /\ raw[1] \in FrameSet
  BY DEF Inv, Shapes
<1>2. Head(raw).src \in Addrs
  BY <1>1 DEF FrameSet
<1> QED
  BY <1>1, <1>2 DEF Inv, InTurn

LEMMA IgnoreBamKeeps == ASSUME Inv, IgnoreBam PROVE Inv'
<1> DEFINE f == Head(raw)
<1>1. /\ Consume /\ raw # <<>> /\ UNCHANGED <<tx, msgs, unannounced>> /\ sessions' = Swept
      /\ f.type = "BAM" /\ (f.total \notin MinBytes..MaxBytes \/ f.np = 0 \/ ~RoomFor(f, Swept))
  BY DEF IgnoreBam, Consume
<1>2. Honest(f, msgs)
  BY <1>1, First
<1>3. ASSUME NEW t \in Senders, f.src = Addr[t] PROVE Swept[Addr[t]] = NoSession
  <2>1. f.total \in MinBytes..MaxBytes /\ f.np = Packets(f.total)
    BY <1>1, <1>2, <1>3 DEF Honest, SessionFor
  <2>2. \A n \in MinBytes..MaxBytes : Packets(n) # 0
    BY EnoughPackets
  <2> QED
    BY <1>1, <1>3, <2>1, <2>2 DEF RoomFor
<1> QED
  BY <1>1, <1>3, SweptFacts, Apart, ReadKeeps

LEMMA OpenSessionKeeps == ASSUME Inv, OpenSession PROVE Inv'
<1> DEFINE f == Head(raw)
           s == [total |-> f.total, np |-> f.np, pgn |-> f.pgn, buf |-> <<>>,
                 received |-> 0, stale |-> FALSE, of |-> f.part[1]]
<1>1. /\ Consume /\ raw # <<>> /\ UNCHANGED <<tx, msgs, unannounced>>
      /\ sessions' = [Swept EXCEPT ![f.src] = s]
      /\ f.type = "BAM" /\ f.total \in MinBytes..MaxBytes /\ f.np > 0
  BY DEF OpenSession, Consume
<1>2. f \in FrameSet /\ Honest(f, msgs) /\ f.src \in Addrs
  BY <1>1, First
<1>3. /\ DOMAIN sessions' = Addrs /\ sessions'[f.src] = s
      /\ \A a \in Addrs : a # f.src => sessions'[a] = Swept[a]
  BY <1>1, <1>2, SweptFacts
<1>4. s \in SessionSet /\ DOMAIN s.buf = {} /\ s.received = 0 /\ s.of = f.part[1]
  <2>1. f.total \in Nat /\ f.np \in Nat /\ f.pgn \in Pgns /\ f.part[1] \in Nat
    BY <1>1, <1>2 DEF FrameSet
  <2>2. <<>> \in [{} -> Nat \X Nat] /\ DOMAIN <<>> = {}
    OBVIOUS
  <2>3. <<>> \in Buffers
    BY <2>2 DEF Buffers
  <2> QED
    BY <2>1, <2>2, <2>3 DEF SessionSet
<1>5. Sound(f.src, s, msgs, unannounced)
  <2>1. IsFiniteSet({}) /\ Cardinality({}) = 0
    BY FS_EmptySet
  <2>2. \A t \in Senders : f.src = Addr[t] => SessionFor(s, t, s.of, msgs)
    BY <1>1, <1>2, <1>4 DEF Honest, SessionFor
  <2>3. s.received < s.np
    <3>1. f.np \in Nat
      BY <1>1, <1>2 DEF FrameSet
    <3> QED
      BY <1>1, <3>1
  <2> QED
    BY <1>1, <1>4, <2>1, <2>2, <2>3 DEF Sound
<1> HIDE DEF s
<1>6. \A a \in Addrs : Sound(a, sessions'[a], msgs, unannounced)
  BY <1>3, <1>5, SweptFacts
<1>7. \A t \in Senders : f.src = Addr[t] => Announces(f, Addr[t], sessions'[Addr[t]].of)
  BY <1>1, <1>3, <1>4 DEF Announces
<1>8. \A t \in Senders : f.src # Addr[t] => Continues(sessions[Addr[t]], sessions'[Addr[t]])
  BY <1>3, SweptFacts, Apart
<1> QED
  BY <1>1, <1>3, <1>6, <1>7, <1>8, ReadKeeps

LEMMA IgnorePacketKeeps == ASSUME Inv, IgnorePacket PROVE Inv'
<1>1. /\ Consume /\ UNCHANGED <<tx, msgs, unannounced>> /\ sessions' = Swept
      /\ Head(raw).type = "DT"
  BY DEF IgnorePacket
<1> QED
  BY <1>1, SweptFacts, Apart, ReadKeeps

\* What writing a packet into a session changes of it, and what it leaves.
LEMMA FilledIs ==
  ASSUME NEW q \in SessionSet, IsFiniteSet(DOMAIN q.buf), q.received = Cardinality(DOMAIN q.buf),
         NEW f, f.seq \in Nat, f.part \in Nat \X Nat, f.seq \notin DOMAIN q.buf,
         NEW s, s = Filled(q, f)
  PROVE  /\ s \in SessionSet /\ s.total = q.total /\ s.np = q.np /\ s.pgn = q.pgn /\ s.of = q.of
         /\ IsFiniteSet(DOMAIN s.buf) /\ s.received = Cardinality(DOMAIN s.buf) /\ s.received \in Nat
         /\ \A i \in DOMAIN s.buf : IF i = f.seq THEN s.buf[i] = f.part
                                    ELSE i \in DOMAIN q.buf /\ s.buf[i] = q.buf[i]
<1> DEFINE D == DOMAIN q.buf
           buf == [i \in D \cup {f.seq} |-> IF i = f.seq THEN f.part ELSE q.buf[i]]
<1>1. PICK E \in SUBSET Nat : q.buf \in [E -> Nat \X Nat]
  BY DEF SessionSet, Buffers
<1>2. D \cup {f.seq} \in SUBSET Nat /\ \A i \in D : q.buf[i] \in Nat \X Nat
  BY <1>1
<1>3. buf \in [D \cup {f.seq} -> Nat \X Nat]
  BY <1>2
<1>4. buf \in Buffers
  BY <1>2, <1>3 DEF Buffers
<1>5. q.received \in Nat /\ q.received + 1 \in Nat
  BY DEF SessionSet
<1>6. s = [q EXCEPT !.buf = buf, !.received = q.received + 1]
  BY DEF Filled
<1>7. DOMAIN buf = D \cup {f.seq} /\ \A i \in DOMAIN buf : buf[i] = IF i = f.seq THEN f.part ELSE q.buf[i]
  OBVIOUS
<1> HIDE DEF buf
<1>8. /\ s \in SessionSet /\ s.buf = buf /\ s.received = q.received + 1 /\ s.total = q.total
      /\ s.np = q.np /\ s.pgn = q.pgn /\ s.of = q.of
  <2>1. /\ s.buf = buf /\ s.received = q.received + 1 /\ s.total = q.total /\ s.np = q.np
        /\ s.pgn = q.pgn /\ s.of = q.of /\ s.stale = q.stale
    BY <1>6 DEF SessionSet
  <2>2. s = [total |-> q.total, np |-> q.np, pgn |-> q.pgn, buf |-> buf, received |-> q.received + 1,
             stale |-> q.stale, of |-> q.of]
    BY <1>6 DEF SessionSet
  <2>3. q.total \in Nat /\ q.np \in Nat /\ q.pgn \in Pgns /\ q.stale \in BOOLEAN /\ q.of \in Nat
    BY DEF SessionSet
  <2>4. s \in SessionSet
    BY <1>4, <1>5, <2>2, <2>3 DEF SessionSet
  <2> QED
    BY <2>1, <2>4
<1>9. IsFiniteSet(D \cup {f.seq}) /\ Cardinality(D \cup {f.seq}) = q.received + 1
  <2>1. IsFiniteSet(D) /\ f.seq \notin D
    OBVIOUS
  <2>2. Cardinality(D \cup {f.seq}) = Cardinality(D) + 1
    BY <2>1, FS_AddElement
  <2> QED
    BY <2>1, <2>2, FS_AddElement
<1> QED
  BY <1>5, <1>7, <1>8, <1>9

\* A packet taken into the session of its source is one that session was missing and,
\* if it comes from a sender that lost no announcement, one of its own message.
LEMMA FilledFacts ==
  ASSUME Inv, raw # <<>>, NEW f, f = Head(raw), f.type = "DT",
         Swept[f.src] # NoSession, Fits(f, Swept[f.src]),
         NEW s, s = Filled(Swept[f.src], f)
  PROVE  /\ s \in SessionSet /\ s.total \in MinBytes..MaxBytes
         /\ IsFiniteSet(DOMAIN s.buf) /\ s.received = Cardinality(DOMAIN s.buf) /\ s.received \in Nat
         /\ \A i \in DOMAIN s.buf : s.buf[i][2] = i
         /\ \A t \in Senders : f.src = Addr[t] =>
              /\ SessionFor(s, t, s.of, msgs)
              /\ f.src \notin unannounced => \A i \in DOMAIN s.buf : s.buf[i] = <<s.of, i>>
         /\ s.np = Swept[f.src].np /\ s.of = sessions[f.src].of
         /\ ~sessions[f.src].stale /\ sessions[f.src] # NoSession
<1> DEFINE q == Swept[f.src]
<1>1. f \in FrameSet /\ f.src \in Addrs /\ Honest(f, msgs)
  BY First
<1>2. q = sessions[f.src] /\ ~sessions[f.src].stale /\ Sound(f.src, q, msgs, unannounced)
  BY <1>1, SweptFacts
<1>3. /\ q \in SessionSet /\ q.total \in MinBytes..MaxBytes
      /\ IsFiniteSet(DOMAIN q.buf) /\ q.received = Cardinality(DOMAIN q.buf)
      /\ \A i \in DOMAIN q.buf : q.buf[i][2] = i
      /\ \A t \in Senders : f.src = Addr[t] =>
           /\ SessionFor(q, t, q.of, msgs)
           /\ f.src \notin unannounced => \A i \in DOMAIN q.buf : q.buf[i] = <<q.of, i>>
  BY <1>2 DEF Sound
<1>4. f.seq \in Nat /\ f.part \in Nat \X Nat /\ f.part[2] = f.seq /\ f.seq \notin DOMAIN q.buf
  BY <1>1 DEF FrameSet, Honest, Fits
<1>5. ASSUME NEW t \in Senders, f.src = Addr[t], f.src \notin unannounced
      PROVE  f.part = <<q.of, f.seq>>
  <2>1. Ready(raw, sessions[f.src], f.src, 1, f.part[1])
    BY <1>5, First
  <2>2. q.of = f.part[1]
    BY <1>2, <2>1 DEF Ready
  <2> QED
    BY <1>4, <2>2
<1> HIDE DEF q
<1>6. /\ s \in SessionSet /\ s.total = q.total /\ s.np = q.np /\ s.pgn = q.pgn /\ s.of = q.of
      /\ IsFiniteSet(DOMAIN s.buf) /\ s.received = Cardinality(DOMAIN s.buf) /\ s.received \in Nat
      /\ \A i \in DOMAIN s.buf : IF i = f.seq THEN s.buf[i] = f.part
                                 ELSE i \in DOMAIN q.buf /\ s.buf[i] = q.buf[i]
  <2>1. s = Filled(q, f)
    BY DEF q
  <2> QED
    BY <1>3, <1>4, <2>1, FilledIs
<1>7. ASSUME NEW i \in DOMAIN s.buf PROVE s.buf[i][2] = i
  <2>1. CASE i = f.seq
    BY <1>4, <1>6, <2>1
  <2>2. CASE i # f.seq
    BY <1>3, <1>6, <2>2
  <2> QED
    BY <2>1, <2>2
<1>8. ASSUME NEW t \in Senders, f.src = Addr[t]
      PROVE  /\ SessionFor(s, t, s.of, msgs)
             /\ f.src \notin unannounced => \A i \in DOMAIN s.buf : s.buf[i] = <<s.of, i>>
  <2>1. SessionFor(s, t, s.of, msgs)
    <3>1. SessionFor(q, t, q.of, msgs)
      BY <1>3, <1>8
    <3>2. s.total = q.total /\ s.np = q.np /\ s.pgn = q.pgn /\ s.of = q.of
      BY <1>6
    <3> QED
      BY <3>1, <3>2 DEF SessionFor
  <2>2. ASSUME f.src \notin unannounced, NEW i \in DOMAIN s.buf PROVE s.buf[i] = <<s.of, i>>
    <3>1. s.of = q.of
      BY <1>6
    <3>2. CASE i = f.seq
      BY <1>5, <1>6, <1>8, <2>2, <3>1, <3>2
    <3>3. CASE i # f.seq
      <4>1. q.buf[i] = <<q.of, i>> /\ s.buf[i] = q.buf[i]
        BY <1>3, <1>6, <1>8, <2>2, <3>3
      <4> QED
        BY <3>1, <4>1
    <3> QED
      BY <3>2, <3>3
  <2> QED
    BY <2>1, <2>2
<1>9. s.np = Swept[f.src].np /\ s.of = sessions[f.src].of /\ sessions[f.src] # NoSession
  BY <1>2, <1>6 DEF q
<1> QED
  BY <1>2, <1>3, <1>6, <1>7, <1>8, <1>9

LEMMA TakePacketKeeps == ASSUME Inv, TakePacket PROVE Inv'
<1> DEFINE f == Head(raw)
           s == Filled(Swept[f.src], f)
<1>1. /\ Consume /\ raw # <<>> /\ UNCHANGED <<tx, msgs, unannounced>>
      /\ sessions' = [Swept EXCEPT ![f.src] = s]
      /\ f.type = "DT" /\ Swept[f.src] # NoSession /\ Fits(f, Swept[f.src])
      /\ s.received < Swept[f.src].np
  BY DEF TakePacket, Consume
<1>2. f.src \in Addrs
  BY <1>1, First
<1>3. /\ DOMAIN sessions' = Addrs /\ sessions'[f.src] = s
      /\ \A a \in Addrs : a # f.src => sessions'[a] = Swept[a]
  BY <1>1, <1>2, SweptFacts
<1> HIDE DEF f, s
<1>4. Sound(f.src, s, msgs, unannounced) /\ Continues(sessions[f.src], s)
  BY <1>1, FilledFacts DEF f, s, Sound, Continues
<1>5. \A a \in Addrs : Sound(a, sessions'[a], msgs, unannounced) /\ Continues(sessions[a], sessions'[a])
  BY <1>3, <1>4, SweptFacts
<1>6. Head(raw).type = "DT"
  BY <1>1 DEF f
<1> QED
  BY <1>1, <1>3, <1>5, <1>6, Apart, ReadKeeps

LEMMA CompleteKeeps == ASSUME Inv, Complete PROVE Inv'
<1> DEFINE f == Head(raw)
<1>1. /\ Consume /\ raw # <<>> /\ UNCHANGED <<tx, msgs, unannounced>>
      /\ sessions' = [Swept EXCEPT ![f.src] = NoSession] /\ f.type = "DT"
  BY DEF Complete, Consume
<1>2. f.src \in Addrs
  BY <1>1, First
<1>3. /\ DOMAIN sessions' = Addrs
      /\ \A a \in Addrs : sessions'[a] = NoSession \/ sessions'[a] = Swept[a]
  BY <1>1, <1>2, SweptFacts
<1>4. \A a \in Addrs : Sound(a, sessions'[a], msgs, unannounced) /\ Continues(sessions[a], sessions'[a])
  BY <1>3, SweptFacts DEF Sound, Continues
<1> QED
  BY <1>1, <1>3, <1>4, Apart, ReadKeeps

LEMMA NextKeeps == ASSUME Inv, [Next]_vars PROVE Inv'
<1>1. ASSUME EndOfInput \/ CloseBus \/ Recv \/ UNCHANGED vars PROVE Inv'
  <2>1. UNCHANGED <<raw, tx, msgs, sessions, unannounced>>
    BY <1>1 DEF EndOfInput, CloseBus, Recv, vars
  <2> QED
    BY <2>1 DEF Inv, Shapes, InTurn
<1> QED
  BY <1>1, AnnounceKeeps, PacketKeeps, SendClosedKeeps, ForeignKeeps, IgnoreBamKeeps, OpenSessionKeeps,
     IgnorePacketKeeps, TakePacketKeeps, CompleteKeeps, T1ExpiresKeeps
  DEF Next, Read

LEMMA Invariance == Spec => []Inv
  BY InitInv, NextKeeps, PTL DEF Spec

-----------------------------------------------------------------------------
(* What is delivered *)

DeliverySet == [src : Addrs, total : Nat, pgn : Pgns, buf : Buffers]

\* Messages announced stay so, and what is lost stays lost.
LEMMA StepGrows ==
  ASSUME Inv, [Next]_vars
  PROVE  /\ Grows(msgs, msgs') /\ unannounced \subseteq unannounced'
         /\ Complete \/ UNCHANGED delivered
<1>1. ASSUME NEW t \in Senders, Announce(t) PROVE Grows(msgs, msgs')
  <2>1. PICK x : msgs' = [msgs EXCEPT ![t] = Append(@, x)]
    BY <1>1 DEF Announce
  <2>2. msgs \in [Senders -> Seq(Message)] /\ msgs[t] \in Seq(Message)
    BY DEF Inv, Shapes
  <2>3. msgs'[t] = Append(msgs[t], x) /\ \A u \in Senders : u # t => msgs'[u] = msgs[u]
    BY <2>1, <2>2
  <2>4. \A k \in DOMAIN msgs[t] : k \in DOMAIN Append(msgs[t], x) /\ Append(msgs[t], x)[k] = msgs[t][k]
    BY <2>2
  <2> QED
    BY <2>3, <2>4 DEF Grows
<1>2. ASSUME NEW f, Broadcast(f) PROVE unannounced \subseteq unannounced'
  BY <1>2 DEF Broadcast
<1>3. UNCHANGED msgs => Grows(msgs, msgs')
  BY DEF Grows
<1>4. ASSUME NEW t \in Senders, Announce(t) \/ Packet(t)
      PROVE  unannounced \subseteq unannounced' /\ UNCHANGED delivered
  BY <1>2, <1>4 DEF Announce, Packet
<1>5. ASSUME NEW t \in Senders, Packet(t) PROVE UNCHANGED msgs
  BY <1>5 DEF Packet
<1>6. ASSUME \/ \E t \in Senders : SendClosed(t)
             \/ ForeignBam \/ IgnoreBam \/ OpenSession \/ IgnorePacket \/ TakePacket
             \/ EndOfInput \/ CloseBus \/ Recv \/ UNCHANGED vars
             \/ \E a \in Addrs : T1Expires(a)
      PROVE  UNCHANGED <<msgs, unannounced, delivered>>
  BY <1>6 DEF SendClosed, ForeignBam, IgnoreBam, OpenSession, IgnorePacket, TakePacket,
              EndOfInput, CloseBus, Recv, vars, T1Expires
<1>7. Complete => UNCHANGED <<msgs, unannounced>>
  BY DEF Complete
<1> QED
  BY <1>1, <1>3, <1>4, <1>5, <1>6, <1>7 DEF Next, Read

\* The message a session holds when its last packet has come.
LEMMA FilledWhole ==
  ASSUME Inv, raw # <<>>, NEW f, f = Head(raw), f.type = "DT",
         Swept[f.src] # NoSession, Fits(f, Swept[f.src]),
         NEW s, s = Filled(Swept[f.src], f), s.received = s.np,
         NEW d, d = [src |-> f.src, total |-> s.total, pgn |-> s.pgn, buf |-> s.buf],
         NEW t \in Senders, f.src = Addr[t], f.src \notin unannounced
  PROVE  IsMessage(d, t, s.of) /\ s.of \in DOMAIN msgs[t]
<1>1. /\ s.received = Cardinality(DOMAIN s.buf)
      /\ SessionFor(s, t, s.of, msgs) /\ \A i \in DOMAIN s.buf : s.buf[i] = <<s.of, i>>
  BY FilledFacts
<1>2. d.src = f.src /\ d.total = s.total /\ d.pgn = s.pgn /\ d.buf = s.buf
  OBVIOUS
<1>3. Cardinality(DOMAIN d.buf) = Packets(d.total) /\ d.total \in MinBytes..MaxBytes
  BY <1>1, <1>2 DEF SessionFor
<1>4. BytesPerPacket * Cardinality(DOMAIN d.buf) \in d.total..(d.total + BytesPerPacket - 1)
  BY <1>3, EnoughPackets
<1> QED
  BY <1>1, <1>2, <1>4 DEF IsMessage, SessionFor

\* The message that the last missing packet completes.
LEMMA CompletesWhole ==
  ASSUME Inv, Complete
  PROVE  \/ UNCHANGED delivered
         \/ \E d \in DeliverySet :
              /\ delivered' = Append(delivered, d)
              /\ sessions[d.src] # NoSession /\ ~sessions[d.src].stale
              /\ \A i \in DOMAIN d.buf : d.buf[i][2] = i
              /\ d.src \notin unannounced => \E t \in Senders : \E m \in DOMAIN msgs[t] : IsMessage(d, t, m)
<1> DEFINE f == Head(raw)
           s == Filled(Swept[f.src], f)
           d == [src |-> f.src, total |-> s.total, pgn |-> s.pgn, buf |-> s.buf]
<1>1. /\ raw # <<>> /\ f.type = "DT" /\ Swept[f.src] # NoSession /\ Fits(f, Swept[f.src])
      /\ s.received = s.np
      /\ delivered' = Append(delivered, d) \/ UNCHANGED delivered
  BY DEF Complete, Consume
<1>2. f.src \in Addrs /\ Honest(f, msgs)
  BY <1>1, First
<1> HIDE DEF f, s
<1>3. /\ s \in SessionSet
      /\ s.received = Cardinality(DOMAIN s.buf)
      /\ \A i \in DOMAIN s.buf : s.buf[i][2] = i
      /\ \A t \in Senders : f.src = Addr[t] =>
           /\ SessionFor(s, t, s.of, msgs)
           /\ f.src \notin unannounced => \A i \in DOMAIN s.buf : s.buf[i] = <<s.of, i>>
      /\ ~sessions[f.src].stale /\ sessions[f.src] # NoSession
  BY <1>1, FilledFacts DEF f, s
<1>4. /\ d \in DeliverySet /\ d.src = f.src /\ d.total = s.total /\ d.pgn = s.pgn /\ d.buf = s.buf
  <2>1. s.total \in Nat /\ s.pgn \in Pgns /\ s.buf \in Buffers
    BY <1>3 DEF SessionSet
  <2> QED
    BY <1>2, <2>1 DEF DeliverySet
<1> HIDE DEF d
<1>5. PICK t \in Senders : f.src = Addr[t]
  BY <1>1, <1>2 DEF Honest
<1>6. ASSUME d.src \notin unannounced PROVE IsMessage(d, t, s.of)
  BY <1>1, <1>4, <1>5, <1>6, FilledWhole DEF f, s, d
<1>7. s.of \in DOMAIN msgs[t]
  BY <1>3, <1>5 DEF SessionFor
<1>8. CASE delivered' = Append(delivered, d)
  BY <1>3, <1>4, <1>6, <1>7, <1>8
<1> QED
  BY <1>1, <1>8

\* What is delivered stays as it is said to be, whatever is sent and lost later.
LEMMA WholeKeeps ==
  ASSUME Inv, delivered \in Seq(DeliverySet), Whole, [Next]_vars
  PROVE  (delivered \in Seq(DeliverySet) /\ Whole)'
<1> DEFINE Fine(d, ms, lost) ==
      /\ \A i \in DOMAIN d.buf : d.buf[i][2] = i
      /\ d.src \notin lost => \E t \in Senders : \E m \in DOMAIN ms[t] :
           /\ d.src = Addr[t] /\ d.total = ms[t][m].size /\ d.pgn = ms[t][m].pgn
           /\ BytesPerPacket * Cardinality(DOMAIN d.buf) \in d.total..(d.total + BytesPerPacket - 1)
           /\ \A i \in DOMAIN d.buf : d.buf[i] = <<m, i>>
<1>1. Grows(msgs, msgs') /\ unannounced \subseteq unannounced'
  BY StepGrows
<1>2. \A d : Fine(d, msgs, unannounced) => Fine(d, msgs', unannounced')
  BY <1>1 DEF Grows
<1>3. \A k \in DOMAIN delivered : Fine(delivered[k], msgs, unannounced)
  BY DEF Whole, IsMessage
<1>4. UNCHANGED delivered \/ \E d \in DeliverySet : /\ delivered' = Append(delivered, d)
                                                     /\ Fine(d, msgs, unannounced)
  BY StepGrows, CompletesWhole DEF IsMessage
<1> HIDE DEF Fine
<1>5. delivered' \in Seq(DeliverySet) /\ \A k \in DOMAIN delivered' : Fine(delivered'[k], msgs', unannounced')
  <2>1. CASE UNCHANGED delivered
    BY <1>2, <1>3, <2>1
  <2>2. CASE \E d \in DeliverySet : delivered' = Append(delivered, d) /\ Fine(d, msgs, unannounced)
    <3>1. PICK d \in DeliverySet : delivered' = Append(delivered, d) /\ Fine(d, msgs, unannounced)
      BY <2>2
    <3>2. delivered' \in Seq(DeliverySet)
      BY <3>1
    <3>3. \A k \in DOMAIN delivered' : delivered'[k] = d \/ (k \in DOMAIN delivered /\ delivered'[k] = delivered[k])
      BY <3>1
    <3> QED
      BY <1>2, <1>3, <3>1, <3>2, <3>3
  <2> QED
    BY <1>4, <2>1, <2>2
<1> QED
  BY <1>5 DEF Whole, IsMessage, Fine

\* What is delivered is a message its source has sent, whole, unless an announcement
\* of that source was lost; and every packet is in its place even then
\* (pgn.cpp:193-249).
THEOREM DeliversWhole == Spec => []Whole
<1>1. Init => delivered \in Seq(DeliverySet) /\ Whole
  BY DEF Init, Whole
<1>2. Inv /\ (delivered \in Seq(DeliverySet) /\ Whole) /\ [Next]_vars
        => (delivered \in Seq(DeliverySet) /\ Whole)'
  BY WholeKeeps
<1> QED
  BY <1>1, <1>2, Invariance, PTL DEF Spec

\* Only a session with a packet within the last T1 delivers
\* (pgn.cpp:184-191, 198-201).
THEOREM ExpiredNeverDelivers == Spec => ExpiredIsDead
<1> DEFINE Typed == delivered \in Seq(DeliverySet) /\ Whole
           Awake(a) == delivered' # delivered /\ delivered'[Len(delivered')].src = a
                         => sessions[a] # NoSession /\ ~sessions[a].stale
<1>1. Init => Typed
  BY DEF Init, Whole
<1>2. Inv /\ Typed /\ [Next]_vars => Typed'
  BY WholeKeeps
<1>3. ASSUME Inv, Typed, [Next]_vars, NEW a \in Addrs PROVE Awake(a)
  <2>1. CASE UNCHANGED delivered
    BY <2>1
  <2>2. ASSUME NEW d \in DeliverySet, delivered' = Append(delivered, d),
               sessions[d.src] # NoSession, ~sessions[d.src].stale
        PROVE  Awake(a)
    <3>1. delivered'[Len(delivered')] = d
      BY <1>3, <2>2
    <3> QED
      BY <2>2, <3>1
  <2> QED
    BY <1>3, <2>1, <2>2, StepGrows, CompletesWhole
<1>4. Inv /\ Typed /\ [Next]_vars => [\A a \in Addrs : Awake(a)]_vars
  BY <1>3
<1> QED
  BY <1>1, <1>2, <1>4, Invariance, PTL DEF Spec, ExpiredIsDead

-----------------------------------------------------------------------------
(* The limits *)

Typed == out \in Seq(DeliverySet) /\ IsFiniteSet(Open(sessions)) /\ TypeOK

\* A session is opened only where there is room for it.
LEMMA OpenStays ==
  ASSUME Inv, IsFiniteSet(Open(sessions)), Cardinality(Open(sessions)) <= MaxSessions, [Next]_vars
  PROVE  IsFiniteSet(Open(sessions')) /\ Cardinality(Open(sessions')) <= MaxSessions
<1>1. ASSUME Open(sessions') \subseteq Open(sessions)
      PROVE  IsFiniteSet(Open(sessions')) /\ Cardinality(Open(sessions')) <= MaxSessions
  <2>1. /\ IsFiniteSet(Open(sessions')) /\ Cardinality(Open(sessions')) <= Cardinality(Open(sessions))
        /\ Cardinality(Open(sessions)) \in Nat /\ Cardinality(Open(sessions')) \in Nat
    BY <1>1, FS_Subset, FS_CardinalityType
  <2> QED
    BY <2>1, J1939BamAssumption DEF J1939BamAssumption
<1>2. Open(Swept) \subseteq Open(sessions)
  BY SweptFacts DEF Open
<1>3. /\ IsFiniteSet(Open(Swept)) /\ Cardinality(Open(Swept)) \in Nat
      /\ Cardinality(Open(Swept)) <= MaxSessions /\ MaxSessions \in Nat
  <2>1. /\ IsFiniteSet(Open(Swept)) /\ Cardinality(Open(Swept)) <= Cardinality(Open(sessions))
        /\ Cardinality(Open(sessions)) \in Nat /\ Cardinality(Open(Swept)) \in Nat
    BY <1>2, FS_Subset, FS_CardinalityType
  <2> QED
    BY <2>1, J1939BamAssumption DEF J1939BamAssumption
<1>4. ASSUME OpenSession
      PROVE  IsFiniteSet(Open(sessions')) /\ Cardinality(Open(sessions')) <= MaxSessions
  <2> DEFINE a == Head(raw).src
  <2>1. RoomFor(Head(raw), Swept) /\ raw # <<>> /\ \E s : sessions' = [Swept EXCEPT ![a] = s]
    BY <1>4 DEF OpenSession, Consume
  <2>2. a \in Addrs /\ \A b \in Addrs : b # a => sessions'[b] = Swept[b]
    BY <2>1, First, SweptFacts
  <2>3. Open(sessions') \subseteq Open(Swept) \cup {a}
    BY <2>2 DEF Open
  <2>4. CASE Swept[a] # NoSession
    <3>1. Open(sessions') \subseteq Open(sessions)
      BY <1>2, <2>2, <2>3, <2>4 DEF Open
    <3> QED
      BY <1>1, <3>1
  <2>5. CASE Swept[a] = NoSession
    <3>1. a \notin Open(Swept) /\ Cardinality(Open(Swept)) < MaxSessions
      BY <2>1, <2>5 DEF Open, RoomFor
    <3>2. IsFiniteSet(Open(Swept) \cup {a}) /\ Cardinality(Open(Swept) \cup {a}) = Cardinality(Open(Swept)) + 1
      BY <1>3, <3>1, FS_AddElement
    <3>3. /\ IsFiniteSet(Open(sessions')) /\ Cardinality(Open(sessions')) \in Nat
          /\ Cardinality(Open(sessions')) <= Cardinality(Open(Swept) \cup {a})
      BY <2>3, <3>2, FS_Subset, FS_CardinalityType
    <3> QED
      BY <1>3, <3>1, <3>2, <3>3
  <2> QED
    BY <2>4, <2>5
<1>5. ASSUME NEW a \in Addrs, T1Expires(a) PROVE Open(sessions') \subseteq Open(sessions)
  <2>1. sessions[a] # NoSession /\ \A b \in Addrs : b # a => sessions'[b] = sessions[b]
    BY <1>5 DEF T1Expires, Inv, Shapes
  <2> QED
    BY <2>1 DEF Open
<1>6. ASSUME IgnoreBam \/ IgnorePacket PROVE Open(sessions') \subseteq Open(sessions)
  BY <1>2, <1>6 DEF IgnoreBam, IgnorePacket
<1>7. ASSUME TakePacket \/ Complete PROVE Open(sessions') \subseteq Open(sessions)
  <2> DEFINE a == Head(raw).src
  <2>1. raw # <<>> /\ Swept[a] # NoSession /\ \E s : sessions' = [Swept EXCEPT ![a] = s]
    BY <1>7 DEF TakePacket, Complete, Consume
  <2>2. a \in Addrs /\ \A b \in Addrs : b # a => sessions'[b] = Swept[b]
    BY <2>1, First, SweptFacts
  <2> QED
    BY <1>2, <2>1, <2>2 DEF Open
<1>8. ASSUME \/ \E t \in Senders : Announce(t) \/ Packet(t) \/ SendClosed(t)
             \/ ForeignBam \/ EndOfInput \/ CloseBus \/ Recv \/ UNCHANGED vars
      PROVE  Open(sessions') \subseteq Open(sessions)
  BY <1>8 DEF Announce, Packet, SendClosed, ForeignBam, EndOfInput, CloseBus, Recv, vars
<1> QED
  BY <1>1, <1>4, <1>5, <1>6, <1>7, <1>8 DEF Next, Read

\* The queues and the end of the stream.
LEMMA QueuesStay ==
  ASSUME Inv, Typed, [Next]_vars
  PROVE  /\ out' \in Seq(DeliverySet) /\ Len(raw') <= MaxQueue + 1 /\ Len(out') <= OutDepth
         /\ closed' \in BOOLEAN /\ (outClosed' => closed' /\ raw' = <<>>)
<1> DEFINE Goal == /\ out' \in Seq(DeliverySet) /\ Len(raw') <= MaxQueue + 1 /\ Len(out') <= OutDepth
                   /\ closed' \in BOOLEAN /\ (outClosed' => closed' /\ raw' = <<>>)
<1>1. /\ raw \in Seq(FrameSet) /\ MaxQueue \in Nat /\ OutDepth \in Nat
      /\ out \in Seq(DeliverySet) /\ Len(raw) <= MaxQueue + 1 /\ Len(out) <= OutDepth
      /\ closed \in BOOLEAN /\ (outClosed => closed /\ raw = <<>>)
  BY J1939BamAssumption DEF Inv, Shapes, Typed, TypeOK, J1939BamAssumption
<1>2. ASSUME NEW f \in FrameSet, Broadcast(f), ~closed, UNCHANGED <<closed, out, outClosed>> PROVE Goal
  <2>1. Len(raw') <= MaxQueue + 1
    <3>1. Len(raw \o <<f, f>>) = Len(raw) + 2
      BY <1>1
    <3> QED
      BY <1>1, <1>2, <3>1 DEF Broadcast
  <2> QED
    BY <1>1, <1>2, <2>1
<1>3. ASSUME NEW t \in Senders, Announce(t) \/ Packet(t) PROVE Goal
  <2>1. ~closed /\ UNCHANGED <<closed, out, outClosed>>
    BY <1>3 DEF Announce, Packet
  <2>2. \E f \in FrameSet : Broadcast(f)
    <3>1. CASE Packet(t)
      <4>1. Broadcast(Dt(Addr[t], tx[t].sent + 1, tx[t].m))
        BY <3>1 DEF Packet
      <4>2. tx[t].sent + 1 \in Nat /\ tx[t].m \in Nat
        BY DEF Inv, Shapes, Locals
      <4>3. Dt(Addr[t], tx[t].sent + 1, tx[t].m) \in FrameSet
        BY <4>2, Apart DEF Dt, FrameSet
      <4> QED
        BY <4>1, <4>3
    <3>2. CASE Announce(t)
      <4>1. PICK n \in MinBytes..MaxBytes, pgn \in Pgns :
              Broadcast(Bam(Addr[t], n, Packets(n), pgn, Len(msgs[t]) + 1))
        BY <3>2 DEF Announce
      <4>2. n \in Nat /\ Packets(n) \in Nat
        BY EnoughPackets
      <4>3. Len(msgs[t]) + 1 \in Nat
        <5>1. msgs[t] \in Seq(Message)
          BY DEF Inv, Shapes
        <5> QED
          BY <5>1
      <4>4. Bam(Addr[t], n, Packets(n), pgn, Len(msgs[t]) + 1) \in FrameSet
        BY <4>2, <4>3, Apart DEF Bam, FrameSet
      <4> QED
        BY <4>1, <4>4
    <3> QED
      BY <1>3, <3>1, <3>2
  <2> QED
    BY <1>2, <2>1, <2>2
<1>4. ASSUME ForeignBam PROVE Goal
  <2>1. PICK x : raw' = Append(raw, x)
    BY <1>4 DEF ForeignBam
  <2>2. ~closed /\ Len(raw) < MaxQueue /\ UNCHANGED <<closed, out, outClosed>>
    BY <1>4 DEF ForeignBam
  <2>3. Len(raw') = Len(raw) + 1
    BY <1>1, <2>1
  <2> QED
    BY <1>1, <2>2, <2>3
<1>5. ASSUME IgnoreBam \/ OpenSession \/ IgnorePacket \/ TakePacket PROVE Goal
  <2>1. raw # <<>> /\ raw' = Tail(raw) /\ UNCHANGED <<closed, out, outClosed>>
    BY <1>5 DEF IgnoreBam, OpenSession, IgnorePacket, TakePacket, Consume
  <2> QED
    BY <1>1, <2>1
<1>6. ASSUME Complete PROVE Goal
  <2>1. raw # <<>> /\ raw' = Tail(raw) /\ UNCHANGED <<closed, outClosed>>
    BY <1>6 DEF Complete, Consume
  <2>2. UNCHANGED out \/ \E d \in DeliverySet : out' = Append(out, d) /\ Len(out) < OutDepth
    <3> DEFINE f == Head(raw)
               s == Filled(Swept[f.src], f)
               d == [src |-> f.src, total |-> s.total, pgn |-> s.pgn, buf |-> s.buf]
    <3>1. /\ f.type = "DT" /\ Swept[f.src] # NoSession /\ Fits(f, Swept[f.src])
          /\ UNCHANGED out \/ (out' = Append(out, d) /\ Len(out) < OutDepth)
      BY <1>6 DEF Complete
    <3> HIDE DEF f, s
    <3>2. s \in SessionSet /\ f.src \in Addrs
      BY <2>1, <3>1, FilledFacts, First DEF f, s
    <3>3. s.total \in Nat /\ s.pgn \in Pgns /\ s.buf \in Buffers
      BY <3>2 DEF SessionSet
    <3>4. d \in DeliverySet
      BY <3>2, <3>3 DEF DeliverySet
    <3> QED
      BY <3>1, <3>4
  <2> QED
    BY <1>1, <2>1, <2>2
<1>7. ASSUME \/ \E t \in Senders : SendClosed(t)
             \/ \E a \in Addrs : T1Expires(a)
             \/ EndOfInput \/ CloseBus \/ UNCHANGED vars
      PROVE  Goal
  <2>1. UNCHANGED <<raw, out>>
    BY <1>7 DEF SendClosed, T1Expires, EndOfInput, CloseBus, vars
  <2>2. closed' \in BOOLEAN /\ (outClosed' => closed' /\ raw' = <<>>)
    <3>1. CASE EndOfInput
      BY <1>1, <3>1, Zenon DEF EndOfInput
    <3>2. CASE CloseBus
      BY <1>1, <3>2, Zenon DEF CloseBus
    <3>3. CASE UNCHANGED <<raw, closed, outClosed>>
      BY <1>1, <3>3
    <3> QED
      BY <1>7, <3>1, <3>2, <3>3 DEF SendClosed, T1Expires, vars
  <2> QED
    BY <1>1, <2>1, <2>2
<1>8. ASSUME Recv PROVE Goal
  <2>1. out # <<>> /\ out' = Tail(out) /\ UNCHANGED <<raw, closed, outClosed>>
    BY <1>8 DEF Recv
  <2> QED
    BY <1>1, <2>1
<1> QED
  BY <1>3, <1>4, <1>5, <1>6, <1>7, <1>8 DEF Next, Read

\* The reassembly never holds more than MaxSessions sessions, and each counts
\* exactly the packets it holds, fewer than it waits for (pgn.cpp:184-247).
THEOREM SessionsBounded == Spec => []TypeOK
<1>1. Init => Typed
  <2> SUFFICES ASSUME Init PROVE Typed
    OBVIOUS
  <2>1. raw = <<>> /\ out = <<>> /\ closed = FALSE /\ outClosed = FALSE /\ Open(sessions) = {}
    BY DEF Init, Open
  <2>2. IsFiniteSet({}) /\ Cardinality({}) = 0
    BY FS_EmptySet
  <2>3. MaxQueue \in Nat /\ OutDepth \in Nat /\ MaxSessions \in Nat
    BY J1939BamAssumption DEF J1939BamAssumption
  <2>4. Len(raw) <= MaxQueue + 1 /\ Len(out) <= OutDepth /\ out \in Seq(DeliverySet)
    BY <2>1, <2>3
  <2>5. IsFiniteSet(Open(sessions)) /\ Cardinality(Open(sessions)) <= MaxSessions
    BY <2>1, <2>2, <2>3
  <2>6. closed \in BOOLEAN /\ (outClosed => closed /\ raw = <<>>)
    BY <2>1
  <2> QED
    BY <2>1, <2>4, <2>5, <2>6 DEF Typed, TypeOK
<1>2. Inv /\ Typed /\ [Next]_vars => Typed'
  <2> SUFFICES ASSUME Inv, Typed, [Next]_vars PROVE Typed'
    OBVIOUS
  <2>1. IsFiniteSet(Open(sessions')) /\ Cardinality(Open(sessions')) <= MaxSessions
    BY OpenStays DEF Typed, TypeOK
  <2>2. \A a \in Open(sessions') :
          /\ sessions'[a].received = Cardinality(DOMAIN sessions'[a].buf)
          /\ sessions'[a].received < sessions'[a].np
    BY NextKeeps DEF Inv, Sound, Open
  <2> QED
    BY <2>1, <2>2, QueuesStay DEF Typed, TypeOK, Open
<1> QED
  BY <1>1, <1>2, Invariance, PTL DEF Spec, Typed

-----------------------------------------------------------------------------
(* What arrives.  A message of an undisturbed sender is on its way: a session *)
(* for it is open or its announcement is in the queue, and each of its        *)
(* packets is still to be sent, in the queue behind the last announcement, or *)
(* in the session and no announcement will empty that.                        *)

\* s is open for m, with a packet within the last T1.
Of(s, m) == s # NoSession /\ ~s.stale /\ s.of = m

IsPart(f, a, m, i) == f.type = "DT" /\ f.src = a /\ f.part = <<m, i>>

Coming(r, s, x, a, m, i) ==
  \/ x # Idle /\ x.m = m /\ x.sent < i
  \/ \E k \in DOMAIN r : IsPart(r[k], a, m, i) /\ \A j \in DOMAIN r : Announces(r[j], a, m) => j < k
  \/ Of(s, m) /\ i \in DOMAIN s.buf /\ \A j \in DOMAIN r : ~Announces(r[j], a, m)

Underway(r, s, x, a, m, n) ==
  /\ Of(s, m) \/ \E j \in DOMAIN r : Announces(r[j], a, m)
  /\ \A i \in 1..n : Coming(r, s, x, a, m, i)

Arrived(t, m) == \E k \in DOMAIN delivered : IsMessage(delivered[k], t, m)

Expected(t) ==
  Addr[t] \notin disturbed => \A m \in DOMAIN msgs[t] : msgs[t][m].pgn \in Wanted =>
    Arrived(t, m) \/ Underway(raw, sessions[Addr[t]], tx[t], Addr[t], m, Packets(msgs[t][m].size))

Calling(t) ==
  tx[t] # Idle => /\ tx[t].m \in DOMAIN msgs[t] /\ tx[t].np = Packets(msgs[t][tx[t].m].size)
                  /\ tx[t].sent < tx[t].np

\* What is sent, other than an announcement of m, leaves what is on its way there.
LEMMA UnderwayKept ==
  ASSUME NEW r \in Seq(FrameSet), NEW r2, NEW f, Extends(r, r2, f), NEW s, NEW x, NEW a, NEW m, NEW n,
         ~Announces(f, a, m), Underway(r, s, x, a, m, n)
  PROVE  Underway(r2, s, x, a, m, n)
<1>1. /\ r2 \in Seq(FrameSet) /\ DOMAIN r \subseteq DOMAIN r2 /\ \A j \in DOMAIN r : r2[j] = r[j]
      /\ \A j \in DOMAIN r2 : Announces(r2[j], a, m) => j \in DOMAIN r /\ Announces(r[j], a, m)
  <2>1. r2 \in Seq(FrameSet) /\ DOMAIN r = 1..Len(r) /\ DOMAIN r2 = 1..Len(r2) /\ Len(r) \in Nat /\ Len(r2) \in Nat
    BY DEF Extends
  <2>2. DOMAIN r \subseteq DOMAIN r2 /\ \A j \in DOMAIN r : r2[j] = r[j]
    BY <2>1 DEF Extends
  <2>3. \A j \in DOMAIN r2 : j \in DOMAIN r \/ r2[j] = f
    BY <2>1 DEF Extends
  <2> QED
    BY <2>1, <2>2, <2>3
<1>2. ASSUME NEW i \in 1..n, Coming(r, s, x, a, m, i) PROVE Coming(r2, s, x, a, m, i)
  BY <1>1, <1>2 DEF Coming
<1> QED
  BY <1>1, <1>2 DEF Underway

\* The queue that took f ends with it.
LEMMA LastIsNew ==
  ASSUME NEW r \in Seq(FrameSet), NEW r2, NEW f, Extends(r, r2, f), Len(r2) # Len(r)
  PROVE  /\ Len(r2) \in DOMAIN r2 /\ r2[Len(r2)] = f
         /\ \A j \in DOMAIN r2 : r2[j] = f \/ j < Len(r2)
<1>1. r2 \in Seq(FrameSet) /\ Len(r) \in Nat /\ Len(r2) \in Nat /\ Len(r) <= Len(r2)
  BY DEF Extends
<1>2. Len(r2) \in (Len(r) + 1)..Len(r2)
  BY <1>1
<1>3. r2[Len(r2)] = f
  BY <1>2 DEF Extends
<1> QED
  BY <1>1, <1>2, <1>3

\* So does a packet, whatever message it is of: it is in the queue instead of still to be sent.
LEMMA UnderwayPacket ==
  ASSUME NEW r \in Seq(FrameSet), NEW r2, NEW x \in Locals, x # Idle, NEW a, NEW f, f = Dt(a, x.sent + 1, x.m),
         Extends(r, r2, f), Len(r2) # Len(r), NEW s, NEW m, NEW n, Underway(r, s, x, a, m, n),
         NEW x2, x2 = IF x.sent + 1 = x.np THEN Idle ELSE [x EXCEPT !.sent = x.sent + 1],
         m = x.m => n = x.np
  PROVE  Underway(r2, s, x2, a, m, n)
<1>1. /\ Len(r2) \in DOMAIN r2 /\ r2[Len(r2)] = f
      /\ \A j \in DOMAIN r2 : r2[j] = f \/ j < Len(r2)
  BY LastIsNew
<1>2. f.type = "DT" /\ f.src = a /\ f.part = <<x.m, x.sent + 1>>
  BY DEF Dt
<1>3. ~Announces(f, a, m)
  BY <1>2 DEF Announces
<1>4. Underway(r2, s, x, a, m, n)
  BY <1>3, UnderwayKept
<1>5. ASSUME NEW i \in 1..n, Coming(r2, s, x, a, m, i) PROVE Coming(r2, s, x2, a, m, i)
  <2>1. CASE x.m = m /\ x.sent < i
    <3>1. CASE i = x.sent + 1
      <4>1. IsPart(r2[Len(r2)], a, m, i)
        BY <1>1, <1>2, <2>1, <3>1 DEF IsPart
      <4>2. \A j \in DOMAIN r2 : Announces(r2[j], a, m) => j < Len(r2)
        BY <1>1, <1>3
      <4> QED
        BY <1>1, <4>1, <4>2 DEF Coming
    <3>2. CASE i # x.sent + 1
      <4>1. x.sent \in Nat /\ x.np \in Nat /\ x.m \in Nat
        BY DEF Locals
      <4>2. x.sent + 1 < i /\ x.sent + 1 # x.np
        BY <2>1, <3>2, <4>1
      <4>3. x2 = [x EXCEPT !.sent = x.sent + 1]
        BY <4>2
      <4>4. x2.m = x.m /\ x2.sent = x.sent + 1
        BY <4>3 DEF Locals
      <4>5. x2 # Idle
        BY <4>1, <4>4 DEF Idle
      <4> QED
        BY <2>1, <4>2, <4>4, <4>5 DEF Coming
    <3> QED
      BY <3>1, <3>2
  <2>2. CASE ~(x.m = m /\ x.sent < i)
    BY <1>5, <2>2 DEF Coming
  <2> QED
    BY <2>1, <2>2
<1> QED
  BY <1>4, <1>5 DEF Underway

\* A message is on its way once it is announced.
LEMMA UnderwayAnnounced ==
  ASSUME NEW r \in Seq(FrameSet), NEW r2, NEW f, Extends(r, r2, f), Len(r2) # Len(r), NEW a, NEW m,
         Announces(f, a, m), NEW x, x # Idle, x.m = m, x.sent = 0, NEW s, NEW n
  PROVE  Underway(r2, s, x, a, m, n)
<1>1. Len(r2) \in DOMAIN r2 /\ r2[Len(r2)] = f
  BY LastIsNew
<1>2. \A i \in 1..n : Coming(r2, s, x, a, m, i)
  BY DEF Coming
<1> QED
  BY <1>1, <1>2 DEF Underway

\* Nothing of a message is left behind by a frame that is read, if a session for it stays
\* and the packet, if it was one, is in that session.
LEMMA UnderwayTail ==
  ASSUME NEW r \in Seq(FrameSet), r # <<>>, NEW s, NEW s2, NEW x, NEW a, NEW m, NEW n,
         Underway(r, s, x, a, m, n), ~Announces(r[1], a, m),
         (\A j \in DOMAIN r : ~Announces(r[j], a, m)) =>
            /\ Of(s, m) => Of(s2, m) /\ DOMAIN s.buf \subseteq DOMAIN s2.buf
            /\ \A i \in 1..n : IsPart(r[1], a, m, i) => Of(s2, m) /\ i \in DOMAIN s2.buf
  PROVE  Underway(Tail(r), s2, x, a, m, n)
<1>1. /\ \A j \in DOMAIN r : j = 1 \/ (j - 1 \in DOMAIN Tail(r) /\ Tail(r)[j - 1] = r[j])
      /\ \A j \in DOMAIN Tail(r) : j + 1 \in DOMAIN r /\ Tail(r)[j] = r[j + 1] /\ j \in Nat
      /\ \A j \in DOMAIN r : j \in Nat /\ j >= 1
  OBVIOUS
<1> DEFINE AnnouncedIn(q) == \E j \in DOMAIN q : Announces(q[j], a, m)
<1>2. AnnouncedIn(r) <=> AnnouncedIn(Tail(r))
  BY <1>1
<1>3. Of(s2, m) \/ AnnouncedIn(Tail(r))
  BY <1>2 DEF Underway
<1>4. ASSUME NEW i \in 1..n PROVE Coming(Tail(r), s2, x, a, m, i)
  <2>1. Coming(r, s, x, a, m, i)
    BY DEF Underway
  <2>2. CASE x # Idle /\ x.m = m /\ x.sent < i
    BY <2>2 DEF Coming
  <2>3. CASE Of(s, m) /\ i \in DOMAIN s.buf /\ ~AnnouncedIn(r)
    BY <1>2, <2>3 DEF Coming
  <2>4. ASSUME NEW k \in DOMAIN r, IsPart(r[k], a, m, i), \A j \in DOMAIN r : Announces(r[j], a, m) => j < k
        PROVE  Coming(Tail(r), s2, x, a, m, i)
    <3>1. CASE k = 1
      <4>1. ~AnnouncedIn(r)
        BY <1>1, <2>4, <3>1
      <4> QED
        BY <1>2, <2>4, <3>1, <4>1 DEF Coming
    <3>2. CASE k # 1
      <4>1. k - 1 \in DOMAIN Tail(r) /\ IsPart(Tail(r)[k - 1], a, m, i)
        BY <1>1, <2>4, <3>2
      <4>2. \A j \in DOMAIN Tail(r) : Announces(Tail(r)[j], a, m) => j < k - 1
        BY <1>1, <2>4
      <4> QED
        BY <4>1, <4>2 DEF Coming
    <3> QED
      BY <3>1, <3>2
  <2> QED
    BY <2>1, <2>2, <2>3, <2>4 DEF Coming
<1> QED
  BY <1>3, <1>4 DEF Underway

\* When its announcement is read a message has its session.
LEMMA UnderwayOpened ==
  ASSUME NEW r \in Seq(FrameSet), r # <<>>, NEW s, NEW s2, NEW x, NEW a, NEW m, NEW n,
         Underway(r, s, x, a, m, n), Announces(r[1], a, m), Of(s2, m)
  PROVE  Underway(Tail(r), s2, x, a, m, n)
<1>1. /\ \A j \in DOMAIN r : j = 1 \/ (j - 1 \in DOMAIN Tail(r) /\ Tail(r)[j - 1] = r[j])
      /\ \A j \in DOMAIN Tail(r) : j + 1 \in DOMAIN r /\ Tail(r)[j] = r[j + 1] /\ j \in Nat
      /\ 1 \in DOMAIN r /\ \A j \in DOMAIN r : j \in Nat
  OBVIOUS
<1>2. ASSUME NEW i \in 1..n PROVE Coming(Tail(r), s2, x, a, m, i)
  <2>1. Coming(r, s, x, a, m, i)
    BY DEF Underway
  <2>2. CASE x # Idle /\ x.m = m /\ x.sent < i
    BY <2>2 DEF Coming
  <2>3. ASSUME NEW k \in DOMAIN r, IsPart(r[k], a, m, i), \A j \in DOMAIN r : Announces(r[j], a, m) => j < k
        PROVE  Coming(Tail(r), s2, x, a, m, i)
    <3>1. k # 1
      BY <1>1, <2>3
    <3>2. k - 1 \in DOMAIN Tail(r) /\ IsPart(Tail(r)[k - 1], a, m, i)
      BY <1>1, <2>3, <3>1
    <3>3. \A j \in DOMAIN Tail(r) : Announces(Tail(r)[j], a, m) => j < k - 1
      BY <1>1, <2>3
    <3> QED
      BY <3>2, <3>3 DEF Coming
  <2> QED
    BY <1>1, <2>1, <2>2, <2>3 DEF Coming
<1> QED
  BY <1>2 DEF Underway

\* The message m of t is in the queue, in a session or still being sent.
OnItsWay(t, m) ==
  Underway(raw, sessions[Addr[t]], tx[t], Addr[t], m, Packets(msgs[t][m].size))

ReachInv ==
  /\ Inv /\ delivered \in Seq(DeliverySet) /\ Whole
  /\ unannounced \subseteq disturbed
  /\ \A t \in Senders : Calling(t) /\ Expected(t)

LEMMA BroadcastReaches ==
  ASSUME raw \in Seq(FrameSet), NEW f \in FrameSet, unannounced \subseteq disturbed, Broadcast(f)
  PROVE  /\ disturbed \subseteq disturbed' /\ unannounced' \subseteq disturbed'
         /\ Len(raw') # Len(raw) \/ f.src \in disturbed'
<1>1. CASE raw' = Append(raw, f) /\ UNCHANGED <<disturbed, unannounced>>
  BY <1>1
<1>2. CASE /\ disturbed' = disturbed \cup {f.src}
           /\ unannounced' = unannounced \cup {a \in {f.src} : f.type = "BAM"}
  BY <1>2
<1>3. CASE raw' = raw \o <<f, f>> /\ UNCHANGED <<disturbed, unannounced>>
  <2>1. <<f, f>> \in Seq(FrameSet) /\ Len(<<f, f>>) = 2
    OBVIOUS
  <2>2. Len(raw \o <<f, f>>) = Len(raw) + 2 /\ Len(raw) \in Nat
    BY <2>1
  <2> QED
    BY <1>3, <2>2
<1> QED
  BY <1>1, <1>2, <1>3 DEF Broadcast

\* What has arrived stays so.
LEMMA ArrivedStays ==
  ASSUME Inv, delivered \in Seq(DeliverySet), [Next]_vars, NEW t \in Senders,
         NEW m \in DOMAIN msgs[t], Arrived(t, m)
  PROVE  Arrived(t, m)'
<1>1. PICK k \in DOMAIN delivered : IsMessage(delivered[k], t, m)
  BY DEF Arrived
<1>2. k \in DOMAIN delivered' /\ delivered'[k] = delivered[k]
  <2>1. CASE UNCHANGED delivered
    BY <1>1, <2>1
  <2>2. CASE \E d \in DeliverySet : delivered' = Append(delivered, d)
    BY <1>1, <2>2
  <2> QED
    BY <2>1, <2>2, StepGrows, CompletesWhole
<1>3. msgs'[t][m] = msgs[t][m]
  BY StepGrows DEF Grows
<1> QED
  BY <1>1, <1>2, <1>3 DEF Arrived, IsMessage

\* What is to be shown of a step: that what was on its way still is, or has arrived.
LEMMA ReachKept ==
  ASSUME ReachInv, [Next]_vars, NEW t \in Senders, disturbed \subseteq disturbed',
         \A m \in DOMAIN msgs'[t] : Addr[t] \notin disturbed' /\ msgs'[t][m].pgn \in Wanted =>
           IF m \in DOMAIN msgs[t] THEN OnItsWay(t, m) => OnItsWay(t, m)' \/ Arrived(t, m)'
           ELSE OnItsWay(t, m)'
  PROVE  Expected(t)'
<1> SUFFICES ASSUME Addr[t] \notin disturbed', NEW m \in DOMAIN msgs'[t], msgs'[t][m].pgn \in Wanted
             PROVE  Arrived(t, m)' \/ OnItsWay(t, m)'
  BY DEF Expected, OnItsWay
<1>1. CASE m \in DOMAIN msgs[t]
  <2>1. msgs'[t][m] = msgs[t][m]
    BY <1>1, StepGrows DEF ReachInv, Grows
  <2>2. Arrived(t, m) \/ OnItsWay(t, m)
    BY <1>1, <2>1 DEF ReachInv, Expected, OnItsWay
  <2> QED
    BY <1>1, <2>2, ArrivedStays DEF ReachInv
<1> QED
  BY <1>1

\* A frame of another sender does not touch what t sends.
LEMMA ReachOthers ==
  ASSUME ReachInv, [Next]_vars, NEW t \in Senders, disturbed \subseteq disturbed',
         NEW f, Extends(raw, raw', f), f.src # Addr[t],
         UNCHANGED sessions, tx'[t] = tx[t], msgs'[t] = msgs[t]
  PROVE  Calling(t)' /\ Expected(t)'
<1>1. Calling(t)'
  BY DEF ReachInv, Calling
<1>2. ASSUME NEW m \in DOMAIN msgs[t], OnItsWay(t, m) PROVE OnItsWay(t, m)'
  <2>1. ~Announces(f, Addr[t], m) /\ raw \in Seq(FrameSet)
    BY DEF Announces, ReachInv, Inv, Shapes
  <2> QED
    BY <1>2, <2>1, UnderwayKept DEF OnItsWay
<1> QED
  BY <1>1, <1>2, ReachKept

LEMMA AnnounceReaches ==
  ASSUME ReachInv, NEW t \in Senders, Announce(t)
  PROVE  unannounced' \subseteq disturbed' /\ \A u \in Senders : Calling(u)' /\ Expected(u)'
<1>0. PICK m : m = Len(msgs[t]) + 1
  OBVIOUS
<1>1. PICK n \in Sizes, pgn \in Pgns :
        /\ n \in MinBytes..MaxBytes
        /\ Broadcast(Bam(Addr[t], n, Packets(n), pgn, m))
        /\ msgs' = [msgs EXCEPT ![t] = Append(@, [size |-> n, pgn |-> pgn])]
        /\ tx' = [tx EXCEPT ![t] = [m |-> m, sent |-> 0, np |-> Packets(n)]]
  BY <1>0 DEF Announce
<1> DEFINE f == Bam(Addr[t], n, Packets(n), pgn, m)
           x == [m |-> m, sent |-> 0, np |-> Packets(n)]
<1>2. /\ raw \in Seq(FrameSet) /\ msgs[t] \in Seq(Message) /\ m \in Nat \ {0}
      /\ msgs \in [Senders -> Seq(Message)] /\ tx \in [Senders -> Locals]
      /\ tx[t] = Idle /\ UNCHANGED sessions /\ Inv
  BY <1>0 DEF ReachInv, Inv, Shapes, Announce, MayCall
<1>3. n \in Nat /\ Packets(n) \in Nat \ {0} /\ [size |-> n, pgn |-> pgn] \in Message
  BY <1>1, EnoughPackets DEF Message
<1>4. f \in FrameSet /\ f.type = "BAM" /\ f.src = Addr[t] /\ f.part[1] = m
  BY <1>2, <1>3, Apart DEF Bam, FrameSet
<1>5. /\ msgs'[t] = Append(msgs[t], [size |-> n, pgn |-> pgn]) /\ tx'[t] = x
      /\ \A u \in Senders : u # t => msgs'[u] = msgs[u] /\ tx'[u] = tx[u]
  BY <1>1, <1>2
<1>6. /\ \A k \in DOMAIN msgs'[t] : k = m \/ (k \in DOMAIN msgs[t] /\ msgs'[t][k] = msgs[t][k] /\ k # m)
      /\ m \in DOMAIN msgs'[t] /\ m \notin DOMAIN msgs[t] /\ msgs'[t][m] = [size |-> n, pgn |-> pgn]
  BY <1>0, <1>2, <1>3, <1>5
<1>7. x.m = m /\ x.sent = 0 /\ x.np = Packets(n) /\ x # Idle
  BY <1>2 DEF Idle
<1> HIDE DEF f, x
<1>8. Extends(raw, raw', f) /\ disturbed \subseteq disturbed' /\ unannounced' \subseteq disturbed'
      /\ (Len(raw') # Len(raw) \/ Addr[t] \in disturbed')
  BY <1>1, <1>2, <1>4, BroadcastExtends, BroadcastReaches DEF f, ReachInv
<1>9. Calling(t)'
  BY <1>3, <1>5, <1>6, <1>7 DEF Calling
<1>10. ASSUME Addr[t] \notin disturbed' PROVE OnItsWay(t, m)'
  <2>1. Announces(f, Addr[t], m)
    BY <1>4 DEF Announces
  <2> QED
    BY <1>2, <1>5, <1>7, <1>8, <1>10, <2>1, UnderwayAnnounced DEF OnItsWay
<1>11. ASSUME NEW k \in DOMAIN msgs[t], k # m, msgs'[t][k] = msgs[t][k], OnItsWay(t, k) PROVE OnItsWay(t, k)'
  <2>1. ~Announces(f, Addr[t], k)
    BY <1>4, <1>11 DEF Announces
  <2>2. Underway(raw', sessions[Addr[t]], Idle, Addr[t], k, Packets(msgs[t][k].size))
    BY <1>2, <1>8, <1>11, <2>1, UnderwayKept DEF OnItsWay
  <2>3. \A i : Coming(raw', sessions[Addr[t]], Idle, Addr[t], k, i) => Coming(raw', sessions[Addr[t]], x, Addr[t], k, i)
    BY DEF Coming
  <2>4. Underway(raw', sessions[Addr[t]], x, Addr[t], k, Packets(msgs[t][k].size))
    BY <2>2, <2>3 DEF Underway
  <2> QED
    BY <1>2, <1>5, <1>11, <2>4 DEF OnItsWay
<1>12. Expected(t)'
  BY <1>6, <1>8, <1>10, <1>11, ReachKept DEF Next
<1>13. ASSUME NEW u \in Senders, u # t PROVE Calling(u)' /\ Expected(u)'
  BY ZenonT(60), <1>2, <1>4, <1>5, <1>8, <1>13, Apart, ReachOthers DEF Next
<1> QED
  BY <1>8, <1>9, <1>12, <1>13

LEMMA PacketReaches ==
  ASSUME ReachInv, NEW t \in Senders, Packet(t)
  PROVE  unannounced' \subseteq disturbed' /\ \A u \in Senders : Calling(u)' /\ Expected(u)'
<1> DEFINE x == tx[t]
           f == Dt(Addr[t], x.sent + 1, x.m)
           x2 == IF x.sent + 1 = x.np THEN Idle ELSE [x EXCEPT !.sent = x.sent + 1]
<1>1. /\ x # Idle /\ Broadcast(f) /\ UNCHANGED <<msgs, sessions>>
      /\ tx' = [tx EXCEPT ![t] = x2]
  BY DEF Packet
<1>2. /\ raw \in Seq(FrameSet) /\ msgs \in [Senders -> Seq(Message)] /\ Inv
      /\ tx \in [Senders -> Locals] /\ x \in Locals /\ x.m \in Nat /\ x.sent \in Nat /\ x.np \in Nat
      /\ x.m \in DOMAIN msgs[t] /\ x.np = Packets(msgs[t][x.m].size) /\ x.sent < x.np
  BY <1>1 DEF ReachInv, Inv, Shapes, Locals, Calling
<1>3. f \in FrameSet /\ f.type = "DT" /\ f.src = Addr[t]
  BY <1>2, Apart DEF Dt, FrameSet
<1>4. tx'[t] = x2 /\ \A u \in Senders : u # t => tx'[u] = tx[u]
  BY <1>1, <1>2
<1>5. x2 # Idle => x2.m = x.m /\ x2.np = x.np /\ x2.sent < x2.np
  <2>1. CASE x.sent + 1 # x.np
    <3>1. x2 = [x EXCEPT !.sent = x.sent + 1]
      BY <2>1
    <3>2. x2.m = x.m /\ x2.np = x.np /\ x2.sent = x.sent + 1
      BY <1>2, <3>1 DEF Locals
    <3> QED
      BY <1>2, <2>1, <3>2
  <2> QED
    BY <2>1
<1>6. Extends(raw, raw', f) /\ disturbed \subseteq disturbed' /\ unannounced' \subseteq disturbed'
      /\ (Len(raw') # Len(raw) \/ Addr[t] \in disturbed')
  BY <1>1, <1>2, <1>3, BroadcastExtends, BroadcastReaches DEF ReachInv
<1>7. f = Dt(Addr[t], x.sent + 1, x.m) /\ x2 = IF x.sent + 1 = x.np THEN Idle ELSE [x EXCEPT !.sent = x.sent + 1]
  OBVIOUS
<1> HIDE DEF f, x2
<1>8. Calling(t)'
  BY <1>1, <1>2, <1>4, <1>5 DEF Calling
<1>9. ASSUME Addr[t] \notin disturbed', NEW m \in DOMAIN msgs[t], OnItsWay(t, m) PROVE OnItsWay(t, m)'
  <2>1. Underway(raw', sessions[Addr[t]], x2, Addr[t], m, Packets(msgs[t][m].size))
    BY <1>1, <1>2, <1>6, <1>7, <1>9, UnderwayPacket DEF OnItsWay
  <2> QED
    BY <1>1, <1>4, <2>1 DEF OnItsWay
<1>10. Expected(t)'
  BY <1>1, <1>6, <1>9, ReachKept DEF Next
<1>11. ASSUME NEW u \in Senders, u # t PROVE Calling(u)' /\ Expected(u)'
  BY <1>1, <1>3, <1>4, <1>6, <1>11, Apart, ReachOthers DEF Next
<1> QED
  BY <1>6, <1>8, <1>10, <1>11

LEMMA ForeignReaches ==
  ASSUME ReachInv, ForeignBam
  PROVE  unannounced' \subseteq disturbed' /\ \A u \in Senders : Calling(u)' /\ Expected(u)'
<1>1. PICK b \in Announced : raw' = Append(raw, Bam(b.src, b.total, b.np, b.pgn, 0))
  BY DEF ForeignBam
<1> DEFINE f == Bam(b.src, b.total, b.np, b.pgn, 0)
<1>2. UNCHANGED <<tx, msgs, sessions, unannounced, disturbed>>
  BY DEF ForeignBam
<1>3. raw \in Seq(FrameSet)
  BY DEF ReachInv, Inv, Shapes
<1>4. f \in FrameSet /\ f.src = b.src
  BY Apart DEF Bam, FrameSet
<1> HIDE DEF f
<1>5. Extends(raw, raw', f)
  BY <1>1, <1>3, <1>4 DEF Extends, f
<1>6. \A u \in Senders : f.src # Addr[u]
  BY <1>4, Apart
<1> QED
  BY <1>2, <1>5, <1>6, ReachOthers DEF Next, ReachInv

\* A step that neither sends nor reads leaves everything on its way, but of senders it disturbs.
LEMMA ReachStill ==
  ASSUME ReachInv, [Next]_vars, UNCHANGED <<raw, msgs>>, NEW t \in Senders, disturbed \subseteq disturbed',
         Addr[t] \in disturbed' \/ sessions'[Addr[t]] = sessions[Addr[t]],
         tx'[t] = tx[t] \/ (tx'[t] = Idle /\ Addr[t] \in disturbed')
  PROVE  Calling(t)' /\ Expected(t)'
<1>1. Calling(t)'
  BY DEF ReachInv, Calling
<1>2. ASSUME Addr[t] \notin disturbed', NEW m \in DOMAIN msgs[t], OnItsWay(t, m) PROVE OnItsWay(t, m)'
  BY <1>2 DEF OnItsWay
<1> QED
  BY <1>1, <1>2, ReachKept

LEMMA StillReaches ==
  ASSUME ReachInv,
         \/ \E t \in Senders : SendClosed(t)
         \/ \E a \in Addrs : T1Expires(a)
         \/ EndOfInput \/ CloseBus \/ Recv \/ UNCHANGED vars
  PROVE  unannounced' \subseteq disturbed' /\ \A u \in Senders : Calling(u)' /\ Expected(u)'
<1>1. tx \in [Senders -> Locals] /\ DOMAIN sessions = Addrs
  BY DEF ReachInv, Inv, Shapes
<1>2. ASSUME NEW t \in Senders, SendClosed(t), NEW u \in Senders PROVE Calling(u)' /\ Expected(u)'
  <2>1. /\ UNCHANGED <<raw, msgs, sessions>> /\ disturbed' = disturbed \cup {Addr[t]}
        /\ tx' = [tx EXCEPT ![t] = Idle]
    BY <1>2 DEF SendClosed
  <2>2. tx'[u] = tx[u] \/ (tx'[u] = Idle /\ u = t)
    BY <1>1, <2>1
  <2>3. [Next]_vars
    BY <1>2 DEF Next
  <2> QED
    BY <2>1, <2>2, <2>3, ReachStill
<1>3. ASSUME NEW a \in Addrs, T1Expires(a), NEW u \in Senders PROVE Calling(u)' /\ Expected(u)'
  <2>1. /\ UNCHANGED <<raw, msgs, tx>> /\ disturbed' = disturbed \cup {a}
        /\ sessions' = [sessions EXCEPT ![a].stale = TRUE]
    BY <1>3 DEF T1Expires
  <2>2. a = Addr[u] \/ sessions'[Addr[u]] = sessions[Addr[u]]
    BY <1>1, <2>1
  <2>3. [Next]_vars
    BY <1>3 DEF Next
  <2> QED
    BY <2>1, <2>2, <2>3, ReachStill
<1>4. ASSUME EndOfInput \/ CloseBus \/ Recv \/ UNCHANGED vars, NEW u \in Senders
      PROVE  Calling(u)' /\ Expected(u)'
  <2>1. UNCHANGED <<raw, msgs, tx, sessions, disturbed>>
    BY <1>4 DEF EndOfInput, CloseBus, Recv, vars
  <2>2. [Next]_vars
    BY <1>4 DEF Next, Read
  <2> QED
    BY <2>1, <2>2, ReachStill
<1>5. unannounced' = unannounced /\ disturbed \subseteq disturbed'
  BY DEF SendClosed, T1Expires, EndOfInput, CloseBus, Recv, vars
<1> QED
  BY <1>2, <1>3, <1>4, <1>5 DEF ReachInv

\* What writing a packet into a session leaves and adds.
LEMMA FilledKeeps ==
  ASSUME NEW q \in SessionSet, NEW f, NEW s, s = Filled(q, f)
  PROVE  /\ s # NoSession /\ s.stale = q.stale /\ s.of = q.of
         /\ DOMAIN s.buf = DOMAIN q.buf \cup {f.seq} /\ s.buf[f.seq] = f.part
<1> DEFINE buf == [i \in DOMAIN q.buf \cup {f.seq} |-> IF i = f.seq THEN f.part ELSE q.buf[i]]
<1>1. s = [q EXCEPT !.buf = buf, !.received = q.received + 1]
  BY DEF Filled
<1>2. DOMAIN buf = DOMAIN q.buf \cup {f.seq} /\ buf[f.seq] = f.part
  OBVIOUS
<1> HIDE DEF buf
<1>3. s.stale = q.stale /\ s.of = q.of /\ s.buf = buf
  BY <1>1 DEF SessionSet
<1>4. "buf" \in DOMAIN s /\ "buf" \notin DOMAIN NoSession
  BY <1>1 DEF SessionSet, NoSession
<1> QED
  BY <1>2, <1>3, <1>4

\* A session lacks a packet of its message.
LEMMA Missing ==
  ASSUME NEW D, NEW n \in Nat, IsFiniteSet(D), Cardinality(D) < n
  PROVE  \E i \in 1..n : i \notin D
<1> SUFFICES ASSUME 1..n \subseteq D PROVE FALSE
  OBVIOUS
<1>1. Cardinality(1..n) <= Cardinality(D)
  BY FS_Subset
<1>2. Cardinality(1..n) = n
  BY FS_Interval
<1>3. Cardinality(D) \in Nat
  BY FS_CardinalityType
<1> QED
  BY <1>1, <1>2, <1>3

\* The session of a sender for message m.
LEMMA OfFacts ==
  ASSUME ReachInv, NEW t \in Senders, NEW m \in DOMAIN msgs[t], Of(sessions[Addr[t]], m)
  PROVE  /\ Swept[Addr[t]] = sessions[Addr[t]]
         /\ sessions[Addr[t]].np = Packets(msgs[t][m].size)
         /\ \E i \in 1..Packets(msgs[t][m].size) : i \notin DOMAIN sessions[Addr[t]].buf
<1> DEFINE s == sessions[Addr[t]]
<1>1. s # NoSession /\ ~s.stale /\ s.of = m
  BY DEF Of
<1>2. Sound(Addr[t], s, msgs, unannounced)
  BY Apart DEF ReachInv, Inv
<1>3. Swept[Addr[t]] = s
  BY <1>1, Apart DEF Swept
<1>4. /\ s \in SessionSet /\ IsFiniteSet(DOMAIN s.buf) /\ s.received = Cardinality(DOMAIN s.buf)
      /\ s.received < s.np /\ SessionFor(s, t, s.of, msgs)
  BY <1>1, <1>2 DEF Sound
<1>5. s.np = Packets(msgs[t][m].size)
  BY <1>1, <1>4 DEF SessionFor
<1>6. s.np \in Nat
  BY <1>4 DEF SessionSet
<1>7. \E i \in 1..s.np : i \notin DOMAIN s.buf
  BY <1>4, <1>6, Missing
<1> QED
  BY <1>3, <1>5, <1>7

\* What is to be shown of a step that reads a frame.
LEMMA ReachRead ==
  ASSUME ReachInv, [Next]_vars, Consume, UNCHANGED <<tx, msgs>>, NEW t \in Senders, disturbed \subseteq disturbed',
         ASSUME Addr[t] \notin disturbed', NEW m \in DOMAIN msgs[t], OnItsWay(t, m), msgs[t][m].pgn \in Wanted,
                ~Arrived(t, m)'
         PROVE  LET s == sessions[Addr[t]]
                    s2 == sessions'[Addr[t]]
                IN \/ Announces(raw[1], Addr[t], m) /\ Of(s2, m)
                   \/ /\ ~Announces(raw[1], Addr[t], m)
                      /\ (\A j \in DOMAIN raw : ~Announces(raw[j], Addr[t], m)) =>
                           /\ Of(s, m) => Of(s2, m) /\ DOMAIN s.buf \subseteq DOMAIN s2.buf
                           /\ \A i \in 1..Packets(msgs[t][m].size) : IsPart(raw[1], Addr[t], m, i) =>
                                Of(s2, m) /\ i \in DOMAIN s2.buf
  PROVE  Calling(t)' /\ Expected(t)'
<1>1. Calling(t)'
  BY DEF ReachInv, Calling
<1>2. raw \in Seq(FrameSet) /\ raw # <<>> /\ raw' = Tail(raw)
  BY DEF ReachInv, Inv, Shapes, Consume
<1>3. ASSUME Addr[t] \notin disturbed', NEW m \in DOMAIN msgs[t], OnItsWay(t, m), msgs[t][m].pgn \in Wanted
      PROVE  OnItsWay(t, m)' \/ Arrived(t, m)'
  <2> SUFFICES ASSUME ~Arrived(t, m)' PROVE OnItsWay(t, m)'
    OBVIOUS
  <2>1. Underway(Tail(raw), sessions'[Addr[t]], tx[t], Addr[t], m, Packets(msgs[t][m].size))
    BY <1>2, <1>3, UnderwayOpened, UnderwayTail DEF OnItsWay
  <2> QED
    BY <1>2, <2>1 DEF OnItsWay
<1> QED
  BY <1>1, <1>3, ReachKept

\* The frame read.
LEMMA HeadFacts ==
  ASSUME ReachInv, raw # <<>>
  PROVE  /\ Head(raw) = raw[1] /\ 1 \in DOMAIN raw /\ Head(raw).src \in Addrs
         /\ Head(raw).type = "DT" => Head(raw).part[2] = Head(raw).seq
         /\ \A a, m : Announces(raw[1], a, m) <=>
              Head(raw).type = "BAM" /\ Head(raw).src = a /\ Head(raw).part[1] = m
         /\ \A a, m, i : IsPart(raw[1], a, m, i) =>
              /\ Head(raw).type = "DT" /\ Head(raw).src = a
              /\ Head(raw).part[1] = m /\ Head(raw).seq = i
<1>1. Head(raw) = raw[1] /\ Head(raw).src \in Addrs /\ Honest(Head(raw), msgs)
  BY First DEF ReachInv
<1>2. 1 \in DOMAIN raw
  BY DEF ReachInv, Inv, Shapes
<1>3. Head(raw).type = "DT" => Head(raw).part[2] = Head(raw).seq
  BY <1>1 DEF Honest
<1> QED
  BY <1>1, <1>2, <1>3 DEF Announces, IsPart

LEMMA IgnoreBamReaches ==
  ASSUME ReachInv, IgnoreBam, NEW t \in Senders PROVE Calling(t)' /\ Expected(t)'
<1>1. /\ Consume /\ raw # <<>> /\ UNCHANGED <<tx, msgs>> /\ sessions' = Swept
      /\ Head(raw).type = "BAM" /\ disturbed' = disturbed \cup {Head(raw).src} /\ [Next]_vars
  BY DEF IgnoreBam, Consume, Next, Read
<1>2. ASSUME Addr[t] \notin disturbed', NEW m PROVE ~Announces(raw[1], Addr[t], m)
  BY <1>1, <1>2, HeadFacts
<1>3. \A m, i : ~IsPart(raw[1], Addr[t], m, i)
  BY <1>1, HeadFacts
<1>4. \A m \in DOMAIN msgs[t] : Of(sessions[Addr[t]], m) => sessions'[Addr[t]] = sessions[Addr[t]]
  BY <1>1, OfFacts
<1> QED
  BY <1>1, <1>2, <1>3, <1>4, ReachRead

LEMMA IgnorePacketReaches ==
  ASSUME ReachInv, IgnorePacket, NEW t \in Senders PROVE Calling(t)' /\ Expected(t)'
<1> DEFINE a == Addr[t]
           s == sessions[a]
           s2 == sessions'[a]
<1>1. /\ Consume /\ raw # <<>> /\ UNCHANGED <<tx, msgs, disturbed>> /\ sessions' = Swept
      /\ Head(raw).type = "DT" /\ (Swept[Head(raw).src] = NoSession \/ ~Fits(Head(raw), Swept[Head(raw).src]))
      /\ [Next]_vars
  BY DEF IgnorePacket, Consume, Next, Read
<1>2. \A m : ~Announces(raw[1], a, m)
  BY <1>1, HeadFacts
<1>3. \A m \in DOMAIN msgs[t] : Of(s, m) => s2 = s
  BY <1>1, OfFacts
<1>4. ASSUME NEW m \in DOMAIN msgs[t], OnItsWay(t, m), \A j \in DOMAIN raw : ~Announces(raw[j], a, m),
             NEW i \in 1..Packets(msgs[t][m].size), IsPart(raw[1], a, m, i)
      PROVE  Of(s, m) /\ i \in DOMAIN s.buf
  <2>1. Of(s, m)
    BY <1>4 DEF OnItsWay, Underway
  <2>2. Swept[a] = s /\ s.np = Packets(msgs[t][m].size) /\ s # NoSession
    BY <2>1, OfFacts DEF Of
  <2>3. ~Fits(Head(raw), s) /\ Head(raw).seq = i
    BY <1>1, <1>4, <2>2, HeadFacts
  <2> QED
    BY <2>1, <2>2, <2>3 DEF Fits
<1>5. ASSUME NEW m \in DOMAIN msgs[t], OnItsWay(t, m), \A j \in DOMAIN raw : ~Announces(raw[j], a, m)
      PROVE  /\ Of(s, m) => Of(s2, m) /\ DOMAIN s.buf \subseteq DOMAIN s2.buf
             /\ \A i \in 1..Packets(msgs[t][m].size) : IsPart(raw[1], a, m, i) => Of(s2, m) /\ i \in DOMAIN s2.buf
  BY <1>3, <1>4, <1>5
<1> QED
  BY <1>1, <1>2, <1>5, ReachRead

LEMMA TakePacketReaches ==
  ASSUME ReachInv, TakePacket, NEW t \in Senders PROVE Calling(t)' /\ Expected(t)'
<1> DEFINE a == Addr[t]
           s == sessions[a]
           s2 == sessions'[a]
           f == Head(raw)
<1>1. /\ Consume /\ raw # <<>> /\ UNCHANGED <<tx, msgs, disturbed>>
      /\ sessions' = [Swept EXCEPT ![f.src] = Filled(Swept[f.src], f)]
      /\ f.type = "DT" /\ Swept[f.src] # NoSession /\ Fits(f, Swept[f.src]) /\ [Next]_vars
  BY DEF TakePacket, Consume, Next, Read
<1>2. \A m : ~Announces(raw[1], a, m)
  BY <1>1, HeadFacts
<1>3. f.src # a => s2 = Swept[a]
  BY <1>1, SweptFacts, Apart DEF ReachInv
<1>4. ASSUME f.src = a
      PROVE  \A m : Of(s, m) => Of(s2, m) /\ DOMAIN s2.buf = DOMAIN s.buf \cup {f.seq}
  <2>1. s2 = Filled(Swept[a], f) /\ Swept[a] = s
    BY <1>1, <1>4, SweptFacts, Apart DEF ReachInv
  <2>2. Sound(a, s, msgs, unannounced)
    BY Apart DEF ReachInv, Inv
  <2>3. s \in SessionSet
    BY <1>1, <1>4, <2>1, <2>2 DEF Sound
  <2> HIDE DEF s, s2, f
  <2>4. s2 # NoSession /\ s2.stale = s.stale /\ s2.of = s.of /\ DOMAIN s2.buf = DOMAIN s.buf \cup {f.seq}
    BY <2>1, <2>3, FilledKeeps
  <2> QED
    BY <2>4 DEF Of
<1>5. ASSUME NEW m \in DOMAIN msgs[t], OnItsWay(t, m), \A j \in DOMAIN raw : ~Announces(raw[j], a, m)
      PROVE  /\ Of(s, m) => Of(s2, m) /\ DOMAIN s.buf \subseteq DOMAIN s2.buf
             /\ \A i \in 1..Packets(msgs[t][m].size) : IsPart(raw[1], a, m, i) => Of(s2, m) /\ i \in DOMAIN s2.buf
  <2>1. Of(s, m)
    BY <1>5 DEF OnItsWay, Underway
  <2>2. CASE f.src # a
    <3>1. s2 = s
      BY <1>3, <2>1, <2>2, OfFacts
    <3>2. \A i : ~IsPart(raw[1], a, m, i)
      BY <1>1, <2>2, HeadFacts
    <3> QED
      BY <2>1, <3>1, <3>2
  <2>3. CASE f.src = a
    <3>1. \A i : IsPart(raw[1], a, m, i) => i = f.seq
      BY <1>1, HeadFacts
    <3> QED
      BY <1>4, <2>1, <2>3, <3>1
  <2> QED
    BY <2>2, <2>3
<1> QED
  BY <1>1, <1>2, <1>5, ReachRead

\* A message whose place in the queue is behind another announcement of its source is
\* announced behind it, unless all of it has been read.
LEMMA AnnouncedAgain ==
  ASSUME ReachInv, raw # <<>>, NEW t \in Senders, Addr[t] \notin disturbed, NEW m \in DOMAIN msgs[t], OnItsWay(t, m),
         Head(raw).type = "BAM", Head(raw).src = Addr[t], Head(raw).part[1] # m
  PROVE  \E j \in DOMAIN raw : Announces(raw[j], Addr[t], m)
<1> DEFINE a == Addr[t]
           s == sessions[a]
<1> SUFFICES ASSUME \A j \in DOMAIN raw : ~Announces(raw[j], a, m) PROVE FALSE
  OBVIOUS
<1>1. Of(s, m)
  BY DEF OnItsWay, Underway
<1>2. PICK i \in 1..Packets(msgs[t][m].size) : i \notin DOMAIN s.buf
  BY <1>1, OfFacts
<1>3. Coming(raw, s, tx[t], a, m, i)
  BY DEF OnItsWay, Underway
<1>4. InTurn(t) /\ raw \in Seq(FrameSet) /\ Head(raw) = raw[1]
  BY HeadFacts DEF ReachInv, Inv, Shapes
<1>5. ASSUME NEW k \in 2..(Len(raw) + 1), Ready(raw, s, a, k, m) PROVE FALSE
  <2>1. 1 \in 1..(k - 1) /\ \A j \in (1 + 1)..(k - 1) : j \in DOMAIN raw
    BY <1>4
  <2>2. \E j \in (1 + 1)..(k - 1) : Announces(raw[j], a, m)
    BY <1>4, <1>5, <2>1 DEF Ready
  <2> QED
    BY <2>1, <2>2
<1>6. CASE tx[t] # Idle /\ tx[t].m = m
  <2>1. Len(raw) + 1 \in 2..(Len(raw) + 1)
    BY <1>4
  <2> QED
    BY <1>4, <1>5, <1>6, <2>1 DEF InTurn
<1>7. ASSUME NEW k \in DOMAIN raw, IsPart(raw[k], a, m, i) PROVE FALSE
  <2>1. raw[k].type = "DT" /\ raw[k].src = a /\ raw[k].part[1] = m
    BY <1>7 DEF IsPart
  <2>2. k # 1
    BY <1>4, <2>1
  <2>3. k \in 2..(Len(raw) + 1)
    BY <1>4, <2>2
  <2> QED
    BY <1>4, <1>5, <2>1, <2>3 DEF InTurn
<1> QED
  BY <1>2, <1>3, <1>6, <1>7 DEF Coming

LEMMA OpenSessionReaches ==
  ASSUME ReachInv, OpenSession, NEW t \in Senders PROVE Calling(t)' /\ Expected(t)'
<1> DEFINE a == Addr[t]
           s == sessions[a]
           s2 == sessions'[a]
           f == Head(raw)
           new == [total |-> f.total, np |-> f.np, pgn |-> f.pgn, buf |-> <<>>,
                   received |-> 0, stale |-> FALSE, of |-> f.part[1]]
<1>1. /\ Consume /\ raw # <<>> /\ UNCHANGED <<tx, msgs, disturbed>>
      /\ sessions' = [Swept EXCEPT ![f.src] = new] /\ f.type = "BAM" /\ [Next]_vars
  BY DEF OpenSession, Consume, Next, Read
<1>2. \A m, i : ~IsPart(raw[1], a, m, i)
  BY <1>1, HeadFacts
<1>3. Of(new, f.part[1])
  BY DEF Of, NoSession
<1>4. (f.src # a => s2 = Swept[a]) /\ (f.src = a => s2 = new)
  BY <1>1, SweptFacts, Apart DEF ReachInv
<1> HIDE DEF new
<1>5. ASSUME Addr[t] \notin disturbed', NEW m \in DOMAIN msgs[t], OnItsWay(t, m)
      PROVE  \/ Announces(raw[1], a, m) /\ Of(s2, m)
             \/ /\ ~Announces(raw[1], a, m)
                /\ (\A j \in DOMAIN raw : ~Announces(raw[j], a, m)) => (Of(s, m) => s2 = s)
  <2>1. CASE f.src # a
    <3>1. ~Announces(raw[1], a, m)
      BY <1>1, <2>1, HeadFacts
    <3>2. Of(s, m) => s2 = s
      BY <1>4, <2>1, OfFacts
    <3> QED
      BY <3>1, <3>2
  <2>2. CASE f.src = a /\ f.part[1] = m
    BY <1>1, <1>3, <1>4, <2>2, HeadFacts
  <2>3. CASE f.src = a /\ f.part[1] # m
    <3>1. ~Announces(raw[1], a, m)
      BY <1>1, <2>3, HeadFacts
    <3>2. \E j \in DOMAIN raw : Announces(raw[j], a, m)
      BY <1>1, <1>5, <2>3, AnnouncedAgain
    <3> QED
      BY <3>1, <3>2
  <2> QED
    BY <2>1, <2>2, <2>3
<1> QED
  BY <1>1, <1>2, <1>5, ReachRead

LEMMA CompleteReaches ==
  ASSUME ReachInv, Complete, NEW t \in Senders PROVE Calling(t)' /\ Expected(t)'
<1> DEFINE a == Addr[t]
           s == sessions[a]
           s2 == sessions'[a]
           f == Head(raw)
           q == Filled(Swept[f.src], f)
           d == [src |-> f.src, total |-> q.total, pgn |-> q.pgn, buf |-> q.buf]
<1>1. /\ Consume /\ raw # <<>> /\ UNCHANGED <<tx, msgs>> /\ disturbed \subseteq disturbed'
      /\ sessions' = [Swept EXCEPT ![f.src] = NoSession]
      /\ f.type = "DT" /\ Swept[f.src] # NoSession /\ Fits(f, Swept[f.src]) /\ q.received = q.np
      /\ delivered' = Append(delivered, d) \/ f.src \in disturbed' \/ q.pgn \notin Wanted
      /\ [Next]_vars
  BY DEF Complete, Consume, Next, Read
<1>2. \A m : ~Announces(raw[1], a, m)
  BY <1>1, HeadFacts
<1>3. f.src # a => s2 = Swept[a]
  BY <1>1, SweptFacts, Apart DEF ReachInv
<1> HIDE DEF f, q, d
<1>0. PICK o : o = q.of
  OBVIOUS
<1>4. ASSUME f.src = a, a \notin disturbed'
      PROVE  /\ \A m, i : IsPart(raw[1], a, m, i) => m = o
             /\ s.of = o /\ o \in DOMAIN msgs[t] /\ (msgs[t][o].pgn \in Wanted => Arrived(t, o)')
  <2>1. a \notin unannounced /\ Inv
    BY <1>1, <1>4 DEF ReachInv
  <2>2. IsMessage(d, t, o) /\ o \in DOMAIN msgs[t]
    BY <1>1, <1>4, <2>1, FilledWhole, <1>0 DEF f, q, d
  <2>3. s.of = o /\ \A i \in DOMAIN q.buf : q.buf[i] = <<o, i>>
    BY <1>1, <1>4, <2>1, FilledFacts, <1>0 DEF f, q
  <2>4. f.seq \in DOMAIN q.buf /\ q.buf[f.seq] = f.part
    <3>1. Swept[a] \in SessionSet
      BY <1>1, <1>4, SweptFacts, Apart DEF Sound, ReachInv
    <3> QED
      BY <1>4, <3>1, FilledKeeps DEF q
  <2>5. f.part[1] = o
    BY <2>3, <2>4
  <2>6. \A m, i : IsPart(raw[1], a, m, i) => m = o
    BY <1>1, <2>5, HeadFacts DEF f
  <2>7. ASSUME msgs[t][o].pgn \in Wanted PROVE Arrived(t, o)'
    <3>1. d.pgn = q.pgn
      BY DEF d
    <3>2. delivered' = Append(delivered, d) /\ delivered \in Seq(DeliverySet)
      BY <1>1, <1>4, <2>2, <2>7, <3>1 DEF IsMessage, ReachInv
    <3>3. Len(delivered) + 1 \in DOMAIN delivered' /\ delivered'[Len(delivered) + 1] = d
      BY <3>2
    <3> QED
      BY <1>1, <2>2, <3>3 DEF Arrived, IsMessage
  <2> QED
    BY <2>2, <2>3, <2>6, <2>7
<1>5. ASSUME Addr[t] \notin disturbed', NEW m \in DOMAIN msgs[t], OnItsWay(t, m), msgs[t][m].pgn \in Wanted,
             ~Arrived(t, m)', \A j \in DOMAIN raw : ~Announces(raw[j], a, m)
      PROVE  s2 = s /\ \A i : ~IsPart(raw[1], a, m, i)
  <2>1. Of(s, m)
    BY <1>5 DEF OnItsWay, Underway
  <2>2. CASE f.src # a
    <3>1. s2 = s
      BY <1>3, <2>1, <2>2, OfFacts
    <3>2. \A i : ~IsPart(raw[1], a, m, i)
      BY <1>1, <2>2, HeadFacts DEF f
    <3> QED
      BY <3>1, <3>2
  <2>3. CASE f.src = a
    BY <1>4, <1>5, <2>1, <2>3 DEF Of
  <2> QED
    BY <2>2, <2>3
<1>6. ASSUME Addr[t] \notin disturbed', NEW m \in DOMAIN msgs[t], OnItsWay(t, m), msgs[t][m].pgn \in Wanted,
             ~Arrived(t, m)', \A j \in DOMAIN raw : ~Announces(raw[j], a, m)
      PROVE  /\ Of(s, m) => Of(s2, m) /\ DOMAIN s.buf \subseteq DOMAIN s2.buf
             /\ \A i \in 1..Packets(msgs[t][m].size) : IsPart(raw[1], a, m, i) => Of(s2, m) /\ i \in DOMAIN s2.buf
  BY <1>5, <1>6
<1> QED
  BY <1>1, <1>2, <1>6, ReachRead

LEMMA ReachInvKeeps == ASSUME ReachInv, [Next]_vars PROVE ReachInv'
<1>1. Inv' /\ (delivered \in Seq(DeliverySet) /\ Whole)'
  BY NextKeeps, WholeKeeps DEF ReachInv
<1>2. ASSUME IgnoreBam \/ OpenSession \/ IgnorePacket \/ TakePacket \/ Complete
      PROVE  unannounced' \subseteq disturbed' /\ \A u \in Senders : Calling(u)' /\ Expected(u)'
  <2>1. unannounced' = unannounced /\ disturbed \subseteq disturbed'
    BY <1>2 DEF IgnoreBam, OpenSession, IgnorePacket, TakePacket, Complete
  <2> QED
    BY <1>2, <2>1, IgnoreBamReaches, OpenSessionReaches, IgnorePacketReaches, TakePacketReaches, CompleteReaches
    DEF ReachInv
<1>3. unannounced' \subseteq disturbed' /\ \A u \in Senders : Calling(u)' /\ Expected(u)'
  BY <1>2, AnnounceReaches, PacketReaches, ForeignReaches, StillReaches DEF Next, Read
<1> QED
  BY <1>1, <1>3 DEF ReachInv

\* With nothing left to send or to read, what was on its way has arrived: a session still
\* open would lack a packet (pgn.cpp:193-249).
THEOREM ReachesAll == Spec => []Reaches
<1>1. Init => ReachInv
  <2> SUFFICES ASSUME Init PROVE ReachInv
    OBVIOUS
  <2>1. Inv
    BY InitInv
  <2>2. delivered \in Seq(DeliverySet) /\ Whole /\ unannounced \subseteq disturbed
    BY DEF Init, Whole
  <2>3. \A t \in Senders : Calling(t) /\ Expected(t)
    BY DEF Init, Calling, Expected
  <2> QED
    BY <2>1, <2>2, <2>3 DEF ReachInv
<1>2. ReachInv /\ [Next]_vars => ReachInv'
  BY ReachInvKeeps
<1>3. ASSUME ReachInv PROVE Reaches
  <2> SUFFICES ASSUME raw = <<>>, NEW t \in Senders, Addr[t] \notin disturbed, tx[t] = Idle,
                      NEW m \in DOMAIN msgs[t], msgs[t][m].pgn \in Wanted, ~Arrived(t, m)
               PROVE  FALSE
    BY DEF Reaches, Arrived
  <2>1. OnItsWay(t, m)
    BY <1>3 DEF ReachInv, Expected, OnItsWay
  <2>2. Of(sessions[Addr[t]], m)
    BY <2>1 DEF OnItsWay, Underway
  <2>3. PICK i \in 1..Packets(msgs[t][m].size) : i \notin DOMAIN sessions[Addr[t]].buf
    BY <1>3, <2>2, OfFacts
  <2>4. Coming(raw, sessions[Addr[t]], tx[t], Addr[t], m, i)
    BY <2>1 DEF OnItsWay, Underway
  <2> QED
    BY <2>3, <2>4 DEF Coming
<1> QED
  BY <1>1, <1>2, <1>3, PTL DEF Spec

-----------------------------------------------------------------------------
(* The frames of j1939::Bus *)

\* The parts of an id, and of a PGN.
Pack(p, d, pf, ps, src) == (p * 2^26) + (d * 2^24) + (pf * 2^16) + (ps * 2^8) + src
PackPgn(d, pf, low) == (d * 2^16) + (pf * 2^8) + (IF pf < 240 THEN 0 ELSE low)
SecondByte(id) == (id \div 2^8) % 256

AreParts(p, d, pf, ps, src) ==
  /\ p \in 0..7 /\ d \in 0..1
  /\ pf \in 0..255 /\ ps \in 0..255 /\ src \in 0..255

LEMMA Packed ==
  ASSUME NEW p, NEW d, NEW pf, NEW ps, NEW src, AreParts(p, d, pf, ps, src)
  PROVE  /\ DecodeId(Pack(p, d, pf, ps, src)) = [priority |-> p, pgn |-> PackPgn(d, pf, ps), src |-> src]
         /\ SecondByte(Pack(p, d, pf, ps, src)) = ps
<1> DEFINE id == Pack(p, d, pf, ps, src)
<1>0. p \in 0..7 /\ d \in 0..1 /\ pf \in 0..255 /\ ps \in 0..255 /\ src \in 0..255
  BY DEF AreParts
<1>1. id % 256 = src /\ id \div 2^8 = (((p * 4) + d) * 65536) + (pf * 256) + ps
  BY <1>0 DEF Pack
<1>2. id \div 2^16 = (((p * 4) + d) * 256) + pf
  BY <1>0 DEF Pack
<1>3. id \div 2^24 = (p * 4) + d /\ id \div 2^26 = p
  BY <1>0 DEF Pack
<1>4. ((p * 4) + d) % 2 = d /\ p % 8 = p
  BY <1>0
<1>5. ((((p * 4) + d) * 256) + pf) % 256 = pf /\ ((((p * 4) + d) * 65536) + (pf * 256) + ps) % 256 = ps
  BY <1>0
<1> HIDE DEF id
<1>6. /\ (id \div 2^26) % 8 = p /\ (id \div 2^24) % 2 = d /\ (id \div 2^16) % 256 = pf
      /\ (id \div 2^8) % 256 = ps /\ id % 256 = src
  BY <1>1, <1>2, <1>3, <1>4, <1>5
<1> QED
  BY <1>6 DEF DecodeId, PackPgn, SecondByte, id

\* A PGN is its data page, its format and its low byte.
LEMMA PgnParts ==
  ASSUME NEW pgn \in Nat
  PROVE  /\ (pgn \div 2^16) % 2 \in 0..1 /\ PduFormat(pgn) \in 0..255 /\ pgn % 256 \in 0..255
         /\ pgn % 2^17 = (((pgn \div 2^16) % 2) * 2^16) + (PduFormat(pgn) * 2^8) + (pgn % 256)
  BY DEF PduFormat

\* The id of the frame carries what send was given.
Carries(id, m) ==
  /\ DecodeId(id) = [priority |-> m.priority % 8, pgn |-> Canonical(m.pgn), src |-> m.src]
  /\ IsPeerToPeer(Canonical(m.pgn)) <=> IsPeerToPeer(m.pgn)
  /\ IsPeerToPeer(m.pgn) => (id \div 2^8) % 256 = m.dst

\* What EncodeId packs with a destination, DecodeId takes apart.
LEMMA Encoded ==
  ASSUME NEW priority \in 0..255, NEW pgn \in Nat, NEW dst \in 0..255, NEW src \in 0..255,
         NEW id, id = EncodeId(priority, pgn, src) + (IF IsPeerToPeer(pgn) THEN (dst * 2^8) ELSE 0)
  PROVE  /\ id \in Nat
         /\ Carries(id, [priority |-> priority, pgn |-> pgn, dst |-> dst, src |-> src])
<1> DEFINE p == priority % 8
           d == (pgn \div 2^16) % 2
           pf == PduFormat(pgn)
           low == pgn % 256
           ps == IF pf < 240 THEN dst ELSE low
<1>1. /\ p \in 0..7 /\ d \in 0..1 /\ pf \in 0..255 /\ low \in 0..255 /\ ps \in 0..255
      /\ pgn % 2^17 = (d * 2^16) + (pf * 2^8) + low
  <2>1. p \in 0..7
    OBVIOUS
  <2>2. /\ d \in 0..1 /\ pf \in 0..255 /\ low \in 0..255
        /\ pgn % 2^17 = (d * 2^16) + (pf * 2^8) + low
    BY PgnParts
  <2> HIDE DEF p, d, pf, low
  <2>3. ps \in 0..255
    BY <2>2
  <2> QED
    BY <2>1, <2>2, <2>3
<1>2. id = Pack(p, d, pf, ps, src)
  BY <1>1 DEF EncodeId, IsPeerToPeer, Pack
<1>3. IsPeerToPeer(pgn) <=> pf < 240
  BY DEF IsPeerToPeer
<1>4. Canonical(pgn) = PackPgn(d, pf, low)
  BY <1>1, <1>3 DEF Canonical, PackPgn
<1>5. PduFormat(Canonical(pgn)) = pf
  BY <1>1, <1>4 DEF PduFormat, PackPgn
<1>6. PackPgn(d, pf, ps) = PackPgn(d, pf, low)
  BY DEF PackPgn
<1>0. id \in Nat
  BY DEF EncodeId, PduFormat
<1> HIDE DEF p, d, pf, low, ps
<1>7. /\ DecodeId(id) = [priority |-> p, pgn |-> PackPgn(d, pf, ps), src |-> src]
      /\ SecondByte(id) = ps
  <2>1. AreParts(p, d, pf, ps, src)
    BY <1>1 DEF AreParts
  <2> QED
    BY <1>2, <2>1, Packed
<1>8. DecodeId(id) = [priority |-> p, pgn |-> Canonical(pgn), src |-> src]
  BY <1>4, <1>6, <1>7
<1>9. pf < 240 => (id \div 2^8) % 256 = dst
  BY <1>7 DEF ps, SecondByte
<1>10. IsPeerToPeer(Canonical(pgn)) <=> pf < 240
  BY <1>5 DEF IsPeerToPeer
<1> QED
  BY <1>0, <1>3, <1>8, <1>9, <1>10 DEF p, Carries

-----------------------------------------------------------------------------
(* What is on the bus is what it was meant to be *)

Meanings == [priority : 0..255, pgn : Nat, dst : 0..255, src : 0..255]
BusFrames == [id : Nat, ext : BOOLEAN, meant : Seq(Meanings)]
HandedFrames == [priority : Nat, pgn : Nat, src : Nat, dst : Nat, data : Nat]

Sincere(f) == f.meant # <<>> => f.ext /\ Carries(f.id, f.meant[1])

\* What the thread of subscribe makes of the frame at k.
Decoded(k, id) ==
  [priority |-> DecodeId(id).priority, pgn |-> DecodeId(id).pgn, src |-> DecodeId(id).src,
   dst |-> IF IsPeerToPeer(DecodeId(id).pgn) THEN (id \div 2^8) % 256 ELSE kBroadcastAddr, data |-> k]

OnLog ==
  /\ log \in Seq(BusFrames) /\ pending \in [Ecus -> Seq(BusFrames)]
  /\ \A k \in 1..Len(log) : Sincere(log[k])
  /\ \A e \in Ecus : \A i \in 1..Len(pending[e]) : Sincere(pending[e][i])

Unread ==
  /\ rawFrames \in Seq(Nat)
  /\ \A i \in 1..Len(rawFrames) : rawFrames[i] \in 1..Len(log)
  /\ \A i, j \in 1..Len(rawFrames) : i < j => rawFrames[i] < rawFrames[j]

Passed ==
  /\ handed \in Seq(HandedFrames)
  /\ \A i \in 1..Len(handed) :
       /\ handed[i].data \in 1..Len(log)
       /\ Concerns(log[handed[i].data])
       /\ log[handed[i].data].meant # <<>> => Describes(handed[i], log[handed[i].data].meant[1])
  /\ \A i, j \in 1..Len(handed) : i < j => handed[i].data < handed[j].data
  /\ \A i \in 1..Len(handed), j \in 1..Len(rawFrames) : handed[i].data < rawFrames[j]

Accounted ==
  ~missed => \A k \in 1..Len(log) : Concerns(log[k]) =>
     \/ \E i \in 1..Len(rawFrames) : rawFrames[i] = k
     \/ \E i \in 1..Len(handed) : handed[i].data = k

FramesInv == OnLog /\ Unread /\ Passed /\ Accounted

\* Both kinds of frames send puts on the bus.
LEMMA SentSincere ==
  ASSUME NEW e \in Ecus, NEW r \in Requests
  PROVE  /\ FrameToSend(e, r) \in BusFrames /\ Sincere(FrameToSend(e, r))
         /\ \A pgn \in {kPgnTPCM, kPgnTPDT} :
              TransportFrame(e, r, pgn) \in BusFrames /\ Sincere(TransportFrame(e, r, pgn))
<1>1. Address[e] \in 0..255 /\ r.priority \in 0..255 /\ r.pgn \in Nat /\ r.dst \in 0..255
  BY J1939FramesAssumption
<1>2. ASSUME NEW pgn \in Nat, NEW dst \in 0..255, NEW id,
             id = EncodeId(r.priority, pgn, Address[e]) + (IF IsPeerToPeer(pgn) THEN (dst * 2^8) ELSE 0),
             NEW f,
             f = [id |-> id, ext |-> TRUE,
                  meant |-> <<[priority |-> r.priority, pgn |-> pgn, dst |-> dst, src |-> Address[e]]>>]
      PROVE f \in BusFrames /\ Sincere(f)
  <2> DEFINE m == [priority |-> r.priority, pgn |-> pgn, dst |-> dst, src |-> Address[e]]
  <2>1. id \in Nat /\ Carries(id, m)
    BY ZenonT(60), <1>1, <1>2, Encoded
  <2>2. m \in Meanings
    BY <1>1 DEF Meanings
  <2>3. f.id = id /\ f.ext = TRUE /\ f.meant = <<m>>
    BY <1>2
  <2> HIDE DEF m
  <2>4. <<m>> \in Seq(Meanings) /\ <<m>>[1] = m
    BY <2>2
  <2>5. f \in BusFrames
    BY <1>2, <2>1, <2>3, <2>4 DEF BusFrames, m
  <2> QED
    BY <2>1, <2>3, <2>4, <2>5 DEF Sincere
<1>3. FrameToSend(e, r) \in BusFrames /\ Sincere(FrameToSend(e, r))
  BY <1>1, <1>2 DEF FrameToSend
<1>4. ASSUME NEW pgn \in {kPgnTPCM, kPgnTPDT}
      PROVE TransportFrame(e, r, pgn) \in BusFrames /\ Sincere(TransportFrame(e, r, pgn))
  <2>1. pgn \in Nat /\ IsPeerToPeer(pgn)
    BY DEF kPgnTPCM, kPgnTPDT, IsPeerToPeer, PduFormat
  <2>2. kBroadcastAddr \in 0..255
    BY DEF kBroadcastAddr
  <2> QED
    BY <1>1, <1>2, <2>1, <2>2 DEF TransportFrame
<1> QED
  BY <1>3, <1>4

\* The subscriber is told what the frame was meant to say.
LEMMA ReadRight ==
  ASSUME NEW f \in BusFrames, Sincere(f), NEW k \in Nat
  PROVE  /\ Decoded(k, f.id) \in HandedFrames
         /\ Concerns(f) <=> f.ext /\ MatchesPgns(DecodeId(f.id).pgn)
         /\ f.meant # <<>> => Describes(Decoded(k, f.id), f.meant[1])
<1>1. f.id \in Nat /\ f.ext \in BOOLEAN
  BY DEF BusFrames
<1>2. DecodeId(f.id).priority \in Nat /\ DecodeId(f.id).pgn \in Nat /\ DecodeId(f.id).src \in Nat
  BY <1>1 DEF DecodeId
<1>3. (f.id \div 2^8) % 256 \in Nat
  BY <1>1
<1>4. Decoded(k, f.id) \in HandedFrames
  BY <1>2, <1>3 DEF Decoded, HandedFrames, kBroadcastAddr
<1>5. CASE f.meant = <<>>
  BY <1>4, <1>5 DEF Concerns
<1>6. CASE f.meant # <<>>
  <2> DEFINE m == f.meant[1]
  <2>1. f.ext = TRUE /\ Carries(f.id, m)
    BY <1>1, <1>6 DEF Sincere
  <2>2. DecodeId(f.id).priority = m.priority % 8 /\ DecodeId(f.id).pgn = Canonical(m.pgn) /\ DecodeId(f.id).src = m.src
    BY <2>1 DEF Carries
  <2>3. /\ IsPeerToPeer(Canonical(m.pgn)) <=> IsPeerToPeer(m.pgn)
        /\ IsPeerToPeer(m.pgn) => (f.id \div 2^8) % 256 = m.dst
    BY <2>1 DEF Carries
  <2>4. Describes(Decoded(k, f.id), m)
    BY <2>2, <2>3 DEF Describes, Decoded
  <2>5. Concerns(f) <=> f.ext /\ MatchesPgns(DecodeId(f.id).pgn)
    BY <1>6, <2>2 DEF Concerns
  <2> QED
    BY <1>4, <2>4, <2>5
<1> QED
  BY <1>5, <1>6

\* A frame comes onto the bus.
LEMMA OnBusKeeps ==
  ASSUME FramesInv, NEW f \in BusFrames, Sincere(f), OnBus(f), UNCHANGED handed,
         pending' \in [Ecus -> Seq(BusFrames)],
         \A e \in Ecus : \A i \in 1..Len(pending'[e]) : Sincere(pending'[e][i])
  PROVE  FramesInv'
<1>1. /\ log \in Seq(BusFrames) /\ log' = Append(log, f) /\ rawFrames \in Seq(Nat)
      /\ handed' = handed /\ handed \in Seq(HandedFrames)
  BY DEF OnBus, FramesInv, OnLog, Unread, Passed
<1>2. /\ log' \in Seq(BusFrames) /\ Len(log') = Len(log) + 1 /\ Len(log) \in Nat
      /\ log'[Len(log) + 1] = f /\ \A k \in 1..Len(log) : log'[k] = log[k]
  BY <1>1
<1>3. \A k \in 1..Len(log') : Sincere(log'[k])
  BY <1>2 DEF FramesInv, OnLog
<1>4. OnLog'
  BY <1>2, <1>3 DEF OnLog
<1>5. \/ /\ rawFrames' = Append(rawFrames, Len(log) + 1) /\ missed' = missed
      \/ rawFrames' = rawFrames /\ missed'
  BY <1>2 DEF OnBus
<1>6. /\ rawFrames' \in Seq(Nat)
      /\ Len(rawFrames) \in Nat
      /\ Len(rawFrames') \in {Len(rawFrames), Len(rawFrames) + 1}
      /\ \A i \in 1..Len(rawFrames) : rawFrames'[i] = rawFrames[i]
      /\ Len(rawFrames') = Len(rawFrames) + 1 => rawFrames'[Len(rawFrames) + 1] = Len(log) + 1
  <2>1. Len(log) + 1 \in Nat
    BY <1>2
  <2>2. CASE rawFrames' = Append(rawFrames, Len(log) + 1)
    BY <1>1, <2>1, <2>2
  <2>3. CASE rawFrames' = rawFrames
    BY <1>1, <2>3
  <2> QED
    BY <1>5, <2>2, <2>3
<1>7. Unread'
  <2>1. /\ \A i \in 1..Len(rawFrames) : rawFrames[i] \in 1..Len(log)
        /\ \A i, j \in 1..Len(rawFrames) : i < j => rawFrames[i] < rawFrames[j]
    BY DEF FramesInv, Unread
  <2>2. \A i \in 1..Len(rawFrames') :
          \/ i \in 1..Len(rawFrames) /\ rawFrames'[i] = rawFrames[i]
          \/ i = Len(rawFrames) + 1 /\ rawFrames'[i] = Len(log) + 1
    BY <1>6
  <2>3. \A i \in 1..Len(rawFrames') : rawFrames'[i] \in 1..Len(log')
    BY <1>2, <2>1, <2>2
  <2>4. ASSUME NEW i \in 1..Len(rawFrames'), NEW j \in 1..Len(rawFrames'), i < j
        PROVE rawFrames'[i] < rawFrames'[j]
    <3>1. i \in 1..Len(rawFrames) /\ rawFrames'[i] = rawFrames[i]
      BY <1>6, <2>2, <2>4
    <3>2. CASE j \in 1..Len(rawFrames) /\ rawFrames'[j] = rawFrames[j]
      BY <2>1, <2>4, <3>1, <3>2
    <3>3. CASE rawFrames'[j] = Len(log) + 1
      BY <1>2, <2>1, <3>1, <3>3
    <3> QED
      BY <2>2, <3>2, <3>3
  <2> QED
    BY <1>6, <2>3, <2>4 DEF Unread
<1>8. Passed'
  <2>1. /\ \A i \in 1..Len(handed) :
             /\ handed[i].data \in 1..Len(log)
             /\ Concerns(log[handed[i].data])
             /\ log[handed[i].data].meant # <<>> => Describes(handed[i], log[handed[i].data].meant[1])
        /\ \A i, j \in 1..Len(handed) : i < j => handed[i].data < handed[j].data
        /\ \A i \in 1..Len(handed), j \in 1..Len(rawFrames) : handed[i].data < rawFrames[j]
    BY DEF FramesInv, Passed
  <2>2. \A i \in 1..Len(handed) :
             /\ handed[i].data \in 1..Len(log')
             /\ Concerns(log'[handed[i].data])
             /\ log'[handed[i].data].meant # <<>> => Describes(handed[i], log'[handed[i].data].meant[1])
    BY <1>2, <2>1
  <2>3. ASSUME NEW i \in 1..Len(handed), NEW j \in 1..Len(rawFrames') PROVE handed[i].data < rawFrames'[j]
    <3>1. CASE j \in 1..Len(rawFrames)
      BY <1>6, <2>1, <3>1
    <3>2. CASE j = Len(rawFrames) + 1
      BY SMTT(30), <1>2, <1>6, <2>1, <3>2
    <3> QED
      BY <1>6, <3>1, <3>2
  <2> QED
    BY <1>1, <2>1, <2>2, <2>3 DEF Passed
<1>9. Accounted'
  <2> SUFFICES ASSUME ~missed', NEW k \in 1..Len(log'), Concerns(log'[k])
               PROVE \/ \E i \in 1..Len(rawFrames') : rawFrames'[i] = k
                     \/ \E i \in 1..Len(handed) : handed[i].data = k
    BY <1>1 DEF Accounted
  <2>1. rawFrames' = Append(rawFrames, Len(log) + 1) /\ ~missed
    BY <1>5
  <2>2. CASE k = Len(log) + 1
    BY SMTT(30), <1>1, <1>6, <2>1, <2>2
  <2>3. CASE k \in 1..Len(log)
    <3>1. Concerns(log[k])
      BY <1>2, <2>3
    <3>2. \/ \E i \in 1..Len(rawFrames) : rawFrames[i] = k
          \/ \E i \in 1..Len(handed) : handed[i].data = k
      BY <2>1, <2>3, <3>1 DEF FramesInv, Accounted
    <3>3. ASSUME NEW i \in 1..Len(rawFrames), rawFrames[i] = k
          PROVE \E j \in 1..Len(rawFrames') : rawFrames'[j] = k
      <4>1. i \in 1..Len(rawFrames') /\ rawFrames'[i] = k
        BY <1>6, <3>3
      <4> QED
        BY <4>1
    <3> QED
      BY <3>2, <3>3
  <2> QED
    BY <1>2, <2>2, <2>3
<1> QED
  BY <1>4, <1>7, <1>8, <1>9 DEF FramesInv

LEMMA SendFrameKeeps == ASSUME FramesInv, NEW e \in Ecus, SendFrame(e) PROVE FramesInv'
<1>1. PICK r \in Requests : OnBus(FrameToSend(e, r))
  BY DEF SendFrame
<1>2. UNCHANGED <<pending, handed>>
  BY DEF SendFrame
<1>3. /\ pending' \in [Ecus -> Seq(BusFrames)]
      /\ \A u \in Ecus : \A i \in 1..Len(pending'[u]) : Sincere(pending'[u][i])
  BY <1>2 DEF FramesInv, OnLog
<1> QED
  BY <1>1, <1>2, <1>3, SentSincere, OnBusKeeps

LEMMA SendLongKeeps == ASSUME FramesInv, NEW e \in Ecus, SendLong(e) PROVE FramesInv'
<1>1. PICK r \in Requests :
        /\ r.size \in 9..1785 /\ OnBus(TransportFrame(e, r, kPgnTPCM))
        /\ Remaining(e, DataFrames(e, r))
  BY DEF SendLong
<1>2. UNCHANGED handed
  BY DEF SendLong
<1> DEFINE first == TransportFrame(e, r, kPgnTPCM)
           packet == TransportFrame(e, r, kPgnTPDT)
<1>3. packet \in BusFrames /\ Sincere(packet) /\ first \in BusFrames /\ Sincere(first) /\ OnBus(first)
  BY <1>1, SentSincere
<1>4. /\ DataFrames(e, r) \in Seq(BusFrames)
      /\ \A i \in 1..Len(DataFrames(e, r)) : Sincere(DataFrames(e, r)[i])
  <2>4. PICK size \in 9..1785 : size = r.size
    BY <1>1
  <2> DEFINE n == (size + 6) \div 7
  <2>1. n \in Nat
    OBVIOUS
  <2>2. DataFrames(e, r) = [i \in 1..n |-> packet]
    BY <2>4 DEF DataFrames
  <2> HIDE DEF n, packet
  <2>3. [i \in 1..n |-> packet] \in Seq(BusFrames) /\ Len([i \in 1..n |-> packet]) = n
    BY <1>3, <2>1
  <2> QED
    BY <1>3, <2>1, <2>2, <2>3
<1> HIDE DEF first, packet
<1>5. /\ pending' \in [Ecus -> Seq(BusFrames)]
      /\ \A u \in Ecus : \A i \in 1..Len(pending'[u]) : Sincere(pending'[u][i])
  <2> DEFINE fs == DataFrames(e, r)
  <2>1. fs \in Seq(BusFrames) /\ \A i \in 1..Len(fs) : Sincere(fs[i])
    BY <1>4
  <2>2. pending' = [pending EXCEPT ![e] = fs]
    BY <1>1 DEF Remaining
  <2> HIDE DEF fs
  <2> QED
    BY <2>1, <2>2 DEF FramesInv, OnLog
<1> QED
  BY <1>2, <1>3, <1>5, OnBusKeeps

LEMMA SendPacketKeeps == ASSUME FramesInv, NEW e \in Ecus, SendPacket(e) PROVE FramesInv'
<1>1. /\ pending[e] # <<>> /\ OnBus(Head(pending[e])) /\ UNCHANGED handed
      /\ pending' = [pending EXCEPT ![e] = Tail(pending[e])]
  BY DEF SendPacket, Remaining
<1>2. /\ pending \in [Ecus -> Seq(BusFrames)] /\ pending[e] \in Seq(BusFrames)
      /\ \A u \in Ecus : \A i \in 1..Len(pending[u]) : Sincere(pending[u][i])
  BY DEF FramesInv, OnLog
<1>3. Head(pending[e]) \in BusFrames /\ Sincere(Head(pending[e]))
  BY <1>1, <1>2
<1>4. Tail(pending[e]) \in Seq(BusFrames) /\ \A i \in 1..Len(Tail(pending[e])) : Sincere(Tail(pending[e])[i])
  BY <1>1, <1>2
<1>5. /\ pending' \in [Ecus -> Seq(BusFrames)]
      /\ \A u \in Ecus : \A i \in 1..Len(pending'[u]) : Sincere(pending'[u][i])
  BY <1>1, <1>2, <1>4
<1> QED
  BY <1>1, <1>3, <1>5, OnBusKeeps

LEMMA OtherFrameKeeps == ASSUME FramesInv, OtherFrame PROVE FramesInv'
<1>1. PICK o \in Others : OnBus([id |-> o.id, ext |-> o.ext, meant |-> <<>>])
  BY DEF OtherFrame
<1> DEFINE f == [id |-> o.id, ext |-> o.ext, meant |-> <<>>]
<1>2. o.id \in Nat /\ o.ext \in BOOLEAN
  <2>1. o \in [id : 0..(2^29 - 1), ext : BOOLEAN]
    BY J1939FramesAssumption, Zenon
  <2> DEFINE top == 2^29 - 1
  <2> HIDE DEF top
  <2>2. o.id \in 0..top /\ o.ext \in BOOLEAN
    BY <2>1 DEF top
  <2> QED
    BY <2>2
<1>3. f \in BusFrames /\ Sincere(f)
  BY <1>2 DEF BusFrames, Sincere
<1>4. UNCHANGED <<pending, handed>>
  BY DEF OtherFrame
<1>5. /\ pending' \in [Ecus -> Seq(BusFrames)]
      /\ \A u \in Ecus : \A i \in 1..Len(pending'[u]) : Sincere(pending'[u][i])
  BY <1>4 DEF FramesInv, OnLog
<1> QED
  BY <1>1, <1>3, <1>4, <1>5, OnBusKeeps

LEMMA SendFailsKeeps == ASSUME FramesInv, NEW e \in Ecus, SendFails(e) PROVE FramesInv'
<1>1. /\ pending' = [pending EXCEPT ![e] = <<>>]
      /\ UNCHANGED <<rawFrames, log, handed, missed>>
  BY DEF SendFails, Remaining
<1>2. OnLog'
  BY <1>1 DEF FramesInv, OnLog
<1> QED
  BY <1>1, <1>2 DEF FramesInv, Unread, Passed, Accounted

\* The thread takes the oldest frame: it comes after all that was handed over.
LEMMA ReadRawKeeps == ASSUME FramesInv, ReadRaw PROVE FramesInv'
<1> DEFINE k == Head(rawFrames)
           d == Decoded(k, log[k].id)
<1>1. /\ rawFrames \in Seq(Nat) /\ rawFrames # <<>> /\ rawFrames' = Tail(rawFrames)
      /\ log' = log /\ pending' = pending /\ log \in Seq(BusFrames) /\ handed \in Seq(HandedFrames)
      /\ Len(handed) \in Nat
  BY DEF ReadRaw, FramesInv, OnLog, Unread, Passed
<1>2. \/ (~log[k].ext \/ ~MatchesPgns(DecodeId(log[k].id).pgn)) /\ handed' = handed /\ missed' = missed
      \/ /\ log[k].ext /\ MatchesPgns(DecodeId(log[k].id).pgn)
         /\ handed' = Append(handed, d) /\ missed' = missed
      \/ handed' = handed /\ missed'
  BY DEF ReadRaw, Decoded
<1>3. /\ k = rawFrames[1] /\ Len(rawFrames) >= 1 /\ Len(rawFrames) \in Nat
      /\ rawFrames' \in Seq(Nat) /\ Len(rawFrames') = Len(rawFrames) - 1
      /\ \A i \in 1..Len(rawFrames') : rawFrames'[i] = rawFrames[i + 1]
  BY <1>1
<1>4. k \in 1..Len(log) /\ k \in Nat
  BY <1>1, <1>3 DEF FramesInv, Unread
<1>5. log[k] \in BusFrames /\ Sincere(log[k])
  BY <1>1, <1>4 DEF FramesInv, OnLog
<1>6. /\ d \in HandedFrames /\ d.data = k
      /\ Concerns(log[k]) <=> log[k].ext /\ MatchesPgns(DecodeId(log[k].id).pgn)
      /\ log[k].meant # <<>> => Describes(d, log[k].meant[1])
  BY <1>4, <1>5, ReadRight DEF Decoded
<1> HIDE DEF d, k
<1>7. OnLog'
  BY <1>1 DEF FramesInv, OnLog
<1>8. Unread'
  BY <1>1, <1>3 DEF FramesInv, Unread
<1>9. /\ \A i \in 1..Len(handed) :
           /\ handed[i].data \in 1..Len(log)
           /\ Concerns(log[handed[i].data])
           /\ log[handed[i].data].meant # <<>> => Describes(handed[i], log[handed[i].data].meant[1])
      /\ \A i, j \in 1..Len(handed) : i < j => handed[i].data < handed[j].data
      /\ \A i \in 1..Len(handed), j \in 1..Len(rawFrames) : handed[i].data < rawFrames[j]
      /\ \A j \in 2..Len(rawFrames) : k < rawFrames[j]
  <2>1. \A i, j \in 1..Len(rawFrames) : i < j => rawFrames[i] < rawFrames[j]
    BY DEF FramesInv, Unread
  <2>2. \A j \in 2..Len(rawFrames) : k < rawFrames[j]
    BY <1>3, <2>1
  <2> QED
    BY <2>2 DEF FramesInv, Passed
<1>10. CASE handed' = Append(handed, d) /\ missed' = missed /\ Concerns(log[k])
  <2>1. /\ handed' \in Seq(HandedFrames) /\ Len(handed') = Len(handed) + 1
        /\ handed'[Len(handed) + 1] = d /\ \A i \in 1..Len(handed) : handed'[i] = handed[i]
    BY <1>1, <1>6, <1>10
  <2>2. Passed'
    <3>1. \A i \in 1..Len(handed') :
           /\ handed'[i].data \in 1..Len(log)
           /\ Concerns(log[handed'[i].data])
           /\ log[handed'[i].data].meant # <<>> => Describes(handed'[i], log[handed'[i].data].meant[1])
      <4>1. \A i \in 1..Len(handed') : i \in 1..Len(handed) \/ i = Len(handed) + 1
        BY <1>1, <2>1
      <4>2. ASSUME NEW i \in 1..Len(handed)
            PROVE  /\ handed'[i].data \in 1..Len(log)
                   /\ Concerns(log[handed'[i].data])
                   /\ log[handed'[i].data].meant # <<>> =>
                        Describes(handed'[i], log[handed'[i].data].meant[1])
        BY <1>9, <2>1
      <4> QED
        BY <1>4, <1>6, <1>10, <2>1, <4>1, <4>2
    <3>2. \A i, j \in 1..Len(handed') : i < j => handed'[i].data < handed'[j].data
      <4>1. \A i \in 1..Len(handed) : handed[i].data < k
        BY <1>3, <1>9
      <4>2. ASSUME NEW i \in 1..Len(handed'), NEW j \in 1..Len(handed'), i < j
            PROVE handed'[i].data < handed'[j].data
        <5>1. i \in 1..Len(handed) /\ handed'[i] = handed[i]
          BY <1>1, <2>1, <4>2
        <5>2. CASE j = Len(handed) + 1
          BY <1>6, <2>1, <4>1, <5>1, <5>2
        <5>3. CASE j \in 1..Len(handed)
          BY <1>9, <2>1, <4>2, <5>1, <5>3
        <5> QED
          BY <1>1, <2>1, <5>2, <5>3
      <4> QED
        BY <4>2
    <3>3. \A i \in 1..Len(handed'), j \in 1..Len(rawFrames') : handed'[i].data < rawFrames'[j]
      <4>1. ASSUME NEW i \in 1..Len(handed'), NEW j \in 1..Len(rawFrames')
            PROVE handed'[i].data < rawFrames'[j]
        <5>1. j + 1 \in 2..Len(rawFrames) /\ rawFrames'[j] = rawFrames[j + 1]
          BY <1>3
        <5>2. CASE i = Len(handed) + 1
          BY <1>6, <1>9, <2>1, <5>1, <5>2
        <5>3. CASE i \in 1..Len(handed)
          <6>1. j + 1 \in 1..Len(rawFrames)
            BY <1>3
          <6>2. handed[i].data < rawFrames[j + 1]
            BY <1>9, <5>3, <6>1
          <6> QED
            BY <2>1, <5>1, <5>3, <6>2
        <5> QED
          BY <1>1, <2>1, <5>2, <5>3
      <4> QED
        BY <4>1
    <3> QED
      BY <1>1, <2>1, <3>1, <3>2, <3>3 DEF Passed
  <2>3. Accounted'
    <3> SUFFICES ASSUME ~missed, NEW n \in 1..Len(log), Concerns(log[n])
                 PROVE \/ \E i \in 1..Len(rawFrames') : rawFrames'[i] = n
                       \/ \E i \in 1..Len(handed') : handed'[i].data = n
      BY <1>1, <1>10 DEF Accounted
    <3>1. CASE \E i \in 1..Len(handed) : handed[i].data = n
      BY <1>1, <2>1, <3>1
    <3>2. CASE n = k
      BY <1>1, <1>6, <2>1, <3>2
    <3>3. ASSUME NEW i \in 1..Len(rawFrames), rawFrames[i] = n, n # k
          PROVE \E j \in 1..Len(rawFrames') : rawFrames'[j] = n
      <4>1. i - 1 \in 1..Len(rawFrames') /\ rawFrames'[i - 1] = n
        BY <1>3, <3>3
      <4> QED
        BY <4>1
    <3>4. \/ \E i \in 1..Len(rawFrames) : rawFrames[i] = n
          \/ \E i \in 1..Len(handed) : handed[i].data = n
      BY DEF FramesInv, Accounted
    <3> QED
      BY <3>1, <3>2, <3>3, <3>4
  <2> QED
    BY <1>7, <1>8, <2>2, <2>3 DEF FramesInv
<1>11. ASSUME handed' = handed, ~missed' => ~missed /\ ~Concerns(log[k])
       PROVE FramesInv'
  <2>1. \A i \in 1..Len(handed), j \in 1..Len(rawFrames') : handed[i].data < rawFrames'[j]
    BY SMTT(30), <1>3, <1>9
  <2>2. Passed'
    BY <1>1, <1>9, <1>11, <2>1 DEF Passed
  <2>3. Accounted'
    <3> SUFFICES ASSUME ~missed', NEW n \in 1..Len(log), Concerns(log[n])
                 PROVE \/ \E i \in 1..Len(rawFrames') : rawFrames'[i] = n
                       \/ \E i \in 1..Len(handed) : handed[i].data = n
      BY <1>1, <1>11 DEF Accounted
    <3>1. ~missed /\ n # k
      BY <1>11
    <3>2. ASSUME NEW i \in 1..Len(rawFrames), rawFrames[i] = n
          PROVE \E j \in 1..Len(rawFrames') : rawFrames'[j] = n
      <4>1. i - 1 \in 1..Len(rawFrames') /\ rawFrames'[i - 1] = n
        BY <1>3, <3>1, <3>2
      <4> QED
        BY <4>1
    <3>3. \/ \E i \in 1..Len(rawFrames) : rawFrames[i] = n
          \/ \E i \in 1..Len(handed) : handed[i].data = n
      BY <3>1 DEF FramesInv, Accounted
    <3> QED
      BY <3>2, <3>3
  <2> QED
    BY <1>7, <1>8, <2>2, <2>3 DEF FramesInv
<1>12. CASE (~log[k].ext \/ ~MatchesPgns(DecodeId(log[k].id).pgn)) /\ handed' = handed /\ missed' = missed
  <2>1. ~Concerns(log[k])
    BY <1>6, <1>12, Zenon
  <2> QED
    BY <1>11, <1>12, <2>1
<1>13. CASE /\ log[k].ext /\ MatchesPgns(DecodeId(log[k].id).pgn)
            /\ handed' = Append(handed, d) /\ missed' = missed
  <2>1. Concerns(log[k])
    BY <1>6, <1>13, Zenon
  <2> QED
    BY <1>10, <1>13, <2>1
<1>14. CASE handed' = handed /\ missed'
  BY <1>11, <1>14
<1> QED
  BY <1>2, <1>12, <1>13, <1>14, Zenon

\* The reader of the bus hands over what was meant, in the order of the bus, and all
\* of it unless a channel was full, for every set of ECUs, requests and other frames
\* (pgn.cpp:27-61, 79-94).
THEOREM FramesDecoded == FramesSpec => []FramesArrive
<1>1. FramesInit => FramesInv
  <2> SUFFICES ASSUME FramesInit PROVE FramesInv
    OBVIOUS
  <2>1. /\ log = <<>> /\ rawFrames = <<>> /\ handed = <<>> /\ pending = [e \in Ecus |-> <<>>]
    BY DEF FramesInit
  <2>2. OnLog
    BY <2>1 DEF OnLog
  <2>3. Unread
    BY <2>1 DEF Unread
  <2>4. Passed
    BY <2>1 DEF Passed
  <2>5. Accounted
    BY <2>1 DEF Accounted
  <2> QED
    BY <2>2, <2>3, <2>4, <2>5 DEF FramesInv
<1>2. FramesInv /\ [FramesNext]_framesVars => FramesInv'
  <2> SUFFICES ASSUME FramesInv, [FramesNext]_framesVars PROVE FramesInv'
    OBVIOUS
  <2>1. CASE \E e \in Ecus : SendFrame(e) \/ SendLong(e) \/ SendPacket(e) \/ SendFails(e)
    BY <2>1, SendFrameKeeps, SendLongKeeps, SendPacketKeeps, SendFailsKeeps
  <2>2. CASE OtherFrame
    BY <2>2, OtherFrameKeeps
  <2>3. CASE ReadRaw
    BY <2>3, ReadRawKeeps
  <2>4. CASE EndOfRaw \/ RecvFrame \/ CloseCan \/ UNCHANGED framesVars
    <3>1. UNCHANGED <<pending, rawFrames, log, handed, missed>>
      BY <2>4 DEF EndOfRaw, RecvFrame, CloseCan, framesVars
    <3> QED
      BY <3>1 DEF FramesInv, OnLog, Unread, Passed, Accounted
  <2> QED
    BY <2>1, <2>2, <2>3, <2>4 DEF FramesNext
<1>3. FramesInv => FramesArrive
  <2> SUFFICES ASSUME FramesInv PROVE FramesArrive
    OBVIOUS
  <2>1. /\ DOMAIN handed = 1..Len(handed) /\ DOMAIN log = 1..Len(log)
        /\ rawFrames = <<>> => Len(rawFrames) = 0
    BY DEF FramesInv, OnLog, Passed
  <2> QED
    BY SMTT(30), <2>1 DEF FramesInv, Passed, Accounted, FramesArrive
<1> QED
  BY <1>1, <1>2, <1>3, PTL DEF FramesSpec

===================================================================================
