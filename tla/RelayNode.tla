-------------------------------- MODULE RelayNode --------------------------------
(***************************************************************************)
(* can::adapt (CanAdapter, src/can.cpp) over a socketcan::Bus: a bus as a    *)
(* RELAY node.  send turns a message into a frame for the bus; subscribe     *)
(* starts a bridge thread that takes the frames of a subscription of the     *)
(* bus, numbers them with a counter all bridges share, and puts them into    *)
(* the channel of the subscriber under the policy it asked for.              *)
(***************************************************************************)
EXTENDS SocketCan

CONSTANTS
  Messages,    \* messages that are given to send
  Policies,    \* Policies[s]: the back_pressure s may ask for
  OutDepth,    \* OutDepth[s]: its channel_depth
  Leavers      \* subscribers that may close their own channel

ASSUME RelayNodeAssumption ==
  /\ Policies \in [Subs -> SUBSET {"DropNewest", "DropOldest", "Block"}]
  /\ OutDepth \in [Subs -> Nat \ {0}]
  /\ Leavers \subseteq Subs
  /\ \A m \in Messages : /\ m.id \in Int /\ m.len \in Nat
                         /\ "sdt" \in DOMAIN m.meta => m.meta.sdt \in Nat \cup {NotANumber}

VARIABLES
  seq,      \* seq_
  policy,   \* policy[s]: bp of the bridge of s
  bridge,   \* bridge[s]: "none", "recv", "stamp", "push" or "done"
  msg,      \* msg[s]: the message its bridge holds
  out,      \* out[s]: the channel of the subscriber
  emitted   \* history: the messages that entered out[s], in order

nodeVars == <<seq, policy, bridge, msg, out, emitted>>
vars == <<socketVars, nodeVars>>

NoMessage == <<>>

Init ==
  /\ BusInit
  /\ seq = 0
  /\ policy = [s \in Subs |-> "none"]
  /\ bridge = [s \in Subs |-> "none"]
  /\ msg = [s \in Subs |-> NoMessage]
  /\ out = [s \in Subs |-> [buf |-> <<>>, closed |-> FALSE]]
  /\ emitted = [s \in Subs |-> <<>>]

-----------------------------------------------------------------------------
(* send *)

NodeSendInvalid(t, m) ==
  /\ Calls(t) /\ ~Accepts(m)
  /\ Result(t, "invalid_argument")
  /\ UNCHANGED <<busVars, readVars, pc, frame, desc, wire, nodeVars>>

NodeSend(t, m) ==
  /\ Accepts(m)
  /\ LET f == FrameOf(m) IN SendRefused(t, f) \/ SendClosed(t, f) \/ SendEnter(t, f)
  /\ UNCHANGED nodeVars

-----------------------------------------------------------------------------
(* subscribe and the bridge thread *)

NodeSubscribe(s) ==
  /\ bridge[s] = "none"
  /\ Subscribe(s)
  /\ \E p \in Policies[s] : policy' = [policy EXCEPT ![s] = p]
  /\ bridge' = [bridge EXCEPT ![s] = "recv"]
  /\ UNCHANGED <<seq, msg, out, emitted>>

BridgeRecv(s) ==
  /\ bridge[s] = "recv" /\ ch[s].buf # <<>>
  /\ LET i == Head(ch[s].buf) IN
       msg' = [msg EXCEPT ![s] = [i |-> i, body |-> ToMessage(Decode(Traffic[i])), seq |-> 0]]
  /\ ch' = [ch EXCEPT ![s].buf = Tail(@)]
  /\ bridge' = [bridge EXCEPT ![s] = "stamp"]
  /\ UNCHANGED <<sock, fd, closed, stop, subs, readVars, threadVars, seq, policy, out, emitted>>

\* Fault: the counter is read and written back in two steps.
Stamp_LostUpdate(s) ==
  /\ bridge[s] = "stamp"
  /\ seq' \in {seq, seq + 1}
  /\ msg' = [msg EXCEPT ![s].seq = seq + 1]
  /\ bridge' = [bridge EXCEPT ![s] = "push"]
  /\ UNCHANGED <<socketVars, policy, out, emitted>>

\* ++seq_, one atomic step.
Stamp(s) ==
  /\ bridge[s] = "stamp"
  /\ seq' = seq + 1
  /\ msg' = [msg EXCEPT ![s].seq = seq + 1]
  /\ bridge' = [bridge EXCEPT ![s] = "push"]
  /\ UNCHANGED <<socketVars, policy, out, emitted>>

Full(s) == Len(out[s].buf) >= OutDepth[s]

Emit(s, room) ==
  /\ out' = [out EXCEPT ![s].buf = Append(room, msg[s])]
  /\ emitted' = [emitted EXCEPT ![s] = Append(@, msg[s])]

\* Fault: the head stays.
MakeRoom_KeepsHead(s) == out[s].buf

\* The channel without its oldest message, if it is full.
MakeRoom(s) == IF Full(s) THEN Tail(out[s].buf) ELSE out[s].buf

\* What the channel answers is ignored.
Push(s) ==
  /\ bridge[s] = "push"
  /\ \/ out[s].closed /\ UNCHANGED <<out, emitted>>
     \/ ~out[s].closed /\ ~Full(s) /\ policy[s] # "DropOldest" /\ Emit(s, out[s].buf)
     \/ ~out[s].closed /\ Full(s) /\ policy[s] = "DropNewest" /\ UNCHANGED <<out, emitted>>
     \/ ~out[s].closed /\ policy[s] = "DropOldest" /\ Emit(s, MakeRoom(s))
  /\ msg' = [msg EXCEPT ![s] = NoMessage]
  /\ bridge' = [bridge EXCEPT ![s] = "recv"]
  /\ UNCHANGED <<socketVars, seq, policy>>

BridgeEnd(s) ==
  /\ bridge[s] = "recv" /\ ch[s].closed /\ ch[s].buf = <<>>
  /\ out' = [out EXCEPT ![s].closed = TRUE]
  /\ bridge' = [bridge EXCEPT ![s] = "done"]
  /\ UNCHANGED <<socketVars, seq, policy, msg, emitted>>

-----------------------------------------------------------------------------
(* The subscribers. *)

Recv(s) ==
  /\ out[s].buf # <<>>
  /\ out' = [out EXCEPT ![s].buf = Tail(@)]
  /\ UNCHANGED <<socketVars, seq, policy, bridge, msg, emitted>>

Leave(s) ==
  /\ s \in Leavers /\ bridge[s] # "none" /\ ~out[s].closed
  /\ out' = [out EXCEPT ![s].closed = TRUE]
  /\ UNCHANGED <<socketVars, seq, policy, bridge, msg, emitted>>

-----------------------------------------------------------------------------
BridgeStep(s) == BridgeRecv(s) \/ Stamp(s) \/ Push(s) \/ BridgeEnd(s)

Next ==
  \/ BusNext /\ UNCHANGED nodeVars
  \/ \E t \in Senders, m \in Messages : NodeSendInvalid(t, m) \/ NodeSend(t, m)
  \/ \E s \in Subs : NodeSubscribe(s) \/ BridgeStep(s) \/ Recv(s) \/ Leave(s)

Spec == Init /\ [][Next]_vars

\* The bridges run; the subscribers that asked for Block keep receiving.
Fairness ==
  /\ BusFairness
  /\ \A s \in Subs : WF_vars(BridgeStep(s)) /\ WF_vars(policy[s] = "Block" /\ Recv(s))

FairSpec == Spec /\ Fairness

-----------------------------------------------------------------------------
Subscribed == {s \in Subs : bridge[s] # "none"}

\* Types of both parts; a bridge holds a message while it numbers and pushes it.
TypeOK ==
  /\ BusTypeOK
  /\ seq \in Nat
  /\ \A s \in Subs :
       /\ bridge[s] \in {"none", "recv", "stamp", "push", "done"}
       /\ Len(out[s].buf) <= OutDepth[s]
       /\ msg[s] # NoMessage <=> bridge[s] \in {"stamp", "push"}
       /\ IsSuffix(out[s].buf, emitted[s])

CloseComplete == CloseIsComplete(Subscribed)

\* "assigning monotonically increasing seq numbers" (REQ-CAN-016): each
\* subscriber sees increasing numbers and frames in the order they were read from
\* the socket, and no two messages of the node have the same number (can.cpp:196).
NumberedInOrder ==
  /\ \A s \in Subs : \A k, l \in DOMAIN emitted[s] :
       k < l => emitted[s][k].seq < emitted[s][l].seq /\ emitted[s][k].i < emitted[s][l].i
  /\ \A s, u \in Subs : s # u =>
       \A k \in DOMAIN emitted[s], l \in DOMAIN emitted[u] : emitted[s][k].seq # emitted[u][l].seq

\* What a node hands out stands for the frame on the wire, and a node accepts it
\* for sending on, unless it is a remote request with a length: that one becomes
\* a frame with data, which validate_frame refuses (REQ-CAN-015, can.cpp:79-152).
IsRequestWithLength(k) == k.size = "can_frame" /\ k.rtr /\ k.len > 0

Forwardable ==
  \A s \in Subs : \A l \in DOMAIN emitted[s] :
    LET k == Traffic[emitted[s][l].i]
        body == emitted[s][l].body
    IN IF IsRequestWithLength(k) THEN ~Accepts(body)
       ELSE Accepts(body) /\ FrameOf(body) = Decode(k)

\* Every send and close returns: the reader notices that it is to stop although
\* nothing arrives (bus.cpp:49-54, 153-154).  And "the channel is closed when the
\* node closes" (relay.hpp:211), provided that the subscribers that asked for Block
\* keep receiving.
EveryCallReturns ==
  /\ \A t \in Senders \cup Closers : pc[t] \notin {"idle", "closed"} ~> pc[t] \in {"idle", "closed"}
  /\ closed ~> \A s \in Subscribed : out[s].closed
===============================================================================
