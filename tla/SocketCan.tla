-------------------------------- MODULE SocketCan --------------------------------
(***************************************************************************)
(* can::socketcan::Bus (src/socketcan/bus.cpp): one kernel socket, written   *)
(* by the threads that call send, read by one thread that hands what it      *)
(* reads to the subscriptions.  The sections under mu_ never block and touch *)
(* each channel once: each is one action.  The descriptor is used outside    *)
(* mu_: reading fd_ and the system call on its value are two steps.          *)
(*                                                                          *)
(* The consumers of the subscriptions are the environment of this module.   *)
(***************************************************************************)
EXTENDS Frames, Sequences, FiniteSets, SequencesExt

CONSTANTS
  Senders,        \* threads that call send
  Closers,        \* threads that call close
  Subs,           \* one member per call of subscribe
  Filter,         \* Filter[s]: the ids the filters of s let through
  ChanDepth,      \* ChanDepth[s]: effective_depth(64)
  Samples,        \* frames that are given to send
  Traffic,        \* what arrives on the socket, in order, at any time
  MaxSends,       \* bound: calls of send of a thread
  ReadMayFail     \* the interface may go down

ASSUME SocketCanAssumption ==
  /\ Filter \in [Subs -> SUBSET Nat] /\ ChanDepth \in [Subs -> Nat \ {0}]
  /\ Samples \subseteq CanFrame /\ Traffic \in Seq(KernelFrame)
  /\ MaxSends \in Nat /\ ReadMayFail \in BOOLEAN
  /\ Senders \cap Closers = {}

VARIABLES
  sock,      \* the kernel's view of the socket: "open" or "closed"
  fd,        \* fd_: "socket", or "none" (-1)
  closed,    \* closed_
  stop,      \* stop_
  subs,      \* subs_
  ch,        \* ch[s]: the channel of s; a frame in it is its place in Traffic
  reader,    \* where read_loop is: "top", "read", "fan" or "done"
  got,       \* the frames it has read so far; the last one is Traffic[got]
  pc, frame, \* where thread t is, the frame it sends
  desc,      \* desc[t]: the value of fd_ that t has loaded for its write
  sends,     \* calls of send so far, for the bound
  res,       \* res[t]: what t's last call of send has returned
  wire       \* history: the frames written to the socket, as given and as written

busVars == <<sock, fd, closed, stop, subs, ch>>
readVars == <<reader, got>>
threadVars == <<pc, frame, desc, sends, res, wire>>
socketVars == <<busVars, readVars, threadVars>>

NoFrame == <<>>

BusInit ==
  /\ sock = "open" /\ fd = "socket"
  /\ closed = FALSE /\ stop = FALSE
  /\ subs = {} /\ ch = [s \in Subs |-> [buf |-> <<>>, closed |-> FALSE]]
  /\ reader = "top" /\ got = 0
  /\ pc = [t \in Senders \cup Closers |-> "idle"]
  /\ frame = [t \in Senders |-> NoFrame]
  /\ desc = [t \in Senders |-> "none"]
  /\ sends = [t \in Senders |-> 0]
  /\ res = [t \in Senders |-> "none"]
  /\ wire = {}

GoTo(t, label) == pc' = [pc EXCEPT ![t] = label]
Result(t, r) == res' = [res EXCEPT ![t] = r]

Calls(t) ==
  /\ pc[t] = "idle" /\ sends[t] < MaxSends
  /\ sends' = [sends EXCEPT ![t] = @ + 1]

-----------------------------------------------------------------------------
(* send *)

\* Refused before mu_ is taken.
SendRefused(t, f) ==
  /\ Calls(t)
  /\ \/ ~Valid(f) /\ Result(t, "payload_too_large")
     \/ Valid(f) /\ f.xl /\ Result(t, "not_supported")
  /\ UNCHANGED <<busVars, readVars, pc, frame, desc, wire>>

SendClosed(t, f) ==
  /\ Calls(t) /\ Valid(f) /\ ~f.xl
  /\ closed
  /\ Result(t, "closed")
  /\ UNCHANGED <<busVars, readVars, pc, frame, desc, wire>>

SendEnter(t, f) ==
  /\ Calls(t) /\ Valid(f) /\ ~f.xl
  /\ ~closed
  /\ frame' = [frame EXCEPT ![t] = f]
  /\ GoTo(t, "encode")
  /\ UNCHANGED <<busVars, readVars, desc, res, wire>>

LoadFd(t) ==
  /\ pc[t] = "encode"
  /\ desc' = [desc EXCEPT ![t] = fd]
  /\ GoTo(t, "write")
  /\ UNCHANGED <<busVars, readVars, frame, sends, res, wire>>

\* The kernel takes the frame, or refuses it; a closed descriptor is an error.
Write(t) ==
  /\ pc[t] = "write"
  /\ \/ /\ desc[t] = "socket" /\ sock = "open"
        /\ wire' = wire \cup {[given |-> frame[t], written |-> Encode(frame[t])]}
        /\ Result(t, "ok")
     \/ Result(t, "not_connected") /\ UNCHANGED wire
  /\ frame' = [frame EXCEPT ![t] = NoFrame]
  /\ desc' = [desc EXCEPT ![t] = "none"]
  /\ GoTo(t, "idle")
  /\ UNCHANGED <<busVars, readVars, sends>>

-----------------------------------------------------------------------------
(* subscribe *)

Subscribe(s) ==
  /\ ~closed /\ s \notin subs
  /\ subs' = subs \cup {s}
  /\ UNCHANGED <<sock, fd, closed, stop, ch, readVars, threadVars>>

-----------------------------------------------------------------------------
(* read_loop *)

ReaderTop ==
  /\ reader = "top"
  /\ reader' = IF stop THEN "done" ELSE "read"
  /\ UNCHANGED <<busVars, got, threadVars>>

\* A frame of an unexpected size is skipped.
ReadFrame ==
  /\ reader = "read" /\ sock = "open" /\ got < Len(Traffic)
  /\ got' = got + 1
  /\ reader' = IF Readable(Traffic[got']) THEN "fan" ELSE "top"
  /\ UNCHANGED <<busVars, threadVars>>

\* Fault: the socket has no receive time-out.
ReadTimeout_Never == FALSE

\* Nothing has arrived for the time of SO_RCVTIMEO, or a signal has.
ReadTimeout ==
  /\ reader = "read" /\ sock = "open"
  /\ reader' = "top"
  /\ UNCHANGED <<busVars, got, threadVars>>

\* A fatal error: the loop ends, the bus stays as it is.
ReadFails ==
  /\ reader = "read" /\ sock = "open" /\ ReadMayFail
  /\ reader' = "done"
  /\ UNCHANGED <<busVars, got, threadVars>>

\* try_send to the subscriptions that match, whatever their policy.
Takes(s, i) ==
  /\ s \in subs /\ Decode(Traffic[i]).id \in Filter[s]
  /\ ~ch[s].closed /\ Len(ch[s].buf) < ChanDepth[s]

FanOut ==
  /\ reader = "fan"
  /\ ch' = [s \in Subs |-> IF Takes(s, got) THEN [ch[s] EXCEPT !.buf = Append(@, got)] ELSE ch[s]]
  /\ reader' = "top"
  /\ UNCHANGED <<sock, fd, closed, stop, subs, got, threadVars>>

-----------------------------------------------------------------------------
(* close *)

CloseAgain(t) ==
  /\ pc[t] \in {"idle", "closed"} /\ closed
  /\ GoTo(t, "closed")
  /\ UNCHANGED <<busVars, readVars, frame, desc, sends, res, wire>>

CloseEnter(t) ==
  /\ pc[t] = "idle" /\ ~closed
  /\ closed' = TRUE
  /\ GoTo(t, "stop")
  /\ UNCHANGED <<sock, fd, stop, subs, ch, readVars, frame, desc, sends, res, wire>>

StopReader(t) ==
  /\ pc[t] = "stop"
  /\ stop' = TRUE
  /\ GoTo(t, "join")
  /\ UNCHANGED <<sock, fd, closed, subs, ch, readVars, frame, desc, sends, res, wire>>

\* Fault: the reader is not waited for.
JoinReader_Detached(t) ==
  /\ pc[t] = "join"
  /\ GoTo(t, "close_fd")
  /\ UNCHANGED <<busVars, readVars, frame, desc, sends, res, wire>>

JoinReader(t) ==
  /\ pc[t] = "join" /\ reader = "done"
  /\ GoTo(t, "close_fd")
  /\ UNCHANGED <<busVars, readVars, frame, desc, sends, res, wire>>

\* Fault: the descriptor is forgotten, not given back.
CloseFd_Leaks(t) ==
  /\ pc[t] = "close_fd"
  /\ GoTo(t, "clear_fd")
  /\ UNCHANGED <<busVars, readVars, frame, desc, sends, res, wire>>

CloseFd(t) ==
  /\ pc[t] = "close_fd"
  /\ sock' = "closed"
  /\ GoTo(t, "clear_fd")
  /\ UNCHANGED <<fd, closed, stop, subs, ch, readVars, frame, desc, sends, res, wire>>

ClearFd(t) ==
  /\ pc[t] = "clear_fd"
  /\ fd' = "none"
  /\ GoTo(t, "close_channels")
  /\ UNCHANGED <<sock, closed, stop, subs, ch, readVars, frame, desc, sends, res, wire>>

\* Fault: the subscriptions are forgotten before their channels are closed.
CloseChannels_ClearedFirst(t) ==
  /\ pc[t] = "close_channels"
  /\ subs' = {}
  /\ GoTo(t, "closed")
  /\ UNCHANGED <<sock, fd, closed, stop, ch, readVars, frame, desc, sends, res, wire>>

CloseChannels(t) ==
  /\ pc[t] = "close_channels"
  /\ ch' = [s \in Subs |-> IF s \in subs THEN [ch[s] EXCEPT !.closed = TRUE] ELSE ch[s]]
  /\ subs' = {}
  /\ GoTo(t, "closed")
  /\ UNCHANGED <<sock, fd, closed, stop, readVars, frame, desc, sends, res, wire>>

-----------------------------------------------------------------------------
SendStep(t) == LoadFd(t) \/ Write(t)

CloseStep(t) ==
  StopReader(t) \/ JoinReader(t) \/ CloseFd(t) \/ ClearFd(t) \/ CloseChannels(t)

ReaderStep == ReaderTop \/ ReadFrame \/ ReadTimeout \/ FanOut

BusNext ==
  \/ \E t \in Senders : SendStep(t) \/ \E f \in Samples : SendRefused(t, f) \/ SendClosed(t, f) \/ SendEnter(t, f)
  \/ \E t \in Closers : CloseAgain(t) \/ CloseEnter(t) \/ CloseStep(t)
  \/ ReaderStep \/ ReadFails

\* Threads inside a call run, the reader runs, and a read with nothing to read
\* times out.
BusFairness ==
  /\ \A t \in Senders : WF_socketVars(SendStep(t))
  /\ \A t \in Closers : WF_socketVars(CloseStep(t))
  /\ WF_socketVars(ReaderStep)

-----------------------------------------------------------------------------
Closing == {t \in Closers : pc[t] \notin {"idle", "closed"}}

\* Types, and one thread at most is inside close.
BusTypeOK ==
  /\ sock \in {"open", "closed"} /\ fd \in {"socket", "none"}
  /\ {closed, stop} \subseteq BOOLEAN /\ (stop => closed)
  /\ subs \subseteq Subs
  /\ \A s \in Subs : Len(ch[s].buf) <= ChanDepth[s]
  /\ reader \in {"top", "read", "fan", "done"}
  /\ Cardinality(Closing) <= 1 /\ (Closing # {} => closed)

\* The reader never reads from a descriptor the bus has given back, also when it
\* is inside read while close runs (bus.cpp:153-158, 171).
ReaderOwnsSocket == reader \in {"read", "fan"} => sock = "open" /\ fd = "socket"

\* What is written stands for the frame that was given: a peer that decodes it
\* with this library gets the same frame back, field by field (REQ-SCAN-003, 007,
\* 008).  The fields of CAN XL have no place in a kernel frame.
WireExact == \A w \in wire : Decode(w.written) = [w.given EXCEPT !.sdt = 0]

\* A send that was let in before the close may still write while the close runs,
\* with the descriptor it has loaded, but no frame reaches the wire once that close
\* has returned (bus.cpp:96-115, 155-158).
NothingSentAfterClose == [][closed /\ Closing = {} => wire' = wire]_socketVars

\* Once the close that did the work has returned, the reader is gone, the socket
\* is closed and so is every channel that was handed out (REQ-SCAN-006,
\* bus.cpp:146-164); channels still have a consumer: alive tells which.
CloseIsComplete(alive) ==
  closed /\ Closing = {} =>
    /\ reader = "done" /\ sock = "closed" /\ fd = "none" /\ subs = {}
    /\ \A s \in alive : ch[s].closed
===============================================================================
