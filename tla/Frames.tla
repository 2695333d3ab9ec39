--------------------------------- MODULE Frames ---------------------------------
(***************************************************************************)
(* Frames and what is done to them on the way: the rules of validate_frame,  *)
(* the conversion to and from relay::Message (src/can.cpp), and the kernel's *)
(* can_frame and canfd_frame (src/socketcan/bus.cpp).                       *)
(*                                                                          *)
(* A frame's data is its length; sdt stands for the four fields only CAN XL *)
(* has (sdt, vcid, af, sec).  A text that should be a number is the number, *)
(* or NotANumber.                                                           *)
(***************************************************************************)
EXTENDS Integers, TLC

MaxDataLen == 8
FdMaxDataLen == 64
XlMaxDataLen == 2048
MaxStdId == 2^11 - 1
MaxExtId == 2^29 - 1

NotANumber == -1

\* The fields of a CANFrame, and of the two kernel frames; "other" is neither.
CanFrame == [id : Nat, len : Nat, ext : BOOLEAN, rtr : BOOLEAN, fd : BOOLEAN, brs : BOOLEAN,
             esi : BOOLEAN, xl : BOOLEAN, sdt : Nat]
KernelFrame == [size : {"can_frame", "canfd_frame", "other"}, id : Nat, eff : BOOLEAN, rtr : BOOLEAN,
                brs : BOOLEAN, esi : BOOLEAN, len : Nat]

AtMost(a, b) == IF a < b THEN a ELSE b

CanonicalFdLen == 0..8 \cup {12, 16, 20, 24, 32, 48, 64}

ValidXl(f) ==
  /\ ~f.fd /\ ~f.ext /\ ~f.rtr /\ ~f.brs
  /\ f.id <= MaxStdId
  /\ f.len \in 1..XlMaxDataLen

ValidClassicOrFd(f) ==
  /\ f.id <= (IF f.ext THEN MaxExtId ELSE MaxStdId)
  /\ f.rtr => ~f.fd /\ f.len = 0
  /\ IF f.fd THEN f.len \in CanonicalFdLen ELSE f.len <= MaxDataLen
  /\ f.brs \/ f.esi => f.fd

\* validate_frame does not throw.
Valid(f) == IF f.xl THEN ValidXl(f) ELSE ValidClassicOrFd(f)

-----------------------------------------------------------------------------
(* relay::Message: the four classic flags are always in meta, the others only *)
(* when they are set.                                                         *)

AlwaysInMeta == {"ext", "fd", "rtr", "brs"}
InMetaIfSet == {"esi", "xl"}

\* Fault: the error state indicator is not carried over.
ToMessage_NoEsi(f) ==
  [id |-> f.id, len |-> f.len,
   meta |-> [k \in AlwaysInMeta \cup {k \in {"xl"} : f[k]} \cup {k \in {"sdt"} : f[k] # 0} |-> f[k]]]

ToMessage(f) ==
  [id |-> f.id, len |-> f.len,
   meta |-> [k \in AlwaysInMeta \cup {k \in InMetaIfSet : f[k]} \cup {k \in {"sdt"} : f[k] # 0} |-> f[k]]]

Has(m, k) == k \in DOMAIN m.meta /\ m.meta[k] = TRUE

\* The frame a message describes; sdt is cut to a uint8_t.
FrameOf(m) ==
  [id |-> m.id, len |-> m.len, ext |-> Has(m, "ext"), rtr |-> Has(m, "rtr"),
   fd |-> Has(m, "fd"), brs |-> Has(m, "brs"), esi |-> Has(m, "esi"), xl |-> Has(m, "xl"),
   sdt |-> IF "sdt" \in DOMAIN m.meta THEN m.meta.sdt % 256 ELSE 0]

\* from_message does not throw.
Accepts(m) ==
  /\ m.id \in 0..MaxExtId
  /\ "sdt" \in DOMAIN m.meta => m.meta.sdt # NotANumber
  /\ Valid(FrameOf(m))

-----------------------------------------------------------------------------
(* The kernel's frames: their size tells the kind, can_id holds the id and two *)
(* flags.                                                                       *)

Encode(f) ==
  [size |-> IF f.fd THEN "canfd_frame" ELSE "can_frame",
   id |-> f.id, eff |-> f.ext, rtr |-> f.rtr,
   brs |-> f.fd /\ f.brs, esi |-> f.fd /\ f.esi, len |-> f.len]

Readable(k) == k.size \in {"can_frame", "canfd_frame"}

\* Fault: an id is always cut to eleven bits.
Decode_SffOnly(k) ==
  LET fd == k.size = "canfd_frame" IN
    [id |-> k.id % 2^11, ext |-> k.eff, rtr |-> ~fd /\ k.rtr,
     fd |-> fd, brs |-> fd /\ k.brs, esi |-> fd /\ k.esi, xl |-> FALSE, sdt |-> 0,
     len |-> AtMost(k.len, IF fd THEN FdMaxDataLen ELSE MaxDataLen)]

Decode(k) ==
  LET fd == k.size = "canfd_frame" IN
    [id |-> k.id % (IF k.eff THEN 2^29 ELSE 2^11), ext |-> k.eff, rtr |-> ~fd /\ k.rtr,
     fd |-> fd, brs |-> fd /\ k.brs, esi |-> fd /\ k.esi, xl |-> FALSE, sdt |-> 0,
     len |-> AtMost(k.len, IF fd THEN FdMaxDataLen ELSE MaxDataLen)]
===============================================================================
