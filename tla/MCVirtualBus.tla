----------------------------- MODULE MCVirtualBus -----------------------------
(* Instances of VirtualBus for TLC. *)
EXTENDS VirtualBus, TLC

CONSTANTS t1, t2, c1, d1, s1, s2, x, y, bad

TwoIds == {x, y}
OneId == {x}

\* s1 takes every frame, s2 those with id x; s1 gets the default depth.
Filters == s1 :> Ids @@ s2 :> {x}
Depths == s1 :> 0 @@ s2 :> 1

EveryPolicy == s1 :> {"DropNewest"} @@ s2 :> {"DropOldest", "Block"}
BlockPolicy == s1 :> {"DropOldest"} @@ s2 :> {"Block"}

TwoAndOne == t1 :> 2 @@ t2 :> 1
OneEach == [t \in Senders |-> 1]
TwoEach == [t \in Senders |-> 2]
===============================================================================
