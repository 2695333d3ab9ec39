------------------------------ MODULE MCRelayNode ------------------------------
(* An instance of RelayNode for TLC.  A behaviour is of one of two kinds:     *)
(* "bridge", nobody sends and one thread closes; "send", there is one         *)
(* subscriber and less arrives.                                               *)
EXTENDS RelayNode

CONSTANTS s1, s2, c1, c2

VARIABLE scenario

Plain == [id |-> 1, len |-> 8, ext |-> FALSE, rtr |-> FALSE, fd |-> FALSE, brs |-> FALSE,
          esi |-> FALSE, xl |-> FALSE, sdt |-> 0]
Extended == [Plain EXCEPT !.id = MaxExtId, !.ext = TRUE, !.fd = TRUE, !.brs = TRUE, !.esi = TRUE, !.len = 64]
Request == [Plain EXCEPT !.rtr = TRUE, !.len = 0]
Xl == [Plain EXCEPT !.xl = TRUE, !.len = XlMaxDataLen, !.sdt = 3]

\* Valid, of every kind; and one refused for each rule.
ValidFrames == {Extended, [Request EXCEPT !.sdt = 7], Xl}
InvalidFrames ==
  {[Plain EXCEPT !.id = MaxStdId + 1], [Extended EXCEPT !.id = MaxExtId + 1],
   [Plain EXCEPT !.len = 9], [Extended EXCEPT !.len = 9], [Extended EXCEPT !.len = 65],
   [Request EXCEPT !.len = 1], [Request EXCEPT !.fd = TRUE],
   [Plain EXCEPT !.brs = TRUE], [Plain EXCEPT !.esi = TRUE],
   [Xl EXCEPT !.fd = TRUE], [Xl EXCEPT !.ext = TRUE], [Xl EXCEPT !.rtr = TRUE],
   [Xl EXCEPT !.brs = TRUE], [Xl EXCEPT !.id = MaxStdId + 1], [Xl EXCEPT !.len = 0],
   [Xl EXCEPT !.len = XlMaxDataLen + 1]}
SampleFrames == ValidFrames \cup InvalidFrames

SampleMessages ==
  {ToMessage(Extended), ToMessage(Xl), ToMessage([Plain EXCEPT !.len = 9]),
   [ToMessage(Plain) EXCEPT !.id = NotANumber], [ToMessage(Plain) EXCEPT !.id = MaxExtId + 1],
   [id |-> 1, len |-> 0, meta |-> [sdt |-> NotANumber]]}

Received == <<[size |-> "other", id |-> 0, eff |-> FALSE, rtr |-> FALSE, brs |-> FALSE,
               esi |-> FALSE, len |-> 0],
              [size |-> "can_frame", id |-> 1, eff |-> FALSE, rtr |-> TRUE, brs |-> FALSE,
               esi |-> FALSE, len |-> 2],
              [size |-> "canfd_frame", id |-> MaxExtId, eff |-> TRUE, rtr |-> FALSE, brs |-> TRUE,
               esi |-> TRUE, len |-> 64]>>

\* The adapter subscribes without a filter.
Everything == {1, MaxExtId}
Filters == [s \in Subs |-> Everything]
OneEach == [s \in Subs |-> 1]
TwoAndOne == [s \in Subs |-> IF s = s1 THEN 2 ELSE 1]
SomePolicies == [s \in Subs |-> IF s = s1 THEN {"Block"} ELSE {"DropNewest", "DropOldest"}]

MCInit == Init /\ scenario \in {"bridge", "send"}

MCNext ==
  /\ Next
  /\ UNCHANGED scenario
  /\ scenario = "bridge" => sends' = sends /\ pc'[c2] = "idle"
  /\ scenario = "send" => s2 \notin Subscribed' /\ got' <= 2

MCSpec == MCInit /\ [][MCNext]_<<vars, scenario>> /\ Fairness
===============================================================================
