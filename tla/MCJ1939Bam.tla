------------------------------ MODULE MCJ1939Bam ------------------------------
(* Instances of J1939Bam and J1939Frames for TLC: one of the two runs. *)
EXTENDS J1939Bam, J1939Frames

CONSTANTS t1, t2, a1, a2, b

VARIABLE scenario

mcVars == <<vars, framesVars, scenario>>

-----------------------------------------------------------------------------
OwnAddresses == t1 :> a1 @@ t2 :> a2

TwoAndOne == t1 :> 2 @@ t2 :> 1

\* Other ECUs: one good announcement, two malformed ones.
Neighbours == {[src |-> b, total |-> 20, np |-> 3, pgn |-> 1],
               [src |-> b, total |-> 2000, np |-> 3, pgn |-> 1],
               [src |-> b, total |-> 20, np |-> 0, pgn |-> 1]}

-----------------------------------------------------------------------------
\* Source addresses at both ends.
Addresses == t1 :> 0 @@ t2 :> 254

\* For one receiver (EA00, and EF12 with a low byte that means nothing), for all (FECA),
\* on the second data page (1F004), with a bit more than a PGN has (2FECA); the long one
\* is for one receiver too.
MCRequests ==
  {[priority |-> p, pgn |-> g, dst |-> 128, size |-> 8] : p \in {6, 9}, g \in {59904, 61202, 65226, 126980, 196298}}
  \cup {[priority |-> 7, pgn |-> 61184, dst |-> 5, size |-> 9], [priority |-> 7, pgn |-> 65226, dst |-> 5, size |-> 1786]}

MCPgnFilter == {59904, 61184, 65226, 126980, 60416, 60160}

\* A frame with an id of eleven bits, and ids with all bits set but for the PDU format.
MCOthers == {[id |-> 2047, ext |-> FALSE], [id |-> 536870911, ext |-> TRUE], [id |-> 535887871, ext |-> TRUE]}

-----------------------------------------------------------------------------
MCInit == Init /\ FramesInit /\ scenario \in {"bam", "frames"}

MCNext ==
  /\ UNCHANGED scenario
  /\ \/ scenario = "bam" /\ Next /\ UNCHANGED framesVars
     \/ scenario = "frames" /\ FramesNext /\ UNCHANGED vars

MCSpec == MCInit /\ [][MCNext]_mcVars
===============================================================================
