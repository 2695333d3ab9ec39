-------------------------------- MODULE MCIsoTp --------------------------------
(* Instances of IsoTp for TLC.  A run's behaviours are of the kinds it names: *)
(* "one way", only A sends, any length and any flow status; "duplex", both    *)
(* send, short payloads and "CTS" only; "any", whatever the constants allow.  *)
EXTENDS IsoTp, Functions, TLC

CONSTANT Scenarios

VARIABLE scenario

OneWay == A :> 2 @@ B :> 0
OneWayOnce == A :> 1 @@ B :> 0
BothWays == A :> 2 @@ B :> 1

FlowOf(e) == {f.fs : f \in {f \in Range(rx[e]) : f.type = "FC"}}

MCInit == Init /\ scenario \in Scenarios

MCNext ==
  /\ Next
  /\ UNCHANGED scenario
  /\ scenario = "one way" => result'[B] = "ok" /\ sent'[B] = <<>> /\ rcv'[A].stage = "idle"
  /\ scenario = "duplex" =>
       \A e \in Ends : /\ Range(sent[e])' \subseteq (IF e = A THEN {5, 27} ELSE {13})
                       /\ result'[e] # "refused"
                       /\ ~rcv'[e].hold /\ FlowOf(e)' \subseteq {"CTS"}

MCSpec == MCInit /\ [][MCNext]_<<vars, scenario>>
MCFairSpec == MCSpec /\ Fairness
================================================================================
