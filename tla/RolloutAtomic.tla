---------------------------- MODULE RolloutAtomic ----------------------------
(* What a deployment promises: the node's file and the record of the latest   *)
(* success change together, in one step, or not at all.                       *)
CONSTANTS Configs, NoConfig, FirstFile

VARIABLES file, success

Publish(c) == file' = c /\ success' = c

Init == file = FirstFile /\ success = NoConfig

Next == \E c \in Configs : Publish(c)

Spec == Init /\ [][Next]_<<file, success>>
==============================================================================
