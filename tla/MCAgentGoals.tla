---------------------------- MODULE MCAgentGoals ----------------------------
(* Instances of the goal engine for TLC. *)
EXTENDS AgentGoals

CONSTANTS plain, gated

\* One goal and anything that can go wrong with it.
Disorderly == [tools |-> {plain, gated}, devices |-> {gated}, maxGoals |-> 1,
               maxHalts |-> 2, maxSteps |-> 2, quota |-> 0, cooldown |-> FALSE,
               retention |-> NoLimit, serial |-> FALSE, catalogMayShrink |-> TRUE,
               dbMayFail |-> TRUE, mayCrash |-> TRUE]

\* Two goals at once, with a quota, cooldowns and a retention limit.
Calm == [tools |-> {plain, gated}, devices |-> {}, maxGoals |-> 2,
         maxHalts |-> 1, maxSteps |-> 2, quota |-> 1, cooldown |-> TRUE,
         retention |-> 1, serial |-> TRUE, catalogMayShrink |-> FALSE,
         dbMayFail |-> FALSE, mayCrash |-> FALSE]

MCInstances == {Disorderly, Calm}
=============================================================================
