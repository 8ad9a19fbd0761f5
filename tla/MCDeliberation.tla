--------------------------- MODULE MCDeliberation ---------------------------
(* A council of three, proposal ids drawn in any order, one or no judge. *)
EXTENDS Deliberation

CONSTANT RoundsBound   \* stands for MAX_ROUNDS

MCRounds == 0..RoundsBound
MCIds == 1..AgentCount
=============================================================================
