-------------------------- MODULE MCOutboundChannel --------------------------
(***************************************************************************)
(* Instances of OutboundChannel for TLC.  Actors a1 and a2 are the players *)
(* of connections c1 and c2, a3 is the provisional actor that has a        *)
(* command of c1 from before its login, a4 is a room that pushes frames to *)
(* c1.                                                                     *)
(***************************************************************************)
EXTENDS OutboundChannel

CONSTANTS a1, a2, a3, a4, c1, c2

MCConnectionOf == [a \in Actors |-> IF a = a2 THEN c2 ELSE c1]
MCOneCommand == [a \in Actors |-> 1]
MCFewCommands == [a \in Actors |-> IF a = a1 THEN 2 ELSE 1]
=============================================================================
