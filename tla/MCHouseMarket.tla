---------------------------- MODULE MCHouseMarket ----------------------------
(* HouseMarket on a small instance. *)
EXTENDS HouseMarket

CONSTANTS a, b, c, h1

MCPlayers == {a, b, c}
MCHouses == {h1}
MCPrimaryPrice == [h \in MCHouses |-> 1]
MCDurations == {1}
==============================================================================
