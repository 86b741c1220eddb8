--------------------------- MODULE MCPokemonGym ---------------------------
(***************************************************************************)
(* The game in the real gym with the real numbers.                         *)
(***************************************************************************)
EXTENDS Pokemon, GymMap

(* README.md:10 "the character is only able to traverse the rooms": the    *)
(* character of a running game is in one of the nine rooms.                *)
InRooms == gameState = "draw_main_game" => \E r \in Rooms : pos \in Room(r)
===========================================================================
