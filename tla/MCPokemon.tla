----------------------------- MODULE MCPokemon -----------------------------
(***************************************************************************)
(* A gym of four rooms on an eight by eight torus, with two pairs of       *)
(* teleport tiles.  As in the real one, walls are single coordinates that  *)
(* block one direction, and the left column of rooms has no left wall.     *)
(***************************************************************************)
EXTENDS PokemonSteps

MCStart   == <<1, 1>>
MCPowerUp == <<0, 0>>

MCPairs == {<<<<2, 3>>, <<6, 6>>>>, <<<<2, 6>>, <<6, 3>>>>}
MCPads == UNION {{q[1], q[2]} : q \in MCPairs}
MCPartner == [c \in MCPads |->
    CHOOSE e \in MCPads : <<c, e>> \in MCPairs \/ <<e, c>> \in MCPairs]

MCBlocked(d, p) == \/ d = Down  /\ p[2] \in {2, 5}
                   \/ d = Up    /\ p[2] \in {0, 3}
                   \/ d = Left  /\ p[1] = 4
                   \/ d = Right /\ p[1] \in {3, 6}
===========================================================================
