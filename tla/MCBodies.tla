------------------------------ MODULE MCBodies ------------------------------
(***************************************************************************)
(* Bodies run: texts, images and messages of a kind nobody knows, posted   *)
(* whole or in pieces: <<1, 7>> and <<0>>, one after the other, are the    *)
(* encoding of an image, <<2, 1, 7>> is one that lacks its last byte.      *)
(***************************************************************************)
EXTENDS ContentBodies

MCBodyInputs == {<<>>, <<0>>, <<1, 7>>, <<9, 9>>, <<9>>, <<2, 1, 7>>}
MCImages == {[uri |-> u, width |-> w] : u \in {<<>>, <<7>>, <<1, 7>>}, w \in {0, 2}}
=============================================================================
