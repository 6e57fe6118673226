----------------------------- MODULE MCChannel ------------------------------
(***************************************************************************)
(* Channel run: one channel, its author alice and another wallet bob, two  *)
(* pages of two slots, posting, extending, deleting, liking and time.      *)
(***************************************************************************)
EXTENDS Claims, TLC

CONSTANTS alice, bob, t1

MCWallets  == {alice, bob}
MCThreads  == {t1}
MCGenesis  == (alice :> 1450) @@ (bob :> 410)
MCFirstByte == (alice :> 0) @@ (bob :> 1)
MCBodies   == {<<0>>}

\* A slot of the first page, a slot of the second one, both pages in turn
\* (out of range while the second page is missing), and a slot past the end.
MCCandidates == {<< <<0, 0>> >>, << <<1, 1>> >>, << <<0, 0>>, <<1, 0>> >>, << <<0, 2>> >>}
MCTreasuries == {bob}

ChannelNext ==
    \/ SetupNext
    \/ PageNext
    \/ PostNext
    \/ DeleteNext
    \/ AppendNext
    \/ LikeNext
    \/ Tick

ChannelSpec == Init /\ [][ChannelNext]_vars
=============================================================================
