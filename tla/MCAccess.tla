------------------------------ MODULE MCAccess ------------------------------
(***************************************************************************)
(* Membership run: one channel, its author alice, two other wallets, every *)
(* instruction on access lists, and posting.  Money is what bounds the     *)
(* run: entries, messages and the access control all cost rent.            *)
(***************************************************************************)
EXTENDS Claims, TLC

CONSTANTS alice, bob, carol, t1

MCWallets  == {alice, bob, carol}
MCThreads  == {t1}
MCGenesis  == (alice :> 2100) @@ (bob :> 545) @@ (carol :> 0)
MCFirstByte == (alice :> 0) @@ (bob :> 1) @@ (carol :> 2)
MCBodies   == {<<>>}
MCCandidates == {<< <<0, 0>> >>}
MCTreasuries == {carol}

AccessNext ==
    \/ SetupNext
    \/ MembershipNext
    \/ PostNext

AccessSpec == Init /\ [][AccessNext]_vars
=============================================================================
