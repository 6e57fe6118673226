----------------------------- MODULE MCFollows ------------------------------
(***************************************************************************)
(* Follow run: three channels, a registry limit of two, two wallets that   *)
(* share a follower shard and one that does not, and a registry and a      *)
(* shard address funded before they are created.                           *)
(***************************************************************************)
EXTENDS Txtcel, TLC

CONSTANTS alice, bob, carol, t1, t2, t3

MCWallets  == {alice, bob, carol}
MCThreads  == {t1, t2, t3}
MCGenesis  == (alice :> 2010) @@ (bob :> 500) @@ (carol :> 500)
MCFirstByte == (alice :> 1) @@ (bob :> 2) @@ (carol :> 4)
MCTreasuries == {alice}
MCGifts == {<<derive_follow_registry_pda(bob), 180>>, <<derive_follower_shard_pda(t1, 0), 130>>}

PrefundNext ==
    \E w \in Wallets, gift \in GiftInputs :
        /\ lamports[gift[1]] = 0
        /\ SystemTransfer(w, gift[1], gift[2])

FollowRunNext ==
    \/ SetupNext
    \/ FollowNext
    \/ PrefundNext

FollowSpec == Init /\ [][FollowRunNext]_vars
=============================================================================
