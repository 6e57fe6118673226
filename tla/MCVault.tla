------------------------------ MODULE MCVault -------------------------------
(***************************************************************************)
(* Vault run: alice administers the program and owns the channel, bob      *)
(* posts and likes; the admin and the treasury change between any two      *)
(* instructions; anybody sweeps, also with a repeated shard in the list    *)
(* and with a treasury key that is itself a shard; addresses are funded    *)
(* before the program creates them.                                        *)
(***************************************************************************)
EXTENDS Txtcel, TLC

CONSTANTS alice, bob, t1

MCWallets  == {alice, bob}
MCThreads  == {t1}
MCGenesis  == (alice :> 1140) @@ (bob :> 490)
MCFirstByte == (alice :> 0) @@ (bob :> 1)
MCBodies   == {<<>>}
MCCandidates == {<< <<0, 0>> >>}
MCTreasuries == {bob, derive_treasury_shard_pda(1)}
MCSweeps == {<<0, 0>>, <<1, 0, 2>>}
MCGifts  == {<<derive_treasury_shard_pda(1), 130>>, <<derive_content_pda(t1, 0, 0), 150>>}

\* Each address is funded at most once, while it is empty.
PrefundNext ==
    \E w \in Wallets, gift \in GiftInputs :
        /\ lamports[gift[1]] = 0
        /\ SystemTransfer(w, gift[1], gift[2])

VaultNext ==
    \/ SetupNext
    \/ AdminNext
    \/ SweepNext
    \/ PostNext
    \/ LikeNext
    \/ PricingNext
    \/ PrefundNext

VaultSpec == Init /\ [][VaultNext]_vars
=============================================================================
