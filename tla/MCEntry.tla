------------------------------ MODULE MCEntry -------------------------------
(***************************************************************************)
(* Entry run: alice administers the program and owns the channel, bob buys *)
(* membership while the price and the platform's cut change, is removed    *)
(* and buys again; entry fees go through the vaults and are swept; the     *)
(* entry's address is funded before the purchase.                          *)
(***************************************************************************)
EXTENDS Txtcel, TLC

CONSTANTS alice, bob, t1

MCWallets  == {alice, bob}
MCThreads  == {t1}
MCGenesis  == (alice :> 1138) @@ (bob :> 596)
MCFirstByte == (alice :> 0) @@ (bob :> 1)
MCTreasuries == {alice}
MCSweeps == {<<0>>}
MCGifts  == {<<derive_access_entry_pda(t1, bob), 150>>}

PrefundNext ==
    \E w \in Wallets, gift \in GiftInputs :
        /\ lamports[gift[1]] = 0
        /\ SystemTransfer(w, gift[1], gift[2])

PurchaseNext ==
    \E w \in Wallets, t \in Threads :
        \/ \E k \in TreasuryIdx : InitThreadAccess(w, t, TRUE, k)
        \/ \E fee \in FeeInputs : SetEntryFee(w, t, fee)
        \/ \E v \in Wallets : RemoveFromWhitelist(w, t, v)
        \/ \E k \in TreasuryIdx, j \in AuthorIdx : RequestAccess(w, t, k, j)

\* Who opens the channel, and its other prices, are not what this run is about.
OpenNext ==
    \/ InitSettings(alice, alice)
    \/ CreateRootAlloc(alice, t1, 0, 0, 0)

EntryNext ==
    \/ OpenNext
    \/ \E w \in Wallets, bps \in BpsInputs : SetEntryCut(w, bps)
    \/ PurchaseNext
    \/ SweepNext
    \/ PrefundNext

EntrySpec == Init /\ [][EntryNext]_vars
=============================================================================
