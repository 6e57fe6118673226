----------------------------- MODULE MCPosting ------------------------------
(***************************************************************************)
(* Posting run: three wallets post to a channel with two slots a page, so  *)
(* that one of them depends on an extension that all three may send; one   *)
(* transaction is lost.                                                    *)
(***************************************************************************)
EXTENDS Posting, TLC

CONSTANTS alice, bob, carol, t1

MCWallets  == {alice, bob, carol}
MCThreads  == {t1}
MCGenesis  == [w \in MCWallets |-> 3000]
MCFirstByte == [w \in Wallets |-> 0]
=============================================================================
