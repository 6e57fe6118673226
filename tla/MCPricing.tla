----------------------------- MODULE MCPricing ------------------------------
(***************************************************************************)
(* Pricing run: the admin changes the platform's cuts and the author the   *)
(* prices of the channel between any two instructions of a poster who      *)
(* capped the fee.                                                         *)
(***************************************************************************)
EXTENDS Claims, TLC

CONSTANTS alice, bob, t1

MCWallets  == {alice, bob}
MCThreads  == {t1}
MCGenesis  == (alice :> 1240) @@ (bob :> 510)
MCFirstByte == (alice :> 0) @@ (bob :> 1)
MCBodies   == {<<>>}
MCCandidates == {<< <<0, 0>> >>}
MCTreasuries == {bob}

PricingRunNext ==
    \/ SetupNext
    \/ CutNext
    \/ PricingNext
    \/ PostNext
    \/ LikeNext

PricingSpec == Init /\ [][PricingRunNext]_vars
=============================================================================
