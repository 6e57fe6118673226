------------------------------ MODULE MCChecks ------------------------------
(***************************************************************************)
(* Checks run: alice administers the program and a channel, bob joins,     *)
(* posts, likes, deletes and follows, so that every type of account comes  *)
(* into being and a message goes away again; addresses are funded before   *)
(* they are used; one foreign account holds forged bytes naming bob.       *)
(***************************************************************************)
EXTENDS AccountChecks, TLC

CONSTANTS alice, bob, t1, t2, forged

MCWallets  == {alice, bob}
MCThreads  == {t1, t2}
MCGenesis  == (alice :> 100000) @@ (bob :> 100000)
MCFirstByte == (alice :> 0) @@ (bob :> 1)
MCBodies   == {<<>>}
MCCandidates == {<< <<0, 0>> >>, << <<0, 0>>, <<1, 0>> >>}
MCGifts    == {<<derive_content_pda(t1, 0, 0), 150>>, <<derive_access_entry_pda(t1, bob), 150>>}

\* Bytes with the fields of each type, all naming bob.
MCForged ==
    {[tag |-> TAG_SETTINGS, admin |-> bob],
     [tag |-> TAG_THREAD, author |-> bob],
     [tag |-> TAG_ALLOC, thread |-> t1, alloc_seq |-> 0],
     [tag |-> TAG_CONTENT, thread |-> t1, alloc_seq |-> 0, slot |-> 0, author |-> bob],
     [tag |-> TAG_ACCESS, thread |-> t1, admin |-> bob],
     [tag |-> TAG_ACCESS_ENTRY, thread |-> t1, wallet |-> bob],
     [tag |-> TAG_FOLLOW_REGISTRY, owner |-> bob]}

\* Each address is funded at most once, before anything is created.
PrefundNext ==
    \E gift \in GiftInputs :
        /\ settings = NULL
        /\ lamports[gift[1]] = 0
        /\ SystemTransfer(alice, gift[1], gift[2])

ChecksNext ==
    \/ InitSettings(alice, alice)
    \/ CreateRootAlloc(alice, t1, 0, 0, 0)
    \/ CreateRootAlloc(bob, t2, 0, 0, 0)
    \/ InitThreadAccess(alice, t1, TRUE, 0)
    \/ AddToWhitelist(alice, t1, bob)
    \/ RemoveFromWhitelist(alice, t1, bob)
    \/ PrepareAlloc(alice, t1, 0)
    \/ \E w \in Wallets, c \in CandidateInputs : FillSlot(w, t1, <<>>, c, 0, 0, 1000)
    \/ LikeContent(alice, t1, 0, 0, 0, 0, 1000)
    \/ \E w \in Wallets, id \in ContentIds : CloseAccount(w, id, TRUE)
    \/ \E w \in Wallets : Subscribe(w, t1)
    \/ PrefundNext

ChecksSpec == Init /\ [][ChecksNext]_vars
=============================================================================
