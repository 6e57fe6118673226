---------------------------- MODULE MessageBoard ----------------------------
(***************************************************************************)
(* What a channel promises its readers, without accounts, fees or access   *)
(* lists: numbered pages that only grow by one, slots that hold at most    *)
(* one message, messages that nobody but their author changes, and that    *)
(* the author only extends, and only for a while.                          *)
(***************************************************************************)
EXTENDS Naturals, Sequences

CONSTANTS Threads, Wallets, Bodies, NULL, MaxPages, Slots, Window

VARIABLES
    pages,   \* pages[t]: number of pages of channel t, 0 if it is not open
    msg,     \* msg[<<t, page, slot>>]: the message there, or NULL
    time

boardState == <<pages, msg, time>>
Ids == Threads \X (0..MaxPages) \X Slots

BoardInit ==
    /\ pages = [t \in Threads |-> 0]
    /\ msg = [id \in Ids |-> NULL]
    /\ time = 0

AddPage(t) ==
    /\ pages' = [pages EXCEPT ![t] = @ + 1]
    /\ UNCHANGED <<msg, time>>

Post(w, id, body) ==
    /\ id[2] < pages[id[1]]
    /\ msg[id] = NULL
    /\ msg' = [msg EXCEPT ![id] = [author |-> w, created_at |-> time, body |-> body]]
    /\ UNCHANGED <<pages, time>>

Extend(id, chunk) ==
    /\ msg[id] # NULL
    /\ time - msg[id].created_at <= Window
    /\ msg' = [msg EXCEPT ![id].body = @ \o chunk]
    /\ UNCHANGED <<pages, time>>

Delete(id) ==
    /\ msg[id] # NULL
    /\ msg' = [msg EXCEPT ![id] = NULL]
    /\ UNCHANGED <<pages, time>>

Pass == time' > time /\ UNCHANGED <<pages, msg>>

BoardNext ==
    \/ \E t \in Threads : AddPage(t)
    \/ \E w \in Wallets, id \in Ids, body \in Bodies : Post(w, id, body)
    \/ \E id \in Ids, chunk \in Bodies : Extend(id, chunk)
    \/ \E id \in Ids : Delete(id)
    \/ Pass

BoardSpec == BoardInit /\ [][BoardNext]_boardState
=============================================================================
