------------------------------ MODULE Posting -------------------------------
(***************************************************************************)
(* Clients that post to one channel while its chain of pages grows.        *)
(*                                                                         *)
(* The clients are external (README.md:120-123, 214-221, 258-266): they    *)
(* read the chain, send a FillSlot for a few free slots of its last two    *)
(* pages and, once the tail page is filled to a threshold, a PrepareAlloc  *)
(* of its own, best-effort transaction.  What they read is stale when the  *)
(* transaction executes, two of them may take the same slot or extend the  *)
(* same tail, and a transaction may be lost.  What the chain does with a   *)
(* transaction is FillSlot and PrepareAlloc of Channel, unchanged.         *)
(***************************************************************************)
EXTENDS Txtcel

CONSTANTS Feed,             \* the channel
          ExtendThreshold,  \* filled slots at which a client extends the tail
          MaxCandidates,    \* candidates per FillSlot
          MaxFee,           \* max_fee of every post
          MaxLost           \* bound of the transactions that are lost

ASSUME PostingAssumption ==
    /\ Feed \in Threads
    /\ ExtendThreshold \in 1..CONTENT_SLOTS
    /\ MaxCandidates \in Nat \ {0}
    /\ MaxFee \in u64
    /\ MaxLost \in Nat

VARIABLES flight,   \* flight[w]: candidates of the FillSlot under way, or NULL
          growing,  \* growing[w]: alloc_seq of the PrepareAlloc under way, or NULL
          posted,   \* the wallets whose message is on the chain
          lost      \* number of transactions lost so far

clientVars  == <<flight, growing, posted, lost>>
postingVars == <<vars, clientVars>>

PostingInit ==
    /\ Init
    /\ flight = [w \in Wallets |-> NULL]
    /\ growing = [w \in Wallets |-> NULL]
    /\ posted = {}
    /\ lost = 0

-----------------------------------------------------------------------------
(* External: the client. *)

Filled(seq) == {slot \in Slots : content[<<Feed, seq, slot>>] # NULL}

\* Free slots of the last two pages.
FreeSlots ==
    {x \in AllocSeqs \X Slots :
        /\ x[1] <= thread[Feed].last_alloc_seq
        /\ x[1] + 1 >= thread[Feed].last_alloc_seq
        /\ x[2] \notin Filled(x[1])}

CandidateLists(S) ==
    UNION {{c \in [1..n -> S] : \A i, j \in 1..n : c[i] = c[j] => i = j} :
           n \in 1..MaxCandidates}

SendPost(w) ==
    /\ thread[Feed] # NULL
    /\ w \notin posted
    /\ flight[w] = NULL
    /\ \E c \in CandidateLists(FreeSlots) : flight' = [flight EXCEPT ![w] = c]
    /\ UNCHANGED <<vars, growing, posted, lost>>

SendExtend(w) ==
    /\ thread[Feed] # NULL
    /\ growing[w] = NULL
    /\ Cardinality(Filled(thread[Feed].last_alloc_seq)) >= ExtendThreshold
    /\ growing' = [growing EXCEPT ![w] = thread[Feed].last_alloc_seq]
    /\ UNCHANGED <<vars, flight, posted, lost>>

-----------------------------------------------------------------------------
(* The chain executes what was sent, or refuses it: then nothing changes and *)
(* the client is free to look again.                                         *)

Post(w)   == FillSlot(w, Feed, <<>>, flight[w], 0, 0, MaxFee)
Extend(w) == PrepareAlloc(w, Feed, growing[w])

LandPost(w) ==
    /\ flight[w] # NULL
    /\ Post(w)
    /\ flight' = [flight EXCEPT ![w] = NULL]
    /\ posted' = posted \cup {w}
    /\ UNCHANGED <<growing, lost>>

RefusePost(w) ==
    /\ flight[w] # NULL
    /\ ~ENABLED Post(w)
    /\ flight' = [flight EXCEPT ![w] = NULL]
    /\ UNCHANGED <<vars, growing, posted, lost>>

LandExtend(w) ==
    /\ growing[w] # NULL
    /\ Extend(w)
    /\ growing' = [growing EXCEPT ![w] = NULL]
    /\ UNCHANGED <<flight, posted, lost>>

RefuseExtend(w) ==
    /\ growing[w] # NULL
    /\ ~ENABLED Extend(w)
    /\ growing' = [growing EXCEPT ![w] = NULL]
    /\ UNCHANGED <<vars, flight, posted, lost>>

\* External: a transaction expires without being executed.
Lose(w) ==
    /\ lost < MaxLost
    /\ lost' = lost + 1
    /\ \/ /\ flight[w] # NULL
          /\ flight' = [flight EXCEPT ![w] = NULL]
          /\ UNCHANGED growing
       \/ /\ growing[w] # NULL
          /\ growing' = [growing EXCEPT ![w] = NULL]
          /\ UNCHANGED flight
    /\ UNCHANGED <<vars, posted>>

Open ==
    /\ \/ InitSettings(UpgradeAuthority, UpgradeAuthority)
       \/ CreateRootAlloc(UpgradeAuthority, Feed, 0, 0, 0)
    /\ UNCHANGED clientVars

PostingNext ==
    \/ Open
    \/ \E w \in Wallets : \/ SendPost(w) \/ SendExtend(w)
                          \/ LandPost(w) \/ RefusePost(w)
                          \/ LandExtend(w) \/ RefuseExtend(w)
                          \/ Lose(w)

\* A client that has not posted keeps trying and keeps the chain long enough,
\* and the chain gets to every transaction that is not lost.  Nobody needs to
\* open the channel, and losses may stop at any time.
Fairness ==
    \A w \in Wallets :
        /\ WF_postingVars(SendPost(w))
        /\ WF_postingVars(SendExtend(w))
        /\ WF_postingVars(LandPost(w) \/ RefusePost(w))
        /\ WF_postingVars(LandExtend(w) \/ RefuseExtend(w))

PostingSpec == PostingInit /\ [][PostingNext]_postingVars /\ Fairness

-----------------------------------------------------------------------------
(* Properties. *)

\* Every client gets its message onto the chain, however its candidates are
\* taken first, extensions of the chain race, are refused or are lost
\* (process_fill_slot, process_prepare_alloc).
EveryPosterPosts ==
    \A w \in Wallets : thread[Feed] # NULL ~> w \in posted

\* A post built from a stale view of the chain is refused for one reason only:
\* others took every slot it names.  The chain never shrinks under it and the
\* page it saw last is always a page it may use (process_fill_slot).
RefusedOnlyIfTaken ==
    \A w \in Wallets :
        flight[w] # NULL /\ ~ENABLED Post(w) =>
            \A i \in DOMAIN flight[w] :
                content[<<Feed, flight[w][i][1], flight[w][i][2]>>] # NULL

\* Racing extensions grow the chain by one page, not by one each: every page
\* before the tail had reached the threshold, so no page is left behind
\* unused when the rolling window moves on (process_prepare_alloc accepts the
\* tail the client saw or nothing).
NoRunawayGrowth ==
    thread[Feed] # NULL =>
        \A seq \in AllocSeqs :
            seq < thread[Feed].last_alloc_seq => Cardinality(Filled(seq)) >= ExtendThreshold
=============================================================================
