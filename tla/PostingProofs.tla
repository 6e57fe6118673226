--------------------------- MODULE PostingProofs ----------------------------
(***************************************************************************)
(* Posting clients, for every number of clients, pages, slots and lost     *)
(* transactions: racing extensions never leave a page behind unused, a     *)
(* post built from a stale view of the chain names slots that exist, and   *)
(* what the clients do is a behaviour of the program.                      *)
(***************************************************************************)
EXTENDS Posting, BaseProofs, FiniteSetTheorems

(***************************************************************************)
(* The inductive invariant.  A client extends the page it saw, which may   *)
(* not be the tail any more: what it saw filled must still be filled when  *)
(* the transaction lands.                                                  *)
(***************************************************************************)

PostingTypes ==
    /\ thread \in [Threads -> ThreadNode \cup {NULL}]
    /\ content \in [ContentIds -> ContentNode \cup {NULL}]
    /\ now \in Nat
    /\ growing \in [Wallets -> AllocSeqs \cup {NULL}]

Grown(seq) == Cardinality(Filled(seq)) >= ExtendThreshold

GrowingGrown ==
    \A w \in Wallets : growing[w] # NULL => thread[Feed] # NULL /\ Grown(growing[w])

GrowthInv == PostingTypes /\ GrowingGrown /\ NoRunawayGrowth

\* What one step may do to the channel: it loses no message.
Keeps ==
    /\ thread[Feed] # NULL => thread'[Feed] # NULL
    /\ \A seq \in AllocSeqs : Filled(seq) \subseteq Filled(seq)'

\* NULL is no account and no page.
LEMMA NullApart ==
    /\ NULL \notin ThreadNode /\ NULL \notin ContentNode /\ \A seq \in AllocSeqs : seq # NULL
  <1>1. AllocSeqs \subseteq Int
    BY AccountsAssumption DEF AllocSeqs
  <1> QED
    BY <1>1, NullAssumption

\* A page that is filled to the threshold stays so.
LEMMA GrownStays ==
    ASSUME Keeps, NEW seq \in AllocSeqs, Grown(seq)
    PROVE  Grown(seq)'
  <1>1. Filled(seq)' \subseteq Slots /\ Filled(seq) \subseteq Filled(seq)'
    BY DEF Filled, Keeps
  <1>2. IsFiniteSet(Slots)
    BY AccountsAssumption, FS_Interval DEF Slots
  <1>3. IsFiniteSet(Filled(seq)')
    BY <1>1, <1>2, FS_Subset
  <1>4. /\ IsFiniteSet(Filled(seq))
        /\ Cardinality(Filled(seq)) <= Cardinality(Filled(seq)')
    BY <1>1, <1>3, FS_Subset
  <1>5. Cardinality(Filled(seq)) \in Nat /\ Cardinality(Filled(seq)') \in Nat
    BY <1>3, <1>4, FS_CardinalityType
  <1>6. ExtendThreshold \in Nat
    BY PostingAssumption, AccountsAssumption
  <1> QED
    BY <1>4, <1>5, <1>6 DEF Grown

\* A step that moves neither the tail nor any extension under way.
LEMMA TailKept ==
    ASSUME GrowthInv, Keeps, PostingTypes', thread' = thread,
           \A w \in Wallets : growing'[w] \in {growing[w], NULL}
    PROVE  GrowthInv'
  <1>1. GrowingGrown'
    <2> SUFFICES ASSUME NEW w \in Wallets, growing'[w] # NULL
                 PROVE  thread'[Feed] # NULL /\ Grown(growing[w])'
      BY DEF GrowingGrown
    <2>1. PICK seq \in AllocSeqs : seq = growing[w] /\ seq = growing'[w]
      BY DEF GrowthInv, PostingTypes
    <2>2. thread[Feed] # NULL /\ Grown(seq)
      BY <2>1, NullApart DEF GrowthInv, GrowingGrown
    <2>3. Grown(seq)'
      BY <2>2, GrownStays
    <2> QED
      BY <2>1, <2>2, <2>3 DEF Grown, Filled
  <1>2. NoRunawayGrowth'
    <2> SUFFICES ASSUME thread'[Feed] # NULL, NEW seq \in AllocSeqs,
                        seq < thread'[Feed].last_alloc_seq
                 PROVE  Grown(seq)'
      BY DEF NoRunawayGrowth, Grown
    <2>1. Grown(seq)
      BY DEF GrowthInv, NoRunawayGrowth, Grown
    <2> QED
      BY <2>1, GrownStays
  <1> QED
    BY <1>1, <1>2 DEF GrowthInv

(***************************************************************************)
(* The steps.                                                              *)
(***************************************************************************)

\* Every step on the chain keeps the messages it finds.
LEMMA SameContent ==
    ASSUME content' = content, thread[Feed] # NULL => thread'[Feed] # NULL
    PROVE  Keeps
  BY DEF Keeps, Filled

LEMMA LandPostStep ==
    ASSUME GrowthInv, NEW w \in Wallets, LandPost(w)
    PROVE  GrowthInv'
  <1>1. Post(w) /\ growing' = growing
    BY DEF LandPost
  <1>2. PICK id : /\ content' = [content EXCEPT ![id] =
                                   [author |-> w, created_at |-> now, body |-> <<>>]]
                  /\ thread' = thread /\ now' = now
    BY <1>1 DEF Post, FillSlot
  <1> DEFINE node == [author |-> w, created_at |-> now, body |-> <<>>]
  <1>3. <<>> \in Bodies
    <2>1. 0 \in 0..MAX_BODY_LEN /\ <<>> \in [1..0 -> Bytes]
      BY AccountsAssumption
    <2> QED
      BY <2>1 DEF Bodies
  <1>4. node \in ContentNode /\ node # NULL
    BY <1>3, NullApart DEF ContentNode, GrowthInv, PostingTypes
  <1> HIDE DEF node
  <1>5. PostingTypes'
    BY <1>1, <1>2, <1>4 DEF GrowthInv, PostingTypes, node
  <1>6. \A c \in ContentIds : content[c] # NULL => content'[c] # NULL
    BY <1>2, <1>4 DEF GrowthInv, PostingTypes, node
  <1>7. \A seq \in AllocSeqs, slot \in Slots : <<Feed, seq, slot>> \in ContentIds
    BY PostingAssumption DEF ContentIds
  <1>8. Keeps
    BY <1>2, <1>6, <1>7 DEF Keeps, Filled
  <1> QED
    BY <1>1, <1>2, <1>5, <1>8, TailKept

\* An extension that lands moves the tail from the page the client saw to the next.
LEMMA LandExtendTail ==
    ASSUME GrowthInv, NEW w \in Wallets, LandExtend(w)
    PROVE  /\ growing[w] # NULL /\ growing' = [growing EXCEPT ![w] = NULL]
           /\ growing[w] = thread[Feed].last_alloc_seq /\ growing[w] \in Nat
           /\ thread[Feed] # NULL /\ thread'[Feed] # NULL
           /\ thread' \in [Threads -> ThreadNode \cup {NULL}]
           /\ thread'[Feed].last_alloc_seq = growing[w] + 1
           /\ content' = content /\ now' = now
  <1>1. /\ growing[w] # NULL /\ growing' = [growing EXCEPT ![w] = NULL]
        /\ PrepareAlloc(w, Feed, growing[w])
    BY DEF LandExtend, Extend
  <1>2. /\ thread[Feed] # NULL /\ growing[w] = thread[Feed].last_alloc_seq
        /\ growing[w] + 1 <= U32Max /\ thread[Feed].alloc_count + 1 <= U32Max
        /\ thread' = [thread EXCEPT ![Feed] = linked(@, growing[w] + 1)]
        /\ content' = content /\ now' = now
    BY <1>1 DEF PrepareAlloc, load_thread
  <1>3. /\ Feed \in Threads /\ thread[Feed] \in ThreadNode /\ growing[w] \in AllocSeqs
        /\ U32Max \in Nat
    BY <1>1, <1>2, PostingAssumption, AccountsAssumption DEF GrowthInv, PostingTypes
  <1>4. /\ linked(thread[Feed], growing[w] + 1) \in ThreadNode
        /\ linked(thread[Feed], growing[w] + 1).last_alloc_seq = growing[w] + 1
    <2>1. /\ thread[Feed].alloc_count + 1 \in u32 /\ growing[w] + 1 \in u32
          /\ growing[w] \in Nat /\ thread[Feed].alloc_count \in Nat
      BY <1>2, <1>3 DEF ThreadNode, u32, AllocSeqs
    <2> QED
      BY <1>3, <2>1 DEF linked, ThreadNode
  <1>5. thread'[Feed] = linked(thread[Feed], growing[w] + 1) /\ thread'[Feed] # NULL
    BY <1>2, <1>3, <1>4, NullApart DEF GrowthInv, PostingTypes
  <1>6. thread' \in [Threads -> ThreadNode \cup {NULL}]
    BY <1>2, <1>4 DEF GrowthInv, PostingTypes
  <1> QED
    BY <1>1, <1>2, <1>3, <1>4, <1>5, <1>6 DEF AllocSeqs

LEMMA LandExtendStep ==
    ASSUME GrowthInv, NEW w \in Wallets, LandExtend(w)
    PROVE  GrowthInv'
  <1>1. /\ growing[w] # NULL /\ growing' = [growing EXCEPT ![w] = NULL]
        /\ growing[w] = thread[Feed].last_alloc_seq /\ growing[w] \in Nat
        /\ thread[Feed] # NULL /\ thread'[Feed] # NULL
        /\ thread' \in [Threads -> ThreadNode \cup {NULL}]
        /\ thread'[Feed].last_alloc_seq = growing[w] + 1
        /\ content' = content /\ now' = now
    BY LandExtendTail
  <1>6. PostingTypes'
    <2>1. growing' \in [Wallets -> AllocSeqs \cup {NULL}]
      BY <1>1 DEF GrowthInv, PostingTypes
    <2> QED
      BY <1>1, <2>1 DEF GrowthInv, PostingTypes
  <1>7. Keeps
    BY <1>1, SameContent
  <1>8. GrowingGrown'
    <2> SUFFICES ASSUME NEW v \in Wallets, growing'[v] # NULL
                 PROVE  thread'[Feed] # NULL /\ Grown(growing[v])'
      BY DEF GrowingGrown
    <2>1. PICK seq \in AllocSeqs : seq = growing[v] /\ seq = growing'[v]
      BY <1>1 DEF GrowthInv, PostingTypes
    <2>2. Grown(seq)
      BY <2>1, NullApart DEF GrowthInv, GrowingGrown
    <2>3. Grown(seq)'
      BY <1>7, <2>2, GrownStays
    <2> QED
      BY <1>1, <2>1, <2>3 DEF Grown, Filled
  <1>9. NoRunawayGrowth'
    <2> SUFFICES ASSUME NEW seq \in AllocSeqs, seq < thread'[Feed].last_alloc_seq
                 PROVE  Grown(seq)'
      BY DEF NoRunawayGrowth, Grown
    <2>1. seq \in Nat /\ growing[w] \in Nat /\ seq < growing[w] + 1
      BY <1>1 DEF AllocSeqs
    <2>2. CASE seq = growing[w]
      BY <1>1, <1>7, <2>2, GrownStays DEF GrowthInv, GrowingGrown
    <2>3. CASE seq < thread[Feed].last_alloc_seq
      <3>1. Grown(seq)
        BY <1>1, <2>3 DEF GrowthInv, NoRunawayGrowth, Grown
      <3> QED
        BY <1>7, <3>1, GrownStays
    <2> QED
      BY <1>1, <2>1, <2>2, <2>3
  <1> QED
    BY <1>6, <1>8, <1>9 DEF GrowthInv

LEMMA SendExtendStep ==
    ASSUME GrowthInv, NEW w \in Wallets, SendExtend(w)
    PROVE  GrowthInv'
  <1>1. /\ thread[Feed] # NULL /\ Grown(thread[Feed].last_alloc_seq)
        /\ growing' = [growing EXCEPT ![w] = thread[Feed].last_alloc_seq]
        /\ thread' = thread /\ content' = content /\ now' = now
    BY DEF SendExtend, Grown, vars, boardVars
  <1>2. thread[Feed].last_alloc_seq \in AllocSeqs
    BY <1>1, PostingAssumption DEF GrowthInv, PostingTypes, ThreadNode, u32, AllocSeqs
  <1>3. PostingTypes'
    BY <1>1, <1>2 DEF GrowthInv, PostingTypes
  <1>4. Keeps
    BY <1>1, SameContent
  <1>5. GrowingGrown'
    <2> SUFFICES ASSUME NEW v \in Wallets, growing'[v] # NULL
                 PROVE  thread'[Feed] # NULL /\ Grown(growing[v])'
      BY DEF GrowingGrown
    <2>1. PICK seq \in AllocSeqs : seq = growing'[v] /\ Grown(seq)
      BY <1>1, <1>2 DEF GrowthInv, PostingTypes, GrowingGrown
    <2>2. Grown(seq)'
      BY <1>4, <2>1, GrownStays
    <2> QED
      BY <1>1, <2>1, <2>2 DEF Grown, Filled
  <1>6. NoRunawayGrowth'
    BY <1>1 DEF GrowthInv, NoRunawayGrowth, Filled
  <1> QED
    BY <1>3, <1>5, <1>6 DEF GrowthInv

\* The channel is opened with its first page as the tail.
LEMMA OpenStep ==
    ASSUME GrowthInv, Open
    PROVE  GrowthInv'
  <1>1. growing' = growing
    BY DEF Open, clientVars
  <1>2. CASE InitSettings(UpgradeAuthority, UpgradeAuthority)
    <2>1. thread' = thread /\ content' = content /\ now' = now
      BY <1>2 DEF InitSettings, boardVars
    <2>2. Keeps
      BY <2>1, SameContent
    <2>3. PostingTypes'
      BY <1>1, <2>1 DEF GrowthInv, PostingTypes
    <2> QED
      BY <1>1, <2>1, <2>2, <2>3, TailKept
  <1>3. CASE CreateRootAlloc(UpgradeAuthority, Feed, 0, 0, 0)
    <2> DEFINE node == [alloc_count |-> 1, last_alloc_seq |-> 0, author |-> UpgradeAuthority,
                        message_fee |-> 0, like_fee |-> 0, title_len |-> 0]
    <2>1. /\ thread[Feed] = NULL /\ thread' = [thread EXCEPT ![Feed] = node]
          /\ content' = content /\ now' = now
      BY <1>3 DEF CreateRootAlloc
    <2>2. node \in ThreadNode /\ node.last_alloc_seq = 0
      BY AccountsAssumption, LedgerAssumption DEF ThreadNode, u32, u64
    <2> HIDE DEF node
    <2>3. PostingTypes'
      BY <1>1, <2>1, <2>2 DEF GrowthInv, PostingTypes
    <2>4. \A w \in Wallets : growing'[w] = NULL
      BY <1>1, <2>1 DEF GrowthInv, GrowingGrown
    <2>5. thread'[Feed] = node
      BY <2>1, PostingAssumption DEF GrowthInv, PostingTypes
    <2>6. \A seq \in AllocSeqs : ~(seq < thread'[Feed].last_alloc_seq)
      BY <2>2, <2>5 DEF AllocSeqs
    <2> QED
      BY <2>3, <2>4, <2>6 DEF GrowthInv, GrowingGrown, NoRunawayGrowth
  <1> QED
    BY <1>2, <1>3 DEF Open

\* The steps that leave the chain alone and start no extension.
LEMMA IdleStep ==
    ASSUME GrowthInv, UNCHANGED vars,
           \/ growing' = growing
           \/ \E w \in Wallets : growing' = [growing EXCEPT ![w] = NULL]
    PROVE  GrowthInv'
  <1>1. thread' = thread /\ content' = content /\ now' = now
    BY DEF vars, boardVars
  <1>2. /\ growing' \in [Wallets -> AllocSeqs \cup {NULL}]
        /\ \A w \in Wallets : growing'[w] \in {growing[w], NULL}
    BY DEF GrowthInv, PostingTypes
  <1>3. PostingTypes'
    BY <1>1, <1>2 DEF GrowthInv, PostingTypes
  <1>4. Keeps
    BY <1>1, SameContent
  <1> QED
    BY <1>1, <1>2, <1>3, <1>4, TailKept

\* The invariant holds in every state.
LEMMA GrowthInvariant == PostingSpec => []GrowthInv
  <1>1. PostingInit => GrowthInv
    <2> SUFFICES ASSUME PostingInit PROVE GrowthInv
      OBVIOUS
    <2>1. /\ thread = [t \in Threads |-> NULL] /\ content = [c \in ContentIds |-> NULL]
          /\ now = 0 /\ growing = [w \in Wallets |-> NULL]
      BY DEF PostingInit, Init
    <2> QED
      BY <2>1, PostingAssumption
         DEF GrowthInv, PostingTypes, GrowingGrown, NoRunawayGrowth
  <1>2. GrowthInv /\ [PostingNext]_postingVars => GrowthInv'
    <2> SUFFICES ASSUME GrowthInv, [PostingNext]_postingVars PROVE GrowthInv'
      OBVIOUS
    <2>1. CASE Open
      BY <2>1, OpenStep
    <2>2. ASSUME NEW w \in Wallets, SendPost(w) \/ RefusePost(w) PROVE GrowthInv'
      BY <2>2, IdleStep DEF SendPost, RefusePost
    <2>3. ASSUME NEW w \in Wallets, RefuseExtend(w) PROVE GrowthInv'
      BY <2>3, IdleStep DEF RefuseExtend
    <2>4. ASSUME NEW w \in Wallets, Lose(w) PROVE GrowthInv'
      BY <2>4, IdleStep DEF Lose
    <2>5. ASSUME NEW w \in Wallets, SendExtend(w) PROVE GrowthInv'
      BY <2>5, SendExtendStep
    <2>6. ASSUME NEW w \in Wallets, LandPost(w) PROVE GrowthInv'
      BY <2>6, LandPostStep
    <2>7. ASSUME NEW w \in Wallets, LandExtend(w) PROVE GrowthInv'
      BY <2>7, LandExtendStep
    <2>8. CASE UNCHANGED postingVars
      BY <2>8, IdleStep DEF postingVars, clientVars
    <2> QED
      BY <2>1, <2>2, <2>3, <2>4, <2>5, <2>6, <2>7, <2>8 DEF PostingNext
  <1> QED
    BY <1>1, <1>2, PTL DEF PostingSpec

\* Every page before the tail had reached the threshold (NoRunawayGrowth of the
\* posting run): process_prepare_alloc takes only the page the client saw as the
\* tail, so of several extensions of one tail a single one is accepted, however
\* late the others arrive.
THEOREM GrowthCorrect == PostingSpec => []NoRunawayGrowth
  <1>1. GrowthInv => NoRunawayGrowth
    BY DEF GrowthInv
  <1> QED
    BY <1>1, GrowthInvariant, PTL

-----------------------------------------------------------------------------
(***************************************************************************)
(* What became of the slots a client saw free.  RefusedOnlyIfTaken says of *)
(* the posting run that nothing but taken slots refuses a post; there the  *)
(* wallets are rich enough.  For every value of the constants it splits    *)
(* into what is proved here, the checks of fill_slot, and the payment,     *)
(* which depends on what a wallet has spent on pages by then.              *)
(***************************************************************************)

Taken(x) == content[<<Feed, x[1], x[2]>>] # NULL

\* Every check process_fill_slot makes before it takes money passes for a post
\* under way, unless others took every slot it names.
FlightUsable ==
    \A w \in Wallets :
        flight[w] # NULL =>
            /\ flight[w] # <<>>
            /\ load_thread(Feed)
            /\ settings # NULL
            /\ validate_fee_shards(0, 0)
            /\ allowed_to_post(w, Feed)
            /\ \/ \E i \in DOMAIN flight[w] : FirstFree(Feed, flight[w], i)
               \/ \A i \in DOMAIN flight[w] : Taken(flight[w][i])

\* The inductive invariant: the channel stays open to all, and the slots a
\* client names are on pages that exist.
InRange(x) == x[1] <= thread[Feed].last_alloc_seq /\ x[2] < CONTENT_SLOTS

OnChain(c) ==
    /\ c # <<>>
    /\ \A i \in DOMAIN c : InRange(c[i])

FlightInv ==
    /\ flight \in [Wallets -> Seq(AllocSeqs \X Slots) \cup {NULL}]
    /\ access[Feed] = NULL
    /\ \A w \in Wallets : entry[Feed][w] = NULL
    /\ thread[Feed] # NULL => settings # NULL
    /\ \A w \in Wallets : flight[w] # NULL => thread[Feed] # NULL /\ OnChain(flight[w])

\* If not all slots of a list are taken, one of them is the first free one.
LEMMA FirstFreeExists ==
    ASSUME NEW c \in Seq(AllocSeqs \X Slots), OnChain(c)
    PROVE  \/ \E i \in DOMAIN c : FirstFree(Feed, c, i)
           \/ \A i \in DOMAIN c : Taken(c[i])
  <1> DEFINE n == Len(c)
             N == {m \in Nat : m <= n => \/ \E i \in 1..n : FirstFree(Feed, c, i)
                                         \/ \A i \in 1..m : Taken(c[i])}
  <1>1. n \in Nat /\ DOMAIN c = 1..n /\ \A i \in 1..n : InRange(c[i])
    BY DEF OnChain
  <1> HIDE DEF n
  <1>2. 0 \in N
    OBVIOUS
  <1>3. ASSUME NEW m \in Nat, m \in N PROVE m + 1 \in N
    <2> SUFFICES ASSUME m + 1 <= n, \A i \in 1..m : Taken(c[i]), ~Taken(c[m + 1])
                 PROVE  FirstFree(Feed, c, m + 1) /\ m + 1 \in 1..n
      BY <1>1, <1>3
    <2>1. m + 1 \in 1..n /\ (m + 1) - 1 = m
      BY <1>1
    <2>2. \A j \in 1..(m + 1) : InRange(c[j])
      BY <1>1
    <2> QED
      BY <2>1, <2>2 DEF FirstFree, Taken, InRange
  <1>4. Nat \subseteq N
    BY <1>2, <1>3, LoopInduction
  <1>5. n \in N
    BY <1>1, <1>4
  <1> QED
    BY <1>1, <1>5

\* A list of free slots of the last two pages names slots that exist.
LEMMA ListOnChain ==
    ASSUME GrowthInv, thread[Feed] # NULL, NEW c \in CandidateLists(FreeSlots)
    PROVE  c \in Seq(AllocSeqs \X Slots) /\ OnChain(c)
  <1>1. PICK n \in 1..MaxCandidates : c \in [1..n -> FreeSlots]
    BY DEF CandidateLists
  <1>2. n \in Nat /\ n >= 1
    BY <1>1, PostingAssumption
  <1>3. FreeSlots \subseteq AllocSeqs \X Slots
    BY DEF FreeSlots
  <1>4. \A x \in FreeSlots : InRange(x)
    <2> SUFFICES ASSUME NEW x \in FreeSlots PROVE InRange(x)
      OBVIOUS
    <2>1. x[1] <= thread[Feed].last_alloc_seq /\ x[2] \in 0..(CONTENT_SLOTS - 1)
      BY DEF FreeSlots, Slots
    <2>2. x[2] < CONTENT_SLOTS
      BY <2>1, AccountsAssumption
    <2> QED
      BY <2>1, <2>2 DEF InRange
  <1>5. c \in Seq(AllocSeqs \X Slots) /\ Len(c) = n
    BY <1>1, <1>2, <1>3
  <1>6. \A i \in DOMAIN c : InRange(c[i])
    BY <1>1, <1>4
  <1> QED
    BY <1>2, <1>5, <1>6 DEF OnChain

\* The chain does not get shorter under the posts under way, ...
LEMMA FlightKept ==
    ASSUME GrowthInv, FlightInv,
           access' = access, entry' = entry, thread'[Feed] # NULL => settings' # NULL,
           thread[Feed] # NULL => /\ thread'[Feed] # NULL
                                  /\ thread'[Feed].last_alloc_seq >= thread[Feed].last_alloc_seq
                                  /\ thread'[Feed].last_alloc_seq \in Nat,
           flight' \in [Wallets -> Seq(AllocSeqs \X Slots) \cup {NULL}],
           \A w \in Wallets : flight'[w] \in {flight[w], NULL}
    PROVE  FlightInv'
  <1>1. ASSUME NEW w \in Wallets, flight'[w] # NULL
        PROVE  /\ thread'[Feed] # NULL /\ flight'[w] # <<>>
               /\ \A i \in DOMAIN flight'[w] :
                    /\ flight'[w][i][1] <= thread'[Feed].last_alloc_seq
                    /\ flight'[w][i][2] < CONTENT_SLOTS
    <2>1. flight'[w] = flight[w] /\ flight[w] # NULL
      BY <1>1
    <2>2. thread[Feed] # NULL /\ OnChain(flight[w]) /\ flight[w] \in Seq(AllocSeqs \X Slots)
      BY <2>1 DEF FlightInv
    <2>3. thread[Feed] \in ThreadNode
      BY <2>2, PostingAssumption DEF GrowthInv, PostingTypes
    <2>4. thread[Feed].last_alloc_seq \in Nat
      BY <2>3, AccountsAssumption DEF ThreadNode, u32
    <2>5. ASSUME NEW i \in DOMAIN flight[w]
          PROVE  /\ flight[w][i][1] <= thread'[Feed].last_alloc_seq
                 /\ flight[w][i][2] < CONTENT_SLOTS
      <3>1. flight[w][i] \in AllocSeqs \X Slots /\ InRange(flight[w][i])
        BY <2>2, <2>5 DEF OnChain
      <3>2. flight[w][i][1] \in Nat
        BY <3>1, AccountsAssumption DEF AllocSeqs
      <3> QED
        BY <2>1, <2>2, <2>4, <3>1, <3>2 DEF InRange
    <2> QED
      BY <2>1, <2>2, <2>5 DEF OnChain
  <1> QED
    BY <1>1 DEF FlightInv, OnChain, InRange

\* ... for none of the transactions of the clients takes a page away.
LEMMA FlightChainStep ==
    ASSUME GrowthInv, GrowthInv', FlightInv,
           Open \/ \E w \in Wallets : LandPost(w) \/ LandExtend(w)
    PROVE  FlightInv'
  <1>1. access' = access /\ entry' = entry
    BY DEF Open, LandPost, LandExtend, Post, Extend, FillSlot, PrepareAlloc, InitSettings,
           CreateRootAlloc, accessVars
  <1>2. \A w \in Wallets : flight'[w] \in {flight[w], NULL}
    BY DEF Open, LandPost, LandExtend, clientVars, FlightInv
  <1>3. flight' \in [Wallets -> Seq(AllocSeqs \X Slots) \cup {NULL}]
    BY DEF Open, LandPost, LandExtend, clientVars, FlightInv
  <1>4. thread[Feed] # NULL => /\ thread'[Feed] # NULL
                               /\ thread'[Feed].last_alloc_seq >= thread[Feed].last_alloc_seq
                               /\ thread'[Feed].last_alloc_seq \in Nat
    <2> SUFFICES ASSUME thread[Feed] # NULL
                 PROVE  /\ thread'[Feed] # NULL
                        /\ thread'[Feed].last_alloc_seq >= thread[Feed].last_alloc_seq
                        /\ thread'[Feed].last_alloc_seq \in Nat
      OBVIOUS
    <2>1. thread[Feed] \in ThreadNode /\ thread \in [Threads -> ThreadNode \cup {NULL}]
          /\ Feed \in Threads
      BY PostingAssumption DEF GrowthInv, PostingTypes
    <2>2. thread[Feed].last_alloc_seq \in Nat
      BY <2>1, AccountsAssumption DEF ThreadNode, u32
    <2>3. CASE Open \/ \E w \in Wallets : LandPost(w)
      <3>1. thread' = thread
        BY <2>3 DEF Open, LandPost, Post, FillSlot, InitSettings, CreateRootAlloc, boardVars
      <3> QED
        BY <2>2, <3>1
    <2>4. ASSUME NEW w \in Wallets, LandExtend(w)
          PROVE  /\ thread'[Feed] # NULL
                 /\ thread'[Feed].last_alloc_seq >= thread[Feed].last_alloc_seq
                 /\ thread'[Feed].last_alloc_seq \in Nat
      <3>1. /\ growing[w] = thread[Feed].last_alloc_seq
            /\ thread'[Feed] # NULL /\ thread'[Feed].last_alloc_seq = growing[w] + 1
        BY <2>4, LandExtendTail
      <3> QED
        BY <2>2, <3>1
    <2> QED
      BY <2>3, <2>4
  <1>5. thread'[Feed] # NULL => settings' # NULL
    <2>1. CASE settings' = settings
      <3>1. CASE thread[Feed] # NULL
        BY <2>1, <3>1 DEF FlightInv
      <3>2. CASE settings # NULL
        BY <2>1, <3>2
      <3>3. CASE thread' = thread
        BY <2>1, <3>3 DEF FlightInv
      <3>4. thread[Feed] # NULL \/ settings # NULL \/ thread' = thread
        BY DEF Open, LandPost, LandExtend, Post, Extend, FillSlot, PrepareAlloc, load_thread,
           CreateRootAlloc, InitSettings, boardVars
      <3> QED
        BY <3>1, <3>2, <3>3, <3>4
    <2>2. CASE InitSettings(UpgradeAuthority, UpgradeAuthority)
      <3>1. settings' \in ProgramSettings
        <4>1. UpgradeAuthority \in Wallets /\ UpgradeAuthority \in Addr /\ DEFAULT_BPS \in Bps
          BY AccountsAssumption DEF Addr, Bps
        <4> QED
          BY <2>2, <4>1 DEF InitSettings, ProgramSettings
      <3> QED
        BY <3>1, NullAssumption
    <2>3. settings' = settings \/ InitSettings(UpgradeAuthority, UpgradeAuthority)
      BY DEF Open, LandPost, LandExtend, Post, Extend, FillSlot, PrepareAlloc, CreateRootAlloc
    <2> QED
      BY <2>1, <2>2, <2>3
  <1> QED
    BY <1>1, <1>2, <1>3, <1>4, <1>5, FlightKept

\* The steps of the clients that leave the chain alone.
LEMMA FlightIdle ==
    ASSUME GrowthInv, FlightInv, UNCHANGED vars,
           \/ flight' = flight
           \/ \E w \in Wallets : flight' = [flight EXCEPT ![w] = NULL]
    PROVE  FlightInv'
  <1>1. /\ access' = access /\ entry' = entry /\ settings' = settings /\ thread' = thread
    BY DEF vars, boardVars, accessVars
  <1>2. /\ flight' \in [Wallets -> Seq(AllocSeqs \X Slots) \cup {NULL}]
        /\ \A w \in Wallets : flight'[w] \in {flight[w], NULL}
    BY DEF FlightInv
  <1>3. thread[Feed] # NULL => thread[Feed].last_alloc_seq \in Nat
    <2> SUFFICES ASSUME thread[Feed] # NULL PROVE thread[Feed].last_alloc_seq \in Nat
      OBVIOUS
    <2>1. thread[Feed] \in ThreadNode
      BY PostingAssumption DEF GrowthInv, PostingTypes
    <2> QED
      BY <2>1, AccountsAssumption DEF ThreadNode, u32
  <1>4. thread'[Feed] # NULL => settings' # NULL
    BY <1>1 DEF FlightInv
  <1> QED
    BY <1>1, <1>2, <1>3, <1>4, FlightKept

LEMMA FlightSend ==
    ASSUME GrowthInv, FlightInv, NEW w \in Wallets, SendPost(w)
    PROVE  FlightInv'
  <1>1. /\ access' = access /\ entry' = entry /\ settings' = settings /\ thread' = thread
        /\ thread[Feed] # NULL
    BY DEF SendPost, vars, boardVars, accessVars
  <1>2. PICK c \in CandidateLists(FreeSlots) : flight' = [flight EXCEPT ![w] = c]
    BY DEF SendPost
  <1>3. c \in Seq(AllocSeqs \X Slots) /\ OnChain(c)
    BY <1>1, ListOnChain
  <1>4. flight' \in [Wallets -> Seq(AllocSeqs \X Slots) \cup {NULL}]
    BY <1>2, <1>3 DEF FlightInv
  <1>5. ASSUME NEW v \in Wallets, flight'[v] # NULL
        PROVE  /\ flight'[v] # <<>>
               /\ \A i \in DOMAIN flight'[v] :
                    /\ flight'[v][i][1] <= thread'[Feed].last_alloc_seq
                    /\ flight'[v][i][2] < CONTENT_SLOTS
    <2>1. OnChain(flight'[v])
      BY <1>2, <1>3, <1>5 DEF FlightInv
    <2> QED
      BY <1>1, <2>1 DEF OnChain, InRange
  <1>6. thread'[Feed] # NULL /\ settings' # NULL
    BY <1>1 DEF FlightInv
  <1> QED
    BY <1>1, <1>4, <1>5, <1>6 DEF FlightInv, OnChain, InRange

\* So the slots of a post under way stay in range.
LEMMA FlightInvariant == PostingSpec => []FlightInv
  <1>1. PostingInit => FlightInv
    <2> SUFFICES ASSUME PostingInit PROVE FlightInv
      OBVIOUS
    <2>1. /\ thread = [t \in Threads |-> NULL] /\ access = [t \in Threads |-> NULL]
          /\ entry = [t \in Threads |-> [w \in Wallets |-> NULL]]
          /\ flight = [w \in Wallets |-> NULL]
      BY DEF PostingInit, Init
    <2> QED
      BY <2>1, PostingAssumption DEF FlightInv
  <1>2. GrowthInv /\ GrowthInv' /\ FlightInv /\ [PostingNext]_postingVars => FlightInv'
    <2> SUFFICES ASSUME GrowthInv, GrowthInv', FlightInv, [PostingNext]_postingVars
                 PROVE  FlightInv'
      OBVIOUS
    <2>1. CASE Open \/ \E w \in Wallets : LandPost(w) \/ LandExtend(w)
      BY <2>1, FlightChainStep
    <2>2. ASSUME NEW w \in Wallets, SendPost(w) PROVE FlightInv'
      BY <2>2, FlightSend
    <2>3. ASSUME NEW w \in Wallets, SendExtend(w) \/ RefuseExtend(w) PROVE FlightInv'
      BY <2>3, FlightIdle DEF SendExtend, RefuseExtend
    <2>4. ASSUME NEW w \in Wallets, RefusePost(w) PROVE FlightInv'
      BY <2>4, FlightIdle DEF RefusePost
    <2>5. ASSUME NEW w \in Wallets, Lose(w) PROVE FlightInv'
      BY <2>5, FlightIdle DEF Lose
    <2>6. CASE UNCHANGED postingVars
      BY <2>6, FlightIdle DEF postingVars, clientVars
    <2> QED
      BY <2>1, <2>2, <2>3, <2>4, <2>5, <2>6 DEF PostingNext
  <1> QED
    BY <1>1, <1>2, GrowthInvariant, PTL DEF PostingSpec

\* A post built from a stale view of the chain passes every check of
\* process_fill_slot that comes before the payment, unless others took every
\* slot it names (the part of RefusedOnlyIfTaken of the posting run that no
\* balance decides): the chain only grows, so what the client named stays
\* within last_alloc_seq.
THEOREM StaleViewUsable == PostingSpec => []FlightUsable
  <1>1. FlightInv => FlightUsable
    <2> SUFFICES ASSUME FlightInv, NEW w \in Wallets, flight[w] # NULL
                 PROVE  /\ flight[w] # <<>>
                        /\ load_thread(Feed)
                        /\ settings # NULL
                        /\ validate_fee_shards(0, 0)
                        /\ allowed_to_post(w, Feed)
                        /\ \/ \E i \in DOMAIN flight[w] : FirstFree(Feed, flight[w], i)
                           \/ \A i \in DOMAIN flight[w] : Taken(flight[w][i])
      BY DEF FlightUsable
    <2>1. /\ flight[w] \in Seq(AllocSeqs \X Slots) /\ OnChain(flight[w])
          /\ thread[Feed] # NULL /\ settings # NULL
          /\ access[Feed] = NULL /\ entry[Feed][w] = NULL
      BY DEF FlightInv
    <2>2. flight[w] # <<>>
      BY <2>1 DEF OnChain
    <2>3. load_thread(Feed)
      BY <2>1 DEF load_thread
    <2>4. validate_fee_shards(0, 0)
      BY AccountsAssumption DEF validate_fee_shards, validate_treasury_shard,
         validate_author_fee_shard
    <2>5. allowed_to_post(w, Feed)
      <3>1. NULL # ACCESS_DENIED
        BY NullAssumption DEF ACCESS_DENIED
      <3> QED
        BY <2>1, <3>1 DEF allowed_to_post, gating_enabled
    <2> QED
      BY <2>1, <2>2, <2>3, <2>4, <2>5, FirstFreeExists
  <1> QED
    BY <1>1, FlightInvariant, PTL

-----------------------------------------------------------------------------
(***************************************************************************)
(* The clients submit nothing but instructions of the program.             *)
(***************************************************************************)

\* The instruction data of Spec includes what the clients send.
ClientInputs ==
    /\ UpgradeAuthority \in TreasuryInputs
    /\ 0 \in FeeInputs
    /\ 0 \in TitleInputs
    /\ <<>> \in BodyInputs
    /\ Seq(AllocSeqs \X Slots) \subseteq CandidateInputs
    /\ MaxFee \in MaxFeeInputs

\* A step of the posting clients is an instruction of the program with
\* arguments of its data types, or leaves the accounts alone.
LEMMA ClientStep ==
    ASSUME ClientInputs, GrowthInv, FlightInv, [PostingNext]_postingVars
    PROVE  [Next]_vars
  <1>0. 0 \in TreasuryIdx /\ 0 \in AuthorIdx /\ Feed \in Threads /\ UpgradeAuthority \in Wallets
    BY AccountsAssumption, PostingAssumption DEF TreasuryIdx, AuthorIdx
  <1>1. CASE Open
    <2>1. CASE InitSettings(UpgradeAuthority, UpgradeAuthority)
      BY <1>0, <2>1 DEF Next, SetupNext, ClientInputs
    <2>2. CASE CreateRootAlloc(UpgradeAuthority, Feed, 0, 0, 0)
      BY <1>0, <2>2 DEF Next, SetupNext, ClientInputs
    <2> QED
      BY <1>1, <2>1, <2>2 DEF Open
  <1>2. ASSUME NEW w \in Wallets, LandPost(w) PROVE Next
    <2>1. flight[w] \in Seq(AllocSeqs \X Slots)
      BY <1>2 DEF FlightInv, LandPost
    <2>2. FillSlot(w, Feed, <<>>, flight[w], 0, 0, MaxFee)
      BY <1>2 DEF LandPost, Post
    <2>3. flight[w] \in CandidateInputs /\ <<>> \in BodyInputs /\ MaxFee \in MaxFeeInputs
      BY <2>1 DEF ClientInputs
    <2>4. PostNext
      BY <1>0, <2>2, <2>3 DEF PostNext
    <2> QED
      BY <2>4 DEF Next
  <1>3. ASSUME NEW w \in Wallets, LandExtend(w) PROVE Next
    <2>1. growing[w] \in AllocSeqs
      BY <1>3 DEF GrowthInv, PostingTypes, LandExtend
    <2>2. PrepareAlloc(w, Feed, growing[w])
      BY <1>3 DEF LandExtend, Extend
    <2>3. PageNext
      BY <1>0, <2>1, <2>2 DEF PageNext
    <2> QED
      BY <2>3 DEF Next
  <1>4. ASSUME NEW w \in Wallets,
               SendPost(w) \/ SendExtend(w) \/ RefusePost(w) \/ RefuseExtend(w) \/ Lose(w)
        PROVE  UNCHANGED vars
    BY <1>4 DEF SendPost, SendExtend, RefusePost, RefuseExtend, Lose
  <1>5. CASE UNCHANGED postingVars
    BY <1>5 DEF postingVars
  <1> QED
    BY <1>1, <1>2, <1>3, <1>4, <1>5 DEF PostingNext

\* The system of posting clients is the program, used in one way (process_fill_slot
\* and process_prepare_alloc unchanged): so whatever the theorems say of Spec
\* holds while clients with stale views race, lose transactions and try again.
THEOREM ClientsUseProgram ==
    ASSUME ClientInputs
    PROVE  PostingSpec => Spec
  <1>1. PostingInit => Init
    BY DEF PostingInit
  <1>2. GrowthInv /\ FlightInv /\ [PostingNext]_postingVars => [Next]_vars
    BY ClientStep
  <1> QED
    BY <1>1, <1>2, GrowthInvariant, FlightInvariant, PTL DEF PostingSpec, Spec
=============================================================================
