--------------------------- MODULE ChannelProofs ----------------------------
(***************************************************************************)
(* Channels, for every set of wallets, threads and inputs: the chain of    *)
(* pages has no gap, messages and likes lie on pages that exist, and the   *)
(* program implements the message board.                                   *)
(***************************************************************************)
EXTENDS MemberProofs

(***************************************************************************)
(* Who touches channels.                                                   *)
(***************************************************************************)

\* No instruction outside src/processor/{create_root_alloc, prepare_alloc,
\* fill_slot, append_content, close_account, like_content, set_message_fee,
\* set_like_fee}.rs writes a thread, a page, a message or a like counter.
LEMMA BoardFrame ==
    ASSUME [Next]_vars, ~SetupNext, ~PageNext, ~PostNext, ~DeleteNext, ~AppendNext,
           ~LikeNext, ~PricingNext
    PROVE  UNCHANGED boardVars
  <1>1. CASE AdminNext
    BY <1>1 DEF AdminNext, SetAdmin, SetTreasury, settingsOnly
  <1>2. CASE CutNext
    BY <1>2 DEF CutNext, SetBaseFee, SetAuthorFeeCut, SetEntryCut, SetLikeCut, settingsOnly
  <1>3. CASE SweepNext
    BY <1>3 DEF SweepNext, SweepTreasury, SweepAuthorFees
  <1>4. CASE MembershipNext
    BY <1>4, MembershipFrame
  <1>5. CASE FollowNext
    BY <1>5 DEF FollowNext, Subscribe, Unsubscribe, followOnly
  <1>6. CASE GiftNext \/ Tick \/ UNCHANGED vars
    BY <1>6 DEF GiftNext, SystemTransfer, Tick, vars
  <1> QED
    BY <1>1, <1>2, <1>3, <1>4, <1>5, <1>6 DEF Next

\* The instructions on messages and likes write no thread and no page.
LEMMA MessageFrame ==
    ASSUME PostNext \/ DeleteNext \/ AppendNext \/ LikeNext
    PROVE  UNCHANGED <<thread, alloc>>
  <1>1. CASE PostNext
    <2>1. PICK w \in Wallets, t \in Threads, body \in BodyInputs, c \in CandidateInputs,
               k \in TreasuryIdx, j \in AuthorIdx, m \in MaxFeeInputs :
                  FillSlot(w, t, body, c, k, j, m)
      BY <1>1 DEF PostNext
    <2> QED
      BY <2>1 DEF FillSlot
  <1>2. CASE DeleteNext
    BY <1>2 DEF DeleteNext, CloseAccount
  <1>3. CASE AppendNext
    <2>1. PICK w \in Wallets, id \in ContentIds, chunk \in BodyInputs,
               k \in TreasuryIdx, j \in AuthorIdx : AppendContent(w, id, chunk, k, j)
      BY <1>3 DEF AppendNext
    <2> QED
      BY <2>1 DEF AppendContent
  <1>4. CASE LikeNext
    <2>1. PICK w \in Wallets, t \in Threads, seq \in AllocSeqs, slot \in 0..CONTENT_SLOTS,
               k \in TreasuryIdx, j \in AuthorIdx, m \in MaxFeeInputs :
                  LikeContent(w, t, seq, slot, k, j, m)
      BY <1>4 DEF LikeNext
    <2> QED
      BY <2>1 DEF LikeContent
  <1> QED
    BY <1>1, <1>2, <1>3, <1>4

\* The clock is read by instructions and written by none.
LEMMA ClockFrame ==
    ASSUME [Next]_vars, ~Tick
    PROVE  UNCHANGED now
  <1>1. CASE SetupNext
    <2>1. \A w \in Wallets, tr \in TreasuryInputs : InitSettings(w, tr) => UNCHANGED now
      BY DEF InitSettings
    <2>2. \A w \in Wallets, t \in Threads, fee \in FeeInputs, k \in TreasuryIdx,
             title \in TitleInputs : CreateRootAlloc(w, t, fee, k, title) => UNCHANGED now
      BY DEF CreateRootAlloc
    <2> QED
      BY <1>1, <2>1, <2>2 DEF SetupNext
  <1>2. CASE AdminNext
    BY <1>2 DEF AdminNext, SetAdmin, SetTreasury, settingsOnly
  <1>3. CASE CutNext
    BY <1>3 DEF CutNext, SetBaseFee, SetAuthorFeeCut, SetEntryCut, SetLikeCut, settingsOnly
  <1>4. CASE SweepNext
    BY <1>4 DEF SweepNext, SweepTreasury, SweepAuthorFees
  <1>5. CASE MembershipNext
    BY <1>5, MembershipFrame
  <1>6. CASE PageNext
    BY <1>6 DEF PageNext, PrepareAlloc
  <1>7. CASE PostNext
    BY <1>7 DEF PostNext, FillSlot
  <1>8. CASE DeleteNext
    BY <1>8 DEF DeleteNext, CloseAccount
  <1>9. CASE AppendNext
    BY <1>9 DEF AppendNext, AppendContent
  <1>10. CASE LikeNext
    BY <1>10 DEF LikeNext, LikeContent
  <1>11. CASE PricingNext
    BY <1>11 DEF PricingNext, SetMessageFee, SetLikeFee, threadOnly
  <1>12. CASE FollowNext
    BY <1>12 DEF FollowNext, Subscribe, Unsubscribe, followOnly
  <1>13. CASE GiftNext \/ UNCHANGED vars
    BY <1>13 DEF GiftNext, SystemTransfer, vars
  <1> QED
    BY <1>1, <1>2, <1>3, <1>4, <1>5, <1>6, <1>7, <1>8, <1>9, <1>10, <1>11, <1>12, <1>13
       DEF Next

-----------------------------------------------------------------------------
(***************************************************************************)
(* What each instruction does to the chain of pages.                       *)
(***************************************************************************)

\* The number of pages of a channel, as its thread account records it.
PageCount(t) == IF thread[t] = NULL THEN 0 ELSE thread[t].last_alloc_seq + 1

\* process_create_root_alloc opens one channel with one page.
LEMMA OpenEffect ==
    ASSUME TypeOK, NEW w \in Wallets, NEW t \in Threads, NEW fee \in FeeInputs,
           NEW k \in TreasuryIdx, NEW title \in TitleInputs,
           CreateRootAlloc(w, t, fee, k, title)
    PROVE  /\ thread[t] = NULL
           /\ thread'[t] # NULL /\ thread'[t].last_alloc_seq = 0 /\ thread'[t].alloc_count = 1
           /\ \A u \in Threads \ {t} : thread'[u] = thread[u]
           /\ alloc' = alloc \cup {<<t, 0>>}
           /\ UNCHANGED <<content, likes>>
  <1> DEFINE node == [alloc_count |-> 1, last_alloc_seq |-> 0, author |-> w,
                      message_fee |-> fee, like_fee |-> 0, title_len |-> title]
  <1>1. thread[t] = NULL /\ thread' = [thread EXCEPT ![t] = node]
    BY DEF CreateRootAlloc
  <1>2. alloc' = alloc \cup {<<t, 0>>} /\ UNCHANGED <<content, likes>>
    BY DEF CreateRootAlloc
  <1>3. thread \in [Threads -> ThreadNode \cup {NULL}]
    BY DEF TypeOK
  <1>4. title \in 0..MAX_TITLE_LEN /\ fee \in u64 /\ 0 \in u64 /\ 0 \in u32 /\ 1 \in u32
    BY AccountsAssumption, LedgerAssumption, InputAssumption DEF CreateRootAlloc, u64, u32
  <1>5. node \in ThreadNode
    BY <1>4 DEF ThreadNode
  <1>6. thread'[t] = node /\ \A u \in Threads \ {t} : thread'[u] = thread[u]
    BY <1>1, <1>3
  <1>7. node # NULL
    BY <1>5, NullAssumption
  <1> QED
    BY <1>1, <1>2, <1>6, <1>7

\* process_prepare_alloc links the next page of one channel.
LEMMA LinkEffect ==
    ASSUME TypeOK, NEW w \in Wallets, NEW t \in Threads, NEW seq \in AllocSeqs,
           PrepareAlloc(w, t, seq)
    PROVE  /\ thread[t] # NULL /\ thread[t].last_alloc_seq = seq
           /\ thread'[t] # NULL /\ thread'[t].last_alloc_seq = seq + 1
           /\ thread'[t].alloc_count = thread[t].alloc_count + 1
           /\ \A u \in Threads \ {t} : thread'[u] = thread[u]
           /\ alloc' = alloc \cup {<<t, seq + 1>>}
           /\ UNCHANGED <<content, likes>>
  <1> DEFINE node == [thread[t] EXCEPT !.alloc_count = @ + 1, !.last_alloc_seq = seq + 1]
  <1>1. thread[t] # NULL /\ thread[t].last_alloc_seq = seq
    BY DEF PrepareAlloc, load_thread
  <1>2. thread' = [thread EXCEPT ![t] = node]
    BY DEF PrepareAlloc, linked
  <1>3. alloc' = alloc \cup {<<t, seq + 1>>} /\ UNCHANGED <<content, likes>>
    BY DEF PrepareAlloc
  <1>4. thread \in [Threads -> ThreadNode \cup {NULL}] /\ thread[t] \in ThreadNode
    BY <1>1 DEF TypeOK
  <1>5. seq + 1 \in u32 /\ thread[t].alloc_count + 1 \in u32
    BY <1>4, AccountsAssumption DEF PrepareAlloc, ThreadNode, u32, AllocSeqs
  <1>6. /\ node \in ThreadNode
        /\ node.last_alloc_seq = seq + 1
        /\ node.alloc_count = thread[t].alloc_count + 1
    BY <1>4, <1>5 DEF ThreadNode
  <1>7. node # NULL
    BY <1>6, NullAssumption
  <1>8. thread'[t] = node /\ \A u \in Threads \ {t} : thread'[u] = thread[u]
    BY <1>2, <1>4
  <1> QED
    BY <1>1, <1>3, <1>6, <1>7, <1>8

\* The price setters of a channel leave its pages alone.
LEMMA PriceEffect ==
    ASSUME TypeOK, PricingNext
    PROVE  /\ \A t \in Threads :
                /\ thread'[t] = NULL <=> thread[t] = NULL
                /\ thread[t] # NULL => /\ thread'[t].last_alloc_seq = thread[t].last_alloc_seq
                                       /\ thread'[t].alloc_count = thread[t].alloc_count
           /\ UNCHANGED <<alloc, content, likes>>
  <1> PICK w \in Wallets, u \in Threads, fee \in FeeInputs :
                SetMessageFee(w, u, fee) \/ SetLikeFee(w, u, fee)
    BY DEF PricingNext
  <1>1. fee \in u64
    BY InputAssumption
  <1>2. /\ thread[u] # NULL
        /\ \/ thread' = [thread EXCEPT ![u].message_fee = fee]
           \/ thread' = [thread EXCEPT ![u].like_fee = fee]
        /\ UNCHANGED <<alloc, content, likes>>
    BY DEF SetMessageFee, SetLikeFee, threadOnly, load_author_thread, load_thread
  <1>3. thread \in [Threads -> ThreadNode \cup {NULL}] /\ thread[u] \in ThreadNode
    BY <1>2 DEF TypeOK
  <1>4. /\ [thread[u] EXCEPT !.message_fee = fee] \in ThreadNode
        /\ [thread[u] EXCEPT !.like_fee = fee] \in ThreadNode
    BY <1>1, <1>3 DEF ThreadNode
  <1>5. /\ \/ thread'[u] = [thread[u] EXCEPT !.message_fee = fee]
           \/ thread'[u] = [thread[u] EXCEPT !.like_fee = fee]
        /\ \A t \in Threads \ {u} : thread'[t] = thread[t]
    BY <1>2, <1>3
  <1>6. thread'[u] # NULL
    BY <1>4, <1>5, NullAssumption
  <1>7. /\ thread'[u].last_alloc_seq = thread[u].last_alloc_seq
        /\ thread'[u].alloc_count = thread[u].alloc_count
    BY <1>3, <1>5 DEF ThreadNode
  <1> QED
    BY <1>2, <1>5, <1>6, <1>7

-----------------------------------------------------------------------------
(***************************************************************************)
(* The chain of pages.                                                     *)
(***************************************************************************)

\* The chain of one channel, the conjunct of ChainDense.
Chain(t) ==
    /\ {p \in alloc : p[1] = t} =
        IF thread[t] = NULL THEN {}
        ELSE {<<t, seq>> : seq \in 0..thread[t].last_alloc_seq}
    /\ thread[t] # NULL => thread[t].alloc_count = thread[t].last_alloc_seq + 1

\* A step that leaves the pages and the page numbers of a channel alone keeps
\* its chain.
LEMMA ChainKept ==
    ASSUME NEW t \in Threads, Chain(t),
           thread'[t] = NULL <=> thread[t] = NULL,
           thread[t] # NULL => /\ thread'[t].last_alloc_seq = thread[t].last_alloc_seq
                               /\ thread'[t].alloc_count = thread[t].alloc_count,
           {p \in alloc' : p[1] = t} = {p \in alloc : p[1] = t}
    PROVE  Chain(t)'
  BY DEF Chain

\* Every step keeps every chain: only process_create_root_alloc and
\* process_prepare_alloc add pages, each the next one of its channel.
LEMMA ChainStep ==
    ASSUME TypeOK, [Next]_vars, \A t \in Threads : Chain(t), NEW t \in Threads
    PROVE  Chain(t)'
  <1>0. \A u \in Threads : thread[u] # NULL => thread[u].last_alloc_seq \in Nat
    BY AccountsAssumption DEF TypeOK, ThreadNode, u32
  <1>1. CASE SetupNext
    <2>1. ASSUME NEW w \in Wallets, NEW tr \in TreasuryInputs, InitSettings(w, tr)
          PROVE  Chain(t)'
      BY <2>1 DEF InitSettings, boardVars, Chain
    <2>2. ASSUME NEW w \in Wallets, NEW u \in Threads, NEW fee \in FeeInputs,
                 NEW k \in TreasuryIdx, NEW title \in TitleInputs,
                 CreateRootAlloc(w, u, fee, k, title)
          PROVE  Chain(t)'
      <3>1. /\ thread[u] = NULL
            /\ thread'[u] # NULL /\ thread'[u].last_alloc_seq = 0 /\ thread'[u].alloc_count = 1
            /\ \A v \in Threads \ {u} : thread'[v] = thread[v]
            /\ alloc' = alloc \cup {<<u, 0>>}
        BY <2>2, OpenEffect
      <3>2. CASE t = u
        <4>1. {p \in alloc : p[1] = t} = {}
          BY <3>1, <3>2 DEF Chain
        <4>2. {p \in alloc' : p[1] = t} = {<<t, 0>>}
          BY <3>1, <3>2, <4>1
        <4>3. {<<t, seq>> : seq \in 0..0} = {<<t, 0>>}
          OBVIOUS
        <4> QED
          BY <3>1, <3>2, <4>2, <4>3 DEF Chain
      <3>3. CASE t # u
        <4>1. {p \in alloc' : p[1] = t} = {p \in alloc : p[1] = t}
          BY <3>1, <3>3
        <4> QED
          BY <3>1, <3>3, <4>1, ChainKept
      <3> QED
        BY <3>2, <3>3
    <2> QED
      BY <1>1, <2>1, <2>2 DEF SetupNext
  <1>2. CASE PageNext
    <2>1. PICK w \in Wallets, u \in Threads, seq \in AllocSeqs : PrepareAlloc(w, u, seq)
      BY <1>2 DEF PageNext
    <2>2. /\ thread[u] # NULL /\ thread[u].last_alloc_seq = seq
          /\ thread'[u] # NULL /\ thread'[u].last_alloc_seq = seq + 1
          /\ thread'[u].alloc_count = thread[u].alloc_count + 1
          /\ \A v \in Threads \ {u} : thread'[v] = thread[v]
          /\ alloc' = alloc \cup {<<u, seq + 1>>}
      BY <2>1, LinkEffect
    <2>3. CASE t = u
      <3>1. seq \in Nat
        BY <1>0, <2>2
      <3>2. {p \in alloc : p[1] = t} = {<<t, s>> : s \in 0..seq}
        BY <2>2, <2>3 DEF Chain
      <3>3. {p \in alloc' : p[1] = t} = {<<t, s>> : s \in 0..seq} \cup {<<t, seq + 1>>}
        BY <2>2, <2>3, <3>2
      <3>4. 0..(seq + 1) = (0..seq) \cup {seq + 1}
        BY <3>1
      <3>5. {<<t, s>> : s \in 0..(seq + 1)} = {<<t, s>> : s \in 0..seq} \cup {<<t, seq + 1>>}
        BY <3>4
      <3>6. thread'[t].alloc_count = thread'[t].last_alloc_seq + 1
        BY <2>2, <2>3 DEF Chain
      <3> QED
        BY <2>2, <2>3, <3>3, <3>5, <3>6 DEF Chain
    <2>4. CASE t # u
      <3>1. {p \in alloc' : p[1] = t} = {p \in alloc : p[1] = t}
        BY <2>2, <2>4
      <3> QED
        BY <2>2, <2>4, <3>1, ChainKept
    <2> QED
      BY <2>3, <2>4
  <1>3. CASE PricingNext
    <2>1. {p \in alloc' : p[1] = t} = {p \in alloc : p[1] = t}
      BY <1>3, PriceEffect
    <2> QED
      BY <1>3, <2>1, PriceEffect, ChainKept
  <1>4. CASE PostNext \/ DeleteNext \/ AppendNext \/ LikeNext
    <2>1. UNCHANGED <<thread, alloc>>
      BY <1>4, MessageFrame
    <2> QED
      BY <2>1 DEF Chain
  <1>5. CASE UNCHANGED boardVars
    BY <1>5 DEF boardVars, Chain
  <1> QED
    BY <1>1, <1>2, <1>3, <1>4, <1>5, BoardFrame

\* The pages of every channel are numbered without a gap (ChainDense of the
\* channel run), whoever races process_prepare_alloc.
THEOREM ChainCorrect == Spec => []ChainDense
  <1>1. ChainDense <=> \A t \in Threads : Chain(t)
    BY DEF ChainDense, Chain
  <1>2. Init => ChainDense
    BY DEF Init, ChainDense
  <1>3. TypeOK /\ ChainDense /\ [Next]_vars => ChainDense'
    <2> SUFFICES ASSUME TypeOK, ChainDense, [Next]_vars PROVE ChainDense'
      OBVIOUS
    <2>1. \A t \in Threads : Chain(t)'
      BY <1>1, ChainStep
    <2> QED
      BY <2>1 DEF ChainDense, Chain
  <1> QED
    BY <1>2, <1>3, TypeCorrect, PTL DEF Spec

-----------------------------------------------------------------------------
(***************************************************************************)
(* Messages and likes on the pages.                                        *)
(***************************************************************************)

\* A page is never removed: no handler closes an AllocNode.
LEMMA PagesStay ==
    ASSUME TypeOK, [Next]_vars
    PROVE  alloc \subseteq alloc'
  <1>1. CASE SetupNext
    <2>1. \A w \in Wallets, tr \in TreasuryInputs : InitSettings(w, tr) => alloc' = alloc
      BY DEF InitSettings, boardVars
    <2> QED
      BY <1>1, <2>1, OpenEffect DEF SetupNext
  <1>2. CASE PageNext
    BY <1>2, LinkEffect DEF PageNext
  <1>3. CASE PricingNext
    BY <1>3, PriceEffect
  <1>4. CASE PostNext \/ DeleteNext \/ AppendNext \/ LikeNext
    BY <1>4, MessageFrame
  <1> QED
    BY <1>1, <1>2, <1>3, <1>4, BoardFrame DEF boardVars

\* process_fill_slot writes one message, on a page up to last_alloc_seq.
LEMMA PostEffect ==
    ASSUME TypeOK, PostNext
    PROVE  \E w \in Wallets, id \in ContentIds, body \in Bodies :
              /\ thread[id[1]] # NULL /\ id[2] <= thread[id[1]].last_alloc_seq
              /\ content[id] = NULL
              /\ content' = [content EXCEPT ![id] =
                               [author |-> w, created_at |-> now, body |-> body]]
              /\ UNCHANGED <<thread, likes, now>>
  <1>1. PICK w \in Wallets, t \in Threads, body \in BodyInputs, c \in CandidateInputs,
             k \in TreasuryIdx, j \in AuthorIdx, m \in MaxFeeInputs :
                FillSlot(w, t, body, c, k, j, m)
    BY DEF PostNext
  <1>2. PICK i \in DOMAIN c :
          /\ FirstFree(t, c, i)
          /\ content' = [content EXCEPT ![<<t, c[i][1], c[i][2]>>] =
                           [author |-> w, created_at |-> now, body |-> body]]
    BY <1>1 DEF FillSlot
  <1> DEFINE id == <<t, c[i][1], c[i][2]>>
  <1>3. c \in Seq(u32 \X Nat)
    BY InputAssumption
  <1>4. i \in 1..i /\ c[i] \in u32 \X Nat
    BY <1>3
  <1>5. c[i][1] <= thread[t].last_alloc_seq /\ c[i][2] < CONTENT_SLOTS /\ content[id] = NULL
    BY <1>2, <1>4 DEF FirstFree
  <1>6. id \in ContentIds
    BY <1>4, <1>5, AccountsAssumption DEF ContentIds, AllocSeqs, Slots, u32
  <1>7. body \in Bodies
    BY <1>1, BodyTypes, InputAssumption DEF FillSlot
  <1>8. thread[t] # NULL /\ UNCHANGED <<thread, likes, now>>
    BY <1>1 DEF FillSlot, load_thread
  <1>9. id[1] = t /\ id[2] = c[i][1]
    OBVIOUS
  <1> QED
    BY <1>2, <1>5, <1>6, <1>7, <1>8, <1>9

\* Only process_fill_slot, process_append_content and process_close_account write
\* messages.
LEMMA ContentFrame ==
    ASSUME TypeOK, [Next]_vars, ~PostNext, ~DeleteNext, ~AppendNext
    PROVE  UNCHANGED content
  <1>1. CASE SetupNext
    <2>1. \A w \in Wallets, tr \in TreasuryInputs : InitSettings(w, tr) => content' = content
      BY DEF InitSettings, boardVars
    <2> QED
      BY <1>1, <2>1, OpenEffect DEF SetupNext
  <1>2. CASE PageNext
    BY <1>2, LinkEffect DEF PageNext
  <1>3. CASE PricingNext
    BY <1>3, PriceEffect
  <1>4. CASE LikeNext
    BY <1>4 DEF LikeNext, LikeContent
  <1>5. CASE UNCHANGED boardVars
    BY <1>5 DEF boardVars
  <1> QED
    BY <1>1, <1>2, <1>3, <1>4, <1>5, BoardFrame

\* Only process_like_content and process_close_account write like counters.
LEMMA LikesFrame ==
    ASSUME TypeOK, [Next]_vars, ~LikeNext, ~DeleteNext
    PROVE  UNCHANGED likes
  <1>1. CASE SetupNext
    <2>1. \A w \in Wallets, tr \in TreasuryInputs : InitSettings(w, tr) => likes' = likes
      BY DEF InitSettings, boardVars
    <2> QED
      BY <1>1, <2>1, OpenEffect DEF SetupNext
  <1>2. CASE PageNext
    BY <1>2, LinkEffect DEF PageNext
  <1>3. CASE PricingNext
    BY <1>3, PriceEffect
  <1>4. CASE PostNext
    BY <1>4, PostEffect
  <1>5. CASE AppendNext
    BY <1>5 DEF AppendNext, AppendContent
  <1>6. CASE UNCHANGED boardVars
    BY <1>6 DEF boardVars
  <1> QED
    BY <1>1, <1>2, <1>3, <1>4, <1>5, <1>6, BoardFrame

\* Messages and likes lie on existing pages (ContentOnPage of the channel
\* run), although process_fill_slot never loads the page it posts to.
THEOREM ContentCorrect == Spec => []ContentOnPage
  <1>1. Init => ContentOnPage
    BY DEF Init, ContentOnPage
  <1>2. ASSUME TypeOK, ChainDense, ContentOnPage, [Next]_vars
        PROVE  ContentOnPage'
    <2>0. /\ content \in [ContentIds -> ContentNode \cup {NULL}]
          /\ likes \in [Pages -> [Slots -> u32] \cup {NULL}]
          /\ alloc \subseteq alloc'
      BY <1>2, PagesStay DEF TypeOK
    <2>1. ASSUME NEW id \in ContentIds, content'[id] # NULL
          PROVE  <<id[1], id[2]>> \in alloc'
      <3>1. CASE content[id] # NULL
        BY <1>2, <2>0, <3>1 DEF ContentOnPage
      <3>2. CASE content[id] = NULL
        <4>1. PostNext
          BY <1>2, <2>1, <3>2, OnlyFillSlotPosts
        <4>2. PICK w \in Wallets, x \in ContentIds, body \in Bodies :
                /\ thread[x[1]] # NULL /\ x[2] <= thread[x[1]].last_alloc_seq
                /\ content' = [content EXCEPT ![x] =
                                 [author |-> w, created_at |-> now, body |-> body]]
          BY <1>2, <4>1, PostEffect
        <4>3. id = x
          BY <2>0, <2>1, <3>2, <4>2
        <4>4. id[1] \in Threads /\ id[2] \in Nat
          BY DEF ContentIds, AllocSeqs
        <4>5. thread[id[1]].last_alloc_seq \in Nat
          BY <1>2, <4>2, <4>3, <4>4, AccountsAssumption DEF TypeOK, ThreadNode, u32
        <4>6. id[2] \in 0..thread[id[1]].last_alloc_seq
          BY <4>2, <4>3, <4>4, <4>5
        <4>7. <<id[1], id[2]>> \in {p \in alloc : p[1] = id[1]}
          BY <1>2, <4>2, <4>3, <4>4, <4>6 DEF ChainDense
        <4> QED
          BY <2>0, <4>7
      <3> QED
        BY <3>1, <3>2
    <2>2. ASSUME NEW p \in Pages, likes'[p] # NULL
          PROVE  p \in alloc'
      <3>1. CASE likes[p] # NULL
        BY <1>2, <2>0, <3>1 DEF ContentOnPage
      <3>2. CASE likes[p] = NULL
        <4>1. LikeNext
          <5>1. CASE DeleteNext
            <6>1. PICK w \in Wallets, id \in ContentIds, with_likes \in BOOLEAN :
                      CloseAccount(w, id, with_likes)
              BY <5>1 DEF DeleteNext
            <6>2. \/ likes' = likes
                  \/ /\ likes[<<id[1], id[2]>>] # NULL
                     /\ likes' = [likes EXCEPT ![<<id[1], id[2]>>][id[3]] = 0]
              BY <6>1 DEF CloseAccount
            <6> QED
              BY <2>0, <2>2, <3>2, <6>2
          <5> QED
            BY <1>2, <2>2, <3>2, <5>1, LikesFrame
        <4>2. PICK w \in Wallets, t \in Threads, seq \in AllocSeqs, slot \in 0..CONTENT_SLOTS,
                   k \in TreasuryIdx, j \in AuthorIdx, m \in MaxFeeInputs :
                      LikeContent(w, t, seq, slot, k, j, m)
          BY <4>1 DEF LikeNext
        <4>3. /\ slot < CONTENT_SLOTS /\ content[<<t, seq, slot>>] # NULL
              /\ \E counts : likes' = [likes EXCEPT ![<<t, seq>>] = counts]
          BY <4>2 DEF LikeContent
        <4>4. p = <<t, seq>>
          BY <2>0, <2>2, <3>2, <4>3
        <4>5. <<t, seq, slot>> \in ContentIds
          BY <4>3, AccountsAssumption DEF ContentIds, Slots
        <4>6. <<t, seq>> \in alloc
          BY <1>2, <4>3, <4>5 DEF ContentOnPage
        <4> QED
          BY <2>0, <4>4, <4>6
      <3> QED
        BY <3>1, <3>2
    <2> QED
      BY <2>1, <2>2 DEF ContentOnPage
  <1> QED
    BY <1>1, <1>2, TypeCorrect, ChainCorrect, PTL DEF Spec

\* A like adds at most one to one counter and takes none away, whether or not the
\* counter is at its limit (saturating_add).
LEMMA LikeCounts ==
    ASSUME TypeOK, LikeNext, NEW p \in Pages, NEW i \in Slots, likes[p] # NULL
    PROVE  likes'[p] # NULL /\ likes'[p][i] >= likes[p][i]
  <1>1. PICK w \in Wallets, t \in Threads, seq \in AllocSeqs, slot \in 0..CONTENT_SLOTS,
             k \in TreasuryIdx, j \in AuthorIdx, m \in MaxFeeInputs :
                LikeContent(w, t, seq, slot, k, j, m)
    BY DEF LikeNext
  <1> DEFINE page == <<t, seq>>
             old  == IF likes[page] = NULL THEN [n \in Slots |-> 0] ELSE likes[page]
             new  == [old EXCEPT ![slot] = saturating_inc(old[slot])]
  <1>2. likes' = [likes EXCEPT ![page] = new] /\ slot < CONTENT_SLOTS
    BY <1>1 DEF LikeContent
  <1>3. /\ likes \in [Pages -> [Slots -> u32] \cup {NULL}]
        /\ page \in Pages
        /\ likes[p] \in [Slots -> u32]
        /\ likes[p][i] \in Nat
    BY AccountsAssumption DEF TypeOK, Pages, u32
  <1>4. CASE p = page
    <2>1. likes'[p] = new /\ old = likes[p]
      BY <1>2, <1>3, <1>4
    <2>2. new[i] = IF i = slot THEN saturating_inc(likes[p][i]) ELSE likes[p][i]
      BY <1>3, <2>1
    <2>3. saturating_inc(likes[p][i]) >= likes[p][i]
      BY <1>3 DEF saturating_inc
    <2>4. new # NULL
      <3>1. slot \in Slots
        BY <1>2, AccountsAssumption DEF Slots
      <3>2. saturating_inc(likes[p][slot]) \in u32
        BY <1>3, <3>1, AccountsAssumption DEF saturating_inc, u32
      <3>3. new \in [Slots -> u32]
        BY <1>3, <2>1, <3>2
      <3> QED
        BY <3>3, NullAssumption
    <2> QED
      BY <1>3, <2>1, <2>2, <2>3, <2>4
  <1>5. CASE p # page
    <2>1. likes'[p] = likes[p]
      BY <1>2, <1>3, <1>5
    <2> QED
      BY <1>3, <2>1
  <1> QED
    BY <1>4, <1>5

\* A like counter falls only with the message it counts for, and then to zero
\* (LikesFallOnlyOnDelete of the channel run): no like of another slot, page
\* or wallet, and no overflow, takes a like away.
THEOREM LikesCorrect == Spec => LikesFallOnlyOnDelete
  <1> DEFINE Fall(p, i) ==
        likes[p] # NULL =>
            /\ likes'[p] # NULL
            /\ likes'[p][i] < likes[p][i] =>
                 /\ likes'[p][i] = 0
                 /\ content[<<p[1], p[2], i>>] # NULL
                 /\ content'[<<p[1], p[2], i>>] = NULL
  <1>1. ASSUME TypeOK, TypeOK', [Next]_vars, NEW p \in Pages, NEW i \in Slots PROVE Fall(p, i)
    <2> SUFFICES ASSUME likes[p] # NULL PROVE Fall(p, i)
      OBVIOUS
    <2>1. /\ likes[p] \in [Slots -> u32] /\ likes[p][i] \in Int
          /\ likes \in [Pages -> [Slots -> u32] \cup {NULL}]
          /\ likes'[p] # NULL => likes'[p][i] \in Int
      BY <1>1, AccountsAssumption DEF TypeOK, u32
    <2>2. CASE LikeNext
      BY <1>1, <2>1, <2>2, LikeCounts
    <2>3. CASE DeleteNext
      <3>1. PICK w \in Wallets, id \in ContentIds, with_likes \in BOOLEAN :
               CloseAccount(w, id, with_likes)
        BY <2>3 DEF DeleteNext
      <3> DEFINE page == <<id[1], id[2]>>
      <3>2. /\ content[id] # NULL
            /\ content' = [content EXCEPT ![id] = NULL]
            /\ \/ likes' = likes
               \/ likes[page] # NULL /\ likes' = [likes EXCEPT ![page][id[3]] = 0]
        BY <3>1 DEF CloseAccount, load_own_content
      <3>3. id = <<id[1], id[2], id[3]>> /\ page \in Pages /\ id[3] \in Slots
        BY DEF ContentIds, Pages
      <3>4. content'[id] = NULL
        BY <1>1, <3>2 DEF TypeOK
      <3>5. p = <<p[1], p[2]>>
        BY DEF Pages
      <3>6. CASE likes'[p] = likes[p]
        BY <2>1, <3>6
      <3>7. CASE likes'[p] # likes[p]
        <4>1. p = page /\ likes'[p] = [likes[p] EXCEPT ![id[3]] = 0]
          BY <2>1, <3>2, <3>3, <3>7
        <4>2. likes'[p] # NULL
          <5>1. 0 \in u32
            BY AccountsAssumption DEF u32
          <5>2. [likes[p] EXCEPT ![id[3]] = 0] \in [Slots -> u32]
            BY <2>1, <3>3, <5>1
          <5> QED
            BY <4>1, <5>2, NullAssumption
        <4>3. likes'[p][i] < likes[p][i] => i = id[3] /\ likes'[p][i] = 0
          BY <2>1, <4>1
        <4>4. i = id[3] => <<p[1], p[2], i>> = id
          BY <3>3, <3>5, <4>1
        <4> QED
          BY <3>2, <3>4, <4>2, <4>3, <4>4
      <3> QED
        BY <3>6, <3>7
    <2>4. CASE ~LikeNext /\ ~DeleteNext
      <3>1. likes' = likes
        BY <1>1, <2>4, LikesFrame
      <3> QED
        BY <2>1, <3>1
    <2> QED
      BY <2>2, <2>3, <2>4
  <1>2. TypeOK /\ TypeOK' /\ [Next]_vars => [\A p \in Pages, i \in Slots : Fall(p, i)]_vars
    BY <1>1
  <1> QED
    BY <1>2, TypeCorrect, PTL DEF Spec, LikesFallOnlyOnDelete

(***************************************************************************)
(* The program implements the message board of module MessageBoard, under  *)
(* the refinement mapping of ImplementsBoard: the pages of a channel are   *)
(* counted by its thread account, the messages and the clock are the       *)
(* program's own.                                                          *)
(***************************************************************************)

\* The abstract page counters.
PagesOf == [t \in Threads |-> IF thread[t] = NULL THEN 0 ELSE thread[t].last_alloc_seq + 1]

\* The messages of the board have the addresses derive_content_pda knows.
LEMMA SameIds == Board!Ids = ContentIds
  BY DEF Board!Ids, ContentIds, AllocSeqs

\* An instruction that leaves threads, messages and the clock alone is a
\* stuttering step of the board.
LEMMA BoardStutters ==
    ASSUME UNCHANGED <<thread, content, now>>
    PROVE  UNCHANGED Board!boardState
  BY DEF Board!boardState

\* process_create_root_alloc opens a channel with its first page and
\* process_prepare_alloc adds one page.
LEMMA PageAdds ==
    ASSUME TypeOK, NEW t \in Threads,
           PageCount(t)' = PageCount(t) + 1,
           \A u \in Threads \ {t} : thread'[u] = thread[u],
           UNCHANGED <<content, now>>
    PROVE  Board!BoardNext
  <1>1. PagesOf' = [PagesOf EXCEPT ![t] = @ + 1]
    <2>1. PagesOf'[t] = PagesOf[t] + 1
      BY DEF PagesOf, PageCount
    <2>2. \A u \in Threads \ {t} : PagesOf'[u] = PagesOf[u]
      BY DEF PagesOf
    <2> QED
      BY <2>1, <2>2 DEF PagesOf
  <1>2. Board!AddPage(t)
    BY <1>1 DEF Board!AddPage, PagesOf
  <1> QED
    BY <1>2 DEF Board!BoardNext

\* process_fill_slot posts to a free slot of a page that exists.
LEMMA PostPosts ==
    ASSUME TypeOK, PostNext
    PROVE  Board!BoardNext
  <1>1. PICK w \in Wallets, id \in ContentIds, body \in Bodies :
              /\ thread[id[1]] # NULL /\ id[2] <= thread[id[1]].last_alloc_seq
              /\ content[id] = NULL
              /\ content' = [content EXCEPT ![id] =
                               [author |-> w, created_at |-> now, body |-> body]]
              /\ UNCHANGED <<thread, likes, now>>
    BY PostEffect
  <1>2. id[1] \in Threads /\ id[2] \in Nat
    BY DEF ContentIds, AllocSeqs
  <1>3. thread[id[1]].last_alloc_seq \in Nat
    BY <1>1, <1>2, AccountsAssumption DEF TypeOK, ThreadNode, u32
  <1>4. id[2] < PagesOf[id[1]]
    BY <1>1, <1>2, <1>3 DEF PagesOf
  <1>5. Board!Post(w, id, body)
    BY <1>1, <1>4 DEF Board!Post, PagesOf
  <1> QED
    BY <1>5, SameIds DEF Board!BoardNext

\* Two bodies put end to end are as long as both.
LEMMA LengthAdds ==
    ASSUME NEW a \in Seq(Bytes), NEW b \in Seq(Bytes)
    PROVE  Len(a) \in Nat /\ Len(b) \in Nat /\ Len(a \o b) = Len(a) + Len(b)
  OBVIOUS

\* process_append_content extends a message within its window.
LEMMA AppendExtends ==
    ASSUME TypeOK, AppendNext
    PROVE  Board!BoardNext
  <1>1. PICK w \in Wallets, id \in ContentIds, chunk \in BodyInputs,
             k \in TreasuryIdx, j \in AuthorIdx : AppendContent(w, id, chunk, k, j)
    BY DEF AppendNext
  <1>2. /\ content[id] # NULL
        /\ now - content[id].created_at <= APPEND_WINDOW_SECS
        /\ Len(content[id].body \o chunk) <= MAX_BODY_LEN
        /\ content' = [content EXCEPT ![id].body = content[id].body \o chunk]
        /\ UNCHANGED <<thread, now>>
    BY <1>1 DEF AppendContent, load_own_content
  <1>3. content[id].body \in Seq(Bytes) /\ chunk \in Seq(Bytes)
    BY <1>2, BodiesAreSequences, InputAssumption DEF TypeOK, ContentNode
  <1>4. Len(chunk) <= MAX_BODY_LEN
    <2>1. /\ Len(content[id].body) \in Nat /\ Len(chunk) \in Nat
          /\ Len(content[id].body \o chunk) = Len(content[id].body) + Len(chunk)
      BY <1>3, LengthAdds
    <2>2. Len(content[id].body) + Len(chunk) <= MAX_BODY_LEN
      BY <1>2, <2>1
    <2>3. MAX_BODY_LEN \in Nat
      BY AccountsAssumption
    <2> HIDE <1>2, <1>3
    <2> QED
      BY <2>1, <2>2, <2>3
  <1>5. chunk \in Bodies
    BY <1>3, <1>4, BodyTypes
  <1>6. Board!Extend(id, chunk)
    BY <1>2 DEF Board!Extend
  <1> QED
    BY <1>5, <1>6, SameIds DEF Board!BoardNext

\* process_close_account deletes a message.
LEMMA CloseDeletes ==
    ASSUME DeleteNext
    PROVE  Board!BoardNext
  <1>1. PICK w \in Wallets, id \in ContentIds, with_likes \in BOOLEAN :
            CloseAccount(w, id, with_likes)
    BY DEF DeleteNext
  <1>2. /\ content[id] # NULL /\ content' = [content EXCEPT ![id] = NULL]
        /\ UNCHANGED <<thread, now>>
    BY <1>1 DEF CloseAccount, load_own_content
  <1>3. Board!Delete(id)
    BY <1>2 DEF Board!Delete
  <1> QED
    BY <1>3, SameIds DEF Board!BoardNext

\* Every step of the program is a step of the board or stutters.
LEMMA StepImplements ==
    ASSUME TypeOK, [Next]_vars
    PROVE  [Board!BoardNext]_(Board!boardState)
  <1>0. \A t \in Threads : thread[t] # NULL => thread[t].last_alloc_seq \in Nat
    BY AccountsAssumption DEF TypeOK, ThreadNode, u32
  <1>1. CASE SetupNext
    <2>1. ASSUME NEW w \in Wallets, NEW tr \in TreasuryInputs, InitSettings(w, tr)
          PROVE  UNCHANGED <<thread, content, now>>
      BY <2>1 DEF InitSettings, boardVars
    <2>2. ASSUME NEW w \in Wallets, NEW t \in Threads, NEW fee \in FeeInputs,
                 NEW k \in TreasuryIdx, NEW title \in TitleInputs,
                 CreateRootAlloc(w, t, fee, k, title)
          PROVE  Board!BoardNext
      <3>1. /\ thread[t] = NULL /\ thread'[t] # NULL /\ thread'[t].last_alloc_seq = 0
            /\ \A u \in Threads \ {t} : thread'[u] = thread[u]
            /\ UNCHANGED content
        BY <2>2, OpenEffect
      <3>2. UNCHANGED now
        BY <2>2 DEF CreateRootAlloc
      <3>3. PageCount(t)' = PageCount(t) + 1
        BY <3>1 DEF PageCount
      <3> QED
        BY <3>1, <3>2, <3>3, PageAdds
    <2> QED
      BY <1>1, <2>1, <2>2, BoardStutters DEF SetupNext
  <1>2. CASE PageNext
    <2>1. PICK w \in Wallets, t \in Threads, seq \in AllocSeqs : PrepareAlloc(w, t, seq)
      BY <1>2 DEF PageNext
    <2>2. /\ thread[t] # NULL /\ thread[t].last_alloc_seq = seq
          /\ thread'[t] # NULL /\ thread'[t].last_alloc_seq = seq + 1
          /\ \A u \in Threads \ {t} : thread'[u] = thread[u]
          /\ UNCHANGED content
      BY <2>1, LinkEffect
    <2>3. UNCHANGED now
      BY <2>1 DEF PrepareAlloc
    <2>4. PageCount(t)' = PageCount(t) + 1
      BY <1>0, <2>2 DEF PageCount
    <2> QED
      BY <2>2, <2>3, <2>4, PageAdds
  <1>3. CASE PostNext
    BY <1>3, PostPosts
  <1>4. CASE AppendNext
    BY <1>4, AppendExtends
  <1>5. CASE DeleteNext
    BY <1>5, CloseDeletes
  <1>6. CASE LikeNext
    <2>1. UNCHANGED <<thread, content, now>>
      BY <1>6 DEF LikeNext, LikeContent
    <2> QED
      BY <2>1, BoardStutters
  <1>7. CASE PricingNext
    <2>1. PagesOf' = PagesOf
      BY <1>7, PriceEffect DEF PagesOf
    <2>2. UNCHANGED <<content, now>>
      BY <1>7 DEF PricingNext, SetMessageFee, SetLikeFee, threadOnly
    <2> QED
      BY <2>1, <2>2 DEF Board!boardState, PagesOf
  <1>8. CASE Tick
    <2>1. now \in Nat /\ now' = now + 1 /\ UNCHANGED <<thread, content>>
      BY <1>8 DEF TypeOK, Tick, boardVars
    <2>2. Board!Pass
      BY <2>1 DEF Board!Pass
    <2> QED
      BY <2>2 DEF Board!BoardNext
  <1>9. CASE ~Tick /\ UNCHANGED boardVars
    <2>1. UNCHANGED <<thread, content, now>>
      BY <1>9, ClockFrame DEF boardVars
    <2> QED
      BY <2>1, BoardStutters
  <1> QED
    BY <1>1, <1>2, <1>3, <1>4, <1>5, <1>6, <1>7, <1>8, <1>9, BoardFrame

\* The program implements the message board (ImplementsBoard of the channel
\* run): whatever the instructions do to fees, shards, access lists and
\* follows, readers see pages that grow one by one and messages that are
\* posted to free slots, extended within their window and deleted, never
\* overwritten or altered.
THEOREM BoardImplemented == Spec => ImplementsBoard
  <1>1. Init => Board!BoardInit
    <2> SUFFICES ASSUME Init PROVE Board!BoardInit
      OBVIOUS
    <2>1. PagesOf = [t \in Threads |-> 0]
      BY DEF Init, PagesOf
    <2> QED
      BY <2>1, SameIds DEF Init, Board!BoardInit, PagesOf
  <1>2. TypeOK /\ [Next]_vars => [Board!BoardNext]_(Board!boardState)
    BY StepImplements
  <1> QED
    BY <1>1, <1>2, TypeCorrect, PTL DEF Spec, ImplementsBoard, Board!BoardSpec
=============================================================================
