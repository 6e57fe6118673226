----------------------------- MODULE FeeProofs ------------------------------
(***************************************************************************)
(* Who pays what to whom, for every set of wallets, threads and inputs:    *)
(* prices and their caps, the author's share, the fee vaults, who pays for *)
(* a change of a message or an access list, the sum of all balances, and   *)
(* the refinement of FeeVaults.                                            *)
(***************************************************************************)
EXTENDS RentProofs, ChannelProofs, FiniteSetTheorems

(***************************************************************************)
(* Prices.                                                                 *)
(***************************************************************************)

\* A purchase costs the entry fee and the missing rent.
LEMMA EntryPrice ==
    ASSUME TypeOK, Rent, NEW w \in Wallets, NEW t \in Threads, NEW k \in TreasuryIdx,
           NEW j \in AuthorIdx, RequestAccess(w, t, k, j)
    PROVE  lamports[w] - lamports'[w] =
              access[t].entry_fee
                + Missing(lamports, derive_access_entry_pda(t, w), AccessEntry_size)
                + Missing(lamports, derive_treasury_shard_pda(k), 0)
                + Missing(lamports, derive_author_fee_pda(t, j), 0)
  <1> DEFINE s     == derive_treasury_shard_pda(k)
             a     == derive_author_fee_pda(t, j)
             e     == derive_access_entry_pda(t, w)
             fee   == access[t].entry_fee
             split == compute_fee_split(fee, settings.entry_cut_bps)
  <1>1. Paid(w, s, a, split.platform, split.author, e, AccessEntry_size)
    BY RequestFlow
  <1>2. split.platform \in Nat /\ split.author \in Nat /\ split.platform + split.author = fee
    <2>1. access[t].entry_fee \in u64 /\ settings.entry_cut_bps \in 0..BpsDenominator
      BY PriceTypes DEF RequestAccess
    <2> QED
      BY <2>1, SplitExact
  <1>3. lamports \in Ledgers /\ w \in Addr /\ s \in Addr /\ a \in Addr /\ e \in Addr
    BY BalancesAreLedger, FeeAddresses, PdaTypes, KeysApart DEF RequestAccess
  <1>4. AccessEntry_size \in Nat
    BY SizeTypes
  <1> HIDE DEF s, a, e, fee, split
  <1>5. /\ Missing(lamports, s, 0) \in Nat /\ Missing(lamports, a, 0) \in Nat
        /\ Missing(lamports, e, AccessEntry_size) \in Nat /\ lamports[w] \in Int
    BY <1>3, <1>4, MissingTypes DEF Ledgers
  <1>6. lamports'[w] = lamports[w] - (split.platform + split.author + Missing(lamports, s, 0)
                          + Missing(lamports, a, 0) + Missing(lamports, e, AccessEntry_size))
    BY <1>1 DEF Paid
  <1>7. lamports[w] - lamports'[w] = fee + Missing(lamports, e, AccessEntry_size)
                                      + Missing(lamports, s, 0) + Missing(lamports, a, 0)
    BY <1>2, <1>5, <1>6
  <1> QED
    BY <1>7 DEF s, a, e, fee

\* The price of membership is the entry fee in force and the missing rent
\* (EntryPriceExact of the entry run): process_request_access has no max_fee.
THEOREM EntryPriceCorrect == Spec => EntryPriceExact
  <1> DEFINE Price(w, t, k, j) ==
        RequestAccess(w, t, k, j) =>
            LET missing(a, size) == SaturatingSub(minimum_balance(size), lamports[a])
            IN  lamports[w] - lamports'[w] =
                    access[t].entry_fee
                      + missing(derive_access_entry_pda(t, w), AccessEntry_size)
                      + missing(derive_treasury_shard_pda(k), 0)
                      + missing(derive_author_fee_pda(t, j), 0)
  <1>1. ASSUME TypeOK, Rent, NEW w \in Wallets, NEW t \in Threads, NEW k \in TreasuryIdx,
               NEW j \in AuthorIdx
        PROVE  Price(w, t, k, j)
    BY <1>1, EntryPrice DEF Missing
  <1>2. TypeOK /\ Rent =>
           [\A w \in Wallets, t \in Threads, k \in TreasuryIdx, j \in AuthorIdx :
               Price(w, t, k, j)]_vars
    BY <1>1
  <1> QED
    BY <1>2, TypeCorrect, RentInvariant, PTL DEF EntryPriceExact

\* A larger part is no smaller.
LEMMA PartGrows ==
    ASSUME NEW x \in Nat, NEW b \in Nat, NEW c \in Nat, b <= c
    PROVE  (x * b) \div BpsDenominator <= (x * c) \div BpsDenominator
  <1>1. PICK d \in Nat : c = b + d
    <2>1. c - b \in Nat /\ c = b + (c - b)
      OBVIOUS
    <2> QED
      BY <2>1
  <1>2. x * c = x * b + x * d /\ x * d \in Nat /\ x * b \in Nat
    BY <1>1
  <1> DEFINE y == x * b
             z == x * c
  <1>3. y \in Nat /\ z \in Nat /\ y <= z
    BY <1>2
  <1> HIDE DEF y, z
  <1>4. y \div 10000 <= z \div 10000
    BY <1>3
  <1> QED
    BY <1>4 DEF y, z, BpsDenominator

\* What compute_fee_split leaves to the author, whatever the cut.
LEMMA AuthorPart ==
    ASSUME NEW fee \in u64, NEW bps \in Bps
    PROVE  compute_fee_split(fee, bps).author
             >= fee - (fee * MAX_FEE_CUT_BPS) \div BpsDenominator
  <1>1. bps \in 0..BpsDenominator /\ MAX_FEE_CUT_BPS \in Nat /\ bps \in Nat
        /\ bps <= MAX_FEE_CUT_BPS /\ MAX_FEE_CUT_BPS \in 0..BpsDenominator
    <2>1. MAX_FEE_CUT_BPS \in 0..BpsDenominator
      BY AccountsAssumption
    <2>2. BpsDenominator \in Nat
      BY DEF BpsDenominator
    <2> QED
      BY <2>1, <2>2 DEF Bps
  <1>2. fee \in Nat
    BY LedgerAssumption DEF u64
  <1> DEFINE split == compute_fee_split(fee, bps)
             part  == (fee * bps) \div BpsDenominator
             most  == (fee * MAX_FEE_CUT_BPS) \div BpsDenominator
  <1>3. split.platform = part /\ split.author \in Nat /\ split.platform + split.author = fee
    BY <1>1, SplitExact
  <1>4. part <= most /\ part \in Nat /\ most \in Nat
    BY <1>1, <1>2, PartGrows, PartBound
  <1> HIDE DEF split, part, most
  <1>5. split.author >= fee - most
    BY <1>2, <1>3, <1>4
  <1> QED
    BY <1>5 DEF split, most

\* What the author's shard gains in a post, a like or a purchase.
LEMMA AuthorGain ==
    ASSUME TypeOK, NEW w, NEW s, NEW a \in Addr, NEW x, NEW y \in Int, NEW e, NEW size,
           Paid(w, s, a, x, y, e, size)
    PROVE  lamports'[a] - Greater(lamports[a], minimum_balance(0)) = y
  <1>1. lamports[a] \in Int /\ minimum_balance(0) \in Int
    BY BalancesAreLedger, RentTypes DEF Ledgers
  <1>2. Greater(lamports[a], minimum_balance(0)) \in Int
    BY <1>1, ArithmeticTypes
  <1> QED
    BY <1>2 DEF Paid, Funded

\* The share of a fee that must reach the author's shard a in this step.
Earns(a, fee) ==
    lamports'[a] - Greater(lamports[a], minimum_balance(0))
        >= fee - (fee * MAX_FEE_CUT_BPS) \div BpsDenominator

LEMMA SplitEarns ==
    ASSUME TypeOK, NEW fee \in u64, NEW bps \in Bps, NEW w, NEW s, NEW a \in Addr, NEW x,
           NEW e, NEW size, Paid(w, s, a, x, compute_fee_split(fee, bps).author, e, size)
    PROVE  Earns(a, fee)
  <1> DEFINE y == compute_fee_split(fee, bps).author
  <1>1. y \in Int
    BY SplitExact, PriceTypes
  <1>2. y >= fee - (fee * MAX_FEE_CUT_BPS) \div BpsDenominator
    BY AuthorPart
  <1>3. Paid(w, s, a, x, y, e, size)
    OBVIOUS
  <1> HIDE DEF y
  <1>4. lamports'[a] - Greater(lamports[a], minimum_balance(0)) = y
    BY <1>1, <1>3, AuthorGain
  <1> QED
    BY <1>2, <1>4 DEF Earns

LEMMA RequestEarns ==
    ASSUME TypeOK, Rent, NEW w \in Wallets, NEW t \in Threads, NEW k \in TreasuryIdx,
           NEW j \in AuthorIdx, RequestAccess(w, t, k, j)
    PROVE  Earns(derive_author_fee_pda(t, j), access[t].entry_fee)
  <1>1. access[t].entry_fee \in u64 /\ settings.entry_cut_bps \in Bps
    BY PriceTypes DEF RequestAccess
  <1>2. derive_author_fee_pda(t, j) \in Addr
    BY FeeAddresses DEF RequestAccess
  <1> QED
    BY <1>1, <1>2, RequestFlow, SplitEarns

LEMMA FillEarns ==
    ASSUME TypeOK, Rent, NEW w \in Wallets, NEW t \in Threads, NEW body \in BodyInputs,
           NEW c \in CandidateInputs, NEW k \in TreasuryIdx, NEW j \in AuthorIdx,
           NEW m \in MaxFeeInputs, FillSlot(w, t, body, c, k, j, m), ~fee_exempt(w, t)
    PROVE  Earns(derive_author_fee_pda(t, j), thread[t].message_fee)
  <1>1. thread[t].message_fee \in u64 /\ settings.author_fee_cut_bps \in Bps
    BY PriceTypes DEF FillSlot, load_thread
  <1>2. derive_author_fee_pda(t, j) \in Addr
    BY FeeAddresses DEF FillSlot
  <1>3. MessageFeeDue(w, t) = thread[t].message_fee
    BY DEF MessageFeeDue
  <1>4. PICK id \in ContentIds :
          Paid(w, derive_treasury_shard_pda(k), derive_author_fee_pda(t, j),
               MessageBaseFee(Len(body))
                 + compute_fee_split(thread[t].message_fee, settings.author_fee_cut_bps).platform,
               compute_fee_split(thread[t].message_fee, settings.author_fee_cut_bps).author,
               derive_content_pda(id[1], id[2], id[3]), ContentNode_size(Len(body)))
    BY <1>3, FillFlow
  <1> QED
    BY <1>1, <1>2, <1>4, SplitEarns

LEMMA LikeEarns ==
    ASSUME TypeOK, Rent, NEW w \in Wallets, NEW t \in Threads, NEW seq \in AllocSeqs,
           NEW slot, NEW k \in TreasuryIdx, NEW j \in AuthorIdx, NEW m \in MaxFeeInputs,
           LikeContent(w, t, seq, slot, k, j, m), w # content[<<t, seq, slot>>].author
    PROVE  Earns(derive_author_fee_pda(t, j), thread[t].like_fee)
  <1> DEFINE fee == thread[t].like_fee
             s   == derive_treasury_shard_pda(k)
             a   == derive_author_fee_pda(t, j)
             due == LikeFeeDue(w, t, seq, slot)
  <1>1. fee \in u64 /\ settings.like_cut_bps \in Bps
    BY PriceTypes DEF LikeContent, load_thread
  <1>2. a \in Addr
    BY FeeAddresses DEF LikeContent
  <1>3. Paid(w, s, a, due.platform, due.author, derive_likes_pda(t, seq), AllocLikes_size)
        /\ due.author \in Nat
    BY LikeFlow
  <1>4. CASE fee > 0
    <2>1. due = compute_fee_split(fee, settings.like_cut_bps)
      BY <1>4 DEF LikeFeeDue
    <2> HIDE DEF fee, a, s, due
    <2>2. Earns(a, fee)
      BY <1>1, <1>2, <1>3, <2>1, SplitEarns
    <2> QED
      BY <2>2 DEF fee, a
  <1>5. CASE fee = 0
    <2>1. due.author = 0
      BY <1>5 DEF LikeFeeDue
    <2>2. lamports'[a] - Greater(lamports[a], minimum_balance(0)) = 0
      <3> HIDE DEF a, s, due
      <3>1. lamports'[a] = Greater(lamports[a], minimum_balance(0)) + 0
        BY <1>3, <2>1 DEF Paid, Funded
      <3>2. Greater(lamports[a], minimum_balance(0)) \in Int
        BY <1>2, BalancesAreLedger, RentTypes, ArithmeticTypes DEF Ledgers
      <3> QED
        BY <3>1, <3>2
    <2>3. fee - (fee * MAX_FEE_CUT_BPS) \div BpsDenominator = 0
      <3>1. MAX_FEE_CUT_BPS \in 0..BpsDenominator
        BY AccountsAssumption
      <3>2. MAX_FEE_CUT_BPS \in Nat
        BY <3>1 DEF BpsDenominator
      <3> QED
        BY <1>5, <3>2 DEF BpsDenominator
    <2> QED
      BY <2>2, <2>3 DEF Earns
  <1>6. fee > 0 \/ fee = 0
    BY <1>1, LedgerAssumption DEF u64
  <1> QED
    BY <1>4, <1>5, <1>6

\* Whatever the platform has set, the author keeps the part of every entry,
\* message and like fee beyond MAX_FEE_CUT_BPS (AuthorShareKept of the pricing
\* and entry runs): update_platform_setting caps all cuts, and
\* transfer_fee_split pays what compute_fee_split leaves.
THEOREM AuthorShareCorrect == Spec => AuthorShareKept
  <1> DEFINE Share(w, t, k, j) ==
        LET shard == derive_author_fee_pda(t, j)
            earns(fee) == lamports'[shard] - Greater(lamports[shard], minimum_balance(0))
                            >= fee - (fee * MAX_FEE_CUT_BPS) \div BpsDenominator
        IN  /\ RequestAccess(w, t, k, j) => earns(access[t].entry_fee)
            /\ \A m \in MaxFeeInputs :
                 /\ \A body \in BodyInputs, c \in CandidateInputs :
                      FillSlot(w, t, body, c, k, j, m) /\ ~fee_exempt(w, t)
                          => earns(thread[t].message_fee)
                 /\ \A seq \in AllocSeqs, slot \in Slots :
                      LikeContent(w, t, seq, slot, k, j, m)
                        /\ w # content[<<t, seq, slot>>].author
                          => earns(thread[t].like_fee)
  <1>1. ASSUME TypeOK, Rent, NEW w \in Wallets, NEW t \in Threads, NEW k \in TreasuryIdx,
               NEW j \in AuthorIdx
        PROVE  Share(w, t, k, j)
    <2> DEFINE a == derive_author_fee_pda(t, j)
    <2>1. RequestAccess(w, t, k, j) => Earns(a, access[t].entry_fee)
      BY <1>1, RequestEarns
    <2>2. \A m \in MaxFeeInputs, body \in BodyInputs, c \in CandidateInputs :
             FillSlot(w, t, body, c, k, j, m) /\ ~fee_exempt(w, t)
                 => Earns(a, thread[t].message_fee)
      BY <1>1, FillEarns
    <2>3. \A m \in MaxFeeInputs, seq \in AllocSeqs, slot \in Slots :
             LikeContent(w, t, seq, slot, k, j, m) /\ w # content[<<t, seq, slot>>].author
                 => Earns(a, thread[t].like_fee)
      BY <1>1, LikeEarns
    <2> QED
      BY <2>1, <2>2, <2>3, Zenon DEF Earns
  <1>2. TypeOK /\ Rent =>
           [\A w \in Wallets, t \in Threads, k \in TreasuryIdx, j \in AuthorIdx :
               Share(w, t, k, j)]_vars
    BY <1>1
  <1> QED
    BY <1>2, TypeCorrect, RentInvariant, PTL DEF AuthorShareKept

(***************************************************************************)
(* The cap on fees.                                                        *)
(***************************************************************************)

\* An instruction pays at most the rent of the shards it creates: an owned
\* shard misses none of its own.
LEMMA NewShards ==
    ASSUME TypeOK, Rent, NEW s \in FeeShards, NEW a \in FeeShards, s # a,
           shards' = shards_initialized({s, a})
    PROVE  /\ Cardinality(shards' \ shards) \in Nat
           /\ Missing(lamports, s, 0) \in Nat /\ Missing(lamports, a, 0) \in Nat
           /\ Missing(lamports, s, 0) + Missing(lamports, a, 0)
                 <= minimum_balance(0) * Cardinality(shards' \ shards)
  <1> DEFINE new  == shards' \ shards
             rent == minimum_balance(0)
  <1>1. rent \in Nat
    BY RentTypes
  <1>2. \A b \in {s, a} : /\ Missing(lamports, b, 0) \in Nat
                          /\ Missing(lamports, b, 0) <= rent
                          /\ b \in shards => Missing(lamports, b, 0) = 0
    <2> SUFFICES ASSUME NEW b \in {s, a}
                 PROVE  /\ Missing(lamports, b, 0) \in Nat
                        /\ Missing(lamports, b, 0) <= rent
                        /\ b \in shards => Missing(lamports, b, 0) = 0
      OBVIOUS
    <2>1. b \in Addr
      BY PdaTypes, KeysApart
    <2>2. lamports[b] >= 0
      BY <2>1, LedgerAssumption DEF TypeOK, u64
    <2>3. b \in shards => lamports[b] >= minimum_balance(0)
      BY DEF Rent, ShardsRent
    <2>4. lamports \in Ledgers
      BY BalancesAreLedger
    <2>5. lamports[b] \in Int
      BY <2>1, <2>4 DEF Ledgers
    <2> QED
      BY <2>1, <2>2, <2>3, <2>4, <2>5, MissingTypes
  <1>3. new = {x \in {s, a} : x \notin shards}
    BY DEF shards_initialized
  <1>4. Cardinality({}) = 0 /\ IsFiniteSet({})
    BY FS_EmptySet
  <1>5. \A x : Cardinality({x}) = 1 /\ IsFiniteSet({x})
    BY FS_Singleton
  <1>6. Cardinality({s, a}) = 2
    <2>1. {s, a} = {s} \cup {a} /\ a \notin {s}
      OBVIOUS
    <2>2. Cardinality({s} \cup {a}) = Cardinality({s}) + 1
      BY <1>5, <2>1, FS_AddElement
    <2> QED
      BY <1>5, <2>1, <2>2
  <1> HIDE DEF rent
  <1>7. CASE s \in shards /\ a \in shards
    <2>1. new = {}
      BY <1>3, <1>7
    <2> QED
      BY <1>1, <1>2, <1>4, <1>7, <2>1 DEF rent
  <1>8. CASE s \in shards /\ a \notin shards
    <2>1. new = {a}
      BY <1>3, <1>8
    <2>2. Cardinality(new) = 1
      BY <1>5, <2>1
    <2> QED
      BY <1>1, <1>2, <1>8, <2>2 DEF rent
  <1>9. CASE s \notin shards /\ a \in shards
    <2>1. new = {s}
      BY <1>3, <1>9
    <2>2. Cardinality(new) = 1
      BY <1>5, <2>1
    <2> QED
      BY <1>1, <1>2, <1>9, <2>2 DEF rent
  <1>10. CASE s \notin shards /\ a \notin shards
    <2>1. new = {s, a}
      BY <1>3, <1>10
    <2>2. Cardinality(new) = 2
      BY <1>6, <2>1
    <2> QED
      BY <1>1, <1>2, <1>10, <2>2 DEF rent
  <1> QED
    BY <1>7, <1>8, <1>9, <1>10

\* What a post, a like or a purchase costs its signer.
LEMMA OutlayBound ==
    ASSUME TypeOK, Rent, NEW w \in Wallets, NEW s \in FeeShards, NEW a \in FeeShards, s # a,
           NEW x \in Nat, NEW y \in Nat, NEW m \in Nat, x + y <= m,
           NEW e \in Addr, NEW size \in Nat, Paid(w, s, a, x, y, e, size),
           shards' = shards_initialized({s, a})
    PROVE  /\ lamports[w] - lamports'[w]
                <= m + minimum_balance(0) * Cardinality(shards' \ shards)
                     + Missing(lamports, e, size)
           /\ Missing(lamports, e, size) \in Nat
           /\ Missing(lamports, e, size) <= minimum_balance(size)
           /\ m + minimum_balance(0) * Cardinality(shards' \ shards) \in Nat
  <1> DEFINE ms   == Missing(lamports, s, 0)
             ma   == Missing(lamports, a, 0)
             me   == Missing(lamports, e, size)
             cost == minimum_balance(0) * Cardinality(shards' \ shards)
  <1>1. ms \in Nat /\ ma \in Nat /\ ms + ma <= cost /\ cost \in Nat
    <2>1. Cardinality(shards' \ shards) \in Nat /\ minimum_balance(0) \in Nat
      BY NewShards, RentTypes
    <2>2. cost \in Nat
      BY <2>1
    <2> QED
      BY <2>2, NewShards
  <1>2. lamports \in Ledgers /\ w \in Addr
    BY BalancesAreLedger, KeysApart
  <1>3. lamports[w] \in Int /\ lamports[e] \in Int /\ lamports[e] >= 0
    BY <1>2, LedgerAssumption DEF TypeOK, u64, Ledgers
  <1>4. me \in Nat /\ me <= minimum_balance(size)
    BY <1>2, <1>3, MissingTypes
  <1>5. lamports'[w] = lamports[w] - (x + y + ms + ma + me)
    BY DEF Paid
  <1> HIDE DEF ms, ma, me, cost
  <1>6. lamports[w] - lamports'[w] <= m + cost + me /\ m + cost \in Nat
    BY <1>1, <1>3, <1>4, <1>5
  <1> QED
    BY <1>4, <1>6 DEF me, cost

LEMMA FillCap ==
    ASSUME TypeOK, Rent, NEW w \in Wallets, NEW t \in Threads, NEW body \in BodyInputs,
           NEW c \in CandidateInputs, NEW k \in TreasuryIdx, NEW j \in AuthorIdx,
           NEW m \in MaxFeeInputs, FillSlot(w, t, body, c, k, j, m)
    PROVE  lamports[w] - lamports'[w]
             <= m + minimum_balance(0) * Cardinality(shards' \ shards)
                  + minimum_balance(ContentNode_size(Len(body)))
  <1> DEFINE s     == derive_treasury_shard_pda(k)
             a     == derive_author_fee_pda(t, j)
             split == compute_fee_split(MessageFeeDue(w, t), settings.author_fee_cut_bps)
             base  == MessageBaseFee(Len(body))
             size  == ContentNode_size(Len(body))
             x     == base + split.platform
             y     == split.author
  <1>1. PICK id \in ContentIds :
           Paid(w, s, a, x, y, derive_content_pda(id[1], id[2], id[3]), size)
    BY FillFlow
  <1>2. base \in Nat /\ size \in Nat /\ MessageFeeDue(w, t) \in u64
        /\ base + MessageFeeDue(w, t) <= m
    BY FillFlow
  <1>3. m \in Nat
    BY InputAssumption, LedgerAssumption DEF u64
  <1>4. settings.author_fee_cut_bps \in 0..BpsDenominator
    BY PriceTypes DEF FillSlot
  <1>5. split.platform \in Nat /\ split.author \in Nat
        /\ split.platform + split.author = MessageFeeDue(w, t)
    BY <1>2, <1>4, SplitExact
  <1>6. shards' = shards_initialized({s, a}) /\ validate_fee_shards(k, j)
    BY DEF FillSlot
  <1>7. s \in FeeShards /\ a \in FeeShards /\ s # a
    BY <1>6, FeeAddresses
  <1> DEFINE e == derive_content_pda(id[1], id[2], id[3])
  <1>8. e \in Addr
    BY PdaTypes, KeysApart
  <1>9. x \in Nat /\ y \in Nat /\ x + y <= m
    <2> HIDE DEF split, base
    <2> QED
      BY <1>2, <1>3, <1>5
  <1> HIDE DEF s, a, split, base, size, x, y, e
  <1>10. Paid(w, s, a, x, y, e, size)
    BY <1>1 DEF e
  <1>11. /\ lamports[w] - lamports'[w]
              <= m + minimum_balance(0) * Cardinality(shards' \ shards)
                   + Missing(lamports, e, size)
         /\ Missing(lamports, e, size) \in Nat
         /\ Missing(lamports, e, size) <= minimum_balance(size)
         /\ m + minimum_balance(0) * Cardinality(shards' \ shards) \in Nat
    BY <1>2, <1>3, <1>6, <1>7, <1>8, <1>9, <1>10, OutlayBound
  <1> DEFINE cap == m + minimum_balance(0) * Cardinality(shards' \ shards)
             me  == Missing(lamports, e, size)
             out == lamports[w] - lamports'[w]
             min == minimum_balance(size)
  <1>12. out \in Int /\ min \in Nat
    <2>1. lamports' \in [Addr -> u64]
      BY DEF FillSlot, Commit, Accepted
    <2>2. lamports[w] \in Int /\ lamports'[w] \in Int
      BY <2>1, KeysApart, LedgerAssumption DEF TypeOK, u64
    <2> QED
      BY <1>2, <2>2, RentTypes
  <1>13. out <= cap + me /\ me \in Nat /\ me <= min /\ cap \in Nat
    BY <1>11
  <1> HIDE DEF cap, me, out, min
  <1>14. out <= cap + min
    BY <1>12, <1>13
  <1> QED
    BY <1>14 DEF cap, out, min, size

LEMMA LikeCap ==
    ASSUME TypeOK, Rent, NEW w \in Wallets, NEW t \in Threads, NEW seq \in AllocSeqs,
           NEW slot, NEW k \in TreasuryIdx, NEW j \in AuthorIdx, NEW m \in MaxFeeInputs,
           LikeContent(w, t, seq, slot, k, j, m)
    PROVE  lamports[w] - lamports'[w]
             <= m + minimum_balance(0) * Cardinality(shards' \ shards)
                  + IF likes[<<t, seq>>] = NULL THEN minimum_balance(AllocLikes_size) ELSE 0
  <1> DEFINE s     == derive_treasury_shard_pda(k)
             a     == derive_author_fee_pda(t, j)
             split == LikeFeeDue(w, t, seq, slot)
             x     == split.platform
             y     == split.author
             e     == derive_likes_pda(t, seq)
             size  == AllocLikes_size
  <1>1. Paid(w, s, a, x, y, e, size) /\ x \in Nat /\ y \in Nat /\ x + y <= m
    BY LikeFlow
  <1>2. size \in Nat
    BY SizeTypes
  <1>3. m \in Nat
    BY InputAssumption, LedgerAssumption DEF u64
  <1>4. shards' = shards_initialized({s, a}) /\ validate_fee_shards(k, j)
    BY DEF LikeContent
  <1>5. s \in FeeShards /\ a \in FeeShards /\ s # a
    BY <1>4, FeeAddresses
  <1>6. e \in Addr
    BY PdaTypes, KeysApart
  <1>7. likes[<<t, seq>>] # NULL => Missing(lamports, e, size) = 0
    <2>1. <<t, seq>> \in Pages
      BY DEF Pages
    <2>2. likes[<<t, seq>>] # NULL => lamports[e] >= minimum_balance(size)
      BY <2>1 DEF Rent, BoardRent, LikesRent
    <2> QED
      BY <1>2, <1>6, <2>2, BalancesAreLedger, MissingTypes
  <1> HIDE DEF s, a, split, x, y, e, size
  <1>8. /\ lamports[w] - lamports'[w]
              <= m + minimum_balance(0) * Cardinality(shards' \ shards)
                   + Missing(lamports, e, size)
        /\ Missing(lamports, e, size) \in Nat
        /\ Missing(lamports, e, size) <= minimum_balance(size)
        /\ m + minimum_balance(0) * Cardinality(shards' \ shards) \in Nat
    BY <1>1, <1>2, <1>3, <1>4, <1>5, <1>6, OutlayBound
  <1> DEFINE cap == m + minimum_balance(0) * Cardinality(shards' \ shards)
             me  == Missing(lamports, e, size)
             out == lamports[w] - lamports'[w]
             min == IF likes[<<t, seq>>] = NULL THEN minimum_balance(size) ELSE 0
  <1>9. out \in Int /\ min \in Nat
    <2>1. lamports' \in [Addr -> u64]
      BY DEF LikeContent, Commit, Accepted
    <2>2. lamports[w] \in Int /\ lamports'[w] \in Int
      BY <2>1, KeysApart, LedgerAssumption DEF TypeOK, u64
    <2> QED
      BY <1>2, <2>2, RentTypes
  <1>10. out <= cap + me /\ me \in Nat /\ me <= min /\ cap \in Nat
    BY <1>7, <1>8
  <1> HIDE DEF cap, me, out, min
  <1>11. out <= cap + min
    BY <1>9, <1>10
  <1> QED
    BY <1>11 DEF cap, out, min, size

\* Neither a post nor a like costs more than the cap the signer set and the
\* rent of the accounts it creates (FeeWithinCap of the pricing run), whatever
\* fees, cuts and shards have become since the signature: fill_slot.rs and
\* like_content.rs compare the fee with max_fee, and the shards pay no rent
\* twice because an owned shard is rent-exempt.
THEOREM FeeCapCorrect == Spec => FeeWithinCap
  <1> DEFINE Capped(w, t, k, j, m) ==
        LET outlay   == lamports[w] - lamports'[w]
            newShard == minimum_balance(0) * Cardinality(shards' \ shards)
        IN  /\ \A body \in BodyInputs, c \in CandidateInputs :
                 FillSlot(w, t, body, c, k, j, m) =>
                     outlay <= m + newShard + minimum_balance(ContentNode_size(Len(body)))
            /\ \A seq \in AllocSeqs, slot \in Slots :
                 LikeContent(w, t, seq, slot, k, j, m) =>
                     outlay <= m + newShard + IF likes[<<t, seq>>] = NULL
                                              THEN minimum_balance(AllocLikes_size) ELSE 0
  <1>1. ASSUME TypeOK, Rent, NEW w \in Wallets, NEW t \in Threads, NEW k \in TreasuryIdx,
               NEW j \in AuthorIdx, NEW m \in MaxFeeInputs
        PROVE  Capped(w, t, k, j, m)
    <2>1. ASSUME NEW body \in BodyInputs, NEW c \in CandidateInputs,
                 FillSlot(w, t, body, c, k, j, m)
          PROVE  lamports[w] - lamports'[w]
                   <= m + minimum_balance(0) * Cardinality(shards' \ shards)
                        + minimum_balance(ContentNode_size(Len(body)))
      BY <1>1, <2>1, FillCap
    <2>2. ASSUME NEW seq \in AllocSeqs, NEW slot \in Slots,
                 LikeContent(w, t, seq, slot, k, j, m)
          PROVE  lamports[w] - lamports'[w]
                   <= m + minimum_balance(0) * Cardinality(shards' \ shards)
                        + IF likes[<<t, seq>>] = NULL THEN minimum_balance(AllocLikes_size)
                          ELSE 0
      BY <1>1, <2>2, LikeCap
    <2> QED
      BY <2>1, <2>2, Zenon
  <1>2. TypeOK /\ Rent =>
           [\A w \in Wallets, t \in Threads, k \in TreasuryIdx, j \in AuthorIdx,
               m \in MaxFeeInputs : Capped(w, t, k, j, m)]_vars
    BY <1>1
  <1> QED
    BY <1>2, TypeCorrect, RentInvariant, PTL DEF FeeWithinCap

(***************************************************************************)
(* The fee vaults.                                                         *)
(***************************************************************************)

\* In this step no fee shard loses lamports, and only owned ones gain some.
VaultsKept ==
    \A s \in FeeShards : /\ lamports'[s] >= lamports[s]
                         /\ lamports'[s] > lamports[s] => s \in shards'

\* The address of a fee shard.
LEMMA ShardAddress ==
    /\ \A s \in FeeShards : s \in Addr /\ s \notin Wallets
    /\ TypeOK => \A s \in FeeShards : lamports[s] \in Int
  <1>1. \A s \in FeeShards : s \in Addr /\ s \notin Wallets
    BY PdaTypes, KeysApart
  <1> QED
    BY <1>1, BalancesAreLedger DEF Ledgers

LEMMA StillVaults ==
    ASSUME TypeOK, UNCHANGED lamports
    PROVE  VaultsKept
  BY ShardAddress DEF VaultsKept

LEMMA TouchesVaults ==
    ASSUME TypeOK, NEW w \in Wallets, NEW T, Touches(lamports, lamports', w, T),
           \A s \in T \cap FeeShards : s \in shards' \/ lamports'[s] = lamports[s]
    PROVE  VaultsKept
  <1> SUFFICES ASSUME NEW s \in FeeShards
               PROVE  lamports'[s] >= lamports[s] /\ (lamports'[s] > lamports[s] => s \in shards')
    BY DEF VaultsKept
  <1>1. s \in Addr \ {w} /\ lamports[s] \in Int
    BY ShardAddress
  <1>2. CASE s \in T
    BY <1>1, <1>2, TouchesRises
  <1>3. CASE s \notin T
    <2>1. lamports'[s] = lamports[s]
      BY <1>1, <1>3 DEF Touches
    <2> QED
      BY <1>1, <2>1
  <1> QED
    BY <1>2, <1>3

LEMMA PaidVaults ==
    ASSUME TypeOK, NEW w \in Wallets, NEW s \in FeeShards, NEW a \in FeeShards,
           NEW x \in Nat, NEW y \in Nat, NEW e \in Addr, e \notin Wallets \cup FeeShards,
           NEW size \in Nat, Paid(w, s, a, x, y, e, size), shards' = shards_initialized({s, a})
    PROVE  VaultsKept
  <1> SUFFICES ASSUME NEW b \in FeeShards
               PROVE  lamports'[b] >= lamports[b] /\ (lamports'[b] > lamports[b] => b \in shards')
    BY DEF VaultsKept
  <1>1. b \in Addr \ {w, e} /\ lamports[b] \in Int
    BY ShardAddress
  <1>2. CASE b \in {s, a}
    <2>1. b \in shards'
      BY <1>2 DEF shards_initialized
    <2>2. lamports'[b] >= lamports[b]
      BY <1>1, PaidKeeps
    <2> QED
      BY <2>1, <2>2
  <1>3. CASE b \notin {s, a}
    <2>1. lamports'[b] = lamports[b]
      BY <1>1, <1>3 DEF Paid
    <2> QED
      BY <1>1, <2>1
  <1> QED
    BY <1>2, <1>3

LEMMA CloseVaults ==
    ASSUME TypeOK, NEW c \in Pdas, c \notin FeeShards, NEW w \in Wallets,
           lamports' = close_program_account(lamports, c, w)
    PROVE  VaultsKept
  <1>1. \A s \in FeeShards : lamports'[s] = lamports[s]
    BY ShardAddress, CloseRises
  <1> QED
    BY <1>1, ShardAddress DEF VaultsKept

LEMMA CreateVaults ==
    ASSUME TypeOK, NEW w \in Wallets, NEW e \in Addr, e \notin Wallets \cup FeeShards,
           NEW size \in Nat, lamports' = create_pda_account(lamports, w, e, size)
    PROVE  VaultsKept
  <1>1. w \in Addr /\ w # e /\ lamports \in Ledgers
    BY KeysApart, BalancesAreLedger
  <1>2. Touches(lamports, lamports', w, {e})
    BY <1>1, CreateTouches
  <1> QED
    BY <1>2, TouchesVaults

\* The instructions that create accounts and collect base fees.
LEMMA SetupVaults == TypeOK /\ Rent /\ SetupNext => VaultsKept
  <1>1. ASSUME TypeOK, NEW w \in Wallets, NEW tr \in TreasuryInputs, InitSettings(w, tr)
        PROVE  VaultsKept
    <2>1. lamports' = create_pda_account(lamports, w, derive_settings_pda, ProgramSettings_size)
      BY <1>1 DEF InitSettings, Commit
    <2>2. derive_settings_pda \in Addr /\ ProgramSettings_size \in Nat
          /\ derive_settings_pda \notin Wallets \cup FeeShards
      BY PdaTypes, KeysApart, SizeTypes, OthersApart
    <2> QED
      BY <1>1, <2>1, <2>2, CreateVaults
  <1>2. ASSUME TypeOK, Rent, NEW w \in Wallets, NEW t \in Threads, NEW fee \in FeeInputs,
               NEW k \in TreasuryIdx, NEW title \in TitleInputs,
               CreateRootAlloc(w, t, fee, k, title)
        PROVE  VaultsKept
    <2> DEFINE s == derive_treasury_shard_pda(k)
               e == derive_alloc_pda(t, 0)
    <2>1. Touches(lamports, lamports', w, {s, t, e})
      BY <1>2, OpenFlow
    <2>2. shards' = shards_initialized({s})
      BY <1>2 DEF CreateRootAlloc
    <2>3. t \notin FeeShards /\ e \notin FeeShards
      <3>1. e[1] = "alloc"
        BY OtherTags
      <3> QED
        BY <3>1, OthersApart, ShardTags
    <2>4. \A b \in {s, t, e} \cap FeeShards : b \in shards'
      BY <2>2, <2>3 DEF shards_initialized
    <2> HIDE DEF s, e
    <2> QED
      BY <1>2, <2>1, <2>4, TouchesVaults
  <1> QED
    BY <1>1, <1>2 DEF SetupNext

LEMMA AppendVaults ==
    ASSUME TypeOK, Rent, NEW w \in Wallets, NEW id \in ContentIds, NEW chunk \in BodyInputs,
           NEW k \in TreasuryIdx, NEW j \in AuthorIdx, AppendContent(w, id, chunk, k, j)
    PROVE  VaultsKept
  <1> DEFINE s == derive_treasury_shard_pda(k)
             c == derive_content_pda(id[1], id[2], id[3])
  <1>1. /\ Touches(lamports, lamports', w, {s, c})
        /\ shards' = shards_initialized({s}) \/ lamports'[s] = lamports[s]
    BY AppendFlow
  <1>2. c \notin FeeShards
    BY OthersApart
  <1> HIDE DEF c, s
  <1>3. \A b \in {s, c} \cap FeeShards : b \in shards' \/ lamports'[b] = lamports[b]
    BY <1>1, <1>2 DEF shards_initialized
  <1> QED
    BY <1>1, <1>3, TouchesVaults

\* The instructions that collect message, like and entry fees.
LEMMA FillVaults ==
    ASSUME TypeOK, Rent, NEW w \in Wallets, NEW t \in Threads, NEW body \in BodyInputs,
           NEW c \in CandidateInputs, NEW k \in TreasuryIdx, NEW j \in AuthorIdx,
           NEW m \in MaxFeeInputs, FillSlot(w, t, body, c, k, j, m)
    PROVE  VaultsKept
  <1> DEFINE s     == derive_treasury_shard_pda(k)
             a     == derive_author_fee_pda(t, j)
             split == compute_fee_split(MessageFeeDue(w, t), settings.author_fee_cut_bps)
             base  == MessageBaseFee(Len(body))
             size  == ContentNode_size(Len(body))
  <1>1. PICK id \in ContentIds :
           Paid(w, s, a, base + split.platform, split.author,
                derive_content_pda(id[1], id[2], id[3]), size)
    BY FillFlow
  <1>2. base \in Nat /\ size \in Nat /\ MessageFeeDue(w, t) \in u64
    BY FillFlow
  <1>3. settings.author_fee_cut_bps \in 0..BpsDenominator
    BY PriceTypes DEF FillSlot
  <1>4. split.platform \in Nat /\ split.author \in Nat
    BY <1>2, <1>3, SplitExact
  <1>5. shards' = shards_initialized({s, a}) /\ validate_fee_shards(k, j)
    BY DEF FillSlot
  <1>6. s \in FeeShards /\ a \in FeeShards
    BY <1>5, FeeAddresses
  <1> DEFINE e == derive_content_pda(id[1], id[2], id[3])
  <1>7. e \in Addr /\ e \notin Wallets \cup FeeShards
    BY PdaTypes, KeysApart, OthersApart
  <1>8. base + split.platform \in Nat
    <2> HIDE DEF base, split
    <2> QED
      BY <1>2, <1>4
  <1> HIDE DEF s, a, split, base, size, e
  <1>9. Paid(w, s, a, base + split.platform, split.author, e, size)
    BY <1>1 DEF e
  <1> QED
    BY <1>2, <1>4, <1>5, <1>6, <1>7, <1>8, <1>9, PaidVaults

LEMMA LikeVaults ==
    ASSUME TypeOK, Rent, NEW w \in Wallets, NEW t \in Threads, NEW seq \in AllocSeqs,
           NEW slot, NEW k \in TreasuryIdx, NEW j \in AuthorIdx, NEW m \in MaxFeeInputs,
           LikeContent(w, t, seq, slot, k, j, m)
    PROVE  VaultsKept
  <1> DEFINE s     == derive_treasury_shard_pda(k)
             a     == derive_author_fee_pda(t, j)
             split == LikeFeeDue(w, t, seq, slot)
             e     == derive_likes_pda(t, seq)
  <1>1. /\ Paid(w, s, a, split.platform, split.author, e, AllocLikes_size)
        /\ split.platform \in Nat /\ split.author \in Nat
    BY LikeFlow
  <1>2. shards' = shards_initialized({s, a}) /\ validate_fee_shards(k, j)
    BY DEF LikeContent
  <1>3. s \in FeeShards /\ a \in FeeShards
    BY <1>2, FeeAddresses
  <1>4. e \in Addr /\ e \notin Wallets \cup FeeShards /\ AllocLikes_size \in Nat
    <2>1. e \in Pdas /\ e[1] = "likes"
      BY PdaTypes, OtherTags
    <2> QED
      BY <2>1, KeysApart, ShardTags, SizeTypes
  <1> HIDE DEF s, a, split, e
  <1> QED
    BY <1>1, <1>2, <1>3, <1>4, PaidVaults

LEMMA RequestVaults ==
    ASSUME TypeOK, Rent, NEW w \in Wallets, NEW t \in Threads, NEW k \in TreasuryIdx,
           NEW j \in AuthorIdx, RequestAccess(w, t, k, j)
    PROVE  VaultsKept
  <1> DEFINE s     == derive_treasury_shard_pda(k)
             a     == derive_author_fee_pda(t, j)
             split == compute_fee_split(access[t].entry_fee, settings.entry_cut_bps)
             e     == derive_access_entry_pda(t, w)
  <1>1. Paid(w, s, a, split.platform, split.author, e, AccessEntry_size)
    BY RequestFlow
  <1>2. split.platform \in Nat /\ split.author \in Nat
    <2>1. access[t].entry_fee \in u64 /\ settings.entry_cut_bps \in 0..BpsDenominator
      BY PriceTypes DEF RequestAccess
    <2> QED
      BY <2>1, SplitExact
  <1>3. shards' = shards_initialized({s, a}) /\ validate_fee_shards(k, j)
    BY DEF RequestAccess
  <1>4. s \in FeeShards /\ a \in FeeShards
    BY <1>3, FeeAddresses
  <1>5. e \in Addr /\ e \notin Wallets \cup FeeShards /\ AccessEntry_size \in Nat
    BY PdaTypes, KeysApart, OthersApart, SizeTypes
  <1> HIDE DEF s, a, split, e
  <1> QED
    BY <1>1, <1>2, <1>3, <1>4, <1>5, PaidVaults

\* The instructions on membership.
LEMMA MembershipVaults == TypeOK /\ Rent /\ MembershipNext => VaultsKept
  <1> SUFFICES ASSUME TypeOK, Rent, MembershipNext PROVE VaultsKept
    OBVIOUS
  <1>1. PICK w \in Wallets, t \in Threads :
           \/ \E on \in BOOLEAN, k \in TreasuryIdx : InitThreadAccess(w, t, on, k)
           \/ \E on \in BOOLEAN : SetThreadAccess(w, t, on)
           \/ \E fee \in FeeInputs : SetEntryFee(w, t, fee)
           \/ \E v \in Wallets, status \in Statuses :
                 \/ apply_access_entry_status(w, t, v, status)
                 \/ remove_access_entry(w, t, v, status)
           \/ \E k \in TreasuryIdx, j \in AuthorIdx : RequestAccess(w, t, k, j)
    BY DEF MembershipNext, Statuses, AddToWhitelist, AddToBlacklist, AddToFeeWhitelist,
       RemoveFromWhitelist, RemoveFromBlacklist, RemoveFromFeeWhitelist
  <1>2. ASSUME NEW on \in BOOLEAN, NEW k \in TreasuryIdx, InitThreadAccess(w, t, on, k)
        PROVE  VaultsKept
    <2> DEFINE s == derive_treasury_shard_pda(k)
               e == derive_access_pda(t)
    <2>1. Touches(lamports, lamports', w, {s, e})
      BY <1>2, InitAccessFlow
    <2>2. shards' = shards_initialized({s})
      BY <1>2 DEF InitThreadAccess
    <2>3. e \notin FeeShards
      BY OthersApart
    <2> HIDE DEF s, e
    <2>4. \A b \in {s, e} \cap FeeShards : b \in shards'
      BY <2>2, <2>3 DEF shards_initialized
    <2> QED
      BY <2>1, <2>4, TouchesVaults
  <1>3. ASSUME \/ \E on \in BOOLEAN : SetThreadAccess(w, t, on)
               \/ \E fee \in FeeInputs : SetEntryFee(w, t, fee)
        PROVE  VaultsKept
    BY <1>3, StillVaults DEF SetThreadAccess, SetEntryFee
  <1>4. ASSUME NEW v \in Wallets, NEW status \in Statuses,
               apply_access_entry_status(w, t, v, status)
        PROVE  VaultsKept
    <2> DEFINE e == derive_access_entry_pda(t, v)
    <2>1. e \in Addr /\ e \notin Wallets \cup FeeShards /\ AccessEntry_size \in Nat
      BY PdaTypes, KeysApart, OthersApart, SizeTypes
    <2>2. lamports' = IF entry[t][v] = NULL
                      THEN create_pda_account(lamports, w, e, AccessEntry_size) ELSE lamports
      BY <1>4 DEF apply_access_entry_status, set_access_entry_status, Commit
    <2> QED
      BY <2>1, <2>2, CreateVaults, StillVaults
  <1>5. ASSUME NEW v \in Wallets, NEW status \in Statuses, remove_access_entry(w, t, v, status)
        PROVE  VaultsKept
    <2>1. lamports' = close_program_account(lamports, derive_access_entry_pda(t, v), w)
      BY <1>5 DEF remove_access_entry, Commit
    <2>2. derive_access_entry_pda(t, v) \in Pdas /\ derive_access_entry_pda(t, v) \notin FeeShards
      BY PdaTypes, OthersApart
    <2> QED
      BY <2>1, <2>2, CloseVaults
  <1> QED
    BY <1>1, <1>2, <1>3, <1>4, <1>5, RequestVaults

\* The instructions on pages, deletions and follows.
LEMMA OtherVaults ==
    ASSUME TypeOK, Rent, PageNext \/ DeleteNext \/ FollowNext
    PROVE  VaultsKept
  <1>1. ASSUME NEW w \in Wallets, NEW t \in Threads, NEW seq \in AllocSeqs, PrepareAlloc(w, t, seq)
        PROVE  VaultsKept
    <2> DEFINE e == derive_alloc_pda(t, seq + 1)
    <2>1. lamports' = create_pda_account(lamports, w, e, AllocNode_size) /\ seq + 1 <= U32Max
      BY <1>1 DEF PrepareAlloc, Commit
    <2>2. seq + 1 \in AllocSeqs
      BY <2>1, AccountsAssumption DEF AllocSeqs
    <2>3. e \in Pdas /\ e[1] = "alloc"
      BY <2>2, PdaTypes, OtherTags
    <2>4. e \in Addr /\ e \notin Wallets \cup FeeShards /\ AllocNode_size \in Nat
      BY <2>3, KeysApart, ShardTags, SizeTypes
    <2> QED
      BY <2>1, <2>4, CreateVaults
  <1>2. ASSUME NEW w \in Wallets, NEW id \in ContentIds, NEW with_likes \in BOOLEAN,
               CloseAccount(w, id, with_likes)
        PROVE  VaultsKept
    <2>1. lamports' = close_program_account(lamports, derive_content_pda(id[1], id[2], id[3]), w)
      BY <1>2 DEF CloseAccount, Commit
    <2>2. /\ derive_content_pda(id[1], id[2], id[3]) \in Pdas
          /\ derive_content_pda(id[1], id[2], id[3]) \notin FeeShards
      BY PdaTypes, OthersApart
    <2> QED
      BY <2>1, <2>2, CloseVaults
  <1>3. ASSUME NEW w \in Wallets, NEW t \in Threads, Subscribe(w, t) PROVE VaultsKept
    <2> DEFINE r == derive_follow_registry_pda(w)
               f == derive_follower_shard_pda(t, follower_shard_index(w))
    <2>1. Touches(lamports, lamports', w, {r, f})
      BY <1>3, SubscribeFlow
    <2>2. r \notin FeeShards /\ f \notin FeeShards
      BY OtherTags, ShardTags
    <2> HIDE DEF r, f
    <2> QED
      BY <2>1, <2>2, TouchesVaults
  <1>4. ASSUME NEW w \in Wallets, NEW t \in Threads, Unsubscribe(w, t) PROVE VaultsKept
    <2> DEFINE r == derive_follow_registry_pda(w)
    <2>1. \A b \in Addr \ {r, w} : lamports'[b] = lamports[b]
      BY <1>4, UnsubscribeFlow
    <2>2. r \notin FeeShards
      BY OthersApart
    <2> HIDE DEF r
    <2>3. \A s \in FeeShards : lamports'[s] = lamports[s]
      BY <2>1, <2>2, ShardAddress
    <2> QED
      BY <2>3, ShardAddress DEF VaultsKept
  <1> QED
    BY <1>1, <1>2, <1>3, <1>4 DEF PageNext, DeleteNext, FollowNext

\* Only a sweep takes lamports from a fee shard, and only a sweep or a plain
\* transfer brings lamports to one the program does not own.
LEMMA NextVaults ==
    ASSUME TypeOK, Rent, Next, ~SweepNext, ~GiftNext
    PROVE  VaultsKept
  <1>1. CASE AdminNext \/ CutNext
    <2>1. settingsOnly
      BY <1>1 DEF AdminNext, CutNext, SetAdmin, SetTreasury, SetBaseFee, SetAuthorFeeCut,
         SetEntryCut, SetLikeCut
    <2> QED
      BY <2>1, StillVaults DEF settingsOnly
  <1>2. CASE PricingNext
    <2>1. threadOnly
      BY <1>2 DEF PricingNext, SetMessageFee, SetLikeFee
    <2> QED
      BY <2>1, StillVaults DEF threadOnly
  <1>3. CASE Tick
    BY <1>3, StillVaults DEF Tick
  <1>4. CASE PostNext
    BY <1>4, FillVaults DEF PostNext
  <1>5. CASE AppendNext
    BY <1>5, AppendVaults DEF AppendNext
  <1>6. CASE LikeNext
    BY <1>6, LikeVaults DEF LikeNext
  <1> QED
    BY <1>1, <1>2, <1>3, <1>4, <1>5, <1>6, SetupVaults, MembershipVaults, OtherVaults DEF Next

\* Where the lamports of a treasury shard, and of a channel's shards, may go.
TreasuryOutflow ==
    (\E s \in TreasuryShards : lamports'[s] < lamports[s]) =>
        \A a \in Addr \ (TreasuryShards \cup {settings.treasury}) : lamports'[a] = lamports[a]
AuthorOutflow(t) ==
    (\E s \in AuthorShards(t) : lamports'[s] < lamports[s]) =>
        \A a \in Addr \ (AuthorShards(t) \cup {thread[t].author}) : lamports'[a] = lamports[a]

LEMMA NoOutflow ==
    ASSUME TypeOK, TypeOK', \A s \in FeeShards : lamports'[s] >= lamports[s]
    PROVE  TreasuryOutflow /\ \A t \in Threads : AuthorOutflow(t)
  <1>1. \A s \in FeeShards : ~(lamports'[s] < lamports[s])
    <2>1. \A s \in FeeShards : lamports[s] \in Int /\ lamports'[s] \in Int
      BY ShardAddress, LedgerAssumption DEF TypeOK, u64
    <2> QED
      BY <2>1
  <1> QED
    BY <1>1, ShardSeeds DEF TreasuryOutflow, AuthorOutflow

\* process_sweep_treasury.
LEMMA SweepTreasuryOutflow ==
    ASSUME TypeOK, TypeOK', NEW idx \in SweepInputs, SweepTreasury(idx)
    PROVE  TreasuryOutflow /\ \A t \in Threads : AuthorOutflow(t)
  <1>1. /\ \A a \in Addr \ {settings.treasury} : lamports'[a] <= lamports[a]
        /\ \A a \in Addr :
             lamports'[a] < lamports[a] => a \in shards /\ \E k : a = derive_treasury_shard_pda(k)
    BY SweepTreasuryFlow
  <1>2. \A a \in Addr : lamports'[a] < lamports[a] => a \in TreasuryShards
    BY <1>1, ShardSeeds DEF TypeOK
  <1>3. \A a \in Addr : lamports[a] \in Int /\ lamports'[a] \in Int
    BY LedgerAssumption DEF TypeOK, u64
  <1>4. TreasuryOutflow
    BY <1>1, <1>2, <1>3 DEF TreasuryOutflow
  <1>5. ASSUME NEW t \in Threads PROVE AuthorOutflow(t)
    <2>1. ASSUME NEW s \in AuthorShards(t) PROVE ~(lamports'[s] < lamports[s])
      <3>1. s \in Addr /\ s \notin TreasuryShards
        BY <2>1, ShardSeeds, ShardAddress
      <3> QED
        BY <1>2, <3>1
    <2> QED
      BY <2>1 DEF AuthorOutflow
  <1> QED
    BY <1>4, <1>5

\* process_sweep_author_fees.
LEMMA SweepAuthorOutflow ==
    ASSUME TypeOK, TypeOK', NEW idx \in SweepInputs, NEW w \in Wallets, NEW t \in Threads,
           SweepAuthorFees(w, t, idx)
    PROVE  TreasuryOutflow /\ \A u \in Threads : AuthorOutflow(u)
  <1>1. /\ thread[t].author = w
        /\ \A a \in Addr \ {w} : lamports'[a] <= lamports[a]
        /\ \A a \in Addr :
             lamports'[a] < lamports[a] => a \in shards /\ \E k : a = derive_author_fee_pda(t, k)
    BY SweepAuthorFlow
  <1>2. \A a \in Addr : lamports'[a] < lamports[a] => a \in AuthorShards(t)
    BY <1>1, ShardSeeds DEF TypeOK
  <1>3. \A a \in Addr : lamports[a] \in Int /\ lamports'[a] \in Int
    BY LedgerAssumption DEF TypeOK, u64
  <1>4. TreasuryOutflow
    <2>1. ASSUME NEW s \in TreasuryShards PROVE ~(lamports'[s] < lamports[s])
      <3>1. s \in Addr /\ s \notin AuthorShards(t)
        BY <2>1, ShardSeeds, ShardAddress
      <3> QED
        BY <1>2, <3>1
    <2> QED
      BY <2>1 DEF TreasuryOutflow
  <1>5. ASSUME NEW u \in Threads PROVE AuthorOutflow(u)
    <2>1. CASE u = t
      BY <1>1, <1>2, <1>3, <2>1 DEF AuthorOutflow
    <2>2. CASE u # t
      <3>1. ASSUME NEW s \in AuthorShards(u) PROVE ~(lamports'[s] < lamports[s])
        <4>1. s \in Addr
          BY <3>1, ShardSeeds, ShardAddress
        <4>2. lamports'[s] < lamports[s] => \E k : s = derive_author_fee_pda(t, k)
          BY <1>1, <4>1
        <4> QED
          BY <2>2, <4>2, ShardSeeds
      <3> QED
        BY <3>1 DEF AuthorOutflow
    <2> QED
      BY <2>1, <2>2
  <1> QED
    BY <1>4, <1>5

\* A treasury shard is emptied only into the treasury of the settings and a
\* channel's shard only into its author's wallet, and such a step moves no
\* other balance (VaultOutflow of the vault run), for every list of indices,
\* repeated or not, and every treasury key, itself a shard or not.
THEOREM VaultCorrect == Spec => VaultOutflow
  <1>1. ASSUME TypeOK, TypeOK', Rent, Next
        PROVE  TreasuryOutflow /\ \A t \in Threads : AuthorOutflow(t)
    <2>1. CASE SweepNext
      BY <1>1, <2>1, SweepTreasuryOutflow, SweepAuthorOutflow DEF SweepNext
    <2>2. CASE GiftNext
      <3>1. \A s \in FeeShards : lamports'[s] >= lamports[s]
        BY <1>1, <2>2, GiftRises, ShardAddress DEF GiftNext
      <3> QED
        BY <1>1, <3>1, NoOutflow
    <2>3. CASE ~SweepNext /\ ~GiftNext
      BY <1>1, <2>3, NextVaults, NoOutflow DEF VaultsKept
    <2> QED
      BY <2>1, <2>2, <2>3
  <1>2. TypeOK /\ TypeOK' /\ Rent /\ [Next]_vars =>
          [/\ (\E s \in TreasuryShards : lamports'[s] < lamports[s]) =>
                \A a \in Addr \ (TreasuryShards \cup {settings.treasury}) :
                    lamports'[a] = lamports[a]
           /\ \A t \in Threads :
                (\E s \in AuthorShards(t) : lamports'[s] < lamports[s]) =>
                    \A a \in Addr \ (AuthorShards(t) \cup {thread[t].author}) :
                        lamports'[a] = lamports[a]]_vars
    BY <1>1 DEF TreasuryOutflow, AuthorOutflow
  <1> QED
    BY <1>2, TypeCorrect, RentInvariant, PTL DEF Spec, VaultOutflow

\* Fees reach only shards that a sweep can empty (FeesReachOwnedShards of the
\* vault run): ensure_shard_initialized runs before every collect_fee_to_shard.
THEOREM FeesReachCorrect == Spec => FeesReachOwnedShards
  <1> DEFINE Reaches ==
        \A s \in FeeShards :
            lamports'[s] > lamports[s] =>
                \/ s \in shards'
                \/ settings # NULL /\ s = settings.treasury
                \/ \E w \in Wallets, gift \in GiftInputs : SystemTransfer(w, gift[1], gift[2])
  <1>1. ASSUME TypeOK, TypeOK', Rent, Next PROVE Reaches
    <2> SUFFICES ASSUME NEW s \in FeeShards, lamports'[s] > lamports[s]
                 PROVE  \/ s \in shards'
                        \/ settings # NULL /\ s = settings.treasury
                        \/ \E w \in Wallets, gift \in GiftInputs :
                              SystemTransfer(w, gift[1], gift[2])
      OBVIOUS
    <2>1. s \in Addr /\ s \notin Wallets /\ lamports[s] \in Int /\ lamports'[s] \in Int
      BY <1>1, ShardAddress, LedgerAssumption DEF TypeOK, u64
    <2>2. ~(lamports'[s] <= lamports[s])
      BY <2>1
    <2>3. ASSUME NEW idx \in SweepInputs, SweepTreasury(idx)
          PROVE  settings # NULL /\ s = settings.treasury
      BY <1>1, <2>1, <2>2, <2>3, SweepTreasuryFlow
    <2>4. ASSUME NEW idx \in SweepInputs, NEW w \in Wallets, NEW t \in Threads,
                 SweepAuthorFees(w, t, idx)
          PROVE  FALSE
      BY <1>1, <2>1, <2>2, <2>4, SweepAuthorFlow
    <2>5. CASE SweepNext
      BY <2>3, <2>4, <2>5 DEF SweepNext
    <2>6. CASE GiftNext
      BY <2>6 DEF GiftNext
    <2>7. CASE ~SweepNext /\ ~GiftNext
      BY <1>1, <2>7, NextVaults DEF VaultsKept
    <2> QED
      BY <2>5, <2>6, <2>7
  <1>2. TypeOK /\ TypeOK' /\ Rent /\ [Next]_vars => [Reaches]_vars
    BY <1>1
  <1> QED
    BY <1>2, TypeCorrect, RentInvariant, PTL DEF Spec, FeesReachOwnedShards

(***************************************************************************)
(* Messages and lamports.                                                  *)
(***************************************************************************)

\* A message is changed or deleted at the expense and to the benefit of no
\* wallet but its author's (OnlyAuthorTouches of the channel run):
\* load_content is followed by the comparison of the author with the signer in
\* process_append_content and process_close_account.
THEOREM AuthorTouchesCorrect == Spec => OnlyAuthorTouches
  <1> DEFINE Touch(id) ==
        content[id] # NULL /\ content'[id] # content[id] =>
            \A w \in Wallets \ {content[id].author} : lamports'[w] = lamports[w]
  <1>1. ASSUME TypeOK, Rent, [Next]_vars, NEW id \in ContentIds PROVE Touch(id)
    <2> SUFFICES ASSUME content[id] # NULL, content'[id] # content[id],
                        NEW v \in Wallets, v # content[id].author
                 PROVE  lamports'[v] = lamports[v]
      OBVIOUS
    <2>1. content \in [ContentIds -> ContentNode \cup {NULL}] /\ v \in Addr
      BY <1>1, KeysApart DEF TypeOK
    <2>2. CASE PostNext
      <3>1. PICK w \in Wallets, x \in ContentIds, body \in Bodies :
               /\ content[x] = NULL
               /\ content' = [content EXCEPT ![x] =
                                [author |-> w, created_at |-> now, body |-> body]]
        BY <1>1, <2>2, PostEffect
      <3>2. content'[id] = content[id]
        BY <2>1, <3>1
      <3> QED
        BY <3>2
    <2>3. CASE AppendNext
      <3>1. PICK w \in Wallets, x \in ContentIds, chunk \in BodyInputs, k \in TreasuryIdx,
                 j \in AuthorIdx : AppendContent(w, x, chunk, k, j)
        BY <2>3 DEF AppendNext
      <3> DEFINE s == derive_treasury_shard_pda(k)
                 c == derive_content_pda(x[1], x[2], x[3])
      <3>2. /\ content[x].author = w
            /\ content' = [content EXCEPT ![x].body = content[x].body \o chunk]
        BY <3>1 DEF AppendContent, load_own_content
      <3>3. x = id
        BY <2>1, <3>2
      <3>4. s \in FeeShards /\ Touches(lamports, lamports', w, {s, c})
        BY <1>1, <3>1, AppendFlow
      <3>5. v # w /\ v # s /\ v # c
        BY <3>2, <3>3, <3>4, ShardAddress, OthersApart
      <3> QED
        BY <2>1, <3>4, <3>5 DEF Touches
    <2>4. CASE DeleteNext
      <3>1. PICK w \in Wallets, x \in ContentIds, with_likes \in BOOLEAN :
               CloseAccount(w, x, with_likes)
        BY <2>4 DEF DeleteNext
      <3> DEFINE c == derive_content_pda(x[1], x[2], x[3])
      <3>2. /\ content[x].author = w
            /\ content' = [content EXCEPT ![x] = NULL]
            /\ lamports' = close_program_account(lamports, c, w)
        BY <3>1 DEF CloseAccount, load_own_content, Commit
      <3>3. x = id
        BY <2>1, <3>2
      <3>4. c \in Pdas /\ v # c /\ v # w
        BY <3>2, <3>3, PdaTypes, OthersApart
      <3> QED
        BY <1>1, <2>1, <3>2, <3>4, CloseRises
    <2>5. CASE ~PostNext /\ ~DeleteNext /\ ~AppendNext
      <3>1. content' = content
        BY <1>1, <2>5, ContentFrame
      <3> QED
        BY <3>1
    <2> QED
      BY <2>2, <2>3, <2>4, <2>5
  <1>2. TypeOK /\ Rent /\ [Next]_vars => [\A id \in ContentIds : Touch(id)]_vars
    BY <1>1
  <1> QED
    BY <1>2, TypeCorrect, RentInvariant, PTL DEF Spec, OnlyAuthorTouches

-----------------------------------------------------------------------------
(***************************************************************************)
(* Membership and lamports.                                                *)
(***************************************************************************)

\* An instruction of the author on an entry moves lamports between the author
\* and the entry's account alone.
LEMMA AuthorLists ==
    ASSUME TypeOK, AdminIsAuthor, NEW w \in Wallets, NEW u \in Threads, NEW x \in Wallets,
           NEW status \in Statuses,
           \/ apply_access_entry_status(w, u, x, status)
           \/ remove_access_entry(w, u, x, status)
    PROVE  /\ w = thread[u].author
           /\ \A v \in Wallets \ {w} : lamports'[v] = lamports[v]
  <1> DEFINE e == derive_access_entry_pda(u, x)
  <1>1. w = thread[u].author
    BY DEF apply_access_entry_status, remove_access_entry, load_admin_access, AdminIsAuthor
  <1>2. /\ lamports \in Ledgers /\ w \in Addr /\ e \in Addr /\ e \in Pdas /\ w # e
        /\ AccessEntry_size \in Nat
    BY BalancesAreLedger, PdaTypes, KeysApart, OthersApart, SizeTypes
  <1>3. \A v \in Wallets : v \in Addr /\ v # e
    BY PdaTypes, KeysApart, OthersApart
  <1>4. \/ lamports' = lamports
        \/ lamports' = create_pda_account(lamports, w, e, AccessEntry_size)
        \/ lamports' = close_program_account(lamports, e, w)
    BY DEF apply_access_entry_status, remove_access_entry, set_access_entry_status, Commit
  <1> HIDE DEF e
  <1>5. CASE lamports' = create_pda_account(lamports, w, e, AccessEntry_size)
    <2>1. Touches(lamports, lamports', w, {e})
      BY <1>2, <1>5, CreateTouches
    <2> QED
      BY <1>1, <1>3, <2>1 DEF Touches
  <1>6. CASE lamports' = close_program_account(lamports, e, w)
    BY <1>1, <1>2, <1>3, <1>6, CloseRises
  <1> QED
    BY <1>1, <1>4, <1>5, <1>6

\* Who is on a channel's lists is decided by its author, or paid for in full by
\* a wallet that is on none (AuthorKeepsLists of the membership run): the list
\* instructions all pass load_admin_access, and process_request_access refuses
\* a wallet whose entry exists, whatever its status.
THEOREM ListsCorrect == Spec => AuthorKeepsLists
  <1> DEFINE Bought(t, w) ==
        /\ entry[t][w] = NULL
        /\ entry'[t][w] = ACCESS_ALLOWED
        /\ access[t].entry_fee > 0
        /\ lamports[w] - lamports'[w] >=
               access[t].entry_fee
                 + SaturatingSub(minimum_balance(AccessEntry_size),
                                 lamports[derive_access_entry_pda(t, w)])
             Kept(t, w) ==
        entry'[t][w] # entry[t][w] =>
            \/ \A v \in Wallets \ {thread[t].author} : lamports'[v] = lamports[v]
            \/ Bought(t, w)
  <1>1. ASSUME TypeOK, Rent, AdminIsAuthor, [Next]_vars, NEW t \in Threads, NEW w \in Wallets
        PROVE  Kept(t, w)
    <2> SUFFICES ASSUME entry'[t][w] # entry[t][w]
                 PROVE  \/ \A v \in Wallets \ {thread[t].author} : lamports'[v] = lamports[v]
                        \/ Bought(t, w)
      OBVIOUS
    <2>1. entry \in [Threads -> [Wallets -> Statuses \cup {NULL}]]
      BY <1>1 DEF TypeOK
    <2>2. MembershipNext
      BY <1>1, AccessFrame
    <2>3. PICK p \in Wallets, u \in Threads :
                      \/ \E on \in BOOLEAN, k \in TreasuryIdx : InitThreadAccess(p, u, on, k)
                      \/ \E on \in BOOLEAN : SetThreadAccess(p, u, on)
                      \/ \E fee \in FeeInputs : SetEntryFee(p, u, fee)
                      \/ \E x \in Wallets, status \in Statuses :
                            \/ apply_access_entry_status(p, u, x, status)
                            \/ remove_access_entry(p, u, x, status)
                      \/ \E k \in TreasuryIdx, j \in AuthorIdx : RequestAccess(p, u, k, j)
      BY <2>2 DEF MembershipNext, Statuses, AddToWhitelist, AddToBlacklist, AddToFeeWhitelist,
             RemoveFromWhitelist, RemoveFromBlacklist, RemoveFromFeeWhitelist
    <2>4. ASSUME \/ \E on \in BOOLEAN, k \in TreasuryIdx : InitThreadAccess(p, u, on, k)
                 \/ \E on \in BOOLEAN : SetThreadAccess(p, u, on)
                 \/ \E fee \in FeeInputs : SetEntryFee(p, u, fee)
          PROVE  FALSE
      BY <2>4 DEF InitThreadAccess, SetThreadAccess, SetEntryFee
    <2>5. ASSUME NEW x \in Wallets, NEW status \in Statuses,
                 \/ apply_access_entry_status(p, u, x, status)
                 \/ remove_access_entry(p, u, x, status)
          PROVE  \A v \in Wallets \ {thread[t].author} : lamports'[v] = lamports[v]
      <3>1. \E s : entry' = [entry EXCEPT ![u][x] = s]
        BY <2>5 DEF apply_access_entry_status, remove_access_entry
      <3>2. u = t
        BY <2>1, <3>1
      <3> QED
        BY <1>1, <2>5, <3>2, AuthorLists
    <2>6. ASSUME NEW k \in TreasuryIdx, NEW j \in AuthorIdx, RequestAccess(p, u, k, j)
          PROVE  Bought(t, w)
      <3>1. /\ entry[u][p] = NULL
            /\ entry' = [entry EXCEPT ![u][p] = ACCESS_ALLOWED]
            /\ access[u] # NULL /\ access[u].entry_fee # 0
        BY <2>6 DEF RequestAccess
      <3>2. u = t /\ p = w
        BY <2>1, <3>1
      <3>3. access[t].entry_fee \in Nat /\ access[t].entry_fee > 0
        BY <1>1, <3>1, <3>2, LedgerAssumption DEF TypeOK, ThreadAccess, u64
      <3> DEFINE e == Missing(lamports, derive_access_entry_pda(t, w), AccessEntry_size)
                 s == Missing(lamports, derive_treasury_shard_pda(k), 0)
                 a == Missing(lamports, derive_author_fee_pda(t, j), 0)
      <3>4. lamports[w] - lamports'[w] = access[t].entry_fee + e + s + a
        BY <1>1, <2>6, <3>2, EntryPrice
      <3>5. e \in Nat /\ s \in Nat /\ a \in Nat
        <4>1. /\ lamports \in Ledgers
              /\ derive_treasury_shard_pda(k) \in Addr /\ derive_author_fee_pda(t, j) \in Addr
          BY <1>1, <2>6, <3>2, BalancesAreLedger, FeeAddresses DEF RequestAccess
        <4>2. derive_access_entry_pda(t, w) \in Addr /\ AccessEntry_size \in Nat
          BY PdaTypes, KeysApart, SizeTypes
        <4> QED
          BY <4>1, <4>2, MissingTypes DEF Ledgers
      <3> HIDE DEF e, s, a
      <3>6. access[t].entry_fee + e + s + a >= access[t].entry_fee + e
        BY <3>3, <3>5
      <3>7. e = SaturatingSub(minimum_balance(AccessEntry_size),
                              lamports[derive_access_entry_pda(t, w)])
        BY DEF e, Missing
      <3>8. entry'[t][w] = ACCESS_ALLOWED /\ entry[t][w] = NULL
        BY <2>1, <3>1, <3>2
      <3> QED
        BY <3>3, <3>4, <3>6, <3>7, <3>8
    <2> QED
      BY <2>3, <2>4, <2>5, <2>6
  <1>2. TypeOK /\ Rent /\ AdminIsAuthor /\ [Next]_vars =>
           [\A t \in Threads, w \in Wallets : Kept(t, w)]_vars
    BY <1>1
  <1> QED
    BY <1>2, TypeCorrect, RentInvariant, AdminCorrect, PTL DEF Spec, AuthorKeepsLists

-----------------------------------------------------------------------------
(***************************************************************************)
(* Sums of balances over a finite set of addresses (SumFunction).          *)
(***************************************************************************)

\* The value of a sum on the subset s, from its value g on smaller subsets.
SumStep(f, g, s) ==
    IF s = {} THEN 0
    ELSE f[CHOOSE x \in s : TRUE] + g[s \ {CHOOSE x \in s : TRUE}]

\* g tabulates the sums of f over the members of D.
SumTable(g, f, D) == g = [s \in D |-> SumStep(f, g, s)]

\* The subsets of S with at most n elements.
Small(S, n) == {s \in SUBSET S : Cardinality(s) <= n}

\* Taking an element out of a small subset leaves a smaller one.
LEMMA SmallerSubset ==
    ASSUME NEW S, IsFiniteSet(S), NEW s \in SUBSET S, NEW x \in s
    PROVE  /\ s \ {x} \in SUBSET S
           /\ Cardinality(s) \in Nat
           /\ Cardinality(s \ {x}) = Cardinality(s) - 1
           /\ Cardinality(s \ {x}) \in Nat
  <1>1. IsFiniteSet(s)
    BY FS_Subset
  <1>2. Cardinality(s) \in Nat /\ Cardinality(s \ {x}) = Cardinality(s) - 1
    BY <1>1, FS_CardinalityType, FS_RemoveElement
  <1>3. IsFiniteSet(s \ {x})
    BY <1>1, FS_RemoveElement
  <1> QED
    BY <1>2, <1>3, FS_CardinalityType

\* Sums over the small subsets can be tabulated, ...
LEMMA SmallTables ==
    ASSUME NEW S, IsFiniteSet(S), NEW f
    PROVE  \A n \in Nat : \E g : SumTable(g, f, Small(S, n))
  <1> DEFINE N == {n \in Nat : \E g : SumTable(g, f, Small(S, n))}
  <1>1. 0 \in N
    <2> DEFINE g == [s \in Small(S, 0) |-> 0]
    <2>1. ASSUME NEW s \in Small(S, 0) PROVE s = {}
      <3>1. IsFiniteSet(s) /\ Cardinality(s) <= 0
        BY <2>1, FS_Subset DEF Small
      <3>2. Cardinality(s) = 0
        BY <3>1, FS_CardinalityType
      <3> QED
        BY <3>1, <3>2, FS_EmptySet
    <2>2. \A s \in Small(S, 0) : SumStep(f, g, s) = 0
      BY <2>1 DEF SumStep
    <2>3. SumTable(g, f, Small(S, 0))
      BY <2>2 DEF SumTable
    <2> QED
      BY <2>3
  <1>2. ASSUME NEW n \in Nat, n \in N PROVE n + 1 \in N
    <2>1. PICK g : SumTable(g, f, Small(S, n))
      BY <1>2
    <2>2. DOMAIN g = Small(S, n) /\ \A s \in Small(S, n) : g[s] = SumStep(f, g, s)
      BY <2>1 DEF SumTable
    <2> DEFINE h == [s \in Small(S, n + 1) |-> SumStep(f, g, s)]
    <2>3. ASSUME NEW s \in Small(S, n + 1), NEW x \in s PROVE s \ {x} \in Small(S, n)
      <3>1. s \in SUBSET S /\ Cardinality(s) <= n + 1
        BY <2>3 DEF Small
      <3>2. /\ s \ {x} \in SUBSET S /\ Cardinality(s) \in Nat
            /\ Cardinality(s \ {x}) = Cardinality(s) - 1 /\ Cardinality(s \ {x}) \in Nat
        BY <2>3, <3>1, SmallerSubset
      <3>3. Cardinality(s \ {x}) <= n
        BY <3>1, <3>2
      <3> QED
        BY <3>2, <3>3 DEF Small
    <2>4. ASSUME NEW s \in Small(S, n) PROVE s \in Small(S, n + 1) /\ h[s] = g[s]
      <3>1. s \in SUBSET S /\ Cardinality(s) <= n /\ Cardinality(s) \in Nat
        BY <2>4, FS_Subset, FS_CardinalityType DEF Small
      <3>2. Cardinality(s) <= n + 1
        BY <3>1
      <3>3. s \in Small(S, n + 1)
        BY <3>1, <3>2 DEF Small
      <3> QED
        BY <2>2, <2>4, <3>3
    <2>5. ASSUME NEW s \in Small(S, n + 1) PROVE SumStep(f, g, s) = SumStep(f, h, s)
      <3>1. CASE s = {}
        BY <3>1 DEF SumStep
      <3>2. CASE s # {}
        <4> DEFINE x == CHOOSE y \in s : TRUE
        <4>1. x \in s
          BY <3>2
        <4>2. h[s \ {x}] = g[s \ {x}]
          BY <2>3, <2>4, <4>1
        <4> HIDE DEF h
        <4> QED
          BY <3>2, <4>2 DEF SumStep
      <3> QED
        BY <3>1, <3>2
    <2>6. h = [s \in Small(S, n + 1) |-> SumStep(f, h, s)]
      BY <2>5
    <2>7. SumTable(h, f, Small(S, n + 1))
      BY <2>6 DEF SumTable
    <2> QED
      BY <2>7
  <1>3. Nat \subseteq N
    BY <1>1, <1>2, LoopInduction
  <1> QED
    BY <1>3

\* ... and so can the sums over all subsets of a finite set.
LEMMA SumTableExists ==
    ASSUME NEW S, IsFiniteSet(S), NEW f
    PROVE  \E g : SumTable(g, f, SUBSET S)
  <1> DEFINE n == Cardinality(S)
  <1>1. n \in Nat
    BY FS_CardinalityType
  <1>2. SUBSET S = Small(S, n)
    BY FS_Subset DEF Small
  <1>3. PICK g : SumTable(g, f, Small(S, n))
    BY <1>1, SmallTables
  <1> QED
    BY <1>2, <1>3

\* A sum is the last entry of such a table.
LEMMA SumUnfolds ==
    ASSUME NEW S, IsFiniteSet(S), NEW f
    PROVE  \E g : SumTable(g, f, SUBSET S) /\ SumFunctionOnSet(f, S) = g[S]
  <1> DEFINE g == CHOOSE iter : iter = [s \in SUBSET S |->
                      IF s = {} THEN 0
                      ELSE f[CHOOSE x \in s : TRUE] + iter[s \ {CHOOSE x \in s : TRUE}]]
  <1>1. SumFunctionOnSet(f, S) = g[S]
    BY DEF SumFunctionOnSet, FoldFunctionOnSet, MapThenFoldSet
  <1>2. \E iter : iter = [s \in SUBSET S |->
                      IF s = {} THEN 0
                      ELSE f[CHOOSE x \in s : TRUE] + iter[s \ {CHOOSE x \in s : TRUE}]]
    <2>1. PICK h : SumTable(h, f, SUBSET S)
      BY SumTableExists
    <2>2. h = [s \in SUBSET S |->
                 IF s = {} THEN 0
                 ELSE f[CHOOSE x \in s : TRUE] + h[s \ {CHOOSE x \in s : TRUE}]]
      BY <2>1, Zenon DEF SumTable, SumStep
    <2> QED
      BY <2>2, Zenon
  <1>3. g = [s \in SUBSET S |->
                      IF s = {} THEN 0
                      ELSE f[CHOOSE x \in s : TRUE] + g[s \ {CHOOSE x \in s : TRUE}]]
    BY <1>2, Zenon
  <1>4. SumTable(g, f, SUBSET S)
    BY <1>3, Zenon DEF SumTable, SumStep
  <1> QED
    BY <1>1, <1>4

\* f is a number on S; f and h agree on U.
Numbers(f, S) == \A x \in S : f[x] \in Int
Agree(f, h, U) == \A x \in U : f[x] = h[x]

\* g tabulates the sums of f over the subsets of the finite set S.
Tabulated(g, f, S) == IsFiniteSet(S) /\ Numbers(f, S) /\ SumTable(g, f, SUBSET S)

\* The entry of T in a table of sums is a number, zero if T is empty, and any
\* element may be taken out first.
Takes(g, f, T) ==
    /\ g[T] \in Int
    /\ T = {} => g[T] = 0
    /\ \A x \in T : g[T] = f[x] + g[T \ {x}]

\* In a table of sums of numbers any element may be taken out first.
LEMMA TableTakes ==
    ASSUME NEW S, IsFiniteSet(S), NEW f, Numbers(f, S), NEW g, SumTable(g, f, SUBSET S)
    PROVE  \A T \in SUBSET S : Takes(g, f, T)
  <1> USE DEF Takes, Numbers
  <1> DEFINE Good(T) == Takes(g, f, T)
             N == {n \in Nat : \A T \in Small(S, n) : Good(T)}
  <1>1. \A T \in SUBSET S : g[T] = SumStep(f, g, T)
    BY DEF SumTable
  <1>2. \A T \in SUBSET S : T = {} => g[T] = 0
    BY <1>1 DEF SumStep
  <1>3. 0 \in N
    <2>1. ASSUME NEW T \in Small(S, 0) PROVE Good(T)
      <3>1. T \in SUBSET S /\ IsFiniteSet(T) /\ Cardinality(T) <= 0
        BY <2>1, FS_Subset DEF Small
      <3>2. Cardinality(T) = 0
        BY <3>1, FS_CardinalityType
      <3>3. T = {}
        BY <3>1, <3>2, FS_EmptySet
      <3> QED
        BY <1>2, <3>1, <3>3
    <2> QED
      BY <2>1
  <1>4. ASSUME NEW n \in Nat, n \in N PROVE n + 1 \in N
    <2>1. ASSUME NEW T \in Small(S, n + 1) PROVE Good(T)
      <3>1. T \in SUBSET S /\ Cardinality(T) <= n + 1
        BY <2>1 DEF Small
      <3>2. CASE T = {}
        BY <1>2, <3>1, <3>2
      <3>3. CASE T # {}
        <4> DEFINE c == CHOOSE y \in T : TRUE
        <4>1. c \in T
          BY <3>3
        <4>2. g[T] = f[c] + g[T \ {c}]
          BY <1>1, <3>1, <3>3 DEF SumStep
        <4> HIDE DEF c
        <4>3. ASSUME NEW x \in T PROVE T \ {x} \in SUBSET S /\ Good(T \ {x})
          <5>1. /\ T \ {x} \in SUBSET S /\ Cardinality(T) \in Nat
                /\ Cardinality(T \ {x}) = Cardinality(T) - 1 /\ Cardinality(T \ {x}) \in Nat
            BY <3>1, <4>3, SmallerSubset
          <5>2. T \ {x} \in Small(S, n)
            BY <3>1, <5>1 DEF Small
          <5> QED
            BY <1>4, <5>1, <5>2
        <4>4. ASSUME NEW x \in T PROVE g[T] = f[x] + g[T \ {x}]
          <5>1. CASE x = c
            BY <4>2, <5>1
          <5>2. CASE x # c
            <6>1. x \in T \ {c} /\ c \in T \ {x}
              BY <4>1, <4>4, <5>2
            <6>2. g[T \ {c}] = f[x] + g[(T \ {c}) \ {x}]
              BY <4>1, <4>3, <6>1
            <6>3. g[T \ {x}] = f[c] + g[(T \ {x}) \ {c}]
              BY <4>3, <4>4, <6>1
            <6>4. (T \ {c}) \ {x} = (T \ {x}) \ {c}
              OBVIOUS
            <6>5. (T \ {c}) \ {x} \in SUBSET S /\ g[(T \ {c}) \ {x}] \in Int
              <7>1. T \ {c} \in SUBSET S /\ Cardinality(T \ {c}) \in Nat
                    /\ Cardinality(T \ {c}) <= n
                BY <3>1, <4>1, SmallerSubset
              <7>2. /\ (T \ {c}) \ {x} \in SUBSET S
                    /\ Cardinality((T \ {c}) \ {x}) = Cardinality(T \ {c}) - 1
                    /\ Cardinality((T \ {c}) \ {x}) \in Nat
                BY <6>1, <7>1, SmallerSubset
              <7>3. (T \ {c}) \ {x} \in Small(S, n)
                BY <7>1, <7>2 DEF Small
              <7> QED
                BY <1>4, <7>2, <7>3
            <6>6. f[x] \in Int /\ f[c] \in Int
              BY <3>1, <4>1, <4>4
            <6>7. PICK d \in Int : d = g[(T \ {c}) \ {x}] /\ d = g[(T \ {x}) \ {c}]
              BY <6>4, <6>5
            <6>8. g[T] = f[c] + (f[x] + d) /\ g[T \ {x}] = f[c] + d
              BY <4>2, <6>2, <6>3, <6>7
            <6> QED
              BY <6>6, <6>7, <6>8
          <5> QED
            BY <5>1, <5>2
        <4>5. f[c] \in Int /\ g[T \ {c}] \in Int
          BY <3>1, <4>1, <4>3
        <4>6. g[T] \in Int
          BY <4>2, <4>5
        <4> QED
          BY <3>3, <4>4, <4>6
      <3> QED
        BY <3>2, <3>3
    <2> QED
      BY <2>1
  <1> HIDE DEF Good
  <1>5. Nat \subseteq N
    BY <1>3, <1>4, LoopInduction
  <1>6. ASSUME NEW T \in SUBSET S PROVE Good(T)
    <2>1. Cardinality(S) \in Nat /\ Cardinality(T) <= Cardinality(S)
      BY FS_Subset, FS_CardinalityType
    <2>2. T \in Small(S, Cardinality(S))
      BY <2>1 DEF Small
    <2> QED
      BY <1>5, <2>1, <2>2
  <1> QED
    BY <1>6 DEF Good

\* Tables of functions that agree on U agree on U.
LEMMA TablesAgree ==
    ASSUME NEW S, NEW f, NEW g, Tabulated(g, f, S),
           NEW S2, NEW f2, NEW g2, Tabulated(g2, f2, S2),
           NEW U, U \subseteq S, U \subseteq S2, Agree(f, f2, U)
    PROVE  g[U] = g2[U]
  <1> DEFINE N == {n \in Nat : \A T \in Small(U, n) : g[T] = g2[T]}
  <1>0. IsFiniteSet(U)
    BY FS_Subset DEF Tabulated
  <1>1. \A T \in SUBSET S : Takes(g, f, T)
    BY TableTakes DEF Tabulated
  <1>2. \A T \in SUBSET S2 : Takes(g2, f2, T)
    BY TableTakes DEF Tabulated
  <1> USE DEF Takes, Agree
  <1>3. 0 \in N
    <2>1. ASSUME NEW T \in Small(U, 0) PROVE g[T] = g2[T]
      <3>1. T \in SUBSET U /\ IsFiniteSet(T) /\ Cardinality(T) <= 0
        BY <1>0, <2>1, FS_Subset DEF Small
      <3>2. Cardinality(T) = 0
        BY <3>1, FS_CardinalityType
      <3>3. T = {}
        BY <3>1, <3>2, FS_EmptySet
      <3> QED
        BY <1>1, <1>2, <3>1, <3>3
    <2> QED
      BY <2>1
  <1>4. ASSUME NEW n \in Nat, n \in N PROVE n + 1 \in N
    <2>1. ASSUME NEW T \in Small(U, n + 1) PROVE g[T] = g2[T]
      <3>1. T \in SUBSET U /\ T \in SUBSET S /\ T \in SUBSET S2 /\ Cardinality(T) <= n + 1
        BY <2>1 DEF Small
      <3>2. CASE T = {}
        BY <1>1, <1>2, <3>1, <3>2
      <3>3. CASE T # {}
        <4>1. PICK x : x \in T
          BY <3>3
        <4>2. /\ T \ {x} \in SUBSET U /\ Cardinality(T) \in Nat
              /\ Cardinality(T \ {x}) = Cardinality(T) - 1 /\ Cardinality(T \ {x}) \in Nat
          BY <1>0, <3>1, <4>1, SmallerSubset
        <4>3. T \ {x} \in Small(U, n)
          BY <3>1, <4>2 DEF Small
        <4>4. g[T \ {x}] = g2[T \ {x}]
          BY <1>4, <4>3
        <4>5. f[x] = f2[x]
          BY <3>1, <4>1
        <4> QED
          BY <1>1, <1>2, <3>1, <4>1, <4>4, <4>5
      <3> QED
        BY <3>2, <3>3
    <2> QED
      BY <2>1
  <1>5. Nat \subseteq N
    BY <1>3, <1>4, LoopInduction
  <1>6. Cardinality(U) \in Nat /\ U \in Small(U, Cardinality(U))
    BY <1>0, FS_CardinalityType, FS_Subset DEF Small
  <1> QED
    BY <1>5, <1>6

\* A sum of numbers is a number, zero over the empty set, and any element may
\* be taken out of it.
LEMMA SumTakes ==
    ASSUME NEW S, IsFiniteSet(S), NEW f, Numbers(f, S)
    PROVE  /\ SumFunctionOnSet(f, S) \in Int
           /\ S = {} => SumFunctionOnSet(f, S) = 0
           /\ \A x \in S : SumFunctionOnSet(f, S) = f[x] + SumFunctionOnSet(f, S \ {x})
  <1>1. PICK g : SumTable(g, f, SUBSET S) /\ SumFunctionOnSet(f, S) = g[S]
    BY SumUnfolds
  <1>0. Tabulated(g, f, S)
    BY <1>1 DEF Tabulated
  <1>2. \A T \in SUBSET S : Takes(g, f, T)
    BY <1>1, TableTakes
  <1>3. ASSUME NEW x \in S PROVE SumFunctionOnSet(f, S \ {x}) = g[S \ {x}]
    <2>1. IsFiniteSet(S \ {x})
      BY FS_RemoveElement
    <2>2. PICK h : SumTable(h, f, SUBSET (S \ {x})) /\ SumFunctionOnSet(f, S \ {x}) = h[S \ {x}]
      BY <2>1, SumUnfolds
    <2> DEFINE R == S \ {x}
    <2>3. Numbers(f, R) /\ Agree(f, f, R) /\ R \subseteq S /\ R \subseteq R
      BY DEF Numbers, Agree
    <2> HIDE DEF R
    <2>4. Tabulated(h, f, R)
      BY <2>1, <2>2, <2>3 DEF Tabulated, R
    <2>5. g[R] = h[R]
      BY <1>0, <2>3, <2>4, TablesAgree
    <2> QED
      BY <2>2, <2>5 DEF R
  <1> QED
    BY <1>1, <1>2, <1>3 DEF Takes

\* Functions that agree on S have the same sum over S.
LEMMA SumsAgree ==
    ASSUME NEW S, IsFiniteSet(S), NEW f, NEW h, Numbers(f, S), Agree(f, h, S)
    PROVE  SumFunctionOnSet(f, S) = SumFunctionOnSet(h, S)
  <1>1. PICK g : SumTable(g, f, SUBSET S) /\ SumFunctionOnSet(f, S) = g[S]
    BY SumUnfolds
  <1>0. Tabulated(g, f, S)
    BY <1>1 DEF Tabulated
  <1>2. PICK g2 : SumTable(g2, h, SUBSET S) /\ SumFunctionOnSet(h, S) = g2[S]
    BY SumUnfolds
  <1>3. Numbers(h, S) /\ S \subseteq S
    BY DEF Numbers, Agree
  <1>4. Tabulated(g2, h, S)
    BY <1>2, <1>3 DEF Tabulated
  <1>5. g[S] = g2[S]
    BY <1>3, <1>0, <1>4, TablesAgree
  <1> QED
    BY <1>1, <1>2, <1>5

\* What moves between two elements leaves the sum unchanged.
LEMMA SumMove ==
    ASSUME NEW S, IsFiniteSet(S), NEW f \in [S -> Int], NEW h \in [S -> Int],
           NEW x \in S, NEW y \in S, x # y, h[x] + h[y] = f[x] + f[y],
           \A z \in S \ {x, y} : h[z] = f[z]
    PROVE  SumFunction(h) = SumFunction(f)
  <1> DEFINE R == (S \ {x}) \ {y}
  <1>1. /\ IsFiniteSet(S \ {x}) /\ y \in S \ {x} /\ IsFiniteSet(R)
    BY FS_RemoveElement
  <1>0. /\ Numbers(f, S) /\ Numbers(h, S) /\ Numbers(f, S \ {x}) /\ Numbers(h, S \ {x})
        /\ Numbers(f, R) /\ Numbers(h, R) /\ Agree(f, h, R)
    BY DEF Numbers, Agree
  <1> HIDE DEF R
  <1>2. /\ SumFunctionOnSet(f, S) = f[x] + SumFunctionOnSet(f, S \ {x})
        /\ SumFunctionOnSet(h, S) = h[x] + SumFunctionOnSet(h, S \ {x})
    BY <1>0, SumTakes
  <1>3. /\ SumFunctionOnSet(f, S \ {x}) = f[y] + SumFunctionOnSet(f, R)
        /\ SumFunctionOnSet(h, S \ {x}) = h[y] + SumFunctionOnSet(h, R)
    BY <1>0, <1>1, SumTakes DEF R
  <1>4. SumFunctionOnSet(f, R) = SumFunctionOnSet(h, R) /\ SumFunctionOnSet(f, R) \in Int
    BY <1>0, <1>1, SumsAgree, SumTakes
  <1>5. SumFunctionOnSet(h, S) = SumFunctionOnSet(f, S)
    BY <1>2, <1>3, <1>4
  <1> QED
    BY <1>5 DEF SumFunction

\* Zeros do not count.
LEMMA SumZeros ==
    ASSUME NEW S, IsFiniteSet(S), NEW f, Numbers(f, S),
           NEW U, U \subseteq S, \A x \in S \ U : f[x] = 0
    PROVE  SumFunctionOnSet(f, S) = SumFunctionOnSet(f, U)
  <1> DEFINE N == {n \in Nat : \A T \in Small(S, n) : U \subseteq T =>
                                  SumFunctionOnSet(f, T) = SumFunctionOnSet(f, U)}
  <1>1. ASSUME NEW T \in SUBSET S, U \subseteq T,
               \A x \in T \ U : SumFunctionOnSet(f, T \ {x}) = SumFunctionOnSet(f, U)
        PROVE  SumFunctionOnSet(f, T) = SumFunctionOnSet(f, U)
    <2>1. CASE T = U
      BY <2>1
    <2>2. CASE T # U
      <3>1. PICK x : x \in T \ U
        BY <1>1, <2>2
      <3>2. IsFiniteSet(T) /\ IsFiniteSet(U)
        BY <1>1, FS_Subset
      <3>3. /\ SumFunctionOnSet(f, T) = f[x] + SumFunctionOnSet(f, T \ {x})
            /\ SumFunctionOnSet(f, U) \in Int
        <4>1. Numbers(f, T) /\ Numbers(f, U)
          BY <1>1 DEF Numbers
        <4> QED
          BY <1>1, <3>1, <3>2, <4>1, SumTakes
      <3>4. f[x] = 0
        BY <1>1, <3>1
      <3> QED
        BY <1>1, <3>1, <3>3, <3>4
    <2> QED
      BY <2>1, <2>2
  <1>2. 0 \in N
    <2>1. ASSUME NEW T \in Small(S, 0), U \subseteq T
          PROVE  SumFunctionOnSet(f, T) = SumFunctionOnSet(f, U)
      <3>1. T \in SUBSET S /\ IsFiniteSet(T) /\ Cardinality(T) <= 0
        BY <2>1, FS_Subset DEF Small
      <3>2. Cardinality(T) = 0
        BY <3>1, FS_CardinalityType
      <3>3. T = {} /\ U = {}
        BY <2>1, <3>1, <3>2, FS_EmptySet
      <3> QED
        BY <3>3
    <2> QED
      BY <2>1
  <1>3. ASSUME NEW n \in Nat, n \in N PROVE n + 1 \in N
    <2>1. ASSUME NEW T \in Small(S, n + 1), U \subseteq T
          PROVE  SumFunctionOnSet(f, T) = SumFunctionOnSet(f, U)
      <3>1. T \in SUBSET S /\ Cardinality(T) <= n + 1
        BY <2>1 DEF Small
      <3>2. ASSUME NEW x \in T \ U
            PROVE  SumFunctionOnSet(f, T \ {x}) = SumFunctionOnSet(f, U)
        <4>1. /\ T \ {x} \in SUBSET S /\ Cardinality(T) \in Nat
              /\ Cardinality(T \ {x}) = Cardinality(T) - 1 /\ Cardinality(T \ {x}) \in Nat
          BY <3>1, <3>2, SmallerSubset
        <4>2. T \ {x} \in Small(S, n) /\ U \subseteq T \ {x}
          BY <2>1, <3>1, <3>2, <4>1 DEF Small
        <4> QED
          BY <1>3, <4>2
      <3> QED
        BY <1>1, <2>1, <3>1, <3>2
    <2> QED
      BY <2>1
  <1>4. Nat \subseteq N
    BY <1>2, <1>3, LoopInduction
  <1>5. Cardinality(S) \in Nat /\ S \in Small(S, Cardinality(S))
    BY FS_CardinalityType, FS_Subset DEF Small
  <1> QED
    BY <1>4, <1>5

-----------------------------------------------------------------------------
(***************************************************************************)
(* The total of all balances.                                              *)
(***************************************************************************)

\* The image of a finite set under a function is finite.
LEMMA ImageFinite ==
    ASSUME NEW S, IsFiniteSet(S), NEW f
    PROVE  IsFiniteSet({f[x] : x \in S})
  <1> DEFINE T == {f[x] : x \in S}
             g == [x \in S |-> f[x]]
  <1>1. g \in Surjection(S, T)
    BY DEF Surjection
  <1> HIDE DEF T, g
  <1>2. IsFiniteSet(T)
    BY <1>1, FS_Surjection
  <1> QED
    BY <1>2 DEF T

\* There are finitely many addresses: keys and seeds are of bounded length.
LEMMA AddrFinite == IsFiniteSet(Addr)
  <1> DEFINE A(n) == Threads \X (0..n)
             ac == [x \in Threads \X Wallets |-> derive_access_entry_pda(x[1], x[2])]
             al == [p \in Pages |-> derive_alloc_pda(p[1], p[2])]
             li == [p \in Pages |-> derive_likes_pda(p[1], p[2])]
             co == [c \in ContentIds |-> derive_content_pda(c[1], c[2], c[3])]
             pa == [p \in (Threads \X AllocSeqs) \X Slots |-> <<p[1][1], p[1][2], p[2]>>]
             fo == [s \in FollowerShards |-> derive_follower_shard_pda(s[1], s[2])]
             au == [s \in A(N_AUTHOR_FEE_SHARDS - 1) |-> derive_author_fee_pda(s[1], s[2])]
             ts == [k \in 0..(N_TREASURY_SHARDS - 1) |-> derive_treasury_shard_pda(k)]
             ta == [t \in Threads |-> derive_access_pda(t)]
             fr == [w \in Wallets |-> derive_follow_registry_pda(w)]
             img(f, S) == {f[x] : x \in S}
  <1>1. IsFiniteSet(Wallets) /\ IsFiniteSet(Threads)
    BY AccountsAssumption
  <1>2. /\ U32Max \in Int /\ CONTENT_SLOTS - 1 \in Int /\ N_TREASURY_SHARDS - 1 \in Int
        /\ N_AUTHOR_FEE_SHARDS - 1 \in Int /\ N_FOLLOWER_SHARDS - 1 \in Int
    BY AccountsAssumption
  <1>3. \A n \in Int : IsFiniteSet(0..n)
    BY FS_Interval
  <1>4. \A n \in Int : IsFiniteSet(A(n))
    BY <1>1, <1>3, FS_Product
  <1>5. IsFiniteSet(Pages) /\ IsFiniteSet(FollowerShards) /\ IsFiniteSet(Threads \X Wallets)
    BY <1>1, <1>2, <1>4, FS_Product DEF Pages, FollowerShards, AllocSeqs
  <1>6. IsFiniteSet((Threads \X AllocSeqs) \X Slots)
    BY <1>2, <1>3, <1>5, FS_Product DEF Pages, Slots
  <1>7. ContentIds \subseteq img(pa, (Threads \X AllocSeqs) \X Slots)
    <2>1. ASSUME NEW c \in ContentIds
          PROVE  c \in img(pa, (Threads \X AllocSeqs) \X Slots)
      <3>1. /\ <<<<c[1], c[2]>>, c[3]>> \in (Threads \X AllocSeqs) \X Slots
            /\ c = <<c[1], c[2], c[3]>>
        BY <2>1 DEF ContentIds
      <3>2. pa[<<<<c[1], c[2]>>, c[3]>>] = c
        BY <3>1
      <3> QED
        BY <3>1, <3>2
    <2> QED
      BY <2>1
  <1>8. IsFiniteSet(ContentIds)
    <2>1. IsFiniteSet(img(pa, (Threads \X AllocSeqs) \X Slots))
      <3> HIDE DEF pa
      <3> QED
        BY <1>6, ImageFinite
    <2> QED
      BY <1>7, <2>1, FS_Subset
  <1> HIDE DEF pa
  <1>9. /\ {derive_alloc_pda(p[1], p[2]) : p \in Pages} = img(al, Pages)
        /\ {derive_likes_pda(p[1], p[2]) : p \in Pages} = img(li, Pages)
        /\ {derive_content_pda(c[1], c[2], c[3]) : c \in ContentIds} = img(co, ContentIds)
        /\ {derive_follower_shard_pda(s[1], s[2]) : s \in FollowerShards} = img(fo, FollowerShards)
    OBVIOUS
  <1>10. /\ TreasuryShards = img(ts, 0..(N_TREASURY_SHARDS - 1))
         /\ {derive_access_pda(t) : t \in Threads} = img(ta, Threads)
         /\ {derive_follow_registry_pda(w) : w \in Wallets} = img(fr, Wallets)
    BY DEF TreasuryShards
  <1>11. {derive_access_entry_pda(t, w) : t \in Threads, w \in Wallets}
            \subseteq img(ac, Threads \X Wallets)
    <2>1. ASSUME NEW t \in Threads, NEW w \in Wallets
          PROVE  derive_access_entry_pda(t, w) \in img(ac, Threads \X Wallets)
      <3>1. <<t, w>> \in Threads \X Wallets /\ ac[<<t, w>>] = derive_access_entry_pda(t, w)
        OBVIOUS
      <3> QED
        BY <3>1
    <2> QED
      BY <2>1
  <1>12. UNION {AuthorShards(t) : t \in Threads} \subseteq img(au, A(N_AUTHOR_FEE_SHARDS - 1))
    <2>1. ASSUME NEW t \in Threads, NEW k \in 0..(N_AUTHOR_FEE_SHARDS - 1)
          PROVE  derive_author_fee_pda(t, k) \in img(au, A(N_AUTHOR_FEE_SHARDS - 1))
      <3>1. /\ <<t, k>> \in A(N_AUTHOR_FEE_SHARDS - 1)
            /\ au[<<t, k>>] = derive_author_fee_pda(t, k)
        OBVIOUS
      <3> QED
        BY <3>1
    <2> QED
      BY <2>1 DEF AuthorShards
  <1> HIDE DEF ac, al, li, co, fo, au, ts, ta, fr
  <1>13. /\ IsFiniteSet(img(al, Pages)) /\ IsFiniteSet(img(li, Pages))
         /\ IsFiniteSet(img(co, ContentIds)) /\ IsFiniteSet(img(fo, FollowerShards))
         /\ IsFiniteSet(img(ta, Threads)) /\ IsFiniteSet(img(fr, Wallets))
         /\ IsFiniteSet(img(ac, Threads \X Wallets))
    BY <1>1, <1>5, <1>8, ImageFinite
  <1>14. IsFiniteSet(img(ts, 0..(N_TREASURY_SHARDS - 1)))
    <2>1. IsFiniteSet(0..(N_TREASURY_SHARDS - 1))
      BY <1>2, <1>3
    <2> QED
      BY <2>1, ImageFinite
  <1>15. IsFiniteSet(img(au, A(N_AUTHOR_FEE_SHARDS - 1)))
    <2>1. IsFiniteSet(A(N_AUTHOR_FEE_SHARDS - 1))
      BY <1>2, <1>4
    <2> HIDE DEF A
    <2> QED
      BY <2>1, ImageFinite
  <1>16. \A S, T : IsFiniteSet(S) /\ IsFiniteSet(T) => IsFiniteSet(S \cup T)
    BY FS_Union
  <1>17. \A S, T : IsFiniteSet(S) /\ T \subseteq S => IsFiniteSet(T)
    BY FS_Subset
  <1> HIDE DEF img, A
  <1>18. IsFiniteSet(FeeShards)
    <2>1. IsFiniteSet(UNION {AuthorShards(t) : t \in Threads})
      BY <1>12, <1>15, <1>17
    <2>2. IsFiniteSet(TreasuryShards)
      BY <1>10, <1>14
    <2> QED
      BY <1>16, <2>1, <2>2 DEF FeeShards
  <1>19. IsFiniteSet({derive_access_entry_pda(t, w) : t \in Threads, w \in Wallets})
    BY <1>11, <1>13, <1>17
  <1>20. IsFiniteSet({derive_settings_pda})
    BY FS_Singleton
  <1>21. IsFiniteSet(Pdas)
    <2> DEFINE Q1 == {derive_alloc_pda(p[1], p[2]) : p \in Pages}
               Q2 == {derive_content_pda(c[1], c[2], c[3]) : c \in ContentIds}
               Q3 == {derive_likes_pda(p[1], p[2]) : p \in Pages}
               Q4 == {derive_access_pda(t) : t \in Threads}
               Q5 == {derive_access_entry_pda(t, w) : t \in Threads, w \in Wallets}
               Q6 == {derive_follow_registry_pda(w) : w \in Wallets}
               Q7 == {derive_follower_shard_pda(s[1], s[2]) : s \in FollowerShards}
               P1 == FeeShards \cup {derive_settings_pda}
               P3 == P1 \cup Q1 \cup Q2
               P5 == P3 \cup Q3 \cup Q4
               P7 == P5 \cup Q5 \cup Q6
    <2>1. Pdas = P7 \cup Q7
      BY DEF Pdas
    <2>0. /\ IsFiniteSet(Q1) /\ IsFiniteSet(Q2) /\ IsFiniteSet(Q3) /\ IsFiniteSet(Q4)
          /\ IsFiniteSet(Q5) /\ IsFiniteSet(Q6) /\ IsFiniteSet(Q7)
      <3>1. Q1 = img(al, Pages) /\ Q2 = img(co, ContentIds) /\ Q3 = img(li, Pages)
        BY <1>9
      <3>2. Q4 = img(ta, Threads) /\ Q6 = img(fr, Wallets) /\ Q7 = img(fo, FollowerShards)
        BY <1>9, <1>10
      <3>3. IsFiniteSet(Q5)
        BY <1>19
      <3> HIDE DEF Q1, Q2, Q3, Q4, Q5, Q6, Q7
      <3> QED
        BY <1>13, <3>1, <3>2, <3>3
    <2> HIDE DEF Q1, Q2, Q3, Q4, Q5, Q6, Q7
    <2>2. IsFiniteSet(P1)
      BY <1>16, <1>18, <1>20
    <2> HIDE DEF P1
    <2>3. IsFiniteSet(P3)
      BY <1>16, <2>0, <2>2
    <2> HIDE DEF P3
    <2>4. IsFiniteSet(P5)
      BY <1>16, <2>0, <2>3
    <2> HIDE DEF P5
    <2>5. IsFiniteSet(P7)
      BY <1>16, <2>0, <2>4
    <2> HIDE DEF P7
    <2> QED
      BY <1>16, <2>0, <2>1, <2>5
  <1> QED
    BY <1>1, <1>16, <1>21 DEF Addr

\* M is a ledger with the total of L.
SameTotal(L, M) == M \in Ledgers /\ SumFunction(M) = SumFunction(L)

LEMMA SameTotalChain ==
    ASSUME NEW K, NEW L, NEW M, SameTotal(K, L), SameTotal(L, M)
    PROVE  SameTotal(K, M)
  BY DEF SameTotal

LEMMA SameTotalStays ==
    ASSUME NEW L \in Ledgers
    PROVE  SameTotal(L, L)
  BY DEF SameTotal

\* What one account loses and another one gains stays in the total.
LEMMA MovedTotal ==
    ASSUME NEW L \in Ledgers, NEW M \in Ledgers, NEW x \in Addr, NEW y \in Addr, x # y,
           M[x] + M[y] = L[x] + L[y], \A z \in Addr \ {x, y} : M[z] = L[z]
    PROVE  SameTotal(L, M)
  <1>1. IsFiniteSet(Addr) /\ L \in [Addr -> Int] /\ M \in [Addr -> Int]
    BY AddrFinite DEF Ledgers
  <1>2. SumFunction(M) = SumFunction(L)
    BY <1>1, SumMove
  <1> QED
    BY <1>2 DEF SameTotal

\* system_instruction::transfer, also of an account to itself.
LEMMA TransferTotal ==
    ASSUME NEW L \in Ledgers, NEW w \in Addr, NEW a \in Addr, NEW x \in Int
    PROVE  SameTotal(L, transfer(L, w, a, x))
  <1> DEFINE M == transfer(L, w, a, x)
  <1>1. CASE w # a
    <2>1. Deposit(L, M, w, a, x)
      BY <1>1, TransferEffect
    <2> HIDE DEF M
    <2>2. L[w] \in Int /\ L[a] \in Int
      BY DEF Ledgers
    <2>3. M \in Ledgers /\ M[w] + M[a] = L[w] + L[a] /\ \A z \in Addr \ {w, a} : M[z] = L[z]
      BY <2>1, <2>2 DEF Deposit
    <2>4. SameTotal(L, M)
      BY <1>1, <2>3, MovedTotal
    <2> QED
      BY <2>4 DEF M
  <1>2. CASE w = a
    <2>1. L \in [Addr -> Int] /\ L[a] \in Int
      BY DEF Ledgers
    <2>2. M = [[L EXCEPT ![a] = @ - x] EXCEPT ![a] = @ + x]
      BY <1>2 DEF transfer
    <2>3. M \in [Addr -> Int] /\ \A b \in Addr : M[b] = L[b]
      BY <2>1, <2>2
    <2> HIDE DEF M
    <2>4. M = L
      BY <2>1, <2>3
    <2> QED
      BY <2>4, SameTotalStays DEF M
  <1> QED
    BY <1>1, <1>2

\* create_pda_account and ensure_rent_exempt ...
LEMMA CreateTotal ==
    ASSUME NEW L \in Ledgers, NEW w \in Addr, NEW a \in Addr, NEW size \in Nat
    PROVE  /\ SameTotal(L, create_pda_account(L, w, a, size))
           /\ SameTotal(L, ensure_rent_exempt(L, w, a, size))
  <1>1. Missing(L, a, size) \in Int
    BY MissingTypes
  <1>2. SameTotal(L, transfer(L, w, a, Missing(L, a, size)))
    BY <1>1, TransferTotal
  <1> QED
    BY <1>2 DEF create_pda_account, ensure_rent_exempt, Missing

\* ... ensure_shard_initialized, for one shard and for two, ...
LEMMA OpenTotal ==
    ASSUME NEW L \in Ledgers, NEW w \in Addr, NEW s \in Addr
    PROVE  SameTotal(L, ensure_shard_initialized(L, w, s))
  BY CreateTotal, SameTotalStays DEF ensure_shard_initialized

LEMMA OpenBothTotal ==
    ASSUME NEW L \in Ledgers, NEW w \in Addr, NEW s \in Addr, NEW a \in Addr
    PROVE  SameTotal(L, ensure_fee_shards_initialized(L, w, s, a))
  <1> DEFINE K == ensure_shard_initialized(L, w, s)
             M == ensure_shard_initialized(K, w, a)
  <1>1. SameTotal(L, K) /\ K \in Ledgers
    BY OpenTotal DEF SameTotal
  <1> HIDE DEF K
  <1>2. SameTotal(K, M)
    BY <1>1, OpenTotal
  <1> HIDE DEF M
  <1>3. SameTotal(L, M)
    BY <1>1, <1>2, SameTotalChain
  <1>4. ensure_fee_shards_initialized(L, w, s, a) = M
    BY DEF ensure_fee_shards_initialized, K, M
  <1> QED
    BY <1>3, <1>4

\* ... collect_fee_to_shard and transfer_fee_split, whatever they take ...
LEMMA CollectTotal ==
    ASSUME NEW L \in Ledgers, NEW w \in Addr, NEW s \in Addr, NEW fee \in Nat
    PROVE  SameTotal(L, collect_fee_to_shard(L, fee, w, s))
  <1> DEFINE x == Greater(fee, Missing(L, s, 0))
  <1>1. Missing(L, s, 0) \in Int
    BY MissingTypes
  <1>2. x \in Int
    BY <1>1, ArithmeticTypes
  <1>3. collect_fee_to_shard(L, fee, w, s) = IF fee = 0 THEN L ELSE transfer(L, w, s, x)
    BY DEF collect_fee_to_shard, Missing
  <1> HIDE DEF x
  <1> QED
    BY <1>2, <1>3, TransferTotal, SameTotalStays

LEMMA SplitTotal ==
    ASSUME NEW L \in Ledgers, NEW w \in Addr, NEW s \in Addr, NEW a \in Addr,
           NEW fee \in u64, NEW bps \in 0..BpsDenominator
    PROVE  SameTotal(L, transfer_fee_split(L, fee, bps, w, a, s))
  <1> DEFINE split == compute_fee_split(fee, bps)
             K == collect_fee_to_shard(L, split.platform, w, s)
             M == collect_fee_to_shard(K, split.author, w, a)
  <1>1. split.platform \in Nat /\ split.author \in Nat
    BY SplitExact
  <1> HIDE DEF split
  <1>2. SameTotal(L, K) /\ K \in Ledgers
    BY <1>1, CollectTotal DEF SameTotal
  <1> HIDE DEF K
  <1>3. SameTotal(K, M)
    BY <1>1, <1>2, CollectTotal
  <1>4. transfer_fee_split(L, fee, bps, w, a, s) = M
    BY SplitEffect DEF K, split
  <1> HIDE DEF M
  <1> QED
    BY <1>2, <1>3, <1>4, SameTotalChain

\* ... close_program_account, which writes both balances directly, ...
LEMMA CloseTotal ==
    ASSUME NEW L \in Ledgers, NEW a \in Addr, NEW r \in Addr, a # r
    PROVE  SameTotal(L, close_program_account(L, a, r))
  <1> DEFINE M == close_program_account(L, a, r)
  <1>1. L[a] \in Int /\ L[r] \in Int
    BY DEF Ledgers
  <1>2. M[a] = 0 /\ M[r] = L[r] + L[a] /\ \A b \in Addr \ {a, r} : M[b] = L[b]
    BY CloseEffect
  <1>3. M \in Ledgers
    BY <1>1 DEF close_program_account, Ledgers
  <1> HIDE DEF M
  <1>4. M[a] + M[r] = L[a] + L[r]
    BY <1>1, <1>2
  <1>5. SameTotal(L, M)
    BY <1>2, <1>3, <1>4, MovedTotal
  <1> QED
    BY <1>5 DEF M

\* ... and sweep_shard_excess, also when the treasury key is the shard itself:
\* nothing is created or destroyed.
LEMMA SweepOneTotal ==
    ASSUME NEW L \in Ledgers, NEW s, NEW r \in Addr, shards \subseteq Addr
    PROVE  SameTotal(L, sweep_one(L, s, r))
  <1> DEFINE floor  == minimum_balance(0)
             excess == SaturatingSub(L[s], floor)
             M      == sweep_one(L, s, r)
  <1>1. CASE s \notin shards \/ excess = 0
    <2>1. M = L
      BY <1>1 DEF sweep_one, sweep_shard_excess
    <2> QED
      BY <2>1, SameTotalStays
  <1>2. CASE s \in shards /\ excess # 0
    <2>1. s \in Addr /\ floor \in Int /\ L \in [Addr -> Int] /\ L[s] \in Int /\ L[r] \in Int
      BY <1>2, RentTypes DEF Ledgers
    <2>2. L[s] = floor + excess /\ excess \in Int
      BY <1>2, <2>1 DEF SaturatingSub
    <2>3. M = [[L EXCEPT ![s] = floor] EXCEPT ![r] = @ + excess]
      BY <1>2 DEF sweep_one, sweep_shard_excess
    <2> HIDE DEF floor, excess, M
    <2>4. /\ M \in [Addr -> Int]
          /\ \A b \in Addr \ {s, r} : M[b] = L[b]
          /\ r # s => M[s] = floor /\ M[r] = L[r] + excess
          /\ r = s => M[s] = L[s]
      BY <2>1, <2>2, <2>3
    <2>5. CASE r = s
      <3>1. M = L
        BY <2>1, <2>4, <2>5
      <3> QED
        BY <3>1, SameTotalStays DEF M
    <2>6. CASE r # s
      <3>1. M[s] + M[r] = L[s] + L[r]
        BY <2>1, <2>2, <2>4, <2>6
      <3>2. M \in Ledgers
        BY <2>4 DEF Ledgers
      <3>3. SameTotal(L, M)
        BY <2>1, <2>4, <2>6, <3>1, <3>2, MovedTotal
      <3> QED
        BY <3>3 DEF M
    <2> QED
      BY <2>5, <2>6
  <1> QED
    BY <1>1, <1>2

\* The loop of both sweeps, on a list of any length with any repetitions.
LEMMA SweptTotal ==
    ASSUME TypeOK, NEW list, Len(list) \in Nat, NEW r \in Addr
    PROVE  SameTotal(lamports, swept(list, r))
  <1>1. PICK f : /\ SweepTrace(f, Len(list), list, r)
                 /\ swept(list, r) = f[Len(list)]
    BY SweptUnfolds
  <1> DEFINE n == Len(list)
             S == {i \in Nat : i <= n => SameTotal(lamports, f[i])}
  <1>2. \A i \in 0..n : f[i] = IF i = 0 THEN lamports ELSE sweep_one(f[i - 1], list[i], r)
    BY <1>1 DEF SweepTrace
  <1>3. shards \subseteq Addr /\ lamports \in Ledgers
    BY BalancesAreLedger, PdaTypes, KeysApart DEF TypeOK
  <1>4. 0 \in S
    <2>1. f[0] = lamports
      BY <1>2
    <2> QED
      BY <1>3, <2>1, SameTotalStays
  <1>5. ASSUME NEW i \in Nat, i \in S PROVE i + 1 \in S
    <2> SUFFICES ASSUME i + 1 <= n PROVE SameTotal(lamports, f[i + 1])
      OBVIOUS
    <2>1. i + 1 \in 0..n /\ i + 1 # 0 /\ (i + 1) - 1 = i
      OBVIOUS
    <2>2. SameTotal(lamports, f[i]) /\ f[i] \in Ledgers
      BY <1>5 DEF SameTotal
    <2>3. f[i + 1] = sweep_one(f[i], list[i + 1], r)
      BY <1>2, <2>1
    <2>4. SameTotal(f[i], f[i + 1])
      BY <1>3, <2>2, <2>3, SweepOneTotal
    <2> QED
      BY <2>2, <2>4, SameTotalChain
  <1>6. Nat \subseteq S
    BY <1>4, <1>5, LoopInduction
  <1>7. n \in S
    BY <1>6
  <1> QED
    BY <1>1, <1>7

\* The balances of all addresses add up to the same number after the step.
TotalKept == SumFunction(lamports') = SumFunction(lamports)

\* process_init_settings and process_create_root_alloc.
LEMMA SetupTotal == TypeOK /\ SetupNext => TotalKept
  <1>1. ASSUME TypeOK, NEW w \in Wallets, NEW tr \in TreasuryInputs, InitSettings(w, tr)
        PROVE  TotalKept
    <2>1. lamports' = create_pda_account(lamports, w, derive_settings_pda, ProgramSettings_size)
      BY <1>1 DEF InitSettings, Commit
    <2>2. /\ w \in Addr /\ derive_settings_pda \in Addr /\ ProgramSettings_size \in Nat
          /\ lamports \in Ledgers
      BY <1>1, PdaTypes, KeysApart, SizeTypes, BalancesAreLedger
    <2> QED
      BY <2>1, <2>2, CreateTotal DEF SameTotal, TotalKept
  <1>2. ASSUME TypeOK, NEW w \in Wallets, NEW t \in Threads, NEW fee \in FeeInputs,
               NEW k \in TreasuryIdx, NEW title \in TitleInputs,
               CreateRootAlloc(w, t, fee, k, title)
        PROVE  TotalKept
    <2> DEFINE s    == derive_treasury_shard_pda(k)
               e    == derive_alloc_pda(t, 0)
               tl   == minimum_balance(ThreadNode_size(title))
               base == base_fee(tl + minimum_balance(AllocNode_size), settings.base_fee_bps)
               L1   == ensure_shard_initialized(lamports, w, s)
               L2   == transfer(L1, w, t, tl)
               L3   == collect_fee_to_shard(L2, base, w, s)
               L4   == create_pda_account(L3, w, e, AllocNode_size)
    <2>1. lamports' = L4 /\ validate_treasury_shard(k) /\ settings # NULL
      BY <1>2 DEF CreateRootAlloc, Commit, collect_base_fee
    <2>2. s \in Addr /\ w \in Addr /\ t \in Addr /\ e \in Addr
      <3>1. 0 \in AllocSeqs
        BY AccountsAssumption DEF AllocSeqs
      <3> QED
        BY <2>1, <3>1, TreasuryAddress, PdaTypes, KeysApart
    <2>3. lamports \in Ledgers /\ AllocNode_size \in Nat /\ ThreadNode_size(title) \in Nat
      BY <1>2, InputAssumption, BalancesAreLedger, SizeTypes
    <2>4. tl \in Nat /\ minimum_balance(AllocNode_size) \in Nat
      BY <2>3, RentTypes
    <2>5. base \in Nat
      <3>1. settings.base_fee_bps \in 0..BpsDenominator
        BY <1>2, <2>1, PriceTypes
      <3>2. tl + minimum_balance(AllocNode_size) \in Nat
        BY <2>4
      <3> QED
        BY <3>1, <3>2, BaseFeeTypes
    <2> HIDE DEF s, e, tl, base, L1, L2, L3, L4
    <2>6. SameTotal(lamports, L1) /\ L1 \in Ledgers
      BY <2>2, <2>3, OpenTotal DEF L1, SameTotal
    <2>7. SameTotal(L1, L2) /\ L2 \in Ledgers
      BY <2>2, <2>4, <2>6, TransferTotal DEF L2, SameTotal
    <2>8. SameTotal(L2, L3) /\ L3 \in Ledgers
      BY <2>2, <2>5, <2>7, CollectTotal DEF L3, SameTotal
    <2>9. SameTotal(L3, L4)
      BY <2>2, <2>3, <2>8, CreateTotal DEF L4
    <2> QED
      BY <2>1, <2>6, <2>7, <2>8, <2>9 DEF SameTotal, TotalKept
  <1> QED
    BY <1>1, <1>2 DEF SetupNext

\* process_sweep_treasury and process_sweep_author_fees.
LEMMA SweepTotal == TypeOK /\ SweepNext => TotalKept
  <1>1. ASSUME TypeOK, NEW idx \in SweepInputs, SweepTreasury(idx)
        PROVE  TotalKept
    <2> DEFINE list == [i \in DOMAIN idx |-> derive_treasury_shard_pda(idx[i])]
    <2>1. settings # NULL /\ lamports' = swept(list, settings.treasury)
      BY <1>1 DEF SweepTreasury, Commit, may_sweep_treasury, treasury_swept
    <2>2. settings.treasury \in Addr
      BY <1>1, <2>1 DEF TypeOK, ProgramSettings
    <2>3. Len(list) \in Nat
      <3>1. idx \in Seq(Nat)
        BY InputAssumption
      <3> QED
        BY <3>1
    <2> HIDE DEF list
    <2> QED
      BY <1>1, <2>1, <2>2, <2>3, SweptTotal DEF SameTotal, TotalKept
  <1>2. ASSUME TypeOK, NEW idx \in SweepInputs, NEW w \in Wallets, NEW t \in Threads,
               SweepAuthorFees(w, t, idx)
        PROVE  TotalKept
    <2> DEFINE list == [i \in DOMAIN idx |-> derive_author_fee_pda(t, idx[i])]
    <2>1. lamports' = swept(list, w)
      BY <1>2 DEF SweepAuthorFees, Commit, author_fees_swept
    <2>2. w \in Addr
      BY KeysApart
    <2>3. Len(list) \in Nat
      <3>1. idx \in Seq(Nat)
        BY InputAssumption
      <3> QED
        BY <3>1
    <2> HIDE DEF list
    <2> QED
      BY <1>2, <2>1, <2>2, <2>3, SweptTotal DEF SameTotal, TotalKept
  <1> QED
    BY <1>1, <1>2 DEF SweepNext

\* process_request_access.
LEMMA RequestTotal ==
    ASSUME TypeOK, NEW w \in Wallets, NEW t \in Threads, NEW k \in TreasuryIdx,
           NEW j \in AuthorIdx, RequestAccess(w, t, k, j)
    PROVE  TotalKept
  <1> DEFINE s   == derive_treasury_shard_pda(k)
             a   == derive_author_fee_pda(t, j)
             e   == derive_access_entry_pda(t, w)
             fee == access[t].entry_fee
             bps == settings.entry_cut_bps
             L1  == ensure_fee_shards_initialized(lamports, w, s, a)
             L2  == transfer_fee_split(L1, fee, bps, w, a, s)
             L3  == create_pda_account(L2, w, e, AccessEntry_size)
  <1>1. lamports' = L3
    BY DEF RequestAccess, Commit, set_access_entry_status
  <1>2. s \in Addr /\ a \in Addr /\ w \in Addr
    BY FeeAddresses DEF RequestAccess
  <1>3. e \in Addr /\ lamports \in Ledgers /\ AccessEntry_size \in Nat
    BY PdaTypes, KeysApart, BalancesAreLedger, SizeTypes
  <1>4. fee \in u64 /\ bps \in 0..BpsDenominator
    BY PriceTypes DEF RequestAccess
  <1> HIDE DEF s, a, e, fee, bps, L1, L2, L3
  <1>5. SameTotal(lamports, L1) /\ L1 \in Ledgers
    BY <1>2, <1>3, OpenBothTotal DEF L1, SameTotal
  <1>6. SameTotal(L1, L2) /\ L2 \in Ledgers
    BY <1>2, <1>4, <1>5, SplitTotal DEF L2, SameTotal
  <1>7. SameTotal(L2, L3)
    BY <1>2, <1>3, <1>6, CreateTotal DEF L3
  <1> QED
    BY <1>1, <1>5, <1>6, <1>7 DEF SameTotal, TotalKept

\* The instructions on membership.
LEMMA MembershipTotal == TypeOK /\ MembershipNext => TotalKept
  <1> SUFFICES ASSUME TypeOK, MembershipNext PROVE TotalKept
    OBVIOUS
  <1>1. PICK w \in Wallets, t \in Threads :
           \/ \E on \in BOOLEAN, k \in TreasuryIdx : InitThreadAccess(w, t, on, k)
           \/ \E on \in BOOLEAN : SetThreadAccess(w, t, on)
           \/ \E fee \in FeeInputs : SetEntryFee(w, t, fee)
           \/ \E v \in Wallets, status \in Statuses :
                 \/ apply_access_entry_status(w, t, v, status)
                 \/ remove_access_entry(w, t, v, status)
           \/ \E k \in TreasuryIdx, j \in AuthorIdx : RequestAccess(w, t, k, j)
    BY DEF MembershipNext, Statuses, AddToWhitelist, AddToBlacklist, AddToFeeWhitelist,
       RemoveFromWhitelist, RemoveFromBlacklist, RemoveFromFeeWhitelist
  <1>2. w \in Addr /\ lamports \in Ledgers
    BY KeysApart, BalancesAreLedger
  <1>3. ASSUME NEW on \in BOOLEAN, NEW k \in TreasuryIdx, InitThreadAccess(w, t, on, k)
        PROVE  TotalKept
    <2> DEFINE s   == derive_treasury_shard_pda(k)
               e   == derive_access_pda(t)
               fee == minimum_balance(ThreadAccess_size)
               L1  == ensure_shard_initialized(lamports, w, s)
               L2  == collect_fee_to_shard(L1, fee, w, s)
               L3  == create_pda_account(L2, w, e, ThreadAccess_size)
    <2>1. lamports' = L3 /\ validate_treasury_shard(k)
      BY <1>3 DEF InitThreadAccess, Commit
    <2>2. s \in Addr /\ e \in Addr /\ ThreadAccess_size \in Nat
      BY <2>1, TreasuryAddress, PdaTypes, KeysApart, SizeTypes
    <2>3. fee \in Nat
      BY <2>2, RentTypes
    <2> HIDE DEF s, e, fee, L1, L2, L3
    <2>4. SameTotal(lamports, L1) /\ L1 \in Ledgers
      BY <1>2, <2>2, OpenTotal DEF L1, SameTotal
    <2>5. SameTotal(L1, L2) /\ L2 \in Ledgers
      BY <1>2, <2>2, <2>3, <2>4, CollectTotal DEF L2, SameTotal
    <2>6. SameTotal(L2, L3)
      BY <1>2, <2>2, <2>5, CreateTotal DEF L3
    <2> QED
      BY <2>1, <2>4, <2>5, <2>6 DEF SameTotal, TotalKept
  <1>4. ASSUME \/ \E on \in BOOLEAN : SetThreadAccess(w, t, on)
               \/ \E fee \in FeeInputs : SetEntryFee(w, t, fee)
        PROVE  TotalKept
    <2>1. lamports' = lamports
      BY <1>4 DEF SetThreadAccess, SetEntryFee
    <2> QED
      BY <2>1 DEF TotalKept
  <1>5. ASSUME NEW v \in Wallets, NEW status \in Statuses,
               apply_access_entry_status(w, t, v, status)
        PROVE  TotalKept
    <2> DEFINE e == derive_access_entry_pda(t, v)
    <2>1. e \in Addr /\ AccessEntry_size \in Nat
      BY PdaTypes, KeysApart, SizeTypes
    <2>2. lamports' = IF entry[t][v] = NULL
                      THEN create_pda_account(lamports, w, e, AccessEntry_size) ELSE lamports
      BY <1>5 DEF apply_access_entry_status, set_access_entry_status, Commit
    <2> HIDE DEF e
    <2>3. SameTotal(lamports, create_pda_account(lamports, w, e, AccessEntry_size))
      BY <1>2, <2>1, CreateTotal
    <2> QED
      BY <2>2, <2>3 DEF SameTotal, TotalKept
  <1>6. ASSUME NEW v \in Wallets, NEW status \in Statuses, remove_access_entry(w, t, v, status)
        PROVE  TotalKept
    <2> DEFINE e == derive_access_entry_pda(t, v)
    <2>1. lamports' = close_program_account(lamports, e, w)
      BY <1>6 DEF remove_access_entry, Commit
    <2>2. e \in Addr /\ e # w
      BY PdaTypes, KeysApart
    <2> HIDE DEF e
    <2> QED
      BY <1>2, <2>1, <2>2, CloseTotal DEF SameTotal, TotalKept
  <1> QED
    BY <1>1, <1>3, <1>4, <1>5, <1>6, RequestTotal

\* process_fill_slot.
LEMMA FillTotal ==
    ASSUME TypeOK, NEW w \in Wallets, NEW t \in Threads, NEW body \in BodyInputs,
           NEW c \in CandidateInputs, NEW k \in TreasuryIdx, NEW j \in AuthorIdx,
           NEW m \in MaxFeeInputs, FillSlot(w, t, body, c, k, j, m)
    PROVE  TotalKept
  <1> DEFINE s     == derive_treasury_shard_pda(k)
             a     == derive_author_fee_pda(t, j)
             fee   == MessageFeeDue(w, t)
             bps   == settings.author_fee_cut_bps
             size  == ContentNode_size(Len(body))
             base  == MessageBaseFee(Len(body))
             L1    == ensure_fee_shards_initialized(lamports, w, s, a)
             L2(e) == create_pda_account(L1, w, e, size)
             L3(e) == collect_fee_to_shard(L2(e), base, w, s)
             L4(e) == transfer_fee_split(L3(e), fee, bps, w, a, s)
  <1>1. PICK i \in DOMAIN c :
          /\ FirstFree(t, c, i)
          /\ lamports' = L4(derive_content_pda(t, c[i][1], c[i][2]))
    BY DEF FillSlot, Commit, collect_base_fee, MessageFeeDue, MessageBaseFee
  <1> DEFINE id == <<t, c[i][1], c[i][2]>>
             e  == derive_content_pda(id[1], id[2], id[3])
  <1>2. c[i] \in u32 \X Nat /\ i \in 1..i
    BY InputAssumption
  <1>3. c[i][2] < CONTENT_SLOTS
    BY <1>1, <1>2 DEF FirstFree
  <1>4. id \in ContentIds
    BY <1>2, <1>3, AccountsAssumption DEF ContentIds, AllocSeqs, Slots, u32
  <1>5. lamports' = L4(e)
    BY <1>1
  <1>6. s \in Addr /\ a \in Addr /\ w \in Addr
    BY FeeAddresses DEF FillSlot
  <1> HIDE DEF id
  <1>7. e \in Addr /\ lamports \in Ledgers
    BY <1>4, PdaTypes, KeysApart, BalancesAreLedger
  <1>8. fee \in u64 /\ bps \in 0..BpsDenominator /\ settings.base_fee_bps \in 0..BpsDenominator
    BY PriceTypes DEF FillSlot, load_thread, MessageFeeDue
  <1>9. size \in Nat
    <2>1. Len(body) \in Nat
      BY InputAssumption
    <2> QED
      BY <2>1 DEF ContentNode_size
  <1>10. base \in Nat
    BY <1>8, <1>9, RentTypes, BaseFeeTypes DEF MessageBaseFee
  <1> DEFINE M2 == L2(e)
             M3 == L3(e)
             M4 == L4(e)
  <1> HIDE DEF s, a, e, fee, bps, size, base, L1
  <1>11. SameTotal(lamports, L1) /\ L1 \in Ledgers
    BY <1>6, <1>7, OpenBothTotal DEF L1, SameTotal
  <1>12. SameTotal(L1, M2) /\ M2 \in Ledgers
    BY <1>6, <1>7, <1>9, <1>11, CreateTotal DEF SameTotal
  <1>13. /\ M3 = collect_fee_to_shard(M2, base, w, s)
         /\ M4 = transfer_fee_split(M3, fee, bps, w, a, s)
         /\ lamports' = M4
    BY <1>5
  <1> HIDE DEF M2, M3, M4
  <1>14. SameTotal(M2, M3) /\ M3 \in Ledgers
    BY <1>6, <1>10, <1>12, <1>13, CollectTotal DEF SameTotal
  <1>15. SameTotal(M3, M4)
    BY <1>6, <1>8, <1>13, <1>14, SplitTotal
  <1> QED
    BY <1>11, <1>12, <1>13, <1>14, <1>15 DEF SameTotal, TotalKept

\* process_like_content.
LEMMA LikeTotal ==
    ASSUME TypeOK, NEW w \in Wallets, NEW t \in Threads, NEW seq \in AllocSeqs,
           NEW slot, NEW k \in TreasuryIdx, NEW j \in AuthorIdx, NEW m \in MaxFeeInputs,
           LikeContent(w, t, seq, slot, k, j, m)
    PROVE  TotalKept
  <1> DEFINE s    == derive_treasury_shard_pda(k)
             a    == derive_author_fee_pda(t, j)
             e    == derive_likes_pda(t, seq)
             page == <<t, seq>>
             paid == thread[t].like_fee > 0 /\ w # content[<<t, seq, slot>>].author
             fee  == thread[t].like_fee
             bps  == settings.like_cut_bps
             size == AllocLikes_size
             L1   == ensure_fee_shards_initialized(lamports, w, s, a)
             L2   == IF likes[page] = NULL THEN create_pda_account(L1, w, e, size) ELSE L1
             L3   == transfer_fee_split(L2, fee, bps, w, a, s)
  <1>1. lamports' = IF paid THEN L3 ELSE L2
    BY DEF LikeContent, Commit
  <1>2. s \in Addr /\ a \in Addr /\ w \in Addr
    BY FeeAddresses DEF LikeContent
  <1>3. e \in Addr /\ lamports \in Ledgers /\ size \in Nat
    BY PdaTypes, KeysApart, BalancesAreLedger, SizeTypes
  <1>4. fee \in u64 /\ bps \in 0..BpsDenominator
    BY PriceTypes DEF LikeContent, load_thread
  <1> HIDE DEF s, a, e, page, paid, fee, bps, size, L1, L2, L3
  <1>5. SameTotal(lamports, L1) /\ L1 \in Ledgers
    BY <1>2, <1>3, OpenBothTotal DEF L1, SameTotal
  <1>6. SameTotal(L1, L2) /\ L2 \in Ledgers
    BY <1>2, <1>3, <1>5, CreateTotal, SameTotalStays DEF L2, SameTotal
  <1>7. SameTotal(L2, L3)
    BY <1>2, <1>4, <1>6, SplitTotal DEF L3
  <1> QED
    BY <1>1, <1>5, <1>6, <1>7 DEF SameTotal, TotalKept

\* process_append_content.
LEMMA AppendTotal ==
    ASSUME TypeOK, NEW w \in Wallets, NEW id \in ContentIds, NEW chunk \in BodyInputs,
           NEW k \in TreasuryIdx, NEW j \in AuthorIdx, AppendContent(w, id, chunk, k, j)
    PROVE  TotalKept
  <1> DEFINE s     == derive_treasury_shard_pda(k)
             c     == derive_content_pda(id[1], id[2], id[3])
             old   == ContentNode_size(Len(content[id].body))
             size  == ContentNode_size(Len(content[id].body \o chunk))
             delta == SaturatingSub(minimum_balance(size), minimum_balance(old))
             base  == base_fee(delta, settings.base_fee_bps)
             L1    == ensure_rent_exempt(lamports, w, c, size)
             L2    == ensure_shard_initialized(L1, w, s)
             L3    == collect_fee_to_shard(L2, base, w, s)
  <1>1. /\ lamports' = IF delta > 0 THEN L3 ELSE L1
        /\ validate_treasury_shard(k) /\ settings # NULL /\ content[id] # NULL
    BY DEF AppendContent, Commit, collect_base_fee, validate_fee_shards, load_own_content
  <1>2. s \in Addr /\ w \in Addr /\ c \in Addr /\ lamports \in Ledgers
    BY <1>1, TreasuryAddress, PdaTypes, KeysApart, BalancesAreLedger
  <1>3. size \in Nat /\ old \in Nat
    <2>1. content[id].body \in Seq(Bytes)
      BY <1>1, BodiesAreSequences DEF TypeOK, ContentNode
    <2>2. chunk \in Seq(Bytes)
      BY InputAssumption
    <2>3. Len(content[id].body \o chunk) \in Nat /\ Len(content[id].body) \in Nat
      BY <2>1, <2>2
    <2> QED
      BY <2>3 DEF ContentNode_size
  <1> HIDE DEF size, old
  <1>4. delta \in Nat
    <2>1. minimum_balance(size) \in Int /\ minimum_balance(old) \in Int
      BY <1>3, RentTypes
    <2> QED
      BY <2>1, ArithmeticTypes
  <1>5. base \in Nat
    <2>1. settings.base_fee_bps \in 0..BpsDenominator
      BY <1>1, PriceTypes
    <2> QED
      BY <1>4, <2>1, BaseFeeTypes
  <1> HIDE DEF s, c, delta, base, L1, L2, L3
  <1>6. SameTotal(lamports, L1) /\ L1 \in Ledgers
    BY <1>2, <1>3, CreateTotal DEF L1, SameTotal
  <1>7. SameTotal(L1, L2) /\ L2 \in Ledgers
    BY <1>2, <1>6, OpenTotal DEF L2, SameTotal
  <1>8. SameTotal(L2, L3)
    BY <1>2, <1>5, <1>7, CollectTotal DEF L3
  <1> QED
    BY <1>1, <1>6, <1>7, <1>8 DEF SameTotal, TotalKept

\* The instructions on pages, deletions and follows, and plain transfers.
LEMMA OtherTotal ==
    ASSUME TypeOK, PageNext \/ DeleteNext \/ FollowNext \/ GiftNext
    PROVE  TotalKept
  <1>0. lamports \in Ledgers /\ \A w \in Wallets : w \in Addr
    BY BalancesAreLedger, KeysApart
  <1>1. ASSUME NEW w \in Wallets, NEW t \in Threads, NEW seq \in AllocSeqs, PrepareAlloc(w, t, seq)
        PROVE  TotalKept
    <2> DEFINE e == derive_alloc_pda(t, seq + 1)
    <2>1. lamports' = create_pda_account(lamports, w, e, AllocNode_size) /\ seq + 1 <= U32Max
      BY <1>1 DEF PrepareAlloc, Commit
    <2>2. seq + 1 \in AllocSeqs
      BY <2>1, AccountsAssumption DEF AllocSeqs
    <2>3. e \in Addr /\ AllocNode_size \in Nat
      BY <2>2, PdaTypes, KeysApart, SizeTypes
    <2> HIDE DEF e
    <2> QED
      BY <1>0, <2>1, <2>3, CreateTotal DEF SameTotal, TotalKept
  <1>2. ASSUME NEW w \in Wallets, NEW id \in ContentIds, NEW with_likes \in BOOLEAN,
               CloseAccount(w, id, with_likes)
        PROVE  TotalKept
    <2> DEFINE c == derive_content_pda(id[1], id[2], id[3])
    <2>1. lamports' = close_program_account(lamports, c, w)
      BY <1>2 DEF CloseAccount, Commit
    <2>2. c \in Addr /\ c # w
      BY PdaTypes, KeysApart
    <2> HIDE DEF c
    <2> QED
      BY <1>0, <2>1, <2>2, CloseTotal DEF SameTotal, TotalKept
  <1>3. ASSUME NEW w \in Wallets, NEW t \in Threads, Subscribe(w, t) PROVE TotalKept
    <2> DEFINE s        == <<t, follower_shard_index(w)>>
               r        == derive_follow_registry_pda(w)
               f        == derive_follower_shard_pda(s[1], s[2])
               channels == IF registry[w] = NULL THEN <<>> ELSE registry[w]
               size     == FollowRegistry_size(Len(Append(channels, t)))
               L1 == IF registry[w] = NULL
                     THEN create_pda_account(lamports, w, r, FollowRegistry_size(0))
                     ELSE lamports
               L2 == ensure_rent_exempt(L1, w, r, size)
               L3 == IF follower_shard[s] = NULL
                     THEN create_pda_account(L2, w, f, FollowerShard_size) ELSE L2
    <2>1. lamports' = L3
      BY <1>3 DEF Subscribe, Commit
    <2>2. size \in Nat /\ FollowRegistry_size(0) \in Nat /\ FollowerShard_size \in Nat
      <3>1. channels \in Seq(Threads)
        BY DEF TypeOK
      <3>2. Len(Append(channels, t)) \in Nat
        BY <3>1
      <3> QED
        BY <3>2 DEF FollowRegistry_size, FollowerShard_size
    <2>3. r \in Addr /\ f \in Addr
      <3>1. s \in FollowerShards
        BY FollowerShardTypes
      <3> QED
        BY <3>1, PdaTypes, KeysApart
    <2> HIDE DEF s, r, f, channels, size, L1, L2, L3
    <2>4. SameTotal(lamports, L1) /\ L1 \in Ledgers
      BY <1>0, <2>2, <2>3, CreateTotal, SameTotalStays DEF L1, SameTotal
    <2>5. SameTotal(L1, L2) /\ L2 \in Ledgers
      BY <1>0, <2>2, <2>3, <2>4, CreateTotal DEF L2, SameTotal
    <2>6. SameTotal(L2, L3)
      BY <1>0, <2>2, <2>3, <2>5, CreateTotal, SameTotalStays DEF L3
    <2> QED
      BY <2>1, <2>4, <2>5, <2>6 DEF SameTotal, TotalKept
  <1>4. ASSUME NEW w \in Wallets, NEW t \in Threads, Unsubscribe(w, t) PROVE TotalKept
    <2> DEFINE r      == derive_follow_registry_pda(w)
               size   == FollowRegistry_size(Len(registry[w]) - 1)
               refund == SaturatingSub(lamports[r], minimum_balance(size))
    <2>1. lamports' = transfer(lamports, r, w, refund)
      BY <1>4 DEF Unsubscribe, Commit
    <2>2. r \in Addr
      BY PdaTypes, KeysApart
    <2>3. size \in Nat
      <3>1. registry[w] \in Seq(Threads) /\ registry[w] # NULL
        BY <1>4 DEF TypeOK, Unsubscribe
      <3>2. PICK pos \in DOMAIN registry[w] :
               registry' = [registry EXCEPT ![w] = swap_remove(registry[w], pos)]
        BY <1>4 DEF Unsubscribe
      <3>3. Len(registry[w]) \in Nat /\ Len(registry[w]) >= 1
        BY <3>1, <3>2
      <3> QED
        BY <3>3 DEF FollowRegistry_size
    <2>4. refund \in Int
      <3> HIDE DEF r, size
      <3>1. minimum_balance(size) \in Int /\ lamports[r] \in Int
        BY <1>0, <2>2, <2>3, RentTypes DEF Ledgers
      <3>2. SaturatingSub(lamports[r], minimum_balance(size)) \in Nat
        BY <3>1, ArithmeticTypes
      <3> QED
        BY <3>2
    <2> HIDE DEF r, size, refund
    <2> QED
      BY <1>0, <2>1, <2>2, <2>4, TransferTotal DEF SameTotal, TotalKept
  <1>5. ASSUME NEW w \in Wallets, NEW gift \in GiftInputs, SystemTransfer(w, gift[1], gift[2])
        PROVE  TotalKept
    <2>1. gift[1] \in Addr /\ gift[2] \in u64
      BY InputAssumption
    <2>2. gift[2] \in Int
      BY <2>1, LedgerAssumption DEF u64
    <2>3. lamports' = transfer(lamports, w, gift[1], gift[2])
      BY <1>5 DEF SystemTransfer, Commit
    <2> QED
      BY <1>0, <2>1, <2>2, <2>3, TransferTotal DEF SameTotal, TotalKept
  <1> QED
    BY <1>1, <1>2, <1>3, <1>4, <1>5 DEF PageNext, DeleteNext, FollowNext, GiftNext

\* No step changes the total.
LEMMA NextTotal == TypeOK /\ [Next]_vars => TotalKept
  <1> SUFFICES ASSUME TypeOK, [Next]_vars PROVE TotalKept
    OBVIOUS
  <1>0. lamports' = lamports => TotalKept
    BY DEF TotalKept
  <1>1. CASE AdminNext \/ CutNext
    <2>1. settingsOnly
      BY <1>1 DEF AdminNext, CutNext, SetAdmin, SetTreasury, SetBaseFee, SetAuthorFeeCut,
         SetEntryCut, SetLikeCut
    <2> QED
      BY <1>0, <2>1 DEF settingsOnly
  <1>2. CASE PricingNext
    <2>1. threadOnly
      BY <1>2 DEF PricingNext, SetMessageFee, SetLikeFee
    <2> QED
      BY <1>0, <2>1 DEF threadOnly
  <1>3. CASE Tick \/ UNCHANGED vars
    BY <1>0, <1>3 DEF Tick, vars
  <1>4. CASE PostNext
    BY <1>4, FillTotal DEF PostNext
  <1>5. CASE AppendNext
    BY <1>5, AppendTotal DEF AppendNext
  <1>6. CASE LikeNext
    BY <1>6, LikeTotal DEF LikeNext
  <1> QED
    BY <1>1, <1>2, <1>3, <1>4, <1>5, <1>6, SetupTotal, SweepTotal, MembershipTotal, OtherTotal
    DEF Next

\* At the start the wallets hold everything.
LEMMA InitTotal == Init => Conservation
  <1> SUFFICES ASSUME Init PROVE SumFunction(lamports) = SumFunction(Genesis)
    BY DEF Conservation
  <1>1. /\ lamports = [a \in Addr |-> IF a \in Wallets THEN Genesis[a] ELSE 0]
        /\ Wallets \subseteq Addr /\ Genesis \in [Wallets -> 0..U64Max]
    BY AccountsAssumption DEF Init, Addr
  <1>2. DOMAIN lamports = Addr /\ DOMAIN Genesis = Wallets
    BY <1>1
  <1>3. /\ Numbers(lamports, Addr) /\ Numbers(lamports, Wallets)
        /\ Agree(lamports, Genesis, Wallets) /\ \A a \in Addr \ Wallets : lamports[a] = 0
    BY <1>1, LedgerAssumption DEF Numbers, Agree
  <1>4. IsFiniteSet(Addr) /\ IsFiniteSet(Wallets)
    BY AddrFinite, AccountsAssumption
  <1>5. SumFunctionOnSet(lamports, Addr) = SumFunctionOnSet(lamports, Wallets)
    BY <1>1, <1>3, <1>4, SumZeros
  <1>6. SumFunctionOnSet(lamports, Wallets) = SumFunctionOnSet(Genesis, Wallets)
    BY <1>3, <1>4, SumsAgree
  <1> QED
    BY <1>2, <1>5, <1>6 DEF SumFunction

\* The program neither creates nor destroys lamports (Conservation of the
\* vault run), for any number of wallets, channels, pages and shards: every
\* handler is a chain of helpers that each keep the total, the loop of the
\* sweeps included.
THEOREM ConservationCorrect == Spec => []Conservation
  <1>1. TypeOK /\ Conservation /\ [Next]_vars => Conservation'
    BY NextTotal DEF TotalKept, Conservation
  <1> QED
    BY <1>1, InitTotal, TypeCorrect, PTL DEF Spec

-----------------------------------------------------------------------------
(***************************************************************************)
(* What a shard holds can be swept.                                        *)
(***************************************************************************)

\* A sum of balances that are not negative is not negative.
LEMMA SumNonnegative ==
    ASSUME NEW S, IsFiniteSet(S), NEW f, Numbers(f, S), \A x \in S : f[x] >= 0
    PROVE  SumFunctionOnSet(f, S) >= 0
  <1> DEFINE N == {n \in Nat : \A T \in Small(S, n) : SumFunctionOnSet(f, T) >= 0}
  <1>0. ASSUME NEW T \in SUBSET S PROVE IsFiniteSet(T) /\ Numbers(f, T)
    BY <1>0, FS_Subset DEF Numbers
  <1>1. ASSUME NEW T \in SUBSET S, T = {} PROVE SumFunctionOnSet(f, T) >= 0
    <2>1. SumFunctionOnSet(f, T) = 0
      BY <1>0, <1>1, SumTakes
    <2> QED
      BY <2>1
  <1>2. 0 \in N
    <2>1. ASSUME NEW T \in Small(S, 0) PROVE SumFunctionOnSet(f, T) >= 0
      <3>1. T \in SUBSET S /\ IsFiniteSet(T) /\ Cardinality(T) <= 0
        BY <2>1, FS_Subset DEF Small
      <3>2. Cardinality(T) = 0
        BY <3>1, FS_CardinalityType
      <3>3. T = {}
        BY <3>1, <3>2, FS_EmptySet
      <3> QED
        BY <1>1, <3>1, <3>3
    <2> QED
      BY <2>1
  <1>3. ASSUME NEW n \in Nat, n \in N PROVE n + 1 \in N
    <2>1. ASSUME NEW T \in Small(S, n + 1) PROVE SumFunctionOnSet(f, T) >= 0
      <3>1. T \in SUBSET S /\ Cardinality(T) <= n + 1
        BY <2>1 DEF Small
      <3>2. CASE T = {}
        BY <1>1, <3>1, <3>2
      <3>3. CASE T # {}
        <4>1. PICK x : x \in T
          BY <3>3
        <4>2. /\ T \ {x} \in SUBSET S /\ Cardinality(T) \in Nat
              /\ Cardinality(T \ {x}) = Cardinality(T) - 1 /\ Cardinality(T \ {x}) \in Nat
          BY <3>1, <4>1, SmallerSubset
        <4>3. T \ {x} \in Small(S, n)
          BY <3>1, <4>2 DEF Small
        <4>4. SumFunctionOnSet(f, T \ {x}) >= 0
          BY <1>3, <4>3
        <4>5. SumFunctionOnSet(f, T \ {x}) \in Int
          BY <1>0, <4>2, SumTakes
        <4>6. SumFunctionOnSet(f, T) = f[x] + SumFunctionOnSet(f, T \ {x})
          BY <1>0, <3>1, <4>1, SumTakes
        <4>7. f[x] \in Int /\ f[x] >= 0
          BY <3>1, <4>1 DEF Numbers
        <4> QED
          BY <4>4, <4>5, <4>6, <4>7
      <3> QED
        BY <3>2, <3>3
    <2> QED
      BY <2>1
  <1>4. Nat \subseteq N
    BY <1>2, <1>3, LoopInduction
  <1>5. Cardinality(S) \in Nat /\ S \in Small(S, Cardinality(S))
    BY FS_CardinalityType, FS_Subset DEF Small
  <1> QED
    BY <1>4, <1>5

\* Two balances together are within the supply, so adding one to the other
\* does not overflow.
LEMMA PairWithinSupply ==
    ASSUME TypeOK, Conservation, NEW a \in Addr, NEW b \in Addr, a # b
    PROVE  lamports[a] + lamports[b] <= U64Max
  <1> DEFINE A == Addr \ {a}
             B == A \ {b}
  <1>1. /\ IsFiniteSet(Addr) /\ IsFiniteSet(A) /\ IsFiniteSet(B) /\ b \in A
    BY AddrFinite, FS_RemoveElement
  <1>2. DOMAIN lamports = Addr /\ \A x \in Addr : lamports[x] \in Nat
    BY LedgerAssumption DEF TypeOK, u64
  <1>3. /\ Numbers(lamports, Addr) /\ Numbers(lamports, A) /\ Numbers(lamports, B)
        /\ \A x \in B : lamports[x] >= 0
    BY <1>2 DEF Numbers
  <1> HIDE DEF B
  <1>4. SumFunctionOnSet(lamports, B) \in Int /\ SumFunctionOnSet(lamports, B) >= 0
    BY <1>1, <1>3, SumTakes, SumNonnegative
  <1>5. SumFunctionOnSet(lamports, A) = lamports[b] + SumFunctionOnSet(lamports, B)
    <2> HIDE DEF A
    <2> QED
      BY <1>1, <1>3, SumTakes DEF B
  <1>6. SumFunctionOnSet(lamports, Addr) = lamports[a] + SumFunctionOnSet(lamports, A)
    BY <1>1, <1>3, SumTakes
  <1>7. SumFunctionOnSet(lamports, Addr) <= U64Max
    BY <1>2, SupplyAssumption DEF Conservation, SumFunction
  <1> HIDE DEF A
  <1>8. lamports[a] \in Int /\ lamports[b] \in Int /\ U64Max \in Int
    BY <1>2, LedgerAssumption
  <1> QED
    BY <1>4, <1>5, <1>6, <1>7, <1>8

\* A shard that holds more than its rent pays all of it out when it is swept
\* alone.
LEMMA SweptAlone ==
    ASSUME TypeOK, Conservation, NEW s \in shards, NEW to \in Addr,
           NEW list, Len(list) = 1, list[1] = s,
           SaturatingSub(lamports[s], minimum_balance(0)) > 0,
           lamports[to] + SaturatingSub(lamports[s], minimum_balance(0)) >= minimum_balance(0)
    PROVE  /\ Accepted(swept(list, to))
           /\ to # s => /\ swept(list, to)[s] = minimum_balance(0)
                        /\ swept(list, to)[to] =
                             lamports[to] + SaturatingSub(lamports[s], minimum_balance(0))
  <1> DEFINE floor  == minimum_balance(0)
             excess == SaturatingSub(lamports[s], floor)
             L      == swept(list, to)
  <1>1. s \in Addr /\ lamports \in [Addr -> u64] /\ U64Max \in Nat
        /\ \A a \in Addr : lamports[a] \in Nat
    BY LedgerAssumption DEF TypeOK, u64, Addr, Pdas
  <1>2. floor \in Nat
    BY RentTypes
  <1>3. L = sweep_one(lamports, s, to)
    <2>0. Len(list) \in Nat
      OBVIOUS
    <2>1. PICK f : SweepTrace(f, Len(list), list, to) /\ L = f[Len(list)]
      BY <2>0, SweptUnfolds, Zenon
    <2>2. \A i \in 0..1 : f[i] = IF i = 0 THEN lamports ELSE sweep_one(f[i - 1], list[i], to)
      BY <2>1 DEF SweepTrace
    <2>3. f[0] = lamports /\ f[1] = sweep_one(f[0], list[1], to)
      BY <2>2
    <2> QED
      BY <2>1, <2>3
  <1> HIDE DEF L
  <1>4. excess \in Nat /\ excess > 0 /\ lamports[s] = floor + excess
        /\ lamports[to] + excess >= floor
    <2> HIDE DEF floor
    <2>1. lamports[s] \in Nat
      BY <1>1
    <2> QED
      BY <1>2, <2>1 DEF SaturatingSub, floor
  <1>5. L = [[lamports EXCEPT ![s] = floor] EXCEPT ![to] = @ + excess]
    BY <1>3, <1>4 DEF sweep_one, sweep_shard_excess
  <1> HIDE DEF floor, excess
  <1>6. CASE to = s
    <2>1. L = lamports
      BY <1>1, <1>4, <1>5, <1>6
    <2>2. Accepted(L)
      BY <1>1, <2>1 DEF Accepted
    <2> QED
      BY <1>6, <2>2 DEF L
  <1>7. CASE to # s
    <2>1. lamports[to] + lamports[s] <= U64Max
      BY <1>1, <1>7, PairWithinSupply
    <2>2. /\ L[s] = floor /\ L[to] = lamports[to] + excess
          /\ \A a \in Addr \ {s, to} : L[a] = lamports[a]
          /\ DOMAIN L = Addr /\ L = [a \in Addr |-> L[a]]
      BY <1>1, <1>5, <1>7
    <2>3. lamports[to] \in Nat /\ lamports[s] \in Nat /\ lamports[s] <= U64Max
      BY <1>1 DEF u64
    <2>4. floor \in u64 /\ lamports[to] + excess \in u64
      BY <1>1, <1>2, <1>4, <2>1, <2>3 DEF u64
    <2>5. \A a \in Addr : L[a] \in u64
      BY <1>1, <2>2, <2>4
    <2>6. L \in [Addr -> u64]
      BY <2>2, <2>5
    <2>7. ASSUME NEW a \in Addr, L[a] \notin {lamports[a], 0} PROVE L[a] >= floor
      BY <1>2, <1>4, <2>2, <2>7
    <2>8. Accepted(L)
      BY <2>6, <2>7 DEF Accepted, floor
    <2> QED
      BY <2>2, <2>8 DEF L, floor, excess
  <1> QED
    BY <1>6, <1>7

\* No collected fee is ever locked in (NoFeeLocked of the vault run):
\* one sweep of one shard passes the checks of process_sweep_treasury or
\* process_sweep_author_fees and pays out all the shard holds above its rent.
\* That the receiving balance does not overflow follows from the conservation
\* of lamports and the size of the supply.
THEOREM NoFeeLockedCorrect == Spec => []NoFeeLocked
  <1>1. ASSUME TypeOK, Conservation PROVE NoFeeLocked
    <2> DEFINE excess(s) == SaturatingSub(lamports[s], minimum_balance(0))
               payable(s, to) ==
                   /\ s \in shards
                   /\ excess(s) > 0
                   /\ lamports[to] + excess(s) >= minimum_balance(0)
               pays(L, s, to) ==
                   /\ Accepted(L)
                   /\ to # s => L[s] = minimum_balance(0) /\ L[to] = lamports[to] + excess(s)
    <2>1. ASSUME NEW s, NEW to \in Addr, payable(s, to),
                 NEW list, Len(list) = 1, list[1] = s
          PROVE  pays(swept(list, to), s, to)
      BY <1>1, <2>1, SweptAlone
    <2>2. ASSUME NEW k \in 0..(N_TREASURY_SHARDS - 1), settings # NULL,
                 payable(derive_treasury_shard_pda(k), settings.treasury)
          PROVE  /\ may_sweep_treasury(<<k>>)
                 /\ pays(treasury_swept(<<k>>), derive_treasury_shard_pda(k), settings.treasury)
      <3> DEFINE list == [i \in DOMAIN <<k>> |-> derive_treasury_shard_pda(<<k>>[i])]
      <3>1. settings.treasury \in Addr
        BY <1>1, <2>2 DEF TypeOK, ProgramSettings
      <3>2. Len(list) = 1 /\ list[1] = derive_treasury_shard_pda(k)
        OBVIOUS
      <3>3. may_sweep_treasury(<<k>>)
        BY <2>2, AccountsAssumption DEF may_sweep_treasury, validate_treasury_shard
      <3>4. treasury_swept(<<k>>) = swept(list, settings.treasury)
        BY DEF treasury_swept
      <3> HIDE DEF list, payable, pays
      <3>5. pays(swept(list, settings.treasury), derive_treasury_shard_pda(k), settings.treasury)
        BY <2>1, <2>2, <3>1, <3>2
      <3> QED
        BY <3>3, <3>4, <3>5
    <2>3. ASSUME NEW t \in Threads, NEW j \in 0..(N_AUTHOR_FEE_SHARDS - 1), thread[t] # NULL,
                 payable(derive_author_fee_pda(t, j), thread[t].author)
          PROVE  /\ may_sweep_author_fees(thread[t].author, t, <<j>>)
                 /\ pays(author_fees_swept(thread[t].author, t, <<j>>),
                         derive_author_fee_pda(t, j), thread[t].author)
      <3> DEFINE list == [i \in DOMAIN <<j>> |-> derive_author_fee_pda(t, <<j>>[i])]
                 w    == thread[t].author
      <3>1. w \in Addr
        BY <1>1, <2>3, KeysApart DEF TypeOK, ThreadNode
      <3>2. Len(list) = 1 /\ list[1] = derive_author_fee_pda(t, j)
        OBVIOUS
      <3>3. may_sweep_author_fees(w, t, <<j>>)
        BY <2>3, AccountsAssumption
           DEF may_sweep_author_fees, validate_author_fee_shard, load_author_thread, load_thread
      <3>4. author_fees_swept(w, t, <<j>>) = swept(list, w)
        BY DEF author_fees_swept
      <3> HIDE DEF list, payable, pays
      <3>5. pays(swept(list, w), derive_author_fee_pda(t, j), w)
        BY <2>1, <2>3, <3>1, <3>2
      <3> QED
        BY <3>3, <3>4, <3>5
    <2> QED
      BY <2>2, <2>3 DEF NoFeeLocked
  <1> QED
    BY <1>1, TypeCorrect, ConservationCorrect, PTL

\* The first n shards of the list that exist are down to their rent; the
\* recipient, which may be one of them, is not counted.
Drained(L, list, recipient, n) ==
    \A i \in 1..n : list[i] \in shards \ {recipient} => L[list[i]] = minimum_balance(0)

\* A turn of the loop drains one more and spares those before it, also when
\* they are the same shard.
LEMMA DrainTurn ==
    ASSUME TypeOK, ShardsRent, NEW list, NEW recipient \in Addr,
           NEW L, SweepInv(L, list, recipient),
           NEW n \in Nat, n + 1 \in 1..Len(list), Drained(L, list, recipient, n)
    PROVE  Drained(sweep_one(L, list[n + 1], recipient), list, recipient, n + 1)
  <1> DEFINE shard  == list[n + 1]
             floor  == minimum_balance(0)
             excess == SaturatingSub(L[shard], floor)
             M      == sweep_one(L, shard, recipient)
  <1>1. floor \in Nat /\ shards \subseteq Addr /\ L \in [Addr -> Int]
        /\ \A s \in shards : lamports[s] >= floor
    <2>1. floor \in Nat
      BY RentTypes
    <2>2. shards \subseteq Addr
      BY DEF TypeOK, Addr, Pdas
    <2>3. L \in [Addr -> Int]
      BY DEF SweepInv, Ledgers
    <2> QED
      BY <2>1, <2>2, <2>3 DEF ShardsRent
  <1>2. \A s \in shards : L[s] >= floor /\ L[s] \in Int
    BY <1>1 DEF SweepInv
  <1> HIDE DEF shard, floor, excess, M
  <1>3. \A s \in shards \ {recipient} : IF s = shard THEN M[s] = floor ELSE M[s] = L[s]
    <2>1. CASE shard \notin shards
      BY <2>1 DEF M, sweep_one
    <2>2. CASE shard \in shards /\ excess = 0
      <3>1. L[shard] = floor
        BY <1>1, <1>2, <2>2 DEF excess, SaturatingSub
      <3>2. M = L
        BY <2>2 DEF M, sweep_one, sweep_shard_excess, excess, floor
      <3> QED
        BY <3>1, <3>2
    <2>3. CASE shard \in shards /\ excess # 0
      <3>1. M = [[L EXCEPT ![shard] = floor] EXCEPT ![recipient] = @ + excess]
        BY <2>3 DEF M, sweep_one, sweep_shard_excess, excess, floor
      <3> QED
        BY <1>1, <3>1
    <2> QED
      BY <2>1, <2>2, <2>3
  <1>4. ASSUME NEW i \in 1..(n + 1), list[i] \in shards \ {recipient}
        PROVE  M[list[i]] = floor
    <2>1. CASE list[i] = shard
      BY <1>3, <1>4, <2>1
    <2>2. CASE list[i] # shard
      <3>1. i \in 1..n
        BY <1>4, <2>2 DEF shard
      <3>2. L[list[i]] = floor
        BY <1>4, <3>1 DEF Drained, floor
      <3> QED
        BY <1>3, <1>4, <2>2, <3>2
    <2> QED
      BY <2>1, <2>2
  <1> QED
    BY <1>4 DEF Drained, M, floor, shard

\* So all of them are drained when the loop ends.
LEMMA SweptDrained ==
    ASSUME TypeOK, ShardsRent, NEW list, Len(list) \in Nat, NEW recipient \in Addr
    PROVE  Drained(swept(list, recipient), list, recipient, Len(list))
  <1>1. PICK f : /\ SweepTrace(f, Len(list), list, recipient)
                 /\ swept(list, recipient) = f[Len(list)]
    BY SweptUnfolds
  <1> DEFINE n == Len(list)
             S == {i \in Nat : i <= n => /\ SweepInv(f[i], list, recipient)
                                         /\ Drained(f[i], list, recipient, i)}
  <1>2. \A i \in 0..n :
           f[i] = IF i = 0 THEN lamports ELSE sweep_one(f[i - 1], list[i], recipient)
    BY <1>1 DEF SweepTrace
  <1>3. 0 \in S
    <2>1. f[0] = lamports
      BY <1>2
    <2>2. lamports \in [Addr -> Int]
      BY LedgerAssumption DEF TypeOK, u64
    <2>3. SweepInv(lamports, list, recipient)
      BY <2>2 DEF SweepInv, Ledgers
    <2>4. Drained(lamports, list, recipient, 0)
      BY DEF Drained
    <2> QED
      BY <2>1, <2>3, <2>4
  <1>4. ASSUME NEW i \in Nat, i \in S PROVE i + 1 \in S
    <2> SUFFICES ASSUME i + 1 <= n
                 PROVE  /\ SweepInv(f[i + 1], list, recipient)
                        /\ Drained(f[i + 1], list, recipient, i + 1)
      OBVIOUS
    <2>1. i + 1 \in 1..n /\ i + 1 \in 0..n /\ i + 1 # 0 /\ (i + 1) - 1 = i
      OBVIOUS
    <2>2. SweepInv(f[i], list, recipient) /\ Drained(f[i], list, recipient, i)
      BY <1>4
    <2>3. f[i + 1] = sweep_one(f[i], list[i + 1], recipient)
      BY <1>2, <2>1
    <2>4. SweepInv(sweep_one(f[i], list[i + 1], recipient), list, recipient)
      BY <2>1, <2>2, SweepTurn
    <2>5. Drained(sweep_one(f[i], list[i + 1], recipient), list, recipient, i + 1)
      BY <2>1, <2>2, DrainTurn
    <2> QED
      BY <2>3, <2>4, <2>5
  <1>5. Nat \subseteq S
    BY <1>3, <1>4, LoopInduction
  <1>6. n \in S
    BY <1>5
  <1> QED
    BY <1>1, <1>6

\* A sweep leaves every listed shard that exists at its rent exactly
\* (SweepDrains of the vault run), for lists of any length with any repetition
\* (the loop of process_sweep_treasury and process_sweep_author_fees).
THEOREM SweepDrainsCorrect == Spec => []SweepDrains
  <1>1. ASSUME TypeOK, ShardsRent PROVE SweepDrains
    <2>1. ASSUME NEW idx \in SweepInputs, settings # NULL, NEW i \in DOMAIN idx,
                 derive_treasury_shard_pda(idx[i]) \in shards \ {settings.treasury}
          PROVE  treasury_swept(idx)[derive_treasury_shard_pda(idx[i])] = minimum_balance(0)
      <3> DEFINE list == [n \in DOMAIN idx |-> derive_treasury_shard_pda(idx[n])]
      <3>1. settings.treasury \in Addr
        BY <1>1, <2>1 DEF TypeOK, ProgramSettings
      <3>2. idx \in Seq(Nat)
        BY InputAssumption
      <3>3. /\ Len(list) \in Nat /\ i \in 1..Len(list)
            /\ list[i] = derive_treasury_shard_pda(idx[i])
        BY <2>1, <3>2
      <3>4. treasury_swept(idx) = swept(list, settings.treasury)
        BY DEF treasury_swept
      <3> HIDE DEF list
      <3>5. Drained(swept(list, settings.treasury), list, settings.treasury, Len(list))
        BY <1>1, <3>1, <3>3, SweptDrained
      <3> QED
        BY <2>1, <3>3, <3>4, <3>5 DEF Drained
    <2>2. ASSUME NEW idx \in SweepInputs, NEW w \in Wallets, NEW t \in Threads,
                 NEW i \in DOMAIN idx, derive_author_fee_pda(t, idx[i]) \in shards
          PROVE  author_fees_swept(w, t, idx)[derive_author_fee_pda(t, idx[i])]
                     = minimum_balance(0)
      <3> DEFINE list == [n \in DOMAIN idx |-> derive_author_fee_pda(t, idx[n])]
      <3>1. w \in Addr /\ derive_author_fee_pda(t, idx[i]) # w
        <4>1. shards \subseteq Pdas
          BY <1>1 DEF TypeOK, Pdas
        <4> QED
          BY <2>2, <4>1, KeysApart
      <3>2. idx \in Seq(Nat)
        BY InputAssumption
      <3>3. /\ Len(list) \in Nat /\ i \in 1..Len(list)
            /\ list[i] = derive_author_fee_pda(t, idx[i])
        BY <2>2, <3>2
      <3>4. author_fees_swept(w, t, idx) = swept(list, w)
        BY DEF author_fees_swept
      <3> HIDE DEF list
      <3>5. Drained(swept(list, w), list, w, Len(list))
        BY <1>1, <3>1, <3>3, SweptDrained
      <3> QED
        BY <2>2, <3>1, <3>3, <3>4, <3>5 DEF Drained
    <2>3. \A idx \in SweepInputs : may_sweep_treasury(idx) => settings # NULL
      BY DEF may_sweep_treasury
    <2> QED
      BY <2>1, <2>2, <2>3 DEF SweepDrains
  <1>2. Rent => ShardsRent
    BY DEF Rent
  <1> QED
    BY <1>1, <1>2, TypeCorrect, RentInvariant, PTL


-----------------------------------------------------------------------------
(***************************************************************************)
(* The fee shards implement the vaults of FeeVaults.                       *)
(***************************************************************************)

\* A channel is created only once the program is set up
\* (process_create_root_alloc loads the settings), so the owners of the shards
\* of a channel's instructions are known.
SettledFirst == \A t \in Threads : thread[t] # NULL => settings # NULL

\* The shard s has an owner.
HasOwner(s) ==
    /\ settings # NULL
    /\ s \in TreasuryShards \/ \E t \in Threads : thread[t] # NULL /\ s \in AuthorShards(t)

\* The shards a step adds have one, and none is taken away.
ShardsOpen == shards \subseteq shards' /\ \A s \in shards' \ shards : HasOwner(s)

\* The two shards an instruction on a channel may create.
LEMMA OpenedShards ==
    ASSUME NEW t \in Threads, NEW k \in TreasuryIdx, NEW T,
           settings # NULL, validate_treasury_shard(k),
           \A s \in T : \/ s = derive_treasury_shard_pda(k)
                        \/ /\ thread[t] # NULL
                           /\ \E j \in AuthorIdx : /\ validate_author_fee_shard(j)
                                                   /\ s = derive_author_fee_pda(t, j),
           shards' = shards_initialized(T)
    PROVE  ShardsOpen
  <1>1. derive_treasury_shard_pda(k) \in TreasuryShards
    <2>1. k \in 0..(N_TREASURY_SHARDS - 1)
      BY AccountsAssumption DEF TreasuryIdx, validate_treasury_shard
    <2> QED
      BY <2>1 DEF TreasuryShards
  <1>2. ASSUME NEW j \in AuthorIdx, validate_author_fee_shard(j)
        PROVE  derive_author_fee_pda(t, j) \in AuthorShards(t)
    <2>1. j \in 0..(N_AUTHOR_FEE_SHARDS - 1)
      BY <1>2, AccountsAssumption DEF AuthorIdx, validate_author_fee_shard
    <2> QED
      BY <2>1 DEF AuthorShards
  <1>3. shards' = shards \cup T
    BY DEF shards_initialized
  <1>4. \A s \in T : HasOwner(s)
    BY <1>1, <1>2 DEF HasOwner
  <1> QED
    BY <1>3, <1>4 DEF ShardsOpen

\* The instructions on membership.  process_init_thread_access creates a shard
\* of the treasury without reading the settings.
LEMMA MembershipOpens ==
    ASSUME TypeOK, SettledFirst, MembershipNext
    PROVE  settings' = settings /\ ShardsOpen
  <1>1. PICK w \in Wallets, t \in Threads :
           \/ \E on \in BOOLEAN, k \in TreasuryIdx : InitThreadAccess(w, t, on, k)
           \/ \E on \in BOOLEAN : SetThreadAccess(w, t, on)
           \/ \E fee \in FeeInputs : SetEntryFee(w, t, fee)
           \/ \E v \in Wallets, status \in Statuses :
                 \/ apply_access_entry_status(w, t, v, status)
                 \/ remove_access_entry(w, t, v, status)
           \/ \E k \in TreasuryIdx, j \in AuthorIdx : RequestAccess(w, t, k, j)
    BY DEF MembershipNext, Statuses, AddToWhitelist, AddToBlacklist, AddToFeeWhitelist,
       RemoveFromWhitelist, RemoveFromBlacklist, RemoveFromFeeWhitelist
  <1>2. ASSUME NEW on \in BOOLEAN, NEW k \in TreasuryIdx, InitThreadAccess(w, t, on, k)
        PROVE  settings' = settings /\ ShardsOpen
    <2>1. /\ settings' = settings /\ thread[t] # NULL /\ validate_treasury_shard(k)
          /\ shards' = shards_initialized({derive_treasury_shard_pda(k)})
      BY <1>2 DEF InitThreadAccess, load_author_thread, load_thread
    <2>2. settings # NULL
      BY <2>1 DEF SettledFirst
    <2> QED
      BY <2>1, <2>2, OpenedShards
  <1>3. ASSUME NEW k \in TreasuryIdx, NEW j \in AuthorIdx, RequestAccess(w, t, k, j)
        PROVE  settings' = settings /\ ShardsOpen
    <2>1. /\ settings' = settings /\ settings # NULL /\ thread[t] # NULL
          /\ validate_treasury_shard(k) /\ validate_author_fee_shard(j)
          /\ shards' = shards_initialized({derive_treasury_shard_pda(k),
                                           derive_author_fee_pda(t, j)})
      BY <1>3 DEF RequestAccess, load_thread, validate_fee_shards
    <2> QED
      BY <2>1, OpenedShards
  <1>4. ASSUME \/ \E on \in BOOLEAN : SetThreadAccess(w, t, on)
               \/ \E fee \in FeeInputs : SetEntryFee(w, t, fee)
               \/ \E v \in Wallets, status \in Statuses :
                     \/ apply_access_entry_status(w, t, v, status)
                     \/ remove_access_entry(w, t, v, status)
        PROVE  settings' = settings /\ ShardsOpen
    BY <1>4 DEF SetThreadAccess, SetEntryFee, apply_access_entry_status, remove_access_entry,
       ShardsOpen
  <1> QED
    BY <1>1, <1>2, <1>3, <1>4

\* The other instructions that collect fees.
LEMMA PaidOpens ==
    ASSUME TypeOK, PostNext \/ AppendNext \/ LikeNext
    PROVE  settings' = settings /\ ShardsOpen
  <1>1. ASSUME NEW w \in Wallets, NEW t \in Threads, NEW body \in BodyInputs,
               NEW c \in CandidateInputs, NEW k \in TreasuryIdx, NEW j \in AuthorIdx,
               NEW m \in MaxFeeInputs, FillSlot(w, t, body, c, k, j, m)
        PROVE  settings' = settings /\ ShardsOpen
    <2>1. /\ settings' = settings /\ settings # NULL /\ thread[t] # NULL
          /\ validate_treasury_shard(k) /\ validate_author_fee_shard(j)
          /\ shards' = shards_initialized({derive_treasury_shard_pda(k),
                                           derive_author_fee_pda(t, j)})
      BY <1>1 DEF FillSlot, load_thread, validate_fee_shards
    <2> QED
      BY <2>1, OpenedShards
  <1>2. ASSUME NEW w \in Wallets, NEW t \in Threads, NEW seq \in AllocSeqs,
               NEW slot \in 0..CONTENT_SLOTS, NEW k \in TreasuryIdx, NEW j \in AuthorIdx,
               NEW m \in MaxFeeInputs, LikeContent(w, t, seq, slot, k, j, m)
        PROVE  settings' = settings /\ ShardsOpen
    <2>1. /\ settings' = settings /\ settings # NULL /\ thread[t] # NULL
          /\ validate_treasury_shard(k) /\ validate_author_fee_shard(j)
          /\ shards' = shards_initialized({derive_treasury_shard_pda(k),
                                           derive_author_fee_pda(t, j)})
      BY <1>2 DEF LikeContent, load_thread, validate_fee_shards
    <2> QED
      BY <2>1, OpenedShards
  <1>3. ASSUME NEW w \in Wallets, NEW id \in ContentIds, NEW chunk \in BodyInputs,
               NEW k \in TreasuryIdx, NEW j \in AuthorIdx, AppendContent(w, id, chunk, k, j)
        PROVE  settings' = settings /\ ShardsOpen
    <2>1. /\ settings' = settings /\ settings # NULL /\ validate_treasury_shard(k)
          /\ \/ shards' = shards_initialized({derive_treasury_shard_pda(k)})
             \/ shards' = shards
      BY <1>3 DEF AppendContent, validate_fee_shards
    <2>2. id[1] \in Threads
      BY DEF ContentIds
    <2>3. CASE shards' = shards
      BY <2>1, <2>3 DEF ShardsOpen
    <2>4. CASE shards' = shards_initialized({derive_treasury_shard_pda(k)})
      BY <2>1, <2>2, <2>4, OpenedShards
    <2> QED
      BY <2>1, <2>3, <2>4
  <1> QED
    BY <1>1, <1>2, <1>3 DEF PostNext, LikeNext, AppendNext

\* The instructions that create the settings and channels.
LEMMA SetupOpens ==
    ASSUME TypeOK, SetupNext
    PROVE  /\ settings # NULL => settings' = settings
           /\ ShardsOpen
           /\ thread' = thread \/ settings # NULL
  <1>1. ASSUME NEW w \in Wallets, NEW tr \in TreasuryInputs, InitSettings(w, tr)
        PROVE  settings = NULL /\ shards' = shards /\ thread' = thread
    BY <1>1 DEF InitSettings, boardVars
  <1>2. ASSUME NEW w \in Wallets, NEW t \in Threads, NEW fee \in FeeInputs,
               NEW k \in TreasuryIdx, NEW title \in TitleInputs,
               CreateRootAlloc(w, t, fee, k, title)
        PROVE  settings' = settings /\ settings # NULL /\ ShardsOpen
    <2>1. /\ settings' = settings /\ settings # NULL /\ validate_treasury_shard(k)
          /\ shards' = shards_initialized({derive_treasury_shard_pda(k)})
      BY <1>2 DEF CreateRootAlloc
    <2> QED
      BY <2>1, OpenedShards
  <1> QED
    BY <1>1, <1>2 DEF SetupNext, ShardsOpen


\* The settings never disappear, and only process_set_treasury replaces the
\* treasury.
LEMMA TreasuryFrame ==
    ASSUME TypeOK, SettledFirst, [Next]_vars, settings # NULL
    PROVE  /\ settings' # NULL
           /\ ~AdminNext => settings'.treasury = settings.treasury
  <1>0. settings \in ProgramSettings
    BY DEF TypeOK
  <1>1. CASE AdminNext
    <2>1. ASSUME NEW w \in Wallets, NEW v \in Wallets, SetAdmin(w, v) PROVE settings' # NULL
      <3>1. settings' = [settings EXCEPT !.admin = v]
        BY <2>1 DEF SetAdmin
      <3>2. settings' \in ProgramSettings
        BY <1>0, <3>1 DEF ProgramSettings
      <3> QED
        BY <3>2, NullAssumption
    <2>2. ASSUME NEW w \in Wallets, NEW tr \in TreasuryInputs, SetTreasury(w, tr)
          PROVE  settings' # NULL
      <3>1. settings' = [settings EXCEPT !.treasury = tr] /\ tr \in Addr
        BY <2>2, InputAssumption DEF SetTreasury
      <3>2. settings' \in ProgramSettings
        BY <1>0, <3>1 DEF ProgramSettings
      <3> QED
        BY <3>2, NullAssumption
    <2> QED
      BY <1>1, <2>1, <2>2 DEF AdminNext
  <1>2. CASE CutNext
    <2>1. PICK bps \in Bps : \/ settings' = [settings EXCEPT !.base_fee_bps = bps]
                             \/ settings' = [settings EXCEPT !.author_fee_cut_bps = bps]
                             \/ settings' = [settings EXCEPT !.entry_cut_bps = bps]
                             \/ settings' = [settings EXCEPT !.like_cut_bps = bps]
      <3>1. ASSUME NEW w \in Wallets, NEW bps \in BpsInputs, update_platform_setting(w, bps)
            PROVE  bps \in Bps
        BY <3>1, InputAssumption, AccountsAssumption DEF update_platform_setting, Bps
      <3> QED
        BY <1>2, <3>1 DEF CutNext, SetBaseFee, SetAuthorFeeCut, SetEntryCut, SetLikeCut
    <2>2. settings' \in ProgramSettings /\ settings'.treasury = settings.treasury
      BY <1>0, <2>1 DEF ProgramSettings
    <2> QED
      BY <2>2, NullAssumption
  <1>3. settings' = settings \/ AdminNext \/ CutNext
    <2>1. CASE SweepNext \/ GiftNext \/ Tick \/ UNCHANGED vars
      BY <2>1 DEF SweepNext, SweepTreasury, SweepAuthorFees, GiftNext, SystemTransfer, Tick, vars
    <2>2. CASE PageNext \/ DeleteNext \/ PricingNext \/ FollowNext
      BY <2>2 DEF PageNext, PrepareAlloc, DeleteNext, CloseAccount, PricingNext, SetMessageFee,
         SetLikeFee, threadOnly, FollowNext, Subscribe, Unsubscribe, followOnly
    <2> QED
      BY <2>1, <2>2, SetupOpens, MembershipOpens, PaidOpens DEF Next
  <1> QED
    BY <1>1, <1>2, <1>3

\* No channel comes into being before the settings.
LEMMA SettledInvariant == Spec => []SettledFirst
  <1>1. Init => SettledFirst
    BY DEF Init, SettledFirst
  <1>2. ASSUME TypeOK, SettledFirst, [Next]_vars PROVE SettledFirst'
    <2> SUFFICES ASSUME NEW t \in Threads, thread'[t] # NULL PROVE settings' # NULL
      BY DEF SettledFirst
    <2>0. thread \in [Threads -> ThreadNode \cup {NULL}]
      BY <1>2 DEF TypeOK
    <2>1. CASE SetupNext
      <3>1. thread' = thread \/ settings # NULL
        BY <1>2, <2>1, SetupOpens
      <3>2. settings # NULL
        BY <1>2, <3>1 DEF SettledFirst
      <3> QED
        BY <1>2, <3>2, TreasuryFrame
    <2>2. CASE PageNext \/ PricingNext
      <3>1. PICK u \in Threads : /\ thread[u] # NULL
                                 /\ \E node : thread' = [thread EXCEPT ![u] = node]
        BY <2>2 DEF PageNext, PrepareAlloc, load_thread, PricingNext, SetMessageFee, SetLikeFee,
           load_author_thread
      <3>2. thread[u] # NULL => settings # NULL
        BY <1>2 DEF SettledFirst
      <3> QED
        BY <1>2, <3>1, <3>2, TreasuryFrame
    <2>3. CASE ~SetupNext /\ ~PageNext /\ ~PricingNext
      <3>1. thread' = thread
        BY <1>2, <2>3, BoardFrame, MessageFrame DEF boardVars
      <3>2. settings # NULL
        BY <1>2, <3>1 DEF SettledFirst
      <3> QED
        BY <1>2, <3>2, TreasuryFrame
    <2> QED
      BY <2>1, <2>2, <2>3
  <1> QED
    BY <1>1, <1>2, TypeCorrect, PTL DEF Spec

\* Every step opens shards for their owners only.
LEMMA NextOpens ==
    ASSUME TypeOK, SettledFirst, [Next]_vars
    PROVE  ShardsOpen
  <1>1. CASE SweepNext \/ GiftNext \/ Tick \/ UNCHANGED vars
    <2>1. shards' = shards
      BY <1>1 DEF SweepNext, SweepTreasury, SweepAuthorFees, GiftNext, SystemTransfer, Tick, vars
    <2> QED
      BY <2>1 DEF ShardsOpen
  <1>2. CASE AdminNext \/ CutNext
    <2>1. settingsOnly
      BY <1>2 DEF AdminNext, CutNext, SetAdmin, SetTreasury, SetBaseFee, SetAuthorFeeCut,
         SetEntryCut, SetLikeCut
    <2> QED
      BY <2>1 DEF settingsOnly, ShardsOpen
  <1>3. CASE PageNext \/ DeleteNext \/ PricingNext \/ FollowNext
    <2>1. shards' = shards
      BY <1>3 DEF PageNext, PrepareAlloc, DeleteNext, CloseAccount, PricingNext, SetMessageFee,
         SetLikeFee, threadOnly, FollowNext, Subscribe, Unsubscribe, followOnly
    <2> QED
      BY <2>1 DEF ShardsOpen
  <1> QED
    BY <1>1, <1>2, <1>3, SetupOpens, MembershipOpens, PaidOpens DEF Next


\* The owners of the fee shards under the settings set and the threads thr.
Owners(set, thr) ==
    [s \in FeeShards |->
        IF s \in TreasuryShards THEN IF set = NULL THEN NULL ELSE set.treasury
        ELSE IF thr[s[2]] = NULL THEN NULL ELSE thr[s[2]].author]

LEMMA OwnersBySeeds ==
    ASSUME NEW set, NEW thr
    PROVE  /\ \A v \in TreasuryShards :
                Owners(set, thr)[v] = IF set = NULL THEN NULL ELSE set.treasury
           /\ \A t \in Threads : \A v \in AuthorShards(t) :
                Owners(set, thr)[v] = IF thr[t] = NULL THEN NULL ELSE thr[t].author
  <1>1. \A t \in Threads : \A v \in AuthorShards(t) :
           v \in FeeShards /\ v \notin TreasuryShards /\ v[2] = t
    <2>1. \A t : \A v \in AuthorShards(t) : v[2] = t
      BY DEF AuthorShards, derive_author_fee_pda
    <2>2. "author_fee" # "treasury_shard"
      OBVIOUS
    <2> QED
      BY <2>1, <2>2, ShardSeeds
  <1>2. \A v \in TreasuryShards : v \in FeeShards
    BY ShardSeeds
  <1> QED
    BY <1>1, <1>2 DEF Owners

LEMMA OwnersNow ==
    VaultOwner = Owners(settings, thread) /\ VaultOwner' = Owners(settings', thread')
  BY DEF VaultOwner, Owners

\* Whoever owns a shard keeps it, unless the treasury is replaced.
LEMMA OwnersKept ==
    ASSUME TypeOK, SettledFirst, [Next]_vars, NEW v \in FeeShards, VaultOwner[v] # NULL
    PROVE  v \notin TreasuryShards \/ ~AdminNext => VaultOwner'[v] = VaultOwner[v]
  <1>1. CASE v \in TreasuryShards
    <2>1. settings # NULL
      BY <1>1, OwnersNow, OwnersBySeeds
    <2>2. settings' # NULL /\ (~AdminNext => settings'.treasury = settings.treasury)
      BY <2>1, TreasuryFrame
    <2> QED
      BY <1>1, <2>1, <2>2, OwnersNow, OwnersBySeeds
  <1>2. CASE v \notin TreasuryShards
    <2>1. PICK t \in Threads : v \in AuthorShards(t)
      BY <1>2 DEF FeeShards
    <2>2. thread[t] # NULL
      BY <2>1, OwnersNow, OwnersBySeeds
    <2>3. thread'[t] # NULL /\ thread'[t].author = thread[t].author
      BY <2>2, ThreadFrame
    <2> QED
      BY <2>1, <2>2, <2>3, OwnersNow, OwnersBySeeds
  <1> QED
    BY <1>1, <1>2

\* A shard with an owner still has one after the step.
LEMMA OwnerStays ==
    ASSUME TypeOK, TypeOK', SettledFirst, [Next]_vars, NEW v, HasOwner(v)
    PROVE  VaultOwner'[v] # NULL
  <1>1. settings' # NULL
    BY TreasuryFrame DEF HasOwner
  <1>2. CASE v \in TreasuryShards
    <2>1. settings' \in ProgramSettings
      BY <1>1 DEF TypeOK
    <2>2. settings'.treasury \in Addr
      BY <2>1 DEF ProgramSettings
    <2>3. settings'.treasury # NULL
      BY <2>2, NullAssumption DEF Addr
    <2> QED
      BY <1>1, <1>2, <2>3, OwnersNow, OwnersBySeeds
  <1>3. CASE v \notin TreasuryShards
    <2>1. PICK t \in Threads : thread[t] # NULL /\ v \in AuthorShards(t)
      BY <1>3 DEF HasOwner
    <2>2. thread'[t] # NULL
      BY <2>1, ThreadFrame
    <2>3. thread'[t] \in ThreadNode
      BY <2>2 DEF TypeOK
    <2>4. thread'[t].author \in Wallets
      BY <2>3 DEF ThreadNode
    <2>5. thread'[t].author # NULL
      BY <2>4, NullAssumption
    <2> QED
      BY <2>1, <2>2, <2>5, OwnersNow, OwnersBySeeds
  <1> QED
    BY <1>2, <1>3


\* A step in which no fee shard falls is business as usual.
LEMMA CollectStep ==
    ASSUME TypeOK, TypeOK', SettledFirst, [Next]_vars, ~AdminNext,
           \A v \in FeeShards : lamports'[v] >= lamports[v]
    PROVE  Vault!VaultsNext
  <1>1. ShardsOpen
    BY NextOpens
  <1>2. \A v \in shards' \ shards : VaultOwner'[v] # NULL
    BY <1>1, OwnerStays DEF ShardsOpen
  <1>3. \A v \in FeeShards : VaultOwner[v] # NULL => VaultOwner'[v] = VaultOwner[v]
    BY OwnersKept
  <1>4. SumFunction(lamports') = SumFunction(lamports)
    BY NextTotal DEF TotalKept
  <1>5. Vault!Collect
    BY <1>1, <1>2, <1>3, <1>4 DEF Vault!Collect, ShardsOpen
  <1> QED
    BY <1>5 DEF Vault!VaultsNext

\* process_set_treasury appoints the owner of the treasury shards;
\* process_set_admin is none of the vaults' business.
LEMMA AppointStep ==
    ASSUME TypeOK, TypeOK', SettledFirst, AdminNext
    PROVE  Vault!VaultsNext
  <1>0. [Next]_vars
    BY DEF Next
  <1>1. settingsOnly
    BY DEF AdminNext, SetAdmin, SetTreasury
  <1>2. lamports' = lamports /\ shards' = shards /\ thread' = thread
    BY <1>1 DEF settingsOnly, boardVars
  <1>3. settings # NULL /\ settings \in ProgramSettings
    BY DEF AdminNext, SetAdmin, SetTreasury, load_admin_settings, TypeOK
  <1>4. settings' # NULL /\ settings' \in ProgramSettings
    BY <1>0, <1>3, TreasuryFrame DEF TypeOK
  <1>5. settings'.treasury \in Addr /\ settings.treasury \in Addr
    BY <1>3, <1>4 DEF ProgramSettings
  <1>6. settings.treasury # NULL
    BY <1>5, NullAssumption DEF Addr
  <1>7. \A v \in TreasuryShards :
           VaultOwner[v] # NULL /\ VaultOwner'[v] = settings'.treasury
    BY <1>3, <1>4, <1>6, OwnersNow, OwnersBySeeds
  <1>8. ASSUME NEW v \in FeeShards, v \notin TreasuryShards
        PROVE  VaultOwner'[v] = VaultOwner[v]
    <2>1. PICK t \in Threads : v \in AuthorShards(t)
      BY <1>8 DEF FeeShards
    <2> QED
      BY <1>2, <2>1, OwnersNow, OwnersBySeeds
  <1>9. Vault!Appoint(settings'.treasury)
    BY <1>2, <1>7, <1>8 DEF Vault!Appoint
  <1> QED
    BY <1>5, <1>9 DEF Vault!VaultsNext

\* The loop of a sweep, when all that it lists belongs to its receiver.
LEMMA WithdrawStep ==
    ASSUME TypeOK, ShardsRent, NEW list, Len(list) \in Nat, NEW to \in Addr,
           lamports' = swept(list, to), UNCHANGED <<settings, boardVars, shards>>,
           SumFunction(lamports') = SumFunction(lamports),
           \A i \in 1..Len(list) : list[i] \in shards => VaultOwner[list[i]] = to
    PROVE  Vault!VaultsNext
  <1> DEFINE V == {v \in shards : \E i \in 1..Len(list) : list[i] = v}
  <1>1. SweepInv(lamports', list, to) /\ Drained(lamports', list, to, Len(list))
    BY SweptEffect, SweptDrained
  <1>2. V \in SUBSET shards /\ \A v \in V : VaultOwner[v] = to
    OBVIOUS
  <1>3. \A v \in V \ {to} : lamports[v] >= minimum_balance(0) /\ lamports'[v] = minimum_balance(0)
    BY <1>1 DEF Drained, ShardsRent
  <1>4. lamports'[to] >= lamports[to]
    BY <1>1 DEF SweepInv
  <1>5. ASSUME NEW a \in Addr \ (V \cup {to}) PROVE lamports'[a] = lamports[a]
    <2>1. lamports'[a] <= lamports[a] /\ ~(lamports'[a] < lamports[a])
      BY <1>1 DEF SweepInv
    <2>2. lamports'[a] \in Int /\ lamports[a] \in Int
      BY <1>1, BalancesAreLedger DEF SweepInv, Ledgers
    <2> QED
      BY <2>1, <2>2
  <1>6. VaultOwner' = VaultOwner
    <2>1. settings' = settings /\ thread' = thread
      BY DEF boardVars
    <2> QED
      BY <2>1, OwnersNow
  <1> HIDE DEF V
  <1>7. Vault!Withdraw(V, to)
    BY <1>2, <1>3, <1>4, <1>5, <1>6 DEF Vault!Withdraw
  <1> QED
    BY <1>2, <1>7 DEF Vault!VaultsNext

LEMMA SweepStep ==
    ASSUME TypeOK, Rent, SweepNext
    PROVE  Vault!VaultsNext
  <1>0. ShardsRent /\ shards \subseteq FeeShards /\ SumFunction(lamports') = SumFunction(lamports)
    BY NextTotal DEF Rent, TypeOK, TotalKept, Next
  <1>1. ASSUME NEW idx \in SweepInputs, SweepTreasury(idx) PROVE Vault!VaultsNext
    <2> DEFINE list == [n \in DOMAIN idx |-> derive_treasury_shard_pda(idx[n])]
    <2>1. /\ settings # NULL /\ UNCHANGED <<settings, boardVars, shards>>
          /\ lamports' = swept(list, settings.treasury)
      BY <1>1 DEF SweepTreasury, Commit, may_sweep_treasury, treasury_swept
    <2>2. settings.treasury \in Addr
      BY <2>1 DEF TypeOK, ProgramSettings
    <2>3. idx \in Seq(Nat)
      BY InputAssumption
    <2>4. Len(list) \in Nat /\ \A i \in 1..Len(list) : list[i] = derive_treasury_shard_pda(idx[i])
      BY <2>3
    <2> HIDE DEF list
    <2>5. ASSUME NEW i \in 1..Len(list), list[i] \in shards
          PROVE  VaultOwner[list[i]] = settings.treasury
      <3>1. list[i] \in TreasuryShards
        BY <1>0, <2>4, <2>5, ShardSeeds
      <3> QED
        BY <2>1, <3>1, OwnersNow, OwnersBySeeds
    <2> QED
      BY <1>0, <2>1, <2>2, <2>4, <2>5, WithdrawStep
  <1>2. ASSUME NEW idx \in SweepInputs, NEW w \in Wallets, NEW t \in Threads,
               SweepAuthorFees(w, t, idx)
        PROVE  Vault!VaultsNext
    <2> DEFINE list == [n \in DOMAIN idx |-> derive_author_fee_pda(t, idx[n])]
    <2>1. /\ thread[t] # NULL /\ thread[t].author = w
          /\ UNCHANGED <<settings, boardVars, shards>>
          /\ lamports' = swept(list, w)
      BY <1>2 DEF SweepAuthorFees, Commit, may_sweep_author_fees, author_fees_swept,
         load_author_thread, load_thread
    <2>2. w \in Addr
      BY KeysApart
    <2>3. idx \in Seq(Nat)
      BY InputAssumption
    <2>4. Len(list) \in Nat /\ \A i \in 1..Len(list) : list[i] = derive_author_fee_pda(t, idx[i])
      BY <2>3
    <2> HIDE DEF list
    <2>5. ASSUME NEW i \in 1..Len(list), list[i] \in shards PROVE VaultOwner[list[i]] = w
      <3>1. list[i] \in AuthorShards(t)
        BY <1>0, <2>4, <2>5, ShardSeeds
      <3> QED
        BY <2>1, <3>1, OwnersNow, OwnersBySeeds
    <2> QED
      BY <1>0, <2>1, <2>2, <2>4, <2>5, WithdrawStep
  <1> QED
    BY <1>1, <1>2 DEF SweepNext

\* The fee shards implement the vaults of FeeVaults (ImplementsVaults of the
\* vault run): every instruction of the program fills them up, appoints an
\* owner or pays one out, whatever the number of channels and shards, the list
\* of a sweep and the key the treasury is set to.
THEOREM VaultsImplemented == Spec => ImplementsVaults
  <1>1. Init => Vault!VaultsInit
    <2> SUFFICES ASSUME Init PROVE Vault!VaultsInit
      OBVIOUS
    <2>1. \A v \in FeeShards : lamports[v] = 0
      BY ShardAddress DEF Init
    <2>2. VaultOwner = [v \in FeeShards |-> NULL]
      <3>1. ASSUME NEW v \in FeeShards PROVE VaultOwner[v] = NULL
        <4>1. CASE v \in TreasuryShards
          BY <4>1, OwnersNow, OwnersBySeeds DEF Init
        <4>2. CASE v \notin TreasuryShards
          <5>1. PICK t \in Threads : v \in AuthorShards(t)
            BY <4>2 DEF FeeShards
          <5>2. thread[t] = NULL
            BY DEF Init
          <5> QED
            BY <5>1, <5>2, OwnersNow, OwnersBySeeds
        <4> QED
          BY <4>1, <4>2
      <3> QED
        BY <3>1 DEF VaultOwner
    <2> QED
      BY <2>1, <2>2 DEF Init, Vault!VaultsInit
  <1>2. ASSUME TypeOK, TypeOK', Rent, SettledFirst, [Next]_vars
        PROVE  [Vault!VaultsNext]_(Vault!vaultState)
    <2>1. CASE SweepNext
      BY <1>2, <2>1, SweepStep
    <2>2. CASE AdminNext
      BY <1>2, <2>2, AppointStep
    <2>3. CASE GiftNext /\ ~AdminNext
      <3>1. \A v \in FeeShards : lamports'[v] >= lamports[v]
        BY <1>2, <2>3, GiftRises, ShardAddress DEF GiftNext
      <3> QED
        BY <1>2, <2>3, <3>1, CollectStep
    <2>4. CASE UNCHANGED vars
      <3>1. lamports' = lamports /\ shards' = shards /\ settings' = settings /\ thread' = thread
        BY <2>4 DEF vars, boardVars
      <3>2. VaultOwner' = VaultOwner
        BY <3>1, OwnersNow
      <3> QED
        BY <3>1, <3>2 DEF Vault!vaultState
    <2>5. CASE Next /\ ~SweepNext /\ ~AdminNext /\ ~GiftNext
      BY <1>2, <2>5, NextVaults, CollectStep DEF VaultsKept
    <2> QED
      BY <1>2, <2>1, <2>2, <2>3, <2>4, <2>5
  <1> QED
    BY <1>1, <1>2, TypeCorrect, RentInvariant, SettledInvariant, PTL
    DEF Spec, ImplementsVaults, Vault!VaultsSpec
=============================================================================
