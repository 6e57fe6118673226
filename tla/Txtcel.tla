------------------------------- MODULE Txtcel -------------------------------
(***************************************************************************)
(* The program: every instruction the entrypoint (src/lib.rs) dispatches,  *)
(* submitted by any wallet in any order, together with what happens around *)
(* it on the chain: the clock advances, and wallets send lamports to any   *)
(* address.                                                                *)
(***************************************************************************)
EXTENDS Treasury, AccessControl, Channel, Follows

\* The instruction data that is tried.
CONSTANTS FeeInputs,        \* message, like and entry fees
          BpsInputs,        \* platform cuts
          TreasuryInputs,   \* treasury keys
          TitleInputs,      \* title lengths
          BodyInputs,       \* message bodies and appended chunks
          CandidateInputs,  \* candidate lists of fill_slot
          MaxFeeInputs,     \* max_fee caps
          SweepInputs,      \* lists of shard indices
          GiftInputs,       \* <<address, amount>> of plain transfers
          MaxTime           \* bound of the clock

ASSUME InputAssumption ==
    /\ FeeInputs \subseteq u64
    /\ BpsInputs \subseteq Nat
    /\ TreasuryInputs \subseteq Addr
    /\ TitleInputs \subseteq Nat
    /\ BodyInputs \subseteq Seq(Bytes)
    /\ CandidateInputs \subseteq Seq(u32 \X Nat)
    /\ MaxFeeInputs \subseteq u64
    /\ SweepInputs \subseteq Seq(Nat)
    /\ GiftInputs \subseteq Addr \X u64
    /\ MaxTime \in Nat

TreasuryIdx == 0..N_TREASURY_SHARDS     \* one past the last valid index
AuthorIdx   == 0..N_AUTHOR_FEE_SHARDS

-----------------------------------------------------------------------------
(* External: the chain around the program. *)

\* A System Program transfer, to the address of an account that exists or
\* does not exist yet.
SystemTransfer(from, to, amount) ==
    /\ Commit(transfer(lamports, from, to, amount))
    /\ UNCHANGED <<settings, boardVars, accessVars, shards, followVars, now>>

Tick ==
    /\ now < MaxTime
    /\ now' = now + 1
    /\ UNCHANGED <<lamports, settings, boardVars, accessVars, shards, followVars>>

-----------------------------------------------------------------------------
(* The instructions of src/lib.rs by component. *)

SetupNext ==
    \/ \E w \in Wallets, tr \in TreasuryInputs : InitSettings(w, tr)
    \/ \E w \in Wallets, t \in Threads, fee \in FeeInputs, k \in TreasuryIdx,
          title \in TitleInputs : CreateRootAlloc(w, t, fee, k, title)

AdminNext ==
    \E w \in Wallets :
        \/ \E v \in Wallets : SetAdmin(w, v)
        \/ \E tr \in TreasuryInputs : SetTreasury(w, tr)

CutNext ==
    \E w \in Wallets, bps \in BpsInputs :
        \/ SetBaseFee(w, bps)
        \/ SetAuthorFeeCut(w, bps)
        \/ SetEntryCut(w, bps)
        \/ SetLikeCut(w, bps)

SweepNext ==
    \E list \in SweepInputs :
        \/ SweepTreasury(list)
        \/ \E w \in Wallets, t \in Threads : SweepAuthorFees(w, t, list)

MembershipNext ==
    \E w \in Wallets, t \in Threads :
        \/ \E on \in BOOLEAN, k \in TreasuryIdx : InitThreadAccess(w, t, on, k)
        \/ \E on \in BOOLEAN : SetThreadAccess(w, t, on)
        \/ \E fee \in FeeInputs : SetEntryFee(w, t, fee)
        \/ \E v \in Wallets : \/ AddToWhitelist(w, t, v)
                              \/ AddToBlacklist(w, t, v)
                              \/ AddToFeeWhitelist(w, t, v)
                              \/ RemoveFromWhitelist(w, t, v)
                              \/ RemoveFromBlacklist(w, t, v)
                              \/ RemoveFromFeeWhitelist(w, t, v)
        \/ \E k \in TreasuryIdx, j \in AuthorIdx : RequestAccess(w, t, k, j)

PageNext ==
    \E w \in Wallets, t \in Threads, seq \in AllocSeqs : PrepareAlloc(w, t, seq)

PostNext ==
    \E w \in Wallets, t \in Threads, body \in BodyInputs, c \in CandidateInputs,
       k \in TreasuryIdx, j \in AuthorIdx, m \in MaxFeeInputs :
          FillSlot(w, t, body, c, k, j, m)

DeleteNext ==
    \E w \in Wallets, id \in ContentIds, with_likes \in BOOLEAN :
        CloseAccount(w, id, with_likes)

AppendNext ==
    \E w \in Wallets, id \in ContentIds, chunk \in BodyInputs,
       k \in TreasuryIdx, j \in AuthorIdx : AppendContent(w, id, chunk, k, j)

LikeNext ==
    \E w \in Wallets, t \in Threads, seq \in AllocSeqs, slot \in 0..CONTENT_SLOTS,
       k \in TreasuryIdx, j \in AuthorIdx, m \in MaxFeeInputs :
          LikeContent(w, t, seq, slot, k, j, m)

PricingNext ==
    \E w \in Wallets, t \in Threads, fee \in FeeInputs :
        SetMessageFee(w, t, fee) \/ SetLikeFee(w, t, fee)

FollowNext ==
    \E w \in Wallets, t \in Threads : Subscribe(w, t) \/ Unsubscribe(w, t)

GiftNext ==
    \E w \in Wallets, gift \in GiftInputs : SystemTransfer(w, gift[1], gift[2])

Next ==
    \/ SetupNext   \/ AdminNext  \/ CutNext    \/ SweepNext  \/ MembershipNext
    \/ PageNext    \/ PostNext   \/ DeleteNext \/ AppendNext \/ LikeNext
    \/ PricingNext \/ FollowNext \/ GiftNext   \/ Tick

Spec == Init /\ [][Next]_vars
-----------------------------------------------------------------------------
(* Membership. *)

Whitelist(t) == {w \in Wallets : entry[t][w] = ACCESS_ALLOWED}

\* The cached whitelist_count of a ThreadAccess is the number of its live
\* ALLOWED entries, whatever sequence of additions, status changes, removals
\* and purchases led here (apply_access_entry_status, remove_access_entry,
\* process_request_access keep it without ever scanning the entries), and no
\* entry exists for a channel without access control.
WhitelistCountExact ==
    \A t \in Threads :
        IF access[t] = NULL
        THEN \A w \in Wallets : entry[t][w] = NULL
        ELSE access[t].whitelist_count = Cardinality(Whitelist(t))

\* Access control is set up only by the author of a channel that exists, so
\* its admin and the author that fill_slot exempts are one wallet forever.
AdminIsAuthor ==
    \A t \in Threads :
        access[t] # NULL => thread[t] # NULL /\ access[t].admin = thread[t].author

\* A message appears only if its poster is not blacklisted and, where access
\* control is enabled and somebody is really on the whitelist (or entry is
\* sold), the poster is the author or a member.  process_fill_slot sees only
\* the cached count; this speaks of the entries themselves.
PostRespectsMembership ==
    [][\A id \in ContentIds :
        content[id] = NULL /\ content'[id] # NULL =>
            LET t == id[1]
                w == content'[id].author
            IN  /\ entry[t][w] # ACCESS_DENIED
                /\ (/\ access[t] # NULL
                    /\ access[t].enabled
                    /\ Whitelist(t) # {} \/ access[t].entry_fee > 0)
                   => \/ w = thread[t].author
                      \/ w \in Whitelist(t)
                      \/ entry[t][w] = ACCESS_FEE_EXEMPT
      ]_vars

\* Nobody's standing on a channel changes but by the author's own instruction (no
\* other wallet's lamports move with it), except that a wallet with no standing
\* may buy membership, at no less than a price that is not zero, on top of the
\* rent of its entry.  So a purchase that races process_add_to_blacklist never
\* lifts the ban, whichever executes first, and nobody pays for what it has.
AuthorKeepsLists ==
    [][\A t \in Threads, w \in Wallets :
        entry'[t][w] # entry[t][w] =>
            \/ \A v \in Wallets \ {thread[t].author} : lamports'[v] = lamports[v]
            \/ /\ entry[t][w] = NULL
               /\ entry'[t][w] = ACCESS_ALLOWED
               /\ access[t].entry_fee > 0
               /\ lamports[w] - lamports'[w] >=
                      access[t].entry_fee
                        + SaturatingSub(minimum_balance(AccessEntry_size),
                                        lamports[derive_access_entry_pda(t, w)])
      ]_vars

-----------------------------------------------------------------------------
(* Channels. *)

\* The pages of a channel are numbered 0..last_alloc_seq without a gap and
\* alloc_count counts them, however many wallets race process_prepare_alloc;
\* a channel that was never created has no page.
ChainDense ==
    \A t \in Threads :
        /\ {p \in alloc : p[1] = t} =
            IF thread[t] = NULL THEN {}
            ELSE {<<t, seq>> : seq \in 0..thread[t].last_alloc_seq}
        /\ thread[t] # NULL => thread[t].alloc_count = thread[t].last_alloc_seq + 1

\* Messages and like counters exist only on pages that exist, although
\* process_fill_slot never loads the page: it trusts last_alloc_seq.
ContentOnPage ==
    /\ \A id \in ContentIds : content[id] # NULL => <<id[1], id[2]>> \in alloc
    /\ \A p \in Pages : likes[p] # NULL => p \in alloc

\* A like counter falls only when the message it belongs to is deleted, and
\* then to zero (process_close_account, process_like_content).
LikesFallOnlyOnDelete ==
    [][\A p \in Pages, i \in Slots :
        likes[p] # NULL =>
            /\ likes'[p] # NULL
            /\ likes'[p][i] < likes[p][i] =>
                 /\ likes'[p][i] = 0
                 /\ content[<<p[1], p[2], i>>] # NULL
                 /\ content'[<<p[1], p[2], i>>] = NULL
      ]_vars

\* The channels implement the message board: whatever the instructions do to
\* fees, shards, access lists and follows, pages are added one by one, only a
\* free slot of an existing page receives a message, a message is never
\* changed but by an extension within the append window, or deleted.
Board == INSTANCE MessageBoard
         WITH MaxPages <- U32Max, Window <- APPEND_WINDOW_SECS, msg <- content, time <- now,
              pages <- [t \in Threads |-> IF thread[t] = NULL THEN 0
                                          ELSE thread[t].last_alloc_seq + 1]
ImplementsBoard == Board!BoardSpec

\* Only the author of a message changes or deletes it: the author is the only
\* wallet whose lamports move with it (process_append_content tops the account
\* up from the author, process_close_account refunds the author).
OnlyAuthorTouches ==
    [][\A id \in ContentIds :
        content[id] # NULL /\ content'[id] # content[id] =>
            \A w \in Wallets \ {content[id].author} : lamports'[w] = lamports[w]
      ]_vars

-----------------------------------------------------------------------------
(* Lamports. *)

\* Data size of the account at address a, for the accounts that exist.
Sized ==
    (IF settings = NULL THEN {} ELSE {<<derive_settings_pda, ProgramSettings_size>>})
    \cup {<<t, ThreadNode_size(thread[t].title_len)>> :
            t \in {x \in Threads : thread[x] # NULL}}
    \cup {<<derive_alloc_pda(p[1], p[2]), AllocNode_size>> : p \in alloc}
    \cup {<<derive_content_pda(c[1], c[2], c[3]), ContentNode_size(Len(content[c].body))>> :
            c \in {x \in ContentIds : content[x] # NULL}}
    \cup {<<derive_likes_pda(p[1], p[2]), AllocLikes_size>> :
            p \in {x \in Pages : likes[x] # NULL}}
    \cup {<<derive_access_pda(t), ThreadAccess_size>> :
            t \in {x \in Threads : access[x] # NULL}}
    \cup {<<derive_access_entry_pda(x[1], x[2]), AccessEntry_size>> :
            x \in {y \in Threads \X Wallets : entry[y[1]][y[2]] # NULL}}
    \cup {<<derive_follow_registry_pda(w), FollowRegistry_size(Len(registry[w]))>> :
            w \in {x \in Wallets : registry[x] # NULL}}
    \cup {<<derive_follower_shard_pda(s[1], s[2]), FollowerShard_size>> :
            s \in {x \in FollowerShards : follower_shard[x] # NULL}}
    \cup {<<s, 0>> : s \in shards}

\* Every account of the program holds the rent-exempt minimum of the data it
\* has now: after growing (append_content, subscribe), shrinking
\* (unsubscribe), sweeping, and creation at an address somebody funded
\* beforehand (create_pda_account).
RentExempt == \A x \in Sized : lamports[x[1]] >= minimum_balance(x[2])

\* The program neither creates nor destroys lamports: the balances of all
\* addresses add up to what the wallets started with, although sweeps, account
\* closes and refunds write balances directly instead of calling the System
\* Program (sweep_shard_excess, close_program_account, process_unsubscribe).
Conservation == SumFunction(lamports) = SumFunction(Genesis)

\* Lamports leave a treasury shard only for the treasury wallet of the
\* settings, and the fee shards of a channel only for its author
\* (sweep_shard_excess): whatever a list of shards contains or repeats, no
\* other balance moves in that step.
VaultOutflow ==
    [][/\ (\E s \in TreasuryShards : lamports'[s] < lamports[s]) =>
            \A a \in Addr \ (TreasuryShards \cup {settings.treasury}) :
                lamports'[a] = lamports[a]
       /\ \A t \in Threads :
            (\E s \in AuthorShards(t) : lamports'[s] < lamports[s]) =>
                \A a \in Addr \ (AuthorShards(t) \cup {thread[t].author}) :
                    lamports'[a] = lamports[a]
      ]_vars

\* A sweep leaves every listed shard at its rent exactly ("Leaves each shard
\* account at the minimum rent-exempt balance", sweep_treasury.rs:22),
\* whichever others the list names, repeats, or names before they exist; only
\* a shard that is itself the receiver keeps what it is paid.
SweepDrains ==
    \A list \in SweepInputs :
        /\ may_sweep_treasury(list) =>
             \A i \in DOMAIN list :
                LET s == derive_treasury_shard_pda(list[i])
                IN  s \in shards \ {settings.treasury} =>
                        treasury_swept(list)[s] = minimum_balance(0)
        /\ \A w \in Wallets, t \in Threads :
             may_sweep_author_fees(w, t, list) =>
                 \A i \in DOMAIN list :
                    LET s == derive_author_fee_pda(t, list[i])
                    IN  s \in shards =>
                            author_fees_swept(w, t, list)[s] = minimum_balance(0)

\* Fees only ever reach shards the program owns, the ones a sweep can empty
\* (ensure_shard_initialized runs before collect_fee_to_shard): any other
\* lamports on a shard address come from a plain transfer or from a sweep to a
\* treasury key that is itself a shard.
FeesReachOwnedShards ==
    [][\A s \in FeeShards :
        lamports'[s] > lamports[s] =>
            \/ s \in shards'
            \/ settings # NULL /\ s = settings.treasury
            \/ \E w \in Wallets, gift \in GiftInputs : SystemTransfer(w, gift[1], gift[2])
      ]_vars

\* Who may empty a fee shard: the treasury of the settings, or the author of
\* the channel.
VaultOwner ==
    [s \in FeeShards |->
        IF s \in TreasuryShards THEN IF settings = NULL THEN NULL ELSE settings.treasury
        ELSE IF thread[s[2]] = NULL THEN NULL ELSE thread[s[2]].author]

\* The fee shards implement the vaults of FeeVaults: whatever the instructions
\* do to messages, members, prices and follows, a shard is created only when
\* its owner is known (process_init_thread_access creates one without reading
\* the settings), it is emptied to its rent only, only by a sweep, only to its
\* owner at that moment, the author of a channel is its owner forever, and no
\* lamport is made or lost.
Vault == INSTANCE FeeVaults
         WITH Keys <- Addr, Vaults <- FeeShards, Shared <- TreasuryShards,
              Floor <- minimum_balance(0), Nobody <- NULL,
              balance <- lamports, supply <- SumFunction(lamports),
              open <- shards, owner <- VaultOwner
ImplementsVaults == Vault!VaultsSpec

\* A poster or liker pays at most max_fee on top of the rent of the accounts
\* the instruction creates, however the author, the admin or other wallets
\* changed fees, cuts and shards after the transaction was signed
\* (process_fill_slot, process_like_content).
FeeWithinCap ==
    [][\A w \in Wallets, t \in Threads, k \in TreasuryIdx, j \in AuthorIdx, m \in MaxFeeInputs :
        LET outlay   == lamports[w] - lamports'[w]
            newShard == minimum_balance(0) * Cardinality(shards' \ shards)
        IN  /\ \A body \in BodyInputs, c \in CandidateInputs :
                 FillSlot(w, t, body, c, k, j, m) =>
                     outlay <= m + newShard + minimum_balance(ContentNode_size(Len(body)))
            /\ \A seq \in AllocSeqs, slot \in Slots :
                 LikeContent(w, t, seq, slot, k, j, m) =>
                     outlay <= m + newShard + IF likes[<<t, seq>>] = NULL
                                              THEN minimum_balance(AllocLikes_size) ELSE 0
      ]_vars

\* A buyer of membership pays the entry fee in force at execution, no more and
\* no less, plus the missing rent of the accounts the purchase creates:
\* process_request_access has no max_fee, so this is all that bounds the price
\* when the admin changes the fee, the platform its cut, or other wallets
\* create or fund the shards and the entry first.
EntryPriceExact ==
    [][\A w \in Wallets, t \in Threads, k \in TreasuryIdx, j \in AuthorIdx :
        RequestAccess(w, t, k, j) =>
            LET missing(a, size) == SaturatingSub(minimum_balance(size), lamports[a])
            IN  lamports[w] - lamports'[w] =
                    access[t].entry_fee
                      + missing(derive_access_entry_pda(t, w), AccessEntry_size)
                      + missing(derive_treasury_shard_pda(k), 0)
                      + missing(derive_author_fee_pda(t, j), 0)
      ]_vars

\* Of every entry, message and like fee that is due, at least the part beyond
\* MAX_FEE_CUT_BPS reaches a vault of the channel's author, on top of the rent
\* of that vault: whatever cuts the admin has set by then
\* (update_platform_setting), the platform "can never claim more than 50%"
\* (src/state/constants.rs:57).
AuthorShareKept ==
    [][\A w \in Wallets, t \in Threads, k \in TreasuryIdx, j \in AuthorIdx :
        LET shard == derive_author_fee_pda(t, j)
            earns(fee) == lamports'[shard] - Greater(lamports[shard], minimum_balance(0))
                            >= fee - (fee * MAX_FEE_CUT_BPS) \div BpsDenominator
        IN  /\ RequestAccess(w, t, k, j) => earns(access[t].entry_fee)
            /\ \A m \in MaxFeeInputs :
                 /\ \A body \in BodyInputs, c \in CandidateInputs :
                      FillSlot(w, t, body, c, k, j, m) /\ ~fee_exempt(w, t)
                          => earns(thread[t].message_fee)
                 /\ \A seq \in AllocSeqs, slot \in Slots :
                      LikeContent(w, t, seq, slot, k, j, m)
                        /\ w # content[<<t, seq, slot>>].author
                          => earns(thread[t].like_fee)
      ]_vars

\* No collected fee is ever locked in: whatever a shard the program owns holds
\* above its rent can be swept alone, by anybody to the treasury and by the
\* author to the author.  The instruction passes its checks, the runtime accepts
\* the balances it leaves, and all of the excess arrives.  The one proviso is
\* the runtime's own: the receiver must not be left with less than the rent of
\* an empty account (process_sweep_treasury, process_sweep_author_fees).
NoFeeLocked ==
    LET excess(s) == SaturatingSub(lamports[s], minimum_balance(0))
        payable(s, to) ==
            /\ s \in shards
            /\ excess(s) > 0
            /\ lamports[to] + excess(s) >= minimum_balance(0)
        pays(L, s, to) ==
            /\ Accepted(L)
            /\ to # s => L[s] = minimum_balance(0) /\ L[to] = lamports[to] + excess(s)
    IN  /\ \A k \in 0..(N_TREASURY_SHARDS - 1) :
             settings # NULL /\ payable(derive_treasury_shard_pda(k), settings.treasury) =>
                 /\ may_sweep_treasury(<<k>>)
                 /\ pays(treasury_swept(<<k>>), derive_treasury_shard_pda(k), settings.treasury)
        /\ \A t \in Threads, j \in 0..(N_AUTHOR_FEE_SHARDS - 1) :
             thread[t] # NULL /\ payable(derive_author_fee_pda(t, j), thread[t].author) =>
                 /\ may_sweep_author_fees(thread[t].author, t, <<j>>)
                 /\ pays(author_fees_swept(thread[t].author, t, <<j>>),
                         derive_author_fee_pda(t, j), thread[t].author)

-----------------------------------------------------------------------------
(* Follows. *)

Followers(t, k) ==
    {w \in Wallets : /\ follower_shard_index(w) = k
                     /\ registry[w] # NULL
                     /\ \E i \in DOMAIN registry[w] : registry[w][i] = t}

\* The follower shards of a channel add up to its followers: each counts
\* exactly the registries of its wallets that list the channel, so neither
\* saturating_sub in process_unsubscribe nor a repeated subscribe loses count.
FollowerCountExact ==
    \A s \in FollowerShards :
        Cardinality(Followers(s[1], s[2])) =
            IF follower_shard[s] = NULL THEN 0 ELSE follower_shard[s]

\* A registry lists a channel once and never exceeds MAX_FOLLOWS, across any
\* sequence of process_subscribe and the swap_remove of process_unsubscribe.
RegistryDistinct ==
    \A w \in Wallets :
        registry[w] # NULL =>
            /\ Len(registry[w]) <= MAX_FOLLOWS
            /\ \A i, j \in DOMAIN registry[w] : registry[w][i] = registry[w][j] => i = j
=============================================================================
