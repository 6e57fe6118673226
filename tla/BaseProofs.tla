----------------------------- MODULE BaseProofs -----------------------------
(***************************************************************************)
(* What every proof about the program starts from, for every set of        *)
(* wallets, threads and inputs and every value of the program's constants: *)
(* type correctness; what the helpers of src/state/fees.rs and             *)
(* src/state/account_utils.rs and the loop of the sweeps do to a ledger; and *)
(* which addresses are different.                                          *)
(***************************************************************************)
EXTENDS Txtcel, WellFoundedInduction, TLAPS

(***************************************************************************)
(* What the shared helpers contribute.                                     *)
(***************************************************************************)

\* Whatever chain of ledger operations an instruction makes, what the runtime
\* commits is a u64 balance for every address (Commit).
LEMMA CommitTypes ==
    ASSUME NEW L, Commit(L)
    PROVE  lamports' \in [Addr -> u64]
  BY DEF Commit, Accepted

\* A validated index names one of the fee shards (validate_treasury_shard,
\* validate_author_fee_shard).
LEMMA TreasuryShardTypes ==
    ASSUME NEW k \in TreasuryIdx, validate_treasury_shard(k)
    PROVE  derive_treasury_shard_pda(k) \in FeeShards
  <1>1. k \in 0..(N_TREASURY_SHARDS - 1)
    BY AccountsAssumption DEF TreasuryIdx, validate_treasury_shard
  <1> QED
    BY <1>1 DEF FeeShards, TreasuryShards

\* The same for the fee shards of a channel (validate_author_fee_shard).
LEMMA AuthorShardTypes ==
    ASSUME NEW t \in Threads, NEW j \in AuthorIdx, validate_author_fee_shard(j)
    PROVE  derive_author_fee_pda(t, j) \in FeeShards
  <1>1. j \in 0..(N_AUTHOR_FEE_SHARDS - 1)
    BY AccountsAssumption DEF AuthorIdx, validate_author_fee_shard
  <1>2. derive_author_fee_pda(t, j) \in AuthorShards(t)
    BY <1>1 DEF AuthorShards
  <1> QED
    BY <1>2 DEF FeeShards

\* The bodies of messages are the byte strings of bounded length.
LEMMA BodyTypes ==
    ASSUME NEW b \in Seq(Bytes)
    PROVE  b \in Bodies <=> Len(b) <= MAX_BODY_LEN
  <1>1. MAX_BODY_LEN \in Nat
    BY AccountsAssumption
  <1>2. ASSUME Len(b) <= MAX_BODY_LEN PROVE b \in Bodies
    <2>1. Len(b) \in 0..MAX_BODY_LEN /\ b \in [1..Len(b) -> Bytes]
      BY <1>1, <1>2
    <2> QED
      BY <2>1 DEF Bodies
  <1>3. ASSUME b \in Bodies PROVE Len(b) <= MAX_BODY_LEN
    <2>1. PICK n \in 0..MAX_BODY_LEN : b \in [1..n -> Bytes]
      BY <1>3 DEF Bodies
    <2>2. Len(b) = n
      BY <2>1, <1>1
    <2> QED
      BY <2>2, <1>1
  <1> QED
    BY <1>2, <1>3

\* A stored message body is a sequence of bytes (ContentNode.body is a Vec).
LEMMA BodiesAreSequences ==
    ASSUME NEW b \in Bodies
    PROVE  b \in Seq(Bytes)
  <1>1. PICK n \in 0..MAX_BODY_LEN : b \in [1..n -> Bytes]
    BY DEF Bodies
  <1> QED
    BY <1>1, AccountsAssumption

\* The whitelist counter stays a u32 (adjust_whitelist_count casts it).
LEMMA AdjustTypes ==
    ASSUME NEW c \in u32, NEW d \in Int
    PROVE  adjust_whitelist_count(c, d) \in u32
  <1>1. U32Max \in Nat /\ c + d \in Int
    BY AccountsAssumption DEF u32
  <1>2. c + d >= 0 => (c + d) % (U32Max + 1) \in 0..U32Max
    BY <1>1
  <1> QED
    BY <1>1, <1>2 DEF adjust_whitelist_count, u32

\* Vec::swap_remove yields a list of the same kind of elements.
LEMMA SwapRemoveTypes ==
    ASSUME NEW S, NEW list \in Seq(S), NEW pos \in DOMAIN list
    PROVE  /\ swap_remove(list, pos) \in Seq(S)
           /\ Len(swap_remove(list, pos)) = Len(list) - 1
  <1>1. Len(list) \in Nat /\ Len(list) >= 1
    OBVIOUS
  <1>2. swap_remove(list, pos) \in [1..(Len(list) - 1) -> S]
    BY <1>1 DEF swap_remove
  <1> QED
    BY <1>1, <1>2

-----------------------------------------------------------------------------
(***************************************************************************)
(* Each instruction preserves the types.                                   *)
(***************************************************************************)

\* The chain before the program is set up is well typed.
LEMMA InitTypes == Init => TypeOK
  <1> SUFFICES ASSUME Init PROVE TypeOK
    OBVIOUS
  <1>1. lamports \in [Addr -> u64]
    BY AccountsAssumption, LedgerAssumption DEF Init, u64
  <1> QED
    BY <1>1 DEF Init, TypeOK

\* process_init_settings writes defaults that are within the caps.
LEMMA InitSettingsTypes ==
    ASSUME TypeOK, NEW w \in Wallets, NEW tr \in TreasuryInputs, InitSettings(w, tr)
    PROVE  TypeOK'
  <1>1. lamports' \in [Addr -> u64]
    BY CommitTypes DEF InitSettings
  <1>2. settings' \in ProgramSettings
    BY AccountsAssumption, InputAssumption DEF InitSettings, ProgramSettings, Bps
  <1> QED
    BY <1>1, <1>2 DEF TypeOK, InitSettings, boardVars, accessVars, followVars

\* process_set_admin and process_set_treasury write keys and nothing else.
LEMMA AdminTypes == TypeOK /\ AdminNext => TypeOK'
  <1> SUFFICES ASSUME TypeOK, NEW w \in Wallets,
                      \/ \E v \in Wallets : SetAdmin(w, v)
                      \/ \E tr \in TreasuryInputs : SetTreasury(w, tr)
               PROVE  TypeOK'
    BY DEF AdminNext
  <1>1. settings \in ProgramSettings
    BY DEF TypeOK, SetAdmin, SetTreasury, load_admin_settings
  <1>2. settings' \in ProgramSettings /\ settingsOnly
    BY <1>1, InputAssumption DEF SetAdmin, SetTreasury, ProgramSettings
  <1> QED
    BY <1>2 DEF TypeOK, settingsOnly, boardVars, accessVars, followVars

\* The platform-fee setters write only cuts that update_platform_setting let through.
LEMMA CutTypes == TypeOK /\ CutNext => TypeOK'
  <1> SUFFICES ASSUME TypeOK, NEW w \in Wallets, NEW bps \in BpsInputs,
                      \/ SetBaseFee(w, bps)
                      \/ SetAuthorFeeCut(w, bps)
                      \/ SetEntryCut(w, bps)
                      \/ SetLikeCut(w, bps)
               PROVE  TypeOK'
    BY DEF CutNext
  <1>1. settings \in ProgramSettings /\ bps <= MAX_FEE_CUT_BPS
    BY DEF TypeOK, SetBaseFee, SetAuthorFeeCut, SetEntryCut, SetLikeCut,
           update_platform_setting, load_admin_settings
  <1>2. bps \in Bps
    BY <1>1, InputAssumption, AccountsAssumption DEF Bps
  <1>3. settings' \in ProgramSettings /\ settingsOnly
    BY <1>1, <1>2 DEF SetBaseFee, SetAuthorFeeCut, SetEntryCut, SetLikeCut, ProgramSettings
  <1> QED
    BY <1>3 DEF TypeOK, settingsOnly, boardVars, accessVars, followVars

\* The two sweeps move lamports and write no account data.
LEMMA SweepTypes == TypeOK /\ SweepNext => TypeOK'
  <1> SUFFICES ASSUME TypeOK, NEW list \in SweepInputs,
                      \/ SweepTreasury(list)
                      \/ \E w \in Wallets, t \in Threads : SweepAuthorFees(w, t, list)
               PROVE  TypeOK'
    BY DEF SweepNext
  <1>1. lamports' \in [Addr -> u64]
    BY CommitTypes DEF SweepTreasury, SweepAuthorFees
  <1>2. UNCHANGED <<settings, boardVars, accessVars, shards, followVars, now>>
    BY DEF SweepTreasury, SweepAuthorFees
  <1> QED
    BY <1>1, <1>2 DEF TypeOK, boardVars, accessVars, followVars

\* process_create_root_alloc writes a thread and its page zero.
LEMMA CreateRootAllocTypes ==
    ASSUME TypeOK, NEW w \in Wallets, NEW t \in Threads, NEW fee \in FeeInputs,
           NEW k \in TreasuryIdx, NEW title \in TitleInputs,
           CreateRootAlloc(w, t, fee, k, title)
    PROVE  TypeOK'
  <1>1. lamports' \in [Addr -> u64]
    BY CommitTypes DEF CreateRootAlloc
  <1>2. shards' \subseteq FeeShards
    BY TreasuryShardTypes DEF TypeOK, CreateRootAlloc, shards_initialized
  <1>3. thread' \in [Threads -> ThreadNode \cup {NULL}]
    <2> DEFINE node == [alloc_count |-> 1, last_alloc_seq |-> 0, author |-> w,
                        message_fee |-> fee, like_fee |-> 0, title_len |-> title]
    <2>1. title \in 0..MAX_TITLE_LEN /\ fee \in u64 /\ 0 \in u64 /\ 0 \in u32 /\ 1 \in u32
      BY AccountsAssumption, LedgerAssumption, InputAssumption DEF CreateRootAlloc, u64, u32
    <2>2. node \in ThreadNode
      BY <2>1 DEF ThreadNode
    <2>3. thread' = [thread EXCEPT ![t] = node]
      BY DEF CreateRootAlloc
    <2> QED
      BY <2>2, <2>3 DEF TypeOK
  <1>4. alloc' \subseteq Pages
    BY AccountsAssumption DEF TypeOK, CreateRootAlloc, Pages, AllocSeqs
  <1> QED
    BY <1>1, <1>2, <1>3, <1>4 DEF TypeOK, CreateRootAlloc, accessVars, followVars

\* process_init_thread_access writes a configuration with a zero counter.
LEMMA InitThreadAccessTypes ==
    ASSUME TypeOK, NEW w \in Wallets, NEW t \in Threads, NEW on \in BOOLEAN,
           NEW k \in TreasuryIdx, InitThreadAccess(w, t, on, k)
    PROVE  TypeOK'
  <1>1. lamports' \in [Addr -> u64]
    BY CommitTypes DEF InitThreadAccess
  <1>2. shards' \subseteq FeeShards
    BY TreasuryShardTypes DEF TypeOK, InitThreadAccess, shards_initialized
  <1>3. access' \in [Threads -> ThreadAccess \cup {NULL}]
    <2> DEFINE node == [enabled |-> on, admin |-> w, entry_fee |-> 0, whitelist_count |-> 0]
    <2>1. 0 \in u64 /\ 0 \in u32
      BY AccountsAssumption, LedgerAssumption DEF u64, u32
    <2>2. node \in ThreadAccess
      BY <2>1 DEF ThreadAccess
    <2>3. access' = [access EXCEPT ![t] = node]
      BY DEF InitThreadAccess
    <2> QED
      BY <2>2, <2>3 DEF TypeOK
  <1> QED
    BY <1>1, <1>2, <1>3 DEF TypeOK, InitThreadAccess, boardVars, followVars

\* process_set_thread_access and process_set_entry_fee write one field.
LEMMA AccessSettersTypes ==
    ASSUME TypeOK, NEW w \in Wallets, NEW t \in Threads,
           \/ \E on \in BOOLEAN : SetThreadAccess(w, t, on)
           \/ \E fee \in FeeInputs : SetEntryFee(w, t, fee)
    PROVE  TypeOK'
  <1>1. access[t] \in ThreadAccess
    BY DEF TypeOK, SetThreadAccess, SetEntryFee, load_admin_access
  <1>2. access' \in [Threads -> ThreadAccess \cup {NULL}]
    <2>1. CASE \E on \in BOOLEAN : SetThreadAccess(w, t, on)
      <3>1. PICK on \in BOOLEAN : SetThreadAccess(w, t, on)
        BY <2>1
      <3>2. [access[t] EXCEPT !.enabled = on] \in ThreadAccess
        BY <1>1 DEF ThreadAccess
      <3> QED
        BY <3>1, <3>2 DEF TypeOK, SetThreadAccess
    <2>2. CASE \E fee \in FeeInputs : SetEntryFee(w, t, fee)
      <3>1. PICK fee \in FeeInputs : SetEntryFee(w, t, fee)
        BY <2>2
      <3>2. [access[t] EXCEPT !.entry_fee = fee] \in ThreadAccess
        BY <1>1, InputAssumption DEF ThreadAccess
      <3> QED
        BY <3>1, <3>2 DEF TypeOK, SetEntryFee
    <2> QED
      BY <2>1, <2>2
  <1>3. UNCHANGED <<lamports, settings, boardVars, entry, shards, followVars, now>>
    BY DEF SetThreadAccess, SetEntryFee
  <1> QED
    BY <1>2, <1>3 DEF TypeOK, boardVars, followVars

\* Writing a counter that is a u32 keeps the account well typed.
LEMMA CounterTypes ==
    ASSUME TypeOK, NEW t \in Threads, access[t] # NULL, NEW c \in u32,
           access' = [access EXCEPT ![t].whitelist_count = c]
    PROVE  access' \in [Threads -> ThreadAccess \cup {NULL}]
  <1>1. access[t] \in ThreadAccess
    BY DEF TypeOK
  <1>2. [access[t] EXCEPT !.whitelist_count = c] \in ThreadAccess
    BY <1>1 DEF ThreadAccess
  <1> QED
    BY <1>2 DEF TypeOK

\* apply_access_entry_status writes a known status and a u32 counter.
LEMMA ApplyEntryTypes ==
    ASSUME TypeOK, NEW w \in Wallets, NEW t \in Threads, NEW v \in Wallets,
           NEW status \in Statuses, apply_access_entry_status(w, t, v, status)
    PROVE  TypeOK'
  <1> DEFINE delta == CountsAsAllowed(status) - CountsAsAllowed(entry[t][v])
             count == adjust_whitelist_count(access[t].whitelist_count, delta)
  <1>1. access[t] # NULL /\ access[t].whitelist_count \in u32
    BY DEF TypeOK, ThreadAccess, apply_access_entry_status, load_admin_access
  <1>2. delta \in Int
    BY DEF CountsAsAllowed
  <1>3. count \in u32
    BY <1>1, <1>2, AdjustTypes
  <1>4. access' = [access EXCEPT ![t].whitelist_count = count]
    BY DEF apply_access_entry_status
  <1>5. access' \in [Threads -> ThreadAccess \cup {NULL}]
    BY <1>1, <1>3, <1>4, CounterTypes
  <1>6. lamports' \in [Addr -> u64]
    BY CommitTypes DEF apply_access_entry_status
  <1>7. entry' \in [Threads -> [Wallets -> Statuses \cup {NULL}]]
    BY DEF TypeOK, apply_access_entry_status
  <1> QED
    BY <1>5, <1>6, <1>7 DEF TypeOK, apply_access_entry_status, boardVars, followVars

\* remove_access_entry closes the entry and writes a u32 counter.
LEMMA RemoveEntryTypes ==
    ASSUME TypeOK, NEW w \in Wallets, NEW t \in Threads, NEW v \in Wallets,
           NEW status \in Statuses, remove_access_entry(w, t, v, status)
    PROVE  TypeOK'
  <1> DEFINE old   == access[t].whitelist_count
             count == IF status = ACCESS_ALLOWED THEN adjust_whitelist_count(old, -1) ELSE old
  <1>1. access[t] # NULL /\ old \in u32
    BY DEF TypeOK, ThreadAccess, remove_access_entry, load_admin_access
  <1>2. count \in u32
    BY <1>1, AdjustTypes
  <1>3. access' = [access EXCEPT ![t].whitelist_count = count]
    BY DEF remove_access_entry
  <1>4. access' \in [Threads -> ThreadAccess \cup {NULL}]
    BY <1>1, <1>2, <1>3, CounterTypes
  <1>5. lamports' \in [Addr -> u64]
    BY CommitTypes DEF remove_access_entry
  <1>6. entry' \in [Threads -> [Wallets -> Statuses \cup {NULL}]]
    BY DEF TypeOK, remove_access_entry
  <1> QED
    BY <1>4, <1>5, <1>6 DEF TypeOK, remove_access_entry, boardVars, followVars

\* process_request_access writes an entry, a counter and at most two shards.
LEMMA RequestAccessTypes ==
    ASSUME TypeOK, NEW w \in Wallets, NEW t \in Threads, NEW k \in TreasuryIdx,
           NEW j \in AuthorIdx, RequestAccess(w, t, k, j)
    PROVE  TypeOK'
  <1> DEFINE count == adjust_whitelist_count(access[t].whitelist_count, 1)
  <1>1. access[t] # NULL /\ access[t].whitelist_count \in u32
    BY DEF TypeOK, ThreadAccess, RequestAccess
  <1>2. count \in u32
    BY <1>1, AdjustTypes
  <1>3. access' = [access EXCEPT ![t].whitelist_count = count]
    BY DEF RequestAccess
  <1>4. access' \in [Threads -> ThreadAccess \cup {NULL}]
    BY <1>1, <1>2, <1>3, CounterTypes
  <1>5. lamports' \in [Addr -> u64]
    BY CommitTypes DEF RequestAccess
  <1>6. entry' \in [Threads -> [Wallets -> Statuses \cup {NULL}]]
    BY DEF TypeOK, RequestAccess, Statuses
  <1>7. shards' \subseteq FeeShards
    BY TreasuryShardTypes, AuthorShardTypes DEF TypeOK, RequestAccess, validate_fee_shards,
                                              shards_initialized
  <1> QED
    BY <1>4, <1>5, <1>6, <1>7 DEF TypeOK, RequestAccess, boardVars, followVars

\* All the instructions on access lists together.
LEMMA MembershipTypes == TypeOK /\ MembershipNext => TypeOK'
  <1> SUFFICES ASSUME TypeOK, NEW w \in Wallets, NEW t \in Threads,
                      \/ \E on \in BOOLEAN, k \in TreasuryIdx : InitThreadAccess(w, t, on, k)
                      \/ \E on \in BOOLEAN : SetThreadAccess(w, t, on)
                      \/ \E fee \in FeeInputs : SetEntryFee(w, t, fee)
                      \/ \E v \in Wallets, status \in Statuses :
                            \/ apply_access_entry_status(w, t, v, status)
                            \/ remove_access_entry(w, t, v, status)
                      \/ \E k \in TreasuryIdx, j \in AuthorIdx : RequestAccess(w, t, k, j)
               PROVE  TypeOK'
    BY DEF MembershipNext, Statuses, AddToWhitelist, AddToBlacklist, AddToFeeWhitelist,
           RemoveFromWhitelist, RemoveFromBlacklist, RemoveFromFeeWhitelist
  <1> QED
    BY InitThreadAccessTypes, AccessSettersTypes, ApplyEntryTypes, RemoveEntryTypes,
       RequestAccessTypes

\* process_prepare_alloc stops at the last u32 (its two checked_add), so that
\* neither the page number nor the page count leaves its width.
LEMMA PageTypes == TypeOK /\ PageNext => TypeOK'
  <1> SUFFICES ASSUME TypeOK, NEW w \in Wallets, NEW t \in Threads, NEW seq \in AllocSeqs,
                      PrepareAlloc(w, t, seq)
               PROVE  TypeOK'
    BY DEF PageNext
  <1>1. lamports' \in [Addr -> u64]
    BY CommitTypes DEF PrepareAlloc
  <1>2. seq + 1 \in AllocSeqs /\ seq + 1 \in u32
    BY AccountsAssumption DEF PrepareAlloc, AllocSeqs, u32
  <1>3. alloc' \subseteq Pages
    BY <1>2 DEF TypeOK, PrepareAlloc, Pages
  <1>4. thread[t] \in ThreadNode
    BY DEF TypeOK, PrepareAlloc, load_thread
  <1>5. thread[t].alloc_count + 1 \in u32
    BY <1>4, AccountsAssumption DEF PrepareAlloc, ThreadNode, u32
  <1>6. [thread[t] EXCEPT !.alloc_count = @ + 1, !.last_alloc_seq = seq + 1] \in ThreadNode
    BY <1>2, <1>4, <1>5 DEF ThreadNode
  <1>7. thread' = [thread EXCEPT ![t] =
                     [thread[t] EXCEPT !.alloc_count = @ + 1, !.last_alloc_seq = seq + 1]]
    BY DEF PrepareAlloc, linked
  <1>8. thread' \in [Threads -> ThreadNode \cup {NULL}]
    BY <1>6, <1>7 DEF TypeOK
  <1> QED
    BY <1>1, <1>3, <1>8 DEF TypeOK, PrepareAlloc, accessVars, followVars

\* process_fill_slot stores a body of checked length in a slot in range.
LEMMA PostTypes == TypeOK /\ PostNext => TypeOK'
  <1> SUFFICES ASSUME TypeOK, NEW w \in Wallets, NEW t \in Threads, NEW body \in BodyInputs,
                      NEW c \in CandidateInputs, NEW k \in TreasuryIdx, NEW j \in AuthorIdx,
                      NEW m \in MaxFeeInputs, FillSlot(w, t, body, c, k, j, m)
               PROVE  TypeOK'
    BY DEF PostNext
  <1> DEFINE node == [author |-> w, created_at |-> now, body |-> body]
  <1>1. PICK i \in DOMAIN c :
            /\ FirstFree(t, c, i)
            /\ lamports' \in [Addr -> u64]
            /\ shards' = shards \cup {derive_treasury_shard_pda(k), derive_author_fee_pda(t, j)}
            /\ content' = [content EXCEPT ![<<t, c[i][1], c[i][2]>>] = node]
    BY DEF FillSlot, Commit, Accepted, shards_initialized
  <1>2. shards' \subseteq FeeShards
    BY <1>1, TreasuryShardTypes, AuthorShardTypes DEF TypeOK, FillSlot, validate_fee_shards
  <1>3. node \in ContentNode
    BY BodyTypes, InputAssumption DEF ContentNode, TypeOK, FillSlot
  <1>4. content' \in [ContentIds -> ContentNode \cup {NULL}]
    BY <1>1, <1>3 DEF TypeOK
  <1> QED
    BY <1>1, <1>2, <1>4 DEF TypeOK, FillSlot, accessVars, followVars

\* process_close_account empties a slot and may zero one like counter.
LEMMA DeleteTypes == TypeOK /\ DeleteNext => TypeOK'
  <1> SUFFICES ASSUME TypeOK, NEW w \in Wallets, NEW id \in ContentIds,
                      NEW with_likes \in BOOLEAN, CloseAccount(w, id, with_likes)
               PROVE  TypeOK'
    BY DEF DeleteNext
  <1>1. lamports' \in [Addr -> u64]
    BY CommitTypes DEF CloseAccount
  <1>2. content' \in [ContentIds -> ContentNode \cup {NULL}]
    BY DEF TypeOK, CloseAccount
  <1>3. <<id[1], id[2]>> \in Pages /\ id[3] \in Slots /\ 0 \in u32
    BY AccountsAssumption DEF ContentIds, Pages, u32
  <1>4. likes' \in [Pages -> [Slots -> u32] \cup {NULL}]
    BY <1>3 DEF TypeOK, CloseAccount
  <1> QED
    BY <1>1, <1>2, <1>4 DEF TypeOK, CloseAccount, accessVars, followVars

\* process_append_content stores the longer body only if it fits.
LEMMA AppendTypes == TypeOK /\ AppendNext => TypeOK'
  <1> SUFFICES ASSUME TypeOK, NEW w \in Wallets, NEW id \in ContentIds,
                      NEW chunk \in BodyInputs, NEW k \in TreasuryIdx, NEW j \in AuthorIdx,
                      AppendContent(w, id, chunk, k, j)
               PROVE  TypeOK'
    BY DEF AppendNext
  <1> DEFINE new_body == content[id].body \o chunk
  <1>1. lamports' \in [Addr -> u64]
    BY DEF AppendContent, Commit, Accepted
  <1>2. shards' \subseteq FeeShards
    BY TreasuryShardTypes DEF TypeOK, AppendContent, validate_fee_shards, shards_initialized
  <1>3. content[id] \in ContentNode
    BY DEF TypeOK, AppendContent, load_own_content
  <1>4. new_body \in Seq(Bytes) /\ Len(new_body) <= MAX_BODY_LEN
    BY <1>3, BodiesAreSequences, InputAssumption DEF ContentNode, AppendContent
  <1>5. [content[id] EXCEPT !.body = new_body] \in ContentNode
    BY <1>3, <1>4, BodyTypes DEF ContentNode
  <1>6. content' \in [ContentIds -> ContentNode \cup {NULL}]
    BY <1>5 DEF TypeOK, AppendContent
  <1> QED
    BY <1>1, <1>2, <1>6 DEF TypeOK, AppendContent, accessVars, followVars

\* process_like_content raises a counter that saturates at the last u32.
LEMMA LikeTypes == TypeOK /\ LikeNext => TypeOK'
  <1> SUFFICES ASSUME TypeOK, NEW w \in Wallets, NEW t \in Threads, NEW seq \in AllocSeqs,
                      NEW slot \in 0..CONTENT_SLOTS, NEW k \in TreasuryIdx,
                      NEW j \in AuthorIdx, NEW m \in MaxFeeInputs,
                      LikeContent(w, t, seq, slot, k, j, m)
               PROVE  TypeOK'
    BY DEF LikeNext
  <1> DEFINE page   == <<t, seq>>
             counts == IF likes[page] = NULL THEN [i \in Slots |-> 0] ELSE likes[page]
             liked  == [counts EXCEPT ![slot] = saturating_inc(@)]
  <1>1. lamports' \in [Addr -> u64]
    BY DEF LikeContent, Commit, Accepted
  <1>2. shards' \subseteq FeeShards
    BY TreasuryShardTypes, AuthorShardTypes DEF TypeOK, LikeContent, validate_fee_shards,
                                              shards_initialized
  <1>3. slot \in Slots /\ page \in Pages
    BY AccountsAssumption DEF LikeContent, Slots, Pages
  <1>4. counts \in [Slots -> u32]
    <2>1. 0 \in u32
      BY AccountsAssumption DEF u32
    <2>2. CASE likes[page] = NULL
      BY <2>1, <2>2
    <2>3. CASE likes[page] # NULL
      BY <1>3, <2>3 DEF TypeOK
    <2> QED
      BY <2>2, <2>3
  <1>5. liked \in [Slots -> u32]
    BY <1>3, <1>4, AccountsAssumption DEF u32, saturating_inc
  <1>6. likes' = [likes EXCEPT ![page] = liked]
    BY DEF LikeContent
  <1>7. likes' \in [Pages -> [Slots -> u32] \cup {NULL}]
    BY <1>5, <1>6 DEF TypeOK
  <1> QED
    BY <1>1, <1>2, <1>7 DEF TypeOK, LikeContent, accessVars, followVars

\* process_set_message_fee and process_set_like_fee write one fee.
LEMMA PricingTypes == TypeOK /\ PricingNext => TypeOK'
  <1> SUFFICES ASSUME TypeOK, NEW w \in Wallets, NEW t \in Threads, NEW fee \in FeeInputs,
                      SetMessageFee(w, t, fee) \/ SetLikeFee(w, t, fee)
               PROVE  TypeOK'
    BY DEF PricingNext
  <1>1. thread[t] \in ThreadNode /\ fee \in u64
    BY InputAssumption DEF TypeOK, SetMessageFee, SetLikeFee, load_author_thread, load_thread
  <1>2. /\ [thread[t] EXCEPT !.message_fee = fee] \in ThreadNode
        /\ [thread[t] EXCEPT !.like_fee = fee] \in ThreadNode
    BY <1>1 DEF ThreadNode
  <1>3. thread' \in [Threads -> ThreadNode \cup {NULL}] /\ threadOnly
    BY <1>2 DEF TypeOK, SetMessageFee, SetLikeFee
  <1> QED
    BY <1>3 DEF TypeOK, threadOnly, accessVars, followVars

\* A wallet's follower shard is one of the channel's shards
\* (follower_shard_index reduces the first byte of its key).
LEMMA FollowerShardTypes ==
    ASSUME NEW w \in Wallets, NEW t \in Threads
    PROVE  <<t, follower_shard_index(w)>> \in FollowerShards
  <1>1. FirstByte[w] \in 0..255 /\ N_FOLLOWER_SHARDS \in Nat \ {0}
    BY AccountsAssumption
  <1>2. follower_shard_index(w) \in 0..(N_FOLLOWER_SHARDS - 1)
    BY <1>1 DEF follower_shard_index
  <1> QED
    BY <1>2 DEF FollowerShards

\* process_subscribe pushes a channel and adds one to a checked u64 counter.
LEMMA SubscribeTypes ==
    ASSUME TypeOK, NEW w \in Wallets, NEW t \in Threads, Subscribe(w, t)
    PROVE  TypeOK'
  <1> DEFINE channels == IF registry[w] = NULL THEN <<>> ELSE registry[w]
             s        == <<t, follower_shard_index(w)>>
             count    == IF follower_shard[s] = NULL THEN 1 ELSE follower_shard[s] + 1
  <1>1. lamports' \in [Addr -> u64]
    BY DEF Subscribe, Commit, Accepted
  <1>2. registry' \in [Wallets -> Seq(Threads) \cup {NULL}]
    <2>1. registry' = [registry EXCEPT ![w] = Append(channels, t)]
      BY DEF Subscribe
    <2>2. channels \in Seq(Threads)
      BY DEF TypeOK
    <2>3. Append(channels, t) \in Seq(Threads)
      BY <2>2
    <2> QED
      BY <2>1, <2>3 DEF TypeOK
  <1>3. follower_shard' \in [FollowerShards -> u64 \cup {NULL}]
    <2>1. s \in FollowerShards
      BY FollowerShardTypes
    <2>2. follower_shard[s] # NULL => follower_shard[s] \in u64 /\ follower_shard[s] + 1 <= U64Max
      BY <2>1 DEF TypeOK, Subscribe
    <2>3. 1 \in u64
      BY LedgerAssumption DEF u64
    <2>4. count \in u64
      BY <2>2, <2>3, LedgerAssumption DEF u64
    <2>5. follower_shard' = [follower_shard EXCEPT ![s] = count]
      BY DEF Subscribe
    <2> QED
      BY <2>4, <2>5 DEF TypeOK
  <1> QED
    BY <1>1, <1>2, <1>3 DEF TypeOK, Subscribe, followOnly, boardVars, accessVars

\* process_unsubscribe removes a channel and subtracts one, not below zero.
LEMMA UnsubscribeTypes ==
    ASSUME TypeOK, NEW w \in Wallets, NEW t \in Threads, Unsubscribe(w, t)
    PROVE  TypeOK'
  <1> DEFINE s == <<t, follower_shard_index(w)>>
  <1>1. lamports' \in [Addr -> u64]
    BY DEF Unsubscribe, Commit, Accepted
  <1>2. registry' \in [Wallets -> Seq(Threads) \cup {NULL}]
    <2>1. registry[w] \in Seq(Threads)
      BY DEF TypeOK, Unsubscribe
    <2>2. PICK pos \in DOMAIN registry[w] :
              registry' = [registry EXCEPT ![w] = swap_remove(registry[w], pos)]
      BY DEF Unsubscribe
    <2>3. swap_remove(registry[w], pos) \in Seq(Threads)
      BY <2>1, SwapRemoveTypes
    <2> QED
      BY <2>2, <2>3 DEF TypeOK
  <1>3. follower_shard' \in [FollowerShards -> u64 \cup {NULL}]
    <2>1. s \in FollowerShards
      BY FollowerShardTypes
    <2>2. follower_shard[s] \in u64
      BY <2>1 DEF TypeOK, Unsubscribe
    <2>3. SaturatingSub(follower_shard[s], 1) \in u64
      BY <2>2, LedgerAssumption DEF SaturatingSub, u64
    <2>4. follower_shard' = [follower_shard EXCEPT ![s] = SaturatingSub(follower_shard[s], 1)]
      BY DEF Unsubscribe
    <2> QED
      BY <2>3, <2>4 DEF TypeOK
  <1> QED
    BY <1>1, <1>2, <1>3 DEF TypeOK, Unsubscribe, followOnly, boardVars, accessVars

\* A plain transfer writes no account data.
LEMMA GiftTypes == TypeOK /\ GiftNext => TypeOK'
  <1> SUFFICES ASSUME TypeOK, NEW w \in Wallets, NEW gift \in GiftInputs,
                      SystemTransfer(w, gift[1], gift[2])
               PROVE  TypeOK'
    BY DEF GiftNext
  <1>1. lamports' \in [Addr -> u64]
    BY CommitTypes DEF SystemTransfer
  <1> QED
    BY <1>1 DEF TypeOK, SystemTransfer, boardVars, accessVars, followVars

\* The clock writes no account data.
LEMMA TickTypes == TypeOK /\ Tick => TypeOK'
  BY DEF TypeOK, Tick, boardVars, accessVars, followVars

-----------------------------------------------------------------------------
\* Every instruction of the program, in any order and with any data, leaves
\* every account a value of its layout: no counter leaves its width, no body
\* its length, no cut its cap.
LEMMA NextTypes == TypeOK /\ [Next]_vars => TypeOK'
  <1> SUFFICES ASSUME TypeOK, [Next]_vars PROVE TypeOK'
    OBVIOUS
  <1>1. CASE SetupNext
    BY <1>1, InitSettingsTypes, CreateRootAllocTypes DEF SetupNext
  <1>2. CASE FollowNext
    BY <1>2, SubscribeTypes, UnsubscribeTypes DEF FollowNext
  <1>3. CASE UNCHANGED vars
    BY <1>3 DEF TypeOK, vars, boardVars, accessVars, followVars
  <1> QED
    BY <1>1, <1>2, <1>3, AdminTypes, CutTypes, SweepTypes, MembershipTypes, PageTypes,
       PostTypes, DeleteTypes, AppendTypes, LikeTypes, PricingTypes, GiftTypes, TickTypes
       DEF Next

\* Type correctness of the whole program (TypeOK of every run): what the
\* loaders of src/state/loaders.rs deserialize is always what a handler wrote.
THEOREM TypeCorrect == Spec => []TypeOK
  BY InitTypes, NextTypes, PTL DEF Spec

-----------------------------------------------------------------------------
(***************************************************************************)
(* Induction over a loop.                                                  *)
(***************************************************************************)

\* A set of numbers that contains zero and the successor of each of its
\* members contains every number.  It is what a proof about a loop of the
\* program (the loop of the two sweeps) needs.
LEMMA LoopInduction ==
    ASSUME NEW S, 0 \in S, \A n \in Nat : n \in S => n + 1 \in S
    PROVE  Nat \subseteq S
  <1> SUFFICES ASSUME Nat \ S # {} PROVE FALSE
    OBVIOUS
  <1> DEFINE less == OpToRel(<, Nat)
  <1>1. IsWellFoundedOn(less, Nat)
    BY NatLessThanWellFounded
  <1>2. less = {p \in Nat \X Nat : p[1] < p[2]}
    BY DEF OpToRel
  <1> HIDE DEF less
  <1>3. PICK m \in Nat \ S : \A y \in Nat \ S : ~(<<y, m>> \in less)
    BY <1>1, WFMin
  <1>4. m # 0 /\ m - 1 \in Nat /\ m - 1 < m /\ (m - 1) + 1 = m
    BY <1>3
  <1>5. <<m - 1, m>> \in less
    BY <1>2, <1>3, <1>4
  <1>6. m - 1 \in S
    BY <1>3, <1>4, <1>5
  <1> QED
    BY <1>3, <1>4, <1>6

\* f is the sequence of ledgers that the first n turns of a sweep's loop go
\* through.
SweepTrace(f, n, list, recipient) ==
    f = [i \in 0..n |->
            IF i = 0 THEN lamports ELSE sweep_one(f[i - 1], list[i], recipient)]

\* The loop of the sweeps runs to its end on every list.
LEMMA SweepTraceExists ==
    ASSUME NEW list, NEW recipient
    PROVE  \A n \in Nat : \E f : SweepTrace(f, n, list, recipient)
  <1> DEFINE S == {n \in Nat : \E f : SweepTrace(f, n, list, recipient)}
  <1>1. 0 \in S
    <2> DEFINE f == [i \in 0..0 |-> lamports]
    <2>1. SweepTrace(f, 0, list, recipient)
      BY DEF SweepTrace
    <2> QED
      BY <2>1
  <1>2. ASSUME NEW n \in Nat, n \in S PROVE n + 1 \in S
    <2>1. PICK g : SweepTrace(g, n, list, recipient)
      BY <1>2
    <2> DEFINE next == sweep_one(g[n], list[n + 1], recipient)
               f    == [i \in 0..(n + 1) |-> IF i = n + 1 THEN next ELSE g[i]]
               h    == [i \in 0..(n + 1) |->
                          IF i = 0 THEN lamports ELSE sweep_one(f[i - 1], list[i], recipient)]
    <2>2. \A i \in 0..n :
             g[i] = IF i = 0 THEN lamports ELSE sweep_one(g[i - 1], list[i], recipient)
      BY <2>1 DEF SweepTrace
    <2>3. ASSUME NEW i \in 0..(n + 1)
          PROVE  f[i] = IF i = 0 THEN lamports ELSE sweep_one(f[i - 1], list[i], recipient)
      <3>1. CASE i = n + 1
        <4>1. i - 1 \in 0..(n + 1) /\ i - 1 # n + 1 /\ i - 1 = n /\ i # 0
          BY <3>1
        <4>2. f[i - 1] = g[n] /\ f[i] = next
          BY <3>1, <4>1
        <4> QED
          BY <3>1, <4>1, <4>2
      <3>2. CASE i # n + 1 /\ i # 0
        <4>1. i \in 0..n /\ i - 1 \in 0..(n + 1) /\ i - 1 # n + 1
          BY <3>2
        <4>2. f[i] = g[i] /\ f[i - 1] = g[i - 1]
          BY <3>2, <4>1
        <4> QED
          BY <2>2, <3>2, <4>1, <4>2
      <3>3. CASE i = 0
        BY <2>2, <3>3
      <3> QED
        BY <3>1, <3>2, <3>3
    <2>4. f = h
      BY <2>3
    <2>5. SweepTrace(f, n + 1, list, recipient)
      BY <2>4 DEF SweepTrace
    <2> QED
      BY <2>5
  <1>3. Nat \subseteq S
    BY <1>1, <1>2, LoopInduction
  <1> QED
    BY <1>3

\* What a sweep commits is the last ledger of its loop.
LEMMA SweptUnfolds ==
    ASSUME NEW list, Len(list) \in Nat, NEW recipient
    PROVE  \E f : /\ SweepTrace(f, Len(list), list, recipient)
                  /\ swept(list, recipient) = f[Len(list)]
  <1> DEFINE f == CHOOSE g : SweepTrace(g, Len(list), list, recipient)
  <1>1. SweepTrace(f, Len(list), list, recipient)
    BY SweepTraceExists, Zenon
  <1>2. swept(list, recipient) = f[Len(list)]
    BY Zenon DEF swept, SweepTrace
  <1> QED
    BY <1>1, <1>2

-----------------------------------------------------------------------------
(***************************************************************************)
(* What the helpers do to a ledger.                                        *)
(***************************************************************************)

\* Balances in the middle of an instruction: a payer may be overdrawn there.
Ledgers == [Addr -> Int]

\* Rent is a positive number ...
LEMMA RentTypes ==
    ASSUME NEW size \in Nat
    PROVE  minimum_balance(size) \in Nat /\ minimum_balance(size) > 0
  <1>1. LamportsPerByte \in Nat \ {0}
    BY LedgerAssumption
  <1> QED
    BY <1>1 DEF minimum_balance

\* ... that grows with the size of the account.
LEMMA RentGrows ==
    ASSUME NEW m \in Nat, NEW n \in Nat, m <= n
    PROVE  minimum_balance(m) <= minimum_balance(n)
  <1>1. LamportsPerByte \in Nat
    BY LedgerAssumption
  <1>2. PICK d \in Nat : n = m + d
    <2>1. n - m \in Nat /\ n = m + (n - m)
      OBVIOUS
    <2> QED
      BY <2>1
  <1>3. (128 + n) * LamportsPerByte = (128 + m) * LamportsPerByte + d * LamportsPerByte
    BY <1>1, <1>2
  <1>4. d * LamportsPerByte \in Nat /\ (128 + m) * LamportsPerByte \in Nat
    BY <1>1, <1>2
  <1> QED
    BY <1>3, <1>4 DEF minimum_balance

\* The accounts' sizes are numbers (src/state/accounts.rs).
LEMMA SizeTypes ==
    /\ {AllocNode_size, ProgramSettings_size, ThreadAccess_size, AccessEntry_size,
        AllocLikes_size, FollowerShard_size} \subseteq Nat
    /\ \A n \in Nat : {ThreadNode_size(n), FollowRegistry_size(n), ContentNode_size(n)}
                          \subseteq Nat
  BY AccountsAssumption DEF AllocNode_size, ProgramSettings_size, ThreadAccess_size,
     AccessEntry_size, AllocLikes_size, FollowerShard_size, ThreadNode_size,
     FollowRegistry_size, ContentNode_size

\* M is L after w paid x lamports to a.
Deposit(L, M, w, a, x) ==
    /\ M \in Ledgers
    /\ M[w] = L[w] - x
    /\ M[a] = L[a] + x
    /\ \A b \in Addr \ {w, a} : M[b] = L[b]

\* system_instruction::transfer between different accounts.
LEMMA TransferEffect ==
    ASSUME NEW L \in Ledgers, NEW w \in Addr, NEW a \in Addr, w # a, NEW x \in Int
    PROVE  Deposit(L, transfer(L, w, a, x), w, a, x)
  BY DEF Ledgers, transfer, Deposit

\* u64::saturating_sub and max, on numbers.
LEMMA ArithmeticTypes ==
    ASSUME NEW x \in Int, NEW y \in Int
    PROVE  /\ SaturatingSub(x, y) \in Nat
           /\ y + SaturatingSub(x, y) >= x
           /\ SaturatingSub(x, y) = 0 \/ SaturatingSub(x, y) = x - y
           /\ Greater(x, y) \in Int
           /\ Greater(x, y) >= x /\ Greater(x, y) >= y
           /\ Greater(x, y) = x \/ Greater(x, y) = y
  BY DEF SaturatingSub, Greater

\* What is missing in a for an account of that size.
Missing(L, a, size) == SaturatingSub(minimum_balance(size), L[a])

\* create_pda_account and ensure_rent_exempt pay what is missing: afterwards
\* the account is rent-exempt for its size, however much it held before.
LEMMA CreateEffect ==
    ASSUME NEW L \in Ledgers, NEW w \in Addr, NEW a \in Addr, w # a, NEW size \in Nat
    PROVE  /\ Missing(L, a, size) \in Nat
           /\ L[a] + Missing(L, a, size) >= minimum_balance(size)
           /\ Deposit(L, create_pda_account(L, w, a, size), w, a, Missing(L, a, size))
           /\ ensure_rent_exempt(L, w, a, size) = create_pda_account(L, w, a, size)
  <1>1. minimum_balance(size) \in Int /\ L[a] \in Int
    BY RentTypes DEF Ledgers
  <1>2. Missing(L, a, size) \in Nat /\ L[a] + Missing(L, a, size) >= minimum_balance(size)
    BY <1>1, ArithmeticTypes DEF Missing
  <1>3. create_pda_account(L, w, a, size) = transfer(L, w, a, Missing(L, a, size))
    BY DEF create_pda_account, Missing
  <1>4. ensure_rent_exempt(L, w, a, size) = create_pda_account(L, w, a, size)
    BY DEF create_pda_account, ensure_rent_exempt
  <1> QED
    BY <1>2, <1>3, <1>4, TransferEffect

\* ensure_shard_initialized pays for a shard that does not exist yet.
LEMMA ShardEffect ==
    ASSUME NEW L \in Ledgers, NEW w \in Addr, NEW s \in Addr, w # s
    PROVE  LET x == IF s \in shards THEN 0 ELSE Missing(L, s, 0)
           IN  /\ x \in Nat
               /\ s \notin shards => L[s] + x >= minimum_balance(0)
               /\ Deposit(L, ensure_shard_initialized(L, w, s), w, s, x)
  <1>1. CASE s \in shards
    BY <1>1 DEF ensure_shard_initialized, Deposit, Ledgers
  <1>2. CASE s \notin shards
    <2>1. ensure_shard_initialized(L, w, s) = create_pda_account(L, w, s, 0)
      BY <1>2 DEF ensure_shard_initialized
    <2> QED
      BY <1>2, <2>1, CreateEffect
  <1> QED
    BY <1>1, <1>2

\* collect_fee_to_shard pays the fee, or what the shard lacks if that is more.
LEMMA CollectEffect ==
    ASSUME NEW L \in Ledgers, NEW w \in Addr, NEW s \in Addr, w # s, NEW fee \in Nat
    PROVE  LET x == IF fee = 0 THEN 0 ELSE Greater(fee, Missing(L, s, 0))
           IN  /\ x \in Nat /\ x >= fee
               /\ L[s] >= minimum_balance(0) => x = fee
               /\ Deposit(L, collect_fee_to_shard(L, fee, w, s), w, s, x)
  <1>1. CASE fee = 0
    BY <1>1 DEF collect_fee_to_shard, Deposit, Ledgers
  <1>2. CASE fee # 0
    <2> DEFINE lack == Missing(L, s, 0)
               x    == Greater(fee, lack)
    <2>1. minimum_balance(0) \in Int /\ L[s] \in Int
      BY RentTypes DEF Ledgers
    <2>2. lack \in Nat /\ (L[s] >= minimum_balance(0) => lack = 0)
      BY <2>1, ArithmeticTypes DEF Missing, SaturatingSub
    <2>3. x \in Nat /\ x >= fee /\ (lack = 0 => x = fee)
      BY <2>2 DEF Greater
    <2>4. collect_fee_to_shard(L, fee, w, s) = transfer(L, w, s, x)
      BY <1>2 DEF collect_fee_to_shard, Missing
    <2>5. Deposit(L, transfer(L, w, s, x), w, s, x)
      BY <2>3, TransferEffect
    <2> HIDE DEF x, lack
    <2>6. /\ x \in Nat /\ x >= fee
          /\ L[s] >= minimum_balance(0) => x = fee
          /\ Deposit(L, collect_fee_to_shard(L, fee, w, s), w, s, x)
      BY <2>2, <2>3, <2>4, <2>5
    <2> QED
      BY <1>2, <2>6 DEF x, lack
  <1> QED
    BY <1>1, <1>2

\* The cast of a natural number to u64 is one.
LEMMA CastTypes ==
    ASSUME NEW x \in Nat
    PROVE  AsU64(x) \in Nat /\ (x <= U64Max => AsU64(x) = x)
  <1>1. U64Max \in Nat
    BY LedgerAssumption
  <1>2. x % (U64Max + 1) \in Nat
    BY <1>1
  <1> QED
    BY <1>1, <1>2 DEF AsU64

\* A part of at most one hundred per cent is at most the whole.
LEMMA PartBound ==
    ASSUME NEW x \in Nat, NEW bps \in 0..BpsDenominator
    PROVE  /\ (x * bps) \div BpsDenominator \in Nat
           /\ (x * bps) \div BpsDenominator <= x
  <1>1. x * bps \in Nat /\ x * bps <= x * 10000
    <2>1. PICK d \in Nat : 10000 = bps + d
      <3>1. 10000 - bps \in Nat /\ 10000 = bps + (10000 - bps)
        BY DEF BpsDenominator
      <3> QED
        BY <3>1
    <2>2. bps \in Nat /\ x * (bps + d) = x * bps + x * d /\ x * d \in Nat /\ x * bps \in Nat
      BY <2>1 DEF BpsDenominator
    <2> QED
      BY <2>1, <2>2
  <1>2. \A y \in Nat : y <= x * 10000 => y \div 10000 \in Nat /\ y \div 10000 <= x
    OBVIOUS
  <1>3. (x * bps) \div 10000 \in Nat /\ (x * bps) \div 10000 <= x
    <2> DEFINE y == x * bps
    <2>1. y \in Nat /\ y <= x * 10000
      BY <1>1
    <2> HIDE DEF y
    <2>2. y \div 10000 \in Nat /\ y \div 10000 <= x
      BY <1>2, <2>1
    <2> QED
      BY <2>2 DEF y
  <1> QED
    BY <1>3 DEF BpsDenominator

\* compute_fee_split divides a fee without losing or adding a lamport: its
\* cast loses nothing and its saturating_sub never saturates.
LEMMA SplitExact ==
    ASSUME NEW fee \in u64, NEW bps \in 0..BpsDenominator
    PROVE  LET split == compute_fee_split(fee, bps)
           IN  /\ split.platform = (fee * bps) \div BpsDenominator
               /\ split.platform \in Nat /\ split.author \in Nat
               /\ split.platform + split.author = fee
  <1> DEFINE part == (fee * bps) \div BpsDenominator
  <1>1. fee \in Nat /\ fee <= U64Max /\ U64Max \in Nat
    BY LedgerAssumption DEF u64
  <1>2. part \in Nat /\ part <= fee
    BY <1>1, PartBound
  <1>3. AsU64(part) = part
    BY <1>1, <1>2, CastTypes
  <1> HIDE DEF part
  <1>4. SaturatingSub(fee, part) \in Nat /\ part + SaturatingSub(fee, part) = fee
    BY <1>1, <1>2 DEF SaturatingSub
  <1>5. compute_fee_split(fee, bps) = [author |-> SaturatingSub(fee, part), platform |-> part]
    BY <1>3 DEF compute_fee_split, part
  <1> QED
    BY <1>2, <1>4, <1>5 DEF part

\* The base fee is a number.
LEMMA BaseFeeTypes ==
    ASSUME NEW rent \in Nat, NEW bps \in 0..BpsDenominator
    PROVE  base_fee(rent, bps) \in Nat
  BY PartBound, CastTypes DEF base_fee

\* transfer_fee_split is two payments, to the treasury's shard and then to the
\* author's.
LEMMA SplitEffect ==
    ASSUME NEW L, NEW fee, NEW bps, NEW w, NEW s, NEW a
    PROVE  LET split == compute_fee_split(fee, bps)
           IN  transfer_fee_split(L, fee, bps, w, a, s)
                 = collect_fee_to_shard(collect_fee_to_shard(L, split.platform, w, s),
                                        split.author, w, a)
  BY DEF transfer_fee_split

-----------------------------------------------------------------------------
(***************************************************************************)
(* Addresses (src/state/pda.rs).                                           *)
(***************************************************************************)

\* Every address the program derives is one of the PDAs ...
LEMMA PdaTypes ==
    /\ derive_settings_pda \in Pdas
    /\ \A t \in Threads, seq \in AllocSeqs :
          derive_alloc_pda(t, seq) \in Pdas /\ derive_likes_pda(t, seq) \in Pdas
    /\ \A id \in ContentIds : derive_content_pda(id[1], id[2], id[3]) \in Pdas
    /\ \A t \in Threads : derive_access_pda(t) \in Pdas
    /\ \A t \in Threads, w \in Wallets : derive_access_entry_pda(t, w) \in Pdas
    /\ \A w \in Wallets : derive_follow_registry_pda(w) \in Pdas
    /\ \A s \in FollowerShards : derive_follower_shard_pda(s[1], s[2]) \in Pdas
    /\ FeeShards \subseteq Pdas
  <1>1. ASSUME NEW t \in Threads, NEW seq \in AllocSeqs
        PROVE  derive_alloc_pda(t, seq) \in Pdas /\ derive_likes_pda(t, seq) \in Pdas
    <2>1. <<t, seq>> \in Pages /\ <<t, seq>>[1] = t /\ <<t, seq>>[2] = seq
      BY DEF Pages
    <2> QED
      BY <2>1 DEF Pdas
  <1> QED
    BY <1>1 DEF Pdas

\* ... and no wallet and no thread key is.
LEMMA KeysApart ==
    /\ \A a \in Pdas : a \in Addr /\ a \notin Wallets /\ a \notin Threads
    /\ \A w \in Wallets : w \in Addr /\ w \notin Pdas /\ w \notin Threads
    /\ \A t \in Threads : t \in Addr /\ t \notin Pdas /\ t \notin Wallets
  BY KeyAssumption, AccountsAssumption DEF Addr

\* A fee shard's seeds start as no other account's do.
LEMMA ShardTags ==
    /\ \A k : derive_treasury_shard_pda(k)[1] = "treasury_shard"
    /\ \A t, k : derive_author_fee_pda(t, k)[1] = "author_fee"
    /\ \A s \in FeeShards : s[1] \in {"treasury_shard", "author_fee"}
  <1>1. \A k : derive_treasury_shard_pda(k)[1] = "treasury_shard"
    BY DEF derive_treasury_shard_pda
  <1>2. \A t, k : derive_author_fee_pda(t, k)[1] = "author_fee"
    BY DEF derive_author_fee_pda
  <1> QED
    BY <1>1, <1>2 DEF FeeShards, TreasuryShards, AuthorShards

\* The seeds of a fee shard tell whose it is.
LEMMA ShardSeeds ==
    /\ \A s \in FeeShards : \A k : s = derive_treasury_shard_pda(k) => s \in TreasuryShards
    /\ \A s \in FeeShards : \A t, k : s = derive_author_fee_pda(t, k) => s \in AuthorShards(t)
    /\ \A t \in Threads : \A u, k : derive_author_fee_pda(u, k) \in AuthorShards(t) => u = t
    /\ TreasuryShards \subseteq FeeShards
    /\ \A t \in Threads : AuthorShards(t) \subseteq FeeShards
    /\ \A t : \A s \in AuthorShards(t) : s[1] = "author_fee"
    /\ \A s \in TreasuryShards : s[1] = "treasury_shard"
  <1>1. /\ TreasuryShards \subseteq FeeShards
        /\ \A t \in Threads : AuthorShards(t) \subseteq FeeShards
    BY DEF FeeShards
  <1>2. \A t : \A s \in AuthorShards(t) : s[1] = "author_fee"
    BY ShardTags DEF AuthorShards
  <1>3. \A s \in TreasuryShards : s[1] = "treasury_shard"
    BY ShardTags DEF TreasuryShards
  <1>4. \A t, u, k, l : derive_author_fee_pda(u, k) = derive_author_fee_pda(t, l) => u = t
    BY DEF derive_author_fee_pda
  <1>5. \A t \in Threads : \A u, k : derive_author_fee_pda(u, k) \in AuthorShards(t) => u = t
    BY <1>4 DEF AuthorShards
  <1>6. ASSUME NEW s \in FeeShards, NEW k, s = derive_treasury_shard_pda(k)
        PROVE  s \in TreasuryShards
    <2>1. s[1] = "treasury_shard"
      BY <1>6, ShardTags
    <2> QED
      BY <1>2, <2>1 DEF FeeShards
  <1>7. ASSUME NEW s \in FeeShards, NEW t, NEW k, s = derive_author_fee_pda(t, k)
        PROVE  s \in AuthorShards(t)
    <2>1. s[1] = "author_fee"
      BY <1>7, ShardTags
    <2>2. PICK u \in Threads : s \in AuthorShards(u)
      BY <1>3, <2>1 DEF FeeShards
    <2>3. u = t
      BY <1>5, <1>7, <2>2
    <2> QED
      BY <2>2, <2>3
  <1> QED
    BY <1>1, <1>2, <1>3, <1>5, <1>6, <1>7

\* The accounts that are no fee shards.
LEMMA OtherTags ==
    /\ derive_settings_pda[1] = "settings"
    /\ \A t, seq : derive_alloc_pda(t, seq)[1] = "alloc" /\ derive_likes_pda(t, seq)[1] = "likes"
    /\ \A t, seq, slot : derive_content_pda(t, seq, slot)[1] = "content"
    /\ \A t : derive_access_pda(t)[1] = "access"
    /\ \A t, w : derive_access_entry_pda(t, w)[1] = "acl"
    /\ \A w : derive_follow_registry_pda(w)[1] = "follows"
    /\ \A t, k : derive_follower_shard_pda(t, k)[1] = "follower_count"
  BY DEF derive_settings_pda, derive_alloc_pda, derive_likes_pda, derive_content_pda,
         derive_access_pda, derive_access_entry_pda, derive_follow_registry_pda,
         derive_follower_shard_pda

\* The accounts other than fee shards are neither wallets nor fee shards.
LEMMA OthersApart ==
    /\ derive_settings_pda \notin Wallets \cup FeeShards
    /\ \A t \in Threads : t \notin Wallets \cup FeeShards
    /\ \A p \in Pages : derive_alloc_pda(p[1], p[2]) \notin Wallets \cup FeeShards
    /\ \A p \in Pages : derive_likes_pda(p[1], p[2]) \notin Wallets \cup FeeShards
    /\ \A id \in ContentIds : derive_content_pda(id[1], id[2], id[3]) \notin Wallets \cup FeeShards
    /\ \A t \in Threads : derive_access_pda(t) \notin Wallets \cup FeeShards
    /\ \A t \in Threads, w \in Wallets : derive_access_entry_pda(t, w) \notin Wallets \cup FeeShards
    /\ \A w \in Wallets : derive_follow_registry_pda(w) \notin Wallets \cup FeeShards
    /\ \A s \in FollowerShards : derive_follower_shard_pda(s[1], s[2]) \notin Wallets \cup FeeShards
  <1>1. \A p \in Pages : p[1] \in Threads /\ p[2] \in AllocSeqs
    BY DEF Pages
  <1>2. \A a : a[1] \notin {"treasury_shard", "author_fee"} => a \notin FeeShards
    BY ShardTags
  <1>3. \A a \in Pdas : a[1] \notin {"treasury_shard", "author_fee"} => a \notin Wallets \cup FeeShards
    BY <1>2, KeysApart
  <1>4. \A t \in Threads : t \notin Wallets \cup FeeShards
    BY KeysApart, PdaTypes
  <1> QED
    BY <1>1, <1>3, <1>4, PdaTypes, OtherTags

\* The addresses an instruction that collects fees pays to.
LEMMA FeeAddresses ==
    ASSUME NEW w \in Wallets, NEW t \in Threads, NEW k \in TreasuryIdx, NEW j \in AuthorIdx,
           validate_fee_shards(k, j)
    PROVE  LET s == derive_treasury_shard_pda(k)
               a == derive_author_fee_pda(t, j)
           IN  /\ s \in FeeShards /\ a \in FeeShards /\ s # a
               /\ s \in Addr /\ a \in Addr /\ w \in Addr /\ w # s /\ w # a
  <1> DEFINE s == derive_treasury_shard_pda(k)
             a == derive_author_fee_pda(t, j)
  <1>1. s \in FeeShards /\ a \in FeeShards
    BY TreasuryShardTypes, AuthorShardTypes DEF validate_fee_shards
  <1>2. s[1] # a[1]
    BY ShardTags
  <1> HIDE DEF s, a
  <1>3. s \in Addr /\ a \in Addr /\ w \in Addr /\ w # s /\ w # a
    BY <1>1, PdaTypes, KeysApart
  <1> QED
    BY <1>1, <1>2, <1>3 DEF s, a

\* The treasury shard that process_create_root_alloc,
\* process_init_thread_access and process_append_content pay to is no wallet.
LEMMA TreasuryAddress ==
    ASSUME NEW w \in Wallets, NEW k \in TreasuryIdx, validate_treasury_shard(k)
    PROVE  LET s == derive_treasury_shard_pda(k)
           IN  s \in FeeShards /\ s \in Addr /\ w \in Addr /\ w # s
  <1>1. derive_treasury_shard_pda(k) \in FeeShards
    BY TreasuryShardTypes
  <1> QED
    BY <1>1, PdaTypes, KeysApart

-----------------------------------------------------------------------------
(***************************************************************************)
(* The payments an instruction is made of, on shards that are funded.      *)
(***************************************************************************)

\* The balances are a ledger.
LEMMA BalancesAreLedger ==
    ASSUME TypeOK
    PROVE  lamports \in Ledgers
  BY LedgerAssumption DEF TypeOK, u64, Ledgers

\* The cuts of the settings are parts of at most one hundred per cent, and the
\* fees of channels fit a u64.
LEMMA PriceTypes ==
    ASSUME TypeOK
    PROVE  /\ settings # NULL =>
                /\ settings.base_fee_bps \in Bps /\ settings.author_fee_cut_bps \in Bps
                /\ settings.entry_cut_bps \in Bps /\ settings.like_cut_bps \in Bps
           /\ \A t \in Threads :
                /\ thread[t] # NULL => thread[t].message_fee \in u64 /\ thread[t].like_fee \in u64
                /\ access[t] # NULL => access[t].entry_fee \in u64
           /\ Bps \subseteq 0..BpsDenominator
           /\ 0 \in u64
  <1>1. Bps \subseteq 0..BpsDenominator /\ 0 \in u64
    <2>1. MAX_FEE_CUT_BPS \in 0..BpsDenominator
      BY AccountsAssumption
    <2>2. BpsDenominator \in Nat
      BY DEF BpsDenominator
    <2>3. ASSUME NEW b \in Bps PROVE b \in 0..BpsDenominator
      BY <2>1, <2>2 DEF Bps
    <2>4. Bps \subseteq 0..BpsDenominator
      BY <2>3
    <2>5. 0 \in u64
      BY LedgerAssumption DEF u64
    <2> QED
      BY <2>4, <2>5
  <1>2. settings # NULL => settings \in ProgramSettings
    BY DEF TypeOK
  <1>3. \A t \in Threads : /\ thread[t] # NULL => thread[t] \in ThreadNode
                           /\ access[t] # NULL => access[t] \in ThreadAccess
    BY DEF TypeOK
  <1>4. settings # NULL =>
                /\ settings.base_fee_bps \in Bps /\ settings.author_fee_cut_bps \in Bps
                /\ settings.entry_cut_bps \in Bps /\ settings.like_cut_bps \in Bps
    BY <1>2 DEF ProgramSettings
  <1>5. ASSUME NEW t \in Threads
        PROVE  /\ thread[t] # NULL => thread[t].message_fee \in u64 /\ thread[t].like_fee \in u64
               /\ access[t] # NULL => access[t].entry_fee \in u64
    BY <1>3 DEF ThreadNode, ThreadAccess
  <1> QED
    BY <1>1, <1>4, <1>5

\* What a wallet pays on top of the fees is never negative.
LEMMA MissingTypes ==
    ASSUME NEW L \in Ledgers, NEW a \in Addr, NEW size \in Nat
    PROVE  /\ Missing(L, a, size) \in Nat
           /\ Missing(L, a, size) <= minimum_balance(size) \/ L[a] < 0
           /\ L[a] + Missing(L, a, size) >= minimum_balance(size)
           /\ L[a] >= minimum_balance(size) => Missing(L, a, size) = 0
  <1>1. minimum_balance(size) \in Nat /\ L[a] \in Int
    BY RentTypes DEF Ledgers
  <1> QED
    BY <1>1 DEF Missing, SaturatingSub

\* A shard's balance once it exists.
Funded(x) == Greater(x, minimum_balance(0))

\* ensure_shard_initialized leaves a funded shard, and costs what was missing.
LEMMA OpenShard ==
    ASSUME NEW L \in Ledgers, NEW w \in Addr, NEW s \in Addr, w # s,
           s \in shards => L[s] >= minimum_balance(0)
    PROVE  /\ Missing(L, s, 0) \in Nat
           /\ L[s] + Missing(L, s, 0) = Funded(L[s])
           /\ Funded(L[s]) >= minimum_balance(0)
           /\ Deposit(L, ensure_shard_initialized(L, w, s), w, s, Missing(L, s, 0))
  <1>1. minimum_balance(0) \in Int /\ L[s] \in Int
    BY RentTypes DEF Ledgers
  <1>2. /\ Missing(L, s, 0) \in Nat
        /\ L[s] + Missing(L, s, 0) = Funded(L[s])
        /\ Funded(L[s]) >= minimum_balance(0)
        /\ L[s] >= minimum_balance(0) => Missing(L, s, 0) = 0
    BY <1>1 DEF Missing, SaturatingSub, Funded, Greater
  <1>3. Deposit(L, ensure_shard_initialized(L, w, s), w, s,
                IF s \in shards THEN 0 ELSE Missing(L, s, 0))
    BY ShardEffect
  <1>4. (IF s \in shards THEN 0 ELSE Missing(L, s, 0)) = Missing(L, s, 0)
    BY <1>2
  <1> QED
    BY <1>2, <1>3, <1>4

\* collect_fee_to_shard moves exactly the fee to a funded shard.
LEMMA PayFee ==
    ASSUME NEW L \in Ledgers, NEW w \in Addr, NEW s \in Addr, w # s, NEW fee \in Nat,
           L[s] >= minimum_balance(0)
    PROVE  Deposit(L, collect_fee_to_shard(L, fee, w, s), w, s, fee)
  <1> DEFINE x == IF fee = 0 THEN 0 ELSE Greater(fee, Missing(L, s, 0))
  <1>1. x = fee /\ Deposit(L, collect_fee_to_shard(L, fee, w, s), w, s, x)
    BY CollectEffect
  <1> QED
    BY <1>1

\* ensure_fee_shards_initialized leaves two funded shards.
LEMMA OpenFeeShards ==
    ASSUME NEW L \in Ledgers, NEW w \in Addr, NEW s \in Addr, NEW a \in Addr,
           w # s, w # a, s # a,
           s \in shards => L[s] >= minimum_balance(0),
           a \in shards => L[a] >= minimum_balance(0)
    PROVE  LET M == ensure_fee_shards_initialized(L, w, s, a)
           IN  /\ M \in Ledgers
               /\ M[s] = Funded(L[s]) /\ M[a] = Funded(L[a])
               /\ M[s] >= minimum_balance(0) /\ M[a] >= minimum_balance(0)
               /\ M[w] = L[w] - Missing(L, s, 0) - Missing(L, a, 0)
               /\ \A b \in Addr \ {w, s, a} : M[b] = L[b]
  <1> DEFINE K == ensure_shard_initialized(L, w, s)
             M == ensure_shard_initialized(K, w, a)
  <1>1. Deposit(L, K, w, s, Missing(L, s, 0)) /\ L[s] + Missing(L, s, 0) = Funded(L[s])
        /\ Funded(L[s]) >= minimum_balance(0)
    BY OpenShard
  <1>2. K \in Ledgers /\ K[s] = Funded(L[s]) /\ K[a] = L[a]
        /\ K[w] = L[w] - Missing(L, s, 0) /\ \A b \in Addr \ {w, s} : K[b] = L[b]
    BY <1>1 DEF Deposit
  <1> HIDE DEF K
  <1>3. Deposit(K, M, w, a, Missing(K, a, 0)) /\ K[a] + Missing(K, a, 0) = Funded(K[a])
        /\ Funded(K[a]) >= minimum_balance(0)
    BY <1>2, OpenShard
  <1>4. Missing(K, a, 0) = Missing(L, a, 0)
    BY <1>2 DEF Missing
  <1>5. ensure_fee_shards_initialized(L, w, s, a) = M
    BY DEF ensure_fee_shards_initialized, K
  <1> HIDE DEF M
  <1> QED
    BY <1>1, <1>2, <1>3, <1>4, <1>5 DEF Deposit

\* transfer_fee_split divides the fee exactly between two funded shards.
LEMMA PaySplit ==
    ASSUME NEW L \in Ledgers, NEW w \in Addr, NEW s \in Addr, NEW a \in Addr,
           w # s, w # a, s # a, NEW fee \in u64, NEW bps \in 0..BpsDenominator,
           L[s] >= minimum_balance(0), L[a] >= minimum_balance(0)
    PROVE  LET M == transfer_fee_split(L, fee, bps, w, a, s)
               split == compute_fee_split(fee, bps)
           IN  /\ M \in Ledgers
               /\ M[s] = L[s] + split.platform /\ M[a] = L[a] + split.author
               /\ M[w] = L[w] - fee
               /\ \A b \in Addr \ {w, s, a} : M[b] = L[b]
  <1> DEFINE split == compute_fee_split(fee, bps)
             K == collect_fee_to_shard(L, split.platform, w, s)
             M == collect_fee_to_shard(K, split.author, w, a)
  <1>1. split.platform \in Nat /\ split.author \in Nat /\ split.platform + split.author = fee
    BY SplitExact
  <1> HIDE DEF split
  <1>2. Deposit(L, K, w, s, split.platform)
    BY <1>1, PayFee
  <1>3. K \in Ledgers /\ K[s] = L[s] + split.platform /\ K[a] = L[a]
        /\ K[w] = L[w] - split.platform /\ \A b \in Addr \ {w, s} : K[b] = L[b]
    BY <1>2 DEF Deposit
  <1> HIDE DEF K
  <1>4. Deposit(K, M, w, a, split.author)
    BY <1>1, <1>3, PayFee
  <1>5. transfer_fee_split(L, fee, bps, w, a, s) = M
    BY SplitEffect DEF K, split
  <1> HIDE DEF M
  <1>6. M[w] = L[w] - fee
    BY <1>1, <1>3, <1>4 DEF Deposit, Ledgers
  <1> QED
    BY <1>3, <1>4, <1>5, <1>6 DEF Deposit, split

-----------------------------------------------------------------------------
(***************************************************************************)
(* An instruction with one payer: whose balance may rise.                  *)
(***************************************************************************)

\* M is L after payments by w alone that reached only T.
Touches(L, M, w, T) ==
    /\ M \in Ledgers
    /\ \A b \in Addr \ ({w} \cup T) : M[b] = L[b]
    /\ \A b \in T : M[b] >= L[b]

\* One payment touches one account, ...
LEMMA DepositTouches ==
    ASSUME NEW L \in Ledgers, NEW M, NEW w \in Addr, NEW a \in Addr, w # a, NEW x \in Nat,
           Deposit(L, M, w, a, x)
    PROVE  Touches(L, M, w, {a})
  <1>1. L[a] \in Int
    BY DEF Ledgers
  <1> QED
    BY <1>1 DEF Deposit, Touches

\* ... and payments add up.
LEMMA TouchesChain ==
    ASSUME NEW L \in Ledgers, NEW M, NEW N, NEW w, NEW S, NEW T, S \subseteq Addr \ {w},
           T \subseteq Addr \ {w}, Touches(L, M, w, S), Touches(M, N, w, T)
    PROVE  Touches(L, N, w, S \cup T)
  <1>1. \A b \in Addr : L[b] \in Int /\ M[b] \in Int /\ N[b] \in Int
    BY DEF Touches, Ledgers
  <1>2. \A b \in S \cup T : M[b] >= L[b] /\ N[b] >= M[b]
    BY <1>1 DEF Touches
  <1>3. \A b \in S \cup T : N[b] >= L[b]
    BY <1>1, <1>2
  <1> QED
    BY <1>3 DEF Touches

\* A balance that payments by others cannot lower.
LEMMA TouchesKeeps ==
    ASSUME NEW L \in Ledgers, NEW M, NEW w, NEW T, Touches(L, M, w, T),
           NEW b \in Addr, b # w, NEW v \in Int, L[b] >= v
    PROVE  M[b] >= v
  <1>1. L[b] \in Int /\ M[b] \in Int
    BY DEF Ledgers, Touches
  <1>2. M[b] >= L[b]
    BY <1>1 DEF Touches
  <1> QED
    BY <1>1, <1>2

\* Creating one account touches it alone, and leaves it rent-exempt.
LEMMA CreateTouches ==
    ASSUME NEW L \in Ledgers, NEW w \in Addr, NEW a \in Addr, w # a, NEW size \in Nat
    PROVE  LET M == create_pda_account(L, w, a, size)
           IN  Touches(L, M, w, {a}) /\ M[a] >= minimum_balance(size)
  <1> DEFINE M == create_pda_account(L, w, a, size)
  <1>1. /\ Missing(L, a, size) \in Nat
        /\ L[a] + Missing(L, a, size) >= minimum_balance(size)
        /\ Deposit(L, M, w, a, Missing(L, a, size))
    BY CreateEffect
  <1> HIDE DEF M
  <1>2. Touches(L, M, w, {a}) /\ M[a] >= minimum_balance(size)
    BY <1>1, DepositTouches DEF Deposit
  <1> QED
    BY <1>2 DEF M

\* Payments lower the payer alone.
LEMMA TouchesRises ==
    ASSUME TypeOK, NEW w, NEW T, Touches(lamports, lamports', w, T)
    PROVE  \A b \in Addr \ {w} : lamports'[b] >= lamports[b]
  <1>1. \A b \in Addr : lamports[b] \in Int
    BY BalancesAreLedger DEF Ledgers
  <1> QED
    BY <1>1 DEF Touches

-----------------------------------------------------------------------------
(***************************************************************************)
(* Balances that fall: closed accounts, plain transfers and sweeps.        *)
(***************************************************************************)

\* close_program_account empties one account into another.
LEMMA CloseEffect ==
    ASSUME NEW L \in Ledgers, NEW a \in Addr, NEW r \in Addr, a # r
    PROVE  LET M == close_program_account(L, a, r)
           IN  /\ M[a] = 0 /\ M[r] = L[r] + L[a]
               /\ \A b \in Addr \ {a, r} : M[b] = L[b]
  BY DEF Ledgers, close_program_account

\* close_program_account lowers the closed account alone.
LEMMA CloseRises ==
    ASSUME TypeOK, NEW c \in Pdas, NEW w \in Wallets,
           lamports' = close_program_account(lamports, c, w)
    PROVE  /\ \A b \in Addr \ {c} : lamports'[b] >= lamports[b]
           /\ \A b \in Addr \ {c, w} : lamports'[b] = lamports[b]
  <1>1. c \in Addr /\ w \in Addr /\ c # w /\ lamports \in Ledgers
    BY KeysApart, BalancesAreLedger
  <1>2. /\ lamports'[w] = lamports[w] + lamports[c]
        /\ \A b \in Addr \ {c, w} : lamports'[b] = lamports[b]
    BY <1>1, CloseEffect
  <1>3. lamports[c] \in Nat /\ \A b \in Addr : lamports[b] \in Int
    BY <1>1, LedgerAssumption DEF TypeOK, u64
  <1> QED
    BY <1>2, <1>3

\* A plain transfer lowers its sender alone, a wallet.
LEMMA GiftRises ==
    ASSUME TypeOK, NEW w \in Wallets, NEW gift \in GiftInputs, SystemTransfer(w, gift[1], gift[2])
    PROVE  \A b \in Addr \ {w} : lamports'[b] >= lamports[b]
  <1>1. gift[1] \in Addr /\ gift[2] \in u64
    BY InputAssumption
  <1>2. w \in Addr /\ gift[2] \in Nat /\ lamports \in Ledgers
    BY <1>1, KeysApart, BalancesAreLedger, LedgerAssumption DEF u64
  <1>3. lamports' = transfer(lamports, w, gift[1], gift[2])
    BY DEF SystemTransfer, Commit
  <1>4. \A b \in Addr : lamports[b] \in Int
    BY <1>2 DEF Ledgers
  <1>5. CASE gift[1] # w
    <2>1. Deposit(lamports, lamports', w, gift[1], gift[2])
      BY <1>1, <1>2, <1>3, <1>5, TransferEffect
    <2> QED
      BY <1>2, <1>4, <2>1 DEF Deposit
  <1>6. CASE gift[1] = w
    BY <1>1, <1>2, <1>3, <1>4, <1>6 DEF transfer, Ledgers
  <1> QED
    BY <1>5, <1>6

\* What holds of every ledger the loop of a sweep goes through: only shards
\* the program owns and the list names fall, and not below their rent; only the
\* recipient, which may be one of them, rises, and it does not fall.
SweepInv(L, list, recipient) ==
    /\ L \in Ledgers
    /\ L[recipient] >= lamports[recipient]
    /\ \A a \in Addr \ {recipient} : L[a] <= lamports[a]
    /\ \A a \in Addr : L[a] < lamports[a] => a \in shards /\ \E i \in 1..Len(list) : list[i] = a
    /\ \A a \in shards : lamports[a] >= minimum_balance(0) => L[a] >= minimum_balance(0)

\* One turn of the loop keeps it so (sweep_shard_excess).
LEMMA SweepTurn ==
    ASSUME TypeOK, NEW list, NEW recipient \in Addr, NEW L, SweepInv(L, list, recipient),
           NEW i \in 1..Len(list)
    PROVE  SweepInv(sweep_one(L, list[i], recipient), list, recipient)
  <1> DEFINE shard  == list[i]
             floor  == minimum_balance(0)
             excess == SaturatingSub(L[shard], floor)
             M      == sweep_one(L, shard, recipient)
  <1>0. lamports \in [Addr -> Int] /\ shards \subseteq Addr
    BY LedgerAssumption DEF TypeOK, u64, Addr, Pdas
  <1>1. CASE shard \notin shards \/ excess = 0
    BY <1>1 DEF sweep_one, sweep_shard_excess
  <1>2. CASE shard \in shards /\ excess # 0
    <2>1. shard \in Addr /\ floor \in Nat /\ L[shard] \in Int /\ L \in [Addr -> Int]
      BY <1>0, <1>2, RentTypes DEF SweepInv, Ledgers
    <2>2. excess \in Nat /\ excess > 0 /\ L[shard] = floor + excess
      BY <1>2, <2>1 DEF SaturatingSub
    <2>3. M = [[L EXCEPT ![shard] = floor] EXCEPT ![recipient] = @ + excess]
      BY <1>2 DEF sweep_one, sweep_shard_excess
    <2> HIDE DEF excess, floor, shard, M
    <2>4. /\ M \in [Addr -> Int]
          /\ \A a \in Addr \ {shard, recipient} : M[a] = L[a]
          /\ recipient # shard => M[shard] = floor /\ M[recipient] = L[recipient] + excess
          /\ recipient = shard => M[shard] = L[shard]
      BY <2>1, <2>2, <2>3
    <2>5. ASSUME NEW a \in Addr \ {recipient} PROVE M[a] <= lamports[a]
      <3>1. L[a] <= lamports[a] /\ L[a] \in Int /\ M[a] \in Int
        BY <2>1, <2>4 DEF SweepInv
      <3>2. M[a] <= L[a]
        BY <2>1, <2>2, <2>4, <3>1
      <3> QED
        BY <1>0, <3>1, <3>2
    <2>6. ASSUME NEW a \in Addr, M[a] < lamports[a]
          PROVE  a \in shards /\ \E k \in 1..Len(list) : list[k] = a
      <3>1. CASE a = shard
        BY <1>2, <3>1 DEF shard
      <3>2. CASE a # shard
        <4>1. M[a] >= L[a] /\ L[a] \in Int /\ M[a] \in Int
          BY <2>1, <2>2, <2>4, <3>2
        <4>2. L[a] < lamports[a]
          BY <1>0, <2>6, <4>1
        <4> QED
          BY <4>2 DEF SweepInv
      <3> QED
        BY <3>1, <3>2
    <2>7. ASSUME NEW a \in shards, lamports[a] >= minimum_balance(0)
          PROVE  M[a] >= minimum_balance(0)
      <3>1. a \in Addr /\ L[a] >= floor /\ L[a] \in Int
        BY <1>0, <2>1, <2>7 DEF SweepInv, floor
      <3>2. M[a] >= floor
        BY <2>1, <2>2, <2>4, <3>1
      <3> QED
        BY <3>2 DEF floor
    <2>8. M[recipient] >= lamports[recipient]
      <3>1. M[recipient] >= L[recipient]
        BY <2>1, <2>2, <2>4
      <3>2. L[recipient] >= lamports[recipient] /\ L[recipient] \in Int /\ M[recipient] \in Int
        BY <2>1, <2>4 DEF SweepInv
      <3> QED
        BY <1>0, <3>1, <3>2
    <2> QED
      BY <2>4, <2>5, <2>6, <2>7, <2>8 DEF SweepInv, Ledgers, M, shard
  <1> QED
    BY <1>1, <1>2

\* So it holds of what a sweep commits, however long the list and whatever it
\* repeats.
LEMMA SweptEffect ==
    ASSUME TypeOK, NEW list, Len(list) \in Nat, NEW recipient \in Addr
    PROVE  SweepInv(swept(list, recipient), list, recipient)
  <1>1. PICK f : /\ SweepTrace(f, Len(list), list, recipient)
                 /\ swept(list, recipient) = f[Len(list)]
    BY SweptUnfolds
  <1> DEFINE n == Len(list)
             S == {i \in Nat : i <= n => SweepInv(f[i], list, recipient)}
  <1>2. \A i \in 0..n :
           f[i] = IF i = 0 THEN lamports ELSE sweep_one(f[i - 1], list[i], recipient)
    BY <1>1 DEF SweepTrace
  <1>3. 0 \in S
    <2>1. f[0] = lamports
      BY <1>2
    <2>2. lamports \in [Addr -> Int]
      BY LedgerAssumption DEF TypeOK, u64
    <2>3. SweepInv(lamports, list, recipient)
      BY <2>2 DEF SweepInv, Ledgers
    <2> QED
      BY <2>1, <2>3
  <1>4. ASSUME NEW i \in Nat, i \in S PROVE i + 1 \in S
    <2> SUFFICES ASSUME i + 1 <= n PROVE SweepInv(f[i + 1], list, recipient)
      OBVIOUS
    <2>1. i + 1 \in 1..n /\ i + 1 \in 0..n /\ i + 1 # 0 /\ (i + 1) - 1 = i
      OBVIOUS
    <2>2. SweepInv(f[i], list, recipient)
      BY <1>4
    <2>3. f[i + 1] = sweep_one(f[i], list[i + 1], recipient)
      BY <1>2, <2>1
    <2> QED
      BY <2>1, <2>2, <2>3, SweepTurn
  <1>5. Nat \subseteq S
    BY <1>3, <1>4, LoopInduction
  <1>6. n \in S
    BY <1>5
  <1> QED
    BY <1>1, <1>6

\* process_sweep_treasury lowers only treasury shards the program owns, not
\* below their rent, and raises only the treasury of the settings.
LEMMA SweepTreasuryFlow ==
    ASSUME TypeOK, NEW idx \in SweepInputs, SweepTreasury(idx)
    PROVE  /\ settings # NULL /\ settings.treasury \in Addr
           /\ \A a \in Addr \ {settings.treasury} : lamports'[a] <= lamports[a]
           /\ \A a \in Addr :
                lamports'[a] < lamports[a] => a \in shards /\ \E k : a = derive_treasury_shard_pda(k)
           /\ \A a \in shards : lamports[a] >= minimum_balance(0)
                                    => lamports'[a] >= minimum_balance(0)
  <1> DEFINE list == [i \in DOMAIN idx |-> derive_treasury_shard_pda(idx[i])]
             to   == settings.treasury
  <1>1. settings # NULL /\ lamports' = swept(list, to)
    BY DEF SweepTreasury, Commit, may_sweep_treasury, treasury_swept
  <1>2. to \in Addr
    BY <1>1 DEF TypeOK, ProgramSettings
  <1>3. idx \in Seq(Nat)
    BY InputAssumption
  <1>4. Len(list) = Len(idx) /\ Len(idx) \in Nat /\ DOMAIN idx = 1..Len(idx)
    BY <1>3
  <1>5. \A i \in 1..Len(list) : list[i] = derive_treasury_shard_pda(idx[i])
    BY <1>4
  <1> HIDE DEF list, to
  <1>6. SweepInv(lamports', list, to)
    BY <1>1, <1>2, <1>4, SweptEffect
  <1> QED
    BY <1>1, <1>2, <1>5, <1>6 DEF SweepInv, to

\* process_sweep_author_fees: the same for the fee shards of one channel and
\* its author.
LEMMA SweepAuthorFlow ==
    ASSUME TypeOK, NEW idx \in SweepInputs, NEW w \in Wallets, NEW t \in Threads,
           SweepAuthorFees(w, t, idx)
    PROVE  /\ thread[t] # NULL /\ thread[t].author = w /\ w \in Addr
           /\ \A a \in Addr \ {w} : lamports'[a] <= lamports[a]
           /\ \A a \in Addr :
                lamports'[a] < lamports[a] => a \in shards /\ \E k : a = derive_author_fee_pda(t, k)
           /\ \A a \in shards : lamports[a] >= minimum_balance(0)
                                    => lamports'[a] >= minimum_balance(0)
  <1> DEFINE list == [i \in DOMAIN idx |-> derive_author_fee_pda(t, idx[i])]
  <1>1. thread[t] # NULL /\ thread[t].author = w /\ lamports' = swept(list, w)
    BY DEF SweepAuthorFees, Commit, may_sweep_author_fees, author_fees_swept,
           load_author_thread, load_thread
  <1>2. w \in Addr
    BY KeysApart
  <1>3. idx \in Seq(Nat)
    BY InputAssumption
  <1>4. Len(list) = Len(idx) /\ Len(idx) \in Nat /\ DOMAIN idx = 1..Len(idx)
    BY <1>3
  <1>5. \A i \in 1..Len(list) : list[i] = derive_author_fee_pda(t, idx[i])
    BY <1>4
  <1> HIDE DEF list
  <1>6. SweepInv(lamports', list, w)
    BY <1>1, <1>2, <1>4, SweptEffect
  <1> QED
    BY <1>1, <1>2, <1>5, <1>6 DEF SweepInv
=============================================================================
