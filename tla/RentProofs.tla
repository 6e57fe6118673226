----------------------------- MODULE RentProofs -----------------------------
(***************************************************************************)
(* What every instruction does to the balances, and that every account of  *)
(* the program stays rent-exempt.                                          *)
(***************************************************************************)
EXTENDS BaseProofs

-----------------------------------------------------------------------------
(***************************************************************************)
(* Rent exemption, account by account.                                     *)
(***************************************************************************)

SettingsRent == settings # NULL =>
    lamports[derive_settings_pda] >= minimum_balance(ProgramSettings_size)

ThreadRent(t) == thread[t] # NULL =>
    lamports[t] >= minimum_balance(ThreadNode_size(thread[t].title_len))

PageRent(p) == p \in alloc =>
    lamports[derive_alloc_pda(p[1], p[2])] >= minimum_balance(AllocNode_size)

ContentRent(id) == content[id] # NULL =>
    lamports[derive_content_pda(id[1], id[2], id[3])]
        >= minimum_balance(ContentNode_size(Len(content[id].body)))

LikesRent(p) == likes[p] # NULL =>
    lamports[derive_likes_pda(p[1], p[2])] >= minimum_balance(AllocLikes_size)

AccessRent(t) == access[t] # NULL =>
    lamports[derive_access_pda(t)] >= minimum_balance(ThreadAccess_size)

EntryRent(t, w) == entry[t][w] # NULL =>
    lamports[derive_access_entry_pda(t, w)] >= minimum_balance(AccessEntry_size)

RegistryRent(w) == registry[w] # NULL =>
    lamports[derive_follow_registry_pda(w)]
        >= minimum_balance(FollowRegistry_size(Len(registry[w])))

FollowerRent(s) == follower_shard[s] # NULL =>
    lamports[derive_follower_shard_pda(s[1], s[2])] >= minimum_balance(FollowerShard_size)

ShardsRent == \A s \in shards : lamports[s] >= minimum_balance(0)

\* The rent of the accounts of channels, and of the others.
BoardRent ==
    /\ \A t \in Threads : ThreadRent(t)
    /\ \A p \in Pages : PageRent(p) /\ LikesRent(p)
    /\ \A id \in ContentIds : ContentRent(id)
MemberRent ==
    /\ \A t \in Threads : AccessRent(t)
    /\ \A t \in Threads, w \in Wallets : EntryRent(t, w)
FollowRent ==
    /\ \A w \in Wallets : RegistryRent(w)
    /\ \A s \in FollowerShards : FollowerRent(s)
Rent == SettingsRent /\ BoardRent /\ MemberRent /\ FollowRent /\ ShardsRent

\* Account by account is what RentExempt says of the set of all accounts.
LEMMA RentByAccount ==
    ASSUME TypeOK
    PROVE  RentExempt <=> Rent
  <1>1. ASSUME RentExempt PROVE Rent
    <2>0. \A a, n : <<a, n>> \in Sized => lamports[a] >= minimum_balance(n)
      BY <1>1 DEF RentExempt
    <2>1. SettingsRent
      <3>1. settings # NULL => <<derive_settings_pda, ProgramSettings_size>> \in Sized
        BY Zenon DEF Sized
      <3> QED
        BY <2>0, <3>1 DEF SettingsRent
    <2>2. BoardRent
      <3>1. ASSUME NEW t \in Threads PROVE ThreadRent(t)
        <4>1. thread[t] # NULL => <<t, ThreadNode_size(thread[t].title_len)>> \in Sized
          BY Zenon DEF Sized
        <4> QED
          BY <2>0, <4>1 DEF ThreadRent
      <3>2. ASSUME NEW p \in Pages PROVE PageRent(p)
        <4>1. p \in alloc => <<derive_alloc_pda(p[1], p[2]), AllocNode_size>> \in Sized
          BY Zenon DEF Sized
        <4> QED
          BY <2>0, <4>1 DEF PageRent
      <3>3. ASSUME NEW p \in Pages PROVE LikesRent(p)
        <4>1. likes[p] # NULL => <<derive_likes_pda(p[1], p[2]), AllocLikes_size>> \in Sized
          BY Zenon DEF Sized
        <4> QED
          BY <2>0, <4>1 DEF LikesRent
      <3>4. ASSUME NEW id \in ContentIds PROVE ContentRent(id)
        <4>1. content[id] # NULL =>
                 <<derive_content_pda(id[1], id[2], id[3]),
                   ContentNode_size(Len(content[id].body))>> \in Sized
          BY Zenon DEF Sized
        <4> QED
          BY <2>0, <4>1 DEF ContentRent
      <3> QED
        BY <3>1, <3>2, <3>3, <3>4 DEF BoardRent
    <2>3. MemberRent
      <3>1. ASSUME NEW t \in Threads PROVE AccessRent(t)
        <4>1. access[t] # NULL => <<derive_access_pda(t), ThreadAccess_size>> \in Sized
          BY Zenon DEF Sized
        <4> QED
          BY <2>0, <4>1 DEF AccessRent
      <3>2. ASSUME NEW t \in Threads, NEW w \in Wallets PROVE EntryRent(t, w)
        <4> DEFINE y == <<t, w>>
        <4>1. y \in Threads \X Wallets /\ y[1] = t /\ y[2] = w
          OBVIOUS
        <4> HIDE DEF y
        <4>2. entry[y[1]][y[2]] # NULL =>
                 <<derive_access_entry_pda(y[1], y[2]), AccessEntry_size>> \in Sized
          BY <4>1, Zenon DEF Sized
        <4> QED
          BY <2>0, <4>1, <4>2 DEF EntryRent
      <3> QED
        BY <3>1, <3>2 DEF MemberRent
    <2>4. FollowRent
      <3>1. ASSUME NEW w \in Wallets PROVE RegistryRent(w)
        <4>1. registry[w] # NULL =>
                 <<derive_follow_registry_pda(w), FollowRegistry_size(Len(registry[w]))>> \in Sized
          BY Zenon DEF Sized
        <4> QED
          BY <2>0, <4>1 DEF RegistryRent
      <3>2. ASSUME NEW s \in FollowerShards PROVE FollowerRent(s)
        <4>1. follower_shard[s] # NULL =>
                 <<derive_follower_shard_pda(s[1], s[2]), FollowerShard_size>> \in Sized
          BY Zenon DEF Sized
        <4> QED
          BY <2>0, <4>1 DEF FollowerRent
      <3> QED
        BY <3>1, <3>2 DEF FollowRent
    <2>5. ShardsRent
      <3>1. \A s \in shards : <<s, 0>> \in Sized
        BY Zenon DEF Sized
      <3> QED
        BY <2>0, <3>1 DEF ShardsRent
    <2> QED
      BY <2>1, <2>2, <2>3, <2>4, <2>5 DEF Rent
  <1>2. ASSUME Rent PROVE RentExempt
    <2> SUFFICES ASSUME NEW x \in Sized PROVE lamports[x[1]] >= minimum_balance(x[2])
      BY DEF RentExempt
    <2>1. CASE settings # NULL /\ x = <<derive_settings_pda, ProgramSettings_size>>
      BY <1>2, <2>1 DEF Rent, SettingsRent
    <2>2. ASSUME NEW t \in Threads, thread[t] # NULL,
                 x = <<t, ThreadNode_size(thread[t].title_len)>>
          PROVE  lamports[x[1]] >= minimum_balance(x[2])
      BY <1>2, <2>2 DEF Rent, BoardRent, ThreadRent
    <2>3. ASSUME NEW p \in alloc, x = <<derive_alloc_pda(p[1], p[2]), AllocNode_size>>
          PROVE  lamports[x[1]] >= minimum_balance(x[2])
      <3>1. p \in Pages
        BY DEF TypeOK
      <3> QED
        BY <1>2, <2>3, <3>1 DEF Rent, BoardRent, PageRent
    <2>4. ASSUME NEW c \in ContentIds, content[c] # NULL,
                 x = <<derive_content_pda(c[1], c[2], c[3]),
                       ContentNode_size(Len(content[c].body))>>
          PROVE  lamports[x[1]] >= minimum_balance(x[2])
      BY <1>2, <2>4 DEF Rent, BoardRent, ContentRent
    <2>5. ASSUME NEW p \in Pages, likes[p] # NULL,
                 x = <<derive_likes_pda(p[1], p[2]), AllocLikes_size>>
          PROVE  lamports[x[1]] >= minimum_balance(x[2])
      BY <1>2, <2>5 DEF Rent, BoardRent, LikesRent
    <2>6. ASSUME NEW t \in Threads, access[t] # NULL,
                 x = <<derive_access_pda(t), ThreadAccess_size>>
          PROVE  lamports[x[1]] >= minimum_balance(x[2])
      BY <1>2, <2>6 DEF Rent, MemberRent, AccessRent
    <2>7. ASSUME NEW y \in Threads \X Wallets, entry[y[1]][y[2]] # NULL,
                 x = <<derive_access_entry_pda(y[1], y[2]), AccessEntry_size>>
          PROVE  lamports[x[1]] >= minimum_balance(x[2])
      <3>1. y[1] \in Threads /\ y[2] \in Wallets
        OBVIOUS
      <3>2. EntryRent(y[1], y[2])
        BY <1>2, <3>1 DEF Rent, MemberRent
      <3> QED
        BY <2>7, <3>2 DEF EntryRent
    <2>8. ASSUME NEW w \in Wallets, registry[w] # NULL,
                 x = <<derive_follow_registry_pda(w), FollowRegistry_size(Len(registry[w]))>>
          PROVE  lamports[x[1]] >= minimum_balance(x[2])
      BY <1>2, <2>8 DEF Rent, FollowRent, RegistryRent
    <2>9. ASSUME NEW s \in FollowerShards, follower_shard[s] # NULL,
                 x = <<derive_follower_shard_pda(s[1], s[2]), FollowerShard_size>>
          PROVE  lamports[x[1]] >= minimum_balance(x[2])
      BY <1>2, <2>9 DEF Rent, FollowRent, FollowerRent
    <2>10. ASSUME NEW s \in shards, x = <<s, 0>>
           PROVE  lamports[x[1]] >= minimum_balance(x[2])
      BY <1>2, <2>10 DEF Rent, ShardsRent
    <2> QED
      BY <2>1, <2>2, <2>3, <2>4, <2>5, <2>6, <2>7, <2>8, <2>9, <2>10, Zenon DEF Sized
  <1> QED
    BY <1>1, <1>2

\* An account stays rent-exempt when its balance does not fall and it does not
\* grow.
LEMMA AccountKept ==
    ASSUME TypeOK, Rent, NEW F, TypeOK',
           \A a \in Addr \ F : lamports'[a] >= lamports[a]
    PROVE  /\ derive_settings_pda \notin F /\ (settings' # NULL => settings # NULL) => SettingsRent'
           /\ \A t \in Threads :
                 t \notin F /\ (thread'[t] # NULL =>
                     thread[t] # NULL /\ thread'[t].title_len = thread[t].title_len)
                 => ThreadRent(t)'
           /\ \A p \in Pages :
                 derive_alloc_pda(p[1], p[2]) \notin F /\ (p \in alloc' => p \in alloc)
                 => PageRent(p)'
           /\ \A p \in Pages :
                 derive_likes_pda(p[1], p[2]) \notin F /\ (likes'[p] # NULL => likes[p] # NULL)
                 => LikesRent(p)'
           /\ \A id \in ContentIds :
                 derive_content_pda(id[1], id[2], id[3]) \notin F /\ content'[id] = content[id]
                 => ContentRent(id)'
           /\ \A t \in Threads :
                 derive_access_pda(t) \notin F /\ (access'[t] # NULL => access[t] # NULL)
                 => AccessRent(t)'
           /\ \A t \in Threads, w \in Wallets :
                 derive_access_entry_pda(t, w) \notin F
                   /\ (entry'[t][w] # NULL => entry[t][w] # NULL)
                 => EntryRent(t, w)'
           /\ \A w \in Wallets :
                 derive_follow_registry_pda(w) \notin F /\ registry'[w] = registry[w]
                 => RegistryRent(w)'
           /\ \A s \in FollowerShards :
                 derive_follower_shard_pda(s[1], s[2]) \notin F
                   /\ (follower_shard'[s] # NULL => follower_shard[s] # NULL)
                 => FollowerRent(s)'
           /\ \A s \in FeeShards :
                 s \notin F /\ s \in shards => lamports'[s] >= minimum_balance(0)
  <1>1. lamports \in [Addr -> Int] /\ lamports' \in [Addr -> Int]
    BY LedgerAssumption DEF TypeOK, u64
  <1>2. ASSUME NEW a \in Addr \ F, NEW size \in Nat, lamports[a] >= minimum_balance(size)
        PROVE  lamports'[a] >= minimum_balance(size)
    <2>1. minimum_balance(size) \in Int /\ lamports[a] \in Int /\ lamports'[a] \in Int
          /\ lamports'[a] >= lamports[a]
      BY <1>1, <1>2, RentTypes
    <2> QED
      BY <1>2, <2>1
  <1>3. ASSUME derive_settings_pda \notin F, settings' # NULL => settings # NULL PROVE SettingsRent'
    <2>1. derive_settings_pda \in Addr \ F /\ ProgramSettings_size \in Nat
      BY <1>3, PdaTypes, KeysApart, SizeTypes
    <2>2. SettingsRent
      BY DEF Rent
    <2> QED
      BY <1>2, <1>3, <2>1, <2>2 DEF SettingsRent
  <1>4. ASSUME NEW t \in Threads, t \notin F,
               thread'[t] # NULL =>
                   thread[t] # NULL /\ thread'[t].title_len = thread[t].title_len
        PROVE  ThreadRent(t)'
    <2> SUFFICES ASSUME thread'[t] # NULL
                 PROVE  lamports'[t] >= minimum_balance(ThreadNode_size(thread[t].title_len))
      BY <1>4 DEF ThreadRent
    <2>1. thread[t] # NULL /\ t \in Addr \ F
      BY <1>4, KeysApart
    <2>2. thread[t].title_len \in Nat
      BY <2>1, AccountsAssumption DEF TypeOK, ThreadNode
    <2>3. ThreadNode_size(thread[t].title_len) \in Nat
      BY <2>2, SizeTypes
    <2>4. lamports[t] >= minimum_balance(ThreadNode_size(thread[t].title_len))
      BY <2>1 DEF Rent, BoardRent, ThreadRent
    <2> QED
      BY <1>2, <2>1, <2>3, <2>4
  <1>5. ASSUME NEW p \in Pages, derive_alloc_pda(p[1], p[2]) \notin F, p \in alloc' => p \in alloc
        PROVE  PageRent(p)'
    <2>1. p[1] \in Threads /\ p[2] \in AllocSeqs
      BY DEF Pages
    <2>2. derive_alloc_pda(p[1], p[2]) \in Addr \ F /\ AllocNode_size \in Nat
      BY <1>5, <2>1, PdaTypes, KeysApart, SizeTypes
    <2>3. PageRent(p)
      BY DEF Rent, BoardRent
    <2> QED
      BY <1>2, <1>5, <2>2, <2>3 DEF PageRent
  <1>6. ASSUME NEW p \in Pages, derive_likes_pda(p[1], p[2]) \notin F,
               likes'[p] # NULL => likes[p] # NULL
        PROVE  LikesRent(p)'
    <2>1. p[1] \in Threads /\ p[2] \in AllocSeqs
      BY DEF Pages
    <2>2. derive_likes_pda(p[1], p[2]) \in Addr \ F /\ AllocLikes_size \in Nat
      BY <1>6, <2>1, PdaTypes, KeysApart, SizeTypes
    <2>3. LikesRent(p)
      BY DEF Rent, BoardRent
    <2> QED
      BY <1>2, <1>6, <2>2, <2>3 DEF LikesRent
  <1>7. ASSUME NEW id \in ContentIds, derive_content_pda(id[1], id[2], id[3]) \notin F,
               content'[id] = content[id]
        PROVE  ContentRent(id)'
    <2> DEFINE a == derive_content_pda(id[1], id[2], id[3])
               size == ContentNode_size(Len(content[id].body))
    <2> SUFFICES ASSUME content[id] # NULL PROVE lamports'[a] >= minimum_balance(size)
      BY <1>7 DEF ContentRent
    <2>1. a \in Addr \ F
      BY <1>7, PdaTypes, KeysApart
    <2>2. content[id].body \in Seq(Bytes)
      BY BodiesAreSequences DEF TypeOK, ContentNode
    <2>3. size \in Nat
      BY <2>2 DEF ContentNode_size
    <2>4. lamports[a] >= minimum_balance(size)
      BY DEF Rent, BoardRent, ContentRent
    <2> QED
      BY <1>2, <2>1, <2>3, <2>4
  <1>8. ASSUME NEW t \in Threads, derive_access_pda(t) \notin F, access'[t] # NULL => access[t] # NULL
        PROVE  AccessRent(t)'
    <2>1. derive_access_pda(t) \in Addr \ F /\ ThreadAccess_size \in Nat
      BY <1>8, PdaTypes, KeysApart, SizeTypes
    <2>2. AccessRent(t)
      BY DEF Rent, MemberRent
    <2> QED
      BY <1>2, <1>8, <2>1, <2>2 DEF AccessRent
  <1>9. ASSUME NEW t \in Threads, NEW w \in Wallets, derive_access_entry_pda(t, w) \notin F,
               entry'[t][w] # NULL => entry[t][w] # NULL
        PROVE  EntryRent(t, w)'
    <2>1. derive_access_entry_pda(t, w) \in Addr \ F /\ AccessEntry_size \in Nat
      BY <1>9, PdaTypes, KeysApart, SizeTypes
    <2>2. EntryRent(t, w)
      BY DEF Rent, MemberRent
    <2> QED
      BY <1>2, <1>9, <2>1, <2>2 DEF EntryRent
  <1>10. ASSUME NEW w \in Wallets, derive_follow_registry_pda(w) \notin F, registry'[w] = registry[w]
         PROVE  RegistryRent(w)'
    <2> DEFINE a == derive_follow_registry_pda(w)
               size == FollowRegistry_size(Len(registry[w]))
    <2> SUFFICES ASSUME registry[w] # NULL PROVE lamports'[a] >= minimum_balance(size)
      BY <1>10 DEF RegistryRent
    <2>1. a \in Addr \ F
      BY <1>10, PdaTypes, KeysApart
    <2>2. registry[w] \in Seq(Threads)
      BY DEF TypeOK
    <2>3. size \in Nat
      BY <2>2 DEF FollowRegistry_size
    <2>4. lamports[a] >= minimum_balance(size)
      BY DEF Rent, FollowRent, RegistryRent
    <2> QED
      BY <1>2, <2>1, <2>3, <2>4
  <1>11. ASSUME NEW s \in FollowerShards, derive_follower_shard_pda(s[1], s[2]) \notin F,
                follower_shard'[s] # NULL => follower_shard[s] # NULL
         PROVE  FollowerRent(s)'
    <2>1. derive_follower_shard_pda(s[1], s[2]) \in Addr \ F /\ FollowerShard_size \in Nat
      BY <1>11, PdaTypes, KeysApart, SizeTypes
    <2>2. FollowerRent(s)
      BY DEF Rent, FollowRent
    <2> QED
      BY <1>2, <1>11, <2>1, <2>2 DEF FollowerRent
  <1>12. ASSUME NEW s \in FeeShards, s \notin F, s \in shards PROVE lamports'[s] >= minimum_balance(0)
    <2>1. s \in Addr \ F /\ lamports[s] >= minimum_balance(0)
      BY <1>12, PdaTypes, KeysApart DEF Rent, ShardsRent
    <2> QED
      BY <1>2, <2>1
  <1> QED
    BY <1>3, <1>4, <1>5, <1>6, <1>7, <1>8, <1>9, <1>10, <1>11, <1>12

\* When only wallets and fee shards fall, the accounts that an instruction
\* leaves alone stay rent-exempt.
LEMMA RentKept ==
    ASSUME TypeOK, Rent, NEW F, TypeOK', F \subseteq Wallets \cup FeeShards,
           \A a \in Addr \ F : lamports'[a] >= lamports[a]
    PROVE  /\ UNCHANGED settings => SettingsRent'
           /\ UNCHANGED thread => \A t \in Threads : ThreadRent(t)'
           /\ UNCHANGED alloc => \A p \in Pages : PageRent(p)'
           /\ UNCHANGED likes => \A p \in Pages : LikesRent(p)'
           /\ UNCHANGED content => \A id \in ContentIds : ContentRent(id)'
           /\ UNCHANGED access => \A t \in Threads : AccessRent(t)'
           /\ UNCHANGED entry => \A t \in Threads, w \in Wallets : EntryRent(t, w)'
           /\ UNCHANGED registry => \A w \in Wallets : RegistryRent(w)'
           /\ UNCHANGED follower_shard => \A s \in FollowerShards : FollowerRent(s)'
           /\ UNCHANGED shards /\ F \subseteq Wallets => ShardsRent'
  <1>1. UNCHANGED settings => SettingsRent'
    BY AccountKept, OthersApart
  <1>2. ASSUME UNCHANGED thread, NEW t \in Threads PROVE ThreadRent(t)'
    BY <1>2, AccountKept, OthersApart
  <1>3. ASSUME UNCHANGED alloc, NEW p \in Pages PROVE PageRent(p)'
    BY <1>3, AccountKept, OthersApart
  <1>4. ASSUME UNCHANGED likes, NEW p \in Pages PROVE LikesRent(p)'
    BY <1>4, AccountKept, OthersApart
  <1>5. ASSUME UNCHANGED content, NEW id \in ContentIds PROVE ContentRent(id)'
    BY <1>5, AccountKept, OthersApart
  <1>6. ASSUME UNCHANGED access, NEW t \in Threads PROVE AccessRent(t)'
    BY <1>6, AccountKept, OthersApart
  <1>7. ASSUME UNCHANGED entry, NEW t \in Threads, NEW w \in Wallets PROVE EntryRent(t, w)'
    BY <1>7, AccountKept, OthersApart
  <1>8. ASSUME UNCHANGED registry, NEW w \in Wallets PROVE RegistryRent(w)'
    BY <1>8, AccountKept, OthersApart
  <1>9. ASSUME UNCHANGED follower_shard, NEW s \in FollowerShards PROVE FollowerRent(s)'
    BY <1>9, AccountKept, OthersApart
  <1>10. ASSUME UNCHANGED shards, F \subseteq Wallets, NEW s \in shards PROVE lamports'[s] >= minimum_balance(0)
    <2>1. s \in FeeShards /\ s \notin F
      BY <1>10, PdaTypes, KeysApart DEF TypeOK
    <2> QED
      BY <2>1, AccountKept
  <1> QED
    BY <1>1, <1>2, <1>3, <1>4, <1>5, <1>6, <1>7, <1>8, <1>9, <1>10 DEF ShardsRent

\* An instruction that creates shards and funds them keeps all shards funded.
LEMMA ShardsRentKept ==
    ASSUME TypeOK, Rent, TypeOK', NEW F, F \subseteq Wallets,
           \A a \in Addr \ F : lamports'[a] >= lamports[a],
           NEW T, shards' = shards_initialized(T),
           \A s \in T : lamports'[s] >= minimum_balance(0)
    PROVE  ShardsRent'
  <1> SUFFICES ASSUME NEW s \in shards' PROVE lamports'[s] >= minimum_balance(0)
    BY DEF ShardsRent
  <1>1. CASE s \in T
    BY <1>1
  <1>2. CASE s \in shards
    <2>1. s \in FeeShards /\ s \notin F
      BY <1>2, PdaTypes, KeysApart DEF TypeOK
    <2> QED
      BY <1>2, <2>1, AccountKept
  <1> QED
    BY <1>1, <1>2 DEF shards_initialized

-----------------------------------------------------------------------------
(***************************************************************************)
(* What each instruction does to the ledger.                               *)
(***************************************************************************)

\* A post, a like or a purchase: the payer w funds the treasury's shard s and
\* the author's shard a and adds x and y to them, tops up the account e, and
\* pays exactly that; nobody else's balance moves.
Paid(w, s, a, x, y, e, size) ==
    /\ lamports'[s] = Funded(lamports[s]) + x
    /\ lamports'[a] = Funded(lamports[a]) + y
    /\ lamports'[e] = lamports[e] + Missing(lamports, e, size)
    /\ lamports'[w] = lamports[w] - (x + y + Missing(lamports, s, 0) + Missing(lamports, a, 0)
                                         + Missing(lamports, e, size))
    /\ \A b \in Addr \ {w, s, a, e} : lamports'[b] = lamports[b]

\* process_request_access: the shards are funded, the entry fee is split, and
\* then the entry is created.
LEMMA RequestFlow ==
    ASSUME TypeOK, Rent, NEW w \in Wallets, NEW t \in Threads, NEW k \in TreasuryIdx,
           NEW j \in AuthorIdx, RequestAccess(w, t, k, j)
    PROVE  LET split == compute_fee_split(access[t].entry_fee, settings.entry_cut_bps)
           IN  Paid(w, derive_treasury_shard_pda(k), derive_author_fee_pda(t, j),
                    split.platform, split.author,
                    derive_access_entry_pda(t, w), AccessEntry_size)
  <1> DEFINE s     == derive_treasury_shard_pda(k)
             a     == derive_author_fee_pda(t, j)
             e     == derive_access_entry_pda(t, w)
             fee   == access[t].entry_fee
             bps   == settings.entry_cut_bps
             split == compute_fee_split(fee, bps)
             L1    == ensure_fee_shards_initialized(lamports, w, s, a)
             L2    == transfer_fee_split(L1, fee, bps, w, a, s)
             L3    == create_pda_account(L2, w, e, AccessEntry_size)
  <1>1. lamports' = L3
    BY DEF RequestAccess, Commit, set_access_entry_status
  <1>2. s \in shards => lamports[s] >= minimum_balance(0)
    BY DEF Rent, ShardsRent
  <1>3. a \in shards => lamports[a] >= minimum_balance(0)
    BY DEF Rent, ShardsRent
  <1>4. /\ s \in FeeShards /\ a \in FeeShards /\ s # a
        /\ s \in Addr /\ a \in Addr /\ w \in Addr /\ w # s /\ w # a
    BY FeeAddresses DEF RequestAccess
  <1>5. e \in Addr /\ e # w /\ e # s /\ e # a
    BY <1>4, PdaTypes, KeysApart, OthersApart
  <1>6. fee \in u64 /\ bps \in 0..BpsDenominator
    BY PriceTypes DEF RequestAccess
  <1>7. lamports \in Ledgers /\ AccessEntry_size \in Nat
    BY BalancesAreLedger, SizeTypes
  <1>8. split.platform \in Nat /\ split.author \in Nat /\ split.platform + split.author = fee
    BY <1>6, SplitExact
  <1> HIDE DEF s, a, e, fee, bps, split, L1, L2, L3
  <1>9. /\ L1 \in Ledgers
        /\ L1[s] = Funded(lamports[s]) /\ L1[a] = Funded(lamports[a])
        /\ L1[s] >= minimum_balance(0) /\ L1[a] >= minimum_balance(0)
        /\ L1[w] = lamports[w] - Missing(lamports, s, 0) - Missing(lamports, a, 0)
        /\ \A b \in Addr \ {w, s, a} : L1[b] = lamports[b]
    BY <1>2, <1>3, <1>4, <1>7, OpenFeeShards DEF L1
  <1>10. /\ L2 \in Ledgers
         /\ L2[s] = L1[s] + split.platform /\ L2[a] = L1[a] + split.author
         /\ L2[w] = L1[w] - fee
         /\ \A b \in Addr \ {w, s, a} : L2[b] = L1[b]
    BY <1>4, <1>6, <1>9, PaySplit DEF L2, split
  <1>11. L2[e] = lamports[e]
    BY <1>5, <1>9, <1>10
  <1>12. Missing(L2, e, AccessEntry_size) = Missing(lamports, e, AccessEntry_size)
    BY <1>11 DEF Missing
  <1>13. Deposit(L2, L3, w, e, Missing(lamports, e, AccessEntry_size))
    BY <1>4, <1>5, <1>7, <1>10, <1>12, CreateEffect DEF L3
  <1>14. /\ L3[s] = L2[s] /\ L3[a] = L2[a]
         /\ L3[e] = lamports[e] + Missing(lamports, e, AccessEntry_size)
         /\ L3[w] = L2[w] - Missing(lamports, e, AccessEntry_size)
         /\ \A b \in Addr \ {w, s, a, e} : L3[b] = lamports[b]
    BY <1>4, <1>5, <1>9, <1>10, <1>11, <1>13 DEF Deposit
  <1>15. /\ Missing(lamports, s, 0) \in Int /\ Missing(lamports, a, 0) \in Int
         /\ Missing(lamports, e, AccessEntry_size) \in Int /\ lamports[w] \in Int
    BY <1>4, <1>5, <1>7, MissingTypes DEF Ledgers
  <1>16. L3[w] = lamports[w] - (split.platform + split.author + Missing(lamports, s, 0)
                    + Missing(lamports, a, 0) + Missing(lamports, e, AccessEntry_size))
    BY <1>8, <1>9, <1>10, <1>14, <1>15
  <1>17. Paid(w, s, a, split.platform, split.author, e, AccessEntry_size)
    BY <1>1, <1>9, <1>10, <1>14, <1>16 DEF Paid
  <1> QED
    BY <1>17 DEF s, a, e, fee, bps, split

\* The message fee that wallet w owes in channel t.
MessageFeeDue(w, t) == IF fee_exempt(w, t) THEN 0 ELSE thread[t].message_fee

\* The platform's base fee on a message of n bytes.
MessageBaseFee(n) == base_fee(minimum_balance(ContentNode_size(n)), settings.base_fee_bps)

\* process_fill_slot: the shards are funded, the message's account is created,
\* the base fee goes to the treasury's shard and the message fee is split.
LEMMA FillFlow ==
    ASSUME TypeOK, Rent, NEW w \in Wallets, NEW t \in Threads, NEW body \in BodyInputs,
           NEW c \in CandidateInputs, NEW k \in TreasuryIdx, NEW j \in AuthorIdx,
           NEW m \in MaxFeeInputs, FillSlot(w, t, body, c, k, j, m)
    PROVE  LET split == compute_fee_split(MessageFeeDue(w, t), settings.author_fee_cut_bps)
               base  == MessageBaseFee(Len(body))
               size  == ContentNode_size(Len(body))
           IN  /\ base \in Nat /\ size \in Nat /\ MessageFeeDue(w, t) \in u64
               /\ base + MessageFeeDue(w, t) <= m
               /\ \E id \in ContentIds :
                    /\ content[id] = NULL
                    /\ content' = [content EXCEPT ![id] =
                                     [author |-> w, created_at |-> now, body |-> body]]
                    /\ Paid(w, derive_treasury_shard_pda(k), derive_author_fee_pda(t, j),
                            base + split.platform, split.author,
                            derive_content_pda(id[1], id[2], id[3]), size)
  <1> DEFINE s     == derive_treasury_shard_pda(k)
             a     == derive_author_fee_pda(t, j)
             fee   == MessageFeeDue(w, t)
             bps   == settings.author_fee_cut_bps
             split == compute_fee_split(fee, bps)
             size  == ContentNode_size(Len(body))
             base  == MessageBaseFee(Len(body))
             L1    == ensure_fee_shards_initialized(lamports, w, s, a)
             L2(e) == create_pda_account(L1, w, e, size)
             L3(e) == collect_fee_to_shard(L2(e), base, w, s)
             L4(e) == transfer_fee_split(L3(e), fee, bps, w, a, s)
  <1>1. PICK i \in DOMAIN c :
          /\ FirstFree(t, c, i)
          /\ content' = [content EXCEPT ![<<t, c[i][1], c[i][2]>>] =
                           [author |-> w, created_at |-> now, body |-> body]]
          /\ lamports' = L4(derive_content_pda(t, c[i][1], c[i][2]))
          /\ base + fee <= m
    BY DEF FillSlot, Commit, collect_base_fee, MessageFeeDue, MessageBaseFee
  <1> DEFINE id == <<t, c[i][1], c[i][2]>>
             e  == derive_content_pda(id[1], id[2], id[3])
  <1>2. c[i] \in u32 \X Nat /\ i \in 1..i
    BY InputAssumption
  <1>3. c[i][2] < CONTENT_SLOTS /\ content[id] = NULL
    BY <1>1, <1>2 DEF FirstFree
  <1>4. id \in ContentIds
    BY <1>2, <1>3, AccountsAssumption DEF ContentIds, AllocSeqs, Slots, u32
  <1>5. lamports' = L4(e)
    BY <1>1
  <1>6. /\ s \in FeeShards /\ a \in FeeShards /\ s # a
        /\ s \in Addr /\ a \in Addr /\ w \in Addr /\ w # s /\ w # a
    BY FeeAddresses DEF FillSlot
  <1>7. /\ s \in shards => lamports[s] >= minimum_balance(0)
        /\ a \in shards => lamports[a] >= minimum_balance(0)
    BY DEF Rent, ShardsRent
  <1> HIDE DEF id
  <1>8. e \in Addr /\ e # w /\ e # s /\ e # a
    BY <1>4, <1>6, PdaTypes, KeysApart, OthersApart
  <1>9. fee \in u64 /\ bps \in 0..BpsDenominator /\ settings.base_fee_bps \in 0..BpsDenominator
    BY PriceTypes DEF FillSlot, load_thread, MessageFeeDue
  <1>10. lamports \in Ledgers
    BY BalancesAreLedger
  <1>11. size \in Nat
    <2>1. Len(body) \in Nat
      BY InputAssumption
    <2> QED
      BY <2>1 DEF ContentNode_size
  <1>12. base \in Nat
    BY <1>9, <1>11, RentTypes, BaseFeeTypes DEF MessageBaseFee
  <1>13. split.platform \in Nat /\ split.author \in Nat /\ split.platform + split.author = fee
    BY <1>9, SplitExact
  <1> HIDE DEF s, a, e, fee, bps, split, size, base, L1
  <1>14. /\ L1 \in Ledgers
         /\ L1[s] = Funded(lamports[s]) /\ L1[a] = Funded(lamports[a])
         /\ L1[s] >= minimum_balance(0) /\ L1[a] >= minimum_balance(0)
         /\ L1[w] = lamports[w] - Missing(lamports, s, 0) - Missing(lamports, a, 0)
         /\ \A b \in Addr \ {w, s, a} : L1[b] = lamports[b]
    BY <1>6, <1>7, <1>10, OpenFeeShards DEF L1
  <1>15. L1[e] = lamports[e]
    BY <1>8, <1>14
  <1>16. Missing(L1, e, size) = Missing(lamports, e, size)
    BY <1>15 DEF Missing
  <1> DEFINE M2 == L2(e)
             M3 == L3(e)
             M4 == L4(e)
  <1>17. Deposit(L1, M2, w, e, Missing(lamports, e, size))
    BY <1>6, <1>8, <1>11, <1>14, <1>16, CreateEffect
  <1>18. /\ M3 = collect_fee_to_shard(M2, base, w, s)
         /\ M4 = transfer_fee_split(M3, fee, bps, w, a, s)
         /\ lamports' = M4
    BY <1>5
  <1> HIDE DEF M2, M3, M4
  <1>19. /\ M2 \in Ledgers /\ M2[s] = L1[s] /\ M2[a] = L1[a]
         /\ M2[e] = lamports[e] + Missing(lamports, e, size)
         /\ M2[w] = L1[w] - Missing(lamports, e, size)
         /\ \A b \in Addr \ {w, s, a, e} : M2[b] = lamports[b]
    BY <1>6, <1>8, <1>14, <1>15, <1>17 DEF Deposit
  <1>20. Deposit(M2, M3, w, s, base)
    BY <1>6, <1>12, <1>14, <1>18, <1>19, PayFee
  <1>21. /\ M3 \in Ledgers /\ M3[s] = L1[s] + base /\ M3[a] = L1[a] /\ M3[e] = M2[e]
         /\ M3[w] = M2[w] - base
         /\ \A b \in Addr \ {w, s, a, e} : M3[b] = lamports[b]
    BY <1>6, <1>8, <1>19, <1>20 DEF Deposit
  <1>22. M3[s] >= minimum_balance(0) /\ M3[a] >= minimum_balance(0)
    <2>1. L1[s] \in Int /\ minimum_balance(0) \in Int
      BY <1>6, <1>14, RentTypes DEF Ledgers
    <2> QED
      BY <1>12, <1>14, <1>21, <2>1
  <1>23. /\ M4[s] = M3[s] + split.platform /\ M4[a] = M3[a] + split.author
         /\ M4[w] = M3[w] - fee
         /\ \A b \in Addr \ {w, s, a} : M4[b] = M3[b]
    BY <1>6, <1>9, <1>18, <1>21, <1>22, PaySplit DEF split
  <1>24. /\ Missing(lamports, s, 0) \in Int /\ Missing(lamports, a, 0) \in Int
         /\ Missing(lamports, e, size) \in Int /\ lamports[w] \in Int /\ Funded(lamports[s]) \in Int
    BY <1>6, <1>8, <1>10, <1>11, <1>14, MissingTypes DEF Ledgers
  <1>25. M4[w] = lamports[w] - ((base + split.platform) + split.author + Missing(lamports, s, 0)
                    + Missing(lamports, a, 0) + Missing(lamports, e, size))
    BY <1>12, <1>13, <1>14, <1>19, <1>21, <1>23, <1>24
  <1>26. M4[s] = Funded(lamports[s]) + (base + split.platform)
    BY <1>12, <1>13, <1>14, <1>21, <1>23, <1>24
  <1>27. /\ M4[a] = Funded(lamports[a]) + split.author
         /\ M4[e] = lamports[e] + Missing(lamports, e, size)
         /\ \A b \in Addr \ {w, s, a, e} : M4[b] = lamports[b]
    BY <1>8, <1>14, <1>19, <1>21, <1>23
  <1>28. Paid(w, s, a, base + split.platform, split.author, e, size)
    BY <1>18, <1>25, <1>26, <1>27 DEF Paid
  <1> QED
    BY <1>1, <1>3, <1>4, <1>9, <1>11, <1>12, <1>28 DEF s, a, e, id, fee, bps, split, size, base

\* The two parts of a like fee, where it is due.
LikeFeeDue(w, t, seq, slot) ==
    IF thread[t].like_fee > 0 /\ w # content[<<t, seq, slot>>].author
    THEN compute_fee_split(thread[t].like_fee, settings.like_cut_bps)
    ELSE [platform |-> 0, author |-> 0]

\* process_like_content: the shards are funded, the page's counters created if
\* they do not exist, and the like fee is split.
LEMMA LikeFlow ==
    ASSUME TypeOK, Rent, NEW w \in Wallets, NEW t \in Threads, NEW seq \in AllocSeqs,
           NEW slot, NEW k \in TreasuryIdx, NEW j \in AuthorIdx, NEW m \in MaxFeeInputs,
           LikeContent(w, t, seq, slot, k, j, m)
    PROVE  LET split == LikeFeeDue(w, t, seq, slot)
           IN  /\ split.platform \in Nat /\ split.author \in Nat
               /\ split.platform + split.author <= m
               /\ Paid(w, derive_treasury_shard_pda(k), derive_author_fee_pda(t, j),
                       split.platform, split.author,
                       derive_likes_pda(t, seq), AllocLikes_size)
  <1> DEFINE s     == derive_treasury_shard_pda(k)
             a     == derive_author_fee_pda(t, j)
             e     == derive_likes_pda(t, seq)
             page  == <<t, seq>>
             paid  == thread[t].like_fee > 0 /\ w # content[<<t, seq, slot>>].author
             fee   == thread[t].like_fee
             bps   == settings.like_cut_bps
             split == LikeFeeDue(w, t, seq, slot)
             size  == AllocLikes_size
             L1    == ensure_fee_shards_initialized(lamports, w, s, a)
             L2    == IF likes[page] = NULL THEN create_pda_account(L1, w, e, size) ELSE L1
             L3    == transfer_fee_split(L2, fee, bps, w, a, s)
  <1>1. /\ lamports' = IF paid THEN L3 ELSE L2
        /\ paid => fee <= m
    BY DEF LikeContent, Commit
  <1>2. /\ s \in FeeShards /\ a \in FeeShards /\ s # a
        /\ s \in Addr /\ a \in Addr /\ w \in Addr /\ w # s /\ w # a
    BY FeeAddresses DEF LikeContent
  <1>3. /\ s \in shards => lamports[s] >= minimum_balance(0)
        /\ a \in shards => lamports[a] >= minimum_balance(0)
    BY DEF Rent, ShardsRent
  <1>4. page \in Pages /\ page[1] = t /\ page[2] = seq
    BY DEF Pages
  <1>5. e \in Addr /\ e # w /\ e # s /\ e # a
    BY <1>2, <1>4, PdaTypes, KeysApart, OthersApart
  <1>6. fee \in u64 /\ bps \in 0..BpsDenominator /\ m \in Nat
    BY PriceTypes, InputAssumption DEF LikeContent, load_thread, u64
  <1>7. lamports \in Ledgers /\ size \in Nat
    BY BalancesAreLedger, SizeTypes
  <1>8. likes[page] # NULL => lamports[e] >= minimum_balance(size)
    BY <1>4 DEF Rent, BoardRent, LikesRent
  <1>9. /\ split.platform \in Nat /\ split.author \in Nat
        /\ paid => /\ split = compute_fee_split(fee, bps)
                   /\ split.platform + split.author = fee
        /\ ~paid => split.platform = 0 /\ split.author = 0
    <2>1. CASE paid
      BY <1>6, <2>1, SplitExact DEF LikeFeeDue
    <2>2. CASE ~paid
      BY <2>2 DEF LikeFeeDue
    <2> QED
      BY <2>1, <2>2
  <1> HIDE DEF s, a, e, page, paid, fee, bps, split, size, L1, L2, L3
  <1>10. /\ L1 \in Ledgers
         /\ L1[s] = Funded(lamports[s]) /\ L1[a] = Funded(lamports[a])
         /\ L1[s] >= minimum_balance(0) /\ L1[a] >= minimum_balance(0)
         /\ L1[w] = lamports[w] - Missing(lamports, s, 0) - Missing(lamports, a, 0)
         /\ \A b \in Addr \ {w, s, a} : L1[b] = lamports[b]
    BY <1>2, <1>3, <1>7, OpenFeeShards DEF L1
  <1>11. L1[e] = lamports[e]
    BY <1>5, <1>10
  <1>12. Missing(L1, e, size) = Missing(lamports, e, size)
    BY <1>11 DEF Missing
  <1>13. /\ Missing(lamports, s, 0) \in Int /\ Missing(lamports, a, 0) \in Int
         /\ Missing(lamports, e, size) \in Int /\ lamports[w] \in Int /\ lamports[e] \in Int
         /\ Funded(lamports[s]) \in Int /\ Funded(lamports[a]) \in Int
    BY <1>2, <1>5, <1>7, <1>10, MissingTypes DEF Ledgers
  <1>14. /\ L2 \in Ledgers /\ L2[s] = L1[s] /\ L2[a] = L1[a]
         /\ L2[e] = lamports[e] + Missing(lamports, e, size)
         /\ L2[w] = L1[w] - Missing(lamports, e, size)
         /\ \A b \in Addr \ {w, s, a, e} : L2[b] = lamports[b]
    <2>1. CASE likes[page] = NULL
      <3>1. Deposit(L1, L2, w, e, Missing(lamports, e, size))
        BY <1>2, <1>5, <1>7, <1>10, <1>12, <2>1, CreateEffect DEF L2
      <3> QED
        BY <1>2, <1>5, <1>10, <1>11, <3>1 DEF Deposit
    <2>2. CASE likes[page] # NULL
      <3>1. Missing(lamports, e, size) = 0 /\ L2 = L1
        BY <1>5, <1>7, <1>8, <2>2, MissingTypes DEF L2
      <3>2. L1[w] \in Int
        BY <1>10, <1>13
      <3> QED
        BY <1>10, <1>11, <1>13, <3>1, <3>2
    <2> QED
      BY <2>1, <2>2
  <1>15. CASE paid
    <2>1. /\ L3[s] = L2[s] + split.platform /\ L3[a] = L2[a] + split.author
          /\ L3[w] = L2[w] - fee
          /\ \A b \in Addr \ {w, s, a} : L3[b] = L2[b]
      BY <1>2, <1>6, <1>9, <1>10, <1>14, <1>15, PaySplit DEF L3
    <2>2. L3[w] = lamports[w] - (split.platform + split.author + Missing(lamports, s, 0)
                    + Missing(lamports, a, 0) + Missing(lamports, e, size))
      BY <1>9, <1>10, <1>13, <1>14, <1>15, <2>1
    <2>3. L3[e] = L2[e] /\ \A b \in Addr \ {w, s, a, e} : L3[b] = lamports[b]
      BY <1>5, <1>14, <2>1
    <2>4. Paid(w, s, a, split.platform, split.author, e, size)
      BY <1>1, <1>10, <1>14, <1>15, <2>1, <2>2, <2>3 DEF Paid
    <2> QED
      BY <1>1, <1>9, <1>15, <2>4 DEF s, a, e, split, size, fee
  <1>16. CASE ~paid
    <2>1. split.platform = 0 /\ split.author = 0 /\ lamports' = L2
      BY <1>1, <1>9, <1>16
    <2>2. L2[w] = lamports[w] - (split.platform + split.author + Missing(lamports, s, 0)
                    + Missing(lamports, a, 0) + Missing(lamports, e, size))
      BY <1>10, <1>13, <1>14, <2>1
    <2>3. /\ L2[s] = Funded(lamports[s]) + split.platform
          /\ L2[a] = Funded(lamports[a]) + split.author
      BY <1>10, <1>13, <1>14, <2>1
    <2>4. Paid(w, s, a, split.platform, split.author, e, size)
      BY <1>14, <2>1, <2>2, <2>3 DEF Paid
    <2> QED
      BY <1>6, <1>9, <2>1, <2>4 DEF s, a, e, split, size
  <1> QED
    BY <1>15, <1>16

\* process_create_root_alloc pays for the shard, the thread account, the base
\* fee and the first page.
LEMMA OpenFlow ==
    ASSUME TypeOK, Rent, NEW w \in Wallets, NEW t \in Threads, NEW fee \in FeeInputs,
           NEW k \in TreasuryIdx, NEW title \in TitleInputs,
           CreateRootAlloc(w, t, fee, k, title)
    PROVE  LET s == derive_treasury_shard_pda(k)
               e == derive_alloc_pda(t, 0)
           IN  /\ s \in FeeShards
               /\ Touches(lamports, lamports', w, {s, t, e})
               /\ lamports'[s] >= minimum_balance(0)
               /\ lamports'[t] >= minimum_balance(ThreadNode_size(title))
               /\ lamports'[e] >= minimum_balance(AllocNode_size)
  <1> DEFINE s    == derive_treasury_shard_pda(k)
             e    == derive_alloc_pda(t, 0)
             tl   == minimum_balance(ThreadNode_size(title))
             base == base_fee(tl + minimum_balance(AllocNode_size), settings.base_fee_bps)
             L1   == ensure_shard_initialized(lamports, w, s)
             L2   == transfer(L1, w, t, tl)
             L3   == collect_fee_to_shard(L2, base, w, s)
             L4   == create_pda_account(L3, w, e, AllocNode_size)
  <1>1. lamports' = L4 /\ lamports[t] = 0 /\ validate_treasury_shard(k) /\ settings # NULL
    BY DEF CreateRootAlloc, Commit, collect_base_fee
  <1>2. s \in FeeShards /\ s \in Addr /\ w \in Addr /\ w # s
    BY <1>1, TreasuryAddress
  <1>3. s \in shards => lamports[s] >= minimum_balance(0)
    BY DEF Rent, ShardsRent
  <1>4. t \in Addr /\ t # w /\ t # s
    BY <1>2, KeysApart, PdaTypes
  <1>5. 0 \in AllocSeqs
    BY AccountsAssumption DEF AllocSeqs
  <1>6. e \in Addr /\ e # w /\ e # t /\ e # s
    <2>1. e \in Pdas /\ e[1] = "alloc"
      BY <1>5, PdaTypes, OtherTags
    <2> QED
      BY <1>2, <2>1, KeysApart, ShardTags
  <1>7. lamports \in Ledgers /\ AllocNode_size \in Nat /\ ThreadNode_size(title) \in Nat
    <2>1. title \in Nat
      BY InputAssumption
    <2> QED
      BY <2>1, BalancesAreLedger DEF AllocNode_size, ThreadNode_size
  <1>8. tl \in Nat /\ minimum_balance(AllocNode_size) \in Nat
    BY <1>7, RentTypes
  <1>9. base \in Nat
    <2>1. settings.base_fee_bps \in 0..BpsDenominator
      BY <1>1, PriceTypes
    <2>2. tl + minimum_balance(AllocNode_size) \in Nat
      BY <1>8
    <2> QED
      BY <2>1, <2>2, BaseFeeTypes
  <1> HIDE DEF s, e, tl, base, L1, L2, L3, L4
  <1>10. /\ Missing(lamports, s, 0) \in Nat
         /\ lamports[s] + Missing(lamports, s, 0) >= minimum_balance(0)
         /\ Deposit(lamports, L1, w, s, Missing(lamports, s, 0))
    BY <1>2, <1>3, <1>7, OpenShard DEF L1
  <1>11. L1 \in Ledgers /\ L1[s] >= minimum_balance(0) /\ L1[t] = 0
    BY <1>1, <1>2, <1>4, <1>10 DEF Deposit
  <1>12. Deposit(L1, L2, w, t, tl)
    BY <1>2, <1>4, <1>8, <1>11, TransferEffect DEF L2
  <1>13. L2 \in Ledgers /\ L2[s] >= minimum_balance(0) /\ L2[t] = tl
    BY <1>2, <1>4, <1>8, <1>11, <1>12 DEF Deposit
  <1>14. Deposit(L2, L3, w, s, base)
    BY <1>2, <1>9, <1>13, PayFee DEF L3
  <1>15. L3 \in Ledgers
    BY <1>14 DEF Deposit
  <1>16. /\ Missing(L3, e, AllocNode_size) \in Nat
         /\ L3[e] + Missing(L3, e, AllocNode_size) >= minimum_balance(AllocNode_size)
         /\ Deposit(L3, L4, w, e, Missing(L3, e, AllocNode_size))
    BY <1>2, <1>6, <1>7, <1>15, CreateEffect DEF L4
  <1>17. /\ Touches(lamports, L1, w, {s}) /\ Touches(L1, L2, w, {t})
         /\ Touches(L2, L3, w, {s}) /\ Touches(L3, L4, w, {e})
    BY <1>2, <1>4, <1>6, <1>7, <1>8, <1>9, <1>10, <1>11, <1>12, <1>13, <1>14, <1>15, <1>16,
       DepositTouches
  <1>18. Touches(L2, L4, w, {s} \cup {e})
    BY <1>2, <1>6, <1>13, <1>17, TouchesChain
  <1>19. Touches(L1, L4, w, {t} \cup ({s} \cup {e}))
    <2>1. {t} \subseteq Addr \ {w} /\ ({s} \cup {e}) \subseteq Addr \ {w}
      BY <1>2, <1>4, <1>6
    <2> QED
      BY <1>11, <1>17, <1>18, <2>1, TouchesChain
  <1>20. Touches(lamports, L4, w, {s} \cup ({t} \cup ({s} \cup {e})))
    <2>1. {s} \subseteq Addr \ {w} /\ ({t} \cup ({s} \cup {e})) \subseteq Addr \ {w}
      BY <1>2, <1>4, <1>6
    <2> QED
      BY <1>7, <1>17, <1>19, <2>1, TouchesChain
  <1>21. {s} \cup ({t} \cup ({s} \cup {e})) = {s, t, e}
    OBVIOUS
  <1>22. L4[s] >= minimum_balance(0)
    <2>1. minimum_balance(0) \in Int
      BY RentTypes
    <2> QED
      BY <1>2, <1>11, <1>19, <2>1, TouchesKeeps
  <1>23. L4[t] >= tl
    <2>1. L2[t] >= tl
      BY <1>8, <1>13
    <2> QED
      BY <1>4, <1>8, <1>13, <1>18, <2>1, TouchesKeeps
  <1>24. L4[e] >= minimum_balance(AllocNode_size)
    BY <1>16 DEF Deposit
  <1> QED
    BY <1>1, <1>2, <1>20, <1>21, <1>22, <1>23, <1>24 DEF s, e, tl

\* process_init_thread_access pays for the shard, the fee and the access account.
LEMMA InitAccessFlow ==
    ASSUME TypeOK, Rent, NEW w \in Wallets, NEW t \in Threads, NEW on \in BOOLEAN,
           NEW k \in TreasuryIdx, InitThreadAccess(w, t, on, k)
    PROVE  LET s == derive_treasury_shard_pda(k)
               e == derive_access_pda(t)
           IN  /\ s \in FeeShards
               /\ Touches(lamports, lamports', w, {s, e})
               /\ lamports'[s] >= minimum_balance(0)
               /\ lamports'[e] >= minimum_balance(ThreadAccess_size)
  <1> DEFINE s    == derive_treasury_shard_pda(k)
             e    == derive_access_pda(t)
             fee  == minimum_balance(ThreadAccess_size)
             L1   == ensure_shard_initialized(lamports, w, s)
             L2   == collect_fee_to_shard(L1, fee, w, s)
             L3   == create_pda_account(L2, w, e, ThreadAccess_size)
  <1>1. lamports' = L3 /\ validate_treasury_shard(k)
    BY DEF InitThreadAccess, Commit
  <1>2. s \in FeeShards /\ s \in Addr /\ w \in Addr /\ w # s
    BY <1>1, TreasuryAddress
  <1>3. s \in shards => lamports[s] >= minimum_balance(0)
    BY DEF Rent, ShardsRent
  <1>4. e \in Addr /\ e # w /\ e # s
    BY <1>2, PdaTypes, KeysApart, OthersApart
  <1>5. lamports \in Ledgers /\ ThreadAccess_size \in Nat
    BY BalancesAreLedger DEF ThreadAccess_size
  <1>6. fee \in Nat
    BY <1>5, RentTypes
  <1> HIDE DEF s, e, fee, L1, L2, L3
  <1>7. /\ Missing(lamports, s, 0) \in Nat
        /\ lamports[s] + Missing(lamports, s, 0) >= minimum_balance(0)
        /\ Deposit(lamports, L1, w, s, Missing(lamports, s, 0))
    BY <1>2, <1>3, <1>5, OpenShard DEF L1
  <1>8. L1 \in Ledgers /\ L1[s] >= minimum_balance(0)
    BY <1>7 DEF Deposit
  <1>9. Deposit(L1, L2, w, s, fee)
    BY <1>2, <1>6, <1>8, PayFee DEF L2
  <1>10. L2 \in Ledgers
    BY <1>9 DEF Deposit
  <1>11. /\ Missing(L2, e, ThreadAccess_size) \in Nat
         /\ L2[e] + Missing(L2, e, ThreadAccess_size) >= minimum_balance(ThreadAccess_size)
         /\ Deposit(L2, L3, w, e, Missing(L2, e, ThreadAccess_size))
    BY <1>2, <1>4, <1>5, <1>10, CreateEffect DEF L3
  <1>12. Touches(lamports, L1, w, {s}) /\ Touches(L1, L2, w, {s}) /\ Touches(L2, L3, w, {e})
    BY <1>2, <1>4, <1>5, <1>6, <1>7, <1>8, <1>9, <1>10, <1>11, DepositTouches
  <1>13. Touches(L1, L3, w, {s} \cup {e})
    BY <1>2, <1>4, <1>8, <1>12, TouchesChain
  <1>14. Touches(lamports, L3, w, {s} \cup ({s} \cup {e}))
    <2>1. {s} \subseteq Addr \ {w} /\ ({s} \cup {e}) \subseteq Addr \ {w}
      BY <1>2, <1>4
    <2> QED
      BY <1>5, <1>12, <1>13, <2>1, TouchesChain
  <1>15. {s} \cup ({s} \cup {e}) = {s, e}
    OBVIOUS
  <1>16. L3[s] >= minimum_balance(0)
    <2>1. minimum_balance(0) \in Int
      BY RentTypes
    <2> QED
      BY <1>2, <1>8, <1>13, <2>1, TouchesKeeps
  <1>17. L3[e] >= minimum_balance(ThreadAccess_size)
    BY <1>11 DEF Deposit
  <1> QED
    BY <1>1, <1>2, <1>14, <1>15, <1>16, <1>17 DEF s, e

\* process_append_content pays for the longer message, and for a shard and the
\* base fee when that raises the rent.
LEMMA AppendFlow ==
    ASSUME TypeOK, Rent, NEW w \in Wallets, NEW id \in ContentIds, NEW chunk \in BodyInputs,
           NEW k \in TreasuryIdx, NEW j \in AuthorIdx, AppendContent(w, id, chunk, k, j)
    PROVE  LET s    == derive_treasury_shard_pda(k)
               c    == derive_content_pda(id[1], id[2], id[3])
               size == ContentNode_size(Len(content[id].body \o chunk))
           IN  /\ s \in FeeShards
               /\ Touches(lamports, lamports', w, {s, c})
               /\ lamports'[c] >= minimum_balance(size)
               /\ \/ shards' = shards_initialized({s}) /\ lamports'[s] >= minimum_balance(0)
                  \/ shards' = shards /\ lamports'[s] = lamports[s]
  <1> DEFINE s     == derive_treasury_shard_pda(k)
             c     == derive_content_pda(id[1], id[2], id[3])
             size  == ContentNode_size(Len(content[id].body \o chunk))
             delta == SaturatingSub(minimum_balance(size),
                                    minimum_balance(ContentNode_size(Len(content[id].body))))
             base  == base_fee(delta, settings.base_fee_bps)
             L1    == ensure_rent_exempt(lamports, w, c, size)
             L2    == ensure_shard_initialized(L1, w, s)
             L3    == collect_fee_to_shard(L2, base, w, s)
  <1>1. /\ lamports' = IF delta > 0 THEN L3 ELSE L1
        /\ shards' = IF delta > 0 THEN shards_initialized({s}) ELSE shards
        /\ validate_treasury_shard(k) /\ settings # NULL /\ content[id] # NULL
    BY DEF AppendContent, Commit, collect_base_fee, validate_fee_shards, load_own_content
  <1>2. s \in FeeShards /\ s \in Addr /\ w \in Addr /\ w # s
    BY <1>1, TreasuryAddress
  <1>3. s \in shards => lamports[s] >= minimum_balance(0)
    BY DEF Rent, ShardsRent
  <1>4. c \in Addr /\ c # w /\ c # s
    BY <1>2, PdaTypes, KeysApart, OthersApart
  <1>5. lamports \in Ledgers
    BY BalancesAreLedger
  <1>6. size \in Nat /\ ContentNode_size(Len(content[id].body)) \in Nat
    <2>1. content[id].body \in Seq(Bytes)
      BY <1>1, BodiesAreSequences DEF TypeOK, ContentNode
    <2>2. chunk \in Seq(Bytes)
      BY InputAssumption
    <2>3. Len(content[id].body \o chunk) \in Nat /\ Len(content[id].body) \in Nat
      BY <2>1, <2>2
    <2> QED
      BY <2>3 DEF ContentNode_size
  <1>7. delta \in Nat
    <2>1. minimum_balance(size) \in Int
      BY <1>6, RentTypes
    <2>2. minimum_balance(ContentNode_size(Len(content[id].body))) \in Int
      BY <1>6, RentTypes
    <2> QED
      BY <2>1, <2>2, ArithmeticTypes
  <1>8. base \in Nat
    <2>1. settings.base_fee_bps \in 0..BpsDenominator
      BY <1>1, PriceTypes
    <2> QED
      BY <1>7, <2>1, BaseFeeTypes
  <1> HIDE DEF s, c, size, delta, base, L1, L2, L3
  <1>9. /\ Missing(lamports, c, size) \in Nat
        /\ lamports[c] + Missing(lamports, c, size) >= minimum_balance(size)
        /\ Deposit(lamports, L1, w, c, Missing(lamports, c, size))
    <2>1. L1 = create_pda_account(lamports, w, c, size)
      BY DEF L1, ensure_rent_exempt, create_pda_account
    <2> HIDE DEF L1
    <2> QED
      BY <1>2, <1>4, <1>5, <1>6, <2>1, CreateEffect
  <1>10. /\ L1 \in Ledgers /\ L1[s] = lamports[s] /\ L1[c] >= minimum_balance(size)
         /\ Touches(lamports, L1, w, {c})
    <2>1. Touches(lamports, L1, w, {c})
      BY <1>2, <1>4, <1>5, <1>9, DepositTouches
    <2> QED
      BY <1>2, <1>4, <1>9, <2>1 DEF Deposit
  <1>11. CASE delta > 0
    <2>1. /\ Missing(L1, s, 0) \in Nat
          /\ L1[s] + Missing(L1, s, 0) >= minimum_balance(0)
          /\ Deposit(L1, L2, w, s, Missing(L1, s, 0))
      BY <1>2, <1>3, <1>10, OpenShard DEF L2
    <2>2. L2 \in Ledgers /\ L2[s] >= minimum_balance(0)
      BY <2>1 DEF Deposit
    <2>3. Deposit(L2, L3, w, s, base)
      BY <1>2, <1>8, <2>2, PayFee DEF L3
    <2>4. Touches(L1, L2, w, {s}) /\ Touches(L2, L3, w, {s})
      BY <1>2, <1>8, <1>10, <2>1, <2>2, <2>3, DepositTouches
    <2>5. Touches(L1, L3, w, {s} \cup {s})
      BY <1>2, <1>10, <2>4, TouchesChain
    <2>6. Touches(lamports, L3, w, {c} \cup ({s} \cup {s}))
      <3>1. {c} \subseteq Addr \ {w} /\ ({s} \cup {s}) \subseteq Addr \ {w}
        BY <1>2, <1>4
      <3> QED
        BY <1>5, <1>10, <2>5, <3>1, TouchesChain
    <2>7. {c} \cup ({s} \cup {s}) = {s, c}
      OBVIOUS
    <2>8. L3[c] >= minimum_balance(size) /\ L3[s] >= minimum_balance(0)
      <3>1. minimum_balance(size) \in Int /\ minimum_balance(0) \in Int
        BY <1>6, RentTypes
      <3>2. L3[c] >= minimum_balance(size)
        BY <1>4, <1>10, <2>5, <3>1, TouchesKeeps
      <3>3. L3[s] >= minimum_balance(0)
        BY <1>2, <2>2, <2>4, <3>1, TouchesKeeps
      <3> QED
        BY <3>2, <3>3
    <2>9. lamports' = L3 /\ shards' = shards_initialized({s})
      BY <1>1, <1>11
    <2> QED
      BY <1>2, <2>6, <2>7, <2>8, <2>9 DEF s, c, size
  <1>12. CASE ~(delta > 0)
    <2>1. lamports' = L1 /\ shards' = shards
      BY <1>1, <1>12
    <2>2. Touches(lamports, L1, w, {s, c})
      <3>1. lamports[s] \in Int
        BY <1>2, <1>5 DEF Ledgers
      <3> QED
        BY <1>10, <3>1 DEF Touches
    <2> QED
      BY <1>2, <1>10, <2>1, <2>2 DEF s, c, size
  <1> QED
    BY <1>11, <1>12

\* process_subscribe pays for the registry and the follower shard.
LEMMA SubscribeFlow ==
    ASSUME TypeOK, Rent, NEW w \in Wallets, NEW t \in Threads, Subscribe(w, t)
    PROVE  LET s == <<t, follower_shard_index(w)>>
               r == derive_follow_registry_pda(w)
               f == derive_follower_shard_pda(s[1], s[2])
           IN  /\ Touches(lamports, lamports', w, {r, f})
               /\ lamports'[r] >= minimum_balance(FollowRegistry_size(Len(registry'[w])))
               /\ lamports'[f] >= minimum_balance(FollowerShard_size)
  <1> DEFINE s        == <<t, follower_shard_index(w)>>
             r        == derive_follow_registry_pda(w)
             f        == derive_follower_shard_pda(s[1], s[2])
             channels == IF registry[w] = NULL THEN <<>> ELSE registry[w]
             size     == FollowRegistry_size(Len(Append(channels, t)))
             L1 == IF registry[w] = NULL
                   THEN create_pda_account(lamports, w, r, FollowRegistry_size(0))
                   ELSE lamports
             L2 == ensure_rent_exempt(L1, w, r, size)
             L3 == IF follower_shard[s] = NULL
                   THEN create_pda_account(L2, w, f, FollowerShard_size) ELSE L2
  <1>1. lamports' = L3 /\ registry' = [registry EXCEPT ![w] = Append(channels, t)]
    BY DEF Subscribe, Commit
  <1>2. registry'[w] = Append(channels, t)
    BY <1>1 DEF TypeOK
  <1>3. size \in Nat /\ FollowRegistry_size(0) \in Nat /\ FollowerShard_size \in Nat
    <2>1. channels \in Seq(Threads)
      BY DEF TypeOK
    <2>2. Len(Append(channels, t)) \in Nat
      BY <2>1
    <2> QED
      BY <2>2 DEF FollowRegistry_size, FollowerShard_size
  <1>4. s \in FollowerShards
    BY FollowerShardTypes
  <1>5. r \in Addr /\ f \in Addr /\ w \in Addr /\ r # w /\ f # w
    BY <1>4, PdaTypes, KeysApart
  <1>6. f # r
    <2>1. f[1] # r[1]
      BY OtherTags
    <2> QED
      BY <2>1
  <1>7. lamports \in Ledgers
    BY BalancesAreLedger
  <1>8. follower_shard[s] # NULL => lamports[f] >= minimum_balance(FollowerShard_size)
    BY <1>4 DEF Rent, FollowRent, FollowerRent
  <1> HIDE DEF s, r, f, channels, size, L1, L2, L3
  <1>9. Touches(lamports, L1, w, {r})
    <2>1. CASE registry[w] = NULL
      BY <1>3, <1>5, <1>7, <2>1, CreateTouches DEF L1
    <2>2. CASE registry[w] # NULL
      <3>1. lamports[r] \in Int
        BY <1>5, <1>7 DEF Ledgers
      <3> QED
        BY <1>7, <2>2, <3>1 DEF L1, Touches
    <2> QED
      BY <2>1, <2>2
  <1>10. L1 \in Ledgers
    BY <1>9 DEF Touches
  <1>11. Touches(L1, L2, w, {r}) /\ L2[r] >= minimum_balance(size)
    <2>1. L2 = create_pda_account(L1, w, r, size)
      BY <1>3, <1>5, <1>10, CreateEffect DEF L2
    <2> QED
      BY <1>3, <1>5, <1>10, <2>1, CreateTouches
  <1>12. L2 \in Ledgers /\ Touches(lamports, L2, w, {r} \cup {r})
    <2>1. {r} \subseteq Addr \ {w}
      BY <1>5
    <2>2. L2 \in Ledgers
      BY <1>11 DEF Touches
    <2> QED
      BY <1>7, <1>9, <1>11, <2>1, <2>2, TouchesChain
  <1>13. L2[f] = lamports[f]
    BY <1>5, <1>6, <1>12 DEF Touches
  <1>14. Touches(L2, L3, w, {f}) /\ L3[f] >= minimum_balance(FollowerShard_size)
    <2>1. CASE follower_shard[s] = NULL
      BY <1>3, <1>5, <1>12, <2>1, CreateTouches DEF L3
    <2>2. CASE follower_shard[s] # NULL
      <3>1. L2[f] \in Int
        BY <1>5, <1>12 DEF Ledgers
      <3> QED
        BY <1>8, <1>12, <1>13, <2>2, <3>1 DEF L3, Touches
    <2> QED
      BY <2>1, <2>2
  <1>15. Touches(lamports, L3, w, ({r} \cup {r}) \cup {f})
    <2>1. ({r} \cup {r}) \subseteq Addr \ {w} /\ {f} \subseteq Addr \ {w}
      BY <1>5
    <2> QED
      BY <1>7, <1>12, <1>14, <2>1, TouchesChain
  <1>16. ({r} \cup {r}) \cup {f} = {r, f}
    OBVIOUS
  <1>17. L3[r] >= minimum_balance(size)
    <2>1. minimum_balance(size) \in Int
      BY <1>3, RentTypes
    <2> QED
      BY <1>5, <1>11, <1>12, <1>14, <2>1, TouchesKeeps
  <1> QED
    BY <1>1, <1>2, <1>14, <1>15, <1>16, <1>17 DEF s, r, f, size

\* process_unsubscribe moves lamports from the registry to its wallet, and
\* leaves the registry what its shorter list needs.
LEMMA UnsubscribeFlow ==
    ASSUME TypeOK, Rent, NEW w \in Wallets, NEW t \in Threads, Unsubscribe(w, t)
    PROVE  LET r == derive_follow_registry_pda(w)
           IN  /\ r \in Addr /\ r # w
               /\ \A b \in Addr \ {r, w} : lamports'[b] = lamports[b]
               /\ lamports'[w] >= lamports[w]
               /\ lamports'[r] >= minimum_balance(FollowRegistry_size(Len(registry'[w])))
  <1> DEFINE r        == derive_follow_registry_pda(w)
             size     == FollowRegistry_size(Len(registry[w]) - 1)
             refund   == SaturatingSub(lamports[r], minimum_balance(size))
  <1>1. r \in Addr /\ w \in Addr /\ r # w
    BY PdaTypes, KeysApart
  <1>2. registry[w] \in Seq(Threads) /\ registry[w] # NULL
    BY DEF TypeOK, Unsubscribe
  <1>3. PICK pos \in DOMAIN registry[w] :
           registry' = [registry EXCEPT ![w] = swap_remove(registry[w], pos)]
    BY DEF Unsubscribe
  <1>4. Len(registry'[w]) = Len(registry[w]) - 1 /\ Len(registry[w]) - 1 \in Nat
    <2>1. registry'[w] = swap_remove(registry[w], pos)
      BY <1>3 DEF TypeOK
    <2>2. Len(swap_remove(registry[w], pos)) = Len(registry[w]) - 1
      BY <1>2, <1>3, SwapRemoveTypes
    <2>3. Len(registry[w]) \in Nat /\ Len(registry[w]) >= 1
      BY <1>2, <1>3
    <2> QED
      BY <2>1, <2>2, <2>3
  <1>5. lamports \in Ledgers
    BY BalancesAreLedger
  <1>6. lamports' = transfer(lamports, r, w, refund)
    BY DEF Unsubscribe, Commit
  <1>7. size \in Nat /\ FollowRegistry_size(Len(registry[w])) \in Nat
        /\ size <= FollowRegistry_size(Len(registry[w]))
    BY <1>2, <1>4 DEF FollowRegistry_size
  <1>8. lamports[r] >= minimum_balance(FollowRegistry_size(Len(registry[w])))
    BY <1>2 DEF Rent, FollowRent, RegistryRent
  <1>9. /\ minimum_balance(size) \in Int
        /\ minimum_balance(FollowRegistry_size(Len(registry[w]))) \in Int
        /\ minimum_balance(size) <= minimum_balance(FollowRegistry_size(Len(registry[w])))
    BY <1>7, RentTypes, RentGrows
  <1>10. lamports[r] \in Int /\ lamports[w] \in Int
    BY <1>1, <1>5 DEF Ledgers
  <1>11. refund \in Nat /\ lamports[r] - refund >= minimum_balance(size)
    BY <1>8, <1>9, <1>10 DEF SaturatingSub
  <1> HIDE DEF r, refund, size
  <1>12. Deposit(lamports, lamports', r, w, refund)
    BY <1>1, <1>5, <1>6, <1>11, TransferEffect
  <1>13. lamports'[r] >= minimum_balance(size) /\ lamports'[w] >= lamports[w]
         /\ \A b \in Addr \ {r, w} : lamports'[b] = lamports[b]
    BY <1>10, <1>11, <1>12 DEF Deposit
  <1> QED
    BY <1>1, <1>4, <1>13 DEF r, size

\* What Paid means for rent.
LEMMA PaidKeeps ==
    ASSUME TypeOK, NEW w \in Wallets, NEW s \in FeeShards, NEW a \in FeeShards,
           NEW x \in Nat, NEW y \in Nat, NEW e \in Addr, e \notin Wallets, NEW size \in Nat,
           Paid(w, s, a, x, y, e, size)
    PROVE  /\ \A b \in Addr \ {w} : lamports'[b] >= lamports[b]
           /\ lamports'[s] >= minimum_balance(0) /\ lamports'[a] >= minimum_balance(0)
           /\ lamports'[e] >= minimum_balance(size)
  <1>1. lamports \in Ledgers /\ minimum_balance(0) \in Int
    BY BalancesAreLedger, RentTypes
  <1>2. s \in Addr /\ a \in Addr
    BY PdaTypes, KeysApart
  <1>3. \A b \in Addr : lamports[b] \in Int
    BY <1>1 DEF Ledgers
  <1>4. \A n \in Int : Funded(n) >= n /\ Funded(n) >= minimum_balance(0) /\ Funded(n) \in Int
    BY <1>1 DEF Funded, Greater
  <1>5. Missing(lamports, e, size) \in Nat
        /\ lamports[e] + Missing(lamports, e, size) >= minimum_balance(size)
    BY <1>1, MissingTypes
  <1>6. /\ lamports'[s] >= lamports[s] /\ lamports'[s] >= minimum_balance(0)
        /\ lamports'[a] >= lamports[a] /\ lamports'[a] >= minimum_balance(0)
    <2>1. \A n \in Int, z \in Nat : Funded(n) + z >= n /\ Funded(n) + z >= minimum_balance(0)
      BY <1>1, <1>4
    <2> QED
      BY <1>2, <1>3, <2>1 DEF Paid
  <1>7. lamports'[e] >= lamports[e] /\ lamports'[e] >= minimum_balance(size)
    BY <1>3, <1>5 DEF Paid
  <1>8. ASSUME NEW b \in Addr \ {w} PROVE lamports'[b] >= lamports[b]
    BY <1>3, <1>6, <1>7 DEF Paid
  <1> QED
    BY <1>6, <1>7, <1>8

-----------------------------------------------------------------------------
(***************************************************************************)
(* Every instruction keeps every account rent-exempt.                      *)
(***************************************************************************)

\* process_init_settings creates the settings.
LEMMA InitSettingsRent ==
    ASSUME TypeOK, Rent, NEW w \in Wallets, NEW tr \in TreasuryInputs, InitSettings(w, tr), TypeOK'
    PROVE  Rent'
  <1> DEFINE e == derive_settings_pda
  <1>1. lamports' = create_pda_account(lamports, w, e, ProgramSettings_size)
    BY DEF InitSettings, Commit
  <1>2. e \in Addr /\ w \in Addr /\ e # w /\ ProgramSettings_size \in Nat /\ lamports \in Ledgers
    BY PdaTypes, KeysApart, SizeTypes, BalancesAreLedger
  <1>3. Touches(lamports, lamports', w, {e}) /\ lamports'[e] >= minimum_balance(ProgramSettings_size)
    BY <1>1, <1>2, CreateTouches
  <1>4. \A b \in Addr \ {w} : lamports'[b] >= lamports[b]
    BY <1>3, TouchesRises
  <1>5. UNCHANGED <<thread, alloc, content, likes, access, entry, shards, registry, follower_shard>>
    BY DEF InitSettings, boardVars, accessVars, followVars
  <1>6. SettingsRent'
    BY <1>3 DEF SettingsRent
  <1>7. {w} \subseteq Wallets
    OBVIOUS
  <1> QED
    BY <1>4, <1>5, <1>6, <1>7, RentKept DEF Rent, BoardRent, MemberRent, FollowRent

\* process_create_root_alloc creates a thread account, a page and a shard.
LEMMA OpenRent ==
    ASSUME TypeOK, Rent, NEW w \in Wallets, NEW t \in Threads, NEW fee \in FeeInputs,
           NEW k \in TreasuryIdx, NEW title \in TitleInputs,
           CreateRootAlloc(w, t, fee, k, title), TypeOK'
    PROVE  Rent'
  <1> DEFINE s == derive_treasury_shard_pda(k)
             e == derive_alloc_pda(t, 0)
  <1>1. /\ Touches(lamports, lamports', w, {s, t, e})
        /\ lamports'[s] >= minimum_balance(0)
        /\ lamports'[t] >= minimum_balance(ThreadNode_size(title))
        /\ lamports'[e] >= minimum_balance(AllocNode_size)
    BY OpenFlow
  <1>2. \A b \in Addr \ {w} : lamports'[b] >= lamports[b]
    BY <1>1, TouchesRises
  <1>3. /\ UNCHANGED <<settings, content, likes, access, entry, registry, follower_shard>>
        /\ shards' = shards_initialized({s})
        /\ alloc' = alloc \cup {<<t, 0>>}
        /\ thread' = [thread EXCEPT ![t] =
                        [alloc_count |-> 1, last_alloc_seq |-> 0, author |-> w,
                         message_fee |-> fee, like_fee |-> 0, title_len |-> title]]
    BY DEF CreateRootAlloc, accessVars, followVars
  <1>4. ShardsRent'
    BY <1>1, <1>2, <1>3, ShardsRentKept
  <1>5. ASSUME NEW u \in Threads PROVE ThreadRent(u)'
    <2>1. CASE u = t
      <3>1. thread'[t].title_len = title
        BY <1>3 DEF TypeOK
      <3> QED
        BY <1>1, <2>1, <3>1 DEF ThreadRent
    <2>2. CASE u # t
      <3>1. thread'[u] = thread[u] /\ u \notin {w}
        BY <1>3, <2>2, KeysApart DEF TypeOK
      <3> QED
        BY <1>2, <3>1, AccountKept
    <2> QED
      BY <2>1, <2>2
  <1>6. ASSUME NEW p \in Pages PROVE PageRent(p)'
    <2>1. CASE p = <<t, 0>>
      BY <1>1, <2>1 DEF PageRent
    <2>2. CASE p # <<t, 0>>
      <3>1. (p \in alloc' => p \in alloc) /\ derive_alloc_pda(p[1], p[2]) \notin {w}
        BY <1>3, <2>2, OthersApart
      <3> QED
        BY <1>2, <3>1, AccountKept
    <2> QED
      BY <2>1, <2>2
  <1>7. {w} \subseteq Wallets
    OBVIOUS
  <1>8. /\ SettingsRent' /\ MemberRent' /\ FollowRent'
        /\ \A p \in Pages : LikesRent(p)'
        /\ \A id \in ContentIds : ContentRent(id)'
    BY <1>2, <1>3, <1>7, RentKept DEF MemberRent, FollowRent
  <1> QED
    BY <1>4, <1>5, <1>6, <1>8 DEF Rent, BoardRent

\* process_prepare_alloc creates a page.
LEMMA PageRentStep ==
    ASSUME TypeOK, Rent, NEW w \in Wallets, NEW t \in Threads, NEW seq \in AllocSeqs,
           PrepareAlloc(w, t, seq), TypeOK'
    PROVE  Rent'
  <1> DEFINE new == seq + 1
             e   == derive_alloc_pda(t, new)
  <1>1. /\ lamports' = create_pda_account(lamports, w, e, AllocNode_size)
        /\ alloc' = alloc \cup {<<t, new>>}
        /\ thread' = [thread EXCEPT ![t] = linked(@, new)]
        /\ thread[t] # NULL /\ new <= U32Max
        /\ UNCHANGED <<settings, content, likes, access, entry, shards, registry, follower_shard>>
    BY DEF PrepareAlloc, Commit, load_thread, accessVars, followVars
  <1>2. new \in AllocSeqs
    BY <1>1, AccountsAssumption DEF AllocSeqs
  <1>3. e \in Addr /\ w \in Addr /\ e # w /\ AllocNode_size \in Nat /\ lamports \in Ledgers
    BY <1>2, PdaTypes, KeysApart, SizeTypes, BalancesAreLedger
  <1> HIDE DEF new
  <1>4. Touches(lamports, lamports', w, {e}) /\ lamports'[e] >= minimum_balance(AllocNode_size)
    BY <1>1, <1>3, CreateTouches
  <1>5. \A b \in Addr \ {w} : lamports'[b] >= lamports[b]
    BY <1>4, TouchesRises
  <1>6. ASSUME NEW p \in Pages PROVE PageRent(p)'
    <2>1. CASE p = <<t, new>>
      BY <1>4, <2>1 DEF PageRent
    <2>2. CASE p # <<t, new>>
      <3>1. (p \in alloc' => p \in alloc) /\ derive_alloc_pda(p[1], p[2]) \notin {w}
        BY <1>1, <2>2, OthersApart
      <3> QED
        BY <1>5, <3>1, AccountKept
    <2> QED
      BY <2>1, <2>2
  <1>7. ASSUME NEW u \in Threads PROVE ThreadRent(u)'
    <2>1. thread[t] \in ThreadNode
      BY <1>1 DEF TypeOK
    <2>2. linked(thread[t], new).title_len = thread[t].title_len
      BY <2>1 DEF linked, ThreadNode
    <2>3. thread'[u] # NULL => thread[u] # NULL /\ thread'[u].title_len = thread[u].title_len
      BY <1>1, <2>2 DEF TypeOK
    <2>4. u \notin {w}
      BY KeysApart
    <2> QED
      BY <1>5, <2>3, <2>4, AccountKept
  <1>8. {w} \subseteq Wallets
    OBVIOUS
  <1>9. /\ SettingsRent' /\ MemberRent' /\ FollowRent' /\ ShardsRent'
        /\ \A p \in Pages : LikesRent(p)'
        /\ \A id \in ContentIds : ContentRent(id)'
    BY <1>1, <1>5, <1>8, RentKept DEF MemberRent, FollowRent
  <1> QED
    BY <1>6, <1>7, <1>9 DEF Rent, BoardRent

\* process_fill_slot creates a message and up to two shards.
LEMMA PostRent ==
    ASSUME TypeOK, Rent, NEW w \in Wallets, NEW t \in Threads, NEW body \in BodyInputs,
           NEW c \in CandidateInputs, NEW k \in TreasuryIdx, NEW j \in AuthorIdx,
           NEW m \in MaxFeeInputs, FillSlot(w, t, body, c, k, j, m), TypeOK'
    PROVE  Rent'
  <1> DEFINE s     == derive_treasury_shard_pda(k)
             a     == derive_author_fee_pda(t, j)
             split == compute_fee_split(MessageFeeDue(w, t), settings.author_fee_cut_bps)
             x     == MessageBaseFee(Len(body)) + split.platform
             y     == split.author
             size  == ContentNode_size(Len(body))
             node  == [author |-> w, created_at |-> now, body |-> body]
             at(i) == derive_content_pda(i[1], i[2], i[3])
  <1>1. PICK id \in ContentIds :
           /\ content' = [content EXCEPT ![id] = node]
           /\ Paid(w, s, a, x, y, at(id), size)
    BY FillFlow
  <1>2. x \in Nat /\ y \in Nat /\ size \in Nat
    <2>1. MessageBaseFee(Len(body)) \in Nat /\ size \in Nat /\ MessageFeeDue(w, t) \in u64
      BY FillFlow
    <2>2. settings.author_fee_cut_bps \in 0..BpsDenominator
      BY PriceTypes DEF FillSlot
    <2>3. split.platform \in Nat /\ split.author \in Nat
      BY <2>1, <2>2, SplitExact
    <2> HIDE DEF split
    <2> QED
      BY <2>1, <2>3
  <1>3. s \in FeeShards /\ a \in FeeShards
    BY FeeAddresses DEF FillSlot
  <1>4. at(id) \in Addr /\ at(id) \notin Wallets
    BY PdaTypes, KeysApart
  <1>5. /\ UNCHANGED <<settings, thread, alloc, likes, access, entry, registry, follower_shard>>
        /\ shards' = shards_initialized({s, a})
    BY DEF FillSlot, accessVars, followVars
  <1> HIDE DEF s, a, split, x, y, size, at
  <1>6. /\ \A b \in Addr \ {w} : lamports'[b] >= lamports[b]
        /\ lamports'[s] >= minimum_balance(0) /\ lamports'[a] >= minimum_balance(0)
        /\ lamports'[at(id)] >= minimum_balance(size)
    BY <1>1, <1>2, <1>3, <1>4, PaidKeeps
  <1>7. {w} \subseteq Wallets
    OBVIOUS
  <1>8. ShardsRent'
    <2>1. \A z \in {s, a} : lamports'[z] >= minimum_balance(0)
      BY <1>6
    <2> QED
      BY <1>5, <1>6, <1>7, <2>1, ShardsRentKept
  <1>9. ASSUME NEW i \in ContentIds PROVE ContentRent(i)'
    <2>1. CASE i = id
      <3>1. content'[id].body = body
        BY <1>1 DEF TypeOK
      <3> QED
        BY <1>6, <2>1, <3>1 DEF ContentRent, at, size
    <2>2. CASE i # id
      <3>1. content'[i] = content[i] /\ derive_content_pda(i[1], i[2], i[3]) \notin {w}
        BY <1>1, <2>2, OthersApart DEF TypeOK
      <3> QED
        BY <1>6, <3>1, AccountKept
    <2> QED
      BY <2>1, <2>2
  <1>10. /\ SettingsRent' /\ MemberRent' /\ FollowRent'
         /\ \A u \in Threads : ThreadRent(u)'
         /\ \A p \in Pages : LikesRent(p)' /\ PageRent(p)'
    BY <1>5, <1>6, <1>7, RentKept DEF MemberRent, FollowRent
  <1> QED
    BY <1>8, <1>9, <1>10 DEF Rent, BoardRent

\* process_append_content grows a message.
LEMMA AppendRent ==
    ASSUME TypeOK, Rent, NEW w \in Wallets, NEW id \in ContentIds, NEW chunk \in BodyInputs,
           NEW k \in TreasuryIdx, NEW j \in AuthorIdx, AppendContent(w, id, chunk, k, j), TypeOK'
    PROVE  Rent'
  <1> DEFINE s    == derive_treasury_shard_pda(k)
             c    == derive_content_pda(id[1], id[2], id[3])
             body == content[id].body \o chunk
  <1>1. /\ s \in FeeShards
        /\ Touches(lamports, lamports', w, {s, c})
        /\ lamports'[c] >= minimum_balance(ContentNode_size(Len(body)))
        /\ \/ shards' = shards_initialized({s}) /\ lamports'[s] >= minimum_balance(0)
           \/ shards' = shards
    BY AppendFlow
  <1>2. /\ UNCHANGED <<settings, thread, alloc, likes, access, entry, registry, follower_shard>>
        /\ content' = [content EXCEPT ![id].body = body]
        /\ content[id] # NULL
    BY DEF AppendContent, accessVars, followVars, load_own_content
  <1>3. \A b \in Addr \ {w} : lamports'[b] >= lamports[b]
    BY <1>1, TouchesRises
  <1>4. {w} \subseteq Wallets
    OBVIOUS
  <1>5. ShardsRent'
    <2>1. CASE shards' = shards
      BY <1>3, <1>4, <2>1, RentKept
    <2>2. CASE shards' = shards_initialized({s}) /\ lamports'[s] >= minimum_balance(0)
      BY <1>3, <1>4, <2>2, ShardsRentKept
    <2> QED
      BY <1>1, <2>1, <2>2
  <1> HIDE DEF body
  <1>6. ASSUME NEW i \in ContentIds PROVE ContentRent(i)'
    <2>1. CASE i = id
      <3>1. content[id] \in ContentNode
        BY <1>2 DEF TypeOK
      <3>2. content'[id].body = body
        BY <1>2, <3>1 DEF TypeOK, ContentNode
      <3> QED
        BY <1>1, <2>1, <3>2 DEF ContentRent
    <2>2. CASE i # id
      <3>1. content'[i] = content[i] /\ derive_content_pda(i[1], i[2], i[3]) \notin {w}
        BY <1>2, <2>2, OthersApart DEF TypeOK
      <3> QED
        BY <1>3, <3>1, AccountKept
    <2> QED
      BY <2>1, <2>2
  <1>7. /\ SettingsRent' /\ MemberRent' /\ FollowRent'
        /\ \A u \in Threads : ThreadRent(u)'
        /\ \A p \in Pages : LikesRent(p)' /\ PageRent(p)'
    BY <1>2, <1>3, <1>4, RentKept DEF MemberRent, FollowRent
  <1> QED
    BY <1>5, <1>6, <1>7 DEF Rent, BoardRent

\* When only the account at c falls, the accounts of another kind that an
\* instruction leaves alone stay rent-exempt.
LEMMA RentBesides ==
    ASSUME TypeOK, Rent, NEW c \in Pdas, TypeOK',
           \A a \in Addr \ {c} : lamports'[a] >= lamports[a]
    PROVE  /\ UNCHANGED settings /\ c[1] # "settings" => SettingsRent'
           /\ UNCHANGED thread => \A t \in Threads : ThreadRent(t)'
           /\ UNCHANGED alloc /\ c[1] # "alloc" => \A p \in Pages : PageRent(p)'
           /\ c[1] # "likes" =>
                \A p \in Pages : (likes'[p] # NULL => likes[p] # NULL) => LikesRent(p)'
           /\ UNCHANGED content /\ c[1] # "content" => \A id \in ContentIds : ContentRent(id)'
           /\ c[1] # "access" =>
                \A t \in Threads : (access'[t] # NULL => access[t] # NULL) => AccessRent(t)'
           /\ UNCHANGED entry /\ c[1] # "acl" =>
                \A t \in Threads, w \in Wallets : EntryRent(t, w)'
           /\ UNCHANGED registry /\ c[1] # "follows" => \A w \in Wallets : RegistryRent(w)'
           /\ c[1] # "follower_count" =>
                \A s \in FollowerShards :
                    (follower_shard'[s] # NULL => follower_shard[s] # NULL) => FollowerRent(s)'
           /\ UNCHANGED shards /\ c \notin FeeShards => ShardsRent'
  <1> DEFINE F == {c}
  <1>1. \A b : b[1] # c[1] => b \notin F
    OBVIOUS
  <1>2. \A t \in Threads : t \notin F
    BY KeysApart
  <1>3. \A a \in Addr \ F : lamports'[a] >= lamports[a]
    OBVIOUS
  <1>4. \A s \in FeeShards : c \notin FeeShards => s \notin F
    OBVIOUS
  <1> HIDE DEF F
  <1>5. UNCHANGED settings /\ c[1] # "settings" => SettingsRent'
    BY <1>1, <1>3, OtherTags, AccountKept
  <1>6. ASSUME UNCHANGED thread, NEW t \in Threads PROVE ThreadRent(t)'
    BY <1>2, <1>3, <1>6, AccountKept
  <1>7. ASSUME UNCHANGED alloc, c[1] # "alloc", NEW p \in Pages PROVE PageRent(p)'
    BY <1>1, <1>3, <1>7, OtherTags, AccountKept
  <1>8. ASSUME c[1] # "likes", NEW p \in Pages, likes'[p] # NULL => likes[p] # NULL
        PROVE  LikesRent(p)'
    BY <1>1, <1>3, <1>8, OtherTags, AccountKept
  <1>9. ASSUME UNCHANGED content, c[1] # "content", NEW id \in ContentIds PROVE ContentRent(id)'
    BY <1>1, <1>3, <1>9, OtherTags, AccountKept
  <1>10. ASSUME c[1] # "access", NEW t \in Threads, access'[t] # NULL => access[t] # NULL
         PROVE  AccessRent(t)'
    BY <1>1, <1>3, <1>10, OtherTags, AccountKept
  <1>11. ASSUME UNCHANGED entry, c[1] # "acl", NEW t \in Threads, NEW w \in Wallets
         PROVE  EntryRent(t, w)'
    BY <1>1, <1>3, <1>11, OtherTags, AccountKept
  <1>12. ASSUME UNCHANGED registry, c[1] # "follows", NEW w \in Wallets PROVE RegistryRent(w)'
    BY <1>1, <1>3, <1>12, OtherTags, AccountKept
  <1>13. ASSUME c[1] # "follower_count", NEW s \in FollowerShards,
                follower_shard'[s] # NULL => follower_shard[s] # NULL
         PROVE  FollowerRent(s)'
    BY <1>1, <1>3, <1>13, OtherTags, AccountKept
  <1>14. ASSUME UNCHANGED shards, c \notin FeeShards, NEW s \in shards
         PROVE  lamports'[s] >= minimum_balance(0)
    <2>1. s \in FeeShards
      BY DEF TypeOK
    <2> QED
      BY <1>3, <1>4, <1>14, <2>1, AccountKept
  <1> QED
    BY <1>5, <1>6, <1>7, <1>8, <1>9, <1>10, <1>11, <1>12, <1>13, <1>14 DEF ShardsRent

\* process_close_account empties the message's account and no other.
LEMMA DeleteRent ==
    ASSUME TypeOK, Rent, NEW w \in Wallets, NEW id \in ContentIds, NEW with_likes \in BOOLEAN,
           CloseAccount(w, id, with_likes), TypeOK'
    PROVE  Rent'
  <1> DEFINE c == derive_content_pda(id[1], id[2], id[3])
  <1>1. /\ lamports' = close_program_account(lamports, c, w)
        /\ UNCHANGED <<settings, thread, alloc, access, entry, shards, registry, follower_shard>>
        /\ content' = [content EXCEPT ![id] = NULL]
        /\ likes' = IF with_likes /\ likes[<<id[1], id[2]>>] # NULL
                    THEN [likes EXCEPT ![<<id[1], id[2]>>][id[3]] = 0] ELSE likes
    BY DEF CloseAccount, Commit, accessVars, followVars
  <1>2. c \in Pdas /\ c[1] = "content" /\ c \notin FeeShards
    BY PdaTypes, OtherTags, OthersApart
  <1>3. ASSUME NEW i \in ContentIds, i # id PROVE derive_content_pda(i[1], i[2], i[3]) \notin {c}
    <2>1. /\ i = <<i[1], i[2], i[3]>> /\ id = <<id[1], id[2], id[3]>>
      BY DEF ContentIds
    <2>2. i[1] # id[1] \/ i[2] # id[2] \/ i[3] # id[3]
      BY <1>3, <2>1
    <2> QED
      BY <2>2 DEF derive_content_pda
  <1> HIDE DEF c
  <1>4. \A b \in Addr \ {c} : lamports'[b] >= lamports[b]
    BY <1>1, <1>2, CloseRises
  <1>5. ASSUME NEW i \in ContentIds PROVE ContentRent(i)'
    <2>1. CASE i = id
      <3>1. content'[id] = NULL
        BY <1>1 DEF TypeOK
      <3> QED
        BY <2>1, <3>1 DEF ContentRent
    <2>2. CASE i # id
      <3>1. content'[i] = content[i] /\ derive_content_pda(i[1], i[2], i[3]) \notin {c}
        BY <1>1, <1>3, <2>2 DEF TypeOK
      <3> QED
        BY <1>4, <3>1, AccountKept
    <2> QED
      BY <2>1, <2>2
  <1>6. \A p \in Pages : likes'[p] # NULL => likes[p] # NULL
    BY <1>1 DEF TypeOK
  <1>7. /\ SettingsRent' /\ ShardsRent'
        /\ \A t \in Threads : ThreadRent(t)' /\ AccessRent(t)'
        /\ \A t \in Threads, v \in Wallets : EntryRent(t, v)'
        /\ \A p \in Pages : PageRent(p)' /\ LikesRent(p)'
        /\ \A v \in Wallets : RegistryRent(v)'
        /\ \A s \in FollowerShards : FollowerRent(s)'
    BY <1>1, <1>2, <1>4, <1>6, RentBesides
  <1> QED
    BY <1>5, <1>7 DEF Rent, BoardRent, MemberRent, FollowRent

\* process_like_content creates the counters of a page and up to two shards.
LEMMA LikeRent ==
    ASSUME TypeOK, Rent, NEW w \in Wallets, NEW t \in Threads, NEW seq \in AllocSeqs,
           NEW slot, NEW k \in TreasuryIdx, NEW j \in AuthorIdx, NEW m \in MaxFeeInputs,
           LikeContent(w, t, seq, slot, k, j, m), TypeOK'
    PROVE  Rent'
  <1> DEFINE s     == derive_treasury_shard_pda(k)
             a     == derive_author_fee_pda(t, j)
             e     == derive_likes_pda(t, seq)
             split == LikeFeeDue(w, t, seq, slot)
             page  == <<t, seq>>
  <1>1. /\ split.platform \in Nat /\ split.author \in Nat
        /\ Paid(w, s, a, split.platform, split.author, e, AllocLikes_size)
    BY LikeFlow
  <1>2. s \in FeeShards /\ a \in FeeShards
    BY FeeAddresses DEF LikeContent
  <1>3. page \in Pages /\ page[1] = t /\ page[2] = seq
    BY DEF Pages
  <1>4. e \in Addr /\ e \notin Wallets /\ AllocLikes_size \in Nat
    BY <1>3, PdaTypes, KeysApart, SizeTypes
  <1>5. /\ UNCHANGED <<settings, thread, alloc, content, access, entry, registry, follower_shard>>
        /\ shards' = shards_initialized({s, a})
        /\ \A p \in Pages \ {page} : likes'[p] = likes[p]
    BY DEF LikeContent, accessVars, followVars, TypeOK
  <1> HIDE DEF s, a, split, page
  <1>6. /\ \A b \in Addr \ {w} : lamports'[b] >= lamports[b]
        /\ lamports'[s] >= minimum_balance(0) /\ lamports'[a] >= minimum_balance(0)
        /\ lamports'[e] >= minimum_balance(AllocLikes_size)
    BY <1>1, <1>2, <1>4, PaidKeeps
  <1>7. {w} \subseteq Wallets
    OBVIOUS
  <1>8. ShardsRent'
    <2>1. \A z \in {s, a} : lamports'[z] >= minimum_balance(0)
      BY <1>6
    <2> QED
      BY <1>5, <1>6, <1>7, <2>1, ShardsRentKept
  <1>9. ASSUME NEW p \in Pages PROVE LikesRent(p)'
    <2>1. CASE p = page
      BY <1>3, <1>6, <2>1 DEF LikesRent
    <2>2. CASE p # page
      <3>1. likes'[p] = likes[p] /\ derive_likes_pda(p[1], p[2]) \notin {w}
        BY <1>5, <2>2, OthersApart
      <3> QED
        BY <1>6, <3>1, AccountKept
    <2> QED
      BY <2>1, <2>2
  <1>10. /\ SettingsRent' /\ MemberRent' /\ FollowRent'
         /\ \A u \in Threads : ThreadRent(u)'
         /\ \A p \in Pages : PageRent(p)'
         /\ \A id \in ContentIds : ContentRent(id)'
    BY <1>5, <1>6, <1>7, RentKept DEF MemberRent, FollowRent
  <1> QED
    BY <1>8, <1>9, <1>10 DEF Rent, BoardRent

\* process_init_thread_access creates the access account of a channel.
LEMMA InitAccessRent ==
    ASSUME TypeOK, Rent, NEW w \in Wallets, NEW t \in Threads, NEW on \in BOOLEAN,
           NEW k \in TreasuryIdx, InitThreadAccess(w, t, on, k), TypeOK'
    PROVE  Rent'
  <1> DEFINE s == derive_treasury_shard_pda(k)
             e == derive_access_pda(t)
  <1>1. /\ Touches(lamports, lamports', w, {s, e})
        /\ lamports'[s] >= minimum_balance(0)
        /\ lamports'[e] >= minimum_balance(ThreadAccess_size)
    BY InitAccessFlow
  <1>2. \A b \in Addr \ {w} : lamports'[b] >= lamports[b]
    BY <1>1, TouchesRises
  <1>3. /\ UNCHANGED <<settings, thread, alloc, content, likes, entry, registry, follower_shard>>
        /\ shards' = shards_initialized({s})
        /\ \A u \in Threads \ {t} : access'[u] = access[u]
    BY DEF InitThreadAccess, boardVars, followVars, TypeOK
  <1>4. {w} \subseteq Wallets
    OBVIOUS
  <1>5. ShardsRent'
    BY <1>1, <1>2, <1>3, <1>4, ShardsRentKept
  <1>6. ASSUME NEW u \in Threads PROVE AccessRent(u)'
    <2>1. CASE u = t
      BY <1>1, <2>1 DEF AccessRent
    <2>2. CASE u # t
      <3>1. access'[u] = access[u] /\ derive_access_pda(u) \notin {w}
        BY <1>3, <2>2, OthersApart
      <3> QED
        BY <1>2, <3>1, AccountKept
    <2> QED
      BY <2>1, <2>2
  <1>7. /\ SettingsRent' /\ BoardRent' /\ FollowRent'
        /\ \A u \in Threads, v \in Wallets : EntryRent(u, v)'
    BY <1>2, <1>3, <1>4, RentKept DEF BoardRent, FollowRent
  <1> QED
    BY <1>5, <1>6, <1>7 DEF Rent, MemberRent

\* The setters of a channel's access account and of its prices, and those of
\* the settings, move no lamports and change no account's size.
LEMMA SetterRent ==
    ASSUME TypeOK, Rent, TypeOK', UNCHANGED lamports,
           settings' # NULL => settings # NULL,
           \A t \in Threads :
              /\ access'[t] # NULL => access[t] # NULL
              /\ thread'[t] # NULL => thread[t] # NULL /\ thread'[t].title_len = thread[t].title_len,
           UNCHANGED <<alloc, content, likes, entry, shards, registry, follower_shard>>
    PROVE  Rent'
  <1> DEFINE F == {}
  <1>1. \A a \in Addr \ F : lamports'[a] >= lamports[a]
    <2>1. \A a \in Addr : lamports[a] \in Int
      BY BalancesAreLedger DEF Ledgers
    <2> QED
      BY <2>1
  <1>2. F \subseteq Wallets /\ \A a : a \notin F
    OBVIOUS
  <1> HIDE DEF F
  <1>3. SettingsRent' /\ \A t \in Threads : AccessRent(t)' /\ ThreadRent(t)'
    BY <1>1, <1>2, AccountKept
  <1>4. /\ FollowRent' /\ ShardsRent'
        /\ \A p \in Pages : PageRent(p)' /\ LikesRent(p)'
        /\ \A id \in ContentIds : ContentRent(id)'
        /\ \A t \in Threads, w \in Wallets : EntryRent(t, w)'
    BY <1>1, <1>2, RentKept DEF FollowRent
  <1> QED
    BY <1>3, <1>4 DEF Rent, BoardRent, MemberRent

\* apply_access_entry_status creates an entry or overwrites one.
LEMMA ApplyEntryRent ==
    ASSUME TypeOK, Rent, NEW w \in Wallets, NEW t \in Threads, NEW v \in Wallets,
           NEW status \in Statuses, apply_access_entry_status(w, t, v, status), TypeOK'
    PROVE  Rent'
  <1> DEFINE e == derive_access_entry_pda(t, v)
  <1>1. /\ lamports' = IF entry[t][v] = NULL
                       THEN create_pda_account(lamports, w, e, AccessEntry_size) ELSE lamports
        /\ access[t] # NULL
        /\ entry' = [entry EXCEPT ![t][v] = status]
        /\ UNCHANGED <<settings, thread, alloc, content, likes, shards, registry, follower_shard>>
        /\ \A u \in Threads : access'[u] # NULL => access[u] # NULL
    BY DEF apply_access_entry_status, set_access_entry_status, Commit, load_admin_access,
           boardVars, followVars, TypeOK
  <1>2. e \in Addr /\ w \in Addr /\ e # w /\ AccessEntry_size \in Nat /\ lamports \in Ledgers
    BY PdaTypes, KeysApart, SizeTypes, BalancesAreLedger
  <1>3. /\ \A b \in Addr \ {w} : lamports'[b] >= lamports[b]
        /\ lamports'[e] >= minimum_balance(AccessEntry_size)
    <2>1. CASE entry[t][v] = NULL
      <3>1. Touches(lamports, lamports', w, {e}) /\ lamports'[e] >= minimum_balance(AccessEntry_size)
        BY <1>1, <1>2, <2>1, CreateTouches
      <3> QED
        BY <3>1, TouchesRises
    <2>2. CASE entry[t][v] # NULL
      <3>1. EntryRent(t, v) /\ lamports' = lamports
        BY <1>1, <2>2 DEF Rent, MemberRent
      <3>2. \A b \in Addr : lamports[b] \in Int
        BY <1>2 DEF Ledgers
      <3> QED
        BY <2>2, <3>1, <3>2 DEF EntryRent
    <2> QED
      BY <2>1, <2>2
  <1>4. {w} \subseteq Wallets
    OBVIOUS
  <1>5. ASSUME NEW u \in Threads, NEW z \in Wallets PROVE EntryRent(u, z)'
    <2>1. CASE u = t /\ z = v
      BY <1>3, <2>1 DEF EntryRent
    <2>2. CASE ~(u = t /\ z = v)
      <3>1. entry'[u][z] = entry[u][z] /\ derive_access_entry_pda(u, z) \notin {w}
        BY <1>1, <2>2, OthersApart DEF TypeOK
      <3> QED
        BY <1>3, <3>1, AccountKept
    <2> QED
      BY <2>1, <2>2
  <1>6. ASSUME NEW u \in Threads PROVE AccessRent(u)'
    <2>1. derive_access_pda(u) \notin {w}
      BY OthersApart
    <2> QED
      BY <1>1, <1>3, <2>1, AccountKept
  <1>7. SettingsRent' /\ BoardRent' /\ FollowRent' /\ ShardsRent'
    BY <1>1, <1>3, <1>4, RentKept DEF BoardRent, FollowRent
  <1> QED
    BY <1>5, <1>6, <1>7 DEF Rent, MemberRent

\* remove_access_entry empties the entry's account and no other.
LEMMA RemoveEntryRent ==
    ASSUME TypeOK, Rent, NEW w \in Wallets, NEW t \in Threads, NEW v \in Wallets,
           NEW status \in Statuses, remove_access_entry(w, t, v, status), TypeOK'
    PROVE  Rent'
  <1> DEFINE e == derive_access_entry_pda(t, v)
  <1>1. /\ lamports' = close_program_account(lamports, e, w)
        /\ access[t] # NULL
        /\ entry' = [entry EXCEPT ![t][v] = NULL]
        /\ UNCHANGED <<settings, thread, alloc, content, likes, shards, registry, follower_shard>>
        /\ \A u \in Threads : access'[u] # NULL => access[u] # NULL
    BY DEF remove_access_entry, Commit, load_admin_access, boardVars, followVars, TypeOK
  <1>2. e \in Pdas /\ e[1] = "acl" /\ e \notin FeeShards
    BY PdaTypes, OtherTags, OthersApart
  <1>3. ASSUME NEW u \in Threads, NEW z \in Wallets, ~(u = t /\ z = v)
        PROVE  derive_access_entry_pda(u, z) \notin {e}
    BY <1>3 DEF derive_access_entry_pda
  <1> HIDE DEF e
  <1>4. \A b \in Addr \ {e} : lamports'[b] >= lamports[b]
    BY <1>1, <1>2, CloseRises
  <1>5. ASSUME NEW u \in Threads, NEW z \in Wallets PROVE EntryRent(u, z)'
    <2>1. CASE u = t /\ z = v
      <3>1. entry'[t][v] = NULL
        BY <1>1 DEF TypeOK
      <3> QED
        BY <2>1, <3>1 DEF EntryRent
    <2>2. CASE ~(u = t /\ z = v)
      <3>1. entry'[u][z] = entry[u][z]
        BY <1>1, <2>2 DEF TypeOK
      <3> QED
        BY <1>3, <1>4, <2>2, <3>1, AccountKept
    <2> QED
      BY <2>1, <2>2
  <1>6. /\ SettingsRent' /\ ShardsRent'
        /\ \A u \in Threads : ThreadRent(u)' /\ AccessRent(u)'
        /\ \A p \in Pages : PageRent(p)' /\ LikesRent(p)'
        /\ \A id \in ContentIds : ContentRent(id)'
        /\ \A z \in Wallets : RegistryRent(z)'
        /\ \A s \in FollowerShards : FollowerRent(s)'
    BY <1>1, <1>2, <1>4, RentBesides
  <1> QED
    BY <1>5, <1>6 DEF Rent, BoardRent, MemberRent, FollowRent

\* process_request_access creates an entry and up to two shards.
LEMMA RequestRent ==
    ASSUME TypeOK, Rent, NEW w \in Wallets, NEW t \in Threads, NEW k \in TreasuryIdx,
           NEW j \in AuthorIdx, RequestAccess(w, t, k, j), TypeOK'
    PROVE  Rent'
  <1> DEFINE s     == derive_treasury_shard_pda(k)
             a     == derive_author_fee_pda(t, j)
             e     == derive_access_entry_pda(t, w)
             split == compute_fee_split(access[t].entry_fee, settings.entry_cut_bps)
  <1>1. Paid(w, s, a, split.platform, split.author, e, AccessEntry_size)
    BY RequestFlow
  <1>2. split.platform \in Nat /\ split.author \in Nat
    <2>1. access[t].entry_fee \in u64 /\ settings.entry_cut_bps \in 0..BpsDenominator
      BY PriceTypes DEF RequestAccess
    <2> QED
      BY <2>1, SplitExact
  <1>3. s \in FeeShards /\ a \in FeeShards
    BY FeeAddresses DEF RequestAccess
  <1>4. e \in Addr /\ e \notin Wallets /\ AccessEntry_size \in Nat
    BY PdaTypes, KeysApart, SizeTypes
  <1>5. /\ UNCHANGED <<settings, thread, alloc, content, likes, registry, follower_shard>>
        /\ shards' = shards_initialized({s, a})
        /\ entry' = [entry EXCEPT ![t][w] = ACCESS_ALLOWED]
        /\ \A u \in Threads : access'[u] # NULL => access[u] # NULL
    BY DEF RequestAccess, boardVars, followVars, TypeOK
  <1> HIDE DEF s, a, split
  <1>6. /\ \A b \in Addr \ {w} : lamports'[b] >= lamports[b]
        /\ lamports'[s] >= minimum_balance(0) /\ lamports'[a] >= minimum_balance(0)
        /\ lamports'[e] >= minimum_balance(AccessEntry_size)
    BY <1>1, <1>2, <1>3, <1>4, PaidKeeps
  <1>7. {w} \subseteq Wallets
    OBVIOUS
  <1>8. ShardsRent'
    <2>1. \A z \in {s, a} : lamports'[z] >= minimum_balance(0)
      BY <1>6
    <2> QED
      BY <1>5, <1>6, <1>7, <2>1, ShardsRentKept
  <1>9. ASSUME NEW u \in Threads, NEW z \in Wallets PROVE EntryRent(u, z)'
    <2>1. CASE u = t /\ z = w
      BY <1>6, <2>1 DEF EntryRent
    <2>2. CASE ~(u = t /\ z = w)
      <3>1. entry'[u][z] = entry[u][z] /\ derive_access_entry_pda(u, z) \notin {w}
        BY <1>5, <2>2, OthersApart DEF TypeOK
      <3> QED
        BY <1>6, <3>1, AccountKept
    <2> QED
      BY <2>1, <2>2
  <1>10. ASSUME NEW u \in Threads PROVE AccessRent(u)'
    <2>1. derive_access_pda(u) \notin {w}
      BY OthersApart
    <2> QED
      BY <1>5, <1>6, <2>1, AccountKept
  <1>11. SettingsRent' /\ BoardRent' /\ FollowRent'
    BY <1>5, <1>6, <1>7, RentKept DEF BoardRent, FollowRent
  <1> QED
    BY <1>8, <1>9, <1>10, <1>11 DEF Rent, MemberRent

\* Both sweeps leave every account rent-exempt.
LEMMA SweepRent == TypeOK /\ Rent /\ SweepNext /\ TypeOK' => Rent'
  <1> SUFFICES ASSUME TypeOK, Rent, TypeOK', NEW idx \in SweepInputs,
                      \/ SweepTreasury(idx)
                      \/ \E w \in Wallets, t \in Threads : SweepAuthorFees(w, t, idx)
               PROVE  Rent'
    BY DEF SweepNext
  <1>1. /\ \A a \in Addr : lamports'[a] < lamports[a] => a \in shards
        /\ \A a \in shards : lamports[a] >= minimum_balance(0)
                                 => lamports'[a] >= minimum_balance(0)
    BY SweepTreasuryFlow, SweepAuthorFlow
  <1>2. \A a \in Addr \ FeeShards : lamports'[a] >= lamports[a]
    <2>1. \A a \in Addr : lamports[a] \in Int /\ lamports'[a] \in Int
      BY LedgerAssumption DEF TypeOK, u64
    <2>2. shards \subseteq FeeShards
      BY DEF TypeOK
    <2> QED
      BY <1>1, <2>1, <2>2
  <1>3. UNCHANGED <<settings, thread, alloc, content, likes, access, entry, shards,
                    registry, follower_shard>>
    BY DEF SweepTreasury, SweepAuthorFees, boardVars, accessVars, followVars
  <1>4. ShardsRent'
    BY <1>1, <1>3 DEF ShardsRent, Rent
  <1>5. FeeShards \subseteq Wallets \cup FeeShards
    OBVIOUS
  <1> QED
    BY <1>2, <1>3, <1>4, <1>5, RentKept DEF Rent, BoardRent, MemberRent, FollowRent

\* process_subscribe grows a registry and may create a follower shard.
LEMMA SubscribeRent ==
    ASSUME TypeOK, Rent, NEW w \in Wallets, NEW t \in Threads, Subscribe(w, t), TypeOK'
    PROVE  Rent'
  <1> DEFINE s == <<t, follower_shard_index(w)>>
             r == derive_follow_registry_pda(w)
             f == derive_follower_shard_pda(s[1], s[2])
  <1>1. /\ Touches(lamports, lamports', w, {r, f})
        /\ lamports'[r] >= minimum_balance(FollowRegistry_size(Len(registry'[w])))
        /\ lamports'[f] >= minimum_balance(FollowerShard_size)
    BY SubscribeFlow
  <1>2. \A b \in Addr \ {w} : lamports'[b] >= lamports[b]
    BY <1>1, TouchesRises
  <1>3. /\ UNCHANGED <<settings, thread, alloc, content, likes, access, entry, shards>>
        /\ \A v \in Wallets \ {w} : registry'[v] = registry[v]
        /\ \A z \in FollowerShards \ {s} : follower_shard'[z] = follower_shard[z]
    BY DEF Subscribe, followOnly, boardVars, accessVars, TypeOK
  <1>4. {w} \subseteq Wallets
    OBVIOUS
  <1> HIDE DEF s
  <1>5. ASSUME NEW v \in Wallets PROVE RegistryRent(v)'
    <2>1. CASE v = w
      BY <1>1, <2>1 DEF RegistryRent
    <2>2. CASE v # w
      <3>1. registry'[v] = registry[v] /\ derive_follow_registry_pda(v) \notin {w}
        BY <1>3, <2>2, OthersApart
      <3> QED
        BY <1>2, <3>1, AccountKept
    <2> QED
      BY <2>1, <2>2
  <1>6. ASSUME NEW z \in FollowerShards PROVE FollowerRent(z)'
    <2>1. CASE z = s
      BY <1>1, <2>1 DEF FollowerRent
    <2>2. CASE z # s
      <3>1. follower_shard'[z] = follower_shard[z] /\ derive_follower_shard_pda(z[1], z[2]) \notin {w}
        BY <1>3, <2>2, OthersApart
      <3> QED
        BY <1>2, <3>1, AccountKept
    <2> QED
      BY <2>1, <2>2
  <1>7. SettingsRent' /\ BoardRent' /\ MemberRent' /\ ShardsRent'
    BY <1>2, <1>3, <1>4, RentKept DEF BoardRent, MemberRent
  <1> QED
    BY <1>5, <1>6, <1>7 DEF Rent, FollowRent

\* process_unsubscribe takes no more from a registry than it no longer needs.
LEMMA UnsubscribeRent ==
    ASSUME TypeOK, Rent, NEW w \in Wallets, NEW t \in Threads, Unsubscribe(w, t), TypeOK'
    PROVE  Rent'
  <1> DEFINE s == <<t, follower_shard_index(w)>>
             r == derive_follow_registry_pda(w)
  <1>1. /\ r # w
        /\ \A b \in Addr \ {r, w} : lamports'[b] = lamports[b]
        /\ lamports'[w] >= lamports[w]
        /\ lamports'[r] >= minimum_balance(FollowRegistry_size(Len(registry'[w])))
    BY UnsubscribeFlow
  <1>2. \A b \in Addr \ {r} : lamports'[b] >= lamports[b]
    <2>1. \A b \in Addr : lamports[b] \in Int
      BY BalancesAreLedger DEF Ledgers
    <2> QED
      BY <1>1, <2>1
  <1>3. r \in Pdas /\ r[1] = "follows" /\ r \notin FeeShards
    BY PdaTypes, OtherTags, OthersApart
  <1>4. /\ UNCHANGED <<settings, thread, alloc, content, likes, access, entry, shards>>
        /\ \A v \in Wallets \ {w} : registry'[v] = registry[v]
        /\ \A z \in FollowerShards : follower_shard'[z] # NULL => follower_shard[z] # NULL
    BY DEF Unsubscribe, followOnly, boardVars, accessVars, TypeOK
  <1>5. ASSUME NEW v \in Wallets PROVE RegistryRent(v)'
    <2>1. CASE v = w
      BY <1>1, <2>1 DEF RegistryRent
    <2>2. CASE v # w
      <3>1. registry'[v] = registry[v]
        BY <1>4, <2>2
      <3>2. derive_follow_registry_pda(v) \notin {r}
        BY <2>2 DEF derive_follow_registry_pda
      <3> QED
        BY <1>2, <3>1, <3>2, AccountKept
    <2> QED
      BY <2>1, <2>2
  <1> HIDE DEF r
  <1>6. /\ SettingsRent' /\ ShardsRent'
        /\ \A u \in Threads : ThreadRent(u)' /\ AccessRent(u)'
        /\ \A p \in Pages : PageRent(p)' /\ LikesRent(p)'
        /\ \A id \in ContentIds : ContentRent(id)'
        /\ \A u \in Threads, v \in Wallets : EntryRent(u, v)'
        /\ \A z \in FollowerShards : FollowerRent(z)'
    BY <1>2, <1>3, <1>4, RentBesides
  <1> QED
    BY <1>5, <1>6 DEF Rent, BoardRent, MemberRent, FollowRent

\* A plain transfer reaches an account but takes from none.
LEMMA GiftRent ==
    ASSUME TypeOK, Rent, NEW w \in Wallets, NEW gift \in GiftInputs,
           SystemTransfer(w, gift[1], gift[2]), TypeOK'
    PROVE  Rent'
  <1>1. \A b \in Addr \ {w} : lamports'[b] >= lamports[b]
    BY GiftRises
  <1>2. UNCHANGED <<settings, thread, alloc, content, likes, access, entry, shards,
                    registry, follower_shard>>
    BY DEF SystemTransfer, boardVars, accessVars, followVars
  <1>3. {w} \subseteq Wallets
    OBVIOUS
  <1> QED
    BY <1>1, <1>2, <1>3, RentKept DEF Rent, BoardRent, MemberRent, FollowRent

\* The instructions of src/lib.rs that move no lamports.
LEMMA FreeRent ==
    ASSUME TypeOK, Rent, TypeOK',
           \/ AdminNext \/ CutNext \/ PricingNext \/ Tick \/ UNCHANGED vars
           \/ \E w \in Wallets, t \in Threads :
                 \/ \E on \in BOOLEAN : SetThreadAccess(w, t, on)
                 \/ \E fee \in FeeInputs : SetEntryFee(w, t, fee)
    PROVE  Rent'
  <1>1. CASE AdminNext \/ CutNext
    <2>1. settings # NULL /\ settingsOnly
      BY <1>1 DEF AdminNext, CutNext, SetAdmin, SetTreasury, SetBaseFee, SetAuthorFeeCut,
         SetEntryCut, SetLikeCut, update_platform_setting, load_admin_settings
    <2> QED
      BY <2>1, SetterRent DEF settingsOnly, boardVars, accessVars, followVars
  <1>2. CASE PricingNext
    <2>1. PICK w \in Wallets, t \in Threads, fee \in FeeInputs :
             SetMessageFee(w, t, fee) \/ SetLikeFee(w, t, fee)
      BY <1>2 DEF PricingNext
    <2>2. threadOnly /\ thread[t] # NULL
      BY <2>1 DEF SetMessageFee, SetLikeFee, load_author_thread, load_thread
    <2>3. thread[t] \in ThreadNode
      BY <2>2 DEF TypeOK
    <2>4. /\ [thread[t] EXCEPT !.message_fee = fee].title_len = thread[t].title_len
          /\ [thread[t] EXCEPT !.like_fee = fee].title_len = thread[t].title_len
      BY <2>3 DEF ThreadNode
    <2>5. /\ \A u \in Threads \ {t} : thread'[u] = thread[u]
          /\ thread'[t].title_len = thread[t].title_len
      BY <2>1, <2>4 DEF SetMessageFee, SetLikeFee, TypeOK
    <2> QED
      BY <2>2, <2>5, SetterRent DEF threadOnly, accessVars, followVars
  <1>3. CASE Tick
    BY <1>3, SetterRent DEF Tick, boardVars, accessVars, followVars
  <1>4. CASE UNCHANGED vars
    BY <1>4, SetterRent DEF vars, boardVars, accessVars, followVars
  <1>5. ASSUME NEW w \in Wallets, NEW t \in Threads,
               \/ \E on \in BOOLEAN : SetThreadAccess(w, t, on)
               \/ \E fee \in FeeInputs : SetEntryFee(w, t, fee)
        PROVE  Rent'
    <2>1. /\ access[t] # NULL
          /\ \A u \in Threads \ {t} : access'[u] = access[u]
          /\ UNCHANGED <<lamports, settings, boardVars, entry, shards, followVars, now>>
      BY <1>5 DEF SetThreadAccess, SetEntryFee, load_admin_access, TypeOK
    <2> QED
      BY <2>1, SetterRent DEF boardVars, followVars
  <1> QED
    BY <1>1, <1>2, <1>3, <1>4, <1>5

\* Rent exemption is inductive given the types.
LEMMA NextRent ==
    ASSUME TypeOK, Rent, [Next]_vars, TypeOK'
    PROVE  Rent'
  <1>1. CASE SetupNext
    BY <1>1, InitSettingsRent, OpenRent DEF SetupNext
  <1>2. CASE MembershipNext
    <2>1. PICK w \in Wallets, t \in Threads :
             \/ \E on \in BOOLEAN, k \in TreasuryIdx : InitThreadAccess(w, t, on, k)
             \/ \E on \in BOOLEAN : SetThreadAccess(w, t, on)
             \/ \E fee \in FeeInputs : SetEntryFee(w, t, fee)
             \/ \E v \in Wallets, status \in Statuses :
                   \/ apply_access_entry_status(w, t, v, status)
                   \/ remove_access_entry(w, t, v, status)
             \/ \E k \in TreasuryIdx, j \in AuthorIdx : RequestAccess(w, t, k, j)
      BY <1>2 DEF MembershipNext, Statuses, AddToWhitelist, AddToBlacklist, AddToFeeWhitelist,
         RemoveFromWhitelist, RemoveFromBlacklist, RemoveFromFeeWhitelist
    <2> QED
      BY <2>1, InitAccessRent, FreeRent, ApplyEntryRent, RemoveEntryRent, RequestRent
  <1>3. CASE PageNext
    BY <1>3, PageRentStep DEF PageNext
  <1>4. CASE PostNext
    BY <1>4, PostRent DEF PostNext
  <1>5. CASE DeleteNext
    BY <1>5, DeleteRent DEF DeleteNext
  <1>6. CASE AppendNext
    BY <1>6, AppendRent DEF AppendNext
  <1>7. CASE LikeNext
    BY <1>7, LikeRent DEF LikeNext
  <1>8. CASE FollowNext
    BY <1>8, SubscribeRent, UnsubscribeRent DEF FollowNext
  <1>9. CASE GiftNext
    BY <1>9, GiftRent DEF GiftNext
  <1> QED
    BY <1>1, <1>2, <1>3, <1>4, <1>5, <1>6, <1>7, <1>8, <1>9, SweepRent, FreeRent DEF Next

\* The inductive invariant behind the theorems about lamports.
LEMMA RentInvariant == Spec => []Rent
  <1>1. Init => Rent
    BY DEF Init, Rent, SettingsRent, BoardRent, ThreadRent, PageRent, LikesRent, ContentRent,
       MemberRent, AccessRent, EntryRent, FollowRent, RegistryRent, FollowerRent, ShardsRent
  <1>2. TypeOK /\ Rent /\ [Next]_vars /\ TypeOK' => Rent'
    BY NextRent
  <1> QED
    BY <1>1, <1>2, TypeCorrect, PTL DEF Spec

\* Every account of the program is rent-exempt for the data it holds now
\* (RentExempt of the channel, vault, entry and follow runs), whatever was
\* created, grown, shrunk, closed, swept or sent: no account of the program is
\* ever left to be collected by the runtime.
THEOREM RentCorrect == Spec => []RentExempt
  <1>1. TypeOK /\ Rent => RentExempt
    BY RentByAccount
  <1> QED
    BY <1>1, RentInvariant, TypeCorrect, PTL
=============================================================================
