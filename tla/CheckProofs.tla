---------------------------- MODULE CheckProofs -----------------------------
(***************************************************************************)
(* The checks on the accounts a caller passes, for every state of the      *)
(* program and every set of foreign accounts: nothing foreign is taken for *)
(* the program's own, and each check accepts exactly the account the       *)
(* component modules speak of.                                             *)
(***************************************************************************)
EXTENDS AccountChecks, BaseProofs

(***************************************************************************)
(* Accounts of other programs.                                             *)
(***************************************************************************)

\* A foreign account has another owner and another key than the program's.
LEMMA ForeignFields ==
    ASSUME NEW acc \in ForeignInfos
    PROVE  /\ acc.key \notin Addr /\ acc.key # programdata_pda
           /\ acc.owner # PROGRAM
  <1>1. PICK f \in Foreign, o \in {SYSTEM, LOADER, ANOTHER} :
           \E d : acc = Info(f, o, d)
    BY DEF ForeignInfos
  <1>2. acc.key = f /\ acc.owner = o
    BY <1>1 DEF Info
  <1>3. PROGRAM \notin {SYSTEM, LOADER, ANOTHER}
    BY DEF PROGRAM, SYSTEM, LOADER, ANOTHER
  <1> QED
    BY <1>2, <1>3, ForeignAssumption

\* No check takes a foreign account for one of the program's, whatever bytes
\* it holds (ForeignRefused of the checks run): assert_owned_by guards every
\* account without a derived address, assert_pda the rest.
THEOREM ForeignCorrect == Spec => []ForeignRefused
  <1>1. ForeignRefused
    <2> SUFFICES ASSUME NEW acc \in ForeignInfos
                 PROVE  /\ ~load_thread_account(acc)
                        /\ ~load_settings_account(acc)
                        /\ ~load_alloc_account(acc)
                        /\ ~load_content_account(acc)
                        /\ \A w \in Wallets : /\ ~assert_upgrade_authority(acc, w)
                                              /\ ~load_admin_access_account(acc, w)
                                              /\ ~registry_account(acc, w)
                        /\ \A t \in Threads : /\ ~access_account(acc, t)
                                              /\ \A w \in Wallets : ~entry_account(acc, t, w)
                        /\ \A p \in Pages : ~likes_account(acc, p[1], p[2])
                        /\ \A s \in FollowerShards : ~follower_shard_account(acc, s[1], s[2])
                        /\ \A k \in TreasuryIdx : ~validate_treasury_shard_account(acc, k)
                        /\ \A t \in Threads, k \in AuthorIdx :
                              ~validate_author_fee_shard_account(acc, t, k)
      BY DEF ForeignRefused
    <2>1. acc.key \notin Addr /\ acc.key # programdata_pda /\ acc.owner # PROGRAM
      BY ForeignFields
    <2>2. \A a \in Pdas : acc.key # a
      BY <2>1, KeysApart
    <2>3. ~load_thread_account(acc) /\ ~load_settings_account(acc) /\ ~load_alloc_account(acc)
          /\ ~load_content_account(acc)
      BY <2>1 DEF load_thread_account, load_settings_account, load_alloc_account,
         load_content_account, assert_owned_by
    <2>4. ASSUME NEW w \in Wallets
          PROVE  /\ ~assert_upgrade_authority(acc, w) /\ ~load_admin_access_account(acc, w)
                 /\ ~registry_account(acc, w)
      BY <2>1, <2>2, PdaTypes DEF assert_upgrade_authority, load_admin_access_account,
         registry_account, assert_owned_by, assert_pda
    <2>5. ASSUME NEW t \in Threads
          PROVE  ~access_account(acc, t) /\ \A w \in Wallets : ~entry_account(acc, t, w)
      BY <2>2, PdaTypes DEF access_account, entry_account, assert_pda
    <2>6. ASSUME NEW p \in Pages PROVE ~likes_account(acc, p[1], p[2])
      <3>1. p[1] \in Threads /\ p[2] \in AllocSeqs
        BY DEF Pages
      <3> QED
        BY <2>2, <3>1, PdaTypes DEF likes_account, assert_pda
    <2>7. ASSUME NEW s \in FollowerShards PROVE ~follower_shard_account(acc, s[1], s[2])
      BY <2>2, PdaTypes DEF follower_shard_account, assert_pda
    <2>8. ASSUME NEW k \in TreasuryIdx PROVE ~validate_treasury_shard_account(acc, k)
      <3>1. validate_treasury_shard(k) => derive_treasury_shard_pda(k) \in Pdas
        BY PdaTypes, AccountsAssumption
           DEF validate_treasury_shard, TreasuryIdx, FeeShards, TreasuryShards
      <3> QED
        BY <2>2, <3>1 DEF validate_treasury_shard_account, assert_pda
    <2>9. ASSUME NEW t \in Threads, NEW k \in AuthorIdx
          PROVE  ~validate_author_fee_shard_account(acc, t, k)
      <3>1. validate_author_fee_shard(k) => derive_author_fee_pda(t, k) \in Pdas
        BY PdaTypes, AccountsAssumption
           DEF validate_author_fee_shard, AuthorIdx, FeeShards, AuthorShards
      <3> QED
        BY <2>2, <3>1 DEF validate_author_fee_shard_account, assert_pda
    <2> QED
      BY <2>3, <2>4, <2>5, <2>6, <2>7, <2>8, <2>9
  <1> QED
    BY <1>1, PTL

(***************************************************************************)
(* The program's own accounts: a key determines the account.               *)
(***************************************************************************)

\* The fields of an AccountInfo.
LEMMA InfoFields ==
    \A k, o, d : Info(k, o, d).key = k /\ Info(k, o, d).owner = o /\ Info(k, o, d).data = d
  BY DEF Info

\* Every account the program owns is of one of its types.
LEMMA StoredCases ==
    ASSUME NEW acc \in Stored
    PROVE  \/ settings # NULL /\ acc = SettingsInfo
           \/ \E t \in Threads : thread[t] # NULL /\ acc = ThreadInfo(t)
           \/ \E p \in alloc : acc = AllocInfo(p)
           \/ \E c \in ContentIds : content[c] # NULL /\ acc = ContentInfo(c)
           \/ \E p \in Pages : likes[p] # NULL /\ acc = LikesInfo(p)
           \/ \E t \in Threads : access[t] # NULL /\ acc = AccessInfo(t)
           \/ \E t \in Threads, w \in Wallets : entry[t][w] # NULL /\ acc = EntryInfo(t, w)
           \/ \E w \in Wallets : registry[w] # NULL /\ acc = RegistryInfo(w)
           \/ \E s \in FollowerShards : follower_shard[s] # NULL /\ acc = FollowerInfo(s)
           \/ \E s \in shards : acc = ShardInfo(s)
  BY DEF Stored

\* ... and every account of the state is there.
LEMMA StoredAll ==
    /\ settings # NULL => SettingsInfo \in Stored
    /\ \A t \in Threads : thread[t] # NULL => ThreadInfo(t) \in Stored
    /\ \A p \in alloc : AllocInfo(p) \in Stored
    /\ \A c \in ContentIds : content[c] # NULL => ContentInfo(c) \in Stored
    /\ \A p \in Pages : likes[p] # NULL => LikesInfo(p) \in Stored
    /\ \A t \in Threads : access[t] # NULL => AccessInfo(t) \in Stored
    /\ \A t \in Threads, w \in Wallets : entry[t][w] # NULL => EntryInfo(t, w) \in Stored
    /\ \A w \in Wallets : registry[w] # NULL => RegistryInfo(w) \in Stored
    /\ \A s \in FollowerShards : follower_shard[s] # NULL => FollowerInfo(s) \in Stored
    /\ \A s \in shards : ShardInfo(s) \in Stored
  <1>1. ASSUME NEW t \in Threads, NEW w \in Wallets, entry[t][w] # NULL
        PROVE  EntryInfo(t, w) \in Stored
    <2>1. /\ <<t, w>> \in {x \in Threads \X Wallets : entry[x[1]][x[2]] # NULL}
          /\ <<t, w>>[1] = t /\ <<t, w>>[2] = w
      BY <1>1
    <2> QED
      BY <2>1 DEF Stored
  <1> QED
    BY <1>1 DEF Stored

\* Keys of the accounts, and the seeds that tell them apart.
LEMMA StoredKeys ==
    /\ SettingsInfo.key = derive_settings_pda
    /\ \A t : ThreadInfo(t).key = t /\ AccessInfo(t).key = derive_access_pda(t)
    /\ \A p : /\ AllocInfo(p).key = derive_alloc_pda(p[1], p[2])
              /\ LikesInfo(p).key = derive_likes_pda(p[1], p[2])
              /\ FollowerInfo(p).key = derive_follower_shard_pda(p[1], p[2])
    /\ \A c : ContentInfo(c).key = derive_content_pda(c[1], c[2], c[3])
    /\ \A t, w : EntryInfo(t, w).key = derive_access_entry_pda(t, w)
    /\ \A w : RegistryInfo(w).key = derive_follow_registry_pda(w)
    /\ \A s : ShardInfo(s).key = s
  BY InfoFields DEF SettingsInfo, ThreadInfo, AccessInfo, AllocInfo, LikesInfo, FollowerInfo,
     ContentInfo, EntryInfo, RegistryInfo, ShardInfo

LEMMA SeedsDetermine ==
    /\ \A p \in Pages, q \in Pages :
          /\ derive_alloc_pda(p[1], p[2]) = derive_alloc_pda(q[1], q[2]) => p = q
          /\ derive_likes_pda(p[1], p[2]) = derive_likes_pda(q[1], q[2]) => p = q
    /\ \A c \in ContentIds, d \in ContentIds :
          derive_content_pda(c[1], c[2], c[3]) = derive_content_pda(d[1], d[2], d[3]) => c = d
    /\ \A t, u : derive_access_pda(t) = derive_access_pda(u) => t = u
    /\ \A v, w : derive_follow_registry_pda(v) = derive_follow_registry_pda(w) => v = w
    /\ \A r \in FollowerShards, s \in FollowerShards :
          derive_follower_shard_pda(r[1], r[2]) = derive_follower_shard_pda(s[1], s[2]) => r = s
  <1>1. ASSUME NEW p \in Pages, NEW q \in Pages
        PROVE  /\ derive_alloc_pda(p[1], p[2]) = derive_alloc_pda(q[1], q[2]) => p = q
               /\ derive_likes_pda(p[1], p[2]) = derive_likes_pda(q[1], q[2]) => p = q
    <2>1. p = <<p[1], p[2]>> /\ q = <<q[1], q[2]>>
      BY DEF Pages
    <2> QED
      BY <2>1 DEF derive_alloc_pda, derive_likes_pda
  <1>2. ASSUME NEW c \in ContentIds, NEW d \in ContentIds,
               derive_content_pda(c[1], c[2], c[3]) = derive_content_pda(d[1], d[2], d[3])
        PROVE  c = d
    <2>1. c = <<c[1], c[2], c[3]>> /\ d = <<d[1], d[2], d[3]>>
      BY DEF ContentIds
    <2>2. c[1] = d[1] /\ c[2] = d[2] /\ c[3] = d[3]
      BY <1>2 DEF derive_content_pda
    <2> QED
      BY <2>1, <2>2
  <1>3. ASSUME NEW r \in FollowerShards, NEW s \in FollowerShards,
               derive_follower_shard_pda(r[1], r[2]) = derive_follower_shard_pda(s[1], s[2])
        PROVE  r = s
    <2>1. r = <<r[1], r[2]>> /\ s = <<s[1], s[2]>>
      BY DEF FollowerShards
    <2>2. r[1] = s[1] /\ r[2] = s[2]
      BY <1>3 DEF derive_follower_shard_pda
    <2> QED
      BY <2>1, <2>2
  <1>4. \A t, u : derive_access_pda(t) = derive_access_pda(u) => t = u
    BY DEF derive_access_pda
  <1>5. \A v, w : derive_follow_registry_pda(v) = derive_follow_registry_pda(w) => v = w
    BY DEF derive_follow_registry_pda
  <1> QED
    BY <1>1, <1>2, <1>3, <1>4, <1>5

\* The first seed of a program-owned account tells its type.
LEMMA StoredTags ==
    ASSUME TypeOK, NEW acc \in Stored
    PROVE  \/ acc.key \in Threads /\ acc.key \notin Pdas
                /\ \E t \in Threads : thread[t] # NULL /\ acc = ThreadInfo(t) /\ acc.key = t
           \/ /\ acc.key \in Pdas
              /\ \/ acc.key[1] = "settings" /\ settings # NULL /\ acc = SettingsInfo
                 \/ acc.key[1] = "alloc" /\ \E p \in alloc : acc = AllocInfo(p)
                 \/ acc.key[1] = "content"
                      /\ \E c \in ContentIds : content[c] # NULL /\ acc = ContentInfo(c)
                 \/ acc.key[1] = "likes"
                      /\ \E p \in Pages : likes[p] # NULL /\ acc = LikesInfo(p)
                 \/ acc.key[1] = "access"
                      /\ \E t \in Threads : access[t] # NULL /\ acc = AccessInfo(t)
                 \/ acc.key[1] = "acl"
                      /\ \E t \in Threads, w \in Wallets : entry[t][w] # NULL /\ acc = EntryInfo(t, w)
                 \/ acc.key[1] = "follows"
                      /\ \E w \in Wallets : registry[w] # NULL /\ acc = RegistryInfo(w)
                 \/ acc.key[1] = "follower_count"
                      /\ \E s \in FollowerShards : follower_shard[s] # NULL /\ acc = FollowerInfo(s)
                 \/ acc.key[1] \in {"treasury_shard", "author_fee"}
                      /\ \E s \in shards : acc = ShardInfo(s) /\ acc.key = s
  <1>1. CASE settings # NULL /\ acc = SettingsInfo
    <2>1. acc.key \in Pdas /\ acc.key[1] = "settings"
      BY <1>1, StoredKeys, PdaTypes, OtherTags
    <2> QED
      BY <1>1, <2>1
  <1>2. ASSUME NEW t \in Threads, thread[t] # NULL, acc = ThreadInfo(t)
        PROVE  acc.key = t /\ acc.key \in Threads /\ acc.key \notin Pdas
    BY <1>2, StoredKeys, KeysApart
  <1>3. ASSUME NEW p \in alloc, acc = AllocInfo(p)
        PROVE  acc.key \in Pdas /\ acc.key[1] = "alloc"
    <2>1. p[1] \in Threads /\ p[2] \in AllocSeqs
      BY DEF TypeOK, Pages
    <2>2. acc.key = derive_alloc_pda(p[1], p[2])
      BY <1>3, StoredKeys
    <2> QED
      BY <2>1, <2>2, PdaTypes, OtherTags
  <1>4. ASSUME NEW c \in ContentIds, acc = ContentInfo(c)
        PROVE  acc.key \in Pdas /\ acc.key[1] = "content"
    <2>1. acc.key = derive_content_pda(c[1], c[2], c[3])
      BY <1>4, StoredKeys
    <2> QED
      BY <2>1, PdaTypes, OtherTags
  <1>5. ASSUME NEW p \in Pages, acc = LikesInfo(p)
        PROVE  acc.key \in Pdas /\ acc.key[1] = "likes"
    <2>1. p[1] \in Threads /\ p[2] \in AllocSeqs
      BY DEF Pages
    <2>2. acc.key = derive_likes_pda(p[1], p[2])
      BY <1>5, StoredKeys
    <2> QED
      BY <2>1, <2>2, PdaTypes, OtherTags
  <1>6. ASSUME NEW t \in Threads, acc = AccessInfo(t)
        PROVE  acc.key \in Pdas /\ acc.key[1] = "access"
    <2>1. acc.key = derive_access_pda(t)
      BY <1>6, StoredKeys
    <2> QED
      BY <2>1, PdaTypes, OtherTags
  <1>7. ASSUME NEW t \in Threads, NEW w \in Wallets, acc = EntryInfo(t, w)
        PROVE  acc.key \in Pdas /\ acc.key[1] = "acl"
    <2>1. acc.key = derive_access_entry_pda(t, w)
      BY <1>7, StoredKeys
    <2> QED
      BY <2>1, PdaTypes, OtherTags
  <1>8. ASSUME NEW w \in Wallets, acc = RegistryInfo(w)
        PROVE  acc.key \in Pdas /\ acc.key[1] = "follows"
    <2>1. acc.key = derive_follow_registry_pda(w)
      BY <1>8, StoredKeys
    <2> QED
      BY <2>1, PdaTypes, OtherTags
  <1>9. ASSUME NEW s \in FollowerShards, acc = FollowerInfo(s)
        PROVE  acc.key \in Pdas /\ acc.key[1] = "follower_count"
    <2>1. acc.key = derive_follower_shard_pda(s[1], s[2])
      BY <1>9, StoredKeys
    <2> QED
      BY <2>1, PdaTypes, OtherTags
  <1>10. ASSUME NEW s \in shards, acc = ShardInfo(s)
         PROVE  acc.key \in Pdas /\ acc.key[1] \in {"treasury_shard", "author_fee"} /\ acc.key = s
    <2>1. acc.key = s /\ s \in FeeShards
      BY <1>10, StoredKeys DEF TypeOK
    <2> QED
      BY <2>1, PdaTypes, ShardTags
  <1> QED
    BY <1>1, <1>2, <1>3, <1>4, <1>5, <1>6, <1>7, <1>8, <1>9, <1>10, StoredCases

\* At the key of an account of the state there is that account and no other.
LEMMA StoredAt ==
    ASSUME TypeOK, NEW acc \in Stored
    PROVE  /\ acc.key = derive_settings_pda => settings # NULL /\ acc = SettingsInfo
           /\ \A t \in Threads : acc.key = t => thread[t] # NULL /\ acc = ThreadInfo(t)
           /\ \A p \in Pages :
                /\ acc.key = derive_alloc_pda(p[1], p[2]) => p \in alloc /\ acc = AllocInfo(p)
                /\ acc.key = derive_likes_pda(p[1], p[2]) => likes[p] # NULL /\ acc = LikesInfo(p)
           /\ \A c \in ContentIds :
                acc.key = derive_content_pda(c[1], c[2], c[3])
                    => content[c] # NULL /\ acc = ContentInfo(c)
           /\ \A t \in Threads :
                acc.key = derive_access_pda(t) => access[t] # NULL /\ acc = AccessInfo(t)
           /\ \A t \in Threads, w \in Wallets :
                acc.key = derive_access_entry_pda(t, w)
                    => entry[t][w] # NULL /\ acc = EntryInfo(t, w)
           /\ \A w \in Wallets :
                acc.key = derive_follow_registry_pda(w)
                    => registry[w] # NULL /\ acc = RegistryInfo(w)
           /\ \A s \in FollowerShards :
                acc.key = derive_follower_shard_pda(s[1], s[2])
                    => follower_shard[s] # NULL /\ acc = FollowerInfo(s)
           /\ \A s \in FeeShards : acc.key = s => s \in shards /\ acc = ShardInfo(s)
  <1>1. acc.key = derive_settings_pda => settings # NULL /\ acc = SettingsInfo
    BY StoredTags, PdaTypes, OtherTags
  <1>2. ASSUME NEW t \in Threads, acc.key = t PROVE thread[t] # NULL /\ acc = ThreadInfo(t)
    BY <1>2, StoredTags, KeysApart
  <1>3. ASSUME NEW p \in Pages, acc.key = derive_alloc_pda(p[1], p[2])
        PROVE  p \in alloc /\ acc = AllocInfo(p)
    <2>1. acc.key[1] = "alloc" /\ acc.key \in Pdas
      BY <1>3, OtherTags, PdaTypes DEF Pages
    <2>2. PICK q \in alloc : acc = AllocInfo(q)
      BY <2>1, StoredTags
    <2>3. acc.key = derive_alloc_pda(q[1], q[2])
      BY <2>2, StoredKeys
    <2>4. q = p
      BY <1>3, <2>3, SeedsDetermine DEF TypeOK
    <2> QED
      BY <2>2, <2>4
  <1>4. ASSUME NEW p \in Pages, acc.key = derive_likes_pda(p[1], p[2])
        PROVE  likes[p] # NULL /\ acc = LikesInfo(p)
    <2>1. acc.key[1] = "likes" /\ acc.key \in Pdas
      BY <1>4, OtherTags, PdaTypes DEF Pages
    <2>2. PICK q \in Pages : likes[q] # NULL /\ acc = LikesInfo(q)
      BY <2>1, StoredTags
    <2>3. acc.key = derive_likes_pda(q[1], q[2])
      BY <2>2, StoredKeys
    <2>4. q = p
      BY <1>4, <2>3, SeedsDetermine
    <2> QED
      BY <2>2, <2>4
  <1>5. ASSUME NEW c \in ContentIds, acc.key = derive_content_pda(c[1], c[2], c[3])
        PROVE  content[c] # NULL /\ acc = ContentInfo(c)
    <2>1. acc.key[1] = "content" /\ acc.key \in Pdas
      BY <1>5, OtherTags, PdaTypes
    <2>2. PICK d \in ContentIds : content[d] # NULL /\ acc = ContentInfo(d)
      BY <2>1, StoredTags
    <2>3. acc.key = derive_content_pda(d[1], d[2], d[3])
      BY <2>2, StoredKeys
    <2>4. d = c
      BY <1>5, <2>3, SeedsDetermine
    <2> QED
      BY <2>2, <2>4
  <1>6. ASSUME NEW t \in Threads, acc.key = derive_access_pda(t)
        PROVE  access[t] # NULL /\ acc = AccessInfo(t)
    <2>1. acc.key[1] = "access" /\ acc.key \in Pdas
      BY <1>6, OtherTags, PdaTypes
    <2>2. PICK u \in Threads : access[u] # NULL /\ acc = AccessInfo(u)
      BY <2>1, StoredTags
    <2>3. acc.key = derive_access_pda(u)
      BY <2>2, StoredKeys
    <2>4. u = t
      BY <1>6, <2>3, SeedsDetermine
    <2> QED
      BY <2>2, <2>4
  <1>7. ASSUME NEW t \in Threads, NEW w \in Wallets, acc.key = derive_access_entry_pda(t, w)
        PROVE  entry[t][w] # NULL /\ acc = EntryInfo(t, w)
    <2>1. acc.key[1] = "acl" /\ acc.key \in Pdas
      BY <1>7, OtherTags, PdaTypes
    <2>2. PICK u \in Threads, v \in Wallets : entry[u][v] # NULL /\ acc = EntryInfo(u, v)
      BY <2>1, StoredTags
    <2>3. acc.key = derive_access_entry_pda(u, v)
      BY <2>2, StoredKeys
    <2>4. u = t /\ v = w
      BY <1>7, <2>3 DEF derive_access_entry_pda
    <2> QED
      BY <2>2, <2>4
  <1>8. ASSUME NEW w \in Wallets, acc.key = derive_follow_registry_pda(w)
        PROVE  registry[w] # NULL /\ acc = RegistryInfo(w)
    <2>1. acc.key[1] = "follows" /\ acc.key \in Pdas
      BY <1>8, OtherTags, PdaTypes
    <2>2. PICK v \in Wallets : registry[v] # NULL /\ acc = RegistryInfo(v)
      BY <2>1, StoredTags
    <2>3. acc.key = derive_follow_registry_pda(v)
      BY <2>2, StoredKeys
    <2>4. v = w
      BY <1>8, <2>3, SeedsDetermine
    <2> QED
      BY <2>2, <2>4
  <1>9. ASSUME NEW s \in FollowerShards, acc.key = derive_follower_shard_pda(s[1], s[2])
        PROVE  follower_shard[s] # NULL /\ acc = FollowerInfo(s)
    <2>1. acc.key[1] = "follower_count" /\ acc.key \in Pdas
      BY <1>9, OtherTags, PdaTypes
    <2>2. PICK r \in FollowerShards : follower_shard[r] # NULL /\ acc = FollowerInfo(r)
      BY <2>1, StoredTags
    <2>3. acc.key = derive_follower_shard_pda(r[1], r[2])
      BY <2>2, StoredKeys
    <2>4. r = s
      BY <1>9, <2>3, SeedsDetermine
    <2> QED
      BY <2>2, <2>4
  <1>10. ASSUME NEW s \in FeeShards, acc.key = s PROVE s \in shards /\ acc = ShardInfo(s)
    <2>1. acc.key[1] \in {"treasury_shard", "author_fee"} /\ acc.key \in Pdas
      BY <1>10, ShardTags, PdaTypes
    <2> QED
      BY <1>10, <2>1, StoredTags
  <1> QED
    BY <1>1, <1>2, <1>3, <1>4, <1>5, <1>6, <1>7, <1>8, <1>9, <1>10

(***************************************************************************)
(* The accounts a caller may pass at an address of the program.            *)
(***************************************************************************)

\* An account without bytes that belongs to nobody.
Vacant(key) == Info(key, SYSTEM, <<>>)

LEMMA KnownCases ==
    ASSUME NEW acc \in Known, acc.key \in Addr
    PROVE  \/ acc \in Stored
           \/ acc = Vacant(acc.key) /\ \A s \in Stored : s.key # acc.key
  <1>1. CASE acc \in Unused
    <2>1. PICK a \in Addr \ {s.key : s \in Stored} : acc = Info(a, SYSTEM, <<>>)
      BY <1>1 DEF Unused
    <2>2. acc.key = a
      BY <2>1, InfoFields
    <2> QED
      BY <2>1, <2>2 DEF Vacant
  <1>2. CASE acc = ProgramData
    <2>1. acc.key = programdata_pda
      BY <1>2, InfoFields DEF ProgramData
    <2> QED
      BY <2>1, ForeignAssumption
  <1> QED
    BY <1>1, <1>2 DEF Known

\* Whatever a caller passes with the key of an account of the program is that
\* account if it exists, and vacant otherwise.
LEMMA KnownAt ==
    ASSUME TypeOK, NEW acc \in Known
    PROVE  /\ acc.key = derive_settings_pda =>
                acc = IF settings # NULL THEN SettingsInfo ELSE Vacant(acc.key)
           /\ \A t \in Threads : acc.key = t =>
                acc = IF thread[t] # NULL THEN ThreadInfo(t) ELSE Vacant(acc.key)
           /\ \A p \in Pages : acc.key = derive_alloc_pda(p[1], p[2]) =>
                acc = IF p \in alloc THEN AllocInfo(p) ELSE Vacant(acc.key)
           /\ \A p \in Pages : acc.key = derive_likes_pda(p[1], p[2]) =>
                acc = IF likes[p] # NULL THEN LikesInfo(p) ELSE Vacant(acc.key)
           /\ \A c \in ContentIds : acc.key = derive_content_pda(c[1], c[2], c[3]) =>
                acc = IF content[c] # NULL THEN ContentInfo(c) ELSE Vacant(acc.key)
           /\ \A t \in Threads : acc.key = derive_access_pda(t) =>
                acc = IF access[t] # NULL THEN AccessInfo(t) ELSE Vacant(acc.key)
           /\ \A t \in Threads, w \in Wallets : acc.key = derive_access_entry_pda(t, w) =>
                acc = IF entry[t][w] # NULL THEN EntryInfo(t, w) ELSE Vacant(acc.key)
           /\ \A w \in Wallets : acc.key = derive_follow_registry_pda(w) =>
                acc = IF registry[w] # NULL THEN RegistryInfo(w) ELSE Vacant(acc.key)
           /\ \A s \in FollowerShards : acc.key = derive_follower_shard_pda(s[1], s[2]) =>
                acc = IF follower_shard[s] # NULL THEN FollowerInfo(s) ELSE Vacant(acc.key)
           /\ \A s \in FeeShards : acc.key = s =>
                acc = IF s \in shards THEN ShardInfo(s) ELSE Vacant(acc.key)
  <1>1. ASSUME acc.key = derive_settings_pda
        PROVE  acc = IF settings # NULL THEN SettingsInfo ELSE Vacant(acc.key)
    <2>1. acc.key \in Addr /\ (settings # NULL => SettingsInfo.key = acc.key)
      BY <1>1, PdaTypes, KeysApart, StoredKeys
    <2> QED
      BY <1>1, <2>1, KnownCases, StoredAt, StoredAll
  <1>2. ASSUME NEW t \in Threads, acc.key = t
        PROVE  acc = IF thread[t] # NULL THEN ThreadInfo(t) ELSE Vacant(acc.key)
    <2>1. acc.key \in Addr /\ ThreadInfo(t).key = acc.key
      BY <1>2, KeysApart, StoredKeys
    <2> QED
      BY <1>2, <2>1, KnownCases, StoredAt, StoredAll
  <1>3. ASSUME NEW p \in Pages, acc.key = derive_alloc_pda(p[1], p[2])
        PROVE  acc = IF p \in alloc THEN AllocInfo(p) ELSE Vacant(acc.key)
    <2>1. acc.key \in Addr /\ AllocInfo(p).key = acc.key
      <3>1. p[1] \in Threads /\ p[2] \in AllocSeqs
        BY DEF Pages
      <3>2. acc.key \in Pdas
        BY <1>3, <3>1, PdaTypes
      <3>3. AllocInfo(p).key = acc.key
        BY <1>3, StoredKeys
      <3> QED
        BY <3>2, <3>3, KeysApart
    <2> QED
      BY <1>3, <2>1, KnownCases, StoredAt, StoredAll
  <1>4. ASSUME NEW p \in Pages, acc.key = derive_likes_pda(p[1], p[2])
        PROVE  acc = IF likes[p] # NULL THEN LikesInfo(p) ELSE Vacant(acc.key)
    <2>1. acc.key \in Addr /\ LikesInfo(p).key = acc.key
      <3>1. p[1] \in Threads /\ p[2] \in AllocSeqs
        BY DEF Pages
      <3>2. acc.key \in Pdas
        BY <1>4, <3>1, PdaTypes
      <3>3. LikesInfo(p).key = acc.key
        BY <1>4, StoredKeys
      <3> QED
        BY <3>2, <3>3, KeysApart
    <2> QED
      BY <1>4, <2>1, KnownCases, StoredAt, StoredAll
  <1>5. ASSUME NEW c \in ContentIds, acc.key = derive_content_pda(c[1], c[2], c[3])
        PROVE  acc = IF content[c] # NULL THEN ContentInfo(c) ELSE Vacant(acc.key)
    <2>1. acc.key \in Addr /\ ContentInfo(c).key = acc.key
      BY <1>5, PdaTypes, KeysApart, StoredKeys
    <2> QED
      BY <1>5, <2>1, KnownCases, StoredAt, StoredAll
  <1>6. ASSUME NEW t \in Threads, acc.key = derive_access_pda(t)
        PROVE  acc = IF access[t] # NULL THEN AccessInfo(t) ELSE Vacant(acc.key)
    <2>1. acc.key \in Addr /\ AccessInfo(t).key = acc.key
      BY <1>6, PdaTypes, KeysApart, StoredKeys
    <2> QED
      BY <1>6, <2>1, KnownCases, StoredAt, StoredAll
  <1>7. ASSUME NEW t \in Threads, NEW w \in Wallets, acc.key = derive_access_entry_pda(t, w)
        PROVE  acc = IF entry[t][w] # NULL THEN EntryInfo(t, w) ELSE Vacant(acc.key)
    <2>1. acc.key \in Addr /\ EntryInfo(t, w).key = acc.key
      BY <1>7, PdaTypes, KeysApart, StoredKeys
    <2> QED
      BY <1>7, <2>1, KnownCases, StoredAt, StoredAll
  <1>8. ASSUME NEW w \in Wallets, acc.key = derive_follow_registry_pda(w)
        PROVE  acc = IF registry[w] # NULL THEN RegistryInfo(w) ELSE Vacant(acc.key)
    <2>1. acc.key \in Addr /\ RegistryInfo(w).key = acc.key
      BY <1>8, PdaTypes, KeysApart, StoredKeys
    <2> QED
      BY <1>8, <2>1, KnownCases, StoredAt, StoredAll
  <1>9. ASSUME NEW s \in FollowerShards, acc.key = derive_follower_shard_pda(s[1], s[2])
        PROVE  acc = IF follower_shard[s] # NULL THEN FollowerInfo(s) ELSE Vacant(acc.key)
    <2>1. acc.key \in Addr /\ FollowerInfo(s).key = acc.key
      BY <1>9, PdaTypes, KeysApart, StoredKeys
    <2> QED
      BY <1>9, <2>1, KnownCases, StoredAt, StoredAll
  <1>10. ASSUME NEW s \in FeeShards, acc.key = s
         PROVE  acc = IF s \in shards THEN ShardInfo(s) ELSE Vacant(acc.key)
    <2>1. acc.key \in Addr /\ ShardInfo(s).key = acc.key
      BY <1>10, PdaTypes, KeysApart, StoredKeys
    <2> QED
      BY <1>10, <2>1, KnownCases, StoredAt, StoredAll
  <1> QED
    BY <1>1, <1>2, <1>3, <1>4, <1>5, <1>6, <1>7, <1>8, <1>9, <1>10

(***************************************************************************)
(* What the checks read of each account.                                   *)
(***************************************************************************)

\* All accounts of the program are owned by it.
LEMMA InfoOwner ==
    /\ SettingsInfo.owner = PROGRAM
    /\ \A t : ThreadInfo(t).owner = PROGRAM /\ AccessInfo(t).owner = PROGRAM
    /\ \A p : /\ AllocInfo(p).owner = PROGRAM /\ LikesInfo(p).owner = PROGRAM
              /\ FollowerInfo(p).owner = PROGRAM
    /\ \A c : ContentInfo(c).owner = PROGRAM
    /\ \A t, w : EntryInfo(t, w).owner = PROGRAM
    /\ \A w : RegistryInfo(w).owner = PROGRAM
    /\ \A s : ShardInfo(s).owner = PROGRAM
  BY InfoFields DEF SettingsInfo, ThreadInfo, AccessInfo, AllocInfo, LikesInfo, FollowerInfo,
     ContentInfo, EntryInfo, RegistryInfo, ShardInfo

\* A vacant account passes for uninitialized, one of the program does not.
LEMMA Uninitialized ==
    /\ \A k : is_uninitialized(Vacant(k)) /\ Vacant(k).owner # PROGRAM
    /\ \A acc : acc.owner = PROGRAM => ~is_uninitialized(acc)
  BY InfoFields DEF is_uninitialized, Vacant, PROGRAM, SYSTEM

(***************************************************************************)
(* The checks for accounts that are created, or may be absent.             *)
(***************************************************************************)

\* In every state the type invariant allows, an address passes for unused
\* exactly when the program has nothing there.
LEMMA AbsentStep == TypeOK => AbsentExact
  <1> SUFFICES ASSUME TypeOK, NEW acc \in Known
               PROVE  AbsentExact!(acc)
    BY DEF AbsentExact
  <1>1. created_at_pda(acc, derive_settings_pda) <=>
             acc.key = derive_settings_pda /\ settings = NULL
    BY KnownAt, InfoOwner, Uninitialized DEF created_at_pda, assert_pda
  <1>2. ASSUME NEW t \in Threads, acc.key = t PROVE created_thread(acc) <=> thread[t] = NULL
    BY <1>2, KnownAt, InfoOwner, Uninitialized DEF created_thread
  <1>3. ASSUME NEW t \in Threads
        PROVE  /\ created_at_pda(acc, derive_access_pda(t)) <=>
                    acc.key = derive_access_pda(t) /\ access[t] = NULL
               /\ access_account(acc, t) <=> acc.key = derive_access_pda(t)
    <2>1. CASE acc.key = derive_access_pda(t) /\ access[t] # NULL
      <3>1. acc = AccessInfo(t)
        BY <2>1, KnownAt
      <3> QED
        BY <2>1, <3>1, InfoOwner, InfoFields, Uninitialized
           DEF AccessInfo, has_tag, created_at_pda, access_account, assert_pda, assert_owned_by,
               load_thread_access
    <2>2. CASE acc.key = derive_access_pda(t) /\ access[t] = NULL
      <3>1. is_uninitialized(acc)
        BY <2>2, KnownAt, Uninitialized
      <3> QED
        BY <2>2, <3>1 DEF created_at_pda, access_account, assert_pda
    <2> QED
      BY <2>1, <2>2 DEF created_at_pda, access_account, assert_pda
  <1>4. ASSUME NEW t \in Threads, NEW w \in Wallets
        PROVE  /\ created_at_pda(acc, derive_access_entry_pda(t, w)) <=>
                    acc.key = derive_access_entry_pda(t, w) /\ entry[t][w] = NULL
               /\ entry_account(acc, t, w) <=> acc.key = derive_access_entry_pda(t, w)
    <2>1. CASE acc.key = derive_access_entry_pda(t, w) /\ entry[t][w] # NULL
      <3>1. acc = EntryInfo(t, w)
        BY <2>1, KnownAt
      <3>2. acc.owner = PROGRAM /\ ~is_uninitialized(acc)
        BY <3>1, InfoOwner, Uninitialized
      <3>3. acc.data = [tag |-> TAG_ACCESS_ENTRY, thread |-> t, wallet |-> w]
        BY <3>1, InfoFields DEF EntryInfo
      <3>4. has_tag(acc, TAG_ACCESS_ENTRY) /\ acc.data.thread = t /\ acc.data.wallet = w
        BY <3>3 DEF has_tag
      <3> QED
        BY <2>1, <3>2, <3>4
           DEF created_at_pda, entry_account, assert_pda, assert_owned_by, load_access_entry,
               load_bound_access_entry
    <2>2. CASE acc.key = derive_access_entry_pda(t, w) /\ entry[t][w] = NULL
      <3>1. is_uninitialized(acc)
        BY <2>2, KnownAt, Uninitialized
      <3> QED
        BY <2>2, <3>1 DEF created_at_pda, entry_account, assert_pda
    <2> QED
      BY <2>1, <2>2 DEF created_at_pda, entry_account, assert_pda
  <1>5. ASSUME NEW p \in Pages
        PROVE  /\ created_at_pda(acc, derive_alloc_pda(p[1], p[2])) <=>
                    acc.key = derive_alloc_pda(p[1], p[2]) /\ p \notin alloc
               /\ likes_account(acc, p[1], p[2]) <=> acc.key = derive_likes_pda(p[1], p[2])
    <2>1. created_at_pda(acc, derive_alloc_pda(p[1], p[2])) <=>
             acc.key = derive_alloc_pda(p[1], p[2]) /\ p \notin alloc
      BY KnownAt, InfoOwner, Uninitialized DEF created_at_pda, assert_pda
    <2>2. CASE acc.key = derive_likes_pda(p[1], p[2]) /\ likes[p] # NULL
      <3>1. acc = LikesInfo(p)
        BY <2>2, KnownAt
      <3> QED
        BY <2>1, <2>2, <3>1, InfoOwner, InfoFields
           DEF LikesInfo, has_tag, likes_account, assert_pda, assert_owned_by, load_alloc_likes
    <2>3. CASE acc.key = derive_likes_pda(p[1], p[2]) /\ likes[p] = NULL
      <3>1. is_uninitialized(acc)
        BY <2>3, KnownAt, Uninitialized
      <3> QED
        BY <2>1, <2>3, <3>1 DEF likes_account, assert_pda
    <2> QED
      BY <2>1, <2>2, <2>3 DEF likes_account, assert_pda
  <1>6. ASSUME NEW c \in ContentIds
        PROVE  created_at_pda(acc, derive_content_pda(c[1], c[2], c[3])) <=>
                 acc.key = derive_content_pda(c[1], c[2], c[3]) /\ content[c] = NULL
    BY KnownAt, InfoOwner, Uninitialized DEF created_at_pda, assert_pda
  <1>7. ASSUME NEW w \in Wallets
        PROVE  registry_account(acc, w) <=> acc.key = derive_follow_registry_pda(w)
    <2>1. CASE acc.key = derive_follow_registry_pda(w) /\ registry[w] # NULL
      <3>1. acc = RegistryInfo(w)
        BY <2>1, KnownAt
      <3> QED
        BY <2>1, <3>1, InfoOwner, InfoFields
           DEF RegistryInfo, has_tag, registry_account, assert_pda, assert_owned_by,
               load_follow_registry
    <2>2. CASE acc.key = derive_follow_registry_pda(w) /\ registry[w] = NULL
      <3>1. is_uninitialized(acc)
        BY <2>2, KnownAt, Uninitialized
      <3> QED
        BY <2>2, <3>1 DEF registry_account, assert_pda
    <2> QED
      BY <2>1, <2>2 DEF registry_account, assert_pda
  <1>8. ASSUME NEW s \in FollowerShards
        PROVE  follower_shard_account(acc, s[1], s[2]) <=>
                 acc.key = derive_follower_shard_pda(s[1], s[2])
    <2>1. CASE acc.key = derive_follower_shard_pda(s[1], s[2]) /\ follower_shard[s] # NULL
      <3>1. acc = FollowerInfo(s)
        BY <2>1, KnownAt
      <3> QED
        BY <2>1, <3>1, InfoOwner, InfoFields
           DEF FollowerInfo, has_tag, follower_shard_account, assert_pda, assert_owned_by,
               load_follower_shard,
               load_bound_follower_shard
    <2>2. CASE acc.key = derive_follower_shard_pda(s[1], s[2]) /\ follower_shard[s] = NULL
      <3>1. is_uninitialized(acc)
        BY <2>2, KnownAt, Uninitialized
      <3> QED
        BY <2>2, <3>1 DEF follower_shard_account, assert_pda
    <2> QED
      BY <2>1, <2>2 DEF follower_shard_account, assert_pda
  <1> QED
    BY <1>1, <1>2, <1>3, <1>4, <1>5, <1>6, <1>7, <1>8

\* An address passes for unused exactly when the program has nothing there,
\* funded or not: no live account is created over or read as absent, and none
\* is blocked by lamports sent to it (AbsentExact of the checks run).
THEOREM AbsentCorrect == Spec => []AbsentExact
  BY TypeCorrect, AbsentStep, PTL

(***************************************************************************)
(* The checks for accounts that must exist.                                *)
(***************************************************************************)

\* What the owner says: nobody but the program owns an account of the program.
LEMMA OwnedStored ==
    ASSUME NEW acc \in Known, acc.owner = PROGRAM
    PROVE  acc \in Stored
  <1>1. CASE acc \in Unused
    BY <1>1, InfoFields DEF Unused, PROGRAM, SYSTEM
  <1>2. CASE acc = ProgramData
    BY <1>2, InfoFields DEF ProgramData, PROGRAM, LOADER
  <1> QED
    BY <1>1, <1>2 DEF Known

\* What the tag says, of an account the program owns.
LEMMA TagDetermines ==
    ASSUME TypeOK, NEW acc \in Known, acc.owner = PROGRAM
    PROVE  /\ has_tag(acc, TAG_THREAD) => \E t \in Threads : thread[t] # NULL /\ acc = ThreadInfo(t)
           /\ has_tag(acc, TAG_ALLOC) => \E p \in alloc : acc = AllocInfo(p)
           /\ has_tag(acc, TAG_CONTENT) =>
                \E c \in ContentIds : content[c] # NULL /\ acc = ContentInfo(c)
           /\ has_tag(acc, TAG_ACCESS) => \E t \in Threads : access[t] # NULL /\ acc = AccessInfo(t)
  <1>1. acc \in Stored
    BY OwnedStored
  <1>2. ASSUME NEW a, NEW b, has_tag(acc, a), acc.data.tag = b PROVE a = b
    BY <1>2 DEF has_tag
  <1> DEFINE Other == {TAG_SETTINGS, TAG_LIKES, TAG_ACCESS_ENTRY, TAG_FOLLOW_REGISTRY,
                       TAG_FOLLOWER_SHARD}
  <1>3. CASE acc.data.tag \in Other
    BY <1>2, <1>3 DEF TAG_THREAD, TAG_ALLOC, TAG_CONTENT, TAG_ACCESS, TAG_SETTINGS, TAG_LIKES,
       TAG_ACCESS_ENTRY, TAG_FOLLOW_REGISTRY, TAG_FOLLOWER_SHARD
  <1>4. CASE \E s \in shards : acc = ShardInfo(s)
    <2>1. acc.data = <<>>
      BY <1>4, InfoFields DEF ShardInfo
    <2> QED
      BY <2>1 DEF has_tag
  <1>5. CASE settings # NULL /\ acc = SettingsInfo
    <2>1. acc.data.tag \in Other
      BY <1>5, InfoFields DEF SettingsInfo
    <2> QED
      BY <1>3, <2>1
  <1>6. CASE \E p \in Pages : likes[p] # NULL /\ acc = LikesInfo(p)
    <2>1. acc.data.tag \in Other
      BY <1>6, InfoFields DEF LikesInfo
    <2> QED
      BY <1>3, <2>1
  <1>7. CASE \E t \in Threads, w \in Wallets : entry[t][w] # NULL /\ acc = EntryInfo(t, w)
    <2>1. acc.data.tag \in Other
      BY <1>7, InfoFields DEF EntryInfo
    <2> QED
      BY <1>3, <2>1
  <1>8. CASE \E w \in Wallets : registry[w] # NULL /\ acc = RegistryInfo(w)
    <2>1. acc.data.tag \in Other
      BY <1>8, InfoFields DEF RegistryInfo
    <2> QED
      BY <1>3, <2>1
  <1>9. CASE \E s \in FollowerShards : follower_shard[s] # NULL /\ acc = FollowerInfo(s)
    <2>1. acc.data.tag \in Other
      BY <1>9, InfoFields DEF FollowerInfo
    <2> QED
      BY <1>3, <2>1
  <1>10. CASE \E t \in Threads : thread[t] # NULL /\ acc = ThreadInfo(t)
    <2>1. acc.data.tag = TAG_THREAD
      BY <1>10, InfoFields DEF ThreadInfo
    <2> QED
      BY <1>2, <1>10, <2>1 DEF TAG_THREAD, TAG_ALLOC, TAG_CONTENT, TAG_ACCESS
  <1>11. CASE \E p \in alloc : acc = AllocInfo(p)
    <2>1. acc.data.tag = TAG_ALLOC
      BY <1>11, InfoFields DEF AllocInfo
    <2> QED
      BY <1>2, <1>11, <2>1 DEF TAG_THREAD, TAG_ALLOC, TAG_CONTENT, TAG_ACCESS
  <1>12. CASE \E c \in ContentIds : content[c] # NULL /\ acc = ContentInfo(c)
    <2>1. acc.data.tag = TAG_CONTENT
      BY <1>12, InfoFields DEF ContentInfo
    <2> QED
      BY <1>2, <1>12, <2>1 DEF TAG_THREAD, TAG_ALLOC, TAG_CONTENT, TAG_ACCESS
  <1>13. CASE \E t \in Threads : access[t] # NULL /\ acc = AccessInfo(t)
    <2>1. acc.data.tag = TAG_ACCESS
      BY <1>13, InfoFields DEF AccessInfo
    <2> QED
      BY <1>2, <1>13, <2>1 DEF TAG_THREAD, TAG_ALLOC, TAG_CONTENT, TAG_ACCESS
  <1> QED
    BY <1>1, <1>4, <1>5, <1>6, <1>7, <1>8, <1>9, <1>10, <1>11, <1>12, <1>13, StoredCases

\* The accounts found by their tag: the loader accepts an account exactly if it
\* is one of its type.
LEMMA ThreadLoaded ==
    ASSUME TypeOK, NEW acc \in Known
    PROVE  /\ load_thread_account(acc) => \E t \in Threads : acc.key = t /\ thread[t] # NULL
           /\ \A t \in Threads : acc.key = t /\ thread[t] # NULL =>
                load_thread_account(acc) /\ acc.data.author = thread[t].author
  <1>1. ASSUME load_thread_account(acc)
        PROVE  \E t \in Threads : acc.key = t /\ thread[t] # NULL
    <2>1. acc.owner = PROGRAM /\ has_tag(acc, TAG_THREAD)
      BY <1>1 DEF load_thread_account, assert_owned_by
    <2>2. PICK t \in Threads : thread[t] # NULL /\ acc = ThreadInfo(t)
      BY <2>1, TagDetermines
    <2>3. acc.key = t
      BY <2>2, StoredKeys
    <2> QED
      BY <2>2, <2>3
  <1>2. ASSUME NEW t \in Threads, acc.key = t, thread[t] # NULL
        PROVE  load_thread_account(acc) /\ acc.data.author = thread[t].author
    <2>1. acc = ThreadInfo(t)
      BY <1>2, KnownAt
    <2>2. acc.owner = PROGRAM /\ acc.data = [tag |-> TAG_THREAD, author |-> thread[t].author]
      BY <2>1, InfoFields DEF ThreadInfo
    <2> QED
      BY <2>2 DEF load_thread_account, assert_owned_by, has_tag
  <1> QED
    BY <1>1, <1>2

LEMMA ContentLoaded ==
    ASSUME TypeOK, NEW acc \in Known
    PROVE  /\ load_content_account(acc) =>
                \E c \in ContentIds : acc.key = derive_content_pda(c[1], c[2], c[3])
                                      /\ content[c] # NULL
           /\ \A c \in ContentIds :
                acc.key = derive_content_pda(c[1], c[2], c[3]) /\ content[c] # NULL =>
                    /\ load_content_account(acc) /\ assert_owned_by(acc, PROGRAM)
                    /\ has_tag(acc, TAG_CONTENT)
                    /\ acc.data.thread = c[1] /\ acc.data.author = content[c].author
  <1>1. ASSUME load_content_account(acc)
        PROVE  \E c \in ContentIds : acc.key = derive_content_pda(c[1], c[2], c[3])
                                     /\ content[c] # NULL
    <2>1. acc.owner = PROGRAM /\ has_tag(acc, TAG_CONTENT)
      BY <1>1 DEF load_content_account, assert_owned_by
    <2>2. PICK c \in ContentIds : content[c] # NULL /\ acc = ContentInfo(c)
      BY <2>1, TagDetermines
    <2>3. acc.key = derive_content_pda(c[1], c[2], c[3])
      BY <2>2, StoredKeys
    <2> QED
      BY <2>2, <2>3
  <1>2. ASSUME NEW c \in ContentIds, acc.key = derive_content_pda(c[1], c[2], c[3]),
               content[c] # NULL
        PROVE  /\ load_content_account(acc) /\ assert_owned_by(acc, PROGRAM)
               /\ has_tag(acc, TAG_CONTENT)
               /\ acc.data.thread = c[1] /\ acc.data.author = content[c].author
    <2>1. acc = ContentInfo(c)
      BY <1>2, KnownAt
    <2>2. /\ acc.owner = PROGRAM
          /\ acc.data = [tag |-> TAG_CONTENT, thread |-> c[1], alloc_seq |-> c[2],
                         slot |-> c[3], author |-> content[c].author]
      BY <2>1, InfoFields DEF ContentInfo
    <2>3. /\ has_tag(acc, TAG_CONTENT) /\ acc.data.thread = c[1] /\ acc.data.alloc_seq = c[2]
          /\ acc.data.slot = c[3] /\ acc.data.author = content[c].author
      BY <2>2 DEF has_tag
    <2> QED
      BY <1>2, <2>2, <2>3 DEF load_content_account, assert_owned_by, assert_pda
  <1> QED
    BY <1>1, <1>2

LEMMA PageLoaded ==
    ASSUME TypeOK, NEW acc \in Known, NEW p \in Pages
    PROVE  page_account(acc, p[1], p[2]) <=>
              acc.key = derive_alloc_pda(p[1], p[2]) /\ p \in alloc
  <1>1. ASSUME page_account(acc, p[1], p[2])
        PROVE  acc.key = derive_alloc_pda(p[1], p[2]) /\ p \in alloc
    <2>1. /\ acc.owner = PROGRAM /\ has_tag(acc, TAG_ALLOC)
          /\ acc.key = derive_alloc_pda(p[1], p[2])
      BY <1>1 DEF page_account, load_alloc_account, assert_owned_by, assert_pda
    <2>2. PICK q \in alloc : acc = AllocInfo(q)
      BY <2>1, TagDetermines
    <2>3. acc.key = derive_alloc_pda(q[1], q[2])
      BY <2>2, StoredKeys
    <2>4. q = p
      BY <2>1, <2>3, SeedsDetermine DEF TypeOK
    <2> QED
      BY <2>1, <2>4
  <1>2. ASSUME acc.key = derive_alloc_pda(p[1], p[2]), p \in alloc
        PROVE  page_account(acc, p[1], p[2])
    <2>1. acc = AllocInfo(p)
      BY <1>2, KnownAt
    <2>2. /\ acc.owner = PROGRAM
          /\ acc.data = [tag |-> TAG_ALLOC, thread |-> p[1], alloc_seq |-> p[2]]
      BY <2>1, InfoFields DEF AllocInfo
    <2>3. has_tag(acc, TAG_ALLOC) /\ acc.data.thread = p[1] /\ acc.data.alloc_seq = p[2]
      BY <2>2 DEF has_tag
    <2> QED
      BY <1>2, <2>2, <2>3 DEF page_account, load_alloc_account, assert_owned_by, assert_pda
  <1> QED
    BY <1>1, <1>2

LEMMA AccessLoaded ==
    ASSUME TypeOK, NEW acc \in Known
    PROVE  /\ \A w \in Wallets : load_admin_access_account(acc, w) <=>
                 \E t \in Threads : acc.key = derive_access_pda(t) /\ load_admin_access(w, t)
           /\ \A t \in Threads : requested_access_account(acc, t) <=>
                 acc.key = derive_access_pda(t) /\ access[t] # NULL
  <1>1. ASSUME NEW t \in Threads, acc.key = derive_access_pda(t), access[t] # NULL
        PROVE  /\ acc.owner = PROGRAM /\ has_tag(acc, TAG_ACCESS)
               /\ acc.data.thread = t /\ acc.data.admin = access[t].admin
    <2>1. acc = AccessInfo(t)
      BY <1>1, KnownAt
    <2>2. /\ acc.owner = PROGRAM
          /\ acc.data = [tag |-> TAG_ACCESS, thread |-> t, admin |-> access[t].admin]
      BY <2>1, InfoFields DEF AccessInfo
    <2> QED
      BY <2>2 DEF has_tag
  <1>2. ASSUME NEW w \in Wallets, load_admin_access_account(acc, w)
        PROVE  \E t \in Threads : acc.key = derive_access_pda(t) /\ load_admin_access(w, t)
    <2>1. acc.owner = PROGRAM /\ has_tag(acc, TAG_ACCESS) /\ acc.data.admin = w
      BY <1>2 DEF load_admin_access_account, assert_owned_by, load_thread_access
    <2>2. PICK t \in Threads : access[t] # NULL /\ acc = AccessInfo(t)
      BY <2>1, TagDetermines
    <2>3. acc.key = derive_access_pda(t)
      BY <2>2, StoredKeys
    <2> QED
      BY <1>1, <2>1, <2>2, <2>3 DEF load_admin_access
  <1>3. ASSUME NEW w \in Wallets, NEW t \in Threads, acc.key = derive_access_pda(t),
               load_admin_access(w, t)
        PROVE  load_admin_access_account(acc, w)
    BY <1>1, <1>3 DEF load_admin_access_account, load_admin_access, assert_owned_by, assert_pda,
       load_thread_access
  <1>4. ASSUME NEW t \in Threads
        PROVE  requested_access_account(acc, t) <=> acc.key = derive_access_pda(t) /\ access[t] # NULL
    <2>1. ASSUME acc.key = derive_access_pda(t), access[t] = NULL PROVE acc.owner # PROGRAM
      BY <2>1, KnownAt, Uninitialized
    <2> QED
      BY <1>1, <2>1 DEF requested_access_account, access_account, assert_owned_by, assert_pda,
         load_thread_access
  <1> QED
    BY <1>2, <1>3, <1>4

\* A shard index is good exactly if there is a fee shard for it.
LEMMA IndexValid ==
    /\ \A k \in TreasuryIdx :
          validate_treasury_shard(k) <=> derive_treasury_shard_pda(k) \in FeeShards
    /\ \A t \in Threads, k \in AuthorIdx :
          validate_author_fee_shard(k) <=> derive_author_fee_pda(t, k) \in FeeShards
  <1>1. ASSUME NEW k \in TreasuryIdx
        PROVE  validate_treasury_shard(k) <=> derive_treasury_shard_pda(k) \in FeeShards
    <2>1. validate_treasury_shard(k) <=> k \in 0..(N_TREASURY_SHARDS - 1)
      BY AccountsAssumption DEF validate_treasury_shard, TreasuryIdx
    <2>2. \A j : derive_treasury_shard_pda(k) = derive_treasury_shard_pda(j) => j = k
      BY DEF derive_treasury_shard_pda
    <2>3. k \in 0..(N_TREASURY_SHARDS - 1) <=> derive_treasury_shard_pda(k) \in TreasuryShards
      BY <2>2 DEF TreasuryShards
    <2>4. derive_treasury_shard_pda(k) \in TreasuryShards
            <=> derive_treasury_shard_pda(k) \in FeeShards
      BY ShardSeeds
    <2> QED
      BY <2>1, <2>3, <2>4
  <1>2. ASSUME NEW t \in Threads, NEW k \in AuthorIdx
        PROVE  validate_author_fee_shard(k) <=> derive_author_fee_pda(t, k) \in FeeShards
    <2>1. validate_author_fee_shard(k) <=> k \in 0..(N_AUTHOR_FEE_SHARDS - 1)
      BY AccountsAssumption DEF validate_author_fee_shard, AuthorIdx
    <2>2. \A j : derive_author_fee_pda(t, k) = derive_author_fee_pda(t, j) => j = k
      BY DEF derive_author_fee_pda
    <2>3. k \in 0..(N_AUTHOR_FEE_SHARDS - 1) <=> derive_author_fee_pda(t, k) \in AuthorShards(t)
      BY <2>2 DEF AuthorShards
    <2>4. derive_author_fee_pda(t, k) \in AuthorShards(t)
            <=> derive_author_fee_pda(t, k) \in FeeShards
      BY ShardSeeds
    <2> QED
      BY <2>1, <2>3, <2>4
  <1> QED
    BY <1>1, <1>2

LEMMA ShardLoaded ==
    ASSUME TypeOK, NEW acc \in Known, NEW s \in FeeShards, acc.key = s
    PROVE  ~is_uninitialized(acc) /\ assert_owned_by(acc, PROGRAM) <=> s \in shards
  <1>1. acc = IF s \in shards THEN ShardInfo(s) ELSE Vacant(acc.key)
    BY KnownAt
  <1> QED
    BY <1>1, InfoOwner, Uninitialized DEF assert_owned_by

\* In every state the type invariant allows, a check accepts exactly the account
\* it is for.
LEMMA ExistingStep == TypeOK => ExistingExact
  <1> SUFFICES ASSUME TypeOK, NEW acc \in Known
               PROVE  ExistingExact!(acc)
    BY DEF ExistingExact
  <1>1. load_thread_account(acc) <=> \E t \in Threads : acc.key = t /\ load_thread(t)
    BY ThreadLoaded DEF load_thread
  <1>2. ASSUME NEW w \in Wallets
        PROVE  load_author_thread_account(acc, w) <=>
                 \E t \in Threads : acc.key = t /\ load_author_thread(w, t)
    BY ThreadLoaded DEF load_author_thread_account, load_author_thread, load_thread
  <1>3. ASSUME NEW w \in Wallets
        PROVE  load_admin_settings_account(acc, w) <=>
                 acc.key = derive_settings_pda /\ load_admin_settings(w)
    <2>1. CASE acc.key = derive_settings_pda /\ settings # NULL
      <3>1. acc = SettingsInfo
        BY <2>1, KnownAt
      <3>2. acc.owner = PROGRAM /\ acc.data = [tag |-> TAG_SETTINGS, admin |-> settings.admin]
        BY <3>1, InfoFields DEF SettingsInfo
      <3>3. has_tag(acc, TAG_SETTINGS) /\ acc.data.admin = settings.admin
        BY <3>2 DEF has_tag
      <3> QED
        BY <2>1, <3>2, <3>3 DEF load_admin_settings_account, load_settings_account, assert_pda,
           assert_owned_by, load_admin_settings
    <2>2. CASE acc.key = derive_settings_pda /\ settings = NULL
      <3>1. acc.owner # PROGRAM
        BY <2>2, KnownAt, Uninitialized
      <3> QED
        BY <2>2, <3>1 DEF load_admin_settings_account, load_settings_account, assert_owned_by,
           load_admin_settings
    <2> QED
      BY <2>1, <2>2 DEF load_admin_settings_account, load_settings_account, assert_pda
  <1>4. ASSUME NEW w \in Wallets
        PROVE  assert_upgrade_authority(acc, w) <=> acc = ProgramData /\ w = UpgradeAuthority
    <2>1. /\ ProgramData.key = programdata_pda /\ ProgramData.owner = LOADER
          /\ ProgramData.data.upgrade_authority = UpgradeAuthority
      BY InfoFields DEF ProgramData
    <2>2. ASSUME acc \in Stored PROVE acc.key # programdata_pda
      <3>1. acc.key \in Addr
        BY <2>2, StoredTags, KeysApart
      <3> QED
        BY <3>1, ForeignAssumption
    <2>3. ASSUME acc \in Unused PROVE acc.key # programdata_pda
      BY <2>3, InfoFields, ForeignAssumption DEF Unused
    <2>4. acc.key = programdata_pda <=> acc = ProgramData
      BY <2>1, <2>2, <2>3 DEF Known
    <2> QED
      BY <2>1, <2>4 DEF assert_upgrade_authority, assert_pda, assert_owned_by
  <1>5. ASSUME NEW w \in Wallets
        PROVE  closed_account(acc, w) <=>
                 \E c \in ContentIds : /\ acc.key = derive_content_pda(c[1], c[2], c[3])
                                       /\ load_own_content(w, c)
    BY ContentLoaded DEF closed_account, load_own_content
  <1>6. ASSUME NEW w \in Wallets
        PROVE  left_registry_account(acc, w) <=>
                 acc.key = derive_follow_registry_pda(w) /\ registry[w] # NULL
    <2>1. registry_account(acc, w) <=> acc.key = derive_follow_registry_pda(w)
      BY AbsentStep DEF AbsentExact
    <2>2. ASSUME acc.key = derive_follow_registry_pda(w)
          PROVE  acc.owner = PROGRAM <=> registry[w] # NULL
      BY <2>2, KnownAt, InfoOwner, Uninitialized
    <2> QED
      BY <2>1, <2>2 DEF left_registry_account, assert_owned_by
  <1>7. ASSUME NEW w \in Wallets, NEW t \in Threads
        PROVE  /\ appended_account(acc, t, w) <=>
                    \E c \in ContentIds : /\ c[1] = t
                                          /\ acc.key = derive_content_pda(c[1], c[2], c[3])
                                          /\ load_own_content(w, c)
               /\ closed_entry_account(acc, t, w) <=>
                    acc.key = derive_access_entry_pda(t, w) /\ entry[t][w] # NULL
    <2>1. appended_account(acc, t, w) <=>
            \E c \in ContentIds : /\ c[1] = t
                                  /\ acc.key = derive_content_pda(c[1], c[2], c[3])
                                  /\ load_own_content(w, c)
      BY ContentLoaded DEF appended_account, load_own_content
    <2>2. entry_account(acc, t, w) <=> acc.key = derive_access_entry_pda(t, w)
      BY AbsentStep DEF AbsentExact
    <2>3. ASSUME acc.key = derive_access_entry_pda(t, w)
          PROVE  ~is_uninitialized(acc) <=> entry[t][w] # NULL
      BY <2>3, KnownAt, InfoOwner, Uninitialized
    <2> QED
      BY <2>1, <2>2, <2>3 DEF closed_entry_account
  <1>8. ASSUME NEW p \in Pages
        PROVE  reset_likes_account(acc, p[1], p[2]) <=>
                 acc.key = derive_likes_pda(p[1], p[2]) /\ likes[p] # NULL
    <2>1. likes_account(acc, p[1], p[2]) <=> acc.key = derive_likes_pda(p[1], p[2])
      BY AbsentStep DEF AbsentExact
    <2>2. ASSUME acc.key = derive_likes_pda(p[1], p[2]), likes[p] # NULL
          PROVE  ~is_uninitialized(acc) /\ acc.data.alloc_seq = p[2]
      <3>1. acc = LikesInfo(p)
        BY <2>2, KnownAt
      <3>2. acc.owner = PROGRAM /\ acc.data = [tag |-> TAG_LIKES, alloc_seq |-> p[2]]
        BY <3>1, InfoFields DEF LikesInfo
      <3> QED
        BY <3>2, Uninitialized
    <2>3. ASSUME acc.key = derive_likes_pda(p[1], p[2]), likes[p] = NULL
          PROVE  is_uninitialized(acc)
      BY <2>3, KnownAt, Uninitialized
    <2> QED
      BY <2>1, <2>2, <2>3 DEF reset_likes_account
  <1>9. ASSUME NEW s \in FollowerShards
        PROVE  left_follower_shard_account(acc, s[1], s[2]) <=>
                 acc.key = derive_follower_shard_pda(s[1], s[2]) /\ follower_shard[s] # NULL
    <2>1. follower_shard_account(acc, s[1], s[2]) <=>
            acc.key = derive_follower_shard_pda(s[1], s[2])
      BY AbsentStep DEF AbsentExact
    <2>2. ASSUME acc.key = derive_follower_shard_pda(s[1], s[2])
          PROVE  ~is_uninitialized(acc) <=> follower_shard[s] # NULL
      BY <2>2, KnownAt, InfoOwner, Uninitialized
    <2> QED
      BY <2>1, <2>2 DEF left_follower_shard_account
  <1>10. ASSUME NEW c \in ContentIds
         PROVE  liked_account(acc, c[1], c[2], c[3]) <=>
                  acc.key = derive_content_pda(c[1], c[2], c[3]) /\ content[c] # NULL
    <2>1. ASSUME liked_account(acc, c[1], c[2], c[3])
          PROVE  acc.key = derive_content_pda(c[1], c[2], c[3]) /\ content[c] # NULL
      <3>1. load_content_account(acc) /\ acc.key = derive_content_pda(c[1], c[2], c[3])
        BY <2>1 DEF liked_account, assert_pda
      <3>2. PICK d \in ContentIds : acc.key = derive_content_pda(d[1], d[2], d[3])
                                    /\ content[d] # NULL
        BY <3>1, ContentLoaded
      <3>3. d = c
        BY <3>1, <3>2, SeedsDetermine
      <3> QED
        BY <3>1, <3>2, <3>3
    <2> QED
      BY <2>1, ContentLoaded DEF liked_account, assert_pda
  <1>11. ASSUME NEW k \in TreasuryIdx
         PROVE  swept_treasury_account(acc, k) <=>
                  acc.key = derive_treasury_shard_pda(k) /\ acc.key \in shards
    <2>1. acc.key \in shards => acc.key \in FeeShards
      BY DEF TypeOK
    <2>2. validate_treasury_shard_account(acc, k) <=>
            acc.key = derive_treasury_shard_pda(k) /\ acc.key \in FeeShards
      BY IndexValid DEF validate_treasury_shard_account, assert_pda
    <2> QED
      BY <2>1, <2>2, ShardLoaded DEF swept_treasury_account
  <1>12. ASSUME NEW t \in Threads, NEW k \in AuthorIdx
         PROVE  swept_author_account(acc, t, k) <=>
                  acc.key = derive_author_fee_pda(t, k) /\ acc.key \in shards
    <2>1. acc.key \in shards => acc.key \in FeeShards
      BY DEF TypeOK
    <2>2. validate_author_fee_shard_account(acc, t, k) <=>
            acc.key = derive_author_fee_pda(t, k) /\ acc.key \in FeeShards
      BY IndexValid DEF validate_author_fee_shard_account, assert_pda
    <2> QED
      BY <2>1, <2>2, ShardLoaded DEF swept_author_account
  <1> QED
    BY <1>1, <1>2, <1>3, <1>4, <1>5, <1>6, <1>7, <1>8, <1>9, <1>10, <1>11, <1>12,
       AccessLoaded, PageLoaded

\* Of all the program's accounts a caller could pass, each check accepts exactly
\* the one the component modules speak of (ExistingExact of the checks run):
\* owner and tag suffice where no address is derived, since no two of the
\* program's account types share a tag and each sits at its own address.
THEOREM ExistingCorrect == Spec => []ExistingExact
  BY TypeCorrect, ExistingStep, PTL
=============================================================================
