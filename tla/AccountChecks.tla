--------------------------- MODULE AccountChecks ----------------------------
(***************************************************************************)
(* The accounts a caller passes, and the checks an instruction runs on     *)
(* them: src/state/asserts.rs, the loaders of src/state/loaders.rs and     *)
(* src/content/mod.rs, and the checks of the handlers themselves.          *)
(*                                                                         *)
(* The component modules speak of thread[t] or content[id] directly.  The  *)
(* handlers do not: they get AccountInfos in an order the caller chooses   *)
(* and must find out from key, owner and bytes what each one is.  Here the *)
(* accounts of the state are seen as the AccountInfos they are on the      *)
(* chain, next to those of other programs, which may hold any bytes.       *)
(***************************************************************************)
EXTENDS Txtcel

CONSTANTS Foreign,       \* keys of accounts that are not the program's
          ForgedInputs   \* bytes such an account may hold

\* The owner of an account.
PROGRAM == "program_id"
SYSTEM  == "system_program"
LOADER  == "bpf_loader_upgradeable"
ANOTHER == "other_program"

TAG_CONTENT         == 1
TAG_ALLOC           == 2
TAG_THREAD          == 3
TAG_SETTINGS        == 5
TAG_ACCESS          == 6
TAG_LIKES           == 7
TAG_ACCESS_ENTRY    == 9
TAG_FOLLOW_REGISTRY == 10
TAG_FOLLOWER_SHARD  == 11
TAG_PROGRAMDATA     == 3     \* external: the loader's tag of ProgramData

programdata_pda == <<"programdata">>

\* External: the address of ProgramData is a PDA of the loader, hence neither a
\* key that signs nor a PDA of the program; nobody else's account is at one of
\* these addresses.
ASSUME ForeignAssumption ==
    /\ programdata_pda \notin Addr
    /\ Foreign \cap (Addr \cup {programdata_pda}) = {}

\* An AccountInfo; data is <<>> for an account without bytes.
Info(key, owner, data) == [key |-> key, owner |-> owner, data |-> data]

-----------------------------------------------------------------------------
(* The accounts there are. *)

\* The accounts of the program by type, with the fields the checks look at.
SettingsInfo ==
    Info(derive_settings_pda, PROGRAM, [tag |-> TAG_SETTINGS, admin |-> settings.admin])
ThreadInfo(t) == Info(t, PROGRAM, [tag |-> TAG_THREAD, author |-> thread[t].author])
AllocInfo(p) ==
    Info(derive_alloc_pda(p[1], p[2]), PROGRAM,
         [tag |-> TAG_ALLOC, thread |-> p[1], alloc_seq |-> p[2]])
ContentInfo(c) ==
    Info(derive_content_pda(c[1], c[2], c[3]), PROGRAM,
         [tag |-> TAG_CONTENT, thread |-> c[1], alloc_seq |-> c[2], slot |-> c[3],
          author |-> content[c].author])
LikesInfo(p) ==
    Info(derive_likes_pda(p[1], p[2]), PROGRAM, [tag |-> TAG_LIKES, alloc_seq |-> p[2]])
AccessInfo(t) ==
    Info(derive_access_pda(t), PROGRAM,
         [tag |-> TAG_ACCESS, thread |-> t, admin |-> access[t].admin])
EntryInfo(t, w) ==
    Info(derive_access_entry_pda(t, w), PROGRAM,
         [tag |-> TAG_ACCESS_ENTRY, thread |-> t, wallet |-> w])
RegistryInfo(w) ==
    Info(derive_follow_registry_pda(w), PROGRAM, [tag |-> TAG_FOLLOW_REGISTRY, owner |-> w])
FollowerInfo(s) ==
    Info(derive_follower_shard_pda(s[1], s[2]), PROGRAM,
         [tag |-> TAG_FOLLOWER_SHARD, thread |-> s[1], shard |-> s[2]])
ShardInfo(s) == Info(s, PROGRAM, <<>>)

\* The accounts the program owns.
Stored ==
    (IF settings = NULL THEN {} ELSE {SettingsInfo})
    \cup {ThreadInfo(t) : t \in {x \in Threads : thread[x] # NULL}}
    \cup {AllocInfo(p) : p \in alloc}
    \cup {ContentInfo(c) : c \in {x \in ContentIds : content[x] # NULL}}
    \cup {LikesInfo(p) : p \in {x \in Pages : likes[x] # NULL}}
    \cup {AccessInfo(t) : t \in {x \in Threads : access[x] # NULL}}
    \cup {EntryInfo(e[1], e[2]) :
            e \in {x \in Threads \X Wallets : entry[x[1]][x[2]] # NULL}}
    \cup {RegistryInfo(w) : w \in {x \in Wallets : registry[x] # NULL}}
    \cup {FollowerInfo(s) : s \in {x \in FollowerShards : follower_shard[x] # NULL}}
    \cup {ShardInfo(s) : s \in shards}

\* The other addresses of the model: no owner but the System Program and no
\* bytes, whether or not they hold lamports.
Unused ==
    {Info(a, SYSTEM, <<>>) : a \in Addr \ {s.key : s \in Stored}}

\* External: the loader's account of the program.
ProgramData ==
    Info(programdata_pda, LOADER,
         [tag |-> TAG_PROGRAMDATA, upgrade_authority |-> UpgradeAuthority])

\* External: accounts somebody else filled, also with a copy of the program's.
ForeignInfos ==
    {Info(f, o, d) : f \in Foreign, o \in {SYSTEM, LOADER, ANOTHER},
                     d \in ForgedInputs \cup {s.data : s \in Stored} \cup {ProgramData.data}}

-----------------------------------------------------------------------------
(* asserts.rs *)

\* Mutant: an address that holds lamports does not count as uninitialized.
is_uninitialized_unfunded(acc) ==
    acc.owner = SYSTEM /\ acc.data = <<>> /\ (acc.key \in Addr => lamports[acc.key] = 0)

\* assert_uninitialized is the same condition.
is_uninitialized(acc) == acc.owner = SYSTEM /\ acc.data = <<>>

\* Mutant: the owner is not looked at.
assert_owned_by_any(acc, owner) == TRUE

assert_owned_by(acc, owner) == acc.owner = owner

\* Mutant: any account that belongs to somebody's seeds will do.
assert_pda_any(acc, expected) == TRUE

assert_pda(acc, expected) == acc.key = expected

\* Deserializing, and the comparison of the leading byte (read_tag).
has_tag(acc, tag) == acc.data # <<>> /\ acc.data.tag = tag

\* The authority is read out of the bytes only once the loader is known to
\* have written them.
assert_upgrade_authority(acc, authority) ==
    /\ assert_pda(acc, programdata_pda)
    /\ assert_owned_by(acc, LOADER)
    /\ acc.data.upgrade_authority = authority

-----------------------------------------------------------------------------
(* loaders.rs and content/mod.rs *)

load_thread_access(acc)   == has_tag(acc, TAG_ACCESS)
load_access_entry(acc)    == has_tag(acc, TAG_ACCESS_ENTRY)
load_alloc_likes(acc)     == has_tag(acc, TAG_LIKES)
load_follow_registry(acc) == has_tag(acc, TAG_FOLLOW_REGISTRY)
load_follower_shard(acc)  == has_tag(acc, TAG_FOLLOWER_SHARD)

load_bound_access_entry(acc, t, w) ==
    /\ assert_owned_by(acc, PROGRAM)
    /\ load_access_entry(acc)
    /\ acc.data.thread = t /\ acc.data.wallet = w

load_bound_follower_shard(acc, t, k) ==
    /\ assert_owned_by(acc, PROGRAM)
    /\ load_follower_shard(acc)
    /\ acc.data.thread = t /\ acc.data.shard = k

\* A thread is whatever program-owned account has the tag: its key is its
\* identity, and no address is derived for it.
load_thread_account(acc) == assert_owned_by(acc, PROGRAM) /\ has_tag(acc, TAG_THREAD)

load_author_thread_account(acc, authority) ==
    load_thread_account(acc) /\ acc.data.author = authority

load_alloc_account(acc) ==
    /\ assert_owned_by(acc, PROGRAM)
    /\ has_tag(acc, TAG_ALLOC)
    /\ assert_pda(acc, derive_alloc_pda(acc.data.thread, acc.data.alloc_seq))

load_content_account(acc) ==
    /\ assert_owned_by(acc, PROGRAM)
    /\ has_tag(acc, TAG_CONTENT)
    /\ assert_pda(acc, derive_content_pda(acc.data.thread, acc.data.alloc_seq, acc.data.slot))

load_admin_access_account(acc, authority) ==
    /\ assert_owned_by(acc, PROGRAM)
    /\ load_thread_access(acc)
    /\ acc.data.admin = authority
    /\ assert_pda(acc, derive_access_pda(acc.data.thread))

load_settings_account(acc) ==
    /\ assert_pda(acc, derive_settings_pda)
    /\ assert_owned_by(acc, PROGRAM)
    /\ has_tag(acc, TAG_SETTINGS)

load_admin_settings_account(acc, authority) ==
    load_settings_account(acc) /\ acc.data.admin = authority
-----------------------------------------------------------------------------
(* What the handlers themselves ask of the accounts they are passed. *)

\* An account that must not exist yet at the address its seeds give: the
\* settings, a page, the access account of a channel, the slot fill_slot takes,
\* the entry request_access creates.
created_at_pda(acc, expected) == assert_pda(acc, expected) /\ is_uninitialized(acc)

\* The thread key signs and has no seeds.
created_thread(acc) == is_uninitialized(acc)

validate_treasury_shard_account(acc, k) ==
    validate_treasury_shard(k) /\ assert_pda(acc, derive_treasury_shard_pda(k))

validate_author_fee_shard_account(acc, t, k) ==
    validate_author_fee_shard(k) /\ assert_pda(acc, derive_author_fee_pda(t, k))

\* The accounts that are read if they exist and taken for absent, or created,
\* if they do not.
access_account(acc, t) ==
    /\ assert_pda(acc, derive_access_pda(t))
    /\ ~is_uninitialized(acc) => /\ assert_owned_by(acc, PROGRAM)
                                 /\ load_thread_access(acc)
                                 /\ acc.data.thread = t

entry_account(acc, t, w) ==
    /\ assert_pda(acc, derive_access_entry_pda(t, w))
    /\ ~is_uninitialized(acc) => load_bound_access_entry(acc, t, w)

likes_account(acc, t, seq) ==
    /\ assert_pda(acc, derive_likes_pda(t, seq))
    /\ ~is_uninitialized(acc) => assert_owned_by(acc, PROGRAM) /\ load_alloc_likes(acc)

registry_account(acc, w) ==
    /\ assert_pda(acc, derive_follow_registry_pda(w))
    /\ ~is_uninitialized(acc) => /\ assert_owned_by(acc, PROGRAM)
                                 /\ load_follow_registry(acc)
                                 /\ acc.data.owner = w

follower_shard_account(acc, t, k) ==
    /\ assert_pda(acc, derive_follower_shard_pda(t, k))
    /\ ~is_uninitialized(acc) => load_bound_follower_shard(acc, t, k)

\* The accounts that must exist.
page_account(acc, t, seq) ==
    load_alloc_account(acc) /\ acc.data.thread = t /\ acc.data.alloc_seq = seq

liked_account(acc, t, seq, slot) ==
    load_content_account(acc) /\ assert_pda(acc, derive_content_pda(t, seq, slot))

appended_account(acc, t, w) ==
    load_content_account(acc) /\ acc.data.thread = t /\ acc.data.author = w

\* Closing dispatches on the tag: of all account types only content closes.
closed_account(acc, w) ==
    /\ assert_owned_by(acc, PROGRAM)
    /\ has_tag(acc, TAG_CONTENT)
    /\ load_content_account(acc)
    /\ acc.data.author = w

\* The likes account close_account resets; the others of this kind are the
\* access account of request_access, the entry that is closed, and the
\* registry and follower shard of unsubscribe.
reset_likes_account(acc, t, seq) ==
    /\ likes_account(acc, t, seq)
    /\ ~is_uninitialized(acc)
    /\ acc.data.alloc_seq = seq

requested_access_account(acc, t) == assert_owned_by(acc, PROGRAM) /\ access_account(acc, t)

closed_entry_account(acc, t, w) == entry_account(acc, t, w) /\ ~is_uninitialized(acc)

left_registry_account(acc, w) == assert_owned_by(acc, PROGRAM) /\ registry_account(acc, w)

left_follower_shard_account(acc, t, k) ==
    follower_shard_account(acc, t, k) /\ ~is_uninitialized(acc)

\* A shard the sweeps empty, once those that do not exist are skipped.
swept_treasury_account(acc, k) ==
    /\ ~is_uninitialized(acc)
    /\ assert_owned_by(acc, PROGRAM)
    /\ validate_treasury_shard_account(acc, k)

swept_author_account(acc, t, k) ==
    /\ ~is_uninitialized(acc)
    /\ assert_owned_by(acc, PROGRAM)
    /\ validate_author_fee_shard_account(acc, t, k)

-----------------------------------------------------------------------------
(* Properties. *)

\* No check of any instruction takes an account of another program for one of
\* its own, whatever bytes that account holds, an exact copy of a live account
\* included.  A channel is the hard case: load_thread derives no address, so
\* the owner is all that tells a channel from a copy naming another author.
ForeignRefused ==
    \A acc \in ForeignInfos :
        /\ ~load_thread_account(acc)
        /\ ~load_settings_account(acc)
        /\ ~load_alloc_account(acc)
        /\ ~load_content_account(acc)
        /\ \A w \in Wallets : /\ ~assert_upgrade_authority(acc, w)
                              /\ ~load_admin_access_account(acc, w)
                              /\ ~registry_account(acc, w)
        /\ \A t \in Threads : /\ ~access_account(acc, t)
                              /\ \A w \in Wallets : ~entry_account(acc, t, w)
        /\ \A p \in Pages : ~likes_account(acc, p[1], p[2])
        /\ \A s \in FollowerShards : ~follower_shard_account(acc, s[1], s[2])
        /\ \A k \in TreasuryIdx : ~validate_treasury_shard_account(acc, k)
        /\ \A t \in Threads, k \in AuthorIdx : ~validate_author_fee_shard_account(acc, t, k)

Known == Stored \cup Unused \cup {ProgramData}

\* Of all the accounts a caller could pass in their place, the checks for
\* accounts that must exist accept exactly those the component modules speak
\* of: an author's own channel, the admin's own settings and access account,
\* the page, message and shard asked for, and none with the right type but of
\* another channel, wallet or slot.
ExistingExact ==
    \A acc \in Known :
        /\ load_thread_account(acc) <=> \E t \in Threads : acc.key = t /\ load_thread(t)
        /\ \A w \in Wallets :
            /\ load_author_thread_account(acc, w) <=>
                 \E t \in Threads : acc.key = t /\ load_author_thread(w, t)
            /\ load_admin_access_account(acc, w) <=>
                 \E t \in Threads : acc.key = derive_access_pda(t) /\ load_admin_access(w, t)
            /\ load_admin_settings_account(acc, w) <=>
                 acc.key = derive_settings_pda /\ load_admin_settings(w)
            /\ assert_upgrade_authority(acc, w) <=>
                 acc = ProgramData /\ w = UpgradeAuthority
            /\ closed_account(acc, w) <=>
                 \E c \in ContentIds : /\ acc.key = derive_content_pda(c[1], c[2], c[3])
                                       /\ load_own_content(w, c)
            /\ left_registry_account(acc, w) <=>
                 acc.key = derive_follow_registry_pda(w) /\ registry[w] # NULL
            /\ \A t \in Threads :
                /\ appended_account(acc, t, w) <=>
                     \E c \in ContentIds : /\ c[1] = t
                                           /\ acc.key = derive_content_pda(c[1], c[2], c[3])
                                           /\ load_own_content(w, c)
                /\ closed_entry_account(acc, t, w) <=>
                     acc.key = derive_access_entry_pda(t, w) /\ entry[t][w] # NULL
        /\ \A t \in Threads : requested_access_account(acc, t) <=>
                 acc.key = derive_access_pda(t) /\ access[t] # NULL
        /\ \A p \in Pages :
            /\ page_account(acc, p[1], p[2]) <=>
                 acc.key = derive_alloc_pda(p[1], p[2]) /\ p \in alloc
            /\ reset_likes_account(acc, p[1], p[2]) <=>
                 acc.key = derive_likes_pda(p[1], p[2]) /\ likes[p] # NULL
        /\ \A s \in FollowerShards : left_follower_shard_account(acc, s[1], s[2]) <=>
                 acc.key = derive_follower_shard_pda(s[1], s[2]) /\ follower_shard[s] # NULL
        /\ \A c \in ContentIds : liked_account(acc, c[1], c[2], c[3]) <=>
                 acc.key = derive_content_pda(c[1], c[2], c[3]) /\ content[c] # NULL
        /\ \A k \in TreasuryIdx : swept_treasury_account(acc, k) <=>
                 acc.key = derive_treasury_shard_pda(k) /\ acc.key \in shards
        /\ \A t \in Threads, k \in AuthorIdx : swept_author_account(acc, t, k) <=>
                 acc.key = derive_author_fee_pda(t, k) /\ acc.key \in shards

\* The checks for accounts that an instruction creates, or treats as absent,
\* take an address for unused exactly when the program has nothing there, even
\* if somebody sent lamports to it before: a funded address blocks no
\* instruction, and no live account is ever created over or read as absent.
AbsentExact ==
    \A acc \in Known :
        /\ created_at_pda(acc, derive_settings_pda) <=>
             acc.key = derive_settings_pda /\ settings = NULL
        /\ \A t \in Threads :
            /\ acc.key = t => (created_thread(acc) <=> thread[t] = NULL)
            /\ created_at_pda(acc, derive_access_pda(t)) <=>
                 acc.key = derive_access_pda(t) /\ access[t] = NULL
            /\ access_account(acc, t) <=> acc.key = derive_access_pda(t)
            /\ \A w \in Wallets :
                /\ created_at_pda(acc, derive_access_entry_pda(t, w)) <=>
                     acc.key = derive_access_entry_pda(t, w) /\ entry[t][w] = NULL
                /\ entry_account(acc, t, w) <=> acc.key = derive_access_entry_pda(t, w)
        /\ \A p \in Pages :
            /\ created_at_pda(acc, derive_alloc_pda(p[1], p[2])) <=>
                 acc.key = derive_alloc_pda(p[1], p[2]) /\ p \notin alloc
            /\ likes_account(acc, p[1], p[2]) <=> acc.key = derive_likes_pda(p[1], p[2])
        /\ \A c \in ContentIds :
             created_at_pda(acc, derive_content_pda(c[1], c[2], c[3])) <=>
                 acc.key = derive_content_pda(c[1], c[2], c[3]) /\ content[c] = NULL
        /\ \A w \in Wallets :
             registry_account(acc, w) <=> acc.key = derive_follow_registry_pda(w)
        /\ \A s \in FollowerShards :
             follower_shard_account(acc, s[1], s[2]) <=>
                 acc.key = derive_follower_shard_pda(s[1], s[2])
=============================================================================
