------------------------------ MODULE Accounts ------------------------------
(***************************************************************************)
(* The accounts of the program: their addresses (src/state/pda.rs), their  *)
(* layout and size (src/state/accounts.rs, src/content/mod.rs), the        *)
(* loaders and asserts that guard every instruction (src/state/loaders.rs, *)
(* src/state/asserts.rs) and the state they hold together.                 *)
(*                                                                         *)
(* An address is a wallet, a thread key or the tuple of seeds of a PDA, so *)
(* two PDAs are the same account exactly when their seeds are the same.    *)
(* An account that does not exist (system-owned, no data) is NULL; it may  *)
(* hold lamports nevertheless, since anybody can send them to any address. *)
(***************************************************************************)
EXTENDS Ledger, Sequences, FiniteSets, Functions

CONSTANTS
    NULL,                 \* the content of an uninitialized account
    Wallets,              \* the keys that sign instructions
    Threads,              \* the keys a channel can be created under
    Bytes,                \* the bytes of a message body
    Genesis,              \* Genesis[w]: the lamports wallet w starts with
    UpgradeAuthority,     \* the program's upgrade authority
    FirstByte,            \* FirstByte[w]: first byte of the key of w
    U32Max,               \* the largest u32
    CONTENT_SLOTS, MAX_BODY_LEN, MAX_TITLE_LEN, APPEND_WINDOW_SECS,
    N_TREASURY_SHARDS, N_AUTHOR_FEE_SHARDS, N_FOLLOWER_SHARDS,
    MAX_FOLLOWS, MAX_FEE_CUT_BPS, DEFAULT_BPS

ASSUME AccountsAssumption ==
    /\ Wallets \cap Threads = {}
    /\ IsFiniteSet(Wallets)
    /\ IsFiniteSet(Threads)
    /\ Genesis \in [Wallets -> 0..U64Max]
    /\ UpgradeAuthority \in Wallets
    /\ FirstByte \in [Wallets -> 0..255]
    /\ U32Max \in Nat \ {0}
    \* Every key could be on one whitelist without overflowing its counter.
    /\ Cardinality(Wallets) <= U32Max
    /\ CONTENT_SLOTS \in Nat \ {0}
    /\ {MAX_BODY_LEN, MAX_TITLE_LEN, APPEND_WINDOW_SECS, MAX_FOLLOWS} \subseteq Nat
    /\ {N_TREASURY_SHARDS, N_AUTHOR_FEE_SHARDS, N_FOLLOWER_SHARDS} \subseteq Nat \ {0}
    /\ MAX_FEE_CUT_BPS \in 0..BpsDenominator
    /\ DEFAULT_BPS \in 0..MAX_FEE_CUT_BPS

\* External: the runtime keeps the supply of all lamports in a u64.
ASSUME SupplyAssumption == SumFunction(Genesis) <= U64Max

VARIABLES
    lamports,        \* balance of every address
    settings,        \* ProgramSettings, or NULL
    thread,          \* thread[t]: ThreadNode of channel t, or NULL
    alloc,           \* the <<t, seq>> whose AllocNode exists
    content,         \* content[<<t, seq, slot>>]: ContentNode, or NULL
    likes,           \* likes[<<t, seq>>]: AllocLikes.counts, or NULL
    access,          \* access[t]: ThreadAccess, or NULL
    entry,           \* entry[t][w]: status of the AccessEntry, or NULL
    shards,          \* the fee shards that are program-owned
    registry,        \* registry[w]: channels of the FollowRegistry, or NULL
    follower_shard,  \* follower_shard[<<t, k>>]: count of the FollowerShard, or NULL
    now              \* the clock sysvar

boardVars  == <<thread, alloc, content, likes>>
accessVars == <<access, entry>>
followVars == <<registry, follower_shard>>
vars == <<lamports, settings, boardVars, accessVars, shards, followVars, now>>

-----------------------------------------------------------------------------
(* pda.rs, content/mod.rs: one address per tuple of seeds. *)

derive_settings_pda              == <<"settings">>
derive_alloc_pda(t, seq)         == <<"alloc", t, seq>>
derive_content_pda(t, seq, slot) == <<"content", t, seq, slot>>
derive_access_pda(t)             == <<"access", t>>
derive_access_entry_pda(t, w)    == <<"acl", t, w>>
derive_likes_pda(t, seq)         == <<"likes", t, seq>>
derive_treasury_shard_pda(k)     == <<"treasury_shard", k>>
derive_author_fee_pda(t, k)      == <<"author_fee", t, k>>
derive_follow_registry_pda(w)    == <<"follows", w>>
derive_follower_shard_pda(t, k)  == <<"follower_count", t, k>>

follower_shard_index(w) == FirstByte[w] % N_FOLLOWER_SHARDS

AllocSeqs       == 0..U32Max
Slots           == 0..(CONTENT_SLOTS - 1)
Pages           == Threads \X AllocSeqs
ContentIds      == Threads \X AllocSeqs \X Slots
FollowerShards  == Threads \X (0..(N_FOLLOWER_SHARDS - 1))
TreasuryShards  == {derive_treasury_shard_pda(k) : k \in 0..(N_TREASURY_SHARDS - 1)}
AuthorShards(t) == {derive_author_fee_pda(t, k) : k \in 0..(N_AUTHOR_FEE_SHARDS - 1)}
FeeShards       == TreasuryShards \cup UNION {AuthorShards(t) : t \in Threads}

\* The addresses derived from seeds.
Pdas == FeeShards \cup {derive_settings_pda}
        \cup {derive_alloc_pda(p[1], p[2]) : p \in Pages}
        \cup {derive_content_pda(c[1], c[2], c[3]) : c \in ContentIds}
        \cup {derive_likes_pda(p[1], p[2]) : p \in Pages}
        \cup {derive_access_pda(t) : t \in Threads}
        \cup {derive_access_entry_pda(t, w) : t \in Threads, w \in Wallets}
        \cup {derive_follow_registry_pda(w) : w \in Wallets}
        \cup {derive_follower_shard_pda(s[1], s[2]) : s \in FollowerShards}

Addr == Wallets \cup Threads \cup Pdas

\* External: a PDA lies off the curve, so no key that signs is one; wallets and
\* thread keys sign.
ASSUME KeyAssumption == (Wallets \cup Threads) \cap Pdas = {}

-----------------------------------------------------------------------------
(* accounts.rs, content/mod.rs: serialized sizes. *)

AllocNode_size           == 37
ThreadNode_size(title)   == 61 + title
ProgramSettings_size     == 81
ThreadAccess_size        == 78
AccessEntry_size         == 66
AllocLikes_size          == 5 + 4 * CONTENT_SLOTS
FollowRegistry_size(n)   == 37 + 32 * n
FollowerShard_size       == 42
ContentNode_size(body)   == 89 + body

ACCESS_ALLOWED    == 0
ACCESS_DENIED     == 1
ACCESS_FEE_EXEMPT == 2
Statuses == {ACCESS_ALLOWED, ACCESS_DENIED, ACCESS_FEE_EXEMPT}

u32 == 0..U32Max
u64 == 0..U64Max
Bodies == UNION {[1..n -> Bytes] : n \in 0..MAX_BODY_LEN}
Bps == 0..MAX_FEE_CUT_BPS

ProgramSettings == [admin: Wallets, treasury: Addr, base_fee_bps: Bps,
                    author_fee_cut_bps: Bps, entry_cut_bps: Bps, like_cut_bps: Bps]
ThreadNode      == [alloc_count: u32, last_alloc_seq: u32, author: Wallets,
                    message_fee: u64, like_fee: u64, title_len: 0..MAX_TITLE_LEN]
ContentNode     == [author: Wallets, created_at: Nat, body: Bodies]
ThreadAccess    == [enabled: BOOLEAN, admin: Wallets, entry_fee: u64,
                    whitelist_count: u32]

\* The model of an account that does not exist is no account and no address.
ASSUME NullAssumption ==
    NULL \notin Wallets \cup Threads \cup Pdas \cup Int \cup ProgramSettings \cup ThreadNode
             \cup ContentNode \cup ThreadAccess \cup [Slots -> u32] \cup Seq(Threads)

\* Every account holds a value of its layout.
TypeOK ==
    /\ lamports \in [Addr -> u64]
    /\ settings \in ProgramSettings \cup {NULL}
    /\ thread \in [Threads -> ThreadNode \cup {NULL}]
    /\ alloc \subseteq Pages
    /\ content \in [ContentIds -> ContentNode \cup {NULL}]
    /\ likes \in [Pages -> [Slots -> u32] \cup {NULL}]
    /\ access \in [Threads -> ThreadAccess \cup {NULL}]
    /\ entry \in [Threads -> [Wallets -> Statuses \cup {NULL}]]
    /\ shards \subseteq FeeShards
    /\ registry \in [Wallets -> Seq(Threads) \cup {NULL}]
    /\ follower_shard \in [FollowerShards -> u64 \cup {NULL}]
    /\ now \in Nat

\* Nothing of the program exists yet; the wallets hold their lamports.
Init ==
    /\ lamports = [a \in Addr |-> IF a \in Wallets THEN Genesis[a] ELSE 0]
    /\ settings = NULL
    /\ thread = [t \in Threads |-> NULL]
    /\ alloc = {}
    /\ content = [c \in ContentIds |-> NULL]
    /\ likes = [p \in Pages |-> NULL]
    /\ access = [t \in Threads |-> NULL]
    /\ entry = [t \in Threads |-> [w \in Wallets |-> NULL]]
    /\ shards = {}
    /\ registry = [w \in Wallets |-> NULL]
    /\ follower_shard = [s \in FollowerShards |-> NULL]
    /\ now = 0

-----------------------------------------------------------------------------
(***************************************************************************)
(* External: how the runtime ends an instruction.  It is atomic (a failing *)
(* one leaves no trace, so it is no step of the model), a transfer never   *)
(* overdraws, u64 balances do not wrap, and an account the instruction     *)
(* touched ends empty or rent-exempt.  The floor used here is the one of   *)
(* an account without data, weaker than the runtime's for an account with  *)
(* data: that those stay rent-exempt is left for the program to show.      *)
(***************************************************************************)
Accepted(L) ==
    /\ L \in [Addr -> u64]
    /\ \A a \in Addr : L[a] \notin {lamports[a], 0} => L[a] >= minimum_balance(0)

Commit(L) == Accepted(L) /\ lamports' = L

-----------------------------------------------------------------------------
(* Loaders and shard helpers shared by the instructions. *)

load_admin_settings(authority) == settings # NULL /\ settings.admin = authority
load_thread(t)                 == thread[t] # NULL

\* Mutant: the author is not compared with the signer.
load_author_thread_open(authority, t) == load_thread(t)

load_author_thread(authority, t) == load_thread(t) /\ thread[t].author = authority

\* Mutant: whoever signs manages the lists.
load_admin_access_open(authority, t) == access[t] # NULL

load_admin_access(authority, t)  == access[t] # NULL /\ access[t].admin = authority

validate_treasury_shard(k)   == k < N_TREASURY_SHARDS
validate_author_fee_shard(k) == k < N_AUTHOR_FEE_SHARDS
validate_fee_shards(k, j)    == validate_treasury_shard(k) /\ validate_author_fee_shard(j)

\* A shard the program does not own yet is created before lamports reach it.
ensure_shard_initialized(L, payer, shard) ==
    IF shard \in shards THEN L ELSE create_pda_account(L, payer, shard, 0)

\* Mutant: the treasury shard is paid without being created.
shards_initialized_author_only(touched) == shards \cup (touched \ TreasuryShards)

\* The shards the program owns once ensure_shard_initialized ran on `touched`.
shards_initialized(touched) == shards \cup touched

ensure_fee_shards_initialized(L, payer, treasury_shard, author_fee_shard) ==
    ensure_shard_initialized(ensure_shard_initialized(L, payer, treasury_shard),
                             payer, author_fee_shard)
=============================================================================
