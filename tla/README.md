# Verification of txtcel_program

TLA+ models, TLC runs and TLAPS proofs for the on-chain Solana program in
`src/`. Every definition is translated from the Rust source; `PROJECT.json`
names, for each definition, the file and the lines it stands for.

## 1. The system

Txtcel is a forum kept in Solana accounts. Wallets submit instructions; the
program validates the accounts they pass, moves lamports and rewrites account
data. It has no process of its own: everything it does is one instruction, and
its only memory is the accounts.

### Inventory

| Component | Source (under `src/src/`) | State | Operations |
|---|---|---|---|
| Lamport arithmetic | `state/fees.rs`, `state/account_utils.rs` | balances | create, top up, close an account; fee split, base fee, shard top-up; sweep |
| Accounts and loaders | `state/{pda,accounts,loaders,asserts}.rs`, `content/mod.rs` | layouts and addresses of all accounts | derive, load, check |
| Settings and vaults | `processor/{init_settings,set_admin,set_treasury,set_platform_fees,sweep_treasury,sweep_author_fees}.rs` | `ProgramSettings`, treasury shards, author-fee shards | 9 instructions |
| Membership | `processor/{init_thread_access,set_thread_access,set_entry_fee,add_to_*,remove_from_*,request_access}.rs` | `ThreadAccess` (with a cached `whitelist_count`), `AccessEntry` | 10 instructions |
| Channels | `processor/{create_root_alloc,prepare_alloc,fill_slot,append_content,close_account,like_content,set_message_fee,set_like_fee}.rs` | `ThreadNode`, `AllocNode`, `ContentNode`, `AllocLikes` | 8 instructions |
| Follows | `processor/{subscribe,unsubscribe}.rs` | `FollowRegistry`, `FollowerShard` | 2 instructions |
| Dispatch | `lib.rs`, `instruction.rs` | none | decoding and dispatch |
| Message kinds | `content/{body,mod}.rs` | kind and body of a `ContentNode` | encode, validate, decode |
| Posting clients | not in the repository; `src/README.md:120-123, 214-221, 258-266` | a view of the chain | choose slots and post, extend the chain, try again |
| Error codes | `error.rs` | none | - |
| Test harness | `src/tests/` | none | - |

**Interaction.** Components share accounts and nothing else. Posting reads the
settings, the thread, the access lists and the shard index; every paid
instruction creates and fills fee shards, which the sweeps empty; `fill_slot`
trusts `last_alloc_seq`, which `prepare_alloc` maintains, and the whitelist
counter, which the list instructions maintain.

**What is hard.** Instructions of different wallets interleave freely, and one
executes in a state other than the one its signer saw (prices, lists, slots,
the tail of the chain, the treasury). Several values are caches that nothing
recomputes: `whitelist_count`, `alloc_count`, `last_alloc_seq`, the follower
shards. Counters saturate, are
clamped or checked, each in its own way. Several instructions write balances
directly instead of calling the System Program. Addresses can be funded before
the program creates the account. The caller chooses which accounts an instruction
gets, copies made by other programs included. Clients build posts from a view of
the chain that is stale when they execute, race for slots and for the next page,
and a transaction may be lost; they try again. Inside the program there are no
messages, retries or crashes: the runtime makes an instruction atomic.
`PROJECT.json` lists the hazards line by
line with the properties that would catch them, two of them without one, because
the program promises nothing there (section 5).

**What makes it correct.** Membership: the cached counter equals the lists, the
author alone decides who is on them unless a wallet on none pays the price in
full, and only members post to a gated channel. Channels: a dense chain of pages, a slot
never overwritten, messages only extended (in time) or deleted by their author.
Money: lamports conserved, accounts rent-exempt, vaults paying their owner only,
charges within the signed cap or, where there is none, exactly the price in
force; the author keeps the guaranteed share; no fee is locked in. Follows:
counters equal the registries. Checks: an account is accepted exactly if it is
the one the instruction means. Bodies: a reader decodes what was written or
nothing. Clients: everybody who keeps trying gets a message in.

## 2. Modules

| Module | Models |
|---|---|
| `Ledger` | each helper that moves lamports, as an operator from ledger to ledger |
| `Accounts` | addresses, sizes, layouts, the variables, `Init`, `TypeOK`, loaders, shard helpers |
| `Treasury`, `AccessControl`, `Channel`, `Follows` | one action per instruction of the component |
| `Txtcel` | the composition: all instructions in any order, the clock, plain transfers; all properties |
| `AccountChecks` | the owner, tag and address checks themselves, on every account a caller could pass |
| `ContentBodies` | kinds and typed bodies of one slot: posted, appended to, decoded (independent of the others) |
| `Posting` | clients with stale views and lost transactions around the unchanged `FillSlot` and `PrepareAlloc` |
| `MessageBoard` | abstract specification: what a channel promises its readers |
| `FeeVaults` | abstract specification: what the program promises those it collects fees for |
| `Claims` | sentences of the repository's documents that the code contradicts |
| `MCAccess`, `MCChannel`, `MCVault`, `MCPricing`, `MCFollows`, `MCEntry`, `MCChecks`, `MCBodies`, `MCPosting` | instances for TLC |
| `BaseProofs` | theorems and lemmas every proof about `Spec` starts from: types, the effect of each ledger helper and of the loop of the sweeps, which addresses differ |
| `MemberProofs` | theorems about access lists and followers |
| `ChannelProofs` | theorems about pages, messages and likes, and the refinement of `MessageBoard` |
| `RentProofs`, `FeeProofs` | theorems about balances: rent; prices, caps, shares and vaults, whose lamports move when a message or an access list changes, sums of balances, and the refinement of `FeeVaults` |
| `CheckProofs` | theorems about `AccountChecks` |
| `BodyProofs` | theorems about `ContentBodies` |
| `PostingProofs` | theorems about `Posting`, and that it is a use of `Txtcel` |

Correspondence with the code:

- An **address** is a wallet key, a thread key or the tuple of the seeds of a
  PDA. Passing a wrong account is then the same as naming another tuple, so
  owner, tag and PDA checks become the identity of the account, and
  a signer check is the identity of the acting wallet. That this loses nothing
  is what `AccountChecks` is for: it sees each account of the state as the
  `AccountInfo` (key, owner, bytes) it is on the chain, next to unused addresses
  and to accounts of other programs with arbitrary or copied bytes, translates the
  checks of each handler, and states that they accept exactly the account the
  action names.
- An **account** is a record (or a set member, or a sequence) and `NULL` while
  it does not exist. `lamports` is separate, since an address may hold lamports
  before its account exists.
- An **action** is one handler. Its transfers are a chain `L1, L2, ...` in the
  order of the handler's calls, ended by `Commit`. The checks are conjuncts; a
  handler that returns an error changes nothing and is no step.
- **`Commit`** is the runtime: all or nothing, no overdraft, no balance above
  `u64`, and no touched account left with a balance below the rent floor
  (`Accepted`, which `NoFeeLocked` uses to say that a sweep would go through). The
  floor used is that of an empty account, weaker than the real one for accounts
  with data, so `RentExempt` is a property of the program, not of `Commit`.
- **Widths**: `u32` and `u64` are `0..U32Max` and `0..U64Max`; checked,
  saturating, clamping and casting arithmetic is modelled as such. The runs make
  `U32Max` 2 or 3, so that every limit is reached.
- **Data**: a title is its length; a body is a short sequence, because appending
  and `MAX_BODY_LEN` are about it. The kind, reply pointer and title text are
  left out of `Channel`: the program stores and never reads them. What a reader
  makes of kind and body is in `ContentBodies`, where bodies are sequences of
  bytes, `TextBody` is the type of the code and the struct is the `ImageBody`
  that `body.rs` documents as the example of an added type. Borsh is external:
  fields in order, a vector after its length, no byte left over.
- A **client** (`Posting`) is external and taken from what the repository's
  README says of it: candidates from the free slots of the last two pages, an
  extension once the tail page is filled to a threshold. A transaction in flight
  holds what the client saw; it is executed (the action of `Channel`), refused
  (that action is not enabled) or lost.
- `UpgradeAuthority` is a constant: the program reads it from the loader's
  account and cannot change it.
- A **mutant** (comment "Mutant:") is a plausible mistake in the definition that
  follows it. No specification uses one; replacing the definition by it
  must break the property `PROJECT.json` names.

## 3. Runs

| Run | Checks | Distinct states |
|---|---|---|
| `access` | `TypeOK`, `WhitelistCountExact`, `AdminIsAuthor`, `PostRespectsMembership`, `AuthorKeepsLists`: three wallets, all list instructions, purchases and posting, one channel | 39,460 |
| `channel` | `TypeOK`, `ChainDense`, `ContentOnPage`, `RentExempt`, `LikesFallOnlyOnDelete`, `ImplementsBoard`, `OnlyAuthorTouches`: two wallets race to open and extend a channel, post, append, like and delete while time passes | 22,896 |
| `vault` | `RentExempt`, `Conservation`, `NoFeeLocked`, `SweepDrains`, `VaultOutflow`, `FeesReachOwnedShards`, `ImplementsVaults`: fees, sweeps with repeated and missing shards, a treasury key that is a shard, changes of admin and treasury, prefunded addresses | 44,505 |
| `pricing` | `TypeOK`, `FeeWithinCap`, `AuthorShareKept`: cuts and prices change between signing and execution | 2,801 |
| `follows` | `TypeOK`, `RentExempt`, `FollowerCountExact`, `RegistryDistinct`: three wallets, three channels, registry limit two, shared follower shards, prefunded addresses | 12,914 |
| `entry` | `RentExempt`, `EntryPriceExact`, `AuthorShareKept`: membership is bought, revoked and bought again while price and cut change, with sweeps and a prefunded entry | 32,585 |
| `checks` | `ForeignRefused`, `ExistingExact`, `AbsentExact`: every type of account comes into being, messages and entries go away, two channels to confuse, one forged account | 8,312 |
| `bodies` | `DecodeCanonical`, `ImageIntactOrRefused`, `ReadersAgree`: texts, structs and an unknown kind, whole, in pieces, truncated and with bytes appended | 2,443 |
| `posting` | `RefusedOnlyIfTaken`, `NoRunawayGrowth`, `EveryPosterPosts`: three clients, two slots a page, racing extensions, one lost transaction | 4,680 |
| `reused_slot`, `like_costs`, `self_admission` | one sentence of `Claims` each; violated | - |

**Bounds.** Money is what bounds the runs: accounts cost rent, so a genesis
balance determines how many can exist at once. `LamportsPerByte` is 1 because
TLC's integers have 32 bits; sizes are the real ones. The genesis balances are
chosen so that each run can reach what it is about, and a wallet can also be too
poor for an instruction. `U32Max`, `CONTENT_SLOTS`, `MAX_BODY_LEN`,
`MAX_FOLLOWS` and the shard counts are small so that every limit is hit from
both sides; inputs include out-of-range values (a shard index one past the last,
a slot past the page, a cut above the cap). `MaxTime` bounds the clock just past
the append window. `CHECK_DEADLOCK FALSE` in `MCChannel.cfg`: two wallets that
have spent everything on messages at the end of bounded time have no
instruction left, in the code as in the model; and in `MCPosting.cfg`: when
everybody has posted and the tail page is below the threshold, the clients rest.
`posting` has one message more than the first page has slots, so that somebody
depends on an extension, and each client may send it; one loss is enough to take
the post or the extension of any of them at any point. In `checks` addresses are
funded only before the settings exist, which covers each later state with and
without the gift. `MaxChunks` is 3: an image in three pieces, and one chunk too
many. Each run restricts `Next` to the
groups of instructions its question is about; the theorems are about all of
`Next`. Wallets have distinct roles and balances, so no
symmetry is used; in `posting`, where they are alike, the liveness property rules
it out.

**Fairness.** The program never acts on its own and nothing obliges a wallet to
submit an instruction, so `Spec` has none. `PostingSpec` assumes what the
README says clients do and what a chain is for: weak fairness of a client that
has not posted to send its post, of a client that sees a tail page at the
threshold to send an extension, and of the chain to execute or refuse each
transaction. There is none on opening the channel (the property starts there)
and none on losing a transaction. Weak fairness of the send steps is
enough, although candidates are chosen at random, because there is one post per
client: with finitely many messages a slot can be taken from a client only
finitely often. In a channel flooded without end, the code promises no
individual poster anything, and the property does not say so.

### Disagreements between documents and code

- `reused_slot`: `accounts.rs:179` says a reused slot never inherits old likes;
  `close_account` resets the counter only if the caller passes the likes account.
- `like_costs`: `SECURITY.md:56` says every like is economically costly; an
  author likes their own message for free.
- `self_admission`: `SECURITY.md:70` says `request_access` admits anybody for free
  when the entry fee is zero; the code returns `ZeroEntryFee`.

Three more sentences differ from the code and have no run of their own:
`set_thread_access.rs:18` says the flag "enables or disables user access
requests", and `request_access` never reads it; `error.rs:69` says
`NothingToSweep` also means that there was no excess to move, and the sweeps
return it only when no shard is passed (as `README.md:554` says); `README.md:145`
calls a text plain UTF-8 and validated, and `TextBody` checks its length only.

## 4. Theorems

Those of `BaseProofs`, `MemberProofs`, `ChannelProofs`, `RentProofs`, `FeeProofs`
and `CheckProofs` are about `Spec == Init /\ [][Next]_vars`, every instruction in
any order; those of `BodyProofs` are about `BodiesSpec`, those of `PostingProofs`
about `PostingSpec` (its fairness is not used). All hold for every value of the
constants that the named assumptions allow.

**Assumptions.** They ask for what the code or the platform gives.

- `LedgerAssumption`, `AccountsAssumption`, `InputAssumption`: positive widths and
  shard counts, `MAX_FEE_CUT_BPS` at most 100%, wallet and thread keys distinct,
  finitely many of them and no more wallets than a `u32` counts, typed inputs.
- `SupplyAssumption`: what the wallets start with adds up to a `u64`, in which the
  runtime keeps the supply.
- `NullAssumption`: `NULL` is different from every account and every address.
- `KeyAssumption`: no key that signs (a wallet or a thread) is a PDA. The runtime
  derives PDAs off the curve; were one of them a wallet, its owner could spend a
  vault.
- `ForeignAssumption` (`AccountChecks`): accounts of other programs have
  addresses of their own, and the loader's `ProgramData` account is at none of the
  program's addresses. The second half is needed: were `ProgramData` at the
  address of one of the program's accounts, the check of it in `init_settings` and
  the check of that account would accept the same key.
- `BodiesAssumption`, `PostingAssumption`: a kind of its own for images; the
  threshold of an extension between one slot and a whole page.

| Theorem | Statement | Argument |
|---|---|---|
| `TypeCorrect` | `[]TypeOK` | `TypeOK` is inductive. `Commit` gives the balances; each instruction's records are built from typed parts; the clamp, cast, checked and saturating additions keep the counters in their width. |
| `WhitelistCountCorrect` | `[]WhitelistCountExact` | Inductive together with `TypeOK`. Changing one entry changes the whitelist by at most that wallet (`OneEntry`); since a whitelist never exceeds `U32Max` wallets, neither the clamp nor the cast of `adjust_whitelist_count` loses anything (`AdjustExact`). |
| `AdminCorrect` | `[]AdminIsAuthor` | Inductive with `TypeOK`: only `InitThreadAccess` creates the record, and no instruction changes an author or removes a thread. |
| `PostsRespectMembership` | `PostRespectsMembership` | Only `FillSlot` fills an empty slot; by `WhitelistCountExact` the cached counter that its gate reads is positive exactly when somebody is on the list. |
| `RegistryCorrect` | `[]RegistryDistinct` | Inductive with `TypeOK`: `Subscribe` appends a channel that is not listed (`PushEffect`), and a `swap_remove` removes exactly one listed channel and permutes the rest (`SwapRemoveEffect`). |
| `FollowerCountCorrect` | `[]FollowerCountExact` | Inductive with `RegistryDistinct`, without which one unsubscription would leave the channel listed while the counter falls. The registries of a shard that list a channel change by one wallet (`FollowersMove`); the unsubscribing wallet was counted, so the saturating subtraction loses nothing. |
| `ChainCorrect` | `[]ChainDense` | Inductive with `TypeOK`: of several racing extensions only the one that names the present tail is enabled, and it adds exactly the next page. |
| `ContentCorrect` | `[]ContentOnPage` | Inductive with `ChainDense`: the range check of `fill_slot` against `last_alloc_seq` then means that the page exists. |
| `LikesCorrect` | `LikesFallOnlyOnDelete` | Only `LikeContent` and `CloseAccount` write likes (`LikesFrame`). A saturating addition to one counter takes nothing from any (`LikeCounts`), and a deletion resets the counter of the message it deletes and no other. |
| `BoardImplemented` | `ImplementsBoard` | Refinement: `pages` is `last_alloc_seq + 1`, `msg` is `content`, `time` is `now`. Initial states correspond; each instruction is one board step or a stutter. |
| `RentCorrect` | `[]RentExempt` | Inductive with `TypeOK`, account by account, below. |
| `EntryPriceCorrect` | `EntryPriceExact` | The chain of transfers of `RequestAccess`, with each shard top-up equal to what is missing before the handler starts, because the addresses are different (`KeysApart`, `ShardTags`) and the two parts of a split are exactly the fee (`SplitExact`). |
| `AuthorShareCorrect` | `AuthorShareKept` | The author's part of a split is at least `fee - fee * MAX_FEE_CUT_BPS / 10000`, rounded as the code rounds (`PartBound`, `PartGrows`, `AuthorPart`), and it arrives on top of the shard's rent (`SplitEarns`). |
| `FeeCapCorrect` | `FeeWithinCap` | What a post or a like costs is the fee, which the handler compares with `max_fee`, and missing rent. The missing rent is bounded by that of the accounts that come into being (`OutlayBound`): an existing one misses nothing, by `Rent`. |
| `VaultCorrect` | `VaultOutflow` | No instruction but a sweep lets a vault fall (`NextVaults`); in a sweep only listed shards that the program owns fall, none below its rent, and only the recipient rises (`SweptEffect`), for every list. |
| `FeesReachCorrect` | `FeesReachOwnedShards` | `NextVaults` again: the program owns each shard an instruction pays, because it found the shard created or creates it first. |
| `ConservationCorrect` | `[]Conservation` | Inductive with `TypeOK`. Every handler is a chain of helpers, each of which leaves the sum alone (`TransferTotal`, `CloseTotal`, `SweepOneTotal`, `SameTotalChain`), also when both ends of it are one account; the loop of a sweep by induction on its turns (`SweptTotal`). |
| `NoFeeLockedCorrect` | `[]NoFeeLocked` | Follows from `TypeOK` and `Conservation`: the checks of the handler pass, and the receiver's new balance is part of the supply (`PairWithinSupply`), so it fits. |
| `SweepDrainsCorrect` | `[]SweepDrains` | After *n* turns of the loop the first *n* listed shards are at their rent (`Drained`): a turn drains its own shard and only raises the receiver (`DrainTurn`). Needs `Rent`, by which no shard is below it. |
| `VaultsImplemented` | `ImplementsVaults` | Refinement, below. |
| `AuthorTouchesCorrect` | `OnlyAuthorTouches` | A message that exists is changed by `AppendContent` and `CloseAccount` only, both signed by the author (`ContentFrame`, `PostEffect`); their transfers touch the author, a shard and the account of the message, and of these only the author is a wallet (`OthersApart`). |
| `ListsCorrect` | `AuthorKeepsLists` | Only membership instructions write entries (`AccessFrame`). Those that set or remove one are signed by the admin, who is the author (`AdminCorrect`), and move lamports between the author and the entry alone (`AuthorLists`); a purchase needs an entry that does not exist and costs what `EntryPrice` says. |
| `ForeignCorrect` | `[]ForeignRefused` | A foreign account has another key and another owner than any of the program's (`ForeignFields`), so whatever bytes it holds, it fails the comparison of keys or of owners. |
| `ExistingCorrect` | `[]ExistingExact` | The key of an account the program has determines its bytes (`KnownAt`, from the seeds: `SeedsDetermine`), and the tag in its bytes determines its type (`TagDetermines`, `OwnedStored`). So a check of owner and tag, where the code makes no other, leaves only accounts of that type, and the comparison of the derived key leaves one. |
| `AbsentCorrect` | `[]AbsentExact` | The same cases: an address where the program has an account is owned by the program; every other one is the System Program's, funded or not (`Uninitialized`). |
| `CanonicalCorrect` | `BodiesSpec => []DecodeCanonical` | If decoding succeeds, the length prefix fits and no byte is left over (`DecodedIsEncoding`), and encoding the parts gives the same bytes (`Encoded`). |
| `ImageCorrect` | `BodiesSpec => []ImageIntactOrRefused` | From `BodyInv`, below: the first piece is the whole encoding, and a body longer than an encoding does not decode. |
| `ReadersCorrect` | `BodiesSpec => []ReadersAgree` | From `BodyInv`: the body is the concatenation of the pieces, which `decode_text` returns unchanged for the one kind it accepts. |
| `GrowthCorrect` | `PostingSpec => []NoRunawayGrowth` | From `GrowthInv`, below. |
| `StaleViewUsable` | `PostingSpec => []FlightUsable` | `FlightUsable` is the part of `RefusedOnlyIfTaken` that no balance decides: a post in flight one of whose slots is free passes every check of `process_fill_slot` before the payment. From `FlightInv`, below. |
| `ClientsUseProgram` | `PostingSpec => Spec` | Each client step is an instruction of `Next` or leaves the program alone, provided the inputs of `Next` include what the clients send (`ClientInputs`). So every theorem about `Spec` holds of the clients. |

**Inductive invariants.** Most properties are inductive with `TypeOK` and the
property the argument names. Four need another form or more.

- `Rent` (`RentProofs`) is `RentExempt` said account by account instead of over the
  set of all accounts (`RentByAccount`), so that a step has to be looked at
  for the accounts it writes only (`RentKept`, `ShardsRentKept`). An account that
  is not written keeps its size, and no instruction takes lamports from an account of the
  program except the deletion of a message or of an access entry, from the account it
  closes, an unsubscription, which refunds what the shrunken registry no longer needs, and a sweep, down to
  the rent. The lemmas `...Flow` say what the transfers of each handler touch
  and cost. The theorems about prices need `Rent` as well: an account that exists
  lacks nothing, so that a payer is never charged for one.
- `BodyInv` is "the body is the pieces in order" and "a message composed as an
  image starts with its encoding, and what follows is empty exactly if every later
  piece is". The properties, which speak of decoded values, do not say which bytes an
  append meets.
- `GrowthInv` is the types of what the clients use, `NoRunawayGrowth`, and "a page
  whose extension is in flight is filled to the threshold". A client saw that
  when it sent the transaction; it still holds when the transaction lands, however
  late, because no client of `Posting` deletes a message (`GrownStays`).
- `FlightInv`, together with `GrowthInv`, says that a list of candidates in flight
  is not empty and names slots of pages the chain has, that the channel has no access
  control and that the settings exist. The chain only grows, so what a client saw
  stays usable until somebody takes it (`FlightChainStep`).

**The vaults.** Under the refinement `balance` is `lamports`, `supply` their sum,
`open` is `shards`, and the `owner` of a shard is the treasury of the settings or
the author of the channel in its seeds (`VaultOwner`). A step in which no shard
falls is `Collect` (`NextVaults`, `CollectStep`), `set_treasury` and `set_admin` are
`Appoint`, a sweep is `Withdraw` (`WithdrawStep`, from `SweptEffect` and
`SweptDrained`). That a shard is created only for an owner needs an invariant of
its own, `SettledFirst` (a channel exists only once the settings do):
`init_thread_access` creates a treasury shard and never reads the settings.
The vault run checks this on an instance without the membership
instructions, the theorem with them.

**Shared lemmas.** Frames (which group of instructions leaves which accounts
alone): `MembershipFrame`, `AccessFrame`, `ThreadFrame`, `FollowFrame`,
`BoardFrame`, `MessageFrame`, `ContentFrame`, `LikesFrame`, `ClockFrame`.
Effects of the helpers of `fees.rs` and `account_utils.rs`: `TransferEffect`,
`CreateEffect`, `ShardEffect`, `CollectEffect`, `SplitEffect`, `CloseEffect`; in
`Ledger`, an update that may write the same address twice is two nested `EXCEPT`s,
which the prover reads as TLC does.
Sums: `SumFunction` is a fold. Tabulated over the subsets of a set, in the order of
their size, it is shown to exist and not to depend on the order in which elements
are taken (`SumTableExists`, `TableTakes`, `SumTakes`), and what one address loses
and another gains leaves it alone (`SumMove`).
Loops: a sweep (`swept`) and the pieces of a message are followed as recursive
functions. That such a function exists, and what it is after
*i* turns (`SweptUnfolds`, `SweptEffect`, `FlattenUnfolds`, `FlattenAppend`), is shown by
taking the least turn at which it would fail (`LoopInduction`, `PieceInduction`).

**Model-checked only.**

- `RefusedOnlyIfTaken` contains `ENABLED`, out of the prover's reach, and that a
  wallet can pay depends on what it has spent; `StaleViewUsable` is what remains
  of it without the payment.
- `EveryPosterPosts` is liveness under fairness, out of the prover's reach as well.

## 5. Not modelled

- The Borsh decoding of instruction data and of account bytes: the inputs of an
  action are the decoded fields, and bytes that do not decode are an error, which
  changes nothing.
- Error codes: a failing instruction leaves no trace, so the code it fails with
  is not observable on the chain.
- Signer and writable flags (the runtime enforces them), compute limits,
  account-list limits and fees of transactions. The platform's limit on how much
  an account may grow in one instruction (10 KiB): a transaction carries far
  less.
- Whether a text is UTF-8: `TextBody` checks its length only, and no other
  definition depends on it.
- What clients do beyond posting and extending (fee estimates, appending in
  pieces, confirmation): the repository does not describe it.
- The test harness.

Two hazards have no property, because the program gives nothing against them.
An instruction names a slot and not a message: a like or an append signed for a
message that has been deleted meets whatever message is in its slot when it
executes (an append only if its author is the same, `OnlyAuthorTouches`). And
`append_content` has no offset: a piece sent twice is stored twice, and pieces
that execute out of order are stored out of order. `Channel` does both; keeping
from it is the client's part.

## 6. Plan

Done: the modules, runs and theorems above. Of the code that changes state
nothing is left out, and every property of a passing run is a theorem except the
two of the last list. What could be added:

1. `RefusedOnlyIfTaken` without `ENABLED`: `FillSlot` split into what it checks and
   the ledger it leaves, and a bound on what a client can have spent before its
   post.
2. An abstract specification of membership (who may post, who is admitted at
   which price) for the access lists to implement, as `FeeVaults` is for the shards.
