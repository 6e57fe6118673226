------------------------------- MODULE Ledger -------------------------------
(***************************************************************************)
(* Lamport arithmetic: src/state/fees.rs and src/state/account_utils.rs.   *)
(*                                                                         *)
(* A ledger is a function from addresses to balances.  Every helper of the *)
(* program that moves lamports is an operator from the ledger before the   *)
(* call to the ledger after it, so that an instruction is a chain          *)
(* L1, L2, ... of such calls in the order the handler makes them.  A       *)
(* balance that a transfer drives below zero stays below zero until the    *)
(* end of the chain (no handler credits an account it has debited), where  *)
(* the runtime refuses the whole instruction: see Commit in Accounts.      *)
(***************************************************************************)
EXTENDS Integers

CONSTANTS LamportsPerByte,  \* rent-exemption price of one byte (runtime)
          U64Max            \* the largest u64

ASSUME LedgerAssumption ==
    /\ LamportsPerByte \in Nat \ {0}
    /\ U64Max \in Nat \ {0}

\* One hundred per cent, in basis points.
BpsDenominator == 10000

\* u64::saturating_sub
SaturatingSub(a, b) == IF a <= b THEN 0 ELSE a - b

Greater(a, b) == IF a >= b THEN a ELSE b

\* The cast `as u64` of a natural number.
AsU64(x) == IF x <= U64Max THEN x ELSE x % (U64Max + 1)

(***************************************************************************)
(* External: the rent sysvar and the System Program.                       *)
(***************************************************************************)

\* Rent::minimum_balance: 128 bytes of account overhead plus the data.
minimum_balance(size) == (128 + size) * LamportsPerByte

\* system_instruction::transfer: the sender is debited before the recipient is
\* credited, so the two may be the same account.
transfer(L, from, to, amount) ==
    LET L1 == [L EXCEPT ![from] = @ - amount]
    IN  [L1 EXCEPT ![to] = @ + amount]

(***************************************************************************)
(* account_utils.rs                                                        *)
(***************************************************************************)

\* Mutant: the account grows and nobody pays for the new bytes.
ensure_rent_exempt_never(L, payer, target, size) == L

\* Tops an account up to the rent-exempt minimum of its size; an account
\* that already holds it is left alone.
ensure_rent_exempt(L, payer, target, size) ==
    transfer(L, payer, target, SaturatingSub(minimum_balance(size), L[target]))

\* Mutant: an address that already holds lamports is not topped up.
create_pda_account_prefunded(L, payer, target, space) ==
    IF L[target] > 0 THEN L ELSE transfer(L, payer, target, minimum_balance(space))

\* create_account when the address is empty, top-up + allocate + assign when
\* somebody has sent lamports to it beforehand: in both cases the payer adds
\* what is missing and no more.
create_pda_account(L, payer, target, space) ==
    transfer(L, payer, target, SaturatingSub(minimum_balance(space), L[target]))

close_program_account(L, account, recipient) ==
    LET L1 == [L EXCEPT ![recipient] = @ + L[account]]
    IN  [L1 EXCEPT ![account] = 0]

(***************************************************************************)
(* fees.rs                                                                 *)
(***************************************************************************)

\* Mutant: the author's part is not reduced by the platform's.
compute_fee_split_uncut(amount, cut_bps) ==
    [author |-> amount, platform |-> AsU64((amount * cut_bps) \div BpsDenominator)]

compute_fee_split(amount, cut_bps) ==
    LET platform == AsU64((amount * cut_bps) \div BpsDenominator)
    IN  [author |-> SaturatingSub(amount, platform), platform |-> platform]

\* The platform's base fee on the rent of an account.
base_fee(rent_lamports, base_fee_bps) ==
    AsU64((rent_lamports * base_fee_bps) \div BpsDenominator)

collect_fee_to_shard(L, amount, payer, shard) ==
    IF amount = 0 THEN L
    ELSE transfer(L, payer, shard,
                  Greater(amount, SaturatingSub(minimum_balance(0), L[shard])))

collect_base_fee(L, rent_lamports, base_fee_bps, payer, treasury_shard) ==
    collect_fee_to_shard(L, base_fee(rent_lamports, base_fee_bps), payer, treasury_shard)

\* The treasury's leg first, then the author's; an empty leg is skipped.
transfer_fee_split(L, amount, cut_bps, payer, author_fee_shard, treasury_shard) ==
    LET split == compute_fee_split(amount, cut_bps)
        L1    == collect_fee_to_shard(L, split.platform, payer, treasury_shard)
    IN  collect_fee_to_shard(L1, split.author, payer, author_fee_shard)

\* Mutant: the recipient is credited before the shard is written down.
sweep_shard_excess_swapped(L, shard, recipient, shard_rent_min) ==
    LET excess == SaturatingSub(L[shard], shard_rent_min)
        L1     == [L EXCEPT ![recipient] = @ + excess]
    IN  IF excess = 0 THEN L ELSE [L1 EXCEPT ![shard] = shard_rent_min]

\* Mutant: the shard is written down one lamport too far.
sweep_shard_excess_below(L, shard, recipient, shard_rent_min) ==
    LET L1 == [L EXCEPT ![shard] = shard_rent_min - 1]
    IN  [L1 EXCEPT ![recipient] = @ + SaturatingSub(L[shard], shard_rent_min - 1)]

\* Moves everything above the rent-exempt floor; the recipient is credited
\* after the shard is written down, so the two may be the same account.
sweep_shard_excess(L, shard, recipient, shard_rent_min) ==
    LET excess == SaturatingSub(L[shard], shard_rent_min)
        L1     == [L EXCEPT ![shard] = shard_rent_min]
    IN  IF excess = 0 THEN L ELSE [L1 EXCEPT ![recipient] = @ + excess]
=============================================================================
