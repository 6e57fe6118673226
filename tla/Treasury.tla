------------------------------ MODULE Treasury ------------------------------
(***************************************************************************)
(* Program settings and the two kinds of fee vault:                        *)
(* src/processor/{init_settings, set_admin, set_treasury,                  *)
(* set_platform_fees, sweep_treasury, sweep_author_fees}.rs.               *)
(***************************************************************************)
EXTENDS Accounts

settingsOnly == UNCHANGED <<lamports, boardVars, accessVars, shards, followVars, now>>

\* The upgrade authority is read from the ProgramData account.
InitSettings(authority, treasury) ==
    /\ authority = UpgradeAuthority
    /\ settings = NULL
    /\ Commit(create_pda_account(lamports, authority, derive_settings_pda,
                                 ProgramSettings_size))
    /\ settings' = [admin |-> authority, treasury |-> treasury,
                    base_fee_bps |-> DEFAULT_BPS, author_fee_cut_bps |-> DEFAULT_BPS,
                    entry_cut_bps |-> DEFAULT_BPS, like_cut_bps |-> DEFAULT_BPS]
    /\ UNCHANGED <<boardVars, accessVars, shards, followVars, now>>

SetAdmin(authority, new_admin) ==
    /\ load_admin_settings(authority)
    /\ settings' = [settings EXCEPT !.admin = new_admin]
    /\ settingsOnly

SetTreasury(authority, treasury) ==
    /\ load_admin_settings(authority)
    /\ settings' = [settings EXCEPT !.treasury = treasury]
    /\ settingsOnly

\* Mutant: the cap is not enforced.
update_platform_setting_uncapped(authority, fee_bps) == load_admin_settings(authority)

\* The check the four platform-fee setters share.
update_platform_setting(authority, fee_bps) ==
    /\ fee_bps <= MAX_FEE_CUT_BPS
    /\ load_admin_settings(authority)

SetBaseFee(authority, fee_bps) ==
    /\ update_platform_setting(authority, fee_bps)
    /\ settings' = [settings EXCEPT !.base_fee_bps = fee_bps]
    /\ settingsOnly

SetAuthorFeeCut(authority, fee_bps) ==
    /\ update_platform_setting(authority, fee_bps)
    /\ settings' = [settings EXCEPT !.author_fee_cut_bps = fee_bps]
    /\ settingsOnly

SetEntryCut(authority, fee_bps) ==
    /\ update_platform_setting(authority, fee_bps)
    /\ settings' = [settings EXCEPT !.entry_cut_bps = fee_bps]
    /\ settingsOnly

SetLikeCut(authority, fee_bps) ==
    /\ update_platform_setting(authority, fee_bps)
    /\ settings' = [settings EXCEPT !.like_cut_bps = fee_bps]
    /\ settingsOnly

\* One turn of the loop of both sweeps: a shard the program does not own yet is skipped.
sweep_one(L, shard, recipient) ==
    IF shard \in shards THEN sweep_shard_excess(L, shard, recipient, minimum_balance(0)) ELSE L

\* Mutant: the shards are emptied to the upgrade authority.
swept_elsewhere(list, recipient) ==
    LET L[i \in 0..Len(list)] ==
            IF i = 0 THEN lamports ELSE sweep_one(L[i - 1], list[i], UpgradeAuthority)
    IN  L[Len(list)]

\* Mutant: the loop ends at a shard the program does not own.
swept_until_missing(list, recipient) ==
    LET L[i \in 0..Len(list)] ==
            IF i = 0 THEN lamports
            ELSE IF \E j \in 1..i : list[j] \notin shards THEN L[i - 1]
            ELSE sweep_one(L[i - 1], list[i], recipient)
    IN  L[Len(list)]

\* The loop of both sweeps: the listed shards in order, a repeated one again.
\* L[i] is the ledger after i turns.
swept(list, recipient) ==
    LET L[i \in 0..Len(list)] ==
            IF i = 0 THEN lamports ELSE sweep_one(L[i - 1], list[i], recipient)
    IN  L[Len(list)]

\* The checks of process_sweep_treasury.  Anybody may submit it: the lamports
\* can only go to the treasury wallet.
may_sweep_treasury(shard_indices) ==
    /\ settings # NULL
    /\ shard_indices # <<>>
    /\ \A i \in DOMAIN shard_indices :
         derive_treasury_shard_pda(shard_indices[i]) \in shards
             => validate_treasury_shard(shard_indices[i])

treasury_swept(shard_indices) ==
    swept([i \in DOMAIN shard_indices |-> derive_treasury_shard_pda(shard_indices[i])],
          settings.treasury)

SweepTreasury(shard_indices) ==
    /\ may_sweep_treasury(shard_indices)
    /\ Commit(treasury_swept(shard_indices))
    /\ UNCHANGED <<settings, boardVars, accessVars, shards, followVars, now>>

\* The checks of process_sweep_author_fees.
may_sweep_author_fees(author, t, shard_indices) ==
    /\ load_author_thread(author, t)
    /\ shard_indices # <<>>
    /\ \A i \in DOMAIN shard_indices :
         derive_author_fee_pda(t, shard_indices[i]) \in shards
             => validate_author_fee_shard(shard_indices[i])

author_fees_swept(author, t, shard_indices) ==
    swept([i \in DOMAIN shard_indices |-> derive_author_fee_pda(t, shard_indices[i])], author)

SweepAuthorFees(author, t, shard_indices) ==
    /\ may_sweep_author_fees(author, t, shard_indices)
    /\ Commit(author_fees_swept(author, t, shard_indices))
    /\ UNCHANGED <<settings, boardVars, accessVars, shards, followVars, now>>
=============================================================================
