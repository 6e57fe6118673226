--------------------------- MODULE AccessControl ----------------------------
(***************************************************************************)
(* Membership of a channel: the ThreadAccess configuration, the AccessEntry*)
(* of each wallet and the cached size of the whitelist.                    *)
(* src/processor/{init_thread_access, set_thread_access, set_entry_fee,    *)
(* add_to_*, remove_from_*, request_access}.rs and the mutation helpers of *)
(* src/state/loaders.rs.                                                   *)
(***************************************************************************)
EXTENDS Accounts

InitThreadAccess(authority, t, enabled, treasury_shard_idx) ==
    LET treasury_shard == derive_treasury_shard_pda(treasury_shard_idx)
        L1 == ensure_shard_initialized(lamports, authority, treasury_shard)
        L2 == collect_fee_to_shard(L1, minimum_balance(ThreadAccess_size),
                                   authority, treasury_shard)
        L3 == create_pda_account(L2, authority, derive_access_pda(t), ThreadAccess_size)
    IN  /\ load_author_thread(authority, t)
        /\ access[t] = NULL
        /\ validate_treasury_shard(treasury_shard_idx)
        /\ Commit(L3)
        /\ shards' = shards_initialized({treasury_shard})
        /\ access' = [access EXCEPT ![t] = [enabled |-> enabled, admin |-> authority,
                                            entry_fee |-> 0, whitelist_count |-> 0]]
        /\ UNCHANGED <<settings, boardVars, entry, followVars, now>>

SetThreadAccess(authority, t, enabled) ==
    /\ load_admin_access(authority, t)
    /\ access' = [access EXCEPT ![t].enabled = enabled]
    /\ UNCHANGED <<lamports, settings, boardVars, entry, shards, followVars, now>>

SetEntryFee(authority, t, fee) ==
    /\ load_admin_access(authority, t)
    /\ access' = [access EXCEPT ![t].entry_fee = fee]
    /\ UNCHANGED <<lamports, settings, boardVars, entry, shards, followVars, now>>

\* Mutant: the change is subtracted, and the result is not clamped.
adjust_whitelist_count_negated(count, delta) == count - delta

\* The new counter: clamped at zero, then cast back to u32.
adjust_whitelist_count(count, delta) ==
    LET n == count + delta
    IN  IF n < 0 THEN 0 ELSE n % (U32Max + 1)

\* Mutant: a fee-exempt member counts as one on the whitelist.
CountsAsMember(status) == IF status \in {ACCESS_ALLOWED, ACCESS_FEE_EXEMPT} THEN 1 ELSE 0

CountsAsAllowed(status) == IF status = ACCESS_ALLOWED THEN 1 ELSE 0

\* Lamports after set_access_entry_status: an entry that does not exist is
\* paid for, one that exists is overwritten.
set_access_entry_status(L, payer, t, w) ==
    IF entry[t][w] = NULL
    THEN create_pda_account(L, payer, derive_access_entry_pda(t, w), AccessEntry_size)
    ELSE L

\* The counter moves by the change of "is on the whitelist" alone.
apply_access_entry_status(authority, t, w, status) ==
    LET delta == CountsAsAllowed(status) - CountsAsAllowed(entry[t][w])
    IN  /\ load_admin_access(authority, t)
        /\ Commit(set_access_entry_status(lamports, authority, t, w))
        /\ entry' = [entry EXCEPT ![t][w] = status]
        /\ access' = [access EXCEPT
                        ![t].whitelist_count = adjust_whitelist_count(@, delta)]
        /\ UNCHANGED <<settings, boardVars, shards, followVars, now>>

AddToWhitelist(authority, t, w)    == apply_access_entry_status(authority, t, w, ACCESS_ALLOWED)
AddToBlacklist(authority, t, w)    == apply_access_entry_status(authority, t, w, ACCESS_DENIED)
AddToFeeWhitelist(authority, t, w) == apply_access_entry_status(authority, t, w, ACCESS_FEE_EXEMPT)

\* Closes an entry of the expected status; its lamports go to the admin.
remove_access_entry(authority, t, w, expected_status) ==
    /\ load_admin_access(authority, t)
    /\ entry[t][w] = expected_status
    /\ Commit(close_program_account(lamports, derive_access_entry_pda(t, w), authority))
    /\ entry' = [entry EXCEPT ![t][w] = NULL]
    /\ access' = [access EXCEPT
                    ![t].whitelist_count =
                        IF expected_status = ACCESS_ALLOWED
                        THEN adjust_whitelist_count(@, -1) ELSE @]
    /\ UNCHANGED <<settings, boardVars, shards, followVars, now>>

RemoveFromWhitelist(authority, t, w)    == remove_access_entry(authority, t, w, ACCESS_ALLOWED)
RemoveFromBlacklist(authority, t, w)    == remove_access_entry(authority, t, w, ACCESS_DENIED)
RemoveFromFeeWhitelist(authority, t, w) == remove_access_entry(authority, t, w, ACCESS_FEE_EXEMPT)

\* A wallet buys itself onto the whitelist.
RequestAccess(payer, t, treasury_shard_idx, author_fee_shard_idx) ==
    LET treasury_shard   == derive_treasury_shard_pda(treasury_shard_idx)
        author_fee_shard == derive_author_fee_pda(t, author_fee_shard_idx)
        L1 == ensure_fee_shards_initialized(lamports, payer, treasury_shard, author_fee_shard)
        L2 == transfer_fee_split(L1, access[t].entry_fee, settings.entry_cut_bps,
                                 payer, author_fee_shard, treasury_shard)
        L3 == set_access_entry_status(L2, payer, t, payer)
    IN  /\ access[t] # NULL
        /\ access[t].entry_fee # 0
        /\ load_thread(t)
        /\ entry[t][payer] = NULL
        /\ settings # NULL
        /\ validate_fee_shards(treasury_shard_idx, author_fee_shard_idx)
        /\ Commit(L3)
        /\ shards' = shards_initialized({treasury_shard, author_fee_shard})
        /\ entry' = [entry EXCEPT ![t][payer] = ACCESS_ALLOWED]
        /\ access' = [access EXCEPT
                        ![t].whitelist_count = adjust_whitelist_count(@, 1)]
        /\ UNCHANGED <<settings, boardVars, followVars, now>>
=============================================================================
