------------------------------ MODULE Channel -------------------------------
(***************************************************************************)
(* A channel: its thread account, its chain of pages (AllocNodes), the     *)
(* messages in their slots and the like counters of each page.             *)
(* src/processor/{create_root_alloc, prepare_alloc, fill_slot,             *)
(* append_content, close_account, like_content, set_message_fee,           *)
(* set_like_fee}.rs.                                                       *)
(***************************************************************************)
EXTENDS Accounts

\* The thread key signs, so the System Program creates it outright: that
\* fails on an address that already holds lamports.
CreateRootAlloc(payer, t, message_fee, treasury_shard_idx, title_len) ==
    LET treasury_shard  == derive_treasury_shard_pda(treasury_shard_idx)
        thread_lamports == minimum_balance(ThreadNode_size(title_len))
        combined_rent   == thread_lamports + minimum_balance(AllocNode_size)
        L1 == ensure_shard_initialized(lamports, payer, treasury_shard)
        L2 == transfer(L1, payer, t, thread_lamports)
        L3 == collect_base_fee(L2, combined_rent, settings.base_fee_bps, payer, treasury_shard)
        L4 == create_pda_account(L3, payer, derive_alloc_pda(t, 0), AllocNode_size)
    IN  /\ title_len <= MAX_TITLE_LEN
        /\ settings # NULL
        /\ validate_treasury_shard(treasury_shard_idx)
        /\ thread[t] = NULL
        /\ <<t, 0>> \notin alloc
        /\ lamports[t] = 0
        /\ combined_rent <= U64Max
        /\ Commit(L4)
        /\ shards' = shards_initialized({treasury_shard})
        /\ thread' = [thread EXCEPT ![t] =
                        [alloc_count |-> 1, last_alloc_seq |-> 0, author |-> payer,
                         message_fee |-> message_fee, like_fee |-> 0,
                         title_len |-> title_len]]
        /\ alloc' = alloc \cup {<<t, 0>>}
        /\ UNCHANGED <<settings, content, likes, accessVars, followVars, now>>

\* Mutant: the tail of the chain is not moved.
linked_untailed(node, new_seq) == [node EXCEPT !.alloc_count = @ + 1]

\* The thread account once the page new_seq is linked.
linked(node, new_seq) == [node EXCEPT !.alloc_count = @ + 1, !.last_alloc_seq = new_seq]

\* Mutant: the page after the tail is created, whichever the caller saw.
PrepareAlloc_latest(payer, t, alloc_seq) ==
    LET new_seq == thread[t].last_alloc_seq + 1
    IN  /\ load_thread(t)
        /\ new_seq <= U32Max
        /\ thread[t].alloc_count + 1 <= U32Max
        /\ Commit(create_pda_account(lamports, payer, derive_alloc_pda(t, new_seq),
                                     AllocNode_size))
        /\ alloc' = alloc \cup {<<t, new_seq>>}
        /\ thread' = [thread EXCEPT ![t] = linked(@, new_seq)]
        /\ UNCHANGED <<settings, content, likes, accessVars, shards, followVars, now>>

\* Links the page after alloc_seq, which must still be the tail.
PrepareAlloc(payer, t, alloc_seq) ==
    LET new_seq == alloc_seq + 1
    IN  /\ <<t, alloc_seq>> \in alloc
        /\ load_thread(t)
        /\ alloc_seq = thread[t].last_alloc_seq
        /\ new_seq <= U32Max
        /\ <<t, new_seq>> \notin alloc
        /\ thread[t].alloc_count + 1 <= U32Max
        /\ Commit(create_pda_account(lamports, payer, derive_alloc_pda(t, new_seq),
                                     AllocNode_size))
        /\ alloc' = alloc \cup {<<t, new_seq>>}
        /\ thread' = [thread EXCEPT ![t] = linked(@, new_seq)]
        /\ UNCHANGED <<settings, content, likes, accessVars, shards, followVars, now>>

\* Mutant: only a price closes the channel.
gating_enabled_by_price(t) ==
    /\ access[t] # NULL
    /\ access[t].enabled
    /\ access[t].entry_fee > 0

\* Posting is restricted to members only if there is something to gate on.
gating_enabled(t) ==
    /\ access[t] # NULL
    /\ access[t].enabled
    /\ access[t].whitelist_count > 0 \/ access[t].entry_fee > 0

\* The access check of fill_slot.
allowed_to_post(w, t) ==
    /\ entry[t][w] # ACCESS_DENIED
    /\ gating_enabled(t) => \/ w = thread[t].author
                            \/ entry[t][w] \in {ACCESS_ALLOWED, ACCESS_FEE_EXEMPT}

fee_exempt(w, t) == w = thread[t].author \/ entry[t][w] = ACCESS_FEE_EXEMPT

\* Mutants: the page is not compared with the tail of the chain; the tail
\* itself is refused; the slot is not required to be free.
FirstFree_any_page(t, candidates, i) ==
    /\ \A j \in 1..i : candidates[j][2] < CONTENT_SLOTS
    /\ \A j \in 1..(i - 1) : content[<<t, candidates[j][1], candidates[j][2]>>] # NULL
    /\ content[<<t, candidates[i][1], candidates[i][2]>>] = NULL

FirstFree_before_tail(t, candidates, i) ==
    /\ \A j \in 1..i : /\ candidates[j][1] < thread[t].last_alloc_seq
                       /\ candidates[j][2] < CONTENT_SLOTS
    /\ \A j \in 1..(i - 1) : content[<<t, candidates[j][1], candidates[j][2]>>] # NULL
    /\ content[<<t, candidates[i][1], candidates[i][2]>>] = NULL

FirstFree_overwriting(t, candidates, i) ==
    /\ i = 1
    /\ candidates[i][1] <= thread[t].last_alloc_seq
    /\ candidates[i][2] < CONTENT_SLOTS

\* candidates[i] is the candidate the loop of fill_slot stops at: it and the
\* ones before it are in range, and the ones before it are taken.
FirstFree(t, candidates, i) ==
    /\ \A j \in 1..i : /\ candidates[j][1] <= thread[t].last_alloc_seq
                       /\ candidates[j][2] < CONTENT_SLOTS
    /\ \A j \in 1..(i - 1) : content[<<t, candidates[j][1], candidates[j][2]>>] # NULL
    /\ content[<<t, candidates[i][1], candidates[i][2]>>] = NULL

FillSlot(payer, t, body, candidates, treasury_shard_idx, author_fee_shard_idx, max_fee) ==
    /\ Len(body) <= MAX_BODY_LEN
    /\ candidates # <<>>
    /\ load_thread(t)
    /\ settings # NULL
    /\ validate_fee_shards(treasury_shard_idx, author_fee_shard_idx)
    /\ allowed_to_post(payer, t)
    /\ \E i \in DOMAIN candidates :
        LET seq  == candidates[i][1]
            slot == candidates[i][2]
            treasury_shard   == derive_treasury_shard_pda(treasury_shard_idx)
            author_fee_shard == derive_author_fee_pda(t, author_fee_shard_idx)
            size             == ContentNode_size(Len(body))
            content_lamports == minimum_balance(size)
            total_author_fee == IF fee_exempt(payer, t) THEN 0 ELSE thread[t].message_fee
            total_fee        == base_fee(content_lamports, settings.base_fee_bps)
                                  + total_author_fee
            L1 == ensure_fee_shards_initialized(lamports, payer, treasury_shard,
                                                author_fee_shard)
            L2 == create_pda_account(L1, payer, derive_content_pda(t, seq, slot), size)
            L3 == collect_base_fee(L2, content_lamports, settings.base_fee_bps,
                                   payer, treasury_shard)
            L4 == transfer_fee_split(L3, total_author_fee, settings.author_fee_cut_bps,
                                     payer, author_fee_shard, treasury_shard)
        IN  /\ FirstFree(t, candidates, i)
            /\ total_fee <= U64Max
            /\ total_fee <= max_fee
            /\ Commit(L4)
            /\ shards' = shards_initialized({treasury_shard, author_fee_shard})
            /\ content' = [content EXCEPT ![<<t, seq, slot>>] =
                             [author |-> payer, created_at |-> now, body |-> body]]
    /\ UNCHANGED <<settings, thread, alloc, likes, accessVars, followVars, now>>

\* Mutant: anybody may touch a message.
load_own_content_open(payer, id) == content[id] # NULL

\* load_content, and the comparison of the author with the signer.
load_own_content(payer, id) == content[id] # NULL /\ content[id].author = payer

\* The author's fee shard is validated but not created: nothing is paid to it.
AppendContent(payer, id, chunk, treasury_shard_idx, author_fee_shard_idx) ==
    LET node           == content[id]
        new_body       == node.body \o chunk
        required       == minimum_balance(ContentNode_size(Len(new_body)))
        rent_delta     == SaturatingSub(required,
                            minimum_balance(ContentNode_size(Len(node.body))))
        treasury_shard == derive_treasury_shard_pda(treasury_shard_idx)
        L1 == ensure_rent_exempt(lamports, payer, derive_content_pda(id[1], id[2], id[3]),
                                 ContentNode_size(Len(new_body)))
        L2 == ensure_shard_initialized(L1, payer, treasury_shard)
        L3 == collect_base_fee(L2, rent_delta, settings.base_fee_bps, payer, treasury_shard)
    IN  /\ load_thread(id[1])
        /\ settings # NULL
        /\ validate_fee_shards(treasury_shard_idx, author_fee_shard_idx)
        /\ load_own_content(payer, id)
        /\ now - node.created_at <= APPEND_WINDOW_SECS
        /\ Len(new_body) <= MAX_BODY_LEN
        /\ Commit(IF rent_delta > 0 THEN L3 ELSE L1)
        /\ shards' = IF rent_delta > 0 THEN shards_initialized({treasury_shard}) ELSE shards
        /\ content' = [content EXCEPT ![id].body = new_body]
        /\ UNCHANGED <<settings, thread, alloc, likes, accessVars, followVars, now>>

\* Passing the page's likes account is up to the caller (with_likes).
CloseAccount(payer, id, with_likes) ==
    LET page == <<id[1], id[2]>>
    IN  /\ load_own_content(payer, id)
        /\ likes' = IF with_likes /\ likes[page] # NULL
                    THEN [likes EXCEPT ![page][id[3]] = 0] ELSE likes
        /\ content' = [content EXCEPT ![id] = NULL]
        /\ Commit(close_program_account(lamports, derive_content_pda(id[1], id[2], id[3]),
                                        payer))
        /\ UNCHANGED <<settings, thread, alloc, accessVars, shards, followVars, now>>

\* Mutants: the counter overflows, or wraps.
saturating_inc_unchecked(n) == n + 1
saturating_inc_wrapping(n) == (n + 1) % (U32Max + 1)

\* u32::saturating_add(1)
saturating_inc(n) == IF n < U32Max THEN n + 1 ELSE n

LikeContent(payer, t, alloc_seq, slot, treasury_shard_idx, author_fee_shard_idx, max_fee) ==
    LET page == <<t, alloc_seq>>
        treasury_shard   == derive_treasury_shard_pda(treasury_shard_idx)
        author_fee_shard == derive_author_fee_pda(t, author_fee_shard_idx)
        counts == IF likes[page] = NULL THEN [i \in Slots |-> 0] ELSE likes[page]
        paid   == thread[t].like_fee > 0 /\ payer # content[<<t, alloc_seq, slot>>].author
        L1 == ensure_fee_shards_initialized(lamports, payer, treasury_shard, author_fee_shard)
        L2 == IF likes[page] = NULL
              THEN create_pda_account(L1, payer, derive_likes_pda(t, alloc_seq),
                                      AllocLikes_size)
              ELSE L1
        L3 == transfer_fee_split(L2, thread[t].like_fee, settings.like_cut_bps,
                                 payer, author_fee_shard, treasury_shard)
    IN  /\ slot < CONTENT_SLOTS
        /\ content[<<t, alloc_seq, slot>>] # NULL
        /\ load_thread(t)
        /\ settings # NULL
        /\ validate_fee_shards(treasury_shard_idx, author_fee_shard_idx)
        /\ likes' = [likes EXCEPT ![page] =
                       [counts EXCEPT ![slot] = saturating_inc(@)]]
        /\ paid => thread[t].like_fee <= max_fee
        /\ Commit(IF paid THEN L3 ELSE L2)
        /\ shards' = shards_initialized({treasury_shard, author_fee_shard})
        /\ UNCHANGED <<settings, thread, alloc, content, accessVars, followVars, now>>

threadOnly ==
    UNCHANGED <<lamports, settings, alloc, content, likes, accessVars, shards, followVars, now>>

SetMessageFee(authority, t, fee) ==
    /\ load_author_thread(authority, t)
    /\ thread' = [thread EXCEPT ![t].message_fee = fee]
    /\ threadOnly

SetLikeFee(authority, t, fee) ==
    /\ load_author_thread(authority, t)
    /\ thread' = [thread EXCEPT ![t].like_fee = fee]
    /\ threadOnly
=============================================================================
