------------------------------ MODULE Follows -------------------------------
(***************************************************************************)
(* Following channels: the registry of each wallet and the sharded         *)
(* follower counters of each channel.                                      *)
(* src/processor/{subscribe, unsubscribe}.rs.                              *)
(***************************************************************************)
EXTENDS Accounts

followOnly ==
    UNCHANGED <<settings, boardVars, accessVars, shards, now>>

Subscribe(user, t) ==
    LET s        == <<t, follower_shard_index(user)>>
        reg_pda  == derive_follow_registry_pda(user)
        channels == IF registry[user] = NULL THEN <<>> ELSE registry[user]
        pushed   == Append(channels, t)
        L1 == IF registry[user] = NULL
              THEN create_pda_account(lamports, user, reg_pda, FollowRegistry_size(0))
              ELSE lamports
        L2 == ensure_rent_exempt(L1, user, reg_pda, FollowRegistry_size(Len(pushed)))
        L3 == IF follower_shard[s] = NULL
              THEN create_pda_account(L2, user, derive_follower_shard_pda(s[1], s[2]),
                                      FollowerShard_size)
              ELSE L2
    IN  /\ load_thread(t)
        /\ \A i \in DOMAIN channels : channels[i] # t
        /\ Len(channels) < MAX_FOLLOWS
        /\ follower_shard[s] # NULL => follower_shard[s] + 1 <= U64Max
        /\ registry' = [registry EXCEPT ![user] = pushed]
        /\ follower_shard' = [follower_shard EXCEPT ![s] = IF @ = NULL THEN 1 ELSE @ + 1]
        /\ Commit(L3)
        /\ followOnly

\* Mutants: the element is blanked, the last element is dropped instead, or
\* the last element is copied over it and stays.
swap_remove_blank(list, pos) == [list EXCEPT ![pos] = NULL]
swap_remove_last(list, pos) == [i \in 1..(Len(list) - 1) |-> list[i]]
swap_remove_copy(list, pos) ==
    [i \in DOMAIN list |-> IF i = pos THEN list[Len(list)] ELSE list[i]]

\* Vec::swap_remove: the last element takes the place of the removed one.
swap_remove(list, pos) ==
    [i \in 1..(Len(list) - 1) |-> IF i = pos THEN list[Len(list)] ELSE list[i]]

Unsubscribe(user, t) ==
    LET s        == <<t, follower_shard_index(user)>>
        reg_pda  == derive_follow_registry_pda(user)
        channels == registry[user]
    IN  /\ load_thread(t)
        /\ channels # NULL
        /\ \E pos \in DOMAIN channels :
            /\ channels[pos] = t
            /\ \A i \in 1..(pos - 1) : channels[i] # t
            /\ registry' = [registry EXCEPT ![user] = swap_remove(channels, pos)]
        \* what the smaller registry no longer needs goes back to the user
        /\ LET required == minimum_balance(FollowRegistry_size(Len(channels) - 1))
               refund   == SaturatingSub(lamports[reg_pda], required)
           IN  Commit(transfer(lamports, reg_pda, user, refund))
        /\ follower_shard[s] # NULL
        /\ follower_shard' = [follower_shard EXCEPT ![s] = SaturatingSub(@, 1)]
        /\ followOnly
=============================================================================
