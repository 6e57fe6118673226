---------------------------- MODULE MemberProofs ----------------------------
(***************************************************************************)
(* Members and followers, for every set of wallets, channels, shards and   *)
(* inputs.  The cached whitelist counter is exact, the admin of the access *)
(* control is the author of the channel, and therefore no message gets past *)
(* the gate.  A registry lists a channel at most once, and the sharded     *)
(* follower counters, which nothing ever recomputes, equal the registries. *)
(***************************************************************************)
EXTENDS BaseProofs, FiniteSetTheorems

(***************************************************************************)
(* Who touches what.                                                       *)
(***************************************************************************)

\* The membership instructions leave channels and messages alone.
LEMMA MembershipFrame ==
    ASSUME MembershipNext
    PROVE  UNCHANGED <<boardVars, now>>
  <1> PICK w \in Wallets, t \in Threads :
                      \/ \E on \in BOOLEAN, k \in TreasuryIdx : InitThreadAccess(w, t, on, k)
                      \/ \E on \in BOOLEAN : SetThreadAccess(w, t, on)
                      \/ \E fee \in FeeInputs : SetEntryFee(w, t, fee)
                      \/ \E v \in Wallets, status \in Statuses :
                            \/ apply_access_entry_status(w, t, v, status)
                            \/ remove_access_entry(w, t, v, status)
                      \/ \E k \in TreasuryIdx, j \in AuthorIdx : RequestAccess(w, t, k, j)
    BY DEF MembershipNext, Statuses, AddToWhitelist, AddToBlacklist, AddToFeeWhitelist,
           RemoveFromWhitelist, RemoveFromBlacklist, RemoveFromFeeWhitelist
  <1>1. ASSUME NEW on \in BOOLEAN, NEW k \in TreasuryIdx, InitThreadAccess(w, t, on, k)
        PROVE  UNCHANGED <<boardVars, now>>
    BY <1>1 DEF InitThreadAccess
  <1>2. ASSUME NEW on \in BOOLEAN, SetThreadAccess(w, t, on)
        PROVE  UNCHANGED <<boardVars, now>>
    BY <1>2 DEF SetThreadAccess
  <1>3. ASSUME NEW fee \in FeeInputs, SetEntryFee(w, t, fee)
        PROVE  UNCHANGED <<boardVars, now>>
    BY <1>3 DEF SetEntryFee
  <1>4. ASSUME NEW v \in Wallets, NEW status \in Statuses,
               \/ apply_access_entry_status(w, t, v, status)
               \/ remove_access_entry(w, t, v, status)
        PROVE  UNCHANGED <<boardVars, now>>
    BY <1>4 DEF apply_access_entry_status, remove_access_entry
  <1>5. ASSUME NEW k \in TreasuryIdx, NEW j \in AuthorIdx, RequestAccess(w, t, k, j)
        PROVE  UNCHANGED <<boardVars, now>>
    BY <1>5 DEF RequestAccess
  <1> QED
    BY <1>1, <1>2, <1>3, <1>4, <1>5

\* Only the membership instructions write access lists: no other handler
\* serializes a ThreadAccess or an AccessEntry.
LEMMA AccessFrame ==
    ASSUME [Next]_vars, ~MembershipNext
    PROVE  UNCHANGED <<access, entry>>
  <1>1. CASE SetupNext
    <2>1. \A w \in Wallets, tr \in TreasuryInputs : InitSettings(w, tr) => UNCHANGED accessVars
      BY DEF InitSettings
    <2>2. \A w \in Wallets, t \in Threads, fee \in FeeInputs, k \in TreasuryIdx,
             title \in TitleInputs : CreateRootAlloc(w, t, fee, k, title) => UNCHANGED accessVars
      BY DEF CreateRootAlloc
    <2> QED
      BY <1>1, <2>1, <2>2 DEF SetupNext, accessVars
  <1>2. CASE AdminNext
    BY <1>2 DEF AdminNext, SetAdmin, SetTreasury, settingsOnly, accessVars
  <1>3. CASE CutNext
    BY <1>3 DEF CutNext, SetBaseFee, SetAuthorFeeCut, SetEntryCut, SetLikeCut, settingsOnly,
                accessVars
  <1>4. CASE SweepNext
    BY <1>4 DEF SweepNext, SweepTreasury, SweepAuthorFees, accessVars
  <1>5. CASE PageNext
    BY <1>5 DEF PageNext, PrepareAlloc, accessVars
  <1>6. CASE PostNext
    BY <1>6 DEF PostNext, FillSlot, accessVars
  <1>7. CASE DeleteNext
    BY <1>7 DEF DeleteNext, CloseAccount, accessVars
  <1>8. CASE AppendNext
    BY <1>8 DEF AppendNext, AppendContent, accessVars
  <1>9. CASE LikeNext
    BY <1>9 DEF LikeNext, LikeContent, accessVars
  <1>10. CASE PricingNext
    BY <1>10 DEF PricingNext, SetMessageFee, SetLikeFee, threadOnly, accessVars
  <1>11. CASE FollowNext
    BY <1>11 DEF FollowNext, Subscribe, Unsubscribe, followOnly, accessVars
  <1>12. CASE GiftNext \/ Tick \/ UNCHANGED vars
    BY <1>12 DEF GiftNext, SystemTransfer, Tick, vars, accessVars
  <1> QED
    BY <1>1, <1>2, <1>3, <1>4, <1>5, <1>6, <1>7, <1>8, <1>9, <1>10, <1>11, <1>12 DEF Next

\* The author of a channel never changes and a channel never disappears: the
\* handlers that write a ThreadNode overwrite its fees, counters and nothing
\* else, and process_create_root_alloc writes only one that does not exist.
LEMMA ThreadFrame ==
    ASSUME TypeOK, [Next]_vars, NEW t \in Threads, thread[t] # NULL
    PROVE  thread'[t] # NULL /\ thread'[t].author = thread[t].author
  <1>0. thread \in [Threads -> ThreadNode \cup {NULL}] /\ thread[t] \in ThreadNode
    BY DEF TypeOK
  <1>1. CASE SetupNext
    <2>1. \A w \in Wallets, tr \in TreasuryInputs : InitSettings(w, tr) => thread' = thread
      BY DEF InitSettings, boardVars
    <2>2. ASSUME NEW w \in Wallets, NEW u \in Threads, NEW fee \in FeeInputs,
                 NEW k \in TreasuryIdx, NEW title \in TitleInputs,
                 CreateRootAlloc(w, u, fee, k, title)
          PROVE  thread'[t] = thread[t]
      <3>1. thread[u] = NULL /\ \E node : thread' = [thread EXCEPT ![u] = node]
        BY <2>2 DEF CreateRootAlloc
      <3> QED
        BY <3>1, <1>0
    <2> QED
      BY <1>1, <2>1, <2>2 DEF SetupNext
  <1>2. CASE AdminNext
    BY <1>2 DEF AdminNext, SetAdmin, SetTreasury, settingsOnly, boardVars
  <1>3. CASE CutNext
    BY <1>3 DEF CutNext, SetBaseFee, SetAuthorFeeCut, SetEntryCut, SetLikeCut, settingsOnly,
                boardVars
  <1>4. CASE SweepNext
    BY <1>4 DEF SweepNext, SweepTreasury, SweepAuthorFees, boardVars
  <1>5. CASE PageNext
    <2>1. PICK w \in Wallets, u \in Threads, seq \in AllocSeqs : PrepareAlloc(w, u, seq)
      BY <1>5 DEF PageNext
    <2>2. thread' = [thread EXCEPT ![u] =
                       [thread[u] EXCEPT !.alloc_count = @ + 1, !.last_alloc_seq = seq + 1]]
      BY <2>1, <1>0 DEF PrepareAlloc, linked
    <2>3. thread'[t] \in ThreadNode
      <3>1. thread' \in [Threads -> ThreadNode \cup {NULL}]
        BY <1>5, PageTypes DEF TypeOK
      <3>2. thread'[t] # NULL
        <4>1. CASE t = u
          <5>1. seq + 1 \in u32 /\ thread[t].alloc_count + 1 \in u32
            BY <2>1, <4>1, <1>0, AccountsAssumption DEF PrepareAlloc, ThreadNode, u32, AllocSeqs
          <5>2. [thread[t] EXCEPT !.alloc_count = @ + 1, !.last_alloc_seq = seq + 1]
                  \in ThreadNode
            BY <5>1, <1>0 DEF ThreadNode
          <5>3. thread'[t] = [thread[t] EXCEPT !.alloc_count = @ + 1, !.last_alloc_seq = seq + 1]
            BY <2>2, <4>1, <1>0
          <5> QED
            BY <5>2, <5>3, NullAssumption
        <4>2. CASE t # u
          BY <2>2, <4>2, <1>0
        <4> QED
          BY <4>1, <4>2
      <3> QED
        BY <3>1, <3>2
    <2> QED
      BY <2>2, <2>3, <1>0, NullAssumption DEF ThreadNode
  <1>6. CASE PostNext
    BY <1>6 DEF PostNext, FillSlot
  <1>7. CASE DeleteNext
    BY <1>7 DEF DeleteNext, CloseAccount
  <1>8. CASE AppendNext
    BY <1>8 DEF AppendNext, AppendContent
  <1>9. CASE LikeNext
    BY <1>9 DEF LikeNext, LikeContent
  <1>10. CASE PricingNext
    <2> PICK w \in Wallets, u \in Threads, fee \in FeeInputs :
                SetMessageFee(w, u, fee) \/ SetLikeFee(w, u, fee)
      BY <1>10 DEF PricingNext
    <2>0. fee \in u64
      BY InputAssumption
    <2>1. \/ thread' = [thread EXCEPT ![u].message_fee = fee]
          \/ thread' = [thread EXCEPT ![u].like_fee = fee]
      BY DEF SetMessageFee, SetLikeFee
    <2>2. /\ [thread[t] EXCEPT !.message_fee = fee] \in ThreadNode
          /\ [thread[t] EXCEPT !.like_fee = fee] \in ThreadNode
      BY <1>0, <2>0 DEF ThreadNode
    <2>3. \/ thread'[t] = thread[t]
          \/ thread'[t] = [thread[t] EXCEPT !.message_fee = fee]
          \/ thread'[t] = [thread[t] EXCEPT !.like_fee = fee]
      BY <1>0, <2>1
    <2>4. thread'[t] # NULL
      BY <1>0, <2>2, <2>3, NullAssumption
    <2>5. thread'[t].author = thread[t].author
      BY <1>0, <2>3 DEF ThreadNode
    <2> QED
      BY <2>4, <2>5
  <1>11. CASE FollowNext
    BY <1>11 DEF FollowNext, Subscribe, Unsubscribe, followOnly, boardVars
  <1>12. CASE GiftNext \/ Tick \/ UNCHANGED vars
    BY <1>12 DEF GiftNext, SystemTransfer, Tick, vars, boardVars
  <1>13. CASE MembershipNext
    BY <1>13, MembershipFrame DEF boardVars
  <1> QED
    BY <1>1, <1>2, <1>3, <1>4, <1>5, <1>6, <1>7, <1>8, <1>9, <1>10, <1>11, <1>12, <1>13 DEF Next

-----------------------------------------------------------------------------
(***************************************************************************)
(* The whitelist counter.                                                  *)
(***************************************************************************)

\* A whitelist is a finite set of wallets, small enough for a u32 counter.
LEMMA WhitelistSize ==
    ASSUME NEW S \in SUBSET Wallets
    PROVE  /\ IsFiniteSet(S)
           /\ Cardinality(S) \in Nat
           /\ Cardinality(S) <= U32Max
  <1>1. IsFiniteSet(Wallets) /\ Cardinality(Wallets) <= U32Max /\ U32Max \in Nat
    BY AccountsAssumption
  <1>2. IsFiniteSet(S) /\ Cardinality(S) <= Cardinality(Wallets)
    BY <1>1, FS_Subset
  <1>3. Cardinality(S) \in Nat /\ Cardinality(Wallets) \in Nat
    BY <1>1, <1>2, FS_CardinalityType
  <1> QED
    BY <1>1, <1>2, <1>3

\* On a counter that stays within u32, neither the clamp at zero nor the cast
\* of adjust_whitelist_count does anything.
LEMMA AdjustExact ==
    ASSUME NEW c \in Int, NEW d \in Int, c + d \in 0..U32Max
    PROVE  adjust_whitelist_count(c, d) = c + d
  <1>1. U32Max \in Nat
    BY AccountsAssumption
  <1>2. c + d >= 0 /\ c + d < U32Max + 1
    BY <1>1
  <1>3. (c + d) % (U32Max + 1) = c + d
    BY <1>1, <1>2
  <1> QED
    BY <1>2, <1>3 DEF adjust_whitelist_count

\* Writing one entry moves the size of its whitelist by the change of "is
\* ALLOWED", the delta apply_access_entry_status computes.
LEMMA OneEntry ==
    ASSUME TypeOK, NEW t \in Threads, NEW v \in Wallets, NEW status,
           entry' = [entry EXCEPT ![t][v] = status]
    PROVE  /\ Cardinality(Whitelist(t))' = Cardinality(Whitelist(t))
                 + (CountsAsAllowed(status) - CountsAsAllowed(entry[t][v]))
           /\ \A u \in Threads \ {t} : entry'[u] = entry[u]
  <1> DEFINE W == Whitelist(t)
  <1>0. entry \in [Threads -> [Wallets -> Statuses \cup {NULL}]]
    BY DEF TypeOK
  <1>1. /\ \A u \in Threads \ {t} : entry'[u] = entry[u]
        /\ entry'[t] = [entry[t] EXCEPT ![v] = status]
    BY <1>0
  <1>2. W \in SUBSET Wallets
    BY DEF Whitelist
  <1>3. IsFiniteSet(W) /\ Cardinality(W) \in Nat
    BY <1>2, WhitelistSize
  <1>4. CASE status = ACCESS_ALLOWED
    <2>1. W' = W \cup {v}
      BY <1>0, <1>1, <1>4 DEF Whitelist
    <2>2. Cardinality(W \cup {v}) = IF v \in W THEN Cardinality(W) ELSE Cardinality(W) + 1
      BY <1>3, FS_AddElement
    <2>3. v \in W <=> entry[t][v] = ACCESS_ALLOWED
      BY DEF Whitelist
    <2>4. Cardinality(W') = Cardinality(W) + (1 - CountsAsAllowed(entry[t][v]))
      BY <1>3, <2>1, <2>2, <2>3 DEF CountsAsAllowed
    <2> QED
      BY <1>1, <1>4, <2>4 DEF CountsAsAllowed
  <1>5. CASE status # ACCESS_ALLOWED
    <2>1. W' = W \ {v}
      BY <1>0, <1>1, <1>5 DEF Whitelist
    <2>2. Cardinality(W \ {v}) = IF v \in W THEN Cardinality(W) - 1 ELSE Cardinality(W)
      BY <1>3, FS_RemoveElement
    <2>3. v \in W <=> entry[t][v] = ACCESS_ALLOWED
      BY DEF Whitelist
    <2>4. Cardinality(W') = Cardinality(W) + (0 - CountsAsAllowed(entry[t][v]))
      BY <1>3, <2>1, <2>2, <2>3 DEF CountsAsAllowed
    <2> QED
      BY <1>1, <1>5, <2>4 DEF CountsAsAllowed
  <1> QED
    BY <1>4, <1>5

\* An instruction that writes one entry and moves the counter by that delta
\* keeps the counter exact.
LEMMA CounterFollows ==
    ASSUME TypeOK, WhitelistCountExact, NEW t \in Threads, NEW v \in Wallets, NEW status,
           access[t] # NULL,
           entry' = [entry EXCEPT ![t][v] = status],
           access' = [access EXCEPT ![t].whitelist_count =
                        adjust_whitelist_count(@, CountsAsAllowed(status)
                                                    - CountsAsAllowed(entry[t][v]))]
    PROVE  WhitelistCountExact'
  <1> DEFINE c == access[t].whitelist_count
             d == CountsAsAllowed(status) - CountsAsAllowed(entry[t][v])
  <1>1. /\ Cardinality(Whitelist(t))' = Cardinality(Whitelist(t)) + d
        /\ \A u \in Threads \ {t} : entry'[u] = entry[u]
    BY OneEntry
  <1>2. access[t] \in ThreadAccess /\ access \in [Threads -> ThreadAccess \cup {NULL}]
    BY DEF TypeOK
  <1>3. c = Cardinality(Whitelist(t)) /\ d \in Int
    BY DEF WhitelistCountExact, CountsAsAllowed
  <1>4. c \in Nat
    BY <1>3, WhitelistSize DEF Whitelist
  <1>5. Whitelist(t)' \in SUBSET Wallets
    BY DEF Whitelist
  <1>6. c + d \in 0..U32Max
    <2>1. Cardinality(Whitelist(t)') \in Nat /\ Cardinality(Whitelist(t)') <= U32Max
      BY <1>5, WhitelistSize
    <2> QED
      BY <2>1, <1>1, <1>3, AccountsAssumption
  <1>7. adjust_whitelist_count(c, d) = c + d
    BY <1>3, <1>4, <1>6, AdjustExact
  <1>8. access'[t] = [access[t] EXCEPT !.whitelist_count = c + d]
    BY <1>2, <1>7
  <1>9. access'[t].whitelist_count = Cardinality(Whitelist(t))'
    BY <1>8, <1>1, <1>2, <1>3 DEF ThreadAccess
  <1>10. access'[t] # NULL
    <2>1. [access[t] EXCEPT !.whitelist_count = c + d] \in ThreadAccess
      BY <1>2, <1>6 DEF ThreadAccess, u32
    <2> QED
      BY <2>1, <1>8, NullAssumption
  <1>11. ASSUME NEW u \in Threads, u # t
         PROVE  access'[u] = access[u] /\ entry'[u] = entry[u]
    BY <1>1, <1>2, <1>11
  <1> SUFFICES ASSUME NEW u \in Threads
               PROVE  IF access'[u] = NULL
                      THEN \A w \in Wallets : entry'[u][w] = NULL
                      ELSE access'[u].whitelist_count = Cardinality(Whitelist(u))'
    BY Zenon DEF WhitelistCountExact
  <1>12. CASE u # t
    <2>1. Whitelist(u)' = Whitelist(u)
      BY <1>11, <1>12 DEF Whitelist
    <2> QED
      BY <2>1, <1>11, <1>12 DEF WhitelistCountExact
  <1> QED
    BY <1>9, <1>10, <1>12

\* A new access control starts with no entry and a counter of zero: no entry
\* can be older than the configuration it hangs on (load_admin_access and
\* load_thread_access guard every instruction that writes one).
LEMMA InitThreadAccessCount ==
    ASSUME TypeOK, WhitelistCountExact, NEW w \in Wallets, NEW t \in Threads,
           NEW on \in BOOLEAN, NEW k \in TreasuryIdx, InitThreadAccess(w, t, on, k)
    PROVE  WhitelistCountExact'
  <1> DEFINE node == [enabled |-> on, admin |-> w, entry_fee |-> 0, whitelist_count |-> 0]
  <1>1. access[t] = NULL /\ access' = [access EXCEPT ![t] = node] /\ entry' = entry
    BY DEF InitThreadAccess
  <1>2. access \in [Threads -> ThreadAccess \cup {NULL}]
    BY DEF TypeOK
  <1>3. Whitelist(t) = {}
    <2>1. \A v \in Wallets : entry[t][v] = NULL
      BY <1>1 DEF WhitelistCountExact
    <2>2. NULL # ACCESS_ALLOWED
      BY NullAssumption DEF ACCESS_ALLOWED
    <2> QED
      BY <2>1, <2>2 DEF Whitelist
  <1>4. node \in ThreadAccess
    BY AccountsAssumption, LedgerAssumption DEF ThreadAccess, u32, u64
  <1>5. access'[t] # NULL /\ access'[t].whitelist_count = 0
    BY <1>1, <1>2, <1>4, NullAssumption
  <1>6. Cardinality(Whitelist(t)) = 0
    BY <1>3, FS_EmptySet
  <1>7. \A u \in Threads \ {t} : access'[u] = access[u]
    BY <1>1, <1>2
  <1>8. \A u \in Threads : Whitelist(u)' = Whitelist(u)
    BY <1>1 DEF Whitelist
  <1> QED
    BY <1>1, <1>5, <1>6, <1>7, <1>8 DEF WhitelistCountExact

\* The two setters leave the counter and the entries alone.
LEMMA AccessSettersCount ==
    ASSUME TypeOK, WhitelistCountExact, NEW w \in Wallets, NEW t \in Threads,
           \/ \E on \in BOOLEAN : SetThreadAccess(w, t, on)
           \/ \E fee \in FeeInputs : SetEntryFee(w, t, fee)
    PROVE  WhitelistCountExact'
  <1>1. /\ access[t] # NULL /\ entry' = entry
        /\ \/ \E on \in BOOLEAN : access' = [access EXCEPT ![t].enabled = on]
           \/ \E fee \in FeeInputs : access' = [access EXCEPT ![t].entry_fee = fee]
    BY DEF SetThreadAccess, SetEntryFee, load_admin_access
  <1>2. access \in [Threads -> ThreadAccess \cup {NULL}] /\ access[t] \in ThreadAccess
    BY <1>1 DEF TypeOK
  <1>3. /\ access'[t].whitelist_count = access[t].whitelist_count
        /\ \A u \in Threads \ {t} : access'[u] = access[u]
    BY <1>1, <1>2 DEF ThreadAccess
  <1>4. access'[t] # NULL
    <2>1. /\ \A on \in BOOLEAN : [access[t] EXCEPT !.enabled = on] \in ThreadAccess
          /\ \A fee \in FeeInputs : [access[t] EXCEPT !.entry_fee = fee] \in ThreadAccess
      BY <1>2, InputAssumption DEF ThreadAccess
    <2>2. access'[t] \in ThreadAccess
      BY <1>1, <1>2, <2>1
    <2> QED
      BY <2>2, NullAssumption
  <1>5. \A u \in Threads : Whitelist(u)' = Whitelist(u)
    BY <1>1 DEF Whitelist
  <1> QED
    BY <1>1, <1>3, <1>4, <1>5 DEF WhitelistCountExact

\* The counter survives every membership instruction.
LEMMA MembershipCount ==
    ASSUME TypeOK, WhitelistCountExact, MembershipNext
    PROVE  WhitelistCountExact'
  <1> PICK w \in Wallets, t \in Threads :
                      \/ \E on \in BOOLEAN, k \in TreasuryIdx : InitThreadAccess(w, t, on, k)
                      \/ \E on \in BOOLEAN : SetThreadAccess(w, t, on)
                      \/ \E fee \in FeeInputs : SetEntryFee(w, t, fee)
                      \/ \E v \in Wallets, status \in Statuses :
                            \/ apply_access_entry_status(w, t, v, status)
                            \/ remove_access_entry(w, t, v, status)
                      \/ \E k \in TreasuryIdx, j \in AuthorIdx : RequestAccess(w, t, k, j)
    BY DEF MembershipNext, Statuses, AddToWhitelist, AddToBlacklist, AddToFeeWhitelist,
           RemoveFromWhitelist, RemoveFromBlacklist, RemoveFromFeeWhitelist
  <1>0. NULL # ACCESS_ALLOWED
    BY NullAssumption DEF ACCESS_ALLOWED
  <1>1. ASSUME NEW v \in Wallets, NEW status \in Statuses,
               apply_access_entry_status(w, t, v, status)
        PROVE  WhitelistCountExact'
    <2>1. /\ access[t] # NULL
          /\ entry' = [entry EXCEPT ![t][v] = status]
          /\ access' = [access EXCEPT ![t].whitelist_count =
                          adjust_whitelist_count(@, CountsAsAllowed(status)
                                                      - CountsAsAllowed(entry[t][v]))]
      BY <1>1 DEF apply_access_entry_status, load_admin_access
    <2> QED
      BY <2>1, CounterFollows
  <1>2. ASSUME NEW v \in Wallets, NEW status \in Statuses,
               remove_access_entry(w, t, v, status)
        PROVE  WhitelistCountExact'
    <2> DEFINE c == access[t].whitelist_count
               d == CountsAsAllowed(NULL) - CountsAsAllowed(entry[t][v])
    <2>1. /\ access[t] # NULL /\ entry[t][v] = status
          /\ entry' = [entry EXCEPT ![t][v] = NULL]
          /\ access' = [access EXCEPT ![t].whitelist_count =
                          IF status = ACCESS_ALLOWED THEN adjust_whitelist_count(c, -1) ELSE c]
      BY <1>2 DEF remove_access_entry, load_admin_access
    <2>2. c \in Nat /\ c \in 0..U32Max
      BY <2>1 DEF TypeOK, ThreadAccess, u32
    <2>3. (IF status = ACCESS_ALLOWED THEN adjust_whitelist_count(c, -1) ELSE c)
             = adjust_whitelist_count(c, d)
      <3>1. CASE status = ACCESS_ALLOWED
        <4>1. d = -1
          BY <1>0, <2>1, <3>1 DEF CountsAsAllowed
        <4> QED
          BY <4>1, <3>1
      <3>2. CASE status # ACCESS_ALLOWED
        <4>1. d = 0
          BY <1>0, <2>1, <3>2 DEF CountsAsAllowed
        <4>2. adjust_whitelist_count(c, 0) = c
          BY <2>2, AdjustExact
        <4> QED
          BY <4>1, <4>2, <3>2
      <3> QED
        BY <3>1, <3>2
    <2>4. access' = [access EXCEPT ![t].whitelist_count = adjust_whitelist_count(@, d)]
      BY <2>1, <2>3
    <2> QED
      BY <2>1, <2>4, CounterFollows
  <1>3. ASSUME NEW k \in TreasuryIdx, NEW j \in AuthorIdx, RequestAccess(w, t, k, j)
        PROVE  WhitelistCountExact'
    <2>1. /\ access[t] # NULL /\ entry[t][w] = NULL
          /\ entry' = [entry EXCEPT ![t][w] = ACCESS_ALLOWED]
          /\ access' = [access EXCEPT ![t].whitelist_count = adjust_whitelist_count(@, 1)]
      BY <1>3 DEF RequestAccess
    <2>2. CountsAsAllowed(ACCESS_ALLOWED) - CountsAsAllowed(entry[t][w]) = 1
      BY <1>0, <2>1 DEF CountsAsAllowed
    <2>3. access' = [access EXCEPT ![t].whitelist_count =
                       adjust_whitelist_count(@, CountsAsAllowed(ACCESS_ALLOWED)
                                                   - CountsAsAllowed(entry[t][w]))]
      BY <2>1, <2>2
    <2> QED
      BY <2>1, <2>3, CounterFollows
  <1> QED
    BY <1>1, <1>2, <1>3, InitThreadAccessCount, AccessSettersCount

\* The cached counter is exact forever (WhitelistCountExact of the membership
\* run): the counter helpers of src/state/loaders.rs never lose or invent a
\* member, whatever the order of the instructions.
THEOREM WhitelistCountCorrect == Spec => []WhitelistCountExact
  <1>1. Init => WhitelistCountExact
    BY DEF Init, WhitelistCountExact
  <1>2. TypeOK /\ WhitelistCountExact /\ [Next]_vars => WhitelistCountExact'
    <2> SUFFICES ASSUME TypeOK, WhitelistCountExact, [Next]_vars
                 PROVE  WhitelistCountExact'
      OBVIOUS
    <2>1. CASE MembershipNext
      BY <2>1, MembershipCount
    <2>2. CASE ~MembershipNext
      <3>1. UNCHANGED <<access, entry>>
        BY <2>2, AccessFrame
      <3> QED
        BY <3>1 DEF WhitelistCountExact, Whitelist
    <2> QED
      BY <2>1, <2>2
  <1> QED
    BY <1>1, <1>2, TypeCorrect, PTL DEF Spec

-----------------------------------------------------------------------------
(***************************************************************************)
(* Who administers a channel, and who posts to it.                         *)
(***************************************************************************)

\* Only process_init_thread_access writes ThreadAccess.admin, and it writes
\* the author of the channel.
LEMMA AdminFrame ==
    ASSUME TypeOK, MembershipNext, NEW t \in Threads, access'[t] # NULL
    PROVE  \/ access[t] # NULL /\ access'[t].admin = access[t].admin
           \/ thread[t] # NULL /\ access'[t].admin = thread[t].author
  <1> PICK w \in Wallets, u \in Threads :
                      \/ \E on \in BOOLEAN, k \in TreasuryIdx : InitThreadAccess(w, u, on, k)
                      \/ \E on \in BOOLEAN : SetThreadAccess(w, u, on)
                      \/ \E fee \in FeeInputs : SetEntryFee(w, u, fee)
                      \/ \E v \in Wallets, status \in Statuses :
                            \/ apply_access_entry_status(w, u, v, status)
                            \/ remove_access_entry(w, u, v, status)
                      \/ \E k \in TreasuryIdx, j \in AuthorIdx : RequestAccess(w, u, k, j)
    BY DEF MembershipNext, Statuses, AddToWhitelist, AddToBlacklist, AddToFeeWhitelist,
           RemoveFromWhitelist, RemoveFromBlacklist, RemoveFromFeeWhitelist
  <1>0. access \in [Threads -> ThreadAccess \cup {NULL}]
    BY DEF TypeOK
  <1>1. ASSUME NEW on \in BOOLEAN, NEW k \in TreasuryIdx, InitThreadAccess(w, u, on, k)
        PROVE  \/ access[t] # NULL /\ access'[t].admin = access[t].admin
               \/ thread[t] # NULL /\ access'[t].admin = thread[t].author
    <2>1. /\ thread[u] # NULL /\ thread[u].author = w
          /\ access' = [access EXCEPT ![u] = [enabled |-> on, admin |-> w, entry_fee |-> 0,
                                              whitelist_count |-> 0]]
      BY <1>1 DEF InitThreadAccess, load_author_thread, load_thread
    <2>2. CASE t = u
      BY <1>0, <2>1, <2>2
    <2>3. CASE t # u
      BY <1>0, <2>1, <2>3
    <2> QED
      BY <2>2, <2>3
  <1>2. ASSUME access[u] # NULL,
               \/ \E on : access' = [access EXCEPT ![u].enabled = on]
               \/ \E fee : access' = [access EXCEPT ![u].entry_fee = fee]
               \/ \E n : access' = [access EXCEPT ![u].whitelist_count = n]
        PROVE  access[t] # NULL /\ access'[t].admin = access[t].admin
    <2>1. access[u] \in ThreadAccess
      BY <1>0, <1>2
    <2>2. CASE t = u
      BY <1>0, <1>2, <2>1, <2>2 DEF ThreadAccess
    <2>3. CASE t # u
      BY <1>0, <1>2, <2>3
    <2> QED
      BY <2>2, <2>3
  <1>3. ASSUME NEW on \in BOOLEAN, SetThreadAccess(w, u, on)
        PROVE  access[t] # NULL /\ access'[t].admin = access[t].admin
    BY <1>2, <1>3 DEF SetThreadAccess, load_admin_access
  <1>4. ASSUME NEW fee \in FeeInputs, SetEntryFee(w, u, fee)
        PROVE  access[t] # NULL /\ access'[t].admin = access[t].admin
    BY <1>2, <1>4 DEF SetEntryFee, load_admin_access
  <1>5. ASSUME NEW v \in Wallets, NEW status \in Statuses,
               \/ apply_access_entry_status(w, u, v, status)
               \/ remove_access_entry(w, u, v, status)
        PROVE  access[t] # NULL /\ access'[t].admin = access[t].admin
    <2>1. access[u] # NULL /\ \E n : access' = [access EXCEPT ![u].whitelist_count = n]
      BY <1>5 DEF apply_access_entry_status, remove_access_entry, load_admin_access
    <2> QED
      BY <1>2, <2>1
  <1>6. ASSUME NEW k \in TreasuryIdx, NEW j \in AuthorIdx, RequestAccess(w, u, k, j)
        PROVE  access[t] # NULL /\ access'[t].admin = access[t].admin
    <2>1. access[u] # NULL /\ \E n : access' = [access EXCEPT ![u].whitelist_count = n]
      BY <1>6 DEF RequestAccess
    <2> QED
      BY <1>2, <2>1
  <1> QED
    BY <1>1, <1>3, <1>4, <1>5, <1>6

\* The wallet that administers a channel's access lists is the wallet
\* fill_slot exempts from them (AdminIsAuthor of the membership run).
THEOREM AdminCorrect == Spec => []AdminIsAuthor
  <1>1. Init => AdminIsAuthor
    BY DEF Init, AdminIsAuthor
  <1>2. TypeOK /\ AdminIsAuthor /\ [Next]_vars => AdminIsAuthor'
    <2> SUFFICES ASSUME TypeOK, AdminIsAuthor, [Next]_vars, NEW t \in Threads, access'[t] # NULL
                 PROVE  thread'[t] # NULL /\ access'[t].admin = thread'[t].author
      BY DEF AdminIsAuthor
    <2>1. thread[t] # NULL /\ access'[t].admin = thread[t].author
      <3>1. CASE MembershipNext
        BY <3>1, AdminFrame DEF AdminIsAuthor
      <3>2. CASE ~MembershipNext
        BY <3>2, AccessFrame DEF AdminIsAuthor
      <3> QED
        BY <3>1, <3>2
    <2>2. thread'[t] # NULL /\ thread'[t].author = thread[t].author
      BY <2>1, ThreadFrame
    <2> QED
      BY <2>1, <2>2
  <1> QED
    BY <1>1, <1>2, TypeCorrect, PTL DEF Spec

\* A message appears in no way but process_fill_slot.
LEMMA OnlyFillSlotPosts ==
    ASSUME TypeOK, [Next]_vars, NEW id \in ContentIds, content[id] = NULL, content'[id] # NULL
    PROVE  PostNext
  <1>0. content \in [ContentIds -> ContentNode \cup {NULL}]
    BY DEF TypeOK
  <1>1. CASE SetupNext
    <2>1. \A w \in Wallets, tr \in TreasuryInputs : InitSettings(w, tr) => content' = content
      BY DEF InitSettings, boardVars
    <2>2. \A w \in Wallets, t \in Threads, fee \in FeeInputs, k \in TreasuryIdx,
             title \in TitleInputs : CreateRootAlloc(w, t, fee, k, title) => content' = content
      BY DEF CreateRootAlloc
    <2> QED
      BY <1>1, <2>1, <2>2 DEF SetupNext
  <1>2. CASE AdminNext
    BY <1>2 DEF AdminNext, SetAdmin, SetTreasury, settingsOnly, boardVars
  <1>3. CASE CutNext
    BY <1>3 DEF CutNext, SetBaseFee, SetAuthorFeeCut, SetEntryCut, SetLikeCut, settingsOnly,
                boardVars
  <1>4. CASE SweepNext
    BY <1>4 DEF SweepNext, SweepTreasury, SweepAuthorFees, boardVars
  <1>5. CASE PageNext
    BY <1>5 DEF PageNext, PrepareAlloc
  <1>6. CASE DeleteNext
    <2>1. \E x : content' = [content EXCEPT ![x] = NULL]
      BY <1>6 DEF DeleteNext, CloseAccount
    <2> QED
      BY <1>0, <2>1
  <1>7. CASE AppendNext
    <2>1. \E x \in ContentIds : /\ content[x] # NULL
                               /\ \E b : content' = [content EXCEPT ![x].body = b]
      BY <1>7 DEF AppendNext, AppendContent, load_own_content
    <2> QED
      BY <1>0, <2>1
  <1>8. CASE LikeNext
    BY <1>8 DEF LikeNext, LikeContent
  <1>9. CASE PricingNext
    BY <1>9 DEF PricingNext, SetMessageFee, SetLikeFee, threadOnly
  <1>10. CASE FollowNext
    BY <1>10 DEF FollowNext, Subscribe, Unsubscribe, followOnly, boardVars
  <1>11. CASE GiftNext \/ Tick \/ UNCHANGED vars
    BY <1>11 DEF GiftNext, SystemTransfer, Tick, vars, boardVars
  <1>12. CASE MembershipNext
    BY <1>12, MembershipFrame DEF boardVars
  <1> QED
    BY <1>1, <1>2, <1>3, <1>4, <1>5, <1>6, <1>7, <1>8, <1>9, <1>10, <1>11, <1>12 DEF Next

\* No message gets past the gate (PostRespectsMembership of the membership
\* run): process_fill_slot decides by the cached counter, which is exact.
THEOREM PostsRespectMembership == Spec => PostRespectsMembership
  <1> DEFINE Gate(id) ==
        content[id] = NULL /\ content'[id] # NULL =>
            LET t == id[1]
                w == content'[id].author
            IN  /\ entry[t][w] # ACCESS_DENIED
                /\ (/\ access[t] # NULL
                    /\ access[t].enabled
                    /\ Whitelist(t) # {} \/ access[t].entry_fee > 0)
                   => \/ w = thread[t].author
                      \/ w \in Whitelist(t)
                      \/ entry[t][w] = ACCESS_FEE_EXEMPT
  <1>1. ASSUME TypeOK, WhitelistCountExact, [Next]_vars, NEW id \in ContentIds
        PROVE  Gate(id)
    <2> SUFFICES ASSUME content[id] = NULL, content'[id] # NULL
                 PROVE  Gate(id)
      OBVIOUS
    <2>1. PICK w \in Wallets, t \in Threads, body \in BodyInputs, c \in CandidateInputs,
               k \in TreasuryIdx, j \in AuthorIdx, m \in MaxFeeInputs :
                  FillSlot(w, t, body, c, k, j, m)
      BY <1>1, OnlyFillSlotPosts DEF PostNext
    <2>2. PICK i \in DOMAIN c :
            content' = [content EXCEPT ![<<t, c[i][1], c[i][2]>>] =
                          [author |-> w, created_at |-> now, body |-> body]]
      BY <2>1 DEF FillSlot
    <2>3. /\ id = <<t, c[i][1], c[i][2]>>
          /\ content'[id].author = w
      BY <1>1, <2>2 DEF TypeOK
    <2>4. id[1] = t
      BY <2>3
    <2>5. allowed_to_post(w, t)
      BY <2>1 DEF FillSlot
    <2>6. access[t] # NULL /\ Whitelist(t) # {} => access[t].whitelist_count > 0
      <3>1. Whitelist(t) \in SUBSET Wallets
        BY DEF Whitelist
      <3>2. IsFiniteSet(Whitelist(t)) /\ Cardinality(Whitelist(t)) \in Nat
        BY <3>1, WhitelistSize
      <3>3. Whitelist(t) # {} => Cardinality(Whitelist(t)) # 0
        BY <3>2, FS_EmptySet
      <3> QED
        BY <1>1, <3>2, <3>3 DEF WhitelistCountExact
    <2>7. entry[t][w] = ACCESS_ALLOWED => w \in Whitelist(t)
      BY DEF Whitelist
    <2> QED
      BY <2>3, <2>4, <2>5, <2>6, <2>7 DEF allowed_to_post, gating_enabled
  <1>2. TypeOK /\ WhitelistCountExact /\ [Next]_vars => [\A id \in ContentIds : Gate(id)]_vars
    BY <1>1
  <1> QED
    BY <1>2, TypeCorrect, WhitelistCountCorrect, PTL DEF Spec, PostRespectsMembership

-----------------------------------------------------------------------------
(***************************************************************************)
(* Who touches follows.                                                    *)
(***************************************************************************)

\* Only src/processor/{subscribe, unsubscribe}.rs write a registry or a
\* follower shard.
LEMMA FollowFrame ==
    ASSUME [Next]_vars, ~FollowNext
    PROVE  UNCHANGED <<registry, follower_shard>>
  <1>1. CASE SetupNext
    <2>1. \A w \in Wallets, tr \in TreasuryInputs : InitSettings(w, tr) => UNCHANGED followVars
      BY DEF InitSettings
    <2>2. \A w \in Wallets, t \in Threads, fee \in FeeInputs, k \in TreasuryIdx,
             title \in TitleInputs : CreateRootAlloc(w, t, fee, k, title) => UNCHANGED followVars
      BY DEF CreateRootAlloc
    <2> QED
      BY <1>1, <2>1, <2>2 DEF SetupNext, followVars
  <1>2. CASE AdminNext
    BY <1>2 DEF AdminNext, SetAdmin, SetTreasury, settingsOnly, followVars
  <1>3. CASE CutNext
    BY <1>3 DEF CutNext, SetBaseFee, SetAuthorFeeCut, SetEntryCut, SetLikeCut, settingsOnly,
                followVars
  <1>4. CASE SweepNext
    BY <1>4 DEF SweepNext, SweepTreasury, SweepAuthorFees, followVars
  <1>5. CASE MembershipNext
    <2>1. PICK w \in Wallets, t \in Threads :
                      \/ \E on \in BOOLEAN, k \in TreasuryIdx : InitThreadAccess(w, t, on, k)
                      \/ \E on \in BOOLEAN : SetThreadAccess(w, t, on)
                      \/ \E fee \in FeeInputs : SetEntryFee(w, t, fee)
                      \/ \E v \in Wallets, status \in Statuses :
                            \/ apply_access_entry_status(w, t, v, status)
                            \/ remove_access_entry(w, t, v, status)
                      \/ \E k \in TreasuryIdx, j \in AuthorIdx : RequestAccess(w, t, k, j)
      BY <1>5 DEF MembershipNext, Statuses, AddToWhitelist, AddToBlacklist, AddToFeeWhitelist,
             RemoveFromWhitelist, RemoveFromBlacklist, RemoveFromFeeWhitelist
    <2>2. ASSUME NEW on \in BOOLEAN, NEW k \in TreasuryIdx, InitThreadAccess(w, t, on, k)
          PROVE  UNCHANGED followVars
      BY <2>2 DEF InitThreadAccess
    <2>3. ASSUME NEW k \in TreasuryIdx, NEW j \in AuthorIdx, RequestAccess(w, t, k, j)
          PROVE  UNCHANGED followVars
      BY <2>3 DEF RequestAccess
    <2>4. ASSUME NEW v \in Wallets, NEW status \in Statuses,
                 \/ apply_access_entry_status(w, t, v, status)
                 \/ remove_access_entry(w, t, v, status)
          PROVE  UNCHANGED followVars
      BY <2>4 DEF apply_access_entry_status, remove_access_entry
    <2> QED
      BY <2>1, <2>2, <2>3, <2>4 DEF SetThreadAccess, SetEntryFee, followVars
  <1>6. CASE PageNext
    BY <1>6 DEF PageNext, PrepareAlloc, followVars
  <1>7. CASE PostNext
    BY <1>7 DEF PostNext, FillSlot, followVars
  <1>8. CASE DeleteNext
    BY <1>8 DEF DeleteNext, CloseAccount, followVars
  <1>9. CASE AppendNext
    BY <1>9 DEF AppendNext, AppendContent, followVars
  <1>10. CASE LikeNext
    BY <1>10 DEF LikeNext, LikeContent, followVars
  <1>11. CASE PricingNext
    BY <1>11 DEF PricingNext, SetMessageFee, SetLikeFee, threadOnly, followVars
  <1>12. CASE GiftNext \/ Tick \/ UNCHANGED vars
    BY <1>12 DEF GiftNext, SystemTransfer, Tick, vars, followVars
  <1> QED
    BY <1>1, <1>2, <1>3, <1>4, <1>5, <1>6, <1>7, <1>8, <1>9, <1>10, <1>11, <1>12 DEF Next

-----------------------------------------------------------------------------
(***************************************************************************)
(* The registry of a wallet.                                               *)
(***************************************************************************)

\* The list has no element twice.
Injective(list) == \A i, j \in DOMAIN list : list[i] = list[j] => i = j

\* c is an element of the list.
Occurs(list, c) == \E i \in DOMAIN list : list[i] = c

\* Vec::push of an element that is not in the list adds it and nothing else.
LEMMA PushEffect ==
    ASSUME NEW list \in Seq(Threads), NEW t \in Threads, Injective(list), ~Occurs(list, t)
    PROVE  /\ Append(list, t) \in Seq(Threads)
           /\ Len(Append(list, t)) = Len(list) + 1
           /\ Injective(Append(list, t))
           /\ \A c : Occurs(Append(list, t), c) <=> Occurs(list, c) \/ c = t
  <1> DEFINE longer == Append(list, t)
             n      == Len(list)
  <1>1. /\ n \in Nat /\ DOMAIN list = 1..n
        /\ longer \in Seq(Threads) /\ Len(longer) = n + 1 /\ DOMAIN longer = 1..(n + 1)
        /\ \A i \in 1..n : longer[i] = list[i]
        /\ longer[n + 1] = t
    OBVIOUS
  <1> HIDE DEF longer, n
  <1>2. Injective(longer)
    BY <1>1 DEF Injective, Occurs
  <1>3. ASSUME NEW c PROVE Occurs(longer, c) <=> Occurs(list, c) \/ c = t
    BY <1>1 DEF Occurs
  <1> QED
    BY <1>1, <1>2, <1>3 DEF longer, n

\* Vec::swap_remove of one element of a list without duplicates removes it,
\* keeps all the others and leaves no duplicate: the last element moves.
LEMMA SwapRemoveEffect ==
    ASSUME NEW list \in Seq(Threads), NEW pos \in DOMAIN list, Injective(list)
    PROVE  /\ Injective(swap_remove(list, pos))
           /\ \A c : Occurs(swap_remove(list, pos), c) <=> Occurs(list, c) /\ c # list[pos]
  <1> DEFINE shorter == swap_remove(list, pos)
             n       == Len(list)
  <1>1. n \in Nat \ {0} /\ DOMAIN list = 1..n /\ pos \in 1..n
    OBVIOUS
  <1>2. /\ DOMAIN shorter = 1..(n - 1)
        /\ \A i \in 1..(n - 1) : shorter[i] = IF i = pos THEN list[n] ELSE list[i]
    BY <1>1 DEF swap_remove
  <1> HIDE DEF shorter, n
  <1>3. Injective(shorter)
    BY <1>1, <1>2 DEF Injective
  <1>4. ASSUME NEW c, Occurs(shorter, c) PROVE Occurs(list, c) /\ c # list[pos]
    BY <1>1, <1>2, <1>4 DEF Occurs, Injective
  <1>5. ASSUME NEW c, Occurs(list, c), c # list[pos] PROVE Occurs(shorter, c)
    <2>1. PICK i \in 1..n : list[i] = c /\ i # pos
      BY <1>1, <1>5 DEF Occurs
    <2>2. CASE i = n
      <3>1. pos \in 1..(n - 1) /\ shorter[pos] = c
        BY <1>1, <1>2, <2>1, <2>2
      <3> QED
        BY <1>2, <3>1 DEF Occurs
    <2>3. CASE i # n
      <3>1. i \in 1..(n - 1) /\ shorter[i] = c
        BY <1>1, <1>2, <2>1, <2>3
      <3> QED
        BY <1>2, <3>1 DEF Occurs
    <2> QED
      BY <2>2, <2>3
  <1> QED
    BY <1>3, <1>4, <1>5 DEF shorter

\* process_subscribe adds the channel to the caller's registry, which did not
\* list it, and one to the shard of the caller.
LEMMA SubscribeEffect ==
    ASSUME TypeOK, RegistryDistinct, NEW w \in Wallets, NEW t \in Threads, Subscribe(w, t)
    PROVE  /\ \A v \in Wallets \ {w} : registry'[v] = registry[v]
           /\ registry'[w] \in Seq(Threads)
           /\ Len(registry'[w]) <= MAX_FOLLOWS
           /\ Injective(registry'[w])
           /\ ~(registry[w] # NULL /\ Occurs(registry[w], t))
           /\ \A c : Occurs(registry'[w], c) <=>
                      (registry[w] # NULL /\ Occurs(registry[w], c)) \/ c = t
  <1> DEFINE channels == IF registry[w] = NULL THEN <<>> ELSE registry[w]
  <1>0. registry \in [Wallets -> Seq(Threads) \cup {NULL}] /\ MAX_FOLLOWS \in Nat
    BY AccountsAssumption DEF TypeOK
  <1>1. /\ registry' = [registry EXCEPT ![w] = Append(channels, t)]
        /\ \A i \in DOMAIN channels : channels[i] # t
        /\ Len(channels) < MAX_FOLLOWS
    BY DEF Subscribe
  <1>2. channels \in Seq(Threads)
    BY <1>0
  <1>3. \A c : Occurs(channels, c) <=> registry[w] # NULL /\ Occurs(registry[w], c)
    BY DEF Occurs
  <1>4. Injective(channels)
    BY DEF Injective, RegistryDistinct
  <1>5. ~Occurs(channels, t)
    BY <1>1 DEF Occurs
  <1>6. registry'[w] = Append(channels, t) /\ \A v \in Wallets \ {w} : registry'[v] = registry[v]
    BY <1>0, <1>1
  <1> HIDE DEF channels
  <1>7. /\ Append(channels, t) \in Seq(Threads)
        /\ Len(Append(channels, t)) = Len(channels) + 1
        /\ Injective(Append(channels, t))
        /\ \A c : Occurs(Append(channels, t), c) <=> Occurs(channels, c) \/ c = t
    BY <1>2, <1>4, <1>5, PushEffect
  <1>8. Len(Append(channels, t)) <= MAX_FOLLOWS
    BY <1>0, <1>1, <1>2, <1>7
  <1> QED
    BY <1>3, <1>5, <1>6, <1>7, <1>8

\* process_unsubscribe removes the channel from the caller's registry, which
\* listed it, and leaves it listed nowhere in it.
LEMMA UnsubscribeEffect ==
    ASSUME TypeOK, RegistryDistinct, NEW w \in Wallets, NEW t \in Threads, Unsubscribe(w, t)
    PROVE  /\ \A v \in Wallets \ {w} : registry'[v] = registry[v]
           /\ registry[w] # NULL
           /\ registry'[w] \in Seq(Threads)
           /\ Len(registry'[w]) <= MAX_FOLLOWS
           /\ Injective(registry'[w])
           /\ Occurs(registry[w], t)
           /\ \A c : Occurs(registry'[w], c) <=> Occurs(registry[w], c) /\ c # t
  <1> DEFINE channels == registry[w]
  <1>0. registry \in [Wallets -> Seq(Threads) \cup {NULL}] /\ MAX_FOLLOWS \in Nat
    BY AccountsAssumption DEF TypeOK
  <1>1. channels # NULL
    BY DEF Unsubscribe
  <1>2. PICK pos \in DOMAIN channels :
            /\ channels[pos] = t
            /\ registry' = [registry EXCEPT ![w] = swap_remove(channels, pos)]
    BY DEF Unsubscribe
  <1>3. /\ channels \in Seq(Threads)
        /\ Len(channels) <= MAX_FOLLOWS
        /\ Injective(channels)
    BY <1>0, <1>1 DEF RegistryDistinct, Injective
  <1>4. /\ registry'[w] = swap_remove(channels, pos)
        /\ \A v \in Wallets \ {w} : registry'[v] = registry[v]
    BY <1>0, <1>2
  <1>5. Occurs(channels, t)
    BY <1>2 DEF Occurs
  <1> HIDE DEF channels
  <1>6. /\ swap_remove(channels, pos) \in Seq(Threads)
        /\ Len(swap_remove(channels, pos)) = Len(channels) - 1
    BY <1>2, <1>3, SwapRemoveTypes
  <1>7. /\ Injective(swap_remove(channels, pos))
        /\ \A c : Occurs(swap_remove(channels, pos), c) <=> Occurs(channels, c) /\ c # t
    BY <1>2, <1>3, SwapRemoveEffect
  <1>8. Len(swap_remove(channels, pos)) <= MAX_FOLLOWS
    BY <1>0, <1>3, <1>6
  <1> QED
    BY <1>1, <1>4, <1>5, <1>6, <1>7, <1>8 DEF channels

\* One step keeps the registries free of duplicates.
LEMMA RegistryStep ==
    ASSUME TypeOK, RegistryDistinct, [Next]_vars
    PROVE  RegistryDistinct'
  <1>1. CASE FollowNext
    <2>1. PICK w \in Wallets, t \in Threads : Subscribe(w, t) \/ Unsubscribe(w, t)
      BY <1>1 DEF FollowNext
    <2>2. /\ \A v \in Wallets \ {w} : registry'[v] = registry[v]
          /\ Len(registry'[w]) <= MAX_FOLLOWS
          /\ Injective(registry'[w])
      BY <2>1, SubscribeEffect, UnsubscribeEffect
    <2> QED
      BY <2>2 DEF RegistryDistinct, Injective
  <1>2. CASE ~FollowNext
    BY <1>2, FollowFrame DEF RegistryDistinct
  <1> QED
    BY <1>1, <1>2

\* A registry lists a channel at most once and never exceeds MAX_FOLLOWS
\* (RegistryDistinct of the follows run): process_subscribe looks for the
\* channel before it pushes, and swap_remove keeps what it does not remove.
THEOREM RegistryCorrect == Spec => []RegistryDistinct
  <1>1. Init => RegistryDistinct
    BY DEF Init, RegistryDistinct
  <1> QED
    BY <1>1, RegistryStep, TypeCorrect, PTL DEF Spec

-----------------------------------------------------------------------------
(***************************************************************************)
(* The follower shards of a channel.                                       *)
(***************************************************************************)

\* The registry of w lists c.
Lists(w, c) == registry[w] # NULL /\ Occurs(registry[w], c)

\* If one wallet's registry changes, and for one channel at most, then the
\* followers of every other shard stay the same, and so do the others of the
\* wallet's own shard.
LEMMA FollowersMove ==
    ASSUME NEW w \in Wallets, NEW t \in Threads,
           \A v \in Wallets \ {w} : registry'[v] = registry[v],
           \A c \in Threads \ {t} : Lists(w, c)' <=> Lists(w, c)
    PROVE  /\ \A c \in Threads, k \in Int :
                 <<c, k>> # <<t, follower_shard_index(w)>>
                     => Followers(c, k)' = Followers(c, k)
           /\ LET F == Followers(t, follower_shard_index(w))
              IN  IF Lists(w, t)' THEN F' = F \cup {w} ELSE F' = F \ {w}
  <1>1. \A c, k : Followers(c, k) = {v \in Wallets : follower_shard_index(v) = k /\ Lists(v, c)}
    BY DEF Followers, Lists, Occurs
  <1>2. \A c, k : Followers(c, k)' = {v \in Wallets : follower_shard_index(v) = k /\ Lists(v, c)'}
    BY DEF Followers, Lists, Occurs, follower_shard_index
  <1>3. \A v \in Wallets \ {w} : \A c : Lists(v, c)' <=> Lists(v, c)
    BY DEF Lists, Occurs
  <1>4. ASSUME NEW c \in Threads, NEW k \in Int, <<c, k>> # <<t, follower_shard_index(w)>>
        PROVE  Followers(c, k)' = Followers(c, k)
    BY <1>1, <1>2, <1>3, <1>4
  <1>5. LET F == Followers(t, follower_shard_index(w))
        IN  IF Lists(w, t)' THEN F' = F \cup {w} ELSE F' = F \ {w}
    BY <1>1, <1>2, <1>3
  <1> QED
    BY <1>4, <1>5

\* The followers of a shard are finitely many.
LEMMA FollowersFinite ==
    ASSUME NEW c, NEW k
    PROVE  IsFiniteSet(Followers(c, k)) /\ Cardinality(Followers(c, k)) \in Nat
  <1>1. Followers(c, k) \subseteq Wallets /\ IsFiniteSet(Wallets)
    BY AccountsAssumption DEF Followers
  <1>2. IsFiniteSet(Followers(c, k))
    BY <1>1, FS_Subset
  <1> QED
    BY <1>2, FS_CardinalityType

\* What a follower shard counts: nothing until it is created.
Counted(s) == IF follower_shard[s] = NULL THEN 0 ELSE follower_shard[s]

\* A shard that exists holds a number, so a missing one is not mistaken for it.
LEMMA CountedTypes ==
    ASSUME TypeOK, NEW s \in FollowerShards
    PROVE  Counted(s) \in Nat /\ (follower_shard[s] # NULL => follower_shard[s] \in Nat)
  BY LedgerAssumption DEF TypeOK, Counted, u64

\* process_subscribe counts the new follower: its checked_add neither fails
\* silently nor counts one that was counted before.
LEMMA SubscribeCounts ==
    ASSUME TypeOK, RegistryDistinct, FollowerCountExact,
           NEW w \in Wallets, NEW t \in Threads, Subscribe(w, t)
    PROVE  FollowerCountExact'
  <1> DEFINE s == <<t, follower_shard_index(w)>>
             F == Followers(t, follower_shard_index(w))
  <1>0. s \in FollowerShards /\ follower_shard \in [FollowerShards -> u64 \cup {NULL}]
    BY FollowerShardTypes DEF TypeOK
  <1>1. follower_shard' = [follower_shard EXCEPT ![s] = IF @ = NULL THEN 1 ELSE @ + 1]
    BY DEF Subscribe
  <1>2. Counted(s) \in Nat /\ (follower_shard[s] # NULL => follower_shard[s] \in Nat)
    BY <1>0, CountedTypes
  <1>3. follower_shard'[s] \in Nat /\ follower_shard'[s] = Counted(s) + 1
    BY <1>0, <1>1, <1>2 DEF Counted
  <1>4. follower_shard'[s] # NULL
    BY <1>3, NullAssumption
  <1>5. \A x \in FollowerShards \ {s} : follower_shard'[x] = follower_shard[x]
    BY <1>0, <1>1
  <1>6. /\ \A v \in Wallets \ {w} : registry'[v] = registry[v]
        /\ registry'[w] # NULL
        /\ ~Lists(w, t)
        /\ \A c : Occurs(registry'[w], c) <=> Lists(w, c) \/ c = t
    <2>1. registry'[w] \in Seq(Threads) => registry'[w] # NULL
      BY NullAssumption
    <2> QED
      BY <2>1, SubscribeEffect DEF Lists
  <1>7. \A c : Lists(w, c)' <=> Lists(w, c) \/ c = t
    BY <1>6 DEF Lists, Occurs
  <1>8. /\ \A c \in Threads, k \in Int : <<c, k>> # s => Followers(c, k)' = Followers(c, k)
        /\ F' = F \cup {w}
    BY <1>6, <1>7, FollowersMove
  <1>9. w \notin F
    BY <1>6 DEF Followers, Lists, Occurs
  <1>10. Cardinality(F)' = Cardinality(F) + 1
    BY <1>8, <1>9, FollowersFinite, FS_AddElement
  <1>11. Cardinality(F) = Counted(s)
    BY <1>0 DEF FollowerCountExact, Counted
  <1>12. ASSUME NEW x \in FollowerShards, x # s
         PROVE  Cardinality(Followers(x[1], x[2]))' = Counted(x)'
    <2>1. x = <<x[1], x[2]>> /\ x[1] \in Threads /\ x[2] \in Int
      BY AccountsAssumption DEF FollowerShards
    <2>2. Followers(x[1], x[2])' = Followers(x[1], x[2])
      BY <1>8, <1>12, <2>1
    <2> QED
      BY <1>5, <1>12, <2>2 DEF FollowerCountExact, Counted
  <1>13. Cardinality(Followers(s[1], s[2]))' = Counted(s)'
    BY <1>3, <1>4, <1>10, <1>11 DEF Counted, follower_shard_index
  <1> QED
    BY <1>12, <1>13 DEF FollowerCountExact, Counted

\* process_unsubscribe takes the follower out of the count: somebody was
\* counted, so its saturating_sub never saturates.
LEMMA UnsubscribeCounts ==
    ASSUME TypeOK, RegistryDistinct, FollowerCountExact,
           NEW w \in Wallets, NEW t \in Threads, Unsubscribe(w, t)
    PROVE  FollowerCountExact'
  <1> DEFINE s == <<t, follower_shard_index(w)>>
             F == Followers(t, follower_shard_index(w))
  <1>0. s \in FollowerShards /\ follower_shard \in [FollowerShards -> u64 \cup {NULL}]
    BY FollowerShardTypes DEF TypeOK
  <1>1. /\ follower_shard[s] # NULL
        /\ follower_shard' = [follower_shard EXCEPT ![s] = SaturatingSub(@, 1)]
    BY DEF Unsubscribe
  <1>2. /\ \A v \in Wallets \ {w} : registry'[v] = registry[v]
        /\ registry'[w] # NULL
        /\ Lists(w, t)
        /\ \A c : Occurs(registry'[w], c) <=> Lists(w, c) /\ c # t
    <2>1. registry'[w] \in Seq(Threads) => registry'[w] # NULL
      BY NullAssumption
    <2> QED
      BY <2>1, UnsubscribeEffect DEF Lists
  <1>3. \A c : Lists(w, c)' <=> Lists(w, c) /\ c # t
    BY <1>2 DEF Lists, Occurs
  <1>4. /\ \A c \in Threads, k \in Int : <<c, k>> # s => Followers(c, k)' = Followers(c, k)
        /\ F' = F \ {w}
    BY <1>2, <1>3, FollowersMove
  <1>5. w \in F
    BY <1>2 DEF Followers, Lists, Occurs
  <1>6. Cardinality(F)' = Cardinality(F) - 1 /\ Cardinality(F)' \in Nat /\ Cardinality(F) \in Nat
    <2>1. IsFiniteSet(F) /\ Cardinality(F) \in Nat
      BY FollowersFinite
    <2>2. IsFiniteSet(F \ {w}) /\ Cardinality(F \ {w}) = Cardinality(F) - 1
      BY <1>5, <2>1, FS_RemoveElement
    <2>3. Cardinality(F \ {w}) \in Nat
      BY <2>2, FS_CardinalityType
    <2> QED
      BY <1>4, <2>1, <2>2, <2>3
  <1>7. follower_shard[s] = Cardinality(F)
    BY <1>0, <1>1 DEF FollowerCountExact
  <1>8. follower_shard'[s] = Cardinality(F)' /\ follower_shard'[s] # NULL
    <2>1. follower_shard'[s] = SaturatingSub(follower_shard[s], 1)
      BY <1>0, <1>1
    <2>2. SaturatingSub(Cardinality(F), 1) = Cardinality(F) - 1
      BY <1>6 DEF SaturatingSub
    <2> QED
      BY <1>6, <1>7, <2>1, <2>2, NullAssumption
  <1>9. \A x \in FollowerShards \ {s} : follower_shard'[x] = follower_shard[x]
    BY <1>0, <1>1
  <1>10. ASSUME NEW x \in FollowerShards, x # s
         PROVE  Cardinality(Followers(x[1], x[2]))' = Counted(x)'
    <2>1. x = <<x[1], x[2]>> /\ x[1] \in Threads /\ x[2] \in Int
      BY AccountsAssumption DEF FollowerShards
    <2>2. Followers(x[1], x[2])' = Followers(x[1], x[2])
      BY <1>4, <1>10, <2>1
    <2> QED
      BY <1>9, <1>10, <2>2 DEF FollowerCountExact, Counted
  <1>11. Cardinality(Followers(s[1], s[2]))' = Counted(s)'
    BY <1>8 DEF Counted, follower_shard_index
  <1> QED
    BY <1>10, <1>11 DEF FollowerCountExact, Counted

\* One step keeps the counters exact.
LEMMA CountStep ==
    ASSUME TypeOK, RegistryDistinct, FollowerCountExact, [Next]_vars
    PROVE  FollowerCountExact'
  <1>1. CASE FollowNext
    BY <1>1, SubscribeCounts, UnsubscribeCounts DEF FollowNext
  <1>2. CASE ~FollowNext
    <2>1. UNCHANGED <<registry, follower_shard>>
      BY <1>2, FollowFrame
    <2>2. \A c, k : Followers(c, k)' = Followers(c, k)
      BY <2>1 DEF Followers, follower_shard_index
    <2> QED
      BY <2>1, <2>2 DEF FollowerCountExact
  <1> QED
    BY <1>1, <1>2

\* Each follower shard counts exactly the registries of its wallets that list
\* its channel (FollowerCountExact of the follows run), so that the shards of
\* a channel add up to its followers without anybody ever scanning them.
THEOREM FollowerCountCorrect == Spec => []FollowerCountExact
  <1>1. Init => FollowerCountExact
    <2> SUFFICES ASSUME Init PROVE FollowerCountExact
      OBVIOUS
    <2>1. \A c, k : Followers(c, k) = {}
      BY DEF Init, Followers
    <2>2. Cardinality({}) = 0
      BY FS_EmptySet
    <2> QED
      BY <2>1, <2>2 DEF Init, FollowerCountExact
  <1> QED
    BY <1>1, CountStep, TypeCorrect, RegistryCorrect, PTL DEF Spec
=============================================================================
