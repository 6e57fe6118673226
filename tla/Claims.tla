------------------------------- MODULE Claims -------------------------------
(***************************************************************************)
(* What the repository's documents and comments say of the program and the *)
(* code does not do.  Each is checked by a run that finds the behaviour    *)
(* contradicting it.                                                       *)
(***************************************************************************)
EXTENDS Txtcel

\* src/state/accounts.rs:179 says of AllocLikes.counts that "a freed slot's
\* entry is reset to zero so a reused slot never inherits old likes".
\* process_close_account resets it only if the caller passes the account.
ReusedSlotStartsUnliked ==
    [][\A id \in ContentIds :
        content[id] = NULL /\ content'[id] # NULL /\ likes[<<id[1], id[2]>>] # NULL
            => likes'[<<id[1], id[2]>>][id[3]] = 0
      ]_vars

\* SECURITY.md:56-59 says that a like "charges the like fee" and that "every
\* like is economically costly".  Even where a like has a price, the author of
\* the message likes it for free (process_like_content).
EveryLikeCosts ==
    [][\A p \in Pages, i \in Slots :
        (/\ likes[p] # NULL
         /\ likes'[p][i] > likes[p][i]
         /\ thread[p[1]].like_fee > 0)
            => \E w \in Wallets : lamports'[w] < lamports[w]
      ]_vars

\* SECURITY.md:71-72 says that with gating on, an empty whitelist and a zero
\* entry fee "request_access effectively lets anyone self-admit for free".
\* process_request_access refuses a zero entry fee, for a wallet that can
\* afford the accounts as for any other.
FreeSelfAdmission ==
    \A t \in Threads, w \in Wallets :
        (/\ access[t] # NULL
         /\ access[t].enabled
         /\ access[t].whitelist_count = 0
         /\ access[t].entry_fee = 0
         /\ entry[t][w] = NULL
         /\ lamports[w] >= minimum_balance(AccessEntry_size) + 3 * minimum_balance(0))
            => ENABLED RequestAccess(w, t, 0, 0)
=============================================================================
