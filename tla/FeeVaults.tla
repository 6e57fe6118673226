----------------------------- MODULE FeeVaults ------------------------------
(***************************************************************************)
(* What the program promises those it collects fees for, without accounts, *)
(* instructions or fee schedules: a vault is opened only for an owner, it  *)
(* only ever fills up, until everything above the floor is withdrawn to    *)
(* its owner of that moment, and nothing is made or lost on the way.  The  *)
(* owner of the shared vaults may be replaced, any other owner never.      *)
(***************************************************************************)
EXTENDS Naturals

CONSTANTS
    Keys,      \* everything that has a balance
    Vaults,    \* the keys that are vaults
    Shared,    \* the vaults that have one owner in common
    Floor,     \* what stays in a vault
    Nobody     \* the owner of a vault that has none yet

VARIABLES
    balance,   \* balance[a] of every key
    supply,    \* the sum of the balances
    open,      \* the vaults that are open
    owner      \* owner[v], or Nobody

vaultState == <<balance, supply, open, owner>>

VaultsInit ==
    /\ open = {}
    /\ owner = [v \in Vaults |-> Nobody]
    /\ \A v \in Vaults : balance[v] = 0

\* Business as usual: balances outside the vaults change in any way that keeps
\* the supply, vaults fill up, and get their owners and are opened.
Collect ==
    /\ \A v \in Vaults : balance'[v] >= balance[v]
    /\ open \subseteq open'
    /\ \A v \in open' \ open : owner'[v] # Nobody
    /\ \A v \in Vaults : owner[v] # Nobody => owner'[v] = owner[v]
    /\ supply' = supply

Appoint(a) ==
    /\ \A v \in Vaults :
         IF v \in Shared THEN owner[v] # Nobody /\ owner'[v] = a ELSE owner'[v] = owner[v]
    /\ UNCHANGED <<balance, supply, open>>

\* The owner a takes what the vaults of V hold above the floor; a vault may be
\* the owner of others, or of itself.
Withdraw(V, a) ==
    /\ V \subseteq open
    /\ \A v \in V : owner[v] = a
    /\ \A v \in V \ {a} : balance[v] >= Floor /\ balance'[v] = Floor
    /\ balance'[a] >= balance[a]
    /\ \A x \in Keys \ (V \cup {a}) : balance'[x] = balance[x]
    /\ UNCHANGED <<supply, open, owner>>

VaultsNext ==
    \/ Collect
    \/ \E a \in Keys : Appoint(a)
    \/ \E V \in SUBSET open, a \in Keys : Withdraw(V, a)

VaultsSpec == VaultsInit /\ [][VaultsNext]_vaultState
=============================================================================
