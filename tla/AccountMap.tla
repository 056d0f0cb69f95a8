----------------------------- MODULE AccountMap -----------------------------
(***************************************************************************)
(* What a Statedb promises: a map from addresses to accounts that is changed *)
(* one account at a time, and of which snapshots can be kept and opened.     *)
(***************************************************************************)
CONSTANTS Account, NoAccount

VARIABLES accounts,   \* the map
          snapshots   \* the maps that have been committed

NoAccounts == [a \in Account |-> NoAccount]

Init == accounts = NoAccounts /\ snapshots = {NoAccounts}

Change(a) ==
  /\ accounts'[a] # NoAccount
  /\ accounts' = [accounts EXCEPT ![a] = accounts'[a]]
  /\ UNCHANGED snapshots

Save == snapshots' = snapshots \cup {accounts} /\ UNCHANGED accounts

Open == accounts' \in snapshots /\ UNCHANGED snapshots

Next == (\E a \in Account : Change(a)) \/ Save \/ Open

Spec == Init /\ [][Next]_<<accounts, snapshots>>
=============================================================================
