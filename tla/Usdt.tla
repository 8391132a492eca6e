---- MODULE Usdt ----
(***************************************************************************)
(* The USDT token the Polygon contracts are deployed with.  It is not part *)
(* of the repository: what is modelled is what the contracts rely on, a    *)
(* ledger whose transfers either happen in full or revert, and which calls *)
(* nobody back.  Only the balances of ordinary accounts are kept here; a   *)
(* contract keeps the tokens it holds next to its own state.               *)
(***************************************************************************)
EXTENDS Integers

CONSTANTS
  Parties,      \* accounts that trade: buyers and sellers
  Arbitrators,  \* accounts that may be hired to arbitrate
  Relays,       \* hot wallets of the backend
  Safe,         \* the platform's multisig: admin of every contract
  NoOne         \* address(0)

Users == Parties \cup Arbitrators \cup Relays \cup {Safe}

ASSUME NoOneAssumption == NoOne \notin Users

VARIABLE wallet \* tokens of every user

WalletOK == wallet \in [Users -> Nat]

Credit(w, u, x) == [w EXCEPT ![u] = @ + x]

\* u can pay x, and w is what the users hold afterwards.
Pays(u, x) == wallet[u] >= x /\ wallet' = [wallet EXCEPT ![u] = @ - x]
====
