----------------------------- MODULE ShareLedger -----------------------------
(***************************************************************************)
(* What a share token promises (internal/storage/storage.go:153-156): it   *)
(* is minted once, spent at most once, and brings forth at most one copy,  *)
(* and that only after it was spent.  A spent token may stay without one   *)
(* (internal/sharing/sharing.go:49-54).                                    *)
(***************************************************************************)
CONSTANTS Tokens, Ids

VARIABLES
  state,   \* per token: "none", "open" or "spent"
  copies   \* per token: the entries made from it

ledger == <<state, copies>>

LedgerInit ==
  /\ state = [s \in Tokens |-> "none"]
  /\ copies = [s \in Tokens |-> {}]

Mint(s) ==
  /\ state[s] = "none"
  /\ state' = [state EXCEPT ![s] = "open"]
  /\ UNCHANGED copies

Spend(s) ==
  /\ state[s] = "open"
  /\ state' = [state EXCEPT ![s] = "spent"]
  /\ UNCHANGED copies

Deliver(s, i) ==
  /\ state[s] = "spent"
  /\ copies[s] = {}
  /\ copies' = [copies EXCEPT ![s] = {i}]
  /\ UNCHANGED state

LedgerNext ==
  \E s \in Tokens : Mint(s) \/ Spend(s) \/ \E i \in Ids : Deliver(s, i)

LedgerSpec == LedgerInit /\ [][LedgerNext]_ledger
=============================================================================
