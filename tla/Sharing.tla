------------------------------- MODULE Sharing -------------------------------
(***************************************************************************)
(* Cross-team sharing over the knowledge store: minting a single-use       *)
(* token, importing with it, and the superadmin's token-free copy          *)
(* (internal/sharing/sharing.go, internal/storage/sqlite_shares.go,        *)
(* internal/web/share_handlers.go, internal/mcp/share_tools.go), together  *)
(* with every step of Knowledge: entries are edited, moved and deleted     *)
(* while they are shared.                                                  *)
(*                                                                         *)
(* An import reads the token, claims it with a guarded UPDATE, reads the   *)
(* entry, embeds it and stores the copy; each is a step of its own.        *)
(* RevokeShare has no caller in the program and is left out.               *)
(***************************************************************************)
EXTENDS Knowledge

CONSTANTS Tokens   \* share tokens; random, never equal

VARIABLES
  share,   \* knowledge_shares: [entry, team, used], or None
  from     \* history, per entry: the token it was imported with, or None

shareVars == <<share, from>>
allVars == <<vars, shareVars>>

Shares == [entry : Ids, team : Teams, used : BOOLEAN]

ASSUME TokensAssumption == None \notin Tokens \cup Shares

Minted == {s \in Tokens : share[s] # None}

ShareInit ==
  /\ Init
  /\ share = [s \in Tokens |-> None]
  /\ from = [i \in Ids |-> None]

-----------------------------------------------------------------------------
(* Minting. *)

ReadToShare(c, i) ==
  /\ Asks(c, "share") /\ CanAccess(c, i)
  /\ Keeps(c, [op |-> "mint", entry |-> i, team |-> row[i].team])
  /\ UNCHANGED <<row, index, was, stops, shareVars>>

\* The token records the team the entry was read with.
CreateShare(c, s) ==
  /\ Holds(c, "mint") /\ share[s] = None
  /\ share' = [share EXCEPT ![s] = [entry |-> req[c].entry, team |-> req[c].team, used |-> FALSE]]
  /\ Answers(c)
  /\ UNCHANGED <<row, index, was, stops, from>>

-----------------------------------------------------------------------------
(* Importing. *)

Importable(c, s) == s \in Minted /\ ~share[s].used /\ share[s].team # Home[c]

\* GetShare, its checks (an import into the token's own team is refused as
\* "already yours"), and the look for an embedder of the destination team,
\* without which the request ends here.
ReadShare(c, s) ==
  /\ Asks(c, "redeem") /\ Importable(c, s)
  /\ Keeps(c, [op |-> "claim", token |-> s, entry |-> share[s].entry])
  /\ UNCHANGED <<row, index, was, stops, shareVars>>

Claimed(c) == Keeps(c, [op |-> "load", token |-> req[c].token, entry |-> req[c].entry,
                        team |-> Home[c]])

\* Mutant: the UPDATE has no guard.
MarkShareUsedUnguarded(c) ==
  /\ Holds(c, "claim")
  /\ share' = [share EXCEPT ![req[c].token].used = TRUE]
  /\ Claimed(c)
  /\ UNCHANGED <<row, index, was, stops, from>>

\* Mutant: the token's row is deleted instead of marked.
MarkShareUsedDeletes(c) ==
  /\ Holds(c, "claim")
  /\ share' = [share EXCEPT ![req[c].token] = None]
  /\ Claimed(c)
  /\ UNCHANGED <<row, index, was, stops, from>>

\* UPDATE ... WHERE used_at IS NULL; no affected row is an error.
MarkShareUsed(c) ==
  /\ Holds(c, "claim")
  /\ IF share[req[c].token].used THEN Answers(c) /\ UNCHANGED share
     ELSE /\ share' = [share EXCEPT ![req[c].token].used = TRUE]
          /\ Claimed(c)
  /\ UNCHANGED <<row, index, was, stops, from>>

-----------------------------------------------------------------------------
(* CopyEntryToTeam, after a claim or for a superadmin's copy request. *)

\* handleCopyKnowledge names an entry and a destination; there is no token.
AskCopy(c, i, t) ==
  /\ Asks(c, "copy") /\ c \in Super
  /\ Keeps(c, [op |-> "load", token |-> None, entry |-> i, team |-> t])
  /\ UNCHANGED <<row, index, was, stops, shareVars>>

\* GetEntry; an entry that is gone ends the request, and the token stays used.
LoadSource(c) ==
  LET i == req[c].entry IN
  /\ Holds(c, "load")
  /\ IF i \in Live
     THEN Keeps(c, [op |-> "copy", token |-> req[c].token, entry |-> i,
                    team |-> req[c].team, text |-> row[i].text])
     ELSE Answers(c)
  /\ UNCHANGED <<row, index, was, stops, shareVars>>

\* The embedder is gone or fails: nothing is stored.
CopyFails(c) ==
  /\ Holds(c, "copy") /\ "embed" \in Faults
  /\ Answers(c)
  /\ UNCHANGED <<row, index, was, stops, shareVars>>

\* Mutant: the status is left to the store's default.
StoreCopyApproved(c, i) ==
  /\ Holds(c, "copy")
  /\ StoreEntryChunked(i, req[c].team, req[c].text, "approved", TRUE)
  /\ from' = [from EXCEPT ![i] = req[c].token]
  /\ Answers(c)
  /\ UNCHANGED share

StoreCopy(c, i) ==
  /\ Holds(c, "copy")
  /\ StoreEntryChunked(i, req[c].team, req[c].text, "pending", TRUE)
  /\ from' = [from EXCEPT ![i] = req[c].token]
  /\ Answers(c)
  /\ UNCHANGED share

-----------------------------------------------------------------------------
ShareNext ==
  \/ Next /\ UNCHANGED shareVars
  \/ \E c \in Callers :
       \/ \E i \in Ids : ReadToShare(c, i) \/ StoreCopy(c, i)
       \/ \E s \in Tokens : CreateShare(c, s) \/ ReadShare(c, s)
       \/ \E i \in Ids, t \in Teams : AskCopy(c, i, t)
       \/ MarkShareUsed(c) \/ LoadSource(c) \/ CopyFails(c)

ShareSpec == ShareInit /\ [][ShareNext]_allVars

-----------------------------------------------------------------------------
(* Properties. *)

ShareTypeOK ==
  /\ TypeOK
  /\ share \in [Tokens -> Shares \cup {None}]
  /\ from \in [Ids -> Tokens \cup {None}]
  /\ \A c \in Callers :
       /\ req[c].op = "claim" => req[c].token \in Minted
       /\ req[c].op \in {"load", "copy"} => req[c].token \in Minted \cup {None}
       /\ req[c].op \in {"mint", "claim", "load", "copy"} => req[c].entry \in Ids
       /\ req[c].op \in {"mint", "load", "copy"} => req[c].team \in Teams
       /\ req[c].op = "copy" => req[c].text \in was[req[c].entry]

\* "another user (any team) may import a copy exactly once" (storage.go:154-155):
\* concurrent imports, failures and restarts never make two entries of one token.
OneCopyPerToken ==
  \A i, j \in Ids : from[i] # None /\ from[i] = from[j] => i = j

\* The sharing code implements the ledger of single-use tokens.
Ledger == INSTANCE ShareLedger WITH
  state <- [s \in Tokens |-> IF share[s] = None THEN "none"
                             ELSE IF share[s].used THEN "spent" ELSE "open"],
  copies <- [s \in Tokens |-> {i \in Ids : from[i] = s}]

ImplementsLedger == Ledger!LedgerSpec

\* "awaiting curator approval before it appears in team results"
\* (share_tools.go:101): an imported entry is approved only by a curator's step,
\* taken after the import.
ImportsAwaitApproval ==
  [][\A i \in Ids : from'[i] # None /\ i \in Live' /\ row'[i].status = "approved" =>
       \/ i \in Live /\ row[i].status = "approved"
       \/ \E c \in Callers : Holds(c, "judge") /\ req[c].entry = i /\ req[c].status = "approved"]_allVars
=============================================================================
