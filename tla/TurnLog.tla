------------------------------ MODULE TurnLog ------------------------------
(***************************************************************************)
(* Fine-tuning sessions: callers append turns, preferences and knowledge    *)
(* links to a session (internal/mcp/session_tools.go, sessions_sqlite.go,   *)
(* the capture at the end of enrich_context) while train-export             *)
(* (internal/trainexport) reads session after session.                      *)
(*                                                                         *)
(* Each action is one statement of a caller.  The number of a turn is read  *)
(* in one statement and stored by the next; UNIQUE(session_id, seq) refuses *)
(* the loser of a race, whose turn is lost.                                 *)
(*                                                                         *)
(* A turn carries, as history, the turns of its session that had been       *)
(* acknowledged when its request began (`after').                           *)
(***************************************************************************)
EXTENDS Integers, FiniteSets, Sequences, SequencesExt

CONSTANTS Callers, SessionIds, Entries, None,
          Asks(_, _),  \* whether a caller makes a request
          CallsOf,     \* bound: requests of each caller
          MinRating    \* of the train export; 0 is no filter

ASSUME CallsAssumption == CallsOf \in [Callers -> Nat]

Children == {"ft_turns", "ft_preferences", "ft_session_knowledge"}
Roles == {"user", "assistant", "tool", "system_inject"}
LinkRoles == {"retrieved", "stored", "rated", "agent_source"}

VARIABLES db,      \* the tables, as sets of rows
          req,     \* the request each caller has in progress
          acked,   \* history: turns acknowledged, with their session
          left, used,
          tr       \* the train export

tlvars == <<db, req, acked, left, used, tr>>
-----------------------------------------------------------------------------
SessionRow(id, eligible) == [id |-> id, status |-> "open", rating |-> 0, eligible |-> eligible]
Has(s) == \E r \in db["ft_sessions"] : r.id = s
TurnsOf(s) == {t \in db["ft_turns"] : t.session = s}

Ask(op, pc, s, arg, role, entries) ==
  [op |-> op, pc |-> pc, session |-> s, arg |-> arg, role |-> role, entries |-> entries,
   todo |-> IF pc = "links" THEN entries ELSE {}, seq |-> 0, after |-> {}, stored |-> FALSE]
NoReq == Ask("none", "idle", None, None, "user", {})

StartAsks == {Ask("start", "write", s, b, "user", {}) : s \in SessionIds \ used, b \in BOOLEAN}
TurnAsks == {Ask("turn", "get", s, None, role, es) : s \in used, role \in Roles, es \in SUBSET Entries}
LinkAsks == {Ask("link", "get", s, None, role, {e}) : s \in used, e \in Entries, role \in LinkRoles}
PreferAsks == {Ask("prefer", "get", s, p, "user", {}) :
                 s \in used, p \in {None} \cup {t.id : t \in db["ft_turns"]}}
CompleteAsks == {Ask("complete", "write", s, <<status, n>>, "user", {}) :
                   s \in used, status \in {"completed", "abandoned"}, n \in 0..5}
(* enrich_context with a session_id: links, the prompt, the improved prompt.*)
CaptureAsks == {Ask("capture", "links", s, None, "user", es) : s \in used, es \in SUBSET Entries}
Requests == StartAsks \cup TurnAsks \cup LinkAsks \cup PreferAsks \cup CompleteAsks \cup CaptureAsks

TurnId(c) == <<c, left[c], req[c].role>>
Set(c, row) == req' = [req EXCEPT ![c] = row]
Goto(c, pc) == Set(c, [req[c] EXCEPT !.pc = pc])
Tables(t, rows) == db' = [db EXCEPT ![t] = rows]

Return(c) == Set(c, NoReq) /\ UNCHANGED acked

(* After an attempt at a turn: a turn that was stored is acknowledged, and  *)
(* a capture goes on to the improved prompt if there is one.                *)
Finish(c, row) ==
  LET told == IF row.stored THEN {TurnId(c)} ELSE {}
  IN  /\ acked' = acked \cup ({row.session} \X told)
      /\ \/ Set(c, NoReq)
         \/ /\ row.op = "capture" /\ row.role = "user"
            /\ Set(c, [row EXCEPT !.pc = "seq", !.role = "system_inject", !.stored = FALSE,
                                  !.after = @ \cup told])

Begin(c) ==
  /\ req[c].pc = "idle" /\ left[c] > 0
  /\ left' = [left EXCEPT ![c] = @ - 1]
  /\ \E a \in {x \in Requests : Asks(c, x)} :
       /\ Set(c, [a EXCEPT !.after = {p[2] : p \in {q \in acked : q[1] = a.session}}])
       /\ used' = IF a.op = "start" THEN used \cup {a.session} ELSE used
  /\ UNCHANGED <<db, acked, tr>>

CreateFTSession(c) ==
  /\ req[c].op = "start" /\ req[c].pc = "write"
  /\ Tables("ft_sessions", db["ft_sessions"] \cup {SessionRow(req[c].session, req[c].arg)})
  /\ Return(c) /\ UNCHANGED <<left, used, tr>>

(* session_turn, session_link_knowledge and session_prefer look first.      *)
GetFTSession(c) ==
  /\ req[c].pc = "get"
  /\ IF Has(req[c].session)
     THEN Goto(c, IF req[c].op = "turn" THEN "seq" ELSE "write") /\ UNCHANGED acked
     ELSE Return(c)
  /\ UNCHANGED <<db, left, used, tr>>

NextFTTurnSeq(c) ==
  /\ req[c].pc = "seq"
  /\ Set(c, [req[c] EXCEPT !.pc = "insert",
               !.seq = IF TurnsOf(req[c].session) = {} THEN 0
                       ELSE 1 + Max({t.seq : t \in TurnsOf(req[c].session)})])
  /\ UNCHANGED <<db, acked, left, used, tr>>

NewTurn(c) == [session |-> req[c].session, seq |-> req[c].seq, id |-> TurnId(c),
               role |-> req[c].role, after |-> req[c].after]
Taken(c) == \E t \in TurnsOf(req[c].session) : t.seq = req[c].seq

Stored(c, turns) ==
  /\ Tables("ft_turns", turns)
  /\ Set(c, [req[c] EXCEPT !.stored = TRUE, !.pc = "links", !.todo = req[c].entries])
  /\ UNCHANGED acked

(* Mutant: a turn of the same number is replaced. *)
AddFTTurnOrReplace(c) ==
  /\ req[c].pc = "insert"
  /\ IF Has(req[c].session)
     THEN Stored(c, {t \in db["ft_turns"] : t.session # req[c].session \/ t.seq # req[c].seq}
                    \cup {NewTurn(c)})
     ELSE Finish(c, req[c]) /\ UNCHANGED db
  /\ UNCHANGED <<left, used, tr>>

AddFTTurn(c) ==
  /\ req[c].pc = "insert"
  /\ IF Has(req[c].session) /\ ~Taken(c)
     THEN Stored(c, db["ft_turns"] \cup {NewTurn(c)})
     ELSE Finish(c, req[c]) /\ UNCHANGED db
  /\ UNCHANGED <<left, used, tr>>

Links(s, es, role) == [session : {s}, entry : es, role : {role}]
Linked(s, es, role) ==
  IF Has(s) THEN [db EXCEPT !["ft_session_knowledge"] = @ \cup Links(s, es, role)] ELSE db

(* Best effort, entry by entry: nobody is told of a link that fails.        *)
LinkRetrieved(c) ==
  /\ req[c].pc = "links" /\ req[c].todo # {}
  /\ \E e \in req[c].todo :
       /\ Set(c, [req[c] EXCEPT !.todo = @ \ {e}])
       /\ db' \in {db, Linked(req[c].session, {e}, "retrieved")}
  /\ UNCHANGED <<acked, left, used, tr>>

AllLinked(c) ==
  /\ req[c].pc = "links" /\ req[c].todo = {}
  /\ IF req[c].stored THEN Finish(c, req[c]) ELSE Goto(c, "seq") /\ UNCHANGED acked
  /\ UNCHANGED <<db, left, used, tr>>

LinkFTSessionKnowledge(c) ==
  /\ req[c].op = "link" /\ req[c].pc = "write"
  /\ db' = Linked(req[c].session, req[c].entries, req[c].role)
  /\ Return(c) /\ UNCHANGED <<left, used, tr>>

AddFTPreference(c) ==
  /\ req[c].op = "prefer" /\ req[c].pc = "write"
  /\ db' = IF Has(req[c].session)
           THEN [db EXCEPT !["ft_preferences"] = @ \cup
                   {[session |-> req[c].session, id |-> <<c, left[c]>>, prompt |-> req[c].arg]}]
           ELSE db
  /\ Return(c) /\ UNCHANGED <<left, used, tr>>

(* Whatever the status was: a session may be completed again. *)
CompleteFTSession(c) ==
  /\ req[c].op = "complete" /\ req[c].pc = "write"
  /\ Tables("ft_sessions", {IF r.id = req[c].session
                            THEN [r EXCEPT !.status = req[c].arg[1], !.rating = req[c].arg[2]] ELSE r :
                              r \in db["ft_sessions"]})
  /\ Return(c) /\ UNCHANGED <<left, used, tr>>

(* A statement fails and the handler returns its error, but for a capture.  *)
StatementFails(c) ==
  /\ req[c].pc \in {"get", "seq", "insert", "write"}
  /\ Finish(c, req[c])
  /\ UNCHANGED <<db, left, used, tr>>
-----------------------------------------------------------------------------
(* train-export. *)

NoExport == [pc |-> "idle", only |-> TRUE, todo |-> {}, now |-> None, turns |-> << >>,
             chats |-> {}, pairs |-> {}, prefs |-> {}]
(* --train-eligible-only, TRUE unless it is said otherwise, and --min-rating. *)
Trainable(r, only) == (only => r.eligible) /\ r.rating >= MinRating

ListFTSessions ==
  /\ tr.pc = "idle"
  /\ \E only \in BOOLEAN :
       tr' = [tr EXCEPT !.pc = "next", !.only = only,
                        !.todo = {r \in db["ft_sessions"] : Trainable(r, only)}]
  /\ UNCHANGED <<db, req, acked, left, used>>

(* ORDER BY seq *)
BySeq(turns) == {s \in SetToSeqs(turns) : \A i, j \in DOMAIN s : i < j => s[i].seq <= s[j].seq}

ListFTTurns ==
  /\ tr.pc = "next" /\ tr.todo # {}
  /\ \E r \in tr.todo : \E turns \in BySeq(TurnsOf(r.id)) :
       tr' = [tr EXCEPT !.pc = "prefs", !.todo = @ \ {r}, !.now = r, !.turns = turns]
  /\ UNCHANGED <<db, req, acked, left, used>>

Said(turns, role) == SelectSeq(turns, LAMBDA t : t.role = role)
LastSaid(turns, role) == LET said == Said(turns, role) IN IF said = << >> THEN None ELSE Last(said).id

(* A conversation needs something a human said and something the model or a *)
(* tool did (a tool's turn is told as the model's); a pair is the last      *)
(* question and the model's last answer.                                    *)
Speaks(turns, roles) == \E i \in DOMAIN turns : turns[i].role \in roles
buildShareGPT(r, turns) ==
  IF Speaks(turns, {"user"}) /\ Speaks(turns, {"assistant", "tool"})
  THEN {[session |-> r, turns |-> turns]} ELSE {}
buildSessionSFT(r, turns) ==
  {[session |-> r, ask |-> LastSaid(turns, "user"), answer |-> LastSaid(turns, "assistant")]
     : x \in {y \in {1} : None \notin {LastSaid(turns, "user"), LastSaid(turns, "assistant")}}}
buildSessionDPO(r, turns, prefs) ==
  {[session |-> r, pref |-> p.id,
    prompt |-> IF \E i \in DOMAIN turns : turns[i].id = p.prompt THEN p.prompt
               ELSE LastSaid(turns, "user")] : p \in prefs}   \* None: the task summary

(* The knowledge links, read last, only add to the text of a pair. *)
ListFTPreferences ==
  /\ tr.pc = "prefs"
  /\ LET r == tr.now
         prefs == {p \in db["ft_preferences"] : p.session = r.id}
     IN  tr' = [tr EXCEPT !.pc = "next", !.now = None, !.turns = << >>,
                          !.chats = @ \cup buildShareGPT(r, tr.turns),
                          !.pairs = @ \cup buildSessionSFT(r, tr.turns),
                          !.prefs = @ \cup buildSessionDPO(r, tr.turns, prefs)]
  /\ UNCHANGED <<db, req, acked, left, used>>

TurnStep(c) ==
  \/ Begin(c) \/ CreateFTSession(c) \/ GetFTSession(c) \/ NextFTTurnSeq(c) \/ AddFTTurn(c)
  \/ LinkRetrieved(c) \/ AllLinked(c) \/ LinkFTSessionKnowledge(c) \/ AddFTPreference(c) \/ CompleteFTSession(c)
  \/ StatementFails(c)
ExportStep == ListFTSessions \/ ListFTTurns \/ ListFTPreferences
-----------------------------------------------------------------------------
(* The turns of a session are numbered without a gap in the order in which  *)
(* they were said: a turn acknowledged before another was asked for comes   *)
(* before it and stays (sessions.go:63, "one ordered step inside a          *)
(* session").                                                               *)
InOrder(turns) ==
  \A s \in SessionIds :
    LET of == {t \in turns : t.session = s}
    IN  /\ {t.seq : t \in of} = 0..(Cardinality(of) - 1)
        /\ \A b \in of : \A a \in b.after : \E t \in of : t.id = a /\ t.seq < b.seq

(* A conversation in a training set, the turns of tools and of enrichment   *)
(* included, is such a beginning of its session, and only sessions that the *)
(* flags admit are in it.                                                   *)
ExportedInOrder ==
  \A chat \in tr.chats : Trainable(chat.session, tr.only) /\ InOrder(ToSet(chat.turns))
=============================================================================
