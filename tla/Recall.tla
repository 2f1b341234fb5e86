------------------------------- MODULE Recall -------------------------------
(***************************************************************************)
(* What a caller is shown of the knowledge base: enrich_context and its     *)
(* web preview, knowledge_search and the entry lists, under per-user        *)
(* visibility rules (internal/visibility), per-user enrichment preferences  *)
(* (internal/enrich, enrichment_prefs_sqlite.go), prompt rules              *)
(* (rules_sqlite.go) and the caller's team.                                 *)
(*                                                                         *)
(* An answer is put together from as many reads as there are tables, while *)
(* the same user changes the preferences in another window and entries are *)
(* stored, moved and deleted.  Each action is one statement or transaction.*)
(*                                                                         *)
(* Distances are natural numbers, `Far' being 1.0: the relevance of a       *)
(* distance d is Far - d, at least 0.  Entries at one distance share their  *)
(* place, where the code keeps the order of the rows.  Lower-casing and     *)
(* trimming are left out: two values that differ in case only are one.      *)
(***************************************************************************)
EXTENDS Integers, FiniteSets, Sequences

CONSTANTS Entries, Teams, Values,   \* Values: domains, tags and authors
          AuthorOf, DomainOf, TagsOf,  \* an entry's text; tags and auto-tags together
          ChunksOf, Far,            \* the distances of an entry's chunks from the prompt
          Clients, ActorOf, NamesOf, TeamOf, Superadmins,
          DefaultMin, DefaultMax,   \* the deployment's preferences
          FetchPer, FetchMin, FetchMax,     \* 3, 30 and 100
          PoolPer, Growth, PoolMax, \* 8, 4 and 4096
          Bodies,                   \* the preferences a user may save
          Overrides,                \* and those a preview may try out
          RuleIds,
          Asks(_),                  \* what each client asks for
          CallsOf, MaxChanges,      \* bounds: requests of a client, changes of entries
          None

Actors == {ActorOf[c] : c \in Clients}
EnrichmentKinds == <<"allow_domain", "deny_domain", "allow_tag", "deny_tag", "pin_entry">>
Kinds == {EnrichmentKinds[i] : i \in 1..5}
HideKinds == {"item", "author", "tag", "domain"}
Scopes == {"team", "category", "user"}
NoRules == [k \in Kinds |-> {}]
PrefRows == [min : Int, max : Int, picks : [Kinds -> SUBSET (Entries \cup Values)]]

ASSUME EntryAssumption ==
  /\ IsFiniteSet(Entries)
  /\ AuthorOf \in [Entries -> Values] /\ DomainOf \in [Entries -> Values]
  /\ TagsOf \in [Entries -> SUBSET Values]
  /\ \A e \in Entries : ChunksOf[e] \subseteq 0..Far
  /\ Far \in Nat
ASSUME SearchAssumption ==
  /\ FetchPer \in Nat /\ FetchMin \in Nat /\ FetchMax \in Nat
  /\ PoolPer \in Nat \ {0} /\ Growth \in Nat \ {0, 1} /\ PoolMax \in Nat \ {0}
ASSUME CallerAssumption ==
  /\ Superadmins \subseteq Clients /\ None \notin Entries \cup Teams \cup Values
  /\ DefaultMin \in Int /\ DefaultMax \in Int
  /\ \A b \in Bodies \cup Overrides : b \in PrefRows /\ b.picks["pin_entry"] \subseteq Entries

VARIABLES entries,  \* team of each stored entry
          hides,    \* user_visibility_rules
          scalars,  \* enrichment_prefs
          picks,    \* enrichment_rules: values by actor and kind
          rules,    \* rules
          req,      \* the request each client has in progress
          since,    \* the visibility rules of the caller that have stood since it began
          left, changes

vars == <<entries, hides, scalars, picks, rules, req, since, left, changes>>
-----------------------------------------------------------------------------
(* Vector search: SearchSimilar. *)

(* An entry whose embedding failed has no chunks, and no search finds it.   *)
Searchable == {e \in Entries : ChunksOf[e] # {}}
Best == [e \in Searchable |-> CHOOSE d \in ChunksOf[e] : \A x \in ChunksOf[e] : d <= x]
Chunks(live) == UNION {{e} \X ChunksOf[e] : e \in live}
Closest(k, s, dist) == {x \in s : Cardinality({y \in s : dist[y] < dist[x]}) < k}
Pool(k, live) == Closest(k, Chunks(live), [p \in Chunks(live) |-> p[2]])
Found(pool) == {p[1] : p \in pool}
Lesser(a, b) == IF a < b THEN a ELSE b

(* Mutant: the first pool of chunks will do. *)
EnoughAtOnce(pool, k, topK) == TRUE

(* The pool of chunk hits is large enough when it holds topK entries, the   *)
(* table is exhausted or the cap is reached.                                *)
Enough(pool, k, topK) ==
  Cardinality(Found(pool)) >= topK \/ Cardinality(pool) < k \/ k >= PoolMax

FetchK(max) == LET k == max * FetchPer
               IN  IF k < FetchMin THEN FetchMin ELSE IF k > FetchMax THEN FetchMax ELSE k
-----------------------------------------------------------------------------
(* Who sees what: CanAccess, RuleSet.Hidden and enrich.Select. *)

CanAccess(c, t) == c \in Superadmins \/ TeamOf[c] = None \/ t = None \/ t = TeamOf[c]
ListScope(c) == IF c \in Superadmins THEN None ELSE TeamOf[c]

(* Mutant: an author rule hides the caller's own entries as well. *)
HiddenEvenOwn(rs, names, e) ==
  /\ \/ <<"item", e>> \in rs \/ <<"author", AuthorOf[e]>> \in rs
     \/ <<"domain", DomainOf[e]>> \in rs \/ \E t \in TagsOf[e] : <<"tag", t>> \in rs

Hidden(rs, names, e) ==
  /\ AuthorOf[e] \notin names
  /\ \/ <<"item", e>> \in rs
     \/ <<"author", AuthorOf[e]>> \in rs
     \/ <<"domain", DomainOf[e]>> \in rs
     \/ \E t \in TagsOf[e] : <<"tag", t>> \in rs

Denied(e, p) == DomainOf[e] \in p.picks["deny_domain"] \/ TagsOf[e] \cap p.picks["deny_tag"] # {}
HasAllowList(p) == p.picks["allow_domain"] # {} \/ p.picks["allow_tag"] # {}
MatchesAllowList(e, p) ==
  DomainOf[e] \in p.picks["allow_domain"] \/ TagsOf[e] \cap p.picks["allow_tag"] # {}
Pinned(e, p) == e \in p.picks["pin_entry"]
Relevance(e) == Far - Best[e]

Kept(cands, p) ==
  {e \in cands : /\ ~Denied(e, p)
                 /\ \/ Pinned(e, p)
                    \/ /\ HasAllowList(p) => MatchesAllowList(e, p)
                       /\ Relevance(e) >= p.min}
Before(d, e, p) == \/ Pinned(d, p) /\ ~Pinned(e, p)
                   \/ Pinned(d, p) = Pinned(e, p) /\ Relevance(d) > Relevance(e)

(* Mutant: the cap is applied to the candidates in order of relevance. *)
SelectByRelevance(cands, p) ==
  {e \in Kept(cands, p) :
     p.max > 0 => Cardinality({d \in Kept(cands, p) : Relevance(d) > Relevance(e)}) < p.max}

Select(cands, p) ==
  {e \in Kept(cands, p) :
     p.max > 0 => Cardinality({d \in Kept(cands, p) : Before(d, e, p)}) < p.max}

(* Prompt rules: a scope counts only when the request names a value for it. *)
Applicable(team, category, user) ==
  {r \in DOMAIN rules :
     /\ rules[r].enabled
     /\ rules[r].value # None
     /\ \/ rules[r].scope = "team" /\ rules[r].value = team
        \/ rules[r].scope = "category" /\ rules[r].value = category
        \/ rules[r].scope = "user" /\ rules[r].value = user}
-----------------------------------------------------------------------------
(* Requests. *)

Unset == -1
NoPrefs == [min |-> Unset, max |-> Unset, picks |-> NoRules]
Resolved(p) == [p EXCEPT !.min = IF @ = Unset THEN DefaultMin ELSE @,
                         !.max = IF @ = Unset THEN DefaultMax ELSE @]

NoReq == [op |-> "none", pc |-> "idle", arg |-> None, prefs |-> NoPrefs, rules |-> {},
          k |-> 0, pool |-> 0, hits |-> {}, open |-> FALSE, out |-> {}]
Ask(op, pc, arg) == [NoReq EXCEPT !.op = op, !.pc = pc, !.arg = arg]

Domains == {DomainOf[e] : e \in Entries}
EnrichAsks == {Ask("enrich", "rules", p) :
                 p \in (Teams \cup {None}) \X (Domains \cup {None}) \X (Actors \cup {None})}
TryAsks == {[Ask("preview", "rules", None) EXCEPT !.prefs = b] : b \in Overrides}
SearchAsks == {[Ask("search", "hits", p[1]) EXCEPT !.k = p[2]] : p \in (Domains \cup {None}) \X (1..2)}
Recalls == EnrichAsks \cup TryAsks \cup SearchAsks
           \cup {Ask("preview", "scalars", None), Ask("list", "list", None)}
PutAsks == {[Ask("put", "scalars", None) EXCEPT !.prefs = b] : b \in Bodies}
PinAsks == {Ask("pin", "write", e) : e \in Entries} \cup {Ask("unpin", "write", e) : e \in Entries}
PrefAsks == PutAsks \cup PinAsks
HideRules == ({"item"} \X Entries) \cup ({"author"} \X {AuthorOf[e] : e \in Entries})
             \cup ({"domain"} \X Domains) \cup ({"tag"} \X UNION {TagsOf[e] : e \in Entries})
HideAsks == {Ask("hide", "write", r) : r \in HideRules} \cup {Ask("unhide", "write", r) : r \in HideRules}
RuleRows == [scope : Scopes, value : Teams \cup Values \cup Actors \cup {None}, enabled : BOOLEAN]
RuleAsks == {Ask("storeRule", "write", a) : a \in RuleIds \X RuleRows}
            \cup {Ask("updateRule", "write", a) : a \in RuleIds \X RuleRows}
            \cup {Ask("deleteRule", "write", a) : a \in RuleIds \X {None}}

ASSUME AsksAssumption == \A c \in Clients : Asks(c) \subseteq Recalls \cup PrefAsks \cup HideAsks \cup RuleAsks

Me(c) == ActorOf[c]
At(c, op, pc) == req[c].op = op /\ req[c].pc = pc
Tables == <<entries, hides, scalars, picks, rules>>
Set(c, row) == req' = [req EXCEPT ![c] = row]
Goto(c, pc) == Set(c, [req[c] EXCEPT !.pc = pc])
Return(c) == Set(c, NoReq)
Quiet == UNCHANGED <<entries, hides, scalars, picks, rules, since, left, changes>>

(* An answered request (pc "done") stays to be looked at until the next one.*)
Enter(c) ==
  /\ req[c].pc \in {"idle", "done"} /\ left[c] > 0
  /\ left' = [left EXCEPT ![c] = @ - 1]
  /\ \E a \in Asks(c) : Set(c, a)
  /\ since' = [since EXCEPT ![c] = hides[Me(c)]]
  /\ UNCHANGED <<entries, hides, scalars, picks, rules, changes>>

(* GetApplicableRules, with what the tool's arguments or the caller give.   *)
ReadRules(c) ==
  /\ req[c].pc = "rules"
  /\ LET tool == req[c].op = "enrich"
         who == IF tool THEN req[c].arg ELSE <<TeamOf[c], None, Me(c)>>
     IN  Set(c, [req[c] EXCEPT !.rules = Applicable(who[1], who[2], who[3]),
                               !.pc = IF tool THEN "scalars" ELSE "hits",
                               !.prefs = IF tool THEN @ ELSE Resolved(@)])
  /\ Quiet

(* GetEnrichmentPrefs: the row, then the lists; an error leaves the defaults. *)
ReadScalars(c) ==
  /\ req[c].op \in {"enrich", "preview"} /\ req[c].pc = "scalars"
  /\ Set(c, [req[c] EXCEPT !.prefs.min = scalars[Me(c)].min, !.prefs.max = scalars[Me(c)].max,
                           !.pc = "picks"])
  /\ Quiet

AfterPrefs(c) == IF req[c].op = "enrich" THEN "hits" ELSE "rules"
ReadPicks(c) ==
  /\ req[c].pc = "picks"
  /\ Set(c, [req[c] EXCEPT !.prefs = Resolved([@ EXCEPT !.picks = picks[Me(c)]]), !.pc = AfterPrefs(c)])
  /\ Quiet

PrefsFail(c) ==
  /\ req[c].op \in {"enrich", "preview"} /\ req[c].pc \in {"scalars", "picks"}
  /\ Set(c, [req[c] EXCEPT !.prefs = Resolved(NoPrefs), !.pc = AfterPrefs(c)])
  /\ Quiet

TopK(c) == IF req[c].op = "search" THEN 2 * req[c].k ELSE FetchK(req[c].prefs.max)
PoolSize(c) == IF req[c].pool = 0 THEN TopK(c) * PoolPer ELSE req[c].pool

(* The chunk query, repeated with a larger pool until one is large enough;  *)
(* the best entries of that one are the hits.  Without an embedder, or when *)
(* it fails, the request ends without entries.                              *)
ReadHits(c) ==
  /\ req[c].pc = "hits"
  /\ LET pool == Pool(PoolSize(c), DOMAIN entries)
     IN  Set(c, IF Enough(pool, PoolSize(c), TopK(c))
                THEN [req[c] EXCEPT !.hits = Closest(TopK(c), Found(pool), Best), !.pc = "load"]
                ELSE [req[c] EXCEPT !.pool = Lesser(PoolSize(c) * Growth, PoolMax)])
  /\ Quiet

EmbedFails(c) == /\ req[c].pc = "hits"
                 /\ Goto(c, "done") /\ Quiet

(* The row query: an entry deleted since the chunk query fails the search.  *)
Wanted(c, e) == /\ CanAccess(c, entries[e])
                /\ req[c].op = "search" /\ req[c].arg # None => DomainOf[e] = req[c].arg
LoadRows(c) ==
  /\ req[c].pc = "load"
  /\ IF req[c].hits \subseteq DOMAIN entries
     THEN Set(c, [req[c] EXCEPT !.hits = {e \in @ : Wanted(c, e)}, !.pc = "see"])
     ELSE Set(c, [req[c] EXCEPT !.hits = {}, !.pc = "done"])
  /\ Quiet

(* ListEntries, a page of the caller's scope. *)
ListEntries(c) ==
  /\ At(c, "list", "list")
  /\ Set(c, [req[c] EXCEPT !.hits = {e \in DOMAIN entries : ListScope(c) \in {None, entries[e]}},
                           !.pc = "see"])
  /\ Quiet

(* callerVisibility and what follows it; an error lets everything through.  *)
Answer(c, rs, failed) ==
  LET seen == {e \in req[c].hits : ~Hidden(rs, NamesOf[c], e)}
      out == CASE req[c].op = "list" -> seen
               [] req[c].op = "search" -> Closest(req[c].k, seen, Best)
               [] OTHER -> Select(seen, req[c].prefs)
  IN  Set(c, [req[c] EXCEPT !.out = out, !.open = failed, !.pc = "done",
                            !.hits = IF req[c].op = "list" THEN @ ELSE seen])

ApplyVisibility(c) == req[c].pc = "see" /\ Answer(c, hides[Me(c)], FALSE) /\ Quiet
VisibilityFails(c) == req[c].pc = "see" /\ Answer(c, {}, TRUE) /\ Quiet
-----------------------------------------------------------------------------
(* Preferences and rules. *)

(* handlePutEnrichmentPrefs: the row, then a transaction per kind; it stops *)
(* at the first error.                                                      *)
PutScalars(c) ==
  /\ At(c, "put", "scalars")
  /\ scalars' = [scalars EXCEPT ![Me(c)] = [min |-> req[c].prefs.min, max |-> req[c].prefs.max]]
  /\ Set(c, [req[c] EXCEPT !.pc = "kinds", !.k = 1])
  /\ UNCHANGED <<entries, hides, picks, rules, since, left, changes>>

NextKind(c) == IF req[c].k = 5 THEN Return(c) ELSE Set(c, [req[c] EXCEPT !.k = @ + 1])

(* Mutant: the old values of the kind are not deleted first. *)
AddEnrichmentRules(c) ==
  /\ At(c, "put", "kinds")
  /\ LET kind == EnrichmentKinds[req[c].k]
     IN  picks' = [picks EXCEPT ![Me(c)][kind] = @ \cup req[c].prefs.picks[kind]]
  /\ NextKind(c)
  /\ UNCHANGED <<entries, hides, scalars, rules, since, left, changes>>

ReplaceEnrichmentRules(c) ==
  /\ At(c, "put", "kinds")
  /\ LET kind == EnrichmentKinds[req[c].k]
     IN  picks' = [picks EXCEPT ![Me(c)][kind] = req[c].prefs.picks[kind]]
  /\ NextKind(c)
  /\ UNCHANGED <<entries, hides, scalars, rules, since, left, changes>>

PutFails(c) == req[c].op = "put" /\ Return(c) /\ Quiet

AddEnrichmentRule(c) ==
  /\ At(c, "pin", "write")
  /\ picks' = [picks EXCEPT ![Me(c)]["pin_entry"] = @ \cup {req[c].arg}]
  /\ Return(c) /\ UNCHANGED <<entries, hides, scalars, rules, since, left, changes>>

RemoveEnrichmentRule(c) ==
  /\ At(c, "unpin", "write")
  /\ picks' = [picks EXCEPT ![Me(c)]["pin_entry"] = @ \ {req[c].arg}]
  /\ Return(c) /\ UNCHANGED <<entries, hides, scalars, rules, since, left, changes>>

AddVisibilityRule(c) ==
  /\ At(c, "hide", "write")
  /\ hides' = [hides EXCEPT ![Me(c)] = @ \cup {req[c].arg}]
  /\ Return(c) /\ UNCHANGED <<entries, scalars, picks, rules, since, left, changes>>

DeleteVisibilityRule(c) ==
  /\ At(c, "unhide", "write")
  /\ hides' = [hides EXCEPT ![Me(c)] = @ \ {req[c].arg}]
  /\ since' = [d \in Clients |-> since[d] \cap hides'[Me(d)]]
  /\ Return(c) /\ UNCHANGED <<entries, scalars, picks, rules, left, changes>>

OnlyRules == UNCHANGED <<entries, hides, scalars, picks, since, left, changes>>

(* A rule's id is new. *)
StoreRule(c) ==
  /\ At(c, "storeRule", "write")
  /\ rules' = [r \in DOMAIN rules \cup {req[c].arg[1]} |->
                 IF r \in DOMAIN rules THEN rules[r] ELSE req[c].arg[2]]
  /\ Return(c) /\ OnlyRules

(* The whole row is written, with defaults for what the caller left out.    *)
UpdateRule(c) ==
  /\ At(c, "updateRule", "write")
  /\ rules' = [r \in DOMAIN rules |-> IF r = req[c].arg[1] THEN req[c].arg[2] ELSE rules[r]]
  /\ Return(c) /\ OnlyRules

DeleteRule(c) ==
  /\ At(c, "deleteRule", "write")
  /\ rules' = [r \in DOMAIN rules \ {req[c].arg[1]} |-> rules[r]]
  /\ Return(c) /\ OnlyRules

(* Entries are stored, moved and deleted by others. *)
OtherChange ==
  /\ changes < MaxChanges /\ changes' = changes + 1
  /\ \E e \in Entries :
       \/ \E t \in Teams : entries' = [x \in DOMAIN entries \cup {e} |-> IF x = e THEN t ELSE entries[x]]
       \/ entries' = [x \in DOMAIN entries \ {e} |-> entries[x]]
  /\ UNCHANGED <<hides, scalars, picks, rules, req, since, left>>
-----------------------------------------------------------------------------
Init ==
  /\ entries \in [Entries -> Teams]
  /\ hides = [a \in Actors |-> {}]
  /\ scalars = [a \in Actors |-> [min |-> Unset, max |-> Unset]]
  /\ picks = [a \in Actors |-> NoRules]
  /\ rules = << >>
  /\ req = [c \in Clients |-> NoReq] /\ since = [c \in Clients |-> {}]
  /\ left = CallsOf /\ changes = 0

RecallStep(c) == \/ ReadRules(c) \/ ReadScalars(c) \/ ReadPicks(c) \/ PrefsFail(c)
                 \/ ReadHits(c) \/ EmbedFails(c) \/ LoadRows(c) \/ ListEntries(c)
                 \/ ApplyVisibility(c) \/ VisibilityFails(c)
PrefStep(c) == \/ PutScalars(c) \/ ReplaceEnrichmentRules(c) \/ PutFails(c)
               \/ AddEnrichmentRule(c) \/ RemoveEnrichmentRule(c)
               \/ AddVisibilityRule(c) \/ DeleteVisibilityRule(c)
               \/ StoreRule(c) \/ UpdateRule(c) \/ DeleteRule(c)

Next == \/ \E c \in Clients : Enter(c) \/ RecallStep(c) \/ PrefStep(c)
        \/ OtherChange

Spec == Init /\ [][Next]_vars
-----------------------------------------------------------------------------
(* Types, and whole lists: however often a user saves preferences in two   *)
(* windows at once, each list of values is one that was saved as a whole,   *)
(* but for single pins (enrichment_prefs_sqlite.go:135, "replaces all rules *)
(* of a kind for a user atomically").                                       *)
TypeOK ==
  /\ DOMAIN entries \subseteq Entries /\ \A e \in DOMAIN entries : entries[e] \in Teams
  /\ \A a \in Actors : /\ hides[a] \subseteq HideKinds \X (Entries \cup Values)
                       /\ picks[a]["pin_entry"] \subseteq Entries
                       /\ \A k \in Kinds \ {"pin_entry"} :
                            \E b \in Bodies \cup {NoPrefs} : picks[a][k] = b.picks[k]
  /\ DOMAIN rules \subseteq RuleIds /\ \A r \in DOMAIN rules : rules[r] \in RuleRows
  /\ \A c \in Clients : /\ since[c] \subseteq hides[Me(c)]
                        /\ req[c].out \subseteq req[c].hits /\ req[c].hits \subseteq Entries

(* What a caller has hidden since before the request began is in no answer, *)
(* however the lists, rows and rules change while it is put together; and a *)
(* caller's own entries are never missing from a list because of a rule     *)
(* (visibility.go:3, "Rules never hide the user's own entries").              *)
Answered(c) == req[c].pc = "done" /\ ~req[c].open
HiddenStaysHidden ==
  \A c \in Clients : Answered(c) =>
    /\ \A e \in req[c].out : AuthorOf[e] \in NamesOf[c] \/ ~Hidden(since[c], {}, e)
    /\ req[c].op = "list" =>
         \A e \in req[c].hits : AuthorOf[e] \in NamesOf[c] => e \in req[c].out

(* No pinned entry loses its place in an enriched prompt to one that is not *)
(* pinned, or to a less relevant one, and denied entries never have one     *)
(* (enrich.go:53-54, "Pins count toward the cap but are prioritized so they *)
(* survive").                                                               *)
PinsSurvive ==
  \A c \in Clients : Answered(c) /\ req[c].op \in {"enrich", "preview"} =>
    LET p == req[c].prefs
    IN  /\ \A e \in req[c].out : ~Denied(e, p)
        /\ \A e \in req[c].hits \ req[c].out : \A d \in req[c].out :
             Pinned(e, p) /\ ~Denied(e, p) => Pinned(d, p) /\ Relevance(d) >= Relevance(e)

(* A search returns the topK entries nearest to the prompt, however many    *)
(* chunks crowd the nearest ones and whatever changes between two queries,  *)
(* up to the cap on chunks (sqlite.go:1138-1143).                           *)
NearestFound ==
  [][\A c \in Clients :
       req[c].pc = "hits" /\ req'[c].pc = "load" /\ Cardinality(Chunks(DOMAIN entries)) <= PoolMax
       => /\ Cardinality(req'[c].hits) >= Lesser(TopK(c), Cardinality(DOMAIN entries \cap Searchable))
          /\ \A e \in req'[c].hits, x \in (DOMAIN entries \cap Searchable) \ req'[c].hits : Best[e] <= Best[x]]_vars
=============================================================================
