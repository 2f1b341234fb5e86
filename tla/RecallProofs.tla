---------------------------- MODULE RecallProofs ----------------------------
(***************************************************************************)
(* TLAPS proofs about Recall, for any entries, distances, callers and      *)
(* preferences, and any limits of the search.                              *)
(*                                                                         *)
(* An answer that was given is not changed by what others do later, and    *)
(* the rules that have stood since its request began only become fewer;    *)
(* so what must be shown is that an answer is right at the moment it is    *)
(* given, from what the request read at different moments before.          *)
(***************************************************************************)
EXTENDS Recall, FiniteSetTheorems, NaturalsInduction, WellFoundedInduction, TLAPS

\* A request has these fields, whatever it asks.
Shape(q) == q = [op |-> q.op, pc |-> q.pc, arg |-> q.arg, prefs |-> q.prefs, rules |-> q.rules,
                 k |-> q.k, pool |-> q.pool, hits |-> q.hits, open |-> q.open, out |-> q.out]

Typed(q) == /\ Shape(q)
            /\ q.prefs \in PrefRows /\ q.k \in Int /\ q.pool \in Int
            /\ q.hits \in SUBSET Entries /\ q.out \in SUBSET q.hits

\* What was not looked for yet was not found, only a list shows entries that no
\* search can find, and nothing is answered early.
InOrder(q) == /\ q.op # "list" => q.hits \subseteq Searchable
              /\ q.pc \notin {"load", "see", "done"} => q.hits = {}
              /\ q.pc # "done" => q.out = {}

\* What a request that writes carries with it.
Carries(q) ==
  /\ q.op = "put" => q.pc \in {"scalars", "kinds"} /\ q.prefs \in Bodies
  /\ q.op = "pin" => q.arg \in Entries
  /\ q.op = "hide" => q.arg \in HideKinds \X (Entries \cup Values)
  /\ q.op \in {"storeRule", "updateRule"} => q.arg \in RuleIds \X RuleRows

ReqOK(q) == Typed(q) /\ InOrder(q) /\ Carries(q)

Whole(a, k) == \E b \in Bodies \cup {NoPrefs} : picks[a][k] = b.picks[k]

TablesTyped ==
  /\ DOMAIN entries \subseteq Entries /\ \A e \in DOMAIN entries : entries[e] \in Teams
  /\ hides \in [Actors -> SUBSET (HideKinds \X (Entries \cup Values))]
  /\ scalars \in [Actors -> [min : Int, max : Int]]
  /\ picks \in [Actors -> [Kinds -> SUBSET (Entries \cup Values)]]
  /\ \A a \in Actors : /\ picks[a]["pin_entry"] \subseteq Entries
                       /\ \A k \in Kinds \ {"pin_entry"} : Whole(a, k)
  /\ DOMAIN rules \subseteq RuleIds /\ \A r \in DOMAIN rules : rules[r] \in RuleRows

\* The rules that stood all along stand now.
SinceInv == /\ DOMAIN since = Clients
            /\ \A c \in Clients : since[c] \subseteq hides[Me(c)]

\* An answer that was given is right.
AnswerOK(c) ==
  Answered(c) =>
    /\ \A e \in req[c].out : AuthorOf[e] \in NamesOf[c] \/ ~Hidden(since[c], {}, e)
    /\ req[c].op = "list" =>
         \A e \in req[c].hits : AuthorOf[e] \in NamesOf[c] => e \in req[c].out
    /\ req[c].op \in {"enrich", "preview"} =>
         /\ \A e \in req[c].out : ~Denied(e, req[c].prefs)
         /\ \A e \in req[c].hits \ req[c].out : \A d \in req[c].out :
              Pinned(e, req[c].prefs) /\ ~Denied(e, req[c].prefs)
              => Pinned(d, req[c].prefs) /\ Relevance(d) >= Relevance(e)

RecallInv == /\ TablesTyped /\ SinceInv
             /\ DOMAIN req = Clients
             /\ \A c \in Clients : ReqOK(req[c]) /\ AnswerOK(c)
-----------------------------------------------------------------------------
(* Distances, and the nearest of a set. *)

LEMMA NatLeast ==
  ASSUME NEW S \in SUBSET Nat, S # {}
  PROVE  \E x \in S : \A y \in S : x <= y
<1> DEFINE R == {ss \in Nat \X Nat : ss[1] < ss[2]}
<1>1. IsWellFoundedOn(R, Nat)
  <2>1. R = OpToRel(<, Nat)
    BY Zenon DEF OpToRel
  <2> QED BY <2>1, NatLessThanWellFounded, Zenon
<1> HIDE DEF R
<1>2. PICK x \in S : \A y \in S : <<y, x>> \notin R
  BY <1>1, WFMin
<1>3. \A y \in S : ~(y < x)
  BY <1>2 DEF R
<1> QED BY <1>3

LEMMA BestIsNearest ==
  ASSUME NEW e \in Searchable
  PROVE  Best[e] \in ChunksOf[e] /\ Best[e] \in Nat /\ \A x \in ChunksOf[e] : Best[e] <= x
<1>1. ChunksOf[e] \in SUBSET Nat /\ ChunksOf[e] # {}
  BY EntryAssumption DEF Searchable
<1>2. \E d \in ChunksOf[e] : \A x \in ChunksOf[e] : d <= x
  BY <1>1, NatLeast
<1> QED BY <1>1, <1>2 DEF Best

\* Closest takes all of a set, or at least as many as it was asked for; and
\* nothing it leaves out is closer than something it takes.
LEMMA ClosestIs ==
  ASSUME NEW S, IsFiniteSet(S), NEW dist, \A x \in S : dist[x] \in Nat, NEW k \in Int
  PROVE  /\ Closest(k, S, dist) \subseteq S
         /\ Closest(k, S, dist) # S => Cardinality(Closest(k, S, dist)) >= k
         /\ \A y \in Closest(k, S, dist) : \A x \in S \ Closest(k, S, dist) : dist[y] <= dist[x]
<1> DEFINE C == Closest(k, S, dist)
           Nearer(x) == {y \in S : dist[y] < dist[x]}
<1>1. C = {x \in S : Cardinality(Nearer(x)) < k}
  BY DEF Closest
<1>2. C \subseteq S /\ IsFiniteSet(C) /\ \A x \in S : IsFiniteSet(Nearer(x))
  BY <1>1, FS_Subset
<1> HIDE DEF C
<1>3. ASSUME C # S PROVE Cardinality(C) >= k
  <2> DEFINE Out == {dist[x] : x \in S \ C}
  <2>1. Out \in SUBSET Nat /\ Out # {}
    BY <1>2, <1>3
  <2>2. PICK n \in Out : \A m \in Out : n <= m
    BY <2>1, NatLeast
  <2>3. PICK x \in S \ C : dist[x] = n
    OBVIOUS
  <2>4. Nearer(x) \subseteq C
    BY <2>2, <2>3
  <2>5. Cardinality(Nearer(x)) <= Cardinality(C)
    BY <1>2, <2>4, FS_Subset
  <2>6. ~(Cardinality(Nearer(x)) < k) /\ Cardinality(Nearer(x)) \in Nat /\ Cardinality(C) \in Nat
    BY <1>1, <1>2, <2>3, FS_CardinalityType
  <2> QED BY <2>5, <2>6
<1>4. ASSUME NEW y \in C, NEW x \in S \ C PROVE dist[y] <= dist[x]
  <2>1. CASE dist[x] < dist[y]
    <3>1. Nearer(x) \subseteq Nearer(y)
      BY <1>2, <2>1
    <3>2. Cardinality(Nearer(x)) <= Cardinality(Nearer(y))
      BY <1>2, <3>1, FS_Subset
    <3>3. Cardinality(Nearer(y)) < k /\ ~(Cardinality(Nearer(x)) < k)
      BY <1>1
    <3>4. Cardinality(Nearer(x)) \in Nat /\ Cardinality(Nearer(y)) \in Nat
      BY <1>2, FS_CardinalityType
    <3> QED BY <3>2, <3>3, <3>4
  <2> QED BY <1>2, <2>1
<1> QED BY <1>2, <1>3, <1>4 DEF C
-----------------------------------------------------------------------------
(* Requests, as they are made and as they go on. *)

LEMMA KindsAre == Kinds = {"allow_domain", "deny_domain", "allow_tag", "deny_tag", "pin_entry"}
<1>1. /\ EnrichmentKinds[1] = "allow_domain" /\ EnrichmentKinds[2] = "deny_domain"
      /\ EnrichmentKinds[3] = "allow_tag" /\ EnrichmentKinds[4] = "deny_tag"
      /\ EnrichmentKinds[5] = "pin_entry"
  BY DEF EnrichmentKinds
<1>2. 1..5 = {1, 2, 3, 4, 5}
  OBVIOUS
<1> QED BY <1>1, <1>2 DEF Kinds

LEMMA NoPrefsTyped == NoPrefs \in PrefRows /\ NoPrefs.picks["pin_entry"] \subseteq Entries
BY KindsAre DEF NoPrefs, PrefRows, NoRules, Unset

\* A request that has found nothing yet.
Fresh(op, pc, arg, prefs, k, open) ==
  [op |-> op, pc |-> pc, arg |-> arg, prefs |-> prefs, rules |-> {}, k |-> k, pool |-> 0,
   hits |-> {}, open |-> open, out |-> {}]

LEMMA AskIs ==
  ASSUME NEW op, NEW pc, NEW arg
  PROVE  Ask(op, pc, arg) = Fresh(op, pc, arg, NoPrefs, 0, FALSE)
<1>1. NoReq = Fresh("none", "idle", None, NoPrefs, 0, FALSE)
  BY Zenon DEF NoReq, Fresh
<1>2. PICK open : open = FALSE
  OBVIOUS
<1>3. Ask(op, pc, arg) = [[[NoReq EXCEPT !.op = op] EXCEPT !.pc = pc] EXCEPT !.arg = arg]
  BY DEF Ask
<1>4. [Fresh("none", "idle", None, NoPrefs, 0, open) EXCEPT !.op = op]
        = Fresh(op, "idle", None, NoPrefs, 0, open)
  BY DEF Fresh
<1>5. [Fresh(op, "idle", None, NoPrefs, 0, open) EXCEPT !.pc = pc]
        = Fresh(op, pc, None, NoPrefs, 0, open)
  BY DEF Fresh
<1>6. [Fresh(op, pc, None, NoPrefs, 0, open) EXCEPT !.arg = arg]
        = Fresh(op, pc, arg, NoPrefs, 0, open)
  BY DEF Fresh
<1> QED BY Zenon, <1>1, <1>2, <1>3, <1>4, <1>5, <1>6

LEMMA FreshOK ==
  ASSUME NEW n, NEW op, NEW pc, NEW arg, NEW prefs \in PrefRows, NEW k \in Int, NEW open,
         n = Fresh(op, pc, arg, prefs, k, open), Carries(n)
  PROVE  ReqOK(n) /\ n.pc = pc
<1>1. /\ n.op = op /\ n.pc = pc /\ n.arg = arg /\ n.prefs = prefs /\ n.rules = {} /\ n.k = k /\ n.pool = 0
      /\ n.hits = {} /\ n.open = open /\ n.out = {}
  BY DEF Fresh
<1>2. Shape(n)
  BY DEF Shape, Fresh
<1> QED BY <1>1, <1>2 DEF ReqOK, Typed, InOrder

LEMMA NoReqOK == ReqOK(NoReq) /\ NoReq.pc = "idle"
<1>1. Carries(NoReq)
  BY DEF NoReq, Carries
<1>2. PICK open : NoReq = Fresh("none", "idle", None, NoPrefs, 0, open)
  BY Zenon DEF NoReq, Fresh
<1> QED BY <1>1, <1>2, NoPrefsTyped, FreshOK

LEMMA HideRulesTyped == HideRules \subseteq HideKinds \X (Entries \cup Values)
BY EntryAssumption DEF HideRules, HideKinds, Domains

LEMMA AsksOK ==
  ASSUME NEW c \in Clients, NEW n \in Asks(c)
  PROVE  ReqOK(n) /\ n.pc # "done"
<1> DEFINE Tries(b) == [Ask("preview", "rules", None) EXCEPT !.prefs = b]
           Searches(d, k) == [Ask("search", "hits", d) EXCEPT !.k = k]
           Puts(b) == [Ask("put", "scalars", None) EXCEPT !.prefs = b]
           Plain(op, pc, a) == /\ pc # "done" /\ op # "put"
                               /\ op = "pin" => a \in Entries
                               /\ op = "hide" => a \in HideRules
                               /\ op \in {"storeRule", "updateRule"} => a \in RuleIds \X RuleRows
<1>1. ASSUME NEW op, NEW pc, NEW a, Plain(op, pc, a), n = Ask(op, pc, a)
      PROVE  ReqOK(n) /\ n.pc # "done"
  <2>1. PICK open : n = Fresh(op, pc, a, NoPrefs, 0, open)
    BY <1>1, AskIs
  <2>2. n.op = op /\ n.arg = a
    BY <2>1 DEF Fresh
  <2>3. Carries(n)
    BY <1>1, <2>2, HideRulesTyped DEF Carries
  <2> QED BY <1>1, <2>1, <2>3, FreshOK, NoPrefsTyped
<1>2. ASSUME NEW b \in Overrides, n = Tries(b)
      PROVE  ReqOK(n) /\ n.pc # "done"
  <2>1. PICK open : Ask("preview", "rules", None) = Fresh("preview", "rules", None, NoPrefs, 0, open)
    BY AskIs
  <2>2. n = Fresh("preview", "rules", None, b, 0, open)
    BY <1>2, <2>1 DEF Fresh, Tries, Searches, Puts
  <2>3. n.op = "preview"
    BY <2>2 DEF Fresh
  <2> QED BY <2>2, <2>3, CallerAssumption, FreshOK DEF Carries
<1>3. ASSUME NEW d, NEW k \in 1..2, n = Searches(d, k)
      PROVE  ReqOK(n) /\ n.pc # "done"
  <2>1. PICK open : Ask("search", "hits", d) = Fresh("search", "hits", d, NoPrefs, 0, open)
    BY AskIs
  <2>2. n = Fresh("search", "hits", d, NoPrefs, k, open)
    BY <1>3, <2>1 DEF Fresh, Tries, Searches, Puts
  <2>3. n.op = "search"
    BY <2>2 DEF Fresh
  <2> QED BY <2>2, <2>3, NoPrefsTyped, FreshOK DEF Carries
<1>4. ASSUME NEW b \in Bodies, n = Puts(b)
      PROVE  ReqOK(n) /\ n.pc # "done"
  <2>1. PICK open : Ask("put", "scalars", None) = Fresh("put", "scalars", None, NoPrefs, 0, open)
    BY AskIs
  <2>2. n = Fresh("put", "scalars", None, b, 0, open)
    BY <1>4, <2>1 DEF Fresh, Tries, Searches, Puts
  <2>3. n.op = "put" /\ n.pc = "scalars" /\ n.prefs = b
    BY <2>2 DEF Fresh
  <2> QED BY <2>2, <2>3, CallerAssumption, FreshOK DEF Carries
<1>5. /\ TryAsks = {Tries(b) : b \in Overrides}
      /\ SearchAsks = {Searches(p[1], p[2]) : p \in (Domains \cup {None}) \X (1..2)}
      /\ PutAsks = {Puts(b) : b \in Bodies}
  BY DEF TryAsks, SearchAsks, PutAsks
<1> HIDE DEF Tries, Searches, Puts
<1>6. n \in TryAsks \cup SearchAsks \cup PutAsks => ReqOK(n) /\ n.pc # "done"
  BY <1>2, <1>3, <1>4, <1>5
<1>7. n \in EnrichAsks \cup {Ask("preview", "scalars", None), Ask("list", "list", None)}
        => \E op, pc, a : Plain(op, pc, a) /\ n = Ask(op, pc, a)
  BY DEF EnrichAsks
<1>8. n \in PinAsks \cup HideAsks => \E op, pc, a : Plain(op, pc, a) /\ n = Ask(op, pc, a)
  BY DEF PinAsks, HideAsks
<1>9. n \in RuleAsks => \E op, pc, a : Plain(op, pc, a) /\ n = Ask(op, pc, a)
  BY DEF RuleAsks
<1> HIDE DEF Plain
<1> QED BY <1>1, <1>6, <1>7, <1>8, <1>9, AsksAssumption DEF Recalls, PrefAsks
-----------------------------------------------------------------------------
(* A step of one client leaves the answers of the others as they are. *)

LEMMA FewerHide ==
  ASSUME NEW rs, NEW more, rs \subseteq more, NEW names, NEW e, Hidden(rs, names, e)
  PROVE  Hidden(more, names, e)
BY DEF Hidden

LEMMA SameRequestSameAnswer ==
  ASSUME NEW c \in Clients, AnswerOK(c), req'[c] = req[c], since'[c] \subseteq since[c]
  PROVE  AnswerOK(c)'
<1>1. \A e : Hidden(since'[c], {}, e) => Hidden(since[c], {}, e)
  BY FewerHide
<1> QED BY <1>1 DEF AnswerOK, Answered

LEMMA StepKeeps ==
  ASSUME RecallInv, NEW c \in Clients, NEW n, ReqOK(n), Set(c, n), TablesTyped', SinceInv',
         \A d \in Clients \ {c} : since'[d] \subseteq since[d],
         AnswerOK(c)'
  PROVE  RecallInv'
<1>1. DOMAIN req' = Clients /\ req'[c] = n /\ \A d \in Clients \ {c} : req'[d] = req[d]
  BY DEF Set, RecallInv
<1>2. ASSUME NEW d \in Clients PROVE ReqOK(req'[d]) /\ AnswerOK(d)'
  <2>1. CASE d = c
    BY <1>1, <2>1
  <2>2. CASE d # c
    BY <1>1, <2>2, SameRequestSameAnswer DEF RecallInv
  <2> QED BY <2>1, <2>2
<1> QED BY <1>1, <1>2 DEF RecallInv

LEMMA UnansweredOK ==
  ASSUME NEW c \in Clients, DOMAIN req = Clients, NEW n, n.pc # "done", Set(c, n)
  PROVE  AnswerOK(c)'
<1>1. req'[c].pc # "done"
  BY DEF Set
<1> QED BY <1>1 DEF AnswerOK, Answered

LEMMA TablesStay ==
  TablesTyped /\ UNCHANGED <<entries, hides, scalars, picks, rules>> => TablesTyped'
BY DEF TablesTyped, Whole

LEMMA SinceStays == SinceInv /\ UNCHANGED <<hides, since>> => SinceInv'
BY DEF SinceInv

\* A request that reads, and has no answer yet.
LEMMA ReadKeeps ==
  ASSUME RecallInv, NEW c \in Clients, NEW n, ReqOK(n), n.pc # "done", Set(c, n), Quiet
  PROVE  RecallInv'
<1>1. UNCHANGED <<entries, hides, scalars, picks, rules, since>>
  BY DEF Quiet
<1>2. TablesTyped' /\ SinceInv'
  BY <1>1, TablesStay, SinceStays DEF RecallInv
<1>3. AnswerOK(c)'
  BY UnansweredOK DEF RecallInv
<1> QED BY <1>1, <1>2, <1>3, StepKeeps

LEMMA EnterKeeps ==
  ASSUME RecallInv, NEW c \in Clients, Enter(c)
  PROVE  RecallInv'
<1>1. PICK n \in Asks(c) : Set(c, n)
  BY DEF Enter
<1>2. UNCHANGED <<entries, hides, scalars, picks, rules>> /\ since' = [since EXCEPT ![c] = hides[Me(c)]]
  BY DEF Enter
<1>3. TablesTyped' /\ SinceInv'
  BY <1>2, TablesStay DEF RecallInv, SinceInv
<1>4. \A d \in Clients \ {c} : since'[d] = since[d]
  BY <1>2 DEF RecallInv, SinceInv
<1>5. ReqOK(n) /\ n.pc # "done"
  BY AsksOK
<1>6. AnswerOK(c)'
  BY <1>1, <1>5, UnansweredOK DEF RecallInv
<1> QED BY <1>1, <1>3, <1>4, <1>5, <1>6, StepKeeps
-----------------------------------------------------------------------------
(* Reading: rules, preferences, hits, rows. *)

LEMMA ResolvedTyped ==
  ASSUME NEW p \in PrefRows
  PROVE  Resolved(p) \in PrefRows
BY CallerAssumption DEF Resolved, PrefRows

LEMMA PrefReadsKeep ==
  ASSUME RecallInv, NEW c \in Clients,
         ReadRules(c) \/ ReadScalars(c) \/ ReadPicks(c) \/ PrefsFail(c)
  PROVE  RecallInv'
<1> DEFINE q == req[c]
<1>0. ReqOK(q) /\ q.prefs \in PrefRows /\ Shape(q) /\ Me(c) \in Actors /\ TablesTyped
  BY DEF RecallInv, ReqOK, Typed, Me, Actors
<1>1. q.op # "put" /\ q.pc \notin {"load", "see", "done"} /\ Quiet
  BY <1>0 DEF ReadRules, ReadScalars, ReadPicks, PrefsFail, ReqOK, Carries
<1>2. \E p, rs : \E prefs \in PrefRows :
        p # "done" /\ Set(c, [q EXCEPT !.rules = rs, !.pc = p, !.prefs = prefs])
  <2>1. CASE ReadRules(c)
    <3> DEFINE who == IF q.op = "enrich" THEN q.arg ELSE <<TeamOf[c], None, Me(c)>>
               rs == Applicable(who[1], who[2], who[3])
               p == IF q.op = "enrich" THEN "scalars" ELSE "hits"
               prefs == IF q.op = "enrich" THEN q.prefs ELSE Resolved(q.prefs)
    <3>1. Set(c, [q EXCEPT !.rules = rs, !.pc = p, !.prefs = prefs])
      BY <2>1, Zenon DEF ReadRules
    <3>2. prefs \in PrefRows /\ p # "done"
      BY <1>0, ResolvedTyped
    <3> HIDE DEF rs, p, prefs
    <3> QED BY <3>1, <3>2
  <2>2. CASE ReadScalars(c)
    <3>1. PICK lo \in Int, hi \in Int : Set(c, [q EXCEPT !.prefs.min = lo, !.prefs.max = hi, !.pc = "picks"])
      BY <1>0, <2>2 DEF ReadScalars, TablesTyped
    <3> DEFINE prefs == [q.prefs EXCEPT !.min = lo, !.max = hi]
    <3>2. prefs \in PrefRows
      BY <1>0, <3>1 DEF PrefRows
    <3>3. [q EXCEPT !.prefs.min = lo, !.prefs.max = hi, !.pc = "picks"]
            = [q EXCEPT !.rules = q.rules, !.pc = "picks", !.prefs = prefs]
      BY <1>0 DEF Shape
    <3> QED BY <3>1, <3>2, <3>3
  <2>3. CASE ReadPicks(c)
    <3>1. PICK ps \in [Kinds -> SUBSET (Entries \cup Values)], p \in {"rules", "hits"} :
            p # "done" /\ Set(c, [q EXCEPT !.prefs = Resolved([q.prefs EXCEPT !.picks = ps]), !.pc = p])
      BY <1>0, <2>3 DEF ReadPicks, TablesTyped, AfterPrefs
    <3> DEFINE prefs == Resolved([q.prefs EXCEPT !.picks = ps])
    <3>2. prefs \in PrefRows
      <4>1. [q.prefs EXCEPT !.picks = ps] \in PrefRows
        BY <1>0 DEF PrefRows
      <4> QED BY <4>1, ResolvedTyped
    <3> HIDE DEF prefs
    <3>3. [q EXCEPT !.prefs = prefs, !.pc = p] = [q EXCEPT !.rules = q.rules, !.pc = p, !.prefs = prefs]
      BY <1>0 DEF Shape
    <3> QED BY <3>1, <3>2, <3>3 DEF prefs
  <2>4. CASE PrefsFail(c)
    <3> DEFINE prefs == Resolved(NoPrefs)
    <3>1. PICK p : p # "done" /\ Set(c, [q EXCEPT !.prefs = prefs, !.pc = p])
      BY <2>4 DEF PrefsFail, AfterPrefs
    <3>2. prefs \in PrefRows
      BY NoPrefsTyped, ResolvedTyped
    <3> HIDE DEF prefs
    <3>3. [q EXCEPT !.prefs = prefs, !.pc = p] = [q EXCEPT !.rules = q.rules, !.pc = p, !.prefs = prefs]
      BY <1>0 DEF Shape
    <3> QED BY <3>1, <3>2, <3>3
  <2> QED BY <2>1, <2>2, <2>3, <2>4
<1>3. PICK p, rs : \E prefs \in PrefRows :
        p # "done" /\ Set(c, [q EXCEPT !.rules = rs, !.pc = p, !.prefs = prefs])
  BY <1>2
<1>4. PICK prefs \in PrefRows : p # "done" /\ Set(c, [q EXCEPT !.rules = rs, !.pc = p, !.prefs = prefs])
  BY <1>3
<1>5. PICK n : n = [q EXCEPT !.rules = rs, !.pc = p, !.prefs = prefs]
  OBVIOUS
<1>6. Set(c, n)
  BY <1>4, <1>5
<1> HIDE DEF q
<1>7. ReqOK(n) /\ n.pc = p
  <2>1. /\ n.op = q.op /\ n.pc = p /\ n.arg = q.arg /\ n.prefs = prefs /\ n.k = q.k /\ n.pool = q.pool
        /\ n.hits = q.hits /\ n.out = q.out
        /\ Shape(n)
    BY <1>0, <1>5 DEF Shape
  <2> QED BY <1>0, <1>1, <2>1 DEF ReqOK, Typed, InOrder, Carries
<1> QED BY <1>1, <1>4, <1>6, <1>7, ReadKeeps

\* The entries a pool of chunks stands for are among the stored ones.
LEMMA FoundStored ==
  ASSUME NEW live \in SUBSET Entries, NEW k
  PROVE  Found(Pool(k, live)) \subseteq live \cap Searchable
<1>1. \A p \in Pool(k, live) : p \in Chunks(live)
  BY DEF Pool, Closest
<1>2. ASSUME NEW p \in Chunks(live) PROVE p[1] \in live \cap Searchable
  <2>1. PICK e \in live : p \in {e} \X ChunksOf[e]
    BY DEF Chunks
  <2>2. p[1] = e /\ ChunksOf[e] # {}
    BY <2>1
  <2> QED BY <2>2 DEF Searchable
<1> QED BY <1>1, <1>2 DEF Found

LEMMA TopKTyped ==
  ASSUME RecallInv, NEW c \in Clients
  PROVE  TopK(c) \in Int /\ PoolSize(c) \in Int
<1>1. req[c].k \in Int /\ req[c].pool \in Int /\ req[c].prefs.max \in Int
  BY DEF RecallInv, ReqOK, Typed, PrefRows
<1>2. TopK(c) \in Int
  BY <1>1, SearchAssumption DEF TopK, FetchK
<1>3. TopK(c) * PoolPer \in Int
  BY <1>2, SearchAssumption
<1> QED BY <1>1, <1>2, <1>3 DEF PoolSize

\* An unsuccessful request ends with no entries, which nobody can object to.
LEMMA EmptyAnswerOK ==
  ASSUME NEW c \in Clients, DOMAIN req = Clients, NEW n, n.hits = {}, n.out = {}, Set(c, n)
  PROVE  AnswerOK(c)'
<1>1. req'[c].hits = {} /\ req'[c].out = {}
  BY DEF Set
<1> QED BY <1>1 DEF AnswerOK

LEMMA HitReadsKeep ==
  ASSUME RecallInv, NEW c \in Clients,
         ReadHits(c) \/ EmbedFails(c) \/ LoadRows(c) \/ ListEntries(c)
  PROVE  RecallInv'
<1> DEFINE q == req[c]
<1>0. ReqOK(q) /\ Shape(q) /\ q.hits \in SUBSET Entries /\ TablesTyped /\ DOMAIN req = Clients
  BY DEF RecallInv, ReqOK, Typed
<1>1. q.op # "put" /\ q.pc # "done" /\ Quiet
  BY <1>0 DEF ReadHits, EmbedFails, LoadRows, ListEntries, At, Goto, ReqOK, Carries
<1>2. DOMAIN entries \subseteq Entries
  BY <1>0 DEF TablesTyped
<1>3. ASSUME NEW hits \in SUBSET Entries, q.op = "list" \/ hits \subseteq Searchable,
             NEW p, p \in {"load", "see"} \/ hits = {},
             Set(c, [q EXCEPT !.hits = hits, !.pc = p])
      PROVE  RecallInv'
  <2>1. PICK n : n = [q EXCEPT !.hits = hits, !.pc = p]
    OBVIOUS
  <2>2. ReqOK(n) /\ n.pc = p /\ n.hits = hits /\ n.out = {}
    <3>1. /\ n.op = q.op /\ n.pc = p /\ n.arg = q.arg /\ n.prefs = q.prefs /\ n.k = q.k /\ n.pool = q.pool
          /\ n.hits = hits /\ n.out = q.out
          /\ Shape(n)
      BY <1>0, <2>1 DEF Shape
    <3> QED BY <1>0, <1>1, <1>3, <3>1 DEF ReqOK, Typed, InOrder, Carries
  <2>3. AnswerOK(c)'
    BY <1>0, <1>3, <2>1, <2>2, EmptyAnswerOK, UnansweredOK
  <2>4. UNCHANGED <<entries, hides, scalars, picks, rules, since>>
    BY <1>1 DEF Quiet
  <2>5. TablesTyped' /\ SinceInv'
    BY <2>4, TablesStay, SinceStays DEF RecallInv
  <2> QED BY <1>3, <2>1, <2>2, <2>3, <2>4, <2>5, StepKeeps
<1>4. CASE ReadHits(c)
  <2> DEFINE found == Found(Pool(PoolSize(c), DOMAIN entries))
             more == Lesser(PoolSize(c) * Growth, PoolMax)
  <2>1. CASE Set(c, [q EXCEPT !.hits = Closest(TopK(c), found, Best), !.pc = "load"])
    <3>1. Closest(TopK(c), found, Best) \in SUBSET Entries /\ Closest(TopK(c), found, Best) \subseteq Searchable
      BY <1>2, FoundStored DEF Closest
    <3> QED BY <1>3, <2>1, <3>1
  <2>2. CASE Set(c, [q EXCEPT !.pool = more])
    <3>1. more \in Int
      <4>1. PoolSize(c) * Growth \in Int
        BY TopKTyped, SearchAssumption
      <4> QED BY <4>1, SearchAssumption DEF Lesser
    <3>2. PICK n : n = [q EXCEPT !.pool = more]
      OBVIOUS
    <3> HIDE DEF more
    <3>3. /\ n.op = q.op /\ n.pc = q.pc /\ n.arg = q.arg /\ n.prefs = q.prefs /\ n.k = q.k /\ n.pool = more
          /\ n.hits = q.hits /\ n.out = q.out
          /\ Shape(n)
      BY <1>0, <3>2 DEF Shape
    <3>4. ReqOK(n)
      BY <1>0, <3>1, <3>3 DEF ReqOK, Typed, InOrder, Carries
    <3> QED BY <1>1, <2>2, <3>2, <3>3, <3>4, ReadKeeps DEF more
  <2> QED BY <1>4, <2>1, <2>2 DEF ReadHits
<1>5. CASE EmbedFails(c)
  <2>1. q.hits = {}
    BY <1>0, <1>5 DEF EmbedFails, ReqOK, InOrder
  <2>2. [q EXCEPT !.pc = "done"] = [q EXCEPT !.hits = {}, !.pc = "done"]
    BY <1>0, <2>1 DEF Shape
  <2> QED BY <1>3, <1>5, <2>2 DEF EmbedFails, Goto
<1>6. CASE LoadRows(c)
  <2>1. CASE Set(c, [q EXCEPT !.hits = {e \in q.hits : Wanted(c, e)}, !.pc = "see"])
    BY <1>0, <1>3, <2>1 DEF ReqOK, InOrder
  <2>2. CASE Set(c, [q EXCEPT !.hits = {}, !.pc = "done"])
    BY <1>3, <2>2
  <2> QED BY <1>6, <2>1, <2>2 DEF LoadRows
<1>7. CASE ListEntries(c)
  <2>1. {e \in DOMAIN entries : ListScope(c) \in {None, entries[e]}} \in SUBSET Entries
    BY <1>2
  <2> QED BY <1>3, <1>7, <2>1 DEF ListEntries, At
<1> QED BY <1>4, <1>5, <1>6, <1>7
-----------------------------------------------------------------------------
(* Answering. *)

LEMMA RelevanceTyped ==
  ASSUME NEW e \in Searchable
  PROVE  Relevance(e) \in Int
BY BestIsNearest, EntryAssumption DEF Relevance

\* The cap takes the entries from the front of the order, pins first.
LEMMA SelectIsFair ==
  ASSUME NEW cands \in SUBSET Searchable, NEW p \in PrefRows
  PROVE  /\ Select(cands, p) \subseteq cands
         /\ \A e \in Select(cands, p) : ~Denied(e, p)
         /\ \A e \in cands \ Select(cands, p) : \A d \in Select(cands, p) :
              Pinned(e, p) /\ ~Denied(e, p) => Pinned(d, p) /\ Relevance(d) >= Relevance(e)
<1> DEFINE kept == Kept(cands, p)
           Ahead(e) == {x \in kept : Before(x, e, p)}
<1>1. kept \subseteq cands /\ IsFiniteSet(kept) /\ \A e \in kept : e \in Searchable /\ ~Denied(e, p)
  <2>1. kept \subseteq cands /\ \A e \in kept : ~Denied(e, p)
    BY DEF Kept
  <2> QED BY <2>1, EntryAssumption, FS_Subset DEF Searchable
<1>2. Select(cands, p) = {e \in kept : p.max > 0 => Cardinality(Ahead(e)) < p.max}
  BY DEF Select
<1>3. \A e \in cands : Pinned(e, p) /\ ~Denied(e, p) => e \in kept
  BY DEF Kept
<1> HIDE DEF kept
<1>4. ASSUME NEW e \in kept \ Select(cands, p), NEW d \in Select(cands, p), Pinned(e, p)
      PROVE  Pinned(d, p) /\ Relevance(d) >= Relevance(e)
  <2>1. d \in kept /\ p.max \in Int /\ p.max > 0
        /\ Cardinality(Ahead(d)) < p.max /\ ~(Cardinality(Ahead(e)) < p.max)
    BY <1>2 DEF PrefRows
  <2>2. Relevance(d) \in Int /\ Relevance(e) \in Int
    BY <1>1, <2>1, RelevanceTyped
  <2>3. SUFFICES ASSUME ~(Pinned(d, p) /\ Relevance(d) >= Relevance(e)) PROVE FALSE
    OBVIOUS
  <2>4. Before(e, d, p)
    BY <1>4, <2>2, <2>3 DEF Before, Pinned
  <2>5. Ahead(e) \subseteq Ahead(d)
    <3>1. ASSUME NEW x \in kept, Before(x, e, p) PROVE Before(x, d, p)
      <4>1. Relevance(x) \in Int
        BY <1>1, RelevanceTyped
      <4> QED BY <2>2, <2>4, <3>1, <4>1 DEF Before
    <3> QED BY <3>1
  <2>6. IsFiniteSet(Ahead(e)) /\ IsFiniteSet(Ahead(d))
    BY <1>1, FS_Subset
  <2>7. Cardinality(Ahead(e)) <= Cardinality(Ahead(d))
        /\ Cardinality(Ahead(e)) \in Nat /\ Cardinality(Ahead(d)) \in Nat
    BY <2>5, <2>6, FS_Subset, FS_CardinalityType
  <2> QED BY <2>1, <2>7
<1>5. Select(cands, p) \subseteq kept
  BY <1>2
<1> QED BY <1>1, <1>3, <1>4, <1>5

\* An answer is put together from the rules that hold now; from none when they
\* could not be read, and then the request is marked.
LEMMA AnswerKeeps ==
  ASSUME RecallInv, NEW c \in Clients, ApplyVisibility(c) \/ VisibilityFails(c)
  PROVE  RecallInv'
<1> DEFINE q == req[c]
           Seen(rs) == {e \in q.hits : ~Hidden(rs, NamesOf[c], e)}
           Out(rs) == CASE q.op = "list" -> Seen(rs)
                        [] q.op = "search" -> Closest(q.k, Seen(rs), Best)
                        [] OTHER -> Select(Seen(rs), q.prefs)
           Hits(rs) == IF q.op = "list" THEN q.hits ELSE Seen(rs)
<1>0. /\ ReqOK(q) /\ Shape(q) /\ q.hits \in SUBSET Entries /\ q.prefs \in PrefRows
      /\ DOMAIN req = Clients /\ SinceInv /\ q.pc = "see" /\ q.op # "put" /\ Quiet
  BY DEF RecallInv, ReqOK, Typed, Carries, ApplyVisibility, VisibilityFails
<1>1. \E rs : \E failed \in BOOLEAN : Answer(c, rs, failed) /\ (failed \/ rs = hides[Me(c)])
  BY DEF ApplyVisibility, VisibilityFails
<1>2. PICK rs : \E failed \in BOOLEAN : Answer(c, rs, failed) /\ (failed \/ rs = hides[Me(c)])
  BY <1>1
<1>3. PICK failed \in BOOLEAN : Answer(c, rs, failed) /\ (failed \/ rs = hides[Me(c)])
  BY <1>2
<1>4. Set(c, [q EXCEPT !.out = Out(rs), !.open = failed, !.pc = "done", !.hits = Hits(rs)])
  BY <1>3, Zenon DEF Answer
<1>5. PICK seen : seen = Seen(rs)
  OBVIOUS
<1>6. PICK out, hits : out = Out(rs) /\ hits = Hits(rs)
  OBVIOUS
<1>7. seen \in SUBSET q.hits /\ out \in SUBSET seen
      /\ hits = IF q.op = "list" THEN q.hits ELSE seen
  <2>1. Closest(q.k, seen, Best) \in SUBSET seen
    BY DEF Closest
  <2>2. Select(seen, q.prefs) \in SUBSET seen
    BY DEF Select, Kept
  <2>3. out \in {seen, Closest(q.k, seen, Best), Select(seen, q.prefs)}
    BY <1>5, <1>6
  <2> QED BY <2>1, <2>2, <2>3, <1>5, <1>6
<1>8. /\ q.op = "list" => out = seen
      /\ q.op \in {"enrich", "preview"} => out = Select(seen, q.prefs)
  BY <1>5, <1>6
<1>9. PICK n : n = [q EXCEPT !.out = out, !.open = failed, !.pc = "done", !.hits = hits] /\ Set(c, n)
  BY <1>4, <1>6
<1> HIDE DEF q, Out, Hits
<1>10. /\ n.op = q.op /\ n.pc = "done" /\ n.arg = q.arg /\ n.prefs = q.prefs /\ n.k = q.k /\ n.pool = q.pool
       /\ n.hits = hits /\ n.out = out /\ n.open = failed
       /\ Shape(n)
  BY <1>0, <1>9 DEF Shape
<1>11. ReqOK(n)
  BY <1>0, <1>7, <1>10 DEF ReqOK, Typed, InOrder, Carries
<1>12. AnswerOK(c)'
  <2>1. req'[c] = n /\ since' = since
    BY <1>0, <1>9 DEF Set, Quiet
  <2>2. SUFFICES ASSUME ~failed
                 PROVE  /\ \A e \in out : AuthorOf[e] \in NamesOf[c] \/ ~Hidden(since[c], {}, e)
                        /\ q.op = "list" => \A e \in hits : AuthorOf[e] \in NamesOf[c] => e \in out
                        /\ q.op \in {"enrich", "preview"} =>
                             /\ \A e \in out : ~Denied(e, q.prefs)
                             /\ \A e \in hits \ out : \A d \in out :
                                  Pinned(e, q.prefs) /\ ~Denied(e, q.prefs)
                                  => Pinned(d, q.prefs) /\ Relevance(d) >= Relevance(e)
    BY <1>10, <2>1 DEF AnswerOK, Answered
  <2>3. rs = hides[Me(c)] /\ since[c] \subseteq rs
    BY <1>0, <1>3, <2>2 DEF SinceInv
  <2>4. ASSUME NEW e \in out PROVE AuthorOf[e] \in NamesOf[c] \/ ~Hidden(since[c], {}, e)
    <3>1. ~Hidden(rs, NamesOf[c], e)
      BY <1>5, <1>7
    <3> QED BY <2>3, <3>1 DEF Hidden
  <2>5. q.op = "list" => \A e \in hits : AuthorOf[e] \in NamesOf[c] => e \in out
    BY <1>5, <1>7, <1>8 DEF Hidden
  <2>6. ASSUME q.op \in {"enrich", "preview"}
        PROVE  /\ \A e \in out : ~Denied(e, q.prefs)
               /\ \A e \in hits \ out : \A d \in out :
                    Pinned(e, q.prefs) /\ ~Denied(e, q.prefs)
                    => Pinned(d, q.prefs) /\ Relevance(d) >= Relevance(e)
    <3>1. out = Select(seen, q.prefs) /\ hits = seen /\ seen \in SUBSET Searchable
      BY <1>0, <1>5, <1>7, <1>8, <2>6 DEF ReqOK, InOrder
    <3> QED BY <1>0, <3>1, SelectIsFair
  <2> QED BY <2>4, <2>5, <2>6
<1>13. UNCHANGED <<entries, hides, scalars, picks, rules, since>>
  BY <1>0 DEF Quiet
<1>14. TablesTyped' /\ SinceInv'
  BY <1>13, TablesStay, SinceStays DEF RecallInv
<1> QED BY <1>9, <1>11, <1>12, <1>13, <1>14, StepKeeps
-----------------------------------------------------------------------------
(* Preferences, visibility rules, prompt rules, entries. *)

LEMMA ReturnKeeps ==
  ASSUME RecallInv, NEW c \in Clients, Return(c), TablesTyped', SinceInv',
         \A d \in Clients \ {c} : since'[d] \subseteq since[d]
  PROVE  RecallInv'
<1>1. NoReq.pc # "done"
  BY NoReqOK
<1>2. AnswerOK(c)'
  BY <1>1, UnansweredOK DEF Return, RecallInv
<1> QED BY <1>2, NoReqOK, StepKeeps DEF Return

LEMMA PutKeeps ==
  ASSUME RecallInv, NEW c \in Clients, PutScalars(c) \/ ReplaceEnrichmentRules(c) \/ PutFails(c)
  PROVE  RecallInv'
<1> DEFINE q == req[c]
<1>0. /\ ReqOK(q) /\ Shape(q) /\ q.prefs \in Bodies /\ q.prefs \in PrefRows /\ q.k \in Int
      /\ q.op = "put" /\ q.pc # "done" /\ TablesTyped /\ SinceInv /\ Me(c) \in Actors
      /\ q.prefs.picks["pin_entry"] \subseteq Entries
  BY CallerAssumption DEF RecallInv, ReqOK, Typed, Carries, PutScalars, ReplaceEnrichmentRules, PutFails,
                          At, Me, Actors
<1>1. ASSUME UNCHANGED since, TablesTyped', SinceInv', NEW n, Set(c, n), ReqOK(n), n.pc # "done"
      PROVE  RecallInv'
  <2>1. AnswerOK(c)'
    BY <1>1, UnansweredOK DEF RecallInv
  <2> QED BY <1>1, <2>1, StepKeeps
<1>2. ASSUME NEW p \in {"scalars", "kinds"}, NEW k \in Int, NEW n, n = [q EXCEPT !.pc = p, !.k = k]
      PROVE  ReqOK(n) /\ n.pc = p
  <2>1. /\ n.op = q.op /\ n.pc = p /\ n.arg = q.arg /\ n.prefs = q.prefs /\ n.k = k /\ n.pool = q.pool
        /\ n.hits = q.hits /\ n.out = q.out
        /\ Shape(n)
    BY <1>0, <1>2 DEF Shape
  <2>2. q.hits = {} /\ q.out = {}
    BY <1>0 DEF ReqOK, InOrder, Carries
  <2> QED BY <1>0, <2>1, <2>2 DEF ReqOK, Typed, InOrder, Carries
<1>3. CASE PutScalars(c)
  <2>1. PICK n : n = [q EXCEPT !.pc = "kinds", !.k = 1]
    OBVIOUS
  <2>2. ReqOK(n) /\ n.pc = "kinds"
    <3>1. PICK p, k : p = "kinds" /\ k = 1
      OBVIOUS
    <3>2. n = [q EXCEPT !.pc = p, !.k = k] /\ p \in {"scalars", "kinds"} /\ k \in Int
      BY <2>1, <3>1
    <3> HIDE DEF q
    <3>3. ReqOK(n) /\ n.pc = p
      BY <1>2, <3>2
    <3> QED BY <3>1, <3>3
  <2>3. Set(c, n) /\ UNCHANGED <<entries, hides, picks, rules, since>>
        /\ scalars' = [scalars EXCEPT ![Me(c)] = [min |-> q.prefs.min, max |-> q.prefs.max]]
    BY <1>3, <2>1 DEF PutScalars
  <2>4. [min |-> q.prefs.min, max |-> q.prefs.max] \in [min : Int, max : Int]
    BY <1>0 DEF PrefRows
  <2>5. TablesTyped'
    BY <1>0, <2>3, <2>4 DEF TablesTyped, Whole
  <2> QED BY <1>0, <1>1, <2>2, <2>3, <2>5, SinceStays
<1>4. CASE ReplaceEnrichmentRules(c)
  <2> DEFINE kind == EnrichmentKinds[q.k]
  <2>1. /\ picks' = [picks EXCEPT ![Me(c)] = [picks[Me(c)] EXCEPT ![kind] = q.prefs.picks[kind]]]
        /\ UNCHANGED <<entries, hides, scalars, rules, since>>
    BY <1>4 DEF ReplaceEnrichmentRules
  <2> HIDE DEF kind
  <2>2. \A a \in Actors, k \in Kinds :
          picks'[a][k] = picks[a][k] \/ (a = Me(c) /\ picks'[a][k] = q.prefs.picks[k])
    BY <1>0, <2>1 DEF TablesTyped
  <2>3. picks' \in [Actors -> [Kinds -> SUBSET (Entries \cup Values)]]
    <3>1. q.prefs.picks \in [Kinds -> SUBSET (Entries \cup Values)]
          /\ picks[Me(c)] \in [Kinds -> SUBSET (Entries \cup Values)]
      BY <1>0 DEF PrefRows, TablesTyped
    <3>2. [picks[Me(c)] EXCEPT ![kind] = q.prefs.picks[kind]] \in [Kinds -> SUBSET (Entries \cup Values)]
      BY <3>1
    <3> QED BY <1>0, <2>1, <3>2 DEF TablesTyped
  <2>4. "pin_entry" \in Kinds
    BY KindsAre
  <2>5. ASSUME NEW a \in Actors PROVE picks'[a]["pin_entry"] \subseteq Entries
    BY <1>0, <2>2, <2>4 DEF TablesTyped
  <2>6. ASSUME NEW a \in Actors, NEW k \in Kinds \ {"pin_entry"} PROVE Whole(a, k)'
    <3>1. CASE picks'[a][k] = picks[a][k]
      BY <1>0, <3>1 DEF TablesTyped, Whole
    <3>2. CASE picks'[a][k] = q.prefs.picks[k]
      BY <1>0, <3>2 DEF Whole
    <3> QED BY <2>2, <3>1, <3>2
  <2>7. TablesTyped'
    BY <1>0, <2>1, <2>3, <2>5, <2>6 DEF TablesTyped
  <2>8. CASE Return(c)
    BY <1>0, <2>1, <2>7, <2>8, SinceStays, ReturnKeeps
  <2>9. CASE Set(c, [q EXCEPT !.k = q.k + 1])
    <3>1. PICK n : n = [q EXCEPT !.pc = q.pc, !.k = q.k + 1]
      OBVIOUS
    <3>2. [q EXCEPT !.k = q.k + 1] = n
      BY <1>0, <3>1 DEF Shape
    <3>3. q.pc \in {"scalars", "kinds"} /\ q.k + 1 \in Int
      BY <1>0 DEF ReqOK, Carries
    <3>4. ReqOK(n) /\ n.pc # "done"
      BY <1>2, <3>1, <3>3
    <3> QED BY <1>0, <1>1, <2>1, <2>7, <2>9, <3>2, <3>4, SinceStays
  <2> QED BY <1>4, <2>8, <2>9 DEF ReplaceEnrichmentRules, NextKind
<1>5. CASE PutFails(c)
  <2>1. UNCHANGED <<entries, hides, scalars, picks, rules, since>> /\ Return(c)
    BY <1>5 DEF PutFails, Quiet
  <2> QED BY <1>0, <2>1, TablesStay, SinceStays, ReturnKeeps
<1> QED BY <1>3, <1>4, <1>5

LEMMA PinKeeps ==
  ASSUME RecallInv, NEW c \in Clients, AddEnrichmentRule(c) \/ RemoveEnrichmentRule(c)
  PROVE  RecallInv'
<1>0. TablesTyped /\ SinceInv /\ Me(c) \in Actors /\ ReqOK(req[c])
  BY DEF RecallInv, Me, Actors
<1>1. PICK pins \in SUBSET Entries :
        /\ picks' = [picks EXCEPT ![Me(c)] = [picks[Me(c)] EXCEPT !["pin_entry"] = pins]]
        /\ UNCHANGED <<entries, hides, scalars, rules, since>> /\ Return(c)
  <2>1. picks[Me(c)]["pin_entry"] \subseteq Entries
    BY <1>0 DEF TablesTyped
  <2>2. CASE AddEnrichmentRule(c)
    <3>1. req[c].arg \in Entries
      BY <1>0, <2>2 DEF AddEnrichmentRule, At, ReqOK, Carries
    <3> QED BY <2>1, <2>2, <3>1 DEF AddEnrichmentRule
  <2>3. CASE RemoveEnrichmentRule(c)
    BY <2>1, <2>3 DEF RemoveEnrichmentRule
  <2> QED BY <2>2, <2>3
<1>2. "pin_entry" \in Kinds
  BY KindsAre
<1>3. picks' \in [Actors -> [Kinds -> SUBSET (Entries \cup Values)]]
  <2>1. [picks[Me(c)] EXCEPT !["pin_entry"] = pins] \in [Kinds -> SUBSET (Entries \cup Values)]
    BY <1>0 DEF TablesTyped
  <2> QED BY <1>0, <1>1, <2>1 DEF TablesTyped
<1>4. ASSUME NEW a \in Actors PROVE picks'[a]["pin_entry"] \subseteq Entries
  BY <1>0, <1>1, <1>2 DEF TablesTyped
<1>5. ASSUME NEW a \in Actors, NEW k \in Kinds \ {"pin_entry"} PROVE Whole(a, k)'
  <2>1. picks'[a][k] = picks[a][k]
    BY <1>0, <1>1 DEF TablesTyped
  <2> QED BY <1>0, <2>1 DEF TablesTyped, Whole
<1>6. TablesTyped'
  BY <1>0, <1>1, <1>3, <1>4, <1>5 DEF TablesTyped
<1> QED BY <1>0, <1>1, <1>6, SinceStays, ReturnKeeps

LEMMA HideKeeps ==
  ASSUME RecallInv, NEW c \in Clients, AddVisibilityRule(c) \/ DeleteVisibilityRule(c)
  PROVE  RecallInv'
<1>0. TablesTyped /\ SinceInv /\ Me(c) \in Actors /\ ReqOK(req[c]) /\ \A d \in Clients : Me(d) \in Actors
  BY DEF RecallInv, Me, Actors
<1>1. PICK rs \in SUBSET (HideKinds \X (Entries \cup Values)) :
        /\ hides' = [hides EXCEPT ![Me(c)] = rs]
        /\ UNCHANGED <<entries, scalars, picks, rules>> /\ Return(c)
        /\ \/ since' = since /\ hides[Me(c)] \subseteq rs
           \/ since' = [d \in Clients |-> since[d] \cap hides'[Me(d)]]
  <2>1. hides[Me(c)] \subseteq HideKinds \X (Entries \cup Values)
    BY <1>0 DEF TablesTyped
  <2>2. CASE AddVisibilityRule(c)
    <3>1. req[c].arg \in HideKinds \X (Entries \cup Values)
      BY <1>0, <2>2 DEF AddVisibilityRule, At, ReqOK, Carries
    <3> QED BY <2>1, <2>2, <3>1 DEF AddVisibilityRule
  <2>3. CASE DeleteVisibilityRule(c)
    BY <2>1, <2>3 DEF DeleteVisibilityRule
  <2> QED BY <2>2, <2>3
<1>2. TablesTyped'
  BY <1>0, <1>1 DEF TablesTyped, Whole
<1>3. SinceInv'
  BY <1>0, <1>1 DEF SinceInv, TablesTyped
<1>4. \A d \in Clients : since'[d] \subseteq since[d]
  BY <1>1
<1> QED BY <1>1, <1>2, <1>3, <1>4, ReturnKeeps

LEMMA RuleKeeps ==
  ASSUME RecallInv, NEW c \in Clients, StoreRule(c) \/ UpdateRule(c) \/ DeleteRule(c)
  PROVE  RecallInv'
<1>0. TablesTyped /\ SinceInv /\ ReqOK(req[c])
  BY DEF RecallInv
<1>1. UNCHANGED <<entries, hides, scalars, picks, since>> /\ Return(c)
  BY DEF StoreRule, UpdateRule, DeleteRule, OnlyRules
<1>2. DOMAIN rules' \subseteq RuleIds /\ \A r \in DOMAIN rules' : rules'[r] \in RuleRows
  <2>1. DOMAIN rules \subseteq RuleIds /\ \A r \in DOMAIN rules : rules[r] \in RuleRows
    BY <1>0 DEF TablesTyped
  <2>2. CASE StoreRule(c) \/ UpdateRule(c)
    <3>1. req[c].arg[1] \in RuleIds /\ req[c].arg[2] \in RuleRows
      BY <1>0, <2>2 DEF StoreRule, UpdateRule, At, ReqOK, Carries
    <3> QED BY <2>1, <2>2, <3>1 DEF StoreRule, UpdateRule
  <2>3. CASE DeleteRule(c)
    BY <2>1, <2>3 DEF DeleteRule
  <2> QED BY <2>2, <2>3
<1>3. TablesTyped'
  BY <1>0, <1>1, <1>2 DEF TablesTyped, Whole
<1> QED BY <1>0, <1>1, <1>3, SinceStays, ReturnKeeps

LEMMA OthersKeep ==
  ASSUME RecallInv, OtherChange \/ UNCHANGED vars
  PROVE  RecallInv'
<1>1. UNCHANGED <<hides, scalars, picks, rules, req, since>>
  BY DEF OtherChange, vars
<1>2. DOMAIN entries' \subseteq Entries /\ \A e \in DOMAIN entries' : entries'[e] \in Teams
  BY DEF OtherChange, vars, RecallInv, TablesTyped
<1>3. TablesTyped' /\ SinceInv'
  BY <1>1, <1>2, SinceStays DEF RecallInv, TablesTyped, Whole
<1>4. \A c \in Clients : ReqOK(req'[c]) /\ AnswerOK(c)'
  BY <1>1, SameRequestSameAnswer DEF RecallInv
<1> QED BY <1>1, <1>3, <1>4 DEF RecallInv
-----------------------------------------------------------------------------
LEMMA InitInv == Init => RecallInv
<1> SUFFICES ASSUME Init PROVE RecallInv
  OBVIOUS
<1>1. TablesTyped
  <2>1. NoRules \in [Kinds -> SUBSET (Entries \cup Values)] /\ NoRules = NoPrefs.picks
        /\ \A k \in Kinds : NoRules[k] = {}
    BY DEF NoRules, NoPrefs
  <2>2. "pin_entry" \in Kinds
    BY KindsAre
  <2>3. picks \in [Actors -> [Kinds -> SUBSET (Entries \cup Values)]]
        /\ \A a \in Actors : picks[a]["pin_entry"] \subseteq Entries
    BY <2>1, <2>2 DEF Init
  <2>4. \A a \in Actors, k \in Kinds : Whole(a, k)
    BY <2>1 DEF Init, Whole
  <2>5. scalars \in [Actors -> [min : Int, max : Int]] /\ DOMAIN rules = {}
    BY DEF Init, Unset
  <2> QED BY <2>3, <2>4, <2>5 DEF Init, TablesTyped
<1>2. SinceInv
  BY DEF Init, SinceInv
<1>3. \A c \in Clients : req[c] = NoReq
  BY DEF Init
<1>4. \A c \in Clients : ReqOK(req[c]) /\ AnswerOK(c)
  BY <1>3, NoReqOK DEF AnswerOK, Answered
<1> QED BY <1>1, <1>2, <1>4 DEF RecallInv, Init

LEMMA NextKeepsInv == RecallInv /\ [Next]_vars => RecallInv'
<1>1. ASSUME RecallInv, NEW c \in Clients, RecallStep(c) PROVE RecallInv'
  BY <1>1, PrefReadsKeep, HitReadsKeep, AnswerKeeps DEF RecallStep
<1>2. ASSUME RecallInv, NEW c \in Clients, PrefStep(c) PROVE RecallInv'
  BY <1>2, PutKeeps, PinKeeps, HideKeeps, RuleKeeps DEF PrefStep
<1> QED BY <1>1, <1>2, EnterKeeps, OthersKeep DEF Next

\* Every table and request is well formed, and every answer given is right.
THEOREM RecallInvariant == Spec => []RecallInv
BY InitInv, NextKeepsInv, PTL DEF Spec

\* However two windows save preferences at once, each list of values is one
\* that was saved as a whole (enrichment_prefs_sqlite.go:135).
THEOREM RecallTyped == Spec => []TypeOK
<1>1. RecallInv => TypeOK
  BY DEF RecallInv, TablesTyped, SinceInv, ReqOK, Typed, Whole, TypeOK
<1> QED BY RecallInvariant, <1>1, PTL

\* What a caller has hidden since before the request began is in no answer, and
\* a caller's own entries are in every list (visibility.go:3).
THEOREM RecallHidden == Spec => []HiddenStaysHidden
<1>1. RecallInv => HiddenStaysHidden
  BY DEF RecallInv, AnswerOK, HiddenStaysHidden
<1> QED BY RecallInvariant, <1>1, PTL

\* No pinned entry loses its place in a prompt to one that is not pinned or less
\* relevant, and denied entries never have one (enrich.go:53-54).
THEOREM RecallPinsSurvive == Spec => []PinsSurvive
<1>1. RecallInv => PinsSurvive
  BY DEF RecallInv, AnswerOK, PinsSurvive
<1> QED BY RecallInvariant, <1>1, PTL
-----------------------------------------------------------------------------
(* The search: the chunk query whose pool is enough finds the nearest.     *)

\* Only its own chunk query takes a request from "hits" to "load".
LEMMA HitsToLoad ==
  ASSUME RecallInv, [Next]_vars, NEW c \in Clients, req[c].pc = "hits", req'[c].pc = "load"
  PROVE  ReadHits(c)
<1>1. ASSUME NEW d \in Clients, NEW n, Set(d, n) PROVE d = c /\ n.pc = "load"
  BY <1>1 DEF Set, RecallInv
<1>2. ~Return(c) /\ \A d \in Clients : ~Return(d)
  BY <1>1, NoReqOK DEF Return, NoReq
<1>3. ASSUME NEW d \in Clients, Enter(d) PROVE FALSE
  BY <1>1, <1>3 DEF Enter
<1>4. ASSUME NEW d \in Clients, RecallStep(d) PROVE ReadHits(c)
  <2>1. d = c
    BY <1>1, <1>4 DEF RecallStep, ReadRules, ReadScalars, ReadPicks, PrefsFail, ReadHits, EmbedFails, Goto,
                      LoadRows, ListEntries, ApplyVisibility, VisibilityFails, Answer
  <2>2. ~EmbedFails(c)
    <3>1. SUFFICES ASSUME EmbedFails(c) PROVE FALSE
      OBVIOUS
    <3>2. PICK n : n = [req[c] EXCEPT !.pc = "done"] /\ Set(c, n)
      BY <3>1 DEF EmbedFails, Goto
    <3>3. n.pc = "load"
      BY <1>1, <3>2
    <3>4. Shape(req[c])
      BY DEF RecallInv, ReqOK, Typed
    <3> QED BY <3>2, <3>3, <3>4 DEF Shape
  <2> QED BY <1>4, <2>1, <2>2 DEF RecallStep, ReadRules, ReadScalars, ReadPicks, PrefsFail, LoadRows,
                                  ListEntries, At, ApplyVisibility, VisibilityFails
<1>5. ASSUME NEW d \in Clients, PrefStep(d) PROVE FALSE
  <2>1. PutScalars(d) \/ ReplaceEnrichmentRules(d)
    BY <1>2, <1>5 DEF PrefStep, PutFails, AddEnrichmentRule, RemoveEnrichmentRule, AddVisibilityRule,
                      DeleteVisibilityRule, StoreRule, UpdateRule, DeleteRule
  <2>2. d = c
    BY <1>1, <1>2, <2>1 DEF PutScalars, ReplaceEnrichmentRules, NextKind
  <2> QED BY <2>1, <2>2 DEF PutScalars, ReplaceEnrichmentRules, At
<1>6. ~OtherChange /\ ~UNCHANGED vars
  BY DEF OtherChange, vars
<1> QED BY <1>3, <1>4, <1>5, <1>6 DEF Next

\* There are finitely many chunks, each a natural number away.
LEMMA ChunksAre ==
  ASSUME NEW live \in SUBSET Entries
  PROVE  /\ IsFiniteSet(Chunks(live))
         /\ \A p \in Chunks(live) : p[1] \in live \cap Searchable /\ p[2] \in Nat /\ Best[p[1]] <= p[2]
         /\ \A e \in live \cap Searchable : <<e, Best[e]>> \in Chunks(live)
<1>1. \A e \in Entries : ChunksOf[e] \subseteq 0..Far
  BY EntryAssumption
<1>2. Chunks(live) \in SUBSET (Entries \X (0..Far))
  BY <1>1 DEF Chunks
<1>3. IsFiniteSet(Entries \X (0..Far))
  <2>1. IsFiniteSet(0..Far) /\ IsFiniteSet(Entries)
    BY EntryAssumption, FS_Interval
  <2> QED BY <2>1, FS_Product
<1>4. IsFiniteSet(Chunks(live))
  BY <1>2, <1>3, FS_Subset
<1>5. ASSUME NEW p \in Chunks(live) PROVE p[1] \in live \cap Searchable /\ p[2] \in Nat /\ Best[p[1]] <= p[2]
  <2>1. PICK e \in live : p \in {e} \X ChunksOf[e]
    BY <1>5 DEF Chunks
  <2>2. p[1] = e /\ p[2] \in ChunksOf[e] /\ e \in Entries /\ e \in Searchable
    BY <2>1 DEF Searchable
  <2> QED BY <1>1, <2>2, BestIsNearest, EntryAssumption
<1>6. ASSUME NEW e \in live \cap Searchable PROVE <<e, Best[e]>> \in Chunks(live)
  <2>1. <<e, Best[e]>> \in {e} \X ChunksOf[e]
    BY <1>6, BestIsNearest
  <2> QED BY <2>1 DEF Chunks
<1> QED BY <1>4, <1>5, <1>6

\* A pool that is enough, when the chunks are no more than the cap, holds topK
\* entries or all that can be found; and no entry outside it is nearer than one inside.
LEMMA EnoughIsEnough ==
  ASSUME NEW live \in SUBSET Entries, NEW k \in Int, NEW topK \in Int, NEW pool, pool = Pool(k, live),
         Enough(pool, k, topK), Cardinality(Chunks(live)) <= PoolMax
  PROVE  /\ Found(pool) \in SUBSET (live \cap Searchable)
         /\ Found(pool) = live \cap Searchable \/ Cardinality(Found(pool)) >= topK
         /\ \A e \in Found(pool), x \in (live \cap Searchable) \ Found(pool) : Best[e] <= Best[x]
<1> DEFINE all == Chunks(live)
           near == live \cap Searchable
           dist == [p \in all |-> p[2]]
<1>1. /\ IsFiniteSet(all) /\ \A p \in all : dist[p] \in Nat /\ dist[p] = p[2]
      /\ \A p \in all : p[1] \in near /\ Best[p[1]] <= p[2]
      /\ \A e \in near : <<e, Best[e]>> \in all
  BY ChunksAre
<1>2. pool = Closest(k, all, dist)
  BY DEF Pool
<1> HIDE DEF dist, all
<1>3. /\ pool \subseteq all
      /\ pool # all => Cardinality(pool) >= k
      /\ \A y \in pool : \A x \in all \ pool : dist[y] <= dist[x]
  BY <1>1, <1>2, ClosestIs
<1>4. Found(pool) \in SUBSET near
  BY <1>1, <1>3 DEF Found
<1>5. CASE pool = all
  <2>1. ASSUME NEW e \in near PROVE e \in Found(pool)
    <3>1. <<e, Best[e]>> \in pool /\ <<e, Best[e]>>[1] = e
      BY <1>1, <1>5
    <3> QED BY <3>1 DEF Found
  <2> QED BY <1>4, <2>1
<1>6. CASE pool # all
  <2>1. IsFiniteSet(pool) /\ Cardinality(pool) \in Nat /\ Cardinality(all) \in Nat
        /\ Cardinality(pool) <= Cardinality(all) /\ Cardinality(pool) # Cardinality(all)
    BY <1>1, <1>3, <1>6, FS_Subset, FS_CardinalityType
  <2>2. Cardinality(pool) >= k /\ Cardinality(all) <= PoolMax /\ PoolMax \in Nat
    BY <1>3, <1>6, SearchAssumption DEF all
  <2>3. Cardinality(Found(pool)) >= topK
    BY <2>1, <2>2 DEF Enough
  <2>4. ASSUME NEW e \in Found(pool), NEW x \in near \ Found(pool) PROVE Best[e] <= Best[x]
    <3>1. PICK p \in pool : p[1] = e
      BY <2>4 DEF Found
    <3>2. <<x, Best[x]>> \in all \ pool
      <4>1. <<x, Best[x]>> \in all /\ <<x, Best[x]>>[1] = x
        BY <1>1
      <4> QED BY <4>1, <2>4 DEF Found
    <3>3. p[2] <= Best[x]
      BY <1>1, <1>3, <3>2
    <3>4. Best[e] <= p[2] /\ p[2] \in Nat /\ Best[e] \in Nat /\ Best[x] \in Nat
      BY <1>1, <1>3, <1>4, <3>1, BestIsNearest
    <3> QED BY <3>3, <3>4
  <2> QED BY <1>4, <2>3, <2>4
<1> QED BY <1>5, <1>6

\* The sizes of the queries are numbers.
LEMMA SizesTyped ==
  ASSUME RecallInv, NEW c \in Clients
  PROVE  TopK(c) \in Int /\ PoolSize(c) \in Int
<1>1. req[c].k \in Int /\ req[c].pool \in Int /\ req[c].prefs.max \in Int
  BY DEF RecallInv, ReqOK, Typed, PrefRows
<1>2. \A max \in Int : FetchK(max) \in Int
  BY SearchAssumption DEF FetchK
<1>3. TopK(c) \in Int
  BY <1>1, <1>2 DEF TopK
<1> QED BY <1>1, <1>3, SearchAssumption DEF PoolSize

LEMMA ReadHitsFindsNearest ==
  ASSUME RecallInv, NEW c \in Clients, ReadHits(c), req'[c].pc = "load",
         Cardinality(Chunks(DOMAIN entries)) <= PoolMax
  PROVE  /\ Cardinality(req'[c].hits) >= Lesser(TopK(c), Cardinality(DOMAIN entries \cap Searchable))
         /\ \A e \in req'[c].hits, x \in (DOMAIN entries \cap Searchable) \ req'[c].hits : Best[e] <= Best[x]
<1>1. /\ DOMAIN entries \in SUBSET Entries /\ Shape(req[c]) /\ DOMAIN req = Clients
      /\ TopK(c) \in Int /\ PoolSize(c) \in Int /\ req[c].pc = "hits"
  BY SizesTyped DEF RecallInv, TablesTyped, ReqOK, Typed, ReadHits
<1>2. PICK live, topK, pool :
        /\ live = DOMAIN entries \cap Searchable /\ topK = TopK(c)
        /\ pool = Pool(PoolSize(c), DOMAIN entries)
  OBVIOUS
<1>3. PICK hits : hits = Closest(topK, Found(pool), Best)
  OBVIOUS
<1>4. Enough(pool, PoolSize(c), topK) /\ req'[c].hits = hits
  <2>1. PICK k : k = Lesser(PoolSize(c) * Growth, PoolMax)
    OBVIOUS
  <2>2. Set(c, IF Enough(pool, PoolSize(c), topK) THEN [req[c] EXCEPT !.hits = hits, !.pc = "load"]
                                                  ELSE [req[c] EXCEPT !.pool = k])
    BY <1>2, <1>3, <2>1 DEF ReadHits
  <2>3. [req[c] EXCEPT !.pool = k].pc = "hits" /\ [req[c] EXCEPT !.hits = hits, !.pc = "load"].hits = hits
    BY <1>1 DEF Shape
  <2> QED BY <1>1, <2>2, <2>3 DEF Set
<1>5. /\ Found(pool) \in SUBSET live
      /\ Found(pool) = live \/ Cardinality(Found(pool)) >= topK
      /\ \A e \in Found(pool), x \in live \ Found(pool) : Best[e] <= Best[x]
  BY <1>1, <1>2, <1>4, EnoughIsEnough
<1>6. /\ IsFiniteSet(live) /\ IsFiniteSet(Found(pool)) /\ \A e \in Found(pool) : Best[e] \in Nat
      /\ Cardinality(live) \in Nat /\ Cardinality(Found(pool)) \in Nat
  BY <1>1, <1>2, <1>5, EntryAssumption, FS_Subset, FS_CardinalityType, BestIsNearest
<1>7. /\ hits \subseteq Found(pool)
      /\ hits # Found(pool) => Cardinality(hits) >= topK
      /\ \A y \in hits : \A x \in Found(pool) \ hits : Best[y] <= Best[x]
  BY <1>1, <1>2, <1>3, <1>6, ClosestIs
<1>8. Cardinality(hits) \in Nat
  BY <1>6, <1>7, FS_Subset, FS_CardinalityType
<1>9. Cardinality(hits) >= Lesser(topK, Cardinality(live))
  BY <1>1, <1>2, <1>5, <1>6, <1>7, <1>8 DEF Lesser
<1>10. \A e \in hits, x \in live \ hits : Best[e] <= Best[x]
  BY <1>5, <1>7
<1> QED BY <1>2, <1>4, <1>9, <1>10

\* However often the pool grows and whatever changes between two chunk queries,
\* the query that ends the search finds the nearest entries, and all it was
\* asked for if there are as many (sqlite.go:1138-1143).
THEOREM RecallNearest == Spec => NearestFound
<1>1. RecallInv /\ [Next]_vars =>
        [\A c \in Clients :
           req[c].pc = "hits" /\ req'[c].pc = "load" /\ Cardinality(Chunks(DOMAIN entries)) <= PoolMax
           => /\ Cardinality(req'[c].hits) >= Lesser(TopK(c), Cardinality(DOMAIN entries \cap Searchable))
              /\ \A e \in req'[c].hits, x \in (DOMAIN entries \cap Searchable) \ req'[c].hits : Best[e] <= Best[x]]_vars
  BY HitsToLoad, ReadHitsFindsNearest
<1> QED BY RecallInvariant, <1>1, PTL DEF Spec, NearestFound
=============================================================================
