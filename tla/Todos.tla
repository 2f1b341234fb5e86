------------------------------- MODULE Todos -------------------------------
(***************************************************************************)
(* Todo lists and items: internal/storage/todos_sqlite.go under the REST   *)
(* handlers of internal/web/todo_handlers.go and the MCP tools of          *)
(* internal/mcp/todo_tools.go.                                             *)
(*                                                                         *)
(* A handler loads a row, checks that the caller's team may see it,        *)
(* overlays the fields of the request and writes the whole row back; no    *)
(* transaction spans the two, so the steps of other callers fall between.  *)
(* A caller holds one request at a time (req).  Ids are UUIDs: a row that  *)
(* was deleted is Gone and its id never comes back.  SQLite enforces the   *)
(* foreign key of todo_items.list_id (sqlite.go:28,464).                   *)
(*                                                                         *)
(* Left out: title, notes, priority, assignee, due date, tags (they travel *)
(* with the row exactly as status and pos do), the activity records, and   *)
(* the links and knowledge references hanging off an item.                 *)
(***************************************************************************)
EXTENDS Naturals, FiniteSets, SequencesExt

CONSTANTS Lists, Items, Callers, Teams, Names,
          Home,      \* the team of each caller's context
          Reach,     \* the teams each caller may access (auth.CanAccess)
          Ops,       \* the operations each caller requests
          MaxPos     \* bound on positions

ASSUME CallersAssumption ==
  /\ Home \in [Callers -> Teams]
  /\ Reach \in [Callers -> SUBSET Teams]
  /\ \A c \in Callers : Home[c] \in Reach[c]
ASSUME BoundAssumption == /\ MaxPos \in Nat \ {0}
                          /\ IsFiniteSet(Items) /\ Cardinality(Items) <= MaxPos

VARIABLES list,   \* the todo_lists table
          item,   \* the todo_items table
          req     \* what each caller's handler holds

todoVars == <<list, item, req>>

Unborn == [state |-> "unborn"]
Gone   == [state |-> "gone"]
Top    == "top"                            \* AfterID = ''
Idle   == [op |-> "idle"]

ASSUME TopAssumption == Top \notin Items

ListRows == [team : Teams, name : Names]
ItemRows == [list : Lists, team : Teams, status : {"open", "done"},
             completed : BOOLEAN, pos : 1..MaxPos]
Patches  == [{"status"} -> {"open", "done"}] \cup [{"pos"} -> 1..MaxPos]

LiveLists == {l \in Lists : list[l] \in ListRows}
LiveItems == {i \in Items : item[i] \in ItemRows}
ItemsOf(l) == {i \in LiveItems : item[i].list = l}

CanSeeList(c, l) == l \in LiveLists /\ list[l].team \in Reach[c]
CanSeeItem(c, i) == i \in LiveItems /\ item[i].team \in Reach[c]

Asks(c, op) == req[c] = Idle /\ op \in Ops[c]
Holds(c, op) == req[c].op = op
Keeps(c, q) == req' = [req EXCEPT ![c] = q]
Answers(c) == Keeps(c, Idle)

TodoInit == /\ list = [l \in Lists |-> Unborn]
        /\ item = [i \in Items |-> Unborn]
        /\ req = [c \in Callers |-> Idle]
-----------------------------------------------------------------------------
(* Lists. *)

InsertList(c, l, n) == /\ list[l] = Unborn
                       /\ list' = [list EXCEPT ![l] = [team |-> Home[c], name |-> n]]

CreateList(c, l, n) == /\ Asks(c, "createList")
                       /\ InsertList(c, l, n)
                       /\ UNCHANGED <<item, req>>

ReadList(c, l, n) == /\ Asks(c, "editList") /\ CanSeeList(c, l)
                     /\ Keeps(c, [op |-> "editList", list |-> l, name |-> n])
                     /\ UNCHANGED <<list, item>>

UpdateList(c) ==
  /\ Holds(c, "editList")
  /\ list' = IF req[c].list \in LiveLists
             THEN [list EXCEPT ![req[c].list].name = req[c].name] ELSE list
  /\ Answers(c) /\ UNCHANGED item

ReadListToDelete(c, l) == /\ Asks(c, "deleteList") /\ CanSeeList(c, l)
                          /\ Keeps(c, [op |-> "deleteList", list |-> l])
                          /\ UNCHANGED <<list, item>>

(* ON DELETE CASCADE takes the items with the list. *)
DeleteListKeepsItems(c) ==
  /\ Holds(c, "deleteList")
  /\ list' = [list EXCEPT ![req[c].list] = Gone]
  /\ Answers(c) /\ UNCHANGED item

DeleteList(c) ==
  /\ Holds(c, "deleteList")
  /\ list' = [list EXCEPT ![req[c].list] = Gone]
  /\ item' = [i \in Items |-> IF i \in ItemsOf(req[c].list) THEN Gone ELSE item[i]]
  /\ Answers(c)
-----------------------------------------------------------------------------
(* Creating an item, in a list given by id or (todo_add) by name. *)

AddTo(c, l) == /\ Asks(c, "add") /\ CanSeeList(c, l)
               /\ Keeps(c, [op |-> "insert", list |-> l, team |-> list[l].team])
               /\ UNCHANGED <<list, item>>

Named(c, n) == {l \in LiveLists : list[l].team = Home[c] /\ list[l].name = n}

(* resolveOrCreateList looks the name up and takes the list it finds ... *)
ResolveFound(c, n) ==
  /\ Asks(c, "addByName")
  /\ \E l \in Named(c, n) : Keeps(c, [op |-> "insert", list |-> l, team |-> Home[c]])
  /\ UNCHANGED <<list, item>>

ResolveMissing(c, n) == /\ Asks(c, "addByName") /\ Named(c, n) = {}
                        /\ Keeps(c, [op |-> "make", name |-> n])
                        /\ UNCHANGED <<list, item>>

(* ... or creates it, in a later statement. *)
MakeList(c, l) == /\ Holds(c, "make")
                  /\ InsertList(c, l, req[c].name)
                  /\ Keeps(c, [op |-> "insert", list |-> l, team |-> Home[c]])
                  /\ UNCHANGED item

(* The priority and the due date are checked after the list is resolved,   *)
(* and an INSERT into a list that was deleted meanwhile fails.             *)
RejectItem(c) == /\ Holds(c, "insert")
                 /\ Answers(c) /\ UNCHANGED <<list, item>>

LastPos(l) == IF ItemsOf(l) = {} THEN 0 ELSE Max({item[i].pos : i \in ItemsOf(l)})

CreateTodoAtMax(c, i, s) ==
  /\ Holds(c, "insert") /\ item[i] = Unborn
  /\ req[c].list \in LiveLists /\ LastPos(req[c].list) < MaxPos
  /\ item' = [item EXCEPT ![i] =
                [list |-> req[c].list, team |-> req[c].team, status |-> s,
                 completed |-> s = "done", pos |-> LastPos(req[c].list)]]
  /\ Answers(c) /\ UNCHANGED list

CreateTodo(c, i, s) ==
  /\ Holds(c, "insert") /\ item[i] = Unborn
  /\ req[c].list \in LiveLists /\ LastPos(req[c].list) < MaxPos
  /\ item' = [item EXCEPT ![i] =
                [list |-> req[c].list, team |-> req[c].team, status |-> s,
                 completed |-> s = "done", pos |-> LastPos(req[c].list) + 1]]
  /\ Answers(c) /\ UNCHANGED list
-----------------------------------------------------------------------------
(* Patching an item: read the row, overlay, write the row back. *)

ReadTodo(c, i, p) == /\ Asks(c, "patch") /\ CanSeeItem(c, i)
                     /\ Keeps(c, [op |-> "write", item |-> i, read |-> item[i], set |-> p])
                     /\ UNCHANGED <<list, item>>

ReadTodoToMove(c, i) == /\ Asks(c, "move") /\ CanSeeItem(c, i)
                        /\ Keeps(c, [op |-> "target", item |-> i, read |-> item[i]])
                        /\ UNCHANGED <<list, item>>

(* The target list is loaded and access to it checked; the item struct     *)
(* gets its id and its team.                                               *)
ReadTarget(c, l) ==
  /\ Holds(c, "target") /\ CanSeeList(c, l)
  /\ Keeps(c, [op |-> "write", item |-> req[c].item, read |-> req[c].read,
               set |-> [list |-> l, team |-> list[l].team]])
  /\ UNCHANGED <<list, item>>

TargetRefused(c, l) == /\ Holds(c, "target") /\ ~CanSeeList(c, l)
                       /\ Answers(c) /\ UNCHANGED <<list, item>>

(* The request's fields are laid over the row that was read.  The UPDATE   *)
(* sets every column but team_id; completed_at follows status.  A missing  *)
(* item or a missing list (foreign key) is an error.                       *)
Overlay(fields, row) ==
  [f \in DOMAIN row |-> IF f \in DOMAIN fields THEN fields[f] ELSE row[f]]

UpdateTodo(c) ==
  /\ Holds(c, "write")
  /\ LET i == req[c].item  new == Overlay(req[c].set, req[c].read)
     IN item' = IF i \in LiveItems /\ new.list \in LiveLists
                THEN [item EXCEPT ![i] = [list |-> new.list, team |-> item[i].team, status |-> new.status,
                                          completed |-> new.status = "done", pos |-> new.pos]]
                ELSE item
  /\ Answers(c) /\ UNCHANGED list
-----------------------------------------------------------------------------
(* Completing, deleting, reordering: read for the access check, then act.  *)

ReadTodoToComplete(c, i) == /\ Asks(c, "complete") /\ CanSeeItem(c, i)
                            /\ Keeps(c, [op |-> "complete", item |-> i])
                            /\ UNCHANGED <<list, item>>

CompleteTodo(c) ==
  /\ Holds(c, "complete")
  /\ LET i == req[c].item
     IN item' = IF i \in LiveItems
                THEN [item EXCEPT ![i].status = "done", ![i].completed = TRUE] ELSE item
  /\ Answers(c) /\ UNCHANGED list

ReadTodoToDelete(c, i) == /\ Asks(c, "delete") /\ CanSeeItem(c, i)
                          /\ Keeps(c, [op |-> "delete", item |-> i])
                          /\ UNCHANGED <<list, item>>

DeleteTodo(c) == /\ Holds(c, "delete")
                 /\ item' = [item EXCEPT ![req[c].item] = Gone]
                 /\ Answers(c) /\ UNCHANGED list

(* handleTodoReorder loads both items and wants them in one list. *)
ReadTodoToReorder(c, i, after) ==
  /\ Asks(c, "reorder") /\ CanSeeItem(c, i)
  /\ after # Top => CanSeeItem(c, after) /\ item[after].list = item[i].list
  /\ Keeps(c, [op |-> "reorder", item |-> i, after |-> after])
  /\ UNCHANGED <<list, item>>

(* ORDER BY position, created_at.  created_at has one-second precision, so *)
(* items of equal position come in any order.                              *)
InOrder(S) == {s \in SetToSeqs(S) :
                 \A j, k \in 1..Len(s) : j < k => item[s[j]].pos <= item[s[k]].pos}

PlaceAfter(s, i, after) ==
  InsertAt(s, (IF after \in ToSet(s) THEN CHOOSE k \in 1..Len(s) : s[k] = after ELSE 0) + 1, i)

ReorderFinds(c) ==
  LET i == req[c].item  after == req[c].after
  IN /\ i \in LiveItems
     /\ after # Top => after \in LiveItems /\ item[after].list = item[i].list

Renumber(s) == item' = [i \in Items |-> IF i \in ToSet(s)
                                        THEN [item[i] EXCEPT !.pos = CHOOSE k \in 1..Len(s) : s[k] = i]
                                        ELSE item[i]]

(* One transaction: check, renumber the whole list 1..N, commit. *)
ReorderTodoUnchecked(c) ==
  /\ Holds(c, "reorder")
  /\ LET i == req[c].item
     IN IF i \in LiveItems
        THEN \E s \in InOrder(ItemsOf(item[i].list) \ {i}) :
               Renumber(PlaceAfter(s, i, req[c].after))
        ELSE UNCHANGED item
  /\ Answers(c) /\ UNCHANGED list

ReorderTodo(c) ==
  /\ Holds(c, "reorder")
  /\ LET i == req[c].item
     IN IF ReorderFinds(c)
        THEN \E s \in InOrder(ItemsOf(item[i].list) \ {i}) :
               Renumber(PlaceAfter(s, i, req[c].after))
        ELSE UNCHANGED item
  /\ Answers(c) /\ UNCHANGED list
-----------------------------------------------------------------------------
TodoNext ==
  \E c \in Callers :
    \/ \E l \in Lists, n \in Names : CreateList(c, l, n) \/ ReadList(c, l, n)
    \/ UpdateList(c) \/ DeleteList(c) \/ RejectItem(c)
    \/ UpdateTodo(c) \/ CompleteTodo(c) \/ DeleteTodo(c) \/ ReorderTodo(c)
    \/ \E l \in Lists : \/ ReadListToDelete(c, l) \/ AddTo(c, l) \/ MakeList(c, l)
                        \/ ReadTarget(c, l) \/ TargetRefused(c, l)
    \/ \E n \in Names : ResolveFound(c, n) \/ ResolveMissing(c, n)
    \/ \E i \in Items : \/ \E s \in {"open", "done"} : CreateTodo(c, i, s)
                        \/ \E p \in Patches : ReadTodo(c, i, p)
                        \/ ReadTodoToMove(c, i) \/ ReadTodoToComplete(c, i)
                        \/ ReadTodoToDelete(c, i)
                        \/ \E a \in Items \cup {Top} : ReadTodoToReorder(c, i, a)

TodoSpec == TodoInit /\ [][TodoNext]_todoVars
-----------------------------------------------------------------------------
(* Type invariant: the tables hold rows; a handler holds an id that was     *)
(* handed out and a row that was stored at some time; and every item lies   *)
(* in a list that exists and is done exactly when it carries a completion   *)
(* time, whatever creations, moves and stale write-backs race the deletion  *)
(* of their list and one another (todos_sqlite.go:333, and the cascade and  *)
(* foreign key of todo_items.list_id).                                      *)
TodoTypeOK ==
  /\ list \in [Lists -> ListRows \cup {Unborn, Gone}]
  /\ item \in [Items -> ItemRows \cup {Unborn, Gone}]
  /\ \A i \in LiveItems : /\ item[i].list \in LiveLists
                          /\ item[i].completed <=> item[i].status = "done"
  /\ \A c \in Callers :
       /\ req[c].op \in {"target", "write", "complete", "delete", "reorder"} =>
            item[req[c].item] # Unborn
       /\ req[c].op \in {"target", "write"} => req[c].read \in ItemRows
       /\ req[c].op \in {"editList", "deleteList", "insert"} => list[req[c].list] # Unborn

(* A reorder that commits leaves the item's whole list at positions 1..N,  *)
(* the item right behind the one named, the others in an order their old   *)
(* positions allow -- from any positions that inserts, moves and patches   *)
(* have left; one whose two items no longer share a list changes nothing   *)
(* (storage/todos.go:136-139).                                             *)
Dense(l) == {item[i].pos : i \in ItemsOf(l)} = 1..Cardinality(ItemsOf(l))
ReorderPlaces ==
  [][\A c \in Callers : (Holds(c, "reorder") /\ req'[c] = Idle) =>
       IF ~ReorderFinds(c) THEN item' = item
       ELSE \A i \in {req[c].item}, after \in {req[c].after}, l \in {item[req[c].item].list} :
              /\ Dense(l)'
              /\ item'[i].pos = IF after \in {Top, i} THEN 1 ELSE item'[after].pos + 1
              /\ \A j, k \in ItemsOf(l) \ {i} :
                   item[j].pos < item[k].pos => item'[j].pos < item'[k].pos
              /\ \A j \in Items \ ItemsOf(l) : item'[j] = item[j]]_todoVars
=============================================================================
