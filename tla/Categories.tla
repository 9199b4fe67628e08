----------------------------- MODULE Categories -----------------------------
(***************************************************************************)
(* The categories of one user (modules/categories).                        *)
(*                                                                         *)
(* A category may be nested under another one.  create and update check    *)
(* the parent they are given in one query and write in a later one, with   *)
(* no transaction around them, so reading and writing are separate steps.  *)
(* Names, colours and icons are left out; a request that a unique index or *)
(* the connection turns down is GiveUp.                                    *)
(***************************************************************************)
EXTENDS Integers, FiniteSets

CONSTANTS
    Ids,            \* category ids
    Writers,       \* requests served concurrently
    Overlapping,    \* may two requests that move a category be in flight?
    NoParent,       \* parentId = null
    Uncreated          \* an id not used yet

FlowTypes == {"INCOME", "EXPENSE"}
Category == [type : FlowTypes, parent : Ids \cup {NoParent}, archived : BOOLEAN]

ASSUME CategoriesAssumption ==
    /\ Overlapping \in BOOLEAN
    /\ NoParent \notin Ids
    /\ Uncreated \notin Category

VARIABLES
    categories,     \* id -> row, or Uncreated
    pending             \* what each request has checked and is about to write

categoryVars == <<categories, pending>>

NoWrite == [op |-> "idle"]
CreateReq == [op : {"create"}, type : FlowTypes, parent : Ids]
MoveReq == [op : {"move"}, id : Ids, parent : Ids]

Exists(c) == categories[c] \in Category

CategoriesTypeOK ==
    /\ categories \in [Ids -> Category \cup {Uncreated}]
    /\ \A c \in Ids : Exists(c) => categories[c].parent # c
    /\ pending \in [Writers -> {NoWrite} \cup CreateReq \cup MoveReq]

-----------------------------------------------------------------------------
(* categories.service.ts create, update, archive *)

AllowedAnyType(p, type) ==      \* mutant: no comparison of the types
    Exists(p) /\ categories[p].parent = NoParent
AllowedAtAnyDepth(p, type) ==   \* mutant: the parent may be nested itself
    Exists(p) /\ categories[p].type = type
AllowedParent(p, type) ==
    /\ Exists(p)
    /\ categories[p].type = type
    /\ categories[p].parent = NoParent

NotItself(c, p) == p # c

Row(type, parent) == [type |-> type, parent |-> parent, archived |-> FALSE]

CreateRoot(c, type) ==
    /\ categories[c] = Uncreated
    /\ categories' = [categories EXCEPT ![c] = Row(type, NoParent)]
    /\ UNCHANGED pending

CheckForCreate(r, type, p) ==
    /\ pending[r] = NoWrite
    /\ AllowedParent(p, type)
    /\ pending' = [pending EXCEPT ![r] = [op |-> "create", type |-> type, parent |-> p]]
    /\ UNCHANGED categories

CommitCreate(r, c) ==
    /\ pending[r].op = "create"
    /\ categories[c] = Uncreated
    /\ categories' = [categories EXCEPT ![c] = Row(pending[r].type, pending[r].parent)]
    /\ pending' = [pending EXCEPT ![r] = NoWrite]

(* update with parentId = null: nothing to check.                          *)
MoveToTop(c) ==
    /\ Exists(c)
    /\ categories' = [categories EXCEPT ![c].parent = NoParent]
    /\ UNCHANGED pending

CheckForMove(r, c, p) ==
    /\ pending[r] = NoWrite
    /\ Exists(c) /\ NotItself(c, p)
    /\ AllowedParent(p, categories[c].type)
    /\ Overlapping \/ \A s \in Writers : pending[s].op # "move"
    /\ pending' = [pending EXCEPT ![r] = [op |-> "move", id |-> c, parent |-> p]]
    /\ UNCHANGED categories

CommitMove(r) ==
    /\ pending[r].op = "move"
    /\ categories' = [categories EXCEPT ![pending[r].id].parent = pending[r].parent]
    /\ pending' = [pending EXCEPT ![r] = NoWrite]

Archive(c) ==
    /\ Exists(c)
    /\ categories' = [categories EXCEPT ![c].archived = TRUE]
    /\ UNCHANGED pending

GiveUp(r) ==
    /\ pending[r] # NoWrite
    /\ pending' = [pending EXCEPT ![r] = NoWrite]
    /\ UNCHANGED categories

-----------------------------------------------------------------------------
CategoriesInit ==
    /\ categories = [c \in Ids |-> Uncreated]
    /\ pending = [r \in Writers |-> NoWrite]

CategoryStep(c) ==
    \/ \E type \in FlowTypes : CreateRoot(c, type)
    \/ MoveToTop(c)
    \/ Archive(c)

RequestStep(r) ==
    \/ \E p \in Ids, type \in FlowTypes : CheckForCreate(r, type, p)
    \/ \E c \in Ids : CommitCreate(r, c)
    \/ \E c, p \in Ids : CheckForMove(r, c, p)
    \/ CommitMove(r)
    \/ GiveUp(r)

CategoriesNext == (\E c \in Ids : CategoryStep(c)) \/ (\E r \in Writers : RequestStep(r))

CategoriesSpec == CategoriesInit /\ [][CategoriesNext]_categoryVars

-----------------------------------------------------------------------------
(* mappers/category.mapper.ts toCategoryTree: the rows that hang, directly *)
(* or not, from a row whose parent is not among the rows.                  *)
Rows == {c \in Ids : Exists(c)}
Roots(rows) == {c \in rows : categories[c].parent \notin rows}
Tree(rows) ==
    {c \in rows : \A T \in SUBSET rows :
        /\ Roots(rows) \subseteq T
        /\ \A d \in rows : categories[d].parent \in T => d \in T
        => c \in T}

(* The queries buildTree can make.                                         *)
Shown(types, archivedToo) ==
    {c \in Rows : categories[c].type \in types /\ (archivedToo \/ ~categories[c].archived)}

(* Every category the user asks for is in the tree he gets: the mapper     *)
(* attaches "each row to its parent" and never drops one                   *)
(* (category.mapper.ts 27-29).                                             *)
TreeHoldsEveryCategory ==
    \A types \in {{"INCOME"}, {"EXPENSE"}, FlowTypes}, archivedToo \in BOOLEAN :
        Tree(Shown(types, archivedToo)) = Shown(types, archivedToo)

(* Request r moves a category under a parent that would not pass the check *)
(* of update any more.                                                     *)
StaleMove(r) ==
    /\ pending[r].op = "move"
    /\ ~AllowedParent(pending[r].parent, categories[pending[r].id].type)

(* Only a move whose check has gone stale can take categories out of the   *)
(* tree: no creation, archiving, un-nesting or fresh move ever does, deep  *)
(* as the legal moves may have made it.                                    *)
OnlyStaleMovesLoseCategories ==
    [][\/ UNCHANGED categories
       \/ \E r \in Writers : StaleMove(r) /\ pending'[r] = NoWrite
       \/ TreeHoldsEveryCategory => TreeHoldsEveryCategory']_categoryVars

(* A nested category and its parent have one flow type, however requests   *)
(* overlap (categories.service.ts 49-50, "nested categories share the same *)
(* owner and flow type").                                                  *)
SameTypeNesting ==
    \A c \in Rows : categories[c].parent # NoParent =>
        /\ categories[c].parent \in Rows
        /\ categories[categories[c].parent].type = categories[c].type

(* Categories support only one level of nesting (categories.service.ts 88, *)
(* schema.prisma 211).                                                     *)
OneLevel ==
    \A c \in Rows : categories[c].parent \in Rows =>
        categories[categories[c].parent].parent = NoParent
=============================================================================
