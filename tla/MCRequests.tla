----------------------------- MODULE MCRequests -----------------------------
(* Components that do not touch each other's rows, each under requests     *)
(* that overlap: a behaviour runs one of them, the others stay at rest.    *)
EXTENDS Goals, Categories, Classification, Verification, ListPages, TransactionPages, TLC

VARIABLE part

Parts == {"goals", "categories", "classification", "mail", "lists", "transactions"}

MCFirstRows ==
    {[amount |-> 200, currency |-> "JPY", text |-> "null", day |-> 0, time |-> 0, current |-> 0],
     [amount |-> 4599, currency |-> "KWD", text |-> "typed", day |-> 1, time |-> 7, current |-> 0],
     [amount |-> 4599, currency |-> "USD", text |-> "", day |-> 0, time |-> 0, current |-> 0]}
MCTxnRows == {[day |-> 1, type |-> "EXPENSE"], [day |-> 2, type |-> "INCOME"]}

(* A page nobody has opened.                                               *)
ListClosed ==
    /\ page = "accounts" /\ overtaken = FALSE
    /\ rows = [i \in RowIds |-> Absent] /\ shown = rows
    /\ request = [s \in Slots |-> Unsent]
    /\ ui = [loading |-> FALSE, saving |-> FALSE, contributing |-> FALSE, open |-> FALSE,
             editing |-> NewRow, form |-> BlankForm, base |-> Absent, touched |-> FALSE]
TransactionsClosed ==
    /\ txns = [t \in TxnIds |-> NoTxn]
    /\ calls = [c \in Calls |-> Empty]
    /\ view = [page |-> 1, shown |-> {}, meta |-> BuildPaginationMeta(0, 1, PageSize),
               filter |-> AnyType, saving |-> FALSE, overtaken |-> FALSE]
    /\ walk = NoWalk

MCInit ==
    /\ part \in Parts
    /\ Init /\ CategoriesInit /\ ClassificationInit /\ MailInit
    /\ IF part = "lists" THEN PageInit ELSE ListClosed
    /\ IF part = "transactions" THEN PagesInit ELSE TransactionsClosed

MCNext ==
    /\ UNCHANGED part
    /\ \/ part = "goals" /\ Next
       \/ part = "categories" /\ CategoriesNext
       \/ part = "classification" /\ ClassificationNext
       \/ part = "mail" /\ MailNext
       \/ part = "lists" /\ PageNext
       \/ part = "transactions" /\ PagesNext
    /\ IF part = "goals" THEN TRUE ELSE UNCHANGED vars
    /\ IF part = "categories" THEN TRUE ELSE UNCHANGED categoryVars
    /\ IF part = "classification" THEN TRUE ELSE UNCHANGED classificationVars
    /\ IF part = "mail" THEN TRUE ELSE UNCHANGED mailVars
    /\ IF part = "lists" THEN TRUE ELSE UNCHANGED pageVars
    /\ IF part = "transactions" THEN TRUE ELSE UNCHANGED pagesVars

MCVars == <<part, vars, categoryVars, classificationVars, mailVars, pageVars, pagesVars>>
MCSpec == MCInit /\ [][MCNext]_MCVars

RequestSymmetry == Permutations(Ids) \cup Permutations(Requests) \cup Permutations(MailTokens)
=============================================================================
