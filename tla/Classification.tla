--------------------------- MODULE Classification ---------------------------
(***************************************************************************)
(* The category of a transaction: the create form of the web client        *)
(* (transactions.ts), and who checks a category against a flow type in the *)
(* API: transactions.service.ts does, when it is given one; nobody does    *)
(* for a recurring template, whose occurrences are then refused one by one *)
(* (recurring.service.ts).                                                 *)
(*                                                                         *)
(* update reads the transaction and writes it in later statements; the     *)
(* type of a category never changes.                                       *)
(***************************************************************************)
EXTENDS FiniteSets

CONSTANTS EntryIds,      \* transaction ids
          Updates,      \* updates served concurrently
          Same,         \* a field the client leaves out
          NoEntry       \* no row, no update, no form

Directions == {"INCOME", "EXPENSE"}
CategoryType == [salary |-> "INCOME", food |-> "EXPENSE"]
NoCategory == "uncategorized"
CategoryNames == DOMAIN CategoryType \cup {NoCategory}

Entry == [type : Directions, category : CategoryNames]
VARIABLES classified,   \* id -> row, or NoEntry
          updating,     \* what each update has read and checked
          draft,        \* the form of the transactions page, or NoEntry
          template      \* a recurring template, or NoEntry

classificationVars == <<classified, updating, draft, template>>

Checked == [entry : EntryIds, seen : Directions, type : Directions \cup {Same},
            category : CategoryNames \cup {Same}]

ASSUME ClassificationAssumption ==
    NoEntry \notin Entry \cup Checked /\ Same \notin Directions \cup CategoryNames

(* assertCategoryCompatible                                                *)
Compatible(category, type) == category # NoCategory => CategoryType[category] = type

OrElse(value, default) == IF value = Same THEN default ELSE value

-----------------------------------------------------------------------------
(* The form.                                                               *)
OpenDraft ==
    /\ draft' = [type |-> "EXPENSE", category |-> NoCategory]
    /\ UNCHANGED <<classified, updating, template>>

Retyped(type) == [draft EXCEPT !.type = type]   \* mutant: the category stays
Cleared(type) == [draft EXCEPT !.type = type, !.category = NoCategory]
OnTypeChange(type) ==
    /\ draft # NoEntry
    /\ draft' = Cleared(type)
    /\ UNCHANGED <<classified, updating, template>>

FormCategories == {c \in DOMAIN CategoryType : CategoryType[c] = draft.type}
ChooseCategory ==
    /\ draft # NoEntry
    /\ \E category \in FormCategories : draft' = [draft EXCEPT !.category = category]
    /\ UNCHANGED <<classified, updating, template>>

(* The page sends the form and the API books it, or turns it down.         *)
SubmitDraft(e) ==
    /\ draft # NoEntry
    /\ draft' = NoEntry
    /\ classified[e] = NoEntry
    /\ classified' = IF Compatible(draft.category, draft.type)
                  THEN [classified EXCEPT ![e] = draft] ELSE classified
    /\ UNCHANGED <<updating, template>>

-----------------------------------------------------------------------------
(* The other clients of the API.                                           *)
BookEntry(e, type, category) ==
    /\ classified[e] = NoEntry
    /\ Compatible(category, type)
    /\ classified' = [classified EXCEPT ![e] = [type |-> type, category |-> category]]
    /\ UNCHANGED <<updating, draft, template>>

(* RecurringService.create and update: nobody compares.                    *)
SaveTemplate(type, category) ==
    /\ template' = [type |-> type, category |-> category]
    /\ UNCHANGED <<classified, updating, draft>>

(* runDue hands the template on to TransactionsService.create, which does. *)
GenerateOccurrence(e) ==
    /\ template # NoEntry /\ classified[e] = NoEntry
    /\ Compatible(template.category, template.type)
    /\ classified' = [classified EXCEPT ![e] = template]
    /\ UNCHANGED <<updating, draft, template>>

UpdateOfOldType(seen, type, category) ==    \* mutant: compared with the type it had
    category # Same => Compatible(category, seen)
UpdateMayBook(seen, type, category) ==
    category # Same => Compatible(category, OrElse(type, seen))
CheckUpdate(u, e, type, category) ==
    /\ updating[u] = NoEntry /\ classified[e] # NoEntry
    /\ UpdateMayBook(classified[e].type, type, category)
    /\ updating' = [updating EXCEPT ![u] =
          [entry |-> e, seen |-> classified[e].type, type |-> type, category |-> category]]
    /\ UNCHANGED <<classified, draft, template>>

(* Only the fields of the request are written.                             *)
WriteUpdate(u) ==
    /\ updating[u] # NoEntry
    /\ LET change == updating[u]
       IN  classified' = [classified EXCEPT ![change.entry] =
              [type |-> OrElse(change.type, @.type), category |-> OrElse(change.category, @.category)]]
    /\ updating' = [updating EXCEPT ![u] = NoEntry]
    /\ UNCHANGED <<draft, template>>

-----------------------------------------------------------------------------
ClassificationInit ==
    /\ classified = [e \in EntryIds |-> NoEntry]
    /\ updating = [u \in Updates |-> NoEntry]
    /\ draft = NoEntry
    /\ template = NoEntry

EntryStep(e) ==
    \/ SubmitDraft(e) \/ GenerateOccurrence(e)
    \/ \E type \in Directions, category \in CategoryNames : BookEntry(e, type, category)
    \/ \E u \in Updates, type \in Directions \cup {Same}, category \in CategoryNames \cup {Same} :
          CheckUpdate(u, e, type, category)

ClassificationNext ==
    \/ OpenDraft \/ ChooseCategory
    \/ \E type \in Directions : OnTypeChange(type)
    \/ \E type \in Directions, category \in CategoryNames : SaveTemplate(type, category)
    \/ \E e \in EntryIds : EntryStep(e)
    \/ \E u \in Updates : WriteUpdate(u)

ClassificationSpec == ClassificationInit /\ [][ClassificationNext]_classificationVars

-----------------------------------------------------------------------------
Mismatched(e) == classified[e] # NoEntry /\ ~Compatible(classified[e].category, classified[e].type)

(* Update u was checked against the type the transaction still has, and    *)
(* does not change the type alone.                                         *)
FullyChecked(u) ==
    LET change == updating[u]
    IN  /\ change.seen = classified[change.entry].type
        /\ change.type # Same => change.category # Same

(* The form and the API agree: the page never sends a category the API     *)
(* refuses, in whatever order type and category were chosen.               *)
DraftIsNeverRefused == draft # NoEntry => Compatible(draft.category, draft.type)

(* A transaction comes under a category of the other flow type only where  *)
(* an update changes the type alone or acts on an image another update has *)
(* overtaken; a template with such a category books nothing.               *)
MismatchHasAReason ==
    [][\A e \in EntryIds : Mismatched(e)' /\ ~Mismatched(e) =>
          \E u \in Updates : /\ updating[u] # NoEntry /\ updating'[u] = NoEntry
                            /\ updating[u].entry = e /\ ~FullyChecked(u)]_classificationVars
=============================================================================
