----------------------------- MODULE ListPages -----------------------------
(***************************************************************************)
(* The pages of the web client that list, edit and remove rows: accounts,  *)
(* categories, budgets and goals (apps/web features). They share one       *)
(* shape; what differs is the form they make of a row and the row they     *)
(* make of a form.                                                         *)
(*                                                                         *)
(* A request is sent, executed by the API and answered in three steps, and *)
(* answers come in any order. Nobody else changes the rows.                *)
(***************************************************************************)
EXTENDS Money, FiniteSets

CONSTANTS RowIds, Slots,    \* rows of the list; requests in flight
          FirstRows,        \* what the rows of the list can be at first
          Absent, NewRow     \* no such row; the form is for a new one

PageNames == {"accounts", "categories", "budgets", "goals"}
(* What else a row has: a text that may be null (institution, colour,      *)
(* category, account), and a date with its time of day; day 0 is no date.  *)
(* A page leaves alone what its rows have no use for.                      *)
DefaultColor == "#1565c0"
Texts == {"null", "", "typed", DefaultColor}
ListRow == [amount : Int, currency : CurrencyCodes, text : Texts, day : Nat, time : Nat,
            current : Nat]

ASSUME ListAssumption == FirstRows \subseteq ListRow /\ Absent \notin ListRow /\ NewRow \notin RowIds

VARIABLES
    page,       \* the page that is open
    rows,       \* the rows the API has
    shown,      \* the rows the page shows
    ui,         \* its flags and forms
    request,    \* what is in flight
    overtaken   \* history: did two loads overlap, or did a request fail?

pageVars == <<page, rows, shown, ui, request, overtaken>>

(* A form; base is the row it was opened on, touched whether the user has  *)
(* typed since.                                                            *)
Form == [major : Int, currency : CurrencyCodes, text : Texts, day : Nat, time : Nat]
BlankForm == [major |-> 0, currency |-> "USD", text |-> "", day |-> 0, time |-> 0]
Typed == [major |-> 3000, currency |-> "JPY", text |-> "typed", day |-> 1, time |-> 0]

OrEmpty(text) == IF text = "null" THEN "" ELSE text     \* ?? ''
OrNull(text) == IF text = "" THEN "null" ELSE text      \* || null

Unsent == [kind |-> "none"]
Flying(kind) == [kind |-> kind, stage |-> "sent"]
Kinds == {"load", "save", "remove", "contribute"}
Stages == {"sent", "answered", "failed"}

(* saving and contributing are up exactly while such a request is in       *)
(* flight, so one click sends one request and no failure locks a button;   *)
(* the progress bar shows only while something is loading.                 *)
InFlight(kind) == {s \in Slots : request[s].kind = kind}
FlagsMatchRequests ==
    /\ Cardinality(InFlight("save")) = IF ui.saving THEN 1 ELSE 0
    /\ Cardinality(InFlight("contribute")) = IF ui.contributing THEN 1 ELSE 0
    /\ ui.loading => InFlight("load") # {}

-----------------------------------------------------------------------------
(* The forms: openEdit and save of each page.                              *)
AccountForm(row) ==
    [BlankForm EXCEPT !.major = MinorToMajor(row.amount, row.currency), !.currency = row.currency,
                      !.text = OrEmpty(row.text)]
AccountRow(old, form) ==
    IF old = Absent
    THEN [amount |-> MajorToMinor(form.major, form.currency), currency |-> form.currency,
          text |-> OrNull(form.text), day |-> 0, time |-> 0, current |-> 0]
    ELSE [old EXCEPT !.currency = form.currency, !.text = OrNull(form.text)]

CategoryForm(row) ==
    [BlankForm EXCEPT !.text = IF row.text = "null" THEN DefaultColor ELSE row.text]
CategoryRow(old, form) ==
    IF old = Absent
    THEN [amount |-> 0, currency |-> "USD", text |-> OrNull(form.text), day |-> 0, time |-> 0,
          current |-> 0]
    ELSE [old EXCEPT !.text = OrNull(form.text)]

BudgetForm(row) ==
    [BlankForm EXCEPT !.major = MinorToMajor(row.amount, "USD"), !.text = OrEmpty(row.text),
                      !.day = row.day, !.time = row.time]
BudgetRow(old, form) ==
    [amount |-> MajorToMinor(form.major, "USD"),
     currency |-> IF old = Absent THEN "USD" ELSE old.currency,
     text |-> OrNull(form.text), day |-> form.day, time |-> form.time,
     current |-> IF old = Absent THEN 0 ELSE old.current]

(* The date field of a goal has no time of day; the API takes a bare date  *)
(* for its midnight.                                                       *)
GoalFormInDollars(row) ==       \* mutant: minorToMajor with the default currency
    [major |-> MinorToMajor(row.amount, "USD"), currency |-> row.currency,
     text |-> OrEmpty(row.text), day |-> row.day, time |-> 0]
GoalForm(row) ==
    [major |-> MinorToMajor(row.amount, row.currency), currency |-> row.currency,
     text |-> OrEmpty(row.text), day |-> row.day, time |-> 0]
GoalRow(old, form) ==
    [amount |-> MajorToMinor(form.major, form.currency), currency |-> form.currency,
     text |-> OrNull(form.text), day |-> form.day, time |-> 0,
     current |-> IF old = Absent THEN 0 ELSE old.current]

FormOf(row) ==
    CASE page = "accounts"   -> AccountForm(row)
      [] page = "categories" -> CategoryForm(row)
      [] page = "budgets"    -> BudgetForm(row)
      [] page = "goals"      -> GoalForm(row)
RowOf(old, form) ==
    CASE page = "accounts"   -> AccountRow(old, form)
      [] page = "categories" -> CategoryRow(old, form)
      [] page = "budgets"    -> BudgetRow(old, form)
      [] page = "goals"      -> GoalRow(old, form)

-----------------------------------------------------------------------------
Send(s, r) == request[s] = Unsent /\ request' = [request EXCEPT ![s] = r]

(* load: the progress bar goes up, whatever is still in flight.            *)
LoadSent(s) ==
    /\ overtaken' = (overtaken \/ InFlight("load") \ {s} # {})
    /\ request' = [request EXCEPT ![s] = Flying("load")]

OpenForm(id, form, base) ==
    ui' = [ui EXCEPT !.open = TRUE, !.editing = id, !.form = form, !.base = base, !.touched = FALSE]

OpenCreate == OpenForm(NewRow, BlankForm, Absent) /\ UNCHANGED <<page, rows, shown, request, overtaken>>
OpenEdit(id) ==
    /\ shown[id] # Absent
    /\ OpenForm(id, FormOf(shown[id]), shown[id])
    /\ UNCHANGED <<page, rows, shown, request, overtaken>>

TypeInForm ==
    /\ ui.open
    /\ ui' = [ui EXCEPT !.form = Typed, !.touched = TRUE]
    /\ UNCHANGED <<page, rows, shown, request, overtaken>>

(* A closed form is forgotten: whoever opens it next fills it in anew.     *)
Closed(u) == [u EXCEPT !.open = FALSE, !.editing = NewRow, !.form = BlankForm, !.base = Absent, !.touched = FALSE]

CancelForm ==
    /\ ui.open
    /\ ui' = Closed(ui)
    /\ UNCHANGED <<page, rows, shown, request, overtaken>>

(* A blank form is not valid: it has no name.                              *)
Valid == ui.editing # NewRow \/ ui.touched
MaySave == ui.open /\ Valid /\ ~ui.saving

Save(s) ==
    /\ MaySave
    /\ Send(s, [kind |-> "save", stage |-> "sent", id |-> ui.editing, form |-> ui.form,
                base |-> ui.base, touched |-> ui.touched])
    /\ ui' = [ui EXCEPT !.saving = TRUE]
    /\ UNCHANGED <<page, rows, shown, overtaken>>

RemoveRow(s, id) ==
    /\ shown[id] # Absent
    /\ Send(s, [kind |-> "remove", stage |-> "sent", id |-> id])
    /\ UNCHANGED <<page, rows, shown, ui, overtaken>>

Contribute(s, id) ==
    /\ page = "goals"
    /\ shown[id] # Absent /\ ~ui.contributing
    /\ Send(s, [kind |-> "contribute", stage |-> "sent", id |-> id])
    /\ ui' = [ui EXCEPT !.contributing = TRUE]
    /\ UNCHANGED <<page, rows, shown, overtaken>>

-----------------------------------------------------------------------------
(* The API executes a request or turns it down.                            *)
Answered(s, stage) == request' = [request EXCEPT ![s] = [kind |-> @.kind, stage |-> stage]]
Executed(r, after) ==
    CASE r.kind = "save" /\ r.id = NewRow ->
            \E id \in RowIds : rows[id] = Absent /\ after = [rows EXCEPT ![id] = RowOf(Absent, r.form)]
      [] r.kind = "save" /\ r.id # NewRow ->
            rows[r.id] # Absent /\ after = [rows EXCEPT ![r.id] = RowOf(@, r.form)]
      [] r.kind = "remove" -> rows[r.id] # Absent /\ after = [rows EXCEPT ![r.id] = Absent]
      [] r.kind = "contribute" ->
            rows[r.id] # Absent /\ rows[r.id].current = 0 /\ after = [rows EXCEPT ![r.id].current = 1]

ServeLoad(s) ==
    /\ request[s].kind = "load" /\ request[s].stage = "sent"
    /\ request' = [request EXCEPT ![s] = [kind |-> "load", stage |-> "answered", rows |-> rows]]
    /\ UNCHANGED <<page, rows, shown, ui, overtaken>>

(* Bound: one contribution per goal.                                       *)
ServeWrite(s) ==
    /\ request[s].kind \notin {"none", "load"} /\ request[s].stage = "sent"
    /\ Executed(request[s], rows')
    /\ Answered(s, "answered")
    /\ UNCHANGED <<page, shown, ui, overtaken>>

(* A request is refused, or its answer is lost.                            *)
LoseAnswer(s) ==
    /\ request[s] # Unsent /\ request[s].stage # "failed"
    /\ Answered(s, "failed")
    /\ overtaken' = TRUE
    /\ UNCHANGED <<page, rows, shown, ui>>

(* The callbacks. After a write succeeds the list is loaded again.         *)
LoadDone(s) ==
    /\ request[s].kind = "load" /\ request[s].stage \in {"answered", "failed"}
    /\ shown' = IF request[s].stage = "answered" THEN request[s].rows ELSE shown
    /\ ui' = [ui EXCEPT !.loading = FALSE]
    /\ request' = [request EXCEPT ![s] = Unsent]
    /\ UNCHANGED <<page, rows, overtaken>>

WriteFlags(kind) ==
    CASE kind = "save"       -> [Closed(ui) EXCEPT !.saving = FALSE, !.loading = TRUE]
      [] kind = "contribute" -> [ui EXCEPT !.contributing = FALSE, !.loading = TRUE]
      [] kind = "remove"     -> [ui EXCEPT !.loading = TRUE]
NotLoadedAgain(s) ==            \* mutant: next: without load()
    request' = [request EXCEPT ![s] = Unsent] /\ UNCHANGED overtaken
LoadedAgain(s) == LoadSent(s)

WriteDone(s) ==
    /\ request[s].kind \notin {"none", "load"} /\ request[s].stage = "answered"
    /\ ui' = WriteFlags(request[s].kind)
    /\ LoadedAgain(s)
    /\ UNCHANGED <<page, rows, shown>>

FlagsAfterError(kind) ==
    [ui EXCEPT !.saving = (@ /\ kind # "save"), !.contributing = (@ /\ kind # "contribute")]

WriteFailed(s) ==
    /\ request[s].kind \notin {"none", "load"} /\ request[s].stage = "failed"
    /\ ui' = FlagsAfterError(request[s].kind)
    /\ request' = [request EXCEPT ![s] = Unsent]
    /\ UNCHANGED <<page, rows, shown, overtaken>>

-----------------------------------------------------------------------------
(* What the API may have for a page: only an account's institution can be  *)
(* empty, and a budget has a date, a goal perhaps.                         *)
OfPage(row) ==
    /\ row.text = "" => page = "accounts"
    /\ row.day # 0 => page \in {"budgets", "goals"}
    /\ page = "budgets" => row.day # 0

(* The constructor loads the list.                                         *)
PageInit ==
    /\ page \in PageNames
    /\ rows \in [RowIds -> FirstRows \cup {Absent}]
    /\ \A i \in RowIds : rows[i] # Absent => OfPage(rows[i])
    /\ shown = [i \in RowIds |-> Absent]
    /\ ui = [loading |-> TRUE, saving |-> FALSE, contributing |-> FALSE, open |-> FALSE,
             editing |-> NewRow, form |-> BlankForm, base |-> Absent, touched |-> FALSE]
    /\ \E s \in Slots : request = [t \in Slots |-> IF t = s THEN Flying("load") ELSE Unsent]
    /\ overtaken = FALSE

UserActs ==
    \/ OpenCreate \/ CancelForm \/ TypeInForm
    \/ \E id \in RowIds : OpenEdit(id)
    \/ \E s \in Slots : Save(s) \/ \E id \in RowIds : RemoveRow(s, id) \/ Contribute(s, id)

SlotStep(s) ==
    ServeLoad(s) \/ ServeWrite(s) \/ LoseAnswer(s) \/ LoadDone(s) \/ WriteDone(s) \/ WriteFailed(s)

PageNext == UserActs \/ \E s \in Slots : SlotStep(s)

PageSpec == PageInit /\ [][PageNext]_pageVars

-----------------------------------------------------------------------------
(* Once every answer is in, the page shows the rows as they are, whatever  *)
(* the user did meanwhile, unless a load overtook another or a request     *)
(* failed: no callback cancels or orders the loads.                        *)
ShownIsCurrent ==
    (\A s \in Slots : request[s] = Unsent) /\ ~overtaken => shown = rows

(* The page is in step with its requests: while they are under way in its  *)
(* flags, once they are answered in its rows.                              *)
PageInStep == FlagsMatchRequests /\ ShownIsCurrent

(* Saving a form in which nothing was typed, on a row that has stayed as   *)
(* the form found it, keeps its amount and currency, whatever the currency *)
(* (the conversions of the form and of its payload are inverse), its text  *)
(* and its date. All it changes is what the forms cannot show: an empty    *)
(* text becomes null, a category without a colour is given the default     *)
(* one, and a goal's target date loses its time of day (goals.ts 121).     *)
AsShown(row) ==
    [row EXCEPT !.text = IF @ = "" THEN "null"
                         ELSE IF page = "categories" /\ @ = "null" THEN DefaultColor ELSE @,
                !.time = IF page = "goals" THEN 0 ELSE @]
UntouchedSaveKeepsRow ==
    [][\A s \in Slots :
          LET r == request[s]
          IN  /\ r.kind = "save" /\ rows' # rows /\ request'[s] # r
              /\ ~r.touched /\ r.id # NewRow /\ rows[r.id] = r.base
              => rows'[r.id] = AsShown(r.base)]_pageVars
=============================================================================
