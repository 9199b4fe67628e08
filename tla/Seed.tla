-------------------------------- MODULE Seed --------------------------------
(***************************************************************************)
(* The demo data script (apps/api/prisma/seed.ts): find each row by a key, *)
(* create it if there is none. The script can die anywhere and is run      *)
(* again, over data the demo user has changed in between. One run at a     *)
(* time, and nobody edits while it runs.                                   *)
(***************************************************************************)
EXTENDS Integers, Sequences, FiniteSets, FiniteSetsExt

CONSTANT MaxSeedEdits       \* bound: edits of the demo user
ASSUME SeedAssumption == MaxSeedEdits \in Nat

(* The tables of the script: names and what its keys and sums read.        *)
SeedCategories ==
    {"Salary", "Freelance", "Investments", "Gifts", "Housing", "Groceries", "Transport",
     "Dining", "Utilities", "Health", "Entertainment", "Shopping"}
InitialBalance ==
    [checking |-> 350000, savings |-> 1200000, card |-> 0, cash |-> 20000]
SeedAccounts == DOMAIN InitialBalance

Sample(account, amount, description, monthsAgo) ==
    [account |-> account, amount |-> amount, description |-> description, monthsAgo |-> monthsAgo]
Samples ==                  \* an expense has a negative amount
    <<Sample("checking", 520000, "Salary", 1), Sample("checking", 520000, "Salary", 0),
      Sample("checking", -180000, "Rent", 1), Sample("checking", -180000, "Rent", 0),
      Sample("card", -42350, "Supermarket", 1), Sample("card", -38990, "Supermarket", 0),
      Sample("card", -12500, "Restaurant", 0), Sample("checking", -15800, "Electricity", 0),
      Sample("card", -9900, "Fuel", 0), Sample("card", -5499, "Streaming", 0)>>

(* The notes column of a sample, by which the next run recognises it.      *)
MarkerWithoutMonth(s) == <<s.description, s.amount>>        \* mutant
Marker(s) == <<s.description, s.monthsAgo, s.amount>>

VARIABLES
    seedStep,       \* where the script is; 0 when it does not run
    found,          \* rows of the user, categories, budget and goal that
                    \* the script's queries find
    hidden,         \* how many rows of a name an edit has hidden from them
    seeded,         \* account row -> balance: a row is a name and a number
    notes,          \* sample transactions: marker -> the account row
    edits,          \* how often the demo user has edited
    finished        \* history: has a run ended since the last edit?

seedVars == <<seedStep, found, hidden, seeded, notes, edits, finished>>

Single == {"user", "budget", "goal"}
Named == SeedCategories \cup SeedAccounts \cup Single
SeedRow(a) == <<a, hidden[a]>>      \* the row that has the name now
Markers == {Marker(Samples[i]) : i \in DOMAIN Samples}

SeedTypeOK ==
    /\ seedStep \in 0..6
    /\ found \subseteq SeedCategories \cup Single
    /\ hidden \in [Named -> 0..MaxSeedEdits]
    /\ DOMAIN seeded \subseteq SeedAccounts \X (0..MaxSeedEdits)
    /\ DOMAIN notes \subseteq Markers
    /\ \A m \in DOMAIN notes : notes[m] \in DOMAIN seeded
    /\ edits \in 0..MaxSeedEdits
    /\ finished \in BOOLEAN

-----------------------------------------------------------------------------
(* The sections of main, in order. Inside a section rows are made one by   *)
(* one; their order in the table decides nothing.                          *)
Goes(section) == seedStep = section
Then(section) == seedStep' = section

(* The table f after one insert.                                           *)
With(f, key, value) == [x \in DOMAIN f \cup {key} |-> IF x = key THEN value ELSE f[x]]

RunSeed ==
    /\ Goes(0)
    /\ Then(1)
    /\ UNCHANGED <<found, hidden, seeded, notes, edits, finished>>

UpsertUser ==
    /\ Goes(1)
    /\ found' = found \cup {"user"}
    /\ Then(2)
    /\ UNCHANGED <<hidden, seeded, notes, edits, finished>>

SeedCategory ==
    /\ Goes(2)
    /\ IF SeedCategories \subseteq found
       THEN Then(3) /\ UNCHANGED found
       ELSE Then(2) /\ found' = found \cup {CHOOSE c \in SeedCategories : c \notin found}
    /\ UNCHANGED <<hidden, seeded, notes, edits, finished>>

OpeningBalance(a) == InitialBalance[a]

MissingOrChanged ==         \* mutant: an upsert that puts the balance back
    {a \in SeedAccounts : SeedRow(a) \in DOMAIN seeded => seeded[SeedRow(a)] # InitialBalance[a]}
MissingAccounts == {a \in SeedAccounts : SeedRow(a) \notin DOMAIN seeded}

SeedAccount ==
    /\ Goes(3)
    /\ IF MissingAccounts = {}
       THEN Then(4) /\ UNCHANGED seeded
       ELSE LET a == CHOOSE a \in MissingAccounts : TRUE
            IN  seeded' = With(seeded, SeedRow(a), OpeningBalance(a)) /\ Then(3)
    /\ UNCHANGED <<found, hidden, notes, edits, finished>>

(* A sample and its account's increment commit together.                   *)
MissingSamples == {i \in DOMAIN Samples : Marker(Samples[i]) \notin DOMAIN notes}

BookSample ==
    /\ Goes(4)
    /\ IF MissingSamples = {}
       THEN Then(5) /\ UNCHANGED <<seeded, notes>>
       ELSE LET sample == Samples[Min(MissingSamples)]
                row    == SeedRow(sample.account)
            IN  /\ notes' = With(notes, Marker(sample), row)
                /\ seeded' = [seeded EXCEPT ![row] = @ + sample.amount]
                /\ Then(4)
    /\ UNCHANGED <<found, hidden, edits, finished>>

SeedBudget ==
    /\ Goes(5)
    /\ found' = found \cup {"budget"}
    /\ Then(6)
    /\ UNCHANGED <<hidden, seeded, notes, edits, finished>>

SeedGoal ==
    /\ Goes(6)
    /\ found' = found \cup {"goal"}
    /\ Then(0)
    /\ finished' = TRUE
    /\ UNCHANGED <<hidden, seeded, notes, edits>>

SeedDies ==
    /\ seedStep # 0
    /\ Then(0)
    /\ UNCHANGED <<found, hidden, seeded, notes, edits, finished>>

-----------------------------------------------------------------------------
(* What the demo user does between two runs that the queries notice: nest  *)
(* a category, which takes its budget along, rename an account or the      *)
(* goal, delete a sample transaction.                                      *)
Edit ==
    /\ Goes(0)
    /\ edits < MaxSeedEdits
    /\ edits' = edits + 1
    /\ finished' = FALSE

HideRow(x) ==
    /\ Edit
    /\ x \in found \cup {a \in SeedAccounts : SeedRow(a) \in DOMAIN seeded}
    /\ hidden' = [hidden EXCEPT ![x] = @ + 1]
    /\ found' = found \ (IF x = "Groceries" THEN {x, "budget"} ELSE {x})
    /\ UNCHANGED <<seedStep, seeded, notes>>

DeleteSample(i) ==
    LET m == Marker(Samples[i])
    IN  /\ Edit
        /\ m \in DOMAIN notes
        /\ notes' = [n \in DOMAIN notes \ {m} |-> notes[n]]
        /\ seeded' = [seeded EXCEPT ![notes[m]] = @ - Samples[i].amount]
        /\ UNCHANGED <<seedStep, found, hidden>>

SeedInit ==
    /\ seedStep = 0
    /\ found = {}
    /\ hidden = [x \in Named |-> 0]
    /\ seeded = [row \in {} |-> 0]
    /\ notes = [m \in {} |-> <<>>]
    /\ edits = 0
    /\ finished = FALSE

SeedNext ==
    \/ RunSeed \/ UpsertUser \/ SeedCategory \/ SeedAccount
    \/ BookSample \/ SeedBudget \/ SeedGoal \/ SeedDies
    \/ \E x \in SeedCategories \cup SeedAccounts \cup {"goal"} : HideRow(x)
    \/ \E i \in DOMAIN Samples : DeleteSample(i)

SeedSpec == SeedInit /\ [][SeedNext]_seedVars

-----------------------------------------------------------------------------
(* The balance of an account is its initial balance and its transactions,  *)
(* wherever the script died and whatever was edited between its runs.      *)
BookedOn(row) ==
    {i \in DOMAIN Samples :
        Marker(Samples[i]) \in DOMAIN notes /\ notes[Marker(Samples[i])] = row}
SampleAmount == [i \in DOMAIN Samples |-> Samples[i].amount]
SeedBalances ==
    \A row \in DOMAIN seeded :
        seeded[row] = InitialBalance[row[1]] + SumFunctionOnSet(SampleAmount, BookedOn(row))

(* A run that ends leaves everything the script's tables list, the same    *)
(* expense of two months twice, however many runs have died before it.     *)
SeedComplete ==
    finished =>
        /\ SeedCategories \cup Single \subseteq found
        /\ MissingAccounts = {}
        /\ Cardinality(DOMAIN notes) = Len(Samples)

(* The data is right at any time and complete after a run that ends.       *)
SeedIntact == SeedBalances /\ SeedComplete

(* "Idempotent database seed" (seed.ts 7): after a run that has ended, no  *)
(* further run changes anything until the user does.                       *)
SeedIdempotent ==
    [][finished /\ finished' => UNCHANGED <<found, seeded, notes>>]_seedVars
=============================================================================
