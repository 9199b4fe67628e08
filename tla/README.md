# FinanceHub: specifications, model checking and proofs

FinanceHub is a personal finance platform: a NestJS API over PostgreSQL (through
Prisma) and Redis, an Angular client, a Flutter client and an MCP server. The
modules here model the parts of it whose correctness depends on order: which
reads a request makes before its database transaction, what commits together,
what two requests do to each other, and what is left when a step fails; and the
parts whose arithmetic is easy to get wrong: the calendar, periods, pages,
currencies and the figures of the reports.

1. [The system](#1-the-system): its parts, their state, what is hard about them
2. [The modules](#2-the-modules) and how they correspond to the code
3. [What the runs check](#3-what-the-runs-check), the bounds, the fairness
4. [What is proved](#4-what-is-proved)
5. [Where the code and its documents disagree](#5-where-the-code-and-its-documents-disagree)
6. [What is not modelled](#6-what-is-not-modelled)
7. [Plan](#7-plan)

Paths below are relative to `src/apps/api/src/modules/` unless they say otherwise.

To parse, check or prove a module:

    tlasany Ledger.tla
    tlc -workers 2 -config MCLedger_serial.cfg MCLedger
    tlapm LedgerProofs.tla

## 1. The system

### 1.1 Components

| Component | State it keeps | Operations | What makes it correct |
| --- | --- | --- | --- |
| accounts (`accounts/`) | `accounts`: opening and current balance, archived flag | create, update, archive, `adjustBalance` (a relative increment, used by the two below) | the stored balance is the one its rows add up to |
| transactions and instalment groups (`transactions/`) | `transactions`: account, type, amount, date, category, group id | create (one row or N legs of a group), update, delete (a row or its whole group) | row and balance move together; a group is booked and removed whole |
| transfers (`transfers/`) | `transfers`: two accounts, two amounts | create, delete | both balances move, or neither |
| recurring transactions (`recurring/`) | templates with `nextRunDate`, `endDate`, `isActive` | create, update, delete, `runDue` (called by a cron or a client, for one user or for everybody) | every occurrence is booked once, none is skipped, none is owed for ever |
| distributed lock (`infrastructure/redis/redis.service.ts`) | a Redis key with a token and a TTL | acquire (`SET NX EX`), release (compare and delete) | one holder; a release frees only what its caller holds; the lock never stays taken |
| goals (`goals/`) | goal: target, current amount, status; contributions | create, update, remove, addContribution, removeContribution | the amount is the sum of the contributions; the status says whether it reaches the target |
| categories (`categories/`) | a tree of at most one level, typed | create, update (rename, move), archive, `buildTree` | every category is shown exactly once; a child has its parent's type |
| classification | the category of a transaction, template, budget | checked on create and update | income is filed under income, expense under expense |
| budgets (`budgets/`) | limit, period, anchor | create, update, remove, progress | progress sums exactly the rows of the current period |
| reports (`reports/`) | none | overview, cash flow, categories | figures agree with the rows |
| calendar and pagination helpers (`src/packages/shared-utils/`) | none | `addMonths`, `periodBounds`, `lastMonths`, `paginate`, `parseDuration` | a period contains its reference; pages partition the list |
| refresh-token sessions (`auth/`) | `refresh_tokens`: hash, family, expiry, revoked-at | register, login, refresh (find, issue, mark rotated), logout, revoke family | a token that is presented twice closes its family; a closed family stays closed |
| web client session (`src/apps/web/`) | tokens, the refresh under way | login, logout, the interceptor's single-flight refresh | one rotation at a time, so reuse detection never hits the user; waiting requests get an answer |
| mobile client session (`src/apps/mobile/`) | tokens in secure storage, the refresh under way | login, logout, refresh on 401 | the same |
| MCP server (`src/apps/mcp/`) | access token, the login under way | login, one retry after 401 | one login for requests that wait together |
| multi-factor authentication (`account-security/`) | secret, enabled flag, recovery codes | setup, enable, disable, verify | a recovery code works once; enabled means there is a secret |
| email verification and reset (`account-security/`) | one-time tokens | issue, consume | a token works once |
| rate limiting (`infrastructure/redis/redis-throttler.storage.ts`) | counter and block flag in Redis | one Lua script | no more than the limit pass in a window |
| web pages (`src/apps/web/src/app/features/`) | the rows shown, forms, flags, the page number | load, save, remove, contribute, turn the page, filter | what is shown is what the API has; one click sends one request; a page turned shows the page asked for |
| demo data seed (`src/apps/api/prisma/seed.ts`) | the demo user's rows | one script, run again at any time | idempotent; balances match the sample rows wherever it died |
| users, request timeout, cross-cutting API code, pages, screens, schema, deployment | see `PROJECT.json` | | no protocol of their own |

### 1.2 How they interact

* **Shared rows.** Transactions, transfers and the recurring scheduler all move
  `accounts.current_balance`, always by a relative `increment` inside
  `prisma.$transaction` (`accounts/accounts.repository.ts:71`). Nothing else
  writes the column.
* **Calls.** `RecurringService` books an occurrence through
  `TransactionsService.create`, and then advances the template in a statement of
  its own. Transactions, budgets and templates ask `CategoriesService` about a
  category; goals, transfers and transactions ask `AccountsRepository` about an
  account.
* **The lock.** Only `runDue` takes one, `recurring:run_due:<user>` or
  `recurring:run_due:global`; all other services rely on PostgreSQL alone.
* **The cookie jar.** The tabs of one browser share the refresh cookie but not
  the access token, which each holds in memory; the API knows neither tab nor
  browser, only the token presented.
* **Clients** see one answer per request or none: the timeout interceptor answers
  408 while the handler goes on.

### 1.3 What is hard

The transactions of this code are `READ COMMITTED`, Prisma's and PostgreSQL's
default, and take row locks only when they write. Nearly every service reads what
it decides on **before** its transaction (`findOne`), outside any lock, and
writes later. Where the write is a relative increment keyed by a row that must
still exist, that is safe; where it reverses an effect computed from the image it
read, it is not. The modules therefore make each unlocked read a step of its own,
and each commit one step, and ask of every property how much overlap it survives.
The second difficulty is the scheduler: two commits per occurrence, under a lock
that can expire, in a process that can die. The handlers of multi-factor authentication, mailed
tokens and the seed script open no transaction at all: every statement is a place
to fail or to be overtaken. The clients have the mirror image of these problems:
answers that come late, in another order, or not at all. `PROJECT.json` lists each hazard at
its line, with the property that covers it or the reason why none does.

## 2. The modules

    MinorUnits ---- LedgerRows --+-- AtomicLedger (what the ledger promises)
        |                        |        ^
        |                        |        | implements
        |                        +-- Ledger (the code) ---- MCLedger, LedgerProofs
        +-- Goals ------ MCGoals, PlanningProofs
        +-- MinorUnitsProofs (lemmas on Total, used by LedgerProofs, PlanningProofs)
    Recurring ---- MCRecurring, RecurringProofs
    Categories --- MCCategories, PlanningProofs
    Calendar --+-- Schedules (recurring's dates) --------------+
               +-- Budgets ---- Reports (adds accounts, rows) -+-- FiguresProofs
               |      +-- MCBudgets                            |
    Seed ------------------------------------------------------+
    RefreshTokens (the API) ---- WebSession (adds the browser) ---- MCWebSession ---- SessionProofs
    Classification ------------------------------- PlanningProofs
    Mfa, Throttler, Verification ----------------- SecurityProofs
    TransactionPages;  Money --+-- ListPages
                               +-- McpClient ----- ClientProofs (all three)
    MCRequests = Goals, Categories, Classification, Verification, ListPages, TransactionPages
    MCFaults   = Recurring, Mfa, Seed, Throttler, Schedules, Budgets, Reports
    MCClients  = WebSession (over RefreshTokens), McpClient

The last three host several components that touch none of each other's rows: the
variable `part` chooses one for a whole behaviour, the others rest. They answer
one kind of question each (requests that overlap; what acts over time and stops
half way; who holds tokens), with the properties of all their parts.

Each other `MC` module only adds what TLC needs (symmetry, sets that a `.cfg` cannot
write). In every module a request is a record whose `op` or `pc` says how far
its handler has come, `Idle` when there is none; a handler that throws, is cut
off by a dead connection, or loses its database transaction is `Rollback` (or
`GiveUp`, where there is nothing to roll back).

**MinorUnits.** Money is an integer number of cents in a 32-bit `INT` column
(`prisma/schema.prisma`). `MaxMinor` is the largest value of the column; a write
outside `Minor` makes PostgreSQL refuse the statement, so the whole transaction
rolls back. `Total(f)` adds up a function of amounts by counting its units: a
cardinality, so that the library's facts on finite sets say how it splits.

**LedgerRows** has what both ledgers share: rows of transactions, legs and
transfers, the effect of a row on a balance (`SignedDelta`), and the balance the
rows add up to (`RebuiltFrom`). Category, date, description and status of a row
never touch a balance and are left out; so is the currency (a transfer carries
two amounts).

**AtomicLedger** is the promise of `transactions.service.ts:28-29`: each
operation is one step that changes rows and balances together.

**Ledger** is the code. Variables are `accounts`, `opening`, `balance`, `txns`,
`transfers` and `req`.

| Action | Code |
| --- | --- |
| `CreateAccount`, `ArchiveAccount` | `accounts.service.ts` create, archive |
| `AcceptCreate`, `CommitCreate` | `transactions.service.ts` create: account check; then all legs and increments in one transaction |
| `ReadForUpdate`, `CommitUpdate` | update: `findOne` outside; then reverse the image read, apply the patched one, write the row |
| `ReadForDelete`, `CommitDelete` | delete of a single row; the row's disappearance makes `delete` throw |
| `ReadLegs`, `CommitDeleteGroup` | delete of a group: legs read inside the transaction before any lock is held; `deleteMany` does not throw |
| `AcceptTransfer`, `CommitTransfer`, `ReadForUntransfer`, `CommitUntransfer` | `transfers.service.ts` create and delete |
| `Rollback` | any of them fails before its commit |

The `FinanceHub` API does nothing to keep two edits of one row apart.
`OverlappingEdits` says whether two edits of one row (or group) may be under way
at once: a setting of the environment, not of the code. A property stated for
`~OverlappingEdits` is a promise to users who do not edit a row from two places at
the same moment. `Overlapping` in Categories is the same for moves.

**Recurring** models templates, `runDue` and the lock together. A day is a number
in `0..Horizon`; a period is a number of days (Schedules has the real dates). A pass goes through `find`, `pick`,
`create`, `advance`, `release`: `StartPass` takes the lock or does nothing,
`FindDue` copies the images of the due templates, `PickTemplate` starts with one,
`CreateOccurrence` commits a row through the ledger, `AdvanceSchedule` commits the
template, `EndPass` releases. Users edit, pause, end and delete templates in
between. `fits` says whether a template's category takes the template's type:
`recurring.service.ts` asks nobody (lines 58-100), but create asks for each
occurrence (`transactions.service.ts:264-281`), so a template that does not fit fails
in every pass until it is edited. A template on an archived account is booked like
any other, as `findById` does not look at the flag (`accounts.repository.ts:31-37`),
so accounts play no part in this module. `Faults` names what may go wrong: the first commit
fails, the second fails, the process dies between the two or elsewhere, the lock
expires under its holder, the unlock is lost. `LeaveLocked` is a pass that ends
without freeing its lock, with the fault that takes at each point (`FaultAt`). `rows[t][d]` counts the rows booked for an occurrence.

**Goals** models goals and contributions: `ReadForAdd`/`CommitAdd` and
`ReadForRemove`/`CommitRemove` split each handler at its unlocked read;
`CommitAdd` increments the amount relatively, and promotes by the image it read
(`Promoted`), as the code does. `DeleteGoal` cascades to the contributions.

**Categories** models the forest: `CheckForCreate`/`CommitCreate` and
`CheckForMove`/`CommitMove` split the handlers between the check of the parent and
the write; `Tree` is `toCategoryTree`, over the rows a query shows.

**RefreshTokens** models the rows of `refresh_tokens` and the requests that work
on them. `token[i]` is a row: live, expired or revoked, and its family (named by
the token a login drew for it). A request carries the cookie the browser had when
it was sent; each step is what runs between two awaits:

| Action | Code (`auth/`) |
| --- | --- |
| `Arrive` | the handlers of `auth.controller.ts` read the cookie; without one, refresh is refused and logout has nothing to do |
| `Find` | `findByHash`, and what `rotateRefreshToken` and `revoke` decide from it |
| `RevokeFamily`, `Revoke` | a revoked token was presented; an expired one was, or a logout |
| `Issue`, `MarkRotated`, `Load` | the three awaits of a refresh that was found good; `Issue` also ends a login |
| `Refuse`, `Fail`, `Expire` | wrong credentials; an await throws; `expiresAt` passes |

**WebSession** puts a browser before it: `jar` is the cookie, `tab[t]` the
`AuthService` of a tab (signed in or not, its access token stale or not, the
refresh in flight), `sender[c]` the tab that awaits an answer, `request[r]` a
request that met a 401. `Refresh` is `AuthService.refresh`: it joins the flight or
starts one. `Deliver` applies an answer, cookie first, in any order of arrival;
`Lose` and `Reload` leave the API at work with nobody waiting. What a tab does on
an answer is `After`, which keeps the oddities of the code: a logout forgets the
refresh in flight, and a finishing refresh clears whichever flight there is.

**Calendar** is `packages/shared-utils/src/lib/period.ts` and the scheduler's
`advance`, over day numbers: `Civil` and `Utc` are what ECMAScript's `Date` does
(external; `Civil` is a table over the constant `Dates`, so that TLC computes each
date once), `AddMonths` clamps to the last day of a shorter month, `PeriodBounds`
has one operator per case of the switch. **Schedules** advances one template from
run to run beside a count of the runs. **Budgets** is one budget and the clock:
`Bounds` is the period that `toProgress` asks for. **Reports** computes the
overview, the cash flow, the category breakdown and the net worth from accounts
and rows as their queries do, and a budget's spending beside them.

**Classification** is the category of a transaction: the form of the transactions
page (`draft`, whose category `onTypeChange` clears), the check that create and
update make, and the occurrence of a template, which is booked through create.
`CheckUpdate`/`WriteUpdate` split update at its image. A template's own category
is not checked when it is saved (`recurring.service.ts:58-100`); the check that
create makes of each occurrence is what keeps it out of the rows.

**Mfa** has one action per await of `enable`, `disable` and `verify`:
`DeleteOldCodes`, `CreateCodes`, `SwitchOn`; `LookUpCode`, `BurnCode`;
`ClearCodes`, `SwitchOff`. `MfaFails` can come at any of them. A TOTP code is the
secret it was computed from. **Verification** likewise: `Present` (find and
check), `Consume`, `UpdateOwner`, for both kinds of token, which differ only in
what they look for and write.

**MCWebSession** adds a history variable to WebSession, `disturbed`: an answer to a
cookie is dropped, two tabs rotate one cookie, a tab forgets a refresh it still
awaits, or a token expires.

**Throttler** is the Lua script, one step, with the two expiries it sets as
clocks; `FailOpen` is the `catch`, `RedisBreaks` an outage, with or without the
loss of the keys. `recent` and `passed` are history.

**Seed** is `prisma/seed.ts`: sections in order (`seedStep`), inside a section one
row per step found or created, `BookSample` with its increment in one transaction
as in the script. `SeedDies` stops it anywhere; between runs the demo user hides
rows from its queries (`HideRow`: a rename, a nested category) and deletes samples.

**ListPages** is the shape that `accounts.ts`, `categories.ts`, `budgets.ts` and
`goals.ts` share: `ui` has the flags and the form, `request` what is in flight,
each sent, executed and answered in steps of its own, in any order. What differs
by page are the two conversions `FormOf` (openEdit) and `RowOf` (save), with what
they lose: `?? ''` and `|| null` of the optional texts, the default colour of a
category, and the time of day of a goal's target date (`AsShown`).
**TransactionPages** is the paged list: the buttons and filters of
`transactions.ts`, `ReadRows` and `CountRows` as the two queries of the API, with
`resolvePagination` and `buildPaginationMeta`. It lets the user page on while a page
loads, which the template does not: more interleavings than the browser has.
**Money** has the minor units of a currency of no, two and three decimals; major
units are counted in thousandths, so that the rounding of `majorToMinor` shows.
**McpClient** uses it for what the tools convert, where a call is for a tool, a
currency and an amount (`Asked`), and models the shared login, the 15 s limit and the
retry of `finance-client.ts`.

## 3. What the runs check

`CHECK_DEADLOCK FALSE` appears where ids, tokens, days or edits are never used
again: a finite pool runs dry and the model stops, as the program does not. The
two runs with fairness, of the scheduler, check for deadlock.

### 3.1 Runs that pass

| Run | Instance | Properties |
| --- | --- | --- |
| `ledger_serial` | 2 accounts, 2 rows, 1 transfer, 2 requests, amounts 1..2, `MaxMinor` 2, groups of up to 2 legs; no two edits of one row or group overlap, transfers race freely | `TypeOK`; `BalanceMatchesLedger`: every balance is its opening plus its rows; `ImplementsAtomicLedger`: the code implements AtomicLedger |
| `ledger_overlap` | 2 accounts, archived meanwhile, 2 rows, 2 requests, edits overlap freely | `DriftOnlyFromStaleRead`: the gap between a balance and its rows changes only in a commit on a stale image |
| `recurring_once` | 2 templates, 2 passes under one lock, 3 days, catch-up of 1, templates ended, deleted and given other categories, unlocks lost | `AtMostOnce`: no occurrence has two rows; `OpenEndedCaughtUp`: an open-ended template whose category takes its type is eventually up to date, although another's does not, so that it fails in every pass |
| `faults` | 1 template, 2 passes under 2 different locks, every fault | `NothingSteppedOver`: a schedule never moves past an occurrence without a row; `EndingFreesOnlyOwnLock` |
| | Mfa: 2 requests, 2 secrets, 2 sets of one code, every failure | `RecoveryCodesHold`: a recovery code is accepted once unless two requests looked it up before either burned it (`AcceptedOnce`), and the codes are of one set unless two enables overlap (`OneSetOfCodes`); `FactorIntact`: whoever has MFA on has a secret he has proved to hold, and codes |
| | Seed: all its rows, 2 edits, any number of deaths | `SeedIntact`: balances match the rows wherever the script died (`SeedBalances`), and a run that ends has left every row it names (`SeedComplete`); `SeedIdempotent`: a run over a complete seed changes nothing |
| | Throttler: limit 2, counter of 3 ticks, block of 2 | `LimitHolds`; `BlockEarned`: only more than the limit within one time to live starts a block |
| | Schedules: starts on day 15, 29, 30, 31 and 29 February, intervals 0..2, 3 runs; Budgets: 7 start dates, every day from November 2023 to March 2025; Reports: 2 accounts, 2 rows, 2 currencies, bookings at the ends of months | `OccurrencesStayInStep`; `TodayInPeriod`: a period holds today, unless a monthly budget starts after the 28th; `PeriodsFollow`: the periods of an unchanged budget never overlap, and meet with the same exception; `FiguresAgree`: four queries of three modules give one figure for a month (`SpendingAgrees`), and opening balances and rows account for the net worth (`NetWorthAccountsForEverything`); `CashFlowCountsOnce` |
| `requests_overlap` | Goals: 1 goal, 3 contributions, 2 overlapping requests, `MaxMinor` 4, goals re-targeted, archived, deleted | `TypeOK`; `CurrentMatchesContributions`; `FreshCommitsKeepStatus`: the status parts from the amount only where the user sets one of them or a commit acts on an overtaken image; `FreshCommitsKeepArchived` |
| | Categories: 3 categories, 2 overlapping requests | `SameTypeNesting`; `OnlyStaleMovesLoseCategories`: the tree of every query holds every category the query returns, until a move commits whose check has gone stale |
| | Classification: 1 transaction, 1 template, 2 updates | `DraftIsNeverRefused`: the form never holds what the API refuses; `MismatchHasAReason`: a transaction comes under a category of the other type only by an update of the type alone or on an overtaken image |
| | Verification: 2 tokens, 2 requests | `EffectOnce`; `EffectsAccountedFor`: a consumed token has had its effect, is about to, or was lost to a failure, and nothing else changed the user |
| | ListPages: 1 row of three kinds (no decimals and no texts, three decimals and a date with a time of day, an empty text), 2 requests in flight, 4 pages | `PageInStep`: the flags say what is in flight (`FlagsMatchRequests`), and with nothing in flight the page shows the rows the API has unless a click overtook a load (`ShownIsCurrent`); `UntouchedSaveKeepsRow`: a form saved as it was opened keeps amount, currency, text and date of its row, but for what it cannot show |
| | TransactionPages: 2 rows, pages of 1, 2 requests in flight | `PageShownIsPageAsked`: when all is answered, rows, number and meta are of one page unless a click overtook a load; `WalkShowsEachRowOnce` |
| `clients` | 2 tabs of one browser, 3 tokens, 2 auth calls and 2 other requests under way, every fault | `TypeOK`; `JarStaysLive`: when nothing is under way, the browser's cookie holds a live token, unless a rotation was disturbed (an answer lost, a call failed, a token expired, two tabs rotated one cookie, a tab forgot its refresh); `ClosedFamilyStaysClosed`: a family without a live token and without a rotation past its check never has one again; `LogoutClosesSession`: a logout that is answered leaves no token of its session alive, unless a rotation crossed it |
| | McpClient: 2 tool calls of eight kinds (4 tools, 3 currencies, amounts of either sign with decimals to round), 3 access tokens, time-outs and lost answers | `CallBooksOnce`; `RetryCarriesNewToken`; `AmountsArrive`: what a tool shows is exactly what the API has and what it is given is rounded to the nearest minor unit, where the tool knows the account's currency or it is USD |

Each property also has a mutant: a definition changed as a plausible bug would
change it (the column limit dropped, the refund of a transfer with the wrong
amount, `NX` missing from the lock, a delete that does not mind a missing row, `>` for `>=`, a code looked up although used, days added without the clamp, a
login not awaited by the calls that wait for it), under which TLC finds the property violated in the same run. A type
invariant that is no property of a run documents its module's state. The
mutated forms stand before the definition they change, marked `mutant`.

### 3.2 Why the bounds are enough

* **Two requests** suffice for every race in the code: a conflict is between one
  image and one commit that makes it stale.
* **Amounts 1 and 2** tell a reversed amount from an applied one, the two amounts
  of a transfer from each other, and the old amount of an edit from the new.
  `MaxMinor` is 1 to 4, so an increment past the column fails in the middle of a
  transaction well within the bound. Where rows of any number and amount matter,
  the theorems of section 4 say the rest.
* **Two rows** are a group of two legs, or two rows one request confuses. One
  transfer is enough for a refund to race a refund.
* **Three days with a catch-up of one** let a template fall further behind than
  one pass catches up. `MaxRows` is 2: one more than the code may ever book.
* **One goal** is enough, as no handler reads or writes two; **three
  contributions** bring it to its target, past it, and back.
* **Three tokens and two calls** are a login, a rotation and a third token that a
  race, a replay or a second login draws; every conflict over a token is between
  two requests. `MCWebSession` counts a behaviour as `disturbed` once an answer is
  dropped, tabs overlap or a tab forgets its refresh, and from then on drops no
  further answer: two losses leave the browser no better informed than one. That a
  tab may forget its refresh was found on the way to the proof, with three calls
  or three requests under way; the theorems are for any number.
* **Three categories** make a chain of two moves, a ring of two beside a bystander,
  and a child moved between two roots; what any number of them does is proved.
* **Dates** are the ends of long and short months, 29 February of a leap year and
  the turn of the year; the clock of Budgets passes every day of fifteen months,
  so every start date meets every length of month.
* **Three kinds of rows and eight calls** bring every conversion of an amount, a text
  or a date to bear in the runs; the theorems are for every amount.
* **One row in ListPages and two in TransactionPages** are enough, as the races are
  between requests, not rows: two in flight hold an overtaken load, and a page size
  of 1 makes the second row a second page. Page numbers stop at 2.
* **Two secrets and two sets of codes** are a first and a replacing enable; with one
  code in a set, which code was given no longer matters, only which set.
* **Two edits between seed runs** let a row be hidden, found again under the same
  name and hidden once more.

### 3.3 Fairness

All runs but two, `recurring_once` and `recurring_ended`, use a specification
without fairness: their properties are of safety. These two use `FairSpec`, which assumes:

* every step of a pass that has begun (find, pick, create, advance, release) is
  weakly fair: it awaits database and Redis calls that answer or throw, and the
  `finally` of `redis.service.ts` runs;
* the expiry of a lock nobody holds any more is weakly fair: Redis counts the TTL
  down by itself;
* somebody starts a pass again: there is no scheduler in the process, and the
  comment at `recurring.service.ts:112-113` leaves that to a cron or the client.

Nothing is assumed of users, of the calendar, or that a fault stops: a template
whose category does not take its type fails in every pass, and the property excludes
it by asking for a template that *can* be booked (`Owed`), not by fairness. Creates
that fail for other reasons, a balance past its column among them, are the fault
`create`, which the run `faults` has.

## 4. What is proved

`tlapm` checks these for every value of the constants (any number of accounts,
rows, requests, templates, passes, categories, tokens, tabs, wallets, calls; any
dates, intervals, limits and column width). All properties of passing runs but one
are among them.

| Theorem | Statement | Assumes |
| --- | --- | --- |
| `LedgerProofs!TypeCorrect` | `Spec => []TypeOK` | |
| `LedgerProofs!DriftNeedsStaleRead` | `Spec => DriftOnlyFromStaleRead` | |
| `LedgerProofs!SerialEditsNeverDrift` | `Spec => []BalanceMatchesLedger` | `~OverlappingEdits` |
| `LedgerProofs!LedgerIsAtomic` | `Spec => ImplementsAtomicLedger`: the code implements AtomicLedger | `~OverlappingEdits` |
| `RecurringProofs!TypeCorrect` | `Spec => []TypeOK` | |
| `RecurringProofs!BookedOnce` | `Spec => []AtMostOnce` | `OrderlyPasses` |
| `RecurringProofs!NoneSteppedOver` | `Spec => NothingSteppedOver` | `"period" \notin Edits` |
| `RecurringProofs!UnlockChecksToken` | `Spec => EndingFreesOnlyOwnLock` | |
| `PlanningProofs!GoalsTypeCorrect`, `CurrentIsSum`, `FreshCommitsInSync`, `FreshCommitsUnarchiveNothing` | `Spec =>` each of the goal properties of `requests_overlap` | |
| `PlanningProofs!ContributionsHaveGoals` | `Spec => []NoOrphans`: no contribution outlives its goal | |
| `PlanningProofs!CategoriesTypeCorrect`, `NestedAlike`, `OnlyStaleMovesLose` | `CategoriesSpec =>` `[]CategoriesTypeOK` and each of the category properties of `requests_overlap` | |
| `PlanningProofs!SerialMovesKeepTheTree` | `CategoriesSpec => []TreeHoldsEveryCategory` | `~Overlapping` |
| `PlanningProofs!DraftNeverRefused`, `MismatchesHaveReasons` | `ClassificationSpec =>` `[]DraftIsNeverRefused`, `MismatchHasAReason` | |
| `SessionProofs!TypeCorrect`, `ClosedStaysClosed` | `Spec =>` `[]TypeOK`, `ClosedFamilyStaysClosed` | |
| `SessionProofs!IdleJarIsGood`, `LogoutCloses` | `MCSpec =>` `[]JarStaysLive`, `LogoutClosesSession` | |
| `SecurityProofs!ThrottlerTypeCorrect`, `NeverOverLimit`, `BlocksAreEarned` | `ThrottlerSpec =>` `[]ThrottlerTypeOK`, `[]LimitHolds`, `BlockEarned` | |
| `SecurityProofs!UsedOnce`, `MailsAccountedFor` | `MailSpec =>` `[]EffectOnce`, `[]EffectsAccountedFor` | |
| `SecurityProofs!RecoveryCodesAlwaysHold`, `FactorStaysIntact` | `MfaSpec =>` `[]RecoveryCodesHold`, `[]FactorIntact` | |
| `ClientProofs!CallsBookOnce`, `RetriesCarryNewTokens`, `AmountsAlwaysArrive` | `McpSpec =>` `[]CallBooksOnce`, `[]RetryCarriesNewToken`, `[]AmountsArrive`, the last for every amount in the three kinds of currency | |
| `ClientProofs!PagesStayInStep`, `UntouchedSavesAreIdle` | `PageSpec =>` `[]PageInStep`, `UntouchedSaveKeepsRow`, for rows of any amount | |
| `ClientProofs!ShownPageIsAsked`, `WalksShowEachRowOnce` | `PagesSpec =>` `[]PageShownIsPageAsked`, `[]WalkShowsEachRowOnce` | |
| `FiguresProofs!TodayIsInPeriod`, `PeriodsFollowOn` | `BudgetSpec =>` `[]TodayInPeriod`, `PeriodsFollow` | |
| `FiguresProofs!SchedulesKeepStep` | `ScheduleSpec => []OccurrencesStayInStep` | |
| `FiguresProofs!FiguresAlwaysAgree`, `CashFlowExact` | `ReportSpec =>` `[]FiguresAgree`, `[]CashFlowCountsOnce` | |
| `FiguresProofs!SeedTypeCorrect`, `SeedStaysIntact`, `SeedRunsAgain` | `SeedSpec =>` `[]SeedTypeOK`, `[]SeedIntact`, `SeedIdempotent` | |

Besides these there are only the assumptions the modules name: `MinorAssumption`,
`RowsAssumption`, `NullAssumption`, `LedgerAssumption`, `RecurringAssumption`,
`GoalsAssumption`, `CategoriesAssumption`, `ClassificationAssumption`,
`TokenAssumption`, `TabAssumption`, `ThrottlerAssumption`, `MailAssumption`,
`MfaAssumption`, `McpAssumption`, `ListAssumption`, `PagesAssumption`,
`SeedAssumption`, `CalendarAssumption`, `BudgetAssumption`, `ScheduleAssumption`,
`ReportAssumption`, `NothingAssumption`. They say that sets are finite where sums
or walks run over them, that bounds are positive, that placeholders are not rows,
and that the table `Dates` holds the days a module can get to (a month or two
around the days it starts from: a `Date` of JavaScript reaches 270 000 years).
TLC evaluates them in every run.

**The ledger.** The lemmas of MinorUnitsProofs say that the sum over a set is the
sum over two halves of it, and that equal summands multiply; from them follows
what each commit does to the rebuilt balance (`...Effect` lemmas). That alone
gives *where drift comes from*: a commit moves balance and rows by the same
amount unless the image it reverses is stale, so with overlap allowed the gap
changes in no other step. `BalanceMatchesLedger` is not inductive: the commit of a
delete is right only because the image is still the row. The strengthening
`SerialInv` adds that the transactions under way are on disjoint scopes
(`Exclusive`), that images of rows and legs are current (`FreshImages`,
`FreshLegs`, `TransfersFresh`), and that a group's legs stay as they were booked
(`GroupWhole`, `SelfInGroup`).

*The refinement.* AtomicLedger sets every balance to what the rows add up to, so
its steps are those of the code only where all balances do (`InBalance`), accounts
that do not exist yet included (`UnopenedAtZero`), and where an accepted transfer
is between two accounts (`TransfersApart`); with the drift at zero these are
`RefinementInv`. Reads, accepted requests and rollbacks are stutters, and each
commit is one step of AtomicLedger, shown commit by commit.

**Recurring.** `AtMostOnce` does not survive a crash between the two commits of an
occurrence, nor two passes under different locks; `OrderlyPasses` excludes exactly
these (one scope, and no failing advance, no death between the commits, no expiry
under the holder) and keeps failing creates, deaths elsewhere, lost unlocks and all
edits. The invariant says that a busy
pass holds the lock (`Holding`), that the day it is about to book is the one the
stored schedule points at (`AtTemplate`, `Waiting`), and that no row exists from
that day on (`Scheduled`). The code makes no such promise outside `OrderlyPasses`:
there an occurrence may be booked twice, and what still holds is that none is
stepped over.

That is a statement about every fault and any number of passes. Each template has a
day from which its occurrences are counted, and whoever points at a day of it, the
stored schedule, the image of a pass or the loop of a pass, points at a day of that
grid with all days of the grid before it booked (`Follows`, `OnGrid`): two passes
may race over a template, and one put it back behind the other, but neither leaves
the grid. A client that changes the frequency of a template starts a new grid while
a pass may still advance on the old one, hence the hypothesis; `TypeCorrect`,
`BookedOnce` and `UnlockChecksToken` hold with such edits.

**Goals.** `CurrentMatchesContributions` needs `NoOrphans` and
`RemovesWhatItRead`: a contribution is never changed, so the image a removal read
is either the row still or the row is gone, and then the delete by id fails. The
two properties of fresh commits follow from what a commit writes (`FreshWrites`),
without any assumption on what overlaps it.

**Categories.** The trees of all queries are whole exactly when no set of
categories is closed under its parents (`NoRing`; `NoRingNoLoss`,
`NoLossNoRing`). A write under a root closes no ring (`RingFree`), so only a move
whose parent is no root any more can. With one move at a time (`OneMove`) the
parent checked is still a root when the write happens (`PendingRoot`).
Of a transaction's category, `ClassificationInv` says that the draft on the page
is always one the API takes, and that what an update holds was checked against the
row as it read it (`UpdatesChecked`).

**Sessions.** `TypeOK` is inductive and says more than types: every cookie, in the
jar or under way, is an issued token, a request that waits to rotate holds one,
and a tab's flight is a refresh the tab itself awaits. For closed families, every
step but `Issue` lets the rows *fade* (`Fades`: families stay, nothing comes back
to life), and only `Find` starts a rotation, of a token it has just seen alive
(`FadingStep`); `Issue` adds a token to a family only for a rotation that was
already past its check (`IssueStep`). Neither can happen to a family that is
closed and not rotating.

`JarStaysLive` speaks of rest, but its invariant must speak of every moment of an
undisturbed browser (`Calm`): a family has one rotation under way (`OneRotation`),
the token it is about to hand out is in nobody's hands (`NewApart`), every answer
to a cookie is awaited by a tab that remembers it (`Kept`), and what the jar holds
is what its session's rotation was sent with or the session's only good token
(`JarCalm`). Looking for it brought up the refresh that a tab forgets (section 5).

**Throttler.** `LimitHolds` needs one more fact: what a counter has let through it
has counted (`PassedWereCounted`), so that what passes is bounded by a count that
was not over the limit, although blocked requests go on counting. For `BlockEarned`
the counter holds no more hits than came in since it was created, which is no longer
ago than its time to live (`CountedRecently`).

**Mailed tokens.** `EffectOnce` needs that a token which took effect is spent and in
nobody's hands any more (`EffectIsOver`), that a request past the consumption holds
a spent token (`HeldRows`), and that `contested` remembers every token two requests
held at once (`SharedIsContested`). That nothing is unaccounted for adds whose
effects the user's row shows (`TookEffect`, `SpentAccounted`, `OwnerAccounted`).

**Multi-factor authentication.** A code that was accepted and that two requests have
not looked up together is neither unused nor about to be burned (`RedeemInv`); unless
enables overlap, one request at a time stands between the deletion of the old codes
and the new ones (`ReplaceInv`); an enable under way has proved the secret that
stands (`FactorInv`), and codes are missing only while somebody is about to create
them or to switch the factor off (`CodesLeft`).

**Clients.** What a tool call has booked is a function of where it stands: nothing
until the API answers, whichever refusals, logins and retries came before
(`BookedWhere`). A login brings a token newer than every token in use
(`NewerThanAll`, `TokensInOrder`), so a retry carries none that was refused. In the
list pages a form left alone is the form of its row (`FormsFaithful`), whose amount
comes back as it was since a minor unit is a whole number of thousandths (`Exact`,
`RoundTrip`); what is rounded is at most half a unit off (`Rounded`). A flag stands
for one request (`FlagsFit`), and unless a click overtakes a load there is one, which
has the rows as they are (`LoadsInOrder`; `PageStanding` in the transactions page). A
walk through the pages has seen the first rows of an order (`WalkKept`); with dates
apart there is one order (`SamePrefix`), and its pages have their sizes
(`SizeOfStretch`).

**Dates.** The calendar is proved from its arithmetic, not from a table of the days
that TLC visits: months are numbered, a month lasts 28 to 31 days, and a day lies in
the month of its number and in no other (`DateOfDay`, `MonthOfDay`). From that,
`addMonths` keeps the day of the month up to the length of the month (`MonthsAdded`).
A budget's period begins and ends at the start day in the month of the day or the
one before (`MonthPeriod`, `YearPeriod`), which holds the day unless a short month
has clamped the start (`TodayInMonth`; the exception `period_gap` shows). A schedule
is as many of its steps past its start as it has had occurrences, on a day that only
short months brought forward, and never before the 28th (`Steady`).

**Sums.** The sums of Reports and Seed are `SumFunctionOnSet`, which chooses the
elements of a set in an order nobody knows. That any element can be taken out first
(`SumWithout`) is shown by taking a least counterexample: a set of naturals has a
least element, so what a finite set inherits from its smaller parts, it has
(`LeastOne`, `FromParts`). `SumUnion`, `SumSame`, `SumPlus` and `SumByKey` (summed by
key and then over the keys, every element counts once) are what the figures need.

**Reports.** The one invariant is that each account's balance is what it was opened
with and the rows booked on it (`ReportInv`). The figures agree because the month of
the overview, the last month of the cash flow, the range of the breakdown and the
period of a budget that starts on a first are the same month (`CashFlowMonths`,
`MonthBudget`), and because its rows fall into categories, the net worth into
currencies, each once.

**Seed.** To `SeedBalances` the invariant adds what the script has made when it
reaches each of its sections, from the top and after each death (`Progress`), and
that this stays made once it has ended, until an edit (`Complete`). The ten samples
have ten different markers (`MarkersDiffer`), without which a sample would be taken
for another's.

**Model-checked only.** Liveness (`OpenEndedCaughtUp`) is out of the prover's
reach, like anything about ENABLED or fairness. The properties of the runs of
section 5 do not hold.

## 5. Where the code and its documents disagree

Six runs let TLC find a statement of the documents violated:

| Run | What happens |
| --- | --- |
| `ledger_drift` | two overlapping updates of one row both reverse the image they read; the second reverses an effect that is gone. `transactions.service.ts:28-29`: "so account balances never drift" |
| `recurring_ended` | `findDue` skips a template whose `endDate` has passed, so occurrences dated before it that were not booked in time never are. `recurring.service.ts:113-115`: "every missed occurrence is generated" |
| `goals_lost_promotion` | two overlapping contributions that reach the target only together both see an amount below it; the goal stays ACTIVE. `goals.service.ts:36-38`: "keeps `currentAmountMinor` and the `ACHIEVED` status in sync" |
| `categories_depth` | a category with children can be moved under another; `schema.prisma:211-212`: "Supports one level of nesting" |
| `sessions_forced` | a request is retried after a refresh that succeeded, and the retry fails, with whatever error: the same `catchError` signs the tab out, although its cookie holds a live token. `auth.interceptor.ts:38-39`: "The refresh itself failed: the session is gone for good" |
| `period_gap` | `periodBounds` compares the day of the reference with the day the budget starts on, not with that day clamped to the month; a monthly budget that starts on the 29th to 31st answers on the last day of a shorter month with a period that is already over. `period.ts:59-60`: "that contains `reference`" |

Some more are relatives of these, which the passing properties name as the
exceptions they are:

* two overlapping deletes of an instalment group both read its legs and both
  refund them, as `deleteMany` (`transactions.service.ts:210`) does not mind that
  the rows are gone: in `MCLedger_drift.cfg`, `Ops = {"create", "delete"}` shows
  it (a stale image, as in `DriftOnlyFromStaleRead`);
* a new target leaves the status of a goal as it was (`goals.service.ts:119`; the
  user's edits, as in `FreshCommitsKeepStatus`);
* two overlapping moves put two categories under each other, and the tree shows
  neither (`categories.service.ts:121`; the stale move of
  `OnlyStaleMovesLoseCategories`);
* two challenges with one recovery code, two enables of MFA, or two uses of one
  mailed token that overlap both succeed (`contested` and `enables overlap` in
  Mfa and Verification), as do an enable and a setup that overtakes it;
* an update of the type alone leaves the category as it was
  (`transactions.service.ts:164`; `MismatchHasAReason`);
* two loads of a page in flight may be answered in the other order, and the older
  answer stays (`overtaken` in ListPages and TransactionPages); and of two rows of
  one date the paged list may show one twice and the other never, as it sorts by
  date alone (`transactions.repository.ts:26`; the proviso of
  `WalkShowsEachRowOnce`);
* saving a goal's form untouched sets its target date to midnight, as the form slices
  the time of day off (`goals.ts:121` and `:144`); an empty institution becomes null,
  a category without a colour gets the default one (`AsShown` in ListPages);
* the tools that are not told a currency take every amount for one of two decimals,
  as `minorToMajor` and `majorToMinor` do by default: transactions, budgets and the
  reports of the MCP server are off by a factor for JPY or KWD (the proviso of
  `AmountsArrive`);
* a refresh that crosses a logout leaves its new token alive
  (`RotatedMeanwhile` in MCWebSession);
* a logout or a failed retry forgets the refresh that is under way
  (`auth.service.ts:145-148` of the web client), so the tab's next 401 starts a
  second rotation of the same cookie, which the API takes for a replay
  (`Forgotten` in MCWebSession).

## 6. What is not modelled

* **Pure I/O, wiring and rendering**: configuration, error formatting, health
  probes, pages, screens, mail (only logged).
* **Cryptography**: TOTP arithmetic, hashing, encryption.
* **Data no property tells apart**: names, descriptions, notes.
* **Currencies of four decimals** (two units of account), and the floating point of
  an amount past 2^53: `Money` computes with integers.
* **A second click on Logout** before the first is answered: one logout per tab.
* **Rows of different users**: every query is keyed by `userId`, so one user is
  modelled; the scheduler, which works across users, is modelled with both its
  scopes.
* **The MFA challenge in the web client**: `/auth/mfa/challenge` is not among the
  interceptor's exempt paths, so a wrong code (a 401) starts a refresh like any
  other request's 401. Mfa models the API's side only.
* **Retry after a 408**: the API has no idempotency key and promises nothing.
* **The mobile client**: its session follows the pattern of the web client's.
* **Row locks**: crossing transfers take two account rows in opposite order and
  may deadlock; PostgreSQL aborts one, which Ledger contains as a `Rollback`. Who
  waits on whom is not modelled.
* **Pages**: the dashboard, the layout and the login pages; of the transactions
  page, instalment purchases (Ledger has them on the API's side); of the goals
  page, goals past the first page of the API, which it never asks for.
* **Two users of one list at once**: in ListPages nobody else changes the rows.
* **Process and wording of the MCP server**: transport, configuration, texts.

## 7. Plan

In this order; each step brings its runs, mutants, hazards and README section.
The project holds twelve runs, so a new component shares one with a component it
interacts with: MC modules that compose two of them, with the properties of both.

1. The challenge of a login with MFA in WebSession, composed with Mfa; the mobile
   client as a second browser.
2. **LedgerLocks**: the row locks of crossing transfers, and that PostgreSQL's
   deadlock detection leaves the ledger whole.
3. Proofs: `StatusInSync` for requests that do not overlap and targets that are not
   edited; that Schedules implements the period arithmetic of Recurring.
4. Liveness of the sessions: a guard that waits for `restoreSession` decides, a
   request that waits for a refresh is retried or refused.
