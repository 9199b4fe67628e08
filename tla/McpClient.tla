----------------------------- MODULE McpClient -----------------------------
(***************************************************************************)
(* The MCP server as a client of the API (apps/mcp): tool calls that run   *)
(* at the same time over one access token, and the amounts they convert.   *)
(*                                                                         *)
(* One step is what runs between two awaits. A request is executed by the  *)
(* API in a step of its own, and its answer may be lost to the timeout.    *)
(* Access tokens are numbered as the API issues them.                      *)
(***************************************************************************)
EXTENDS Money, FiniteSets

CONSTANTS ToolCalls,        \* tool calls under way at the same time
          Asked,            \* what assistants ask for: a tool, its currency and amount
          MaxAccessTokens,  \* bound: access tokens issued
          FixedToken        \* is FINANCEHUB_ACCESS_TOKEN set?

(* The tools: do they write, and which currency do they convert with?      *)
AccountToolsInDollars ==    \* mutant: create_account converts with the default
    [finance_overview |-> [writes |-> FALSE, converts |-> "own"],
     list_accounts    |-> [writes |-> FALSE, converts |-> "own"],
     create_account   |-> [writes |-> TRUE,  converts |-> "default"]]
AccountTools ==
    [finance_overview |-> [writes |-> FALSE, converts |-> "own"],
     list_accounts    |-> [writes |-> FALSE, converts |-> "own"],
     create_account   |-> [writes |-> TRUE,  converts |-> "own"]]
TransactionTools ==
    [list_categories    |-> [writes |-> FALSE, converts |-> "nothing"],
     list_transactions  |-> [writes |-> FALSE, converts |-> "default"],
     create_transaction |-> [writes |-> TRUE,  converts |-> "default"]]
PlanningTools ==
    [list_budgets       |-> [writes |-> FALSE, converts |-> "default"],
     list_goals         |-> [writes |-> FALSE, converts |-> "own"],
     cash_flow          |-> [writes |-> FALSE, converts |-> "default"],
     category_breakdown |-> [writes |-> FALSE, converts |-> "default"]]
ToolNames == DOMAIN AccountTools \cup DOMAIN TransactionTools \cup DOMAIN PlanningTools
Tool(name) ==
    IF name \in DOMAIN AccountTools THEN AccountTools[name]
    ELSE IF name \in DOMAIN TransactionTools THEN TransactionTools[name] ELSE PlanningTools[name]

(* Reads that convert alike differ in nothing a call does.                 *)
Called == {"list_accounts", "create_account", "list_transactions", "create_transaction"}

(* An amount is given in major units, or found in minor units.             *)
ASSUME McpAssumption ==
    /\ MaxAccessTokens \in Nat \ {0} /\ FixedToken \in BOOLEAN
    /\ Asked \subseteq [tool : Called, currency : CurrencyCodes, amount : Int]

VARIABLES
    accessToken,    \* FinanceClient.accessToken; 0: undefined
    loginPromise,   \* the login under way: none, sent, or the token issued
    toolCall,       \* what each tool call waits for
    issued, valid,  \* the API: tokens issued, tokens it still takes
    booked          \* and the rows each call has booked

mcpVars == <<accessToken, loginPromise, toolCall, issued, valid, booked>>

AccessTokens == 1..MaxAccessTokens
NoLogin == [pc |-> "none", token |-> 0]
Resting == [pc |-> "resting"]
Settled == {"answered", "rejected", "unauthorized", "timeout"}
ToolCall == [pc : {"waiting", "sent", "ok", "error"} \cup Settled, tool : Called,
             currency : CurrencyCodes, amount : Int, bearer : 0..MaxAccessTokens, refused : 0..MaxAccessTokens]

McpTypeOK ==
    /\ accessToken \in 0..MaxAccessTokens
    /\ loginPromise \in [pc : {"none", "sent", "issued"}, token : 0..MaxAccessTokens]
    /\ toolCall \in [ToolCalls -> ToolCall \cup {Resting}]
    /\ issued \in 0..MaxAccessTokens
    /\ valid \subseteq 1..issued
    /\ booked \in [ToolCalls -> 0..2]

-----------------------------------------------------------------------------
Is(c, pc) == toolCall[c] # Resting /\ toolCall[c].pc = pc

(* login() hands every caller the one promise.                             *)
LoginNotAwaited == IF loginPromise = NoLogin THEN "waiting" ELSE "sent"     \* mutant
AfterLoginCall == "waiting"
SharedLogin == IF loginPromise = NoLogin THEN [pc |-> "sent", token |-> 0] ELSE loginPromise

StartCall(c, ask) ==
    /\ toolCall[c] = Resting
    /\ toolCall' = [toolCall EXCEPT ![c] =
          [pc |-> IF accessToken = 0 THEN AfterLoginCall ELSE "sent", tool |-> ask.tool,
           currency |-> ask.currency, amount |-> ask.amount, bearer |-> accessToken, refused |-> 0]]
    /\ loginPromise' = IF accessToken = 0 THEN SharedLogin ELSE loginPromise
    /\ UNCHANGED <<accessToken, issued, valid, booked>>

(* doLogin: the API answers with a token, and the callers go on at once,   *)
(* or it does not (an error, MFA, a timeout), and they all fail.           *)
ApiLogsIn ==
    /\ loginPromise.pc = "sent"
    /\ issued < MaxAccessTokens
    /\ issued' = issued + 1
    /\ valid' = valid \cup {issued'}
    /\ loginPromise' = [pc |-> "issued", token |-> issued']
    /\ UNCHANGED <<accessToken, toolCall, booked>>

LoginSettles ==
    LET token == loginPromise.token
    IN  /\ loginPromise # NoLogin
        /\ loginPromise' = NoLogin
        /\ \/ /\ token # 0
              /\ accessToken' = token
              /\ toolCall' = [c \in ToolCalls |-> IF Is(c, "waiting")
                    THEN [toolCall[c] EXCEPT !.pc = "sent", !.bearer = token] ELSE toolCall[c]]
           \/ /\ toolCall' = [c \in ToolCalls |-> IF Is(c, "waiting")
                    THEN [toolCall[c] EXCEPT !.pc = "error"] ELSE toolCall[c]]
              /\ UNCHANGED accessToken
        /\ UNCHANGED <<issued, valid, booked>>

(* The API serves a request whose token it takes; a write that is not      *)
(* rejected books a row. The client may have given up waiting by then.     *)
ApiServes(c) ==
    /\ Is(c, "sent")
    /\ IF toolCall[c].bearer \in valid
       THEN \E pc \in {"answered", "rejected", "timeout"} :
               /\ toolCall' = [toolCall EXCEPT ![c].pc = pc]
               /\ booked' = [booked EXCEPT ![c] =
                     IF pc # "rejected" /\ Tool(toolCall[c].tool).writes THEN @ + 1 ELSE @]
       ELSE toolCall' = [toolCall EXCEPT ![c].pc = "unauthorized"] /\ UNCHANGED booked
    /\ UNCHANGED <<accessToken, loginPromise, issued, valid>>

GivesUp(c) ==
    /\ toolCall[c] # Resting /\ toolCall[c].pc \in {"sent", "answered", "rejected", "unauthorized"}
    /\ toolCall' = [toolCall EXCEPT ![c].pc = "timeout"]
    /\ UNCHANGED <<accessToken, loginPromise, issued, valid, booked>>

(* request: a 401 is retried once, after a login.                          *)
RetriedOnTimeout(c) ==      \* mutant
    toolCall[c].pc \in {"unauthorized", "timeout"} /\ toolCall[c].refused = 0 /\ ~FixedToken
Retried(c) == toolCall[c].pc = "unauthorized" /\ toolCall[c].refused = 0 /\ ~FixedToken

Settle(c) ==
    /\ toolCall[c] # Resting /\ toolCall[c].pc \in Settled
    /\ IF Retried(c)
       THEN /\ toolCall' = [toolCall EXCEPT ![c].pc = AfterLoginCall,
                               ![c].refused = toolCall[c].bearer, ![c].bearer = accessToken]
            /\ loginPromise' = SharedLogin
       ELSE /\ toolCall' = [toolCall EXCEPT ![c].pc =
                               IF @ = "answered" THEN "ok" ELSE "error"]
            /\ UNCHANGED loginPromise
    /\ UNCHANGED <<accessToken, issued, valid, booked>>

(* guard: the result goes to the assistant, as an error if it is one.      *)
Report(c) ==
    /\ Is(c, "ok") \/ Is(c, "error")
    /\ toolCall' = [toolCall EXCEPT ![c] = Resting]
    /\ booked' = [booked EXCEPT ![c] = 0]
    /\ UNCHANGED <<accessToken, loginPromise, issued, valid>>

TokenExpires(t) ==
    /\ t \in valid
    /\ valid' = valid \ {t}
    /\ UNCHANGED <<accessToken, loginPromise, toolCall, issued, booked>>

McpInit ==
    /\ accessToken = IF FixedToken THEN 1 ELSE 0
    /\ issued = accessToken
    /\ valid = 1..issued
    /\ loginPromise = NoLogin
    /\ toolCall = [c \in ToolCalls |-> Resting]
    /\ booked = [c \in ToolCalls |-> 0]

ToolStep(c) ==
    \/ \E ask \in Asked : StartCall(c, ask)
    \/ ApiServes(c) \/ GivesUp(c) \/ Settle(c) \/ Report(c)

McpNext ==
    \/ ApiLogsIn \/ LoginSettles
    \/ \E t \in AccessTokens : TokenExpires(t)
    \/ \E c \in ToolCalls : ToolStep(c)

McpSpec == McpInit /\ [][McpNext]_mcpVars

-----------------------------------------------------------------------------
(* A call books at most one row, however its requests are refused, retried *)
(* and lost; exactly one when the assistant is told it is created; and     *)
(* none when it only reads.                                                *)
CallBooksOnce ==
    \A c \in ToolCalls :
        /\ booked[c] <= 1
        /\ toolCall[c] # Resting =>
              /\ toolCall[c].pc = "ok" /\ Tool(toolCall[c].tool).writes => booked[c] = 1
              /\ ~Tool(toolCall[c].tool).writes => booked[c] = 0

(* The retry of a refused request carries a token issued after the one     *)
(* that was refused, whichever call's login brought it.                    *)
RetryCarriesNewToken ==
    \A c \in ToolCalls : Is(c, "sent") /\ toolCall[c].refused # 0 =>
        toolCall[c].bearer > toolCall[c].refused

(* A tool that writes is given major units and sends minor units, one that *)
(* reads finds minor units and shows major units.                          *)
Factor(call) == IF Tool(call.tool).converts = "own" THEN call.currency ELSE "USD"
Converted(call) ==
    IF Tool(call.tool).writes
    THEN [minor |-> MajorToMinor(call.amount, Factor(call)), major |-> call.amount]
    ELSE [minor |-> call.amount, major |-> MinorToMajor(call.amount, Factor(call))]

(* What an assistant is shown is exactly what the API has, and what it     *)
(* gives is rounded to the nearest minor unit, so that an amount with no   *)
(* more decimals than its currency arrives as it is (tools.ts 54-55). This *)
(* holds in the account's currency where the tool knows it; the others     *)
(* take every amount for one with two decimals.                            *)
KnowsCurrency == {"list_accounts", "create_account"}
AmountsArrive ==
    \A c \in ToolCalls : Is(c, "ok") =>
        LET call == toolCall[c]
            off == Converted(call).minor * 1000 - Converted(call).major * MinorUnitFactor(call.currency)
        IN  call.currency = "USD" \/ call.tool \in KnowsCurrency =>
               IF Tool(call.tool).writes THEN -500 < off /\ off <= 500 ELSE off = 0
=============================================================================
