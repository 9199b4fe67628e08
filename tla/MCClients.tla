----------------------------- MODULE MCClients -----------------------------
(* The clients that hold tokens of the API, each with its own server side: *)
(* the tabs of a browser, and the MCP server. A behaviour runs one of them, *)
(* the other stays at rest.                                                *)
EXTENDS MCWebSession, McpClient, TLC

VARIABLE part

(* Amounts that arrive exactly and amounts that are rounded, of either     *)
(* sign; 4599 is 4.599 given to a tool that writes, 45.99 USD or 4.599 KWD *)
(* found by one that reads.                                                *)
MCAsked ==
    LET Ask(tool, currency, amount) == [tool |-> tool, currency |-> currency, amount |-> amount]
    IN  {Ask("create_account", "JPY", -2500), Ask("create_account", "KWD", 4599),
         Ask("create_account", "USD", 4590), Ask("create_transaction", "USD", 4599),
         Ask("create_transaction", "JPY", 3000), Ask("list_accounts", "KWD", 4599),
         Ask("list_accounts", "JPY", -25), Ask("list_transactions", "USD", 4599)}

ClientsInit == part \in {"browser", "mcp"} /\ MCInit /\ McpInit

ClientsNext ==
    /\ UNCHANGED part
    /\ \/ part = "browser" /\ MCNext /\ UNCHANGED mcpVars
       \/ part = "mcp" /\ McpNext /\ UNCHANGED <<vars, disturbed>>

ClientsSpec == ClientsInit /\ [][ClientsNext]_<<part, vars, disturbed, mcpVars>>

AllSymmetry == Permutations(Tokens) \cup Permutations(Calls) \cup Permutations(Requests)
               \cup Permutations(Tabs)
=============================================================================
