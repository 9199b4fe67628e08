----------------------------- MODULE ClientProofs -----------------------------
(* Proofs about the clients of the API: the MCP server (McpClient), and the  *)
(* pages of the web client (ListPages, TransactionPages).                    *)
EXTENDS McpClient, ListPages, TransactionPages, FiniteSetTheorems, FunctionTheorems, TLAPS

-----------------------------------------------------------------------------
(* money.ts, for every amount. The factor of a currency divides 1000.      *)
LEMMA Factors ==
  ASSUME NEW currency \in CurrencyCodes
  PROVE  \/ MinorUnitFactor(currency) = 1 /\ 1000 \div MinorUnitFactor(currency) = 1000
         \/ MinorUnitFactor(currency) = 100 /\ 1000 \div MinorUnitFactor(currency) = 10
         \/ MinorUnitFactor(currency) = 1000 /\ 1000 \div MinorUnitFactor(currency) = 1
<1>1. /\ MinorUnitFactor("JPY") = 1 /\ MinorUnitFactor("USD") = 100
      /\ MinorUnitFactor("KWD") = 1000
  BY DEF MinorUnitFactor
<1>2. 1000 \div 1 = 1000 /\ 1000 \div 100 = 10 /\ 1000 \div 1000 = 1
  BY SMT
<1> QED
  BY <1>1, <1>2 DEF CurrencyCodes

(* Minor units are shown exactly.                                          *)
LEMMA Exact ==
  ASSUME NEW amount \in Int, NEW currency \in CurrencyCodes
  PROVE  /\ MinorToMajor(amount, currency) \in Int
         /\ amount * 1000 - MinorToMajor(amount, currency) * MinorUnitFactor(currency) = 0
  BY Factors, SMT DEF MinorToMajor

(* Major units are rounded to the nearest minor unit.                      *)
LEMMA Rounded ==
  ASSUME NEW amount \in Int, NEW currency \in CurrencyCodes
  PROVE  /\ MajorToMinor(amount, currency) \in Int
         /\ LET off == MajorToMinor(amount, currency) * 1000 - amount * MinorUnitFactor(currency)
            IN  -500 < off /\ off <= 500
  BY Factors, SMT DEF MajorToMinor

(* An amount survives the way into a form and back, in every currency.     *)
LEMMA Conversions ==
  ASSUME NEW amount \in Int, NEW currency \in CurrencyCodes
  PROVE  MajorToMinor(MinorToMajor(amount, currency), currency) = amount
<1>1. PICK major \in Int : major = MinorToMajor(amount, currency)
  BY Exact
<1>2. PICK factor \in {1, 100, 1000} : factor = MinorUnitFactor(currency)
  BY Factors
<1>3. major * factor = amount * 1000
  BY <1>1, <1>2, Exact, SMT
<1>4. (amount * 1000 + 500) \div 1000 = amount
  BY SMT
<1> QED
  BY <1>1, <1>2, <1>3, <1>4 DEF MajorToMinor

-----------------------------------------------------------------------------
(* The MCP server, for any number of tool calls and of access tokens.      *)

LEMMA ToolTable ==
  /\ Tool("list_accounts") = [writes |-> FALSE, converts |-> "own"]
  /\ Tool("create_account") = [writes |-> TRUE, converts |-> "own"]
  /\ Tool("list_transactions") = [writes |-> FALSE, converts |-> "default"]
  /\ Tool("create_transaction") = [writes |-> TRUE, converts |-> "default"]
<1>1. /\ DOMAIN AccountTools = {"finance_overview", "list_accounts", "create_account"}
      /\ DOMAIN TransactionTools = {"list_categories", "list_transactions", "create_transaction"}
  BY DEF AccountTools, TransactionTools
<1> QED
  BY <1>1 DEF Tool, AccountTools, TransactionTools

(* What a call has booked where it stands: nothing until the API answers,  *)
(* so that the retry of a refused request is the first to book.            *)
Writes(call) == Tool(call.tool).writes
BookedWhere(call, n) ==
    /\ call.pc \in {"waiting", "sent", "rejected", "unauthorized"} => n = 0
    /\ call.pc \in {"answered", "ok"} /\ Writes(call) => n = 1
    /\ ~Writes(call) => n = 0
    /\ n \in {0, 1}
BookingInv ==
    \A c \in ToolCalls :
        IF toolCall[c] = Resting THEN booked[c] = 0 ELSE BookedWhere(toolCall[c], booked[c])

(* A token that a login brings is newer than every token in use.           *)
NewerThanAll(token) ==
    /\ accessToken < token
    /\ \A c \in ToolCalls : toolCall[c] # Resting => toolCall[c].bearer < token /\ toolCall[c].refused < token
TokensInOrder ==
    /\ NewerThanAll(issued + 1)
    /\ loginPromise.token # 0 => NewerThanAll(loginPromise.token)
    /\ RetryCarriesNewToken

TokenTyped == loginPromise.token <= issued

McpInv == McpTypeOK /\ TokenTyped /\ BookingInv /\ TokensInOrder

LEMMA CallTyped ==
  ASSUME McpTypeOK, NEW c \in ToolCalls
  PROVE  toolCall[c] # Resting <=> toolCall[c] \in ToolCall
<1>1. Resting \notin ToolCall
  <2>1. "resting" \notin {"waiting", "sent", "ok", "error"} \cup Settled
    BY DEF Settled
  <2> QED
    BY <2>1 DEF Resting, ToolCall
<1> QED
  BY <1>1 DEF McpTypeOK

LEMMA InitMcp == McpInit => McpInv
<1> SUFFICES ASSUME McpInit PROVE McpInv
  OBVIOUS
<1>1. \A c \in ToolCalls : toolCall[c] = Resting /\ booked[c] = 0
  BY DEF McpInit
<1>2. accessToken \in 0..1 /\ issued = accessToken /\ 1 \in 1..MaxAccessTokens
  BY McpAssumption DEF McpInit
<1>3. McpTypeOK
  BY <1>2, McpAssumption DEF McpInit, McpTypeOK, NoLogin
<1>4. BookingInv /\ TokenTyped
  BY <1>1, <1>2 DEF BookingInv, TokenTyped, McpInit, NoLogin
<1>5. TokensInOrder
  BY <1>1, <1>2 DEF McpInit, TokensInOrder, NewerThanAll, RetryCarriesNewToken, NoLogin, Is
<1> QED
  BY <1>3, <1>4, <1>5 DEF McpInv

(* A step of one call, which leaves the others and the tokens alone.       *)
LEMMA CallKeeps ==
  ASSUME McpInv, NEW c \in ToolCalls, NEW call \in ToolCall \cup {Resting}, NEW n \in 0..2,
         toolCall' = [toolCall EXCEPT ![c] = call], booked' = [booked EXCEPT ![c] = n],
         UNCHANGED <<accessToken, issued, valid>>,
         loginPromise' \in [pc : {"none", "sent", "issued"}, token : 0..MaxAccessTokens],
         loginPromise'.token \in {0, loginPromise.token},
         IF call = Resting THEN n = 0 ELSE BookedWhere(call, n),
         call # Resting =>
            /\ call.bearer \in {toolCall[c].bearer, accessToken}
            /\ call.refused \in {0, toolCall[c].refused, toolCall[c].bearer}
            /\ toolCall[c] = Resting => call.bearer = accessToken /\ call.refused = 0
            /\ call.pc = "sent" /\ call.refused # 0 => call.bearer > call.refused
  PROVE  McpInv'
<1>1. /\ toolCall'[c] = call /\ booked'[c] = n
      /\ \A d \in ToolCalls : d # c => toolCall'[d] = toolCall[d] /\ booked'[d] = booked[d]
  BY DEF McpInv, McpTypeOK
<1>2. McpTypeOK'
  BY DEF McpInv, McpTypeOK
<1>3. BookingInv'
  BY <1>1 DEF McpInv, BookingInv
<1>4. ASSUME NEW token \in Nat, NewerThanAll(token) PROVE NewerThanAll(token)'
  <2>1. /\ accessToken \in Nat
        /\ toolCall[c] # Resting => toolCall[c].bearer \in Nat /\ toolCall[c].refused \in Nat
    BY CallTyped, McpAssumption DEF McpInv, McpTypeOK, ToolCall
  <2>2. call # Resting => call.bearer < token /\ call.refused < token
    <3>1. 0 < token /\ accessToken < token
      BY <1>4, <2>1 DEF NewerThanAll
    <3>2. toolCall[c] # Resting => toolCall[c].bearer < token /\ toolCall[c].refused < token
      BY <1>4 DEF NewerThanAll
    <3> QED
      BY <3>1, <3>2
  <2> QED
    BY <1>1, <1>4, <2>2 DEF NewerThanAll
<1>5. RetryCarriesNewToken'
  BY <1>1 DEF McpInv, TokensInOrder, RetryCarriesNewToken, Is
<1>6. issued + 1 \in Nat /\ loginPromise.token \in Nat
  BY McpAssumption DEF McpInv, McpTypeOK
<1>7. PICK next \in Nat : next = issued + 1
  BY <1>6
<1>8. PICK token \in Nat : token = loginPromise.token
  BY <1>6
<1>9. NewerThanAll(next)' /\ (token # 0 => NewerThanAll(token)')
  BY <1>4, <1>7, <1>8 DEF McpInv, TokensInOrder
<1>10. issued' + 1 = next /\ loginPromise'.token \in {0, token}
  BY <1>7, <1>8
<1>11. TokensInOrder'
  BY <1>5, <1>9, <1>10 DEF TokensInOrder, NewerThanAll
<1>12. TokenTyped'
  BY McpAssumption DEF McpInv, McpTypeOK, TokenTyped
<1> QED
  BY <1>2, <1>3, <1>11, <1>12 DEF McpInv

LEMMA StartKeeps ==
  ASSUME McpInv, NEW c \in ToolCalls, NEW ask \in Asked, StartCall(c, ask)
  PROVE  McpInv'
<1> DEFINE call == [pc |-> IF accessToken = 0 THEN AfterLoginCall ELSE "sent", tool |-> ask.tool,
                    currency |-> ask.currency, amount |-> ask.amount, bearer |-> accessToken, refused |-> 0]
<1>1. /\ accessToken \in 0..MaxAccessTokens /\ 0 \in 0..MaxAccessTokens
      /\ loginPromise \in [pc : {"none", "sent", "issued"}, token : 0..MaxAccessTokens]
      /\ toolCall[c] = Resting /\ booked \in [ToolCalls -> 0..2]
  BY McpAssumption DEF McpInv, McpTypeOK, StartCall
<1>2. call \in ToolCall
  <2>1. ask.tool \in Called /\ ask.currency \in CurrencyCodes /\ ask.amount \in Int
    BY McpAssumption
  <2> QED
    BY <1>1, <2>1 DEF ToolCall, AfterLoginCall
<1>3. /\ call.pc \in {"waiting", "sent"} /\ call.bearer = accessToken /\ call.refused = 0
      /\ toolCall' = [toolCall EXCEPT ![c] = call]
  BY DEF StartCall, AfterLoginCall
<1> HIDE DEF call
<1>4. booked[c] = 0
  BY <1>1 DEF McpInv, BookingInv
<1>5. booked' = [booked EXCEPT ![c] = 0] /\ UNCHANGED <<accessToken, issued, valid>>
  BY <1>1, <1>4 DEF StartCall
<1>6. BookedWhere(call, 0)
  BY <1>3 DEF BookedWhere
<1>7. /\ loginPromise' \in [pc : {"none", "sent", "issued"}, token : 0..MaxAccessTokens]
      /\ loginPromise'.token \in {0, loginPromise.token}
  BY <1>1, McpAssumption DEF StartCall, SharedLogin
<1>8. call # Resting /\ 0 \in 0..2
  BY <1>3 DEF Resting
<1> QED
  BY <1>1, <1>2, <1>3, <1>5, <1>6, <1>7, <1>8, CallKeeps

(* A call in flight that goes on to another state.                         *)
LEMMA MovesOn ==
  ASSUME McpInv, NEW c \in ToolCalls, toolCall[c] # Resting,
         NEW pc \in {"answered", "rejected", "unauthorized", "timeout", "ok", "error"},
         NEW n \in 0..2, toolCall' = [toolCall EXCEPT ![c].pc = pc],
         booked' = [booked EXCEPT ![c] = n],
         BookedWhere([toolCall[c] EXCEPT !.pc = pc], n),
         UNCHANGED <<accessToken, loginPromise, issued, valid>>
  PROVE  McpInv'
<1> DEFINE call == [toolCall[c] EXCEPT !.pc = pc]
<1>1. /\ toolCall[c] \in ToolCall
      /\ loginPromise \in [pc : {"none", "sent", "issued"}, token : 0..MaxAccessTokens]
  BY CallTyped DEF McpInv, McpTypeOK
<1>2. /\ call \in ToolCall /\ call.pc = pc /\ call.bearer = toolCall[c].bearer
      /\ call.refused = toolCall[c].refused
  BY <1>1 DEF ToolCall, Settled
<1>3. toolCall' = [toolCall EXCEPT ![c] = call] /\ BookedWhere(call, n)
  OBVIOUS
<1> HIDE DEF call
<1>4. call # Resting
  BY <1>2 DEF ToolCall, Resting, Settled
<1> QED
  BY <1>1, <1>2, <1>3, <1>4, CallKeeps

LEMMA ServeKeeps ==
  ASSUME McpInv, NEW c \in ToolCalls, ApiServes(c) \/ GivesUp(c)
  PROVE  McpInv'
<1>1. /\ toolCall[c] # Resting /\ UNCHANGED <<accessToken, loginPromise, issued, valid>>
      /\ toolCall[c] \in ToolCall /\ booked \in [ToolCalls -> 0..2]
  BY CallTyped DEF ApiServes, GivesUp, Is, McpInv, McpTypeOK
<1>2. BookedWhere(toolCall[c], booked[c]) /\ booked[c] \in 0..2
  BY <1>1 DEF McpInv, BookingInv
<1>3. ASSUME NEW pc, NEW n, n \in {0, 1}, ~Writes(toolCall[c]) => n = 0,
             pc \in {"rejected", "unauthorized"} => n = 0,
             pc = "answered" /\ Writes(toolCall[c]) => n = 1, pc \notin {"waiting", "sent", "ok"}
      PROVE  BookedWhere([toolCall[c] EXCEPT !.pc = pc], n)
  <2> DEFINE call == [toolCall[c] EXCEPT !.pc = pc]
  <2>1. call.pc = pc /\ call.tool = toolCall[c].tool
    BY <1>1 DEF ToolCall
  <2> HIDE DEF call
  <2>2. BookedWhere(call, n)
    BY <1>3, <2>1 DEF BookedWhere, Writes
  <2> QED
    BY <2>2 DEF call
<1>4. CASE GivesUp(c)
  <2>1. toolCall' = [toolCall EXCEPT ![c].pc = "timeout"] /\ booked' = [booked EXCEPT ![c] = booked[c]]
    BY <1>1, <1>4 DEF GivesUp
  <2>2. BookedWhere([toolCall[c] EXCEPT !.pc = "timeout"], booked[c])
    <3>1. booked[c] \in {0, 1} /\ (~Writes(toolCall[c]) => booked[c] = 0)
      BY <1>2 DEF BookedWhere
    <3> QED
      BY <1>3, <3>1
  <2> QED
    BY <1>1, <1>2, <2>1, <2>2, MovesOn
<1>5. CASE ApiServes(c) /\ toolCall[c].bearer \notin valid
  <2>1. toolCall' = [toolCall EXCEPT ![c].pc = "unauthorized"] /\ booked[c] = 0
        /\ booked' = [booked EXCEPT ![c] = 0]
    BY <1>1, <1>2, <1>5 DEF ApiServes, Is, BookedWhere
  <2>2. BookedWhere([toolCall[c] EXCEPT !.pc = "unauthorized"], 0)
    BY <1>3
  <2> QED
    BY <1>1, <2>1, <2>2, MovesOn
<1>6. CASE ApiServes(c) /\ toolCall[c].bearer \in valid
  <2>1. PICK pc \in {"answered", "rejected", "timeout"} :
            /\ toolCall' = [toolCall EXCEPT ![c].pc = pc]
            /\ booked' = [booked EXCEPT ![c] =
                  IF pc # "rejected" /\ Tool(toolCall[c].tool).writes THEN @ + 1 ELSE @]
    BY <1>6 DEF ApiServes
  <2>2. booked[c] = 0
    BY <1>2, <1>6 DEF ApiServes, Is, BookedWhere
  <2> DEFINE n == IF pc # "rejected" /\ Writes(toolCall[c]) THEN 1 ELSE 0
  <2>3. booked' = [booked EXCEPT ![c] = n]
    BY <1>1, <2>1, <2>2 DEF Writes
  <2>4. BookedWhere([toolCall[c] EXCEPT !.pc = pc], n)
    BY <1>3
  <2>5. n \in 0..2 /\ toolCall' = [toolCall EXCEPT ![c].pc = pc]
    BY <2>1
  <2> HIDE DEF n
  <2> QED
    BY <1>1, <2>3, <2>4, <2>5, MovesOn
<1> QED
  BY <1>4, <1>5, <1>6

LEMMA SettleKeeps ==
  ASSUME McpInv, NEW c \in ToolCalls, Settle(c)
  PROVE  McpInv'
<1>1. /\ toolCall[c] # Resting /\ toolCall[c].pc \in Settled /\ toolCall[c] \in ToolCall
      /\ UNCHANGED <<accessToken, issued, valid, booked>> /\ booked \in [ToolCalls -> 0..2]
      /\ loginPromise \in [pc : {"none", "sent", "issued"}, token : 0..MaxAccessTokens]
      /\ accessToken \in 0..MaxAccessTokens
  BY CallTyped DEF Settle, McpInv, McpTypeOK
<1>2. /\ BookedWhere(toolCall[c], booked[c]) /\ booked[c] \in 0..2
      /\ booked' = [booked EXCEPT ![c] = booked[c]]
  BY <1>1 DEF McpInv, BookingInv
<1>3. CASE Retried(c)
  <2> DEFINE call == [toolCall[c] EXCEPT !.pc = "waiting", !.refused = toolCall[c].bearer,
                                         !.bearer = accessToken]
  <2>1. toolCall' = [toolCall EXCEPT ![c] = call] /\ loginPromise' = SharedLogin
    BY <1>1, <1>3 DEF Settle, AfterLoginCall, McpInv, McpTypeOK
  <2>2. /\ call \in ToolCall /\ call.pc = "waiting" /\ call.bearer = accessToken
        /\ call.refused = toolCall[c].bearer
    BY <1>1 DEF ToolCall
  <2> HIDE DEF call
  <2>3. booked[c] = 0 /\ BookedWhere(call, 0)
    BY <1>2, <1>3, <2>2 DEF Retried, BookedWhere
  <2>4. /\ loginPromise' \in [pc : {"none", "sent", "issued"}, token : 0..MaxAccessTokens]
        /\ loginPromise'.token \in {0, loginPromise.token}
    BY <1>1, <2>1, McpAssumption DEF SharedLogin
  <2>5. call # Resting
    BY <2>2 DEF Resting
  <2> QED
    BY <1>1, <1>2, <2>1, <2>2, <2>3, <2>4, <2>5, CallKeeps
<1>4. CASE ~Retried(c)
  <2> DEFINE pc == IF toolCall[c].pc = "answered" THEN "ok" ELSE "error"
             call == [toolCall[c] EXCEPT !.pc = pc]
  <2>1. toolCall' = [toolCall EXCEPT ![c].pc = pc] /\ UNCHANGED loginPromise
    BY <1>1, <1>4 DEF Settle
  <2>2. call.pc = pc /\ call.tool = toolCall[c].tool
    BY <1>1 DEF ToolCall
  <2> HIDE DEF call
  <2>3. BookedWhere(call, booked[c])
    BY <1>2, <2>2 DEF BookedWhere, Writes
  <2>4. pc \in {"ok", "error"}
    OBVIOUS
  <2>5. BookedWhere([toolCall[c] EXCEPT !.pc = pc], booked[c])
    BY <2>3 DEF call
  <2> HIDE DEF pc
  <2> QED
    BY <1>1, <1>2, <2>1, <2>4, <2>5, MovesOn
<1> QED
  BY <1>3, <1>4

LEMMA ReportKeeps ==
  ASSUME McpInv, NEW c \in ToolCalls, Report(c)
  PROVE  McpInv'
<1>1. loginPromise \in [pc : {"none", "sent", "issued"}, token : 0..MaxAccessTokens]
  BY DEF McpInv, McpTypeOK
<1>2. /\ toolCall' = [toolCall EXCEPT ![c] = Resting] /\ booked' = [booked EXCEPT ![c] = 0]
      /\ UNCHANGED <<accessToken, loginPromise, issued, valid>> /\ 0 \in 0..2
  BY DEF Report
<1> QED
  BY <1>1, <1>2, CallKeeps

(* The login ends: every waiting call goes on with the token it brought.   *)
LEMMA LoginKeeps == McpInv /\ LoginSettles => McpInv'
<1> SUFFICES ASSUME McpInv, LoginSettles PROVE McpInv'
  OBVIOUS
<1> DEFINE token == loginPromise.token
<1>1. /\ token \in 0..MaxAccessTokens /\ loginPromise' = [pc |-> "none", token |-> 0]
      /\ UNCHANGED <<issued, valid, booked>> /\ 0 \in 0..MaxAccessTokens
      /\ issued \in Nat /\ accessToken \in 0..MaxAccessTokens
  <2>1. loginPromise' = [pc |-> "none", token |-> 0] /\ UNCHANGED <<issued, valid, booked>>
    BY DEF LoginSettles, NoLogin
  <2> QED
    BY <2>1, McpAssumption DEF McpInv, McpTypeOK
<1>2. CASE token # 0 /\ accessToken' = token
           /\ toolCall' = [c \in ToolCalls |-> IF Is(c, "waiting")
                    THEN [toolCall[c] EXCEPT !.pc = "sent", !.bearer = token] ELSE toolCall[c]]
  <2>1. \A c \in ToolCalls : ~Is(c, "waiting") => toolCall'[c] = toolCall[c]
    BY <1>2
  <2>2. ASSUME NEW c \in ToolCalls, Is(c, "waiting")
        PROVE  /\ toolCall[c] # Resting /\ toolCall'[c] # Resting /\ toolCall'[c] \in ToolCall
               /\ toolCall'[c].pc = "sent" /\ toolCall'[c].bearer = token
               /\ toolCall'[c].refused = toolCall[c].refused /\ toolCall'[c].tool = toolCall[c].tool
    <3>1. toolCall[c] \in ToolCall /\ toolCall[c] # Resting
      BY <2>2, CallTyped DEF Is, McpInv
    <3>2. toolCall'[c] = [toolCall[c] EXCEPT !.pc = "sent", !.bearer = token]
      BY <1>2, <2>2
    <3>3. /\ toolCall'[c] \in ToolCall /\ toolCall'[c].pc = "sent" /\ toolCall'[c].bearer = token
          /\ toolCall'[c].refused = toolCall[c].refused /\ toolCall'[c].tool = toolCall[c].tool
      BY <1>1, <3>1, <3>2 DEF ToolCall
    <3> QED
      BY <3>1, <3>3 DEF Resting
  <2>3. McpTypeOK'
    <3>1. toolCall' \in [ToolCalls -> ToolCall \cup {Resting}]
      BY <1>2, <2>1, <2>2 DEF McpInv, McpTypeOK
    <3> QED
      BY <1>1, <1>2, <3>1 DEF McpInv, McpTypeOK
  <2>4. BookingInv'
    <3> SUFFICES ASSUME NEW c \in ToolCalls
                 PROVE  IF toolCall'[c] = Resting THEN booked[c] = 0
                        ELSE BookedWhere(toolCall'[c], booked[c])
      BY <1>1 DEF BookingInv
    <3>1. CASE Is(c, "waiting")
      BY <2>2, <3>1 DEF McpInv, BookingInv, BookedWhere, Writes, Is
    <3>2. CASE ~Is(c, "waiting")
      BY <2>1, <3>2 DEF McpInv, BookingInv
    <3> QED
      BY <3>1, <3>2
  <2>5. NewerThanAll(token) /\ NewerThanAll(issued + 1)
    BY <1>2 DEF McpInv, TokensInOrder
  <2>6. token <= issued
    BY <1>1, <1>2, McpAssumption DEF McpInv, McpTypeOK, TokenTyped
  <2>7. NewerThanAll(issued + 1)'
    <3>1. token < issued + 1 /\ accessToken' = token /\ issued' = issued
      <4>1. token \in Int /\ issued \in Int
        BY <1>1, McpAssumption
      <4>2. accessToken' = token /\ issued' = issued
        BY <1>1, <1>2
      <4> HIDE DEF token
      <4> QED
        BY <2>6, <4>1, <4>2
    <3>2. ASSUME NEW c \in ToolCalls, toolCall'[c] # Resting
          PROVE  toolCall'[c].bearer < issued + 1 /\ toolCall'[c].refused < issued + 1
      <4>1. CASE Is(c, "waiting")
        BY <2>2, <2>5, <3>1, <4>1 DEF NewerThanAll
      <4>2. CASE ~Is(c, "waiting")
        BY <2>1, <2>5, <3>2, <4>2 DEF NewerThanAll
      <4> QED
        BY <4>1, <4>2
    <3> QED
      BY <3>1, <3>2 DEF NewerThanAll
  <2>8. RetryCarriesNewToken'
    <3> SUFFICES ASSUME NEW c \in ToolCalls, Is(c, "sent")', toolCall'[c].refused # 0
                 PROVE  toolCall'[c].bearer > toolCall'[c].refused
      BY DEF RetryCarriesNewToken
    <3>1. CASE Is(c, "waiting")
      <4>1. toolCall[c].refused < token /\ toolCall[c].refused \in Nat
        BY <2>2, <2>5, <3>1, CallTyped, McpAssumption DEF NewerThanAll, McpInv, ToolCall
      <4> QED
        BY <1>1, <2>2, <3>1, <4>1, McpAssumption
    <3>2. CASE ~Is(c, "waiting")
      BY <2>1, <3>2 DEF McpInv, TokensInOrder, RetryCarriesNewToken, Is
    <3> QED
      BY <3>1, <3>2
  <2>9. TokensInOrder' /\ TokenTyped'
    BY <1>1, <2>7, <2>8 DEF TokensInOrder, TokenTyped
  <2> QED
    BY <2>3, <2>4, <2>9 DEF McpInv
<1>3. CASE UNCHANGED accessToken
           /\ toolCall' = [c \in ToolCalls |-> IF Is(c, "waiting")
                    THEN [toolCall[c] EXCEPT !.pc = "error"] ELSE toolCall[c]]
  <2>1. \A c \in ToolCalls : ~Is(c, "waiting") => toolCall'[c] = toolCall[c]
    BY <1>3
  <2>2. ASSUME NEW c \in ToolCalls, Is(c, "waiting")
        PROVE  /\ toolCall[c] # Resting /\ toolCall'[c] # Resting /\ toolCall'[c] \in ToolCall
               /\ toolCall'[c].pc = "error" /\ toolCall'[c].bearer = toolCall[c].bearer
               /\ toolCall'[c].refused = toolCall[c].refused /\ toolCall'[c].tool = toolCall[c].tool
    <3>1. toolCall[c] \in ToolCall /\ toolCall[c] # Resting
      BY <2>2, CallTyped DEF Is, McpInv
    <3>2. toolCall'[c] = [toolCall[c] EXCEPT !.pc = "error"]
      BY <1>3, <2>2
    <3>3. /\ toolCall'[c] \in ToolCall /\ toolCall'[c].pc = "error"
          /\ toolCall'[c].bearer = toolCall[c].bearer
          /\ toolCall'[c].refused = toolCall[c].refused /\ toolCall'[c].tool = toolCall[c].tool
      BY <3>1, <3>2 DEF ToolCall
    <3> QED
      BY <3>1, <3>3 DEF Resting
  <2>3. McpTypeOK'
    <3>1. toolCall' \in [ToolCalls -> ToolCall \cup {Resting}]
      BY <1>3, <2>1, <2>2 DEF McpInv, McpTypeOK
    <3> QED
      BY <1>1, <1>3, <3>1 DEF McpInv, McpTypeOK
  <2>4. BookingInv'
    <3> SUFFICES ASSUME NEW c \in ToolCalls
                 PROVE  IF toolCall'[c] = Resting THEN booked[c] = 0
                        ELSE BookedWhere(toolCall'[c], booked[c])
      BY <1>1 DEF BookingInv
    <3>1. CASE Is(c, "waiting")
      BY <2>2, <3>1 DEF McpInv, BookingInv, BookedWhere, Writes, Is
    <3>2. CASE ~Is(c, "waiting")
      BY <2>1, <3>2 DEF McpInv, BookingInv
    <3> QED
      BY <3>1, <3>2
  <2>5. NewerThanAll(issued + 1)'
    BY <1>1, <1>3, <2>1, <2>2 DEF NewerThanAll, McpInv, TokensInOrder
  <2>6. RetryCarriesNewToken'
    BY <2>1, <2>2 DEF McpInv, TokensInOrder, RetryCarriesNewToken, Is
  <2>7. TokensInOrder' /\ TokenTyped'
    BY <1>1, <2>5, <2>6 DEF TokensInOrder, TokenTyped
  <2> QED
    BY <2>3, <2>4, <2>7 DEF McpInv
<1> QED
  BY <1>2, <1>3 DEF LoginSettles

LEMMA NextMcp == McpInv /\ [McpNext]_mcpVars => McpInv'
<1> SUFFICES ASSUME McpInv, [McpNext]_mcpVars PROVE McpInv'
  OBVIOUS
<1>1. CASE UNCHANGED mcpVars
  BY <1>1 DEF mcpVars, McpInv, McpTypeOK, BookingInv, TokensInOrder, NewerThanAll,
              RetryCarriesNewToken, Is, TokenTyped
<1>2. CASE ApiLogsIn
  <2>1. /\ issued \in Nat /\ issued' = issued + 1 /\ issued' \in 1..MaxAccessTokens
        /\ loginPromise' = [pc |-> "issued", token |-> issued'] /\ valid' = valid \cup {issued'}
        /\ UNCHANGED <<accessToken, toolCall, booked>>
    BY <1>2, McpAssumption DEF ApiLogsIn, McpInv, McpTypeOK
  <2>2. McpTypeOK'
    BY <2>1, McpAssumption DEF McpInv, McpTypeOK
  <2>3. BookingInv' /\ RetryCarriesNewToken'
    BY <2>1 DEF McpInv, BookingInv, TokensInOrder, RetryCarriesNewToken, Is
  <2>4. \A c \in ToolCalls : toolCall[c] # Resting =>
            toolCall[c].bearer \in Nat /\ toolCall[c].refused \in Nat
    BY CallTyped, McpAssumption DEF McpInv, ToolCall
  <2>5. NewerThanAll(issued + 1) /\ accessToken \in Nat
    BY McpAssumption DEF McpInv, TokensInOrder, McpTypeOK
  <2>6. loginPromise'.token = issued + 1 /\ issued' + 1 = issued + 2
    BY <2>1
  <2>7. TokensInOrder'
    BY <2>1, <2>3, <2>4, <2>5, <2>6 DEF TokensInOrder, NewerThanAll
  <2>8. TokenTyped'
    BY <2>1 DEF TokenTyped
  <2> QED
    BY <2>2, <2>3, <2>7, <2>8 DEF McpInv
<1>3. ASSUME NEW t \in AccessTokens, TokenExpires(t) PROVE McpInv'
  BY <1>3 DEF TokenExpires, McpInv, McpTypeOK, BookingInv, TokensInOrder, NewerThanAll,
              RetryCarriesNewToken, Is, TokenTyped
<1>4. ASSUME NEW c \in ToolCalls, ToolStep(c) PROVE McpInv'
  BY <1>4, StartKeeps, ServeKeeps, SettleKeeps, ReportKeeps DEF ToolStep
<1> QED
  BY <1>1, <1>2, <1>3, <1>4, LoginKeeps DEF McpNext

LEMMA AlwaysMcp == McpSpec => []McpInv
  BY InitMcp, NextMcp, PTL DEF McpSpec

(* A tool call books at most one row, one exactly when the assistant is    *)
(* told so and none when it reads, however its requests are refused,       *)
(* retried and lost (apps/mcp, client.ts request and login).               *)
THEOREM CallsBookOnce == McpSpec => []CallBooksOnce
<1>1. McpInv => CallBooksOnce
  BY DEF McpInv, BookingInv, BookedWhere, Writes, CallBooksOnce
<1> QED
  BY <1>1, AlwaysMcp, PTL

(* The retry of a refused request carries a token issued after the refused *)
(* one, whichever call's login brought it (apps/mcp, client.ts login).     *)
THEOREM RetriesCarryNewTokens == McpSpec => []RetryCarriesNewToken
<1>1. McpInv => RetryCarriesNewToken
  BY DEF McpInv, TokensInOrder
<1> QED
  BY <1>1, AlwaysMcp, PTL

(* What an assistant is shown is exactly what the API has, and what it     *)
(* gives is rounded to the nearest minor unit: for every amount, of either *)
(* sign, and for currencies of no, two and three decimals where the tool   *)
(* knows the currency (apps/mcp, tools.ts; shared-utils, money.ts).        *)
THEOREM AmountsAlwaysArrive == McpSpec => []AmountsArrive
<1>1. ASSUME McpInv, NEW c \in ToolCalls, Is(c, "ok"),
             toolCall[c].currency = "USD" \/ toolCall[c].tool \in KnowsCurrency
      PROVE  LET call == toolCall[c]
                 off == Converted(call).minor * 1000
                        - Converted(call).major * MinorUnitFactor(call.currency)
             IN  IF Tool(call.tool).writes THEN -500 < off /\ off <= 500 ELSE off = 0
  <2>1. /\ toolCall[c].tool \in Called /\ toolCall[c].currency \in CurrencyCodes
        /\ toolCall[c].amount \in Int
    BY <1>1, CallTyped DEF Is, McpInv, ToolCall
  <2>2. Factor(toolCall[c]) = toolCall[c].currency
    BY <1>1, <2>1, ToolTable DEF Factor, KnowsCurrency, Called
  <2>3. PICK amount \in Int, currency \in CurrencyCodes :
            amount = toolCall[c].amount /\ currency = toolCall[c].currency
    BY <2>1
  <2>4. CASE Tool(toolCall[c].tool).writes
    <3>1. /\ Converted(toolCall[c]).minor = MajorToMinor(amount, currency)
          /\ Converted(toolCall[c]).major = amount
      BY <2>2, <2>3, <2>4 DEF Converted
    <3> QED
      BY <2>3, <2>4, <3>1, Rounded
  <2>5. CASE ~Tool(toolCall[c].tool).writes
    <3>1. /\ Converted(toolCall[c]).minor = amount
          /\ Converted(toolCall[c]).major = MinorToMajor(amount, currency)
      BY <2>2, <2>3, <2>5 DEF Converted
    <3> QED
      BY <2>3, <2>5, <3>1, Exact
  <2> QED
    BY <2>4, <2>5
<1>2. McpInv => AmountsArrive
  BY <1>1 DEF AmountsArrive
<1> QED
  BY <1>2, AlwaysMcp, PTL

-----------------------------------------------------------------------------
(* The pages that list, edit and remove rows, for any number of rows and   *)
(* of requests in flight.                                                  *)

ListRows == [RowIds -> ListRow \cup {Absent}]
WriteKinds == {"save", "remove", "contribute"}
Request ==
    {Unsent} \cup [kind : {"load"}, stage : {"sent", "failed"}]
    \cup [kind : {"load"}, stage : {"answered"}, rows : ListRows]
    \cup [kind : {"save"}, stage : {"sent"}, id : RowIds \cup {NewRow}, form : Form,
          base : ListRow \cup {Absent}, touched : BOOLEAN]
    \cup [kind : {"remove", "contribute"}, stage : {"sent"}, id : RowIds]
    \cup [kind : WriteKinds, stage : {"answered", "failed"}]

PageUi ==
    [loading : BOOLEAN, saving : BOOLEAN, contributing : BOOLEAN, open : BOOLEAN,
     editing : RowIds \cup {NewRow}, form : Form, base : ListRow \cup {Absent}, touched : BOOLEAN]

PageTyped ==
    /\ page \in PageNames
    /\ rows \in ListRows /\ shown \in ListRows
    /\ ui \in PageUi
    /\ request \in [Slots -> Request]
    /\ overtaken \in BOOLEAN

LEMMA BlankTyped == BlankForm \in Form /\ Typed \in Form /\ "USD" \in CurrencyCodes
  BY DEF BlankForm, Typed, Form, CurrencyCodes, Texts

LEMMA TextsTyped ==
  ASSUME NEW text \in Texts
  PROVE  /\ OrEmpty(text) \in Texts /\ OrNull(text) \in Texts /\ DefaultColor \in Texts
         /\ OrNull(OrEmpty(text)) = IF text = "" THEN "null" ELSE text
         /\ OrNull(DefaultColor) = DefaultColor
  BY DEF OrEmpty, OrNull, Texts, DefaultColor

LEMMA FormTyped ==
  ASSUME page \in PageNames, NEW row \in ListRow
  PROVE  FormOf(row) \in Form
<1>1. /\ row.amount \in Int /\ row.currency \in CurrencyCodes /\ row.text \in Texts
      /\ row.day \in Nat /\ row.time \in Nat
  BY DEF ListRow
<1>2. MinorToMajor(row.amount, row.currency) \in Int /\ MinorToMajor(row.amount, "USD") \in Int
  BY <1>1, Exact, BlankTyped
<1>3. /\ AccountForm(row) \in Form /\ CategoryForm(row) \in Form
      /\ BudgetForm(row) \in Form /\ GoalForm(row) \in Form
  BY <1>1, <1>2, TextsTyped, BlankTyped DEF AccountForm, CategoryForm, BudgetForm, GoalForm, Form
<1> QED
  BY <1>3 DEF FormOf, PageNames

LEMMA RowTyped ==
  ASSUME page \in PageNames, NEW old \in ListRow \cup {Absent}, NEW form \in Form
  PROVE  RowOf(old, form) \in ListRow
<1>1. /\ form.major \in Int /\ form.currency \in CurrencyCodes /\ form.text \in Texts
      /\ form.day \in Nat /\ form.time \in Nat
  BY DEF Form
<1>2. "USD" \in CurrencyCodes /\ OrNull(form.text) \in Texts
  BY <1>1, TextsTyped, BlankTyped
<1>6. /\ MajorToMinor(form.major, form.currency) \in Int
      /\ MajorToMinor(form.major, "USD") \in Int
  BY <1>1, <1>2, Rounded
<1>3. old # Absent => old \in ListRow /\ old.current \in Nat /\ old.currency \in CurrencyCodes
  BY DEF ListRow
<1>4. AccountRow(old, form) \in ListRow /\ CategoryRow(old, form) \in ListRow
  <2>1. CASE old = Absent
    BY <1>1, <1>2, <1>6, <2>1 DEF AccountRow, CategoryRow, ListRow
  <2>2. CASE old # Absent
    BY <1>1, <1>2, <1>3, <2>2 DEF AccountRow, CategoryRow, ListRow
  <2> QED
    BY <2>1, <2>2
<1>5. BudgetRow(old, form) \in ListRow /\ GoalRow(old, form) \in ListRow
  BY <1>1, <1>2, <1>6, <1>3 DEF BudgetRow, GoalRow, ListRow
<1> QED
  BY <1>4, <1>5 DEF RowOf, PageNames

LEMMA ShownFields ==
  ASSUME NEW row \in ListRow
  PROVE  AsShown(row) =
            [amount |-> row.amount, currency |-> row.currency,
             text |-> IF row.text = "" THEN "null"
                      ELSE IF page = "categories" /\ row.text = "null" THEN DefaultColor ELSE row.text,
             day |-> row.day, time |-> IF page = "goals" THEN 0 ELSE row.time,
             current |-> row.current]
<1>1. PICK text : text = IF row.text = "" THEN "null"
                         ELSE IF page = "categories" /\ row.text = "null" THEN DefaultColor
                         ELSE row.text
  OBVIOUS
<1>2. PICK time : time = IF page = "goals" THEN 0 ELSE row.time
  OBVIOUS
<1>3. AsShown(row) = [row EXCEPT !.text = text, !.time = time]
  BY <1>1, <1>2 DEF AsShown
<1>4. [row EXCEPT !.text = text, !.time = time] =
         [amount |-> row.amount, currency |-> row.currency, text |-> text, day |-> row.day,
          time |-> time, current |-> row.current]
  <2>1. PICK amount, currency, was, day, at, current :
            row = [amount |-> amount, currency |-> currency, text |-> was, day |-> day,
                   time |-> at, current |-> current]
    BY DEF ListRow
  <2>2. PICK mid : mid = [row EXCEPT !.text = text]
    OBVIOUS
  <2>3. mid = [amount |-> amount, currency |-> currency, text |-> text, day |-> day, time |-> at,
               current |-> current]
    BY <2>1, <2>2
  <2>4. [mid EXCEPT !.time = time] =
           [amount |-> amount, currency |-> currency, text |-> text, day |-> day, time |-> time,
            current |-> current]
    BY <2>3
  <2>5. [row EXCEPT !.text = text, !.time = time] = [mid EXCEPT !.time = time]
    BY <2>2
  <2>6. /\ row.amount = amount /\ row.currency = currency /\ row.day = day
        /\ row.current = current
    BY <2>1
  <2> QED
    BY <2>4, <2>5, <2>6
<1> QED
  BY <1>1, <1>2, <1>3, <1>4

(* A row becomes a form and the form that row again, but for what the form *)
(* cannot show.                                                            *)
LEMMA RoundTrip ==
  ASSUME page \in PageNames, NEW row \in ListRow
  PROVE  RowOf(row, FormOf(row)) = AsShown(row)
<1>1. /\ row.amount \in Int /\ row.currency \in CurrencyCodes /\ row.text \in Texts
      /\ "USD" \in CurrencyCodes /\ row # Absent
  BY ListAssumption, BlankTyped DEF ListRow
<1>2. /\ MajorToMinor(MinorToMajor(row.amount, row.currency), row.currency) = row.amount
      /\ MajorToMinor(MinorToMajor(row.amount, "USD"), "USD") = row.amount
  BY <1>1, Conversions
<1>3. /\ OrNull(OrEmpty(row.text)) = (IF row.text = "" THEN "null" ELSE row.text)
      /\ OrNull(DefaultColor) = DefaultColor
  BY <1>1, TextsTyped
<1>4. CASE page = "accounts"
  <2>1. AccountRow(row, AccountForm(row)) = AsShown(row)
    BY <1>1, <1>3, <1>4 DEF AccountRow, AccountForm, ListRow, BlankForm, AsShown
  <2> QED
    BY <1>4, <2>1 DEF RowOf, FormOf
<1>5. CASE page = "categories"
  <2>1. CategoryRow(row, CategoryForm(row)) = AsShown(row)
    BY <1>1, <1>3, <1>5 DEF CategoryRow, CategoryForm, ListRow, BlankForm, AsShown, OrNull
  <2> QED
    BY <1>5, <2>1 DEF RowOf, FormOf
<1>6. CASE page = "budgets"
  <2>1. BudgetRow(row, BudgetForm(row)) = AsShown(row)
    <3>1. /\ BudgetForm(row).major = MinorToMajor(row.amount, "USD")
          /\ BudgetForm(row).text = OrEmpty(row.text)
          /\ BudgetForm(row).day = row.day /\ BudgetForm(row).time = row.time
      BY DEF BudgetForm, BlankForm
    <3>2. page # "categories" /\ page # "goals"
      BY <1>6
    <3> QED
      BY <1>1, <1>2, <1>3, <3>1, <3>2, ShownFields DEF BudgetRow
  <2> QED
    BY <1>6, <2>1 DEF RowOf, FormOf
<1>7. CASE page = "goals"
  <2>1. GoalRow(row, GoalForm(row)) = AsShown(row)
    <3>1. /\ GoalForm(row).major = MinorToMajor(row.amount, row.currency)
          /\ GoalForm(row).text = OrEmpty(row.text)
          /\ GoalForm(row).currency = row.currency /\ GoalForm(row).day = row.day
      BY DEF GoalForm
    <3>2. page # "categories" /\ page = "goals"
      BY <1>7
    <3> QED
      BY <1>1, <1>2, <1>3, <3>1, <3>2, ShownFields DEF GoalRow
  <2> QED
    BY <1>7, <2>1 DEF RowOf, FormOf
<1> QED
  BY <1>4, <1>5, <1>6, <1>7 DEF PageNames

(* A form opened on a row and left alone is the form of that row, and so   *)
(* is what is saved from it.                                               *)
FormsFaithful ==
    /\ ui.editing # NewRow /\ ~ui.touched => ui.base \in ListRow /\ ui.form = FormOf(ui.base)
    /\ \A s \in Slots :
          LET r == request[s]
          IN  r.kind = "save" /\ r.stage = "sent" /\ r.id # NewRow /\ ~r.touched =>
                  r.base \in ListRow /\ r.form = FormOf(r.base)

(* A flag stands for the one request of its kind.                          *)
FlagFits(kind, flag) ==
    /\ flag <=> \E s \in Slots : request[s].kind = kind
    /\ \A s, t \in Slots : request[s].kind = kind /\ request[t].kind = kind => s = t
FlagsFit ==
    /\ FlagFits("save", ui.saving) /\ FlagFits("contribute", ui.contributing)
    /\ ui.loading => \E s \in Slots : request[s].kind = "load"

(* While nothing overtakes anything, at most one load is under way, and    *)
(* unless a write is about to load the list again, that load, or the page, *)
(* has the rows as they are.                                               *)
LoadsInOrder ==
    ~overtaken =>
        /\ \A s \in Slots : request[s] # Unsent => request[s].stage # "failed"
        /\ \A s, t \in Slots : request[s].kind = "load" /\ request[t].kind = "load" => s = t
        /\ (\A s \in Slots : request[s].kind \in WriteKinds => request[s].stage = "sent") =>
              /\ \A s \in Slots : request[s].kind = "load" /\ request[s].stage = "answered" =>
                    request[s].rows = rows
              /\ (\A s \in Slots : request[s].kind # "load") => shown = rows

PageInv == PageTyped /\ FormsFaithful /\ FlagsFit /\ LoadsInOrder

(* What a request can be, by its kind and stage.                           *)
LEMMA RequestShapes ==
  ASSUME NEW r \in Request
  PROVE  /\ r.kind \in {"none", "load"} \cup WriteKinds
         /\ r.kind = "none" <=> r = Unsent
         /\ r # Unsent => r.stage \in Stages
         /\ r.kind = "load" /\ r.stage = "answered" => r.rows \in ListRows
         /\ r.kind = "save" /\ r.stage = "sent" =>
               /\ r.id \in RowIds \cup {NewRow} /\ r.form \in Form
               /\ r.base \in ListRow \cup {Absent} /\ r.touched \in BOOLEAN
         /\ r.kind \in {"remove", "contribute"} /\ r.stage = "sent" => r.id \in RowIds
  BY DEF Request, Unsent, Stages, WriteKinds

LEMMA InitPage == PageInit => PageInv
<1> SUFFICES ASSUME PageInit PROVE PageInv
  OBVIOUS
<1>1. PICK s \in Slots : request = [t \in Slots |-> IF t = s THEN Flying("load") ELSE Unsent]
  BY DEF PageInit
<1>2. /\ request[s].kind = "load" /\ request[s].stage = "sent" /\ request[s] \in Request
      /\ \A t \in Slots : t # s => request[t] = Unsent /\ request[t].kind = "none"
  BY <1>1 DEF Flying, Unsent, Request
<1>3. BlankForm \in Form
  BY BlankTyped
<1>4. PageTyped
  BY <1>1, <1>2, <1>3, ListAssumption DEF PageInit, PageTyped, PageUi, ListRows, Request
<1>5. FormsFaithful
  BY <1>2 DEF PageInit, FormsFaithful
<1>6. FlagsFit
  BY <1>2 DEF PageInit, FlagsFit, FlagFits
<1>7. LoadsInOrder
  BY <1>2 DEF LoadsInOrder
<1> QED
  BY <1>4, <1>5, <1>6, <1>7 DEF PageInv

LEMMA SlotMoves ==
  ASSUME PageTyped, NEW s \in Slots, NEW r \in Request, request' = [request EXCEPT ![s] = r]
  PROVE  /\ request' \in [Slots -> Request]
         /\ request'[s] = r /\ \A t \in Slots : t # s => request'[t] = request[t]
  BY DEF PageTyped

(* Opening, filling in and closing the form sends nothing.                 *)
LEMMA FormKeepsPage ==
  ASSUME PageInv, OpenCreate \/ TypeInForm \/ CancelForm \/ \E id \in RowIds : OpenEdit(id)
  PROVE  PageInv'
<1>1. UNCHANGED <<page, rows, shown, request, overtaken>>
  BY DEF OpenCreate, TypeInForm, CancelForm, OpenEdit
<1>2. ui \in PageUi /\ page \in PageNames /\ shown \in ListRows
  BY DEF PageInv, PageTyped
<1>3. BlankForm \in Form /\ Typed \in Form
  BY BlankTyped
<1>4. /\ ui' \in PageUi
      /\ ui'.saving = ui.saving /\ ui'.contributing = ui.contributing /\ ui'.loading = ui.loading
      /\ ui'.editing # NewRow /\ ~ui'.touched => ui'.base \in ListRow /\ ui'.form = FormOf(ui'.base)
  <2>1. CASE OpenCreate
    BY <1>2, <1>3, <2>1 DEF OpenCreate, OpenForm, PageUi
  <2>2. CASE TypeInForm
    BY <1>2, <1>3, <2>2 DEF TypeInForm, PageUi
  <2>3. CASE CancelForm
    BY <1>2, <1>3, <2>3 DEF CancelForm, Closed, PageUi
  <2>4. CASE \E id \in RowIds : OpenEdit(id)
    <3>1. PICK id \in RowIds : OpenEdit(id)
      BY <2>4
    <3>2. shown[id] \in ListRow
      BY <1>2, <3>1 DEF OpenEdit, ListRows
    <3>3. FormOf(shown[id]) \in Form
      BY <1>2, <3>2, FormTyped
    <3>4. ui' = [ui EXCEPT !.open = TRUE, !.editing = id, !.form = FormOf(shown[id]),
                           !.base = shown[id], !.touched = FALSE]
      BY <3>1 DEF OpenEdit, OpenForm
    <3> QED
      BY <1>2, <3>2, <3>3, <3>4 DEF PageUi
  <2> QED
    BY <2>1, <2>2, <2>3, <2>4
<1>5. PageTyped'
  BY <1>1, <1>4 DEF PageInv, PageTyped
<1>6. FormsFaithful'
  BY <1>1, <1>4 DEF PageInv, FormsFaithful, FormOf
<1>7. FlagsFit' /\ LoadsInOrder'
  BY <1>1, <1>4 DEF PageInv, FlagsFit, FlagFits, LoadsInOrder
<1> QED
  BY <1>5, <1>6, <1>7 DEF PageInv

(* What the page sends: a write whose flag is down, in a free slot.        *)
LEMMA SendKeepsPage ==
  ASSUME PageInv, NEW s \in Slots,
         Save(s) \/ \E id \in RowIds : RemoveRow(s, id) \/ Contribute(s, id)
  PROVE  PageInv'
<1>1. ui \in PageUi /\ UNCHANGED <<page, rows, shown, overtaken>> /\ request[s] = Unsent
  BY DEF PageInv, PageTyped, Save, RemoveRow, Contribute, Send
<1>2. PICK r \in Request :
        /\ request' = [request EXCEPT ![s] = r]
        /\ r.kind \in WriteKinds /\ r.stage = "sent"
        /\ r.kind = "save" => /\ ~ui.saving
                              /\ r.id = ui.editing /\ r.form = ui.form /\ r.base = ui.base
                              /\ r.touched = ui.touched
        /\ r.kind = "contribute" => ~ui.contributing
        /\ ui' = [ui EXCEPT !.saving = (@ \/ r.kind = "save"),
                            !.contributing = (@ \/ r.kind = "contribute")]
  <2>1. CASE Save(s)
    <3> DEFINE r == [kind |-> "save", stage |-> "sent", id |-> ui.editing, form |-> ui.form,
                     base |-> ui.base, touched |-> ui.touched]
    <3>1. r \in Request
      BY <1>1 DEF Request, PageUi
    <3>2. ~ui.saving /\ request' = [request EXCEPT ![s] = r] /\ ui' = [ui EXCEPT !.saving = TRUE]
      BY <2>1 DEF Save, MaySave, Send
    <3>3. ui' = [ui EXCEPT !.saving = (@ \/ r.kind = "save"),
                           !.contributing = (@ \/ r.kind = "contribute")]
      BY <1>1, <3>2 DEF PageUi
    <3> QED
      BY <3>1, <3>2, <3>3 DEF WriteKinds
  <2>2. CASE \E id \in RowIds : RemoveRow(s, id)
    <3>1. PICK id \in RowIds : RemoveRow(s, id)
      BY <2>2
    <3> DEFINE r == [kind |-> "remove", stage |-> "sent", id |-> id]
    <3>2. r \in Request
      BY DEF Request
    <3>3. request' = [request EXCEPT ![s] = r] /\ ui' = ui
      BY <3>1 DEF RemoveRow, Send
    <3>4. ui' = [ui EXCEPT !.saving = (@ \/ r.kind = "save"),
                           !.contributing = (@ \/ r.kind = "contribute")]
      BY <1>1, <3>3 DEF PageUi
    <3> QED
      BY <3>2, <3>3, <3>4 DEF WriteKinds
  <2>3. CASE \E id \in RowIds : Contribute(s, id)
    <3>1. PICK id \in RowIds : Contribute(s, id)
      BY <2>3
    <3> DEFINE r == [kind |-> "contribute", stage |-> "sent", id |-> id]
    <3>2. r \in Request
      BY DEF Request
    <3>3. /\ request' = [request EXCEPT ![s] = r] /\ ui' = [ui EXCEPT !.contributing = TRUE]
          /\ ~ui.contributing
      BY <3>1 DEF Contribute, Send
    <3>4. ui' = [ui EXCEPT !.saving = (@ \/ r.kind = "save"),
                           !.contributing = (@ \/ r.kind = "contribute")]
      BY <1>1, <3>3 DEF PageUi
    <3> QED
      BY <3>2, <3>3, <3>4 DEF WriteKinds
  <2> QED
    BY <2>1, <2>2, <2>3
<1>3. /\ request' \in [Slots -> Request]
      /\ request'[s] = r /\ \A t \in Slots : t # s => request'[t] = request[t]
  BY <1>2, SlotMoves DEF PageInv
<1>4. /\ ui' \in PageUi
      /\ ui'.saving <=> ui.saving \/ r.kind = "save"
      /\ ui'.contributing <=> ui.contributing \/ r.kind = "contribute"
      /\ ui'.loading = ui.loading /\ ui'.editing = ui.editing /\ ui'.touched = ui.touched
      /\ ui'.base = ui.base /\ ui'.form = ui.form
  BY <1>1, <1>2 DEF PageUi
<1>5. request[s].kind = "none"
  BY <1>1 DEF Unsent
<1>6. PageTyped'
  BY <1>1, <1>3, <1>4 DEF PageInv, PageTyped
<1>7. FormsFaithful'
  BY <1>1, <1>2, <1>3, <1>4 DEF PageInv, FormsFaithful, FormOf
<1>8. FlagsFit'
  <2>1. FlagFits("save", ui.saving)'
    BY <1>2, <1>3, <1>4, <1>5 DEF PageInv, FlagsFit, FlagFits
  <2>2. FlagFits("contribute", ui.contributing)'
    BY <1>2, <1>3, <1>4, <1>5 DEF PageInv, FlagsFit, FlagFits
  <2>3. (ui.loading => \E t \in Slots : request[t].kind = "load")'
    BY <1>3, <1>4, <1>5 DEF PageInv, FlagsFit
  <2> QED
    BY <2>1, <2>2, <2>3 DEF FlagsFit
<1>9. LoadsInOrder'
  BY <1>1, <1>2, <1>3, <1>5 DEF PageInv, LoadsInOrder, WriteKinds, Unsent
<1> QED
  BY <1>6, <1>7, <1>8, <1>9 DEF PageInv

(* What happens to a request on its way keeps its kind, so no flag and no  *)
(* form has to know of it.                                                 *)
LEMMA AnsweredKeepsUi ==
  ASSUME PageInv, NEW s \in Slots, NEW r \in Request, request' = [request EXCEPT ![s] = r],
         r.kind = request[s].kind, r.stage # "sent", r # Unsent, UNCHANGED <<page, ui>>
  PROVE  FormsFaithful' /\ FlagsFit' /\ request' \in [Slots -> Request]
<1>1. /\ request' \in [Slots -> Request]
      /\ request'[s] = r /\ \A t \in Slots : t # s => request'[t] = request[t]
  BY SlotMoves DEF PageInv
<1>2. \A t \in Slots : request'[t].kind = request[t].kind
  BY <1>1
<1>3. FormsFaithful'
  BY <1>1 DEF PageInv, FormsFaithful, FormOf
<1>4. FlagsFit'
  BY <1>2 DEF PageInv, FlagsFit, FlagFits
<1> QED
  BY <1>1, <1>3, <1>4

LEMMA ServeLoadKeepsPage ==
  ASSUME PageInv, NEW s \in Slots, ServeLoad(s)
  PROVE  PageInv'
<1> DEFINE r == [kind |-> "load", stage |-> "answered", rows |-> rows]
<1>1. /\ request[s].kind = "load" /\ request' = [request EXCEPT ![s] = r]
      /\ UNCHANGED <<page, rows, shown, ui, overtaken>>
  BY DEF ServeLoad
<1>2. r \in Request /\ r.kind = "load" /\ r.stage = "answered" /\ r.rows = rows /\ r # Unsent
  BY DEF PageInv, PageTyped, Request, Unsent
<1>3. /\ request'[s] = r /\ \A t \in Slots : t # s => request'[t] = request[t]
  BY <1>1, <1>2, SlotMoves DEF PageInv
<1> HIDE DEF r
<1>4. FormsFaithful' /\ FlagsFit' /\ request' \in [Slots -> Request]
  BY <1>1, <1>2, AnsweredKeepsUi
<1>5. PageTyped'
  BY <1>1, <1>4 DEF PageInv, PageTyped
<1>6. LoadsInOrder'
  BY <1>1, <1>2, <1>3 DEF PageInv, LoadsInOrder, WriteKinds
<1> QED
  BY <1>4, <1>5, <1>6 DEF PageInv

(* The API's rows stay rows.                                               *)
LEMMA ExecutedTyped ==
  ASSUME PageInv, NEW s \in Slots, ServeWrite(s)
  PROVE  rows' \in ListRows
<1>1. /\ request[s] \in Request /\ request[s].stage = "sent" /\ request[s].kind \in WriteKinds
      /\ rows \in ListRows /\ page \in PageNames
  BY RequestShapes DEF PageInv, PageTyped, ServeWrite
<1> DEFINE r == request[s]
<1>2. /\ r.kind = "save" => r.id \in RowIds \cup {NewRow} /\ r.form \in Form
      /\ r.kind \in {"remove", "contribute"} => r.id \in RowIds
  BY <1>1, RequestShapes
<1>3. Executed(r, rows')
  BY DEF ServeWrite
<1> HIDE DEF r
<1>4. CASE r.kind = "save" /\ r.id = NewRow
  <2>1. PICK id \in RowIds : rows' = [rows EXCEPT ![id] = RowOf(Absent, r.form)]
    BY <1>3, <1>4 DEF Executed
  <2>2. RowOf(Absent, r.form) \in ListRow
    BY <1>1, <1>2, <1>4, RowTyped
  <2> QED
    BY <1>1, <2>1, <2>2 DEF ListRows
<1>5. CASE r.kind = "save" /\ r.id # NewRow
  <2>1. /\ r.id \in RowIds /\ rows[r.id] \in ListRow
        /\ rows' = [rows EXCEPT ![r.id] = RowOf(rows[r.id], r.form)]
    BY <1>1, <1>2, <1>3, <1>5 DEF Executed, ListRows
  <2>2. RowOf(rows[r.id], r.form) \in ListRow
    BY <1>1, <1>2, <1>5, <2>1, RowTyped
  <2> QED
    BY <1>1, <2>1, <2>2 DEF ListRows
<1>6. CASE r.kind = "remove"
  BY <1>1, <1>2, <1>3, <1>6 DEF Executed, ListRows
<1>7. CASE r.kind = "contribute"
  <2>1. /\ r.id \in RowIds /\ rows[r.id] \in ListRow
        /\ rows' = [rows EXCEPT ![r.id].current = 1]
    BY <1>1, <1>2, <1>3, <1>7 DEF Executed, ListRows
  <2>2. [rows[r.id] EXCEPT !.current = 1] \in ListRow
    BY <2>1 DEF ListRow
  <2>3. rows' = [rows EXCEPT ![r.id] = [rows[r.id] EXCEPT !.current = 1]]
    BY <2>1
  <2> QED
    BY <1>1, <2>1, <2>2, <2>3 DEF ListRows
<1> QED
  BY <1>1, <1>4, <1>5, <1>6, <1>7 DEF r, WriteKinds

LEMMA ServeWriteKeepsPage ==
  ASSUME PageInv, NEW s \in Slots, ServeWrite(s)
  PROVE  PageInv'
<1>1. /\ request[s] \in Request /\ request[s].kind \in WriteKinds
      /\ UNCHANGED <<page, shown, ui, overtaken>>
  BY RequestShapes DEF PageInv, PageTyped, ServeWrite
<1> DEFINE r == [kind |-> request[s].kind, stage |-> "answered"]
<1>2. request' = [request EXCEPT ![s] = r]
  BY DEF ServeWrite, Answered
<1>3. /\ r \in Request /\ r.kind = request[s].kind /\ r.kind \in WriteKinds /\ r.stage = "answered"
      /\ r # Unsent
  BY <1>1 DEF Request, Unsent
<1> HIDE DEF r
<1>4. FormsFaithful' /\ FlagsFit' /\ request' \in [Slots -> Request]
  BY <1>1, <1>2, <1>3, AnsweredKeepsUi
<1>5. /\ request'[s] = r /\ \A t \in Slots : t # s => request'[t] = request[t]
  BY <1>2, <1>3, SlotMoves DEF PageInv
<1>6. PageTyped'
  BY <1>1, <1>4, ExecutedTyped DEF PageInv, PageTyped
<1>7. LoadsInOrder'
  <2> SUFFICES ASSUME ~overtaken'
               PROVE  /\ \A t \in Slots : request'[t] # Unsent => request'[t].stage # "failed"
                      /\ \A t, u \in Slots :
                            request'[t].kind = "load" /\ request'[u].kind = "load" => t = u
    BY <1>3, <1>5 DEF LoadsInOrder
  <2> QED
    BY <1>1, <1>3, <1>5 DEF PageInv, LoadsInOrder
<1> QED
  BY <1>4, <1>6, <1>7 DEF PageInv

LEMMA LoseAnswerKeepsPage ==
  ASSUME PageInv, NEW s \in Slots, LoseAnswer(s)
  PROVE  PageInv'
<1>1. /\ request[s] \in Request /\ request[s].kind \in {"load"} \cup WriteKinds
      /\ UNCHANGED <<page, rows, shown, ui>> /\ overtaken' = TRUE
  BY RequestShapes DEF PageInv, PageTyped, LoseAnswer
<1> DEFINE r == [kind |-> request[s].kind, stage |-> "failed"]
<1>2. request' = [request EXCEPT ![s] = r]
  BY DEF LoseAnswer, Answered
<1>3. r \in Request /\ r.kind = request[s].kind /\ r.stage = "failed" /\ r # Unsent
  BY <1>1 DEF Request, Unsent, WriteKinds
<1> HIDE DEF r
<1>4. FormsFaithful' /\ FlagsFit' /\ request' \in [Slots -> Request]
  BY <1>1, <1>2, <1>3, AnsweredKeepsUi
<1> QED
  BY <1>1, <1>4 DEF PageInv, PageTyped, LoadsInOrder

(* The callbacks.                                                          *)
LEMMA LoadDoneKeepsPage ==
  ASSUME PageInv, NEW s \in Slots, LoadDone(s)
  PROVE  PageInv'
<1>1. /\ request[s] \in Request /\ request[s].kind = "load" /\ ui \in PageUi
      /\ request[s].stage \in {"answered", "failed"}
      /\ request' = [request EXCEPT ![s] = Unsent] /\ Unsent \in Request /\ Unsent.kind = "none"
      /\ UNCHANGED <<page, rows, overtaken>>
  BY DEF PageInv, PageTyped, LoadDone, Request, Unsent
<1>2. /\ request' \in [Slots -> Request]
      /\ request'[s] = Unsent /\ \A t \in Slots : t # s => request'[t] = request[t]
  BY <1>1, SlotMoves DEF PageInv
<1>3. /\ ui' \in PageUi /\ ~ui'.loading
      /\ ui'.saving = ui.saving /\ ui'.contributing = ui.contributing
      /\ ui'.editing = ui.editing /\ ui'.touched = ui.touched
      /\ ui'.base = ui.base /\ ui'.form = ui.form
  BY <1>1 DEF LoadDone, PageUi
<1>4. PageTyped'
  BY <1>1, <1>2, <1>3, RequestShapes DEF PageInv, PageTyped, LoadDone
<1>5. FormsFaithful'
  BY <1>1, <1>2, <1>3 DEF PageInv, FormsFaithful, FormOf
<1>6. FlagsFit'
  BY <1>1, <1>2, <1>3 DEF PageInv, FlagsFit, FlagFits
<1>7. LoadsInOrder'
  <2> SUFFICES ASSUME ~overtaken'
               PROVE  /\ \A t \in Slots : request'[t] # Unsent => request'[t].stage # "failed"
                      /\ \A t \in Slots : request'[t].kind # "load"
                      /\ (\A t \in Slots : request'[t].kind \in WriteKinds => request'[t].stage = "sent")
                            => shown' = rows'
    BY DEF LoadsInOrder
  <2>1. request[s].stage = "answered" /\ shown' = request[s].rows
    BY <1>1 DEF PageInv, LoadsInOrder, LoadDone, Unsent
  <2>2. \A t \in Slots : request'[t].kind # "load"
    BY <1>1, <1>2 DEF PageInv, LoadsInOrder
  <2> QED
    BY <1>1, <1>2, <2>1, <2>2 DEF PageInv, LoadsInOrder, WriteKinds
<1> QED
  BY <1>4, <1>5, <1>6, <1>7 DEF PageInv

LEMMA WriteDoneKeepsPage ==
  ASSUME PageInv, NEW s \in Slots, WriteDone(s)
  PROVE  PageInv'
<1>1. /\ request[s] \in Request /\ request[s].kind \in WriteKinds /\ ui \in PageUi
      /\ request' = [request EXCEPT ![s] = Flying("load")]
      /\ overtaken' = (overtaken \/ InFlight("load") \ {s} # {})
      /\ UNCHANGED <<page, rows, shown>>
  BY RequestShapes DEF PageInv, PageTyped, WriteDone, LoadedAgain, LoadSent
<1>2. /\ Flying("load") \in Request /\ Flying("load").kind = "load" /\ Flying("load").stage = "sent"
      /\ Flying("load") # Unsent
  BY DEF Flying, Request, Unsent
<1>3. /\ request' \in [Slots -> Request]
      /\ request'[s] = Flying("load") /\ \A t \in Slots : t # s => request'[t] = request[t]
  BY <1>1, <1>2, SlotMoves DEF PageInv
<1>4. /\ ui' \in PageUi /\ ui'.loading
      /\ ui'.saving <=> ui.saving /\ request[s].kind # "save"
      /\ ui'.contributing <=> ui.contributing /\ request[s].kind # "contribute"
      /\ \/ ui'.editing = NewRow
         \/ /\ ui'.editing = ui.editing /\ ui'.touched = ui.touched
            /\ ui'.base = ui.base /\ ui'.form = ui.form
  <2>1. ui' = WriteFlags(request[s].kind)
    BY DEF WriteDone
  <2>2. BlankForm \in Form
    BY DEF BlankForm, Form, CurrencyCodes, Texts
  <2>3. CASE request[s].kind = "save"
    BY <1>1, <2>1, <2>2, <2>3 DEF WriteFlags, Closed, PageUi, PageInv, FlagsFit, FlagFits
  <2>4. CASE request[s].kind = "contribute"
    BY <1>1, <2>1, <2>4 DEF WriteFlags, PageUi
  <2>5. CASE request[s].kind = "remove"
    BY <1>1, <2>1, <2>5 DEF WriteFlags, PageUi
  <2> QED
    BY <1>1, <2>3, <2>4, <2>5 DEF WriteKinds
<1>5. PageTyped'
  BY <1>1, <1>3, <1>4 DEF PageInv, PageTyped
<1>6. FormsFaithful'
  BY <1>1, <1>2, <1>3, <1>4 DEF PageInv, FormsFaithful, FormOf
<1>7. FlagsFit'
  <2>1. FlagFits("save", ui.saving)'
    BY <1>1, <1>2, <1>3, <1>4 DEF PageInv, FlagsFit, FlagFits
  <2>2. FlagFits("contribute", ui.contributing)'
    BY <1>1, <1>2, <1>3, <1>4 DEF PageInv, FlagsFit, FlagFits
  <2> QED
    BY <1>2, <1>3, <2>1, <2>2 DEF FlagsFit
<1>8. LoadsInOrder'
  <2> SUFFICES ASSUME ~overtaken' PROVE LoadsInOrder'
    BY DEF LoadsInOrder
  <2>1. ~overtaken /\ \A t \in Slots : t # s => request[t].kind # "load"
    BY <1>1 DEF PageInv, PageTyped, InFlight
  <2> QED
    BY <1>1, <1>2, <1>3, <2>1 DEF PageInv, LoadsInOrder
<1> QED
  BY <1>5, <1>6, <1>7, <1>8 DEF PageInv

LEMMA WriteFailedKeepsPage ==
  ASSUME PageInv, NEW s \in Slots, WriteFailed(s)
  PROVE  PageInv'
<1>1. /\ request[s] \in Request /\ request[s].kind \in WriteKinds /\ request[s].stage = "failed"
      /\ request' = [request EXCEPT ![s] = Unsent] /\ Unsent \in Request /\ Unsent.kind = "none"
      /\ UNCHANGED <<page, rows, shown, overtaken>>
  BY RequestShapes DEF PageInv, PageTyped, WriteFailed, Request, Unsent
<1>2. /\ request' \in [Slots -> Request]
      /\ request'[s] = Unsent /\ \A t \in Slots : t # s => request'[t] = request[t]
  BY <1>1, SlotMoves DEF PageInv
<1>3. /\ ui' \in PageUi /\ ui'.loading = ui.loading
      /\ ui'.saving <=> ui.saving /\ request[s].kind # "save"
      /\ ui'.contributing <=> ui.contributing /\ request[s].kind # "contribute"
      /\ ui'.editing = ui.editing /\ ui'.touched = ui.touched
      /\ ui'.base = ui.base /\ ui'.form = ui.form
  BY DEF WriteFailed, FlagsAfterError, PageUi, PageInv, PageTyped
<1>4. PageTyped'
  BY <1>1, <1>2, <1>3 DEF PageInv, PageTyped
<1>5. FormsFaithful'
  BY <1>1, <1>2, <1>3 DEF PageInv, FormsFaithful, FormOf
<1>6. FlagsFit'
  <2>1. FlagFits("save", ui.saving)'
    BY <1>1, <1>2, <1>3 DEF PageInv, FlagsFit, FlagFits
  <2>2. FlagFits("contribute", ui.contributing)'
    BY <1>1, <1>2, <1>3 DEF PageInv, FlagsFit, FlagFits
  <2>3. (ui.loading => \E t \in Slots : request[t].kind = "load")'
    BY <1>1, <1>2, <1>3 DEF PageInv, FlagsFit, WriteKinds
  <2> QED
    BY <2>1, <2>2, <2>3 DEF FlagsFit
<1>7. overtaken'
  BY <1>1 DEF PageInv, LoadsInOrder, Unsent, WriteKinds
<1>8. LoadsInOrder'
  BY <1>7 DEF LoadsInOrder
<1> QED
  BY <1>4, <1>5, <1>6, <1>8 DEF PageInv

LEMMA NextPageInv == PageInv /\ [PageNext]_pageVars => PageInv'
<1> SUFFICES ASSUME PageInv, [PageNext]_pageVars PROVE PageInv'
  OBVIOUS
<1>1. CASE OpenCreate \/ TypeInForm \/ CancelForm \/ \E id \in RowIds : OpenEdit(id)
  BY <1>1, FormKeepsPage
<1>2. ASSUME NEW s \in Slots, Save(s) \/ \E id \in RowIds : RemoveRow(s, id) \/ Contribute(s, id)
      PROVE  PageInv'
  BY <1>2, SendKeepsPage
<1>3. ASSUME NEW s \in Slots, SlotStep(s) PROVE PageInv'
  BY <1>3, ServeLoadKeepsPage, ServeWriteKeepsPage, LoseAnswerKeepsPage, LoadDoneKeepsPage,
     WriteDoneKeepsPage, WriteFailedKeepsPage DEF SlotStep
<1>4. CASE UNCHANGED pageVars
  BY <1>4 DEF pageVars, PageInv, PageTyped, FormsFaithful, FormOf, FlagsFit, FlagFits, LoadsInOrder
<1> QED
  BY <1>1, <1>2, <1>3, <1>4 DEF PageNext, UserActs

LEMMA PageInvHolds == PageSpec => []PageInv
<1>1. PageInit => PageInv
  BY InitPage
<1>2. PageInv /\ [PageNext]_pageVars => PageInv'
  BY NextPageInv
<1> QED
  BY <1>1, <1>2, PTL DEF PageSpec

(* A flag that stands for the one request of its kind counts it.           *)
LEMMA FlagCounts ==
  ASSUME NEW kind, NEW flag \in BOOLEAN, FlagFits(kind, flag)
  PROVE  Cardinality(InFlight(kind)) = IF flag THEN 1 ELSE 0
<1>1. CASE flag
  <2>1. PICK s \in Slots : InFlight(kind) = {s}
    BY <1>1 DEF FlagFits, InFlight
  <2> QED
    BY <1>1, <2>1, FS_Singleton
<1>2. CASE ~flag
  <2>1. InFlight(kind) = {}
    BY <1>2 DEF FlagFits, InFlight
  <2> QED
    BY <1>2, <2>1, FS_EmptySet
<1> QED
  BY <1>1, <1>2

(* One click sends one request, no failure locks a button, the progress    *)
(* bar shows only while something loads, and a page with nothing in flight *)
(* shows the rows as they are unless a load overtook another.              *)
THEOREM PagesStayInStep == PageSpec => []PageInStep
<1>1. PageInv => PageInStep
  <2> SUFFICES ASSUME PageInv PROVE PageInStep
    OBVIOUS
  <2>1. ui.saving \in BOOLEAN /\ ui.contributing \in BOOLEAN
    BY DEF PageInv, PageTyped, PageUi
  <2>2. FlagsMatchRequests
    BY <2>1, FlagCounts DEF PageInv, FlagsFit, FlagsMatchRequests, InFlight
  <2>3. ShownIsCurrent
    BY DEF PageInv, LoadsInOrder, ShownIsCurrent, Unsent, WriteKinds
  <2> QED
    BY <2>2, <2>3 DEF PageInStep
<1> QED
  BY <1>1, PageInvHolds, PTL

(* Only the API's execution of a write changes the rows.                   *)
LEMMA RowsMoveServed ==
  ASSUME PageInv, PageNext, rows' # rows
  PROVE  \E s \in Slots : /\ ServeWrite(s)
                          /\ \A t \in Slots : t # s => request'[t] = request[t]
<1>1. PICK s \in Slots : ServeWrite(s)
  BY DEF PageNext, UserActs, SlotStep, OpenCreate, CancelForm, TypeInForm, OpenEdit, Save,
         RemoveRow, Contribute, ServeLoad, LoseAnswer, LoadDone, WriteDone, WriteFailed
<1>2. \A t \in Slots : t # s => request'[t] = request[t]
  BY <1>1 DEF ServeWrite, Answered, PageInv, PageTyped
<1> QED
  BY <1>1, <1>2

(* A form opened and saved as it was leaves a row of any amount, currency, *)
(* text and date as the form shows it, if the row has not changed under    *)
(* the form: its amount, currency and day stay, a goal's date loses its    *)
(* time of day (apps/web features, openEdit and save).                     *)
THEOREM UntouchedSavesAreIdle == PageSpec => UntouchedSaveKeepsRow
<1> DEFINE Keeps(s) ==
              LET r == request[s]
              IN  /\ r.kind = "save" /\ rows' # rows /\ request'[s] # r
                  /\ ~r.touched /\ r.id # NewRow /\ rows[r.id] = r.base
                  => rows'[r.id] = AsShown(r.base)
<1>1. ASSUME PageInv, [PageNext]_pageVars, NEW s \in Slots
      PROVE  Keeps(s)
  <2> DEFINE r == request[s]
  <2> SUFFICES ASSUME r.kind = "save", rows' # rows, request'[s] # r, ~r.touched, r.id # NewRow,
                      rows[r.id] = r.base
               PROVE  rows'[r.id] = AsShown(r.base)
    OBVIOUS
  <2>1. ServeWrite(s)
    BY <1>1, RowsMoveServed DEF pageVars
  <2>2. r.stage = "sent" /\ r.base \in ListRow /\ r.form = FormOf(r.base)
    BY <1>1, <2>1 DEF ServeWrite, PageInv, FormsFaithful
  <2>3. r.id \in RowIds
    <3>1. r \in Request
      BY <1>1 DEF PageInv, PageTyped
    <3> QED
      BY <2>2, <3>1, RequestShapes
  <2>4. rows' = [rows EXCEPT ![r.id] = RowOf(rows[r.id], r.form)]
    BY <2>1 DEF ServeWrite, Executed
  <2>5. RowOf(r.base, FormOf(r.base)) = AsShown(r.base)
    BY <1>1, <2>2, RoundTrip DEF PageInv, PageTyped
  <2> QED
    BY <1>1, <2>2, <2>3, <2>4, <2>5 DEF PageInv, PageTyped, ListRows
<1>2. PageInv /\ [PageNext]_pageVars => [\A s \in Slots : Keeps(s)]_pageVars
  BY <1>1
<1> QED
  BY <1>2, PageInvHolds, PTL DEF PageSpec, UntouchedSaveKeepsRow

-----------------------------------------------------------------------------
(* The transactions page, for any finite set of transactions and any page  *)
(* size. First the listing: a page of an order has as many rows as fit,    *)
(* and pages that follow one another make up a prefix of it.               *)
Pagination(number) == [page |-> number, pageSize |-> PageSize, skip |-> (number - 1) * PageSize]
Prefix(order, n) == {order[i] : i \in DOMAIN order \cap (1 .. n)}

LEMMA SizeOfStretch ==
  ASSUME NEW listed, IsFiniteSet(listed), NEW order \in Bijection(1 .. Cardinality(listed), listed),
         NEW from \in Nat, NEW size \in Nat
  PROVE  LET stretch == {order[i] : i \in DOMAIN order \cap (from + 1 .. from + size)}
         IN  /\ stretch \subseteq listed
             /\ Cardinality(stretch) = Smaller(size, Larger(0, Cardinality(listed) - from))
<1> DEFINE n == Cardinality(listed)
           last == Smaller(n, from + size)
           I == from + 1 .. last
           stretch == {order[i] : i \in DOMAIN order \cap (from + 1 .. from + size)}
<1>1. n \in Nat
  BY FS_CardinalityType
<1>2. /\ order \in [1 .. n -> listed] /\ \A i, j \in 1 .. n : order[i] = order[j] => i = j
  BY Fun_BijectionProperties
<1>3. DOMAIN order \cap (from + 1 .. from + size) = I
  BY <1>1, <1>2 DEF Smaller
<1>4. stretch = {order[i] : i \in I}
  BY <1>3
<1>5. I \subseteq 1 .. n
  BY <1>1 DEF Smaller
<1>6. stretch \subseteq listed
  BY <1>2, <1>4, <1>5
<1> DEFINE f == [i \in I |-> order[i]]
<1>7. f \in Bijection(I, stretch)
  <2>1. f \in [I -> stretch]
    BY <1>4
  <2>2. \A i, j \in I : f[i] = f[j] => i = j
    BY <1>2, <1>5
  <2>3. \A x \in stretch : \E i \in I : f[i] = x
    BY <1>4
  <2> HIDE DEF f, I, stretch
  <2> QED
    BY <2>1, <2>2, <2>3, Fun_IsBij
<1>8. /\ IsFiniteSet(I) /\ Cardinality(I) = IF from + 1 > last THEN 0 ELSE last - (from + 1) + 1
  <2>1. from + 1 \in Int /\ last \in Int
    BY <1>1 DEF Smaller
  <2> HIDE DEF last
  <2> QED
    BY <2>1, FS_Interval
<1>9. Cardinality(stretch) = Cardinality(I)
  <2> HIDE DEF f, I, stretch
  <2> QED
    BY <1>7, <1>8, FS_Bijection DEF ExistsBijection
<1>10. Cardinality(I) = Smaller(size, Larger(0, n - from))
  <2> HIDE DEF I
  <2> QED
    BY <1>1, <1>8 DEF Smaller, Larger
<1> QED
  BY <1>6, <1>9, <1>10

LEMMA PrefixSize ==
  ASSUME NEW listed, IsFiniteSet(listed), NEW order \in Bijection(1 .. Cardinality(listed), listed),
         NEW n \in Nat
  PROVE  Prefix(order, n) \subseteq listed
         /\ Cardinality(Prefix(order, n)) = Smaller(Cardinality(listed), n)
<1>1. Cardinality(listed) \in Nat
  BY FS_CardinalityType
<1>2. Prefix(order, n) = {order[i] : i \in DOMAIN order \cap (0 + 1 .. 0 + n)}
  BY DEF Prefix
<1>3. /\ Prefix(order, n) \subseteq listed
      /\ Cardinality(Prefix(order, n)) = Smaller(n, Larger(0, Cardinality(listed) - 0))
  BY <1>2, SizeOfStretch
<1> QED
  BY <1>1, <1>3 DEF Smaller, Larger

(* Two orders of the same rows begin with the same ones when no two rows   *)
(* have one day.                                                           *)
DaysApart(listed) == \A t, u \in listed : t # u => txns[t].day # txns[u].day
TxnsTyped == txns \in [TxnIds -> TxnRows \cup {NoTxn}]

LEMMA OrderTyped ==
  ASSUME TxnsTyped, NEW type
  PROVE  /\ Matching(type) \in SUBSET TxnIds /\ IsFiniteSet(Matching(type))
         /\ Cardinality(Matching(type)) \in Nat
         /\ \A t \in Matching(type) : txns[t].day \in Nat
         /\ \A order \in Orders(Matching(type)) :
               order \in Bijection(1 .. Cardinality(Matching(type)), Matching(type))
<1>1. Matching(type) \in SUBSET TxnIds
  BY DEF Matching
<1>2. IsFiniteSet(Matching(type)) /\ Cardinality(Matching(type)) \in Nat
  BY <1>1, PagesAssumption, FS_Subset, FS_CardinalityType
<1>3. \A t \in Matching(type) : txns[t].day \in Nat
  BY PagesAssumption DEF Matching, TxnsTyped, TxnRow
<1> QED
  BY <1>1, <1>2, <1>3 DEF Orders

LEMMA SamePrefix ==
  ASSUME TxnsTyped, NEW type, DaysApart(Matching(type)), NEW n \in Nat,
         NEW a \in Orders(Matching(type)), NEW b \in Orders(Matching(type))
  PROVE  Prefix(a, n) = Prefix(b, n)
<1> DEFINE listed == Matching(type)
           m == Cardinality(listed)
           day == [t \in listed |-> txns[t].day]
<1>1. /\ m \in Nat /\ IsFiniteSet(listed) /\ \A t \in listed : txns[t].day \in Nat
      /\ a \in Bijection(1 .. m, listed) /\ b \in Bijection(1 .. m, listed)
  BY OrderTyped
<1>2. /\ day \in [listed -> Nat]
      /\ \A i, j \in 1 .. m : i < j => day[a[i]] >= day[a[j]] /\ day[b[i]] >= day[b[j]]
      /\ \A t, u \in listed : t # u => day[t] # day[u]
  <2>1. DOMAIN a = 1 .. m /\ DOMAIN b = 1 .. m /\ a \in [1 .. m -> listed] /\ b \in [1 .. m -> listed]
    BY <1>1, Fun_BijectionProperties
  <2> QED
    BY <1>1, <2>1 DEF Orders, DaysApart
<1> HIDE DEF listed, m, day
<1>3. /\ a \in [1 .. m -> listed] /\ b \in [1 .. m -> listed]
      /\ \A t \in listed : (\E i \in 1 .. m : a[i] = t) /\ (\E i \in 1 .. m : b[i] = t)
  BY <1>1, Fun_BijectionProperties
<1>4. /\ IsFiniteSet(Prefix(a, n)) /\ IsFiniteSet(Prefix(b, n))
      /\ Cardinality(Prefix(a, n)) = Cardinality(Prefix(b, n))
  BY <1>1, PrefixSize, FS_Subset DEF m
<1>5. CASE ~(Prefix(b, n) \subseteq Prefix(a, n))
  <2>1. PICK j \in 1 .. m : j <= n /\ b[j] \notin Prefix(a, n)
    BY <1>3, <1>5 DEF Prefix
  <2>2. PICK i \in 1 .. m : a[i] = b[j] /\ i > n
    BY <1>1, <1>3, <2>1 DEF Prefix
  <2>3. ASSUME NEW h \in 1 .. m, h <= n PROVE a[h] \in Prefix(b, n)
    <3>1. a[h] # a[i]
      BY <1>1, <1>3, <2>1, <2>2, <2>3 DEF Prefix
    <3>2. PICK l \in 1 .. m : b[l] = a[h]
      BY <1>3
    <3>3. day[a[h]] > day[a[i]]
      <4>1. h < i /\ a[h] \in listed /\ a[i] \in listed
        <5>1. h \in Nat /\ i \in Nat /\ h <= n /\ n < i
          BY <1>1, <2>2, <2>3
        <5> QED
          BY <1>3, <5>1
      <4>2. day[a[h]] >= day[a[i]] /\ day[a[h]] # day[a[i]] /\ day[a[h]] \in Nat /\ day[a[i]] \in Nat
        BY <1>2, <3>1, <4>1
      <4> QED
        BY <4>2
    <3>4. l < j
      <4>1. day[b[l]] > day[b[j]] /\ b[l] \in listed /\ b[j] \in listed
        BY <1>3, <2>2, <3>2, <3>3
      <4>2. ~(j < l) /\ j # l
        BY <1>2, <4>1
      <4> QED
        BY <1>1, <4>2
    <3> QED
      BY <1>1, <1>3, <2>1, <3>2, <3>4 DEF Prefix
  <2>4. Prefix(a, n) \subseteq Prefix(b, n)
    BY <1>3, <2>3 DEF Prefix
  <2> QED
    BY <1>4, <2>4, FS_Subset
<1>6. CASE Prefix(b, n) \subseteq Prefix(a, n)
  BY <1>4, <1>6, FS_Subset
<1> QED
  BY <1>5, <1>6

LEMMA PageProduct ==
  ASSUME NEW number \in Nat \ {0}
  PROVE  /\ number * PageSize \in Nat /\ (number - 1) * PageSize \in Nat
         /\ number * PageSize = (number - 1) * PageSize + PageSize
         /\ number = 1 => (number - 1) * PageSize = 0
BY PagesAssumption

LEMMA PageFollowsPrefix ==
  ASSUME NEW listed, IsFiniteSet(listed), NEW order \in Bijection(1 .. Cardinality(listed), listed),
         NEW number \in Nat \ {0}
  PROVE  /\ Prefix(order, (number - 1) * PageSize) \cup FindManyPaginated(order, Pagination(number))
               = Prefix(order, number * PageSize)
         /\ number = 1 => FindManyPaginated(order, Pagination(number)) = Prefix(order, number * PageSize)
<1> DEFINE k == (number - 1) * PageSize
           l == number * PageSize
<1>1. /\ k \in Nat /\ l \in Nat /\ l = k + PageSize /\ PageSize \in Nat
      /\ number = 1 => k = 0
  BY PageProduct, PagesAssumption, Zenon
<1>2. FindManyPaginated(order, Pagination(number))
        = {order[i] : i \in DOMAIN order \cap (k + 1 .. k + PageSize)}
  BY DEF FindManyPaginated, Pagination
<1> HIDE DEF k, l
<1>3. /\ DOMAIN order \cap (1 .. l)
           = (DOMAIN order \cap (1 .. k)) \cup (DOMAIN order \cap (k + 1 .. k + PageSize))
      /\ number = 1 => k + 1 .. k + PageSize = 1 .. l
  BY <1>1
<1>4. Prefix(order, k) \cup FindManyPaginated(order, Pagination(number)) = Prefix(order, l)
  BY <1>2, <1>3 DEF Prefix
<1> QED
  BY <1>2, <1>3, <1>4 DEF Prefix, k, l

(* What the page and its calls look like.                                  *)
PageMeta == [page : Nat, total : Nat, previous : BOOLEAN, next : BOOLEAN]
PageView ==
    [page : Nat, shown : SUBSET TxnIds, meta : PageMeta \cup {NoTxn}, filter : Filters,
     saving : BOOLEAN, overtaken : BOOLEAN]
PageLoad ==
    [kind : {"load"}, query : [page : Nat, pageSize : {PageSize}, type : Filters],
     items : (SUBSET TxnIds) \cup {NoTxn}, total : Nat \cup {NoTxn}]
WriteToDo == [kind : {"save"}, done : {FALSE}, row : TxnRows]
             \cup [kind : {"remove"}, done : {FALSE}, id : TxnIds]
WriteMade == [kind : {"save", "remove"}, done : {TRUE}]
PageCall == {Empty} \cup PageLoad \cup WriteToDo \cup WriteMade

PagesTyped ==
    /\ TxnsTyped
    /\ view \in PageView
    /\ calls \in [Calls -> PageCall]
    /\ walk \in [page : Nat, seen : SUBSET TxnIds, type : Filters]

LEMMA CallShapes ==
  ASSUME NEW call \in PageCall
  PROVE  /\ call.kind \in {"none", "load", "save", "remove"}
         /\ call.kind = "none" <=> call = Empty
         /\ call.kind = "load" => call \in PageLoad
         /\ call.kind = "save" /\ ~call.done => call.row \in TxnRows
         /\ call.kind = "remove" /\ ~call.done => call.id \in TxnIds
<1>1. CASE call = Empty \/ call \in PageLoad
  BY <1>1 DEF PageLoad, Empty
<1>2. CASE call \in WriteToDo
  <2>1. call.kind \in {"save", "remove"}
    BY <1>2 DEF WriteToDo
  <2>2. /\ call.kind = "save" => call.row \in TxnRows
        /\ call.kind = "remove" => call.id \in TxnIds
    BY <1>2 DEF WriteToDo
  <2> QED
    BY <2>1, <2>2 DEF Empty
<1>3. CASE call \in WriteMade
  <2>1. call.kind \in {"save", "remove"} /\ call.done = TRUE
    BY <1>3 DEF WriteMade
  <2> QED
    BY <2>1 DEF Empty
<1> QED
  BY <1>1, <1>2, <1>3 DEF PageCall

(* What a load has read is what it asked for, and so is what is shown.     *)
LoadRead(call) ==
    LET listed == Matching(call.query.type)
    IN  /\ call.items # NoTxn =>
              \E order \in Orders(listed) :
                  call.items = FindManyPaginated(order, Pagination(call.query.page))
        /\ call.total # NoTxn => call.total = Cardinality(listed)
ShownFrom(type) ==
    LET listed == Matching(type)
    IN  /\ view.page >= 1
        /\ \E order \in Orders(listed) : view.shown = FindManyPaginated(order, Pagination(view.page))
        /\ view.meta = BuildPaginationMeta(Cardinality(listed), view.page, PageSize)

Waiting(c) == calls[c].kind = "load"
Made(c) == calls[c].kind \in {"save", "remove"} /\ calls[c].done

(* While nothing is overtaken at most one load is under way, for the page  *)
(* the page is on; and unless a write is about to load it again, that      *)
(* load, or else the page, has the rows as they are.                       *)
PageStanding ==
    ~view.overtaken =>
        /\ \A c, d \in Calls : Waiting(c) /\ Waiting(d) => c = d
        /\ \A c \in Calls : Waiting(c) => calls[c].query.page = view.page
        /\ (\A c \in Calls : ~Made(c)) =>
              /\ \A c \in Calls : Waiting(c) => LoadRead(calls[c])
              /\ (\A c \in Calls : ~Waiting(c)) => ShownFrom(walk.type)

(* A walk has seen the first rows of an order.                             *)
WalkKept ==
    LET listed == Matching(walk.type)
    IN  walk.page > 0 =>
            /\ view.meta = BuildPaginationMeta(Cardinality(listed), walk.page, PageSize)
            /\ DaysApart(listed) =>
                  \E order \in Orders(listed) : walk.seen = Prefix(order, walk.page * PageSize)

PagesInv == PagesTyped /\ PageStanding /\ WalkKept

LEMMA InitPages == PagesInit => PagesInv
<1> SUFFICES ASSUME PagesInit PROVE PagesInv
  OBVIOUS
<1> DEFINE load == [kind |-> "load",
                    query |-> [page |-> 1, pageSize |-> PageSize, type |-> AnyType],
                    items |-> NoTxn, total |-> NoTxn]
<1>1. PICK c \in Calls : calls = [d \in Calls |-> IF d # c THEN Empty ELSE load]
  BY DEF PagesInit
<1>2. load \in PageCall /\ load.kind = "load" /\ Empty \in PageCall /\ Empty.kind = "none"
  BY PagesAssumption DEF PageCall, PageLoad, Filters, Empty
<1>3. LoadRead(load)
  BY DEF LoadRead
<1>4. load.query.page = 1
  OBVIOUS
<1> HIDE DEF load
<1>5. PagesTyped
  BY <1>1, <1>2 DEF PagesInit, PagesTyped, TxnsTyped, PageView, Filters, NoWalk
<1>6. PageStanding
  BY <1>1, <1>2, <1>3, <1>4 DEF PagesInit, PageStanding, Waiting
<1>7. WalkKept
  BY DEF PagesInit, WalkKept, NoWalk
<1> QED
  BY <1>5, <1>6, <1>7 DEF PagesInv

(* The history of a walk stands while neither it nor the rows nor the meta *)
(* changes, and so does what is shown.                                     *)
LEMMA WalkStands ==
  ASSUME WalkKept, UNCHANGED <<txns, walk>>, view'.meta = view.meta
  PROVE  WalkKept'
  BY DEF WalkKept, Matching, Orders, DaysApart

LEMMA ShownStands ==
  ASSUME ShownFrom(walk.type), UNCHANGED <<txns, walk>>, view'.meta = view.meta,
         view'.page = view.page, view'.shown = view.shown
  PROVE  ShownFrom(walk.type)'
  BY DEF ShownFrom, Matching, Orders

LEMMA ReadStands ==
  ASSUME NEW c, LoadRead(calls[c]), UNCHANGED txns, calls'[c] = calls[c]
  PROVE  LoadRead(calls[c])'
  BY DEF LoadRead, Matching, Orders

LEMMA CallMoves ==
  ASSUME PagesTyped, NEW c \in Calls, NEW call \in PageCall, calls' = [calls EXCEPT ![c] = call]
  PROVE  /\ calls' \in [Calls -> PageCall]
         /\ calls'[c] = call /\ \A d \in Calls : d # c => calls'[d] = calls[d]
  BY DEF PagesTyped

LEMMA TypeFilterKeepsPages ==
  ASSUME PagesInv, NEW type \in Filters, TypeFilter(type)
  PROVE  PagesInv'
<1>1. /\ view \in PageView /\ UNCHANGED <<txns, calls, walk>>
      /\ view' = [view EXCEPT !.filter = type]
  BY DEF PagesInv, PagesTyped, TypeFilter
<1>2. /\ view' \in PageView /\ view'.meta = view.meta /\ view'.page = view.page
      /\ view'.shown = view.shown /\ view'.overtaken = view.overtaken
  BY <1>1 DEF PageView
<1>3. PagesTyped'
  BY <1>1, <1>2 DEF PagesInv, PagesTyped, TxnsTyped
<1>4. PageStanding'
  BY <1>1, <1>2, ShownStands, ReadStands DEF PagesInv, PageStanding, Waiting, Made
<1> QED
  BY <1>1, <1>2, <1>3, <1>4, WalkStands DEF PagesInv

(* A write that is sent waits beside what is under way.                    *)
LEMMA SendWriteKeepsPages ==
  ASSUME PagesInv, NEW c \in Calls,
         (\E row \in TxnRows : SaveTransaction(c, row)) \/ \E t \in TxnIds : RemoveTransaction(c, t)
  PROVE  PagesInv'
<1>1. /\ view \in PageView /\ UNCHANGED <<txns, walk>> /\ calls[c] = Empty /\ Empty.kind = "none"
  BY DEF PagesInv, PagesTyped, SaveTransaction, RemoveTransaction, Free, Empty
<1>2. PICK call \in PageCall : /\ calls' = [calls EXCEPT ![c] = call]
                               /\ call.kind \in {"save", "remove"} /\ ~call.done
  <2>1. CASE \E row \in TxnRows : SaveTransaction(c, row)
    <3>1. PICK row \in TxnRows : SaveTransaction(c, row)
      BY <2>1
    <3> DEFINE call == [kind |-> "save", done |-> FALSE, row |-> row]
    <3>2. call \in PageCall /\ call.kind = "save" /\ ~call.done
      BY DEF PageCall, WriteToDo
    <3> QED
      BY <3>1, <3>2 DEF SaveTransaction
  <2>2. CASE \E t \in TxnIds : RemoveTransaction(c, t)
    <3>1. PICK t \in TxnIds : RemoveTransaction(c, t)
      BY <2>2
    <3> DEFINE call == [kind |-> "remove", done |-> FALSE, id |-> t]
    <3>2. call \in PageCall /\ call.kind = "remove" /\ ~call.done
      BY DEF PageCall, WriteToDo
    <3> QED
      BY <3>1, <3>2 DEF RemoveTransaction
  <2> QED
    BY <2>1, <2>2
<1>3. /\ view' \in PageView /\ view'.meta = view.meta /\ view'.page = view.page
      /\ view'.shown = view.shown /\ view'.overtaken = view.overtaken
  BY <1>1 DEF PageView, SaveTransaction, RemoveTransaction
<1>4. /\ calls' \in [Calls -> PageCall]
      /\ calls'[c] = call /\ \A d \in Calls : d # c => calls'[d] = calls[d]
  BY <1>2, CallMoves DEF PagesInv
<1>5. PagesTyped'
  BY <1>1, <1>3, <1>4 DEF PagesInv, PagesTyped, TxnsTyped
<1>6. /\ \A d \in Calls : Waiting(d)' <=> Waiting(d)
      /\ \A d \in Calls : Made(d)' <=> Made(d)
      /\ \A d \in Calls : Waiting(d) => d # c
  BY <1>1, <1>2, <1>4 DEF Waiting, Made
<1>7. PageStanding'
  <2> SUFFICES ASSUME ~view'.overtaken PROVE PageStanding'
    BY DEF PageStanding
  <2>1. \A d, e \in Calls : Waiting(d)' /\ Waiting(e)' => d = e
    BY <1>3, <1>6 DEF PagesInv, PageStanding
  <2>2. \A d \in Calls : Waiting(d)' => calls'[d].query.page = view'.page
    BY <1>3, <1>4, <1>6 DEF PagesInv, PageStanding
  <2>3. ASSUME \A d \in Calls : ~Made(d)'
        PROVE  /\ \A d \in Calls : Waiting(d)' => LoadRead(calls[d])'
               /\ (\A d \in Calls : ~Waiting(d)') => ShownFrom(walk.type)'
    <3>1. \A d \in Calls : ~Made(d)
      BY <1>6, <2>3
    <3>2. ASSUME NEW d \in Calls, Waiting(d)' PROVE LoadRead(calls[d])'
      BY <1>1, <1>3, <1>4, <1>6, <3>1, <3>2, ReadStands DEF PagesInv, PageStanding
    <3>3. ASSUME \A d \in Calls : ~Waiting(d)' PROVE ShownFrom(walk.type)'
      BY <1>1, <1>3, <1>6, <3>1, <3>3, ShownStands DEF PagesInv, PageStanding
    <3> QED
      BY <3>2, <3>3
  <2> QED
    BY <2>1, <2>2, <2>3 DEF PageStanding
<1> QED
  BY <1>1, <1>3, <1>5, <1>7, WalkStands DEF PagesInv

(* Whatever was shown and read before, a load sent alone starts anew.      *)
LEMMA LoadKeepsPages ==
  ASSUME PagesInv, NEW c \in Calls, NEW v \in PageView, v.meta = view.meta, LoadFrom(c, v),
         UNCHANGED <<txns, walk>>
  PROVE  PagesInv'
<1> DEFINE load == [kind |-> "load",
                    query |-> [page |-> v.page, pageSize |-> PageSize, type |-> v.filter],
                    items |-> NoTxn, total |-> NoTxn]
<1>1. load \in PageCall /\ load.kind = "load"
  BY PagesAssumption DEF PageCall, PageLoad, PageView
<1>2. load.query.page = v.page /\ load.items = NoTxn /\ load.total = NoTxn
  OBVIOUS
<1>3. calls' = [calls EXCEPT ![c] = load] /\ view' = [v EXCEPT !.overtaken = Others(c) # {}]
  BY DEF LoadFrom
<1> HIDE DEF load
<1>4. /\ view' \in PageView /\ view'.meta = view.meta /\ view'.page = v.page
      /\ view'.overtaken <=> Others(c) # {}
  BY <1>3 DEF PageView
<1>5. /\ calls' \in [Calls -> PageCall]
      /\ calls'[c] = load /\ \A d \in Calls : d # c => calls'[d] = calls[d]
  BY <1>1, <1>3, CallMoves DEF PagesInv
<1>6. PagesTyped'
  BY <1>4, <1>5 DEF PagesInv, PagesTyped, TxnsTyped
<1>7. PageStanding'
  <2> SUFFICES ASSUME ~view'.overtaken PROVE PageStanding'
    BY DEF PageStanding
  <2>1. \A d \in Calls : d # c => calls'[d] = Empty
    BY <1>4, <1>5 DEF Others, Free
  <2>2. \A d \in Calls : Waiting(d)' => d = c
    BY <2>1 DEF Waiting, Empty
  <2>3. Waiting(c)' /\ LoadRead(calls[c])'
    BY <1>1, <1>2, <1>5 DEF Waiting, LoadRead
  <2> QED
    BY <1>2, <1>4, <1>5, <2>2, <2>3 DEF PageStanding
<1> QED
  BY <1>4, <1>6, <1>7, WalkStands DEF PagesInv

LEMMA ButtonsKeepPages ==
  ASSUME PagesInv, NEW c \in Calls,
         ApplyFilters(c) \/ PreviousPage(c) \/ NextPage(c) \/ TransactionWritten(c)
  PROVE  PagesInv'
<1>1. view \in PageView
  BY DEF PagesInv, PagesTyped
<1>2. CASE ApplyFilters(c)
  <2>1. [view EXCEPT !.page = 1] \in PageView /\ [view EXCEPT !.page = 1].meta = view.meta
    BY <1>1 DEF PageView
  <2> QED
    BY <1>2, <2>1, LoadKeepsPages DEF ApplyFilters
<1>3. CASE PreviousPage(c)
  <2>1. /\ [view EXCEPT !.page = @ - 1] \in PageView
        /\ [view EXCEPT !.page = @ - 1].meta = view.meta
    BY <1>1, <1>3 DEF PageView, PreviousPage
  <2> QED
    BY <1>3, <2>1, LoadKeepsPages DEF PreviousPage
<1>4. CASE NextPage(c)
  <2>1. /\ [view EXCEPT !.page = @ + 1] \in PageView
        /\ [view EXCEPT !.page = @ + 1].meta = view.meta
    BY <1>1 DEF PageView
  <2> QED
    BY <1>4, <2>1, LoadKeepsPages DEF NextPage, LoadNext
<1>5. CASE TransactionWritten(c)
  <2> DEFINE v == IF calls[c].kind = "remove" THEN view
                  ELSE [view EXCEPT !.saving = FALSE, !.page = 1]
  <2>1. v \in PageView /\ v.meta = view.meta
    BY <1>1 DEF PageView
  <2>2. LoadFrom(c, v) /\ UNCHANGED <<txns, walk>>
    BY <1>5 DEF TransactionWritten
  <2> HIDE DEF v
  <2> QED
    BY <2>1, <2>2, LoadKeepsPages
<1> QED
  BY <1>2, <1>3, <1>4, <1>5

(* The API reads and counts what the load asks for.                        *)
LEMMA Resolved ==
  ASSUME NEW query \in Query, query.pageSize = PageSize
  PROVE  ResolvePagination(query) = Pagination(query.page) /\ query.page \in Nat \ {0}
<1>1. /\ query.page \in Nat \ {0} /\ query.pageSize \in 1 .. 100
  BY PagesAssumption DEF Query, MaxPageSize
<1>2. Larger(1, query.page) = query.page
  BY <1>1 DEF Larger
<1>3. Smaller(MaxPageSize, Larger(1, query.pageSize)) = query.pageSize
  BY <1>1 DEF Smaller, Larger, MaxPageSize
<1>4. (IF query.pageSize = 0 THEN DefaultPageSize ELSE query.pageSize) = query.pageSize
  BY <1>1
<1> QED
  BY <1>1, <1>2, <1>3, <1>4 DEF ResolvePagination, Pagination

LEMMA ReadingKeepsPages ==
  ASSUME PagesInv, NEW c \in Calls, ReadRows(c) \/ CountRows(c)
  PROVE  PagesInv'
<1> DEFINE load == calls[c]
           listed == Matching(load.query.type)
<1>1. /\ load \in PageLoad /\ load.kind = "load" /\ load.query \in Query
      /\ UNCHANGED <<txns, view, walk>>
  BY CallShapes DEF PagesInv, PagesTyped, ReadRows, CountRows, Loading
<1>2. /\ load.query \in [page : Nat, pageSize : {PageSize}, type : Filters]
      /\ load.query.pageSize = PageSize
  BY <1>1 DEF PageLoad
<1>3. TxnsTyped
  BY DEF PagesInv, PagesTyped
<1>4. PICK after \in PageLoad :
        /\ calls' = [calls EXCEPT ![c] = after]
        /\ after.query = load.query
        /\ LoadRead(load) => LoadRead(after)
  <2>1. CASE ReadRows(c)
    <3>1. PICK order \in Orders(listed) :
            calls' = [calls EXCEPT ![c].items = FindManyPaginated(order, ResolvePagination(load.query))]
      BY <2>1 DEF ReadRows
    <3> DEFINE items == FindManyPaginated(order, ResolvePagination(load.query))
               after == [load EXCEPT !.items = items]
    <3>2. items = FindManyPaginated(order, Pagination(load.query.page))
      BY <1>1, <1>2, Resolved
    <3>3. items \in SUBSET TxnIds
      <4>1. order \in Bijection(1 .. Cardinality(listed), listed) /\ listed \in SUBSET TxnIds
        BY <1>3, OrderTyped
      <4> HIDE DEF listed
      <4>2. order \in [1 .. Cardinality(listed) -> listed]
        BY <4>1, Fun_BijectionProperties
      <4> QED
        BY <4>1, <4>2 DEF FindManyPaginated
    <3> HIDE DEF items
    <3>4. /\ after \in PageLoad /\ after.query = load.query /\ after.items = items
          /\ after.total = load.total
      BY <1>1, <3>3 DEF PageLoad
    <3>5. calls' = [calls EXCEPT ![c] = after]
      BY <3>1 DEF items
    <3>6. LoadRead(load) => LoadRead(after)
      BY <3>1, <3>2, <3>4 DEF LoadRead
    <3> QED
      BY <3>4, <3>5, <3>6
  <2>2. CASE CountRows(c)
    <3> DEFINE after == [load EXCEPT !.total = Cardinality(listed)]
    <3>1. Cardinality(listed) \in Nat
      BY <1>3, OrderTyped
    <3>2. /\ after \in PageLoad /\ after.query = load.query /\ after.items = load.items
          /\ after.total = Cardinality(listed)
      BY <1>1, <3>1 DEF PageLoad
    <3>3. calls' = [calls EXCEPT ![c] = after]
      BY <2>2 DEF CountRows
    <3>4. LoadRead(load) => LoadRead(after)
      BY <3>2 DEF LoadRead
    <3> QED
      BY <3>2, <3>3, <3>4
  <2> QED
    BY <2>1, <2>2
<1>5. after \in PageCall /\ after.kind = "load"
  BY DEF PageCall, PageLoad
<1>6. /\ calls' \in [Calls -> PageCall]
      /\ calls'[c] = after /\ \A d \in Calls : d # c => calls'[d] = calls[d]
  BY <1>4, <1>5, CallMoves DEF PagesInv
<1>7. PagesTyped'
  BY <1>1, <1>6 DEF PagesInv, PagesTyped, TxnsTyped
<1>8. /\ \A d \in Calls : (Waiting(d)' <=> Waiting(d)) /\ (Made(d)' <=> Made(d))
      /\ Waiting(c)
  BY <1>1, <1>5, <1>6 DEF Waiting, Made
<1>9. PageStanding'
  <2> SUFFICES ASSUME ~view'.overtaken PROVE PageStanding'
    BY DEF PageStanding
  <2>1. \A d, e \in Calls : Waiting(d)' /\ Waiting(e)' => d = e
    BY <1>1, <1>8 DEF PagesInv, PageStanding
  <2>2. \A d \in Calls : Waiting(d)' => calls'[d].query.page = view'.page
    BY <1>1, <1>4, <1>6, <1>8 DEF PagesInv, PageStanding
  <2>3. ASSUME \A d \in Calls : ~Made(d)', NEW d \in Calls, Waiting(d)'
        PROVE  LoadRead(calls[d])'
    <3>1. d = c
      BY <1>8, <2>1, <2>3
    <3>2. LoadRead(after)
      BY <1>1, <1>4, <1>8, <2>3 DEF PagesInv, PageStanding
    <3>3. LoadRead(after)'
      BY <1>1, <3>2 DEF LoadRead, Matching, Orders
    <3> QED
      BY <1>6, <3>1, <3>3 DEF LoadRead, Matching, Orders
  <2> QED
    BY <1>8, <2>1, <2>2, <2>3 DEF PageStanding
<1> QED
  BY <1>1, <1>7, <1>9, WalkStands DEF PagesInv

(* A write that is executed ends the walk, and will have the page loaded   *)
(* again.                                                                  *)
LEMMA WriteKeepsPages ==
  ASSUME PagesInv, NEW c \in Calls, WriteRows(c)
  PROVE  PagesInv'
<1>1. /\ calls[c] \in PageCall /\ calls[c].kind \in {"save", "remove"} /\ ~calls[c].done
      /\ UNCHANGED view /\ walk' = [NoWalk EXCEPT !.type = walk.type]
  BY DEF PagesInv, PagesTyped, WriteRows, Writing
<1> DEFINE made == [kind |-> calls[c].kind, done |-> TRUE]
<1>2. calls' = [calls EXCEPT ![c] = made]
  BY DEF WriteRows
<1>3. made \in PageCall /\ made.kind \in {"save", "remove"} /\ made.done
  BY <1>1 DEF PageCall, WriteMade
<1> HIDE DEF made
<1>4. /\ calls' \in [Calls -> PageCall]
      /\ calls'[c] = made /\ \A d \in Calls : d # c => calls'[d] = calls[d]
  BY <1>2, <1>3, CallMoves DEF PagesInv
<1>5. TxnsTyped'
  <2>1. TxnsTyped
    BY DEF PagesInv, PagesTyped
  <2>2. CASE calls[c].kind = "save"
    BY <1>1, <2>1, <2>2, CallShapes DEF WriteRows, TxnsTyped
  <2>3. CASE calls[c].kind = "remove"
    BY <1>1, <2>1, <2>3, CallShapes DEF WriteRows, TxnsTyped
  <2> QED
    BY <1>1, <2>2, <2>3
<1>6. walk' \in [page : Nat, seen : SUBSET TxnIds, type : Filters] /\ walk'.page = 0
  BY <1>1 DEF PagesInv, PagesTyped, NoWalk
<1>7. PagesTyped'
  BY <1>1, <1>4, <1>5, <1>6 DEF PagesInv, PagesTyped
<1>8. PageStanding'
  <2>1. Made(c)' /\ \A d \in Calls : Waiting(d)' <=> Waiting(d)
    BY <1>1, <1>3, <1>4 DEF Made, Waiting
  <2>2. \A d \in Calls : Waiting(d) => d # c
    BY <1>1 DEF Waiting
  <2>3. ~view'.overtaken =>
          /\ \A d, e \in Calls : Waiting(d)' /\ Waiting(e)' => d = e
          /\ \A d \in Calls : Waiting(d)' => calls'[d].query.page = view'.page
    BY <1>1, <1>4, <2>1, <2>2 DEF PagesInv, PageStanding
  <2> QED
    BY <2>1, <2>3 DEF PageStanding
<1>9. WalkKept'
  BY <1>6 DEF WalkKept
<1> QED
  BY <1>7, <1>8, <1>9 DEF PagesInv

LEMMA FailureKeepsPages ==
  ASSUME PagesInv, NEW c \in Calls, CallFailed(c)
  PROVE  PagesInv'
<1>1. /\ calls' = [calls EXCEPT ![c] = Empty] /\ Empty \in PageCall
      /\ calls[c] \in PageCall /\ calls[c] # Empty
      /\ view \in PageView /\ UNCHANGED <<txns, walk>>
  BY DEF CallFailed, PageCall, PagesInv, PagesTyped, Free
<1>2. calls' \in [Calls -> PageCall]
  BY <1>1, CallMoves DEF PagesInv
<1>3. calls[c].kind \in {"load", "save", "remove"}
  BY <1>1, CallShapes
<1>4. view' \in PageView /\ view'.overtaken /\ view'.meta = view.meta
  <2>1. CASE calls[c].kind = "save"
    BY <1>1, <2>1 DEF PageView, CallFailed
  <2>2. CASE calls[c].kind \in {"load", "remove"}
    BY <1>1, <2>2 DEF PageView, CallFailed
  <2> QED
    BY <1>3, <2>1, <2>2
<1>5. PagesTyped'
  BY <1>1, <1>2, <1>4 DEF PagesInv, PagesTyped, TxnsTyped
<1> QED
  BY <1>1, <1>4, <1>5, WalkStands DEF PagesInv, PageStanding

(* The page is shown: undisturbed, it is what its load read, and the walk  *)
(* goes one page further or starts anew.                                   *)
LEMMA ShowKeepsPages ==
  ASSUME PagesInv, NEW c \in Calls, ShowPage(c)
  PROVE  PagesInv'
<1> DEFINE load == calls[c]
           query == calls[c].query
           listed == Matching(query.type)
           meta == BuildPaginationMeta(load.total, query.page, PageSize)
<1>1. /\ load \in PageLoad /\ query \in Query /\ query.pageSize = PageSize
      /\ query.type \in Filters /\ Waiting(c)
      /\ load.items \in SUBSET TxnIds /\ load.items # NoTxn
      /\ load.total \in Nat /\ load.total # NoTxn
      /\ calls' = [calls EXCEPT ![c] = Empty] /\ Empty \in PageCall /\ Empty.kind = "none"
      /\ UNCHANGED txns
  <2>1. load \in PageLoad
    BY CallShapes DEF PagesInv, PagesTyped, ShowPage, Loading
  <2>2. load.query \in [page : Nat, pageSize : {PageSize}, type : Filters]
    BY <2>1 DEF PageLoad
  <2> QED
    BY <2>1, <2>2 DEF PageLoad, ShowPage, Loading, Waiting, PageCall, Empty
<1>2. ResolvePagination(query) = Pagination(query.page) /\ query.page \in Nat \ {0}
  BY <1>1, Resolved
<1>3. /\ view' = [view EXCEPT !.shown = load.items, !.meta = meta]
      /\ walk' = Walked(c, query.page, load.items)
  BY <1>2 DEF ShowPage, Pagination
<1>4. meta \in PageMeta
  BY <1>1, <1>2 DEF BuildPaginationMeta, PageMeta
<1> HIDE DEF meta
<1>5. /\ view' \in PageView /\ view'.shown = load.items /\ view'.meta = meta
      /\ view'.page = view.page /\ view'.overtaken = view.overtaken
  BY <1>1, <1>3, <1>4 DEF PagesInv, PagesTyped, PageView
<1>6. /\ calls' \in [Calls -> PageCall]
      /\ calls'[c] = Empty /\ \A d \in Calls : d # c => calls'[d] = calls[d]
  BY <1>1, CallMoves DEF PagesInv
<1>7. walk \in [page : Nat, seen : SUBSET TxnIds, type : Filters]
  BY DEF PagesInv, PagesTyped
<1> DEFINE disturbed == Others(c) # {} \/ view.overtaken
           starts == ~disturbed /\ query.page = 1
           goes == ~disturbed /\ query.page > 1 /\ query.page = walk.page + 1 /\ query.type = walk.type
<1>8. /\ walk' \in [page : Nat, seen : SUBSET TxnIds, type : Filters] /\ walk'.type = query.type
      /\ starts => walk'.page = query.page /\ walk'.seen = load.items
      /\ goes => walk'.page = query.page /\ walk'.seen = walk.seen \cup load.items
      /\ walk'.page > 0 => starts \/ goes
  <2>1. CASE disturbed
    BY <1>1, <1>3, <2>1 DEF Walked, NoWalk
  <2>2. CASE starts
    BY <1>1, <1>2, <1>3, <2>2 DEF Walked
  <2>3. CASE goes
    <3>1. walk' = [walk EXCEPT !.page = query.page, !.seen = @ \cup load.items]
      BY <1>3, <2>3 DEF Walked
    <3>2. /\ walk'.page = query.page /\ walk'.seen = walk.seen \cup load.items
          /\ walk'.type = walk.type
          /\ walk' \in [page : Nat, seen : SUBSET TxnIds, type : Filters]
      BY <1>1, <1>2, <1>7, <3>1
    <3> QED
      BY <2>3, <3>2
  <2>4. CASE ~disturbed /\ ~starts /\ ~goes
    BY <1>1, <1>2, <1>3, <2>4 DEF Walked, NoWalk
  <2> QED
    BY <2>1, <2>2, <2>3, <2>4
<1>9. PagesTyped'
  BY <1>1, <1>5, <1>6, <1>8 DEF PagesInv, PagesTyped, TxnsTyped
<1>10. ASSUME ~view.overtaken, \A d \in Calls : ~Made(d)
       PROVE  /\ query.page = view.page /\ meta = BuildPaginationMeta(Cardinality(listed), query.page, PageSize)
              /\ \E order \in Orders(listed) : load.items = FindManyPaginated(order, Pagination(query.page))
  BY <1>1, <1>10 DEF PagesInv, PageStanding, LoadRead, meta
<1>11. /\ Matching(walk.type)' = listed /\ Orders(Matching(walk.type))' = Orders(listed)
       /\ DaysApart(Matching(walk.type))' <=> DaysApart(listed)
  <2>1. Matching(walk.type)' = listed
    BY <1>1, <1>8 DEF Matching
  <2> QED
    BY <1>1, <2>1 DEF Orders, DaysApart
<1>12. PageStanding'
  <2> SUFFICES ASSUME ~view'.overtaken PROVE PageStanding'
    BY DEF PageStanding
  <2>1. \A d \in Calls : ~Waiting(d)'
    BY <1>1, <1>5, <1>6 DEF PagesInv, PageStanding, Waiting
  <2>2. ASSUME \A d \in Calls : ~Made(d)' PROVE ShownFrom(walk.type)'
    <3>1. \A d \in Calls : ~Made(d)
      BY <1>1, <1>6, <2>2 DEF Made, Waiting
    <3>2. /\ query.page = view.page /\ meta = BuildPaginationMeta(Cardinality(listed), query.page, PageSize)
          /\ \E order \in Orders(listed) : load.items = FindManyPaginated(order, Pagination(query.page))
      BY <1>5, <1>10, <3>1
    <3> QED
      BY <1>2, <1>5, <1>11, <3>2 DEF ShownFrom
  <2> QED
    BY <2>1, <2>2 DEF PageStanding
<1>13. WalkKept'
  <2> SUFFICES ASSUME walk'.page > 0 PROVE WalkKept'
    BY DEF WalkKept
  <2>1. /\ ~view.overtaken /\ \A d \in Calls : ~Made(d)
        /\ (starts \/ goes) /\ walk'.page = query.page
    BY <1>1, <1>8 DEF Others, Free, Made, Waiting, Empty
  <2>2. meta = BuildPaginationMeta(Cardinality(listed), query.page, PageSize)
    BY <1>10, <2>1
  <2>3. PICK order \in Orders(listed) : load.items = FindManyPaginated(order, Pagination(query.page))
    BY <1>10, <2>1
  <2>4. IsFiniteSet(listed) /\ order \in Bijection(1 .. Cardinality(listed), listed) /\ TxnsTyped
    BY OrderTyped DEF PagesInv, PagesTyped
  <2>5. ASSUME DaysApart(listed) PROVE walk'.seen = Prefix(order, query.page * PageSize)
    <3>1. CASE starts
      <4> HIDE DEF listed
      <4> QED
        BY <1>2, <1>8, <2>3, <2>4, <3>1, PageFollowsPrefix
    <3>2. CASE goes
      <4>1. /\ walk.page = query.page - 1 /\ walk.page > 0 /\ listed = Matching(walk.type)
        BY <1>2, <1>7, <3>2
      <4>2. PICK before \in Orders(listed) : walk.seen = Prefix(before, (query.page - 1) * PageSize)
        BY <2>5, <4>1 DEF PagesInv, WalkKept
      <4>3. (query.page - 1) * PageSize \in Nat
        BY <1>2, PageProduct
      <4>4. Prefix(before, (query.page - 1) * PageSize) = Prefix(order, (query.page - 1) * PageSize)
        BY <2>4, <2>5, <4>3, SamePrefix
      <4>5. walk'.seen = Prefix(order, (query.page - 1) * PageSize) \cup load.items
        BY <1>8, <3>2, <4>2, <4>4
      <4> HIDE DEF listed
      <4> QED
        BY <1>2, <2>3, <2>4, <4>5, PageFollowsPrefix
    <3> QED
      BY <2>1, <3>1, <3>2
  <2> QED
    BY <1>5, <1>11, <2>1, <2>2, <2>5 DEF WalkKept
<1> QED
  BY <1>9, <1>12, <1>13 DEF PagesInv

LEMMA NextPages == PagesInv /\ [PagesNext]_pagesVars => PagesInv'
<1> SUFFICES ASSUME PagesInv, [PagesNext]_pagesVars PROVE PagesInv'
  OBVIOUS
<1>1. ASSUME NEW type \in Filters, TypeFilter(type) PROVE PagesInv'
  BY <1>1, TypeFilterKeepsPages
<1>2. ASSUME NEW c \in Calls, CallStep(c) PROVE PagesInv'
  BY <1>2, ButtonsKeepPages, SendWriteKeepsPages, ReadingKeepsPages, WriteKeepsPages,
     ShowKeepsPages, FailureKeepsPages DEF CallStep
<1>3. CASE UNCHANGED pagesVars
  <2>1. UNCHANGED <<txns, view, calls, walk>>
    BY <1>3 DEF pagesVars
  <2>2. PagesTyped' /\ WalkKept'
    BY <2>1, WalkStands DEF PagesInv, PagesTyped, TxnsTyped
  <2>3. PageStanding'
    BY <2>1, ReadStands, ShownStands DEF PagesInv, PageStanding, Waiting, Made
  <2> QED
    BY <2>2, <2>3 DEF PagesInv
<1> QED
  BY <1>1, <1>2, <1>3 DEF PagesNext

LEMMA PagesInvHolds == PagesSpec => []PagesInv
<1>1. PagesInit => PagesInv
  BY InitPages
<1>2. PagesInv /\ [PagesNext]_pagesVars => PagesInv'
  BY NextPages
<1> QED
  BY <1>1, <1>2, PTL DEF PagesSpec

(* With every answer in and nothing overtaken, the page shows as many rows *)
(* as the page it says it is on has, and counts from that page.            *)
THEOREM ShownPageIsAsked == PagesSpec => []PageShownIsPageAsked
<1>1. PagesInv => PageShownIsPageAsked
  <2> SUFFICES ASSUME PagesInv, \A c \in Calls : Free(c), ~view.overtaken
               PROVE  LET listed == Matching(walk.type)
                      IN  /\ view.meta.page = view.page /\ view.page >= 1
                          /\ view.meta.total = Cardinality(listed)
                          /\ view.shown \subseteq listed
                          /\ Cardinality(view.shown)
                                = Smaller(PageSize, Larger(0, Cardinality(listed) - (view.page - 1) * PageSize))
    BY DEF PageShownIsPageAsked
  <2> DEFINE listed == Matching(walk.type)
             skip == (view.page - 1) * PageSize
  <2>1. ShownFrom(walk.type)
    BY DEF PagesInv, PageStanding, Waiting, Made, Free, Empty
  <2>2. PICK order \in Orders(listed) : view.shown = FindManyPaginated(order, Pagination(view.page))
    BY <2>1 DEF ShownFrom
  <2>3. view.page \in Nat \ {0} /\ view.meta = BuildPaginationMeta(Cardinality(listed), view.page, PageSize)
    BY <2>1 DEF ShownFrom, PagesInv, PagesTyped, PageView
  <2>4. view.meta.page = view.page /\ view.meta.total = Cardinality(listed)
    BY <2>3 DEF BuildPaginationMeta
  <2>5. IsFiniteSet(listed) /\ order \in Bijection(1 .. Cardinality(listed), listed)
    BY OrderTyped DEF PagesInv, PagesTyped
  <2>6. skip \in Nat /\ PageSize \in Nat
    BY <2>3, PageProduct, PagesAssumption
  <2>7. view.shown = {order[i] : i \in DOMAIN order \cap (skip + 1 .. skip + PageSize)}
    BY <2>2 DEF FindManyPaginated, Pagination
  <2>8. /\ view.shown \subseteq listed
        /\ Cardinality(view.shown) = Smaller(PageSize, Larger(0, Cardinality(listed) - skip))
    <3> HIDE DEF listed, skip
    <3> QED
      BY <2>5, <2>6, <2>7, SizeOfStretch
  <2> QED
    BY <2>3, <2>4, <2>8
<1> QED
  BY <1>1, PagesInvHolds, PTL

(* Pages enough for all the rows: the meta's ceiling division.             *)
LEMMA LastPageReached ==
  ASSUME NEW n \in Nat, NEW number \in Nat \ {0}, ~BuildPaginationMeta(n, number, PageSize).next
  PROVE  n <= number * PageSize
<1> DEFINE pages == (n + PageSize - 1) \div PageSize
<1>1. PageSize \in Nat \ {0} /\ pages \in Nat
  BY PagesAssumption
<1>2. n + PageSize - 1 < (pages + 1) * PageSize
  BY <1>1
<1>3. pages <= number
  <2>1. BuildPaginationMeta(n, number, PageSize).next = (number < pages)
    BY DEF BuildPaginationMeta
  <2>2. ~(number < pages)
    BY <2>1
  <2> HIDE DEF pages
  <2> QED
    BY <1>1, <2>2
<1> HIDE DEF pages
<1>4. (pages + 1) * PageSize = pages * PageSize + PageSize /\ pages * PageSize \in Nat
  BY <1>1
<1>5. pages * PageSize <= number * PageSize
  BY <1>1, <1>3
<1>6. number * PageSize \in Nat
  BY <1>1
<1> QED
  BY <1>1, <1>2, <1>4, <1>5, <1>6

(* Walking through the pages of an unchanging list shows every row once.   *)
THEOREM WalksShowEachRowOnce == PagesSpec => []WalkShowsEachRowOnce
<1>1. PagesInv => WalkShowsEachRowOnce
  <2> DEFINE listed == Matching(walk.type)
             upTo == walk.page * PageSize
  <2> SUFFICES ASSUME PagesInv, walk.page > 0, DaysApart(listed)
               PROVE  /\ Cardinality(walk.seen) = Smaller(Cardinality(listed), upTo)
                      /\ ~view.meta.next => walk.seen = listed
    BY DEF WalkShowsEachRowOnce, DaysApart
  <2>1. walk.page \in Nat \ {0}
    BY DEF PagesInv, PagesTyped
  <2>2. view.meta = BuildPaginationMeta(Cardinality(listed), walk.page, PageSize)
    BY DEF PagesInv, WalkKept
  <2>3. PICK order \in Orders(listed) : walk.seen = Prefix(order, upTo)
    BY DEF PagesInv, WalkKept
  <2>4. /\ IsFiniteSet(listed) /\ Cardinality(listed) \in Nat
        /\ order \in Bijection(1 .. Cardinality(listed), listed)
    BY OrderTyped DEF PagesInv, PagesTyped
  <2>5. upTo \in Nat
    BY <2>1, PageProduct
  <2>6. walk.seen \subseteq listed /\ Cardinality(walk.seen) = Smaller(Cardinality(listed), upTo)
    <3> HIDE DEF listed, upTo
    <3> QED
      BY <2>3, <2>4, <2>5, PrefixSize
  <2>7. ASSUME ~view.meta.next PROVE walk.seen = listed
    <3>1. Cardinality(listed) <= upTo
      BY <2>1, <2>2, <2>4, <2>7, LastPageReached
    <3> HIDE DEF listed, upTo
    <3>2. Cardinality(walk.seen) = Cardinality(listed)
      BY <2>4, <2>5, <2>6, <3>1 DEF Smaller
    <3> QED
      BY <2>4, <2>6, <3>2, FS_Subset
  <2> QED
    BY <2>6, <2>7
<1> QED
  BY <1>1, PagesInvHolds, PTL
=============================================================================
