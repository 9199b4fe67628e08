---------------------------- MODULE Verification ----------------------------
(* The tokens mailed to one user to verify his address or reset his        *)
(* password (modules/account-security): find, consume and update the user  *)
(* are three statements, with no transaction around them.                  *)
EXTENDS Integers, FiniteSets

CONSTANTS MailTokens,           \* tokens that can be drawn
          MailRequests,         \* requests served at the same time
          NoMailToken, InitialPassword

TokenTypes == {"EMAIL_VERIFY", "PASSWORD_RESET"}
MailRow == [type : TokenTypes, expired : BOOLEAN, consumed : BOOLEAN]

ASSUME MailAssumption ==
    IsFiniteSet(MailTokens) /\ NoMailToken \notin MailRow /\ InitialPassword \notin MailRequests

VARIABLES
    mailToken,      \* rows of verification_tokens
    owner,          \* emailVerified, and whose new password is stored
    mailReq,        \* what each request is about to do
    used            \* history: the times a token took effect, the tokens two
                    \* requests held at once, those lost to a failure

mailVars == <<mailToken, owner, mailReq, used>>

NoMail == [pc |-> "none"]
MailRequest == [pc : {"consume", "update"}, type : TokenTypes, token : MailTokens]
Held(r) == mailReq[r] # NoMail
HeldBy(t) == {r \in MailRequests : Held(r) /\ mailReq[r].token = t}

VerificationTypeOK ==
    /\ mailToken \in [MailTokens -> MailRow \cup {NoMailToken}]
    /\ owner \in [verified : BOOLEAN, password : MailRequests \cup {InitialPassword}]
    /\ mailReq \in [MailRequests -> MailRequest \cup {NoMail}]
    /\ used \in [times : [MailTokens -> Nat], contested : SUBSET MailTokens, lost : SUBSET MailTokens]

-----------------------------------------------------------------------------
(* requestEmailVerification and forgotPassword: earlier tokens stay good.  *)
IssueMail(t, type) ==
    /\ mailToken[t] = NoMailToken
    /\ mailToken' = [mailToken EXCEPT ![t] = [type |-> type, expired |-> FALSE, consumed |-> FALSE]]
    /\ UNCHANGED <<owner, mailReq, used>>

MailExpires(t) ==
    /\ mailToken[t] # NoMailToken
    /\ mailToken' = [mailToken EXCEPT ![t].expired = TRUE]
    /\ UNCHANGED <<owner, mailReq, used>>

(* verifyEmail and resetPassword, which differ in the type of token they   *)
(* look for and in the column they write.                                  *)
FoundOfAnyType(t, type) ==      \* mutant: no filter on the type
    mailToken[t] # NoMailToken /\ ~mailToken[t].consumed
FoundConsumed(t, type) ==       \* mutant: no filter on consumedAt
    mailToken[t] # NoMailToken /\ mailToken[t].type = type
FoundByHash(t, type) ==
    mailToken[t] # NoMailToken /\ mailToken[t].type = type /\ ~mailToken[t].consumed

Present(r, t, type) ==
    /\ ~Held(r)
    /\ FoundByHash(t, type) /\ ~mailToken[t].expired
    /\ mailReq' = [mailReq EXCEPT ![r] = [pc |-> "consume", type |-> type, token |-> t]]
    /\ used' = [used EXCEPT !.contested = IF HeldBy(t) # {} THEN @ \cup {t} ELSE @]
    /\ UNCHANGED <<mailToken, owner>>

ConsumedRow(row) == [row EXCEPT !.consumed = TRUE]
Consume(r) ==
    /\ Held(r) /\ mailReq[r].pc = "consume"
    /\ mailToken' = [mailToken EXCEPT ![mailReq[r].token] = ConsumedRow(@)]
    /\ mailReq' = [mailReq EXCEPT ![r].pc = "update"]
    /\ UNCHANGED <<owner, used>>

UpdateOwner(r) ==
    /\ Held(r) /\ mailReq[r].pc = "update"
    /\ owner' = IF mailReq[r].type = "EMAIL_VERIFY"
                THEN [owner EXCEPT !.verified = TRUE] ELSE [owner EXCEPT !.password = r]
    /\ mailReq' = [mailReq EXCEPT ![r] = NoMail]
    /\ used' = [used EXCEPT !.times[mailReq[r].token] = @ + 1]
    /\ UNCHANGED mailToken

(* A statement fails. After the consumption the token is gone for good.    *)
MailFails(r) ==
    /\ Held(r)
    /\ mailReq' = [mailReq EXCEPT ![r] = NoMail]
    /\ used' = [used EXCEPT !.lost =
          IF mailReq[r].pc = "update" THEN @ \cup {mailReq[r].token} ELSE @]
    /\ UNCHANGED <<mailToken, owner>>

MailInit ==
    /\ mailToken = [t \in MailTokens |-> NoMailToken]
    /\ owner = [verified |-> FALSE, password |-> InitialPassword]
    /\ mailReq = [r \in MailRequests |-> NoMail]
    /\ used = [times |-> [t \in MailTokens |-> 0], contested |-> {}, lost |-> {}]

MailNext ==
    \/ \E t \in MailTokens :
          \/ MailExpires(t)
          \/ \E type \in TokenTypes : IssueMail(t, type)
    \/ \E r \in MailRequests :
          \/ \E t \in MailTokens, type \in TokenTypes : Present(r, t, type)
          \/ Consume(r) \/ UpdateOwner(r) \/ MailFails(r)

MailSpec == MailInit /\ [][MailNext]_mailVars

-----------------------------------------------------------------------------
(* A token takes effect once ("so it can never be replayed",               *)
(* verification-token.repository.ts 33), through retries, expiry and       *)
(* failures, unless two requests hold it at the same time.                 *)
EffectOnce == \A t \in MailTokens : used.times[t] <= 1 \/ t \in used.contested

(* A consumed token has had its effect, or is about to, or a statement     *)
(* failed in between; and the user is what the tokens made him: verified   *)
(* only by a token for that, with a new password only by the other kind.   *)
Effective(type) ==
    {t \in MailTokens : mailToken[t] # NoMailToken /\ mailToken[t].type = type /\ used.times[t] > 0}
EffectsAccountedFor ==
    /\ \A t \in MailTokens : mailToken[t] # NoMailToken /\ mailToken[t].consumed =>
          used.times[t] > 0 \/ HeldBy(t) # {} \/ t \in used.lost
    /\ owner.verified <=> Effective("EMAIL_VERIFY") # {}
    /\ owner.password # InitialPassword <=> Effective("PASSWORD_RESET") # {}
=============================================================================
