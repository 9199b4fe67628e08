---------------------------- MODULE SecurityProofs ----------------------------
(* Proofs about the account's safeguards: mailed tokens (Verification), the *)
(* second factor (Mfa) and the rate limiter (Throttler).                    *)
EXTENDS Verification, Mfa, Throttler, FiniteSetTheorems, TLAPS

-----------------------------------------------------------------------------
(* Mailed tokens, for any number of tokens and requests.                   *)

Exists(t) == mailToken[t] # NoMailToken
Spent(t) == Exists(t) /\ mailToken[t].consumed

(* What a request holds is a row, spent once the request has consumed it.  *)
HeldRows ==
    \A r \in MailRequests : Held(r) =>
        Exists(mailReq[r].token) /\ (mailReq[r].pc = "update" => Spent(mailReq[r].token))

(* Two requests with one token are what contested remembers.               *)
SharedIsContested ==
    \A r, s \in MailRequests :
        Held(r) /\ Held(s) /\ r # s /\ mailReq[r].token = mailReq[s].token =>
            mailReq[r].token \in used.contested

(* A token that took effect is spent, and no request will use it again.    *)
EffectIsOver ==
    \A t \in MailTokens : used.times[t] > 0 /\ t \notin used.contested =>
        Spent(t) /\ \A r \in MailRequests : Held(r) => mailReq[r].token # t

MailInv == VerificationTypeOK /\ HeldRows /\ SharedIsContested /\ EffectIsOver /\ EffectOnce

LEMMA InitMail == MailInit => MailInv
  BY DEF MailInit, MailInv, VerificationTypeOK, HeldRows, SharedIsContested, EffectIsOver,
         EffectOnce, Held, NoMail

(* The record of a request is not the record of none.                      *)
LEMMA HeldTyped ==
  ASSUME VerificationTypeOK, NEW r \in MailRequests, Held(r)
  PROVE  mailReq[r] \in MailRequest
  BY DEF VerificationTypeOK, Held

LEMMA IssueKeeps ==
  ASSUME MailInv, NEW t \in MailTokens, NEW type \in TokenTypes, IssueMail(t, type)
  PROVE  MailInv'
<1> USE DEF MailInv, IssueMail
<1>1. VerificationTypeOK'
  BY DEF VerificationTypeOK, MailRow
<1>2. \A i \in MailTokens : Exists(i) => mailToken'[i] = mailToken[i]
  BY DEF VerificationTypeOK, Exists
<1>3. \A i \in MailTokens : (Exists(i) => Exists(i)') /\ (Spent(i) => Spent(i)')
  BY <1>2 DEF Exists, Spent
<1>4. HeldRows'
  BY <1>3, HeldTyped DEF HeldRows, Held, MailRequest
<1>5. SharedIsContested' /\ EffectIsOver' /\ EffectOnce'
  BY <1>3 DEF SharedIsContested, EffectIsOver, EffectOnce, Held
<1> QED
  BY <1>1, <1>4, <1>5

LEMMA ExpiryKeeps ==
  ASSUME MailInv, NEW t \in MailTokens, MailExpires(t)
  PROVE  MailInv'
<1> USE DEF MailInv, MailExpires
<1>1. mailToken[t] \in MailRow
  BY DEF VerificationTypeOK
<1>2. mailToken'[t] \in MailRow /\ mailToken'[t].consumed = mailToken[t].consumed
  BY <1>1 DEF VerificationTypeOK, MailRow
<1>3. VerificationTypeOK'
  BY <1>2 DEF VerificationTypeOK
<1>4. \A i \in MailTokens : (Exists(i) => Exists(i)') /\ (Spent(i) => Spent(i)')
  BY <1>2, MailAssumption DEF VerificationTypeOK, Exists, Spent
<1>5. HeldRows'
  BY <1>4, HeldTyped DEF HeldRows, Held, MailRequest
<1>6. SharedIsContested' /\ EffectIsOver' /\ EffectOnce'
  BY <1>4 DEF SharedIsContested, EffectIsOver, EffectOnce, Held
<1> QED
  BY <1>3, <1>5, <1>6

LEMMA PresentKeeps ==
  ASSUME MailInv, NEW r \in MailRequests, NEW t \in MailTokens, NEW type \in TokenTypes,
         Present(r, t, type)
  PROVE  MailInv'
<1> USE DEF MailInv, Present
<1>1. mailReq'[r] = [pc |-> "consume", type |-> type, token |-> t] /\ Held(r)'
  BY DEF VerificationTypeOK, Held, NoMail
<1>2. \A s \in MailRequests : s # r => mailReq'[s] = mailReq[s] /\ (Held(s)' <=> Held(s))
  BY DEF VerificationTypeOK, Held
<1>3. used'.times = used.times /\ used.contested \subseteq used'.contested
  BY DEF VerificationTypeOK
<1>4. VerificationTypeOK'
  BY DEF VerificationTypeOK, MailRequest
<1>5. HeldRows'
  BY <1>1, <1>2 DEF HeldRows, Exists, Spent, FoundByHash
<1>6. SharedIsContested'
  <2>1. \A s \in MailRequests : s # r /\ Held(s) /\ mailReq[s].token = t => t \in used'.contested
    BY DEF HeldBy, VerificationTypeOK
  <2> QED
    BY <1>1, <1>2, <1>3, <2>1 DEF SharedIsContested
<1>7. EffectIsOver'
  <2>1. ~Spent(t)
    BY DEF FoundByHash, Spent
  <2> QED
    BY <1>1, <1>2, <1>3, <2>1 DEF EffectIsOver, Spent, Exists
<1>8. EffectOnce'
  BY <1>3 DEF EffectOnce
<1> QED
  BY <1>4, <1>5, <1>6, <1>7, <1>8

LEMMA ConsumeKeeps ==
  ASSUME MailInv, NEW r \in MailRequests, Consume(r)
  PROVE  MailInv'
<1> DEFINE t == mailReq[r].token
<1> USE DEF MailInv, Consume
<1>1. mailReq[r] \in MailRequest /\ t \in MailTokens /\ mailToken[t] \in MailRow
  BY HeldTyped DEF MailRequest, HeldRows, Exists, VerificationTypeOK
<1>2. mailToken'[t] \in MailRow /\ mailToken'[t].consumed
  BY <1>1 DEF ConsumedRow, MailRow, VerificationTypeOK
<1>3. \A i \in MailTokens : i # t => mailToken'[i] = mailToken[i]
  BY DEF VerificationTypeOK
<1>4. mailReq'[r] \in MailRequest /\ mailReq'[r].token = t /\ Held(r)'
  BY <1>1 DEF VerificationTypeOK, MailRequest, Held, NoMail
<1>5. \A s \in MailRequests : s # r => mailReq'[s] = mailReq[s]
  BY DEF VerificationTypeOK
<1>6. VerificationTypeOK'
  BY <1>2, <1>3, <1>4, <1>5 DEF VerificationTypeOK
<1>7. \A i \in MailTokens : (Exists(i) => Exists(i)') /\ (Spent(i) => Spent(i)')
  BY <1>2, <1>3, MailAssumption DEF Exists, Spent
<1>8. Spent(t)'
  BY <1>2, MailAssumption DEF Exists, Spent
<1>9. HeldRows'
  BY <1>1, <1>4, <1>5, <1>7, <1>8, HeldTyped DEF HeldRows, Held, MailRequest, Spent
<1>10. SharedIsContested' /\ EffectIsOver' /\ EffectOnce'
  BY <1>4, <1>5, <1>7 DEF SharedIsContested, EffectIsOver, EffectOnce, Held
<1> QED
  BY <1>6, <1>9, <1>10

(* A request that ends, with its effect or without.                        *)
LEMMA EndKeeps ==
  ASSUME MailInv, NEW r \in MailRequests, Held(r), UNCHANGED mailToken,
         mailReq' = [mailReq EXCEPT ![r] = NoMail]
  PROVE  /\ mailReq' \in [MailRequests -> MailRequest \cup {NoMail}]
         /\ HeldRows'
         /\ \A s \in MailRequests : Held(s)' => s # r /\ Held(s) /\ mailReq'[s] = mailReq[s]
<1> USE DEF MailInv
<1>1. mailReq' \in [MailRequests -> MailRequest \cup {NoMail}]
  BY DEF VerificationTypeOK
<1>2. \A s \in MailRequests : Held(s)' => s # r /\ Held(s) /\ mailReq'[s] = mailReq[s]
  BY DEF VerificationTypeOK, Held
<1>3. HeldRows'
  BY <1>2 DEF HeldRows, Exists, Spent
<1> QED
  BY <1>1, <1>2, <1>3

LEMMA UpdateKeeps ==
  ASSUME MailInv, NEW r \in MailRequests, UpdateOwner(r)
  PROVE  MailInv'
<1> DEFINE t == mailReq[r].token
<1> USE DEF MailInv, UpdateOwner
<1>1. mailReq[r] \in MailRequest /\ t \in MailTokens /\ Spent(t)
  BY HeldTyped DEF MailRequest, HeldRows
<1>2. /\ mailReq' \in [MailRequests -> MailRequest \cup {NoMail}]
      /\ HeldRows'
      /\ \A s \in MailRequests : Held(s)' => s # r /\ Held(s) /\ mailReq'[s] = mailReq[s]
  BY EndKeeps
<1>3. /\ used' \in [times : [MailTokens -> Nat], contested : SUBSET MailTokens,
                     lost : SUBSET MailTokens]
      /\ used'.contested = used.contested
      /\ used'.times[t] = used.times[t] + 1
      /\ \A i \in MailTokens : i # t => used'.times[i] = used.times[i]
  BY <1>1 DEF VerificationTypeOK
<1>4. owner' \in [verified : BOOLEAN, password : MailRequests \cup {InitialPassword}]
  BY DEF VerificationTypeOK
<1>5. VerificationTypeOK'
  BY <1>2, <1>3, <1>4 DEF VerificationTypeOK
<1>6. SharedIsContested'
  BY <1>2, <1>3 DEF SharedIsContested
<1>7. t \in used.contested \/ used.times[t] = 0
  BY <1>1 DEF EffectIsOver, VerificationTypeOK
<1>8. t \notin used.contested => \A s \in MailRequests : Held(s)' => mailReq'[s].token # t
  BY <1>2 DEF SharedIsContested
<1>9. EffectIsOver'
  BY <1>1, <1>2, <1>3, <1>8 DEF EffectIsOver, Spent, Exists
<1>10. EffectOnce'
  BY <1>3, <1>7 DEF EffectOnce, VerificationTypeOK
<1> QED
  BY <1>2, <1>5, <1>6, <1>9, <1>10

LEMMA FailureKeeps ==
  ASSUME MailInv, NEW r \in MailRequests, MailFails(r)
  PROVE  MailInv'
<1> USE DEF MailInv, MailFails
<1>1. mailReq[r] \in MailRequest
  BY HeldTyped
<1>2. /\ mailReq' \in [MailRequests -> MailRequest \cup {NoMail}]
      /\ HeldRows'
      /\ \A s \in MailRequests : Held(s)' => s # r /\ Held(s) /\ mailReq'[s] = mailReq[s]
  BY EndKeeps
<1>3. /\ used' \in [times : [MailTokens -> Nat], contested : SUBSET MailTokens,
                     lost : SUBSET MailTokens]
      /\ used'.contested = used.contested /\ used'.times = used.times
  BY <1>1 DEF VerificationTypeOK, MailRequest
<1>4. VerificationTypeOK'
  BY <1>2, <1>3 DEF VerificationTypeOK
<1>5. SharedIsContested' /\ EffectIsOver' /\ EffectOnce'
  BY <1>2, <1>3 DEF SharedIsContested, EffectIsOver, EffectOnce, Spent, Exists
<1> QED
  BY <1>2, <1>4, <1>5

LEMMA NextMail == MailInv /\ [MailNext]_mailVars => MailInv'
<1> SUFFICES ASSUME MailInv, [MailNext]_mailVars PROVE MailInv'
  OBVIOUS
<1>1. CASE UNCHANGED mailVars
  BY <1>1 DEF mailVars, MailInv, VerificationTypeOK, HeldRows, SharedIsContested, EffectIsOver,
              EffectOnce, Held, Spent, Exists
<1>2. CASE \E t \in MailTokens : MailExpires(t) \/ \E type \in TokenTypes : IssueMail(t, type)
  BY <1>2, ExpiryKeeps, IssueKeeps
<1>3. CASE \E r \in MailRequests :
              \/ \E t \in MailTokens, type \in TokenTypes : Present(r, t, type)
              \/ Consume(r) \/ UpdateOwner(r) \/ MailFails(r)
  BY <1>3, PresentKeeps, ConsumeKeeps, UpdateKeeps, FailureKeeps
<1> QED
  BY <1>1, <1>2, <1>3 DEF MailNext

(* A token that is mailed takes effect at most once, whatever fails,       *)
(* expires and is tried again, unless two requests were serving it at once *)
(* (verification.service.ts 46-89).                                        *)
THEOREM UsedOnce == MailSpec => []EffectOnce
<1>1. MailSpec => []MailInv
  BY InitMail, NextMail, PTL DEF MailSpec
<1> QED
  BY <1>1, PTL DEF MailInv
-----------------------------------------------------------------------------
(* What the tokens did to the user.                                        *)

(* A request looks for the type of token it was given.                     *)
HeldTypes ==
    \A r \in MailRequests : Held(r) => mailReq[r].type = mailToken[mailReq[r].token].type

TookEffect == \A t \in MailTokens : used.times[t] > 0 => Spent(t)

(* A spent token has a request that has consumed it and is about to update *)
(* the user: one that has only found it may still fail without a trace.    *)
Updating(t) == \E r \in MailRequests : Held(r) /\ mailReq[r].token = t /\ mailReq[r].pc = "update"
SpentAccounted ==
    \A t \in MailTokens : Spent(t) => used.times[t] > 0 \/ t \in used.lost \/ Updating(t)

OwnerAccounted ==
    /\ owner.verified <=> Effective("EMAIL_VERIFY") # {}
    /\ owner.password # InitialPassword <=> Effective("PASSWORD_RESET") # {}

AccountInv == MailInv /\ HeldTypes /\ TookEffect /\ SpentAccounted /\ OwnerAccounted

LEMMA InitAccount == MailInit => AccountInv
<1> SUFFICES ASSUME MailInit PROVE AccountInv
  OBVIOUS
<1>1. \A type : Effective(type) = {}
  BY DEF MailInit, Effective
<1>2. OwnerAccounted
  BY <1>1 DEF MailInit, OwnerAccounted
<1>3. HeldTypes /\ TookEffect /\ SpentAccounted
  BY DEF MailInit, HeldTypes, TookEffect, SpentAccounted, Held, NoMail, Spent, Exists
<1> QED
  BY <1>2, <1>3, InitMail DEF AccountInv

(* A row keeps its type, and once consumed stays so.                       *)
LEMMA RowsStand ==
  ASSUME MailInv, MailNext
  PROVE  \A t \in MailTokens :
            /\ Exists(t) => Exists(t)' /\ mailToken'[t].type = mailToken[t].type
            /\ Spent(t) => Spent(t)'
<1>1. ASSUME NEW i \in MailTokens, NEW type \in TokenTypes, IssueMail(i, type)
      PROVE  \A t \in MailTokens : Exists(t) => mailToken'[t] = mailToken[t]
  BY <1>1 DEF MailInv, VerificationTypeOK, IssueMail, Exists
<1>2. ASSUME NEW i \in MailTokens, MailExpires(i)
      PROVE  \A t \in MailTokens : Exists(t) =>
                Exists(t)' /\ mailToken'[t].type = mailToken[t].type
                           /\ mailToken'[t].consumed = mailToken[t].consumed
  <2>1. mailToken[i] \in MailRow
    BY <1>2 DEF MailInv, VerificationTypeOK, MailExpires
  <2>2. mailToken'[i] \in MailRow /\ mailToken'[i].consumed = mailToken[i].consumed
          /\ mailToken'[i].type = mailToken[i].type
    BY <1>2, <2>1 DEF MailInv, VerificationTypeOK, MailExpires, MailRow
  <2> QED
    BY <1>2, <2>2, MailAssumption DEF MailInv, VerificationTypeOK, MailExpires, Exists
<1>3. ASSUME NEW r \in MailRequests, Consume(r)
      PROVE  \A t \in MailTokens : Exists(t) =>
                Exists(t)' /\ mailToken'[t].type = mailToken[t].type
                           /\ (mailToken[t].consumed => mailToken'[t].consumed)
  <2> DEFINE i == mailReq[r].token
  <2>1. i \in MailTokens /\ mailToken[i] \in MailRow
    BY <1>3, HeldTyped DEF MailInv, HeldRows, Exists, VerificationTypeOK, MailRequest, Consume
  <2>2. mailToken'[i] \in MailRow /\ mailToken'[i].consumed
          /\ mailToken'[i].type = mailToken[i].type
    BY <1>3, <2>1 DEF MailInv, VerificationTypeOK, Consume, ConsumedRow, MailRow
  <2> QED
    BY <1>3, <2>2, MailAssumption DEF MailInv, VerificationTypeOK, Consume, Exists
<1>4. ASSUME NEW r \in MailRequests,
             UpdateOwner(r) \/ MailFails(r)
                \/ \E t \in MailTokens, type \in TokenTypes : Present(r, t, type)
      PROVE  mailToken' = mailToken
  BY <1>4 DEF UpdateOwner, MailFails, Present
<1> QED
  BY <1>1, <1>2, <1>3, <1>4 DEF MailNext, Exists, Spent

(* While no token takes effect, the user stands as the tokens made him.    *)
LEMMA OwnerStands ==
  ASSUME AccountInv, MailNext, UNCHANGED owner, used'.times = used.times
  PROVE  OwnerAccounted' /\ TookEffect'
<1>1. \A type : Effective(type)' = Effective(type)
  BY RowsStand DEF AccountInv, TookEffect, Effective, Spent, Exists
<1> QED
  BY <1>1, RowsStand DEF AccountInv, OwnerAccounted, TookEffect

LEMMA AccountStep ==
  ASSUME AccountInv, MailNext, MailInv'
  PROVE  AccountInv'
<1> USE DEF AccountInv
<1>t. VerificationTypeOK /\ MailInv
  BY DEF MailInv
<1>1. ASSUME NEW t \in MailTokens,
             MailExpires(t) \/ \E type \in TokenTypes : IssueMail(t, type)
      PROVE  HeldTypes' /\ SpentAccounted' /\ OwnerAccounted' /\ TookEffect'
  <2>1. UNCHANGED <<owner, mailReq, used>>
    BY <1>1 DEF MailExpires, IssueMail
  <2>2. HeldTypes'
    BY <2>1, <1>t, RowsStand, HeldTyped DEF HeldTypes, HeldRows, Held, MailInv, MailRequest
  <2>3. \A i \in MailTokens : Spent(i)' => Spent(i)
    <3>1. CASE MailExpires(t)
      BY <3>1, <1>t DEF MailExpires, Spent, Exists, VerificationTypeOK, MailRow
    <3>2. CASE \E type \in TokenTypes : IssueMail(t, type)
      BY <3>2, <1>t DEF IssueMail, Spent, Exists, VerificationTypeOK
    <3> QED
      BY <1>1, <3>1, <3>2
  <2>4. SpentAccounted'
    BY <2>1, <2>3 DEF SpentAccounted, Updating, Held
  <2> QED
    BY <2>1, <2>2, <2>4, OwnerStands
<1>2. ASSUME NEW r \in MailRequests, NEW t \in MailTokens, NEW type \in TokenTypes,
             Present(r, t, type)
      PROVE  HeldTypes' /\ SpentAccounted' /\ OwnerAccounted' /\ TookEffect'
  <2>1. /\ mailReq'[r] = [pc |-> "consume", type |-> type, token |-> t]
        /\ \A s \in MailRequests : s # r => mailReq'[s] = mailReq[s]
    BY <1>2, <1>t DEF VerificationTypeOK, Present
  <2>2. /\ used'.times = used.times /\ used'.lost = used.lost
        /\ UNCHANGED <<mailToken, owner>>
    BY <1>2, <1>t DEF VerificationTypeOK, Present
  <2>3. HeldTypes'
    BY <1>2, <2>1, <2>2 DEF HeldTypes, Held, Present, FoundByHash
  <2>4. SpentAccounted'
    BY <1>2, <2>1, <2>2 DEF SpentAccounted, Updating, Held, Spent, Exists, Present
  <2> QED
    BY <2>2, <2>3, <2>4, OwnerStands
<1>3. ASSUME NEW r \in MailRequests, Consume(r)
      PROVE  HeldTypes' /\ SpentAccounted' /\ OwnerAccounted' /\ TookEffect'
  <2> DEFINE t == mailReq[r].token
  <2>1. mailReq[r] \in MailRequest /\ UNCHANGED <<owner, used>>
    BY <1>3, <1>t, HeldTyped DEF Consume
  <2>2. /\ mailReq'[r].type = mailReq[r].type /\ mailReq'[r].token = t
        /\ mailReq'[r].pc = "update" /\ Held(r) /\ Held(r)'
        /\ \A s \in MailRequests : s # r => mailReq'[s] = mailReq[s]
    BY <1>3, <1>t, <2>1 DEF VerificationTypeOK, Consume, MailRequest, Held, NoMail
  <2>3. HeldTypes'
    BY <1>t, <2>2, RowsStand, HeldTyped DEF HeldTypes, HeldRows, Held, MailInv, MailRequest
  <2>4. \A i \in MailTokens : i # t => (Spent(i)' <=> Spent(i))
    BY <1>3, <1>t DEF VerificationTypeOK, Consume, Spent, Exists
  <2>5. \A i \in MailTokens : Updating(i) => Updating(i)'
    BY <2>2 DEF Updating, Held
  <2>6. SpentAccounted'
    <3> SUFFICES ASSUME NEW i \in MailTokens, Spent(i)'
                 PROVE  used.times[i] > 0 \/ i \in used.lost \/ Updating(i)'
      BY <2>1 DEF SpentAccounted
    <3>1. CASE i = t
      BY <2>2, <3>1 DEF Updating
    <3>2. CASE i # t
      BY <2>4, <2>5, <3>2 DEF SpentAccounted
    <3> QED
      BY <3>1, <3>2
  <2> QED
    BY <2>1, <2>3, <2>6, OwnerStands
<1>4. ASSUME NEW r \in MailRequests, UpdateOwner(r)
      PROVE  HeldTypes' /\ SpentAccounted' /\ OwnerAccounted' /\ TookEffect'
  <2> DEFINE t == mailReq[r].token
  <2>1. /\ mailReq[r] \in MailRequest /\ t \in MailTokens
        /\ Spent(t) /\ mailToken[t].type = mailReq[r].type
    BY <1>4, <1>t, HeldTyped DEF UpdateOwner, MailRequest, HeldTypes, HeldRows, MailInv
  <2>2. \A s \in MailRequests : Held(s)' => s # r /\ Held(s) /\ mailReq'[s] = mailReq[s]
    BY <1>4, EndKeeps DEF UpdateOwner
  <2>3. \A s \in MailRequests : s # r => mailReq'[s] = mailReq[s]
    BY <1>4, <1>t DEF UpdateOwner, VerificationTypeOK
  <2>4. /\ used'.lost = used.lost /\ used'.times[t] > 0 /\ UNCHANGED mailToken
        /\ \A i \in MailTokens : i # t => used'.times[i] = used.times[i]
    BY <1>4, <1>t, <2>1 DEF UpdateOwner, VerificationTypeOK
  <2>5. HeldTypes'
    BY <2>2, <2>4 DEF HeldTypes
  <2>6. \A i \in MailTokens : i # t /\ Updating(i) => Updating(i)'
    BY <2>3 DEF Updating, Held
  <2>7. SpentAccounted'
    BY <2>4, <2>6 DEF SpentAccounted, Spent, Exists
  <2>8. TookEffect'
    BY <2>1, <2>4 DEF TookEffect, Spent, Exists
  <2>9. ASSUME NEW type \in TokenTypes
        PROVE  IF type = mailReq[r].type THEN Effective(type)' # {}
                                         ELSE Effective(type)' = Effective(type)
    <3>1. type = mailReq[r].type => t \in Effective(type)'
      BY <2>1, <2>4 DEF Effective, Spent, Exists
    <3>2. type # mailReq[r].type => Effective(type)' = Effective(type)
      BY <2>1, <2>4 DEF Effective
    <3> QED
      BY <3>1, <3>2
  <2>10. mailReq[r].type \in {"EMAIL_VERIFY", "PASSWORD_RESET"}
    BY <2>1 DEF MailRequest, TokenTypes
  <2>11. CASE mailReq[r].type = "EMAIL_VERIFY"
    <3>1. owner'.verified /\ owner'.password = owner.password
      BY <1>4, <1>t, <2>11 DEF UpdateOwner, VerificationTypeOK
    <3>2. Effective("EMAIL_VERIFY")' # {} /\ Effective("PASSWORD_RESET")' = Effective("PASSWORD_RESET")
      BY <2>9, <2>11 DEF TokenTypes
    <3>3. OwnerAccounted'
      BY <3>1, <3>2 DEF OwnerAccounted
    <3> QED
      BY <2>5, <2>7, <2>8, <3>3
  <2>12. CASE mailReq[r].type = "PASSWORD_RESET"
    <3>1. owner'.verified = owner.verified /\ owner'.password = r /\ r # InitialPassword
      BY <1>4, <1>t, <2>12, MailAssumption DEF UpdateOwner, VerificationTypeOK
    <3>2. Effective("PASSWORD_RESET")' # {} /\ Effective("EMAIL_VERIFY")' = Effective("EMAIL_VERIFY")
      BY <2>9, <2>12 DEF TokenTypes
    <3>3. OwnerAccounted'
      BY <3>1, <3>2 DEF OwnerAccounted
    <3> QED
      BY <2>5, <2>7, <2>8, <3>3
  <2> QED
    BY <2>10, <2>11, <2>12
<1>5. ASSUME NEW r \in MailRequests, MailFails(r)
      PROVE  HeldTypes' /\ SpentAccounted' /\ OwnerAccounted' /\ TookEffect'
  <2>1. mailReq[r] \in MailRequest /\ UNCHANGED <<mailToken, owner>>
    BY <1>5, <1>t, HeldTyped DEF MailFails
  <2>2. \A s \in MailRequests : Held(s)' => s # r /\ Held(s) /\ mailReq'[s] = mailReq[s]
    BY <1>5, EndKeeps DEF MailFails
  <2>3. \A s \in MailRequests : s # r => mailReq'[s] = mailReq[s]
    BY <1>5, <1>t DEF MailFails, VerificationTypeOK
  <2>4. used'.times = used.times /\ used.lost \subseteq used'.lost
    BY <1>5, <1>t DEF MailFails, VerificationTypeOK
  <2>5. mailReq[r].pc = "update" => mailReq[r].token \in used'.lost
    BY <1>5, <1>t DEF MailFails, VerificationTypeOK
  <2>6. HeldTypes'
    BY <2>1, <2>2 DEF HeldTypes
  <2>7. \A i \in MailTokens : Updating(i) => Updating(i)' \/ i \in used'.lost
    BY <2>3, <2>5 DEF Updating, Held
  <2>8. SpentAccounted'
    BY <2>1, <2>4, <2>7 DEF SpentAccounted, Spent, Exists
  <2> QED
    BY <2>1, <2>4, <2>6, <2>8, OwnerStands
<1> QED
  BY <1>1, <1>2, <1>3, <1>4, <1>5 DEF MailNext

LEMMA NextAccount == AccountInv /\ [MailNext]_mailVars => AccountInv'
<1> SUFFICES ASSUME AccountInv, [MailNext]_mailVars PROVE AccountInv'
  OBVIOUS
<1>1. MailInv'
  BY NextMail DEF AccountInv
<1>2. CASE MailNext
  BY <1>1, <1>2, AccountStep
<1>3. CASE UNCHANGED mailVars
  BY <1>1, <1>3 DEF mailVars, AccountInv, HeldTypes, TookEffect, SpentAccounted, OwnerAccounted,
                    Effective, Updating, Held, Spent, Exists
<1> QED
  BY <1>2, <1>3

(* A consumed token has had its effect, is about to, or fell to a failed   *)
(* statement; and the user is verified, or has another password, exactly   *)
(* when a token for that took effect (verification.service.ts 46-89).      *)
THEOREM MailsAccountedFor == MailSpec => []EffectsAccountedFor
<1>1. MailSpec => []AccountInv
  BY InitAccount, NextAccount, PTL DEF MailSpec
<1>2. AccountInv => EffectsAccountedFor
  BY DEF AccountInv, SpentAccounted, OwnerAccounted, Updating, EffectsAccountedFor, HeldBy,
         Spent, Exists
<1> QED
  BY <1>1, <1>2, PTL

-----------------------------------------------------------------------------
(* The second factor, for any number of requests, secrets and codes.       *)

(* Each handler keeps to its own awaits.                                   *)
EnablePcs == {"delete", "create", "switchOn"}
AwaitsOwn(op, pc) ==
    (op = "enable" <=> pc \in EnablePcs) /\ (pc \in {"clear", "switchOff"} => op = "disable")

RequestsTyped ==
    /\ mfaReq \in [MfaRequests -> MfaRequest \cup {Quiet}]
    /\ \A r \in MfaRequests : Serving(r) =>
          /\ mfaReq[r].secret = 0 <=> mfaReq[r].code # NoCode
          /\ AwaitsOwn(mfaReq[r].op, mfaReq[r].pc)

(* How a step moves the requests: none comes to this await, none leaves    *)
(* it, none starts to enable.                                              *)
NoneArrives(pc) ==
    \A q \in MfaRequests : AtPc(q, pc)' => AtPc(q, pc) /\ mfaReq'[q] = mfaReq[q]
NoneLeaves(pc) == \A q \in MfaRequests : AtPc(q, pc) => AtPc(q, pc)'
NoneEnables ==
    \A q \in MfaRequests : Enabling(q)' => Enabling(q) /\ mfaReq'[q].secret = mfaReq[q].secret

(* The record of a request is not the record of none.                      *)
LEMMA ServingTyped ==
  ASSUME RequestsTyped, NEW r \in MfaRequests
  PROVE  /\ Serving(r) <=> mfaReq[r] \in MfaRequest
         /\ Serving(r) => AwaitsOwn(mfaReq[r].op, mfaReq[r].pc)
<1>1. Quiet \notin MfaRequest
  BY DEF Quiet, MfaRequest
<1> QED
  BY <1>1 DEF RequestsTyped, Serving

LEMMA ProceedMoves ==
  ASSUME RequestsTyped, NEW r \in MfaRequests, NEW to \in Pcs, Serving(r), Proceed(r, to),
         AwaitsOwn(mfaReq[r].op, to)
  PROVE  /\ RequestsTyped' /\ NoneEnables
         /\ \A pc : pc # to => NoneArrives(pc)
         /\ \A pc : pc # mfaReq[r].pc => NoneLeaves(pc)
         /\ AtPc(r, to)' /\ mfaReq'[r].code = mfaReq[r].code
         /\ \A q \in MfaRequests : q # r => mfaReq'[q] = mfaReq[q]
<1>1. /\ mfaReq[r] \in MfaRequest
      /\ mfaReq'[r] = [mfaReq[r] EXCEPT !.pc = to]
      /\ \A q \in MfaRequests : q # r => mfaReq'[q] = mfaReq[q]
  BY ServingTyped DEF Proceed, RequestsTyped
<1>2. /\ mfaReq'[r] \in MfaRequest /\ mfaReq'[r].pc = to /\ mfaReq'[r].op = mfaReq[r].op
      /\ mfaReq'[r].secret = mfaReq[r].secret /\ mfaReq'[r].code = mfaReq[r].code
  BY <1>1 DEF MfaRequest
<1>3. Serving(r)'
  BY <1>2 DEF MfaRequest, Serving, Quiet
<1>4. mfaReq' \in [MfaRequests -> MfaRequest \cup {Quiet}]
  BY <1>2 DEF Proceed, RequestsTyped
<1>5. RequestsTyped'
  BY <1>1, <1>2, <1>4 DEF RequestsTyped, Serving
<1>6. NoneEnables
  BY <1>1, <1>2 DEF NoneEnables, Enabling, Serving
<1>7. ASSUME NEW pc, pc # to PROVE NoneArrives(pc)
  BY <1>1, <1>2, <1>7 DEF NoneArrives, AtPc, Serving
<1>8. ASSUME NEW pc, pc # mfaReq[r].pc PROVE NoneLeaves(pc)
  BY <1>1, <1>8 DEF NoneLeaves, AtPc, Serving
<1> QED
  BY <1>1, <1>2, <1>3, <1>5, <1>6, <1>7, <1>8 DEF AtPc

LEMMA AnswerMoves ==
  ASSUME RequestsTyped, NEW r \in MfaRequests, Answer(r)
  PROVE  /\ RequestsTyped' /\ NoneEnables
         /\ \A pc : NoneArrives(pc)
         /\ \A pc : pc # mfaReq[r].pc => NoneLeaves(pc)
         /\ \A q \in MfaRequests : q # r => mfaReq'[q] = mfaReq[q]
         /\ ~Serving(r)'
<1>1. /\ mfaReq'[r] = Quiet
      /\ \A q \in MfaRequests : q # r => mfaReq'[q] = mfaReq[q]
      /\ mfaReq' \in [MfaRequests -> MfaRequest \cup {Quiet}]
  BY DEF Answer, RequestsTyped
<1>2. RequestsTyped'
  BY <1>1 DEF RequestsTyped, Serving
<1>3. NoneEnables
  BY <1>1 DEF NoneEnables, Enabling, Serving
<1>4. ASSUME NEW pc PROVE NoneArrives(pc)
  BY <1>1 DEF NoneArrives, AtPc, Serving
<1>5. ASSUME NEW pc, pc # mfaReq[r].pc PROVE NoneLeaves(pc)
  BY <1>1, <1>5 DEF NoneLeaves, AtPc, Serving
<1> QED
  BY <1>1, <1>2, <1>3, <1>4, <1>5 DEF Serving

(* Accept: a disable goes on to clear, anything else is answered.          *)
LEMMA AcceptMoves ==
  ASSUME RequestsTyped, NEW r \in MfaRequests, Serving(r), ~Enabling(r), Accept(r)
  PROVE  /\ RequestsTyped' /\ NoneEnables
         /\ \A pc : pc # "clear" => NoneArrives(pc)
         /\ \A pc : pc # mfaReq[r].pc => NoneLeaves(pc)
         /\ \A q \in MfaRequests : q # r => mfaReq'[q] = mfaReq[q]
         /\ ~AtPc(r, "burn")'
<1>1. CASE mfaReq[r].op = "disable"
  <2>1. Proceed(r, "clear") /\ "clear" \in Pcs /\ AwaitsOwn(mfaReq[r].op, "clear")
    BY <1>1 DEF Accept, Pcs, AwaitsOwn, EnablePcs
  <2> QED
    BY <2>1, ProceedMoves DEF AtPc
<1>2. CASE mfaReq[r].op # "disable"
  BY <1>2, AnswerMoves DEF Accept, AtPc
<1> QED
  BY <1>1, <1>2

(* A request that starts.                                                  *)
LEMMA StartMoves ==
  ASSUME RequestsTyped, NEW r \in MfaRequests, ~Serving(r), NEW req \in MfaRequest,
         req.secret = 0 <=> req.code # NoCode, AwaitsOwn(req.op, req.pc),
         mfaReq' = [mfaReq EXCEPT ![r] = req]
  PROVE  /\ RequestsTyped'
         /\ \A pc : pc # req.pc => NoneArrives(pc)
         /\ \A pc : NoneLeaves(pc)
         /\ \A q \in MfaRequests : q # r => mfaReq'[q] = mfaReq[q]
         /\ mfaReq'[r] = req /\ Serving(r)'
<1>1. /\ mfaReq'[r] = req
      /\ \A q \in MfaRequests : q # r => mfaReq'[q] = mfaReq[q]
      /\ mfaReq' \in [MfaRequests -> MfaRequest \cup {Quiet}]
  BY DEF RequestsTyped
<1>2. RequestsTyped'
  BY <1>1 DEF RequestsTyped, Serving
<1>3. ASSUME NEW pc, pc # req.pc PROVE NoneArrives(pc)
  BY <1>1, <1>3 DEF NoneArrives, AtPc, Serving
<1>4. ASSUME NEW pc PROVE NoneLeaves(pc)
  BY <1>1 DEF NoneLeaves, AtPc, Serving
<1>5. Serving(r)'
  BY <1>1 DEF Serving, MfaRequest, Quiet
<1> QED
  BY <1>1, <1>2, <1>3, <1>4, <1>5

(* Codes are shown, and accepted, only once their set has been drawn.      *)
CodesDrawn ==
    /\ \A row \in codes : row.code.set <= drawn.sets
    /\ \A c \in Codes : history.redeemed[c] > 0 => c.set <= drawn.sets
BurnsDrawn ==
    \A r \in MfaRequests : AtPc(r, "burn") =>
        mfaReq[r].code \in Codes /\ mfaReq[r].code.set <= drawn.sets

(* Two requests about to burn one code are what contested remembers.       *)
SharedBurnIsContested ==
    \A r, q \in MfaRequests :
        AtPc(r, "burn") /\ AtPc(q, "burn") /\ r # q /\ mfaReq[r].code = mfaReq[q].code =>
            mfaReq[r].code \in history.contested

(* A code that was accepted is used, and nobody is about to burn it.       *)
RedeemedIsOver ==
    \A c \in Codes : history.redeemed[c] > 0 /\ c \notin history.contested =>
        Unused(c) \notin codes /\ \A r \in MfaRequests : AtPc(r, "burn") => mfaReq[r].code # c

RedeemInv ==
    CodesDrawn /\ BurnsDrawn /\ SharedBurnIsContested /\ RedeemedIsOver /\ AcceptedOnce

(* Between delete and create the old codes are gone, and unless enables    *)
(* overlap one request at a time stands there.                             *)
OneCreator ==
    "enables overlap" \notin history.events =>
        \A r, q \in MfaRequests : AtPc(r, "create") => codes = {} /\ (AtPc(q, "create") => r = q)

ReplaceInv == OneCreator /\ OneSetOfCodes

(* An enable under way has proved the secret that stands, unless a setup   *)
(* or disable has overtaken it.                                            *)
EnablingCurrent ==
    "factor replaced" \notin history.events => \A r \in MfaRequests : Enabling(r) =>
        mfaUser.secret = mfaReq[r].secret /\ mfaUser.secret \in history.proven
EnabledProven ==
    mfaUser.enabled /\ "factor replaced" \notin history.events => mfaUser.secret \in history.proven

FactorInv == EnablingCurrent /\ EnabledProven

(* Codes are missing only while somebody is about to create them, or about *)
(* to switch the factor off.                                               *)
CodesLeft ==
    history.events = {} /\ (mfaUser.enabled \/ \E r \in MfaRequests : AtPc(r, "switchOn")) =>
        codes # {} \/ \E r \in MfaRequests : AtPc(r, "create") \/ AtPc(r, "switchOff")

MfaInv == MfaTypeOK /\ RequestsTyped /\ RedeemInv /\ ReplaceInv /\ FactorInv /\ CodesLeft

(* What leaves each part of the invariant alone.                           *)
LEMMA RedeemFrame ==
  ASSUME RedeemInv, codes' \subseteq codes, drawn'.sets = drawn.sets, NoneArrives("burn"),
         history'.redeemed = history.redeemed, history'.contested = history.contested
  PROVE  RedeemInv'
<1>1. CodesDrawn'
  BY DEF RedeemInv, CodesDrawn
<1>2. BurnsDrawn' /\ SharedBurnIsContested'
  BY DEF RedeemInv, BurnsDrawn, SharedBurnIsContested, NoneArrives
<1>3. RedeemedIsOver'
  BY DEF RedeemInv, RedeemedIsOver, NoneArrives, Unused
<1>4. AcceptedOnce'
  BY DEF RedeemInv, AcceptedOnce
<1> QED
  BY <1>1, <1>2, <1>3, <1>4 DEF RedeemInv

LEMMA ReplaceFrame ==
  ASSUME ReplaceInv, history.events \subseteq history'.events, drawn'.sets = drawn.sets,
         \A row \in codes' : \E old \in codes : old.code = row.code, NoneArrives("create")
  PROVE  ReplaceInv'
<1>1. OneCreator'
  BY DEF ReplaceInv, OneCreator, NoneArrives
<1>2. OneSetOfCodes'
  BY DEF ReplaceInv, OneSetOfCodes
<1> QED
  BY <1>1, <1>2 DEF ReplaceInv

LEMMA FactorFrame ==
  ASSUME FactorInv, mfaUser'.secret = mfaUser.secret, NoneEnables,
         mfaUser'.enabled => mfaUser.enabled \/ \E r \in MfaRequests : Enabling(r),
         history.proven \subseteq history'.proven, history.events \subseteq history'.events
  PROVE  FactorInv'
<1>1. EnablingCurrent'
  BY DEF FactorInv, EnablingCurrent, NoneEnables
<1>2. EnabledProven'
  BY DEF FactorInv, EnablingCurrent, EnabledProven
<1> QED
  BY <1>1, <1>2 DEF FactorInv

LEMMA CodesFrame ==
  ASSUME CodesLeft, history'.events = {} => history.events = {},
         mfaUser'.enabled => mfaUser.enabled \/ \E r \in MfaRequests : AtPc(r, "switchOn"),
         NoneArrives("switchOn"), codes # {} => codes' # {},
         history'.events = {} => NoneLeaves("create") /\ NoneLeaves("switchOff")
  PROVE  CodesLeft'
<1> SUFFICES ASSUME history'.events = {},
                    mfaUser'.enabled \/ \E r \in MfaRequests : AtPc(r, "switchOn")'
             PROVE  codes' # {} \/ \E r \in MfaRequests : AtPc(r, "create")' \/ AtPc(r, "switchOff")'
  BY DEF CodesLeft
<1>1. mfaUser.enabled \/ \E r \in MfaRequests : AtPc(r, "switchOn")
  BY DEF NoneArrives
<1>2. codes # {} \/ \E r \in MfaRequests : AtPc(r, "create") \/ AtPc(r, "switchOff")
  BY <1>1 DEF CodesLeft
<1> QED
  BY <1>2 DEF NoneLeaves

LEMMA Noted ==
  ASSUME MfaTypeOK, NEW event \in Events, NEW happened \in BOOLEAN, Note(event, happened)
  PROVE  /\ history' \in [proven : SUBSET Secrets, redeemed : [Codes -> Nat],
                          contested : SUBSET Codes, events : SUBSET Events]
         /\ history'.proven = history.proven /\ history'.redeemed = history.redeemed
         /\ history'.contested = history.contested /\ history.events \subseteq history'.events
         /\ IF happened THEN event \in history'.events ELSE history'.events = history.events
<1>1. CASE happened
  <2>1. history' = [history EXCEPT !.events = @ \cup {event}]
    BY <1>1 DEF Note
  <2> QED
    BY <1>1, <2>1 DEF MfaTypeOK
<1>2. CASE ~happened
  <2>1. history' = [history EXCEPT !.events = @]
    BY <1>2 DEF Note
  <2> QED
    BY <1>2, <2>1 DEF MfaTypeOK
<1> QED
  BY <1>1, <1>2

LEMMA InitMfa == MfaInit => MfaInv
<1> SUFFICES ASSUME MfaInit PROVE MfaInv
  OBVIOUS
<1>1. \A r \in MfaRequests : ~Serving(r)
  BY DEF MfaInit, Serving
<1>2. RequestsTyped
  BY <1>1 DEF MfaInit, RequestsTyped
<1>3. MfaTypeOK
  BY <1>1, MfaAssumption DEF MfaInit, MfaTypeOK, Serving
<1>4. RedeemInv
  BY <1>1 DEF MfaInit, RedeemInv, CodesDrawn, BurnsDrawn, SharedBurnIsContested, RedeemedIsOver,
              AcceptedOnce, AtPc
<1>5. ReplaceInv /\ FactorInv /\ CodesLeft
  BY <1>1 DEF MfaInit, ReplaceInv, OneCreator, OneSetOfCodes, FactorInv, EnablingCurrent,
              EnabledProven, CodesLeft, AtPc, Enabling
<1> QED
  BY <1>2, <1>3, <1>4, <1>5 DEF MfaInv

LEMMA SetupMfa == MfaInv /\ Setup => MfaInv'
<1> SUFFICES ASSUME MfaInv, Setup PROVE MfaInv'
  OBVIOUS
<1> USE DEF MfaInv
<1> DEFINE overtaken == \E r \in MfaRequests : Enabling(r)
<1>1. /\ UNCHANGED <<codes, mfaReq>> /\ Note("factor replaced", overtaken)
      /\ overtaken \in BOOLEAN /\ "factor replaced" \in Events
  BY DEF Setup, Events
<1>2. /\ drawn'.secrets \in 1..MaxSecrets /\ drawn'.sets = drawn.sets
      /\ drawn' \in [secrets : 0..MaxSecrets, sets : 0..MaxSets]
  <2>1. drawn.secrets \in 0..MaxSecrets /\ drawn.sets \in 0..MaxSets
    BY DEF MfaTypeOK
  <2>2. /\ drawn' = [drawn EXCEPT !.secrets = drawn.secrets + 1]
        /\ drawn.secrets < MaxSecrets
    BY DEF Setup
  <2>3. drawn.secrets + 1 \in 1..MaxSecrets
    BY <2>1, <2>2, MfaAssumption
  <2> QED
    BY <2>1, <2>2, <2>3, MfaAssumption DEF MfaTypeOK
<1>3. mfaUser' = [secret |-> drawn'.secrets, enabled |-> FALSE]
  BY DEF Setup, PendingSecret
<1>4. /\ history' \in [proven : SUBSET Secrets, redeemed : [Codes -> Nat],
                       contested : SUBSET Codes, events : SUBSET Events]
      /\ history'.proven = history.proven /\ history'.redeemed = history.redeemed
      /\ history'.contested = history.contested /\ history.events \subseteq history'.events
      /\ overtaken => "factor replaced" \in history'.events
  BY <1>1, Noted
<1>5. \A pc : NoneArrives(pc) /\ NoneLeaves(pc)
  BY <1>1 DEF NoneArrives, NoneLeaves, AtPc, Serving
<1>6. RequestsTyped' /\ MfaTypeOK'
  BY <1>1, <1>2, <1>3, <1>4 DEF MfaTypeOK, RequestsTyped, Serving, Secrets
<1>7. RedeemInv'
  BY <1>1, <1>2, <1>4, <1>5, RedeemFrame
<1>8. ReplaceInv'
  BY <1>1, <1>2, <1>4, <1>5, ReplaceFrame
<1>9. FactorInv'
  BY <1>1, <1>3, <1>4 DEF FactorInv, EnablingCurrent, EnabledProven, Enabling, Serving
<1>10. CodesLeft'
  BY <1>1, <1>3, <1>4, <1>5, CodesFrame
<1> QED
  BY <1>6, <1>7, <1>8, <1>9, <1>10

LEMMA StartEnableMfa ==
  ASSUME MfaInv, NEW r \in MfaRequests, NEW s \in Secrets, StartEnable(r, s)
  PROVE  MfaInv'
<1> USE DEF MfaInv
<1> DEFINE req == [op |-> "enable", pc |-> "delete", secret |-> s, code |-> NoCode]
<1>1. /\ ~Serving(r) /\ mfaReq' = [mfaReq EXCEPT ![r] = req] /\ mfaUser.secret = s
      /\ UNCHANGED <<mfaUser, codes, drawn>>
  BY DEF StartEnable
<1>2. /\ req \in MfaRequest /\ AwaitsOwn(req.op, req.pc)
      /\ req.secret = 0 <=> req.code # NoCode
  BY MfaAssumption DEF MfaRequest, Pcs, AwaitsOwn, EnablePcs, Secrets
<1>3. /\ history' \in [proven : SUBSET Secrets, redeemed : [Codes -> Nat],
                       contested : SUBSET Codes, events : SUBSET Events]
      /\ history'.proven = history.proven \cup {s} /\ history'.redeemed = history.redeemed
      /\ history'.contested = history.contested /\ history'.events = history.events
  BY DEF StartEnable, MfaTypeOK
<1> HIDE DEF req
<1>4. /\ RequestsTyped'
      /\ \A pc : pc # req.pc => NoneArrives(pc)
      /\ \A pc : NoneLeaves(pc)
      /\ \A q \in MfaRequests : q # r => mfaReq'[q] = mfaReq[q]
      /\ mfaReq'[r] = req /\ Serving(r)'
  BY <1>1, <1>2, StartMoves
<1>5. req.pc = "delete" /\ req.secret = s
  BY DEF req
<1>6. MfaTypeOK'
  BY <1>1, <1>3, <1>4 DEF MfaTypeOK, RequestsTyped, Serving
<1>7. RedeemInv' /\ ReplaceInv'
  BY <1>1, <1>3, <1>4, <1>5, RedeemFrame, ReplaceFrame
<1>8. EnablingCurrent'
  BY <1>1, <1>3, <1>4, <1>5 DEF FactorInv, EnablingCurrent, Enabling, Serving
<1>9. EnabledProven'
  BY <1>1, <1>3 DEF FactorInv, EnabledProven
<1>10. CodesLeft'
  BY <1>1, <1>3, <1>4, <1>5, CodesFrame
<1> QED
  BY <1>4, <1>6, <1>7, <1>8, <1>9, <1>10 DEF FactorInv

LEMMA DeleteMfa ==
  ASSUME MfaInv, NEW r \in MfaRequests, DeleteOldCodes(r)
  PROVE  MfaInv'
<1> USE DEF MfaInv
<1> DEFINE overlap == \E q \in MfaRequests : AtPc(q, "create")
<1>1. /\ AtPc(r, "delete") /\ Serving(r) /\ mfaReq[r].pc = "delete"
      /\ codes' = {} /\ Proceed(r, "create")
      /\ Note("enables overlap", overlap) /\ UNCHANGED <<mfaUser, drawn>>
  BY DEF DeleteOldCodes, AtPc, RowsAfterDelete
<1>2. "create" \in Pcs /\ AwaitsOwn(mfaReq[r].op, "create")
  BY <1>1, ServingTyped DEF Pcs, AwaitsOwn, EnablePcs
<1>3. /\ RequestsTyped' /\ NoneEnables
      /\ \A pc : pc # "create" => NoneArrives(pc)
      /\ \A pc : pc # "delete" => NoneLeaves(pc)
      /\ AtPc(r, "create")'
      /\ \A q \in MfaRequests : q # r => mfaReq'[q] = mfaReq[q]
  BY <1>1, <1>2, ProceedMoves
<1>4. overlap \in BOOLEAN /\ "enables overlap" \in Events
  BY DEF Events
<1>5. /\ history' \in [proven : SUBSET Secrets, redeemed : [Codes -> Nat],
                       contested : SUBSET Codes, events : SUBSET Events]
      /\ history'.proven = history.proven /\ history'.redeemed = history.redeemed
      /\ history'.contested = history.contested /\ history.events \subseteq history'.events
      /\ overlap => "enables overlap" \in history'.events
  BY <1>1, <1>4, Noted
<1>6. MfaTypeOK'
  BY <1>1, <1>3, <1>5 DEF MfaTypeOK, RequestsTyped, Serving
<1>7. RedeemInv'
  BY <1>1, <1>3, <1>5, RedeemFrame
<1>8. OneCreator'
  BY <1>1, <1>3, <1>5 DEF OneCreator, AtPc, Serving
<1>9. OneSetOfCodes'
  BY <1>1 DEF OneSetOfCodes
<1>10. FactorInv'
  BY <1>1, <1>3, <1>5, FactorFrame
<1>11. CodesLeft'
  BY <1>3 DEF CodesLeft
<1> QED
  BY <1>3, <1>6, <1>7, <1>8, <1>9, <1>10, <1>11 DEF ReplaceInv

LEMMA CreateMfa ==
  ASSUME MfaInv, NEW r \in MfaRequests, CreateCodes(r)
  PROVE  MfaInv'
<1> USE DEF MfaInv
<1> DEFINE fresh == {Unused(c) : c \in {c \in Codes : c.set = drawn'.sets}}
<1>1. /\ AtPc(r, "create") /\ Serving(r) /\ mfaReq[r].pc = "create"
      /\ codes' = codes \cup fresh
      /\ Proceed(r, "switchOn") /\ UNCHANGED <<mfaUser, history>>
  BY DEF CreateCodes, AtPc
<1>2. /\ drawn' \in [secrets : 0..MaxSecrets, sets : 0..MaxSets]
      /\ drawn'.sets = drawn.sets + 1 /\ drawn.sets \in Nat
  BY MfaAssumption DEF CreateCodes, MfaTypeOK
<1>3. "switchOn" \in Pcs /\ AwaitsOwn(mfaReq[r].op, "switchOn")
  BY <1>1, ServingTyped DEF Pcs, AwaitsOwn, EnablePcs
<1>4. /\ RequestsTyped' /\ NoneEnables
      /\ \A pc : pc # "switchOn" => NoneArrives(pc)
      /\ \A q \in MfaRequests : q # r => mfaReq'[q] = mfaReq[q]
      /\ AtPc(r, "switchOn")'
  BY <1>1, <1>3, ProceedMoves
<1>5. /\ fresh \subseteq CodeRow
      /\ \A row \in fresh : row.code \in Codes /\ row.code.set = drawn'.sets
  <2>1. \A row \in fresh : \E c \in Codes : c.set = drawn'.sets /\ row = [code |-> c, used |-> FALSE]
    BY DEF Unused
  <2> HIDE DEF fresh
  <2>2. ASSUME NEW row \in fresh
        PROVE  row \in CodeRow /\ row.code \in Codes /\ row.code.set = drawn'.sets
    <3>1. PICK c \in Codes : c.set = drawn'.sets /\ row = [code |-> c, used |-> FALSE]
      BY <2>1
    <3> QED
      BY <3>1 DEF CodeRow
  <2> QED
    BY <2>2
<1>6. fresh # {}
  <2> DEFINE c == [set |-> drawn'.sets, n |-> 1]
  <2>1. c \in Codes /\ c.set = drawn'.sets
    BY <1>2, MfaAssumption DEF Codes
  <2> QED
    BY <2>1
<1>7. \A c \in Codes : Unused(c) \in fresh => c.set = drawn'.sets
  BY DEF Unused
<1> HIDE DEF fresh
<1>8. MfaTypeOK'
  BY <1>1, <1>2, <1>4, <1>5 DEF MfaTypeOK, RequestsTyped, Serving
<1>9. RedeemInv'
  <2>1. \A row \in codes : row.code \in Codes /\ row.code.set \in Nat
    BY MfaAssumption DEF MfaTypeOK, CodeRow, Codes
  <2>2. \A c \in Codes : c.set \in Nat
    BY MfaAssumption DEF Codes
  <2>3. CodesDrawn'
    <3>1. \A row \in codes' : row.code.set <= drawn'.sets
      BY <1>1, <1>2, <1>5, <2>1 DEF RedeemInv, CodesDrawn
    <3>2. \A c \in Codes : history'.redeemed[c] > 0 => c.set <= drawn'.sets
      BY <1>1, <1>2, <2>2 DEF RedeemInv, CodesDrawn
    <3> QED
      BY <3>1, <3>2 DEF CodesDrawn
  <2>4. BurnsDrawn'
    <3> SUFFICES ASSUME NEW q \in MfaRequests, AtPc(q, "burn")'
                 PROVE  mfaReq'[q].code \in Codes /\ mfaReq'[q].code.set <= drawn'.sets
      BY DEF BurnsDrawn
    <3>1. AtPc(q, "burn") /\ mfaReq'[q] = mfaReq[q]
      BY <1>4 DEF NoneArrives
    <3>2. mfaReq[q].code \in Codes /\ mfaReq[q].code.set <= drawn.sets
      BY <3>1 DEF RedeemInv, BurnsDrawn
    <3> QED
      BY <1>2, <2>2, <3>1, <3>2
  <2>5. SharedBurnIsContested'
    BY <1>1, <1>4 DEF RedeemInv, SharedBurnIsContested, NoneArrives
  <2>6. RedeemedIsOver'
    <3> SUFFICES ASSUME NEW c \in Codes, history.redeemed[c] > 0, c \notin history.contested
                 PROVE  /\ Unused(c) \notin codes'
                        /\ \A q \in MfaRequests : AtPc(q, "burn")' => mfaReq'[q].code # c
      BY <1>1 DEF RedeemedIsOver, Unused
    <3>1. c.set <= drawn.sets
      BY DEF RedeemInv, CodesDrawn
    <3>2. Unused(c) \notin fresh
      BY <1>2, <1>7, <2>2, <3>1
    <3> QED
      BY <1>1, <1>4, <3>2 DEF RedeemInv, RedeemedIsOver, NoneArrives
  <2> QED
    BY <1>1, <2>3, <2>4, <2>5, <2>6 DEF RedeemInv, AcceptedOnce
<1>10. ReplaceInv'
  <2> SUFFICES ASSUME "enables overlap" \notin history.events
               PROVE  /\ \A p, q \in MfaRequests :
                            AtPc(p, "create")' => codes' = {} /\ (AtPc(q, "create")' => p = q)
                      /\ \A row \in codes' : row.code.set = drawn'.sets
    BY <1>1 DEF ReplaceInv, OneCreator, OneSetOfCodes
  <2>1. codes = {} /\ \A q \in MfaRequests : AtPc(q, "create") => q = r
    BY <1>1 DEF ReplaceInv, OneCreator
  <2>2. ~AtPc(r, "create")'
    BY <1>4 DEF AtPc
  <2> QED
    BY <1>1, <1>4, <1>5, <2>1, <2>2 DEF NoneArrives
<1>11. FactorInv'
  BY <1>1, <1>4, FactorFrame
<1>12. CodesLeft'
  BY <1>1, <1>6 DEF CodesLeft
<1> QED
  BY <1>4, <1>8, <1>9, <1>10, <1>11, <1>12

LEMMA SwitchOnMfa ==
  ASSUME MfaInv, NEW r \in MfaRequests, SwitchOn(r)
  PROVE  MfaInv'
<1> USE DEF MfaInv
<1>1. /\ AtPc(r, "switchOn") /\ mfaReq[r].pc = "switchOn" /\ Answer(r)
      /\ UNCHANGED <<codes, drawn, history>>
  BY DEF SwitchOn, AtPc
<1>2. Enabling(r)
  BY <1>1, ServingTyped DEF AtPc, Enabling, AwaitsOwn, EnablePcs
<1>3. /\ mfaUser' \in [secret : Secrets \cup {0}, enabled : BOOLEAN]
      /\ mfaUser'.secret = mfaUser.secret
  BY DEF SwitchOn, MfaTypeOK
<1>4. /\ RequestsTyped' /\ NoneEnables
      /\ \A pc : NoneArrives(pc)
      /\ \A pc : pc # "switchOn" => NoneLeaves(pc)
  BY <1>1, AnswerMoves
<1>5. MfaTypeOK'
  BY <1>1, <1>3, <1>4 DEF MfaTypeOK, RequestsTyped, Serving
<1>6. RedeemInv' /\ ReplaceInv'
  BY <1>1, <1>4, RedeemFrame, ReplaceFrame
<1>7. FactorInv'
  BY <1>1, <1>2, <1>3, <1>4, FactorFrame
<1>8. CodesLeft'
  BY <1>1, <1>4, CodesFrame
<1> QED
  BY <1>4, <1>5, <1>6, <1>7, <1>8

LEMMA StartVerifyMfa ==
  ASSUME MfaInv, NEW r \in MfaRequests, NEW op \in {"disable", "verify"},
         NEW s \in Secrets \cup {0}, NEW c \in Codes \cup {NoCode}, s = 0 <=> c # NoCode,
         StartVerify(r, op, s, c)
  PROVE  MfaInv'
<1> USE DEF MfaInv
<1> DEFINE req == [op |-> op, pc |-> "verify", secret |-> s, code |-> c]
<1>1. /\ ~Serving(r) /\ mfaReq' = [mfaReq EXCEPT ![r] = req]
      /\ UNCHANGED <<mfaUser, codes, drawn, history>>
  BY DEF StartVerify
<1>2. /\ req \in MfaRequest /\ AwaitsOwn(req.op, req.pc)
      /\ req.secret = 0 <=> req.code # NoCode
  BY DEF MfaRequest, Pcs, AwaitsOwn, EnablePcs
<1>3. req.pc = "verify" /\ req.op # "enable"
  OBVIOUS
<1> HIDE DEF req
<1>4. /\ RequestsTyped'
      /\ \A pc : pc # "verify" => NoneArrives(pc)
      /\ \A pc : NoneLeaves(pc)
      /\ \A q \in MfaRequests : q # r => mfaReq'[q] = mfaReq[q]
      /\ mfaReq'[r] = req
  BY <1>1, <1>2, <1>3, StartMoves
<1>5. NoneEnables
  BY <1>3, <1>4 DEF NoneEnables, Enabling, Serving
<1>6. MfaTypeOK'
  BY <1>1, <1>4 DEF MfaTypeOK, RequestsTyped, Serving
<1>7. RedeemInv' /\ ReplaceInv'
  BY <1>1, <1>4, RedeemFrame, ReplaceFrame
<1>8. FactorInv' /\ CodesLeft'
  BY <1>1, <1>4, <1>5, FactorFrame, CodesFrame
<1> QED
  BY <1>4, <1>6, <1>7, <1>8

(* A step that only moves requests, none of them to an await that counts.  *)
LEMMA QuietMove ==
  ASSUME MfaInv, UNCHANGED <<mfaUser, codes, drawn, history>>, RequestsTyped', NoneEnables,
         NoneArrives("burn"), NoneArrives("create"), NoneArrives("switchOn"),
         NoneLeaves("create"), NoneLeaves("switchOff")
  PROVE  MfaInv'
<1> USE DEF MfaInv
<1>1. MfaTypeOK'
  BY DEF MfaTypeOK, RequestsTyped, Serving
<1>2. RedeemInv' /\ ReplaceInv'
  BY RedeemFrame, ReplaceFrame
<1>3. FactorInv' /\ CodesLeft'
  BY FactorFrame, CodesFrame
<1> QED
  BY <1>1, <1>2, <1>3

LEMMA VerifyTotpMfa ==
  ASSUME MfaInv, NEW r \in MfaRequests, VerifyTotp(r)
  PROVE  MfaInv'
<1> USE DEF MfaInv
<1>1. /\ Serving(r) /\ mfaReq[r].pc = "verify"
      /\ UNCHANGED <<mfaUser, codes, drawn, history>>
      /\ Answer(r) \/ Accept(r) \/ Proceed(r, "lookup")
  BY DEF VerifyTotp, AtPc
<1>2. ~Enabling(r)
  BY <1>1, ServingTyped DEF Enabling, AwaitsOwn, EnablePcs
<1>3. CASE Answer(r)
  BY <1>1, <1>3, AnswerMoves, QuietMove
<1>4. CASE Accept(r)
  BY <1>1, <1>2, <1>4, AcceptMoves, QuietMove
<1>5. CASE Proceed(r, "lookup")
  <2>1. "lookup" \in Pcs /\ AwaitsOwn(mfaReq[r].op, "lookup")
    BY <1>1, ServingTyped DEF Pcs, AwaitsOwn, EnablePcs
  <2> QED
    BY <1>1, <1>5, <2>1, ProceedMoves, QuietMove
<1> QED
  BY <1>1, <1>3, <1>4, <1>5

LEMMA LookUpMfa ==
  ASSUME MfaInv, NEW r \in MfaRequests, LookUpCode(r)
  PROVE  MfaInv'
<1> USE DEF MfaInv
<1> DEFINE c == mfaReq[r].code
           shared == \E q \in MfaRequests \ {r} : AtPc(q, "burn") /\ mfaReq[q].code = c
<1>1. Serving(r) /\ mfaReq[r].pc = "lookup" /\ UNCHANGED <<mfaUser, codes, drawn>>
  BY DEF LookUpCode, AtPc
<1>2. CASE ~FoundUnused(c)
  <2>1. Answer(r) /\ UNCHANGED history
    BY <1>2 DEF LookUpCode
  <2> QED
    BY <1>1, <2>1, AnswerMoves, QuietMove
<1>3. CASE FoundUnused(c)
  <2>1. /\ Proceed(r, "burn")
        /\ history' = [history EXCEPT !.contested = IF shared THEN @ \cup {c} ELSE @]
    BY <1>3 DEF LookUpCode
  <2>2. "burn" \in Pcs /\ AwaitsOwn(mfaReq[r].op, "burn")
    BY <1>1, ServingTyped DEF Pcs, AwaitsOwn, EnablePcs
  <2>3. /\ RequestsTyped' /\ NoneEnables
        /\ \A pc : pc # "burn" => NoneArrives(pc)
        /\ \A pc : pc # "lookup" => NoneLeaves(pc)
        /\ AtPc(r, "burn")' /\ mfaReq'[r].code = c
        /\ \A q \in MfaRequests : q # r => mfaReq'[q] = mfaReq[q]
    BY <1>1, <2>1, <2>2, ProceedMoves
  <2>4. Unused(c) \in codes /\ c \in Codes
    <3>1. Unused(c) \in CodeRow /\ Unused(c) \in codes
      BY <1>3 DEF FoundUnused, MfaTypeOK
    <3> QED
      BY <3>1 DEF Unused, CodeRow
  <2>5. /\ history' \in [proven : SUBSET Secrets, redeemed : [Codes -> Nat],
                         contested : SUBSET Codes, events : SUBSET Events]
        /\ history'.proven = history.proven /\ history'.redeemed = history.redeemed
        /\ history.contested \subseteq history'.contested /\ history'.events = history.events
        /\ shared => c \in history'.contested
    <3>1. CASE shared
      <4>1. history' = [history EXCEPT !.contested = history.contested \cup {c}]
        BY <2>1, <3>1
      <4> QED
        BY <2>4, <4>1 DEF MfaTypeOK
    <3>2. CASE ~shared
      <4>1. history' = [history EXCEPT !.contested = history.contested]
        BY <2>1, <3>2
      <4> QED
        BY <3>2, <4>1 DEF MfaTypeOK
    <3> QED
      BY <3>1, <3>2
  <2>6. \A q \in MfaRequests \ {r} : AtPc(q, "burn")' => AtPc(q, "burn") /\ mfaReq'[q] = mfaReq[q]
    BY <2>3 DEF AtPc, Serving
  <2>7. MfaTypeOK'
    BY <1>1, <2>3, <2>5 DEF MfaTypeOK, RequestsTyped, Serving
  <2>8. RedeemInv'
    <3>1. CodesDrawn'
      BY <1>1, <2>5 DEF RedeemInv, CodesDrawn
    <3>2. c.set <= drawn.sets
      BY <2>4 DEF RedeemInv, CodesDrawn, Unused
    <3>3. BurnsDrawn'
      BY <1>1, <2>3, <2>4, <2>6, <3>2 DEF RedeemInv, BurnsDrawn
    <3>4. SharedBurnIsContested'
      BY <2>3, <2>5, <2>6 DEF RedeemInv, SharedBurnIsContested
    <3>5. RedeemedIsOver'
      BY <1>1, <2>3, <2>4, <2>5, <2>6 DEF RedeemInv, RedeemedIsOver, Unused
    <3>6. AcceptedOnce'
      BY <2>5 DEF RedeemInv, AcceptedOnce
    <3> QED
      BY <3>1, <3>3, <3>4, <3>5, <3>6 DEF RedeemInv
  <2>9. ReplaceInv'
    BY <1>1, <2>3, <2>5, ReplaceFrame
  <2>10. FactorInv'
    BY <1>1, <2>3, <2>5, FactorFrame
  <2>11. CodesLeft'
    BY <1>1, <2>3, <2>5, CodesFrame
  <2> QED
    BY <2>3, <2>7, <2>8, <2>9, <2>10, <2>11
<1> QED
  BY <1>2, <1>3

LEMMA BurnMfa ==
  ASSUME MfaInv, NEW r \in MfaRequests, BurnCode(r)
  PROVE  MfaInv'
<1> USE DEF MfaInv
<1> DEFINE c == mfaReq[r].code
<1>1. /\ Serving(r) /\ AtPc(r, "burn") /\ mfaReq[r].pc = "burn" /\ UNCHANGED <<mfaUser, drawn>>
  BY DEF BurnCode, AtPc
<1>2. ~Enabling(r)
  BY <1>1, ServingTyped DEF Enabling, AwaitsOwn, EnablePcs
<1>3. CASE {Unused(c), Used(c)} \cap codes = {}
  <2>1. Answer(r) /\ UNCHANGED <<codes, history>>
    BY <1>3 DEF BurnCode
  <2> QED
    BY <1>1, <2>1, AnswerMoves, QuietMove
<1>4. CASE {Unused(c), Used(c)} \cap codes # {}
  <2>1. /\ codes' = (codes \ {Unused(c)}) \cup {Used(c)} /\ Accept(r)
        /\ history' = [history EXCEPT !.redeemed[c] = @ + 1]
    BY <1>4 DEF BurnCode, Marked
  <2>2. /\ RequestsTyped' /\ NoneEnables
        /\ \A pc : pc # "clear" => NoneArrives(pc)
        /\ \A pc : pc # "burn" => NoneLeaves(pc)
        /\ ~AtPc(r, "burn")'
    BY <1>1, <1>2, <2>1, AcceptMoves
  <2>3. c \in Codes /\ c.set <= drawn.sets
    BY <1>1 DEF RedeemInv, BurnsDrawn
  <2>4. /\ history' \in [proven : SUBSET Secrets, redeemed : [Codes -> Nat],
                         contested : SUBSET Codes, events : SUBSET Events]
        /\ history'.proven = history.proven /\ history'.contested = history.contested
        /\ history'.events = history.events /\ history'.redeemed[c] = history.redeemed[c] + 1
        /\ \A d \in Codes : d # c => history'.redeemed[d] = history.redeemed[d]
    BY <2>1, <2>3 DEF MfaTypeOK
  <2>5. /\ Used(c) \in CodeRow /\ Used(c).code = c /\ Unused(c).code = c
        /\ \A d : Unused(d) # Used(c)
    BY <2>3 DEF Used, Unused, CodeRow
  <2>6. \E old \in codes : old.code = c
    BY <1>4, <2>5 DEF Used
  <2>7. MfaTypeOK'
    BY <1>1, <2>1, <2>2, <2>4, <2>5 DEF MfaTypeOK, RequestsTyped, Serving
  <2>8. RedeemInv'
    <3>1. CodesDrawn'
      <4>1. \A row \in codes' : row.code.set <= drawn'.sets
        BY <1>1, <2>1, <2>3, <2>5 DEF RedeemInv, CodesDrawn
      <4>2. \A d \in Codes : history'.redeemed[d] > 0 => d.set <= drawn'.sets
        BY <1>1, <2>3, <2>4 DEF RedeemInv, CodesDrawn
      <4> QED
        BY <4>1, <4>2 DEF CodesDrawn
    <3>2. NoneArrives("burn")
      BY <2>2
    <3>3. BurnsDrawn'
      BY <1>1, <3>2 DEF RedeemInv, BurnsDrawn, NoneArrives
    <3>4. SharedBurnIsContested'
      BY <2>4, <3>2 DEF RedeemInv, SharedBurnIsContested, NoneArrives
    <3>5. RedeemedIsOver'
      <4> SUFFICES ASSUME NEW d \in Codes, history'.redeemed[d] > 0, d \notin history.contested
                   PROVE  /\ Unused(d) \notin codes'
                          /\ \A q \in MfaRequests : AtPc(q, "burn")' => mfaReq'[q].code # d
        BY <2>4 DEF RedeemedIsOver, Unused
      <4>1. CASE d = c
        <5>1. ASSUME NEW q \in MfaRequests, AtPc(q, "burn")', mfaReq'[q].code = c PROVE FALSE
          <6>1. q # r /\ AtPc(q, "burn") /\ mfaReq[q].code = c
            BY <2>2, <3>2, <5>1 DEF NoneArrives
          <6> QED
            BY <1>1, <4>1, <6>1 DEF RedeemInv, SharedBurnIsContested
        <5> QED
          BY <2>1, <2>5, <4>1, <5>1
      <4>2. CASE d # c
        <5>1. Unused(d) \notin codes /\ \A q \in MfaRequests : AtPc(q, "burn") => mfaReq[q].code # d
          BY <2>4, <4>2 DEF RedeemInv, RedeemedIsOver
        <5> QED
          BY <2>1, <2>5, <3>2, <5>1 DEF NoneArrives
      <4> QED
        BY <4>1, <4>2
    <3>6. AcceptedOnce'
      <4>1. c \in history.contested \/ history.redeemed[c] = 0
        BY <1>1, <2>3 DEF RedeemInv, RedeemedIsOver, MfaTypeOK
      <4> QED
        BY <2>4, <4>1 DEF RedeemInv, AcceptedOnce
    <3> QED
      BY <3>1, <3>3, <3>4, <3>5, <3>6 DEF RedeemInv
  <2>9. ReplaceInv'
    <3>1. \A row \in codes' : \E old \in codes : old.code = row.code
      BY <2>1, <2>5, <2>6
    <3> QED
      BY <1>1, <2>2, <2>4, <3>1, ReplaceFrame
  <2>10. FactorInv'
    BY <1>1, <2>2, <2>4, FactorFrame
  <2>11. CodesLeft'
    BY <1>1, <2>1, <2>2, <2>4, CodesFrame
  <2> QED
    BY <2>2, <2>7, <2>8, <2>9, <2>10, <2>11
<1> QED
  BY <1>3, <1>4

LEMMA ClearMfa ==
  ASSUME MfaInv, NEW r \in MfaRequests, ClearCodes(r)
  PROVE  MfaInv'
<1> USE DEF MfaInv
<1>1. /\ Serving(r) /\ mfaReq[r].pc = "clear" /\ Proceed(r, "switchOff")
      /\ codes' = {} /\ UNCHANGED <<mfaUser, drawn, history>>
  BY DEF ClearCodes, AtPc, RowsAfterDelete
<1>2. "switchOff" \in Pcs /\ AwaitsOwn(mfaReq[r].op, "switchOff")
  BY <1>1, ServingTyped DEF Pcs, AwaitsOwn, EnablePcs
<1>3. /\ RequestsTyped' /\ NoneEnables
      /\ \A pc : pc # "switchOff" => NoneArrives(pc)
      /\ AtPc(r, "switchOff")'
  BY <1>1, <1>2, ProceedMoves
<1>4. MfaTypeOK'
  BY <1>1, <1>3 DEF MfaTypeOK, RequestsTyped, Serving
<1>5. RedeemInv' /\ ReplaceInv'
  BY <1>1, <1>3, RedeemFrame, ReplaceFrame
<1>6. FactorInv'
  BY <1>1, <1>3, FactorFrame
<1>7. CodesLeft'
  BY <1>3 DEF CodesLeft
<1> QED
  BY <1>3, <1>4, <1>5, <1>6, <1>7

LEMMA SwitchOffMfa ==
  ASSUME MfaInv, NEW r \in MfaRequests, SwitchOff(r)
  PROVE  MfaInv'
<1> USE DEF MfaInv
<1> DEFINE overtaken == \E q \in MfaRequests : Enabling(q)
<1>1. /\ Serving(r) /\ mfaReq[r].pc = "switchOff" /\ Answer(r)
      /\ mfaUser' = [secret |-> 0, enabled |-> FALSE]
      /\ Note("factor replaced", overtaken) /\ UNCHANGED <<codes, drawn>>
      /\ overtaken \in BOOLEAN /\ "factor replaced" \in Events
  BY DEF SwitchOff, AtPc, Events
<1>2. /\ history' \in [proven : SUBSET Secrets, redeemed : [Codes -> Nat],
                       contested : SUBSET Codes, events : SUBSET Events]
      /\ history'.proven = history.proven /\ history'.redeemed = history.redeemed
      /\ history'.contested = history.contested /\ history.events \subseteq history'.events
      /\ overtaken => "factor replaced" \in history'.events
  BY <1>1, Noted
<1>3. /\ RequestsTyped' /\ NoneEnables
      /\ \A pc : NoneArrives(pc)
      /\ \A pc : pc # "switchOff" => NoneLeaves(pc)
  BY <1>1, AnswerMoves
<1>4. MfaTypeOK'
  BY <1>1, <1>2, <1>3 DEF MfaTypeOK, RequestsTyped, Serving
<1>5. RedeemInv' /\ ReplaceInv'
  BY <1>1, <1>2, <1>3, RedeemFrame, ReplaceFrame
<1>6. FactorInv'
  BY <1>1, <1>2, <1>3 DEF FactorInv, EnablingCurrent, EnabledProven, NoneEnables
<1>7. CodesLeft'
  <2>1. \A q \in MfaRequests : AtPc(q, "switchOn") => Enabling(q)
    BY ServingTyped DEF AtPc, Enabling, AwaitsOwn, EnablePcs
  <2> QED
    BY <1>1, <1>2, <1>3, <2>1 DEF CodesLeft, NoneArrives
<1> QED
  BY <1>3, <1>4, <1>5, <1>6, <1>7

LEMMA FailureMfa ==
  ASSUME MfaInv, NEW r \in MfaRequests, MfaFails(r)
  PROVE  MfaInv'
<1> USE DEF MfaInv
<1> DEFINE broken == mfaReq[r].pc \in {"create", "switchOff"}
<1>1. /\ Answer(r) /\ Note("half done", broken) /\ UNCHANGED <<mfaUser, codes, drawn>>
      /\ broken \in BOOLEAN /\ "half done" \in Events
  <2>1. broken \in BOOLEAN /\ "half done" \in Events
    BY DEF Events
  <2>2. Answer(r) /\ Note("half done", broken) /\ UNCHANGED <<mfaUser, codes, drawn>>
    BY DEF MfaFails
  <2> QED
    BY <2>1, <2>2
<1>2. /\ history' \in [proven : SUBSET Secrets, redeemed : [Codes -> Nat],
                       contested : SUBSET Codes, events : SUBSET Events]
      /\ history'.proven = history.proven /\ history'.redeemed = history.redeemed
      /\ history'.contested = history.contested /\ history.events \subseteq history'.events
      /\ broken => "half done" \in history'.events
  BY <1>1, Noted
<1>3. /\ RequestsTyped' /\ NoneEnables
      /\ \A pc : NoneArrives(pc)
      /\ \A pc : pc # mfaReq[r].pc => NoneLeaves(pc)
  BY <1>1, AnswerMoves
<1>4. MfaTypeOK'
  BY <1>1, <1>2, <1>3 DEF MfaTypeOK, RequestsTyped, Serving
<1>5. RedeemInv' /\ ReplaceInv' /\ FactorInv'
  BY <1>1, <1>2, <1>3, RedeemFrame, ReplaceFrame, FactorFrame
<1>6. CodesLeft'
  BY <1>1, <1>2, <1>3, CodesFrame
<1> QED
  BY <1>3, <1>4, <1>5, <1>6

LEMMA NextMfa == MfaInv /\ [MfaNext]_mfaVars => MfaInv'
<1> SUFFICES ASSUME MfaInv, [MfaNext]_mfaVars PROVE MfaInv'
  OBVIOUS
<1>1. CASE UNCHANGED mfaVars
  <2>1. UNCHANGED <<mfaUser, codes, mfaReq, drawn, history>>
    BY <1>1 DEF mfaVars
  <2>2. RequestsTyped' /\ NoneEnables /\ \A pc : NoneArrives(pc) /\ NoneLeaves(pc)
    BY <2>1 DEF MfaInv, RequestsTyped, NoneEnables, NoneArrives, NoneLeaves, AtPc, Enabling, Serving
  <2> QED
    BY <2>1, <2>2, QuietMove
<1>2. CASE Setup
  BY <1>2, SetupMfa
<1>3. ASSUME NEW r \in MfaRequests, EnableStep(r) PROVE MfaInv'
  BY <1>3, StartEnableMfa, DeleteMfa, CreateMfa, SwitchOnMfa DEF EnableStep
<1>4. ASSUME NEW r \in MfaRequests, NEW op \in {"disable", "verify"}, NEW s \in 1..drawn.secrets,
             StartVerify(r, op, s, NoCode)
      PROVE  MfaInv'
  <2>1. s \in Secrets /\ s # 0
    BY MfaAssumption DEF MfaInv, MfaTypeOK, Secrets
  <2> QED
    BY <1>4, <2>1, StartVerifyMfa
<1>5. ASSUME NEW r \in MfaRequests, NEW op \in {"disable", "verify"}, NEW c \in Given,
             StartVerify(r, op, 0, c)
      PROVE  MfaInv'
  <2>1. c \in Codes /\ c # NoCode
    BY MfaAssumption DEF Given, Codes, NoCode
  <2> QED
    BY <1>5, <2>1, StartVerifyMfa
<1>6. ASSUME NEW r \in MfaRequests, VerifyStep(r) PROVE MfaInv'
  BY <1>4, <1>5, <1>6, VerifyTotpMfa, LookUpMfa, BurnMfa, ClearMfa, SwitchOffMfa DEF VerifyStep
<1>7. ASSUME NEW r \in MfaRequests, MfaFails(r) PROVE MfaInv'
  BY <1>7, FailureMfa
<1> QED
  BY <1>1, <1>2, <1>3, <1>6, <1>7 DEF MfaNext

LEMMA AlwaysMfa == MfaSpec => []MfaInv
  BY InitMfa, NextMfa, PTL DEF MfaSpec

(* A recovery code is accepted once unless two requests look it up before  *)
(* either burns it, and the codes that still work are the set shown last   *)
(* unless two enables overlap (mfa.service.ts 76-161).                     *)
THEOREM RecoveryCodesAlwaysHold == MfaSpec => []RecoveryCodesHold
<1>1. MfaInv => RecoveryCodesHold
  BY DEF MfaInv, RedeemInv, ReplaceInv, RecoveryCodesHold
<1> QED
  BY <1>1, AlwaysMfa, PTL

(* Whoever has MFA on has a secret he has proved to hold and recovery      *)
(* codes, unless a setup or disable overtook an enable, or a handler       *)
(* failed between its statements (mfa.service.ts 59-119).                  *)
THEOREM FactorStaysIntact == MfaSpec => []FactorIntact
<1>1. MfaInv => FactorIntact
  BY DEF MfaInv, FactorInv, EnabledProven, CodesLeft, FactorIntact
<1> QED
  BY <1>1, AlwaysMfa, PTL

-----------------------------------------------------------------------------
(* The rate limiter, for any limit, time to live and length of a block.    *)

USE DEF MaxHitsPerTick


(* A request that is let through has been counted, so the counter bounds   *)
(* what it has let through, however many blocked requests it counts too.   *)
PassedWereCounted == passed <= hits.count

LimitInv == ThrottlerTypeOK /\ PassedWereCounted /\ LimitHolds

LEMMA InitLimit == ThrottlerInit => LimitInv
  BY ThrottlerAssumption
  DEF ThrottlerInit, LimitInv, ThrottlerTypeOK, PassedWereCounted, LimitHolds

(* INCR, with the expiry set on the first hit only, leaves a live counter. *)
LEMMA CountedTyped ==
  ASSUME ThrottlerTypeOK
  PROVE  /\ Counted = [count |-> hits.count + 1, left |-> Counted.left]
         /\ Counted.left \in 1..Ttl
  BY ThrottlerAssumption DEF ThrottlerTypeOK, Counted

LEMMA IncrementLimit == LimitInv /\ Increment => LimitInv'
<1> SUFFICES ASSUME LimitInv, Increment PROVE LimitInv'
  OBVIOUS
<1> USE DEF LimitInv
<1>1. ThrottlerTypeOK'
  <2>1. hits' \in [count : Nat, left : 0..Ttl] /\ ~(hits'.count = 0) /\ ~(hits'.left = 0)
    BY CountedTyped, ThrottlerAssumption DEF Increment, ThrottlerTypeOK
  <2>2. blockLeft' \in 0..BlockDuration
    BY ThrottlerAssumption DEF Increment, ThrottlerTypeOK
  <2>3. recent' \in [1..Ttl -> 0..MaxHitsPerTick]
    <3>1. 1 \in 1..Ttl
      BY ThrottlerAssumption
    <3>2. recent[1] + 1 \in 0..MaxHitsPerTick
      BY <3>1, ThrottlerAssumption DEF Increment, ThrottlerTypeOK
    <3> QED
      BY <3>1, <3>2 DEF Increment, ThrottlerTypeOK
  <2> QED
    BY <2>1, <2>2, <2>3 DEF Increment, ThrottlerTypeOK
<1>2. passed' <= hits'.count /\ passed' <= Limit
  <2>1. hits'.count = hits.count + 1 /\ hits.count \in Nat /\ passed \in Nat
    BY CountedTyped DEF Increment, ThrottlerTypeOK
  <2>2. CASE Blocks
    BY <2>1, <2>2, ThrottlerAssumption DEF Increment, PassedWereCounted, LimitHolds
  <2>3. CASE ~Blocks
    <3>1. hits'.count <= Limit
      BY <2>1, <2>3, ThrottlerAssumption DEF Increment, Blocks, Over
    <3> QED
      BY <2>1, <2>3, <3>1, ThrottlerAssumption DEF Increment, PassedWereCounted
  <2> QED
    BY <2>2, <2>3
<1> QED
  BY <1>1, <1>2 DEF PassedWereCounted, LimitHolds

(* A counter that expires forgets what it has let through with its hits.   *)
LEMMA TickLimit == LimitInv /\ Tick => LimitInv'
<1> SUFFICES ASSUME LimitInv, Tick PROVE LimitInv'
  OBVIOUS
<1> USE DEF LimitInv
<1>1. ThrottlerTypeOK'
  <2>1. hits' \in [count : Nat, left : 0..Ttl] /\ (hits'.count = 0 <=> hits'.left = 0)
    BY ThrottlerAssumption DEF Tick, ThrottlerTypeOK
  <2>2. blockLeft' \in 0..BlockDuration
    BY ThrottlerAssumption DEF Tick, ThrottlerTypeOK
  <2>3. recent' \in [1..Ttl -> 0..MaxHitsPerTick]
    BY ThrottlerAssumption DEF Tick, ThrottlerTypeOK
  <2>4. passed' \in Nat
    BY DEF Tick, ThrottlerTypeOK
  <2> QED
    BY <2>1, <2>2, <2>3, <2>4 DEF Tick, ThrottlerTypeOK
<1>2. passed' <= hits'.count /\ passed' <= Limit
  BY ThrottlerAssumption DEF Tick, ThrottlerTypeOK, PassedWereCounted, LimitHolds
<1> QED
  BY <1>1, <1>2 DEF PassedWereCounted, LimitHolds

LEMMA NextLimit == LimitInv /\ [ThrottlerNext]_throttlerVars => LimitInv'
<1> SUFFICES ASSUME LimitInv, [ThrottlerNext]_throttlerVars PROVE LimitInv'
  OBVIOUS
<1>1. CASE Increment
  BY <1>1, IncrementLimit
<1>2. CASE FailOpen \/ UNCHANGED throttlerVars
  BY <1>2 DEF FailOpen, throttlerVars, LimitInv, ThrottlerTypeOK, PassedWereCounted, LimitHolds
<1>3. CASE Tick
  BY <1>3, TickLimit
<1>4. CASE RedisBreaks
  BY <1>4, ThrottlerAssumption
  DEF RedisBreaks, LimitInv, ThrottlerTypeOK, PassedWereCounted, LimitHolds
<1> QED
  BY <1>1, <1>2, <1>3, <1>4 DEF ThrottlerNext

LEMMA AlwaysLimit == ThrottlerSpec => []LimitInv
  BY InitLimit, NextLimit, PTL DEF ThrottlerSpec

(* The counter and its expiry exist together, so a counter never stands    *)
(* for ever: a PEXPIRE that is lost would shut a client out for good.      *)
THEOREM ThrottlerTypeCorrect == ThrottlerSpec => []ThrottlerTypeOK
  BY AlwaysLimit, PTL DEF LimitInv

(* No counter lets more than limit requests through while Redis answers,   *)
(* for any limit, time to live and block (redis-throttler.storage.ts).     *)
THEOREM NeverOverLimit == ThrottlerSpec => []LimitHolds
  BY AlwaysLimit, PTL DEF LimitInv

(* The counter holds no more hits than came in since it was created, and   *)
(* it is no older than its time to live.                                   *)
CounterAge == IF hits.count = 0 THEN 0 ELSE Ttl - hits.left + 1
CountedRecently == hits.count <= Cardinality(HitsWithin(CounterAge))

LEMMA HitsFinite ==
  ASSUME NEW n \in 0..Ttl, NEW S \in SUBSET ((1..n) \X (1..MaxHitsPerTick))
  PROVE  IsFiniteSet(S) /\ Cardinality(S) \in Nat
<1>1. IsFiniteSet(1..n) /\ IsFiniteSet(1..MaxHitsPerTick)
  BY ThrottlerAssumption, FS_Interval
<1>2. IsFiniteSet((1..n) \X (1..MaxHitsPerTick))
  BY <1>1, FS_Product
<1> QED
  BY <1>2, FS_Subset, FS_CardinalityType

LEMMA AgeTyped == ThrottlerTypeOK => CounterAge \in 0..Ttl
<1> SUFFICES ASSUME ThrottlerTypeOK PROVE CounterAge \in 0..Ttl
  OBVIOUS
<1>1. hits.count \in Nat /\ hits.left \in 0..Ttl /\ (hits.count = 0 <=> hits.left = 0)
  BY DEF ThrottlerTypeOK
<1> QED
  BY <1>1, ThrottlerAssumption DEF CounterAge

(* A hit adds itself to the hits of the last tick, and of any longer time. *)
LEMMA HitAdds ==
  ASSUME ThrottlerTypeOK, Increment, NEW n \in 1..Ttl
  PROVE  Cardinality(HitsWithin(n)) + 1 <= Cardinality(HitsWithin(n)')
<1> DEFINE hit == <<1, recent[1] + 1>>
<1>1. /\ recent \in [1..Ttl -> 0..MaxHitsPerTick] /\ 1 \in 1..Ttl
      /\ recent[1] \in 0..MaxHitsPerTick /\ recent[1] + 1 \in 1..MaxHitsPerTick
      /\ recent' = [recent EXCEPT ![1] = recent[1] + 1]
  BY ThrottlerAssumption DEF Increment, ThrottlerTypeOK
<1>2. recent'[1] = recent[1] + 1 /\ \A i \in 1..Ttl : i # 1 => recent'[i] = recent[i]
  BY <1>1
<1>3. hit \in HitsWithin(n)' /\ hit \notin HitsWithin(n)
  BY <1>1, <1>2, ThrottlerAssumption DEF HitsWithin
<1>4. ASSUME NEW h \in HitsWithin(n) PROVE h \in HitsWithin(n)'
  <2>1. h \in (1..n) \X (1..MaxHitsPerTick) /\ h[2] <= recent[h[1]]
    BY DEF HitsWithin
  <2>2. h[1] \in 1..Ttl /\ h[2] \in Int
    BY <2>1, ThrottlerAssumption
  <2>3. h[2] <= recent'[h[1]]
    BY <1>1, <1>2, <2>1, <2>2, ThrottlerAssumption
  <2> QED
    BY <2>1, <2>3 DEF HitsWithin
<1>5. HitsWithin(n) \cup {hit} \in SUBSET HitsWithin(n)'
  BY <1>3, <1>4
<1>6. n \in 0..Ttl
  BY ThrottlerAssumption
<1>7. /\ IsFiniteSet(HitsWithin(n)) /\ Cardinality(HitsWithin(n)) \in Nat
      /\ IsFiniteSet(HitsWithin(n)') /\ Cardinality(HitsWithin(n)') \in Nat
  <2>1. HitsWithin(n) \in SUBSET ((1..n) \X (1..MaxHitsPerTick))
    BY DEF HitsWithin
  <2>2. HitsWithin(n)' \in SUBSET ((1..n) \X (1..MaxHitsPerTick))
    BY DEF HitsWithin
  <2> QED
    BY <1>6, <2>1, <2>2, HitsFinite
<1>8. Cardinality(HitsWithin(n) \cup {hit}) = Cardinality(HitsWithin(n)) + 1
  BY <1>3, <1>7, FS_AddElement
<1>9. Cardinality(HitsWithin(n) \cup {hit}) <= Cardinality(HitsWithin(n)')
  BY <1>5, <1>7, FS_Subset
<1> QED
  BY <1>8, <1>9

LEMMA IncrementCounts ==
  ASSUME LimitInv, CountedRecently, Increment
  PROVE  CountedRecently' /\ hits'.count <= RecentHits'
<1>0. ThrottlerTypeOK /\ ThrottlerTypeOK'
  BY IncrementLimit DEF LimitInv
<1>1. /\ hits.count \in Nat /\ hits.left \in 0..Ttl /\ (hits.count = 0 <=> hits.left = 0)
      /\ hits'.count = hits.count + 1
      /\ hits'.left = IF hits.count = 0 THEN Ttl ELSE hits.left
  BY <1>0 DEF Increment, Counted, ThrottlerTypeOK
<1>2. PICK n \in 1..Ttl : n = IF hits.count = 0 THEN 1 ELSE CounterAge
  BY <1>0, <1>1, ThrottlerAssumption DEF CounterAge
<1>3. CounterAge' = n
  BY <1>1, <1>2, ThrottlerAssumption DEF CounterAge
<1>4. n \in 0..Ttl /\ Ttl \in 0..Ttl
  BY ThrottlerAssumption
<1>5. /\ HitsWithin(n) \in SUBSET ((1..n) \X (1..MaxHitsPerTick))
      /\ HitsWithin(n)' \in SUBSET ((1..n) \X (1..MaxHitsPerTick))
      /\ HitsWithin(Ttl)' \in SUBSET ((1..Ttl) \X (1..MaxHitsPerTick))
  BY DEF HitsWithin
<1>6. /\ Cardinality(HitsWithin(n)) \in Nat /\ Cardinality(HitsWithin(n)') \in Nat
      /\ IsFiniteSet(HitsWithin(Ttl)') /\ Cardinality(HitsWithin(Ttl)') \in Nat
  BY <1>4, <1>5, HitsFinite
<1>7. hits.count <= Cardinality(HitsWithin(n))
  BY <1>1, <1>2, <1>6 DEF CountedRecently
<1>8. hits'.count <= Cardinality(HitsWithin(n)')
  BY <1>0, <1>1, <1>6, <1>7, HitAdds
<1>9. CountedRecently'
  BY <1>3, <1>8 DEF CountedRecently
<1>10. HitsWithin(n)' \in SUBSET HitsWithin(Ttl)'
  BY ThrottlerAssumption DEF HitsWithin
<1>11. Cardinality(HitsWithin(n)') <= RecentHits'
  BY <1>6, <1>10, FS_Subset DEF RecentHits
<1>12. RecentHits' \in Nat
  BY <1>6 DEF RecentHits
<1> QED
  BY <1>1, <1>6, <1>8, <1>9, <1>11, <1>12

(* A tick makes every hit one tick older, and the counter too.             *)
LEMMA HitsAge ==
  ASSUME ThrottlerTypeOK, Tick, NEW n \in 0..Ttl, n + 1 \in 0..Ttl
  PROVE  /\ Cardinality(HitsWithin(n)) <= Cardinality(HitsWithin(n + 1)')
         /\ Cardinality(HitsWithin(n)) \in Nat /\ Cardinality(HitsWithin(n + 1)') \in Nat
<1> DEFINE S == HitsWithin(n)
           T == HitsWithin(n + 1)'
           older == [hit \in S |-> <<hit[1] + 1, hit[2]>>]
<1>1. /\ S \in SUBSET ((1..n) \X (1..MaxHitsPerTick))
      /\ T \in SUBSET ((1..(n + 1)) \X (1..MaxHitsPerTick))
  BY DEF HitsWithin
<1>2. IsFiniteSet(S) /\ Cardinality(S) \in Nat /\ IsFiniteSet(T) /\ Cardinality(T) \in Nat
  BY <1>1, HitsFinite
<1>3. ASSUME NEW hit \in S PROVE <<hit[1] + 1, hit[2]>> \in T
  <2>1. hit[1] \in 1..n /\ hit[2] \in 1..MaxHitsPerTick /\ hit[2] <= recent[hit[1]]
    BY DEF HitsWithin
  <2>2. hit[1] + 1 \in 1..Ttl /\ hit[1] + 1 # 1 /\ (hit[1] + 1) - 1 = hit[1]
        /\ hit[1] + 1 \in 1..(n + 1)
    BY <2>1, ThrottlerAssumption
  <2>3. recent'[hit[1] + 1] = recent[hit[1]]
    BY <2>2 DEF Tick
  <2> QED
    BY <2>1, <2>2, <2>3 DEF HitsWithin
<1>4. \A a, b \in S : <<a[1] + 1, a[2]>> = <<b[1] + 1, b[2]>> => a = b
  <2>1. \A a \in S : a = <<a[1], a[2]>> /\ a[1] \in Int
    BY <1>1
  <2> QED
    BY <2>1
<1> HIDE DEF S, T
<1>5. older \in Injection(S, T)
  BY <1>3, <1>4 DEF Injection, IsInjective
<1>6. Cardinality(S) <= Cardinality(T)
  BY <1>2, <1>5, FS_Injection
<1> QED
  BY <1>2, <1>6 DEF S, T

LEMMA TickCounts ==
  ASSUME LimitInv, CountedRecently, Tick
  PROVE  CountedRecently'
<1>1. /\ ThrottlerTypeOK /\ hits.count \in Nat /\ hits.left \in 0..Ttl
      /\ (hits.count = 0 <=> hits.left = 0)
  BY DEF LimitInv, ThrottlerTypeOK
<1>2. CASE hits.left > 1
  <2>1. hits'.count = hits.count /\ hits'.left = hits.left - 1
    BY <1>1, <1>2 DEF Tick, ThrottlerTypeOK
  <2>2. PICK n \in 0..Ttl : n = CounterAge
    BY <1>1, AgeTyped
  <2>3. CounterAge' = n + 1 /\ n + 1 \in 0..Ttl
    BY <1>1, <1>2, <2>1, <2>2, ThrottlerAssumption DEF CounterAge
  <2>4. hits.count <= Cardinality(HitsWithin(n))
    BY <2>2 DEF CountedRecently
  <2>5. hits'.count <= Cardinality(HitsWithin(n + 1)')
    BY <1>1, <2>1, <2>3, <2>4, HitsAge
  <2> QED
    BY <2>3, <2>5 DEF CountedRecently
<1>3. CASE ~(hits.left > 1)
  <2>1. hits'.count = 0
    BY <1>3 DEF Tick
  <2>2. HitsWithin(0)' = {}
    BY DEF HitsWithin
  <2>3. CounterAge' = 0
    BY <2>1 DEF CounterAge
  <2> QED
    BY <2>1, <2>2, <2>3, FS_EmptySet DEF CountedRecently
<1> QED
  BY <1>2, <1>3

LEMMA NextCounts ==
  LimitInv /\ CountedRecently /\ [ThrottlerNext]_throttlerVars => CountedRecently'
<1> SUFFICES ASSUME LimitInv, CountedRecently, [ThrottlerNext]_throttlerVars
             PROVE  CountedRecently'
  OBVIOUS
<1>1. CASE Increment
  BY <1>1, IncrementCounts
<1>2. CASE Tick
  BY <1>2, TickCounts
<1>3. CASE UNCHANGED <<hits, recent>>
  BY <1>3 DEF CountedRecently, CounterAge, HitsWithin
<1>4. CASE hits' = [count |-> 0, left |-> 0] /\ UNCHANGED recent
  <2>1. HitsWithin(0)' = {} /\ CounterAge' = 0
    BY <1>4 DEF HitsWithin, CounterAge
  <2> QED
    BY <1>4, <2>1, FS_EmptySet DEF CountedRecently
<1> QED
  BY <1>1, <1>2, <1>3, <1>4 DEF ThrottlerNext, FailOpen, RedisBreaks, throttlerVars

(* A client is newly blocked only when it has sent more than limit         *)
(* requests within ttl, for any limit, time to live and block: the counter *)
(* forgets no later than its hits grow old (redis-throttler.storage.ts).   *)
THEOREM BlocksAreEarned == ThrottlerSpec => BlockEarned
<1>1. ThrottlerInit => CountedRecently
  <2>1. HitsWithin(0) = {}
    BY DEF HitsWithin
  <2> QED
    BY <2>1, FS_EmptySet DEF ThrottlerInit, CountedRecently, CounterAge
<1>2. LimitInv /\ CountedRecently /\ [ThrottlerNext]_throttlerVars
      => [blockLeft = 0 /\ blockLeft' > 0 => RecentHits' > Limit]_throttlerVars
  <2> SUFFICES ASSUME LimitInv, CountedRecently, ThrottlerNext, blockLeft = 0, blockLeft' > 0
               PROVE  RecentHits' > Limit
    BY DEF throttlerVars
  <2>1. Increment
    BY DEF ThrottlerNext, FailOpen, Tick, RedisBreaks, throttlerVars
  <2>2. hits'.count > Limit
    BY <2>1 DEF Increment, Over
  <2>3. hits'.count <= RecentHits' /\ hits'.count \in Nat
    BY <2>1, IncrementCounts, IncrementLimit DEF LimitInv, ThrottlerTypeOK
  <2>4. RecentHits' \in Nat
    <3>1. HitsWithin(Ttl)' \in SUBSET ((1..Ttl) \X (1..MaxHitsPerTick)) /\ Ttl \in 0..Ttl
      BY ThrottlerAssumption DEF HitsWithin
    <3> QED
      BY <3>1, HitsFinite DEF RecentHits
  <2> QED
    BY <2>2, <2>3, <2>4, ThrottlerAssumption
<1> QED
  BY <1>1, <1>2, AlwaysLimit, NextCounts, PTL DEF ThrottlerSpec, BlockEarned
=============================================================================
