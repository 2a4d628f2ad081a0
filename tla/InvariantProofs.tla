-------------------------- MODULE InvariantProofs --------------------------
(***************************************************************************)
(* IssuerInv is inductive, no step changes a right once given              *)
(* (RightsKept), and what follows from the two. One lemma per action, as   *)
(* in IssuerProofs. The frame lemmas say that a part of the invariant      *)
(* about one handler or record survives a step that keeps rights and       *)
(* leaves that handler or the record's granter alone; HandlerStep puts     *)
(* them together, so that an action's lemma is left with the acting        *)
(* handler, the codes and the record it adds.                              *)
(*                                                                         *)
(* At the end, KeyInv: it is inductive and implies KeyBinding.  Its first  *)
(* lemmas say which part of the state a step of one handler leaves alone;  *)
(* the proofs about nonces and about the refinement rest on them too.      *)
(***************************************************************************)
EXTENDS IssuerProofs

(* A handler that is neither granting nor done has taken and granted       *)
(* nothing.                                                                *)
LEMMA IdleHandler ==
  ASSUME NEW h, TakerInv(h), pc[h] \notin {"grant", "done"}
  PROVE  /\ local[h].offer = Empty /\ local[h].token = Empty
         /\ ~Answered(h) /\ ~Granted(h)
  BY DEF TakerInv, Granted

(* Such a handler keeps its part of the invariant when it moves or fails.  *)
LEMMA IdleTaker ==
  ASSUME NEW h, TakerInv(h), pc[h] \notin {"grant", "done"},
         local'[h].offer = local[h].offer, local'[h].token = local[h].token,
         pc'[h] # "grant", Answered(h)' <=> pc'[h] = "done", ~Granted(h)'
  PROVE  TakerInv(h)'
<1>1. local'[h].offer = Empty /\ local'[h].token = Empty
  BY IdleHandler
<1> QED
  BY <1>1 DEF TakerInv

(* What a handler took survives the steps of the others.                   *)
LEMMA TakerFrame ==
  ASSUME NEW h, TakerInv(h), RightsKept,
         UNCHANGED <<pc[h], req[h], local[h], reply[h]>>
  PROVE  TakerInv(h)'
<1>1. (Answered(h)' <=> Answered(h)) /\ (Granted(h)' <=> Granted(h))
  BY DEF Answered, Granted
<1>2. local[h].offer \in DOMAIN offers =>
        /\ local[h].offer \in DOMAIN offers'
        /\ offers[local[h].offer].used => offers'[local[h].offer].used
        /\ PinGiven(h, offers[local[h].offer].offer)'
             <=> PinGiven(h, offers[local[h].offer].offer)
  BY DEF RightsKept, PinGiven
<1> QED
  BY <1>1, <1>2 DEF TakerInv

(* What a handler resolved and issued survives steps that keep rights.     *)
LEMMA IssueFrame ==
  ASSUME NEW h, IssueInv(h), RightsKept,
         UNCHANGED <<req[h], local[h].config, local[h].credential>>
  PROVE  IssueInv(h)'
  BY DEF IssueInv, RightsKept, Issued, Candidates

(* A record keeps its granter when no granter changes.                     *)
LEMMA RecordFrame ==
  ASSUME NEW t \in DOMAIN records, RecordInv(t), RightsKept,
         \A h \in Handlers : TakerInv(h),
         \A h \in Handlers : Granted(h) => UNCHANGED <<local[h], reply[h]>>
  PROVE  RecordInv(t)'
<1>1. PICK h \in Handlers :
        /\ Granted(h) /\ reply[h].token = t
        /\ records[t].offer = local[h].offer
        /\ records[t].subject = offers[local[h].offer].offer.subject
        /\ records[t].configs = offers[local[h].offer].offer.configs
  BY DEF RecordInv
<1>2. local[h].offer \in DOMAIN offers
  BY <1>1 DEF TakerInv
<1>3. /\ records'[t].offer = records[t].offer
      /\ records'[t].subject = records[t].subject
      /\ records'[t].configs = records[t].configs
      /\ offers'[local[h].offer].offer = offers[local[h].offer].offer
  BY <1>2 DEF RightsKept
<1>4. local'[h] = local[h] /\ reply'[h] = reply[h] /\ Granted(h)'
  BY <1>1 DEF Granted, Answered
<1>5. /\ reply'[h].token = t
      /\ records'[t].offer = local'[h].offer
      /\ records'[t].subject = offers'[local'[h].offer].offer.subject
      /\ records'[t].configs = offers'[local'[h].offer].offer.configs
  BY <1>1, <1>3, <1>4
<1> QED
  BY <1>4, <1>5 DEF RecordInv

(* A step of handler h: what is left to show is about h, about the codes,  *)
(* and about a record the step adds.                                       *)
LEMMA HandlerStep ==
  ASSUME IssuerInv, TypeOK', RightsKept, NEW h \in Handlers, pc[h] # "done",
         UNCHANGED req,
         \A g \in Handlers \ {h} : UNCHANGED <<pc[g], local[g], reply[g]>>,
         TakerInv(h)', IssueInv(h)', CodeInv',
         \A t \in DOMAIN records' \ DOMAIN records : RecordInv(t)'
  PROVE  IssuerInv'
<1>1. ASSUME NEW g \in Handlers \ {h} PROVE TakerInv(g)' /\ IssueInv(g)'
  BY TakerFrame, IssueFrame DEF IssuerInv
<1>2. ASSUME NEW t \in DOMAIN records PROVE RecordInv(t)'
  <2>1. ~Granted(h)
    BY DEF IssuerInv, TakerInv, Granted
  <2> QED
    BY <2>1, RecordFrame DEF IssuerInv
<1> QED
  BY <1>1, <1>2 DEF IssuerInv

(* Codes keep their takers when no offer and no taker changes.             *)
LEMMA CodeFrame ==
  ASSUME CodeInv, UNCHANGED offers,
         \A g \in Handlers : local'[g].offer = local[g].offer
  PROVE  CodeInv'
  BY DEF CodeInv

-----------------------------------------------------------------------------
(* Steps that touch no offer, no record and no taken code. *)

(* A handler that is not past Consume answers with no token. *)
LEMMA QuietStep ==
  ASSUME IssuerInv, TypeOK', NEW h \in Handlers, NEW p \in PCs, Goto(h, p),
         pc[h] \notin {"grant", "done"}, p # "grant",
         UNCHANGED <<offers, req>>, RightsKept, DOMAIN records' = DOMAIN records,
         \A g \in Handlers \ {h} : UNCHANGED <<local[g], reply[g]>>,
         local'[h].offer = local[h].offer, local'[h].token = local[h].token,
         Answered(h)' <=> p = "done", ~Granted(h)',
         IssueInv(h)'
  PROVE  IssuerInv'
<1>1. pc'[h] = p /\ \A g \in Handlers \ {h} : pc'[g] = pc[g]
  BY DEF Goto, IssuerInv, TypeOK
<1>2. TakerInv(h)'
  BY <1>1, IdleTaker DEF IssuerInv
<1>3. CodeInv'
  BY CodeFrame DEF IssuerInv
<1> QED
  BY <1>1, <1>2, <1>3, HandlerStep

(* The reply of a failing handler. *)
LEMMA FailReplied ==
  ASSUME TypeOK, NEW h \in Handlers, NEW code \in ErrorCodes, Fail(h, code)
  PROVE  /\ Answered(h)' /\ ~Granted(h)' /\ Goto(h, "done")
         /\ \A g \in Handlers \ {h} : reply'[g] = reply[g]
<1> DEFINE r == [error |-> code, token |-> Empty, cNonce |-> Empty,
                 credential |-> Empty]
<1>1. r \in Reply
  BY DEF Reply, Optional
<1>2. r # Empty /\ r.token = Empty
  BY <1>1, EmptyAssumption
<1>3. Goto(h, "done") /\ reply' = [reply EXCEPT ![h] = r]
  BY DEF Fail, Answer
<1> HIDE DEF r
<1>4. reply'[h] = r /\ \A g \in Handlers \ {h} : reply'[g] = reply[g]
  BY <1>3 DEF TypeOK
<1> QED
  BY <1>2, <1>3, <1>4 DEF Answered, Granted

(* An error answer of a handler that has taken no offer.                   *)
LEMMA FailStep ==
  ASSUME IssuerInv, TypeOK', NEW h \in Handlers, NEW code \in ErrorCodes,
         Fail(h, code), pc[h] \notin {"grant", "done"},
         UNCHANGED <<offers, records, req, local>>
  PROVE  IssuerInv'
<1>1. /\ Answered(h)' /\ ~Granted(h)' /\ Goto(h, "done") /\ "done" \in PCs
      /\ \A g \in Handlers \ {h} : reply'[g] = reply[g]
  BY FailReplied DEF IssuerInv, PCs
<1>2. IssueInv(h)'
  BY IssueFrame DEF IssuerInv, RightsKept
<1> QED
  BY <1>1, <1>2, QuietStep DEF RightsKept

-----------------------------------------------------------------------------
(* NewOffer and the token endpoint. *)

(* A new code is unused and nobody has taken it.                           *)
LEMMA NewOfferStep ==
  ASSUME IssuerInv, TypeOK', NEW cfg \in OfferConfigs, NEW code \in Codes,
         NewOffer(cfg, code)
  PROVE  IssuerInv' /\ RightsKept
<1>1. PICK o : offers' = Put(offers, code, [offer |-> o, used |-> FALSE])
  BY DEF NewOffer, SaveOffer
<1>2. code \notin DOMAIN offers
  BY DEF NewOffer, SaveOffer
<1>3. /\ DOMAIN offers' = DOMAIN offers \cup {code}
      /\ \A c \in DOMAIN offers : offers'[c] = offers[c]
      /\ offers'[code].used = FALSE
  BY <1>1, <1>2 DEF Put
<1>4. UNCHANGED <<records, pc, req, local, reply>>
  BY DEF NewOffer
<1>5. RightsKept
  BY <1>3, <1>4 DEF RightsKept
<1>6. \A h \in Handlers : TakerInv(h)' /\ IssueInv(h)'
  BY <1>4, <1>5, TakerFrame, IssueFrame DEF IssuerInv
<1>7. \A t \in DOMAIN records' : RecordInv(t)'
  BY <1>4, <1>5, RecordFrame DEF IssuerInv
<1>8. CodeInv'
  BY <1>3, <1>4 DEF IssuerInv, CodeInv
<1> QED
  BY <1>5, <1>6, <1>7, <1>8 DEF IssuerInv

(* Consume sets a used flag and changes no right.                          *)
LEMMA ConsumeRights ==
  ASSUME TypeOK, NEW code, Consume(code, now), UNCHANGED records
  PROVE  RightsKept
<1>1. \A c \in DOMAIN offers : offers[c].used => offers'[c].used
  BY ConsumeType
<1> QED
  BY <1>1, ConsumeType DEF RightsKept

(* A code lost in a store failure is used and has no taker.                *)
LEMMA ConsumeFailsStep ==
  ASSUME IssuerInv, TypeOK', NEW h \in Handlers, ConsumeFails(h)
  PROVE  IssuerInv' /\ RightsKept
<1>1. /\ pc[h] = "consume" /\ "store" \in Faults /\ Fail(h, "server_error")
      /\ UNCHANGED <<records, req, local>>
  BY DEF ConsumeFails
<1>2. /\ Answered(h)' /\ ~Granted(h)' /\ Goto(h, "done")
      /\ \A g \in Handlers \ {h} : reply'[g] = reply[g]
  BY <1>1, FailReplied DEF IssuerInv, ErrorCodes
<1>3. pc'[h] = "done" /\ \A g \in Handlers \ {h} : pc'[g] = pc[g]
  BY <1>2 DEF Goto, IssuerInv, TypeOK
<1>4. RightsKept
  <2>1. CASE UNCHANGED offers
    BY <1>1, <2>1 DEF RightsKept
  <2>2. CASE Consume(req[h].code, now)
    BY <1>1, <2>2, ConsumeRights DEF IssuerInv
  <2> QED
    BY <2>1, <2>2 DEF ConsumeFails
<1>5. TakerInv(h)'
  BY <1>1, <1>2, <1>3, IdleTaker DEF IssuerInv
<1>6. IssueInv(h)'
  BY <1>1, <1>4, IssueFrame DEF IssuerInv
<1>7. CodeInv'
  BY <1>1 DEF IssuerInv, CodeInv
<1> QED
  BY <1>1, <1>2, <1>3, <1>4, <1>5, <1>6, <1>7, HandlerStep

(* The handler becomes the one taker of a code that was unused.            *)
LEMMA ConsumeOfferStep ==
  ASSUME IssuerInv, TypeOK', NEW h \in Handlers, ConsumeOffer(h)
  PROVE  IssuerInv' /\ RightsKept
<1> DEFINE code == req[h].code
<1>1. /\ pc[h] = "consume" /\ WellFormed(req[h]) /\ code # Empty /\ Consume(code, now)
      /\ local' = [local EXCEPT ![h].offer = code]
      /\ UNCHANGED <<records, req>>
  BY DEF ConsumeOffer, WellFormed
<1>2. TypeOK /\ TakerInv(h)
  BY DEF IssuerInv
<1>3. RightsKept
  BY <1>1, <1>2, ConsumeRights
<1>4. /\ code \in DOMAIN offers /\ DOMAIN offers' = DOMAIN offers
      /\ ~offers[code].used /\ offers'[code].used
      /\ offers'[code].offer = offers[code].offer
      /\ \A c \in DOMAIN offers \ {code} : offers'[c] = offers[c]
  BY <1>1, <1>2, ConsumeType
<1>5. /\ local'[h].offer = code /\ local'[h].token = local[h].token
      /\ local'[h].config = local[h].config
      /\ local'[h].credential = local[h].credential
      /\ \A g \in Handlers \ {h} : local'[g] = local[g]
  BY <1>1, <1>2 DEF TypeOK, Locals
<1>6. local[h].token = Empty /\ ~Answered(h) /\ ~Granted(h)
  BY <1>1, <1>2, IdleHandler
<1>7. CodeInv'
  <2>1. \A g \in Handlers : local[g].offer # code
    BY <1>1, <1>4 DEF IssuerInv, TakerInv
  <2>2. ASSUME NEW f \in Handlers, NEW g \in Handlers,
               local'[f].offer = local'[g].offer, local'[g].offer # Empty
        PROVE  f = g
    BY <1>5, <2>1, <2>2 DEF IssuerInv, CodeInv
  <2>3. ASSUME NEW c \in DOMAIN offers', offers'[c].used, "store" \notin Faults
        PROVE  \E g \in Handlers : local'[g].offer = c
    <3>1. CASE c = code
      BY <1>5, <3>1
    <3>2. CASE c # code
      <4>1. PICK g \in Handlers : local[g].offer = c
        BY <1>4, <2>3, <3>2 DEF IssuerInv, CodeInv
      <4>2. c # Empty
        BY <1>4, EmptyAssumption DEF IssuerInv, TypeOK, IsMap
      <4>3. g # h
        BY <1>1, <1>2, <4>1, <4>2, IdleHandler
      <4> QED
        BY <1>5, <4>1, <4>3
    <3> QED
      BY <3>1, <3>2
  <2> QED
    BY <2>2, <2>3 DEF CodeInv
<1>8. IssueInv(h)'
  BY <1>1, <1>3, <1>5, IssueFrame DEF IssuerInv
<1>9. PinMatches(h) <=> PinGiven(h, offers[code].offer)'
  BY <1>1, <1>4 DEF PinMatches, PinGiven
<1>10. CASE PinMatches(h) /\ Goto(h, "grant") /\ UNCHANGED reply
  <2>1. pc'[h] = "grant" /\ \A g \in Handlers \ {h} : pc'[g] = pc[g]
    BY <1>2, <1>10 DEF Goto, TypeOK
  <2>2. TakerInv(h)'
    BY <1>1, <1>4, <1>5, <1>6, <1>9, <1>10, <2>1
       DEF TakerInv, Answered, Granted, WellFormed
  <2> QED
    BY <1>1, <1>3, <1>5, <1>7, <1>8, <1>10, <2>1, <2>2, HandlerStep
<1>11. CASE ~PinMatches(h) /\ Fail(h, "invalid_grant")
  <2>1. /\ Answered(h)' /\ ~Granted(h)' /\ Goto(h, "done")
        /\ \A g \in Handlers \ {h} : reply'[g] = reply[g]
    BY <1>2, <1>11, FailReplied DEF ErrorCodes
  <2>2. pc'[h] = "done" /\ \A g \in Handlers \ {h} : pc'[g] = pc[g]
    BY <1>2, <2>1 DEF Goto, TypeOK
  <2>3. TakerInv(h)'
    BY <1>1, <1>4, <1>5, <1>6, <1>9, <1>11, <2>1, <2>2
       DEF TakerInv, WellFormed
  <2> QED
    BY <1>1, <1>3, <1>5, <1>7, <1>8, <2>1, <2>2, <2>3, HandlerStep
<1> QED
  BY <1>10, <1>11 DEF ConsumeOffer

(* Every stored token was drawn by some handler, so a fresh one is new.    *)
LEMMA FreshIsNew ==
  ASSUME IssuerInv, NEW token \in FreshTokens
  PROVE  token \in Tokens /\ token # Empty /\ token \notin DOMAIN records
<1>1. token \in Tokens /\ token # Empty
  BY EmptyAssumption DEF FreshTokens
<1>2. ASSUME token \in DOMAIN records PROVE FALSE
  <2>1. PICK g \in Handlers : Granted(g) /\ reply[g].token = token
    BY <1>2 DEF IssuerInv, RecordInv
  <2>2. local[g].token = token
    BY <2>1 DEF IssuerInv, TakerInv
  <2> QED
    BY <2>2 DEF FreshTokens
<1> QED
  BY <1>1, <1>2

(* The taker of a code stores the one record that names it.                *)
LEMMA GrantTokenStep ==
  ASSUME IssuerInv, TypeOK', NEW h \in Handlers, GrantToken(h)
  PROVE  IssuerInv' /\ RightsKept
<1>1. PICK token \in FreshTokens, nonce \in FreshNonces :
        /\ pc[h] = "grant"
        /\ SaveToken(token, TokenRecord(local[h].offer, nonce))
        /\ local' = [local EXCEPT ![h].token = token, ![h].nonce = nonce]
        /\ Answer(h, [error |-> Empty, token |-> token, cNonce |-> nonce,
                      credential |-> Empty])
        /\ UNCHANGED <<offers, req>>
  BY DEF GrantToken
<1> DEFINE r == [error |-> Empty, token |-> token, cNonce |-> nonce,
                 credential |-> Empty]
           record == TokenRecord(local[h].offer, nonce)
<1>2. TypeOK /\ TakerInv(h) /\ IssueInv(h)
  BY DEF IssuerInv
<1>3. token \in Tokens /\ token # Empty /\ token \notin DOMAIN records
  BY FreshIsNew
<1>4. /\ record.offer = local[h].offer
      /\ record.subject = offers[local[h].offer].offer.subject
      /\ record.configs = offers[local[h].offer].offer.configs
  BY DEF TokenRecord
<1>5. r \in Reply /\ r.token = token
  BY <1>3 DEF Reply, Optional, FreshNonces
<1>6. reply' = [reply EXCEPT ![h] = r] /\ Goto(h, "done")
  BY <1>1 DEF Answer
<1>7. records' = Put(records, token, record)
  BY <1>1 DEF SaveToken
<1> HIDE DEF r, record
<1>8. /\ DOMAIN records' = DOMAIN records \cup {token}
      /\ records'[token] = record
      /\ \A t \in DOMAIN records : records'[t] = records[t]
  BY <1>3, <1>7 DEF Put
<1>9. /\ reply'[h] = r /\ pc'[h] = "done"
      /\ \A g \in Handlers \ {h} : reply'[g] = reply[g] /\ pc'[g] = pc[g]
  BY <1>2, <1>6 DEF Goto, TypeOK
<1>10. Answered(h)' /\ Granted(h)' /\ reply'[h].token = token
  BY <1>3, <1>5, <1>9, EmptyAssumption DEF Answered, Granted
<1>11. /\ local'[h].token = token /\ local'[h].offer = local[h].offer
       /\ local'[h].config = local[h].config
       /\ local'[h].credential = local[h].credential
       /\ \A g \in Handlers \ {h} : local'[g] = local[g]
  BY <1>1, <1>2 DEF TypeOK, Locals
<1>12. RightsKept
  BY <1>1, <1>8 DEF RightsKept
<1>13. TakerInv(h)'
  <2>1. /\ local[h].offer # Empty /\ local[h].offer = req[h].code
        /\ local[h].offer \in DOMAIN offers /\ offers[local[h].offer].used
        /\ PinGiven(h, offers[local[h].offer].offer)
        /\ WellFormed(req[h])
    BY <1>1, <1>2 DEF TakerInv
  <2>2. PinGiven(h, offers[local[h].offer].offer)'
    BY <1>1, <1>11, <2>1 DEF PinGiven
  <2> QED
    BY <1>1, <1>9, <1>10, <1>11, <2>1, <2>2 DEF TakerInv, WellFormed
<1>14. IssueInv(h)'
  BY <1>1, <1>2, <1>11, <1>12, IssueFrame
<1>15. CodeInv'
  BY <1>1, <1>11, CodeFrame DEF IssuerInv
<1>16. RecordInv(token)'
  <2>1. /\ records'[token].offer = local'[h].offer
        /\ records'[token].subject = offers'[local'[h].offer].offer.subject
        /\ records'[token].configs = offers'[local'[h].offer].offer.configs
    BY <1>1, <1>4, <1>8, <1>11
  <2> QED
    BY <1>10, <2>1 DEF RecordInv
<1>17. \A t \in DOMAIN records' \ DOMAIN records : RecordInv(t)'
  BY <1>8, <1>16
<1>18. \A g \in Handlers \ {h} : UNCHANGED <<pc[g], local[g], reply[g]>>
  BY <1>9, <1>11
<1> QED
  BY <1>1, <1>12, <1>13, <1>14, <1>15, <1>17, <1>18, HandlerStep

(* A taker that fails to grant leaves its code used and without a token.   *)
LEMMA GrantFailsStep ==
  ASSUME IssuerInv, TypeOK', NEW h \in Handlers, GrantFails(h)
  PROVE  IssuerInv' /\ RightsKept
<1>1. /\ pc[h] = "grant" /\ Faults \cap {"rand", "store"} # {}
      /\ Fail(h, "server_error")
      /\ UNCHANGED <<offers, records, req, local>>
  BY DEF GrantFails
<1>2. /\ Answered(h)' /\ ~Granted(h)' /\ Goto(h, "done")
      /\ \A g \in Handlers \ {h} : reply'[g] = reply[g]
  BY <1>1, FailReplied DEF IssuerInv, ErrorCodes
<1>3. pc'[h] = "done" /\ \A g \in Handlers \ {h} : pc'[g] = pc[g]
  BY <1>2 DEF Goto, IssuerInv, TypeOK
<1>4. RightsKept
  BY <1>1 DEF RightsKept
<1>5. TakerInv(h)'
  BY <1>1, <1>2, <1>3 DEF IssuerInv, TakerInv
<1>6. IssueInv(h)'
  BY <1>1, <1>4, IssueFrame DEF IssuerInv
<1>7. CodeInv'
  BY <1>1, CodeFrame DEF IssuerInv
<1> QED
  BY <1>1, <1>2, <1>3, <1>4, <1>5, <1>6, <1>7, HandlerStep

(* Every step of handleToken preserves the invariant and the rights.       *)
LEMMA HandleTokenStep ==
  ASSUME IssuerInv, TypeOK', NEW h \in Handlers, HandleToken(h)
  PROVE  IssuerInv' /\ RightsKept
<1>1. CASE RejectTokenRequest(h)
  BY <1>1, FailStep DEF RejectTokenRequest, ErrorCodes, RightsKept
<1>2. CASE RefuseCode(h)
  BY <1>2, FailStep DEF RefuseCode, ErrorCodes, RightsKept
<1>3. CASE ConsumeFails(h)
  BY <1>3, ConsumeFailsStep
<1>4. CASE ConsumeOffer(h)
  BY <1>4, ConsumeOfferStep
<1>5. CASE GrantToken(h)
  BY <1>5, GrantTokenStep
<1>6. CASE GrantFails(h)
  BY <1>6, GrantFailsStep
<1> QED
  BY <1>1, <1>2, <1>3, <1>4, <1>5, <1>6 DEF HandleToken

-----------------------------------------------------------------------------
(* The credential endpoint. *)

(* The configuration resolved is one the token entitles to.                *)
LEMMA LookupTokenStep ==
  ASSUME IssuerInv, TypeOK', NEW h \in Handlers, LookupToken(h)
  PROVE  IssuerInv' /\ RightsKept
<1>1. PICK k \in ResolveConfigID(req[h], records[req[h].token]) \ {Empty} :
        local' = [local EXCEPT ![h].config = k,
                               ![h].foundNonce = records[req[h].token].cNonce]
  BY DEF LookupToken
<1>2. /\ pc[h] = "lookup" /\ req[h].token \in DOMAIN records
      /\ UNCHANGED <<offers, records, req>>
  BY DEF LookupToken, Found, CanGet
<1>3. TypeOK /\ TakerInv(h) /\ ~Issued(h)
  BY <1>2 DEF IssuerInv, TypeOK, PlaceOK
<1>4. /\ k # Empty /\ k \in records[req[h].token].configs
      /\ k \in Candidates(req[h]) \cap DOMAIN Supported
  BY <1>1, ResolveResult
<1>5. /\ local'[h].config = k /\ local'[h].offer = local[h].offer
      /\ local'[h].token = local[h].token
      /\ local'[h].credential = local[h].credential
      /\ \A g \in Handlers \ {h} : local'[g] = local[g]
  BY <1>1, <1>3 DEF TypeOK, Locals
<1>6. IssueInv(h)'
  BY <1>2, <1>3, <1>4, <1>5 DEF IssueInv, Issued, Candidates
<1>7. RightsKept
  BY <1>2 DEF RightsKept
<1>8. ~Answered(h) /\ ~Granted(h)
  BY <1>2, <1>3, IdleHandler
<1>9. CASE (Goto(h, "expiry") \/ Goto(h, "issue")) /\ UNCHANGED reply
  <2>1. ~Answered(h)' /\ ~Granted(h)'
    BY <1>8, <1>9 DEF Answered, Granted
  <2> QED
    BY <1>2, <1>5, <1>6, <1>7, <1>9, <2>1, QuietStep DEF PCs
<1>10. CASE Fail(h, "invalid_proof")
  <2>1. /\ Answered(h)' /\ ~Granted(h)' /\ Goto(h, "done") /\ "done" \in PCs
        /\ \A g \in Handlers \ {h} : reply'[g] = reply[g]
    BY <1>3, <1>10, FailReplied DEF ErrorCodes, PCs
  <2> QED
    BY <1>2, <1>5, <1>6, <1>7, <2>1, QuietStep
<1> QED
  BY <1>9, <1>10 DEF LookupToken

(* An answer without a token grants nothing.                               *)
LEMMA AnswerReplied ==
  ASSUME TypeOK, NEW h \in Handlers, NEW r \in Reply, r.token = Empty, Answer(h, r)
  PROVE  /\ Answered(h)' /\ ~Granted(h)' /\ Goto(h, "done")
         /\ \A g \in Handlers \ {h} : reply'[g] = reply[g]
<1>1. reply' = [reply EXCEPT ![h] = r] /\ Goto(h, "done")
  BY DEF Answer
<1>2. reply'[h] = r /\ \A g \in Handlers \ {h} : reply'[g] = reply[g]
  BY <1>1 DEF TypeOK
<1>3. r # Empty
  BY EmptyAssumption
<1> QED
  BY <1>1, <1>2, <1>3 DEF Answered, Granted

(* A refused proof changes nothing but the handler.                        *)
LEMMA RejectProofStep ==
  ASSUME IssuerInv, TypeOK', NEW h \in Handlers, pc[h] \in {"expiry", "nonce"},
         RejectProof(h)
  PROVE  IssuerInv' /\ RightsKept
<1>1. PICK nonce \in NonceOrEmpty :
        /\ local' = [local EXCEPT ![h].nonce = nonce]
        /\ Answer(h, [error |-> "invalid_proof", token |-> Empty,
                      cNonce |-> nonce, credential |-> Empty])
        /\ UNCHANGED <<offers, records, req>>
  BY DEF RejectProof
<1> DEFINE r == [error |-> "invalid_proof", token |-> Empty,
                 cNonce |-> nonce, credential |-> Empty]
<1>2. r \in Reply /\ r.token = Empty
  BY NonceOrEmptyType DEF Reply, Optional, ErrorCodes
<1>3. Answer(h, r) /\ TypeOK
  BY <1>1 DEF IssuerInv
<1> HIDE DEF r
<1>4. /\ Answered(h)' /\ ~Granted(h)' /\ Goto(h, "done") /\ "done" \in PCs
      /\ \A g \in Handlers \ {h} : reply'[g] = reply[g]
  BY <1>2, <1>3, AnswerReplied DEF PCs
<1>5. /\ local'[h].offer = local[h].offer /\ local'[h].token = local[h].token
      /\ local'[h].config = local[h].config
      /\ local'[h].credential = local[h].credential
      /\ \A g \in Handlers \ {h} : local'[g] = local[g]
  BY <1>1, <1>3 DEF TypeOK, Locals
<1>6. RightsKept
  BY <1>1 DEF RightsKept
<1>7. IssueInv(h)'
  BY <1>1, <1>5, <1>6, IssueFrame DEF IssuerInv
<1> QED
  BY <1>1, <1>4, <1>5, <1>6, <1>7, QuietStep

(* A step that only moves h on and changes its key, if anything.           *)
LEMMA MoveStep ==
  ASSUME IssuerInv, TypeOK', NEW h \in Handlers, NEW p \in PCs, Goto(h, p),
         pc[h] \notin {"grant", "done"}, p \notin {"grant", "done"},
         UNCHANGED <<offers, records, req, reply>>,
         \A g \in Handlers \ {h} : local'[g] = local[g],
         local'[h].offer = local[h].offer, local'[h].token = local[h].token,
         IssueInv(h)'
  PROVE  IssuerInv' /\ RightsKept
<1>1. RightsKept
  BY DEF RightsKept
<1>2. ~Answered(h)' /\ ~Granted(h)'
  BY IdleHandler DEF IssuerInv, Answered, Granted
<1> QED
  BY <1>1, <1>2, QuietStep

(* The expiry check moves the handler on or refuses.                       *)
LEMMA CheckNonceExpiryStep ==
  ASSUME IssuerInv, TypeOK', NEW h \in Handlers, CheckNonceExpiry(h)
  PROVE  IssuerInv' /\ RightsKept
<1>1. pc[h] = "expiry"
  BY DEF CheckNonceExpiry
<1>2. CASE Goto(h, "nonce")
           /\ UNCHANGED <<offers, records, tokenMu, now, req, local, reply, handed, stale>>
  <2>1. IssueInv(h)'
    BY <1>2, IssueFrame DEF IssuerInv, RightsKept
  <2> QED
    BY <1>1, <1>2, <2>1, MoveStep DEF PCs
<1>3. CASE RejectProof(h)
  BY <1>1, <1>3, RejectProofStep
<1> QED
  BY <1>2, <1>3 DEF CheckNonceExpiry

(* The proof check moves the handler on or refuses.                        *)
LEMMA CheckProofStep ==
  ASSUME IssuerInv, TypeOK', NEW h \in Handlers, CheckProof(h)
  PROVE  IssuerInv' /\ RightsKept
<1> DEFINE key == PublicKeyToGoKey(ProofOf(req[h]).jwt.jwk)
<1>1. pc[h] = "nonce" /\ TypeOK
  BY DEF CheckProof, IssuerInv
<1>2. CASE Goto(h, "issue") /\ local' = [local EXCEPT ![h].key = key]
           /\ UNCHANGED <<offers, records, tokenMu, now, req, reply, handed, stale>>
  <2> HIDE DEF key
  <2>1. /\ local'[h].offer = local[h].offer /\ local'[h].token = local[h].token
        /\ local'[h].config = local[h].config
        /\ local'[h].credential = local[h].credential
        /\ \A g \in Handlers \ {h} : local'[g] = local[g]
    BY <1>1, <1>2 DEF TypeOK, Locals
  <2>2. IssueInv(h)'
    BY <1>2, <2>1, IssueFrame DEF IssuerInv, RightsKept
  <2> QED
    BY <1>1, <1>2, <2>1, <2>2, MoveStep DEF PCs
<1>3. CASE RejectProof(h)
  BY <1>1, <1>3, RejectProofStep
<1> QED
  BY <1>2, <1>3 DEF CheckProof

(* The credential is for the resolved configuration and the token's        *)
(* subject.                                                                *)
LEMMA IssueCredentialStep ==
  ASSUME IssuerInv, TypeOK', NEW h \in Handlers, IssueCredential(h)
  PROVE  IssuerInv' /\ RightsKept
<1> DEFINE cred == [config |-> local[h].config,
                    subject |-> records[req[h].token].subject,
                    key |-> local[h].key]
           until == now + CNonceTTL
<1>1. PICK nonce \in NonceOrEmpty :
        /\ local' = [local EXCEPT ![h].credential = cred, ![h].nonce = nonce,
                                  ![h].nonceExpiresAt = until]
        /\ pc[h] = "issue" /\ Goto(h, "rotate")
        /\ UNCHANGED <<offers, records, req, reply>>
  BY DEF IssueCredential
<1>2. TypeOK /\ IssueInv(h) /\ local[h].config # Empty
  BY <1>1 DEF IssuerInv, TypeOK, PlaceOK
<1>3. /\ cred.config = local[h].config
      /\ cred.subject = records[req[h].token].subject
  OBVIOUS
<1> HIDE DEF cred, until
<1>4. /\ local'[h].offer = local[h].offer /\ local'[h].token = local[h].token
      /\ local'[h].config = local[h].config
      /\ local'[h].credential = cred
      /\ \A g \in Handlers \ {h} : local'[g] = local[g]
  BY <1>1, <1>2 DEF TypeOK, Locals
<1>5. IssueInv(h)'
  BY <1>1, <1>2, <1>3, <1>4 DEF IssueInv
<1> QED
  BY <1>1, <1>4, <1>5, MoveStep DEF PCs

(* RotateCNonce touches no right: the first field.                         *)
LEMMA BeginRotateStep ==
  ASSUME IssuerInv, TypeOK', NEW h \in Handlers, BeginRotate(h)
  PROVE  IssuerInv' /\ RightsKept
<1>1. /\ pc[h] = "rotate" /\ Goto(h, "unlock")
      /\ BeginRotateCNonce(h, req[h].token, local[h].nonce, local[h].nonceExpiresAt)
      /\ UNCHANGED <<offers, req, local, reply>>
  BY DEF BeginRotate
<1>2. /\ TypeOK /\ req[h].token \in DOMAIN records
      /\ local[h].nonce \in Optional(Nonces) /\ local[h].nonceExpiresAt \in Nat
  BY <1>1 DEF IssuerInv, TypeOK, PlaceOK, Locals
<1>3. RightsKept /\ DOMAIN records' = DOMAIN records
  BY <1>1, <1>2, RotateType DEF BeginRotateCNonce
<1>4. IssueInv(h)'
  BY <1>1, <1>3, IssueFrame DEF IssuerInv
<1>5. ~Answered(h)' /\ ~Granted(h)'
  BY <1>1, IdleHandler DEF IssuerInv, Answered, Granted
<1> QED
  BY <1>1, <1>3, <1>4, <1>5, QuietStep DEF PCs

(* A credential answer grants no token.                                    *)
LEMMA CredentialReplied ==
  ASSUME TypeOK, NEW h \in Handlers, AnswerCredential(h)
  PROVE  /\ Answered(h)' /\ ~Granted(h)' /\ Goto(h, "done")
         /\ \A g \in Handlers \ {h} : reply'[g] = reply[g]
<1> DEFINE r == [error |-> Empty, token |-> Empty, cNonce |-> local[h].nonce,
                 credential |-> local[h].credential]
<1>1. local[h].nonce \in Optional(Nonces) /\ local[h].credential \in Optional(Credential)
  BY DEF TypeOK, Locals
<1>2. r \in Reply /\ r.token = Empty
  BY <1>1 DEF Reply, Optional
<1>3. Answer(h, r)
  BY DEF AnswerCredential
<1> HIDE DEF r
<1> QED
  BY <1>2, <1>3, AnswerReplied

(* RotateCNonce touches no right: both fields, and the answer.             *)
LEMMA EndRotateStep ==
  ASSUME IssuerInv, TypeOK', NEW h \in Handlers, EndRotate(h)
  PROVE  IssuerInv' /\ RightsKept
<1>1. /\ pc[h] = "unlock" /\ AnswerCredential(h)
      /\ EndRotateCNonce(h, req[h].token, local[h].nonce, local[h].nonceExpiresAt)
      /\ UNCHANGED <<offers, req, local>>
  BY DEF EndRotate
<1>2. /\ TypeOK /\ req[h].token \in DOMAIN records
      /\ local[h].nonce \in Optional(Nonces) /\ local[h].nonceExpiresAt \in Nat
  BY <1>1 DEF IssuerInv, TypeOK, PlaceOK, Locals
<1>3. RightsKept /\ DOMAIN records' = DOMAIN records
  BY <1>1, <1>2, RotateType DEF EndRotateCNonce
<1>4. IssueInv(h)'
  BY <1>1, <1>3, IssueFrame DEF IssuerInv
<1>5. /\ Answered(h)' /\ ~Granted(h)' /\ Goto(h, "done") /\ "done" \in PCs
      /\ \A g \in Handlers \ {h} : reply'[g] = reply[g]
  BY <1>1, <1>2, CredentialReplied DEF PCs
<1> QED
  BY <1>1, <1>3, <1>4, <1>5, QuietStep

(* A failed rotation changes nothing but the handler.                      *)
LEMMA RotateFailsStep ==
  ASSUME IssuerInv, TypeOK', NEW h \in Handlers, RotateFails(h)
  PROVE  IssuerInv' /\ RightsKept
<1>1. /\ pc[h] = "rotate" /\ AnswerCredential(h)
      /\ UNCHANGED <<offers, records, req, local>>
  BY DEF RotateFails
<1>2. RightsKept
  BY <1>1 DEF RightsKept
<1>3. IssueInv(h)'
  BY <1>1, <1>2, IssueFrame DEF IssuerInv
<1>4. /\ Answered(h)' /\ ~Granted(h)' /\ Goto(h, "done") /\ "done" \in PCs
      /\ \A g \in Handlers \ {h} : reply'[g] = reply[g]
  BY <1>1, CredentialReplied DEF IssuerInv, PCs
<1> QED
  BY <1>1, <1>2, <1>3, <1>4, QuietStep

(* Every step of handleCredential preserves the invariant and the rights.  *)
LEMMA HandleCredentialStep ==
  ASSUME IssuerInv, TypeOK', NEW h \in Handlers, HandleCredential(h)
  PROVE  IssuerInv' /\ RightsKept
<1>1. CASE RejectToken(h)
  BY <1>1, FailStep DEF RejectToken, ErrorCodes, RightsKept
<1>2. CASE RejectBody(h)
  BY <1>2, FailStep DEF RejectBody, ErrorCodes, RightsKept
<1>3. CASE RejectConfig(h)
  BY <1>3, FailStep DEF RejectConfig, ErrorCodes, RightsKept
<1>4. CASE LookupToken(h)
  BY <1>4, LookupTokenStep
<1>5. CASE CheckNonceExpiry(h)
  BY <1>5, CheckNonceExpiryStep
<1>6. CASE CheckProof(h)
  BY <1>6, CheckProofStep
<1>7. CASE IssueCredential(h)
  BY <1>7, IssueCredentialStep
<1>8. CASE FactoryFails(h)
  BY <1>8, FailStep DEF FactoryFails, ErrorCodes, RightsKept
<1>9. CASE BeginRotate(h)
  BY <1>9, BeginRotateStep
<1>10. CASE EndRotate(h)
  BY <1>10, EndRotateStep
<1>11. CASE RotateFails(h)
  BY <1>11, RotateFailsStep
<1> QED
  BY <1>1, <1>2, <1>3, <1>4, <1>5, <1>6, <1>7, <1>8, <1>9, <1>10, <1>11
     DEF HandleCredential

-----------------------------------------------------------------------------
(* The invariant and what follows from it. *)

(* The invariant holds of a server that has just started.                  *)
LEMMA InvInit == Init => IssuerInv
<1> SUFFICES ASSUME Init PROVE IssuerInv
  OBVIOUS
<1>1. TypeOK
  BY TypeInit
<1>2. DOMAIN offers = {} /\ DOMAIN records = {}
  BY DEF Init, OfferStoreInit, TokenStoreInit
<1>3. \A h \in Handlers :
        /\ pc[h] = "ready" /\ ~Answered(h) /\ ~Granted(h) /\ ~Issued(h)
        /\ local[h].offer = Empty /\ local[h].token = Empty /\ local[h].config = Empty
  BY DEF Init, Answered, Granted, Issued, NoLocals
<1> QED
  BY <1>1, <1>2, <1>3 DEF IssuerInv, TakerInv, IssueInv, CodeInv

(* Every step preserves the invariant and every right given.               *)
LEMMA InvStep == IssuerInv /\ [Next]_vars => IssuerInv' /\ RightsKept
<1> SUFFICES ASSUME IssuerInv, [Next]_vars
             PROVE  IssuerInv' /\ RightsKept
  OBVIOUS
<1>1. TypeOK'
  BY TypeStep DEF IssuerInv
<1>2. CASE \E cfg \in OfferConfigs, code \in Codes : NewOffer(cfg, code)
  BY <1>1, <1>2, NewOfferStep
<1>3. CASE \E h \in Handlers, r \in TokenRequests \cup CredentialRequests : Receive(h, r)
  <2>1. PICK h \in Handlers, r \in TokenRequests \cup CredentialRequests : Receive(h, r)
    BY <1>3
  <2>2. /\ pc[h] = "ready" /\ pc'[h] \in {"consume", "lookup"}
        /\ \A g \in Handlers \ {h} : pc'[g] = pc[g] /\ req'[g] = req[g]
        /\ UNCHANGED <<offers, records, local, reply>>
    BY <2>1 DEF Receive, Goto, IssuerInv, TypeOK
  <2>3. RightsKept
    BY <2>2 DEF RightsKept
  <2>4. ~Answered(h)' /\ ~Granted(h)'
    BY <2>2, IdleHandler DEF IssuerInv, Answered, Granted
  <2>5. TakerInv(h)'
    BY <2>2, <2>4, IdleTaker DEF IssuerInv
  <2>6. IssueInv(h)'
    BY <2>2 DEF IssuerInv, TypeOK, PlaceOK, IssueInv, Issued
  <2>7. \A g \in Handlers \ {h} : TakerInv(g)' /\ IssueInv(g)'
    BY <2>2, <2>3, TakerFrame, IssueFrame DEF IssuerInv
  <2>8. \A t \in DOMAIN records' : RecordInv(t)'
    BY <2>2, <2>3, RecordFrame DEF IssuerInv
  <2>9. CodeInv'
    BY <2>2, CodeFrame DEF IssuerInv
  <2> QED
    BY <1>1, <2>3, <2>5, <2>6, <2>7, <2>8, <2>9 DEF IssuerInv
<1>4. CASE \E h \in Handlers : HandleToken(h) \/ HandleCredential(h)
  BY <1>1, <1>4, HandleTokenStep, HandleCredentialStep
<1>5. CASE Tick \/ UNCHANGED vars
  <2>1. UNCHANGED <<offers, records, pc, req, local, reply>>
    BY <1>5 DEF Tick, vars
  <2>2. RightsKept
    BY <2>1 DEF RightsKept
  <2>3. \A h \in Handlers : TakerInv(h)' /\ IssueInv(h)'
    BY <2>1, <2>2, TakerFrame, IssueFrame DEF IssuerInv
  <2>4. \A t \in DOMAIN records' : RecordInv(t)'
    BY <2>1, <2>2, RecordFrame DEF IssuerInv
  <2>5. CodeInv'
    BY <2>1, CodeFrame DEF IssuerInv
  <2> QED
    BY <1>1, <2>2, <2>3, <2>4, <2>5 DEF IssuerInv
<1> QED
  BY <1>2, <1>3, <1>4, <1>5 DEF Next

(* In every behaviour the inductive invariant holds. *)
THEOREM InvariantHolds == Spec => []IssuerInv
<1>1. Init => IssuerInv
  BY InvInit
<1>2. IssuerInv /\ [Next]_vars => IssuerInv'
  BY InvStep
<1> QED
  BY <1>1, <1>2, PTL DEF Spec

(* A code buys at most one token, and none after a refusal that consumed   *)
(* it, whatever requests race for it (handleToken over Consume).           *)
THEOREM OneTokenPerCodeHolds == Spec => []OneTokenPerCode
<1>1. IssuerInv => OneTokenPerCode
  <2> SUFFICES ASSUME IssuerInv PROVE OneTokenPerCode
    OBVIOUS
  <2>1. ASSUME NEW t \in DOMAIN records
        PROVE  \E h \in Handlers : /\ Granted(h) /\ reply[h].token = t
                                  /\ records[t].offer = local[h].offer
                                  /\ local[h].offer # Empty
    BY DEF IssuerInv, RecordInv, TakerInv
  <2>2. ASSUME NEW t \in DOMAIN records, NEW u \in DOMAIN records,
               records[t].offer = records[u].offer
        PROVE  t = u
    <3>1. PICK g \in Handlers : /\ reply[g].token = t
                               /\ records[t].offer = local[g].offer
      BY <2>1
    <3>2. PICK h \in Handlers : /\ reply[h].token = u /\ local[h].offer # Empty
                               /\ records[u].offer = local[h].offer
      BY <2>1
    <3>3. g = h
      BY <2>2, <3>1, <3>2 DEF IssuerInv, CodeInv
    <3> QED
      BY <3>1, <3>2, <3>3
  <2>3. ASSUME NEW t \in DOMAIN records, NEW h \in Handlers,
               local[h].offer = records[t].offer
        PROVE  Granted(h)
    <3>1. PICK g \in Handlers : /\ Granted(g) /\ local[g].offer # Empty
                               /\ records[t].offer = local[g].offer
      BY <2>1
    <3>2. g = h
      BY <2>3, <3>1 DEF IssuerInv, CodeInv
    <3> QED
      BY <3>1, <3>2
  <2> QED
    BY <2>2, <2>3 DEF OneTokenPerCode
<1> QED
  BY <1>1, InvariantHolds, PTL

(* Every token was granted for a stored offer's code and PIN and carries   *)
(* that offer's rights (handleToken).                                      *)
THEOREM TokenEarnedHolds == Spec => []TokenEarned
<1>1. IssuerInv => TokenEarned
  <2> SUFFICES ASSUME IssuerInv, NEW t \in DOMAIN records
               PROVE  \E h \in Handlers :
                        LET r == records[t]
                            offer == offers[r.offer].offer
                        IN /\ r.offer \in DOMAIN offers
                           /\ Granted(h) /\ reply[h].token = t /\ req[h].code = r.offer
                           /\ PinGiven(h, offer)
                           /\ r.subject = offer.subject /\ r.configs = offer.configs
    BY DEF TokenEarned
  <2>1. PICK h \in Handlers :
          /\ Granted(h) /\ reply[h].token = t
          /\ records[t].offer = local[h].offer
          /\ records[t].subject = offers[local[h].offer].offer.subject
          /\ records[t].configs = offers[local[h].offer].offer.configs
    BY DEF IssuerInv, RecordInv
  <2>2. /\ local[h].offer = req[h].code /\ local[h].offer \in DOMAIN offers
        /\ PinGiven(h, offers[local[h].offer].offer)
    BY <2>1 DEF IssuerInv, TakerInv
  <2> QED
    BY <2>1, <2>2
<1> QED
  BY <1>1, InvariantHolds, PTL

(* A code is used exactly when one request has taken it, and without       *)
(* faults that request gets a token exactly if its PIN is right.           *)
THEOREM RedemptionOutcomeHolds == Spec => []RedemptionOutcome
<1>1. IssuerInv => RedemptionOutcome
  <2> SUFFICES ASSUME IssuerInv PROVE RedemptionOutcome
    OBVIOUS
  <2>1. ASSUME NEW h \in Handlers, local[h].offer # Empty, Answered(h),
               Faults \cap {"rand", "store"} = {}
        PROVE  Granted(h) <=> PinGiven(h, offers[local[h].offer].offer)
    BY <2>1 DEF IssuerInv, TakerInv
  <2>2. ASSUME NEW c \in DOMAIN offers, NEW h \in Handlers, local[h].offer = c
        PROVE  offers[c].used
    <3>1. c # Empty
      BY EmptyAssumption DEF IssuerInv, TypeOK, IsMap
    <3> QED
      BY <2>2, <3>1 DEF IssuerInv, TakerInv
  <2> QED
    BY <2>1, <2>2 DEF RedemptionOutcome, IssuerInv, CodeInv
<1> QED
  BY <1>1, InvariantHolds, PTL

(* Every credential traces back, through its token, to a redemption with   *)
(* the right PIN of an offer for that subject and configuration            *)
(* (handleCredential, resolveConfigID, handleToken).                       *)
THEOREM CredentialEarnedHolds == Spec => []CredentialEarned
<1>1. IssuerInv => CredentialEarned
  <2> SUFFICES ASSUME IssuerInv, NEW h \in Handlers, Issued(h)
               PROVE  LET cred == local[h].credential
                      IN /\ cred.config \in DOMAIN Supported
                         /\ IF req[h].config # Empty THEN cred.config = req[h].config
                            ELSE Supported[cred.config].format = req[h].format
                         /\ \E g \in Handlers :
                              LET offer == offers[local[g].offer].offer
                              IN /\ local[g].offer \in DOMAIN offers
                                 /\ Granted(g) /\ reply[g].token = req[h].token
                                 /\ PinGiven(g, offer)
                                 /\ cred.subject = offer.subject
                                 /\ cred.config \in offer.configs
    BY DEF CredentialEarned
  <2> DEFINE t == req[h].token
             cred == local[h].credential
  <2>1. /\ t \in DOMAIN records /\ cred.config \in records[t].configs
        /\ cred.config \in DOMAIN Supported
        /\ IF req[h].config # Empty THEN cred.config = req[h].config
           ELSE Supported[cred.config].format = req[h].format
        /\ cred.subject = records[t].subject
    BY DEF IssuerInv, IssueInv, Candidates
  <2>2. PICK g \in Handlers :
          /\ Granted(g) /\ reply[g].token = t
          /\ records[t].subject = offers[local[g].offer].offer.subject
          /\ records[t].configs = offers[local[g].offer].offer.configs
    BY <2>1 DEF IssuerInv, RecordInv
  <2>3. /\ local[g].offer \in DOMAIN offers
        /\ PinGiven(g, offers[local[g].offer].offer)
    BY <2>2 DEF IssuerInv, TakerInv
  <2> QED
    BY <2>1, <2>2, <2>3
<1> QED
  BY <1>1, InvariantHolds, PTL

(* No step replaces or forgets an offer or a token, reopens a used code,   *)
(* or changes what a token entitles to, for whom and until when.           *)
THEOREM RightsAreFixedHolds == Spec => RightsAreFixed
<1>1. IssuerInv /\ [Next]_vars => [RightsKept]_vars
  BY InvStep
<1> QED
  BY <1>1, InvariantHolds, PTL DEF Spec, RightsAreFixed

-----------------------------------------------------------------------------
(* Keys. *)

(* A step of handler h moves no other handler and changes no request.      *)
LEMMA OneMoves ==
  ASSUME TypeOK, NEW h \in Handlers, HandleToken(h) \/ HandleCredential(h)
  PROVE  /\ UNCHANGED <<now, req>>
         /\ \A g \in Handlers \ {h} : UNCHANGED <<pc[g], local[g], reply[g], stale[g]>>
<1>1. ASSUME HandleToken(h)
      PROVE  /\ UNCHANGED <<now, req>>
             /\ \A g \in Handlers \ {h} : UNCHANGED <<pc[g], local[g], reply[g], stale[g]>>
  BY <1>1 DEF HandleToken, RejectTokenRequest, RefuseCode, ConsumeFails, ConsumeOffer,
              GrantToken, GrantFails, Fail, Answer, Goto, TypeOK
<1>2. ASSUME HandleCredential(h)
      PROVE  /\ UNCHANGED <<now, req>>
             /\ \A g \in Handlers \ {h} : UNCHANGED <<pc[g], local[g], reply[g], stale[g]>>
  <2>1. CASE LookupToken(h) \/ CheckNonceExpiry(h) \/ CheckProof(h)
    BY <2>1 DEF LookupToken, CheckNonceExpiry, CheckProof, RejectProof, Fail, Answer,
                Goto, TypeOK
  <2>2. CASE ~(LookupToken(h) \/ CheckNonceExpiry(h) \/ CheckProof(h))
    BY <1>2, <2>2 DEF HandleCredential, RejectToken, RejectBody, RejectConfig,
         IssueCredential, FactoryFails, BeginRotate, EndRotate, RotateFails,
         AnswerCredential, Fail, Answer, Goto, TypeOK
  <2> QED
    BY <2>1, <2>2
<1> QED
  BY <1>1, <1>2

(* Only CheckProof fixes the key and only IssueCredential a credential.    *)
LEMMA KeyKept ==
  ASSUME TypeOK, NEW h \in Handlers, HandleToken(h) \/ HandleCredential(h),
         ~CheckProof(h), ~IssueCredential(h)
  PROVE  UNCHANGED <<local[h].key, local[h].credential>>
<1>1. local[h] \in Locals
  BY DEF TypeOK
<1>2. CASE ConsumeOffer(h)
  BY <1>1, <1>2 DEF ConsumeOffer, TypeOK, Locals
<1>3. CASE GrantToken(h)
  <2>1. PICK token, nonce :
          local' = [local EXCEPT ![h].token = token, ![h].nonce = nonce]
    BY <1>3 DEF GrantToken
  <2> QED
    BY <1>1, <2>1 DEF TypeOK, Locals
<1>4. CASE LookupToken(h)
  BY <1>1, <1>4 DEF LookupToken, TypeOK, Locals
<1>5. CASE CheckNonceExpiry(h)
  <2>1. CASE UNCHANGED local
    BY <2>1
  <2>2. CASE RejectProof(h)
    <3>1. PICK nonce : local' = [local EXCEPT ![h].nonce = nonce]
      BY <2>2 DEF RejectProof
    <3> QED
      BY <1>1, <3>1 DEF TypeOK, Locals
  <2> QED
    BY <1>5, <2>1, <2>2 DEF CheckNonceExpiry
<1>6. CASE UNCHANGED local
  BY <1>6
<1> QED
  BY <1>2, <1>3, <1>4, <1>5, <1>6
     DEF HandleToken, RejectTokenRequest, RefuseCode, ConsumeFails, GrantFails,
         HandleCredential, RejectToken, RejectBody, RejectConfig, FactoryFails,
         BeginRotate, EndRotate, RotateFails

(* Checking the proof issues nothing.                                      *)
LEMMA CheckProofCredential ==
  ASSUME TypeOK, NEW h \in Handlers, CheckProof(h)
  PROVE  UNCHANGED local[h].credential
<1>1. local[h] \in Locals
  BY DEF TypeOK
<1>2. PICK key, nonce :
        local' \in {[local EXCEPT ![h].key = key], [local EXCEPT ![h].nonce = nonce]}
  BY DEF CheckProof, RejectProof
<1> QED
  BY <1>1, <1>2 DEF TypeOK, Locals

(* A handler that keeps its request, key and credential keeps its part of  *)
(* the invariant, wherever it goes but to the factory call.                *)
LEMMA HolderFrame ==
  ASSUME NEW h, HolderInv(h), UNCHANGED <<req[h], local[h].key, local[h].credential>>,
         \/ pc'[h] \notin {"ready", "lookup", "expiry", "nonce", "issue"}
         \/ pc'[h] = pc[h]
         \/ pc[h] \in {"lookup", "expiry"} /\ pc'[h] \in {"expiry", "nonce"}
  PROVE  HolderInv(h)'
<1>1. (Issued(h)' <=> Issued(h)) /\ (KeyChecked(h)' <=> KeyChecked(h))
  BY DEF Issued, KeyChecked, ProofOf
<1> QED
  BY <1>1 DEF HolderInv

-----------------------------------------------------------------------------
(* The steps that bring a handler to the factory call, and the call. *)

(* Without a proof, and without one required, there is no key.             *)
LEMMA LookupTokenKey ==
  ASSUME TypeOK, NEW h \in Handlers, HolderInv(h), LookupToken(h)
  PROVE  HolderInv(h)'
<1>1. UNCHANGED <<req[h], local[h].key, local[h].credential>>
  BY KeyKept DEF LookupToken, HandleCredential, CheckProof, IssueCredential
<1>2. pc[h] = "lookup" /\ ~Issued(h) /\ ~Issued(h)' /\ local[h].key = Empty
  BY <1>1 DEF LookupToken, TypeOK, PlaceOK, Issued, HolderInv
<1>3. CASE Goto(h, "expiry")
  BY <1>1, <1>2, <1>3, HolderFrame DEF Goto, TypeOK
<1>4. CASE Goto(h, "issue") /\ ProofOf(req[h]) = Empty /\ ~RequireProof
  <2>1. pc'[h] = "issue" /\ local'[h].key = Empty /\ ProofOf(req'[h]) = Empty
    BY <1>1, <1>2, <1>4 DEF Goto, TypeOK
  <2> QED
    BY <1>2, <1>4, <2>1 DEF HolderInv, KeyChecked
<1>5. CASE Goto(h, "done")
  BY <1>1, <1>5, HolderFrame DEF Goto, TypeOK
<1> QED
  BY <1>3, <1>4, <1>5 DEF LookupToken, Fail, Answer

(* A proof that holds was signed with the key it embeds (validateProof).   *)
LEMMA CheckProofKey ==
  ASSUME TypeOK, NEW h \in Handlers, HolderInv(h), CheckProof(h)
  PROVE  HolderInv(h)'
<1> DEFINE jwt == ProofOf(req[h]).jwt
           key == PublicKeyToGoKey(jwt.jwk)
<1>1. /\ pc[h] = "nonce" /\ ~Issued(h)
      /\ ProofOf(req[h]) # Empty /\ jwt # Empty
  BY DEF CheckProof, TypeOK, PlaceOK
<1>2. CASE /\ ProofPasses(h) /\ Goto(h, "issue")
           /\ local' = [local EXCEPT ![h].key = key]
           /\ UNCHANGED req
  <2>1. /\ local'[h].key = key /\ local'[h].credential = local[h].credential
        /\ pc'[h] = "issue" /\ req'[h] = req[h]
    BY <1>2 DEF TypeOK, Locals, Goto
  <2>2. /\ key # Empty /\ jwt.signature.key = key
        /\ jwt.signature.hash = DigestFor(jwt.alg)
        /\ jwt.typ = "openid4vci-proof+jwt" /\ jwt.aud = "issuer"
    BY <1>2 DEF ProofPasses, ProofHolds, ValidateProofJWT, Verify
  <2> HIDE DEF key
  <2>3. KeyChecked(h)'
    BY <1>1, <2>1, <2>2 DEF KeyChecked
  <2> QED
    BY <1>1, <2>1, <2>3 DEF HolderInv, Issued
<1>3. CASE RejectProof(h)
  <2>1. PICK nonce : local' = [local EXCEPT ![h].nonce = nonce]
    BY <1>3 DEF RejectProof
  <2>2. UNCHANGED <<req[h], local[h].key, local[h].credential>> /\ pc'[h] = "done"
    BY <1>3, <2>1 DEF TypeOK, Locals, RejectProof, Answer, Goto
  <2> QED
    BY <2>2, HolderFrame
<1> QED
  BY <1>2, <1>3 DEF CheckProof

(* The factory is called with the key that was checked.                    *)
LEMMA IssueCredentialKey ==
  ASSUME TypeOK, NEW h \in Handlers, HolderInv(h), IssueCredential(h)
  PROVE  HolderInv(h)'
<1> DEFINE cred == [config |-> local[h].config,
                    subject |-> records[req[h].token].subject,
                    key |-> local[h].key]
           until == now + CNonceTTL
<1>1. PICK nonce :
        /\ local' = [local EXCEPT ![h].credential = cred, ![h].nonce = nonce,
                                  ![h].nonceExpiresAt = until]
        /\ pc[h] = "issue" /\ Goto(h, "rotate") /\ UNCHANGED req
  BY DEF IssueCredential
<1>2. cred.key = local[h].key
  OBVIOUS
<1> HIDE DEF cred, until
<1>3. /\ local'[h].key = local[h].key /\ local'[h].credential = cred
      /\ pc'[h] = "rotate" /\ req'[h] = req[h]
  BY <1>1 DEF TypeOK, Locals, Goto
<1>4. KeyChecked(h)'
  BY <1>1, <1>3 DEF HolderInv, KeyChecked
<1> QED
  BY <1>2, <1>3, <1>4 DEF HolderInv

(* Every other step leaves the keys alone. *)
LEMMA OtherStepKey ==
  ASSUME TypeOK, NEW h \in Handlers, HolderInv(h), HandleToken(h) \/ HandleCredential(h),
         ~LookupToken(h), ~CheckProof(h), ~IssueCredential(h)
  PROVE  HolderInv(h)'
<1>1. UNCHANGED <<req[h], local[h].key, local[h].credential>>
  BY KeyKept, OneMoves
<1>2. \/ pc'[h] \in {"grant", "done", "unlock"}
      \/ pc[h] = "expiry" /\ pc'[h] = "nonce"
  BY DEF HandleToken, RejectTokenRequest, RefuseCode, ConsumeFails, ConsumeOffer,
         GrantToken, GrantFails, HandleCredential, RejectToken, RejectBody,
         RejectConfig, CheckNonceExpiry, RejectProof, FactoryFails, BeginRotate,
         EndRotate, RotateFails, AnswerCredential, Fail, Answer, Goto, TypeOK
<1> QED
  BY <1>1, <1>2, HolderFrame

(* Every step preserves the invariant.                                     *)
LEMMA KeyStep == TypeOK /\ KeyInv /\ [Next]_vars => KeyInv'
<1> SUFFICES ASSUME TypeOK, KeyInv, [Next]_vars, NEW g \in Handlers
             PROVE  HolderInv(g)'
  BY DEF KeyInv
<1>1. CASE \E h \in Handlers, r \in TokenRequests \cup CredentialRequests : Receive(h, r)
  <2>1. PICK h \in Handlers, r \in TokenRequests \cup CredentialRequests : Receive(h, r)
    BY <1>1
  <2>2. CASE g = h
    <3>1. /\ pc[g] = "ready" /\ pc'[g] \in {"consume", "lookup"}
          /\ local'[g] = local[g] /\ ~Issued(g)
      BY <2>1, <2>2 DEF Receive, Goto, TypeOK, PlaceOK
    <3> QED
      BY <3>1 DEF HolderInv, KeyInv, Issued
  <2>3. CASE g # h
    <3>1. UNCHANGED <<pc[g], req[g], local[g]>>
      BY <2>1, <2>3 DEF Receive, Goto, TypeOK
    <3> QED
      BY <3>1, HolderFrame DEF KeyInv
  <2> QED
    BY <2>2, <2>3
<1>2. CASE \E h \in Handlers : HandleToken(h) \/ HandleCredential(h)
  <2>1. PICK h \in Handlers : HandleToken(h) \/ HandleCredential(h)
    BY <1>2
  <2>2. CASE g = h
    BY <2>1, <2>2, LookupTokenKey, CheckProofKey, IssueCredentialKey, OtherStepKey
       DEF KeyInv
  <2>3. CASE g # h
    BY <2>1, <2>3, OneMoves, HolderFrame DEF KeyInv
  <2> QED
    BY <2>2, <2>3
<1>3. CASE Tick \/ (\E cfg \in OfferConfigs, code \in Codes : NewOffer(cfg, code))
           \/ UNCHANGED vars
  <2>1. UNCHANGED <<pc, req, local>>
    BY <1>3 DEF Tick, NewOffer, vars
  <2> QED
    BY <2>1, HolderFrame DEF KeyInv
<1> QED
  BY <1>1, <1>2, <1>3 DEF Next

(* In every behaviour a handler's key is the one its proof was checked     *)
(* with.                                                                   *)
THEOREM KeyInvariantHolds == Spec => []KeyInv
<1>1. Init => KeyInv
  BY DEF Init, KeyInv, HolderInv, Issued, NoLocals
<1>2. TypeOK /\ KeyInv /\ [Next]_vars => KeyInv'
  BY KeyStep
<1> QED
  BY <1>1, <1>2, TypeCorrect, PTL DEF Spec

(* A credential is bound to a key only if its request's proof, for this    *)
(* issuer, was signed with it; with RequireProof it is bound to one        *)
(* (validateProof, handleCredential).                                      *)
THEOREM KeyBindingHolds == Spec => []KeyBinding
<1>1. KeyInv => KeyBinding
  BY DEF KeyInv, HolderInv, KeyChecked, KeyBinding
<1> QED
  BY <1>1, KeyInvariantHolds, PTL
=============================================================================
