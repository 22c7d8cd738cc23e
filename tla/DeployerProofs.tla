--------------------------- MODULE DeployerProofs ---------------------------
(***************************************************************************)
(* Theorems about the deployment tool, for every plan, every number of     *)
(* runs and every assignment of accounts to runs: IInv is inductive, and   *)
(* what Deployer states follows from it.  The last section counts the      *)
(* steps of a run.                                                         *)
(***************************************************************************)
EXTENDS Deployer, TLAPS

-----------------------------------------------------------------------------
(* The events and the details.                                             *)

(* The events of an instantiation are events, whatever it creates besides. *)
LEMMA InstantiateEventsTyped ==
    ASSUME codes \in Nat, instances \in Nat, NEW c \in Nat, NEW k \in Nat
    PROVE  /\ InstantiateEvents(c, k) \in Seq(Events)
           /\ 1 \in DOMAIN InstantiateEvents(c, k)
           /\ InstantiateEvents(c, k)[1] =
                [type |-> "instantiate", code |-> c, addr |-> instances + 1]
<1>1. \A i \in 1 .. k + 1 :
        [type |-> "instantiate", code |-> IF i = 1 THEN c ELSE codes,
         addr |-> instances + i] \in Events
  BY DEF Events
<1>2. InstantiateEvents(c, k) \in [1 .. k + 1 -> Events]
  BY <1>1 DEF InstantiateEvents
<1>3. 1 \in 1 .. k + 1 /\ k + 1 \in Nat
  OBVIOUS
<1> QED
  BY <1>2, <1>3 DEF InstantiateEvents

(* extractResultTxDetails stops at the first event when that one matches.  *)
LEMMA FirstEventWins ==
    ASSUME NEW events \in Seq(Events), 1 \in DOMAIN events,
           events[1].type \in DetailTypes
    PROVE  FirstMatching(events) = 1
<1>1. Matching(events) \subseteq Nat /\ \A j \in Matching(events) : 1 <= j
  BY DEF Matching
<1>2. 1 \in Matching(events)
  BY DEF Matching
<1>3. \A i \in Matching(events) :
        (\A j \in Matching(events) : i <= j) => i = 1
  BY <1>1, <1>2
<1> QED
  BY <1>1, <1>2, <1>3 DEF FirstMatching

(* So the tool reads out of a success what the chain made.                 *)
LEMMA ExtractsWhatWasMade ==
    ASSUME TypeOK, WellMade, NEW res \in results, res.code = 0
    PROVE  /\ ~ExtractErr(res.events)
           /\ ExtractResultTxDetails(res.events) = res.made
           /\ res.made.code # 0
<1>1. res \in Results
  BY DEF TypeOK, ChainTypeOK
<1>2. res.events \in Seq(Events) /\ res.made \in Details
  BY <1>1 DEF Results
<1>3. 1 \in DOMAIN res.events /\ res.events[1].type \in DetailTypes
  BY DEF WellMade
<1>4. FirstMatching(res.events) = 1
  BY <1>2, <1>3, FirstEventWins
<1>5. /\ res.events[1].code = res.made.code
      /\ res.events[1].addr = res.made.addr
      /\ res.made.code # 0
  BY DEF WellMade
<1>6. Matching(res.events) # {}
  BY <1>3 DEF Matching
<1>7. ~ExtractErr(res.events)
  BY <1>4, <1>5, <1>6 DEF ExtractErr
<1>8. res.made = [code |-> res.made.code, addr |-> res.made.addr]
  BY <1>2 DEF Details
<1> QED
  BY <1>4, <1>5, <1>7, <1>8 DEF ExtractResultTxDetails

-----------------------------------------------------------------------------
(* The messages of a run.                                                  *)

LEMMA ElementTyped ==
    ASSUME NEW S, NEW s \in Seq(S), NEW i \in DOMAIN s
    PROVE  s[i] \in S
OBVIOUS

LEMMA PlanTyped ==
    /\ Len(Plan) \in Nat
    /\ DOMAIN Plan = 1 .. Len(Plan)
    /\ \A i \in DOMAIN Plan : IsEntry(Plan[i])
    /\ \A i \in DOMAIN Plan :
         /\ Plan[i].name \in Names
         /\ Plan[i].op \in {"Upload", "UploadAndInstantiate"}
<1> DEFINE S == {Plan[i] : i \in DOMAIN Plan}
<1>1. Plan \in Seq(S)
  BY PlanAssumption
<1>2. \A i \in DOMAIN Plan : IsEntry(Plan[i])
  BY PlanAssumption
<1> HIDE DEF S
<1>3. Len(Plan) \in Nat /\ DOMAIN Plan = 1 .. Len(Plan)
  BY <1>1
<1> QED
  BY <1>2, <1>3 DEF IsEntry

LEMMA EntryTyped ==
    ASSUME NEW r \in Runs, step[r] \in DOMAIN Plan
    PROVE  /\ Entry(r).name \in Names
           /\ Entry(r).op \in {"Upload", "UploadAndInstantiate"}
           /\ \A f \in DOMAIN Entry(r).refs : Entry(r).refs[f] \in Sources
           /\ Entry(r).clock \in BOOLEAN
BY PlanTyped DEF Entry, IsEntry

LEMMA MessagesTyped ==
    ASSUME TypeOK, NEW r \in Runs, step[r] \in DOMAIN Plan
    PROVE  StoreMsg(r) \in Msgs /\ InstantiateMsg(r) \in Msgs
<1>1. Entry(r).name \in Names
  BY EntryTyped
<1>2. NoDetail \in Details
  BY DEF NoDetail, Details
<1>3. deployed[r] \in [Names -> Details] /\ codeID[r] \in Nat
  BY DEF TypeOK
<1>4. Refs(r) \in [Fields -> Nat]
  <2>1. ASSUME NEW f \in DOMAIN Entry(r).refs
        PROVE  PartOf(deployed[r][Entry(r).refs[f].name],
                      Entry(r).refs[f].part) \in Nat
    <3>1. Entry(r).refs[f].name \in Names
      BY EntryTyped DEF Sources
    <3>2. deployed[r][Entry(r).refs[f].name] \in Details
      BY <1>3, <3>1
    <3> QED
      BY <3>2 DEF PartOf, Details
  <2> QED
    BY <2>1 DEF Refs
<1>5. NoSalt \in Salts /\ r \in Salts
  BY SaltsAssumption
<1>6. StoreMsg(r) \in Msgs
  BY <1>1, <1>5 DEF StoreMsg, Msgs
<1>7. InstantiateMsg(r) \in Msgs
  BY <1>1, <1>3, <1>4, <1>5 DEF InstantiateMsg, Msgs
<1> QED
  BY <1>6, <1>7

-----------------------------------------------------------------------------
(* The initial states.                                                     *)

LEMMA InitIInv == Init => IInv
<1> SUFFICES ASSUME Init PROVE IInv
  OBVIOUS
<1> USE DEF Init, ChainInit
<1>1. NoDetail \in Details
  BY DEF NoDetail, Details
<1>4. TypeOK
  BY <1>1, PlanTyped, MaxPollsAssumption
     DEF TypeOK, ChainTypeOK, PCs, Txs
<1>5. Spent /\ WellMade /\ NoSequenceGap
  BY DEF Spent, WellMade, NoSequenceGap
<1>6. ASSUME NEW r \in Runs PROVE CounterOK(r) /\ PlanOK(r)
  <2>1. CounterOK(r)
    BY DEF CounterOK, Waiting
  <2>2. \A i \in DOMAIN Plan : Plan[i].name \in Names /\ ~(i < 1)
    BY PlanTyped
  <2>3. PlanOK(r)
    BY <2>2 DEF PlanOK, Waiting
  <2> QED
    BY <2>1, <2>3
<1> QED
  BY <1>4, <1>5, <1>6 DEF IInv

-----------------------------------------------------------------------------
(* What a step leaves alone.                                               *)

(* The chain only moves forward.                                           *)
ChainMonotone ==
    /\ results \subseteq results'
    /\ \A a \in Accounts : accSeq[a] <= accSeq'[a]

(* A run that takes no step keeps its part of the invariant while the      *)
(* chain moves forward.                                                    *)
LEMMA IdleRun ==
    ASSUME TypeOK, TypeOK', ChainMonotone, NEW r \in Runs,
           CounterOK(r), PlanOK(r),
           pc'[r] = pc[r], step'[r] = step[r], sequence'[r] = sequence[r],
           isFirstDeploy'[r] = isFirstDeploy[r], sent'[r] = sent[r],
           polls'[r] = polls[r], codeID'[r] = codeID[r],
           deployed'[r] = deployed[r]
    PROVE  CounterOK(r)' /\ PlanOK(r)'
<1>1. Signer[r] \in Accounts
  BY SignerAssumption
<1>2. /\ accSeq[Signer[r]] \in Nat /\ accSeq'[Signer[r]] \in Nat
      /\ accSeq[Signer[r]] <= accSeq'[Signer[r]]
      /\ sequence[r] \in Nat
  BY <1>1 DEF TypeOK, ChainTypeOK, ChainMonotone
<1>3. Succeeded(sent[r]) => Succeeded(sent[r])'
  BY DEF ChainMonotone, Succeeded
<1>4. CounterOK(r)'
  BY <1>2, <1>3 DEF CounterOK
<1>5. /\ Entry(r)' = Entry(r)
      /\ StoreMsg(r)' = StoreMsg(r)
      /\ InstantiateMsg(r)' = InstantiateMsg(r)
  BY DEF Entry, Refs, StoreMsg, InstantiateMsg
<1>6. PlanOK(r)'
  BY <1>5 DEF PlanOK
<1> QED
  BY <1>4, <1>6

(* The results and the counters of the chain decide the chain's part.      *)
LEMMA ClientStep ==
    ASSUME Spent, WellMade, UNCHANGED <<results, accSeq, codes, instances>>
    PROVE  Spent' /\ WellMade'
BY DEF Spent, WellMade

-----------------------------------------------------------------------------
(* The steps of the chain.                                                 *)

LEMMA DeliverStep ==
    ASSUME IInv, NEW tx \in mempool, Deliver(tx), UNCHANGED <<pc, localVars>>
    PROVE  TypeOK' /\ Spent' /\ WellMade' /\ NoSequenceGap' /\ ChainMonotone
<1> USE DEF IInv
<1>1. /\ tx \in Txs /\ tx.acct \in Accounts /\ tx.msg \in Msgs
      /\ codes \in Nat /\ instances \in Nat
      /\ accSeq \in [Accounts -> Nat]
  BY DEF TypeOK, ChainTypeOK, Txs
<1>2. /\ tx.seq = accSeq[tx.acct]
      /\ accSeq' = [accSeq EXCEPT ![tx.acct] = @ + 1]
      /\ mempool' = mempool \ {tx}
  BY DEF Deliver
<1>3. PICK res :
        /\ results' = results \cup {res}
        /\ res \in Results /\ res.tx = tx
        /\ codes' \in Nat /\ instances' \in Nat
        /\ res.code = 0 =>
             /\ 1 \in DOMAIN res.events
             /\ res.events[1].type \in DetailTypes
             /\ res.events[1].code = res.made.code
             /\ res.events[1].addr = res.made.addr
             /\ res.made.code # 0
             /\ res.tx.msg.kind = "store" => res.made.addr = 0
  <2>1. CASE Store(tx)
    <3> DEFINE made == [code |-> codes + 1, addr |-> 0]
               res == [tx |-> tx, code |-> 0, made |-> made,
                       events |-> StoreEvents]
    <3>1. StoreEvents \in Seq(Events)
      BY <1>1 DEF StoreEvents, Events
    <3>2. made \in Details /\ made.code # 0 /\ made.addr = 0
      BY <1>1 DEF Details
    <3>3. res \in Results
      BY <1>1, <3>1, <3>2 DEF Results
    <3>4. /\ 1 \in DOMAIN StoreEvents
          /\ StoreEvents[1] =
               [type |-> "store_code", code |-> codes + 1, addr |-> 0]
      BY DEF StoreEvents
    <3>5. results' = results \cup {res} /\ codes' \in Nat /\ instances' \in Nat
      BY <1>1, <2>1 DEF Store
    <3> QED
      BY <3>2, <3>3, <3>4, <3>5 DEF DetailTypes
  <2>2. CASE Instantiate(tx)
    <3>1. PICK nested \in 0 .. MaxNested :
            /\ results' = results \cup
                 {[tx |-> tx, code |-> 0,
                   made |-> [code |-> tx.msg.code, addr |-> instances + 1],
                   events |-> InstantiateEvents(tx.msg.code, nested)]}
            /\ instances' = instances + 1 + nested
      BY <2>2 DEF Instantiate
    <3>2. /\ nested \in Nat /\ codes' = codes
          /\ tx.msg.code \in 1 .. codes /\ tx.msg.kind = "instantiate"
      BY <2>2, MaxNestedAssumption DEF Instantiate
    <3>3. tx.msg.code \in Nat /\ tx.msg.code # 0
      BY <1>1, <3>2
    <3> DEFINE made == [code |-> tx.msg.code, addr |-> instances + 1]
               evs == InstantiateEvents(tx.msg.code, nested)
               res == [tx |-> tx, code |-> 0, made |-> made, events |-> evs]
    <3>4. /\ evs \in Seq(Events) /\ 1 \in DOMAIN evs
          /\ evs[1] = [type |-> "instantiate", code |-> tx.msg.code,
                       addr |-> instances + 1]
      BY <1>1, <3>2, <3>3, InstantiateEventsTyped
    <3>5. made \in Details
      BY <1>1, <3>3 DEF Details
    <3> HIDE DEF evs
    <3>6. res \in Results
      BY <1>1, <3>4, <3>5 DEF Results
    <3>7. results' = results \cup {res} /\ codes' \in Nat /\ instances' \in Nat
      BY <1>1, <3>1, <3>2 DEF evs
    <3> QED
      BY <3>2, <3>3, <3>4, <3>6, <3>7 DEF DetailTypes
  <2>3. CASE ExecFail(tx)
    <3> DEFINE res == [tx |-> tx, code |-> 1, made |-> NoDetail,
                       events |-> <<>>]
    <3>1. res \in Results
      BY <1>1 DEF Results, NoDetail, Details
    <3>2. results' = results \cup {res} /\ codes' \in Nat /\ instances' \in Nat
      BY <1>1, <2>3 DEF ExecFail
    <3> QED
      BY <3>1, <3>2
  <2> QED
    BY <2>1, <2>2, <2>3 DEF Deliver
<1>4. accSeq' \in [Accounts -> Nat]
  BY <1>1, <1>2
<1>5. TypeOK'
  BY <1>2, <1>3, <1>4 DEF TypeOK, ChainTypeOK, localVars
<1>6. ChainMonotone
  BY <1>1, <1>2, <1>3 DEF ChainMonotone
<1>7. Spent'
  <2> SUFFICES ASSUME NEW s \in results', s.code = 0
               PROVE  s.tx.seq < accSeq'[s.tx.acct]
    BY DEF Spent
  <2>1. CASE s = res
    BY <1>1, <1>2, <1>3, <2>1
  <2>2. CASE s \in results
    <3>1. s.tx \in Txs
      BY <2>2 DEF TypeOK, ChainTypeOK, Results
    <3>2. s.tx.acct \in Accounts /\ s.tx.seq \in Nat
      BY <3>1 DEF Txs
    <3>3. s.tx.seq < accSeq[s.tx.acct]
      BY <2>2 DEF Spent
    <3> QED
      BY <1>1, <1>2, <3>2, <3>3
  <2> QED
    BY <1>3, <2>1, <2>2
<1>8. WellMade'
  BY <1>3 DEF WellMade
<1>9. NoSequenceGap'
  <2> SUFFICES ASSUME NEW t \in mempool' PROVE t.seq <= accSeq'[t.acct]
    BY DEF NoSequenceGap
  <2>1. t \in mempool /\ t.seq <= accSeq[t.acct]
    BY <1>2 DEF NoSequenceGap
  <2>2. t.acct \in Accounts /\ t.seq \in Nat
    BY <2>1 DEF TypeOK, ChainTypeOK, Txs
  <2> QED
    BY <1>1, <1>2, <2>1, <2>2
<1> QED
  BY <1>5, <1>6, <1>7, <1>8, <1>9

LEMMA RefuseStep ==
    ASSUME IInv, NEW tx \in mempool, Refuse(tx), UNCHANGED <<pc, localVars>>
    PROVE  TypeOK' /\ Spent' /\ WellMade' /\ NoSequenceGap' /\ ChainMonotone
<1> USE DEF IInv
<1> DEFINE res == [tx |-> tx, code |-> 1, made |-> NoDetail, events |-> <<>>]
<1>1. tx \in Txs
  BY DEF TypeOK, ChainTypeOK
<1>2. res \in Results
  BY <1>1 DEF Results, NoDetail, Details
<1>3. /\ results' = results \cup {res} \/ results' = results
      /\ mempool' = mempool \ {tx}
      /\ UNCHANGED <<accSeq, codes, instances>>
  BY DEF Refuse
<1>4. res.code # 0
  OBVIOUS
<1> HIDE DEF res
<1>5. TypeOK'
  BY <1>2, <1>3 DEF TypeOK, ChainTypeOK, localVars
<1>6. Spent' /\ WellMade'
  BY <1>3, <1>4 DEF Spent, WellMade
<1>7. NoSequenceGap'
  BY <1>3 DEF NoSequenceGap
<1>8. ChainMonotone
  BY <1>3 DEF ChainMonotone, TypeOK, ChainTypeOK
<1> QED
  BY <1>5, <1>6, <1>7, <1>8

LEMMA DropStep ==
    ASSUME IInv, NEW tx \in mempool, Drop(tx), UNCHANGED <<pc, localVars>>
    PROVE  TypeOK' /\ Spent' /\ WellMade' /\ NoSequenceGap' /\ ChainMonotone
<1> USE DEF IInv
<1>1. /\ mempool' = mempool \ {tx}
      /\ UNCHANGED <<results, accSeq, codes, instances>>
  BY DEF Drop
<1>2. TypeOK'
  BY <1>1 DEF TypeOK, ChainTypeOK, localVars
<1>3. Spent' /\ WellMade' /\ NoSequenceGap'
  BY <1>1 DEF Spent, WellMade, NoSequenceGap
<1>4. ChainMonotone
  BY <1>1 DEF ChainMonotone, TypeOK, ChainTypeOK
<1> QED
  BY <1>2, <1>3, <1>4

LEMMA ChainStepIInv == IInv /\ ChainStep => IInv'
<1> SUFFICES ASSUME IInv, ChainStep PROVE IInv'
  OBVIOUS
<1>1. PICK tx \in mempool : Deliver(tx) \/ Refuse(tx) \/ Drop(tx)
  BY DEF ChainStep, ChainNext
<1>2. UNCHANGED <<pc, localVars>>
  BY DEF ChainStep
<1>3. TypeOK' /\ Spent' /\ WellMade' /\ NoSequenceGap' /\ ChainMonotone
  BY <1>1, <1>2, DeliverStep, RefuseStep, DropStep
<1>4. ASSUME NEW r \in Runs PROVE CounterOK(r)' /\ PlanOK(r)'
  <2>1. TypeOK /\ CounterOK(r) /\ PlanOK(r)
    BY DEF IInv
  <2>2. /\ pc'[r] = pc[r] /\ step'[r] = step[r] /\ sequence'[r] = sequence[r]
        /\ isFirstDeploy'[r] = isFirstDeploy[r] /\ sent'[r] = sent[r]
        /\ polls'[r] = polls[r] /\ codeID'[r] = codeID[r]
        /\ deployed'[r] = deployed[r]
    BY <1>2 DEF localVars
  <2> QED
    BY <1>3, <2>1, <2>2, IdleRun
<1> QED
  BY <1>3, <1>4 DEF IInv

-----------------------------------------------------------------------------
(* The steps of the runs.                                                  *)

OthersIdle(r) ==
    \A q \in Runs \ {r} :
        /\ pc'[q] = pc[q] /\ step'[q] = step[q]
        /\ sequence'[q] = sequence[q] /\ isFirstDeploy'[q] = isFirstDeploy[q]
        /\ sent'[q] = sent[q] /\ polls'[q] = polls[q]
        /\ codeID'[q] = codeID[q]
        /\ deployed'[q] = deployed[q]

(* A step of one run owes the invariant for that run only.                 *)
LEMMA OneRun ==
    ASSUME IInv, NEW r \in Runs, TypeOK', NoSequenceGap', OthersIdle(r),
           UNCHANGED <<results, accSeq, codes, instances>>,
           CounterOK(r)', PlanOK(r)'
    PROVE  IInv'
<1>1. ChainMonotone
  BY DEF ChainMonotone, IInv, TypeOK, ChainTypeOK
<1>2. Spent' /\ WellMade'
  BY ClientStep DEF IInv
<1>3. ASSUME NEW q \in Runs PROVE CounterOK(q)' /\ PlanOK(q)'
  <2>1. CASE q = r
    BY <2>1
  <2>2. CASE q # r
    <3>1. TypeOK /\ CounterOK(q) /\ PlanOK(q)
      BY DEF IInv
    <3> QED
      BY <1>1, <2>2, <3>1, IdleRun DEF OthersIdle
  <2> QED
    BY <2>1, <2>2
<1> QED
  BY <1>2, <1>3 DEF IInv

(* Signing for a sequence the account has reached leaves no gap.           *)
LEMMA BroadcastStep ==
    ASSUME IInv, NEW r \in Runs, NEW seq \in Nat, NEW msg \in Msgs,
           NEW label \in Waiting, seq <= accSeq[Signer[r]],
           SignAndBroadcast(r, seq, msg, label),
           isFirstDeploy' = [isFirstDeploy EXCEPT ![r] = FALSE]
    PROVE  /\ TypeOK' /\ NoSequenceGap' /\ OthersIdle(r)
           /\ UNCHANGED <<results, accSeq, codes, instances>>
           /\ CounterOK(r)'
           /\ sent'[r].msg = msg
           /\ pc'[r] \in {label, "fatal"}
<1> USE DEF IInv
<1> DEFINE tx == [acct |-> Signer[r], seq |-> seq, msg |-> msg]
<1>1. tx \in Txs
  BY SignerAssumption DEF Txs
<1>2. /\ sequence' = [sequence EXCEPT ![r] = seq]
      /\ sent' = [sent EXCEPT ![r] = tx]
      /\ polls' = [polls EXCEPT ![r] = 0]
      /\ \E l \in {label, "fatal"} : pc' = [pc EXCEPT ![r] = l]
      /\ mempool' \subseteq mempool \cup {tx}
      /\ UNCHANGED <<results, accSeq, codes, instances, step, codeID, deployed>>
  BY DEF SignAndBroadcast, Goto, Broadcast
<1>3. label \in PCs /\ "fatal" \in PCs
  BY DEF PCs, Waiting, Ended
<1>4. TypeOK'
  BY <1>1, <1>2, <1>3, MaxPollsAssumption DEF TypeOK, ChainTypeOK
<1>5. NoSequenceGap'
  BY <1>2 DEF NoSequenceGap
<1>6. OthersIdle(r)
  BY <1>2 DEF OthersIdle, TypeOK
<1>7. /\ pc'[r] \in {label, "fatal"}
      /\ sent'[r] = tx /\ sequence'[r] = seq /\ isFirstDeploy'[r] = FALSE
      /\ polls'[r] = 0
  BY <1>2 DEF TypeOK
<1>8. CounterOK(r)'
  BY <1>1, <1>7, MaxPollsAssumption DEF CounterOK, Waiting
<1> QED
  BY <1>2, <1>4, <1>5, <1>6, <1>7, <1>8

LEMMA UpdateAccountSequenceIInv ==
    ASSUME IInv, NEW r \in Runs, UpdateAccountSequence(r) PROVE IInv'
<1> USE DEF IInv
<1>1. /\ pc[r] = "init"
      /\ \/ /\ sequence' = [sequence EXCEPT ![r] = accSeq[Signer[r]]]
            /\ pc' = [pc EXCEPT ![r] = "ready"]
         \/ pc' = [pc EXCEPT ![r] = "fatal"] /\ UNCHANGED sequence
      /\ UNCHANGED <<chainVars, step, isFirstDeploy, sent, polls, codeID,
                     deployed>>
  BY DEF UpdateAccountSequence, Goto
<1>2. Signer[r] \in Accounts /\ accSeq[Signer[r]] \in Nat
  BY SignerAssumption DEF TypeOK, ChainTypeOK
<1>3. TypeOK'
  BY <1>1, <1>2 DEF TypeOK, ChainTypeOK, chainVars, PCs, Ended
<1>4. NoSequenceGap' /\ UNCHANGED <<results, accSeq, codes, instances>>
  BY <1>1 DEF NoSequenceGap, chainVars
<1>5. OthersIdle(r)
  BY <1>1 DEF OthersIdle, TypeOK
<1>6. CounterOK(r)'
  BY <1>1, <1>2, <1>4 DEF CounterOK, TypeOK, Waiting
<1>7. PlanOK(r)'
  BY <1>1 DEF PlanOK, TypeOK, Waiting
<1> QED
  BY <1>3, <1>4, <1>5, <1>6, <1>7, OneRun

LEMMA UploadIInv ==
    ASSUME IInv, NEW r \in Runs, Upload(r) PROVE IInv'
<1> USE DEF IInv
<1>1. /\ pc[r] = "ready" /\ step[r] \in DOMAIN Plan
      /\ Entry(r).op = "Upload"
      /\ SignAndBroadcast(r, sequence[r] + 1, StoreMsg(r), "waitStore")
      /\ UNCHANGED isFirstDeploy
  BY DEF Upload, ClientIncreaseSequence
<1>2. isFirstDeploy[r] = FALSE
  BY <1>1, PlanStartAssumption DEF CounterOK, Entry, TypeOK
<1>3. /\ sequence[r] + 1 \in Nat
      /\ sequence[r] + 1 <= accSeq[Signer[r]]
  BY <1>1, <1>2, SignerAssumption DEF CounterOK, TypeOK, ChainTypeOK
<1>4. isFirstDeploy' = [isFirstDeploy EXCEPT ![r] = FALSE]
  BY <1>1, <1>2 DEF TypeOK
<1>5. StoreMsg(r) \in Msgs /\ "waitStore" \in Waiting
  BY <1>1, MessagesTyped DEF Waiting
<1>6. /\ TypeOK' /\ NoSequenceGap' /\ OthersIdle(r) /\ CounterOK(r)'
      /\ UNCHANGED <<results, accSeq, codes, instances>>
      /\ sent'[r].msg = StoreMsg(r) /\ pc'[r] \in {"waitStore", "fatal"}
  BY <1>1, <1>3, <1>4, <1>5, BroadcastStep
<1>7. UNCHANGED <<step, codeID, deployed>>
  BY <1>1 DEF SignAndBroadcast
<1>8. PlanOK(r)'
  BY <1>1, <1>6, <1>7 DEF PlanOK, Waiting, StoreMsg, Entry
<1> QED
  BY <1>6, <1>8, OneRun

LEMMA UploadAndInstantiateIInv ==
    ASSUME IInv, NEW r \in Runs, UploadAndInstantiate(r) PROVE IInv'
<1> USE DEF IInv
<1>1. /\ pc[r] = "ready" /\ step[r] \in DOMAIN Plan
      /\ Entry(r).op = "UploadAndInstantiate"
      /\ SignAndBroadcast(r, IncreaseSequence(r), StoreMsg(r), "waitStore")
      /\ isFirstDeploy' = [isFirstDeploy EXCEPT ![r] = FALSE]
  BY DEF UploadAndInstantiate
<1>2. /\ IncreaseSequence(r) \in Nat
      /\ IncreaseSequence(r) <= accSeq[Signer[r]]
  <2>1. sequence[r] \in Nat /\ accSeq[Signer[r]] \in Nat
    BY SignerAssumption DEF TypeOK, ChainTypeOK
  <2> QED
    BY <1>1, <2>1 DEF CounterOK, IncreaseSequence
<1>3. StoreMsg(r) \in Msgs /\ "waitStore" \in Waiting
  BY <1>1, MessagesTyped DEF Waiting
<1>4. /\ TypeOK' /\ NoSequenceGap' /\ OthersIdle(r) /\ CounterOK(r)'
      /\ UNCHANGED <<results, accSeq, codes, instances>>
      /\ sent'[r].msg = StoreMsg(r) /\ pc'[r] \in {"waitStore", "fatal"}
  BY <1>1, <1>2, <1>3, BroadcastStep
<1>5. UNCHANGED <<step, codeID, deployed>>
  BY <1>1 DEF SignAndBroadcast
<1>6. PlanOK(r)'
  BY <1>1, <1>4, <1>5 DEF PlanOK, Waiting, StoreMsg, Entry
<1> QED
  BY <1>4, <1>6, OneRun

LEMMA InstantiateContractIInv ==
    ASSUME IInv, NEW r \in Runs, InstantiateContract(r) PROVE IInv'
<1> USE DEF IInv
<1>1. /\ pc[r] = "stored"
      /\ SignAndBroadcast(r, IncreaseSequence(r), InstantiateMsg(r),
                          "waitInstantiate")
      /\ isFirstDeploy' = [isFirstDeploy EXCEPT ![r] = FALSE]
  BY DEF InstantiateContract
<1>2. /\ IncreaseSequence(r) \in Nat
      /\ IncreaseSequence(r) <= accSeq[Signer[r]]
  <2>1. sequence[r] \in Nat /\ accSeq[Signer[r]] \in Nat
    BY SignerAssumption DEF TypeOK, ChainTypeOK
  <2> QED
    BY <1>1, <2>1 DEF CounterOK, IncreaseSequence
<1>3. step[r] \in DOMAIN Plan
  BY <1>1 DEF PlanOK
<1>4. InstantiateMsg(r) \in Msgs /\ "waitInstantiate" \in Waiting
  BY <1>3, MessagesTyped DEF Waiting
<1>5. /\ TypeOK' /\ NoSequenceGap' /\ OthersIdle(r) /\ CounterOK(r)'
      /\ UNCHANGED <<results, accSeq, codes, instances>>
      /\ sent'[r].msg = InstantiateMsg(r)
      /\ pc'[r] \in {"waitInstantiate", "fatal"}
  BY <1>1, <1>2, <1>4, BroadcastStep
<1>6. UNCHANGED <<step, codeID, deployed>>
  BY <1>1 DEF SignAndBroadcast
<1>7. PlanOK(r)'
  BY <1>1, <1>3, <1>5, <1>6
     DEF PlanOK, Waiting, InstantiateMsg, Refs, Entry
<1> QED
  BY <1>5, <1>7, OneRun

LEMMA WaitTxMissIInv ==
    ASSUME IInv, NEW r \in Runs, WaitTxMiss(r) PROVE IInv'
<1> USE DEF IInv
<1>1. /\ pc[r] \in Waiting
      /\ polls' = [polls EXCEPT ![r] = @ + 1]
      /\ \/ ~(polls[r] + 1 >= MaxPolls) /\ UNCHANGED pc
         \/ pc' = [pc EXCEPT ![r] = "fatal"]
      /\ UNCHANGED <<chainVars, step, sequence, isFirstDeploy, sent, codeID,
                     deployed>>
  BY DEF WaitTxMiss, LastPoll, Polled, GiveUp, Goto
<1>2. /\ polls[r] \in Nat /\ polls[r] < MaxPolls /\ MaxPolls \in Nat
      /\ polls[r] + 1 \in 0 .. MaxPolls
  BY <1>1, MaxPollsAssumption DEF TypeOK, CounterOK
<1>3. TypeOK'
  <2>1. polls' \in [Runs -> 0 .. MaxPolls]
    BY <1>1, <1>2 DEF TypeOK
  <2>2. pc' \in [Runs -> PCs]
    BY <1>1 DEF TypeOK, PCs, Ended
  <2> QED
    BY <1>1, <2>1, <2>2 DEF TypeOK, ChainTypeOK, chainVars
<1>4. NoSequenceGap' /\ UNCHANGED <<results, accSeq, codes, instances>>
  BY <1>1 DEF NoSequenceGap, chainVars
<1>5. OthersIdle(r)
  BY <1>1 DEF OthersIdle, TypeOK
<1>6. CounterOK(r)' /\ PlanOK(r)'
  <2>1. CASE pc' = [pc EXCEPT ![r] = "fatal"]
    <3>1. pc'[r] = "fatal" /\ step' = step /\ deployed' = deployed
      BY <1>1, <2>1 DEF TypeOK
    <3> QED
      BY <3>1 DEF CounterOK, PlanOK, Waiting
  <2>2. CASE ~(polls[r] + 1 >= MaxPolls) /\ UNCHANGED pc
    <3>1. polls'[r] = polls[r] + 1 /\ polls'[r] < MaxPolls
      BY <1>1, <1>2, <2>2 DEF TypeOK
    <3> QED
      BY <1>1, <2>2, <3>1 DEF CounterOK, PlanOK, Entry, StoreMsg,
         InstantiateMsg, Refs, chainVars, Succeeded
  <2> QED
    BY <1>1, <2>1, <2>2
<1> QED
  BY <1>3, <1>4, <1>5, <1>6, OneRun

(* A step that only ends a run.                                            *)
LEMMA EndStep ==
    ASSUME IInv, NEW r \in Runs, NEW label \in Ended,
           pc' = [pc EXCEPT ![r] = label],
           UNCHANGED <<chainVars, localVars>>
    PROVE  IInv'
<1> USE DEF IInv
<1>1. TypeOK'
  BY DEF TypeOK, ChainTypeOK, chainVars, localVars, PCs
<1>2. NoSequenceGap' /\ UNCHANGED <<results, accSeq, codes, instances>>
  BY DEF NoSequenceGap, chainVars
<1>3. OthersIdle(r)
  BY DEF OthersIdle, TypeOK, localVars
<1>4. pc'[r] \in Ended /\ step' = step /\ deployed' = deployed
  BY DEF TypeOK, localVars
<1>5. CounterOK(r)' /\ PlanOK(r)'
  BY <1>4 DEF CounterOK, PlanOK, Waiting, Ended
<1> QED
  BY <1>1, <1>2, <1>3, <1>5, OneRun

(* The end of a deployment: main keeps what it read, and goes on.          *)
LEMMA DeployedStep ==
    ASSUME IInv, NEW r \in Runs, NEW d \in Details, d # NoDetail,
           pc[r] \in Waiting, Succeeded(sent[r]),
           deployed' = [deployed EXCEPT ![r][Entry(r).name] = d],
           step' = [step EXCEPT ![r] = @ + 1],
           pc' = [pc EXCEPT ![r] = "ready"],
           UNCHANGED <<chainVars, sequence, isFirstDeploy, sent, polls, codeID>>
    PROVE  IInv'
<1> USE DEF IInv
<1>1. step[r] \in DOMAIN Plan /\ Entry(r).name \in Names
  BY EntryTyped DEF PlanOK
<1>2. /\ step[r] \in 1 .. Len(Plan) /\ Len(Plan) \in Nat
      /\ step[r] + 1 \in 1 .. Len(Plan) + 1
  BY <1>1, PlanTyped
<1>3. TypeOK'
  BY <1>1, <1>2 DEF TypeOK, ChainTypeOK, chainVars, PCs
<1>4. NoSequenceGap' /\ UNCHANGED <<results, accSeq, codes, instances>>
  BY DEF NoSequenceGap, chainVars
<1>5. OthersIdle(r)
  BY DEF OthersIdle, TypeOK
<1>6. /\ pc'[r] = "ready" /\ step'[r] = step[r] + 1
      /\ deployed'[r] = [deployed[r] EXCEPT ![Entry(r).name] = d]
  BY DEF TypeOK
<1>7. CounterOK(r)'
  <2>1. /\ ~isFirstDeploy[r] /\ sent[r].acct = Signer[r]
        /\ sent[r].seq = sequence[r]
    BY DEF CounterOK
  <2>2. sequence[r] < accSeq[Signer[r]]
    BY <2>1 DEF Succeeded, Spent
  <2> QED
    BY <1>4, <1>6, <2>1, <2>2 DEF CounterOK, Succeeded, Waiting
<1>8. PlanOK(r)'
  <2>1. ASSUME NEW i \in DOMAIN Plan
        PROVE  (deployed[r][Plan[i].name] # NoDetail <=> i < step[r])'
    <3>1. i \in Nat /\ step[r] \in Nat /\ Plan[i].name \in Names
      BY <1>2, PlanTyped
    <3>2. deployed[r] \in [Names -> Details]
      BY DEF TypeOK
    <3>3. deployed[r][Plan[i].name] # NoDetail <=> i < step[r]
      BY DEF PlanOK
    <3>4. CASE i = step[r]
      BY <1>1, <1>6, <3>1, <3>2, <3>4 DEF Entry
    <3>5. CASE i # step[r]
      <4>1. Plan[i].name # Entry(r).name
        BY <1>1, <3>5, PlanAssumption DEF Entry
      <4>2. deployed'[r][Plan[i].name] = deployed[r][Plan[i].name]
        BY <1>6, <3>1, <3>2, <4>1
      <4>3. i < step[r] + 1 <=> i < step[r]
        BY <3>1, <3>5
      <4> QED
        BY <1>6, <3>3, <4>2, <4>3
    <3> QED
      BY <3>4, <3>5
  <2> QED
    BY <1>6, <2>1 DEF PlanOK, Waiting
<1> QED
  BY <1>3, <1>4, <1>5, <1>7, <1>8, OneRun

LEMMA StoreDoneIInv ==
    ASSUME IInv, NEW r \in Runs, StoreDone(r) PROVE IInv'
<1> USE DEF IInv
<1>1. PICK res \in results :
        /\ res.tx = sent[r] /\ res.code = 0
        /\ LET d == ExtractResultTxDetails(res.events) IN
           \/ ParseErr(d.code) /\ Goto(r, "fatal")
                /\ UNCHANGED <<step, codeID, deployed>>
           \/ /\ ~ParseErr(d.code) /\ Entry(r).op = "Upload"
              /\ deployed' = [deployed EXCEPT ![r][Entry(r).name] =
                                 [code |-> d.code, addr |-> 0]]
              /\ step' = [step EXCEPT ![r] = @ + 1]
              /\ Goto(r, "ready")
              /\ UNCHANGED codeID
           \/ /\ ~ParseErr(d.code) /\ Entry(r).op = "UploadAndInstantiate"
              /\ codeID' = [codeID EXCEPT ![r] = d.code]
              /\ Goto(r, "stored")
              /\ UNCHANGED <<step, deployed>>
  BY DEF StoreDone
<1>2. /\ pc[r] = "waitStore" /\ pc[r] \in Waiting
      /\ UNCHANGED <<chainVars, sequence, isFirstDeploy, sent, polls>>
  BY DEF StoreDone, Waiting
<1> DEFINE d == res.made
<1>3. ExtractResultTxDetails(res.events) = d /\ d.code # 0
  BY <1>1, ExtractsWhatWasMade
<1>4. d \in Details /\ Succeeded(sent[r])
  BY <1>1 DEF TypeOK, ChainTypeOK, Results, Succeeded
<1>5. d.code \in Nat
  BY <1>4 DEF Details
<1> HIDE DEF d
<1>6. CASE /\ Entry(r).op = "Upload"
           /\ deployed' = [deployed EXCEPT ![r][Entry(r).name] =
                              [code |-> d.code, addr |-> 0]]
           /\ step' = [step EXCEPT ![r] = @ + 1]
           /\ Goto(r, "ready")
           /\ UNCHANGED codeID
  <2> DEFINE e == [code |-> d.code, addr |-> 0]
  <2>1. e \in Details /\ e # NoDetail
    BY <1>3, <1>5 DEF Details, NoDetail
  <2>2. /\ pc' = [pc EXCEPT ![r] = "ready"]
        /\ deployed' = [deployed EXCEPT ![r][Entry(r).name] = e]
        /\ step' = [step EXCEPT ![r] = @ + 1]
        /\ UNCHANGED <<chainVars, sequence, isFirstDeploy, sent, polls, codeID>>
    BY <1>2, <1>6 DEF Goto
  <2> HIDE DEF e
  <2> QED
    BY <1>2, <1>4, <2>1, <2>2, DeployedStep
<1>7. CASE /\ Entry(r).op = "UploadAndInstantiate"
           /\ codeID' = [codeID EXCEPT ![r] = d.code]
           /\ Goto(r, "stored")
           /\ UNCHANGED <<step, deployed>>
  <2>1. TypeOK'
    BY <1>2, <1>5, <1>7 DEF TypeOK, ChainTypeOK, chainVars, PCs, Goto
  <2>2. NoSequenceGap' /\ UNCHANGED <<results, accSeq, codes, instances>>
    BY <1>2 DEF NoSequenceGap, chainVars
  <2>3. OthersIdle(r)
    BY <1>2, <1>7 DEF OthersIdle, TypeOK, Goto
  <2>4. pc'[r] = "stored"
    BY <1>7 DEF Goto, TypeOK
  <2>5. CounterOK(r)'
    <3>1. /\ ~isFirstDeploy[r] /\ sent[r].acct = Signer[r]
          /\ sent[r].seq = sequence[r]
      BY <1>2 DEF CounterOK
    <3>2. sequence[r] < accSeq[Signer[r]]
      BY <1>4, <3>1 DEF Succeeded, Spent
    <3> QED
      BY <1>2, <1>4, <2>2, <2>4, <3>1, <3>2
         DEF CounterOK, Succeeded, Waiting
  <2>6. PlanOK(r)'
    BY <1>2, <1>7, <2>4 DEF PlanOK, Waiting, Entry
  <2> QED
    BY <2>1, <2>2, <2>3, <2>5, <2>6, OneRun
<1> QED
  BY <1>1, <1>3, <1>6, <1>7 DEF ParseErr

LEMMA InstantiateDoneIInv ==
    ASSUME IInv, NEW r \in Runs, InstantiateDone(r) PROVE IInv'
<1> USE DEF IInv
<1>1. PICK res \in results :
        /\ res.tx = sent[r] /\ res.code = 0
        /\ LET d == ExtractResultTxDetails(res.events) IN
           \/ /\ ExtractErr(res.events) \/ ParseErr(d.code)
              /\ Goto(r, "fatal")
              /\ UNCHANGED <<step, deployed>>
           \/ /\ ~ExtractErr(res.events) /\ ~ParseErr(d.code)
              /\ deployed' = [deployed EXCEPT ![r][Entry(r).name] = d]
              /\ step' = [step EXCEPT ![r] = @ + 1]
              /\ Goto(r, "ready")
  BY DEF InstantiateDone
<1>2. /\ pc[r] \in Waiting
      /\ UNCHANGED <<chainVars, sequence, isFirstDeploy, sent, polls, codeID>>
  BY DEF InstantiateDone, Waiting
<1> DEFINE d == res.made
<1>3. /\ ExtractResultTxDetails(res.events) = d /\ d.code # 0
      /\ ~ExtractErr(res.events)
  BY <1>1, ExtractsWhatWasMade
<1>4. d \in Details /\ Succeeded(sent[r])
  BY <1>1 DEF TypeOK, ChainTypeOK, Results, Succeeded
<1>5. d # NoDetail
  BY <1>3 DEF NoDetail
<1> HIDE DEF d
<1>6. /\ deployed' = [deployed EXCEPT ![r][Entry(r).name] = d]
      /\ step' = [step EXCEPT ![r] = @ + 1]
      /\ pc' = [pc EXCEPT ![r] = "ready"]
  BY <1>1, <1>3 DEF ParseErr, Goto
<1> QED
  BY <1>2, <1>4, <1>5, <1>6, DeployedStep

LEMMA RunStepIInv ==
    ASSUME IInv, NEW r \in Runs, RunStep(r) \/ Kill(r) PROVE IInv'
<1>1. CASE WaitTxFailed(r)
  BY <1>1, EndStep DEF WaitTxFailed, Goto, Ended
<1>2. CASE AllDeployed(r)
  BY <1>2, EndStep DEF AllDeployed, Goto, Ended
<1>3. CASE Kill(r)
  BY <1>3, EndStep DEF Kill, Goto, Ended
<1> QED
  BY <1>1, <1>2, <1>3, UpdateAccountSequenceIInv, UploadIInv,
     UploadAndInstantiateIInv, InstantiateContractIInv, WaitTxMissIInv,
     StoreDoneIInv, InstantiateDoneIInv DEF RunStep

LEMMA NextIInv == IInv /\ [Next]_vars => IInv'
<1> SUFFICES ASSUME IInv, [Next]_vars PROVE IInv'
  OBVIOUS
<1>1. CASE UNCHANGED vars
  <2>1. TypeOK' /\ Spent' /\ WellMade' /\ NoSequenceGap'
    BY <1>1 DEF vars, chainVars, localVars, IInv, TypeOK, ChainTypeOK, Spent,
                WellMade, NoSequenceGap
  <2>2. ASSUME NEW r \in Runs PROVE CounterOK(r)' /\ PlanOK(r)'
    <3>1. ChainMonotone
      BY <1>1 DEF vars, chainVars, ChainMonotone, IInv, TypeOK, ChainTypeOK
    <3> QED
      BY <1>1, <2>1, <3>1, IdleRun DEF vars, localVars, IInv
  <2> QED
    BY <2>1, <2>2 DEF IInv
<1> QED
  BY <1>1, RunStepIInv, ChainStepIInv DEF Next, Terminated

-----------------------------------------------------------------------------
(* The theorems.                                                           *)

LEMMA Invariant == Spec => []IInv
<1>1. IInv /\ [Next]_vars => IInv'
  BY NextIInv
<1> QED
  BY InitIInv, <1>1, PTL DEF Spec

(* Every variable keeps its type, whatever the chain answers.              *)
THEOREM TypeCorrect == Spec => []TypeOK
<1>1. IInv => TypeOK
  BY DEF IInv
<1> QED
  BY Invariant, <1>1, PTL

(* However many runs share an account, and whatever is lost, refused or    *)
(* killed, no transaction is signed for a sequence its account has not     *)
(* reached.                                                                *)
THEOREM NeverAhead == Spec => []NoSequenceGap
<1>1. IInv => NoSequenceGap
  BY DEF IInv
<1> QED
  BY Invariant, <1>1, PTL

(* A run signs a further transaction only after a block held the one       *)
(* before, with success.                                                   *)
THEOREM AdvancesAfterCommit == Spec => AdvanceOnlyAfterCommit
<1> DEFINE Advance ==
      \A r \in Runs :
         sent'[r] # sent[r] =>
            \/ sent[r] = NoTx
            \/ \E res \in results : res.tx = sent[r] /\ res.code = 0
<1>1. IInv /\ [Next]_vars => [Advance]_vars
  <2> SUFFICES ASSUME IInv, Next, NEW r \in Runs, sent'[r] # sent[r]
               PROVE  sent[r] = NoTx \/ Succeeded(sent[r])
    BY DEF Succeeded
  <2>1. pc[r] \in {"ready", "stored"} => sent[r] = NoTx \/ Succeeded(sent[r])
    BY DEF IInv, TypeOK, CounterOK
  <2>2. ASSUME NEW q \in Runs, RunStep(q) \/ Kill(q)
        PROVE  pc[r] \in {"ready", "stored"}
    <3>1. sent' # sent
      OBVIOUS
    <3>2. \/ Upload(q) \/ UploadAndInstantiate(q) \/ InstantiateContract(q)
      BY <2>2, <3>1
         DEF RunStep, Kill, localVars, UpdateAccountSequence, WaitTxMiss,
             WaitTxFailed, StoreDone, InstantiateDone, AllDeployed
    <3>3. pc[q] \in {"ready", "stored"}
      BY <3>2 DEF Upload, UploadAndInstantiate, InstantiateContract
    <3>4. PICK tx : sent' = [sent EXCEPT ![q] = tx]
      BY <3>2 DEF Upload, UploadAndInstantiate, InstantiateContract,
                  SignAndBroadcast
    <3>5. q = r
      BY <3>4 DEF IInv, TypeOK
    <3> QED
      BY <3>3, <3>5
  <2>3. ~ChainStep /\ ~Terminated
    BY DEF ChainStep, Terminated, vars, localVars
  <2> QED
    BY <2>1, <2>2, <2>3 DEF Next
<1> QED
  BY Invariant, <1>1, PTL DEF Spec, AdvanceOnlyAfterCommit

-----------------------------------------------------------------------------
(* The tool implements Deployment.                                         *)

LEMMA InitRefines == Init => D!Init
<1> SUFFICES ASSUME Init PROVE D!Init
  OBVIOUS
<1>1. contracts = {}
  BY DEF Init, ChainInit, contracts
<1>2. deployed = [r \in Runs |-> [n \in Names |-> D!Unknown]]
  BY DEF Init, D!Unknown, NoDetail
<1>3. phase = [r \in Runs |-> "active"]
  BY DEF Init, phase
<1> QED
  BY <1>1, <1>2, <1>3 DEF D!Init

(* What the end of a run means to its phase.                               *)
LEMMA PhaseOf ==
    ASSUME TypeOK, NEW r \in Runs, NEW label \in PCs, pc[r] \notin Ended,
           pc' = [pc EXCEPT ![r] = label]
    PROVE  /\ phase[r] = "active"
           /\ label \notin Ended => phase' = phase
           /\ label \in {"fatal", "killed"} =>
                phase' = [phase EXCEPT ![r] = "aborted"]
           /\ label = "ok" => phase' = [phase EXCEPT ![r] = "done"]
<1> DEFINE P(l) == CASE l = "ok" -> "done"
                     [] l \in {"fatal", "killed"} -> "aborted"
                     [] OTHER -> "active"
<1>1. phase = [q \in Runs |-> P(pc[q])] /\ phase' = [q \in Runs |-> P(pc'[q])]
  BY DEF phase
<1>2. \A q \in Runs : pc'[q] = IF q = r THEN label ELSE pc[q]
  BY DEF TypeOK
<1>3. P(pc[r]) = "active" /\ (label \notin Ended => P(label) = "active")
  BY DEF Ended
<1>4. /\ label \in {"fatal", "killed"} => P(label) = "aborted"
      /\ label = "ok" => P(label) = "done"
  OBVIOUS
<1> HIDE DEF P
<1>5. phase' = [q \in Runs |-> IF q = r THEN P(label) ELSE phase[q]]
  BY <1>1, <1>2
<1>6. phase = [q \in Runs |-> phase[q]] /\ phase[r] = "active"
  BY <1>1, <1>3
<1>7. phase' = [phase EXCEPT ![r] = P(label)]
  BY <1>5, <1>6
<1>8. label \notin Ended => phase' = phase
  BY <1>3, <1>5, <1>6
<1> QED
  BY <1>4, <1>6, <1>7, <1>8

(* Steps that leave the results and deployed alone: a stutter, or an end.  *)
LEMMA SilentStep ==
    ASSUME TypeOK, NEW r \in Runs, NEW label \in PCs, pc[r] \notin Ended,
           pc' = [pc EXCEPT ![r] = label], label # "ok",
           UNCHANGED <<results, deployed>>
    PROVE  [D!Next]_D!abstractVars
<1>1. contracts' = contracts
  BY DEF contracts
<1>2. CASE label \notin Ended
  BY <1>1, <1>2, PhaseOf DEF D!abstractVars
<1>3. CASE label \in {"fatal", "killed"}
  <2>1. D!Abort(r)
    BY <1>1, <1>3, PhaseOf DEF D!Abort
  <2> QED
    BY <2>1 DEF D!Next
<1> QED
  BY <1>2, <1>3 DEF Ended

(* Steps that confirm the contract in work.                                *)
LEMMA ConfirmStep ==
    ASSUME IInv, NEW r \in Runs, NEW res \in results, res.code = 0,
           pc[r] \in Waiting, res.tx.msg = sent[r].msg,
           \/ pc[r] = "waitStore" /\ Entry(r).op = "Upload"
           \/ pc[r] = "waitInstantiate",
           deployed' = [deployed EXCEPT ![r][Entry(r).name] = res.made],
           pc' = [pc EXCEPT ![r] = "ready"],
           UNCHANGED results
    PROVE  D!Next
<1> DEFINE c == [kind |-> res.tx.msg.kind, name |-> res.tx.msg.name,
                 refs |-> res.tx.msg.refs, made |-> res.made]
<1>1. c \in contracts /\ contracts' = contracts
  BY DEF contracts
<1>2. step[r] \in DOMAIN Plan
  BY DEF IInv, PlanOK
<1>3. phase[r] = "active" /\ phase' = phase
  <2>1. "ready" \in PCs /\ "ready" \notin Ended /\ pc[r] \notin Ended
    BY DEF PCs, Ended, Waiting
  <2> QED
    BY <2>1, PhaseOf DEF IInv
<1>4. D!IsNext(r, step[r])
  <2>1. \A i \in DOMAIN Plan : i \in Nat /\ i >= 1
    BY PlanTyped
  <2>2. \A i \in DOMAIN Plan :
          deployed[r][Plan[i].name] # D!Unknown <=> i < step[r]
    BY DEF IInv, PlanOK, D!Unknown, NoDetail
  <2>3. \A i \in 1 .. step[r] - 1 : i \in DOMAIN Plan /\ i < step[r]
    BY <1>2, PlanTyped
  <2> QED
    BY <1>2, <2>1, <2>2, <2>3 DEF D!IsNext
<1>5. D!Fulfils(c, r, step[r])
  <2>1. CASE pc[r] = "waitStore" /\ Entry(r).op = "Upload"
    <3>1. res.tx.msg = StoreMsg(r)
      BY <2>1 DEF IInv, PlanOK
    <3> QED
      BY <2>1, <3>1 DEF D!Fulfils, StoreMsg, Entry
  <2>2. CASE pc[r] = "waitInstantiate"
    <3>1. /\ res.tx.msg = InstantiateMsg(r)
          /\ Entry(r).op = "UploadAndInstantiate"
      BY <2>2 DEF IInv, PlanOK
    <3>2. Refs(r) = D!Resolved(r, step[r])
      BY DEF Refs, Entry, PartOf, D!Resolved
    <3> QED
      BY <3>1, <3>2 DEF D!Fulfils, InstantiateMsg, Entry
  <2> QED
    BY <2>1, <2>2
<1>6. c.made # D!Unknown
  BY DEF IInv, WellMade, D!Unknown
<1>7. deployed' = [deployed EXCEPT ![r][Plan[step[r]].name] = c.made]
  BY DEF Entry
<1> HIDE DEF c
<1>8. D!Confirm(r)
  BY <1>1, <1>2, <1>3, <1>4, <1>5, <1>6, <1>7 DEF D!Confirm
<1> QED
  BY <1>8 DEF D!Next

LEMMA RunStepRefines ==
    ASSUME IInv, NEW r \in Runs, RunStep(r) \/ Kill(r)
    PROVE  [D!Next]_D!abstractVars
<1> USE DEF IInv
<1>1. CASE UpdateAccountSequence(r)
  BY <1>1, SilentStep
     DEF UpdateAccountSequence, Goto, chainVars, PCs, Ended
<1>2. CASE Upload(r) \/ UploadAndInstantiate(r) \/ InstantiateContract(r)
  <2>1. /\ pc[r] \in {"ready", "stored"}
        /\ UNCHANGED <<results, deployed>>
        /\ \E l \in {"waitStore", "waitInstantiate", "fatal"} :
             pc' = [pc EXCEPT ![r] = l]
    BY <1>2 DEF Upload, UploadAndInstantiate, InstantiateContract,
                SignAndBroadcast, Goto
  <2> QED
    BY <2>1, SilentStep DEF PCs, Ended, Waiting
<1>3. CASE WaitTxMiss(r) \/ WaitTxFailed(r) \/ Kill(r)
  <2>1. /\ pc[r] \notin Ended
        /\ UNCHANGED <<results, deployed>>
        /\ \/ UNCHANGED pc
           \/ \E l \in {"fatal", "killed"} : pc' = [pc EXCEPT ![r] = l]
    BY <1>3 DEF WaitTxMiss, GiveUp, WaitTxFailed, Kill, Goto, chainVars,
                localVars, Waiting, Ended
  <2>2. CASE UNCHANGED pc
    BY <2>1, <2>2 DEF contracts, phase, D!abstractVars
  <2> QED
    BY <2>1, <2>2, SilentStep DEF PCs, Ended
<1>4. CASE StoreDone(r)
  <2>1. PICK res \in results :
          /\ res.tx = sent[r] /\ res.code = 0
          /\ LET d == ExtractResultTxDetails(res.events) IN
             \/ ParseErr(d.code) /\ Goto(r, "fatal")
                  /\ UNCHANGED <<step, codeID, deployed>>
             \/ /\ ~ParseErr(d.code) /\ Entry(r).op = "Upload"
                /\ deployed' = [deployed EXCEPT ![r][Entry(r).name] =
                                   [code |-> d.code, addr |-> 0]]
                /\ step' = [step EXCEPT ![r] = @ + 1]
                /\ Goto(r, "ready")
                /\ UNCHANGED codeID
             \/ /\ ~ParseErr(d.code) /\ Entry(r).op = "UploadAndInstantiate"
                /\ codeID' = [codeID EXCEPT ![r] = d.code]
                /\ Goto(r, "stored")
                /\ UNCHANGED <<step, deployed>>
    BY <1>4 DEF StoreDone
  <2>2. pc[r] = "waitStore" /\ UNCHANGED <<results>>
    BY <1>4 DEF StoreDone, chainVars
  <2>3. ExtractResultTxDetails(res.events) = res.made
    BY <2>1, ExtractsWhatWasMade
  <2>4. res.made = [code |-> res.made.code, addr |-> 0]
    <3>1. sent[r].msg = StoreMsg(r) /\ res.tx = sent[r]
      BY <2>1, <2>2 DEF PlanOK
    <3>2. res.made.addr = 0
      BY <2>1, <3>1 DEF WellMade, StoreMsg
    <3>3. res.made \in Details
      BY DEF TypeOK, ChainTypeOK, Results
    <3> QED
      BY <3>2, <3>3 DEF Details
  <2>5. CASE /\ Entry(r).op = "Upload"
             /\ deployed' = [deployed EXCEPT ![r][Entry(r).name] = res.made]
             /\ pc' = [pc EXCEPT ![r] = "ready"]
    BY <2>1, <2>2, <2>5, ConfirmStep DEF Waiting
  <2>6. CASE /\ UNCHANGED deployed
             /\ \E l \in {"fatal", "stored"} : pc' = [pc EXCEPT ![r] = l]
    BY <2>2, <2>6, SilentStep DEF PCs, Ended
  <2> QED
    BY <2>1, <2>3, <2>4, <2>5, <2>6 DEF Goto
<1>5. CASE InstantiateDone(r)
  <2>1. PICK res \in results :
          /\ res.tx = sent[r] /\ res.code = 0
          /\ LET d == ExtractResultTxDetails(res.events) IN
             \/ /\ ExtractErr(res.events) \/ ParseErr(d.code)
                /\ Goto(r, "fatal")
                /\ UNCHANGED <<step, deployed>>
             \/ /\ ~ExtractErr(res.events) /\ ~ParseErr(d.code)
                /\ deployed' = [deployed EXCEPT ![r][Entry(r).name] = d]
                /\ step' = [step EXCEPT ![r] = @ + 1]
                /\ Goto(r, "ready")
    BY <1>5 DEF InstantiateDone
  <2>2. pc[r] = "waitInstantiate" /\ UNCHANGED results
    BY <1>5 DEF InstantiateDone, chainVars
  <2>3. ExtractResultTxDetails(res.events) = res.made
    BY <2>1, ExtractsWhatWasMade
  <2>4. CASE /\ deployed' = [deployed EXCEPT ![r][Entry(r).name] = res.made]
             /\ pc' = [pc EXCEPT ![r] = "ready"]
    BY <2>1, <2>2, <2>4, ConfirmStep DEF Waiting
  <2>5. CASE UNCHANGED deployed /\ pc' = [pc EXCEPT ![r] = "fatal"]
    BY <2>2, <2>5, SilentStep DEF PCs, Ended
  <2> QED
    BY <2>1, <2>3, <2>4, <2>5 DEF Goto
<1>6. CASE AllDeployed(r)
  <2>1. /\ pc[r] = "ready" /\ step[r] \notin DOMAIN Plan
        /\ pc' = [pc EXCEPT ![r] = "ok"]
        /\ UNCHANGED <<results, deployed>>
    BY <1>6 DEF AllDeployed, Goto, chainVars, localVars
  <2>2. phase[r] = "active" /\ phase' = [phase EXCEPT ![r] = "done"]
    BY <2>1, PhaseOf DEF PCs, Ended
  <2>3. \A k \in DOMAIN Plan : k < step[r]
    BY <2>1, PlanTyped DEF TypeOK
  <2>4. \A k \in DOMAIN Plan : deployed[r][Plan[k].name] # D!Unknown
    BY <2>3 DEF PlanOK, D!Unknown, NoDetail
  <2>5. contracts' = contracts
    BY <2>1 DEF contracts
  <2>6. D!Complete(r)
    BY <2>1, <2>2, <2>4, <2>5 DEF D!Complete
  <2> QED
    BY <2>6 DEF D!Next
<1> QED
  BY <1>1, <1>2, <1>3, <1>4, <1>5, <1>6 DEF RunStep

LEMMA ChainStepRefines ==
    ASSUME IInv, ChainStep PROVE D!Next
<1>1. PICK tx \in mempool : Deliver(tx) \/ Refuse(tx) \/ Drop(tx)
  BY DEF ChainStep, ChainNext
<1>2. UNCHANGED <<pc, localVars>>
  BY DEF ChainStep
<1>3. results \subseteq results'
  BY <1>1, <1>2, DeliverStep, RefuseStep, DropStep DEF ChainMonotone
<1>4. contracts \subseteq contracts'
  BY <1>3 DEF contracts
<1>5. UNCHANGED <<deployed, phase>>
  BY <1>2 DEF localVars, phase
<1>6. D!Grow
  BY <1>4, <1>5 DEF D!Grow
<1> QED
  BY <1>6 DEF D!Next

(* A run that reports a contract as deployed reports what the chain made   *)
(* for it, in the order of the plan and with the references of the plan:   *)
(* the tool implements Deployment.                                         *)
THEOREM Implements == Spec => ImplementsDeployment
<1>1. IInv /\ [Next]_vars => [D!Next]_D!abstractVars
  <2> SUFFICES ASSUME IInv, [Next]_vars PROVE [D!Next]_D!abstractVars
    OBVIOUS
  <2>1. CASE UNCHANGED vars
    BY <2>1
       DEF vars, chainVars, localVars, contracts, phase, D!abstractVars
  <2> QED
    BY <2>1, RunStepRefines, ChainStepRefines DEF Next, Terminated
<1> QED
  BY Invariant, InitRefines, <1>1, PTL DEF Spec, ImplementsDeployment, D!Spec

-----------------------------------------------------------------------------
(* The steps a run has still to make.                                      *)

LEMMA Times ==
    ASSUME NEW n \in Nat, NEW m \in Nat
    PROVE  /\ n * m \in Nat
           /\ (n + 1) * m = n * m + m
           /\ n >= 1 => n * m >= m
<1>1. \A k \in Nat : k * m \in Nat /\ (k + 1) * m = k * m + m
  BY Z3
<1>2. ASSUME n >= 1 PROVE n * m >= m
  <2>1. n - 1 \in Nat /\ n = (n - 1) + 1
    BY <1>2
  <2>2. (n - 1) * m \in Nat /\ n * m = (n - 1) * m + m
    BY <1>1, <2>1
  <2> QED
    BY <2>2
<1> QED
  BY <1>1, <1>2

(* An entry in work leaves room for its own steps.                         *)
LEMMA AheadFacts ==
    ASSUME TypeOK, NEW r \in Runs
    PROVE  /\ MaxPolls \in Nat /\ MaxPolls >= 1
           /\ StepsAhead(r) \in Nat
           /\ step[r] \in DOMAIN Plan => StepsAhead(r) >= 2 * MaxPolls + 2
<1> DEFINE n == Len(Plan) + 1 - step[r]
<1>1. MaxPolls \in Nat /\ MaxPolls >= 1
  BY MaxPollsAssumption
<1>2. StepsPerEntry \in Nat /\ StepsPerEntry = 2 * MaxPolls + 2
  BY <1>1 DEF StepsPerEntry
<1>3. n \in Nat /\ (step[r] \in DOMAIN Plan => n >= 1)
  BY PlanTyped DEF TypeOK
<1>4. StepsAhead(r) = n * StepsPerEntry
  BY DEF StepsAhead
<1> HIDE DEF n
<1> QED
  BY <1>1, <1>2, <1>3, <1>4, Times

LEMMA LeftFacts ==
    ASSUME IInv, NEW r \in Runs
    PROVE  StepsLeft(r) \in Nat /\ (pc[r] \notin Ended => StepsLeft(r) >= 1)
<1>1. TypeOK /\ CounterOK(r) /\ PlanOK(r)
  BY DEF IInv
<1>2. /\ MaxPolls \in Nat /\ MaxPolls >= 1
      /\ StepsAhead(r) \in Nat
      /\ step[r] \in DOMAIN Plan => StepsAhead(r) >= 2 * MaxPolls + 2
  BY <1>1, AheadFacts
<1>3. pc[r] \in PCs /\ polls[r] \in Nat
  BY <1>1, <1>2 DEF TypeOK
<1>4. pc[r] \in {"stored"} \cup Waiting => step[r] \in DOMAIN Plan
  BY <1>1 DEF PlanOK
<1>5. pc[r] \in Waiting => polls[r] < MaxPolls
  BY <1>1 DEF CounterOK
<1> QED
  BY <1>2, <1>3, <1>4, <1>5 DEF StepsLeft, PCs, Waiting, Ended

(* A step of one run is its own.                                           *)
LEMMA OneMoves ==
    ASSUME TypeOK, NEW r \in Runs, RunStep(r) \/ Kill(r) PROVE OthersIdle(r)
<1> USE DEF OthersIdle, TypeOK, Goto, localVars
<1>1. CASE UpdateAccountSequence(r)
  BY <1>1 DEF UpdateAccountSequence
<1>2. CASE Upload(r)
  BY <1>2 DEF Upload, SignAndBroadcast
<1>3. CASE UploadAndInstantiate(r)
  BY <1>3 DEF UploadAndInstantiate, SignAndBroadcast
<1>4. CASE InstantiateContract(r)
  BY <1>4 DEF InstantiateContract, SignAndBroadcast
<1>5. CASE WaitTxMiss(r)
  BY <1>5 DEF WaitTxMiss, GiveUp
<1>6. CASE WaitTxFailed(r) \/ AllDeployed(r) \/ Kill(r)
  BY <1>6 DEF WaitTxFailed, AllDeployed, Kill
<1>7. CASE StoreDone(r)
  <2>1. UNCHANGED <<sequence, isFirstDeploy, sent, polls>>
    BY <1>7 DEF StoreDone
  <2>2. /\ \E l : pc' = [pc EXCEPT ![r] = l]
        /\ UNCHANGED step \/ step' = [step EXCEPT ![r] = @ + 1]
        /\ UNCHANGED codeID \/ \E c : codeID' = [codeID EXCEPT ![r] = c]
        /\ \/ UNCHANGED deployed
           \/ \E d : deployed' = [deployed EXCEPT ![r][Entry(r).name] = d]
    BY <1>7 DEF StoreDone
  <2> QED
    BY <2>1, <2>2
<1>8. CASE InstantiateDone(r)
  <2>1. UNCHANGED <<sequence, isFirstDeploy, sent, polls, codeID>>
    BY <1>8 DEF InstantiateDone
  <2>2. /\ \E l : pc' = [pc EXCEPT ![r] = l]
        /\ UNCHANGED step \/ step' = [step EXCEPT ![r] = @ + 1]
        /\ \/ UNCHANGED deployed
           \/ \E d : deployed' = [deployed EXCEPT ![r][Entry(r).name] = d]
    BY <1>8 DEF InstantiateDone
  <2> QED
    BY <2>1, <2>2
<1> QED
  BY <1>1, <1>2, <1>3, <1>4, <1>5, <1>6, <1>7, <1>8 DEF RunStep

LEMMA OwnStepCounts ==
    ASSUME IInv, NEW r \in Runs, RunStep(r) \/ Kill(r)
    PROVE  StepsLeft(r)' < StepsLeft(r)
<1>1. TypeOK /\ CounterOK(r) /\ PlanOK(r)
  BY DEF IInv
<1>2. /\ MaxPolls \in Nat /\ MaxPolls >= 1
      /\ StepsAhead(r) \in Nat
      /\ step[r] \in DOMAIN Plan => StepsAhead(r) >= 2 * MaxPolls + 2
  BY <1>1, AheadFacts
<1>3. pc[r] \in PCs /\ polls[r] \in Nat
  BY <1>1, <1>2 DEF TypeOK
<1>4. StepsLeft(r) \in Nat /\ (pc[r] \notin Ended => StepsLeft(r) >= 1)
  BY LeftFacts
<1>5. ASSUME pc[r] \notin Ended, pc'[r] \in Ended
      PROVE  StepsLeft(r)' < StepsLeft(r)
  <2>1. StepsLeft(r)' = 0
    BY <1>5 DEF StepsLeft, Ended
  <2> QED
    BY <1>4, <1>5, <2>1
<1>6. ASSUME UNCHANGED step PROVE StepsAhead(r)' = StepsAhead(r)
  BY <1>6 DEF StepsAhead
<1>7. CASE UpdateAccountSequence(r)
  <2>1. /\ pc[r] = "init" /\ pc'[r] \in {"ready", "fatal"}
        /\ UNCHANGED step
    BY <1>1, <1>7 DEF UpdateAccountSequence, Goto, TypeOK
  <2> QED
    BY <1>2, <1>5, <1>6, <2>1 DEF StepsLeft, Ended
<1>8. CASE Upload(r) \/ UploadAndInstantiate(r)
  <2>1. /\ pc[r] = "ready" /\ pc'[r] \in {"waitStore", "fatal"}
        /\ polls'[r] = 0 /\ UNCHANGED step
    BY <1>1, <1>8
       DEF Upload, UploadAndInstantiate, SignAndBroadcast, Goto, TypeOK
  <2> QED
    BY <1>2, <1>5, <1>6, <2>1 DEF StepsLeft, Ended
<1>9. CASE InstantiateContract(r)
  <2>1. /\ pc[r] = "stored" /\ pc'[r] \in {"waitInstantiate", "fatal"}
        /\ polls'[r] = 0 /\ UNCHANGED step
    BY <1>1, <1>9 DEF InstantiateContract, SignAndBroadcast, Goto, TypeOK
  <2> QED
    BY <1>2, <1>5, <1>6, <2>1 DEF StepsLeft, Ended
<1>10. CASE WaitTxMiss(r)
  <2>1. /\ pc[r] \in Waiting /\ pc'[r] \in {pc[r], "fatal"}
        /\ polls'[r] = polls[r] + 1 /\ UNCHANGED step
    BY <1>1, <1>10 DEF WaitTxMiss, GiveUp, Polled, Goto, TypeOK
  <2>2. step[r] \in DOMAIN Plan
    BY <1>1, <2>1 DEF PlanOK
  <2> QED
    BY <1>2, <1>3, <1>5, <1>6, <2>1, <2>2 DEF StepsLeft, Waiting, Ended
<1>11. CASE WaitTxFailed(r) \/ AllDeployed(r) \/ Kill(r)
  BY <1>1, <1>5, <1>11
     DEF WaitTxFailed, AllDeployed, Kill, Goto, TypeOK, Waiting, Ended
<1>12. CASE StoreDone(r) \/ InstantiateDone(r)
  <2>1. /\ pc[r] \in Waiting
        /\ pc'[r] \in {"fatal", "ready", "stored"}
        /\ pc'[r] = "stored" => pc[r] = "waitStore" /\ UNCHANGED step
        /\ pc'[r] = "ready" => step'[r] = step[r] + 1
    BY <1>1, <1>12 DEF StoreDone, InstantiateDone, Goto, TypeOK, Waiting
  <2>2. step[r] \in DOMAIN Plan /\ polls[r] < MaxPolls
    BY <1>1, <2>1 DEF PlanOK, CounterOK
  <2>3. CASE pc'[r] = "fatal"
    BY <1>5, <2>1, <2>3 DEF Waiting, Ended
  <2>4. CASE pc'[r] = "stored"
    BY <1>2, <1>3, <1>6, <2>1, <2>2, <2>4 DEF StepsLeft, Ended
  <2>5. CASE pc'[r] = "ready"
    <3> DEFINE n == Len(Plan) - step[r]
    <3>1. n \in Nat /\ Len(Plan) + 1 - step[r] = n + 1
      BY <1>1, <2>2, PlanTyped DEF TypeOK
    <3>2. Len(Plan) + 1 - step'[r] = n
      BY <1>1, <2>1, <2>5, PlanTyped DEF TypeOK
    <3>3. StepsPerEntry \in Nat /\ StepsPerEntry = 2 * MaxPolls + 2
      BY <1>2 DEF StepsPerEntry
    <3>4. StepsAhead(r) = (n + 1) * StepsPerEntry
      BY <3>1 DEF StepsAhead
    <3>5. StepsAhead(r)' = n * StepsPerEntry
      BY <3>2 DEF StepsAhead, StepsPerEntry
    <3> HIDE DEF n
    <3>6. /\ StepsAhead(r)' \in Nat
          /\ StepsAhead(r) = StepsAhead(r)' + 2 * MaxPolls + 2
      BY <1>2, <3>1, <3>3, <3>4, <3>5, Times
    <3> QED
      BY <1>2, <1>3, <2>1, <2>2, <2>5, <3>6 DEF StepsLeft, Waiting, Ended
  <2> QED
    BY <2>1, <2>3, <2>4, <2>5
<1> QED
  BY <1>7, <1>8, <1>9, <1>10, <1>11, <1>12 DEF RunStep

(* No run can hold the tool for more than StepsLeft of its own steps,      *)
(* however many runs there are and whatever is lost, slow or refused; and  *)
(* nothing that others do sets a run back.                                 *)
THEOREM DeployerCountdown == Spec => Countdown
<1> DEFINE Less ==
      \A r \in Runs :
         /\ StepsLeft(r)' \in Nat
         /\ StepsLeft(r)' <= StepsLeft(r)
         /\ RunStep(r) => StepsLeft(r)' < StepsLeft(r)
<1>1. IInv => \A r \in Runs : StepsLeft(r) \in Nat
  BY LeftFacts
<1>2. IInv' => (\A r \in Runs : StepsLeft(r) \in Nat)'
  BY <1>1, PTL
<1>3. IInv /\ IInv' /\ [Next]_vars => [Less]_vars
  <2> SUFFICES ASSUME IInv, IInv', Next, NEW r \in Runs
               PROVE  /\ StepsLeft(r)' \in Nat
                      /\ StepsLeft(r)' <= StepsLeft(r)
                      /\ RunStep(r) => StepsLeft(r)' < StepsLeft(r)
    OBVIOUS
  <2>1. StepsLeft(r) \in Nat /\ StepsLeft(r)' \in Nat
    BY <1>1, <1>2
  <2>2. CASE RunStep(r) \/ Kill(r)
    BY <2>1, <2>2, OwnStepCounts
  <2>3. CASE ~RunStep(r) /\ ~Kill(r)
    <3>1. /\ pc'[r] = pc[r] /\ step'[r] = step[r] /\ polls'[r] = polls[r]
      <4>1. CASE ChainStep \/ Terminated
        BY <4>1 DEF ChainStep, Terminated, vars, localVars
      <4>2. ASSUME NEW q \in Runs, RunStep(q) \/ Kill(q)
            PROVE  OthersIdle(q) /\ q # r
        BY <2>3, <4>2, OneMoves DEF IInv
      <4> QED
        BY <4>1, <4>2 DEF Next, OthersIdle
    <3>2. StepsLeft(r)' = StepsLeft(r)
      BY <3>1 DEF StepsLeft, StepsAhead
    <3> QED
      BY <2>1, <2>3, <3>2
  <2> QED
    BY <2>2, <2>3
<1> QED
  BY Invariant, <1>3, PTL DEF Spec, Countdown

=============================================================================
