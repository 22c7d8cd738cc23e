-------------------------- MODULE AndromedaProofs --------------------------
(***************************************************************************)
(* The andromeda tool implements the deployment tool of Deployer, for      *)
(* every plan, every number of runs and every assignment of accounts.      *)
(*                                                                         *)
(* The refinement is not a matter of the actions alone: the two tools      *)
(* increase the sequence at different places and read events under         *)
(* different conditions.  BothAgree says why that makes no difference.     *)
(*                                                                         *)
(* Then it is proved that the plan of main respects the README, and that   *)
(* every step of a run brings its end nearer, both on the code of the tool *)
(* itself: a theorem about Deployer cannot be cited through the            *)
(* refinement.                                                             *)
(***************************************************************************)
EXTENDS Andromeda, TLAPS

-----------------------------------------------------------------------------
(* The invariant of the refinement.                                        *)

PCs == {"init", "ready", "stored"} \cup Asking \cup Waiting \cup Ended

(* The first event of a success is the one the tools look for, and it has  *)
(* a code id.                                                              *)
FirstEventTells ==
    \A res \in results :
        /\ res.events \in Seq(Events)
        /\ res.code = 0 =>
             /\ 1 \in DOMAIN res.events
             /\ Detailed(res.events[1])
             /\ res.events[1].code # 0

(* A run in the middle of a contract has spent its first deployment, and   *)
(* knows which contract it is.                                             *)
MidContract(r) ==
    pc[r] \in {"stored"} \cup Waiting =>
        /\ step[r] \in DOMAIN Plan
        /\ ~isFirstDeploy[r]

BothAgree ==
    /\ pc \in [Runs -> PCs]
    /\ isFirstDeploy \in [Runs -> BOOLEAN]
    /\ step \in [Runs -> Nat]
    /\ codes \in Nat /\ instances \in Nat
    /\ FirstEventTells
    /\ \A r \in Runs : MidContract(r)

-----------------------------------------------------------------------------
(* The events.                                                             *)

(* extractResultTxDetails ends with the first event when that one matches. *)
LEMMA FirstEventOnly ==
    ASSUME NEW events \in Seq(Events), 1 \in DOMAIN events,
           Detailed(events[1])
    PROVE  /\ extractResultTxDetails(events) = {events[1]}
           /\ W!FirstMatching(events) = 1
           /\ W!Matching(events) # {}
<1>1. DOMAIN events \subseteq Nat /\ \A j \in DOMAIN events : 1 <= j
  OBVIOUS
<1>2. \A i \in DOMAIN events :
        (\A j \in DOMAIN events : j < i => ~Detailed(events[j])) => i = 1
  BY <1>1
<1>3. \A j \in DOMAIN events : ~(j < 1)
  BY <1>1
<1>4. extractResultTxDetails(events) = {events[1]}
  BY <1>2, <1>3 DEF extractResultTxDetails
<1>5. W!Matching(events) = {i \in DOMAIN events : Detailed(events[i])}
  BY DEF W!Matching, W!DetailTypes, Detailed
<1>6. 1 \in W!Matching(events)
  BY <1>5
<1>7. \A i \in W!Matching(events) :
        (\A j \in W!Matching(events) : i <= j) <=> i = 1
  BY <1>1, <1>5, <1>6
<1>8. W!FirstMatching(events) = 1
  BY <1>6, <1>7 DEF W!FirstMatching
<1> QED
  BY <1>4, <1>6, <1>8

(* So both tools read the same out of a success, and neither fails.        *)
LEMMA BothRead ==
    ASSUME FirstEventTells, NEW res \in results, res.code = 0,
           NEW e, e = res.events[1]
    PROVE  /\ extractResultTxDetails(res.events) = {e}
           /\ e.code # 0
           /\ ~W!ExtractErr(res.events)
           /\ W!ExtractResultTxDetails(res.events) =
                [code |-> e.code, addr |-> e.addr]
           /\ ~W!ParseErr(e.code)
<1>1. /\ res.events \in Seq(Events)
      /\ 1 \in DOMAIN res.events
      /\ Detailed(res.events[1])
      /\ res.events[1].code # 0
  BY DEF FirstEventTells
<1>2. /\ extractResultTxDetails(res.events) = {res.events[1]}
      /\ W!FirstMatching(res.events) = 1
      /\ W!Matching(res.events) # {}
  BY <1>1, FirstEventOnly
<1>3. ~W!ExtractErr(res.events)
  BY <1>1, <1>2 DEF W!ExtractErr
<1> QED
  BY <1>1, <1>2, <1>3 DEF W!ExtractResultTxDetails, W!ParseErr

-----------------------------------------------------------------------------
(* The invariant holds.                                                    *)

LEMMA PlanIsSequence == Len(Plan) \in Nat /\ DOMAIN Plan = 1 .. Len(Plan)
<1> DEFINE S == {Plan[i] : i \in DOMAIN Plan}
<1>1. Plan \in Seq(S)
  BY PlanAssumption
<1> HIDE DEF S
<1> QED
  BY <1>1

LEMMA InitAgrees == Init => BothAgree
<1> SUFFICES ASSUME Init PROVE BothAgree
  OBVIOUS
<1>1. FirstEventTells
  BY DEF Init, ChainInit, FirstEventTells
<1>2. \A r \in Runs : MidContract(r)
  BY DEF Init, MidContract, Waiting
<1> QED
  BY <1>1, <1>2 DEF Init, ChainInit, BothAgree, PCs, Asking

(* A block adds at most one result, and a success of it tells its code.    *)
LEMMA ChainAgrees ==
    ASSUME BothAgree, ChainNext, UNCHANGED <<pc, localVars>>
    PROVE  BothAgree'
<1> USE DEF BothAgree
<1>1. PICK tx \in mempool : Deliver(tx) \/ Refuse(tx) \/ Drop(tx)
  BY DEF ChainNext
<1>2. codes' \in Nat /\ instances' \in Nat /\ FirstEventTells'
  <2>1. CASE Deliver(tx) /\ Store(tx)
    <3> DEFINE e == [type |-> "store_code", code |-> codes + 1, addr |-> 0]
    <3>1. e \in Events /\ e.code # 0 /\ Detailed(e)
      BY DEF Events, Detailed
    <3>2. StoreEvents = <<e>>
      BY DEF StoreEvents
    <3> HIDE DEF e
    <3>3. /\ StoreEvents \in Seq(Events) /\ 1 \in DOMAIN StoreEvents
          /\ Detailed(StoreEvents[1]) /\ StoreEvents[1].code # 0
      BY <3>1, <3>2
    <3>4. results' = results \cup
            {[tx |-> tx, code |-> 0, made |-> [code |-> codes + 1, addr |-> 0],
              events |-> StoreEvents]}
      BY <2>1 DEF Store
    <3>5. FirstEventTells'
      BY <3>3, <3>4 DEF FirstEventTells, Detailed
    <3> QED
      BY <2>1, <3>5 DEF Store
  <2>2. CASE Deliver(tx) /\ Instantiate(tx)
    <3> DEFINE c == tx.msg.code
    <3>1. PICK nested \in 0 .. MaxNested :
            /\ results' = results \cup
                 {[tx |-> tx, code |-> 0,
                   made |-> [code |-> c, addr |-> instances + 1],
                   events |-> InstantiateEvents(c, nested)]}
            /\ instances' = instances + 1 + nested
      BY <2>2 DEF Instantiate
    <3>2. c \in Nat /\ c # 0 /\ nested \in Nat /\ codes' = codes
      BY <2>2, MaxNestedAssumption DEF Instantiate
    <3> DEFINE evs == InstantiateEvents(c, nested)
    <3>3. \A i \in 1 .. nested + 1 :
            [type |-> "instantiate", code |-> IF i = 1 THEN c ELSE codes,
             addr |-> instances + i] \in Events
      BY <3>2 DEF Events
    <3>4. evs \in [1 .. nested + 1 -> Events]
      BY <3>3 DEF InstantiateEvents
    <3>5. 1 \in 1 .. nested + 1 /\ nested + 1 \in Nat
      BY <3>2
    <3>6. evs[1] = [type |-> "instantiate", code |-> c, addr |-> instances + 1]
      BY <3>5 DEF InstantiateEvents
    <3> HIDE DEF evs, c
    <3>7. /\ evs \in Seq(Events) /\ 1 \in DOMAIN evs
          /\ Detailed(evs[1]) /\ evs[1].code # 0
      BY <3>2, <3>4, <3>5, <3>6 DEF Detailed
    <3>8. FirstEventTells'
      BY <3>1, <3>7 DEF FirstEventTells, Detailed, evs
    <3> QED
      BY <3>1, <3>2, <3>8
  <2>3. ASSUME UNCHANGED <<codes, instances>>,
               \/ results' = results
               \/ results' = results \cup
                    {[tx |-> tx, code |-> 1, made |-> NoDetail,
                      events |-> <<>>]}
        PROVE  codes' \in Nat /\ instances' \in Nat /\ FirstEventTells'
    <3> DEFINE res == [tx |-> tx, code |-> 1, made |-> NoDetail,
                       events |-> <<>>]
    <3>1. res.code # 0 /\ res.events \in Seq(Events)
      OBVIOUS
    <3>2. results' \subseteq results \cup {res}
      BY <2>3
    <3> HIDE DEF res
    <3>3. FirstEventTells'
      BY <3>1, <3>2 DEF FirstEventTells, Detailed
    <3> QED
      BY <2>3, <3>3
  <2> QED
    BY <1>1, <2>1, <2>2, <2>3 DEF Deliver, ExecFail, Refuse, Drop
<1>3. \A r \in Runs : MidContract(r)'
  BY DEF MidContract, localVars
<1> QED
  BY <1>2, <1>3 DEF localVars

(* A run keeps it: it enters a contract by spending its first deployment,  *)
(* and changes step only when it leaves one.                               *)
LEMMA RunAgrees ==
    ASSUME BothAgree, NEW r \in Runs, RunStep(r) \/ Kill(r)
    PROVE  BothAgree'
<1> USE DEF BothAgree
<1>1. ASSUME UNCHANGED <<results, codes, instances>>,
             pc' \in [Runs -> PCs], step' \in [Runs -> Nat],
             isFirstDeploy' \in [Runs -> BOOLEAN],
             MidContract(r)',
             \A q \in Runs \ {r} : /\ pc'[q] = pc[q]
                                   /\ step'[q] = step[q]
                                   /\ isFirstDeploy'[q] = isFirstDeploy[q]
      PROVE  BothAgree'
  <2>1. FirstEventTells'
    BY <1>1 DEF FirstEventTells, Detailed
  <2>2. \A q \in Runs : MidContract(q)'
    BY <1>1 DEF MidContract
  <2> QED
    BY <1>1, <2>1, <2>2
<1> DEFINE Other == \A q \in Runs \ {r} :
                       /\ pc'[q] = pc[q]
                       /\ step'[q] = step[q]
                       /\ isFirstDeploy'[q] = isFirstDeploy[q]
<1>2. ASSUME UNCHANGED <<results, codes, instances, step, isFirstDeploy>>,
             \E l \in {"balances", "init", "ready"} \cup Ended : Goto(r, l)
      PROVE  BothAgree'
  <2>1. PICK l \in {"balances", "init", "ready"} \cup Ended : Goto(r, l)
    BY <1>2
  <2>2. pc' \in [Runs -> PCs] /\ pc'[r] = l /\ Other
    BY <1>2, <2>1 DEF Goto, PCs, Asking
  <2>3. MidContract(r)'
    BY <2>2 DEF MidContract, Ended, Waiting
  <2> QED
    BY <1>1, <1>2, <2>2, <2>3
<1>3. ASSUME NEW seq, NEW msg, NEW label \in Waiting,
             step[r] \in DOMAIN Plan, BroadCastTxAsync(r, seq, msg, label),
             isFirstDeploy' \in [Runs -> BOOLEAN], ~isFirstDeploy'[r],
             \A q \in Runs \ {r} : isFirstDeploy'[q] = isFirstDeploy[q]
      PROVE  BothAgree'
  <2>1. \E l \in {label, "fatal"} : Goto(r, l)
    BY <1>3 DEF BroadCastTxAsync, Fatal
  <2>2. UNCHANGED <<results, codes, instances, step>>
    BY <1>3 DEF BroadCastTxAsync
  <2>3. pc' \in [Runs -> PCs] /\ Other
    BY <1>3, <2>1, <2>2 DEF Goto, PCs, Ended
  <2>4. MidContract(r)'
    BY <1>3, <2>2 DEF MidContract
  <2> QED
    BY <1>1, <1>3, <2>2, <2>3, <2>4
<1>4. CASE Info(r)
  BY <1>2, <1>4 DEF Info, Fatal, Ended, chainVars, localVars
<1>5. CASE GetBalances(r)
  BY <1>2, <1>5 DEF GetBalances, Fatal, Ended, chainVars, localVars
<1>6. CASE UpdateAccountSequence(r)
  BY <1>2, <1>6 DEF UpdateAccountSequence, Fatal, Ended, chainVars
<1>7. CASE uploadAndInstantiate(r)
  <2>1. /\ step[r] \in DOMAIN Plan
        /\ BroadCastTxAsync(r, IncreaseUnlessFirst(r), MsgStoreCode(r),
                            "waitStore")
        /\ isFirstDeploy' = [isFirstDeploy EXCEPT ![r] = FALSE]
    BY <1>7 DEF uploadAndInstantiate
  <2>2. "waitStore" \in Waiting
    BY DEF Waiting
  <2> QED
    BY <1>3, <2>1, <2>2
<1>8. CASE InstantiateContract(r)
  <2>1. /\ BroadCastTxAsync(r, IncreaseSequence(r), MsgInstantiateContract(r),
                            "waitInstantiate")
        /\ pc[r] = "stored" /\ UNCHANGED isFirstDeploy
    BY <1>8 DEF InstantiateContract
  <2>2. step[r] \in DOMAIN Plan /\ ~isFirstDeploy[r]
    BY <2>1 DEF MidContract
  <2>3. "waitInstantiate" \in Waiting
    BY DEF Waiting
  <2> QED
    BY <1>3, <2>1, <2>2, <2>3
<1>9. CASE WaitTxMiss(r)
  <2>1. UNCHANGED <<results, codes, instances, step, isFirstDeploy>>
    BY <1>9 DEF WaitTxMiss, chainVars
  <2>2. CASE UNCHANGED pc
    BY <1>1, <2>1, <2>2 DEF MidContract
  <2>3. CASE Fatal(r)
    BY <1>2, <2>1, <2>3 DEF Fatal, Ended
  <2> QED
    BY <1>9, <2>2, <2>3 DEF WaitTxMiss
<1>10. CASE WaitTxFailed(r)
  BY <1>2, <1>10 DEF WaitTxFailed, Fatal, Ended, chainVars, localVars
<1>11. CASE CodeStored(r)
  <2>1. /\ UNCHANGED <<results, codes, instances, step, isFirstDeploy>>
        /\ pc[r] = "waitStore"
        /\ Goto(r, "stored") \/ Fatal(r)
    BY <1>11 DEF CodeStored, chainVars
  <2>2. CASE Goto(r, "stored")
    <3>1. pc' \in [Runs -> PCs] /\ pc'[r] = "stored" /\ Other
      BY <2>1, <2>2 DEF Goto, PCs
    <3>2. MidContract(r)'
      BY <2>1 DEF MidContract, Waiting
    <3> QED
      BY <1>1, <2>1, <3>1, <3>2
  <2>3. CASE Fatal(r)
    BY <1>2, <2>1, <2>3 DEF Fatal, Ended
  <2> QED
    BY <2>1, <2>2, <2>3
<1>12. CASE Instantiated(r)
  <2>1. /\ UNCHANGED <<results, codes, instances, isFirstDeploy>>
        /\ \/ step' = [step EXCEPT ![r] = @ + 1] /\ Goto(r, "ready")
           \/ UNCHANGED step /\ Fatal(r)
    BY <1>12 DEF Instantiated, chainVars
  <2>2. CASE step' = [step EXCEPT ![r] = @ + 1] /\ Goto(r, "ready")
    <3>1. /\ pc' \in [Runs -> PCs] /\ pc'[r] = "ready"
          /\ step' \in [Runs -> Nat] /\ Other
      BY <2>1, <2>2 DEF Goto, PCs
    <3>2. MidContract(r)'
      BY <3>1 DEF MidContract, Waiting
    <3> QED
      BY <1>1, <2>1, <3>1, <3>2
  <2>3. CASE UNCHANGED step /\ Fatal(r)
    BY <1>2, <2>1, <2>3 DEF Fatal, Ended
  <2> QED
    BY <2>1, <2>2, <2>3
<1>13. CASE AllDeployed(r)
  BY <1>2, <1>13 DEF AllDeployed, Ended, chainVars, localVars
<1>14. CASE Kill(r)
  BY <1>2, <1>14 DEF Kill, Ended, chainVars, localVars
<1> QED
  BY <1>4, <1>5, <1>6, <1>7, <1>8, <1>9, <1>10, <1>11, <1>12, <1>13, <1>14
     DEF RunStep

(* Both tools agree, in every state of every execution.                    *)
THEOREM AgreementHolds == Spec => []BothAgree
<1>1. BothAgree /\ [Next]_vars => BothAgree'
  <2> SUFFICES ASSUME BothAgree, [Next]_vars PROVE BothAgree'
    OBVIOUS
  <2>1. CASE ChainStep
    BY <2>1, ChainAgrees DEF ChainStep
  <2>2. CASE \E r \in Runs : RunStep(r) \/ Kill(r)
    BY <2>2, RunAgrees
  <2>3. CASE UNCHANGED vars
    BY <2>3 DEF vars, chainVars, localVars, BothAgree, FirstEventTells,
                MidContract, Detailed
  <2> QED
    BY <2>1, <2>2, <2>3 DEF Next, Terminated
<1> QED
  BY InitAgrees, <1>1, PTL DEF Spec

-----------------------------------------------------------------------------
(* The refinement.                                                         *)

(* What W reads as pc.                                                     *)
pcW == [r \in Runs |-> IF pc[r] \in Asking THEN "init" ELSE pc[r]]

LEMMA GotoMaps ==
    ASSUME BothAgree, NEW r \in Runs, NEW label, label \notin Asking,
           Goto(r, label)
    PROVE  W!Goto(r, label)
<1>1. \A q \in Runs : pc'[q] = IF q = r THEN label ELSE pc[q]
  BY DEF BothAgree, Goto
<1>2. pcW' = [pcW EXCEPT ![r] = label]
  BY <1>1 DEF pcW
<1> QED
  BY <1>2 DEF W!Goto, pcW

(* A run that only asks does not move.                                     *)
LEMMA AskingIsInit ==
    ASSUME BothAgree, NEW r \in Runs, pc[r] \in Asking,
           \E label \in Asking \cup {"init"} : Goto(r, label)
    PROVE  pcW' = pcW
<1>1. PICK label \in Asking \cup {"init"} : Goto(r, label)
  OBVIOUS
<1>2. \A q \in Runs : pc'[q] = IF q = r THEN label ELSE pc[q]
  BY <1>1 DEF BothAgree, Goto
<1> QED
  BY <1>2 DEF pcW, Asking

LEMMA PcMaps ==
    ASSUME NEW r \in Runs, pc[r] \notin Asking
    PROVE  pcW[r] = pc[r]
BY DEF pcW

(* The messages and the broadcast.                                         *)
LEMMA MessagesMap ==
    ASSUME NEW r \in Runs, step[r] \in DOMAIN Plan
    PROVE  /\ W!StoreMsg(r) = MsgStoreCode(r)
           /\ W!InstantiateMsg(r) = MsgInstantiateContract(r)
           /\ W!Entry(r).name = Plan[step[r]].name
           /\ W!Entry(r).op = "UploadAndInstantiate"
<1>1. W!Entry(r) = [name |-> Plan[step[r]].name, op |-> "UploadAndInstantiate",
                    refs |-> Plan[step[r]].refs, clock |-> FALSE]
  BY DEF W!Entry
<1>2. W!StoreMsg(r) = MsgStoreCode(r)
  BY <1>1 DEF W!StoreMsg, MsgStoreCode, NoRefs
<1>3. W!Refs(r) = KnownRefs(r)
  BY <1>1 DEF W!Refs, KnownRefs, W!PartOf, PartOf
<1>4. W!InstantiateMsg(r) = MsgInstantiateContract(r)
  BY <1>1, <1>3 DEF W!InstantiateMsg, MsgInstantiateContract
<1> QED
  BY <1>1, <1>2, <1>4

LEMMA BroadcastMaps ==
    ASSUME BothAgree, NEW r \in Runs, NEW seq, NEW msg, NEW label,
           label \in Waiting, BroadCastTxAsync(r, seq, msg, label)
    PROVE  W!SignAndBroadcast(r, seq, msg, label)
<1>1. label \notin Asking /\ "fatal" \notin Asking
  BY DEF Waiting, Asking
<1>2. /\ Goto(r, label) => W!Goto(r, label)
      /\ Goto(r, "fatal") => W!Goto(r, "fatal")
  BY <1>1, GotoMaps
<1> QED
  BY <1>2
     DEF BroadCastTxAsync, GetSignedTxBytes, Fatal, Broadcast, Committed,
         W!SignAndBroadcast, W!Broadcast, W!Committed

(* The chain.                                                              *)
LEMMA ChainMaps ==
    ASSUME ChainStep
    PROVE  W!ChainStep
<1>1. W!ChainNext
  BY DEF ChainStep, ChainNext, Deliver, Store, Instantiate, ExecFail, Refuse,
         Drop, StoreEvents, InstantiateEvents, NoDetail, W!ChainNext,
         W!Deliver, W!Store, W!Instantiate, W!ExecFail, W!Refuse, W!Drop,
         W!StoreEvents, W!InstantiateEvents, W!NoDetail
<1> QED
  BY <1>1 DEF ChainStep, W!ChainStep, localVars, W!localVars

(* Every step of a run is a step of the other tool, or none.               *)
LEMMA RunMaps ==
    ASSUME BothAgree, NEW r \in Runs, RunStep(r) \/ Kill(r)
    PROVE  \/ W!RunStep(r) \/ W!Kill(r)
           \/ UNCHANGED <<chainVars, pcW, localVars>>
<1>0. {"fatal", "killed", "ok", "ready", "stored"} \cap Asking = {}
  BY DEF Asking
<1>1. ASSUME pc[r] \in Asking, Fatal(r), "rpc" \in Faults,
             UNCHANGED <<chainVars, localVars>>
      PROVE  W!UpdateAccountSequence(r)
  <2>1. W!Goto(r, "fatal")
    BY <1>0, <1>1, GotoMaps DEF Fatal
  <2>2. pcW[r] = "init"
    BY <1>1 DEF pcW
  <2> QED
    BY <1>1, <2>1, <2>2
       DEF W!UpdateAccountSequence, chainVars, W!chainVars, localVars, pcW
<1>2. CASE Info(r)
  <2>1. CASE Goto(r, "balances")
    BY <1>2, <2>1, AskingIsInit DEF Info, Asking
  <2>2. CASE Fatal(r) /\ "rpc" \in Faults
    BY <1>1, <1>2, <2>2 DEF Info, Asking, W!RunStep
  <2> QED
    BY <1>2, <2>1, <2>2 DEF Info
<1>3. CASE GetBalances(r)
  <2>1. CASE Goto(r, "init")
    BY <1>3, <2>1, AskingIsInit DEF GetBalances, Asking
  <2>2. CASE Fatal(r) /\ "rpc" \in Faults
    BY <1>1, <1>3, <2>2 DEF GetBalances, Asking, W!RunStep
  <2> QED
    BY <1>3, <2>1, <2>2 DEF GetBalances
<1>4. CASE UpdateAccountSequence(r)
  <2>1. /\ Goto(r, "ready") => W!Goto(r, "ready")
        /\ Goto(r, "fatal") => W!Goto(r, "fatal")
    BY <1>0, GotoMaps
  <2>2. pcW[r] = "init"
    BY <1>4 DEF UpdateAccountSequence, pcW, Asking
  <2>3. W!UpdateAccountSequence(r)
    BY <1>4, <2>1, <2>2
       DEF UpdateAccountSequence, Fatal, W!UpdateAccountSequence, chainVars,
           W!chainVars, pcW
  <2> QED
    BY <2>3 DEF W!RunStep
<1>5. CASE uploadAndInstantiate(r)
  <2>1. /\ pc[r] = "ready" /\ step[r] \in DOMAIN Plan
        /\ BroadCastTxAsync(r, IncreaseUnlessFirst(r), MsgStoreCode(r),
                            "waitStore")
        /\ isFirstDeploy' = [isFirstDeploy EXCEPT ![r] = FALSE]
    BY <1>5 DEF uploadAndInstantiate
  <2>2. IncreaseUnlessFirst(r) = W!IncreaseSequence(r)
    BY DEF IncreaseUnlessFirst, IncreaseSequence, W!IncreaseSequence
  <2>3. W!SignAndBroadcast(r, W!IncreaseSequence(r), W!StoreMsg(r),
                           "waitStore")
    BY <2>1, <2>2, BroadcastMaps, MessagesMap DEF Waiting
  <2>4. pcW[r] = "ready"
    BY <2>1, PcMaps, <1>0
  <2>5. W!UploadAndInstantiate(r)
    BY <2>1, <2>3, <2>4, MessagesMap DEF W!UploadAndInstantiate, pcW
  <2> QED
    BY <2>5 DEF W!RunStep
<1>6. CASE InstantiateContract(r)
  <2>1. /\ pc[r] = "stored" /\ UNCHANGED isFirstDeploy
        /\ BroadCastTxAsync(r, IncreaseSequence(r), MsgInstantiateContract(r),
                            "waitInstantiate")
    BY <1>6 DEF InstantiateContract
  <2>2. step[r] \in DOMAIN Plan /\ ~isFirstDeploy[r]
    BY <2>1 DEF BothAgree, MidContract
  <2>3. IncreaseSequence(r) = W!IncreaseSequence(r)
    BY <2>2 DEF IncreaseSequence, W!IncreaseSequence
  <2>4. W!SignAndBroadcast(r, W!IncreaseSequence(r), W!InstantiateMsg(r),
                           "waitInstantiate")
    BY <2>1, <2>2, <2>3, BroadcastMaps, MessagesMap DEF Waiting
  <2>5. isFirstDeploy' = [isFirstDeploy EXCEPT ![r] = FALSE]
    BY <2>1, <2>2 DEF BothAgree
  <2>6. pcW[r] = "stored"
    BY <2>1, PcMaps, <1>0
  <2>7. W!InstantiateContract(r)
    BY <2>4, <2>5, <2>6 DEF W!InstantiateContract, pcW
  <2> QED
    BY <2>7 DEF W!RunStep
<1>7. CASE WaitTxMiss(r)
  <2>1. pcW[r] \in W!Waiting
    BY <1>7, PcMaps DEF WaitTxMiss, Waiting, W!Waiting, Asking
  <2>2. Goto(r, "fatal") => W!Goto(r, "fatal")
    BY <1>0, GotoMaps
  <2>3. UNCHANGED pc => UNCHANGED pcW
    BY DEF pcW
  <2>4. W!WaitTxMiss(r)
    BY <1>7, <2>1, <2>2, <2>3
       DEF WaitTxMiss, Polled, Fatal, Committed, W!WaitTxMiss, W!Polled,
           W!LastPoll, W!GiveUp, W!Committed, chainVars, W!chainVars, pcW
  <2> QED
    BY <2>4 DEF W!RunStep
<1>8. CASE WaitTxFailed(r)
  <2>1. pcW[r] \in W!Waiting
    BY <1>8, PcMaps DEF WaitTxFailed, Waiting, W!Waiting, Asking
  <2>2. W!Goto(r, "fatal")
    BY <1>0, <1>8, GotoMaps DEF WaitTxFailed, Fatal
  <2>3. W!WaitTxFailed(r)
    BY <1>8, <2>1, <2>2
       DEF WaitTxFailed, W!WaitTxFailed, chainVars, W!chainVars, localVars,
           W!localVars, pcW
  <2> QED
    BY <2>3 DEF W!RunStep
<1>9. CASE CodeStored(r)
  <2>1. PICK res \in results :
          /\ res.tx = sent[r] /\ res.code = 0
          /\ \/ \E e \in extractResultTxDetails(res.events) :
                  /\ e.code # 0
                  /\ codeID' = [codeID EXCEPT ![r] = e.code]
                  /\ Goto(r, "stored")
             \/ /\ \A e \in extractResultTxDetails(res.events) : e.code = 0
                /\ Fatal(r) /\ UNCHANGED codeID
    BY <1>9 DEF CodeStored
  <2> DEFINE e == res.events[1]
             d == W!ExtractResultTxDetails(res.events)
  <2>a. /\ extractResultTxDetails(res.events) = {e} /\ e.code # 0
        /\ d = [code |-> e.code, addr |-> e.addr] /\ ~W!ParseErr(e.code)
    BY <2>1, BothRead DEF BothAgree
  <2> HIDE DEF e, d
  <2>2. /\ extractResultTxDetails(res.events) = {e} /\ e.code # 0
        /\ d.code = e.code /\ ~W!ParseErr(d.code)
    BY <2>a
  <2>3. codeID' = [codeID EXCEPT ![r] = e.code] /\ Goto(r, "stored")
    BY <2>1, <2>2
  <2>4. W!Goto(r, "stored")
    BY <1>0, <2>3, GotoMaps
  <2>5. pc[r] = "waitStore" /\ pcW[r] = "waitStore"
    BY <1>9, PcMaps DEF CodeStored, Asking
  <2>6. step[r] \in DOMAIN Plan
    BY <2>5 DEF BothAgree, MidContract, Waiting
  <2>7. W!Entry(r).op = "UploadAndInstantiate"
    BY <2>6, MessagesMap
  <2>8. UNCHANGED <<chainVars, step, deployed, sequence, isFirstDeploy, sent,
                    polls>>
    BY <1>9 DEF CodeStored
  <2>9. W!StoreDone(r)
    BY <2>1, <2>2, <2>3, <2>4, <2>5, <2>7, <2>8
       DEF d, W!StoreDone, chainVars, W!chainVars, pcW
  <2> QED
    BY <2>9 DEF W!RunStep
<1>10. CASE Instantiated(r)
  <2>1. PICK res \in results :
          /\ res.tx = sent[r] /\ res.code = 0
          /\ \/ \E e \in extractResultTxDetails(res.events) :
                  /\ e.code # 0 \/ e.addr # 0
                  /\ deployed' = [deployed EXCEPT ![r][Plan[step[r]].name] =
                                     [code |-> e.code, addr |-> e.addr]]
                  /\ step' = [step EXCEPT ![r] = @ + 1]
                  /\ Goto(r, "ready")
             \/ /\ \A e \in extractResultTxDetails(res.events) :
                     e.code = 0 /\ e.addr = 0
                /\ Fatal(r) /\ UNCHANGED <<step, deployed>>
    BY <1>10 DEF Instantiated
  <2> DEFINE e == res.events[1]
             d == W!ExtractResultTxDetails(res.events)
  <2>a. /\ extractResultTxDetails(res.events) = {e} /\ e.code # 0
         /\ ~W!ExtractErr(res.events)
         /\ d = [code |-> e.code, addr |-> e.addr] /\ ~W!ParseErr(e.code)
    BY <2>1, BothRead DEF BothAgree
  <2> HIDE DEF e, d
  <2>2. /\ extractResultTxDetails(res.events) = {e} /\ e.code # 0
        /\ ~W!ExtractErr(res.events)
        /\ d = [code |-> e.code, addr |-> e.addr] /\ ~W!ParseErr(d.code)
    BY <2>a
  <2>3. /\ deployed' = [deployed EXCEPT ![r][Plan[step[r]].name] = d]
        /\ step' = [step EXCEPT ![r] = @ + 1]
        /\ Goto(r, "ready")
    BY <2>1, <2>2
  <2>4. W!Goto(r, "ready")
    BY <1>0, <2>3, GotoMaps
  <2>5. pc[r] = "waitInstantiate" /\ pcW[r] = "waitInstantiate"
    BY <1>10, PcMaps DEF Instantiated, Asking
  <2>6. W!Entry(r).name = Plan[step[r]].name
    BY <2>5, MessagesMap DEF BothAgree, MidContract, Waiting
  <2>7. UNCHANGED <<chainVars, sequence, isFirstDeploy, sent, polls, codeID>>
    BY <1>10 DEF Instantiated
  <2>8. W!InstantiateDone(r)
    BY <2>1, <2>2, <2>3, <2>4, <2>5, <2>6, <2>7
       DEF d, W!InstantiateDone, chainVars, W!chainVars, pcW
  <2> QED
    BY <2>8 DEF W!RunStep
<1>11. CASE AllDeployed(r)
  <2>1. W!Goto(r, "ok")
    BY <1>0, <1>11, GotoMaps DEF AllDeployed
  <2>2. pcW[r] = "ready"
    BY <1>11, PcMaps DEF AllDeployed, Asking
  <2>3. W!AllDeployed(r)
    BY <1>11, <2>1, <2>2
       DEF AllDeployed, W!AllDeployed, chainVars, W!chainVars, localVars,
           W!localVars, pcW
  <2> QED
    BY <2>3 DEF W!RunStep
<1>12. CASE Kill(r)
  <2>1. W!Goto(r, "killed")
    BY <1>0, <1>12, GotoMaps DEF Kill
  <2>2. pcW[r] \notin W!Ended
    BY <1>12 DEF Kill, pcW, Ended, W!Ended
  <2> QED
    BY <1>12, <2>1, <2>2
       DEF Kill, W!Kill, chainVars, W!chainVars, localVars, W!localVars, pcW
<1> QED
  BY <1>2, <1>3, <1>4, <1>5, <1>6, <1>7, <1>8, <1>9, <1>10, <1>11, <1>12
     DEF RunStep

(* The andromeda tool behaves as the white_whale tool would with the same  *)
(* plan, each contract uploaded and instantiated and no time in a message: *)
(* what uploadAndInstantiate signs, waits for and learns is what           *)
(* ContractDeployer would.                                                 *)
THEOREM ImplementsDeployer == Spec => ActsAsDeployer
<1>1. Init => W!Init
  BY DEF Init, ChainInit, NoDetail, AddAccount, Asking, W!Init, W!ChainInit,
         W!NoDetail
<1>2. BothAgree /\ [Next]_vars => [W!Next]_(W!vars)
  <2> SUFFICES ASSUME BothAgree, [Next]_vars PROVE [W!Next]_(W!vars)
    OBVIOUS
  <2>0. UNCHANGED <<chainVars, pcW, localVars>> <=> UNCHANGED W!vars
    BY DEF W!vars, W!chainVars, W!localVars, chainVars, localVars, pcW
  <2>1. CASE ChainStep
    BY <2>1, ChainMaps DEF W!Next
  <2>2. CASE \E r \in Runs : RunStep(r) \/ Kill(r)
    BY <2>0, <2>2, RunMaps DEF W!Next
  <2>3. CASE UNCHANGED vars
    BY <2>0, <2>3 DEF vars, pcW
  <2> QED
    BY <2>1, <2>2, <2>3 DEF Next, Terminated
<1> QED
  BY AgreementHolds, <1>1, <1>2, PTL DEF Spec, ActsAsDeployer, W!Spec

-----------------------------------------------------------------------------
(* What a contract depends on.  A detail goes from the result of an        *)
(* earlier contract into deployed, from there into a message, and with the *)
(* message into a later result; the invariant follows it on this way.      *)

(* The chain instantiated contract n, and made d for it.                   *)
MadeFor(n, d) ==
    \E p \in results :
        /\ p.code = 0 /\ p.tx.msg.name = n /\ p.tx.msg.kind = "instantiate"
        /\ p.made = d

(* A message refers to what the chain made.                                *)
RefersWell(msg) ==
    msg.kind = "instantiate" =>
        \E i \in DOMAIN Plan :
            /\ Plan[i].name = msg.name
            /\ \A f \in Fields :
                 IF f \in DOMAIN Plan[i].refs
                 THEN W!Given(Plan[i].refs[f], msg.refs[f])
                 ELSE msg.refs[f] = 0

(* The first event of a success tells what was made, though further events *)
(* follow for the contracts it created.                                    *)
FirstIsMade ==
    \A res \in results :
        res.code = 0 => res.made = [code |-> res.events[1].code,
                                    addr |-> res.events[1].addr]

(* What a run waits for belongs to the entry in work, and it knows all     *)
(* contracts before.                                                       *)
Awaited(r) ==
    /\ pc[r] \in Waiting => sent[r].msg.name = Plan[step[r]].name
    /\ pc[r] = "waitInstantiate" => sent[r].msg.kind = "instantiate"
Knows(r) ==
    /\ Awaited(r)
    /\ \A j \in DOMAIN Plan :
         j < step[r] => deployed[r][Plan[j].name] # NoDetail

Traced ==
    /\ \A r \in Runs, n \in Names :
         deployed[r][n] # NoDetail => MadeFor(n, deployed[r][n])
    /\ \A tx \in mempool \cup Committed : RefersWell(tx.msg)

AInv ==
    /\ DOMAIN sent = Runs
    /\ deployed \in [Runs -> [Names -> Details]]
    /\ FirstIsMade
    /\ \A r \in Runs : Knows(r)
    /\ Traced

LEMMA PlanEntries ==
    ASSUME NEW i \in DOMAIN Plan
    PROVE  /\ i \in Nat /\ Plan[i].name \in Names
           /\ DOMAIN Plan[i].refs \subseteq Fields
<1>1. i \in Nat
  BY PlanIsSequence
<1>2. IsEntry(Plan[i])
  BY PlanAssumption
<1> QED
  BY <1>1, <1>2 DEF IsEntry

(* Nothing is lost while the results grow.                                 *)
LEMMA ResultsGrow ==
    ASSUME results \subseteq results'
    PROVE  /\ \A n, d : MadeFor(n, d) => MadeFor(n, d)'
           /\ \A msg : RefersWell(msg) => RefersWell(msg)'
<1>1. \A n, d : MadeFor(n, d) => MadeFor(n, d)'
  BY DEF MadeFor
<1>2. \A s, v : W!Given(s, v) => W!Given(s, v)'
  BY DEF W!Given
<1>3. ASSUME NEW msg, RefersWell(msg) PROVE RefersWell(msg)'
  BY <1>2, <1>3 DEF RefersWell
<1> QED
  BY <1>1, <1>3

LEMMA InitTraced == Init => AInv
<1> SUFFICES ASSUME Init PROVE AInv
  OBVIOUS
<1>1. NoDetail \in Details
  BY DEF NoDetail, Details
<1>2. /\ DOMAIN sent = Runs
      /\ deployed \in [Runs -> [Names -> Details]]
      /\ \A r \in Runs, n \in Names : deployed[r][n] = NoDetail
  BY <1>1 DEF Init
<1>3. results = {} /\ mempool = {} /\ Committed = {}
  BY DEF Init, ChainInit, Committed
<1>4. ASSUME NEW r \in Runs PROVE Knows(r)
  <2>1. pc[r] \notin Waiting /\ step[r] = 1
    BY DEF Init, Waiting
  <2> QED
    BY <2>1, PlanIsSequence DEF Knows, Awaited, Waiting
<1> QED
  BY <1>2, <1>3, <1>4 DEF AInv, FirstIsMade, Traced

(* A block adds at most one result, of a transaction of the mempool.       *)
LEMMA ChainTraces ==
    ASSUME BothAgree, AInv, ChainNext, UNCHANGED <<pc, localVars>>
    PROVE  AInv'
<1> USE DEF AInv
<1>1. PICK tx \in mempool : Deliver(tx) \/ Refuse(tx) \/ Drop(tx)
  BY DEF ChainNext
<1>2. /\ results \subseteq results'
      /\ mempool' \subseteq mempool
      /\ \A res \in results' : res \in results \/ res.tx = tx
  BY <1>1 DEF Deliver, Store, Instantiate, ExecFail, Refuse, Drop
<1>3. FirstIsMade'
  <2>1. ASSUME NEW res \in results', res \notin results, res.code = 0
        PROVE  res.made = [code |-> res.events[1].code,
                           addr |-> res.events[1].addr]
    <3>1. CASE Store(tx)
      BY <2>1, <3>1 DEF Store, StoreEvents
    <3>2. CASE Instantiate(tx)
      <4> DEFINE c == tx.msg.code
      <4>1. PICK nested \in 0 .. MaxNested :
              /\ res.made = [code |-> c, addr |-> instances + 1]
              /\ res.events = InstantiateEvents(c, nested)
        BY <2>1, <3>2 DEF Instantiate
      <4>2. 1 \in 1 .. nested + 1
        BY MaxNestedAssumption
      <4>3. InstantiateEvents(c, nested)[1] =
              [type |-> "instantiate", code |-> c, addr |-> instances + 1]
        BY <4>2 DEF InstantiateEvents
      <4> HIDE DEF c
      <4> QED
        BY <4>1, <4>3
    <3>3. CASE ExecFail(tx) \/ Refuse(tx) \/ Drop(tx)
      BY <2>1, <3>3 DEF ExecFail, Refuse, Drop
    <3> QED
      BY <1>1, <3>1, <3>2, <3>3 DEF Deliver
  <2> QED
    BY <2>1 DEF FirstIsMade
<1>4. \A r \in Runs : Knows(r)'
  BY DEF Knows, Awaited, localVars
<1>5. Traced'
  BY <1>1, <1>2, ResultsGrow DEF Traced, Committed, localVars
<1> QED
  BY <1>3, <1>4, <1>5 DEF localVars

(* A run that learns nothing, and adds only such messages.                 *)
LEMMA NothingLearned ==
    ASSUME BothAgree, AInv, NEW r \in Runs,
           UNCHANGED <<results, step, deployed>>, DOMAIN sent' = Runs,
           \A q \in Runs \ {r} : pc'[q] = pc[q] /\ sent'[q] = sent[q],
           Awaited(r)',
           \A tx \in mempool' : tx \in mempool \/ RefersWell(tx.msg)
    PROVE  AInv'
<1>1. \A q \in Runs : Knows(q)'
  BY DEF AInv, Knows, Awaited
<1>2. \A tx \in (mempool \cup Committed)' :
        tx \in mempool \cup Committed \/ RefersWell(tx.msg)
  BY DEF Committed
<1>3. Traced'
  BY <1>2, ResultsGrow DEF AInv, Traced
<1> QED
  BY <1>1, <1>3 DEF AInv, FirstIsMade

(* What a run knows of the contracts its entry refers to is what the chain *)
(* made, for these entries come before.                                    *)
LEMMA RefersToEarlier ==
    ASSUME AInv, NEW r \in Runs, step[r] \in DOMAIN Plan
    PROVE  RefersWell(MsgInstantiateContract(r)) /\ RefersWell(MsgStoreCode(r))
<1> DEFINE R == Plan[step[r]].refs
<1>1. ASSUME NEW f \in Fields, f \in DOMAIN R
      PROVE  W!Given(R[f], MsgInstantiateContract(r).refs[f])
  <2>1. PICK j \in 1 .. step[r] - 1 : Plan[j].name = R[f].name
    BY <1>1, PlanAssumption
  <2>2. j \in DOMAIN Plan /\ j < step[r]
    BY PlanIsSequence
  <2>3. R[f].name \in Names
    BY <2>1, <2>2, PlanEntries
  <2>4. deployed[r][R[f].name] # NoDetail
    BY <2>1, <2>2 DEF AInv, Knows
  <2>5. PICK p \in results :
          /\ p.code = 0 /\ p.tx.msg.name = R[f].name
          /\ p.tx.msg.kind = "instantiate"
          /\ p.made = deployed[r][R[f].name]
    BY <2>3, <2>4 DEF AInv, Traced, MadeFor
  <2>6. MsgInstantiateContract(r).refs[f] = W!PartOf(p.made, R[f].part)
    BY <1>1, <2>5 DEF MsgInstantiateContract, KnownRefs, PartOf, W!PartOf
  <2> QED
    BY <2>5, <2>6 DEF W!Given
<1>4. ASSUME NEW f \in Fields, f \notin DOMAIN R
      PROVE  MsgInstantiateContract(r).refs[f] = 0
  BY <1>4 DEF MsgInstantiateContract, KnownRefs
<1>2. MsgInstantiateContract(r).name = Plan[step[r]].name
  BY DEF MsgInstantiateContract
<1>3. MsgStoreCode(r).kind # "instantiate"
  BY DEF MsgStoreCode
<1> QED
  BY <1>1, <1>2, <1>3, <1>4 DEF RefersWell

LEMMA RunTraces ==
    ASSUME BothAgree, AInv, NEW r \in Runs, RunStep(r) \/ Kill(r)
    PROVE  AInv'
<1>0. pc \in [Runs -> PCs] /\ step \in [Runs -> Nat]
  BY DEF BothAgree
<1>1. ASSUME NEW seq, NEW label,
             NEW msg \in {MsgStoreCode(r), MsgInstantiateContract(r)},
             label = "waitInstantiate" => msg = MsgInstantiateContract(r),
             step[r] \in DOMAIN Plan, BroadCastTxAsync(r, seq, msg, label)
      PROVE  AInv'
  <2> DEFINE tx == GetSignedTxBytes(r, seq, msg)
  <2>1. tx.msg = msg
    BY DEF GetSignedTxBytes
  <2>2. RefersWell(msg)
    BY <1>1, RefersToEarlier
  <2>3. msg.name = Plan[step[r]].name
    BY DEF MsgStoreCode, MsgInstantiateContract
  <2> HIDE DEF tx
  <2>4. /\ sent' = [sent EXCEPT ![r] = tx]
        /\ mempool' \subseteq mempool \cup {tx}
        /\ UNCHANGED <<results, step, deployed>>
        /\ \E l \in {label, "fatal"} : pc' = [pc EXCEPT ![r] = l]
    BY <1>1 DEF BroadCastTxAsync, Broadcast, Goto, Fatal, tx
  <2>5. /\ DOMAIN sent' = Runs /\ sent'[r] = tx
        /\ \A q \in Runs \ {r} : pc'[q] = pc[q] /\ sent'[q] = sent[q]
    BY <1>0, <2>4 DEF AInv
  <2>6. pc'[r] = "waitInstantiate" => msg.kind = "instantiate"
    BY <1>0, <1>1, <2>4 DEF MsgInstantiateContract
  <2>7. Awaited(r)'
    BY <2>1, <2>3, <2>4, <2>5, <2>6 DEF Awaited
  <2> QED
    BY <2>1, <2>2, <2>4, <2>5, <2>7, NothingLearned
<1>2. ASSUME UNCHANGED <<results, mempool, step, deployed, sent>>,
             \/ UNCHANGED pc
             \/ \E l \in {"balances", "init", "ready", "stored"} \cup Ended :
                  Goto(r, l)
      PROVE  AInv'
  <2>1. \A q \in Runs \ {r} : pc'[q] = pc[q]
    BY <1>0, <1>2 DEF Goto
  <2>2. pc'[r] \in Waiting => pc'[r] = pc[r]
    BY <1>0, <1>2 DEF Goto, Waiting, Ended
  <2>3. Awaited(r)'
    BY <1>2, <2>2 DEF AInv, Knows, Awaited, Waiting
  <2>4. DOMAIN sent' = Runs
    BY <1>2 DEF AInv
  <2> QED
    BY <1>2, <2>1, <2>3, <2>4, NothingLearned
<1>3. CASE uploadAndInstantiate(r)
  BY <1>1, <1>3 DEF uploadAndInstantiate
<1>4. CASE InstantiateContract(r)
  BY <1>1, <1>4 DEF InstantiateContract, BothAgree, MidContract
<1>5. CASE Info(r) \/ GetBalances(r) \/ UpdateAccountSequence(r)
             \/ WaitTxFailed(r) \/ AllDeployed(r) \/ Kill(r)
  BY <1>2, <1>5 DEF Info, GetBalances, UpdateAccountSequence, WaitTxFailed,
                    AllDeployed, Kill, Fatal, Ended, chainVars, localVars
<1>6. CASE WaitTxMiss(r)
  BY <1>2, <1>6 DEF WaitTxMiss, Fatal, Ended, chainVars
<1>7. CASE CodeStored(r)
  BY <1>2, <1>7 DEF CodeStored, Fatal, Ended, chainVars
<1>8. CASE Instantiated(r)
  <2> DEFINE name == Plan[step[r]].name
  <2>1. PICK res \in results :
          /\ res.tx = sent[r] /\ res.code = 0
          /\ \/ \E e \in extractResultTxDetails(res.events) :
                  /\ deployed' = [deployed EXCEPT ![r][name] =
                                     [code |-> e.code, addr |-> e.addr]]
                  /\ step' = [step EXCEPT ![r] = @ + 1]
                  /\ Goto(r, "ready")
             \/ Fatal(r) /\ UNCHANGED <<step, deployed>>
    BY <1>8 DEF Instantiated
  <2>2. pc[r] = "waitInstantiate" /\ UNCHANGED <<results, mempool, sent>>
    BY <1>8 DEF Instantiated, chainVars
  <2>3. CASE Fatal(r) /\ UNCHANGED <<step, deployed>>
    BY <1>2, <2>2, <2>3 DEF Fatal, Ended
  <2>4. CASE /\ \E e \in extractResultTxDetails(res.events) :
                  deployed' = [deployed EXCEPT ![r][name] =
                                  [code |-> e.code, addr |-> e.addr]]
             /\ step' = [step EXCEPT ![r] = @ + 1]
             /\ Goto(r, "ready")
    <3>1. /\ step[r] \in DOMAIN Plan /\ res.tx.msg.name = name
          /\ res.tx.msg.kind = "instantiate"
      BY <2>1, <2>2
         DEF BothAgree, MidContract, AInv, Knows, Awaited, Waiting
    <3>2. name \in Names
      BY <3>1, PlanEntries
    <3>3. /\ extractResultTxDetails(res.events) = {res.events[1]}
          /\ res.events[1].code # 0
      BY <2>1, BothRead DEF BothAgree
    <3>4. res.made = [code |-> res.events[1].code, addr |-> res.events[1].addr]
      BY <2>1 DEF AInv, FirstIsMade
    <3>5. res.made \in Details /\ res.made # NoDetail
      <4>1. res.events[1] \in Events
        BY <2>1 DEF BothAgree, FirstEventTells
      <4> QED
        BY <3>3, <3>4, <4>1 DEF Events, Details, NoDetail
    <3>6. deployed' = [deployed EXCEPT ![r][name] = res.made]
      BY <2>4, <3>3, <3>4
    <3> HIDE DEF name
    <3>7. /\ deployed' \in [Runs -> [Names -> Details]]
          /\ deployed'[r][name] = res.made
          /\ \A q \in Runs, n \in Names :
               q # r \/ n # name => deployed'[q][n] = deployed[q][n]
      BY <3>2, <3>5, <3>6 DEF AInv
    <3>8. Traced'
      <4>1. MadeFor(name, res.made)
        BY <2>1, <3>1 DEF MadeFor
      <4>2. \A q \in Runs, n \in Names :
              deployed'[q][n] # NoDetail => MadeFor(n, deployed'[q][n])
        BY <3>7, <4>1 DEF AInv, Traced
      <4>3. (mempool \cup Committed)' = mempool \cup Committed
        BY <2>2 DEF Committed
      <4> QED
        BY <2>2, <4>2, <4>3, ResultsGrow DEF AInv, Traced
    <3>9. \A q \in Runs : Knows(q)'
      <4>1. ASSUME NEW q \in Runs, q # r PROVE Knows(q)'
        <5>1. pc'[q] = pc[q] /\ step'[q] = step[q] /\ sent'[q] = sent[q]
          BY <1>0, <2>2, <2>4, <4>1 DEF Goto
        <5>2. \A j \in DOMAIN Plan :
                deployed'[q][Plan[j].name] = deployed[q][Plan[j].name]
          BY <3>7, <4>1, PlanEntries
        <5> QED
          BY <5>1, <5>2 DEF AInv, Knows, Awaited
      <4>2. Knows(r)'
        <5>1. pc'[r] \notin Waiting /\ step'[r] = step[r] + 1
          BY <1>0, <2>4 DEF Goto, Waiting
        <5>2. ASSUME NEW j \in DOMAIN Plan, j < step[r] + 1
              PROVE  deployed'[r][Plan[j].name] # NoDetail
          <6>1. j = step[r] \/ j < step[r]
            BY <1>0, <5>2, PlanEntries
          <6>2. CASE Plan[j].name = name
            BY <3>5, <3>7, <6>2
          <6>3. CASE Plan[j].name # name
            <7>1. j < step[r]
              BY <6>1, <6>3 DEF name
            <7> QED
              BY <3>7, <6>3, <7>1, PlanEntries DEF AInv, Knows
          <6> QED
            BY <6>2, <6>3
        <5> QED
          BY <5>1, <5>2 DEF Knows, Awaited, Waiting
      <4> QED
        BY <4>1, <4>2
    <3> QED
      BY <2>2, <3>7, <3>8, <3>9 DEF AInv, FirstIsMade
  <2> QED
    BY <2>1, <2>3, <2>4
<1> QED
  BY <1>3, <1>4, <1>5, <1>6, <1>7, <1>8 DEF RunStep

LEMMA AndromedaInvariant == Spec => []AInv
<1>1. BothAgree /\ AInv /\ [Next]_vars => AInv'
  <2> SUFFICES ASSUME BothAgree, AInv, [Next]_vars PROVE AInv'
    OBVIOUS
  <2>1. CASE ChainStep
    BY <2>1, ChainTraces DEF ChainStep
  <2>2. CASE \E r \in Runs : RunStep(r) \/ Kill(r)
    BY <2>2, RunTraces
  <2>3. CASE UNCHANGED vars
    <3>1. UNCHANGED <<results, mempool, pc, step, sent, deployed>>
      BY <2>3 DEF vars, chainVars, localVars
    <3>2. Traced'
      BY <3>1, ResultsGrow DEF AInv, Traced, Committed
    <3> QED
      BY <3>1, <3>2 DEF AInv, FirstIsMade, Knows, Awaited
  <2> QED
    BY <2>1, <2>2, <2>3 DEF Next, Terminated
<1> QED
  BY AgreementHolds, InitTraced, <1>1, PTL DEF Spec

(* The plan of main refers to all that the README asks for.                *)
KernelEntries ==
    {Deploy("kernel", <<>>), Deploy("vfs", KernelAddress),
     Deploy("adodb", KernelAddress)}
TokenEntries ==
    {Deploy("cw20", KernelAddress),
     Deploy("cw20_exchange", [kernel_address |-> AddrOf("kernel"),
                              token_address |-> AddrOf("cw20")])}

LEMMA PlanOfReadme ==
    ASSUME Plan = AndromedaPlan, NEW i \in DOMAIN Plan
    PROVE  /\ \A f \in DOMAIN Plan[i].refs : Plan[i].refs[f] = FieldAsksFor[f]
           /\ \A d \in DependsOn : Plan[i].name = d[1] =>
                \E f \in DOMAIN Plan[i].refs : Plan[i].refs[f] = d[2]
<1> DEFINE Kernel == AddrOf("kernel")
           Token == AddrOf("cw20")
           refs == Plan[i].refs
<1>1. Plan[i] \in KernelEntries \cup TokenEntries
  <2>1. KernelPart \in Seq(KernelEntries) /\ TokenPart \in Seq(TokenEntries)
    BY DEF KernelPart, TokenPart, KernelEntries, TokenEntries
  <2> QED
    BY <2>1 DEF AndromedaPlan
<1>2. \A d \in DependsOn :
        \/ /\ d[1] \in {"vfs", "adodb", "cw20", "cw20_exchange"}
           /\ d[2] = Kernel
        \/ d[1] = "cw20_exchange" /\ d[2] = Token
  BY DEF DependsOn
<1>3. \/ Plan[i].name = "kernel" /\ refs = <<>>
      \/ /\ Plan[i].name \in {"vfs", "adodb", "cw20"}
         /\ DOMAIN refs = {"kernel_address"}
         /\ refs["kernel_address"] = Kernel
      \/ /\ Plan[i].name = "cw20_exchange"
         /\ DOMAIN refs = {"kernel_address", "token_address"}
         /\ refs["kernel_address"] = Kernel /\ refs["token_address"] = Token
  BY <1>1 DEF KernelEntries, TokenEntries, Deploy, KernelAddress
<1>4. /\ FieldAsksFor["kernel_address"] = Kernel
      /\ FieldAsksFor["token_address"] = Token
  BY DEF FieldAsksFor
<1> HIDE DEF Kernel, Token
<1>5. \A f \in DOMAIN refs : refs[f] = FieldAsksFor[f]
  BY <1>3, <1>4
<1> QED
  BY <1>2, <1>3, <1>5

(* Every contract the andromeda tool puts on the chain holds the addresses *)
(* of those its README says it depends on, in every number of overlapping  *)
(* runs, under every fault, and though an instantiation creates further    *)
(* contracts.                                                              *)
THEOREM ReadmeFollowed ==
    ASSUME Plan = AndromedaPlan
    PROVE  Spec => []FollowsReadme
<1>1. AInv => FollowsReadme
  <2> SUFFICES ASSUME AInv, NEW res \in results, res.code = 0,
                      res.tx.msg.kind = "instantiate"
               PROVE  LET told == res.tx.msg.refs IN
                      /\ \A d \in DependsOn : d[1] = res.tx.msg.name =>
                           \E f \in Fields :
                              FieldAsksFor[f] = d[2] /\ W!Given(d[2], told[f])
                      /\ \A f \in Fields :
                           told[f] # 0 => W!Given(FieldAsksFor[f], told[f])
    BY DEF FollowsReadme, W!RespectsDependencies
  <2> DEFINE told == res.tx.msg.refs
  <2>1. RefersWell(res.tx.msg)
    BY DEF AInv, Traced, Committed
  <2>2. PICK i \in DOMAIN Plan :
          /\ Plan[i].name = res.tx.msg.name
          /\ \A f \in Fields :
               IF f \in DOMAIN Plan[i].refs
               THEN W!Given(Plan[i].refs[f], told[f])
               ELSE told[f] = 0
    BY <2>1 DEF RefersWell
  <2>3. DOMAIN Plan[i].refs \subseteq Fields
    BY PlanEntries
  <2>4. ASSUME NEW d \in DependsOn, d[1] = res.tx.msg.name
        PROVE  \E f \in Fields :
                  FieldAsksFor[f] = d[2] /\ W!Given(d[2], told[f])
    <3>1. PICK f \in DOMAIN Plan[i].refs : Plan[i].refs[f] = d[2]
      BY <2>2, <2>4, PlanOfReadme
    <3> QED
      BY <2>2, <2>3, <3>1, PlanOfReadme
  <2>5. ASSUME NEW f \in Fields, told[f] # 0
        PROVE  W!Given(FieldAsksFor[f], told[f])
    BY <2>2, <2>5, PlanOfReadme
  <2> QED
    BY <2>4, <2>5
<1> QED
  BY <1>1, AndromedaInvariant, PTL

-----------------------------------------------------------------------------
(* The steps a run has still to make.                                      *)

(* A run that waits has polls left, and no run goes past the plan.         *)
WithinBounds ==
    /\ step \in [Runs -> 1 .. Len(Plan) + 1]
    /\ polls \in [Runs -> Nat]
    /\ \A r \in Runs : pc[r] \in Waiting => polls[r] < MaxPolls

SInv == BothAgree /\ WithinBounds

(* What a step of one run changes of what the bound depends on.            *)
Moves(r, label, next, count) ==
    /\ pc' = [pc EXCEPT ![r] = label]
    /\ step' = [step EXCEPT ![r] = next]
    /\ polls' = [polls EXCEPT ![r] = count]

(* The ways a run goes on: it ends, it goes to the next label, it          *)
(* broadcasts, it polls, or it takes the next entry of the plan.           *)
Onward(r, label, next, count) ==
    \/ /\ pc[r] \notin Ended /\ label \in Ended
       /\ next = step[r] /\ count \in Nat
    \/ /\ next = step[r] /\ count = polls[r]
       /\ \/ pc[r] = "info" /\ label = "balances"
          \/ pc[r] = "balances" /\ label = "init"
          \/ pc[r] = "init" /\ label = "ready"
          \/ pc[r] = "waitStore" /\ label = "stored"
    \/ /\ next = step[r] /\ count = 0 /\ step[r] \in DOMAIN Plan
       /\ \/ pc[r] = "ready" /\ label = "waitStore"
          \/ pc[r] = "stored" /\ label = "waitInstantiate"
    \/ /\ pc[r] \in Waiting /\ label = pc[r] /\ next = step[r]
       /\ count = polls[r] + 1 /\ count < MaxPolls
    \/ /\ pc[r] = "waitInstantiate" /\ label = "ready"
       /\ next = step[r] + 1 /\ count = polls[r]

LEMMA RunMoves ==
    ASSUME SInv, NEW r \in Runs, RunStep(r) \/ Kill(r)
    PROVE  \E label, next, count :
             Moves(r, label, next, count) /\ Onward(r, label, next, count)
<1>0. /\ DOMAIN pc = Runs /\ DOMAIN step = Runs /\ DOMAIN polls = Runs
      /\ pc = [pc EXCEPT ![r] = pc[r]]
      /\ step = [step EXCEPT ![r] = step[r]]
      /\ polls = [polls EXCEPT ![r] = polls[r]]
      /\ polls[r] \in Nat /\ MaxPolls \in Nat
  BY MaxPollsAssumption DEF SInv, BothAgree, WithinBounds
<1> USE <1>0 DEF Moves, Onward, Goto, Fatal
<1>1. CASE Info(r) \/ GetBalances(r) \/ UpdateAccountSequence(r)
  <2>1. /\ UNCHANGED <<step, polls>>
        /\ \/ pc[r] = "info" /\ Goto(r, "balances")
           \/ pc[r] = "balances" /\ Goto(r, "init")
           \/ pc[r] = "init" /\ Goto(r, "ready")
           \/ pc[r] \notin Ended /\ Goto(r, "fatal")
    BY <1>1
       DEF Info, GetBalances, UpdateAccountSequence, localVars, Ended
  <2> QED
    BY <2>1 DEF Ended
<1>2. CASE uploadAndInstantiate(r) \/ InstantiateContract(r)
  <2>1. /\ UNCHANGED step /\ polls' = [polls EXCEPT ![r] = 0]
        /\ pc[r] \notin Ended
        /\ \/ pc[r] = "ready" /\ Goto(r, "waitStore")
           \/ pc[r] = "stored" /\ Goto(r, "waitInstantiate")
           \/ Goto(r, "fatal")
    BY <1>2
       DEF uploadAndInstantiate, InstantiateContract, BroadCastTxAsync, Ended
  <2>2. step[r] \in DOMAIN Plan
    BY <1>2
       DEF uploadAndInstantiate, InstantiateContract, SInv, BothAgree, MidContract
  <2> QED
    BY <2>1, <2>2 DEF Ended
<1>3. CASE WaitTxMiss(r)
  <2>1. /\ pc[r] \in Waiting /\ UNCHANGED step
        /\ polls' = [polls EXCEPT ![r] = polls[r] + 1]
        /\ \/ Goto(r, "fatal")
           \/ UNCHANGED pc /\ ~(polls[r] + 1 >= MaxPolls)
    BY <1>3 DEF WaitTxMiss, Polled
  <2>2. pc[r] \notin Ended /\ polls[r] + 1 \in Nat
    BY <2>1 DEF Ended, Waiting
  <2>3. CASE Goto(r, "fatal")
    <3>1. Moves(r, "fatal", step[r], polls[r] + 1)
      BY <2>1, <2>3
    <3> QED
      BY <2>2, <3>1 DEF Ended
  <2>4. CASE UNCHANGED pc /\ ~(polls[r] + 1 >= MaxPolls)
    <3>1. Moves(r, pc[r], step[r], polls[r] + 1)
      BY <2>1, <2>4
    <3>2. polls[r] + 1 < MaxPolls
      BY <2>2, <2>4
    <3> QED
      BY <2>1, <3>1, <3>2
  <2> QED
    BY <2>1, <2>3, <2>4
<1>4. CASE WaitTxFailed(r) \/ AllDeployed(r) \/ Kill(r)
  <2>1. /\ UNCHANGED <<step, polls>> /\ pc[r] \notin Ended
        /\ \E label \in Ended : Goto(r, label)
    BY <1>4 DEF WaitTxFailed, AllDeployed, Kill, localVars, Ended, Waiting
  <2> QED
    BY <2>1
<1>5. CASE CodeStored(r)
  <2>1. /\ UNCHANGED <<step, polls>> /\ pc[r] = "waitStore"
        /\ Goto(r, "stored") \/ Goto(r, "fatal")
    BY <1>5 DEF CodeStored
  <2> QED
    BY <2>1 DEF Ended
<1>6. CASE Instantiated(r)
  <2>1. /\ UNCHANGED polls /\ pc[r] = "waitInstantiate"
        /\ \/ step' = [step EXCEPT ![r] = step[r] + 1] /\ Goto(r, "ready")
           \/ UNCHANGED step /\ Goto(r, "fatal")
    BY <1>6 DEF Instantiated
  <2> QED
    BY <2>1 DEF Ended
<1> QED
  BY <1>1, <1>2, <1>3, <1>4, <1>5, <1>6 DEF RunStep

(* The steps of a run in figures.                                          *)
Ahead(r) == (Len(Plan) + 1 - step[r]) * (2 * (MaxPolls + 1))

LEMMA Product ==
    ASSUME NEW n \in Nat, NEW m \in Nat
    PROVE  /\ n * m \in Nat
           /\ (n + 1) * m = n * m + m
           /\ n >= 1 => n * m >= m
<1>1. \A k \in Nat : k * m \in Nat /\ (k + 1) * m = k * m + m
  BY Z3
<1>2. ASSUME n >= 1 PROVE n * m >= m
  <2>1. n - 1 \in Nat /\ n = (n - 1) + 1
    BY <1>2
  <2>2. (n - 1) * m \in Nat /\ n * m = (n - 1) * m + m
    BY <1>1, <2>1
  <2> QED
    BY <2>2
<1> QED
  BY <1>1, <1>2

LEMMA AheadIs ==
    ASSUME WithinBounds, NEW r \in Runs
    PROVE  /\ MaxPolls \in Nat /\ MaxPolls >= 1
           /\ Ahead(r) \in Nat
           /\ step[r] \in DOMAIN Plan => Ahead(r) >= 2 * MaxPolls + 2
<1> DEFINE n == Len(Plan) + 1 - step[r]
           m == 2 * (MaxPolls + 1)
<1>1. MaxPolls \in Nat /\ MaxPolls >= 1
  BY MaxPollsAssumption
<1>2. m \in Nat /\ m = 2 * MaxPolls + 2
  BY <1>1
<1>3. n \in Nat /\ (step[r] \in DOMAIN Plan => n >= 1)
  BY PlanIsSequence DEF WithinBounds
<1>4. Ahead(r) = n * m
  BY DEF Ahead
<1> HIDE DEF n, m
<1> QED
  BY <1>1, <1>2, <1>3, <1>4, Product

(* The other tool has a plan of the same length.                           *)
LEMMA SameLength ==
    Len([i \in DOMAIN Plan |->
           [name |-> Plan[i].name, op |-> "UploadAndInstantiate",
            refs |-> Plan[i].refs, clock |-> FALSE]]) = Len(Plan)
BY PlanIsSequence

Figures(r) ==
    /\ pc[r] = "info" => StepsLeft(r) = Ahead(r) + 4
    /\ pc[r] = "balances" => StepsLeft(r) = Ahead(r) + 3
    /\ pc[r] = "init" => StepsLeft(r) = Ahead(r) + 2
    /\ pc[r] = "ready" => StepsLeft(r) = Ahead(r) + 1
    /\ pc[r] = "waitStore" => StepsLeft(r) = Ahead(r) - polls[r]
    /\ pc[r] = "stored" => StepsLeft(r) = Ahead(r) - MaxPolls
    /\ pc[r] = "waitInstantiate" =>
         StepsLeft(r) = Ahead(r) - MaxPolls - 1 - polls[r]
    /\ pc[r] \in Ended => StepsLeft(r) = 0

LEMMA LeftIs ==
    ASSUME SInv, NEW r \in Runs
    PROVE  Figures(r)
<1>1. WithinBounds /\ polls[r] \in Nat
  BY DEF SInv, WithinBounds
<1>2. MaxPolls \in Nat /\ Ahead(r) \in Nat
  BY <1>1, AheadIs
<1>3. W!StepsAhead(r) = Ahead(r)
  BY SameLength DEF W!StepsAhead, W!StepsPerEntry, Ahead
<1> QED
  BY <1>1, <1>2, <1>3
     DEF Figures, StepsLeft, W!StepsLeft, W!Ended, Asking, Ended

LEMMA LeftTyped ==
    ASSUME SInv, NEW r \in Runs
    PROVE  StepsLeft(r) \in Nat /\ (pc[r] \notin Ended => StepsLeft(r) >= 1)
<1>1. /\ WithinBounds /\ polls[r] \in Nat /\ pc[r] \in PCs
      /\ pc[r] \in Waiting => polls[r] < MaxPolls
      /\ pc[r] \in {"stored"} \cup Waiting => step[r] \in DOMAIN Plan
  BY DEF SInv, WithinBounds, BothAgree, MidContract
<1>2. /\ MaxPolls \in Nat /\ MaxPolls >= 1 /\ Ahead(r) \in Nat
      /\ step[r] \in DOMAIN Plan => Ahead(r) >= 2 * MaxPolls + 2
  BY <1>1, AheadIs
<1> QED
  BY <1>1, <1>2, LeftIs DEF Figures, PCs, Asking, Waiting, Ended

LEMMA AllFigures == SInv => \A r \in Runs : Figures(r)
BY LeftIs

LEMMA NextFigures == SInv' => (\A r \in Runs : Figures(r))'
BY AllFigures, PTL

LEMMA SInvHolds == Spec => []SInv
<1>1. Init => WithinBounds
  BY PlanIsSequence DEF Init, WithinBounds, Waiting
<1>2. BothAgree /\ WithinBounds /\ [Next]_vars => WithinBounds'
  <2> SUFFICES ASSUME BothAgree, WithinBounds, [Next]_vars PROVE WithinBounds'
    OBVIOUS
  <2>1. ASSUME NEW r \in Runs, RunStep(r) \/ Kill(r) PROVE WithinBounds'
    <3>1. SInv /\ MaxPolls \in Nat /\ MaxPolls >= 1 /\ polls[r] \in Nat
      BY MaxPollsAssumption DEF SInv, WithinBounds
    <3>2. PICK label, next, count :
            /\ Moves(r, label, next, count)
            /\ label \in Waiting => count < MaxPolls
            /\ count \in Nat
            /\ \/ next = step[r]
               \/ pc[r] = "waitInstantiate" /\ next = step[r] + 1
      BY <2>1, <3>1, RunMoves DEF Onward, Waiting, Ended
    <3>3. next \in 1 .. Len(Plan) + 1
      <4>1. pc[r] = "waitInstantiate" => step[r] \in DOMAIN Plan
        BY DEF BothAgree, MidContract, Waiting
      <4> QED
        BY <3>2, <4>1, PlanIsSequence DEF WithinBounds
    <3> QED
      BY <3>2, <3>3 DEF Moves, WithinBounds, BothAgree
  <2>2. CASE UNCHANGED <<pc, step, polls>>
    BY <2>2 DEF WithinBounds
  <2> QED
    BY <2>1, <2>2 DEF Next, Terminated, ChainStep, vars, localVars
<1> QED
  BY <1>1, <1>2, AgreementHolds, PTL DEF Spec, SInv

LEMMA MoveCounts ==
    ASSUME SInv, SInv', NEW r \in Runs, RunStep(r) \/ Kill(r)
    PROVE  /\ StepsLeft(r)' < StepsLeft(r)
           /\ \A q \in Runs \ {r} : StepsLeft(q)' = StepsLeft(q)
<1>1. PICK label, next, count :
        Moves(r, label, next, count) /\ Onward(r, label, next, count)
  BY RunMoves
<1>2. /\ WithinBounds /\ WithinBounds' /\ BothAgree
      /\ pc[r] \in Waiting => polls[r] < MaxPolls
      /\ pc[r] \in {"stored"} \cup Waiting => step[r] \in DOMAIN Plan
  BY DEF SInv, WithinBounds, BothAgree, MidContract
<1>3. /\ pc'[r] = label /\ step'[r] = next /\ polls'[r] = count
      /\ \A q \in Runs \ {r} :
           pc'[q] = pc[q] /\ step'[q] = step[q] /\ polls'[q] = polls[q]
  BY <1>1, <1>2 DEF Moves, WithinBounds, BothAgree
<1>4. \A q \in Runs \ {r} : StepsLeft(q)' = StepsLeft(q)
  BY <1>3 DEF StepsLeft, W!StepsLeft, W!StepsAhead, W!StepsPerEntry, W!Ended
<1>5. /\ MaxPolls \in Nat /\ MaxPolls >= 1 /\ Ahead(r) \in Nat
      /\ polls[r] \in Nat
      /\ step[r] \in DOMAIN Plan => Ahead(r) >= 2 * MaxPolls + 2
  BY <1>2, AheadIs DEF WithinBounds
<1>6. StepsLeft(r) \in Nat /\ (pc[r] \notin Ended => StepsLeft(r) >= 1)
  BY LeftTyped
<1>7. next = step[r] => Ahead(r)' = Ahead(r)
  BY <1>3 DEF Ahead
<1>8. ASSUME next = step[r] + 1, step[r] \in DOMAIN Plan
      PROVE  Ahead(r)' \in Nat /\ Ahead(r) = Ahead(r)' + 2 * MaxPolls + 2
  <2> DEFINE n == Len(Plan) - step[r]
             m == 2 * (MaxPolls + 1)
  <2>1. n \in Nat /\ Len(Plan) + 1 - step[r] = n + 1
    BY <1>8, PlanIsSequence
  <2>2. Len(Plan) + 1 - step'[r] = n
    BY <1>3, <1>8, PlanIsSequence
  <2>3. m \in Nat /\ m = 2 * MaxPolls + 2
    BY <1>5
  <2>4. Ahead(r) = (n + 1) * m /\ Ahead(r)' = n * m
    BY <2>1, <2>2 DEF Ahead
  <2> HIDE DEF n, m
  <2> QED
    BY <1>5, <2>1, <2>3, <2>4, Product
<1>9. Figures(r) /\ Figures(r)'
  BY LeftIs, NextFigures
<1>10. StepsLeft(r)' < StepsLeft(r)
  BY <1>1, <1>2, <1>3, <1>5, <1>6, <1>7, <1>8, <1>9
     DEF Onward, Figures, Waiting, Ended
<1> QED
  BY <1>4, <1>10

(* However the chain answers, and whoever else signs with the account, a   *)
(* run makes at most StepsLeft further steps, and its own steps are the    *)
(* only ones that change that number.                                      *)
THEOREM AndromedaCountdown == Spec => Countdown
<1> DEFINE Less ==
      \A r \in Runs :
         /\ StepsLeft(r)' \in Nat
         /\ StepsLeft(r)' <= StepsLeft(r)
         /\ RunStep(r) => StepsLeft(r)' < StepsLeft(r)
<1>1. SInv => \A r \in Runs : StepsLeft(r) \in Nat
  BY LeftTyped
<1>2. SInv' => (\A r \in Runs : StepsLeft(r) \in Nat)'
  BY <1>1, PTL
<1>3. SInv /\ SInv' /\ [Next]_vars => [Less]_vars
  <2> SUFFICES ASSUME SInv, SInv', Next PROVE [Less]_vars
    OBVIOUS
  <2>1. \A r \in Runs : StepsLeft(r) \in Nat /\ StepsLeft(r)' \in Nat
    BY <1>1, <1>2
  <2>2. ASSUME NEW q \in Runs, RunStep(q) \/ Kill(q) PROVE Less
    <3>1. /\ StepsLeft(q)' < StepsLeft(q)
          /\ \A r \in Runs \ {q} : StepsLeft(r)' = StepsLeft(r)
      BY <2>2, MoveCounts
    <3>2. ASSUME NEW r \in Runs, RunStep(r)
          PROVE  StepsLeft(r)' < StepsLeft(r)
      BY <3>2, MoveCounts
    <3> QED
      BY <2>1, <3>1, <3>2
  <2>3. CASE ChainStep /\ ~(\E q \in Runs : RunStep(q))
    <3>1. \A r \in Runs : StepsLeft(r)' = StepsLeft(r)
      BY <2>3 DEF ChainStep, localVars, StepsLeft, W!StepsLeft, W!StepsAhead,
                  W!StepsPerEntry, W!Ended
    <3> QED
      BY <2>1, <2>3, <3>1
  <2>4. CASE UNCHANGED vars
    BY <2>4
  <2> HIDE DEF Less
  <2> QED
    BY <2>2, <2>3, <2>4 DEF Next, Terminated
<1> QED
  BY SInvHolds, <1>3, PTL DEF Spec, Countdown

=============================================================================
