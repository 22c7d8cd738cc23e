-------------------------- MODULE DependencyProofs --------------------------
(***************************************************************************)
(* Every contract on the chain holds what its plan refers to, for every    *)
(* plan: the details that the chain gave to the contracts deployed before. *)
(* It is a property of the chain, so the invariant must follow the details *)
(* from an earlier result through deployed and a message in the mempool    *)
(* into a later result.                                                    *)
(***************************************************************************)
EXTENDS DeployerProofs

(* The chain made d for contract n, by a message of this kind.             *)
MadeFor(n, kind, d) ==
    \E p \in results :
        /\ p.code = 0 /\ p.tx.msg.name = n /\ p.tx.msg.kind = kind
        /\ p.made = d

(* The message whose result main keeps for a plan entry.                   *)
KeptKind(i) == IF Plan[i].op = "Upload" THEN "store" ELSE "instantiate"

(* A message refers to what the chain made.                                *)
RefersWell(msg) ==
    msg.kind = "instantiate" =>
        \E i \in DOMAIN Plan :
            /\ Plan[i].name = msg.name
            /\ \A f \in Fields :
                 IF f \in DOMAIN Plan[i].refs
                 THEN Given(Plan[i].refs[f], msg.refs[f])
                 ELSE msg.refs[f] = 0

DInv ==
    /\ \A r \in Runs, i \in DOMAIN Plan :
         deployed[r][Plan[i].name] # NoDetail =>
             MadeFor(Plan[i].name, KeptKind(i), deployed[r][Plan[i].name])
    /\ \A tx \in mempool \cup Committed : RefersWell(tx.msg)

(* Nothing is lost while the results grow.                                 *)
LEMMA ResultsGrow ==
    ASSUME results \subseteq results'
    PROVE  /\ \A n, k, d : MadeFor(n, k, d) => MadeFor(n, k, d)'
           /\ \A msg : RefersWell(msg) => RefersWell(msg)'
<1>1. \A n, k, d : MadeFor(n, k, d) => MadeFor(n, k, d)'
  BY DEF MadeFor
<1>3. \A s, v : Given(s, v) => Given(s, v)'
  BY DEF Given
<1>2. ASSUME NEW msg, RefersWell(msg) PROVE RefersWell(msg)'
  BY <1>2, <1>3 DEF RefersWell
<1> QED
  BY <1>1, <1>2

(* A step that reports nothing as deployed, and adds only such messages.   *)
LEMMA NothingDeployed ==
    ASSUME DInv, results \subseteq results', UNCHANGED deployed,
           \A tx \in (mempool \cup Committed)' :
             tx \in mempool \cup Committed \/ RefersWell(tx.msg)
    PROVE  DInv'
BY ResultsGrow DEF DInv, KeptKind

(* The chain includes what was in the mempool.                             *)
LEMMA ChainStepDInv ==
    ASSUME IInv, DInv, ChainStep PROVE DInv'
<1>1. PICK tx \in mempool : Deliver(tx) \/ Refuse(tx) \/ Drop(tx)
  BY DEF ChainStep, ChainNext
<1>2. UNCHANGED <<pc, localVars>>
  BY DEF ChainStep
<1>3. results \subseteq results'
  BY <1>1, <1>2, DeliverStep, RefuseStep, DropStep DEF ChainMonotone
<1>4. \A res \in results' : res \in results \/ res.tx = tx
  BY <1>1 DEF Deliver, Store, Instantiate, ExecFail, Refuse, Drop
<1>5. mempool' \subseteq mempool
  BY <1>1 DEF Deliver, Refuse, Drop
<1>6. (mempool \cup Committed)' \subseteq mempool \cup Committed
  BY <1>1, <1>4, <1>5 DEF Committed
<1> QED
  BY <1>2, <1>3, <1>6, NothingDeployed DEF localVars

(* What a run knows of the contracts that its entry refers to is what the  *)
(* chain made, for these entries come before.                              *)
LEMMA RefersToEarlier ==
    ASSUME IInv, DInv, NEW r \in Runs, step[r] \in DOMAIN Plan
    PROVE  RefersWell(InstantiateMsg(r)) /\ RefersWell(StoreMsg(r))
<1> DEFINE R == Plan[step[r]].refs
<1>1. ASSUME NEW f \in Fields, f \in DOMAIN R
      PROVE  Given(R[f], InstantiateMsg(r).refs[f])
  <2>1. PICK j \in 1 .. step[r] - 1 :
          /\ Plan[j].name = R[f].name
          /\ R[f].part = "addr" => Plan[j].op = "UploadAndInstantiate"
    BY <1>1, PlanAssumption
  <2>2. j \in DOMAIN Plan /\ j < step[r]
    BY PlanTyped
  <2>3. deployed[r][R[f].name] # NoDetail
    BY <2>1, <2>2 DEF IInv, PlanOK
  <2>4. PICK p \in results :
          /\ p.code = 0 /\ p.tx.msg.name = R[f].name
          /\ p.tx.msg.kind = KeptKind(j)
          /\ p.made = deployed[r][R[f].name]
    BY <2>1, <2>2, <2>3 DEF DInv, MadeFor
  <2>5. R[f].part = "addr" => p.tx.msg.kind = "instantiate"
    BY <2>1, <2>4 DEF KeptKind
  <2>6. InstantiateMsg(r).refs[f] = PartOf(p.made, R[f].part)
    BY <1>1, <2>4 DEF InstantiateMsg, Refs, Entry
  <2> QED
    BY <2>4, <2>5, <2>6 DEF Given
<1>4. ASSUME NEW f \in Fields, f \notin DOMAIN R
      PROVE  InstantiateMsg(r).refs[f] = 0
  BY <1>4 DEF InstantiateMsg, Refs, Entry
<1>2. InstantiateMsg(r).name = Plan[step[r]].name
  BY DEF InstantiateMsg, Entry
<1>3. StoreMsg(r).kind # "instantiate"
  BY DEF StoreMsg
<1> QED
  BY <1>1, <1>2, <1>3, <1>4 DEF RefersWell

(* What a run keeps of a result is what the chain made for its entry.      *)
LEMMA KeepsWhatWasMade ==
    ASSUME IInv, DInv, NEW r \in Runs, pc[r] \in Waiting,
           NEW res \in results, res.code = 0, res.tx = sent[r],
           pc[r] = "waitStore" => Entry(r).op = "Upload",
           UNCHANGED <<results, mempool>>,
           deployed' = [deployed EXCEPT ![r][Entry(r).name] = res.made]
    PROVE  DInv'
<1>1. step[r] \in DOMAIN Plan
  BY DEF IInv, PlanOK
<1>2. /\ res.tx.msg.name = Entry(r).name
      /\ res.tx.msg.kind = KeptKind(step[r])
  <2>1. CASE pc[r] = "waitStore"
    <3>1. sent[r].msg = StoreMsg(r)
      BY <2>1 DEF IInv, PlanOK
    <3> QED
      BY <2>1, <3>1 DEF StoreMsg, KeptKind, Entry
  <2>2. CASE pc[r] = "waitInstantiate"
    <3>1. sent[r].msg = InstantiateMsg(r) /\ Entry(r).op # "Upload"
      BY <2>2 DEF IInv, PlanOK
    <3> QED
      BY <3>1 DEF InstantiateMsg, KeptKind, Entry
  <2> QED
    BY <2>1, <2>2 DEF Waiting
<1>3. MadeFor(Entry(r).name, KeptKind(step[r]), res.made)
  BY <1>2 DEF MadeFor
<1>4. \A n, k, d : MadeFor(n, k, d) => MadeFor(n, k, d)'
  BY DEF MadeFor
<1>5. ASSUME NEW q \in Runs, NEW i \in DOMAIN Plan,
             deployed'[q][Plan[i].name] # NoDetail
      PROVE  MadeFor(Plan[i].name, KeptKind(i), deployed'[q][Plan[i].name])
  <2>1. deployed \in [Runs -> [Names -> Details]] /\ Plan[i].name \in Names
    BY PlanTyped DEF IInv, TypeOK
  <2>2. CASE q = r /\ Plan[i].name = Entry(r).name
    <3>1. i = step[r]
      BY <1>1, <2>2, PlanAssumption DEF Entry
    <3>2. deployed'[q][Plan[i].name] = res.made
      BY <2>1, <2>2
    <3> QED
      BY <1>3, <2>2, <3>1, <3>2
  <2>3. CASE ~(q = r /\ Plan[i].name = Entry(r).name)
    <3>1. deployed'[q][Plan[i].name] = deployed[q][Plan[i].name]
      BY <2>1, <2>3
    <3> QED
      BY <1>5, <3>1 DEF DInv
  <2> QED
    BY <2>2, <2>3
<1>6. \A msg : RefersWell(msg) => RefersWell(msg)'
  BY ResultsGrow
<1>7. (mempool \cup Committed)' = mempool \cup Committed
  BY DEF Committed
<1> QED
  BY <1>4, <1>5, <1>6, <1>7 DEF DInv, KeptKind

LEMMA RunStepDInv ==
    ASSUME IInv, DInv, NEW r \in Runs, RunStep(r) \/ Kill(r) PROVE DInv'
<1>1. ASSUME UNCHANGED <<results, deployed>>,
             NEW seq, NEW msg \in {StoreMsg(r), InstantiateMsg(r)},
             step[r] \in DOMAIN Plan,
             mempool' \subseteq mempool \cup
                 {[acct |-> Signer[r], seq |-> seq, msg |-> msg]}
      PROVE  DInv'
  <2>1. Committed' = Committed
    BY <1>1 DEF Committed
  <2>2. RefersWell(msg)
    BY <1>1, RefersToEarlier
  <2> QED
    BY <1>1, <2>1, <2>2, NothingDeployed
<1>2. ASSUME UNCHANGED <<results, deployed, mempool>> PROVE DInv'
  BY <1>2, NothingDeployed DEF Committed
<1>3. ASSUME NEW seq, NEW msg \in {StoreMsg(r), InstantiateMsg(r)}, NEW label,
             step[r] \in DOMAIN Plan, SignAndBroadcast(r, seq, msg, label)
      PROVE  DInv'
  BY <1>1, <1>3 DEF SignAndBroadcast, Broadcast
<1>4. CASE Upload(r) \/ UploadAndInstantiate(r)
  BY <1>3, <1>4 DEF Upload, UploadAndInstantiate
<1>5. CASE InstantiateContract(r)
  BY <1>3, <1>5 DEF InstantiateContract, IInv, PlanOK
<1>6. CASE StoreDone(r)
  <2>1. /\ pc[r] = "waitStore" /\ pc[r] \in Waiting
        /\ UNCHANGED <<results, mempool>>
    BY <1>6 DEF StoreDone, Waiting, chainVars
  <2>2. PICK res \in results :
          /\ res.tx = sent[r] /\ res.code = 0
          /\ LET d == ExtractResultTxDetails(res.events) IN
             \/ UNCHANGED deployed
             \/ /\ Entry(r).op = "Upload"
                /\ deployed' = [deployed EXCEPT ![r][Entry(r).name] =
                                   [code |-> d.code, addr |-> 0]]
    BY <1>6 DEF StoreDone
  <2>3. ExtractResultTxDetails(res.events) = res.made
    BY <2>2, ExtractsWhatWasMade DEF IInv
  <2>4. res.tx.msg.kind = "store"
    <3>1. sent[r].msg = StoreMsg(r)
      BY <2>1 DEF IInv, PlanOK
    <3> QED
      BY <2>2, <3>1 DEF StoreMsg
  <2>5. res.made = [code |-> res.made.code, addr |-> 0]
    BY <2>2, <2>4 DEF IInv, WellMade, TypeOK, ChainTypeOK, Results, Details
  <2>6. \/ UNCHANGED deployed
        \/ /\ Entry(r).op = "Upload"
           /\ deployed' = [deployed EXCEPT ![r][Entry(r).name] = res.made]
    BY <2>2, <2>3, <2>5
  <2> QED
    BY <1>2, <2>1, <2>2, <2>6, KeepsWhatWasMade
<1>7. CASE InstantiateDone(r)
  <2>1. /\ pc[r] = "waitInstantiate" /\ pc[r] \in Waiting
        /\ UNCHANGED <<results, mempool>>
    BY <1>7 DEF InstantiateDone, Waiting, chainVars
  <2>2. PICK res \in results :
          /\ res.tx = sent[r] /\ res.code = 0
          /\ LET d == ExtractResultTxDetails(res.events) IN
             \/ UNCHANGED deployed
             \/ deployed' = [deployed EXCEPT ![r][Entry(r).name] = d]
    BY <1>7 DEF InstantiateDone
  <2>3. ExtractResultTxDetails(res.events) = res.made
    BY <2>2, ExtractsWhatWasMade DEF IInv
  <2> QED
    BY <1>2, <2>1, <2>2, <2>3, KeepsWhatWasMade
<1>8. CASE UpdateAccountSequence(r) \/ WaitTxMiss(r) \/ WaitTxFailed(r)
             \/ AllDeployed(r) \/ Kill(r)
  BY <1>2, <1>8 DEF UpdateAccountSequence, WaitTxMiss, WaitTxFailed,
                    AllDeployed, Kill, chainVars, localVars
<1> QED
  BY <1>4, <1>5, <1>6, <1>7, <1>8 DEF RunStep

LEMMA DependencyInvariant == Spec => []DInv
<1>1. Init => DInv
  BY PlanTyped DEF Init, ChainInit, DInv, Committed
<1>2. IInv /\ DInv /\ [Next]_vars => DInv'
  <2> SUFFICES ASSUME IInv, DInv, [Next]_vars PROVE DInv'
    OBVIOUS
  <2>1. CASE UNCHANGED vars
    <3>1. UNCHANGED <<results, deployed, mempool>>
      BY <2>1 DEF vars, chainVars, localVars
    <3> QED
      BY <3>1, NothingDeployed DEF Committed
  <2> QED
    BY <2>1, RunStepDInv, ChainStepDInv DEF Next, Terminated
<1> QED
  BY <1>1, <1>2, Invariant, PTL DEF Spec

(* The plan fills each field with what it asks for, and leaves out no      *)
(* field that a dependency needs.                                          *)
InPlan(deps, asks) ==
    \A i \in DOMAIN Plan :
        /\ \A f \in DOMAIN Plan[i].refs : Plan[i].refs[f] = asks[f]
        /\ \A d \in deps : Plan[i].name = d[1] =>
             \E f \in DOMAIN Plan[i].refs : Plan[i].refs[f] = d[2]

LEMMA Respected ==
    ASSUME DInv, NEW deps, NEW asks, InPlan(deps, asks)
    PROVE  RespectsDependencies(deps, asks)
<1> SUFFICES ASSUME NEW res \in results, res.code = 0,
                    res.tx.msg.kind = "instantiate"
             PROVE  LET told == res.tx.msg.refs IN
                    /\ \A d \in deps : d[1] = res.tx.msg.name =>
                         \E f \in Fields :
                            asks[f] = d[2] /\ Given(d[2], told[f])
                    /\ \A f \in Fields :
                         told[f] # 0 => Given(asks[f], told[f])
  BY DEF RespectsDependencies
<1> DEFINE told == res.tx.msg.refs
<1>1. RefersWell(res.tx.msg)
  BY DEF DInv, Committed
<1>2. PICK i \in DOMAIN Plan :
        /\ Plan[i].name = res.tx.msg.name
        /\ \A f \in Fields :
             IF f \in DOMAIN Plan[i].refs
             THEN Given(Plan[i].refs[f], told[f])
             ELSE told[f] = 0
  BY <1>1 DEF RefersWell
<1>3. DOMAIN Plan[i].refs \subseteq Fields
  BY PlanTyped DEF IsEntry
<1>4. \A f \in DOMAIN Plan[i].refs : Plan[i].refs[f] = asks[f]
  BY DEF InPlan
<1>5. ASSUME NEW d \in deps, d[1] = res.tx.msg.name
      PROVE  \E f \in Fields : asks[f] = d[2] /\ Given(d[2], told[f])
  <2>1. PICK f \in DOMAIN Plan[i].refs : Plan[i].refs[f] = d[2]
    BY <1>2, <1>5 DEF InPlan
  <2> QED
    BY <1>2, <1>3, <1>4, <2>1
<1>6. ASSUME NEW f \in Fields, told[f] # 0 PROVE Given(asks[f], told[f])
  BY <1>2, <1>4, <1>6
<1> QED
  BY <1>5, <1>6

(* A contract on the chain holds the code id or the address that the chain *)
(* gave to each contract the plan makes it depend on, each in its place:   *)
(* nothing is passed on from a transaction that failed, or from another    *)
(* contract.                                                               *)
THEOREM Dependencies ==
    ASSUME NEW CONSTANT deps, NEW CONSTANT asks, InPlan(deps, asks)
    PROVE  Spec => []RespectsDependencies(deps, asks)
<1>1. DInv => RespectsDependencies(deps, asks)
  BY Respected
<1> QED
  BY <1>1, DependencyInvariant, PTL

=============================================================================
