------------------------------ MODULE Deployer ------------------------------
(***************************************************************************)
(* The white_whale deployment tool: ContractDeployer over ChainService and *)
(* ChainClient, driven by main through a plan of contracts.  A run is one  *)
(* execution of the tool.  Runs may overlap, or follow each other after a  *)
(* failure, and may sign with the same account: the mnemonics are fixed in *)
(* the tool's .env.                                                        *)
(*                                                                         *)
(* zap's Fatal ends the process, so every error path of the tool leads to  *)
(* pc = "fatal".                                                           *)
(***************************************************************************)
EXTENDS Chain, TxDetails

CONSTANTS
    Runs,        \* executions of the tool
    Signer,      \* the account each run signs with
    Plan,        \* what main deploys, in order
    MaxPolls,    \* calls of Tx in WaitTx (30 in the code)
    NoSalt,      \* the message holds no time
    NoTx         \* no transaction broadcast yet

ASSUME SignerAssumption == Signer \in [Runs -> Accounts]
ASSUME MaxPollsAssumption == MaxPolls \in Nat \ {0}
ASSUME SaltsAssumption == Salts = Runs \cup {NoSalt}
ASSUME NoTxAssumption == NoTx \notin Txs

(* An entry of the plan: refs says what the fields of the message that     *)
(* name other contracts are filled with, and clock that main puts the time *)
(* of the run into it.                                                     *)
IsEntry(e) ==
    /\ e = [name |-> e.name, op |-> e.op, refs |-> e.refs, clock |-> e.clock]
    /\ e.name \in Names /\ e.op \in {"Upload", "UploadAndInstantiate"}
    /\ DOMAIN e.refs \subseteq Fields
    /\ \A f \in DOMAIN e.refs : e.refs[f] \in Sources
    /\ e.clock \in BOOLEAN

(* Each contract is deployed once, and its message refers to contracts     *)
(* deployed before it: main keeps the results in local variables.  Upload  *)
(* returns no address.                                                     *)
ASSUME PlanAssumption ==
    /\ Plan \in Seq({Plan[i] : i \in DOMAIN Plan})
    /\ \A i \in DOMAIN Plan : IsEntry(Plan[i])
    /\ \A i, j \in DOMAIN Plan : Plan[i].name = Plan[j].name => i = j
    /\ \A i \in DOMAIN Plan : \A f \in DOMAIN Plan[i].refs :
         \E j \in 1 .. i - 1 :
            /\ Plan[j].name = Plan[i].refs[f].name
            /\ Plan[i].refs[f].part = "addr" =>
                 Plan[j].op = "UploadAndInstantiate"

(* main begins with UploadAndInstantiate.  Upload takes no notice of       *)
(* isFirstDeploy, and would sign its first transaction for a sequence the  *)
(* account has not reached.                                                *)
ASSUME PlanStartAssumption ==
    1 \in DOMAIN Plan => Plan[1].op = "UploadAndInstantiate"

VARIABLES
    pc,              \* where each run is
    step,            \* index in Plan of the contract in work
    sequence,        \* AccountInfo.Sequence of the signer in the ChainClient
    isFirstDeploy,   \* ContractDeployer.isFirstDeploy
    sent,            \* the transaction WaitTx waits for
    polls,           \* loop counter of WaitTx
    codeID,          \* CodeID in UploadAndInstantiate
    deployed         \* what main knows of each contract

localVars == <<step, sequence, isFirstDeploy, sent, polls, codeID, deployed>>
vars == <<chainVars, pc, localVars>>

Waiting == {"waitStore", "waitInstantiate"}
Ended == {"ok", "fatal", "killed"}
PCs == {"init", "ready", "stored"} \cup Waiting \cup Ended

Init ==
    /\ ChainInit
    /\ pc = [r \in Runs |-> "init"]
    /\ step = [r \in Runs |-> 1]
    /\ sequence = [r \in Runs |-> 0]
    /\ isFirstDeploy = [r \in Runs |-> TRUE]
    /\ sent = [r \in Runs |-> NoTx]
    /\ polls = [r \in Runs |-> 0]
    /\ codeID = [r \in Runs |-> 0]
    /\ deployed = [r \in Runs |-> [n \in Names |-> NoDetail]]

Goto(r, label) == pc' = [pc EXCEPT ![r] = label]

-----------------------------------------------------------------------------
(* The messages of the plan entry in work.                                 *)
Entry(r) == Plan[step[r]]
Refs(r) ==
    [f \in Fields |->
        IF f \in DOMAIN Entry(r).refs
        THEN LET s == Entry(r).refs[f] IN PartOf(deployed[r][s.name], s.part)
        ELSE 0]
StoreMsg(r) ==
    [kind |-> "store", name |-> Entry(r).name, code |-> 0,
     refs |-> [f \in Fields |-> 0], salt |-> NoSalt]
InstantiateMsg(r) ==
    [kind |-> "instantiate", name |-> Entry(r).name, code |-> codeID[r],
     refs |-> Refs(r), salt |-> IF Entry(r).clock THEN r ELSE NoSalt]

(* ContractDeployer.IncreaseSequence: nothing but the flag changes on the  *)
(* first deployment.                                                       *)
IncreaseAlways(r) == sequence[r] + 1    \* mutant: the flag is ignored
IncreaseNever(r) == sequence[r]         \* mutant: the flag is never cleared
IncreaseSequence(r) ==
    IF isFirstDeploy[r] THEN sequence[r] ELSE sequence[r] + 1

(* ChainClient.IncreaseSequence.                                           *)
IncreaseForgotten(r) == sequence[r]     \* mutant: Upload does not increase
ClientIncreaseSequence(r) == sequence[r] + 1

(* Sign msg for sequence seq and broadcast it.  When the RPC fails the     *)
(* transaction may nevertheless have arrived; the tool ends either way.    *)
(* It ends like that, with nothing arrived, for a wasm file it cannot read.*)
SignAndBroadcast(r, seq, msg, label) ==
    LET tx == [acct |-> Signer[r], seq |-> seq, msg |-> msg] IN
    /\ sequence' = [sequence EXCEPT ![r] = seq]
    /\ sent' = [sent EXCEPT ![r] = tx]
    /\ polls' = [polls EXCEPT ![r] = 0]
    /\ \/ mempool' = Broadcast(tx) /\ Goto(r, label)
       \/ /\ "rpc" \in Faults
          /\ mempool' \in {mempool, Broadcast(tx)}
          /\ Goto(r, "fatal")
    /\ UNCHANGED <<results, accSeq, codes, instances, step, codeID, deployed>>

-----------------------------------------------------------------------------
(* The run starts: it queries the account and adopts its sequence.  main   *)
(* asks for two balances first; they change nothing, and a query of them   *)
(* that fails ends the tool in executeQuery, as one of these does.         *)
UpdateAccountSequence(r) ==
    /\ pc[r] = "init"
    /\ \/ /\ sequence' = [sequence EXCEPT ![r] = accSeq[Signer[r]]]
          /\ Goto(r, "ready")
       \/ "rpc" \in Faults /\ Goto(r, "fatal") /\ UNCHANGED sequence
    /\ UNCHANGED <<chainVars, step, isFirstDeploy, sent, polls, codeID,
                   deployed>>

(* Upload, to the broadcast of MsgStoreCode: it increases the sequence of  *)
(* the client itself, whatever isFirstDeploy says.                         *)
Upload(r) ==
    /\ pc[r] = "ready" /\ step[r] \in DOMAIN Plan
    /\ Entry(r).op = "Upload"
    /\ SignAndBroadcast(r, ClientIncreaseSequence(r), StoreMsg(r), "waitStore")
    /\ UNCHANGED isFirstDeploy

(* UploadAndInstantiate, to the broadcast of MsgStoreCode.                 *)
UploadAndInstantiate(r) ==
    /\ pc[r] = "ready" /\ step[r] \in DOMAIN Plan
    /\ Entry(r).op = "UploadAndInstantiate"
    /\ SignAndBroadcast(r, IncreaseSequence(r), StoreMsg(r), "waitStore")
    /\ isFirstDeploy' = [isFirstDeploy EXCEPT ![r] = FALSE]

(* UploadAndInstantiate, to the broadcast of MsgInstantiateContract.       *)
InstantiateContract(r) ==
    /\ pc[r] = "stored"
    /\ SignAndBroadcast(r, IncreaseSequence(r), InstantiateMsg(r),
                        "waitInstantiate")
    /\ isFirstDeploy' = [isFirstDeploy EXCEPT ![r] = FALSE]

(* The loop of WaitTx: the calls of Tx made, with the one in work, whether *)
(* it is the last one, and what follows when the last one fails.           *)
NotCounted(r) == polls[r]               \* mutant: the loop has no end
Polled(r) == polls[r] + 1
OnceMore(r) == Polled(r) > MaxPolls     \* mutant: <= for < in the loop
LastPoll(r) == Polled(r) >= MaxPolls
Retry(r) == Goto(r, "ready")            \* mutant: main sends it again
GiveUp(r) == Goto(r, "fatal")

(* WaitTx: a call of Tx fails, because the transaction is in no block or   *)
(* for a fault of the RPC.  The last one ends the loop and the tool.  The  *)
(* chain includes a pending transaction in time unless it is "slow".       *)
WaitTxMiss(r) ==
    /\ pc[r] \in Waiting
    /\ sent[r] \notin Committed \/ "rpc" \in Faults
    /\ LastPoll(r) => sent[r] \notin mempool \/ "slow" \in Faults
    /\ polls' = [polls EXCEPT ![r] = Polled(r)]
    /\ IF LastPoll(r) THEN GiveUp(r) ELSE UNCHANGED pc
    /\ UNCHANGED <<chainVars, step, sequence, isFirstDeploy, sent, codeID,
                   deployed>>

(* WaitTx: the transaction is in a block, with a failure.                  *)
WaitTxFailed(r) ==
    /\ pc[r] \in Waiting
    /\ \E res \in results : res.tx = sent[r] /\ res.code # 0
    /\ Goto(r, "fatal")
    /\ UNCHANGED <<chainVars, localVars>>

(* WaitTx returns the result of MsgStoreCode, and its code id is parsed.   *)
(* UploadAndInstantiate drops the error of the extraction: an error leaves *)
(* the empty string, which does not parse.                                 *)
StoreDone(r) ==
    /\ pc[r] = "waitStore"
    /\ \E res \in results :
         /\ res.tx = sent[r] /\ res.code = 0
         /\ LET d == ExtractResultTxDetails(res.events) IN
            \/ ParseErr(d.code) /\ Goto(r, "fatal")
                 /\ UNCHANGED <<step, codeID, deployed>>
            \/ /\ ~ParseErr(d.code) /\ Entry(r).op = "Upload"
               /\ deployed' = [deployed EXCEPT ![r][Entry(r).name] =
                                  [code |-> d.code, addr |-> 0]]
               /\ step' = [step EXCEPT ![r] = @ + 1]
               /\ Goto(r, "ready")
               /\ UNCHANGED codeID
            \/ /\ ~ParseErr(d.code) /\ Entry(r).op = "UploadAndInstantiate"
               /\ codeID' = [codeID EXCEPT ![r] = d.code]
               /\ Goto(r, "stored")
               /\ UNCHANGED <<step, deployed>>
    /\ UNCHANGED <<chainVars, sequence, isFirstDeploy, sent, polls>>

(* WaitTx returns the result of MsgInstantiateContract.                    *)
InstantiateDone(r) ==
    /\ pc[r] = "waitInstantiate"
    /\ \E res \in results :
         /\ res.tx = sent[r] /\ res.code = 0
         /\ LET d == ExtractResultTxDetails(res.events) IN
            \/ /\ ExtractErr(res.events) \/ ParseErr(d.code)
               /\ Goto(r, "fatal")
               /\ UNCHANGED <<step, deployed>>
            \/ /\ ~ExtractErr(res.events) /\ ~ParseErr(d.code)
               /\ deployed' = [deployed EXCEPT ![r][Entry(r).name] = d]
               /\ step' = [step EXCEPT ![r] = @ + 1]
               /\ Goto(r, "ready")
    /\ UNCHANGED <<chainVars, sequence, isFirstDeploy, sent, polls, codeID>>

(* main reaches its end: "All contracts deployed successfully".            *)
AllDeployed(r) ==
    /\ pc[r] = "ready" /\ step[r] \notin DOMAIN Plan
    /\ Goto(r, "ok")
    /\ UNCHANGED <<chainVars, localVars>>

(* The process is killed between two of its steps.                         *)
Kill(r) ==
    /\ "kill" \in Faults
    /\ pc[r] \notin Ended
    /\ Goto(r, "killed")
    /\ UNCHANGED <<chainVars, localVars>>

-----------------------------------------------------------------------------
RunStep(r) ==
    \/ UpdateAccountSequence(r)
    \/ Upload(r)
    \/ UploadAndInstantiate(r)
    \/ InstantiateContract(r)
    \/ WaitTxMiss(r)
    \/ WaitTxFailed(r)
    \/ StoreDone(r)
    \/ InstantiateDone(r)
    \/ AllDeployed(r)

ChainStep == ChainNext /\ UNCHANGED <<pc, localVars>>

Terminated == (\A r \in Runs : pc[r] \in Ended) /\ UNCHANGED vars

Next ==
    \/ \E r \in Runs : RunStep(r) \/ Kill(r)
    \/ ChainStep
    \/ Terminated

Spec == Init /\ [][Next]_vars

(* A run makes its next step: the timer of the poll loop fires and every   *)
(* RPC call returns.  The chain keeps including transactions.              *)
Fairness == (\A r \in Runs : WF_vars(RunStep(r))) /\ WF_vars(ChainStep)
FairSpec == Spec /\ Fairness

-----------------------------------------------------------------------------
(* Type correctness.                                                       *)
TypeOK ==
    /\ ChainTypeOK
    /\ pc \in [Runs -> PCs]
    /\ step \in [Runs -> 1 .. Len(Plan) + 1]
    /\ sequence \in [Runs -> Nat]
    /\ isFirstDeploy \in [Runs -> BOOLEAN]
    /\ sent \in [Runs -> Txs \cup {NoTx}]
    /\ polls \in [Runs -> 0 .. MaxPolls]
    /\ codeID \in [Runs -> Nat]
    /\ deployed \in [Runs -> [Names -> Details]]

(* No two runs sign with the same account.                                 *)
Exclusive == \A q, r \in Runs : Signer[q] = Signer[r] => q = r

(* No transaction is signed for a sequence its account has not reached,    *)
(* whoever else signs with the account: a chain would hold such a          *)
(* transaction back or refuse it, and WaitTx would wait in vain.  It takes *)
(* the skipped increment of the first deployment, and every increment      *)
(* after a committed transaction only.                                     *)
NoSequenceGap == \A tx \in mempool : tx.seq <= accSeq[tx.acct]

(* When no two runs share an account, a transaction in the mempool is      *)
(* signed for exactly the next sequence of its account: the local counter  *)
(* of ChainClient follows the chain without asking it again.               *)
CurrentSequence ==
    Exclusive => \A tx \in mempool : tx.seq = accSeq[tx.acct]

(* When no two runs share an account, no contract is stored or             *)
(* instantiated twice for a run, for WaitTx gives up and never retries     *)
(* what may be committed already.                                          *)
AtMostOnce ==
    Exclusive =>
        \A p, q \in results :
            /\ p.code = 0 /\ q.code = 0
            /\ p.tx.acct = q.tx.acct
            /\ p.tx.msg.kind = q.tx.msg.kind
            /\ p.tx.msg.name = q.tx.msg.name
            => p = q

(* A run signs its next transaction only when the one before is in a block *)
(* and succeeded.                                                          *)
AdvanceOnlyAfterCommit ==
    [][\A r \in Runs :
         sent'[r] # sent[r] =>
            \/ sent[r] = NoTx
            \/ \E res \in results : res.tx = sent[r] /\ res.code = 0]_vars

(* What a run knows about contracts is what the chain made of them, in the *)
(* order of its plan: the tool implements Deployment.                      *)
contracts ==
    {[kind |-> res.tx.msg.kind, name |-> res.tx.msg.name,
      refs |-> res.tx.msg.refs, made |-> res.made] :
        res \in {s \in results : s.code = 0}}
phase == [r \in Runs |-> CASE pc[r] = "ok" -> "done"
                           [] pc[r] \in {"fatal", "killed"} -> "aborted"
                           [] OTHER -> "active"]
D == INSTANCE Deployment WITH confirmed <- deployed
ImplementsDeployment == D!Spec

(* The chain gave the contract s.name the code id or the address v.        *)
Given(s, v) ==
    \E p \in results :
        /\ p.code = 0 /\ p.tx.msg.name = s.name
        /\ s.part = "addr" => p.tx.msg.kind = "instantiate"
        /\ PartOf(p.made, s.part) = v

(* Every contract instantiated on the chain holds, for each contract it    *)
(* depends on, the code id or the address the chain gave to that contract, *)
(* in a field that asks for it, and no field holds anything else: main     *)
(* passes on what it read from earlier results, each to its place.         *)
RespectsDependencies(deps, asks) ==
    \A res \in results :
        res.code = 0 /\ res.tx.msg.kind = "instantiate" =>
            LET told == res.tx.msg.refs IN
            /\ \A d \in deps : d[1] = res.tx.msg.name =>
                 \E f \in Fields : asks[f] = d[2] /\ Given(d[2], told[f])
            /\ \A f \in Fields : told[f] # 0 => Given(asks[f], told[f])

(* Every run ends: the poll loop is bounded, so neither a lost transaction *)
(* nor a silent chain holds the tool forever.                              *)
Terminates == \A r \in Runs : <>(pc[r] \in Ended)

(* Without faults and with an account of its own, every run deploys its    *)
(* whole plan.                                                             *)
DeploymentCompletes ==
    Faults = {} /\ Exclusive => \A r \in Runs : <>(pc[r] = "ok")

(* Nor does a run end on the way to that: neither an error path nor an     *)
(* exhausted poll loop is taken on a chain without faults.                 *)
NoneFails ==
    Faults = {} /\ Exclusive =>
        \A r \in Runs : pc[r] \notin {"fatal", "killed"}

(* A bound on the steps a run has still to make.  An entry of the plan     *)
(* takes at most two messages, and each of them its polls.                 *)
StepsPerEntry == 2 * (MaxPolls + 1)
StepsAhead(r) == (Len(Plan) + 1 - step[r]) * StepsPerEntry
StepsLeft(r) ==
    CASE pc[r] = "init" -> StepsAhead(r) + 2
      [] pc[r] = "ready" -> StepsAhead(r) + 1
      [] pc[r] = "waitStore" -> StepsAhead(r) - polls[r]
      [] pc[r] = "stored" -> StepsAhead(r) - MaxPolls
      [] pc[r] = "waitInstantiate" -> StepsAhead(r) - MaxPolls - 1 - polls[r]
      [] pc[r] \in Ended -> 0

(* A step of a run leaves it less to do, whatever the chain answers, and   *)
(* nothing that happens meanwhile, in another run or on the chain, gives   *)
(* it more.                                                                *)
Countdown ==
    [][\A r \in Runs :
         /\ StepsLeft(r)' \in Nat
         /\ StepsLeft(r)' <= StepsLeft(r)
         /\ RunStep(r) => StepsLeft(r)' < StepsLeft(r)]_vars

-----------------------------------------------------------------------------
(* The inductive invariant behind the theorems of DeployerProofs.          *)

(* What the chain guarantees of a committed success: its sequence is       *)
(* spent, and its first event tells what it made.                          *)
Spent == \A res \in results : res.code = 0 => res.tx.seq < accSeq[res.tx.acct]
WellMade ==
    \A res \in results : res.code = 0 =>
        /\ 1 \in DOMAIN res.events
        /\ res.events[1].type \in DetailTypes
        /\ res.events[1].code = res.made.code
        /\ res.events[1].addr = res.made.addr
        /\ res.made.code # 0
        /\ res.tx.msg.kind = "store" => res.made.addr = 0

Succeeded(tx) == \E res \in results : res.tx = tx /\ res.code = 0

(* The counter of a run is at most what the chain will accept: equal       *)
(* before the first transaction, one behind between two of them.           *)
CounterOK(r) ==
    /\ pc[r] = "init" =>
         step[r] = 1 /\ isFirstDeploy[r] /\ sent[r] = NoTx
    /\ pc[r] = "ready" /\ isFirstDeploy[r] =>
         step[r] = 1 /\ sent[r] = NoTx /\ sequence[r] <= accSeq[Signer[r]]
    /\ pc[r] = "ready" /\ ~isFirstDeploy[r] =>
         Succeeded(sent[r]) /\ sequence[r] < accSeq[Signer[r]]
    /\ pc[r] = "stored" =>
         /\ ~isFirstDeploy[r]
         /\ Succeeded(sent[r]) /\ sequence[r] < accSeq[Signer[r]]
    /\ pc[r] \in Waiting =>
         /\ ~isFirstDeploy[r]
         /\ sent[r] \in Txs
         /\ sent[r].acct = Signer[r] /\ sent[r].seq = sequence[r]
         /\ polls[r] < MaxPolls

(* A run knows the contracts of the plan entries before the one in work,   *)
(* and waits for the message of the one in work.                           *)
PlanOK(r) ==
    /\ \A i \in DOMAIN Plan :
         deployed[r][Plan[i].name] # NoDetail <=> i < step[r]
    /\ pc[r] \in {"stored"} \cup Waiting => step[r] \in DOMAIN Plan
    /\ pc[r] \in {"stored", "waitInstantiate"} =>
         Entry(r).op = "UploadAndInstantiate"
    /\ pc[r] = "waitStore" => sent[r].msg = StoreMsg(r)
    /\ pc[r] = "waitInstantiate" => sent[r].msg = InstantiateMsg(r)

IInv ==
    /\ TypeOK
    /\ Spent
    /\ WellMade
    /\ NoSequenceGap
    /\ \A r \in Runs : CounterOK(r) /\ PlanOK(r)

=============================================================================
