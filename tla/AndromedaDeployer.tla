------------------------- MODULE AndromedaDeployer -------------------------
(***************************************************************************)
(* The andromeda deployment tool.  main asks the chain for its state and   *)
(* for two balances, adopts the sequence of the signer's account, and then *)
(* calls uploadAndInstantiate once for each contract.  A run is one        *)
(* execution of the tool; runs may overlap and may share an account.       *)
(*                                                                         *)
(* The tool was written beside the one of Deployer.tla and shares no code  *)
(* with it.  ActsAsDeployer says that it behaves the same.  zap's Fatal    *)
(* ends the process here too.                                              *)
(***************************************************************************)
EXTENDS Chain

CONSTANTS
    Runs,        \* executions of the tool
    Signer,      \* the account each run signs with, user1 of the tool
    Plan,        \* what main deploys, in order
    MaxPolls,    \* calls of Tx in WaitTx (30 in the code)
    NoSalt,      \* no message holds a time
    NoTx         \* no transaction broadcast yet

ASSUME SignerAssumption == Signer \in [Runs -> Accounts]
ASSUME MaxPollsAssumption == MaxPolls \in Nat \ {0}
ASSUME SaltsAssumption == Salts = Runs \cup {NoSalt}
ASSUME NoTxAssumption == NoTx \notin Txs

(* Each contract is deployed once; main passes on the addresses of earlier *)
(* contracts, kept in local variables: refs says which fields they fill.   *)
IsEntry(e) ==
    /\ e = [name |-> e.name, refs |-> e.refs]
    /\ e.name \in Names
    /\ DOMAIN e.refs \subseteq Fields
    /\ \A f \in DOMAIN e.refs : e.refs[f] \in Sources

ASSUME PlanAssumption ==
    /\ Plan \in Seq({Plan[i] : i \in DOMAIN Plan})
    /\ \A i \in DOMAIN Plan : IsEntry(Plan[i])
    /\ \A i, j \in DOMAIN Plan : Plan[i].name = Plan[j].name => i = j
    /\ \A i \in DOMAIN Plan : \A f \in DOMAIN Plan[i].refs :
         \E j \in 1 .. i - 1 : Plan[j].name = Plan[i].refs[f].name

VARIABLES
    pc,              \* where each run is
    step,            \* index in Plan of the contract in work
    sequence,        \* AccountInfo.Sequence of the signer in the ChainClient
    isFirstDeploy,   \* the package variable, one per process
    sent,            \* the transaction WaitTx waits for
    polls,           \* loop counter of WaitTx
    codeID,          \* CodeID in uploadAndInstantiate
    deployed         \* what main knows of each contract

localVars == <<step, sequence, isFirstDeploy, sent, polls, codeID, deployed>>
vars == <<chainVars, pc, localVars>>

Asking == {"info", "balances"}
Waiting == {"waitStore", "waitInstantiate"}
Ended == {"ok", "fatal", "killed"}

(* main adds user1 with sequence 0 and account number 1.                   *)
AddAccount == [Sequence |-> 0, Number |-> 1]

Init ==
    /\ ChainInit
    /\ pc = [r \in Runs |-> "info"]
    /\ step = [r \in Runs |-> 1]
    /\ sequence = [r \in Runs |-> AddAccount.Sequence]
    /\ isFirstDeploy = [r \in Runs |-> TRUE]
    /\ sent = [r \in Runs |-> NoTx]
    /\ polls = [r \in Runs |-> 0]
    /\ codeID = [r \in Runs |-> 0]
    /\ deployed = [r \in Runs |-> [n \in Names |-> NoDetail]]

Goto(r, label) == pc' = [pc EXCEPT ![r] = label]
Resume(r) == Goto(r, "ready")           \* mutant: no error ends the tool
Fatal(r) == Goto(r, "fatal")

-----------------------------------------------------------------------------
(* Info: four calls of the RPC, each of which must succeed.                *)
Info(r) ==
    /\ pc[r] = "info"
    /\ Goto(r, "balances") \/ ("rpc" \in Faults /\ Fatal(r))
    /\ UNCHANGED <<chainVars, localVars>>

(* GetBalances, of both accounts: a query that fails is fatal in           *)
(* executeQuery already.                                                   *)
GetBalances(r) ==
    /\ pc[r] = "balances"
    /\ Goto(r, "init") \/ ("rpc" \in Faults /\ Fatal(r))
    /\ UNCHANGED <<chainVars, localVars>>

(* UpdateAccountSequence: GetAccountInfo, then SetSequence.                *)
UpdateAccountSequence(r) ==
    /\ pc[r] = "init"
    /\ \/ /\ sequence' = [sequence EXCEPT ![r] = accSeq[Signer[r]]]
          /\ Goto(r, "ready")
       \/ "rpc" \in Faults /\ Fatal(r) /\ UNCHANGED sequence
    /\ UNCHANGED <<chainVars, step, isFirstDeploy, sent, polls, codeID,
                   deployed>>

-----------------------------------------------------------------------------
(* GetSignedTxBytes signs for the sequence of the account in the client.   *)
GetSignedTxBytes(r, seq, msg) == [acct |-> Signer[r], seq |-> seq, msg |-> msg]

(* DeployContract and InstantiateContract, to the call of WaitTx, with the *)
(* sequence the caller increased to.  When the RPC fails the transaction   *)
(* may have arrived; a wasm file that cannot be read is fatal as well.     *)
BroadCastTxAsync(r, seq, msg, label) ==
    LET tx == GetSignedTxBytes(r, seq, msg) IN
    /\ sequence' = [sequence EXCEPT ![r] = seq]
    /\ sent' = [sent EXCEPT ![r] = tx]
    /\ polls' = [polls EXCEPT ![r] = 0]
    /\ \/ mempool' = Broadcast(tx) /\ Goto(r, label)
       \/ /\ "rpc" \in Faults
          /\ mempool' \in {mempool, Broadcast(tx)}
          /\ Fatal(r)
    /\ UNCHANGED <<results, accSeq, codes, instances, step, codeID, deployed>>

NoRefs == [f \in Fields |-> 0]
KnownRefs(r) ==
    LET refs == Plan[step[r]].refs IN
    [f \in Fields |->
        IF f \in DOMAIN refs
        THEN PartOf(deployed[r][refs[f].name], refs[f].part) ELSE 0]

MsgStoreCode(r) ==
    [kind |-> "store", name |-> Plan[step[r]].name, code |-> 0,
     refs |-> NoRefs, salt |-> NoSalt]
MsgInstantiateContract(r) ==
    [kind |-> "instantiate", name |-> Plan[step[r]].name, code |-> codeID[r],
     refs |-> KnownRefs(r), salt |-> NoSalt]

IncreaseSequence(r) == sequence[r] + 1

(* The first deployment keeps the sequence the chain reported.             *)
IncreaseAnyway(r) == IncreaseSequence(r)   \* mutant: no condition
IncreaseUnlessFirst(r) ==
    IF isFirstDeploy[r] THEN sequence[r] ELSE IncreaseSequence(r)

uploadAndInstantiate(r) ==
    /\ pc[r] = "ready" /\ step[r] \in DOMAIN Plan
    /\ BroadCastTxAsync(r, IncreaseUnlessFirst(r), MsgStoreCode(r),
                        "waitStore")
    /\ isFirstDeploy' = [isFirstDeploy EXCEPT ![r] = FALSE]

(* The second half of uploadAndInstantiate increases without a condition.  *)
InstantiateContract(r) ==
    /\ pc[r] = "stored"
    /\ BroadCastTxAsync(r, IncreaseSequence(r), MsgInstantiateContract(r),
                        "waitInstantiate")
    /\ UNCHANGED isFirstDeploy

-----------------------------------------------------------------------------
(* The loop of WaitTx: the calls of Tx made, the one in work included.     *)
NotCounted(r) == polls[r]                  \* mutant: the loop has no end
Polled(r) == polls[r] + 1

(* A call of Tx fails.  After the last one WaitTx does, and so the tool.   *)
WaitTxMiss(r) ==
    /\ pc[r] \in Waiting
    /\ sent[r] \notin Committed \/ "rpc" \in Faults
    /\ Polled(r) >= MaxPolls => sent[r] \notin mempool \/ "slow" \in Faults
    /\ polls' = [polls EXCEPT ![r] = Polled(r)]
    /\ IF Polled(r) >= MaxPolls THEN Fatal(r) ELSE UNCHANGED pc
    /\ UNCHANGED <<chainVars, step, sequence, isFirstDeploy, sent, codeID,
                   deployed>>

(* A call of Tx returns a transaction that failed.                         *)
WaitTxFailed(r) ==
    /\ pc[r] \in Waiting
    /\ \E res \in results : res.tx = sent[r] /\ res.code # 0
    /\ Fatal(r)
    /\ UNCHANGED <<chainVars, localVars>>

(* extractResultTxDetails: the event its loop ends with, if there is one.  *)
(* It sets what it returns, with 0 for an empty string.                    *)
Detailed(event) == event.type \in {"instantiate", "store_code"}
WithoutBreak(events) ==   \* mutant: a later event overwrites the first
    {events[i] : i \in {k \in DOMAIN events :
        Detailed(events[k]) /\ \A j \in DOMAIN events :
            j > k => ~Detailed(events[j])}}
extractResultTxDetails(events) ==
    {events[i] : i \in {k \in DOMAIN events :
        Detailed(events[k]) /\ \A j \in DOMAIN events :
            j < k => ~Detailed(events[j])}}

(* WaitTx returns the stored code.  The error of the extraction is lost,   *)
(* but the empty string does not parse as a code id.                       *)
CodeStored(r) ==
    /\ pc[r] = "waitStore"
    /\ \E res \in results :
         /\ res.tx = sent[r] /\ res.code = 0
         /\ \/ \E e \in extractResultTxDetails(res.events) :
                 /\ e.code # 0
                 /\ codeID' = [codeID EXCEPT ![r] = e.code]
                 /\ Goto(r, "stored")
            \/ /\ \A e \in extractResultTxDetails(res.events) : e.code = 0
               /\ Fatal(r) /\ UNCHANGED codeID
    /\ UNCHANGED <<chainVars, step, sequence, isFirstDeploy, sent, polls,
                   deployed>>

(* WaitTx returns the instantiated contract.  Its code id is not parsed,   *)
(* and only both strings being empty is an error.                          *)
Instantiated(r) ==
    /\ pc[r] = "waitInstantiate"
    /\ \E res \in results :
         /\ res.tx = sent[r] /\ res.code = 0
         /\ \/ \E e \in extractResultTxDetails(res.events) :
                 /\ e.code # 0 \/ e.addr # 0
                 /\ deployed' = [deployed EXCEPT ![r][Plan[step[r]].name] =
                                    [code |-> e.code, addr |-> e.addr]]
                 /\ step' = [step EXCEPT ![r] = @ + 1]
                 /\ Goto(r, "ready")
            \/ /\ \A e \in extractResultTxDetails(res.events) :
                    e.code = 0 /\ e.addr = 0
               /\ Fatal(r) /\ UNCHANGED <<step, deployed>>
    /\ UNCHANGED <<chainVars, sequence, isFirstDeploy, sent, polls, codeID>>

(* main returns.                                                           *)
AllDeployed(r) ==
    /\ pc[r] = "ready" /\ step[r] \notin DOMAIN Plan
    /\ Goto(r, "ok")
    /\ UNCHANGED <<chainVars, localVars>>

(* The process is killed between two of its steps.                         *)
Kill(r) ==
    /\ "kill" \in Faults
    /\ pc[r] \notin Ended
    /\ Goto(r, "killed")
    /\ UNCHANGED <<chainVars, localVars>>

-----------------------------------------------------------------------------
RunStep(r) ==
    \/ Info(r)
    \/ GetBalances(r)
    \/ UpdateAccountSequence(r)
    \/ uploadAndInstantiate(r)
    \/ InstantiateContract(r)
    \/ WaitTxMiss(r)
    \/ WaitTxFailed(r)
    \/ CodeStored(r)
    \/ Instantiated(r)
    \/ AllDeployed(r)

ChainStep == ChainNext /\ UNCHANGED <<pc, localVars>>

Terminated == (\A r \in Runs : pc[r] \in Ended) /\ UNCHANGED vars

Next ==
    \/ \E r \in Runs : RunStep(r) \/ Kill(r)
    \/ ChainStep
    \/ Terminated

Spec == Init /\ [][Next]_vars

(* Timers fire, calls return, and the chain keeps including transactions.  *)
FairSpec == Spec /\ (\A r \in Runs : WF_vars(RunStep(r))) /\ WF_vars(ChainStep)

-----------------------------------------------------------------------------
(* The tool behaves as the other one would with the same plan: it starts   *)
(* with questions that change nothing, and from then on signs, waits and   *)
(* learns the same, although its increments stand elsewhere.               *)
W == INSTANCE Deployer WITH
        pc <- [r \in Runs |-> IF pc[r] \in Asking THEN "init" ELSE pc[r]],
        Plan <- [i \in DOMAIN Plan |->
                    [name |-> Plan[i].name, op |-> "UploadAndInstantiate",
                     refs |-> Plan[i].refs, clock |-> FALSE]]
ActsAsDeployer == W!Spec

(* What a run has still to do at most: the questions at its beginning, and *)
(* what the other tool would have to do.                                   *)
StepsLeft(r) ==
    W!StepsLeft(r) + (CASE pc[r] = "info" -> 2
                        [] pc[r] = "balances" -> 1
                        [] OTHER -> 0)

(* Each step of a run leaves it less to do, however the chain answers, and *)
(* nothing else ever adds to that.                                         *)
Countdown ==
    [][\A r \in Runs :
         /\ StepsLeft(r)' \in Nat
         /\ StepsLeft(r)' <= StepsLeft(r)
         /\ RunStep(r) => StepsLeft(r)' < StepsLeft(r)]_vars

(* Every run ends: neither a lost transaction nor a silent chain holds the *)
(* loop of WaitTx forever.                                                 *)
EveryRunEnds == \A r \in Runs : <>(pc[r] \in Ended)

=============================================================================
