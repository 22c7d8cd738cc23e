-------------------------- MODULE ExclusiveProofs --------------------------
(***************************************************************************)
(* What holds when no two runs share an account, for every plan and every  *)
(* number of runs: a local counter follows the chain without asking it,    *)
(* nothing is deployed twice, and on a chain without faults no run fails.  *)
(* None is inductive: the invariant names the run a pending transaction    *)
(* comes from, and how far a run has come with what has succeeded for it.  *)
(***************************************************************************)
EXTENDS DeployerProofs

(* The run a transaction in the mempool comes from.                        *)
OwnedBy(tx, r) ==
    /\ tx.acct = Signer[r] /\ tx = sent[r]
    /\ pc[r] \in Waiting \cup Ended

(* The counter of a run is where the chain is, or one behind while its     *)
(* transaction is committed and the next one not signed.                   *)
Synchronous(r) ==
    LET next == accSeq[Signer[r]] IN
    /\ pc[r] = "ready" /\ isFirstDeploy[r] => sequence[r] = next
    /\ pc[r] = "ready" /\ ~isFirstDeploy[r] => sequence[r] + 1 = next
    /\ pc[r] = "stored" => sequence[r] + 1 = next
    /\ pc[r] \in Waiting => next <= sequence[r] + 1

(* What two messages of a plan never have both in common.                  *)
SameWork(t, u) ==
    /\ t.acct = u.acct
    /\ t.msg.kind = u.msg.kind /\ t.msg.name = u.msg.name

(* A run that is not at its end has succeeded with messages of earlier     *)
(* entries only, and with those of the entry in work it has been through.  *)
Behind(tx, r) ==
    pc[r] \notin Ended =>
        \E i \in DOMAIN Plan :
            /\ Plan[i].name = tx.msg.name
            /\ \/ i < step[r] /\ pc[r] # "init"
               \/ /\ i = step[r]
                  /\ \/ pc[r] \in Waiting /\ tx = sent[r]
                     \/ /\ pc[r] \in {"stored", "waitInstantiate"}
                        /\ tx.msg.kind = "store"

Successes == {res \in results : res.code = 0}

EInv ==
    /\ \A tx \in mempool :
         /\ tx.seq = accSeq[tx.acct]
         /\ \E r \in Runs : OwnedBy(tx, r)
         /\ \A p \in Successes : ~SameWork(p.tx, tx)
    /\ \A r \in Runs : Synchronous(r)
    /\ \A r \in Runs, p \in Successes : p.tx.acct = Signer[r] => Behind(p.tx, r)
    /\ \A p, q \in Successes : SameWork(p.tx, q.tx) => p = q

-----------------------------------------------------------------------------
(* The steps of the chain.                                                 *)

(* A pending transaction is the only one of its account.                   *)
LEMMA OnePending ==
    ASSUME Exclusive, EInv, NEW t \in mempool, NEW u \in mempool,
           t.acct = u.acct
    PROVE  t = u
<1>1. PICK q \in Runs : OwnedBy(t, q)
  BY DEF EInv
<1>2. PICK r \in Runs : OwnedBy(u, r)
  BY DEF EInv
<1> QED
  BY <1>1, <1>2 DEF OwnedBy, Exclusive

(* A block that includes a transaction, whatever becomes of it.            *)
LEMMA DeliverEInv ==
    ASSUME Exclusive, IInv, EInv, NEW tx \in mempool, Deliver(tx),
           UNCHANGED <<pc, localVars>>
    PROVE  EInv'
<1>1. /\ tx.seq = accSeq[tx.acct]
      /\ accSeq' = [accSeq EXCEPT ![tx.acct] = @ + 1]
      /\ mempool' = mempool \ {tx}
  BY DEF Deliver
<1>2. PICK new : new.tx = tx /\ results' = results \cup {new}
  BY DEF Deliver, Store, Instantiate, ExecFail
<1>3. PICK r \in Runs : OwnedBy(tx, r)
  BY DEF EInv
<1>4. /\ accSeq \in [Accounts -> Nat] /\ tx.acct \in Accounts
      /\ \A q \in Runs : Signer[q] \in Accounts
      /\ \A t \in mempool : t.acct \in Accounts
  BY SignerAssumption DEF IInv, TypeOK, ChainTypeOK, Txs
<1>5. \A q \in Runs : Signer[q] = tx.acct => q = r
  BY <1>3 DEF OwnedBy, Exclusive
<1>6. Successes' \subseteq Successes \cup {new}
  BY <1>2 DEF Successes
<1>7. ASSUME NEW t \in mempool'
      PROVE  /\ t.seq = accSeq'[t.acct]
             /\ \E q \in Runs : OwnedBy(t, q)'
             /\ \A p \in Successes' : ~SameWork(p.tx, t)
  <2>1. t \in mempool /\ t # tx
    BY <1>1
  <2>2. t.acct # tx.acct
    BY <2>1, OnePending
  <2>3. t.seq = accSeq'[t.acct]
    BY <1>1, <1>4, <2>1, <2>2 DEF EInv
  <2>4. \E q \in Runs : OwnedBy(t, q)'
    BY <2>1 DEF EInv, OwnedBy, localVars
  <2> QED
    BY <1>2, <1>6, <2>1, <2>2, <2>3, <2>4 DEF EInv, SameWork
<1>8. ASSUME NEW q \in Runs PROVE Synchronous(q)'
  <2>1. CASE Signer[q] # tx.acct
    <3>1. accSeq'[Signer[q]] = accSeq[Signer[q]]
      BY <1>1, <1>4, <2>1
    <3> QED
      BY <3>1 DEF EInv, Synchronous, localVars
  <2>2. CASE Signer[q] = tx.acct
    <3>1. OwnedBy(tx, q)
      BY <1>3, <1>5, <2>2
    <3>2. pc[q] \in Waiting => sequence[q] = tx.seq
      BY <3>1 DEF OwnedBy, IInv, CounterOK
    <3>3. accSeq'[Signer[q]] = tx.seq + 1 /\ tx.seq \in Nat
      BY <1>1, <1>4, <2>2
    <3> QED
      BY <3>1, <3>2, <3>3 DEF OwnedBy, Synchronous, Waiting, Ended, localVars
  <2> QED
    BY <2>1, <2>2
<1>9. ASSUME NEW q \in Runs, NEW p \in Successes', p.tx.acct = Signer[q]
      PROVE  Behind(p.tx, q)'
  <2>1. Behind(p.tx, q) => Behind(p.tx, q)'
    BY DEF Behind, localVars
  <2>2. CASE p \in Successes
    BY <1>9, <2>1, <2>2 DEF EInv
  <2>3. CASE p = new
    <3>1. OwnedBy(tx, q)
      BY <1>2, <1>3, <1>5, <1>9, <2>3
    <3>2. CASE pc[q] \in Waiting
      <4>1. step[q] \in DOMAIN Plan
        BY <3>2 DEF IInv, PlanOK
      <4>2. sent[q].msg \in {StoreMsg(q), InstantiateMsg(q)}
        BY <3>2 DEF IInv, PlanOK, Waiting
      <4>3. tx.msg.name = Plan[step[q]].name
        BY <3>1, <4>2 DEF OwnedBy, StoreMsg, InstantiateMsg, Entry
      <4> QED
        BY <1>2, <2>1, <2>3, <3>1, <3>2, <4>1, <4>3 DEF OwnedBy, Behind
    <3>3. CASE pc[q] \in Ended
      BY <3>3 DEF Behind
    <3> QED
      BY <3>1, <3>2, <3>3 DEF OwnedBy
  <2> QED
    BY <1>6, <2>2, <2>3
<1>10. ASSUME NEW p \in Successes', NEW q \in Successes', SameWork(p.tx, q.tx)
       PROVE  p = q
  <2>1. ASSUME NEW s \in Successes
        PROVE  ~SameWork(s.tx, tx) /\ ~SameWork(tx, s.tx)
    BY DEF EInv, SameWork
  <2> QED
    BY <1>2, <1>6, <1>10, <2>1 DEF EInv
<1> QED
  BY <1>7, <1>8, <1>9, <1>10 DEF EInv

(* A transaction that is refused or lost leaves the account where it is.   *)
LEMMA LostEInv ==
    ASSUME EInv, NEW tx \in mempool, Refuse(tx) \/ Drop(tx),
           UNCHANGED <<pc, localVars>>
    PROVE  EInv'
<1>1. /\ mempool' \subseteq mempool /\ UNCHANGED accSeq
      /\ \A res \in results' : res \in results \/ res.code = 1
  BY DEF Refuse, Drop
<1>2. Successes' \subseteq Successes
  BY <1>1 DEF Successes
<1>3. ASSUME NEW t \in mempool'
      PROVE  /\ t.seq = accSeq'[t.acct]
             /\ \E q \in Runs : OwnedBy(t, q)'
             /\ \A p \in Successes' : ~SameWork(p.tx, t)
  BY <1>1, <1>2 DEF EInv, OwnedBy, localVars
<1>4. \A q \in Runs : Synchronous(q)'
  BY <1>1 DEF EInv, Synchronous, localVars
<1>5. \A q \in Runs, p \in Successes' :
        p.tx.acct = Signer[q] => Behind(p.tx, q)'
  BY <1>2 DEF EInv, Behind, localVars
<1> QED
  BY <1>2, <1>3, <1>4, <1>5 DEF EInv

-----------------------------------------------------------------------------
(* The steps of the runs.                                                  *)

(* A step of one run owes the invariant for that run, and for what it adds *)
(* to the mempool.                                                         *)
LEMMA OneRunEInv ==
    ASSUME EInv, NEW r \in Runs, UNCHANGED <<results, accSeq>>, OthersIdle(r),
           Synchronous(r)',
           \A p \in Successes : p.tx.acct = Signer[r] => Behind(p.tx, r)',
           \A t \in mempool : OwnedBy(t, r) => OwnedBy(t, r)',
           \A t \in mempool' \ mempool :
              /\ t.seq = accSeq[t.acct]
              /\ OwnedBy(t, r)'
              /\ \A p \in Successes : ~SameWork(p.tx, t)
    PROVE  EInv'
<1>1. Successes' = Successes
  BY DEF Successes
<1>2. ASSUME NEW q \in Runs, q # r
      PROVE  /\ Synchronous(q) => Synchronous(q)'
             /\ \A t : OwnedBy(t, q) => OwnedBy(t, q)'
             /\ \A t : Behind(t, q) => Behind(t, q)'
  <2>1. /\ pc'[q] = pc[q] /\ step'[q] = step[q] /\ sent'[q] = sent[q]
        /\ sequence'[q] = sequence[q] /\ isFirstDeploy'[q] = isFirstDeploy[q]
    BY <1>2 DEF OthersIdle
  <2> QED
    BY <2>1 DEF Synchronous, OwnedBy, Behind
<1>3. ASSUME NEW t \in mempool'
      PROVE  /\ t.seq = accSeq'[t.acct]
             /\ \E q \in Runs : OwnedBy(t, q)'
             /\ \A p \in Successes' : ~SameWork(p.tx, t)
  <2>1. CASE t \in mempool
    <3>1. PICK q \in Runs : OwnedBy(t, q)
      BY <2>1 DEF EInv
    <3>2. OwnedBy(t, q)'
      BY <1>2, <2>1, <3>1
    <3> QED
      BY <1>1, <2>1, <3>2 DEF EInv
  <2>2. CASE t \notin mempool
    BY <1>1, <2>2
  <2> QED
    BY <2>1, <2>2
<1>4. \A q \in Runs : Synchronous(q)'
  BY <1>2 DEF EInv
<1>5. \A q \in Runs, p \in Successes' :
        p.tx.acct = Signer[q] => Behind(p.tx, q)'
  BY <1>1, <1>2 DEF EInv
<1>6. \A p, q \in Successes' : SameWork(p.tx, q.tx) => p = q
  BY <1>1 DEF EInv
<1> QED
  BY <1>3, <1>4, <1>5, <1>6 DEF EInv

(* A broadcast: the message is new to the chain, and its sequence is the   *)
(* one the chain expects.                                                  *)
LEMMA BroadcastEInv ==
    ASSUME IInv, EInv, NEW r \in Runs, NEW label \in Waiting,
           NEW msg \in {StoreMsg(r), InstantiateMsg(r)},
           \/ pc[r] = "ready" /\ msg = StoreMsg(r) /\ label = "waitStore"
           \/ /\ pc[r] = "stored" /\ msg = InstantiateMsg(r)
              /\ label = "waitInstantiate",
           step[r] \in DOMAIN Plan,
           SignAndBroadcast(r, accSeq[Signer[r]], msg, label),
           isFirstDeploy' = [isFirstDeploy EXCEPT ![r] = FALSE]
    PROVE  EInv'
<1> DEFINE seq == accSeq[Signer[r]]
<1>0. PICK tx : tx = [acct |-> Signer[r], seq |-> seq, msg |-> msg]
  OBVIOUS
<1>1. seq \in Nat /\ msg \in Msgs
  BY SignerAssumption, MessagesTyped DEF IInv, TypeOK, ChainTypeOK
<1>2. /\ OthersIdle(r) /\ UNCHANGED <<results, accSeq>>
      /\ pc'[r] \in {label, "fatal"}
  <2>1. seq <= accSeq[Signer[r]]
    BY <1>1
  <2> HIDE DEF seq
  <2> QED
    BY <1>1, <2>1, BroadcastStep DEF seq
<1>3. /\ sequence'[r] = seq /\ sent'[r] = tx /\ step' = step
      /\ mempool' \subseteq mempool \cup {tx}
  BY <1>0 DEF SignAndBroadcast, Broadcast, IInv, TypeOK
<1>4. Synchronous(r)'
  <2>1. pc'[r] \in Waiting \cup Ended
    BY <1>2 DEF Ended
  <2> QED
    BY <1>1, <1>2, <1>3, <2>1 DEF Synchronous, Waiting, Ended
<1>5. ASSUME NEW p \in Successes, p.tx.acct = Signer[r]
      PROVE  Behind(p.tx, r)' /\ ~SameWork(p.tx, tx)
  <2>1. pc[r] \notin Ended /\ pc[r] \notin Waiting
    BY DEF Ended, Waiting
  <2>2. PICK i \in DOMAIN Plan :
          /\ Plan[i].name = p.tx.msg.name
          /\ \/ i < step[r]
             \/ i = step[r] /\ pc[r] = "stored" /\ p.tx.msg.kind = "store"
    BY <1>5, <2>1 DEF EInv, Behind, Waiting
  <2>3. Behind(p.tx, r)'
    <3>1. CASE pc'[r] = "fatal"
      BY <3>1 DEF Behind, Ended
    <3>2. CASE pc'[r] = label
      BY <1>3, <2>2, <3>2 DEF Behind, Waiting
    <3> QED
      BY <1>2, <3>1, <3>2
  <2>4. msg.name = Plan[step[r]].name
    BY DEF StoreMsg, InstantiateMsg, Entry
  <2>5. SameWork(p.tx, tx) => i = step[r]
    BY <1>0, <2>2, <2>4, PlanAssumption DEF SameWork
  <2>6. i \in Nat /\ step[r] \in Nat
    BY PlanTyped
  <2>7. pc[r] = "stored" => msg.kind = "instantiate"
    BY DEF InstantiateMsg
  <2> QED
    BY <1>0, <2>2, <2>3, <2>5, <2>6, <2>7 DEF SameWork
<1>6. \A p \in Successes : ~SameWork(p.tx, tx)
  BY <1>0, <1>5 DEF SameWork
<1>7. \A t \in mempool : ~OwnedBy(t, r)
  BY DEF OwnedBy, Waiting, Ended
<1>8. OwnedBy(tx, r)'
  BY <1>0, <1>2, <1>3 DEF OwnedBy, Ended
<1>9. \A t \in mempool' \ mempool : t = tx
  BY <1>3
<1>10. tx.seq = accSeq[tx.acct]
  BY <1>0
<1> QED
  BY <1>2, <1>4, <1>5, <1>6, <1>7, <1>8, <1>9, <1>10, OneRunEInv

(* A step that ends a run, or only waits.                                  *)
LEMMA EndEInv ==
    ASSUME IInv, EInv, NEW r \in Runs, UNCHANGED <<results, accSeq, mempool>>,
           OthersIdle(r), step'[r] = step[r], sent'[r] = sent[r],
           \/ pc'[r] \in Ended
           \/ /\ pc'[r] = pc[r] /\ sequence'[r] = sequence[r]
              /\ isFirstDeploy'[r] = isFirstDeploy[r]
    PROVE  EInv'
<1>1. Synchronous(r)'
  BY DEF EInv, Synchronous, Ended, Waiting
<1>2. \A p \in Successes : p.tx.acct = Signer[r] => Behind(p.tx, r)'
  BY DEF EInv, Behind
<1>3. \A t \in mempool : OwnedBy(t, r) => OwnedBy(t, r)'
  BY DEF OwnedBy
<1> QED
  BY <1>1, <1>2, <1>3, OneRunEInv

(* A run goes on after a success: the chain has accepted one transaction   *)
(* more than its counter says, and none of its transactions is pending.    *)
LEMMA AfterSuccess ==
    ASSUME IInv, EInv, NEW r \in Runs, pc[r] \in Waiting,
           Succeeded(sent[r])
    PROVE  /\ sequence[r] + 1 = accSeq[Signer[r]]
           /\ ~isFirstDeploy[r]
           /\ \A t \in mempool : ~OwnedBy(t, r)
<1>1. PICK res \in results : res.tx = sent[r] /\ res.code = 0
  BY DEF Succeeded
<1>2. /\ sent[r].acct = Signer[r] /\ sent[r].seq = sequence[r]
      /\ ~isFirstDeploy[r]
  BY DEF IInv, CounterOK
<1>3. sequence[r] < accSeq[Signer[r]]
  BY <1>1, <1>2 DEF IInv, Spent
<1>4. accSeq[Signer[r]] <= sequence[r] + 1
  BY DEF EInv, Synchronous
<1>5. sequence[r] \in Nat /\ accSeq[Signer[r]] \in Nat
  BY SignerAssumption DEF IInv, TypeOK, ChainTypeOK
<1>6. \A t \in mempool : ~OwnedBy(t, r)
  BY <1>1 DEF EInv, OwnedBy, Successes, SameWork
<1> QED
  BY <1>2, <1>3, <1>4, <1>5, <1>6

(* WaitTx returned the result of a stored code that is instantiated next.  *)
LEMMA StoredEInv ==
    ASSUME IInv, EInv, NEW r \in Runs, pc[r] = "waitStore",
           Succeeded(sent[r]), pc'[r] = "stored", step'[r] = step[r],
           sent'[r] = sent[r], sequence'[r] = sequence[r],
           isFirstDeploy'[r] = isFirstDeploy[r],
           UNCHANGED <<results, accSeq, mempool>>, OthersIdle(r)
    PROVE  EInv'
<1>1. /\ sequence[r] + 1 = accSeq[Signer[r]] /\ ~isFirstDeploy[r]
      /\ \A t \in mempool : ~OwnedBy(t, r)
  BY AfterSuccess DEF Waiting
<1>2. Synchronous(r)'
  BY <1>1 DEF Synchronous, Waiting
<1>3. sent[r].msg.kind = "store"
  <2>1. sent[r].msg = StoreMsg(r)
    BY DEF IInv, PlanOK
  <2> QED
    BY <2>1 DEF StoreMsg
<1>4. ASSUME NEW p \in Successes, p.tx.acct = Signer[r]
      PROVE  Behind(p.tx, r)'
  <2>1. Behind(p.tx, r)
    BY <1>4 DEF EInv
  <2> QED
    BY <1>3, <2>1 DEF Behind, Ended, Waiting
<1> QED
  BY <1>1, <1>2, <1>4, OneRunEInv

(* WaitTx returned the last result of a plan entry.                        *)
LEMMA EntryDoneEInv ==
    ASSUME IInv, EInv, NEW r \in Runs, pc[r] \in Waiting,
           Succeeded(sent[r]), pc'[r] = "ready", step'[r] = step[r] + 1,
           sent'[r] = sent[r], sequence'[r] = sequence[r],
           isFirstDeploy'[r] = isFirstDeploy[r],
           UNCHANGED <<results, accSeq, mempool>>, OthersIdle(r)
    PROVE  EInv'
<1>1. /\ sequence[r] + 1 = accSeq[Signer[r]] /\ ~isFirstDeploy[r]
      /\ \A t \in mempool : ~OwnedBy(t, r)
  BY AfterSuccess
<1>2. Synchronous(r)'
  BY <1>1 DEF Synchronous, Waiting
<1>3. ASSUME NEW p \in Successes, p.tx.acct = Signer[r]
      PROVE  Behind(p.tx, r)'
  <2>1. Behind(p.tx, r) /\ pc[r] \notin Ended
    BY <1>3 DEF EInv, Waiting, Ended
  <2>2. PICK i \in DOMAIN Plan :
          Plan[i].name = p.tx.msg.name /\ (i < step[r] \/ i = step[r])
    BY <2>1 DEF Behind
  <2>3. i \in Nat /\ step[r] \in Nat
    BY PlanTyped DEF IInv, TypeOK
  <2>4. i < step'[r]
    BY <2>2, <2>3
  <2> QED
    BY <2>2, <2>4 DEF Behind
<1> QED
  BY <1>1, <1>2, <1>3, OneRunEInv

LEMMA RunStepEInv ==
    ASSUME IInv, EInv, NEW r \in Runs, RunStep(r) \/ Kill(r) PROVE EInv'
<1> DEFINE Only(label) == pc' = [pc EXCEPT ![r] = label]
<1>1. CASE UpdateAccountSequence(r)
  <2>1. /\ pc[r] = "init" /\ UNCHANGED <<results, accSeq, mempool>>
        /\ UNCHANGED <<step, isFirstDeploy, sent>>
        /\ \/ /\ sequence' = [sequence EXCEPT ![r] = accSeq[Signer[r]]]
              /\ Only("ready")
           \/ Only("fatal")
    BY <1>1 DEF UpdateAccountSequence, Goto, chainVars
  <2>2. OthersIdle(r)
    BY <1>1 DEF UpdateAccountSequence, Goto, OthersIdle, IInv, TypeOK
  <2>3. CASE Only("fatal")
    BY <2>1, <2>2, <2>3, EndEInv DEF IInv, TypeOK, Ended
  <2>4. CASE /\ sequence' = [sequence EXCEPT ![r] = accSeq[Signer[r]]]
             /\ Only("ready")
    <3>1. pc'[r] = "ready" /\ sequence'[r] = accSeq[Signer[r]]
      BY <2>4 DEF IInv, TypeOK
    <3>2. isFirstDeploy[r]
      BY <2>1 DEF IInv, CounterOK
    <3>3. Synchronous(r)'
      BY <2>1, <3>1, <3>2 DEF Synchronous, Waiting
    <3>4. \A p \in Successes : p.tx.acct # Signer[r]
      BY <2>1 DEF EInv, Behind, Waiting, Ended
    <3>5. \A t \in mempool : ~OwnedBy(t, r)
      BY <2>1 DEF OwnedBy, Waiting, Ended
    <3> QED
      BY <2>1, <2>2, <3>3, <3>4, <3>5, OneRunEInv
  <2> QED
    BY <2>1, <2>3, <2>4
<1>2. CASE Upload(r)
  <2>1. /\ pc[r] = "ready" /\ step[r] \in DOMAIN Plan
        /\ Entry(r).op = "Upload"
        /\ SignAndBroadcast(r, sequence[r] + 1, StoreMsg(r), "waitStore")
        /\ UNCHANGED isFirstDeploy
    BY <1>2 DEF Upload, ClientIncreaseSequence
  <2>2. isFirstDeploy[r] = FALSE
    BY <2>1, PlanStartAssumption DEF IInv, CounterOK, Entry, TypeOK
  <2>3. sequence[r] + 1 = accSeq[Signer[r]]
    BY <2>1, <2>2 DEF EInv, Synchronous
  <2>4. isFirstDeploy' = [isFirstDeploy EXCEPT ![r] = FALSE]
    BY <2>1, <2>2 DEF IInv, TypeOK
  <2> QED
    BY <2>1, <2>3, <2>4, BroadcastEInv DEF Waiting
<1>3. CASE UploadAndInstantiate(r)
  <2>1. /\ pc[r] = "ready" /\ step[r] \in DOMAIN Plan
        /\ SignAndBroadcast(r, IncreaseSequence(r), StoreMsg(r), "waitStore")
        /\ isFirstDeploy' = [isFirstDeploy EXCEPT ![r] = FALSE]
    BY <1>3 DEF UploadAndInstantiate
  <2>2. IncreaseSequence(r) = accSeq[Signer[r]]
    BY <2>1 DEF EInv, Synchronous, IncreaseSequence
  <2> QED
    BY <2>1, <2>2, BroadcastEInv DEF Waiting
<1>4. CASE InstantiateContract(r)
  <2>1. /\ pc[r] = "stored"
        /\ SignAndBroadcast(r, IncreaseSequence(r), InstantiateMsg(r),
                            "waitInstantiate")
        /\ isFirstDeploy' = [isFirstDeploy EXCEPT ![r] = FALSE]
    BY <1>4 DEF InstantiateContract
  <2>2. ~isFirstDeploy[r] /\ step[r] \in DOMAIN Plan
    BY <2>1 DEF IInv, CounterOK, PlanOK
  <2>3. IncreaseSequence(r) = accSeq[Signer[r]]
    BY <2>1, <2>2 DEF EInv, Synchronous, IncreaseSequence
  <2> QED
    BY <2>1, <2>2, <2>3, BroadcastEInv DEF Waiting
<1>5. CASE WaitTxMiss(r)
  <2>1. /\ UNCHANGED <<results, accSeq, mempool, step, sequence,
                       isFirstDeploy, sent>>
        /\ UNCHANGED pc \/ Only("fatal")
    BY <1>5 DEF WaitTxMiss, GiveUp, Goto, chainVars
  <2>2. OthersIdle(r)
    BY <1>5, <2>1 DEF WaitTxMiss, OthersIdle, IInv, TypeOK
  <2> QED
    BY <2>1, <2>2, EndEInv DEF IInv, TypeOK, Ended
<1>6. CASE WaitTxFailed(r) \/ AllDeployed(r) \/ Kill(r)
  <2>1. /\ UNCHANGED <<results, accSeq, mempool>> /\ UNCHANGED localVars
        /\ \E label \in Ended : Only(label)
    BY <1>6 DEF WaitTxFailed, AllDeployed, Kill, Goto, Ended, chainVars
  <2>2. OthersIdle(r) /\ step'[r] = step[r] /\ sent'[r] = sent[r]
    BY <2>1 DEF OthersIdle, IInv, TypeOK, localVars
  <2>3. pc'[r] \in Ended
    BY <2>1 DEF IInv, TypeOK
  <2> QED
    BY <2>1, <2>2, <2>3, EndEInv
<1>7. CASE StoreDone(r)
  <2>1. /\ pc[r] = "waitStore" /\ UNCHANGED <<results, accSeq, mempool>>
        /\ UNCHANGED <<sequence, isFirstDeploy, sent, polls>>
        /\ Succeeded(sent[r])
    BY <1>7 DEF StoreDone, chainVars, Succeeded
  <2>2. \/ Only("fatal") /\ UNCHANGED <<step, codeID, deployed>>
        \/ /\ Only("ready") /\ step' = [step EXCEPT ![r] = @ + 1]
           /\ \E d : deployed' = [deployed EXCEPT ![r][Entry(r).name] = d]
           /\ UNCHANGED codeID
        \/ /\ Only("stored") /\ UNCHANGED <<step, deployed>>
           /\ \E c : codeID' = [codeID EXCEPT ![r] = c]
    BY <1>7 DEF StoreDone, Goto
  <2>3. OthersIdle(r)
    BY <2>1, <2>2 DEF OthersIdle, IInv, TypeOK
  <2>4. CASE Only("fatal") /\ UNCHANGED step
    BY <2>1, <2>3, <2>4, EndEInv DEF IInv, TypeOK, Ended
  <2>5. CASE Only("ready") /\ step' = [step EXCEPT ![r] = @ + 1]
    <3>1. pc'[r] = "ready" /\ step'[r] = step[r] + 1
      BY <2>5 DEF IInv, TypeOK
    <3> QED
      BY <2>1, <2>3, <3>1, EntryDoneEInv DEF Waiting
  <2>6. CASE Only("stored") /\ UNCHANGED step
    <3>1. pc'[r] = "stored"
      BY <2>6 DEF IInv, TypeOK
    <3> QED
      BY <2>1, <2>3, <2>6, <3>1, StoredEInv
  <2> QED
    BY <2>2, <2>4, <2>5, <2>6
<1>8. CASE InstantiateDone(r)
  <2>1. /\ pc[r] \in Waiting /\ UNCHANGED <<results, accSeq, mempool>>
        /\ UNCHANGED <<sequence, isFirstDeploy, sent, polls, codeID>>
        /\ Succeeded(sent[r])
    BY <1>8 DEF InstantiateDone, chainVars, Succeeded, Waiting
  <2>2. \/ Only("fatal") /\ UNCHANGED <<step, deployed>>
        \/ /\ Only("ready") /\ step' = [step EXCEPT ![r] = @ + 1]
           /\ \E d : deployed' = [deployed EXCEPT ![r][Entry(r).name] = d]
    BY <1>8 DEF InstantiateDone, Goto
  <2>3. OthersIdle(r)
    BY <2>1, <2>2 DEF OthersIdle, IInv, TypeOK
  <2>4. CASE Only("fatal") /\ UNCHANGED step
    BY <2>1, <2>3, <2>4, EndEInv DEF IInv, TypeOK, Ended
  <2>5. CASE Only("ready") /\ step' = [step EXCEPT ![r] = @ + 1]
    <3>1. pc'[r] = "ready" /\ step'[r] = step[r] + 1
      BY <2>5 DEF IInv, TypeOK
    <3> QED
      BY <2>1, <2>3, <3>1, EntryDoneEInv
  <2> QED
    BY <2>2, <2>4, <2>5
<1> QED
  BY <1>1, <1>2, <1>3, <1>4, <1>5, <1>6, <1>7, <1>8 DEF RunStep

LEMMA ExclusiveInvariant ==
    ASSUME Exclusive
    PROVE  Spec => []EInv
<1>1. Init => EInv
  <2> SUFFICES ASSUME Init PROVE EInv
    OBVIOUS
  <2>1. Successes = {} /\ mempool = {}
    BY DEF Init, ChainInit, Successes
  <2>2. \A r \in Runs : Synchronous(r)
    BY DEF Init, Synchronous, Waiting
  <2> QED
    BY <2>1, <2>2 DEF EInv
<1>2. IInv /\ EInv /\ [Next]_vars => EInv'
  <2> SUFFICES ASSUME IInv, EInv, [Next]_vars PROVE EInv'
    OBVIOUS
  <2>1. CASE ChainStep
    BY <2>1, DeliverEInv, LostEInv DEF ChainStep, ChainNext
  <2>2. CASE UNCHANGED vars
    BY <2>2 DEF vars, chainVars, localVars, EInv, OwnedBy, Synchronous,
                Behind, Successes
  <2> QED
    BY <2>1, <2>2, RunStepEInv DEF Next, Terminated
<1> QED
  BY <1>1, <1>2, Invariant, PTL DEF Spec

(* Runs that share no account sign exactly for the sequence the chain      *)
(* expects, although they ask for it once and count on their own.          *)
THEOREM CounterFollowsChain == Spec => []CurrentSequence
<1>1. CASE Exclusive
  <2>1. EInv => CurrentSequence
    BY DEF EInv, CurrentSequence
  <2> QED
    BY <1>1, <2>1, ExclusiveInvariant, PTL
<1>2. CASE ~Exclusive
  <2>1. CurrentSequence
    BY <1>2 DEF CurrentSequence
  <2> QED
    BY <2>1, PTL
<1> QED
  BY <1>1, <1>2

(* Runs that share no account have no message executed twice: not the      *)
(* stored code of a contract, and not its instance.                        *)
THEOREM NothingTwice == Spec => []AtMostOnce
<1>1. CASE Exclusive
  <2>1. EInv => AtMostOnce
    BY DEF EInv, AtMostOnce, Successes, SameWork
  <2> QED
    BY <1>1, <2>1, ExclusiveInvariant, PTL
<1>2. CASE ~Exclusive
  <2>1. AtMostOnce
    BY <1>2 DEF AtMostOnce
  <2> QED
    BY <2>1, PTL
<1> QED
  BY <1>1, <1>2

-----------------------------------------------------------------------------
(* Runs that share no account, on a chain without faults.                  *)

(* The chain has executed what it has included, the code ids in use are    *)
(* ids of stored codes, and what a run waits for is not lost.              *)
CodeIds == 1 .. codes
FInv ==
    /\ \A res \in results : res.code = 0 /\ res.made.code \in CodeIds
    /\ \A tx \in mempool :
         tx.msg.kind = "instantiate" => tx.msg.code \in CodeIds
    /\ \A r \in Runs :
         /\ pc[r] \notin {"fatal", "killed"}
         /\ pc[r] = "stored" => codeID[r] \in CodeIds
         /\ pc[r] \in Waiting => sent[r] \in mempool \cup Committed

(* Every pending transaction is executed when its turn comes, and its turn *)
(* is now.                                                                 *)
LEMMA ChainFInv ==
    ASSUME Faults = {}, IInv, EInv, FInv, ChainStep PROVE FInv'
<1>1. PICK tx \in mempool : Deliver(tx) \/ Refuse(tx) \/ Drop(tx)
  BY DEF ChainStep, ChainNext
<1>2. UNCHANGED <<pc, localVars>>
  BY DEF ChainStep
<1>3. tx.seq = accSeq[tx.acct]
  BY DEF EInv
<1>4. Deliver(tx)
  BY <1>1, <1>3 DEF Refuse, Drop
<1>5. ~ExecFail(tx)
  BY DEF ExecFail, FInv, CodeIds
<1>6. codes \in Nat
  BY DEF IInv, TypeOK, ChainTypeOK
<1>7. /\ mempool' = mempool \ {tx}
      /\ codes' \in Nat /\ codes <= codes'
      /\ \E res : /\ results' = results \cup {res}
                  /\ res.tx = tx /\ res.code = 0
                  /\ res.made.code \in 1 .. codes'
  <2>0. mempool' = mempool \ {tx}
    BY <1>4 DEF Deliver
  <2>1. CASE Store(tx)
    <3>1. codes' = codes + 1 /\ codes + 1 \in 1 .. codes'
      BY <1>6, <2>1 DEF Store
    <3> DEFINE new == [tx |-> tx, code |-> 0,
                       made |-> [code |-> codes + 1, addr |-> 0],
                       events |-> StoreEvents]
    <3>2. results' = results \cup {new}
      BY <2>1 DEF Store
    <3>3. new.tx = tx /\ new.code = 0 /\ new.made.code \in 1 .. codes'
      BY <3>1
    <3> HIDE DEF new
    <3> QED
      BY <1>6, <2>0, <3>1, <3>2, <3>3
  <2>2. CASE Instantiate(tx)
    <3>1. codes' = codes /\ tx.msg.code \in 1 .. codes'
      BY <2>2 DEF Instantiate
    <3>2. PICK nested \in 0 .. MaxNested :
            results' = results \cup
              {[tx |-> tx, code |-> 0,
                made |-> [code |-> tx.msg.code, addr |-> instances + 1],
                events |-> InstantiateEvents(tx.msg.code, nested)]}
      BY <2>2 DEF Instantiate
    <3> DEFINE evs == InstantiateEvents(tx.msg.code, nested)
               new == [tx |-> tx, code |-> 0,
                       made |-> [code |-> tx.msg.code, addr |-> instances + 1],
                       events |-> evs]
    <3>3. results' = results \cup {new}
      BY <3>2
    <3>4. new.tx = tx /\ new.code = 0 /\ new.made.code \in 1 .. codes'
      BY <3>1
    <3> HIDE DEF new
    <3> QED
      BY <1>6, <2>0, <3>1, <3>3, <3>4
  <2> QED
    BY <1>4, <1>5, <2>1, <2>2 DEF Deliver
<1>8. CodeIds \subseteq CodeIds'
  BY <1>6, <1>7 DEF CodeIds
<1>9. \A res \in results' : res.code = 0 /\ res.made.code \in CodeIds'
  <2>1. \A res \in results : res.code = 0 /\ res.made.code \in CodeIds
    BY DEF FInv
  <2> QED
    BY <1>7, <1>8, <2>1 DEF CodeIds
<1>10. mempool \cup Committed \subseteq (mempool \cup Committed)'
  BY <1>7 DEF Committed
<1>11. ASSUME NEW r \in Runs
       PROVE  /\ pc'[r] \notin {"fatal", "killed"}
              /\ pc'[r] = "stored" => codeID'[r] \in CodeIds'
              /\ pc'[r] \in Waiting => sent'[r] \in (mempool \cup Committed)'
  BY <1>2, <1>8, <1>10 DEF FInv, localVars
<1>12. \A t \in mempool' : t.msg.kind = "instantiate" => t.msg.code \in CodeIds'
  BY <1>7, <1>8 DEF FInv
<1> QED
  BY <1>9, <1>11, <1>12 DEF FInv

(* A step of one run owes the invariant for that run, and for what it adds *)
(* to the mempool.                                                         *)
LEMMA OneRunFInv ==
    ASSUME FInv, NEW r \in Runs, UNCHANGED <<results, codes>>, OthersIdle(r),
           mempool \subseteq mempool',
           \A t \in mempool' \ mempool :
              t.msg.kind = "instantiate" => t.msg.code \in CodeIds,
           pc'[r] \notin {"fatal", "killed"},
           pc'[r] = "stored" => codeID'[r] \in CodeIds,
           pc'[r] \in Waiting => sent'[r] \in mempool' \cup Committed
    PROVE  FInv'
<1>1. CodeIds' = CodeIds /\ Committed' = Committed
  BY DEF CodeIds, Committed
<1>2. ASSUME NEW q \in Runs
      PROVE  /\ pc'[q] \notin {"fatal", "killed"}
             /\ pc'[q] = "stored" => codeID'[q] \in CodeIds'
             /\ pc'[q] \in Waiting => sent'[q] \in mempool' \cup Committed'
  <2>1. CASE q = r
    BY <1>1, <2>1
  <2>2. CASE q # r
    BY <1>1, <2>2 DEF FInv, OthersIdle
  <2> QED
    BY <2>1, <2>2
<1>3. \A t \in mempool' : t.msg.kind = "instantiate" => t.msg.code \in CodeIds'
  BY <1>1 DEF FInv
<1> QED
  BY <1>1, <1>2, <1>3 DEF FInv

(* What a run broadcasts is pending, unless the chain has it already.      *)
LEMMA BroadcastFInv ==
    ASSUME Faults = {}, TypeOK, FInv, NEW r \in Runs, OthersIdle(r),
           NEW seq, NEW msg, NEW label \in Waiting,
           msg.kind = "instantiate" => msg.code \in CodeIds,
           SignAndBroadcast(r, seq, msg, label)
    PROVE  FInv'
<1>1. PICK tx : tx = [acct |-> Signer[r], seq |-> seq, msg |-> msg]
  OBVIOUS
<1>2. /\ mempool' = mempool \cup ({tx} \ Committed)
      /\ pc' = [pc EXCEPT ![r] = label]
      /\ sent' = [sent EXCEPT ![r] = tx]
      /\ UNCHANGED <<results, codes>>
  BY <1>1 DEF SignAndBroadcast, Broadcast, Goto
<1>3. pc'[r] = label /\ sent'[r] = tx
  BY <1>2 DEF TypeOK
<1>4. tx.msg.kind = "instantiate" => tx.msg.code \in CodeIds
  BY <1>1
<1> QED
  BY <1>2, <1>3, <1>4, OneRunFInv DEF Waiting

LEMMA StoreFInv ==
    ASSUME Faults = {}, TypeOK, FInv, NEW r \in Runs, OthersIdle(r), NEW seq,
           SignAndBroadcast(r, seq, StoreMsg(r), "waitStore")
    PROVE  FInv'
<1>1. StoreMsg(r).kind # "instantiate" /\ "waitStore" \in Waiting
  BY DEF StoreMsg, Waiting
<1> QED
  BY <1>1, BroadcastFInv

(* What a run finds is a success, and its details are the ones made.       *)
LEMMA FoundFInv ==
    ASSUME IInv, FInv, NEW res \in results
    PROVE  /\ ~ExtractErr(res.events)
           /\ ~ParseErr(ExtractResultTxDetails(res.events).code)
           /\ ExtractResultTxDetails(res.events).code \in CodeIds
<1>1. res.code = 0 /\ res.made.code \in CodeIds
  BY DEF FInv
<1> QED
  BY <1>1, ExtractsWhatWasMade DEF IInv, ParseErr

LEMMA RunFInv ==
    ASSUME Faults = {}, IInv, FInv, NEW r \in Runs, RunStep(r) \/ Kill(r)
    PROVE  FInv'
<1> USE DEF Goto
<1>1. TypeOK /\ OthersIdle(r)
  BY OneMoves DEF IInv
<1>2. CASE UpdateAccountSequence(r)
  <2>1. pc' = [pc EXCEPT ![r] = "ready"] /\ UNCHANGED chainVars
    BY <1>2 DEF UpdateAccountSequence
  <2>2. pc'[r] = "ready"
    BY <1>1, <2>1 DEF TypeOK
  <2> QED
    BY <1>1, <2>1, <2>2, OneRunFInv DEF chainVars, Waiting
<1>3. CASE Upload(r) \/ UploadAndInstantiate(r) \/ InstantiateContract(r)
  <2>1. CASE Upload(r)
    <3>1. SignAndBroadcast(r, ClientIncreaseSequence(r), StoreMsg(r), "waitStore")
      BY <2>1 DEF Upload
    <3> QED
      BY <1>1, <3>1, StoreFInv
  <2>2. CASE UploadAndInstantiate(r)
    <3>1. SignAndBroadcast(r, IncreaseSequence(r), StoreMsg(r), "waitStore")
      BY <2>2 DEF UploadAndInstantiate
    <3> QED
      BY <1>1, <3>1, StoreFInv
  <2>3. CASE InstantiateContract(r)
    <3>1. /\ SignAndBroadcast(r, IncreaseSequence(r), InstantiateMsg(r),
                              "waitInstantiate")
          /\ pc[r] = "stored"
      BY <2>3 DEF InstantiateContract
    <3>2. InstantiateMsg(r).code \in CodeIds
      BY <3>1 DEF InstantiateMsg, FInv
    <3> HIDE DEF Goto
    <3> QED
      BY <1>1, <3>1, <3>2, BroadcastFInv DEF Waiting
  <2> QED
    BY <1>3, <2>1, <2>2, <2>3
<1>4. CASE WaitTxMiss(r)
  <2>1. /\ pc[r] \in Waiting /\ sent[r] \notin Committed
        /\ UNCHANGED chainVars /\ UNCHANGED sent
        /\ LastPoll(r) => sent[r] \notin mempool
        /\ ~LastPoll(r) => UNCHANGED pc
    BY <1>4 DEF WaitTxMiss
  <2>2. sent[r] \in mempool
    BY <2>1 DEF FInv
  <2> QED
    BY <1>1, <2>1, <2>2, OneRunFInv DEF chainVars, FInv, Waiting
<1>5. CASE WaitTxFailed(r) \/ Kill(r)
  BY <1>5 DEF WaitTxFailed, Kill, FInv
<1>6. CASE AllDeployed(r)
  <2>1. pc'[r] = "ok" /\ UNCHANGED chainVars
    BY <1>1, <1>6 DEF AllDeployed, TypeOK
  <2> QED
    BY <1>1, <2>1, OneRunFInv DEF chainVars, Waiting
<1>7. CASE StoreDone(r)
  <2>1. UNCHANGED chainVars
    BY <1>7 DEF StoreDone
  <2>2. PICK res \in results :
          LET d == ExtractResultTxDetails(res.events) IN
            \/ ParseErr(d.code) /\ Goto(r, "fatal")
            \/ Goto(r, "ready")
            \/ codeID' = [codeID EXCEPT ![r] = d.code] /\ Goto(r, "stored")
    BY <1>7 DEF StoreDone
  <2> DEFINE c == ExtractResultTxDetails(res.events).code
  <2>3. ~ParseErr(c) /\ c \in CodeIds
    BY FoundFInv
  <2>4. \/ pc' = [pc EXCEPT ![r] = "ready"]
        \/ /\ codeID' = [codeID EXCEPT ![r] = c]
           /\ pc' = [pc EXCEPT ![r] = "stored"]
    BY <2>2, <2>3
  <2> HIDE DEF c
  <2>5. pc'[r] = "ready" \/ (pc'[r] = "stored" /\ codeID'[r] = c)
    BY <1>1, <2>4 DEF TypeOK
  <2> QED
    BY <1>1, <2>1, <2>3, <2>5, OneRunFInv DEF chainVars, Waiting
<1>8. CASE InstantiateDone(r)
  <2>1. UNCHANGED chainVars
    BY <1>8 DEF InstantiateDone
  <2>2. PICK res \in results :
          LET d == ExtractResultTxDetails(res.events) IN
            \/ ExtractErr(res.events) \/ ParseErr(d.code)
            \/ Goto(r, "ready")
    BY <1>8 DEF InstantiateDone
  <2>3. pc' = [pc EXCEPT ![r] = "ready"]
    BY <2>2, FoundFInv
  <2>4. pc'[r] = "ready"
    BY <1>1, <2>3 DEF TypeOK
  <2> QED
    BY <1>1, <2>1, <2>4, OneRunFInv DEF chainVars, Waiting
<1> QED
  BY <1>2, <1>3, <1>4, <1>5, <1>6, <1>7, <1>8 DEF RunStep

(* On a chain without faults, no run that has its account to itself takes  *)
(* an error path, whatever the plan: each transaction is signed for the    *)
(* sequence the chain expects, names a code the chain has, and is found in *)
(* a block before the polls are used up.                                   *)
THEOREM NoErrorPath == Spec => []NoneFails
<1>1. CASE Faults = {} /\ Exclusive
  <2>1. Init => FInv
    <3> SUFFICES ASSUME Init PROVE FInv
      OBVIOUS
    <3>1. results = {} /\ mempool = {} /\ pc = [r \in Runs |-> "init"]
      BY DEF Init, ChainInit
    <3> QED
      BY <3>1 DEF FInv, Waiting
  <2>2. IInv /\ EInv /\ FInv /\ [Next]_vars => FInv'
    <3> SUFFICES ASSUME IInv, EInv, FInv, [Next]_vars PROVE FInv'
      OBVIOUS
    <3>1. CASE UNCHANGED vars
      BY <3>1 DEF vars, chainVars, localVars, FInv, CodeIds, Committed
    <3> QED
      BY <1>1, <3>1, ChainFInv, RunFInv DEF Next, Terminated
  <2>3. FInv => NoneFails
    BY DEF FInv, NoneFails
  <2> QED
    BY <1>1, <2>1, <2>2, <2>3, Invariant, ExclusiveInvariant, PTL DEF Spec
<1>2. CASE ~(Faults = {} /\ Exclusive)
  <2>1. NoneFails
    BY <1>2 DEF NoneFails
  <2> QED
    BY <2>1, PTL
<1> QED
  BY <1>1, <1>2

=============================================================================
