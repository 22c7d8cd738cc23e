------------------------------- MODULE Chain -------------------------------
(***************************************************************************)
(* The landslidevm blockchain as the client programs see it through its    *)
(* RPC: transactions are broadcast into a mempool, a block includes them   *)
(* or they disappear, and a committed transaction can be looked up by its  *)
(* hash.  No source of the chain is in this repository; the module states  *)
(* what the clients rely on: the per-account sequence number a signature   *)
(* is made for (chain_client.go: WithSequence), TxResult.Code, the events  *)
(* of an included transaction, and an RPC that answers before the          *)
(* transaction is executed (BroadcastTxAsync).                             *)
(*                                                                         *)
(* Signing is deterministic, so a transaction is its contents: the hash of *)
(* two transactions with equal contents is the same hash.                  *)
(***************************************************************************)
EXTENDS Naturals, Sequences

CONSTANTS
    Accounts,    \* the accounts transactions are signed with
    Names,       \* the contracts (one wasm file each)
    Fields,      \* fields of messages that name another contract
    Salts,       \* what tells apart messages built at different times
    Faults,      \* the faults the environment may show, see FaultKinds
    MaxNested    \* how many contracts an instantiated contract may create

(* "drop": a broadcast transaction is lost; "exec": the execution of a     *)
(* message fails; "ante": a transaction is refused for another reason than *)
(* its sequence; "rpc": an RPC call fails; "slow": a transaction takes     *)
(* longer than a client polls; "kill": a client process is killed.         *)
FaultKinds == {"drop", "exec", "ante", "rpc", "slow", "kill"}

ASSUME FaultsAssumption == Faults \subseteq FaultKinds
ASSUME MaxNestedAssumption == MaxNested \in Nat

VARIABLES
    mempool,     \* broadcast transactions no block has included
    results,     \* the results of the transactions in blocks
    accSeq,      \* the sequence number each account must sign next
    codes,       \* number of stored codes; code ids are 1..codes
    instances    \* number of instantiated contracts, each has an address

chainVars == <<mempool, results, accSeq, codes, instances>>

(* What a client learns about a contract: its code id and its address,     *)
(* 0 standing for the empty string.                                        *)
Details == [code : Nat, addr : Nat]
NoDetail == [code |-> 0, addr |-> 0]

(* One of the two, of a contract: what a field is filled with.             *)
Parts == {"code", "addr"}
Sources == [name : Names, part : Parts]
CodeOf(n) == [name |-> n, part |-> "code"]
AddrOf(n) == [name |-> n, part |-> "addr"]
PartOf(d, part) == IF part = "code" THEN d.code ELSE d.addr

(* A message stores the code of a contract or instantiates code msg.code;  *)
(* its body has fields that name other contracts, 0 standing for a field   *)
(* it does not have, and maybe a time.                                     *)
Msgs == [kind : {"store", "instantiate"}, name : Names, code : Nat,
         refs : [Fields -> Nat], salt : Salts]
Txs == [acct : Accounts, seq : Nat, msg : Msgs]

Events == [type : {"store_code", "instantiate"}, code : Nat, addr : Nat]

(* code = 0 is success.  made is what the message created, known to the    *)
(* chain; a client only sees the events.                                   *)
Results == [tx : Txs, code : {0, 1}, made : Details, events : Seq(Events)]

Committed == {res.tx : res \in results}

ChainTypeOK ==
    /\ mempool \in SUBSET Txs
    /\ results \in SUBSET Results
    /\ accSeq \in [Accounts -> Nat]
    /\ codes \in Nat
    /\ instances \in Nat

ChainInit ==
    /\ mempool = {}
    /\ results = {}
    /\ accSeq = [a \in Accounts |-> 0]
    /\ codes = 0
    /\ instances = 0

-----------------------------------------------------------------------------
(* The mempool after a client broadcast tx.  The hash of a transaction     *)
(* that is pending or in a block is cached and changes nothing.            *)
Broadcast(tx) == mempool \cup ({tx} \ Committed)

(* The events a successful message emits, its own event first, then one    *)
(* for each contract it creates in turn.                                   *)
StoreEvents == <<[type |-> "store_code", code |-> codes + 1, addr |-> 0]>>
InstantiateEvents(c, nested) ==
    [i \in 1 .. nested + 1 |->
        [type |-> "instantiate", code |-> IF i = 1 THEN c ELSE codes,
         addr |-> instances + i]]

(* A block includes a transaction signed for the sequence its account is   *)
(* at.  The sequence advances whether or not the message succeeds.         *)
Store(tx) ==
    /\ tx.msg.kind = "store"
    /\ results' = results \cup
         {[tx |-> tx, code |-> 0, made |-> [code |-> codes + 1, addr |-> 0],
           events |-> StoreEvents]}
    /\ codes' = codes + 1
    /\ UNCHANGED instances

Instantiate(tx) ==
    /\ tx.msg.kind = "instantiate"
    /\ tx.msg.code \in 1 .. codes
    /\ \E nested \in 0 .. MaxNested :
         /\ results' = results \cup
              {[tx |-> tx, code |-> 0,
                made |-> [code |-> tx.msg.code, addr |-> instances + 1],
                events |-> InstantiateEvents(tx.msg.code, nested)]}
         /\ instances' = instances + 1 + nested
    /\ UNCHANGED codes

ExecFail(tx) ==
    /\ \/ "exec" \in Faults
       \/ tx.msg.kind = "instantiate" /\ tx.msg.code \notin 1 .. codes
    /\ results' = results \cup
         {[tx |-> tx, code |-> 1, made |-> NoDetail, events |-> <<>>]}
    /\ UNCHANGED <<codes, instances>>

Deliver(tx) ==
    /\ tx.seq = accSeq[tx.acct]
    /\ Store(tx) \/ Instantiate(tx) \/ ExecFail(tx)
    /\ accSeq' = [accSeq EXCEPT ![tx.acct] = @ + 1]
    /\ mempool' = mempool \ {tx}

(* A transaction with another sequence is refused: it is in a block with a *)
(* failure, or it never is.  Its account stays where it is.                *)
Refuse(tx) ==
    /\ tx.seq # accSeq[tx.acct] \/ "ante" \in Faults
    /\ \/ results' = results \cup
            {[tx |-> tx, code |-> 1, made |-> NoDetail, events |-> <<>>]}
       \/ UNCHANGED results
    /\ mempool' = mempool \ {tx}
    /\ UNCHANGED <<accSeq, codes, instances>>

Drop(tx) ==
    /\ "drop" \in Faults
    /\ mempool' = mempool \ {tx}
    /\ UNCHANGED <<results, accSeq, codes, instances>>

ChainNext == \E tx \in mempool : Deliver(tx) \/ Refuse(tx) \/ Drop(tx)

=============================================================================
