----------------------------- MODULE PayloadGen -----------------------------
(***************************************************************************)
(* payload_gen: the transactions of the wasm end-to-end tests, signed      *)
(* ahead of time by user1, one after the other.  The tests hold them as    *)
(* constants.  A signed transaction is a record of what the chain looks    *)
(* at: the account number and the sequence it is signed for, the fee, the  *)
(* gas limit, and the message.  Amounts are in "stake".                    *)
(***************************************************************************)
EXTENDS Naturals

Users == {"user1", "user2"}

defaultGasPrice == 100000

(* AccountInfo of a user in the ChainClient.                               *)
AddAccount(sequence, number) == [Sequence |-> sequence, Number |-> number]
IncreaseSequence(acc) == [acc EXCEPT !.Sequence = @ + 1]

(* The whole gas price is the fee, and the gas limit is twice as much.     *)
GetSignedTxBytes(acc, msg, gasPriceOverride) ==
    LET gasPrice == IF gasPriceOverride = 0 THEN defaultGasPrice
                    ELSE gasPriceOverride
    IN  [number |-> acc.Number, sequence |-> acc.Sequence, fee |-> gasPrice,
         gas |-> 2 * gasPrice, msg |-> msg]

(* The messages.  to is who gets the amount, a user or a contract; code    *)
(* and contract are the id and the address the message refers to, which    *)
(* for the first of each on a new chain are known beforehand: 1 here.      *)
BankSendTxHex(acc, to, amount) ==
    GetSignedTxBytes(acc, [code |-> 0, contract |-> 0, to |-> to,
                           amount |-> amount], 0)
DeployContractHex(acc) ==
    GetSignedTxBytes(acc, [code |-> 0, contract |-> 0, to |-> "nobody",
                           amount |-> 0], 2000000)
MsgInstantiateContractHex(acc) ==
    GetSignedTxBytes(acc, [code |-> 1, contract |-> 0, to |-> "contract",
                           amount |-> 10000], 400000)
MsgExecuteContractHex(acc, contract) ==
    GetSignedTxBytes(acc, [code |-> 0, contract |-> contract,
                           to |-> "contract", amount |-> 100000], 400000)

(* main.  The call of DeployContractHex is commented out, for its result   *)
(* is kept in a file; the increase of the sequence after it is not.        *)
IncreasedWithCall(acc) == acc   \* mutant: it is commented out with the call
AfterDeployContract(acc) == IncreaseSequence(acc)

Payload ==
    LET atSend == AddAccount(0, 1)
        atDeploy == IncreaseSequence(atSend)
        atInstantiate == AfterDeployContract(atDeploy)
        atExecute == IncreaseSequence(atInstantiate)
    IN  [send |-> BankSendTxHex(atSend, "user2", 5000000),
         deploy |-> DeployContractHex(atDeploy),
         instantiate |-> MsgInstantiateContractHex(atInstantiate),
         execute |-> MsgExecuteContractHex(atExecute, 1)]

=============================================================================
