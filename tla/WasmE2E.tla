------------------------------ MODULE WasmE2E ------------------------------
(***************************************************************************)
(* RunWASMTests of internal/wasm.go: the four transactions payload_gen     *)
(* signed ahead of time are sent one after the other.  Around the first, a *)
(* transfer, the balances of both users are looked at; the others are      *)
(* looked up by their hash.  The network is new and started from           *)
(* cmd/data/wasm.json.  The chain treats transactions as Chain.tla does,   *)
(* for one account and four payloads.                                      *)
(*                                                                         *)
(* The logger is avalanchego's, whose Fatal returns: after almost every    *)
(* error the test goes on with its next step.                              *)
(***************************************************************************)
EXTENDS PayloadGen, Sequences

CONSTANTS
    MaxPolls,    \* calls of Tx for a transaction (30 in the code)
    Faults       \* faults of the environment, see FaultKinds

(* "drop": a transaction is lost; "exec": its execution fails; "rpc": a    *)
(* call fails; "slow": a transaction takes longer than the test waits.     *)
FaultKinds == {"drop", "exec", "rpc", "slow"}

ASSUME FaultsAssumption == Faults \subseteq FaultKinds
ASSUME MaxPollsAssumption == MaxPolls \in Nat \ {0}

VARIABLES
    faults,      \* those of Faults that may happen
    accSeq,      \* the chain: the sequence user1 must sign next
    balance,     \* the chain: what each user has
    pool,        \* the chain: transactions waiting for a block
    passed,      \* the chain: transactions a block executed
    rejected,    \* the chain: transactions in a block that failed
    pc,          \* the test
    shown,       \* the balances its calls of GetBalances found, in order
    cur,         \* index in Order of the transaction in work
    polls,       \* calls of Tx made for it
    found,       \* transactions with a "Success!" line
    address,     \* rawContractAddress is set
    resolved     \* the final query has its success line

chainVars == <<faults, accSeq, balance, pool, passed, rejected>>
testVars == <<pc, shown, cur, polls, found, address, resolved>>
vars == <<chainVars, testVars>>

Order == <<"send", "deploy", "instantiate", "execute">>
Names == {Order[i] : i \in DOMAIN Order}
Ended == {"done", "panicked"}
PCs == {"info", "balances", "broadcast", "pause", "wait", "query"} \cup Ended

(* The genesis document: user1 is account number 1, and owns all the stake *)
(* that matters here.                                                      *)
GenesisNumber == 1
Genesis == [user1 |-> 1000000000, user2 |-> 0]

Init ==
    /\ faults \in SUBSET Faults
    /\ accSeq = 0 /\ balance = Genesis
    /\ pool = {} /\ passed = {} /\ rejected = {}
    /\ pc = "info" /\ shown = <<>> /\ cur = 1 /\ polls = 0
    /\ found = {} /\ address = FALSE /\ resolved = FALSE

-----------------------------------------------------------------------------
(* What the message of a payload refers to is on the chain.                *)
Stored == IF "deploy" \in passed THEN 1 ELSE 0
Instantiated == IF "instantiate" \in passed THEN 1 ELSE 0
Executable(t) ==
    Payload[t].msg.code <= Stored /\ Payload[t].msg.contract <= Instantiated

SignedForNext(t) ==
    Payload[t].sequence = accSeq /\ Payload[t].number = GenesisNumber

(* The fee is paid whether or not the message is executed.                 *)
Pay(t) == balance' = [balance EXCEPT !.user1 = @ - Payload[t].fee]
PayAndTransfer(t) ==
    balance' = [u \in Users |->
        balance[u]
          - (IF u = "user1" THEN Payload[t].fee + Payload[t].msg.amount ELSE 0)
          + (IF u = Payload[t].msg.to THEN Payload[t].msg.amount ELSE 0)]

Include(t) ==
    /\ SignedForNext(t)
    /\ \/ /\ Executable(t)
          /\ passed' = passed \cup {t} /\ UNCHANGED rejected
          /\ PayAndTransfer(t)
       \/ /\ "exec" \in faults \/ ~Executable(t)
          /\ rejected' = rejected \cup {t} /\ UNCHANGED passed
          /\ Pay(t)
    /\ accSeq' = accSeq + 1

Refuse(t) ==
    /\ ~SignedForNext(t)
    /\ rejected' \in {rejected, rejected \cup {t}}
    /\ UNCHANGED <<accSeq, balance, passed>>

Lose ==
    /\ "drop" \in faults
    /\ UNCHANGED <<accSeq, balance, passed, rejected>>

(* A transaction signed for a later sequence waits for those before it.    *)
ChainStep ==
    /\ \E t \in pool :
         /\ \/ Include(t)
            \/ /\ \A u \in pool : Payload[t].sequence <= Payload[u].sequence
               /\ Refuse(t)
            \/ Lose
         /\ pool' = pool \ {t}
    /\ UNCHANGED <<faults, testVars>>

-----------------------------------------------------------------------------
(* Info, whatever its outcome.                                             *)
Info ==
    /\ pc = "info" /\ pc' = "balances"
    /\ UNCHANGED <<chainVars, shown, cur, polls, found, address, resolved>>

(* The test goes on with the next payload, or with the query at its end.   *)
Again == pc' = "broadcast" /\ UNCHANGED cur  \* mutant: cur is not increased
GoOn ==
    IF cur = Len(Order) THEN pc' = "query" /\ UNCHANGED cur
                        ELSE pc' = "broadcast" /\ cur' = cur + 1

(* GetBalances has a success line for four balances it knows: those of the *)
(* two users before the transfer, and after it, the fee of the transfer    *)
(* being paid.                                                             *)
AndFeeOnly ==        \* mutant: what a failed transfer leaves is known too
    {1000000000, 0, 994900000, 5000000, 999900000}
decodedBalances == {1000000000, 0, 994900000, 5000000}
Lines(user) ==
    {{balance[user]} \cap decodedBalances}
        \cup (IF "rpc" \in faults THEN {{}} ELSE {})

(* One call of GetBalances: user1, then user2, before the transfer and     *)
(* again after it.  No outcome of it ends the test.                        *)
UserAt(i) == IF i % 2 = 1 THEN "user1" ELSE "user2"
GetBalances ==
    /\ pc = "balances"
    /\ \E line \in Lines(UserAt(Len(shown) + 1)) : shown' = Append(shown, line)
    /\ CASE Len(shown) = 1 -> pc' = "broadcast" /\ UNCHANGED cur
         [] Len(shown) = 3 -> GoOn
         [] OTHER -> UNCHANGED <<pc, cur>>
    /\ UNCHANGED <<chainVars, polls, found, address, resolved>>

NoReset == polls                    \* mutant: one counter for all loops
FirstPoll == 0

(* BroadCastTxAsync.  Its failure ends the test for the first payload.     *)
(* For the others it leaves res = nil, and the loop that follows reads     *)
(* res.Hash: the test panics.                                              *)
BroadCastTxAsync ==
    /\ pc = "broadcast"
    /\ polls' = FirstPoll
    /\ \/ /\ pool' = pool \cup {Order[cur]}
          /\ pc' = IF cur = 1 THEN "pause" ELSE "wait"
       \/ /\ "rpc" \in faults
          /\ pool' \in {pool, pool \cup {Order[cur]}}
          /\ pc' = IF cur = 1 THEN "done" ELSE "panicked"
    /\ UNCHANGED <<faults, accSeq, balance, passed, rejected, shown, cur, found,
                   address, resolved>>

NoPause ==            \* mutant: the balances are taken at once
    /\ pc = "pause" /\ pc' = "balances"
    /\ UNCHANGED <<chainVars, shown, cur, polls, found, address, resolved>>

(* 15 seconds for the transfer, before the second round of GetBalances.    *)
Pause ==
    /\ pc = "pause"
    /\ pool = {} \/ "slow" \in faults
    /\ pc' = "balances"
    /\ UNCHANGED <<chainVars, shown, cur, polls, found, address, resolved>>

InBlock == passed \cup rejected
NotCounted == polls                 \* mutant: the loop has no end
Polled == polls + 1

(* A call of Tx fails.  The last one ends the loop, and nothing else.      *)
TxMiss ==
    /\ pc = "wait"
    /\ Order[cur] \notin InBlock \/ "rpc" \in faults
    /\ Polled = MaxPolls => Order[cur] \notin pool \/ "slow" \in faults
    /\ polls' = Polled
    /\ IF Polled < MaxPolls THEN UNCHANGED <<pc, cur>> ELSE GoOn
    /\ UNCHANGED <<chainVars, shown, found, address, resolved>>

(* A call of Tx returns a result.  Its code decides about the line in the  *)
(* log.  A successful instantiation has an event with the address, so the  *)
(* branches for a missing one are never taken.                             *)
AnyCode(t) == t \in InBlock         \* mutant: the code is not looked at
Success(t) == t \in passed

TxResult ==
    /\ pc = "wait"
    /\ Order[cur] \in InBlock
    /\ IF Success(Order[cur])
       THEN /\ found' = found \cup {Order[cur]}
            /\ address' = (address \/ Order[cur] = "instantiate")
       ELSE UNCHANGED <<found, address>>
    /\ GoOn
    /\ UNCHANGED <<chainVars, shown, polls, resolved>>

(* QuerySmartContractStateRequest asks for the contract payload_gen knew   *)
(* beforehand, whatever address the test has found.                        *)
Query ==
    /\ pc = "query" /\ pc' = "done"
    /\ resolved' \in {Instantiated = 1}
                       \cup (IF "rpc" \in faults THEN {FALSE} ELSE {})
    /\ UNCHANGED <<chainVars, shown, cur, polls, found, address>>

TestStep ==
    \/ Info
    \/ GetBalances
    \/ BroadCastTxAsync
    \/ Pause
    \/ TxMiss
    \/ TxResult
    \/ Query

Terminated == pc \in Ended /\ UNCHANGED vars

Next == ChainStep \/ TestStep \/ Terminated

Spec == Init /\ [][Next]_vars

(* Timers fire, calls return, and the chain makes blocks.                  *)
FairSpec == Spec /\ WF_vars(TestStep) /\ WF_vars(ChainStep)

-----------------------------------------------------------------------------
(* Type correctness; no user owes anything.                                *)
TypeOK ==
    /\ faults \subseteq Faults
    /\ accSeq \in 0 .. Len(Order)
    /\ balance \in [Users -> Nat]
    /\ pool \subseteq Names /\ passed \subseteq Names /\ rejected \subseteq Names
    /\ pc \in PCs
    /\ shown \in Seq(SUBSET Nat) /\ Len(shown) <= 4
    /\ cur \in DOMAIN Order
    /\ polls \in 0 .. MaxPolls
    /\ found \subseteq Names
    /\ address \in BOOLEAN /\ resolved \in BOOLEAN

(* What the log calls a success is on the chain, and so is all it rests    *)
(* on, though the test goes on after nearly every error: a "Success!" for  *)
(* the execution means that the contract was deployed and instantiated,    *)
(* even when the lines for those steps say otherwise.                      *)
SuccessIsCommitted ==
    /\ found \subseteq passed
    /\ address \/ resolved => "instantiate" \in passed
    /\ "instantiate" \in found \/ address \/ resolved => "deploy" \in passed
    /\ "execute" \in found => {"deploy", "instantiate"} \subseteq passed

(* GetBalances takes the balances before the transfer for good after it,   *)
(* but it does not take a failed transfer for one: a success line with     *)
(* anything but what the user had at first means that the transfer was     *)
(* executed.                                                               *)
TransferShown ==
    \A i \in DOMAIN shown :
        shown[i] \subseteq {Genesis[UserAt(i)]} \/ "send" \in passed

(* While no call fails the test does not panic, whatever is lost, refused  *)
(* or late.  And on a chain without faults it passes: when it ends all     *)
(* four payloads were executed, though each was signed before the chain    *)
(* was started; the transfer shows in both balances, the other three and   *)
(* the final query have their lines, and the last one names an address.    *)
BothRounds == <<{1000000000}, {0}, {994900000}, {5000000}>>
PassesWhenDone ==
    /\ "rpc" \notin faults => pc # "panicked"
    /\ faults = {} /\ pc = "done" =>
         /\ passed = Names
         /\ found = {"deploy", "instantiate", "execute"}
         /\ address /\ resolved
         /\ shown = BothRounds

(* The balances from before the transfer are in the table of GetBalances   *)
(* too, and the pause before its second round asks nobody.  While the      *)
(* chain keeps its transactions and is quicker than the pause, that round  *)
(* has no success line for them all the same: a transfer that did not      *)
(* happen does not pass for one that did, though user2, whom a failed one  *)
(* leaves as it was, has a line then.                                      *)
ShowsTransfer ==
    faults \cap {"drop", "slow"} = {} =>
        \A i \in DOMAIN shown : i >= 3 =>
            \/ shown[i] \subseteq BothRounds[i]
            \/ UserAt(i) = "user2" /\ "exec" \in faults

(* A bound on the steps the test has still to make: for each payload after *)
(* the transfer a broadcast and its polls, and the query at the end.       *)
StepsAfter == (Len(Order) - cur) * (MaxPolls + 1) + 1
StepsLeft ==
    CASE pc \in Ended -> 0
      [] pc = "query" -> 1
      [] pc = "wait" -> StepsAfter + MaxPolls - polls
      [] pc = "pause" -> StepsAfter + 3
      [] pc = "broadcast" -> StepsAfter + (IF cur = 1 THEN 4 ELSE MaxPolls + 1)
      [] pc = "balances" ->
           StepsAfter + (IF Len(shown) < 2 THEN 6 ELSE 4) - Len(shown)
      [] pc = "info" -> StepsAfter + 7

(* No step of the test leaves as much to do as there was, whatever the     *)
(* chain answers, and no block adds to it.                                 *)
Countdown ==
    [][/\ StepsLeft' \in Nat
       /\ StepsLeft' <= StepsLeft
       /\ TestStep => StepsLeft' < StepsLeft]_vars

(* The test ends, though it may panic.                                     *)
Ends == <>(pc \in Ended)

=============================================================================
