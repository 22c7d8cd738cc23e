----------------------------- MODULE WasmProofs -----------------------------
(***************************************************************************)
(* The wasm end-to-end tests, for any number of polls and any faults: what *)
(* their log calls a success is on the chain, no balance they show speaks  *)
(* for a transfer that failed, and every step brings their end nearer.     *)
(* None of this assumes that the chain keeps, executes or hurries          *)
(* anything.  The last two parts do: on a chain without faults the tests   *)
(* pass, and on one that is prompt the pause after the transfer suffices.  *)
(***************************************************************************)
EXTENDS WasmE2E, SequenceTheorems, TLAPS

(* What user1 owns at first, and no less than a payload may cost.          *)
Stake == 1000000000
Cost == 6000000
Solvent == balance["user1"] + Cost * accSeq >= Stake

(* What a contract needs is on the chain before it.                        *)
ChainOK ==
    /\ "instantiate" \in passed => "deploy" \in passed
    /\ "execute" \in passed => "instantiate" \in passed
    /\ Solvent

(* Until the second round of GetBalances ends, only the transfer is sent.  *)
(* Unless it was executed, user1 has at most paid its fee.                 *)
Untouched == accSeq = 0 /\ balance["user1"] = Stake
FeePaid == accSeq = 1 /\ balance["user1"] = Stake - defaultGasPrice
TransferOK ==
    /\ cur = 1 => pool \cup passed \cup rejected \subseteq {"send"}
    /\ cur = 1 /\ "send" \notin passed =>
         (Untouched \/ FeePaid) /\ balance["user2"] = 0
    /\ pc = "info" => cur = 1 /\ Len(shown) = 0
    /\ pc \in {"balances", "pause"} => cur = 1
    /\ pc = "balances" => Len(shown) <= 3
    /\ pc = "pause" \/ (pc = "broadcast" /\ cur = 1) => Len(shown) = 2
    /\ pc = "wait" => cur # 1 /\ polls < MaxPolls

FoundOK ==
    /\ found \subseteq passed
    /\ address \/ resolved => "instantiate" \in passed

WInv == TypeOK /\ ChainOK /\ TransferOK /\ FoundOK /\ TransferShown

-----------------------------------------------------------------------------
(* The payloads.                                                           *)

LEMMA OrderFacts ==
    /\ DOMAIN Order = 1 .. 4 /\ Len(Order) = 4
    /\ \A i \in 1 .. 4 : Order[i] \in Names
    /\ Names = {"send", "deploy", "instantiate", "execute"}
    /\ Order[1] = "send"
<1>1. DOMAIN Order = 1 .. 4 /\ Len(Order) = 4
  BY DEF Order
<1>2. /\ Order[1] = "send" /\ Order[2] = "deploy"
      /\ Order[3] = "instantiate" /\ Order[4] = "execute"
  BY DEF Order
<1>3. 1 .. 4 = {1, 2, 3, 4}
  OBVIOUS
<1>4. Names = {Order[i] : i \in {1, 2, 3, 4}}
  BY <1>1, <1>3 DEF Names
<1> QED
  BY <1>1, <1>2, <1>3, <1>4

LEMMA PayloadFacts ==
    /\ Payload["send"].sequence = 0
    /\ Payload["deploy"].sequence = 1
    /\ Payload["instantiate"].sequence = 2
    /\ Payload["execute"].sequence = 3
    /\ Payload["send"].fee = defaultGasPrice
    /\ Payload["instantiate"].msg.code = 1
    /\ Payload["execute"].msg.contract = 1
    /\ \A t \in {"send", "deploy", "instantiate", "execute"} :
         /\ Payload[t].fee \in Nat /\ Payload[t].msg.amount \in Nat
         /\ Payload[t].fee + Payload[t].msg.amount <= Cost
<1> DEFINE acc0 == AddAccount(0, 1)
           acc1 == IncreaseSequence(acc0)
           acc2 == AfterDeployContract(acc1)
           acc3 == IncreaseSequence(acc2)
<1>1. /\ acc0.Sequence = 0 /\ acc1.Sequence = 1
      /\ acc2.Sequence = 2 /\ acc3.Sequence = 3
  BY DEF AddAccount, IncreaseSequence, AfterDeployContract
<1>2. Payload = [send |-> BankSendTxHex(acc0, "user2", 5000000),
                 deploy |-> DeployContractHex(acc1),
                 instantiate |-> MsgInstantiateContractHex(acc2),
                 execute |-> MsgExecuteContractHex(acc3, 1)]
  BY DEF Payload
<1> HIDE DEF acc0, acc1, acc2, acc3
<1>3. /\ Payload["send"] = BankSendTxHex(acc0, "user2", 5000000)
      /\ Payload["deploy"] = DeployContractHex(acc1)
      /\ Payload["instantiate"] = MsgInstantiateContractHex(acc2)
      /\ Payload["execute"] = MsgExecuteContractHex(acc3, 1)
  BY <1>2
<1>4. /\ Payload["send"].sequence = 0
      /\ Payload["send"].fee \in Nat
      /\ Payload["send"].msg.amount \in Nat
      /\ Payload["send"].fee + Payload["send"].msg.amount <= Cost
      /\ Payload["send"].fee = defaultGasPrice
  BY <1>1, <1>3, SMT
     DEF BankSendTxHex, GetSignedTxBytes, Cost, defaultGasPrice
<1>5. /\ Payload["deploy"].sequence = 1
      /\ Payload["deploy"].fee \in Nat
      /\ Payload["deploy"].msg.amount \in Nat
      /\ Payload["deploy"].fee + Payload["deploy"].msg.amount <= Cost
  BY <1>1, <1>3, SMT
     DEF DeployContractHex, GetSignedTxBytes, Cost
<1>6. /\ Payload["instantiate"].sequence = 2
      /\ Payload["instantiate"].fee \in Nat
      /\ Payload["instantiate"].msg.amount \in Nat
      /\ Payload["instantiate"].fee + Payload["instantiate"].msg.amount <= Cost
      /\ Payload["instantiate"].msg.code = 1
  BY <1>1, <1>3, SMT
     DEF MsgInstantiateContractHex, GetSignedTxBytes, Cost
<1>7. /\ Payload["execute"].sequence = 3
      /\ Payload["execute"].fee \in Nat
      /\ Payload["execute"].msg.amount \in Nat
      /\ Payload["execute"].fee + Payload["execute"].msg.amount <= Cost
      /\ Payload["execute"].msg.contract = 1
  BY <1>1, <1>3, SMT
     DEF MsgExecuteContractHex, GetSignedTxBytes, Cost
<1> QED
  BY <1>4, <1>5, <1>6, <1>7

(* All a payload costs user1, and the sequence it is signed for.           *)
LEMMA PayloadBounds ==
    ASSUME NEW t \in Names
    PROVE  /\ Payload[t].sequence \in 0 .. 3
           /\ Payload[t].fee \in Nat /\ Payload[t].msg.amount \in Nat
           /\ Payload[t].fee + Payload[t].msg.amount <= Cost
BY PayloadFacts, OrderFacts

LEMMA GenesisFacts ==
    /\ Genesis["user1"] = Stake /\ Genesis["user2"] = 0
    /\ Genesis \in [Users -> Nat]
    /\ Users = {"user1", "user2"}
    /\ \A i \in Nat : UserAt(i) \in Users
BY SMT DEF Genesis, Users, UserAt, Stake

-----------------------------------------------------------------------------
(* The chain.                                                              *)

LEMMA WInit == Init => WInv
<1> SUFFICES ASSUME Init PROVE WInv
  OBVIOUS
<1>1. TypeOK
  <2>1. faults \subseteq Faults
    BY DEF Init
  <2>2. accSeq \in 0 .. Len(Order) /\ cur \in DOMAIN Order
    BY OrderFacts DEF Init
  <2>3. balance \in [Users -> Nat]
    BY GenesisFacts DEF Init
  <2>4. shown \in Seq(SUBSET Nat) /\ Len(shown) <= 4
    BY DEF Init
  <2>5. polls \in 0 .. MaxPolls
    BY MaxPollsAssumption DEF Init
  <2>6. /\ pool \subseteq Names /\ passed \subseteq Names
        /\ rejected \subseteq Names /\ found \subseteq Names /\ pc \in PCs
    BY DEF Init, PCs
  <2>7. address \in BOOLEAN /\ resolved \in BOOLEAN
    BY DEF Init
  <2> QED
    BY <2>1, <2>2, <2>3, <2>4, <2>5, <2>6, <2>7 DEF TypeOK
<1>2. ChainOK
  <2>1. Solvent
    BY GenesisFacts, SMT DEF Init, Solvent, Cost, Stake
  <2> QED
    BY <2>1 DEF Init, ChainOK
<1>3. TransferOK
  BY GenesisFacts DEF Init, TransferOK, Untouched
<1>4. FoundOK
  BY DEF Init, FoundOK
<1>5. TransferShown
  BY DEF Init, TransferShown
<1> QED
  BY <1>1, <1>2, <1>3, <1>4, <1>5 DEF WInv

(* No payload can cost user1 more than there is.                           *)
LEMMA PayFacts ==
    ASSUME WInv, NEW t \in pool, SignedForNext(t), Pay(t) \/ PayAndTransfer(t)
    PROVE  /\ balance' \in [Users -> Nat]
           /\ balance'["user1"] + Cost >= balance["user1"]
           /\ accSeq \in 0 .. 3
<1>1. t \in Names /\ balance \in [Users -> Nat]
  BY DEF WInv, TypeOK
<1>2. accSeq \in 0 .. 3 /\ accSeq = Payload[t].sequence
  BY <1>1, PayloadBounds DEF SignedForNext
<1>3. balance["user1"] >= Cost /\ Cost \in Nat
  <2>1. balance["user1"] \in Nat
    BY <1>1, GenesisFacts
  <2> QED
    BY <1>2, <2>1, SMT DEF WInv, ChainOK, Solvent, Cost, Stake
<1>4. /\ Payload[t].fee \in Nat /\ Payload[t].msg.amount \in Nat
      /\ Payload[t].fee + Payload[t].msg.amount <= Cost
  BY <1>1, PayloadBounds
<1>5. CASE Pay(t)
  <2>1. balance' = [balance EXCEPT !["user1"] = @ - Payload[t].fee]
    BY <1>5 DEF Pay
  <2> QED
    BY <1>1, <1>2, <1>3, <1>4, <2>1, GenesisFacts
<1>6. CASE PayAndTransfer(t)
  <2>1. balance' = [u \in Users |->
            balance[u]
              - (IF u = "user1" THEN Payload[t].fee + Payload[t].msg.amount
                 ELSE 0)
              + (IF u = Payload[t].msg.to THEN Payload[t].msg.amount ELSE 0)]
    BY <1>6 DEF PayAndTransfer
  <2> QED
    BY <1>1, <1>2, <1>3, <1>4, <2>1, GenesisFacts
<1> QED
  BY <1>5, <1>6

LEMMA IncludeStep ==
    ASSUME WInv, NEW t \in pool, Include(t), pool' = pool \ {t},
           UNCHANGED <<faults, testVars>>
    PROVE  WInv'
<1>1. /\ balance' \in [Users -> Nat] /\ accSeq' = accSeq + 1
      /\ balance'["user1"] + Cost >= balance["user1"] /\ accSeq \in 0 .. 3
  BY PayFacts DEF Include
<1>2. t \in Names
  BY DEF WInv, TypeOK
<1>3. /\ passed \subseteq passed' /\ passed' \subseteq passed \cup {t}
      /\ rejected' \subseteq rejected \cup {t}
  BY DEF Include
<1>4. TypeOK'
  <2>1. accSeq' \in 0 .. Len(Order)
    BY <1>1, OrderFacts
  <2>2. /\ pool' \subseteq Names /\ passed' \subseteq Names
        /\ rejected' \subseteq Names
    BY <1>2, <1>3 DEF WInv, TypeOK
  <2> QED
    BY <1>1, <2>1, <2>2 DEF WInv, TypeOK, testVars
<1>5. ChainOK'
  <2>1. Solvent'
    <3>1. balance["user1"] \in Nat /\ balance'["user1"] \in Nat
      BY <1>1, GenesisFacts DEF WInv, TypeOK
    <3> QED
      BY <1>1, <3>1, SMT DEF WInv, ChainOK, Solvent, Cost, Stake
  <2>2. t = "instantiate" /\ t \in passed' /\ t \notin passed =>
          "deploy" \in passed
    BY PayloadFacts DEF Include, Executable, Stored
  <2>3. t = "execute" /\ t \in passed' /\ t \notin passed =>
          "instantiate" \in passed
    BY PayloadFacts DEF Include, Executable, Instantiated
  <2> QED
    BY <1>3, <2>1, <2>2, <2>3 DEF WInv, ChainOK
<1>6. TransferOK'
  <2>1. CASE cur = 1
    <3>1. /\ t = "send" /\ Payload[t].sequence = 0
          /\ Payload[t].fee = defaultGasPrice
      BY <2>1, PayloadFacts DEF WInv, TransferOK
    <3>2. accSeq = 0
      BY <3>1 DEF Include, SignedForNext
    <3>3. CASE "send" \notin passed'
      <4>1. /\ "send" \notin passed /\ Pay(t)
        BY <1>3, <3>1, <3>3 DEF Include
      <4>2. Untouched /\ balance["user2"] = 0
        BY <2>1, <3>2, <4>1 DEF WInv, TransferOK, FeePaid
      <4>3. balance' = [balance EXCEPT !["user1"] = @ - defaultGasPrice]
        BY <3>1, <4>1 DEF Pay
      <4>4. FeePaid' /\ balance'["user2"] = 0
        BY <1>1, <4>2, <4>3, GenesisFacts
           DEF Untouched, FeePaid, WInv, TypeOK
      <4> QED
        BY <1>3, <2>1, <3>1, <4>4 DEF WInv, TransferOK, testVars
    <3>4. CASE "send" \in passed'
      BY <1>3, <2>1, <3>1, <3>4 DEF WInv, TransferOK, testVars
    <3> QED
      BY <3>3, <3>4
  <2>2. CASE cur # 1
    BY <2>2 DEF WInv, TransferOK, testVars
  <2> QED
    BY <2>1, <2>2
<1>7. FoundOK' /\ TransferShown'
  BY <1>3 DEF WInv, FoundOK, TransferShown, testVars
<1> QED
  BY <1>4, <1>5, <1>6, <1>7 DEF WInv

LEMMA ChainKeeps == ASSUME WInv, ChainStep PROVE WInv'
<1> PICK t \in pool :
      /\ Include(t) \/ Refuse(t) \/ Lose
      /\ pool' = pool \ {t}
  BY DEF ChainStep
<1> UNCHANGED <<faults, testVars>>
  BY DEF ChainStep
<1>1. CASE Include(t)
  BY <1>1, IncludeStep
<1>2. CASE Refuse(t) \/ Lose
  <2>1. /\ UNCHANGED <<accSeq, balance, passed>>
        /\ rejected' \subseteq rejected \cup {t}
    BY <1>2 DEF Refuse, Lose
  <2>2. TypeOK'
    BY <2>1 DEF WInv, TypeOK, testVars
  <2>3. ChainOK' /\ FoundOK' /\ TransferShown'
    BY <2>1 DEF WInv, ChainOK, Solvent, FoundOK, TransferShown, testVars
  <2>4. TransferOK'
    BY <2>1 DEF WInv, TransferOK, Untouched, FeePaid, testVars
  <2> QED
    BY <2>2, <2>3, <2>4 DEF WInv
<1> QED
  BY <1>1, <1>2

-----------------------------------------------------------------------------
(* The test.                                                               *)

LEMMA GoOnFacts ==
    ASSUME WInv, GoOn
    PROVE  /\ cur' \in DOMAIN Order /\ pc' \in {"query", "broadcast"}
           /\ cur' # 1
<1>1. cur \in 1 .. 4 /\ Len(Order) = 4 /\ DOMAIN Order = 1 .. 4
  BY OrderFacts DEF WInv, TypeOK
<1> QED
  BY <1>1 DEF GoOn

(* A balance before the transfer is executed has a success line only when  *)
(* it is the one the user had at first.                                    *)
LEMMA LinesFacts ==
    ASSUME WInv, pc = "balances", NEW u \in Users, NEW line \in Lines(u)
    PROVE  /\ line \in SUBSET Nat
           /\ "send" \notin passed => line \subseteq {Genesis[u]}
<1>1. line = {balance[u]} \cap decodedBalances \/ line = {}
  BY DEF Lines
<1>2. decodedBalances \subseteq Nat
  BY SMT DEF decodedBalances
<1>3. ASSUME "send" \notin passed
      PROVE  line \subseteq {Genesis[u]}
  <2>1. (Untouched \/ FeePaid) /\ balance["user2"] = 0
    BY <1>3 DEF WInv, TransferOK
  <2>2. Stake - defaultGasPrice \notin decodedBalances
    BY SMT DEF decodedBalances, Stake, defaultGasPrice
  <2>3. CASE u = "user1"
    BY <1>1, <2>1, <2>2, <2>3, GenesisFacts DEF Untouched, FeePaid
  <2>4. CASE u = "user2"
    BY <1>1, <2>1, <2>4, GenesisFacts
  <2> QED
    BY <2>3, <2>4, GenesisFacts
<1> QED
  BY <1>1, <1>2, <1>3

(* Counting the calls of GetBalances.                                      *)
LEMMA Counts ==
    /\ \A n \in Nat : n <= 3 => n \in 0 .. 3
    /\ \A n \in 0 .. 3 :
         /\ n = 1 => n # 3 /\ n + 1 = 2
         /\ n = 1 \/ n = 3 \/ (n # 1 /\ n # 3)
         /\ \A m : m = n + 1 => m <= 4 /\ (n # 3 => m <= 3)
OBVIOUS

LEMMA BalancesStep == ASSUME WInv, GetBalances PROVE WInv'
<1> DEFINE u == UserAt(Len(shown) + 1)
<1>1. shown \in Seq(SUBSET Nat) /\ pc = "balances"
  BY DEF WInv, TypeOK, GetBalances
<1>2. Len(shown) \in 0 .. 3
  <2>1. Len(shown) <= 3
    BY <1>1 DEF WInv, TransferOK
  <2>2. Len(shown) \in Nat
    BY <1>1
  <2> QED
    BY <2>1, <2>2, Counts
<1>3. u \in Users
  BY <1>2, GenesisFacts
<1>4. PICK line \in Lines(u) : shown' = Append(shown, line)
  BY DEF GetBalances
<1>5. /\ line \in SUBSET Nat
      /\ "send" \notin passed => line \subseteq {Genesis[u]}
  BY <1>1, <1>3, LinesFacts
<1>6. /\ UNCHANGED <<chainVars, polls, found, address, resolved>>
      /\ \/ Len(shown) = 1 /\ pc' = "broadcast" /\ UNCHANGED cur
         \/ Len(shown) = 3 /\ GoOn
         \/ Len(shown) # 3 /\ UNCHANGED <<pc, cur>>
  BY <1>2, Counts DEF GetBalances
<1>7. shown' \in Seq(SUBSET Nat)
  BY <1>1, <1>4, <1>5
<1>8. Len(shown') = Len(shown) + 1
  BY <1>1, <1>4
<1>9. cur' \in DOMAIN Order /\ pc' \in {"query", "broadcast", "balances"}
  BY <1>1, <1>6, GoOnFacts DEF WInv, TypeOK
<1>10. TypeOK'
  <2>1. pc' \in PCs
    BY <1>9 DEF PCs
  <2>2. Len(shown') <= 4
    BY <1>2, <1>8, Counts
  <2>3. UNCHANGED <<faults, accSeq, balance, pool, passed, rejected, polls,
                    found, address, resolved>>
    BY <1>6 DEF chainVars
  <2> QED
    BY <1>7, <1>9, <2>1, <2>2, <2>3 DEF WInv, TypeOK
<1>11. TransferShown'
  <2> SUFFICES ASSUME "send" \notin passed, NEW i \in DOMAIN shown'
               PROVE  shown'[i] \subseteq {Genesis[UserAt(i)]}
    BY <1>6 DEF TransferShown, chainVars
  <2>1. i \in 1 .. Len(shown) + 1
    BY <1>7, <1>8
  <2>2. CASE i \in 1 .. Len(shown)
    <3>1. i \in DOMAIN shown /\ shown'[i] = shown[i]
      BY <1>1, <1>4, <2>2
    <3> QED
      BY <3>1 DEF WInv, TransferShown
  <2>3. CASE i = Len(shown) + 1
    <3>1. shown'[i] = line
      BY <1>1, <1>4, <2>3
    <3> QED
      BY <1>5, <2>3, <3>1
  <2> QED
    BY <1>2, <2>1, <2>2, <2>3
<1>12. TransferOK'
  <2>1. cur = 1
    BY <1>1 DEF WInv, TransferOK
  <2>2. CASE GoOn /\ Len(shown) = 3
    <3>1. cur' # 1 /\ pc' \in {"query", "broadcast"}
      BY <2>2, GoOnFacts
    <3> QED
      BY <3>1 DEF TransferOK
  <2>3. CASE /\ UNCHANGED cur
             /\ \/ Len(shown) = 1 /\ pc' = "broadcast"
                \/ Len(shown) # 3 /\ pc' = "balances"
    <3>1. /\ Len(shown) # 3 => Len(shown') <= 3
          /\ Len(shown) = 1 => Len(shown') = 2
      BY <1>2, <1>8, Counts
    <3> QED
      BY <1>6, <2>1, <2>3, <3>1
         DEF WInv, TransferOK, Untouched, FeePaid, chainVars
  <2> QED
    BY <1>1, <1>2, <1>6, <2>2, <2>3
<1>13. ChainOK' /\ FoundOK'
  BY <1>6 DEF WInv, ChainOK, Solvent, FoundOK, chainVars
<1> QED
  BY <1>10, <1>11, <1>12, <1>13 DEF WInv

LEMMA BroadcastStep == ASSUME WInv, BroadCastTxAsync PROVE WInv'
<1>1. Order[cur] \in Names /\ (cur = 1 => Order[cur] = "send")
  BY OrderFacts DEF WInv, TypeOK
<1>2. /\ polls' = 0 /\ pool' \subseteq pool \cup {Order[cur]}
      /\ UNCHANGED <<faults, accSeq, balance, passed, rejected, shown, cur,
                     found, address, resolved>>
      /\ pc = "broadcast"
  BY DEF BroadCastTxAsync, FirstPoll
<1>3. \/ pc' \in {"pause", "done"} /\ cur = 1
      \/ pc' \in {"wait", "panicked"} /\ cur # 1
  BY DEF BroadCastTxAsync
<1>4. TypeOK'
  <2>1. polls' \in 0 .. MaxPolls /\ pool' \subseteq Names
    BY <1>1, <1>2, MaxPollsAssumption DEF WInv, TypeOK
  <2> QED
    BY <1>2, <1>3, <2>1 DEF WInv, TypeOK, PCs, Ended
<1>5. TransferOK'
  <2>1. cur = 1 => pool' \cup passed' \cup rejected' \subseteq {"send"}
    BY <1>1, <1>2 DEF WInv, TransferOK
  <2>2. cur' = 1 /\ "send" \notin passed' =>
           (Untouched' \/ FeePaid') /\ balance'["user2"] = 0
    BY <1>2 DEF WInv, TransferOK, Untouched, FeePaid
  <2>3. pc' = "pause" => Len(shown') = 2
    BY <1>2, <1>3 DEF WInv, TransferOK
  <2>4. pc' = "wait" => polls' < MaxPolls
    BY <1>2, MaxPollsAssumption
  <2> QED
    BY <1>2, <1>3, <2>1, <2>2, <2>3, <2>4 DEF TransferOK
<1>6. ChainOK' /\ FoundOK' /\ TransferShown'
  BY <1>2 DEF WInv, ChainOK, Solvent, FoundOK, TransferShown
<1> QED
  BY <1>4, <1>5, <1>6 DEF WInv

(* A step that leaves the chain alone and does not go back to balances.    *)
LEMMA OtherStep ==
    ASSUME WInv, UNCHANGED <<chainVars, shown>>,
           pc' \in {"balances", "query", "broadcast", "wait", "done"},
           cur' \in DOMAIN Order, cur' = 1 => cur = 1,
           pc' = "balances" => cur' = 1 /\ Len(shown) <= 3,
           pc' = "broadcast" => cur' # 1,
           polls' \in 0 .. MaxPolls,
           pc' = "wait" => cur' # 1 /\ polls' < MaxPolls,
           found' \subseteq passed,
           address' \in BOOLEAN, resolved' \in BOOLEAN,
           address' \/ resolved' => "instantiate" \in passed
    PROVE  WInv'
<1>1. UNCHANGED <<faults, accSeq, balance, pool, passed, rejected, shown>>
  BY DEF chainVars
<1>2. pc' \in PCs /\ found' \subseteq Names
  BY DEF WInv, TypeOK, PCs, Ended
<1>3. TypeOK'
  BY <1>1, <1>2 DEF WInv, TypeOK
<1>4. ChainOK' /\ FoundOK' /\ TransferShown'
  BY <1>1 DEF WInv, ChainOK, Solvent, FoundOK, TransferShown
<1>5. TransferOK'
  <2>1. cur' = 1 => pool' \cup passed' \cup rejected' \subseteq {"send"}
    BY <1>1 DEF WInv, TransferOK
  <2>2. cur' = 1 /\ "send" \notin passed' =>
           (Untouched' \/ FeePaid') /\ balance'["user2"] = 0
    BY <1>1 DEF WInv, TransferOK, Untouched, FeePaid
  <2> QED
    BY <1>1, <2>1, <2>2 DEF TransferOK
<1> QED
  BY <1>3, <1>4, <1>5 DEF WInv

LEMMA TestKeeps == ASSUME WInv, TestStep PROVE WInv'
<1>1. /\ found \subseteq passed /\ address \in BOOLEAN /\ resolved \in BOOLEAN
      /\ (address \/ resolved => "instantiate" \in passed)
      /\ cur \in DOMAIN Order /\ polls \in 0 .. MaxPolls
  BY DEF WInv, TypeOK, FoundOK
<1>2. CASE Info
  <2>1. /\ pc = "info" /\ pc' = "balances"
        /\ UNCHANGED <<chainVars, shown, cur, polls, found, address, resolved>>
    BY <1>2 DEF Info
  <2>2. cur = 1 /\ Len(shown) <= 3
    BY <2>1 DEF WInv, TransferOK
  <2> QED
    BY <1>1, <2>1, <2>2, OtherStep
<1>3. CASE GetBalances
  BY <1>3, BalancesStep
<1>4. CASE BroadCastTxAsync
  BY <1>4, BroadcastStep
<1>5. CASE Pause
  <2>1. /\ pc = "pause" /\ pc' = "balances"
        /\ UNCHANGED <<chainVars, shown, cur, polls, found, address, resolved>>
    BY <1>5 DEF Pause
  <2>2. cur = 1 /\ Len(shown) = 2
    BY <2>1 DEF WInv, TransferOK
  <2>3. Len(shown) <= 3
    BY <2>2
  <2> QED
    BY <1>1, <2>1, <2>2, <2>3, OtherStep
<1>6. CASE TxMiss
  <2>1. /\ pc = "wait" /\ polls' = polls + 1
        /\ UNCHANGED <<chainVars, shown, found, address, resolved>>
        /\ \/ polls + 1 < MaxPolls /\ UNCHANGED <<pc, cur>>
           \/ GoOn
    BY <1>6 DEF TxMiss, Polled
  <2>2. cur # 1 /\ polls < MaxPolls
    BY <2>1 DEF WInv, TransferOK
  <2>3. polls' \in 0 .. MaxPolls
    BY <1>1, <2>1, <2>2, MaxPollsAssumption
  <2>4. CASE GoOn
    BY <1>1, <2>1, <2>3, <2>4, GoOnFacts, OtherStep
  <2>5. CASE polls + 1 < MaxPolls /\ UNCHANGED <<pc, cur>>
    BY <1>1, <2>1, <2>2, <2>3, <2>5, OtherStep
  <2> QED
    BY <2>1, <2>4, <2>5
<1>7. CASE TxResult
  <2>1. /\ GoOn
        /\ UNCHANGED <<chainVars, shown, polls, resolved>>
        /\ \/ UNCHANGED <<found, address>>
           \/ /\ Order[cur] \in passed
              /\ found' = found \cup {Order[cur]}
              /\ address' = (address \/ Order[cur] = "instantiate")
    BY <1>7 DEF TxResult, Success
  <2>2. found' \subseteq passed
    BY <1>1, <2>1
  <2>3. /\ address' \in BOOLEAN
        /\ (address' \/ resolved => "instantiate" \in passed)
    <3>1. CASE UNCHANGED address
      BY <1>1, <3>1
    <3>2. CASE /\ Order[cur] \in passed
               /\ address' = (address \/ Order[cur] = "instantiate")
      BY <1>1, <3>2, Zenon
    <3> QED
      BY <2>1, <3>1, <3>2
  <2> QED
    BY <1>1, <2>1, <2>2, <2>3, GoOnFacts, OtherStep
<1>8. CASE Query
  <2>1. /\ pc = "query" /\ pc' = "done"
        /\ resolved' \in {Instantiated = 1, FALSE}
        /\ UNCHANGED <<chainVars, shown, cur, polls, found, address>>
    BY <1>8 DEF Query
  <2>2. resolved' \in BOOLEAN /\ (resolved' => "instantiate" \in passed)
    <3>1. Instantiated = 1 => "instantiate" \in passed
      BY DEF Instantiated
    <3>2. CASE resolved' = (Instantiated = 1)
      BY <3>1, <3>2, Zenon
    <3>3. CASE resolved' = FALSE
      BY <3>3
    <3> QED
      BY <2>1, <3>2, <3>3
  <2> QED
    BY <1>1, <2>1, <2>2, OtherStep
<1> QED
  BY <1>2, <1>3, <1>4, <1>5, <1>6, <1>7, <1>8 DEF TestStep

LEMMA WStutter == ASSUME WInv, UNCHANGED vars PROVE WInv'
<1>1. /\ UNCHANGED <<faults, accSeq, balance, pool, passed, rejected>>
      /\ UNCHANGED <<pc, shown, cur, polls, found, address, resolved>>
  BY DEF vars, chainVars, testVars
<1>2. TypeOK'
  BY <1>1 DEF WInv, TypeOK
<1>3. ChainOK' /\ FoundOK' /\ TransferShown'
  BY <1>1 DEF WInv, ChainOK, Solvent, FoundOK, TransferShown
<1>4. TransferOK'
  BY <1>1 DEF WInv, TransferOK, Untouched, FeePaid
<1> QED
  BY <1>2, <1>3, <1>4 DEF WInv

-----------------------------------------------------------------------------
(* The theorems.                                                           *)

LEMMA WasmInvariant == Spec => []WInv
<1>1. WInv /\ [Next]_vars => WInv'
  BY ChainKeeps, TestKeeps, WStutter DEF Next, Terminated
<1> QED
  BY WInit, <1>1, PTL DEF Spec

(* Every variable of the wasm tests keeps its type, and user1 never owes   *)
(* anything: the payloads cost less than the genesis document gives.       *)
THEOREM WasmTypes == Spec => []TypeOK
<1>1. WInv => TypeOK
  BY DEF WInv
<1> QED
  BY <1>1, WasmInvariant, PTL

(* A "Success!" line, an address or an answer to the final query is about  *)
(* transactions on the chain, and so is all they rest on.                  *)
THEOREM SuccessIsReal == Spec => []SuccessIsCommitted
<1>1. WInv => SuccessIsCommitted
  BY DEF WInv, ChainOK, FoundOK, SuccessIsCommitted
<1> QED
  BY <1>1, WasmInvariant, PTL

(* A balance GetBalances knows, other than the one a user starts with, is  *)
(* shown only after the transfer was executed.                             *)
THEOREM TransferIsReal == Spec => []TransferShown
<1>1. WInv => TransferShown
  BY DEF WInv
<1> QED
  BY <1>1, WasmInvariant, PTL

-----------------------------------------------------------------------------
(* The test ends.                                                          *)

LEMMA OneMore ==
    ASSUME NEW n \in Nat, NEW m \in Nat
    PROVE  n * m \in Nat /\ (n + 1) * m = n * m + m
OBVIOUS

LEMMA StepsAfterFacts ==
    WInv =>
        /\ StepsAfter \in Nat \ {0}
        /\ cur = 4 => StepsAfter = 1
<1> SUFFICES ASSUME WInv
             PROVE  /\ StepsAfter \in Nat \ {0}
                    /\ cur = 4 => StepsAfter = 1
  OBVIOUS
<1>1. cur \in 1 .. 4 /\ Len(Order) = 4 /\ MaxPolls \in Nat
  BY OrderFacts, MaxPollsAssumption DEF WInv, TypeOK
<1>2. 4 - cur \in Nat /\ MaxPolls + 1 \in Nat
  BY <1>1
<1>3. (4 - cur) * (MaxPolls + 1) \in Nat
  BY <1>2, OneMore
<1>4. cur = 4 => (4 - cur) * (MaxPolls + 1) = 0
  BY <1>1
<1> QED
  BY <1>1, <1>3, <1>4 DEF StepsAfter

LEMMA StepsLeftNat == WInv => StepsLeft \in Nat
<1> SUFFICES ASSUME WInv PROVE StepsLeft \in Nat
  OBVIOUS
<1>1. /\ StepsAfter \in Nat /\ MaxPolls \in Nat /\ polls \in 0 .. MaxPolls
      /\ pc \in PCs /\ Len(shown) \in Nat /\ Len(shown) <= 4
  BY StepsAfterFacts, MaxPollsAssumption DEF WInv, TypeOK
<1>2. pc = "balances" => Len(shown) <= 3
  BY DEF WInv, TransferOK
<1>3. CASE pc \in {"done", "panicked", "query"}
  <2>1. StepsLeft = 0 \/ StepsLeft = 1
    BY <1>3 DEF StepsLeft, Ended
  <2> QED
    BY <2>1
<1>4. CASE pc = "info"
  <2>1. StepsLeft = StepsAfter + 7
    BY <1>4 DEF StepsLeft, Ended
  <2> QED
    BY <1>1, <2>1
<1>5. CASE pc = "pause"
  <2>1. StepsLeft = StepsAfter + 3
    BY <1>5 DEF StepsLeft, Ended
  <2> QED
    BY <1>1, <2>1
<1>6. CASE pc = "broadcast"
  <2>1. StepsLeft = StepsAfter + 4 \/ StepsLeft = StepsAfter + (MaxPolls + 1)
    BY <1>6 DEF StepsLeft, Ended
  <2> QED
    BY <1>1, <2>1
<1>7. CASE pc = "wait"
  <2>1. StepsLeft = StepsAfter + MaxPolls - polls
    BY <1>7 DEF StepsLeft, Ended
  <2> QED
    BY <1>1, <2>1
<1>8. CASE pc = "balances"
  <2>1. \/ StepsLeft = StepsAfter + 6 - Len(shown)
        \/ StepsLeft = StepsAfter + 4 - Len(shown)
    BY <1>8 DEF StepsLeft, Ended
  <2> QED
    BY <1>1, <1>2, <1>8, <2>1
<1> QED
  BY <1>1, <1>3, <1>4, <1>5, <1>6, <1>7, <1>8 DEF PCs, Ended

(* What follows a payload is what was still to do after it.                *)
LEMMA GoOnSteps == ASSUME WInv, GoOn PROVE StepsLeft' = StepsAfter
<1>1. cur \in 1 .. 4 /\ Len(Order) = 4 /\ MaxPolls \in Nat
  BY OrderFacts, MaxPollsAssumption DEF WInv, TypeOK
<1>2. CASE cur = 4
  <2>1. pc' = "query" /\ StepsAfter = 1
    BY <1>1, <1>2, StepsAfterFacts DEF GoOn
  <2> QED
    BY <2>1 DEF StepsLeft, Ended
<1>3. CASE cur # 4
  <2>1. pc' = "broadcast" /\ cur' = cur + 1 /\ cur' # 1
    BY <1>1, <1>3 DEF GoOn
  <2>2. StepsLeft' = StepsAfter' + (MaxPolls + 1)
    BY <2>1 DEF StepsLeft, Ended
  <2>3. /\ StepsAfter' = (4 - cur') * (MaxPolls + 1) + 1
        /\ StepsAfter = (4 - cur) * (MaxPolls + 1) + 1
    BY <1>1 DEF StepsAfter
  <2>4. 4 - cur' \in Nat /\ (4 - cur') + 1 = 4 - cur /\ MaxPolls + 1 \in Nat
    BY <1>1, <1>3, <2>1
  <2>5. (4 - cur) * (MaxPolls + 1) = (4 - cur') * (MaxPolls + 1) + (MaxPolls + 1)
    BY <2>4, OneMore
  <2>6. (4 - cur') * (MaxPolls + 1) \in Nat
    BY <2>4, OneMore
  <2> QED
    BY <1>1, <2>2, <2>3, <2>5, <2>6
<1> QED
  BY <1>2, <1>3

LEMMA TestCountdown == ASSUME WInv, TestStep PROVE StepsLeft' < StepsLeft
<1>1. /\ StepsAfter \in Nat \ {0} /\ MaxPolls \in Nat \ {0}
      /\ polls \in 0 .. MaxPolls
      /\ shown \in Seq(SUBSET Nat) /\ Len(shown) \in Nat
  BY StepsAfterFacts, MaxPollsAssumption DEF WInv, TypeOK
<1>2. cur' = cur => StepsAfter' = StepsAfter
  BY DEF StepsAfter
<1>3. CASE Info
  <2>1. pc = "info" /\ pc' = "balances" /\ UNCHANGED <<cur, shown>>
    BY <1>3 DEF Info
  <2>2. Len(shown) = 0
    BY <2>1 DEF WInv, TransferOK
  <2> QED
    BY <1>1, <1>2, <2>1, <2>2 DEF StepsLeft, Ended
<1>4. CASE GetBalances
  <2>0. pc = "balances" /\ Len(shown) <= 3
    BY <1>4 DEF GetBalances, WInv, TransferOK
  <2>1. pc = "balances" /\ Len(shown) \in 0 .. 3
    BY <1>1, <2>0, Counts
  <2>2. Len(shown') = Len(shown) + 1
    BY <1>1, <1>4 DEF GetBalances
  <2>3. StepsLeft = StepsAfter + (IF Len(shown) < 2 THEN 6 ELSE 4) - Len(shown)
    BY <2>1 DEF StepsLeft, Ended
  <2>4. CASE Len(shown) = 1
    <3>1. pc' = "broadcast" /\ cur' = cur /\ cur = 1
      BY <1>4, <2>1, <2>4 DEF GetBalances, WInv, TransferOK
    <3>2. StepsLeft' = StepsAfter + 4
      BY <1>2, <3>1 DEF StepsLeft, Ended
    <3> QED
      BY <1>1, <2>3, <2>4, <3>2
  <2>5. CASE Len(shown) = 3
    <3>1. GoOn
      BY <1>4, <2>5 DEF GetBalances
    <3>2. StepsLeft' = StepsAfter
      BY <3>1, GoOnSteps
    <3> QED
      BY <1>1, <2>3, <2>5, <3>2
  <2>6. CASE Len(shown) \in {0, 2}
    <3>1. pc' = "balances" /\ cur' = cur
      BY <1>4, <2>1, <2>6 DEF GetBalances
    <3>2. StepsLeft' = StepsAfter + (IF Len(shown') < 2 THEN 6 ELSE 4)
                         - Len(shown')
      BY <1>2, <3>1 DEF StepsLeft, Ended
    <3> QED
      BY <1>1, <2>2, <2>3, <2>6, <3>2
  <2> QED
    BY <2>1, <2>4, <2>5, <2>6
<1>5. CASE BroadCastTxAsync
  <2>1. /\ pc = "broadcast" /\ cur' = cur /\ polls' = 0
        /\ \/ cur = 1 /\ pc' \in {"pause", "done"}
           \/ cur # 1 /\ pc' \in {"wait", "panicked"}
    BY <1>5 DEF BroadCastTxAsync, FirstPoll
  <2>2. StepsLeft = StepsAfter + (IF cur = 1 THEN 4 ELSE MaxPolls + 1)
    BY <2>1 DEF StepsLeft, Ended
  <2>3. CASE cur = 1
    <3>1. StepsLeft' = StepsAfter + 3 \/ StepsLeft' = 0
      BY <1>2, <2>1, <2>3 DEF StepsLeft, Ended
    <3> QED
      BY <1>1, <2>2, <2>3, <3>1
  <2>4. CASE cur # 1
    <3>1. StepsLeft' = StepsAfter + MaxPolls - 0 \/ StepsLeft' = 0
      BY <1>2, <2>1, <2>4 DEF StepsLeft, Ended
    <3> QED
      BY <1>1, <2>2, <2>4, <3>1
  <2> QED
    BY <2>3, <2>4
<1>6. CASE Pause
  <2>1. pc = "pause" /\ pc' = "balances" /\ UNCHANGED <<cur, shown>>
    BY <1>6 DEF Pause
  <2>2. StepsLeft = StepsAfter + 3
    BY <2>1 DEF StepsLeft, Ended
  <2>3. StepsLeft' = StepsAfter + (IF Len(shown) < 2 THEN 6 ELSE 4) - Len(shown)
    BY <1>2, <2>1 DEF StepsLeft, Ended
  <2>4. Len(shown) >= 2
    BY <2>1 DEF WInv, TransferOK
  <2> QED
    BY <1>1, <2>2, <2>3, <2>4
<1>7. CASE TxMiss \/ TxResult
  <2>1. pc = "wait" /\ polls < MaxPolls
    BY <1>7 DEF TxMiss, TxResult, WInv, TransferOK
  <2>2. StepsLeft = StepsAfter + MaxPolls - polls
    BY <2>1 DEF StepsLeft, Ended
  <2>3. CASE GoOn
    <3>1. StepsLeft' = StepsAfter
      BY <2>3, GoOnSteps
    <3> QED
      BY <1>1, <2>1, <2>2, <3>1
  <2>4. CASE UNCHANGED <<pc, cur>> /\ polls' = polls + 1
    <3>1. StepsLeft' = StepsAfter + MaxPolls - polls'
      BY <1>2, <2>1, <2>4 DEF StepsLeft, Ended
    <3> QED
      BY <1>1, <2>2, <2>4, <3>1
  <2> QED
    BY <1>7, <2>3, <2>4 DEF TxMiss, TxResult, Polled
<1>8. CASE Query
  BY <1>8 DEF Query, StepsLeft, Ended
<1> QED
  BY <1>3, <1>4, <1>5, <1>6, <1>7, <1>8 DEF TestStep

(* Every step of the test takes at least one from the number of those      *)
(* left, and the chain adds none: whatever it loses, fails or delays, the  *)
(* test makes no more than StepsLeft steps.                                *)
THEOREM WasmCountdown == Spec => Countdown
<1>1. WInv' => (StepsLeft \in Nat)'
  BY StepsLeftNat, PTL
<1>2. WInv /\ WInv' /\ [Next]_vars =>
        [/\ StepsLeft' \in Nat
         /\ StepsLeft' <= StepsLeft
         /\ TestStep => StepsLeft' < StepsLeft]_vars
  <2> SUFFICES ASSUME WInv, WInv', Next
               PROVE  /\ StepsLeft' \in Nat
                      /\ StepsLeft' <= StepsLeft
                      /\ TestStep => StepsLeft' < StepsLeft
    OBVIOUS
  <2>1. StepsLeft \in Nat /\ StepsLeft' \in Nat
    BY <1>1, StepsLeftNat
  <2>2. TestStep => StepsLeft' < StepsLeft
    BY TestCountdown
  <2>3. ~TestStep => StepsLeft' = StepsLeft
    <3> SUFFICES ASSUME ~TestStep PROVE StepsLeft' = StepsLeft
      OBVIOUS
    <3>1. UNCHANGED <<pc, shown, cur, polls>>
      BY DEF Next, ChainStep, Terminated, vars, testVars
    <3> QED
      BY <3>1 DEF StepsLeft, StepsAfter
  <2> QED
    BY <2>1, <2>2, <2>3
<1> QED
  BY <1>2, WasmInvariant, PTL DEF Spec, Countdown

-----------------------------------------------------------------------------
(* A chain without faults.                                                 *)

(* It has executed the first accSeq payloads, and refused none.            *)
UpTo(n) == {Order[i] : i \in 1 .. n}
Landed == passed = UpTo(accSeq) /\ rejected = {}

(* The test sends a payload when the one before is in a block, so at most  *)
(* one is pending, and it is the next one the chain expects.               *)
Sequential ==
    /\ pc \in {"info", "balances", "broadcast", "query", "done"} => pool = {}
    /\ pc \in {"pause", "wait"} =>
         \/ pool = {} /\ accSeq = cur
         \/ pool = {Order[cur]} /\ accSeq = cur - 1
    /\ pc \in {"info", "broadcast"} => accSeq = cur - 1
    /\ pc = "balances" => accSeq = (IF Len(shown) < 2 THEN 0 ELSE 1)
    /\ pc = "query" => accSeq = 4

(* Each payload in a block has its line, except for the transfer.          *)
FoundAll ==
    /\ pc \in {"info", "balances", "pause", "broadcast", "wait"} =>
         found = UpTo(cur - 1) \ {"send"}
    /\ pc = "query" => found = Names \ {"send"}
    /\ "instantiate" \in found => address

(* The balances while the test looks at them, and what it has seen.        *)
Rest == 994900000
Gift == 5000000
BalancesAre(a, b) == balance["user1"] = a /\ balance["user2"] = b
ShownAll ==
    /\ accSeq = 0 => BalancesAre(Stake, 0)
    /\ accSeq = 1 => BalancesAre(Rest, Gift)
    /\ cur # 1 \/ pc = "query" => Len(shown) = 4
    /\ \A i \in DOMAIN shown : shown[i] = BothRounds[i]

GInv ==
    faults = {} =>
        Landed /\ Sequential /\ FoundAll /\ ShownAll /\ PassesWhenDone

LEMMA PayloadRefs ==
    /\ \A t \in Names : Payload[t].number = 1
    /\ \A t \in Names : Payload[t].msg.code \in {0, 1}
    /\ \A t \in Names : Payload[t].msg.contract \in {0, 1}
    /\ \A t \in Names : Payload[t].msg.code = 1 => t = "instantiate"
    /\ \A t \in Names : Payload[t].msg.contract = 1 => t = "execute"
    /\ Payload["send"].msg.to = "user2" /\ Payload["send"].msg.amount = Gift
<1> DEFINE acc0 == AddAccount(0, 1)
           acc1 == IncreaseSequence(acc0)
           acc2 == AfterDeployContract(acc1)
           acc3 == IncreaseSequence(acc2)
<1>1. /\ acc0.Number = 1 /\ acc1.Number = 1
      /\ acc2.Number = 1 /\ acc3.Number = 1
  BY DEF AddAccount, IncreaseSequence, AfterDeployContract
<1>2. Payload = [send |-> BankSendTxHex(acc0, "user2", 5000000),
                 deploy |-> DeployContractHex(acc1),
                 instantiate |-> MsgInstantiateContractHex(acc2),
                 execute |-> MsgExecuteContractHex(acc3, 1)]
  BY DEF Payload
<1> HIDE DEF acc0, acc1, acc2, acc3
<1>3. /\ Payload["send"] = BankSendTxHex(acc0, "user2", 5000000)
      /\ Payload["deploy"] = DeployContractHex(acc1)
      /\ Payload["instantiate"] = MsgInstantiateContractHex(acc2)
      /\ Payload["execute"] = MsgExecuteContractHex(acc3, 1)
  BY <1>2
<1>4. /\ Payload["send"].number = 1 /\ Payload["send"].msg.code = 0
      /\ Payload["send"].msg.contract = 0
      /\ Payload["send"].msg.to = "user2" /\ Payload["send"].msg.amount = Gift
  BY <1>1, <1>3, SMT DEF BankSendTxHex, GetSignedTxBytes, Gift
<1>5. /\ Payload["deploy"].number = 1 /\ Payload["deploy"].msg.code = 0
      /\ Payload["deploy"].msg.contract = 0
  BY <1>1, <1>3, SMT DEF DeployContractHex, GetSignedTxBytes
<1>6. /\ Payload["instantiate"].number = 1
      /\ Payload["instantiate"].msg.code = 1
      /\ Payload["instantiate"].msg.contract = 0
  BY <1>1, <1>3, SMT DEF MsgInstantiateContractHex, GetSignedTxBytes
<1>7. /\ Payload["execute"].number = 1 /\ Payload["execute"].msg.code = 0
      /\ Payload["execute"].msg.contract = 1
  BY <1>1, <1>3, SMT DEF MsgExecuteContractHex, GetSignedTxBytes
<1> QED
  BY <1>4, <1>5, <1>6, <1>7, OrderFacts

LEMMA UpToFacts ==
    /\ UpTo(0) = {}
    /\ \A n \in Nat : UpTo(n + 1) = UpTo(n) \cup {Order[n + 1]}
    /\ UpTo(4) = Names
    /\ Order[2] = "deploy" /\ Order[3] = "instantiate" /\ Order[4] = "execute"
    /\ \A i \in 1 .. 4 : Payload[Order[i]].sequence = i - 1
    /\ \A i \in 1 .. 4 : Order[i] = "send" => i = 1
<1>1. UpTo(0) = {}
  BY DEF UpTo
<1>2. ASSUME NEW n \in Nat
      PROVE  UpTo(n + 1) = UpTo(n) \cup {Order[n + 1]}
  <2>1. 1 .. n + 1 = (1 .. n) \cup {n + 1}
    OBVIOUS
  <2> QED
    BY <2>1 DEF UpTo
<1>3. UpTo(4) = Names
  BY OrderFacts DEF UpTo, Names
<1>4. Order[2] = "deploy" /\ Order[3] = "instantiate" /\ Order[4] = "execute"
  BY DEF Order
<1>5. 1 .. 4 = {1, 2, 3, 4}
  OBVIOUS
<1>6. \A i \in 1 .. 4 : Payload[Order[i]].sequence = i - 1
  BY <1>4, <1>5, PayloadFacts, OrderFacts
<1> QED
  BY <1>1, <1>2, <1>3, <1>4, <1>5, <1>6, OrderFacts

LEMMA KnownBalances ==
    /\ {Stake, 0, Rest, Gift} \subseteq decodedBalances
    /\ BothRounds[1] = {Stake} /\ BothRounds[2] = {0}
    /\ BothRounds[3] = {Rest} /\ BothRounds[4] = {Gift}
    /\ Stake - (defaultGasPrice + Gift) = Rest /\ Gift = 0 + Gift
    /\ Gift \in Nat /\ Rest \in Nat
BY SMT DEF decodedBalances, BothRounds, Stake, Rest, Gift, defaultGasPrice

(* A pending payload is the one in work, signed for the sequence the chain *)
(* is at, and all it refers to is there.                                   *)
LEMMA PendingIsNext ==
    ASSUME WInv, GInv, faults = {}, NEW t \in pool
    PROVE  /\ t = Order[cur] /\ pool = {t} /\ accSeq = cur - 1
           /\ pc \in {"pause", "wait"}
           /\ SignedForNext(t) /\ Executable(t)
<1>1. pc \in {"pause", "wait"}
  BY DEF GInv, Sequential, PassesWhenDone, WInv, TypeOK, PCs, Ended
<1>2. t = Order[cur] /\ pool = {t} /\ accSeq = cur - 1
  BY <1>1 DEF GInv, Sequential
<1>3. cur \in 1 .. 4 /\ t \in Names
  BY OrderFacts DEF WInv, TypeOK
<1>4. SignedForNext(t)
  BY <1>2, <1>3, UpToFacts, PayloadRefs DEF SignedForNext, GenesisNumber
<1>5. t = "instantiate" => "deploy" \in passed
  <2> SUFFICES ASSUME t = "instantiate" PROVE "deploy" \in UpTo(accSeq)
    BY DEF GInv, Landed
  <2>1. cur = 3
    BY <1>2, <1>3, OrderFacts, UpToFacts
  <2>2. UpTo(1 + 1) = UpTo(1) \cup {Order[1 + 1]} /\ 1 + 1 = 2
    BY UpToFacts
  <2> QED
    BY <1>2, <2>1, <2>2, UpToFacts
<1>6. t = "execute" => "instantiate" \in passed
  <2> SUFFICES ASSUME t = "execute" PROVE "instantiate" \in UpTo(accSeq)
    BY DEF GInv, Landed
  <2>1. cur = 4
    BY <1>2, <1>3, OrderFacts, UpToFacts
  <2>2. UpTo(2 + 1) = UpTo(2) \cup {Order[2 + 1]} /\ 2 + 1 = 3
    BY UpToFacts
  <2> QED
    BY <1>2, <2>1, <2>2, UpToFacts
<1>7. Executable(t)
  <2>1. Stored \in {0, 1} /\ ("deploy" \in passed => Stored = 1)
    BY DEF Stored
  <2>2. /\ Instantiated \in {0, 1}
        /\ ("instantiate" \in passed => Instantiated = 1)
    BY DEF Instantiated
  <2>3. /\ Payload[t].msg.code = 0
             \/ (Payload[t].msg.code = 1 /\ "deploy" \in passed)
        /\ Payload[t].msg.contract = 0
             \/ (Payload[t].msg.contract = 1 /\ "instantiate" \in passed)
    BY <1>3, <1>5, <1>6, PayloadRefs
  <2> QED
    BY <2>1, <2>2, <2>3 DEF Executable
<1> QED
  BY <1>1, <1>2, <1>4, <1>7

(* So the chain executes it.                                               *)
LEMMA ChainGInv == ASSUME WInv, GInv, ChainStep PROVE GInv'
<1> SUFFICES ASSUME faults = {} PROVE GInv'
  BY DEF GInv, ChainStep
<1> PICK t \in pool :
      /\ Include(t) \/ Refuse(t) \/ Lose
      /\ pool' = pool \ {t}
  BY DEF ChainStep
<1>1. UNCHANGED <<faults, pc, shown, cur, polls, found, address, resolved>>
  BY DEF ChainStep, testVars
<1>2. /\ t = Order[cur] /\ pool = {t} /\ accSeq = cur - 1
      /\ pc \in {"pause", "wait"}
      /\ SignedForNext(t) /\ Executable(t)
  BY PendingIsNext
<1>3. /\ passed' = passed \cup {t} /\ rejected' = rejected
      /\ PayAndTransfer(t) /\ accSeq' = accSeq + 1
  BY <1>2 DEF Include, Refuse, Lose
<1>4. cur \in 1 .. 4 /\ accSeq \in Nat /\ accSeq' = cur
  BY <1>2, <1>3, OrderFacts DEF WInv, TypeOK
<1>5. Landed'
  <2>1. UpTo(accSeq + 1) = UpTo(accSeq) \cup {Order[accSeq + 1]}
    BY <1>4, UpToFacts
  <2>2. Order[accSeq + 1] = t /\ accSeq + 1 = accSeq'
    BY <1>2, <1>3, <1>4
  <2> QED
    BY <1>3, <2>1, <2>2 DEF GInv, Landed
<1>6. Sequential'
  BY <1>1, <1>2, <1>4 DEF Sequential
<1>7. ShownAll'
  <2>1. ASSUME accSeq' = 1 PROVE BalancesAre(Rest, Gift)'
    <3>1. cur = 1 /\ t = "send" /\ accSeq = 0
      BY <1>2, <1>4, <2>1, OrderFacts
    <3>2. balance["user1"] = Stake /\ balance["user2"] = 0
      BY <3>1 DEF GInv, ShownAll, BalancesAre
    <3>3. /\ Payload[t].fee = defaultGasPrice /\ Payload[t].msg.amount = Gift
          /\ Payload[t].msg.to = "user2"
      BY <3>1, PayloadFacts, PayloadRefs
    <3>4. balance' = [u \in Users |->
              balance[u]
                - (IF u = "user1" THEN defaultGasPrice + Gift ELSE 0)
                + (IF u = "user2" THEN Gift ELSE 0)]
      BY <1>3, <3>3 DEF PayAndTransfer
    <3>5. /\ balance'["user1"] = Stake - (defaultGasPrice + Gift) + 0
          /\ balance'["user2"] = 0 - 0 + Gift
      BY <3>2, <3>4, GenesisFacts
    <3> QED
      BY <3>5, KnownBalances DEF BalancesAre
  <2>2. accSeq' # 0
    BY <1>4
  <2> QED
    BY <1>1, <2>1, <2>2 DEF GInv, ShownAll
<1>8. FoundAll' /\ PassesWhenDone'
  BY <1>1, <1>2 DEF GInv, FoundAll, PassesWhenDone
<1> QED
  BY <1>3, <1>5, <1>6, <1>7, <1>8 DEF GInv

(* The test goes on with a payload in a block.                             *)
LEMMA GoOnGInv ==
    ASSUME WInv, GInv, faults = {}, GoOn, UNCHANGED chainVars,
           pool = {}, accSeq = cur, Len(shown') = 4,
           \A i \in DOMAIN shown' : shown'[i] = BothRounds[i],
           found' = UpTo(cur) \ {"send"}, "instantiate" \in found' => address'
    PROVE  GInv'
<1>1. UNCHANGED <<faults, accSeq, balance, pool, passed, rejected>>
  BY DEF chainVars
<1>2. cur \in 1 .. 4 /\ Len(Order) = 4
  BY OrderFacts DEF WInv, TypeOK
<1>3. \/ cur = 4 /\ pc' = "query"
      \/ cur # 4 /\ pc' = "broadcast" /\ cur' = cur + 1
  BY <1>2 DEF GoOn
<1>4. Sequential'
  BY <1>1, <1>2, <1>3 DEF Sequential
<1>5. FoundAll'
  BY <1>2, <1>3, UpToFacts DEF FoundAll
<1>6. ShownAll'
  BY <1>1 DEF GInv, ShownAll, BalancesAre
<1>7. PassesWhenDone' /\ Landed'
  BY <1>1, <1>3 DEF PassesWhenDone, GInv, Landed
<1> QED
  BY <1>4, <1>5, <1>6, <1>7 DEF GInv

LEMMA BalancesGInv == ASSUME WInv, GInv, GetBalances PROVE GInv'
<1> SUFFICES ASSUME faults = {} PROVE GInv'
  BY DEF GInv, GetBalances, chainVars
<1> DEFINE n == Len(shown)
<1>1. pc = "balances" /\ cur = 1 /\ shown \in Seq(SUBSET Nat)
  BY DEF GetBalances, WInv, TypeOK, TransferOK
<1>2. n \in 0 .. 3
  <2>1. n <= 3 /\ n \in Nat
    BY <1>1 DEF WInv, TransferOK
  <2> QED
    BY <2>1, Counts
<1>3. /\ UNCHANGED <<faults, accSeq, balance, pool, passed, rejected>>
      /\ UNCHANGED <<chainVars, polls, found, address, resolved>>
  BY DEF GetBalances, chainVars
<1>4. pool = {} /\ accSeq = (IF n < 2 THEN 0 ELSE 1) /\ found = UpTo(0) \ {"send"}
  BY <1>1 DEF GInv, Sequential, FoundAll
<1>5. PICK line \in Lines(UserAt(n + 1)) : shown' = Append(shown, line)
  BY DEF GetBalances
<1>6. line = {balance[UserAt(n + 1)]} \cap decodedBalances
  BY DEF Lines
<1>7. line = BothRounds[n + 1]
  <2>1. n \in {0, 1, 2, 3}
    BY <1>2
  <2>2. /\ UserAt(1) = "user1" /\ UserAt(2) = "user2"
        /\ UserAt(3) = "user1" /\ UserAt(4) = "user2"
    BY DEF UserAt
  <2>3. /\ n < 2 => BalancesAre(Stake, 0)
        /\ n >= 2 => BalancesAre(Rest, Gift)
    BY <1>4, <2>1 DEF GInv, ShownAll
  <2>4. CASE n = 0
    BY <1>6, <2>2, <2>3, <2>4, KnownBalances DEF BalancesAre
  <2>5. CASE n = 1
    BY <1>6, <2>2, <2>3, <2>5, KnownBalances DEF BalancesAre
  <2>6. CASE n = 2
    BY <1>6, <2>2, <2>3, <2>6, KnownBalances DEF BalancesAre
  <2>7. CASE n = 3
    BY <1>6, <2>2, <2>3, <2>7, KnownBalances DEF BalancesAre
  <2> QED
    BY <2>1, <2>4, <2>5, <2>6, <2>7
<1>8. Len(shown') = n + 1 /\ \A i \in DOMAIN shown' : shown'[i] = BothRounds[i]
  <2>1. /\ shown' \in Seq(SUBSET Nat) /\ Len(shown') = n + 1
        /\ DOMAIN shown = 1 .. n /\ DOMAIN shown' = 1 .. n + 1
        /\ \A i \in 1 .. n : shown'[i] = shown[i]
        /\ shown'[n + 1] = line
    <3>1. line \in SUBSET Nat
      BY <1>1, <1>2, GenesisFacts, LinesFacts
    <3> QED
      BY <1>1, <1>5, <3>1
  <2>2. \A i \in 1 .. n : shown[i] = BothRounds[i]
    BY <2>1 DEF GInv, ShownAll
  <2> HIDE DEF n
  <2>3. \A i \in 1 .. n + 1 : i \in 1 .. n \/ i = n + 1
    BY <1>2
  <2> QED
    BY <1>7, <2>1, <2>2, <2>3
<1>9. CASE n = 3
  <2>1. GoOn /\ accSeq = cur /\ Len(shown') = 4
    BY <1>1, <1>4, <1>8, <1>9 DEF GetBalances
  <2>3. "instantiate" \in found' => address'
    BY <1>3 DEF GInv, FoundAll
  <2>2. found' = UpTo(cur) \ {"send"}
    <3>1. UpTo(0 + 1) = UpTo(0) \cup {Order[0 + 1]} /\ 0 + 1 = 1
      BY UpToFacts
    <3>2. UpTo(1) = UpTo(0) \cup {"send"}
      BY <3>1, OrderFacts
    <3> QED
      BY <1>1, <1>3, <1>4, <3>2
  <2> QED
    BY <1>3, <1>4, <1>8, <2>1, <2>2, <2>3, GoOnGInv
<1>10. CASE n # 3
  <2>1. /\ cur' = cur
        /\ \/ n = 1 /\ pc' = "broadcast"
           \/ n \in {0, 2} /\ pc' = "balances"
    BY <1>1, <1>2, <1>10 DEF GetBalances
  <2>2. Sequential'
    <3>0. pool' = {} /\ accSeq' = accSeq /\ cur' = 1 /\ Len(shown') = n + 1
      BY <1>1, <1>3, <1>4, <1>8, <2>1
    <3>1. accSeq = (IF n < 2 THEN 0 ELSE 1)
      BY <1>4
    <3> HIDE DEF n
    <3>2. CASE n = 1
      <4>1. pc' = "broadcast" /\ accSeq' = 0
        BY <2>1, <3>0, <3>1, <3>2
      <4> QED
        BY <3>0, <4>1 DEF Sequential
    <3>3. CASE n \in {0, 2}
      <4>1. pc' = "balances" /\ accSeq' = (IF n + 1 < 2 THEN 0 ELSE 1)
        BY <2>1, <3>0, <3>1, <3>3
      <4> QED
        BY <3>0, <4>1 DEF Sequential
    <3> QED
      BY <2>1, <3>2, <3>3
  <2>3. FoundAll'
    BY <1>1, <1>3, <1>4, <2>1 DEF GInv, FoundAll
  <2>4. ShownAll'
    BY <1>1, <1>3, <1>8, <2>1 DEF GInv, ShownAll, BalancesAre
  <2>5. PassesWhenDone' /\ Landed'
    BY <1>3, <2>1 DEF PassesWhenDone, GInv, Landed
  <2> QED
    BY <2>2, <2>3, <2>4, <2>5 DEF GInv
<1> QED
  BY <1>9, <1>10

LEMMA TestGInv == ASSUME WInv, GInv, TestStep PROVE GInv'
<1>1. UNCHANGED faults
  BY DEF TestStep, Info, GetBalances, BroadCastTxAsync, Pause, TxMiss,
         TxResult, Query, chainVars
<1> SUFFICES ASSUME faults = {} PROVE GInv'
  BY <1>1 DEF GInv
<1>2. cur \in 1 .. 4
  BY OrderFacts DEF WInv, TypeOK
<1>3. CASE Info \/ Pause
  <2>1. /\ pc' = "balances"
        /\ UNCHANGED <<chainVars, shown, cur, polls, found, address, resolved>>
        /\ UNCHANGED <<faults, accSeq, balance, pool, passed, rejected>>
    BY <1>3 DEF Info, Pause, chainVars
  <2>2. cur = 1 /\ found = UpTo(cur - 1) \ {"send"}
    BY <1>3 DEF Info, Pause, WInv, TransferOK, GInv, FoundAll
  <2>3. pool = {} /\ accSeq = (IF Len(shown) < 2 THEN 0 ELSE 1)
    <3>1. CASE Info
      <4>1. pc = "info" /\ Len(shown) = 0
        BY <3>1 DEF Info, WInv, TransferOK
      <4> QED
        BY <2>2, <4>1 DEF GInv, Sequential
    <3>2. CASE Pause
      <4>1. pc = "pause" /\ Len(shown) = 2 /\ pool = {}
        BY <3>2 DEF Pause, WInv, TransferOK
      <4> QED
        BY <2>2, <4>1 DEF GInv, Sequential
    <3> QED
      BY <1>3, <3>1, <3>2
  <2>4. Sequential' /\ FoundAll' /\ PassesWhenDone' /\ Landed'
    BY <2>1, <2>2, <2>3 DEF Sequential, FoundAll, PassesWhenDone, GInv, Landed
  <2>5. ShownAll'
    BY <2>1, <2>2 DEF GInv, ShownAll, BalancesAre
  <2> QED
    BY <2>4, <2>5 DEF GInv
<1>4. CASE GetBalances
  BY <1>4, BalancesGInv
<1>5. CASE BroadCastTxAsync
  <2>1. /\ pc = "broadcast" /\ pool' = pool \cup {Order[cur]}
        /\ UNCHANGED <<faults, accSeq, balance, passed, rejected, shown, cur,
                       found, address, resolved>>
        /\ pc' = IF cur = 1 THEN "pause" ELSE "wait"
    BY <1>5 DEF BroadCastTxAsync
  <2>2. /\ pool = {} /\ accSeq = cur - 1
        /\ found = UpTo(cur - 1) \ {"send"}
    BY <2>1 DEF GInv, Sequential, FoundAll
  <2>3. Sequential' /\ FoundAll' /\ PassesWhenDone' /\ Landed'
    BY <2>1, <2>2 DEF Sequential, FoundAll, PassesWhenDone, GInv, Landed
  <2>4. ShownAll'
    BY <2>1 DEF GInv, ShownAll, BalancesAre
  <2> QED
    BY <2>3, <2>4 DEF GInv
<1>6. CASE TxMiss
  <2>1. /\ pc = "wait" /\ cur # 1
        /\ UNCHANGED <<chainVars, shown, found, address, resolved>>
        /\ UNCHANGED <<faults, accSeq, balance, pool, passed, rejected>>
        /\ Order[cur] \notin passed
    BY <1>6 DEF TxMiss, InBlock, WInv, TransferOK, chainVars
  <2>2. Order[cur] \in UpTo(cur)
    BY <1>2 DEF UpTo
  <2>3. Order[cur] \in pool
    BY <2>1, <2>2 DEF GInv, Landed, Sequential
  <2>4. UNCHANGED <<pc, cur>>
    BY <1>6, <2>3, MaxPollsAssumption DEF TxMiss, Polled, WInv, TypeOK,
                                          TransferOK
  <2> QED
    BY <2>1, <2>4 DEF GInv, Landed, Sequential, FoundAll, ShownAll,
                      BalancesAre, PassesWhenDone
<1>7. CASE TxResult
  <2>1. /\ pc = "wait" /\ cur # 1 /\ Order[cur] \in InBlock /\ GoOn
        /\ UNCHANGED <<chainVars, shown, polls, resolved>>
    BY <1>7 DEF TxResult, WInv, TransferOK
  <2>2. Order[cur] \in passed
    BY <2>1 DEF InBlock, GInv, Landed
  <2>3. pool = {} /\ accSeq = cur
    <3>1. CASE pool = {Order[cur]} /\ accSeq = cur - 1
      <4>1. PICK i \in 1 .. cur - 1 : Order[i] = Order[cur]
        BY <2>2, <3>1 DEF GInv, Landed, UpTo
      <4>2. i \in 1 .. 4 /\ i # cur
        BY <1>2
      <4>3. Payload[Order[i]].sequence = i - 1
              /\ Payload[Order[cur]].sequence = cur - 1
        BY <1>2, <4>2, UpToFacts
      <4> QED
        BY <1>2, <4>1, <4>2, <4>3
    <3> QED
      BY <2>1, <3>1 DEF GInv, Sequential
  <2>4. found' = UpTo(cur) \ {"send"}
    <3>1. found' = found \cup {Order[cur]}
      BY <1>7, <2>2 DEF TxResult, Success
    <3>2. found = UpTo(cur - 1) \ {"send"}
      BY <2>1 DEF GInv, FoundAll
    <3>3. UpTo((cur - 1) + 1) = UpTo(cur - 1) \cup {Order[(cur - 1) + 1]}
            /\ (cur - 1) + 1 = cur
      BY <1>2, UpToFacts
    <3>4. Order[cur] # "send"
      BY <1>2, <2>1, UpToFacts
    <3> QED
      BY <3>1, <3>2, <3>3, <3>4
  <2>5. Len(shown') = 4 /\ \A i \in DOMAIN shown' : shown'[i] = BothRounds[i]
    BY <2>1 DEF GInv, ShownAll
  <2>6. "instantiate" \in found' => address'
    BY <1>7, <2>2 DEF TxResult, Success, GInv, FoundAll
  <2> QED
    BY <2>1, <2>3, <2>4, <2>5, <2>6, GoOnGInv
<1>8. CASE Query
  <2>1. /\ pc = "query" /\ pc' = "done"
        /\ resolved' \in {Instantiated = 1}
        /\ UNCHANGED <<chainVars, shown, cur, polls, found, address>>
        /\ UNCHANGED <<faults, accSeq, balance, pool, passed, rejected>>
    BY <1>8 DEF Query, chainVars
  <2>2. /\ pool = {} /\ passed = Names /\ found = Names \ {"send"}
        /\ Len(shown) = 4 /\ ("instantiate" \in found => address)
        /\ \A i \in DOMAIN shown : shown[i] = BothRounds[i]
    BY <2>1, UpToFacts DEF GInv, Sequential, Landed, FoundAll, ShownAll
  <2>3. resolved'
    BY <2>1, <2>2, OrderFacts DEF Instantiated
  <2>4. shown = BothRounds
    <3>1. shown \in Seq(SUBSET Nat)
      BY DEF WInv, TypeOK
    <3>2. BothRounds \in Seq(SUBSET Nat) /\ Len(BothRounds) = 4
      BY SMT DEF BothRounds
    <3> QED
      BY <2>2, <3>1, <3>2, SeqEqual
  <2>5. PassesWhenDone'
    BY <2>1, <2>2, <2>3, <2>4, OrderFacts DEF PassesWhenDone
  <2>6. Sequential' /\ FoundAll' /\ ShownAll' /\ Landed'
    BY <2>1, <2>2 DEF Sequential, FoundAll, ShownAll, Landed, GInv,
                      BalancesAre
  <2> QED
    BY <2>5, <2>6 DEF GInv
<1> QED
  BY <1>3, <1>4, <1>5, <1>6, <1>7, <1>8 DEF TestStep

(* The test panics over nothing but a call that failed.                    *)
FailedCall == "rpc" \notin faults => pc # "panicked"

LEMMA FailedCallKept == FailedCall /\ [Next]_vars => FailedCall'
<1> SUFFICES ASSUME FailedCall, [Next]_vars PROVE FailedCall'
  OBVIOUS
<1>1. CASE ChainStep
  BY <1>1 DEF ChainStep, testVars, FailedCall
<1>2. CASE TestStep
  BY <1>2 DEF TestStep, Info, GetBalances, BroadCastTxAsync, Pause, TxMiss,
              TxResult, Query, GoOn, chainVars, FailedCall
<1>3. CASE UNCHANGED vars
  BY <1>3 DEF vars, chainVars, testVars, FailedCall
<1> QED
  BY <1>1, <1>2, <1>3 DEF Next, Terminated

(* While no call fails the test does not panic; and on a chain without     *)
(* faults all it wants happens: the payloads signed ahead of time for      *)
(* fixed sequences, code ids and addresses are the ones the chain expects, *)
(* in the order in which the test sends them, however often it polls.      *)
THEOREM FaultlessPass == Spec => []PassesWhenDone
<1>1. Init => GInv
  <2> SUFFICES ASSUME Init PROVE GInv
    OBVIOUS
  <2>1. Landed /\ FoundAll
    BY UpToFacts DEF Init, Landed, FoundAll
  <2>2. Sequential /\ PassesWhenDone
    BY DEF Init, Sequential, PassesWhenDone
  <2>3. ShownAll
    BY GenesisFacts DEF Init, ShownAll, BalancesAre
  <2> QED
    BY <2>1, <2>2, <2>3 DEF GInv
<1>2. WInv /\ GInv /\ [Next]_vars => GInv'
  <2> SUFFICES ASSUME WInv, GInv, [Next]_vars PROVE GInv'
    OBVIOUS
  <2>1. CASE UNCHANGED vars
    BY <2>1 DEF vars, chainVars, testVars, GInv, Landed, Sequential, FoundAll,
                ShownAll, BalancesAre, PassesWhenDone
  <2> QED
    BY <2>1, ChainGInv, TestGInv DEF Next, Terminated
<1>3. GInv /\ FailedCall => PassesWhenDone
  BY DEF GInv, FailedCall, PassesWhenDone
<1>4. Init => FailedCall
  BY DEF Init, FailedCall
<1> QED
  BY <1>1, <1>2, <1>3, <1>4, FailedCallKept, WasmInvariant, PTL DEF Spec

-----------------------------------------------------------------------------
(* The wait for the transfer.  While the chain neither loses a transaction *)
(* nor takes longer than the pause, the transfer is on its way or in a     *)
(* block from its broadcast on, and in a block after the pause.            *)

Prompt == faults \cap {"drop", "slow"} = {}
Transferring ==
    Prompt =>
        /\ "send" \in pool /\ cur = 1 => accSeq = 0 /\ "send" \notin InBlock
        /\ pc = "pause" => "send" \in pool \cup InBlock
        /\ pc = "balances" /\ Len(shown) >= 2 => "send" \in InBlock
        /\ cur # 1 \/ pc = "query" \/ Len(shown) >= 3 => "send" \in InBlock
        /\ pc = "broadcast" /\ cur = 1 =>
             accSeq = 0 /\ "send" \notin pool \cup InBlock
        /\ pc = "info" \/ (pc = "balances" /\ Len(shown) <= 1) =>
             accSeq = 0 /\ "send" \notin pool \cup InBlock

LEMMA ChainTransfers ==
    ASSUME WInv, Transferring, ChainStep PROVE Transferring'
<1> SUFFICES ASSUME Prompt PROVE Transferring'
  BY DEF Transferring, ChainStep, Prompt
<1> PICK t \in pool :
      /\ Include(t) \/ Refuse(t) \/ Lose
      /\ pool' = pool \ {t}
  BY DEF ChainStep
<1>1. UNCHANGED <<faults, pc, shown, cur>>
  BY DEF ChainStep, testVars
<1>2. ~Lose
  BY DEF Lose, Prompt
<1>3. InBlock \subseteq InBlock' /\ InBlock' \subseteq InBlock \cup {t}
  BY <1>2 DEF Include, Refuse, InBlock
<1>4. CASE cur # 1 \/ t # "send"
  <2>1. cur = 1 => t = "send"
    BY DEF WInv, TransferOK
  <2>2. cur # 1
    BY <1>4, <2>1
  <2>3. pc \notin {"info", "balances", "pause"}
    BY <2>2 DEF WInv, TransferOK
  <2> QED
    BY <1>1, <1>3, <2>2, <2>3 DEF Transferring
<1>5. CASE cur = 1 /\ t = "send"
  <2>1. accSeq = 0
    BY <1>5 DEF Transferring
  <2>2. SignedForNext(t)
    BY <1>5, <2>1, OrderFacts, PayloadFacts, PayloadRefs
       DEF SignedForNext, GenesisNumber
  <2>3. "send" \in InBlock' /\ "send" \notin pool'
    BY <1>2, <1>5, <2>2 DEF Include, Refuse, InBlock
  <2>4. /\ pc \notin {"info"} /\ ~(pc = "broadcast" /\ cur = 1)
        /\ ~(pc = "balances" /\ Len(shown) <= 1)
    BY <1>5 DEF Transferring
  <2> QED
    BY <1>1, <2>3, <2>4 DEF Transferring
<1> QED
  BY <1>4, <1>5

LEMMA TestTransfers ==
    ASSUME WInv, Transferring, TestStep PROVE Transferring'
<1>1. UNCHANGED <<faults, accSeq, passed, rejected>>
  BY DEF TestStep, Info, GetBalances, BroadCastTxAsync, Pause, TxMiss,
         TxResult, Query, chainVars
<1> SUFFICES ASSUME Prompt PROVE Transferring'
  BY <1>1 DEF Transferring, Prompt
<1>2. InBlock' = InBlock
  BY <1>1 DEF InBlock
<1>3. cur \in 1 .. 4 /\ Len(Order) = 4 /\ shown \in Seq(SUBSET Nat)
  BY OrderFacts DEF WInv, TypeOK
<1>4. Len(shown) \in Nat
  BY <1>3
<1>5. CASE Info
  <2>1. /\ pc = "info" /\ pc' = "balances" /\ Len(shown) = 0
        /\ UNCHANGED <<pool, shown, cur>> /\ cur = 1
    BY <1>5 DEF Info, chainVars, WInv, TransferOK
  <2> QED
    BY <1>1, <1>2, <2>1 DEF Transferring
<1>6. CASE GetBalances
  <2>1. pc = "balances" /\ cur = 1 /\ UNCHANGED pool /\ Len(shown) <= 3
    BY <1>6 DEF GetBalances, chainVars, WInv, TransferOK
  <2>2. PICK line \in Lines(UserAt(Len(shown) + 1)) :
          shown' = Append(shown, line)
    BY <1>6 DEF GetBalances
  <2>3. Len(shown') = Len(shown) + 1
    BY <1>3, <2>2
  <2>4. \/ Len(shown) = 1 /\ pc' = "broadcast" /\ cur' = cur
        \/ Len(shown) = 3 /\ pc' = "broadcast" /\ cur' = 2
        \/ Len(shown) \in {0, 2} /\ pc' = pc /\ cur' = cur
    <3>1. /\ Len(shown) # 1 /\ Len(shown) # 3 => UNCHANGED <<pc, cur>>
          /\ Len(shown) = 1 => pc' = "broadcast" /\ cur' = cur
          /\ Len(shown) = 3 => GoOn
      BY <1>3, <1>4, <1>6, <2>2, <2>3 DEF GetBalances
    <3>2. Len(shown) = 3 => pc' = "broadcast" /\ cur' = 2
      BY <1>3, <2>1, <3>1 DEF GoOn
    <3>3. \A n \in Nat : n <= 3 => n \in {0, 1, 2, 3}
      OBVIOUS
    <3>4. Len(shown) \in {0, 1, 2, 3}
      BY <1>4, <2>1, <3>3
    <3> QED
      BY <3>1, <3>2, <3>4
  <2>5. Len(shown) <= 1 \/ Len(shown) >= 2
    BY <1>4
  <2>6. CASE Len(shown) <= 1
    <3>1. accSeq = 0 /\ "send" \notin pool \cup InBlock
      BY <2>1, <2>6 DEF Transferring
    <3>2. CASE Len(shown) = 0
      <4>1. pc' = "balances" /\ cur' = 1 /\ Len(shown') = 1
        BY <2>1, <2>3, <2>4, <3>2
      <4> QED
        BY <1>1, <1>2, <2>1, <3>1, <4>1 DEF Transferring
    <3>3. CASE Len(shown) = 1
      <4>1. pc' = "broadcast" /\ cur' = 1 /\ Len(shown') = 2
        BY <2>1, <2>3, <2>4, <3>3
      <4> QED
        BY <1>1, <1>2, <2>1, <3>1, <4>1 DEF Transferring
    <3>4. \A n \in Nat : n <= 1 => n \in {0, 1}
      OBVIOUS
    <3>5. Len(shown) \in {0, 1}
      BY <1>4, <2>6, <3>4
    <3> QED
      BY <3>2, <3>3, <3>5
  <2>7. CASE Len(shown) >= 2
    <3>1. "send" \in InBlock
      BY <2>1, <2>7 DEF Transferring
    <3>2. "send" \notin pool
      BY <2>1, <3>1 DEF Transferring
    <3> QED
      BY <1>1, <1>2, <1>4, <2>1, <2>3, <2>4, <2>7, <3>1, <3>2
         DEF Transferring
  <2> QED
    BY <2>5, <2>6, <2>7
<1>7. CASE BroadCastTxAsync
  <2>1. /\ pc = "broadcast" /\ UNCHANGED <<shown, cur>>
        /\ pool' \in {pool, pool \cup {Order[cur]}}
        /\ \/ /\ cur = 1 /\ pc' = "pause"
              /\ pool' = pool \cup {Order[cur]}
           \/ cur = 1 /\ pc' = "done"
           \/ cur # 1 /\ pc' \in {"wait", "panicked"}
    BY <1>7 DEF BroadCastTxAsync
  <2>2. CASE cur = 1
    <3>1. accSeq = 0 /\ "send" \notin InBlock /\ Len(shown) = 2
      BY <2>1, <2>2 DEF Transferring, WInv, TransferOK
    <3> QED
      BY <1>1, <1>2, <2>1, <2>2, <3>1, OrderFacts DEF Transferring
  <2>3. CASE cur # 1
    BY <1>1, <1>2, <2>1, <2>3 DEF Transferring
  <2> QED
    BY <2>2, <2>3
<1>8. CASE Pause
  <2>1. /\ pc = "pause" /\ pc' = "balances" /\ pool = {} /\ cur = 1
        /\ Len(shown) = 2 /\ UNCHANGED <<pool, shown, cur>>
    BY <1>8 DEF Pause, Prompt, chainVars, WInv, TransferOK
  <2>2. "send" \in InBlock
    BY <2>1 DEF Transferring
  <2> QED
    BY <1>1, <1>2, <2>1, <2>2 DEF Transferring
<1>9. CASE TxMiss \/ TxResult
  <2>1. /\ pc = "wait" /\ cur # 1 /\ UNCHANGED <<pool, shown>>
        /\ UNCHANGED <<pc, cur>> \/ GoOn
    BY <1>9 DEF TxMiss, TxResult, chainVars, WInv, TransferOK
  <2>2. pc' \in {"wait", "broadcast", "query"} /\ cur' # 1
    BY <1>3, <2>1 DEF GoOn
  <2>3. "send" \in InBlock
    BY <2>1 DEF Transferring
  <2> QED
    BY <1>1, <1>2, <2>1, <2>2, <2>3 DEF Transferring
<1>10. CASE Query
  <2>1. pc = "query" /\ pc' = "done" /\ UNCHANGED <<pool, shown, cur>>
    BY <1>10 DEF Query, chainVars
  <2> QED
    BY <1>1, <1>2, <2>1 DEF Transferring
<1> QED
  BY <1>5, <1>6, <1>7, <1>8, <1>9, <1>10 DEF TestStep

(* What a transfer in a block leaves the two users with.                   *)
Settled ==
    Prompt /\ cur = 1 /\ "send" \in InBlock =>
        \/ BalancesAre(Rest, Gift)
        \/ "exec" \in faults /\ balance["user1"] = Stake - defaultGasPrice

LEMMA ChainSettles ==
    ASSUME WInv, Transferring, Settled, ChainStep PROVE Settled'
<1> SUFFICES ASSUME Prompt, cur = 1 PROVE Settled'
  BY DEF Settled, ChainStep, Prompt, testVars
<1> PICK t \in pool :
      /\ Include(t) \/ Refuse(t) \/ Lose
      /\ pool' = pool \ {t}
  BY DEF ChainStep
<1>1. UNCHANGED <<faults, cur>>
  BY DEF ChainStep, testVars
<1>2. t = "send"
  BY DEF WInv, TransferOK
<1>3. accSeq = 0 /\ "send" \notin InBlock
  BY <1>2 DEF Transferring
<1>4. balance["user1"] = Stake /\ balance["user2"] = 0
  BY <1>3 DEF WInv, TransferOK, Untouched, FeePaid, InBlock
<1>5. SignedForNext(t)
  BY <1>2, <1>3, OrderFacts, PayloadFacts, PayloadRefs
     DEF SignedForNext, GenesisNumber
<1>6. Executable(t)
  <2>1. Payload["send"].msg.code = 0 /\ Payload["send"].msg.contract = 0
    BY OrderFacts, PayloadRefs
  <2>2. Stored >= 0 /\ Instantiated >= 0
    BY DEF Stored, Instantiated
  <2> QED
    BY <1>2, <2>1, <2>2 DEF Executable
<1>7. PayAndTransfer(t) \/ ("exec" \in faults /\ Pay(t))
  BY <1>5, <1>6 DEF Include, Refuse, Lose, Prompt
<1>8. /\ Payload[t].fee = defaultGasPrice /\ Payload[t].msg.amount = Gift
      /\ Payload[t].msg.to = "user2"
  BY <1>2, PayloadFacts, PayloadRefs
<1>9. CASE PayAndTransfer(t)
  <2>1. balance' = [u \in Users |->
            balance[u]
              - (IF u = "user1" THEN defaultGasPrice + Gift ELSE 0)
              + (IF u = "user2" THEN Gift ELSE 0)]
    BY <1>8, <1>9 DEF PayAndTransfer
  <2>2. /\ balance'["user1"] = Stake - (defaultGasPrice + Gift) + 0
        /\ balance'["user2"] = 0 - 0 + Gift
    BY <1>4, <2>1, GenesisFacts
  <2>3. BalancesAre(Rest, Gift)'
    BY <2>2, KnownBalances DEF BalancesAre
  <2> QED
    BY <2>3 DEF Settled
<1>10. CASE "exec" \in faults /\ Pay(t)
  <2>1. balance' = [balance EXCEPT !["user1"] = @ - defaultGasPrice]
    BY <1>8, <1>10 DEF Pay
  <2>2. balance'["user1"] = Stake - defaultGasPrice
    BY <1>4, <2>1, GenesisFacts DEF WInv, TypeOK
  <2> QED
    BY <1>1, <1>10, <2>2 DEF Settled
<1> QED
  BY <1>7, <1>9, <1>10

LEMMA TestSettles ==
    ASSUME WInv, Settled, TestStep PROVE Settled'
<1>1. UNCHANGED <<faults, accSeq, balance, passed, rejected>>
  BY DEF TestStep, Info, GetBalances, BroadCastTxAsync, Pause, TxMiss,
         TxResult, Query, chainVars
<1>2. cur' = 1 => cur = 1
  <2>1. UNCHANGED cur \/ GoOn
    BY DEF TestStep, Info, GetBalances, BroadCastTxAsync, Pause, TxMiss,
           TxResult, Query
  <2> QED
    BY <2>1, GoOnFacts
<1> QED
  BY <1>1, <1>2 DEF Settled, Prompt, InBlock, BalancesAre

(* The second round of GetBalances finds what the transfer left.           *)
LEMMA RoundShown ==
    ASSUME WInv, Transferring, Settled, ShowsTransfer, GetBalances
    PROVE  ShowsTransfer'
<1> SUFFICES ASSUME Prompt, NEW i \in DOMAIN shown', i >= 3
             PROVE  \/ shown'[i] \subseteq BothRounds[i]
                    \/ UserAt(i) = "user2" /\ "exec" \in faults
  BY DEF ShowsTransfer, Prompt, GetBalances, chainVars
<1> DEFINE n == Len(shown)
<1>1. pc = "balances" /\ cur = 1 /\ shown \in Seq(SUBSET Nat)
  BY DEF GetBalances, WInv, TypeOK, TransferOK
<1>2. n \in {0, 1, 2, 3}
  <2>1. n <= 3 /\ n \in Nat
    BY <1>1 DEF WInv, TransferOK
  <2>2. \A k \in Nat : k <= 3 => k \in {0, 1, 2, 3}
    OBVIOUS
  <2> QED
    BY <2>1, <2>2
<1>3. PICK line \in Lines(UserAt(n + 1)) : shown' = Append(shown, line)
  BY DEF GetBalances
<1>4. line \subseteq {balance[UserAt(n + 1)]} \cap decodedBalances
  BY DEF Lines
<1>5. /\ DOMAIN shown = 1 .. n /\ DOMAIN shown' = 1 .. n + 1
      /\ \A k \in 1 .. n : shown'[k] = shown[k]
      /\ shown'[n + 1] = line
  <2>1. line \in SUBSET Nat
    <3>1. UserAt(n + 1) \in Users
      BY <1>2, GenesisFacts
    <3> QED
      BY <1>1, <3>1, LinesFacts
  <2> QED
    BY <1>1, <1>3, <2>1
<1>6. CASE i \in 1 .. n
  BY <1>5, <1>6 DEF ShowsTransfer, Prompt
<1>7. CASE i = n + 1
  <2>1. n \in {2, 3}
    <3> HIDE DEF n
    <3> QED
      BY <1>2, <1>7
  <2>2. "send" \in InBlock
    BY <1>1, <2>1 DEF Transferring
  <2>3. \/ BalancesAre(Rest, Gift)
        \/ "exec" \in faults /\ balance["user1"] = Stake - defaultGasPrice
    BY <1>1, <2>2 DEF Settled
  <2>4. Stake - defaultGasPrice \notin decodedBalances
    BY SMT DEF decodedBalances, Stake, defaultGasPrice
  <2>5. UserAt(3) = "user1" /\ UserAt(4) = "user2"
    BY DEF UserAt
  <2>6. CASE n = 2
    <3>1. i = 3 /\ shown'[i] = line /\ UserAt(n + 1) = "user1"
      BY <1>5, <1>7, <2>5, <2>6
    <3>2. line \subseteq {balance["user1"]} \cap decodedBalances
      BY <1>4, <3>1
    <3> QED
      BY <2>3, <2>4, <3>1, <3>2, KnownBalances DEF BalancesAre
  <2>7. CASE n = 3
    <3>1. i = 4 /\ shown'[i] = line /\ UserAt(n + 1) = "user2"
      BY <1>5, <1>7, <2>5, <2>7
    <3>2. line \subseteq {balance["user2"]} \cap decodedBalances
      BY <1>4, <3>1
    <3> QED
      BY <2>3, <2>5, <3>1, <3>2, KnownBalances DEF BalancesAre
  <2> QED
    BY <2>1, <2>6, <2>7
<1> QED
  <2>1. i \in 1 .. n \/ i = n + 1
    <3> HIDE DEF n
    <3> QED
      BY <1>2, <1>5
  <2> QED
    BY <1>6, <1>7, <2>1

(* Without a lost or a late transaction the pause is long enough: neither  *)
(* failed executions nor failing calls make the second round of balances   *)
(* pass the old one of user1, or, unless executions fail, of user2.        *)
THEOREM PauseSuffices == Spec => []ShowsTransfer
<1>1. Init => Transferring /\ Settled /\ ShowsTransfer
  BY OrderFacts DEF Init, Transferring, Settled, ShowsTransfer, InBlock
<1>2. /\ WInv /\ Transferring /\ Settled /\ ShowsTransfer /\ [Next]_vars
      => Transferring' /\ Settled' /\ ShowsTransfer'
  <2> SUFFICES ASSUME WInv, Transferring, Settled, ShowsTransfer, [Next]_vars
               PROVE  Transferring' /\ Settled' /\ ShowsTransfer'
    OBVIOUS
  <2>1. CASE UNCHANGED vars
    BY <2>1 DEF vars, chainVars, testVars, Transferring, Settled,
                ShowsTransfer, BalancesAre, Prompt, InBlock
  <2>2. CASE ChainStep
    <3>1. ShowsTransfer'
      BY <2>2 DEF ChainStep, testVars, ShowsTransfer
    <3> QED
      BY <2>2, <3>1, ChainTransfers, ChainSettles
  <2>3. CASE TestStep
    <3>1. UNCHANGED <<faults, shown>> => ShowsTransfer'
      BY DEF ShowsTransfer
    <3>2. UNCHANGED <<faults, shown>> \/ GetBalances
      BY <2>3 DEF TestStep, Info, BroadCastTxAsync, Pause, TxMiss, TxResult,
                  Query, chainVars
    <3> QED
      BY <2>3, <3>1, <3>2, TestTransfers, TestSettles, RoundShown
  <2> QED
    BY <2>1, <2>2, <2>3 DEF Next, Terminated
<1> QED
  BY <1>1, <1>2, WasmInvariant, PTL DEF Spec

=============================================================================
