--------------------------- MODULE KVStoreProofs ---------------------------
(***************************************************************************)
(* The kvstore end-to-end tests, for any keys, values and pairs drawn, any *)
(* number of transactions and attempts, and any faults: a pair with a      *)
(* success line is on the chain, the loop that removes the pair it stands  *)
(* at skips none, and every step brings the end nearer.  Then what holds   *)
(* without faults, or without some of them: each report is of a real       *)
(* fault, and which ones the comments of the code rest on.                 *)
(***************************************************************************)
EXTENDS KVStore, SequenceTheorems, TLAPS

(* The store has only what a committed transaction wrote.                  *)
StoreOK == \A t \in Txs : Holds(t) => t \in committed

(* tx is set where it is read.                                             *)
WithTx == {"queryWait", "queryRead", "commitWait", "commitRead"}

(* The scan always stands at the first pair of the list, and the list is   *)
(* what is left of those sent.                                             *)
Sending == {"checkTx", "info", "query", "commit", "generate"} \cup WithTx
SuffixOf(s, t) ==
    /\ Len(s) <= Len(t)
    /\ \A i \in 1 .. Len(s) : s[i] = t[Len(t) - Len(s) + i]
Suffix == SuffixOf(kvs, sent)
ListOK ==
    /\ pc \in Sending => kvs = sent
    /\ pc \in {"attempt", "scan"} => Len(sent) = NumTxs
    /\ pc = "scan" => kvs # <<>> /\ at = 1 /\ attempt < MaxAttempts
    /\ Suffix

KInv ==
    /\ TypeOK /\ StoreOK /\ ListOK /\ SeenIsCommitted
    /\ pc \in WithTx => tx \in Txs

-----------------------------------------------------------------------------
(* Lists.                                                                  *)

(* RemoveAt at the head is Tail.                                           *)
LEMMA RemoveHead ==
    ASSUME NEW X, NEW s \in Seq(X), s # <<>>
    PROVE  RemoveAt(s, 1) = Tail(s)
<1>1. SubSeq(s, 1, 1 - 1) = <<>>
  BY SubSeqEmpty
<1>2. RemoveAt(s, 1) = <<>> \o Tail(s)
  BY <1>1, TailIsSubSeq DEF RemoveAt
<1>3. Tail(s) \in Seq(X)
  BY HeadTailProperties
<1> QED
  BY <1>2, <1>3, ConcatEmptySeq

LEMMA ToSetAppend ==
    ASSUME NEW X, NEW s \in Seq(X), NEW e \in X
    PROVE  ToSet(Append(s, e)) = ToSet(s) \cup {e}
<1>1. /\ DOMAIN s = 1 .. Len(s) /\ Len(s) \in Nat
      /\ DOMAIN Append(s, e) = 1 .. Len(s) + 1
  BY AppendProperties
<1>2. /\ \A i \in 1 .. Len(s) : Append(s, e)[i] = s[i]
      /\ Append(s, e)[Len(s) + 1] = e
  BY AppendProperties
<1>3. \A i \in 1 .. Len(s) + 1 : i \in 1 .. Len(s) \/ i = Len(s) + 1
  BY <1>1
<1>4. \A i \in 1 .. Len(s) : i \in 1 .. Len(s) + 1
  BY <1>1
<1>5. Len(s) + 1 \in 1 .. Len(s) + 1
  BY <1>1
<1> QED
  BY <1>1, <1>2, <1>3, <1>4, <1>5 DEF ToSet

LEMMA ToSetTail ==
    ASSUME NEW X, NEW s \in Seq(X), s # <<>>
    PROVE  /\ ToSet(s) \subseteq {s[1]} \cup ToSet(Tail(s))
           /\ s[1] \in X
<1>1. /\ Len(s) \in Nat \ {0} /\ DOMAIN s = 1 .. Len(s)
      /\ s[1] \in X
  OBVIOUS
<1>2. /\ DOMAIN Tail(s) = 1 .. Len(s) - 1
      /\ \A i \in 1 .. Len(s) - 1 : Tail(s)[i] = s[i + 1]
  BY <1>1, HeadTailProperties
<1>3. ASSUME NEW i \in 1 .. Len(s), i # 1
      PROVE  s[i] \in ToSet(Tail(s))
  <2>1. i - 1 \in 1 .. Len(s) - 1 /\ (i - 1) + 1 = i
    BY <1>1, <1>3
  <2>2. Tail(s)[i - 1] = s[i]
    BY <1>2, <2>1
  <2> QED
    BY <1>2, <2>1, <2>2 DEF ToSet
<1> QED
  BY <1>1, <1>3 DEF ToSet

(* Ends of a list.                                                         *)
LEMMA SuffixOfSelf ==
    ASSUME NEW X, NEW s \in Seq(X) PROVE SuffixOf(s, s)
<1>1. Len(s) \in Nat
  OBVIOUS
<1>2. Len(s) <= Len(s) /\ \A i \in 1 .. Len(s) : Len(s) - Len(s) + i = i
  BY <1>1
<1> QED
  BY <1>2 DEF SuffixOf

LEMMA SuffixTail ==
    ASSUME NEW X, NEW s \in Seq(X), NEW t \in Seq(X), s # <<>>, SuffixOf(s, t)
    PROVE  SuffixOf(Tail(s), t)
<1> DEFINE m == Len(s)
           n == Len(t)
<1>1. m \in Nat \ {0} /\ n \in Nat
  OBVIOUS
<1>2. Len(Tail(s)) = m - 1 /\ \A i \in 1 .. m - 1 : Tail(s)[i] = s[i + 1]
  BY HeadTailProperties
<1>3. m <= n /\ \A i \in 1 .. m : s[i] = t[n - m + i]
  BY DEF SuffixOf
<1> HIDE DEF m, n
<1>4. m - 1 <= n
  BY <1>1, <1>3
<1>5. ASSUME NEW i \in 1 .. m - 1
      PROVE  Tail(s)[i] = t[n - (m - 1) + i]
  <2>1. i + 1 \in 1 .. m /\ n - m + (i + 1) = n - (m - 1) + i
    BY <1>1
  <2>2. s[i + 1] = t[n - m + (i + 1)]
    BY <1>3, <2>1
  <2>3. Tail(s)[i] = s[i + 1]
    BY <1>2
  <2> QED
    BY <2>1, <2>2, <2>3
<1> QED
  BY <1>2, <1>4, <1>5 DEF SuffixOf, n

LEMMA SuffixIsSubSeq ==
    ASSUME NEW X, NEW s \in Seq(X), NEW t \in Seq(X), SuffixOf(s, t)
    PROVE  s = SubSeq(t, Len(t) - Len(s) + 1, Len(t))
<1> DEFINE m == Len(s)
           n == Len(t)
           u == SubSeq(t, n - m + 1, n)
<1>1. m \in Nat /\ n \in Nat /\ m <= n
  BY DEF SuffixOf
<1>2. \A i \in 1 .. m : s[i] = t[n - m + i]
  BY DEF SuffixOf
<1>3. \A i \in 1 .. n : t[i] \in X
  BY ElementOfSeq
<1> HIDE DEF m, n
<1>4. /\ n - m + 1 \in Int /\ n \in Int
      /\ \A i \in n - m + 1 .. n : i \in 1 .. n
      /\ n - (n - m + 1) + 1 = m
      /\ n - m + 1 <= n \/ m = 0
      /\ \A i \in 1 .. m : (n - m + 1) + i - 1 = n - m + i
  BY <1>1
<1>5. /\ u \in Seq(X)
      /\ Len(u) = IF n - m + 1 <= n THEN n - (n - m + 1) + 1 ELSE 0
      /\ \A i \in 1 .. n - (n - m + 1) + 1 : u[i] = t[(n - m + 1) + i - 1]
  BY <1>3, <1>4, SubSeqProperties
<1>6. Len(u) = m /\ \A i \in 1 .. m : u[i] = s[i]
  BY <1>1, <1>2, <1>4, <1>5
<1>7. u = s
  BY <1>5, <1>6, SeqEqual DEF m
<1> QED
  BY <1>7 DEF m, n

-----------------------------------------------------------------------------
(* The chain.                                                              *)

LEMMA KInit == Init => KInv
<1> SUFFICES ASSUME Init PROVE KInv
  OBVIOUS
<1>1. kv \in [Keys -> Vals \cup {NoVal}] /\ kv = [k \in Keys |-> NoVal]
  BY DEF Init
<1>2. TypeOK
  <2>1. /\ faults \subseteq Faults /\ pool \subseteq Txs
        /\ committed \subseteq Txs /\ rejected \subseteq Txs /\ pc \in PCs
        /\ tx \in Txs \cup {NoVal} /\ confirmed \subseteq Txs
        /\ reported \in BOOLEAN
    BY DEF Init, PCs
  <2>2. /\ height \in Nat /\ base \in Nat /\ attempt \in 0 .. MaxAttempts
        /\ at \in 1 .. NumTxs + 1
    BY BoundsAssumption DEF Init
  <2>3. sent \in Seq(Txs) /\ kvs \in Seq(Txs) /\ Len(sent) <= NumTxs
    BY BoundsAssumption DEF Init
  <2> QED
    BY <1>1, <2>1, <2>2, <2>3 DEF TypeOK
<1>3. StoreOK
  <2> SUFFICES ASSUME NEW t \in Txs PROVE ~Holds(t)
    BY DEF StoreOK
  <2>1. t.k \in Keys /\ t.v \in Vals
    BY DrawsAssumption DEF Txs
  <2> QED
    BY <1>1, <2>1, NoValAssumption DEF Holds
<1>4. Suffix
  BY DEF Init, Suffix, SuffixOf
<1>5. ListOK
  BY <1>4 DEF Init, ListOK
<1>6. SeenIsCommitted
  BY DEF Init, SeenIsCommitted, ToSet
<1>7. pc \notin WithTx
  BY DEF Init, WithTx
<1> QED
  BY <1>2, <1>3, <1>5, <1>6, <1>7 DEF KInv

LEMMA ChainKeeps == ASSUME KInv, ChainStep PROVE KInv'
<1> PICK t \in pool : Block(t) \/ Lose(t)
  BY DEF ChainStep
<1>1. UNCHANGED <<faults, pc, tx, base, sent, kvs, attempt, at, reported,
                  confirmed>>
  BY DEF ChainStep, testVars, scanVars, Block, Lose
<1>2. t \in Txs /\ t.k \in Keys /\ t.v \in Vals
  BY DrawsAssumption DEF KInv, TypeOK, Txs
<1>3. /\ committed \subseteq committed' /\ committed' \subseteq Txs
      /\ pool' \subseteq Txs /\ rejected' \subseteq Txs
      /\ kv' \in [Keys -> Vals \cup {NoVal}]
  BY <1>2 DEF Block, Lose, KInv, TypeOK
<1>4. height' \in Nat
  BY DEF Block, Lose, KInv, TypeOK
<1>5. TypeOK'
  BY <1>1, <1>3, <1>4 DEF KInv, TypeOK
<1>6. StoreOK'
  <2>1. CASE UNCHANGED <<kv, committed>>
    BY <2>1 DEF KInv, StoreOK, Holds
  <2>2. CASE /\ kv' = [kv EXCEPT ![t.k] = t.v]
             /\ committed' = committed \cup {t}
    <3> SUFFICES ASSUME NEW u \in Txs, kv'[u.k] = u.v
                 PROVE  u \in committed'
      BY DEF StoreOK, Holds
    <3>1. u \in [k : Keys, v : Vals] /\ t \in [k : Keys, v : Vals]
      BY <1>2, DrawsAssumption DEF Txs
    <3>2. CASE u.k = t.k
      <4>1. u.v = t.v
        BY <1>2, <2>2, <3>2 DEF KInv, TypeOK
      <4>2. u = t
        BY <3>1, <3>2, <4>1
      <4> QED
        BY <2>2, <4>2
    <3>3. CASE u.k # t.k
      <4>1. kv[u.k] = u.v
        BY <2>2, <3>1, <3>3 DEF KInv, TypeOK
      <4> QED
        BY <2>2, <4>1 DEF KInv, StoreOK, Holds
    <3> QED
      BY <3>2, <3>3
  <2> QED
    BY <2>1, <2>2 DEF Block, Lose
<1>7. ListOK'
  BY <1>1 DEF KInv, ListOK, Suffix
<1>8. SeenIsCommitted'
  BY <1>1, <1>3 DEF KInv, SeenIsCommitted
<1> QED
  BY <1>1, <1>5, <1>6, <1>7, <1>8 DEF KInv

-----------------------------------------------------------------------------
(* The first four tests: they leave the lists alone.                       *)

LEMMA QuietStep ==
    ASSUME KInv, pc \in Sending, pc' \in Sending \cup {"done"},
           UNCHANGED <<faults, committed, kv, scanVars>>,
           pool' \subseteq Txs, rejected' \subseteq Txs, height' \in Nat,
           base' \in Nat, tx' \in Txs \cup {NoVal},
           pc' \in WithTx => tx' \in Txs,
           confirmed \subseteq confirmed', confirmed' \subseteq committed
    PROVE  KInv'
<1>1. UNCHANGED <<sent, kvs, attempt, at, reported>>
  BY DEF scanVars
<1>2. pc' \in PCs /\ confirmed' \subseteq Txs
  BY DEF PCs, Sending, WithTx, KInv, TypeOK
<1>3. TypeOK'
  BY <1>1, <1>2 DEF KInv, TypeOK
<1>4. StoreOK'
  BY DEF KInv, StoreOK, Holds
<1>5. ListOK'
  BY <1>1 DEF KInv, ListOK, Suffix, Sending, WithTx
<1>6. SeenIsCommitted'
  BY <1>1 DEF KInv, SeenIsCommitted
<1> QED
  BY <1>3, <1>4, <1>5, <1>6 DEF KInv

(* What a call leaves in the pool.                                         *)
LEMMA SubmitFacts ==
    ASSUME KInv, NEW t \in Txs, NEW wait, NEW next
    PROVE  /\ Submit(t, wait) \/ CheckTxIsErr(t) \/ CallFails(t, next) =>
                pool' \subseteq Txs /\ rejected' \subseteq Txs
           /\ Submit(t, wait) => pc' = wait /\ tx' = t
           /\ CheckTxIsErr(t) => tx' = t
           /\ CallFails(t, next) => pc' = next
BY DEF KInv, TypeOK, Submit, CheckTxIsErr, CallFails, Enter, Fatal

LEMMA QueryStep == ASSUME KInv, Query \/ Commit PROVE KInv'
<1>1. /\ UNCHANGED <<faults, committed, height, kv, scanVars, confirmed>>
      /\ pc \in {"query", "commit"}
  BY DEF Query, Commit
<1>2. PICK t \in Txs :
        \/ /\ Submit(t, "queryWait") \/ Submit(t, "commitWait")
           /\ base' \in {base, height}
        \/ /\ CheckTxIsErr(t) /\ pc' \in {"queryRead", "commitRead"}
           /\ base' \in {base, height}
        \/ /\ CallFails(t, "commit") \/ CallFails(t, "generate")
           /\ Return
  BY DEF Query, Commit, Fatal
<1>3. base \in Nat /\ height \in Nat /\ confirmed \subseteq committed
  BY DEF KInv, TypeOK, SeenIsCommitted
<1>4. pool' \subseteq Txs /\ rejected' \subseteq Txs
  BY <1>2, SubmitFacts
<1>5. base' \in Nat /\ tx' \in Txs \cup {NoVal}
  BY <1>2, <1>3, SubmitFacts DEF Return
<1>6. pc' \in Sending /\ (pc' \in WithTx => tx' \in Txs)
  BY <1>2, SubmitFacts DEF Sending, WithTx
<1>7. pc \in Sending
  BY <1>1 DEF Sending
<1> QED
  BY <1>1, <1>3, <1>4, <1>5, <1>6, <1>7, QuietStep DEF KInv, TypeOK

LEMMA ReadStep ==
    ASSUME KInv,
           \/ CheckTX \/ Info \/ QueryCommitted \/ QueryRead
           \/ CommitCommitted \/ CommitRead
    PROVE  KInv'
<1>1. /\ pool \subseteq Txs /\ rejected \subseteq Txs /\ height \in Nat
      /\ base \in Nat /\ tx \in Txs \cup {NoVal}
      /\ confirmed \subseteq committed
      /\ (pc \in WithTx => tx \in Txs)
  BY DEF KInv, TypeOK, SeenIsCommitted
<1>2. CASE CheckTX \/ Info
  <2>1. /\ UNCHANGED <<chainVars, tx, base, scanVars, confirmed>>
        /\ pc \in Sending /\ pc' \in Sending \ WithTx
    BY <1>2 DEF CheckTX, Info, Fatal, Sending, WithTx
  <2> QED
    BY <1>1, <2>1, QuietStep DEF chainVars
<1>3. CASE QueryCommitted \/ CommitCommitted
  <2>1. /\ UNCHANGED <<chainVars, scanVars, confirmed>>
        /\ pc \in WithTx
        /\ \/ pc' \in WithTx /\ UNCHANGED <<tx, base>>
           \/ pc' \in Sending \ WithTx /\ tx' = NoVal /\ base' = 0
    BY <1>3 DEF QueryCommitted, CommitCommitted, GoOnAfterFailure, Return,
                Fatal, Sending, WithTx
  <2>2. pc \in Sending /\ pc' \in Sending
    BY <2>1 DEF Sending
  <2>3. /\ base' \in Nat /\ tx' \in Txs \cup {NoVal}
        /\ (pc' \in WithTx => tx' \in Txs)
    BY <1>1, <2>1
  <2> QED
    BY <1>1, <2>1, <2>2, <2>3, QuietStep DEF chainVars
<1>4. CASE QueryRead \/ CommitRead
  <2>1. /\ UNCHANGED <<chainVars, scanVars>>
        /\ pc \in WithTx /\ pc' \in Sending \ WithTx
        /\ tx' = NoVal /\ base' = 0
        /\ \/ confirmed' = confirmed
           \/ Holds(tx) /\ confirmed' = confirmed \cup {tx}
    BY <1>4 DEF QueryRead, CommitRead, Return, Fatal, Sending, WithTx
  <2>2. pc \in Sending /\ pc' \in Sending /\ pc' \notin WithTx
    BY <2>1 DEF Sending
  <2>3. confirmed \subseteq confirmed' /\ confirmed' \subseteq committed
    BY <1>1, <2>1 DEF KInv, StoreOK
  <2> QED
    BY <1>1, <2>1, <2>2, <2>3, QuietStep DEF chainVars
<1> QED
  BY <1>2, <1>3, <1>4

-----------------------------------------------------------------------------
(* GenerateTXSAsync.                                                       *)

LEMMA SendStep == ASSUME KInv, SendTx PROVE KInv'
<1>1. /\ pc = "generate" /\ kvs = sent /\ Len(sent) < NumTxs
      /\ UNCHANGED <<faults, committed, height, kv, tx, base, attempt, at,
                     reported, confirmed>>
  BY DEF SendTx, KInv, ListOK, Sending
<1>2. PICK t \in Txs :
        \/ /\ Enter(t) /\ UNCHANGED pc
           /\ sent' = Append(sent, t) /\ kvs' = Append(kvs, t)
        \/ CallFails(t, "done") /\ UNCHANGED <<sent, kvs>>
  BY DEF SendTx
<1>3. pool' \subseteq Txs /\ rejected' \subseteq Txs
  BY <1>2, SubmitFacts DEF Enter, KInv, TypeOK
<1>4. sent \in Seq(Txs) /\ Len(sent) \in Nat /\ ~reported
  BY <1>1 DEF KInv, TypeOK, SeenIsCommitted
<1>5. StoreOK'
  BY <1>1 DEF KInv, StoreOK, Holds
<1>6. CASE CallFails(t, "done") /\ UNCHANGED <<sent, kvs>>
  <2>1. pc' = "done"
    BY <1>6, SubmitFacts
  <2>2. TypeOK'
    BY <1>1, <1>3, <1>6, <2>1 DEF KInv, TypeOK, PCs
  <2>3. ListOK'
    BY <1>6, <2>1 DEF KInv, ListOK, Suffix, Sending, WithTx
  <2>4. SeenIsCommitted' /\ pc' \notin WithTx
    BY <1>1, <1>6, <2>1 DEF KInv, SeenIsCommitted, WithTx
  <2> QED
    BY <1>5, <2>2, <2>3, <2>4 DEF KInv
<1>7. CASE /\ Enter(t) /\ UNCHANGED pc
           /\ sent' = Append(sent, t) /\ kvs' = Append(kvs, t)
  <2>1. sent' \in Seq(Txs) /\ Len(sent') = Len(sent) + 1 /\ kvs' = sent'
    BY <1>1, <1>4, <1>7, AppendProperties
  <2>2. Len(sent') <= NumTxs
    BY <1>1, <1>4, <2>1, BoundsAssumption
  <2>3. TypeOK'
    BY <1>1, <1>3, <1>7, <2>1, <2>2 DEF KInv, TypeOK
  <2>4. ListOK'
    BY <1>1, <1>7, <2>1, SuffixOfSelf DEF ListOK, Suffix
  <2>5. ToSet(sent') \subseteq ToSet(kvs')
    BY <2>1
  <2>6. SeenIsCommitted' /\ pc' \notin WithTx
    BY <1>1, <1>4, <1>7, <2>5 DEF KInv, SeenIsCommitted, WithTx
  <2> QED
    BY <1>5, <2>3, <2>4, <2>6 DEF KInv
<1> QED
  BY <1>2, <1>6, <1>7

LEMMA AttemptStep == ASSUME KInv, AllSent \/ NextAttempt PROVE KInv'
<1>1. /\ UNCHANGED <<chainVars, tx, base, sent, kvs, attempt, confirmed>>
      /\ Len(sent) = NumTxs
      /\ pc' \in {"attempt", "scan", "done"}
      /\ at' \in {at, 1} /\ (pc' = "scan" => at' = 1 /\ kvs # <<>>
                                             /\ ~NoMoreAttempts)
      /\ \/ reported' = reported
         \/ reported' = TRUE /\ kvs = <<>>
  BY DEF AllSent, NextAttempt, scanVars, KInv, ListOK
<1>2. pc' = "scan" => attempt < MaxAttempts
  BY <1>1, BoundsAssumption DEF NoMoreAttempts, KInv, TypeOK
<1>3. at' \in 1 .. NumTxs + 1
  BY <1>1, BoundsAssumption DEF KInv, TypeOK
<1>4. reported' \in BOOLEAN
  BY <1>1 DEF KInv, TypeOK
<1>5. pc' \in PCs
  BY <1>1 DEF PCs
<1>6. TypeOK'
  BY <1>1, <1>3, <1>4, <1>5 DEF KInv, TypeOK, chainVars
<1>7. StoreOK'
  BY <1>1 DEF KInv, StoreOK, Holds, chainVars
<1>8. ListOK'
  BY <1>1, <1>2 DEF KInv, ListOK, Suffix, Sending, WithTx
<1>9. SeenIsCommitted' /\ pc' \notin WithTx
  BY <1>1 DEF KInv, SeenIsCommitted, chainVars, WithTx
<1> QED
  BY <1>6, <1>7, <1>8, <1>9 DEF KInv

LEMMA ScanStep == ASSUME KInv, ScanHit \/ ScanMiss PROVE KInv'
<1>1. /\ pc = "scan" /\ at = 1 /\ kvs # <<>> /\ kvs \in Seq(Txs)
      /\ attempt \in 0 .. MaxAttempts /\ attempt < MaxAttempts
      /\ Len(sent) = NumTxs /\ sent \in Seq(Txs)
  BY DEF ScanHit, ScanMiss, KInv, ListOK, TypeOK
<1>2. /\ UNCHANGED <<chainVars, tx, base, sent, reported>>
      /\ at' = 1 /\ pc' \in {"scan", "attempt"}
      /\ attempt' \in {attempt, attempt + 1}
  BY <1>1 DEF ScanHit, ScanMiss, NextAt, Counted, Fatal
<1>3. attempt' \in 0 .. MaxAttempts
  BY <1>1, <1>2, BoundsAssumption
<1>4. StoreOK'
  BY <1>2 DEF KInv, StoreOK, Holds, chainVars
<1>5. ~reported
  BY <1>1 DEF KInv, SeenIsCommitted
<1>6. CASE ScanHit
  <2>1. /\ kvs' = Tail(kvs) /\ kvs[1] \in Txs /\ Holds(kvs[1])
        /\ confirmed' = confirmed \cup {kvs[1]}
    BY <1>1, <1>6, RemoveHead, ToSetTail DEF ScanHit
  <2>2. kvs' \in Seq(Txs) /\ Len(kvs') = Len(kvs) - 1 /\ Len(kvs) \in Nat
    BY <1>1, <2>1, HeadTailProperties
  <2>3. pc' = "scan" => kvs' # <<>> /\ attempt' = attempt
    <3> SUFFICES ASSUME pc' = "scan" PROVE kvs' # <<>> /\ attempt' = attempt
      OBVIOUS
    <3>1. 1 < Len(kvs) /\ attempt' = attempt
      BY <1>1, <1>6 DEF ScanHit, NextAt
    <3>2. \A n \in Nat : \A m : 1 < n /\ m = n - 1 => m # 0
      OBVIOUS
    <3>3. Len(kvs') # 0
      BY <2>2, <3>1, <3>2
    <3> QED
      BY <2>2, <3>1, <3>3, EmptySeq
  <2>4. confirmed' \subseteq committed /\ confirmed' \subseteq Txs
    BY <2>1 DEF KInv, StoreOK, SeenIsCommitted, TypeOK
  <2>5. ToSet(kvs) \subseteq {kvs[1]} \cup ToSet(kvs')
    BY <1>1, <2>1, ToSetTail
  <2>6. TypeOK'
    <3>1. pc' \in PCs /\ at' \in 1 .. NumTxs + 1
      BY <1>2, BoundsAssumption DEF PCs
    <3> QED
      BY <1>2, <1>3, <2>2, <2>4, <3>1 DEF KInv, TypeOK, chainVars
  <2>7. ListOK'
    <3>1. Suffix'
      BY <1>1, <1>2, <2>1, SuffixTail DEF KInv, ListOK, Suffix
    <3> QED
      BY <1>1, <1>2, <2>3, <3>1 DEF ListOK, Sending, WithTx
  <2>8. SeenIsCommitted'
    BY <1>2, <1>5, <2>1, <2>4, <2>5 DEF KInv, SeenIsCommitted, chainVars
  <2>9. pc' \notin WithTx
    BY <1>2 DEF WithTx
  <2> QED
    BY <1>4, <2>6, <2>7, <2>8, <2>9 DEF KInv
<1>7. CASE ScanMiss
  <2>1. pc' = "attempt" /\ UNCHANGED <<kvs, confirmed>>
    BY <1>7 DEF ScanMiss, Fatal
  <2>2. TypeOK'
    <3>1. pc' \in PCs /\ at' \in 1 .. NumTxs + 1
      BY <1>2, BoundsAssumption DEF PCs
    <3> QED
      BY <1>2, <1>3, <2>1, <3>1 DEF KInv, TypeOK, chainVars
  <2>3. ListOK'
    BY <1>1, <1>2, <2>1 DEF KInv, ListOK, Suffix, Sending, WithTx
  <2>4. SeenIsCommitted' /\ pc' \notin WithTx
    BY <1>2, <2>1 DEF KInv, SeenIsCommitted, chainVars, WithTx
  <2> QED
    BY <1>4, <2>2, <2>3, <2>4 DEF KInv
<1> QED
  BY <1>6, <1>7

LEMMA KStutter == ASSUME KInv, UNCHANGED vars PROVE KInv'
<1>1. /\ UNCHANGED <<faults, pool, committed, rejected, height, kv>>
      /\ UNCHANGED <<pc, tx, base, sent, kvs, attempt, at, reported, confirmed>>
  BY DEF vars, chainVars, testVars, scanVars
<1>2. TypeOK'
  BY <1>1 DEF KInv, TypeOK
<1>3. StoreOK' /\ ListOK' /\ SeenIsCommitted'
  BY <1>1 DEF KInv, StoreOK, Holds, ListOK, Suffix, SeenIsCommitted
<1> QED
  BY <1>1, <1>2, <1>3 DEF KInv

-----------------------------------------------------------------------------
(* The theorems.                                                           *)

LEMMA KVInvariant == Spec => []KInv
<1>1. KInv /\ [Next]_vars => KInv'
  BY ChainKeeps, QueryStep, ReadStep, SendStep, AttemptStep, ScanStep, KStutter
     DEF Next, TestStep, Terminated
<1> QED
  BY KInit, <1>1, PTL DEF Spec

(* Every variable of the kvstore tests keeps its type; in particular no    *)
(* attempt is made after the last.                                         *)
THEOREM KVTypes == Spec => []TypeOK
<1>1. KInv => TypeOK
  BY DEF KInv
<1> QED
  BY <1>1, KVInvariant, PTL

(* A pair with a success line is on the chain, and GenerateTXSAsync drops  *)
(* no other from its list, whatever the keys drawn and the faults.         *)
THEOREM SeenIsReal == Spec => []SeenIsCommitted
<1>1. KInv => SeenIsCommitted
  BY DEF KInv
<1> QED
  BY <1>1, KVInvariant, PTL

(* The pairs not seen are always the last ones sent: the loop that removes *)
(* the pair it stands at skips none.                                       *)
THEOREM NoneSkipped == Spec => []SeenInOrder
<1>1. KInv => SeenInOrder
  BY SuffixIsSubSeq DEF KInv, TypeOK, ListOK, Suffix, SeenInOrder
<1> QED
  BY <1>1, KVInvariant, PTL

-----------------------------------------------------------------------------
(* A chain without faults.                                                 *)

(* Before the tests send many transactions they wait for each one, so the  *)
(* pool is empty but for that one; and again after 15 seconds.             *)
Settled == {"checkTx", "info", "query", "queryRead", "commit", "commitRead",
            "attempt", "scan"}
Alone == pc \in Settled => pool = {}
Awaited ==
    pc \in {"queryWait", "commitWait"} =>
        \/ pool = {} /\ tx \in committed
        \/ pool = {tx} /\ tx \notin committed
Before == pc \in Sending \ {"generate"} => sent = <<>>

(* What GenerateTXSAsync sent is pending or can be read, for nothing that  *)
(* is executed later has the key of an earlier pair.                       *)
AllThere ==
    pc \in {"generate", "attempt", "scan"} =>
        /\ pool \subseteq ToSet(sent)
        /\ DistinctKeys =>
             \A i \in DOMAIN sent : sent[i] \in pool \/ Holds(sent[i])

(* So the first attempt finds all.                                         *)
OneScan ==
    DistinctKeys =>
        /\ pc \notin {"attempt", "done"} => attempt = 0
        /\ pc = "attempt" => attempt = 0 \/ (attempt = 1 /\ kvs = <<>>)

FInv ==
    faults = {} =>
        /\ rejected = {}
        /\ Alone /\ Awaited /\ Before /\ AllThere /\ OneScan
        /\ ReportsWhenDone

(* A block brings one pending transaction in, and its pair into the store. *)
LEMMA ChainFInv == ASSUME KInv, FInv, ChainStep PROVE FInv'
<1> SUFFICES ASSUME faults = {} PROVE FInv'
  BY DEF FInv, ChainStep, Block, Lose
<1> PICK t \in pool : Block(t)
  BY DEF ChainStep, Lose
<1>1. UNCHANGED <<pc, tx, base, sent, kvs, attempt, at, reported, confirmed>>
  BY DEF ChainStep, testVars, scanVars
<1>2. /\ kv' = [kv EXCEPT ![t.k] = t.v] /\ pool' = pool \ {t}
      /\ committed' = committed \cup {t} /\ faults' = {}
      /\ rejected' = {}
  BY DEF Block, FInv
<1>3. /\ t.k \in Keys /\ kv \in [Keys -> Vals \cup {NoVal}]
      /\ sent \in Seq(Txs)
  BY DrawsAssumption DEF KInv, TypeOK, Txs
<1>4. Alone' /\ Awaited' /\ Before'
  BY <1>1, <1>2 DEF FInv, Alone, Awaited, Before, Settled
<1>5. AllThere'
  <2> SUFFICES ASSUME pc \in {"generate", "attempt", "scan"}
               PROVE  /\ pool' \subseteq ToSet(sent)
                      /\ DistinctKeys => \A i \in DOMAIN sent :
                           sent[i] \in pool' \/ kv'[sent[i].k] = sent[i].v
    BY <1>1 DEF AllThere, DistinctKeys, Holds
  <2>1. pool \subseteq ToSet(sent)
    BY DEF FInv, AllThere
  <2>2. PICK j \in DOMAIN sent : sent[j] = t
    BY <2>1 DEF ToSet
  <2>3. ASSUME DistinctKeys, NEW i \in DOMAIN sent, sent[i] \notin pool'
        PROVE  kv'[sent[i].k] = sent[i].v
    <3>1. CASE sent[i] = t
      BY <1>2, <1>3, <3>1
    <3>2. CASE sent[i] # t
      <4>1. Holds(sent[i])
        BY <1>2, <2>3, <3>2 DEF FInv, AllThere
      <4>2. sent[i].k # t.k
        BY <2>2, <2>3, <3>2 DEF DistinctKeys
      <4>3. sent[i] \in Txs
        BY <1>3, ElementOfSeq
      <4>4. sent[i].k \in Keys
        BY <4>3, DrawsAssumption DEF Txs
      <4> QED
        BY <1>2, <1>3, <4>1, <4>2, <4>4 DEF Holds
    <3> QED
      BY <3>1, <3>2
  <2> QED
    BY <1>2, <2>1, <2>3
<1>6. OneScan' /\ ReportsWhenDone'
  BY <1>1, <1>2 DEF FInv, OneScan, ReportsWhenDone, DistinctKeys
<1> QED
  BY <1>2, <1>4, <1>5, <1>6 DEF FInv

(* The tests before GenerateTXSAsync.                                      *)
LEMMA QuietFInv ==
    ASSUME KInv, FInv,
           CheckTX \/ Info \/ Query \/ QueryCommitted \/ QueryRead
             \/ Commit \/ CommitCommitted \/ CommitRead
    PROVE  FInv'
<1> SUFFICES ASSUME faults = {} PROVE FInv'
  BY DEF FInv, CheckTX, Info, Query, QueryCommitted, QueryRead, Commit,
         CommitCommitted, CommitRead, chainVars
<1>1. UNCHANGED <<faults, committed, sent, kvs, attempt, reported>>
  BY DEF CheckTX, Info, Query, QueryCommitted, QueryRead, Commit,
         CommitCommitted, CommitRead, chainVars, scanVars
<1>2. pc \in Sending /\ pc # "generate"
  BY DEF CheckTX, Info, Query, QueryCommitted, QueryRead, Commit,
         CommitCommitted, CommitRead, Sending, WithTx
<1>3. \/ pc' \in Settled \ {"attempt", "scan"} /\ pool' = {}
      \/ pc' = "generate" /\ pool' = {}
      \/ /\ pc' \in {"queryWait", "commitWait"}
         /\ pool' = {tx'} /\ tx' \notin committed
  <2>1. CASE CheckTX \/ Info
    BY <2>1 DEF CheckTX, Info, Fatal, FInv, Alone, Settled, chainVars
  <2>2. CASE Query
    <3>1. pool = {} /\ pc = "query"
      BY <2>2 DEF Query, FInv, Alone, Settled
    <3>2. PICK t \in Txs :
            \/ Submit(t, "queryWait")
            \/ CheckTxIsErr(t)
            \/ CallFails(t, "commit")
      BY <2>2 DEF Query
    <3> QED
      BY <3>1, <3>2 DEF Submit, CheckTxIsErr, CallFails, Known, Enter, Fatal,
                        Settled
  <2>3. CASE Commit
    <3>1. pool = {} /\ pc = "commit"
      BY <2>3 DEF Commit, FInv, Alone, Settled
    <3>2. PICK t \in Txs :
            \/ Submit(t, "commitWait")
            \/ CheckTxIsErr(t)
            \/ CallFails(t, "generate")
      BY <2>3 DEF Commit
    <3> QED
      BY <3>1, <3>2 DEF Submit, CheckTxIsErr, CallFails, Known, Enter, Fatal
  <2>4. CASE QueryCommitted \/ CommitCommitted
    <3>1. /\ pc \in {"queryWait", "commitWait"} /\ UNCHANGED pool
          /\ pc' \in {"queryRead", "commit", "commitRead", "generate"}
          /\ tx \in committed \cup rejected \/ TimedOut
      BY <2>4 DEF QueryCommitted, CommitCommitted, GoOnAfterFailure, Fatal,
                  chainVars
    <3>2. \/ pool = {} /\ tx \in committed
          \/ pool = {tx} /\ tx \notin committed
      BY <3>1 DEF FInv, Awaited
    <3>3. ~TimedOut /\ rejected = {}
      BY <3>2 DEF TimedOut, FInv
    <3> QED
      BY <3>1, <3>2, <3>3 DEF Settled
  <2>5. CASE QueryRead \/ CommitRead
    BY <2>5 DEF QueryRead, CommitRead, Fatal, FInv, Alone, Settled, chainVars
  <2> QED
    BY <2>1, <2>2, <2>3, <2>4, <2>5
<1>4. rejected' = {}
  BY DEF FInv, CheckTX, Info, Query, QueryCommitted, QueryRead, Commit,
         CommitCommitted, CommitRead, Submit, CheckTxIsErr, CallFails, Enter,
         chainVars
<1>5. Alone' /\ Awaited'
  BY <1>1, <1>3 DEF Alone, Awaited, Settled
<1>6. sent = <<>> /\ attempt = 0 /\ DOMAIN sent = {}
  BY <1>2 DEF FInv, Before, OneScan, DistinctKeys, Sending, WithTx
<1>7. Before' /\ AllThere' /\ OneScan' /\ ReportsWhenDone'
  BY <1>1, <1>3, <1>6 DEF Before, AllThere, OneScan, ReportsWhenDone, Settled
<1> QED
  BY <1>4, <1>5, <1>7 DEF FInv

(* GenerateTXSAsync sends: nothing but a transaction the chain knows       *)
(* already is refused.                                                     *)
LEMMA SendFInv == ASSUME KInv, FInv, SendTx PROVE FInv'
<1> SUFFICES ASSUME faults = {} PROVE FInv'
  BY DEF FInv, SendTx
<1>1. /\ pc = "generate" /\ Len(sent) < NumTxs /\ sent \in Seq(Txs)
      /\ UNCHANGED <<faults, committed, height, kv, tx, base, attempt, at,
                     reported, confirmed>>
  BY DEF SendTx, KInv, TypeOK
<1>2. PICK t \in Txs :
        \/ /\ Enter(t) /\ UNCHANGED pc
           /\ sent' = Append(sent, t) /\ kvs' = Append(kvs, t)
        \/ CallFails(t, "done") /\ UNCHANGED <<sent, kvs>>
  BY DEF SendTx
<1>3. rejected' = {}
  BY <1>2 DEF FInv, Enter, CallFails
<1>4. CASE CallFails(t, "done") /\ UNCHANGED <<sent, kvs>>
  <2>1. pc' = "done"
    BY <1>4 DEF CallFails, Fatal
  <2> QED
    BY <1>1, <1>3, <1>4, <2>1
       DEF FInv, Alone, Awaited, Before, AllThere, OneScan, ReportsWhenDone,
           DistinctKeys, Settled, Sending, WithTx
<1>5. CASE /\ Enter(t) /\ UNCHANGED pc
           /\ sent' = Append(sent, t) /\ kvs' = Append(kvs, t)
  <2>1. /\ ToSet(sent') = ToSet(sent) \cup {t}
        /\ DOMAIN sent = 1 .. Len(sent) /\ Len(sent) \in Nat
        /\ DOMAIN sent' = 1 .. Len(sent) + 1
        /\ \A i \in 1 .. Len(sent) : sent'[i] = sent[i]
        /\ sent'[Len(sent) + 1] = t
    BY <1>1, <1>5, ToSetAppend, AppendProperties
  <2>2. DistinctKeys' => DistinctKeys
    BY <2>1 DEF DistinctKeys
  <2>3. pool' = pool \cup {t}
    BY <1>5 DEF Enter
  <2>4. AllThere'
    BY <1>1, <2>1, <2>2, <2>3 DEF FInv, AllThere, Holds
  <2>5. OneScan' /\ ReportsWhenDone'
    BY <1>1, <1>5, <2>2 DEF FInv, OneScan, ReportsWhenDone
  <2> QED
    BY <1>1, <1>3, <1>5, <2>4, <2>5
       DEF FInv, Alone, Awaited, Before, Settled, Sending, WithTx
<1> QED
  BY <1>2, <1>4, <1>5

(* GenerateTXSAsync looks: the first pair of the list is always there, and *)
(* the attempt that finds the last is not the last one.                    *)
LEMMA LookFInv ==
    ASSUME MaxAttempts >= 2, KInv, FInv,
           AllSent \/ NextAttempt \/ ScanHit \/ ScanMiss
    PROVE  FInv'
<1> SUFFICES ASSUME faults = {} PROVE FInv'
  BY DEF FInv, AllSent, NextAttempt, ScanHit, ScanMiss, chainVars
<1>1. /\ UNCHANGED <<chainVars, sent>>
      /\ pc \in {"generate", "attempt", "scan"}
      /\ pc' \in {"attempt", "scan", "done"}
      /\ sent \in Seq(Txs) /\ kvs \in Seq(Txs)
  BY DEF AllSent, NextAttempt, ScanHit, ScanMiss, scanVars, Fatal, KInv, TypeOK
<1>2. pool = {}
  BY DEF FInv, Alone, Settled, AllSent, NextAttempt, ScanHit, ScanMiss
<1>3. /\ rejected' = {} /\ Alone' /\ Awaited' /\ Before' /\ AllThere'
      /\ faults' = {}
  BY <1>1, <1>2 DEF FInv, Alone, Awaited, Before, AllThere, Holds, Settled,
                    Sending, WithTx, DistinctKeys, chainVars
<1>4. DistinctKeys' = DistinctKeys
  BY <1>1 DEF DistinctKeys
<1> SUFFICES ASSUME DistinctKeys PROVE OneScan' /\ ReportsWhenDone'
  BY <1>3, <1>4 DEF FInv, OneScan, ReportsWhenDone
<1>5. CASE AllSent
  BY <1>1, <1>5 DEF AllSent, FInv, OneScan, ReportsWhenDone, scanVars
<1>6. CASE NextAttempt
  <2>1. attempt = 0 \/ (attempt = 1 /\ kvs = <<>>)
    BY <1>6 DEF NextAttempt, FInv, OneScan
  <2>2. ~NoMoreAttempts
    BY <2>1, BoundsAssumption DEF NoMoreAttempts
  <2> QED
    BY <1>6, <2>1, <2>2 DEF NextAttempt, OneScan, ReportsWhenDone
<1>7. CASE ScanHit \/ ScanMiss
  <2>1. pc = "scan" /\ at = 1 /\ kvs # <<>> /\ attempt = 0
    BY <1>7 DEF ScanHit, ScanMiss, KInv, ListOK, FInv, OneScan
  <2>2. \E i \in DOMAIN sent : kvs[1] = sent[i]
    <3>1. Len(kvs) \in Nat \ {0} /\ Len(sent) \in Nat /\ Len(kvs) <= Len(sent)
      BY <1>1, <2>1 DEF KInv, ListOK, Suffix, SuffixOf
    <3>2. kvs[1] = sent[Len(sent) - Len(kvs) + 1]
      BY <3>1 DEF KInv, ListOK, Suffix, SuffixOf
    <3>3. Len(sent) - Len(kvs) + 1 \in DOMAIN sent
      BY <1>1, <3>1
    <3> QED
      BY <3>2, <3>3
  <2>3. Holds(kvs[at])
    BY <1>1, <1>2, <2>1, <2>2 DEF FInv, AllThere
  <2>4. ScanHit /\ "rpc" \notin faults
    BY <1>7, <2>3 DEF ScanMiss
  <2>5. /\ kvs' = Tail(kvs) /\ Len(kvs) \in Nat \ {0}
        /\ Len(kvs') = Len(kvs) - 1 /\ kvs' \in Seq(Txs)
    <3>1. kvs' = Tail(kvs)
      BY <1>1, <2>1, <2>4, RemoveHead DEF ScanHit
    <3> QED
      BY <1>1, <2>1, <3>1, HeadTailProperties
  <2>6. \/ pc' = "scan" /\ attempt' = 0
        \/ pc' = "attempt" /\ attempt' = 1 /\ ~(1 < Len(kvs))
    BY <2>1, <2>4 DEF ScanHit, NextAt, Counted
  <2>7. ~(1 < Len(kvs)) => kvs' = <<>>
    BY <2>5, EmptySeq
  <2> QED
    BY <2>6, <2>7 DEF OneScan, ReportsWhenDone
<1> QED
  BY <1>5, <1>6, <1>7

LEMMA FaultlessInvariant ==
    ASSUME MaxAttempts >= 2
    PROVE  Spec => []FInv
<1>1. Init => FInv
  BY DEF Init, FInv, Alone, Awaited, Before, AllThere, OneScan,
         ReportsWhenDone, Settled
<1>2. KInv /\ FInv /\ [Next]_vars => FInv'
  <2> SUFFICES ASSUME KInv, FInv, [Next]_vars PROVE FInv'
    OBVIOUS
  <2>1. CASE UNCHANGED vars
    BY <2>1 DEF vars, chainVars, testVars, scanVars, FInv, Alone, Awaited,
                Before, AllThere, OneScan, ReportsWhenDone, DistinctKeys, Holds
  <2> QED
    BY <2>1, ChainFInv, QuietFInv, SendFInv, LookFInv
       DEF Next, TestStep, Terminated
<1> QED
  BY <1>1, <1>2, KVInvariant, PTL DEF Spec

(* On a chain without faults GenerateTXSAsync does not end before it said  *)
(* that all is committed, unless a call was refused or a key drawn twice.  *)
(* One attempt finds all of them, and the next one says so: the code makes *)
(* up to 30.                                                               *)
THEOREM FaultlessReport ==
    ASSUME MaxAttempts >= 2
    PROVE  Spec => []ReportsWhenDone
<1>1. FInv => ReportsWhenDone
  BY DEF FInv, ReportsWhenDone
<1> QED
  BY <1>1, FaultlessInvariant, PTL

-----------------------------------------------------------------------------
(* What the two claims that do not hold rest on.                           *)

(* The success line of Query is true of a chain that executes all it takes *)
(* in: nothing but a failed transaction makes it false, whatever the chain *)
(* loses or delays and whichever calls fail.                               *)
THEOREM SuccessLineNeedsExec ==
    ASSUME "exec" \notin Faults
    PROVE  Spec => []SuccessLineIsTrue
<1> DEFINE Inv == rejected = {} /\ SuccessLineIsTrue
<1>1. Init => Inv
  BY DEF Init, SuccessLineIsTrue
<1>2. KInv /\ Inv /\ [Next]_vars => Inv'
  <2> SUFFICES ASSUME KInv, Inv, [Next]_vars PROVE Inv'
    OBVIOUS
  <2>1. "exec" \notin faults
    BY DEF KInv, TypeOK
  <2>2. CASE ChainStep
    BY <2>1, <2>2 DEF ChainStep, Block, Lose, testVars, SuccessLineIsTrue
  <2>3. CASE Query \/ Commit
    BY <2>1, <2>3 DEF Query, Commit, Submit, CheckTxIsErr, CallFails, Enter,
                      Fatal, SuccessLineIsTrue
  <2>4. CASE QueryCommitted
    BY <2>4 DEF QueryCommitted, GoOnAfterFailure, Fatal, SuccessLineIsTrue,
                chainVars
  <2>5. CASE CheckTX \/ Info \/ QueryRead \/ CommitCommitted \/ CommitRead
    BY <2>5 DEF CheckTX, Info, QueryRead, CommitCommitted, CommitRead, Fatal,
                SuccessLineIsTrue, chainVars
  <2>6. CASE SendTx
    BY <2>6 DEF SendTx, Enter, CallFails, Fatal, SuccessLineIsTrue
  <2>7. CASE AllSent \/ NextAttempt \/ ScanHit \/ ScanMiss
    BY <2>7 DEF AllSent, NextAttempt, ScanHit, ScanMiss, Fatal,
                SuccessLineIsTrue, chainVars
  <2>8. CASE UNCHANGED vars
    BY <2>8 DEF vars, chainVars, testVars, SuccessLineIsTrue
  <2> QED
    BY <2>2, <2>3, <2>4, <2>5, <2>6, <2>7, <2>8 DEF Next, TestStep, Terminated
<1> QED
  BY <1>1, <1>2, KVInvariant, PTL DEF Spec

(* GenerateTXSAsync does wait for all it sent on a chain that loses and    *)
(* fails nothing and takes at most its 15 seconds, even when calls fail:   *)
(* the wait is what keeps the promise, and not the attempts after it.      *)
Kept == ToSet(sent) \subseteq pool \cup committed
Waited == pc \in {"attempt", "scan"} => pool = {}

LEMMA KeptStep ==
    ASSUME Faults \subseteq {"rpc"}, KInv, Kept, Waited, WaitsForCommit,
           [Next]_vars
    PROVE  Kept' /\ Waited' /\ WaitsForCommit'
<1>1. faults \subseteq {"rpc"} /\ sent \in Seq(Txs)
  BY DEF KInv, TypeOK
<1>2. CASE ChainStep
  <2>1. PICK t \in pool : pool' = pool \ {t} /\ committed' = committed \cup {t}
    BY <1>1, <1>2 DEF ChainStep, Block, Lose
  <2>2. UNCHANGED <<pc, sent>>
    BY <1>2 DEF ChainStep, testVars, scanVars
  <2> QED
    BY <2>1, <2>2 DEF Kept, Waited, WaitsForCommit
<1>3. CASE CheckTX \/ Info \/ Query \/ QueryCommitted \/ QueryRead
             \/ Commit \/ CommitCommitted \/ CommitRead
  <2>1. /\ UNCHANGED <<committed, sent>> /\ pool \subseteq pool'
        /\ pc' \notin {"attempt", "scan", "done"}
    BY <1>3 DEF CheckTX, Info, Query, QueryCommitted, QueryRead, Commit,
                CommitCommitted, CommitRead, Submit, CheckTxIsErr, CallFails,
                Enter, GoOnAfterFailure, Fatal, scanVars, chainVars
  <2> QED
    BY <2>1 DEF Kept, Waited, WaitsForCommit
<1>4. CASE SendTx
  <2>1. PICK t \in Txs :
          \/ /\ Enter(t) /\ UNCHANGED pc
             /\ sent' = Append(sent, t)
          \/ CallFails(t, "done") /\ UNCHANGED sent
    BY <1>4 DEF SendTx
  <2>2. UNCHANGED committed /\ pc = "generate" /\ Len(sent) < NumTxs
    BY <1>4 DEF SendTx
  <2>3. CASE Enter(t) /\ UNCHANGED pc /\ sent' = Append(sent, t)
    <3>1. ToSet(sent') = ToSet(sent) \cup {t}
      BY <1>1, <2>3, ToSetAppend
    <3> QED
      BY <2>2, <2>3, <3>1 DEF Kept, Waited, WaitsForCommit, Enter
  <2>4. CASE CallFails(t, "done") /\ UNCHANGED sent
    <3>1. Len(sent) # NumTxs
      BY <1>1, <2>2, BoundsAssumption
    <3> QED
      BY <2>2, <2>4, <3>1 DEF Kept, Waited, WaitsForCommit, CallFails, Enter,
                              Fatal
  <2> QED
    BY <2>1, <2>3, <2>4
<1>5. CASE AllSent \/ NextAttempt \/ ScanHit \/ ScanMiss
  <2>1. UNCHANGED <<pool, committed, sent>>
    BY <1>5 DEF AllSent, NextAttempt, ScanHit, ScanMiss, chainVars, scanVars
  <2>2. pool = {}
    BY <1>1, <1>5 DEF AllSent, NextAttempt, ScanHit, ScanMiss, Waited
  <2> QED
    BY <2>1, <2>2 DEF Kept, Waited, WaitsForCommit
<1>6. CASE UNCHANGED vars
  BY <1>6 DEF vars, chainVars, testVars, scanVars, Kept, Waited,
              WaitsForCommit
<1> QED
  BY <1>2, <1>3, <1>4, <1>5, <1>6 DEF Next, TestStep, Terminated

THEOREM WaitNeedsPromptChain ==
    ASSUME Faults \subseteq {"rpc"}
    PROVE  Spec => []WaitsForCommit
<1>1. Init => Kept /\ Waited /\ WaitsForCommit
  BY DEF Init, Kept, Waited, WaitsForCommit, ToSet
<1>2. KInv /\ (Kept /\ Waited /\ WaitsForCommit) /\ [Next]_vars
        => Kept' /\ Waited' /\ WaitsForCommit'
  BY KeptStep
<1> QED
  BY <1>1, <1>2, KVInvariant, PTL DEF Spec

-----------------------------------------------------------------------------
(* The tests end.                                                          *)

(* What the loops have still to do is a number of steps.                   *)
LEMMA StepsLeftNat == KInv => StepsLeft \in Nat
<1> SUFFICES ASSUME KInv PROVE StepsLeft \in Nat
  OBVIOUS
<1>1. /\ Len(kvs) \in Nat /\ Len(sent) \in Nat /\ Len(sent) <= NumTxs
      /\ attempt \in 0 .. MaxAttempts
      /\ MaxAttempts \in Nat /\ NumTxs \in Nat /\ pc \in PCs
  BY BoundsAssumption DEF KInv, TypeOK
<1>2. pc \notin {"done", "scan", "attempt"} => StepsBeforeGenerate[pc] \in Nat
  BY <1>1 DEF PCs, StepsBeforeGenerate
<1>3. StepsOfScans \in Nat
  <2>1. MaxAttempts - attempt \in Nat
    BY <1>1
  <2> QED
    BY <1>1, <2>1 DEF StepsOfScans
<1>4. CASE pc \in {"done", "scan", "attempt"}
  BY <1>3, <1>4 DEF StepsLeft
<1>5. CASE pc \notin {"done", "scan", "attempt"}
  <2>1. StepsLeft = StepsBeforeGenerate[pc] + 2 * MaxAttempts
                      + 2 * NumTxs - Len(sent) + 2
    BY <1>5 DEF StepsLeft
  <2> QED
    BY <1>1, <1>2, <1>5, <2>1
<1> QED
  BY <1>4, <1>5

(* A step of a test before GenerateTXSAsync leads on to a later one.       *)
LEMMA QuietCountdown ==
    ASSUME KInv,
           CheckTX \/ Info \/ Query \/ QueryCommitted \/ QueryRead
             \/ Commit \/ CommitCommitted \/ CommitRead
    PROVE  StepsLeft' < StepsLeft
<1> DEFINE B == StepsBeforeGenerate
<1>1. UNCHANGED sent
  BY DEF CheckTX, Info, Query, QueryCommitted, QueryRead, Commit,
         CommitCommitted, CommitRead, scanVars
<1>2. pc \in Sending /\ pc' \in Sending /\ B[pc'] < B[pc]
  <2>1. CASE CheckTX \/ Info
    BY <2>1 DEF CheckTX, Info, Fatal, Sending, WithTx, StepsBeforeGenerate
  <2>2. CASE Query \/ Commit
    <3>1. \/ pc = "query" /\ pc' \in {"queryWait", "queryRead", "commit"}
          \/ pc = "commit" /\ pc' \in {"commitWait", "commitRead", "generate"}
      BY <2>2 DEF Query, Commit, Submit, CallFails, Fatal
    <3> QED
      BY <3>1 DEF Sending, WithTx, StepsBeforeGenerate
  <2>3. CASE QueryCommitted \/ CommitCommitted \/ QueryRead \/ CommitRead
    BY <2>3 DEF QueryCommitted, CommitCommitted, QueryRead, CommitRead,
                GoOnAfterFailure, Fatal, Sending, WithTx, StepsBeforeGenerate
  <2> QED
    BY <2>1, <2>2, <2>3
<1>3. B[pc] \in Nat /\ B[pc'] \in Nat
  BY <1>2 DEF Sending, WithTx, StepsBeforeGenerate
<1>4. /\ StepsLeft = B[pc] + 2 * MaxAttempts + 2 * NumTxs - Len(sent) + 2
      /\ StepsLeft' = B[pc'] + 2 * MaxAttempts + 2 * NumTxs - Len(sent') + 2
  BY <1>2 DEF StepsLeft, Sending, WithTx
<1>5. Len(sent) \in Nat /\ MaxAttempts \in Nat /\ NumTxs \in Nat
  BY BoundsAssumption DEF KInv, TypeOK
<1> HIDE DEF B
<1> QED
  BY <1>1, <1>2, <1>3, <1>4, <1>5

(* Sending takes one from those to send, an attempt one from those to      *)
(* make, and a hit one from those to find.                                 *)
LEMMA LoopCountdown ==
    ASSUME KInv, SendTx \/ AllSent \/ NextAttempt \/ ScanHit \/ ScanMiss
    PROVE  StepsLeft' < StepsLeft
<1>1. /\ Len(kvs) \in Nat /\ Len(sent) \in Nat /\ Len(sent) <= NumTxs
      /\ attempt \in 0 .. MaxAttempts /\ kvs \in Seq(Txs) /\ sent \in Seq(Txs)
      /\ MaxAttempts \in Nat /\ NumTxs \in Nat
  BY BoundsAssumption DEF KInv, TypeOK
<1>2. StepsBeforeGenerate["generate"] = 0
  BY DEF StepsBeforeGenerate
<1>3. CASE SendTx
  <2>1. /\ pc = "generate" /\ Len(sent) < NumTxs
        /\ \/ pc' = pc /\ Len(sent') = Len(sent) + 1
           \/ pc' = "done"
    BY <1>1, <1>3, AppendProperties DEF SendTx, CallFails, Fatal
  <2> QED
    BY <1>1, <1>2, <2>1 DEF StepsLeft
<1>4. CASE AllSent
  <2>1. /\ pc = "generate" /\ pc' = "attempt" /\ Len(sent) = NumTxs
        /\ UNCHANGED <<kvs, attempt>> /\ Len(kvs) <= Len(sent)
    BY <1>4 DEF AllSent, scanVars, KInv, ListOK, Suffix, SuffixOf
  <2> QED
    BY <1>1, <1>2, <2>1 DEF StepsLeft, StepsOfScans
<1>5. CASE NextAttempt
  <2>1. /\ pc = "attempt" /\ pc' \in {"scan", "done"}
        /\ UNCHANGED <<kvs, attempt>>
    BY <1>5 DEF NextAttempt
  <2> QED
    BY <1>1, <2>1 DEF StepsLeft, StepsOfScans
<1>6. CASE ScanMiss
  <2>1. /\ pc = "scan" /\ pc' = "attempt" /\ UNCHANGED kvs
        /\ attempt' = attempt + 1
    BY <1>6 DEF ScanMiss, Counted, Fatal
  <2> QED
    BY <1>1, <2>1 DEF StepsLeft, StepsOfScans
<1>7. CASE ScanHit
  <2>1. pc = "scan" /\ kvs # <<>> /\ kvs' = Tail(kvs)
    <3>1. pc = "scan" /\ at = 1 /\ kvs # <<>>
      BY <1>7 DEF ScanHit, KInv, ListOK
    <3> QED
      BY <1>1, <1>7, <3>1, RemoveHead DEF ScanHit
  <2>2. Len(kvs') = Len(kvs) - 1
    BY <1>1, <2>1, HeadTailProperties
  <2>3. \/ pc' = "scan" /\ attempt' = attempt
        \/ pc' = "attempt" /\ attempt' = attempt + 1
    BY <1>7, <2>1 DEF ScanHit, Counted
  <2> QED
    BY <1>1, <2>1, <2>2, <2>3 DEF StepsLeft, StepsOfScans
<1> QED
  BY <1>3, <1>4, <1>5, <1>6, <1>7

(* Every step of the tests takes at least one from the number of those     *)
(* left, and the chain adds none: whatever it loses, fails or delays, the  *)
(* tests make no more than StepsLeft steps.                                *)
THEOREM KVCountdown == Spec => Countdown
<1>0. KInv' => (StepsLeft \in Nat)'
  BY StepsLeftNat, PTL
<1>1. KInv /\ KInv' /\ [Next]_vars =>
        [/\ StepsLeft' \in Nat
         /\ StepsLeft' <= StepsLeft
         /\ TestStep => StepsLeft' < StepsLeft]_vars
  <2> SUFFICES ASSUME KInv, KInv', Next
               PROVE  /\ StepsLeft' \in Nat
                      /\ StepsLeft' <= StepsLeft
                      /\ TestStep => StepsLeft' < StepsLeft
    OBVIOUS
  <2>1. StepsLeft \in Nat
    BY StepsLeftNat
  <2>2. StepsLeft' \in Nat
    BY <1>0
  <2>3. TestStep => StepsLeft' < StepsLeft
    BY QuietCountdown, LoopCountdown DEF TestStep
  <2>4. ~TestStep => StepsLeft' = StepsLeft
    <3> SUFFICES ASSUME ~TestStep PROVE StepsLeft' = StepsLeft
      OBVIOUS
    <3>1. UNCHANGED <<pc, sent, kvs, attempt>>
      BY DEF Next, ChainStep, Terminated, vars, testVars, scanVars
    <3> QED
      BY <3>1 DEF StepsLeft, StepsOfScans
  <2> QED
    BY <2>1, <2>2, <2>3, <2>4
<1> QED
  BY <1>1, KVInvariant, PTL DEF Spec, Countdown

=============================================================================
