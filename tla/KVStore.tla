------------------------------ MODULE KVStore ------------------------------
(***************************************************************************)
(* The key-value end-to-end tests of internal/kvstore.go, against a chain  *)
(* that runs the kvstore application.  The tests run one after the other   *)
(* in one goroutine.                                                       *)
(*                                                                         *)
(* The logger of the runner is avalanchego's: its Fatal writes a line and  *)
(* returns.  Fatal below is a line like that and a return from the test.   *)
(***************************************************************************)
EXTENDS Naturals, SequencesExt

CONSTANTS
    Keys, Vals,    \* what rand.Str(3) may yield
    Draws,         \* the pairs MakeTxKV may draw
    NoVal,         \* the value of a key nobody wrote
    NumTxs,        \* transactions GenerateTXSAsync sends (200 in the code)
    MaxAttempts,   \* its attempts to see them all (30 in the code)
    Faults         \* faults of the environment, see FaultKinds

(* "drop": a transaction is lost; "exec": its execution fails; "rpc": a    *)
(* call fails; "slow": a transaction takes longer than a test waits.       *)
FaultKinds == {"drop", "exec", "rpc", "slow"}

ASSUME FaultsAssumption == Faults \subseteq FaultKinds
ASSUME NoValAssumption == NoVal \notin Vals /\ NoVal \notin Draws
ASSUME DrawsAssumption == Draws \subseteq [k : Keys, v : Vals]
ASSUME BoundsAssumption == NumTxs \in Nat /\ MaxAttempts \in Nat \ {0}

VARIABLES
    faults,      \* those that may happen, all of Faults or none
    pool,        \* the chain: transactions waiting for a block
    committed,   \* the chain: transactions executed in a block
    rejected,    \* the chain: transactions in a block that failed
    height,      \* the chain: LatestBlockHeight
    kv,          \* the chain: the store of the application
    pc,          \* the test in progress
    tx,          \* the transaction of Query and Commit
    base,        \* height in Commit
    sent,        \* what GenerateTXSAsync has sent, in order
    kvs,         \* what it has not seen on the chain yet
    attempt,     \* j, the attempts made
    at,          \* i + 1, where the scan of the list stands
    confirmed,   \* pairs with an "ABCIQuery success" line
    reported     \* "All transactions are committed" was logged

chainVars == <<faults, pool, committed, rejected, height, kv>>
scanVars == <<sent, kvs, attempt, at, reported>>
testVars == <<pc, tx, base, scanVars, confirmed>>
vars == <<chainVars, testVars>>

Txs == Draws
PCs == {"checkTx", "info", "query", "queryWait", "queryRead", "commit",
        "commitWait", "commitRead", "generate", "attempt", "scan", "done"}

Init ==
    /\ faults \in {{}, Faults}
    /\ pool = {} /\ committed = {} /\ rejected = {} /\ height = 1
    /\ kv = [k \in Keys |-> NoVal]
    /\ pc = "checkTx"
    /\ tx = NoVal
    /\ base = 0
    /\ sent = <<>> /\ kvs = <<>>
    /\ attempt = 0 /\ at = 1
    /\ confirmed = {}
    /\ reported = FALSE

-----------------------------------------------------------------------------
(* The chain.  A block of several transactions is, to these tests, as many *)
(* blocks of one.  A transaction whose execution fails changes no key.     *)
Block(t) ==
    /\ \/ /\ kv' = [kv EXCEPT ![t.k] = t.v]
          /\ committed' = committed \cup {t}
          /\ UNCHANGED rejected
       \/ /\ "exec" \in faults
          /\ rejected' = rejected \cup {t}
          /\ UNCHANGED <<kv, committed>>
    /\ pool' = pool \ {t}
    /\ height' = height + 1
    /\ UNCHANGED faults

Lose(t) ==
    /\ "drop" \in faults
    /\ pool' = pool \ {t}
    /\ UNCHANGED <<faults, committed, rejected, height, kv>>

(* A transaction enters the pool.  The mempool knows those it has seen,    *)
(* and answers with an error.                                              *)
Known(t) == t \in committed \cup pool
Enter(t) == pool' = pool \cup {t} /\ rejected' = rejected \ {t}

ChainStep == (\E t \in pool : Block(t) \/ Lose(t)) /\ UNCHANGED testVars

-----------------------------------------------------------------------------
(* A fatal line: the test returns and the next one begins.                 *)
Fatal(next) == pc' = next

(* Query and Commit end, and their variables with them.                    *)
Return == tx' = NoVal /\ base' = 0

CheckTX ==
    /\ pc = "checkTx"
    /\ \/ pc' = "info"
       \/ "rpc" \in faults /\ Fatal("info")
    /\ UNCHANGED <<chainVars, tx, base, scanVars, confirmed>>

Info ==
    /\ pc = "info"
    /\ \/ pc' = "query"
       \/ "rpc" \in faults /\ Fatal("query")
    /\ UNCHANGED <<chainVars, tx, base, scanVars, confirmed>>

(* BroadcastTxCommit: the call makes its caller wait; or the application   *)
(* refuses the transaction at once, which is a result and no error.        *)
Submit(t, wait) ==
    /\ ~Known(t) /\ Enter(t)
    /\ pc' = wait /\ tx' = t
CheckTxIsErr(t) ==
    /\ ~Known(t) /\ "exec" \in faults
    /\ tx' = t /\ UNCHANGED <<pool, rejected>>

(* The call fails, maybe after the transaction was delivered.              *)
CallFails(t, next) ==
    /\ \/ (Known(t) \/ "rpc" \in faults) /\ UNCHANGED <<pool, rejected>>
       \/ ~Known(t) /\ "rpc" \in faults /\ Enter(t)
    /\ Fatal(next)

(* The waiting call times out when the transaction is lost or slow.        *)
TimedOut ==
    /\ tx \notin committed \cup rejected
    /\ tx \notin pool \/ "slow" \in faults

(* Query writes a fatal line for a failed transaction, and goes on with    *)
(* the line for a successful one.                                          *)
GoOnAfterFailure == Fatal("queryRead") /\ UNCHANGED <<tx, base>>

Query ==
    /\ pc = "query"
    /\ \E t \in Txs :
         \/ Submit(t, "queryWait") /\ UNCHANGED base
         \/ CheckTxIsErr(t) /\ Fatal("queryRead") /\ UNCHANGED base
         \/ CallFails(t, "commit") /\ Return
    /\ UNCHANGED <<faults, committed, height, kv, scanVars, confirmed>>

QueryCommitted ==
    /\ pc = "queryWait"
    /\ \/ tx \in committed /\ pc' = "queryRead" /\ UNCHANGED <<tx, base>>
       \/ tx \in rejected /\ GoOnAfterFailure
       \/ TimedOut /\ Fatal("commit") /\ Return
    /\ UNCHANGED <<chainVars, scanVars, confirmed>>

(* The application holds the pair, or does not.                            *)
AnyValue(p) == kv[p.k] # NoVal          \* mutant: the values are not compared
Holds(p) == kv[p.k] = p.v

QueryRead ==
    /\ pc = "queryRead"
    /\ \/ /\ Holds(tx)
          /\ confirmed' = confirmed \cup {tx}
          /\ pc' = "commit"
       \/ ~Holds(tx) /\ Fatal("commit") /\ UNCHANGED confirmed
       \/ "rpc" \in faults /\ Fatal("commit") /\ UNCHANGED confirmed
    /\ Return
    /\ UNCHANGED <<chainVars, scanVars>>

(* Commit reads the height, sends a transaction and ignores its result,    *)
(* then wants the block at the height after the one it read.  The two      *)
(* calls are one step: a block between them only makes the wait shorter.   *)
Commit ==
    /\ pc = "commit"
    /\ \E t \in Txs :
         \/ Submit(t, "commitWait") /\ base' = height
         \/ /\ CheckTxIsErr(t) /\ base' = height
            /\ pc' = "commitRead"
         \/ CallFails(t, "generate") /\ Return
    /\ UNCHANGED <<faults, committed, height, kv, scanVars, confirmed>>

CommitCommitted ==
    /\ pc = "commitWait"
    /\ \/ /\ tx \in committed \cup rejected
          /\ pc' = "commitRead" /\ UNCHANGED <<tx, base>>
       \/ TimedOut /\ Fatal("generate") /\ Return
    /\ UNCHANGED <<chainVars, scanVars, confirmed>>

CommitRead ==
    /\ pc = "commitRead"
    /\ \/ height >= base + 1 /\ pc' = "generate"
       \/ height < base + 1 /\ Fatal("generate")
       \/ "rpc" \in faults /\ Fatal("generate")
    /\ Return
    /\ UNCHANGED <<chainVars, scanVars, confirmed>>

-----------------------------------------------------------------------------
(* GenerateTXSAsync, one iteration of the loop that sends.  A transaction  *)
(* the chain has seen already is refused by the cache of its mempool.      *)
SendTx ==
    /\ pc = "generate" /\ Len(sent) < NumTxs
    /\ \E t \in Txs :
         \/ /\ ~Known(t) /\ Enter(t)
            /\ sent' = Append(sent, t) /\ kvs' = Append(kvs, t)
            /\ UNCHANGED pc
         \/ CallFails(t, "done") /\ UNCHANGED <<sent, kvs>>
    /\ UNCHANGED <<faults, committed, height, kv, tx, base, attempt, at,
                   reported, confirmed>>

(* All are sent, and 15 seconds have passed.                               *)
AllSent ==
    /\ pc = "generate" /\ Len(sent) = NumTxs
    /\ pool = {} \/ "slow" \in faults
    /\ pc' = "attempt"
    /\ UNCHANGED <<chainVars, tx, base, scanVars, confirmed>>

(* The head of the loop over the attempts.                                 *)
OneTooMany == attempt > MaxAttempts     \* mutant: <= for < in the loop
OneTooFew == attempt + 1 >= MaxAttempts \* mutant: the loop ends one early
NoMoreAttempts == attempt >= MaxAttempts

NextAttempt ==
    /\ pc = "attempt"
    /\ \/ /\ NoMoreAttempts
          /\ pc' = "done" /\ UNCHANGED <<at, reported>>
       \/ /\ ~NoMoreAttempts /\ kvs = <<>>
          /\ pc' = "done" /\ reported' = TRUE /\ UNCHANGED at
       \/ /\ ~NoMoreAttempts /\ kvs # <<>>
          /\ pc' = "scan" /\ at' = 1 /\ UNCHANGED reported
    /\ UNCHANGED <<chainVars, tx, base, sent, kvs, attempt, confirmed>>

(* An attempt ends.                                                        *)
NotCounted == attempt                   \* mutant: an attempt is not counted
Counted == attempt + 1

(* The pair was found: it is removed, and i-- before i++ leaves the scan   *)
(* where the next pair is now.  The scan ends behind the last pair.        *)
SkipOne == at + 1                       \* mutant: i-- is forgotten
NextAt == at

ScanHit ==
    /\ pc = "scan" /\ Holds(kvs[at])
    /\ confirmed' = confirmed \cup {kvs[at]}
    /\ kvs' = RemoveAt(kvs, at)
    /\ at' = NextAt
    /\ IF NextAt < Len(kvs) THEN UNCHANGED <<pc, attempt>>
                            ELSE pc' = "attempt" /\ attempt' = Counted
    /\ UNCHANGED <<chainVars, tx, base, sent, reported>>

(* ABCIQuery fails or finds another value: the attempt ends.               *)
ScanMiss ==
    /\ pc = "scan"
    /\ ~Holds(kvs[at]) \/ "rpc" \in faults
    /\ Fatal("attempt") /\ attempt' = Counted
    /\ UNCHANGED <<chainVars, tx, base, sent, kvs, at, reported, confirmed>>

-----------------------------------------------------------------------------
TestStep ==
    \/ CheckTX
    \/ Info
    \/ Query \/ QueryCommitted \/ QueryRead
    \/ Commit \/ CommitCommitted \/ CommitRead
    \/ SendTx \/ AllSent \/ NextAttempt \/ ScanHit \/ ScanMiss

Terminated == pc = "done" /\ UNCHANGED vars

Next == ChainStep \/ TestStep \/ Terminated

Spec == Init /\ [][Next]_vars

(* Timers fire, calls return, and the chain makes blocks.                  *)
FairSpec == Spec /\ WF_vars(TestStep) /\ WF_vars(ChainStep)

-----------------------------------------------------------------------------
DistinctKeys == \A i, j \in DOMAIN sent : sent[i].k = sent[j].k => i = j

(* Type correctness.                                                       *)
TypeOK ==
    /\ faults \subseteq Faults
    /\ pool \subseteq Txs /\ committed \subseteq Txs /\ rejected \subseteq Txs
    /\ height \in Nat
    /\ kv \in [Keys -> Vals \cup {NoVal}]
    /\ pc \in PCs
    /\ tx \in Txs \cup {NoVal}
    /\ base \in Nat
    /\ sent \in Seq(Txs) /\ kvs \in Seq(Txs) /\ Len(sent) <= NumTxs
    /\ attempt \in 0 .. MaxAttempts /\ at \in 1 .. NumTxs + 1
    /\ confirmed \subseteq Txs
    /\ reported \in BOOLEAN

(* A pair with a success line is on the chain, whatever the faults, though *)
(* it was only looked up by its key and other transactions may have        *)
(* written it, and though Query looks even after a failed transaction.     *)
(* GenerateTXSAsync drops no other pair from its list, so in "All          *)
(* transactions are committed" all means all it sent.                      *)
SeenIsCommitted ==
    /\ confirmed \subseteq committed
    /\ ToSet(sent) \subseteq confirmed \cup ToSet(kvs)
    /\ reported => Len(sent) = NumTxs /\ kvs = <<>>

(* The pairs not seen yet are the last ones sent: the loop that removes    *)
(* the element it stands at skips none.                                    *)
SeenInOrder ==
    pc \in {"attempt", "scan", "done"} =>
        kvs = SubSeq(sent, Len(sent) - Len(kvs) + 1, Len(sent))

(* On a chain without faults, GenerateTXSAsync does not end before it said *)
(* that all is committed, if it could send them all and drew no key twice. *)
ReportsWhenDone ==
    faults = {} /\ pc = "done" =>
        reported \/ Len(sent) < NumTxs \/ ~DistinctKeys

(* A bound on the steps the tests have still to make: each transaction is  *)
(* sent and found once, and an attempt that finds nothing costs two steps. *)
StepsBeforeGenerate ==
    [checkTx |-> 8, info |-> 7, query |-> 6, queryWait |-> 5, queryRead |-> 4,
     commit |-> 3, commitWait |-> 2, commitRead |-> 1, generate |-> 0]
StepsOfScans == 2 * (MaxAttempts - attempt) + Len(kvs)
StepsLeft ==
    CASE pc = "done" -> 0
      [] pc = "scan" -> StepsOfScans
      [] pc = "attempt" -> StepsOfScans + 1
      [] OTHER -> StepsBeforeGenerate[pc] + 2 * MaxAttempts
                    + 2 * NumTxs - Len(sent) + 2

(* No step of the tests leaves as much to do as there was, whatever the    *)
(* chain answers, and no block adds to it.                                 *)
Countdown ==
    [][/\ StepsLeft' \in Nat
       /\ StepsLeft' <= StepsLeft
       /\ TestStep => StepsLeft' < StepsLeft]_vars

(* The tests end, whatever the chain loses, for all their loops count.     *)
Ends == <>(pc = "done")

(* The comment of GenerateTXSAsync, internal/kvstore.go:30-31: it          *)
(* "generates num transactions asynchronously and waits for them to be     *)
(* committed".  Once it has sent them all and returns, they are committed. *)
WaitsForCommit ==
    pc = "done" /\ Len(sent) = NumTxs => ToSet(sent) \subseteq committed

(* The same comment, when they are committed: it returns with the line     *)
(* that says so.                                                           *)
CommittedIsReported ==
    pc = "done" /\ Len(sent) = NumTxs /\ ToSet(sent) \subseteq committed
        => reported

(* Query writes "BroadcastTxSync transaction success",                     *)
(* internal/kvstore.go:245, before it reads the pair: its transaction is   *)
(* committed by then.                                                      *)
SuccessLineIsTrue == pc = "queryRead" => tx \in committed

=============================================================================
