# landslide-runner in TLA+

landslide-runner starts a local AvalancheGo network with the landslidevm
blockchain on it, runs end-to-end tests against that chain, and deploys sets of
CosmWasm contracts to it. This directory holds TLA+ models of its programs,
the TLC configurations that check them, and proofs of their main properties for
the TLA+ proof system. `PROJECT.json` lists the parts, the runs, the lines each
definition models, the mutants that show each property can fail, the findings,
the hazards and the theorems. Source paths below are relative to `src/`.

## 1. Inventory

| Component | Source | State | Operations | What is hard |
|---|---|---|---|---|
| white_whale deployment tool | `tools/white_whale` | account sequence counted locally, `isFirstDeploy`, code ids and addresses in local variables of `main` | `UpdateAccountSequence`, `Upload`, `UploadAndInstantiate`, `WaitTx`, `extractResultTxDetails` | the counter must follow the chain without asking it; a broadcast is answered before it is executed; a transaction may be lost, late or refused; several runs share one account |
| andromeda deployment tool | `tools/andromeda` | the same, `isFirstDeploy` a package variable | `Info`, `GetBalances`, `UpdateAccountSequence`, `uploadAndInstantiate`, `WaitTx`, `extractResultTxDetails`: its own code throughout | the same, with the increments at other places and errors looked at in another order |
| runner | `cmd/main.go`, `internal/helpers.go` | node processes, gRPC port counter, chain configuration per node, ports of the nodes, signal channels | `createNetwork`, `runNodes`, `GracefulShutdown`, four commands | signals at any moment, two goroutines, nodes that outlive the process, two loops that must count ports alike, nodes that move to other ports |
| kvstore tests | `internal/kvstore.go` | list of pairs not yet seen | `CheckTX`, `Info`, `Query`, `Commit`, `GenerateTXSAsync` | confirmation by looking at the value of a key, removal from a list while iterating it, bounded attempts |
| wasm tests | `internal/wasm.go`, `internal/balances.go` | result of the last broadcast, contract address, lines about balances | two rounds of `GetBalances` around a transfer, three transactions waited for, a final query | payloads signed ahead of time; balances recognised by a table; the test goes on after nearly every error |
| payload generator | `tools/payload_gen` | account sequence | signs the four payloads | sequences, fees, ids and addresses must be those the chain will have |
| chain (external) | none here | mempool, account sequences, codes, contracts | executes transactions in blocks | loses, delays and refuses transactions |
| configuration, codecs, types, genesis data, scripts, cw-orch example | `internal/config.go`, `tools/*/internal/codec`, ... | none | constants, registration, printing | nothing |

Interaction: the tools and tests talk to the chain only through its RPC
(`BroadcastTxAsync`, `BroadcastTxCommit`, `Tx`, `ABCIQuery`). The payloads of
the generator are constants in the wasm tests. The runner calls the network
runner library (`NewNetwork`, `Healthy`, `CreateBlockchains`, `Stop`) and the
tests, to which it hands the URLs of the nodes. Inside the runner,
`GracefulShutdown` and its goroutine communicate over two channels, and the Go
runtime delivers signals into one.

An important difference between the programs: zap's `Fatal`, in the tools, ends
the process. The runner's logger is avalanchego's, whose `Fatal` only writes a
line, so there an error path goes on unless it says `return`, `break` or
`continue`. The models follow each.

What makes each component correct:

* deployers: they never sign ahead of the chain; they sign the next transaction
  only after the last one succeeded; they know about contracts only what the
  chain made; they never deploy twice; they end, and succeed without faults; the
  two tools behave alike;
* plans: every contract gets the ids and addresses of those it depends on, in
  the fields that ask for them;
* runner: logged URLs match configured ports and lead to the nodes, ports are
  distinct, a signal ends the run with the network stopped, nothing ends it
  before that, and an exit status of 0 means that no node was left unstopped;
* kvstore and wasm tests: what they report as committed is committed; no pair is
  skipped; a failed transfer does not show as a good one, nor one that did not
  happen; without faults they report success; they end;
* payload generator: on a new chain all its payloads are executed, in order.

## 2. Modules

| Module | Models | Correspondence |
|---|---|---|
| `Chain` | the chain, external | `mempool`, `results`, `accSeq`, `codes`, `instances`; a transaction is delivered when its sequence is the account's next one, otherwise refused; faults are a constant |
| `TxDetails` | `extractResultTxDetails` of white_whale | operators over the sequence of events |
| `Deployment` | abstract specification of a deployment tool | no transactions: `Confirm`, `Complete`, `Abort`, `Grow` |
| `Deployer` | `ContractDeployer`, `ChainService`, `ChainClient`, driven by a plan | extends `Chain` and `TxDetails`; one action for each stretch between two points where the process waits |
| `MCDeployer` | a plan of three contracts for TLC | the shapes of the real plan: instantiate, store only, instantiate with references and a time |
| `WhiteWhale` | the plan of `white_whale/main.go` | all 16 contracts in order with the fields of their messages, and the arrows of `dependencies.mermaid` |
| `AndromedaDeployer` | the code of the andromeda tool | extends `Chain`; the questions it starts with, one action for each half of `uploadAndInstantiate`, its own `WaitTx` and extraction; `W == INSTANCE Deployer` |
| `Andromeda` | the plan of `andromeda/main.go` | the five contracts that are not commented out with the fields of their messages, and the "Depends on" lines of its README |
| `KVStore`, `MCKVStore` | `internal/kvstore.go` and a kvstore chain | one action per RPC call or loop iteration; the MC module gives four pairs over three keys |
| `PayloadGen` | `tools/payload_gen` | the four signed payloads as records: account, sequence, fee, gas, and what the message refers to and transfers |
| `WasmE2E` | `internal/wasm.go`, `internal/balances.go`, and a chain of four payloads with balances and fees | extends `PayloadGen`; one action per RPC call |
| `Shutdown` | abstract specification of the runner | no channels, goroutines or ports: `Start`, `GiveUp`, `Serve`, `Ask`, `Stop`, `End` |
| `Runner`, `MCRunner` | `cmd/main.go`, `internal/helpers.go` | one action per call on the network, channel operation or loop iteration; signals interleave with all of them; `S == INSTANCE Shutdown` |
| `*Proofs` | theorems | section 5 |

How modules build on each other:

    Deployment <-refines- Deployer -extends-> Chain, TxDetails
                             ^  ^
              WhiteWhale, MCDeployer extend it
              AndromedaDeployer refines it <- Andromeda extends that
    Shutdown   <-refines- Runner
    PayloadGen <-extends- WasmE2E
    KVStore

Some correspondences a reader will look for:

* `Deployer`. `pc` is where a run stands: `init`, `ready` between two plan
  entries, `waitStore` and `waitInstantiate` inside `WaitTx`, `stored` between
  the two transactions of `UploadAndInstantiate`, then `ok`, `fatal` or
  `killed`. `Upload`, `UploadAndInstantiate` and `InstantiateContract` go up to
  the broadcast; `WaitTxMiss`, `WaitTxFailed`, `StoreDone` and
  `InstantiateDone` are what a call of `Tx` brings. The empty string that
  `extractResultTxDetails` yields is 0, and `StoreDone` drops the error of the
  extraction as `deployer.go:105` does. A transaction is its contents, since
  signing is deterministic; `salt` tells apart the messages into which `main`
  puts the time of the run.
* Plans. `refs` of an entry is the part of its message that names other
  contracts: a function from fields (`vault_id`, `fee_collector_addr`, ...) to
  the local variable of `main` whose value goes there, written `CodeOf(n)` or
  `AddrOf(n)`. `Refs` puts in the values the run has, 0 standing for a field the
  message lacks. `FieldAsksFor` says which contract the name of a field asks
  for, so that two variables that change places in one message are seen:
  `RespectsDependencies` compares what a contract was told, field by field,
  with what the chain made.
* `AndromedaDeployer`. The increase before `DeployContract` depends on
  `isFirstDeploy`, the one before `InstantiateContract` on nothing. `Info` and
  `GetBalances` come first and stutter under the refinement. After an
  instantiation the code id is not parsed, and only an event with neither
  string is an error.
* `KVStore`. `at` is `i + 1`, `kvs` the list that shrinks, `attempt` is `j`.
  `NextAt == at` is the pair `i--`, `i++`. `Commit` reads the height and sends
  its transaction in one step: the height is only compared with that of a later
  block, and a block between the two calls makes that comparison no harder.
  `faults` is what may happen in a behaviour: the initial state chooses all of
  the constant `Faults` or none, so one run covers both.
* `WasmE2E`. `shown` is the sequence of outcomes of the four calls of
  `GetBalances`, each a set of at most one balance: the one with a success line.
  `Payload` refers to codes and contracts by the number the chain will give
  them; `Executable` compares it with what the chain has. `faults` is any
  subset of the constant, chosen by the initial state, so that a property may
  say which faults it takes to break something.
* `Runner`. `sigPc` is the goroutine of `GracefulShutdown`. `Deliver` is the Go
  runtime: without `Notify` a signal kills; with it a full buffer loses the
  signal, and a closed channel panics. `stopped` says that `nw.Stop` was
  called, `up` which node processes live, `apiPort` where each listens now:
  `createNetwork` asks the library to reassign ports in use (the first `true` of
  `local.NewNetwork`), so a node that starts, or is started again by
  `CreateBlockchains`, may come up on another port. Under the
  refinement of `Shutdown` the runner is asked as soon as a signal is in its
  buffer.

Each small definition marked `mutant` states a plausible mistake in the
definition below it and is used by no specification.

## 3. Runs

| Run | Question | Bounds |
|---|---|---|
| `shared_account` (`MCShared`) | Two runs sign with one account, under every fault: types, no gap in the sequences, no step without a commit, refinement of `Deployment` | 3 contracts, 2 polls, 1 nested contract; 252 416 states |
| `own_account` (`MCOwn`) | The counter is exact, nothing is deployed twice, every step of a run leaves it less to do, every run ends | as above, 2 accounts; 236 628 states |
| `completes` (`MCCompletes`) | Without faults no run takes an error path, and every run completes | 2 runs, 2 polls |
| `white_whale_plan` (`MCWhiteWhale`) | The plan respects the arrows of the diagram, field by field | the full plan, 1 run, every fault |
| `andromeda_plan` (`MCAndromeda`) | The plan respects the README, field by field, the tool acts as the other one does, its steps are bounded, and it ends | the full plan, 1 run, 1 nested contract, every fault; 2 612 states |
| `kvstore_tests` (`MCKVStore`) | Reported as committed means committed; no pair is skipped; the tests' steps are bounded and they end; without faults and repeated keys they have reported success then | 3 transactions out of 4 pairs over 3 keys, 2 attempts, every fault or none; 545 655 states |
| `wasm_tests` (`MCWasm`) | Success lines are true, a failed transfer does not show as a good one, nor an old balance as a new one, only a failed call makes the test panic, its steps are bounded and it ends; on a faultless chain it has passed then | the 30 polls of the code, every set of faults; 714 268 states |
| `runner` (`MCRunner`) | Ports, URLs, shutdown under signals, no panic from a first one, nodes left only under exit status 1, refinement of `Shutdown` | 3 nodes, first gRPC port 65534, so that the third wraps around; up to 3 signals, every fault; 30 681 states |
| `runner_panic`, `kvstore_slow`, `kvstore_collision`, `kvstore_query` | The findings of section 6 | smallest that show them |

Why the bounds are enough. Two runs are the least that can take each other's
sequence numbers, and the plan of three has each kind of step in each order
that matters: the first deployment, a `Upload` after an instantiation, and an
instantiation after an `Upload`. `WaitTx` behaves alike in all its polls but
the last; two polls have both kinds. With one nested contract the events of an
instantiation already differ from its first event. Three keys let three
transactions have distinct keys, and the fourth pair lets a key repeat with
another value; three pairs are needed to tell a skipped one from a removed one.
One signal wakes the runner, a second can meet each stage of the shutdown, and
a third the full buffer. A first port of 65534 makes a wrap-around with
three nodes. The code begins at 9090 and has five nodes, so it never gets
there; the bound is for the width of the integer, which the two loops must treat
alike for whoever changes the first port. The theorems of section 5 need no bound.

## 4. Fairness

Invariants, action properties and the refinement of `Deployment` need no
fairness and hold of `Spec`; runs with a liveness property use `FairSpec`.
`FairSpec` of `Deployer`, `AndromedaDeployer`, `KVStore` and `WasmE2E` adds
weak fairness of the steps of each program and of the chain:

* a program's next step happens because its timers fire and its calls return.
  The calls are made with `context.Background()`, so a server that accepts a
  connection and never answers would hold the program forever; fairness
  assumes it does not happen, and failing calls are modelled as failing;
* the chain keeps making blocks. Without the fault `slow` it includes a pending
  transaction before a program stops polling; this is in the guards of
  `WaitTxMiss`, `TimedOut`, `AllSent`, `Pause` and `TxMiss`, and is the
  timing assumption of the code (150 s of polling, 15 s of waiting).

In `Runner` both goroutines are scheduled (`MainStep` and `SignalStep` are
weakly fair), `Healthy` has a timeout of two minutes, and the other calls of the
network library return. Signals are not fair: none has to come. `Shutdown`
promises that who is asked stops the network and ends, as weak fairness of
`Stop` and `End`; `ImplementsShutdown` includes that promise and the run checks
it under `FairSpec`.

## 5. Proofs

| Module | Theorem | States |
|---|---|---|
| `DeployerProofs` | `TypeCorrect` | `Spec => []TypeOK` |
| | `NeverAhead` | `Spec => []NoSequenceGap`: no pending transaction is signed beyond the sequence of its account |
| | `AdvancesAfterCommit` | `Spec => AdvanceOnlyAfterCommit` |
| | `Implements` | `Spec => ImplementsDeployment` |
| | `DeployerCountdown` | `Spec => Countdown`: each step of a run uses up one of the bounded number it has left |
| `ExclusiveProofs` | `CounterFollowsChain` | `Spec => []CurrentSequence`: with no account shared, a pending transaction is always signed for the sequence the chain expects |
| | `NothingTwice` | `Spec => []AtMostOnce`: with no account shared, nothing is deployed twice |
| | `NoErrorPath` | `Spec => []NoneFails`: and without faults no run takes an error path |
| `DependencyProofs` | `Dependencies` | for all dependencies that the references of a plan cover, and all meanings of fields the references agree with, `Spec => []RespectsDependencies(deps, asks)` |
| `WhiteWhaleProofs` | `DiagramFollowed` | `Spec => []FollowsDiagram` for the plan of white_whale |
| `AndromedaProofs` | `ImplementsDeployer` | `Spec => ActsAsDeployer`, from the invariant of `AgreementHolds` |
| | `ReadmeFollowed` | `Spec => []FollowsReadme` for the plan of andromeda |
| | `AndromedaCountdown` | `Spec => Countdown` |
| `RunnerProofs` | `RunnerTypes`, `UrlsMatch`, `UrlsReach`, `NothingAbandoned`, `SuccessStopsNetwork` | `TypeOK`, `UrlsMatchConfig`, `UrlsReachNodes`, `NeverAbandoned`, `NodesLeftOnFailureOnly` |
| | `PortsDiffer` | `DistinctPorts`, for at most 65536 nodes |
| | `FirstSignalIsSafe` | `Spec => []PanicTakesTwo`: one signal never makes the runner panic |
| | `RefinesShutdown` | `Spec => S!SafeSpec`: the safety part of `ImplementsShutdown` |
| `KVStoreProofs` | `KVTypes`, `SeenIsReal`, `NoneSkipped` | `TypeOK`, `SeenIsCommitted`, `SeenInOrder` |
| | `KVCountdown` | `Spec => Countdown` |
| | `FaultlessReport` | `Spec => []ReportsWhenDone`, from two attempts on: on a faultless chain success is reported, unless a key was drawn twice |
| | `SuccessLineNeedsExec` | `Spec => []SuccessLineIsTrue`, if no execution fails |
| | `WaitNeedsPromptChain` | `Spec => []WaitsForCommit`, if nothing but RPC calls fails |
| `WasmProofs` | `WasmTypes`, `SuccessIsReal`, `TransferIsReal` | `TypeOK`, `SuccessIsCommitted`, `TransferShown` |
| | `WasmCountdown` | `Spec => Countdown` |
| | `FaultlessPass` | `Spec => []PassesWhenDone`: the tests panic only where calls fail, and pass on a faultless chain |
| | `PauseSuffices` | `Spec => []ShowsTransfer`: only a lost or late transfer, or for user2 a failed one, lets an old balance pass |

They hold for every value of the constants that satisfies the named assumptions:
contracts of a plan have distinct names and refer to earlier ones, a plan
begins with an instantiation (`PlanStartAssumption`), the salt of a message is
the run or none, polls and attempts are at least one, nodes have distinct names,
the first port is one, faults are of the kinds listed. `PlanStartAssumption` is
not decoration: `Upload` ignores `isFirstDeploy`, and a plan that began with it
would sign one ahead of the chain. Where a theorem needs more, it says so:
`PortsDiffer` a bound on the nodes, `DiagramFollowed` and `ReadmeFollowed` that
the plan is the tool's own, `FaultlessReport` that the code makes two attempts or
more (it makes 30), and the two theorems after it which faults they
exclude.
`CurrentSequence` and `AtMostOnce` are implications from `Exclusive`, `NoneFails`
from that and the absence of faults.

The arguments.

**Deployer.** `NoSequenceGap` is not inductive: nothing in it says what a run
will sign next. `IInv` adds

* `CounterOK`: before the first transaction the counter is at most the account's
  sequence, and `isFirstDeploy` still holds; between two transactions the last
  one succeeded and the counter is strictly below the account's sequence, so
  one increment does not overtake it. With a shared account the counter may be
  further behind, never ahead;
* `Spent`: a successful transaction has used up its sequence, which is why
  success lets the counter advance;
* `WellMade`: the first event of a successful transaction tells what it made,
  which makes the extraction correct although further events follow;
* `PlanOK`: a run knows exactly the contracts before the one in work, and the
  message it waits for is the one that entry calls for.

There is one lemma per action that it preserves `IInv`. `AdvancesAfterCommit`
and `Implements` are then properties of one step: under the refinement
mapping `StoreDone` (for an `Upload`) and `InstantiateDone` are `Confirm`,
`AllDeployed` is `Complete`, the ways to end early are `Abort`, a delivery is
`Grow`, and the rest stutter.

**No account shared.** `EInv` names for each pending transaction the run that
waits for it or has ended with it (`OwnedBy`), so an account never has two. A run
is in step with the chain (`Synchronous`: exactly one behind between two
transactions), and what has succeeded for it belongs to earlier entries of
the plan (`Behind`). So a run that gives up on a transaction cannot do its work
again, for it ends, and no other run has its account.

**Dependencies.** They are a statement about contracts on the chain, and the
details in them went from an earlier result through a local variable and a
message in the mempool. `DInv` says at each of these places that the detail is
one the chain made for the contract of that name, and in which field it stands.
The plan of white_whale follows because each arrow of the diagram is in a field of
its entry, and no field has another contract than its name asks for.
For andromeda `AInv` follows the details in the same way, on that tool's own
state: the prover cannot cite a theorem about `Deployer` through the instance in
`AndromedaDeployer`.

**Two tools, one behaviour.** `BothAgree` has what makes andromeda's differences
invisible: it is in the middle of a contract only after `isFirstDeploy` is
used up, so its condition and the other tool's agree; and the first event of a
success is one both loops stop at, with a code id, so no error path of one is a
success of the other.

**Runner.** `PortsOK` gives the `i`-th node the port `(first + i - 1) % 65536` in
both loops, and says that the second loop begins when the first has been through
all nodes. `UrlsOK` says which nodes have a URL, and that nodes do not move while
URLs are made. `StopOK` lists where the two goroutines can be together: while
main blocks, the goroutine waits or is about to wake it, and `Notify` is in
force until after `nw.Stop`.

**kvstore tests.** A key holds only what a committed transaction wrote (`StoreOK`).
The list is what is left of those sent, its last ones (`Suffix`), and the scan
always stands at its first pair.

**wasm tests.** `TransferOK` follows user1's balance until the second round of
`GetBalances`: the transfer is the only transaction by then, and unless it was
executed user1 has all of the stake, or all but its fee. The difference is not
in the table of `GetBalances`, which is the point of `TransferShown`. `Transferring`
and `Settled` follow the transfer from its broadcast through the pause to what it
leaves the users with, on a chain that keeps it and is quick, for `ShowsTransfer`.
`Solvent` bounds what four payloads can cost, for the type of `balance`.

**Step bounds.** `Countdown` is what termination rests on, as a property of one
step: `StepsLeft`, computed from where a program stands and what it has counted, is
a natural number that the program's own steps decrease and no other step, of the
chain or another run, increases. A poll that finds nothing costs one, a
transaction that is found makes the polls left over superfluous, and an entry of a
plan costs at most `StepsPerEntry`. It needs no more than the bounds of the counters
(`WithinBounds` in the tools, `polls < MaxPolls` while polling), but for all plans, runs
and attempts at once.
With the fairness of section 4 the four programs end; that last inference is
left to TLC.

**Without faults.** A program that never fails is the harder half: nothing may be
missing where it looks.

* `FInv` of `ExclusiveProofs`: everything the chain has included succeeded, the code
  ids runs hold are ids of stored codes, and what a run waits for is in the
  mempool or committed. Together with `EInv` every pending transaction is the next
  of its account, so it is neither refused nor fails;
* `FInv` of `KVStoreProofs`: what was sent is in the mempool or committed, and by the
  time of the attempts all of it holds under its key, the keys being distinct. The
  first attempt therefore removes every pair and the second one reports, which is why two
  attempts are enough and one is not;
* `GInv` of `WasmProofs`: the pool is empty or has the one payload waited for, whose
  sequence is the account's (`Sequential`), all before it were executed (`Landed`)
  and reported (`FoundAll`), and the balances are those of the table (`ShownAll`).
  `PayloadRefs` computes what `payload_gen` signed. Without the increase that it kept
  when the call before it was commented out, the last two payloads would repeat a sequence.

**What the findings rest on.** `SuccessLineNeedsExec`, `WaitNeedsPromptChain`,
`FaultlessReport` and `FirstSignalIsSafe` bound the findings of section 6: the
success line of `Query` is false only if an execution fails; the wait is too short only
if the chain loses, refuses or delays; a faultless chain goes unreported only
if a key repeats; and the runner panics only on a second signal. `SignalsSeen`
is the invariant of the last one: whoever has a signal in hand has counted it.

Only model-checked is liveness, which is out of the prover's reach:
`Terminates`, `EveryRunEnds`, `Ends`, `DeploymentCompletes`, `SignalEndsRun` and the
fairness in `ImplementsShutdown`. Of the first four the safety part is proved:
`Countdown` bounds the steps, so that only a program that is not scheduled could
fail to end, and `DeploymentCompletes` says that a run which ends, and by
`NoneFails` ends without an error, completes. Every invariant and every action
property of a run has a theorem.

## 6. Findings

* `runner_panic`: `GracefulShutdown` closes `signalsChan` before
  `signal.Reset`. A signal in between is sent to a closed channel, and the
  process panics, after the network was stopped (`internal/helpers.go:28`).
* `kvstore_collision`: keys are three random characters; when two of the 200
  draws agree, the earlier pair is never found and the test reports failures
  on a chain that did everything right (`internal/kvstore.go:73`).
* `kvstore_slow`: `GenerateTXSAsync` gives up after 30 attempts and returns as if
  it had waited, contrary to its comment (`internal/kvstore.go:65`).
* `kvstore_query`: `Query` writes its success line for a transaction that failed,
  because the `Fatal` before it returns (`internal/kvstore.go:243-245`).

Not findings, but visible in the models:

* `run` and `e2e wasm` leave the nodes running when `runNodes` fails, which
  `e2e kvstore` does not; their exit status is 1 then (`NodesLeftOnFailureOnly`);
* after the transfer the wasm test sleeps for 15 seconds, where its comment says
  "wait for the transaction to be committed" (`internal/wasm.go:45`). The balances
  from before the transfer are in its table too, so it logs them as a success when
  the transfer was lost or is late. `ShowsTransfer` says that it takes that, or for
  user2 a transfer that fails;
* the wasm test panics after a failed broadcast, goes on with its next
  transaction when the one it waited for is in no block, and then may log an
  empty contract address beside a true answer (`internal/wasm.go:173`);
* the `RPCPort` in a node's own `AppConfig` may be out of date, if the restart in
  `CreateBlockchains` moved the node; the URLs are not;
* the end-to-end commands exit with 0 when tests fail;
* both tools and the generator sign with one mnemonic, so that runs of
  different tools share an account as two runs of one tool do.

## 7. Not modelled

* The signed payloads as hex. Decoded, all four carry the sequences, fees and gas
  limits of `PayloadGen`; `cmd/data/testdata/nameservice.wasm.hex`, the deployment,
  is signed with sequence 1, a fee of 2000000stake and a gas limit of 4000000.
* The contents of messages beyond the references between contracts and the
  amounts the wasm tests see, and the cryptography and encoding of signing. No
  step depends on them.
* Gas, in the tools; in the wasm tests a fee is paid and a gas limit is part
  of the payload, but execution does not run out of it.
* `Copy` beyond success and failure; the configuration structures other than
  the two ports; the comparison of block hashes in `Commit`, beyond reads that
  may fail.
* The balance queries of white_whale's `main`. They change nothing. When one
  fails, `executeQuery` calls zap's `Fatal` and the process exits before it has
  sent anything, which is the step from `init` to `fatal` that the model has
  for `UpdateAccountSequence`.
* `rpchttp.New` failing in the kvstore and the wasm tests, which log it and go on
  with a nil client. It fails for an address it cannot parse, and `runNodes`
  formats the addresses itself.
* Codecs, responses, scripts, genesis data (but for user1's account and stake)
  and the cw-orch example: declarations, data, and one straight line of calls
  to a library.
* Eight contracts of andromeda whose deployment is commented out.
* Two overlapping runs of andromeda, in TLC: millions of states.
  `ImplementsDeployer` covers them, with `NeverAhead` and `Implements`.

## 8. Plan

Done, in this order: `Chain`, `TxDetails`, `Deployment`, `Deployer` with its runs
and proofs, the plan of white_whale, `KVStore`, `Runner`, `WasmE2E`; then
`AndromedaDeployer` with its refinement, `PayloadGen` with balances and fees in
`WasmE2E`, `Shutdown` with its refinement, the nodes' ports in `Runner`, and the
proofs about all of them; then the step bounds, the faultless runs, what the
findings rest on, and the fields of the plans' messages.

Next: andromeda without faults, with no account shared, as `NoErrorPath` is for the
other tool; a bound on the runner's steps after a signal.

Left, if the code grows: a composition of `Runner` with the tests, once
a command's exit code depends on what its tests found; and the balances of the
deploying account, once the tools act on them.
