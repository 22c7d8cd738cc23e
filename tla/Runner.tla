------------------------------- MODULE Runner -------------------------------
(***************************************************************************)
(* The runner of cmd/main.go: it creates a network of AvalancheGo nodes,   *)
(* deploys landslidevm on it as a subnet (runNodes), then runs end-to-end  *)
(* tests or waits for a signal, and stops the network (GracefulShutdown).  *)
(*                                                                         *)
(* The nodes are processes of their own, managed by the network runner of  *)
(* ava-labs: they live on when the runner ends without nw.Stop.            *)
(***************************************************************************)
EXTENDS Naturals, Sequences, FiniteSets

CONSTANTS
    NodeNames,      \* what nw.GetNodeNames returns, a sequence
    DefaultGrpcPort,
    HttpPort,       \* of the first node in the library's configuration
    Faults,         \* faults of the environment, see FaultKinds
    MaxSignals      \* signals the environment may send

(* "net": an operation on the network fails; "file": the plugin cannot be  *)
(* copied; "port": a port is taken when a node is started; "stop": nw.Stop *)
(* fails; "tests": RunWASMTests panics.                                    *)
FaultKinds == {"net", "file", "port", "stop", "tests"}

ASSUME FaultsAssumption == Faults \subseteq FaultKinds
ASSUME NodesAssumption ==
    /\ NodeNames \in Seq({NodeNames[i] : i \in DOMAIN NodeNames})
    /\ Len(NodeNames) > 0
    /\ \A i, j \in DOMAIN NodeNames : NodeNames[i] = NodeNames[j] => i = j
ASSUME NumbersAssumption ==
    /\ DefaultGrpcPort \in Nat /\ DefaultGrpcPort < 65536
    /\ HttpPort \in Nat /\ MaxSignals \in Nat

VARIABLES
    command,     \* the subcommand given
    pc,          \* the main goroutine
    sigPc,       \* the goroutine of GracefulShutdown
    notified,    \* signal.Notify is in force
    buffer,      \* signals in signalsChan, whose capacity is 1
    closed,      \* signalsChan is closed
    signals,     \* signals sent so far
    up,          \* the node processes that run
    apiPort,     \* the port a node was started with
    stopped,     \* nw.Stop was called
    node,        \* loop index in runNodes
    grpcPort,    \* the variable of that name in runNodes
    chainCfg,    \* the AppConfig of each node in PerNodeChainConfig
    grpcUrl,     \* port of the gRPC url logged for each node
    rpcUrl       \* port of the RPC url returned for each node

netVars == <<up, apiPort, stopped>>
mainVars == <<netVars, node, grpcPort, chainCfg, grpcUrl, rpcUrl>>
sigVars == <<sigPc, notified, buffer, closed>>
vars == <<command, pc, signals, mainVars, sigVars>>

Commands == {"run", "e2e kvstore", "e2e wasm"}
Nodes == {NodeNames[i] : i \in DOMAIN NodeNames}
PortCount == 65536                      \* a port is a uint16
Ports == 0 .. PortCount - 1
NoPort == PortCount
AppConfig == [RPCPort : Nat, GRPCPort : Ports]
NoConfig == [RPCPort |-> NoPort, GRPCPort |-> NoPort]

Ended == {"exit0", "exit1", "killed", "panicked", "crashed"}
PCs == {"create", "await", "configure", "createChains", "awaitChains",
        "urls", "tests", "notify", "block", "stop", "closeDone",
        "closeSignals", "reset", "deferredStop", "failedStop"} \cup Ended

Init ==
    /\ command \in Commands
    /\ pc = "create" /\ sigPc = "none"
    /\ notified = FALSE /\ buffer = 0 /\ closed = FALSE /\ signals = 0
    /\ up = {} /\ stopped = FALSE
    /\ node = 1 /\ grpcPort = DefaultGrpcPort
    /\ apiPort = [n \in Nodes |-> NoPort]
    /\ chainCfg = [n \in Nodes |-> NoConfig]
    /\ grpcUrl = [n \in Nodes |-> NoPort]
    /\ rpcUrl = [n \in Nodes |-> NoPort]

(* grpcPort++ of a uint16.                                                 *)
IncUnbounded(port) == port + 1          \* mutant: the port is an int
IncForgotten(port) == port              \* mutant: all nodes get one port
Inc(port) == (port + 1) % PortCount

-----------------------------------------------------------------------------
(* runNodes returns an error, and so does the command: log.Fatal of the    *)
(* runner only writes a line.  "e2e kvstore" has deferred nw.Stop.         *)
JustExit == "exit1"                     \* mutant: the stop is not deferred
ErrorDropped ==                         \* mutant: Exit(1) is not returned
    IF command = "e2e kvstore" THEN "failedStop" ELSE "exit0"
Failure == IF command = "e2e kvstore" THEN "failedStop" ELSE "exit1"

(* The library counts the ports of the nodes in twos from HttpPort, and    *)
(* createNetwork adds 100.  A node that finds its port taken gets another  *)
(* one, for createNetwork asks for ports to be reassigned.                 *)
ConfiguredPorts ==
    [n \in Nodes |->
        LET i == CHOOSE k \in DOMAIN NodeNames : NodeNames[k] = n
        IN  HttpPort + 2 * (i - 1) + 100]
OtherPort(port) == port + 1000
StartedWith(ports) ==
    IF "port" \notin Faults THEN {ports}
    ELSE {[n \in Nodes |-> IF n \in moved THEN OtherPort(ports[n]) ELSE ports[n]]
              : moved \in SUBSET Nodes}

CreateNetwork ==
    /\ pc = "create"
    /\ \/ /\ pc' = "await" /\ up' = Nodes
          /\ apiPort' \in StartedWith(ConfiguredPorts)
       \/ "net" \in Faults /\ pc' = "exit1" /\ UNCHANGED <<up, apiPort>>
    /\ UNCHANGED <<command, signals, sigVars, stopped, node, grpcPort,
                   chainCfg, grpcUrl, rpcUrl>>

Await(from, to) ==
    /\ pc = from
    /\ \/ pc' = to
       \/ "net" \in Faults /\ pc' = Failure
    /\ UNCHANGED <<command, signals, sigVars, mainVars>>

(* One iteration of the loop that copies the plugin and makes the chain    *)
(* configuration of a node.                                                *)
Configure ==
    /\ pc = "configure"
    /\ \/ /\ node \in DOMAIN NodeNames
          /\ chainCfg' = [chainCfg EXCEPT ![NodeNames[node]] =
                            [RPCPort |-> apiPort[NodeNames[node]],
                             GRPCPort |-> grpcPort]]
          /\ grpcPort' = Inc(grpcPort)
          /\ node' = node + 1
          /\ UNCHANGED pc
       \/ /\ node \in DOMAIN NodeNames
          /\ "net" \in Faults \/ "file" \in Faults
          /\ pc' = Failure
          /\ UNCHANGED <<chainCfg, grpcPort, node>>
       \/ /\ node \notin DOMAIN NodeNames
          /\ pc' = "createChains"
          /\ UNCHANGED <<chainCfg, grpcPort, node>>
    /\ UNCHANGED <<command, signals, sigVars, netVars, grpcUrl, rpcUrl>>

(* grpcPort starts anew for the loop that logs the urls.                   *)
KeptPort == grpcPort                    \* mutant: it does not
FirstUrlPort == DefaultGrpcPort

(* CreateBlockchains restarts the nodes with the configurations, on their  *)
(* ports if these are still free.                                          *)
CreateBlockchains ==
    /\ pc = "createChains"
    /\ \/ /\ pc' = "awaitChains" /\ grpcPort' = FirstUrlPort /\ node' = 1
          /\ apiPort' \in StartedWith(apiPort)
       \/ /\ "net" \in Faults /\ pc' = Failure
          /\ UNCHANGED <<grpcPort, node, apiPort>>
    /\ UNCHANGED <<command, signals, sigVars, stopped, up, chainCfg, grpcUrl,
                   rpcUrl>>

(* The port in the RPC url comes from the node, asked once more.           *)
UrlFromConfig(n) == chainCfg[n].RPCPort \* mutant: from its configuration
UrlPort(n) == apiPort[n]

(* One iteration of the loop over the nodes' urls.                         *)
LogUrls ==
    /\ pc = "urls"
    /\ \/ /\ node \in DOMAIN NodeNames
          /\ grpcUrl' = [grpcUrl EXCEPT ![NodeNames[node]] = grpcPort]
          /\ rpcUrl' = [rpcUrl EXCEPT ![NodeNames[node]] =
                          UrlPort(NodeNames[node])]
          /\ grpcPort' = Inc(grpcPort)
          /\ node' = node + 1
          /\ UNCHANGED pc
       \/ /\ node \in DOMAIN NodeNames
          /\ "net" \in Faults /\ pc' = Failure
          /\ UNCHANGED <<grpcUrl, rpcUrl, grpcPort, node>>
       \/ /\ node \notin DOMAIN NodeNames
          /\ pc' = IF command = "run" THEN "notify" ELSE "tests"
          /\ UNCHANGED <<grpcUrl, rpcUrl, grpcPort, node>>
    /\ UNCHANGED <<command, signals, sigVars, netVars, chainCfg>>

(* The tests return whatever they found.  RunWASMTests goes on with a nil  *)
(* result after a failed broadcast, and panics.                            *)
Tests ==
    /\ pc = "tests"
    /\ \/ command = "e2e kvstore" /\ pc' = "deferredStop"
       \/ command = "e2e wasm" /\ pc' = "notify"
       \/ command = "e2e wasm" /\ "tests" \in Faults /\ pc' = "crashed"
    /\ UNCHANGED <<command, signals, sigVars, mainVars>>

(* nw.Stop, which may leave nodes behind when it fails.                    *)
StopNetwork(from, to) ==
    /\ pc = from
    /\ stopped' = TRUE
    /\ \/ up' = {}
       \/ "stop" \in Faults /\ up' \in SUBSET up
    /\ pc' = to
    /\ UNCHANGED <<command, signals, sigVars, apiPort, node, grpcPort, chainCfg,
                   grpcUrl, rpcUrl>>

-----------------------------------------------------------------------------
(* GracefulShutdown: signal.Notify, and the goroutine.                     *)
NotifyOnly ==   \* mutant: nobody receives from signalsChan
    /\ pc = "notify" /\ pc' = "block"
    /\ notified' = TRUE /\ sigPc' = "done"
    /\ UNCHANGED <<command, signals, buffer, closed, mainVars>>

NotifyAndStop ==   \* mutant: main does not wait for the goroutine
    /\ pc = "notify" /\ pc' = "stop"
    /\ notified' = TRUE /\ sigPc' = "recv"
    /\ UNCHANGED <<command, signals, buffer, closed, mainVars>>

Notify ==
    /\ pc = "notify" /\ pc' = "block"
    /\ notified' = TRUE /\ sigPc' = "recv"
    /\ UNCHANGED <<command, signals, buffer, closed, mainVars>>

ReceiveAndReset ==   \* mutant: signal.Reset after the first signal
    /\ sigPc = "recv" /\ buffer > 0
    /\ buffer' = buffer - 1 /\ sigPc' = "send" /\ notified' = FALSE
    /\ UNCHANGED <<command, pc, signals, closed, mainVars>>

ReceiveSignal ==
    /\ sigPc = "recv" /\ buffer > 0
    /\ buffer' = buffer - 1 /\ sigPc' = "send"
    /\ UNCHANGED <<command, pc, signals, notified, closed, mainVars>>

(* closedOnShutdownCh has no buffer: the goroutine and main meet.          *)
WakeMain ==
    /\ sigPc = "send" /\ pc = "block"
    /\ sigPc' = "done" /\ pc' = "stop"
    /\ UNCHANGED <<command, signals, notified, buffer, closed, mainVars>>

(* The deferred function, in its order.                                    *)
CloseDone ==
    /\ pc = "closeDone" /\ pc' = "closeSignals"
    /\ UNCHANGED <<command, signals, sigVars, mainVars>>

CloseSignals ==
    /\ pc = "closeSignals" /\ pc' = "reset" /\ closed' = TRUE
    /\ UNCHANGED <<command, signals, sigPc, notified, buffer, mainVars>>

Reset ==
    /\ pc = "reset" /\ pc' = "exit0" /\ notified' = FALSE
    /\ UNCHANGED <<command, signals, sigPc, buffer, closed, mainVars>>

(* A signal.  Without Notify it ends the process.  The runtime delivers it *)
(* without waiting: it is lost when the buffer is full, and a delivery to  *)
(* a closed channel panics.                                                *)
Deliver ==
    \/ ~notified /\ pc' = "killed" /\ UNCHANGED buffer
    \/ notified /\ ~closed /\ buffer = 0 /\ buffer' = 1 /\ UNCHANGED pc
    \/ notified /\ ~closed /\ buffer = 1 /\ UNCHANGED <<buffer, pc>>
    \/ notified /\ closed /\ pc' = "panicked" /\ UNCHANGED buffer

Signal ==
    /\ pc \notin Ended /\ signals < MaxSignals
    /\ signals' = signals + 1
    /\ Deliver
    /\ UNCHANGED <<command, sigPc, notified, closed, mainVars>>

-----------------------------------------------------------------------------
MainStep ==
    \/ CreateNetwork
    \/ Await("await", "configure")
    \/ Configure
    \/ CreateBlockchains
    \/ Await("awaitChains", "urls")
    \/ LogUrls
    \/ Tests
    \/ StopNetwork("deferredStop", "exit0")
    \/ StopNetwork("failedStop", "exit1")
    \/ StopNetwork("stop", "closeDone")
    \/ Notify
    \/ CloseDone
    \/ CloseSignals
    \/ Reset

SignalStep == ReceiveSignal \/ WakeMain

Terminated == pc \in Ended /\ UNCHANGED vars

Next == MainStep \/ (pc \notin Ended /\ SignalStep) \/ Signal \/ Terminated

Spec == Init /\ [][Next]_vars

(* Both goroutines are scheduled, and the calls to the network return:     *)
(* Healthy has a timeout.                                                  *)
FairSpec == Spec /\ WF_vars(MainStep) /\ WF_vars(pc \notin Ended /\ SignalStep)

-----------------------------------------------------------------------------
TypeOK ==
    /\ command \in Commands /\ pc \in PCs
    /\ sigPc \in {"none", "recv", "send", "done"}
    /\ notified \in BOOLEAN /\ closed \in BOOLEAN /\ stopped \in BOOLEAN
    /\ buffer \in 0 .. 1
    /\ signals \in 0 .. MaxSignals
    /\ up \subseteq Nodes
    /\ node \in 1 .. Len(NodeNames) + 1
    /\ grpcPort \in Ports
    /\ apiPort \in [Nodes -> Nat]
    /\ chainCfg \in [Nodes -> AppConfig \cup {NoConfig}]
    /\ grpcUrl \in [Nodes -> Ports \cup {NoPort}]
    /\ rpcUrl \in [Nodes -> Nat]

(* The gRPC url logged for a node has the port its chain was configured    *)
(* with, though the two loops of runNodes count on their own.              *)
UrlsMatchConfig ==
    \A n \in Nodes : grpcUrl[n] # NoPort => grpcUrl[n] = chainCfg[n].GRPCPort

(* The urls the tests get and the log shows lead to the nodes, though      *)
(* CreateBlockchains may have moved a node to another port after its       *)
(* configuration was made.                                                 *)
UrlsReachNodes ==
    pc \in {"tests", "notify", "block"} =>
        up = Nodes /\ \A n \in Nodes : rpcUrl[n] = apiPort[n]

(* No two nodes of the one machine get the same gRPC port.                 *)
DistinctPorts ==
    \A m, n \in Nodes :
        /\ chainCfg[m].GRPCPort = chainCfg[n].GRPCPort
        /\ chainCfg[n] # NoConfig
        => m = n

(* From the moment the runner says that it runs until CTRL + C, it never   *)
(* ends before nw.Stop returned, however many signals arrive and whenever: *)
(* a second signal does not cut the shutdown short.                        *)
NeverAbandoned == sigPc # "none" /\ pc \in Ended => stopped

(* One signal, at whatever moment, does not make the runner panic.         *)
PanicTakesTwo == pc = "panicked" => signals >= 2

(* Who sees exit status 0 has no node left that nw.Stop was not called     *)
(* for, whatever failed and whatever the command.  Nodes it was not called *)
(* for are left only under exit status 1, by run and e2e wasm when         *)
(* runNodes fails: "e2e kvstore" has deferred the call.                    *)
NodesLeftOnFailureOnly ==
    pc \in {"exit0", "exit1"} /\ up # {} /\ ~stopped
        => pc = "exit1" /\ command # "e2e kvstore"

(* A signal that arrives once Notify is in force ends the run, with the    *)
(* network stopped.                                                        *)
SignalEndsRun == notified /\ buffer = 1 ~> pc \in Ended /\ stopped

(* The runner keeps the promise of Shutdown: it serves until a signal, and *)
(* then stops the network before it ends.                                  *)
shutdownPhase ==
    CASE pc \in Ended -> "ended"
      [] pc \in {"closeDone", "closeSignals", "reset"} -> "stopped"
      [] pc = "stop" -> "asked"
      [] pc = "block" -> IF buffer = 1 \/ sigPc = "send" THEN "asked"
                         ELSE "serving"
      [] OTHER -> "starting"
S == INSTANCE Shutdown WITH phase <- shutdownPhase, nodes <- up
ImplementsShutdown == S!Spec

(* The comment of GracefulShutdown, internal/helpers.go:18-21: "When we    *)
(* get a SIGINT or SIGTERM, stop the network and close                     *)
(* [closedOnShutdownCh]", and it closes both channels "when done shutting  *)
(* down network".  So no signal makes the runner panic, early or late.     *)
NoPanic == pc # "panicked"

=============================================================================
