---------------------------- MODULE RunnerProofs ----------------------------
(***************************************************************************)
(* The runner, for any number of nodes, any base port, any number of       *)
(* signals and any faults: its types, the ports and urls of the nodes,     *)
(* that it keeps the promise of Shutdown, and that no signal but a second  *)
(* one makes it panic.  RInv is the inductive invariant; its parts follow  *)
(* the program's progress.                                                 *)
(***************************************************************************)
EXTENDS Runner, TLAPS

(* The gRPC port of the i-th node.                                         *)
PortOf(i) == (DefaultGrpcPort + (i - 1)) % PortCount

(* How far the program has come.                                           *)
Early == {"create", "await", "configure", "createChains", "awaitChains",
          "urls", "tests", "notify", "deferredStop", "failedStop"}
Running == {"await", "configure", "createChains", "awaitChains", "urls",
            "tests", "notify", "block"}

(* Both loops give the i-th node the port PortOf(i), and the second one    *)
(* runs when the first has been through all nodes.                         *)
Counted(i) == chainCfg[NodeNames[i]].GRPCPort = PortOf(i)
PortsOK ==
    /\ \A i \in DOMAIN NodeNames :
         /\ chainCfg[NodeNames[i]] = NoConfig \/ Counted(i)
         /\ \/ grpcUrl[NodeNames[i]] = NoPort
            \/ grpcUrl[NodeNames[i]] = PortOf(i) /\ Counted(i)
    /\ pc \in {"create", "await", "awaitChains"} => node = 1
    /\ pc \in {"create", "await", "configure", "awaitChains", "urls"} =>
         grpcPort = PortOf(node)
    /\ pc = "configure" =>
         \A i \in DOMAIN NodeNames : i < node => Counted(i)
    /\ pc \in {"createChains", "awaitChains", "urls"} =>
         \A i \in DOMAIN NodeNames : Counted(i)

(* The urls are taken from nodes that do not move any more.                *)
Reached(i) == rpcUrl[NodeNames[i]] = apiPort[NodeNames[i]]
UrlsOK ==
    /\ pc = "create" => up = {}
    /\ pc \in Running => up = Nodes
    /\ pc = "urls" => \A i \in DOMAIN NodeNames : i < node => Reached(i)
    /\ pc \in {"tests", "notify", "block"} =>
         \A i \in DOMAIN NodeNames : Reached(i)

(* Where the two goroutines can be together.                               *)
StopOK ==
    /\ pc \in Early => sigPc = "none" /\ ~notified /\ ~closed /\ buffer = 0
    /\ pc = "block" => sigPc \in {"recv", "send"} /\ notified /\ ~closed
    /\ pc = "stop" => sigPc = "done" /\ notified /\ ~closed
    /\ pc \in {"closeDone", "closeSignals"} =>
         stopped /\ sigPc = "done" /\ notified /\ ~closed
    /\ pc = "reset" => stopped /\ sigPc = "done" /\ notified /\ closed
    /\ pc \in Ended => sigPc = "none" \/ stopped
    /\ pc \in {"exit0", "exit1"} /\ up # {} /\ ~stopped =>
         pc = "exit1" /\ command # "e2e kvstore"

RInv == TypeOK /\ PortsOK /\ UrlsOK /\ StopOK

-----------------------------------------------------------------------------
(* The nodes and the ports.                                                *)

LEMMA NodeFacts ==
    /\ Len(NodeNames) \in Nat \ {0}
    /\ DOMAIN NodeNames = 1 .. Len(NodeNames)
    /\ \A i \in DOMAIN NodeNames : NodeNames[i] \in Nodes
    /\ \A n \in Nodes : \E i \in DOMAIN NodeNames : n = NodeNames[i]
<1> DEFINE Names == {NodeNames[i] : i \in DOMAIN NodeNames}
<1>1. \A i \in DOMAIN NodeNames : NodeNames[i] \in Names
  OBVIOUS
<1>2. \A n \in Names : \E i \in DOMAIN NodeNames : n = NodeNames[i]
  OBVIOUS
<1>3. NodeNames \in Seq(Names) /\ Len(NodeNames) > 0
  BY NodesAssumption
<1>4. Names = Nodes
  BY DEF Nodes
<1> HIDE DEF Names
<1> QED
  BY <1>1, <1>2, <1>3, <1>4

LEMMA PortNumbers ==
    /\ PortCount \in Nat \ {0} /\ NoPort = PortCount
    /\ DefaultGrpcPort \in Nat /\ DefaultGrpcPort < PortCount
    /\ \A x \in Nat : x < PortCount => x % PortCount = x
    /\ \A x \in Nat : /\ x % PortCount \in Nat /\ x % PortCount < PortCount
                      /\ ((x % PortCount) + 1) % PortCount = (x + 1) % PortCount
BY NumbersAssumption DEF PortCount, NoPort

LEMMA PortTypes ==
    /\ DefaultGrpcPort \in Ports
    /\ \A port \in Nat : port < PortCount => port \in Ports
    /\ \A port \in Ports : Inc(port) \in Ports
    /\ NoPort \in Nat /\ NoPort \notin Ports
BY PortNumbers DEF Ports, Inc

(* The two counters run through the same ports.                            *)
LEMMA PortFacts ==
    /\ PortOf(1) = DefaultGrpcPort
    /\ \A i \in Nat \ {0} :
         PortOf(i) \in Ports /\ Inc(PortOf(i)) = PortOf(i + 1)
<1>1. PortOf(1) = DefaultGrpcPort
  BY PortNumbers DEF PortOf
<1>2. ASSUME NEW i \in Nat \ {0}
      PROVE  PortOf(i) \in Ports /\ Inc(PortOf(i)) = PortOf(i + 1)
  <2> DEFINE x == DefaultGrpcPort + (i - 1)
  <2>1. x \in Nat /\ DefaultGrpcPort + ((i + 1) - 1) = x + 1
    BY PortNumbers
  <2>2. PortOf(i) = x % PortCount /\ PortOf(i + 1) = (x + 1) % PortCount
    BY <2>1 DEF PortOf
  <2> HIDE DEF x
  <2>3. /\ x % PortCount \in Nat /\ x % PortCount < PortCount
        /\ ((x % PortCount) + 1) % PortCount = (x + 1) % PortCount
    BY <2>1, PortNumbers
  <2>4. PortOf(i) \in Ports
    BY <2>2, <2>3, PortTypes
  <2>5. Inc(PortOf(i)) = PortOf(i + 1)
    BY <2>2, <2>3 DEF Inc
  <2> QED
    BY <2>4, <2>5
<1> QED
  BY <1>1, <1>2

(* Among PortCount indices no two get the same port.                       *)
LEMMA PortsApart ==
    ASSUME NEW i \in Nat \ {0}, NEW j \in Nat \ {0},
           i <= PortCount, j <= PortCount, PortOf(i) = PortOf(j)
    PROVE  i = j
<1>1. \A x, y \in Nat :
        x < y /\ y - x < PortCount => x % PortCount # y % PortCount
  BY DEF PortCount
<1> DEFINE x == DefaultGrpcPort + (i - 1)
           y == DefaultGrpcPort + (j - 1)
<1>2. /\ x \in Nat /\ y \in Nat
      /\ x - y < PortCount /\ y - x < PortCount
      /\ x = y => i = j
  BY PortNumbers
<1>3. x % PortCount = y % PortCount
  BY DEF PortOf
<1> HIDE DEF x, y
<1> QED
  BY <1>1, <1>2, <1>3

LEMMA StartedFacts ==
    ASSUME NEW ports \in [Nodes -> Nat]
    PROVE  \A p \in StartedWith(ports) : p \in [Nodes -> Nat]
<1>1. \A moved \in SUBSET Nodes :
        [n \in Nodes |-> IF n \in moved THEN OtherPort(ports[n]) ELSE ports[n]]
          \in [Nodes -> Nat]
  BY DEF OtherPort
<1> QED
  BY <1>1 DEF StartedWith

LEMMA ConfiguredFacts == ConfiguredPorts \in [Nodes -> Nat]
<1> SUFFICES ASSUME NEW n \in Nodes PROVE ConfiguredPorts[n] \in Nat
  BY DEF ConfiguredPorts
<1> DEFINE i == CHOOSE k \in DOMAIN NodeNames : NodeNames[k] = n
<1>1. i \in DOMAIN NodeNames
  BY NodeFacts
<1>2. i \in Nat /\ i >= 1
  BY <1>1, NodeFacts
<1>3. ConfiguredPorts[n] = HttpPort + 2 * (i - 1) + 100
  BY DEF ConfiguredPorts
<1> HIDE DEF i
<1> QED
  BY <1>2, <1>3, NumbersAssumption

-----------------------------------------------------------------------------
(* Type correctness.                                                       *)

LEMMA TypeInit == Init => TypeOK
<1> SUFFICES ASSUME Init PROVE TypeOK
  OBVIOUS
<1>1. node \in 1 .. Len(NodeNames) + 1 /\ signals \in 0 .. MaxSignals
  BY NodeFacts, NumbersAssumption DEF Init
<1>2. /\ apiPort \in [Nodes -> Nat] /\ rpcUrl \in [Nodes -> Nat]
      /\ grpcUrl \in [Nodes -> Ports \cup {NoPort}]
      /\ chainCfg \in [Nodes -> AppConfig \cup {NoConfig}]
      /\ grpcPort \in Ports
  BY PortTypes DEF Init
<1>3. /\ command \in Commands /\ pc \in PCs
      /\ sigPc \in {"none", "recv", "send", "done"}
  BY DEF Init, PCs
<1>4. /\ notified \in BOOLEAN /\ closed \in BOOLEAN /\ stopped \in BOOLEAN
      /\ up \subseteq Nodes
  BY DEF Init
<1>5. buffer \in 0 .. 1
  BY DEF Init
<1> QED
  BY <1>1, <1>2, <1>3, <1>4, <1>5 DEF TypeOK

LEMMA ConfigureType ==
    ASSUME TypeOK, Configure PROVE TypeOK'
<1>1. CASE /\ node \in DOMAIN NodeNames
           /\ chainCfg' = [chainCfg EXCEPT ![NodeNames[node]] =
                             [RPCPort |-> apiPort[NodeNames[node]],
                              GRPCPort |-> grpcPort]]
           /\ grpcPort' = Inc(grpcPort)
           /\ node' = node + 1
           /\ UNCHANGED pc
  <2>1. NodeNames[node] \in Nodes /\ node + 1 \in 1 .. Len(NodeNames) + 1
    BY <1>1, NodeFacts
  <2>2. [RPCPort |-> apiPort[NodeNames[node]], GRPCPort |-> grpcPort]
          \in AppConfig
    BY <2>1 DEF TypeOK, AppConfig
  <2>3. Inc(grpcPort) \in Ports
    BY PortTypes DEF TypeOK
  <2> QED
    BY <1>1, <2>1, <2>2, <2>3 DEF TypeOK, Configure, sigVars, netVars
<1>2. CASE pc' \in {Failure, "createChains"}
           /\ UNCHANGED <<chainCfg, grpcPort, node>>
  BY <1>2 DEF TypeOK, Configure, sigVars, netVars, Failure, PCs, Ended
<1> QED
  BY <1>1, <1>2 DEF Configure

LEMMA LogUrlsType ==
    ASSUME TypeOK, LogUrls PROVE TypeOK'
<1>1. CASE /\ node \in DOMAIN NodeNames
           /\ grpcUrl' = [grpcUrl EXCEPT ![NodeNames[node]] = grpcPort]
           /\ rpcUrl' = [rpcUrl EXCEPT ![NodeNames[node]] =
                           UrlPort(NodeNames[node])]
           /\ grpcPort' = Inc(grpcPort)
           /\ node' = node + 1
           /\ UNCHANGED pc
  <2>1. NodeNames[node] \in Nodes /\ node + 1 \in 1 .. Len(NodeNames) + 1
    BY <1>1, NodeFacts
  <2>2. UrlPort(NodeNames[node]) \in Nat
    BY <2>1 DEF TypeOK, UrlPort
  <2>3. Inc(grpcPort) \in Ports
    BY PortTypes DEF TypeOK
  <2> QED
    BY <1>1, <2>1, <2>2, <2>3 DEF TypeOK, LogUrls, sigVars, netVars
<1>2. CASE pc' \in {Failure, "notify", "tests"}
           /\ UNCHANGED <<grpcUrl, rpcUrl, grpcPort, node>>
  BY <1>2 DEF TypeOK, LogUrls, sigVars, netVars, Failure, PCs, Ended
<1> QED
  BY <1>1, <1>2 DEF LogUrls

LEMMA TypeStep == TypeOK /\ [Next]_vars => TypeOK'
<1> SUFFICES ASSUME TypeOK, [Next]_vars PROVE TypeOK'
  OBVIOUS
<1>1. CASE CreateNetwork
  <2>1. apiPort' \in [Nodes -> Nat]
    BY <1>1, StartedFacts, ConfiguredFacts DEF CreateNetwork, TypeOK
  <2> QED
    BY <1>1, <2>1 DEF CreateNetwork, TypeOK, sigVars, PCs, Ended
<1>2. CASE Await("await", "configure") \/ Await("awaitChains", "urls")
  BY <1>2 DEF Await, TypeOK, sigVars, mainVars, netVars, PCs, Ended, Failure
<1>3. CASE CreateBlockchains
  <2>1. apiPort' \in [Nodes -> Nat]
    BY <1>3, StartedFacts DEF CreateBlockchains, TypeOK
  <2>2. DefaultGrpcPort \in Ports
    BY PortTypes
  <2>3. node' \in 1 .. Len(NodeNames) + 1 /\ grpcPort' \in Ports
    BY <1>3, <2>2, NodeFacts DEF CreateBlockchains, FirstUrlPort, TypeOK
  <2>4. pc' \in PCs
    BY <1>3 DEF CreateBlockchains, Failure, PCs, Ended
  <2> QED
    BY <1>3, <2>1, <2>3, <2>4 DEF CreateBlockchains, TypeOK, sigVars
<1>4. CASE Tests
  BY <1>4 DEF Tests, TypeOK, sigVars, mainVars, netVars, PCs, Ended
<1>5. CASE \/ StopNetwork("deferredStop", "exit0")
           \/ StopNetwork("failedStop", "exit1")
           \/ StopNetwork("stop", "closeDone")
  BY <1>5 DEF StopNetwork, TypeOK, sigVars, PCs, Ended
<1>6. CASE Notify \/ CloseDone \/ CloseSignals \/ Reset
  BY <1>6 DEF Notify, CloseDone, CloseSignals, Reset, TypeOK, sigVars,
              mainVars, netVars, PCs, Ended
<1>7. CASE ReceiveSignal \/ WakeMain
  BY <1>7 DEF ReceiveSignal, WakeMain, TypeOK, mainVars, netVars, PCs
<1>8. CASE Signal
  BY <1>8, NumbersAssumption
     DEF Signal, Deliver, TypeOK, mainVars, netVars, PCs, Ended
<1>9. CASE UNCHANGED vars
  BY <1>9 DEF vars, TypeOK, sigVars, mainVars, netVars
<1> QED
  BY <1>1, <1>2, <1>3, <1>4, <1>5, <1>6, <1>7, <1>8, <1>9, ConfigureType,
     LogUrlsType DEF Next, MainStep, SignalStep, Terminated

-----------------------------------------------------------------------------
(* The two goroutines.                                                     *)

LEMMA BeforeNotify ==
    ASSUME pc' \in Early, sigPc' = "none", ~notified', ~closed', buffer' = 0
    PROVE  StopOK'
BY DEF StopOK, Early, Ended

LEMMA AtTheEnd ==
    ASSUME pc' \in Ended, sigPc' = "none" \/ stopped',
           pc' \in {"exit0", "exit1"} =>
               \/ stopped' \/ up' = {}
               \/ pc' = "exit1" /\ command' # "e2e kvstore"
    PROVE  StopOK'
BY DEF StopOK, Early, Ended

LEMMA EarlyStep ==
    ASSUME UrlsOK, StopOK,
           \/ CreateNetwork \/ Configure \/ CreateBlockchains \/ LogUrls
           \/ Await("await", "configure") \/ Await("awaitChains", "urls")
           \/ Tests
    PROVE  StopOK'
<1>1. pc \in Early /\ UNCHANGED <<command, sigPc, notified, buffer, closed>>
  BY DEF Await, CreateNetwork, Configure, CreateBlockchains, LogUrls, Tests,
         Early, sigVars
<1>2. sigPc = "none" /\ ~notified /\ ~closed /\ buffer = 0
  BY <1>1 DEF StopOK
<1>3. \/ Failure = "failedStop"
      \/ Failure = "exit1" /\ command # "e2e kvstore"
  BY DEF Failure
<1>4. \/ pc' \in Early
      \/ pc' = "crashed"
      \/ pc' = "exit1" /\ command # "e2e kvstore"
      \/ pc' = "exit1" /\ up' = {}
  <2>1. CASE CreateNetwork
    BY <2>1 DEF CreateNetwork, UrlsOK, Early
  <2>2. CASE Tests
    BY <2>2 DEF Tests, Early
  <2>3. CASE Configure
    BY <1>1, <1>3, <2>3 DEF Configure, Early
  <2>4. CASE LogUrls
    BY <1>1, <1>3, <2>4 DEF LogUrls, Early
  <2>5. CASE \/ Await("await", "configure") \/ Await("awaitChains", "urls")
             \/ CreateBlockchains
    BY <1>1, <1>3, <2>5 DEF Await, CreateBlockchains, Early
  <2> QED
    BY <2>1, <2>2, <2>3, <2>4, <2>5
<1>5. CASE pc' \in Early
  BY <1>1, <1>2, <1>5, BeforeNotify
<1>6. CASE pc' \notin Early
  BY <1>1, <1>2, <1>4, <1>6, AtTheEnd DEF Ended
<1> QED
  BY <1>5, <1>6

LEMMA LateMainStep ==
    ASSUME StopOK,
           \/ StopNetwork("deferredStop", "exit0")
           \/ StopNetwork("failedStop", "exit1")
           \/ StopNetwork("stop", "closeDone")
           \/ Notify \/ CloseDone \/ CloseSignals \/ Reset
    PROVE  StopOK'
<1>1. CASE \/ StopNetwork("deferredStop", "exit0")
           \/ StopNetwork("failedStop", "exit1")
  BY <1>1, AtTheEnd DEF StopNetwork, Ended
<1>2. CASE StopNetwork("stop", "closeDone")
  BY <1>2 DEF StopNetwork, sigVars, StopOK, Early, Ended
<1>3. CASE Notify
  <2>1. sigPc = "none" /\ ~closed
    BY <1>3 DEF Notify, StopOK, Early
  <2> QED
    BY <1>3, <2>1 DEF Notify, StopOK, Early, Ended
<1>4. CASE CloseDone
  <2>1. stopped /\ sigPc = "done" /\ notified /\ ~closed
    BY <1>4 DEF CloseDone, StopOK
  <2> QED
    BY <1>4, <2>1
       DEF CloseDone, sigVars, mainVars, netVars, StopOK, Early, Ended
<1>5. CASE CloseSignals
  <2>1. stopped /\ sigPc = "done" /\ notified
    BY <1>5 DEF CloseSignals, StopOK
  <2> QED
    BY <1>5, <2>1
       DEF CloseSignals, mainVars, netVars, StopOK, Early, Ended
<1>6. CASE Reset
  <2>1. stopped
    BY <1>6 DEF Reset, StopOK
  <2> QED
    BY <1>6, <2>1, AtTheEnd DEF Reset, mainVars, netVars, Ended
<1> QED
  BY <1>1, <1>2, <1>3, <1>4, <1>5, <1>6

(* A signal ends the process only while there is nothing to stop, or when  *)
(* everything is stopped.                                                  *)
LEMMA SignalStop ==
    ASSUME TypeOK, StopOK, Signal PROVE StopOK'
<1>1. /\ pc \notin Ended
      /\ UNCHANGED <<command, sigPc, notified, closed, stopped, up>>
      /\ \/ pc' = "killed" /\ ~notified
         \/ pc' = "panicked" /\ notified /\ closed
         \/ UNCHANGED pc /\ notified
  BY DEF Signal, Deliver, mainVars, netVars
<1>2. ~notified => sigPc = "none"
  BY <1>1 DEF StopOK, TypeOK, PCs, Early
<1>3. closed => stopped
  BY <1>1 DEF StopOK, TypeOK, PCs, Early
<1>4. CASE pc' \in {"killed", "panicked"}
  BY <1>1, <1>2, <1>3, <1>4, AtTheEnd DEF Ended
<1>5. CASE UNCHANGED pc /\ notified
  <2>1. pc \notin Early
    BY <1>5 DEF StopOK
  <2> QED
    BY <1>1, <1>5, <2>1 DEF StopOK
<1> QED
  BY <1>1, <1>4, <1>5

LEMMA StopStep ==
    ASSUME TypeOK, UrlsOK, StopOK, [Next]_vars PROVE StopOK'
<1>1. CASE pc \notin Ended /\ ReceiveSignal
  <2>1. pc = "block"
    BY <1>1 DEF ReceiveSignal, StopOK, TypeOK, PCs, Early
  <2>2. notified /\ ~closed
    BY <2>1 DEF StopOK
  <2> QED
    BY <1>1, <2>1, <2>2 DEF ReceiveSignal, StopOK, Early, Ended
<1>2. CASE WakeMain
  <2>1. pc = "block" /\ notified /\ ~closed
    BY <1>2 DEF WakeMain, StopOK
  <2> QED
    BY <1>2, <2>1 DEF WakeMain, StopOK, Early, Ended
<1>3. CASE UNCHANGED vars
  BY <1>3 DEF vars, sigVars, mainVars, netVars, StopOK
<1> QED
  BY <1>1, <1>2, <1>3, EarlyStep, LateMainStep, SignalStop
     DEF Next, MainStep, SignalStep, Terminated

-----------------------------------------------------------------------------
(* The ports and the urls.                                                 *)

(* Once both loops are done, nothing they made changes.                    *)
LEMMA LateStep ==
    ASSUME UNCHANGED <<node, grpcPort, chainCfg, grpcUrl, rpcUrl, apiPort>>,
           PortsOK, UrlsOK,
           \/ UNCHANGED <<pc, up>>
           \/ pc' = "configure" /\ pc = "await" /\ UNCHANGED up
           \/ pc' = "urls" /\ pc = "awaitChains" /\ UNCHANGED up
           \/ /\ pc \in {"tests", "notify"} /\ pc' \in {"notify", "block"}
              /\ UNCHANGED up
           \/ pc' \notin {"create"} \cup Running
    PROVE  PortsOK' /\ UrlsOK'
<1>1. \A i \in DOMAIN NodeNames :
        (Counted(i)' <=> Counted(i)) /\ (Reached(i)' <=> Reached(i))
  BY DEF Counted, Reached
<1>2. PortsOK'
  BY <1>1, NodeFacts DEF PortsOK, Running
<1>3. UrlsOK'
  <2>1. node = 1 => \A i \in DOMAIN NodeNames : ~(i < node)
    BY NodeFacts
  <2> QED
    BY <1>1, <2>1 DEF UrlsOK, PortsOK, Running
<1> QED
  BY <1>2, <1>3

LEMMA ConfigureStep ==
    ASSUME TypeOK, PortsOK, UrlsOK, Configure PROVE PortsOK' /\ UrlsOK'
<1>0. pc = "configure" /\ UNCHANGED <<up, apiPort, grpcUrl, rpcUrl>>
  BY DEF Configure, netVars
<1>1. CASE /\ node \in DOMAIN NodeNames
           /\ chainCfg' = [chainCfg EXCEPT ![NodeNames[node]] =
                             [RPCPort |-> apiPort[NodeNames[node]],
                              GRPCPort |-> grpcPort]]
           /\ grpcPort' = Inc(grpcPort)
           /\ node' = node + 1
           /\ UNCHANGED pc
  <2>1. node \in Nat \ {0} /\ NodeNames[node] \in Nodes
    BY <1>1, NodeFacts
  <2>2. grpcPort = PortOf(node)
    BY <1>0 DEF PortsOK
  <2>3. ASSUME NEW i \in DOMAIN NodeNames, i # node
        PROVE  chainCfg'[NodeNames[i]] = chainCfg[NodeNames[i]]
    <3>1. NodeNames[i] # NodeNames[node] /\ NodeNames[i] \in Nodes
      BY <1>1, <2>3, NodesAssumption, NodeFacts
    <3> QED
      BY <1>1, <3>1 DEF TypeOK
  <2>4. chainCfg'[NodeNames[node]].GRPCPort = PortOf(node)
    BY <1>1, <2>1, <2>2 DEF TypeOK
  <2>5. \A i \in DOMAIN NodeNames :
          /\ Counted(i) => Counted(i)'
          /\ i = node => Counted(i)'
          /\ i # node => chainCfg'[NodeNames[i]] = chainCfg[NodeNames[i]]
    BY <2>3, <2>4 DEF Counted
  <2>6. grpcPort' = PortOf(node')
    BY <1>1, <2>1, <2>2, PortFacts
  <2>7. \A i \in DOMAIN NodeNames : i < node' => i < node \/ i = node
    BY <1>1, <2>1, NodeFacts
  <2>8. PortsOK'
    BY <1>0, <1>1, <2>5, <2>6, <2>7 DEF PortsOK
  <2>9. UrlsOK'
    BY <1>0, <1>1 DEF UrlsOK, Running
  <2> QED
    BY <2>8, <2>9
<1>2. CASE /\ node \notin DOMAIN NodeNames /\ pc' = "createChains"
           /\ UNCHANGED <<chainCfg, grpcPort, node>>
  <2>1. \A i \in DOMAIN NodeNames : i < node
    BY <1>2, NodeFacts DEF TypeOK
  <2>2. PortsOK'
    BY <1>0, <1>2, <2>1 DEF PortsOK, Counted
  <2>3. UrlsOK'
    BY <1>0, <1>2 DEF UrlsOK, Running
  <2> QED
    BY <2>2, <2>3
<1>3. CASE pc' = Failure /\ UNCHANGED <<chainCfg, grpcPort, node>>
  BY <1>0, <1>3, LateStep DEF Failure, Running
<1> QED
  BY <1>1, <1>2, <1>3 DEF Configure

LEMMA CreateBlockchainsStep ==
    ASSUME TypeOK, PortsOK, UrlsOK, CreateBlockchains
    PROVE  PortsOK' /\ UrlsOK'
<1>0. /\ pc = "createChains" /\ up = Nodes
      /\ UNCHANGED <<up, chainCfg, grpcUrl, rpcUrl>>
  BY DEF CreateBlockchains, UrlsOK, Running
<1>1. CASE pc' = "awaitChains" /\ grpcPort' = FirstUrlPort /\ node' = 1
  <2>1. grpcPort' = PortOf(node')
    BY <1>1, PortFacts DEF FirstUrlPort
  <2>2. PortsOK'
    BY <1>0, <1>1, <2>1 DEF PortsOK, Counted
  <2>3. UrlsOK'
    BY <1>0, <1>1 DEF UrlsOK
  <2> QED
    BY <2>2, <2>3
<1>2. CASE pc' = Failure /\ UNCHANGED <<grpcPort, node, apiPort>>
  BY <1>0, <1>2, LateStep DEF Failure, Running
<1> QED
  BY <1>1, <1>2 DEF CreateBlockchains

LEMMA LogUrlsStep ==
    ASSUME TypeOK, PortsOK, UrlsOK, LogUrls PROVE PortsOK' /\ UrlsOK'
<1>0. pc = "urls" /\ up = Nodes /\ UNCHANGED <<up, apiPort, chainCfg>>
  BY DEF LogUrls, netVars, UrlsOK, Running
<1>1. CASE /\ node \in DOMAIN NodeNames
           /\ grpcUrl' = [grpcUrl EXCEPT ![NodeNames[node]] = grpcPort]
           /\ rpcUrl' = [rpcUrl EXCEPT ![NodeNames[node]] =
                           UrlPort(NodeNames[node])]
           /\ grpcPort' = Inc(grpcPort)
           /\ node' = node + 1
           /\ UNCHANGED pc
  <2>1. node \in Nat \ {0} /\ NodeNames[node] \in Nodes
    BY <1>1, NodeFacts
  <2>2. grpcPort = PortOf(node)
    BY <1>0 DEF PortsOK
  <2>3. ASSUME NEW i \in DOMAIN NodeNames, i # node
        PROVE  /\ grpcUrl'[NodeNames[i]] = grpcUrl[NodeNames[i]]
               /\ Reached(i) => Reached(i)'
    <3>1. NodeNames[i] # NodeNames[node] /\ NodeNames[i] \in Nodes
      BY <1>1, <2>3, NodesAssumption, NodeFacts
    <3> QED
      BY <1>0, <1>1, <3>1 DEF TypeOK, Reached
  <2>4. /\ grpcUrl'[NodeNames[node]] = PortOf(node)
        /\ rpcUrl'[NodeNames[node]] = apiPort'[NodeNames[node]]
    BY <1>0, <1>1, <2>1, <2>2 DEF TypeOK, UrlPort
  <2>5. grpcPort' = PortOf(node')
    BY <1>1, <2>1, <2>2, PortFacts
  <2>6. \A i \in DOMAIN NodeNames :
          /\ i < node' => i < node \/ i = node
          /\ i = node => grpcUrl'[NodeNames[i]] = PortOf(i) /\ Reached(i)'
    BY <1>1, <2>1, <2>4, NodeFacts DEF Reached
  <2>7. PortsOK'
    BY <1>0, <1>1, <2>3, <2>5, <2>6 DEF PortsOK, Counted
  <2>8. UrlsOK'
    BY <1>0, <1>1, <2>3, <2>6 DEF UrlsOK
  <2> QED
    BY <2>7, <2>8
<1>2. CASE /\ node \notin DOMAIN NodeNames
           /\ pc' = IF command = "run" THEN "notify" ELSE "tests"
           /\ UNCHANGED <<grpcUrl, rpcUrl, grpcPort, node>>
  <2>1. \A i \in DOMAIN NodeNames : i < node
    BY <1>2, NodeFacts DEF TypeOK
  <2>2. pc' \in {"notify", "tests"}
    BY <1>2
  <2>3. PortsOK'
    BY <1>0, <1>2, <2>2 DEF PortsOK, Counted
  <2>4. UrlsOK'
    BY <1>0, <1>2, <2>1, <2>2 DEF UrlsOK, Reached
  <2> QED
    BY <2>3, <2>4
<1>3. CASE pc' = Failure /\ UNCHANGED <<grpcUrl, rpcUrl, grpcPort, node>>
  BY <1>0, <1>3, LateStep DEF Failure, Running
<1> QED
  BY <1>1, <1>2, <1>3 DEF LogUrls

LEMMA CreateNetworkStep ==
    ASSUME PortsOK, UrlsOK, CreateNetwork PROVE PortsOK' /\ UrlsOK'
<1>1. /\ pc = "create" /\ UNCHANGED <<node, grpcPort, chainCfg, grpcUrl>>
      /\ \/ pc' = "await" /\ up' = Nodes
         \/ pc' = "exit1"
  BY DEF CreateNetwork
<1>2. PortsOK'
  BY <1>1 DEF PortsOK, Counted
<1>3. UrlsOK'
  BY <1>1 DEF UrlsOK, Running
<1> QED
  BY <1>2, <1>3

LEMMA PortsStep ==
    ASSUME TypeOK, PortsOK, UrlsOK, StopOK, [Next]_vars
    PROVE  PortsOK' /\ UrlsOK'
<1>1. CASE Await("await", "configure") \/ Await("awaitChains", "urls") \/ Tests
  BY <1>1, LateStep DEF Await, Tests, Failure, mainVars, netVars, Running
<1>2. CASE \/ StopNetwork("deferredStop", "exit0")
           \/ StopNetwork("failedStop", "exit1")
           \/ StopNetwork("stop", "closeDone")
  BY <1>2, LateStep DEF StopNetwork, Running
<1>3. CASE Notify \/ CloseDone \/ CloseSignals \/ Reset
  BY <1>3, LateStep
     DEF Notify, CloseDone, CloseSignals, Reset, mainVars, netVars, Running
<1>4. CASE ReceiveSignal \/ WakeMain
  BY <1>4, LateStep DEF ReceiveSignal, WakeMain, mainVars, netVars, Running
<1>5. CASE Signal
  BY <1>5, LateStep DEF Signal, Deliver, mainVars, netVars, Running
<1>6. CASE UNCHANGED vars
  BY <1>6, LateStep DEF vars, mainVars, netVars
<1> QED
  BY <1>1, <1>2, <1>3, <1>4, <1>5, <1>6, ConfigureStep, CreateBlockchainsStep,
     LogUrlsStep, CreateNetworkStep DEF Next, MainStep, SignalStep, Terminated

-----------------------------------------------------------------------------
(* The theorems.                                                           *)

LEMMA InitRInv == Init => RInv
<1> SUFFICES ASSUME Init PROVE RInv
  OBVIOUS
<1>1. TypeOK
  BY TypeInit
<1>2. PortsOK
  BY NodeFacts, PortFacts DEF Init, PortsOK
<1>3. UrlsOK
  BY DEF Init, UrlsOK, Running
<1>4. StopOK
  BY DEF Init, StopOK, Early, Ended
<1> QED
  BY <1>1, <1>2, <1>3, <1>4 DEF RInv

LEMMA RunnerInvariant == Spec => []RInv
<1>1. RInv /\ [Next]_vars => RInv'
  BY TypeStep, PortsStep, StopStep DEF RInv
<1> QED
  BY InitRInv, <1>1, PTL DEF Spec

(* Every variable of the runner keeps its type.                            *)
THEOREM RunnerTypes == Spec => []TypeOK
<1>1. RInv => TypeOK
  BY DEF RInv
<1> QED
  BY <1>1, RunnerInvariant, PTL

(* However many nodes there are, and also when the ports run over the end  *)
(* of a uint16, the url logged for a node names the port of its chain.     *)
THEOREM UrlsMatch == Spec => []UrlsMatchConfig
<1>1. RInv => UrlsMatchConfig
  <2> SUFFICES ASSUME RInv, NEW n \in Nodes, grpcUrl[n] # NoPort
               PROVE  grpcUrl[n] = chainCfg[n].GRPCPort
    BY DEF UrlsMatchConfig
  <2>1. PICK i \in DOMAIN NodeNames : n = NodeNames[i]
    BY NodeFacts
  <2> QED
    BY <2>1 DEF RInv, PortsOK, Counted
<1> QED
  BY <1>1, RunnerInvariant, PTL

(* Up to 65536 nodes have different gRPC ports.                            *)
THEOREM PortsDiffer ==
    ASSUME Len(NodeNames) <= PortCount
    PROVE  Spec => []DistinctPorts
<1>1. ASSUME NEW i \in DOMAIN NodeNames, NEW j \in DOMAIN NodeNames,
             PortOf(i) = PortOf(j)
      PROVE  i = j
  <2>1. /\ i \in Nat \ {0} /\ i <= Len(NodeNames)
        /\ j \in Nat \ {0} /\ j <= Len(NodeNames)
    BY NodeFacts
  <2>2. i <= PortCount /\ j <= PortCount
    BY <2>1, NodeFacts DEF PortCount
  <2> QED
    BY <1>1, <2>1, <2>2, PortsApart
<1>2. RInv => DistinctPorts
  <2> SUFFICES ASSUME RInv, NEW m \in Nodes, NEW n \in Nodes,
                      chainCfg[m].GRPCPort = chainCfg[n].GRPCPort,
                      chainCfg[n] # NoConfig
               PROVE  m = n
    BY DEF DistinctPorts
  <2>1. PICK i \in DOMAIN NodeNames : m = NodeNames[i]
    BY NodeFacts
  <2>2. PICK j \in DOMAIN NodeNames : n = NodeNames[j]
    BY NodeFacts
  <2>3. chainCfg[n].GRPCPort = PortOf(j)
    BY <2>2 DEF RInv, PortsOK, Counted
  <2>4. PortOf(j) \in Ports
    BY NodeFacts, PortFacts
  <2>5. chainCfg[m] # NoConfig
    BY <2>3, <2>4, PortTypes DEF NoConfig
  <2>6. chainCfg[m].GRPCPort = PortOf(i)
    BY <2>1, <2>5 DEF RInv, PortsOK, Counted
  <2> QED
    BY <1>1, <2>1, <2>2, <2>3, <2>6
<1> QED
  BY <1>2, RunnerInvariant, PTL

(* The urls handed to the tests and to the user are those of the nodes     *)
(* that run, wherever CreateBlockchains restarted them.                    *)
THEOREM UrlsReach == Spec => []UrlsReachNodes
<1>1. RInv => UrlsReachNodes
  <2> SUFFICES ASSUME RInv, pc \in {"tests", "notify", "block"}
               PROVE  up = Nodes /\ \A n \in Nodes : rpcUrl[n] = apiPort[n]
    BY DEF UrlsReachNodes
  <2> QED
    BY NodeFacts DEF RInv, UrlsOK, Running, Reached
<1> QED
  BY <1>1, RunnerInvariant, PTL

(* Whatever signals arrive, and whenever, the runner does not end without  *)
(* nw.Stop once it has promised to wait for one.                           *)
THEOREM NothingAbandoned == Spec => []NeverAbandoned
<1>1. RInv => NeverAbandoned
  BY DEF RInv, StopOK, NeverAbandoned
<1> QED
  BY <1>1, RunnerInvariant, PTL

(* A goroutine that is past its receive has had a signal, and a signal     *)
(* that finds the channel closed comes after that one.                     *)
SignalsSeen ==
    /\ sigPc \in {"send", "done"} \/ buffer = 1 => signals >= 1
    /\ PanicTakesTwo

LEMMA SignalsCounted == RInv /\ SignalsSeen /\ [Next]_vars => SignalsSeen'
<1> SUFFICES ASSUME RInv, SignalsSeen, [Next]_vars PROVE SignalsSeen'
  OBVIOUS
<1> USE DEF SignalsSeen, PanicTakesTwo
<1>0. TypeOK /\ StopOK
  BY DEF RInv
<1>1. buffer \in {0, 1} /\ signals \in Nat
  BY <1>0, NumbersAssumption DEF TypeOK
<1>2. CASE UNCHANGED vars
  BY <1>2 DEF vars, sigVars
<1>3. CASE Signal
  <2>1. /\ pc \notin Ended /\ signals' = signals + 1 /\ UNCHANGED sigPc
        /\ pc' \in {pc, "killed"} \/ (pc' = "panicked" /\ closed)
    BY <1>3 DEF Signal, Deliver
  <2>2. CASE pc' = "panicked" /\ closed
    <3>1. sigPc = "done"
      BY <1>0, <2>1, <2>2 DEF StopOK, TypeOK, PCs, Early
    <3> QED
      BY <1>1, <2>1, <3>1
  <2>3. CASE pc' \in {pc, "killed"}
    BY <1>1, <2>1, <2>3 DEF Ended
  <2> QED
    BY <2>1, <2>2, <2>3
<1>4. CASE ReceiveSignal \/ WakeMain
  BY <1>1, <1>4 DEF ReceiveSignal, WakeMain
<1>5. CASE MainStep
  <2>1. UNCHANGED <<signals, buffer>> /\ pc' # "panicked"
    BY <1>5 DEF MainStep, CreateNetwork, Await, Configure, CreateBlockchains,
                LogUrls, Tests, StopNetwork, Notify, CloseDone, CloseSignals,
                Reset, Failure, sigVars
  <2>2. sigPc' = sigPc \/ sigPc' = "recv"
    BY <1>5 DEF MainStep, CreateNetwork, Await, Configure, CreateBlockchains,
                LogUrls, Tests, StopNetwork, Notify, CloseDone, CloseSignals,
                Reset, sigVars
  <2> QED
    BY <2>1, <2>2
<1> QED
  BY <1>2, <1>3, <1>4, <1>5 DEF Next, SignalStep, Terminated

(* The runner panics only over a second signal, however many are sent.     *)
THEOREM FirstSignalIsSafe == Spec => []PanicTakesTwo
<1>1. Init => SignalsSeen
  BY DEF Init, SignalsSeen, PanicTakesTwo
<1>2. SignalsSeen => PanicTakesTwo
  BY DEF SignalsSeen
<1> QED
  BY <1>1, <1>2, SignalsCounted, RunnerInvariant, PTL DEF Spec

(* Exit status 0 promises that nw.Stop was called for whatever nodes are   *)
(* left, and so does any exit of "e2e kvstore".                            *)
THEOREM SuccessStopsNetwork == Spec => []NodesLeftOnFailureOnly
<1>1. RInv => NodesLeftOnFailureOnly
  BY DEF RInv, StopOK, NodesLeftOnFailureOnly
<1> QED
  BY <1>1, RunnerInvariant, PTL

-----------------------------------------------------------------------------
(* The refinement: where the runner is for Shutdown.                       *)

PhaseIs ==
    /\ pc \in Ended => shutdownPhase = "ended"
    /\ pc \in {"closeDone", "closeSignals", "reset"} =>
         shutdownPhase = "stopped"
    /\ pc = "stop" => shutdownPhase = "asked"
    /\ pc = "block" /\ (buffer = 1 \/ sigPc = "send") => shutdownPhase = "asked"
    /\ pc = "block" /\ ~(buffer = 1 \/ sigPc = "send") =>
         shutdownPhase = "serving"
    /\ pc \in Early => shutdownPhase = "starting"

LEMMA PhaseNow == PhaseIs
<1>1. pc \in Ended => shutdownPhase = "ended"
  BY DEF shutdownPhase, Ended
<1>2. pc \in {"closeDone", "closeSignals", "reset"} => shutdownPhase = "stopped"
  BY DEF shutdownPhase, Ended
<1>3. pc = "stop" => shutdownPhase = "asked"
  BY DEF shutdownPhase, Ended
<1>4. /\ pc = "block" /\ (buffer = 1 \/ sigPc = "send") =>
           shutdownPhase = "asked"
      /\ pc = "block" /\ ~(buffer = 1 \/ sigPc = "send") =>
           shutdownPhase = "serving"
  BY DEF shutdownPhase, Ended
<1>5. pc \in Early => shutdownPhase = "starting"
  BY DEF shutdownPhase, Ended, Early
<1> QED
  BY <1>1, <1>2, <1>3, <1>4, <1>5 DEF PhaseIs

LEMMA PhaseNext == PhaseIs'
BY PhaseNow, PTL

LEMMA InitRefines == Init => S!Init
BY PhaseNow DEF Init, S!Init, PhaseIs, Early

(* While it starts: a step keeps the nodes, starts them, or gives up.      *)
LEMMA StartingStep ==
    ASSUME RInv, pc \in Early, pc' \in Early \cup Ended,
           \/ pc' \in Early /\ up' \in {up, Nodes}
           \/ pc' \in Ended /\ up' \in SUBSET up
    PROVE  [S!Next]_(S!abstractVars)
<1>1. shutdownPhase = "starting"
  BY PhaseNow DEF PhaseIs
<1>2. CASE pc' \in Early /\ up' \in {up, Nodes}
  <2>1. shutdownPhase' = "starting"
    BY <1>2, PhaseNext DEF PhaseIs
  <2>2. CASE up' = up
    BY <1>1, <2>1, <2>2 DEF S!abstractVars
  <2>3. CASE up' = Nodes
    BY <1>1, <2>1, <2>3 DEF S!Next, S!Start
  <2> QED
    BY <1>2, <2>2, <2>3
<1>3. CASE pc' \in Ended /\ up' \in SUBSET up
  <2>1. shutdownPhase' = "ended"
    BY <1>3, PhaseNext DEF PhaseIs
  <2> QED
    BY <1>1, <1>3, <2>1 DEF S!Next, S!GiveUp
<1> QED
  BY <1>2, <1>3

LEMMA SameStep ==
    ASSUME shutdownPhase' = shutdownPhase, up' = up
    PROVE  [S!Next]_(S!abstractVars)
BY DEF S!abstractVars

(* A step of the main goroutine.                                           *)
LEMMA MainRefines ==
    ASSUME RInv, MainStep PROVE [S!Next]_(S!abstractVars)
<1>1. CASE CreateNetwork
  <2>1. pc \in Early /\ pc' \in Early \cup Ended
    BY <1>1 DEF CreateNetwork, Early, Ended
  <2>2. \/ pc' \in Early /\ up' \in {up, Nodes}
        \/ pc' \in Ended /\ up' \in SUBSET up
    BY <1>1 DEF CreateNetwork, Early, Ended
  <2> QED
    BY <2>1, <2>2, StartingStep
<1>2. CASE \/ Await("await", "configure") \/ Configure \/ CreateBlockchains
           \/ Await("awaitChains", "urls") \/ LogUrls \/ Tests
  <2>1. pc \in Early /\ pc' \in Early \cup Ended
    BY <1>2 DEF Await, Configure, CreateBlockchains, LogUrls, Tests, Failure,
                Early, Ended
  <2>2. up' = up
    BY <1>2 DEF Await, Configure, CreateBlockchains, LogUrls, Tests,
                mainVars, netVars
  <2> QED
    BY <2>1, <2>2, StartingStep
<1>3. CASE \/ StopNetwork("deferredStop", "exit0")
           \/ StopNetwork("failedStop", "exit1")
  <2>1. pc \in Early /\ pc' \in Ended /\ up' \in SUBSET up
    BY <1>3 DEF StopNetwork, Early, Ended
  <2> QED
    BY <2>1, StartingStep
<1>4. CASE StopNetwork("stop", "closeDone")
  <2>1. pc = "stop" /\ pc' = "closeDone" /\ up' \in SUBSET up
    BY <1>4 DEF StopNetwork
  <2>2. shutdownPhase = "asked" /\ shutdownPhase' = "stopped"
    BY <2>1, PhaseNow, PhaseNext DEF PhaseIs
  <2> QED
    BY <2>1, <2>2 DEF S!Next, S!Stop
<1>5. CASE Notify
  <2>1. /\ pc = "notify" /\ pc' = "block" /\ up' = up /\ up = Nodes
        /\ sigPc' = "recv" /\ buffer' = 0
    BY <1>5 DEF Notify, mainVars, netVars, RInv, UrlsOK, StopOK, Running, Early
  <2>2. shutdownPhase = "starting" /\ shutdownPhase' = "serving"
    BY <2>1, PhaseNow, PhaseNext DEF PhaseIs, Early
  <2> QED
    BY <2>1, <2>2 DEF S!Next, S!Serve
<1>6. CASE CloseDone \/ CloseSignals
  <2>1. /\ pc \in {"closeDone", "closeSignals"} /\ up' = up
        /\ pc' \in {"closeSignals", "reset"}
    BY <1>6 DEF CloseDone, CloseSignals, mainVars, netVars
  <2>2. shutdownPhase = "stopped" /\ shutdownPhase' = "stopped"
    BY <2>1, PhaseNow, PhaseNext DEF PhaseIs
  <2> QED
    BY <2>1, <2>2, SameStep
<1>7. CASE Reset
  <2>1. pc = "reset" /\ pc' \in Ended /\ up' = up
    BY <1>7 DEF Reset, mainVars, netVars, Ended
  <2>2. shutdownPhase = "stopped" /\ shutdownPhase' = "ended"
    BY <2>1, PhaseNow, PhaseNext DEF PhaseIs
  <2> QED
    BY <2>1, <2>2 DEF S!Next, S!End
<1> QED
  BY <1>1, <1>2, <1>3, <1>4, <1>5, <1>6, <1>7 DEF MainStep

(* A step of the goroutine of GracefulShutdown.                            *)
LEMMA SignalStepRefines ==
    ASSUME RInv, pc \notin Ended, SignalStep
    PROVE  [S!Next]_(S!abstractVars)
<1>1. CASE ReceiveSignal
  <2>1. /\ sigPc = "recv" /\ buffer = 1 /\ sigPc' = "send"
        /\ pc' = pc /\ up' = up
    BY <1>1 DEF ReceiveSignal, mainVars, netVars, RInv, TypeOK
  <2>2. pc = "block"
    <3>1. pc \notin Early /\ pc \notin {"stop", "closeDone", "closeSignals",
                                        "reset"}
      BY <2>1 DEF RInv, StopOK
    <3> QED
      BY <3>1 DEF RInv, TypeOK, PCs, Early
  <2>3. shutdownPhase = "asked" /\ shutdownPhase' = "asked"
    BY <2>1, <2>2, PhaseNow, PhaseNext DEF PhaseIs
  <2> QED
    BY <2>1, <2>3, SameStep
<1>2. CASE WakeMain
  <2>1. pc = "block" /\ sigPc = "send" /\ pc' = "stop" /\ up' = up
    BY <1>2 DEF WakeMain, mainVars, netVars
  <2>2. shutdownPhase = "asked" /\ shutdownPhase' = "asked"
    BY <2>1, PhaseNow, PhaseNext DEF PhaseIs
  <2> QED
    BY <2>1, <2>2, SameStep
<1> QED
  BY <1>1, <1>2 DEF SignalStep

(* A signal that arrives, wherever the runner is.                          *)
LEMMA SignalRefines ==
    ASSUME RInv, Signal PROVE [S!Next]_(S!abstractVars)
<1>1. pc \notin Ended /\ up' = up /\ sigPc' = sigPc
  BY DEF Signal, mainVars, netVars
<1>2. CASE pc \in Early
  <2>1. pc' = "killed"
    BY <1>2 DEF Signal, Deliver, RInv, StopOK
  <2>2. pc' \in Ended
    BY <2>1 DEF Ended
  <2> QED
    BY <1>1, <1>2, <2>2, StartingStep
<1>3. CASE pc = "block"
  <2>1. pc' = "block" /\ buffer' = 1
    BY <1>3 DEF Signal, Deliver, RInv, StopOK
  <2>2. shutdownPhase' = "asked"
    BY <1>3, <2>1, PhaseNext DEF PhaseIs
  <2>3. shutdownPhase \in {"serving", "asked"}
    BY <1>3, PhaseNow DEF PhaseIs
  <2>4. CASE shutdownPhase = "serving"
    BY <1>1, <2>2, <2>4 DEF S!Next, S!Ask
  <2>5. CASE shutdownPhase = "asked"
    BY <1>1, <2>2, <2>5, SameStep
  <2> QED
    BY <2>3, <2>4, <2>5
<1>4. CASE pc \in {"stop", "closeDone", "closeSignals"}
  <2>1. pc' = pc
    BY <1>4 DEF Signal, Deliver, RInv, StopOK
  <2>2. shutdownPhase' = shutdownPhase
    BY <1>4, <2>1, PhaseNow, PhaseNext DEF PhaseIs
  <2> QED
    BY <1>1, <2>2, SameStep
<1>5. CASE pc = "reset"
  <2>1. pc' = "panicked"
    BY <1>5 DEF Signal, Deliver, RInv, StopOK
  <2>2. pc' \in Ended
    BY <2>1 DEF Ended
  <2>3. shutdownPhase = "stopped" /\ shutdownPhase' = "ended"
    BY <1>5, <2>2, PhaseNow, PhaseNext DEF PhaseIs
  <2> QED
    BY <1>1, <2>3 DEF S!Next, S!End
<1> QED
  BY <1>1, <1>2, <1>3, <1>4, <1>5 DEF RInv, TypeOK, PCs, Early

LEMMA StutterRefines ==
    ASSUME UNCHANGED vars PROVE [S!Next]_(S!abstractVars)
<1>1. pc' = pc /\ buffer' = buffer /\ sigPc' = sigPc /\ up' = up
  BY DEF vars, mainVars, netVars, sigVars
<1> QED
  BY <1>1, SameStep DEF shutdownPhase

(* Shutdown's promise, but for its fairness: the runner serves with all    *)
(* nodes up, goes on until a signal, stops the network, and only then      *)
(* ends, for any number of nodes and signals and any faults.               *)
THEOREM RefinesShutdown == Spec => S!SafeSpec
<1>1. RInv /\ [Next]_vars => [S!Next]_(S!abstractVars)
  BY MainRefines, SignalStepRefines, SignalRefines, StutterRefines
     DEF Next, Terminated
<1> QED
  BY <1>1, InitRefines, RunnerInvariant, PTL DEF Spec, S!SafeSpec

=============================================================================
