------------------------------ MODULE Shutdown ------------------------------
(***************************************************************************)
(* What the runner promises about the network it starts, with no word of   *)
(* channels, goroutines or ports.  While it starts it may give up, with    *)
(* the nodes in whatever state.  Once it says that it runs until CTRL + C  *)
(* it goes on until it is asked, then it stops the network, and only then  *)
(* it ends.                                                                *)
(***************************************************************************)
CONSTANT Nodes

VARIABLES
    phase,       \* where the runner is
    nodes        \* the node processes that run

abstractVars == <<phase, nodes>>

Phases == {"starting", "serving", "asked", "stopped", "ended"}

Init == phase = "starting" /\ nodes = {}

Start ==
    /\ phase = "starting"
    /\ nodes' = Nodes
    /\ UNCHANGED phase

GiveUp ==
    /\ phase = "starting" /\ phase' = "ended"
    /\ nodes' \in SUBSET nodes

Serve ==
    /\ phase = "starting" /\ phase' = "serving"
    /\ nodes = Nodes
    /\ UNCHANGED nodes

Ask == phase = "serving" /\ phase' = "asked" /\ UNCHANGED nodes

(* A stop that fails may leave nodes behind.                               *)
Stop ==
    /\ phase = "asked" /\ phase' = "stopped"
    /\ nodes' \in SUBSET nodes

End == phase = "stopped" /\ phase' = "ended" /\ UNCHANGED nodes

Next == Start \/ GiveUp \/ Serve \/ Ask \/ Stop \/ End

SafeSpec == Init /\ [][Next]_abstractVars

(* Who is asked to stop does, and ends.                                    *)
Spec == SafeSpec /\ WF_abstractVars(Stop) /\ WF_abstractVars(End)

=============================================================================
