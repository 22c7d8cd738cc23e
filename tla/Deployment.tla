----------------------------- MODULE Deployment -----------------------------
(***************************************************************************)
(* What a deployment tool promises, with no word of transactions,          *)
(* sequence numbers or polling: a run goes through its plan in order.  It  *)
(* confirms a contract only when the chain holds it, made with references  *)
(* to exactly those contracts the same run confirmed before.  It reports   *)
(* success only after the last contract, and may give up at any time.      *)
(***************************************************************************)
EXTENDS Naturals, Sequences

CONSTANTS Runs, Names, Fields, Plan

VARIABLES
    contracts,   \* what the chain holds: a growing set of records
    confirmed,   \* per run and name, what the run knows of the contract
    phase        \* per run: "active", "done" or "aborted"

abstractVars == <<contracts, confirmed, phase>>

Unknown == [code |-> 0, addr |-> 0]

(* The references a run puts into the message of plan entry k.             *)
Resolved(r, k) ==
    [f \in Fields |->
        IF f \in DOMAIN Plan[k].refs
        THEN LET known == confirmed[r][Plan[k].refs[f].name] IN
             IF Plan[k].refs[f].part = "code" THEN known.code ELSE known.addr
        ELSE 0]

(* An uploaded code has no references, an instantiated contract has those  *)
(* of its plan entry.                                                      *)
Fulfils(c, r, k) ==
    /\ c.name = Plan[k].name
    /\ \/ Plan[k].op = "Upload" /\ c.kind = "store"
       \/ /\ Plan[k].op = "UploadAndInstantiate"
          /\ c.kind = "instantiate"
          /\ c.refs = Resolved(r, k)

IsNext(r, k) ==
    /\ confirmed[r][Plan[k].name] = Unknown
    /\ \A i \in 1 .. k - 1 : confirmed[r][Plan[i].name] # Unknown

-----------------------------------------------------------------------------
Init ==
    /\ contracts = {}
    /\ confirmed = [r \in Runs |-> [n \in Names |-> Unknown]]
    /\ phase = [r \in Runs |-> "active"]

(* The chain gains contracts, and never loses one.                         *)
Grow ==
    /\ contracts \subseteq contracts'
    /\ UNCHANGED <<confirmed, phase>>

Confirm(r) ==
    /\ phase[r] = "active"
    /\ \E k \in DOMAIN Plan, c \in contracts :
         /\ IsNext(r, k)
         /\ Fulfils(c, r, k)
         /\ c.made # Unknown
         /\ confirmed' = [confirmed EXCEPT ![r][Plan[k].name] = c.made]
    /\ UNCHANGED <<contracts, phase>>

Complete(r) ==
    /\ phase[r] = "active"
    /\ \A k \in DOMAIN Plan : confirmed[r][Plan[k].name] # Unknown
    /\ phase' = [phase EXCEPT ![r] = "done"]
    /\ UNCHANGED <<contracts, confirmed>>

(* A client that gives up on a broadcast may leave the contract to the     *)
(* chain.                                                                  *)
Abort(r) ==
    /\ phase[r] = "active"
    /\ phase' = [phase EXCEPT ![r] = "aborted"]
    /\ UNCHANGED <<contracts, confirmed>>

Next == Grow \/ \E r \in Runs : Confirm(r) \/ Complete(r) \/ Abort(r)

Spec == Init /\ [][Next]_abstractVars

=============================================================================
