----------------------------- MODULE MCDeployer -----------------------------
(***************************************************************************)
(* A small plan with the shapes of the plan in white_whale/main.go: a      *)
(* contract that is stored and instantiated first, then one that is only   *)
(* stored, then one whose message refers to both, by the address of one    *)
(* and the code id of the other, and holds the time.                       *)
(***************************************************************************)
EXTENDS Deployer

CONSTANTS r1, r2, a1, a2, lair, vault, factory

MCPlan ==
    <<[name |-> lair, op |-> "UploadAndInstantiate", refs |-> <<>>,
       clock |-> FALSE],
      [name |-> vault, op |-> "Upload", refs |-> <<>>, clock |-> FALSE],
      [name |-> factory, op |-> "UploadAndInstantiate",
       refs |-> [lair_addr |-> AddrOf(lair), vault_id |-> CodeOf(vault)],
       clock |-> TRUE]>>

MCFields == {"lair_addr", "vault_id"}
MCSalts == Runs \cup {NoSalt}

(* Two runs with the one account of the tool's .env, or one each.          *)
SharedSigner == [r \in Runs |-> a1]
OwnSigner == [r \in Runs |-> IF r = r1 THEN a1 ELSE a2]

=============================================================================
