----------------------------- MODULE WhiteWhale -----------------------------
(***************************************************************************)
(* What white_whale/main.go deploys, and the dependencies drawn in         *)
(* white_whale/dependencies.mermaid.                                       *)
(***************************************************************************)
EXTENDS Deployer

CONSTANTS r1, a1

Inst(n, refs) ==
    [name |-> n, op |-> "UploadAndInstantiate", refs |-> refs, clock |-> FALSE]
InstAt(n, refs) == [Inst(n, refs) EXCEPT !.clock = TRUE]
OnlyStore(n) == [name |-> n, op |-> "Upload", refs |-> <<>>, clock |-> FALSE]

(* The fields of the messages, and the contract the name of each asks for. *)
FieldAsksFor ==
    [bonding_contract_addr |-> AddrOf("whale_lair"),
     fee_collector_addr    |-> AddrOf("fee_collector"),
     fee_distributor_addr  |-> AddrOf("fee_distributor"),
     incentive_code_id     |-> CodeOf("incentive"),
     incentive_factory     |-> AddrOf("incentive_factory"),
     vault_id              |-> CodeOf("vault"),
     token_id              |-> CodeOf("terraswap_token"),
     vault_factory_addr    |-> AddrOf("vault_factory"),
     pair_code_id          |-> CodeOf("terraswap_pair"),
     trio_code_id          |-> CodeOf("stableswap_3pool"),
     token_code_id         |-> CodeOf("terraswap_token"),
     terraswap_factory     |-> AddrOf("terraswap_factory")]

FeePart ==
    <<Inst("whale_lair", <<>>),
      Inst("fee_collector", <<>>),
      InstAt("fee_distributor",
             [bonding_contract_addr |-> AddrOf("whale_lair"),
              fee_collector_addr |-> AddrOf("fee_collector")])>>

IncentivePart ==
    <<OnlyStore("incentive"),
      Inst("incentive_factory",
           [fee_collector_addr |-> AddrOf("fee_collector"),
            fee_distributor_addr |-> AddrOf("fee_distributor"),
            incentive_code_id |-> CodeOf("incentive")]),
      Inst("frontend_helper",
           [incentive_factory |-> AddrOf("incentive_factory")])>>

VaultParts(vaultCodeID, tokenCodeID) ==
    <<Inst("terraswap_token", <<>>),
      OnlyStore("vault"),
      Inst("vault_factory",
           [vault_id |-> vaultCodeID,
            token_id |-> tokenCodeID,
            fee_collector_addr |-> AddrOf("fee_collector")]),
      Inst("vault_router",
           [vault_factory_addr |-> AddrOf("vault_factory")])>>
VaultSwapped ==   \* mutant: the two code ids change places
    VaultParts(CodeOf("terraswap_token"), CodeOf("vault"))
VaultPart == VaultParts(CodeOf("vault"), CodeOf("terraswap_token"))

SwapPart ==
    <<OnlyStore("terraswap_pair"),
      OnlyStore("stableswap_3pool"),
      Inst("terraswap_factory",
           [pair_code_id |-> CodeOf("terraswap_pair"),
            trio_code_id |-> CodeOf("stableswap_3pool"),
            token_code_id |-> CodeOf("terraswap_token"),
            fee_collector_addr |-> AddrOf("fee_collector")]),
      Inst("terraswap_router",
           [terraswap_factory |-> AddrOf("terraswap_factory")])>>

EpochPart ==
    <<InstAt("epoch_manager", <<>>),
      Inst("fee_distributor_mock", <<>>)>>

WhiteWhalePlan == FeePart \o IncentivePart \o VaultPart \o SwapPart \o EpochPart

WhiteWhaleNames == {WhiteWhalePlan[i].name : i \in DOMAIN WhiteWhalePlan}
WhiteWhaleFields == DOMAIN FieldAsksFor
WhiteWhaleSigner == [r \in Runs |-> a1]
WhiteWhaleSalts == Runs \cup {NoSalt}

(* The arrows between contracts in dependencies.mermaid; the label of an   *)
(* arrow says whether it stands for an address or a code id.               *)
Diagram ==
    ({"fee_distributor"} \X {AddrOf("whale_lair"), AddrOf("fee_collector")})
    \cup ({"incentive_factory"} \X
            {AddrOf("fee_collector"), AddrOf("fee_distributor"),
             CodeOf("incentive")})
    \cup {<<"frontend_helper", AddrOf("incentive_factory")>>}
    \cup ({"vault_factory"} \X
            {CodeOf("vault"), CodeOf("terraswap_token"),
             AddrOf("fee_collector")})
    \cup {<<"vault_router", AddrOf("vault_factory")>>}
    \cup ({"terraswap_factory"} \X
            {CodeOf("terraswap_pair"), CodeOf("stableswap_3pool"),
             CodeOf("terraswap_token"), AddrOf("fee_collector")})
    \cup {<<"terraswap_router", AddrOf("terraswap_factory")>>}

-----------------------------------------------------------------------------
(* Every contract on the chain holds, for each arrow of the diagram that   *)
(* leaves it, the code id or the address of the contract the arrow points  *)
(* to, in a field that asks for it, and nothing else in such a field: main *)
(* neither calls too early nor mixes up its variables.                     *)
FollowsDiagram == RespectsDependencies(Diagram, FieldAsksFor)

=============================================================================
