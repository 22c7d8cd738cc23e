----------------------------- MODULE Andromeda -----------------------------
(***************************************************************************)
(* What andromeda/main.go deploys, and the dependencies its README lists.  *)
(***************************************************************************)
EXTENDS AndromedaDeployer

CONSTANTS r1, a1

Deploy(n, refs) == [name |-> n, refs |-> refs]

KernelAddress == [kernel_address |-> AddrOf("kernel")]

KernelPart ==
    <<Deploy("kernel", <<>>), Deploy("vfs", KernelAddress),
      Deploy("adodb", KernelAddress)>>

TokenPart ==
    <<Deploy("cw20", KernelAddress),
      Deploy("cw20_exchange", [kernel_address |-> AddrOf("kernel"),
                               token_address |-> AddrOf("cw20")])>>

AndromedaPlan == KernelPart \o TokenPart

AndromedaNames == {AndromedaPlan[i].name : i \in DOMAIN AndromedaPlan}
AndromedaFields == {"kernel_address", "token_address"}
AndromedaSigner == [r \in Runs |-> a1]
AndromedaSalts == Runs \cup {NoSalt}

(* The "Depends on" lines of the README, for the contracts main deploys;   *)
(* the calls for the other eight are commented out.                        *)
DependsOn ==
    ({"vfs", "adodb", "cw20", "cw20_exchange"} \X {AddrOf("kernel")})
    \cup {<<"cw20_exchange", AddrOf("cw20")>>}

(* The contract that the name of a field asks for.                         *)
FieldAsksFor ==
    [kernel_address |-> AddrOf("kernel"), token_address |-> AddrOf("cw20")]

-----------------------------------------------------------------------------
(* Every contract on the chain holds the address of each contract that     *)
(* README.md says it depends on, the one this deployment created even when *)
(* an instantiation creates further contracts, in the field for it.        *)
FollowsReadme == W!RespectsDependencies(DependsOn, FieldAsksFor)

=============================================================================
