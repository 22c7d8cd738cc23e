-------------------------- MODULE WhiteWhaleProofs --------------------------
(***************************************************************************)
(* The plan of white_whale/main.go respects the diagram of its             *)
(* dependencies, for every number of runs, accounts and faults.            *)
(***************************************************************************)
EXTENDS WhiteWhale, DependencyProofs

(* What the diagram asks of a plan entry, and what its fields ask for.     *)
Drawn(entry) ==
    /\ \A f \in DOMAIN entry.refs : entry.refs[f] = FieldAsksFor[f]
    /\ \A d \in Diagram : entry.name = d[1] =>
         \E f \in DOMAIN entry.refs : entry.refs[f] = d[2]
DrawnPart(part) ==
    /\ \E S : part \in Seq(S)
    /\ \A i \in DOMAIN part : Drawn(part[i])

(* The arrows, contract by contract.                                       *)
LEMMA Arrows ==
    ASSUME NEW d \in Diagram
    PROVE  \/ /\ d[1] = "fee_distributor"
              /\ d[2] \in {AddrOf("whale_lair"), AddrOf("fee_collector")}
           \/ /\ d[1] = "incentive_factory"
              /\ d[2] \in {AddrOf("fee_collector"), AddrOf("fee_distributor"),
                           CodeOf("incentive")}
           \/ d[1] = "frontend_helper" /\ d[2] = AddrOf("incentive_factory")
           \/ /\ d[1] = "vault_factory"
              /\ d[2] \in {CodeOf("vault"), CodeOf("terraswap_token"),
                           AddrOf("fee_collector")}
           \/ d[1] = "vault_router" /\ d[2] = AddrOf("vault_factory")
           \/ /\ d[1] = "terraswap_factory"
              /\ d[2] \in {CodeOf("terraswap_pair"),
                           CodeOf("stableswap_3pool"),
                           CodeOf("terraswap_token"), AddrOf("fee_collector")}
           \/ d[1] = "terraswap_router" /\ d[2] = AddrOf("terraswap_factory")
BY DEF Diagram

(* A contract whose message names no other contract.                       *)
LEMMA NoneAsked ==
    ASSUME NEW e, e.refs = <<>>,
           e.name \notin {"fee_distributor", "incentive_factory",
                          "frontend_helper", "vault_factory", "vault_router",
                          "terraswap_factory", "terraswap_router"}
    PROVE  Drawn(e)
BY Arrows DEF Drawn

(* Two parts in a row.                                                     *)
LEMMA Concat ==
    ASSUME NEW s, NEW t, DrawnPart(s), DrawnPart(t)
    PROVE  DrawnPart(s \o t)
<1>1. PICK S, T : s \in Seq(S) /\ t \in Seq(T)
  BY DEF DrawnPart
<1> DEFINE E == S \cup T
<1>2. s \in Seq(E) /\ t \in Seq(E)
  BY <1>1
<1> HIDE DEF E
<1>3. s \o t \in Seq(E)
  BY <1>2
<1>4. ASSUME NEW i \in DOMAIN (s \o t)
      PROVE  \/ \E j \in DOMAIN s : (s \o t)[i] = s[j]
             \/ \E j \in DOMAIN t : (s \o t)[i] = t[j]
  BY <1>2
<1> QED
  BY <1>3, <1>4 DEF DrawnPart

LEMMA EntryMade ==
    ASSUME NEW n, NEW refs
    PROVE  /\ Inst(n, refs).name = n /\ Inst(n, refs).refs = refs
           /\ InstAt(n, refs).name = n /\ InstAt(n, refs).refs = refs
           /\ OnlyStore(n).name = n /\ OnlyStore(n).refs = <<>>
BY DEF Inst, InstAt, OnlyStore

LEMMA PartOf2 ==
    ASSUME NEW a, NEW b, Drawn(a), Drawn(b)
    PROVE  DrawnPart(<<a, b>>)
<1>1. <<a, b>> \in Seq({a, b})
  OBVIOUS
<1>2. \A i \in DOMAIN <<a, b>> : <<a, b>>[i] \in {a, b}
  OBVIOUS
<1> QED
  BY <1>1, <1>2 DEF DrawnPart

LEMMA PartOf3 ==
    ASSUME NEW a, NEW b, NEW c, Drawn(a), Drawn(b), Drawn(c)
    PROVE  DrawnPart(<<a, b, c>>)
<1>1. <<a, b, c>> \in Seq({a, b, c})
  OBVIOUS
<1>2. \A i \in DOMAIN <<a, b, c>> : <<a, b, c>>[i] \in {a, b, c}
  OBVIOUS
<1> QED
  BY <1>1, <1>2 DEF DrawnPart

LEMMA PartOf4 ==
    ASSUME NEW a, NEW b, NEW c, NEW d, Drawn(a), Drawn(b), Drawn(c), Drawn(d)
    PROVE  DrawnPart(<<a, b, c, d>>)
<1>1. <<a, b, c, d>> \in Seq({a, b, c, d})
  OBVIOUS
<1>2. \A i \in DOMAIN <<a, b, c, d>> : <<a, b, c, d>>[i] \in {a, b, c, d}
  OBVIOUS
<1> QED
  BY <1>1, <1>2 DEF DrawnPart

LEMMA FeeDrawn == DrawnPart(FeePart)
<1> DEFINE R == [bonding_contract_addr |-> AddrOf("whale_lair"),
                fee_collector_addr |-> AddrOf("fee_collector")]
           a == Inst("whale_lair", <<>>)
           b == Inst("fee_collector", <<>>)
           c == InstAt("fee_distributor", R)
<1>1. Drawn(a) /\ Drawn(b)
  BY EntryMade, NoneAsked
<1>2. Drawn(c)
  <2>1. \A f \in DOMAIN R : R[f] = FieldAsksFor[f]
    BY DEF FieldAsksFor
  <2> QED
    BY <2>1, Arrows, EntryMade DEF Drawn
<1> HIDE DEF a, b, c
<1>3. DrawnPart(<<a, b, c>>)
  BY <1>1, <1>2, PartOf3
<1> QED
  BY <1>3 DEF a, b, c, FeePart

LEMMA IncentiveDrawn == DrawnPart(IncentivePart)
<1> DEFINE R == [fee_collector_addr |-> AddrOf("fee_collector"),
                fee_distributor_addr |-> AddrOf("fee_distributor"),
                incentive_code_id |-> CodeOf("incentive")]
           Q == [incentive_factory |-> AddrOf("incentive_factory")]
           a == OnlyStore("incentive")
           b == Inst("incentive_factory", R)
           c == Inst("frontend_helper", Q)
<1>1. Drawn(a)
  BY EntryMade, NoneAsked
<1>2. Drawn(b)
  <2>1. \A f \in DOMAIN R : R[f] = FieldAsksFor[f]
    BY DEF FieldAsksFor
  <2> QED
    BY <2>1, Arrows, EntryMade DEF Drawn
<1>3. Drawn(c)
  <2>1. \A f \in DOMAIN Q : Q[f] = FieldAsksFor[f]
    BY DEF FieldAsksFor
  <2> QED
    BY <2>1, Arrows, EntryMade DEF Drawn
<1> HIDE DEF a, b, c
<1>4. DrawnPart(<<a, b, c>>)
  BY <1>1, <1>2, <1>3, PartOf3
<1> QED
  BY <1>4 DEF a, b, c, IncentivePart

LEMMA VaultDrawn == DrawnPart(VaultPart)
<1> DEFINE R == [vault_id |-> CodeOf("vault"),
                token_id |-> CodeOf("terraswap_token"),
                fee_collector_addr |-> AddrOf("fee_collector")]
           Q == [vault_factory_addr |-> AddrOf("vault_factory")]
           a == Inst("terraswap_token", <<>>)
           b == OnlyStore("vault")
           c == Inst("vault_factory", R)
           d == Inst("vault_router", Q)
<1>1. Drawn(a) /\ Drawn(b)
  BY EntryMade, NoneAsked
<1>2. Drawn(c)
  <2>1. \A f \in DOMAIN R : R[f] = FieldAsksFor[f]
    BY DEF FieldAsksFor
  <2> QED
    BY <2>1, Arrows, EntryMade DEF Drawn
<1>3. Drawn(d)
  <2>1. \A f \in DOMAIN Q : Q[f] = FieldAsksFor[f]
    BY DEF FieldAsksFor
  <2> QED
    BY <2>1, Arrows, EntryMade DEF Drawn
<1> HIDE DEF a, b, c, d
<1>4. DrawnPart(<<a, b, c, d>>)
  BY <1>1, <1>2, <1>3, PartOf4
<1> QED
  BY <1>4 DEF a, b, c, d, VaultPart, VaultParts

LEMMA SwapDrawn == DrawnPart(SwapPart)
<1> DEFINE R == [pair_code_id |-> CodeOf("terraswap_pair"),
                trio_code_id |-> CodeOf("stableswap_3pool"),
                token_code_id |-> CodeOf("terraswap_token"),
                fee_collector_addr |-> AddrOf("fee_collector")]
           Q == [terraswap_factory |-> AddrOf("terraswap_factory")]
           a == OnlyStore("terraswap_pair")
           b == OnlyStore("stableswap_3pool")
           c == Inst("terraswap_factory", R)
           d == Inst("terraswap_router", Q)
<1>1. Drawn(a) /\ Drawn(b)
  BY EntryMade, NoneAsked
<1>2. Drawn(c)
  <2>1. \A f \in DOMAIN R : R[f] = FieldAsksFor[f]
    BY DEF FieldAsksFor
  <2> QED
    BY <2>1, Arrows, EntryMade DEF Drawn
<1>3. Drawn(d)
  <2>1. \A f \in DOMAIN Q : Q[f] = FieldAsksFor[f]
    BY DEF FieldAsksFor
  <2> QED
    BY <2>1, Arrows, EntryMade DEF Drawn
<1> HIDE DEF a, b, c, d
<1>4. DrawnPart(<<a, b, c, d>>)
  BY <1>1, <1>2, <1>3, PartOf4
<1> QED
  BY <1>4 DEF a, b, c, d, SwapPart

LEMMA EpochDrawn == DrawnPart(EpochPart)
<1> DEFINE a == InstAt("epoch_manager", <<>>)
           b == Inst("fee_distributor_mock", <<>>)
<1>1. Drawn(a) /\ Drawn(b)
  BY EntryMade, NoneAsked
<1> HIDE DEF a, b
<1>2. DrawnPart(<<a, b>>)
  BY <1>1, PartOf2
<1> QED
  BY <1>2 DEF a, b, EpochPart

LEMMA PlanDrawn == DrawnPart(WhiteWhalePlan)
<1>1. DrawnPart(FeePart \o IncentivePart)
  BY FeeDrawn, IncentiveDrawn, Concat
<1>2. DrawnPart((FeePart \o IncentivePart) \o VaultPart)
  BY <1>1, VaultDrawn, Concat
<1>3. DrawnPart(((FeePart \o IncentivePart) \o VaultPart) \o SwapPart)
  BY <1>2, SwapDrawn, Concat
<1> QED
  BY <1>3, EpochDrawn, Concat DEF WhiteWhalePlan

(* Whatever is killed, lost or refused, a contract of the white_whale      *)
(* deployment that is on the chain holds the contracts its arrows in       *)
(* dependencies.mermaid point to, each in a field that asks for it.        *)
THEOREM DiagramFollowed ==
    ASSUME Plan = WhiteWhalePlan
    PROVE  Spec => []FollowsDiagram
<1>1. InPlan(Diagram, FieldAsksFor)
  BY PlanDrawn DEF InPlan, DrawnPart, Drawn
<1>2. DInv => FollowsDiagram
  BY <1>1, Respected DEF FollowsDiagram
<1> QED
  BY <1>2, DependencyInvariant, PTL

=============================================================================
