----------------------------- MODULE TxDetails -----------------------------
(***************************************************************************)
(* extractResultTxDetails of the deployers (white_whale/internal/          *)
(* deployer.go, and its twin in andromeda/main.go): the code id and the    *)
(* contract address a client reads out of the events of a committed        *)
(* transaction.  An event is a record with its type and the values of its  *)
(* attributes "code_id" and "_contract_address"; 0 is the empty string.    *)
(***************************************************************************)
EXTENDS Naturals, Sequences

DetailTypes == {"instantiate", "store_code"}

(* The indices of the events the loop stops at: it breaks out at the first *)
(* one.                                                                    *)
Matching(events) == {i \in DOMAIN events : events[i].type \in DetailTypes}
LastMatching(events) ==   \* mutant: the loop does not break out
    CHOOSE i \in Matching(events) : \A j \in Matching(events) : j <= i
FirstMatching(events) ==
    CHOOSE i \in Matching(events) : \A j \in Matching(events) : i <= j

(* eventFound is false, or both strings are empty: an error.               *)
ExtractErr(events) ==
    \/ Matching(events) = {}
    \/ LET e == events[FirstMatching(events)] IN e.code = 0 /\ e.addr = 0

ExtractResultTxDetails(events) ==
    IF ExtractErr(events) THEN [code |-> 0, addr |-> 0]
    ELSE LET e == events[FirstMatching(events)]
         IN  [code |-> e.code, addr |-> e.addr]

(* strconv.ParseUint of a raw code id: the empty string is an error, and a *)
(* chain that sets the attribute sets it to a number.                      *)
ParseErr(rawCode) == rawCode = 0

=============================================================================
