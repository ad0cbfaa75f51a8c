--------------------------- MODULE ValueContract ---------------------------
(***************************************************************************)
(* What a value-keyed plugin call promises, as one step: it raises exactly *)
(* when an input is invalid, whatever else is on the row, and otherwise    *)
(* answers every row from that row alone.  Which route the parameters took *)
(* does not show.                                                          *)
(***************************************************************************)
EXTENDS ValueArgs

VARIABLES call, outcome

contractVars == <<call, outcome>>

Pending == [status |-> "pending", rows |-> <<>>]
Raised == [status |-> "raised", rows |-> <<>>]
Returned(rows) == [status |-> "done", rows |-> rows]

ContractInit == call \in CallType /\ WellFormed(call) /\ outcome = Pending

Return ==
  /\ outcome = Pending
  /\ ~ Invalid(call)
  /\ outcome' = Returned(Owed(call))
  /\ UNCHANGED call

Raise ==
  /\ outcome = Pending
  /\ Invalid(call)
  /\ outcome' = Raised
  /\ UNCHANGED call

ContractNext == Return \/ Raise

ContractSpec == ContractInit /\ [][ContractNext]_contractVars

=============================================================================
