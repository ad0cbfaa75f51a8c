--------------------------- MODULE SampleContract ---------------------------
(***************************************************************************)
(* What a sampler plugin call promises, as one step: it raises, or it      *)
(* returns for every row the first `size` draws of that row's own stream.  *)
(* No buffer, no worker and no order of rows is visible here.              *)
(***************************************************************************)
EXTENDS SampleArgs

VARIABLES call, outcome

contractVars == <<call, outcome>>

Pending == [status |-> "pending", rows |-> <<>>]
Raised == [status |-> "raised", rows |-> <<>>]
Returned(rows) == [status |-> "done", rows |-> rows]

ContractInit == call \in CallType /\ WellFormed(call) /\ outcome = Pending

Return ==
  /\ outcome = Pending
  /\ ~ MustRaise(call)
  /\ \E root \in RootsOf(call) : outcome' = Returned(Owed(call, root))
  /\ UNCHANGED call

Raise ==
  /\ outcome = Pending
  /\ MustRaise(call) \/ MayRaise(call)
  /\ outcome' = Raised
  /\ UNCHANGED call

ContractNext == Return \/ Raise

ContractSpec == ContractInit /\ [][ContractNext]_contractVars

=============================================================================
