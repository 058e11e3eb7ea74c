------------------------------- MODULE MCPlans -------------------------------
(***************************************************************************)
(* An instance of Plans for TLC: an earlier Create, returned, has left     *)
(* plan 1 with some status in the store, at time 0.                        *)
(***************************************************************************)
EXTENDS Plans, TLC

WarmInit ==
  /\ \E status \in PlanStatus :
       items = (1 :> [NoPlan EXCEPT !.status = status, !.due = DefaultDays])
  /\ seq = 1 /\ now = 0
  /\ pc = [r \in Requests |-> "idle"]
  /\ req = [r \in Requests |-> NoRequest]
  /\ plan = [r \in Requests |-> NoPlan]
  /\ reply = [r \in Requests |-> "none"]
  /\ cancelled = {}

WarmSpec == WarmInit /\ [][Next]_vars

symmetry == Permutations(Requests)

==============================================================================
