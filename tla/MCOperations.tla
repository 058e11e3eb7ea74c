---------------------------- MODULE MCOperations ----------------------------
(***************************************************************************)
(* An instance of Operations for TLC: an earlier Create, returned and      *)
(* audited, has left record 1 in the store.                                *)
(***************************************************************************)
EXTENDS Operations, TLC

CONSTANT r0             \* the earlier Create

WarmInit ==
  /\ items = (1 :> NewRecord) /\ history = << >> /\ sequence = 1
  /\ events = << [id |-> 1, kind |-> "create", by |-> r0] >>
  /\ pc = [r \in Requests |-> IF r = r0 THEN "done" ELSE "idle"]
  /\ req = [r \in Requests |-> IF r = r0 THEN [NoRequest EXCEPT !.id = 1, !.complete = TRUE]
                                         ELSE NoRequest]
  /\ record = [r \in Requests |-> NewRecord]
  /\ reply = [r \in Requests |-> IF r = r0 THEN "ok" ELSE "none"]
  /\ ended = {}

WarmSpec == WarmInit /\ [][Next]_vars

symmetry == Permutations(Requests \ {r0})

==============================================================================
