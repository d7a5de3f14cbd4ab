--------------------------- MODULE DeliveryContract ---------------------------
(***************************************************************************)
(* What a load balancer promises about one request, whichever backend it   *)
(* picks and however calls time out: the query reaches the database at     *)
(* most `limit' times, the client hears at most one answer, and hears "ok" *)
(* only if the query has run.  CQS keeps it with limit 1; the baselines,   *)
(* which send a request again after an error, with their attempt count.    *)
(***************************************************************************)
EXTENDS Naturals

CONSTANT Reqs

VARIABLES limit,        \* attempts a request may cost the database
          executed,     \* how often each request's query was handed over
          answer        \* what each client heard

dcVars == <<limit, executed, answer>>

Init ==
  /\ limit \in Nat
  /\ executed = [r \in Reqs |-> 0]
  /\ answer = [r \in Reqs |-> "none"]

\* An attempt may still run after the client was told that it failed.
Execute(r) ==
  /\ executed[r] < limit
  /\ executed' = [executed EXCEPT ![r] = @ + 1]
  /\ UNCHANGED <<limit, answer>>

Answer(r) ==
  /\ answer[r] = "none"
  /\ \E a \in {"ok", "failed"} :
       /\ a = "ok" => executed[r] > 0
       /\ answer' = [answer EXCEPT ![r] = a]
  /\ UNCHANGED <<limit, executed>>

\* The balancer dies: every client that waits loses its connection.
BalancerDies ==
  /\ \E W \in SUBSET {r \in Reqs : answer[r] = "none"} :
       answer' = [r \in Reqs |-> IF r \in W THEN "failed" ELSE answer[r]]
  /\ UNCHANGED <<limit, executed>>

Next == (\E r \in Reqs : Execute(r) \/ Answer(r)) \/ BalancerDies

Spec == Init /\ [][Next]_dcVars
===============================================================================
