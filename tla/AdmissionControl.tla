--------------------------- MODULE AdmissionControl ---------------------------
(***************************************************************************)
(* What the backend's admission gauge promises, without its lock, its      *)
(* counter or its handler steps: at most Capacity requests are in service  *)
(* at a time, a request is turned away only when all Capacity places are   *)
(* taken, and a place comes back only when its request leaves or the whole *)
(* process dies.                                                           *)
(***************************************************************************)
EXTENDS Naturals, FiniteSets

CONSTANTS Reqs, Capacity

VARIABLES inService,    \* requests that own a place
          refused       \* requests answered "backend queue full"

acVars == <<inService, refused>>

Init == inService = {} /\ refused = {}

Admit(r) ==
  /\ r \notin inService \cup refused
  /\ Cardinality(inService) < Capacity
  /\ inService' = inService \cup {r}
  /\ UNCHANGED refused

Refuse(r) ==
  /\ r \notin inService
  /\ Cardinality(inService) = Capacity
  /\ refused' = refused \cup {r}
  /\ UNCHANGED inService

Leave(r) ==
  /\ r \in inService
  /\ inService' = inService \ {r}
  /\ UNCHANGED refused

ProcessDies ==
  /\ inService' = {}
  /\ UNCHANGED refused

Next == (\E r \in Reqs : Admit(r) \/ Refuse(r) \/ Leave(r)) \/ ProcessDies

Spec == Init /\ [][Next]_acVars
===============================================================================
