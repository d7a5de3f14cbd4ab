------------------------------ MODULE MCBaselines ------------------------------
(***************************************************************************)
(* Instances of BaselineServers and BaselineClient for TLC.  A behaviour   *)
(* is one of the servers or one of the client: the two sides only share    *)
(* that requests arrive, at any time.                                      *)
(***************************************************************************)
EXTENDS BaselineServers, TLC

CONSTANTS Rates, StopAt, Latencies, ChanCap, MaxSent

VARIABLES
  side,
  currentRate, totalRequests, scenario, lastRate, sending, latencyChan, window,
  procs, maxKey, minKey, processed, disturbed

clientState ==
  <<currentRate, totalRequests, scenario, lastRate, sending, latencyChan,
    window, procs, maxKey, minKey, processed, disturbed>>

Client == INSTANCE BaselineClient

PerProgram(p, c, l) ==
  [x \in Programs |-> CASE x = "RandomTwoPoint" -> p [] x = "RoundRobin" -> c
                        [] x = "RL" -> l]
RequestBound == PerProgram(1, 2, 2)
ReportBound  == PerProgram(1, 1, 2)
FaultBound   == PerProgram(1, 0, 1)
Symmetry     == Permutations(Reqs)

MCInit ==
  /\ Init /\ Client!Init
  /\ side \in {"servers", "client"}
  /\ side = "client" => program = "RL"

MCNext ==
  \/ side = "servers" /\ Next /\ UNCHANGED <<side, clientState>>
  \/ side = "client" /\ Client!Next /\ UNCHANGED <<side, vars>>

MCSpec == MCInit /\ [][MCNext]_<<side, vars, clientState>>

\* BaselineClient's property: the extrema in Redis bound every value a window
\* had, unless two windows were processed at once.
ExtremaCover == Client!ExtremaCover
=============================================================================
