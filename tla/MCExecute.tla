----------------------------- MODULE MCExecute ------------------------------
(***************************************************************************)
(* Instances for TLC of what stands before and beside the executor: the    *)
(* token buckets of RateLimit, the endpoint with its request cache         *)
(* (ExecuteEndpoint), and the schema caches of server and client           *)
(* (SchemaCache).  They share nothing, so a behaviour is of one of them    *)
(* and the others stay as they are.                                        *)
(***************************************************************************)
EXTENDS RateLimit, SchemaCache, ExecuteEndpoint, TLC

CONSTANTS alice, t1, t2, t3, p1, p2, p3, bad

VARIABLE about   \* which of the three the behaviour is of

OneUser      == {alice}
ThreeThreads == {t1, t2, t3}
ValidPlans   == {p1, p2, p3}
AllPlans     == ValidPlans \cup {bad}
BadPlan      == {bad}

Symmetry == Permutations(ThreeThreads) \cup Permutations(ValidPlans)
              \cup Permutations(SchemaHosts) \cup Permutations(SchemaThreads)

MCInit == /\ about \in {"limits", "plans", "schemas"}
          /\ Init /\ EndpointInit /\ SchemaInit

MCNext ==
  /\ UNCHANGED about
  /\ \/ about = "limits" /\ Next /\ UNCHANGED <<endpointVars, schemaVars>>
     \/ about = "plans" /\ EndpointNext /\ UNCHANGED <<vars, schemaVars>>
     \/ about = "schemas" /\ SchemaNext /\ UNCHANGED <<vars, endpointVars>>

MCSpec == MCInit /\ [][MCNext]_<<about, vars, endpointVars, schemaVars>>

=============================================================================
