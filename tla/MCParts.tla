------------------------------ MODULE MCParts ------------------------------
(* The smaller components, which share no state: each behaviour is one of   *)
(* one component, the others stay in their first state.                     *)
EXTENDS DeviceGroups, Wall, ConnectionPool, ErrorQueue, AgentHelper

CONSTANT Mixtures  \* sets of errors; those of one behaviour are in one of them

VARIABLE part

mcVars == <<groupsVars, wallVars, poolVars, errorVars, helperVars, part>>

TypeOK == GroupsTypeOK /\ WallTypeOK /\ PoolTypeOK /\ ErrorsTypeOK /\ HelperTypeOK

MCInit ==
  /\ GroupsInit /\ WallInit /\ PoolInit /\ ErrorsInit /\ HelperInit
  /\ part \in {"groups", "wall", "pool", "errors", "helper"}
  /\ part # "wall" => tileCount = 1 /\ deviceOrder = <<>> /\ folded = {}
  /\ part # "helper" => \A t \in Tasks : operation[t] = "install"

Known == reported \cup stored \cup gone \cup Queued \cup ToSet(adding)
LargeSeq == SetToSeq(Large)

\* A bound: four errors make too many states, three are not enough for both
\* limits and an error within them.  Which large error is which makes no
\* difference, so they come about in one order.
FewErrors ==
  \E errors \in Mixtures :
    /\ Known \subseteq errors
    /\ \A i, j \in DOMAIN LargeSeq :
         i < j /\ LargeSeq[j] \in Known => LargeSeq[i] \in Known \cup (Large \ errors)

Only(name, step, others) == part = name /\ step /\ UNCHANGED <<others, part>>

MCNext ==
  \/ Only("groups", GroupsNext, <<wallVars, poolVars, errorVars, helperVars>>)
  \/ Only("wall", WallNext, <<groupsVars, poolVars, errorVars, helperVars>>)
  \/ Only("pool", PoolNext, <<groupsVars, wallVars, errorVars, helperVars>>)
  \/ Only("errors", ErrorsNext /\ FewErrors', <<groupsVars, wallVars, poolVars, helperVars>>)
  \/ Only("helper", HelperNext, <<groupsVars, wallVars, poolVars, errorVars>>)

\* A served request runs on, and the queues of PostgreSQL's locks and of pgxpool
\* are FIFO; the question of UAC, the pipe, the download and the programs that a
\* helper runs have time limits.
MCSpec ==
  /\ MCInit /\ [][MCNext]_mcVars
  /\ \A r \in Calls : SF_groupsVars(part = "groups" /\ GroupStep(r))
  /\ WF_poolVars(part = "pool" /\ Grant)
  /\ \A u \in Users :
       /\ SF_poolVars(part = "pool" /\ UserStep(u))
       /\ WF_poolVars(part = "pool" /\ HasDeadline(u) /\ GiveUp(u))
  /\ \A t \in Tasks :
       /\ WF_helperVars(part = "helper" /\ ClientStep(t))
       /\ WF_helperVars(part = "helper" /\ HelperStep(t))

-----------------------------------------------------------------------------
\* Invariant: no circle of requests waits for itself, neither for the rows that
\* putDeviceGroup, deleteDeviceGroup and deleteDevice lock nor for connections
\* and the advisory lock (prepareEnrollmentAgent, deleteDevice, meshCentralEvent).
NoCircularWait == SomeCallGoesOn /\ NoHoldAndWait

\* Liveness: every request on these rows and connections ends, and keeps
\* neither a lock nor a connection (the same functions of the code).
RequestsEnd == GroupCallsAreAnswered /\ EveryConnectionComesBack

=============================================================================
