--------------------------- MODULE AgentEnrollment ---------------------------
(***************************************************************************)
(* How an activated device gets its MeshAgent, and how the agent is bound  *)
(* to the device: prepareEnrollmentAgent, downloadEnrollmentAgent,         *)
(* meshCentralEvent, ensurePermanentMesh and deleteDevice in               *)
(* internal/server/app.go, against PostgreSQL, the file of each device's   *)
(* agent and the device groups of MeshCentral.                             *)
(*                                                                         *)
(* A handler is a sequence of database statements and MeshCentral calls,   *)
(* and other handlers run between any two of them; a call may fail, may    *)
(* take effect although it fails, and the server may stop at any time.     *)
(* Activation shows that activations and deletions of a device take effect *)
(* one after the other, so here each is a single step.                     *)
(***************************************************************************)
CONSTANTS
  Devices,   \* devices, named by their installation_id
  Nodes,     \* agent identities (NodeIDs) of MeshCentral
  Groups,    \* device groups (mesh ids) MeshCentral may create
  Handlers,  \* requests being served at one time
  None

ASSUME NoneAssumption == None \notin Devices \cup Nodes \cup Groups \cup Handlers

VARIABLES
  enrolled, deleted,  \* devices with a row; devices with deleted_at
  status,             \* devices.status
  node, mesh,         \* devices.node_id and devices.mesh_id
  row,                \* enrollment_downloads: the agent file described, or None
  valid,              \* devices whose download ticket has not expired
  file,               \* the agent file on disk, named by its group
  permanent,          \* setting meshcentral.permanent_mesh_id
  advisory,           \* session advisory locks of prepareEnrollmentAgent
  created, groups,    \* MeshCentral: groups ever created, groups that exist
  home,               \* MeshCentral: the group each agent is in
  origin,             \* the group whose agent file installed each agent
  pc, dev, agent, sent, grp
    \* handlers: next statement, device, agent and group of the event, and the
    \* group (or agent file) the handler has read or created

dbVars      == <<enrolled, deleted, status, node, mesh, row, valid, permanent>>
meshVars    == <<created, groups, home, origin>>
handlerVars == <<pc, dev, agent, sent, grp>>
vars == <<dbVars, file, advisory, meshVars, handlerVars>>

PreparePcs == {"lock", "read", "cache", "addGroup", "saveGroup", "download", "ticket"}
EventPcs   == {"bind", "findPool", "addPool", "savePool", "move", "saveMesh"}

TypeOK ==
  /\ enrolled \subseteq Devices /\ deleted \subseteq enrolled
  /\ status \in [Devices -> {None, "pending", "offline", "online", "deleted"}]
  /\ node \in [Devices -> Nodes \cup {None}]
  /\ mesh \in [Devices -> Groups \cup {None}]
  /\ row \in [Devices -> Groups \cup {None}]
  /\ valid \subseteq Devices
  /\ file \in [Devices -> Groups \cup {None}]
  /\ permanent \in Groups \cup {None}
  /\ advisory \in [Devices -> Handlers \cup {None}]
  /\ created \subseteq Groups /\ groups \subseteq created
  /\ home \in [Nodes -> Groups \cup {None}]
  /\ origin \in [Nodes -> Groups \cup {None}]
  /\ pc \in [Handlers -> {"idle"} \cup PreparePcs \cup EventPcs]
  /\ dev \in [Handlers -> Devices \cup {None}]
  /\ agent \in [Handlers -> Nodes \cup {None}]
  /\ sent \in [Handlers -> Groups \cup {None}]
  /\ grp \in [Handlers -> Groups \cup {None}]

Init ==
  /\ enrolled = {} /\ deleted = {}
  /\ status = [d \in Devices |-> None]
  /\ node = [d \in Devices |-> None]
  /\ mesh = [d \in Devices |-> None]
  /\ row = [d \in Devices |-> None]
  /\ valid = {}
  /\ file = [d \in Devices |-> None]
  /\ permanent = None
  /\ advisory = [d \in Devices |-> None]
  /\ created = {} /\ groups = {}
  /\ home = [n \in Nodes |-> None]
  /\ origin = [n \in Nodes |-> None]
  /\ pc = [h \in Handlers |-> "idle"]
  /\ dev = [h \in Handlers |-> None]
  /\ agent = [h \in Handlers |-> None]
  /\ sent = [h \in Handlers |-> None]
  /\ grp = [h \in Handlers |-> None]

Active == enrolled \ deleted

-----------------------------------------------------------------------------
Goto(h, label) == pc' = [pc EXCEPT ![h] = label]

\* The handler answers; its deferred pg_advisory_unlock runs.
Finish(h) ==
  /\ pc' = [pc EXCEPT ![h] = "idle"]
  /\ dev' = [dev EXCEPT ![h] = None]
  /\ agent' = [agent EXCEPT ![h] = None]
  /\ sent' = [sent EXCEPT ![h] = None]
  /\ grp' = [grp EXCEPT ![h] = None]
  /\ advisory' = [d \in Devices |-> IF advisory[d] = h THEN None ELSE advisory[d]]

\* An error answer: a statement or call has failed and changed nothing, or the
\* server has stopped (its database connections are closed, its locks freed).
Fail(h) ==
  /\ pc[h] # "idle"
  /\ Finish(h)
  /\ UNCHANGED <<dbVars, file, meshVars>>

\* AddDeviceGroup of the MeshCentral controller.
AddDeviceGroup(g) ==
  /\ g \in Groups \ created
  /\ created' = created \cup {g}
  /\ groups' = groups \cup {g}

\* RemoveDeviceGroup, whose own failure is ignored by the callers.
RemoveDeviceGroup(g) ==
  /\ groups' \in {groups, groups \ {g}}
  /\ home' = [n \in Nodes |-> IF home[n] \in groups' THEN home[n] ELSE None]
  /\ UNCHANGED <<created, origin>>

-----------------------------------------------------------------------------
(* The life of a device (each one transaction, see Activation). *)

\* activateClient with an unused key: a device is created or taken over, with
\* its node, mesh and token columns as they were, and is no longer deleted.
ActivateNew(d) ==
  /\ enrolled' = enrolled \cup {d}
  /\ deleted' = deleted \ {d}
  /\ status' = [status EXCEPT ![d] = IF node[d] = None THEN "pending" ELSE "offline"]
  /\ UNCHANGED <<node, mesh, row, valid, permanent, file, advisory, meshVars,
                 handlerVars>>

\* deleteDevice waits for the advisory lock of a running preparation.
DeleteDevice(d) ==
  /\ d \in Active
  /\ advisory[d] = None
  /\ deleted' = deleted \cup {d}
  /\ status' = [status EXCEPT ![d] = "deleted"]
  /\ row' = [row EXCEPT ![d] = None]
  /\ valid' = valid \ {d}
  /\ UNCHANGED <<enrolled, node, mesh, permanent, file, advisory, meshVars,
                 handlerVars>>

\* expires_at of a ticket passes.
TicketExpires(d) ==
  /\ d \in valid
  /\ valid' = valid \ {d}
  /\ UNCHANGED <<enrolled, deleted, status, node, mesh, row, permanent, file,
                 advisory, meshVars, handlerVars>>

\* The client fetches the file of its ticket (downloadEnrollmentAgent), checks
\* its digest and installs it: a new agent appears in the file's group.
InstallAgent(d, n) ==
  /\ d \in valid
  /\ row[d] = file[d]
  /\ origin[n] = None
  /\ file[d] \in groups
  /\ origin' = [origin EXCEPT ![n] = file[d]]
  /\ home' = [home EXCEPT ![n] = file[d]]
  /\ UNCHANGED <<dbVars, file, advisory, created, groups, handlerVars>>

-----------------------------------------------------------------------------
(* prepareEnrollmentAgent *)

\* authenticateDevice: the token of a deleted device answers 410.
BeginPrepare(h, d) ==
  /\ pc[h] = "idle"
  /\ d \in Active
  /\ dev' = [dev EXCEPT ![h] = d]
  /\ Goto(h, "lock")
  /\ UNCHANGED <<dbVars, file, advisory, meshVars, agent, sent, grp>>

\* Mutant: the preparation runs without the lock.
TryLockNothing(h) ==
  /\ pc[h] = "lock"
  /\ Goto(h, "read")
  /\ UNCHANGED <<dbVars, file, advisory, meshVars, dev, agent, sent, grp>>

\* pg_try_advisory_lock does not wait: 409 when another holds it.
TryLock(h) ==
  /\ pc[h] = "lock"
  /\ advisory[dev[h]] = None
  /\ advisory' = [advisory EXCEPT ![dev[h]] = h]
  /\ Goto(h, "read")
  /\ UNCHANGED <<dbVars, file, meshVars, dev, agent, sent, grp>>

\* The device is read again under the lock: 410 when it has been deleted.
ReadDevice(h) ==
  /\ pc[h] = "read"
  /\ dev[h] \notin deleted
  /\ grp' = [grp EXCEPT ![h] = mesh[dev[h]]]
  /\ Goto(h, "cache")
  /\ UNCHANGED <<dbVars, file, advisory, meshVars, dev, agent, sent>>

\* A file whose digest is the recorded one is offered again as it is, unless it
\* cannot be read.
ReadCache(h) ==
  LET d == dev[h]
  IN /\ pc[h] = "cache"
     /\ \/ /\ row[d] # None /\ row[d] = file[d]
           /\ grp' = [grp EXCEPT ![h] = row[d]]
           /\ Goto(h, "ticket")
        \/ /\ Goto(h, IF grp[h] = None THEN "addGroup" ELSE "download")
           /\ UNCHANGED grp
     /\ UNCHANGED <<dbVars, file, advisory, meshVars, dev, agent, sent>>

\* Mutant: once there is a permanent group, devices are prepared in it.
EnrollInPool(h, g) ==
  /\ pc[h] = "addGroup"
  /\ \/ permanent = None /\ AddDeviceGroup(g)
     \/ permanent = g /\ UNCHANGED <<created, groups>>
  /\ grp' = [grp EXCEPT ![h] = g]
  /\ Goto(h, "saveGroup")
  /\ UNCHANGED <<dbVars, file, advisory, home, origin, dev, agent, sent>>

AddEnrollmentGroup(h, g) ==
  /\ pc[h] = "addGroup"
  /\ AddDeviceGroup(g)
  /\ grp' = [grp EXCEPT ![h] = g]
  /\ Goto(h, "saveGroup")
  /\ UNCHANGED <<dbVars, file, advisory, home, origin, dev, agent, sent>>

\* UPDATE devices SET mesh_id: on an error the group is removed again, and the
\* error may hide an update that was made.
SaveEnrollmentGroup(h) ==
  LET saved == [mesh EXCEPT ![dev[h]] = grp[h]]
  IN /\ pc[h] = "saveGroup"
     /\ \/ /\ mesh' = saved
           /\ Goto(h, "download")
           /\ UNCHANGED <<meshVars, advisory, dev, agent, sent, grp>>
        \/ /\ mesh' \in {mesh, saved}
           /\ RemoveDeviceGroup(grp[h])
           /\ Finish(h)
     /\ UNCHANGED <<enrolled, deleted, status, node, row, valid, permanent, file>>

\* MeshCentral builds the agent of a group; it replaces the file on disk.
DownloadAgent(h) ==
  /\ pc[h] = "download"
  /\ grp[h] \in groups
  /\ file' = [file EXCEPT ![dev[h]] = grp[h]]
  /\ Goto(h, "ticket")
  /\ UNCHANGED <<dbVars, advisory, meshVars, dev, agent, sent, grp>>

\* Mutant: the wrong value is written.
IssueTicketOfDevice(h) ==
  /\ pc[h] = "ticket"
  /\ row' = [row EXCEPT ![dev[h]] = dev[h]]
  /\ valid' = valid \cup {dev[h]}
  /\ Finish(h)
  /\ UNCHANGED <<enrolled, deleted, status, node, mesh, permanent, file, meshVars>>

\* respondWithEnrollmentAgent: the ticket is written and sent.
IssueTicket(h) ==
  /\ pc[h] = "ticket"
  /\ row' = [row EXCEPT ![dev[h]] = grp[h]]
  /\ valid' = valid \cup {dev[h]}
  /\ Finish(h)
  /\ UNCHANGED <<enrolled, deleted, status, node, mesh, permanent, file, meshVars>>

Prepare(h) ==
  \/ TryLock(h) \/ ReadDevice(h) \/ ReadCache(h)
  \/ \E g \in Groups : AddEnrollmentGroup(h, g)
  \/ SaveEnrollmentGroup(h) \/ DownloadAgent(h) \/ IssueTicket(h)

-----------------------------------------------------------------------------
(* meshCentralEvent *)

\* agent_heartbeat and agent_offline: one UPDATE, no row changed when the node
\* is not bound to an active device.
Presence(n, new) ==
  LET bound == {d \in Active : node[d] = n}
  IN /\ home[n] # None
     /\ bound # {}
     /\ status' = [d \in Devices |-> IF d \in bound THEN new ELSE status[d]]
     /\ UNCHANGED <<enrolled, deleted, node, mesh, row, valid, permanent, file,
                    advisory, meshVars, handlerVars>>

\* agent_stable names the agent's group as the plugin saw it, which may be the
\* one it has left: the event waits for its retries, or is a repetition.
BeginStable(h, n, g) ==
  /\ pc[h] = "idle"
  /\ home[n] # None
  /\ g \in {home[n], origin[n]}
  /\ agent' = [agent EXCEPT ![h] = n]
  /\ sent' = [sent EXCEPT ![h] = g]
  /\ Goto(h, "bind")
  /\ UNCHANGED <<dbVars, file, advisory, meshVars, dev, grp>>

\* Mutant: any device without agent will do.
CandidatesPending(n, g) == {d \in Active : node[d] \in {n, None}}

\* The device of the agent, or the device still without agent of that group.
Candidates(n, g) ==
  {d \in Active : node[d] = n \/ (node[d] = None /\ mesh[d] = g)}

\* One transaction: the row is locked, then updated, unless another active
\* device has that node (409).  No candidate: 409, or ignored when deleted.
Bind(h) ==
  /\ pc[h] = "bind"
  /\ \E d \in Candidates(agent[h], sent[h]) :
       /\ \A e \in Active \ {d} : node[e] # agent[h]
       /\ node' = [node EXCEPT ![d] = agent[h]]
       /\ status' = [status EXCEPT ![d] = "online"]
       /\ dev' = [dev EXCEPT ![h] = d]
       /\ Goto(h, "findPool")
  /\ UNCHANGED <<enrolled, deleted, mesh, row, valid, permanent, file, advisory,
                 meshVars, agent, sent, grp>>

\* ensurePermanentMesh
FindPool(h) ==
  /\ pc[h] = "findPool"
  /\ grp' = [grp EXCEPT ![h] = permanent]
  /\ Goto(h, IF permanent = None THEN "addPool" ELSE "move")
  /\ UNCHANGED <<dbVars, file, advisory, meshVars, dev, agent, sent>>

AddPool(h, g) ==
  /\ pc[h] = "addPool"
  /\ AddDeviceGroup(g)
  /\ grp' = [grp EXCEPT ![h] = g]
  /\ Goto(h, "savePool")
  /\ UNCHANGED <<dbVars, file, advisory, home, origin, dev, agent, sent>>

\* Mutant: ON CONFLICT DO UPDATE.
SavePoolAnyway(h) ==
  /\ pc[h] = "savePool"
  /\ permanent' = grp[h]
  /\ Goto(h, "move")
  /\ UNCHANGED <<enrolled, deleted, status, node, mesh, row, valid, file, meshVars,
                 advisory, dev, agent, sent, grp>>

\* INSERT ... ON CONFLICT DO NOTHING: whoever comes second removes the group it
\* has created and takes the recorded one.  An error removes it as well, and
\* may hide an insertion that was made.
SavePool(h) ==
  LET saved == IF permanent = None THEN grp[h] ELSE permanent
  IN /\ pc[h] = "savePool"
     /\ \/ /\ permanent = None
           /\ permanent' = grp[h]
           /\ Goto(h, "move")
           /\ UNCHANGED <<meshVars, advisory, dev, agent, sent, grp>>
        \/ /\ permanent # None
           /\ permanent' = permanent
           /\ RemoveDeviceGroup(grp[h])
           /\ grp' = [grp EXCEPT ![h] = permanent]
           /\ Goto(h, "move")
           /\ UNCHANGED <<advisory, dev, agent, sent>>
        \/ /\ permanent' \in {permanent, saved}
           /\ RemoveDeviceGroup(grp[h])
           /\ Finish(h)
     /\ UNCHANGED <<enrolled, deleted, status, node, mesh, row, valid, file>>

\* MoveToDeviceGroup, unless the event says the agent is there already.
Move(h) ==
  /\ pc[h] = "move"
  /\ \/ /\ sent[h] = grp[h]
        /\ UNCHANGED home
     \/ /\ sent[h] # grp[h]
        /\ grp[h] \in groups
        /\ home[agent[h]] # None
        /\ home' = [home EXCEPT ![agent[h]] = grp[h]]
  /\ Goto(h, "saveMesh")
  /\ UNCHANGED <<dbVars, file, advisory, created, groups, origin, dev, agent, sent,
                 grp>>

SaveMesh(h) ==
  /\ pc[h] = "saveMesh"
  /\ mesh' = [mesh EXCEPT ![dev[h]] = grp[h]]
  /\ Finish(h)
  /\ UNCHANGED <<enrolled, deleted, status, node, row, valid, permanent, file,
                 meshVars>>

Stable(h) ==
  \/ Bind(h) \/ FindPool(h) \/ \E g \in Groups : AddPool(h, g)
  \/ SavePool(h) \/ Move(h) \/ SaveMesh(h)

-----------------------------------------------------------------------------
Next ==
  \/ \E d \in Devices : ActivateNew(d) \/ DeleteDevice(d) \/ TicketExpires(d)
  \/ \E d \in Devices, n \in Nodes : InstallAgent(d, n)
  \/ \E n \in Nodes, new \in {"online", "offline"} : Presence(n, new)
  \/ \E h \in Handlers :
       \/ \E d \in Devices : BeginPrepare(h, d)
       \/ \E n \in Nodes, g \in Groups : BeginStable(h, n, g)
       \/ Prepare(h) \/ Stable(h) \/ Fail(h)

Spec == Init /\ [][Next]_vars

-----------------------------------------------------------------------------
(* Properties *)

\* The group an agent comes from tells its device: a device that waits for its
\* agent shares its group with no other device, and that group is not the
\* permanent one.  meshCentralEvent binds the first row it finds and relies on
\* there being only one.
GroupTellsDevice ==
  \A d \in Devices : node[d] = None /\ mesh[d] # None =>
    /\ mesh[d] # permanent
    /\ \A e \in Devices \ {d} : mesh[e] # mesh[d]

\* A device is bound to an agent that was installed with the file made for
\* that device, whatever the event says of the agent's group.
BoundToOwnAgent ==
  \A d \in Devices : node[d] # None =>
    \A e \in Devices \ {d} : file[e] # origin[node[d]] /\ node[e] # node[d]

\* A deletion is complete and final.  A preparation that was running when the
\* device was deleted leaves no ticket behind; events that arrive late do not
\* bring the device back, and no other device ever looks deleted.
DeletionIsFinal ==
  \A d \in enrolled :
    /\ d \in deleted => row[d] = None /\ d \notin valid
    /\ d \in deleted <=> status[d] = "deleted"

\* What is recorded as a device's permanent group is where its agent is.
RecordedGroupIsReal ==
  \A d \in Devices : permanent \in groups /\ mesh[d] = permanent =>
    home[node[d]] = permanent

\* Action property: there is one permanent group.  It is never replaced,
\* handlers that have all found none and created their own agree on it before
\* they move an agent, and no failed move is recorded as done
\* (ensurePermanentMesh, meshCentralEvent).
OnePermanentGroup ==
  [][/\ permanent # None => permanent' = permanent
     /\ \A h \in Handlers : pc'[h] = "move" => grp'[h] = permanent'
     /\ RecordedGroupIsReal']_vars

=============================================================================
