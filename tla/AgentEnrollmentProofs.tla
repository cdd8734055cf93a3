------------------------ MODULE AgentEnrollmentProofs ------------------------
(* Proofs about AgentEnrollment, for any devices, agents, groups and handlers. *)
EXTENDS AgentEnrollment, TLAPS

-----------------------------------------------------------------------------
(* The inductive invariant *)

\* What a handler has to hand when it executes its next statement.
Arguments ==
  \A h \in Handlers :
    /\ pc[h] \in PreparePcs => dev[h] \in enrolled
    /\ pc[h] \in {"saveGroup", "download", "ticket", "savePool"} => grp[h] \in Groups
    /\ pc[h] \in EventPcs => agent[h] \in Nodes /\ sent[h] \in Groups
    /\ pc[h] \in EventPcs \ {"bind"} =>
         dev[h] \in Devices /\ node[dev[h]] = agent[h]

Typed == TypeOK /\ Arguments

\* A preparation that goes on after the lock holds it, and since it has read the
\* device again under the lock, nobody has deleted the device.
Locks ==
  \A h \in Handlers :
    /\ pc[h] \in PreparePcs \ {"lock"} => advisory[dev[h]] = h
    /\ pc[h] \in PreparePcs \ {"lock", "read"} => dev[h] \notin deleted

\* Nothing but the permanent group is used by two devices: g is no group, the
\* permanent one, or was created to prepare d.
MadeFor(owner, g, d) == g \in {None, permanent} \/ owner[g] = d

\* owner tells for which device a group was created; it is None for groups not
\* created yet and for those meant to be the permanent one.
Owns(owner) ==
  /\ \A g \in Groups : owner[g] # None => g \in created
  /\ permanent # None => permanent \in created /\ owner[permanent] = None
  /\ \A d \in Devices :
       /\ MadeFor(owner, mesh[d], d)
       /\ MadeFor(owner, file[d], d)
       /\ MadeFor(owner, row[d], d)
  /\ \A h \in Handlers :
       /\ pc[h] \in {"cache", "download", "ticket"} => MadeFor(owner, grp[h], dev[h])
       /\ pc[h] = "saveGroup" => owner[grp[h]] = dev[h]
       /\ pc[h] = "savePool" => grp[h] \in created /\ owner[grp[h]] = None
  /\ \A n \in Nodes : origin[n] \in {None, permanent} \/ owner[origin[n]] # None
  /\ \A d \in Devices :
       node[d] # None => origin[node[d]] # None /\ owner[origin[node[d]]] = d

Owners == \E owner \in [Groups -> Devices \cup {None}] : Owns(owner)

\* An agent is in the group it came from or in the permanent one, and so is
\* what an event says of it.
Agents ==
  /\ \A n \in Nodes :
       home[n] \in {None, origin[n], permanent} /\ (origin[n] = None => home[n] = None)
  /\ \A h \in Handlers : pc[h] \in EventPcs =>
       origin[agent[h]] # None /\ sent[h] \in {origin[agent[h]], permanent}

Arrived(n) == permanent \in groups => home[n] = permanent

\* Handlers agree on the permanent group, which no device has before its agent
\* is there; an event that names it was sent by an agent that is there.
Pool ==
  /\ \A d \in Devices : node[d] = None => mesh[d] = None \/ mesh[d] # permanent
  /\ \A h \in Handlers :
       /\ pc[h] \in {"move", "saveMesh"} => permanent # None /\ grp[h] = permanent
       /\ pc[h] \in EventPcs /\ sent[h] = permanent => Arrived(agent[h])
       /\ pc[h] = "saveMesh" => Arrived(agent[h])
  /\ RecordedGroupIsReal

-----------------------------------------------------------------------------
(* Type correctness *)

LEMMA InitType == Init => Typed
  BY DEF Init, Typed, TypeOK, Arguments, PreparePcs, EventPcs

LEMMA StepType == Typed /\ [Next]_vars => Typed'
<1> SUFFICES ASSUME Typed, [Next]_vars
             PROVE  Typed'
  OBVIOUS
<1> USE NoneAssumption
    DEF Typed, TypeOK, Arguments, dbVars, meshVars, handlerVars, PreparePcs, EventPcs,
        Goto, Finish, AddDeviceGroup, RemoveDeviceGroup
<1>1. ASSUME NEW d \in Devices, ActivateNew(d) \/ DeleteDevice(d) \/ TicketExpires(d)
      PROVE  Typed'
  BY <1>1 DEF ActivateNew, DeleteDevice, TicketExpires, Active
<1>2. ASSUME NEW d \in Devices, NEW n \in Nodes, InstallAgent(d, n)
      PROVE  Typed'
  BY <1>2 DEF InstallAgent
<1>3. ASSUME NEW n \in Nodes, NEW new \in {"online", "offline"}, Presence(n, new)
      PROVE  Typed'
  BY <1>3 DEF Presence
<1>4. ASSUME NEW h \in Handlers, NEW d \in Devices, BeginPrepare(h, d)
      PROVE  Typed'
  BY <1>4 DEF BeginPrepare, Active
<1>5. ASSUME NEW h \in Handlers, NEW n \in Nodes, NEW g \in Groups, BeginStable(h, n, g)
      PROVE  Typed'
  BY <1>5 DEF BeginStable
<1>6. ASSUME NEW h \in Handlers, Prepare(h)
      PROVE  Typed'
  <2>1. CASE TryLock(h)
    BY <2>1 DEF TryLock
  <2>2. CASE ReadDevice(h)
    BY <2>2 DEF ReadDevice
  <2>3. CASE ReadCache(h)
    BY <2>3 DEF ReadCache
  <2>4. ASSUME NEW g \in Groups, AddEnrollmentGroup(h, g)
        PROVE  Typed'
    BY <2>4 DEF AddEnrollmentGroup
  <2>5. CASE SaveEnrollmentGroup(h)
    BY <2>5, SMTT(60) DEF SaveEnrollmentGroup
  <2>6. CASE DownloadAgent(h)
    BY <2>6 DEF DownloadAgent
  <2>7. CASE IssueTicket(h)
    BY <2>7 DEF IssueTicket
  <2> QED
    BY <1>6, <2>1, <2>2, <2>3, <2>4, <2>5, <2>6, <2>7 DEF Prepare
<1>7. ASSUME NEW h \in Handlers, Stable(h)
      PROVE  Typed'
  <2>1. CASE Bind(h)
    BY <2>1 DEF Bind, Candidates, Active
  <2>2. CASE FindPool(h)
    BY <2>2 DEF FindPool
  <2>3. ASSUME NEW g \in Groups, AddPool(h, g)
        PROVE  Typed'
    BY <2>3 DEF AddPool
  <2>4. CASE SavePool(h)
    BY <2>4, SMTT(60) DEF SavePool
  <2>5. CASE Move(h)
    BY <2>5 DEF Move
  <2>6. CASE SaveMesh(h)
    BY <2>6 DEF SaveMesh
  <2> QED
    BY <1>7, <2>1, <2>2, <2>3, <2>4, <2>5, <2>6 DEF Stable
<1>8. ASSUME NEW h \in Handlers, Fail(h)
      PROVE  Typed'
  BY <1>8 DEF Fail
<1>9. CASE UNCHANGED vars
  BY <1>9 DEF vars
<1> QED
  BY <1>1, <1>2, <1>3, <1>4, <1>5, <1>6, <1>7, <1>8, <1>9 DEF Next

-----------------------------------------------------------------------------
(* Preparations and deletions *)

LEMMA InitDeletion == Init => Locks /\ DeletionIsFinal
  BY DEF Init, Locks, DeletionIsFinal, PreparePcs

LEMMA StepDeletion ==
  Typed /\ Locks /\ DeletionIsFinal /\ [Next]_vars => Locks' /\ DeletionIsFinal'
<1> SUFFICES ASSUME Typed, Locks, DeletionIsFinal, [Next]_vars
             PROVE  Locks' /\ DeletionIsFinal'
  OBVIOUS
<1> USE NoneAssumption DEF Typed, TypeOK, Arguments, Locks, DeletionIsFinal,
            dbVars, meshVars, handlerVars, PreparePcs, EventPcs, Goto, Finish,
            AddDeviceGroup, RemoveDeviceGroup
<1>1. ASSUME NEW d \in Devices, ActivateNew(d) \/ DeleteDevice(d) \/ TicketExpires(d)
      PROVE  Locks' /\ DeletionIsFinal'
  BY <1>1 DEF ActivateNew, DeleteDevice, TicketExpires, Active
<1>2. ASSUME NEW d \in Devices, NEW n \in Nodes, InstallAgent(d, n)
      PROVE  Locks' /\ DeletionIsFinal'
  BY <1>2 DEF InstallAgent
<1>3. ASSUME NEW n \in Nodes, NEW new \in {"online", "offline"}, Presence(n, new)
      PROVE  Locks' /\ DeletionIsFinal'
  BY <1>3 DEF Presence, Active
<1>4. ASSUME NEW h \in Handlers, NEW d \in Devices, BeginPrepare(h, d)
      PROVE  Locks' /\ DeletionIsFinal'
  BY <1>4 DEF BeginPrepare, Active
<1>5. ASSUME NEW h \in Handlers, NEW n \in Nodes, NEW g \in Groups, BeginStable(h, n, g)
      PROVE  Locks' /\ DeletionIsFinal'
  BY <1>5 DEF BeginStable
<1>6. ASSUME NEW h \in Handlers, Prepare(h)
      PROVE  Locks' /\ DeletionIsFinal'
  <2>1. CASE TryLock(h)
    BY <2>1 DEF TryLock
  <2>2. CASE ReadDevice(h)
    BY <2>2 DEF ReadDevice
  <2>3. CASE ReadCache(h)
    BY <2>3 DEF ReadCache
  <2>4. ASSUME NEW g \in Groups, AddEnrollmentGroup(h, g)
        PROVE  Locks' /\ DeletionIsFinal'
    BY <2>4 DEF AddEnrollmentGroup
  <2>5. CASE SaveEnrollmentGroup(h)
    BY <2>5 DEF SaveEnrollmentGroup
  <2>6. CASE DownloadAgent(h)
    BY <2>6 DEF DownloadAgent
  <2>7. CASE IssueTicket(h)
    BY <2>7 DEF IssueTicket
  <2> QED
    BY <1>6, <2>1, <2>2, <2>3, <2>4, <2>5, <2>6, <2>7 DEF Prepare
<1>7. ASSUME NEW h \in Handlers, Stable(h)
      PROVE  Locks' /\ DeletionIsFinal'
  <2>1. CASE Bind(h)
    BY <2>1 DEF Bind, Candidates, Active
  <2>2. CASE FindPool(h)
    BY <2>2 DEF FindPool
  <2>3. ASSUME NEW g \in Groups, AddPool(h, g)
        PROVE  Locks' /\ DeletionIsFinal'
    BY <2>3 DEF AddPool
  <2>4. CASE SavePool(h)
    BY <2>4 DEF SavePool
  <2>5. CASE Move(h)
    BY <2>5 DEF Move
  <2>6. CASE SaveMesh(h)
    BY <2>6 DEF SaveMesh
  <2> QED
    BY <1>7, <2>1, <2>2, <2>3, <2>4, <2>5, <2>6 DEF Stable
<1>8. ASSUME NEW h \in Handlers, Fail(h)
      PROVE  Locks' /\ DeletionIsFinal'
  BY <1>8 DEF Fail
<1>9. CASE UNCHANGED vars
  BY <1>9 DEF vars
<1> QED
  BY <1>1, <1>2, <1>3, <1>4, <1>5, <1>6, <1>7, <1>8, <1>9 DEF Next

-----------------------------------------------------------------------------
(* Groups and their devices *)

LEMMA InitOwners == Init => Owners /\ Agents /\ Pool
<1> SUFFICES ASSUME Init
             PROVE  Owners /\ Agents /\ Pool
  OBVIOUS
<1>1. Owns([g \in Groups |-> None])
  BY DEF Init, Owns, MadeFor
<1>2. Owners
  BY <1>1 DEF Owners
<1>3. Agents /\ Pool
  BY NoneAssumption DEF Init, Agents, Pool, EventPcs, RecordedGroupIsReal
<1> QED
  BY <1>2, <1>3

LEMMA StepOwners == Typed /\ Owners /\ Agents /\ Pool /\ [Next]_vars => Owners'
<1> SUFFICES ASSUME Typed, Agents, Pool, [Next]_vars,
                    NEW owner \in [Groups -> Devices \cup {None}], Owns(owner)
             PROVE  Owners'
  BY DEF Owners
<1> USE NoneAssumption DEF Typed, TypeOK, Arguments, Owns, MadeFor, Agents, Pool,
            dbVars, meshVars, handlerVars, PreparePcs, EventPcs, Goto, Finish,
            AddDeviceGroup, RemoveDeviceGroup
<1>0. ASSUME NEW h \in Handlers, NEW g \in Groups, AddEnrollmentGroup(h, g)
      PROVE  Owners'
  <2>1. PICK new \in [Groups -> Devices \cup {None}] : new = [owner EXCEPT ![g] = dev[h]]
    BY <1>0 DEF AddEnrollmentGroup
  <2>2. /\ dev[h] \in Devices /\ owner[g] = None /\ g # permanent
        /\ new[g] = dev[h] /\ \A f \in Groups \ {g} : new[f] = owner[f]
    BY <1>0, <2>1 DEF AddEnrollmentGroup
  <2>3. \A f \in Groups, d \in Devices : owner[f] = d => new[f] = d
    BY <2>2
  <2>4. Owns(new)'
    BY <1>0, <2>2, <2>3 DEF AddEnrollmentGroup
  <2> QED
    BY <2>4 DEF Owners
<1> SUFFICES ASSUME ~ \E h \in Handlers, g \in Groups : AddEnrollmentGroup(h, g)
             PROVE  Owns(owner)'
  BY <1>0 DEF Owners
<1>1. ASSUME NEW d \in Devices, ActivateNew(d) \/ DeleteDevice(d) \/ TicketExpires(d)
      PROVE  Owns(owner)'
  BY <1>1 DEF ActivateNew, DeleteDevice, TicketExpires, Active
<1>2. ASSUME NEW d \in Devices, NEW n \in Nodes, InstallAgent(d, n)
      PROVE  Owns(owner)'
  BY <1>2 DEF InstallAgent
<1>3. ASSUME NEW n \in Nodes, NEW new \in {"online", "offline"}, Presence(n, new)
      PROVE  Owns(owner)'
  BY <1>3 DEF Presence, Active
<1>4. ASSUME NEW h \in Handlers, NEW d \in Devices, BeginPrepare(h, d)
      PROVE  Owns(owner)'
  BY <1>4 DEF BeginPrepare, Active
<1>5. ASSUME NEW h \in Handlers, NEW n \in Nodes, NEW g \in Groups, BeginStable(h, n, g)
      PROVE  Owns(owner)'
  BY <1>5 DEF BeginStable
<1>6. ASSUME NEW h \in Handlers, Prepare(h)
      PROVE  Owns(owner)'
  <2>1. CASE TryLock(h)
    BY <2>1 DEF TryLock
  <2>2. CASE ReadDevice(h)
    BY <2>2 DEF ReadDevice
  <2>3. CASE ReadCache(h)
    BY <2>3 DEF ReadCache
  <2>4. ASSUME NEW g \in Groups, AddEnrollmentGroup(h, g)
        PROVE  Owns(owner)'
    BY <2>4
  <2>5. CASE SaveEnrollmentGroup(h)
    BY <2>5 DEF SaveEnrollmentGroup
  <2>6. CASE DownloadAgent(h)
    BY <2>6 DEF DownloadAgent
  <2>7. CASE IssueTicket(h)
    BY <2>7 DEF IssueTicket
  <2> QED
    BY <1>6, <2>1, <2>2, <2>3, <2>4, <2>5, <2>6, <2>7 DEF Prepare
<1>7. ASSUME NEW h \in Handlers, Stable(h)
      PROVE  Owns(owner)'
  <2>1. CASE Bind(h)
    BY <2>1 DEF Bind, Candidates, Active
  <2>2. CASE FindPool(h)
    BY <2>2 DEF FindPool
  <2>3. ASSUME NEW g \in Groups, AddPool(h, g)
        PROVE  Owns(owner)'
    BY <2>3 DEF AddPool
  <2>4. CASE SavePool(h)
    BY <2>4 DEF SavePool
  <2>5. CASE Move(h)
    BY <2>5 DEF Move
  <2>6. CASE SaveMesh(h)
    BY <2>6 DEF SaveMesh
  <2> QED
    BY <1>7, <2>1, <2>2, <2>3, <2>4, <2>5, <2>6 DEF Stable
<1>8. ASSUME NEW h \in Handlers, Fail(h)
      PROVE  Owns(owner)'
  BY <1>8 DEF Fail
<1>9. CASE UNCHANGED vars
  BY <1>9 DEF vars
<1> QED
  <2>1. CASE \E d \in Devices : ActivateNew(d) \/ DeleteDevice(d) \/ TicketExpires(d)
    BY <1>1, <2>1
  <2>2. CASE \E d \in Devices, n \in Nodes : InstallAgent(d, n)
    BY <1>2, <2>2
  <2>3. CASE \E n \in Nodes, new \in {"online", "offline"} : Presence(n, new)
    BY <1>3, <2>3
  <2>4. ASSUME NEW h \in Handlers,
               \/ \E d \in Devices : BeginPrepare(h, d)
               \/ \E n \in Nodes, g \in Groups : BeginStable(h, n, g)
               \/ Prepare(h) \/ Stable(h) \/ Fail(h)
        PROVE  Owns(owner)'
    BY <1>4, <1>5, <1>6, <1>7, <1>8, <2>4
  <2> QED
    BY <1>9, <2>1, <2>2, <2>3, <2>4 DEF Next

LEMMA StepAgents == Typed /\ Agents /\ Pool /\ [Next]_vars => Agents'
<1> SUFFICES ASSUME Typed, Agents, Pool, [Next]_vars
             PROVE  Agents'
  OBVIOUS
<1> USE NoneAssumption DEF Typed, TypeOK, Arguments, Agents, Pool,
            dbVars, meshVars, handlerVars, PreparePcs, EventPcs, Goto, Finish,
            AddDeviceGroup, RemoveDeviceGroup
<1>1. ASSUME NEW d \in Devices, ActivateNew(d) \/ DeleteDevice(d) \/ TicketExpires(d)
      PROVE  Agents'
  BY <1>1 DEF ActivateNew, DeleteDevice, TicketExpires, Active
<1>2. ASSUME NEW d \in Devices, NEW n \in Nodes, InstallAgent(d, n)
      PROVE  Agents'
  BY <1>2 DEF InstallAgent
<1>3. ASSUME NEW n \in Nodes, NEW new \in {"online", "offline"}, Presence(n, new)
      PROVE  Agents'
  BY <1>3 DEF Presence, Active
<1>4. ASSUME NEW h \in Handlers, NEW d \in Devices, BeginPrepare(h, d)
      PROVE  Agents'
  BY <1>4 DEF BeginPrepare, Active
<1>5. ASSUME NEW h \in Handlers, NEW n \in Nodes, NEW g \in Groups, BeginStable(h, n, g)
      PROVE  Agents'
  BY <1>5 DEF BeginStable
<1>6. ASSUME NEW h \in Handlers, Prepare(h)
      PROVE  Agents'
  <2>1. CASE TryLock(h)
    BY <2>1 DEF TryLock
  <2>2. CASE ReadDevice(h)
    BY <2>2 DEF ReadDevice
  <2>3. CASE ReadCache(h)
    BY <2>3 DEF ReadCache
  <2>4. ASSUME NEW g \in Groups, AddEnrollmentGroup(h, g)
        PROVE  Agents'
    BY <2>4 DEF AddEnrollmentGroup
  <2>5. CASE SaveEnrollmentGroup(h)
    BY <2>5 DEF SaveEnrollmentGroup
  <2>6. CASE DownloadAgent(h)
    BY <2>6 DEF DownloadAgent
  <2>7. CASE IssueTicket(h)
    BY <2>7 DEF IssueTicket
  <2> QED
    BY <1>6, <2>1, <2>2, <2>3, <2>4, <2>5, <2>6, <2>7 DEF Prepare
<1>7. ASSUME NEW h \in Handlers, Stable(h)
      PROVE  Agents'
  <2>1. CASE Bind(h)
    BY <2>1 DEF Bind, Candidates, Active
  <2>2. CASE FindPool(h)
    BY <2>2 DEF FindPool
  <2>3. ASSUME NEW g \in Groups, AddPool(h, g)
        PROVE  Agents'
    BY <2>3 DEF AddPool
  <2>4. CASE SavePool(h)
    BY <2>4 DEF SavePool
  <2>5. CASE Move(h)
    BY <2>5 DEF Move
  <2>6. CASE SaveMesh(h)
    BY <2>6 DEF SaveMesh
  <2> QED
    BY <1>7, <2>1, <2>2, <2>3, <2>4, <2>5, <2>6 DEF Stable
<1>8. ASSUME NEW h \in Handlers, Fail(h)
      PROVE  Agents'
  BY <1>8 DEF Fail
<1>9. CASE UNCHANGED vars
  BY <1>9 DEF vars
<1> QED
  BY <1>1, <1>2, <1>3, <1>4, <1>5, <1>6, <1>7, <1>8, <1>9 DEF Next

LEMMA StepPool == Typed /\ Owners /\ Agents /\ Pool /\ [Next]_vars => Pool'
<1> SUFFICES ASSUME Typed, Agents, Pool, [Next]_vars,
                    NEW owner \in [Groups -> Devices \cup {None}], Owns(owner)
             PROVE  Pool'
  BY DEF Owners
<1> USE NoneAssumption DEF Typed, TypeOK, Arguments, Owns, MadeFor, Agents, Pool, Arrived,
            RecordedGroupIsReal,
            dbVars, meshVars, handlerVars, PreparePcs, EventPcs, Goto, Finish,
            AddDeviceGroup, RemoveDeviceGroup
<1>1. ASSUME NEW d \in Devices, ActivateNew(d) \/ DeleteDevice(d) \/ TicketExpires(d)
      PROVE  Pool'
  BY <1>1 DEF ActivateNew, DeleteDevice, TicketExpires, Active
<1>2. ASSUME NEW d \in Devices, NEW n \in Nodes, InstallAgent(d, n)
      PROVE  Pool'
  BY <1>2 DEF InstallAgent
<1>3. ASSUME NEW n \in Nodes, NEW new \in {"online", "offline"}, Presence(n, new)
      PROVE  Pool'
  BY <1>3 DEF Presence, Active
<1>4. ASSUME NEW h \in Handlers, NEW d \in Devices, BeginPrepare(h, d)
      PROVE  Pool'
  BY <1>4 DEF BeginPrepare, Active
<1>5. ASSUME NEW h \in Handlers, NEW n \in Nodes, NEW g \in Groups, BeginStable(h, n, g)
      PROVE  Pool'
  BY <1>5 DEF BeginStable
<1>6. ASSUME NEW h \in Handlers, Prepare(h)
      PROVE  Pool'
  <2>1. CASE TryLock(h)
    BY <2>1 DEF TryLock
  <2>2. CASE ReadDevice(h)
    BY <2>2 DEF ReadDevice
  <2>3. CASE ReadCache(h)
    BY <2>3 DEF ReadCache
  <2>4. ASSUME NEW g \in Groups, AddEnrollmentGroup(h, g)
        PROVE  Pool'
    BY <2>4 DEF AddEnrollmentGroup
  <2>5. CASE SaveEnrollmentGroup(h)
    BY <2>5 DEF SaveEnrollmentGroup
  <2>6. CASE DownloadAgent(h)
    BY <2>6 DEF DownloadAgent
  <2>7. CASE IssueTicket(h)
    BY <2>7 DEF IssueTicket
  <2> QED
    BY <1>6, <2>1, <2>2, <2>3, <2>4, <2>5, <2>6, <2>7 DEF Prepare
<1>7. ASSUME NEW h \in Handlers, Stable(h)
      PROVE  Pool'
  <2>1. CASE Bind(h)
    BY <2>1 DEF Bind, Candidates, Active
  <2>2. CASE FindPool(h)
    BY <2>2 DEF FindPool
  <2>3. ASSUME NEW g \in Groups, AddPool(h, g)
        PROVE  Pool'
    BY <2>3 DEF AddPool
  <2>4. CASE SavePool(h)
    BY <2>4 DEF SavePool
  <2>5. CASE Move(h)
    BY <2>5 DEF Move
  <2>6. CASE SaveMesh(h)
    BY <2>6 DEF SaveMesh
  <2> QED
    BY <1>7, <2>1, <2>2, <2>3, <2>4, <2>5, <2>6 DEF Stable
<1>8. ASSUME NEW h \in Handlers, Fail(h)
      PROVE  Pool'
  BY <1>8 DEF Fail
<1>9. CASE UNCHANGED vars
  BY <1>9 DEF vars
<1> QED
  BY <1>1, <1>2, <1>3, <1>4, <1>5, <1>6, <1>7, <1>8, <1>9 DEF Next

-----------------------------------------------------------------------------
(* The theorems *)

Inv == Typed /\ Locks /\ DeletionIsFinal /\ Owners /\ Agents /\ Pool

LEMMA Invariance == Spec => []Inv
<1>1. Init => Inv
  BY InitType, InitDeletion, InitOwners DEF Inv
<1>2. Inv /\ [Next]_vars => Inv'
  BY StepType, StepDeletion, StepOwners, StepAgents, StepPool DEF Inv
<1> QED
  BY <1>1, <1>2, PTL DEF Spec

\* Every row, file, group and handler is in a state the code knows.
THEOREM TypeCorrect == Spec => []TypeOK
  BY Invariance, PTL DEF Inv, Typed

\* A device that waits for its agent shares its group with no other device:
\* the group has one owner and is not the permanent one.
THEOREM GroupsTellDevices == Spec => []GroupTellsDevice
<1>1. Inv => GroupTellsDevice
  BY NoneAssumption
     DEF Inv, Typed, TypeOK, Owners, Owns, MadeFor, Pool, GroupTellsDevice
<1> QED
  BY <1>1, Invariance, PTL

\* A device is bound to an agent whose file was built for that device only.
THEOREM BoundAsInstalled == Spec => []BoundToOwnAgent
<1>1. Inv => BoundToOwnAgent
  <2> SUFFICES ASSUME Inv,
                      NEW owner \in [Groups -> Devices \cup {None}], Owns(owner),
                      NEW d \in Devices, node[d] # None, NEW e \in Devices \ {d}
               PROVE  file[e] # origin[node[d]] /\ node[e] # node[d]
    BY DEF Inv, Owners, BoundToOwnAgent
  <2>1. /\ node[d] \in Nodes /\ origin[node[d]] \in Groups
        /\ owner[origin[node[d]]] = d
    BY DEF Inv, Typed, TypeOK, Owns
  <2> QED
    BY <2>1, NoneAssumption DEF Owns, MadeFor
<1> QED
  BY <1>1, Invariance, PTL

\* A deletion takes the ticket with it and is never undone by a preparation or
\* an event that was under way.
THEOREM DeletionsAreFinal == Spec => []DeletionIsFinal
  BY Invariance, PTL DEF Inv

\* Once there is a permanent group it stays, all handlers move agents to it, and
\* it is recorded only for devices whose agents are there.
THEOREM PermanentGroupIsOne == Spec => OnePermanentGroup
<1> DEFINE Kept ==
      /\ permanent # None => permanent' = permanent
      /\ \A h \in Handlers : pc'[h] = "move" => grp'[h] = permanent'
      /\ RecordedGroupIsReal'
<1>1. Inv /\ Inv' /\ [Next]_vars => [Kept]_vars
  <2> SUFFICES ASSUME Inv, Inv', Next
               PROVE  Kept
    OBVIOUS
  <2>1. permanent # None => permanent' = permanent
    BY DEF Next, ActivateNew, DeleteDevice, TicketExpires, InstallAgent, Presence,
           BeginPrepare, BeginStable, Prepare, TryLock, ReadDevice, ReadCache,
           AddEnrollmentGroup, SaveEnrollmentGroup, DownloadAgent, IssueTicket,
           Stable, Bind, FindPool, AddPool, SavePool, Move, SaveMesh, Fail, dbVars
  <2> QED
    BY <2>1 DEF Inv, Pool
<1> QED
  BY <1>1, Invariance, PTL DEF Spec, OnePermanentGroup

=============================================================================
