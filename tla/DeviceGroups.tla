---------------------------- MODULE DeviceGroups ----------------------------
(***************************************************************************)
(* Groups of devices in the database: internal/server/device_groups.go,    *)
(* deleteDevice and putWallLayout of internal/server/app.go.               *)
(*                                                                         *)
(* putDeviceGroup, deleteDeviceGroup and deleteDevice are transactions     *)
(* whose statements take row locks; the other handlers are one statement.  *)
(* Which locks a call holds follows from its next statement.  Writes       *)
(* become visible with the commit.  One administrator has a layout.  The   *)
(* names of groups are left out: a name that is taken makes createDevice-  *)
(* Group and renameDeviceGroup fail, and nothing else reads them.          *)
(***************************************************************************)
EXTENDS Naturals, FiniteSets

CONSTANTS
  GroupIds,    \* ids that createDeviceGroup draws, each once
  DeviceIds,   \* devices, all of them active at first
  Calls,       \* HTTP requests under way
  NoGroup      \* NULL of devices.group_id

ASSUME NoGroupAssumption == NoGroup \notin GroupIds
ASSUME DevicesAssumption == DeviceIds # {}

VARIABLES
  born,        \* ids that have had a row of device_groups
  groups,      \* rows of device_groups
  groupOf,     \* devices.group_id
  removed,     \* devices with deleted_at
  layout,      \* ids in wall_layouts.collapsed_groups and device_order
  at,          \* next statement of each call
  target,      \* its group,
  subject,     \* its device,
  touches      \* and whether it has locked the row of wall_layouts

tableVars   == <<born, groups, groupOf, removed, layout>>
callVars    == <<at, target, subject, touches>>
groupsVars  == <<tableVars, callVars>>

AssignPcs == {"select", "update", "check", "assigned"}
DeletePcs == {"delete", "cascade", "forget", "dropped"}
RemovePcs == {"find", "unplace", "marked"}

GroupsTypeOK ==
  /\ born \subseteq GroupIds /\ groups \subseteq born
  /\ groupOf \in [DeviceIds -> groups \cup {NoGroup}]
  /\ removed \subseteq DeviceIds
  /\ layout \subseteq GroupIds \cup DeviceIds
  /\ at \in [Calls -> {"idle", "failed"} \cup AssignPcs \cup DeletePcs \cup RemovePcs]
  /\ target \in [Calls -> GroupIds \cup {NoGroup}]
  /\ subject \in [Calls -> DeviceIds]
  /\ touches \in [Calls -> BOOLEAN]
  /\ \A r, s \in Calls : touches[r] /\ touches[s] => r = s

\* The value of subject where it means nothing.
AnyDevice == CHOOSE d \in DeviceIds : TRUE

GroupsInit ==
  /\ born = {} /\ groups = {}
  /\ groupOf = [d \in DeviceIds |-> NoGroup]
  /\ removed = {} /\ layout = {}
  /\ at = [r \in Calls |-> "idle"]
  /\ target = [r \in Calls |-> NoGroup]
  /\ subject = [r \in Calls |-> AnyDevice]
  /\ touches = [r \in Calls |-> FALSE]

-----------------------------------------------------------------------------
(* Row locks *)

Sharing(g)  == {r \in Calls : target[r] = g /\ at[r] \in {"update", "check", "assigned"}}
Deleting(g) == {r \in Calls : target[r] = g /\ at[r] \in {"cascade", "forget", "dropped"}}
Holding(d)  ==
  {r \in Calls :
     \/ at[r] \in {"check", "assigned", "unplace", "marked"} /\ subject[r] = d
     \/ at[r] \in {"forget", "dropped"} /\ groupOf[d] = target[r]}
LayoutFree  == \A r \in Calls : ~touches[r]

Continue(r, label) ==
  /\ at' = [at EXCEPT ![r] = label]
  /\ UNCHANGED <<target, subject>>

\* The transaction ends; "failed" is an error of the database.
End(r, label) ==
  /\ at' = [at EXCEPT ![r] = label]
  /\ target' = [target EXCEPT ![r] = NoGroup]
  /\ subject' = [subject EXCEPT ![r] = AnyDevice]
  /\ touches' = [touches EXCEPT ![r] = FALSE]

Request(r, label, g, d) ==
  /\ at[r] \in {"idle", "failed"}
  /\ at' = [at EXCEPT ![r] = label]
  /\ target' = [target EXCEPT ![r] = g]
  /\ subject' = [subject EXCEPT ![r] = d]
  /\ UNCHANGED <<touches, tableVars>>

-----------------------------------------------------------------------------
(* One statement: create and putWallLayout.                                  *)

CreateGroup(g) ==
  /\ g \notin born
  /\ born' = born \cup {g} /\ groups' = groups \cup {g}
  /\ UNCHANGED <<groupOf, removed, layout, callVars>>

\* A browser's whole layout; its ids may be those of what is gone.
PutWallLayout(ids) ==
  /\ LayoutFree
  /\ layout' = ids
  /\ UNCHANGED <<born, groups, groupOf, removed, callVars>>

-----------------------------------------------------------------------------
(* putDeviceGroup *)

\* Mutant of LockGroup: the group is read without FOR SHARE.
ReadGroup(r) ==
  /\ at[r] = "select"
  /\ IF target[r] = NoGroup \/ target[r] \in groups
       THEN Continue(r, "update") /\ UNCHANGED touches
       ELSE End(r, "idle")
  /\ UNCHANGED tableVars

LockGroup(r) ==
  /\ at[r] = "select"
  /\ Deleting(target[r]) = {}
  /\ IF target[r] = NoGroup \/ target[r] \in groups
       THEN Continue(r, "update") /\ UNCHANGED touches
       ELSE End(r, "idle")
  /\ UNCHANGED tableVars

\* The UPDATE waits for the row of the device.
UpdateDevice(r) ==
  /\ at[r] = "update"
  /\ Holding(subject[r]) = {}
  /\ IF subject[r] \in removed
       THEN End(r, "idle")
       ELSE Continue(r, "check") /\ UNCHANGED touches
  /\ UNCHANGED tableVars

\* Its foreign key waits for a deletion of the group, and fails after it.
CheckForeignKey(r) ==
  /\ at[r] = "check"
  /\ Deleting(target[r]) = {}
  /\ IF target[r] = NoGroup \/ target[r] \in groups
       THEN Continue(r, "assigned") /\ UNCHANGED touches
       ELSE End(r, "failed")
  /\ UNCHANGED tableVars

CommitAssign(r) ==
  /\ at[r] = "assigned"
  /\ groupOf' = [groupOf EXCEPT ![subject[r]] = target[r]]
  /\ End(r, "idle")
  /\ UNCHANGED <<born, groups, removed, layout>>

-----------------------------------------------------------------------------
(* deleteDeviceGroup *)

DeleteGroupRow(r) ==
  /\ at[r] = "delete"
  /\ Sharing(target[r]) \cup Deleting(target[r]) = {}
  /\ IF target[r] \in groups
       THEN Continue(r, "cascade") /\ UNCHANGED touches
       ELSE End(r, "idle")
  /\ UNCHANGED tableVars

\* ON DELETE SET NULL locks and changes the group's devices.
Cascade(r) ==
  /\ at[r] = "cascade"
  /\ \A d \in DeviceIds : groupOf[d] = target[r] => Holding(d) = {}
  /\ Continue(r, "forget")
  /\ UNCHANGED <<touches, tableVars>>

\* The UPDATE of wall_layouts changes the row if it names what goes.
Forget(r, label, named) ==
  /\ named => LayoutFree
  /\ touches' = [touches EXCEPT ![r] = named]
  /\ Continue(r, label)
  /\ UNCHANGED tableVars

ForgetGroup(r) == at[r] = "forget" /\ Forget(r, "dropped", target[r] \in layout)

CommitDeleteGroup(r) ==
  /\ at[r] = "dropped"
  /\ groups' = groups \ {target[r]}
  /\ groupOf' = [d \in DeviceIds |-> IF groupOf[d] = target[r] THEN NoGroup ELSE groupOf[d]]
  /\ layout' = IF touches[r] THEN layout \ {target[r]} ELSE layout
  /\ End(r, "idle")
  /\ UNCHANGED <<born, removed>>

-----------------------------------------------------------------------------
(* deleteDevice, as far as groups and layouts are concerned.                 *)

FindDeviceRow(r) ==
  /\ at[r] = "find"
  /\ Holding(subject[r]) = {}
  /\ IF subject[r] \in removed
       THEN End(r, "idle")
       ELSE Continue(r, "unplace") /\ UNCHANGED touches
  /\ UNCHANGED tableVars

ForgetDevice(r) == at[r] = "unplace" /\ Forget(r, "marked", subject[r] \in layout)

CommitDeleteDevice(r) ==
  /\ at[r] = "marked"
  /\ removed' = removed \cup {subject[r]}
  /\ layout' = IF touches[r] THEN layout \ {subject[r]} ELSE layout
  /\ End(r, "idle")
  /\ UNCHANGED <<born, groups, groupOf>>

-----------------------------------------------------------------------------
\* The request is cancelled, or the server stops: ROLLBACK.
Cancel(r) ==
  /\ at[r] \notin {"idle", "failed"} /\ End(r, "idle")
  /\ UNCHANGED tableVars

GroupStep(r) ==
  \/ LockGroup(r) \/ UpdateDevice(r) \/ CheckForeignKey(r) \/ CommitAssign(r)
  \/ DeleteGroupRow(r) \/ Cascade(r) \/ ForgetGroup(r) \/ CommitDeleteGroup(r)
  \/ FindDeviceRow(r) \/ ForgetDevice(r) \/ CommitDeleteDevice(r)

BeginGroupCall(r) ==
  \/ \E g \in born \cup {NoGroup}, d \in DeviceIds : Request(r, "select", g, d)
  \/ \E g \in born : Request(r, "delete", g, AnyDevice)
  \/ \E d \in DeviceIds : Request(r, "find", NoGroup, d)

GroupsNext ==
  \/ \E g \in GroupIds : CreateGroup(g)
  \/ \E ids \in SUBSET (born \cup DeviceIds) : PutWallLayout(ids)
  \/ \E r \in Calls : BeginGroupCall(r) \/ GroupStep(r) \/ Cancel(r)

GroupsSpec == GroupsInit /\ [][GroupsNext]_groupsVars

-----------------------------------------------------------------------------
(* Properties *)

\* Those that have locked what the next statement of r may need.
Awaited(r) ==
  CASE at[r] \in {"select", "check"}   -> Deleting(target[r])
    [] at[r] = "delete"                -> Sharing(target[r]) \cup Deleting(target[r])
    [] at[r] \in {"update", "find"}    -> Holding(subject[r])
    [] at[r] = "cascade"               -> UNION {Holding(d) : d \in {d \in DeviceIds : groupOf[d] = target[r]}}
    [] at[r] \in {"forget", "unplace"} -> {s \in Calls : touches[s]}
    [] OTHER                           -> {}

\* While requests are under way one of them waits for no other: the rows of
\* groups, devices and layouts are locked in this order, and an assignment
\* locks its group before a foreign key would, so PostgreSQL never finds a
\* deadlock (putDeviceGroup, deleteDeviceGroup, deleteDevice).
SomeCallGoesOn ==
  LET underWay == {r \in Calls : at[r] \notin {"idle", "failed"}}
  IN underWay # {} => \E r \in underWay : Awaited(r) = {}

\* A request that is under way is answered, and never with the error of a
\* foreign key: putDeviceGroup locks the group before it uses it, and all lock
\* group, device and layout in this order, so none waits for another for ever.
GroupCallsAreAnswered ==
  \A r \in Calls : at[r] # "idle" ~> at[r] = "idle"

=============================================================================
