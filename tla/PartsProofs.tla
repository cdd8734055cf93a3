---------------------------- MODULE PartsProofs ----------------------------
(***************************************************************************)
(* Proofs about the parts that MCParts puts side by side, for any value of *)
(* their constants: the tables of DeviceGroups, the file of ErrorQueue,    *)
(* the processes of AgentHelper and the requests of ConnectionPool, each   *)
(* by an inductive invariant of its own, and the sections and tiles of     *)
(* Wall, which are computed by recursion, by induction over their number.  *)
(***************************************************************************)
EXTENDS MCParts, FiniteSetTheorems, SequenceTheorems, TLAPS

-----------------------------------------------------------------------------
(* Groups of devices *)

Shares  == {"update", "check", "assigned"}
Deletes == {"cascade", "forget", "dropped"}

\* What the row locks of device_groups give: the group that a request has
\* locked exists, and no two requests use one that either of them deletes.
LockedGroupsExist ==
  /\ \A r \in Calls :
       /\ at[r] \in Shares => target[r] \in groups \cup {NoGroup}
       /\ at[r] \in Deletes => target[r] \in groups
  /\ \A r, s \in Calls :
       at[r] \in Shares \cup Deletes /\ at[s] \in Deletes /\ target[r] = target[s] => r = s

\* No statement ends with the error of a foreign key.
NoCallFails == \A r \in Calls : at[r] # "failed"

GroupsInv == GroupsTypeOK /\ LockedGroupsExist /\ NoCallFails

LEMMA AnyDeviceType == AnyDevice \in DeviceIds
  BY DevicesAssumption DEF AnyDevice

LEMMA GroupsInitInv == GroupsInit => GroupsInv
  BY AnyDeviceType DEF GroupsInit, GroupsInv, GroupsTypeOK, LockedGroupsExist, NoCallFails,
     Shares, Deletes, AssignPcs, DeletePcs, RemovePcs

LEMMA TableStepKeepsInv ==
  ASSUME GroupsInv,
         \/ \E g \in GroupIds : CreateGroup(g)
         \/ \E ids \in SUBSET (born \cup DeviceIds) : PutWallLayout(ids)
  PROVE  GroupsInv'
<1> USE DEF GroupsInv, GroupsTypeOK, LockedGroupsExist, NoCallFails, Shares, Deletes, callVars
<1>1. ASSUME NEW g \in GroupIds, CreateGroup(g)
      PROVE  GroupsInv'
  BY <1>1 DEF CreateGroup
<1>2. ASSUME NEW ids \in SUBSET (born \cup DeviceIds), PutWallLayout(ids)
      PROVE  GroupsInv'
  BY <1>2 DEF PutWallLayout
<1> QED
  BY <1>1, <1>2

LEMMA RequestKeepsInv ==
  ASSUME GroupsInv, NEW r \in Calls, BeginGroupCall(r)
  PROVE  GroupsInv'
<1>1. PICK label \in {"select", "delete", "find"}, g \in born \cup {NoGroup}, d \in DeviceIds :
        Request(r, label, g, d)
  BY AnyDeviceType DEF BeginGroupCall
<1> QED
  BY <1>1 DEF Request, tableVars, GroupsInv, GroupsTypeOK, LockedGroupsExist, NoCallFails,
     Shares, Deletes, AssignPcs, DeletePcs, RemovePcs

\* What is common to all steps that end a call and leave the tables alone.
LEMMA EndKeepsInv ==
  ASSUME GroupsInv, NEW r \in Calls, End(r, "idle"), UNCHANGED tableVars
  PROVE  GroupsInv'
  BY AnyDeviceType DEF End, tableVars, GroupsInv, GroupsTypeOK, LockedGroupsExist, NoCallFails,
     Shares, Deletes

LEMMA AssignKeepsInv ==
  ASSUME GroupsInv, NEW r \in Calls,
         LockGroup(r) \/ UpdateDevice(r) \/ CheckForeignKey(r) \/ CommitAssign(r)
  PROVE  GroupsInv'
<1> USE DEF GroupsInv, GroupsTypeOK, LockedGroupsExist, NoCallFails, Shares, Deletes,
            AssignPcs, DeletePcs, RemovePcs, tableVars, Continue
<1>1. CASE LockGroup(r)
  <2>1. CASE target[r] = NoGroup \/ target[r] \in groups
    BY <1>1, <2>1 DEF LockGroup, Deleting
  <2> QED
    BY <1>1, <2>1, EndKeepsInv DEF LockGroup
<1>2. CASE UpdateDevice(r)
  <2>1. CASE subject[r] \in removed
    BY <1>2, <2>1, EndKeepsInv DEF UpdateDevice
  <2> QED
    BY <1>2, <2>1 DEF UpdateDevice
<1>3. CASE CheckForeignKey(r)
  <2>1. target[r] = NoGroup \/ target[r] \in groups
    BY <1>3 DEF CheckForeignKey
  <2> QED
    BY <1>3, <2>1 DEF CheckForeignKey
<1>4. CASE CommitAssign(r)
  BY <1>4, AnyDeviceType DEF CommitAssign, End
<1> QED
  BY <1>1, <1>2, <1>3, <1>4

LEMMA DeleteKeepsInv ==
  ASSUME GroupsInv, NEW r \in Calls,
         DeleteGroupRow(r) \/ Cascade(r) \/ ForgetGroup(r) \/ CommitDeleteGroup(r)
  PROVE  GroupsInv'
<1> USE DEF GroupsInv, GroupsTypeOK, LockedGroupsExist, NoCallFails, Shares, Deletes,
            AssignPcs, DeletePcs, RemovePcs, tableVars, Continue
<1>1. CASE DeleteGroupRow(r)
  <2>1. CASE target[r] \in groups
    BY <1>1, <2>1 DEF DeleteGroupRow, Sharing, Deleting
  <2> QED
    BY <1>1, <2>1, EndKeepsInv DEF DeleteGroupRow
<1>2. CASE Cascade(r)
  BY <1>2 DEF Cascade
<1>3. CASE ForgetGroup(r)
  BY <1>3 DEF ForgetGroup, Forget, LayoutFree
<1>4. CASE CommitDeleteGroup(r)
  <2>1. \A s \in Calls \ {r} : at[s] \in Shares \cup Deletes => target[s] # target[r]
    BY <1>4 DEF CommitDeleteGroup
  <2>2. GroupsTypeOK' /\ NoCallFails'
    BY <1>4, AnyDeviceType DEF CommitDeleteGroup, End
  <2>3. LockedGroupsExist'
    BY <1>4, <2>1 DEF CommitDeleteGroup, End
  <2> QED
    BY <2>2, <2>3
<1> QED
  BY <1>1, <1>2, <1>3, <1>4

LEMMA RemoveKeepsInv ==
  ASSUME GroupsInv, NEW r \in Calls,
         FindDeviceRow(r) \/ ForgetDevice(r) \/ CommitDeleteDevice(r)
  PROVE  GroupsInv'
<1> USE DEF GroupsInv, GroupsTypeOK, LockedGroupsExist, NoCallFails, Shares, Deletes,
            AssignPcs, DeletePcs, RemovePcs, tableVars, Continue
<1>1. CASE FindDeviceRow(r)
  <2>1. CASE subject[r] \in removed
    BY <1>1, <2>1, EndKeepsInv DEF FindDeviceRow
  <2> QED
    BY <1>1, <2>1 DEF FindDeviceRow
<1>2. CASE ForgetDevice(r)
  BY <1>2 DEF ForgetDevice, Forget, LayoutFree
<1>3. CASE CommitDeleteDevice(r)
  BY <1>3, AnyDeviceType DEF CommitDeleteDevice, End
<1> QED
  BY <1>1, <1>2, <1>3

LEMMA GroupStepKeepsInv == GroupsInv /\ [GroupsNext]_groupsVars => GroupsInv'
<1> SUFFICES ASSUME GroupsInv, [GroupsNext]_groupsVars
             PROVE  GroupsInv'
  OBVIOUS
<1>1. CASE \/ \E g \in GroupIds : CreateGroup(g)
           \/ \E ids \in SUBSET (born \cup DeviceIds) : PutWallLayout(ids)
  BY <1>1, TableStepKeepsInv
<1>2. ASSUME NEW r \in Calls, BeginGroupCall(r) \/ GroupStep(r) \/ Cancel(r)
      PROVE  GroupsInv'
  BY <1>2, RequestKeepsInv, AssignKeepsInv, DeleteKeepsInv, RemoveKeepsInv, EndKeepsInv
     DEF GroupStep, Cancel
<1>3. CASE UNCHANGED groupsVars
  BY <1>3 DEF groupsVars, tableVars, callVars, GroupsInv, GroupsTypeOK, LockedGroupsExist,
     NoCallFails
<1> QED
  BY <1>1, <1>2, <1>3 DEF GroupsNext

LEMMA GroupsInvariance == GroupsSpec => []GroupsInv
  BY GroupsInitInv, GroupStepKeepsInv, PTL DEF GroupsSpec

\* Tables and calls are in a state the code knows; in particular a device is
\* in no group that is gone.
THEOREM GroupsTypeCorrect == GroupsSpec => []GroupsTypeOK
  BY GroupsInvariance, PTL DEF GroupsInv

\* However many requests assign and delete at the same time, none is answered
\* with the error of a foreign key: the safety part of GroupCallsAreAnswered
\* (FOR SHARE in putDeviceGroup).
THEOREM NoForeignKeyError == GroupsSpec => []NoCallFails
  BY GroupsInvariance, PTL DEF GroupsInv

\* The row of wall_layouts is locked by the last statement before the commit.
LayoutLockedLast == \A r \in Calls : touches[r] => at[r] \in {"dropped", "marked"}

LEMMA LayoutInitLast == GroupsInit => LayoutLockedLast
  BY DEF GroupsInit, LayoutLockedLast

LEMMA LayoutStaysLast ==
  ASSUME GroupsTypeOK, LayoutLockedLast, [GroupsNext]_groupsVars
  PROVE  LayoutLockedLast'
<1> USE DEF GroupsTypeOK, LayoutLockedLast, AssignPcs, DeletePcs, RemovePcs
<1>1. ASSUME UNCHANGED callVars
      PROVE  LayoutLockedLast'
  BY <1>1 DEF callVars
<1>2. ASSUME NEW r \in Calls, NEW label, End(r, label)
      PROVE  LayoutLockedLast'
  BY <1>2 DEF End
<1>3. ASSUME NEW r \in Calls, NEW label, at[r] \notin {"dropped", "marked"}, Continue(r, label),
             UNCHANGED touches
      PROVE  LayoutLockedLast'
  BY <1>3 DEF Continue
<1>4. ASSUME NEW r \in Calls, NEW label \in {"dropped", "marked"}, NEW named, Forget(r, label, named)
      PROVE  LayoutLockedLast'
  BY <1>4 DEF Forget, Continue
<1>5. ASSUME NEW r \in Calls, NEW label, NEW g, NEW d, Request(r, label, g, d)
      PROVE  LayoutLockedLast'
  BY <1>5 DEF Request
<1>6. ASSUME NEW g \in GroupIds, CreateGroup(g)
      PROVE  LayoutLockedLast'
  BY <1>1, <1>6 DEF CreateGroup
<1>7. ASSUME NEW ids, PutWallLayout(ids)
      PROVE  LayoutLockedLast'
  BY <1>1, <1>7 DEF PutWallLayout
<1>8. ASSUME NEW r \in Calls, BeginGroupCall(r)
      PROVE  LayoutLockedLast'
  BY <1>5, <1>8 DEF BeginGroupCall
<1>9. ASSUME NEW r \in Calls, Cancel(r) \/ CommitAssign(r) \/ CommitDeleteGroup(r) \/ CommitDeleteDevice(r)
      PROVE  LayoutLockedLast'
  BY <1>2, <1>9 DEF Cancel, CommitAssign, CommitDeleteGroup, CommitDeleteDevice
<1>10. ASSUME NEW r \in Calls, ForgetGroup(r) \/ ForgetDevice(r)
       PROVE  LayoutLockedLast'
  BY <1>4, <1>10 DEF ForgetGroup, ForgetDevice
<1>11. ASSUME NEW r \in Calls, LockGroup(r) \/ UpdateDevice(r) \/ CheckForeignKey(r)
       PROVE  LayoutLockedLast'
  BY <1>2, <1>3, <1>11 DEF LockGroup, UpdateDevice, CheckForeignKey
<1>12. ASSUME NEW r \in Calls, DeleteGroupRow(r) \/ Cascade(r) \/ FindDeviceRow(r)
       PROVE  LayoutLockedLast'
  BY <1>2, <1>3, <1>12 DEF DeleteGroupRow, Cascade, FindDeviceRow
<1>13. CASE UNCHANGED groupsVars
  BY <1>1, <1>13 DEF groupsVars
<1> QED
  BY <1>6, <1>7, <1>8, <1>9, <1>10, <1>11, <1>12, <1>13 DEF GroupsNext, GroupStep

\* The statements in the order in which their locks are taken, the last first:
\* at the first of them that any call has reached, nobody waits.
LEMMA FurthestGoesOn ==
  ASSUME GroupsInv, LayoutLockedLast
  PROVE  SomeCallGoesOn
<1> DEFINE At(labels) == \E r \in Calls : at[r] \in labels
           Goes(labels) == \E r \in Calls : at[r] \in labels /\ Awaited(r) = {}
<1>1. ASSUME At({"assigned", "dropped", "marked"})
      PROVE  Goes({"assigned", "dropped", "marked"})
  BY <1>1 DEF Awaited
<1>2. ASSUME At({"forget", "unplace"}), ~At({"assigned", "dropped", "marked"})
      PROVE  Goes({"forget", "unplace"})
  BY <1>2 DEF Awaited, LayoutLockedLast
<1>3. ASSUME At({"check"}), ~At({"assigned", "dropped", "marked"}), ~At({"forget", "unplace"})
      PROVE  Goes({"check"})
  <2>1. PICK r \in Calls : at[r] = "check"
    BY <1>3
  <2>2. ASSUME NEW s \in Deleting(target[r])
        PROVE  FALSE
    <3>1. s \in Calls /\ target[r] = target[s] /\ at[s] \in Deletes
      BY <2>2 DEF Deleting, Deletes
    <3>2. r = s
      BY <2>1, <3>1 DEF GroupsInv, LockedGroupsExist, Shares
    <3> QED
      BY <2>1, <3>1, <3>2 DEF Deletes
  <2> QED
    BY <2>1, <2>2 DEF Awaited
<1>4. ASSUME ~At({"assigned", "dropped", "marked"}), ~At({"forget", "unplace"}), ~At({"check"})
      PROVE  \A d : Holding(d) = {}
  BY <1>4 DEF Holding
<1>5. ASSUME At({"cascade", "update", "find"}), \A d : Holding(d) = {}
      PROVE  Goes({"cascade", "update", "find"})
  BY <1>5 DEF Awaited
<1>6. ASSUME ~At({"assigned", "dropped", "marked"}), ~At({"forget", "unplace"}), ~At({"check"}),
             ~At({"cascade", "update", "find"})
      PROVE  \A g : Sharing(g) = {} /\ Deleting(g) = {}
  BY <1>6 DEF Sharing, Deleting
<1>7. ASSUME At({"select", "delete"}), \A g : Sharing(g) = {} /\ Deleting(g) = {}
      PROVE  Goes({"select", "delete"})
  BY <1>7 DEF Awaited
<1> SUFFICES ASSUME NEW q \in Calls, at[q] \notin {"idle", "failed"}
             PROVE  \E r \in Calls : at[r] \notin {"idle", "failed"} /\ Awaited(r) = {}
  BY DEF SomeCallGoesOn
<1>8. at[q] \in {"assigned", "dropped", "marked"} \cup {"forget", "unplace"} \cup {"check"}
                  \cup {"cascade", "update", "find"} \cup {"select", "delete"}
  BY DEF GroupsInv, GroupsTypeOK, AssignPcs, DeletePcs, RemovePcs
<1>9. ASSUME NEW labels \in {{"assigned", "dropped", "marked"}, {"forget", "unplace"}, {"check"},
                             {"cascade", "update", "find"}, {"select", "delete"}},
             Goes(labels)
      PROVE  \E r \in Calls : at[r] \notin {"idle", "failed"} /\ Awaited(r) = {}
  BY <1>9
<1> HIDE DEF Goes
<1> QED
  BY <1>1, <1>2, <1>3, <1>4, <1>5, <1>6, <1>7, <1>8, <1>9

\* However many assignments and deletions are under way, one of them waits for
\* no other: the order of the row locks of putDeviceGroup, deleteDeviceGroup
\* and deleteDevice admits no deadlock.
THEOREM GroupLocksAreOrdered == GroupsSpec => []SomeCallGoesOn
<1>1. GroupsSpec => []GroupsTypeOK
  BY GroupsTypeCorrect
<1>2. GroupsSpec => []LayoutLockedLast
  BY <1>1, LayoutInitLast, LayoutStaysLast, PTL DEF GroupsSpec
<1> QED
  BY <1>2, GroupsInvariance, FurthestGoesOn, PTL

-----------------------------------------------------------------------------
(* The queue of errors *)

\* Each function that holds queueMu knows what is in the file: what it is about
\* to write has all of it but the oldest error, what it is about to remove has
\* been sent, unless ClearAllData has erased the file meanwhile.
HolderKnowsQueue ==
  /\ queueMu = "append" => queue # Torn /\ Queued \subseteq ToSet(adding) \cup Displaced
  /\ queueMu = "flush" => Queued \subseteq ToSet(batch)
  /\ answer # "none" => queueMu = "flush"
  /\ answer = "accepted" => ToSet(batch) \subseteq stored

ErrorsInv == ErrorsTypeOK /\ HolderKnowsQueue /\ NoErrorIsLost

\* A batch is a sequence of at most QueueLimit errors.
LEMMA BatchIsSeq ==
  /\ \A s \in Batches : s \in Seq(Errors) /\ Len(s) <= QueueLimit
  /\ \A s \in Seq(Errors) : Len(s) <= QueueLimit => s \in Batches
  /\ <<>> \in Batches
<1>1. ASSUME NEW s \in Batches
      PROVE  s \in Seq(Errors) /\ Len(s) <= QueueLimit
  <2>1. PICK n \in 0..QueueLimit : s \in [1..n -> Errors]
    BY DEF Batches
  <2> QED
    BY <2>1
<1>2. ASSUME NEW s \in Seq(Errors), Len(s) <= QueueLimit
      PROVE  s \in Batches
  <2>1. Len(s) \in 0..QueueLimit /\ s \in [1..Len(s) -> Errors]
    BY <1>2, QueueLimitAssumption
  <2> QED
    BY <2>1 DEF Batches
<1>3. <<>> \in Seq(Errors) /\ Len(<<>>) <= QueueLimit
  BY QueueLimitAssumption
<1> QED
  BY <1>1, <1>2, <1>3

LEMMA LengthOfNothing == \A s : s = <<>> => Len(s) = 0
  OBVIOUS

\* What is appended is kept, and of the rest all but what is displaced.
LEMMA NewestKeeps ==
  ASSUME NEW s \in Batches, NEW e \in Errors
  PROVE  LET t == Newest(Append(s, e))
             d == IF Len(s) = QueueLimit THEN {Head(s)} ELSE {}
         IN /\ t \in Batches /\ t # <<>>
            /\ ToSet(s) \subseteq ToSet(t) \cup d
<1> DEFINE a == Append(s, e)
           t == Newest(a)
           d == IF Len(s) = QueueLimit THEN {Head(s)} ELSE {}
<1>1. /\ s \in Seq(Errors) /\ Len(s) \in Nat /\ Len(s) <= QueueLimit
      /\ a \in Seq(Errors) /\ Len(a) = Len(s) + 1
      /\ \A i \in 1..Len(s) : a[i] = s[i]
  BY BatchIsSeq
<1>2. CASE Len(s) < QueueLimit
  <2>1. t = a
    BY <1>1, <1>2, QueueLimitAssumption DEF Newest
  <2>2. t \in Batches /\ t # <<>>
    <3>1. Len(a) <= QueueLimit /\ Len(a) # 0
      BY <1>1, <1>2, QueueLimitAssumption
    <3>2. a \in Batches
      BY <1>1, <3>1, BatchIsSeq
    <3>3. a # <<>>
      BY <3>1, LengthOfNothing
    <3> QED
      BY <2>1, <3>2, <3>3
  <2>3. ToSet(s) \subseteq ToSet(t) \cup d
    BY <1>1, <2>1 DEF ToSet
  <2> QED
    BY <2>2, <2>3
<1>3. CASE Len(s) = QueueLimit
  <2>1. t = Tail(a)
    BY <1>1, <1>3, QueueLimitAssumption DEF Newest
  <2>2. /\ t \in Seq(Errors) /\ Len(t) = Len(s)
        /\ \A i \in 1..Len(t) : t[i] = a[i + 1]
    BY <1>1, <1>3, <2>1, QueueLimitAssumption
  <2>3. t \in Batches /\ t # <<>>
    BY <1>3, <2>2, BatchIsSeq, QueueLimitAssumption
  <2>4. ASSUME NEW i \in 1..Len(s)
        PROVE  s[i] \in ToSet(t) \cup d
    <3>1. CASE i = 1
      BY <1>1, <1>3, <3>1
    <3>2. CASE i # 1
      <4>1. i - 1 \in 1..Len(t) /\ t[i - 1] = s[i]
        BY <1>1, <2>2, <3>2
      <4>2. DOMAIN t = 1..Len(t)
        BY <2>2
      <4> QED
        BY <4>1, <4>2 DEF ToSet
    <3> QED
      BY <3>1, <3>2
  <2>5. ToSet(s) \subseteq ToSet(t) \cup d
    BY <1>1, <2>4 DEF ToSet
  <2> QED
    BY <2>3, <2>5
<1> QED
  BY <1>1, <1>2, <1>3, QueueLimitAssumption

LEMMA LastIsIn ==
  ASSUME NEW s \in Batches, s # <<>>
  PROVE  Last(s) \in Errors /\ Last(s) \in ToSet(s)
<1>1. s \in Seq(Errors) /\ Len(s) \in DOMAIN s
  BY BatchIsSeq
<1> QED
  BY <1>1 DEF Last, ToSet

LEMMA NothingInEmpty == ToSet(<<>>) = {}
  BY DEF ToSet

LEMMA ErrorsOfQueue ==
  ASSUME ErrorsTypeOK
  PROVE  /\ Queued \subseteq Errors
         /\ queue # Torn => Displaced \subseteq Errors
<1>1. \A s \in Batches : ToSet(s) \subseteq Errors
  BY BatchIsSeq DEF ToSet
<1>2. ASSUME queue # Torn, Len(queue) = QueueLimit
      PROVE  Head(queue) \in Errors
  <2>1. queue \in Seq(Errors) /\ Len(queue) > 0
    BY <1>2, BatchIsSeq, QueueLimitAssumption DEF ErrorsTypeOK
  <2> QED
    BY <2>1
<1> QED
  BY <1>1, <1>2 DEF Queued, Displaced, ErrorsTypeOK

LEMMA ErrorsInitInv == ErrorsInit => ErrorsInv
<1> SUFFICES ASSUME ErrorsInit
             PROVE  ErrorsInv
  OBVIOUS
<1>1. ErrorsTypeOK
  <2>1. flushes \in 0..MaxFlushes
    BY MaxFlushesAssumption DEF ErrorsInit
  <2> QED
    BY <2>1, BatchIsSeq DEF ErrorsInit, ErrorsTypeOK
<1>2. Queued = {}
  BY NothingInEmpty DEF ErrorsInit, Queued
<1>3. HolderKnowsQueue /\ NoErrorIsLost
  BY <1>2 DEF ErrorsInit, HolderKnowsQueue, NoErrorIsLost
<1> QED
  BY <1>1, <1>3 DEF ErrorsInv

LEMMA AppendKeepsInv ==
  ASSUME ErrorsInv, (\E e \in Errors : ReadQueue(e)) \/ WriteQueue \/ WriteFails
  PROVE  ErrorsInv'
<1> USE DEF ErrorsInv, ErrorsTypeOK, HolderKnowsQueue, NoErrorIsLost, uploadVars, historyVars
<1>1. ASSUME NEW e \in Errors, ReadQueue(e)
      PROVE  ErrorsInv'
  <2>1. queue \in Batches
    BY <1>1 DEF ReadQueue
  <2>2. /\ adding' \in Batches /\ adding' # <<>>
        /\ ToSet(queue) \subseteq ToSet(adding') \cup Displaced
    BY <1>1, <2>1, NewestKeeps DEF ReadQueue, Displaced
  <2>3. Queued' = Queued /\ Displaced' = Displaced /\ Queued = ToSet(queue)
    BY <1>1 DEF ReadQueue, Queued, Displaced
  <2> QED
    BY <1>1, <2>2, <2>3 DEF ReadQueue
<1>2. CASE WriteQueue
  <2>1. Last(adding) \in Errors /\ Last(adding) \in ToSet(adding)
    BY <1>2, LastIsIn DEF WriteQueue
  <2>2. Displaced \subseteq Errors
    BY <1>2, ErrorsOfQueue DEF WriteQueue
  <2>3. ErrorsTypeOK'
    BY <1>2, <2>1, <2>2, BatchIsSeq, MaxFlushesAssumption DEF WriteQueue, EndAppend, StartFlush
  <2>4. HolderKnowsQueue'
    BY <1>2 DEF WriteQueue, EndAppend
  <2>5. Queued' = ToSet(adding)
    BY <1>2, TornAssumption DEF WriteQueue, Queued
  <2> QED
    BY <1>2, <2>1, <2>3, <2>4, <2>5 DEF WriteQueue
<1>3. CASE WriteFails
  BY <1>3, BatchIsSeq, ErrorsOfQueue DEF WriteFails, EndAppend, Queued, Displaced
<1> QED
  BY <1>1, <1>2, <1>3

LEMMA UploadKeepsInv ==
  ASSUME ErrorsInv, ReadBatch \/ Upload \/ UploadFails \/ EndFlush
  PROVE  ErrorsInv'
<1> USE DEF ErrorsInv, ErrorsTypeOK, HolderKnowsQueue, NoErrorIsLost, uploadVars, historyVars
<1>1. CASE ReadBatch
  <2>1. flushes' \in 0..MaxFlushes
    BY <1>1, MaxFlushesAssumption DEF ReadBatch
  <2>2. Queued' = Queued /\ Displaced' = Displaced
    BY <1>1 DEF ReadBatch, Queued, Displaced
  <2>3. CASE activated /\ queue \notin {<<>>, Torn}
    <3>1. batch' \in Batches /\ batch' # <<>> /\ Queued = ToSet(batch') /\ queueMu' = "flush"
      BY <1>1, <2>3 DEF ReadBatch, Queued
    <3> QED
      BY <1>1, <2>1, <2>2, <3>1 DEF ReadBatch
  <2> QED
    BY <1>1, <2>1, <2>2, <2>3 DEF ReadBatch
<1>2. CASE Upload
  <2>1. Queued' = Queued /\ Displaced' = Displaced
    BY <1>2 DEF Upload, Queued, Displaced
  <2>2. ToSet(batch) \subseteq Errors
    BY BatchIsSeq DEF ToSet
  <2> QED
    BY <1>2, <2>1, <2>2 DEF Upload, Insert, Acceptable
<1>3. CASE UploadFails
  <2>1. Queued' = Queued /\ Displaced' = Displaced
    BY <1>3 DEF UploadFails, Queued, Displaced
  <2> QED
    BY <1>3, <2>1, BatchIsSeq DEF UploadFails, EndUpload
<1>4. CASE EndFlush
  <2>1. queueMu = "flush" /\ queueMu' = "free"
    BY <1>4 DEF EndFlush, EndUpload
  <2>2. CASE UNCHANGED queue
    <3>1. Queued' = Queued
      BY <2>2 DEF Queued
    <3> QED
      BY <1>4, <2>1, <2>2, <3>1, BatchIsSeq DEF EndFlush, EndUpload
  <2>3. CASE answer = "accepted" /\ queue' = <<>>
    <3>1. Queued \subseteq stored
      BY <2>1, <2>3
    <3> QED
      BY <1>4, <2>1, <2>3, <3>1, BatchIsSeq DEF EndFlush, EndUpload
  <2> QED
    BY <1>4, <2>2, <2>3 DEF EndFlush
<1> QED
  BY <1>1, <1>2, <1>3, <1>4

LEMMA RestartKeepsInv ==
  ASSUME ErrorsInv, StoreCredentials \/ EraseState \/ EraseQueue \/ RestartClient
  PROVE  ErrorsInv'
<1> USE DEF ErrorsInv, ErrorsTypeOK, HolderKnowsQueue, NoErrorIsLost, uploadVars, historyVars
<1>1. CASE StoreCredentials
  BY <1>1, MaxFlushesAssumption DEF StoreCredentials, StartFlush, Queued, Displaced
<1>2. CASE EraseState
  BY <1>2 DEF EraseState, Queued, Displaced
<1>3. CASE EraseQueue
  <2>1. CASE UNCHANGED <<queue, gone>>
    BY <1>3, <2>1 DEF EraseQueue, Queued, Displaced
  <2>2. CASE queue' = <<>> /\ gone' = gone \cup Queued
    <3>1. Queued' = {} /\ queue' # Torn
      BY <2>2, NothingInEmpty, BatchIsSeq, TornAssumption DEF Queued
    <3> QED
      BY <1>3, <2>2, <3>1, BatchIsSeq, ErrorsOfQueue DEF EraseQueue
  <2> QED
    BY <1>3, <2>1, <2>2 DEF EraseQueue
<1>4. CASE RestartClient
  <2>1. /\ queueMu' = "free" /\ adding' = <<>> /\ batch' = <<>> /\ answer' = "none"
        /\ clearing' \in BOOLEAN /\ UNCHANGED <<activated, stored, reported>>
        /\ flushes' = 1 /\ 1 \in 0..MaxFlushes
    <3>1. 1 \in 0..MaxFlushes
      BY MaxFlushesAssumption
    <3> QED
      BY <1>4, <3>1 DEF RestartClient
  <2>2. CASE UNCHANGED <<queue, gone>>
    BY <2>1, <2>2, BatchIsSeq DEF Queued
  <2>3. CASE queueMu = "append" /\ queue' = adding /\ gone' = gone \cup Displaced
    <3>1. Queued' = ToSet(adding) /\ Displaced \subseteq Errors
      BY <2>3, TornAssumption, ErrorsOfQueue DEF Queued
    <3> QED
      BY <2>1, <2>3, <3>1, BatchIsSeq
  <2>4. CASE queueMu = "append" /\ queue' = Torn /\ gone' = gone \cup Queued
    BY <2>1, <2>4, BatchIsSeq, ErrorsOfQueue DEF Queued
  <2> QED
    BY <1>4, <2>2, <2>3, <2>4 DEF RestartClient
<1> QED
  BY <1>1, <1>2, <1>3, <1>4

LEMMA ErrorStepKeepsInv == ErrorsInv /\ [ErrorsNext]_errorVars => ErrorsInv'
<1> SUFFICES ASSUME ErrorsInv, [ErrorsNext]_errorVars
             PROVE  ErrorsInv'
  OBVIOUS
<1>1. CASE (\E e \in Errors : ReadQueue(e)) \/ WriteQueue \/ WriteFails
  BY <1>1, AppendKeepsInv
<1>2. CASE ReadBatch \/ Upload \/ UploadFails \/ EndFlush
  BY <1>2, UploadKeepsInv
<1>3. CASE StoreCredentials \/ EraseState \/ EraseQueue \/ RestartClient
  BY <1>3, RestartKeepsInv
<1>4. CASE UNCHANGED errorVars
  BY <1>4 DEF errorVars, uploadVars, historyVars, ErrorsInv, ErrorsTypeOK, HolderKnowsQueue,
     NoErrorIsLost, Queued, Displaced
<1> QED
  BY <1>1, <1>2, <1>3, <1>4 DEF ErrorsNext

LEMMA ErrorsInvariance == ErrorsSpec => []ErrorsInv
  BY ErrorsInitInv, ErrorStepKeepsInv, PTL DEF ErrorsSpec

\* The file, the batch and the tables are in a state the code knows.
THEOREM ErrorsTypeCorrect == ErrorsSpec => []ErrorsTypeOK
  BY ErrorsInvariance, PTL DEF ErrorsInv

\* However long the queue is and wherever the client ends, an error that was
\* reported is in the queue or in the server's table, unless it was displaced,
\* erased or in a file that was cut short (queueMu).
THEOREM ReportedIsKept == ErrorsSpec => []NoErrorIsLost
  BY ErrorsInvariance, PTL DEF ErrorsInv

-----------------------------------------------------------------------------
(* The elevated helper *)

\* Where a helper is while it does what the request in its pipe says.
Working == {"fetch", "writing", "verified", "run", "verify", "stat", "remove", "check"}

Fetching(t) == helper[t] \in {"writing", "verified"}

\* A helper works only for a client that has asked, and what it reports as
\* done, it did.
OnRequest ==
  \A t \in Tasks :
    /\ helper[t] \in Working => client[t] \in {"asked", "failed"}
    /\ helper[t] \in {"verify", "done"} => t \in acted

\* Until two helpers meet in .MeshAgent.download, the one that is there wrote
\* what is in it, and a broken download is never renamed.
OneDownload ==
  mixed \/ /\ \A t, u \in Tasks : Fetching(t) /\ Fetching(u) => t = u
           /\ \A t \in Tasks : Fetching(t) => download = {t}
           /\ \A t \in broken : helper[t] \in {"error", "gone"}
           /\ \A t \in program : helper[t] \in {"run", "verify", "done", "error", "gone"}

HelperInv == HelperTypeOK /\ OnRequest /\ OneDownload /\ ProgramIsVerified

LEMMA HelperInitInv == HelperInit => HelperInv
  BY DEF HelperInit, HelperInv, HelperTypeOK, OnRequest, OneDownload, Working,
         Fetching, ProgramIsVerified

\* The client never touches the files; it turns to a call that is asked or
\* over, so that no helper works for a call that was refused.
LEMMA CallKeepsInv ==
  ASSUME HelperInv, NEW t \in Tasks, Launch(t) \/ ClientStep(t) \/ ConsentLate(t)
  PROVE  HelperInv'
<1> USE DEF HelperInv, HelperTypeOK, OnRequest, OneDownload, Working, Fetching,
            ProgramIsVerified, Ended, Results, ClientGoes, HelperGoes, callState, agentVars
<1>1. CASE Launch(t)
  BY <1>1 DEF Launch
<1>2. CASE Consent(t)
  BY <1>2 DEF Consent
<1>3. CASE Refuse(t)
  BY <1>3 DEF Refuse
<1>4. CASE ConsentLate(t)
  BY <1>4 DEF ConsentLate
<1>5. CASE SendRequest(t)
  BY <1>5 DEF SendRequest
<1>6. CASE ConnectTimesOut(t)
  BY <1>6 DEF ConnectTimesOut
<1>7. CASE ReadResult(t)
  BY <1>7 DEF ReadResult
<1> QED
  BY <1>1, <1>2, <1>3, <1>4, <1>5, <1>6, <1>7 DEF ClientStep

LEMMA ClientEndKeepsInv == ASSUME HelperInv, ClientEnds PROVE HelperInv'
<1> USE DEF HelperInv, ClientEnds, callState, agentVars
<1>1. HelperTypeOK'
  BY DEF HelperTypeOK, Ended
<1>2. OnRequest'
  BY DEF HelperTypeOK, OnRequest, Working
<1>3. OneDownload' /\ ProgramIsVerified'
  BY DEF OneDownload, Fetching, ProgramIsVerified
<1> QED
  BY <1>1, <1>2, <1>3

\* Steps that leave the two files as they are.
LEMMA QuietKeepsInv ==
  ASSUME HelperInv, NEW t \in Tasks,
         \/ ConnectPipe(t) \/ ReadRequest(t) \/ CloseDownload(t) \/ RunInstall(t)
         \/ VerifyService(t) \/ StatProgram(t) \/ RunUninstall(t) \/ CheckRemoved(t)
  PROVE  HelperInv'
<1> USE DEF HelperInv, HelperTypeOK, OnRequest, OneDownload, Working, Fetching,
            ProgramIsVerified, Ended, Results, HelperGoes, callState, agentVars
<1>1. CASE ConnectPipe(t)
  BY <1>1 DEF ConnectPipe, Pipe
<1>2. CASE ReadRequest(t)
  BY <1>2 DEF ReadRequest, Operate, Pipe
<1>3. CASE CloseDownload(t)
  BY <1>3 DEF CloseDownload
<1>4. CASE RunInstall(t)
  BY <1>4 DEF RunInstall
<1>5. CASE VerifyService(t)
  BY <1>5 DEF VerifyService
<1>6. CASE StatProgram(t)
  BY <1>6 DEF StatProgram
<1>7. CASE RunUninstall(t)
  BY <1>7 DEF RunUninstall
<1>8. CASE CheckRemoved(t)
  BY <1>8 DEF CheckRemoved
<1> QED
  BY <1>1, <1>2, <1>3, <1>4, <1>5, <1>6, <1>7, <1>8

LEMMA FilesKeepInv ==
  ASSUME HelperInv, NEW t \in Tasks,
         \/ OpenDownload(t) \/ DownloadBreaks(t) \/ InstallFile(t)
         \/ RenameFails(t) \/ HelperFails(t)
  PROVE  HelperInv'
<1> USE DEF HelperInv, HelperTypeOK, OnRequest, OneDownload, Working, Fetching,
            ProgramIsVerified, Ended, Results, HelperGoes, callState, agentVars
<1>1. CASE OpenDownload(t)
  <2>1. HelperTypeOK' /\ OnRequest'
    BY <1>1 DEF OpenDownload
  <2>2. CASE mixed'
    BY <2>1, <2>2
  <2>3. CASE ~mixed'
    <3>1. ~mixed /\ \A u \in Tasks : ~Fetching(u)
      BY <1>1, <2>3 DEF OpenDownload
    <3>2. download' = {t} /\ \A u \in Tasks : Fetching(u)' => u = t
      BY <1>1, <3>1 DEF OpenDownload
    <3>3. OneDownload' /\ ProgramIsVerified'
      BY <1>1, <3>1, <3>2 DEF OpenDownload
    <3> QED
      BY <2>1, <3>3
  <2> QED
    BY <2>2, <2>3
<1>2. CASE DownloadBreaks(t)
  BY <1>2 DEF DownloadBreaks, RemoveDownload
<1>3. CASE InstallFile(t)
  BY <1>3 DEF InstallFile
<1>4. CASE RenameFails(t)
  BY <1>4 DEF RenameFails, RemoveDownload
<1>5. CASE HelperFails(t)
  BY <1>5 DEF HelperFails
<1> QED
  BY <1>1, <1>2, <1>3, <1>4, <1>5

LEMMA HelperStepKeepsInv == HelperInv /\ [HelperNext]_helperVars => HelperInv'
<1> SUFFICES ASSUME HelperInv, [HelperNext]_helperVars
             PROVE  HelperInv'
  OBVIOUS
<1>1. ASSUME NEW t \in Tasks, Launch(t) \/ ClientStep(t) \/ ConsentLate(t)
      PROVE  HelperInv'
  BY <1>1, CallKeepsInv
<1>2. CASE ClientEnds
  BY <1>2, ClientEndKeepsInv
<1>3. ASSUME NEW t \in Tasks, HelperStep(t) \/ HelperFails(t)
      PROVE  HelperInv'
  BY <1>3, QuietKeepsInv, FilesKeepInv DEF HelperStep
<1>4. CASE UNCHANGED helperVars
  BY <1>4 DEF HelperInv, HelperTypeOK, OnRequest, OneDownload, Working, Fetching,
              ProgramIsVerified, helperVars, callState, agentVars
<1> QED
  BY <1>1, <1>2, <1>3, <1>4 DEF HelperNext

LEMMA HelperInvariance == HelperSpec => []HelperInv
  BY HelperInitInv, HelperStepKeepsInv, PTL DEF HelperSpec

\* Client, helper and files are in a state the code knows.
THEOREM HelperTypeCorrect == HelperSpec => []HelperTypeOK
  BY HelperInvariance, PTL DEF HelperInv

\* However many calls there are and wherever each process ends, MeshAgent.exe
\* is one whole download that had the hash of its request, unless two helpers
\* met in the file (install of the helper).
THEOREM OnlyVerifiedPrograms == HelperSpec => []ProgramIsVerified
  BY HelperInvariance, PTL DEF HelperInv

-----------------------------------------------------------------------------
(* The safety part of ImplementsElevatedCall. *)

LEMMA InitRefined == HelperInit => Elevated!Init
  BY DEF HelperInit, Elevated!Init

LEMMA ClientRefined ==
  ASSUME HelperInv, NEW t \in Tasks, Launch(t) \/ ClientStep(t) \/ ConsentLate(t)
  PROVE  Elevated!Next \/ UNCHANGED Elevated!vars
<1> USE DEF HelperInv, HelperTypeOK, Ended, Results, ClientGoes, HelperGoes,
            callState, Elevated!Go, Elevated!vars
<1>1. CASE Launch(t)
  <2>1. Elevated!Open(t)
    BY <1>1 DEF Launch, Elevated!Open
  <2> QED
    BY <2>1 DEF Elevated!Next
<1>2. CASE Consent(t) \/ ConsentLate(t)
  BY <1>2 DEF Consent, ConsentLate
<1>3. CASE Refuse(t) \/ ConnectTimesOut(t)
  <2>1. Elevated!Finish(t)
    BY <1>3 DEF Refuse, ConnectTimesOut, Elevated!Finish
  <2> QED
    BY <2>1 DEF Elevated!Next
<1>4. CASE SendRequest(t)
  <2>1. Elevated!Ask(t)
    BY <1>4 DEF SendRequest, Elevated!Ask
  <2> QED
    BY <2>1 DEF Elevated!Next
<1>5. CASE ReadResult(t)
  <2>1. Elevated!Finish(t)
    BY <1>5 DEF ReadResult, Elevated!Finish, OnRequest
  <2> QED
    BY <2>1 DEF Elevated!Next
<1> QED
  BY <1>1, <1>2, <1>3, <1>4, <1>5 DEF ClientStep

\* A helper adds its call to those carried out only where it works.
LEMMA HelperRefined ==
  ASSUME HelperInv, NEW t \in Tasks, HelperStep(t) \/ HelperFails(t)
  PROVE  Elevated!Next \/ UNCHANGED Elevated!vars
<1>1. client' = client /\ (acted' = acted \/ (helper[t] \in Working /\ acted' = acted \cup {t}))
  BY DEF HelperStep, HelperFails, ConnectPipe, ReadRequest, OpenDownload,
         CloseDownload, DownloadBreaks, InstallFile, RenameFails, RunInstall,
         VerifyService, StatProgram, RunUninstall, CheckRemoved, HelperGoes,
         Working, callState
<1>2. CASE acted' = acted
  BY <1>1, <1>2 DEF Elevated!vars
<1>3. CASE helper[t] \in Working /\ acted' = acted \cup {t}
  <2>1. client[t] \in {"asked", "failed"}
    BY <1>3 DEF HelperInv, OnRequest
  <2>2. Elevated!CarryOut(t)
    BY <1>1, <1>3, <2>1 DEF Elevated!CarryOut
  <2> QED
    BY <2>2 DEF Elevated!Next
<1> QED
  BY <1>1, <1>2, <1>3

LEMMA StepRefined ==
  HelperInv /\ [HelperNext]_helperVars => [Elevated!Next]_(Elevated!vars)
<1> SUFFICES ASSUME HelperInv, [HelperNext]_helperVars
             PROVE  Elevated!Next \/ UNCHANGED Elevated!vars
  OBVIOUS
<1>1. CASE ClientEnds
  <2>1. Elevated!Abandon
    BY <1>1 DEF HelperInv, HelperTypeOK, Ended, ClientEnds, Elevated!Abandon
  <2> QED
    BY <2>1 DEF Elevated!Next
<1>2. ASSUME NEW t \in Tasks,
             Launch(t) \/ ClientStep(t) \/ ConsentLate(t)
               \/ HelperStep(t) \/ HelperFails(t)
      PROVE  Elevated!Next \/ UNCHANGED Elevated!vars
  BY <1>2, ClientRefined, HelperRefined
<1>3. CASE UNCHANGED helperVars
  BY <1>3 DEF helperVars, callState, Elevated!vars
<1> QED
  BY <1>1, <1>2, <1>3 DEF HelperNext

\* Every step of client and helper is one that an elevated call may take:
\* nothing is carried out for a call that was given up before the helper had
\* its request, and success is reported only of what was done
\* (runHelperElevated; that every call ends is left to the model checker).
THEOREM CallsAreElevatedCalls ==
  HelperSpec => Elevated!Init /\ [][Elevated!Next]_(Elevated!vars)
  BY InitRefined, StepRefined, HelperInvariance, PTL DEF HelperSpec

-----------------------------------------------------------------------------
(* Sequences: what is defined by recursion, for every length *)

LEMMA Induction ==
  ASSUME NEW S, 0 \in S, \A n \in Nat : n \in S => n + 1 \in S
  PROVE  Nat \subseteq S
<1> SUFFICES ASSUME Nat \ S # {}
             PROVE  FALSE
  OBVIOUS
<1>1. PICK n \in Nat \ S : \A m \in Nat \ S : ~ (<<m, n>> \in OpToRel(<, Nat))
  BY NatLessThanWellFounded, WFMin
<1>2. n # 0 /\ n - 1 \in Nat
  OBVIOUS
<1>3. <<n - 1, n>> \in OpToRel(<, Nat)
  BY <1>2 DEF OpToRel
<1>4. n - 1 \in S
  BY <1>1, <1>2, <1>3
<1> QED
  BY <1>2, <1>4

\* A function of step i and of the value before it, and what it defines.
Steps(F, n, V) == \A i \in 2..n : \A v \in V : F[i][v] \in V

Solves(f, n, V, first, F) ==
  /\ \A i \in 1..n : f[i] \in V
  /\ n > 0 => f[1] = first
  /\ \A i \in 2..n : f[i] = F[i][f[i - 1]]

LEMMA Recursion ==
  ASSUME NEW n \in Nat, NEW V, NEW first \in V, NEW F, Steps(F, n, V)
  PROVE  \E f : Solves(f, n, V, first, F)
<1> DEFINE Solved(m) == m <= n => \E f : Solves(f, m, V, first, F)
           S == {m \in Nat : Solved(m)}
<1>1. Solved(0)
  BY DEF Solves
<1>2. ASSUME NEW m \in Nat, Solved(m)
      PROVE  Solved(m + 1)
  <2> SUFFICES ASSUME m + 1 <= n
               PROVE  \E f : Solves(f, m + 1, V, first, F)
    OBVIOUS
  <2>1. PICK f : Solves(f, m, V, first, F)
    BY <1>2
  <2> DEFINE next == IF m = 0 THEN first ELSE F[m + 1][f[m]]
             g == [i \in 1..(m + 1) |-> IF i <= m THEN f[i] ELSE next]
  <2>2. next \in V
    BY <2>1 DEF Solves, Steps
  <2>3. Solves(g, m + 1, V, first, F)
    BY <2>1, <2>2 DEF Solves
  <2> QED
    BY <2>3
<1> HIDE DEF Solved
<1>3. 0 \in S /\ \A m \in Nat : m \in S => m + 1 \in S
  BY <1>1, <1>2
<1>4. Nat \subseteq S
  <2> HIDE DEF S
  <2> QED
    BY <1>3, Induction
<1> QED
  BY <1>4 DEF Solved

\* Induction up to n.
LEMMA InductionTo ==
  ASSUME NEW n \in Nat, NEW S, n > 0 => 1 \in S, \A i \in 2..n : i - 1 \in S => i \in S
  PROVE  1..n \subseteq S
<1> DEFINE T == {m \in Nat : m + 1 <= n => m + 1 \in S}
<1>1. 0 \in T
  OBVIOUS
<1>2. ASSUME NEW m \in Nat, m \in T
      PROVE  m + 1 \in T
  <2> SUFFICES ASSUME m + 2 <= n
               PROVE  m + 2 \in S
    OBVIOUS
  <2>1. m + 1 \in S /\ m + 2 \in 2..n /\ (m + 2) - 1 = m + 1
    BY <1>2
  <2> QED
    BY <2>1
<1>3. Nat \subseteq T
  <2> HIDE DEF T
  <2> QED
    BY <1>1, <1>2, Induction
<1> SUFFICES ASSUME NEW i \in 1..n
             PROVE  i \in S
  OBVIOUS
<1>4. i - 1 \in T
  BY <1>3
<1> QED
  BY <1>4

LEMMA RecursionTyped ==
  ASSUME NEW n \in Nat, NEW V, NEW F, Steps(F, n, V),
         NEW f, n > 0 => f[1] \in V, \A i \in 2..n : f[i - 1] \in V => f[i] = F[i][f[i - 1]]
  PROVE  \A i \in 1..n : f[i] \in V
<1> DEFINE S == {i \in 1..n : f[i] \in V}
<1>1. (n > 0 => 1 \in S) /\ \A i \in 2..n : i - 1 \in S => i \in S
  BY DEF Steps
<1>2. 1..n \subseteq S
  <2> HIDE DEF S
  <2> QED
    BY <1>1, InductionTo
<1> QED
  BY <1>2

\* What FlattenSeq computes, one sequence after the other.
Flattening(f, n, ss, D) ==
  /\ \A i \in 1..n : f[i] \in Seq(D)
  /\ f[1] = ss[1] /\ \A i \in 2..n : f[i] = f[i - 1] \o ss[i]
  /\ FlattenSeq(ss) = f[n]

LEMMA FlattenDefined ==
  ASSUME NEW D, NEW n \in Nat, n > 0, NEW ss \in [1..n -> Seq(D)]
  PROVE  \E f : Flattening(f, n, ss, D)
<1> DEFINE F == [i \in 2..n |-> [s \in Seq(D) |-> s \o ss[i]]]
           Flat(h) == h = [i \in 1..n |-> IF i = 1 THEN ss[i] ELSE h[i - 1] \o ss[i]]
           flat == CHOOSE h : Flat(h)
<1>1. ASSUME NEW i \in 2..n, NEW s \in Seq(D)
      PROVE  F[i][s] = s \o ss[i]
  OBVIOUS
<1>2. Steps(F, n, Seq(D)) /\ ss[1] \in Seq(D)
  BY <1>1 DEF Steps
<1>3. \E f : Flat(f)
  <2>1. PICK f : Solves(f, n, Seq(D), ss[1], F)
    <3> HIDE DEF F
    <3> QED
      BY <1>2, Recursion
  <2>2. ASSUME NEW i \in 1..n
        PROVE  f[i] = IF i = 1 THEN ss[i] ELSE f[i - 1] \o ss[i]
    <3>1. CASE i = 1
      BY <2>1, <3>1 DEF Solves
    <3>2. CASE i \in 2..n
      <4> HIDE DEF F
      <4>1. f[i - 1] \in Seq(D) /\ f[i] = F[i][f[i - 1]]
        <5>1. i - 1 \in 1..n
          BY <3>2
        <5>2. f[i - 1] \in Seq(D)
          BY <2>1, <5>1, Zenon DEF Solves
        <5>3. f[i] = F[i][f[i - 1]]
          BY <2>1, <3>2, Zenon DEF Solves
        <5> QED
          BY <5>2, <5>3, Zenon
      <4>2. F[i][f[i - 1]] = f[i - 1] \o ss[i]
        BY <1>1, <3>2, <4>1, Zenon
      <4>3. i # 1
        BY <3>2
      <4>4. f[i] = f[i - 1] \o ss[i]
        BY <4>1, <4>2, Zenon
      <4> QED
        BY <4>3, <4>4, Zenon
    <3> QED
      BY <3>1, <3>2
  <2> DEFINE g == [i \in 1..n |-> f[i]]
  <2>3. Flat(g)
    BY <2>2
  <2> QED
    BY <2>3
<1>4. Flat(flat)
  <2> HIDE DEF Flat
  <2> QED
    BY <1>3
<1>5. Len(ss) = n
  OBVIOUS
<1>6. FlattenSeq(ss) = flat[n]
  BY <1>5 DEF FlattenSeq
<1> HIDE DEF flat
<1>7. ASSUME NEW i \in 1..n
      PROVE  flat[i] = IF i = 1 THEN ss[i] ELSE flat[i - 1] \o ss[i]
  BY <1>4
<1>8. flat[1] = ss[1]
  BY <1>7
<1>9. ASSUME NEW i \in 2..n
      PROVE  flat[i] = flat[i - 1] \o ss[i]
  <2>1. i \in 1..n /\ i # 1
    OBVIOUS
  <2> QED
    BY <1>7, <2>1
<1>10. \A i \in 1..n : flat[i] \in Seq(D)
  <2>1. \A i \in 2..n : flat[i - 1] \in Seq(D) => flat[i] = F[i][flat[i - 1]]
    BY <1>1, <1>9
  <2>2. flat[1] \in Seq(D)
    BY <1>2, <1>8
  <2> HIDE DEF F
  <2> QED
    BY <1>2, <2>1, <2>2, RecursionTyped
<1> QED
  BY <1>6, <1>8, <1>9, <1>10 DEF Flattening

\* The elements of two sequences put together.
LEMMA Concatenation ==
  ASSUME NEW D, NEW s \in Seq(D), NEW t \in Seq(D)
  PROVE  /\ ToSet(s \o t) = ToSet(s) \cup ToSet(t)
         /\ IsInjective(s) /\ IsInjective(t) /\ ToSet(s) \cap ToSet(t) = {} => IsInjective(s \o t)
<1>1. /\ s \o t \in Seq(D) /\ Len(s \o t) = Len(s) + Len(t)
      /\ \A i \in 1..(Len(s) + Len(t)) : (s \o t)[i] = IF i <= Len(s) THEN s[i] ELSE t[i - Len(s)]
  OBVIOUS
<1>2. ToSet(s \o t) = ToSet(s) \cup ToSet(t)
  <2>1. ASSUME NEW x \in ToSet(s)
        PROVE  x \in ToSet(s \o t)
    <3>1. PICK i \in 1..Len(s) : s[i] = x
      BY DEF ToSet
    <3>2. i \in 1..(Len(s) + Len(t)) /\ (s \o t)[i] = x
      BY <1>1, <3>1
    <3> QED
      BY <1>1, <3>2 DEF ToSet
  <2>2. ASSUME NEW x \in ToSet(t)
        PROVE  x \in ToSet(s \o t)
    <3>1. PICK i \in 1..Len(t) : t[i] = x
      BY DEF ToSet
    <3>2. Len(s) + i \in 1..(Len(s) + Len(t)) /\ (s \o t)[Len(s) + i] = x
      BY <1>1, <3>1
    <3> QED
      BY <1>1, <3>2 DEF ToSet
  <2>3. ASSUME NEW x \in ToSet(s \o t)
        PROVE  x \in ToSet(s) \cup ToSet(t)
    <3>1. PICK i \in 1..(Len(s) + Len(t)) : (s \o t)[i] = x
      BY <1>1 DEF ToSet
    <3>2. CASE i <= Len(s)
      BY <1>1, <3>1, <3>2 DEF ToSet
    <3>3. CASE i > Len(s)
      <4>1. i - Len(s) \in 1..Len(t)
        BY <3>3
      <4> QED
        BY <1>1, <3>1, <3>3, <4>1 DEF ToSet
    <3> QED
      BY <3>2, <3>3
  <2> QED
    BY <2>1, <2>2, <2>3
<1>3. ASSUME IsInjective(s), IsInjective(t), ToSet(s) \cap ToSet(t) = {}
      PROVE  IsInjective(s \o t)
  <2> SUFFICES ASSUME NEW i \in 1..(Len(s) + Len(t)), NEW j \in 1..(Len(s) + Len(t)),
                      (s \o t)[i] = (s \o t)[j]
               PROVE  i = j
    BY <1>1 DEF IsInjective
  <2>1. CASE i <= Len(s) /\ j <= Len(s)
    BY <1>1, <1>3, <2>1 DEF IsInjective
  <2>2. CASE i > Len(s) /\ j > Len(s)
    <3>1. i - Len(s) \in 1..Len(t) /\ j - Len(s) \in 1..Len(t)
      BY <2>2
    <3>2. i - Len(s) = j - Len(s)
      BY <1>1, <1>3, <2>2, <3>1 DEF IsInjective
    <3> QED
      BY <3>2
  <2>3. ASSUME NEW k \in 1..(Len(s) + Len(t)), NEW l \in 1..(Len(s) + Len(t)), k <= Len(s), l > Len(s)
        PROVE  (s \o t)[k] # (s \o t)[l]
    <3>1. k \in 1..Len(s) /\ l - Len(s) \in 1..Len(t)
      BY <2>3
    <3>2. (s \o t)[k] = s[k] /\ (s \o t)[l] = t[l - Len(s)]
      BY <1>1, <2>3
    <3>3. s[k] \in ToSet(s)
      BY <3>1 DEF ToSet
    <3>4. t[l - Len(s)] \in ToSet(t)
      BY <3>1 DEF ToSet
    <3>5. \A x \in ToSet(s) : x \notin ToSet(t)
      BY <1>3
    <3> QED
      BY <3>2, <3>3, <3>4, <3>5, Zenon
  <2> QED
    BY <2>1, <2>2, <2>3
<1> QED
  BY <1>2, <1>3

Apart(ss, n) == \A i, j \in 1..n : i # j => ToSet(ss[i]) \cap ToSet(ss[j]) = {}

\* The elements of a flattened sequence of sequences; it repeats none when
\* they do not, each and together.
LEMMA Flattened ==
  ASSUME NEW D, NEW n \in Nat, NEW ss \in [1..n -> Seq(D)]
  PROVE  /\ FlattenSeq(ss) \in Seq(D)
         /\ ToSet(FlattenSeq(ss)) = UNION {ToSet(ss[i]) : i \in 1..n}
         /\ (\A i \in 1..n : IsInjective(ss[i])) /\ Apart(ss, n) => IsInjective(FlattenSeq(ss))
<1>1. CASE n = 0
  <2>1. ss = <<>> /\ Len(ss) = 0 /\ 1..n = {}
    BY <1>1
  <2>2. FlattenSeq(ss) = <<>>
    BY <2>1 DEF FlattenSeq
  <2>3. ToSet(<<>>) = {} /\ IsInjective(<<>>)
    BY DEF ToSet, IsInjective
  <2>4. UNION {ToSet(ss[i]) : i \in 1..n} = {}
    BY <2>1
  <2>5. <<>> \in Seq(D)
    OBVIOUS
  <2> QED
    BY <2>2, <2>3, <2>4, <2>5, Zenon
<1>2. CASE n > 0
  <2>1. PICK f : Flattening(f, n, ss, D)
    BY <1>2, FlattenDefined
  <2> DEFINE Before(i) == UNION {ToSet(ss[j]) : j \in 1..i}
             S == {i \in 1..n : ToSet(f[i]) = Before(i)}
             T == {i \in 1..n : IsInjective(f[i])}
  <2>2. f[1] = ss[1] /\ 1 \in 1..n /\ n \in 1..n
    BY <1>2, <2>1 DEF Flattening
  <2>3. ASSUME NEW i \in 2..n
        PROVE  /\ i \in 1..n /\ i - 1 \in 1..n
               /\ f[i - 1] \in Seq(D) /\ ss[i] \in Seq(D) /\ f[i] = f[i - 1] \o ss[i]
    <3>1. i \in 1..n /\ i - 1 \in 1..n
      OBVIOUS
    <3>2. f[i - 1] \in Seq(D) /\ ss[i] \in Seq(D)
      BY <2>1, <3>1 DEF Flattening
    <3>3. f[i] = f[i - 1] \o ss[i]
      BY <2>1, Zenon DEF Flattening
    <3> QED
      BY <3>1, <3>2, <3>3, Zenon
  <2>4. 1..n \subseteq S
    <3>1. 1 \in S
      <4>1. Before(1) = ToSet(ss[1])
        OBVIOUS
      <4> QED
        BY <2>2, <4>1
    <3>2. ASSUME NEW i \in 2..n, i - 1 \in S
          PROVE  i \in S
      <4>1. 1..i = 1..(i - 1) \cup {i}
        OBVIOUS
      <4>2. Before(i) = Before(i - 1) \cup ToSet(ss[i])
        BY <4>1
      <4>3. f[i - 1] \in Seq(D) /\ ss[i] \in Seq(D)
        BY <2>3, Zenon
      <4>4. ToSet(f[i - 1] \o ss[i]) = ToSet(f[i - 1]) \cup ToSet(ss[i])
        <5> DEFINE before == f[i - 1]
                   next == ss[i]
        <5> HIDE DEF before, next
        <5>1. before \in Seq(D) /\ next \in Seq(D)
          BY <4>3 DEF before, next
        <5>2. ToSet(before \o next) = ToSet(before) \cup ToSet(next)
          BY <5>1, Concatenation
        <5> QED
          BY <5>2, Zenon DEF before, next
      <4>5. f[i] = f[i - 1] \o ss[i]
        BY <2>3, Zenon
      <4>6. ToSet(f[i]) = ToSet(f[i - 1]) \cup ToSet(ss[i])
        BY <4>4, <4>5, Zenon
      <4>7. ToSet(f[i - 1]) = Before(i - 1)
        BY <3>2
      <4>8. i \in 1..n
        OBVIOUS
      <4> HIDE DEF Before
      <4> QED
        BY <4>2, <4>6, <4>7, <4>8
    <3> HIDE DEF S
    <3> QED
      BY <3>1, <3>2, InductionTo
  <2>5. ASSUME \A i \in 1..n : IsInjective(ss[i]), Apart(ss, n)
        PROVE  1..n \subseteq T
    <3>1. 1 \in T
      BY <2>2, <2>5
    <3>2. ASSUME NEW i \in 2..n, i - 1 \in T
          PROVE  i \in T
      <4>1. ToSet(f[i - 1]) = Before(i - 1)
        BY <2>3, <2>4
      <4>2. ToSet(f[i - 1]) \cap ToSet(ss[i]) = {}
        <5>1. \A j \in 1..(i - 1) : j \in 1..n /\ j # i
          OBVIOUS
        <5>2. \A j \in 1..(i - 1) : ToSet(ss[j]) \cap ToSet(ss[i]) = {}
          BY <2>3, <2>5, <5>1 DEF Apart
        <5> QED
          BY <4>1, <5>2
      <4>3. IsInjective(f[i - 1]) /\ IsInjective(ss[i])
        BY <2>3, <2>5, <3>2
      <4>4. IsInjective(f[i - 1] \o ss[i])
        BY <2>3, <4>2, <4>3, Concatenation
      <4> QED
        BY <2>3, <4>4
    <3> HIDE DEF T
    <3> QED
      BY <3>1, <3>2, InductionTo
  <2>6. FlattenSeq(ss) = f[n] /\ f[n] \in Seq(D)
    BY <2>1, <2>2 DEF Flattening
  <2>7. ToSet(f[n]) = UNION {ToSet(ss[i]) : i \in 1..n}
    BY <2>2, <2>4
  <2> QED
    BY <2>2, <2>5, <2>6, <2>7
<1> QED
  BY <1>1, <1>2

\* A filtered array keeps what is in the set, each as often as before.
LEMMA Filtered ==
  ASSUME NEW D, NEW s \in Seq(D), NEW S
  PROVE  /\ Filter(s, S) \in Seq(D)
         /\ ToSet(Filter(s, S)) = ToSet(s) \cap S
         /\ IsInjective(s) => IsInjective(Filter(s, S))
<1> DEFINE ss == [i \in DOMAIN s |-> IF s[i] \in S THEN <<s[i]>> ELSE <<>>]
<1>1. DOMAIN s = 1..Len(s) /\ \A i \in 1..Len(s) : s[i] \in D
  OBVIOUS
<1>2. Len(s) \in Nat
  OBVIOUS
<1>3. ASSUME NEW i \in 1..Len(s)
      PROVE  /\ ss[i] \in Seq(D) /\ IsInjective(ss[i])
             /\ ToSet(ss[i]) = IF s[i] \in S THEN {s[i]} ELSE {}
  <2>1. CASE s[i] \in S
    <3>1. ss[i] = <<s[i]>>
      BY <1>1, <2>1
    <3>2. <<s[i]>> \in Seq(D) /\ IsInjective(<<s[i]>>) /\ ToSet(<<s[i]>>) = {s[i]}
      BY <1>1 DEF IsInjective, ToSet
    <3> QED
      BY <2>1, <3>1, <3>2
  <2>2. CASE s[i] \notin S
    <3>1. ss[i] = <<>>
      BY <1>1, <2>2
    <3>2. <<>> \in Seq(D) /\ IsInjective(<<>>) /\ ToSet(<<>>) = {}
      BY DEF IsInjective, ToSet
    <3> QED
      BY <2>2, <3>1, <3>2
  <2> QED
    BY <2>1, <2>2
<1>4. ss \in [1..Len(s) -> Seq(D)]
  <2>1. ss = [i \in 1..Len(s) |-> ss[i]]
    BY <1>1
  <2> HIDE DEF ss
  <2> QED
    BY <1>3, <2>1
<1>5. Filter(s, S) = FlattenSeq(ss)
  BY DEF Filter
<1> HIDE DEF ss
<1>6. /\ FlattenSeq(ss) \in Seq(D)
      /\ ToSet(FlattenSeq(ss)) = UNION {ToSet(ss[i]) : i \in 1..Len(s)}
  BY <1>2, <1>4, Flattened
<1>7. UNION {ToSet(ss[i]) : i \in 1..Len(s)} = ToSet(s) \cap S
  <2>1. ToSet(s) = {s[i] : i \in 1..Len(s)}
    BY <1>1 DEF ToSet
  <2>2. ASSUME NEW x
        PROVE  (\E i \in 1..Len(s) : x \in ToSet(ss[i])) <=> x \in ToSet(s) /\ x \in S
    <3>1. \A i \in 1..Len(s) : x \in ToSet(ss[i]) <=> s[i] \in S /\ x = s[i]
      BY <1>3
    <3> QED
      BY <2>1, <3>1
  <2> QED
    BY <2>2
<1>8. ASSUME IsInjective(s)
      PROVE  IsInjective(FlattenSeq(ss))
  <2>1. Apart(ss, Len(s))
    <3> SUFFICES ASSUME NEW i \in 1..Len(s), NEW j \in 1..Len(s), i # j
                 PROVE  ToSet(ss[i]) \cap ToSet(ss[j]) = {}
      BY DEF Apart
    <3>1. s[i] # s[j]
      BY <1>1, <1>8 DEF IsInjective
    <3> QED
      BY <1>3, <3>1
  <2>2. \A i \in 1..Len(s) : IsInjective(ss[i])
    BY <1>3
  <2> QED
    BY <1>2, <1>4, <2>1, <2>2, Flattened
<1> QED
  BY <1>5, <1>6, <1>7, <1>8

\* A finite set as an array.
LEMMA Listed ==
  ASSUME NEW S, IsFiniteSet(S)
  PROVE  SetToSeq(S) \in Seq(S) /\ ToSet(SetToSeq(S)) = S /\ IsInjective(SetToSeq(S))
<1> DEFINE n == Cardinality(S)
           s == SetToSeq(S)
<1>1. n \in Nat /\ ExistsBijection(1..n, S)
  BY FS_CardinalityType
<1>2. \E f \in [1..n -> S] : IsInjective(f)
  BY <1>1 DEF ExistsBijection, Bijection, Injection
<1>3. s \in [1..n -> S] /\ IsInjective(s)
  BY <1>2 DEF SetToSeq
<1> HIDE DEF s
<1>4. s \in Injection(1..n, S)
  BY <1>3 DEF Injection
<1>5. Cardinality(1..n) = n
  BY <1>1, FS_Interval
<1>6. s \in Surjection(1..n, S)
  BY <1>4, <1>5, FS_Injection
<1>7. ToSet(s) = S
  BY <1>3, <1>6 DEF Surjection, ToSet
<1>8. s \in Seq(S)
  BY <1>1, <1>3
<1> QED
  BY <1>3, <1>7, <1>8 DEF s

\* An array without repetition is no longer than there are values for it.
LEMMA Bounded ==
  ASSUME NEW D, IsFiniteSet(D), NEW s \in Seq(D), IsInjective(s)
  PROVE  s \in SeqOf(D, Cardinality(D))
<1>1. Len(s) \in Nat /\ s \in [1..Len(s) -> D]
  OBVIOUS
<1>2. s \in Injection(1..Len(s), D)
  BY <1>1 DEF Injection
<1>3. Cardinality(1..Len(s)) = Len(s)
  BY <1>1, FS_Interval
<1>4. Len(s) <= Cardinality(D)
  BY <1>2, <1>3, FS_Injection
<1>5. Cardinality(D) \in Nat
  BY FS_CardinalityType
<1>6. Len(s) \in 0..Cardinality(D)
  BY <1>1, <1>4, <1>5
<1> QED
  BY <1>1, <1>6 DEF SeqOf

LEMMA BoundedType ==
  ASSUME NEW D, NEW n \in Nat, NEW s \in SeqOf(D, n)
  PROVE  s \in Seq(D)
<1>1. PICK m \in 0..n : s \in [1..m -> D]
  BY DEF SeqOf
<1>2. m \in Nat
  OBVIOUS
<1> QED
  BY <1>1, <1>2

\* A part of an array.
LEMMA Slice ==
  ASSUME NEW D, NEW s \in Seq(D), NEW a \in 1..(Len(s) + 1), NEW b \in (a - 1)..Len(s)
  PROVE  /\ SubSeq(s, a, b) \in Seq(D) /\ Len(SubSeq(s, a, b)) = b - a + 1
         /\ ToSet(SubSeq(s, a, b)) = {s[k] : k \in a..b}
         /\ IsInjective(s) => IsInjective(SubSeq(s, a, b))
<1> DEFINE t == SubSeq(s, a, b)
<1>1. t \in Seq(D) /\ Len(t) = b - a + 1 /\ \A i \in 1..(b - a + 1) : t[i] = s[a + i - 1]
  <2>1. b - a + 1 \in Nat
    OBVIOUS
  <2> QED
    BY <2>1
<1>2. DOMAIN t = 1..(b - a + 1)
  BY <1>1
<1> HIDE DEF t
<1>3. ToSet(t) = {s[k] : k \in a..b}
  <2>1. ASSUME NEW i \in 1..(b - a + 1)
        PROVE  t[i] \in {s[k] : k \in a..b}
    <3>1. a + i - 1 \in a..b
      OBVIOUS
    <3> QED
      BY <1>1, <3>1
  <2>2. ASSUME NEW k \in a..b
        PROVE  s[k] \in ToSet(t)
    <3>1. k - a + 1 \in 1..(b - a + 1) /\ a + (k - a + 1) - 1 = k
      OBVIOUS
    <3>2. t[k - a + 1] = s[k]
      BY <1>1, <3>1
    <3> QED
      BY <1>2, <3>1, <3>2 DEF ToSet
  <2> QED
    BY <1>2, <2>1, <2>2 DEF ToSet
<1>4. ASSUME IsInjective(s), NEW i \in 1..(b - a + 1), NEW j \in 1..(b - a + 1), t[i] = t[j]
      PROVE  i = j
  <2>1. a + i - 1 \in 1..Len(s) /\ a + j - 1 \in 1..Len(s)
    OBVIOUS
  <2>2. s[a + i - 1] = s[a + j - 1]
    BY <1>1, <1>4
  <2>3. a + i - 1 = a + j - 1
    BY <1>4, <2>1, <2>2 DEF IsInjective
  <2> QED
    BY <2>3
<1>5. IsInjective(s) => IsInjective(t)
  BY <1>2, <1>4 DEF IsInjective
<1> QED
  BY <1>1, <1>3, <1>5 DEF t

\* One element less.
LEMMA Removed ==
  ASSUME NEW D, NEW s \in Seq(D), IsInjective(s), NEW i \in 1..Len(s)
  PROVE  /\ RemoveAt(s, i) \in Seq(D) /\ Len(RemoveAt(s, i)) = Len(s) - 1
         /\ ToSet(RemoveAt(s, i)) = ToSet(s) \ {s[i]} /\ IsInjective(RemoveAt(s, i))
<1> DEFINE a == SubSeq(s, 1, i - 1)
           b == SubSeq(s, i + 1, Len(s))
<1>1. /\ 1 \in 1..(Len(s) + 1) /\ i - 1 \in (1 - 1)..Len(s)
      /\ i + 1 \in 1..(Len(s) + 1) /\ Len(s) \in ((i + 1) - 1)..Len(s)
  OBVIOUS
<1>2. /\ a \in Seq(D) /\ Len(a) = (i - 1) - 1 + 1
      /\ ToSet(a) = {s[k] : k \in 1..(i - 1)} /\ IsInjective(a)
  BY <1>1, Slice
<1>3. /\ b \in Seq(D) /\ Len(b) = Len(s) - (i + 1) + 1
      /\ ToSet(b) = {s[k] : k \in (i + 1)..Len(s)} /\ IsInjective(b)
  BY <1>1, Slice
<1>4. RemoveAt(s, i) = a \o b
  BY DEF RemoveAt
<1> HIDE DEF a, b
<1>5. ToSet(a) \cap ToSet(b) = {}
  <2>1. \A k \in 1..(i - 1), l \in (i + 1)..Len(s) : k \in 1..Len(s) /\ l \in 1..Len(s) /\ k # l
    OBVIOUS
  <2>2. \A k \in 1..(i - 1), l \in (i + 1)..Len(s) : s[k] # s[l]
    BY <2>1 DEF IsInjective
  <2> QED
    BY <1>2, <1>3, <2>2
<1>6. ToSet(a) \cup ToSet(b) = ToSet(s) \ {s[i]}
  <2>1. 1..Len(s) = (1..(i - 1)) \cup {i} \cup ((i + 1)..Len(s))
    OBVIOUS
  <2>2. ToSet(s) = {s[k] : k \in 1..Len(s)}
    BY DEF ToSet
  <2>3. \A k \in (1..(i - 1)) \cup ((i + 1)..Len(s)) : k \in 1..Len(s) /\ k # i
    OBVIOUS
  <2>4. \A k \in (1..(i - 1)) \cup ((i + 1)..Len(s)) : s[k] # s[i]
    <3>1. \A k, l \in 1..Len(s) : s[k] = s[l] => k = l
      BY DEF IsInjective
    <3> QED
      BY <2>3, <3>1, Zenon
  <2> DEFINE I == 1..(i - 1)
             J == (i + 1)..Len(s)
  <2>5. \A k : k \in 1..Len(s) <=> k \in I \/ k = i \/ k \in J
    BY <2>1
  <2>6. ToSet(a) = {s[k] : k \in I} /\ ToSet(b) = {s[k] : k \in J}
    BY <1>2, <1>3, Zenon
  <2> HIDE DEF I, J
  <2>7. \A k : k \in I \/ k \in J => s[k] # s[i]
    BY <2>4, Zenon DEF I, J
  <2>8. ASSUME NEW y \in ToSet(a) \cup ToSet(b)
        PROVE  y \in ToSet(s) \ {s[i]}
    <3>1. PICK k : (k \in I \/ k \in J) /\ y = s[k]
      BY <2>6
    <3> QED
      BY <2>2, <2>5, <2>7, <3>1
  <2>9. ASSUME NEW y \in ToSet(s) \ {s[i]}
        PROVE  y \in ToSet(a) \cup ToSet(b)
    <3>1. PICK k : (k \in I \/ k \in J) /\ y = s[k]
      BY <2>2, <2>5
    <3> QED
      BY <2>6, <3>1
  <2> QED
    BY <2>8, <2>9, Zenon
<1>7. a \o b \in Seq(D) /\ Len(a \o b) = Len(s) - 1
  <2>1. a \in Seq(D) /\ b \in Seq(D)
    BY <1>2, <1>3, Zenon
  <2>2. a \o b \in Seq(D) /\ Len(a \o b) = Len(a) + Len(b)
    BY <2>1
  <2>3. Len(a) + Len(b) = Len(s) - 1
    BY <1>2, <1>3
  <2> QED
    BY <2>2, <2>3, Zenon
<1>8. ToSet(a \o b) = ToSet(a) \cup ToSet(b) /\ IsInjective(a \o b)
  <2>1. a \in Seq(D) /\ b \in Seq(D) /\ IsInjective(a) /\ IsInjective(b)
    BY <1>2, <1>3, Zenon
  <2> QED
    BY <1>5, <2>1, Concatenation
<1> QED
  BY <1>4, <1>6, <1>7, <1>8

\* One element more.
LEMMA Inserted ==
  ASSUME NEW D, NEW s \in Seq(D), IsInjective(s), NEW x \in D, x \notin ToSet(s),
         NEW i \in 1..(Len(s) + 1)
  PROVE  InsertAt(s, i, x) \in Seq(D) /\ IsInjective(InsertAt(s, i, x))
<1> DEFINE a == SubSeq(s, 1, i - 1)
           b == SubSeq(s, i, Len(s))
           e == <<x>>
<1>1. /\ 1 \in 1..(Len(s) + 1) /\ i - 1 \in (1 - 1)..Len(s)
      /\ Len(s) \in (i - 1)..Len(s)
  OBVIOUS
<1>2. a \in Seq(D) /\ ToSet(a) = {s[k] : k \in 1..(i - 1)} /\ IsInjective(a)
  BY <1>1, Slice
<1>3. b \in Seq(D) /\ ToSet(b) = {s[k] : k \in i..Len(s)} /\ IsInjective(b)
  BY <1>1, Slice
<1>4. e \in Seq(D) /\ ToSet(e) = {x} /\ IsInjective(e)
  BY DEF ToSet, IsInjective
<1>5. InsertAt(s, i, x) = a \o e \o b
  BY DEF InsertAt
<1> HIDE DEF a, b, e
<1>6. \A k \in (1..(i - 1)) \cup (i..Len(s)) : s[k] # x
  <2>1. \A k \in (1..(i - 1)) \cup (i..Len(s)) : k \in DOMAIN s
    OBVIOUS
  <2> QED
    BY <2>1 DEF ToSet
<1>7. ToSet(a) \cap ToSet(b) = {}
  <2>1. \A k \in 1..(i - 1), l \in i..Len(s) : k \in 1..Len(s) /\ l \in 1..Len(s) /\ k # l
    OBVIOUS
  <2>2. \A k \in 1..(i - 1), l \in i..Len(s) : s[k] # s[l]
    BY <2>1 DEF IsInjective
  <2> QED
    BY <1>2, <1>3, <2>2
<1>8. ToSet(a) \cap ToSet(e) = {} /\ (ToSet(a) \cup ToSet(e)) \cap ToSet(b) = {}
  BY <1>2, <1>3, <1>4, <1>6, <1>7
<1>9. a \o e \in Seq(D)
  BY <1>2, <1>4
<1>10. ToSet(a \o e) = ToSet(a) \cup ToSet(e) /\ IsInjective(a \o e)
  BY <1>2, <1>4, <1>8, Concatenation
<1> DEFINE c == a \o e
<1> HIDE DEF c
<1>11. c \in Seq(D) /\ ToSet(c) \cap ToSet(b) = {} /\ IsInjective(c)
  BY <1>8, <1>9, <1>10 DEF c
<1>12. c \o b \in Seq(D)
  BY <1>3, <1>11
<1>13. IsInjective(c \o b)
  BY <1>3, <1>11, Concatenation
<1> QED
  BY <1>5, <1>12, <1>13 DEF c

-----------------------------------------------------------------------------
(* The tiles *)

LEMMA ShownType ==
  ASSUME NEW D, NEW s \in Seq(D), NEW k \in Nat
  PROVE  Shown(s, k) \in 0..k /\ Shown(s, k) <= Len(s) /\ Shown(s, k) \in Nat
BY DEF Shown

\* The start of an array.
LEMMA Taken ==
  ASSUME NEW D, NEW s \in Seq(D), NEW m \in 0..Len(s)
  PROVE  /\ SubSeq(s, 1, m) \in Seq(D) /\ Len(SubSeq(s, 1, m)) = m
         /\ \A i \in 1..m : SubSeq(s, 1, m)[i] = s[i]
OBVIOUS

LEMMA SameSequence ==
  ASSUME NEW D, NEW s \in Seq(D), NEW t \in Seq(D), Len(s) = Len(t), \A i \in 1..Len(s) : s[i] = t[i]
  PROVE  s = t
OBVIOUS

LEMMA Joined ==
  ASSUME NEW D, NEW s \in Seq(D), NEW t \in Seq(D)
  PROVE  /\ s \o t \in Seq(D) /\ Len(s \o t) = Len(s) + Len(t)
         /\ \A i \in 1..(Len(s) + Len(t)) : (s \o t)[i] = IF i <= Len(s) THEN s[i] ELSE t[i - Len(s)]
OBVIOUS

\* The start of two arrays put together.
StartsJoin(s, t, k, left) ==
  /\ left - Shown(t, left) = k - Shown(s \o t, k)
  /\ SubSeq(s \o t, 1, Shown(s \o t, k)) = SubSeq(s, 1, Shown(s, k)) \o SubSeq(t, 1, Shown(t, left))

LEMMA ShownJoined ==
  ASSUME NEW D, NEW s \in Seq(D), NEW t \in Seq(D), NEW k \in Nat, NEW left, left = k - Shown(s, k)
  PROVE  StartsJoin(s, t, k, left)
<1> DEFINE u == s \o t
           a == SubSeq(s, 1, Shown(s, k))
           b == SubSeq(t, 1, Shown(t, left))
           c == SubSeq(u, 1, Shown(u, k))
<1>1. /\ u \in Seq(D) /\ Len(u) = Len(s) + Len(t)
      /\ \A i \in 1..(Len(s) + Len(t)) : u[i] = IF i <= Len(s) THEN s[i] ELSE t[i - Len(s)]
  BY Joined
<1> HIDE DEF u
<1>2. Len(s) \in Nat /\ Len(t) \in Nat
  OBVIOUS
<1> DEFINE x == Shown(s, k)
           y == Shown(t, left)
           z == Shown(u, k)
<1>3. /\ x = IF Len(s) <= k THEN Len(s) ELSE k
      /\ y = IF Len(t) <= left THEN Len(t) ELSE left
      /\ z = IF Len(s) + Len(t) <= k THEN Len(s) + Len(t) ELSE k
      /\ left = k - x
  BY <1>1 DEF Shown
<1> HIDE DEF x, y, z
<1>4. /\ left \in Nat /\ left - y = k - z
      /\ x \in 0..Len(s) /\ y \in 0..Len(t) /\ z \in 0..(Len(s) + Len(t))
      /\ z = x + y /\ (y = 0 \/ x = Len(s))
  <2> DEFINE p == Len(s)
             q == Len(t)
  <2>1. p \in Nat /\ q \in Nat
    BY <1>2
  <2> HIDE DEF p, q
  <2> SUFFICES /\ left \in Nat /\ left - y = k - z
               /\ x \in 0..p /\ y \in 0..q /\ z \in 0..(p + q)
               /\ z = x + y /\ (y = 0 \/ x = p)
    BY DEF p, q
  <2>2. /\ x = (IF p <= k THEN p ELSE k) /\ y = (IF q <= left THEN q ELSE left)
        /\ z = (IF p + q <= k THEN p + q ELSE k) /\ left = k - x
    BY <1>3 DEF p, q
  <2> QED
    BY <2>1, <2>2
<1>5. /\ left \in Nat /\ left - Shown(t, left) = k - Shown(u, k)
      /\ Shown(s, k) \in 0..Len(s) /\ Shown(t, left) \in 0..Len(t) /\ Shown(u, k) \in 0..Len(u)
      /\ Shown(u, k) = Shown(s, k) + Shown(t, left) /\ (Shown(t, left) = 0 \/ Shown(s, k) = Len(s))
  BY <1>1, <1>4 DEF x, y, z
<1>6. a \in Seq(D) /\ Len(a) = Shown(s, k) /\ \A i \in 1..Shown(s, k) : a[i] = s[i]
  BY <1>5, Taken
<1>7. b \in Seq(D) /\ Len(b) = Shown(t, left) /\ \A i \in 1..Shown(t, left) : b[i] = t[i]
  BY <1>5, Taken
<1>8. c \in Seq(D) /\ Len(c) = Shown(u, k) /\ \A i \in 1..Shown(u, k) : c[i] = u[i]
  BY <1>1, <1>5, Taken
<1> HIDE DEF a, b, c
<1> DEFINE d == a \o b
<1>9. /\ d \in Seq(D) /\ Len(d) = Len(a) + Len(b)
      /\ \A i \in 1..(Len(a) + Len(b)) : d[i] = IF i <= Len(a) THEN a[i] ELSE b[i - Len(a)]
  BY <1>6, <1>7, Joined
<1> HIDE DEF d
<1>10. Len(c) = Len(d)
  <2>1. Len(c) = z /\ Len(a) = x /\ Len(b) = y
    BY <1>6, <1>7, <1>8, Zenon DEF x, y, z
  <2>2. Len(d) = Len(a) + Len(b)
    BY <1>9, Zenon
  <2>3. z = x + y
    BY <1>4, Zenon
  <2> QED
    BY <2>1, <2>2, <2>3, Zenon
<1>11. ASSUME NEW i \in 1..Len(c)
       PROVE  c[i] = d[i]
  <2>1. i \in 1..Shown(u, k) /\ c[i] = u[i] /\ i \in 1..(Len(s) + Len(t)) /\ i \in 1..(Len(a) + Len(b))
    <3>1. i \in 1..Shown(u, k) /\ c[i] = u[i]
      BY <1>8, Zenon
    <3>2. Shown(u, k) \in 0..(Len(s) + Len(t)) /\ Shown(u, k) = Len(a) + Len(b)
      BY <1>1, <1>5, <1>6, <1>7, Zenon
    <3> QED
      BY <1>2, <3>1, <3>2
  <2>2. CASE i <= Shown(s, k)
    <3>1. i <= Len(s) /\ i <= Len(a) /\ i \in 1..Shown(s, k)
      BY <1>5, <1>6, <2>2
    <3>2. u[i] = s[i] /\ d[i] = a[i] /\ a[i] = s[i]
      BY <1>1, <1>6, <1>9, <2>1, <3>1
    <3> QED
      BY <2>1, <3>2
  <2>3. CASE i > Shown(s, k)
    <3>1. Shown(s, k) = Len(s) /\ ~(i <= Len(s)) /\ ~(i <= Len(a)) /\ i - Len(s) \in 1..Shown(t, left)
      <4>1. i > x /\ i <= x + y /\ Len(a) = x /\ i \in Nat
        BY <1>5, <1>6, <2>1, <2>3 DEF x, y
      <4>2. x = Len(s) /\ x \in Nat /\ y \in Nat
        BY <1>2, <1>4, <4>1
      <4> QED
        BY <4>1, <4>2 DEF x, y
    <3>2. u[i] = t[i - Len(s)] /\ d[i] = b[i - Len(a)]
      BY <1>1, <1>9, <2>1, <3>1
    <3>3. b[i - Len(a)] = t[i - Len(s)]
      BY <1>6, <1>7, <3>1
    <3> QED
      BY <2>1, <3>2, <3>3
  <2> QED
    BY <1>5, <2>2, <2>3
<1>12. c = d
  BY <1>8, <1>9, <1>10, <1>11, SameSequence
<1> QED
  BY <1>5, <1>12 DEF c, d, a, b, u, StartsJoin

\* What remains for each of n arrays, of k, when each takes what it can.
Remains(r, us, n, k) ==
  /\ n > 0 => r[1] = k
  /\ \A i \in 2..n : r[i] = r[i - 1] - Shown(us[i - 1], r[i - 1])

StartOf(p, s, k) == p = SubSeq(s, 1, Shown(s, k))

Starts(ps, us, r, n) == \A i \in 1..n : StartOf(ps[i], us[i], r[i])

\* The starts that n arrays take together are the start of all of them.
LEMMA SharedStart ==
  ASSUME NEW D, NEW n \in Nat, n > 0, NEW us \in [1..n -> Seq(D)], NEW ps \in [1..n -> Seq(D)],
         NEW k \in Nat, NEW r, Remains(r, us, n, k), Starts(ps, us, r, n)
  PROVE  StartOf(FlattenSeq(ps), FlattenSeq(us), k)
<1>1. PICK f : Flattening(f, n, ps, D)
  BY FlattenDefined
<1>2. PICK g : Flattening(g, n, us, D)
  BY FlattenDefined
<1> DEFINE Start(i) == /\ r[i] - Shown(us[i], r[i]) = k - Shown(g[i], k)
                       /\ f[i] = SubSeq(g[i], 1, Shown(g[i], k))
           S == {i \in 1..n : Start(i)}
<1>3. f[1] = ps[1] /\ g[1] = us[1] /\ 1 \in 1..n /\ n \in 1..n
  BY <1>1, <1>2 DEF Flattening
<1>4. 1 \in S
  <2>1. r[1] = k /\ ps[1] = SubSeq(us[1], 1, Shown(us[1], r[1]))
    BY <1>3 DEF Remains, Starts, StartOf
  <2> QED
    BY <1>3, <2>1
<1>5. ASSUME NEW i \in 2..n, i - 1 \in S
      PROVE  i \in S
  <2>1. i \in 1..n /\ i - 1 \in 1..n
    OBVIOUS
  <2>2. f[i] = f[i - 1] \o ps[i]
    BY <1>1, Zenon DEF Flattening
  <2>3. g[i] = g[i - 1] \o us[i] /\ g[i - 1] \in Seq(D)
    BY <1>2, <2>1, Zenon DEF Flattening
  <2>4. us[i] \in Seq(D)
    BY <2>1
  <2>5. Start(i - 1)
    BY <1>5, Zenon
  <2>6. r[i] = r[i - 1] - Shown(us[i - 1], r[i - 1])
    BY Zenon DEF Remains
  <2>7. r[i] = k - Shown(g[i - 1], k)
    BY <2>5, <2>6, Zenon
  <2>8. ps[i] = SubSeq(us[i], 1, Shown(us[i], r[i]))
    BY <2>1, Zenon DEF Starts, StartOf
  <2> DEFINE s == g[i - 1]
             t == us[i]
             left == r[i]
  <2> HIDE DEF s, t, left
  <2>9. /\ left - Shown(t, left) = k - Shown(s \o t, k)
        /\ SubSeq(s \o t, 1, Shown(s \o t, k)) = SubSeq(s, 1, Shown(s, k)) \o SubSeq(t, 1, Shown(t, left))
    <3>1. s \in Seq(D) /\ t \in Seq(D)
      BY <2>3, <2>4, Zenon DEF s, t
    <3>2. left = k - Shown(s, k)
      BY <2>7, Zenon DEF s, left
    <3>3. StartsJoin(s, t, k, left)
      BY <3>1, <3>2, ShownJoined
    <3> QED
      BY <3>3, Zenon DEF StartsJoin
  <2>10. r[i] - Shown(us[i], r[i]) = k - Shown(g[i], k)
    BY <2>3, <2>9, Zenon DEF s, t, left
  <2>11. f[i] = SubSeq(g[i], 1, Shown(g[i], k))
    BY <2>2, <2>3, <2>5, <2>8, <2>9, Zenon DEF s, t, left
  <2> QED
    BY <2>1, <2>10, <2>11, Zenon
<1>6. 1..n \subseteq S
  <2> HIDE DEF S
  <2> QED
    BY <1>4, <1>5, InductionTo
<1>7. Start(n)
  BY <1>3, <1>6, Zenon
<1>8. FlattenSeq(ps) = f[n] /\ FlattenSeq(us) = g[n]
  BY <1>1, <1>2, Zenon DEF Flattening
<1> QED
  BY <1>7, <1>8, Zenon DEF StartOf

-----------------------------------------------------------------------------
(* The wall *)

\* A list of devices that names none twice is one that may be saved.
LEMMA OrderType ==
  ASSUME NEW s \in Seq(WallDevices), IsInjective(s)
  PROVE  s \in Orders
BY Bounded, WallListsAssumption DEF Orders

LEMMA OrdersType ==
  ASSUME NEW s \in Orders
  PROVE  s \in Seq(WallDevices) /\ IsInjective(s)
<1>1. Cardinality(WallDevices) \in Nat
  BY FS_CardinalityType, WallListsAssumption
<1> QED
  BY <1>1, BoundedType DEF Orders

\* The devices of the wall, each at one place.
LEMMA OrderedType ==
  ASSUME WallTypeOK
  PROVE  Ordered \in Seq(WallDevices) /\ ToSet(Ordered) = DOMAIN devices /\ IsInjective(Ordered)
<1> DEFINE listed == Filter(deviceOrder, DOMAIN devices)
           rest == DOMAIN devices \ ToSet(listed)
<1>1. deviceOrder \in Seq(WallDevices) /\ IsInjective(deviceOrder)
  BY OrdersType DEF WallTypeOK
<1>2. /\ listed \in Seq(WallDevices) /\ IsInjective(listed)
      /\ ToSet(listed) = ToSet(deviceOrder) \cap DOMAIN devices
  BY <1>1, Filtered
<1> HIDE DEF listed
<1>3. rest \subseteq WallDevices /\ IsFiniteSet(rest)
  BY FS_Subset, WallListsAssumption DEF WallTypeOK
<1>4. SetToSeq(rest) \in Seq(rest) /\ ToSet(SetToSeq(rest)) = rest /\ IsInjective(SetToSeq(rest))
  BY <1>3, Listed
<1> DEFINE last == SetToSeq(rest)
<1>5. last \in Seq(WallDevices)
  BY <1>3, <1>4
<1>6. Ordered = listed \o last
  BY DEF Ordered, listed
<1>7. ToSet(last) = rest /\ IsInjective(last)
  BY <1>4
<1> HIDE DEF last
<1>8. ToSet(listed) \cap ToSet(last) = {}
  BY <1>7
<1>9. /\ ToSet(listed \o last) = ToSet(listed) \cup ToSet(last)
      /\ IsInjective(listed \o last)
  BY <1>2, <1>5, <1>7, <1>8, Concatenation
<1>10. ToSet(listed) \cup ToSet(last) = DOMAIN devices
  BY <1>2, <1>7
<1>11. listed \o last \in Seq(WallDevices)
  BY <1>2, <1>5
<1> QED
  BY <1>6, <1>9, <1>10, <1>11

LEMMA IndexOfType ==
  ASSUME NEW D, NEW s \in Seq(D), NEW x \in ToSet(s)
  PROVE  IndexOf(s, x) \in 1..Len(s) /\ s[IndexOf(s, x)] = x
<1>1. \E i \in DOMAIN s : s[i] = x
  BY DEF ToSet
<1>2. IndexOf(s, x) \in DOMAIN s /\ s[IndexOf(s, x)] = x
  BY <1>1 DEF IndexOf
<1> QED
  BY <1>2

\* A drop neither loses a device nor shows one twice.
LEMMA MoveType ==
  ASSUME NEW s \in Seq(WallDevices), IsInjective(s),
         NEW from \in ToSet(s), NEW onto \in ToSet(s), from # onto
  PROVE  MoveDeviceOrder(s, from, onto) \in Orders
<1> DEFINE i == IndexOf(s, from)
           j == IndexOf(s, onto)
           t == RemoveAt(s, i)
<1>1. i \in 1..Len(s) /\ s[i] = from /\ j \in 1..Len(s)
  BY IndexOfType
<1> HIDE DEF i, j
<1>2. /\ t \in Seq(WallDevices) /\ Len(t) = Len(s) - 1 /\ IsInjective(t)
      /\ ToSet(t) = ToSet(s) \ {from}
  BY <1>1, Removed
<1> HIDE DEF t
<1>3. j \in 1..(Len(t) + 1) /\ from \notin ToSet(t) /\ from \in WallDevices
  <2>1. from \in WallDevices
    BY DEF ToSet
  <2> QED
    BY <1>1, <1>2, <2>1
<1>4. InsertAt(t, j, from) \in Seq(WallDevices) /\ IsInjective(InsertAt(t, j, from))
  BY <1>2, <1>3, Inserted
<1> QED
  BY <1>4, OrderType DEF MoveDeviceOrder, i, j, t

LEMMA AppendedType ==
  ASSUME NEW D, NEW s \in Seq(D), IsInjective(s), NEW x \in D, x \notin ToSet(s)
  PROVE  /\ Append(s, x) \in Seq(D) /\ IsInjective(Append(s, x))
         /\ ToSet(Append(s, x)) = ToSet(s) \cup {x}
<1> DEFINE t == Append(s, x)
<1>1. /\ t \in Seq(D) /\ DOMAIN t = 1..(Len(s) + 1) /\ t[Len(s) + 1] = x
      /\ \A i \in 1..Len(s) : t[i] = s[i]
  OBVIOUS
<1> HIDE DEF t
<1>2. Len(s) \in Nat /\ DOMAIN s = 1..Len(s)
  OBVIOUS
<1>3. 1..(Len(s) + 1) = 1..Len(s) \cup {Len(s) + 1}
  BY <1>2
<1>4. \A i \in 1..Len(s) : s[i] # x
  BY <1>2 DEF ToSet
<1>5. \A i, j \in 1..Len(s) : s[i] = s[j] => i = j
  BY <1>2 DEF IsInjective
<1>6. IsInjective(t)
  BY <1>1, <1>3, <1>4, <1>5 DEF IsInjective
<1>7. ToSet(t) = ToSet(s) \cup {x}
  BY <1>1, <1>2, <1>3 DEF ToSet
<1> QED
  BY <1>1, <1>6, <1>7 DEF t

\* A section has the devices of its group, in their order.
LEMMA InSectionType ==
  ASSUME WallTypeOK, NEW key
  PROVE  /\ InSection(key) \in Seq(WallDevices) /\ IsInjective(InSection(key))
         /\ ToSet(InSection(key)) = {d \in DOMAIN devices : EffectiveGroup(d) = key}
<1> DEFINE S == {d \in DOMAIN devices : EffectiveGroup(d) = key}
<1>1. InSection(key) = Filter(Ordered, S)
  BY DEF InSection
<1>2. Ordered \in Seq(WallDevices) /\ ToSet(Ordered) = DOMAIN devices /\ IsInjective(Ordered)
  BY OrderedType
<1>3. S \subseteq DOMAIN devices
  OBVIOUS
<1> HIDE DEF S
<1>4. /\ Filter(Ordered, S) \in Seq(WallDevices) /\ IsInjective(Filter(Ordered, S))
      /\ ToSet(Filter(Ordered, S)) = ToSet(Ordered) \cap S
  BY <1>2, Filtered
<1> QED
  BY <1>1, <1>2, <1>3, <1>4 DEF S

\* Each device has exactly one section.
LEMMA SectionKeysType ==
  ASSUME WallTypeOK
  PROVE  /\ SectionKeys \in Seq(Keys) /\ IsInjective(SectionKeys) /\ Len(SectionKeys) > 0
         /\ \A d \in DOMAIN devices : EffectiveGroup(d) \in ToSet(SectionKeys)
<1>1. /\ sections \in Seq(WallGroups) /\ IsInjective(sections)
      /\ ToSet(sections) \subseteq WallGroups
  BY DEF WallTypeOK, ToSet
<1>2. sections \in Seq(Keys) /\ Ungrouped \in Keys /\ Ungrouped \notin ToSet(sections)
  BY <1>1, UngroupedAssumption DEF Keys
<1>3. /\ Append(sections, Ungrouped) \in Seq(Keys) /\ IsInjective(Append(sections, Ungrouped))
      /\ ToSet(Append(sections, Ungrouped)) = ToSet(sections) \cup {Ungrouped}
  BY <1>1, <1>2, AppendedType
<1>4. Len(Append(sections, Ungrouped)) > 0 /\ (sections # <<>> => Len(sections) > 0)
  BY <1>1
<1>5. ASSUME NEW d \in DOMAIN devices
      PROVE  EffectiveGroup(d) \in ToSet(SectionKeys)
  <2>1. CASE EffectiveGroup(d) = Ungrouped
    <3>1. d \in ToSet(InSection(Ungrouped))
      BY <2>1, InSectionType
    <3>2. InSection(Ungrouped) # <<>>
      BY <3>1 DEF ToSet
    <3>3. SectionKeys = Append(sections, Ungrouped)
      BY <3>2 DEF SectionKeys
    <3> QED
      BY <1>3, <2>1, <3>3
  <2>2. CASE EffectiveGroup(d) # Ungrouped
    <3>1. EffectiveGroup(d) \in ToSet(sections)
      BY <2>2 DEF EffectiveGroup
    <3> QED
      BY <1>3, <3>1 DEF SectionKeys
  <2> QED
    BY <2>1, <2>2
<1> QED
  BY <1>1, <1>2, <1>3, <1>4, <1>5 DEF SectionKeys

\* The sections together have each device once.
LEMMA SectionsCover ==
  ASSUME WallTypeOK
  PROVE  /\ FlattenSeq(Sections) \in Seq(WallDevices) /\ IsInjective(FlattenSeq(Sections))
         /\ ToSet(FlattenSeq(Sections)) = DOMAIN devices
<1> DEFINE n == Len(SectionKeys)
           keys == SectionKeys
           all == Sections
<1>1. /\ keys \in Seq(Keys) /\ IsInjective(keys)
      /\ \A d \in DOMAIN devices : EffectiveGroup(d) \in ToSet(keys)
  BY SectionKeysType
<1>2. n \in Nat /\ DOMAIN keys = 1..n
  BY <1>1
<1> HIDE DEF n, keys
<1>3. all = [i \in 1..n |-> InSection(keys[i])]
  BY <1>2 DEF Sections, keys
<1>4. ASSUME NEW i \in 1..n
      PROVE  /\ all[i] \in Seq(WallDevices) /\ IsInjective(all[i])
             /\ ToSet(all[i]) = {d \in DOMAIN devices : EffectiveGroup(d) = keys[i]}
  <2>1. all[i] = InSection(keys[i])
    BY <1>3
  <2> QED
    BY <2>1, InSectionType
<1>5. all \in [1..n -> Seq(WallDevices)]
  BY <1>3, InSectionType
<1> HIDE DEF all
<1>6. Apart(all, n)
  <2> SUFFICES ASSUME NEW i \in 1..n, NEW j \in 1..n, i # j
               PROVE  ToSet(all[i]) \cap ToSet(all[j]) = {}
    BY DEF Apart
  <2>1. keys[i] # keys[j]
    BY <1>1, <1>2 DEF IsInjective
  <2> QED
    BY <1>4, <2>1
<1>7. \A i \in 1..n : IsInjective(all[i])
  BY <1>4
<1>8. /\ FlattenSeq(all) \in Seq(WallDevices) /\ IsInjective(FlattenSeq(all))
      /\ ToSet(FlattenSeq(all)) = UNION {ToSet(all[i]) : i \in 1..n}
  BY <1>2, <1>5, <1>6, <1>7, Flattened
<1>9. UNION {ToSet(all[i]) : i \in 1..n} = DOMAIN devices
  <2>1. ASSUME NEW d \in DOMAIN devices
        PROVE  \E i \in 1..n : d \in ToSet(all[i])
    <3>1. PICK i \in 1..n : keys[i] = EffectiveGroup(d)
      BY <1>1, <1>2 DEF ToSet
    <3> QED
      BY <1>4, <3>1
  <2>2. \A i \in 1..n : ToSet(all[i]) \subseteq DOMAIN devices
    BY <1>4
  <2> QED
    BY <2>1, <2>2
<1> QED
  BY <1>8, <1>9 DEF all

\* The preview is the start of the unfolded sections.
LEMMA PreviewIsStart ==
  ASSUME WallTypeOK
  PROVE  FlattenSeq(Preview) = SubSeq(FlattenSeq(Unfolded), 1, Shown(FlattenSeq(Unfolded), tileCount))
<1> DEFINE n == Len(SectionKeys)
           us == Unfolded
           ps == Preview
           Rest(h) == h = [i \in DOMAIN SectionKeys |->
                             IF i = 1 THEN tileCount
                             ELSE h[i - 1] - Shown(Unfolded[i - 1], h[i - 1])]
           r == CHOOSE h : Rest(h)
<1>1. n \in Nat /\ n > 0 /\ DOMAIN SectionKeys = 1..n
  BY SectionKeysType
<1>2. ps = [i \in DOMAIN SectionKeys |-> SubSeq(Unfolded[i], 1, Shown(Unfolded[i], r[i]))]
  BY DEF Preview
<1>3. tileCount \in Nat
  BY TilesAssumption DEF WallTypeOK
<1>4. us \in [1..n -> Seq(WallDevices)]
  <2>1. us = [i \in 1..n |-> IF Folded(SectionKeys[i]) THEN <<>> ELSE Sections[i]]
    BY <1>1 DEF Unfolded
  <2>2. ASSUME NEW i \in 1..n
        PROVE  Sections[i] \in Seq(WallDevices)
    <3>1. Sections[i] = InSection(SectionKeys[i])
      BY <1>1 DEF Sections
    <3> QED
      BY <3>1, InSectionType
  <2>3. <<>> \in Seq(WallDevices)
    OBVIOUS
  <2>4. \A i \in 1..n : (IF Folded(SectionKeys[i]) THEN <<>> ELSE Sections[i]) \in Seq(WallDevices)
    BY <2>2, <2>3
  <2> HIDE DEF us, n
  <2> QED
    BY <2>1, <2>4
<1> HIDE DEF us, ps, n, r
<1> DEFINE V == 0..tileCount
           F == [i \in 2..n |-> [v \in V |-> v - Shown(us[i - 1], v)]]
<1>5. ASSUME NEW i \in 2..n, NEW v \in V
      PROVE  F[i][v] = v - Shown(us[i - 1], v) /\ F[i][v] \in V
  <2>1. F[i][v] = v - Shown(us[i - 1], v)
    OBVIOUS
  <2>2. us[i - 1] \in Seq(WallDevices) /\ v \in Nat
    BY <1>1, <1>3, <1>4
  <2>3. Shown(us[i - 1], v) \in 0..v
    BY <2>2, ShownType
  <2> QED
    BY <1>3, <2>1, <2>3
<1>6. Steps(F, n, V) /\ tileCount \in V
  BY <1>3, <1>5 DEF Steps
<1> HIDE DEF F, V
<1>7. \E h : Rest(h)
  <2>1. PICK f : Solves(f, n, V, tileCount, F)
    BY <1>1, <1>6, Recursion
  <2>2. ASSUME NEW i \in 1..n
        PROVE  f[i] = IF i = 1 THEN tileCount ELSE f[i - 1] - Shown(us[i - 1], f[i - 1])
    <3>1. CASE i = 1
      BY <1>1, <2>1, <3>1 DEF Solves
    <3>2. CASE i \in 2..n
      <4>1. f[i - 1] \in V /\ f[i] = F[i][f[i - 1]]
        <5>1. i - 1 \in 1..n
          BY <1>1, <3>2
        <5>2. f[i - 1] \in V
          BY <2>1, <5>1, Zenon DEF Solves
        <5>3. f[i] = F[i][f[i - 1]]
          BY <2>1, <3>2, Zenon DEF Solves
        <5> QED
          BY <5>2, <5>3
      <4>2. F[i][f[i - 1]] = f[i - 1] - Shown(us[i - 1], f[i - 1])
        BY <1>5, <3>2, <4>1
      <4> QED
        BY <3>2, <4>1, <4>2
    <3> QED
      BY <1>1, <3>1, <3>2
  <2> DEFINE g == [i \in 1..n |-> f[i]]
  <2>3. Rest(g)
    BY <1>1, <2>2 DEF us
  <2> QED
    BY <2>3
<1>8. Rest(r)
  <2> HIDE DEF Rest
  <2> QED
    BY <1>7 DEF r
<1>9. ASSUME NEW i \in 1..n
      PROVE  r[i] = IF i = 1 THEN tileCount ELSE r[i - 1] - Shown(us[i - 1], r[i - 1])
  BY <1>1, <1>8 DEF us
<1>10. Remains(r, us, n, tileCount)
  <2>1. \A i \in 2..n : i \in 1..n /\ i # 1
    OBVIOUS
  <2>2. 1 \in 1..n
    BY <1>1
  <2> QED
    BY <1>9, <2>1, <2>2 DEF Remains
<1>11. \A i \in 1..n : r[i] \in V
  <2>1. \A i \in 2..n : r[i - 1] \in V => r[i] = F[i][r[i - 1]]
    <3>1. \A i \in 2..n : r[i] = r[i - 1] - Shown(us[i - 1], r[i - 1])
      BY <1>10 DEF Remains
    <3> QED
      BY <1>5, <3>1
  <2>2. r[1] \in V
    BY <1>1, <1>6, <1>10 DEF Remains
  <2> QED
    BY <1>1, <1>6, <2>1, <2>2, RecursionTyped
<1>12. ASSUME NEW i \in 1..n
       PROVE  ps[i] = SubSeq(us[i], 1, Shown(us[i], r[i])) /\ ps[i] \in Seq(WallDevices)
  <2>1. ps[i] = SubSeq(us[i], 1, Shown(us[i], r[i]))
    BY <1>1, <1>2 DEF us
  <2>2. us[i] \in Seq(WallDevices) /\ r[i] \in Nat
    <3>1. r[i] \in V
      BY <1>11, Zenon
    <3> QED
      BY <1>3, <1>4, <3>1 DEF V
  <2>3. Shown(us[i], r[i]) \in 0..Len(us[i])
    <3>1. Shown(us[i], r[i]) <= Len(us[i]) /\ Shown(us[i], r[i]) \in Nat
      BY <2>2, ShownType, Zenon
    <3>2. Len(us[i]) \in Nat
      BY <2>2
    <3> QED
      BY <3>1, <3>2
  <2>4. SubSeq(us[i], 1, Shown(us[i], r[i])) \in Seq(WallDevices)
    BY <2>2, <2>3, Taken
  <2> QED
    BY <2>1, <2>4
<1>13. ps \in [1..n -> Seq(WallDevices)]
  <2>1. ps = [i \in 1..n |-> ps[i]]
    BY <1>1, <1>2
  <2> QED
    BY <1>12, <2>1
<1>14. FlattenSeq(ps) = SubSeq(FlattenSeq(us), 1, Shown(FlattenSeq(us), tileCount))
  <2>1. Starts(ps, us, r, n)
    BY <1>12, Zenon DEF Starts, StartOf
  <2>2. StartOf(FlattenSeq(ps), FlattenSeq(us), tileCount)
    BY <1>1, <1>3, <1>4, <1>10, <1>13, <2>1, SharedStart
  <2> QED
    BY <2>2, Zenon DEF StartOf
<1> QED
  BY <1>14 DEF ps, us

LEMMA DevicesAreShown ==
  ASSUME WallTypeOK
  PROVE  EveryDeviceIsShown
BY SectionsCover, PreviewIsStart DEF EveryDeviceIsShown, Shown

\* The first state, and every step, of the wall.
LEMMA WallInitType == WallInit => WallTypeOK
  BY DEF WallInit, WallTypeOK, NoDrag, ToSet, IsInjective

LEMMA WallStepType ==
  ASSUME WallTypeOK, [WallNext]_wallVars
  PROVE  WallTypeOK'
<1>1. CASE Load
  <2>1. /\ DOMAIN devices' \subseteq WallDevices
        /\ \A d \in DOMAIN devices' : devices'[d] \in Keys
    BY <1>1 DEF Load, WallTypeOK
  <2>2. sections' \in Seq(WallGroups) /\ IsInjective(sections)'
    <3>1. CASE sections' = sections
      BY <3>1 DEF WallTypeOK, IsInjective
    <3>2. ASSUME NEW s \in SeqOf(WallGroups, Cardinality(WallGroups)), IsInjective(s), sections' = s
          PROVE  sections' \in Seq(WallGroups) /\ IsInjective(sections)'
      <4>1. s \in Seq(WallGroups)
        BY BoundedType, FS_CardinalityType, WallListsAssumption
      <4> QED
        BY <3>2, <4>1
    <3> QED
      BY <1>1, <3>1, <3>2 DEF Load
  <2> QED
    BY <1>1, <2>1, <2>2 DEF Load, WallTypeOK, Keys, Orders
<1>2. CASE Choose
  <2>1. ToSet(SectionKeys) \subseteq Keys
    BY SectionKeysType DEF ToSet
  <2> QED
    BY <1>2, <2>1 DEF Choose, WallTypeOK, Keys, Orders
<1>3. CASE EndDrop
  BY <1>3 DEF EndDrop, WallTypeOK, NoDrag
<1>4. ASSUME NEW g \in WallGroups, RemoveGroup(g)
      PROVE  WallTypeOK'
  BY <1>4 DEF RemoveGroup, WallTypeOK
<1>5. ASSUME NEW from \in WallDevices, NEW onto \in WallDevices, Drop(from, onto)
      PROVE  WallTypeOK'
  <2>1. /\ Ordered \in Seq(WallDevices) /\ IsInjective(Ordered)
        /\ from \in ToSet(Ordered) /\ onto \in ToSet(Ordered) /\ from # onto
    BY <1>5, OrderedType DEF Drop
  <2>2. MoveDeviceOrder(Ordered, from, onto) \in Orders
    BY <2>1, MoveType
  <2> QED
    BY <1>5, <2>2 DEF Drop, WallTypeOK
<1>6. CASE UNCHANGED wallVars
  BY <1>6 DEF wallVars, WallTypeOK
<1> QED
  BY <1>1, <1>2, <1>3, <1>4, <1>5, <1>6 DEF WallNext

\* Each variable of the wall keeps its type: what drop saves is again an order
\* of known devices without repetition, whatever the layout and the devices
\* were (moveDeviceOrder, saveLayout).
THEOREM WallTypeCorrect == WallSpec => []WallTypeOK
  BY WallInitType, WallStepType, PTL DEF WallSpec

\* Whatever devices, groups and layout the browser has, and however many, each
\* listed device is in exactly one section, and the tiles go to the first
\* devices of the unfolded sections (buildWallSections).
THEOREM AllDevicesShown == WallSpec => []EveryDeviceIsShown
  BY DevicesAreShown, WallTypeCorrect, PTL

-----------------------------------------------------------------------------
(* The pool of connections *)

\* One connection less, as long as the request waits for it.
Less(u) == IF Acquiring(u) THEN 1 ELSE 0

\* What a request holds, by how far it is.
HeldByStage ==
  \A u \in Users :
    /\ handler[u] = "none" => stage[u] = "work" /\ held[u] = 0 /\ ~Acquiring(u)
    /\ handler[u] # "none" =>
         /\ stage[u] = "authenticate" => handler[u] = "prepare" /\ held[u] = 1 - Less(u)
         /\ stage[u] = "work" => held[u] = 1 - Less(u)
         /\ stage[u] = "lookup" => handler[u] = "event" /\ held[u] = 2 - Less(u)
         /\ stage[u] = "locked" => u \in locker /\ held[u] = 1 /\ ~Acquiring(u)

PoolInv == PoolTypeOK /\ HeldByStage

LEMMA PoolInvIsSafe == PoolInv => PoolTypeOK /\ NoHoldAndWait
  BY DEF PoolInv, PoolTypeOK, HeldByStage, NoHoldAndWait, Less, Handlers

LEMMA PoolInitInv == PoolInit => PoolInv
  BY DEF PoolInit, PoolInv, PoolTypeOK, HeldByStage, IsInjective, Acquiring, ToSet, Less, Handlers

\* The queue of those that wait, when one comes and when one goes.
LEMMA QueueGrows ==
  ASSUME acquiring \in Seq(Users), IsInjective(acquiring), NEW u \in Users, ~Acquiring(u),
         acquiring' = Append(acquiring, u)
  PROVE  /\ acquiring' \in Seq(Users) /\ IsInjective(acquiring)'
         /\ \A v : Acquiring(v)' <=> Acquiring(v) \/ v = u
  BY AppendedType DEF Acquiring

LEMMA QueueShrinks ==
  ASSUME acquiring \in Seq(Users), IsInjective(acquiring), NEW u \in Users,
         acquiring' = IF Acquiring(u) THEN RemoveAt(acquiring, Place(u)) ELSE acquiring
  PROVE  /\ acquiring' \in Seq(Users) /\ IsInjective(acquiring)'
         /\ \A v : Acquiring(v)' <=> Acquiring(v) /\ v # u
<1>1. CASE Acquiring(u)
  <2>1. \E i \in DOMAIN acquiring : acquiring[i] = u
    BY <1>1 DEF Acquiring, ToSet
  <2>2. Place(u) \in 1..Len(acquiring) /\ acquiring[Place(u)] = u
    BY <2>1 DEF Place
  <2>3. /\ RemoveAt(acquiring, Place(u)) \in Seq(Users)
        /\ IsInjective(RemoveAt(acquiring, Place(u)))
        /\ ToSet(RemoveAt(acquiring, Place(u))) = ToSet(acquiring) \ {u}
    BY <2>2, Removed
  <2>4. acquiring' = RemoveAt(acquiring, Place(u))
    BY <1>1
  <2> QED
    BY <2>3, <2>4 DEF Acquiring
<1>2. CASE ~Acquiring(u)
  BY <1>2 DEF Acquiring
<1> QED
  BY <1>1, <1>2

LEMMA QueueMovesOn ==
  ASSUME acquiring \in Seq(Users), IsInjective(acquiring), acquiring # <<>>,
         acquiring' = Tail(acquiring)
  PROVE  /\ acquiring' \in Seq(Users) /\ IsInjective(acquiring)'
         /\ Head(acquiring) \in Users /\ Acquiring(Head(acquiring))
         /\ \A v : Acquiring(v)' <=> Acquiring(v) /\ v # Head(acquiring)
<1>1. Len(acquiring) > 0 /\ Head(acquiring) = acquiring[1] /\ 1 \in 1..Len(acquiring)
  OBVIOUS
<1>2. /\ RemoveAt(acquiring, 1) \in Seq(Users) /\ IsInjective(RemoveAt(acquiring, 1))
      /\ ToSet(RemoveAt(acquiring, 1)) = ToSet(acquiring) \ {acquiring[1]}
  BY <1>1, Removed
<1>3. RemoveAt(acquiring, 1) = Tail(acquiring)
  BY <1>1 DEF RemoveAt
<1>4. acquiring[1] \in Users /\ acquiring[1] \in ToSet(acquiring)
  BY <1>1 DEF ToSet
<1> QED
  BY <1>1, <1>2, <1>3, <1>4 DEF Acquiring

LEMMA ReturnKeepsInv ==
  ASSUME PoolInv, NEW u \in Users, Return(u)
  PROVE  PoolInv'
<1>1. /\ acquiring' \in Seq(Users) /\ IsInjective(acquiring)'
      /\ \A v : Acquiring(v)' <=> Acquiring(v) /\ v # u
  BY QueueShrinks DEF PoolInv, PoolTypeOK, Return
<1>2. PoolTypeOK'
  BY <1>1 DEF PoolInv, PoolTypeOK, Return
<1>3. HeldByStage'
  BY <1>1 DEF PoolInv, PoolTypeOK, HeldByStage, Return, Less
<1> QED
  BY <1>2, <1>3 DEF PoolInv

\* A request that waits for nothing asks for a connection.
Asks(u, h, s, n) ==
  /\ ~Acquiring(u) /\ u \notin locker
  /\ h \in Handlers /\ handler' = [handler EXCEPT ![u] = h]
  /\ Ask(u, s, n) /\ UNCHANGED locker
  /\ \/ s = "authenticate" /\ h = "prepare" /\ n = 0
     \/ s = "work" /\ n = 0
     \/ s = "lookup" /\ h = "event" /\ n = 1

LEMMA AskKeepsInv ==
  ASSUME PoolInv, NEW u \in Users, NEW h, NEW s, NEW n, Asks(u, h, s, n)
  PROVE  PoolInv'
<1>1. /\ acquiring' \in Seq(Users) /\ IsInjective(acquiring)'
      /\ \A v : Acquiring(v)' <=> Acquiring(v) \/ v = u
  BY QueueGrows DEF PoolInv, PoolTypeOK, Ask, Asks
<1>2. PoolTypeOK'
  BY <1>1 DEF PoolInv, PoolTypeOK, Ask, Asks
<1>3. HeldByStage'
  BY <1>1 DEF PoolInv, PoolTypeOK, HeldByStage, Ask, Asks, Less, Handlers
<1> QED
  BY <1>2, <1>3 DEF PoolInv

LEMMA PoolStepInv ==
  ASSUME PoolInv, [PoolNext]_poolVars
  PROVE  PoolInv'
<1>1. CASE Grant
  <2>1. /\ acquiring' \in Seq(Users) /\ IsInjective(acquiring)'
        /\ Head(acquiring) \in Users /\ Acquiring(Head(acquiring))
        /\ \A v : Acquiring(v)' <=> Acquiring(v) /\ v # Head(acquiring)
    BY <1>1, QueueMovesOn DEF Grant, PoolInv, PoolTypeOK
  <2> DEFINE u == Head(acquiring)
  <2> HIDE DEF u
  <2>2. held' = [held EXCEPT ![u] = held[u] + 1] /\ UNCHANGED <<handler, stage, locker>>
    BY <1>1 DEF Grant, u
  <2>3. u \in Users /\ Acquiring(u) /\ \A v : Acquiring(v)' <=> Acquiring(v) /\ v # u
    BY <2>1 DEF u
  <2>4. held[u] \in 0..1 /\ u \notin locker /\ handler[u] # "none"
    BY <2>3 DEF PoolInv, PoolTypeOK, HeldByStage, Less, Handlers
  <2>5. PoolTypeOK'
    BY <2>1, <2>2, <2>3, <2>4 DEF PoolInv, PoolTypeOK
  <2>6. HeldByStage'
    BY <2>2, <2>3, <2>4 DEF PoolInv, PoolTypeOK, HeldByStage, Less
  <2> QED
    BY <2>5, <2>6 DEF PoolInv
<1>2. ASSUME NEW u \in Users, NEW h \in Handlers, Arrive(u, h)
      PROVE  PoolInv'
  <2>1. ~Acquiring(u) /\ u \notin locker
    BY <1>2 DEF Arrive, PoolInv, PoolTypeOK, HeldByStage
  <2>2. Asks(u, h, IF h = "prepare" THEN "authenticate" ELSE "work", 0)
    BY <1>2, <2>1 DEF Arrive, Asks
  <2> QED
    BY <2>2, AskKeepsInv
<1>3. ASSUME NEW u \in Users, Authenticate(u)
      PROVE  PoolInv'
  <2>1. handler' = [handler EXCEPT ![u] = "prepare"] /\ "prepare" \in Handlers
    BY <1>3 DEF Authenticate, Runs, PoolInv, PoolTypeOK, Handlers
  <2>2. ~Acquiring(u) /\ u \notin locker /\ Ask(u, "work", 0) /\ UNCHANGED locker
    BY <1>3 DEF Authenticate, Runs, PoolInv, PoolTypeOK
  <2>3. Asks(u, "prepare", "work", 0)
    BY <2>1, <2>2 DEF Asks
  <2> QED
    BY <2>3, AskKeepsInv
<1>4. ASSUME NEW u \in Users, LookUp(u)
      PROVE  PoolInv'
  <2>1. handler' = [handler EXCEPT ![u] = "event"] /\ "event" \in Handlers
    BY <1>4 DEF LookUp, Runs, PoolInv, PoolTypeOK, Handlers
  <2>2. held[u] = 1
    BY <1>4 DEF LookUp, Runs, PoolInv, HeldByStage, Less
  <2>3. ~Acquiring(u) /\ u \notin locker /\ Ask(u, "lookup", 1) /\ UNCHANGED locker
    BY <1>4, <2>2 DEF LookUp, Runs, PoolInv, PoolTypeOK
  <2>4. Asks(u, "event", "lookup", 1)
    BY <2>1, <2>3 DEF Asks
  <2> QED
    BY <2>4, AskKeepsInv
<1>5. ASSUME NEW u \in Users, CommitBinding(u)
      PROVE  PoolInv'
  <2>1. ~Acquiring(u) /\ u \notin locker /\ "query" \in Handlers
    BY <1>5 DEF CommitBinding, Runs, PoolInv, PoolTypeOK, Handlers
  <2>2. Asks(u, "query", "work", 0)
    BY <1>5, <2>1 DEF CommitBinding, Asks
  <2> QED
    BY <2>2, AskKeepsInv
<1>6. ASSUME NEW u \in Users, TakeLock(u)
      PROVE  PoolInv'
  <2>1. /\ u \in Users /\ ~Acquiring(u) /\ held[u] = 1 /\ handler[u] # "none"
    BY <1>6 DEF TakeLock, Runs, PoolInv, HeldByStage, Less
  <2>2. \A v : Acquiring(v)' <=> Acquiring(v)
    BY <1>6 DEF TakeLock, Acquiring
  <2>3. PoolTypeOK'
    BY <1>6, <2>1 DEF TakeLock, PoolInv, PoolTypeOK
  <2>4. HeldByStage'
    BY <1>6, <2>1, <2>2 DEF TakeLock, PoolInv, PoolTypeOK, HeldByStage, Less
  <2> QED
    BY <2>3, <2>4 DEF PoolInv
<1>7. ASSUME NEW u \in Users, Answer(u) \/ GiveUp(u)
      PROVE  PoolInv'
  BY <1>7, ReturnKeepsInv DEF Answer, GiveUp
<1>8. CASE UNCHANGED poolVars
  <2>1. \A v : Acquiring(v)' <=> Acquiring(v)
    BY <1>8 DEF poolVars, Acquiring
  <2> QED
    BY <1>8, <2>1 DEF poolVars, PoolInv, PoolTypeOK, HeldByStage, Less, IsInjective
<1> QED
  BY <1>1, <1>2, <1>3, <1>4, <1>5, <1>6, <1>7, <1>8 DEF PoolNext, UserStep

\* Each variable of the pool keeps its type: no request waits twice, none has
\* more than two connections, and the one that holds the advisory lock holds it
\* with exactly one connection (prepareEnrollmentAgent, deleteDevice).
THEOREM PoolTypeCorrect == PoolSpec => []PoolTypeOK
  BY PoolInitInv, PoolStepInv, PoolInvIsSafe, PTL DEF PoolSpec

\* For any number of requests and any size of the pool, a request that waits
\* for a connection has neither a connection nor the lock, an event apart; so
\* no circle of preparations and deletions waits for itself
\* (prepareEnrollmentAgent, deleteDevice, meshCentralEvent).
THEOREM NobodyHoldsAndWaits == PoolSpec => []NoHoldAndWait
  BY PoolInitInv, PoolStepInv, PoolInvIsSafe, PTL DEF PoolSpec

-----------------------------------------------------------------------------
(* All parts *)

\* The parts side by side: a step of one leaves the others as they are.
PartsInv ==
  GroupsInv /\ LayoutLockedLast /\ WallTypeOK /\ PoolInv /\ ErrorsInv /\ HelperInv

LEMMA PartsInitInv == MCInit => PartsInv
  BY GroupsInitInv, LayoutInitLast, WallInitType, PoolInitInv, ErrorsInitInv, HelperInitInv
  DEF MCInit, PartsInv

LEMMA PartsStepInv == PartsInv /\ [MCNext]_mcVars => PartsInv'
<1> SUFFICES ASSUME PartsInv, [MCNext]_mcVars
             PROVE  PartsInv'
  OBVIOUS
<1>1. /\ [GroupsNext]_groupsVars /\ [WallNext]_wallVars /\ [PoolNext]_poolVars
      /\ [ErrorsNext]_errorVars /\ [HelperNext]_helperVars
  BY DEF MCNext, mcVars, Only
<1>2. GroupsInv' /\ ErrorsInv' /\ HelperInv'
  BY <1>1, GroupStepKeepsInv, ErrorStepKeepsInv, HelperStepKeepsInv DEF PartsInv
<1>3. WallTypeOK' /\ PoolInv'
  BY <1>1, WallStepType, PoolStepInv DEF PartsInv
<1>4. LayoutLockedLast'
  BY <1>1, LayoutStaysLast DEF PartsInv, GroupsInv
<1> QED
  BY <1>2, <1>3, <1>4 DEF PartsInv

LEMMA PartsInvIsTyped == PartsInv => TypeOK
  BY PoolInvIsSafe DEF PartsInv, TypeOK, GroupsInv, ErrorsInv, HelperInv

\* Each variable of the five parts keeps its type in the specification that is
\* model-checked, for any value of its constants (device_groups.go, app.tsx,
\* app.go, runtime_app.go, agent_helper_windows.go).
THEOREM PartsTypeCorrect == MCSpec => []TypeOK
  BY PartsInitInv, PartsStepInv, PartsInvIsTyped, PTL DEF MCSpec

\* All safety properties of the five parts hold in that specification, for any
\* value of its constants (the same functions of the code).
THEOREM PartsAreSafe ==
  MCSpec => [](NoCircularWait /\ EveryDeviceIsShown /\ NoErrorIsLost /\ ProgramIsVerified)
<1>1. PartsInv => NoCircularWait /\ EveryDeviceIsShown /\ NoErrorIsLost /\ ProgramIsVerified
  BY FurthestGoesOn, DevicesAreShown, PoolInvIsSafe
  DEF PartsInv, ErrorsInv, HelperInv, NoCircularWait
<1> QED
  BY <1>1, PartsInitInv, PartsStepInv, PTL DEF MCSpec

=============================================================================
