-------------------------- MODULE ActivationProofs --------------------------
(***************************************************************************)
(* Proofs about Activation, for any sets of codes, installations and       *)
(* concurrent requests.                                                    *)
(*                                                                         *)
(* ActiveDeviceHoldsItsOnlyKey is not inductive: it says nothing of what a *)
(* request has read and still relies on.  IInv adds, for each statement a  *)
(* request may be at, the locks it holds (Locks), what it knows of the     *)
(* code it locked (KeyRead) and of the device it locked (DeviceRead), and  *)
(* that the rows of its UPDATE are all in todo or hit (Scan).  Each fact   *)
(* is stable because only the holder of the row's lock changes the row.    *)
(***************************************************************************)
EXTENDS Activation, TLAPS

\* The statements at which a request holds the lock of its code, its device.
CodeHeld   == {"findActive", "findDevice", "insert", "supersede",
               "supersedeRows", "commitActivate", "commitCopy"}
DeviceHeld == {"supersede", "supersedeRows", "commitActivate",
               "revoke", "revokeRows", "commitDelete"}

Args(r) ==
  /\ pc[r] \in ActivatePcs => key[r] \in made /\ inst[r] \in Installs
  /\ pc[r] \in DeletePcs => inst[r] \in Installs
  /\ pc[r] \in CopyPcs => key[r] \in made
  /\ pc[r] \in {"findDevice", "insert", "supersede", "supersedeRows"} => fresh[r]
  /\ fresh[r] => pc[r] \in {"findDevice", "insert", "supersede", "supersedeRows",
                            "commitActivate"}

Locks(r) ==
  /\ pc[r] \in CodeHeld => codeLock[key[r]] = r
  /\ pc[r] \in DeviceHeld => deviceLock[inst[r]] = r
  /\ \A c \in hit[r] : codeLock[c] = r

KeyRead(r) ==
  /\ fresh[r] => key[r] \notin Spent
  /\ pc[r] \in {"findActive", "commitActivate"} /\ ~fresh[r]
       => key[r] \in Live(inst[r])
  /\ pc[r] = "commitCopy" => key[r] \in ciphertext \ Spent

DeviceRead(r) ==
  /\ pc[r] = "commitActivate" /\ ~fresh[r] => inst[r] \in Active
  /\ pc[r] \in {"revoke", "revokeRows", "commitDelete"} => inst[r] \in Active

Scan(r) ==
  /\ hit[r] \subseteq OwnedCodes(inst[r])
  /\ pc[r] \in {"supersedeRows", "revokeRows"}
       => Live(inst[r]) \subseteq todo[r] \cup hit[r]
  /\ pc[r] = "commitActivate" /\ fresh[r] => Live(inst[r]) \subseteq hit[r]
  /\ pc[r] = "commitDelete" => Live(inst[r]) \subseteq hit[r]
  /\ hit[r] # {} => pc[r] \in {"supersedeRows", "commitActivate", "revokeRows",
                               "commitDelete"}
  /\ pc[r] = "commitActivate" /\ hit[r] # {} => fresh[r]

\* A code has an owner when it is used, and only used codes are voided.
Columns ==
  /\ \A c \in Codes : owner[c] # None <=> c \in used
  /\ revoked \cup superseded \subseteq used
  /\ used \cup expired \subseteq made

Typed == TypeOK /\ \A r \in Requests : Args(r)

Knows(r) == Locks(r) /\ KeyRead(r) /\ DeviceRead(r) /\ Scan(r)

IInv ==
  /\ Typed
  /\ Columns
  /\ \A r \in Requests : Knows(r)
  /\ ActiveDeviceHoldsItsOnlyKey

-----------------------------------------------------------------------------
(* Types and arguments: inductive on their own. *)

LEMMA TypedInit == Init => Typed
  BY NoneAssumption DEF Init, Typed, TypeOK, Args, ActivatePcs, DeletePcs, CopyPcs

LEMMA TypedRollback ==
  ASSUME NEW r \in Requests, Typed, Rollback(r)
  PROVE  Typed'
  BY DEF Typed, TypeOK, Args, Rollback, End, Release, codeVars, deviceVars,
         ActivatePcs, DeletePcs, CopyPcs

LEMMA TypedBegin ==
  ASSUME NEW r \in Requests, Typed, Begin(r)
  PROVE  Typed'
  <1> USE DEF Typed, TypeOK, Args, ActivatePcs, DeletePcs, CopyPcs, Goto,
              codeVars, deviceVars, lockVars, scanVars
  <1>1. ASSUME NEW c \in Codes, NEW i \in Installs, BeginActivate(r, c, i)
        PROVE  Typed'
    BY <1>1 DEF BeginActivate
  <1>2. ASSUME NEW i \in Installs, BeginDelete(r, i)
        PROVE  Typed'
    BY <1>2 DEF BeginDelete
  <1>3. ASSUME NEW c \in Codes, BeginCopy(r, c)
        PROVE  Typed'
    BY <1>3 DEF BeginCopy
  <1> QED BY <1>1, <1>2, <1>3 DEF Begin

LEMMA TypedActivate ==
  ASSUME NEW r \in Requests, Typed, ActivateStep(r)
  PROVE  Typed'
  <1> USE DEF Typed, TypeOK, Args, ActivatePcs, DeletePcs, CopyPcs, Goto,
              codeVars, deviceVars, lockVars, argVars, scanVars
  <1>1. CASE LockCode(r)
    <2>1. CASE Rollback(r)
      BY <2>1, TypedRollback
    <2>2. CASE EraseCode(r)
      BY <2>2 DEF EraseCode, End, Release
    <2>3. CASE /\ fresh' = [fresh EXCEPT ![r] = key[r] \notin used]
               /\ TakeCode(r, IF key[r] \in used THEN "findActive" ELSE "findDevice")
      BY <1>1, <2>3, ZenonT(60) DEF LockCode, TakeCode
    <2> QED BY <1>1, <2>1, <2>2, <2>3 DEF LockCode
  <1>2. CASE FindActive(r)
    BY <1>2, TypedRollback DEF FindActive, LockDevice
  <1>3. CASE FindDevice(r)
    BY <1>3 DEF FindDevice, LockDevice
  <1>4. CASE InsertDevice(r)
    BY <1>4, TypedRollback DEF InsertDevice, LockDevice
  <1>5. CASE Supersede(r)
    BY <1>5 DEF Supersede, Found, CurrentCodes, OwnedCodes
  <1>6. CASE SupersedeRow(r)
    BY <1>6 DEF SupersedeRow, VoidRow, CurrentCodes, OwnedCodes
  <1>7. CASE CommitActivate(r)
    BY <1>7 DEF CommitActivate, End, Release
  <1> QED BY <1>1, <1>2, <1>3, <1>4, <1>5, <1>6, <1>7 DEF ActivateStep

LEMMA TypedDelete ==
  ASSUME NEW r \in Requests, Typed, DeleteStep(r)
  PROVE  Typed'
  <1> USE DEF Typed, TypeOK, Args, ActivatePcs, DeletePcs, CopyPcs, Goto,
              codeVars, deviceVars, lockVars, argVars, scanVars
  <1>1. CASE LockForDelete(r)
    BY <1>1 DEF LockForDelete
  <1>2. CASE FindDeletable(r)
    BY <1>2, TypedRollback DEF FindDeletable, LockDevice
  <1>3. CASE Revoke(r)
    BY <1>3 DEF Revoke, Found, OwnedCodes
  <1>4. CASE RevokeRow(r)
    BY <1>4 DEF RevokeRow, VoidRow, OwnedCodes
  <1>5. CASE CommitDelete(r)
    BY <1>5 DEF CommitDelete, End, Release
  <1> QED BY <1>1, <1>2, <1>3, <1>4, <1>5 DEF DeleteStep

LEMMA TypedCopy ==
  ASSUME NEW r \in Requests, Typed, CopyStep(r)
  PROVE  Typed'
  <1> USE DEF Typed, TypeOK, Args, ActivatePcs, DeletePcs, CopyPcs, Goto,
              codeVars, deviceVars, lockVars, argVars, scanVars
  <1>1. CASE ReadCode(r)
    <2>1. CASE Rollback(r)
      BY <2>1, TypedRollback
    <2>2. CASE EraseCode(r)
      BY <2>2 DEF EraseCode, End, Release
    <2>3. CASE TakeCode(r, "commitCopy") /\ UNCHANGED fresh
      BY <1>1, <2>3 DEF ReadCode, TakeCode
    <2> QED BY <1>1, <2>1, <2>2, <2>3 DEF ReadCode
  <1>2. CASE CommitCopy(r)
    BY <1>2 DEF CommitCopy, Release
  <1>3. CASE Reply(r)
    BY <1>3, TypedRollback DEF Reply
  <1> QED BY <1>1, <1>2, <1>3 DEF CopyStep

LEMMA TypedStep == Typed /\ [Next]_vars => Typed'
  <1> SUFFICES ASSUME Typed, [Next]_vars PROVE Typed'
    OBVIOUS
  <1>1. ASSUME NEW c \in Codes, CreateCode(c) \/ Expire(c)
        PROVE  Typed'
    BY <1>1 DEF CreateCode, Expire, Typed, TypeOK, Args, deviceVars, lockVars,
                argVars, scanVars
  <1>2. CASE EraseExpired
    BY <1>2 DEF EraseExpired, Typed, TypeOK, Args, deviceVars, lockVars,
                argVars, scanVars
  <1>3. ASSUME NEW r \in Requests, Step(r) \/ Abort(r)
        PROVE  Typed'
    BY <1>3, TypedActivate, TypedDelete, TypedCopy, TypedRollback
       DEF Step, Abort, BreakDeadlock
  <1>4. CASE UNCHANGED vars
    BY <1>4 DEF vars, codeVars, deviceVars, lockVars, argVars, scanVars,
                Typed, TypeOK, Args
  <1> QED BY <1>1, <1>2, <1>3, <1>4, TypedBegin DEF Next

\* Every variable keeps its type, and a request its arguments.
THEOREM TypeCorrect == Spec => []TypeOK
  <1>1. Typed => TypeOK
    BY DEF Typed
  <1> QED BY TypedInit, TypedStep, <1>1, PTL DEF Spec

-----------------------------------------------------------------------------
(* The invariant. *)

\* What a step leaves alone of request s: its locals and its locks.
Undisturbed(s) ==
  /\ pc'[s] = pc[s] /\ key'[s] = key[s] /\ inst'[s] = inst[s]
  /\ fresh'[s] = fresh[s] /\ todo'[s] = todo[s] /\ hit'[s] = hit[s]
  /\ \A c \in Codes : codeLock[c] = s => codeLock'[c] = s
  /\ \A i \in Installs : deviceLock[i] = s => deviceLock'[i] = s

SameColumns(c) ==
  /\ c \in used <=> c \in used'
  /\ c \in revoked <=> c \in revoked'
  /\ c \in superseded <=> c \in superseded'
  /\ c \in ciphertext <=> c \in ciphertext'
  /\ owner'[c] = owner[c]

\* A step of another request that respects the locks of s keeps what s knows.
LEMMA Others ==
  ASSUME NEW s \in Requests, Typed, Typed', Knows(s), Undisturbed(s),
         \A c \in Codes : codeLock[c] = s => SameColumns(c),
         \A i \in Installs : deviceLock[i] = s =>
             /\ i \in Active <=> i \in Active'
             /\ Live(i)' \subseteq Live(i)
  PROVE  Knows(s)'
  <1> USE DEF Typed, TypeOK, Args, ActivatePcs, DeletePcs, CopyPcs, Undisturbed
  <1>1. Locks(s)'
    BY DEF Knows, Locks, CodeHeld, DeviceHeld
  <1>2. KeyRead(s)'
    <2>1. pc[s] \in CodeHeld => key[s] \in Codes /\ SameColumns(key[s])
      BY DEF Knows, Locks, CodeHeld
    <2>2. fresh[s] => pc[s] \in CodeHeld
      BY DEF CodeHeld
    <2> QED BY <2>1, <2>2 DEF Knows, KeyRead, SameColumns, Spent, Live, CodeHeld
  <1>3. DeviceRead(s)'
    BY DEF Knows, Locks, DeviceRead, DeviceHeld
  <1>4. Scan(s)'
    <2>1. hit[s] \subseteq OwnedCodes(inst[s])'
      BY DEF Knows, Locks, Scan, SameColumns, OwnedCodes
    <2>2. pc[s] \in DeviceHeld => Live(inst[s])' \subseteq Live(inst[s])
      BY DEF Knows, Locks, DeviceHeld
    <2> QED BY <2>1, <2>2 DEF Knows, Scan, DeviceHeld
  <1> QED BY <1>1, <1>2, <1>3, <1>4 DEF Knows

LEMMA InvInit == Init => IInv
  <1> SUFFICES ASSUME Init PROVE IInv
    OBVIOUS
  <1>1. Typed
    BY TypedInit
  <1>2. Columns /\ ActiveDeviceHoldsItsOnlyKey
    BY NoneAssumption
       DEF Init, Columns, ActiveDeviceHoldsItsOnlyKey, Live, Active
  <1>3. ASSUME NEW r \in Requests PROVE Knows(r)
    BY NoneAssumption DEF Init, Knows, Locks, KeyRead, DeviceRead, Scan,
                          CodeHeld, DeviceHeld
  <1> QED BY <1>1, <1>2, <1>3 DEF IInv

Tables == <<codeVars, deviceVars>>

\* A step of r that only moves r along, or takes a free lock.
LEMMA QuietStep ==
  ASSUME NEW r \in Requests, IInv, Typed', UNCHANGED Tables, Knows(r)',
         \A s \in Requests \ {r} : Undisturbed(s)
  PROVE  IInv'
  <1> USE DEF Tables, codeVars, deviceVars
  <1>1. Columns' /\ ActiveDeviceHoldsItsOnlyKey'
    BY DEF IInv, Columns, ActiveDeviceHoldsItsOnlyKey, Live, Active
  <1>2. ASSUME NEW s \in Requests \ {r} PROVE Knows(s)'
    BY Others DEF IInv, SameColumns, Active, Live
  <1> QED BY <1>1, <1>2 DEF IInv

\* The end of r's transaction drops only r's locks.
LEMMA EndKeepsOthers ==
  ASSUME NEW r \in Requests, Typed, End(r)
  PROVE  Knows(r)' /\ \A s \in Requests \ {r} : Undisturbed(s)
  <1>1. Knows(r)'
    BY DEF End, Knows, Locks, KeyRead, DeviceRead, Scan, CodeHeld, DeviceHeld,
           Typed, TypeOK
  <1>2. ASSUME NEW s \in Requests \ {r} PROVE Undisturbed(s)
    BY DEF End, Undisturbed, Release, Typed, TypeOK
  <1> QED BY <1>1, <1>2

LEMMA InvRollback ==
  ASSUME NEW r \in Requests, IInv, Rollback(r)
  PROVE  IInv'
  BY TypedRollback, EndKeepsOthers, QuietStep DEF Rollback, Tables, IInv

LEMMA InvBegin ==
  ASSUME NEW r \in Requests, IInv, Begin(r)
  PROVE  IInv'
  <1>1. Typed' /\ UNCHANGED Tables
    BY TypedBegin DEF IInv, Begin, BeginActivate, BeginDelete, BeginCopy, Tables
  <1>2. Knows(r)'
    BY DEF IInv, Typed, TypeOK, Args, Begin, BeginActivate, BeginDelete, BeginCopy,
           Goto, Knows, Locks, KeyRead, DeviceRead, Scan, CodeHeld, DeviceHeld,
           codeVars, deviceVars, lockVars, scanVars
  <1>3. ASSUME NEW s \in Requests \ {r} PROVE Undisturbed(s)
    BY DEF IInv, Typed, TypeOK, Begin, BeginActivate, BeginDelete, BeginCopy, Goto,
           Undisturbed, lockVars, scanVars
  <1> QED BY <1>1, <1>2, <1>3, QuietStep

\* A code without an owner's used_at is nobody's live key.
LEMMA EraseKeepsOthers ==
  ASSUME NEW r \in Requests, IInv, EraseCode(r), Typed', codeLock[key[r]] = None,
         key[r] \in Codes
  PROVE  IInv'
  <1>1. Knows(r)' /\ \A s \in Requests \ {r} : Undisturbed(s)
    BY EndKeepsOthers DEF EraseCode, IInv
  <1>2. Columns' /\ ActiveDeviceHoldsItsOnlyKey'
    BY DEF IInv, Columns, ActiveDeviceHoldsItsOnlyKey, Live, Active, EraseCode,
           deviceVars
  <1>3. ASSUME NEW s \in Requests \ {r} PROVE Knows(s)'
    BY <1>1, Others, NoneAssumption
       DEF IInv, SameColumns, Active, Live, EraseCode, deviceVars
  <1> QED BY <1>1, <1>2, <1>3 DEF IInv

LEMMA InvTakeCode ==
  ASSUME NEW r \in Requests, IInv, Typed', key[r] \in Codes, codeLock[key[r]] = None,
         NEW label \in {"findActive", "findDevice", "commitCopy"}, TakeCode(r, label),
         pc[r] \in {"lockCode", "readCode"},
         fresh' = [fresh EXCEPT ![r] = (label = "findDevice")],
         label = "findActive" => key[r] \in Live(inst[r]),
         label = "findDevice" => key[r] \notin Spent,
         label = "commitCopy" => key[r] \in ciphertext \ Spent
  PROVE  IInv'
  <1> USE DEF IInv, Typed, TypeOK, Goto, TakeCode, scanVars
  <1>1. Knows(r)'
    <2>1. Locks(r)' /\ Scan(r)'
      BY DEF Knows, Locks, Scan, CodeHeld, DeviceHeld
    <2>2. KeyRead(r)' /\ DeviceRead(r)'
      BY ZenonT(60) DEF KeyRead, DeviceRead, codeVars, Live, Spent
    <2> QED BY <2>1, <2>2 DEF Knows
  <1>2. ASSUME NEW s \in Requests \ {r} PROVE Undisturbed(s)
    BY NoneAssumption DEF Undisturbed
  <1> QED BY <1>1, <1>2, QuietStep DEF Tables

LEMMA InvLockDevice ==
  ASSUME NEW r \in Requests, IInv, Typed', inst[r] \in Installs,
         NEW label \in {"commitActivate", "supersede", "revoke"}, LockDevice(r, label),
         \/ pc[r] = "findActive" /\ label = "commitActivate" /\ inst[r] \in Active
         \/ pc[r] \in {"findDevice", "insert"} /\ label = "supersede"
         \/ pc[r] = "findDeletable" /\ label = "revoke" /\ inst[r] \in Active
  PROVE  IInv'
  <1> USE DEF IInv, Typed, TypeOK, Goto, LockDevice, argVars, scanVars
  <1>1. Knows(r)'
    <2>1. Locks(r)' /\ Scan(r)'
      BY DEF Knows, Locks, Scan, CodeHeld, DeviceHeld, Args
    <2>2. KeyRead(r)' /\ DeviceRead(r)'
      BY DEF Knows, KeyRead, DeviceRead, codeVars, deviceVars, Live, Spent, Active, Args
    <2> QED BY <2>1, <2>2 DEF Knows
  <1>2. ASSUME NEW s \in Requests \ {r} PROVE Undisturbed(s)
    BY NoneAssumption DEF Undisturbed
  <1> QED BY <1>1, <1>2, QuietStep DEF Tables

\* The rows found by an UPDATE include the live key it is after.
LEMMA InvFound ==
  ASSUME NEW r \in Requests, IInv, Typed', NEW codes \in SUBSET Codes,
         NEW label \in {"supersedeRows", "revokeRows"}, Found(r, codes, label),
         \/ pc[r] = "supersede" /\ label = "supersedeRows"
         \/ pc[r] = "revoke" /\ label = "revokeRows",
         Live(inst[r]) \subseteq codes
  PROVE  IInv'
  <1> USE DEF IInv, Typed, TypeOK, Goto, Found, argVars
  <1>1. Knows(r)'
    <2>1. Locks(r)' /\ Scan(r)'
      BY DEF Knows, Locks, Scan, CodeHeld, DeviceHeld, Args, codeVars, Live, OwnedCodes,
             lockVars
    <2>2. KeyRead(r)' /\ DeviceRead(r)'
      BY DEF Knows, KeyRead, DeviceRead, codeVars, deviceVars, Live, Spent, Active, Args
    <2> QED BY <2>1, <2>2 DEF Knows
  <1>2. ASSUME NEW s \in Requests \ {r} PROVE Undisturbed(s)
    BY DEF Undisturbed, lockVars
  <1> QED BY <1>1, <1>2, QuietStep DEF Tables

LEMMA InvVoidRow ==
  ASSUME NEW r \in Requests, IInv, Typed', NEW matching \in SUBSET Codes,
         NEW label \in {"commitActivate", "commitDelete"}, VoidRow(r, matching, label),
         \/ pc[r] = "supersedeRows" /\ label = "commitActivate"
         \/ pc[r] = "revokeRows" /\ label = "commitDelete",
         Live(inst[r]) \subseteq matching, matching \subseteq OwnedCodes(inst[r])
  PROVE  IInv'
  <1> USE DEF IInv, Typed, TypeOK, Goto, VoidRow, argVars
  <1>1. Knows(r)'
    <2>1. Locks(r)'
      <3>1. CASE Goto(r, label) /\ UNCHANGED <<lockVars, scanVars>>
        BY <3>1 DEF Knows, Locks, CodeHeld, DeviceHeld, lockVars, scanVars
      <3>2. ASSUME NEW c \in todo[r],
                   codeLock' = [codeLock EXCEPT ![c] = r],
                   hit' = [hit EXCEPT ![r] = @ \cup ({c} \cap matching)],
                   UNCHANGED <<pc, key, inst, deviceLock>>
            PROVE  Locks(r)'
        BY <3>2 DEF Knows, Locks, CodeHeld, DeviceHeld, Args, ActivatePcs
      <3> QED BY <3>1, <3>2
    <2>2. KeyRead(r)' /\ DeviceRead(r)'
      BY DEF Knows, KeyRead, DeviceRead, codeVars, deviceVars, Live, Spent, Active, Args
    <2>3. Scan(r)'
      BY DEF Knows, Scan, codeVars, Live, OwnedCodes, scanVars, Args
    <2> QED BY <2>1, <2>2, <2>3 DEF Knows
  <1>2. ASSUME NEW s \in Requests \ {r} PROVE Undisturbed(s)
    BY NoneAssumption DEF Undisturbed, lockVars, scanVars
  <1> QED BY <1>1, <1>2, QuietStep DEF Tables

\* Redeeming a key makes it the only live one of its device; activating again
\* with a used key changes nothing that others see but the token.
LEMMA InvCommitActivate ==
  ASSUME NEW r \in Requests, IInv, Typed', CommitActivate(r)
  PROVE  IInv'
  <1> USE DEF IInv, Typed, TypeOK, Args, ActivatePcs
  <1> PICK c \in made, i \in Installs : c = key[r] /\ i = inst[r]
    BY DEF CommitActivate
  <1>1. /\ c \in Codes
        /\ codeLock[c] = r /\ deviceLock[i] = r
        /\ \A x \in hit[r] : codeLock[x] = r /\ owner[x] = i
    BY DEF CommitActivate, Knows, Locks, Scan, CodeHeld, DeviceHeld, OwnedCodes
  <1>2. Columns'
    BY <1>1, NoneAssumption DEF Columns, CommitActivate
  <1>3. \A j \in Installs \ {i} : Live(j)' = Live(j) /\ (j \in Active <=> j \in Active')
    <2> TAKE j \in Installs \ {i}
    <2>1. CASE fresh[r]
      BY <1>1, <2>1 DEF CommitActivate, Live, Active, Columns, Knows, KeyRead, Spent
    <2>2. CASE ~fresh[r]
      <3>1. hit[r] = {}
        BY <2>2 DEF CommitActivate, Knows, Scan
      <3> QED BY <1>1, <2>2, <3>1 DEF CommitActivate, Live, Active
    <2> QED BY <2>1, <2>2
  <1>4. i \in Active' /\ Live(i)' = {c}
    <2>1. CASE fresh[r]
      <3>1. Live(i) \subseteq hit[r] /\ c \notin Spent /\ c \notin hit[r]
        <4>1. Live(i) \subseteq hit[r] /\ c \notin Spent
          BY <1>1, <2>1 DEF CommitActivate, Knows, Scan, KeyRead
        <4>2. owner[c] = None /\ i # None
          BY <1>1, <4>1, NoneAssumption DEF Columns, Spent
        <4> QED BY <1>1, <4>1, <4>2
      <3> QED BY <1>1, <2>1, <3>1 DEF CommitActivate, Live, Active, Spent
    <2>2. CASE ~fresh[r]
      <3>1. hit[r] = {} /\ c \in Live(i) /\ i \in Active
        BY <2>2 DEF CommitActivate, Knows, Scan, KeyRead, DeviceRead
      <3>2. Live(i) = {c}
        BY <1>1, <3>1 DEF ActiveDeviceHoldsItsOnlyKey
      <3> QED BY <1>1, <2>2, <3>1, <3>2 DEF CommitActivate, Live, Active
    <2> QED BY <2>1, <2>2
  <1>5. ActiveDeviceHoldsItsOnlyKey'
    BY <1>1, <1>3, <1>4 DEF ActiveDeviceHoldsItsOnlyKey, CommitActivate
  <1>6. Knows(r)' /\ \A s \in Requests \ {r} : Undisturbed(s)
    BY EndKeepsOthers DEF CommitActivate
  <1>7. ASSUME NEW s \in Requests \ {r} PROVE Knows(s)'
    <2>1. \A x \in Codes : codeLock[x] = s => SameColumns(x)
      BY <1>1 DEF CommitActivate, SameColumns
    <2>2. \A j \in Installs : deviceLock[j] = s => j # i
      BY <1>1
    <2>3. \A j \in Installs : deviceLock[j] = s =>
             /\ j \in Active <=> j \in Active'
             /\ Live(j)' \subseteq Live(j)
      BY <1>3, <2>2
    <2>4. Typed /\ Knows(s)
      OBVIOUS
    <2> HIDE DEF IInv, Typed, TypeOK, Args
    <2> QED BY <1>6, <2>1, <2>3, <2>4, Others
  <1> QED BY <1>2, <1>5, <1>6, <1>7

\* Deleting a device revokes whatever key it was live with.
LEMMA InvCommitDelete ==
  ASSUME NEW r \in Requests, IInv, Typed', CommitDelete(r)
  PROVE  IInv'
  <1> USE DEF IInv, Typed, TypeOK, Args, DeletePcs
  <1> PICK i \in Installs : i = inst[r]
    BY DEF CommitDelete
  <1>1. /\ i \in Active /\ deviceLock[i] = r
        /\ Live(i) \subseteq hit[r]
        /\ \A x \in hit[r] : codeLock[x] = r /\ owner[x] = i
    BY DEF CommitDelete, Knows, Locks, Scan, DeviceRead, DeviceHeld, OwnedCodes
  <1>2. hit[r] \subseteq used
    BY <1>1, NoneAssumption DEF Columns
  <1>3. Columns'
    BY <1>2 DEF Columns, CommitDelete
  <1>4. \A j \in Installs \ {i} : Live(j)' = Live(j) /\ (j \in Active <=> j \in Active')
    BY <1>1 DEF CommitDelete, Live, Active
  <1>5. Live(i)' = {} /\ i \notin Active'
    BY <1>1 DEF CommitDelete, Live, Active
  <1>6. ActiveDeviceHoldsItsOnlyKey'
    BY <1>4, <1>5 DEF ActiveDeviceHoldsItsOnlyKey, CommitDelete
  <1>7. Knows(r)' /\ \A s \in Requests \ {r} : Undisturbed(s)
    BY EndKeepsOthers DEF CommitDelete
  <1>8. ASSUME NEW s \in Requests \ {r} PROVE Knows(s)'
    <2>1. \A x \in Codes : codeLock[x] = s => SameColumns(x)
      BY <1>1 DEF CommitDelete, SameColumns
    <2>2. \A j \in Installs : deviceLock[j] = s => j # i
      BY <1>1
    <2>3. \A j \in Installs : deviceLock[j] = s =>
             /\ j \in Active <=> j \in Active'
             /\ Live(j)' \subseteq Live(j)
      BY <1>4, <2>2
    <2>4. Typed /\ Knows(s)
      OBVIOUS
    <2> HIDE DEF IInv, Typed, TypeOK, Args
    <2> QED BY <1>7, <2>1, <2>3, <2>4, Others
  <1> QED BY <1>3, <1>6, <1>7, <1>8

LEMMA InvActivate ==
  ASSUME NEW r \in Requests, IInv, ActivateStep(r)
  PROVE  IInv'
  <1>0. Typed /\ Typed'
    BY TypedActivate DEF IInv
  <1>a. pc[r] \in ActivatePcs => inst[r] \in Installs
    BY <1>0 DEF Typed, Args
  <1>1. CASE LockCode(r)
    <2>1. key[r] \in Codes /\ inst[r] \in Installs /\ codeLock[key[r]] = None
      BY <1>0, <1>1 DEF LockCode, Typed, TypeOK, Args, ActivatePcs
    <2>2. CASE Rollback(r)
      BY <2>2, InvRollback
    <2>3. CASE EraseCode(r)
      BY <1>0, <2>1, <2>3, EraseKeepsOthers
    <2>4. CASE /\ ~Refused(key[r], inst[r]) /\ key[r] \notin expired
               /\ fresh' = [fresh EXCEPT ![r] = key[r] \notin used]
               /\ TakeCode(r, IF key[r] \in used THEN "findActive" ELSE "findDevice")
      <3>1. pc[r] \in {"lockCode", "readCode"}
        BY <1>1 DEF LockCode
      <3>2. CASE key[r] \in used
        <4>1. key[r] \in Live(inst[r])
          BY <2>1, <2>4, <3>2 DEF Refused, Live
        <4>2. fresh' = [fresh EXCEPT ![r] = ("findActive" = "findDevice")]
          BY <2>4, <3>2
        <4>3. TakeCode(r, "findActive")
          BY <2>4, <3>2
        <4> QED BY <1>0, <2>1, <3>1, <4>1, <4>2, <4>3, InvTakeCode
      <3>3. CASE key[r] \notin used
        <4>1. key[r] \notin Spent
          BY <2>4, <3>3 DEF Refused, Spent
        <4>2. fresh' = [fresh EXCEPT ![r] = ("findDevice" = "findDevice")]
          BY <2>4, <3>3
        <4>3. TakeCode(r, "findDevice")
          BY <2>4, <3>3
        <4> QED BY <1>0, <2>1, <3>1, <4>1, <4>2, <4>3, InvTakeCode
      <3> QED BY <3>2, <3>3
    <2> QED BY <1>1, <2>2, <2>3, <2>4 DEF LockCode
  <1>2. CASE FindActive(r)
    BY <1>0, <1>a, <1>2, InvRollback, InvLockDevice DEF FindActive, ActivatePcs
  <1>3. CASE FindDevice(r)
    <2>1. CASE inst[r] \in enrolled /\ LockDevice(r, "supersede")
      BY <1>0, <1>a, <1>3, <2>1, InvLockDevice DEF FindDevice, ActivatePcs
    <2>2. CASE /\ Goto(r, "insert")
               /\ UNCHANGED <<codeVars, deviceVars, lockVars, argVars, scanVars>>
      <3>1. Knows(r)'
        BY <1>0, <1>3, <2>2
           DEF FindDevice, IInv, Typed, TypeOK, Args, Knows, Locks, KeyRead, DeviceRead,
               Scan, CodeHeld, DeviceHeld, Goto, Live, OwnedCodes, Spent, Active,
               codeVars, deviceVars, lockVars, argVars, scanVars
      <3>2. \A s \in Requests \ {r} : Undisturbed(s)
        BY <1>0, <2>2 DEF Typed, TypeOK, Goto, Undisturbed, lockVars, argVars, scanVars
      <3> QED BY <1>0, <2>2, <3>1, <3>2, QuietStep DEF Tables
    <2> QED BY <1>3, <2>1, <2>2 DEF FindDevice
  <1>4. CASE InsertDevice(r)
    BY <1>0, <1>a, <1>4, InvRollback, InvLockDevice DEF InsertDevice, ActivatePcs
  <1>5. CASE Supersede(r)
    <2>1. Live(inst[r]) \subseteq CurrentCodes(inst[r]) \ {key[r]}
      BY <1>0, <1>5 DEF Supersede, IInv, Typed, Args, Knows, KeyRead, Live, Spent,
                        CurrentCodes, OwnedCodes, TypeOK
    <2>2. CurrentCodes(inst[r]) \ {key[r]} \in SUBSET Codes
      BY DEF CurrentCodes, OwnedCodes
    <2> QED BY <1>0, <1>5, <2>1, <2>2, InvFound DEF Supersede
  <1>6. CASE SupersedeRow(r)
    <2>1. Live(inst[r]) \subseteq CurrentCodes(inst[r])
      BY <1>0 DEF Live, CurrentCodes, OwnedCodes, Typed, TypeOK
    <2>2. /\ CurrentCodes(inst[r]) \in SUBSET Codes
          /\ CurrentCodes(inst[r]) \subseteq OwnedCodes(inst[r])
      BY DEF CurrentCodes, OwnedCodes
    <2> QED BY <1>0, <1>6, <2>1, <2>2, InvVoidRow DEF SupersedeRow
  <1>7. CASE CommitActivate(r)
    BY <1>0, <1>7, InvCommitActivate
  <1> QED BY <1>1, <1>2, <1>3, <1>4, <1>5, <1>6, <1>7 DEF ActivateStep

LEMMA InvDelete ==
  ASSUME NEW r \in Requests, IInv, DeleteStep(r)
  PROVE  IInv'
  <1>0. Typed /\ Typed'
    BY TypedDelete DEF IInv
  <1>1. CASE LockForDelete(r)
    <2>1. Knows(r)'
      BY <1>0, <1>1
         DEF LockForDelete, IInv, Typed, TypeOK, Args, Knows, Locks, KeyRead,
             DeviceRead, Scan, CodeHeld, DeviceHeld, Goto, Live, OwnedCodes, Spent,
             Active, codeVars, deviceVars, argVars, scanVars
    <2>2. \A s \in Requests \ {r} : Undisturbed(s)
      BY <1>0, <1>1 DEF LockForDelete, Typed, TypeOK, Goto, Undisturbed, argVars, scanVars
    <2> QED BY <1>0, <1>1, <2>1, <2>2, QuietStep DEF LockForDelete, Tables
  <1>2. CASE FindDeletable(r)
    BY <1>0, <1>2, InvRollback, InvLockDevice
       DEF FindDeletable, Typed, Args, DeletePcs
  <1>3. CASE Revoke(r)
    <2>1. Live(inst[r]) \subseteq OwnedCodes(inst[r])
      BY <1>0 DEF Live, OwnedCodes, Typed, TypeOK
    <2> QED BY <1>0, <1>3, <2>1, InvFound DEF Revoke, OwnedCodes
  <1>4. CASE RevokeRow(r)
    <2>1. Live(inst[r]) \subseteq OwnedCodes(inst[r])
      BY <1>0 DEF Live, OwnedCodes, Typed, TypeOK
    <2> QED BY <1>0, <1>4, <2>1, InvVoidRow DEF RevokeRow, OwnedCodes
  <1>5. CASE CommitDelete(r)
    BY <1>0, <1>5, InvCommitDelete
  <1> QED BY <1>1, <1>2, <1>3, <1>4, <1>5 DEF DeleteStep

LEMMA InvCopy ==
  ASSUME NEW r \in Requests, IInv, CopyStep(r)
  PROVE  IInv'
  <1>0. Typed /\ Typed'
    BY TypedCopy DEF IInv
  <1>1. CASE ReadCode(r)
    <2>1. key[r] \in Codes /\ codeLock[key[r]] = None /\ pc[r] = "readCode"
      BY <1>0, <1>1 DEF ReadCode, Typed, TypeOK, Args, CopyPcs
    <2>2. CASE Rollback(r)
      BY <2>2, InvRollback
    <2>3. CASE EraseCode(r)
      BY <1>0, <2>1, <2>3, EraseKeepsOthers
    <2>4. CASE /\ key[r] \in ciphertext \ (Spent \cup expired)
               /\ TakeCode(r, "commitCopy")
               /\ UNCHANGED fresh
      <3>1. fresh' = [fresh EXCEPT ![r] = ("commitCopy" = "findDevice")]
        BY <1>0, <2>1, <2>4 DEF Typed, TypeOK, Args
      <3> QED BY <1>0, <2>1, <2>4, <3>1, InvTakeCode
    <2> QED BY <1>1, <2>2, <2>3, <2>4 DEF ReadCode
  <1>2. CASE CommitCopy(r)
    <2>1. Knows(r)' /\ UNCHANGED Tables
      BY <1>0, <1>2 DEF CommitCopy, Goto, IInv, Typed, TypeOK, Args, Knows, Locks, KeyRead,
         DeviceRead, Scan, CodeHeld, DeviceHeld, Tables, argVars, scanVars
    <2>2. ASSUME NEW s \in Requests \ {r} PROVE Undisturbed(s)
      BY <1>0, <1>2 DEF CommitCopy, Goto, Release, Undisturbed, Typed, TypeOK, argVars,
         scanVars
    <2> QED BY <1>0, <2>1, <2>2, QuietStep
  <1>3. CASE Reply(r)
    BY <1>3, InvRollback DEF Reply
  <1> QED BY <1>1, <1>2, <1>3 DEF CopyStep

\* Steps on codes that no request has locked, or on columns none relies on.
LEMMA InvCodes ==
  ASSUME IInv, (\E c \in Codes : CreateCode(c) \/ Expire(c)) \/ EraseExpired, Typed'
  PROVE  IInv'
  <1> USE DEF deviceVars, lockVars, argVars, scanVars
  <1>1. Columns' /\ ActiveDeviceHoldsItsOnlyKey'
    BY DEF IInv, Columns, ActiveDeviceHoldsItsOnlyKey, Live, Active, CreateCode,
           Expire, EraseExpired
  <1>2. ASSUME NEW s \in Requests PROVE Knows(s)'
    <2>1. Undisturbed(s)
      BY DEF Undisturbed, CreateCode, Expire, EraseExpired
    <2>2. \A i \in Installs : (i \in Active <=> i \in Active') /\ Live(i)' = Live(i)
      BY DEF Live, Active, CreateCode, Expire, EraseExpired
    <2>3. CASE EraseExpired
      <3>1. \A c \in Codes : codeLock[c] = s => SameColumns(c)
        BY <2>3, NoneAssumption DEF EraseExpired, SameColumns, IInv, Typed, TypeOK
      <3> QED BY <2>1, <2>2, <3>1, Others DEF IInv
    <2>4. ASSUME NEW d \in Codes, CreateCode(d) \/ Expire(d) PROVE Knows(s)'
      <3>1. pc[s] = "commitCopy" => key[s] \in ciphertext \ Spent
        BY DEF IInv, Knows, KeyRead
      <3> QED BY <2>1, <2>2, <2>4, <3>1
           DEF CreateCode, Expire, IInv, Knows, Locks, KeyRead, DeviceRead, Scan,
               Undisturbed, Spent, Live, Active, OwnedCodes
    <2> QED BY <2>3, <2>4
  <1> QED BY <1>1, <1>2 DEF IInv

LEMMA InvStep == IInv /\ [Next]_vars => IInv'
  <1> SUFFICES ASSUME IInv, [Next]_vars PROVE IInv'
    OBVIOUS
  <1>0. Typed'
    BY TypedStep DEF IInv
  <1>1. CASE (\E c \in Codes : CreateCode(c) \/ Expire(c)) \/ EraseExpired
    BY <1>0, <1>1, InvCodes
  <1>2. ASSUME NEW r \in Requests, Begin(r) \/ Step(r) \/ Abort(r) PROVE IInv'
    BY <1>2, InvBegin, InvActivate, InvDelete, InvCopy, InvRollback
       DEF Step, Abort, BreakDeadlock
  <1>3. CASE UNCHANGED vars
    BY <1>3 DEF vars, codeVars, deviceVars, lockVars, argVars, scanVars, IInv, Typed,
                TypeOK, Args, Columns, Knows, Locks, KeyRead, DeviceRead, Scan, Live,
                Active, Spent, OwnedCodes, ActiveDeviceHoldsItsOnlyKey
  <1> QED BY <1>1, <1>2, <1>3 DEF Next

\* An active device has exactly one live key, the one that its token came from,
\* and other installations have none: whatever activateClient, deleteDevice
\* and copyActivationCode do at the same time.
THEOREM OnlyKey == Spec => []ActiveDeviceHoldsItsOnlyKey
  <1>1. IInv => ActiveDeviceHoldsItsOnlyKey
    BY DEF IInv
  <1> QED BY InvInit, InvStep, <1>1, PTL DEF Spec

\* copyActivationCode decrypts no key that is spent before its transaction commits.
THEOREM CopyUnspent == Spec => []CopiedKeyIsUnspent
  <1>1. IInv => CopiedKeyIsUnspent
    BY DEF IInv, Knows, KeyRead, CopiedKeyIsUnspent
  <1> QED BY InvInit, InvStep, <1>1, PTL DEF Spec

-----------------------------------------------------------------------------
(* A key that has expired. *)

\* No request that saw key c unexpired is still under way.
NobodyHolds(c) == c \in expired \ used /\ \A r \in Requests : fresh[r] => key[r] # c

LEMMA UnlockedIsUnheld ==
  ASSUME NEW c \in Codes, IInv, c \in expired \ used, codeLock[c] = None
  PROVE  NobodyHolds(c)
  <1> SUFFICES ASSUME NEW r \in Requests, fresh[r] PROVE key[r] # c
    BY DEF NobodyHolds
  <1>1. pc[r] \in CodeHeld
    BY DEF IInv, Typed, Args, CodeHeld
  <1>2. codeLock[key[r]] = r
    BY <1>1 DEF IInv, Knows, Locks
  <1> QED BY <1>2, NoneAssumption

\* fresh becomes TRUE only in LockCode, which looks at expires_at.
LEMMA StaysUnheld ==
  ASSUME NEW c \in Codes, IInv, NobodyHolds(c), [Next]_vars
  PROVE  NobodyHolds(c)'
  <1> USE DEF NobodyHolds, IInv, Typed, TypeOK, codeVars, deviceVars, argVars
  <1>1. ASSUME NEW d \in Codes, CreateCode(d) \/ Expire(d)
        PROVE  NobodyHolds(c)'
    BY <1>1 DEF CreateCode, Expire
  <1>2. CASE EraseExpired
    BY <1>2 DEF EraseExpired
  <1>3. ASSUME NEW r \in Requests, Begin(r)
        PROVE  NobodyHolds(c)'
    <2>1. ~fresh[r] /\ UNCHANGED <<codeVars, fresh>> /\ \A s \in Requests \ {r} : key'[s] = key[s]
      BY <1>3 DEF Begin, BeginActivate, BeginDelete, BeginCopy, Args
    <2> QED BY <2>1
  <1>4. ASSUME NEW r \in Requests, End(r), UNCHANGED <<expired, used>>
        PROVE  NobodyHolds(c)'
    BY <1>4 DEF End
  <1>5. ASSUME NEW r \in Requests, CommitActivate(r)
        PROVE  NobodyHolds(c)'
    BY <1>5 DEF CommitActivate, End
  <1>6. ASSUME NEW r \in Requests, LockCode(r)
        PROVE  NobodyHolds(c)'
    BY <1>4, <1>6 DEF LockCode, Rollback, EraseCode, TakeCode
  <1>7. ASSUME NEW r \in Requests,
               \/ FindActive(r) \/ FindDevice(r) \/ InsertDevice(r) \/ Supersede(r)
               \/ SupersedeRow(r) \/ DeleteStep(r) \/ CopyStep(r) \/ Abort(r)
               \/ BreakDeadlock(r)
        PROVE  NobodyHolds(c)'
    <2>1. \/ End(r) /\ UNCHANGED <<expired, used>>
          \/ UNCHANGED <<expired, used, fresh, key>>
          \/ TakeCode(r, "commitCopy") /\ UNCHANGED fresh
      BY <1>7 DEF FindActive, FindDevice, InsertDevice, Supersede, SupersedeRow,
         DeleteStep, LockForDelete, FindDeletable, Revoke, RevokeRow, CommitDelete,
         CopyStep, ReadCode, CommitCopy, Reply, Abort, BreakDeadlock, Rollback, EraseCode,
         LockDevice, Found, VoidRow, Goto
    <2> QED BY <1>4, <2>1 DEF TakeCode
  <1>8. CASE UNCHANGED vars
    BY <1>8 DEF vars
  <1> QED
    BY <1>1, <1>2, <1>3, <1>5, <1>6, <1>7, <1>8 DEF Next, Step, ActivateStep

\* Whatever requests run, a key that has expired while nobody worked on it is
\* not redeemed any more (the check of expires_at after FOR UPDATE in
\* activateClient).
THEOREM NoLateRedemption == Spec => ExpiredKeyIsNeverRedeemed
  <1> SUFFICES ASSUME NEW c \in Codes
               PROVE  Spec => [](c \in expired \ used /\ codeLock[c] = None
                                   => [](c \notin used))
    BY DEF ExpiredKeyIsNeverRedeemed
  <1>1. IInv /\ c \in expired \ used /\ codeLock[c] = None => NobodyHolds(c)
    BY UnlockedIsUnheld
  <1>2. IInv /\ NobodyHolds(c) /\ [Next]_vars => NobodyHolds(c)'
    BY StaysUnheld
  <1>3. NobodyHolds(c) => c \notin used
    BY DEF NobodyHolds
  <1> QED BY InvInit, InvStep, <1>1, <1>2, <1>3, PTL DEF Spec

-----------------------------------------------------------------------------
(* The refinement. *)

\* A running activation has locked c before it expired.
Reserved(c) == \E r \in Requests : fresh[r] /\ key[r] = c

HoldsOf == [i \in Installs |-> IF i \in Active THEN token[i] ELSE None]

LEMMA InitRefined == Init => OneTime!Init
  BY DEF Init, OneTime!Init, Redeemable, Active, Spent

\* Steps that change no column, nor which expired keys are reserved.
LEMMA SameMeaning ==
  ASSUME UNCHANGED Tables, \A c \in expired : Reserved(c)' <=> Reserved(c)
  PROVE  UNCHANGED OneTime!vars
  <1>1. Redeemable' = Redeemable
    BY DEF Redeemable, Reserved, Tables, codeVars, Spent
  <1>2. UNCHANGED made /\ HoldsOf' = HoldsOf
    BY DEF HoldsOf, Active, Tables, codeVars, deviceVars
  <1> QED BY <1>1, <1>2 DEF OneTime!vars, HoldsOf

\* Without its request, an expired key lapses.
LEMMA EndRefined ==
  ASSUME NEW r \in Requests, IInv, End(r), UNCHANGED deviceVars,
         UNCHANGED <<made, expired, used, revoked, superseded>>
  PROVE  OneTime!Next \/ UNCHANGED OneTime!vars
  <1>1. UNCHANGED made /\ HoldsOf' = HoldsOf
    BY DEF HoldsOf, Active, deviceVars
  <1>2. Redeemable' \subseteq Redeemable /\ Redeemable \subseteq Redeemable' \cup {key[r]}
    BY DEF Redeemable, Spent, End, IInv, Typed, TypeOK
  <1>3. CASE Redeemable' = Redeemable
    BY <1>1, <1>3 DEF OneTime!vars, HoldsOf
  <1>4. CASE Redeemable' # Redeemable
    <2>1. key[r] \in Redeemable /\ Redeemable' = Redeemable \ {key[r]}
      BY <1>2, <1>4
    <2>2. key[r] \in Codes
      BY <2>1 DEF Redeemable, IInv, Typed, TypeOK
    <2>3. OneTime!Lapse(key[r])
      BY <1>1, <2>1 DEF OneTime!Lapse, HoldsOf
    <2> QED BY <2>2, <2>3 DEF OneTime!Next
  <1> QED BY <1>3, <1>4

LEMMA CodesRefined ==
  ASSUME IInv, (\E c \in Codes : CreateCode(c) \/ Expire(c)) \/ EraseExpired
  PROVE  OneTime!Next \/ UNCHANGED OneTime!vars
  <1> USE DEF deviceVars, argVars
  <1>1. HoldsOf' = HoldsOf
    BY DEF HoldsOf, Active, CreateCode, Expire, EraseExpired
  <1>2. ASSUME NEW c \in Codes, CreateCode(c)
        PROVE  OneTime!Next
    <2>1. c \notin made /\ made' = made \cup {c} /\ c \notin Spent \cup expired
      BY <1>2 DEF CreateCode, IInv, Columns, Spent
    <2>2. Redeemable' = Redeemable \cup {c}
      BY <1>2, <2>1 DEF CreateCode, Redeemable, Spent
    <2>3. OneTime!Issue(c)
      BY <1>1, <2>1, <2>2 DEF OneTime!Issue, HoldsOf
    <2> QED BY <2>3 DEF OneTime!Next
  <1>3. ASSUME NEW c \in Codes, Expire(c)
        PROVE  OneTime!Next \/ UNCHANGED OneTime!vars
    <2>1. UNCHANGED made
      BY <1>3 DEF Expire
    <2>2. Redeemable' \subseteq Redeemable /\ Redeemable \subseteq Redeemable' \cup {c}
      BY <1>3 DEF Expire, Redeemable, Spent
    <2>3. CASE c \in Redeemable /\ Redeemable' = Redeemable \ {c}
      <3>1. OneTime!Lapse(c)
        BY <1>1, <2>1, <2>3 DEF OneTime!Lapse, HoldsOf
      <3> QED BY <3>1 DEF OneTime!Next
    <2>4. CASE Redeemable' = Redeemable
      BY <1>1, <2>1, <2>4 DEF OneTime!vars, HoldsOf
    <2> QED BY <2>2, <2>3, <2>4
  <1>4. CASE EraseExpired
    <2>1. UNCHANGED <<made, Redeemable>>
      BY <1>4 DEF EraseExpired, Redeemable, Spent
    <2> QED BY <1>1, <2>1 DEF OneTime!vars, HoldsOf
  <1> QED BY <1>2, <1>3, <1>4

\* A first activation redeems the key; a repeated one hands out the
\* credentials the device already has.
LEMMA CommitActivateRefined ==
  ASSUME NEW r \in Requests, IInv, CommitActivate(r)
  PROVE  OneTime!Next \/ UNCHANGED OneTime!vars
  <1> USE DEF IInv, Typed, TypeOK, Args, ActivatePcs
  <1> PICK c \in made, i \in Installs : c = key[r] /\ i = inst[r]
    BY DEF CommitActivate
  <1>1. c \in Codes /\ codeLock[c] = r
    BY DEF CommitActivate, Knows, Locks, CodeHeld
  <1>2. HoldsOf' = [HoldsOf EXCEPT ![i] = c] /\ UNCHANGED made
    <2>1. i \in Active' /\ token'[i] = c
      <3>1. ~fresh[r] => i \in Active
        BY DEF CommitActivate, Knows, DeviceRead
      <3> QED BY <3>1 DEF CommitActivate, Active
    <2>2. \A j \in Installs \ {i} : token'[j] = token[j] /\ (j \in Active' <=> j \in Active)
      BY DEF CommitActivate, Active
    <2>3. UNCHANGED made
      BY DEF CommitActivate
    <2> HIDE DEF IInv, Typed, TypeOK, Args
    <2> QED BY <2>1, <2>2, <2>3 DEF HoldsOf
  <1>3. CASE fresh[r]
    <2>1. c \in Redeemable
      BY <1>1, <1>3 DEF Redeemable, Knows, KeyRead
    <2>2. hit[r] \subseteq used
      BY NoneAssumption DEF Knows, Scan, OwnedCodes, Columns
    <2>3. \A s \in Requests \ {r} : fresh'[s] = fresh[s] /\ key'[s] = key[s]
      BY DEF CommitActivate, End
    <2>4. Spent' = Spent \cup {c}
      BY <1>3, <2>2 DEF CommitActivate, Spent
    <2>5. ~fresh'[r] /\ UNCHANGED <<made, expired>>
      BY DEF CommitActivate, End
    <2>6. \A d \in Codes \ {c} : Reserved(d)' <=> Reserved(d)
      BY <2>3, <2>5 DEF Reserved
    <2>7. Redeemable' = Redeemable \ {c}
      BY <2>4, <2>5, <2>6 DEF Redeemable, Reserved
    <2>8. OneTime!Redeem(c, i)
      BY <1>2, <2>1, <2>7 DEF OneTime!Redeem, HoldsOf
    <2> QED BY <1>1, <2>8 DEF OneTime!Next
  <1>4. CASE ~fresh[r]
    <2>1. hit[r] = {} /\ c \in Live(i) /\ i \in Active
      BY <1>4 DEF CommitActivate, Knows, Scan, KeyRead, DeviceRead
    <2>2. HoldsOf[i] = c
      BY <2>1 DEF HoldsOf, ActiveDeviceHoldsItsOnlyKey
    <2>3. HoldsOf' = HoldsOf
      BY <1>2, <2>2 DEF HoldsOf
    <2>4. Redeemable' = Redeemable
      BY <1>4, <2>1 DEF CommitActivate, End, Redeemable, Spent
    <2> QED BY <1>2, <2>3, <2>4 DEF OneTime!vars, HoldsOf
  <1> QED BY <1>3, <1>4

LEMMA CommitDeleteRefined ==
  ASSUME NEW r \in Requests, IInv, CommitDelete(r)
  PROVE  OneTime!Next \/ UNCHANGED OneTime!vars
  <1> USE DEF IInv, Typed, TypeOK, Args, DeletePcs
  <1> PICK i \in Installs : i = inst[r]
    BY DEF CommitDelete
  <1>1. i \in Active /\ hit[r] \subseteq used /\ ~fresh[r]
    BY NoneAssumption DEF CommitDelete, Knows, DeviceRead, Scan, OwnedCodes, Columns
  <1>2. HoldsOf[i] # None
    <2>1. token[i] \in Live(i)
      BY <1>1 DEF ActiveDeviceHoldsItsOnlyKey
    <2> QED BY <1>1, <2>1, NoneAssumption DEF HoldsOf, Live
  <1>3. HoldsOf' = [HoldsOf EXCEPT ![i] = None]
    BY DEF CommitDelete, HoldsOf, Active
  <1>4. Redeemable' = Redeemable /\ made' = made
    BY <1>1 DEF CommitDelete, End, Redeemable, Spent
  <1>5. OneTime!Withdraw(i)
    BY <1>2, <1>3, <1>4 DEF OneTime!Withdraw, HoldsOf
  <1> QED BY <1>5 DEF OneTime!Next

\* The other statements move a request along, or end it.
LEMMA StatementRefined ==
  ASSUME NEW r \in Requests, IInv,
         \/ Begin(r) \/ LockCode(r) \/ FindActive(r) \/ FindDevice(r) \/ InsertDevice(r)
         \/ Supersede(r) \/ SupersedeRow(r) \/ LockForDelete(r) \/ FindDeletable(r)
         \/ Revoke(r) \/ RevokeRow(r) \/ CopyStep(r) \/ Abort(r) \/ BreakDeadlock(r)
  PROVE  OneTime!Next \/ UNCHANGED OneTime!vars
  <1> USE DEF IInv, Typed, TypeOK
  <1>1. ASSUME End(r), UNCHANGED <<made, expired, used, revoked, superseded, deviceVars>>
        PROVE  OneTime!Next \/ UNCHANGED OneTime!vars
    BY <1>1, EndRefined
  <1>2. CASE Begin(r)
    <2>1. ~fresh[r] /\ UNCHANGED <<Tables, fresh>> /\ \A s \in Requests \ {r} : key'[s] = key[s]
      BY <1>2 DEF Begin, BeginActivate, BeginDelete, BeginCopy, Args, Tables, argVars
    <2> QED BY <2>1, SameMeaning DEF Reserved
  <1>3. CASE LockCode(r)
    <2>1. CASE Rollback(r) \/ EraseCode(r)
      BY <1>1, <2>1 DEF Rollback, EraseCode, codeVars
    <2>2. CASE /\ key[r] \notin expired /\ UNCHANGED <<Tables, key>>
               /\ \A s \in Requests \ {r} : fresh'[s] = fresh[s]
      BY <2>2, SameMeaning DEF Reserved
    <2> QED BY <1>3, <2>1, <2>2 DEF LockCode, TakeCode, Tables
  <1>4. CASE ~Begin(r) /\ ~LockCode(r)
    <2>1. \/ Rollback(r) \/ EraseCode(r)
          \/ UNCHANGED <<Tables, fresh, key>>
      BY <1>4 DEF FindActive, FindDevice, InsertDevice, Supersede, SupersedeRow,
         LockForDelete, FindDeletable, Revoke, RevokeRow, CopyStep, ReadCode, CommitCopy, Reply,
         Abort, BreakDeadlock, LockDevice, Found, VoidRow, TakeCode, Tables, argVars
    <2>2. CASE Rollback(r) \/ EraseCode(r)
      BY <1>1, <2>2 DEF Rollback, EraseCode, codeVars
    <2>3. CASE UNCHANGED <<Tables, fresh, key>>
      BY <2>3, SameMeaning DEF Reserved
    <2> QED BY <2>1, <2>2, <2>3
  <1> QED BY <1>2, <1>3, <1>4

LEMMA StepRefined == IInv /\ [Next]_vars => [OneTime!Next]_(OneTime!vars)
  <1> SUFFICES ASSUME IInv, [Next]_vars
               PROVE  OneTime!Next \/ UNCHANGED OneTime!vars
    OBVIOUS
  <1>1. CASE (\E c \in Codes : CreateCode(c) \/ Expire(c)) \/ EraseExpired
    BY <1>1, CodesRefined
  <1>2. ASSUME NEW r \in Requests, Begin(r) \/ Step(r) \/ Abort(r)
        PROVE  OneTime!Next \/ UNCHANGED OneTime!vars
    BY <1>2, CommitActivateRefined, CommitDeleteRefined, StatementRefined
       DEF Step, ActivateStep, DeleteStep
  <1>3. CASE UNCHANGED vars
    <2>1. UNCHANGED Tables /\ \A c \in expired : Reserved(c)' <=> Reserved(c)
      BY <1>3 DEF vars, Tables, argVars, Reserved
    <2> QED BY <2>1, SameMeaning
  <1> QED BY <1>1, <1>2, <1>3 DEF Next

\* The transactions, with their statements and locks, do what OneTimeKey says
\* of keys and credentials: a key is redeemed once, by one installation, and a
\* deletion withdraws what the device held.
THEOREM KeysAreOneTime == Spec => ImplementsOneTimeKey
  BY InitRefined, StepRefined, InvInit, InvStep, PTL
     DEF Spec, ImplementsOneTimeKey, OneTime!Spec

=============================================================================
