----------------------------- MODULE Activation -----------------------------
(***************************************************************************)
(* Connection keys and the devices they activate: the transactions of      *)
(* activateClient, deleteDevice, copyActivationCode, createActivationCode  *)
(* and listActivationCodes in internal/server/app.go, at the granularity   *)
(* of their SQL statements.  PostgreSQL runs them at READ COMMITTED: a     *)
(* statement sees the rows committed when it starts, SELECT ... FOR UPDATE *)
(* and UPDATE wait for a locked row and then look at it again, a write is  *)
(* seen by others at commit, and a cycle of waiting transactions is broken *)
(* by rolling one of them back.                                            *)
(*                                                                         *)
(* A column that is NULL or set is modelled by the set of rows where it is *)
(* set.  devices has one row per installation_id, and no row is ever       *)
(* removed, so a device is named by its installation.  The node, mesh and  *)
(* status columns, tickets and the prepare lock are in AgentEnrollment.    *)
(***************************************************************************)
CONSTANTS
  Codes,      \* rows of activation_codes that may be created
  Installs,   \* installation identities of client machines
  Requests,   \* slots of the HTTP requests being served at one time
  None        \* NULL, and the holder of a free lock

ASSUME NoneAssumption ==
  /\ None \notin Codes
  /\ None \notin Installs
  /\ None \notin Requests

VARIABLES
  made,        \* codes that exist
  expired,     \* codes whose expires_at has passed
  used,        \* codes with used_at
  revoked,     \* codes with revoked_at
  superseded,  \* codes with superseded_at
  ciphertext,  \* codes whose code_ciphertext is kept
  owner,       \* installation_id of each code
  enrolled,    \* installations with a row in devices
  deleted,     \* devices with deleted_at
  token,       \* client_token_hash of each device, named by the code that got it
  codeLock,    \* which request holds the row lock of a code
  deviceLock,  \* which request holds the row (or new index entry) of a device
  advisory,    \* which request holds the advisory lock of a device id
  pc,          \* next statement of each request
  key,         \* the request's code
  inst,        \* the request's installation
  fresh,       \* newEnrollment
  todo,        \* rows an UPDATE found when it started and has still to lock
  hit          \* rows that UPDATE has locked and changed

codeVars   == <<made, expired, used, revoked, superseded, ciphertext, owner>>
deviceVars == <<enrolled, deleted, token>>
lockVars   == <<codeLock, deviceLock, advisory>>
argVars    == <<key, inst, fresh>>
scanVars   == <<todo, hit>>
vars == <<codeVars, deviceVars, lockVars, pc, argVars, scanVars>>

ActivatePcs == {"lockCode", "findActive", "findDevice", "insert", "supersede",
                "supersedeRows", "commitActivate"}
DeletePcs   == {"lockDevice", "findDeletable", "revoke", "revokeRows",
                "commitDelete"}
CopyPcs     == {"readCode", "commitCopy", "reply"}

TypeOK ==
  /\ made \subseteq Codes /\ expired \subseteq Codes /\ used \subseteq Codes
  /\ revoked \subseteq Codes /\ superseded \subseteq Codes
  /\ ciphertext \subseteq Codes
  /\ owner \in [Codes -> Installs \cup {None}]
  /\ enrolled \subseteq Installs /\ deleted \subseteq Installs
  /\ token \in [Installs -> Codes \cup {None}]
  /\ codeLock \in [Codes -> Requests \cup {None}]
  /\ deviceLock \in [Installs -> Requests \cup {None}]
  /\ advisory \in [Installs -> Requests \cup {None}]
  /\ pc \in [Requests -> {"idle"} \cup ActivatePcs \cup DeletePcs \cup CopyPcs]
  /\ key \in [Requests -> Codes \cup {None}]
  /\ inst \in [Requests -> Installs \cup {None}]
  /\ fresh \in [Requests -> BOOLEAN]
  /\ todo \in [Requests -> SUBSET Codes]
  /\ hit \in [Requests -> SUBSET Codes]

Init ==
  /\ made = {} /\ expired = {} /\ used = {} /\ revoked = {}
  /\ superseded = {} /\ ciphertext = {}
  /\ owner = [c \in Codes |-> None]
  /\ enrolled = {} /\ deleted = {}
  /\ token = [i \in Installs |-> None]
  /\ codeLock = [c \in Codes |-> None]
  /\ deviceLock = [i \in Installs |-> None]
  /\ advisory = [i \in Installs |-> None]
  /\ pc = [r \in Requests |-> "idle"]
  /\ key = [r \in Requests |-> None]
  /\ inst = [r \in Requests |-> None]
  /\ fresh = [r \in Requests |-> FALSE]
  /\ todo = [r \in Requests |-> {}]
  /\ hit = [r \in Requests |-> {}]

-----------------------------------------------------------------------------
(* What a row says of a code. *)

Spent == used \cup revoked \cup superseded

\* The code a device was activated with and may be activated with again.
Live(i) == {c \in used \ (revoked \cup superseded) : owner[c] = i}

Active == enrolled \ deleted

\* Commit and rollback both drop every lock of the transaction.
Release(lock, r) == [x \in DOMAIN lock |-> IF lock[x] = r THEN None ELSE lock[x]]

End(r) ==
  /\ pc' = [pc EXCEPT ![r] = "idle"]
  /\ key' = [key EXCEPT ![r] = None]
  /\ inst' = [inst EXCEPT ![r] = None]
  /\ fresh' = [fresh EXCEPT ![r] = FALSE]
  /\ todo' = [todo EXCEPT ![r] = {}]
  /\ hit' = [hit EXCEPT ![r] = {}]
  /\ codeLock' = Release(codeLock, r)
  /\ deviceLock' = Release(deviceLock, r)
  /\ advisory' = Release(advisory, r)

\* Mutant: an early return without the deferred Rollback keeps its locks.
RollbackForgotten(r) ==
  /\ pc' = [pc EXCEPT ![r] = "idle"]
  /\ UNCHANGED <<codeVars, deviceVars, lockVars, argVars, scanVars>>

\* An answer that changes nothing: the deferred Rollback undoes the rest.
Rollback(r) == End(r) /\ UNCHANGED <<codeVars, deviceVars>>

Goto(r, label) == pc' = [pc EXCEPT ![r] = label]

\* An expired code loses its ciphertext, and that is committed.
EraseCode(r) ==
  /\ ciphertext' = ciphertext \ {key[r]}
  /\ End(r)
  /\ UNCHANGED <<made, expired, used, revoked, superseded, owner, deviceVars>>

\* The code's row stays locked until the transaction ends.
TakeCode(r, label) ==
  /\ codeLock' = [codeLock EXCEPT ![key[r]] = r]
  /\ Goto(r, label)
  /\ UNCHANGED <<codeVars, deviceVars, deviceLock, advisory, key, inst, scanVars>>

-----------------------------------------------------------------------------
(* Codes outside any longer transaction. *)

\* createActivationCode: one INSERT.
CreateCode(c) ==
  /\ c \notin made
  /\ made' = made \cup {c}
  /\ ciphertext' = ciphertext \cup {c}
  /\ UNCHANGED <<expired, used, revoked, superseded, owner, deviceVars, lockVars,
                 pc, argVars, scanVars>>

\* The clock passes expires_at.
Expire(c) ==
  /\ c \in made \ expired
  /\ expired' = expired \cup {c}
  /\ UNCHANGED <<made, used, revoked, superseded, ciphertext, owner, deviceVars,
                 lockVars, pc, argVars, scanVars>>

\* listActivationCodes: its UPDATE waits for the rows others hold.
EraseExpired ==
  LET stale == (expired \cap ciphertext) \ used
  IN /\ stale # {}
     /\ \A c \in stale : codeLock[c] = None
     /\ ciphertext' = ciphertext \ stale
     /\ UNCHANGED <<made, expired, used, revoked, superseded, owner, deviceVars,
                    lockVars, pc, argVars, scanVars>>

-----------------------------------------------------------------------------
(* activateClient *)

BeginActivate(r, c, i) ==
  /\ pc[r] = "idle"
  /\ c \in made
  /\ key' = [key EXCEPT ![r] = c]
  /\ inst' = [inst EXCEPT ![r] = i]
  /\ Goto(r, "lockCode")
  /\ UNCHANGED <<codeVars, deviceVars, lockVars, fresh, scanVars>>

Refused(c, i) ==
  \/ c \in revoked \cup superseded
  \/ c \in used \ expired /\ owner[c] # i

\* Mutant: the code is read without FOR UPDATE.
LockCodeUnlocked(r) ==
  LET c == key[r]
  IN /\ pc[r] = "lockCode"
     /\ \/ /\ Refused(c, inst[r]) \/ c \in expired
           /\ Rollback(r)
        \/ /\ ~Refused(c, inst[r]) /\ c \notin expired
           /\ fresh' = [fresh EXCEPT ![r] = c \notin used]
           /\ Goto(r, IF c \in used THEN "findActive" ELSE "findDevice")
           /\ UNCHANGED <<codeVars, deviceVars, lockVars, key, inst, scanVars>>

\* Mutant: expires_at is not looked at.
LockCodeForever(r) ==
  LET c == key[r]
  IN /\ pc[r] = "lockCode"
     /\ codeLock[c] = None
     /\ \/ Refused(c, inst[r]) /\ Rollback(r)
        \/ /\ ~Refused(c, inst[r])
           /\ fresh' = [fresh EXCEPT ![r] = c \notin used]
           /\ TakeCode(r, IF c \in used THEN "findActive" ELSE "findDevice")

\* SELECT ... FROM activation_codes WHERE code_hash=$1 FOR UPDATE and the
\* checks after it.  An expired code loses its ciphertext, and that commits.
LockCode(r) ==
  LET c == key[r]
      i == inst[r]
  IN /\ pc[r] = "lockCode"
     /\ codeLock[c] = None
     /\ \/ /\ Refused(c, i)
           /\ Rollback(r)
        \/ /\ ~Refused(c, i)
           /\ c \in expired
           /\ EraseCode(r)
        \/ /\ ~Refused(c, i)
           /\ c \notin expired
           /\ fresh' = [fresh EXCEPT ![r] = c \notin used]
           /\ TakeCode(r, IF c \in used THEN "findActive" ELSE "findDevice")

LockDevice(r, label) ==
  /\ deviceLock[inst[r]] = None
  /\ deviceLock' = [deviceLock EXCEPT ![inst[r]] = r]
  /\ Goto(r, label)
  /\ UNCHANGED <<codeVars, deviceVars, codeLock, advisory, argVars, scanVars>>

\* A used code: the device must exist and not be deleted.
FindActive(r) ==
  /\ pc[r] = "findActive"
  /\ \/ inst[r] \notin Active /\ Rollback(r)
     \/ inst[r] \in Active /\ LockDevice(r, "commitActivate")

\* Mutant: the device is read without FOR UPDATE.
FindDeviceUnlocked(r) ==
  /\ pc[r] = "findDevice"
  /\ Goto(r, IF inst[r] \in enrolled THEN "supersede" ELSE "insert")
  /\ UNCHANGED <<codeVars, deviceVars, lockVars, argVars, scanVars>>

\* An unused code: a device row is taken over even when it is deleted.
FindDevice(r) ==
  /\ pc[r] = "findDevice"
  /\ \/ inst[r] \in enrolled /\ LockDevice(r, "supersede")
     \/ /\ inst[r] \notin enrolled
        /\ Goto(r, "insert")
        /\ UNCHANGED <<codeVars, deviceVars, lockVars, argVars, scanVars>>

\* INSERT waits for a concurrent INSERT of the same installation_id, and
\* fails on the unique index when that one commits.
InsertDevice(r) ==
  /\ pc[r] = "insert"
  /\ \/ inst[r] \notin enrolled /\ LockDevice(r, "supersede")
     \/ inst[r] \in enrolled /\ Rollback(r)

\* The WHERE clauses of the two UPDATEs that void the codes of a device.
OwnedCodes(i)   == {c \in Codes : owner[c] = i}
CurrentCodes(i) == OwnedCodes(i) \ (revoked \cup superseded)

\* The codes an UPDATE has found are locked one after the other.
Found(r, codes, label) ==
  /\ todo' = [todo EXCEPT ![r] = codes]
  /\ Goto(r, label)
  /\ UNCHANGED <<codeVars, deviceVars, lockVars, argVars, hit>>

\* UPDATE activation_codes SET superseded_at ...: the rows it sees.
Supersede(r) ==
  /\ pc[r] = "supersede"
  /\ Found(r, CurrentCodes(inst[r]) \ {key[r]}, "supersedeRows")

\* A row that no longer satisfies the WHERE clause once locked is left alone.
VoidRow(r, matching, label) ==
  \/ /\ todo[r] = {}
     /\ Goto(r, label)
     /\ UNCHANGED <<codeVars, deviceVars, lockVars, argVars, scanVars>>
  \/ \E c \in todo[r] :
       /\ codeLock[c] \in {None, r}
       /\ codeLock' = [codeLock EXCEPT ![c] = r]
       /\ todo' = [todo EXCEPT ![r] = @ \ {c}]
       /\ hit' = [hit EXCEPT ![r] = @ \cup ({c} \cap matching)]
       /\ UNCHANGED <<codeVars, deviceVars, deviceLock, advisory, pc, argVars>>

SupersedeRow(r) ==
  /\ pc[r] = "supersedeRows"
  /\ VoidRow(r, CurrentCodes(inst[r]), "commitActivate")

CommitActivate(r) ==
  LET c == key[r]
      i == inst[r]
  IN /\ pc[r] = "commitActivate"
     /\ superseded' = superseded \cup hit[r]
     /\ ciphertext' = ciphertext \ (IF fresh[r] THEN hit[r] \cup {c} ELSE {})
     /\ used' = IF fresh[r] THEN used \cup {c} ELSE used
     /\ owner' = IF fresh[r] THEN [owner EXCEPT ![c] = i] ELSE owner
     /\ enrolled' = enrolled \cup {i}
     /\ deleted' = IF fresh[r] THEN deleted \ {i} ELSE deleted
     /\ token' = [token EXCEPT ![i] = c]
     /\ End(r)
     /\ UNCHANGED <<made, expired, revoked>>

ActivateStep(r) ==
  \/ LockCode(r) \/ FindActive(r) \/ FindDevice(r) \/ InsertDevice(r)
  \/ Supersede(r) \/ SupersedeRow(r) \/ CommitActivate(r)

-----------------------------------------------------------------------------
(* deleteDevice *)

BeginDelete(r, i) ==
  /\ pc[r] = "idle"
  /\ i \in enrolled
  /\ inst' = [inst EXCEPT ![r] = i]
  /\ Goto(r, "lockDevice")
  /\ UNCHANGED <<codeVars, deviceVars, lockVars, key, fresh, scanVars>>

\* pg_advisory_xact_lock waits.
LockForDelete(r) ==
  /\ pc[r] = "lockDevice"
  /\ advisory[inst[r]] = None
  /\ advisory' = [advisory EXCEPT ![inst[r]] = r]
  /\ Goto(r, "findDeletable")
  /\ UNCHANGED <<codeVars, deviceVars, codeLock, deviceLock, argVars, scanVars>>

FindDeletable(r) ==
  /\ pc[r] = "findDeletable"
  /\ \/ inst[r] \notin Active /\ Rollback(r)
     \/ inst[r] \in Active /\ LockDevice(r, "revoke")

\* UPDATE activation_codes SET revoked_at ... WHERE installation_id=$1.
Revoke(r) ==
  /\ pc[r] = "revoke"
  /\ Found(r, OwnedCodes(inst[r]), "revokeRows")

RevokeRow(r) ==
  /\ pc[r] = "revokeRows"
  /\ VoidRow(r, OwnedCodes(inst[r]), "commitDelete")

\* Mutant: the row is marked deleted by the wrong id.
CommitDeleteWrongId(r) ==
  /\ pc[r] = "commitDelete"
  /\ deleted' = deleted \cup {key[r]}
  /\ revoked' = revoked \cup hit[r]
  /\ ciphertext' = ciphertext \ hit[r]
  /\ End(r)
  /\ UNCHANGED <<made, expired, used, superseded, owner, enrolled, token>>

CommitDelete(r) ==
  /\ pc[r] = "commitDelete"
  /\ deleted' = deleted \cup {inst[r]}
  /\ revoked' = revoked \cup hit[r]
  /\ ciphertext' = ciphertext \ hit[r]
  /\ End(r)
  /\ UNCHANGED <<made, expired, used, superseded, owner, enrolled, token>>

DeleteStep(r) ==
  \/ LockForDelete(r) \/ FindDeletable(r) \/ Revoke(r) \/ RevokeRow(r)
  \/ CommitDelete(r)

-----------------------------------------------------------------------------
(* copyActivationCode *)

BeginCopy(r, c) ==
  /\ pc[r] = "idle"
  /\ c \in made
  /\ key' = [key EXCEPT ![r] = c]
  /\ Goto(r, "readCode")
  /\ UNCHANGED <<codeVars, deviceVars, lockVars, inst, fresh, scanVars>>

\* Mutant: the code is read without FOR UPDATE.
ReadCodeUnlocked(r) ==
  LET c == key[r]
  IN /\ pc[r] = "readCode"
     /\ \/ c \notin ciphertext \ (Spent \cup expired) /\ Rollback(r)
        \/ /\ c \in ciphertext \ (Spent \cup expired)
           /\ Goto(r, "commitCopy")
           /\ UNCHANGED <<codeVars, deviceVars, lockVars, argVars, scanVars>>

ReadCode(r) ==
  LET c == key[r]
  IN /\ pc[r] = "readCode"
     /\ codeLock[c] = None
     /\ \/ /\ c \notin (expired \cup ciphertext) \ Spent
           /\ Rollback(r)
        \/ /\ c \in expired \ Spent
           /\ EraseCode(r)
        \/ /\ c \in ciphertext \ (Spent \cup expired)
           /\ TakeCode(r, "commitCopy")
           /\ UNCHANGED fresh

\* The commit releases the row: what follows may overtake the answer.
CommitCopy(r) ==
  /\ pc[r] = "commitCopy"
  /\ codeLock' = Release(codeLock, r)
  /\ Goto(r, "reply")
  /\ UNCHANGED <<codeVars, deviceVars, deviceLock, advisory, argVars, scanVars>>

\* The decrypted key is sent; nothing is left for the deferred Rollback.
Reply(r) == pc[r] = "reply" /\ Rollback(r)

CopyStep(r) == ReadCode(r) \/ CommitCopy(r) \/ Reply(r)

-----------------------------------------------------------------------------
\* A request may fail at any statement (its context is cancelled, the
\* connection breaks, the server stops): PostgreSQL rolls it back.
Abort(r) == pc[r] # "idle" /\ Rollback(r)

\* The requests whose locks r is waiting for.
Blockers(r) ==
  LET waitsFor(lock, x) == {lock[x]} \ {None, r}
  IN CASE pc[r] \in {"lockCode", "readCode"} -> waitsFor(codeLock, key[r])
       [] pc[r] = "lockDevice" -> waitsFor(advisory, inst[r])
       [] pc[r] \in {"findActive", "findDeletable"} /\ inst[r] \in Active
            -> waitsFor(deviceLock, inst[r])
       [] pc[r] = "findDevice" /\ inst[r] \in enrolled
            -> waitsFor(deviceLock, inst[r])
       [] pc[r] = "insert" /\ inst[r] \notin enrolled
            -> waitsFor(deviceLock, inst[r])
       [] pc[r] \in {"supersedeRows", "revokeRows"}
            -> UNION {waitsFor(codeLock, c) : c \in todo[r]}
       [] OTHER -> {}

\* PostgreSQL's deadlock detector rolls back a member of a waiting cycle.
BreakDeadlock(r) ==
  /\ \E cycle \in SUBSET Requests :
       /\ r \in cycle
       /\ \A s \in cycle : Blockers(s) \cap cycle # {}
  /\ Rollback(r)

Step(r) == ActivateStep(r) \/ DeleteStep(r) \/ CopyStep(r) \/ BreakDeadlock(r)

Begin(r) ==
  \/ \E c \in Codes, i \in Installs : BeginActivate(r, c, i)
  \/ \E i \in Installs : BeginDelete(r, i)
  \/ \E c \in Codes : BeginCopy(r, c)

Next ==
  \/ \E c \in Codes : CreateCode(c) \/ Expire(c)
  \/ EraseExpired
  \/ \E r \in Requests : Begin(r) \/ Step(r) \/ Abort(r)

Spec == Init /\ [][Next]_vars

\* A served request runs on, and the queues of PostgreSQL's locks are FIFO.
FairSpec == Spec /\ \A r \in Requests : SF_vars(Step(r))

-----------------------------------------------------------------------------
(* Properties *)

\* However the transactions of activateClient and deleteDevice interleave, an
\* active device has exactly one key that is used and neither superseded nor
\* revoked, and it is the one its current token was obtained with; a deleted
\* device, or an installation without a device, has none.
ActiveDeviceHoldsItsOnlyKey ==
  \A i \in Installs : Live(i) = IF i \in Active THEN {token[i]} ELSE {}

\* The key that copyActivationCode has decrypted is spent by no activation or
\* deletion before its transaction commits.  The answer is written after that,
\* and an activation may redeem the key before the answer arrives.
CopiedKeyIsUnspent ==
  \A r \in Requests : pc[r] = "commitCopy" => key[r] \in ciphertext \ Spent

\* A key that has expired while no request was working on it is never redeemed:
\* whatever activates it later sees that, whichever other requests run.
ExpiredKeyIsNeverRedeemed ==
  \A c \in Codes :
    [](c \in expired \ used /\ codeLock[c] = None => [](c \notin used))

\* The keys that an activation may still redeem: those not expired, and those
\* that a running activation has locked before they expired.
Redeemable ==
  {c \in made \ Spent :
     c \in expired => \E r \in Requests : fresh[r] /\ key[r] = c}

\* What all this promises: each key is redeemed at most once, by one
\* installation, and a device has the credentials of the last one redeemed.
OneTime == INSTANCE OneTimeKey
  WITH issued  <- made,
       unspent <- Redeemable,
       holds   <- [i \in Installs |-> IF i \in Active THEN token[i] ELSE None]

ImplementsOneTimeKey == OneTime!Spec

\* activateClient locks code, device, code and deleteDevice device, code: they
\* can wait for each other, and still every request is answered.
EveryRequestEnds ==
  \A r \in Requests : pc[r] # "idle" ~> pc[r] = "idle"

=============================================================================
