------------------------- MODULE ClientRuntimeProofs -------------------------
(* Proofs about ClientRuntime, for any tokens and any number of goroutines. *)
EXTENDS ClientRuntime, FiniteSetTheorems, TLAPS

-----------------------------------------------------------------------------
(* The inductive invariant *)

Busy(w) == pc[w] \notin {"idle", "load", "exit"}

\* Each procedure is at a step of its own, and what it is about to write is a
\* state of an activation.
Roles ==
  /\ \A w \in Workers :
       /\ pc[w] \in {"idle", "load", "service", "persist", "save", "ask", "install",
                     "verify", "clear", "exit"}
       /\ Busy(w) => seen[w] # None
       /\ pc[w] \in {"persist", "save"} =>
            what[w] \in {"preparing", "installing", "failed", "ready"}
  /\ pc["status"] \in {"idle", "persist", "save", "remote", "clear"}
  /\ pc["status"] # "idle" => seen["status"] # None
  /\ pc["status"] \in {"persist", "save"} => what["status"] = "ready"
  /\ pc["activate"] \in {"idle", "store"}
  /\ pc["activate"] = "store" => seen["activate"] # None /\ what["activate"] # None
  /\ pc["start"] \in {"idle", "start"}
  /\ pc["reactivate"] \in {"idle", "uninstall", "clearState", "clearId", "returned"}

\* agentRun is set as long as a worker runs, and there is one.
Alone ==
  /\ \A w \in Workers : pc[w] # "idle" => run
  /\ \A v, w \in Workers : pc[v] # "idle" /\ pc[w] # "idle" => v = w

\* The holder of stateMu is between the two halves of persistAgentSetup; the
\* file is as it was read unless ClearAllData has removed it.
Mutex ==
  /\ \A p \in Procs : pc[p] = "save" <=> mu = p
  /\ mu # None => tok \in {seen[mu], None}

\* Tokens were issued before they were seen; the one that Activate is about to
\* store has been seen by nobody else.
Credentials ==
  /\ tok \in issued \cup {None}
  /\ \A p \in Procs : seen[p] \in issued \cup {None}
  /\ live \cap gone = {}
  /\ pc["activate"] = "store" =>
       /\ seen["activate"] # tok
       /\ \A p \in Procs \ {"activate"} : seen[p] # seen["activate"]
       /\ seen["activate"] \in needs <=> seenReq["activate"]
       /\ what["activate"] = "ready" => ~seenReq["activate"]
  /\ pc["status"] = "clear" => seen["status"] \notin live
  /\ \A w \in Workers :
       pc[w] = "clear" /\ what[w] \notin {"preparing", "installing"} => seen[w] \notin live

\* What is in state.dat, or will be when the holder of stateMu has written it.
Stored == IF mu = None THEN tok ELSE seen[mu]

Readers == Workers \cup {"status"}

\* Of the activations that require a new agent, only the stored one has readers.
Current ==
  Stored # None => \A p \in Readers : seen[p] \in needs => seen[p] = Stored

\* Somebody takes the new agent of t for installed.
Satisfied(t) ==
  \/ tok = t /\ ~required
  \/ pc["status"] \in {"persist", "save"} /\ seen["status"] = t
  \/ \E w \in Workers :
       /\ Busy(w) /\ seen[w] = t
       /\ ~seenReq[w] \/ pc[w] = "verify" \/ (pc[w] \in {"persist", "save"} /\ what[w] = "ready")

\* It is, or was removed since, and no worker is about to replace it; a helper
\* without a client may have done so.
OwnAgent ==
  /\ setup = "ready" => ~required
  /\ \A t \in needs : Satisfied(t) =>
       agent \in {t, None} \cup left /\ \A w \in Workers : Busy(w) => seen[w] = t

Inv == TypeOK /\ Roles /\ Alone /\ Mutex /\ Credentials /\ Current /\ OwnAgent

-----------------------------------------------------------------------------
(* The initial state and the steps *)

LEMMA InitInv == Init => Inv
<1> SUFFICES ASSUME Init
             PROVE  Inv
  OBVIOUS
<1> USE NoneAssumption, WorkersAssumption DEF Init, Procs, Statuses, Labels
<1>1. TypeOK
  BY DEF TypeOK
<1>2. Roles /\ Alone /\ Mutex
  BY DEF Roles, Alone, Mutex, Busy
<1>3. Credentials /\ Current /\ OwnAgent
  BY DEF Credentials, Current, Stored, OwnAgent
<1> QED
  BY <1>1, <1>2, <1>3 DEF Inv

\* What the return of persistAgentSetup leaves of the local variables.
LEMMA ReturnType ==
  ASSUME TypeOK, NEW p \in Procs, NEW saved \in BOOLEAN,
         Return(p, AfterPersist(p, saved))
  PROVE  /\ pc' \in [Procs -> Labels]
         /\ seen' \in [Procs -> Tokens \cup {None}]
         /\ seenReq' \in [Procs -> BOOLEAN]
         /\ what' \in [Procs -> Statuses \cup {None}]
<1> DEFINE label == AfterPersist(p, saved)
<1>1. label \in {"remote", "ask", "install", "load", "clear", "exit"}
  BY DEF AfterPersist
<1>2. label \in Labels
  BY <1>1 DEF Labels
<1> HIDE DEF label
<1>3. Return(p, label)
  BY DEF label
<1> QED
  BY <1>2, <1>3 DEF TypeOK, Return, Leave, Goto

LEMMA StepType == TypeOK /\ Roles /\ [Next]_vars => TypeOK'
<1> SUFFICES ASSUME TypeOK, Roles, [Next]_vars
             PROVE  TypeOK'
  OBVIOUS
<1> USE NoneAssumption, WorkersAssumption
    DEF fileVars, machineVars, serverVars, localVars, Procs, Statuses, Labels, At, Goto,
        LeaveBehind, Elevated, Unlocked, Leave, Load, Write, WriteState, RemoveState, TypeOK
<1>1. ASSUME NEW p \in Procs, PersistLoad(p)
      PROVE  TypeOK'
  <2>1. CASE tok = seen[p]
    BY <1>1, <2>1 DEF PersistLoad
  <2>2. CASE Return(p, AfterPersist(p, FALSE))
    BY <1>1, <2>2, ReturnType, ZenonT(60) DEF PersistLoad
  <2> QED
    BY <1>1, <2>1, <2>2 DEF PersistLoad
<1>2. ASSUME NEW p \in Procs, PersistSave(p)
      PROVE  TypeOK'
  <2>1. seen[p] \in Tokens /\ what[p] \in Statuses
    BY <1>2 DEF PersistSave, Roles, Busy
  <2>2. ASSUME NEW saved \in BOOLEAN, Return(p, AfterPersist(p, saved))
        PROVE  TypeOK'
    BY <1>2, <2>1, <2>2, ReturnType, ZenonT(60) DEF PersistSave
  <2> QED
    BY <1>2, <2>2 DEF PersistSave
<1>3. ASSUME NEW p \in Procs, ClearActivation(p)
      PROVE  TypeOK'
  BY <1>3 DEF ClearActivation
<1>4. ASSUME NEW w \in Workers, Worker(w) \/ Start(w)
      PROVE  TypeOK'
  <2>1. CASE LoadRun(w)
    BY <2>1 DEF LoadRun
  <2>2. CASE CheckService(w)
    BY <2>2 DEF CheckService
  <2>3. CASE AskPrepare(w)
    BY <2>3 DEF AskPrepare, Deleted
  <2>4. CASE InstallAgent(w)
    BY <2>4 DEF InstallAgent
  <2>5. CASE Verify(w)
    BY <2>5 DEF Verify
  <2>6. CASE ExitRun(w)
    BY <2>6 DEF ExitRun
  <2>7. CASE Start(w)
    BY <2>7, ZenonT(60) DEF Start, Go
  <2> QED
    BY <1>4, <2>1, <2>2, <2>3, <2>4, <2>5, <2>6, <2>7 DEF Worker
<1>5. CASE StartCheck
  BY <1>5, ZenonT(60) DEF StartCheck
<1>6. CASE StatusLoad
  BY <1>6 DEF StatusLoad
<1>7. CASE StatusRemote
  <2>1. CASE Goto("status", "clear") /\ UNCHANGED localVars
    BY <1>7, <2>1 DEF StatusRemote
  <2>2. CASE Leave("status", "idle")
    BY <1>7, <2>2 DEF StatusRemote
  <2> QED
    BY <1>7, <2>1, <2>2 DEF StatusRemote
<1>8. CASE ActivateFails
  BY <1>8 DEF ActivateFails
<1>9. CASE ActivateSave
  <2>1. seen["activate"] \in Tokens /\ what["activate"] \in Statuses
    BY <1>9 DEF ActivateSave, Roles
  <2> QED
    BY <1>9, <2>1 DEF ActivateSave
<1>10. ASSUME NEW t \in Tokens, NEW req \in BOOLEAN, ActivateAnswer(t, req)
      PROVE  TypeOK'
  BY <1>10 DEF ActivateAnswer
<1>11. CASE Reactivate \/ Uninstall \/ ClearState \/ ClearId
  <2>1. CASE Reactivate \/ Uninstall
    BY <2>1 DEF Reactivate, Uninstall
  <2>2. CASE ClearState
    <3>1. CASE RemoveState
      BY <2>2, <3>1, ZenonT(60) DEF ClearState
    <3>2. CASE UNCHANGED fileVars
      BY <2>2, <3>2 DEF ClearState
    <3> QED
      BY <2>2, <3>1, <3>2 DEF ClearState
  <2>3. CASE ClearId
    BY <2>3 DEF ClearId
  <2> QED
    BY <1>11, <2>1, <2>2, <2>3
<1>12. ASSUME NEW t \in Tokens, Delete(t)
      PROVE  TypeOK'
  BY <1>12 DEF Delete
<1>13. CASE Restart
  <2>1. {seen[p] : p \in {q \in Procs : Elevated(q)}} \subseteq Tokens \cup {None}
    OBVIOUS
  <2>2. left' \subseteq Tokens \cup {None}
    BY <1>13, <2>1 DEF Restart
  <2>3. /\ pc' \in [Procs -> Labels] /\ seen' \in [Procs -> Tokens \cup {None}]
        /\ seenReq' \in [Procs -> BOOLEAN] /\ what' \in [Procs -> Statuses \cup {None}]
    BY <1>13 DEF Restart
  <2> QED
    BY <1>13, <2>2, <2>3 DEF Restart
<1>14. ASSUME NEW a \in Tokens \cup {None}, LeftHelper(a)
      PROVE  TypeOK'
  BY <1>14 DEF LeftHelper
<1>15. CASE UNCHANGED vars
  BY <1>15 DEF vars
<1> QED
  BY <1>1, <1>2, <1>3, <1>4, <1>5, <1>6, <1>7, <1>8, <1>9, <1>10, <1>11, <1>12, <1>13,
     <1>14, <1>15
  DEF Next

LEMMA StepRoles == TypeOK /\ Roles /\ [Next]_vars => Roles'
<1> SUFFICES ASSUME TypeOK, Roles, [Next]_vars
             PROVE  Roles'
  OBVIOUS
<1> USE NoneAssumption, WorkersAssumption
    DEF fileVars, machineVars, serverVars, localVars, Procs, Statuses, Labels, At, Goto,
        LeaveBehind, Elevated, Unlocked, Leave, Load, Write, WriteState, RemoveState, TypeOK, Roles, Busy
<1>1. ASSUME NEW p \in Procs, PersistLoad(p)
      PROVE  Roles'
  BY <1>1 DEF PersistLoad, Return, AfterPersist
<1>2. ASSUME NEW p \in Procs, PersistSave(p)
      PROVE  Roles'
  BY <1>2 DEF PersistSave, Return, AfterPersist
<1>3. ASSUME NEW p \in Procs, ClearActivation(p)
      PROVE  Roles'
  BY <1>3 DEF ClearActivation
<1>4. ASSUME NEW w \in Workers, Worker(w) \/ Start(w)
      PROVE  Roles'
  <2>1. CASE LoadRun(w)
    BY <2>1 DEF LoadRun
  <2>2. CASE CheckService(w)
    BY <2>2 DEF CheckService
  <2>3. CASE AskPrepare(w)
    BY <2>3 DEF AskPrepare, Deleted
  <2>4. CASE InstallAgent(w)
    BY <2>4 DEF InstallAgent
  <2>5. CASE Verify(w)
    BY <2>5 DEF Verify
  <2>6. CASE ExitRun(w)
    BY <2>6 DEF ExitRun
  <2>7. CASE Start(w)
    BY <2>7 DEF Start, Go
  <2> QED
    BY <1>4, <2>1, <2>2, <2>3, <2>4, <2>5, <2>6, <2>7 DEF Worker
<1>5. CASE StartCheck
  BY <1>5 DEF StartCheck
<1>6. CASE StatusLoad
  BY <1>6 DEF StatusLoad
<1>7. CASE StatusRemote
  BY <1>7 DEF StatusRemote
<1>8. CASE ActivateFails
  BY <1>8 DEF ActivateFails
<1>9. CASE ActivateSave
  BY <1>9 DEF ActivateSave
<1>10. ASSUME NEW t \in Tokens, NEW req \in BOOLEAN, ActivateAnswer(t, req)
      PROVE  Roles'
  BY <1>10 DEF ActivateAnswer
<1>11. CASE Reactivate \/ Uninstall \/ ClearState \/ ClearId
  BY <1>11 DEF Reactivate, Uninstall, ClearState, ClearId
<1>12. ASSUME NEW t \in Tokens, Delete(t)
      PROVE  Roles'
  BY <1>12 DEF Delete
<1>13. CASE Restart
  BY <1>13 DEF Restart
<1>14. ASSUME NEW a \in Tokens \cup {None}, LeftHelper(a)
      PROVE  Roles'
  BY <1>14 DEF LeftHelper
<1>15. CASE UNCHANGED vars
  BY <1>15 DEF vars
<1> QED
  BY <1>1, <1>2, <1>3, <1>4, <1>5, <1>6, <1>7, <1>8, <1>9, <1>10, <1>11, <1>12, <1>13,
     <1>14, <1>15
  DEF Next

LEMMA StepAlone == TypeOK /\ Roles /\ Alone /\ [Next]_vars => Alone'
<1> SUFFICES ASSUME TypeOK, Roles, Alone, [Next]_vars
             PROVE  Alone'
  OBVIOUS
<1> USE NoneAssumption, WorkersAssumption
    DEF fileVars, machineVars, serverVars, localVars, Procs, Statuses, Labels, At, Goto,
        LeaveBehind, Elevated, Unlocked, Leave, Load, Write, WriteState, RemoveState, TypeOK, Roles, Alone
<1>1. ASSUME NEW p \in Procs, PersistLoad(p)
      PROVE  Alone'
  BY <1>1 DEF PersistLoad, Return, AfterPersist
<1>2. ASSUME NEW p \in Procs, PersistSave(p)
      PROVE  Alone'
  BY <1>2 DEF PersistSave, Return, AfterPersist
<1>3. ASSUME NEW p \in Procs, ClearActivation(p)
      PROVE  Alone'
  BY <1>3 DEF ClearActivation
<1>4. ASSUME NEW w \in Workers, Worker(w) \/ Start(w)
      PROVE  Alone'
  <2>1. CASE LoadRun(w)
    BY <2>1 DEF LoadRun
  <2>2. CASE CheckService(w)
    BY <2>2 DEF CheckService
  <2>3. CASE AskPrepare(w)
    BY <2>3 DEF AskPrepare, Deleted
  <2>4. CASE InstallAgent(w)
    BY <2>4 DEF InstallAgent
  <2>5. CASE Verify(w)
    BY <2>5 DEF Verify
  <2>6. CASE ExitRun(w)
    BY <2>6 DEF ExitRun
  <2>7. CASE Start(w)
    BY <2>7 DEF Start, Go
  <2> QED
    BY <1>4, <2>1, <2>2, <2>3, <2>4, <2>5, <2>6, <2>7 DEF Worker
<1>5. CASE StartCheck
  BY <1>5 DEF StartCheck
<1>6. CASE StatusLoad
  BY <1>6 DEF StatusLoad
<1>7. CASE StatusRemote
  BY <1>7 DEF StatusRemote
<1>8. CASE ActivateFails
  BY <1>8 DEF ActivateFails
<1>9. CASE ActivateSave
  BY <1>9 DEF ActivateSave
<1>10. ASSUME NEW t \in Tokens, NEW req \in BOOLEAN, ActivateAnswer(t, req)
      PROVE  Alone'
  BY <1>10 DEF ActivateAnswer
<1>11. CASE Reactivate \/ Uninstall \/ ClearState \/ ClearId
  BY <1>11 DEF Reactivate, Uninstall, ClearState, ClearId
<1>12. ASSUME NEW t \in Tokens, Delete(t)
      PROVE  Alone'
  BY <1>12 DEF Delete
<1>13. CASE Restart
  BY <1>13 DEF Restart
<1>14. ASSUME NEW a \in Tokens \cup {None}, LeftHelper(a)
      PROVE  Alone'
  BY <1>14 DEF LeftHelper
<1>15. CASE UNCHANGED vars
  BY <1>15 DEF vars
<1> QED
  BY <1>1, <1>2, <1>3, <1>4, <1>5, <1>6, <1>7, <1>8, <1>9, <1>10, <1>11, <1>12, <1>13,
     <1>14, <1>15
  DEF Next

LEMMA StepMutex == TypeOK /\ Roles /\ Mutex /\ [Next]_vars => Mutex'
<1> SUFFICES ASSUME TypeOK, Roles, Mutex, [Next]_vars
             PROVE  Mutex'
  OBVIOUS
<1> USE NoneAssumption, WorkersAssumption
    DEF fileVars, machineVars, serverVars, localVars, Procs, Statuses, Labels, At, Goto,
        LeaveBehind, Elevated, Unlocked, Leave, Load, Write, WriteState, RemoveState, TypeOK, Roles, Busy,
        Mutex
<1>1. ASSUME NEW p \in Procs, PersistLoad(p)
      PROVE  Mutex'
  BY <1>1 DEF PersistLoad, Return, AfterPersist
<1>2. ASSUME NEW p \in Procs, PersistSave(p)
      PROVE  Mutex'
  BY <1>2 DEF PersistSave, Return, AfterPersist
<1>3. ASSUME NEW p \in Procs, ClearActivation(p)
      PROVE  Mutex'
  BY <1>3 DEF ClearActivation
<1>4. ASSUME NEW w \in Workers, Worker(w) \/ Start(w)
      PROVE  Mutex'
  <2>1. CASE LoadRun(w)
    BY <2>1 DEF LoadRun
  <2>2. CASE CheckService(w)
    BY <2>2 DEF CheckService
  <2>3. CASE AskPrepare(w)
    BY <2>3 DEF AskPrepare, Deleted
  <2>4. CASE InstallAgent(w)
    BY <2>4 DEF InstallAgent
  <2>5. CASE Verify(w)
    BY <2>5 DEF Verify
  <2>6. CASE ExitRun(w)
    BY <2>6 DEF ExitRun
  <2>7. CASE Start(w)
    BY <2>7 DEF Start, Go
  <2> QED
    BY <1>4, <2>1, <2>2, <2>3, <2>4, <2>5, <2>6, <2>7 DEF Worker
<1>5. CASE StartCheck
  BY <1>5 DEF StartCheck
<1>6. CASE StatusLoad
  BY <1>6 DEF StatusLoad
<1>7. CASE StatusRemote
  BY <1>7 DEF StatusRemote
<1>8. CASE ActivateFails
  BY <1>8 DEF ActivateFails
<1>9. CASE ActivateSave
  BY <1>9 DEF ActivateSave
<1>10. ASSUME NEW t \in Tokens, NEW req \in BOOLEAN, ActivateAnswer(t, req)
      PROVE  Mutex'
  BY <1>10 DEF ActivateAnswer
<1>11. CASE Reactivate \/ Uninstall \/ ClearState \/ ClearId
  BY <1>11 DEF Reactivate, Uninstall, ClearState, ClearId
<1>12. ASSUME NEW t \in Tokens, Delete(t)
      PROVE  Mutex'
  BY <1>12 DEF Delete
<1>13. CASE Restart
  BY <1>13 DEF Restart
<1>14. ASSUME NEW a \in Tokens \cup {None}, LeftHelper(a)
      PROVE  Mutex'
  BY <1>14 DEF LeftHelper
<1>15. CASE UNCHANGED vars
  BY <1>15 DEF vars
<1> QED
  BY <1>1, <1>2, <1>3, <1>4, <1>5, <1>6, <1>7, <1>8, <1>9, <1>10, <1>11, <1>12, <1>13,
     <1>14, <1>15
  DEF Next

LEMMA StepCredentials == TypeOK /\ Roles /\ Mutex /\ Credentials /\ [Next]_vars => Credentials'
<1> SUFFICES ASSUME TypeOK, Roles, Mutex, Credentials, [Next]_vars
             PROVE  Credentials'
  OBVIOUS
<1> USE NoneAssumption, WorkersAssumption
    DEF fileVars, machineVars, serverVars, localVars, Procs, Statuses, Labels, At, Goto,
        LeaveBehind, Elevated, Unlocked, Leave, Load, Write, WriteState, RemoveState, TypeOK, Roles, Busy,
        Mutex, Credentials
<1>1. ASSUME NEW p \in Procs, PersistLoad(p)
      PROVE  Credentials'
  BY <1>1 DEF PersistLoad, Return, AfterPersist
<1>2. ASSUME NEW p \in Procs, PersistSave(p)
      PROVE  Credentials'
  BY <1>2 DEF PersistSave, Return, AfterPersist
<1>3. ASSUME NEW p \in Procs, ClearActivation(p)
      PROVE  Credentials'
  BY <1>3 DEF ClearActivation
<1>4. ASSUME NEW w \in Workers, Worker(w) \/ Start(w)
      PROVE  Credentials'
  <2>1. CASE LoadRun(w)
    BY <2>1 DEF LoadRun
  <2>2. CASE CheckService(w)
    BY <2>2 DEF CheckService
  <2>3. CASE AskPrepare(w)
    BY <2>3 DEF AskPrepare, Deleted
  <2>4. CASE InstallAgent(w)
    BY <2>4 DEF InstallAgent
  <2>5. CASE Verify(w)
    BY <2>5 DEF Verify
  <2>6. CASE ExitRun(w)
    BY <2>6 DEF ExitRun
  <2>7. CASE Start(w)
    BY <2>7 DEF Start, Go
  <2> QED
    BY <1>4, <2>1, <2>2, <2>3, <2>4, <2>5, <2>6, <2>7 DEF Worker
<1>5. CASE StartCheck
  BY <1>5 DEF StartCheck
<1>6. CASE StatusLoad
  BY <1>6 DEF StatusLoad
<1>7. CASE StatusRemote
  BY <1>7 DEF StatusRemote
<1>8. CASE ActivateFails
  BY <1>8 DEF ActivateFails
<1>9. CASE ActivateSave
  BY <1>9 DEF ActivateSave
<1>10. ASSUME NEW t \in Tokens, NEW req \in BOOLEAN, ActivateAnswer(t, req)
      PROVE  Credentials'
  BY <1>10 DEF ActivateAnswer
<1>11. CASE Reactivate \/ Uninstall \/ ClearState \/ ClearId
  BY <1>11 DEF Reactivate, Uninstall, ClearState, ClearId
<1>12. ASSUME NEW t \in Tokens, Delete(t)
      PROVE  Credentials'
  BY <1>12 DEF Delete
<1>13. CASE Restart
  BY <1>13 DEF Restart
<1>14. ASSUME NEW a \in Tokens \cup {None}, LeftHelper(a)
      PROVE  Credentials'
  BY <1>14 DEF LeftHelper
<1>15. CASE UNCHANGED vars
  BY <1>15 DEF vars
<1> QED
  BY <1>1, <1>2, <1>3, <1>4, <1>5, <1>6, <1>7, <1>8, <1>9, <1>10, <1>11, <1>12, <1>13,
     <1>14, <1>15
  DEF Next

LEMMA StepCurrent == TypeOK /\ Roles /\ Mutex /\ Credentials /\ Current /\ [Next]_vars => Current'
<1> SUFFICES ASSUME TypeOK, Roles, Mutex, Credentials, Current, [Next]_vars
             PROVE  Current'
  OBVIOUS
<1> USE NoneAssumption, WorkersAssumption
    DEF fileVars, machineVars, serverVars, localVars, Procs, Statuses, Labels, At, Goto,
        LeaveBehind, Elevated, Unlocked, Leave, Load, Write, WriteState, RemoveState, TypeOK, Roles, Busy,
        Mutex, Credentials, Readers, Stored, Current
<1>1. ASSUME NEW p \in Procs, PersistLoad(p)
      PROVE  Current'
  BY <1>1 DEF PersistLoad, Return, AfterPersist
<1>2. ASSUME NEW p \in Procs, PersistSave(p)
      PROVE  Current'
  BY <1>2 DEF PersistSave, Return, AfterPersist
<1>3. ASSUME NEW p \in Procs, ClearActivation(p)
      PROVE  Current'
  BY <1>3 DEF ClearActivation
<1>4. ASSUME NEW w \in Workers, Worker(w) \/ Start(w)
      PROVE  Current'
  <2>1. CASE LoadRun(w)
    BY <2>1 DEF LoadRun
  <2>2. CASE CheckService(w)
    BY <2>2 DEF CheckService
  <2>3. CASE AskPrepare(w)
    BY <2>3 DEF AskPrepare, Deleted
  <2>4. CASE InstallAgent(w)
    BY <2>4 DEF InstallAgent
  <2>5. CASE Verify(w)
    BY <2>5 DEF Verify
  <2>6. CASE ExitRun(w)
    BY <2>6 DEF ExitRun
  <2>7. CASE Start(w)
    BY <2>7 DEF Start, Go
  <2> QED
    BY <1>4, <2>1, <2>2, <2>3, <2>4, <2>5, <2>6, <2>7 DEF Worker
<1>5. CASE StartCheck
  BY <1>5 DEF StartCheck
<1>6. CASE StatusLoad
  BY <1>6 DEF StatusLoad
<1>7. CASE StatusRemote
  BY <1>7 DEF StatusRemote
<1>8. CASE ActivateFails
  BY <1>8 DEF ActivateFails
<1>9. CASE ActivateSave
  BY <1>9 DEF ActivateSave
<1>10. ASSUME NEW t \in Tokens, NEW req \in BOOLEAN, ActivateAnswer(t, req)
      PROVE  Current'
  BY <1>10 DEF ActivateAnswer
<1>11. CASE Reactivate \/ Uninstall \/ ClearState \/ ClearId
  BY <1>11 DEF Reactivate, Uninstall, ClearState, ClearId
<1>12. ASSUME NEW t \in Tokens, Delete(t)
      PROVE  Current'
  BY <1>12 DEF Delete
<1>13. CASE Restart
  BY <1>13 DEF Restart
<1>14. ASSUME NEW a \in Tokens \cup {None}, LeftHelper(a)
      PROVE  Current'
  BY <1>14 DEF LeftHelper
<1>15. CASE UNCHANGED vars
  BY <1>15 DEF vars
<1> QED
  BY <1>1, <1>2, <1>3, <1>4, <1>5, <1>6, <1>7, <1>8, <1>9, <1>10, <1>11, <1>12, <1>13,
     <1>14, <1>15
  DEF Next

LEMMA StepOwnAgent ==
  TypeOK /\ Roles /\ Alone /\ Mutex /\ Credentials /\ Current /\ OwnAgent /\ [Next]_vars
    => OwnAgent'
<1> SUFFICES ASSUME TypeOK, Roles, Alone, Mutex, Credentials, Current, OwnAgent, [Next]_vars
             PROVE  OwnAgent'
  OBVIOUS
<1> USE NoneAssumption, WorkersAssumption
    DEF fileVars, machineVars, serverVars, localVars, Procs, Statuses, Labels, At, Goto,
        LeaveBehind, Elevated, Unlocked, Leave, Load, Write, WriteState, RemoveState, TypeOK, Roles, Busy,
        Alone, Mutex, Credentials, Readers, Stored, Current, Satisfied, OwnAgent
<1>1. ASSUME NEW p \in Procs, PersistLoad(p)
      PROVE  OwnAgent'
  BY <1>1 DEF PersistLoad, Return, AfterPersist
<1>2. ASSUME NEW p \in Procs, PersistSave(p)
      PROVE  OwnAgent'
  <2>1. CASE p = "status"
    <3>1. what[p] = "ready" /\ seen[p] # None
      BY <1>2, <2>1 DEF PersistSave
    <3>2. pc' = [pc EXCEPT !["status"] = "remote"] /\ UNCHANGED <<seen, seenReq>>
      BY <1>2, <2>1 DEF PersistSave, Return, AfterPersist
    <3>3. \/ tok' = tok /\ required' = required /\ setup' = setup
          \/ tok' = seen["status"] /\ ~required'
      BY <1>2, <2>1, <3>1 DEF PersistSave
    <3>4. \A t \in needs : Satisfied(t)' => Satisfied(t)
      <4>1. pc' = [pc EXCEPT !["status"] = "remote"]
            /\ UNCHANGED seen /\ UNCHANGED seenReq /\ pc["status"] = "save"
        BY <1>2, <2>1, <3>2 DEF PersistSave
      <4>2. \A w \in Workers : UNCHANGED <<pc[w], what[w]>>
        BY <1>2, <2>1 DEF PersistSave, Return, AfterPersist
      <4> QED
        BY <3>3, <4>1, <4>2 DEF Satisfied
    <3>5. \A w \in Workers : Busy(w)' = Busy(w) /\ seen'[w] = seen[w]
      BY <2>1, <3>2
    <3>6. (setup' = "ready" => ~required') /\ UNCHANGED agent /\ UNCHANGED left /\ UNCHANGED needs
      BY <1>2, <3>3 DEF PersistSave
    <3> HIDE DEF Satisfied, Busy
    <3> QED
      BY <3>4, <3>5, <3>6
  <2>2. CASE p \in Workers
    <3>1. CASE Return(p, AfterPersist(p, FALSE)) /\ UNCHANGED fileVars
      BY <1>2, <2>2, <3>1 DEF PersistSave, Return, AfterPersist
    <3>2. CASE /\ Return(p, AfterPersist(p, TRUE))
               /\ WriteState(seen[p], what[p] # "ready" /\ seenReq[p], what[p])
      <4>1. seen[p] # None /\ Busy(p)
        BY <1>2, <2>2 DEF PersistSave
      <4>2. \A t \in needs : Satisfied(t)' => Satisfied(t)
        BY <1>2, <2>2, <3>2, <4>1 DEF PersistSave, Return, AfterPersist
      <4>3. \A w \in Workers : Busy(w)' => Busy(w) /\ seen'[w] = seen[w]
        BY <1>2, <2>2, <3>2 DEF PersistSave, Return, AfterPersist
      <4>4. setup' = "ready" => ~required'
        BY <3>2
      <4>5. UNCHANGED <<agent, left, needs>>
        BY <1>2 DEF PersistSave
      <4> HIDE DEF Satisfied, Busy
      <4> QED
        BY <4>2, <4>3, <4>4, <4>5
    <3> QED
      BY <1>2, <3>1, <3>2 DEF PersistSave
  <2> QED
    BY <1>2, <2>1, <2>2 DEF PersistSave
<1>3. ASSUME NEW p \in Procs, ClearActivation(p)
      PROVE  OwnAgent'
  BY <1>3 DEF ClearActivation
<1>4. ASSUME NEW w \in Workers, Worker(w) \/ Start(w)
      PROVE  OwnAgent'
  <2>1. CASE LoadRun(w)
    BY <2>1 DEF LoadRun
  <2>2. CASE CheckService(w)
    BY <2>2 DEF CheckService
  <2>3. CASE AskPrepare(w)
    BY <2>3 DEF AskPrepare, Deleted
  <2>4. CASE InstallAgent(w)
    BY <2>4 DEF InstallAgent
  <2>5. CASE Verify(w)
    BY <2>5 DEF Verify
  <2>6. CASE ExitRun(w)
    BY <2>6 DEF ExitRun
  <2>7. CASE Start(w)
    BY <2>7 DEF Start, Go
  <2> QED
    BY <1>4, <2>1, <2>2, <2>3, <2>4, <2>5, <2>6, <2>7 DEF Worker
<1>5. CASE StartCheck
  BY <1>5 DEF StartCheck
<1>6. CASE StatusLoad
  BY <1>6 DEF StatusLoad
<1>7. CASE StatusRemote
  BY <1>7 DEF StatusRemote
<1>8. CASE ActivateFails
  BY <1>8 DEF ActivateFails
<1>9. CASE ActivateSave
  BY <1>9 DEF ActivateSave
<1>10. ASSUME NEW t \in Tokens, NEW req \in BOOLEAN, ActivateAnswer(t, req)
      PROVE  OwnAgent'
  BY <1>10 DEF ActivateAnswer
<1>11. CASE Reactivate \/ Uninstall \/ ClearState \/ ClearId
  BY <1>11 DEF Reactivate, Uninstall, ClearState, ClearId
<1>12. ASSUME NEW t \in Tokens, Delete(t)
      PROVE  OwnAgent'
  BY <1>12 DEF Delete
<1>13. CASE Restart
  BY <1>13 DEF Restart
<1>14. ASSUME NEW a \in Tokens \cup {None}, LeftHelper(a)
      PROVE  OwnAgent'
  BY <1>14 DEF LeftHelper
<1>15. CASE UNCHANGED vars
  BY <1>15 DEF vars
<1> QED
  BY <1>1, <1>2, <1>3, <1>4, <1>5, <1>6, <1>7, <1>8, <1>9, <1>10, <1>11, <1>12, <1>13,
     <1>14, <1>15
  DEF Next

LEMMA StepKeepsInv == Inv /\ [Next]_vars => Inv'
  BY StepType, StepRoles, StepAlone, StepMutex, StepCredentials, StepCurrent, StepOwnAgent
  DEF Inv

\* The invariant holds in every reachable state.
THEOREM Invariance == Spec => []Inv
  BY InitInv, StepKeepsInv, PTL DEF Spec

-----------------------------------------------------------------------------
(* The properties *)

\* Every variable stays within its type.
THEOREM TypeCorrect == Spec => []TypeOK
<1>1. Inv => TypeOK
  BY DEF Inv
<1> QED
  BY <1>1, Invariance, PTL

\* However the timer, the retries and the restarts of the client interleave,
\* at most one goroutine of runAgentSetup installs the agent.
THEOREM OneWorkerRuns == Spec => []OneWorker
<1>1. ASSUME Alone
      PROVE  OneWorker
  <2> DEFINE S == {w \in Workers : ~At(w, "idle")}
  <2>1. CASE S = {}
    BY <2>1, FS_EmptySet DEF OneWorker
  <2>2. CASE S # {}
    <3>1. PICK w \in S : S = {w}
      BY <1>1, <2>2 DEF Alone, At
    <3>2. Cardinality(S) = 1
      BY <3>1, FS_Singleton
    <3> QED
      BY <3>2 DEF OneWorker
  <2> QED
    BY <2>1, <2>2
<1>2. Inv => OneWorker
  BY <1>1 DEF Inv
<1> QED
  BY <1>2, Invariance, PTL

\* "ready" in state.dat is never on the strength of the agent of an earlier
\* activation when the stored one requires an agent of its own, unless a helper
\* that nobody waits for has put that agent there.
THEOREM ReadyIsOwn == Spec => []ReadyAgentIsOwn
<1>1. ASSUME Inv, setup = "ready", tok \in needs
      PROVE  agent \in {tok, None} \cup left
  <2>1. ~required
    BY <1>1 DEF Inv, OwnAgent
  <2> QED
    BY <1>1, <2>1 DEF Inv, OwnAgent, Satisfied
<1>2. Inv => ReadyAgentIsOwn
  BY <1>1 DEF ReadyAgentIsOwn
<1> QED
  BY <1>2, Invariance, PTL

\* A stored activation is replaced only by the one just received, and given up
\* only by Reactivate, for a deleted device or when the file cannot be written.
THEOREM ActivationsAreKept == Spec => ActivationIsKept
<1> DEFINE Kept == tok # None => OldTaskKeepsNewToken /\ ActivationIsGivenUp
<1>1. ASSUME Inv, Next, tok # None, tok' # tok
      PROVE  OldTaskKeepsNewToken /\ ActivationIsGivenUp
  <2> USE <1>1, NoneAssumption
      DEF Inv, At, OldTaskKeepsNewToken, ActivationIsGivenUp,
          fileVars, WriteState, RemoveState
  <2>1. ASSUME NEW p \in Procs, PersistSave(p)
        PROVE  FALSE
    BY <2>1 DEF PersistSave, Mutex
  <2>2. ASSUME NEW p \in Procs, ClearActivation(p)
        PROVE  tok' = None /\ ActivationIsGivenUp
    BY <2>2 DEF ClearActivation, Credentials, Roles, Procs
  <2>3. CASE ActivateSave
    <3>1. tok' = seen["activate"] /\ tok' # None
      BY <2>3 DEF ActivateSave, Roles
    <3> QED
      BY <3>1
  <2>4. CASE ClearState
    BY <2>4 DEF ClearState
  <2>5. CASE \E w \in Workers : Worker(w) \/ Start(w)
    BY <2>5 DEF Worker, LoadRun, CheckService, AskPrepare, InstallAgent, Verify,
                ExitRun, Start
  <2>6. CASE StartCheck \/ StatusLoad \/ StatusRemote
    BY <2>6 DEF StartCheck, StatusLoad, StatusRemote
  <2>7. CASE ActivateFails \/ \E t \in Tokens, req \in BOOLEAN : ActivateAnswer(t, req)
    BY <2>7 DEF ActivateFails, ActivateAnswer
  <2>8. CASE Reactivate \/ Uninstall \/ ClearId \/ (\E t \in Tokens : Delete(t)) \/ Restart
          \/ \E a \in Tokens \cup {None} : LeftHelper(a)
    BY <2>8 DEF Reactivate, Uninstall, ClearId, Delete, Restart, LeftHelper
  <2>9. ASSUME NEW p \in Procs, PersistLoad(p)
        PROVE  FALSE
    BY <2>9 DEF PersistLoad
  <2> QED
    BY <2>1, <2>2, <2>3, <2>4, <2>5, <2>6, <2>7, <2>8, <2>9 DEF Next
<1>2. Inv /\ [Next]_vars => [Kept]_tok
  BY <1>1 DEF vars, fileVars
<1> QED
  BY <1>2, Invariance, PTL DEF Spec, ActivationIsKept

=============================================================================
