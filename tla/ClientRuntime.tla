---------------------------- MODULE ClientRuntime ----------------------------
(***************************************************************************)
(* The Windows client: cmd/client/runtime_app.go and cmd/client/store.go.  *)
(*                                                                         *)
(* The interface calls Status, Activate, RetryAgentSetup and Reactivate,   *)
(* each on a goroutine of its own; a timer or a retry starts the goroutine *)
(* that installs the MeshAgent (runAgentSetup, a worker here).  They share *)
(* the file state.dat, which stateMu protects except from ClearAllData,    *)
(* the flag agentRun and the channel agentWake.  Timers, and the wait       *)
(* before a retry, which a signal in agentWake ends early, take any time:  *)
(* a timer may fire whenever it has no other effect than startAgentSetup.  *)
(*                                                                         *)
(* The server is what the client learns of it: an activation gives a new   *)
(* token, which replaces those of the same installation, and a token whose *)
(* device was deleted is answered with 410 Gone.                           *)
(***************************************************************************)
EXTENDS Naturals, FiniteSets

CONSTANTS
  Tokens,   \* device tokens the server may issue
  Workers,  \* goroutines of runAgentSetup
  MaxLeft,  \* bound of what goes on elevated without the client
  None

VARIABLES
  tok, required, setup,  \* state.dat: DeviceToken, or None without the file,
                         \* AgentSetupRequired and AgentSetupStatus
  mu,                    \* the procedure that holds stateMu between steps
  run,                   \* agentRun
  agent,                 \* token whose ticket installed the MeshAgent, or None
  left,                  \* tokens whose installation may go on without the
                         \* client, None for a removal that may
  mine,                  \* tokens issued to the identity in installation-id.dat
  live, gone,            \* server: tokens accepted, tokens of deleted devices
  issued, needs,         \* tokens issued so far; of the one stored and the one
                         \* just received, those that require a new agent
  pc, seen, seenReq, what
    \* procedures: next step, the token and AgentSetupRequired of the state
    \* they have loaded, and the status they are about to write

fileVars   == <<tok, required, setup>>
serverVars == <<live, gone, issued, needs>>
localVars  == <<seen, seenReq, what>>
machineVars == <<agent, left>>
vars == <<fileVars, mu, run, machineVars, mine, serverVars, pc, localVars>>

Procs == Workers \cup {"status", "activate", "start", "reactivate"}
Statuses == {"pending", "preparing", "installing", "failed", "ready"}
Labels == {"idle", "load", "service", "persist", "save", "ask", "install",
           "verify", "clear", "exit", "remote", "store", "start",
           "uninstall", "clearState", "clearId", "returned"}

ASSUME NoneAssumption == None \notin Tokens \cup Procs \cup Statuses
ASSUME WorkersAssumption ==
  Workers \cap {"status", "activate", "start", "reactivate"} = {}
ASSUME MaxLeftAssumption == MaxLeft \in Nat

TypeOK ==
  /\ tok \in Tokens \cup {None} /\ required \in BOOLEAN
  /\ setup \in Statuses \cup {None} /\ (setup = None <=> tok = None)
  /\ mu \in Procs \cup {None}
  /\ run \in BOOLEAN
  /\ agent \in Tokens \cup {None} /\ left \subseteq Tokens \cup {None}
  /\ issued \subseteq Tokens /\ mine \subseteq issued /\ needs \subseteq issued
  /\ live \subseteq issued /\ gone \subseteq issued
  /\ pc \in [Procs -> Labels]
  /\ seen \in [Procs -> Tokens \cup {None}]
  /\ seenReq \in [Procs -> BOOLEAN]
  /\ what \in [Procs -> Statuses \cup {None}]

Init ==
  /\ tok = None /\ required = FALSE /\ setup = None
  /\ mu = None
  /\ run = FALSE
  /\ agent = None /\ left = {}
  /\ issued = {} /\ mine = {} /\ needs = {} /\ live = {} /\ gone = {}
  /\ pc = [p \in Procs |-> "idle"]
  /\ seen = [p \in Procs |-> None]
  /\ seenReq = [p \in Procs |-> FALSE]
  /\ what = [p \in Procs |-> None]

-----------------------------------------------------------------------------
At(p, label) == pc[p] = label
Goto(p, label) == pc' = [pc EXCEPT ![p] = label]
Unlocked == mu = None

\* The procedure returns.
Leave(p, label) ==
  /\ Goto(p, label)
  /\ seen' = [seen EXCEPT ![p] = None]
  /\ seenReq' = [seenReq EXCEPT ![p] = FALSE]
  /\ what' = [what EXCEPT ![p] = None]

\* loadState.
Load(p) ==
  /\ Unlocked
  /\ seen' = [seen EXCEPT ![p] = tok]

\* The next step is persistAgentSetup(state, status, ...).
Write(p, status) ==
  /\ what' = [what EXCEPT ![p] = status]
  /\ Goto(p, "persist")

WriteState(t, req, status) == tok' = t /\ required' = req /\ setup' = status

\* Mutant of RemoveState: only the token is emptied.
RemoveToken == tok' = None /\ UNCHANGED <<required, setup>>

RemoveState == WriteState(None, FALSE, None)

\* persistAgentSetup returns to the step `label`, which loads (after the wait
\* before a retry) or exits, or goes on with the state loaded before.
Return(p, label) ==
  IF label \in {"exit", "load"} THEN Leave(p, label)
  ELSE /\ Goto(p, label)
       /\ what' = [what EXCEPT ![p] = IF label = "clear" THEN @ ELSE None]
       /\ UNCHANGED <<seen, seenReq>>

\* Where persistAgentSetup returns to, after TRUE and after FALSE.  For
\* prepareAndInstallAgent FALSE means that the device was deleted.
AfterPersist(p, saved) ==
  CASE p = "status" -> "remote"
    [] p # "status" /\ what[p] = "preparing" -> IF saved THEN "ask" ELSE "clear"
    [] p # "status" /\ what[p] = "installing" -> IF saved THEN "install" ELSE "clear"
    [] p # "status" /\ what[p] = "failed" -> IF saved THEN "load" ELSE "exit"
    [] OTHER -> "exit"

\* Mutant of PersistLoad: the state expected is saved without a look at the file.
PersistAny(p) ==
  /\ At(p, "persist") /\ Unlocked
  /\ mu' = p /\ Goto(p, "save")
  /\ UNCHANGED <<fileVars, run, machineVars, mine, serverVars, localVars>>

\* persistAgentSetup takes stateMu and loads the state; the token must still
\* be the one expected.
PersistLoad(p) ==
  /\ At(p, "persist") /\ Unlocked
  /\ \/ tok = seen[p] /\ mu' = p /\ Goto(p, "save") /\ UNCHANGED localVars
     \/ tok # seen[p] /\ Return(p, AfterPersist(p, FALSE)) /\ UNCHANGED mu
  /\ UNCHANGED <<fileVars, run, machineVars, mine, serverVars>>

\* It saves the state it has loaded; the write may fail.
PersistSave(p) ==
  /\ At(p, "save")
  /\ mu' = None
  /\ \/ /\ WriteState(seen[p], what[p] # "ready" /\ seenReq[p], what[p])
        /\ Return(p, AfterPersist(p, TRUE))
     \/ /\ Return(p, AfterPersist(p, FALSE))
        /\ UNCHANGED fileVars
  /\ UNCHANGED <<run, machineVars, mine, serverVars>>

\* clearActivation: the state goes if it is still the one expected.
ClearActivation(p) ==
  /\ At(p, "clear") /\ Unlocked
  /\ IF tok = seen[p] THEN RemoveState ELSE UNCHANGED fileVars
  /\ Leave(p, IF p = "status" THEN "idle" ELSE "exit")
  /\ UNCHANGED <<mu, run, machineVars, mine, serverVars>>

-----------------------------------------------------------------------------
(* runAgentSetup, on worker w. *)

LoadRun(w) ==
  /\ At(w, "load") /\ Load(w)
  /\ seenReq' = [seenReq EXCEPT ![w] = required]
  /\ Goto(w, IF tok = None THEN "exit" ELSE "service")
  /\ UNCHANGED <<fileVars, mu, run, machineVars, mine, serverVars, what>>

CheckService(w) ==
  /\ At(w, "service")
  /\ Write(w, IF agent # None /\ ~seenReq[w] THEN "ready" ELSE "preparing")
  /\ UNCHANGED <<fileVars, mu, run, machineVars, mine, serverVars,
                 seen, seenReq>>

\* 410 Gone: clearActivation comes next.
Deleted(w) ==
  /\ what' = [what EXCEPT ![w] = None]
  /\ Goto(w, "clear")

\* The server prepares the agent, refuses, or cannot be reached.
AskPrepare(w) ==
  /\ At(w, "ask")
  /\ \/ seen[w] \in live /\ Write(w, "installing")
     \/ seen[w] \in gone /\ Deleted(w)
     \/ Write(w, "failed")
  /\ UNCHANGED <<fileVars, mu, run, machineVars, mine, serverVars,
                 seen, seenReq>>

\* runHelperElevated starts a process that does not end with its caller.
LeaveBehind(ts) ==
  /\ left' = left \cup ts
  /\ Cardinality(left') <= MaxLeft

\* installMeshAgentElevated; it fails when the ticket or the user refuses, or
\* half-way.  The program of the agent may outlive the helper that ran it.
InstallAgent(w) ==
  /\ At(w, "install")
  /\ \/ agent' = seen[w] /\ Goto(w, "verify") /\ UNCHANGED <<what, left>>
     \/ /\ Write(w, "failed")
        /\ agent' \in {agent, seen[w], None}
        /\ UNCHANGED left \/ LeaveBehind({seen[w]})
  /\ UNCHANGED <<fileVars, mu, run, mine, serverVars, seen, seenReq>>

\* An elevated helper of an earlier run of the client, or the program that a
\* helper ran, goes on.  It may be one of many, so it stays in left.
LeftHelper(a) ==
  /\ a \in left
  /\ agent' \in {a, None}
  /\ UNCHANGED <<fileVars, mu, run, left, mine, serverVars, pc, localVars>>

Verify(w) ==
  /\ At(w, "verify")
  /\ Write(w, IF agent # None THEN "ready" ELSE "failed")
  /\ UNCHANGED <<fileVars, mu, run, machineVars, mine, serverVars,
                 seen, seenReq>>

ExitRun(w) ==
  /\ At(w, "exit")
  /\ run' = FALSE
  /\ Leave(w, "idle")
  /\ UNCHANGED <<fileVars, mu, machineVars, mine, serverVars>>

Worker(w) ==
  \/ LoadRun(w) \/ CheckService(w) \/ AskPrepare(w) \/ InstallAgent(w)
  \/ Verify(w) \/ ExitRun(w)

-----------------------------------------------------------------------------
(* startAgentSetup.  As its second half holds agentMu, one such call at a    *)
(* time is enough.                                                           *)

\* The timer of Activate or of NewRuntimeApp fires, or RetryAgentSetup has
\* found no worker.  Whichever calls it, it loads the state, and it may do so
\* at any time; agentRun is looked at after that, again.
StartCheck ==
  /\ At("start", "idle") /\ Unlocked /\ tok # None
  /\ Goto("start", "start")
  /\ UNCHANGED <<fileVars, mu, run, machineVars, mine, serverVars, localVars>>

Go(w) == pc' = [pc EXCEPT !["start"] = "idle", ![w] = "load"]

\* Mutant of Start: agentRun has been looked at before.
StartAlways(w) ==
  /\ At("start", "start") /\ At(w, "idle")
  /\ run' = TRUE /\ Go(w)
  /\ UNCHANGED <<fileVars, mu, machineVars, mine, serverVars, localVars>>

\* Under agentMu: a worker runs already, or a new one starts.
Start(w) ==
  /\ At("start", "start") /\ At(w, "idle")
  /\ \/ run /\ Goto("start", "idle") /\ UNCHANGED run
     \/ ~run /\ run' = TRUE /\ Go(w)
  /\ UNCHANGED <<fileVars, mu, machineVars, mine, serverVars, localVars>>

-----------------------------------------------------------------------------
(* Status. *)

\* Mutant of StatusLoad: AgentSetupRequired is not looked at.
StatusLoadAny ==
  /\ At("status", "idle") /\ tok # None
  /\ Load("status")
  /\ IF agent # None /\ setup # "ready"
       THEN Write("status", "ready")
       ELSE Goto("status", "remote") /\ UNCHANGED what
  /\ UNCHANGED <<fileVars, mu, run, machineVars, mine, serverVars, seenReq>>

\* The agent's service runs and nothing requires a new one: it is ready.
StatusLoad ==
  /\ At("status", "idle") /\ tok # None
  /\ Load("status")
  /\ IF agent # None /\ ~required /\ setup # "ready"
       THEN Write("status", "ready")
       ELSE Goto("status", "remote") /\ UNCHANGED what
  /\ UNCHANGED <<fileVars, mu, run, machineVars, mine, serverVars, seenReq>>

StatusRemote ==
  /\ At("status", "remote")
  /\ \/ seen["status"] \in gone /\ Goto("status", "clear") /\ UNCHANGED localVars
     \/ Leave("status", "idle")
  /\ UNCHANGED <<fileVars, mu, run, machineVars, mine, serverVars>>

-----------------------------------------------------------------------------
(* Activate. *)

\* InstallationID reads the identity, or makes one, and activateClient gives a
\* new token in place of those of this installation: one step, since nothing
\* else reads or writes the identity meanwhile.  The interface shows one dialog
\* at a time: no Activate during Reactivate.
ActivateAnswer(t, req) ==
  /\ At("activate", "idle") /\ pc["reactivate"] \in {"idle", "returned"}
  /\ t \notin issued
  /\ issued' = issued \cup {t}
  /\ mine' = mine \cup {t}
  /\ live' = (live \ mine) \cup {t}
  /\ gone' = gone \ mine
  /\ needs' = IF req THEN needs \cup {t} ELSE needs
  /\ seen' = [seen EXCEPT !["activate"] = t]
  /\ seenReq' = [seenReq EXCEPT !["activate"] = req]
  /\ what' = [what EXCEPT !["activate"] =
                IF ~req /\ agent # None THEN "ready" ELSE "pending"]
  /\ pc' = [pc EXCEPT !["activate"] = "store", !["reactivate"] = "idle"]
  /\ UNCHANGED <<fileVars, mu, run, machineVars>>

\* The answer is lost, or state.dat cannot be written.
ActivateFails ==
  /\ At("activate", "store")
  /\ Leave("activate", "idle")
  /\ UNCHANGED <<fileVars, mu, run, machineVars, mine, serverVars>>

ActivateSave ==
  /\ At("activate", "store") /\ Unlocked
  /\ WriteState(seen["activate"], seenReq["activate"], what["activate"])
  /\ Leave("activate", "idle")
  /\ needs' = needs \cap {seen["activate"]}
  /\ UNCHANGED <<mu, run, machineVars, mine, live, gone, issued>>

-----------------------------------------------------------------------------
(* Reactivate: wake the worker, uninstall the agent, ClearAllData.           *)

Reactivate ==
  /\ pc["reactivate"] \in {"idle", "returned"} /\ tok # None
  /\ At("activate", "idle")
  /\ Goto("reactivate", "uninstall")
  /\ UNCHANGED <<fileVars, mu, run, machineVars, mine, serverVars, localVars>>

Uninstall ==
  /\ At("reactivate", "uninstall")
  /\ \/ agent' = None /\ Goto("reactivate", "clearState") /\ UNCHANGED left
     \/ /\ agent' \in {agent, None} /\ Goto("reactivate", "idle")
        /\ UNCHANGED left \/ LeaveBehind({None})
  /\ UNCHANGED <<fileVars, mu, run, mine, serverVars, localVars>>

\* ClearAllData takes no lock; it ends at the first file it cannot remove.
ClearState ==
  /\ At("reactivate", "clearState")
  /\ \/ RemoveState /\ Goto("reactivate", "clearId")
     \/ Goto("reactivate", "idle") /\ UNCHANGED fileVars
  /\ UNCHANGED <<mu, run, machineVars, mine, serverVars, localVars>>

ClearId ==
  /\ At("reactivate", "clearId")
  /\ \/ mine' = {} /\ Goto("reactivate", "returned")
     \/ Goto("reactivate", "idle") /\ UNCHANGED mine
  /\ UNCHANGED <<fileVars, mu, run, machineVars, serverVars, localVars>>

-----------------------------------------------------------------------------
\* The administrator deletes the device.
Delete(t) ==
  /\ t \in live
  /\ live' = live \ {t} /\ gone' = gone \cup {t}
  /\ UNCHANGED <<fileVars, mu, run, machineVars, mine, issued, needs, pc, localVars>>

\* p waits for an elevated helper, which installs for seen[p] or, for
\* Reactivate, removes the agent (None).
Elevated(p) == At(p, "install") \/ At(p, "uninstall")

\* The program ends and is started again: NewRuntimeApp.  The elevated helpers
\* that it waited for go on.
Restart ==
  /\ mu' = None
  /\ run' = FALSE
  /\ pc' = [p \in Procs |-> "idle"]
  /\ seen' = [p \in Procs |-> None]
  /\ seenReq' = [p \in Procs |-> FALSE]
  /\ what' = [p \in Procs |-> None]
  /\ LeaveBehind({seen[p] : p \in {q \in Procs : Elevated(q)}})
  /\ UNCHANGED <<fileVars, agent, mine, serverVars>>

Next ==
  \/ \E p \in Procs : PersistLoad(p) \/ PersistSave(p) \/ ClearActivation(p)
  \/ \E w \in Workers : Worker(w) \/ Start(w)
  \/ StartCheck
  \/ StatusLoad \/ StatusRemote
  \/ ActivateFails \/ ActivateSave
  \/ \E t \in Tokens, req \in BOOLEAN : ActivateAnswer(t, req)
  \/ Reactivate \/ Uninstall \/ ClearState \/ ClearId
  \/ \E t \in Tokens : Delete(t)
  \/ \E a \in Tokens \cup {None} : LeftHelper(a)
  \/ Restart

Spec == Init /\ [][Next]_vars

-----------------------------------------------------------------------------
\* Invariant: one goroutine installs the agent at a time, whoever starts it.
OneWorker == Cardinality({w \in Workers : ~At(w, "idle")}) <= 1

\* Invariant: after an activation that requires a new agent, "ready" is never
\* stored on the strength of the agent of an earlier activation.  Only a helper
\* that outlived the client, or a program that outlived its helper, can put
\* such an agent there, before "ready" is stored or after: nothing waits for it.
ReadyAgentIsOwn ==
  setup = "ready" /\ tok \in needs => agent \in {tok, None} \cup left

\* A token that is stored gives way only to the one that Activate has just
\* received; an old task never brings back replaced credentials.
OldTaskKeepsNewToken == tok' \notin {None, tok} => tok' = seen["activate"]

\* An activation is given up only by Reactivate, because the server has
\* deleted the device of this very token, or because the worker could not
\* write state.dat.
ActivationIsGivenUp ==
  tok' = None =>
    \/ At("reactivate", "clearState")
    \/ tok \notin live
    \/ \E w \in Workers : At(w, "clear") /\ what[w] \in {"preparing", "installing"}

\* Action property: what becomes of a stored activation, whichever tasks of
\* earlier activations are still on their way to the state file
\* (persistAgentSetup, clearActivationIfToken).
ActivationIsKept == [][tok # None => OldTaskKeepsNewToken /\ ActivationIsGivenUp]_tok

\* README: Reactivate removes the binding of the device, the agent and the
\* data of the client.
ReactivationRemovesBinding ==
  At("reactivate", "returned") => tok = None /\ agent = None

=============================================================================
