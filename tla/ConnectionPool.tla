--------------------------- MODULE ConnectionPool ---------------------------
(***************************************************************************)
(* The pool of connections to PostgreSQL (internal/database, Open) and the *)
(* handlers of internal/server/app.go that use it, by what they hold while *)
(* they wait.  Most handlers hold one connection at a time ("query").      *)
(* meshCentralEvent asks for a second one in a transaction ("event"),      *)
(* prepareEnrollmentAgent keeps one with the device's advisory lock for as *)
(* long as MeshCentral takes ("prepare"), and deleteDevice waits for that  *)
(* lock with one ("delete").  One device.                                  *)
(***************************************************************************)
EXTENDS Naturals, Sequences, FiniteSets, SequencesExt

CONSTANTS
  Users,     \* HTTP requests that may be served at one time
  MaxConns   \* of the pool; eight in the code

ASSUME MaxConnsAssumption == MaxConns \in Nat \ {0}

VARIABLES
  acquiring,  \* requests in pool.Acquire, the first come first
  handler,    \* what serves each request, or "none"
  stage,      \* what the request does with the connection it has or awaits
  held,       \* connections of each request
  locker      \* request that holds the advisory lock: one or none

poolVars == <<acquiring, handler, stage, held, locker>>

Handlers == {"query", "event", "prepare", "delete"}

PoolTypeOK ==
  /\ acquiring \in Seq(Users)
  /\ IsInjective(acquiring)
  /\ handler \in [Users -> Handlers \cup {"none"}]
  /\ stage \in [Users -> {"authenticate", "work", "locked", "lookup"}]
  /\ held \in [Users -> 0..2]
  /\ \A u, v \in locker : u = v
  /\ locker \subseteq {u \in Users : stage[u] = "locked" /\ held[u] = 1}

PoolInit ==
  /\ acquiring = <<>> /\ locker = {}
  /\ handler = [u \in Users |-> "none"]
  /\ stage = [u \in Users |-> "work"]
  /\ held = [u \in Users |-> 0]

InUse == FoldFunction(+, 0, held)

Acquiring(u) == u \in ToSet(acquiring)
Place(u) == CHOOSE i \in DOMAIN acquiring : acquiring[i] = u

\* The request is served and waits for no connection.
Runs(u, h, s) == handler[u] = h /\ stage[u] = s /\ ~Acquiring(u)

\* The request keeps n connections and asks for another one.
Ask(u, s, n) ==
  /\ acquiring' = Append(acquiring, u)
  /\ stage' = [stage EXCEPT ![u] = s]
  /\ held' = [held EXCEPT ![u] = n]

\* The handler returns: what it deferred gives back all it has, though its
\* context may have ended (Rollback, Release, pg_advisory_unlock).
Return(u) ==
  /\ acquiring' = IF Acquiring(u) THEN RemoveAt(acquiring, Place(u)) ELSE acquiring
  /\ handler' = [handler EXCEPT ![u] = "none"]
  /\ stage' = [stage EXCEPT ![u] = "work"]
  /\ held' = [held EXCEPT ![u] = 0]
  /\ locker' = locker \ {u}

-----------------------------------------------------------------------------
Arrive(u, h) ==
  /\ handler[u] = "none"
  /\ handler' = [handler EXCEPT ![u] = h]
  /\ Ask(u, IF h = "prepare" THEN "authenticate" ELSE "work", 0)
  /\ UNCHANGED locker

Grant ==
  /\ acquiring # <<>> /\ InUse < MaxConns
  /\ held' = [held EXCEPT ![Head(acquiring)] = @ + 1]
  /\ acquiring' = Tail(acquiring)
  /\ UNCHANGED <<handler, stage, locker>>

\* Mutant of Authenticate: the connection of authenticateDevice is kept.
KeepAuthenticated(u) ==
  /\ Runs(u, "prepare", "authenticate")
  /\ Ask(u, "work", held[u])
  /\ UNCHANGED <<handler, locker>>

\* authenticateDevice gives its connection back before Acquire.
Authenticate(u) ==
  /\ Runs(u, "prepare", "authenticate")
  /\ Ask(u, "work", 0)
  /\ UNCHANGED <<handler, locker>>

\* No row: meshEventMatchesDeletedDevice takes the pool, not the transaction.
LookUp(u) ==
  /\ Runs(u, "event", "work")
  /\ Ask(u, "lookup", held[u])
  /\ UNCHANGED <<handler, locker>>

\* The binding is committed; the queries that follow take one connection each.
CommitBinding(u) ==
  /\ Runs(u, "event", "work")
  /\ handler' = [handler EXCEPT ![u] = "query"]
  /\ Ask(u, "work", 0)
  /\ UNCHANGED locker

\* pg_try_advisory_lock of a preparation, pg_advisory_xact_lock of a deletion.
TakeLock(u) ==
  /\ Runs(u, "prepare", "work") \/ Runs(u, "delete", "work")
  /\ locker = {}
  /\ locker' = {u} /\ stage' = [stage EXCEPT ![u] = "locked"]
  /\ UNCHANGED <<acquiring, handler, held>>

\* The handler answers: a preparation also when the lock is taken.
Answer(u) ==
  /\ \/ Runs(u, "query", "work") \/ Runs(u, "event", "lookup")
     \/ Runs(u, "prepare", "work") /\ locker # {}
     \/ stage[u] = "locked"
  /\ Return(u)

\* Mutant of GiveUp: the second query does not use the request's context.
GiveUpFirst(u) ==
  /\ handler[u] # "none" /\ ~(Acquiring(u) /\ stage[u] = "lookup")
  /\ Return(u)

\* A statement fails, or the request's context has ended.
GiveUp(u) == handler[u] # "none" /\ Return(u)

UserStep(u) ==
  Authenticate(u) \/ LookUp(u) \/ CommitBinding(u) \/ TakeLock(u) \/ Answer(u)

PoolNext ==
  \/ Grant
  \/ \E u \in Users : (\E h \in Handlers : Arrive(u, h)) \/ UserStep(u) \/ GiveUp(u)

PoolSpec == PoolInit /\ [][PoolNext]_poolVars

\* The plugin gives a request up after five seconds and the client after 135;
\* a browser may wait for ever.
HasDeadline(u) == handler[u] \in {"event", "prepare"}

-----------------------------------------------------------------------------
(* Properties *)

\* Why no circle of requests waits for ever: who waits for a connection has
\* neither one nor the device's lock, except an event, whose context ends
\* (prepareEnrollmentAgent, deleteDevice, meshCentralEvent); so the holder of
\* the lock needs nothing more, and who waits for that lock waits for it alone.
NoHoldAndWait ==
  \A u \in Users : Acquiring(u) => u \notin locker /\ (held[u] = 0 \/ handler[u] = "event")

\* Liveness: a request that is served ends and gives its connections back,
\* also those that nobody ever cancels, although events may take all
\* connections and wait for one more each and deletions wait for preparations
\* (the request contexts in meshCentralEvent, the order of deleteDevice).
EveryConnectionComesBack ==
  \A u \in Users : handler[u] # "none" ~> handler[u] = "none" /\ held[u] = 0

=============================================================================
