------------------------- MODULE SystemUpdateProofs -------------------------
(* Proofs about SystemUpdate, for any number of requests and of releases. *)
EXTENDS SystemUpdate, TLAPS

\* What keeps the schema ahead of the programs: an updater that has passed its
\* check is going up, and it moves the link only after the migrations.
UpdaterInOrder ==
  /\ upc \in {"fetch", "migrate", "switch"} => taken > current
  /\ upc = "switch" => taken <= schema

Inv == TypeOK /\ ServerHasItsSchema /\ UpdaterInOrder

LEMMA InitInv == Init => Inv
<1> SUFFICES ASSUME Init
             PROVE  Inv
  OBVIOUS
<1>1. 1 \in Releases
  BY ReleaseAssumption DEF Releases
<1>2. TypeOK
  BY <1>1 DEF Init, TypeOK
<1>3. ServerHasItsSchema /\ UpdaterInOrder
  BY DEF Init, ServerHasItsSchema, UpdaterInOrder
<1> QED
  BY <1>2, <1>3 DEF Inv

\* The requests of the server change neither releases nor updater.
LEMMA HandlersKeepInv ==
  ASSUME Inv, NEW h \in Handlers, Handle(h)
  PROVE  Inv'
<1> USE DEF Inv, TypeOK, ServerHasItsSchema, UpdaterInOrder, Releases,
            installVars
<1>1. ASSUME NEW v \in Releases, Post(h, v)
      PROVE  Inv'
  BY <1>1 DEF Post
<1>2. CASE Link(h)
  BY <1>2 DEF Link, Answer
<1>3. CASE Accepted(h)
  BY <1>3 DEF Accepted, Answer
<1> QED
  BY <1>1, <1>2, <1>3 DEF Handle

\* One case for each step of the updater.
LEMMA UpdaterKeepsInv ==
  ASSUME Inv, Updater
  PROVE  Inv'
<1> USE DEF Inv, TypeOK, ServerHasItsSchema, UpdaterInOrder, Releases,
            installVars, handlerVars
<1>1. CASE Take
  BY <1>1 DEF Take
<1>2. CASE Check
  BY <1>2 DEF Check, WriteStatus
<1>3. CASE Fetch
  BY <1>3 DEF Fetch
<1>4. CASE Migrate
  BY <1>4 DEF Migrate
<1>5. CASE Switch
  BY <1>5 DEF Switch
<1>6. CASE Restart
  BY <1>6 DEF Restart, StartServer
<1>7. CASE Report
  BY <1>7 DEF Report, WriteStatus
<1>8. CASE RestartFails
  BY <1>8 DEF RestartFails, StartServer, FailUpdate, WriteStatus
<1>9. CASE Stop
  BY <1>9 DEF Stop, FailUpdate, WriteStatus
<1> QED
  BY <1>1, <1>2, <1>3, <1>4, <1>5, <1>6, <1>7, <1>8, <1>9 DEF Updater

LEMMA StepKeepsInv == Inv /\ [Next]_vars => Inv'
<1> SUFFICES ASSUME Inv, [Next]_vars
             PROVE  Inv'
  OBVIOUS
<1>1. ASSUME NEW h \in Handlers, Handle(h)
      PROVE  Inv'
  BY <1>1, HandlersKeepInv
<1>2. CASE Updater
  BY <1>2, UpdaterKeepsInv
<1> USE DEF Inv, TypeOK, ServerHasItsSchema, UpdaterInOrder, Releases,
            installVars, handlerVars
<1>3. CASE Kill
  BY <1>3 DEF Kill
<1>4. CASE Crash
  BY <1>4 DEF Crash, StartServer
<1>5. CASE Age
  BY <1>5 DEF Age
<1>6. CASE UNCHANGED vars
  BY <1>6 DEF vars
<1> QED
  BY <1>1, <1>2, <1>3, <1>4, <1>5, <1>6 DEF Next

LEMMA Invariance == Spec => []Inv
  BY InitInv, StepKeepsInv, PTL DEF Spec

\* Every file and process is in a state the code knows.
THEOREM TypeCorrect == Spec => []TypeOK
  BY Invariance, PTL DEF Inv

\* Wherever the updater or the server ends, and whichever requests come in
\* meanwhile, neither the running server nor the one that `current` leads to
\* is ahead of the database.
THEOREM SchemaFirst == Spec => []ServerHasItsSchema
  BY Invariance, PTL DEF Inv

\* The link `current` is moved by Switch only, after a check that still holds.
THEOREM OnlyUpgrades == Spec => UpgradesOnly
<1>1. Inv /\ [Next]_vars => [current' > current]_current
  <2> SUFFICES ASSUME Inv, Next, current' # current
               PROVE  current' > current
    BY DEF vars
  <2>1. Switch
    BY DEF Next, Handle, Post, Link, Accepted, Updater, Kill, Crash, Age, Take,
           Check, Fetch, Migrate, Restart, Report, RestartFails, Stop,
           FailUpdate, StartServer, installVars
  <2> QED
    BY <2>1 DEF Switch, Inv, UpdaterInOrder
<1> QED
  BY <1>1, Invariance, PTL DEF Spec, UpgradesOnly

=============================================================================
