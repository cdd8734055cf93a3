---------------------------- MODULE ElevatedCall ----------------------------
(***************************************************************************)
(* What the client may expect of an operation that it has done with        *)
(* administrator's rights: it is carried out only after the client has     *)
(* asked for it, success is reported only of what was carried out, and     *)
(* every call ends.  A call that fails may have been carried out or be     *)
(* carried out later; one that ends before it asked never is.              *)
(***************************************************************************)
CONSTANT Tasks

VARIABLES
  phase,  \* of each call
  done    \* calls that were carried out, wholly or in part

vars == <<phase, done>>

Init ==
  /\ phase = [t \in Tasks |-> "idle"]
  /\ done = {}

Go(t, from, to) == phase[t] = from /\ phase' = [phase EXCEPT ![t] = to]

Open(t) == Go(t, "idle", "open") /\ UNCHANGED done
Ask(t)  == Go(t, "open", "asked") /\ UNCHANGED done

CarryOut(t) ==
  /\ phase[t] \in {"asked", "failed"}
  /\ done' = done \cup {t}
  /\ UNCHANGED phase

Finish(t) ==
  /\ \/ Go(t, "open", "refused")
     \/ Go(t, "asked", "failed")
     \/ t \in done /\ Go(t, "asked", "ok")
  /\ UNCHANGED done

\* The client ends, and with it the calls it has open.
Abandon ==
  /\ phase' = [t \in Tasks |-> CASE phase[t] = "open" -> "refused"
                                 [] phase[t] = "asked" -> "failed"
                                 [] OTHER -> phase[t]]
  /\ UNCHANGED done

Next ==
  \/ Abandon
  \/ \E t \in Tasks : Open(t) \/ Ask(t) \/ CarryOut(t) \/ Finish(t)

Spec ==
  /\ Init /\ [][Next]_vars
  /\ \A t \in Tasks : WF_vars(Ask(t) \/ Finish(t))

=============================================================================
