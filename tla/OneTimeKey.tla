----------------------------- MODULE OneTimeKey -----------------------------
(***************************************************************************)
(* What connection keys promise, without statements, locks or columns: a   *)
(* key is issued, it is redeemed once or lapses, redeeming it gives one    *)
(* installation its credentials and makes those it held before worthless,  *)
(* and deleting the device withdraws them.  Activation implements this.    *)
(***************************************************************************)
CONSTANTS Codes, Installs, None

VARIABLES
  issued,   \* keys that exist
  unspent,  \* keys that can still be redeemed
  holds     \* the key whose credentials each installation has, or None

vars == <<issued, unspent, holds>>

TypeOK ==
  /\ issued \subseteq Codes
  /\ unspent \subseteq issued
  /\ holds \in [Installs -> (issued \ unspent) \cup {None}]

Init ==
  /\ issued = {}
  /\ unspent = {}
  /\ holds = [i \in Installs |-> None]

Issue(c) ==
  /\ c \notin issued
  /\ issued' = issued \cup {c}
  /\ unspent' = unspent \cup {c}
  /\ UNCHANGED holds

Lapse(c) ==
  /\ c \in unspent
  /\ unspent' = unspent \ {c}
  /\ UNCHANGED <<issued, holds>>

Redeem(c, i) ==
  /\ c \in unspent
  /\ unspent' = unspent \ {c}
  /\ holds' = [holds EXCEPT ![i] = c]
  /\ UNCHANGED issued

Withdraw(i) ==
  /\ holds[i] # None
  /\ holds' = [holds EXCEPT ![i] = None]
  /\ UNCHANGED <<issued, unspent>>

Next ==
  \/ \E c \in Codes : Issue(c) \/ Lapse(c)
  \/ \E c \in Codes, i \in Installs : Redeem(c, i)
  \/ \E i \in Installs : Withdraw(i)

Spec == Init /\ [][Next]_vars

=============================================================================
