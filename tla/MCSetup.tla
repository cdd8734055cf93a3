------------------------------ MODULE MCSetup ------------------------------
(* Setup with three requests and two names.  Which is which makes no        *)
(* difference, so requests begin in one order and the names are first used  *)
(* in one order: what a symmetry set would do, which liveness does not      *)
(* allow.  They also enter in this order: a request that others overtake     *)
(* while it waits for installMu does nothing that it could not do if it had  *)
(* arrived after them.                                                       *)
EXTENDS Setup, SequencesExt

RequestSeq == SetToSeq(Requests)
LoginSeq   == SetToSeq(Logins)

\* The first j requests have used the first k names.
Used(j, k) == \E i \in 1..j : login[RequestSeq[i]] = LoginSeq[k]

InOrder ==
  /\ \A i, j \in DOMAIN RequestSeq :
       LET first == pc[RequestSeq[i]]  second == pc[RequestSeq[j]]
       IN i < j => /\ first = "idle" => second = "idle"
                   /\ first = "waiting" => second \in {"idle", "waiting"}
  /\ \A j \in DOMAIN RequestSeq : \A k, l \in DOMAIN LoginSeq :
       l < k /\ Used(j, k) => Used(j, l)

MCSpec ==
  /\ Init /\ [][Next /\ InOrder']_vars
  /\ Fairness

=============================================================================
