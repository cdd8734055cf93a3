--------------------------- MODULE MCReleaseSync ---------------------------
(* ReleaseSync with a few jobs and versions, and what may go wrong together. *)
EXTENDS ReleaseSync

NoFaults == {{}}

FaultCombinations ==
  {{"crash", "dbDown", "lostInsert", "cleanup", "restore"},
   {"crash", "lostCommit", "badRead"},
   {"crash", "badRead"}}

=============================================================================
