--------------------------- MODULE MCDependencies ---------------------------
(* A provider, and one that needs it.                                      *)
EXTENDS Dependencies

CONSTANTS session, repository

MCChain == [k \in {session, repository} |->
              IF k = session THEN <<session>> ELSE <<session, repository>>]
=============================================================================
