---------------------------- MODULE MCAsyncAgents ----------------------------
(* Every task is ann's.                                                    *)
EXTENDS AsyncAgents

CONSTANTS ann

AllOfAnn == [t \in Tasks |-> ann]
=============================================================================
