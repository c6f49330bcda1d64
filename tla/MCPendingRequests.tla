------------------------- MODULE MCPendingRequests -------------------------
(* Instances of PendingRequests for TLC: process a asks everything in one  *)
(* session, the other processes only answer.                               *)
EXTENDS PendingRequests, TLC

CONSTANT a

AskedByA == [r \in Requests |-> a]
OneSession == [r \in Requests |-> "session"]
OnePattern == [m \in Permissions |-> "pattern"]

\* Calls are interchangeable, and so are permission requests.
Symmetry == Permutations(Calls) \cup Permutations(Permissions)
=============================================================================
