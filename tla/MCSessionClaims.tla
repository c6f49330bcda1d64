-------------------------- MODULE MCSessionClaims --------------------------
\* Instances of SessionClaims for TLC.
EXTENDS SessionClaims, TLC

CONSTANTS a, b, t1, t2, d1

\* Two turns of one process, a drain of another.
MCOwnerOf == (t1 :> a) @@ (t2 :> a) @@ (d1 :> b)
=============================================================================
