-------------------------- MODULE MCSessionRunner --------------------------
\* Instances of SessionRunner for TLC.
EXTENDS SessionRunner

\* No call is ever blocked by the bound on runner objects.
ASSUME RunnersSuffice == MaxRunners >= Cardinality(Prompts \cup Shells)
=============================================================================
