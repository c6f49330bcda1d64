-------------------------- MODULE MCEngineHandoff --------------------------
\* Instances of EngineHandoff for TLC.
EXTENDS EngineHandoff
=============================================================================
