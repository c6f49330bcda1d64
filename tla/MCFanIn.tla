------------------------------ MODULE MCFanIn ------------------------------
\* Instances of FanIn for TLC: one peer, short runs of each engine.
EXTENDS FanIn
=============================================================================
