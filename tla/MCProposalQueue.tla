-------------------------- MODULE MCProposalQueue --------------------------
\* Instances of ProposalQueue for TLC.
EXTENDS ProposalQueue
=============================================================================
