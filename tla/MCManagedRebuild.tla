-------------------------- MODULE MCManagedRebuild --------------------------
(* Instances of ManagedRebuild for TLC.                                    *)
EXTENDS ManagedRebuild
=============================================================================
