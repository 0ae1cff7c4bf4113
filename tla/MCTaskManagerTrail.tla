-------------------------- MODULE MCTaskManagerTrail --------------------------
EXTENDS TaskManagerTrail, MCInstances
=============================================================================
