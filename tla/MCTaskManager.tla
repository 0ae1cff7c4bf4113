---------------------------- MODULE MCTaskManager ----------------------------
EXTENDS TaskManagerRefinement, MCInstances
=============================================================================
