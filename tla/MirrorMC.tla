------------------------------ MODULE MirrorMC ------------------------------
EXTENDS MirrorWorker, TreeUsers
=============================================================================
