---------------------------- MODULE MCTaskFollow ----------------------------
EXTENDS TaskFollow
=============================================================================
