----------------------------- MODULE MCTaskArena -----------------------------
EXTENDS TaskArena
=============================================================================
