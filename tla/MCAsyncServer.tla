--------------------------- MODULE MCAsyncServer ---------------------------
EXTENDS AsyncServer
=============================================================================
