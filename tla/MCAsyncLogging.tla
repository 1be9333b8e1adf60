--------------------------- MODULE MCAsyncLogging ---------------------------
(* Model-checking instances of AsyncLogging.                               *)
EXTENDS AsyncLogging
=============================================================================
