--------------------------- MODULE MCAsyncLogging ---------------------------
(* AsyncLogging on small instances; the configurations give the constants  *)
(* their values.                                                           *)
EXTENDS AsyncLogging
=============================================================================
