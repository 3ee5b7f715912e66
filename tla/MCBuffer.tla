------------------------------ MODULE MCBuffer ------------------------------
(* Module Buffer with sizes small enough that growing, moving to the front *)
(* and the way through extrabuf all happen.                                *)
EXTENDS Buffer
=============================================================================
