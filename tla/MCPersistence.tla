--------------------------- MODULE MCPersistence ----------------------------
(* Two processors, one after the other or side by side, and again after    *)
(* each crash; two recordings at a time.  With one event every recording   *)
(* is a retry, or finds it lost.                                           *)
EXTENDS Persistence
=============================================================================
