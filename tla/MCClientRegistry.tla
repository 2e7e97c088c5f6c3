-------------------------- MODULE MCClientRegistry --------------------------
(* Three users share three sids, so a sid is replaced, ended, reissued to  *)
(* another user and used by a caller that does not know it is stale; with  *)
(* no fourth sid a user is always left without one when all are in use.    *)
EXTENDS ClientRegistry
=============================================================================
