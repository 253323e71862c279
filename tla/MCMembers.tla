------------------------------ MODULE MCMembers ------------------------------
(***************************************************************************)
(* A small instance of Members: the tables that DeletePerson empties are   *)
(* one, usage; limit stands for limit_events, which it does not name.      *)
(***************************************************************************)
EXTENDS Members

CONSTANTS usage, limit

MCCleared == <<usage>>
==============================================================================
