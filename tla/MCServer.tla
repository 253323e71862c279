------------------------------ MODULE MCServer -------------------------------
(***************************************************************************)
(* Two parts of the server that share no state, explored side by side: the *)
(* tables of a member and their devices (Members), and the table of quota  *)
(* readings with the device that uploads them (Readings, in the bounds of  *)
(* MCReadings).  A behaviour is about one; the other stays as it began.    *)
(***************************************************************************)
EXTENDS MCMembers, MCReadings

VARIABLE part

MCInit == Init /\ ReadingsInit /\ part \in {"members", "readings"}

MCNext ==
  /\ UNCHANGED part
  /\ \/ part = "members" /\ Next /\ UNCHANGED readingsVars
     \/ part = "readings" /\ BoundedNext /\ UNCHANGED vars

MCSpec == MCInit /\ [][MCNext]_<<part, vars, readingsVars>>
==============================================================================
