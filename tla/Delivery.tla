------------------------------ MODULE Delivery ------------------------------
(***************************************************************************)
(* What a device's upload promises: a store that copies the records of     *)
(* another.  A record is marked until the copy of it is exact, and is      *)
(* unmarked after a while.  How the copy gets there (batches, retries, the *)
(* order of corrections) is not said.                                      *)
(***************************************************************************)
EXTENDS Naturals

CONSTANTS
  Keys,    \* names of records
  Records, \* what a record may hold
  NoRow    \* a name without a record

VARIABLES
  held,    \* the device's records
  marked,  \* the names waiting for the copy
  copy     \* the server's records

vars == <<held, marked, copy>>

Init ==
  /\ held = [k \in Keys |-> NoRow]
  /\ marked = {}
  /\ copy = [k \in Keys |-> NoRow]

\* The device reads or corrects a record.
Record(k) ==
  /\ \E r \in Records : r # held[k] /\ held' = [held EXCEPT ![k] = r]
  /\ marked' = marked \cup {k}
  /\ UNCHANGED copy

\* The server files something under names the device has marked, and under
\* no other.
File ==
  /\ \A k \in Keys \ marked : copy'[k] = copy[k]
  /\ copy' \in [Keys -> Records \cup {NoRow}]
  /\ UNCHANGED <<held, marked>>

\* Names are unmarked whose copy is exact.
Settle ==
  /\ marked' \subseteq marked
  /\ \A k \in marked \ marked' : copy[k] = held[k]
  /\ UNCHANGED <<held, copy>>

Next == (\E k \in Keys : Record(k)) \/ File \/ Settle

Spec == Init /\ [][Next]_vars

\* No record stays marked for good.
Progress == \A k \in Keys : k \in marked ~> k \notin marked

LiveSpec == Spec /\ Progress
=============================================================================
