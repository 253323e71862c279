----------------------------- MODULE MCReadings -----------------------------
(***************************************************************************)
(* Readings on a small device, with bounds that leave out what says        *)
(* nothing more of ReadingsAgree.                                          *)
(***************************************************************************)
EXTENDS Readings, TLC

CONSTANT MaxSnaps  \* bound: readings the device holds

\* No action names a session, a limit or a request.
Symmetry == Permutations(Sessions) \cup Permutations(Limits) \cup Permutations(Requests)

\* Bound: a request that has lost items to the answer of another before it
\* arrived can only come late, of which ReadingsAgree says nothing: it is lost
\* instead.
Timely ==
  \A q \in Requests : wire'[q] # Absent /\ ~wire'[q].done => wire'[q].covers = Len(wire'[q].batch)

\* Bound: the clock, the logs, the sign-ins and the spool stay while requests
\* are under way.  They share nothing with the wire, so a pass among requests
\* may have learned before them what it learned during them; left out is only
\* that a second pass knows more than the first among the same requests.
Quiet == (\E q \in Requests : wire[q] # Absent) => UNCHANGED <<now, cli, events, spool>>

BoundedNext ==
  /\ ~lost /\ ~late
  /\ ReadingsNext
  /\ Cardinality(snaps') <= MaxSnaps
  /\ Timely
  /\ Quiet

BoundedSpec == ReadingsInit /\ [][BoundedNext]_readingsVars
=============================================================================
