---------------------------- MODULE ProcessLease ----------------------------
(***************************************************************************)
(* What the database process lease promises: processes that use the        *)
(* database share it, and a migration has it alone.                        *)
(***************************************************************************)
CONSTANTS Procs

VARIABLES shared, exclusive

vars == <<shared, exclusive>>

Init == shared = {} /\ exclusive = {}

\* Anyone may leave at any time; who comes in respects the others.
Change ==
  /\ shared' \subseteq Procs /\ exclusive' \subseteq Procs
  /\ shared' \ shared # {} => exclusive = {}
  /\ exclusive' \ exclusive # {} => shared = {} /\ exclusive = {}
  /\ shared' # {} => exclusive' = {}
  /\ \A p, q \in exclusive' : p = q

Spec == Init /\ [][Change]_vars
=============================================================================
