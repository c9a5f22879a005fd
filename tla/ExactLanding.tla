---------------------------- MODULE ExactLanding ----------------------------
(***************************************************************************)
(* What landing promises: of all the candidates built for one queue item   *)
(* at most one ever enters the target branch, and only while the item is   *)
(* open; it is reported integrated only when one did, and cancelled only   *)
(* when none did or ever will.                                             *)
(***************************************************************************)
EXTENDS Naturals, Sequences

CONSTANT Candidates  \* the item's candidates; 0 is anybody else's commit

VARIABLES
  line,     \* first-parent history of the target branch
  outcome   \* what the item shows: open, integrated or cancelled

vars == <<line, outcome>>

Landed == \E i \in DOMAIN line : line[i] \in Candidates

Init == line = <<0>> /\ outcome = "open"

Others == line' = Append(line, 0) /\ UNCHANGED outcome

Land == /\ outcome = "open"
        /\ ~Landed
        /\ \E k \in Candidates : line' = Append(line, k)
        /\ UNCHANGED outcome

Report == outcome = "open" /\ Landed /\ outcome' = "integrated" /\ UNCHANGED line

Cancel == outcome = "open" /\ ~Landed /\ outcome' = "cancelled" /\ UNCHANGED line

Next == Others \/ Land \/ Report \/ Cancel

Spec == Init /\ [][Next]_vars
=============================================================================
