----------------------------- MODULE AuditTrail -----------------------------
(***************************************************************************)
(* What the audit log promises of its history, files and rotation apart:   *)
(* events are numbered as Log is called, an event is stored after every    *)
(* event already stored or not at all, and what is given up is the oldest  *)
(* part of the trail.                                                      *)
(***************************************************************************)
EXTENDS Integers

VARIABLES
    issued,     \* the events logged so far are 1..issued
    kept        \* those the trail still holds

trailVars == <<issued, kept>>

Init == issued = 0 /\ kept = {}

Issue == issued' = issued + 1 /\ UNCHANGED kept

Store ==
    /\ issued > 0
    /\ \A e \in kept : e < issued
    /\ kept' = kept \cup {issued}
    /\ UNCHANGED issued

Forget ==
    /\ \E m \in kept : kept' = {e \in kept : e > m}
    /\ UNCHANGED issued

Next == Issue \/ Store \/ Forget

Spec == Init /\ [][Next]_trailVars

=============================================================================
