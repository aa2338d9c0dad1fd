------------------------------- MODULE Lists --------------------------------
(***************************************************************************)
(* The intrusive lists of the runtime (mutex and condition_variable        *)
(* awaiters, cancellation registrations, timers) as sequences.  Only what  *)
(* Sequences lacks is defined here: SequencesExt brings some twenty        *)
(* modules of definitions into every proof obligation.                     *)
(***************************************************************************)
EXTENDS Naturals, Sequences, Functions

\* Linking a node in front of the head.
PushFront(e, s) == <<e>> \o s

\* Unlinking a node wherever it is; a node that is not linked changes nothing.
Unlink(s, e) ==
    IF \E k \in 1..Len(s) : s[k] = e
    THEN LET k == CHOOSE k \in 1..Len(s) : s[k] = e
         IN SubSeq(s, 1, k - 1) \o SubSeq(s, k + 1, Len(s))
    ELSE s
=============================================================================
