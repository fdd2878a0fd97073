---------------------------- MODULE MCNormalizer ----------------------------
(* Small instances of Normalizer for TLC. *)
EXTENDS Normalizer

CONSTANTS alice

(* A line that a pattern matches and one that none does.  A line that is   *)
(* recognised only by its prefix is like the first in a log and like the   *)
(* second in the journal.                                                  *)
AllLines ==
  {[event |-> TRUE, bare |-> TRUE, user |-> alice],
   [event |-> FALSE, bare |-> FALSE, user |-> alice]}
=============================================================================
