------------------------------ MODULE Detector ------------------------------
(***************************************************************************)
(* What a counting rule promises for one source address, with no pruning,  *)
(* no cleanup and no locks: every relevant attempt is remembered until an  *)
(* alarm spends it, and an alarm is raised exactly when `threshold'        *)
(* unspent attempts fall inside the sliding window.                        *)
(***************************************************************************)
EXTENDS Integers, FiniteSets

CONSTANTS
  Attempts,  \* the attempts that can be observed
  Window     \* length of the sliding window, in clock units

VARIABLES
  now,        \* the clock
  threshold,  \* attempts needed for an alarm; an operator may change it
  history,    \* attempts observed since the last alarm, each with its time
  alarms      \* for every alarm raised so far, the attempts it reports

vars == <<now, threshold, history, alarms>>

InWindow(stamps) == {s \in stamps : s.ts >= now - Window}

Init ==
  /\ now = 0
  /\ threshold \in Nat \ {0}
  /\ history = {}
  /\ alarms = {}

(* One attempt is observed: it is remembered, or it completes an alarm. *)
Observe ==
  \E a \in Attempts :
    LET seen == InWindow(history \cup {[item |-> a, ts |-> now]})
    IN  /\ \/ /\ Cardinality(seen) < threshold
              /\ history' = history \cup {[item |-> a, ts |-> now]}
              /\ alarms' = alarms
           \/ /\ Cardinality(seen) >= threshold
              /\ history' = {}
              /\ alarms' = alarms \cup {{s.item : s \in seen}}
        /\ UNCHANGED <<now, threshold>>

Advance ==
  /\ now' = now + 1
  /\ UNCHANGED <<threshold, history, alarms>>

Retune ==
  /\ threshold' \in Nat \ {0}
  /\ UNCHANGED <<now, history, alarms>>

Next == Observe \/ Advance \/ Retune

Spec == Init /\ [][Next]_vars
=============================================================================
