------------------------------ MODULE MCMonitor -----------------------------
(* Small instances of Monitor for TLC. *)
EXTENDS Monitor

CONSTANTS session, bash, miner, p1, p2

(* Shells are forbidden, the memory limited, and no list allows the miner: *)
(* it fails three checks, and two of them are of the same rule.            *)
Strict ==
  [ram |-> TRUE, shells |-> FALSE, processes |-> TRUE, blocks |-> {},
   whitelist |-> TRUE, allows |-> {}, kill |-> TRUE]

StrictOnly == {Strict}
=============================================================================
