---------------------------- MODULE MCCorrelator ----------------------------
(* Small instances of Correlator for TLC.  The configurations keep the     *)
(* order of the code's durations, not their proportions: brute force       *)
(* window, cleanup period < retention = enumeration window < success one.  *)
EXTENDS Correlator

CONSTANTS a, b

Login(k, s, isValid, isRoot) ==
  [kind |-> k, src |-> s, valid |-> isValid, root |-> isRoot]

Setting(threshold, window, enum, toggles) ==
  [bfThreshold |-> threshold, bfWindow |-> window, enumThreshold |-> enum,
   rootAlert |-> toggles, successAlert |-> toggles, invalidAlert |-> toggles]

(* Guesses at a password from one address, and a login from it. *)
OneAttacker ==
  {Login("failure", a, FALSE, FALSE), Login("success", a, TRUE, FALSE)}

(* The operator switches between a threshold of 2 and the default. *)
Retuned == {Setting(2, 1, 2, TRUE), Setting(0, 1, 2, TRUE)}

(* The kinds of event that the eight rules tell apart; two of them bring   *)
(* an alert of every rule but ssh_bruteforce_success, which takes three.   *)
(* b is the address of the machine itself, which the monitor gives its     *)
(* events.                                                                 *)
EveryKind ==
  {Login("failure", a, TRUE, TRUE), Login("failure", Unknown, FALSE, FALSE),
   Login("success", a, TRUE, TRUE), Login("invalid_user", a, FALSE, FALSE),
   Login("resource", b, FALSE, FALSE), Login("process", b, FALSE, FALSE)}

(* The operator switches one of the alerts on and off. *)
Toggled ==
  {Setting(0, 0, 0, TRUE), [Setting(0, 0, 0, TRUE) EXCEPT !.successAlert = FALSE]}

(* A password guesser that the settings never change for. *)
Guesses == {Login("failure", a, TRUE, FALSE)}
Fixed == {Setting(2, 1, 2, TRUE)}

-----------------------------------------------------------------------------
Counter == INSTANCE Detector WITH
  Attempts <- Item, Window <- DefaultBFWindow, threshold <- BFThreshold(cfg),
  history <- history["ssh_bruteforce"][a],
  alarms <- {x.of : x \in {y \in Alerts : y.rule = "ssh_bruteforce" /\ y.src = a}}

(* The brute force rule, inside the engine, with its cleanup and while its *)
(* threshold is changed, raises exactly the alarms of the abstract         *)
(* detector for the address (ssh.go:19-66).                                *)
BruteForceDetector == Counter!Spec

(* "5 min window" (ssh.go:210): a successful login from an address with    *)
(* two unspent failures in the last SuccessWindow is reported.             *)
SuccessWithinFiveMinutes ==
  [][(/\ At("ssh_bruteforce_success") /\ <<pc, ri>>' # <<pc, ri>>
      /\ cfg.successAlert /\ src # Unknown /\ kind = "success"
      /\ Cardinality(Since(history["ssh_bruteforce_success"][src],
                           SuccessWindow)) >= 2)
       => raised' # {}]_vars

(* "Detected %d failed SSH login attempts from %s within %d seconds"       *)
(* (ssh.go:58): the attempts a brute force alert counts happened within    *)
(* the window of each other.                                               *)
AttemptsWithinWindow ==
  \A x \in Alerts : x.rule = "ssh_bruteforce" =>
    \A i, j \in x.of : \E c \in Configs : i.sent - j.sent <= BFWindow(c)
=============================================================================
