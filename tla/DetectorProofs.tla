--------------------------- MODULE DetectorProofs ---------------------------
(***************************************************************************)
(* The brute force rule, inside the engine, implements the abstract        *)
(* detector for one address, as long as every posting keeps the window at  *)
(* the default and the cleanup keeps more than the window.                 *)
(***************************************************************************)
EXTENDS MCCorrelator, CorrelatorProofs

(* The settings never change the window, which is shorter than what the    *)
(* cleanup keeps (60 s and 120 s: config.go:55, engine.go:105).            *)
OneWindow ==
  /\ \A c \in Configs : BFWindow(c) = DefaultBFWindow
  /\ DefaultBFWindow < Retention

bf == "ssh_bruteforce"

(* The state of the detector that the engine's state stands for.           *)
Remembered == history[bf][a]
Alarms == {x.of : x \in {y \in Alerts : y.rule = bf /\ y.src = a}}

(* What the engine does, seen by the detector of a. *)
Silent == UNCHANGED <<now, BFThreshold(cfg), Remembered, Alarms>>

LEMMA CounterInit ==
  ASSUME a \in Sources, Init
  PROVE  Counter!Init
<1>1. cfg \in Config
  BY ConfigsAssumption DEF Init
<1>2. BFThreshold(cfg) \in Nat \ {0}
  BY <1>1, DefaultsAssumption DEF BFThreshold, Config
<1>3. now = 0 /\ history["ssh_bruteforce"][a] = {} /\ Alerts = {}
  BY DEF Init, Windowed, Alerts
<1> QED BY <1>2, <1>3 DEF Counter!Init

LEMMA SilentStep ==
  ASSUME Silent
  PROVE  UNCHANGED Counter!vars
BY DEF Silent, Remembered, Alarms, bf, Counter!vars

(* The rule counts exactly what the detector counts: the window holds no   *)
(* attempt that is not remembered, and every one of the last seconds.      *)
LEMMA SameCount ==
  ASSUME OneWindow, TypeOK, CountsInv, NEW s \in Sources
  PROVE  Since(windows[bf][s] \cup {CurStamp}, BFWindow(cfg)) =
           Counter!InWindow(history[bf][s] \cup {[item |-> cur, ts |-> now]})
<1>1. bf \in Windowed
  BY DEF bf, Windowed
<1>2. BFWindow(cfg) = DefaultBFWindow
  BY PostedWindowLength DEF OneWindow, CountsInv
<1>3. windows[bf][s] \subseteq history[bf][s]
  BY <1>1 DEF CountsInv, NeverOvercounts
<1>4. ASSUME NEW st \in history[bf][s], st.ts >= now - DefaultBFWindow
      PROVE  st \in windows[bf][s]
  <2>1. st.ts \in Int /\ now \in Int
    BY <1>1, TypeParts DEF WindowsOK, ControlOK, Stamp, Time
  <2>2. st.ts > now - Retention
    BY <1>4, <2>1, DefaultsAssumption, TimesAssumption DEF OneWindow
  <2>3. MustKeep(bf, st)
    BY <1>4, <2>2 DEF MustKeep, OneWindow, bf
  <2> QED BY <1>1, <2>3 DEF CountsInv, NeverUndercounts
<1> QED BY <1>2, <1>3, <1>4 DEF Since, Counter!InWindow, CurStamp

(* The detector's Cardinality is the one of FiniteSets.                    *)
LEMMA SameCardinality ==
  ASSUME NEW S
  PROVE  Counter!Cardinality(S) = Cardinality(S)
BY DEF Counter!Cardinality, Cardinality

LEMMA BruteforceStep ==
  ASSUME a \in Sources, OneWindow, TypeOK, CountsInv, Bruteforce
  PROVE  [Counter!Next]_(Counter!vars)
<1> DEFINE kept == history[bf][src] \cup {CurStamp}
           seen == Since(windows[bf][src] \cup {CurStamp}, BFWindow(cfg))
<1>1. /\ At(bf) /\ bf \in Windowed /\ WindowsOK /\ cur \in Item /\ raised = {}
      /\ src # Unknown => src \in Sources
  BY TypeParts, AtFacts DEF Bruteforce, Count, bf, Windowed, ControlOK
<1>2. UNCHANGED <<now, cfg>>
  BY DEF Bruteforce, Count, Pass, Raise
<1>3. CASE Pass /\ UNCHANGED counts
  BY <1>2, <1>3, SilentStep
  DEF Silent, Pass, counts, outputs, Remembered, Alarms, Alerts
<1>4. CASE /\ src # Unknown /\ Cardinality(seen) < BFThreshold(cfg)
           /\ Pass /\ Recall(bf, kept)
  <2>1. kept \in SUBSET Stamp
    BY <1>1, <1>4, RecordedType
  <2>2. /\ history'[bf][src] = kept
        /\ \A s \in Sources : s # src => history'[bf][s] = history[bf][s]
    BY <1>1, <1>4, <2>1, HistoryAt
  <2>3. Alerts' = Alerts
    BY <1>4 DEF Pass, outputs, Alerts
  <2>4. CASE src = a
    <3>1. Cardinality(Counter!InWindow(
            history[bf][a] \cup {[item |-> cur, ts |-> now]})) < BFThreshold(cfg)
      BY <1>1, <1>4, <2>4, SameCount
    <3>2. history'[bf][a] = history[bf][a] \cup {[item |-> cur, ts |-> now]}
      BY <2>2, <2>4 DEF CurStamp
    <3> QED BY <1>1, <1>2, <2>3, <3>1, <3>2, SameCardinality
            DEF Counter!Next, Counter!Observe, bf
  <2>5. CASE src # a
    BY <1>2, <2>2, <2>3, <2>5, SilentStep DEF Silent, Remembered, Alarms
  <2> QED BY <2>4, <2>5
<1>5. CASE /\ src # Unknown /\ Cardinality(seen) >= BFThreshold(cfg)
           /\ Raise(bf, src, seen) /\ Recall(bf, {})
  <2>1. /\ history'[bf][src] = {}
        /\ \A s \in Sources : s # src => history'[bf][s] = history[bf][s]
    BY <1>1, <1>5, HistoryAt
  <2>2. PICK new : /\ new.rule = bf /\ new.src = src /\ new.of = {s.item : s \in seen}
                   /\ raised' = {new}
    BY <1>5 DEF Raise
  <2>3. Alerts' = Alerts \cup {new}
    BY <1>1, <1>5, <2>2 DEF Raise, outputs, Alerts
  <2>4. CASE src = a
    <3>1. seen = Counter!InWindow(history[bf][a] \cup {[item |-> cur, ts |-> now]})
      BY <1>1, <1>5, <2>4, SameCount
    <3>2. history'[bf][a] = {}
      BY <2>1, <2>4
    <3>3. Alarms' = Alarms \cup {{s.item : s \in seen}}
      BY <2>2, <2>3, <2>4 DEF Alarms
    <3> QED BY <1>1, <1>2, <1>5, <3>1, <3>2, <3>3, SameCardinality
            DEF Counter!Next, Counter!Observe, Alarms, bf
  <2>5. CASE src # a
    <3>1. Alarms' = Alarms
      BY <2>2, <2>3, <2>5 DEF Alarms
    <3> QED BY <1>2, <2>1, <2>5, <3>1, SilentStep DEF Silent, Remembered
  <2> QED BY <2>4, <2>5
<1> QED BY <1>3, <1>4, <1>5 DEF Bruteforce, Count, Spend, bf

(* The two other rules that count, for their own history.                  *)
LEMMA OtherCount ==
  ASSUME a \in Sources, TypeOK, UserEnumeration \/ BruteForceSuccess
  PROVE  Silent
<1>1. raised = {} /\ WindowsOK
  BY TypeParts DEF ControlOK, UserEnumeration, BruteForceSuccess, Count, At
<1>2. UNCHANGED <<now, cfg, notified>>
  BY DEF UserEnumeration, BruteForceSuccess, Count, Pass, Raise, outputs
<1>3. Remembered' = Remembered
  <2>1. \/ history' = history
        \/ \E rule \in Windowed : \E stamps : rule # bf /\ Recall(rule, stamps)
    BY DEF UserEnumeration, BruteForceSuccess, Count, Spend, counts, Windowed, bf
  <2>2. CASE \E rule \in Windowed : \E stamps : rule # bf /\ Recall(rule, stamps)
    BY <1>1, <2>2 DEF Recall, WindowsOK, Remembered, Windowed, bf
  <2> QED BY <2>1, <2>2 DEF Remembered
<1>4. Alarms' = Alarms
  <2>1. \A y \in raised' : y.rule # bf
    BY <1>1 DEF UserEnumeration, BruteForceSuccess, Count, Pass, Raise, bf
  <2> QED BY <1>1, <1>2, <2>1 DEF Alarms, Alerts
<1> QED BY <1>2, <1>3, <1>4 DEF Silent

LEMMA StatelessSilent ==
  ASSUME a \in Sources, TypeOK,
         \/ SingleFailure \/ RootLogin \/ InvalidUser \/ ResourceViolation
         \/ UnauthorizedProcess
  PROVE  Silent
<1>1. raised = {}
  BY TypeParts DEF ControlOK, SingleFailure, RootLogin, InvalidUser,
     ResourceViolation, UnauthorizedProcess, Stateless, At
<1>2. UNCHANGED <<now, cfg, history, notified>>
  BY DEF SingleFailure, RootLogin, InvalidUser, ResourceViolation,
     UnauthorizedProcess, Stateless, Pass, Raise, counts, outputs
<1>3. \A y \in raised' : y.rule # bf
  BY <1>1 DEF SingleFailure, RootLogin, InvalidUser, ResourceViolation,
     UnauthorizedProcess, Stateless, Pass, Raise, bf
<1>4. Alarms' = Alarms
  BY <1>1, <1>2, <1>3 DEF Alarms, Alerts
<1> QED BY <1>2, <1>4 DEF Silent, Remembered

LEMMA CounterNext ==
  ASSUME a \in Sources, OneWindow, TypeOK, CountsInv, [Next]_vars
  PROVE  [Counter!Next]_(Counter!vars)
<1>1. CASE Bruteforce
  BY <1>1, BruteforceStep
<1>2. CASE UserEnumeration \/ BruteForceSuccess
  BY <1>2, OtherCount, SilentStep
<1>3. CASE SingleFailure \/ RootLogin \/ InvalidUser \/ ResourceViolation
           \/ UnauthorizedProcess
  BY <1>3, StatelessSilent, SilentStep
<1>4. CASE Tick
  <2>1. now' = now + 1 /\ UNCHANGED <<cfg, history, raised, notified>>
    BY <1>4 DEF Tick, engine, counts, outputs
  <2>2. UNCHANGED <<Remembered, Alarms>>
    BY <2>1 DEF Remembered, Alarms, Alerts
  <2> QED BY <2>1, <2>2 DEF Counter!Next, Counter!Advance, Remembered, Alarms, bf
<1>5. ASSUME NEW c \in Configs, NEW f \in DOMAIN c, CopyField(c, f)
      PROVE  [Counter!Next]_(Counter!vars)
  <2>1. UNCHANGED <<now, history, raised, notified>>
    BY <1>5 DEF CopyField, engine, counts, outputs
  <2>2. UNCHANGED <<Remembered, Alarms>>
    BY <2>1 DEF Remembered, Alarms, Alerts
  <2>3. TypeOK'
    BY <1>5, NextType DEF Next
  <2>4. BFThreshold(cfg') \in Nat \ {0}
    BY <2>3, TypePartsNext, DefaultsAssumption DEF ControlOK, BFThreshold, Config
  <2> QED BY <2>1, <2>2, <2>4 DEF Counter!Next, Counter!Retune, Remembered, Alarms, bf
<1>6. CASE \/ \E e \in Events : Produce(e)
           \/ TickRecv \/ CleanupLock \/ Sweep \/ Receive \/ Lock \/ Unlock
           \/ Notify \/ \E outcome \in InsertOutcomes : Insert(outcome)
           \/ UNCHANGED vars
  <2>1. UNCHANGED <<now, cfg, history>>
    BY <1>6 DEF Produce, TickRecv, CleanupLock, Sweep, Receive, Lock, Unlock, Notify,
       Insert, vars, counts
  <2>2. Alerts' = Alerts
    BY <1>6 DEF Produce, TickRecv, CleanupLock, Sweep, Receive, Lock, Unlock, Notify,
       Insert, vars, engine, outputs, Alerts
  <2> QED BY <2>1, <2>2, SilentStep DEF Silent, Remembered, Alarms
<1> QED BY <1>1, <1>2, <1>3, <1>4, <1>5, <1>6 DEF Next, EngineStep, Evaluate

(* With its window fixed below the retention, the brute force rule in the  *)
(* engine, under any interleaving with the cleanup, the clock and postings *)
(* of the threshold, implements the detector that prunes and cleans        *)
(* nothing (ssh.go:19-66, engine.go:96-116).                               *)
THEOREM DetectorImplemented ==
  ASSUME a \in Sources, OneWindow
  PROVE  Spec => BruteForceDetector
<1>1. Init => Counter!Init
  BY CounterInit
<1>2. TypeOK /\ CountsInv /\ [Next]_vars => [Counter!Next]_(Counter!vars)
  BY CounterNext
<1>3. Spec => Counter!Init /\ [][Counter!Next]_(Counter!vars)
  BY <1>1, <1>2, TypeCorrect, CountsCorrect, PTL DEF Spec
<1>4. BruteForceDetector <=> Counter!Init /\ [][Counter!Next]_(Counter!vars)
  BY DEF BruteForceDetector, Counter!Spec
<1> QED BY <1>3, <1>4
=============================================================================
