-------------------------- MODULE CorrelatorProofs --------------------------
(***************************************************************************)
(* Proofs about the correlation engine, for every set of sources, events   *)
(* and settings and every value of the windows, the retention and the      *)
(* bounds.                                                                 *)
(***************************************************************************)
EXTENDS Correlator, FiniteSetTheorems, TLAPS

(* TypeOK without the windows: what an evaluation that leaves the windows  *)
(* alone has to keep.                                                      *)
ControlOK ==
  /\ now \in Time
  /\ cfg \in Config
  /\ chan \in Seq(Item) /\ Len(chan) <= ChanCap
  /\ produced \in 0..MaxEvents
  /\ mu \in {"free", "engine", "cleanup"}
  /\ pc \in {"recv", "lock", "eval", "insert", "notify"}
  /\ ri \in 1..9
  /\ IF pc = "recv" THEN cur = None ELSE cur \in Item
  /\ raised \in SUBSET Alert
  /\ tick \in BOOLEAN
  /\ cl \in {"wait", "lock", "sweep"}
  /\ stored \in SUBSET Alert
  /\ notified \in SUBSET Alert
  /\ (mu = "engine") <=> (pc \in {"eval", "insert", "notify"})
  /\ (mu = "cleanup") <=> (cl = "sweep")
  /\ (raised # {}) <=> (pc \in {"insert", "notify"})
  /\ (pc \in {"insert", "notify"}) => ri \in 1..8

WindowsOK ==
  /\ windows \in [Windowed -> [Sources -> SUBSET Stamp]]
  /\ history \in [Windowed -> [Sources -> SUBSET Stamp]]

LEMMA TypeParts == TypeOK <=> ControlOK /\ WindowsOK
BY Zenon DEF TypeOK, ControlOK, WindowsOK

LEMMA TypePartsNext == TypeOK' <=> ControlOK' /\ WindowsOK'
BY Zenon DEF TypeOK, ControlOK, WindowsOK

-----------------------------------------------------------------------------
(* What a rule can rely on while it is evaluated. *)

LEMMA AtFacts ==
  ASSUME ControlOK, NEW rule, At(rule)
  PROVE  /\ pc = "eval" /\ ri \in 1..8
         /\ cur \in Item /\ CurStamp \in Stamp
         /\ src \in Sources \cup {Unknown}
         /\ src # Unknown => src \in Sources
<1>1. pc = "eval" /\ ri \in 1..8
  BY DEF At
<1>2. cur \in Item
  BY <1>1 DEF ControlOK
<1>3. CurStamp \in Stamp
  BY <1>2 DEF ControlOK, CurStamp, Stamp
<1>4. cur.event \in Event
  BY <1>2, EventsAssumption DEF Item
<1>5. src \in Sources \cup {Unknown}
  BY <1>4 DEF Event, src
<1> QED BY <1>1, <1>2, <1>3, <1>5

LEMMA PassControl ==
  ASSUME ControlOK, NEW rule, At(rule), Pass
  PROVE  ControlOK'
BY AtFacts DEF ControlOK, Pass, cleaner, outputs

LEMMA RaiseControl ==
  ASSUME ControlOK, NEW rule \in RuleNames, At(rule),
         NEW from \in Sources \cup {Unknown, "local"},
         NEW evidence \in SUBSET Stamp, Raise(rule, from, evidence)
  PROVE  ControlOK'
<1>1. {s.item : s \in evidence} \in SUBSET Item
  BY DEF Stamp
<1>2. [rule |-> rule, src |-> from, of |-> {s.item : s \in evidence}] \in Alert
  BY <1>1 DEF Alert
<1>3. raised' \in SUBSET Alert /\ raised' # {}
  BY <1>2 DEF Raise
<1>4. pc = "eval" /\ ri \in 1..8 /\ cur \in Item
  BY AtFacts
<1> QED BY <1>3, <1>4 DEF ControlOK, Raise, cleaner, outputs

LEMMA StoreType ==
  ASSUME NEW W, W \in [Windowed -> [Sources -> SUBSET Stamp]],
         NEW rule \in Windowed, NEW s \in Sources, NEW stamps \in SUBSET Stamp
  PROVE  /\ [W EXCEPT ![rule][s] = stamps] \in [Windowed -> [Sources -> SUBSET Stamp]]
         /\ [W EXCEPT ![rule][s] = stamps][rule][s] = stamps
         /\ \A r \in Windowed, t \in Sources :
              r # rule \/ t # s => [W EXCEPT ![rule][s] = stamps][r][t] = W[r][t]
OBVIOUS

LEMMA RecordedType ==
  ASSUME TypeOK, NEW rule \in Windowed, At(rule), src # Unknown
  PROVE  /\ windows[rule][src] \in SUBSET Stamp
         /\ history[rule][src] \in SUBSET Stamp
         /\ windows[rule][src] \cup {CurStamp} \in SUBSET Stamp
         /\ history[rule][src] \cup {CurStamp} \in SUBSET Stamp
<1>1. ControlOK /\ WindowsOK
  BY TypeParts
<1>2. src \in Sources /\ CurStamp \in Stamp
  BY <1>1, AtFacts
<1> QED BY <1>1, <1>2 DEF WindowsOK

LEMMA CountType ==
  ASSUME TypeOK, NEW rule \in Windowed, NEW relevant, NEW threshold, NEW window,
         Count(rule, relevant, threshold, window)
  PROVE  TypeOK'
<1> DEFINE seen == Since(windows[rule][src] \cup {CurStamp}, window)
<1>1. ControlOK /\ WindowsOK
  BY TypeParts
<1>2. At(rule) /\ rule \in RuleNames
  BY DEF Count, Windowed, RuleNames
<1>3. CASE (~relevant \/ src = Unknown) /\ Pass /\ UNCHANGED counts
  <2>1. ControlOK'
    BY <1>1, <1>2, <1>3, PassControl
  <2>2. WindowsOK'
    BY <1>1, <1>3 DEF WindowsOK, counts
  <2> QED BY <2>1, <2>2, TypePartsNext
<1>4. CASE /\ src # Unknown
           /\ Pass
           /\ Store(rule, seen)
           /\ Recall(rule, history[rule][src] \cup {CurStamp})
  <2>1. ControlOK'
    BY <1>1, <1>2, <1>4, PassControl
  <2>2. src \in Sources
    BY <1>1, <1>2, <1>4, AtFacts
  <2>3. seen \in SUBSET Stamp /\ history[rule][src] \cup {CurStamp} \in SUBSET Stamp
    BY <1>2, <1>4, RecordedType DEF Since
  <2>4. WindowsOK'
    BY <1>1, <1>4, <2>2, <2>3, StoreType DEF WindowsOK, Store, Recall
  <2> QED BY <2>1, <2>4, TypePartsNext
<1>5. CASE /\ src # Unknown
           /\ Raise(rule, src, seen)
           /\ Spend(rule)
  <2>1. src \in Sources
    BY <1>1, <1>2, <1>5, AtFacts
  <2>2. seen \in SUBSET Stamp
    BY <1>2, <1>5, RecordedType DEF Since
  <2>3. ControlOK'
    BY <1>1, <1>2, <1>5, <2>1, <2>2, RaiseControl
  <2>4. WindowsOK'
    BY <1>1, <1>5, <2>1, StoreType DEF WindowsOK, Spend, Store, Recall
  <2> QED BY <2>3, <2>4, TypePartsNext
<1> QED BY <1>3, <1>4, <1>5 DEF Count

LEMMA SuccessType ==
  ASSUME TypeOK, BruteForceSuccess
  PROVE  TypeOK'
<1> DEFINE rule == "ssh_bruteforce_success"
           failed == Since(windows[rule][src], SuccessWindow)
<1>1. ControlOK /\ WindowsOK
  BY TypeParts
<1>2. At(rule) /\ rule \in RuleNames /\ rule \in Windowed
  BY DEF BruteForceSuccess, Windowed, RuleNames
<1>3. CASE Pass /\ UNCHANGED counts
  <2>1. ControlOK'
    BY <1>1, <1>2, <1>3, PassControl
  <2>2. WindowsOK'
    BY <1>1, <1>3 DEF WindowsOK, counts
  <2> QED BY <2>1, <2>2, TypePartsNext
<1>4. CASE /\ src # Unknown
           /\ Pass
           /\ Store(rule, windows[rule][src] \cup {CurStamp})
           /\ Recall(rule, history[rule][src] \cup {CurStamp})
  <2>1. ControlOK'
    BY <1>1, <1>2, <1>4, PassControl
  <2>2. src \in Sources
    BY <1>1, <1>2, <1>4, AtFacts
  <2>3. /\ windows[rule][src] \cup {CurStamp} \in SUBSET Stamp
        /\ history[rule][src] \cup {CurStamp} \in SUBSET Stamp
    BY <1>2, <1>4, RecordedType
  <2>4. WindowsOK'
    BY <1>1, <1>2, <1>4, <2>2, <2>3, StoreType DEF WindowsOK, Store, Recall
  <2> QED BY <2>1, <2>4, TypePartsNext
<1>5. CASE /\ src # Unknown
           /\ Raise(rule, src, failed)
           /\ Spend(rule)
  <2>1. src \in Sources
    BY <1>1, <1>2, <1>5, AtFacts
  <2>2. failed \in SUBSET Stamp
    BY <1>2, <1>5, RecordedType DEF Since
  <2>3. ControlOK'
    BY <1>1, <1>2, <1>5, <2>1, <2>2, RaiseControl
  <2>4. WindowsOK'
    BY <1>1, <1>2, <1>5, <2>1, StoreType DEF WindowsOK, Spend, Store, Recall
  <2> QED BY <2>3, <2>4, TypePartsNext
<1> QED BY <1>3, <1>4, <1>5 DEF BruteForceSuccess

LEMMA StatelessType ==
  ASSUME TypeOK, NEW rule \in RuleNames, NEW fires,
         NEW from \in Sources \cup {Unknown, "local"},
         Stateless(rule, fires, from)
  PROVE  TypeOK'
<1>1. ControlOK /\ WindowsOK
  BY TypeParts
<1>2. At(rule) /\ CurStamp \in Stamp
  BY <1>1, AtFacts DEF Stateless
<1>3. ControlOK'
  BY <1>1, <1>2, PassControl, RaiseControl DEF Stateless
<1>4. WindowsOK'
  BY <1>1 DEF WindowsOK, Stateless, counts
<1> QED BY <1>3, <1>4, TypePartsNext

LEMMA EvaluateType ==
  ASSUME TypeOK, Evaluate
  PROVE  TypeOK'
<1>1. \A rule \in RuleNames : At(rule) => src \in Sources \cup {Unknown, "local"}
  BY TypeParts, AtFacts
<1>2. "ssh_bruteforce" \in Windowed /\ "ssh_user_enumeration" \in Windowed
  BY DEF Windowed
<1>3. CASE Bruteforce
  BY <1>2, <1>3, CountType DEF Bruteforce
<1>4. CASE UserEnumeration
  BY <1>2, <1>4, CountType DEF UserEnumeration
<1>5. CASE BruteForceSuccess
  BY <1>5, SuccessType
<1>6. CASE SingleFailure
  BY <1>1, <1>6, StatelessType DEF SingleFailure, Stateless, RuleNames
<1>7. CASE RootLogin
  BY <1>1, <1>7, StatelessType DEF RootLogin, Stateless, RuleNames
<1>8. CASE InvalidUser
  BY <1>1, <1>8, StatelessType DEF InvalidUser, Stateless, RuleNames
<1>9. CASE ResourceViolation
  BY <1>9, StatelessType DEF ResourceViolation, RuleNames
<1>10. CASE UnauthorizedProcess
  BY <1>10, StatelessType DEF UnauthorizedProcess, RuleNames
<1> QED BY <1>3, <1>4, <1>5, <1>6, <1>7, <1>8, <1>9, <1>10 DEF Evaluate

LEMMA EngineType ==
  ASSUME TypeOK, EngineStep
  PROVE  TypeOK'
<1>1. ControlOK /\ WindowsOK
  BY TypeParts
<1>2. CASE Receive
  <2>1. Head(chan) \in Item /\ Tail(chan) \in Seq(Item) /\ Len(Tail(chan)) <= ChanCap
    BY <1>1, <1>2, BoundsAssumption DEF ControlOK, Receive
  <2>2. ControlOK'
    BY <1>1, <1>2, <2>1 DEF ControlOK, Receive, cleaner, outputs
  <2>3. WindowsOK'
    BY <1>1, <1>2 DEF WindowsOK, Receive, counts
  <2> QED BY <2>2, <2>3, TypePartsNext
<1>3. CASE Lock
  BY <1>1, <1>3, TypePartsNext DEF ControlOK, WindowsOK, Lock, cleaner, outputs, counts
<1>4. CASE Evaluate
  BY <1>4, EvaluateType
<1>5. ASSUME NEW outcome \in InsertOutcomes, Insert(outcome)
      PROVE  TypeOK'
  BY <1>1, <1>5, TypePartsNext DEF ControlOK, WindowsOK, Insert, cleaner, counts
<1>6. CASE Notify
  BY <1>1, <1>6, TypePartsNext DEF ControlOK, WindowsOK, Notify, cleaner, counts
<1>7. CASE Unlock
  BY <1>1, <1>7, TypePartsNext
  DEF ControlOK, WindowsOK, Unlock, cleaner, outputs, counts
<1> QED BY <1>2, <1>3, <1>4, <1>5, <1>6, <1>7 DEF EngineStep

LEMMA EnvironmentType ==
  ASSUME TypeOK,
         \/ \E e \in Events : Produce(e)
         \/ Tick
         \/ \E c \in Configs : \E f \in DOMAIN c : CopyField(c, f)
         \/ TickRecv \/ CleanupLock \/ Sweep
  PROVE  TypeOK'
<1>1. ControlOK /\ WindowsOK
  BY TypeParts
<1>2. ASSUME NEW e \in Events, Produce(e)
      PROVE  TypeOK'
  <2> DEFINE item == [event |-> e, n |-> produced + 1,
                      sent |-> IF Timestamped THEN now ELSE 0]
  <2>1. item \in Item
    BY <1>1, <1>2, BoundsAssumption DEF ControlOK, Produce, Item, Time
  <2>2. chan' \in Seq(Item) /\ Len(chan') <= ChanCap
    BY <1>1, <1>2, <2>1, BoundsAssumption DEF ControlOK, Produce
  <2>3. ControlOK'
    BY <1>1, <1>2, <2>2, BoundsAssumption
    DEF ControlOK, Produce, engine, cleaner, outputs
  <2>4. WindowsOK'
    BY <1>1, <1>2 DEF WindowsOK, Produce, counts
  <2> QED BY <2>3, <2>4, TypePartsNext
<1>3. CASE Tick
  BY <1>1, <1>3, BoundsAssumption, TypePartsNext
  DEF ControlOK, WindowsOK, Tick, Time, engine, outputs, counts
<1>4. ASSUME NEW c \in Configs, NEW f \in DOMAIN c, CopyField(c, f)
      PROVE  TypeOK'
  <2>1. cfg' \in Config
    BY <1>1, <1>4, ConfigsAssumption DEF ControlOK, CopyField, Config
  <2> QED BY <1>1, <1>4, <2>1, TypePartsNext
          DEF ControlOK, WindowsOK, CopyField, engine, cleaner, outputs, counts
<1>5. CASE TickRecv
  BY <1>1, <1>5, TypePartsNext
  DEF ControlOK, WindowsOK, TickRecv, engine, outputs, counts
<1>6. CASE CleanupLock
  BY <1>1, <1>6, TypePartsNext
  DEF ControlOK, WindowsOK, CleanupLock, engine, outputs, counts
<1>7. CASE Sweep
  BY <1>1, <1>7, TypePartsNext
  DEF ControlOK, WindowsOK, Sweep, Young, engine, outputs
<1> QED BY <1>2, <1>3, <1>4, <1>5, <1>6, <1>7

LEMMA StutterType == TypeOK /\ UNCHANGED vars => TypeOK'
<1> SUFFICES ASSUME TypeOK, UNCHANGED vars PROVE TypeOK'
  OBVIOUS
<1>1. ControlOK /\ WindowsOK
  BY TypeParts
<1>2. ControlOK'
  BY <1>1 DEF ControlOK, vars, engine, cleaner, outputs
<1>3. WindowsOK'
  BY <1>1 DEF WindowsOK, vars
<1> QED BY <1>2, <1>3, TypePartsNext

LEMMA InitType == Init => TypeOK
<1> SUFFICES ASSUME Init PROVE TypeOK
  OBVIOUS
<1>1. ControlOK
  <2>1. chan \in Seq(Item) /\ Len(chan) <= ChanCap
    BY BoundsAssumption DEF Init
  <2>2. now \in Time /\ produced \in 0..MaxEvents /\ cfg \in Config
    BY ConfigsAssumption, BoundsAssumption DEF Init, Time
  <2>3. raised \in SUBSET Alert /\ stored \in SUBSET Alert /\ notified \in SUBSET Alert
    BY DEF Init
  <2>4. raised = {} /\ pc = "recv" /\ mu = "free" /\ cl = "wait" /\ tick = FALSE
    BY DEF Init
  <2>5. cur = None /\ ri \in 1..9
    BY DEF Init
  <2> QED BY <2>1, <2>2, <2>3, <2>4, <2>5 DEF ControlOK
<1>2. WindowsOK
  BY DEF Init, WindowsOK
<1> QED BY <1>1, <1>2, TypeParts

LEMMA NextType == TypeOK /\ [Next]_vars => TypeOK'
BY EngineType, EnvironmentType, StutterType DEF Next

(* The engine's state keeps its type, and the mutex, the main loop, the    *)
(* pending alert and the cleanup goroutine agree (engine.go:60-92, 97-99). *)
THEOREM TypeCorrect == Spec => []TypeOK
BY InitType, NextType, PTL DEF Spec

-----------------------------------------------------------------------------
(* The windows against the unpruned history of attempts. *)

(* The brute force window in force is one that was posted, even when the   *)
(* settings are a mixture of several posts.                                *)
PostedWindow == \E c \in Configs : cfg.bfWindow = c.bfWindow

FiniteHistory ==
  \A r \in Windowed, s \in Sources : IsFiniteSet(history[r][s])

(* The inductive invariant of the windows.  NeverOvercounts needs nothing  *)
(* but the types; NeverUndercounts needs PostedWindow, because the window  *)
(* that prunes has to be one of those MustKeep ranges over.                *)
CountsInv ==
  /\ PostedWindow
  /\ FiniteHistory
  /\ NeverOvercounts
  /\ NeverUndercounts

LEMMA PostedWindowLength ==
  ASSUME PostedWindow
  PROVE  \E c \in Configs : BFWindow(cfg) = BFWindow(c)
BY DEF PostedWindow, BFWindow

(* A step that touches neither the windows nor what MustKeep depends on.   *)
LEMMA CountsUnchanged ==
  ASSUME CountsInv, UNCHANGED <<windows, history, now, cfg>>
  PROVE  CountsInv'
BY DEF CountsInv, PostedWindow, FiniteHistory, NeverOvercounts,
       NeverUndercounts, MustKeep, BFWindow

(* An attempt is remembered in a window that was pruned to `kept', which   *)
(* loses nothing that has to be kept.                                      *)
LEMMA CountsStored ==
  ASSUME TypeOK, CountsInv, NEW rule \in Windowed, At(rule), src # Unknown,
         NEW kept \in SUBSET (windows[rule][src] \cup {CurStamp}),
         \A st \in windows[rule][src] \cup {CurStamp} :
           MustKeep(rule, st) => st \in kept,
         Store(rule, kept),
         Recall(rule, history[rule][src] \cup {CurStamp}),
         UNCHANGED <<now, cfg>>
  PROVE  CountsInv'
<1>1. WindowsOK /\ src \in Sources
  BY TypeParts, AtFacts
<1>2. kept \in SUBSET Stamp /\ history[rule][src] \cup {CurStamp} \in SUBSET Stamp
  BY RecordedType
<1>3. /\ windows'[rule][src] = kept
      /\ history'[rule][src] = history[rule][src] \cup {CurStamp}
      /\ \A r \in Windowed, s \in Sources :
           r # rule \/ s # src => /\ windows'[r][s] = windows[r][s]
                                  /\ history'[r][s] = history[r][s]
  BY <1>1, <1>2, StoreType DEF WindowsOK, Store, Recall
<1>4. PostedWindow'
  BY DEF CountsInv, PostedWindow
<1>5. FiniteHistory'
  <2>1. IsFiniteSet(history[rule][src] \cup {CurStamp})
    BY <1>1, FS_AddElement DEF CountsInv, FiniteHistory
  <2>2. ASSUME NEW r \in Windowed, NEW s \in Sources
        PROVE  IsFiniteSet(history'[r][s])
    <3>1. CASE r = rule /\ s = src
      BY <1>3, <2>1, <3>1
    <3>2. CASE r # rule \/ s # src
      BY <1>3, <3>2 DEF CountsInv, FiniteHistory
    <3> QED BY <3>1, <3>2
  <2> QED BY <2>2 DEF FiniteHistory
<1>6. NeverOvercounts'
  BY <1>1, <1>3 DEF CountsInv, NeverOvercounts
<1>7. ASSUME NEW r \in Windowed, NEW s \in Sources,
             NEW st \in history'[r][s], MustKeep(r, st)'
      PROVE  st \in windows'[r][s]
  <2>1. MustKeep(r, st)
    BY <1>7 DEF MustKeep, BFWindow
  <2>2. CASE r = rule /\ s = src
    BY <1>1, <1>3, <2>1, <2>2, <1>7 DEF CountsInv, NeverUndercounts
  <2>3. CASE r # rule \/ s # src
    BY <1>3, <1>7, <2>1, <2>3 DEF CountsInv, NeverUndercounts
  <2> QED BY <2>2, <2>3
<1>8. NeverUndercounts'
  BY <1>7 DEF NeverUndercounts
<1> QED BY <1>4, <1>5, <1>6, <1>8 DEF CountsInv

LEMMA CountsSpent ==
  ASSUME TypeOK, CountsInv, NEW rule \in Windowed, At(rule), src # Unknown,
         Spend(rule), UNCHANGED <<now, cfg>>
  PROVE  CountsInv'
<1>1. WindowsOK /\ src \in Sources
  BY TypeParts, AtFacts
<1>2. /\ windows'[rule][src] = {} /\ history'[rule][src] = {}
      /\ \A r \in Windowed, s \in Sources :
           r # rule \/ s # src => /\ windows'[r][s] = windows[r][s]
                                  /\ history'[r][s] = history[r][s]
  BY <1>1, StoreType DEF WindowsOK, Spend, Store, Recall
<1>3. PostedWindow'
  BY DEF CountsInv, PostedWindow
<1>4. FiniteHistory'
  BY <1>1, <1>2, FS_EmptySet DEF CountsInv, FiniteHistory
<1>5. NeverOvercounts'
  BY <1>1, <1>2 DEF CountsInv, NeverOvercounts
<1>6. NeverUndercounts'
  BY <1>1, <1>2 DEF CountsInv, NeverUndercounts, MustKeep, BFWindow
<1> QED BY <1>3, <1>4, <1>5, <1>6 DEF CountsInv

(* Pruning to a window that every attempt to keep lies in loses none.      *)
LEMMA CountCounts ==
  ASSUME TypeOK, CountsInv, NEW rule \in Windowed, NEW relevant, NEW threshold,
         NEW window \in Nat, Count(rule, relevant, threshold, window),
         \A st : MustKeep(rule, st) => st.ts >= now - window
  PROVE  CountsInv'
<1> DEFINE seen == Since(windows[rule][src] \cup {CurStamp}, window)
<1>1. At(rule)
  BY DEF Count
<1>2. CASE Pass /\ UNCHANGED counts
  BY <1>2, CountsUnchanged DEF Pass, counts
<1>3. CASE /\ src # Unknown
           /\ Pass
           /\ Store(rule, seen)
           /\ Recall(rule, history[rule][src] \cup {CurStamp})
  <2>1. seen \in SUBSET (windows[rule][src] \cup {CurStamp})
    BY DEF Since
  <2>2. \A st \in windows[rule][src] \cup {CurStamp} :
          MustKeep(rule, st) => st \in seen
    BY DEF Since
  <2> QED BY <1>1, <1>3, <2>1, <2>2, CountsStored DEF Pass
<1>4. CASE /\ src # Unknown
           /\ Raise(rule, src, seen)
           /\ Spend(rule)
  BY <1>1, <1>4, CountsSpent DEF Raise
<1> QED BY <1>2, <1>3, <1>4 DEF Count

LEMMA BruteforceCounts ==
  ASSUME TypeOK, CountsInv, Bruteforce
  PROVE  CountsInv'
<1>1. BFWindow(cfg) \in Nat
  BY TypeParts, DefaultsAssumption DEF ControlOK, Config, BFWindow
<1>2. PICK c \in Configs : BFWindow(cfg) = BFWindow(c)
  BY PostedWindowLength DEF CountsInv
<1>3. \A st : MustKeep("ssh_bruteforce", st) => st.ts >= now - BFWindow(cfg)
  BY <1>2 DEF MustKeep
<1> QED BY <1>1, <1>3, CountCounts DEF Bruteforce, Windowed

LEMMA UserEnumerationCounts ==
  ASSUME TypeOK, CountsInv, UserEnumeration
  PROVE  CountsInv'
<1>1. \A st : MustKeep("ssh_user_enumeration", st) => st.ts >= now - EnumWindow
  BY DEF MustKeep
<1> QED BY <1>1, TimesAssumption, CountCounts DEF UserEnumeration, Windowed

LEMMA SuccessCounts ==
  ASSUME TypeOK, CountsInv, BruteForceSuccess
  PROVE  CountsInv'
<1> DEFINE rule == "ssh_bruteforce_success"
           failed == Since(windows[rule][src], SuccessWindow)
<1>1. At(rule) /\ rule \in Windowed
  BY DEF BruteForceSuccess, Windowed
<1>2. CASE Pass /\ UNCHANGED counts
  BY <1>2, CountsUnchanged DEF Pass, counts
<1>3. CASE /\ src # Unknown
           /\ Pass
           /\ Store(rule, windows[rule][src] \cup {CurStamp})
           /\ Recall(rule, history[rule][src] \cup {CurStamp})
  BY <1>1, <1>3, CountsStored DEF Pass
<1>4. CASE /\ src # Unknown
           /\ Raise(rule, src, failed)
           /\ Spend(rule)
  BY <1>1, <1>4, CountsSpent DEF Raise
<1> QED BY <1>2, <1>3, <1>4 DEF BruteForceSuccess

LEMMA TickCounts ==
  ASSUME TypeOK, CountsInv, Tick
  PROVE  CountsInv'
<1>1. now \in Nat /\ now' = now + 1
  BY TypeParts DEF ControlOK, Time, Tick
<1>2. ASSUME NEW r \in Windowed, NEW s \in Sources,
             NEW st \in history[r][s], MustKeep(r, st)'
      PROVE  MustKeep(r, st)
  <2>1. st.ts \in Int
    BY <1>2, TypeParts DEF WindowsOK, Stamp, Time
  <2>2. ASSUME NEW c \in Configs PROVE BFWindow(c) \in Int
    BY <2>2, ConfigsAssumption, DefaultsAssumption DEF BFWindow, Config
  <2>3. st.ts > now' - Retention => st.ts > now - Retention
    BY <1>1, <2>1, TimesAssumption
  <2>4. ASSUME NEW c \in Configs, st.ts >= now' - BFWindow(c)
        PROVE  st.ts >= now - BFWindow(c)
    BY <1>1, <2>1, <2>2, <2>4
  <2>5. st.ts >= now' - EnumWindow => st.ts >= now - EnumWindow
    BY <1>1, <2>1, TimesAssumption
  <2> QED BY <1>2, <2>3, <2>4, <2>5 DEF MustKeep, BFWindow
<1>3. UNCHANGED <<windows, history, cfg>>
  BY DEF Tick, counts
<1>4. NeverUndercounts'
  BY <1>2, <1>3 DEF CountsInv, NeverUndercounts
<1> QED BY <1>3, <1>4 DEF CountsInv, PostedWindow, FiniteHistory, NeverOvercounts

LEMMA CopyFieldCounts ==
  ASSUME TypeOK, CountsInv, NEW c \in Configs, NEW f \in DOMAIN c, CopyField(c, f)
  PROVE  CountsInv'
<1>1. cfg \in Config /\ c \in Config
  BY TypeParts, ConfigsAssumption DEF ControlOK
<1>2. PostedWindow'
  BY <1>1 DEF CountsInv, PostedWindow, CopyField, Config
<1>3. UNCHANGED <<windows, history, now>>
  BY DEF CopyField, counts
<1> QED BY <1>2, <1>3 DEF CountsInv, FiniteHistory, NeverOvercounts,
                          NeverUndercounts, MustKeep, BFWindow

LEMMA SweepCounts ==
  ASSUME TypeOK, CountsInv, Sweep
  PROVE  CountsInv'
<1>1. UNCHANGED <<now, cfg, history>>
  BY DEF Sweep
<1>2. \A r \in Windowed, s \in Sources : windows'[r][s] = Young(windows[r][s])
  BY DEF Sweep
<1>3. NeverOvercounts'
  BY <1>1, <1>2 DEF CountsInv, NeverOvercounts, Young
<1>4. NeverUndercounts'
  BY <1>1, <1>2 DEF CountsInv, NeverUndercounts, MustKeep, Young, BFWindow
<1> QED BY <1>1, <1>3, <1>4 DEF CountsInv, PostedWindow, FiniteHistory

LEMMA InitCounts == Init => CountsInv
BY FS_EmptySet DEF Init, CountsInv, PostedWindow, FiniteHistory, NeverOvercounts,
   NeverUndercounts

LEMMA NextCounts == TypeOK /\ CountsInv /\ [Next]_vars => CountsInv'
<1> SUFFICES ASSUME TypeOK, CountsInv, [Next]_vars PROVE CountsInv'
  OBVIOUS
<1>1. CASE \/ \E e \in Events : Produce(e)
           \/ TickRecv \/ CleanupLock
           \/ Receive \/ Lock \/ Notify \/ Unlock
           \/ \E outcome \in InsertOutcomes : Insert(outcome)
           \/ UNCHANGED vars
  <2>1. UNCHANGED <<windows, history, now, cfg>>
    BY <1>1 DEF Produce, TickRecv, CleanupLock, Receive, Lock, Notify, Unlock,
                Insert, vars, counts
  <2> QED BY <2>1, CountsUnchanged
<1>2. CASE SingleFailure \/ RootLogin \/ InvalidUser \/ ResourceViolation
           \/ UnauthorizedProcess
  <2>1. UNCHANGED <<windows, history, now, cfg>>
    BY <1>2 DEF SingleFailure, RootLogin, InvalidUser, ResourceViolation,
                UnauthorizedProcess, Stateless, Pass, Raise, counts
  <2> QED BY <2>1, CountsUnchanged
<1>3. CASE Bruteforce \/ UserEnumeration \/ BruteForceSuccess
  BY <1>3, BruteforceCounts, UserEnumerationCounts, SuccessCounts
<1>4. CASE Tick
  BY <1>4, TickCounts
<1>5. CASE \E c \in Configs : \E f \in DOMAIN c : CopyField(c, f)
  BY <1>5, CopyFieldCounts
<1>6. CASE Sweep
  BY <1>6, SweepCounts
<1> QED BY <1>1, <1>2, <1>3, <1>4, <1>5, <1>6 DEF Next, EngineStep, Evaluate

THEOREM CountsCorrect == Spec => []CountsInv
<1>1. Spec => []TypeOK
  BY TypeCorrect
<1> QED BY <1>1, InitCounts, NextCounts, PTL DEF Spec

(* No rule counts an attempt it did not see, or one it has reported        *)
(* (ssh.go:51, 124, 219).                                                  *)
THEOREM NoOvercount == Spec => []NeverOvercounts
<1>1. CountsInv => NeverOvercounts
  BY DEF CountsInv
<1> QED BY <1>1, CountsCorrect, PTL

(* No rule loses an unspent attempt that is inside the retention and       *)
(* inside every window an operator can post, whatever the cleanup, the     *)
(* clock and the settings do (ssh.go:39-48, 112-121, engine.go:100-115).   *)
THEOREM NoUndercount == Spec => []NeverUndercounts
<1>1. CountsInv => NeverUndercounts
  BY DEF CountsInv
<1> QED BY <1>1, CountsCorrect, PTL

-----------------------------------------------------------------------------
(* The critical alert. *)

(* What the success rule counts includes every failure it has to count.    *)
LEMMA SuccessWindowComplete ==
  ASSUME TypeOK, CountsInv, At("ssh_bruteforce_success"), src # Unknown,
         Cardinality(Young(Since(history["ssh_bruteforce_success"][src],
                                 SuccessWindow))) >= 2
  PROVE  EnoughFailures(Since(windows["ssh_bruteforce_success"][src], SuccessWindow))
<1> DEFINE rule == "ssh_bruteforce_success"
           due == Young(Since(history[rule][src], SuccessWindow))
           failed == Since(windows[rule][src], SuccessWindow)
<1>1. src \in Sources /\ rule \in Windowed
  BY TypeParts, AtFacts DEF Windowed
<1>2. IsFiniteSet(failed)
  BY <1>1, FS_Subset DEF CountsInv, FiniteHistory, NeverOvercounts, Since
<1>3. due \subseteq failed
  BY <1>1 DEF CountsInv, NeverUndercounts, MustKeep, Young, Since
<1>4. Cardinality(due) <= Cardinality(failed) /\ IsFiniteSet(due)
  BY <1>2, <1>3, FS_Subset
<1>5. Cardinality(due) \in Nat /\ Cardinality(failed) \in Nat
  BY <1>2, <1>4, FS_CardinalityType
<1>6. Cardinality(failed) >= 2
  BY <1>4, <1>5
<1> QED BY <1>6 DEF EnoughFailures

(* While the success rule is due, only its own evaluation moves the engine. *)
LEMMA OnlySuccessRule ==
  ASSUME TypeOK, At("ssh_bruteforce_success"), Next, <<pc, ri>>' # <<pc, ri>>
  PROVE  BruteForceSuccess
<1>1. pc = "eval" /\ ri = 5
  BY DEF At, Rules
<1>2. ~UNCHANGED engine
  BY DEF engine
<1>3. EngineStep
  BY <1>2 DEF Next, Produce, Tick, CopyField, TickRecv, CleanupLock, Sweep
<1>4. Evaluate
  BY <1>1, <1>3 DEF EngineStep, Receive, Lock, Insert, Notify, Unlock
<1> QED BY <1>1, <1>4 DEF Evaluate, Bruteforce, UserEnumeration, SingleFailure,
           RootLogin, InvalidUser, ResourceViolation, UnauthorizedProcess, Count,
           Stateless, At, Rules

(* A watched login that succeeds after two unspent failures inside the     *)
(* success window and the retention raises the critical alert              *)
(* (ssh.go:204-229), at every value of the windows and the retention.      *)
THEOREM SuccessAlwaysCaught == Spec => SuccessCaught
<1> DEFINE due == /\ At("ssh_bruteforce_success") /\ <<pc, ri>>' # <<pc, ri>>
                  /\ cfg.successAlert /\ src # Unknown /\ kind = "success"
                  /\ Cardinality(Young(Since(history["ssh_bruteforce_success"][src],
                                             SuccessWindow))) >= 2
<1>1. ASSUME TypeOK, CountsInv, [Next]_vars
      PROVE  [due => raised' # {}]_vars
  <2> SUFFICES ASSUME due, Next PROVE raised' # {}
    BY <1>1
  <2>1. EnoughFailures(Since(windows["ssh_bruteforce_success"][src], SuccessWindow))
    BY <1>1, SuccessWindowComplete
  <2>2. BruteForceSuccess
    BY <1>1, OnlySuccessRule
  <2> QED BY <2>1, <2>2 DEF BruteForceSuccess, Raise
<1>2. Spec => []TypeOK
  BY TypeCorrect
<1>3. Spec => []CountsInv
  BY CountsCorrect
<1>4. [][due => raised' # {}]_vars <=> SuccessCaught
  BY DEF SuccessCaught
<1> QED BY <1>1, <1>2, <1>3, <1>4, PTL DEF Spec

-----------------------------------------------------------------------------
(* An attempt is reported at most once. *)

(* Where the rules that count stand in Rules. *)
Place == [ssh_bruteforce |-> 1, ssh_user_enumeration |-> 3,
          ssh_bruteforce_success |-> 5]

(* Rule r has yet to evaluate the event that the engine works on. *)
Awaited(r) ==
  /\ pc # "recv"
  /\ \/ pc = "lock" \/ ri < Place[r]
     \/ ri = Place[r] /\ pc = "eval"

(* Rule r is done with the item: it was sent before everything that the    *)
(* rule has yet to evaluate.                                               *)
Past(item, r) ==
  /\ item.n <= produced
  /\ \A i \in 1..Len(chan) : item.n < chan[i].n
  /\ Awaited(r) => item.n < cur.n

(* Events are received in the order in which they were sent. *)
OrderInv ==
  /\ \A i \in 1..Len(chan) : chan[i].n <= produced
  /\ \A i, j \in 1..Len(chan) : i < j => chan[i].n < chan[j].n
  /\ pc # "recv" => /\ cur.n <= produced
                    /\ \A i \in 1..Len(chan) : cur.n < chan[i].n

(* What a rule remembers of a source, it has evaluated. *)
RememberedOnce ==
  \A r \in Windowed, s \in Sources : \A st \in history[r][s] :
    Past(st.item, r) /\ st.item.event.src = s

(* What an alert of a counting rule reports, the rule has evaluated and    *)
(* forgotten.                                                              *)
ReportedOnce ==
  \A a \in Alerts : a.rule \in Windowed =>
    \A item \in a.of :
      /\ Past(item, a.rule)
      /\ \A s \in Sources : \A st \in history[a.rule][s] : st.item # item

(* The inductive invariant: SpentOnce alone does not exclude that a rule   *)
(* still holds, or is about to be handed, an attempt it has reported.      *)
SpentInv == OrderInv /\ RememberedOnce /\ ReportedOnce /\ SpentOnce

(* Items keep the order they were sent in, and a rule that is done with    *)
(* one stays so.                                                           *)
Settled == \A r \in Windowed : \A item \in Item : Past(item, r) => Past(item, r)'

LEMMA PlaceOf ==
  ASSUME NEW rule \in Windowed
  PROVE  /\ Place[rule] \in 1..8
         /\ At(rule) => ri = Place[rule]
BY DEF At, Rules, Windowed, Place

LEMMA ProduceSettled ==
  ASSUME TypeOK, OrderInv, NEW e \in Events, Produce(e)
  PROVE  OrderInv' /\ Settled
<1>1. chan \in Seq(Item) /\ produced \in Nat /\ Len(chan) \in Nat
  BY TypeParts DEF ControlOK
<1>2. pc # "recv" => cur.n \in Nat
  BY TypeParts DEF ControlOK, Item
<1>3. /\ Len(chan') = Len(chan) + 1 /\ chan'[Len(chan) + 1].n = produced + 1
      /\ \A i \in 1..Len(chan) : chan'[i] = chan[i]
      /\ \A i \in 1..Len(chan) : chan[i].n \in Nat
  <2> DEFINE sent == [event |-> e, n |-> produced + 1,
                      sent |-> IF Timestamped THEN now ELSE 0]
  <2>1. sent.n = produced + 1 /\ chan' = Append(chan, sent)
    BY DEF Produce
  <2>2. \A i \in 1..Len(chan) : chan[i] \in Item /\ chan[i].n \in Nat
    <3>1. \A i \in 1..Len(chan) : chan[i] \in Item
      BY <1>1
    <3>2. \A item \in Item : item.n \in Nat
      BY BoundsAssumption DEF Item
    <3> QED BY <3>1, <3>2
  <2>3. sent \in Item
    <3>1. now \in Time /\ 0 \in Time /\ produced + 1 \in 1..MaxEvents
      BY <1>1, TypeParts, BoundsAssumption DEF Produce, ControlOK, Time
    <3> QED BY <3>1 DEF Item
  <2> HIDE DEF sent
  <2>4. Len(chan') = Len(chan) + 1 /\ chan'[Len(chan) + 1] = sent
    BY <1>1, <2>1, <2>3
  <2>5. \A i \in 1..Len(chan) : chan'[i] = chan[i]
    BY <1>1, <2>1, <2>3
  <2> QED BY <2>1, <2>2, <2>4, <2>5
<1>4. UNCHANGED <<pc, ri, cur>> /\ produced' = produced + 1
  BY DEF Produce, engine
<1>5. OrderInv'
  <2>1. \A i \in 1..Len(chan') : chan'[i].n <= produced'
    BY <1>1, <1>3, <1>4 DEF OrderInv
  <2>2. \A i, j \in 1..Len(chan') : i < j => chan'[i].n < chan'[j].n
    BY <1>1, <1>3 DEF OrderInv
  <2>3. pc' # "recv" => /\ cur'.n <= produced'
                        /\ \A i \in 1..Len(chan') : cur'.n < chan'[i].n
    BY <1>1, <1>2, <1>3, <1>4 DEF OrderInv
  <2> QED BY <2>1, <2>2, <2>3 DEF OrderInv
<1>6. ASSUME NEW r \in Windowed, NEW item \in Item, Past(item, r)
      PROVE  Past(item, r)'
  <2>1. item.n \in Nat
    BY DEF Item
  <2> QED BY <1>1, <1>2, <1>3, <1>4, <1>6, <2>1 DEF Past, Awaited
<1> QED BY <1>5, <1>6 DEF Settled

LEMMA ReceiveSettled ==
  ASSUME TypeOK, OrderInv, Receive
  PROVE  OrderInv' /\ Settled
<1>1. chan \in Seq(Item) /\ chan # << >> /\ Len(chan) \in Nat
  BY TypeParts DEF ControlOK, Receive
<1>2. /\ Len(chan) >= 1 /\ Len(chan') = Len(chan) - 1
      /\ \A i \in 1..Len(chan') : chan'[i] = chan[i + 1] /\ i + 1 \in 1..Len(chan)
      /\ cur' = chan[1]
  BY <1>1 DEF Receive
<1>3. produced' = produced
  BY DEF Receive
<1>4. OrderInv'
  <2>1. \A i \in 1..Len(chan') : 1 \in 1..Len(chan) /\ 1 < i + 1
    BY <1>1, <1>2
  <2>2. \A i, j \in 1..Len(chan') : i < j => i + 1 < j + 1
    BY <1>1
  <2>3. \A i \in 1..Len(chan') : chan'[i].n <= produced' /\ cur'.n < chan'[i].n
    BY <1>2, <1>3, <2>1 DEF OrderInv
  <2>4. \A i, j \in 1..Len(chan') : i < j => chan'[i].n < chan'[j].n
    BY <1>2, <2>2 DEF OrderInv
  <2>5. cur'.n <= produced'
    BY <1>1, <1>2, <1>3 DEF OrderInv
  <2> QED BY <2>3, <2>4, <2>5 DEF OrderInv
<1>5. ASSUME NEW r \in Windowed, NEW item \in Item, Past(item, r)
      PROVE  Past(item, r)'
  <2>1. \A i \in 1..Len(chan') : item.n < chan'[i].n
    BY <1>2, <1>5 DEF Past
  <2>2. item.n < cur'.n
    BY <1>1, <1>2, <1>5 DEF Past
  <2> QED BY <1>3, <1>5, <2>1, <2>2 DEF Past
<1> QED BY <1>4, <1>5 DEF Settled

(* A step that sends and receives nothing, and hands no rule an event it   *)
(* has evaluated.                                                          *)
LEMMA StepSettled ==
  ASSUME OrderInv, UNCHANGED <<chan, produced>>,
         pc' # "recv" => cur' = cur /\ pc # "recv",
         \A r \in Windowed : Awaited(r)' => Awaited(r)
  PROVE  OrderInv' /\ Settled
<1>1. OrderInv'
  BY DEF OrderInv
<1>2. ASSUME NEW r \in Windowed, NEW item \in Item, Past(item, r)
      PROVE  Past(item, r)'
  <2>1. Awaited(r)' => Awaited(r) /\ cur' = cur
    BY DEF Awaited
  <2> QED BY <1>2, <2>1 DEF Past
<1> QED BY <1>1, <1>2 DEF Settled

LEMMA NextSettled ==
  ASSUME TypeOK, OrderInv, [Next]_vars
  PROVE  OrderInv' /\ Settled
<1>1. /\ ri \in 1..9
      /\ \A r \in Windowed : Place[r] \in 1..8
  BY TypeParts, PlaceOf DEF ControlOK
<1>2. CASE \E e \in Events : Produce(e)
  BY <1>2, ProduceSettled
<1>3. CASE Receive
  BY <1>3, ReceiveSettled
<1>4. CASE \/ Tick \/ TickRecv \/ CleanupLock \/ Sweep \/ UNCHANGED vars
           \/ \E c \in Configs : \E f \in DOMAIN c : CopyField(c, f)
  <2>1. UNCHANGED <<chan, produced, pc, ri, cur>>
    BY <1>4 DEF Tick, TickRecv, CleanupLock, Sweep, CopyField, vars, engine
  <2> QED BY <2>1, StepSettled DEF Awaited
<1>5. CASE Lock \/ Notify \/ Unlock \/ \E outcome \in InsertOutcomes : Insert(outcome)
  <2>1. /\ UNCHANGED <<chan, produced>>
        /\ pc' # "recv" => cur' = cur /\ pc # "recv"
    BY <1>5 DEF Lock, Notify, Unlock, Insert
  <2>2. \A r \in Windowed : Awaited(r)' => Awaited(r)
    BY <1>1, <1>5 DEF Lock, Notify, Unlock, Insert, Awaited
  <2> QED BY <2>1, <2>2, StepSettled
<1>6. CASE Evaluate
  <2>1. pc = "eval" /\ UNCHANGED <<chan, produced, cur>>
    BY <1>6 DEF Evaluate, Bruteforce, UserEnumeration, BruteForceSuccess,
       SingleFailure, RootLogin, InvalidUser, ResourceViolation,
       UnauthorizedProcess, Count, Stateless, At, Pass, Raise
  <2>2. (pc' = pc /\ ri' = ri + 1) \/ (pc' = "insert" /\ ri' = ri)
    BY <1>6 DEF Evaluate, Bruteforce, UserEnumeration, BruteForceSuccess,
       SingleFailure, RootLogin, InvalidUser, ResourceViolation,
       UnauthorizedProcess, Count, Stateless, Pass, Raise
  <2>3. \A r \in Windowed : Awaited(r)' => Awaited(r)
    BY <1>1, <2>1, <2>2 DEF Awaited
  <2> QED BY <2>1, <2>2, <2>3, StepSettled
<1> QED BY <1>2, <1>3, <1>4, <1>5, <1>6 DEF Next, EngineStep

LEMMA AlertItems ==
  ASSUME TypeOK
  PROVE  /\ \A a \in Alerts : a.of \subseteq Item
         /\ \A r \in Windowed, s \in Sources :
              \A st \in history[r][s] : st.item \in Item
<1>1. ControlOK /\ WindowsOK
  BY TypeParts
<1>2. Alerts \subseteq Alert
  BY <1>1 DEF ControlOK, Alerts
<1>3. \A a \in Alert : a.of \subseteq Item
  BY DEF Alert
<1>4. \A st \in Stamp : st.item \in Item
  BY DEF Stamp
<1>5. \A r \in Windowed, s \in Sources : history[r][s] \subseteq Stamp
  BY <1>1 DEF WindowsOK
<1> QED BY <1>2, <1>3, <1>4, <1>5

(* A step that neither counts an attempt nor raises an alert for some.     *)
LEMMA SpentKept ==
  ASSUME TypeOK, SpentInv, OrderInv', Settled, UNCHANGED history,
         \A a \in Alerts' : a \in Alerts \/ a.rule \notin Windowed
  PROVE  SpentInv'
<1>1. RememberedOnce'
  <2> SUFFICES ASSUME NEW r \in Windowed, NEW s \in Sources,
                      NEW st \in history[r][s]
               PROVE  Past(st.item, r)' /\ st.item.event.src = s
    BY DEF RememberedOnce
  <2> QED BY AlertItems DEF SpentInv, RememberedOnce, Settled
<1>2. ReportedOnce'
  <2> SUFFICES ASSUME NEW a \in Alerts', a.rule \in Windowed, NEW item \in a.of
               PROVE  /\ Past(item, a.rule)'
                      /\ \A s \in Sources : \A st \in history[a.rule][s] :
                           st.item # item
    BY DEF ReportedOnce
  <2>1. a \in Alerts
    OBVIOUS
  <2>2. item \in Item /\ Past(item, a.rule)
    BY <2>1, AlertItems DEF SpentInv, ReportedOnce
  <2>3. Past(item, a.rule)'
    BY <2>2 DEF Settled
  <2>4. \A s \in Sources : \A st \in history[a.rule][s] : st.item # item
    BY <2>1 DEF SpentInv, ReportedOnce
  <2> QED BY <2>3, <2>4
<1>3. SpentOnce'
  BY DEF SpentInv, SpentOnce
<1> QED BY <1>1, <1>2, <1>3 DEF SpentInv

LEMMA HistoryAt ==
  ASSUME WindowsOK, NEW rule \in Windowed, src \in Sources, NEW stamps \in SUBSET Stamp,
         Recall(rule, stamps)
  PROVE  /\ history'[rule][src] = stamps
         /\ \A r \in Windowed, s \in Sources :
              r # rule \/ s # src => history'[r][s] = history[r][s]
BY DEF WindowsOK, Recall

(* A rule counts the attempt it is handed.                                 *)
LEMMA SpentCounted ==
  ASSUME TypeOK, SpentInv, OrderInv', Settled, NEW rule \in Windowed, At(rule),
         src # Unknown, Pass, Recall(rule, history[rule][src] \cup {CurStamp})
  PROVE  SpentInv'
<1>1. /\ src \in Sources /\ WindowsOK /\ cur \in Item
      /\ history[rule][src] \cup {CurStamp} \in SUBSET Stamp
  BY TypeParts, AtFacts, RecordedType
<1>2. /\ history'[rule][src] = history[rule][src] \cup {CurStamp}
      /\ \A r \in Windowed, s \in Sources :
           r # rule \/ s # src => history'[r][s] = history[r][s]
  BY <1>1, HistoryAt
<1>3. Alerts' = Alerts
  BY DEF Alerts, Pass, outputs
<1>4. pc = "eval" /\ ri = Place[rule] /\ Place[rule] \in 1..8
  BY PlaceOf DEF At
<1>5. ASSUME NEW item, item = cur PROVE Past(item, rule)'
  <2>1. ~Awaited(rule)'
    BY <1>4 DEF Awaited, Pass
  <2>2. item.n <= produced' /\ \A i \in 1..Len(chan') : item.n < chan'[i].n
    BY <1>4, <1>5 DEF SpentInv, OrderInv, Pass
  <2> QED BY <2>1, <2>2 DEF Past
<1>6. CurStamp.item = cur /\ cur.event.src = src
  BY DEF CurStamp, src
<1>7. RememberedOnce'
  <2> SUFFICES ASSUME NEW r \in Windowed, NEW s \in Sources,
                      NEW st \in history'[r][s]
               PROVE  Past(st.item, r)' /\ st.item.event.src = s
    BY DEF RememberedOnce
  <2>1. CASE st \in history[r][s]
    BY <2>1, AlertItems DEF SpentInv, RememberedOnce, Settled
  <2>2. CASE st \notin history[r][s]
    <3>1. r = rule /\ s = src /\ st = CurStamp
      BY <1>2, <2>2
    <3>2. st.item = cur
      BY <3>1, <1>6
    <3> QED BY <3>1, <3>2, <1>5, <1>6
  <2> QED BY <2>1, <2>2
<1>8. ReportedOnce'
  <2> SUFFICES ASSUME NEW a \in Alerts, a.rule \in Windowed, NEW item \in a.of
               PROVE  /\ Past(item, a.rule)'
                      /\ \A s \in Sources : \A st \in history'[a.rule][s] :
                           st.item # item
    BY <1>3 DEF ReportedOnce
  <2>1. item \in Item /\ Past(item, a.rule)
    BY AlertItems DEF SpentInv, ReportedOnce
  <2>2. Past(item, a.rule)'
    BY <2>1 DEF Settled
  <2>3. a.rule = rule => item # cur
    <3>1. Awaited(rule)
      BY <1>4 DEF Awaited
    <3>2. cur.n \in Int
      BY <1>1, BoundsAssumption DEF Item
    <3> QED BY <2>1, <3>1, <3>2 DEF Past
  <2>4. ASSUME NEW s \in Sources, NEW st \in history'[a.rule][s] PROVE st.item # item
    <3>1. CASE st \in history[a.rule][s]
      BY <3>1 DEF SpentInv, ReportedOnce
    <3>2. CASE st \notin history[a.rule][s]
      <4>1. a.rule = rule /\ st = CurStamp
        BY <1>2, <2>4, <3>2
      <4> QED BY <1>6, <2>3, <4>1
    <3> QED BY <3>1, <3>2
  <2> QED BY <2>2, <2>4
<1>9. SpentOnce'
  BY <1>3 DEF SpentInv, SpentOnce
<1> QED BY <1>7, <1>8, <1>9 DEF SpentInv

(* A rule reports what it remembers of a source, perhaps with the attempt  *)
(* it is handed, and forgets it.                                           *)
LEMMA SpentReported ==
  ASSUME TypeOK, SpentInv, OrderInv', Settled, NEW rule \in Windowed, At(rule),
         src # Unknown, NEW seen \in SUBSET (history[rule][src] \cup {CurStamp}),
         Raise(rule, src, seen), Recall(rule, {})
  PROVE  SpentInv'
<1> DEFINE new == [rule |-> rule, src |-> src, of |-> {s.item : s \in seen}]
<1>1. /\ src \in Sources /\ WindowsOK /\ cur \in Item /\ raised = {}
  BY TypeParts, AtFacts DEF ControlOK
<1>2. /\ history'[rule][src] = {}
      /\ \A r \in Windowed, s \in Sources :
           r # rule \/ s # src => history'[r][s] = history[r][s]
  BY <1>1, HistoryAt
<1>3. Alerts' = Alerts \cup {new}
  BY <1>1 DEF Alerts, Raise, outputs
<1>4. pc = "eval" /\ ri = Place[rule] /\ Place[rule] \in 1..8 /\ Awaited(rule)
  BY PlaceOf DEF At, Awaited
<1>5. ASSUME NEW item, item = cur PROVE Past(item, rule)'
  <2>1. ~Awaited(rule)'
    BY <1>4 DEF Awaited, Raise
  <2>2. item.n <= produced' /\ \A i \in 1..Len(chan') : item.n < chan'[i].n
    BY <1>4, <1>5 DEF SpentInv, OrderInv, Raise
  <2> QED BY <2>1, <2>2 DEF Past
<1>6. ASSUME NEW item \in new.of
      PROVE  /\ Past(item, rule)' /\ item.event.src = src
             /\ \A a \in Alerts : a.rule = rule => item \notin a.of
  <2>1. PICK st \in seen : item = st.item
    OBVIOUS
  <2>2. CASE st \in history[rule][src]
    <3>1. item \in Item /\ Past(item, rule) /\ item.event.src = src
      BY <1>1, <2>1, <2>2, AlertItems DEF SpentInv, RememberedOnce
    <3>2. \A a \in Alerts : a.rule = rule => item \notin a.of
      BY <1>1, <2>1, <2>2 DEF SpentInv, ReportedOnce
    <3> QED BY <3>1, <3>2 DEF Settled
  <2>3. CASE st \notin history[rule][src]
    <3>1. item = cur /\ cur.event.src = src
      BY <2>1, <2>3 DEF CurStamp, src
    <3>2. cur.n \in Int
      BY <1>1, BoundsAssumption DEF Item
    <3>3. ~Past(cur, rule)
      BY <1>4, <3>2 DEF Past
    <3>4. \A a \in Alerts : a.rule = rule => cur \notin a.of
      BY <3>3 DEF SpentInv, ReportedOnce
    <3> QED BY <1>5, <3>1, <3>4
  <2> QED BY <2>2, <2>3
<1>7. RememberedOnce'
  <2> SUFFICES ASSUME NEW r \in Windowed, NEW s \in Sources,
                      NEW st \in history'[r][s]
               PROVE  Past(st.item, r)' /\ st.item.event.src = s
    BY DEF RememberedOnce
  <2>1. st \in history[r][s]
    BY <1>2
  <2> QED BY <2>1, AlertItems DEF SpentInv, RememberedOnce, Settled
<1>8. new.rule = rule
  OBVIOUS
<1> HIDE DEF new
<1>9. ReportedOnce'
  <2> SUFFICES ASSUME NEW a \in Alerts', a.rule \in Windowed, NEW item \in a.of
               PROVE  /\ Past(item, a.rule)'
                      /\ \A s \in Sources : \A st \in history'[a.rule][s] :
                           st.item # item
    BY DEF ReportedOnce
  <2>1. CASE a \in Alerts
    <3>1. item \in Item /\ Past(item, a.rule)
      BY <2>1, AlertItems DEF SpentInv, ReportedOnce
    <3>2. Past(item, a.rule)'
      BY <3>1 DEF Settled
    <3>3. \A s \in Sources : history'[a.rule][s] \subseteq history[a.rule][s]
      BY <1>2
    <3> QED BY <2>1, <3>2, <3>3 DEF SpentInv, ReportedOnce
  <2>2. CASE a = new
    <3>1. Past(item, rule)' /\ item.event.src = src
      BY <1>6, <2>2
    <3>2. ASSUME NEW s \in Sources, NEW st \in history'[rule][s] PROVE st.item # item
      <4>1. s # src /\ st \in history[rule][s]
        BY <1>2, <3>2
      <4>2. st.item.event.src = s
        BY <4>1 DEF SpentInv, RememberedOnce
      <4> QED BY <3>1, <4>1, <4>2
    <3> QED BY <1>8, <2>2, <3>1, <3>2
  <2> QED BY <1>3, <2>1, <2>2
<1>10. SpentOnce'
  <2> SUFFICES ASSUME NEW a \in Alerts', NEW b \in Alerts', a.rule = b.rule,
                      a.rule \in Windowed, a.of \cap b.of # {}
               PROVE  a = b
    BY DEF SpentOnce
  <2>1. CASE a \in Alerts /\ b \in Alerts
    BY <2>1 DEF SpentInv, SpentOnce
  <2>2. CASE a = new /\ b \in Alerts
    BY <1>6, <1>8, <2>2
  <2>3. CASE b = new /\ a \in Alerts
    BY <1>6, <1>8, <2>3
  <2> QED BY <1>3, <2>1, <2>2, <2>3
<1> QED BY <1>7, <1>9, <1>10 DEF SpentInv

LEMMA CountSpent ==
  ASSUME TypeOK, CountsInv, SpentInv, OrderInv', Settled, NEW rule \in Windowed,
         NEW relevant, NEW threshold, NEW window,
         Count(rule, relevant, threshold, window)
  PROVE  SpentInv'
<1> DEFINE seen == Since(windows[rule][src] \cup {CurStamp}, window)
<1>1. At(rule)
  BY DEF Count
<1>2. CASE Pass /\ UNCHANGED counts
  BY <1>2, SpentKept DEF Pass, counts, Alerts, outputs
<1>3. CASE /\ src # Unknown /\ Pass
           /\ Recall(rule, history[rule][src] \cup {CurStamp})
  BY <1>1, <1>3, SpentCounted
<1>4. CASE src # Unknown /\ Raise(rule, src, seen) /\ Spend(rule)
  <2>1. src \in Sources
    BY <1>1, <1>4, TypeParts, AtFacts
  <2>2. seen \in SUBSET (history[rule][src] \cup {CurStamp})
    BY <2>1 DEF Since, CountsInv, NeverOvercounts
  <2> QED BY <1>1, <1>4, <2>2, SpentReported DEF Spend
<1> QED BY <1>2, <1>3, <1>4 DEF Count

LEMMA SuccessSpent ==
  ASSUME TypeOK, CountsInv, SpentInv, OrderInv', Settled, BruteForceSuccess
  PROVE  SpentInv'
<1> DEFINE rule == "ssh_bruteforce_success"
           failed == Since(windows[rule][src], SuccessWindow)
<1>1. At(rule) /\ rule \in Windowed
  BY DEF BruteForceSuccess, Windowed
<1>2. CASE Pass /\ UNCHANGED counts
  BY <1>2, SpentKept DEF Pass, counts, Alerts, outputs
<1>3. CASE /\ src # Unknown /\ Pass
           /\ Recall(rule, history[rule][src] \cup {CurStamp})
  BY <1>1, <1>3, SpentCounted
<1>4. CASE src # Unknown /\ Raise(rule, src, failed) /\ Spend(rule)
  <2>1. src \in Sources
    BY <1>1, <1>4, TypeParts, AtFacts
  <2>2. failed \in SUBSET (history[rule][src] \cup {CurStamp})
    BY <1>1, <2>1 DEF Since, CountsInv, NeverOvercounts
  <2> QED BY <1>1, <1>4, <2>2, SpentReported DEF Spend
<1> QED BY <1>2, <1>3, <1>4 DEF BruteForceSuccess

LEMMA StatelessSpent ==
  ASSUME TypeOK, SpentInv, OrderInv', Settled, NEW rule, rule \notin Windowed,
         NEW fires, NEW from, Stateless(rule, fires, from)
  PROVE  SpentInv'
<1>1. raised = {} /\ history' = history
  BY TypeParts DEF ControlOK, Stateless, At, counts
<1>2. \A a \in Alerts' : a \in Alerts \/ a.rule = rule
  BY <1>1 DEF Stateless, Pass, Raise, Alerts, outputs
<1> QED BY <1>1, <1>2, SpentKept

LEMMA NextSpent == TypeOK /\ CountsInv /\ SpentInv /\ [Next]_vars => SpentInv'
<1> SUFFICES ASSUME TypeOK, CountsInv, SpentInv, [Next]_vars PROVE SpentInv'
  OBVIOUS
<1>1. OrderInv' /\ Settled
  BY NextSettled DEF SpentInv
<1>2. CASE \/ \E e \in Events : Produce(e)
           \/ Tick \/ TickRecv \/ CleanupLock \/ Sweep
           \/ \E c \in Configs : \E f \in DOMAIN c : CopyField(c, f)
           \/ Receive \/ Lock \/ Unlock \/ UNCHANGED vars
  <2>1. UNCHANGED <<history, raised, notified>>
    BY <1>2 DEF Produce, Tick, TickRecv, CleanupLock, Sweep, CopyField, Receive,
                Lock, Unlock, vars, counts, engine, outputs
  <2> QED BY <1>1, <2>1, SpentKept DEF Alerts
<1>3. CASE Notify \/ \E outcome \in InsertOutcomes : Insert(outcome)
  <2>1. history' = history /\ Alerts' = Alerts
    BY <1>3 DEF Notify, Insert, counts, Alerts
  <2> QED BY <1>1, <2>1, SpentKept
<1>4. CASE Bruteforce \/ UserEnumeration
  BY <1>1, <1>4, CountSpent DEF Bruteforce, UserEnumeration, Windowed
<1>5. CASE BruteForceSuccess
  BY <1>1, <1>5, SuccessSpent
<1>6. CASE SingleFailure \/ RootLogin \/ InvalidUser \/ ResourceViolation
           \/ UnauthorizedProcess
  BY <1>1, <1>6, StatelessSpent DEF SingleFailure, RootLogin, InvalidUser,
     ResourceViolation, UnauthorizedProcess, Windowed
<1> QED BY <1>2, <1>3, <1>4, <1>5, <1>6 DEF Next, EngineStep, Evaluate

LEMMA InitSpent == Init => SpentInv
<1> SUFFICES ASSUME Init PROVE SpentInv
  OBVIOUS
<1>1. chan = << >> /\ pc = "recv" /\ Alerts = {}
  BY DEF Init, Alerts
<1>2. \A r \in Windowed, s \in Sources : history[r][s] = {}
  BY DEF Init
<1> QED BY <1>1, <1>2 DEF SpentInv, OrderInv, RememberedOnce, ReportedOnce, SpentOnce

(* One attempt contributes to at most one alert of each counting rule: a   *)
(* window is deleted when it is reported, and an event reaches each rule   *)
(* once (ssh.go:51, 124, 219, engine.go:60-93).                            *)
THEOREM ReportedAtMostOnce == Spec => []SpentOnce
<1>1. SpentInv => SpentOnce
  BY DEF SpentInv
<1> QED BY <1>1, TypeCorrect, CountsCorrect, InitSpent, NextSpent, PTL DEF Spec

-----------------------------------------------------------------------------
(* The cleanup bounds the age of what the windows hold. *)

(* The last time the ticker fired, or the start.                           *)
LastTick == now - (now % CleanupPeriod)

(* StaleBound, also before the first tick: inductive with the types, since *)
(* a tick that fires suspends it until the sweep.                          *)
FreshInv ==
  (cl = "wait" /\ ~tick) =>
    \A r \in Windowed, s \in Sources : \A st \in windows[r][s] :
      st.ts > LastTick - Retention

(* Between two ticks the last one stays where it is.                       *)
LEMMA ModNext ==
  ASSUME NEW n \in Nat, NEW p \in Nat \ {0}, (n + 1) % p # 0
  PROVE  (n + 1) - ((n + 1) % p) = n - (n % p)
<1>1. PICK q \in Int, r \in 0..(p - 1) : n = p * q + r /\ r = n % p
  <2>1. n = p * (n \div p) + (n % p) /\ n \div p \in Int /\ n % p \in 0..(p - 1)
    OBVIOUS
  <2> QED BY <2>1
<1>2. PICK t \in Int, k \in 0..(p - 1) : n + 1 = p * t + k /\ k = (n + 1) % p
  <2>1. /\ n + 1 = p * ((n + 1) \div p) + ((n + 1) % p)
        /\ (n + 1) \div p \in Int /\ (n + 1) % p \in 0..(p - 1)
    OBVIOUS
  <2> QED BY <2>1
<1>3. PICK d \in Int : d = t - q
  OBVIOUS
<1>4. p * d = r + 1 - k
  <2>1. PICK x \in Int, y \in Int : x = p * q /\ y = p * t
    OBVIOUS
  <2>2. p * d = y - x
    BY <1>3, <2>1
  <2>3. n = x + r /\ n + 1 = y + k
    BY <1>1, <1>2, <2>1
  <2>4. y - x = r + 1 - k
    BY <2>3
  <2> QED BY <2>2, <2>4
<1>5. d = 0
  <2>1. CASE d <= -1
    <3>1. p * d <= -p
      BY <2>1
    <3> QED BY <1>4, <3>1
  <2>2. CASE d >= 1
    <3>1. p * d >= p
      BY <2>2
    <3> QED BY <1>2, <1>4, <3>1
  <2> QED BY <2>1, <2>2
<1>6. k = r + 1
  BY <1>4, <1>5
<1> QED BY <1>1, <1>2, <1>6

LEMMA ModBounds ==
  ASSUME NEW n \in Nat, NEW p \in Nat \ {0}
  PROVE  n % p \in 0..n
OBVIOUS

(* No window grows, the clock stands still, and no tick is forgotten.      *)
LEMMA FreshKept ==
  ASSUME FreshInv, now' = now, cl' = "wait" /\ ~tick' => cl = "wait" /\ ~tick,
         \A r \in Windowed, s \in Sources : windows'[r][s] \subseteq windows[r][s]
  PROVE  FreshInv'
<1>1. LastTick' = LastTick
  BY DEF LastTick
<1> QED BY <1>1 DEF FreshInv

LEMMA FreshStored ==
  ASSUME TypeOK, FreshInv, NEW rule \in Windowed, src \in Sources,
         NEW kept \in SUBSET (windows[rule][src] \cup {CurStamp}),
         Store(rule, kept), UNCHANGED <<now, cl, tick>>
  PROVE  FreshInv'
<1>1. windows \in [Windowed -> [Sources -> SUBSET Stamp]] /\ now \in Nat
  BY TypeParts DEF WindowsOK, ControlOK, Time
<1>2. \A r \in Windowed, s \in Sources : \A st \in windows'[r][s] :
        st \in windows[r][s] \/ st = CurStamp
  <2>1. windows' = [windows EXCEPT ![rule][src] = kept]
    BY DEF Store
  <2>2. /\ windows'[rule][src] = kept
        /\ \A r \in Windowed, s \in Sources :
             r # rule \/ s # src => windows'[r][s] = windows[r][s]
    BY <1>1, <2>1
  <2> QED BY <2>2
<1>3. CurStamp.ts > LastTick - Retention /\ LastTick' = LastTick
  <2>1. now % CleanupPeriod \in 0..now
    BY <1>1, TimesAssumption, ModBounds
  <2>2. CurStamp.ts = now
    BY DEF CurStamp
  <2> QED BY <1>1, <2>1, <2>2, TimesAssumption DEF LastTick
<1> QED BY <1>2, <1>3 DEF FreshInv

LEMMA CountFresh ==
  ASSUME TypeOK, FreshInv, NEW rule \in Windowed, NEW relevant, NEW threshold,
         NEW window, Count(rule, relevant, threshold, window)
  PROVE  FreshInv'
<1> DEFINE seen == Since(windows[rule][src] \cup {CurStamp}, window)
<1>1. At(rule) /\ UNCHANGED <<now, cl, tick>>
  BY DEF Count, Pass, Raise, cleaner
<1>2. CASE UNCHANGED counts
  BY <1>1, <1>2, FreshKept DEF counts
<1>3. CASE src # Unknown /\ (Store(rule, seen) \/ Store(rule, {}))
  <2>1. src \in Sources
    BY <1>1, <1>3, TypeParts, AtFacts
  <2>2. seen \in SUBSET (windows[rule][src] \cup {CurStamp})
    BY DEF Since
  <2> QED BY <1>1, <1>3, <2>1, <2>2, FreshStored
<1> QED BY <1>2, <1>3 DEF Count, Spend

LEMMA SuccessFresh ==
  ASSUME TypeOK, FreshInv, BruteForceSuccess
  PROVE  FreshInv'
<1> DEFINE rule == "ssh_bruteforce_success"
<1>1. At(rule) /\ rule \in Windowed /\ UNCHANGED <<now, cl, tick>>
  BY DEF BruteForceSuccess, Windowed, Pass, Raise, cleaner
<1>2. CASE UNCHANGED counts
  BY <1>1, <1>2, FreshKept DEF counts
<1>3. CASE /\ src # Unknown
           /\ Store(rule, windows[rule][src] \cup {CurStamp}) \/ Store(rule, {})
  <2>1. src \in Sources
    BY <1>1, <1>3, TypeParts, AtFacts
  <2> QED BY <1>1, <1>3, <2>1, FreshStored
<1> QED BY <1>2, <1>3 DEF BruteForceSuccess, Spend

LEMMA SweepFresh ==
  ASSUME TypeOK, Sweep
  PROVE  FreshInv'
<1>1. /\ windows \in [Windowed -> [Sources -> SUBSET Stamp]] /\ now \in Nat
      /\ now' = now
  BY TypeParts DEF WindowsOK, ControlOK, Time, Sweep
<1>2. now % CleanupPeriod \in 0..now
  BY <1>1, TimesAssumption, ModBounds
<1>3. ASSUME NEW r \in Windowed, NEW s \in Sources, NEW st \in windows'[r][s]
      PROVE  st.ts > LastTick - Retention
  <2>1. st \in windows[r][s] /\ st.ts > now - Retention
    BY <1>3 DEF Sweep, Young
  <2>2. st.ts \in Nat
    BY <1>1, <2>1 DEF Stamp, Time
  <2> QED BY <1>1, <1>2, <2>1, <2>2, TimesAssumption DEF LastTick
<1>4. LastTick' = LastTick
  BY <1>1 DEF LastTick
<1> QED BY <1>3, <1>4 DEF FreshInv

LEMMA TickFresh ==
  ASSUME TypeOK, FreshInv, Tick
  PROVE  FreshInv'
<1>1. now \in Nat /\ now' = now + 1 /\ UNCHANGED <<cl, windows>>
  BY TypeParts DEF ControlOK, Time, Tick, counts
<1>2. ~tick' => ~tick /\ (now + 1) % CleanupPeriod # 0
  BY TypeParts DEF ControlOK, Tick
<1>3. ~tick' => LastTick' = LastTick
  BY <1>1, <1>2, TimesAssumption, ModNext DEF LastTick
<1> QED BY <1>1, <1>2, <1>3 DEF FreshInv

LEMMA NextFresh == TypeOK /\ FreshInv /\ [Next]_vars => FreshInv'
<1> SUFFICES ASSUME TypeOK, FreshInv, [Next]_vars PROVE FreshInv'
  OBVIOUS
<1>1. CASE \/ \E e \in Events : Produce(e)
           \/ \E c \in Configs : \E f \in DOMAIN c : CopyField(c, f)
           \/ TickRecv \/ CleanupLock
           \/ Receive \/ Lock \/ Notify \/ Unlock
           \/ \E outcome \in InsertOutcomes : Insert(outcome)
           \/ UNCHANGED vars
  <2>1. UNCHANGED <<windows, now>>
    BY <1>1 DEF Produce, TickRecv, CleanupLock, CopyField, Receive, Lock, Notify,
                Unlock, Insert, vars, counts
  <2>2. cl' # "wait" \/ UNCHANGED <<cl, tick>>
    BY <1>1 DEF Produce, TickRecv, CleanupLock, CopyField, Receive, Lock, Notify,
                Unlock, Insert, vars, cleaner
  <2> QED BY <2>1, <2>2, FreshKept
<1>2. CASE SingleFailure \/ RootLogin \/ InvalidUser \/ ResourceViolation
           \/ UnauthorizedProcess
  <2>1. UNCHANGED <<windows, now, cl, tick>>
    BY <1>2 DEF SingleFailure, RootLogin, InvalidUser, ResourceViolation,
                UnauthorizedProcess, Stateless, Pass, Raise, counts, cleaner
  <2> QED BY <2>1, FreshKept
<1>3. CASE Bruteforce \/ UserEnumeration
  BY <1>3, CountFresh DEF Bruteforce, UserEnumeration, Windowed
<1>4. CASE BruteForceSuccess
  BY <1>4, SuccessFresh
<1>5. CASE Tick
  BY <1>5, TickFresh
<1>6. CASE Sweep
  BY <1>6, SweepFresh
<1> QED BY <1>1, <1>2, <1>3, <1>4, <1>5, <1>6 DEF Next, EngineStep, Evaluate

LEMMA InitFresh == Init => FreshInv
BY DEF Init, FreshInv

(* Once the cleanup has caught up with its ticker, no window holds a time  *)
(* that was too old at the last tick, whatever the rules append            *)
(* (engine.go:49-56, 96-116).                                              *)
THEOREM WindowsFresh == Spec => []StaleBound
<1>1. FreshInv => StaleBound
  BY DEF FreshInv, StaleBound, LastTick
<1> QED BY <1>1, TypeCorrect, InitFresh, NextFresh, PTL DEF Spec

-----------------------------------------------------------------------------
(* Every failure notified.  The rule is the second of the list: once the   *)
(* engine is past it, the alert for a failed login went to the notifier.   *)

Told(alerts, item) ==
  \E a \in alerts : a.rule = "ssh_single_failure" /\ item \in a.of

ToldInv ==
  pc \in {"eval", "insert", "notify"} /\ kind = "failure" =>
    /\ ri > 2 => Told(notified, cur)
    /\ ri = 2 /\ pc # "eval" => Told(raised, cur)

(* A rule other than the second one goes on or raises an alert of its own. *)
LEMMA OtherTold ==
  ASSUME TypeOK, ToldInv, NEW rule, At(rule), rule # "ssh_single_failure",
         UNCHANGED <<cur, notified>>,
         \/ ri' = ri + 1 /\ pc' = pc
         \/ ri' = ri /\ pc' = "insert"
  PROVE  ToldInv'
<1>1. pc = "eval" /\ ri \in 1..8 /\ ri # 2
  BY DEF At, Rules
<1> QED BY <1>1 DEF ToldInv, kind

LEMMA SingleFailureTold ==
  ASSUME TypeOK, ToldInv, SingleFailure
  PROVE  ToldInv'
<1>1. pc = "eval" /\ ri = 2 /\ cur' = cur /\ notified' = notified
  BY DEF SingleFailure, Stateless, At, Rules, Pass, Raise, outputs
<1>2. CASE kind = "failure" /\ Raise("ssh_single_failure", src, {CurStamp})
  <2>1. PICK a : /\ raised' = {a} /\ a.rule = "ssh_single_failure" /\ cur \in a.of
    <3>1. CurStamp.item = cur
      BY DEF CurStamp
    <3>2. cur \in {s.item : s \in {CurStamp}}
      BY <3>1
    <3>3. PICK of : of = {s.item : s \in {CurStamp}}
      OBVIOUS
    <3>4. PICK a : a = [rule |-> "ssh_single_failure", src |-> src, of |-> of]
      OBVIOUS
    <3>5. raised' = {a}
      BY <1>2, <3>3, <3>4 DEF Raise
    <3>6. a.rule = "ssh_single_failure" /\ a.of = of
      BY <3>4
    <3> QED BY <3>2, <3>3, <3>5, <3>6
  <2>2. Told(raised, cur)'
    BY <1>1, <2>1 DEF Told
  <2> QED BY <1>1, <1>2, <2>2 DEF Raise, ToldInv
<1>3. CASE kind # "failure"
  BY <1>1, <1>3 DEF ToldInv, kind
<1> QED BY <1>2, <1>3 DEF SingleFailure, Stateless

LEMMA NextTold == TypeOK /\ ToldInv /\ [Next]_vars => ToldInv'
<1> SUFFICES ASSUME TypeOK, ToldInv, [Next]_vars PROVE ToldInv'
  OBVIOUS
<1>1. CASE \/ \E e \in Events : Produce(e)
           \/ \E c \in Configs : \E f \in DOMAIN c : CopyField(c, f)
           \/ Tick \/ TickRecv \/ CleanupLock \/ Sweep \/ UNCHANGED vars
  <2>1. UNCHANGED <<pc, ri, cur, raised, notified>>
    BY <1>1 DEF Produce, Tick, TickRecv, CleanupLock, CopyField, Sweep, vars, engine,
                outputs
  <2> QED BY <2>1 DEF ToldInv, Told, kind
<1>2. CASE Receive \/ Lock \/ Unlock
  BY <1>2 DEF Receive, Lock, Unlock, ToldInv
<1>3. CASE \E outcome \in InsertOutcomes : Insert(outcome)
  BY <1>3 DEF Insert, ToldInv, Told, kind
<1>4. CASE Notify
  <2>1. /\ pc = "notify" /\ pc' = "eval" /\ cur' = cur /\ ri' = ri + 1 /\ ri \in 1..8
        /\ notified' = notified \cup raised
    BY <1>4 DEF Notify, TypeOK
  <2>2. Told(notified, cur) \/ Told(raised, cur) => Told(notified, cur)'
    BY <2>1 DEF Told
  <2> QED BY <2>1, <2>2 DEF ToldInv, kind
<1>5. CASE SingleFailure
  BY <1>5, SingleFailureTold
<1>6. CASE Bruteforce
  BY <1>6, OtherTold DEF Bruteforce, Count, Pass, Raise, outputs
<1>7. CASE UserEnumeration
  BY <1>7, OtherTold DEF UserEnumeration, Count, Pass, Raise, outputs
<1>8. CASE BruteForceSuccess
  BY <1>8, OtherTold DEF BruteForceSuccess, Pass, Raise, outputs
<1>9. CASE RootLogin
  BY <1>9, OtherTold DEF RootLogin, Stateless, Pass, Raise, outputs
<1>10. CASE InvalidUser
  BY <1>10, OtherTold DEF InvalidUser, Stateless, Pass, Raise, outputs
<1>11. CASE ResourceViolation
  BY <1>11, OtherTold DEF ResourceViolation, Stateless, Pass, Raise, outputs
<1>12. CASE UnauthorizedProcess
  BY <1>12, OtherTold DEF UnauthorizedProcess, Stateless, Pass, Raise, outputs
<1> QED BY <1>1, <1>2, <1>3, <1>4, <1>5, <1>6, <1>7, <1>8, <1>9, <1>10, <1>11, <1>12
        DEF Next, EngineStep, Evaluate

LEMMA InitTold == Init => ToldInv
BY DEF Init, ToldInv

(* The engine lets go of a failed login only after the alert for it went   *)
(* to the dashboard, whatever the other rules do and whether or not the    *)
(* insertion failed (engine.go:63-92).                                     *)
THEOREM FailuresNotified == Spec => EveryFailureNotified
<1>1. TypeOK /\ ToldInv /\ [Next]_vars
        => [(cur # None /\ cur' = None /\ kind = "failure") =>
              \E a \in notified : /\ a.rule = "ssh_single_failure"
                                  /\ cur \in a.of]_vars
  <2> SUFFICES ASSUME TypeOK, ToldInv, Next, cur # None, cur' = None, kind = "failure"
               PROVE  Told(notified, cur)
    BY DEF Told
  <2>1. Unlock \/ Receive
    BY DEF Next, EngineStep, Evaluate, Produce, Tick, CopyField, TickRecv, CleanupLock,
           Sweep, Lock, Insert, Notify, Bruteforce, UserEnumeration, BruteForceSuccess,
           SingleFailure, RootLogin, InvalidUser, ResourceViolation,
           UnauthorizedProcess, Stateless, Count, Pass, Raise, engine
  <2>2. Unlock
    BY <2>1 DEF Receive, TypeOK
  <2> QED BY <2>2 DEF Unlock, ToldInv
<1> QED BY <1>1, TypeCorrect, InitTold, NextTold, PTL DEF Spec, EveryFailureNotified
=============================================================================
