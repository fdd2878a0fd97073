----------------------------- MODULE Correlator -----------------------------
(***************************************************************************)
(* The correlation engine (internal/correlator/engine.go) with its eight   *)
(* rules (internal/correlator/service/ssh.go), the event channel that      *)
(* feeds it, the cleanup goroutine that shares its mutex, the wall clock,  *)
(* and the settings the rules read while an HTTP handler rewrites them.    *)
(*                                                                         *)
(* A window is a set of stamps: the slice of Unix times the code keeps,    *)
(* each time tagged with the event that caused it, so that the length of   *)
(* the slice is the cardinality of the set.  An absent map key is {}.      *)
(***************************************************************************)
EXTENDS Integers, Sequences, FiniteSets

CONSTANTS
  Sources,         \* source addresses
  Unknown,         \* an empty or "unknown" source address
  None,            \* no event
  Events,          \* the events the normalizer and the monitor can emit
  Configs,         \* the settings that can be posted
  DefaultBFThreshold, DefaultBFWindow, DefaultEnumThreshold,
  EnumWindow,      \* 120 in the code
  SuccessWindow,   \* 300 in the code
  Retention,       \* what cleanup keeps, 120 in the code
  CleanupPeriod,   \* 60 in the code
  ChanCap,         \* 1000 in the code
  Timestamped,     \* events carry their time of emission, which no rule reads
  InsertOutcomes,  \* subset of {"ok", "error"}
  MaxEvents,       \* bound: events emitted
  MaxTime          \* bound: clock

Kinds == {"failure", "success", "invalid_user", "resource", "process", "other"}

Event == [kind : Kinds, src : Sources \cup {Unknown},
          valid : BOOLEAN, root : BOOLEAN]

Config == [bfThreshold : Int, bfWindow : Int, enumThreshold : Int,
           rootAlert : BOOLEAN, successAlert : BOOLEAN, invalidAlert : BOOLEAN]

ASSUME UnknownAssumption == Unknown \notin Sources
ASSUME EventsAssumption == Events \subseteq Event
ASSUME ConfigsAssumption == Configs \subseteq Config /\ Configs # {}
ASSUME DefaultsAssumption ==
  /\ DefaultBFThreshold \in Nat \ {0}
  /\ DefaultBFWindow \in Nat \ {0}
  /\ DefaultEnumThreshold \in Nat \ {0}
ASSUME TimesAssumption ==
  /\ EnumWindow \in Nat \ {0}
  /\ SuccessWindow \in Nat \ {0}
  /\ Retention \in Nat \ {0}
  /\ CleanupPeriod \in Nat \ {0}
ASSUME BoundsAssumption ==
  /\ ChanCap \in Nat \ {0}
  /\ Timestamped \in BOOLEAN
  /\ InsertOutcomes \subseteq {"ok", "error"}
  /\ MaxEvents \in Nat
  /\ MaxTime \in Nat

(* The order in which main registers the rules. *)
Rules == <<"ssh_bruteforce", "ssh_single_failure", "ssh_user_enumeration",
           "ssh_root_login", "ssh_bruteforce_success", "ssh_invalid_user",
           "ssh_resource_violation", "ssh_unauthorized_process">>

RuleNames == {"ssh_bruteforce", "ssh_single_failure", "ssh_user_enumeration",
              "ssh_root_login", "ssh_bruteforce_success", "ssh_invalid_user",
              "ssh_resource_violation", "ssh_unauthorized_process"}

(* The rules that keep sliding windows in their RuleContext. *)
Windowed == {"ssh_bruteforce", "ssh_user_enumeration", "ssh_bruteforce_success"}

Time == 0..MaxTime
Item == [event : Events, n : 1..MaxEvents, sent : Time]
Stamp == [item : Item, ts : Time]
Alert == [rule : RuleNames, src : Sources \cup {Unknown, "local"},
          of : SUBSET Item]

VARIABLES
  now,       \* time.Now().Unix()
  cfg,       \* the SSH settings GetConfig points at
  chan,      \* eventChan, a buffered channel of items
  produced,  \* number of events sent on it so far
  mu,        \* Engine.mu: "free", "engine" or "cleanup"
  pc,        \* the engine's main loop
  ri,        \* index of the rule it evaluates
  cur,       \* the item it received
  raised,    \* the alert Evaluate returned: empty or one alert
  windows,   \* RuleContext.Windows of the rules that use it, by source
  tick,      \* a tick waits in the cleanup ticker's channel
  cl,        \* the cleanup goroutine: "wait", "lock" or "sweep"
  stored,    \* alerts in the database
  notified,  \* alerts handed to the notifier
  history    \* ghost: attempts a rule counted since its last alert, unpruned

engine == <<pc, ri, cur, raised>>
cleaner == <<tick, cl>>
outputs == <<stored, notified>>
counts == <<windows, history>>
vars == <<now, cfg, chan, produced, mu, engine, windows, cleaner, outputs,
          history>>

Init ==
  /\ now = 0
  /\ cfg \in Configs
  /\ chan = << >>
  /\ produced = 0
  /\ mu = "free"
  /\ pc = "recv"
  /\ ri = 1
  /\ cur = None
  /\ raised = {}
  /\ windows = [r \in Windowed |-> [s \in Sources |-> {}]]
  /\ tick = FALSE
  /\ cl = "wait"
  /\ stored = {}
  /\ notified = {}
  /\ history = windows

-----------------------------------------------------------------------------
(* The environment of the engine. *)

(* A normalizer or the monitor sends an event; a full channel blocks it. *)
Produce(e) ==
  /\ produced < MaxEvents
  /\ Len(chan) < ChanCap
  /\ produced' = produced + 1
  /\ chan' = Append(chan, [event |-> e, n |-> produced + 1,
                           sent |-> IF Timestamped THEN now ELSE 0])
  /\ UNCHANGED <<now, cfg, mu, engine, counts, cleaner, outputs>>

(* The clock advances.  The ticker fires every CleanupPeriod and drops the *)
(* tick when the previous one is still waiting.                            *)
Tick ==
  /\ now < MaxTime
  /\ now' = now + 1
  /\ tick' = (tick \/ (now + 1) % CleanupPeriod = 0)
  /\ UNCHANGED <<cfg, chan, produced, mu, engine, counts, cl, outputs>>

(* The config handler assigns the posted settings to the shared struct     *)
(* with no lock, so the rules can see some fields new and others old, and  *)
(* two posts can interleave.                                               *)
CopyField(c, f) ==
  /\ cfg[f] # c[f]
  /\ cfg' = [cfg EXCEPT ![f] = c[f]]
  /\ UNCHANGED <<now, chan, produced, mu, engine, counts, cleaner, outputs>>

-----------------------------------------------------------------------------
(* The cleanup goroutine. *)

TickRecv ==
  /\ cl = "wait" /\ tick
  /\ cl' = "lock" /\ tick' = FALSE
  /\ UNCHANGED <<now, cfg, chan, produced, mu, engine, counts, outputs>>

(* Mutant of CleanupLock: TryLock, and no cleanup when it fails. *)
CleanupTryLock ==
  /\ cl = "lock"
  /\ IF mu = "free" THEN cl' = "sweep" /\ mu' = "cleanup"
                    ELSE cl' = "wait" /\ mu' = mu
  /\ UNCHANGED <<now, cfg, chan, produced, engine, counts, tick, outputs>>

CleanupLock ==
  /\ cl = "lock" /\ mu = "free"
  /\ cl' = "sweep" /\ mu' = "cleanup"
  /\ UNCHANGED <<now, cfg, chan, produced, engine, counts, tick, outputs>>

(* Mutants of Young: the success window, or the ticker's period, where the *)
(* retention belongs.                                                      *)
YoungForSuccess(stamps) == {s \in stamps : s.ts > now - SuccessWindow}
YoungForPeriod(stamps) == {s \in stamps : s.ts > now - CleanupPeriod}

Young(stamps) == {s \in stamps : s.ts > now - Retention}

(* Mutant of Sweep: it returns without the deferred Unlock. *)
SweepKeepsMutex ==
  /\ cl = "sweep"
  /\ windows' = [r \in Windowed |-> [s \in Sources |-> Young(windows[r][s])]]
  /\ cl' = "wait" /\ mu' = mu
  /\ UNCHANGED <<now, cfg, chan, produced, engine, tick, outputs, history>>

Sweep ==
  /\ cl = "sweep"
  /\ windows' = [r \in Windowed |-> [s \in Sources |-> Young(windows[r][s])]]
  /\ cl' = "wait" /\ mu' = "free"
  /\ UNCHANGED <<now, cfg, chan, produced, engine, tick, outputs, history>>

-----------------------------------------------------------------------------
(* The engine's main loop, up to the rules. *)

Receive ==
  /\ pc = "recv" /\ chan # << >>
  /\ cur' = Head(chan) /\ chan' = Tail(chan)
  /\ pc' = "lock"
  /\ UNCHANGED <<now, cfg, produced, mu, ri, raised, counts, cleaner, outputs>>

Lock ==
  /\ pc = "lock" /\ mu = "free"
  /\ mu' = "engine" /\ pc' = "eval" /\ ri' = 1
  /\ UNCHANGED <<now, cfg, chan, produced, cur, raised, counts, cleaner, outputs>>

(* Mutant of Insert: a failed insertion goes on with the next rule. *)
InsertOrSkip(outcome) ==
  /\ pc = "insert"
  /\ IF outcome = "ok"
     THEN pc' = "notify" /\ stored' = stored \cup raised /\ UNCHANGED <<raised, ri>>
     ELSE pc' = "eval" /\ stored' = stored /\ raised' = {} /\ ri' = ri + 1
  /\ UNCHANGED <<now, cfg, chan, produced, mu, cur, counts, cleaner, notified>>

(* A rule returned an alert: it is inserted in the database, where a       *)
(* failure is only logged, and then handed to the notifier.                *)
Insert(outcome) ==
  /\ pc = "insert"
  /\ pc' = "notify"
  /\ stored' = IF outcome = "ok" THEN stored \cup raised ELSE stored
  /\ UNCHANGED <<now, cfg, chan, produced, mu, ri, cur, raised, counts, cleaner,
                 notified>>

Notify ==
  /\ pc = "notify"
  /\ notified' = notified \cup raised
  /\ raised' = {}
  /\ pc' = "eval" /\ ri' = ri + 1
  /\ UNCHANGED <<now, cfg, chan, produced, mu, cur, counts, cleaner, stored>>

(* Mutant of Unlock: the mutex stays locked. *)
UnlockForgotten ==
  /\ pc = "eval" /\ ri = 9
  /\ pc' = "recv" /\ cur' = None
  /\ UNCHANGED <<now, cfg, chan, produced, mu, ri, raised, counts, cleaner, outputs>>

Unlock ==
  /\ pc = "eval" /\ ri = 9
  /\ mu' = "free" /\ pc' = "recv" /\ cur' = None
  /\ UNCHANGED <<now, cfg, chan, produced, ri, raised, counts, cleaner, outputs>>

-----------------------------------------------------------------------------
(* The rules.  Evaluate of one rule is one step: it reads the settings and *)
(* the clock once.  Both may change before the next rule runs.             *)

At(rule) == pc = "eval" /\ ri \in 1..8 /\ Rules[ri] = rule

kind == cur.event.kind
src == cur.event.src
CurStamp == [item |-> cur, ts |-> now]

FailureOrInvalid == kind \in {"failure", "invalid_user"}

(* Evaluate returned nil. *)
Pass ==
  /\ ri' = ri + 1
  /\ UNCHANGED <<now, cfg, chan, produced, mu, pc, cur, raised, cleaner, outputs>>

(* Evaluate returned an alert. *)
Raise(rule, from, evidence) ==
  /\ raised' = {[rule |-> rule, src |-> from, of |-> {s.item : s \in evidence}]}
  /\ pc' = "insert"
  /\ UNCHANGED <<now, cfg, chan, produced, mu, ri, cur, cleaner, outputs>>

(* Mutant of Since: the oldest second of the window is left out. *)
SinceStrictly(stamps, age) == {s \in stamps : s.ts > now - age}

Since(stamps, age) == {s \in stamps : s.ts >= now - age}

Store(rule, stamps) == windows' = [windows EXCEPT ![rule][src] = stamps]
Recall(rule, stamps) == history' = [history EXCEPT ![rule][src] = stamps]

(* Mutant of Spend: the delete of the reported window is missing. *)
SpendNothing(rule) == UNCHANGED windows /\ Recall(rule, {})

(* An alert deletes the window it reports. *)
Spend(rule) == Store(rule, {}) /\ Recall(rule, {})

(* Append the time, prune to the window, alert and forget at the threshold. *)
Count(rule, relevant, threshold, window) ==
  LET seen == Since(windows[rule][src] \cup {CurStamp}, window)
  IN  /\ At(rule)
      /\ \/ /\ ~relevant \/ src = Unknown
            /\ Pass
            /\ UNCHANGED counts
         \/ /\ relevant /\ src # Unknown /\ Cardinality(seen) < threshold
            /\ Pass
            /\ Store(rule, seen)
            /\ Recall(rule, history[rule][src] \cup {CurStamp})
         \/ /\ relevant /\ src # Unknown /\ Cardinality(seen) >= threshold
            /\ Raise(rule, src, seen)
            /\ Spend(rule)

BFThreshold(c) == IF c.bfThreshold <= 0 THEN DefaultBFThreshold ELSE c.bfThreshold
BFWindow(c) == IF c.bfWindow <= 0 THEN DefaultBFWindow ELSE c.bfWindow
EnumThreshold(c) ==
  IF c.enumThreshold <= 0 THEN DefaultEnumThreshold ELSE c.enumThreshold

Bruteforce ==
  Count("ssh_bruteforce", kind = "failure", BFThreshold(cfg), BFWindow(cfg))

UserEnumeration ==
  Count("ssh_user_enumeration", ~cur.event.valid /\ FailureOrInvalid,
        EnumThreshold(cfg), EnumWindow)

(* Mutant of EnoughFailures: more than two, not at least two. *)
MoreThanTwoFailures(failed) == Cardinality(failed) > 2
EnoughFailures(failed) == Cardinality(failed) >= 2

(* A success is judged by the failures kept for its source. *)
BruteForceSuccess ==
  LET rule == "ssh_bruteforce_success"
      failed == Since(windows[rule][src], SuccessWindow)
      watched == cfg.successAlert /\ src # Unknown
  IN  /\ At(rule)
      /\ \/ /\ \/ ~watched
               \/ kind \notin {"failure", "success"}
               \/ kind = "success" /\ ~EnoughFailures(failed)
            /\ Pass
            /\ UNCHANGED counts
         \/ /\ watched /\ kind = "failure"
            /\ Pass
            /\ Store(rule, windows[rule][src] \cup {CurStamp})
            /\ Recall(rule, history[rule][src] \cup {CurStamp})
         \/ /\ watched /\ kind = "success" /\ EnoughFailures(failed)
            /\ Raise(rule, src, failed)
            /\ Spend(rule)

(* A rule that keeps no window: it fires on the event alone. *)
Stateless(rule, fires, from) ==
  /\ At(rule)
  /\ \/ fires /\ Raise(rule, from, {CurStamp})
     \/ ~fires /\ Pass
  /\ UNCHANGED counts

SingleFailure == Stateless("ssh_single_failure", kind = "failure", src)

RootLogin ==
  Stateless("ssh_root_login",
            cfg.rootAlert /\ cur.event.root /\ (kind = "success" \/ FailureOrInvalid),
            src)

InvalidUser ==
  Stateless("ssh_invalid_user",
            cfg.invalidAlert /\ ~cur.event.valid /\ FailureOrInvalid, src)

ResourceViolation ==
  Stateless("ssh_resource_violation", kind = "resource", "local")

UnauthorizedProcess ==
  Stateless("ssh_unauthorized_process", kind = "process", "local")

-----------------------------------------------------------------------------
Evaluate ==
  \/ Bruteforce \/ SingleFailure \/ UserEnumeration \/ RootLogin
  \/ BruteForceSuccess \/ InvalidUser \/ ResourceViolation
  \/ UnauthorizedProcess

EngineStep ==
  \/ Receive \/ Lock \/ Evaluate
  \/ \E outcome \in InsertOutcomes : Insert(outcome)
  \/ Notify \/ Unlock

Next ==
  \/ \E e \in Events : Produce(e)
  \/ Tick
  \/ \E c \in Configs : \E f \in DOMAIN c : CopyField(c, f)
  \/ TickRecv \/ CleanupLock \/ Sweep
  \/ EngineStep

Spec == Init /\ [][Next]_vars

(* The engine and the cleanup goroutine keep running; each of them that    *)
(* keeps asking for the mutex gets it (sync.Mutex hands over to a waiter   *)
(* that starves).  Nothing obliges a producer, the operator or the clock.  *)
Fairness ==
  /\ WF_vars(EngineStep) /\ SF_vars(Lock)
  /\ WF_vars(TickRecv) /\ SF_vars(CleanupLock) /\ WF_vars(Sweep)

FairSpec == Spec /\ Fairness

-----------------------------------------------------------------------------
(* Properties. *)

Alerts == notified \cup raised

Pending(n) ==
  \/ \E i \in 1..Len(chan) : chan[i].n = n
  \/ cur # None /\ cur.n = n

(* Every variable has its type; the mutex, the two program counters and    *)
(* the pending alert agree (engine.go:60-92, 97-99).                       *)
TypeOK ==
  /\ now \in Time
  /\ cfg \in Config
  /\ chan \in Seq(Item) /\ Len(chan) <= ChanCap
  /\ produced \in 0..MaxEvents
  /\ mu \in {"free", "engine", "cleanup"}
  /\ pc \in {"recv", "lock", "eval", "insert", "notify"}
  /\ ri \in 1..9
  /\ IF pc = "recv" THEN cur = None ELSE cur \in Item
  /\ raised \in SUBSET Alert
  /\ windows \in [Windowed -> [Sources -> SUBSET Stamp]]
  /\ history \in [Windowed -> [Sources -> SUBSET Stamp]]
  /\ tick \in BOOLEAN
  /\ cl \in {"wait", "lock", "sweep"}
  /\ stored \in SUBSET Alert
  /\ notified \in SUBSET Alert
  /\ (mu = "engine") <=> (pc \in {"eval", "insert", "notify"})
  /\ (mu = "cleanup") <=> (cl = "sweep")
  /\ (raised # {}) <=> (pc \in {"insert", "notify"})
  /\ (pc \in {"insert", "notify"}) => ri \in 1..8

(* A rule's window never holds an attempt that the rule did not see or     *)
(* that an alert has already spent (the delete at the alert, ssh.go:51,    *)
(* 124 and 219, is not undone by a sweep or by another rule).              *)
NeverOvercounts ==
  \A r \in Windowed, s \in Sources : windows[r][s] \subseteq history[r][s]

(* An unspent attempt young enough for the cleanup, and for the brute      *)
(* force and enumeration rules young enough for every window an operator   *)
(* can post.                                                               *)
MustKeep(r, st) ==
  /\ st.ts > now - Retention
  /\ r = "ssh_bruteforce" => \A c \in Configs : st.ts >= now - BFWindow(c)
  /\ r = "ssh_user_enumeration" => st.ts >= now - EnumWindow

(* Such an attempt is never lost: neither the pruning inside a rule, nor   *)
(* the cleanup, nor a change of the settings, nor an alert for another     *)
(* source or rule removes it from the window (ssh.go:39-48, 112-121,       *)
(* engine.go:100-115).                                                     *)
NeverUndercounts ==
  \A r \in Windowed, s \in Sources :
    \A st \in history[r][s] : MustKeep(r, st) => st \in windows[r][s]

(* One login attempt contributes to at most one alert of each counting     *)
(* rule: attempts are forgotten when they are reported.                    *)
SpentOnce ==
  \A a, b \in Alerts :
    /\ a.rule = b.rule
    /\ a.rule \in Windowed
    /\ a.of \cap b.of # {}
    => a = b

(* Memory is bounded by time: once the cleanup has caught up with the      *)
(* ticker, no window holds a time that was already too old at the last     *)
(* tick, whatever the rules appended meanwhile (engine.go:49-56, 96-116).  *)
StaleBound ==
  (cl = "wait" /\ ~tick /\ now >= CleanupPeriod) =>
    \A r \in Windowed, s \in Sources : \A st \in windows[r][s] :
      st.ts > now - (now % CleanupPeriod) - Retention

(* The engine never lets go of a failed login before the alert for it went *)
(* to the dashboard, even if the insertion in the database failed          *)
(* (engine.go:83-89).                                                      *)
EveryFailureNotified ==
  [][(cur # None /\ cur' = None /\ kind = "failure") =>
       \E a \in notified : /\ a.rule = "ssh_single_failure"
                           /\ cur \in a.of]_vars

(* A successful login after two unspent failures that are inside the       *)
(* success window and that the cleanup must keep raises the critical alert *)
(* (ssh.go:204-229).                                                       *)
SuccessCaught ==
  [][(/\ At("ssh_bruteforce_success") /\ <<pc, ri>>' # <<pc, ri>>
      /\ cfg.successAlert /\ src # Unknown /\ kind = "success"
      /\ Cardinality(Young(Since(history["ssh_bruteforce_success"][src],
                                 SuccessWindow))) >= 2)
       => raised' # {}]_vars

(* Every event that was sent is evaluated by all rules (engine.go:60-93).  *)
EventsEvaluated == \A n \in 1..MaxEvents : Pending(n) ~> ~Pending(n)

(* A tick of the cleanup ticker is followed by a sweep although the engine *)
(* takes the same mutex for every event (engine.go:51-56).                 *)
CleanupRuns == tick ~> (cl = "sweep")
=============================================================================
