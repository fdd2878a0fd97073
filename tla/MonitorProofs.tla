---------------------------- MODULE MonitorProofs ---------------------------
(***************************************************************************)
(* Proofs about the process monitor, for every set of PIDs, programs and   *)
(* settings and every choice of its durations.                             *)
(***************************************************************************)
EXTENDS Monitor, SequenceTheorems, WellFoundedInduction, TLAPS

Checks == {"ram", "shell", "process", "blocked", "unlisted"}

(* An undisturbed scan has read what is there; the judgement that follows  *)
(* is about the same machine.                                              *)
SnapInv ==
  /\ pc = "sleep" => snap = Nobody
  /\ pc = "read" /\ still => \A p \in Pids \ unread : snap[p] = table[p]

(* The event for a key is of this scan, or young enough when it began.     *)
Fresh(k) == last[k] # Never /\ last[k] < SuppressFor + begun

(* What a scan owes: the offender is not yet picked, or it is under        *)
(* evaluation and a check of the rule is not yet dealt with, or the event  *)
(* is there.                                                               *)
DueInv ==
  /\ pc \in {"sleep", "read"} => due = {}
  /\ pc # "sleep" => begun >= 0
  /\ pc \in {"send", "kill"} => Fresh(Key)
  /\ \A k \in due : k[1] \in Alive(snap) /\ k[2] \in Broken(snap[k[1]].prog, cfg)
  /\ \A k \in due :
       \/ k[1] \in todo
       \/ Fresh(k)
       \/ k[1] = cur /\ \E i \in 1..Len(checks) : k[2] = Rule[checks[i]]

LEMMA RuleOfCheck ==
  /\ DOMAIN Rule = Checks
  /\ \A check \in Checks : Rule[check] \in {"resource", "shell", "process"}
BY DEF Rule, Checks

LEMMA ViolationsType ==
  ASSUME NEW prog, NEW c
  PROVE  Violations(prog, c) \in Seq(Checks)
<1>1. ASSUME NEW b, NEW check \in Checks
      PROVE  OnlyIf(b, check) \in Seq(Checks)
  BY EmptySeq DEF OnlyIf
<1>2. ASSUME NEW s \in Seq(Checks), NEW t \in Seq(Checks)
      PROVE  s \o t \in Seq(Checks)
  BY ConcatProperties
<1>3. {"ram", "shell", "process", "blocked", "unlisted"} \subseteq Checks
  BY DEF Checks
<1> HIDE DEF Checks
<1> DEFINE isShell == prog \in Shells
           isOther == prog \notin Shells \cup System \cup Sshd
           v1 == OnlyIf(c.ram /\ prog \in Heavy, "ram")
           v2 == OnlyIf(~c.shells /\ isShell, "shell")
           v3 == OnlyIf(~c.processes /\ isOther, "process")
           v4 == OnlyIf(prog \in c.blocks, "blocked")
           v5 == OnlyIf(c.whitelist /\ isOther /\ prog \notin c.allows, "unlisted")
<1>4. /\ v1 \in Seq(Checks) /\ v2 \in Seq(Checks) /\ v3 \in Seq(Checks)
      /\ v4 \in Seq(Checks) /\ v5 \in Seq(Checks)
  BY <1>1, <1>3
<1>5. Violations(prog, c) = v1 \o v2 \o v3 \o v4 \o v5
  BY DEF Violations
<1> HIDE DEF v1, v2, v3, v4, v5
<1> QED BY <1>2, <1>4, <1>5

-----------------------------------------------------------------------------
LEMMA Bounds ==
  /\ SuppressFor \in Nat /\ SuppressFor > 0 /\ StaleAfter \in Nat
  /\ SuppressFor <= StaleAfter /\ ChanCap \in Nat /\ MaxChanges \in Nat
BY NumbersAssumption

LEMMA OlderType == \A n \in Age : Older(n) \in Age
BY Bounds DEF Age, Older, Never, MaxAge

LEMMA KeptType == \A n \in Age : Kept(n) \in Age
BY Bounds DEF Age, Kept, Never, MaxAge

LEMMA SnapType ==
  ASSUME NEW tree \in [Pids -> Process \cup {None}], NEW p \in Alive(tree)
  PROVE  p \in Pids /\ tree[p] \in Process
BY DEF Alive

LEMMA WithoutType ==
  ASSUME table \in [Pids -> Process \cup {None}], NEW p
  PROVE  Without(p) \in [Pids -> Process \cup {None}]
<1> SUFFICES ASSUME NEW q \in Alive(table)
             PROVE  [table[q] EXCEPT !.ppid = "init"] \in Process
  BY DEF Without
<1>1. table[q] \in Process
  BY SnapType
<1> QED BY <1>1 DEF Process, Parents

(* The check that is dealt with names a PID and a rule.                    *)
LEMMA KeyType ==
  ASSUME TypeOK, pc \in {"check", "send", "kill"}, checks # << >>
  PROVE  /\ Key \in Keys /\ Tail(checks) \in Seq(Checks)
         /\ cur \in Pids
<1>1. checks \in Seq(Checks) /\ cur \in Alive(snap)
  BY RuleOfCheck DEF TypeOK
<1>2. Head(checks) \in Checks /\ Tail(checks) \in Seq(Checks)
  BY <1>1, HeadTailProperties
<1>3. cur \in Pids /\ Rule[Head(checks)] \in {"resource", "shell", "process"}
  BY <1>1, <1>2, RuleOfCheck DEF Alive
<1> QED BY <1>2, <1>3 DEF Key, Keys

LEMMA InitType == Init => TypeOK
<1> SUFFICES ASSUME Init PROVE TypeOK
  OBVIOUS
<1>1. /\ table \in [Pids -> Process \cup {None}]
      /\ snap \in [Pids -> Process \cup {None}]
      /\ changes \in 0..MaxChanges /\ pending \in 0..ChanCap
      /\ pc = "sleep" /\ cfg = None /\ unread = {} /\ todo = {} /\ cur = None
      /\ checks = << >> /\ still = FALSE /\ due = {}
  BY Bounds DEF Init, Nobody
<1>2. alerted \in [Keys -> Age] /\ last \in [Keys -> Age] /\ begun \in Age
  BY Bounds DEF Init, Age, Never, MaxAge
<1>3. << >> \in Seq(DOMAIN Rule)
  BY EmptySeq
<1> QED BY <1>1, <1>2, <1>3 DEF TypeOK

(* What the machine, the clock and the engine do leaves a scan alone.      *)
LEMMA WorldType ==
  ASSUME TypeOK, UNCHANGED <<pc, scan>>,
         table' \in [Pids -> Process \cup {None}], changes' \in 0..MaxChanges,
         pending' \in 0..ChanCap, alerted' \in [Keys -> Age], last' \in [Keys -> Age],
         begun' \in Age, still' \in BOOLEAN, due' = due
  PROVE  TypeOK'
BY DEF TypeOK, scan

LEMMA NextType == TypeOK /\ [Next]_vars => TypeOK'
<1> SUFFICES ASSUME TypeOK, [Next]_vars PROVE TypeOK'
  OBVIOUS
<1>0. /\ table \in [Pids -> Process \cup {None}] /\ changes \in 0..MaxChanges
      /\ pending \in 0..ChanCap /\ still \in BOOLEAN /\ due \in SUBSET Keys
      /\ alerted \in [Keys -> Age] /\ last \in [Keys -> Age] /\ begun \in Age
      /\ snap \in [Pids -> Process \cup {None}]
      /\ checks \in Seq(DOMAIN Rule)
  BY DEF TypeOK
<1>1. ASSUME NEW p \in Pids, NEW parent \in Parents, NEW prog \in Programs,
             Fork(p, parent, prog)
      PROVE  TypeOK'
  <2>1. changes + 1 \in 1..MaxChanges
    BY <1>0, <1>1, Bounds DEF Fork
  <2>2. [id |-> changes + 1, ppid |-> parent, prog |-> prog] \in Process
    BY <2>1 DEF Process
  <2>3. table' \in [Pids -> Process \cup {None}] /\ changes' \in 0..MaxChanges
    BY <1>0, <1>1, <2>1, <2>2 DEF Fork
  <2> QED BY <1>0, <1>1, <2>3, WorldType DEF Fork, ages
<1>2. ASSUME NEW p \in Pids, NEW prog \in Programs, Exec(p, prog)
      PROVE  TypeOK'
  <2>1. table[p] \in Process
    BY <1>0, <1>2, SnapType DEF Exec
  <2>2. [table[p] EXCEPT !.prog = prog] \in Process
    BY <2>1 DEF Process
  <2>3. table' = [table EXCEPT ![p] = [table[p] EXCEPT !.prog = prog]]
    BY <1>2 DEF Exec
  <2>4. table' \in [Pids -> Process \cup {None}]
    BY <1>0, <2>2, <2>3
  <2>5. changes' \in 0..MaxChanges
    BY <1>0, <1>2, Bounds DEF Exec
  <2> QED BY <1>0, <1>2, <2>4, <2>5, WorldType DEF Exec, ages
<1>3. ASSUME NEW p \in Pids, Exit(p)
      PROVE  TypeOK'
  <2>1. table' \in [Pids -> Process \cup {None}]
    BY <1>0, <1>3, WithoutType DEF Exit
  <2> QED BY <1>0, <1>3, <2>1, WorldType DEF Exit, ages
<1>4. CASE Tick
  <2>1. alerted' \in [Keys -> Age] /\ last' \in [Keys -> Age] /\ begun' \in Age
    BY <1>0, <1>4, OlderType DEF Tick
  <2> QED BY <1>0, <1>4, <2>1, WorldType DEF Tick, machine
<1>5. CASE OtherEvent \/ Drain
  <2>1. pending' \in 0..ChanCap
    BY <1>0, <1>5, Bounds DEF OtherEvent, Drain
  <2> QED BY <1>0, <1>5, <2>1, WorldType DEF OtherEvent, Drain, machine, ages
<1>6. ASSUME NEW c \in Configs, StartScan(c)
      PROVE  TypeOK'
  <2>1. 0 \in Age
    BY Bounds DEF Age, Never, MaxAge
  <2> QED BY <1>6, <2>1 DEF TypeOK, StartScan, machine, Alive
<1>7. ASSUME NEW p \in Pids, Read(p)
      PROVE  TypeOK'
  BY <1>7 DEF TypeOK, Read, machine, ages, Alive
<1>8. ASSUME NEW p \in Pids, Pick(p)
      PROVE  TypeOK'
  <2>1. checks' \in Seq(DOMAIN Rule)
    BY <1>8, ViolationsType, RuleOfCheck DEF Pick
  <2> QED BY <1>8, <2>1 DEF TypeOK, Pick, machine, ages
<1>9. CASE Judge
  <2>1. alerted' \in [Keys -> Age]
    BY <1>0, <1>9, KeptType DEF Judge
  <2>2. due' \in SUBSET Keys
    BY <1>9 DEF Judge, Offences
  <2> QED BY <1>9, <2>1, <2>2 DEF TypeOK, Judge, machine, Alive
<1>10. CASE Suppress
  <2>1. Tail(checks) \in Seq(DOMAIN Rule)
    BY <1>10, KeyType, RuleOfCheck DEF Suppress
  <2> QED BY <1>10, <2>1 DEF TypeOK, Suppress, machine, ages
<1>11. CASE Report
  <2>1. 0 \in Age
    BY Bounds DEF Age, Never, MaxAge
  <2>2. alerted' \in [Keys -> Age] /\ last' \in [Keys -> Age]
    BY <1>0, <1>11, <2>1 DEF Report
  <2> QED BY <1>11, <2>2 DEF TypeOK, Report, machine, scan
<1>12. CASE Send
  <2>1. pending' \in 0..ChanCap
    BY <1>0, <1>12, Bounds DEF Send
  <2> QED BY <1>12, <2>1 DEF TypeOK, Send, machine, scan, ages
<1>13. CASE Kill
  <2>1. table' \in [Pids -> Process \cup {None}]
    BY <1>0, <1>13, WithoutType DEF Kill
  <2>2. Tail(checks) \in Seq(DOMAIN Rule)
    BY <1>13, KeyType, RuleOfCheck DEF Kill, TypeOK
  <2> QED BY <1>13, <2>1, <2>2 DEF TypeOK, Kill, ages
<1>14. CASE NextProcess
  BY <1>14 DEF TypeOK, NextProcess, machine, ages
<1>15. CASE EndScan
  <2>1. Never \in Age
    BY Bounds DEF Age, Never, MaxAge
  <2> QED BY <1>15, <2>1 DEF TypeOK, EndScan, machine, Nobody, Alive
<1>16. CASE UNCHANGED vars
  BY <1>16 DEF TypeOK, vars, machine, scan, ages
<1> QED BY <1>1, <1>2, <1>3, <1>4, <1>5, <1>6, <1>7, <1>8, <1>9, <1>10, <1>11, <1>12,
           <1>13, <1>14, <1>15, <1>16 DEF Next, ScanStep

(* A scan keeps its types, and each of its variables is in use exactly at  *)
(* the stages that need it (ssh_monitor.go:69-160, 177-226).               *)
THEOREM TypeCorrect == Spec => []TypeOK
BY InitType, NextType, PTL DEF Spec

-----------------------------------------------------------------------------
(* An entry of alertedPIDs is as old as the last event for its key; where  *)
(* there is no entry, that event is too old for a suppression.             *)

EntriesInv ==
  \A k \in Keys : \/ alerted[k] = last[k]
                  \/ alerted[k] = Never /\ last[k] > StaleAfter

LEMMA InitEntries == Init => EntriesInv
BY DEF Init, EntriesInv

LEMMA NextEntries == TypeOK /\ EntriesInv /\ [Next]_vars => EntriesInv'
<1> SUFFICES ASSUME TypeOK, EntriesInv, [Next]_vars, NEW k \in Keys
             PROVE  \/ alerted'[k] = last'[k]
                    \/ alerted'[k] = Never /\ last'[k] > StaleAfter
  BY DEF EntriesInv
<1>0. /\ alerted \in [Keys -> Age] /\ last \in [Keys -> Age]
      /\ alerted[k] \in Age /\ last[k] \in Age
      /\ \/ alerted[k] = last[k]
         \/ alerted[k] = Never /\ last[k] > StaleAfter
  BY DEF TypeOK, EntriesInv
<1>1. CASE Tick
  <2>1. alerted'[k] = Older(alerted[k]) /\ last'[k] = Older(last[k])
    BY <1>1 DEF Tick
  <2>2. last[k] > StaleAfter => Older(last[k]) > StaleAfter
    BY <1>0, Bounds DEF Older, Age, Never, MaxAge
  <2>3. Older(Never) = Never
    BY DEF Older
  <2> QED BY <1>0, <2>1, <2>2, <2>3
<1>2. CASE Judge
  <2>1. alerted'[k] = Kept(alerted[k]) /\ last'[k] = last[k]
    BY <1>2 DEF Judge
  <2> QED BY <1>0, <2>1, Bounds DEF Kept, Age, Never, MaxAge
<1>3. CASE Report
  <2>1. Key \in Keys
    BY <1>3, KeyType DEF Report
  <2>2. /\ alerted' = [alerted EXCEPT ![Key] = 0]
        /\ last' = [last EXCEPT ![Key] = 0]
    BY <1>3 DEF Report
  <2> QED BY <1>0, <2>1, <2>2
<1>4. CASE UNCHANGED <<alerted, last>>
  BY <1>0, <1>4
<1> QED BY <1>1, <1>2, <1>3, <1>4
        DEF Next, ScanStep, Fork, Exec, Exit, OtherEvent, Drain, StartScan, Read, Pick,
            Suppress, Send, Kill, NextProcess, EndScan, vars, ages

(* "Suppress duplicate alert for the same PID & rule within 60 seconds"    *)
(* (ssh_monitor.go:76-81, 178-185): an entry is dropped only when it is    *)
(* too old to suppress anything.                                           *)
THEOREM NoEarlyRepeat == Spec => RepeatsAreApart
<1>1. TypeOK /\ EntriesInv /\ [Next]_vars
        => [(pc = "check" /\ pc' = "send") => ~Recent(last[Key])]_vars
  <2> SUFFICES ASSUME TypeOK, EntriesInv, Next, pc = "check", pc' = "send"
               PROVE  ~Recent(last[Key])
    OBVIOUS
  <2>1. Report
    BY DEF Next, ScanStep, Fork, Exec, Exit, Tick, OtherEvent, Drain, StartScan, Read,
           Pick, Judge, Suppress, Send, Kill, NextProcess, EndScan
  <2>2. Key \in Keys /\ ~Recent(alerted[Key])
    BY <2>1, KeyType DEF Report
  <2>3. /\ last[Key] \in Age
        /\ \/ alerted[Key] = last[Key]
           \/ alerted[Key] = Never /\ last[Key] > StaleAfter
    BY <2>2 DEF TypeOK, EntriesInv
  <2>4. last[Key] > StaleAfter => ~Recent(last[Key])
    BY <2>3, Bounds DEF Recent, Age, Never, MaxAge
  <2> QED BY <2>2, <2>3, <2>4
<1> QED BY <1>1, InitType, NextType, InitEntries, NextEntries, PTL
        DEF Spec, RepeatsAreApart

-----------------------------------------------------------------------------
(* Recursive definitions: induction over a set of numbers, and a function  *)
(* whose every value is a step from the one before.                        *)

LEMMA SetInduction ==
  ASSUME NEW n \in Nat, NEW S, 0 \in S, \A d \in 0..n : d \in S /\ d < n => d + 1 \in S
  PROVE  0..n \subseteq S
<1> DEFINE R == {ss \in Nat \X Nat : ss[1] < ss[2]}
           T == {d \in 0..n : d \notin S}
<1> SUFFICES ASSUME T # {} PROVE FALSE
  OBVIOUS
<1>1. PICK x \in T : \A y \in T : <<y, x>> \notin R
  <2>1. IsWellFoundedOn(R, Nat)
    BY NatLessThanWellFounded DEF OpToRel
  <2>2. T \subseteq Nat
    OBVIOUS
  <2> HIDE DEF R, T
  <2> QED BY <2>1, <2>2, WFMin
<1>2. x \in 1..n /\ x - 1 \in 0..n /\ x - 1 < n /\ x - 1 < x
  OBVIOUS
<1>3. x - 1 \in S
  <2>1. <<x - 1, x>> \in Nat \X Nat /\ <<x - 1, x>>[1] = x - 1 /\ <<x - 1, x>>[2] = x
    BY <1>2
  <2>2. <<x - 1, x>> \in R
    BY <1>2, <2>1
  <2> QED BY <1>1, <1>2, <2>2
<1>4. (x - 1) + 1 \in S
  BY <1>2, <1>3
<1> QED BY <1>2, <1>4

IsIterate(f, n, S, x, g) ==
  f \in [0..n -> S] /\ f[0] = x /\ \A d \in 1..n : f[d] = g[f[d - 1]]

LEMMA Iterates ==
  ASSUME NEW n \in Nat, NEW S, NEW x \in S, NEW g \in [S -> S]
  PROVE  \E f : IsIterate(f, n, S, x, g)
<1> DEFINE Good(m) == \E f \in [0..m -> S] :
                        f[0] = x /\ \A d \in 1..m : f[d] = g[f[d - 1]]
           K == {m \in 0..n : Good(m)}
<1>1. 0 \in K
  <2>1. [d \in 0..0 |-> x] \in [0..0 -> S] /\ [d \in 0..0 |-> x][0] = x /\ 1..0 = {}
    OBVIOUS
  <2>2. Good(0)
    BY <2>1
  <2> QED BY <2>2
<1>2. ASSUME NEW m \in 0..n, m \in K, m < n
      PROVE  m + 1 \in K
  <2>1. PICK f \in [0..m -> S] : f[0] = x /\ \A d \in 1..m : f[d] = g[f[d - 1]]
    BY <1>2
  <2>2. PICK h : h = [d \in 0..(m + 1) |-> IF d = m + 1 THEN g[f[m]] ELSE f[d]]
    OBVIOUS
  <2>3. \A d \in 0..m : h[d] = f[d] /\ f[d] \in S
    BY <2>2
  <2>4. h[m + 1] = g[f[m]] /\ h[m + 1] \in S
    BY <2>2, <2>3
  <2>5. h \in [0..(m + 1) -> S]
    BY <2>2, <2>3, <2>4
  <2>6. ASSUME NEW d \in 1..(m + 1) PROVE h[d] = g[h[d - 1]]
    <3>1. CASE d = m + 1
      <4>1. d - 1 = m /\ m \in 0..m
        BY <3>1
      <4> QED BY <2>3, <2>4, <3>1, <4>1
    <3>2. CASE d # m + 1
      <4>1. d \in 1..m /\ d \in 0..m /\ d - 1 \in 0..m
        BY <3>2
      <4> QED BY <2>1, <2>3, <4>1
    <3> QED BY <3>1, <3>2
  <2>7. h[0] = x
    BY <2>1, <2>3
  <2>8. Good(m + 1)
    BY <2>5, <2>6, <2>7
  <2> QED BY <1>2, <2>8
<1>3. 0..n \subseteq K
  <2> HIDE DEF K
  <2> QED BY <1>1, <1>2, SetInduction
<1>4. Good(n)
  BY <1>3
<1> QED BY <1>4 DEF IsIterate

-----------------------------------------------------------------------------
(* The parent chain, and its reference. *)

Trees == [Pids -> Process \cup {None}]

LEMMA AncestorSteps ==
  ASSUME NEW tree \in Trees, NEW p \in Parents
  PROVE  /\ Ancestor(tree, p, 0) = p
         /\ \A d \in 1..Depth :
              Ancestor(tree, p, d) = Parent(tree, Ancestor(tree, p, d - 1))
         /\ \A d \in 0..Depth : Ancestor(tree, p, d) \in Parents
<1> DEFINE up == CHOOSE f : f = [d \in 0..Depth |->
                                   IF d = 0 THEN p ELSE Parent(tree, f[d - 1])]
           g == [q \in Parents |-> Parent(tree, q)]
<1>1. \A q \in Parents : Parent(tree, q) \in Parents
  BY SnapType DEF Parent, Process, Parents, Trees
<1>2. PICK f \in [0..Depth -> Parents] :
        f[0] = p /\ \A d \in 1..Depth : f[d] = g[f[d - 1]]
  <2>1. g \in [Parents -> Parents] /\ Depth \in Nat
    BY <1>1, NumbersAssumption
  <2>2. \E f : IsIterate(f, Depth, Parents, p, g)
    <3> HIDE DEF g, up
    <3> QED BY <2>1, Iterates
  <2> HIDE DEF up
  <2> QED BY <2>2 DEF IsIterate
<1>3. \A d \in 1..Depth : f[d - 1] \in Parents
  <2>1. \A d \in 1..Depth : d - 1 \in 0..Depth
    BY NumbersAssumption
  <2> QED BY <2>1
<1>4. \A d \in 1..Depth : f[d] = Parent(tree, f[d - 1])
  BY <1>2, <1>3
<1>5. f = [d \in 0..Depth |-> IF d = 0 THEN p ELSE Parent(tree, f[d - 1])]
  <2>1. \A d \in 0..Depth : d = 0 \/ d \in 1..Depth
    BY NumbersAssumption
  <2> QED BY <1>2, <1>4, <2>1
<1>6. up = [d \in 0..Depth |-> IF d = 0 THEN p ELSE Parent(tree, up[d - 1])]
  BY <1>5
<1>7. \A d \in 0..Depth : Ancestor(tree, p, d) = up[d]
  BY Zenon DEF Ancestor
<1> HIDE DEF up
<1>8. /\ 0 \in 0..Depth
      /\ \A d \in 1..Depth : d \in 0..Depth /\ d - 1 \in 0..Depth /\ d # 0
  BY NumbersAssumption
<1>9. up[0] = p /\ \A d \in 1..Depth : up[d] = Parent(tree, up[d - 1])
  <2>1. up[0] = p
    BY <1>6, <1>8
  <2>2. ASSUME NEW d \in 1..Depth PROVE up[d] = Parent(tree, up[d - 1])
    <3>1. d \in 0..Depth /\ d # 0
      BY <1>8
    <3> QED BY <1>6, <3>1
  <2> QED BY <2>1, <2>2
<1>10. 0..Depth \subseteq {d \in 0..Depth : up[d] \in Parents}
  <2> DEFINE S == {d \in 0..Depth : up[d] \in Parents}
  <2>1. 0 \in S
    BY <1>8, <1>9
  <2>2. ASSUME NEW d \in 0..Depth, d \in S, d < Depth PROVE d + 1 \in S
    <3>1. d + 1 \in 1..Depth /\ (d + 1) - 1 = d
      BY <2>2, NumbersAssumption
    <3>2. up[d + 1] = Parent(tree, up[d]) /\ up[d] \in Parents
      BY <1>9, <2>2, <3>1
    <3> QED BY <1>1, <1>8, <3>1, <3>2
  <2>3. Depth \in Nat
    BY NumbersAssumption
  <2> HIDE DEF S
  <2>4. 0..Depth \subseteq S
    BY <2>1, <2>2, <2>3, SetInduction
  <2> QED BY <2>4 DEF S
<1> QED BY <1>7, <1>8, <1>9, <1>10

(* One generation up from below is one generation up from the top.         *)
LEMMA AncestorShift ==
  ASSUME NEW tree \in Trees, NEW p \in Parents, NEW n \in 0..Depth, n < Depth
  PROVE  Ancestor(tree, p, n + 1) = Ancestor(tree, Parent(tree, p), n)
<1> DEFINE q == Parent(tree, p)
           S == {d \in 0..n : Ancestor(tree, p, d + 1) = Ancestor(tree, q, d)}
<1>1. q \in Parents
  BY SnapType DEF Parent, Process, Parents, Trees
<1>2. Depth \in Nat /\ Depth > 0 /\ n \in Nat
  BY NumbersAssumption
<1> HIDE DEF q
<1>3. 0 \in S
  <2>1. /\ Ancestor(tree, p, 0) = p /\ Ancestor(tree, q, 0) = q
        /\ 1 \in 1..Depth /\ 1 - 1 = 0 /\ 0 + 1 = 1 /\ 0 \in 0..n
    BY <1>1, <1>2, AncestorSteps
  <2>2. Ancestor(tree, p, 1) = Parent(tree, Ancestor(tree, p, 1 - 1))
    BY <2>1, AncestorSteps
  <2> QED BY <2>1, <2>2 DEF q
<1>4. ASSUME NEW d \in 0..n, d \in S, d < n PROVE d + 1 \in S
  <2>1. /\ d + 1 \in 1..Depth /\ (d + 1) + 1 \in 1..Depth /\ d + 1 \in 0..n
        /\ (d + 1) - 1 = d /\ ((d + 1) + 1) - 1 = d + 1
    BY <1>2, <1>4
  <2>2. Ancestor(tree, p, (d + 1) + 1) = Parent(tree, Ancestor(tree, p, d + 1))
    BY <2>1, AncestorSteps
  <2>3. Ancestor(tree, q, d + 1) = Parent(tree, Ancestor(tree, q, d))
    BY <1>1, <2>1, AncestorSteps
  <2> QED BY <1>4, <2>1, <2>2, <2>3
<1>5. 0..n \subseteq S
  <2> HIDE DEF S
  <2> QED BY <1>2, <1>3, <1>4, SetInduction
<1> QED BY <1>2, <1>5 DEF q

(* The chain stays at PID 1.                                               *)
LEMMA TopOfChain ==
  ASSUME NEW tree \in Trees, NEW n \in 0..Depth
  PROVE  Ancestor(tree, "init", n) = "init"
<1> DEFINE S == {d \in 0..n : Ancestor(tree, "init", d) = "init"}
<1>1. Depth \in Nat /\ n \in Nat /\ "init" \in Parents /\ Parent(tree, "init") = "init"
  BY NumbersAssumption, NoneAssumption DEF Parents, Parent, Alive
<1>2. 0 \in S
  BY <1>1, AncestorSteps
<1>3. ASSUME NEW d \in 0..n, d \in S, d < n PROVE d + 1 \in S
  <2>1. d + 1 \in 1..Depth /\ (d + 1) - 1 = d /\ d + 1 \in 0..n
    BY <1>1, <1>3
  <2>2. Ancestor(tree, "init", d + 1) = Parent(tree, Ancestor(tree, "init", d))
    BY <1>1, <2>1, AncestorSteps
  <2> QED BY <1>1, <1>3, <2>1, <2>2
<1>4. 0..n \subseteq S
  <2> HIDE DEF S
  <2> QED BY <1>1, <1>2, <1>3, SetInduction
<1> QED BY <1>1, <1>4

(* The processes that Below reaches in d steps.                            *)
Named == {p \in Parents : NamedSSH(table, p)}
NextBelow(R) == R \cup {p \in Alive(table) : table[p].ppid \in R}
Reach == CHOOSE r : r = [d \in 0..Depth |->
                           IF d = 0 THEN Named ELSE NextBelow(r[d - 1])]

LEMMA ReachSteps ==
  ASSUME TypeOK
  PROVE  /\ Below(Depth) = {p \in Alive(table) : table[p].ppid \in Reach[Depth - 1]}
         /\ Reach[0] = Named
         /\ \A d \in 1..Depth : Reach[d] = NextBelow(Reach[d - 1])
<1> DEFINE g == [R \in SUBSET Parents |-> NextBelow(R)]
<1>1. /\ Named \in SUBSET Parents
      /\ \A R \in SUBSET Parents : NextBelow(R) \in SUBSET Parents
  BY DEF Named, NextBelow, Alive, Parents
<1>2. PICK f \in [0..Depth -> SUBSET Parents] :
        f[0] = Named /\ \A d \in 1..Depth : f[d] = g[f[d - 1]]
  <2>1. g \in [SUBSET Parents -> SUBSET Parents] /\ Depth \in Nat
    BY <1>1, NumbersAssumption
  <2>2. \E f : IsIterate(f, Depth, SUBSET Parents, Named, g)
    <3> HIDE DEF g
    <3> QED BY <1>1, <2>1, Iterates
  <2> QED BY <2>2 DEF IsIterate
<1>3. \A d \in 1..Depth : f[d - 1] \in SUBSET Parents
  <2>1. \A d \in 1..Depth : d - 1 \in 0..Depth
    BY NumbersAssumption
  <2> QED BY <2>1
<1>4. \A d \in 1..Depth : f[d] = NextBelow(f[d - 1])
  BY <1>2, <1>3
<1>5. f = [d \in 0..Depth |-> IF d = 0 THEN Named ELSE NextBelow(f[d - 1])]
  <2>1. \A d \in 0..Depth : d = 0 \/ d \in 1..Depth
    BY NumbersAssumption
  <2> QED BY <1>2, <1>4, <2>1
<1>6. Reach = [d \in 0..Depth |-> IF d = 0 THEN Named ELSE NextBelow(Reach[d - 1])]
  BY <1>5 DEF Reach
<1>7. Below(Depth) = {p \in Alive(table) : table[p].ppid \in Reach[Depth - 1]}
  BY Zenon DEF Below, Reach, Named, NextBelow
<1>8. 0 \in 0..Depth /\ \A d \in 1..Depth : d \in 0..Depth /\ d # 0
  BY NumbersAssumption
<1>9. Reach[0] = Named
  BY <1>6, <1>8
<1>10. ASSUME NEW d \in 1..Depth PROVE Reach[d] = NextBelow(Reach[d - 1])
  <2>1. d \in 0..Depth /\ d # 0
    BY <1>8
  <2> QED BY <1>6, <2>1
<1> QED BY <1>7, <1>9, <1>10

(* What is reached in n steps has an sshd among itself and n generations.  *)
LEMMA ReachIsAncestry ==
  ASSUME TypeOK, NEW n \in 0..Depth
  PROVE  \A p \in Parents :
           p \in Reach[n] <=> \E e \in 0..n : NamedSSH(table, Ancestor(table, p, e))
<1> DEFINE Holds(d) == \A p \in Parents :
             p \in Reach[d] <=> \E e \in 0..d : NamedSSH(table, Ancestor(table, p, e))
           S == {d \in 0..n : Holds(d)}
<1>1. table \in Trees /\ Depth \in Nat /\ n \in Nat
  BY NumbersAssumption DEF TypeOK, Trees
<1>2. 0 \in S
  <2>1. ASSUME NEW p \in Parents
        PROVE  p \in Reach[0] <=> \E e \in 0..0 : NamedSSH(table, Ancestor(table, p, e))
    <3>1. Ancestor(table, p, 0) = p /\ Reach[0] = Named /\ 0..0 = {0}
      BY <1>1, AncestorSteps, ReachSteps
    <3> QED BY <3>1 DEF Named
  <2>2. Holds(0) /\ 0 \in 0..n
    BY <1>1, <2>1
  <2> QED BY <2>2
<1>3. ASSUME NEW d \in 0..n, d \in S, d < n PROVE d + 1 \in S
  <2>1. /\ d + 1 \in 1..Depth /\ (d + 1) - 1 = d
        /\ d < Depth /\ d \in Nat /\ d + 1 \in 0..n
    BY <1>1, <1>3
  <2>2. Reach[d + 1] = NextBelow(Reach[d])
    BY <2>1, ReachSteps
  <2>3. ASSUME NEW p \in Parents
        PROVE  p \in Reach[d + 1] <=>
                 \E e \in 0..(d + 1) : NamedSSH(table, Ancestor(table, p, e))
    <3>1. p \in Reach[d] <=> \E e \in 0..d : NamedSSH(table, Ancestor(table, p, e))
      BY <1>3
    <3>2. CASE p \in Alive(table)
      <4>1. Parent(table, p) = table[p].ppid /\ Parent(table, p) \in Parents
        BY <1>1, <3>2, SnapType DEF Parent, Process, Parents, Trees
      <4>2. Parent(table, p) \in Reach[d] <=>
              \E e \in 0..d : NamedSSH(table, Ancestor(table, Parent(table, p), e))
        BY <1>3, <4>1
      <4>3. \A e \in 0..d :
              Ancestor(table, p, e + 1) = Ancestor(table, Parent(table, p), e)
        <5>1. \A e \in 0..d : e \in 0..Depth /\ e < Depth
          BY <1>1, <2>1
        <5> QED BY <1>1, <5>1, AncestorShift
      <4>4. p \in Reach[d + 1] <=>
              \/ \E e \in 0..d : NamedSSH(table, Ancestor(table, p, e))
              \/ \E e \in 0..d : NamedSSH(table, Ancestor(table, p, e + 1))
        BY <2>2, <3>1, <3>2, <4>1, <4>2, <4>3 DEF NextBelow
      <4>5. /\ \A e \in 0..d : e \in 0..(d + 1) /\ e + 1 \in 0..(d + 1)
            /\ \A e \in 0..(d + 1) : e \in 0..d \/ (e - 1 \in 0..d /\ (e - 1) + 1 = e)
        BY <2>1
      <4> QED BY <4>4, <4>5
    <3>3. CASE p \notin Alive(table)
      <4>1. p \in Reach[d + 1] <=> p \in Reach[d]
        BY <2>2, <3>3 DEF NextBelow
      <4>2. ASSUME NEW e \in 0..(d + 1), NamedSSH(table, Ancestor(table, p, e))
            PROVE  \E i \in 0..d : NamedSSH(table, Ancestor(table, p, i))
        <5>1. CASE e = 0
          <6>1. 0 \in 0..d
            BY <2>1
          <6> QED BY <4>2, <5>1, <6>1
        <5>2. CASE e # 0
          <6>1. Parent(table, p) = "init" /\ "init" \notin Alive(table)
            BY <3>3, NoneAssumption DEF Parent, Alive
          <6>2. "init" \in Parents
            BY DEF Parents
          <6>3. e - 1 \in 0..Depth /\ e - 1 < Depth /\ (e - 1) + 1 = e
            BY <1>1, <2>1, <5>2
          <6>4. Ancestor(table, p, e) = Ancestor(table, "init", e - 1)
            BY <1>1, <6>1, <6>3, AncestorShift
          <6>5. Ancestor(table, "init", e - 1) = "init"
            BY <1>1, <6>3, TopOfChain
          <6> QED BY <4>2, <6>1, <6>4, <6>5 DEF NamedSSH
        <5> QED BY <5>1, <5>2
      <4>3. \A e \in 0..d : e \in 0..(d + 1)
        BY <2>1
      <4> QED BY <3>1, <4>1, <4>2, <4>3
    <3> QED BY <3>2, <3>3
  <2> QED BY <2>1, <2>3
<1>4. 0..n \subseteq S
  <2> HIDE DEF S
  <2> QED BY <1>1, <1>2, <1>3, SetInduction
<1> QED BY <1>1, <1>4

(* isChildOfSSH follows the parent chain of every process by itself; what  *)
(* it finds are the processes reached from sshd (ssh_monitor.go:285-306).  *)
LEMMA ChildrenAreBelow ==
  ASSUME TypeOK, NEW p \in Alive(table)
  PROVE  isChildOfSSH(table, p) <=> p \in Below(Depth)
<1>1. table \in Trees /\ Depth \in Nat /\ Depth > 0
  BY NumbersAssumption DEF TypeOK, Trees
<1>2. p \in Parents /\ Parent(table, p) = table[p].ppid /\ table[p].ppid \in Parents
  BY <1>1, SnapType DEF Parent, Process, Parents, Trees
<1>3. p \in Below(Depth) <=> table[p].ppid \in Reach[Depth - 1]
  BY ReachSteps
<1>4. Depth - 1 \in 0..Depth
  BY <1>1
<1>5. table[p].ppid \in Reach[Depth - 1]
        <=> \E e \in 0..(Depth - 1) : NamedSSH(table, Ancestor(table, table[p].ppid, e))
  BY <1>2, <1>4, ReachIsAncestry
<1>6. \A e \in 0..(Depth - 1) :
        Ancestor(table, p, e + 1) = Ancestor(table, table[p].ppid, e)
  <2>1. \A e \in 0..(Depth - 1) : e \in 0..Depth /\ e < Depth
    BY <1>1
  <2> QED BY <1>1, <1>2, <2>1, AncestorShift
<1>7. p \in Below(Depth)
        <=> \E e \in 0..(Depth - 1) : NamedSSH(table, Ancestor(table, p, e + 1))
  BY <1>3, <1>5, <1>6
<1>8. /\ \A e \in 0..(Depth - 1) : e + 1 \in 1..Depth
      /\ \A d \in 1..Depth : d - 1 \in 0..(Depth - 1) /\ (d - 1) + 1 = d
  BY <1>1
<1> QED BY <1>7, <1>8 DEF isChildOfSSH

(* The processes that a scan picks out are those with an sshd within Depth *)
(* generations above them, at every moment (ssh_monitor.go:95-105,         *)
(* 285-306).                                                               *)
THEOREM ChildrenRight ==
  Spec => [](\A p \in Alive(table) : isChildOfSSH(table, p) <=> p \in Below(Depth))
<1>1. TypeOK => \A p \in Alive(table) : isChildOfSSH(table, p) <=> p \in Below(Depth)
  BY ChildrenAreBelow
<1> QED BY <1>1, TypeCorrect, PTL

-----------------------------------------------------------------------------
(* What a scan saw. *)

LEMMA InitSnap == Init => SnapInv
BY DEF Init, SnapInv

LEMMA NextSnap == TypeOK /\ SnapInv /\ [Next]_vars => SnapInv'
<1> SUFFICES ASSUME TypeOK, SnapInv, [Next]_vars PROVE SnapInv'
  OBVIOUS
<1>1. ASSUME NEW c \in Configs, StartScan(c)
      PROVE  SnapInv'
  <2>1. /\ pc' = "read" /\ unread' = Alive(table) /\ snap' = snap /\ table' = table
        /\ snap = Nobody
    BY <1>1 DEF StartScan, SnapInv, machine
  <2> QED BY <2>1 DEF SnapInv, Nobody, Alive
<1>2. ASSUME NEW p \in Pids, Read(p)
      PROVE  SnapInv'
  <2>1. /\ unread' = unread \ {p} /\ snap' = [snap EXCEPT ![p] = table[p]]
        /\ table' = table /\ still' = still /\ pc = "read" /\ pc' = "read"
    BY <1>2 DEF Read, machine
  <2>2. snap \in [Pids -> Process \cup {None}]
    BY DEF TypeOK
  <2> QED BY <2>1, <2>2 DEF SnapInv
<1>3. CASE \E p \in Pids :
             \/ Exit(p) \/ \E prog \in Programs : Exec(p, prog)
             \/ \E parent \in Parents, prog \in Programs : Fork(p, parent, prog)
  <2>1. still' = FALSE /\ UNCHANGED <<pc, snap>>
    BY <1>3 DEF Exit, Exec, Fork, scan
  <2> QED BY <2>1 DEF SnapInv
<1>4. CASE Tick \/ OtherEvent \/ Drain \/ UNCHANGED vars
  <2>1. UNCHANGED <<pc, snap, still, table, unread>>
    BY <1>4 DEF Tick, OtherEvent, Drain, vars, machine, scan
  <2> QED BY <2>1 DEF SnapInv
<1>5. CASE Judge \/ Suppress \/ Report \/ Send \/ Kill \/ NextProcess
           \/ \E p \in Pids : Pick(p)
  <2>1. pc' \notin {"sleep", "read"}
    BY <1>5 DEF Judge, Suppress, Report, Send, Kill, NextProcess, Pick
  <2> QED BY <2>1 DEF SnapInv
<1>6. CASE EndScan
  BY <1>6 DEF EndScan, SnapInv
<1> QED BY <1>1, <1>2, <1>3, <1>4, <1>5, <1>6 DEF Next, ScanStep

-----------------------------------------------------------------------------
(* What a scan owes. *)

LEMMA InitDue == Init => DueInv
BY DEF Init, DueInv

(* Time does not make an event too old for the scan that is under way.     *)
LEMMA FreshTick ==
  ASSUME TypeOK, Tick, NEW k \in Keys, begun >= 0, Fresh(k)
  PROVE  Fresh(k)'
<1>1. last[k] \in Age /\ begun \in Age /\ last[k] # Never
  BY DEF TypeOK, Fresh
<1>2. last[k] \in 0..MaxAge /\ begun \in 0..MaxAge /\ MaxAge \in Nat
  BY <1>1, Bounds DEF Age, Never, MaxAge
<1>3. last'[k] = Older(last[k]) /\ begun' = Older(begun)
  BY DEF Tick
<1>4. Older(last[k]) < SuppressFor + Older(begun) /\ Older(last[k]) # Never
  <2> HIDE DEF MaxAge
  <2> QED BY <1>2, Bounds DEF Fresh, Older, Never
<1> QED BY <1>3, <1>4 DEF Fresh

(* A judged machine that was read undisturbed: every offence is one of a   *)
(* process to evaluate.                                                    *)
LEMMA JudgeDue ==
  ASSUME TypeOK, SnapInv, DueInv, Judge
  PROVE  DueInv'
<1>1. /\ pc' = "pick" /\ pc = "read" /\ snap' = snap /\ cfg' = cfg /\ begun' = begun
      /\ due' = IF still THEN Offences(cfg) ELSE {}
      /\ todo' = {p \in Alive(snap) : isChildOfSSH(snap, p)}
  BY DEF Judge
<1>2. begun' >= 0
  BY <1>1 DEF DueInv
<1>3. ASSUME NEW k \in due'
      PROVE  /\ k[1] \in Alive(snap) /\ k[2] \in Broken(snap[k[1]].prog, cfg)
             /\ k[1] \in todo'
  <2>1. /\ still /\ k \in Keys /\ k[1] \in Below(Depth)
        /\ k[2] \in Broken(table[k[1]].prog, cfg)
    BY <1>1, <1>3 DEF Offences
  <2>2. snap = table
    <3>1. \A p \in Pids : snap[p] = table[p]
      BY <2>1 DEF SnapInv, Judge
    <3> QED BY <3>1 DEF TypeOK
  <2>3. k[1] \in Alive(table)
    BY <2>1 DEF Below
  <2>4. isChildOfSSH(table, k[1])
    BY <2>1, <2>3, ChildrenAreBelow
  <2> QED BY <1>1, <2>1, <2>2, <2>3, <2>4
<1>4. Alive(snap)' = Alive(snap)
  BY <1>1 DEF Alive
<1> QED BY <1>1, <1>2, <1>3, <1>4 DEF DueInv

LEMMA PickDue ==
  ASSUME TypeOK, DueInv, NEW p \in Pids, Pick(p)
  PROVE  DueInv'
<1>1. /\ pc' = "check" /\ pc = "pick" /\ snap' = snap /\ cfg' = cfg /\ begun' = begun
      /\ due' = due /\ last' = last /\ todo' = todo \ {p} /\ cur' = p
      /\ checks' = Violations(snap[p].prog, cfg)
  BY DEF Pick, ages
<1>2. cur = None
  BY <1>1 DEF TypeOK
<1>3. ASSUME NEW k \in due
      PROVE  \/ k[1] \in todo' \/ Fresh(k)'
             \/ k[1] = cur' /\ \E i \in 1..Len(checks') : k[2] = Rule[checks'[i]]
  <2>1. k[1] \in Alive(snap) /\ k[2] \in Broken(snap[k[1]].prog, cfg)
    BY DEF DueInv
  <2>2. k[1] # None
    BY <2>1, NoneAssumption DEF Alive
  <2>3. k[1] \in todo \/ Fresh(k)
    BY <1>2, <2>2 DEF DueInv
  <2>4. CASE k[1] = p
    BY <1>1, <2>1, <2>4 DEF Broken
  <2>5. CASE k[1] # p
    BY <1>1, <2>3, <2>5 DEF Fresh
  <2> QED BY <2>4, <2>5
<1>4. Alive(snap)' = Alive(snap)
  BY <1>1 DEF Alive
<1> QED BY <1>1, <1>3, <1>4 DEF DueInv

(* A check that has an event is dealt with; the others are left to do.     *)
LEMMA TailDue ==
  ASSUME TypeOK, DueInv, UNCHANGED <<snap, cfg, todo, cur, last, begun, due>>,
         pc \in {"check", "kill"}, pc' = "check", checks # << >>,
         checks' = Tail(checks), Fresh(Key)
  PROVE  DueInv'
<1>1. checks \in Seq(Checks) /\ Len(checks) \in Nat /\ Len(checks) > 0
  <2>1. checks \in Seq(Checks)
    BY RuleOfCheck DEF TypeOK
  <2> QED BY <2>1, EmptySeq, LenProperties
<1>2. ASSUME NEW k \in due, k[1] = cur, NEW i \in 1..Len(checks), k[2] = Rule[checks[i]]
      PROVE  Fresh(k) \/ \E j \in 1..Len(checks') : k[2] = Rule[checks'[j]]
  <2>1. CASE i = 1
    <3>1. Head(checks) = checks[1]
      BY <1>1
    <3>2. k = <<k[1], k[2]>>
      BY DEF TypeOK, Keys
    <3>3. k = Key
      BY <1>2, <2>1, <3>1, <3>2 DEF Key
    <3> QED BY <3>3
  <2>2. CASE i # 1
    <3>1. /\ Len(Tail(checks)) = Len(checks) - 1
          /\ i - 1 \in 1..Len(Tail(checks)) /\ Tail(checks)[i - 1] = checks[i]
      BY <1>1, <2>2, HeadTailProperties
    <3> QED BY <1>2, <3>1
  <2> QED BY <2>1, <2>2
<1>3. Alive(snap)' = Alive(snap) /\ \A k : Fresh(k)' <=> Fresh(k)
  BY DEF Alive, Fresh
<1>4. ASSUME NEW k \in due
      PROVE  \/ k[1] \in todo' \/ Fresh(k)'
             \/ k[1] = cur' /\ \E i \in 1..Len(checks') : k[2] = Rule[checks'[i]]
  BY <1>2, <1>3 DEF DueInv
<1>5. /\ due' = due /\ begun' >= 0 /\ snap' = snap /\ cfg' = cfg
      /\ pc' \notin {"sleep", "read", "send", "kill"}
  BY DEF DueInv
<1> QED BY <1>3, <1>4, <1>5 DEF DueInv

(* Steps that leave the scan and the events as they are.                   *)
LEMMA StillDue ==
  ASSUME TypeOK, DueInv, UNCHANGED <<pc, scan, last, begun, due>>
  PROVE  DueInv'
BY DEF DueInv, scan, Alive, Fresh, Key

LEMMA TickDue ==
  ASSUME TypeOK, DueInv, Tick
  PROVE  DueInv'
<1>1. UNCHANGED <<pc, cfg, snap, todo, cur, checks, due>>
  BY DEF Tick, scan
<1>2. CASE pc = "sleep"
  <2>1. due' = {} /\ pc' = "sleep"
    BY <1>1, <1>2 DEF DueInv
  <2> QED BY <2>1 DEF DueInv
<1>3. CASE pc # "sleep"
  <2>1. begun \in Age /\ begun >= 0
    BY <1>3 DEF TypeOK, DueInv
  <2>2. begun' >= 0
    BY <2>1, Bounds DEF Tick, Older, Never, Age, MaxAge
  <2>3. \A k \in due : k \in Keys /\ (Fresh(k) => Fresh(k)')
    BY <2>1, FreshTick DEF TypeOK
  <2>4. pc \in {"send", "kill"} => Key \in Keys /\ Fresh(Key)
    BY KeyType DEF TypeOK, DueInv
  <2>5. Key' = Key
    BY <1>1 DEF Key
  <2>6. pc \in {"send", "kill"} => Fresh(Key)'
    <3> SUFFICES ASSUME pc \in {"send", "kill"} PROVE Fresh(Key)'
      OBVIOUS
    <3>1. PICK k \in Keys : k = Key /\ Fresh(k)
      BY <2>4
    <3>2. Fresh(k)'
      BY <2>1, <3>1, FreshTick
    <3> QED BY <2>5, <3>1, <3>2 DEF Fresh
  <2>7. Alive(snap)' = Alive(snap)
    BY <1>1 DEF Alive
  <2> QED BY <1>1, <2>2, <2>3, <2>6, <2>7 DEF DueInv
<1> QED BY <1>2, <1>3

LEMMA ReportDue ==
  ASSUME TypeOK, DueInv, Report
  PROVE  DueInv'
<1>1. /\ pc = "check" /\ pc' = "send" /\ UNCHANGED <<scan, begun, due>>
      /\ last' = [last EXCEPT ![Key] = 0]
  BY DEF Report
<1>2. Key \in Keys /\ Key' = Key
  BY <1>1, KeyType DEF Report, Key, scan
<1>3. begun \in Int /\ begun >= 0 /\ last \in [Keys -> Age]
  BY <1>1, Bounds DEF TypeOK, DueInv, Age, Never, MaxAge
<1>4. ASSUME NEW k \in Keys, k = Key \/ Fresh(k) PROVE Fresh(k)'
  <2>1. CASE k = Key
    <3>1. last'[k] = 0
      BY <1>1, <1>2, <1>3, <2>1
    <3> QED BY <1>1, <1>3, <3>1, Bounds DEF Fresh, Never
  <2>2. CASE k # Key
    <3>1. last'[k] = last[k]
      BY <1>1, <1>3, <2>2
    <3> QED BY <1>1, <1>4, <2>2, <3>1 DEF Fresh
  <2> QED BY <2>1, <2>2
<1>5. Fresh(Key)'
  <2>1. PICK k \in Keys : k = Key
    BY <1>2
  <2>2. Fresh(k)'
    BY <1>4, <2>1
  <2> QED BY <1>2, <2>1, <2>2 DEF Fresh
<1>6. \A k \in due : Fresh(k) => Fresh(k)'
  BY <1>4 DEF TypeOK
<1>7. UNCHANGED <<cfg, snap, todo, cur, checks>> /\ Alive(snap)' = Alive(snap)
  BY <1>1 DEF scan, Alive
<1> QED BY <1>1, <1>3, <1>5, <1>6, <1>7 DEF DueInv

LEMMA NextDue ==
  TypeOK /\ EntriesInv /\ SnapInv /\ DueInv /\ [Next]_vars => DueInv'
<1> SUFFICES ASSUME TypeOK, EntriesInv, SnapInv, DueInv, [Next]_vars
             PROVE  DueInv'
  OBVIOUS
<1>1. CASE Judge
  BY <1>1, JudgeDue
<1>2. CASE \E p \in Pids : Pick(p)
  BY <1>2, PickDue
<1>3. CASE Tick
  BY <1>3, TickDue
<1>4. CASE Report
  BY <1>4, ReportDue
<1>5. CASE Suppress
  <2>1. Key \in Keys /\ Recent(alerted[Key])
    BY <1>5, KeyType DEF Suppress
  <2>2. /\ last[Key] \in Age /\ begun \in Age /\ begun >= 0
        /\ \/ alerted[Key] = last[Key]
           \/ alerted[Key] = Never /\ last[Key] > StaleAfter
    BY <1>5, <2>1 DEF TypeOK, EntriesInv, DueInv, Suppress
  <2>3. Fresh(Key)
    BY <2>1, <2>2, Bounds DEF Recent, Fresh, Age, Never, MaxAge
  <2> QED BY <1>5, <2>3, TailDue DEF Suppress, ages
<1>6. CASE Kill
  <2>1. Fresh(Key) /\ checks # << >>
    BY <1>6 DEF Kill, DueInv, TypeOK
  <2> QED BY <1>6, <2>1, TailDue DEF Kill, ages
<1>7. CASE Send
  BY <1>7 DEF Send, DueInv, scan, ages, Alive, Fresh, Key
<1>8. CASE NextProcess
  <2>1. /\ pc' = "pick" /\ pc = "check" /\ checks = << >>
        /\ UNCHANGED <<cfg, snap, todo, last, begun, due>>
    BY <1>8 DEF NextProcess, ages
  <2>2. \A k \in due : k[1] \in todo \/ Fresh(k)
    BY <2>1 DEF DueInv
  <2> QED BY <2>1, <2>2 DEF DueInv, Alive, Fresh
<1>9. CASE EndScan
  BY <1>9 DEF EndScan, DueInv
<1>10. CASE (\E c \in Configs : StartScan(c)) \/ \E p \in Pids : Read(p)
  BY <1>10 DEF StartScan, Read, ages, DueInv
<1>11. CASE \/ OtherEvent \/ Drain \/ UNCHANGED vars
            \/ \E p \in Pids :
                 \/ Exit(p) \/ \E prog \in Programs : Exec(p, prog)
                 \/ \E parent \in Parents, prog \in Programs : Fork(p, parent, prog)
  <2>1. UNCHANGED <<pc, scan, last, begun, due>>
    BY <1>11 DEF OtherEvent, Drain, Exit, Exec, Fork, vars, scan, ages
  <2> QED BY <2>1, StillDue
<1> QED BY <1>1, <1>2, <1>3, <1>4, <1>5, <1>6, <1>7, <1>8, <1>9, <1>10, <1>11
        DEF Next, ScanStep

(* Every offence that an undisturbed scan had to see has an event when the *)
(* scan ends: none is left out by the walk over the processes, by the      *)
(* order of the checks or by the suppression, whatever happens to the      *)
(* processes meanwhile (ssh_monitor.go:95-159, 162-183).                   *)
THEOREM OffencesFound == Spec => []OffencesReported
<1>1. TypeOK /\ DueInv => OffencesReported
  <2> SUFFICES ASSUME TypeOK, DueInv, pc = "pick", todo = {}, NEW k \in due
               PROVE  Fresh(k)
    BY DEF OffencesReported, Fresh
  <2>1. cur = None /\ k[1] \in Pids
    BY DEF TypeOK, Keys
  <2> QED BY <2>1, NoneAssumption DEF DueInv
<1> QED BY <1>1, InitType, NextType, InitEntries, NextEntries, InitSnap, NextSnap,
           InitDue, NextDue, PTL DEF Spec
=============================================================================
