------------------------------ MODULE Monitor -------------------------------
(***************************************************************************)
(* The SSH process monitor (internal/collector/ssh_monitor.go): the scan   *)
(* of /proc, process by process, the judgement of what runs below sshd,    *)
(* the suppression of repeated events, the event channel that can block,   *)
(* and the kill of a PID that was read before all that, while processes    *)
(* start, execute other programs, end, and their PIDs are used again.      *)
(*                                                                         *)
(* Times are ages, which stop growing at MaxAge: the clock needs no bound. *)
(***************************************************************************)
EXTENDS Integers, Sequences

CONSTANTS
  Pids,         \* the PIDs that come and go
  None,         \* no process has the PID
  Programs,     \* what a process can run
  Sshd, Shells, System, Heavy,   \* the programs named like sshd, the shells,
                \* the system's own, and those above the limit of memory
  Configs,      \* the settings that can be in force when a scan begins
  Depth,        \* generations the parent chain is followed, 5 in the code
  SuppressFor,  \* an event is not repeated for so long, 60 s in the code
  StaleAfter,   \* and is forgotten after so long, 120 s in the code
  ChanCap,      \* capacity of eventChan, 1000 in the code
  MaxChanges    \* bound: processes that start or execute a program

Config == [ram : BOOLEAN, shells : BOOLEAN, processes : BOOLEAN,
           blocks : SUBSET Programs, whitelist : BOOLEAN,
           allows : SUBSET Programs, kill : BOOLEAN]

ASSUME ProgramsAssumption ==
  /\ Sshd \subseteq Programs /\ Shells \subseteq Programs
  /\ System \subseteq Programs /\ Heavy \subseteq Programs
ASSUME ConfigsAssumption == Configs \subseteq Config /\ Configs # {}
ASSUME NumbersAssumption ==
  /\ Depth \in Nat \ {0} /\ SuppressFor \in Nat \ {0} /\ ChanCap \in Nat \ {0}
  /\ StaleAfter \in Nat /\ SuppressFor <= StaleAfter /\ MaxChanges \in Nat

(* PID 1, and the daemon, a child of it that is always there. *)
Parents == Pids \cup {"init", "daemon"}
Process == [id : 1..MaxChanges, ppid : Parents, prog : Programs]

ASSUME NoneAssumption ==
  None \notin Process \cup Pids /\ {"init", "daemon"} \cap Pids = {}

(* The rule description that an event of each check carries. *)
Rule == [ram |-> "resource", shell |-> "shell", process |-> "process",
         blocked |-> "process", unlisted |-> "process"]
Keys == Pids \X {"resource", "shell", "process"}

Never == -1
MaxAge == StaleAfter + 1
Age == Never..MaxAge
Older(n) == IF n = Never \/ n = MaxAge THEN n ELSE n + 1

VARIABLES
  table,    \* the processes of the machine
  changes,
  pending,  \* events in eventChan
  pc,       \* checkProcesses and emitViolation
  cfg,      \* the settings of this scan, a copy, or None
  unread,   \* PIDs listed in /proc and not yet read
  snap,     \* procs: what was read
  todo,     \* the children of sshd still to evaluate
  cur,      \* the PID under evaluation
  checks,   \* the checks it has failed and that are not yet dealt with
  alerted,  \* alertedPIDs: age of the entry for a PID and a rule
  last,     \* ghost: age of the last event for a PID and a rule
  begun,    \* ghost: age of this scan
  still,    \* ghost: no process changed since the scan began
  due       \* ghost: offences that this scan had to see

machine == <<table, changes>>
ages == <<alerted, last, begun>>
scan == <<cfg, unread, snap, todo, cur, checks>>
vars == <<machine, pending, pc, scan, ages, still, due>>

Nobody == [p \in Pids |-> None]
Alive(tree) == {p \in Pids : tree[p] # None}

Init ==
  /\ table = Nobody /\ changes = 0
  /\ pending = 0
  /\ pc = "sleep"
  /\ cfg = None
  /\ unread = {} /\ snap = Nobody /\ todo = {} /\ cur = None /\ checks = << >>
  /\ alerted = [k \in Keys |-> Never]
  /\ last = [k \in Keys |-> Never] /\ begun = Never
  /\ still = FALSE /\ due = {}

-----------------------------------------------------------------------------
(* The machine, the clock, and the others that use the event channel. *)

Fork(p, parent, prog) ==
  /\ changes < MaxChanges /\ changes' = changes + 1
  /\ p \notin Alive(table) /\ parent \in Alive(table) \cup {"init", "daemon"}
  /\ table' = [table EXCEPT ![p] = [id |-> changes + 1, ppid |-> parent, prog |-> prog]]
  /\ still' = FALSE
  /\ UNCHANGED <<pending, pc, scan, ages, due>>

Exec(p, prog) ==
  /\ changes < MaxChanges /\ changes' = changes + 1
  /\ p \in Alive(table) /\ table[p].prog # prog
  /\ table' = [table EXCEPT ![p].prog = prog]
  /\ still' = FALSE
  /\ UNCHANGED <<pending, pc, scan, ages, due>>

(* The machine without the process p, whose children go to PID 1. *)
Without(p) ==
  [q \in Pids |->
     IF q = p THEN None
     ELSE IF q \in Alive(table) /\ table[q].ppid = p
          THEN [table[q] EXCEPT !.ppid = "init"] ELSE table[q]]

Exit(p) ==
  /\ p \in Alive(table)
  /\ table' = Without(p)
  /\ still' = FALSE
  /\ UNCHANGED <<changes, pending, pc, scan, ages, due>>

Tick ==
  /\ alerted' = [k \in Keys |-> Older(alerted[k])]
  /\ last' = [k \in Keys |-> Older(last[k])]
  /\ begun' = Older(begun)
  /\ UNCHANGED <<machine, pending, pc, scan, still, due>>

(* The normalizer sends an event; the engine receives one. *)
OtherEvent ==
  /\ pending < ChanCap /\ pending' = pending + 1
  /\ UNCHANGED <<machine, pc, scan, ages, still, due>>

Drain ==
  /\ pending > 0 /\ pending' = pending - 1
  /\ UNCHANGED <<machine, pc, scan, ages, still, due>>

-----------------------------------------------------------------------------
(* The judgement of a process. *)

NamedSSH(tree, p) ==
  p = "daemon" \/ (p \in Alive(tree) /\ tree[p].prog \in Sshd)

Parent(tree, p) == IF p \in Alive(tree) THEN tree[p].ppid ELSE "init"

(* The n-th generation above p. *)
Ancestor(tree, p, n) ==
  LET up[d \in 0..Depth] == IF d = 0 THEN p ELSE Parent(tree, up[d - 1])
  IN  up[n]

(* Mutant of isChildOfSSH: one generation too few. *)
isNearChildOfSSH(tree, p) ==
  \E d \in 1..(Depth - 1) : NamedSSH(tree, Ancestor(tree, p, d))

isChildOfSSH(tree, p) ==
  \E d \in 1..Depth : NamedSSH(tree, Ancestor(tree, p, d))

OnlyIf(fails, check) == IF fails THEN <<check>> ELSE << >>

(* The checks that fail, in their order.  The check of the processor never *)
(* fails: getAllProcesses gives every process a CPUPercent of 0.           *)
Violations(prog, c) ==
  LET isShell == prog \in Shells
      isOther == prog \notin Shells \cup System \cup Sshd
  IN  OnlyIf(c.ram /\ prog \in Heavy, "ram")
        \o OnlyIf(~c.shells /\ isShell, "shell")
        \o OnlyIf(~c.processes /\ isOther, "process")
        \o OnlyIf(prog \in c.blocks, "blocked")
        \o OnlyIf(c.whitelist /\ isOther /\ prog \notin c.allows, "unlisted")

-----------------------------------------------------------------------------
(* Reference: the processes with an sshd within n generations above them,  *)
(* from the top down, and the offences of the machine under settings c.    *)

Below(n) ==
  LET reach[d \in 0..n] ==
        IF d = 0 THEN {p \in Parents : NamedSSH(table, p)}
        ELSE reach[d - 1] \cup {p \in Alive(table) : table[p].ppid \in reach[d - 1]}
  IN  {p \in Alive(table) : table[p].ppid \in reach[n - 1]}

Broken(prog, c) == {Rule[Violations(prog, c)[i]] : i \in 1..Len(Violations(prog, c))}

Offences(c) ==
  {k \in Keys : k[1] \in Below(Depth) /\ k[2] \in Broken(table[k[1]].prog, c)}

-----------------------------------------------------------------------------
(* One scan. *)

(* The settings are copied and /proc is listed.  A scan that cannot list   *)
(* it returns at once, with nothing changed (ssh_monitor.go:70-73): it is  *)
(* a stuttering step here, and Fairness assumes that not every scan from   *)
(* some moment on is one of these.                                         *)
StartScan(c) ==
  /\ pc = "sleep" /\ pc' = "read"
  /\ cfg' = c
  /\ unread' = Alive(table)
  /\ begun' = 0 /\ still' = TRUE
  /\ UNCHANGED <<machine, pending, snap, todo, cur, checks, alerted, last, due>>

(* A process that ended since the directory was listed is left out. *)
Read(p) ==
  /\ pc = "read" /\ p \in unread
  /\ unread' = unread \ {p}
  /\ snap' = [snap EXCEPT ![p] = table[p]]
  /\ UNCHANGED <<machine, pending, pc, cfg, todo, cur, checks, ages, still, due>>

(* Mutant of Kept: entries are forgotten before their suppression ends. *)
KeptBriefly(n) == IF n > 0 THEN Never ELSE n

Kept(n) == IF n > StaleAfter THEN Never ELSE n

(* Mutant of Judge: it does not wait for the last process to be read. *)
JudgeEarly ==
  /\ pc = "read" /\ pc' = "pick"
  /\ alerted' = [k \in Keys |-> Kept(alerted[k])]
  /\ todo' = {p \in Alive(snap) : isChildOfSSH(snap, p)}
  /\ due' = IF still THEN Offences(cfg) ELSE {}
  /\ UNCHANGED <<machine, pending, cfg, unread, snap, cur, checks, last, begun, still>>

(* Old entries are dropped and the children of sshd picked out. *)
Judge ==
  /\ pc = "read" /\ unread = {} /\ pc' = "pick"
  /\ alerted' = [k \in Keys |-> Kept(alerted[k])]
  /\ todo' = {p \in Alive(snap) : isChildOfSSH(snap, p)}
  /\ due' = IF still THEN Offences(cfg) ELSE {}
  /\ UNCHANGED <<machine, pending, cfg, unread, snap, cur, checks, last, begun, still>>

Pick(p) ==
  /\ pc = "pick" /\ p \in todo /\ pc' = "check"
  /\ todo' = todo \ {p} /\ cur' = p
  /\ checks' = Violations(snap[p].prog, cfg)
  /\ UNCHANGED <<machine, pending, cfg, unread, snap, ages, still, due>>

Key == <<cur, Rule[Head(checks)]>>
Recent(n) == n # Never /\ n < SuppressFor

(* Mutant of Suppress: it makes the entry anew. *)
SuppressAnew ==
  /\ pc = "check" /\ checks # << >> /\ Recent(alerted[Key])
  /\ checks' = Tail(checks)
  /\ alerted' = [alerted EXCEPT ![Key] = 0]
  /\ UNCHANGED <<machine, pending, pc, cfg, unread, snap, todo, cur, last, begun,
                 still, due>>

Suppress ==
  /\ pc = "check" /\ checks # << >> /\ Recent(alerted[Key])
  /\ checks' = Tail(checks)
  /\ UNCHANGED <<machine, pending, pc, cfg, unread, snap, todo, cur, ages, still, due>>

(* The entry is made and the event stored in the database. *)
Report ==
  /\ pc = "check" /\ checks # << >> /\ ~Recent(alerted[Key]) /\ pc' = "send"
  /\ alerted' = [alerted EXCEPT ![Key] = 0]
  /\ last' = [last EXCEPT ![Key] = 0]
  /\ UNCHANGED <<machine, pending, scan, begun, still, due>>

(* The event waits for room in the channel. *)
Send ==
  /\ pc = "send" /\ pending < ChanCap /\ pc' = "kill"
  /\ pending' = pending + 1
  /\ UNCHANGED <<machine, scan, ages, still, due>>

(* Whoever has the PID now is killed. *)
Kill ==
  /\ pc = "kill" /\ pc' = "check"
  /\ checks' = Tail(checks)
  /\ table' = IF cfg.kill THEN Without(cur) ELSE table
  /\ UNCHANGED <<changes, pending, cfg, unread, snap, todo, cur, ages, still, due>>

NextProcess ==
  /\ pc = "check" /\ checks = << >> /\ pc' = "pick"
  /\ cur' = None
  /\ UNCHANGED <<machine, pending, cfg, unread, snap, todo, checks, ages, still, due>>

(* checkProcesses returns, and its variables go. *)
EndScan ==
  /\ pc = "pick" /\ todo = {} /\ pc' = "sleep"
  /\ cfg' = None /\ snap' = Nobody
  /\ begun' = Never /\ still' = FALSE /\ due' = {}
  /\ UNCHANGED <<machine, pending, unread, todo, cur, checks, alerted, last>>

-----------------------------------------------------------------------------
ScanStep ==
  \/ \E c \in Configs : StartScan(c)
  \/ \E p \in Pids : Read(p) \/ Pick(p)
  \/ Judge \/ Suppress \/ Report \/ Send \/ Kill \/ NextProcess \/ EndScan

Next ==
  \/ ScanStep \/ Tick \/ OtherEvent \/ Drain
  \/ \E p \in Pids :
       \/ Exit(p)
       \/ \E prog \in Programs :
            Exec(p, prog) \/ \E parent \in Parents : Fork(p, parent, prog)

Spec == Init /\ [][Next]_vars

(* The monitor's goroutine runs and goes on listing /proc, a blocked       *)
(* sender is served in its turn, the engine empties the channel, and time  *)
(* passes.                                                                 *)
Fairness == WF_vars(ScanStep) /\ SF_vars(Send) /\ WF_vars(Drain) /\ WF_vars(Tick)

FairSpec == Spec /\ Fairness

-----------------------------------------------------------------------------
(* Properties. *)

(* Types, and which of a scan's variables are in use at each of its stages *)
(* (ssh_monitor.go:69-160, 177-226).                                       *)
TypeOK ==
  /\ table \in [Pids -> Process \cup {None}]
  /\ changes \in 0..MaxChanges
  /\ pending \in 0..ChanCap
  /\ pc \in {"sleep", "read", "pick", "check", "send", "kill"}
  /\ IF pc = "sleep" THEN cfg = None ELSE cfg \in Configs
  /\ snap \in [Pids -> Process \cup {None}]
  /\ unread \in SUBSET Pids /\ (pc # "read" => unread = {})
  /\ todo \in SUBSET Alive(snap) /\ (pc \in {"sleep", "read"} => todo = {})
  /\ checks \in Seq(DOMAIN Rule)
  /\ IF pc \in {"check", "send", "kill"}
     THEN cur \in Alive(snap) ELSE cur = None /\ checks = << >>
  /\ pc \in {"send", "kill"} => checks # << >>
  /\ alerted \in [Keys -> Age] /\ last \in [Keys -> Age] /\ begun \in Age
  /\ still \in BOOLEAN /\ due \in SUBSET Keys

(* "Suppress duplicate alert for the same PID & rule within 60 seconds":   *)
(* dropping old entries does not bring an event back too early             *)
(* (ssh_monitor.go:76-81, 178-185).                                        *)
RepeatsAreApart ==
  [][(pc = "check" /\ pc' = "send") => ~Recent(last[Key])]_vars

(* When a scan that no change of a process disturbed before its judgement  *)
(* ends, every offence below sshd has an event of this scan, or one less   *)
(* than SuppressFor older than the scan (ssh_monitor.go:95-159, 162-183).  *)
OffencesReported ==
  (pc = "pick" /\ todo = {}) =>
    \A k \in due : last[k] # Never /\ last[k] < SuppressFor + begun

Offends(id) ==
  \E p \in Below(Depth) :
    /\ table[p].id = id
    /\ \A c \in Configs : c.kill /\ Violations(table[p].prog, c) # << >>

(* Where every setting kills, a process that keeps offending below sshd    *)
(* ends, even if its PID was that of another offender a moment ago and its *)
(* own events are suppressed at first (ssh_monitor.go:177-226).            *)
OffendersEnd == \A id \in 1..MaxChanges : Offends(id) ~> ~Offends(id)

(* "Terminating violating process PID %d (%s)" (ssh_monitor.go:220): the   *)
(* process that is killed is the one that was judged.                      *)
OnlyOffendersKilled ==
  [][(pc = "kill" /\ pc' = "check" /\ cfg.kill /\ cur \in Alive(table))
       => table[cur].id = snap[cur].id]_vars
=============================================================================
