----------------------------- MODULE Normalizer -----------------------------
(***************************************************************************)
(* The SSH normalizer (internal/normalizer/ssh.go): it tails the log, or   *)
(* follows the journal where there is none, parses each line, looks the    *)
(* user up in a cache of /etc/passwd, stores the event, sends it on the    *)
(* event channel and writes it to a file, while the log is appended to and *)
(* rotated, accounts come and go, and the program ends and starts again.   *)
(*                                                                         *)
(* The log is the sequence of all its lines, across its files; an event is *)
(* the number of its line.  Times are ages that stop growing at MaxAge.    *)
(***************************************************************************)
EXTENDS Integers, Sequences

CONSTANTS
  Users,
  Lines,     \* the lines that sshd can log
  Backlog,   \* old entries that journalctl -f begins with, 10 in its code
  CacheFor,  \* userCache is kept for so long, 5 minutes in the code
  ChanCap,   \* capacity of eventChan, 1000 in the code
  MaxLines,  \* bound: lines that are logged
  MaxCrashes \* bound: times the program ends

(* What parsing depends on: whether a pattern matches the whole line, and  *)
(* whether one still does without what syslog puts in front of it, which   *)
(* may be all that names ssh in the line.                                  *)
Line == [event : BOOLEAN, bare : BOOLEAN, user : Users]

ASSUME LinesAssumption == \A l \in Lines : l \in Line /\ (l.bare => l.event)
ASSUME NumbersAssumption ==
  /\ CacheFor \in Nat /\ ChanCap \in Nat \ {0} /\ Backlog \in Nat
  /\ MaxLines \in Nat /\ MaxCrashes \in Nat

Unset == -1
MaxAge == CacheFor + 1
Age == Unset..MaxAge
Older(n) == IF n = Unset \/ n = MaxAge THEN n ELSE n + 1

VARIABLES
  log,      \* all lines
  half,     \* the end of the last one is not written yet
  file,     \* last line of the file that is open, if it was rotated away
  hasLog,   \* there is a log to tail; if not, journalctl is run
  passwd,   \* the accounts of the machine
  pending,  \* events in eventChan
  pc,       \* Start and processLine
  pos,      \* next line to read
  cur,      \* line in processLine
  valid,    \* its IsValidUser, which no one reads once the event is stored
  userCache,
  age,      \* age of lastCacheRefresh, Unset for the zero time
  stored,   \* rows of the table of events
  sent,     \* events sent
  written,  \* events with a record of their own in normalized_ssh.log
  tail,     \* what follows the last newline of that file
  crashes,
  from,     \* ghost: first line that this start of the program must read
  torn,     \* ghost: lines of which a part was read by itself
  unstored, \* ghost: events that the database refused
  unwritten, \* ghost: events whose record is missing or is not by itself: a
            \* Write failed, or the file was in the middle of a record
  changed,  \* ghost: age of the last change of a user's account
  unreadable \* ghost: /etc/passwd could not be read for this line

world == <<log, half, hasLog, passwd, changed>>
reader == <<pos, file, from, torn>>
cache == <<userCache, age, unreadable>>
output == <<written, tail, unwritten>>
trail == <<stored, sent, unstored, output>>
vars == <<world, reader, cache, trail, pending, pc, cur, valid, crashes>>

Open == 0       \* for file: the file that is open is the current one
Nothing == 0    \* for cur: no line is being processed; for tail: nothing
Torn == -1      \* for tail: neither nothing nor the text of one event

Init ==
  /\ log = << >> /\ half = FALSE /\ file = Open
  /\ hasLog \in BOOLEAN
  /\ passwd \in SUBSET Users /\ changed = [u \in Users |-> MaxAge]
  /\ pending = 0
  /\ pc = "down" /\ pos = 1 /\ cur = Nothing /\ valid = FALSE
  /\ userCache = {} /\ age = Unset /\ unreadable = FALSE
  /\ stored = {} /\ sent = {} /\ written = {} /\ tail = Nothing /\ unwritten = {}
  /\ crashes = 0
  /\ from = 1 /\ torn = {} /\ unstored = {}

-----------------------------------------------------------------------------
(* The machine: syslog, logrotate, useradd and userdel, the clock, and the *)
(* others that use the event channel.                                      *)

(* A line reaches the log in parts, with or without a read in between, and *)
(* the journal as a whole.                                                 *)
Log(l) ==
  /\ ~half /\ Len(log) < MaxLines
  /\ log' = Append(log, l) /\ half' = hasLog
  /\ UNCHANGED <<hasLog, passwd, changed, reader, cache, trail, pending, pc, cur,
                 valid, crashes>>

LogRest ==
  /\ half /\ half' = FALSE
  /\ UNCHANGED <<log, hasLog, passwd, changed, reader, cache, trail, pending, pc,
                 cur, valid, crashes>>

(* The log is renamed and a new one begun: what is open ends here. *)
Rotate ==
  /\ hasLog /\ ~half /\ log # << >>
  /\ file = Open /\ pc \notin {"down", "seed", "open", "stopped"}
  /\ file' = Len(log)
  /\ UNCHANGED <<world, pos, from, torn, cache, trail, pending, pc, cur, valid,
                 crashes>>

ChangeUser(u) ==
  /\ passwd' = IF u \in passwd THEN passwd \ {u} ELSE passwd \cup {u}
  /\ changed' = [changed EXCEPT ![u] = 0]
  /\ UNCHANGED <<log, half, hasLog, reader, cache, trail, pending, pc, cur, valid,
                 crashes>>

Tick ==
  /\ age' = Older(age)
  /\ changed' = [u \in Users |-> Older(changed[u])]
  /\ UNCHANGED <<log, half, hasLog, passwd, reader, userCache, unreadable, trail,
                 pending, pc, cur, valid, crashes>>

(* The monitor sends an event; the engine receives one. *)
OtherEvent ==
  /\ pending < ChanCap /\ pending' = pending + 1
  /\ UNCHANGED <<world, reader, cache, trail, pc, cur, valid, crashes>>

Drain ==
  /\ pending > 0 /\ pending' = pending - 1
  /\ UNCHANGED <<world, reader, cache, trail, pc, cur, valid, crashes>>

(* The program ends; files and database stay. *)
Crash ==
  /\ pc # "down" /\ crashes < MaxCrashes
  /\ crashes' = crashes + 1
  /\ pc' = "down" /\ cur' = Nothing /\ valid' = FALSE /\ pending' = 0
  /\ pos' = 1 /\ file' = Open
  /\ userCache' = {} /\ age' = Unset /\ unreadable' = FALSE
  /\ UNCHANGED <<world, from, torn, trail>>

-----------------------------------------------------------------------------
(* Start. *)

Complete == IF half THEN Len(log) - 1 ELSE Len(log)
InFile(n) == file = Open \/ n <= file

Refreshed == userCache' = passwd /\ age' = 0 /\ unreadable' = FALSE
NotRefreshed == unreadable' = TRUE /\ UNCHANGED <<userCache, age>>
refreshUserCache == Refreshed \/ NotRefreshed

Begin ==
  /\ pc = "down" /\ pc' = "seed"
  /\ UNCHANGED <<world, reader, cache, trail, pending, cur, valid, crashes>>

Seed ==
  /\ pc = "seed" /\ pc' = "open"
  /\ refreshUserCache
  /\ UNCHANGED <<world, reader, trail, pending, cur, valid, crashes>>

(* Mutant of OpenLog: reading begins with the first line. *)
OpenLogAtStart ==
  /\ pc = "open" /\ hasLog /\ pc' = "read"
  /\ pos' = 1 /\ file' = Open
  /\ from' = Len(log) + 1 /\ torn' = torn
  /\ UNCHANGED <<world, cache, trail, pending, cur, valid, crashes>>

(* Reading begins at the end, which may be in the middle of a line. *)
OpenLog ==
  /\ pc = "open" /\ hasLog /\ pc' = "read"
  /\ pos' = Complete + 1 /\ file' = Open
  /\ from' = Len(log) + 1
  /\ torn' = IF half THEN torn \cup {Len(log)} ELSE torn
  /\ UNCHANGED <<world, cache, trail, pending, cur, valid, crashes>>

OpenJournal ==
  /\ pc = "open" /\ ~hasLog /\ pc' = "read"
  /\ pos' = IF Len(log) > Backlog THEN Len(log) - Backlog + 1 ELSE 1
  /\ from' = pos' /\ file' = Open
  /\ UNCHANGED <<world, torn, cache, trail, pending, cur, valid, crashes>>

(* Start returns: normalized_ssh.log or journalctl cannot be opened, or    *)
(* journalctl ends.                                                        *)
Stop ==
  /\ pc = "seed" \/ (~hasLog /\ pc \in {"open", "read"})
  /\ pc' = "stopped"
  /\ UNCHANGED <<world, reader, cache, trail, pending, cur, valid, crashes>>

(* Whether a pattern can match what is read of line n: of a line that is   *)
(* read in parts, only the last part is parsed, which may or may not have  *)
(* what a pattern looks for and the name of sshd; and the journal has no   *)
(* prefix.                                                                 *)
parseSSHLog(n) ==
  IF ~hasLog THEN {log[n].bare}
  ELSE IF n \in torn THEN {FALSE, log[n].bare, log[n].event} ELSE {log[n].event}

(* Mutant of ReadLine: a part of a line counts as a line. *)
ReadLineOrPart ==
  /\ pc = "read" /\ pos <= Len(log) /\ InFile(pos)
  /\ pos' = pos + 1
  /\ \E ok \in parseSSHLog(pos) :
       IF ok THEN pc' = "users" /\ cur' = pos ELSE UNCHANGED <<pc, cur>>
  /\ UNCHANGED <<world, file, from, torn, cache, trail, pending, valid, crashes>>

ReadLine ==
  /\ pc = "read" /\ pos <= Complete /\ InFile(pos)
  /\ pos' = pos + 1
  /\ \E ok \in parseSSHLog(pos) :
       IF ok THEN pc' = "users" /\ cur' = pos ELSE UNCHANGED <<pc, cur>>
  /\ UNCHANGED <<world, file, from, torn, cache, trail, pending, valid, crashes>>

(* ReadString returns the part that is there with io.EOF; it is dropped. *)
ReadPart ==
  /\ pc = "read" /\ half /\ pos = Len(log) /\ InFile(pos) /\ pos \notin torn
  /\ torn' = torn \cup {pos}
  /\ UNCHANGED <<world, pos, file, from, cache, trail, pending, pc, cur, valid,
                 crashes>>

-----------------------------------------------------------------------------
(* processLine. *)

(* Mutant of Stale: what was read once is kept. *)
NeverStale(n) == n = Unset

Stale(n) == n = Unset \/ n > CacheFor

(* generateAlert, with isValidSystemUser. *)
LookUp ==
  /\ pc = "users" /\ pc' = "insert"
  /\ IF Stale(age) THEN refreshUserCache ELSE UNCHANGED cache
  /\ valid' = (log[cur].user \in userCache')
  /\ UNCHANGED <<world, reader, trail, pending, cur, crashes>>

(* Mutant of InsertEvent: a failed insertion ends processLine. *)
InsertEventOrReturn ==
  /\ pc = "insert"
  /\ \/ stored' = stored \cup {cur} /\ pc' = "send" /\ UNCHANGED <<unstored, cur>>
     \/ /\ unstored' = unstored \cup {cur} /\ pc' = "read" /\ cur' = Nothing
        /\ UNCHANGED stored
  /\ valid' = FALSE /\ unreadable' = FALSE
  /\ UNCHANGED <<world, reader, userCache, age, sent, output, pending, crashes>>

(* A failed insertion is only logged. *)
InsertEvent ==
  /\ pc = "insert" /\ pc' = "send"
  /\ \/ stored' = stored \cup {cur} /\ UNCHANGED unstored
     \/ unstored' = unstored \cup {cur} /\ UNCHANGED stored
  /\ valid' = FALSE /\ unreadable' = FALSE
  /\ UNCHANGED <<world, reader, userCache, age, sent, output, pending, cur, crashes>>

(* Mutant of Send: a full channel makes it drop the event. *)
SendOrDrop ==
  /\ pc = "send" /\ pc' = "write"
  /\ IF pending < ChanCap
     THEN pending' = pending + 1 /\ sent' = sent \cup {cur}
     ELSE UNCHANGED <<pending, sent>>
  /\ UNCHANGED <<world, reader, cache, stored, output, unstored, cur, valid, crashes>>

Send ==
  /\ pc = "send" /\ pending < ChanCap /\ pc' = "write"
  /\ pending' = pending + 1
  /\ sent' = sent \cup {cur}
  /\ UNCHANGED <<world, reader, cache, stored, output, unstored, cur, valid, crashes>>

(* The text of the event goes to the end of the file, in whole or, if the  *)
(* Write fails, in part or not at all.  No one looks at the error.         *)
Write ==
  LET alone == tail = Nothing
  IN  /\ pc = "write" /\ pc' = "newline"
      /\ \/ /\ tail' = IF alone THEN cur ELSE Torn
            /\ unwritten' = IF alone THEN unwritten ELSE unwritten \cup {cur}
         \/ tail' \in {tail, Torn} /\ unwritten' = unwritten \cup {cur}
      /\ UNCHANGED <<world, reader, cache, stored, sent, written, unstored, pending,
                     cur, valid, crashes>>

(* It closes what precedes it; if it fails, the next event follows there.  *)
EndRecord ==
  \/ /\ tail' = Nothing /\ UNCHANGED unwritten
     /\ written' = IF tail \in {Nothing, Torn} THEN written ELSE written \cup {tail}
  \/ UNCHANGED <<tail, written>> /\ unwritten' = unwritten \cup {cur}

(* Mutant of WriteNewline: the log is opened anew for each line. *)
WriteNewlineAndReopen ==
  /\ pc = "newline" /\ pc' = "open"
  /\ EndRecord
  /\ cur' = Nothing
  /\ UNCHANGED <<world, reader, cache, stored, sent, unstored, pending, valid,
                 crashes>>

WriteNewline ==
  /\ pc = "newline" /\ pc' = "read"
  /\ EndRecord
  /\ cur' = Nothing
  /\ UNCHANGED <<world, reader, cache, stored, sent, unstored, pending, valid,
                 crashes>>

-----------------------------------------------------------------------------
NormalizerStep ==
  \/ Seed \/ OpenLog \/ OpenJournal
  \/ ReadLine \/ ReadPart \/ LookUp \/ InsertEvent \/ Send
  \/ Write \/ WriteNewline

Next ==
  \/ NormalizerStep \/ Begin \/ Stop \/ Crash
  \/ \E l \in Lines : Log(l)
  \/ LogRest \/ Rotate \/ Tick \/ OtherEvent \/ Drain
  \/ \E u \in Users : ChangeUser(u)

Spec == Init /\ [][Next]_vars

(* The goroutine runs, a blocked sender is served in its turn, and the     *)
(* engine empties the channel.                                             *)
Fairness == WF_vars(NormalizerStep) /\ SF_vars(Send) /\ WF_vars(Drain)

FairSpec == Spec /\ Fairness

-----------------------------------------------------------------------------
(* Properties. *)

Busy == {"users", "insert", "send", "write", "newline"}
Running == Busy \cup {"read"}
Numbers == 1..Len(log)

WorldOK ==
  /\ log \in Seq(Lines) /\ Len(log) <= MaxLines
  /\ half \in BOOLEAN /\ hasLog \in BOOLEAN
  /\ half => hasLog /\ log # << >>
  /\ passwd \in SUBSET Users /\ changed \in [Users -> 0..MaxAge]
ReaderOK ==
  /\ pos \in Nat \ {0} /\ pos <= Complete + 1
  /\ file \in 0..Len(log)
  /\ from \in Nat \ {0} /\ torn \in SUBSET Numbers
CacheOK ==
  userCache \in SUBSET Users /\ age \in Age /\ unreadable \in BOOLEAN
TrailOK ==
  /\ stored \in SUBSET Numbers /\ unstored \in SUBSET Numbers
  /\ sent \in SUBSET Numbers /\ written \in SUBSET Numbers
  /\ unwritten \in SUBSET Numbers /\ tail \in Numbers \cup {Nothing, Torn}
FlowOK ==
  /\ pc \in {"down", "seed", "open", "stopped"} \cup Running
  /\ IF pc \in Busy THEN cur = pos - 1 /\ cur \in Numbers ELSE cur = Nothing
  /\ valid \in BOOLEAN
  /\ pending \in 0..ChanCap /\ crashes \in 0..MaxCrashes

(* Types, and that a line is in processLine exactly while that runs, and   *)
(* is the last that was read (ssh.go:331-364, 366-403).                    *)
TypeOK == WorldOK /\ ReaderOK /\ CacheOK /\ TrailOK /\ FlowOK

(* Events of a log are stored and sent once and in the order of the log,   *)
(* through restarts and rotations: "file.Seek(0, 2)" (ssh.go:391-403).     *)
ReportedOnce ==
  hasLog =>
    /\ pc = "insert" => \A n \in stored \cup unstored : n < cur
    /\ pc \in {"insert", "send"} => \A n \in sent : n < cur

Recognised(n) == IF hasLog THEN log[n].event ELSE log[n].bare

(* Every line that is recognised and was not read in parts is on all three *)
(* trails once the reader is past it, whatever was rotated or failed:      *)
(* offered to the database, sent, and a record of its own in the file,     *)
(* unless a Write of it failed or one before it, or the end of the         *)
(* program, left the file within a record (ssh.go:331-364, 394-402).       *)
NothingSkipped ==
  pc \in Running =>
    \A n \in from..(pos - 1) :
      (n # cur /\ n \notin torn /\ Recognised(n))
        => n \in (stored \cup unstored) \cap sent \cap (written \cup unwritten)

(* The trails only run ahead of each other in the order of processLine,    *)
(* also after a crash in the middle of it, and show nothing that is not    *)
(* in the log (ssh.go:346-363).                                            *)
TrailsNested ==
  /\ written \cup unwritten \subseteq sent /\ sent \subseteq stored \cup unstored
  /\ \A n \in stored \cup unstored : log[n].event

(* "If the cache is empty or older than 5 minutes, it refreshes": the      *)
(* validity of a user whose account has been as it is for longer is right, *)
(* unless /etc/passwd cannot be read now (ssh.go:28-80, 286).              *)
FreshUsers ==
  [][(pc = "users" /\ pc' = "insert" /\ ~unreadable')
       => LET u == log[cur].user
          IN  changed[u] > CacheFor => valid' = (u \in passwd)]_vars

(* A recognised line of the file that is open, not read in parts, is sent  *)
(* to the engine, unless the program ends (ssh.go:394-402).                *)
Awaited(n) ==
  /\ hasLog /\ pc \in Running
  /\ n \in from..Complete /\ InFile(n) /\ n \notin torn
  /\ log[n].event

LinesArrive ==
  \A n \in 1..MaxLines : Awaited(n) ~> (n \in sent \/ pc = "down")
=============================================================================
