----------------------------- MODULE EventStore ------------------------------
(***************************************************************************)
(* The table of events (internal/storage/db.go): the normalizer and the    *)
(* monitor insert events that they stamped a moment ago, while a rule asks *)
(* the four questions of internal/eventstore/store.go.  The engine's       *)
(* goroutine runs the rules, so there is one call at a time; no rule makes *)
(* one yet.  An address is the sequence of its characters, as far as the   *)
(* pattern of a subnet tells addresses apart.                              *)
(***************************************************************************)
EXTENDS Integers, Sequences, SequencesExt, FiniteSets

CONSTANTS
  Sources,    \* the decoder names, one per goroutine that inserts events
  Observed,   \* what can be observed: kind, source, address and user
  Queries,    \* the questions that can be asked
  SubWindow,  \* length of a slice of the window, 120 s in the code
  MaxEvents,  \* bound: events
  MaxTime     \* bound: the clock, in seconds

Kinds == {"login_failure", "invalid_user", "login_success", "session_open",
          "session_close", "violation"}

(* Reference for a subnet: the numbers that the address begins with.       *)
Belongs(ip, subnet) ==
  LET n == IF Last(subnet) = "." THEN Len(subnet) - 1 ELSE Len(subnet)
  IN  /\ n < Len(ip) /\ ip[n + 1] = "."
      /\ \A i \in 1..n : ip[i] = subnet[i]

ASSUME ObservedAssumption ==
  \A o \in Observed : o.kind \in Kinds /\ o.source \in Sources /\ o.ip \in Seq(STRING)
ASSUME QueriesAssumption ==
  \A q \in Queries :
    /\ q.ask \in {"since", "window", "login", "subnet"}
    /\ q.ask # "login" => q.within \in Int
    /\ q.ask = "window" => q.limit \in Int
    /\ q.ask = "subnet" =>
         /\ q.subnet \in Seq(STRING) \ {<< >>} /\ ~Contains(q.subnet, "/")
         /\ \A o \in Observed : o.ip \in q.hosts <=> Belongs(o.ip, q.subnet)
ASSUME NumbersAssumption ==
  SubWindow \in Nat \ {0} /\ MaxEvents \in Nat /\ MaxTime \in Nat

VARIABLES
  now,
  pending,  \* per source, the event that is stamped and not yet inserted
  rows,     \* the table, in the order of insertion
  call      \* the call in progress, or the last one and its answer

vars == <<now, pending, rows, call>>

(* at: the time read first; count, limited (ErrSubWindowLimitExceeded),    *)
(* failed, found: the answer; ghosts: seen, the rows at the first SELECT,  *)
(* and unread, the slices that were in the answer of the second and that   *)
(* the loop did not come to.                                               *)
NoCall == [stage |-> "none", query |-> [ask |-> "none"], at |-> 0, seen |-> 0,
           unread |-> {}, count |-> 0, limited |-> FALSE, failed |-> FALSE,
           found |-> {}]

Init == now = 0 /\ pending = [s \in Sources |-> {}] /\ rows = << >> /\ call = NoCall

Tick ==
  /\ now < MaxTime /\ now' = now + 1
  /\ UNCHANGED <<pending, rows, call>>

-----------------------------------------------------------------------------
(* Events. *)

Observe(o) ==
  /\ Len(rows) + Cardinality(UNION {pending[s] : s \in Sources}) < MaxEvents
  /\ pending[o.source] = {}
  /\ pending' = [pending EXCEPT ![o.source] = {[what |-> o, time |-> now]}]
  /\ UNCHANGED <<now, rows, call>>

(* Mutant of EventType: an attempt for an unknown user keeps its           *)
(* description.                                                            *)
EventTypeOfFailure(kind) == kind

(* The event_type that InsertEvent derives from the description. *)
EventType(kind) == IF kind = "invalid_user" THEN "login_failure" ELSE kind

(* An event that is not inserted is lost to the table. *)
InsertEvent(s) ==
  \E e \in pending[s] :
    /\ pending' = [pending EXCEPT ![s] = {}]
    /\ rows' \in {rows, Append(rows, [time |-> e.time, what |-> e.what,
                                      type |-> EventType(e.what.kind)])}
    /\ UNCHANGED <<now, call>>

-----------------------------------------------------------------------------
(* Queries.  Each SELECT sees the table of one moment. *)

Select(Where(_)) == {i \in 1..Len(rows) : Where(rows[i])}

IsFailure(row, ip) == row.what.ip = ip /\ row.type = "login_failure"

Ask(q) ==
  /\ call.stage \in {"none", "done"}
  /\ call' = [NoCall EXCEPT !.stage = "select", !.query = q, !.at = now]
  /\ UNCHANGED <<now, pending, rows>>

Asked(asked) == call.stage = "select" /\ call.query.ask = asked

Answer(c) ==
  /\ call' = [c EXCEPT !.stage = "done", !.seen = Len(rows)]
  /\ UNCHANGED <<now, pending, rows>>

CountFailuresSince ==
  LET InTime(row) == /\ IsFailure(row, call.query.ip)
                     /\ row.time >= call.at - call.query.within
  IN  /\ Asked("since")
      /\ Answer([call EXCEPT !.count = Cardinality(Select(InTime))])

(* The failures of the window, and their number by slice. *)
InWindow(row) ==
  /\ IsFailure(row, call.query.ip)
  /\ call.at - call.query.within <= row.time /\ row.time <= call.at

CountTotal ==
  /\ Asked("window")
  /\ call' = [call EXCEPT !.seen = Len(rows),
                          !.count = Cardinality(Select(InWindow)),
                          !.stage = IF Select(InWindow) = {} THEN "done" ELSE "slices"]
  /\ UNCHANGED <<now, pending, rows>>

(* Mutant of Slice: slices of twice the length.                            *)
LongSlice(row) == row.time \div (2 * SubWindow)

Slice(row) == row.time \div SubWindow

(* The rows of one slice, of those that Where selects. *)
InSlice(Where(_), t) == Cardinality({i \in Select(Where) : Slice(rows[i]) = t})

Slices(Where(_)) == {Slice(rows[i]) : i \in Select(Where)}

(* Mutant of CountSlices: the slices are those of the whole table.         *)
CountSlicesEver ==
  LET Ever(row) == IsFailure(row, call.query.ip)
  IN  /\ call.stage = "slices"
      /\ \E unread \in SUBSET Slices(Ever) :
           LET full == \E t \in Slices(Ever) \ unread :
                 InSlice(Ever, t) >= call.query.limit
           IN  call' = [call EXCEPT !.stage = "done", !.limited = full,
                                    !.unread = unread, !.count = IF full THEN 0 ELSE @]
      /\ UNCHANGED <<now, pending, rows>>

(* The slices one after the other, up to one with limit failures.  An      *)
(* error between two of them ends the loop as their end does: no one asks  *)
(* rows.Err(), and the total is the answer although slices were not read.  *)
CountSlices ==
  /\ call.stage = "slices"
  /\ \E unread \in SUBSET Slices(InWindow) :
       LET full == \E t \in Slices(InWindow) \ unread :
             InSlice(InWindow, t) >= call.query.limit
       IN  call' = [call EXCEPT !.stage = "done", !.limited = full,
                                !.unread = unread, !.count = IF full THEN 0 ELSE @]
  /\ UNCHANGED <<now, pending, rows>>

(* ORDER BY timestamp DESC LIMIT 1: one of the newest. *)
GetLastSuccessfulLogin ==
  LET Login(row) == row.what.user = call.query.user /\ row.type = "login_success"
      newest == {i \in Select(Login) :
                   \A j \in Select(Login) : rows[j].time <= rows[i].time}
  IN  /\ Asked("login")
      /\ \/ newest = {} /\ Answer(call)
         \/ \E i \in newest : Answer([call EXCEPT !.found = {i}])

(* Mutant of Prefix: the subnet is not closed with a dot. *)
PrefixAsIs(subnet) == subnet

Prefix(subnet) ==
  IF Last(subnet) # "." /\ ~Contains(subnet, "/") THEN Append(subnet, ".") ELSE subnet

(* COUNT(DISTINCT source). *)
GetDistinctServicesForSubnet ==
  LET InSubnet(row) == /\ IsPrefix(Prefix(call.query.subnet), row.what.ip)
                       /\ row.time >= call.at - call.query.within
      found == {rows[i].what.source : i \in Select(InSubnet)}
  IN  /\ Asked("subnet")
      /\ Answer([call EXCEPT !.count = Cardinality(found)])

(* QueryRow, Query or Scan returns an error. *)
QueryFails ==
  /\ call.stage \in {"select", "slices"}
  /\ call' = [call EXCEPT !.stage = "done", !.failed = TRUE, !.count = 0]
  /\ UNCHANGED <<now, pending, rows>>

-----------------------------------------------------------------------------
Next ==
  \/ Tick
  \/ \E o \in Observed : Observe(o)
  \/ \E s \in Sources : InsertEvent(s)
  \/ \E q \in Queries : Ask(q)
  \/ CountFailuresSince \/ CountTotal \/ CountSlices
  \/ GetLastSuccessfulLogin \/ GetDistinctServicesForSubnet
  \/ QueryFails

Spec == Init /\ [][Next]_vars

-----------------------------------------------------------------------------
(* Properties. *)

(* Types; the table holds the types that the questions ask for, not the    *)
(* descriptions (db.go:107-154).                                           *)
TypeOK ==
  /\ now \in 0..MaxTime
  /\ pending \in [Sources -> SUBSET [what : Observed, time : 0..now]]
  /\ rows \in Seq([what : Observed, time : 0..now, type : Kinds \ {"invalid_user"}])
  /\ Len(rows) + Cardinality(UNION {pending[s] : s \in Sources}) <= MaxEvents
  /\ call.stage \in {"none", "select", "slices", "done"}

Answered(asked) == call.stage = "done" /\ ~call.failed /\ call.query.ask = asked

(* Reference: the failed attempts of the address that were made from time  *)
(* a to time b and are among the first n rows.                             *)
Attempts(ip, a, b, n) ==
  {i \in 1..n : /\ rows[i].what.ip = ip /\ a <= rows[i].time /\ rows[i].time <= b
                /\ rows[i].what.kind \in {"login_failure", "invalid_user"}}

(* Events are inserted between the two SELECTs of CountFailuresInWindow,   *)
(* yet its answer is right for one moment: a total counts the attempts of  *)
(* the window when it was counted, and no slice that was read was full; a  *)
(* refusal is due to a full slice of the window.  Full is a slice with     *)
(* limit attempts or more, as the code has it (db.go:245-281), not one     *)
(* that exceeds the limit, as the interface says (store.go:18-20).         *)
WindowAnswerHeld ==
  Answered("window") =>
    LET q == call.query
        window(n) == Attempts(q.ip, call.at - q.within, call.at, n)
        full(t, n) == Cardinality({i \in window(n) : Slice(rows[i]) = t}) >= q.limit
    IN  IF call.limited THEN \E t \in 0..MaxTime : full(t, Len(rows))
        ELSE /\ call.count = Cardinality(window(call.seen))
             /\ \A i \in window(call.seen) :
                  full(Slice(rows[i]), call.seen) => Slice(rows[i]) \in call.unread

(* The slices are fixed, but bound every burst: in no SubWindow seconds of *)
(* a window that was accepted and read to its end were there more than     *)
(* twice the attempts that fit in one slice, and a refused one has a burst *)
(* that reaches the limit (db.go:259-280).                                 *)
BurstsBounded ==
  Answered("window") =>
    LET q == call.query
        Burst(t, n) == Cardinality(
          {i \in Attempts(q.ip, call.at - q.within, call.at, n) :
             t <= rows[i].time /\ rows[i].time < t + SubWindow})
    IN  IF call.limited THEN \E t \in 0..MaxTime : Burst(t, Len(rows)) >= q.limit
        ELSE call.count > 0 /\ call.unread = {} =>
               \A t \in 0..MaxTime : Burst(t, call.seen) <= 2 * (q.limit - 1)

(* The other questions, in terms of what was observed: the attempts of the *)
(* period, a newest login of the user, and the sources with events from    *)
(* the hosts of the subnet, not from those of one whose name it begins     *)
(* (db.go:236-243, 284-330).                                               *)
QuestionsAnswered ==
  LET q == call.query
      n == call.seen
      Login(i) == rows[i].what.kind = "login_success" /\ rows[i].what.user = q.user
  IN  /\ Answered("since") =>
           call.count = Cardinality(Attempts(q.ip, call.at - q.within, MaxTime, n))
      /\ Answered("login") =>
           IF call.found = {} THEN \A i \in 1..n : ~Login(i)
           ELSE \A i \in call.found :
                  /\ i <= n /\ Login(i)
                  /\ \A j \in 1..n : Login(j) => rows[j].time <= rows[i].time
      /\ Answered("subnet") =>
           call.count = Cardinality({rows[i].what.source : i \in
             {j \in 1..n : rows[j].what.ip \in q.hosts
                           /\ rows[j].time >= call.at - q.within}})
=============================================================================
