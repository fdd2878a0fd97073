------------------------------ MODULE AlertFeed ------------------------------
(***************************************************************************)
(* An alert on its way to a page of the dashboard: the engine's goroutine  *)
(* that stores it in the database, adds it to the server's list of recent  *)
(* alerts and broadcasts it (internal/correlator/engine.go,                *)
(* internal/api/server.go), the handlers that read the database and that   *)
(* list, and the page, which first fetches and then opens its websocket    *)
(* (web/static/script.js).  The websocket is the feed that Hub implements. *)
(*                                                                         *)
(* Server.alerts is a Go slice that is written by one goroutine and read   *)
(* by others with no lock.  Alerts are numbered as they are raised, and    *)
(* the n-th is at position n: a slice is its array, its first position and *)
(* its length, words that are stored and loaded one at a time.             *)
(***************************************************************************)
EXTENDS Integers, Sequences, FiniteSets

CONSTANTS
  Pages,        \* the loads of the page, in any browser
  Handlers,     \* the handlers a page calls that go through the server's
                \* list, "stats" and "topology" in the code
  Keep,         \* alerts in the server's list, 50 in the code
  Limit,        \* alerts handleAlerts asks the database for, 50 in the code
  RecentLoad,   \* fetched alerts in the table of recent ones, 6 in the code
  RecentCap,    \* limit of that table, 10 in the code
  TimelineCap,  \* limit of the timeline, 20 in the code
  Placeholder,  \* the number of alerts in the page as it is served, 47
  None,         \* a word that is not read yet
  MaxOlder,     \* bound: alerts in the database at the start
  MaxAlerts,    \* bound: alerts raised
  MaxTime       \* bound: the clock, in seconds

(* Alerts up to 0 are in the database when the server starts: those of     *)
(* earlier starts, and the test alert of main.                             *)
Older == (1 - MaxOlder)..0
Alerts == Older \cup 1..MaxAlerts
Arrays == 0..MaxAlerts
Pointer == [array : Arrays, first : 1..(MaxAlerts + 1)]

ASSUME ListsAssumption ==
  /\ Keep \in Nat \ {0} /\ RecentLoad \in Nat \ {0}
  /\ RecentCap \in Nat /\ TimelineCap \in Nat /\ Limit \in Nat
  /\ Placeholder \in Nat
  /\ RecentLoad <= RecentCap /\ RecentCap <= TimelineCap /\ TimelineCap <= Limit
ASSUME HandlersAssumption == "stats" \in Handlers
ASSUME NoneAssumption == None \notin Nat \cup Pointer
ASSUME BoundsAssumption ==
  MaxOlder \in Nat /\ MaxAlerts \in Nat /\ MaxTime \in Nat

Words == {"ptr", "len", "slot"}

VARIABLES
  up,         \* the program runs
  engine,     \* the engine's goroutine, by what it does next
  raised,     \* alerts raised
  stamp,      \* CorrelationAlert.Timestamp of each alert
  stored,     \* the alerts in the database
  ptr, len,   \* Server.alerts
  filled,     \* per array, the last position that was written
  end,        \* per array, its last position
  target,     \* the slice that is being stored
  unstored,   \* the words of it that are not stored yet
  published, first, got,  \* the feed
  page,       \* per page: "closed", "fetching", "connecting" or "live"
  reader,     \* per page, the handlers of /api/stats and /api/topology, with
              \* a ghost: the alerts added when the page asked for them
  reply,      \* per page, the answer to /api/alerts, if there is one; an
              \* error and an empty list are the same to the page: << >>
  timeline, recent, total,  \* per page, what it shows
  loaded,     \* ghost: per page, that the fetches succeeded
  asked,      \* ghost: per page, alerts whose insertion was over at the query
  cut         \* ghost: per page, that the database's answer broke off

db == <<stamp, stored>>
list == <<ptr, len, filled, end, target, unstored>>
feed == <<published, first, got>>
lists == <<timeline, recent, total, loaded>>
answer == <<reply, asked, cut>>
browser == <<page, reader, answer, lists>>
vars == <<up, engine, raised, db, list, feed, browser>>

Live == INSTANCE Feed WITH Subscribers <- Pages

Unread == [at |-> "idle", begun |-> 0, total |-> None, ptr |-> None, len |-> None]

Init ==
  /\ up = TRUE
  /\ engine = "idle" /\ raised = 0
  /\ stamp = [n \in Alerts |-> 0]
  /\ stored \in {{}, Older}
  /\ ptr = [array |-> 0, first |-> 1] /\ len = 0
  /\ filled = [a \in Arrays |-> 0] /\ end = [a \in Arrays |-> 0]
  /\ target = [ptr |-> ptr, len |-> 0] /\ unstored = {}
  /\ Live!Init
  /\ page = [p \in Pages |-> "closed"]
  /\ reader = [p \in Pages |-> [h \in Handlers |-> Unread]]
  /\ reply = [p \in Pages |-> {}]
  /\ timeline = [p \in Pages |-> << >>] /\ recent = [p \in Pages |-> << >>]
  /\ total = [p \in Pages |-> Placeholder]
  /\ loaded = [p \in Pages |-> FALSE]
  /\ asked = [p \in Pages |-> 0] /\ cut = [p \in Pages |-> FALSE]

-----------------------------------------------------------------------------
(* The engine's goroutine. *)

(* A rule makes an alert.  The clock of the machine does not go back. *)
Raise ==
  /\ up /\ engine = "idle" /\ raised < MaxAlerts
  /\ engine' = "insert" /\ raised' = raised + 1
  /\ \E time \in 0..MaxTime :
       /\ \A n \in Alerts : stamp[n] <= time
       /\ stamp' = [stamp EXCEPT ![raised + 1] = time]
  /\ UNCHANGED <<up, stored, list, feed, browser>>

(* An insertion that fails is only logged. *)
InsertAlert ==
  /\ up /\ engine = "insert" /\ engine' = "evict"
  /\ stored' \in {stored, stored \cup {raised}}
  /\ UNCHANGED <<up, raised, stamp, list, feed, browser>>

(* Mutants of Evict: one alert too many is kept; all are. *)
EvictLate ==
  /\ up /\ engine = "evict" /\ engine' = "append"
  /\ \/ /\ len > Keep
        /\ target' = [ptr |-> [ptr EXCEPT !.first = @ + 1], len |-> len - 1]
        /\ unstored' = {"ptr", "len"}
     \/ len <= Keep /\ UNCHANGED <<target, unstored>>
  /\ UNCHANGED <<up, raised, db, ptr, len, filled, end, feed, browser>>

EvictNever ==
  /\ up /\ engine = "evict" /\ engine' = "append"
  /\ UNCHANGED <<up, raised, db, list, feed, browser>>

(* s.alerts[1:], once the list is full. *)
Evict ==
  /\ up /\ engine = "evict" /\ engine' = "append"
  /\ \/ /\ len >= Keep
        /\ target' = [ptr |-> [ptr EXCEPT !.first = @ + 1], len |-> len - 1]
        /\ unstored' = {"ptr", "len"}
     \/ len < Keep /\ UNCHANGED <<target, unstored>>
  /\ UNCHANGED <<up, raised, db, ptr, len, filled, end, feed, browser>>

(* append: into the array if it has room, else into a copy, which may have *)
(* room for more.                                                          *)
AppendAlert ==
  LET last == ptr.first + len - 1
  IN  /\ up /\ engine = "append" /\ unstored = {} /\ engine' = "broadcast"
      /\ \/ /\ last < end[ptr.array]
            /\ target' = [ptr |-> ptr, len |-> len + 1]
            /\ unstored' = {"len", "slot"}
            /\ UNCHANGED <<filled, end>>
         \/ /\ last = end[ptr.array]
            /\ target' = [ptr |-> [ptr EXCEPT !.array = raised], len |-> len + 1]
            /\ unstored' = Words
            /\ filled' = [filled EXCEPT ![raised] = last]
            /\ \E spare \in 0..Keep : end' = [end EXCEPT ![raised] = last + 1 + spare]
      /\ UNCHANGED <<up, raised, db, ptr, len, feed, browser>>

(* The words of a slice and the slot of an array are stored in the order   *)
(* that the compiler and the processor choose.                             *)
Store(word) ==
  /\ up /\ word \in unstored /\ unstored' = unstored \ {word}
  /\ ptr' = IF word = "ptr" THEN target.ptr ELSE ptr
  /\ len' = IF word = "len" THEN target.len ELSE len
  /\ filled' = IF word = "slot" THEN [filled EXCEPT ![target.ptr.array] = @ + 1]
                                ELSE filled
  /\ UNCHANGED <<up, engine, raised, db, end, target, feed, browser>>

BroadcastAlert ==
  /\ up /\ engine = "broadcast" /\ unstored = {} /\ engine' = "idle"
  /\ Live!Publish
  /\ UNCHANGED <<up, raised, db, list, browser>>

-----------------------------------------------------------------------------
(* The handlers.  handleStats looks at the length and then goes through    *)
(* the list; handleTopology only goes through it.  The loop copies the     *)
(* words of the slice first.                                               *)

Change(p, h, reading) == reader' = [reader EXCEPT ![p][h] = reading]
Handling == <<up, engine, raised, db, list, feed, page, answer, lists>>

(* Mutant of ReadTotal: it counts the alerts of the database. *)
ReadTotalOfTable(p) ==
  LET r == reader[p]["stats"]
  IN  /\ up /\ r.at = "total"
      /\ Change(p, "stats", [r EXCEPT !.at = "load", !.total = Cardinality(stored)])
      /\ UNCHANGED Handling

ReadTotal(p) ==
  LET r == reader[p]["stats"]
  IN  /\ up /\ r.at = "total"
      /\ Change(p, "stats", [r EXCEPT !.at = "load", !.total = len])
      /\ UNCHANGED Handling

LoadLen(p, h) ==
  LET r == reader[p][h]
  IN  /\ up /\ r.at = "load" /\ r.len = None
      /\ Change(p, h, [r EXCEPT !.len = len])
      /\ UNCHANGED Handling

LoadPtr(p, h) ==
  LET r == reader[p][h]
  IN  /\ up /\ r.at = "load" /\ r.ptr = None
      /\ Change(p, h, [r EXCEPT !.ptr = ptr])
      /\ UNCHANGED Handling

(* What is left of a reading is the total that the page will show. *)
Done(r, outcome) == [Unread EXCEPT !.at = outcome, !.total = r.total]

(* A slot that was not written yet holds nil: the handler panics and its   *)
(* request fails.  What lies beyond the array is no alert: whatever is     *)
(* found there is counted, or the handler fails, or the program dies.      *)
RangeAlerts(p, h) ==
  LET r == reader[p][h]
      last == r.ptr.first + r.len - 1
  IN  /\ up /\ r.at = "load" /\ None \notin {r.ptr, r.len}
      /\ \/ /\ last <= filled[r.ptr.array] \/ last > end[r.ptr.array]
            /\ Change(p, h, Done(r, "answered"))
            /\ UNCHANGED Handling
         \/ /\ last > filled[r.ptr.array]
            /\ Change(p, h, Done(r, "failed"))
            /\ UNCHANGED Handling
         \/ /\ last > end[r.ptr.array]
            /\ up' = FALSE
            /\ UNCHANGED <<engine, raised, db, list, feed, browser>>

(* The number of alerts that the query finds. *)
Found == IF Cardinality(stored) < Limit THEN Cardinality(stored) ELSE Limit

(* Mutant of NewestAlerts: the query does not say DESC. *)
FirstAlerts ==
  {s \in [1..Found -> stored] :
     /\ \A i, j \in 1..Found : i < j => s[i] # s[j] /\ stamp[s[i]] <= stamp[s[j]]
     /\ \A n \in stored \ {s[i] : i \in 1..Found} :
          \A i \in 1..Found : stamp[n] >= stamp[s[i]]}

(* The newest alerts, Limit of them; the order of those with the same time *)
(* is the database's.                                                      *)
NewestAlerts ==
  {s \in [1..Found -> stored] :
     /\ \A i, j \in 1..Found : i < j => s[i] # s[j] /\ stamp[s[i]] >= stamp[s[j]]
     /\ \A n \in stored \ {s[i] : i \in 1..Found} :
          \A i \in 1..Found : stamp[n] <= stamp[s[i]]}

Top(s, n) == SubSeq(s, 1, IF Len(s) < n THEN Len(s) ELSE n)

(* An error between two rows ends the loop over them as their end does: no *)
(* one asks rows.Err(), and the rows so far are the answer.                *)
GetRecentAlerts == {Top(s, n) : s \in NewestAlerts, n \in 0..Limit}

(* An error of the query or of Scan is an empty list to the page. *)
handleAlerts(p) ==
  /\ up /\ page[p] = "fetching" /\ reply[p] = {}
  /\ \E s \in GetRecentAlerts \cup {<< >>} :
       /\ reply' = [reply EXCEPT ![p] = {s}]
       /\ cut' = [cut EXCEPT ![p] = Len(s) < Found]
  /\ asked' = [asked EXCEPT ![p] = IF engine = "insert" THEN raised - 1 ELSE raised]
  /\ UNCHANGED <<up, engine, raised, db, list, feed, page, reader, lists>>

-----------------------------------------------------------------------------
(* The page.  The list of services is left out: it reads /proc only. *)

(* The alerts that AddAlert is done with, and those it has begun to add. *)
Added == IF engine = "broadcast" /\ unstored = {} THEN raised ELSE published
Touched == IF engine \in {"append", "broadcast"} THEN raised ELSE published

(* The four fetches are sent together. *)
Fetch(p) ==
  /\ up /\ page[p] = "closed" /\ page' = [page EXCEPT ![p] = "fetching"]
  /\ reader' = [reader EXCEPT ![p] = [h \in Handlers |->
        [Unread EXCEPT !.at = IF h = "stats" THEN "total" ELSE "load",
                       !.begun = Added]]]
  /\ UNCHANGED <<up, engine, raised, db, list, feed, answer, lists>>

Answered(p) == \A h \in Handlers : reader[p][h].at = "answered"

(* Answers are dropped; a handler that is still at work goes on. *)
Forget(p) ==
  /\ reply' = [reply EXCEPT ![p] = {}]
  /\ reader' = [reader EXCEPT ![p] = [h \in Handlers |->
        IF reader[p][h].at \in {"answered", "failed"} THEN Unread ELSE reader[p][h]]]
  /\ UNCHANGED <<asked, cut>>

FetchSucceeds(p) ==
  /\ up /\ page[p] = "fetching" /\ page' = [page EXCEPT ![p] = "connecting"]
  /\ Answered(p) /\ reply[p] \notin {{}, {<< >>}}
  /\ \A s \in reply[p] :
       /\ timeline' = [timeline EXCEPT ![p] = s]
       /\ recent' = [recent EXCEPT ![p] = Top(s, RecentLoad)]
  /\ total' = [total EXCEPT ![p] = reader[p]["stats"].total]
  /\ loaded' = [loaded EXCEPT ![p] = TRUE]
  /\ Forget(p)
  /\ UNCHANGED <<up, engine, raised, db, list, feed>>

(* A request that fails ends the fetches at once; an answer of no use does *)
(* when all are there.  The page goes on without any of them.              *)
FetchFails(p) ==
  /\ up /\ page[p] = "fetching" /\ page' = [page EXCEPT ![p] = "connecting"]
  /\ \/ \E h \in Handlers : reader[p][h].at = "failed"
     \/ Answered(p) /\ reply[p] = {<< >>}
  /\ Forget(p)
  /\ UNCHANGED <<up, engine, raised, db, list, feed, lists>>

(* Mutant of Connect: the websocket opens while the fetches are under way. *)
ConnectEarly(p) ==
  /\ up
  /\ \/ page[p] = "fetching" /\ Live!Subscribe(p) /\ UNCHANGED page
     \/ /\ page[p] = "connecting" /\ page' = [page EXCEPT ![p] = "live"]
        /\ first[p] # 0 /\ UNCHANGED feed
  /\ UNCHANGED <<up, engine, raised, db, list, reader, answer, lists>>

Connect(p) ==
  /\ up /\ page[p] = "connecting" /\ page' = [page EXCEPT ![p] = "live"]
  /\ Live!Subscribe(p)
  /\ UNCHANGED <<up, engine, raised, db, list, reader, answer, lists>>

(* Mutant of Limited: a list that is full takes no alert. *)
LimitedToFirst(s, n, cap) == IF Len(s) >= cap THEN s ELSE <<n>> \o s

(* One alert in front, and one off the end of a list that is too long. *)
Limited(s, n, cap) ==
  LET longer == <<n>> \o s
  IN  IF Len(longer) > cap THEN SubSeq(longer, 1, Len(s)) ELSE longer

(* ws.onmessage. *)
OnMessage(p) ==
  LET n == first[p] + Len(got[p])
  IN  /\ up /\ page[p] = "live"
      /\ Live!Receive(p)
      /\ timeline' = [timeline EXCEPT ![p] = Limited(@, n, TimelineCap)]
      /\ recent' = [recent EXCEPT ![p] = Limited(@, n, RecentCap)]
      /\ total' = [total EXCEPT ![p] = @ + 1]
      /\ UNCHANGED <<up, engine, raised, db, list, page, reader, answer, loaded>>

-----------------------------------------------------------------------------
Handle(p, h) == LoadLen(p, h) \/ LoadPtr(p, h) \/ RangeAlerts(p, h)

Next ==
  \/ Raise \/ InsertAlert \/ Evict \/ AppendAlert \/ BroadcastAlert
  \/ \E word \in Words : Store(word)
  \/ \E p \in Pages :
       \/ Fetch(p) \/ ReadTotal(p) \/ handleAlerts(p)
       \/ \E h \in Handlers : Handle(p, h)
       \/ FetchSucceeds(p) \/ FetchFails(p) \/ Connect(p) \/ OnMessage(p)

Spec == Init /\ [][Next]_vars

-----------------------------------------------------------------------------
(* Properties. *)

Size(n) == IF n < Keep THEN n ELSE Keep
Reading == [at : {"idle", "total", "load", "answered", "failed"}, begun : 0..MaxAlerts,
            total : 0..Keep \cup {None}, ptr : Pointer \cup {None},
            len : 0..Keep \cup {None}]

(* Types, and the shape of the list of recent alerts once its words are    *)
(* stored: it ends with the last alert that was added, holds the last Keep *)
(* of them, and all its slots are written (server.go:35-43).               *)
TypeOK ==
  /\ up \in BOOLEAN
  /\ engine \in {"idle", "insert", "evict", "append", "broadcast"}
  /\ raised \in 0..MaxAlerts
  /\ published = (IF engine = "idle" THEN raised ELSE raised - 1)
  /\ stamp \in [Alerts -> 0..MaxTime] /\ stored \in SUBSET (Older \cup 1..raised)
  /\ ptr \in Pointer /\ len \in 0..Keep /\ unstored \in SUBSET Words
  /\ target \in [ptr : Pointer, len : 0..Keep]
  /\ filled \in [Arrays -> Arrays] /\ end \in [Arrays -> Nat]
  /\ unstored = {} =>
       LET last == ptr.first + len - 1
       IN  /\ last = Added /\ last = filled[ptr.array] /\ last <= end[ptr.array]
           /\ engine # "append" => len = Size(Added)
  /\ page \in [Pages -> {"closed", "fetching", "connecting", "live"}]
  /\ reader \in [Pages -> [Handlers -> Reading]]
  /\ \A p \in Pages : reply[p] \subseteq Seq(Alerts)
  /\ timeline \in [Pages -> Seq(Alerts)] /\ recent \in [Pages -> Seq(Alerts)]
  /\ total \in [Pages -> Nat] /\ loaded \in [Pages -> BOOLEAN]
  /\ asked \in [Pages -> 0..MaxAlerts] /\ cut \in [Pages -> BOOLEAN]

(* An AddAlert overlaps a request that began when begun were added. *)
Overlapped(r) == Touched # r.begun

Least(r) == Size(r.begun) - IF Overlapped(r) THEN 1 ELSE 0

(* What the dashboard says of the number of alerts is the size of the list *)
(* when no AddAlert overlaps the request, and at most one less than that   *)
(* of the list before or more than that after it otherwise, although the   *)
(* list is read with no lock; and no handler meets a slot without an alert *)
(* or reads past the array, which fails the request or kills the program,  *)
(* unless an AddAlert overlaps it (server.go:35-43, 158-172, 203).         *)
StatsNearTruth ==
  [][/\ \A p \in Pages :
          LET r == reader[p]["stats"]
          IN  r.at = "load" /\ reader'[p]["stats"].at = "answered" =>
                {r.total, r.len} \subseteq Least(r)..Size(Touched)
     /\ \A p \in Pages, h \in Handlers :
          reader[p][h].at = "load" /\ reader'[p][h].at = "failed" =>
            Overlapped(reader[p][h])
     /\ up' # up => \E p \in Pages, h \in Handlers :
          reader[p][h].at = "load" /\ Overlapped(reader[p][h])]_vars

Time(p, i) == stamp[timeline[p][i]]

(* The newest alert is on top, and the table of recent alerts is the top   *)
(* of the timeline: what the limits cut off is never newer than what stays *)
(* (db.go:193-221, script.js:28-42, 729-739).                              *)
NewestFirst ==
  \A p \in Pages :
    /\ \A i, j \in 1..Len(timeline[p]) : i < j => Time(p, i) >= Time(p, j)
    /\ recent[p] = Top(timeline[p], Len(recent[p]))

(* The alert that the engine is between storing and broadcasting when the  *)
(* page connects may be both fetched and received; no other is shown twice *)
(* (engine.go:83-89, script.js:715-762).                                   *)
ShownOnce ==
  \A p \in Pages :
    \A i, j \in 1..Len(timeline[p]) :
      (i # j /\ timeline[p][i] = timeline[p][j]) => timeline[p][i] = first[p]

(* The page lacks an alert of the database only if it was stored after the *)
(* fetch and broadcast before the page connected, if it is on its way, or  *)
(* if it is no newer than what the page shows and the list is full or the  *)
(* database's answer broke off: that costs the oldest alerts, whenever it  *)
(* happens, and never one in the middle (db.go:193-221, script.js:14-55,   *)
(* 715-762).                                                               *)
OnlyTheGapIsMissing ==
  \A p \in Pages : (page[p] = "live" /\ loaded[p]) =>
    \A n \in stored \ {timeline[p][i] : i \in 1..Len(timeline[p])} :
      \/ asked[p] < n /\ n < first[p]
      \/ first[p] + Len(got[p]) <= n
      \/ /\ Len(timeline[p]) >= TimelineCap \/ cut[p]
         /\ \A i \in 1..Len(timeline[p]) : stamp[n] <= Time(p, i)

(* The number the page shows is never more than one ahead of the alerts    *)
(* that were broadcast (script.js:60, 747, server.go:160).                 *)
CountAtMostOneAhead ==
  \A p \in Pages : loaded[p] => total[p] <= published + 1
=============================================================================
