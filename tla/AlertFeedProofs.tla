--------------------------- MODULE AlertFeedProofs ---------------------------
(***************************************************************************)
(* Proofs about an alert on its way to the dashboard, for every number of  *)
(* pages, handlers and alerts, and for every limit of the lists that       *)
(* ListsAssumption admits.                                                 *)
(***************************************************************************)
EXTENDS AlertFeed, FiniteSetTheorems, SequenceTheorems, TLAPS

-----------------------------------------------------------------------------
(* The inductive invariant. *)

(* The engine works on the alert it raised last, and stamps never decrease *)
(* from one alert to the next.                                             *)
EngineOK ==
  /\ up \in BOOLEAN
  /\ engine \in {"idle", "insert", "evict", "append", "broadcast"}
  /\ raised \in 0..MaxAlerts
  /\ engine # "idle" => raised > 0
  /\ published = (IF engine = "idle" THEN raised ELSE raised - 1)
  /\ stamp \in [Alerts -> 0..MaxTime]
  /\ \A m, n \in Alerts : m <= n /\ n <= raised => stamp[m] <= stamp[n]
  /\ stored \in SUBSET (Older \cup 1..raised)
  /\ engine = "insert" => raised \notin stored

(* The words of the list, by how far the engine is with them: the list     *)
(* before an eviction, between the words of the shorter slice, and between *)
(* the words of the slice with the new alert.                              *)
ListType ==
  /\ ptr \in Pointer /\ len \in 0..Keep /\ unstored \in SUBSET Words
  /\ target \in [ptr : Pointer, len : 0..Keep]
  /\ filled \in [Arrays -> Arrays] /\ end \in [Arrays -> Nat]

AtRest ==
  /\ unstored = {} /\ len = Size(published)
  /\ ptr.first + len - 1 = published
  /\ filled[ptr.array] = published /\ published <= end[ptr.array]

Evicting ==
  /\ unstored \subseteq {"ptr", "len"}
  /\ filled[ptr.array] = published /\ published <= end[ptr.array]
  /\ unstored = {} => /\ ptr.first + len - 1 = published
                      /\ len = IF published < Keep THEN published ELSE Keep - 1
  /\ unstored # {} =>
       /\ published >= Keep
       /\ target.ptr.array = ptr.array /\ target.len = Keep - 1
       /\ target.ptr.first + Keep - 2 = published
       /\ len = IF "len" \in unstored THEN Keep ELSE Keep - 1
       /\ ptr.first = IF "ptr" \in unstored THEN target.ptr.first - 1
                                            ELSE target.ptr.first

Appending ==
  /\ target.ptr.first + target.len - 1 = raised /\ target.len = Size(raised)
  /\ raised <= end[target.ptr.array]
  /\ filled[target.ptr.array] = IF "slot" \in unstored THEN raised - 1 ELSE raised
  /\ "ptr" \notin unstored => ptr = target.ptr
  /\ len = IF "len" \in unstored THEN target.len - 1 ELSE target.len

ListOK ==
  /\ ListType
  /\ engine \in {"idle", "insert", "evict"} => AtRest
  /\ engine = "append" => Evicting
  /\ engine = "broadcast" => Appending

(* A page is subscribed once it is live, and got a prefix of what was      *)
(* published since.                                                        *)
FeedOK ==
  /\ page \in [Pages -> {"closed", "fetching", "connecting", "live"}]
  /\ first \in [Pages -> 0..(MaxAlerts + 1)] /\ got \in [Pages -> Seq(Nat)]
  /\ \A p \in Pages : /\ first[p] # 0 <=> page[p] = "live"
                      /\ page[p] # "live" => got[p] = << >>
                      /\ first[p] + Len(got[p]) <= published + 1

(* What a handler has read of the list lies between the sizes it had       *)
(* before and after the AddAlert calls that overlap the request; without   *)
(* one, it is the slice itself.                                            *)
Truth(r) == Least(r)..Size(Touched)

ReadingOK(r) ==
  /\ r.begun <= Added
  /\ r.at \in {"idle", "total"} => r.len = None /\ r.ptr = None
  /\ r.at = "load" => {r.total, r.len} \ {None} \subseteq Truth(r)
  /\ r.at = "load" /\ ~Overlapped(r) => r.len \in {None, len} /\ r.ptr \in {None, ptr}
  /\ r.at = "answered" /\ r.total # None => r.total <= published + 1

(* handleStats looks at the length before it goes through the list.        *)
Totalled(r) == r.at \in {"load", "answered"} => r.total # None

ReaderOK ==
  /\ reader \in [Pages -> [Handlers -> Reading]]
  /\ \A p \in Pages, h \in Handlers : ReadingOK(reader[p][h])
  /\ \A p \in Pages : Totalled(reader[p]["stats"])

(* A list of alerts as the database gives it: no alert twice, newest       *)
(* first, and none missing that was in the database when it was asked for, *)
(* unless the list is full of newer ones, or broke off and has newer ones. *)
NewestOf(s, known, broken) ==
  /\ s \in Seq(Alerts)
  /\ \A i \in 1..Len(s) : s[i] <= raised
  /\ \A i, j \in 1..Len(s) : i < j => s[i] # s[j] /\ stamp[s[i]] >= stamp[s[j]]
  /\ \A n \in stored :
       \/ known < n
       \/ \E i \in 1..Len(s) : s[i] = n
       \/ /\ Len(s) >= TimelineCap \/ broken
          /\ \A i \in 1..Len(s) : stamp[n] <= stamp[s[i]]

(* The newest alert whose insertion is over.                               *)
Known == IF engine = "insert" THEN raised - 1 ELSE raised

BrowserType ==
  /\ reply \in [Pages -> SUBSET Seq(Alerts)] /\ asked \in [Pages -> 0..MaxAlerts]
  /\ cut \in [Pages -> BOOLEAN]
  /\ timeline \in [Pages -> Seq(Alerts)] /\ recent \in [Pages -> Seq(Alerts)]
  /\ total \in [Pages -> Nat] /\ loaded \in [Pages -> BOOLEAN]

(* What a page was answered, what it shows before it is live, and then.    *)
AnswerOK(p) ==
  /\ asked[p] <= Known
  /\ page[p] = "closed" => reply[p] = {}
  /\ \A s \in reply[p] : s # << >> => NewestOf(s, asked[p], cut[p])

ShownOK(p) ==
  /\ page[p] \in {"closed", "fetching"} => ~loaded[p]
  /\ \A i \in 1..Len(timeline[p]) : timeline[p][i] <= raised
  /\ ~loaded[p] /\ page[p] # "live" => timeline[p] = << >>
  /\ loaded[p] /\ page[p] # "live" => NewestOf(timeline[p], asked[p], cut[p])
  /\ page[p] = "live" => \A i \in 1..Len(timeline[p]) :
       timeline[p][i] < first[p] + Len(got[p]) \/ timeline[p][i] = first[p]

CountOK(p) ==
  loaded[p] => total[p] <= IF page[p] = "live" THEN first[p] + Len(got[p])
                                               ELSE published + 1

(* The properties, page by page.                                           *)
NewestOn(p) ==
  /\ \A i, j \in 1..Len(timeline[p]) : i < j => Time(p, i) >= Time(p, j)
  /\ recent[p] = Top(timeline[p], Len(recent[p]))

OnceOn(p) ==
  \A i, j \in 1..Len(timeline[p]) :
    (i # j /\ timeline[p][i] = timeline[p][j]) => timeline[p][i] = first[p]

GapOn(p) ==
  (page[p] = "live" /\ loaded[p]) =>
    \A n \in stored \ {timeline[p][i] : i \in 1..Len(timeline[p])} :
      \/ asked[p] < n /\ n < first[p]
      \/ first[p] + Len(got[p]) <= n
      \/ /\ Len(timeline[p]) >= TimelineCap \/ cut[p]
         /\ \A i \in 1..Len(timeline[p]) : stamp[n] <= Time(p, i)

PageOK(p) ==
  AnswerOK(p) /\ ShownOK(p) /\ CountOK(p) /\ NewestOn(p) /\ OnceOn(p) /\ GapOn(p)

IInv ==
  /\ EngineOK /\ ListOK /\ FeedOK /\ ReaderOK
  /\ BrowserType /\ \A p \in Pages : PageOK(p)

-----------------------------------------------------------------------------
(* Alerts, and what only the engine changes. *)

LEMMA Bounds ==
  /\ MaxOlder \in Nat /\ MaxAlerts \in Nat /\ MaxTime \in Nat
  /\ Keep \in Nat /\ Keep > 0
BY BoundsAssumption, ListsAssumption

LEMMA AlertNumbers ==
  /\ Alerts \subseteq Int /\ Older \subseteq Alerts
  /\ \A n \in Older : n <= 0
  /\ \A n \in 1..MaxAlerts : n \in Alerts
  /\ \A n \in Alerts : n <= MaxAlerts /\ (n \in Older \/ n >= 1)
BY Bounds DEF Alerts, Older

LEMMA EngineNumbers ==
  ASSUME EngineOK
  PROVE  /\ raised \in Nat /\ raised <= MaxAlerts
         /\ published \in 0..raised /\ raised - 1 <= published
         /\ engine # "idle" => raised \in 1..MaxAlerts
         /\ \A n \in stored : n \in Alerts /\ n <= raised
<1>1. /\ raised \in 0..MaxAlerts
      /\ engine # "idle" => raised > 0
      /\ published = (IF engine = "idle" THEN raised ELSE raised - 1)
  BY DEF EngineOK
<1>2. /\ raised \in Nat /\ raised <= MaxAlerts
      /\ published \in 0..raised /\ raised - 1 <= published
      /\ engine # "idle" => raised \in 1..MaxAlerts
  BY <1>1, Bounds
<1>3. \A n \in stored : n \in Alerts /\ n <= raised
  <2> SUFFICES ASSUME NEW n \in stored PROVE n \in Alerts /\ n <= raised
    OBVIOUS
  <2>1. n \in Older \/ n \in 1..raised
    BY DEF EngineOK
  <2>2. CASE n \in Older
    BY <1>2, <2>2, AlertNumbers
  <2>3. CASE n \in 1..raised
    <3>1. n \in 1..MaxAlerts /\ n <= raised
      BY <1>2, <2>3, Bounds
    <3> QED BY <3>1, AlertNumbers
  <2> QED BY <2>1, <2>2, <2>3
<1> QED BY <1>2, <1>3

LEMMA InitEngine == Init => EngineOK
<1> SUFFICES ASSUME Init PROVE EngineOK
  OBVIOUS
<1>1. /\ up \in BOOLEAN /\ engine = "idle" /\ raised = 0 /\ published = 0
      /\ stamp = [n \in Alerts |-> 0] /\ stored \in {{}, Older}
  BY DEF Init, Live!Init
<1>2. raised \in 0..MaxAlerts /\ 0 \in 0..MaxTime
  BY <1>1, Bounds
<1>3. stamp \in [Alerts -> 0..MaxTime] /\ \A m, n \in Alerts : stamp[m] <= stamp[n]
  BY <1>1, <1>2
<1> QED BY <1>1, <1>2, <1>3 DEF EngineOK

(* The clock does not go back, so the new alert has the latest stamp.      *)
LEMMA RaiseEngine == EngineOK /\ Raise => EngineOK'
<1> SUFFICES ASSUME EngineOK, Raise PROVE EngineOK'
  OBVIOUS
<1>1. /\ up' = up /\ engine = "idle" /\ engine' = "insert"
      /\ raised' = raised + 1 /\ raised < MaxAlerts
      /\ published' = published /\ stored' = stored
  BY DEF Raise, feed
<1>2. PICK time \in 0..MaxTime :
        /\ \A n \in Alerts : stamp[n] <= time
        /\ stamp' = [stamp EXCEPT ![raised + 1] = time]
  BY DEF Raise
<1>3. /\ raised' \in 0..MaxAlerts /\ raised' > 0 /\ published' = raised' - 1
      /\ raised' \in Alerts
  BY <1>1, Bounds, AlertNumbers DEF EngineOK
<1>4. stamp' \in [Alerts -> 0..MaxTime]
  BY <1>2 DEF EngineOK
<1>5. \A m, n \in Alerts : m <= n /\ n <= raised' => stamp'[m] <= stamp'[n]
  <2> SUFFICES ASSUME NEW m \in Alerts, NEW n \in Alerts, m <= n, n <= raised'
               PROVE  stamp'[m] <= stamp'[n]
    OBVIOUS
  <2>1. m \in Int /\ n \in Int /\ raised \in Int
    BY AlertNumbers DEF EngineOK
  <2>2. CASE n = raised'
    <3>1. stamp'[n] = time /\ stamp[m] <= time
      BY <1>1, <1>2, <2>2 DEF EngineOK
    <3>2. stamp'[m] = stamp[m] \/ stamp'[m] = time
      BY <1>2 DEF EngineOK
    <3> QED BY <3>1, <3>2
  <2>3. CASE n # raised'
    <3>1. n <= raised /\ m # raised' /\ n # raised'
      BY <1>1, <2>1, <2>3
    <3>2. stamp'[m] = stamp[m] /\ stamp'[n] = stamp[n]
      BY <1>1, <1>2, <3>1 DEF EngineOK
    <3> QED BY <3>1, <3>2 DEF EngineOK
  <2> QED BY <2>2, <2>3
<1>6. \A n \in stored' : n \in Older \cup 1..raised /\ n <= raised
  BY <1>1, EngineNumbers DEF EngineOK
<1>7. stored' \in SUBSET (Older \cup 1..raised') /\ raised' \notin stored'
  <2>1. 1..raised \subseteq 1..raised' /\ ~(raised' <= raised)
    BY <1>1 DEF EngineOK
  <2> QED BY <1>6, <2>1
<1> QED BY <1>1, <1>3, <1>4, <1>5, <1>7 DEF EngineOK

(* A step of the engine from one stage to the next, with the alert it      *)
(* works on.                                                               *)
LEMMA StageEngine ==
  ASSUME EngineOK, up' \in BOOLEAN,
         UNCHANGED <<raised, stamp>>,
         stored' \in {stored, stored \cup {raised}},
         \/ UNCHANGED <<engine, published, stored>>
         \/ /\ engine # "idle" /\ engine' \in {"evict", "append", "broadcast"}
            /\ published' = published
         \/ /\ engine # "idle" /\ engine' = "idle"
            /\ published' = published + 1
  PROVE  EngineOK'
<1>1. /\ engine' \in {"idle", "insert", "evict", "append", "broadcast"}
      /\ raised' \in 0..MaxAlerts
      /\ engine' # "idle" => raised' > 0
  BY DEF EngineOK
<1>2. published' = (IF engine' = "idle" THEN raised' ELSE raised' - 1)
  BY DEF EngineOK
<1>3. stored' \in SUBSET (Older \cup 1..raised')
  <2>1. stored \in SUBSET (Older \cup 1..raised)
    BY DEF EngineOK
  <2>2. engine # "idle" => raised \in 1..raised
    BY EngineNumbers
  <2>3. stored' = stored \/ engine # "idle"
    OBVIOUS
  <2> QED BY <2>1, <2>2, <2>3
<1>4. engine' = "insert" => raised' \notin stored'
  BY DEF EngineOK
<1>5. /\ stamp' \in [Alerts -> 0..MaxTime]
      /\ \A m, n \in Alerts : m <= n /\ n <= raised' => stamp'[m] <= stamp'[n]
  BY DEF EngineOK
<1> QED BY <1>1, <1>2, <1>3, <1>4, <1>5 DEF EngineOK

LEMMA NextEngine == EngineOK /\ [Next]_vars => EngineOK'
<1> SUFFICES ASSUME EngineOK, [Next]_vars PROVE EngineOK'
  OBVIOUS
<1> DEFINE Same == UNCHANGED <<engine, published, stored, raised, stamp>>
                   /\ up' \in BOOLEAN
<1>1. Same => EngineOK'
  BY StageEngine
<1>2. up \in BOOLEAN
  BY DEF EngineOK
<1>3. CASE UNCHANGED vars
  BY <1>1, <1>2, <1>3 DEF vars, db, feed
<1>4. CASE Raise
  BY <1>4, RaiseEngine
<1>5. CASE InsertAlert
  BY <1>2, <1>5, StageEngine DEF InsertAlert, feed
<1>6. CASE Evict
  BY <1>2, <1>6, StageEngine DEF Evict, feed, db
<1>7. CASE AppendAlert
  BY <1>2, <1>7, StageEngine DEF AppendAlert, feed, db
<1>8. CASE BroadcastAlert
  BY <1>2, <1>8, StageEngine DEF BroadcastAlert, Live!Publish, db
<1>9. ASSUME NEW word \in Words, Store(word) PROVE EngineOK'
  BY <1>1, <1>2, <1>9 DEF Store, feed, db
<1>10. ASSUME NEW p \in Pages, Fetch(p) \/ handleAlerts(p) \/ ReadTotal(p)
                               \/ FetchSucceeds(p) \/ FetchFails(p)
       PROVE EngineOK'
  BY <1>1, <1>2, <1>10 DEF Fetch, handleAlerts, ReadTotal, Handling, FetchSucceeds,
     FetchFails, feed, db
<1>11. ASSUME NEW p \in Pages, NEW h \in Handlers, Handle(p, h) PROVE EngineOK'
  BY <1>1, <1>2, <1>11 DEF Handle, LoadLen, LoadPtr, RangeAlerts, Handling, feed, db
<1>12. ASSUME NEW p \in Pages, Connect(p) \/ OnMessage(p) PROVE EngineOK'
  BY <1>1, <1>2, <1>12 DEF Connect, OnMessage, Live!Subscribe, Live!Receive, db
<1> QED BY <1>3, <1>4, <1>5, <1>6, <1>7, <1>8, <1>9, <1>10, <1>11, <1>12 DEF Next

-----------------------------------------------------------------------------
(* The server's list of recent alerts. *)

LEMMA SizeMonotone ==
  ASSUME NEW m \in Nat, NEW n \in Nat, m <= n
  PROVE  Size(m) \in Nat /\ Size(n) \in Nat /\ Size(m) <= Size(n)
BY Bounds DEF Size

LEMMA SizeBounds ==
  ASSUME NEW n \in Nat
  PROVE  /\ Size(n) \in 0..Keep /\ Size(n) <= n
         /\ Size(n) <= Size(n + 1) /\ Size(n + 1) <= Size(n) + 1
         /\ \A m \in Nat : m <= n => Size(m) <= Size(n)
BY Bounds DEF Size

LEMMA PointerFields ==
  ASSUME NEW w \in Pointer
  PROVE  w.array \in Arrays /\ w.first \in 1..(MaxAlerts + 1)
BY DEF Pointer

LEMMA ListNumbers ==
  ASSUME ListType
  PROVE  /\ ptr.array \in Arrays /\ ptr.first \in Nat /\ ptr.first > 0
         /\ len \in Nat /\ len <= Keep
         /\ filled[ptr.array] \in Nat /\ end[ptr.array] \in Nat
         /\ target.ptr \in Pointer /\ target.len \in Nat
         /\ target.ptr.array \in Arrays /\ target.ptr.first \in Nat
         /\ filled[target.ptr.array] \in Nat /\ end[target.ptr.array] \in Nat
<1>1. ptr \in Pointer /\ target.ptr \in Pointer /\ target.len \in 0..Keep
      /\ len \in 0..Keep
  BY DEF ListType
<1>2. /\ ptr.array \in Arrays /\ ptr.first \in 1..(MaxAlerts + 1)
      /\ target.ptr.array \in Arrays /\ target.ptr.first \in 1..(MaxAlerts + 1)
  BY <1>1, PointerFields
<1>3. \A a \in Arrays : filled[a] \in Nat /\ end[a] \in Nat
  BY Bounds DEF ListType, Arrays
<1> QED BY <1>1, <1>2, <1>3, Bounds

LEMMA InitList == Init => ListOK
<1> SUFFICES ASSUME Init PROVE ListOK
  OBVIOUS
<1>1. /\ ptr = [array |-> 0, first |-> 1] /\ len = 0 /\ unstored = {}
      /\ filled = [a \in Arrays |-> 0] /\ end = [a \in Arrays |-> 0]
      /\ target = [ptr |-> ptr, len |-> 0] /\ engine = "idle" /\ published = 0
  BY DEF Init, Live!Init
<1>2. 0 \in Arrays /\ 1 \in 1..(MaxAlerts + 1) /\ 0 \in 0..Keep
  BY Bounds DEF Arrays
<1>3. ptr \in Pointer
  BY <1>1, <1>2 DEF Pointer
<1>4. ListType
  BY <1>1, <1>2, <1>3 DEF ListType, Words
<1>5. AtRest
  BY <1>1, <1>2, Bounds DEF AtRest, Size
<1> QED BY <1>1, <1>4, <1>5 DEF ListOK

LEMMA EvictList ==
  ASSUME EngineOK, ListOK, Evict
  PROVE  ListOK'
<1>1. /\ engine = "evict" /\ engine' = "append"
      /\ UNCHANGED <<raised, published, ptr, len, filled, end>>
  BY DEF Evict, feed
<1>2. ListType /\ AtRest
  BY <1>1 DEF ListOK
<1>3. /\ len = Size(published) /\ ptr.first + len - 1 = published
      /\ filled[ptr.array] = published /\ published <= end[ptr.array]
      /\ unstored = {}
  BY <1>2 DEF AtRest
<1>4. CASE len >= Keep
  <2>1. /\ target' = [ptr |-> [ptr EXCEPT !.first = @ + 1], len |-> len - 1]
        /\ unstored' = {"ptr", "len"}
    BY <1>2, <1>4, ListNumbers, Bounds DEF Evict
  <2>2. len = Keep /\ published >= Keep /\ published \in Nat
    BY <1>2, <1>3, <1>4, ListNumbers, EngineNumbers, Bounds DEF Size
  <2>3. /\ target'.ptr.array = ptr.array /\ target'.len = Keep - 1
        /\ target'.ptr.first = ptr.first + 1
    BY <1>2, <2>1, <2>2 DEF ListType, Pointer
  <2>4. ptr.first + 1 \in 1..(MaxAlerts + 1)
    BY <1>2, <1>3, <2>2, ListNumbers, EngineNumbers, Bounds
  <2>5. target'.ptr \in Pointer
    BY <1>2, <2>1, <2>4 DEF ListType, Pointer
  <2>6. ListType'
    <3>1. target' \in [ptr : Pointer, len : 0..Keep]
      BY <2>1, <2>2, <2>5, Bounds
    <3>2. unstored' \in SUBSET Words
      BY <2>1 DEF Words
    <3> QED BY <1>1, <1>2, <3>1, <3>2 DEF ListType
  <2>7. target'.ptr.first + Keep - 2 = published
    BY <1>2, <1>3, <2>2, <2>3, ListNumbers, Bounds
  <2>8. ptr.first = target'.ptr.first - 1
    BY <1>2, <2>3, ListNumbers
  <2>9. Evicting'
    BY <1>1, <1>3, <2>1, <2>2, <2>3, <2>7, <2>8 DEF Evicting
  <2> QED BY <1>1, <2>6, <2>9 DEF ListOK
<1>5. CASE len < Keep
  <2>1. UNCHANGED <<target, unstored>>
    BY <1>2, <1>5, ListNumbers, Bounds DEF Evict
  <2>2. ListType'
    BY <1>1, <1>2, <2>1 DEF ListType
  <2>3. published < Keep /\ len = published
    BY <1>3, <1>5, EngineNumbers, Bounds DEF Size
  <2>4. Evicting'
    BY <1>1, <1>3, <2>1, <2>3 DEF Evicting
  <2> QED BY <1>1, <2>2, <2>4 DEF ListOK
<1> QED BY <1>2, <1>4, <1>5, ListNumbers, Bounds

(* append writes its slot behind the last alert, in this array or in one   *)
(* of its own, which no other slice has.                                   *)
LEMMA AppendList ==
  ASSUME EngineOK, ListOK, AppendAlert
  PROVE  ListOK'
<1>1. /\ engine = "append" /\ engine' = "broadcast" /\ unstored = {}
      /\ UNCHANGED <<raised, published, ptr, len>>
  BY DEF AppendAlert, feed
<1>2. ListType /\ Evicting
  BY <1>1 DEF ListOK
<1>3. /\ ptr.first + len - 1 = published
      /\ len = IF published < Keep THEN published ELSE Keep - 1
      /\ filled[ptr.array] = published /\ published <= end[ptr.array]
  BY <1>1, <1>2 DEF Evicting
<1>4. /\ published \in Nat /\ raised = published + 1 /\ raised \in Arrays
      /\ published \in Arrays
  BY <1>1, EngineNumbers, Bounds DEF EngineOK, Arrays
<1>5. len + 1 \in 0..Keep /\ len + 1 = Size(raised) /\ len = (len + 1) - 1
  BY <1>3, <1>4, Bounds DEF Size
<1>6. ptr.first + (len + 1) - 1 = raised
  BY <1>2, <1>3, <1>4, ListNumbers
<1>7. CASE /\ published < end[ptr.array]
           /\ target' = [ptr |-> ptr, len |-> len + 1] /\ unstored' = {"len", "slot"}
           /\ UNCHANGED <<filled, end>>
  <2>1. ListType'
    <3>1. target' \in [ptr : Pointer, len : 0..Keep]
      BY <1>2, <1>5, <1>7 DEF ListType
    <3>2. unstored' \in SUBSET Words
      BY <1>7 DEF Words
    <3> QED BY <1>1, <1>2, <1>7, <3>1, <3>2 DEF ListType
  <2>2. raised <= end[ptr.array] /\ raised - 1 = published
    BY <1>2, <1>4, <1>7, ListNumbers
  <2>3. Appending'
    BY <1>1, <1>3, <1>5, <1>6, <1>7, <2>2 DEF Appending, Size
  <2> QED BY <1>1, <2>1, <2>3 DEF ListOK
<1>8. CASE /\ target' = [ptr |-> [ptr EXCEPT !.array = raised], len |-> len + 1]
           /\ unstored' = Words
           /\ filled' = [filled EXCEPT ![raised] = published]
           /\ \E spare \in 0..Keep :
                end' = [end EXCEPT ![raised] = published + 1 + spare]
  <2>1. [ptr EXCEPT !.array = raised] \in Pointer
    BY <1>2, <1>4 DEF ListType, Pointer
  <2>2. /\ target'.ptr.array = raised /\ target'.ptr.first = ptr.first
        /\ target'.len = len + 1
    BY <1>2, <1>8 DEF ListType, Pointer
  <2>3. /\ filled' \in [Arrays -> Arrays] /\ filled'[raised] = published
        /\ end' \in [Arrays -> Nat] /\ raised <= end'[raised]
    <3>1. PICK spare \in 0..Keep : end' = [end EXCEPT ![raised] = published + 1 + spare]
      BY <1>8
    <3>2. published + 1 + spare \in Nat /\ raised <= published + 1 + spare
      BY <1>4, Bounds
    <3>3. end' \in [Arrays -> Nat] /\ end'[raised] = published + 1 + spare
      BY <1>2, <1>4, <3>1, <3>2 DEF ListType
    <3>4. filled' \in [Arrays -> Arrays] /\ filled'[raised] = published
      BY <1>2, <1>4, <1>8 DEF ListType
    <3> QED BY <3>2, <3>3, <3>4
  <2>4. ListType'
    <3>1. target' \in [ptr : Pointer, len : 0..Keep]
      BY <1>5, <1>8, <2>1
    <3> QED BY <1>1, <1>2, <1>8, <2>3, <3>1 DEF ListType
  <2>5. raised - 1 = published
    BY <1>4
  <2>6. Appending'
    BY <1>1, <1>5, <1>6, <1>8, <2>2, <2>3, <2>5 DEF Appending, Size, Words
  <2> QED BY <1>1, <2>4, <2>6 DEF ListOK
<1> QED
  <2>1. ptr.first + len - 1 = published
    BY <1>3
  <2> QED BY <1>7, <1>8, <2>1 DEF AppendAlert

(* In any order the words become those of the slice to be stored.          *)
LEMMA StoreType ==
  ASSUME ListType, NEW word \in Words, Store(word),
         word = "slot" => filled[target.ptr.array] + 1 \in Arrays
  PROVE  ListType'
<1>1. /\ word \in unstored /\ unstored' = unstored \ {word}
      /\ ptr' = (IF word = "ptr" THEN target.ptr ELSE ptr)
      /\ len' = (IF word = "len" THEN target.len ELSE len)
      /\ UNCHANGED <<end, target>>
  BY DEF Store
<1>2. ptr' \in Pointer /\ len' \in 0..Keep /\ unstored' \in SUBSET Words
  BY <1>1 DEF ListType
<1>3. filled' \in [Arrays -> Arrays]
  <2>1. target.ptr.array \in Arrays
    BY ListNumbers
  <2> QED BY <2>1 DEF ListType, Store
<1> QED BY <1>1, <1>2, <1>3 DEF ListType

LEMMA StoreList ==
  ASSUME EngineOK, ListOK, NEW word \in Words, Store(word)
  PROVE  ListOK'
<1>1. /\ word \in unstored /\ unstored' = unstored \ {word}
      /\ ptr' = (IF word = "ptr" THEN target.ptr ELSE ptr)
      /\ len' = (IF word = "len" THEN target.len ELSE len)
      /\ UNCHANGED <<engine, raised, published, end, target>>
  BY DEF Store, feed
<1>2. ListType
  BY DEF ListOK
<1>3. CASE engine = "append"
  <2>1. Evicting
    BY <1>3 DEF ListOK
  <2>2. /\ unstored \subseteq {"ptr", "len"} /\ word \in {"ptr", "len"}
        /\ published >= Keep /\ target.ptr.array = ptr.array /\ target.len = Keep - 1
        /\ target.ptr.first + Keep - 2 = published
        /\ filled[ptr.array] = published /\ published <= end[ptr.array]
        /\ len = IF "len" \in unstored THEN Keep ELSE Keep - 1
        /\ ptr.first = IF "ptr" \in unstored THEN target.ptr.first - 1
                                             ELSE target.ptr.first
    BY <1>1, <2>1 DEF Evicting
  <2>3. filled' = filled
    BY <2>2 DEF Store
  <2>4. ListType'
    BY <1>2, <2>2, StoreType
  <2>5. /\ ptr'.array = ptr.array
        /\ len' = IF "len" \in unstored' THEN Keep ELSE Keep - 1
        /\ ptr'.first = IF "ptr" \in unstored' THEN target.ptr.first - 1
                                               ELSE target.ptr.first
    BY <1>1, <2>2
  <2>6. unstored' = {} => ptr'.first + len' - 1 = published
    <3>1. target.ptr.first + (Keep - 1) - 1 = published
      BY <1>2, <2>2, ListNumbers, Bounds
    <3> QED BY <2>5, <3>1
  <2>7. ~(published < Keep)
    BY <2>2, EngineNumbers, Bounds
  <2>8. Evicting'
    BY <1>1, <2>2, <2>3, <2>5, <2>6, <2>7 DEF Evicting
  <2> QED BY <1>1, <1>3, <2>4, <2>8 DEF ListOK
<1>4. CASE engine = "broadcast"
  <2>1. Appending
    BY <1>4 DEF ListOK
  <2>2. /\ target.ptr.first + target.len - 1 = raised /\ target.len = Size(raised)
        /\ raised <= end[target.ptr.array]
        /\ filled[target.ptr.array] = IF "slot" \in unstored THEN raised - 1 ELSE raised
        /\ "ptr" \notin unstored => ptr = target.ptr
        /\ len = IF "len" \in unstored THEN target.len - 1 ELSE target.len
    BY <2>1 DEF Appending
  <2>3. raised \in Arrays /\ raised \in Int /\ (raised - 1) + 1 = raised
    BY EngineNumbers, Bounds DEF Arrays
  <2>4. ListType'
    BY <1>1, <1>2, <2>2, <2>3, StoreType
  <2>5. filled'[target.ptr.array] = IF "slot" \in unstored' THEN raised - 1 ELSE raised
    <3>1. target.ptr.array \in Arrays /\ filled \in [Arrays -> Arrays]
      BY <1>2, ListNumbers DEF ListType
    <3>2. CASE word = "slot"
      <4>1. filled' = [filled EXCEPT ![target.ptr.array] = filled[target.ptr.array] + 1]
        BY <3>2 DEF Store
      <4> QED BY <1>1, <2>2, <2>3, <3>1, <3>2, <4>1
    <3>3. CASE word # "slot"
      <4>1. filled' = filled
        BY <3>3 DEF Store
      <4> QED BY <1>1, <2>2, <3>3, <4>1
    <3> QED BY <3>2, <3>3
  <2>6. /\ "ptr" \notin unstored' => ptr' = target.ptr
        /\ len' = IF "len" \in unstored' THEN target.len - 1 ELSE target.len
    BY <1>1, <2>2
  <2>7. Appending'
    BY <1>1, <2>2, <2>5, <2>6 DEF Appending, Size
  <2> QED BY <1>1, <1>4, <2>4, <2>7 DEF ListOK
<1>5. CASE engine \in {"idle", "insert", "evict"}
  BY <1>1, <1>5 DEF ListOK, AtRest
<1> QED BY <1>3, <1>4, <1>5 DEF EngineOK

LEMMA BroadcastList ==
  ASSUME EngineOK, ListOK, BroadcastAlert
  PROVE  ListOK'
<1>1. /\ engine = "broadcast" /\ unstored = {} /\ engine' = "idle"
      /\ published' = published + 1
      /\ UNCHANGED <<raised, ptr, len, filled, end, target, unstored>>
  BY DEF BroadcastAlert, Live!Publish, list
<1>2. ListType /\ Appending
  BY <1>1 DEF ListOK
<1>3. published' = raised
  BY <1>1 DEF EngineOK
<1>4. /\ ptr.first + len - 1 = raised /\ len = Size(raised)
      /\ raised <= end[ptr.array] /\ filled[ptr.array] = raised
  BY <1>1, <1>2 DEF Appending
<1>5. ListType'
  BY <1>1, <1>2 DEF ListType
<1>6. AtRest'
  BY <1>1, <1>3, <1>4 DEF AtRest, Size
<1> QED BY <1>1, <1>5, <1>6 DEF ListOK

(* A step of the engine that leaves the list alone.                        *)
LEMMA SameList ==
  ASSUME EngineOK, ListOK,
         UNCHANGED <<ptr, len, filled, end, target, unstored, published>>,
         \/ UNCHANGED <<engine, raised>>
         \/ {engine, engine'} \subseteq {"idle", "insert", "evict"}
  PROVE  ListOK'
<1>1. ListType'
  BY DEF ListType, ListOK
<1>2. AtRest => AtRest'
  BY DEF AtRest, Size
<1>3. Evicting => Evicting'
  BY DEF Evicting
<1>4. Appending /\ raised' = raised => Appending'
  BY DEF Appending, Size
<1> QED BY <1>1, <1>2, <1>3, <1>4 DEF ListOK

LEMMA NextList == EngineOK /\ ListOK /\ [Next]_vars => ListOK'
<1> SUFFICES ASSUME EngineOK, ListOK, [Next]_vars PROVE ListOK'
  OBVIOUS
<1> DEFINE Same == UNCHANGED <<ptr, len, filled, end, target, unstored, published,
                               engine, raised>>
<1>1. Same => ListOK'
  BY SameList
<1>2. CASE UNCHANGED vars
  BY <1>1, <1>2 DEF vars, list, feed
<1>3. CASE Raise
  BY <1>3, SameList DEF Raise, list, feed
<1>4. CASE InsertAlert
  BY <1>4, SameList DEF InsertAlert, list, feed
<1>5. CASE Evict
  BY <1>5, EvictList
<1>6. CASE AppendAlert
  BY <1>6, AppendList
<1>7. CASE BroadcastAlert
  BY <1>7, BroadcastList
<1>8. ASSUME NEW word \in Words, Store(word) PROVE ListOK'
  BY <1>8, StoreList
<1>9. ASSUME NEW p \in Pages, Fetch(p) \/ handleAlerts(p) \/ ReadTotal(p)
                              \/ FetchSucceeds(p) \/ FetchFails(p)
      PROVE ListOK'
  BY <1>1, <1>9 DEF Fetch, handleAlerts, ReadTotal, Handling, FetchSucceeds,
     FetchFails, feed, list
<1>10. ASSUME NEW p \in Pages, NEW h \in Handlers, Handle(p, h) PROVE ListOK'
  BY <1>1, <1>10 DEF Handle, LoadLen, LoadPtr, RangeAlerts, Handling, feed, list
<1>11. ASSUME NEW p \in Pages, Connect(p) \/ OnMessage(p) PROVE ListOK'
  BY <1>1, <1>11 DEF Connect, OnMessage, Live!Subscribe, Live!Receive, list
<1> QED BY <1>2, <1>3, <1>4, <1>5, <1>6, <1>7, <1>8, <1>9, <1>10, <1>11 DEF Next

-----------------------------------------------------------------------------
(* The feed. *)

LEMMA InitFeed == Init => FeedOK
<1> SUFFICES ASSUME Init PROVE FeedOK
  OBVIOUS
<1>1. /\ page = [p \in Pages |-> "closed"] /\ published = 0
      /\ first = [p \in Pages |-> 0] /\ got = [p \in Pages |-> << >>]
  BY DEF Init, Live!Init
<1>2. << >> \in Seq(Nat) /\ Len(<< >>) = 0 /\ 0 \in 0..(MaxAlerts + 1)
  BY Bounds
<1> QED BY <1>1, <1>2 DEF FeedOK

LEMMA FeedNumbers ==
  ASSUME FeedOK, NEW p \in Pages
  PROVE  /\ first[p] \in Nat /\ got[p] \in Seq(Nat) /\ Len(got[p]) \in Nat
         /\ first[p] + Len(got[p]) <= published + 1
         /\ first[p] # 0 <=> page[p] = "live"
         /\ page[p] # "live" => Len(got[p]) = 0
<1>1. first[p] \in Nat /\ got[p] \in Seq(Nat)
  BY Bounds DEF FeedOK
<1>2. Len(got[p]) \in Nat
  BY <1>1, LenProperties
<1>3. page[p] # "live" => Len(got[p]) = 0
  BY DEF FeedOK
<1> QED BY <1>1, <1>2, <1>3 DEF FeedOK

(* A step that moves pages that are not subscribed.                        *)
LEMMA SameFeed ==
  ASSUME FeedOK, UNCHANGED <<first, got>>, published' \in {published, published + 1},
         published \in Nat,
         \/ page' = page
         \/ \E p \in Pages : /\ page[p] # "live"
                            /\ \E to \in {"fetching", "connecting"} :
                                 page' = [page EXCEPT ![p] = to]
  PROVE  FeedOK'
<1>1. page' \in [Pages -> {"closed", "fetching", "connecting", "live"}]
  BY DEF FeedOK
<1>2. \A p \in Pages : page'[p] = "live" <=> page[p] = "live"
  BY DEF FeedOK
<1>3. \A p \in Pages : first[p] + Len(got[p]) <= published' + 1
  <2> TAKE p \in Pages
  <2> QED BY FeedNumbers
<1> QED BY <1>1, <1>2, <1>3 DEF FeedOK

LEMMA ConnectFeed ==
  ASSUME EngineOK, FeedOK, NEW p \in Pages, Connect(p)
  PROVE  FeedOK'
<1>1. /\ page[p] = "connecting" /\ page' = [page EXCEPT ![p] = "live"]
      /\ first' = [first EXCEPT ![p] = published + 1]
      /\ got' = got /\ published' = published
  BY DEF Connect, Live!Subscribe
<1>2. published + 1 \in 0..(MaxAlerts + 1) /\ published + 1 # 0
  BY EngineNumbers, Bounds
<1>3. /\ page' \in [Pages -> {"closed", "fetching", "connecting", "live"}]
      /\ first' \in [Pages -> 0..(MaxAlerts + 1)]
  BY <1>1, <1>2 DEF FeedOK
<1>4. \A q \in Pages : (first'[q] # 0 <=> page'[q] = "live")
                      /\ (page'[q] # "live" => got'[q] = << >>)
  BY <1>1, <1>2 DEF FeedOK
<1>5. \A q \in Pages : first'[q] + Len(got'[q]) <= published' + 1
  <2> TAKE q \in Pages
  <2>1. CASE q = p
    <3>1. first'[q] = published + 1 /\ Len(got'[q]) = 0
      BY <1>1, <2>1, FeedNumbers DEF FeedOK
    <3> QED BY <1>1, <3>1, EngineNumbers
  <2>2. CASE q # p
    BY <1>1, <2>2 DEF FeedOK
  <2> QED BY <2>1, <2>2
<1> QED BY <1>1, <1>3, <1>4, <1>5 DEF FeedOK

LEMMA ReceiveFeed ==
  ASSUME EngineOK, FeedOK, NEW p \in Pages, OnMessage(p)
  PROVE  /\ FeedOK'
         /\ Len(got'[p]) = Len(got[p]) + 1
         /\ \A q \in Pages \ {p} : got'[q] = got[q]
<1> DEFINE next == first[p] + Len(got[p])
<1>1. /\ page[p] = "live" /\ next <= published
      /\ got' = [got EXCEPT ![p] = Append(got[p], next)]
      /\ UNCHANGED <<page, first, published>>
  BY DEF OnMessage, Live!Receive
<1>2. got[p] \in Seq(Nat) /\ next \in Nat
  BY FeedNumbers
<1>3. Append(got[p], next) \in Seq(Nat) /\ Len(Append(got[p], next)) = Len(got[p]) + 1
  BY <1>2, AppendProperties
<1>4. got' \in [Pages -> Seq(Nat)] /\ Len(got'[p]) = Len(got[p]) + 1
  BY <1>1, <1>3 DEF FeedOK
<1>5. \A q \in Pages \ {p} : got'[q] = got[q]
  BY <1>1 DEF FeedOK
<1>6. first[p] + Len(got'[p]) <= published + 1
  BY <1>1, <1>4, FeedNumbers, EngineNumbers
<1>7. \A q \in Pages : first[q] + Len(got'[q]) <= published + 1
  BY <1>5, <1>6 DEF FeedOK
<1>8. \A q \in Pages : page[q] # "live" => got'[q] = << >>
  BY <1>1, <1>5 DEF FeedOK
<1> QED BY <1>1, <1>4, <1>5, <1>7, <1>8 DEF FeedOK

LEMMA NextFeed == EngineOK /\ FeedOK /\ [Next]_vars => FeedOK'
<1> SUFFICES ASSUME EngineOK, FeedOK, [Next]_vars PROVE FeedOK'
  OBVIOUS
<1>0. published \in Nat
  BY EngineNumbers
<1> DEFINE Same == UNCHANGED <<published, first, got, page>>
<1>1. Same => FeedOK'
  BY <1>0, SameFeed
<1>2. CASE UNCHANGED vars
  BY <1>1, <1>2 DEF vars, feed, browser
<1>3. CASE Raise \/ InsertAlert \/ Evict \/ AppendAlert
  BY <1>1, <1>3 DEF Raise, InsertAlert, Evict, AppendAlert, feed, browser
<1>4. CASE BroadcastAlert
  BY <1>0, <1>4, SameFeed DEF BroadcastAlert, Live!Publish, browser
<1>5. ASSUME NEW word \in Words, Store(word) PROVE FeedOK'
  BY <1>1, <1>5 DEF Store, feed, browser
<1>6. ASSUME NEW p \in Pages, Fetch(p) \/ FetchSucceeds(p) \/ FetchFails(p)
      PROVE FeedOK'
  BY <1>0, <1>6, SameFeed DEF Fetch, FetchSucceeds, FetchFails, feed
<1>7. ASSUME NEW p \in Pages, handleAlerts(p) \/ ReadTotal(p) PROVE FeedOK'
  BY <1>1, <1>7 DEF handleAlerts, ReadTotal, Handling, feed
<1>8. ASSUME NEW p \in Pages, NEW h \in Handlers, Handle(p, h) PROVE FeedOK'
  BY <1>1, <1>8 DEF Handle, LoadLen, LoadPtr, RangeAlerts, Handling, feed, browser
<1>9. ASSUME NEW p \in Pages, Connect(p) PROVE FeedOK'
  BY <1>9, ConnectFeed
<1>10. ASSUME NEW p \in Pages, OnMessage(p) PROVE FeedOK'
  BY <1>10, ReceiveFeed
<1> QED BY <1>2, <1>3, <1>4, <1>5, <1>6, <1>7, <1>8, <1>9, <1>10 DEF Next

-----------------------------------------------------------------------------
(* What the handlers read of the list. *)

LEMMA AddedNumbers ==
  ASSUME EngineOK
  PROVE  /\ Added \in Nat /\ Touched \in Nat
         /\ published <= Added /\ Added <= Touched /\ Touched <= published + 1
BY EngineNumbers DEF Added, Touched, EngineOK

(* None of them ever decreases.                                            *)
LEMMA AddedGrows ==
  ASSUME EngineOK, [Next]_vars
  PROVE  /\ published <= published' /\ Added <= Added' /\ Touched <= Touched'
         /\ published' \in Nat /\ Added' \in Nat /\ Touched' \in Nat
<1>1. /\ published \in Nat /\ raised \in Nat
      /\ published = (IF engine = "idle" THEN raised ELSE raised - 1)
  BY EngineNumbers DEF EngineOK
<1> DEFINE Same == UNCHANGED <<engine, published, raised, unstored>>
           Grow == /\ published <= published' /\ Added <= Added'
                   /\ Touched <= Touched'
                   /\ published' \in Nat /\ Added' \in Nat /\ Touched' \in Nat
<1>2. Same => Grow
  BY <1>1 DEF Added, Touched
<1>3. CASE UNCHANGED vars
  BY <1>2, <1>3 DEF vars, list, feed
<1>4. CASE Raise \/ InsertAlert
  BY <1>1, <1>4 DEF Raise, InsertAlert, list, feed, Added, Touched
<1>5. CASE Evict \/ AppendAlert
  BY <1>1, <1>5 DEF Evict, AppendAlert, feed, Added, Touched, Words
<1>6. CASE BroadcastAlert
  BY <1>1, <1>6 DEF BroadcastAlert, Live!Publish, list, Added, Touched
<1>7. ASSUME NEW word \in Words, Store(word)
      PROVE  Grow
  BY <1>1, <1>7 DEF Store, feed, Added, Touched
<1>8. ASSUME NEW p \in Pages, Fetch(p) \/ handleAlerts(p) \/ ReadTotal(p)
                              \/ FetchSucceeds(p) \/ FetchFails(p)
      PROVE Same
  BY <1>8 DEF Fetch, handleAlerts, ReadTotal, Handling, FetchSucceeds, FetchFails,
     feed, list
<1>9. ASSUME NEW p \in Pages, NEW h \in Handlers, Handle(p, h) PROVE Same
  BY <1>9 DEF Handle, LoadLen, LoadPtr, RangeAlerts, Handling, feed, list
<1>10. ASSUME NEW p \in Pages, Connect(p) \/ OnMessage(p) PROVE Same
  BY <1>10 DEF Connect, OnMessage, Live!Subscribe, Live!Receive, list
<1> HIDE DEF Same
<1> QED BY <1>2, <1>3, <1>4, <1>5, <1>6, <1>7, <1>8, <1>9, <1>10 DEF Next

(* At every moment the length of the list is near the truth.               *)
LEMMA LenNearTruth ==
  ASSUME EngineOK, ListOK, NEW r, r.begun \in Nat, r.begun <= Added
  PROVE  len \in Truth(r)
<1>1. /\ Added \in Nat /\ Touched \in Nat /\ Added <= Touched
      /\ published \in Nat /\ raised \in Nat /\ len \in Nat
  BY AddedNumbers, EngineNumbers, ListNumbers DEF ListOK
<1>2. CASE engine \in {"idle", "insert", "evict"}
  <2>1. len = Size(published) /\ Touched = published /\ Added = published
    BY <1>2 DEF ListOK, AtRest, Touched, Added
  <2>2. Size(r.begun) <= Size(published) /\ Size(published) \in Nat
        /\ Size(r.begun) \in Nat
    BY <1>1, <2>1, SizeBounds, Bounds
  <2> QED BY <2>1, <2>2, <1>1 DEF Truth, Least, Overlapped
<1>3. CASE engine = "append"
  <2>1. Touched = raised /\ Added = published /\ raised = published + 1
    BY <1>1, <1>3 DEF Touched, Added, EngineOK
  <2>2. Touched # r.begun
    BY <1>1, <2>1
  <2>3. len \in (Size(published) - 1)..Size(published)
    BY <1>1, <1>3, Bounds DEF ListOK, Evicting, Size
  <2>4. /\ Size(r.begun) <= Size(published) /\ Size(published) <= Size(raised)
        /\ Size(r.begun) \in Nat /\ Size(published) \in Nat /\ Size(raised) \in Nat
    <3>1. r.begun <= published /\ published <= raised
      BY <1>1, <2>1
    <3> QED BY <1>1, <3>1, SizeMonotone
  <2> QED BY <1>1, <2>1, <2>2, <2>3, <2>4 DEF Truth, Least, Overlapped
<1>4. CASE engine = "broadcast"
  <2>1. Touched = raised
    BY <1>4 DEF Touched
  <2>2. len = IF "len" \in unstored THEN Size(raised) - 1 ELSE Size(raised)
    BY <1>4 DEF ListOK, Appending
  <2>3. Size(r.begun) <= Size(raised) /\ Size(r.begun) \in Nat /\ Size(raised) \in Nat
    BY <1>1, <2>1, SizeBounds, Bounds
  <2>4. "len" \in unstored => Touched # r.begun
    BY <1>1, <1>4, <2>1 DEF Added, EngineOK
  <2> QED BY <1>1, <2>1, <2>2, <2>3, <2>4 DEF Truth, Least, Overlapped
<1> QED BY <1>2, <1>3, <1>4 DEF EngineOK

(* Without an AddAlert under way the list does not change.                 *)
LEMMA QuietList ==
  ASSUME EngineOK, ListOK, [Next]_vars, Added = Touched'
  PROVE  ptr' = ptr /\ len' = len
<1> DEFINE Same == ptr' = ptr /\ len' = len
<1>1. Touched = Added
  BY AddedNumbers, AddedGrows
<1>2. CASE UNCHANGED vars
  BY <1>2 DEF vars, list
<1>3. CASE Raise \/ InsertAlert \/ Evict \/ AppendAlert \/ BroadcastAlert
  BY <1>3 DEF Raise, InsertAlert, Evict, AppendAlert, BroadcastAlert, list
<1>4. ASSUME NEW word \in Words, Store(word) PROVE FALSE
  <2>1. unstored # {}
    BY <1>4 DEF Store
  <2>2. engine \in {"append", "broadcast"}
    BY <2>1 DEF ListOK, AtRest, EngineOK
  <2> QED BY <1>1, <2>1, <2>2, EngineNumbers DEF Added, Touched, EngineOK
<1>5. ASSUME NEW p \in Pages, Fetch(p) \/ handleAlerts(p) \/ ReadTotal(p)
                              \/ FetchSucceeds(p) \/ FetchFails(p) \/ Connect(p)
                              \/ OnMessage(p)
      PROVE Same
  BY <1>5 DEF Fetch, handleAlerts, ReadTotal, Handling, FetchSucceeds, FetchFails,
     Connect, OnMessage, list
<1>6. ASSUME NEW p \in Pages, NEW h \in Handlers, Handle(p, h) PROVE Same
  BY <1>6 DEF Handle, LoadLen, LoadPtr, RangeAlerts, Handling, list
<1> QED BY <1>2, <1>3, <1>4, <1>5, <1>6 DEF Next

(* A slice that is read while no AddAlert is under way has all its slots.  *)
LEMMA QuietSlice ==
  ASSUME EngineOK, ListOK, Added = Touched
  PROVE  /\ ptr.first + len - 1 = filled[ptr.array]
         /\ ptr.first + len - 1 <= end[ptr.array]
<1>1. CASE engine \in {"idle", "insert", "evict"}
  BY <1>1 DEF ListOK, AtRest
<1>2. CASE engine = "append"
  BY <1>2, EngineNumbers DEF Added, Touched, EngineOK
<1>3. CASE engine = "broadcast"
  <2>1. unstored = {}
    BY <1>3, EngineNumbers DEF Added, Touched, EngineOK
  <2> QED BY <1>3, <2>1 DEF ListOK, Appending
<1> QED BY <1>1, <1>2, <1>3 DEF EngineOK

(* What was near the truth stays near it.                                  *)
LEMMA TruthGrows ==
  ASSUME Touched \in Nat, Touched' \in Nat, Touched <= Touched',
         NEW r, r.begun \in Nat, r.begun <= Touched
  PROVE  \A n \in Truth(r) : n \in Truth(r)'
<1>1. Size(Touched) <= Size(Touched') /\ Size(Touched) \in Nat /\ Size(Touched') \in Nat
  BY SizeMonotone
<1>2. Size(r.begun) \in Nat
  BY SizeMonotone
<1>3. Touched' = r.begun => Touched = r.begun
  OBVIOUS
<1> QED BY <1>1, <1>2, <1>3 DEF Truth, Least, Overlapped, Size

(* What a handler knows when it begins, and when it is done.               *)
LEMMA UnreadIsReading ==
  /\ Unread \in Reading
  /\ \A a \in {"total", "load"}, b \in 0..MaxAlerts :
       [Unread EXCEPT !.at = a, !.begun = b] \in Reading
  /\ \A a \in {"answered", "failed"}, t \in 0..Keep \cup {None} :
       [Unread EXCEPT !.at = a, !.total = t] \in Reading
<1>1. 0 \in 0..MaxAlerts
  BY Bounds
<1>2. Unread \in Reading
  BY <1>1 DEF Unread, Reading
<1>3. \A a \in {"total", "load"}, b \in 0..MaxAlerts :
        [Unread EXCEPT !.at = a, !.begun = b] \in Reading
  BY DEF Unread, Reading
<1>4. \A a \in {"answered", "failed"}, t \in 0..Keep \cup {None} :
        [Unread EXCEPT !.at = a, !.total = t] \in Reading
  BY <1>1 DEF Unread, Reading
<1> QED BY <1>2, <1>3, <1>4

LEMMA InitReader == Init => ReaderOK
<1> SUFFICES ASSUME Init PROVE ReaderOK
  OBVIOUS
<1>1. /\ reader = [p \in Pages |-> [h \in Handlers |-> Unread]]
      /\ engine = "idle" /\ published = 0
  BY DEF Init, Live!Init
<1>2. ReadingOK(Unread) /\ Totalled(Unread)
  BY <1>1 DEF ReadingOK, Totalled, Unread, Added
<1>3. \A p \in Pages, h \in Handlers : reader[p][h] = Unread
  BY <1>1
<1> QED BY <1>1, <1>2, <1>3, UnreadIsReading, HandlersAssumption DEF ReaderOK

LEMMA ReadingFields ==
  ASSUME ReaderOK, NEW p \in Pages, NEW h \in Handlers
  PROVE  LET r == reader[p][h]
         IN  /\ r \in Reading /\ r.begun \in Nat /\ r.begun \in 0..MaxAlerts
             /\ r.total \in 0..Keep \cup {None} /\ r.len \in 0..Keep \cup {None}
             /\ r.ptr \in Pointer \cup {None}
             /\ ReadingOK(r) /\ (h = "stats" => Totalled(r))
BY Bounds DEF ReaderOK, Reading

(* A reading stays right while the engine goes on.                         *)
LEMMA ReadingStays ==
  ASSUME EngineOK, ListOK, [Next]_vars, NEW r \in Reading, ReadingOK(r)
  PROVE  ReadingOK(r)'
<1>1. /\ published \in Nat /\ published' \in Nat /\ published <= published'
      /\ Added \in Nat /\ Added' \in Nat /\ Added <= Added' /\ Added <= Touched
      /\ Touched \in Nat /\ Touched' \in Nat /\ Touched <= Touched'
  BY AddedNumbers, AddedGrows, EngineNumbers
<1>2. r.begun \in Nat /\ r.total \in 0..Keep \cup {None}
  BY Bounds DEF Reading
<1>3. r.begun <= Added /\ r.begun <= Added' /\ r.begun <= Touched
  BY <1>1, <1>2 DEF ReadingOK
<1>4. \A n \in Truth(r) : n \in Truth(r)'
  BY <1>1, <1>2, <1>3, TruthGrows
<1>5. r.at = "load" => {r.total, r.len} \ {None} \subseteq Truth(r)'
  BY <1>4 DEF ReadingOK
<1>6. r.at = "answered" /\ r.total # None => r.total <= published' + 1
  BY <1>1, <1>2, Bounds DEF ReadingOK
<1>7. r.at \in {"idle", "total"} => r.len = None /\ r.ptr = None
  BY DEF ReadingOK
<1>8. ASSUME r.at = "load", Touched' = r.begun
      PROVE  r.len \in {None, len'} /\ r.ptr \in {None, ptr'}
  <2>1. Touched = r.begun /\ Added = Touched'
    BY <1>1, <1>2, <1>3, <1>8
  <2>2. ptr' = ptr /\ len' = len
    BY <2>1, QuietList
  <2> QED BY <1>8, <2>1, <2>2 DEF ReadingOK, Overlapped
<1> QED BY <1>3, <1>5, <1>6, <1>7, <1>8 DEF ReadingOK, Truth, Least, Overlapped, Size

LEMMA SameReader ==
  ASSUME EngineOK, ListOK, ReaderOK, [Next]_vars, reader' = reader
  PROVE  ReaderOK'
<1>1. \A p \in Pages, h \in Handlers :
        reader[p][h] \in Reading /\ ReadingOK(reader[p][h])
  BY DEF ReaderOK
<1>2. \A r \in Reading : ReadingOK(r) => ReadingOK(r)'
  BY ReadingStays
<1>3. ASSUME NEW p \in Pages, NEW h \in Handlers PROVE ReadingOK(reader[p][h])'
  <2>1. PICK r \in Reading : r = reader[p][h] /\ ReadingOK(r)
    BY <1>1
  <2>2. ReadingOK(r)' /\ r = reader'[p][h]
    BY <1>2, <2>1
  <2> QED BY <2>2 DEF ReadingOK, Truth, Least, Overlapped, Size
<1>4. \A p \in Pages : Totalled(reader'[p]["stats"])
  BY DEF ReaderOK
<1> QED BY <1>3, <1>4 DEF ReaderOK, Totalled

(* A reading does not depend on more of the state than this.               *)
Frame == <<engine, raised, published, unstored, ptr, len>>

(* One handler makes a step, and nothing else does.                        *)
LEMMA OneReader ==
  ASSUME ReaderOK, NEW p \in Pages, NEW h \in Handlers, NEW r \in Reading,
         Change(p, h, r), UNCHANGED Frame, ReadingOK(r), h = "stats" => Totalled(r)
  PROVE  ReaderOK'
<1>1. reader' = [reader EXCEPT ![p][h] = r]
  BY DEF Change
<1>2. reader' \in [Pages -> [Handlers -> Reading]]
  BY <1>1 DEF ReaderOK
<1>3. /\ \A q \in Pages, g \in Handlers : ReadingOK(reader'[q][g])
      /\ \A q \in Pages : Totalled(reader'[q]["stats"])
  BY <1>1, HandlersAssumption DEF ReaderOK
<1>4. \A q \in Pages, g \in Handlers : ReadingOK(reader[q][g])'
  BY <1>3 DEF Frame, ReadingOK, Truth, Least, Overlapped, Size, Added, Touched
<1> QED BY <1>2, <1>3, <1>4 DEF ReaderOK, Totalled

LEMMA ReadTotalReader ==
  ASSUME EngineOK, ListOK, ReaderOK, NEW p \in Pages, ReadTotal(p)
  PROVE  ReaderOK'
<1> DEFINE r == reader[p]["stats"]
           s == [r EXCEPT !.at = "load", !.total = len]
<1>1. r.at = "total" /\ Change(p, "stats", s) /\ UNCHANGED Frame
  BY DEF ReadTotal, Handling, list, feed, Frame
<1>2. /\ r \in Reading /\ r.begun \in Nat /\ ReadingOK(r)
  BY ReadingFields, HandlersAssumption
<1>3. len \in 0..Keep /\ len # None
  BY NoneAssumption, Bounds DEF ListOK, ListType
<1>4. /\ s \in Reading /\ s.at = "load" /\ s.total = len
      /\ s.begun = r.begun /\ s.len = r.len /\ s.ptr = r.ptr
  BY <1>2, <1>3 DEF Reading
<1>5. r.len = None /\ r.ptr = None /\ r.begun <= Added
  BY <1>1, <1>2 DEF ReadingOK
<1>6. len \in Truth(s)
  BY <1>2, <1>4, <1>5, LenNearTruth
<1>7. ReadingOK(s) /\ Totalled(s)
  BY <1>3, <1>4, <1>5, <1>6 DEF ReadingOK, Totalled
<1> HIDE DEF r, s
<1> QED BY <1>1, <1>4, <1>7, HandlersAssumption, OneReader

LEMMA LoadReader ==
  ASSUME EngineOK, ListOK, ReaderOK, NEW p \in Pages, NEW h \in Handlers,
         LoadLen(p, h) \/ LoadPtr(p, h)
  PROVE  ReaderOK'
<1> DEFINE r == reader[p][h]
<1>1. r.at = "load" /\ UNCHANGED Frame
  BY DEF LoadLen, LoadPtr, Handling, list, feed, Frame
<1>2. /\ r \in Reading /\ r.begun \in Nat /\ ReadingOK(r)
      /\ h = "stats" => Totalled(r)
  BY ReadingFields
<1>3. /\ r.begun <= Added /\ {r.total, r.len} \ {None} \subseteq Truth(r)
      /\ ~Overlapped(r) => r.len \in {None, len} /\ r.ptr \in {None, ptr}
  BY <1>1, <1>2 DEF ReadingOK
<1>4. CASE LoadLen(p, h)
  <2> DEFINE s == [r EXCEPT !.len = len]
  <2>1. Change(p, h, s)
    BY <1>4 DEF LoadLen
  <2>2. /\ s \in Reading /\ s.at = "load" /\ s.total = r.total
        /\ s.begun = r.begun /\ s.len = len /\ s.ptr = r.ptr
    BY <1>1, <1>2 DEF Reading, ListOK, ListType
  <2>3. len \in Truth(s)
    BY <1>2, <1>3, <2>2, LenNearTruth
  <2>4. r.total # None => r.total \in Truth(s)
    BY <1>3, <2>2 DEF Truth, Least, Overlapped
  <2>5. ReadingOK(s)
    BY <1>3, <2>2, <2>3, <2>4 DEF ReadingOK, Overlapped
  <2>6. h = "stats" => Totalled(s)
    BY <1>1, <1>2, <2>2 DEF Totalled
  <2> HIDE DEF r, s
  <2> QED BY <1>1, <2>1, <2>2, <2>5, <2>6, OneReader
<1>5. CASE LoadPtr(p, h)
  <2> DEFINE s == [r EXCEPT !.ptr = ptr]
  <2>1. Change(p, h, s)
    BY <1>5 DEF LoadPtr
  <2>2. /\ s \in Reading /\ s.at = "load" /\ s.total = r.total
        /\ s.begun = r.begun /\ s.len = r.len /\ s.ptr = ptr
    BY <1>1, <1>2 DEF Reading, ListOK, ListType
  <2>3. ReadingOK(s)
    BY <1>3, <2>2 DEF ReadingOK, Truth, Least, Overlapped
  <2>4. h = "stats" => Totalled(s)
    BY <1>1, <1>2, <2>2 DEF Totalled
  <2> HIDE DEF r, s
  <2> QED BY <1>1, <2>1, <2>2, <2>3, <2>4, OneReader
<1> QED BY <1>4, <1>5

(* The total that a handler answers is at most one ahead of what was       *)
(* broadcast.                                                              *)
LEMMA TotalNearPublished ==
  ASSUME EngineOK, NEW r \in Reading, ReadingOK(r), r.at = "load", r.total # None
  PROVE  r.total <= published + 1
<1>1. r.total \in Truth(r)
  BY DEF ReadingOK
<1>2. Touched \in Nat /\ Touched <= published + 1 /\ published \in Nat
  BY AddedNumbers, EngineNumbers
<1>3. Size(Touched) \in Nat /\ Size(Touched) <= Touched
  BY <1>2, Bounds DEF Size
<1>4. r.begun \in Nat /\ r.total \in Nat
  BY Bounds DEF Reading
<1>5. r.total <= Size(Touched)
  BY <1>1 DEF Truth
<1> QED BY <1>2, <1>3, <1>4, <1>5

LEMMA RangeReader ==
  ASSUME EngineOK, ListOK, ReaderOK, [Next]_vars, NEW p \in Pages, NEW h \in Handlers,
         RangeAlerts(p, h)
  PROVE  ReaderOK'
<1> DEFINE r == reader[p][h]
<1>1. r.at = "load" /\ UNCHANGED Frame
  BY DEF RangeAlerts, Handling, list, feed, Frame
<1>2. /\ r \in Reading /\ r.total \in 0..Keep \cup {None} /\ ReadingOK(r)
      /\ h = "stats" => Totalled(r)
  BY ReadingFields
<1>3. ASSUME NEW outcome \in {"answered", "failed"}, Change(p, h, Done(r, outcome))
      PROVE  ReaderOK'
  <2> DEFINE s == Done(r, outcome)
  <2>1. s \in Reading
    BY <1>2, UnreadIsReading DEF Done
  <2>2. s.at = outcome /\ s.total = r.total /\ s.begun = 0 /\ s.len = None
    BY DEF Done, Unread
  <2>3. r.total # None => r.total <= published + 1
    BY <1>1, <1>2, TotalNearPublished
  <2>4. 0 <= Added
    BY AddedNumbers
  <2>5. ReadingOK(s)
    BY <2>2, <2>3, <2>4 DEF ReadingOK
  <2>6. h = "stats" => Totalled(s)
    BY <1>1, <1>2, <2>2 DEF Totalled
  <2> HIDE DEF r, s
  <2> QED BY <1>1, <1>3, <2>1, <2>5, <2>6, OneReader DEF s
<1>4. CASE UNCHANGED browser
  BY <1>4, SameReader DEF browser
<1> QED BY <1>3, <1>4 DEF RangeAlerts

(* All handlers of one page change together.                               *)
LEMMA PageReader ==
  ASSUME ReaderOK, NEW p \in Pages, NEW rs \in [Handlers -> Reading],
         reader' = [reader EXCEPT ![p] = rs], UNCHANGED Frame,
         \A h \in Handlers : ReadingOK(rs[h]), Totalled(rs["stats"])
  PROVE  ReaderOK'
<1>1. reader' \in [Pages -> [Handlers -> Reading]]
  BY DEF ReaderOK
<1>2. /\ \A q \in Pages, h \in Handlers : ReadingOK(reader'[q][h])
      /\ \A q \in Pages : Totalled(reader'[q]["stats"])
  BY DEF ReaderOK
<1>3. \A q \in Pages, h \in Handlers : ReadingOK(reader[q][h])'
  BY <1>2 DEF Frame, ReadingOK, Truth, Least, Overlapped, Size, Added, Touched
<1> QED BY <1>1, <1>2, <1>3 DEF ReaderOK, Totalled

LEMMA FetchReader ==
  ASSUME EngineOK, ReaderOK, NEW p \in Pages, Fetch(p)
  PROVE  ReaderOK'
<1> DEFINE a(h) == [Unread EXCEPT !.at = IF h = "stats" THEN "total" ELSE "load",
                                  !.begun = Added]
           rs == [h \in Handlers |-> a(h)]
<1>1. reader' = [reader EXCEPT ![p] = rs] /\ UNCHANGED Frame
  BY DEF Fetch, list, feed, Frame
<1>2. Added \in 0..MaxAlerts
  BY EngineNumbers, Bounds DEF Added
<1>3. \A h \in Handlers : a(h) \in Reading
  BY <1>2, UnreadIsReading
<1>4. \A h \in Handlers :
        /\ a(h).at = (IF h = "stats" THEN "total" ELSE "load") /\ a(h).begun = Added
        /\ a(h).len = None /\ a(h).ptr = None /\ a(h).total = None
  BY DEF Unread
<1>5. Added <= Added
  BY <1>2
<1> HIDE DEF a
<1>6. rs \in [Handlers -> Reading] /\ \A h \in Handlers : rs[h] = a(h)
  BY <1>3
<1>7. \A h \in Handlers : ReadingOK(rs[h])
  BY <1>4, <1>5, <1>6 DEF ReadingOK
<1>8. Totalled(rs["stats"])
  BY <1>4, <1>6, HandlersAssumption DEF Totalled
<1> HIDE DEF rs
<1> QED BY <1>1, <1>6, <1>7, <1>8, PageReader

LEMMA ForgetReader ==
  ASSUME EngineOK, ReaderOK, NEW p \in Pages, Forget(p), UNCHANGED Frame
  PROVE  ReaderOK'
<1> DEFINE rs == [h \in Handlers |->
                    IF reader[p][h].at \in {"answered", "failed"} THEN Unread
                                                                  ELSE reader[p][h]]
<1>1. reader' = [reader EXCEPT ![p] = rs]
  BY DEF Forget
<1>2. rs \in [Handlers -> Reading]
  BY UnreadIsReading DEF ReaderOK
<1>3. ReadingOK(Unread) /\ Totalled(Unread)
  BY AddedNumbers DEF ReadingOK, Totalled, Unread
<1>4. (\A h \in Handlers : ReadingOK(rs[h])) /\ Totalled(rs["stats"])
  BY <1>3, HandlersAssumption DEF ReaderOK
<1> HIDE DEF rs
<1> QED BY <1>1, <1>2, <1>4, PageReader

LEMMA NextReader == EngineOK /\ ListOK /\ ReaderOK /\ [Next]_vars => ReaderOK'
<1> SUFFICES ASSUME EngineOK, ListOK, ReaderOK, [Next]_vars PROVE ReaderOK'
  OBVIOUS
<1>1. reader' = reader => ReaderOK'
  BY SameReader
<1>2. CASE UNCHANGED vars
  BY <1>1, <1>2 DEF vars, browser
<1>3. CASE Raise \/ InsertAlert \/ Evict \/ AppendAlert \/ BroadcastAlert
  BY <1>1, <1>3 DEF Raise, InsertAlert, Evict, AppendAlert, BroadcastAlert, browser
<1>4. ASSUME NEW word \in Words, Store(word) PROVE ReaderOK'
  BY <1>1, <1>4 DEF Store, browser
<1>5. ASSUME NEW p \in Pages, Fetch(p) PROVE ReaderOK'
  BY <1>5, FetchReader
<1>6. ASSUME NEW p \in Pages, ReadTotal(p) PROVE ReaderOK'
  BY <1>6, ReadTotalReader
<1>7. ASSUME NEW p \in Pages, NEW h \in Handlers, Handle(p, h) PROVE ReaderOK'
  BY <1>7, LoadReader, RangeReader DEF Handle
<1>8. ASSUME NEW p \in Pages, FetchSucceeds(p) \/ FetchFails(p) PROVE ReaderOK'
  BY <1>8, ForgetReader DEF FetchSucceeds, FetchFails, feed, list, Frame
<1>9. ASSUME NEW p \in Pages, handleAlerts(p) \/ Connect(p) \/ OnMessage(p)
      PROVE ReaderOK'
  BY <1>1, <1>9 DEF handleAlerts, Connect, OnMessage
<1> QED BY <1>2, <1>3, <1>4, <1>5, <1>6, <1>7, <1>8, <1>9 DEF Next

-----------------------------------------------------------------------------
(* What a step of anyone leaves to a page that does not move. *)

(* The database only grows, by the alert the engine works on, and no       *)
(* alert that was raised is stamped again.                                 *)
LEMMA Growth ==
  ASSUME EngineOK, [Next]_vars
  PROVE  /\ raised \in Nat /\ raised' \in Nat /\ raised <= raised'
         /\ Known \in Int /\ Known' \in Int /\ Known <= Known'
         /\ \A n \in Alerts : n <= raised => stamp'[n] = stamp[n]
         /\ stored' = stored \/ (engine = "insert" /\ stored' = stored \cup {raised})
<1>1. raised \in Nat /\ raised \in Int
  BY EngineNumbers
<1> DEFINE Same == UNCHANGED <<engine, raised, stamp, stored>>
<1>2. CASE Same
  BY <1>1, <1>2 DEF Known
<1>3. CASE UNCHANGED vars
  BY <1>2, <1>3 DEF vars, db
<1>4. CASE Raise
  <2>1. /\ engine = "idle" /\ engine' = "insert" /\ raised' = raised + 1
        /\ stored' = stored
    BY <1>4 DEF Raise
  <2>2. \A n \in Alerts : n <= raised => stamp'[n] = stamp[n]
    <3> SUFFICES ASSUME NEW n \in Alerts, n <= raised PROVE stamp'[n] = stamp[n]
      OBVIOUS
    <3>1. n # raised + 1
      BY <1>1, AlertNumbers
    <3>2. PICK time \in 0..MaxTime : stamp' = [stamp EXCEPT ![raised + 1] = time]
      BY <1>4 DEF Raise
    <3> QED BY <3>1, <3>2 DEF EngineOK
  <2> QED BY <1>1, <2>1, <2>2 DEF Known
<1>5. CASE InsertAlert
  BY <1>1, <1>5 DEF InsertAlert, Known
<1>6. CASE Evict \/ AppendAlert \/ BroadcastAlert
  BY <1>1, <1>6 DEF Evict, AppendAlert, BroadcastAlert, db, Known
<1>7. ASSUME NEW word \in Words, Store(word) PROVE Same
  BY <1>7 DEF Store, db
<1>8. ASSUME NEW p \in Pages, Fetch(p) \/ handleAlerts(p) \/ ReadTotal(p)
                              \/ FetchSucceeds(p) \/ FetchFails(p)
                              \/ Connect(p) \/ OnMessage(p)
      PROVE Same
  BY <1>8 DEF Fetch, handleAlerts, ReadTotal, Handling, FetchSucceeds, FetchFails,
     Connect, OnMessage, db
<1>9. ASSUME NEW p \in Pages, NEW h \in Handlers, Handle(p, h) PROVE Same
  BY <1>9 DEF Handle, LoadLen, LoadPtr, RangeAlerts, Handling, db
<1> HIDE DEF Same
<1> QED BY <1>2, <1>3, <1>4, <1>5, <1>6, <1>7, <1>8, <1>9 DEF Next

LEMMA NewestFields ==
  ASSUME EngineOK, NEW s, NEW known, NEW broken, NewestOf(s, known, broken)
  PROVE  /\ s \in Seq(Alerts) /\ Len(s) \in Nat
         /\ \A i \in 1..Len(s) :
              s[i] \in Alerts /\ s[i] \in Int /\ s[i] <= raised /\ stamp[s[i]] \in Nat
<1>1. s \in Seq(Alerts) /\ \A i \in 1..Len(s) : s[i] <= raised
  BY DEF NewestOf
<1>2. Len(s) \in Nat /\ \A i \in 1..Len(s) : s[i] \in Alerts
  BY <1>1, LenProperties, ElementOfSeq
<1>3. \A n \in Alerts : n \in Int /\ stamp[n] \in Nat
  BY AlertNumbers, Bounds DEF EngineOK
<1> QED BY <1>1, <1>2, <1>3

(* An answer of the database stays the newest alerts but for those stored  *)
(* after the question.                                                     *)
LEMMA NewestStays ==
  ASSUME EngineOK, [Next]_vars, NEW s, NEW known \in Int, known <= Known, NEW broken,
         NewestOf(s, known, broken)
  PROVE  NewestOf(s, known, broken)'
<1>1. /\ s \in Seq(Alerts) /\ Len(s) \in Nat
      /\ \A i \in 1..Len(s) : s[i] \in Alerts /\ s[i] \in Int /\ s[i] <= raised
  BY NewestFields
<1>2. /\ raised \in Nat /\ raised' \in Nat /\ raised <= raised'
      /\ \A n \in Alerts : n <= raised => stamp'[n] = stamp[n]
  BY Growth
<1>3. \A i \in 1..Len(s) : s[i] <= raised' /\ stamp'[s[i]] = stamp[s[i]]
  BY <1>1, <1>2
<1>4. \A i, j \in 1..Len(s) : i < j => s[i] # s[j] /\ stamp'[s[i]] >= stamp'[s[j]]
  BY <1>3 DEF NewestOf
<1>5. ASSUME NEW n \in stored'
      PROVE  \/ known < n
             \/ \E i \in 1..Len(s) : s[i] = n
             \/ /\ Len(s) >= TimelineCap \/ broken
                /\ \A i \in 1..Len(s) : stamp'[n] <= stamp'[s[i]]
  <2>1. CASE n \in stored
    <3>1. n \in Alerts /\ n <= raised
      BY <2>1, EngineNumbers
    <3>2. stamp'[n] = stamp[n]
      BY <1>2, <3>1
    <3> QED BY <1>3, <2>1, <3>2 DEF NewestOf
  <2>2. CASE n \notin stored
    <3>1. engine = "insert" /\ n = raised
      BY <1>5, <2>2, Growth
    <3>2. known < n
      BY <1>2, <3>1 DEF Known
    <3> QED BY <3>2
  <2> QED BY <2>1, <2>2
<1> QED BY <1>1, <1>3, <1>4, <1>5 DEF NewestOf

LEMMA PageFields ==
  ASSUME BrowserType, NEW p \in Pages
  PROVE  /\ timeline[p] \in Seq(Alerts) /\ recent[p] \in Seq(Alerts)
         /\ Len(timeline[p]) \in Nat /\ Len(recent[p]) \in Nat
         /\ \A i \in 1..Len(timeline[p]) :
              timeline[p][i] \in Alerts /\ timeline[p][i] \in Int
         /\ total[p] \in Nat /\ loaded[p] \in BOOLEAN
         /\ asked[p] \in 0..MaxAlerts /\ asked[p] \in Int /\ cut[p] \in BOOLEAN
         /\ reply[p] \subseteq Seq(Alerts)
<1>1. timeline[p] \in Seq(Alerts) /\ recent[p] \in Seq(Alerts)
  BY DEF BrowserType
<1>2. /\ Len(timeline[p]) \in Nat /\ Len(recent[p]) \in Nat
      /\ \A i \in 1..Len(timeline[p]) : timeline[p][i] \in Alerts
  BY <1>1, LenProperties, ElementOfSeq
<1>3. \A n \in Alerts : n \in Int
  BY AlertNumbers
<1>4. asked[p] \in 0..MaxAlerts /\ asked[p] \in Int
  BY Bounds DEF BrowserType
<1> QED BY <1>1, <1>2, <1>3, <1>4 DEF BrowserType

(* The stamps of what a page shows never change.                           *)
LEMMA TimesStay ==
  ASSUME EngineOK, BrowserType, [Next]_vars, NEW p \in Pages, ShownOK(p),
         timeline'[p] = timeline[p]
  PROVE  \A i \in 1..Len(timeline[p]) :
           Time(p, i)' = Time(p, i) /\ timeline[p][i] <= raised'
<1>1. \A i \in 1..Len(timeline[p]) :
        timeline[p][i] \in Alerts /\ timeline[p][i] \in Int /\ timeline[p][i] <= raised
  BY PageFields DEF ShownOK
<1>2. /\ raised \in Nat /\ raised' \in Nat /\ raised <= raised'
      /\ \A n \in Alerts : n <= raised => stamp'[n] = stamp[n]
  BY Growth
<1> QED BY <1>1, <1>2 DEF Time

LEMMA PageStays ==
  ASSUME EngineOK, FeedOK, BrowserType, [Next]_vars, NEW p \in Pages, PageOK(p),
         page'[p] = page[p], timeline'[p] = timeline[p], recent'[p] = recent[p],
         total'[p] = total[p], loaded'[p] = loaded[p],
         asked'[p] = asked[p], cut'[p] = cut[p], reply'[p] = reply[p],
         first'[p] = first[p], got'[p] = got[p]
  PROVE  PageOK(p)'
<1> USE DEF PageOK
<1>1. /\ Known \in Int /\ Known' \in Int /\ Known <= Known'
      /\ asked[p] \in Int /\ asked[p] <= Known
      /\ published \in Nat /\ published' \in Nat /\ published <= published'
  BY Growth, AddedGrows, PageFields, EngineNumbers DEF AnswerOK
<1>2. ASSUME NEW s, NewestOf(s, asked[p], cut[p]) PROVE NewestOf(s, asked[p], cut[p])'
  <2>1. PICK k, d : k = asked[p] /\ d = cut[p]
    OBVIOUS
  <2>2. NewestOf(s, k, d)'
    BY <1>1, <1>2, <2>1, NewestStays
  <2> QED BY <2>1, <2>2 DEF NewestOf
<1>3. AnswerOK(p)'
  <2>1. ASSUME NEW s \in reply[p], s # << >> PROVE NewestOf(s, asked[p], cut[p])'
    BY <1>2, <2>1 DEF AnswerOK
  <2>2. asked'[p] <= Known' /\ (page'[p] = "closed" => reply'[p] = {})
    BY <1>1 DEF AnswerOK
  <2> QED BY <2>1, <2>2 DEF AnswerOK
<1>4. \A i \in 1..Len(timeline[p]) :
        Time(p, i)' = Time(p, i) /\ timeline[p][i] <= raised'
  BY TimesStay
<1>5. ShownOK(p)'
  <2>1. ASSUME NewestOf(timeline[p], asked[p], cut[p])
        PROVE  NewestOf(timeline[p], asked[p], cut[p])'
    <3>1. PICK s : s = timeline[p]
      OBVIOUS
    <3>2. NewestOf(s, asked[p], cut[p])'
      BY <1>2, <2>1, <3>1
    <3> QED BY <3>1, <3>2 DEF NewestOf
  <2> QED BY <1>4, <2>1 DEF ShownOK
<1>6. CountOK(p)'
  <2>1. total[p] \in Nat /\ first[p] \in Nat /\ Len(got[p]) \in Nat
    BY PageFields, FeedNumbers
  <2> QED BY <1>1, <2>1 DEF CountOK
<1>7. NewestOn(p)' /\ OnceOn(p)'
  BY <1>4 DEF NewestOn, OnceOn, Top
<1>8. GapOn(p)'
  <2> SUFFICES ASSUME page[p] = "live", loaded[p], NEW n \in stored',
                      n \notin {timeline[p][i] : i \in 1..Len(timeline[p])}
               PROVE  \/ asked[p] < n /\ n < first[p]
                      \/ first[p] + Len(got[p]) <= n
                      \/ /\ Len(timeline[p]) >= TimelineCap \/ cut[p]
                         /\ \A i \in 1..Len(timeline[p]) : stamp'[n] <= Time(p, i)'
    BY DEF GapOn
  <2>1. CASE n \in stored
    <3>1. n \in Alerts /\ n <= raised
      BY <2>1, EngineNumbers
    <3>2. stamp'[n] = stamp[n]
      BY <3>1, Growth
    <3> QED BY <1>4, <2>1, <3>2 DEF GapOn
  <2>2. CASE n \notin stored
    <3>1. engine = "insert" /\ n = raised
      BY <2>2, Growth
    <3>2. first[p] + Len(got[p]) <= published + 1 /\ published + 1 = raised
      BY <1>1, <3>1, FeedNumbers, EngineNumbers DEF EngineOK
    <3> QED BY <3>1, <3>2
  <2> QED BY <2>1, <2>2
<1> QED BY <1>3, <1>5, <1>6, <1>7, <1>8

-----------------------------------------------------------------------------
(* The page moves. *)

(* The top of a list is its longest prefix of at most n alerts.            *)
LEMMA TopProperties ==
  ASSUME NEW S, NEW s \in Seq(S), NEW n \in Nat
  PROVE  /\ Top(s, n) \in Seq(S) /\ Len(Top(s, n)) <= Len(s)
         /\ Len(Top(s, n)) = IF Len(s) < n THEN Len(s) ELSE n
         /\ \A i \in 1..Len(Top(s, n)) : Top(s, n)[i] = s[i]
<1> DEFINE k == IF Len(s) < n THEN Len(s) ELSE n
<1>1. k \in Nat /\ k <= Len(s) /\ Len(s) \in Nat
  BY LenProperties
<1>2. \A i \in 1..k : s[i] \in S
  BY <1>1, ElementOfSeq
<1>3. 1 \in Int /\ k \in Int /\ k - 1 + 1 = k /\ (IF 1 <= k THEN k - 1 + 1 ELSE 0) = k
      /\ \A i \in 1..k : 1 + i - 1 = i
  BY <1>1
<1> HIDE DEF k
<1>4. /\ SubSeq(s, 1, k) \in Seq(S) /\ Len(SubSeq(s, 1, k)) = k
      /\ \A i \in 1..k : SubSeq(s, 1, k)[i] = s[i]
  BY <1>2, <1>3, SubSeqProperties
<1>5. Top(s, n) = SubSeq(s, 1, k)
  BY DEF Top, k
<1> QED BY <1>1, <1>4, <1>5 DEF k

(* A prefix is the top of what it is a prefix of.                          *)
LEMMA PrefixIsTop ==
  ASSUME NEW S, NEW s \in Seq(S), NEW t \in Seq(S), Len(t) <= Len(s),
         \A i \in 1..Len(t) : t[i] = s[i]
  PROVE  t = Top(s, Len(t))
<1>1. Len(t) \in Nat /\ Len(s) \in Nat
  BY LenProperties
<1>2. /\ Top(s, Len(t)) \in Seq(S) /\ Len(Top(s, Len(t))) = Len(t)
      /\ \A i \in 1..Len(t) : Top(s, Len(t))[i] = s[i]
  BY <1>1, TopProperties
<1> QED BY <1>2, SeqEqual

LEMMA StoredIsFinite ==
  ASSUME EngineOK
  PROVE  IsFiniteSet(stored) /\ Cardinality(stored) \in Nat
<1>1. IsFiniteSet((1 - MaxOlder)..0) /\ IsFiniteSet(1..raised)
  BY Bounds, EngineNumbers, FS_Interval
<1>2. IsFiniteSet(Older \cup 1..raised)
  BY <1>1, FS_Union DEF Older
<1> QED BY <1>2, FS_Subset, FS_CardinalityType DEF EngineOK

(* Fewer alerts than the limit are all there are: no two positions of the  *)
(* full answer hold the same one.                                          *)
LEMMA FullAnswer ==
  ASSUME EngineOK, NEW s \in NewestAlerts
  PROVE  /\ s \in Seq(Alerts) /\ Len(s) = Found /\ Found \in Nat
         /\ \A i \in 1..Len(s) : s[i] <= raised
         /\ \A i, j \in 1..Len(s) : i < j => s[i] # s[j] /\ stamp[s[i]] >= stamp[s[j]]
         /\ \A n \in stored :
              \/ \E i \in 1..Len(s) : s[i] = n
              \/ Len(s) >= TimelineCap /\ \A i \in 1..Len(s) : stamp[n] <= stamp[s[i]]
<1> DEFINE k == Found
<1>1. k \in Nat /\ IsFiniteSet(stored) /\ Cardinality(stored) \in Nat
  BY StoredIsFinite, ListsAssumption DEF Found
<1>2. /\ s \in [1..k -> stored]
      /\ \A i, j \in 1..k : i < j => s[i] # s[j] /\ stamp[s[i]] >= stamp[s[j]]
      /\ \A n \in stored \ {s[i] : i \in 1..k} :
           \A i \in 1..k : stamp[n] <= stamp[s[i]]
  BY DEF NewestAlerts
<1>3. \A n \in stored : n \in Alerts /\ n <= raised
  BY EngineNumbers
<1> HIDE DEF k
<1>4. s \in Seq(Alerts) /\ Len(s) = k
  <2>1. s \in [1..k -> Alerts]
    BY <1>2, <1>3
  <2> QED BY <1>1, <2>1, SeqDef, LenProperties
<1>5. \A i \in 1..Len(s) : s[i] <= raised
  BY <1>2, <1>3, <1>4
<1>6. \A i, j \in 1..Len(s) : i < j => s[i] # s[j] /\ stamp[s[i]] >= stamp[s[j]]
  BY <1>2, <1>4
<1>7. ASSUME NEW n \in stored, ~\E i \in 1..Len(s) : s[i] = n
      PROVE  Len(s) >= TimelineCap /\ \A i \in 1..Len(s) : stamp[n] <= stamp[s[i]]
  <2>1. n \notin {s[i] : i \in 1..k}
    BY <1>4, <1>7
  <2>2. \A i \in 1..Len(s) : stamp[n] <= stamp[s[i]]
    BY <1>2, <1>4, <2>1
  <2>3. k # Cardinality(stored)
    <3> SUFFICES ASSUME k = Cardinality(stored) PROVE FALSE
      OBVIOUS
    <3>1. \A i, j \in 1..k : s[i] = s[j] => i = j
      <4> SUFFICES ASSUME NEW i \in 1..k, NEW j \in 1..k, s[i] = s[j], i # j
                   PROVE  FALSE
        OBVIOUS
      <4>1. i < j \/ j < i
        BY <1>1
      <4> QED BY <1>2, <4>1
    <3>2. s \in Injection(1..k, stored)
      BY <1>2, <3>1 DEF Injection, IsInjective
    <3>3. Cardinality(1..k) = k
      BY <1>1, FS_Interval
    <3>4. s \in Surjection(1..k, stored)
      BY <1>1, <3>2, <3>3, FS_Injection
    <3> QED BY <1>7, <1>4, <3>4 DEF Surjection
  <2>4. k = Limit
    BY <2>3 DEF k, Found
  <2>5. k >= TimelineCap
    BY <2>4, ListsAssumption
  <2> QED BY <1>4, <2>2, <2>5
<1>8. k = Found
  BY DEF k
<1> QED BY <1>1, <1>4, <1>5, <1>6, <1>7, <1>8

(* An answer that broke off is the top of the full one: it lacks no alert  *)
(* that is newer than one it has.                                          *)
LEMMA AnswerIsNewest ==
  ASSUME EngineOK, NEW s \in GetRecentAlerts, NEW known \in Int
  PROVE  NewestOf(s, known, Len(s) < Found)
<1>1. PICK full \in NewestAlerts, m \in 0..Limit : s = Top(full, m)
  BY DEF GetRecentAlerts
<1>2. /\ full \in Seq(Alerts) /\ Len(full) = Found /\ Found \in Nat
      /\ \A i \in 1..Len(full) : full[i] <= raised
      /\ \A i, j \in 1..Len(full) :
           i < j => full[i] # full[j] /\ stamp[full[i]] >= stamp[full[j]]
      /\ \A n \in stored :
           \/ \E i \in 1..Len(full) : full[i] = n
           \/ /\ Len(full) >= TimelineCap
              /\ \A i \in 1..Len(full) : stamp[n] <= stamp[full[i]]
  BY FullAnswer
<1>3. m \in Nat
  BY ListsAssumption
<1>4. /\ s \in Seq(Alerts) /\ Len(s) <= Len(full)
      /\ \A i \in 1..Len(s) : s[i] = full[i]
  BY <1>1, <1>2, <1>3, TopProperties
<1>5. Len(s) \in Nat /\ 1..Len(s) \subseteq 1..Len(full)
  BY <1>2, <1>4, LenProperties
<1>6. \A i \in 1..Len(s) : s[i] <= raised
  BY <1>2, <1>4, <1>5
<1>7. \A i, j \in 1..Len(s) : i < j => s[i] # s[j] /\ stamp[s[i]] >= stamp[s[j]]
  BY <1>2, <1>4, <1>5
<1>8. ASSUME NEW n \in stored, ~\E i \in 1..Len(s) : s[i] = n
      PROVE  /\ Len(s) >= TimelineCap \/ Len(s) < Found
             /\ \A i \in 1..Len(s) : stamp[n] <= stamp[s[i]]
  <2>1. CASE \E i \in 1..Len(full) : full[i] = n
    <3>1. PICK i \in 1..Len(full) : full[i] = n
      BY <2>1
    <3>2. i \notin 1..Len(s)
      BY <1>4, <1>8, <3>1
    <3>3. Len(s) < i
      BY <1>2, <1>5, <3>2
    <3>4. \A j \in 1..Len(s) : stamp[n] <= stamp[s[j]]
      <4> TAKE j \in 1..Len(s)
      <4>1. j < i /\ j \in 1..Len(full)
        BY <1>5, <3>3
      <4>2. stamp[full[j]] >= stamp[full[i]]
        BY <1>2, <4>1
      <4>3. stamp[full[j]] \in Nat /\ stamp[full[i]] \in Nat
        <5>1. full[i] \in Alerts /\ full[j] \in Alerts
          BY <1>2, <4>1, ElementOfSeq
        <5> QED BY <5>1, Bounds DEF EngineOK
      <4> QED BY <1>4, <3>1, <4>2, <4>3
    <3> QED BY <1>2, <1>5, <3>3, <3>4
  <2>2. CASE ~\E i \in 1..Len(full) : full[i] = n
    <3>1. /\ Len(full) >= TimelineCap
          /\ \A i \in 1..Len(full) : stamp[n] <= stamp[full[i]]
      BY <1>2, <2>2
    <3>2. Len(s) = Len(full) \/ Len(s) < Found
      BY <1>2, <1>4, <1>5
    <3> QED BY <1>4, <1>5, <3>1, <3>2
  <2> QED BY <2>1, <2>2
<1> QED BY <1>4, <1>6, <1>7, <1>8 DEF NewestOf

LEMMA AskPage ==
  ASSUME EngineOK, FeedOK, BrowserType, [Next]_vars, NEW p \in Pages, handleAlerts(p),
         \A q \in Pages : PageOK(q)
  PROVE  BrowserType' /\ \A q \in Pages : PageOK(q)'
<1>1. /\ page[p] = "fetching" /\ page' = page
      /\ asked' = [asked EXCEPT ![p] = Known]
      /\ UNCHANGED <<engine, raised, stamp, stored, published, first, got, timeline,
                     recent, total, loaded>>
  BY DEF handleAlerts, Known, db, feed, lists
<1>2. PICK s \in GetRecentAlerts \cup {<< >>} :
        /\ reply' = [reply EXCEPT ![p] = {s}]
        /\ cut' = [cut EXCEPT ![p] = Len(s) < Found]
  BY DEF handleAlerts
<1>3. Known \in 0..MaxAlerts /\ Known \in Int
  BY EngineNumbers, Bounds DEF Known
<1>4. s # << >> => NewestOf(s, Known, Len(s) < Found)
  BY <1>3, AnswerIsNewest
<1>5. s \in Seq(Alerts)
  BY <1>4, EmptySeq DEF NewestOf
<1>6. BrowserType'
  <2>1. (Len(s) < Found) \in BOOLEAN
    OBVIOUS
  <2>2. cut' \in [Pages -> BOOLEAN]
    BY <1>2, <2>1 DEF BrowserType
  <2> QED BY <1>1, <1>2, <1>3, <1>5, <2>2 DEF BrowserType
<1>7. ~loaded[p] /\ timeline[p] = << >>
  BY <1>1 DEF PageOK, ShownOK
<1>8. /\ reply'[p] = {s} /\ asked'[p] = Known /\ (cut'[p] <=> Len(s) < Found)
      /\ \A q \in Pages \ {p} : /\ reply'[q] = reply[q] /\ asked'[q] = asked[q]
                               /\ cut'[q] = cut[q]
  BY <1>1, <1>2 DEF BrowserType
<1>9. PageOK(p)'
  <2>1. AnswerOK(p)'
    <3>1. NewestOf(s, Known, Len(s) < Found) => NewestOf(s, asked[p], cut[p])'
      BY <1>1, <1>8 DEF NewestOf
    <3>2. asked'[p] <= Known'
      BY <1>1, <1>3, <1>8 DEF Known
    <3>3. page'[p] # "closed"
      BY <1>1
    <3>4. \A t \in reply'[p] : t # << >> => NewestOf(t, asked[p], cut[p])'
      <4>1. s # << >> => NewestOf(s, asked[p], cut[p])'
        BY <1>4, <3>1
      <4> QED BY <1>8, <4>1 DEF NewestOf
    <3> QED BY <3>2, <3>3, <3>4 DEF AnswerOK
  <2>2. ShownOK(p)' /\ CountOK(p)' /\ GapOn(p)'
    BY <1>1, <1>7 DEF PageOK, ShownOK, CountOK, GapOn
  <2>3. NewestOn(p)' /\ OnceOn(p)'
    BY <1>1 DEF PageOK, NewestOn, OnceOn, Top, Time
  <2> QED BY <2>1, <2>2, <2>3 DEF PageOK
<1>10. ASSUME NEW q \in Pages \ {p} PROVE PageOK(q)'
  BY <1>1, <1>8, PageStays
<1> QED BY <1>6, <1>9, <1>10

LEMMA FetchPage ==
  ASSUME EngineOK, FeedOK, BrowserType, [Next]_vars, NEW p \in Pages, Fetch(p),
         \A q \in Pages : PageOK(q)
  PROVE  BrowserType' /\ \A q \in Pages : PageOK(q)'
<1>1. /\ page[p] = "closed" /\ page' = [page EXCEPT ![p] = "fetching"]
      /\ UNCHANGED <<engine, raised, stamp, stored, published, first, got, timeline,
                     recent, total, loaded, asked, cut, reply>>
  BY DEF Fetch, db, feed, lists, answer
<1>2. BrowserType'
  BY <1>1 DEF BrowserType
<1>3. page'[p] = "fetching" /\ \A q \in Pages \ {p} : page'[q] = page[q]
  BY <1>1 DEF FeedOK
<1>4. PageOK(p)'
  <2>1. ~loaded[p] /\ timeline[p] = << >> /\ reply[p] = {}
    BY <1>1 DEF PageOK, ShownOK, AnswerOK
  <2>2. AnswerOK(p)' /\ ShownOK(p)' /\ CountOK(p)' /\ GapOn(p)'
    BY <1>1, <1>3, <2>1 DEF PageOK, AnswerOK, ShownOK, CountOK, GapOn, Known
  <2>3. NewestOn(p)' /\ OnceOn(p)'
    BY <1>1 DEF PageOK, NewestOn, OnceOn, Top, Time
  <2> QED BY <2>2, <2>3 DEF PageOK
<1>5. ASSUME NEW q \in Pages \ {p} PROVE PageOK(q)'
  BY <1>1, <1>3, PageStays
<1> QED BY <1>2, <1>4, <1>5

LEMMA FailPage ==
  ASSUME EngineOK, FeedOK, BrowserType, [Next]_vars, NEW p \in Pages, FetchFails(p),
         \A q \in Pages : PageOK(q)
  PROVE  BrowserType' /\ \A q \in Pages : PageOK(q)'
<1>1. /\ page[p] = "fetching" /\ page' = [page EXCEPT ![p] = "connecting"]
      /\ reply' = [reply EXCEPT ![p] = {}]
      /\ UNCHANGED <<engine, raised, stamp, stored, published, first, got, timeline,
                     recent, total, loaded, asked, cut>>
  BY DEF FetchFails, Forget, db, feed, lists
<1>2. BrowserType'
  BY <1>1 DEF BrowserType
<1>3. /\ page'[p] = "connecting" /\ reply'[p] = {}
      /\ \A q \in Pages \ {p} : page'[q] = page[q] /\ reply'[q] = reply[q]
  BY <1>1 DEF FeedOK, BrowserType
<1>4. PageOK(p)'
  <2>1. ~loaded[p] /\ timeline[p] = << >>
    BY <1>1 DEF PageOK, ShownOK
  <2>2. AnswerOK(p)' /\ ShownOK(p)' /\ CountOK(p)' /\ GapOn(p)'
    BY <1>1, <1>3, <2>1 DEF PageOK, AnswerOK, ShownOK, CountOK, GapOn, Known
  <2>3. NewestOn(p)' /\ OnceOn(p)'
    BY <1>1 DEF PageOK, NewestOn, OnceOn, Top, Time
  <2> QED BY <2>2, <2>3 DEF PageOK
<1>5. ASSUME NEW q \in Pages \ {p} PROVE PageOK(q)'
  BY <1>1, <1>3, PageStays
<1> QED BY <1>2, <1>4, <1>5

(* A new alert goes to the front; the last entry may go.                   *)
LEMMA LimitedProperties ==
  ASSUME NEW S, NEW s \in Seq(S), NEW n \in S, NEW cap \in Nat
  PROVE  LET l == Limited(s, n, cap)
         IN  /\ l \in Seq(S)
             /\ Len(l) = IF Len(s) + 1 > cap THEN Len(s) ELSE Len(s) + 1
             /\ \A i \in 1..Len(l) : l[i] = IF i = 1 THEN n ELSE s[i - 1]
<1> DEFINE t == <<n>> \o s
<1>1. Len(s) \in Nat
  BY LenProperties
<1>2. <<n>> \in Seq(S) /\ Len(<<n>>) = 1 /\ <<n>>[1] = n
  OBVIOUS
<1>3. /\ t \in Seq(S) /\ Len(t) = Len(s) + 1
      /\ \A i \in 1..(Len(s) + 1) : t[i] = IF i <= 1 THEN <<n>>[i] ELSE s[i - 1]
  <2>1. /\ <<n>> \o s \in Seq(S) /\ Len(<<n>> \o s) = Len(<<n>>) + Len(s)
        /\ \A i \in 1..(Len(<<n>>) + Len(s)) :
             (<<n>> \o s)[i] = IF i <= Len(<<n>>) THEN <<n>>[i] ELSE s[i - Len(<<n>>)]
    BY <1>2, ConcatProperties
  <2>2. Len(<<n>>) + Len(s) = Len(s) + 1
    BY <1>1, <1>2
  <2> QED BY <1>2, <2>1, <2>2
<1> HIDE DEF t
<1>4. \A i \in 1..(Len(s) + 1) : t[i] = IF i = 1 THEN n ELSE s[i - 1]
  BY <1>1, <1>2, <1>3
<1>5. Limited(s, n, cap) = IF Len(s) + 1 > cap THEN SubSeq(t, 1, Len(s)) ELSE t
  BY <1>3 DEF Limited, t
<1>6. /\ SubSeq(t, 1, Len(s)) \in Seq(S) /\ Len(SubSeq(t, 1, Len(s))) = Len(s)
      /\ \A i \in 1..Len(s) : SubSeq(t, 1, Len(s))[i] = t[i]
  <2>1. \A i \in 1..Len(s) : t[i] \in S
    BY <1>1, <1>3, ElementOfSeq
  <2>2. 1 \in Int /\ Len(s) \in Int /\ Len(s) - 1 + 1 = Len(s)
        /\ (IF 1 <= Len(s) THEN Len(s) - 1 + 1 ELSE 0) = Len(s)
        /\ \A i \in 1..Len(s) : 1 + i - 1 = i
    BY <1>1
  <2> QED BY <2>1, <2>2, SubSeqProperties
<1> QED BY <1>1, <1>3, <1>4, <1>5, <1>6

LEMMA SucceedPage ==
  ASSUME EngineOK, FeedOK, ReaderOK, BrowserType, [Next]_vars, NEW p \in Pages,
         FetchSucceeds(p), \A q \in Pages : PageOK(q)
  PROVE  BrowserType' /\ \A q \in Pages : PageOK(q)'
<1>1. /\ page[p] = "fetching" /\ page' = [page EXCEPT ![p] = "connecting"]
      /\ reply' = [reply EXCEPT ![p] = {}] /\ loaded' = [loaded EXCEPT ![p] = TRUE]
      /\ total' = [total EXCEPT ![p] = reader[p]["stats"].total]
      /\ UNCHANGED <<engine, raised, stamp, stored, published, first, got, asked, cut>>
  BY DEF FetchSucceeds, Forget, db, feed
<1>2. /\ reply[p] # {} /\ reply[p] # {<< >>}
      /\ \A s \in reply[p] : /\ timeline' = [timeline EXCEPT ![p] = s]
                             /\ recent' = [recent EXCEPT ![p] = Top(s, RecentLoad)]
  BY DEF FetchSucceeds
<1>3. PICK s \in reply[p] : /\ timeline' = [timeline EXCEPT ![p] = s]
                            /\ recent' = [recent EXCEPT ![p] = Top(s, RecentLoad)]
  BY <1>2
<1>4. \A t \in reply[p] : t = s
  BY <1>2, <1>3 DEF BrowserType
<1>5. s # << >>
  BY <1>2, <1>4
<1>6. NewestOf(s, asked[p], cut[p])
  BY <1>5 DEF PageOK, AnswerOK
<1>7. /\ s \in Seq(Alerts) /\ Len(s) \in Nat /\ Top(s, RecentLoad) \in Seq(Alerts)
      /\ \A i \in 1..Len(s) : s[i] <= raised
  BY <1>6, NewestFields, TopProperties, ListsAssumption
<1>8. LET r == reader[p]["stats"] IN r.total \in Nat /\ r.total <= published + 1
  <2> DEFINE r == reader[p]["stats"]
  <2>1. r.at = "answered"
    BY HandlersAssumption DEF FetchSucceeds, Answered
  <2>2. ReadingOK(r) /\ Totalled(r) /\ r.total \in 0..Keep \cup {None}
    BY HandlersAssumption, ReadingFields
  <2>3. r.total # None /\ r.total <= published + 1
    BY <2>1, <2>2 DEF ReadingOK, Totalled
  <2> QED BY <2>2, <2>3, Bounds
<1>9. BrowserType'
  BY <1>1, <1>3, <1>7, <1>8 DEF BrowserType
<1>10. /\ page'[p] = "connecting" /\ reply'[p] = {} /\ loaded'[p]
       /\ total'[p] <= published + 1
       /\ timeline'[p] = s /\ recent'[p] = Top(s, RecentLoad)
  BY <1>1, <1>3, <1>8 DEF FeedOK, BrowserType
<1>11. \A q \in Pages \ {p} :
         /\ page'[q] = page[q] /\ reply'[q] = reply[q] /\ loaded'[q] = loaded[q]
         /\ total'[q] = total[q] /\ timeline'[q] = timeline[q] /\ recent'[q] = recent[q]
  BY <1>1, <1>3 DEF FeedOK, BrowserType
<1>12. PageOK(p)'
  <2>1. AnswerOK(p)'
    BY <1>1, <1>10 DEF PageOK, AnswerOK, Known
  <2>2. NewestOf(timeline[p], asked[p], cut[p])'
    BY <1>1, <1>6, <1>10 DEF NewestOf
  <2>3. ShownOK(p)' /\ CountOK(p)' /\ GapOn(p)'
    BY <1>1, <1>7, <1>10, <2>2 DEF ShownOK, CountOK, GapOn
  <2>4. \A i, j \in 1..Len(s) : i < j => s[i] # s[j] /\ stamp[s[i]] >= stamp[s[j]]
    BY <1>6 DEF NewestOf
  <2>5. NewestOn(p)'
    <3>1. recent'[p] = Top(s, Len(recent'[p]))
      <4>1. PICK t : t = Top(s, RecentLoad)
        OBVIOUS
      <4>2. RecentLoad \in Nat
        BY ListsAssumption
      <4>3. /\ t \in Seq(Alerts) /\ Len(t) <= Len(s)
            /\ \A i \in 1..Len(t) : t[i] = s[i]
        BY <1>7, <4>1, <4>2, TopProperties
      <4>4. t = Top(s, Len(t))
        BY <1>7, <4>3, PrefixIsTop
      <4> QED BY <1>10, <4>1, <4>4
    <3> QED BY <1>1, <1>10, <2>4, <3>1 DEF NewestOn, Time, Top
  <2>6. OnceOn(p)'
    <3> SUFFICES ASSUME NEW i \in 1..Len(s), NEW j \in 1..Len(s), i # j, s[i] = s[j]
                 PROVE  FALSE
      BY <1>10 DEF OnceOn
    <3>1. i < j \/ j < i
      BY <1>7
    <3> QED BY <2>4, <3>1
  <2> QED BY <2>1, <2>3, <2>5, <2>6 DEF PageOK
<1>13. ASSUME NEW q \in Pages \ {p} PROVE PageOK(q)'
  BY <1>1, <1>11, PageStays
<1> QED BY <1>9, <1>12, <1>13

(* From here on the page gets every alert, from the one after the last     *)
(* that was broadcast.                                                     *)
LEMMA ConnectPage ==
  ASSUME EngineOK, FeedOK, BrowserType, [Next]_vars, NEW p \in Pages, Connect(p),
         \A q \in Pages : PageOK(q)
  PROVE  BrowserType' /\ \A q \in Pages : PageOK(q)'
<1>1. /\ page[p] = "connecting" /\ page' = [page EXCEPT ![p] = "live"]
      /\ first' = [first EXCEPT ![p] = published + 1]
      /\ UNCHANGED <<engine, raised, stamp, stored, published, got, timeline, recent,
                     total, loaded, asked, cut, reply>>
  BY DEF Connect, Live!Subscribe, db, lists, answer
<1>2. BrowserType'
  BY <1>1 DEF BrowserType
<1>3. /\ page'[p] = "live" /\ first'[p] = published + 1
      /\ \A q \in Pages \ {p} : page'[q] = page[q] /\ first'[q] = first[q]
  BY <1>1 DEF FeedOK
<1>4. Len(got[p]) = 0 /\ published \in Nat /\ raised \in Nat /\ raised <= published + 1
  BY <1>1, FeedNumbers, EngineNumbers
<1>5. PageOK(p)'
  <2>1. /\ AnswerOK(p) /\ ShownOK(p) /\ CountOK(p) /\ NewestOn(p)
        /\ loaded[p] => NewestOf(timeline[p], asked[p], cut[p])
        /\ ~loaded[p] => timeline[p] = << >>
    BY <1>1 DEF PageOK, ShownOK
  <2>2. /\ Len(timeline[p]) \in Nat
        /\ \A i \in 1..Len(timeline[p]) :
             timeline[p][i] \in Int /\ timeline[p][i] <= raised
    BY <2>1, PageFields DEF ShownOK
  <2>3. AnswerOK(p)'
    <3>1. ASSUME NEW s, NewestOf(s, asked[p], cut[p])
          PROVE  NewestOf(s, asked[p], cut[p])'
      BY <1>1, <3>1 DEF NewestOf
    <3>2. ASSUME NEW s \in reply[p], s # << >> PROVE NewestOf(s, asked[p], cut[p])'
      BY <2>1, <3>1, <3>2 DEF AnswerOK
    <3>3. asked'[p] <= Known' /\ page'[p] # "closed"
      BY <1>1, <1>3, <2>1 DEF AnswerOK, Known
    <3> QED BY <1>1, <3>2, <3>3 DEF AnswerOK
  <2>4. ShownOK(p)'
    BY <1>1, <1>3, <1>4, <2>2 DEF ShownOK
  <2>5. CountOK(p)'
    BY <1>1, <1>3, <1>4, <2>1 DEF CountOK
  <2>6. NewestOn(p)'
    BY <1>1, <2>1 DEF NewestOn, Time, Top
  <2>7. OnceOn(p)'
    <3> SUFFICES ASSUME NEW i \in 1..Len(timeline[p]), NEW j \in 1..Len(timeline[p]),
                        i # j, timeline[p][i] = timeline[p][j]
                 PROVE  FALSE
      BY <1>1 DEF OnceOn
    <3>1. i < j \/ j < i
      BY <2>2
    <3>2. loaded[p]
      BY <2>1
    <3> QED BY <2>1, <3>1, <3>2 DEF NewestOf
  <2>8. GapOn(p)'
    <3> SUFFICES ASSUME loaded[p], NEW n \in stored,
                        n \notin {timeline[p][i] : i \in 1..Len(timeline[p])}
                 PROVE  \/ asked[p] < n /\ n < published + 1
                        \/ published + 1 <= n
                        \/ /\ Len(timeline[p]) >= TimelineCap \/ cut[p]
                           /\ \A i \in 1..Len(timeline[p]) : stamp[n] <= Time(p, i)
      BY <1>1, <1>3, <1>4 DEF GapOn, Time
    <3>1. n \in Int
      BY EngineNumbers, AlertNumbers
    <3> QED BY <1>4, <2>1, <3>1 DEF NewestOf, Time
  <2> QED BY <2>3, <2>4, <2>5, <2>6, <2>7, <2>8 DEF PageOK
<1>6. ASSUME NEW q \in Pages \ {p} PROVE PageOK(q)'
  BY <1>1, <1>3, PageStays
<1> QED BY <1>2, <1>5, <1>6

(* A live alert is shown on top: it is no older than what is shown, and    *)
(* the entry that goes is no newer than what stays.                        *)
LEMMA MessagePage ==
  ASSUME EngineOK, FeedOK, BrowserType, [Next]_vars, NEW p \in Pages, OnMessage(p),
         \A q \in Pages : PageOK(q)
  PROVE  BrowserType' /\ \A q \in Pages : PageOK(q)'
<1> DEFINE n == first[p] + Len(got[p])
           s == timeline[p]
           t == recent[p]
           longer == Limited(s, n, TimelineCap)
           shorter == Limited(t, n, RecentCap)
<1>1. /\ page[p] = "live" /\ n <= published /\ first[p] # 0
      /\ timeline' = [timeline EXCEPT ![p] = longer]
      /\ recent' = [recent EXCEPT ![p] = shorter]
      /\ total' = [total EXCEPT ![p] = total[p] + 1]
      /\ UNCHANGED <<engine, raised, stamp, stored, published, first, page, reply,
                     loaded, asked, cut>>
  BY DEF OnMessage, Live!Receive, db, answer
<1>2. Len(got'[p]) = Len(got[p]) + 1 /\ \A q \in Pages \ {p} : got'[q] = got[q]
  BY ReceiveFeed
<1>3. /\ first[p] \in Nat /\ Len(got[p]) \in Nat /\ first[p] > 0
      /\ n \in Nat /\ n > 0 /\ n >= first[p]
      /\ published \in Nat /\ raised \in Nat /\ n <= raised
  BY <1>1, FeedNumbers, EngineNumbers
<1>4. n \in Alerts
  BY <1>3, AlertNumbers, EngineNumbers, Bounds
<1>5. /\ s \in Seq(Alerts) /\ t \in Seq(Alerts) /\ Len(s) \in Nat /\ Len(t) \in Nat
      /\ \A i \in 1..Len(s) : s[i] \in Alerts /\ s[i] \in Int
      /\ total[p] \in Nat /\ asked[p] \in Int
  BY PageFields
<1>6. /\ TimelineCap \in Nat /\ RecentCap \in Nat
      /\ RecentCap <= TimelineCap /\ TimelineCap > 0
  BY ListsAssumption
<1>7. /\ longer \in Seq(Alerts)
      /\ Len(longer) = IF Len(s) + 1 > TimelineCap THEN Len(s) ELSE Len(s) + 1
      /\ \A i \in 1..Len(longer) : longer[i] = IF i = 1 THEN n ELSE s[i - 1]
  <2>1. n \in Alerts /\ s \in Seq(Alerts) /\ TimelineCap \in Nat
    BY <1>4, <1>5, <1>6
  <2> HIDE DEF n, s
  <2> QED BY <2>1, LimitedProperties
<1>8. /\ shorter \in Seq(Alerts)
      /\ Len(shorter) = IF Len(t) + 1 > RecentCap THEN Len(t) ELSE Len(t) + 1
      /\ \A i \in 1..Len(shorter) : shorter[i] = IF i = 1 THEN n ELSE t[i - 1]
  <2>1. n \in Alerts /\ t \in Seq(Alerts) /\ RecentCap \in Nat
    BY <1>4, <1>5, <1>6
  <2> HIDE DEF n, t
  <2> QED BY <2>1, LimitedProperties
<1>9. BrowserType'
  BY <1>1, <1>5, <1>7, <1>8 DEF BrowserType
<1>10. /\ timeline'[p] = longer /\ recent'[p] = shorter /\ total'[p] = total[p] + 1
       /\ \A q \in Pages \ {p} : timeline'[q] = timeline[q] /\ recent'[q] = recent[q]
                                /\ total'[q] = total[q]
  BY <1>1 DEF BrowserType
<1>11. ShownOK(p) /\ AnswerOK(p) /\ CountOK(p) /\ NewestOn(p) /\ OnceOn(p) /\ GapOn(p)
  BY DEF PageOK
<1>12. \A i \in 1..Len(s) : (s[i] < n \/ s[i] = first[p]) /\ s[i] <= n /\ s[i] <= raised
  <2>1. \A i \in 1..Len(s) : (s[i] < n \/ s[i] = first[p]) /\ s[i] <= raised
    BY <1>1, <1>11 DEF ShownOK
  <2> HIDE DEF n, s
  <2> QED BY <1>3, <1>5, <2>1
<1>13. \A m \in Alerts : m <= n => stamp[m] <= stamp[n] /\ stamp[m] \in Nat
  BY <1>3, <1>4, Bounds DEF EngineOK
<1>14. \A i \in 1..Len(s) : stamp[s[i]] <= stamp[n]
  BY <1>5, <1>12, <1>13
<1> HIDE DEF n, s, t, longer, shorter
<1>15. AnswerOK(p)'
  <2>1. ASSUME NEW x, NewestOf(x, asked[p], cut[p]) PROVE NewestOf(x, asked[p], cut[p])'
    BY <1>1, <2>1 DEF NewestOf
  <2>2. ASSUME NEW x \in reply[p], x # << >> PROVE NewestOf(x, asked[p], cut[p])'
    BY <1>11, <2>1, <2>2 DEF AnswerOK
  <2>3. asked'[p] <= Known' /\ page'[p] # "closed"
    BY <1>1, <1>11 DEF AnswerOK, Known
  <2> QED BY <1>1, <2>2, <2>3 DEF AnswerOK
<1>16. first'[p] + Len(got'[p]) = n + 1
  BY <1>1, <1>2, <1>3 DEF n
<1>17. \A i \in 1..Len(longer) :
         /\ longer[i] \in Alerts /\ longer[i] \in Int
         /\ i # 1 => i - 1 \in 1..Len(s) /\ longer[i] = s[i - 1]
         /\ i = 1 => longer[i] = n
         /\ longer[i] <= n
  <2> TAKE i \in 1..Len(longer)
  <2>1. i # 1 => i - 1 \in 1..Len(s)
    BY <1>5, <1>7
  <2> QED BY <1>3, <1>4, <1>5, <1>7, <1>12, <2>1
<1>18. ShownOK(p)'
  <2>1. \A i \in 1..Len(longer) : longer[i] <= raised /\ longer[i] < n + 1
    BY <1>3, <1>17
  <2> QED BY <1>1, <1>10, <1>16, <2>1 DEF ShownOK
<1>19. CountOK(p)'
  <2>1. loaded[p] => total[p] <= n
    BY <1>1, <1>11 DEF CountOK, n
  <2> QED BY <1>1, <1>3, <1>5, <1>10, <1>16, <2>1 DEF CountOK
<1>20. NewestOn(p)'
  <2>1. \A i, j \in 1..Len(s) : i < j => stamp[s[i]] >= stamp[s[j]]
    BY <1>11 DEF NewestOn, Time, s
  <2>2. \A i, j \in 1..Len(longer) : i < j => stamp[longer[i]] >= stamp[longer[j]]
    <3> SUFFICES ASSUME NEW i \in 1..Len(longer), NEW j \in 1..Len(longer), i < j
                 PROVE  stamp[longer[i]] >= stamp[longer[j]]
      OBVIOUS
    <3>1. j # 1 /\ j - 1 \in 1..Len(s) /\ longer[j] = s[j - 1]
      BY <1>17
    <3>2. CASE i = 1
      BY <1>14, <1>17, <3>1, <3>2
    <3>3. CASE i # 1
      <4>1. i - 1 \in 1..Len(s) /\ longer[i] = s[i - 1] /\ i - 1 < j - 1
        BY <1>17, <3>3
      <4>2. stamp[s[i - 1]] >= stamp[s[j - 1]]
        BY <2>1, <3>1, <4>1
      <4> QED BY <3>1, <4>1, <4>2
    <3> QED BY <3>2, <3>3
  <2>3. Len(t) <= Len(s) /\ \A i \in 1..Len(t) : t[i] = s[i]
    <3>1. t = Top(s, Len(t))
      BY <1>11 DEF NewestOn, s, t
    <3> QED BY <1>5, <3>1, TopProperties
  <2>4. Len(shorter) <= Len(longer)
    BY <1>5, <1>6, <1>7, <1>8, <2>3
  <2>5. \A i \in 1..Len(shorter) : shorter[i] = longer[i]
    <3> TAKE i \in 1..Len(shorter)
    <3>1. i # 1 => i - 1 \in 1..Len(t)
      BY <1>5, <1>8
    <3>2. i \in 1..Len(longer)
      BY <1>5, <1>7, <1>8, <2>4
    <3> QED BY <1>7, <1>8, <2>3, <3>1, <3>2
  <2>6. shorter = Top(longer, Len(shorter))
    BY <1>7, <1>8, <2>4, <2>5, PrefixIsTop
  <2> QED BY <1>1, <1>10, <2>2, <2>6 DEF NewestOn, Time, Top
<1>21. OnceOn(p)'
  <2> SUFFICES ASSUME NEW i \in 1..Len(longer), NEW j \in 1..Len(longer), i < j,
                      longer[i] = longer[j]
               PROVE  longer[i] = first[p]
    <3>1. \A i, j \in 1..Len(longer) : i # j => i < j \/ j < i
      BY <1>5, <1>7
    <3> QED BY <1>1, <1>10, <3>1 DEF OnceOn
  <2>1. j # 1 /\ j - 1 \in 1..Len(s) /\ longer[j] = s[j - 1]
    BY <1>17
  <2>2. CASE i = 1
    BY <1>3, <1>5, <1>12, <1>17, <2>1, <2>2
  <2>3. CASE i # 1
    <3>1. i - 1 \in 1..Len(s) /\ longer[i] = s[i - 1] /\ i - 1 # j - 1
      BY <1>17, <2>3
    <3> QED BY <1>11, <2>1, <3>1 DEF OnceOn, s
  <2> QED BY <2>2, <2>3
<1>22. GapOn(p)'
  <2> SUFFICES ASSUME loaded[p], NEW m \in stored,
                      m \notin {longer[i] : i \in 1..Len(longer)}
               PROVE  \/ asked[p] < m /\ m < first[p]
                      \/ n + 1 <= m
                      \/ /\ Len(longer) >= TimelineCap \/ cut[p]
                         /\ \A i \in 1..Len(longer) : stamp[m] <= stamp[longer[i]]
    BY <1>1, <1>10, <1>16 DEF GapOn, Time
  <2>1. m \in Alerts /\ m \in Int
    BY EngineNumbers, AlertNumbers
  <2>2. Len(longer) >= 1 => m # n
    <3>1. Len(longer) >= 1 => 1 \in 1..Len(longer)
      BY <1>5, <1>7
    <3> QED BY <1>17, <3>1
  <2>3. Len(longer) >= 1 /\ Len(longer) >= Len(s)
    BY <1>5, <1>6, <1>7
  <2>4. ASSUME m <= n, \A i \in 1..Len(s) : stamp[m] <= stamp[s[i]]
        PROVE  \A i \in 1..Len(longer) : stamp[m] <= stamp[longer[i]]
    <3>1. stamp[m] <= stamp[n]
      BY <1>13, <2>1, <2>4
    <3> QED BY <1>17, <2>4, <3>1
  <2>5. CASE m \in {s[i] : i \in 1..Len(s)}
    <3>1. PICK i \in 1..Len(s) : s[i] = m
      BY <2>5
    <3>2. i + 1 \notin 1..Len(longer)
      BY <1>7, <1>5, <3>1
    <3>3. i = Len(s) /\ Len(longer) = Len(s) /\ Len(s) >= TimelineCap
      BY <1>5, <1>6, <1>7, <3>2
    <3>4. \A j \in 1..Len(s) : stamp[m] <= stamp[s[j]]
      <4> TAKE j \in 1..Len(s)
      <4>1. j < i \/ j = i
        BY <1>5, <3>3
      <4>2. stamp[m] \in Nat
        BY <2>1, Bounds DEF EngineOK
      <4> QED BY <1>11, <3>1, <4>1, <4>2 DEF NewestOn, Time, s
    <3>5. m <= n
      BY <1>12, <3>1
    <3> QED BY <2>4, <3>3, <3>4, <3>5
  <2>6. CASE m \notin {s[i] : i \in 1..Len(s)}
    <3>1. \/ asked[p] < m /\ m < first[p]
          \/ n <= m
          \/ /\ Len(s) >= TimelineCap \/ cut[p]
             /\ \A i \in 1..Len(s) : stamp[m] <= stamp[s[i]]
      BY <1>1, <1>11, <2>6 DEF GapOn, Time, n, s
    <3>2. n <= m => n + 1 <= m
      BY <1>3, <2>1, <2>2, <2>3
    <3>3. Len(s) >= TimelineCap => Len(longer) >= TimelineCap
      BY <1>5, <1>6, <1>7
    <3>4. n <= m \/ m <= n
      BY <1>3, <2>1
    <3> QED BY <2>4, <3>1, <3>2, <3>3, <3>4
  <2> QED BY <2>5, <2>6
<1>23. PageOK(p)'
  BY <1>15, <1>18, <1>19, <1>20, <1>21, <1>22 DEF PageOK
<1>24. ASSUME NEW q \in Pages \ {p} PROVE PageOK(q)'
  BY <1>1, <1>2, <1>10, PageStays
<1> QED BY <1>9, <1>23, <1>24

-----------------------------------------------------------------------------
(* The theorems. *)

LEMMA InitPages == Init => BrowserType /\ \A p \in Pages : PageOK(p)
<1> SUFFICES ASSUME Init PROVE BrowserType /\ \A p \in Pages : PageOK(p)
  OBVIOUS
<1>1. /\ page = [p \in Pages |-> "closed"] /\ reply = [p \in Pages |-> {}]
      /\ timeline = [p \in Pages |-> << >>] /\ recent = [p \in Pages |-> << >>]
      /\ total = [p \in Pages |-> Placeholder]
      /\ loaded = [p \in Pages |-> FALSE] /\ asked = [p \in Pages |-> 0]
      /\ cut = [p \in Pages |-> FALSE]
      /\ engine = "idle" /\ raised = 0
  BY DEF Init
<1>2. << >> \in Seq(Alerts) /\ Len(<< >>) = 0 /\ Placeholder \in Nat
      /\ 0 \in 0..MaxAlerts
  BY EmptySeq, ListsAssumption, Bounds
<1>3. BrowserType
  BY <1>1, <1>2 DEF BrowserType
<1>4. ASSUME NEW p \in Pages PROVE PageOK(p)
  <2>1. AnswerOK(p) /\ ShownOK(p) /\ CountOK(p) /\ OnceOn(p) /\ GapOn(p)
    BY <1>1, <1>2 DEF AnswerOK, ShownOK, CountOK, OnceOn, GapOn, Known
  <2>2. NewestOn(p)
    <3>1. PICK s \in Seq(Alerts) : s = << >> /\ Len(s) = 0
      BY <1>2
    <3>2. s = Top(s, Len(s))
      <4>1. Len(s) <= Len(s) /\ \A i \in 1..Len(s) : s[i] = s[i]
        BY <3>1
      <4> QED BY <4>1, PrefixIsTop
    <3> QED BY <1>1, <1>2, <3>1, <3>2 DEF NewestOn
  <2> QED BY <2>1, <2>2 DEF PageOK
<1> QED BY <1>3, <1>4

LEMMA NextPages ==
  ASSUME EngineOK, FeedOK, ReaderOK, BrowserType, \A p \in Pages : PageOK(p),
         [Next]_vars
  PROVE  BrowserType' /\ \A p \in Pages : PageOK(p)'
<1> DEFINE Still == UNCHANGED <<page, reply, timeline, recent, total, loaded, asked,
                               cut, first, got>>
<1>1. ASSUME Still PROVE BrowserType' /\ \A p \in Pages : PageOK(p)'
  <2>1. BrowserType'
    BY <1>1 DEF BrowserType
  <2>2. ASSUME NEW p \in Pages PROVE PageOK(p)'
    BY <1>1, PageStays
  <2> QED BY <2>1, <2>2
<1>2. CASE UNCHANGED vars
  BY <1>1, <1>2 DEF vars, feed, browser, answer, lists
<1>3. CASE Raise \/ InsertAlert \/ Evict \/ AppendAlert
  BY <1>1, <1>3 DEF Raise, InsertAlert, Evict, AppendAlert, feed, browser,
     answer, lists
<1>4. CASE BroadcastAlert
  BY <1>1, <1>4 DEF BroadcastAlert, Live!Publish, browser, answer, lists
<1>5. ASSUME NEW word \in Words, Store(word) PROVE Still
  BY <1>5 DEF Store, feed, browser, answer, lists
<1>6. ASSUME NEW p \in Pages, ReadTotal(p) PROVE Still
  BY <1>6 DEF ReadTotal, Handling, feed, answer, lists
<1>7. ASSUME NEW p \in Pages, NEW h \in Handlers, Handle(p, h) PROVE Still
  BY <1>7 DEF Handle, LoadLen, LoadPtr, RangeAlerts, Handling, feed, browser,
     answer, lists
<1>8. ASSUME NEW p \in Pages, Fetch(p) \/ handleAlerts(p) \/ FetchSucceeds(p)
                              \/ FetchFails(p) \/ Connect(p) \/ OnMessage(p)
      PROVE BrowserType' /\ \A q \in Pages : PageOK(q)'
  BY <1>8, FetchPage, AskPage, SucceedPage, FailPage, ConnectPage, MessagePage
<1> HIDE DEF Still
<1> QED BY <1>1, <1>2, <1>3, <1>4, <1>5, <1>6, <1>7, <1>8 DEF Next

(* The inductive invariant of the feed of alerts.                          *)
LEMMA InvHolds == Spec => []IInv
<1>1. Init => IInv
  BY InitEngine, InitList, InitFeed, InitReader, InitPages DEF IInv
<1>2. IInv /\ [Next]_vars => IInv'
  <2> SUFFICES ASSUME IInv, [Next]_vars PROVE IInv'
    OBVIOUS
  <2>1. EngineOK' /\ ListOK' /\ FeedOK' /\ ReaderOK'
    BY NextEngine, NextList, NextFeed, NextReader DEF IInv
  <2>2. BrowserType' /\ \A p \in Pages : PageOK(p)'
    BY NextPages DEF IInv
  <2> QED BY <2>1, <2>2 DEF IInv
<1> QED BY <1>1, <1>2, PTL DEF Spec

(* The types hold, and once its words are stored the list of recent alerts *)
(* ends with the last one added, holds the last Keep of them and no slot   *)
(* that was not written (server.go:35-43).                                 *)
THEOREM TypeCorrect == Spec => []TypeOK
<1>1. ASSUME IInv PROVE TypeOK
  <2>1. EngineOK /\ ListOK /\ FeedOK /\ ReaderOK /\ BrowserType /\ ListType
    BY <1>1 DEF IInv, ListOK
  <2>2. ASSUME unstored = {}
        PROVE  LET last == ptr.first + len - 1
               IN  /\ last = Added /\ last = filled[ptr.array] /\ last <= end[ptr.array]
                   /\ engine # "append" => len = Size(Added)
    <3>1. CASE engine \in {"idle", "insert", "evict"}
      BY <2>1, <3>1 DEF ListOK, AtRest, Added
    <3>2. CASE engine = "append"
      BY <2>1, <2>2, <3>2 DEF ListOK, Evicting, Added
    <3>3. CASE engine = "broadcast"
      BY <2>1, <2>2, <3>3 DEF ListOK, Appending, Added
    <3> QED BY <2>1, <3>1, <3>2, <3>3 DEF EngineOK
  <2>3. /\ up \in BOOLEAN
        /\ engine \in {"idle", "insert", "evict", "append", "broadcast"}
        /\ raised \in 0..MaxAlerts
        /\ published = (IF engine = "idle" THEN raised ELSE raised - 1)
        /\ stamp \in [Alerts -> 0..MaxTime] /\ stored \in SUBSET (Older \cup 1..raised)
    BY <2>1 DEF EngineOK
  <2>4. /\ ptr \in Pointer /\ len \in 0..Keep /\ unstored \in SUBSET Words
        /\ target \in [ptr : Pointer, len : 0..Keep]
        /\ filled \in [Arrays -> Arrays] /\ end \in [Arrays -> Nat]
    BY <2>1 DEF ListType
  <2>5. /\ page \in [Pages -> {"closed", "fetching", "connecting", "live"}]
        /\ reader \in [Pages -> [Handlers -> Reading]]
        /\ \A p \in Pages : reply[p] \subseteq Seq(Alerts)
        /\ timeline \in [Pages -> Seq(Alerts)] /\ recent \in [Pages -> Seq(Alerts)]
        /\ total \in [Pages -> Nat] /\ loaded \in [Pages -> BOOLEAN]
        /\ asked \in [Pages -> 0..MaxAlerts] /\ cut \in [Pages -> BOOLEAN]
    BY <2>1 DEF FeedOK, ReaderOK, BrowserType
  <2> QED BY <2>2, <2>3, <2>4, <2>5 DEF TypeOK
<1> QED BY <1>1, InvHolds, PTL

(* The newest alert is on top of what the page shows, and the table of     *)
(* recent ones is the top of the timeline (db.go:193-221,                  *)
(* script.js:28-42, 729-739).                                              *)
THEOREM NewestShownFirst == Spec => []NewestFirst
<1>1. IInv => NewestFirst
  BY DEF IInv, PageOK, NewestOn, NewestFirst
<1> QED BY <1>1, InvHolds, PTL

(* No alert is shown twice but the one that the engine was between storing *)
(* and broadcasting when the page connected (engine.go:83-89,              *)
(* script.js:715-762).                                                     *)
THEOREM ShownAtMostOnce == Spec => []ShownOnce
<1>1. IInv => ShownOnce
  BY DEF IInv, PageOK, OnceOn, ShownOnce
<1> QED BY <1>1, InvHolds, PTL

(* An alert of the database that a live page lacks was stored after the    *)
(* fetch and broadcast before the page connected, or is on its way, or is  *)
(* no newer than what the page shows while its list is full or the         *)
(* database's answer broke off (db.go:193-221, script.js:14-55, 715-762).  *)
THEOREM GapIsAllThatIsMissing == Spec => []OnlyTheGapIsMissing
<1>1. IInv => OnlyTheGapIsMissing
  BY DEF IInv, PageOK, GapOn, OnlyTheGapIsMissing
<1> QED BY <1>1, InvHolds, PTL

(* The number of alerts that the page shows is at most one ahead of those  *)
(* that were broadcast (script.js:60, 747, server.go:160).                 *)
THEOREM CountNearPublished == Spec => []CountAtMostOneAhead
<1>1. ASSUME IInv PROVE CountAtMostOneAhead
  <2> SUFFICES ASSUME NEW p \in Pages, loaded[p] PROVE total[p] <= published + 1
    BY DEF CountAtMostOneAhead
  <2>1. CountOK(p) /\ FeedOK /\ BrowserType /\ EngineOK
    BY <1>1 DEF IInv, PageOK
  <2>2. /\ first[p] + Len(got[p]) <= published + 1
        /\ first[p] \in Nat /\ Len(got[p]) \in Nat
    BY <2>1, FeedNumbers
  <2>3. total[p] \in Nat /\ published \in Nat
    BY <2>1, PageFields, EngineNumbers
  <2> QED BY <2>1, <2>2, <2>3 DEF CountOK
<1> QED BY <1>1, InvHolds, PTL

(* A handler meets a slot with no alert, or reads past the array, only if  *)
(* an AddAlert overlaps its request.                                       *)
LEMMA QuietRange ==
  ASSUME EngineOK, ListOK, ReaderOK, NEW p \in Pages, NEW h \in Handlers,
         RangeAlerts(p, h), ~Overlapped(reader[p][h])
  PROVE  Change(p, h, Done(reader[p][h], "answered")) /\ up' = up
<1> DEFINE r == reader[p][h]
           last == r.ptr.first + r.len - 1
<1>1. r.at = "load" /\ r.len # None /\ r.ptr # None
  BY DEF RangeAlerts
<1>2. ReadingOK(r) /\ r.begun \in Nat
  BY ReadingFields
<1>3. r.begun <= Added /\ r.len = len /\ r.ptr = ptr
  BY <1>1, <1>2 DEF ReadingOK
<1>4. Added = Touched
  BY <1>2, <1>3, AddedNumbers DEF Overlapped
<1>5. last = filled[r.ptr.array] /\ last <= end[r.ptr.array]
  BY <1>3, <1>4, QuietSlice
<1>6. /\ last \in Int /\ filled[r.ptr.array] \in Int /\ end[r.ptr.array] \in Int
  BY <1>3, ListNumbers DEF ListOK
<1>7. ~(last > filled[r.ptr.array]) /\ ~(last > end[r.ptr.array])
  BY <1>5, <1>6
<1> QED BY <1>7 DEF RangeAlerts, Handling

(* What a handler that goes through the list may become, and that nothing  *)
(* else ends its reading.                                                  *)
LEMMA EndOfReading ==
  ASSUME ReaderOK, [Next]_vars, NEW p \in Pages, NEW h \in Handlers,
         reader[p][h].at = "load", reader'[p][h].at \in {"answered", "failed"}
  PROVE  RangeAlerts(p, h)
<1>1. /\ reader \in [Pages -> [Handlers -> Reading]] /\ reader' # reader
  BY DEF ReaderOK
<1>2. CASE UNCHANGED vars
  BY <1>1, <1>2 DEF vars, browser
<1>3. CASE Raise \/ InsertAlert \/ Evict \/ AppendAlert \/ BroadcastAlert
  BY <1>1, <1>3 DEF Raise, InsertAlert, Evict, AppendAlert, BroadcastAlert, browser
<1>4. ASSUME NEW word \in Words, Store(word) PROVE FALSE
  BY <1>1, <1>4 DEF Store, browser
<1>5. ASSUME NEW q \in Pages, handleAlerts(q) \/ Connect(q) \/ OnMessage(q)
      PROVE FALSE
  BY <1>1, <1>5 DEF handleAlerts, Connect, OnMessage
<1>6. ASSUME NEW q \in Pages, Fetch(q) PROVE FALSE
  BY <1>1, <1>6 DEF Fetch, Unread
<1>7. ASSUME NEW q \in Pages, FetchSucceeds(q) \/ FetchFails(q) PROVE FALSE
  BY <1>1, <1>7 DEF FetchSucceeds, FetchFails, Forget, Unread
<1>8. ASSUME NEW q \in Pages, NEW g \in Handlers, NEW t,
             t.at = "load", Change(q, g, t)
      PROVE  FALSE
  BY <1>1, <1>8 DEF Change
<1>9. ASSUME NEW q \in Pages, ReadTotal(q) PROVE FALSE
  <2>1. PICK r, t : /\ r = reader[q]["stats"]
                    /\ t = [r EXCEPT !.at = "load", !.total = len]
    OBVIOUS
  <2>2. r \in Reading
    BY <1>1, <2>1, HandlersAssumption
  <2>3. t.at = "load"
    BY <2>1, <2>2 DEF Reading
  <2> QED BY <1>8, <1>9, <2>1, <2>3, HandlersAssumption DEF ReadTotal
<1>10. ASSUME NEW q \in Pages, NEW g \in Handlers, LoadLen(q, g) PROVE FALSE
  <2>1. PICK r, t : r = reader[q][g] /\ t = [r EXCEPT !.len = len]
    OBVIOUS
  <2>2. r \in Reading /\ r.at = "load"
    BY <1>1, <1>10, <2>1 DEF LoadLen
  <2>3. t.at = "load"
    BY <2>1, <2>2 DEF Reading
  <2> QED BY <1>8, <1>10, <2>1, <2>3 DEF LoadLen
<1>11. ASSUME NEW q \in Pages, NEW g \in Handlers, LoadPtr(q, g) PROVE FALSE
  <2>1. PICK r, t : r = reader[q][g] /\ t = [r EXCEPT !.ptr = ptr]
    OBVIOUS
  <2>2. r \in Reading /\ r.at = "load"
    BY <1>1, <1>11, <2>1 DEF LoadPtr
  <2>3. t.at = "load"
    BY <2>1, <2>2 DEF Reading
  <2> QED BY <1>8, <1>11, <2>1, <2>3 DEF LoadPtr
<1>12. ASSUME NEW q \in Pages, NEW g \in Handlers, RangeAlerts(q, g),
              ~(q = p /\ g = h)
       PROVE  FALSE
  BY <1>1, <1>12 DEF RangeAlerts, Change, browser
<1> QED BY <1>2, <1>3, <1>4, <1>5, <1>6, <1>7, <1>9, <1>10, <1>11, <1>12
        DEF Next, Handle

(* Only a handler that reads past the array ends the program.              *)
LEMMA EndOfProgram ==
  ASSUME [Next]_vars, up' # up
  PROVE  \E p \in Pages, h \in Handlers : RangeAlerts(p, h)
<1>1. CASE UNCHANGED vars
  BY <1>1 DEF vars
<1>2. CASE Raise \/ InsertAlert \/ Evict \/ AppendAlert \/ BroadcastAlert
  BY <1>2 DEF Raise, InsertAlert, Evict, AppendAlert, BroadcastAlert
<1>3. ASSUME NEW word \in Words, Store(word) PROVE FALSE
  BY <1>3 DEF Store
<1>4. ASSUME NEW q \in Pages, Fetch(q) \/ handleAlerts(q) \/ FetchSucceeds(q)
                               \/ FetchFails(q) \/ Connect(q) \/ OnMessage(q)
      PROVE FALSE
  BY <1>4 DEF Fetch, handleAlerts, FetchSucceeds, FetchFails, Connect, OnMessage
<1>5. ASSUME NEW q \in Pages, ReadTotal(q) PROVE FALSE
  BY <1>5 DEF ReadTotal, Handling
<1>6. ASSUME NEW q \in Pages, NEW h \in Handlers, LoadLen(q, h) \/ LoadPtr(q, h)
      PROVE FALSE
  BY <1>6 DEF LoadLen, LoadPtr, Handling
<1> QED BY <1>1, <1>2, <1>3, <1>4, <1>5, <1>6 DEF Next, Handle

(* Both numbers that handleStats reads of the list, which it reads with no *)
(* lock, are the size of the list when no AddAlert overlaps the request,   *)
(* and between the sizes before and after it, but for one, otherwise; and  *)
(* only a request that one overlaps fails or kills the program             *)
(* (server.go:35-43, 158-172, 203).                                        *)
THEOREM StatsCorrect == Spec => StatsNearTruth
<1> DEFINE Counted == \A p \in Pages :
             LET r == reader[p]["stats"]
             IN  r.at = "load" /\ reader'[p]["stats"].at = "answered" =>
                   {r.total, r.len} \subseteq Least(r)..Size(Touched)
           Failed == \A p \in Pages, h \in Handlers :
             reader[p][h].at = "load" /\ reader'[p][h].at = "failed" =>
               Overlapped(reader[p][h])
           Died == up' # up => \E p \in Pages, h \in Handlers :
             reader[p][h].at = "load" /\ Overlapped(reader[p][h])
<1>1. ASSUME IInv, [Next]_vars PROVE Counted
  <2> SUFFICES ASSUME NEW p \in Pages,
                      reader[p]["stats"].at = "load",
                      reader'[p]["stats"].at = "answered"
               PROVE  {reader[p]["stats"].total, reader[p]["stats"].len}
                        \subseteq Truth(reader[p]["stats"])
    BY DEF Truth
  <2>1. ReaderOK /\ ReadingOK(reader[p]["stats"]) /\ Totalled(reader[p]["stats"])
    BY <1>1, HandlersAssumption DEF IInv, ReaderOK
  <2>2. reader[p]["stats"].len # None
    BY <1>1, <2>1, EndOfReading, HandlersAssumption DEF RangeAlerts
  <2> QED BY <2>1, <2>2 DEF ReadingOK, Totalled
<1>2. ASSUME IInv, [Next]_vars PROVE Failed
  <2> SUFFICES ASSUME NEW p \in Pages, NEW h \in Handlers, reader[p][h].at = "load",
                      reader'[p][h].at = "failed", ~Overlapped(reader[p][h])
               PROVE  FALSE
    OBVIOUS
  <2>1. EngineOK /\ ListOK /\ ReaderOK
    BY <1>2 DEF IInv
  <2>2. RangeAlerts(p, h)
    BY <1>2, <2>1, EndOfReading
  <2>3. PICK r, t : r = reader[p][h] /\ t = Done(r, "answered")
    OBVIOUS
  <2>4. reader' = [reader EXCEPT ![p][h] = t]
    BY <2>1, <2>2, <2>3, QuietRange DEF Change
  <2>5. t.at = "answered"
    BY <2>3 DEF Done, Unread
  <2> QED BY <2>1, <2>4, <2>5 DEF ReaderOK
<1>3. ASSUME IInv, [Next]_vars PROVE Died
  <2> SUFFICES ASSUME up' # up
               PROVE  \E p \in Pages, h \in Handlers :
                        reader[p][h].at = "load" /\ Overlapped(reader[p][h])
    OBVIOUS
  <2>1. EngineOK /\ ListOK /\ ReaderOK
    BY <1>3 DEF IInv
  <2>2. PICK p \in Pages, h \in Handlers : RangeAlerts(p, h)
    BY <1>3, EndOfProgram
  <2>3. reader[p][h].at = "load" /\ Overlapped(reader[p][h])
    BY <2>1, <2>2, QuietRange DEF RangeAlerts
  <2> QED BY <2>3
<1>4. IInv /\ [Next]_vars => Counted /\ Failed /\ Died
  BY <1>1, <1>2, <1>3
<1> QED BY <1>4, InvHolds, PTL DEF Spec, StatsNearTruth
=============================================================================
