-------------------------- MODULE EventStoreProofs --------------------------
(***************************************************************************)
(* Proofs about the four questions to the table of events, for every set   *)
(* of sources, observations and questions and every length of the slices.  *)
(***************************************************************************)
EXTENDS EventStore, FiniteSetTheorems, SequenceTheorems, WellFoundedInduction, TLAPS

Row == [what : Observed, time : 0..MaxTime, type : Kinds \ {"invalid_user"}]

(* The table: the type of a row is that of the description it came with,   *)
(* and no event is later than now.                                         *)
RowsOK ==
  /\ now \in 0..MaxTime
  /\ rows \in Seq(Row)
  /\ \A i \in 1..Len(rows) : /\ rows[i].time <= now
                             /\ rows[i].type = EventType(rows[i].what.kind)

Waiting == UNION {pending[s] : s \in Sources}

(* An event waits at the source that made it, and room is left for those   *)
(* that wait.                                                              *)
PendingOK ==
  /\ pending \in [Sources -> SUBSET [what : Observed, time : 0..now]]
  /\ \A s \in Sources : \A e \in pending[s] : e.what.source = s
  /\ IsFiniteSet(Waiting)
  /\ Len(rows) + Cardinality(Waiting) <= MaxEvents

Call == [stage : {"none", "select", "slices", "done"},
         query : Queries \cup {[ask |-> "none"]}, at : 0..MaxTime, seen : Nat,
         unread : SUBSET Int, count : Nat, limited : BOOLEAN,
         failed : BOOLEAN, found : SUBSET (Nat \ {0})]

(* A call that is not answered has said nothing yet.                       *)
CallOK ==
  /\ call \in Call
  /\ call.seen <= Len(rows)
  /\ call.stage # "none" => call.query \in Queries
  /\ call.stage \in {"select", "slices"} =>
       call.failed = FALSE /\ call.limited = FALSE /\ call.found = {}
  /\ call.stage = "slices" => call.query.ask = "window"

(* What WindowAnswerHeld and QuestionsAnswered say of a call c.            *)
Window(c, n) == Attempts(c.query.ip, c.at - c.query.within, c.at, n)
OfSlice(c, n, t) == {i \in Window(c, n) : Slice(rows[i]) = t}
Full(c, n) == \E t \in 0..MaxTime : Cardinality(OfSlice(c, n, t)) >= c.query.limit

(* The full slices of an accepted window are among those not read.         *)
Accepted(c) ==
  \A i \in Window(c, c.seen) :
    Cardinality(OfSlice(c, c.seen, Slice(rows[i]))) >= c.query.limit
      => Slice(rows[i]) \in c.unread

WindowHeld(c) ==
  IF c.limited THEN Full(c, Len(rows))
  ELSE c.count = Cardinality(Window(c, c.seen)) /\ Accepted(c)

SinceHeld(c) ==
  c.count = Cardinality(Attempts(c.query.ip, c.at - c.query.within, MaxTime, c.seen))

LoggedIn(c, i) ==
  rows[i].what.kind = "login_success" /\ rows[i].what.user = c.query.user

LoginHeld(c) ==
  IF c.found = {} THEN \A i \in 1..c.seen : ~LoggedIn(c, i)
  ELSE \A i \in c.found :
         /\ i <= c.seen /\ LoggedIn(c, i)
         /\ \A j \in 1..c.seen : LoggedIn(c, j) => rows[j].time <= rows[i].time

SubnetRows(c) ==
  {j \in 1..c.seen : /\ rows[j].what.ip \in c.query.hosts
                     /\ rows[j].time >= c.at - c.query.within}

SubnetHeld(c) ==
  c.count = Cardinality({rows[i].what.source : i \in SubnetRows(c)})

(* Between the two SELECTs of a window, the total of the first is known.   *)
Held(c) ==
  /\ c.stage = "slices" => c.count = Cardinality(Window(c, c.seen))
  /\ c.stage = "done" /\ c.failed = FALSE =>
       /\ c.query.ask = "window" => WindowHeld(c)
       /\ c.query.ask = "since" => SinceHeld(c)
       /\ c.query.ask = "login" => LoginHeld(c)
       /\ c.query.ask = "subnet" => SubnetHeld(c)

AnswerOK == \A c : c = call => Held(c)

(* The inductive invariant.                                                *)
IInv == RowsOK /\ PendingOK /\ CallOK /\ AnswerOK

-----------------------------------------------------------------------------
(* Rows and their selections. *)

LEMMA RowFields ==
  ASSUME RowsOK, NEW i \in 1..Len(rows)
  PROVE  /\ rows[i] \in Row /\ rows[i].what \in Observed
         /\ rows[i].time \in 0..now /\ now \in 0..MaxTime
         /\ rows[i].type = EventType(rows[i].what.kind)
         /\ rows[i].what.kind \in Kinds
<1>1. rows[i] \in Row
  BY DEF RowsOK
<1>2. rows[i].what \in Observed /\ rows[i].time \in 0..MaxTime
  BY <1>1 DEF Row
<1>3. rows[i].time <= now /\ now \in 0..MaxTime
  BY DEF RowsOK
<1>4. rows[i].type = EventType(rows[i].what.kind)
  BY DEF RowsOK
<1> QED BY <1>1, <1>2, <1>3, <1>4, NumbersAssumption, ObservedAssumption

(* The type that the questions ask for is that of both kinds of failure.   *)
LEMMA FailureType ==
  ASSUME RowsOK, NEW i \in 1..Len(rows)
  PROVE  /\ rows[i].type = "login_failure" <=>
              rows[i].what.kind \in {"login_failure", "invalid_user"}
         /\ rows[i].type = "login_success" <=> rows[i].what.kind = "login_success"
BY RowFields DEF EventType, Kinds

LEMMA SelectWindow ==
  ASSUME RowsOK, NEW c, c = call
  PROVE  Select(InWindow) = Window(c, Len(rows))
BY FailureType DEF Select, InWindow, IsFailure, Attempts, Window

LEMMA SliceOfRow ==
  ASSUME RowsOK, NEW i \in 1..Len(rows)
  PROVE  /\ Slice(rows[i]) \in 0..MaxTime
         /\ SubWindow * Slice(rows[i]) <= rows[i].time
         /\ rows[i].time < SubWindow * Slice(rows[i]) + SubWindow
<1>1. PICK t \in 0..MaxTime : t = rows[i].time
  BY RowFields, NumbersAssumption
<1>2. SubWindow \in Nat \ {0} /\ MaxTime \in Nat
  BY NumbersAssumption
<1>3. PICK q : q = t \div SubWindow
  OBVIOUS
<1>4. /\ q \in 0..t
      /\ SubWindow * q <= t /\ t < SubWindow * q + SubWindow
  BY <1>2, <1>3
<1> QED BY <1>1, <1>2, <1>3, <1>4 DEF Slice

LEMMA FiniteAttempts ==
  ASSUME NEW ip, NEW x, NEW y, NEW n \in Nat
  PROVE  /\ IsFiniteSet(Attempts(ip, x, y, n))
         /\ Cardinality(Attempts(ip, x, y, n)) \in Nat
<1>1. IsFiniteSet(1..n)
  BY FS_Interval
<1>2. Attempts(ip, x, y, n) \subseteq 1..n
  BY DEF Attempts
<1> QED BY <1>1, <1>2, FS_Subset, FS_CardinalityType

LEMMA FiniteSlice ==
  ASSUME NEW c, NEW n \in Nat, NEW t
  PROVE  IsFiniteSet(OfSlice(c, n, t)) /\ Cardinality(OfSlice(c, n, t)) \in Nat
<1>1. IsFiniteSet(Window(c, n))
  BY FiniteAttempts DEF Window
<1>2. OfSlice(c, n, t) \subseteq Window(c, n)
  BY DEF OfSlice
<1> QED BY <1>1, <1>2, FS_Subset, FS_CardinalityType

-----------------------------------------------------------------------------
(* An answer stays right: rows are only added. *)

Grown == /\ Len(rows) \in Nat /\ Len(rows') \in Nat /\ Len(rows) <= Len(rows')
         /\ \A i \in 1..Len(rows) : rows'[i] = rows[i]

LEMMA AttemptsKept ==
  ASSUME Grown, NEW ip, NEW x, NEW y, NEW n \in 0..Len(rows)
  PROVE  Attempts(ip, x, y, n)' = Attempts(ip, x, y, n)
BY DEF Grown, Attempts

LEMMA AcceptedKept ==
  ASSUME Grown, NEW c, c.seen \in 0..Len(rows), Accepted(c)
  PROVE  Accepted(c)'
<1>1. Window(c, c.seen)' = Window(c, c.seen)
  BY AttemptsKept DEF Window
<1>2. \A i \in Window(c, c.seen) : rows'[i] = rows[i]
  BY DEF Window, Attempts, Grown
<1>3. \A t : OfSlice(c, c.seen, t)' = OfSlice(c, c.seen, t)
  BY <1>1, <1>2 DEF OfSlice, Slice
<1>4. \A i \in Window(c, c.seen) : Slice(rows'[i]) = Slice(rows[i])
  BY <1>2
<1> QED BY <1>1, <1>3, <1>4 DEF Accepted, Slice

LEMMA FullGrows ==
  ASSUME Grown, NEW c, c.query.limit \in Int, Full(c, Len(rows))
  PROVE  Full(c, Len(rows))'
<1>1. PICK t \in 0..MaxTime : Cardinality(OfSlice(c, Len(rows), t)) >= c.query.limit
  BY DEF Full
<1>2. OfSlice(c, Len(rows), t) \subseteq OfSlice(c, Len(rows), t)'
  BY DEF Grown, OfSlice, Window, Attempts, Slice
<1>3. PICK S : S = OfSlice(c, Len(rows), t)'
  OBVIOUS
<1>4. S \subseteq 1..Len(rows')
  BY <1>3 DEF OfSlice, Window, Attempts
<1>5. IsFiniteSet(S) /\ Cardinality(S) \in Nat
  <2>1. PICK n \in Nat : n = Len(rows')
    BY DEF Grown
  <2>2. IsFiniteSet(1..n)
    BY FS_Interval
  <2> QED BY <1>4, <2>1, <2>2, FS_Subset, FS_CardinalityType
<1>6. Cardinality(OfSlice(c, Len(rows), t)) \in Nat
  BY FiniteSlice DEF Grown
<1>7. Cardinality(OfSlice(c, Len(rows), t)) <= Cardinality(S)
  BY <1>2, <1>3, <1>5, FS_Subset
<1>8. Cardinality(S) >= c.query.limit
  BY <1>1, <1>5, <1>6, <1>7
<1>9. \E u \in 0..MaxTime : Cardinality(OfSlice(c, Len(rows), u)') >= c.query.limit
  BY <1>3, <1>8
<1> QED BY <1>9 DEF Full

LEMMA HeldKept ==
  ASSUME Grown, NEW c, c.seen \in 0..Len(rows), c.found \subseteq Nat \ {0}, Held(c),
         c.query.ask = "window" => c.query.limit \in Int
  PROVE  Held(c)'
<1> DEFINE n == c.seen
<1>1. n \in 0..Len(rows) /\ \A i \in 1..n : rows'[i] = rows[i]
  BY DEF Grown
<1>2. Window(c, c.seen)' = Window(c, c.seen)
  BY AttemptsKept DEF Window
<1>3. c.query.ask = "window" /\ WindowHeld(c) => WindowHeld(c)'
  BY <1>2, AcceptedKept, FullGrows DEF WindowHeld
<1>4. SinceHeld(c) => SinceHeld(c)'
  BY AttemptsKept DEF SinceHeld
<1>5. LoginHeld(c) => LoginHeld(c)'
  <2> SUFFICES ASSUME LoginHeld(c) PROVE LoginHeld(c)'
    OBVIOUS
  <2>1. \A i \in 1..c.seen : LoggedIn(c, i)' <=> LoggedIn(c, i)
    BY <1>1 DEF LoggedIn
  <2>2. CASE c.found = {}
    BY <2>1, <2>2 DEF LoginHeld
  <2>3. CASE c.found # {}
    <3>1. ASSUME NEW i \in c.found
          PROVE  /\ i <= c.seen /\ LoggedIn(c, i)'
                 /\ \A j \in 1..c.seen :
                      LoggedIn(c, j)' => rows'[j].time <= rows'[i].time
      <4>1. i \in 1..c.seen /\ LoggedIn(c, i)
        BY <2>3 DEF LoginHeld
      <4>2. \A j \in 1..c.seen : LoggedIn(c, j) => rows[j].time <= rows[i].time
        BY <2>3 DEF LoginHeld
      <4> QED BY <1>1, <2>1, <4>1, <4>2
    <3> QED BY <2>3, <3>1 DEF LoginHeld
  <2> QED BY <2>2, <2>3
<1>6. SubnetHeld(c) => SubnetHeld(c)'
  <2>1. SubnetRows(c)' = SubnetRows(c)
    BY <1>1 DEF SubnetRows
  <2>2. SubnetRows(c) \subseteq 1..c.seen
    BY DEF SubnetRows
  <2> QED BY <1>1, <2>1, <2>2 DEF SubnetHeld
<1> QED BY <1>2, <1>3, <1>4, <1>5, <1>6 DEF Held

-----------------------------------------------------------------------------
(* A newest login exists. *)

LEMMA NewestExists ==
  ASSUME RowsOK, NEW S \in SUBSET (1..Len(rows)), S # {}
  PROVE  \E i \in S : \A j \in S : rows[j].time <= rows[i].time
<1> DEFINE R == {ss \in Nat \X Nat : ss[1] < ss[2]}
           T == {MaxTime - rows[i].time : i \in S}
<1>1. \A i \in S : rows[i].time \in 0..MaxTime
  BY RowFields, NumbersAssumption
<1>2. T \subseteq Nat /\ T # {}
  <2>1. MaxTime \in Nat /\ \A t \in 0..MaxTime : MaxTime - t \in Nat
    BY NumbersAssumption
  <2>2. \A i \in S : MaxTime - rows[i].time \in Nat
    BY <1>1, <2>1
  <2> QED BY <2>2
<1>3. PICK x \in T : \A y \in T : <<y, x>> \notin R
  <2>1. IsWellFoundedOn(R, Nat)
    BY NatLessThanWellFounded DEF OpToRel
  <2> HIDE DEF R, T
  <2> QED BY <1>2, <2>1, WFMin
<1>4. ASSUME NEW y \in T PROVE x <= y
  <2>1. x \in Nat /\ y \in Nat /\ <<y, x>> \notin R
    BY <1>2, <1>3
  <2>2. ~(y < x)
    <3>1. <<y, x>> \in Nat \X Nat /\ <<y, x>>[1] = y /\ <<y, x>>[2] = x
      BY <2>1
    <3> QED BY <2>1, <3>1
  <2> QED BY <2>1, <2>2
<1>5. PICK i \in S : x = MaxTime - rows[i].time
  OBVIOUS
<1>6. ASSUME NEW j \in S PROVE rows[j].time <= rows[i].time
  <2>1. x <= MaxTime - rows[j].time
    BY <1>4
  <2> QED BY <1>1, <1>5, <2>1, NumbersAssumption
<1> QED BY <1>6

-----------------------------------------------------------------------------
(* The steps. *)

LEMMA CallFields ==
  ASSUME CallOK
  PROVE  /\ call.seen \in Nat /\ call.count \in Nat /\ call.at \in 0..MaxTime
         /\ call.found \in SUBSET (Nat \ {0})
         /\ call.stage \in {"none", "select", "slices", "done"}
         /\ call.limited \in BOOLEAN /\ call.failed \in BOOLEAN
         /\ call.query.ask = "window" => call.query.limit \in Int
<1>1. call.query \in Queries \cup {[ask |-> "none"]}
  BY DEF CallOK, Call
<1>2. call.query.ask = "window" => call.query.limit \in Int
  BY <1>1, QueriesAssumption
<1> QED BY <1>2 DEF CallOK, Call

(* Every step but those that answer leaves the answer as it is.            *)
LEMMA AnswerKept ==
  ASSUME RowsOK, CallOK, AnswerOK, Grown, call' = call
  PROVE  AnswerOK'
<1> SUFFICES ASSUME NEW c, c = call PROVE Held(c)'
  BY DEF AnswerOK
<1>1. c.seen \in 0..Len(rows)
  <2>1. call.seen \in Nat /\ call.seen <= Len(rows) /\ Len(rows) \in Nat
    BY CallFields DEF CallOK, Grown
  <2> QED BY <2>1
<1>2. Held(c) /\ c.found \subseteq Nat \ {0}
  BY CallFields DEF AnswerOK
<1>3. c.query.ask = "window" => c.query.limit \in Int
  BY CallFields
<1> QED BY <1>1, <1>2, <1>3, HeldKept

LEMMA RowsGrown ==
  ASSUME RowsOK, rows' = rows
  PROVE  Grown
BY DEF Grown, RowsOK

LEMMA TickInv ==
  ASSUME IInv, Tick
  PROVE  IInv'
<1>1. /\ Grown /\ UNCHANGED <<pending, rows, call>>
      /\ now' = now + 1 /\ now' \in 0..MaxTime
  BY RowsGrown, NumbersAssumption DEF Tick, IInv, RowsOK
<1>2. RowsOK'
  <2>1. \A i \in 1..Len(rows) : rows[i].time \in 0..now /\ now \in 0..MaxTime
    BY RowFields DEF IInv
  <2> QED BY <1>1, <2>1, NumbersAssumption DEF IInv, RowsOK
<1>3. PendingOK'
  <2>1. 0..now \subseteq 0..now'
    BY <1>1, NumbersAssumption DEF IInv, RowsOK
  <2>2. pending' \in [Sources -> SUBSET [what : Observed, time : 0..now']]
    BY <1>1, <2>1 DEF IInv, PendingOK
  <2> QED BY <1>1, <2>2 DEF IInv, PendingOK, Waiting
<1>4. CallOK' /\ AnswerOK'
  BY <1>1, AnswerKept DEF IInv, CallOK
<1> QED BY <1>2, <1>3, <1>4 DEF IInv

LEMMA ObserveInv ==
  ASSUME IInv, NEW o \in Observed, Observe(o)
  PROVE  IInv'
<1> DEFINE e == [what |-> o, time |-> now]
<1>1. Grown /\ UNCHANGED <<now, rows, call>>
  BY RowsGrown DEF Observe, IInv
<1>2. RowsOK' /\ CallOK' /\ AnswerOK'
  BY <1>1, AnswerKept DEF IInv, CallOK, RowsOK
<1>3. /\ o.source \in Sources /\ pending[o.source] = {}
      /\ pending' = [pending EXCEPT ![o.source] = {e}]
      /\ e \in [what : Observed, time : 0..now]
      /\ Len(rows) \in Nat /\ MaxEvents \in Nat
  BY ObservedAssumption, NumbersAssumption DEF Observe, IInv, RowsOK
<1>4. e.what.source = o.source
  OBVIOUS
<1> HIDE DEF e
<1>5. Waiting' = Waiting \cup {e}
  BY <1>3 DEF IInv, PendingOK, Waiting
<1>6. /\ IsFiniteSet(Waiting') /\ Cardinality(Waiting) \in Nat
      /\ Cardinality(Waiting') \in Nat
      /\ Cardinality(Waiting') <= Cardinality(Waiting) + 1
  BY <1>5, FS_AddElement, FS_CardinalityType DEF IInv, PendingOK
<1>7. Len(rows) + Cardinality(Waiting) < MaxEvents
  BY DEF Observe, Waiting
<1>8. Len(rows') + Cardinality(Waiting') <= MaxEvents
  BY <1>1, <1>3, <1>6, <1>7
<1>9. /\ pending' \in [Sources -> SUBSET [what : Observed, time : 0..now]]
      /\ \A s \in Sources : \A x \in pending'[s] : x.what.source = s
  BY <1>3, <1>4 DEF IInv, PendingOK
<1> QED BY <1>1, <1>2, <1>6, <1>8, <1>9 DEF IInv, PendingOK

LEMMA InsertEventInv ==
  ASSUME IInv, NEW s \in Sources, InsertEvent(s)
  PROVE  IInv'
<1>1. PICK e \in pending[s] :
        /\ pending' = [pending EXCEPT ![s] = {}]
        /\ rows' \in {rows, Append(rows, [time |-> e.time, what |-> e.what,
                                         type |-> EventType(e.what.kind)])}
        /\ UNCHANGED <<now, call>>
  BY DEF InsertEvent
<1>2. /\ e \in [what : Observed, time : 0..now] /\ now \in 0..MaxTime
      /\ rows \in Seq(Row) /\ Len(rows) \in Nat
  BY DEF IInv, PendingOK, RowsOK
<1>3. PICK row : row = [time |-> e.time, what |-> e.what,
                        type |-> EventType(e.what.kind)]
  OBVIOUS
<1>4. /\ row \in Row /\ row.time <= now /\ row.type = EventType(row.what.kind)
  BY <1>2, <1>3, ObservedAssumption, NumbersAssumption DEF Row, EventType, Kinds
<1>5. /\ Grown /\ rows' \in Seq(Row)
      /\ \A i \in 1..Len(rows') :
           rows'[i] = row \/ (i \in 1..Len(rows) /\ rows'[i] = rows[i])
      /\ Len(rows') <= Len(rows) + 1
  <2>1. CASE rows' = rows
    BY <1>2, <2>1 DEF Grown
  <2>2. CASE rows' = Append(rows, row)
    BY <1>2, <1>4, <2>2 DEF Grown
  <2> QED BY <1>1, <1>3, <2>1, <2>2
<1>6. RowsOK'
  BY <1>1, <1>2, <1>4, <1>5 DEF RowsOK, IInv
<1>7. CallOK' /\ AnswerOK'
  <2>1. call.seen \in Nat /\ call.seen <= Len(rows) /\ call' = call
    BY <1>1, CallFields DEF IInv, CallOK
  <2>2. call.seen <= Len(rows')
    BY <1>5, <2>1 DEF Grown
  <2>3. CallOK'
    BY <2>1, <2>2 DEF IInv, CallOK
  <2> QED BY <1>5, <2>1, <2>3, AnswerKept DEF IInv
<1>8. PendingOK'
  <2>1. Waiting' = Waiting \ pending[s]
    BY <1>1 DEF IInv, PendingOK, Waiting
  <2>2. IsFiniteSet(Waiting) /\ e \in Waiting
    BY <1>1 DEF IInv, PendingOK, Waiting
  <2>3. /\ IsFiniteSet(Waiting \ {e})
        /\ Cardinality(Waiting \ {e}) = Cardinality(Waiting) - 1
        /\ Cardinality(Waiting) \in Nat
    BY <2>2, FS_RemoveElement, FS_CardinalityType
  <2>4. /\ IsFiniteSet(Waiting') /\ Cardinality(Waiting') \in Nat
        /\ Cardinality(Waiting') <= Cardinality(Waiting \ {e})
    <3>1. Waiting' \subseteq Waiting \ {e}
      BY <1>1, <2>1
    <3> QED BY <2>3, <3>1, FS_Subset, FS_CardinalityType
  <2>5. Len(rows') + Cardinality(Waiting') <= MaxEvents
    BY <1>2, <1>5, <2>3, <2>4, NumbersAssumption DEF IInv, PendingOK, Grown
  <2>6. /\ pending' \in [Sources -> SUBSET [what : Observed, time : 0..now]]
        /\ \A t \in Sources : \A x \in pending'[t] : x.what.source = t
    BY <1>1 DEF IInv, PendingOK
  <2> QED BY <1>1, <2>4, <2>5, <2>6 DEF PendingOK
<1> QED BY <1>6, <1>7, <1>8 DEF IInv

(* A step of the call, to one whose answer, if it has one, is right.       *)
LEMMA CallInv ==
  ASSUME IInv, UNCHANGED <<now, pending, rows>>, NEW c \in Call, call' = c,
         c.seen <= Len(rows), c.stage # "none", c.query \in Queries,
         c.stage \in {"select", "slices"} =>
           c.failed = FALSE /\ c.limited = FALSE /\ c.found = {},
         c.stage = "slices" => c.query.ask = "window",
         Held(c)
  PROVE  IInv'
<1>1. Grown
  BY RowsGrown DEF IInv
<1>2. c.seen \in 0..Len(rows) /\ c.found \subseteq Nat \ {0}
  BY <1>1 DEF Call, Grown
<1>3. c.query.ask = "window" => c.query.limit \in Int
  BY QueriesAssumption
<1>4. Held(c)'
  BY <1>1, <1>2, <1>3, HeldKept
<1>5. AnswerOK'
  BY <1>4 DEF AnswerOK
<1>6. CallOK'
  BY DEF CallOK
<1>7. RowsOK' /\ PendingOK'
  BY DEF IInv, RowsOK, PendingOK, Waiting
<1> QED BY <1>5, <1>6, <1>7 DEF IInv

LEMMA AskInv ==
  ASSUME IInv, NEW q \in Queries, Ask(q)
  PROVE  IInv'
<1>1. PICK c : c = [NoCall EXCEPT !.stage = "select", !.query = q, !.at = now]
  OBVIOUS
<1>2. now \in 0..MaxTime /\ Len(rows) \in Nat
  BY DEF IInv, RowsOK
<1>3. /\ c \in Call /\ c.stage = "select" /\ c.seen = 0 /\ c.query = q
      /\ c.failed = FALSE /\ c.limited = FALSE /\ c.found = {}
  BY <1>1, <1>2 DEF NoCall, Call
<1>4. Held(c)
  BY <1>3 DEF Held
<1>5. call' = c /\ UNCHANGED <<now, pending, rows>>
  BY <1>1 DEF Ask
<1>6. /\ c.seen <= Len(rows) /\ c.stage # "none" /\ c.stage # "slices"
      /\ c.query \in Queries
  BY <1>2, <1>3
<1> QED BY <1>3, <1>4, <1>5, <1>6, CallInv

(* The last SELECT of a call gives it its answer.                          *)
LEMMA AnswerInv ==
  ASSUME IInv, NEW asked, Asked(asked), NEW c \in Call,
         c.query = call.query, c.at = call.at, c.seen = Len(rows), c.stage = "done",
         Held(c), call' = c, UNCHANGED <<now, pending, rows>>
  PROVE  IInv'
<1>1. call.query \in Queries
  <2>1. call.stage # "none"
    BY DEF Asked
  <2> QED BY <2>1 DEF IInv, CallOK
<1>2. Len(rows) \in Nat
  BY DEF IInv, RowsOK
<1>3. /\ c.seen <= Len(rows) /\ c.query \in Queries
      /\ c.stage \notin {"none", "select", "slices"}
  BY <1>1, <1>2
<1> QED BY <1>3, CallInv

LEMMA Counted ==
  ASSUME NEW c \in Call, NEW n \in Nat, NEW d, d = [c EXCEPT !.count = n]
  PROVE  /\ d \in Call /\ d.stage = c.stage /\ d.seen = c.seen
         /\ d.query = c.query /\ d.at = c.at /\ d.count = n
         /\ d.limited = c.limited /\ d.failed = c.failed /\ d.found = c.found
BY DEF Call

LEMMA Located ==
  ASSUME NEW c \in Call, NEW i \in Nat \ {0}, NEW d, d = [c EXCEPT !.found = {i}]
  PROVE  /\ d \in Call /\ d.stage = c.stage /\ d.seen = c.seen
         /\ d.query = c.query /\ d.at = c.at /\ d.count = c.count
         /\ d.limited = c.limited /\ d.failed = c.failed /\ d.found = {i}
BY DEF Call

LEMMA FiniteRows ==
  ASSUME RowsOK, NEW S \in SUBSET (1..Len(rows))
  PROVE  IsFiniteSet(S) /\ Cardinality(S) \in Nat
<1>1. Len(rows) \in Nat
  BY DEF RowsOK
<1>2. IsFiniteSet(1..Len(rows))
  BY <1>1, FS_Interval
<1> QED BY <1>2, FS_Subset, FS_CardinalityType

LEMMA SinceInv ==
  ASSUME IInv, CountFailuresSince
  PROVE  IInv'
<1> DEFINE InTime(row) == /\ IsFailure(row, call.query.ip)
                          /\ row.time >= call.at - call.query.within
           S == {i \in 1..Len(rows) : InTime(rows[i])}
<1>1. /\ call' = [[call EXCEPT !.count = Cardinality(S)]
                     EXCEPT !.stage = "done", !.seen = Len(rows)]
      /\ UNCHANGED <<now, pending, rows>> /\ Asked("since")
  BY DEF CountFailuresSince, Answer, Select
<1>2. Cardinality(S) \in Nat /\ Len(rows) \in Nat
  BY FiniteRows DEF IInv, RowsOK
<1>3. S = Attempts(call.query.ip, call.at - call.query.within, MaxTime, Len(rows))
  <2>1. ASSUME NEW i \in 1..Len(rows)
        PROVE  InTime(rows[i]) <=>
                 /\ rows[i].what.ip = call.query.ip
                 /\ call.at - call.query.within <= rows[i].time
                 /\ rows[i].time <= MaxTime
                 /\ rows[i].what.kind \in {"login_failure", "invalid_user"}
    <3>1. rows[i].time \in 0..now /\ now \in 0..MaxTime
      BY RowFields DEF IInv
    <3>2. rows[i].time \in Int /\ rows[i].time <= MaxTime
      BY <3>1, NumbersAssumption
    <3>3. call.at - call.query.within \in Int
      <4>1. call.query \in Queries /\ call.query.ask = "since" /\ call.at \in 0..MaxTime
        BY <1>1, CallFields DEF IInv, CallOK, Asked
      <4>2. call.query.within \in Int
        BY <4>1, QueriesAssumption
      <4> QED BY <4>1, <4>2, NumbersAssumption
    <3> QED BY <3>2, <3>3, FailureType DEF IsFailure, IInv
  <2> QED BY <2>1 DEF Attempts
<1> HIDE DEF S
<1>4. PICK k : k = [call EXCEPT !.count = Cardinality(S)]
  OBVIOUS
<1>5. PICK c : c = [k EXCEPT !.stage = "done", !.seen = Len(rows)]
  OBVIOUS
<1>6. /\ k \in Call /\ k.count = Cardinality(S)
      /\ k.query = call.query /\ k.at = call.at
  BY <1>2, <1>4, Counted DEF IInv, CallOK
<1>7. /\ c \in Call /\ c.query = call.query /\ c.at = call.at
      /\ c.seen = Len(rows) /\ c.stage = "done" /\ c.count = Cardinality(S)
  BY <1>2, <1>5, <1>6 DEF Call
<1>8. Held(c)
  BY <1>1, <1>3, <1>7 DEF Held, SinceHeld, Asked
<1>9. call' = c
  BY <1>1, <1>4, <1>5
<1> QED BY <1>1, <1>7, <1>8, <1>9, AnswerInv

LEMMA LoginInv ==
  ASSUME IInv, GetLastSuccessfulLogin
  PROVE  IInv'
<1> DEFINE S == {i \in 1..Len(rows) : LoggedIn(call, i)}
           newest == {i \in S : \A j \in S : rows[j].time <= rows[i].time}
<1>1. /\ UNCHANGED <<now, pending, rows>> /\ Asked("login")
      /\ \/ newest = {} /\ call' = [call EXCEPT !.stage = "done", !.seen = Len(rows)]
         \/ \E i \in newest : call' = [[call EXCEPT !.found = {i}]
                                        EXCEPT !.stage = "done", !.seen = Len(rows)]
  <2>1. {i \in 1..Len(rows) : /\ rows[i].what.user = call.query.user
                              /\ rows[i].type = "login_success"} = S
    BY FailureType DEF LoggedIn, IInv
  <2> QED BY <2>1 DEF GetLastSuccessfulLogin, Answer, Select
<1>2. newest = {} => S = {}
  <2>1. RowsOK /\ S \in SUBSET (1..Len(rows))
    BY DEF IInv
  <2>2. newest # {} <=> \E i \in S : \A j \in S : rows[j].time <= rows[i].time
    OBVIOUS
  <2>3. PICK U : U = S
    OBVIOUS
  <2>4. U # {} => \E i \in U : \A j \in U : rows[j].time <= rows[i].time
    <3>1. RowsOK /\ U \in SUBSET (1..Len(rows))
      BY <2>1, <2>3
    <3> HIDE DEF S, newest
    <3> QED BY <3>1, NewestExists
  <2> QED BY <2>2, <2>3, <2>4
<1>3. Len(rows) \in Nat /\ call.found = {} /\ call \in Call
  <2>1. call.stage = "select"
    BY DEF GetLastSuccessfulLogin, Asked
  <2> HIDE DEF newest
  <2> QED BY <2>1 DEF IInv, RowsOK, CallOK
<1> HIDE DEF newest
<1>4. CASE newest = {} /\ call' = [call EXCEPT !.stage = "done", !.seen = Len(rows)]
  <2>1. PICK c : c = [call EXCEPT !.stage = "done", !.seen = Len(rows)]
    OBVIOUS
  <2>2. /\ c \in Call /\ c.query = call.query /\ c.at = call.at
        /\ c.seen = Len(rows) /\ c.stage = "done" /\ c.found = {}
    BY <1>3, <2>1 DEF Call
  <2>3. \A i \in 1..c.seen : ~LoggedIn(c, i)
    BY <1>2, <1>4, <2>2 DEF LoggedIn
  <2>4. Held(c)
    BY <1>1, <2>2, <2>3 DEF Held, LoginHeld, Asked
  <2> QED BY <1>1, <1>4, <2>1, <2>2, <2>4, AnswerInv
<1>5. ASSUME NEW i \in newest, call' = [[call EXCEPT !.found = {i}]
                                EXCEPT !.stage = "done", !.seen = Len(rows)]
      PROVE  IInv'
  <2>1. i \in 1..Len(rows) /\ LoggedIn(call, i)
        /\ \A j \in S : rows[j].time <= rows[i].time
    BY <1>3 DEF newest
  <2>2. PICK k : k = [call EXCEPT !.found = {i}]
    OBVIOUS
  <2>3. PICK c : c = [k EXCEPT !.stage = "done", !.seen = Len(rows)]
    OBVIOUS
  <2>4. k \in Call /\ k.query = call.query /\ k.at = call.at /\ k.found = {i}
    <3>1. i \in Nat \ {0}
      BY <1>3, <2>1
    <3> QED BY <1>3, <2>2, <3>1, Located
  <2>5. /\ c \in Call /\ c.query = call.query /\ c.at = call.at
        /\ c.seen = Len(rows) /\ c.stage = "done" /\ c.found = {i}
    BY <1>3, <2>3, <2>4 DEF Call
  <2>6. LoginHeld(c)
    <3>1. i <= c.seen /\ LoggedIn(c, i)
      BY <1>3, <2>1, <2>5 DEF LoggedIn
    <3>2. \A j \in 1..c.seen : LoggedIn(c, j) => rows[j].time <= rows[i].time
      BY <2>1, <2>5 DEF LoggedIn
    <3> QED BY <2>5, <3>1, <3>2 DEF LoginHeld
  <2>7. Held(c)
    BY <1>1, <2>5, <2>6 DEF Held, Asked
  <2> QED BY <1>1, <1>5, <2>2, <2>3, <2>5, <2>7, AnswerInv
<1> QED BY <1>1, <1>4, <1>5

(* The provers take no literal for a member of STRING. *)
Characters == STRING \cup {"."}

(* The pattern of a subnet fits the addresses that begin with its numbers. *)
LEMMA PrefixBelongs ==
  ASSUME NEW subnet \in Seq(Characters) \ {<< >>}, ~Contains(subnet, "/"),
         NEW ip \in Seq(Characters)
  PROVE  IsPrefix(Prefix(subnet), ip) <=> Belongs(ip, subnet)
<1>1. /\ Len(subnet) \in Nat \ {0} /\ Len(ip) \in Nat
      /\ Last(subnet) = subnet[Len(subnet)]
  BY EmptySeq DEF Last
<1>2. ASSUME NEW s \in Seq(Characters)
      PROVE  IsPrefix(s, ip) <=>
               Len(s) <= Len(ip) /\ \A i \in 1..Len(s) : s[i] = ip[i]
  <2>1. /\ Len(s) \in Nat /\ SubSeq(s, 1, Len(s)) = s
    OBVIOUS
  <2>2. ASSUME Len(s) <= Len(ip)
        PROVE  /\ SubSeq(ip, 1, Len(s)) \in Seq(Characters)
               /\ Len(SubSeq(ip, 1, Len(s))) = Len(s)
               /\ \A i \in 1..Len(s) : SubSeq(ip, 1, Len(s))[i] = ip[i]
    BY <1>1, <2>1, <2>2
  <2>3. ASSUME Len(s) <= Len(ip), \A i \in 1..Len(s) : s[i] = ip[i]
        PROVE  SubSeq(ip, 1, Len(s)) = s
    BY <2>1, <2>2, <2>3
  <2>4. ASSUME Len(s) <= Len(ip), SubSeq(ip, 1, Len(s)) = s
        PROVE  \A i \in 1..Len(s) : s[i] = ip[i]
    BY <2>1, <2>2, <2>4
  <2> QED BY <2>1, <2>3, <2>4 DEF IsPrefix
<1>3. CASE Last(subnet) = "."
  <2>1. Prefix(subnet) = subnet
    BY <1>3 DEF Prefix
  <2>2. PICK n \in Nat : Len(subnet) = n + 1
    BY <1>1
  <2>3. subnet[n + 1] = "."
    BY <1>1, <1>3, <2>2
  <2>4. Belongs(ip, subnet) <=>
          /\ n < Len(ip) /\ ip[n + 1] = "." /\ \A i \in 1..n : ip[i] = subnet[i]
    BY <1>3, <2>2 DEF Belongs
  <2>5. (\A i \in 1..(n + 1) : subnet[i] = ip[i]) <=>
          ip[n + 1] = "." /\ \A i \in 1..n : ip[i] = subnet[i]
    BY <2>3
  <2> QED BY <1>1, <1>2, <2>1, <2>2, <2>4, <2>5
<1>4. CASE Last(subnet) # "."
  <2>1. PICK n \in Nat : n = Len(subnet)
    BY <1>1
  <2>2. PICK s : s = Append(subnet, ".")
    OBVIOUS
  <2>3. /\ Prefix(subnet) = s /\ s \in Seq(Characters) /\ Len(s) = n + 1
        /\ s[n + 1] = "." /\ \A i \in 1..n : s[i] = subnet[i]
    <3>1. Prefix(subnet) = s
      BY <1>4, <2>2 DEF Prefix
    <3>2. "." \in Characters
      BY DEF Characters
    <3> QED BY <2>1, <2>2, <3>1, <3>2, AppendProperties
  <2>4. Belongs(ip, subnet) <=>
          /\ n < Len(ip) /\ ip[n + 1] = "." /\ \A i \in 1..n : ip[i] = subnet[i]
    BY <1>4, <2>1 DEF Belongs
  <2>5. (\A i \in 1..(n + 1) : s[i] = ip[i]) <=>
          ip[n + 1] = "." /\ \A i \in 1..n : ip[i] = subnet[i]
    BY <2>3
  <2> QED BY <1>1, <1>2, <2>1, <2>3, <2>4, <2>5
<1> QED BY <1>3, <1>4

LEMMA SubnetInv ==
  ASSUME IInv, GetDistinctServicesForSubnet
  PROVE  IInv'
<1> DEFINE In(row) == /\ IsPrefix(Prefix(call.query.subnet), row.what.ip)
                      /\ row.time >= call.at - call.query.within
           S == {i \in 1..Len(rows) : In(rows[i])}
           found == {rows[i].what.source : i \in S}
<1>1. /\ call' = [[call EXCEPT !.count = Cardinality(found)]
                     EXCEPT !.stage = "done", !.seen = Len(rows)]
      /\ UNCHANGED <<now, pending, rows>> /\ Asked("subnet")
  BY DEF GetDistinctServicesForSubnet, Answer, Select
<1>2. /\ call.query \in Queries /\ call.query.ask = "subnet" /\ call \in Call
      /\ Len(rows) \in Nat
  BY <1>1 DEF IInv, CallOK, Asked, RowsOK
<1>3. S = {j \in 1..Len(rows) : /\ rows[j].what.ip \in call.query.hosts
                                /\ rows[j].time >= call.at - call.query.within}
  <2>1. ASSUME NEW i \in 1..Len(rows)
        PROVE  IsPrefix(Prefix(call.query.subnet), rows[i].what.ip) <=>
                 rows[i].what.ip \in call.query.hosts
    <3>1. PICK o \in Observed : o = rows[i].what
      BY RowFields DEF IInv
    <3>2. PICK q \in Queries : q = call.query
      BY <1>2
    <3>3. /\ q.subnet \in Seq(Characters) \ {<< >>} /\ ~Contains(q.subnet, "/")
          /\ o.ip \in Seq(Characters) /\ (o.ip \in q.hosts <=> Belongs(o.ip, q.subnet))
      BY <1>2, <3>2, QueriesAssumption, ObservedAssumption DEF Characters
    <3>4. IsPrefix(Prefix(q.subnet), o.ip) <=> o.ip \in q.hosts
      BY <3>3, PrefixBelongs
    <3> QED BY <3>1, <3>2, <3>4
  <2> QED BY <2>1
<1>4. Cardinality(found) \in Nat
  <2>1. IsFiniteSet(S)
    BY FiniteRows DEF IInv
  <2>2. IsFiniteSet(found)
    <3> DEFINE f == [i \in S |-> rows[i].what.source]
    <3>1. f \in Surjection(S, found)
      BY DEF Surjection
    <3> QED BY <2>1, <3>1, FS_Surjection
  <2> QED BY <2>2, FS_CardinalityType
<1>5. PICK k : k = [call EXCEPT !.count = Cardinality(found)]
  OBVIOUS
<1>6. PICK c : c = [k EXCEPT !.stage = "done", !.seen = Len(rows)]
  OBVIOUS
<1>7. PICK n : n = Cardinality(found)
  OBVIOUS
<1>8. call' = c
  BY <1>1, <1>5, <1>6
<1> HIDE DEF found
<1>9. k \in Call /\ k.count = n /\ k.query = call.query /\ k.at = call.at
  BY <1>2, <1>4, <1>5, <1>7, Counted
<1>10. /\ c \in Call /\ c.query = call.query /\ c.at = call.at
       /\ c.seen = Len(rows) /\ c.stage = "done" /\ c.count = n
  BY <1>2, <1>6, <1>9 DEF Call
<1>11. SubnetRows(c) = S
  BY <1>3, <1>10 DEF SubnetRows
<1>12. SubnetHeld(c)
  BY <1>7, <1>10, <1>11 DEF SubnetHeld, found
<1>13. Held(c)
  BY <1>2, <1>10, <1>12 DEF Held
<1> QED BY <1>1, <1>8, <1>10, <1>13, AnswerInv

(* The first SELECT of a window.                                           *)
LEMMA TotalInv ==
  ASSUME IInv, CountTotal
  PROVE  IInv'
<1>1. PICK W : W = Window(call, Len(rows))
  OBVIOUS
<1>2. Select(InWindow) = W
  BY <1>1, SelectWindow DEF IInv
<1>3. /\ call.query \in Queries /\ call.query.ask = "window" /\ call \in Call
      /\ Len(rows) \in Nat
      /\ call.failed = FALSE /\ call.limited = FALSE /\ call.found = {}
  BY DEF IInv, CallOK, CountTotal, Asked, RowsOK
<1>4. Cardinality(W) \in Nat
  BY <1>1, <1>3, FiniteAttempts DEF Window
<1>5. PICK c : c = [call EXCEPT !.seen = Len(rows), !.count = Cardinality(W),
                               !.stage = IF W = {} THEN "done" ELSE "slices"]
  OBVIOUS
<1>6. call' = c /\ UNCHANGED <<now, pending, rows>>
  BY <1>2, <1>5 DEF CountTotal
<1>7. /\ c \in Call /\ c.query = call.query /\ c.at = call.at /\ c.seen = Len(rows)
      /\ c.count = Cardinality(W) /\ c.stage = IF W = {} THEN "done" ELSE "slices"
      /\ c.failed = FALSE /\ c.limited = FALSE /\ c.found = {}
  BY <1>3, <1>4, <1>5 DEF Call
<1>8. Window(c, c.seen) = W
  BY <1>1, <1>7 DEF Window
<1>9. W = {} => c.count = 0
  BY <1>7, FS_EmptySet
<1>10. Held(c)
  <2>1. W = {} => Accepted(c)
    BY <1>8 DEF Accepted
  <2> QED BY <1>3, <1>7, <1>8, <1>9, <2>1 DEF Held, WindowHeld
<1>11. c.seen <= Len(rows) /\ c.stage # "none" /\ c.query \in Queries
       /\ c.query.ask = "window"
  BY <1>3, <1>7
<1> QED BY <1>6, <1>7, <1>10, <1>11, CallInv

(* A slice that is full is full when there are more rows.                  *)
LEMMA SliceGrows ==
  ASSUME NEW c, c.query.limit \in Int, NEW m \in Nat, NEW n \in 0..m, NEW t,
         Cardinality(OfSlice(c, n, t)) >= c.query.limit
  PROVE  Cardinality(OfSlice(c, m, t)) >= c.query.limit
<1>1. OfSlice(c, n, t) \subseteq OfSlice(c, m, t)
  BY DEF OfSlice, Window, Attempts
<1>2. /\ Cardinality(OfSlice(c, n, t)) <= Cardinality(OfSlice(c, m, t))
      /\ Cardinality(OfSlice(c, m, t)) \in Nat /\ Cardinality(OfSlice(c, n, t)) \in Nat
  BY <1>1, FiniteSlice, FS_Subset
<1> QED BY <1>2

(* The second SELECT of a window, read up to a full slice or to an error.  *)
LEMMA SlicesInv ==
  ASSUME IInv, CountSlices
  PROVE  IInv'
<1>1. PICK m \in Nat : m = Len(rows)
  BY DEF IInv, RowsOK
<1>2. /\ call.query \in Queries /\ call.query.ask = "window" /\ call \in Call
      /\ call.failed = FALSE /\ call.limited = FALSE /\ call.found = {}
      /\ call.seen \in 0..m /\ call.stage = "slices" /\ call.query.limit \in Int
  <2>1. call.stage = "slices"
    BY DEF CountSlices
  <2>2. /\ call.query \in Queries /\ call.query.ask = "window" /\ call \in Call
        /\ call.failed = FALSE /\ call.limited = FALSE /\ call.found = {}
    BY <2>1 DEF IInv, CallOK
  <2>3. CallOK /\ call.seen <= m
    BY <1>1 DEF IInv, CallOK
  <2>4. call.seen \in Nat /\ call.query.limit \in Int
    BY <2>2, <2>3, CallFields
  <2>5. call.seen \in 0..m
    BY <2>3, <2>4
  <2> QED BY <2>1, <2>2, <2>4, <2>5
<1>3. PICK S : S = {Slice(rows[i]) : i \in Window(call, m)}
  OBVIOUS
<1>4. /\ Slices(InWindow) = S
      /\ \A t : InSlice(InWindow, t) = Cardinality(OfSlice(call, m, t))
  <2>1. Select(InWindow) = Window(call, m)
    BY <1>1, SelectWindow DEF IInv
  <2> QED BY <1>3, <2>1 DEF Slices, InSlice, OfSlice
<1>5. PICK unread, full, c :
        /\ unread \in SUBSET S /\ full \in BOOLEAN
        /\ full <=> \E t \in S \ unread :
             Cardinality(OfSlice(call, m, t)) >= call.query.limit
        /\ c = [call EXCEPT !.stage = "done", !.limited = full,
                            !.unread = unread, !.count = IF full THEN 0 ELSE @]
        /\ call' = c
  <2>1. PICK unread \in SUBSET Slices(InWindow) :
          LET full == \E t \in Slices(InWindow) \ unread :
                InSlice(InWindow, t) >= call.query.limit
          IN  call' = [call EXCEPT !.stage = "done", !.limited = full,
                                   !.unread = unread, !.count = IF full THEN 0 ELSE @]
    BY DEF CountSlices
  <2> DEFINE full == \E t \in S \ unread :
               Cardinality(OfSlice(call, m, t)) >= call.query.limit
  <2>2. unread \in SUBSET S /\ full \in BOOLEAN
    BY <1>4, <2>1
  <2>3. call' = [call EXCEPT !.stage = "done", !.limited = full,
                             !.unread = unread, !.count = IF full THEN 0 ELSE @]
    BY <1>4, <2>1
  <2> HIDE DEF full
  <2>4. full <=> \E t \in S \ unread :
          Cardinality(OfSlice(call, m, t)) >= call.query.limit
    BY DEF full
  <2> QED BY <2>2, <2>3, <2>4
<1>6. \A i \in Window(call, m) : Slice(rows[i]) \in 0..MaxTime
  BY <1>1, SliceOfRow DEF Window, Attempts, IInv
<1>7. /\ c \in Call /\ c.query = call.query /\ c.at = call.at /\ c.seen = call.seen
      /\ c.count = (IF full THEN 0 ELSE call.count) /\ c.stage = "done"
      /\ c.failed = FALSE /\ c.limited = full /\ c.unread = unread
  <2>1. unread \in SUBSET Int
    BY <1>3, <1>5, <1>6
  <2> QED BY <1>2, <1>5, <2>1 DEF Call
<1>8. Window(c, m) = Window(call, m) /\ Window(c, c.seen) = Window(call, call.seen)
  BY <1>7 DEF Window
<1>9. \A t : OfSlice(c, m, t) = OfSlice(call, m, t)
  BY <1>8 DEF OfSlice
<1>10. WindowHeld(c)
  <2>1. CASE full
    <3>1. PICK t \in S : Cardinality(OfSlice(c, m, t)) >= c.query.limit
      BY <1>5, <1>7, <1>9, <2>1
    <3>2. Full(c, m)
      BY <1>3, <1>6, <3>1 DEF Full
    <3> QED BY <1>1, <1>7, <2>1, <3>2 DEF WindowHeld
  <2>2. CASE ~full
    <3>1. c.count = Cardinality(Window(c, c.seen))
      <4>1. call.count = Cardinality(Window(call, call.seen))
        BY <1>2 DEF IInv, AnswerOK, Held
      <4> QED BY <1>7, <1>8, <2>2, <4>1
    <3>2. ASSUME NEW i \in Window(c, c.seen),
                 Cardinality(OfSlice(c, c.seen, Slice(rows[i]))) >= c.query.limit
          PROVE  Slice(rows[i]) \in c.unread
      <4>1. c.seen \in 0..m /\ c.query.limit \in Int
        BY <1>2, <1>7
      <4>2. Cardinality(OfSlice(c, m, Slice(rows[i]))) >= c.query.limit
        BY <3>2, <4>1, SliceGrows
      <4>3. i \in Window(call, m)
        BY <1>8, <4>1 DEF Window, Attempts
      <4>4. Slice(rows[i]) \in S
        BY <1>3, <4>3
      <4> QED BY <1>5, <1>7, <1>9, <2>2, <4>2, <4>4
    <3>3. Accepted(c)
      BY <3>2 DEF Accepted
    <3> QED BY <1>7, <2>2, <3>1, <3>3 DEF WindowHeld
  <2> QED BY <2>1, <2>2
<1>11. Held(c)
  BY <1>2, <1>7, <1>10 DEF Held
<1>12. c.seen <= Len(rows) /\ c.query \in Queries
       /\ c.stage \notin {"none", "select", "slices"}
  BY <1>1, <1>2, <1>7
<1>13. call' = c /\ UNCHANGED <<now, pending, rows>>
  BY <1>5 DEF CountSlices
<1> QED BY <1>7, <1>11, <1>12, <1>13, CallInv

LEMMA QueryFailsInv ==
  ASSUME IInv, QueryFails
  PROVE  IInv'
<1>1. /\ call \in Call /\ call.seen <= Len(rows) /\ call.query \in Queries
  <2>1. call.stage # "none"
    BY DEF QueryFails
  <2> QED BY <2>1 DEF IInv, CallOK
<1>2. PICK c : c = [call EXCEPT !.stage = "done", !.failed = TRUE, !.count = 0]
  OBVIOUS
<1>3. /\ c \in Call /\ c.query = call.query /\ c.seen = call.seen
      /\ c.stage = "done" /\ c.failed = TRUE
  BY <1>1, <1>2 DEF Call
<1>4. call' = c /\ UNCHANGED <<now, pending, rows>>
  BY <1>2 DEF QueryFails
<1>5. Held(c)
  BY <1>3 DEF Held
<1>6. c.seen <= Len(rows) /\ c.query \in Queries
      /\ c.stage \notin {"none", "select", "slices"}
  BY <1>1, <1>3
<1> QED BY <1>3, <1>4, <1>5, <1>6, CallInv

LEMMA InitInv == Init => IInv
<1> SUFFICES ASSUME Init PROVE IInv
  OBVIOUS
<1>1. now = 0 /\ rows = << >> /\ Len(rows) = 0 /\ rows \in Seq(Row) /\ call = NoCall
  BY DEF Init
<1>2. RowsOK
  BY <1>1, NumbersAssumption DEF RowsOK
<1>3. Waiting = {}
  BY DEF Init, Waiting
<1>4. PendingOK
  BY <1>1, <1>3, FS_EmptySet, NumbersAssumption DEF Init, PendingOK
<1>5. CallOK
  BY <1>1, NumbersAssumption DEF CallOK, Call, NoCall
<1>6. AnswerOK
  BY <1>1 DEF AnswerOK, Held, NoCall
<1> QED BY <1>2, <1>4, <1>5, <1>6 DEF IInv

LEMMA StutterInv ==
  ASSUME IInv, UNCHANGED vars
  PROVE  IInv'
<1>1. UNCHANGED <<now, pending, rows, call>> /\ Grown
  BY RowsGrown DEF vars, IInv
<1>2. AnswerOK'
  BY <1>1, AnswerKept DEF IInv
<1> QED BY <1>1, <1>2 DEF IInv, RowsOK, PendingOK, Waiting, CallOK

LEMMA NextInv == IInv /\ [Next]_vars => IInv'
BY TickInv, ObserveInv, InsertEventInv, AskInv, SinceInv, TotalInv, SlicesInv,
   LoginInv, SubnetInv, QueryFailsInv, StutterInv DEF Next

LEMMA InvHolds == Spec => []IInv
BY InitInv, NextInv, PTL DEF Spec

-----------------------------------------------------------------------------
(* The theorems. *)

(* Every reachable state is well typed, and the table holds the types that *)
(* the questions ask for (db.go:107-154).                                  *)
THEOREM TypeCorrect == Spec => []TypeOK
<1>1. ASSUME IInv PROVE TypeOK
  <2>1. now \in 0..MaxTime /\ rows \in Seq(Row) /\ Len(rows) \in Nat
    BY <1>1 DEF IInv, RowsOK
  <2>2. \A i \in 1..Len(rows) :
          rows[i] \in [what : Observed, time : 0..now, type : Kinds \ {"invalid_user"}]
    <3> SUFFICES ASSUME NEW i \in 1..Len(rows)
                 PROVE  rows[i] \in [what : Observed, time : 0..now,
                                    type : Kinds \ {"invalid_user"}]
      OBVIOUS
    <3>1. rows[i] \in Row /\ rows[i].time \in 0..now
      BY <1>1, RowFields DEF IInv
    <3> QED BY <3>1 DEF Row
  <2>3. rows \in Seq([what : Observed, time : 0..now, type : Kinds \ {"invalid_user"}])
    <3> DEFINE T == [what : Observed, time : 0..now, type : Kinds \ {"invalid_user"}]
    <3>1. \A i \in 1..Len(rows) : rows[i] \in T
      BY <2>2
    <3> HIDE DEF T
    <3>2. rows \in [1..Len(rows) -> T]
      BY <2>1, <3>1
    <3>3. rows \in Seq(T)
      BY <2>1, <3>2
    <3> QED BY <3>3 DEF T
  <2> QED BY <1>1, <2>1, <2>3 DEF IInv, PendingOK, Waiting, CallOK, Call, TypeOK
<1> QED BY <1>1, InvHolds, PTL

LEMMA WindowAnswer ==
  ASSUME IInv
  PROVE  WindowAnswerHeld
<1> SUFFICES ASSUME Answered("window") PROVE WindowHeld(call)
  BY DEF WindowAnswerHeld, WindowHeld, Accepted, Full, OfSlice, Window
<1> QED BY DEF IInv, AnswerOK, Held, Answered

(* A total counts the attempts of the window when it was counted, and none *)
(* of its slices that were read was full; a refusal is due to a full slice *)
(* of the window: whatever is inserted between the two SELECTs, and        *)
(* wherever an error ends the loop over the slices (db.go:245-281).        *)
THEOREM WindowRight == Spec => []WindowAnswerHeld
BY WindowAnswer, InvHolds, PTL

(* The attempts of c in the SubWindow seconds from time t.                 *)
Burst(c, n, t) ==
  {i \in Window(c, n) : t <= rows[i].time /\ rows[i].time < t + SubWindow}

(* A full slice is a burst.                                                *)
LEMMA SliceIsBurst ==
  ASSUME RowsOK, NEW c, c.query.limit \in Int, NEW n \in 0..Len(rows), Full(c, n)
  PROVE  \E t \in 0..MaxTime : Cardinality(Burst(c, n, t)) >= c.query.limit
<1>1. PICK k \in 0..MaxTime : Cardinality(OfSlice(c, n, k)) >= c.query.limit
  BY DEF Full
<1>2. n \in Nat /\ 1..n \subseteq 1..Len(rows)
  BY DEF RowsOK
<1>3. /\ \A t : IsFiniteSet(Burst(c, n, t)) /\ Cardinality(Burst(c, n, t)) \in Nat
      /\ Cardinality(OfSlice(c, n, k)) \in Nat
  <2>1. IsFiniteSet(Window(c, n)) /\ \A t : Burst(c, n, t) \subseteq Window(c, n)
    BY <1>2, FiniteAttempts DEF Window, Burst
  <2> QED BY <1>2, <2>1, FS_Subset, FS_CardinalityType, FiniteSlice
<1>4. CASE OfSlice(c, n, k) = {}
  <2>1. c.query.limit <= 0
    BY <1>1, <1>4, FS_EmptySet
  <2>2. 0 \in 0..MaxTime
    BY NumbersAssumption
  <2>3. Cardinality(Burst(c, n, 0)) >= c.query.limit
    BY <1>3, <2>1
  <2> QED BY <2>2, <2>3
<1>5. CASE OfSlice(c, n, k) # {}
  <2>1. PICK i \in OfSlice(c, n, k) : TRUE
    BY <1>5
  <2>2. PICK t : t = SubWindow * k
    OBVIOUS
  <2>3. ASSUME NEW j \in OfSlice(c, n, k)
        PROVE  /\ j \in Window(c, n) /\ rows[j].time \in 0..MaxTime
               /\ t <= rows[j].time /\ rows[j].time < t + SubWindow
    <3>1. j \in Window(c, n) /\ Slice(rows[j]) = k /\ j \in 1..Len(rows)
      BY <1>2 DEF OfSlice, Window, Attempts
    <3>2. rows[j].time \in 0..MaxTime
      BY <3>1, RowFields, NumbersAssumption
    <3> QED BY <2>2, <3>1, <3>2, SliceOfRow
  <2>4. t \in 0..MaxTime
    <3>1. t \in Nat
      BY <2>2, NumbersAssumption
    <3> QED BY <2>1, <2>3, <3>1, NumbersAssumption
  <2>5. OfSlice(c, n, k) \subseteq Burst(c, n, t)
    BY <2>3 DEF Burst
  <2>6. Cardinality(OfSlice(c, n, k)) <= Cardinality(Burst(c, n, t))
    BY <1>3, <2>5, FS_Subset
  <2>7. Cardinality(Burst(c, n, t)) >= c.query.limit
    BY <1>1, <1>3, <2>6
  <2> QED BY <2>4, <2>7
<1> QED BY <1>4, <1>5

(* SubWindow seconds meet at most two slices.                              *)
LEMMA TwoSlices ==
  ASSUME RowsOK, NEW c, NEW n \in 0..Len(rows), NEW t \in 0..MaxTime
  PROVE  \E k \in 0..MaxTime :
           Burst(c, n, t) \subseteq OfSlice(c, n, k) \cup OfSlice(c, n, k + 1)
<1>1. PICK k : k = t \div SubWindow
  OBVIOUS
<1>2. SubWindow \in Nat \ {0} /\ MaxTime \in Nat
  BY NumbersAssumption
<1>3. /\ k \in 0..t /\ SubWindow * k <= t /\ t < SubWindow * k + SubWindow
  BY <1>1, <1>2
<1>4. ASSUME NEW i \in Burst(c, n, t)
      PROVE  i \in OfSlice(c, n, k) \cup OfSlice(c, n, k + 1)
  <2>1. /\ i \in Window(c, n) /\ i \in 1..Len(rows)
        /\ t <= rows[i].time /\ rows[i].time < t + SubWindow
    BY DEF Burst, Window, Attempts, RowsOK
  <2>2. PICK s : s = Slice(rows[i])
    OBVIOUS
  <2>3. PICK u : u = rows[i].time
    OBVIOUS
  <2>4. s \in 0..MaxTime /\ SubWindow * s <= u /\ u < SubWindow * s + SubWindow
    BY <2>1, <2>2, <2>3, SliceOfRow
  <2>5. u \in 0..MaxTime /\ t <= u /\ u < t + SubWindow
    BY <2>1, <2>3, RowFields, NumbersAssumption
  <2>6. s = k \/ s = k + 1
    <3>1. s \in Int /\ k \in Int /\ u \in Int /\ t \in Int /\ SubWindow \in Int
      BY <1>2, <1>3, <2>4, <2>5
    <3>2. ~(s <= k - 1)
      <4> SUFFICES ASSUME s <= k - 1 PROVE FALSE
        OBVIOUS
      <4>1. SubWindow * s <= SubWindow * (k - 1)
        BY <1>2, <3>1
      <4>2. SubWindow * (k - 1) = SubWindow * k - SubWindow
        BY <3>1
      <4> QED BY <1>2, <1>3, <2>4, <2>5, <3>1, <4>1, <4>2
    <3>3. ~(s >= k + 2)
      <4> SUFFICES ASSUME s >= k + 2 PROVE FALSE
        OBVIOUS
      <4>1. SubWindow * (k + 2) <= SubWindow * s
        BY <1>2, <3>1
      <4>2. SubWindow * (k + 2) = SubWindow * k + SubWindow + SubWindow
        BY <3>1
      <4> QED BY <1>2, <1>3, <2>4, <2>5, <3>1, <4>1, <4>2
    <3> QED BY <3>1, <3>2, <3>3
  <2> QED BY <2>1, <2>2, <2>6 DEF OfSlice
<1>5. k \in 0..MaxTime
  BY <1>2, <1>3
<1> QED BY <1>4, <1>5

(* Without a full slice, no burst exceeds twice what fits in a slice.      *)
LEMMA BurstFits ==
  ASSUME RowsOK, NEW c, c.query.limit \in Int, NEW n \in 0..Len(rows), ~Full(c, n),
         NEW t \in 0..MaxTime
  PROVE  Cardinality(Burst(c, n, t)) <= 2 * (c.query.limit - 1)
<1>1. PICK k \in 0..MaxTime :
        Burst(c, n, t) \subseteq OfSlice(c, n, k) \cup OfSlice(c, n, k + 1)
  BY TwoSlices
<1>2. n \in Nat /\ MaxTime \in Nat
  BY NumbersAssumption DEF RowsOK
<1>3. PICK A : A = OfSlice(c, n, k)
  OBVIOUS
<1>4. PICK B : B = OfSlice(c, n, k + 1)
  OBVIOUS
<1>5. /\ IsFiniteSet(A) /\ Cardinality(A) \in Nat
      /\ IsFiniteSet(B) /\ Cardinality(B) \in Nat
  BY <1>2, <1>3, <1>4, FiniteSlice
<1>6. Cardinality(A) <= c.query.limit - 1
  BY <1>3, <1>5 DEF Full
<1>7. Cardinality(B) <= c.query.limit - 1
  <2>1. CASE k + 1 \in 0..MaxTime
    BY <1>4, <1>5, <2>1 DEF Full
  <2>2. CASE k + 1 \notin 0..MaxTime
    <3>1. ASSUME NEW i \in B PROVE FALSE
      <4>1. i \in 1..Len(rows) /\ Slice(rows[i]) = k + 1
        BY <1>4 DEF OfSlice, Window, Attempts, RowsOK
      <4> QED BY <2>2, <4>1, SliceOfRow
    <3>2. Cardinality(B) = 0
      BY <3>1, FS_EmptySet
    <3> QED BY <1>5, <1>6, <3>2
  <2> QED BY <2>1, <2>2
<1>8. /\ IsFiniteSet(A \cup B)
      /\ Cardinality(A \cup B) <= Cardinality(A) + Cardinality(B)
  <2>1. /\ IsFiniteSet(A \cup B) /\ Cardinality(A \cap B) \in Nat
        /\ Cardinality(A \cup B)
             = Cardinality(A) + Cardinality(B) - Cardinality(A \cap B)
    BY <1>5, FS_Union, FS_Intersection, FS_CardinalityType
  <2> QED BY <1>5, <2>1
<1>9. /\ Cardinality(Burst(c, n, t)) <= Cardinality(A \cup B)
      /\ Cardinality(Burst(c, n, t)) \in Nat /\ Cardinality(A \cup B) \in Nat
  BY <1>1, <1>3, <1>4, <1>8, FS_Subset, FS_CardinalityType
<1> QED BY <1>5, <1>6, <1>7, <1>8, <1>9

(* A window that was read to its end and accepted has no full slice.       *)
LEMMA NotFull ==
  ASSUME NEW c, c.query.limit \in Int, c.seen \in Nat, Accepted(c), c.unread = {},
         Window(c, c.seen) # {}
  PROVE  ~Full(c, c.seen)
<1>1. \A i \in Window(c, c.seen) :
        ~(Cardinality(OfSlice(c, c.seen, Slice(rows[i]))) >= c.query.limit)
  BY DEF Accepted
<1>2. PICK i \in Window(c, c.seen) : TRUE
  OBVIOUS
<1>3. c.query.limit > 0
  <2>1. Cardinality(OfSlice(c, c.seen, Slice(rows[i]))) \in Nat
    BY FiniteSlice
  <2> QED BY <1>1, <1>2, <2>1
<1> SUFFICES ASSUME NEW t \in 0..MaxTime,
                    Cardinality(OfSlice(c, c.seen, t)) >= c.query.limit
             PROVE  FALSE
  BY DEF Full
<1>4. Cardinality(OfSlice(c, c.seen, t)) \in Nat /\ IsFiniteSet(OfSlice(c, c.seen, t))
  BY FiniteSlice
<1>5. PICK j \in OfSlice(c, c.seen, t) : TRUE
  <2>1. Cardinality(OfSlice(c, c.seen, t)) # 0
    BY <1>3, <1>4
  <2> QED BY <1>4, <2>1, FS_EmptySet
<1>6. j \in Window(c, c.seen) /\ Slice(rows[j]) = t
  BY <1>5 DEF OfSlice
<1> QED BY <1>1, <1>6

LEMMA BurstAnswer ==
  ASSUME IInv
  PROVE  BurstsBounded
<1> SUFFICES ASSUME Answered("window")
             PROVE  IF call.limited
                    THEN \E t \in 0..MaxTime :
                           Cardinality(Burst(call, Len(rows), t)) >= call.query.limit
                    ELSE call.count > 0 /\ call.unread = {} =>
                           \A t \in 0..MaxTime :
                             Cardinality(Burst(call, call.seen, t))
                               <= 2 * (call.query.limit - 1)
  BY DEF BurstsBounded, Burst, Window
<1>1. WindowHeld(call)
  BY DEF IInv, AnswerOK, Held, Answered
<1>2. /\ RowsOK /\ call.query.limit \in Int /\ call.seen \in Nat
      /\ Len(rows) \in 0..Len(rows) /\ call.seen \in 0..Len(rows)
  <2>1. /\ RowsOK /\ CallOK /\ Len(rows) \in Nat /\ call.query.ask = "window"
        /\ call.seen <= Len(rows)
    BY DEF IInv, RowsOK, CallOK, Answered
  <2> QED BY <2>1, CallFields
<1>3. CASE call.limited
  BY <1>1, <1>2, <1>3, SliceIsBurst DEF WindowHeld
<1>4. CASE ~call.limited
  <2> SUFFICES ASSUME call.count > 0, call.unread = {}, NEW t \in 0..MaxTime
               PROVE  Cardinality(Burst(call, call.seen, t))
                        <= 2 * (call.query.limit - 1)
    BY <1>4
  <2>1. Accepted(call) /\ call.count = Cardinality(Window(call, call.seen))
    BY <1>1, <1>4 DEF WindowHeld
  <2>2. Window(call, call.seen) # {}
    BY <2>1, FS_EmptySet
  <2>3. ~Full(call, call.seen)
    BY <1>2, <2>1, <2>2, NotFull
  <2> QED BY <1>2, <2>3, BurstFits
<1> QED BY <1>3, <1>4

(* The slices bound every burst of a window that was read to its end:      *)
(* SubWindow seconds meet at most two of them (db.go:259-280).             *)
THEOREM BurstsRight == Spec => []BurstsBounded
BY BurstAnswer, InvHolds, PTL

(* The other three questions are answered in terms of what was observed    *)
(* (db.go:236-243, 284-330).                                               *)
THEOREM QuestionsRight == Spec => []QuestionsAnswered
<1>1. ASSUME IInv PROVE QuestionsAnswered
  <2>1. Answered("since") => SinceHeld(call)
    BY <1>1 DEF IInv, AnswerOK, Held, Answered
  <2>2. Answered("login") => LoginHeld(call)
    BY <1>1 DEF IInv, AnswerOK, Held, Answered
  <2>3. Answered("subnet") => SubnetHeld(call)
    BY <1>1 DEF IInv, AnswerOK, Held, Answered
  <2> QED BY <2>1, <2>2, <2>3
          DEF QuestionsAnswered, SinceHeld, LoginHeld, LoggedIn, SubnetHeld, SubnetRows
<1> QED BY <1>1, InvHolds, PTL
=============================================================================
