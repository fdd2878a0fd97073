-------------------------- MODULE NormalizerProofs --------------------------
(***************************************************************************)
(* Proofs about the SSH normalizer, for every set of accounts and lines    *)
(* and every choice of its durations and capacities.                       *)
(***************************************************************************)
EXTENDS Normalizer, SequenceTheorems, TLAPS

LEMMA Bounds ==
  /\ CacheFor \in Nat /\ ChanCap \in Nat /\ ChanCap > 0 /\ Backlog \in Nat
  /\ MaxLines \in Nat /\ MaxCrashes \in Nat
BY NumbersAssumption

LEMMA Ages ==
  /\ 0 \in Age /\ Unset \in Age /\ MaxAge \in 0..MaxAge
  /\ \A n \in Age : Older(n) \in Age
  /\ \A n \in 0..MaxAge : Older(n) \in 0..MaxAge
BY Bounds DEF Age, Older, Unset, MaxAge

-----------------------------------------------------------------------------
(* The log only grows, and lines once complete stay as they are.           *)

Grown ==
  /\ Len(log) <= Len(log)' /\ Complete <= Complete' /\ hasLog' = hasLog
  /\ \A n \in Numbers : n \in Numbers' /\ log'[n] = log[n]

LEMMA LogGrows ==
  ASSUME WorldOK, [Next]_vars
  PROVE  WorldOK' /\ Grown
<1>0. log \in Seq(Lines) /\ Len(log) \in Nat
  BY LenProperties DEF WorldOK
<1>1. ASSUME NEW l \in Lines, Log(l)
      PROVE  WorldOK' /\ Grown
  <2>1. /\ log' \in Seq(Lines) /\ Len(log') = Len(log) + 1
        /\ \A n \in 1..Len(log) : log'[n] = log[n]
    BY <1>0, <1>1, AppendProperties DEF Log
  <2>2. log' # << >>
    BY <1>0, <2>1, EmptySeq
  <2>3. Len(log') <= MaxLines /\ Len(log) <= Len(log')
    BY <1>0, <1>1, <2>1, Bounds DEF Log
  <2>4. Complete <= Complete'
    BY <1>0, <1>1, <2>1 DEF Log, Complete
  <2>5. Numbers \subseteq Numbers'
    BY <1>0, <2>1 DEF Numbers
  <2>6. WorldOK'
    BY <1>1, <2>1, <2>2, <2>3 DEF WorldOK, Log
  <2> QED BY <1>1, <2>1, <2>3, <2>4, <2>5, <2>6 DEF Grown, Log, Numbers
<1>2. ASSUME WorldOK', hasLog' = hasLog, log' = log, half' = half \/ LogRest
      PROVE  Grown
  BY <1>0, <1>2 DEF Complete, Grown, Numbers, LogRest
<1>3. ASSUME LogRest
      PROVE  WorldOK' /\ Grown
  <2>1. WorldOK'
    BY <1>3 DEF WorldOK, LogRest
  <2> QED BY <1>2, <1>3, <2>1 DEF LogRest
<1>4. ASSUME NEW u \in Users, ChangeUser(u)
      PROVE  WorldOK' /\ Grown
  <2>1. WorldOK'
    BY <1>4, Ages DEF WorldOK, ChangeUser
  <2> QED BY <1>2, <1>4, <2>1 DEF ChangeUser
<1>5. ASSUME Tick
      PROVE  WorldOK' /\ Grown
  <2>1. WorldOK'
    BY <1>5, Ages DEF WorldOK, Tick
  <2> QED BY <1>2, <1>5, <2>1 DEF Tick
<1>6. ASSUME UNCHANGED world
      PROVE  WorldOK' /\ Grown
  <2>1. WorldOK'
    BY <1>6 DEF WorldOK, world
  <2> QED BY <1>2, <1>6, <2>1 DEF world
<1> QED
  BY <1>1, <1>3, <1>4, <1>5, <1>6
  DEF Next, NormalizerStep, vars, Rotate, OtherEvent, Drain, Crash, Begin, Seed, Stop,
      OpenLog, OpenJournal, ReadLine, ReadPart, LookUp, InsertEvent, Send, Write,
      WriteNewline

-----------------------------------------------------------------------------
LEMMA InitType == Init => TypeOK
<1> SUFFICES ASSUME Init PROVE TypeOK
  OBVIOUS
<1>1. log = << >> /\ log \in Seq(Lines) /\ Len(log) = 0 /\ half = FALSE
  BY EmptySeq DEF Init
<1>2. WorldOK
  <2>1. /\ hasLog \in BOOLEAN /\ passwd \in SUBSET Users
        /\ changed = [u \in Users |-> MaxAge]
    BY DEF Init
  <2>2. changed \in [Users -> 0..MaxAge]
    BY <2>1, Ages
  <2>3. 0 <= MaxLines
    BY Bounds
  <2> QED BY <1>1, <2>1, <2>2, <2>3 DEF WorldOK
<1>3. ReaderOK
  <2>1. pos = 1 /\ file = 0 /\ from = 1 /\ torn = {}
    BY DEF Init, Open
  <2>2. Complete = 0
    BY <1>1 DEF Complete
  <2> QED BY <1>1, <2>1, <2>2 DEF ReaderOK
<1>4. CacheOK
  BY Ages DEF Init, CacheOK
<1>5. TrailOK
  BY DEF Init, TrailOK
<1>6. FlowOK
  <2>1. pc = "down" /\ cur = Nothing /\ valid = FALSE /\ pending = 0 /\ crashes = 0
    BY DEF Init
  <2>2. 0 \in 0..ChanCap /\ 0 \in 0..MaxCrashes
    BY Bounds
  <2> QED BY <2>1, <2>2 DEF FlowOK, Busy, Running
<1> QED BY <1>2, <1>3, <1>4, <1>5, <1>6 DEF TypeOK

LEMMA RefreshType == CacheOK /\ passwd \in SUBSET Users /\ refreshUserCache => CacheOK'
BY Ages DEF CacheOK, refreshUserCache, Refreshed, NotRefreshed

LEMMA CacheType == TypeOK /\ [Next]_vars => CacheOK'
<1> SUFFICES ASSUME TypeOK, [Next]_vars PROVE CacheOK'
  OBVIOUS
<1>1. CacheOK /\ passwd \in SUBSET Users
  BY DEF TypeOK, WorldOK
<1>2. CASE refreshUserCache
  BY <1>1, <1>2, RefreshType
<1>3. CASE Tick
  BY <1>1, <1>3, Ages DEF CacheOK, Tick
<1>4. CASE Crash
  BY <1>4, Ages DEF CacheOK, Crash
<1>5. CASE InsertEvent
  BY <1>1, <1>5 DEF CacheOK, InsertEvent
<1>6. CASE UNCHANGED cache
  BY <1>1, <1>6 DEF CacheOK, cache
<1> QED
  BY <1>2, <1>3, <1>4, <1>5, <1>6
  DEF Next, NormalizerStep, vars, Log, LogRest, ChangeUser, Rotate, OtherEvent, Drain,
      Begin, Seed, Stop, OpenLog, OpenJournal, ReadLine, ReadPart, LookUp, Send, Write,
      WriteNewline

LEMMA TrailType == TypeOK /\ [Next]_vars => TrailOK'
<1> SUFFICES ASSUME TypeOK, [Next]_vars PROVE TrailOK'
  OBVIOUS
<1>1. TrailOK /\ (pc \in Busy => cur \in Numbers)
  BY DEF TypeOK, FlowOK
<1>2. \A n \in Numbers : n \in Numbers'
  BY LogGrows DEF TypeOK, Grown
<1>3. CASE InsertEvent
  BY <1>1, <1>2, <1>3 DEF TrailOK, InsertEvent, Busy, output
<1>4. CASE Send
  BY <1>1, <1>2, <1>4 DEF TrailOK, Send, Busy, output
<1>5. CASE Write
  BY <1>1, <1>2, <1>5 DEF TrailOK, Write, Busy
<1>6. CASE WriteNewline
  BY <1>1, <1>2, <1>6 DEF TrailOK, WriteNewline, EndRecord, Busy
<1>7. CASE UNCHANGED trail
  BY <1>1, <1>2, <1>7 DEF TrailOK, trail, output
<1> QED
  BY <1>3, <1>4, <1>5, <1>6, <1>7
  DEF Next, NormalizerStep, vars, Log, LogRest, ChangeUser, Tick, Rotate, OtherEvent,
      Drain, Crash, Begin, Seed, Stop, OpenLog, OpenJournal, ReadLine, ReadPart, LookUp

LEMMA ReaderType == TypeOK /\ [Next]_vars => ReaderOK'
<1> SUFFICES ASSUME TypeOK, [Next]_vars PROVE ReaderOK'
  OBVIOUS
<1>1. ReaderOK /\ WorldOK
  BY DEF TypeOK
<1>2. /\ Len(log) \in Nat /\ Len(log)' \in Nat /\ Len(log) <= Len(log)'
      /\ \A n \in Numbers : n \in Numbers'
  BY <1>1, LogGrows, LenProperties DEF WorldOK, Grown
<1>3. /\ Complete \in Nat /\ Complete' \in Nat /\ Complete <= Complete'
      /\ Complete <= Len(log)
  <2>1. half => Len(log) # 0
    BY <1>1, EmptySeq, LenProperties DEF WorldOK
  <2>2. Complete <= Complete'
    BY <1>1, LogGrows DEF Grown
  <2>3. Complete \in Nat /\ Complete <= Len(log)
    BY <1>2, <2>1 DEF Complete
  <2>4. half' => Len(log)' # 0
    BY <1>1, LogGrows, EmptySeq, LenProperties DEF WorldOK
  <2>5. Complete' \in Nat
    BY <1>2, <2>4 DEF Complete
  <2> QED BY <2>2, <2>3, <2>5
<1>4. CASE Rotate
  <2>1. Len(log) \in 0..Len(log)'
    BY <1>2
  <2>2. UNCHANGED <<pos, from, torn>> /\ file' = Len(log)
    BY <1>4 DEF Rotate
  <2>3. pos \in Nat /\ pos <= Complete' + 1
    BY <1>1, <1>2, <1>3 DEF ReaderOK, Complete
  <2> QED BY <1>1, <1>2, <2>1, <2>2, <2>3 DEF ReaderOK
<1>5. CASE Crash
  <2>1. 1 <= Complete' + 1
    BY <1>2, <1>3 DEF Complete
  <2>2. 0 \in 0..Len(log)'
    BY <1>2
  <2> QED BY <1>1, <1>2, <1>5, <2>1, <2>2 DEF ReaderOK, Crash, Open
<1>6. CASE OpenLog
  <2>1. Complete' = Complete /\ Len(log)' = Len(log)
    BY <1>6 DEF OpenLog, world, Complete
  <2>2. half => Len(log) \in Numbers
    BY <1>1, <1>2, EmptySeq DEF WorldOK, Numbers
  <2>3. pos' \in Nat \ {0} /\ pos' <= Complete' + 1
    BY <1>3, <1>6, <2>1 DEF OpenLog
  <2>4. file' \in 0..Len(log)' /\ from' \in Nat \ {0}
    BY <1>2, <1>6 DEF OpenLog, Open
  <2>5. torn' \in SUBSET Numbers'
    BY <1>1, <1>2, <1>6, <2>2 DEF OpenLog, ReaderOK
  <2> QED BY <2>3, <2>4, <2>5 DEF ReaderOK
<1>7. CASE OpenJournal
  <2>1. Complete' = Len(log) /\ Len(log)' = Len(log)
    BY <1>1, <1>7 DEF OpenJournal, world, Complete, WorldOK
  <2>2. pos' \in Nat \ {0} /\ pos' <= Complete' + 1
    BY <1>2, <1>7, <2>1, Bounds DEF OpenJournal
  <2>3. file' \in 0..Len(log)' /\ from' \in Nat \ {0} /\ torn' = torn
    BY <1>2, <1>7, <2>2 DEF OpenJournal, Open
  <2> QED BY <1>1, <1>2, <2>2, <2>3 DEF ReaderOK
<1>8. CASE ReadLine
  <2>1. Complete' = Complete /\ Len(log)' = Len(log)
    BY <1>8 DEF ReadLine, world, Complete
  <2>2. pos' \in Nat \ {0} /\ pos' <= Complete' + 1
    BY <1>1, <1>3, <1>8, <2>1 DEF ReadLine, ReaderOK
  <2>3. UNCHANGED <<file, from, torn>>
    BY <1>8 DEF ReadLine
  <2> QED BY <1>1, <1>2, <2>1, <2>2, <2>3 DEF ReaderOK
<1>9. CASE ReadPart
  <2>1. pos \in Numbers
    BY <1>1, <1>2, <1>9 DEF ReadPart, ReaderOK, Numbers
  <2>2. Complete' = Complete /\ Len(log)' = Len(log)
    BY <1>9 DEF ReadPart, world, Complete
  <2> QED BY <1>1, <1>2, <1>9, <2>1, <2>2 DEF ReaderOK, ReadPart
<1>10. CASE UNCHANGED reader
  <2>1. pos \in Nat /\ pos <= Complete' + 1
    BY <1>1, <1>2, <1>3 DEF ReaderOK, Complete
  <2>2. file \in 0..Len(log)'
    BY <1>1, <1>2 DEF ReaderOK
  <2> QED BY <1>1, <1>2, <1>10, <2>1, <2>2 DEF ReaderOK, reader
<1> QED
  BY <1>4, <1>5, <1>6, <1>7, <1>8, <1>9, <1>10
  DEF Next, NormalizerStep, vars, Log, LogRest, ChangeUser, Tick, OtherEvent,
      Drain, Begin, Seed, Stop, LookUp, InsertEvent, Send, Write,
      WriteNewline

LEMMA FlowType == TypeOK /\ [Next]_vars => FlowOK'
<1> SUFFICES ASSUME TypeOK, [Next]_vars PROVE FlowOK'
  OBVIOUS
<1>1. FlowOK /\ ReaderOK /\ WorldOK
  BY DEF TypeOK
<1>2. \A n \in Numbers : n \in Numbers'
  BY <1>1, LogGrows DEF Grown
<1> USE DEF Busy, Running
<1>3. CASE \/ (\E l \in Lines : Log(l)) \/ LogRest \/ Rotate \/ Tick
           \/ (\E u \in Users : ChangeUser(u)) \/ UNCHANGED vars
  BY <1>1, <1>2, <1>3
  DEF FlowOK, Log, LogRest, Rotate, Tick, ChangeUser, vars, reader
<1>4. CASE OtherEvent \/ Drain
  <2>1. pending' \in 0..ChanCap
    BY <1>1, <1>4, Bounds DEF FlowOK, OtherEvent, Drain
  <2> QED BY <1>1, <1>2, <1>4, <2>1 DEF FlowOK, OtherEvent, Drain, reader
<1>5. CASE Crash
  <2>1. pending' \in 0..ChanCap /\ crashes' \in 0..MaxCrashes
    BY <1>1, <1>5, Bounds DEF FlowOK, Crash
  <2> QED BY <1>5, <2>1 DEF FlowOK, Crash
<1>6. CASE Begin \/ Seed \/ Stop
  BY <1>1, <1>6 DEF FlowOK, Begin, Seed, Stop
<1>7. CASE OpenLog \/ OpenJournal
  BY <1>1, <1>7 DEF FlowOK, OpenLog, OpenJournal
<1>8. CASE ReadLine
  <2>1. PICK ok \in parseSSHLog(pos) :
          IF ok THEN pc' = "users" /\ cur' = pos ELSE UNCHANGED <<pc, cur>>
    BY <1>8 DEF ReadLine
  <2>2. pos' - 1 = pos /\ pos \in Numbers
    <3>1. Len(log) \in Nat
      BY <1>1, LenProperties DEF WorldOK
    <3> QED BY <1>1, <1>8, <3>1 DEF ReadLine, ReaderOK, Numbers, Complete
  <2>3. pc = "read" /\ UNCHANGED <<valid, pending, crashes>>
    BY <1>8 DEF ReadLine
  <2> QED BY <1>1, <1>2, <2>1, <2>2, <2>3 DEF FlowOK
<1>9. CASE ReadPart
  BY <1>1, <1>9 DEF FlowOK, ReadPart
<1>10. CASE LookUp
  BY <1>1, <1>2, <1>10 DEF FlowOK, LookUp, reader
<1>11. CASE InsertEvent
  BY <1>1, <1>2, <1>11 DEF FlowOK, InsertEvent, reader
<1>12. CASE Send
  <2>1. pending' \in 0..ChanCap
    BY <1>1, <1>12, Bounds DEF FlowOK, Send
  <2> QED BY <1>1, <1>2, <1>12, <2>1 DEF FlowOK, Send, reader
<1>13. CASE Write
  BY <1>1, <1>2, <1>13 DEF FlowOK, Write, reader
<1>14. CASE WriteNewline
  BY <1>1, <1>14 DEF FlowOK, WriteNewline
<1> QED
  BY <1>3, <1>4, <1>5, <1>6, <1>7, <1>8, <1>9, <1>10, <1>11, <1>12, <1>13, <1>14
  DEF Next, NormalizerStep

LEMMA NextType == TypeOK /\ [Next]_vars => TypeOK'
BY LogGrows, CacheType, TrailType, ReaderType, FlowType DEF TypeOK

(* Types; a line is in processLine exactly while that runs, and is the     *)
(* last that was read (ssh.go:331-364, 366-403).                           *)
THEOREM TypeCorrect == Spec => []TypeOK
BY InitType, NextType, PTL DEF Spec

-----------------------------------------------------------------------------
(* What the type invariant says of a step, for the proofs below.           *)

Whole == 1..Complete

LEMMA StepFacts ==
  ASSUME TypeOK, [Next]_vars
  PROVE  /\ Complete \in Nat /\ Whole \subseteq Numbers /\ hasLog' = hasLog
         /\ \A n \in Whole : n \in Whole'
         /\ \A n \in Numbers : n \in Nat /\ n \in Numbers' /\ log'[n] = log[n]
<1>1. WorldOK /\ WorldOK' /\ Grown
  BY LogGrows DEF TypeOK
<1>2. Len(log) \in Nat /\ (half => Len(log) # 0) /\ Len(log)' \in Nat
  BY <1>1, EmptySeq, LenProperties DEF WorldOK
<1>3. Complete \in Nat /\ Whole \subseteq Numbers
  BY <1>2 DEF Complete, Whole, Numbers
<1>4. \A n \in Numbers : n \in Nat
  BY <1>2 DEF Numbers
<1>5. \A n \in Whole : n \in Whole'
  <2>1. Complete <= Complete'
    BY <1>1 DEF Grown
  <2> QED BY <1>2, <2>1 DEF Complete, Whole
<1> QED BY <1>1, <1>3, <1>4, <1>5 DEF Grown

-----------------------------------------------------------------------------
(* Where there is a log, no line from the one that is read next onwards    *)
(* has an event, nor one that is incomplete.                               *)

Reported == stored \cup unstored \cup sent

OrderInv ==
  hasLog =>
    /\ Reported \subseteq Whole
    /\ pc \in Running => \A n \in Reported : n < pos
    /\ pc \in {"users", "insert"} => cur \notin Reported
    /\ pc = "send" => cur \notin sent

LEMMA InitOrder == Init => OrderInv
BY DEF Init, OrderInv, Reported, Running, Busy

LEMMA NextOrder == TypeOK /\ OrderInv /\ [Next]_vars => OrderInv'
<1> SUFFICES ASSUME TypeOK, OrderInv, [Next]_vars, hasLog'
             PROVE  OrderInv'
  BY DEF OrderInv
<1>1. hasLog /\ Complete \in Nat /\ \A n \in Whole : n \in Nat /\ n \in Whole'
  BY StepFacts
<1>2. /\ pos \in Nat /\ pos <= Complete + 1
      /\ pc \in Busy => cur = pos - 1 /\ cur \in Numbers
  BY DEF TypeOK, ReaderOK, FlowOK
<1>3. /\ Reported \subseteq Whole
      /\ pc \in Running => \A n \in Reported : n < pos
      /\ pc \in {"users", "insert"} => cur \notin Reported
      /\ pc = "send" => cur \notin sent
  BY <1>1 DEF OrderInv
<1>4. Reported \subseteq Whole'
  BY <1>1, <1>3
<1>5. pc \in Busy => cur \in Whole /\ cur < pos
  BY <1>1, <1>2, StepFacts DEF Whole, Numbers
<1> USE DEF Busy, Running
<1>6. CASE /\ UNCHANGED <<Reported, sent, cur, pos>>
           /\ pc' \in {"down", "seed", "open", "stopped"} \/ UNCHANGED pc
              \/ (pc = "users" /\ pc' = "insert")
  BY <1>3, <1>4, <1>6 DEF OrderInv
<1>7. CASE Crash
  BY <1>4, <1>7 DEF OrderInv, Crash, trail, Reported
<1>8. CASE OpenLog
  <2>1. \A n \in Reported : n < pos'
    BY <1>1, <1>3, <1>8 DEF OpenLog, Whole
  <2> QED BY <1>4, <1>8, <2>1 DEF OrderInv, OpenLog, trail, Reported
<1>9. CASE ReadLine
  <2>1. \A n \in Reported : n \in Nat /\ n < pos
    BY <1>1, <1>3, <1>9 DEF ReadLine
  <2>2. pos' = pos + 1 /\ UNCHANGED <<Reported, sent>>
    BY <1>9 DEF ReadLine, trail, Reported
  <2>3. \A n \in Reported' : n < pos'
    BY <1>2, <2>1, <2>2
  <2>4. pos \notin Reported
    BY <1>2, <2>1
  <2>5. (pc' = "users" /\ cur' = pos) \/ pc' = "read"
    BY <1>9 DEF ReadLine
  <2> QED BY <1>4, <2>2, <2>3, <2>4, <2>5 DEF OrderInv
<1>10. CASE InsertEvent
  <2>1. /\ Reported' = Reported \cup {cur} /\ sent' = sent /\ pc = "insert"
        /\ pc' = "send" /\ cur' = cur /\ pos' = pos
    BY <1>10 DEF InsertEvent, Reported, reader
  <2> QED BY <1>1, <1>3, <1>4, <1>5, <2>1 DEF OrderInv, Reported
<1>11. CASE Send
  <2>1. /\ Reported' = Reported \cup {cur} /\ pc = "send" /\ pc' = "write"
        /\ cur' = cur /\ pos' = pos
    BY <1>11 DEF Send, Reported, reader
  <2> QED BY <1>1, <1>3, <1>4, <1>5, <2>1 DEF OrderInv
<1>12. CASE Write \/ WriteNewline
  <2>1. /\ Reported' = Reported /\ pos' = pos
        /\ \/ pc = "write" /\ pc' = "newline"
           \/ pc = "newline" /\ pc' = "read"
    BY <1>12 DEF Write, WriteNewline, Reported, reader
  <2> QED BY <1>3, <1>4, <2>1 DEF OrderInv
<1> QED
  BY <1>1, <1>6, <1>7, <1>8, <1>9, <1>10, <1>11, <1>12
  DEF Next, NormalizerStep, vars, Log, LogRest, ChangeUser, Tick, Rotate, OtherEvent,
      Drain, Begin, Seed, Stop, OpenJournal, ReadPart, LookUp, Reported, reader, trail

LEMMA OrderImplies == TypeOK /\ OrderInv => ReportedOnce
<1> SUFFICES ASSUME TypeOK, OrderInv, hasLog
             PROVE  /\ pc = "insert" => \A n \in stored \cup unstored : n < cur
                    /\ pc \in {"insert", "send"} => \A n \in sent : n < cur
  BY DEF ReportedOnce
<1>1. /\ pos \in Nat /\ Reported \subseteq Int
      /\ pc \in {"insert", "send"} => cur = pos - 1
  BY DEF TypeOK, ReaderOK, FlowOK, OrderInv, Whole, Busy
<1>2. /\ pc \in {"insert", "send"} => \A n \in Reported : n < pos
      /\ pc = "insert" => cur \notin Reported
      /\ pc = "send" => cur \notin sent
  BY DEF OrderInv, Running, Busy
<1> QED BY <1>1, <1>2 DEF Reported

(* Events of a log are stored and sent once and in the order of the log,   *)
(* through restarts and rotations (ssh.go:391-403).                        *)
THEOREM EachLineOnce == Spec => []ReportedOnce
<1>1. TypeOK /\ OrderInv /\ [Next]_vars => (TypeOK /\ OrderInv)'
  BY NextType, NextOrder
<1>2. Init => TypeOK /\ OrderInv
  BY InitType, InitOrder
<1> QED BY <1>1, <1>2, OrderImplies, PTL DEF Spec

-----------------------------------------------------------------------------
(* The cache is right about every account that has not changed since the   *)
(* cache was read.                                                         *)

CacheInv ==
  age # Unset =>
    \A u \in Users : changed[u] > age => (u \in userCache <=> u \in passwd)

LEMMA InitCache == Init => CacheInv
BY DEF Init, CacheInv

LEMMA RefreshCache ==
  TypeOK /\ CacheInv /\ refreshUserCache /\ UNCHANGED <<passwd, changed>> => CacheInv'
BY DEF CacheInv, refreshUserCache, Refreshed, NotRefreshed

LEMMA NextCache == TypeOK /\ CacheInv /\ [Next]_vars => CacheInv'
<1> SUFFICES ASSUME TypeOK, CacheInv, [Next]_vars PROVE CacheInv'
  OBVIOUS
<1>1. age \in Age /\ changed \in [Users -> 0..MaxAge] /\ MaxAge \in Nat
  BY Bounds DEF TypeOK, CacheOK, WorldOK, MaxAge
<1>2. CASE Tick
  <2> SUFFICES ASSUME age' # Unset, NEW u \in Users, changed'[u] > age'
               PROVE  u \in userCache <=> u \in passwd
    BY <1>2 DEF Tick, CacheInv
  <2>1. age' = Older(age) /\ changed'[u] = Older(changed[u]) /\ changed[u] \in 0..MaxAge
    BY <1>1, <1>2 DEF Tick
  <2>2. age # Unset /\ changed[u] > age
    BY <1>1, <2>1 DEF Older, Age, Unset
  <2> QED BY <2>2 DEF CacheInv
<1>3. ASSUME NEW v \in Users, ChangeUser(v)
      PROVE  CacheInv'
  <2> SUFFICES ASSUME age' # Unset, NEW u \in Users, changed'[u] > age'
               PROVE  u \in userCache <=> u \in passwd'
    BY <1>3 DEF ChangeUser, cache, CacheInv
  <2>1. age' = age /\ changed' = [changed EXCEPT ![v] = 0]
    BY <1>3 DEF ChangeUser, cache
  <2>2. u # v /\ changed[u] > age
    BY <1>1, <2>1 DEF Age, Unset
  <2>3. u \in passwd' <=> u \in passwd
    BY <1>3, <2>2 DEF ChangeUser
  <2> QED BY <2>1, <2>2, <2>3 DEF CacheInv
<1>4. CASE refreshUserCache /\ UNCHANGED <<passwd, changed>>
  BY <1>4, RefreshCache
<1>5. CASE Crash
  BY <1>5 DEF Crash, CacheInv
<1>6. CASE UNCHANGED <<userCache, age, passwd, changed>>
  BY <1>6 DEF CacheInv
<1> QED
  BY <1>2, <1>3, <1>4, <1>5, <1>6
  DEF Next, NormalizerStep, vars, Log, LogRest, Rotate, OtherEvent, Drain, Begin, Seed,
      Stop, OpenLog, OpenJournal, ReadLine, ReadPart, LookUp, InsertEvent, Send, Write,
      WriteNewline, world, cache

Fresh ==
  (pc = "users" /\ pc' = "insert" /\ ~unreadable')
    => LET u == log[cur].user
       IN  changed[u] > CacheFor => valid' = (u \in passwd)

LEMMA LookUpFresh == TypeOK /\ CacheInv /\ [Next]_vars => Fresh
<1> SUFFICES ASSUME TypeOK, CacheInv, [Next]_vars,
                    pc = "users", pc' = "insert", ~unreadable',
                    changed[log[cur].user] > CacheFor
             PROVE  valid' = (log[cur].user \in passwd)
  BY DEF Fresh
<1>1. LookUp
  BY DEF Next, NormalizerStep, vars, Log, LogRest, ChangeUser, Tick, Rotate, OtherEvent,
         Drain, Crash, Begin, Seed, Stop, OpenLog, OpenJournal, ReadLine, ReadPart,
         InsertEvent, Send, Write, WriteNewline
<1>2. valid' = (log[cur].user \in userCache')
  BY <1>1 DEF LookUp
<1>3. CASE Stale(age)
  <2>1. Refreshed
    BY <1>1, <1>3 DEF LookUp, refreshUserCache, NotRefreshed
  <2> QED BY <1>2, <2>1 DEF Refreshed
<1>4. CASE ~Stale(age)
  <2>1. userCache' = userCache
    BY <1>1, <1>4 DEF LookUp, cache
  <2>2. age # Unset /\ age <= CacheFor /\ age \in Int
    BY <1>4, Bounds DEF Stale, TypeOK, CacheOK, Age, Unset, MaxAge
  <2>3. log[cur].user \in Users
    <3>1. cur \in Numbers
      BY DEF TypeOK, FlowOK, Busy
    <3>2. log[cur] \in Lines
      BY <3>1, ElementOfSeq DEF TypeOK, WorldOK, Numbers
    <3> QED BY <3>2, LinesAssumption DEF Line
  <2>4. changed[log[cur].user] \in Int
    BY <2>3 DEF TypeOK, WorldOK
  <2>5. changed[log[cur].user] > age
    BY <2>2, <2>4, Bounds
  <2>6. log[cur].user \in userCache <=> log[cur].user \in passwd
    BY <2>2, <2>3, <2>5 DEF CacheInv
  <2>7. (log[cur].user \in userCache') = (log[cur].user \in passwd)
    BY <2>1, <2>6
  <2> QED BY <1>2, <2>7
<1> QED BY <1>3, <1>4

(* The validity of a user whose account has been as it is for longer than  *)
(* the cache is kept is right, unless /etc/passwd cannot be read now       *)
(* (ssh.go:28-80, 286).                                                    *)
THEOREM ValidityIsFresh == Spec => FreshUsers
<1>1. TypeOK /\ CacheInv /\ [Next]_vars => (TypeOK /\ CacheInv)'
  BY NextType, NextCache
<1>2. Init => TypeOK /\ CacheInv
  BY InitType, InitCache
<1>3. TypeOK /\ CacheInv /\ [Next]_vars => [Fresh]_vars
  BY LookUpFresh
<1>4. FreshUsers <=> [][Fresh]_vars
  BY DEF FreshUsers, Fresh
<1> QED BY <1>1, <1>2, <1>3, <1>4, PTL DEF Spec

-----------------------------------------------------------------------------
(* The line in processLine is recognised, and is on the trails that its    *)
(* stage is past.                                                          *)

TrailInv ==
  /\ TrailsNested
  /\ pc \in Busy => log[cur].event
  /\ pc \in {"send", "write", "newline"} => cur \in stored \cup unstored
  /\ pc \in {"write", "newline"} => cur \in sent
  /\ tail \in sent \cup {Nothing, Torn}

LEMMA InitTrail == Init => TrailInv
BY DEF Init, TrailInv, TrailsNested, Busy

LEMMA Parsed ==
  ASSUME TypeOK, NEW n \in Numbers, TRUE \in parseSSHLog(n)
  PROVE  log[n].event
<1>1. log[n] \in Lines
  BY ElementOfSeq DEF TypeOK, WorldOK, Numbers
<1>2. log[n].bare => log[n].event
  BY <1>1, LinesAssumption
<1> QED BY <1>2 DEF parseSSHLog

LEMMA NextTrail == TypeOK /\ TrailInv /\ [Next]_vars => TrailInv'
<1> SUFFICES ASSUME TypeOK, TrailInv, [Next]_vars PROVE TrailInv'
  OBVIOUS
<1>1. /\ stored \cup unstored \subseteq Numbers
      /\ pc \in Busy => cur \in Numbers
      /\ pc \in {"down", "seed", "open", "stopped"} \cup Running
  BY DEF TypeOK, TrailOK, FlowOK
<1>2. \A n \in Numbers : log'[n] = log[n]
  BY StepFacts
<1>3. /\ written \cup unwritten \subseteq sent /\ sent \subseteq stored \cup unstored
      /\ \A n \in stored \cup unstored : log[n].event
      /\ pc \in Busy => log[cur].event
      /\ pc \in {"send", "write", "newline"} => cur \in stored \cup unstored
      /\ pc \in {"write", "newline"} => cur \in sent
      /\ tail \in sent \cup {Nothing, Torn}
  BY DEF TrailInv, TrailsNested
<1>4. CASE UNCHANGED trail /\ (UNCHANGED <<pc, cur>> \/ pc' \notin Busy
             \/ (pc = "users" /\ pc' = "insert" /\ UNCHANGED cur))
  BY <1>1, <1>2, <1>3, <1>4 DEF TrailInv, TrailsNested, trail, output, Busy
<1>5. CASE ReadLine
  <2>1. PICK ok \in parseSSHLog(pos) :
          IF ok THEN pc' = "users" /\ cur' = pos ELSE UNCHANGED <<pc, cur>>
    BY <1>5 DEF ReadLine
  <2>2. pos \in Numbers /\ log' = log /\ UNCHANGED trail /\ pc = "read"
    <3>1. pos \in Nat \ {0} /\ pos <= Complete /\ Complete \in Nat
      BY <1>5, StepFacts DEF ReadLine, TypeOK, ReaderOK
    <3> QED BY <1>5, <3>1, StepFacts DEF ReadLine, world, Whole
  <2>3. parseSSHLog(pos) \subseteq BOOLEAN
    <3>1. log[pos] \in Line
      BY <2>2, ElementOfSeq, LinesAssumption DEF TypeOK, WorldOK, Numbers
    <3> QED BY <3>1 DEF parseSSHLog, Line
  <2>4. CASE ok
    <3>1. log[pos].event
      BY <2>2, <2>3, <2>4, Parsed
    <3> QED BY <1>3, <2>1, <2>2, <2>4, <3>1
            DEF TrailInv, TrailsNested, trail, output, Busy
  <2>5. CASE ~ok
    BY <1>4, <2>1, <2>2, <2>5
  <2> QED BY <2>4, <2>5
<1>6. CASE InsertEvent
  <2>1. pc = "insert" /\ pc' = "send" /\ log' = log /\ UNCHANGED <<cur, sent, output>>
        /\ (stored \cup unstored)' = stored \cup unstored \cup {cur}
    BY <1>6 DEF InsertEvent, world
  <2> QED BY <1>3, <2>1 DEF TrailInv, TrailsNested, Busy, output
<1>7. CASE Send
  <2>1. pc = "send" /\ pc' = "write" /\ log' = log
        /\ UNCHANGED <<cur, stored, unstored, output>> /\ sent' = sent \cup {cur}
    BY <1>7 DEF Send, world
  <2> QED BY <1>3, <2>1 DEF TrailInv, TrailsNested, Busy, output
<1>8. CASE Write
  <2>1. /\ pc = "write" /\ pc' = "newline" /\ log' = log
        /\ UNCHANGED <<cur, stored, unstored, sent, written>>
        /\ unwritten' \subseteq unwritten \cup {cur} /\ tail' \in {tail, cur, Torn}
    BY <1>8 DEF Write, world
  <2> QED BY <1>3, <2>1 DEF TrailInv, TrailsNested, Busy
<1>9. CASE WriteNewline
  <2>1. /\ pc = "newline" /\ pc' = "read" /\ log' = log
        /\ UNCHANGED <<stored, unstored, sent>> /\ tail' \in {tail, Nothing}
        /\ unwritten' \subseteq unwritten \cup {cur}
        /\ tail \in {Nothing, Torn} => written' = written
        /\ written' \subseteq written \cup {tail}
    BY <1>9 DEF WriteNewline, EndRecord, world
  <2> QED BY <1>3, <2>1 DEF TrailInv, TrailsNested, Busy
<1> QED
  BY <1>4, <1>5, <1>6, <1>7, <1>8, <1>9
  DEF Next, NormalizerStep, vars, Log, LogRest, ChangeUser, Tick, Rotate, OtherEvent,
      Drain, Crash, Begin, Seed, Stop, OpenLog, OpenJournal, ReadPart, LookUp, Busy

(* The trails only run ahead of each other in the order of processLine,    *)
(* also after a crash in the middle of it, and show nothing that is not    *)
(* in the log (ssh.go:346-363).                                            *)
THEOREM TrailsAgree == Spec => []TrailsNested
<1>1. TypeOK /\ TrailInv /\ [Next]_vars => (TypeOK /\ TrailInv)'
  BY NextType, NextTrail
<1>2. Init => TypeOK /\ TrailInv
  BY InitType, InitTrail
<1>3. TrailInv => TrailsNested
  BY DEF TrailInv
<1> QED BY <1>1, <1>2, <1>3, PTL DEF Spec

-----------------------------------------------------------------------------
(* Lines before the one in processLine are on all trails, and that one is  *)
(* on those that its stage is past.                                        *)

Offered == stored \cup unstored
Output == written \cup unwritten

Due(n) == n \in from..(pos - 1) /\ n \notin torn /\ Recognised(n)

SkipInv ==
  pc \in Running =>
    \A n \in Int : Due(n) =>
      \/ n \in Offered \cap sent \cap Output
      \/ /\ pc \in Busy /\ n = cur
         /\ pc \in {"send", "write", "newline"} => n \in Offered
         /\ pc \in {"write", "newline"} => n \in sent
         /\ pc = "newline" => n \in unwritten \/ n = tail

LEMMA InitSkip == Init => SkipInv
BY DEF Init, SkipInv, Running, Busy

(* A step of another keeps what is due, or makes less of it due.           *)
LEMMA DueStays ==
  ASSUME TypeOK, [Next]_vars, UNCHANGED <<pos, from>>, torn \subseteq torn',
         NEW n \in Int, Due(n)'
  PROVE  Due(n)
<1>1. n \in from..(pos - 1) /\ n \notin torn
  BY DEF Due
<1>2. n \in Numbers
  <2>1. pos \in Nat /\ from \in Nat \ {0} /\ pos <= Complete + 1 /\ Complete \in Nat
    BY StepFacts DEF TypeOK, ReaderOK
  <2>2. n \in Whole
    BY <1>1, <2>1 DEF Whole
  <2> QED BY <2>2, StepFacts
<1>3. log'[n] = log[n] /\ hasLog' = hasLog
  BY <1>2, StepFacts
<1> QED BY <1>1, <1>3 DEF Due, Recognised

LEMMA NextSkip == TypeOK /\ SkipInv /\ [Next]_vars => SkipInv'
<1> SUFFICES ASSUME TypeOK, SkipInv, [Next]_vars, (pc \in Running)',
                    NEW n \in Int, Due(n)'
             PROVE  (\/ n \in Offered \cap sent \cap Output
                     \/ /\ pc \in Busy /\ n = cur
                        /\ pc \in {"send", "write", "newline"} => n \in Offered
                        /\ pc \in {"write", "newline"} => n \in sent
                        /\ pc = "newline" => n \in unwritten \/ n = tail)'
  BY DEF SkipInv
<1>1. /\ pos \in Nat \ {0} /\ from \in Nat \ {0} /\ torn \in SUBSET Int
      /\ pc \in Busy => cur = pos - 1
  BY StepFacts DEF TypeOK, ReaderOK, FlowOK
<1> USE DEF Running, Busy, Offered, Output
<1>2. CASE OpenLog
  <2>1. n \in from'..(pos' - 1)
    BY DEF Due
  <2>2. from' = Len(log) + 1 /\ pos' = Complete + 1
    BY <1>2 DEF OpenLog
  <2>3. Complete <= Len(log) /\ Complete \in Nat /\ Len(log) \in Nat
    BY LenProperties, StepFacts DEF TypeOK, WorldOK, Complete
  <2> QED BY <2>1, <2>2, <2>3
<1>3. CASE OpenJournal
  <2>1. n \in from'..(pos' - 1)
    BY DEF Due
  <2>2. from' = pos' /\ pos' \in Int
    BY <1>3, NextType DEF OpenJournal, TypeOK, ReaderOK
  <2>3. \A p \in Int : n \notin p..(p - 1)
    OBVIOUS
  <2> QED BY <2>1, <2>2, <2>3
<1>4. CASE ReadLine
  <2>1. PICK ok \in parseSSHLog(pos) :
          IF ok THEN pc' = "users" /\ cur' = pos ELSE UNCHANGED <<pc, cur>>
    BY <1>4 DEF ReadLine
  <2>2. /\ pos' = pos + 1 /\ pc = "read" /\ log' = log /\ hasLog' = hasLog
        /\ UNCHANGED <<from, torn, stored, unstored, sent, output>>
    BY <1>4 DEF ReadLine, world, trail
  <2>3. CASE n = pos
    <3>1. n \notin torn /\ (IF hasLog THEN log[n].event ELSE log[n].bare)
      BY <2>2 DEF Due, Recognised
    <3>2. ok
      BY <2>1, <2>3, <3>1 DEF parseSSHLog
    <3> QED BY <2>1, <2>3, <3>2
  <2>4. CASE n # pos
    <3>1. Due(n)
      BY <1>1, <2>2, <2>4 DEF Due, Recognised
    <3> QED BY <2>2, <3>1 DEF SkipInv, output
  <2> QED BY <2>3, <2>4
<1>5. CASE InsertEvent
  <2>1. /\ pc = "insert" /\ pc' = "send" /\ cur' = cur /\ UNCHANGED <<sent, output>>
        /\ Offered' = Offered \cup {cur} /\ Due(n)
    BY <1>5, DueStays DEF InsertEvent, reader
  <2> QED BY <2>1 DEF SkipInv, output
<1>6. CASE Send
  <2>1. /\ pc = "send" /\ pc' = "write" /\ cur' = cur /\ UNCHANGED <<Offered, output>>
        /\ sent' = sent \cup {cur} /\ Due(n)
    BY <1>6, DueStays DEF Send, reader
  <2> QED BY <2>1 DEF SkipInv, output
<1>7. CASE Write
  <2>1. /\ pc = "write" /\ pc' = "newline" /\ cur' = cur /\ UNCHANGED <<Offered, sent>>
        /\ written' = written /\ unwritten \subseteq unwritten' /\ Due(n)
        /\ cur \in unwritten' \/ cur = tail'
    BY <1>7, DueStays DEF Write, reader
  <2> QED BY <2>1 DEF SkipInv
<1>8. CASE WriteNewline
  <2>1. /\ pc = "newline" /\ UNCHANGED <<Offered, sent>> /\ Due(n)
        /\ written \subseteq written' /\ unwritten \subseteq unwritten'
        /\ n = cur /\ n = tail => n \in Output'
    <3>1. tail = cur /\ pc = "newline" => tail \notin {Nothing, Torn}
      BY DEF TypeOK, FlowOK, Numbers, Nothing, Torn
    <3> QED BY <1>8, <3>1, DueStays DEF WriteNewline, EndRecord, reader
  <2> QED BY <2>1 DEF SkipInv
<1>9. CASE /\ UNCHANGED <<trail, pos, from, cur>> /\ torn \subseteq torn'
           /\ UNCHANGED pc \/ (pc = "users" /\ pc' = "insert")
  <2>1. Due(n)
    BY <1>9, DueStays
  <2> QED BY <1>9, <2>1 DEF SkipInv, trail, output
<1> QED
  BY <1>2, <1>3, <1>4, <1>5, <1>6, <1>7, <1>8, <1>9
  DEF Next, NormalizerStep, vars, Log, LogRest, ChangeUser, Tick, Rotate, OtherEvent,
      Drain, Crash, Begin, Seed, Stop, ReadPart, LookUp, reader

(* Every recognised line that was not read in parts is on all three trails *)
(* once the reader is past it, but for a record that a failed Write, or a  *)
(* file that was left within a record, spoils (ssh.go:331-364, 394-402).   *)
THEOREM NoLineSkipped == Spec => []NothingSkipped
<1>1. TypeOK /\ SkipInv /\ [Next]_vars => (TypeOK /\ SkipInv)'
  BY NextType, NextSkip
<1>2. Init => TypeOK /\ SkipInv
  BY InitType, InitSkip
<1>3. TypeOK /\ SkipInv => NothingSkipped
  <2>1. TypeOK => pos \in Int /\ from \in Int
    BY DEF TypeOK, ReaderOK
  <2> QED BY <2>1 DEF SkipInv, NothingSkipped, Due, Offered, Output
<1> QED BY <1>1, <1>2, <1>3, PTL DEF Spec
=============================================================================
