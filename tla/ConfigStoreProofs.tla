-------------------------- MODULE ConfigStoreProofs --------------------------
(***************************************************************************)
(* Proofs about the settings in memory and on disk, for every set of       *)
(* request handlers, of fields and of values, and any number of requests   *)
(* and crashes.                                                            *)
(***************************************************************************)
EXTENDS ConfigStore, TLAPS

Saving == {"truncate", "write", "publish"}

(* LoadConfig runs before any request: there is no GlobalConfig without a  *)
(* running program (main.go starts, config.go:66).                         *)
DownIsEmpty == ~up => global = "nil"

(* What a save encoded is what its struct still holds, unless some other   *)
(* request is still copying: it cannot come out of the copy before the     *)
(* mutex is free.                                                          *)
EncodedIsCurrent ==
  \A h \in Handlers :
    (pc[h] \in Saving /\ \A k \in Handlers \ {h} : pc[k] # "copy")
      => data[h] = heap[ptr[h]]

(* A written file holds what its writer encoded until it releases the      *)
(* mutex.                                                                  *)
WrittenIsEncoded == \A h \in Handlers : pc[h] = "publish" => file = data[h]

(* A request that nothing overlapped: the others are idle, and its         *)
(* settings have come as far as the step it has reached.                   *)
SoloIsAlone == \A h \in solo : Alone(h)

SoloProgress ==
  \A h \in solo :
    /\ pc[h] = "copy" => \A f \in Fields \ uncopied[h] : heap[ptr[h]][f] = post[h][f]
    /\ pc[h] \in Inside \cup {"reply"} => heap[ptr[h]] = post[h]
    /\ pc[h] \in Saving => data[h] = post[h]
    /\ pc[h] = "reply" => file = post[h] /\ global = ptr[h]

(* No save has opened the file while settings count as acknowledged.       *)
SettledIsUnopened ==
  settled # {} => \A h \in Handlers : pc[h] \notin {"write", "publish", "reply"}

IInv ==
  /\ TypeOK
  /\ DownIsEmpty
  /\ EncodedIsCurrent /\ WrittenIsEncoded /\ QuietAgreement
  /\ SoloIsAlone /\ SoloProgress
  /\ SettledIsUnopened /\ AcknowledgedSurvive

-----------------------------------------------------------------------------
(* Types, and the mutex.                                                   *)

LEMMA DefaultIsSettings == DefaultConfig \in Settings
BY ConstantsAssumption DEF DefaultConfig, Settings

LEMMA InitType == Init => TypeOK
<1> SUFFICES ASSUME Init PROVE TypeOK
  OBVIOUS
<1>1. /\ up \in BOOLEAN /\ unsaved \in BOOLEAN /\ apart \in BOOLEAN
      /\ global \in Structs \cup {"nil"}
      /\ file \in {Absent, Damaged} \cup Settings
      /\ mutex \in Handlers \cup {None}
      /\ solo \in SUBSET Handlers /\ settled \in SUBSET Settings
  BY DEF Init
<1>2. /\ heap \in [Structs -> Settings]
      /\ post \in [Handlers -> Settings] /\ data \in [Handlers -> Settings]
      /\ before \in [Handlers -> Settings]
  BY DefaultIsSettings DEF Init
<1>3. /\ pc \in [Handlers -> {"idle", "copy", "reply"} \cup Inside]
      /\ ptr \in [Handlers -> Structs]
      /\ uncopied \in [Handlers -> SUBSET Fields]
  BY DEF Init, Idle, Structs
<1>4. posts \in 0..MaxPosts /\ crashes \in 0..MaxCrashes
  BY ConstantsAssumption DEF Init
<1>5. \A h \in Handlers : mutex # h /\ pc[h] = "idle"
  BY ConstantsAssumption DEF Init, Idle
<1> QED BY <1>1, <1>2, <1>3, <1>4, <1>5 DEF TypeOK, Inside

LEMMA LoadType == TypeOK /\ LoadConfig => TypeOK'
<1> SUFFICES ASSUME TypeOK, LoadConfig PROVE TypeOK'
  OBVIOUS
<1>1. UNCHANGED <<mutex, pc, post, ptr, uncopied, data, posts, crashes, before, solo,
                  settled>>
  BY DEF LoadConfig, handlers, bounds
<1>2. /\ up' \in BOOLEAN
      /\ file' \in {Absent, Damaged} \cup Settings
      /\ global' \in Structs \cup {"nil"}
  <2>1. "loaded" \in Structs
    BY DEF Structs
  <2> QED BY <2>1, DefaultIsSettings DEF LoadConfig, TypeOK
<1>4. unsaved' \in BOOLEAN /\ apart' \in BOOLEAN
  BY DEF LoadConfig, TypeOK
<1>5. heap' \in [Structs -> Settings]
  BY DefaultIsSettings DEF LoadConfig, TypeOK, Whole
<1>3. \A h \in Handlers : pc[h] = "idle"
  BY DEF LoadConfig, TypeOK
<1> QED BY <1>1, <1>2, <1>3, <1>4, <1>5 DEF TypeOK

LEMMA CrashType == TypeOK /\ Crash => TypeOK'
<1> SUFFICES ASSUME TypeOK, Crash PROVE TypeOK'
  OBVIOUS
<1>1. UNCHANGED <<file, post, ptr, uncopied, data, posts, unsaved, before, solo,
                  settled, apart>>
  BY DEF Crash, ghosts
<1>2. /\ up' \in BOOLEAN /\ mutex' = None /\ global' = "nil"
      /\ pc' \in [Handlers -> {"idle", "copy", "reply"} \cup Inside]
  BY DEF Crash, Idle
<1>3. heap' \in [Structs -> Settings]
  BY DefaultIsSettings DEF Crash
<1>4. crashes' \in 0..MaxCrashes
  BY ConstantsAssumption DEF Crash, TypeOK
<1>5. \A h \in Handlers : pc'[h] = "idle" /\ mutex' # h
  BY <1>2, ConstantsAssumption DEF Crash, Idle
<1> QED BY <1>1, <1>2, <1>3, <1>4, <1>5 DEF TypeOK, Inside

(* A struct a handler writes into is one of the structs in memory, and     *)
(* stays settings whatever field is written.                               *)
LEMMA CopyKeepsSettings ==
  ASSUME TypeOK, NEW h \in Handlers, NEW f \in Fields
  PROVE  [heap EXCEPT ![ptr[h]][f] = post[h][f]] \in [Structs -> Settings]
BY DEF TypeOK, Settings

LEMMA InForceIsSettings == TypeOK => InForce \in Settings
BY DefaultIsSettings DEF TypeOK, InForce

LEMMA PostType ==
  ASSUME TypeOK, NEW h \in Handlers, NEW new \in Settings, Post(h, new)
  PROVE  TypeOK'
<1>1. UNCHANGED <<up, global, file, mutex, data, crashes, unsaved, settled, apart>>
  BY DEF Post
<1>2. /\ posts' \in 0..MaxPosts
      /\ post' \in [Handlers -> Settings]
      /\ uncopied' \in [Handlers -> SUBSET Fields]
      /\ solo' \in SUBSET Handlers
  BY ConstantsAssumption DEF Post, TypeOK
<1>3. before' \in [Handlers -> Settings]
  BY InForceIsSettings DEF Post, TypeOK
<1>4. /\ ptr' \in [Handlers -> Structs]
      /\ heap' \in [Structs -> Settings]
  <2>1. h \in Structs
    BY DEF Structs
  <2> QED BY <2>1, DefaultIsSettings DEF Post, TypeOK
<1>5. /\ up /\ pc[h] = "idle"
      /\ pc' = [pc EXCEPT ![h] = "copy"]
  BY DEF Post, Step
<1>6. pc' \in [Handlers -> {"idle", "copy", "reply"} \cup Inside]
  BY <1>5 DEF TypeOK
<1>7. \A k \in Handlers :
        /\ (mutex' = k) <=> (pc'[k] \in Inside)
        /\ (pc'[k] # "idle") => up'
  BY <1>1, <1>5 DEF TypeOK, Inside
<1>8. \A k \in Handlers : (pc'[k] # "idle" /\ ptr'[k] = "loaded") => global' # "nil"
  BY <1>1, <1>5, ConstantsAssumption DEF Post, TypeOK
<1> QED BY <1>1, <1>2, <1>3, <1>4, <1>6, <1>7, <1>8 DEF TypeOK

LEMMA HandleType ==
  ASSUME TypeOK, NEW h \in Handlers, Handle(h)
  PROVE  TypeOK'
<1>1. ASSUME NEW f \in Fields, CopyField(h, f) PROVE TypeOK'
  <2>1. heap' \in [Structs -> Settings]
    BY <1>1, CopyKeepsSettings DEF CopyField
  <2>2. pc' = pc
    BY <1>1 DEF CopyField, Step, TypeOK
  <2>3. uncopied' \in [Handlers -> SUBSET Fields]
    BY <1>1 DEF CopyField, TypeOK
  <2>4. /\ apart' \in BOOLEAN
        /\ UNCHANGED <<up, global, file, mutex, post, ptr, data, posts, crashes,
                       unsaved, before, solo, settled>>
    BY <1>1 DEF CopyField, bounds
  <2> QED BY <2>1, <2>2, <2>3, <2>4 DEF TypeOK
<1>2. CASE LockForSave(h)
  BY <1>2, ConstantsAssumption DEF LockForSave, Step, TypeOK, Inside, bounds, ghosts
<1>3. CASE Encode(h)
  BY <1>3 DEF Encode, Step, TypeOK, Inside, bounds, ghosts
<1>4. CASE Truncate(h)
  BY <1>4 DEF Truncate, Step, TypeOK, Inside, bounds
<1>5. CASE Write(h)
  BY <1>5 DEF Write, Step, TypeOK, Inside, bounds, ghosts
<1>6. CASE SaveFails(h)
  BY <1>6, ConstantsAssumption DEF SaveFails, TypeOK, Inside, bounds
<1>7. CASE Publish(h)
  <2>1. ptr[h] \in Structs /\ ptr[h] # "nil"
    BY ConstantsAssumption DEF TypeOK, Structs
  <2> QED BY <1>7, <2>1, ConstantsAssumption DEF Publish, Step, TypeOK, Inside, bounds
<1>8. CASE Reply(h)
  <2>1. settled' \in SUBSET Settings /\ apart' \in BOOLEAN
    BY <1>8 DEF Reply, TypeOK
  <2> QED BY <1>8, <2>1 DEF Reply, Step, TypeOK, Inside, bounds
<1> QED BY <1>1, <1>2, <1>3, <1>4, <1>5, <1>6, <1>7, <1>8 DEF Handle

LEMMA NextType == TypeOK /\ [Next]_vars => TypeOK'
<1> SUFFICES ASSUME TypeOK, [Next]_vars PROVE TypeOK'
  OBVIOUS
<1>1. CASE UNCHANGED vars
  BY <1>1 DEF vars, handlers, bounds, ghosts, TypeOK
<1>2. CASE LoadConfig
  BY <1>2, LoadType
<1>3. CASE Crash
  BY <1>3, CrashType
<1>4. ASSUME NEW h \in Handlers, Handle(h) PROVE TypeOK'
  BY <1>4, HandleType
<1>5. ASSUME NEW h \in Handlers, NEW new \in Settings, Post(h, new) PROVE TypeOK'
  BY <1>5, PostType
<1> QED BY <1>1, <1>2, <1>3, <1>4, <1>5 DEF Next

(* The types hold, configMutex is held exactly by the handler that is      *)
(* inside SaveConfig, and so at most one save is under way                 *)
(* (config.go:103-139).                                                    *)
THEOREM TypeCorrect == Spec => []TypeOK
<1>1. Init => TypeOK
  BY InitType
<1>2. TypeOK /\ [Next]_vars => TypeOK'
  BY NextType
<1> QED BY <1>1, <1>2, PTL DEF Spec

-----------------------------------------------------------------------------
(* What is encoded, written and acknowledged.                              *)

LEMMA InitInv == Init => IInv
<1> SUFFICES ASSUME Init PROVE IInv
  OBVIOUS
<1>1. TypeOK
  BY InitType
<1>2. DownIsEmpty /\ QuietAgreement
  BY DEF Init, DownIsEmpty, QuietAgreement
<1>3. EncodedIsCurrent /\ WrittenIsEncoded
  BY DEF Init, Idle, EncodedIsCurrent, WrittenIsEncoded, Saving
<1>4. SoloIsAlone /\ SoloProgress /\ SettledIsUnopened /\ AcknowledgedSurvive
  BY DEF Init, SoloIsAlone, SoloProgress, SettledIsUnopened, AcknowledgedSurvive
<1> QED BY <1>1, <1>2, <1>3, <1>4 DEF IInv

(* Settings that were acknowledged are those a restart loads.              *)
LEMMA LoadInv ==
  ASSUME IInv, LoadConfig
  PROVE  IInv'
<1> USE DEF IInv
<1>1. TypeOK'
  BY LoadType
<1>2. /\ ~up /\ up' = TRUE /\ global = "nil"
      /\ UNCHANGED <<pc, post, ptr, uncopied, data, solo, settled>>
  BY DEF LoadConfig, DownIsEmpty, handlers
<1>3. \A h \in Handlers : pc[h] = "idle"
  BY <1>2 DEF TypeOK
<1>4. DownIsEmpty' /\ EncodedIsCurrent' /\ WrittenIsEncoded'
  BY <1>2, <1>3 DEF DownIsEmpty, EncodedIsCurrent, WrittenIsEncoded, Saving
<1>5. SoloIsAlone' /\ SoloProgress' /\ SettledIsUnopened'
  BY <1>2, <1>3 DEF SoloIsAlone, SoloProgress, SettledIsUnopened, Alone, Saving, Inside,
     TypeOK
<1>6. global' = "nil" \/ unsaved' \/ file' = heap'[global']
  BY <1>2 DEF LoadConfig, TypeOK, Structs
<1>7. QuietAgreement'
  BY <1>6 DEF QuietAgreement
<1>8. ASSUME NEW c \in settled PROVE file' = c /\ (~apart' => InForce' = c)
  <2>1. file = c /\ c \in Settings
    BY <1>8 DEF AcknowledgedSurvive, TypeOK
  <2>2. file # Absent /\ file # Damaged
    BY <2>1, ConstantsAssumption DEF Settings
  <2>3. "loaded" \in Structs
    BY DEF Structs
  <2>4. /\ file' = file
        /\ ~apart' => global' = "loaded" /\ heap'["loaded"] = file
    BY <2>2, <2>3 DEF LoadConfig, TypeOK
  <2> QED BY <2>1, <2>4 DEF InForce
<1>9. AcknowledgedSurvive'
  BY <1>2, <1>8 DEF AcknowledgedSurvive
<1> QED BY <1>1, <1>4, <1>5, <1>7, <1>9

LEMMA CrashInv ==
  ASSUME IInv, Crash
  PROVE  IInv'
<1> USE DEF IInv
<1>1. TypeOK'
  BY CrashType
<1>2. /\ up' = FALSE /\ global' = "nil" /\ pc' = Idle
      /\ UNCHANGED <<file, solo, settled>>
  BY DEF Crash, ghosts
<1>3. \A h \in Handlers : pc'[h] = "idle"
  BY <1>2 DEF Idle
<1>4. DownIsEmpty' /\ EncodedIsCurrent' /\ WrittenIsEncoded' /\ QuietAgreement'
  BY <1>2, <1>3 DEF DownIsEmpty, EncodedIsCurrent, WrittenIsEncoded, QuietAgreement,
     Saving
<1>5. SoloIsAlone' /\ SoloProgress' /\ SettledIsUnopened' /\ AcknowledgedSurvive'
  BY <1>1, <1>2, <1>3 DEF SoloIsAlone, SoloProgress, SettledIsUnopened,
     AcknowledgedSurvive, Alone, Saving, Inside, TypeOK, Idle
<1> QED BY <1>1, <1>4, <1>5

(* A new request leaves the settings in force as they are, and counts as   *)
(* alone only when every other handler is idle.                            *)
LEMMA PostInv ==
  ASSUME IInv, NEW h \in Handlers, NEW new \in Settings, Post(h, new)
  PROVE  IInv'
<1> USE DEF IInv
<1>1. TypeOK'
  BY PostType
<1>2. /\ up /\ pc[h] = "idle" /\ pc' = [pc EXCEPT ![h] = "copy"]
      /\ solo' = (IF Alone(h) THEN {h} ELSE {})
      /\ uncopied' = [uncopied EXCEPT ![h] = Fields]
      /\ UNCHANGED <<up, file, data, settled, apart>>
  BY DEF Post, Step
<1>3. pc'[h] = "copy" /\ \A k \in Handlers \ {h} : pc'[k] = pc[k]
  BY <1>2 DEF TypeOK
<1>4. DownIsEmpty' /\ QuietAgreement'
  BY <1>2, <1>3 DEF DownIsEmpty, QuietAgreement
<1>5. EncodedIsCurrent'
  BY <1>3 DEF EncodedIsCurrent, Saving
<1>6. WrittenIsEncoded'
  BY <1>2, <1>3 DEF WrittenIsEncoded
<1>7. SoloIsAlone'
  BY <1>2, <1>3 DEF SoloIsAlone, Alone
<1>8. SoloProgress'
  <2>1. uncopied'[h] = Fields
    BY <1>2 DEF TypeOK
  <2> QED BY <1>2, <1>3, <2>1 DEF SoloProgress, Inside, Saving
<1>9. InForce' = InForce
  BY DEF Post, InForce
<1>10. SettledIsUnopened' /\ AcknowledgedSurvive'
  BY <1>2, <1>3, <1>9 DEF SettledIsUnopened, AcknowledgedSurvive
<1> QED BY <1>1, <1>4, <1>5, <1>6, <1>7, <1>8, <1>10

(* A handler at work is up, and if any request is alone it is this one.    *)
LEMMA AtWork ==
  ASSUME IInv, NEW h \in Handlers, pc[h] # "idle"
  PROVE  /\ up
         /\ solo \subseteq {h}
         /\ h \in solo => \A k \in Handlers \ {h} : pc[k] = "idle"
BY DEF IInv, TypeOK, SoloIsAlone, Alone

(* Only one handler is inside SaveConfig.                                  *)
LEMMA OneSaves ==
  ASSUME TypeOK, NEW h \in Handlers, NEW k \in Handlers,
         pc[h] \in Inside, pc[k] \in Inside
  PROVE  h = k
BY DEF TypeOK

LEMMA CopyInv ==
  ASSUME IInv, NEW h \in Handlers, NEW f \in Fields, CopyField(h, f)
  PROVE  IInv'
<1> USE DEF IInv
<1>1. TypeOK'
  BY HandleType DEF Handle
<1>2. /\ up /\ pc[h] = "copy" /\ pc' = pc
      /\ heap' = [heap EXCEPT ![ptr[h]][f] = post[h][f]]
      /\ uncopied' = [uncopied EXCEPT ![h] = @ \ {f}]
      /\ apart' = TRUE
      /\ UNCHANGED <<up, global, file, post, ptr, data, unsaved, solo, settled>>
  BY DEF CopyField, Step, TypeOK
<1>3. solo \subseteq {h}
  BY <1>2, AtWork
<1>4. DownIsEmpty' /\ WrittenIsEncoded' /\ QuietAgreement'
  BY <1>2 DEF DownIsEmpty, WrittenIsEncoded, QuietAgreement
<1>5. EncodedIsCurrent'
  BY <1>2 DEF EncodedIsCurrent, Saving
<1>6. SoloIsAlone'
  BY <1>2 DEF SoloIsAlone, Alone
<1>7. SoloProgress'
  <2> SUFFICES ASSUME h \in solo, NEW g \in Fields \ uncopied'[h]
               PROVE  heap'[ptr[h]][g] = post[h][g]
    BY <1>2, <1>3 DEF SoloProgress, Inside, Saving
  <2>1. ptr[h] \in Structs /\ heap[ptr[h]] \in [Fields -> Values]
    BY DEF TypeOK, Settings
  <2>2. heap'[ptr[h]] = [heap[ptr[h]] EXCEPT ![f] = post[h][f]]
    BY <1>2, <2>1 DEF TypeOK
  <2>3. CASE g = f
    BY <2>1, <2>2, <2>3
  <2>4. CASE g # f
    <3>1. g \notin uncopied[h]
      BY <1>2, <2>4 DEF TypeOK
    <3>2. heap[ptr[h]][g] = post[h][g]
      BY <1>2, <3>1 DEF SoloProgress
    <3> QED BY <2>1, <2>2, <2>4, <3>2
  <2> QED BY <2>3, <2>4
<1>8. SettledIsUnopened' /\ AcknowledgedSurvive'
  BY <1>2 DEF SettledIsUnopened, AcknowledgedSurvive
<1> QED BY <1>1, <1>4, <1>5, <1>6, <1>7, <1>8

LEMMA LockInv ==
  ASSUME IInv, NEW h \in Handlers, LockForSave(h)
  PROVE  IInv'
<1> USE DEF IInv
<1>1. TypeOK'
  BY HandleType DEF Handle
<1>2. /\ up /\ pc[h] = "copy" /\ uncopied[h] = {} /\ mutex = None
      /\ pc' = [pc EXCEPT ![h] = "encode"]
      /\ UNCHANGED <<up, heap, global, file, post, ptr, uncopied, data, unsaved, solo,
                     settled, apart>>
  BY DEF LockForSave, Step, ghosts
<1>3. solo \subseteq {h}
  BY <1>2, AtWork
<1>4. /\ pc'[h] = "encode" /\ \A k \in Handlers \ {h} : pc'[k] = pc[k]
      /\ \A k \in Handlers : pc[k] \notin Inside
  BY <1>2, ConstantsAssumption DEF TypeOK
<1>5. DownIsEmpty' /\ QuietAgreement'
  BY <1>2, <1>4 DEF DownIsEmpty, QuietAgreement
<1>6. EncodedIsCurrent' /\ WrittenIsEncoded'
  BY <1>4 DEF EncodedIsCurrent, WrittenIsEncoded, Saving, Inside
<1>7. SoloIsAlone'
  BY <1>2, <1>3, <1>4 DEF SoloIsAlone, Alone
<1>8. SoloProgress'
  <2>1. ASSUME h \in solo PROVE heap[ptr[h]] = post[h]
    <3>1. \A f \in Fields : heap[ptr[h]][f] = post[h][f]
      BY <1>2, <2>1 DEF SoloProgress
    <3>2. heap[ptr[h]] \in [Fields -> Values] /\ post[h] \in [Fields -> Values]
      BY DEF TypeOK, Settings
    <3> QED BY <3>1, <3>2
  <2> QED BY <1>2, <1>3, <1>4, <2>1 DEF SoloProgress, Saving
<1>9. SettledIsUnopened' /\ AcknowledgedSurvive'
  BY <1>2, <1>4 DEF SettledIsUnopened, AcknowledgedSurvive, InForce
<1> QED BY <1>1, <1>5, <1>6, <1>7, <1>8, <1>9

LEMMA EncodeInv ==
  ASSUME IInv, NEW h \in Handlers, Encode(h)
  PROVE  IInv'
<1> USE DEF IInv
<1>1. TypeOK'
  BY HandleType DEF Handle
<1>2. /\ up /\ pc[h] = "encode" /\ pc' = [pc EXCEPT ![h] = "truncate"]
      /\ data' = [data EXCEPT ![h] = heap[ptr[h]]]
      /\ UNCHANGED <<up, heap, global, file, post, ptr, uncopied, unsaved, solo,
                     settled, apart>>
  BY DEF Encode, Step, ghosts
<1>3. solo \subseteq {h}
  BY <1>2, AtWork
<1>4. /\ pc'[h] = "truncate" /\ data'[h] = heap[ptr[h]]
      /\ \A k \in Handlers \ {h} : pc'[k] = pc[k] /\ data'[k] = data[k]
      /\ \A k \in Handlers \ {h} : pc[k] \notin Inside
  BY <1>2, OneSaves DEF TypeOK, Inside
<1>5. DownIsEmpty' /\ QuietAgreement'
  BY <1>2, <1>4 DEF DownIsEmpty, QuietAgreement
<1>6. EncodedIsCurrent' /\ WrittenIsEncoded'
  BY <1>2, <1>4 DEF EncodedIsCurrent, WrittenIsEncoded, Saving, Inside
<1>7. SoloIsAlone'
  BY <1>2, <1>3, <1>4 DEF SoloIsAlone, Alone
<1>8. SoloProgress'
  BY <1>2, <1>3, <1>4 DEF SoloProgress, Saving, Inside
<1>9. SettledIsUnopened' /\ AcknowledgedSurvive'
  BY <1>2, <1>4 DEF SettledIsUnopened, AcknowledgedSurvive, InForce
<1> QED BY <1>1, <1>5, <1>6, <1>7, <1>8, <1>9

LEMMA TruncateInv ==
  ASSUME IInv, NEW h \in Handlers, Truncate(h)
  PROVE  IInv'
<1> USE DEF IInv
<1>1. TypeOK'
  BY HandleType DEF Handle
<1>2. /\ up /\ pc[h] = "truncate" /\ pc' = [pc EXCEPT ![h] = "write"]
      /\ UNCHANGED <<up, heap, global, post, ptr, uncopied, data, unsaved, solo>>
      /\ settled' = {}
  BY DEF Truncate, Step
<1>3. solo \subseteq {h}
  BY <1>2, AtWork
<1>4. /\ pc'[h] = "write"
      /\ \A k \in Handlers \ {h} : pc'[k] = pc[k] /\ pc[k] \notin Inside
  BY <1>2, OneSaves DEF TypeOK, Inside
<1>5. DownIsEmpty' /\ QuietAgreement'
  BY <1>2, <1>4 DEF DownIsEmpty, QuietAgreement
<1>6. EncodedIsCurrent' /\ WrittenIsEncoded'
  BY <1>2, <1>4 DEF EncodedIsCurrent, WrittenIsEncoded, Saving, Inside
<1>7. SoloIsAlone' /\ SoloProgress'
  BY <1>2, <1>3, <1>4 DEF SoloIsAlone, Alone, SoloProgress, Saving, Inside
<1>8. SettledIsUnopened' /\ AcknowledgedSurvive'
  BY <1>2 DEF SettledIsUnopened, AcknowledgedSurvive
<1> QED BY <1>1, <1>5, <1>6, <1>7, <1>8

LEMMA WriteInv ==
  ASSUME IInv, NEW h \in Handlers, Write(h)
  PROVE  IInv'
<1> USE DEF IInv
<1>1. TypeOK'
  BY HandleType DEF Handle
<1>2. /\ up /\ pc[h] = "write" /\ pc' = [pc EXCEPT ![h] = "publish"]
      /\ file' = data[h]
      /\ UNCHANGED <<up, heap, global, post, ptr, uncopied, data, unsaved, solo,
                     settled, apart>>
  BY DEF Write, Step, ghosts
<1>3. solo \subseteq {h}
  BY <1>2, AtWork
<1>4. /\ pc'[h] = "publish"
      /\ \A k \in Handlers \ {h} : pc'[k] = pc[k] /\ pc[k] \notin Inside
  BY <1>2, OneSaves DEF TypeOK, Inside
<1>5. DownIsEmpty' /\ QuietAgreement'
  BY <1>2, <1>4 DEF DownIsEmpty, QuietAgreement
<1>6. EncodedIsCurrent' /\ WrittenIsEncoded'
  BY <1>2, <1>4 DEF EncodedIsCurrent, WrittenIsEncoded, Saving, Inside
<1>7. SoloIsAlone' /\ SoloProgress'
  BY <1>2, <1>3, <1>4 DEF SoloIsAlone, Alone, SoloProgress, Saving, Inside
<1>8. SettledIsUnopened' /\ AcknowledgedSurvive'
  BY <1>2 DEF SettledIsUnopened, AcknowledgedSurvive
<1> QED BY <1>1, <1>5, <1>6, <1>7, <1>8

(* A save that fails leaves memory ahead of the file, and says so: unsaved *)
(* is set until the next save that succeeds.                               *)
LEMMA FailInv ==
  ASSUME IInv, NEW h \in Handlers, SaveFails(h)
  PROVE  IInv'
<1> USE DEF IInv
<1>1. TypeOK'
  BY HandleType DEF Handle
<1>2. /\ up /\ pc[h] \in Inside /\ pc' = [pc EXCEPT ![h] = "idle"] /\ unsaved' = TRUE
      /\ UNCHANGED <<up, heap, global, file, post, ptr, uncopied, data, solo, settled,
                     apart>>
  BY DEF SaveFails, Inside
<1>3. solo \subseteq {h}
  BY <1>2, AtWork DEF Inside
<1>4. /\ pc'[h] = "idle"
      /\ \A k \in Handlers \ {h} : pc'[k] = pc[k] /\ pc[k] \notin Inside
  BY <1>2, OneSaves DEF TypeOK, Inside
<1>5. DownIsEmpty' /\ QuietAgreement'
  BY <1>2 DEF DownIsEmpty, QuietAgreement
<1>6. EncodedIsCurrent' /\ WrittenIsEncoded'
  BY <1>2, <1>4 DEF EncodedIsCurrent, WrittenIsEncoded, Saving, Inside
<1>7. SoloIsAlone' /\ SoloProgress'
  BY <1>2, <1>3, <1>4 DEF SoloIsAlone, Alone, SoloProgress, Saving, Inside
<1>8. SettledIsUnopened' /\ AcknowledgedSurvive'
  BY <1>2, <1>4 DEF SettledIsUnopened, AcknowledgedSurvive, InForce
<1> QED BY <1>1, <1>5, <1>6, <1>7, <1>8

(* The last of overlapping requests to publish encoded its struct after    *)
(* the others had come out of their copies.                                *)
LEMMA PublishInv ==
  ASSUME IInv, NEW h \in Handlers, Publish(h)
  PROVE  IInv'
<1> USE DEF IInv
<1>1. TypeOK'
  BY HandleType DEF Handle
<1>2. /\ up /\ pc[h] = "publish" /\ pc' = [pc EXCEPT ![h] = "reply"]
      /\ global' = ptr[h]
      /\ UNCHANGED <<up, heap, file, post, ptr, uncopied, data, solo, settled,
                     apart>>
  BY DEF Publish, Step
<1>3. solo \subseteq {h}
  BY <1>2, AtWork
<1>4. /\ pc'[h] = "reply"
      /\ \A k \in Handlers \ {h} : pc'[k] = pc[k] /\ pc[k] \notin Inside
  BY <1>2, OneSaves DEF TypeOK, Inside
<1>5. DownIsEmpty'
  BY <1>2 DEF DownIsEmpty
<1>6. QuietAgreement'
  <2> SUFFICES ASSUME \A k \in Handlers : pc'[k] \in {"idle", "reply"}
               PROVE  file = heap[ptr[h]]
    BY <1>2 DEF QuietAgreement
  <2>1. \A k \in Handlers \ {h} : pc[k] # "copy"
    BY <1>4
  <2> QED BY <1>2, <2>1 DEF EncodedIsCurrent, WrittenIsEncoded, Saving
<1>7. EncodedIsCurrent' /\ WrittenIsEncoded'
  BY <1>2, <1>4 DEF EncodedIsCurrent, WrittenIsEncoded, Saving, Inside
<1>8. SoloIsAlone' /\ SoloProgress'
  BY <1>2, <1>3, <1>4 DEF SoloIsAlone, Alone, SoloProgress, WrittenIsEncoded, Saving,
     Inside
<1>9. SettledIsUnopened' /\ AcknowledgedSurvive'
  BY <1>2 DEF SettledIsUnopened, AcknowledgedSurvive
<1> QED BY <1>1, <1>5, <1>6, <1>7, <1>8, <1>9

LEMMA ReplyInv ==
  ASSUME IInv, NEW h \in Handlers, Reply(h)
  PROVE  IInv'
<1> USE DEF IInv
<1>1. TypeOK'
  BY HandleType DEF Handle
<1>2. /\ up /\ pc[h] = "reply" /\ pc' = [pc EXCEPT ![h] = "idle"]
      /\ settled' = (IF h \in solo THEN {post[h]} ELSE {})
      /\ UNCHANGED <<up, heap, global, file, post, ptr, uncopied, data, unsaved, solo>>
  BY DEF Reply, Step
<1>3. solo \subseteq {h} /\ (h \in solo => \A k \in Handlers \ {h} : pc[k] = "idle")
  BY <1>2, AtWork
<1>4. pc'[h] = "idle" /\ \A k \in Handlers \ {h} : pc'[k] = pc[k]
  BY <1>2 DEF TypeOK
<1>5. DownIsEmpty' /\ QuietAgreement'
  BY <1>2, <1>4 DEF DownIsEmpty, QuietAgreement
<1>6. EncodedIsCurrent' /\ WrittenIsEncoded'
  BY <1>2, <1>4 DEF EncodedIsCurrent, WrittenIsEncoded, Saving
<1>7. SoloIsAlone' /\ SoloProgress'
  BY <1>2, <1>3, <1>4 DEF SoloIsAlone, Alone, SoloProgress, Saving, Inside
<1>8. SettledIsUnopened'
  BY <1>1, <1>2, <1>3, <1>4 DEF SettledIsUnopened, Idle, TypeOK
<1>9. AcknowledgedSurvive'
  <2> SUFFICES ASSUME h \in solo
               PROVE  file = post[h] /\ InForce = post[h]
    BY <1>2 DEF AcknowledgedSurvive, InForce
  <2>1. file = post[h] /\ global = ptr[h] /\ heap[ptr[h]] = post[h]
    BY <1>2 DEF SoloProgress
  <2>2. ptr[h] # "nil"
    BY ConstantsAssumption DEF TypeOK, Structs
  <2> QED BY <2>1, <2>2 DEF InForce
<1> QED BY <1>1, <1>5, <1>6, <1>7, <1>8, <1>9

LEMMA NextInv == IInv /\ [Next]_vars => IInv'
<1> SUFFICES ASSUME IInv, [Next]_vars PROVE IInv'
  OBVIOUS
<1>1. CASE UNCHANGED vars
  <2>1. TypeOK'
    BY NextType DEF IInv
  <2> QED BY <1>1, <2>1 DEF vars, handlers, bounds, ghosts, IInv, DownIsEmpty,
     EncodedIsCurrent, WrittenIsEncoded, QuietAgreement, SoloIsAlone, SoloProgress,
     SettledIsUnopened, AcknowledgedSurvive, InForce, Alone
<1>2. CASE LoadConfig
  BY <1>2, LoadInv
<1>3. CASE Crash
  BY <1>3, CrashInv
<1>4. ASSUME NEW h \in Handlers, NEW new \in Settings, Post(h, new) PROVE IInv'
  BY <1>4, PostInv
<1>5. ASSUME NEW h \in Handlers, Handle(h) PROVE IInv'
  BY <1>5, CopyInv, LockInv, EncodeInv, TruncateInv, WriteInv, FailInv, PublishInv,
     ReplyInv DEF Handle
<1> QED BY <1>1, <1>2, <1>3, <1>4, <1>5 DEF Next

(* The inductive invariant of the settings.                                *)
LEMMA InvHolds == Spec => []IInv
<1>1. Init => IInv
  BY InitInv
<1>2. IInv /\ [Next]_vars => IInv'
  BY NextInv
<1> QED BY <1>1, <1>2, PTL DEF Spec

(* Settings acknowledged to a request that no other overlapped stay in the *)
(* file until a later save opens it, whatever crashes, restarts and failed *)
(* saves come before that, and are in force until a later request copies   *)
(* and after every restart that reads the file (server.go:262-276,         *)
(* config.go:66-130).                                                      *)
THEOREM AcknowledgedSafe == Spec => []AcknowledgedSurvive
<1>1. IInv => AcknowledgedSurvive
  BY DEF IInv
<1> QED BY <1>1, InvHolds, PTL

(* However requests interleave their copies and their saves, the file      *)
(* holds what is in force once none is at work and the last save did not   *)
(* fail (server.go:262-265, config.go:104-128).                            *)
THEOREM QuietAgrees == Spec => []QuietAgreement
<1>1. IInv => QuietAgreement
  BY DEF IInv
<1> QED BY <1>1, InvHolds, PTL
=============================================================================
