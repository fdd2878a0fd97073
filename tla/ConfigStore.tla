---------------------------- MODULE ConfigStore -----------------------------
(***************************************************************************)
(* The SSH settings in memory and on disk (internal/config/config.go), the *)
(* HTTP requests that post new ones (internal/api/server.go, in            *)
(* handleSSHConfig), failures of the disk, and crashes of the program.     *)
(*                                                                         *)
(* GetConfig hands out the pointer GlobalConfig, or a fresh struct of      *)
(* defaults while it is nil; the handler then copies the posted settings   *)
(* into that struct with no lock, one field after the other, and only      *)
(* SaveConfig takes configMutex.                                           *)
(***************************************************************************)
EXTENDS Integers, FiniteSets

CONSTANTS
  Handlers,   \* request handlers that can run at the same time
  Fields,     \* the fields of the settings
  Values,     \* their values
  Default,    \* the value of every field in DefaultConfig
  None,       \* no handler
  Absent,     \* there is no settings file
  Damaged,    \* the file cannot be decoded
  MaxPosts,   \* bound: requests
  MaxCrashes  \* bound: crashes

ASSUME ConstantsAssumption ==
  /\ Default \in Values
  /\ None \notin Handlers /\ Handlers \cap {"loaded", "nil"} = {}
  /\ Absent \notin [Fields -> Values] /\ Damaged \notin [Fields -> Values]
  /\ Absent # Damaged
  /\ MaxPosts \in Nat /\ MaxCrashes \in Nat

Settings == [Fields -> Values]
DefaultConfig == [f \in Fields |-> Default]

(* The structs in memory: the one LoadConfig made, and for each handler    *)
(* the one that GetConfig made for it while GlobalConfig was nil.          *)
Structs == {"loaded"} \cup Handlers

VARIABLES
  up,        \* the program runs
  heap,      \* contents of the structs
  global,    \* GlobalConfig: a struct, or "nil"
  file,      \* the file: Absent, Damaged, or settings
  mutex,     \* configMutex: the handler that holds it for writing, or None
  pc,        \* per handler, what it does next
  post,      \* per handler, the settings of its request
  ptr,       \* per handler, the struct GetConfig returned
  uncopied,  \* per handler, fields not yet copied
  data,      \* per handler, the settings it encoded for the file
  posts, crashes,
  unsaved,   \* ghost: a save failed, and none succeeded since
  before,    \* ghost: per handler, the settings in force when it began
  solo,      \* ghost: the handler that no other request overlapped, if any
  settled,   \* ghost: the settings last acknowledged to such a request,
             \* until a later save opens the file
  apart      \* ghost: the settings in force may be others: a field was copied
             \* since, or the program could not read the file when it started

handlers == <<pc, post, ptr, uncopied, data>>
bounds == <<posts, crashes>>
ghosts == <<unsaved, before, solo, settled, apart>>
vars == <<up, heap, global, file, mutex, handlers, bounds, ghosts>>

Idle == [h \in Handlers |-> "idle"]

Init ==
  /\ up = FALSE
  /\ heap = [s \in Structs |-> DefaultConfig]
  /\ global = "nil"
  /\ file \in {Absent, Damaged} \cup Settings
  /\ mutex = None
  /\ pc = Idle
  /\ post = [h \in Handlers |-> DefaultConfig]
  /\ ptr = [h \in Handlers |-> h]
  /\ uncopied = [h \in Handlers |-> {}]
  /\ data = [h \in Handlers |-> DefaultConfig]
  /\ posts = 0 /\ crashes = 0
  /\ unsaved = FALSE
  /\ before = [h \in Handlers |-> DefaultConfig]
  /\ solo = {} /\ settled = {} /\ apart = FALSE

Whole == file \notin {Absent, Damaged}

-----------------------------------------------------------------------------
(* The program starts.  A missing file is written with the defaults, with  *)
(* no look at the error; one that cannot be decoded, or be read, leaves    *)
(* GlobalConfig nil, and the program goes on.                              *)
LoadConfig ==
  /\ ~up /\ up' = TRUE
  /\ \/ /\ file = Absent
        /\ file' \in {Absent, Damaged, DefaultConfig}
        /\ heap' = [heap EXCEPT !["loaded"] = DefaultConfig]
        /\ global' = "loaded"
        /\ unsaved' = (file' # DefaultConfig) /\ apart' = FALSE
     \/ /\ Whole
        /\ heap' = [heap EXCEPT !["loaded"] = file]
        /\ global' = "loaded"
        /\ unsaved' = FALSE /\ apart' = FALSE
        /\ file' = file
     \/ /\ file # Absent /\ apart' = TRUE
        /\ UNCHANGED <<file, heap, global, unsaved>>
  /\ UNCHANGED <<mutex, handlers, bounds, before, solo, settled>>

(* The program dies and its memory with it; the file stays as it is, and a *)
(* file that was truncated stays damaged.                                  *)
Crash ==
  /\ up /\ crashes < MaxCrashes
  /\ up' = FALSE /\ crashes' = crashes + 1
  /\ global' = "nil" /\ mutex' = None
  /\ heap' = [s \in Structs |-> DefaultConfig]
  /\ pc' = Idle
  /\ UNCHANGED <<file, post, ptr, uncopied, data, posts, ghosts>>

-----------------------------------------------------------------------------
(* One request. *)

Step(h, from, to) ==
  /\ up /\ pc[h] = from
  /\ pc' = [pc EXCEPT ![h] = to]

Alone(h) == \A k \in Handlers \ {h} : pc[k] = "idle"

InForce == IF global = "nil" THEN DefaultConfig ELSE heap[global]

(* The request is decoded and GetConfig called. *)
Post(h, new) ==
  /\ posts < MaxPosts /\ posts' = posts + 1
  /\ Step(h, "idle", "copy")
  /\ post' = [post EXCEPT ![h] = new]
  /\ uncopied' = [uncopied EXCEPT ![h] = Fields]
  /\ \/ /\ global = "nil"
        /\ ptr' = [ptr EXCEPT ![h] = h]
        /\ heap' = [heap EXCEPT ![h] = DefaultConfig]
     \/ /\ global # "nil"
        /\ ptr' = [ptr EXCEPT ![h] = global]
        /\ heap' = heap
  /\ before' = [before EXCEPT ![h] = InForce]
  /\ solo' = IF Alone(h) THEN {h} ELSE {}
  /\ UNCHANGED <<up, global, file, mutex, data, crashes, unsaved, settled, apart>>

CopyField(h, f) ==
  /\ Step(h, "copy", "copy") /\ f \in uncopied[h]
  /\ uncopied' = [uncopied EXCEPT ![h] = @ \ {f}]
  /\ heap' = [heap EXCEPT ![ptr[h]][f] = post[h][f]]
  /\ apart' = TRUE
  /\ UNCHANGED <<up, global, file, mutex, post, ptr, data, bounds, unsaved, before,
                 solo, settled>>

(* Mutant of LockForSave: the save does not wait for the mutex. *)
SaveUnlocked(h) ==
  /\ Step(h, "copy", "encode") /\ uncopied[h] = {}
  /\ mutex' = h
  /\ UNCHANGED <<up, heap, global, file, post, ptr, uncopied, data, bounds, ghosts>>

LockForSave(h) ==
  /\ Step(h, "copy", "encode") /\ uncopied[h] = {}
  /\ mutex = None /\ mutex' = h
  /\ UNCHANGED <<up, heap, global, file, post, ptr, uncopied, data, bounds, ghosts>>

(* The directory is made and the settings are encoded from the struct. *)
Encode(h) ==
  /\ Step(h, "encode", "truncate")
  /\ data' = [data EXCEPT ![h] = heap[ptr[h]]]
  /\ UNCHANGED <<up, heap, global, file, mutex, post, ptr, uncopied, bounds, ghosts>>

(* os.WriteFile truncates the file, and what was acknowledged before is    *)
(* gone from it, and then writes it.                                       *)
Truncate(h) ==
  /\ Step(h, "truncate", "write")
  /\ file' = Damaged
  /\ settled' = {}
  /\ UNCHANGED <<up, heap, global, mutex, post, ptr, uncopied, data, bounds, unsaved,
                 before, solo, apart>>

Write(h) ==
  /\ Step(h, "write", "publish")
  /\ file' = data[h]
  /\ UNCHANGED <<up, heap, global, mutex, post, ptr, uncopied, data, bounds, ghosts>>

(* Mutant of SaveFails: the mutex stays locked when the save fails. *)
SaveFailsLocked(h) ==
  /\ up /\ pc[h] \in {"encode", "truncate", "write"}
  /\ pc' = [pc EXCEPT ![h] = "idle"] /\ unsaved' = TRUE
  /\ UNCHANGED <<up, heap, global, file, mutex, post, ptr, uncopied, data, bounds,
                 before, solo, settled, apart>>

(* The directory or the file cannot be written: reply 500. *)
SaveFails(h) ==
  /\ up /\ pc[h] \in {"encode", "truncate", "write"}
  /\ pc' = [pc EXCEPT ![h] = "idle"] /\ mutex' = None
  /\ unsaved' = TRUE
  /\ UNCHANGED <<up, heap, global, file, post, ptr, uncopied, data, bounds, before,
                 solo, settled, apart>>

(* Mutant of Publish: GlobalConfig keeps its old value. *)
PublishNothing(h) ==
  /\ Step(h, "publish", "reply")
  /\ mutex' = None /\ unsaved' = FALSE
  /\ UNCHANGED <<up, heap, global, file, post, ptr, uncopied, data, bounds, before,
                 solo, settled, apart>>

(* GlobalConfig is set and the mutex released. *)
Publish(h) ==
  /\ Step(h, "publish", "reply")
  /\ global' = ptr[h] /\ mutex' = None
  /\ unsaved' = FALSE
  /\ UNCHANGED <<up, heap, file, post, ptr, uncopied, data, bounds, before, solo,
                 settled, apart>>

(* Reply 200 with the posted settings. *)
Reply(h) ==
  /\ Step(h, "reply", "idle")
  /\ settled' = IF h \in solo THEN {post[h]} ELSE {}
  /\ apart' = FALSE
  /\ UNCHANGED <<up, heap, global, file, mutex, post, ptr, uncopied, data, bounds,
                 unsaved, before, solo>>

-----------------------------------------------------------------------------
Handle(h) ==
  \/ \E f \in Fields : CopyField(h, f)
  \/ LockForSave(h) \/ Encode(h) \/ Truncate(h) \/ Write(h) \/ SaveFails(h)
  \/ Publish(h) \/ Reply(h)

Next ==
  \/ LoadConfig \/ Crash
  \/ \E h \in Handlers : Handle(h) \/ \E new \in Settings : Post(h, new)

Spec == Init /\ [][Next]_vars

(* A handler keeps running, and one that waits for the mutex gets it.  The *)
(* program need not be restarted after a crash.                            *)
Fairness ==
  \A h \in Handlers : WF_vars(Handle(h)) /\ SF_vars(LockForSave(h))

FairSpec == Spec /\ Fairness

-----------------------------------------------------------------------------
(* Properties. *)

Inside == {"encode", "truncate", "write", "publish"}

(* Types; configMutex is held exactly inside SaveConfig, and a handler     *)
(* works on a struct of its own or on the shared one (config.go:103-139).  *)
TypeOK ==
  /\ up \in BOOLEAN
  /\ heap \in [Structs -> Settings]
  /\ global \in Structs \cup {"nil"}
  /\ file \in {Absent, Damaged} \cup Settings
  /\ mutex \in Handlers \cup {None}
  /\ pc \in [Handlers -> {"idle", "copy", "reply"} \cup Inside]
  /\ post \in [Handlers -> Settings]
  /\ ptr \in [Handlers -> Structs]
  /\ uncopied \in [Handlers -> SUBSET Fields]
  /\ data \in [Handlers -> Settings]
  /\ posts \in 0..MaxPosts /\ crashes \in 0..MaxCrashes
  /\ unsaved \in BOOLEAN
  /\ before \in [Handlers -> Settings]
  /\ solo \in SUBSET Handlers
  /\ settled \in SUBSET Settings /\ apart \in BOOLEAN
  /\ \A h \in Handlers :
       /\ (mutex = h) <=> (pc[h] \in Inside)
       /\ (pc[h] # "idle") => up
       /\ (pc[h] # "idle" /\ ptr[h] = "loaded") => global # "nil"

(* Settings acknowledged to a request that no other overlapped stay in the *)
(* file until a later save opens it: through crashes and restarts, later   *)
(* requests that are still copying and saves that failed before they       *)
(* opened it, also when the program had started without readable settings. *)
(* While the program runs they are the settings in force until a later     *)
(* request copies, and again after a restart that can read the file        *)
(* (server.go:262-276, config.go:66-130).  It promises no more: a later    *)
(* save that opened the file has destroyed them, and when it then fails,   *)
(* or the program dies, before its own settings are written                *)
(* (config.go:124), the next start finds neither.                          *)
AcknowledgedSurvive ==
  \A c \in settled : file = c /\ (up /\ ~apart => InForce = c)

(* When no request is at work, the file holds what is in force, although   *)
(* requests copy into one struct with no lock and their saves can come in  *)
(* another order than their copies; unless the last save failed            *)
(* (server.go:262-265, config.go:104-128).                                 *)
QuietAgreement ==
  (up /\ global # "nil" /\ ~unsaved /\ \A h \in Handlers : pc[h] \in {"idle", "reply"})
    => file = heap[global]

(* A request is answered: the mutex is released on every path of           *)
(* SaveConfig (config.go:104-129).                                         *)
RequestsEnd == \A h \in Handlers : (pc[h] # "idle") ~> (pc[h] = "idle")

(* "Failed to save config" (server.go:266): a request that is answered     *)
(* with this error, and that no other overlapped, changes nothing.         *)
RefusedChangesNothing ==
  [][\A h \in solo :
       (up' /\ pc[h] \in Inside \ {"publish"} /\ pc'[h] = "idle")
         => InForce = before[h]]_vars
=============================================================================
