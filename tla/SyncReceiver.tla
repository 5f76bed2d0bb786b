----------------------------- MODULE SyncReceiver -----------------------------
(***************************************************************************)
(* The delivery-only receiver (src/sync.rs, src/storage.rs, src/state.rs,  *)
(* src/wallpaper.rs): a run downloads what the relay still has pending     *)
(* into a content-addressed library, records it in state.json, confirms    *)
(* receipt, and hands confirmed images to a wallpaper command.  Every save *)
(* writes the whole state from memory; the process may die, and a save or  *)
(* a request may fail, at every step.                                      *)
(*                                                                         *)
(* The state lock admits one run at a time, so there is one process.  The  *)
(* relay is reduced to which deliveries it has pending (RelayStore); once  *)
(* a receipt is taken it no longer lists the delivery or has its content.  *)
(***************************************************************************)
EXTENDS Integers

CONSTANTS
  Deliveries,  \* delivery ids
  Objects,     \* digests: names of objects in the library
  ObjectOf,    \* [Deliveries -> Objects]
  Images,      \* objects whose content is an image
  Old,         \* deliveries that an earlier release may have received already
  None,        \* no record
  MaxFails,    \* bound: crashes, failed saves and failed requests
  MaxDamage,   \* bound: library files damaged or removed from outside
  MaxRetries   \* bound: explicit retry commands

Statuses == {"ack_pending", "acknowledged"}
Wallpapers == {"pending", "not_applicable", "not_configured", "running", "applied",
               "failed", "uncertain"}
Record == [status : Statuses, wallpaper : Wallpapers, error : BOOLEAN]

ASSUME SyncAssumption ==
  /\ ObjectOf \in [Deliveries -> Objects]
  /\ Images \subseteq Objects
  /\ Old \subseteq Deliveries
  /\ MaxFails \in Nat /\ MaxDamage \in Nat /\ MaxRetries \in Nat
  /\ None \notin Record

VARIABLES
  library,     \* the object at each content-addressed path
  disk,        \* state.json
  mem,         \* the state of the run
  pending,     \* relay: deliveries without a receipt
  received,    \* relay: deliveries with one
  mode,        \* what the run was started for
  configured,  \* whether the run's configuration names a wallpaper command
  todo,        \* deliveries the current loop has still to visit
  handled,     \* deliveries the run has reconciled before its scan
  cur,         \* the delivery being processed
  pc,          \* the next step
  fails, damages, retries,  \* bounded counters
  \* what happened, kept for the properties only:
  world,       \* the recorded outcome of the last command started for a delivery
  released,    \* deliveries an explicit retry took up without a command configured
  cleared,     \* uncertain ones that an explicit retry took up and could not start
  damaged      \* objects that were ever damaged from outside

relay == <<pending, received>>
setup == <<mode, configured>>
loop == <<todo, handled, cur>>
ghosts == <<world, released, cleared, damaged>>
vars == <<library, disk, mem, pending, received, mode, configured, todo, handled,
          cur, pc, fails, damages, retries, world, released, cleared, damaged>>

State == [Deliveries -> Record \cup {None}]

\* What the variables range over.
TypeOK ==
  /\ library \in [Objects -> {"absent", "good", "bad"}]
  /\ disk \in State /\ mem \in State
  /\ pending \subseteq Deliveries /\ received \subseteq Deliveries
  /\ pending \cap received = {}
  /\ mode \in {"sync", "retry", "retry_uncertain"}
  /\ configured \in BOOLEAN
  /\ todo \subseteq Deliveries /\ handled \subseteq Deliveries
  /\ cur \in Deliveries \cup {None}
  /\ pc \in {"stopped", "interrupted", "acks", "ack_send", "ack_record", "ack_error",
             "deliver", "receive", "record", "confirm", "settle", "deliver_error",
             "prepare", "queue", "launch", "command"}
  /\ fails \in 0..MaxFails /\ damages \in 0..MaxDamage /\ retries \in 0..MaxRetries
  /\ world \in [Deliveries -> {"none", "unknown", "failed", "applied"}]
  /\ released \subseteq Deliveries /\ cleared \subseteq Deliveries /\ damaged \subseteq Objects

\* An earlier release queued every delivery for the wallpaper command, whatever
\* its content was (legacy_non_images).
Init ==
  /\ received \in SUBSET Old /\ pending = {}
  /\ library = [o \in Objects |->
                  IF \E d \in received : ObjectOf[d] = o THEN "good" ELSE "absent"]
  /\ disk = [d \in Deliveries |->
               IF d \in received THEN [status |-> "acknowledged", wallpaper |-> "pending",
                                       error |-> FALSE]
                                ELSE None]
  /\ mem = disk
  /\ mode = "sync" /\ configured = TRUE
  /\ todo = {} /\ handled = {} /\ cur = None /\ pc = "stopped"
  /\ fails = 0 /\ damages = 0 /\ retries = 0
  /\ world = [d \in Deliveries |-> "none"]
  /\ released = {} /\ cleared = {} /\ damaged = {}

-----------------------------------------------------------------------------
(* Helpers *)

\* verify_recorded_file
Verified(d) == library[ObjectOf[d]] = "good"

\* is_image_media_type: the media type is told by the content.
IsImage(d) == ObjectOf[d] \in Images

\* Why a step may go wrong.
Failing == fails < MaxFails /\ fails' = fails + 1

\* save: state.json becomes the state in memory, or the save fails and memory
\* is ahead of the disk.
Save(next, failed) ==
  \/ disk' = mem' /\ pc' = next /\ UNCHANGED fails
  \/ Failing /\ pc' = failed /\ UNCHANGED disk

Update(d, record) == mem' = [mem EXCEPT ![d] = record]

\* delivery_error is set and saved.
NoteError(d, next, failed) ==
  Update(d, [mem[d] EXCEPT !.error = TRUE]) /\ Save(next, failed)

\* Mutant: a record with an error is left alone.
AckPendingClean(state) ==
  {d \in Deliveries :
     state[d] # None /\ state[d].status = "ack_pending" /\ ~state[d].error}

AckPending(state) ==
  {d \in Deliveries : state[d] # None /\ state[d].status = "ack_pending"}

\* Records of other files that are not marked as such.
LegacyNonImages(state) ==
  {d \in Deliveries : /\ state[d] # None
                      /\ ~IsImage(d)
                      /\ state[d].wallpaper # "not_applicable"}

\* The states process_wallpaper_queue takes up in each mode.
Eligible(state) ==
  LET retried == CASE mode = "sync" -> {"pending", "not_configured"}
                   [] mode = "retry" -> {"pending", "not_configured", "failed"}
                   [] mode = "retry_uncertain" ->
                        {"pending", "not_configured", "failed", "uncertain"}
  IN {d \in Deliveries :
        /\ state[d] # None
        /\ state[d].status = "acknowledged"
        /\ state[d].wallpaper \in retried}

-----------------------------------------------------------------------------
(* sync_once_with_events and retry_wallpapers: from start to scan *)

\* load: the state of the last save; a file that does not parse ends the run.
Load == mem' = disk

Begin(m) ==
  /\ pc = "stopped"
  /\ mode' = m
  /\ configured' \in BOOLEAN
  /\ Load
  /\ pc' = "interrupted" /\ todo' = {} /\ handled' = {} /\ cur' = None
  /\ UNCHANGED <<library, disk, relay, fails, damages, ghosts>>

\* sync_once_with_events: the state and the library are locked, the state is
\* loaded and stale staging files are removed.
Start == Begin("sync") /\ UNCHANGED retries

\* retry_wallpapers: only the wallpaper queue, without the library's lock.
StartRetry(m) ==
  /\ retries < MaxRetries
  /\ retries' = retries + 1
  /\ Begin(m)

\* Mutant: an interrupted command is queued again.
InterruptedAgain ==
  /\ pc = "interrupted"
  /\ LET running == {d \in Deliveries : mem[d] # None /\ mem[d].wallpaper = "running"}
         next == IF mode = "sync" THEN "acks" ELSE "prepare"
     IN /\ mem' = [d \in Deliveries |->
                     IF d \in running THEN [mem[d] EXCEPT !.wallpaper = "pending"]
                                      ELSE mem[d]]
        /\ IF running = {} THEN pc' = next /\ UNCHANGED <<disk, fails>>
                           ELSE Save(next, "stopped")
  /\ todo' = IF mode = "sync" THEN AckPending(mem) ELSE {}
  /\ UNCHANGED <<library, relay, setup, handled, cur, damages, retries, ghosts>>

\* reconcile_interrupted_wallpapers
Interrupted ==
  /\ pc = "interrupted"
  /\ LET running == {d \in Deliveries : mem[d] # None /\ mem[d].wallpaper = "running"}
         next == IF mode = "sync" THEN "acks" ELSE "prepare"
     IN /\ mem' = [d \in Deliveries |->
                     IF d \in running THEN [mem[d] EXCEPT !.wallpaper = "uncertain"]
                                      ELSE mem[d]]
        /\ IF running = {} THEN pc' = next /\ UNCHANGED <<disk, fails>>
                           ELSE Save(next, "stopped")
  /\ todo' = IF mode = "sync" THEN AckPending(mem) ELSE {}
  /\ UNCHANGED <<library, relay, setup, handled, cur, damages, retries, ghosts>>

\* reconcile_pending_acks, one record: only a file that is still good is
\* confirmed; another is left for the scan to repair.
AckVerify(d) ==
  /\ pc = "acks"
  /\ d \in todo
  /\ todo' = todo \ {d}
  /\ cur' = d
  /\ \/ /\ Verified(d)
        /\ handled' = handled \cup {d}
        /\ pc' = "ack_send"
        /\ UNCHANGED <<mem, disk, fails>>
     \/ /\ ~Verified(d)
        /\ NoteError(d, "acks", "stopped")
        /\ UNCHANGED handled
  /\ UNCHANGED <<library, relay, setup, damages, retries, ghosts>>

\* source.acknowledge: idempotent.  An error may hide a receipt that was taken.
Acknowledge(d, next) ==
  /\ pending' = pending \ {d}
  /\ received' = received \cup {d}
  /\ pc' = next

AckSend ==
  /\ pc = "ack_send"
  /\ \/ Acknowledge(cur, "ack_record") /\ UNCHANGED fails
     \/ Acknowledge(cur, "ack_error") /\ Failing
     \/ pc' = "ack_error" /\ Failing /\ UNCHANGED relay
  /\ UNCHANGED <<library, disk, mem, setup, loop, damages, retries, ghosts>>

AckError ==
  /\ pc = "ack_error"
  /\ NoteError(cur, "acks", "stopped")
  /\ UNCHANGED <<library, relay, setup, loop, damages, retries, ghosts>>

AckRecord ==
  /\ pc = "ack_record"
  /\ Update(cur, [mem[cur] EXCEPT !.status = "acknowledged", !.error = FALSE])
  /\ Save("acks", "stopped")
  /\ UNCHANGED <<library, relay, setup, loop, damages, retries, ghosts>>

\* scan_pending; deliveries that were reconciled are passed over.
Scan ==
  /\ pc = "acks"
  /\ todo = {}
  /\ todo' = pending \ handled
  /\ pc' = "deliver"
  /\ UNCHANGED <<library, disk, mem, relay, setup, handled, cur, fails, damages,
                 retries, ghosts>>

-----------------------------------------------------------------------------
(* process_delivery: an error ends this delivery, and the run goes on *)

\* Mutant: the damaged file stays in the way.
DeliverInPlace(d) ==
  /\ pc = "deliver"
  /\ d \in todo
  /\ todo' = todo \ {d}
  /\ cur' = d
  /\ pc' = IF mem[d] # None /\ Verified(d) THEN "confirm" ELSE "receive"
  /\ UNCHANGED <<library, disk, mem, relay, setup, handled, fails, damages, retries,
                 ghosts>>

\* quarantine_content_object: a suspect object is renamed into the staging area.
Quarantine(o) == library' = [library EXCEPT ![o] = "absent"]

\* A known delivery is listed again: its file is confirmed if still good, and
\* otherwise moved out of the way and downloaded again.
Deliver(d) ==
  /\ pc = "deliver"
  /\ d \in todo
  /\ todo' = todo \ {d}
  /\ cur' = d
  /\ \/ /\ mem[d] = None
        /\ pc' = "receive"
        /\ UNCHANGED <<library, fails>>
     \/ /\ mem[d] # None /\ Verified(d)
        /\ pc' = "confirm"
        /\ UNCHANGED <<library, fails>>
     \/ /\ mem[d] # None /\ ~Verified(d)
        /\ \/ Quarantine(ObjectOf[d]) /\ pc' = "receive" /\ UNCHANGED fails
           \/ Failing /\ pc' = "deliver" /\ UNCHANGED library
  /\ UNCHANGED <<disk, mem, relay, setup, handled, damages, retries, ghosts>>

Unreceived == IF mem[cur] = None THEN "deliver" ELSE "deliver_error"

\* receive: the bytes are staged, verified, synced and linked without replacing
\* a file; one that is already there is used if it is good and refused if not.
Receive ==
  /\ pc = "receive"
  /\ LET object == ObjectOf[cur]
     IN \/ /\ library[object] # "bad"
           /\ library' = [library EXCEPT ![object] = "good"]
           /\ pc' = "record"
           /\ UNCHANGED fails
        \/ /\ library[object] = "bad"
           /\ pc' = Unreceived
           /\ UNCHANGED <<library, fails>>
        \/ /\ Failing
           /\ pc' = Unreceived
           /\ UNCHANGED library
  /\ UNCHANGED <<disk, mem, relay, setup, loop, damages, retries, ghosts>>

\* The record of a delivery that is stored for the first time.
NewRecord(d) ==
  [status |-> "ack_pending", error |-> FALSE,
   wallpaper |-> IF IsImage(d) THEN "pending" ELSE "not_applicable"]

\* A repair keeps what is known of the receipt and of the wallpaper.
RepairedRecord(d) == [mem[d] EXCEPT !.error = FALSE]

\* Mutant: the receipt is sent although the record could not be saved.
RecordStoredAnyway ==
  /\ pc = "record"
  /\ Update(cur, IF mem[cur] = None THEN NewRecord(cur) ELSE RepairedRecord(cur))
  /\ Save("confirm", "confirm")
  /\ UNCHANGED <<library, relay, setup, loop, damages, retries, ghosts>>

RecordStored ==
  /\ pc = "record"
  /\ Update(cur, IF mem[cur] = None THEN NewRecord(cur) ELSE RepairedRecord(cur))
  /\ Save("confirm", "deliver")
  /\ UNCHANGED <<library, relay, setup, loop, damages, retries, ghosts>>

Confirm ==
  /\ pc = "confirm"
  /\ \/ Acknowledge(cur, "settle") /\ UNCHANGED fails
     \/ Acknowledge(cur, "deliver_error") /\ Failing
     \/ pc' = "deliver_error" /\ Failing /\ UNCHANGED relay
  /\ UNCHANGED <<library, disk, mem, setup, loop, damages, retries, ghosts>>

\* The relay lists no delivery whose record is settled, so there is always
\* something to write.
Settle ==
  /\ pc = "settle"
  /\ mem[cur].status # "acknowledged" \/ mem[cur].error
  /\ Update(cur, [mem[cur] EXCEPT !.status = "acknowledged", !.error = FALSE])
  /\ Save("deliver", "deliver")
  /\ UNCHANGED <<library, relay, setup, loop, damages, retries, ghosts>>

DeliverError ==
  /\ pc = "deliver_error"
  /\ NoteError(cur, "deliver", "deliver")
  /\ UNCHANGED <<library, relay, setup, loop, damages, retries, ghosts>>

\* All listed deliveries were visited.
EndDeliveries ==
  /\ pc = "deliver"
  /\ todo = {}
  /\ pc' = "prepare"
  /\ UNCHANGED <<library, disk, mem, relay, setup, loop, fails, damages, retries,
                 ghosts>>

-----------------------------------------------------------------------------
(* process_wallpaper_queue: a failed save ends the run *)

\* Other files are marked before the candidates are collected.
StartQueue ==
  /\ pc = "prepare"
  /\ LET legacy == LegacyNonImages(mem)
     IN /\ mem' = [d \in Deliveries |->
                     IF d \in legacy THEN [mem[d] EXCEPT !.wallpaper = "not_applicable"]
                                     ELSE mem[d]]
        /\ IF legacy = {} THEN pc' = "queue" /\ UNCHANGED <<disk, fails>>
                          ELSE Save("queue", "stopped")
  /\ todo' = Eligible(mem')
  /\ UNCHANGED <<library, relay, setup, handled, cur, damages, retries, ghosts>>

\* The record becomes "failed" without a command having been started.
NotStarted(d) ==
  cleared' = IF mode = "retry_uncertain" THEN cleared \cup {d} ELSE cleared

\* "running" is on disk before the command is started.
Wallpaper(d) ==
  /\ pc = "queue"
  /\ d \in todo
  /\ todo' = todo \ {d}
  /\ cur' = d
  /\ \/ /\ ~configured
        /\ Update(d, [mem[d] EXCEPT !.wallpaper = "not_configured"])
        /\ Save("queue", "stopped")
        /\ released' = IF mode = "sync" THEN released ELSE released \cup {d}
        /\ UNCHANGED cleared
     \/ /\ configured /\ ~Verified(d)
        /\ Update(d, [mem[d] EXCEPT !.wallpaper = "failed", !.error = TRUE])
        /\ Save("queue", "stopped")
        /\ NotStarted(d)
        /\ UNCHANGED released
     \/ /\ configured /\ Verified(d)
        /\ Update(d, [mem[d] EXCEPT !.wallpaper = "running", !.error = FALSE])
        /\ Save("launch", "stopped")
        /\ UNCHANGED <<released, cleared>>
  /\ UNCHANGED <<library, relay, setup, handled, damages, retries, world, damaged>>

\* wallpaper::apply starts the command, or cannot.
Launch ==
  /\ pc = "launch"
  /\ \/ /\ world' = [world EXCEPT ![cur] = "unknown"]
        /\ released' = released \ {cur} /\ cleared' = cleared \ {cur}
        /\ pc' = "command"
        /\ UNCHANGED <<mem, disk, fails>>
     \/ /\ Update(cur, [mem[cur] EXCEPT !.wallpaper = "failed"])
        /\ Save("queue", "stopped")
        /\ NotStarted(cur)
        /\ UNCHANGED <<world, released>>
  /\ UNCHANGED <<library, relay, setup, loop, damages, retries, damaged>>

\* How apply ends: the command succeeds, exits with an error, or is killed at its
\* deadline or cannot be waited for.
Results == {"applied", "failed", "uncertain"}

Outcome(result) ==
  /\ pc = "command"
  /\ Update(cur, [mem[cur] EXCEPT !.wallpaper = result])
  /\ Save("queue", "stopped")
  /\ world' = [world EXCEPT ![cur] = IF result = "uncertain" \/ pc' = "stopped"
                                     THEN "unknown" ELSE result]
  /\ UNCHANGED <<library, relay, setup, loop, damages, retries, released, cleared,
                 damaged>>

Finish ==
  /\ pc = "queue"
  /\ todo = {}
  /\ pc' = "stopped"
  /\ UNCHANGED <<library, disk, mem, relay, setup, loop, fails, damages, retries,
                 ghosts>>

-----------------------------------------------------------------------------
(* The environment *)

SenderStores(d) ==
  /\ d \notin pending \cup received
  /\ pending' = pending \cup {d}
  /\ UNCHANGED <<library, disk, mem, received, setup, loop, pc, fails, damages,
                 retries, ghosts>>

\* A stored file is changed or removed behind the receiver's back.
Damage(o) ==
  /\ damages < MaxDamage
  /\ damages' = damages + 1
  /\ library[o] = "good"
  /\ \E x \in {"bad", "absent"} : library' = [library EXCEPT ![o] = x]
  /\ damaged' = damaged \cup {o}
  /\ UNCHANGED <<disk, mem, relay, setup, loop, pc, fails, retries, world, released,
                 cleared>>

\* The process dies; its locks go with it, a command it started does not.
Crash ==
  /\ pc # "stopped"
  /\ Failing
  /\ pc' = "stopped"
  /\ UNCHANGED <<library, disk, mem, relay, setup, loop, damages, retries, ghosts>>

Continue ==
  \/ Interrupted \/ AckSend \/ AckError \/ AckRecord \/ Scan \/ Receive
  \/ RecordStored \/ Confirm \/ Settle \/ DeliverError \/ EndDeliveries
  \/ StartQueue \/ Launch \/ Finish
  \/ \E d \in Deliveries : AckVerify(d) \/ Deliver(d) \/ Wallpaper(d)
  \/ \E result \in Results : Outcome(result)

Next ==
  \/ Start
  \/ \E m \in {"retry", "retry_uncertain"} : StartRetry(m)
  \/ Continue
  \/ \E d \in Deliveries : SenderStores(d)
  \/ \E o \in Objects : Damage(o)
  \/ Crash

Spec == Init /\ [][Next]_vars

\* Receiving is started again and again (the desktop's Auto, a timer, the user).
FairSpec == Spec /\ SF_vars(Start) /\ WF_vars(Continue)

-----------------------------------------------------------------------------
(* Properties *)

\* "Flushed to disk, and atomically committed before receipt state and ACK": a
\* delivery the relay may forget is recorded on disk and its object is in the
\* library, unless the object was damaged from outside; and the state on disk
\* claims no receipt that the relay did not take.
ReceiptIsBacked ==
  \A d \in Deliveries :
    /\ d \in received => /\ disk[d] # None
                         /\ ObjectOf[d] \notin damaged => Verified(d)
    /\ disk[d] # None /\ disk[d].status = "acknowledged" => d \in received

CommandStarts == pc = "launch" /\ pc' = "command"

\* "Not automatically replayed": after a start whose outcome was not recorded
\* (a crash, a failed save, the time limit) only an explicit retry that includes
\* uncertain ones starts the command again, after a failure only an explicit
\* retry, and after a recorded success nothing does.  A retry that took the
\* delivery up while no command was configured counts too: it makes the record
\* "not_configured", which the next automatic run takes up.  So does, for another
\* explicit retry, one that included uncertain ones but found the file damaged or
\* could not start the command: it makes the record "failed".  And the command
\* is only ever given an image whose receipt is confirmed.
ReplayIsExplicit ==
  [][CommandStarts =>
       /\ IsImage(cur) /\ cur \in received
       /\ \/ world[cur] = "none"
          \/ world[cur] = "failed" /\ mode # "sync"
          \/ world[cur] = "unknown" /\ mode = "retry_uncertain"
          \/ world[cur] = "unknown" /\ mode = "retry" /\ cur \in cleared
          \/ world[cur] # "applied" /\ cur \in released]_vars

\* A delivery the relay lists is received, confirmed and recorded as such,
\* whatever failed on the way, unless its object was damaged from outside.
DeliveriesSettle ==
  \A d \in Deliveries :
    d \in pending ~> \/ disk[d] # None /\ disk[d].status = "acknowledged"
                     \/ ObjectOf[d] \in damaged

\* A recorded delivery whose file was damaged before its receipt is repaired
\* from the relay and confirmed (quarantine_content_object, then receive).
DamageIsRepaired ==
  \A d \in Deliveries : d \in pending /\ disk[d] # None ~> d \in received

-----------------------------------------------------------------------------
(* Inductive invariant *)

Reconciling == {"acks", "ack_send", "ack_record", "ack_error"}
Visiting == {"deliver", "receive", "record", "confirm", "settle", "deliver_error"}
Queueing == {"queue", "launch", "command"}

\* The delivery being processed is one, and where its record is read it has one.
CurrentIsRecorded ==
  /\ pc \in {"receive", "record"} => cur \in Deliveries
  /\ pc \in {"ack_send", "ack_record", "ack_error", "confirm", "settle",
             "deliver_error", "launch", "command"}
     => cur \in Deliveries /\ mem[cur] # None

\* A delivery is visited once by a loop.
CurrentIsVisited ==
  pc \in (Visiting \ {"deliver"}) \cup {"launch", "command"} => cur \notin todo

\* Memory is ahead of the disk, never behind it, and by no receipt that the relay
\* did not take; the run has no unsaved record when it reconciles, and none of a
\* delivery that it has still to visit.
MemoryIsAhead ==
  \A d \in Deliveries :
    /\ disk[d] # None => mem[d] # None
    /\ mem[d] # None /\ mem[d].status = "acknowledged" => d \in received
    /\ pc \in Reconciling \cup {"interrupted"} /\ mem[d] # None => disk[d] # None
    /\ pc \in Visiting /\ d \in todo /\ mem[d] # None => disk[d] # None
    /\ pc \in Reconciling /\ d \in todo => mem[d] # None

\* What the steps before a receipt, and after it, have achieved.
ReceiptIsPrepared ==
  /\ pc \in {"ack_send", "record", "confirm"} /\ ObjectOf[cur] \notin damaged
     => Verified(cur)
  /\ pc = "confirm" => disk[cur] # None
  /\ pc \in {"ack_record", "settle"} => cur \in received

\* Nothing is known to have come of a command, or a retry released the delivery.
Fresh(d) == world[d] = "none" \/ (world[d] # "applied" /\ d \in released)

\* What a recorded wallpaper status says about the commands that were started.
Earned(d, wallpaper) ==
  /\ wallpaper = "pending" => world[d] = "none"
  /\ wallpaper = "not_configured" => Fresh(d)
  /\ wallpaper = "failed" => \/ Fresh(d)
                             \/ world[d] = "failed"
                             \/ world[d] = "unknown" /\ d \in cleared
  /\ wallpaper \in {"running", "uncertain"} => world[d] # "applied"

\* The records on disk, and those in memory while the run lasts.
RecordsAreEarned ==
  \A d \in Deliveries :
    /\ disk[d] # None => Earned(d, disk[d].wallpaper)
    /\ mem[d] # None /\ pc # "stopped" => Earned(d, mem[d].wallpaper)
    /\ world[d] # "none" => d \in received

\* The command may be started for a delivery in the run's mode.
MayStart(d) ==
  \/ Fresh(d)
  \/ world[d] = "failed" /\ mode # "sync"
  \/ world[d] = "unknown" /\ mode = "retry_uncertain"
  \/ world[d] = "unknown" /\ mode = "retry" /\ d \in cleared

\* The queue holds confirmed images whose status the mode takes up; "running" is
\* on disk before the command starts and until its outcome is recorded.
QueueIsEligible ==
  /\ pc \in Queueing => \A d \in todo : d \in Eligible(mem) /\ IsImage(d)
  /\ pc \in {"launch", "command"} =>
       /\ disk = mem
       /\ mem[cur].wallpaper = "running" /\ mem[cur].status = "acknowledged"
       /\ IsImage(cur)
  /\ pc = "launch" => MayStart(cur)
  /\ pc = "command" => world[cur] = "unknown"

SyncInv ==
  /\ TypeOK
  /\ ReceiptIsBacked
  /\ CurrentIsRecorded
  /\ CurrentIsVisited
  /\ MemoryIsAhead
  /\ ReceiptIsPrepared
  /\ RecordsAreEarned
  /\ QueueIsEligible
=============================================================================
