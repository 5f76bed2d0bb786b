---------------------------- MODULE DesktopFolder ----------------------------
(***************************************************************************)
(* The life of one Folder on the Linux side: receiving, editing,           *)
(* disconnecting, clean exit and removal, run by several desktop processes *)
(* (--new-instance) and by `mirelay sync` on the same files.               *)
(*                                                                         *)
(* Three locks order them: the registry lock (exclusive in update, shared  *)
(* in load), the Folder's operation lock and the lock of state.json.  Not  *)
(* everything is under one of them: clean exit saves the configuration     *)
(* with the operation lock only, every other writer with the registry lock *)
(* only, and the command line takes neither.  The relay is external here:  *)
(* what its answers mean is FolderPairing's business.                      *)
(***************************************************************************)
EXTENDS Naturals

CONSTANTS Desktops,   \* desktop processes; each runs one operation at a time
          Clis,       \* `mirelay --config <folder>.toml sync` processes
          Urls,       \* Folder end points on relays
          Peers,      \* those whose phone is active
          MaxFails,   \* bound on failed calls (a refused token is one), I/O
                      \* errors and killed processes
          Nobody, NoConf

VARIABLES
  registered, \* the Folder is in bridges.toml
  auto,       \* its auto_receive flag there
  conf,       \* <id>.toml: connection_state and base_url
  files,      \* state.json and its retirement marker
  regLock, opLock, stateLock,
  relay,      \* what each relay Folder has recorded
  th,         \* the processes
  fails

entry == <<registered, auto>>
locks == <<regLock, opLock, stateLock>>
vars == <<registered, auto, conf, files, regLock, opLock, stateLock, relay, th, fails>>

Threads == Desktops \cup Clis

Cleaned == {"ExitLocalCleaned", "Exited"}
Exiting == {"ExitPending"} \cup Cleaned
States == {"Connected", "DisconnectPending", "Disconnected"} \cup Exiting
Confs == [state : States, url : Urls]
RelayFolders == [revoked : BOOLEAN, requested : BOOLEAN, server : BOOLEAN,
                 sender : BOOLEAN, receiver : BOOLEAN]

ASSUME DesktopAssumption ==
  /\ Desktops \cap Clis = {}
  /\ Nobody \notin Desktops \cup Clis
  /\ MaxFails \in Nat
  /\ Peers # {} /\ Peers \subseteq Urls
  /\ NoConf \notin Confs

\* Where a call is: inside a registry update, inside clean exit with the
\* operation lock, and elsewhere.
InUpdate == {"exitSave", "exitAuto", "disconnectSave", "disconnectAuto", "disconnectDone",
             "editSave", "editAuto"}
InExit == {"exitEntry", "exitConf", "clean", "cleanRemove", "exitCleaned", "exitAck",
           "exitDone"}
Pcs == InUpdate \cup InExit \cup
       {"idle", "check", "checkConf", "status", "receive", "receiveEntry", "receiveConf",
        "sync", "syncing", "exit", "exitPost", "exitLock", "disconnect", "disconnectPost",
        "disconnectConfirm", "disconnected", "edit", "remove", "forget"}

Idle == [pc |-> "idle", saved |-> NoConf]

\* The Folder is registered and its configuration says one of these.
Says(S) == registered /\ conf # NoConf /\ conf.state \in S

\* FolderExitStatus::complete.
Complete(r) == r.requested /\ r.server /\ r.sender /\ r.receiver

TypeOK ==
  /\ registered \in BOOLEAN /\ auto \in BOOLEAN
  /\ conf \in Confs \cup {NoConf}
  /\ files \in [state : BOOLEAN, retired : BOOLEAN]
  /\ regLock \in Threads \cup {Nobody}
  /\ opLock \in Threads \cup {Nobody}
  /\ stateLock \in Threads \cup {Nobody}
  /\ relay \in [Urls -> RelayFolders]
  /\ th \in [Threads -> [pc : Pcs, saved : Confs \cup {NoConf}]]
  /\ fails \in 0..MaxFails

Init ==
  /\ registered = TRUE
  /\ auto \in BOOLEAN
  /\ conf \in [state : {"Connected"}, url : Peers]
  /\ files = [state |-> TRUE, retired |-> FALSE]
  /\ regLock = Nobody /\ opLock = Nobody /\ stateLock = Nobody
  /\ relay = [u \in Urls |-> [revoked |-> FALSE, requested |-> FALSE, server |-> FALSE,
                              sender |-> FALSE, receiver |-> FALSE]]
  /\ th = [t \in Threads |-> Idle]
  /\ fails = 0

-----------------------------------------------------------------------------
(* Processes *)

At(t, pc) == th[t].pc = pc

Goto(t, pc) == th' = [th EXCEPT ![t].pc = pc]

GotoWith(t, pc, c) == th' = [th EXCEPT ![t].pc = pc, ![t].saved = c]

Begin(t, pc) == /\ At(t, "idle")
                /\ Goto(t, pc)
                /\ UNCHANGED <<entry, conf, files, locks, relay, fails>>

\* A call returns, with success or an error: its guards give the locks back.
Released(t, lock) == IF lock = t THEN Nobody ELSE lock

Return(t) ==
  /\ th' = [th EXCEPT ![t] = Idle]
  /\ regLock' = Released(t, regLock)
  /\ opLock' = Released(t, opLock)
  /\ stateLock' = Released(t, stateLock)

\* Any step may fail, and the process may be killed; the kernel drops its locks.
Fail(t) ==
  /\ ~At(t, "idle")
  /\ fails < MaxFails
  /\ fails' = fails + 1
  /\ Return(t)
  /\ UNCHANGED <<entry, conf, files, relay>>

\* BridgeRegistryStore::load inside load_registered_config: the shared lock is
\* gone again when the configuration is read.
LoadEntry(t, from, to) ==
  /\ At(t, from)
  /\ regLock = Nobody
  /\ \/ registered /\ Goto(t, to) /\ UNCHANGED locks
     \/ ~registered /\ Return(t)
  /\ UNCHANGED <<entry, conf, files, relay, fails>>

\* BridgeRegistryStore::update opens with the exclusive lock.
LockRegistry(t, from) ==
  /\ At(t, from)
  /\ regLock = Nobody

\* update saves the registry and returns; the caller goes on.
SaveRegistry(t, from, to) ==
  /\ At(t, from)
  /\ regLock' = Nobody
  /\ Goto(t, to)
  /\ UNCHANGED <<conf, files, opLock, stateLock, relay, fails>>

-----------------------------------------------------------------------------
(* The receive worker: resume_if_requested, then the receive itself *)

Request(t) == Begin(t, "check")

CheckEntry(t) == LoadEntry(t, "check", "checkConf")

\* A pending exit never falls back to receiving.
CheckConf(t) ==
  /\ At(t, "checkConf")
  /\ \/ conf = NoConf /\ Return(t)
     \/ /\ conf # NoConf
        /\ GotoWith(t, IF conf.state \in {"Disconnected", "Exited"} THEN "receive"
                       ELSE IF conf.state \in Exiting THEN "exit"
                       ELSE "status", conf)
        /\ UNCHANGED locks
  /\ UNCHANGED <<entry, conf, files, relay, fails>>

\* "An old relay may not implement retirement": no answer means go on.
CheckStatus(t) ==
  /\ At(t, "status")
  /\ Goto(t, IF relay[th[t].saved.url].requested THEN "exit" ELSE "receive")
  /\ UNCHANGED <<entry, conf, files, locks, relay, fails>>

StatusFails(t) ==
  /\ At(t, "status")
  /\ fails < MaxFails
  /\ fails' = fails + 1
  /\ Goto(t, "receive")
  /\ UNCHANGED <<entry, conf, files, locks, relay>>

ReceiveLock(t) ==
  /\ At(t, "receive")
  /\ opLock = Nobody
  /\ opLock' = t
  /\ Goto(t, "receiveEntry")
  /\ UNCHANGED <<entry, conf, files, regLock, stateLock, relay, fails>>

ReceiveEntry(t) == LoadEntry(t, "receiveEntry", "receiveConf")

\* require_connected
ReceiveConf(t) ==
  /\ At(t, "receiveConf")
  /\ LET connected == conf # NoConf /\ conf.state = "Connected"
     IN \/ connected /\ Goto(t, "sync") /\ UNCHANGED locks
        \/ ~connected /\ Return(t)
  /\ UNCHANGED <<entry, conf, files, relay, fails>>

\* The command line reads the configuration it is given and nothing else.
CliSync(t) ==
  /\ conf # NoConf /\ conf.state = "Connected"
  /\ Begin(t, "sync")

\* sync_once: the state lock, then the retirement marker under it.
SyncLock(t) ==
  /\ At(t, "sync")
  /\ stateLock = Nobody
  /\ \/ files.retired /\ Return(t)
     \/ /\ ~files.retired
        /\ stateLock' = t
        /\ Goto(t, "syncing")
        /\ UNCHANGED <<regLock, opLock>>
  /\ UNCHANGED <<entry, conf, files, relay, fails>>

\* StateStore::save, once per file received: it replaces state.json, or makes it
\* where there is none.
SyncSave(t) ==
  /\ At(t, "syncing")
  /\ files' = [files EXCEPT !.state = TRUE]
  /\ UNCHANGED <<entry, conf, locks, relay, th, fails>>

SyncEnd(t) ==
  /\ At(t, "syncing")
  /\ Return(t)
  /\ UNCHANGED <<entry, conf, files, relay, fails>>

-----------------------------------------------------------------------------
(* clean_exit::run *)

BeginExit(t) == Begin(t, "exit")

\* In the registry update: the state to continue from, chosen from what the
\* file says now.
ExitRead(t) ==
  /\ LockRegistry(t, "exit")
  /\ \/ /\ Says(States \ {"Disconnected"})
        /\ regLock' = t
        /\ GotoWith(t, "exitSave",
                    IF conf.state \in Cleaned THEN conf
                                              ELSE [conf EXCEPT !.state = "ExitPending"])
        /\ UNCHANGED <<opLock, stateLock>>
     \/ ~Says(States \ {"Disconnected"}) /\ Return(t)
  /\ UNCHANGED <<entry, conf, files, relay, fails>>

ExitSave(t) ==
  /\ At(t, "exitSave")
  /\ conf' = IF th[t].saved.state \in Cleaned THEN conf ELSE th[t].saved
  /\ Goto(t, "exitAuto")
  /\ UNCHANGED <<entry, files, locks, relay, fails>>

ExitAuto(t) ==
  /\ SaveRegistry(t, "exitAuto", "exitPost")
  /\ auto' = FALSE
  /\ UNCHANGED registered

\* The relay revokes first and then cleans; an error in between leaves the
\* request recorded and the answer an error.
ExitPost(t) ==
  /\ At(t, "exitPost")
  /\ LET u == th[t].saved.url
     IN \/ /\ relay' = [relay EXCEPT ![u].revoked = TRUE, ![u].requested = TRUE,
                                     ![u].server = TRUE]
           /\ Goto(t, "exitLock")
           /\ UNCHANGED <<locks, fails>>
        \/ /\ fails < MaxFails
           /\ fails' = fails + 1
           /\ relay' = [relay EXCEPT ![u].revoked = TRUE, ![u].requested = TRUE]
           /\ Return(t)
  /\ UNCHANGED <<entry, conf, files>>

\* operation_lock: waits for a receive that passed its checks.
ExitLock(t) ==
  /\ At(t, "exitLock")
  /\ opLock = Nobody
  /\ opLock' = t
  /\ Goto(t, "exitEntry")
  /\ UNCHANGED <<entry, conf, files, regLock, stateLock, relay, fails>>

ExitEntry(t) == LoadEntry(t, "exitEntry", "exitConf")

\* "Folder configuration changed during exit; retry"
ExitConf(t) ==
  /\ At(t, "exitConf")
  /\ \/ /\ conf = th[t].saved
        /\ Goto(t, IF conf.state \in Cleaned THEN "exitAck" ELSE "clean")
        /\ UNCHANGED locks
     \/ conf # th[t].saved /\ Return(t)
  /\ UNCHANGED <<entry, conf, files, relay, fails>>

\* clean_local: the marker, under the state lock, then the files.
CleanMark(t) ==
  /\ At(t, "clean")
  /\ stateLock = Nobody
  /\ stateLock' = t
  /\ files' = [files EXCEPT !.retired = TRUE]
  /\ Goto(t, "cleanRemove")
  /\ UNCHANGED <<entry, conf, regLock, opLock, relay, fails>>

CleanRemove(t) ==
  /\ At(t, "cleanRemove")
  /\ files' = [files EXCEPT !.state = FALSE]
  /\ stateLock' = Nobody
  /\ Goto(t, "exitCleaned")
  /\ UNCHANGED <<entry, conf, regLock, opLock, relay, fails>>

\* Config::save with the operation lock, not the registry lock.
ExitCleaned(t) ==
  /\ At(t, "exitCleaned")
  /\ conf' = [th[t].saved EXCEPT !.state = "ExitLocalCleaned"]
  /\ GotoWith(t, "exitAck", conf')
  /\ UNCHANGED <<entry, files, locks, relay, fails>>

\* acknowledge_exit: a conflict until the relay has cleaned up itself.
ExitAck(t) ==
  /\ At(t, "exitAck")
  /\ LET u == th[t].saved.url
     IN \/ /\ relay[u].server
           /\ relay' = [relay EXCEPT ![u].receiver = TRUE]
           /\ \/ Complete(relay'[u]) /\ Goto(t, "exitDone") /\ UNCHANGED locks
              \/ ~Complete(relay'[u]) /\ Return(t)
        \/ ~relay[u].server /\ Return(t) /\ UNCHANGED relay
  /\ UNCHANGED <<entry, conf, files, fails>>

ExitDone(t) ==
  /\ At(t, "exitDone")
  /\ conf' = [th[t].saved EXCEPT !.state = "Exited"]
  /\ Return(t)
  /\ UNCHANGED <<entry, files, relay, fails>>

-----------------------------------------------------------------------------
(* connection::disconnect *)

BeginDisconnect(t) == Begin(t, "disconnect")

DisconnectRead(t) ==
  /\ LockRegistry(t, "disconnect")
  /\ \/ /\ Says(States \ Exiting)
        /\ regLock' = t
        /\ GotoWith(t, "disconnectSave",
                    IF conf.state = "Disconnected" THEN conf
                    ELSE [conf EXCEPT !.state = "DisconnectPending"])
        /\ UNCHANGED <<opLock, stateLock>>
     \/ ~Says(States \ Exiting) /\ Return(t)
  /\ UNCHANGED <<entry, conf, files, relay, fails>>

\* Mutant: the outcome is saved before the request is made.
DisconnectSaveFinal(t) ==
  /\ At(t, "disconnectSave")
  /\ conf' = [th[t].saved EXCEPT !.state = "Disconnected"]
  /\ GotoWith(t, "disconnectAuto", conf')
  /\ UNCHANGED <<entry, files, locks, relay, fails>>

\* "Persist the fail-closed state before sending any request."
DisconnectSave(t) ==
  /\ At(t, "disconnectSave")
  /\ conf' = th[t].saved
  /\ Goto(t, "disconnectAuto")
  /\ UNCHANGED <<entry, files, locks, relay, fails>>

DisconnectAuto(t) ==
  /\ SaveRegistry(t, "disconnectAuto",
                  IF th[t].saved.state = "Disconnected" THEN "disconnected"
                                                        ELSE "disconnectPost")
  /\ auto' = FALSE
  /\ UNCHANGED registered

DisconnectAlready(t) ==
  /\ At(t, "disconnected")
  /\ Return(t)
  /\ UNCHANGED <<entry, conf, files, relay, fails>>

DisconnectPost(t) ==
  /\ At(t, "disconnectPost")
  /\ relay' = [relay EXCEPT ![th[t].saved.url].revoked = TRUE]
  /\ Goto(t, "disconnectConfirm")
  /\ UNCHANGED <<entry, conf, files, locks, fails>>

\* Mutant: the answer is recorded without looking at the configuration again.
DisconnectConfirmTrusting(t) ==
  /\ LockRegistry(t, "disconnectConfirm")
  /\ regLock' = t
  /\ Goto(t, "disconnectDone")
  /\ UNCHANGED <<entry, conf, files, opLock, stateLock, relay, fails>>

\* A second update: the configuration must be the one the request was for.
DisconnectConfirm(t) ==
  /\ LockRegistry(t, "disconnectConfirm")
  /\ \/ /\ registered /\ conf = th[t].saved
        /\ regLock' = t
        /\ Goto(t, "disconnectDone")
        /\ UNCHANGED <<opLock, stateLock>>
     \/ (~registered \/ conf # th[t].saved) /\ Return(t)
  /\ UNCHANGED <<entry, conf, files, relay, fails>>

DisconnectDone(t) ==
  /\ At(t, "disconnectDone")
  /\ conf' = [th[t].saved EXCEPT !.state = "Disconnected"]
  /\ auto' = FALSE
  /\ Return(t)
  /\ UNCHANGED <<registered, files, relay, fails>>

-----------------------------------------------------------------------------
(* update_bridge: all of it inside one registry update *)

BeginEdit(t) == Begin(t, "edit")

\* Mutant: the configuration is read before the registry is locked.
EditReadUnlocked(t, u) ==
  /\ At(t, "edit")
  /\ Says({"Connected"})
  /\ GotoWith(t, "editSave", [conf EXCEPT !.url = u])
  /\ UNCHANGED <<entry, conf, files, locks, relay, fails>>

EditRead(t, u) ==
  /\ LockRegistry(t, "edit")
  /\ \/ /\ Says({"Connected"})
        /\ regLock' = t
        /\ GotoWith(t, "editSave", [conf EXCEPT !.url = u])
        /\ UNCHANGED <<opLock, stateLock>>
     \/ ~Says({"Connected"}) /\ Return(t)
  /\ UNCHANGED <<entry, conf, files, relay, fails>>

EditSave(t) ==
  /\ At(t, "editSave")
  /\ conf' = th[t].saved
  /\ Goto(t, "editAuto")
  /\ UNCHANGED <<entry, files, locks, relay, fails>>

EditAuto(t) ==
  /\ At(t, "editAuto")
  /\ auto' \in BOOLEAN
  /\ Return(t)
  /\ UNCHANGED <<registered, conf, files, relay, fails>>

-----------------------------------------------------------------------------
(* confirm_remove_bridge and forget_receipt *)

Removable == {"Disconnected", "Exited"}

BeginRemove(t) == Begin(t, "remove")

\* The configuration is read again inside the update, whatever the dialog showed.
Remove(t) ==
  /\ LockRegistry(t, "remove")
  /\ \/ /\ Says(Removable)
        /\ registered' = FALSE
        /\ auto' = FALSE
        /\ Goto(t, "forget")
        /\ UNCHANGED locks
     \/ /\ ~Says(Removable)
        /\ Return(t)
        /\ UNCHANGED entry
  /\ UNCHANGED <<conf, files, relay, fails>>

Forget(t) ==
  /\ At(t, "forget")
  /\ conf' = IF conf # NoConf /\ conf.state = "Exited" THEN NoConf ELSE conf
  /\ Return(t)
  /\ UNCHANGED <<entry, files, relay, fails>>

-----------------------------------------------------------------------------
(* The phone, seen through the relay *)

PeerDisconnects(u) ==
  /\ ~relay[u].revoked
  /\ relay' = [relay EXCEPT ![u].revoked = TRUE]
  /\ UNCHANGED <<entry, conf, files, locks, th, fails>>

PeerExits(u) ==
  /\ ~relay[u].server
  /\ relay' = [relay EXCEPT ![u].revoked = TRUE, ![u].requested = TRUE, ![u].server = TRUE]
  /\ UNCHANGED <<entry, conf, files, locks, th, fails>>

PeerCleaned(u) ==
  /\ relay[u].requested /\ relay[u].server /\ ~relay[u].sender
  /\ relay' = [relay EXCEPT ![u].sender = TRUE]
  /\ UNCHANGED <<entry, conf, files, locks, th, fails>>

-----------------------------------------------------------------------------
\* A call under way takes its next step.
Step(t) ==
  \/ CheckEntry(t) \/ CheckConf(t) \/ CheckStatus(t)
  \/ ReceiveLock(t) \/ ReceiveEntry(t) \/ ReceiveConf(t)
  \/ SyncLock(t) \/ SyncEnd(t)
  \/ ExitRead(t) \/ ExitSave(t) \/ ExitAuto(t) \/ ExitPost(t) \/ ExitLock(t)
  \/ ExitEntry(t) \/ ExitConf(t) \/ CleanMark(t) \/ CleanRemove(t) \/ ExitCleaned(t)
  \/ ExitAck(t) \/ ExitDone(t)
  \/ DisconnectRead(t) \/ DisconnectSave(t) \/ DisconnectAuto(t) \/ DisconnectAlready(t)
  \/ DisconnectPost(t) \/ DisconnectConfirm(t) \/ DisconnectDone(t)
  \/ EditSave(t) \/ EditAuto(t)
  \/ \E u \in Urls : EditRead(t, u)
  \/ Remove(t) \/ Forget(t)

\* Mutant: an exit that waits for the phone is not looked at again.
AutoRetryPending(t) == Says({"ExitPending"}) /\ Request(t)

\* automatic_sync_requests: once a minute an idle desktop retries a pending
\* exit.
AutoRetry(t) ==
  /\ Says({"ExitPending", "ExitLocalCleaned"})
  /\ Request(t)

Next ==
  \/ \E t \in Threads : Step(t) \/ StatusFails(t) \/ SyncSave(t) \/ Fail(t)
  \/ \E t \in Desktops :
       \/ Request(t) \/ AutoRetry(t) \/ BeginExit(t)
       \/ BeginDisconnect(t) \/ BeginEdit(t) \/ BeginRemove(t)
  \/ \E t \in Clis : CliSync(t)
  \/ \E u \in Peers : PeerDisconnects(u) \/ PeerExits(u) \/ PeerCleaned(u)

Spec == Init /\ [][Next]_vars

\* Operations run to their end (a lock that keeps being released is obtained in
\* the end), the timer finds a desktop idle now and then, and the phone cleans
\* up once it hears of the exit.
FairSpec ==
  /\ Spec
  /\ \A t \in Desktops : SF_vars(Step(t)) /\ SF_vars(AutoRetry(t))
  /\ \A t \in Clis : WF_vars(Step(t))
  /\ \A u \in Peers : WF_vars(PeerCleaned(u))

-----------------------------------------------------------------------------
(* Properties *)

Empty == files.retired /\ ~files.state

\* What the configuration says of the relay and of the local files is true,
\* although two exits may write it in turn: "Disconnected" after the relay
\* revoked the Folder, "ExitLocalCleaned" and "Exited" after the local state is
\* gone, "Exited" after both devices and the relay have confirmed.
ConfigurationIsTrue ==
  conf # NoConf =>
    /\ conf.state = "Disconnected" => relay[conf.url].revoked
    /\ conf.state \in Cleaned => Empty /\ relay[conf.url].server
    /\ conf.state = "Exited" => Complete(relay[conf.url])

\* A Folder leaves the registry only after the relay has revoked it, and what
\* is left of its configuration can never transfer again ("Disconnect this
\* Folder on the server before removing it", confirm_remove_bridge).
RemovedWasRevoked ==
  ~registered => conf = NoConf \/ (conf.state \in Removable /\ relay[conf.url].revoked)

\* A stop is never undone: no edit, receive or exit that was under way brings
\* a Folder back to Connected, points it at another relay or turns its
\* automatic receiving on again ("transfers stay stopped").  A receipt that was forgotten may at most come back as one.
StopIsFinal ==
  [][/\ (conf # NoConf /\ conf.state # "Connected" /\ conf' # NoConf) =>
          conf'.state # "Connected" /\ conf'.url = conf.url /\ (auto' => auto)
     /\ (conf = NoConf /\ conf' # NoConf) => conf'.state = "Exited"]_vars

\* A clean exit that has begun is completed once the phone has cleaned up too:
\* crashes, failed calls and a second process that retries it as well do not
\* leave it pending.
ExitEnds ==
  (conf # NoConf /\ conf.url \in Peers /\ conf.state \in {"ExitPending", "ExitLocalCleaned"})
    ~> (conf = NoConf \/ conf.state = "Exited")

-----------------------------------------------------------------------------
(* Inductive invariant (DesktopFolderProofs) *)

\* A call holds the lock that its place needs.
HoldsItsLocks(t) ==
  /\ th[t].pc \in InUpdate => regLock = t
  /\ th[t].pc \in InExit => opLock = t
  /\ th[t].pc \in {"syncing", "cleanRemove"} => stateLock = t

\* The configuration a call carries is one, and in the state it was saved for.
CarriesConf(t) ==
  /\ th[t].pc \in {"exitSave", "exitAuto", "exitPost", "exitLock"} \cup InExit =>
       th[t].saved \in Confs /\ th[t].saved.state \in Exiting
  /\ th[t].pc \in {"disconnectSave", "disconnectAuto"} =>
       th[t].saved \in Confs /\ th[t].saved.state \in {"DisconnectPending", "Disconnected"}
  /\ th[t].pc \in {"disconnectPost", "disconnectConfirm", "disconnectDone"} =>
       th[t].saved \in Confs /\ th[t].saved.state = "DisconnectPending"
  /\ th[t].pc = "editSave" => th[t].saved \in Confs /\ th[t].saved.state = "Connected"

\* What an update read is still so when it saves, as far as it matters: clean
\* exit, which saves outside the registry lock, changes only a configuration
\* that is already exiting, and never its relay.
UpdateIsCurrent(t) ==
  /\ th[t].pc \in InUpdate => registered
  /\ th[t].pc = "forget" => ~registered
  /\ th[t].pc \in {"editSave", "editAuto"} => conf.state = "Connected"
  /\ th[t].pc \in {"exitSave", "disconnectSave"} => conf.url = th[t].saved.url
  /\ th[t].pc = "disconnectSave" =>
       /\ conf.state \notin Exiting
       /\ th[t].saved.state = "Disconnected" => conf.state = "Disconnected"
  /\ th[t].pc = "disconnectDone" => conf = th[t].saved

\* The exit that has the operation lock is the only one to move the
\* configuration on; another one may at most save "ExitPending" again.
ExitIsCurrent(t) ==
  /\ th[t].pc \in {"clean", "cleanRemove", "exitCleaned"} =>
       conf = th[t].saved /\ conf.state = "ExitPending"
  /\ th[t].pc \in {"exitAck", "exitDone"} =>
       conf = NoConf \/ (conf.state \in Exiting /\ conf.url = th[t].saved.url)

\* What the relay has answered stays true.
RelayHasSaid(t) ==
  /\ th[t].pc \in {"exitLock"} \cup InExit => relay[th[t].saved.url].server
  /\ th[t].pc = "exitDone" => Complete(relay[th[t].saved.url])
  /\ th[t].pc \in {"disconnectConfirm", "disconnectDone"} =>
       relay[th[t].saved.url].revoked

\* No receive writes state once the retirement marker is there, so the state
\* that clean exit removed stays removed.
FilesStayClean(t) ==
  /\ th[t].pc = "syncing" => ~files.retired
  /\ th[t].pc = "cleanRemove" => files.retired
  /\ th[t].pc \in {"exitCleaned", "exitAck", "exitDone"} => Empty

\* The relay cleans up for a request only, and revokes first.
RelayInOrder ==
  \A u \in Urls : /\ relay[u].server => relay[u].requested
                  /\ relay[u].requested => relay[u].revoked

DesktopInv ==
  /\ TypeOK
  /\ \A t \in Threads : HoldsItsLocks(t) /\ CarriesConf(t)
  /\ \A t \in Threads : UpdateIsCurrent(t) /\ ExitIsCurrent(t)
  /\ \A t \in Threads : RelayHasSaid(t) /\ FilesStayClean(t)
  /\ RelayInOrder
  /\ registered => conf # NoConf
  /\ ConfigurationIsTrue
  /\ RemovedWasRevoked
=============================================================================
