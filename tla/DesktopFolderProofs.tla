------------------------- MODULE DesktopFolderProofs -------------------------
(***************************************************************************)
(* The safety properties of DesktopFolder hold for any number of desktop   *)
(* processes, command lines, relays and failures.  DesktopInv is           *)
(* inductive.  Its heart is that the two kinds of writers of the           *)
(* configuration, which share no lock, agree: updates under the registry   *)
(* lock find an exiting configuration and leave its relay alone, and the   *)
(* exit under the operation lock writes only an exiting one.               *)
(***************************************************************************)
EXTENDS DesktopFolder, TLAPS

USE DesktopAssumption

\* Where a call carries no obligation.
Plain == {"idle", "check", "checkConf", "status", "receive", "receiveEntry", "receiveConf",
          "sync", "exit", "disconnect", "disconnected", "edit", "remove"}

\* What is claimed of one process.
ThreadInv(t) ==
  /\ HoldsItsLocks(t) /\ CarriesConf(t) /\ UpdateIsCurrent(t)
  /\ ExitIsCurrent(t) /\ RelayHasSaid(t) /\ FilesStayClean(t)

\* A lock is taken when free, or given back by its holder.
LockStep(t, lock, next) == next = lock \/ lock = Nobody \/ lock = t

\* A process's step leaves the other processes where they are.
OnlyMoves(t) == \A x \in Threads \ {t} : th'[x] = th[x]

\* The ways a call moves on: to its next place, there with a configuration it
\* read, and back to its caller, where its locks go.
LEMMA Moves ==
  ASSUME TypeOK, NEW t \in Threads
  PROVE  /\ \A p \in Pcs : Goto(t, p) =>
              /\ th' \in [Threads -> [pc : Pcs, saved : Confs \cup {NoConf}]]
              /\ th'[t].pc = p /\ th'[t].saved = th[t].saved /\ OnlyMoves(t)
         /\ \A p \in Pcs, c \in Confs \cup {NoConf} : GotoWith(t, p, c) =>
              /\ th' \in [Threads -> [pc : Pcs, saved : Confs \cup {NoConf}]]
              /\ th'[t].pc = p /\ th'[t].saved = c /\ OnlyMoves(t)
         /\ Return(t) =>
              /\ th' \in [Threads -> [pc : Pcs, saved : Confs \cup {NoConf}]]
              /\ th'[t].pc = "idle" /\ OnlyMoves(t)
              /\ LockStep(t, regLock, regLock') /\ LockStep(t, opLock, opLock')
              /\ LockStep(t, stateLock, stateLock')
              /\ regLock' \in Threads \cup {Nobody}
              /\ opLock' \in Threads \cup {Nobody}
              /\ stateLock' \in Threads \cup {Nobody}
<1>1. ASSUME NEW p \in Pcs, Goto(t, p)
      PROVE  /\ th' \in [Threads -> [pc : Pcs, saved : Confs \cup {NoConf}]]
             /\ th'[t].pc = p /\ th'[t].saved = th[t].saved /\ OnlyMoves(t)
  BY <1>1 DEF TypeOK, Goto, OnlyMoves
<1>2. ASSUME NEW p \in Pcs, NEW c \in Confs \cup {NoConf}, GotoWith(t, p, c)
      PROVE  /\ th' \in [Threads -> [pc : Pcs, saved : Confs \cup {NoConf}]]
             /\ th'[t].pc = p /\ th'[t].saved = c /\ OnlyMoves(t)
  BY <1>2 DEF TypeOK, GotoWith, OnlyMoves
<1>3. Idle \in [pc : Pcs, saved : Confs \cup {NoConf}] /\ Idle.pc = "idle"
  BY DEF Idle, Pcs
<1>4. ASSUME Return(t)
      PROVE  /\ th' \in [Threads -> [pc : Pcs, saved : Confs \cup {NoConf}]]
             /\ th'[t].pc = "idle" /\ OnlyMoves(t)
  BY <1>3, <1>4 DEF TypeOK, Return, OnlyMoves
<1>5. ASSUME Return(t)
      PROVE  /\ LockStep(t, regLock, regLock') /\ LockStep(t, opLock, opLock')
             /\ LockStep(t, stateLock, stateLock')
             /\ regLock' \in Threads \cup {Nobody}
             /\ opLock' \in Threads \cup {Nobody}
             /\ stateLock' \in Threads \cup {Nobody}
  BY <1>5 DEF TypeOK, Return, Released, LockStep
<1> QED
  BY <1>1, <1>2, <1>4, <1>5

\* A process keeps its claims while another one moves and leaves the registry
\* entry, the configuration, the files and the relay as they are.
LEMMA OthersKeep ==
  ASSUME DesktopInv, NEW t \in Threads, OnlyMoves(t),
         LockStep(t, regLock, regLock'), LockStep(t, opLock, opLock'),
         LockStep(t, stateLock, stateLock'),
         UNCHANGED <<registered, conf, files, relay>>
  PROVE  \A x \in Threads \ {t} : ThreadInv(x)'
<1> SUFFICES ASSUME NEW x \in Threads \ {t} PROVE ThreadInv(x)'
  OBVIOUS
<1>0. th'[x] = th[x] /\ x # t /\ x # Nobody /\ x \in Threads
  BY DEF OnlyMoves, Threads
<1>1. HoldsItsLocks(x)'
  BY <1>0 DEF DesktopInv, HoldsItsLocks, LockStep
<1>2. CarriesConf(x)' /\ UpdateIsCurrent(x)'
  BY <1>0 DEF DesktopInv, CarriesConf, UpdateIsCurrent
<1>3. ExitIsCurrent(x)' /\ RelayHasSaid(x)' /\ FilesStayClean(x)'
  BY <1>0 DEF DesktopInv, ExitIsCurrent, RelayHasSaid, FilesStayClean, Empty, Complete
<1> QED
  BY <1>1, <1>2, <1>3 DEF ThreadInv

\* A step that changes only a process and the locks.
LEMMA QuietStep ==
  ASSUME DesktopInv, TypeOK', NEW t \in Threads, OnlyMoves(t),
         LockStep(t, regLock, regLock'), LockStep(t, opLock, opLock'),
         LockStep(t, stateLock, stateLock'),
         UNCHANGED <<registered, conf, files, relay>>,
         ThreadInv(t)'
  PROVE  DesktopInv'
<1>1. \A x \in Threads : ThreadInv(x)'
  BY OthersKeep
<1>2. /\ RelayInOrder' /\ (registered => conf # NoConf)'
      /\ ConfigurationIsTrue' /\ RemovedWasRevoked'
  BY DEF DesktopInv, RelayInOrder, ConfigurationIsTrue, RemovedWasRevoked, Empty, Complete
<1> QED
  BY <1>1, <1>2 DEF DesktopInv, ThreadInv

\* A process that comes to a plain place claims nothing.
LEMMA PlainClaimsNothing ==
  ASSUME NEW t \in Threads, th'[t].pc \in Plain
  PROVE  ThreadInv(t)'
BY DEF Plain, ThreadInv, HoldsItsLocks, CarriesConf, UpdateIsCurrent, ExitIsCurrent,
   RelayHasSaid, FilesStayClean, InUpdate, InExit

\* Returning from a call that leaves everything else alone.
LEMMA QuietReturn ==
  ASSUME DesktopInv, NEW t \in Threads, Return(t), auto' \in BOOLEAN, fails' \in 0..MaxFails,
         UNCHANGED <<registered, conf, files, relay>>
  PROVE  DesktopInv'
<1>1. TypeOK'
  BY Moves DEF DesktopInv, TypeOK
<1>2. th'[t].pc \in Plain
  BY Moves DEF DesktopInv, Plain
<1>3. ThreadInv(t)'
  BY <1>2, PlainClaimsNothing
<1> QED
  BY <1>1, <1>3, Moves, QuietStep DEF DesktopInv

\* Going on with nothing but a lock taken, given back or kept.
LEMMA QuietGoto ==
  ASSUME DesktopInv, NEW t \in Threads, NEW p \in Pcs,
         \/ Goto(t, p)
         \/ \E c \in Confs \cup {NoConf} : GotoWith(t, p, c),
         LockStep(t, regLock, regLock'), LockStep(t, opLock, opLock'),
         LockStep(t, stateLock, stateLock'),
         regLock' \in Threads \cup {Nobody}, opLock' \in Threads \cup {Nobody},
         stateLock' \in Threads \cup {Nobody},
         auto' \in BOOLEAN, fails' \in 0..MaxFails,
         UNCHANGED <<registered, conf, files, relay>>,
         p \in Plain \/ ThreadInv(t)'
  PROVE  DesktopInv'
<1>1. /\ th' \in [Threads -> [pc : Pcs, saved : Confs \cup {NoConf}]]
      /\ th'[t].pc = p /\ OnlyMoves(t)
  BY Moves DEF DesktopInv
<1>2. TypeOK'
  BY <1>1 DEF DesktopInv, TypeOK
<1>3. ThreadInv(t)'
  BY <1>1, PlainClaimsNothing
<1> QED
  BY <1>1, <1>2, <1>3, QuietStep

\* A process waits for nothing it holds: the starts of calls, the checks of the
\* receive worker and of the command line, and every failure.
LEMMA ReceiveInv ==
  ASSUME DesktopInv, NEW t \in Threads,
         \/ \E p \in Plain : Begin(t, p)
         \/ CheckEntry(t) \/ CheckConf(t) \/ CheckStatus(t) \/ StatusFails(t)
         \/ ReceiveLock(t) \/ ReceiveEntry(t) \/ ReceiveConf(t)
         \/ SyncEnd(t) \/ DisconnectAlready(t) \/ Fail(t)
  PROVE  DesktopInv'
<1> USE DEF Plain, Pcs, LockStep
<1>0. /\ UNCHANGED <<registered, auto, conf, files, relay>> /\ auto \in BOOLEAN
      /\ fails' \in 0..MaxFails
      /\ regLock \in Threads \cup {Nobody} /\ opLock \in Threads \cup {Nobody}
      /\ stateLock \in Threads \cup {Nobody} /\ conf \in Confs \cup {NoConf}
  BY DEF DesktopInv, TypeOK, entry, Begin, CheckEntry, CheckConf, CheckStatus,
     StatusFails, ReceiveLock, ReceiveEntry, ReceiveConf, LoadEntry, SyncEnd,
     DisconnectAlready, Fail
<1>1. CASE Return(t)
  BY <1>0, <1>1, QuietReturn
<1>2. CASE ~Return(t)
  <2>1. \/ /\ UNCHANGED locks
           /\ \/ \E p \in Plain : Goto(t, p)
              \/ \E p \in Plain : GotoWith(t, p, conf)
        \/ /\ opLock = Nobody /\ opLock' = t /\ UNCHANGED <<regLock, stateLock>>
           /\ Goto(t, "receiveEntry")
    BY <1>2 DEF Begin, CheckEntry, CheckConf, CheckStatus, StatusFails, ReceiveLock,
       ReceiveEntry, ReceiveConf, LoadEntry, SyncEnd, DisconnectAlready, Fail
  <2> QED
    BY <1>0, <2>1, QuietGoto DEF locks
<1> QED
  BY <1>1, <1>2

\* sync_once looks for the retirement marker under the state lock.
LEMMA SyncLockInv ==
  ASSUME DesktopInv, NEW t \in Threads, SyncLock(t)
  PROVE  DesktopInv'
<1>0. /\ UNCHANGED <<registered, auto, conf, files, relay>> /\ auto \in BOOLEAN
      /\ fails' \in 0..MaxFails
      /\ regLock \in Threads \cup {Nobody} /\ opLock \in Threads \cup {Nobody}
  BY DEF DesktopInv, TypeOK, entry, SyncLock
<1>1. CASE Return(t)
  BY <1>0, <1>1, QuietReturn
<1>2. CASE ~Return(t)
  <2>1. /\ ~files.retired /\ stateLock = Nobody /\ stateLock' = t
        /\ Goto(t, "syncing") /\ UNCHANGED <<regLock, opLock>>
    BY <1>2 DEF SyncLock
  <2>2. "syncing" \in Pcs
    BY DEF Pcs
  <2>3. th'[t].pc = "syncing"
    BY <2>1, <2>2, Moves DEF DesktopInv
  <2>4. ThreadInv(t)'
    BY <1>0, <2>1, <2>3 DEF ThreadInv, HoldsItsLocks, CarriesConf, UpdateIsCurrent,
       ExitIsCurrent, RelayHasSaid, FilesStayClean, InUpdate, InExit
  <2> QED
    BY <1>0, <2>1, <2>2, <2>4, QuietGoto DEF LockStep
<1> QED
  BY <1>1, <1>2

\* The first half of an update: what it plans to save is derived from what the
\* configuration says under the registry lock.
LEMMA UpdateReadInv ==
  ASSUME DesktopInv, NEW t \in Threads,
         ExitRead(t) \/ DisconnectRead(t) \/ (\E u \in Urls : EditRead(t, u))
  PROVE  DesktopInv'
<1>0. /\ UNCHANGED <<registered, auto, conf, files, relay, fails>> /\ auto \in BOOLEAN
      /\ fails' \in 0..MaxFails /\ regLock = Nobody
      /\ opLock \in Threads \cup {Nobody} /\ stateLock \in Threads \cup {Nobody}
      /\ conf \in Confs \cup {NoConf}
  BY DEF DesktopInv, TypeOK, entry, ExitRead, DisconnectRead, EditRead, LockRegistry
<1>1. CASE Return(t)
  BY <1>0, <1>1, QuietReturn
<1>2. CASE ~Return(t)
  <2>1. PICK p \in {"exitSave", "disconnectSave", "editSave"}, c \in Confs :
          /\ registered /\ conf # NoConf /\ conf \in Confs
          /\ regLock' = t /\ GotoWith(t, p, c) /\ UNCHANGED <<opLock, stateLock>>
          /\ p = "exitSave" => c.url = conf.url /\ c.state \in Exiting
          /\ p = "disconnectSave" =>
               /\ c.url = conf.url /\ conf.state \notin Exiting
               /\ c.state \in {"DisconnectPending", "Disconnected"}
               /\ c.state = "Disconnected" => conf.state = "Disconnected"
          /\ p = "editSave" => c.state = "Connected" /\ conf.state = "Connected"
    <3>1. CASE ExitRead(t)
      <4>1. /\ Says(States \ {"Disconnected"}) /\ regLock' = t
            /\ GotoWith(t, "exitSave", IF conf.state \in Cleaned THEN conf
                                       ELSE [conf EXCEPT !.state = "ExitPending"])
            /\ UNCHANGED <<opLock, stateLock>>
        BY <1>2, <3>1 DEF ExitRead
      <4>2. conf \in Confs /\ registered /\ conf # NoConf
        BY <1>0, <4>1 DEF Says
      <4>3. /\ [conf EXCEPT !.state = "ExitPending"] \in Confs
            /\ [conf EXCEPT !.state = "ExitPending"].url = conf.url
            /\ [conf EXCEPT !.state = "ExitPending"].state = "ExitPending"
        BY <4>2 DEF Confs, States, Exiting
      <4> QED
        BY <4>1, <4>2, <4>3 DEF Exiting
    <3>2. CASE DisconnectRead(t)
      <4>1. /\ Says(States \ Exiting) /\ regLock' = t
            /\ GotoWith(t, "disconnectSave",
                        IF conf.state = "Disconnected" THEN conf
                        ELSE [conf EXCEPT !.state = "DisconnectPending"])
            /\ UNCHANGED <<opLock, stateLock>>
        BY <1>2, <3>2 DEF DisconnectRead
      <4>2. conf \in Confs /\ registered /\ conf # NoConf /\ conf.state \notin Exiting
        BY <1>0, <4>1 DEF Says
      <4>3. /\ [conf EXCEPT !.state = "DisconnectPending"] \in Confs
            /\ [conf EXCEPT !.state = "DisconnectPending"].url = conf.url
            /\ [conf EXCEPT !.state = "DisconnectPending"].state = "DisconnectPending"
        BY <4>2 DEF Confs, States
      <4> QED
        BY <4>1, <4>2, <4>3
    <3>3. ASSUME NEW u \in Urls, EditRead(t, u)
          PROVE  /\ registered /\ conf # NoConf /\ conf \in Confs /\ regLock' = t
                 /\ GotoWith(t, "editSave", [conf EXCEPT !.url = u])
                 /\ UNCHANGED <<opLock, stateLock>>
                 /\ [conf EXCEPT !.url = u] \in Confs
                 /\ [conf EXCEPT !.url = u].state = "Connected"
                 /\ conf.state = "Connected"
      <4>1. /\ Says({"Connected"}) /\ regLock' = t
            /\ GotoWith(t, "editSave", [conf EXCEPT !.url = u])
            /\ UNCHANGED <<opLock, stateLock>>
        BY <1>2, <3>3 DEF EditRead
      <4>2. conf \in Confs /\ registered /\ conf # NoConf /\ conf.state = "Connected"
        BY <1>0, <4>1 DEF Says
      <4>3. /\ [conf EXCEPT !.url = u] \in Confs
            /\ [conf EXCEPT !.url = u].state = "Connected"
        BY <4>2 DEF Confs
      <4> QED
        BY <4>1, <4>2, <4>3
    <3> QED
      BY <3>1, <3>2, <3>3
  <2>2. p \in Pcs
    BY DEF Pcs, InUpdate
  <2>3. th'[t].pc = p /\ th'[t].saved = c
    BY <2>1, <2>2, Moves DEF DesktopInv
  <2>4. ThreadInv(t)'
    BY <1>0, <2>1, <2>3 DEF ThreadInv, HoldsItsLocks, CarriesConf, UpdateIsCurrent,
       ExitIsCurrent, RelayHasSaid, FilesStayClean, InUpdate, InExit
  <2> QED
    BY <1>0, <2>1, <2>2, <2>4, QuietGoto DEF LockStep
<1> QED
  BY <1>1, <1>2

\* The second half of an update gives the registry lock back and goes on with
\* the configuration it saved.
LEMMA UpdateEndInv ==
  ASSUME DesktopInv, NEW t \in Threads, ExitAuto(t) \/ DisconnectAuto(t) \/ EditAuto(t)
  PROVE  DesktopInv'
<1>0. /\ UNCHANGED <<registered, conf, files, relay, fails>> /\ auto' \in BOOLEAN
      /\ fails' \in 0..MaxFails
      /\ opLock \in Threads \cup {Nobody} /\ stateLock \in Threads \cup {Nobody}
      /\ regLock = t
  BY DEF DesktopInv, TypeOK, ExitAuto, DisconnectAuto, EditAuto, SaveRegistry, At,
     HoldsItsLocks, InUpdate
<1>1. CASE EditAuto(t)
  BY <1>0, <1>1, QuietReturn DEF EditAuto
<1>2. CASE ~EditAuto(t)
  <2>1. PICK p \in {"exitPost", "disconnected", "disconnectPost"} :
          /\ regLock' = Nobody /\ Goto(t, p) /\ UNCHANGED <<opLock, stateLock>>
          /\ p = "exitPost" => th[t].pc = "exitAuto"
          /\ p = "disconnectPost" => /\ th[t].pc = "disconnectAuto"
                                     /\ th[t].saved.state # "Disconnected"
    BY <1>2 DEF ExitAuto, DisconnectAuto, SaveRegistry, At
  <2>2. p \in Pcs
    BY DEF Pcs
  <2>3. th'[t].pc = p /\ th'[t].saved = th[t].saved
    BY <2>1, <2>2, Moves DEF DesktopInv
  <2>4. p # "disconnected" => ThreadInv(t)'
    BY <1>0, <2>1, <2>3 DEF DesktopInv, ThreadInv, HoldsItsLocks, CarriesConf,
       UpdateIsCurrent, ExitIsCurrent, RelayHasSaid, FilesStayClean, InUpdate, InExit
  <2> QED
    BY <1>0, <2>1, <2>2, <2>4, QuietGoto DEF LockStep, Plain
<1> QED
  BY <1>1, <1>2

\* The checks of an exit after the relay's answer: the operation lock, the entry,
\* and that the configuration is still the one the request was for.
LEMMA ExitChecksInv ==
  ASSUME DesktopInv, NEW t \in Threads,
         ExitLock(t) \/ ExitEntry(t) \/ ExitConf(t) \/ DisconnectConfirm(t)
  PROVE  DesktopInv'
<1>0. /\ UNCHANGED <<registered, auto, conf, files, relay, fails>> /\ auto \in BOOLEAN
      /\ fails' \in 0..MaxFails
      /\ regLock \in Threads \cup {Nobody} /\ opLock \in Threads \cup {Nobody}
      /\ stateLock \in Threads \cup {Nobody}
  BY DEF DesktopInv, TypeOK, entry, ExitLock, ExitEntry, LoadEntry, ExitConf,
     DisconnectConfirm
<1>1. CASE Return(t)
  BY <1>0, <1>1, QuietReturn
<1>2. CASE ~Return(t)
  <2>1. PICK p \in {"exitEntry", "exitConf", "clean", "exitAck", "disconnectDone"} :
          /\ Goto(t, p) /\ UNCHANGED stateLock
          /\ p = "exitEntry" => /\ th[t].pc = "exitLock" /\ opLock = Nobody
                                /\ opLock' = t /\ UNCHANGED regLock
          /\ p = "exitConf" => th[t].pc = "exitEntry" /\ UNCHANGED <<regLock, opLock>>
          /\ p \in {"clean", "exitAck"} =>
               /\ th[t].pc = "exitConf" /\ UNCHANGED <<regLock, opLock>>
               /\ conf = th[t].saved
               /\ p = "exitAck" <=> conf.state \in Cleaned
          /\ p = "disconnectDone" =>
               /\ th[t].pc = "disconnectConfirm" /\ registered /\ conf = th[t].saved
               /\ regLock = Nobody /\ regLock' = t /\ UNCHANGED opLock
    BY <1>2 DEF ExitLock, ExitEntry, LoadEntry, ExitConf, DisconnectConfirm, LockRegistry,
       At, locks
  <2>2. p \in Pcs
    BY DEF Pcs, InExit, InUpdate
  <2>3. th'[t].pc = p /\ th'[t].saved = th[t].saved
    BY <2>1, <2>2, Moves DEF DesktopInv
  <2>4. HoldsItsLocks(t)' /\ CarriesConf(t)' /\ UpdateIsCurrent(t)'
    BY <1>0, <2>1, <2>3 DEF DesktopInv, HoldsItsLocks, CarriesConf, UpdateIsCurrent,
       InUpdate, InExit
  <2>5. ExitIsCurrent(t)'
    BY <1>0, <2>1, <2>3 DEF DesktopInv, CarriesConf, ExitIsCurrent, InExit, Exiting
  <2>6. RelayHasSaid(t)'
    BY <1>0, <2>1, <2>3 DEF DesktopInv, RelayHasSaid, InExit
  <2>7. FilesStayClean(t)'
    BY <1>0, <2>1, <2>3 DEF DesktopInv, CarriesConf, FilesStayClean, ConfigurationIsTrue,
       Empty, InExit
  <2> QED
    BY <1>0, <2>1, <2>2, <2>4, <2>5, <2>6, <2>7, QuietGoto DEF LockStep, ThreadInv
<1> QED
  BY <1>1, <1>2

\* Another process's locks are not touched by a step.
LEMMA OthersHold ==
  ASSUME DesktopInv, NEW t \in Threads, OnlyMoves(t),
         LockStep(t, regLock, regLock'), LockStep(t, opLock, opLock'),
         LockStep(t, stateLock, stateLock')
  PROVE  \A x \in Threads \ {t} : th'[x] = th[x] /\ HoldsItsLocks(x)'
<1> SUFFICES ASSUME NEW x \in Threads \ {t} PROVE th'[x] = th[x] /\ HoldsItsLocks(x)'
  OBVIOUS
<1>1. th'[x] = th[x] /\ x # t /\ x # Nobody
  BY DEF OnlyMoves, Threads
<1> QED
  BY <1>1 DEF DesktopInv, HoldsItsLocks, LockStep

\* What the relay has recorded is only ever added to, so its answers stay true.
LEMMA RelayGrows ==
  ASSUME DesktopInv, TypeOK', UNCHANGED <<registered, conf, files>>,
         RelayInOrder',
         \A u \in Urls : /\ relay[u].revoked => relay'[u].revoked
                         /\ relay[u].server => relay'[u].server
                         /\ Complete(relay[u]) => Complete(relay'[u]),
         \A x \in Threads : ThreadInv(x)' \/ (th'[x] = th[x] /\ HoldsItsLocks(x)')
  PROVE  DesktopInv'
<1>1. ASSUME NEW x \in Threads, th'[x] = th[x], HoldsItsLocks(x)' PROVE ThreadInv(x)'
  <2>1. CarriesConf(x)' /\ UpdateIsCurrent(x)' /\ ExitIsCurrent(x)' /\ FilesStayClean(x)'
    BY <1>1 DEF DesktopInv, CarriesConf, UpdateIsCurrent, ExitIsCurrent, FilesStayClean,
       Empty
  <2>2. th[x].pc \in {"disconnectConfirm", "disconnectDone", "exitLock"} \cup InExit =>
          th[x].saved.url \in Urls
    BY DEF DesktopInv, CarriesConf, Confs
  <2>3. RelayHasSaid(x)'
    BY <1>1, <2>2 DEF DesktopInv, RelayHasSaid, InExit
  <2> QED
    BY <1>1, <2>1, <2>3 DEF ThreadInv
<1>2. \A x \in Threads : ThreadInv(x)'
  BY <1>1
<1>3. conf # NoConf => conf.url \in Urls
  BY DEF DesktopInv, TypeOK, Confs
<1>4. ConfigurationIsTrue' /\ RemovedWasRevoked' /\ (registered => conf # NoConf)'
  BY <1>3 DEF DesktopInv, ConfigurationIsTrue, RemovedWasRevoked, Empty
<1> QED
  BY <1>2, <1>4 DEF DesktopInv, ThreadInv

\* What a relay Folder becomes when it is revoked, asked to clean up, and when a
\* receipt comes in.
LEMMA RelayRecords ==
  ASSUME DesktopInv, NEW u \in Urls, NEW r \in RelayFolders,
         relay' = [relay EXCEPT ![u] = r],
         r.server => r.requested, r.requested => r.revoked,
         relay[u].revoked => r.revoked, relay[u].server => r.server,
         relay[u].requested => r.requested, relay[u].sender => r.sender,
         relay[u].receiver => r.receiver
  PROVE  /\ relay' \in [Urls -> RelayFolders] /\ relay'[u] = r /\ RelayInOrder'
         /\ \A v \in Urls : /\ relay[v].revoked => relay'[v].revoked
                            /\ relay[v].server => relay'[v].server
                            /\ Complete(relay[v]) => Complete(relay'[v])
BY DEF DesktopInv, TypeOK, RelayInOrder, Complete

\* The phone's own steps on the relay.
LEMMA PeerInv ==
  ASSUME DesktopInv, NEW u \in Urls,
         PeerDisconnects(u) \/ PeerExits(u) \/ PeerCleaned(u)
  PROVE  DesktopInv'
<1>0. /\ UNCHANGED <<registered, auto, conf, files, regLock, opLock, stateLock, th, fails>>
      /\ relay[u] \in RelayFolders
  BY DEF PeerDisconnects, PeerExits, PeerCleaned, entry, locks, DesktopInv, TypeOK
<1>1. PICK r \in RelayFolders :
        /\ relay' = [relay EXCEPT ![u] = r]
        /\ r.server => r.requested
        /\ r.requested => r.revoked
        /\ relay[u].revoked => r.revoked
        /\ relay[u].server => r.server
        /\ relay[u].requested => r.requested
        /\ relay[u].sender => r.sender
        /\ relay[u].receiver => r.receiver
  <2>0. relay \in [Urls -> RelayFolders]
    BY DEF DesktopInv, TypeOK
  <2>1. CASE PeerDisconnects(u)
    <3> DEFINE r == [relay[u] EXCEPT !.revoked = TRUE]
    <3>1. relay' = [relay EXCEPT ![u] = r]
      BY <2>0, <2>1 DEF PeerDisconnects
    <3>2. /\ r \in RelayFolders /\ r.revoked /\ r.server = relay[u].server
          /\ r.requested = relay[u].requested
          /\ r.sender = relay[u].sender /\ r.receiver = relay[u].receiver
      BY <1>0 DEF RelayFolders
    <3> HIDE DEF r
    <3> QED
      BY <3>1, <3>2 DEF DesktopInv, RelayInOrder
  <2>2. CASE PeerExits(u)
    <3> DEFINE r == [relay[u] EXCEPT !.revoked = TRUE, !.requested = TRUE, !.server = TRUE]
    <3>1. relay' = [relay EXCEPT ![u] = r]
      BY <2>0, <2>2 DEF PeerExits
    <3>2. /\ r \in RelayFolders /\ r.revoked /\ r.server /\ r.requested
          /\ r.sender = relay[u].sender /\ r.receiver = relay[u].receiver
      BY <1>0 DEF RelayFolders
    <3> HIDE DEF r
    <3> QED
      BY <3>1, <3>2
  <2>3. CASE PeerCleaned(u)
    <3> DEFINE r == [relay[u] EXCEPT !.sender = TRUE]
    <3>1. relay' = [relay EXCEPT ![u] = r]
      BY <2>0, <2>3 DEF PeerCleaned
    <3>2. /\ r \in RelayFolders /\ r.sender /\ r.revoked = relay[u].revoked
          /\ r.server = relay[u].server /\ r.requested = relay[u].requested
          /\ r.receiver = relay[u].receiver
      BY <1>0 DEF RelayFolders
    <3> HIDE DEF r
    <3> QED
      BY <3>1, <3>2 DEF DesktopInv, RelayInOrder
  <2> QED
    BY <2>1, <2>2, <2>3
<1>2. /\ relay' \in [Urls -> RelayFolders] /\ RelayInOrder'
      /\ \A v \in Urls : /\ relay[v].revoked => relay'[v].revoked
                         /\ relay[v].server => relay'[v].server
                         /\ Complete(relay[v]) => Complete(relay'[v])
  BY <1>1, RelayRecords
<1>3. TypeOK' /\ \A x \in Threads : HoldsItsLocks(x)'
  BY <1>0, <1>2 DEF DesktopInv, TypeOK, HoldsItsLocks
<1> QED
  BY <1>0, <1>2, <1>3, RelayGrows

\* The requests of a desktop: what is recorded is what it asked for, and an
\* answer that says so moves the call on.
LEMMA RequestInv ==
  ASSUME DesktopInv, NEW t \in Threads,
         ExitPost(t) \/ ExitAck(t) \/ DisconnectPost(t)
  PROVE  DesktopInv'
<1> DEFINE u == th[t].saved.url
<1>0. /\ UNCHANGED <<registered, auto, conf, files>> /\ fails' \in 0..MaxFails
      /\ th[t].saved \in Confs /\ u \in Urls
      /\ relay \in [Urls -> RelayFolders] /\ relay[u] \in RelayFolders
      /\ auto \in BOOLEAN /\ conf \in Confs \cup {NoConf}
  BY DEF ExitPost, ExitAck, DisconnectPost, At, entry, DesktopInv, TypeOK, CarriesConf,
     Confs, InExit
<1>1. PICK r \in RelayFolders :
        /\ relay' = [relay EXCEPT ![u] = r]
        /\ r.server => r.requested
        /\ r.requested => r.revoked
        /\ relay[u].revoked => r.revoked
        /\ relay[u].server => r.server
        /\ relay[u].requested => r.requested
        /\ relay[u].sender => r.sender
        /\ relay[u].receiver => r.receiver
        /\ ExitPost(t) /\ ~Return(t) => r.server
        /\ DisconnectPost(t) => r.revoked
        /\ ExitAck(t) /\ ~Return(t) => Complete(r)
  <2>1. CASE ExitPost(t)
    <3>0. ~ExitAck(t) /\ ~DisconnectPost(t)
      BY <2>1 DEF ExitPost, ExitAck, DisconnectPost, At
    <3>1. CASE ~Return(t)
      <4> DEFINE r == [relay[u] EXCEPT !.revoked = TRUE, !.requested = TRUE, !.server = TRUE]
      <4>1. relay' = [relay EXCEPT ![u] = r]
        BY <1>0, <2>1, <3>1 DEF ExitPost
      <4>2. /\ r \in RelayFolders /\ r.revoked /\ r.server /\ r.requested
            /\ r.sender = relay[u].sender /\ r.receiver = relay[u].receiver
        BY <1>0 DEF RelayFolders
      <4> HIDE DEF r
      <4> QED
        BY <4>1, <4>2, <3>0
    <3>2. CASE Return(t)
      <4> DEFINE r == [relay[u] EXCEPT !.revoked = TRUE, !.requested = TRUE]
      <4>0. "exitLock" \in Pcs /\ "exitLock" # "idle"
        BY DEF Pcs
      <4>1. ~Goto(t, "exitLock")
        BY <3>2, <4>0, Moves DEF DesktopInv
      <4>2. relay' = [relay EXCEPT ![u] = r]
        BY <1>0, <2>1, <4>1 DEF ExitPost
      <4>3. /\ r \in RelayFolders /\ r.revoked /\ r.requested
            /\ r.server = relay[u].server
            /\ r.sender = relay[u].sender /\ r.receiver = relay[u].receiver
        BY <1>0 DEF RelayFolders
      <4> HIDE DEF r
      <4> QED
        BY <4>2, <4>3, <3>0, <3>2
    <3> QED
      BY <3>1, <3>2
  <2>2. CASE DisconnectPost(t)
    <3>0. ~ExitAck(t) /\ ~ExitPost(t)
      BY <2>2 DEF ExitPost, ExitAck, DisconnectPost, At
    <3> DEFINE r == [relay[u] EXCEPT !.revoked = TRUE]
    <3>1. relay' = [relay EXCEPT ![u] = r]
      BY <1>0, <2>2 DEF DisconnectPost
    <3>2. /\ r \in RelayFolders /\ r.revoked /\ r.server = relay[u].server
          /\ r.requested = relay[u].requested
          /\ r.sender = relay[u].sender /\ r.receiver = relay[u].receiver
      BY <1>0 DEF RelayFolders
    <3> HIDE DEF r
    <3> QED
      BY <1>0, <3>0, <3>1, <3>2 DEF DesktopInv, RelayInOrder
  <2>3. CASE ExitAck(t)
    <3>0. ~DisconnectPost(t) /\ ~ExitPost(t) /\ relay[u].server
      BY <2>3 DEF ExitPost, ExitAck, DisconnectPost, At, DesktopInv, RelayHasSaid, InExit
    <3> DEFINE r == [relay[u] EXCEPT !.receiver = TRUE]
    <3>1. relay' = [relay EXCEPT ![u] = r]
      BY <1>0, <2>3, <3>0 DEF ExitAck
    <3>2. /\ r \in RelayFolders /\ r.receiver /\ r.server = relay[u].server
          /\ r.requested = relay[u].requested /\ r.revoked = relay[u].revoked
          /\ r.sender = relay[u].sender
      BY <1>0 DEF RelayFolders
    <3> HIDE DEF r
    <3>3. relay'[u] = r
      BY <1>0, <3>1
    <3>4. ~Return(t) => Complete(r)
      BY <2>3, <3>0, <3>3 DEF ExitAck
    <3> QED
      BY <1>0, <3>0, <3>1, <3>2, <3>4 DEF DesktopInv, RelayInOrder
  <2> QED
    BY <2>1, <2>2, <2>3
<1>2. /\ relay' \in [Urls -> RelayFolders] /\ relay'[u] = r /\ RelayInOrder'
      /\ \A v \in Urls : /\ relay[v].revoked => relay'[v].revoked
                         /\ relay[v].server => relay'[v].server
                         /\ Complete(relay[v]) => Complete(relay'[v])
  BY <1>0, <1>1, RelayRecords
<1>3. CASE Return(t)
  <2>1. TypeOK'
    BY <1>0, <1>2, <1>3, Moves DEF DesktopInv, TypeOK
  <2>2. ThreadInv(t)'
    BY <1>3, Moves, PlainClaimsNothing DEF DesktopInv, Plain
  <2>3. \A x \in Threads \ {t} : th'[x] = th[x] /\ HoldsItsLocks(x)'
    BY <1>3, Moves, OthersHold DEF DesktopInv
  <2> QED
    BY <1>0, <1>2, <2>1, <2>2, <2>3, RelayGrows
<1>4. CASE ~Return(t)
  <2>1. PICK p \in {"exitLock", "disconnectConfirm", "exitDone"} :
          /\ Goto(t, p) /\ UNCHANGED locks
          /\ p = "exitLock" => ExitPost(t) /\ th[t].pc = "exitPost"
          /\ p = "disconnectConfirm" => DisconnectPost(t) /\ th[t].pc = "disconnectPost"
          /\ p = "exitDone" => ExitAck(t) /\ th[t].pc = "exitAck"
    <3>1. ASSUME ExitPost(t)
          PROVE  Goto(t, "exitLock") /\ UNCHANGED locks /\ th[t].pc = "exitPost"
      BY <1>4, <3>1 DEF ExitPost, At
    <3>2. ASSUME DisconnectPost(t)
          PROVE  Goto(t, "disconnectConfirm") /\ UNCHANGED locks
                 /\ th[t].pc = "disconnectPost"
      BY <3>2 DEF DisconnectPost, At
    <3>3. ASSUME ExitAck(t)
          PROVE  Goto(t, "exitDone") /\ UNCHANGED locks /\ th[t].pc = "exitAck"
      BY <1>4, <3>3 DEF ExitAck, At
    <3> QED
      BY <3>1, <3>2, <3>3
  <2>2. p \in Pcs
    BY DEF Pcs, InExit
  <2>3. /\ th' \in [Threads -> [pc : Pcs, saved : Confs \cup {NoConf}]]
        /\ th'[t].pc = p /\ th'[t].saved = th[t].saved /\ OnlyMoves(t)
    BY <2>1, <2>2, Moves DEF DesktopInv
  <2>4. TypeOK'
    BY <1>0, <1>2, <2>1, <2>3 DEF DesktopInv, TypeOK, locks
  <2>5. \A x \in Threads \ {t} : th'[x] = th[x] /\ HoldsItsLocks(x)'
    BY <2>1, <2>3, OthersHold DEF locks, LockStep
  <2>6. HoldsItsLocks(t)' /\ CarriesConf(t)' /\ UpdateIsCurrent(t)'
    BY <1>0, <2>1, <2>3 DEF DesktopInv, HoldsItsLocks, CarriesConf, UpdateIsCurrent,
       InUpdate, InExit, locks
  <2>7. ExitIsCurrent(t)' /\ FilesStayClean(t)'
    BY <1>0, <2>1, <2>3 DEF DesktopInv, ExitIsCurrent, FilesStayClean, Empty
  <2>8. relay'[u].server \/ p = "disconnectConfirm"
    BY <1>0, <1>1, <1>2, <1>4, <2>1 DEF DesktopInv, RelayHasSaid, InExit
  <2>9. RelayHasSaid(t)'
    BY <1>1, <1>2, <1>4, <2>1, <2>3, <2>8 DEF RelayHasSaid, InExit
  <2> QED
    BY <1>0, <1>2, <2>4, <2>5, <2>6, <2>7, <2>9, RelayGrows DEF ThreadInv
<1> QED
  BY <1>3, <1>4

\* A receive writes state.json only while no marker is there.
LEMMA SyncSaveInv ==
  ASSUME DesktopInv, NEW t \in Threads, SyncSave(t)
  PROVE  DesktopInv'
<1>0. /\ UNCHANGED <<registered, auto, conf, regLock, opLock, stateLock, relay, th, fails>>
      /\ files \in [state : BOOLEAN, retired : BOOLEAN] /\ ~files.retired
  BY DEF SyncSave, At, entry, locks, DesktopInv, TypeOK, FilesStayClean
<1>1. /\ files' \in [state : BOOLEAN, retired : BOOLEAN]
      /\ files'.retired = files.retired
  BY <1>0 DEF SyncSave
<1>2. TypeOK' /\ RelayInOrder' /\ (registered => conf # NoConf)' /\ RemovedWasRevoked'
  BY <1>0, <1>1 DEF DesktopInv, TypeOK, RelayInOrder, RemovedWasRevoked
<1>3. ConfigurationIsTrue'
  BY <1>0, <1>1 DEF DesktopInv, ConfigurationIsTrue, Empty
<1>4. ASSUME NEW x \in Threads PROVE ThreadInv(x)'
  <2>1. HoldsItsLocks(x)' /\ CarriesConf(x)' /\ UpdateIsCurrent(x)' /\ ExitIsCurrent(x)'
        /\ RelayHasSaid(x)'
    BY <1>0 DEF DesktopInv, HoldsItsLocks, CarriesConf, UpdateIsCurrent, ExitIsCurrent,
       RelayHasSaid
  <2>2. FilesStayClean(x)'
    BY <1>0, <1>1 DEF DesktopInv, FilesStayClean, Empty
  <2> QED
    BY <2>1, <2>2 DEF ThreadInv
<1> QED
  BY <1>2, <1>3, <1>4 DEF DesktopInv, ThreadInv

\* clean_local: the marker goes down when nobody writes state, and the files go
\* after it, under the same lock.
LEMMA CleanInv ==
  ASSUME DesktopInv, NEW t \in Threads, CleanMark(t) \/ CleanRemove(t)
  PROVE  DesktopInv'
<1>0. /\ UNCHANGED <<registered, auto, conf, regLock, opLock, relay, fails>>
      /\ files \in [state : BOOLEAN, retired : BOOLEAN]
      /\ th[t].pc \in {"clean", "cleanRemove"}
  BY DEF CleanMark, CleanRemove, At, entry, DesktopInv, TypeOK
<1>1. PICK p \in {"cleanRemove", "exitCleaned"} :
        /\ Goto(t, p)
        /\ p = "cleanRemove" => stateLock = Nobody /\ stateLock' = t
        /\ p = "exitCleaned" => stateLock = t /\ stateLock' = Nobody
  BY DEF CleanMark, CleanRemove, At, DesktopInv, HoldsItsLocks
<1>2. /\ files' \in [state : BOOLEAN, retired : BOOLEAN] /\ files'.retired
      /\ files'.state => files.state
      /\ p = "exitCleaned" => ~files'.state
  <2>0. "cleanRemove" \in Pcs /\ "exitCleaned" \in Pcs
    BY DEF Pcs, InExit
  <2>1. CASE CleanMark(t)
    <3>1. p = "cleanRemove"
      BY <1>1, <2>0, <2>1, Moves DEF CleanMark, DesktopInv
    <3> QED
      BY <1>0, <2>1, <3>1 DEF CleanMark
  <2>2. CASE CleanRemove(t)
    <3>1. files.retired
      BY <2>2 DEF CleanRemove, At, DesktopInv, FilesStayClean
    <3> QED
      BY <1>0, <2>2, <3>1 DEF CleanRemove
  <2> QED
    BY <2>1, <2>2
<1>3. /\ th' \in [Threads -> [pc : Pcs, saved : Confs \cup {NoConf}]]
      /\ th'[t].pc = p /\ th'[t].saved = th[t].saved /\ OnlyMoves(t)
  BY <1>1, Moves DEF DesktopInv, Pcs, InExit
<1>4. TypeOK'
  BY <1>0, <1>1, <1>2, <1>3 DEF DesktopInv, TypeOK
<1>5. RelayInOrder' /\ (registered => conf # NoConf)' /\ RemovedWasRevoked'
  BY <1>0 DEF DesktopInv, RelayInOrder, RemovedWasRevoked
<1>6. ConfigurationIsTrue'
  BY <1>0, <1>2 DEF DesktopInv, ConfigurationIsTrue, Empty, Complete
<1>7. ThreadInv(t)'
  <2>1. HoldsItsLocks(t)' /\ CarriesConf(t)' /\ UpdateIsCurrent(t)'
    BY <1>0, <1>1, <1>3 DEF DesktopInv, HoldsItsLocks, CarriesConf, UpdateIsCurrent,
       InUpdate, InExit
  <2>2. ExitIsCurrent(t)' /\ RelayHasSaid(t)' /\ FilesStayClean(t)'
    BY <1>0, <1>1, <1>2, <1>3 DEF DesktopInv, ExitIsCurrent, RelayHasSaid,
       FilesStayClean, Empty, InExit
  <2> QED
    BY <2>1, <2>2 DEF ThreadInv
<1>8. ASSUME NEW x \in Threads \ {t} PROVE ThreadInv(x)'
  <2>0. th'[x] = th[x] /\ HoldsItsLocks(x)'
    BY <1>0, <1>1, <1>3, OthersHold DEF LockStep
  <2>1. CarriesConf(x)' /\ UpdateIsCurrent(x)' /\ ExitIsCurrent(x)' /\ RelayHasSaid(x)'
    BY <1>0, <2>0 DEF DesktopInv, CarriesConf, UpdateIsCurrent, ExitIsCurrent,
       RelayHasSaid
  <2>2. th[x].pc # "syncing"
    BY <1>1, <1>0 DEF DesktopInv, HoldsItsLocks, Threads
  <2>3. FilesStayClean(x)'
    BY <1>2, <2>0, <2>2 DEF DesktopInv, FilesStayClean, Empty
  <2> QED
    BY <2>0, <2>1, <2>3 DEF ThreadInv
<1> QED
  BY <1>4, <1>5, <1>6, <1>7, <1>8 DEF DesktopInv, ThreadInv

\* A step that saves the configuration: what remains to be shown is that it is
\* true, and that it does not surprise another process.
LEMMA ConfStep ==
  ASSUME DesktopInv, TypeOK', NEW t \in Threads, OnlyMoves(t),
         LockStep(t, regLock, regLock'), LockStep(t, opLock, opLock'),
         LockStep(t, stateLock, stateLock'),
         UNCHANGED <<files, relay>>, ThreadInv(t)',
         \A x \in Threads \ {t} : UpdateIsCurrent(x)' /\ ExitIsCurrent(x)',
         (registered => conf # NoConf)', ConfigurationIsTrue', RemovedWasRevoked'
  PROVE  DesktopInv'
<1>1. ASSUME NEW x \in Threads \ {t} PROVE ThreadInv(x)'
  <2>1. th'[x] = th[x] /\ HoldsItsLocks(x)'
    BY OthersHold
  <2>2. CarriesConf(x)' /\ RelayHasSaid(x)' /\ FilesStayClean(x)'
    BY <2>1 DEF DesktopInv, CarriesConf, RelayHasSaid, FilesStayClean, Empty
  <2> QED
    BY <2>1, <2>2 DEF ThreadInv
<1>2. RelayInOrder'
  BY DEF DesktopInv, RelayInOrder
<1> QED
  BY <1>1, <1>2 DEF DesktopInv, ThreadInv

\* The saves of updates under the registry lock.
LEMMA UpdateSaveInv ==
  ASSUME DesktopInv, NEW t \in Threads,
         ExitSave(t) \/ DisconnectSave(t) \/ EditSave(t)
  PROVE  DesktopInv'
<1> DEFINE c == th[t].saved
<1>0. /\ UNCHANGED <<registered, auto, files, regLock, opLock, stateLock, relay, fails>>
      /\ th[t].pc \in {"exitSave", "disconnectSave", "editSave"}
      /\ c \in Confs /\ conf \in Confs /\ conf # NoConf /\ registered /\ regLock = t
      /\ th[t].pc \in {"exitSave", "disconnectSave"} => conf.url = c.url
  BY DEF ExitSave, DisconnectSave, EditSave, At, entry, locks, DesktopInv, TypeOK,
     HoldsItsLocks, CarriesConf, UpdateIsCurrent, InUpdate
<1>1. PICK p \in {"exitAuto", "disconnectAuto", "editAuto"} :
        /\ Goto(t, p)
        /\ p = "exitAuto" <=> th[t].pc = "exitSave"
        /\ p = "disconnectAuto" <=> th[t].pc = "disconnectSave"
        /\ p = "editAuto" <=> th[t].pc = "editSave"
        /\ p = "exitAuto" =>
             \/ conf' = conf
             \/ c.state = "ExitPending" /\ conf' = c
        /\ p # "exitAuto" => conf' = c
  <2>1. CASE ExitSave(t)
    BY <2>1 DEF ExitSave, At, DesktopInv, CarriesConf, Exiting
  <2>2. CASE DisconnectSave(t)
    BY <2>2 DEF DisconnectSave, At
  <2>3. CASE EditSave(t)
    BY <2>3 DEF EditSave, At
  <2> QED
    BY <2>1, <2>2, <2>3
<1>2. /\ th' \in [Threads -> [pc : Pcs, saved : Confs \cup {NoConf}]]
      /\ th'[t].pc = p /\ th'[t].saved = c /\ OnlyMoves(t)
  BY <1>1, Moves DEF DesktopInv, Pcs, InUpdate
<1>3. conf' \in Confs /\ conf' # NoConf
  BY <1>0, <1>1
<1>4. TypeOK'
  BY <1>0, <1>2, <1>3 DEF DesktopInv, TypeOK
<1>5. ThreadInv(t)'
  BY <1>0, <1>1, <1>2 DEF DesktopInv, ThreadInv, HoldsItsLocks, CarriesConf,
     UpdateIsCurrent, ExitIsCurrent, RelayHasSaid, FilesStayClean, InUpdate, InExit
<1>6. ASSUME NEW x \in Threads \ {t} PROVE UpdateIsCurrent(x)' /\ ExitIsCurrent(x)'
  <2>0. th'[x] = th[x] /\ th[x].pc \notin InUpdate
    BY <1>0, <1>2 DEF OnlyMoves, DesktopInv, HoldsItsLocks
  <2>1. UpdateIsCurrent(x)'
    BY <1>0, <2>0 DEF DesktopInv, UpdateIsCurrent, InUpdate
  <2>2. CASE p = "exitAuto"
    <3>1. conf.state = "ExitPending" => conf' = conf
      BY <1>0, <1>1, <2>2 DEF Confs
    <3>2. conf.state \in Exiting => conf'.state \in Exiting /\ conf'.url = conf.url
      BY <1>0, <1>1, <2>2 DEF Exiting
    <3> QED
      BY <1>0, <2>0, <2>1, <3>1, <3>2 DEF DesktopInv, ExitIsCurrent
  <2>3. CASE p # "exitAuto"
    <3>1. conf.state \notin Exiting
      BY <1>0, <1>1, <2>3 DEF DesktopInv, UpdateIsCurrent, Exiting, Cleaned
    <3>2. th[x].pc \notin {"clean", "cleanRemove", "exitCleaned", "exitAck", "exitDone"}
      BY <1>0, <3>1 DEF DesktopInv, ExitIsCurrent, Exiting
    <3> QED
      BY <2>0, <2>1, <3>2 DEF ExitIsCurrent
  <2> QED
    BY <2>2, <2>3
<1>7. ConfigurationIsTrue'
  <2>1. CASE conf' = conf
    BY <1>0, <2>1 DEF DesktopInv, ConfigurationIsTrue, Empty, Complete
  <2>2. CASE conf' = c /\ p = "disconnectAuto"
    BY <1>0, <1>1, <2>2 DEF DesktopInv, CarriesConf, UpdateIsCurrent, ConfigurationIsTrue,
       Cleaned
  <2>3. CASE conf' = c /\ p # "disconnectAuto" /\ conf' # conf
    <3>1. c.state \in {"ExitPending", "Connected"}
      BY <1>0, <1>1, <2>3 DEF DesktopInv, CarriesConf
    <3> QED
      BY <1>0, <2>3, <3>1 DEF ConfigurationIsTrue, Cleaned
  <2> QED
    BY <1>1, <2>1, <2>2, <2>3
<1>8. RemovedWasRevoked'
  BY <1>0 DEF RemovedWasRevoked
<1> QED
  BY <1>0, <1>2, <1>3, <1>4, <1>5, <1>6, <1>7, <1>8, ConfStep DEF LockStep

\* The relay has confirmed the disconnection of the very configuration that is
\* still there.
LEMMA DisconnectDoneInv ==
  ASSUME DesktopInv, NEW t \in Threads, DisconnectDone(t)
  PROVE  DesktopInv'
<1>0. /\ th[t].pc = "disconnectDone" /\ regLock = t /\ registered
      /\ conf = th[t].saved /\ conf \in Confs /\ conf.state = "DisconnectPending"
      /\ relay[conf.url].revoked /\ conf # NoConf
      /\ UNCHANGED <<registered, files, relay, fails>> /\ Return(t) /\ auto' = FALSE
  BY DEF DisconnectDone, At, DesktopInv, HoldsItsLocks, CarriesConf, UpdateIsCurrent,
     RelayHasSaid, InUpdate
<1>1. conf' \in Confs /\ conf'.state = "Disconnected" /\ conf'.url = conf.url
  BY <1>0 DEF DisconnectDone, Confs, States
<1>2. TypeOK' /\ ThreadInv(t)'
  BY <1>0, <1>1, Moves, PlainClaimsNothing DEF DesktopInv, TypeOK, Plain
<1>3. ASSUME NEW x \in Threads \ {t} PROVE UpdateIsCurrent(x)' /\ ExitIsCurrent(x)'
  <2>0. th'[x] = th[x] /\ th[x].pc \notin InUpdate
    BY <1>0, Moves DEF OnlyMoves, DesktopInv, HoldsItsLocks
  <2>1. th[x].pc \notin {"clean", "cleanRemove", "exitCleaned", "exitAck", "exitDone"}
    BY <1>0 DEF DesktopInv, ExitIsCurrent, Exiting, Cleaned
  <2> QED
    BY <1>0, <2>0, <2>1 DEF DesktopInv, UpdateIsCurrent, ExitIsCurrent, InUpdate
<1>4. ConfigurationIsTrue' /\ RemovedWasRevoked' /\ (registered => conf # NoConf)'
  BY <1>0, <1>1 DEF ConfigurationIsTrue, RemovedWasRevoked, Cleaned
<1> QED
  BY <1>0, <1>2, <1>3, <1>4, Moves, ConfStep DEF DesktopInv

\* The saves of clean exit under the operation lock: the local state is gone
\* when it says so, and both devices and the relay have confirmed "Exited".
LEMMA ExitSavesInv ==
  ASSUME DesktopInv, NEW t \in Threads, ExitCleaned(t) \/ ExitDone(t)
  PROVE  DesktopInv'
<1> DEFINE c == th[t].saved
<1>0. /\ th[t].pc \in {"exitCleaned", "exitDone"} /\ opLock = t /\ c \in Confs
      /\ Empty /\ relay[c.url].server /\ relay[c.url].revoked
      /\ th[t].pc = "exitDone" => Complete(relay[c.url])
      /\ th[t].pc = "exitCleaned" => conf = c /\ registered
      /\ conf = NoConf \/ (conf.state \in Exiting /\ conf.url = c.url)
      /\ UNCHANGED <<registered, auto, files, relay, fails>>
  <2>1. th[t].pc \in {"exitCleaned", "exitDone"}
        /\ UNCHANGED <<registered, auto, files, relay, fails>>
    BY DEF ExitCleaned, ExitDone, At, entry
  <2>2. c \in Confs /\ c.url \in Urls /\ opLock = t
    BY <2>1 DEF DesktopInv, HoldsItsLocks, CarriesConf, InExit, Confs
  <2>3. Empty /\ relay[c.url].server /\ (th[t].pc = "exitDone" => Complete(relay[c.url]))
    BY <2>1 DEF DesktopInv, RelayHasSaid, FilesStayClean, InExit
  <2>4. relay[c.url].revoked
    BY <2>2, <2>3 DEF DesktopInv, RelayInOrder
  <2>5. /\ th[t].pc = "exitCleaned" => conf = c /\ conf.state = "ExitPending"
        /\ conf = NoConf \/ (conf.state \in Exiting /\ conf.url = c.url)
    BY <2>1 DEF DesktopInv, ExitIsCurrent, Exiting
  <2>6. th[t].pc = "exitCleaned" => registered
    BY <2>2, <2>5 DEF DesktopInv, RemovedWasRevoked, Removable
  <2> QED
    BY <2>1, <2>2, <2>3, <2>4, <2>5, <2>6
<1>1. /\ conf' \in Confs /\ conf'.url = c.url /\ conf'.state \in Cleaned
      /\ conf'.state = "ExitLocalCleaned" <=> th[t].pc = "exitCleaned"
  <2>1. CASE ExitCleaned(t)
    BY <1>0, <2>1 DEF ExitCleaned, At, Confs, States, Exiting, Cleaned
  <2>2. CASE ExitDone(t)
    BY <1>0, <2>2 DEF ExitDone, At, Confs, States, Exiting, Cleaned
  <2> QED
    BY <2>1, <2>2
<1>2. /\ th' \in [Threads -> [pc : Pcs, saved : Confs \cup {NoConf}]]
      /\ OnlyMoves(t) /\ LockStep(t, regLock, regLock') /\ LockStep(t, opLock, opLock')
      /\ LockStep(t, stateLock, stateLock')
      /\ regLock' \in Threads \cup {Nobody} /\ opLock' \in Threads \cup {Nobody}
      /\ stateLock' \in Threads \cup {Nobody}
      /\ \/ th'[t].pc = "idle"
         \/ th'[t].pc = "exitAck" /\ th'[t].saved = conf' /\ UNCHANGED opLock
  <2>1. CASE ExitCleaned(t)
    <3>1. GotoWith(t, "exitAck", conf') /\ UNCHANGED locks /\ "exitAck" \in Pcs
      BY <2>1 DEF ExitCleaned, Pcs, InExit
    <3>2. /\ th' \in [Threads -> [pc : Pcs, saved : Confs \cup {NoConf}]]
          /\ th'[t].pc = "exitAck" /\ th'[t].saved = conf' /\ OnlyMoves(t)
      BY <1>1, <3>1, Moves DEF DesktopInv
    <3> QED
      BY <3>1, <3>2 DEF locks, LockStep, DesktopInv, TypeOK
  <2>2. CASE ExitDone(t)
    BY <2>2, Moves DEF ExitDone, DesktopInv
  <2> QED
    BY <2>1, <2>2
<1>3. TypeOK'
  BY <1>0, <1>1, <1>2 DEF DesktopInv, TypeOK
<1>4. ThreadInv(t)'
  <2>1. CASE th'[t].pc = "idle"
    BY <2>1, PlainClaimsNothing DEF Plain
  <2>2. CASE th'[t].pc = "exitAck"
    <3>1. th'[t].saved = conf' /\ opLock' = t
      BY <1>0, <1>2, <2>2
    <3>2. HoldsItsLocks(t)' /\ CarriesConf(t)' /\ UpdateIsCurrent(t)'
      BY <1>1, <2>2, <3>1 DEF HoldsItsLocks, CarriesConf, UpdateIsCurrent, InUpdate,
         InExit, Exiting
    <3>3. ExitIsCurrent(t)' /\ RelayHasSaid(t)' /\ FilesStayClean(t)'
      BY <1>0, <1>1, <2>2, <3>1 DEF ExitIsCurrent, RelayHasSaid, FilesStayClean, Empty,
         InExit, Exiting
    <3> QED
      BY <3>2, <3>3 DEF ThreadInv
  <2> QED
    BY <1>2, <2>1, <2>2
<1>5. ASSUME NEW x \in Threads \ {t} PROVE UpdateIsCurrent(x)' /\ ExitIsCurrent(x)'
  <2>0. th'[x] = th[x] /\ th[x].pc \notin InExit
    BY <1>0, <1>2 DEF OnlyMoves, DesktopInv, HoldsItsLocks
  <2>1. ExitIsCurrent(x)'
    BY <2>0 DEF ExitIsCurrent, InExit
  <2>2. CASE th[x].pc \in InUpdate
    <3>1. registered /\ conf # NoConf /\ conf.state \in Exiting /\ conf.url = c.url
      BY <1>0, <2>2 DEF DesktopInv, UpdateIsCurrent
    <3>2. th[x].pc \in {"exitSave", "exitAuto", "disconnectAuto"}
      BY <2>2, <3>1 DEF DesktopInv, UpdateIsCurrent, CarriesConf, InUpdate, Exiting, Cleaned
    <3> QED
      BY <1>0, <1>1, <2>0, <2>1, <3>1, <3>2 DEF DesktopInv, UpdateIsCurrent
  <2>3. CASE th[x].pc \notin InUpdate
    BY <1>0, <2>0, <2>1, <2>3 DEF DesktopInv, UpdateIsCurrent, InUpdate
  <2> QED
    BY <2>2, <2>3
<1>6. ConfigurationIsTrue'
  BY <1>0, <1>1 DEF ConfigurationIsTrue, Empty, Complete, Cleaned
<1>7. RemovedWasRevoked' /\ (registered => conf # NoConf)'
  BY <1>0, <1>1 DEF RemovedWasRevoked, Removable, Cleaned
<1> QED
  BY <1>0, <1>2, <1>3, <1>4, <1>5, <1>6, <1>7, ConfStep

\* Removal: only what the relay has revoked leaves the registry, and no update
\* is under way then.
LEMMA RemoveInv ==
  ASSUME DesktopInv, NEW t \in Threads, Remove(t)
  PROVE  DesktopInv'
<1>0. /\ UNCHANGED <<conf, files, relay, fails>> /\ fails' \in 0..MaxFails
      /\ regLock = Nobody /\ auto \in BOOLEAN
  BY DEF Remove, LockRegistry, DesktopInv, TypeOK
<1>1. CASE UNCHANGED entry /\ Return(t)
  BY <1>0, <1>1, QuietReturn DEF entry
<1>2. CASE Says(Removable) /\ registered' = FALSE /\ auto' = FALSE
           /\ Goto(t, "forget") /\ UNCHANGED locks
  <2>1. /\ th' \in [Threads -> [pc : Pcs, saved : Confs \cup {NoConf}]]
        /\ th'[t].pc = "forget" /\ OnlyMoves(t)
    BY <1>2, Moves DEF DesktopInv, Pcs
  <2>2. TypeOK'
    BY <1>0, <1>2, <2>1 DEF DesktopInv, TypeOK, locks
  <2>3. ThreadInv(t)'
    BY <1>2, <2>1 DEF ThreadInv, HoldsItsLocks, CarriesConf, UpdateIsCurrent,
       ExitIsCurrent, RelayHasSaid, FilesStayClean, InUpdate, InExit
  <2>4. ASSUME NEW x \in Threads \ {t} PROVE UpdateIsCurrent(x)' /\ ExitIsCurrent(x)'
    <3>1. th'[x] = th[x] /\ th[x].pc \notin InUpdate
      BY <1>0, <2>1 DEF OnlyMoves, DesktopInv, HoldsItsLocks, Threads
    <3> QED
      BY <1>0, <1>2, <3>1 DEF DesktopInv, UpdateIsCurrent, ExitIsCurrent, InUpdate
  <2>5. /\ conf # NoConf /\ conf.state \in Removable
        /\ relay[conf.url].revoked
    <3>1. conf # NoConf /\ conf.state \in Removable /\ conf.url \in Urls
      BY <1>2 DEF Says, DesktopInv, TypeOK, Confs
    <3>2. CASE conf.state = "Disconnected"
      BY <3>1, <3>2 DEF DesktopInv, ConfigurationIsTrue
    <3>3. CASE conf.state = "Exited"
      BY <3>1, <3>3 DEF DesktopInv, ConfigurationIsTrue, Complete, RelayInOrder
    <3> QED
      BY <3>1, <3>2, <3>3 DEF Removable
  <2>6. ConfigurationIsTrue' /\ RemovedWasRevoked' /\ (registered => conf # NoConf)'
    BY <1>0, <1>2, <2>5 DEF DesktopInv, ConfigurationIsTrue, RemovedWasRevoked, Empty,
       Complete
  <2> QED
    BY <1>0, <1>2, <2>1, <2>2, <2>3, <2>4, <2>6, ConfStep DEF locks, LockStep
<1> QED
  BY <1>1, <1>2 DEF Remove

\* The receipt of an exited Folder is forgotten after its removal.
LEMMA ForgetInv ==
  ASSUME DesktopInv, NEW t \in Threads, Forget(t)
  PROVE  DesktopInv'
<1>0. /\ th[t].pc = "forget" /\ ~registered /\ Return(t)
      /\ UNCHANGED <<registered, auto, files, relay, fails>>
      /\ \/ conf' = conf
         \/ conf.state = "Exited" /\ conf' = NoConf
  BY DEF Forget, At, entry, DesktopInv, UpdateIsCurrent
<1>1. TypeOK' /\ ThreadInv(t)'
  BY <1>0, Moves, PlainClaimsNothing DEF DesktopInv, TypeOK, Plain
<1>2. ASSUME NEW x \in Threads \ {t} PROVE UpdateIsCurrent(x)' /\ ExitIsCurrent(x)'
  <2>1. th'[x] = th[x] /\ th[x].pc \notin InUpdate
    BY <1>0, Moves DEF OnlyMoves, DesktopInv, UpdateIsCurrent
  <2> QED
    BY <1>0, <2>1 DEF DesktopInv, UpdateIsCurrent, ExitIsCurrent, InUpdate
<1>3. ConfigurationIsTrue' /\ RemovedWasRevoked' /\ (registered => conf # NoConf)'
  BY <1>0 DEF DesktopInv, ConfigurationIsTrue, RemovedWasRevoked, Empty, Complete
<1> QED
  BY <1>0, <1>1, <1>2, <1>3, Moves, ConfStep DEF DesktopInv

\* A Folder that has just been paired satisfies the invariant.
LEMMA InitInv == Init => DesktopInv
<1> SUFFICES ASSUME Init PROVE DesktopInv
  OBVIOUS
<1>1. /\ Idle \in [pc : Pcs, saved : Confs \cup {NoConf}]
      /\ \A t \in Threads : th[t].pc = "idle"
  BY DEF Init, Idle, Pcs
<1>2. conf \in Confs /\ conf.state = "Connected" /\ conf # NoConf
  BY DEF Init, Confs, States
<1>3. [revoked |-> FALSE, requested |-> FALSE, server |-> FALSE, sender |-> FALSE,
       receiver |-> FALSE] \in RelayFolders
  BY DEF RelayFolders
<1>4. TypeOK
  BY <1>1, <1>2, <1>3 DEF Init, TypeOK
<1>5. \A t \in Threads : /\ HoldsItsLocks(t) /\ CarriesConf(t) /\ UpdateIsCurrent(t)
                         /\ ExitIsCurrent(t) /\ RelayHasSaid(t) /\ FilesStayClean(t)
  BY <1>1 DEF HoldsItsLocks, CarriesConf, UpdateIsCurrent, ExitIsCurrent, RelayHasSaid,
     FilesStayClean, InUpdate, InExit
<1>6. RelayInOrder /\ ConfigurationIsTrue /\ RemovedWasRevoked
  BY <1>2 DEF Init, RelayInOrder, ConfigurationIsTrue, RemovedWasRevoked, Cleaned
<1> QED
  BY <1>2, <1>4, <1>5, <1>6 DEF DesktopInv

\* The invariant holds in every reachable state of the Folder's files.
THEOREM DesktopInvariance == Spec => []DesktopInv
<1>1. DesktopInv /\ [Next]_vars => DesktopInv'
  <2> SUFFICES ASSUME DesktopInv, [Next]_vars PROVE DesktopInv'
    OBVIOUS
  <2>1. CASE UNCHANGED vars
    <3>1. TypeOK' /\ RelayInOrder' /\ \A x \in Threads : HoldsItsLocks(x)'
      BY <2>1 DEF vars, DesktopInv, TypeOK, RelayInOrder, HoldsItsLocks
    <3> QED
      BY <2>1, <3>1, RelayGrows DEF vars
  <2>2. ASSUME NEW t \in Threads, Step(t) PROVE DesktopInv'
    BY <2>2, ReceiveInv, SyncLockInv, UpdateReadInv, UpdateEndInv, ExitChecksInv,
       RequestInv, CleanInv, UpdateSaveInv, DisconnectDoneInv, ExitSavesInv, RemoveInv,
       ForgetInv DEF Step
  <2>3. ASSUME NEW t \in Threads, StatusFails(t) \/ SyncSave(t) \/ Fail(t)
        PROVE  DesktopInv'
    BY <2>3, ReceiveInv, SyncSaveInv
  <2>4. ASSUME NEW t \in Desktops,
               \/ Request(t) \/ AutoRetry(t) \/ BeginExit(t)
               \/ BeginDisconnect(t) \/ BeginEdit(t) \/ BeginRemove(t)
        PROVE  DesktopInv'
    BY <2>4, ReceiveInv DEF Threads, Request, AutoRetry, BeginExit, BeginDisconnect,
       BeginEdit, BeginRemove, Plain
  <2>5. ASSUME NEW t \in Clis, CliSync(t) PROVE DesktopInv'
    BY <2>5, ReceiveInv DEF Threads, CliSync, Plain
  <2>6. ASSUME NEW u \in Peers, PeerDisconnects(u) \/ PeerExits(u) \/ PeerCleaned(u)
        PROVE  DesktopInv'
    BY <2>6, PeerInv
  <2> QED
    BY <2>1, <2>2, <2>3, <2>4, <2>5, <2>6 DEF Next
<1> QED
  BY InitInv, <1>1, PTL DEF Spec

\* Type correctness of the Folder's files, locks and processes.
THEOREM DesktopTyped == Spec => []TypeOK
BY DesktopInvariance, PTL DEF DesktopInv

\* What the configuration says of the relay and of the local files is true,
\* although its writers share no lock.
THEOREM ConfigurationTrue == Spec => []ConfigurationIsTrue
BY DesktopInvariance, PTL DEF DesktopInv

\* A Folder leaves the registry only after the relay has revoked it.
THEOREM RemovedRevoked == Spec => []RemovedWasRevoked
BY DesktopInvariance, PTL DEF DesktopInv

\* No save under way brings a stopped Folder back to Connected, points it at
\* another relay or turns automatic receiving on again.
THEOREM StopFinal == Spec => StopIsFinal
<1> DEFINE A == /\ (conf # NoConf /\ conf.state # "Connected" /\ conf' # NoConf) =>
                     conf'.state # "Connected" /\ conf'.url = conf.url /\ (auto' => auto)
                /\ (conf = NoConf /\ conf' # NoConf) => conf'.state = "Exited"
<1>1. DesktopInv /\ [Next]_vars => [A]_vars
  <2> SUFFICES ASSUME DesktopInv, Next PROVE A
    OBVIOUS
  <2>0. auto \in BOOLEAN
    BY DEF DesktopInv, TypeOK
  <2>1. CASE UNCHANGED <<conf, auto>>
    BY <2>1
  <2>2. CASE conf' = conf /\ auto' = FALSE
    BY <2>2
  <2>3. ASSUME NEW t \in Threads, ExitSave(t) \/ DisconnectSave(t) \/ EditSave(t)
        PROVE  A
    <3>1. /\ UNCHANGED auto /\ conf # NoConf
          /\ \/ conf' = conf
             \/ /\ conf' = th[t].saved
                /\ \/ conf.state = "Connected"
                   \/ th[t].saved.state # "Connected" /\ th[t].saved.url = conf.url
      BY <2>3 DEF ExitSave, DisconnectSave, EditSave, At, entry, DesktopInv,
         UpdateIsCurrent, CarriesConf, InUpdate, Exiting, Cleaned
    <3> QED
      BY <3>1
  <2>4. ASSUME NEW t \in Threads, DisconnectDone(t) PROVE A
    <3>1. conf = th[t].saved /\ conf \in Confs /\ conf # NoConf /\ auto' = FALSE
      BY <2>4 DEF DisconnectDone, At, DesktopInv, CarriesConf, UpdateIsCurrent
    <3>2. conf'.state = "Disconnected" /\ conf'.url = conf.url
      BY <2>4, <3>1 DEF DisconnectDone, Confs
    <3> QED
      BY <3>1, <3>2
  <2>5. ASSUME NEW t \in Threads, ExitCleaned(t) PROVE A
    <3>1. conf = th[t].saved /\ conf \in Confs /\ conf # NoConf /\ UNCHANGED auto
      BY <2>5 DEF ExitCleaned, At, entry, DesktopInv, CarriesConf, ExitIsCurrent, InExit
    <3>2. conf'.state = "ExitLocalCleaned" /\ conf'.url = conf.url
      BY <2>5, <3>1 DEF ExitCleaned, Confs
    <3> QED
      BY <3>1, <3>2
  <2>6. ASSUME NEW t \in Threads, ExitDone(t) PROVE A
    <3>1. /\ th[t].saved \in Confs /\ UNCHANGED auto
          /\ conf = NoConf \/ conf.url = th[t].saved.url
      BY <2>6 DEF ExitDone, At, entry, DesktopInv, CarriesConf, ExitIsCurrent, InExit
    <3>2. conf'.state = "Exited" /\ conf'.url = th[t].saved.url
      BY <2>6, <3>1 DEF ExitDone, Confs
    <3> QED
      BY <3>1, <3>2
  <2>7. ASSUME NEW t \in Threads, EditAuto(t) PROVE A
    BY <2>7 DEF EditAuto, At, DesktopInv, UpdateIsCurrent, InUpdate
  <2>8. ASSUME NEW t \in Threads, Remove(t) \/ Forget(t) PROVE A
    BY <2>1, <2>2, <2>8 DEF Remove, Forget, entry
  <2>9. ASSUME NEW t \in Threads,
               \/ CheckEntry(t) \/ CheckConf(t) \/ CheckStatus(t)
               \/ ReceiveLock(t) \/ ReceiveEntry(t) \/ ReceiveConf(t)
               \/ SyncLock(t) \/ SyncEnd(t)
               \/ StatusFails(t) \/ SyncSave(t) \/ Fail(t)
        PROVE  UNCHANGED <<conf, auto>>
    BY <2>9 DEF entry, CheckEntry, LoadEntry, CheckConf, CheckStatus, ReceiveLock,
       ReceiveEntry, ReceiveConf, SyncLock, SyncEnd, StatusFails, SyncSave, Fail
  <2>10. ASSUME NEW t \in Threads,
                \/ ExitRead(t) \/ ExitPost(t) \/ ExitLock(t) \/ ExitEntry(t) \/ ExitConf(t)
                \/ CleanMark(t) \/ CleanRemove(t) \/ ExitAck(t)
                \/ DisconnectRead(t) \/ DisconnectAlready(t) \/ DisconnectPost(t)
                \/ DisconnectConfirm(t) \/ (\E u \in Urls : EditRead(t, u))
         PROVE  UNCHANGED <<conf, auto>>
    <3>1. CASE \/ ExitRead(t) \/ ExitLock(t) \/ ExitEntry(t) \/ ExitConf(t)
               \/ CleanMark(t) \/ CleanRemove(t)
      BY <3>1 DEF entry, ExitRead, ExitLock, ExitEntry, LoadEntry, ExitConf, CleanMark,
         CleanRemove
    <3>2. CASE ExitPost(t) \/ ExitAck(t) \/ DisconnectPost(t)
      <4>1. UNCHANGED entry /\ UNCHANGED conf
        BY <3>2, Zenon DEF ExitPost, ExitAck, DisconnectPost
      <4> QED
        BY <4>1 DEF entry
    <3>3. CASE \/ DisconnectRead(t) \/ DisconnectAlready(t)
               \/ DisconnectConfirm(t) \/ (\E u \in Urls : EditRead(t, u))
      BY <3>3 DEF entry, DisconnectRead, DisconnectAlready, DisconnectConfirm, EditRead
    <3> QED
      BY <2>10, <3>1, <3>2, <3>3
  <2>11. ASSUME NEW t \in Threads, ExitAuto(t) \/ DisconnectAuto(t)
         PROVE  conf' = conf /\ auto' = FALSE
    BY <2>11 DEF ExitAuto, DisconnectAuto, SaveRegistry
  <2>12. CASE \/ \E t \in Desktops :
                  \/ Request(t) \/ AutoRetry(t) \/ BeginExit(t)
                  \/ BeginDisconnect(t) \/ BeginEdit(t) \/ BeginRemove(t)
              \/ \E t \in Clis : CliSync(t)
              \/ \E u \in Peers : PeerDisconnects(u) \/ PeerExits(u) \/ PeerCleaned(u)
    <3>1. CASE \E u \in Peers : PeerDisconnects(u) \/ PeerExits(u) \/ PeerCleaned(u)
      <4>1. UNCHANGED entry /\ UNCHANGED conf
        BY <3>1, Zenon DEF PeerDisconnects, PeerExits, PeerCleaned
      <4> QED
        BY <2>1, <4>1 DEF entry
    <3>2. CASE \E t \in Threads, p \in Plain : Begin(t, p)
      <4>1. UNCHANGED entry /\ UNCHANGED conf
        BY <3>2 DEF Begin
      <4> QED
        BY <2>1, <4>1 DEF entry
    <3> QED
      BY <2>12, <3>1, <3>2 DEF Request, AutoRetry, BeginExit, BeginDisconnect, BeginEdit,
         BeginRemove, CliSync, Threads, Plain
  <2> HIDE DEF A
  <2>13. ASSUME NEW t \in Threads, Step(t) PROVE A
    BY <2>1, <2>2, <2>3, <2>4, <2>5, <2>6, <2>7, <2>8, <2>9, <2>10, <2>11, <2>13 DEF Step
  <2> QED
    BY <2>1, <2>9, <2>12, <2>13 DEF Next
<1> QED
  BY <1>1, DesktopInvariance, PTL DEF Spec, StopIsFinal
=============================================================================
