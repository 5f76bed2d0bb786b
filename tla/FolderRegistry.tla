--------------------------- MODULE FolderRegistry ---------------------------
(***************************************************************************)
(* The registry of Folders on a Linux machine (bridges.toml), the          *)
(* configuration file of each Folder, and the resources they claim: the    *)
(* library tree, the state file, the state tree of directory mode, a local *)
(* inbox, the device and the relay queue.  Several desktop processes add,  *)
(* import, edit and remove Folders on the same files; what one of them     *)
(* checked may be out of date when it registers.                           *)
(*                                                                         *)
(* A path is a sequence of names.  What a Folder goes through once it is   *)
(* registered is DesktopFolder's business: here it may be removed.         *)
(***************************************************************************)
EXTENDS Naturals, Sequences, FiniteSets, SequencesExt

CONSTANTS Ids,         \* Folders that may be created (fresh UUIDs)
          Boot,        \* the Folder of the bootstrap configuration
          BootConfig,  \* what that configuration says
          Procs,       \* desktop processes
          Explicit,    \* those started with --config
          Places,      \* what a user may type as a library path
          Canon,       \* the canonical path of each of them (symlinks)
          Data,        \* bridge_data_dir
          Urls,        \* relay end points
          MaxBridges,
          MaxFails,
          None

ASSUME RegistryAssumption ==
  /\ Boot \notin Ids /\ Explicit \subseteq Procs
  /\ DOMAIN Canon = Places
  /\ MaxBridges \in Nat /\ MaxFails \in Nat
  /\ None \notin Urls

VARIABLES
  exists,    \* bridges.toml has been written
  bridges,   \* the registered Folders in order
  selected,  \* selected_bridge_id
  configs,   \* the configuration files: resources, or None
  pending,   \* bootstrap_pending of each process
  index,     \* the directory index at each relay end point: its owner or None
  th, fails

registry == <<exists, bridges, selected>>
vars == <<exists, bridges, selected, configs, pending, index, th, fails>>

AllIds == Ids \cup {Boot}

Idle == [pc |-> "idle", id |-> None, res |-> None]

-----------------------------------------------------------------------------
(* Resources *)

\* Config::defaults for a new Folder, then set_http_server.
StateFile(id) == Append(Append(Data, id), "state.json")

DirectoryState(id) == Append(Append(Data, id), "state.json.directory")

NewConfig(id, place, url, directory) ==
  [library |-> place, state |-> StateFile(id), device |-> id, inbox |-> None,
   endpoint |-> url, directory |-> IF directory THEN DirectoryState(id) ELSE None]

\* comparable_path: symlinks are followed before anything is compared.
ComparablePath(place) == IF place \in Places THEN Canon[place] ELSE place

FromConfig(c) == [c EXCEPT !.library = ComparablePath(c.library)]

StartsWith(path, root) == root # None /\ path # None /\ IsPrefix(root, path)

PathsOverlap(p, q) == StartsWith(p, q) \/ StartsWith(q, p)

SelfResourceProblem(r) ==
  \/ PathsOverlap(r.directory, r.library)
  \/ StartsWith(r.state, r.library)
  \/ PathsOverlap(r.library, r.inbox)
  \/ StartsWith(r.state, r.inbox)

\* What the code asks of (owner, other) and then of (other, owner).
Intrudes(owner, other) ==
  \/ PathsOverlap(owner.directory, other.library)
  \/ StartsWith(other.state, owner.directory)
  \/ PathsOverlap(owner.directory, other.directory)
  \/ PathsOverlap(owner.directory, other.inbox)
  \/ StartsWith(other.state, owner.library)
  \/ PathsOverlap(owner.inbox, other.library)
  \/ StartsWith(other.state, owner.inbox)

ResourceProblem(l, r) ==
  \/ Intrudes(l, r) \/ Intrudes(r, l)
  \/ PathsOverlap(l.library, r.library)
  \/ l.state = r.state
  \/ l.device = r.device
  \/ l.endpoint # None /\ l.endpoint = r.endpoint
  \/ PathsOverlap(l.inbox, r.inbox)

\* ensure_resources_unique: a configuration that cannot be read is a problem.
ResourcesUnique(candidate, except) ==
  /\ ~SelfResourceProblem(candidate)
  /\ \A id \in ToSet(bridges) \ {except} :
       configs[id] # None /\ ~ResourceProblem(candidate, FromConfig(configs[id]))

-----------------------------------------------------------------------------
(* The registry *)

\* BridgeRegistry::validate
Valid(bs, sel) ==
  /\ Len(bs) <= MaxBridges
  /\ IsInjective(bs)
  /\ sel # None => sel \in ToSet(bs)

CanAdd(id) == Valid(Append(bridges, id), id)

\* add: the new Folder is selected.
Add(id) ==
  /\ bridges' = Append(bridges, id)
  /\ selected' = id

\* remove: the neighbour of a selected Folder takes its place.
RemoveEntry(id) ==
  LET i == CHOOSE k \in DOMAIN bridges : bridges[k] = id
      rest == RemoveAt(bridges, i)
  IN /\ bridges' = rest
     /\ selected' = IF selected # id THEN selected
                    ELSE IF rest = <<>> THEN None
                    ELSE rest[IF i <= Len(rest) THEN i ELSE Len(rest)]

\* update: load, change, validate and save under the exclusive lock, so one step.
Saved == exists' = TRUE

Refused == UNCHANGED registry

-----------------------------------------------------------------------------
(* Processes *)

Init ==
  /\ exists = FALSE
  /\ bridges = <<>>
  /\ selected = None
  /\ configs = [id \in AllIds |-> IF id = Boot THEN BootConfig ELSE None]
  /\ pending = [p \in Procs |-> TRUE]
  /\ index = [u \in Urls |-> None]
  /\ th = [p \in Procs |-> Idle]
  /\ fails = 0

TypeOK ==
  /\ exists \in BOOLEAN
  /\ bridges \in Seq(AllIds)
  /\ selected \in AllIds \cup {None}
  /\ DOMAIN configs = AllIds
  /\ pending \in [Procs -> BOOLEAN]
  /\ index \in [Urls -> AllIds \cup {None}]
  /\ fails \in 0..MaxFails

At(p, pc) == th[p].pc = pc

Goto(p, pc, id, res) == th' = [th EXCEPT ![p] = [pc |-> pc, id |-> id, res |-> res]]

Done(p) == th' = [th EXCEPT ![p] = Idle]

\* A step fails, or the process is killed and started again.
Fail(p) ==
  /\ ~At(p, "idle")
  /\ fails < MaxFails
  /\ fails' = fails + 1
  /\ Done(p)
  /\ \E again \in {TRUE, pending[p] \/ At(p, "import")} :
       pending' = [pending EXCEPT ![p] = again]
  /\ UNCHANGED <<registry, configs, index>>

-----------------------------------------------------------------------------
(* maybe_import_bootstrap_config, on the first load of a process *)

ImportSkip(p) ==
  /\ At(p, "idle") /\ pending[p]
  /\ (p \notin Explicit /\ exists) \/ configs[Boot] = None
  /\ pending' = [pending EXCEPT ![p] = FALSE]
  /\ UNCHANGED <<registry, configs, index, th, fails>>

\* The configuration is read before the registry is locked.
ImportRead(p) ==
  /\ At(p, "idle") /\ pending[p]
  /\ p \in Explicit \/ ~exists
  /\ configs[Boot] # None
  /\ pending' = [pending EXCEPT ![p] = FALSE]
  /\ Goto(p, "import", Boot, FromConfig(configs[Boot]))
  /\ UNCHANGED <<registry, configs, index, fails>>

ImportAdd(p) ==
  /\ At(p, "import")
  /\ \/ /\ Boot \in ToSet(bridges)
        /\ selected' = Boot
        /\ Saved
        /\ UNCHANGED <<bridges, pending>>
     \/ /\ Boot \notin ToSet(bridges)
        /\ ResourcesUnique(th[p].res, None) /\ CanAdd(Boot)
        /\ Add(Boot)
        /\ Saved
        /\ UNCHANGED pending
     \/ /\ Boot \notin ToSet(bridges)
        /\ ~(ResourcesUnique(th[p].res, None) /\ CanAdd(Boot))
        /\ Refused
        /\ pending' = [pending EXCEPT ![p] = TRUE]
  /\ Done(p)
  /\ UNCHANGED <<configs, index, fails>>

-----------------------------------------------------------------------------
(* create_bridge *)

Fresh(id) == configs[id] = None /\ id \notin ToSet(bridges) /\ \A p \in Procs : th[p].id # id

\* Mutant: the entry is added first and the file written when that worked.
CreateCheckEntryFirst(p, id, place, url) ==
  LET c == NewConfig(id, place, url, FALSE)
  IN /\ At(p, "idle") /\ Fresh(id)
     /\ ResourcesUnique(FromConfig(c), None) /\ CanAdd(id)
     /\ Goto(p, "register", id, c)
     /\ UNCHANGED <<registry, configs, pending, index, fails>>

\* "Fail before touching the selected library": a check on a first load.
CreateCheck(p, id, place, url) ==
  LET c == NewConfig(id, place, url, FALSE)
  IN /\ At(p, "idle") /\ Fresh(id)
     /\ ResourcesUnique(FromConfig(c), None) /\ CanAdd(id)
     /\ Goto(p, "persist", id, c)
     /\ UNCHANGED <<registry, configs, pending, index, fails>>

\* persist_config with force = false
CreatePersist(p) ==
  /\ At(p, "persist")
  /\ configs' = [configs EXCEPT ![th[p].id] = th[p].res]
  /\ Goto(p, "register", th[p].id, th[p].res)
  /\ UNCHANGED <<registry, pending, index, fails>>

\* Mutant: the check before the configuration was written is trusted.
CreateRegisterTrusting(p) ==
  /\ At(p, "register")
  /\ CanAdd(th[p].id) /\ Add(th[p].id) /\ Saved
  /\ Done(p)
  /\ UNCHANGED <<configs, pending, index, fails>>

\* The same check again, in the update.  A refusal leaves the file behind.
CreateRegister(p) ==
  LET ok == ResourcesUnique(FromConfig(th[p].res), None) /\ CanAdd(th[p].id)
  IN /\ At(p, "register")
     /\ \/ ok /\ Add(th[p].id) /\ Saved
        \/ ~ok /\ Refused
     /\ Done(p)
     /\ UNCHANGED <<configs, pending, index, fails>>

-----------------------------------------------------------------------------
(* directory_panel::prepare, the review, and initialize *)

\* unused_folder: nobody has published an index there.
PrepareDirectory(p, id, place, url) ==
  LET c == NewConfig(id, place, url, TRUE)
  IN /\ At(p, "idle") /\ Fresh(id)
     /\ ResourcesUnique(FromConfig(c), None) /\ CanAdd(id)
     /\ index[url] = None
     /\ Goto(p, "review", id, c)
     /\ UNCHANGED <<registry, configs, pending, index, fails>>

CancelReview(p) ==
  /\ At(p, "review")
  /\ Done(p)
  /\ UNCHANGED <<registry, configs, pending, index, fails>>

\* Both checks again; the file and the entry are written in one update.
InitializeDirectory(p) ==
  LET c == th[p].res
      ok == /\ index[c.endpoint] = None
            /\ ResourcesUnique(FromConfig(c), None) /\ CanAdd(th[p].id)
  IN /\ At(p, "review")
     /\ \/ /\ ok
           /\ configs' = [configs EXCEPT ![th[p].id] = c]
           /\ Add(th[p].id) /\ Saved
           /\ Goto(p, "publish", th[p].id, c)
        \/ /\ ~ok
           /\ Refused
           /\ Done(p)
           /\ UNCHANGED configs
     /\ UNCHANGED <<pending, index, fails>>

\* Without the registry lock: the relay takes the first index and refuses a
\* second one that does not follow it (previous_id = None).
PublishIndex(p) ==
  LET u == th[p].res.endpoint
  IN /\ At(p, "publish")
     /\ index' = [index EXCEPT ![u] = IF @ = None THEN th[p].id ELSE @]
     /\ Done(p)
     /\ UNCHANGED <<registry, configs, pending, fails>>

-----------------------------------------------------------------------------
(* update_bridge, confirm_remove_bridge, forget_receipt *)

\* set_http_server; a local inbox is given up.
WithServer(c, url) == [c EXCEPT !.endpoint = url, !.inbox = None]

\* The server of a directory Folder is fixed.
Edit(p, id, url) ==
  /\ At(p, "idle")
  /\ id \in ToSet(bridges) /\ configs[id] # None
  /\ configs[id].directory # None => configs[id].endpoint = url
  /\ ResourcesUnique(FromConfig(WithServer(configs[id], url)), id)
  /\ configs' = [configs EXCEPT ![id] = WithServer(@, url)]
  /\ selected' = id
  /\ UNCHANGED <<exists, bridges, pending, index, th, fails>>

\* The configuration is saved, the registry is not.
EditTorn(p, id, url) ==
  /\ At(p, "idle")
  /\ fails < MaxFails
  /\ fails' = fails + 1
  /\ id \in ToSet(bridges) /\ configs[id] # None
  /\ configs[id].directory # None => configs[id].endpoint = url
  /\ ResourcesUnique(FromConfig(WithServer(configs[id], url)), id)
  /\ configs' = [configs EXCEPT ![id] = WithServer(@, url)]
  /\ UNCHANGED <<registry, pending, index, th>>

\* can_remove holds: a legacy Folder, or one that has been stopped.
RemoveFolder(p, id) ==
  /\ At(p, "idle")
  /\ id \in ToSet(bridges) /\ configs[id] # None
  /\ RemoveEntry(id)
  /\ Goto(p, "forget", id, None)
  /\ UNCHANGED <<exists, configs, pending, index, fails>>

\* Only the receipt of a completed exit is deleted, and only from the
\* directory this application owns.
Forget(p) ==
  /\ At(p, "forget")
  /\ \/ th[p].id # Boot /\ configs' = [configs EXCEPT ![th[p].id] = None]
     \/ UNCHANGED configs
  /\ Done(p)
  /\ UNCHANGED <<registry, pending, index, fails>>

-----------------------------------------------------------------------------
Next ==
  \/ \E p \in Procs :
       \/ ImportSkip(p) \/ ImportRead(p) \/ ImportAdd(p)
       \/ CreatePersist(p) \/ CreateRegister(p)
       \/ CancelReview(p) \/ InitializeDirectory(p) \/ PublishIndex(p)
       \/ Forget(p) \/ Fail(p)
       \/ \E id \in Ids, place \in Places, url \in Urls :
            CreateCheck(p, id, place, url) \/ PrepareDirectory(p, id, place, url)
       \/ \E id \in AllIds : RemoveFolder(p, id)
       \/ \E id \in AllIds, url \in Urls : Edit(p, id, url) \/ EditTorn(p, id, url)

Spec == Init /\ [][Next]_vars

-----------------------------------------------------------------------------
(* Properties *)

\* The files a Folder may write: everything below its trees, and its state file.
Below(root, paths) == {f \in paths : StartsWith(f, root)}

Claims(r, paths) ==
  Below(r.library, paths) \cup Below(r.inbox, paths) \cup Below(r.directory, paths)
    \cup {r.state}

Registered == ToSet(bridges)

\* All paths that matter: the roots of the Folders and what may lie below them.
Paths == UNION {LET r == FromConfig(configs[id])
                IN {r.library, r.inbox, r.directory, r.state} : id \in Registered} \ {None}

\* No file belongs to two Folders and no two Folders have one device or one
\* relay queue, whatever two processes checked before they registered, and
\* however a path is spelled.  (An imported configuration is compared with the
\* queues it named when it was read; its files cannot change.)
OwnersAreDisjoint ==
  \A i, j \in Registered : i # j =>
    LET l == FromConfig(configs[i])
        r == FromConfig(configs[j])
    IN /\ Claims(l, Paths) \cap Claims(r, Paths) = {}
       /\ l.device # r.device
       /\ (Boot \notin {i, j}) => l.endpoint # r.endpoint

\* The registry never names a Folder without a configuration, which would stop
\* every other Folder too (ensure_resources_unique reads them all), and the
\* selected Folder is one of them: a crash between the two files does no harm.
EntriesAreUsable ==
  /\ \A id \in Registered : configs[id] # None
  /\ bridges # <<>> => selected \in Registered
=============================================================================
