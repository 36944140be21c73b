------------------------------ MODULE Packages ------------------------------
(***************************************************************************)
(* The npm packages that handlers may require: the rows of                 *)
(* package_definition, what is installed on each instance, and the list of *)
(* names that each keeps in memory.  PackageController installs, updates   *)
(* and removes packages on the instance that gets the request; the list is *)
(* reloaded under a lock in Redis and sent to the other instances.         *)
(*                                                                         *)
(* npm is one step.  The protocol is ReloadProtocol's, with an important   *)
(* difference: who does not get the lock goes on with what it has.         *)
(***************************************************************************)
EXTENDS Naturals, Sequences, FiniteSets

CONSTANTS Machine,      \* instances, each with a node_modules
          PkgName,
          BaseDeps,     \* what the server itself depends on
          PkgCall,      \* requests to PackageController
          NoCall,
          Edits,        \* what the body of a PATCH may hold
          MaxRows,      \* bound on the rows ever inserted
          MaxAsks,      \* bound on the requests
          MaxTroubles   \* bound on failed commands, statements and reloads

ASSUME PackagesAssumption ==
    /\ Machine # {} /\ PkgName # {} /\ BaseDeps \subseteq PkgName /\ NoCall \notin PkgCall
    /\ Edits \subseteq {"version", "name", "type", "enabled", "system"}
    /\ {MaxRows, MaxAsks, MaxTroubles} \subseteq Nat

VARIABLES pkgRows,    \* package_definition
          disk,       \* per instance: dependencies in package.json, what is in
                      \* node_modules, and what the process has required once
          names,      \* per instance: packagesCache, and whether it is loaded
          mail,       \* per instance: lists on their way to it
          pkgLock,    \* the call that holds PACKAGE_RELOAD_LOCK_KEY
          pcall,      \* what each request is doing
          skipped,    \* history: a reload was refused or has failed after a change
          evaded,     \* history: the check of isSystem has been passed by for a
                      \* package that the server depends on
          lastFrom,   \* history: the instance that was the last to publish
          nextRow, asked, troubles

pkgVars == <<pkgRows, disk, names, mail, pkgLock, pcall, skipped, evaded, lastFrom,
            nextRow, asked, troubles>>

Types == {"App", "Backend"}
PkgRow == [id : 1 .. MaxRows, name : PkgName, type : Types, enabled : BOOLEAN, system : BOOLEAN]
NoRow == [id |-> 0, name |-> CHOOSE n \in PkgName : TRUE, type |-> "App", enabled |-> FALSE,
          system |-> FALSE]

PkgIdle == [at |-> "idle", on |-> CHOOSE m \in Machine : TRUE, kind |-> "install", row |-> NoRow,
            whole |-> TRUE, list |-> {}]

CallAt(c, place) == pcall[c].at = place
Step(c, place) == pcall' = [pcall EXCEPT ![c] = IF place = "idle" THEN PkgIdle
                                                ELSE [@ EXCEPT !.at = place]]
\* A request begins.
Asks(c, r) == asked < MaxAsks /\ asked' = asked + 1 /\ pcall' = [pcall EXCEPT ![c] = r]
Trouble == troubles < MaxTroubles /\ troubles' = troubles + 1
Fine == troubles' = troubles
NoReload == UNCHANGED <<names, mail, pkgLock, skipped, lastFrom>>

\* What can be required: the resolution of a name is kept by the process.
Loadable(m) == disk[m].modules \cup disk[m].required

-----------------------------------------------------------------------------
\* POST

\* The request is refused when there is a row of that name and type.
BeginInstall(c, m, n, type) ==
    /\ CallAt(c, "idle") /\ nextRow <= MaxRows
    /\ ~ \E r \in pkgRows : r.name = n /\ r.type = type
    /\ Asks(c, [PkgIdle EXCEPT !.at = "check", !.on = m,
                     !.row = [NoRow EXCEPT !.name = n, !.type = type, !.enabled = TRUE]])
    /\ Fine /\ NoReload /\ UNCHANGED <<pkgRows, disk, nextRow, evaded>>

\* isPackageInstalled() looks into package.json.  A package found there is not
\* installed, and is taken for one of the system; none is, when it cannot be read.
CheckInstalled(c) ==
    /\ CallAt(c, "check")
    /\ \E read \in BOOLEAN :
          LET there == pcall[c].row.name \in disk[pcall[c].on].listed
              listed == read /\ there
          IN /\ IF read THEN Fine ELSE Trouble
             /\ evaded' = (evaded \/ (there /\ ~read))
             /\ pcall' = [pcall EXCEPT ![c] =
                    [pcall[c] EXCEPT !.row = [pcall[c].row EXCEPT !.system = listed],
                              !.at = IF listed \/ pcall[c].row.type = "App"
                                     THEN "require" ELSE "npm"]]
    /\ NoReload /\ UNCHANGED <<pkgRows, disk, nextRow, asked>>

With(m, n) ==
    [disk EXCEPT ![m] = [listed |-> disk[m].listed \cup {n}, modules |-> disk[m].modules \cup {n},
                         required |-> disk[m].required]]
Without(m, n) ==
    [disk EXCEPT ![m] = [listed |-> disk[m].listed \ {n}, modules |-> disk[m].modules \ {n},
                         required |-> disk[m].required]]

\* installBackendPackage(): three attempts, each ended by a timeout.  A failed
\* one, or one with something on stderr, may have installed the package.
NpmInstall(c) ==
    /\ CallAt(c, "npm") /\ pcall[c].kind # "uninstall"
    /\ \/ /\ disk' = With(pcall[c].on, pcall[c].row.name)
          /\ Fine /\ Step(c, IF pcall[c].kind = "install" THEN "require" ELSE "row")
       \/ /\ disk' \in {disk, With(pcall[c].on, pcall[c].row.name)}
          /\ Trouble /\ Step(c, "idle")
    /\ NoReload /\ UNCHANGED <<pkgRows, nextRow, asked>>

\* An App package is not installed either, and has to be there as well.
RequirePackage(c) ==
    /\ CallAt(c, "require")
    /\ LET m == pcall[c].on
           n == pcall[c].row.name
       IN IF n \in Loadable(m)
          THEN /\ disk' = [disk EXCEPT ![m].required = @ \cup {n}]
               /\ Step(c, "row")
          ELSE Step(c, "idle") /\ UNCHANGED disk
    /\ Fine /\ NoReload /\ UNCHANGED <<pkgRows, nextRow, asked>>

\* Mutation of Saved: nothing is taken for a package of the system.
SavedAsUsers(r) == [r EXCEPT !.id = nextRow, !.system = FALSE]

Saved(r) == [r EXCEPT !.id = nextRow]

-----------------------------------------------------------------------------
\* PATCH and DELETE of a row.

\* A new version of a Backend package is installed before the row is written.
BeginUpdate(c, m, r, version) ==
    /\ CallAt(c, "idle") /\ (version => "version" \in Edits)
    /\ Asks(c, [PkgIdle EXCEPT !.at = IF r.type = "Backend" /\ version THEN "npm" ELSE "row",
                               !.on = m, !.kind = "update", !.row = r])
    /\ Fine /\ NoReload /\ UNCHANGED <<pkgRows, disk, nextRow, evaded>>

\* A row is read with the fields that the request names, and isSystem need not be
\* among them.
BeginUninstall(c, m, r, whole) ==
    /\ CallAt(c, "idle") /\ (whole => ~r.system)
    /\ Asks(c, [PkgIdle EXCEPT !.at = IF r.type = "Backend" THEN "npm" ELSE "row", !.on = m,
                               !.kind = "uninstall", !.row = r, !.whole = whole])
    /\ evaded' = (evaded \/ (r.system /\ r.name \in BaseDeps))
    /\ Fine /\ NoReload /\ UNCHANGED <<pkgRows, disk, nextRow>>

\* A failure that is taken for "not there" is not one.
NpmUninstall(c) ==
    /\ CallAt(c, "npm") /\ pcall[c].kind = "uninstall"
    /\ \/ disk' = Without(pcall[c].on, pcall[c].row.name) /\ Fine /\ Step(c, "row")
       \/ UNCHANGED disk /\ Trouble /\ \E place \in {"row", "idle"} : Step(c, place)
    /\ NoReload /\ UNCHANGED <<pkgRows, nextRow, asked>>

-----------------------------------------------------------------------------
\* The row is written, and the list is to be reloaded.  A statement may fail.

\* What the request was about is not looked at any more.
Written(c) ==
    /\ CallAt(c, "row") /\ Fine
    /\ pcall' = [pcall EXCEPT ![c] = [PkgIdle EXCEPT !.at = "reload", !.on = pcall[c].on]]
StillThere(c) == {r \in pkgRows : r.id = pcall[c].row.id}

SavePackage(c) ==
    /\ Written(c) /\ pcall[c].kind = "install" /\ nextRow <= MaxRows
    /\ pkgRows' = pkgRows \cup {Saved(pcall[c].row)}
    /\ nextRow' = nextRow + 1
    /\ NoReload /\ UNCHANGED <<disk, asked>>

\* The whole body is written, the mark isSystem with it.
Edited(r) == {e \in PkgRow :
    e.id = r.id /\ \A f \in {"name", "type", "enabled", "system"} \ Edits : e[f] = r[f]}

ChangeRow(c) ==
    /\ Written(c) /\ pcall[c].kind = "update"
    /\ \E r \in StillThere(c) : \E e \in Edited(r) :
          /\ pkgRows' = (pkgRows \ {r}) \cup {e}
          /\ evaded' = (evaded \/ (e.name \in BaseDeps /\ ~e.system))
    /\ NoReload /\ UNCHANGED <<disk, nextRow, asked>>

\* The repository refuses to delete a row of the system, read as above.
DeleteRow(c) ==
    /\ Written(c) /\ pcall[c].kind = "uninstall"
    /\ \E r \in StillThere(c) : (pcall[c].whole => ~r.system) /\ pkgRows' = pkgRows \ {r}
    /\ NoReload /\ UNCHANGED <<disk, nextRow, asked>>

\* The repository looks for the row again, and it may be gone.
WriteFails(c) ==
    /\ CallAt(c, "row")
    /\ IF pcall[c].kind # "install" /\ StillThere(c) = {} THEN Fine ELSE Trouble
    /\ Step(c, "idle")
    /\ NoReload /\ UNCHANGED <<pkgRows, disk, nextRow, asked>>

-----------------------------------------------------------------------------
\* PackageCacheService.  A reload belongs to a request, or to the start of the
\* instance or the first handler that asks for the list ("get").

BeginGet(c, m) ==
    /\ CallAt(c, "idle") /\ ~names[m].loaded
    /\ Asks(c, [PkgIdle EXCEPT !.at = "reload", !.on = m, !.kind = "get"])
    /\ Fine /\ NoReload /\ UNCHANGED <<pkgRows, disk, nextRow>>

\* Mutation of CanReload: the lock is not asked for.
AlwaysReload == TRUE

CanReload == pkgLock = NoCall

BeginReload(c) ==
    /\ CallAt(c, "reload")
    /\ IF CanReload
       THEN pkgLock' = c /\ Step(c, "load") /\ UNCHANGED skipped
       ELSE /\ Step(c, "idle") /\ UNCHANGED pkgLock
            /\ skipped' = (skipped \/ pcall[c].kind # "get")
    /\ Fine /\ UNCHANGED <<pkgRows, disk, names, mail, lastFrom, nextRow, asked>>

Listed == {r.name : r \in {s \in pkgRows : s.enabled /\ s.type = "Backend"}}

LoadPackages(c) ==
    /\ CallAt(c, "load")
    /\ \/ pcall' = [pcall EXCEPT ![c] = [@ EXCEPT !.list = Listed, !.at = "publish"]] /\ Fine
          /\ UNCHANGED <<pkgLock, skipped>>
       \/ Trouble /\ Step(c, "idle") /\ pkgLock' = NoCall /\ skipped' = TRUE
    /\ UNCHANGED <<pkgRows, disk, names, mail, lastFrom, nextRow, asked>>

\* The others first; a failure to publish is logged.
PublishList(c) ==
    /\ CallAt(c, "publish")
    /\ \/ /\ mail' = [m \in Machine |-> IF m = pcall[c].on THEN mail[m]
                                         ELSE Append(mail[m], pcall[c].list)]
          /\ Fine /\ UNCHANGED skipped
       \/ Trouble /\ skipped' = TRUE /\ UNCHANGED mail
    /\ lastFrom' = {pcall[c].on}
    /\ Step(c, "save")
    /\ UNCHANGED <<pkgRows, disk, names, pkgLock, nextRow, asked>>

SaveList(c) ==
    /\ CallAt(c, "save")
    /\ names' = [names EXCEPT ![pcall[c].on] = [list |-> pcall[c].list, loaded |-> TRUE]]
    /\ pkgLock' = NoCall
    /\ Step(c, "idle")
    /\ Fine /\ UNCHANGED <<pkgRows, disk, mail, skipped, lastFrom, nextRow, asked>>

ReceiveList(m) ==
    /\ mail[m] # <<>>
    /\ names' = [names EXCEPT ![m] = [list |-> Head(mail[m]), loaded |-> TRUE]]
    /\ mail' = [mail EXCEPT ![m] = Tail(@)]
    /\ Fine /\ UNCHANGED <<pkgRows, disk, pkgLock, pcall, skipped, lastFrom, nextRow, asked>>

-----------------------------------------------------------------------------
PackagesInit ==
    /\ pkgRows = {}
    /\ disk = [m \in Machine |-> [listed |-> BaseDeps, modules |-> BaseDeps, required |-> {}]]
    /\ names = [m \in Machine |-> [list |-> {}, loaded |-> FALSE]]
    /\ mail = [m \in Machine |-> <<>>]
    /\ pkgLock = NoCall
    /\ pcall = [c \in PkgCall |-> PkgIdle]
    /\ skipped = FALSE /\ evaded = FALSE /\ lastFrom = {} /\ nextRow = 1 /\ asked = 0 /\ troubles = 0

PackagesNext ==
    \/ \E c \in PkgCall :
          \/ \E m \in Machine :
                \/ \E n \in PkgName, type \in Types : BeginInstall(c, m, n, type)
                \/ \E r \in pkgRows, flag \in BOOLEAN : \/ BeginUninstall(c, m, r, flag)
                                                     \/ BeginUpdate(c, m, r, flag)
                \/ BeginGet(c, m) /\ UNCHANGED evaded
          \/ CheckInstalled(c) \/ ChangeRow(c)
          \/ /\ NpmInstall(c) \/ RequirePackage(c) \/ NpmUninstall(c)
                \/ SavePackage(c) \/ DeleteRow(c) \/ WriteFails(c)
                \/ BeginReload(c) \/ LoadPackages(c) \/ PublishList(c) \/ SaveList(c)
             /\ UNCHANGED evaded
    \/ \E m \in Machine : ReceiveList(m) /\ UNCHANGED evaded

PackagesSpec == PackagesInit /\ [][PackagesNext]_pkgVars

PackagesTypeOK ==
    /\ pkgRows \subseteq PkgRow /\ nextRow \in 1 .. MaxRows + 1
    /\ \A r, s \in pkgRows : r.id = s.id => r = s
    /\ \A m \in Machine : /\ disk[m].listed \subseteq PkgName /\ disk[m].modules \subseteq PkgName
                          /\ disk[m].required \subseteq PkgName
                          /\ names[m].list \subseteq PkgName /\ mail[m] \in Seq(SUBSET PkgName)
    /\ \A c \in PkgCall : CallAt(c, "load") \/ CallAt(c, "publish") \/ CallAt(c, "save") => pkgLock = c
    /\ pkgLock \in PkgCall \cup {NoCall} /\ {skipped, evaded} \subseteq BOOLEAN
    /\ lastFrom \subseteq Machine /\ {asked, troubles} \subseteq Nat

(* What the server itself depends on stays installed, whatever is registered, *)
(* changed and removed, in whatever order, until the check of isSystem has     *)
(* been passed by for such a package: because package.json could not be read   *)
(* when it was registered, because a PATCH has left its name on a row that is  *)
(* not marked, or because a DELETE has not read the mark (installPackage(),    *)
(* updatePackage(), uninstallPackage()).                                       *)
ServerDependenciesStay ==
    ~evaded => \A m \in Machine : BaseDeps \subseteq disk[m].listed \cap disk[m].modules

(* When nothing is going on, the lists that instances have loaded are the   *)
(* enabled packages of the database, unless a reload has been refused or    *)
(* something of it has failed; but the one that published last may read an  *)
(* older list from another afterwards (PackageCacheService).                *)
SettledListsAgree ==
    (~skipped /\ (\A c \in PkgCall : CallAt(c, "idle")) /\ \A m \in Machine : mail[m] = <<>>) =>
        \A m \in Machine \ lastFrom : names[m].loaded => names[m].list = Listed

(* "Cannot uninstall system packages" (package.controller.ts:198)           *)
SystemPackagesStay ==
    \A m \in Machine : BaseDeps \subseteq disk[m].listed \cap disk[m].modules

(* "Whether this is a core system package" (data/snapshot.json:334)         *)
SystemPackagesAreCore ==
    \A r \in pkgRows : r.system => r.name \in BaseDeps
=============================================================================
