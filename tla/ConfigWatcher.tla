---------------------------- MODULE ConfigWatcher ----------------------------
(***************************************************************************)
(* The configuration of command_runner_server: loaded at the start, and    *)
(* again when the watcher finds that a file it was made from has changed.  *)
(*                                                                         *)
(* A load reads the configuration, then the templates in the directory the *)
(* configuration names.  The watcher looks at modification times, file by  *)
(* file, and records them before it loads.  Files are written at any time; *)
(* each write gets a later modification time, which is also the version of *)
(* what was written.  Style sheets and scripts, whose changes only cause a *)
(* load, are left out, and so are files that are deleted.                  *)
(***************************************************************************)
EXTENDS Naturals, RWMutex

CONSTANTS
  Dirs,        \* the directories a configuration may name as webdir
  Pages,       \* the templates in a directory
  Main,        \* the goroutine that loads: main, and then the watcher
  Handlers,    \* the goroutines of homeHandler and apiStatsHandler
  MaxWrites    \* bound: the number of writes, the first versions included

ASSUME WatcherAssumption ==
  Main \notin Handlers /\ MaxWrites \in Nat \ {0} /\ Dirs # {} /\ Pages # {}

ConfigFile == <<"config">>
Page(dir, p) == <<dir, p>>
Files == {ConfigFile} \cup {Page(dir, p) : dir \in Dirs, p \in Pages}

VARIABLES
  disk,       \* the files: version (0: there is no such file), good (it can be parsed)
  webdir,     \* the directory that the configuration on the disk names
  writes,     \* the latest version
  config,     \* config: the version, and the webdir
  templates,  \* templates: the versions, and the version of the configuration they go with
  watched,    \* watchedFiles: the modification times, 0 if there is none
  serving,    \* main has finished its start
  clean,      \* nothing had changed when it had
  pc,         \* where Main is
  todo,       \* the files it has yet to look at
  changed,    \* the result of checkForChanges
  draft,      \* newConfig and newTemplates
  rw,         \* configMutex
  home        \* the configuration a request has read; 0: none

loaded == <<config, templates>>
files == <<disk, webdir, writes>>
vars == <<files, loaded, watched, serving, clean, pc, todo, changed, draft, rw, home>>

Exists(f) == disk[f].version # 0
\* filepath.Glob and template.ParseGlob, of "<webdir>/*.html".
Glob(dir) == {f \in {Page(dir, p) : p \in Pages} : Exists(f)}

NoPages == [p \in Pages |-> 0]
NoDraft == [version |-> 0, dir |-> CHOOSE dir \in Dirs : TRUE, pages |-> NoPages]

Init ==
  /\ writes = 1
  /\ disk \in [Files -> [version: {0, 1}, good: {TRUE}]] /\ Exists(ConfigFile)
  /\ webdir \in Dirs
  /\ config = [version |-> 0, dir |-> webdir]
  /\ templates = [config |-> 0, pages |-> NoPages]
  /\ watched = [f \in Files |-> 0]
  /\ serving = FALSE /\ clean = TRUE
  /\ pc = "load" /\ todo = {} /\ changed = FALSE
  /\ draft = NoDraft
  /\ rw = Unlocked
  /\ home = [h \in Handlers |-> 0]

------------------------------------------------------------------------------
\* Someone writes a file, well or badly, and may name another directory in it.
Write(f, good) ==
  /\ writes < MaxWrites
  /\ writes' = writes + 1
  /\ disk' = [disk EXCEPT ![f] = [version |-> writes', good |-> good]]
  /\ IF f = ConfigFile THEN webdir' \in Dirs ELSE UNCHANGED webdir
  /\ UNCHANGED <<loaded, watched, serving, clean, pc, todo, changed, draft, rw, home>>

------------------------------------------------------------------------------
(***************************************************************************)
(* loadConfig, under the write lock.                                       *)
(***************************************************************************)
LockConfig ==
  /\ pc = "load" /\ Free(rw)
  /\ rw' = Lock(rw, Main) /\ pc' = "read"
  /\ UNCHANGED <<files, loaded, watched, serving, clean, todo, changed, draft, home>>

\* Mutant: the lock is not released.
LoadFails_Locked ==
  /\ pc' = IF serving THEN "idle" ELSE "exited"
  /\ todo' = {} /\ draft' = NoDraft
  /\ UNCHANGED rw

\* At the start, main ends the process; later, what is loaded stays.
LoadFails ==
  /\ pc' = IF serving THEN "idle" ELSE "exited"
  /\ todo' = {} /\ draft' = NoDraft
  /\ rw' = Unlock(rw)

ReadConfig ==
  /\ pc = "read"
  /\ IF disk[ConfigFile].good
       THEN /\ draft' = [version |-> disk[ConfigFile].version, dir |-> webdir,
                         pages |-> NoPages]
            /\ pc' = "glob" /\ UNCHANGED <<todo, rw>>
       ELSE LoadFails
  /\ UNCHANGED <<files, loaded, watched, serving, clean, changed, home>>

\* ParseGlob: the templates are listed, and then read; it is an error to find none.
ListPages ==
  /\ pc = "glob"
  /\ IF Glob(draft.dir) # {}
       THEN /\ todo' = Glob(draft.dir) /\ pc' = "parse"
            /\ UNCHANGED <<draft, rw>>
       ELSE LoadFails
  /\ UNCHANGED <<files, loaded, watched, serving, clean, changed, home>>

ParsePage(p) ==
  /\ pc = "parse" /\ Page(draft.dir, p) \in todo
  /\ IF disk[Page(draft.dir, p)].good
       THEN /\ draft' = [draft EXCEPT !.pages[p] = disk[Page(draft.dir, p)].version]
            /\ todo' = todo \ {Page(draft.dir, p)}
            /\ UNCHANGED <<pc, rw>>
       ELSE LoadFails
  /\ UNCHANGED <<files, loaded, watched, serving, clean, changed, home>>

\* Mutant: the modification times are recorded when the load is done, as at the start.
Commit_Records ==
  /\ pc = "parse" /\ todo = {}
  /\ config' = [version |-> draft.version, dir |-> draft.dir]
  /\ templates' = [config |-> draft.version, pages |-> draft.pages]
  /\ watched' = [f \in Files |-> disk[f].version]
  /\ rw' = Unlock(rw) /\ pc' = IF serving THEN "idle" ELSE "check"
  /\ draft' = NoDraft
  /\ UNCHANGED <<files, serving, clean, todo, changed, home>>

Commit ==
  /\ pc = "parse" /\ todo = {}
  /\ config' = [version |-> draft.version, dir |-> draft.dir]
  /\ templates' = [config |-> draft.version, pages |-> draft.pages]
  /\ rw' = Unlock(rw) /\ pc' = IF serving THEN "idle" ELSE "check"
  /\ draft' = NoDraft
  /\ UNCHANGED <<files, watched, serving, clean, todo, changed, home>>

------------------------------------------------------------------------------
(***************************************************************************)
(* initFileWatcher and checkForChanges: the configuration first, then the  *)
(* templates.  A file that is watched for the first time counts as changed.*)
(***************************************************************************)
Stale ==
  \/ config.version # disk[ConfigFile].version
  \/ \E p \in Pages : templates.pages[p] # disk[Page(config.dir, p)].version

\* The ticker, once a second.
Ticked ==
  /\ pc = "idle"
  /\ pc' = "check"
  /\ UNCHANGED <<files, loaded, watched, serving, clean, todo, changed, draft, rw, home>>

GetWatchedFiles ==
  /\ pc = "check" /\ NoWriter(rw)
  /\ todo' = {ConfigFile} \cup Glob(config.dir) /\ pc' = "stat"
  /\ UNCHANGED <<files, loaded, watched, serving, clean, changed, draft, rw, home>>

Newer(f) == disk[f].version > watched[f]

\* Mutant: what the last file says is returned.
Stat_Last(f) ==
  /\ pc = "stat" /\ f \in todo /\ (ConfigFile \in todo => f = ConfigFile)
  /\ todo' = todo \ {f}
  /\ watched' = IF Newer(f) THEN [watched EXCEPT ![f] = disk[f].version] ELSE watched
  /\ changed' = Newer(f)
  /\ UNCHANGED <<files, loaded, serving, clean, pc, draft, rw, home>>

Stat(f) ==
  /\ pc = "stat" /\ f \in todo /\ (ConfigFile \in todo => f = ConfigFile)
  /\ todo' = todo \ {f}
  /\ watched' = IF Newer(f) THEN [watched EXCEPT ![f] = disk[f].version] ELSE watched
  /\ changed' = (changed \/ Newer(f))
  /\ UNCHANGED <<files, loaded, serving, clean, pc, draft, rw, home>>

\* The watcher loads what has changed; at the start, the watcher is started.
Checked ==
  /\ pc = "stat" /\ todo = {}
  /\ pc' = IF serving /\ changed THEN "load" ELSE "idle"
  /\ serving' = TRUE /\ changed' = FALSE
  /\ clean' = IF serving THEN clean ELSE ~Stale
  /\ UNCHANGED <<files, loaded, watched, todo, draft, rw, home>>

------------------------------------------------------------------------------
\* Mutant: the configuration is read without the lock.
BeginHome_NoLock(h) ==
  /\ serving /\ home[h] = 0 /\ NoWriter(rw)
  /\ home' = [home EXCEPT ![h] = config.version]
  /\ UNCHANGED <<files, loaded, watched, serving, clean, pc, todo, changed, draft, rw>>

\* A request: the buttons come from config, their page from templates.
BeginHome(h) ==
  /\ serving /\ home[h] = 0 /\ NoWriter(rw)
  /\ rw' = RLock(rw, h)
  /\ home' = [home EXCEPT ![h] = config.version]
  /\ UNCHANGED <<files, loaded, watched, serving, clean, pc, todo, changed, draft>>

EndHome(h) ==
  /\ home[h] # 0
  /\ rw' = RUnlock(rw, h)
  /\ home' = [home EXCEPT ![h] = 0]
  /\ UNCHANGED <<files, loaded, watched, serving, clean, pc, todo, changed, draft>>

Exited == pc = "exited" /\ UNCHANGED vars

Watcher ==
  \/ LockConfig \/ ReadConfig \/ ListPages \/ (\E p \in Pages : ParsePage(p)) \/ Commit
  \/ Ticked \/ GetWatchedFiles \/ (\E f \in Files : Stat(f)) \/ Checked

Next ==
  \/ \E f \in Files, good \in BOOLEAN : Write(f, good)
  \/ Watcher
  \/ \E h \in Handlers : BeginHome(h) \/ EndHome(h)
  \/ Exited

Spec == Init /\ [][Next]_vars
\* Goroutines are scheduled, pages are written, and a waiting Lock is not starved.
FairSpec == Spec /\ SF_vars(Watcher) /\ \A h \in Handlers : WF_vars(EndHome(h))

------------------------------------------------------------------------------
(***************************************************************************)
(* Properties.                                                             *)
(***************************************************************************)
Versions == 0..MaxWrites

TypeOK ==
  /\ disk \in [Files -> [version: Versions, good: BOOLEAN]] /\ webdir \in Dirs
  /\ writes \in Versions
  /\ config \in [version: Versions, dir: Dirs]
  /\ templates \in [config: Versions, pages: [Pages -> Versions]]
  /\ watched \in [Files -> Versions]
  /\ serving \in BOOLEAN /\ clean \in BOOLEAN /\ changed \in BOOLEAN
  /\ pc \in {"idle", "check", "stat", "load", "read", "glob", "parse", "exited"}
  /\ todo \subseteq Files
  /\ draft \in [version: Versions, dir: Dirs, pages: [Pages -> Versions]]
  /\ home \in [Handlers -> Versions]
  /\ rw = [writer |-> IF pc \in {"read", "glob", "parse"} THEN {Main} ELSE {},
           readers |-> {h \in Handlers : home[h] # 0}]

\* A page never shows the buttons of one configuration in the template of another.
PagesAreWhole ==
  \A h \in Handlers : home[h] # 0 => home[h] = config.version /\ home[h] = templates.config

\* What is on the disk can be loaded.
DiskGood ==
  /\ disk[ConfigFile].good /\ Glob(webdir) # {}
  /\ \A f \in Glob(webdir) : disk[f].good

\* A load is to come, or in progress, or the next check will lead to one.
WillReload ==
  \/ pc \in {"load", "read", "glob", "parse"}
  \/ pc = "stat" /\ changed
  \/ \E f \in {ConfigFile} \cup Glob(config.dir) : Newer(f)

\* "File watching enabled - server will auto-reload on changes": what is loaded is what is
\* on the disk, or it will be loaded.
AutoReload == serving /\ DiskGood /\ Stale => WillReload

\* That is so unless files changed during the start, and as long as the configuration on
\* the disk names the directory that is loaded: however writes fall between the checks of
\* the single files, between the check and the load and into a load, and whatever loads
\* have failed before.
OutOfDate ==
  serving /\ clean /\ DiskGood /\ Stale /\ webdir = config.dir
ReloadIsDue == OutOfDate => WillReload

\* Then what is on the disk is indeed loaded.
Reloads == []<>~OutOfDate

------------------------------------------------------------------------------
(***************************************************************************)
(* Why a reload is due: the inductive invariant.                           *)
(***************************************************************************)

\* No modification time is recorded before it is one.
Recorded ==
  /\ Exists(ConfigFile)
  /\ \A f \in Files : watched[f] <= disk[f].version /\ disk[f].version <= writes

\* What a load has read is no older than what was recorded before it: if it is not what is
\* on the disk any more, the next check finds that out.
Fresh(f, version) == watched[f] <= version /\ version <= disk[f].version
DraftInv ==
  /\ pc \in {"glob", "parse"} =>
       /\ draft.version # 0 /\ Fresh(ConfigFile, draft.version)
       /\ draft.version = disk[ConfigFile].version => draft.dir = webdir
  /\ pc = "glob" => draft.pages = NoPages
  /\ pc = "parse" =>
       /\ todo \subseteq Glob(draft.dir)
       /\ \A p \in Pages :
            Page(draft.dir, p) \notin todo => Fresh(Page(draft.dir, p), draft.pages[p])

\* Nothing is loaded while a request is served.
HomeInv ==
  /\ pc \in {"read", "glob", "parse"} => \A h \in Handlers : home[h] = 0
  /\ serving \/ pc \in {"idle", "check", "stat"} => config.version # 0
  /\ config.version = templates.config

IInv == Recorded /\ DraftInv /\ HomeInv /\ PagesAreWhole /\ ReloadIsDue

==============================================================================
