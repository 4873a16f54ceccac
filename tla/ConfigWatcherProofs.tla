------------------------- MODULE ConfigWatcherProofs -------------------------
(***************************************************************************)
(* Proofs about ConfigWatcher, for every set of directories, templates and *)
(* requests, and every number of writes.                                   *)
(***************************************************************************)
EXTENDS ConfigWatcher, TLAPS

\* The configuration is no template, and a template has one directory and one name.
LEMMA FileNames ==
  /\ ConfigFile \in Files
  /\ \A dir \in Dirs, p \in Pages : Page(dir, p) \in Files /\ Page(dir, p) # ConfigFile
  /\ \A d1, d2, p1, p2 : Page(d1, p1) = Page(d2, p2) => d1 = d2 /\ p1 = p2
  /\ \A f \in Files : f # ConfigFile => \E dir \in Dirs, p \in Pages : f = Page(dir, p)
BY DEF Files, ConfigFile, Page

\* The templates of a directory are files.
LEMMA GlobFiles ==
  ASSUME NEW dir \in Dirs
  PROVE  /\ Glob(dir) \subseteq Files /\ ConfigFile \notin Glob(dir)
         /\ \A f \in Glob(dir) : Exists(f)
         /\ \A f \in Glob(dir) : \E p \in Pages : f = Page(dir, p)
BY FileNames DEF Glob

\* There are drafts.
LEMMA Drafts == NoDraft \in [version: Versions, dir: Dirs, pages: [Pages -> Versions]]
<1>1. (CHOOSE dir \in Dirs : TRUE) \in Dirs
  BY WatcherAssumption
<1>2. 0 \in Versions
  BY WatcherAssumption DEF Versions
<1> QED BY <1>1, <1>2 DEF NoDraft, NoPages

\* The types hold at the start.
LEMMA TypeInit == Init => TypeOK
<1> SUFFICES ASSUME Init PROVE TypeOK
  OBVIOUS
<1>1. 0 \in Versions /\ 1 \in Versions
  BY WatcherAssumption DEF Versions
<1>2. disk \in [Files -> [version: Versions, good: BOOLEAN]]
  BY <1>1 DEF Init
<1> QED BY <1>1, <1>2, Drafts DEF Init, TypeOK, NoPages, Unlocked

\* Every step keeps the types.
LEMMA TypeStep == TypeOK /\ HomeInv /\ [Next]_vars => TypeOK'
<1> SUFFICES ASSUME TypeOK, HomeInv, [Next]_vars PROVE TypeOK'
  OBVIOUS
<1> USE DEF TypeOK
<1>0. 0 \in Versions /\ \A n \in Versions : n < MaxWrites => n + 1 \in Versions
  BY WatcherAssumption DEF Versions
<1>1. ASSUME NEW f \in Files, NEW good \in BOOLEAN, Write(f, good) PROVE TypeOK'
  BY <1>0, <1>1 DEF Write, loaded
<1>2. CASE LockConfig
  BY <1>2 DEF LockConfig, files, loaded, Free, Lock
<1>3. ASSUME LoadFails, pc \in {"read", "glob", "parse"},
             UNCHANGED <<files, loaded, watched, serving, clean, changed, home>>
      PROVE  TypeOK'
  BY <1>3, Drafts DEF LoadFails, files, loaded, Unlock
<1>4. CASE ReadConfig
  <2>1. CASE disk[ConfigFile].good
    <3>1. draft' \in [version: Versions, dir: Dirs, pages: [Pages -> Versions]]
      BY <1>0, <1>4, <2>1, FileNames DEF ReadConfig, NoPages
    <3> QED BY <1>4, <2>1, <3>1 DEF ReadConfig, files, loaded
  <2>2. CASE ~disk[ConfigFile].good
    BY <1>3, <1>4, <2>2 DEF ReadConfig
  <2> QED BY <2>1, <2>2
<1>5. CASE ListPages
  <2>1. CASE Glob(draft.dir) # {}
    BY <1>5, <2>1, GlobFiles DEF ListPages, files, loaded
  <2>2. CASE Glob(draft.dir) = {}
    BY <1>3, <1>5, <2>2 DEF ListPages
  <2> QED BY <2>1, <2>2
<1>6. ASSUME NEW p \in Pages, ParsePage(p) PROVE TypeOK'
  <2> DEFINE f == Page(draft.dir, p)
  <2>1. CASE disk[f].good
    <3>1. f \in Files
      BY FileNames
    <3>2. draft' \in [version: Versions, dir: Dirs, pages: [Pages -> Versions]]
      BY <1>6, <2>1, <3>1 DEF ParsePage
    <3> QED BY <1>6, <2>1, <3>2 DEF ParsePage, files, loaded
  <2>2. CASE ~disk[f].good
    BY <1>3, <1>6, <2>2 DEF ParsePage
  <2> QED BY <2>1, <2>2
<1>7. CASE Commit
  BY <1>7, Drafts DEF Commit, files, Unlock
<1>8. CASE Ticked
  BY <1>8 DEF Ticked, files, loaded
<1>9. CASE GetWatchedFiles
  BY <1>9, GlobFiles, FileNames DEF GetWatchedFiles, files, loaded
<1>10. ASSUME NEW f \in Files, Stat(f) PROVE TypeOK'
  <2>1. watched' \in [Files -> Versions] /\ changed' \in BOOLEAN
    BY <1>10 DEF Stat, Newer
  <2> QED BY <1>10, <2>1 DEF Stat, files, loaded
<1>11. CASE Checked
  BY <1>11 DEF Checked, files, loaded, Stale
<1>12. ASSUME NEW h \in Handlers, BeginHome(h) PROVE TypeOK'
  BY <1>12 DEF HomeInv, BeginHome, files, loaded, RLock, NoWriter
<1>13. ASSUME NEW h \in Handlers, EndHome(h) PROVE TypeOK'
  BY <1>0, <1>13 DEF EndHome, files, loaded, RUnlock
<1>14. CASE UNCHANGED vars
  BY <1>14 DEF vars, files, loaded
<1> QED
  BY <1>1, <1>2, <1>4, <1>5, <1>6, <1>7, <1>8, <1>9, <1>10, <1>11, <1>12, <1>13, <1>14
    DEF Next, Watcher, Exited

------------------------------------------------------------------------------
\* Versions are numbers.
LEMMA VersionNats ==
  ASSUME TypeOK
  PROVE  /\ \A f \in Files : disk[f].version \in Nat /\ watched[f] \in Nat
         /\ writes \in Nat /\ config.version \in Nat /\ draft.version \in Nat
         /\ \A p \in Pages : draft.pages[p] \in Nat /\ templates.pages[p] \in Nat
BY WatcherAssumption DEF TypeOK, Versions

\* What a write does to the versions.
LEMMA WriteVersions ==
  ASSUME TypeOK, Recorded, NEW f \in Files, NEW good \in BOOLEAN, Write(f, good)
  PROVE  /\ disk'[f].version = writes + 1 /\ writes' = writes + 1
         /\ \A g \in Files : g # f => disk'[g] = disk[g]
         /\ \A g \in Files : disk[g].version <= disk'[g].version
         /\ \A g \in Files : watched'[g] = watched[g] /\ Newer(g) => Newer(g)'
         /\ Newer(f)'
BY VersionNats DEF TypeOK, Recorded, Write, Newer

\* The steps that are neither a write nor a look at a file.
Other ==
  \/ LockConfig \/ ReadConfig \/ ListPages \/ (\E p \in Pages : ParsePage(p)) \/ Commit
  \/ Ticked \/ GetWatchedFiles \/ Checked
  \/ (\E h \in Handlers : BeginHome(h) \/ EndHome(h)) \/ UNCHANGED vars

LEMMA NextCases ==
  ASSUME [Next]_vars
  PROVE  \/ \E f \in Files, good \in BOOLEAN : Write(f, good)
         \/ \E f \in Files : Stat(f)
         \/ Other
BY DEF Next, Watcher, Other, Exited

LEMMA OtherKeeps == Other => UNCHANGED <<disk, webdir, writes, watched>>
BY DEF Other, LockConfig, ReadConfig, ListPages, ParsePage, Commit, Ticked, GetWatchedFiles,
   Checked, BeginHome, EndHome, vars, files

\* A modification time is recorded when it has been seen.
LEMMA RecordedStep == TypeOK /\ Recorded /\ [Next]_vars => Recorded'
<1> SUFFICES ASSUME TypeOK, Recorded, [Next]_vars PROVE Recorded'
  OBVIOUS
<1>1. ASSUME NEW f \in Files, NEW good \in BOOLEAN, Write(f, good) PROVE Recorded'
  <2>1. watched' = watched
    BY <1>1 DEF Write
  <2>2. \A g \in Files : watched'[g] <= disk'[g].version /\ disk'[g].version <= writes'
    BY <1>1, <2>1, WriteVersions, VersionNats DEF Recorded
  <2>3. disk'[ConfigFile].version # 0
    BY <1>1, WriteVersions, VersionNats, FileNames DEF Recorded, Exists
  <2> QED BY <2>2, <2>3 DEF Recorded, Exists
<1>2. ASSUME NEW f \in Files, Stat(f) PROVE Recorded'
  <2>1. UNCHANGED <<disk, writes>>
    BY <1>2 DEF Stat, files
  <2>2. \A g \in Files : watched'[g] \in {watched[g], disk[g].version}
    BY <1>2 DEF Stat, TypeOK
  <2> QED BY <2>1, <2>2, VersionNats DEF Recorded, Exists
<1>3. CASE Other
  BY <1>3, OtherKeeps DEF Recorded, Exists
<1> QED BY <1>1, <1>2, <1>3, NextCases

\* What a load reads is recorded no later than it is read.
LEMMA DraftStep == TypeOK /\ Recorded /\ DraftInv /\ [Next]_vars => DraftInv'
<1> SUFFICES ASSUME TypeOK, Recorded, DraftInv, [Next]_vars PROVE DraftInv'
  OBVIOUS
<1>0. draft.dir \in Dirs
  BY DEF TypeOK
<1>1. ASSUME NEW f \in Files, NEW good \in BOOLEAN, Write(f, good) PROVE DraftInv'
  <2>1. UNCHANGED <<pc, draft, todo, watched>>
    BY <1>1 DEF Write
  <2>2. \A g \in Files, v \in Nat : Fresh(g, v) => Fresh(g, v)'
    BY <1>1, <2>1, WriteVersions, VersionNats DEF Fresh
  <2>3. \A g \in Files : Exists(g) => Exists(g)'
    BY <1>1, WriteVersions, VersionNats DEF Exists, Recorded
  <2>4. Glob(draft.dir) \subseteq Glob(draft.dir)'
    BY <1>0, <2>1, <2>3, FileNames DEF Glob
  <2>5. ASSUME pc \in {"glob", "parse"}, draft.version = disk'[ConfigFile].version
        PROVE  draft.dir = webdir'
    <3>1. f # ConfigFile
      BY <1>1, <2>5, WriteVersions, VersionNats, FileNames DEF DraftInv, Fresh, Recorded
    <3>2. webdir' = webdir
      BY <1>1, <3>1 DEF Write
    <3> QED BY <1>1, <2>5, <3>1, <3>2, WriteVersions, FileNames DEF DraftInv
  <2> QED BY <1>0, <2>1, <2>2, <2>4, <2>5, VersionNats, FileNames DEF DraftInv
<1>2. ASSUME NEW f \in Files, Stat(f) PROVE DraftInv'
  BY <1>2 DEF Stat, DraftInv
<1>3. CASE ReadConfig
  <2>1. CASE disk[ConfigFile].good
    <3>1. /\ pc' = "glob" /\ draft'.version = disk[ConfigFile].version /\ draft'.dir = webdir
          /\ draft'.pages = NoPages
          /\ UNCHANGED <<disk, watched, webdir>>
      BY <1>3, <2>1 DEF ReadConfig, files
    <3> QED BY <3>1, VersionNats, FileNames DEF DraftInv, Fresh, Recorded, Exists
  <2>2. CASE ~disk[ConfigFile].good
    BY <1>3, <2>2 DEF ReadConfig, LoadFails, DraftInv
  <2> QED BY <2>1, <2>2
<1>4. CASE ListPages
  <2>1. CASE Glob(draft.dir) # {}
    <3>1. /\ pc = "glob" /\ pc' = "parse" /\ todo' = Glob(draft.dir) /\ draft' = draft
          /\ UNCHANGED <<disk, watched, webdir>>
      BY <1>4, <2>1 DEF ListPages, files
    <3>2. ASSUME NEW p \in Pages, Page(draft.dir, p) \notin todo'
          PROVE  disk[Page(draft.dir, p)].version = 0 /\ watched[Page(draft.dir, p)] = 0
      BY <1>0, <3>1, <3>2, VersionNats, FileNames DEF Glob, Exists, Recorded
    <3>3. \A p \in Pages : draft.pages[p] = 0
      BY <3>1 DEF DraftInv, NoPages
    <3> QED BY <3>1, <3>2, <3>3 DEF DraftInv, Fresh, Glob, Exists
  <2>2. CASE Glob(draft.dir) = {}
    BY <1>4, <2>2 DEF ListPages, LoadFails, DraftInv
  <2> QED BY <2>1, <2>2
<1>5. ASSUME NEW p \in Pages, ParsePage(p) PROVE DraftInv'
  <2> DEFINE f == Page(draft.dir, p)
  <2>1. CASE disk[f].good
    <3>1. /\ pc = "parse" /\ pc' = "parse" /\ todo' = todo \ {f} /\ f \in todo
          /\ draft' = [draft EXCEPT !.pages[p] = disk[f].version]
          /\ UNCHANGED <<disk, watched, webdir>>
      BY <1>5, <2>1 DEF ParsePage, files
    <3>2. draft'.version = draft.version /\ draft'.dir = draft.dir
      BY <3>1 DEF TypeOK
    <3>3. /\ draft'.pages[p] = disk[f].version
          /\ \A q \in Pages : q # p => draft'.pages[q] = draft.pages[q]
      BY <3>1 DEF TypeOK
    <3>4. Fresh(f, disk[f].version)
      BY <1>0, VersionNats, FileNames DEF Fresh, Recorded
    <3>5. ASSUME NEW q \in Pages, Page(draft.dir, q) \notin todo'
          PROVE  Fresh(Page(draft.dir, q), draft'.pages[q])
      <4>1. CASE q = p
        BY <4>1, <3>3, <3>4
      <4>2. CASE q # p
        BY <4>2, <3>1, <3>3, <3>5, FileNames DEF DraftInv
      <4> QED BY <4>1, <4>2
    <3> QED BY <3>1, <3>2, <3>5 DEF DraftInv, Fresh, Glob, Exists
  <2>2. CASE ~disk[f].good
    BY <1>5, <2>2 DEF ParsePage, LoadFails, DraftInv
  <2> QED BY <2>1, <2>2
<1>6. CASE LockConfig \/ Commit \/ Ticked \/ GetWatchedFiles \/ Checked
  BY <1>6 DEF LockConfig, Commit, Ticked, GetWatchedFiles, Checked, DraftInv
<1>7. ASSUME NEW h \in Handlers, BeginHome(h) \/ EndHome(h) PROVE DraftInv'
  BY <1>7 DEF BeginHome, EndHome, files, DraftInv, Fresh, Glob, Exists
<1>8. CASE UNCHANGED vars
  BY <1>8 DEF vars, files, DraftInv, Fresh, Glob, Exists
<1> QED BY <1>1, <1>2, <1>3, <1>4, <1>5, <1>6, <1>7, <1>8 DEF Next, Watcher, Exited

\* A load and a request exclude each other, and a load replaces both variables.
LEMMA HomeStep == TypeOK /\ DraftInv /\ HomeInv /\ [Next]_vars => HomeInv'
<1> SUFFICES ASSUME TypeOK, DraftInv, HomeInv, [Next]_vars PROVE HomeInv'
  OBVIOUS
<1>1. ASSUME NEW f \in Files, NEW good \in BOOLEAN, Write(f, good) PROVE HomeInv'
  BY <1>1 DEF Write, loaded, HomeInv
<1>2. CASE LockConfig
  <2>1. \A h \in Handlers : home[h] = 0
    BY <1>2 DEF LockConfig, Free, TypeOK
  <2> QED BY <1>2, <2>1 DEF LockConfig, loaded, HomeInv
<1>3. CASE ReadConfig \/ ListPages \/ \E p \in Pages : ParsePage(p)
  BY <1>3 DEF ReadConfig, ListPages, ParsePage, LoadFails, loaded, HomeInv
<1>4. CASE Commit
  BY <1>4 DEF Commit, HomeInv, DraftInv
<1>5. CASE Ticked \/ GetWatchedFiles \/ Checked \/ \E f \in Files : Stat(f)
  BY <1>5 DEF Ticked, GetWatchedFiles, Checked, Stat, loaded, HomeInv
<1>6. ASSUME NEW h \in Handlers, BeginHome(h) PROVE HomeInv'
  <2>1. pc \notin {"read", "glob", "parse"}
    BY <1>6 DEF BeginHome, NoWriter, TypeOK
  <2> QED BY <1>6, <2>1 DEF BeginHome, loaded, HomeInv
<1>7. ASSUME NEW h \in Handlers, EndHome(h) PROVE HomeInv'
  BY <1>7 DEF EndHome, loaded, HomeInv, TypeOK
<1>8. CASE UNCHANGED vars
  BY <1>8 DEF vars, loaded, HomeInv
<1> QED BY <1>1, <1>2, <1>3, <1>4, <1>5, <1>6, <1>7, <1>8 DEF Next, Watcher, Exited

\* What a request has read stays what is loaded until its page is written.
LEMMA WholeStep ==
  TypeOK /\ HomeInv /\ PagesAreWhole /\ [Next]_vars => PagesAreWhole'
<1> SUFFICES ASSUME TypeOK, HomeInv, PagesAreWhole, [Next]_vars PROVE PagesAreWhole'
  OBVIOUS
<1>1. CASE Commit
  BY <1>1 DEF Commit, HomeInv, PagesAreWhole
<1>2. ASSUME NEW h \in Handlers, BeginHome(h) \/ EndHome(h) PROVE PagesAreWhole'
  BY <1>2 DEF BeginHome, EndHome, loaded, HomeInv, PagesAreWhole, TypeOK
<1>3. ASSUME UNCHANGED <<home, loaded>> PROVE PagesAreWhole'
  BY <1>3 DEF loaded, PagesAreWhole
<1> QED
  BY <1>1, <1>2, <1>3 DEF Next, Watcher, Exited, Write, LockConfig, ReadConfig, ListPages,
    ParsePage, Ticked, GetWatchedFiles, Stat, Checked, vars, loaded

------------------------------------------------------------------------------
(***************************************************************************)
(* A reload is due.                                                        *)
(***************************************************************************)

\* A step that changes none of what OutOfDate speaks of keeps it as it is.
LEMMA SameOutOfDate ==
  ASSUME UNCHANGED <<disk, webdir, config, templates, serving, clean>>
  PROVE  OutOfDate' = OutOfDate
BY DEF OutOfDate, DiskGood, Stale, Glob, Exists

\* A newer file of those that are watched leads to a reload.
LEMMA NewerSuffices ==
  ASSUME NEW f \in {ConfigFile} \cup Glob(config.dir), Newer(f)
  PROVE  WillReload
BY DEF WillReload

\* A write is noticed, or it concerns another directory.
LEMMA DueWrite ==
  ASSUME TypeOK, Recorded, ReloadIsDue, NEW f \in Files, NEW good \in BOOLEAN,
         Write(f, good)
  PROVE  ReloadIsDue'
<1> SUFFICES ASSUME OutOfDate' PROVE WillReload'
  BY DEF ReloadIsDue
<1>0. UNCHANGED <<config, templates, watched, serving, clean, pc, changed>>
      /\ config.dir \in Dirs
  BY DEF Write, loaded, TypeOK
<1>1. CASE f = ConfigFile
  BY <1>1, WriteVersions DEF WillReload
<1>2. CASE f \in Glob(config.dir)'
  BY <1>2, WriteVersions DEF WillReload
<1>3. CASE f # ConfigFile /\ f \notin Glob(config.dir)'
  <2>1. webdir' = webdir /\ webdir = config.dir
    BY <1>0, <1>3 DEF Write, OutOfDate
  <2>2. disk'[f].version # 0
    BY WriteVersions, VersionNats
  <2>3. \A p \in Pages : Page(config.dir, p) # f
    BY <1>0, <1>3, <2>2, FileNames DEF Glob, Exists
  <2>4. \A p \in Pages : disk'[Page(config.dir, p)] = disk[Page(config.dir, p)]
    BY <1>0, <2>3, WriteVersions, FileNames
  <2>5. disk'[ConfigFile] = disk[ConfigFile]
    BY <1>3, WriteVersions, FileNames
  <2>6. Glob(config.dir)' = Glob(config.dir)
    BY <1>0, <2>4 DEF Glob, Exists
  <2>7. \A g \in Glob(config.dir) : disk'[g] = disk[g]
    BY <2>4 DEF Glob
  <2>8. DiskGood
    BY <1>0, <2>1, <2>5, <2>6, <2>7 DEF OutOfDate, DiskGood
  <2>9. Stale
    BY <1>0, <2>4, <2>5 DEF OutOfDate, Stale
  <2>10. WillReload
    BY <1>0, <2>1, <2>8, <2>9 DEF OutOfDate, ReloadIsDue
  <2>11. \A g \in {ConfigFile} \cup Glob(config.dir) : Newer(g) => Newer(g)'
    BY <1>0, WriteVersions, FileNames, GlobFiles
  <2> QED BY <1>0, <2>6, <2>10, <2>11 DEF WillReload
<1> QED BY <1>1, <1>2, <1>3

\* A look at a file finds that it is newer, or leaves it as it was.
LEMMA DueStat ==
  ASSUME TypeOK, ReloadIsDue, NEW f \in Files, Stat(f)
  PROVE  ReloadIsDue'
<1>1. UNCHANGED <<disk, webdir, config, templates, serving, clean, pc>> /\ pc = "stat"
  BY DEF Stat, files, loaded
<1>2. OutOfDate' => WillReload
  BY <1>1, SameOutOfDate DEF ReloadIsDue
<1>3. CASE Newer(f)
  BY <1>1, <1>3 DEF Stat, ReloadIsDue, WillReload
<1>4. CASE ~Newer(f)
  <2>1. watched' = watched /\ changed' = changed
    BY <1>4 DEF Stat, TypeOK
  <2> QED BY <1>1, <1>2, <2>1 DEF ReloadIsDue, WillReload, Newer, Glob, Exists
<1> QED BY <1>3, <1>4

\* A load fails because of what is on the disk, or because that has changed meanwhile.
LEMMA DueFails ==
  ASSUME TypeOK, Recorded, DraftInv, ReadConfig \/ ListPages \/ \E p \in Pages : ParsePage(p)
  PROVE  ReloadIsDue'
<1> SUFFICES ASSUME OutOfDate', ~WillReload' PROVE FALSE
  BY DEF ReloadIsDue
<1>0. UNCHANGED <<disk, webdir, watched, config, templates, serving, clean>>
      /\ pc' \notin {"load", "read", "glob", "parse"}
  BY DEF ReadConfig, ListPages, ParsePage, files, loaded, WillReload
<1>1. DiskGood /\ ~Newer(ConfigFile)
  BY <1>0, SameOutOfDate DEF OutOfDate, WillReload, Newer
<1>2. ASSUME pc \in {"glob", "parse"} PROVE draft.dir = webdir
  BY <1>1, <1>2, VersionNats, FileNames DEF DraftInv, Fresh, Newer
<1>3. CASE ReadConfig
  BY <1>0, <1>1, <1>3 DEF ReadConfig, DiskGood
<1>4. CASE ListPages
  BY <1>0, <1>1, <1>2, <1>4 DEF ListPages, DiskGood
<1>5. ASSUME NEW p \in Pages, ParsePage(p) PROVE FALSE
  BY <1>0, <1>1, <1>2, <1>5 DEF ParsePage, DiskGood, DraftInv
<1> QED BY <1>3, <1>4, <1>5

\* What is loaded is out of date only if something is newer than what was recorded.
LEMMA DueCommit ==
  ASSUME TypeOK, Recorded, DraftInv, Commit
  PROVE  ReloadIsDue'
<1> SUFFICES ASSUME OutOfDate' PROVE WillReload'
  BY DEF ReloadIsDue
<1>1. /\ config'.version = draft.version /\ config'.dir = draft.dir
      /\ templates'.pages = draft.pages /\ draft.dir \in Dirs
      /\ UNCHANGED <<disk, webdir, watched>> /\ todo = {} /\ pc = "parse"
  BY DEF Commit, files, TypeOK
<1>2. CASE draft.version # disk[ConfigFile].version
  <2>1. Newer(ConfigFile)
    BY <1>1, <1>2, VersionNats, FileNames DEF DraftInv, Fresh, Newer
  <2> QED BY <1>1, <2>1 DEF WillReload, Newer
<1>3. ASSUME NEW p \in Pages, draft.pages[p] # disk[Page(draft.dir, p)].version
      PROVE  WillReload'
  <2>0. PICK f \in Files : f = Page(draft.dir, p)
    BY <1>1, FileNames
  <2>1. Newer(f) /\ Exists(f)
    BY <1>1, <1>3, <2>0, VersionNats, FileNames DEF DraftInv, Fresh, Newer, Exists
  <2>2. f \in Glob(config.dir)'
    BY <1>1, <2>0, <2>1 DEF Glob, Exists
  <2>3. Newer(f)'
    BY <1>1, <2>1 DEF Newer
  <2> QED BY <2>2, <2>3 DEF WillReload
<1>4. Stale'
  BY DEF OutOfDate
<1>5. \/ draft.version # disk[ConfigFile].version
      \/ \E p \in Pages : draft.pages[p] # disk[Page(draft.dir, p)].version
  BY <1>1, <1>4 DEF Stale
<1> QED BY <1>2, <1>3, <1>5

\* Every step keeps a reload due.
LEMMA DueStep ==
  TypeOK /\ Recorded /\ DraftInv /\ ReloadIsDue /\ [Next]_vars => ReloadIsDue'
<1> SUFFICES ASSUME TypeOK, Recorded, DraftInv, ReloadIsDue, [Next]_vars PROVE ReloadIsDue'
  OBVIOUS
<1>1. ASSUME UNCHANGED <<disk, webdir, config, templates, serving, clean, watched>>,
             WillReload => WillReload'
      PROVE  ReloadIsDue'
  BY <1>1, SameOutOfDate DEF ReloadIsDue
<1>2. CASE LockConfig
  BY <1>1, <1>2 DEF LockConfig, files, loaded, WillReload
<1>3. CASE Ticked \/ GetWatchedFiles
  BY <1>1, <1>3 DEF Ticked, GetWatchedFiles, files, loaded, WillReload, Newer, Glob, Exists
<1>4. CASE Checked
  <2>1. UNCHANGED <<disk, webdir, config, templates, watched>> /\ pc = "stat"
    BY <1>4 DEF Checked, files, loaded
  <2>2. CASE ~serving
    <3>1. clean' => ~Stale'
      BY <1>4, <2>1, <2>2 DEF Checked, Stale
    <3> QED BY <3>1 DEF ReloadIsDue, OutOfDate
  <2>3. CASE serving
    <3>1. UNCHANGED <<serving, clean>>
      BY <1>4, <2>3 DEF Checked
    <3>2. WillReload => WillReload'
      BY <1>4, <2>1, <2>3 DEF Checked, WillReload, Newer, Glob, Exists
    <3> QED BY <1>1, <2>1, <3>1, <3>2
  <2> QED BY <2>2, <2>3
<1>5. ASSUME NEW h \in Handlers, BeginHome(h) \/ EndHome(h) PROVE ReloadIsDue'
  BY <1>1, <1>5 DEF BeginHome, EndHome, files, loaded, WillReload, Newer, Glob, Exists
<1>6. CASE UNCHANGED vars
  BY <1>1, <1>6 DEF vars, files, loaded, WillReload, Newer, Glob, Exists
<1> QED
  BY <1>2, <1>3, <1>4, <1>5, <1>6, DueWrite, DueStat, DueFails, DueCommit
    DEF Next, Watcher, Exited

------------------------------------------------------------------------------
\* The inductive invariant holds in every state.
THEOREM WatcherInvariance == Spec => [](TypeOK /\ IInv)
<1>1. Init => TypeOK /\ IInv
  <2> SUFFICES ASSUME Init PROVE TypeOK /\ IInv
    OBVIOUS
  <2>1. Recorded
    <3>1. \A f \in Files : disk[f].version \in {0, 1} /\ watched[f] = 0
      BY DEF Init
    <3> QED BY <3>1 DEF Init, Recorded
  <2>2. DraftInv /\ HomeInv
    BY DEF Init, DraftInv, HomeInv
  <2>3. PagesAreWhole /\ ReloadIsDue
    BY DEF Init, PagesAreWhole, ReloadIsDue, OutOfDate
  <2> QED BY <2>1, <2>2, <2>3, TypeInit DEF IInv
<1>2. TypeOK /\ IInv /\ [Next]_vars => (TypeOK /\ IInv)'
  BY TypeStep, RecordedStep, DraftStep, HomeStep, WholeStep, DueStep DEF IInv
<1> QED BY <1>1, <1>2, PTL DEF Spec

\* Types: the files, the watcher and the requests stay what they are declared to be,
\* whatever is written while the configuration is loaded.
THEOREM TypeCorrect == Spec => []TypeOK
BY WatcherInvariance, PTL

\* Pages: homeHandler never fills the template of one configuration with the buttons of
\* another, however many requests there are while the watcher loads.
THEOREM PagesNeverMix == Spec => []PagesAreWhole
<1>1. IInv => PagesAreWhole
  BY DEF IInv
<1> QED BY <1>1, WatcherInvariance, PTL

\* Reloading: once serving, a change of the files in use is loaded or will be, whatever
\* the writes, the loads and the failures of loads before; a broken file that is repaired
\* is always tried again.
THEOREM ChangesAreNoticed == Spec => []ReloadIsDue
<1>1. IInv => ReloadIsDue
  BY DEF IInv
<1> QED BY <1>1, WatcherInvariance, PTL

==============================================================================
