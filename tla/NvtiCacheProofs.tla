--------------------------- MODULE NvtiCacheProofs ----------------------------
(***************************************************************************)
(* For any number of files, OIDs and preferences, and any number of deaths *)
(* of the loader, in a feed that has no OID twice and while no command     *)
(* fails: a file that nvticache_check takes for up to date is in the cache *)
(* as it is on disk, and a pass that reaches its end leaves all of them    *)
(* so.                                                                     *)
(***************************************************************************)
EXTENDS NvtiCache, TLAPS

\* The places in nvticache_add before and after the old entries are gone.
Deleting == {"add", "delete", "del_prefs", "del_nvt", "del_file"}
Adding == {"nvt", "prefs", "pref", "file"}
Loading == pc \in Deleting \cup Adding

\* The feed has the file.
OnDisk(f) == disk[f] # NoFile

\* The types of what the feed and the KB store.
Stored ==
  /\ disk \in [File -> [oid : Oid \cup {NULL}, ver : Nat, len : Nat, mtime : Nat]]
  /\ nvt \in [Oid -> Seq([file : File, ver : Nat])]
  /\ prefs \in [Oid -> Seq(Nat \X Nat)]
  /\ filename \in [File -> Seq([time : Nat, oid : Oid])]

\* The types of the variables, while no command has failed.
Typed ==
  /\ now \in Nat /\ vers \in Nat /\ fails = 0 /\ i \in Nat
  /\ pc \in {"idle", "next", "save"} \cup Deleting \cup Adding
  /\ found \in File \cup {NULL}
  /\ todo \subseteq File
  /\ Stored

\* The feed has no OID twice, and no time stamp of the cache is in the future.
Feed ==
  /\ \A f \in File : OnDisk(f) => disk[f].oid \in Oid
  /\ \A f, g \in File : f # g /\ OnDisk(f) /\ OnDisk(g) => disk[f].oid # disk[g].oid
  /\ \A f \in File : filename[f] # <<>> => filename[f][1].time <= now

\* What the loader adds is what is on disk, and it does not seem to be up to date
\* until it was added.
Loader ==
  /\ \A f \in todo : OnDisk(f)
  /\ pc \in {"idle", "save"} => todo = {}
  /\ pc \notin {"pref", "file"} => i = 0
  /\ Loading => /\ vt.file \in File \ todo /\ OnDisk(vt.file)
                /\ vt.oid = disk[vt.file].oid /\ vt.ver = disk[vt.file].ver
                /\ vt.len = disk[vt.file].len
                /\ ~nvticache_check(vt.file)

\* The first n preferences as redis_add_nvt writes them.
Listed(v, n) == [k \in 1 .. n |-> <<v, k - 1>>]

\* What is in the lists of the VT, command by command.  Preferences are deleted
\* before the VT and written after it, so that there are none without a VT.
Lists ==
  /\ \A o \in Oid : nvt[o] = <<>> => prefs[o] = <<>>
  /\ pc = "del_nvt" => prefs[vt.oid] = <<>>
  /\ pc \in {"del_file", "nvt"} => nvt[vt.oid] = <<>>
  /\ pc \in {"prefs", "pref", "file"} =>
       nvt[vt.oid] = <<[file |-> vt.file, ver |-> vt.ver]>>
  /\ pc = "prefs" => vt.len > 0
  /\ pc = "pref" => i < vt.len /\ prefs[vt.oid] = Listed(vt.ver, i)
  /\ pc = "file" => prefs[vt.oid] = Listed(vt.ver, vt.len)

\* The files the pass has dealt with are in the cache.
Passed ==
  /\ \A f \in File : nvticache_check(f) => Current(f)
  /\ pc = "next" => \A f \in File \ todo : OnDisk(f) => Current(f)
  /\ Loading => \A f \in File \ todo : OnDisk(f) /\ f # vt.file => Current(f)
  /\ whole => pc \in {"idle", "save"} /\ \A f \in File : OnDisk(f) => Current(f)

\* The inductive invariant.
Inv == Typed /\ Feed /\ Loader /\ Lists /\ Passed
--------------------------------------------------------------------------------
\* A function on the first n numbers is a list of that length.
LEMMA FunctionIsList ==
  ASSUME NEW S, NEW n \in Nat, NEW s \in [1 .. n -> S]
  PROVE  s \in Seq(S) /\ Len(s) = n
OBVIOUS

\* The empty list is the list of length zero.
LEMMA EmptyList ==
  ASSUME NEW S
  PROVE  <<>> \in Seq(S) /\ \A s \in Seq(S) : s = <<>> <=> Len(s) = 0
OBVIOUS

\* The entries of a list are what it is a list of.
LEMMA EntryTyped ==
  ASSUME NEW S, NEW s \in Seq(S), NEW k \in 1 .. Len(s)
  PROVE  s[k] \in S
OBVIOUS

\* Two sequences with the same entries are the same.
LEMMA SameEntries ==
  ASSUME NEW S, NEW s \in Seq(S), NEW t \in Seq(S),
         Len(s) = Len(t), \A k \in 1 .. Len(s) : s[k] = t[k]
  PROVE  s = t
OBVIOUS

\* Pushing once is appending.
LEMMA PushOnce ==
  ASSUME NEW S, NEW s \in Seq(S), NEW e \in S
  PROVE  Times(s, 1, e) = Append(s, e)
<1>1. [k \in 1 .. 1 |-> e] \in Seq(S) /\ Len([k \in 1 .. 1 |-> e]) = 1
  BY FunctionIsList
<1>2. Times(s, 1, e) \in Seq(S) /\ Append(s, e) \in Seq(S)
  BY <1>1 DEF Times
<1>3. Len(Times(s, 1, e)) = Len(s) + 1 /\ Len(Append(s, e)) = Len(s) + 1
  BY <1>1 DEF Times
<1>4. ASSUME NEW k \in 1 .. Len(s) + 1
      PROVE  Times(s, 1, e)[k] = Append(s, e)[k]
  BY <1>1 DEF Times
<1> QED BY <1>2, <1>3, <1>4, SameEntries, Zenon

\* Nothing is pushed on an empty list, and the next preference on the list of
\* those before.
LEMMA ListedSteps ==
  ASSUME NEW v \in Nat
  PROVE  /\ Listed(v, 0) = <<>>
         /\ \A n \in Nat : /\ Listed(v, n) \in Seq(Nat \X Nat) /\ Len(Listed(v, n)) = n
                           /\ Append(Listed(v, n), <<v, n>>) = Listed(v, n + 1)
<1>1. ASSUME NEW n \in Nat
      PROVE  Listed(v, n) \in Seq(Nat \X Nat) /\ Len(Listed(v, n)) = n
  <2>1. \A k \in 1 .. n : <<v, k - 1>> \in Nat \X Nat
    OBVIOUS
  <2>2. Listed(v, n) \in [1 .. n -> Nat \X Nat]
    BY <2>1 DEF Listed
  <2> QED BY <2>2, FunctionIsList
<1>2. Listed(v, 0) = <<>>
  BY <1>1
<1>3. ASSUME NEW n \in Nat
      PROVE  Append(Listed(v, n), <<v, n>>) = Listed(v, n + 1)
  <2>1. /\ Listed(v, n) \in Seq(Nat \X Nat) /\ Len(Listed(v, n)) = n
        /\ Listed(v, n + 1) \in Seq(Nat \X Nat) /\ Len(Listed(v, n + 1)) = n + 1
    BY <1>1
  <2>2. <<v, n>> \in Nat \X Nat
    BY Zenon
  <2>3. /\ Append(Listed(v, n), <<v, n>>) \in Seq(Nat \X Nat)
        /\ Len(Append(Listed(v, n), <<v, n>>)) = n + 1
    BY <2>1, <2>2, SMTT(30)
  <2>4. ASSUME NEW k \in 1 .. n + 1
        PROVE  Append(Listed(v, n), <<v, n>>)[k] = Listed(v, n + 1)[k]
    <3>1. CASE k = n + 1
      BY <2>1, <2>2, <3>1 DEF Listed
    <3>2. CASE k # n + 1
      <4>1. Append(Listed(v, n), <<v, n>>)[k] = Listed(v, n)[k]
        BY <2>1, <2>2, <3>2, SMTT(30)
      <4> QED BY <3>2, <4>1, SMTT(30) DEF Listed
    <3> QED BY <3>1, <3>2, Zenon
  <2> QED BY <2>1, <2>3, <2>4, SameEntries, Zenon
<1> QED BY <1>1, <1>2, <1>3, Zenon

\* When the lists of a VT are written, the cache has it as it is on disk.
LEMMA ListedIsCurrent ==
  ASSUME NEW f \in File, NEW n, disk[f].ver \in Nat, disk[f].len \in Nat,
         nvt[disk[f].oid] = <<[file |-> n, ver |-> disk[f].ver]>>,
         prefs[disk[f].oid] = Listed(disk[f].ver, disk[f].len)
  PROVE  Current(f)
<1> DEFINE v == disk[f].ver
           m == disk[f].len
<1>1. nvticache_get_nvt(disk[f].oid) = v
  BY DEF nvticache_get_nvt
<1>2. Listed(v, m) \in Seq(Nat \X Nat) /\ Len(Listed(v, m)) = m
  BY ListedSteps, Zenon
<1>3. nvticache_get_prefs(disk[f].oid) = [k \in 1 .. m |-> Listed(v, m)[(m - k) + 1]]
  BY <1>2, Zenon DEF nvticache_get_prefs
<1>4. \A k \in 1 .. m : Listed(v, m)[(m - k) + 1] = <<v, m - k>>
  BY SMTT(30) DEF Listed
<1>5. nvticache_get_prefs(disk[f].oid) = [k \in 1 .. m |-> <<v, m - k>>]
  BY <1>3, <1>4, Zenon
<1> QED BY <1>1, <1>5, Zenon DEF Current

\* Whether a VT is in the cache depends on its file and the lists of its OID.
LEMMA CurrentKept ==
  ASSUME NEW f \in File, Current(f), disk'[f] = disk[f],
         nvt'[disk[f].oid] = nvt[disk[f].oid], prefs'[disk[f].oid] = prefs[disk[f].oid]
  PROVE  Current(f)'
BY Zenon DEF Current, nvticache_get_nvt, nvticache_get_prefs

\* Whether a file seems to be up to date depends on the file and its time stamps.
LEMMA CheckKept ==
  ASSUME NEW f \in File, disk'[f] = disk[f], filename'[f] = filename[f]
  PROVE  nvticache_check(f)' <=> nvticache_check(f)
BY Zenon DEF nvticache_check, Newer

\* Without failures every command is executed once and has a reply.
LEMMA OneOutcome ==
  ASSUME MaxFails = 0, Typed, NEW o \in Outcomes, Command(o)
  PROVE  o[1] = 1 /\ o[2] = TRUE /\ fails' = 0
<1>1. fails = 0 /\ fails' <= 0
  BY Zenon DEF Typed, Command
<1>2. o = <<1, TRUE>>
  <2> DEFINE once == o = <<1, TRUE>>
  <2>1. fails' = IF once THEN fails ELSE fails + 1
    BY DEF Command
  <2> HIDE DEF once
  <2>2. once
    BY <1>1, <2>1, SMTT(30)
  <2> QED BY <2>2, Zenon DEF once
<1>3. fails' = fails
  BY <1>2, Zenon DEF Command
<1> QED BY <1>1, <1>2, <1>3, Zenon

\* Init establishes the invariant.
LEMMA InvInit == Init => Inv
<1> SUFFICES ASSUME Init PROVE Inv
  BY Zenon
<1>1. Typed
  <2>1. Stored
    BY SMTT(30) DEF Init, Stored, NoFile
  <2> QED BY <2>1, Zenon DEF Init, Typed
<1>2. \A f \in File : ~OnDisk(f) /\ filename[f] = <<>>
  BY Zenon DEF Init, OnDisk
<1>3. Feed /\ Passed
  BY <1>2, Zenon DEF Init, Feed, Passed, Loading, Deleting, Adding, nvticache_check
<1>4. Loader /\ Lists
  BY Zenon DEF Init, Loader, Lists, Loading, Deleting, Adding
<1> QED BY <1>1, <1>3, <1>4, Zenon DEF Inv

\* Steps that change neither the feed nor the cache change nothing about them.
LEMMA SameCache ==
  ASSUME UNCHANGED <<disk, nvt, prefs, filename>>, NEW f \in File
  PROVE  /\ nvticache_check(f)' <=> nvticache_check(f)
         /\ Current(f)' <=> Current(f)
         /\ OnDisk(f)' <=> OnDisk(f)
BY Zenon DEF nvticache_check, Newer, Current, nvticache_get_nvt, nvticache_get_prefs, OnDisk

\* The types of what is stored.
LEMMA SameStored ==
  ASSUME Stored, UNCHANGED <<disk, nvt, prefs, filename>>
  PROVE  Stored'
BY Zenon DEF Stored

\* A function to lists stays one when one of them is replaced.
LEMMA ListReplaced ==
  ASSUME NEW A, NEW S, NEW f \in [A -> Seq(S)], NEW x, NEW s \in Seq(S)
  PROVE  [f EXCEPT ![x] = s] \in [A -> Seq(S)]
BY Zenon

\* An empty list is a list.
LEMMA ListEmptied ==
  ASSUME NEW A, NEW S, NEW f \in [A -> Seq(S)], NEW x
  PROVE  [f EXCEPT ![x] = <<>>] \in [A -> Seq(S)]
BY ListReplaced, EmptyList, Zenon

\* A time stamp is a number.
LEMMA StampTyped ==
  ASSUME Stored, NEW f \in File, filename[f] # <<>>
  PROVE  filename[f][1] \in [time : Nat, oid : Oid] /\ filename[f][1].time \in Nat
<1> DEFINE S == [time : Nat, oid : Oid]
<1>1. filename[f] \in Seq(S)
  BY Zenon DEF Stored
<1>2. filename[f][1] \in S
  <2> HIDE DEF S
  <2>1. Len(filename[f]) \in Nat /\ Len(filename[f]) # 0
    BY <1>1, EmptyList, SMTT(30)
  <2> QED BY <1>1, <2>1, EntryTyped
<1> QED BY <1>2, Zenon

\* The clock.
LEMMA TickInv ==
  ASSUME Inv, Tick
  PROVE  Inv'
<1>1. now' = now + 1 /\ UNCHANGED <<disk, vers, kb, version, loader, whole, bounds>>
  BY Zenon DEF Tick, disk_vars
<1>2. UNCHANGED <<disk, vers, nvt, prefs, filename, pc, vt, found, i, todo, whole, fails>>
  BY <1>1, Zenon DEF kb, loader, bounds
<1> HIDE DEF Tick
<1>3. Typed'
  BY <1>1, <1>2, SameStored, SMTT(30) DEF Inv, Typed
<1>4. Feed'
  <2>1. \A f \in File : filename[f] # <<>> => filename[f][1].time \in Nat
    BY StampTyped, Zenon DEF Inv, Typed
  <2>2. ASSUME NEW f \in File, filename'[f] # <<>>
        PROVE  filename'[f][1].time <= now'
    <3>1. filename[f][1].time \in Nat /\ filename[f][1].time <= now /\ now \in Nat
      BY <1>2, <2>1, <2>2, Zenon DEF Inv, Feed, Typed
    <3>2. filename' = filename
      BY <1>2, Zenon
    <3> QED BY <1>1, <3>1, <3>2, SMTT(30)
  <2>3. disk' = disk
    BY <1>2, Zenon
  <2> QED BY <2>2, <2>3, Zenon DEF Inv, Feed, OnDisk
<1>5. Loader'
  BY <1>2, SameCache, Zenon DEF Inv, Loader, Loading, OnDisk, nvticache_check
<1>6. Lists'
  BY <1>2, Zenon DEF Inv, Lists
<1>7. Passed'
  BY <1>2, SameCache, Zenon DEF Inv, Passed, Loading
<1> QED BY <1>3, <1>4, <1>5, <1>6, <1>7, Zenon DEF Inv

\* The feed changes a file: its time stamp is not older than that of the cache.
LEMMA ChangeFileInv ==
  ASSUME ~Duplicates, Inv, NEW f \in File, ChangeFile(f)
  PROVE  Inv'
<1>1. /\ pc = "idle" /\ vers' = vers + 1 /\ whole' = FALSE
      /\ UNCHANGED <<now, nvt, prefs, filename, pc, vt, found, i, todo, fails>>
  BY Zenon DEF ChangeFile, kb, loader, bounds
<1>2. PICK d : /\ disk' = [disk EXCEPT ![f] = d]
               /\ d \in [oid : Oid \cup {NULL}, ver : Nat, len : Nat, mtime : Nat]
               /\ d # NoFile => /\ d.oid \in Oid /\ d.mtime = now
                                /\ \A g \in File \ {f} : disk[g].oid # d.oid
  <2>1. ASSUME NEW o \in Oid, NEW n \in PrefLens,
               Duplicates \/ \A g \in File \ {f} : disk[g].oid # o,
               disk' = [disk EXCEPT ![f] = [oid |-> o, ver |-> vers', len |-> n,
                                            mtime |-> now]]
        PROVE  \E d : /\ disk' = [disk EXCEPT ![f] = d]
                      /\ d \in [oid : Oid \cup {NULL}, ver : Nat, len : Nat, mtime : Nat]
                      /\ d # NoFile => /\ d.oid \in Oid /\ d.mtime = now
                                       /\ \A g \in File \ {f} : disk[g].oid # d.oid
    <3>1. vers' \in Nat /\ now \in Nat /\ n \in Nat
      BY <1>1, PrefLensAssumption, SMTT(30) DEF Inv, Typed
    <3> WITNESS [oid |-> o, ver |-> vers', len |-> n, mtime |-> now]
    <3> QED BY <2>1, <3>1, Zenon
  <2>2. ASSUME disk' = [disk EXCEPT ![f] = NoFile]
        PROVE  \E d : /\ disk' = [disk EXCEPT ![f] = d]
                      /\ d \in [oid : Oid \cup {NULL}, ver : Nat, len : Nat, mtime : Nat]
                      /\ d # NoFile => /\ d.oid \in Oid /\ d.mtime = now
                                       /\ \A g \in File \ {f} : disk[g].oid # d.oid
    <3>1. NoFile \in [oid : Oid \cup {NULL}, ver : Nat, len : Nat, mtime : Nat]
      BY DEF NoFile
    <3> WITNESS NoFile
    <3> QED BY <2>2, <3>1
  <2> QED BY <2>1, <2>2, Zenon DEF ChangeFile
<1> HIDE DEF ChangeFile
<1>3. disk'[f] = d /\ \A g \in File : g # f => disk'[g] = disk[g]
  BY <1>2 DEF Inv, Typed, Stored
<1>4. Typed'
  <2>1. Stored'
    BY <1>1, <1>2, Zenon DEF Inv, Typed, Stored
  <2> QED BY <1>1, <2>1, SMTT(30) DEF Inv, Typed
<1>5. Feed'
  BY <1>1, <1>2, <1>3 DEF Inv, Feed, OnDisk
<1>6. ASSUME NEW g \in File, nvticache_check(g)'
      PROVE  g # f /\ Current(g)'
  <2>1. g # f
    <3> SUFFICES ASSUME g = f PROVE FALSE
      BY Zenon
    <3>1. d # NoFile /\ filename[f] # <<>> /\ filename[f][1].time > d.mtime
      BY <1>1, <1>3, <1>6, Zenon DEF nvticache_check, Newer
    <3>2. filename[f][1].time <= now /\ d.mtime = now /\ filename[f][1].time \in Nat
      BY <1>2, <3>1, StampTyped, SMTT(30) DEF Inv, Feed, Typed
    <3>3. now \in Nat
      BY Zenon DEF Inv, Typed
    <3> QED BY <3>1, <3>2, <3>3, SMTT(30)
  <2>2. nvticache_check(g)
    BY <1>1, <1>3, <1>6, <2>1, CheckKept, SMTT(30)
  <2> QED BY <1>1, <1>3, <2>1, <2>2, CurrentKept, Zenon DEF Inv, Passed
<1>7. Passed'
  BY <1>1, <1>6, SMTT(30) DEF Passed, Loading, Deleting, Adding
<1>8. Loader'
  BY <1>1, Zenon DEF Inv, Loader, Loading, Deleting, Adding
<1>9. Lists'
  BY <1>1, Zenon DEF Inv, Lists
<1> QED BY <1>4, <1>5, <1>7, <1>8, <1>9, Zenon DEF Inv

\* The pass begins and ends, or the loader dies.
LEMMA PassInv ==
  ASSUME Inv, StartPass \/ EndPass \/ Crash
  PROVE  Inv'
<1>1. /\ UNCHANGED <<now, disk, vers, nvt, prefs, filename, fails>>
      /\ \/ pc' = "next" /\ todo' = {f \in File : OnDisk(f)} /\ whole' = FALSE
            /\ pc = "idle" /\ UNCHANGED <<found, i>>
         \/ pc' = "save" /\ todo' = {} /\ todo = {} /\ pc = "next" /\ UNCHANGED <<found, i>>
         \/ pc' = "idle" /\ todo' = {} /\ whole' = FALSE /\ i' = 0 /\ found' = NULL
  BY Zenon DEF StartPass, EndPass, Crash, disk_vars, kb, bounds, OnDisk
<1> HIDE DEF StartPass, EndPass, Crash
<1>2. Typed'
  BY <1>1, SameStored, SMTT(30) DEF Inv, Typed
<1>3. Feed'
  BY <1>1, Zenon DEF Inv, Feed, OnDisk
<1>4. Loader'
  BY <1>1, SMTT(30) DEF Inv, Loader, Loading, Deleting, Adding, OnDisk
<1>5. Lists'
  BY <1>1, SMTT(30) DEF Inv, Lists
<1>6. Passed'
  <2>1. \A f \in File : /\ nvticache_check(f)' <=> nvticache_check(f)
                        /\ Current(f)' <=> Current(f)
                        /\ OnDisk(f)' <=> OnDisk(f)
    BY <1>1, SameCache, SMTT(30)
  <2>2. CASE pc' = "next" /\ todo' = {f \in File : OnDisk(f)} /\ whole' = FALSE
    BY <2>1, <2>2, SMTT(30) DEF Inv, Passed, Loading, Deleting, Adding
  <2>3. CASE pc' = "save" /\ todo = {} /\ pc = "next"
    BY <2>1, <2>3, SMTT(30) DEF Inv, Passed, Loading, Deleting, Adding
  <2>4. CASE pc' = "idle" /\ whole' = FALSE
    BY <2>1, <2>4, SMTT(30) DEF Inv, Passed, Loading, Deleting, Adding
  <2> QED BY <1>1, <2>2, <2>3, <2>4, Zenon
<1> QED BY <1>2, <1>3, <1>4, <1>5, <1>6, Zenon DEF Inv

\* The commands that replace a VT touch only the lists of its OID, and leave or
\* empty a list of time stamps.
LEMMA LoadingFrame ==
  ASSUME Inv, Loading, Loading', UNCHANGED <<now, disk, vt, todo, whole>>,
         \A f \in File : filename'[f] \in {filename[f], <<>>},
         \A o \in Oid : o # vt.oid => nvt'[o] = nvt[o] /\ prefs'[o] = prefs[o],
         pc' \notin {"pref", "file"} => i' = 0
  PROVE  Feed' /\ Loader' /\ Passed'
<1>1. Feed'
  BY Zenon DEF Inv, Feed, OnDisk
<1>2. \A f \in File : nvticache_check(f)' => nvticache_check(f)
  BY Zenon DEF nvticache_check, Newer
<1>3. Loader'
  <2>1. /\ vt.file \in File \ todo /\ OnDisk(vt.file)
        /\ vt.oid = disk[vt.file].oid /\ vt.ver = disk[vt.file].ver
        /\ vt.len = disk[vt.file].len
        /\ ~nvticache_check(vt.file) /\ \A f \in todo : OnDisk(f)
    BY Zenon DEF Inv, Loader
  <2>2. ~nvticache_check(vt.file)'
    BY <1>2, <2>1, Zenon DEF nvticache_check
  <2> QED BY <2>1, <2>2, Zenon DEF Loader, Loading, Deleting, Adding, OnDisk
<1>4. ASSUME NEW f \in File, OnDisk(f), f # vt.file, Current(f)
      PROVE  Current(f)'
  <2>1. disk[f].oid \in Oid /\ disk[f].oid # vt.oid
    BY <1>4, SMTT(30) DEF Inv, Feed, Loader
  <2> QED BY <1>4, <2>1, CurrentKept, Zenon
<1>5. ASSUME NEW f \in File, nvticache_check(f)'
      PROVE  Current(f)'
  BY <1>2, <1>4, <1>5 DEF Inv, Loader, Passed, nvticache_check, OnDisk
<1>6. Passed'
  <2>1. ~whole
    BY DEF Inv, Passed, Loading, Deleting, Adding
  <2>2. pc' # "next"
    BY DEF Loading, Deleting, Adding
  <2>3. \A f \in File \ todo : OnDisk(f) /\ f # vt.file => Current(f)'
    BY <1>4 DEF Inv, Passed
  <2>4. (\A f \in File \ todo : OnDisk(f) /\ f # vt.file => Current(f))'
    BY <2>3 DEF OnDisk
  <2> QED BY <1>5, <2>1, <2>2, <2>4 DEF Passed
<1> QED BY <1>1, <1>3, <1>6, SMTT(30)

\* What the loader knows of the VT it adds.
LEMMA LoadingFacts ==
  ASSUME Inv, Loading
  PROVE  /\ vt.file \in File \ todo /\ OnDisk(vt.file) /\ ~nvticache_check(vt.file)
         /\ vt.oid = disk[vt.file].oid /\ vt.ver = disk[vt.file].ver
         /\ vt.len = disk[vt.file].len
         /\ vt.oid \in Oid /\ vt.ver \in Nat /\ vt.len \in Nat
         /\ ~whole /\ i \in Nat /\ (pc \notin {"pref", "file"} => i = 0)
<1>1. /\ vt.file \in File \ todo /\ OnDisk(vt.file) /\ ~nvticache_check(vt.file)
      /\ vt.oid = disk[vt.file].oid /\ vt.ver = disk[vt.file].ver
      /\ vt.len = disk[vt.file].len /\ (pc \notin {"pref", "file"} => i = 0)
  BY DEF Inv, Loader
<1>2. disk[vt.file] \in [oid : Oid \cup {NULL}, ver : Nat, len : Nat, mtime : Nat]
  BY <1>1 DEF Inv, Typed, Stored
<1>3. disk[vt.file].oid \in Oid
  BY <1>1 DEF Inv, Feed
<1>4. ~whole /\ i \in Nat
  BY DEF Inv, Passed, Typed, Loading, Deleting, Adding
<1> QED BY <1>1, <1>2, <1>3, <1>4

\* The name of the file is found if the VT is in the cache.
LEMMA FoundName ==
  ASSUME Stored, NEW o \in Oid
  PROVE  /\ nvticache_get_filename(o) \in File \cup {NULL}
         /\ nvticache_get_filename(o) = NULL => nvt[o] = <<>>
<1> DEFINE S == [file : File, ver : Nat]
<1>1. CASE nvt[o] # <<>>
  <2>1. nvt[o] \in Seq(S)
    BY Zenon DEF Stored
  <2>2. nvt[o][1] \in S
    <3> HIDE DEF S
    <3>1. Len(nvt[o]) \in Nat /\ Len(nvt[o]) # 0
      BY <1>1, <2>1, EmptyList
    <3> QED BY <2>1, <3>1, EntryTyped
  <2>3. nvt[o][1].file \in File
    BY <2>2
  <2> QED BY <1>1, <2>3, NULLAssumption DEF nvticache_get_filename
<1>2. CASE nvt[o] = <<>>
  BY <1>2 DEF nvticache_get_filename
<1> QED BY <1>1, <1>2

\* nvticache_check is asked for a file.
LEMMA LookAtInv ==
  ASSUME Inv, NEW f \in File, LookAt(f, 1, TRUE),
         UNCHANGED <<now, disk, vers, whole>>, fails' = 0
  PROVE  Inv'
<1>1. /\ pc = "next" /\ f \in todo /\ todo' = todo \ {f}
      /\ UNCHANGED <<nvt, prefs, filename, found, i>>
      /\ IF nvticache_check(f) THEN UNCHANGED <<pc, vt>>
         ELSE /\ pc' = "add"
              /\ vt' = [file |-> f, oid |-> disk[f].oid, ver |-> disk[f].ver,
                        len |-> disk[f].len]
  BY DEF LookAt, kb, Goto
<1> HIDE DEF LookAt
<1>2. \A g \in File : /\ nvticache_check(g)' <=> nvticache_check(g)
                      /\ Current(g)' <=> Current(g)
                      /\ OnDisk(g)' <=> OnDisk(g)
  BY <1>1, SameCache
<1>3. /\ todo \subseteq File /\ Stored /\ OnDisk(f) /\ i = 0 /\ ~whole
      /\ \A g \in todo : OnDisk(g)
  BY <1>1 DEF Inv, Typed, Loader, Passed
<1>4. Typed'
  <2>1. Stored'
    BY <1>1, <1>3, SameStored
  <2>2. pc' \in {"next", "add"}
    BY <1>1
  <2> QED BY <1>1, <2>1, <2>2 DEF Inv, Typed, Deleting
<1>5. Feed'
  BY <1>1 DEF Inv, Feed, OnDisk
<1>6. Lists'
  BY <1>1 DEF Inv, Lists
<1>7. CASE nvticache_check(f)
  <2>1. Loader'
    BY <1>1, <1>2, <1>3, <1>7 DEF Loader, Loading, Deleting, Adding
  <2>2. Current(f)
    BY <1>7 DEF Inv, Passed
  <2>3. Passed'
    BY <1>1, <1>2, <1>3, <1>7, <2>2 DEF Inv, Passed, Loading, Deleting, Adding
  <2> QED BY <1>4, <1>5, <1>6, <2>1, <2>3 DEF Inv
<1>8. CASE ~nvticache_check(f)
  <2>1. /\ vt'.file = f /\ vt'.oid = disk[f].oid /\ vt'.ver = disk[f].ver
        /\ vt'.len = disk[f].len /\ pc' = "add"
    BY <1>1, <1>8, SMTT(30)
  <2>2. ~nvticache_check(vt.file)' /\ OnDisk(vt.file)'
    BY <1>1, <1>2, <1>3, <1>8, <2>1 DEF nvticache_check, OnDisk, Newer
  <2>3. (\A g \in todo : OnDisk(g))'
    BY <1>1, <1>3 DEF OnDisk
  <2>4. Loader'
    BY <1>1, <1>3, <2>1, <2>2, <2>3 DEF Loader
  <2>5. Passed'
    BY <1>1, <1>2, <1>3, <2>1 DEF Inv, Passed
  <2> QED BY <1>4, <1>5, <1>6, <2>4, <2>5 DEF Inv
<1> QED BY <1>7, <1>8

\* nvticache_add asks for the VT, and nvticache_delete deletes what is there.
LEMMA DeletingInv ==
  ASSUME Inv, nvticache_add(1, TRUE) \/ nvticache_delete(1, TRUE),
         UNCHANGED <<now, disk, vers, whole>>, fails' = 0
  PROVE  Inv'
<1>0. Loading /\ Typed /\ Stored /\ Lists /\ UNCHANGED <<vt, i, todo>>
  BY Zenon DEF nvticache_add, nvticache_delete, Loading, Deleting, Inv, Typed
<1>f. /\ vt.file \in File \ todo /\ OnDisk(vt.file) /\ ~nvticache_check(vt.file)
      /\ vt.oid \in Oid /\ ~whole /\ i \in Nat /\ (pc \notin {"pref", "file"} => i = 0)
  BY <1>0, LoadingFacts
<1>t. ASSUME Stored', pc' \in Deleting \cup {"nvt"}, found' \in File \cup {NULL}
      PROVE  Typed'
  BY <1>0, <1>t DEF Typed, Adding
<1>l. ASSUME pc' \in Deleting \cup {"nvt"}, pc \in Deleting,
             \A f \in File : filename'[f] \in {filename[f], <<>>},
             \A o \in Oid : o # vt.oid => nvt'[o] = nvt[o] /\ prefs'[o] = prefs[o]
      PROVE  Feed' /\ Loader' /\ Passed'
  <2>1. Loading'
    BY <1>l DEF Loading, Adding
  <2>2. i' = 0
    BY <1>0, <1>f, <1>l DEF Deleting
  <2> QED BY <1>0, <1>l, <2>1, <2>2, LoadingFrame
<1>1. CASE /\ pc \in {"add", "delete"} /\ UNCHANGED <<nvt, prefs, filename>>
           /\ found' = nvticache_get_filename(vt.oid)
           /\ \/ pc' = "del_prefs"
              \/ pc' = IF found' # NULL THEN "delete" ELSE "nvt"
  <2>1. pc' \in Deleting \cup {"nvt"} /\ pc \in Deleting
    BY <1>1 DEF Deleting
  <2>2. found' \in File \cup {NULL} /\ (found' = NULL => nvt[vt.oid] = <<>>)
    BY <1>0, <1>1, <1>f, FoundName
  <2>3. Stored'
    BY <1>0, <1>1, SameStored
  <2>4. Lists'
    BY <1>0, <1>1, <2>2 DEF Lists
  <2> QED BY <1>1, <1>t, <1>l, <2>1, <2>2, <2>3, <2>4 DEF Inv
<1>2. CASE /\ pc = "del_prefs" /\ prefs' = [prefs EXCEPT ![vt.oid] = <<>>]
           /\ pc' = "del_nvt" /\ UNCHANGED <<nvt, filename, found>>
  <2>1. pc' \in Deleting \cup {"nvt"} /\ pc \in Deleting
    BY <1>2 DEF Deleting
  <2>2. \A o \in Oid : prefs'[o] = IF o = vt.oid THEN <<>> ELSE prefs[o]
    BY <1>0, <1>2 DEF Stored
  <2>3. Stored'
    <3>1. prefs' \in [Oid -> Seq(Nat \X Nat)]
      BY <1>0, <1>2, ListEmptied, Zenon DEF Stored
    <3> QED BY <1>0, <1>2, <3>1, Zenon DEF Stored
  <2>4. Lists'
    BY <1>0, <1>2, <1>f, <2>2 DEF Lists
  <2>5. found' \in File \cup {NULL}
    BY <1>0, <1>2 DEF Typed
  <2> QED BY <1>2, <1>t, <1>l, <2>1, <2>2, <2>3, <2>4, <2>5 DEF Inv
<1>3. CASE /\ pc = "del_nvt" /\ nvt' = [nvt EXCEPT ![vt.oid] = <<>>]
           /\ pc' = IF found # NULL THEN "del_file" ELSE "nvt"
           /\ UNCHANGED <<prefs, filename, found>>
  <2>1. pc' \in Deleting \cup {"nvt"} /\ pc \in Deleting
    BY <1>3 DEF Deleting
  <2>2. \A o \in Oid : nvt'[o] = IF o = vt.oid THEN <<>> ELSE nvt[o]
    BY <1>0, <1>3 DEF Stored
  <2>3. Stored'
    <3>1. nvt' \in [Oid -> Seq([file : File, ver : Nat])]
      BY <1>0, <1>3, ListEmptied, Zenon DEF Stored
    <3> QED BY <1>0, <1>3, <3>1, Zenon DEF Stored
  <2>4. Lists'
    BY <1>0, <1>3, <1>f, <2>2 DEF Lists
  <2>5. found' \in File \cup {NULL}
    BY <1>0, <1>3 DEF Typed
  <2> QED BY <1>3, <1>t, <1>l, <2>1, <2>2, <2>3, <2>4, <2>5 DEF Inv
<1>4. CASE /\ pc = "del_file" /\ filename' = [filename EXCEPT ![found] = <<>>]
           /\ pc' = "nvt" /\ UNCHANGED <<nvt, prefs, found>>
  <2>1. pc' \in Deleting \cup {"nvt"} /\ pc \in Deleting
    BY <1>4 DEF Deleting
  <2>2. \A f \in File : filename'[f] \in {filename[f], <<>>}
    BY <1>0, <1>4 DEF Stored
  <2>3. Stored'
    <3>1. filename' \in [File -> Seq([time : Nat, oid : Oid])]
      BY <1>0, <1>4, ListEmptied, Zenon DEF Stored
    <3> QED BY <1>0, <1>4, <3>1, Zenon DEF Stored
  <2>4. Lists'
    BY <1>0, <1>4 DEF Lists
  <2>5. found' \in File \cup {NULL}
    BY <1>0, <1>4 DEF Typed
  <2> QED BY <1>4, <1>t, <1>l, <2>1, <2>2, <2>3, <2>4, <2>5 DEF Inv
<1>5. CASE nvticache_add(1, TRUE)
  BY <1>1, <1>5 DEF nvticache_add, GetFilename, Goto, AfterLookup, kb
<1>6. CASE nvticache_delete(1, TRUE)
  BY <1>1, <1>2, <1>3, <1>4, <1>6
     DEF nvticache_delete, GetFilename, Goto, DeletePrefs, Del, kb
<1> QED BY <1>5, <1>6, Zenon

\* redis_add_nvt before its last command.
LEMMA AddingInv ==
  ASSUME Inv, redis_add_nvt(1, TRUE), pc # "file",
         UNCHANGED <<now, disk, vers, whole>>, fails' = 0
  PROVE  Inv'
<1>0. /\ Loading /\ Typed /\ Stored /\ Lists /\ UNCHANGED <<vt, filename, found, todo>>
      /\ pc \in {"nvt", "prefs", "pref"} /\ pc' \in {"prefs", "pref", "file"}
  BY DEF redis_add_nvt, Loading, Adding, Inv, Typed, Goto
<1>f. /\ vt.oid \in Oid /\ vt.ver \in Nat /\ vt.len \in Nat /\ vt.file \in File
      /\ i \in Nat /\ (pc \notin {"pref", "file"} => i = 0)
  BY <1>0, LoadingFacts
<1>t. ASSUME Stored', i' \in Nat
      PROVE  Typed'
  BY <1>0, <1>t, SMTT(30) DEF Typed, Adding
<1>l. ASSUME \A o \in Oid : o # vt.oid => nvt'[o] = nvt[o] /\ prefs'[o] = prefs[o],
             pc' \notin {"pref", "file"} => i' = 0
      PROVE  Feed' /\ Loader' /\ Passed'
  <2>1. Loading'
    BY <1>0 DEF Loading, Adding
  <2>2. \A f \in File : filename'[f] \in {filename[f], <<>>}
    BY <1>0
  <2> QED BY <1>0, <1>l, <2>1, <2>2, LoadingFrame, Zenon
<1>1. CASE pc = "nvt"
  <2> DEFINE e == [file |-> vt.file, ver |-> vt.ver]
  <2>1. /\ nvt' = [nvt EXCEPT ![vt.oid] = Times(@, 1, e)]
        /\ pc' = (IF vt.len > 0 THEN "prefs" ELSE "file") /\ UNCHANGED <<prefs, i>>
    BY <1>1 DEF redis_add_nvt, Push, Goto
  <2>2. e \in [file : File, ver : Nat] /\ nvt[vt.oid] = <<>>
    BY <1>0, <1>1, <1>f DEF Lists
  <2>3. Times(nvt[vt.oid], 1, e) = <<e>> /\ <<e>> \in Seq([file : File, ver : Nat])
    <3> DEFINE S == [file : File, ver : Nat]
    <3> HIDE DEF S, e
    <3>1. e \in S
      BY <2>2 DEF S
    <3>2. <<>> \in Seq(S)
      BY EmptyList
    <3>3. Times(<<>>, 1, e) = Append(<<>>, e)
      BY <3>1, <3>2, PushOnce, Zenon
    <3>4. Append(<<>>, e) = <<e>> /\ <<e>> \in Seq(S)
      BY <3>1
    <3> QED BY <2>2, <3>3, <3>4 DEF S
  <2> HIDE DEF e
  <2>4. nvt' = [nvt EXCEPT ![vt.oid] = <<e>>]
    BY <2>1, <2>3, Zenon
  <2>5. \A o \in Oid : nvt'[o] = IF o = vt.oid THEN <<e>> ELSE nvt[o]
    BY <1>0, <2>4 DEF Stored
  <2>6. Stored'
    <3>1. nvt' \in [Oid -> Seq([file : File, ver : Nat])]
      BY <1>0, <2>3, <2>4, ListReplaced, Zenon DEF Stored
    <3> QED BY <1>0, <2>1, <3>1, Zenon DEF Stored
  <2>7. prefs[vt.oid] = <<>> /\ (vt.len = 0 => prefs[vt.oid] = Listed(vt.ver, vt.len))
    BY <1>0, <1>f, <2>2, ListedSteps, Zenon DEF Lists
  <2>8. Lists'
    <3>1. <<e>> # <<>>
      OBVIOUS
    <3>2. (\A o \in Oid : nvt[o] = <<>> => prefs[o] = <<>>)'
      BY <1>0, <2>1, <2>5, <3>1 DEF Lists
    <3>3. nvt'[vt.oid] = <<e>> /\ pc' \in {"prefs", "file"}
      BY <1>f, <2>1, <2>5
    <3>4. pc' = "prefs" => vt.len > 0
      BY <2>1
    <3>5. pc' = "file" => prefs'[vt.oid] = Listed(vt.ver, vt.len)
      BY <1>f, <2>1, <2>7
    <3> QED BY <1>0, <3>2, <3>3, <3>4, <3>5 DEF Lists, e, Listed
  <2>9. i' = 0 /\ i' \in Nat
    BY <1>1, <1>f, <2>1
  <2> QED BY <1>t, <1>l, <2>1, <2>5, <2>6, <2>8, <2>9 DEF Inv
<1>2. CASE pc = "prefs"
  <2>1. /\ prefs' = [prefs EXCEPT ![vt.oid] = <<>>]
        /\ pc' = "pref" /\ UNCHANGED <<nvt, i>>
    BY <1>2 DEF redis_add_nvt, Del, Goto
  <2>2. \A o \in Oid : prefs'[o] = IF o = vt.oid THEN <<>> ELSE prefs[o]
    BY <1>0, <2>1 DEF Stored
  <2>3. Stored'
    <3>1. prefs' \in [Oid -> Seq(Nat \X Nat)]
      BY <1>0, <2>1, ListEmptied, Zenon DEF Stored
    <3> QED BY <1>0, <2>1, <3>1, Zenon DEF Stored
  <2>4. i' = 0 /\ i' \in Nat
    BY <1>2, <1>f, <2>1
  <2>5. Lists'
    <3>1. (\A o \in Oid : nvt[o] = <<>> => prefs[o] = <<>>)'
      BY <1>0, <2>1, <2>2 DEF Lists
    <3>2. nvt'[vt.oid] = <<[file |-> vt.file, ver |-> vt.ver]>> /\ 0 < vt.len
      BY <1>0, <1>2, <1>f, <2>1 DEF Lists
    <3>3. prefs'[vt.oid] = Listed(vt.ver, 0)
      BY <1>f, <2>2, ListedSteps, Zenon
    <3> QED BY <1>0, <2>1, <2>4, <3>1, <3>2, <3>3 DEF Lists, Listed
  <2> QED BY <1>t, <1>l, <2>1, <2>2, <2>3, <2>4, <2>5 DEF Inv
<1>3. CASE pc = "pref"
  <2>1. /\ prefs' = [prefs EXCEPT ![vt.oid] = Times(@, 1, <<vt.ver, i>>)]
        /\ i' = i + 1 /\ UNCHANGED nvt
        /\ pc' = IF i' < vt.len THEN "pref" ELSE "file"
    BY <1>0, <1>3 DEF redis_add_nvt, Push, Goto, MorePrefs
  <2>2. prefs[vt.oid] = Listed(vt.ver, i) /\ i < vt.len
    BY <1>0, <1>3 DEF Lists
  <2>3. /\ Times(prefs[vt.oid], 1, <<vt.ver, i>>) = Listed(vt.ver, i + 1)
        /\ Listed(vt.ver, i + 1) \in Seq(Nat \X Nat)
    <3>1. Listed(vt.ver, i) \in Seq(Nat \X Nat) /\ <<vt.ver, i>> \in Nat \X Nat
      BY <1>f, ListedSteps, Zenon
    <3>2. Times(prefs[vt.oid], 1, <<vt.ver, i>>) = Append(Listed(vt.ver, i), <<vt.ver, i>>)
      BY <2>2, <3>1, PushOnce, Zenon
    <3>3. Append(Listed(vt.ver, i), <<vt.ver, i>>) = Listed(vt.ver, i + 1)
      BY <1>f, ListedSteps, Zenon
    <3>5. i + 1 \in Nat
      BY <1>f
    <3>4. Listed(vt.ver, i + 1) \in Seq(Nat \X Nat)
      BY <1>f, <3>5, ListedSteps, Zenon
    <3> QED BY <3>2, <3>3, <3>4, Zenon
  <2>4. prefs' = [prefs EXCEPT ![vt.oid] = Listed(vt.ver, i + 1)]
    BY <2>1, <2>3, Zenon
  <2>5. \A o \in Oid : prefs'[o] = IF o = vt.oid THEN Listed(vt.ver, i + 1) ELSE prefs[o]
    BY <1>0, <2>4 DEF Stored
  <2>6. Stored'
    <3>1. prefs' \in [Oid -> Seq(Nat \X Nat)]
      BY <1>0, <2>3, <2>4, ListReplaced, Zenon DEF Stored
    <3> QED BY <1>0, <2>1, <3>1, Zenon DEF Stored
  <2>7. nvt[vt.oid] = <<[file |-> vt.file, ver |-> vt.ver]>>
    BY <1>0, <1>3 DEF Lists
  <2>8. Lists'
    <3>1. (\A o \in Oid : nvt[o] = <<>> => prefs[o] = <<>>)'
      BY <1>0, <2>1, <2>5, <2>7 DEF Lists
    <3>2. pc' = "file" => i + 1 = vt.len
      BY <1>f, <2>1, <2>2
    <3>3. pc' = "pref" => i' < vt.len
      BY <2>1
    <3>4. prefs'[vt.oid] = Listed(vt.ver, i')
      BY <1>f, <2>1, <2>5
    <3>5. pc' \in {"pref", "file"} /\ nvt'[vt.oid] = <<[file |-> vt.file, ver |-> vt.ver]>>
      BY <2>1, <2>7
    <3>6. pc' = "file" => prefs'[vt.oid] = Listed(vt.ver, vt.len)
      BY <2>1, <3>2, <3>4
    <3> QED BY <1>0, <3>1, <3>3, <3>4, <3>5, <3>6 DEF Lists, Listed
  <2>9. i' \in Nat /\ pc' \in {"pref", "file"}
    BY <1>f, <2>1
  <2> QED BY <1>t, <1>l, <2>1, <2>5, <2>6, <2>8, <2>9 DEF Inv
<1> QED BY <1>0, <1>1, <1>2, <1>3, SMTT(30)

\* The last command of redis_add_nvt is the time stamp: all else is there.
LEMMA StampInv ==
  ASSUME Inv, redis_add_nvt(1, TRUE), pc = "file",
         UNCHANGED <<now, disk, vers, whole>>, fails' = 0
  PROVE  Inv'
<1> DEFINE e == [time |-> now, oid |-> vt.oid]
           f == vt.file
<1>0. /\ Loading /\ Typed /\ Stored /\ Lists /\ UNCHANGED <<nvt, prefs, todo>>
      /\ filename' = [filename EXCEPT ![vt.file] = Times(@, 1, e)]
      /\ pc' = "next" /\ found' = NULL /\ i' = 0
  BY SMTT(30) DEF redis_add_nvt, Loading, Adding, Inv, Typed, Goto, Push
<1> HIDE DEF redis_add_nvt
<1>f. /\ vt.file \in File \ todo /\ OnDisk(vt.file) /\ ~nvticache_check(vt.file)
      /\ vt.oid = disk[vt.file].oid /\ vt.ver = disk[vt.file].ver
      /\ vt.len = disk[vt.file].len
      /\ vt.oid \in Oid /\ vt.ver \in Nat /\ vt.len \in Nat /\ ~whole
  BY <1>0, LoadingFacts
<1>1. e \in [time : Nat, oid : Oid] /\ e.time = now
  BY <1>0, <1>f DEF Typed
<1> HIDE DEF e
<1>2. /\ Times(filename[f], 1, e) = Append(filename[f], e)
      /\ Append(filename[f], e) \in Seq([time : Nat, oid : Oid])
      /\ Append(filename[f], e)[1] = IF filename[f] = <<>> THEN e ELSE filename[f][1]
  <2> DEFINE S == [time : Nat, oid : Oid]
  <2>1. filename[f] \in Seq(S) /\ e \in S
    BY <1>0, <1>1, <1>f, Zenon DEF Stored
  <2> HIDE DEF S, f
  <2>2. Times(filename[f], 1, e) = Append(filename[f], e)
    BY <2>1, PushOnce
  <2>3. Append(filename[f], e) \in Seq(S)
    BY <2>1
  <2>4. Append(filename[f], e)[1] = IF filename[f] = <<>> THEN e ELSE filename[f][1]
    <3>1. CASE filename[f] = <<>>
      BY <2>1, <3>1
    <3>2. CASE filename[f] # <<>>
      <4>1. Len(filename[f]) \in Nat /\ Len(filename[f]) # 0
        BY <2>1, <3>2, EmptyList
      <4> QED BY <2>1, <3>2, <4>1
    <3> QED BY <3>1, <3>2
  <2> QED BY <2>2, <2>3, <2>4 DEF S
<1>3. /\ filename'[f] = Append(filename[f], e)
      /\ \A g \in File : g # f => filename'[g] = filename[g]
  BY <1>0, <1>2, <1>f, Zenon DEF Stored
<1>4. Typed'
  <2>1. filename' \in [File -> Seq([time : Nat, oid : Oid])]
    <3> DEFINE S == [time : Nat, oid : Oid]
               s == Append(filename[f], e)
    <3>1. filename \in [File -> Seq(S)] /\ s \in Seq(S)
      BY <1>0, <1>2, Zenon DEF Stored
    <3>2. filename' = [filename EXCEPT ![f] = s]
      BY <1>0, <1>2, Zenon
    <3> HIDE DEF S, s, f
    <3>3. filename' \in [File -> Seq(S)]
      BY <3>1, <3>2, ListReplaced
    <3> QED BY <3>3, Zenon DEF S
  <2>2. Stored'
    BY <1>0, <2>1, ZenonT(40) DEF Stored
  <2> QED BY <1>0, <2>2 DEF Typed
<1>5. Current(f)
  BY <1>0, <1>f, ListedIsCurrent, SMTT(30) DEF Lists
<1>6. \A g \in File : Current(g)' <=> Current(g)
  BY <1>0 DEF Current, nvticache_get_nvt, nvticache_get_prefs
<1>7. Feed'
  <2>1. ASSUME NEW g \in File, filename'[g] # <<>>
        PROVE  filename'[g][1].time <= now
    <3>1. CASE g # f
      BY <1>3, <2>1, <3>1 DEF Inv, Feed
    <3>2. CASE g = f /\ filename[f] = <<>>
      BY <1>0, <1>1, <1>2, <1>3, <3>2 DEF Typed
    <3>3. CASE g = f /\ filename[f] # <<>>
      <4>1. filename'[g][1] = filename[f][1]
        BY <1>2, <1>3, <3>3, Zenon
      <4> QED BY <1>f, <3>3, <4>1, Zenon DEF Inv, Feed
    <3> QED BY <3>1, <3>2, <3>3
  <2> QED BY <2>1 DEF Inv, Feed, OnDisk
<1>8. Loader'
  BY <1>0, SMTT(30) DEF Inv, Loader, Loading, Deleting, Adding, OnDisk
<1>9. Lists'
  BY <1>0 DEF Lists
<1>10. Passed'
  <2>1. ASSUME NEW g \in File, nvticache_check(g)'
        PROVE  Current(g)'
    <3>1. CASE g = f
      BY <1>5, <1>6, <3>1
    <3>2. CASE g # f
      <4>1. nvticache_check(g)
        BY <1>3, <2>1, <3>2, CheckKept
      <4> QED BY <1>6, <4>1 DEF Inv, Passed
    <3> QED BY <3>1, <3>2
  <2>2. ASSUME NEW g \in File \ todo, OnDisk(g)
        PROVE  Current(g)'
    <3>1. CASE g = f
      BY <1>5, <1>6, <3>1
    <3>2. CASE g # f
      BY <1>0, <1>6, <2>2, <3>2 DEF Inv, Passed
    <3> QED BY <3>1, <3>2
  <2>3. (\A g \in File \ todo : OnDisk(g) => Current(g))'
    BY <1>0, <2>2 DEF OnDisk
  <2> QED BY <1>0, <1>f, <2>1, <2>3, Zenon DEF Passed, Loading, Deleting, Adding
<1> QED BY <1>4, <1>7, <1>8, <1>9, <1>10 DEF Inv

\* The feed version is saved after the pass.
LEMMA SaveInv ==
  ASSUME Inv, nvticache_save(1, TRUE),
         UNCHANGED <<now, disk, vers, whole>>, fails' = 0
  PROVE  Inv'
<1>1. pc = "save" /\ pc' = "idle" /\ UNCHANGED <<nvt, prefs, filename, vt, found, i, todo>>
  BY DEF nvticache_save, Goto, kb
<1> HIDE DEF nvticache_save
<1>2. Typed'
  BY <1>1, SameStored DEF Inv, Typed
<1>3. Feed'
  BY <1>1, SMTT(30) DEF Inv, Feed, OnDisk
<1>4. Loader'
  BY <1>1, SMTT(30) DEF Inv, Loader, Loading, Deleting, Adding, OnDisk
<1>5. Lists'
  BY <1>1 DEF Inv, Lists
<1>6. Passed'
  <2>1. \A f \in File : /\ nvticache_check(f)' <=> nvticache_check(f)
                        /\ Current(f)' <=> Current(f)
                        /\ OnDisk(f)' <=> OnDisk(f)
    BY <1>1, SameCache
  <2> QED BY <1>1, <2>1 DEF Inv, Passed, Loading, Deleting, Adding
<1> QED BY <1>2, <1>3, <1>4, <1>5, <1>6 DEF Inv

\* Every step preserves the invariant.
LEMMA InvNext ==
  ASSUME ~Duplicates, MaxFails = 0, Inv, [Next]_vars
  PROVE  Inv'
<1>1. CASE Step
  <2>1. PICK o \in Outcomes :
          /\ \/ \E f \in File : LookAt(f, o[1], o[2]) /\ UNCHANGED version
             \/ nvticache_add(o[1], o[2]) /\ UNCHANGED version
             \/ nvticache_delete(o[1], o[2]) /\ UNCHANGED version
             \/ redis_add_nvt(o[1], o[2]) /\ UNCHANGED version
             \/ nvticache_save(o[1], o[2])
          /\ Command(o)
          /\ UNCHANGED <<now, disk_vars, whole, crashes>>
    BY <1>1 DEF Step
  <2>2. o[1] = 1 /\ o[2] = TRUE /\ fails' = 0
    BY <2>1, OneOutcome, Zenon DEF Inv
  <2>3. UNCHANGED <<now, disk, vers, whole>>
    BY <2>1 DEF disk_vars
  <2>4. ASSUME NEW f \in File, LookAt(f, 1, TRUE) PROVE Inv'
    BY <2>2, <2>3, <2>4, LookAtInv, Zenon
  <2>5. CASE nvticache_add(1, TRUE) \/ nvticache_delete(1, TRUE)
    BY <2>2, <2>3, <2>5, DeletingInv, Zenon
  <2>6. CASE redis_add_nvt(1, TRUE)
    BY <2>2, <2>3, <2>6, AddingInv, StampInv
  <2>7. CASE nvticache_save(1, TRUE)
    BY <2>2, <2>3, <2>7, SaveInv
  <2>8. \/ \E f \in File : LookAt(f, 1, TRUE)
        \/ nvticache_add(1, TRUE) \/ nvticache_delete(1, TRUE)
        \/ redis_add_nvt(1, TRUE) \/ nvticache_save(1, TRUE)
    BY <2>1, <2>2, Zenon
  <2> QED BY <2>4, <2>5, <2>6, <2>7, <2>8, Zenon
<1>2. CASE UNCHANGED vars
  <2>1. UNCHANGED <<now, disk, vers, nvt, prefs, filename, pc, vt, found, i, todo, whole, fails>>
    BY <1>2 DEF vars, disk_vars, kb, loader, bounds
  <2>2. \A f \in File : /\ nvticache_check(f)' <=> nvticache_check(f)
                        /\ Current(f)' <=> Current(f)
                        /\ OnDisk(f)' <=> OnDisk(f)
    BY <2>1, SameCache
  <2>3. Typed'
    BY <2>1, SameStored, SMTT(30) DEF Inv, Typed
  <2>4. Feed' /\ Lists'
    BY <2>1, SMTT(30) DEF Inv, Feed, OnDisk, Lists
  <2>5. Loader'
    BY <2>1 DEF Inv, Loader, Loading, OnDisk, nvticache_check, Newer
  <2>6. Passed'
    BY <2>1, <2>2 DEF Inv, Passed, Loading
  <2> QED BY <2>3, <2>4, <2>5, <2>6 DEF Inv
<1> QED BY <1>1, <1>2, TickInv, ChangeFileInv, PassInv DEF Next

\* nvticache_check can be trusted after any number of passes that died: a file it
\* takes for up to date is in the cache as it is on disk.
THEOREM CheckIsRight ==
  ASSUME ~Duplicates, MaxFails = 0
  PROVE  Spec => []CheckedIsCurrent
<1>1. Inv => CheckedIsCurrent
  BY DEF Inv, Passed, CheckedIsCurrent
<1>2. Inv /\ [Next]_vars => Inv'
  BY InvNext
<1> QED BY InvInit, <1>1, <1>2, PTL DEF Spec

\* A pass that reaches its end has repaired what passes that died, files that
\* moved and OIDs that changed their file left behind.
THEOREM PassIsComplete ==
  ASSUME ~Duplicates, MaxFails = 0
  PROVE  Spec => []PassRepairs
<1>1. Inv => PassRepairs
  BY DEF Inv, Passed, PassRepairs, OnDisk
<1>2. Inv /\ [Next]_vars => Inv'
  BY InvNext
<1> QED BY InvInit, <1>1, <1>2, PTL DEF Spec
================================================================================
