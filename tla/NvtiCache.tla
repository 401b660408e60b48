------------------------------ MODULE NvtiCache ------------------------------
(***************************************************************************)
(* The NVTI cache (util/nvticache.c) as the loader of the VT files uses    *)
(* it: nvticache_check decides from time stamps whether a file has to be   *)
(* loaded, and nvticache_add replaces what the cache has by a sequence of  *)
(* Redis commands on three lists per VT: nvt:OID, oid:OID:prefs and        *)
(* filename:FILE.  The loader can die between any two commands, and a      *)
(* command can fail or, by the retry of redis_cmd, be executed twice.      *)
(***************************************************************************)
EXTENDS Integers, Sequences

CONSTANTS File,       \* names of VT files
          Oid,        \* OIDs of VTs
          NULL,       \* no name
          PrefLens,   \* numbers of preferences a VT may have
          Duplicates, \* whether the feed may have an OID in two files
          MaxTime,    \* bound: the clock, in seconds
          MaxVer,     \* bound: number of changes to the files
          MaxCrashes, \* bound: deaths of the loader
          MaxFails    \* bound: commands that do not go through as they should

ASSUME PrefLensAssumption == PrefLens \subseteq Nat
ASSUME DuplicatesAssumption == Duplicates \in BOOLEAN
ASSUME BoundsAssumption ==
  /\ MaxTime \in Nat /\ MaxVer \in Nat
  /\ MaxCrashes \in Nat /\ MaxFails \in Nat

ASSUME NULLAssumption == NULL \notin File \union Oid

VARIABLES
  now,      \* time(NULL)
  disk,     \* what is in the feed directory under each name
  vers,     \* number of changes to the files so far: the feed version
  nvt,      \* nvt:OID; one element for the 14 fields of a VT
  prefs,    \* oid:OID:prefs
  filename, \* filename:FILE; one element for a time stamp and an OID
  version,  \* the feed version in the cache, 0 after nvticache_init
  pc,       \* next command of the loader
  vt,       \* the VT it adds: file name, OID, version, number of preferences
  found,    \* the file name it got from the cache, NULL if none
  i,        \* number of preferences it has written
  todo,     \* files it has not looked at in this pass
  whole,    \* history: the last pass reached its end
  crashes, fails

disk_vars == <<disk, vers>>
kb == <<nvt, prefs, filename>>
loader == <<pc, vt, found, i, todo>>
bounds == <<crashes, fails>>
vars == <<now, disk_vars, kb, version, loader, whole, bounds>>

NoFile == [oid |-> NULL, ver |-> 0, len |-> 0, mtime |-> 0]
NoVt == [file |-> NULL, oid |-> NULL, ver |-> 0, len |-> 0]

Init ==
  /\ now = 1
  /\ disk = [f \in File |-> NoFile]
  /\ vers = 0
  /\ nvt = [o \in Oid |-> <<>>]
  /\ prefs = [o \in Oid |-> <<>>]
  /\ filename = [f \in File |-> <<>>]
  /\ version = 0
  /\ pc = "idle"
  /\ vt = NoVt
  /\ found = NULL
  /\ i = 0
  /\ todo = {}
  /\ whole = FALSE
  /\ crashes = 0
  /\ fails = 0

-----------------------------------------------------------------------------
(* Reading the cache.  The lists are read from their first element.        *)

nvticache_get_filename(o) == IF nvt[o] = <<>> THEN NULL ELSE nvt[o][1].file

nvticache_get_oid(f) == IF filename[f] = <<>> THEN NULL ELSE filename[f][1].oid

\* The version whose 14 fields nvticache_get_nvt returns; 0 if there is none.
nvticache_get_nvt(o) == IF nvt[o] = <<>> THEN 0 ELSE nvt[o][1].ver

\* kb_item_get_all turns the list round.
nvticache_get_prefs(o) ==
  [k \in 1 .. Len(prefs[o]) |-> prefs[o][(Len(prefs[o]) - k) + 1]]

Newer(time, mtime) == time > mtime

nvticache_check(f) ==
  /\ filename[f] # <<>>
  /\ disk[f] # NoFile
  /\ Newer(filename[f][1].time, disk[f].mtime)

\* Whether the feed has another version than the cache.
nvticache_check_feed == version # vers

-----------------------------------------------------------------------------
(* The surroundings: the clock, the feed and the loader's order of calls.  *)

Tick ==
  /\ now < MaxTime
  /\ now' = now + 1
  /\ UNCHANGED <<disk_vars, kb, version, loader, whole, bounds>>

\* The feed is not changed while it is being loaded.
ChangeFile(f) ==
  /\ pc = "idle"
  /\ vers < MaxVer
  /\ vers' = vers + 1
  /\ \/ \E o \in Oid, n \in PrefLens :
          /\ Duplicates \/ \A g \in File \ {f} : disk[g].oid # o
          /\ disk' = [disk EXCEPT ![f] = [oid |-> o, ver |-> vers', len |-> n,
                                          mtime |-> now]]
     \/ disk[f] # NoFile /\ disk' = [disk EXCEPT ![f] = NoFile]
  /\ whole' = FALSE
  /\ UNCHANGED <<now, kb, version, loader, bounds>>

StartPass ==
  /\ pc = "idle"
  /\ pc' = "next"
  /\ todo' = {f \in File : disk[f] # NoFile}
  /\ whole' = FALSE
  /\ UNCHANGED <<now, disk_vars, kb, version, vt, found, i, bounds>>

EndPass ==
  /\ pc = "next"
  /\ todo = {}
  /\ pc' = "save"
  /\ whole' = TRUE
  /\ UNCHANGED <<now, disk_vars, kb, version, vt, found, i, todo, bounds>>

Crash ==
  /\ pc # "idle"
  /\ crashes < MaxCrashes
  /\ crashes' = crashes + 1
  /\ pc' = "idle"
  /\ vt' = NoVt
  /\ found' = NULL
  /\ i' = 0
  /\ todo' = {}
  /\ whole' = FALSE
  /\ UNCHANGED <<now, disk_vars, kb, version, fails>>

-----------------------------------------------------------------------------
(* nvticache_add, nvticache_delete and redis_add_nvt, a step per command.  *)

\* How often redis_cmd lets the server execute a command, and whether it has
\* a reply: two attempts, of which each may break before or after execution.
Outcomes == {<<1, TRUE>>, <<2, TRUE>>, <<0, FALSE>>, <<1, FALSE>>, <<2, FALSE>>}

Command(o) ==
  /\ fails' = IF o = <<1, TRUE>> THEN fails ELSE fails + 1
  /\ fails' <= MaxFails

Goto(l) == pc' = l

Times(s, n, e) == s \o [k \in 1 .. n |-> e]

\* A file that nvticache_check does not find up to date, or cannot ask for, is
\* parsed and added.
LookAt(f, n, ok) ==
  /\ pc = "next"
  /\ f \in todo
  /\ todo' = todo \ {f}
  /\ IF ok /\ nvticache_check(f)
     THEN UNCHANGED <<pc, vt>>
     ELSE /\ Goto("add")
          /\ vt' = [file |-> f, oid |-> disk[f].oid, ver |-> disk[f].ver,
                    len |-> disk[f].len]
  /\ UNCHANGED <<kb, found, i>>

\* kb_nvt_get of the file name.
GetFilename(n, ok) == found' = IF ok THEN nvticache_get_filename(vt.oid) ELSE NULL

Del(f, x, n) == IF n = 0 THEN f ELSE [f EXCEPT ![x] = <<>>]

Push(f, x, n, e) == [f EXCEPT ![x] = Times(@, n, e)]

\* The old entry stays, and the new one is put behind it.
Mutant_AfterLookup == "nvt"

AfterLookup == IF found' # NULL THEN "delete" ELSE "nvt"

nvticache_add(n, ok) ==
  /\ pc = "add"
  /\ GetFilename(n, ok)
  /\ Goto(AfterLookup)
  /\ UNCHANGED <<kb, vt, i, todo>>

\* The preferences of the replaced VT stay.
Mutant_DeletePrefs(n) == prefs

DeletePrefs(n) == Del(prefs, vt.oid, n)

nvticache_delete(n, ok) ==
  \/ /\ pc = "delete"
     /\ GetFilename(n, ok)
     /\ Goto("del_prefs")
     /\ UNCHANGED <<kb, vt, i, todo>>
  \/ /\ pc = "del_prefs"
     /\ prefs' = DeletePrefs(n)
     /\ Goto("del_nvt")
     /\ UNCHANGED <<nvt, filename, vt, found, i, todo>>
  \/ /\ pc = "del_nvt"
     /\ nvt' = Del(nvt, vt.oid, n)
     /\ Goto(IF found # NULL THEN "del_file" ELSE "nvt")
     /\ UNCHANGED <<prefs, filename, vt, found, i, todo>>
  \/ /\ pc = "del_file"
     /\ filename' = Del(filename, found, n)
     /\ Goto("nvt")
     /\ UNCHANGED <<nvt, prefs, vt, found, i, todo>>

MorePrefs == i' < vt.len

redis_add_nvt(n, ok) ==
  \/ /\ pc = "nvt"
     /\ nvt' = Push(nvt, vt.oid, n, [file |-> vt.file, ver |-> vt.ver])
     /\ Goto(IF vt.len > 0 THEN "prefs" ELSE "file")
     /\ UNCHANGED <<prefs, filename, vt, found, i, todo>>
  \/ /\ pc = "prefs"
     /\ prefs' = Del(prefs, vt.oid, n)
     /\ Goto("pref")
     /\ UNCHANGED <<nvt, filename, vt, found, i, todo>>
  \/ /\ pc = "pref"
     /\ prefs' = Push(prefs, vt.oid, n, <<vt.ver, i>>)
     /\ i' = i + 1
     /\ Goto(IF MorePrefs THEN "pref" ELSE "file")
     /\ UNCHANGED <<nvt, filename, vt, found, todo>>
  \/ /\ pc = "file"
     /\ filename' = Push(filename, vt.file, n, [time |-> now, oid |-> vt.oid])
     /\ Goto("next")
     /\ vt' = NoVt
     /\ found' = NULL
     /\ i' = 0
     /\ UNCHANGED <<nvt, prefs, todo>>

\* Called at the end of a pass.  A read of the old version that fails makes no
\* difference.
nvticache_save(n, ok) ==
  /\ pc = "save"
  /\ version' = IF n = 0 THEN version ELSE vers
  /\ Goto("idle")
  /\ UNCHANGED <<kb, vt, found, i, todo>>

Step ==
  \E o \in Outcomes :
    /\ \/ \E f \in File : LookAt(f, o[1], o[2]) /\ UNCHANGED version
       \/ nvticache_add(o[1], o[2]) /\ UNCHANGED version
       \/ nvticache_delete(o[1], o[2]) /\ UNCHANGED version
       \/ redis_add_nvt(o[1], o[2]) /\ UNCHANGED version
       \/ nvticache_save(o[1], o[2])
    /\ Command(o)
    /\ UNCHANGED <<now, disk_vars, whole, crashes>>

Next ==
  \/ Tick
  \/ \E f \in File : ChangeFile(f)
  \/ StartPass \/ EndPass
  \/ Crash
  \/ Step

Spec == Init /\ [][Next]_vars

-----------------------------------------------------------------------------
(* Properties.                                                             *)

\* The VT that is in file f, as it should be in the cache: its fields, and its
\* preferences, which come back in the opposite order.
Current(f) ==
  /\ nvticache_get_nvt(disk[f].oid) = disk[f].ver
  /\ nvticache_get_prefs(disk[f].oid) =
       [k \in 1 .. disk[f].len |-> <<disk[f].ver, disk[f].len - k>>]

\* nvticache_check returns "1 if nvt is in cache and up to date": what it reads
\* are the time stamps of the file and of filename:FILE, which is the last list
\* nvticache_add writes, so that a loader that dies leaves no file that seems to
\* be loaded.
CheckedIsCurrent ==
  pc = "idle" => \A f \in File : nvticache_check(f) => Current(f)

\* A pass over the feed that reaches its end repairs whatever was left by passes
\* that died, by files that moved and by OIDs that changed their file.
PassRepairs ==
  whole => \A f \in File : disk[f] # NoFile => Current(f)

=============================================================================
