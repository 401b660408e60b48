------------------------------- MODULE KbSlots -------------------------------
(***************************************************************************)
(* The knowledge bases of util/kb.c: every knowledge base (KB) is one      *)
(* database of a Redis server, a slot.  Processes claim slots through a    *)
(* hash in database 0, find or join slots of others, give them back, and   *)
(* lose their connection between any two commands.  One step of a process  *)
(* is one command to Redis.                                                *)
(*                                                                         *)
(* The hash only says that a slot is taken.  Who took it, and for which KB *)
(* an entry was written, is history that the properties need: index,       *)
(* content and kb_of carry it, and no guard of the code reads it.          *)
(***************************************************************************)
EXTENDS Integers, FiniteSets

CONSTANTS Proc,    \* the processes, one KB handle each
          MaxDb,   \* "databases" of the Redis configuration
          Faults   \* what may happen: "crash", "lost"

ASSUME ProcAssumption == Proc \cap {"free", "orphan"} = {}
ASSUME MaxDbAssumption == MaxDb \in Nat \ {0}
ASSUME FaultsAssumption == Faults \subseteq {"crash", "lost"}

VARIABLES
  index,    \* GVM.__GlobalDBIndex: "free", or the process that took the slot
  content,  \* per slot, the entries <<KB they belong to, key>>
  pc,       \* what the process is doing
  call,     \* where it is inside redis_cmd or get_redis_ctx
  attempt,  \* 1 or 2: redis_cmd tries again once
  next,     \* i, the loop variable of select_database, redis_find and flush
  db,       \* kbr->db
  max_db,   \* kbr->max_db
  conn,     \* kbr->rctx: None, Broken or the selected database
  kb_of,    \* history: the KB the handle was made for
  init,     \* inside nvticache_init
  doomed,   \* redis_new has set kbr to NULL
  flaky     \* the connection may break in this redis_flush_all

vars == <<index, content, pc, call, attempt, next, db, max_db, conn, kb_of,
          init, doomed, flaky>>

serverVars == <<index, content>>
controlVars == <<pc, call, attempt>>
modeVars == <<kb_of, init, doomed, flaky>>
dataVars == <<serverVars, next, db, max_db, conn, modeVars>>

Slots == 1 .. MaxDb - 1
None == -1
Broken == -2
Keys == {"item", "mark"}
Labels == Proc \union {"orphan"}

Calls == {"no", "ctx", "claim", "select", "exec", "ok", "nil", "null"}
NewPcs == {"new_ctx", "new_ping", "new_clean", "new_purge"}
DelPcs == {"del_flush", "del_select", "del_hdel"}
FindPcs == {"find_probe", "find_select", "find_get"}
FlushPcs == {"flush_probe", "flush_select", "flush_get", "flush_del",
             "flush_sel0", "flush_hdel"}
Pcs == {"none", "ready", "died", "write", "mark"}
         \union NewPcs \union DelPcs \union FindPcs \union FlushPcs

Marked(d) == \E l \in Labels : <<l, "mark">> \in content[d]

Init ==
  /\ index = [d \in Slots |-> "free"]
  /\ content = [d \in Slots |-> {}]
  /\ pc = [p \in Proc |-> "none"]
  /\ call = [p \in Proc |-> "no"]
  /\ attempt = [p \in Proc |-> 1]
  /\ next = [p \in Proc |-> 1]
  /\ db = [p \in Proc |-> 0]
  /\ max_db = [p \in Proc |-> 0]
  /\ conn = [p \in Proc |-> None]
  /\ kb_of = [p \in Proc |-> p]
  /\ init = [p \in Proc |-> FALSE]
  /\ doomed = [p \in Proc |-> FALSE]
  /\ flaky = [p \in Proc |-> FALSE]

----------------------------------------------------------------------------
(* The connection, and get_redis_ctx and redis_cmd on top of it.           *)

\* The connection of a process may break at any command.  Whether it does so in
\* a redis_flush_all is chosen when that starts, for the properties to tell.
Lossy(p) == "lost" \in Faults /\ (pc[p] \in FlushPcs => flaky[p])

\* redis_cmd uses the connection there is, or makes one.
CallCmd(p, at) ==
  /\ pc' = [pc EXCEPT ![p] = at]
  /\ call' = [call EXCEPT ![p] = IF conn[p] = None THEN "ctx" ELSE "exec"]
  /\ attempt' = [attempt EXCEPT ![p] = 1]

\* The answer has been looked at; the next thing to do is no redis_cmd.
Goto(p, at) ==
  /\ pc' = [pc EXCEPT ![p] = at]
  /\ call' = [call EXCEPT ![p] = "no"]
  /\ attempt' = [attempt EXCEPT ![p] = 1]

\* get_redis_ctx connects; a handle without a database looks for one.
Connect(p) ==
  /\ call[p] = "ctx"
  /\ \/ /\ conn' = [conn EXCEPT ![p] = 0]
        /\ call' = [call EXCEPT ![p] = IF db[p] = 0 THEN "claim" ELSE "select"]
     \/ /\ Lossy(p)
        /\ call' = [call EXCEPT ![p] = "null"]
        /\ UNCHANGED conn
  /\ next' = [next EXCEPT ![p] = IF db[p] = 0 THEN 1 ELSE @]
  /\ UNCHANGED <<pc, attempt, db, max_db, modeVars, serverVars>>

\* HSET, which takes the slot whoever has it.
Mutant_try_database_index(p, i) ==
  /\ index' = [index EXCEPT ![i] = p]
  /\ db' = [db EXCEPT ![p] = i]

\* HSETNX gives the slot to the first who asks.
try_database_index(p, i) ==
  IF index[i] = "free"
  THEN /\ index' = [index EXCEPT ![i] = p]
       /\ db' = [db EXCEPT ![p] = i]
  ELSE UNCHANGED <<index, db>>

\* One turn of the loop in select_database.  When the connection breaks, every
\* later command of the loop fails as well, and a slot that the server has
\* already reserved is nobody's.
Claim(p) ==
  /\ call[p] = "claim"
  /\ \/ /\ max_db' = [max_db EXCEPT ![p] = MaxDb]
        /\ next[p] < MaxDb
        /\ try_database_index(p, next[p])
        /\ call' = [call EXCEPT ![p] =
                      IF index[next[p]] = "free" THEN "select" ELSE "claim"]
        /\ next' = [next EXCEPT ![p] =
                      IF index[next[p]] = "free" THEN 1 ELSE @ + 1]
        /\ UNCHANGED conn
     \/ /\ max_db' = [max_db EXCEPT ![p] = MaxDb]
        /\ next[p] >= MaxDb
        /\ call' = [call EXCEPT ![p] = "null"]
        /\ conn' = [conn EXCEPT ![p] = None]
        /\ UNCHANGED <<index, db, next>>
     \/ /\ Lossy(p)
        /\ max_db' \in {max_db, [max_db EXCEPT ![p] = MaxDb]}
        /\ \/ UNCHANGED index
           \/ /\ next[p] < MaxDb
              /\ index[next[p]] = "free"
              /\ index' = [index EXCEPT ![next[p]] = "orphan"]
        /\ call' = [call EXCEPT ![p] = "null"]
        /\ conn' = [conn EXCEPT ![p] = None]
        /\ UNCHANGED <<db, next>>
  /\ UNCHANGED <<content, pc, attempt, modeVars>>

\* The end of select_database: the connection is switched to the slot.
Select(p) ==
  /\ call[p] = "select"
  /\ \/ /\ conn' = [conn EXCEPT ![p] = db[p]]
        /\ call' = [call EXCEPT ![p] =
                      IF pc[p] = "new_ctx" THEN "ok" ELSE "exec"]
     \/ /\ Lossy(p)
        /\ conn' = [conn EXCEPT ![p] = None]
        /\ call' = [call EXCEPT ![p] = "null"]
  /\ UNCHANGED <<pc, attempt, next, db, max_db, modeVars, serverVars>>

\* What the command at each place does to the selected database.
Effect(p) ==
  LET d == conn[p]
  IN  CASE pc[p] \in {"new_clean", "del_flush", "flush_del"} ->     \* FLUSHDB
             content' = [content EXCEPT ![d] = {}]
        [] pc[p] = "write" ->                                       \* RPUSH
             content' = [content EXCEPT ![d] =
                           @ \union {<<kb_of[p], "item">>}]
        [] OTHER -> UNCHANGED content              \* PING, MEMORY PURGE, LINDEX

Answer(p) ==
  IF pc[p] \in {"find_get", "flush_get"} /\ ~Marked(conn[p])
  THEN "nil"
  ELSE "ok"

\* redis_cmd retries a command that broke the connection once.
Retry(p) == attempt[p] = 1

\* The command of redis_cmd.  A connection that breaks may do so before or
\* after the server has executed it.
Exec(p) ==
  /\ call[p] = "exec"
  /\ pc[p] # "mark"
  /\ \/ /\ conn[p] # Broken
        /\ Effect(p)
        /\ call' = [call EXCEPT ![p] = Answer(p)]
        /\ UNCHANGED <<attempt, conn>>
     \/ /\ conn[p] = Broken \/ Lossy(p)
        /\ \/ UNCHANGED content
           \/ conn[p] # Broken /\ Effect(p)
        /\ conn' = [conn EXCEPT ![p] = None]
        /\ attempt' = [attempt EXCEPT ![p] = IF Retry(p) THEN @ + 1 ELSE @]
        /\ call' = [call EXCEPT ![p] = IF Retry(p) THEN "ctx" ELSE "null"]
  /\ UNCHANGED <<index, pc, next, db, max_db, modeVars>>

redis_cmd(p) == Connect(p) \/ Claim(p) \/ Select(p) \/ Exec(p)

\* The answer of redis_cmd is there.
Answered(p) == call[p] \in {"ok", "nil", "null"}

----------------------------------------------------------------------------
(* Handles go away.                                                        *)

\* History: what belonged to the KB of p belongs to nobody now.
Orphaned(l, p) == IF l = p THEN "orphan" ELSE l

Disown(idx, p) ==
  /\ index' = [d \in Slots |-> Orphaned(idx[d], p)]
  /\ content' = [d \in Slots |->
                   {<<Orphaned(e[1], p), e[2]>> : e \in content[d]}]
  /\ kb_of' = [q \in Proc |-> IF q = p THEN p ELSE Orphaned(kb_of[q], p)]

\* The handle is freed; idx is the index the last command leaves behind.
Free(p, idx, at) ==
  /\ Disown(idx, p)
  /\ Goto(p, at)
  /\ next' = [next EXCEPT ![p] = 1]
  /\ db' = [db EXCEPT ![p] = 0]
  /\ max_db' = [max_db EXCEPT ![p] = 0]
  /\ conn' = [conn EXCEPT ![p] = None]
  /\ init' = [init EXCEPT ![p] = FALSE]
  /\ doomed' = [doomed EXCEPT ![p] = FALSE]
  /\ flaky' = [flaky EXCEPT ![p] = FALSE]

\* After redis_delete: redis_new returns its error, or goes on with the NULL
\* pointer and the process dies.
AfterDelete(p) == IF doomed[p] THEN "died" ELSE "none"

Crash(p) ==
  /\ "crash" \in Faults
  /\ pc[p] \notin {"none", "died"}
  /\ Free(p, index, "died")

\* Another process takes the place of the dead one.
Restart(p) ==
  /\ pc[p] = "died"
  /\ Goto(p, "none")
  /\ UNCHANGED dataVars

----------------------------------------------------------------------------
(* Making, joining and deleting a KB.                                      *)

\* openvas flushes the server at start-up, before it makes a KB.
NoFlush == \A q \in Proc : pc[q] \notin FlushPcs

\* A fresh handle starts with get_redis_ctx.
StartNew(p) ==
  /\ pc' = [pc EXCEPT ![p] = "new_ctx"]
  /\ call' = [call EXCEPT ![p] = "ctx"]
  /\ attempt' = [attempt EXCEPT ![p] = 1]

redis_new(p) ==
  /\ pc[p] = "none"
  /\ NoFlush
  /\ StartNew(p)
  /\ UNCHANGED dataVars

\* The steps of redis_new: a failing get_redis_ctx or PING deletes the handle,
\* the results of FLUSHDB and MEMORY PURGE are not looked at.
NewStep(p) ==
  /\ Answered(p)
  /\ \/ /\ pc[p] = "new_ctx"
        /\ CallCmd(p, IF call[p] = "null" THEN "del_flush" ELSE "new_ping")
        /\ UNCHANGED doomed
     \/ /\ pc[p] = "new_ping"
        /\ CallCmd(p, IF call[p] = "null" THEN "del_flush" ELSE "new_clean")
        /\ doomed' = [doomed EXCEPT ![p] = call[p] = "null"]
     \/ /\ pc[p] = "new_clean"
        /\ CallCmd(p, "new_purge")
        /\ UNCHANGED doomed
     \/ /\ pc[p] = "new_purge"
        /\ IF init[p] THEN CallCmd(p, "mark") ELSE Goto(p, "ready")
        /\ UNCHANGED doomed
  /\ UNCHANGED <<next, db, max_db, conn, kb_of, init, flaky, serverVars>>

\* kb_item_set_str of the marker at the end of nvticache_init: MULTI, DEL, RPUSH
\* and EXEC, without redis_cmd and so without a new connection when it breaks.
SetMark(p) ==
  /\ pc[p] = "mark"
  /\ call[p] = "exec"
  /\ LET set == content' = [content EXCEPT ![conn[p]] =
                              @ \union {<<kb_of[p], "mark">>}]
     IN  \/ set /\ UNCHANGED conn
         \/ /\ Lossy(p)
            /\ set \/ UNCHANGED content
            /\ conn' = [conn EXCEPT ![p] = Broken]
  /\ Goto(p, "ready")
  /\ init' = [init EXCEPT ![p] = FALSE]
  /\ UNCHANGED <<index, next, db, max_db, kb_of, doomed, flaky>>

\* get_redis_ctx failed inside kb_item_set_str: nvticache_init returns -1.
NoMark(p) ==
  /\ pc[p] = "mark"
  /\ Answered(p)
  /\ Goto(p, "ready")
  /\ init' = [init EXCEPT ![p] = FALSE]
  /\ UNCHANGED <<next, db, max_db, conn, kb_of, doomed, flaky, serverVars>>

\* One entry of a KB written with redis_cmd.
redis_add_str(p) ==
  /\ pc[p] = "ready"
  /\ CallCmd(p, "write")
  /\ UNCHANGED dataVars

AddStrEnd(p) ==
  /\ pc[p] = "write"
  /\ Answered(p)
  /\ Goto(p, "ready")
  /\ UNCHANGED dataVars

redis_lnk_reset(p) ==
  /\ pc[p] = "ready"
  /\ conn[p] # None
  /\ conn' = [conn EXCEPT ![p] = None]
  /\ UNCHANGED <<next, db, max_db, modeVars, controlVars, serverVars>>

\* The index of a KB is handed to a process of the same scan.
redis_direct_conn(p, q) ==
  /\ pc[p] = "none"
  /\ NoFlush
  /\ pc[q] = "ready"
  /\ kb_of[q] = q
  /\ pc' = [pc EXCEPT ![p] = "ready"]
  /\ db' = [db EXCEPT ![p] = db[q]]
  /\ conn' = [conn EXCEPT ![p] = db[q]]
  /\ kb_of' = [kb_of EXCEPT ![p] = q]
  /\ UNCHANGED <<call, attempt, next, max_db, init, doomed, flaky, serverVars>>

\* A process that joined a KB ends.
Leave(p) ==
  /\ pc[p] = "ready"
  /\ kb_of[p] # p
  /\ Free(p, index, "none")

\* openvas deletes the KB of a scan after the processes that use it.
redis_delete(p) ==
  /\ pc[p] = "ready"
  /\ kb_of[p] = p
  /\ ~Marked(db[p])
  /\ \A q \in Proc \ {p} : kb_of[q] # p
  /\ CallCmd(p, "del_flush")
  /\ UNCHANGED dataVars

\* A release with a connection of its own would free slots that still hold
\* data.
Mutant_CanRelease(p) == TRUE

\* redis_release_db needs the connection of the FLUSHDB before it.
CanRelease(p) == conn[p] # None

\* redis_delete after its FLUSHDB: SELECT 0, HDEL, and the handle is freed.
DeleteStep(p) ==
  \/ /\ pc[p] = "del_flush"
     /\ Answered(p)
     /\ CanRelease(p)
     /\ Goto(p, "del_select")
     /\ UNCHANGED dataVars
  \/ /\ pc[p] = "del_flush"
     /\ Answered(p)
     /\ ~CanRelease(p)
     /\ Free(p, index, AfterDelete(p))
  \/ /\ pc[p] = "del_select"
     /\ conn' = [conn EXCEPT ![p] = 0]
     /\ Goto(p, "del_hdel")
     /\ UNCHANGED <<next, db, max_db, modeVars, serverVars>>
  \/ /\ pc[p] = "del_hdel"
     /\ Free(p, [index EXCEPT ![db[p]] = "free"], AfterDelete(p))
  \/ /\ pc[p] \in {"del_select", "del_hdel"}
     /\ Lossy(p)
     /\ Free(p, index, AfterDelete(p))

----------------------------------------------------------------------------
(* Searching all slots for a marker key.                                   *)

\* The loops over the slots go on while i < max_db.
Mutant_MoreSlots(p, n) == next[p] + 2 < n

MoreSlots(p, n) == next[p] + 1 < n

Exists(d) == d \in Slots /\ index[d] # "free"

StartFind(p) ==
  /\ pc[p] = "none"
  /\ Goto(p, "find_probe")

redis_find(p) ==
  /\ NoFlush
  /\ StartFind(p)
  /\ UNCHANGED dataVars

\* kb_find, and kb_new with the marker when there is no cache yet.
nvticache_init(p) ==
  /\ NoFlush
  /\ StartFind(p)
  /\ init' = [init EXCEPT ![p] = TRUE]
  /\ UNCHANGED <<next, db, max_db, conn, kb_of, doomed, flaky, serverVars>>

\* The handle of the search is freed; nvticache_init goes on with kb_new.
NotFound(p) ==
  /\ IF init[p] THEN StartNew(p) ELSE Goto(p, "none")
  /\ next' = [next EXCEPT ![p] = 1]
  /\ db' = [db EXCEPT ![p] = 0]
  /\ max_db' = [max_db EXCEPT ![p] = 0]
  /\ conn' = [conn EXCEPT ![p] = None]

\* The next turn of the loop, which ends at n databases.
FindNext(p, n) ==
  IF MoreSlots(p, n)
  THEN /\ Goto(p, "find_probe")
       /\ next' = [next EXCEPT ![p] = @ + 1]
       /\ db' = [db EXCEPT ![p] = next[p]]
       /\ max_db' = [max_db EXCEPT ![p] = n]
       /\ conn' = [conn EXCEPT ![p] = None]
  ELSE NotFound(p)

\* Connect and HEXISTS; connecting alone changes nothing anyone sees.
FindProbe(p) ==
  /\ pc[p] = "find_probe"
  /\ \/ /\ Exists(next[p])
        /\ Goto(p, "find_select")
        /\ db' = [db EXCEPT ![p] = next[p]]
        /\ conn' = [conn EXCEPT ![p] = 0]
        /\ max_db' = [max_db EXCEPT ![p] = MaxDb]
        /\ UNCHANGED next
     \/ ~Exists(next[p]) /\ FindNext(p, MaxDb)
     \/ Lossy(p) /\ FindNext(p, MaxDb)                      \* HEXISTS failed
     \/ Lossy(p) /\ FindNext(p, max_db[p])                  \* CONFIG GET failed
     \/ Lossy(p) /\ NotFound(p)                             \* no connection

FindSelect(p) ==
  /\ pc[p] = "find_select"
  /\ \/ /\ pc' = [pc EXCEPT ![p] = "find_get"]
        /\ call' = [call EXCEPT ![p] = "exec"]
        /\ attempt' = [attempt EXCEPT ![p] = 1]
        /\ conn' = [conn EXCEPT ![p] = db[p]]
        /\ UNCHANGED <<next, db, max_db>>
     \/ Lossy(p) /\ FindNext(p, max_db[p])

FindMiss(p) ==
  /\ pc[p] = "find_get"
  /\ call[p] \in {"nil", "null"}
  /\ FindNext(p, max_db[p])

FindStep(p) ==
  /\ FindProbe(p) \/ FindSelect(p) \/ FindMiss(p)
  /\ UNCHANGED <<modeVars, serverVars>>

\* The slot has the key: the handle joins the KB in it.
Found(p) ==
  /\ pc[p] = "find_get"
  /\ call[p] = "ok"
  /\ Goto(p, "ready")
  /\ kb_of' = [kb_of EXCEPT ![p] = index[db[p]]]
  /\ init' = [init EXCEPT ![p] = FALSE]
  /\ next' = [next EXCEPT ![p] = 1]
  /\ UNCHANGED <<db, max_db, conn, doomed, flaky, serverVars>>

----------------------------------------------------------------------------
(* redis_flush_all, called with the marker of the cache as "except".       *)

\* openvas flushes with a KB it has just made, when no other process has one.
redis_flush_all(p) ==
  /\ pc[p] = "ready"
  /\ kb_of[p] = p
  /\ max_db[p] # 0
  /\ \A q \in Proc \ {p} : pc[q] \in {"none", "died"}
  /\ Goto(p, "flush_probe")
  /\ conn' = [conn EXCEPT ![p] = None]
  /\ \E b \in BOOLEAN : flaky' = [flaky EXCEPT ![p] = b /\ "lost" \in Faults]
  /\ UNCHANGED <<next, db, max_db, kb_of, init, doomed, serverVars>>

\* The end of the turn of the loop for one slot; idx is the index it leaves.
FlushNext(p, idx) ==
  IF MoreSlots(p, max_db[p])
  THEN /\ Goto(p, "flush_probe")
       /\ next' = [next EXCEPT ![p] = @ + 1]
       /\ db' = [db EXCEPT ![p] = next[p]]
       /\ conn' = [conn EXCEPT ![p] = None]
       /\ index' = idx
       /\ UNCHANGED <<content, max_db, modeVars>>
  ELSE Free(p, idx, "none")

\* The except key is ignored.
Mutant_HasExcept(p) == FALSE

\* Whether the slot has the "except" key, as far as the answer tells: a failed
\* LINDEX looks like a missing key.
HasExcept(p) == call[p] = "ok"

FlushProbe(p) ==
  /\ pc[p] = "flush_probe"
  /\ \/ /\ Exists(next[p])
        /\ Goto(p, "flush_select")
        /\ db' = [db EXCEPT ![p] = next[p]]
        /\ conn' = [conn EXCEPT ![p] = 0]
        /\ UNCHANGED <<next, max_db, modeVars, serverVars>>
     \/ ~Exists(next[p]) /\ FlushNext(p, index)
     \/ Lossy(p) /\ FlushNext(p, index)                     \* HEXISTS failed
     \/ Lossy(p) /\ Free(p, index, "none")       \* no connection: openvas exits

FlushSelect(p) ==
  /\ pc[p] = "flush_select"
  /\ \/ /\ pc' = [pc EXCEPT ![p] = "flush_get"]
        /\ call' = [call EXCEPT ![p] = "exec"]
        /\ attempt' = [attempt EXCEPT ![p] = 1]
        /\ conn' = [conn EXCEPT ![p] = db[p]]
        /\ UNCHANGED <<next, db, max_db, modeVars, serverVars>>
     \/ Lossy(p) /\ FlushNext(p, index)

FlushGet(p) ==
  /\ pc[p] = "flush_get"
  /\ Answered(p)
  /\ IF HasExcept(p)
     THEN FlushNext(p, index)
     ELSE /\ CallCmd(p, "flush_del")
          /\ UNCHANGED dataVars

\* redis_delete_all and redis_release_db of one slot.
FlushSlot(p) ==
  \/ /\ pc[p] = "flush_del"
     /\ Answered(p)
     /\ CanRelease(p)
     /\ Goto(p, "flush_sel0")
     /\ UNCHANGED dataVars
  \/ /\ pc[p] = "flush_del"
     /\ Answered(p)
     /\ ~CanRelease(p)
     /\ FlushNext(p, index)
  \/ /\ pc[p] = "flush_sel0"
     /\ conn' = [conn EXCEPT ![p] = 0]
     /\ Goto(p, "flush_hdel")
     /\ UNCHANGED <<next, db, max_db, modeVars, serverVars>>
  \/ /\ pc[p] = "flush_hdel"
     /\ FlushNext(p, [index EXCEPT ![db[p]] = "free"])
  \/ /\ pc[p] \in {"flush_sel0", "flush_hdel"}
     /\ Lossy(p)
     /\ FlushNext(p, index)

FlushStep(p) == FlushProbe(p) \/ FlushSelect(p) \/ FlushGet(p) \/ FlushSlot(p)

----------------------------------------------------------------------------

\* What a process does once it has started an operation.
Step(p) ==
  \/ redis_cmd(p)
  \/ NewStep(p)
  \/ SetMark(p)
  \/ NoMark(p)
  \/ AddStrEnd(p)
  \/ DeleteStep(p)
  \/ FindStep(p)
  \/ Found(p)
  \/ FlushStep(p)

\* What the program asks for, and what happens to it.
Start(p) ==
  \/ redis_new(p)
  \/ nvticache_init(p)
  \/ redis_find(p)
  \/ redis_add_str(p)
  \/ redis_lnk_reset(p)
  \/ \E q \in Proc : redis_direct_conn(p, q)
  \/ Leave(p)
  \/ redis_delete(p)
  \/ redis_flush_all(p)
  \/ Crash(p)
  \/ Restart(p)

Next == \E p \in Proc : Step(p) \/ Start(p)

Spec == Init /\ [][Next]_vars

----------------------------------------------------------------------------
(* Properties.                                                             *)

\* Type invariant: what each variable can hold.
TypeOK ==
  /\ index \in [Slots -> Labels \union {"free"}]
  /\ content \in [Slots -> SUBSET (Labels \X Keys)]
  /\ pc \in [Proc -> Pcs]
  /\ call \in [Proc -> Calls]
  /\ attempt \in [Proc -> {1, 2}]
  /\ next \in [Proc -> 1 .. MaxDb]
  /\ db \in [Proc -> 0 .. MaxDb]
  /\ max_db \in [Proc -> {0, MaxDb}]
  /\ conn \in [Proc -> {None, Broken} \union 0 .. MaxDb - 1]
  /\ kb_of \in [Proc -> Labels]
  /\ init \in [Proc -> BOOLEAN]
  /\ doomed \in [Proc -> BOOLEAN]
  /\ flaky \in [Proc -> BOOLEAN]

\* The handle has a database, outside the loops that use kbr->db to visit all.
Holds(p) ==
  /\ pc[p] \notin {"none", "died"} \union FindPcs \union FlushPcs
  /\ db[p] # 0

\* A handle works in the slot that the index says its KB has: try_database_index
\* never hands a slot out twice, a reconnecting handle returns to its own, and
\* nobody releases a slot that another KB has taken in the meantime.
SlotIsHeld == \A p \in Proc : Holds(p) => index[db[p]] = kb_of[p]

\* A KB holds what was written through its own handles and nothing else, also
\* when the FLUSHDB of redis_new never reached the server.
OnlyOwnEntries ==
  \A p \in Proc : Holds(p) => \A e \in content[db[p]] : e[1] = kb_of[p]

\* A slot that can be claimed is empty: redis_delete and redis_flush_all release
\* a slot only after its FLUSHDB, whatever breaks in between.
FreeSlotIsEmpty == \A d \in Slots : index[d] = "free" => content[d] = {}

\* Only a redis_flush_all whose connection breaks removes the marker of the
\* cache.
MarkedSurvives ==
  [][\A d \in Slots :
       Marked(d) /\ (\A p \in Proc : ~flaky[p]) => Marked(d)']_vars

\* A redis_flush_all whose connection holds leaves only slots with the except
\* key, and frees those that crashed processes left behind.
FlushFreesTheRest ==
  [][\A p \in Proc :
       pc[p] \in FlushPcs /\ ~flaky[p] /\ pc'[p] = "none"
         => \A d \in Slots : index'[d] = "free" \/ Marked(d)']_vars

=============================================================================
