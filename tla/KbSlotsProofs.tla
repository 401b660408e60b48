---------------------------- MODULE KbSlotsProofs ----------------------------
(***************************************************************************)
(* Proofs about KbSlots, for any number of processes and databases, with   *)
(* crashes and lost connections: a handle works in its own slot, finds     *)
(* nothing there that another KB has written, free slots are empty, a KB   *)
(* with the except key keeps it, and redis_flush_all frees all the others. *)
(*                                                                         *)
(* The invariant has three parts.  Connected(p) says, for each place in    *)
(* redis_cmd and get_redis_ctx, which database the connection has selected. *)
(* Owns(p) says what the index, the contents and the other processes look  *)
(* like at each place of an operation of p: that a slot belongs to one KB, *)
(* that nobody joins a KB that is being made or deleted, and that a slot   *)
(* is empty from its FLUSHDB to its HDEL.  Labelled says that the entries  *)
(* of a slot are of the KB that the index has for it.                      *)
(***************************************************************************)
EXTENDS KbSlots, TLAPS

\* The places of a process without a KB.
Idle == {"none", "died"}

\* The places of an operation with one redis_cmd.
CmdPcs == NewPcs \union {"write", "mark", "del_flush", "find_get", "flush_get", "flush_del"}

\* The places at which kbr->db is a slot.
Seated == Pcs \ (Idle \union {"new_ctx", "del_flush", "find_probe", "flush_probe"})

\* The places at which nobody else uses the KB of the process.
Alone == Idle \union FindPcs \union NewPcs \union DelPcs \union {"mark"}

\* The places between the FLUSHDB of a slot and its HDEL.
Emptied(p) ==
  \/ pc[p] \in {"del_select", "del_hdel", "flush_sel0", "flush_hdel"}
  \/ pc[p] \in {"del_flush", "flush_del"} /\ call[p] = "ok"

\* Which database the connection has selected.
Connected(p) ==
  /\ pc[p] \in CmdPcs <=> call[p] # "no"
  /\ db[p] # 0 => db[p] \in Slots
  /\ pc[p] \in Seated => db[p] # 0
  /\ pc[p] \in Idle => db[p] = 0 /\ conn[p] = None
  /\ pc[p] = "ready" => conn[p] \in {None, Broken, db[p]}
  /\ call[p] \in {"ctx", "null"} => conn[p] = None
  /\ call[p] = "claim" => db[p] = 0
  /\ call[p] = "select" => db[p] # 0
  /\ call[p] = "exec" => db[p] # 0 /\ conn[p] \in {Broken, db[p]}
  /\ call[p] \in {"ok", "nil"} => db[p] # 0 /\ conn[p] = db[p]
  /\ call[p] = "nil" => pc[p] \in {"find_get", "flush_get"}
  /\ conn[p] = Broken => pc[p] \in {"ready", "write", "del_flush"}

\* What belongs to whom.
Owns(p) ==
  /\ Holds(p) => index[db[p]] = kb_of[p]
  /\ \A d \in Slots : index[d] = p =>
       /\ kb_of[p] = p
       /\ pc[p] \notin Idle \union FindPcs
       /\ pc[p] \in FlushPcs \/ db[p] = d
       /\ Marked(d) => pc[p] \in {"ready", "write"} \union FlushPcs
  /\ pc[p] \in Alone => kb_of[p] = p /\ \A q \in Proc \ {p} : kb_of[q] # p
  /\ pc[p] \in FlushPcs => kb_of[p] = p /\ \A q \in Proc \ {p} : pc[q] \in Idle
  /\ pc[p] = "find_get" /\ call[p] = "ok" => Marked(db[p])
  /\ Emptied(p) => content[db[p]] = {}

\* The entries of a slot are of the KB the index has for it.
Labelled == \A d \in Slots : \A e \in content[d] : e[1] = index[d]

\* The inductive invariant.
Inv ==
  /\ TypeOK
  /\ \A p \in Proc : Connected(p)
  /\ \A p \in Proc : Owns(p)
  /\ Labelled

\* A step of p leaves the handles of the others alone.
OthersKeep(p) ==
  \A q \in Proc \ {p} :
    pc'[q] = pc[q] /\ call'[q] = call[q] /\ db'[q] = db[q] /\ conn'[q] = conn[q]
-----------------------------------------------------------------------------
\* The initial states.
LEMMA InvInit == Init => Inv
<1> SUFFICES ASSUME Init PROVE Inv
  OBVIOUS
<1> USE DEF Init
<1>1. TypeOK
  BY MaxDbAssumption
  DEF TypeOK, Slots, Labels, Keys, Pcs, Calls, None, Broken
<1>2. ASSUME NEW p \in Proc PROVE Connected(p)
  BY DEF Connected, CmdPcs, NewPcs, Seated, Idle, None, Broken
<1>3. ASSUME NEW p \in Proc PROVE Owns(p)
  BY ProcAssumption
  DEF Owns, Holds, FindPcs, FlushPcs, Emptied, Alone, Idle
<1>4. Labelled
  BY DEF Labelled
<1> QED
  BY <1>1, <1>2, <1>3, <1>4 DEF Inv
-----------------------------------------------------------------------------
(* What all steps have in common.                                          *)

\* Whoever does not take the step keeps its place and its connection.
LEMMA Frame ==
  ASSUME TypeOK, NEW p \in Proc, Step(p) \/ Start(p)
  PROVE  OthersKeep(p)
<1> USE DEF TypeOK, OthersKeep
<1>a. ASSUME \E at : Goto(p, at) \/ CallCmd(p, at) \/ StartNew(p),
             UNCHANGED db \/ \E d : db' = [db EXCEPT ![p] = d],
             UNCHANGED conn \/ \E c : conn' = [conn EXCEPT ![p] = c]
      PROVE  OthersKeep(p)
  BY <1>a DEF Goto, CallCmd, StartNew
<1>b. ASSUME NEW idx, NEW at, Free(p, idx, at) PROVE OthersKeep(p)
  BY <1>b DEF Free, Goto
<1>1. CASE redis_cmd(p)
  BY <1>1 DEF redis_cmd, Connect, Claim, Select, Exec, try_database_index
<1>2. CASE NewStep(p)
  BY <1>2, <1>a, Zenon DEF NewStep
<1>3. CASE SetMark(p) \/ NoMark(p) \/ AddStrEnd(p)
  BY <1>3, <1>a, Zenon DEF SetMark, NoMark, AddStrEnd, dataVars
<1>4. CASE DeleteStep(p)
  BY <1>4, <1>a, <1>b, Zenon DEF DeleteStep, dataVars
<1>5. CASE FindStep(p)
  <2>1. CASE NotFound(p)
    BY <2>1, <1>a, Zenon DEF NotFound
  <2>2. CASE \E n : FindNext(p, n)
    BY <2>1, <2>2, <1>a, Zenon DEF FindNext
  <2>3. CASE FindProbe(p)
    BY <2>1, <2>2, <2>3, <1>a, Zenon DEF FindProbe
  <2>4. CASE FindSelect(p)
    <3>1. CASE \E n : FindNext(p, n)
      BY <2>2, <3>1, Zenon
    <3> QED
      BY <2>4, <3>1 DEF FindSelect
  <2> QED
    BY <1>5, <2>2, <2>3, <2>4, Zenon DEF FindStep, FindMiss
<1>6. CASE Found(p)
  BY <1>6, <1>a, Zenon DEF Found
<1>7. CASE FlushStep(p)
  <2>1. CASE \E idx : FlushNext(p, idx)
    BY <2>1, <1>a, <1>b, Zenon DEF FlushNext
  <2>2. CASE FlushProbe(p)
    BY <2>1, <2>2, <1>a, <1>b, Zenon DEF FlushProbe
  <2>3. CASE FlushSelect(p)
    <3>1. CASE \E idx : FlushNext(p, idx)
      BY <2>1, <3>1, Zenon
    <3> QED
      BY <2>3, <3>1 DEF FlushSelect
  <2>4. CASE FlushGet(p)
    BY <2>1, <2>4, <1>a, Zenon DEF FlushGet, dataVars
  <2>5. CASE FlushSlot(p)
    BY <2>1, <2>5, <1>a, Zenon DEF FlushSlot, dataVars
  <2> QED
    BY <1>7, <2>2, <2>3, <2>4, <2>5, Zenon DEF FlushStep
<1>8. CASE redis_new(p) \/ nvticache_init(p) \/ redis_find(p) \/ Restart(p)
  BY <1>8, <1>a, Zenon
  DEF redis_new, nvticache_init, redis_find, StartFind, Restart, dataVars
<1>9. CASE redis_add_str(p) \/ redis_delete(p) \/ redis_flush_all(p)
  BY <1>9, <1>a, Zenon DEF redis_add_str, redis_delete, redis_flush_all, dataVars
<1>10. CASE redis_lnk_reset(p) \/ \E q \in Proc : redis_direct_conn(p, q)
  BY <1>10 DEF redis_lnk_reset, redis_direct_conn, controlVars
<1>11. CASE Leave(p) \/ Crash(p)
  BY <1>11, <1>b, Zenon DEF Leave, Crash
<1>12. CASE Step(p)
  BY <1>1, <1>2, <1>3, <1>4, <1>5, <1>6, <1>7, <1>12, Zenon DEF Step
<1> QED
  BY <1>8, <1>9, <1>10, <1>11, <1>12, Zenon DEF Start

\* While a process flushes, all that the others do is to start again.
LEMMA FlushAlone ==
  ASSUME TypeOK, NEW p \in Proc, Connected(p), Step(p) \/ Start(p),
         NEW q \in Proc \ {p}, pc[q] \in FlushPcs, pc[p] \in Idle
  PROVE  Restart(p) /\ pc'[p] \in Idle
<1> USE DEF TypeOK, Idle, FlushPcs
<1>1. call[p] = "no"
  BY DEF Connected, CmdPcs, NewPcs
<1>2. ~NoFlush
  BY DEF NoFlush
<1>3. ~Step(p)
  BY <1>1, Zenon DEF Step, redis_cmd, Connect, Claim, Select, Exec, NewStep, Answered, SetMark,
              NoMark, AddStrEnd, DeleteStep, FindStep, FindProbe, FindSelect, FindMiss,
              Found, FlushStep, FlushProbe, FlushSelect, FlushGet, FlushSlot
<1>4. Restart(p)
  BY <1>2, <1>3, Zenon DEF Start, redis_new, nvticache_init, redis_find, redis_add_str,
              redis_lnk_reset, redis_direct_conn, Leave, redis_delete, redis_flush_all,
              Crash
<1> QED
  BY <1>4 DEF Restart, Goto

\* Freeing the handle.
LEMMA FreeTypes ==
  ASSUME TypeOK, NEW p \in Proc, NEW idx \in [Slots -> Labels \union {"free"}],
         NEW at \in Pcs, Free(p, idx, at)
  PROVE  TypeOK'
<1> USE DEF TypeOK, Free, Disown, Orphaned, Labels
<1>1. index' \in [Slots -> Labels \union {"free"}]
  BY Zenon
<1>2. content' \in [Slots -> SUBSET (Labels \X Keys)]
  OBVIOUS
<1>3. kb_of' \in [Proc -> Labels]
  BY Zenon
<1>4. /\ pc' \in [Proc -> Pcs] /\ call' \in [Proc -> Calls]
      /\ attempt' \in [Proc -> {1, 2}]
  BY Zenon DEF Goto, Calls
<1>5. /\ next' \in [Proc -> 1 .. MaxDb] /\ db' \in [Proc -> 0 .. MaxDb]
      /\ max_db' \in [Proc -> {0, MaxDb}]
      /\ conn' \in [Proc -> {None, Broken} \union 0 .. MaxDb - 1]
  BY MaxDbAssumption
<1>6. /\ init' \in [Proc -> BOOLEAN] /\ doomed' \in [Proc -> BOOLEAN]
      /\ flaky' \in [Proc -> BOOLEAN]
  BY Zenon
<1> QED
  BY <1>1, <1>2, <1>3, <1>4, <1>5, <1>6, Zenon

\* The loop of redis_find goes on or the handle is freed.
LEMMA FindNextTypes ==
  ASSUME TypeOK, NEW p \in Proc, NEW n \in {0, MaxDb}, FindNext(p, n) \/ NotFound(p),
         UNCHANGED <<modeVars, serverVars>>
  PROVE  TypeOK'
<1> USE MaxDbAssumption DEF TypeOK, modeVars, serverVars, Goto, StartNew, Pcs, NewPcs,
            FindPcs, Calls, None
<1>1. CASE FindNext(p, n) /\ MoreSlots(p, n)
  BY <1>1, SMTT(30) DEF FindNext, MoreSlots
<1>2. CASE NotFound(p)
  BY <1>2 DEF NotFound
<1> QED
  BY <1>1, <1>2, Zenon DEF FindNext

\* The loop of redis_flush_all goes on or the handle is freed.
LEMMA FlushNextTypes ==
  ASSUME TypeOK, NEW p \in Proc, NEW idx \in [Slots -> Labels \union {"free"}],
         FlushNext(p, idx)
  PROVE  TypeOK'
<1>1. CASE MoreSlots(p, max_db[p])
  <2>1. max_db[p] \in {0, MaxDb} /\ next[p] \in 1 .. MaxDb
    BY DEF TypeOK
  <2>2. next[p] + 1 \in 1 .. MaxDb /\ next[p] \in 0 .. MaxDb
    BY <1>1, <2>1, MaxDbAssumption DEF MoreSlots
  <2>3. /\ index' = idx /\ UNCHANGED <<content, max_db, modeVars>> /\ Goto(p, "flush_probe")
        /\ next' = [next EXCEPT ![p] = next[p] + 1] /\ db' = [db EXCEPT ![p] = next[p]]
        /\ conn' = [conn EXCEPT ![p] = None]
    BY <1>1 DEF FlushNext
  <2> QED
    BY <2>2, <2>3, Zenon DEF TypeOK, modeVars, Goto, Pcs, FlushPcs, Calls
<1>2. CASE ~MoreSlots(p, max_db[p])
  BY <1>2, FreeTypes, Zenon DEF FlushNext, Pcs
<1> QED
  BY <1>1, <1>2

\* A slot with the marker is in the index, for a KB that its process has made
\* completely and is not deleting.
LEMMA MarkedSlot ==
  ASSUME Inv, NEW d \in Slots, Marked(d)
  PROVE  /\ index[d] \in Labels
         /\ index[d] \in Proc =>
              pc[index[d]] \in {"ready", "write"} \union FlushPcs
<1>1. PICK l \in Labels : <<l, "mark">> \in content[d]
  BY DEF Marked
<1>2. index[d] = l
  BY <1>1 DEF Inv, Labelled
<1> QED
  BY <1>2, Zenon DEF Inv, Owns

\* The types are preserved.
LEMMA TypeNext ==
  ASSUME Inv, NEW p \in Proc, Step(p) \/ Start(p)
  PROVE  TypeOK'
<1> TypeOK /\ Connected(p)
  BY DEF Inv
<1>a. \A d : [index EXCEPT ![d] = "free"] \in [Slots -> Labels \union {"free"}]
  BY Zenon DEF TypeOK
<1>b. index \in [Slots -> Labels \union {"free"}] /\ AfterDelete(p) \in Pcs
  BY DEF TypeOK, AfterDelete, Pcs
<1>c. db[p] \in 0 .. MaxDb - 1
  BY MaxDbAssumption DEF TypeOK, Connected, Slots
<1>1. CASE Connect(p)
  BY <1>1, MaxDbAssumption DEF Connect, TypeOK, Calls, modeVars, serverVars
<1>2. CASE Claim(p)
  <2>1. next[p] < MaxDb => next[p] \in Slots
    BY MaxDbAssumption DEF TypeOK, Slots
  <2> QED
    BY <1>2, <2>1, MaxDbAssumption
    DEF Claim, try_database_index, TypeOK, Calls, Labels, None, modeVars
<1>3. CASE Select(p)
  BY <1>3, <1>c DEF Select, TypeOK, Calls, None, modeVars, serverVars
<1>4. CASE Exec(p)
  <2>1. content' \in [Slots -> SUBSET (Labels \X Keys)]
    BY <1>4 DEF Exec, Effect, TypeOK, Keys
  <2>2. attempt' \in [Proc -> {1, 2}]
    BY <1>4 DEF Exec, Retry, TypeOK
  <2>3. call' \in [Proc -> Calls]
    BY <1>4 DEF Exec, Answer, TypeOK, Calls
  <2> QED
    BY <1>4, <2>1, <2>2, <2>3 DEF Exec, TypeOK, None, modeVars
<1>5. CASE NewStep(p)
  <2>1. doomed' \in [Proc -> BOOLEAN]
    BY <1>5, Zenon DEF NewStep, TypeOK
  <2> QED
    BY <1>5, <2>1 DEF NewStep, CallCmd, Goto, TypeOK, Pcs, NewPcs, DelPcs, Calls, serverVars
<1>6. CASE SetMark(p)
  <2>1. content' \in [Slots -> SUBSET (Labels \X Keys)]
    BY <1>6 DEF SetMark, TypeOK, Keys
  <2> QED
    BY <1>6, <2>1, Zenon DEF SetMark, Goto, TypeOK, Pcs, Calls, Broken
<1>7. CASE NoMark(p) \/ AddStrEnd(p)
  <2>1. Goto(p, "ready") /\ init' \in [Proc -> BOOLEAN]
    BY <1>7, Zenon DEF NoMark, AddStrEnd, TypeOK, dataVars, modeVars
  <2>2. UNCHANGED <<index, content, next, db, max_db, conn, kb_of, doomed, flaky>>
    BY <1>7, Zenon DEF NoMark, AddStrEnd, dataVars, modeVars, serverVars
  <2> QED
    BY <2>1, <2>2, Zenon DEF Goto, TypeOK, Pcs, Calls
<1>8. CASE DeleteStep(p)
  <2>1. CASE \E at \in Pcs :
               \/ Free(p, index, at)
               \/ Free(p, [index EXCEPT ![db[p]] = "free"], at)
    BY <2>1, <1>a, <1>b, FreeTypes, Zenon
  <2>2. CASE /\ Goto(p, "del_select") \/ Goto(p, "del_hdel")
             /\ UNCHANGED conn \/ conn' = [conn EXCEPT ![p] = 0]
             /\ UNCHANGED <<next, db, max_db, modeVars, serverVars>>
    BY <2>2, MaxDbAssumption DEF Goto, TypeOK, Pcs, DelPcs, Calls, modeVars, serverVars
  <2> QED
    BY <1>8, <1>b, <2>1, <2>2, Zenon DEF DeleteStep, dataVars
<1>9. CASE FindStep(p)
  <2>1. MaxDb \in {0, MaxDb} /\ max_db[p] \in {0, MaxDb}
    BY Zenon DEF TypeOK
  <2>2. CASE /\ Goto(p, "find_select") /\ Exists(next[p])
             /\ db' = [db EXCEPT ![p] = next[p]]
             /\ conn' = [conn EXCEPT ![p] = 0]
             /\ max_db' = [max_db EXCEPT ![p] = MaxDb]
             /\ UNCHANGED <<next, modeVars, serverVars>>
    BY <2>2, MaxDbAssumption
    DEF Goto, TypeOK, Pcs, FindPcs, Calls, modeVars, serverVars
  <2>3. CASE /\ pc' = [pc EXCEPT ![p] = "find_get"]
             /\ call' = [call EXCEPT ![p] = "exec"]
             /\ attempt' = [attempt EXCEPT ![p] = 1]
             /\ conn' = [conn EXCEPT ![p] = db[p]]
             /\ UNCHANGED <<next, db, max_db, modeVars, serverVars>>
    BY <2>3, <1>c, Zenon DEF TypeOK, Pcs, FindPcs, Calls, modeVars, serverVars
  <2> QED
    BY <1>9, <2>1, <2>2, <2>3, FindNextTypes, Zenon
    DEF FindStep, FindProbe, FindSelect, FindMiss
<1>10. CASE Found(p)
  <2>1. db[p] \in Slots /\ Marked(db[p])
    BY <1>10, Zenon DEF Inv, Connected, Owns, Found
  <2>2. index[db[p]] \in Labels
    BY <2>1, MarkedSlot, Zenon
  <2> QED
    BY <1>10, <2>2, MaxDbAssumption DEF Found, Goto, TypeOK, Pcs, Calls, serverVars
<1>11. CASE FlushStep(p)
  <2>1. CASE \E idx \in [Slots -> Labels \union {"free"}] :
               FlushNext(p, idx) \/ Free(p, idx, "none")
    BY <2>1, FlushNextTypes, FreeTypes, Zenon DEF Pcs
  <2>2. CASE FlushProbe(p) /\ Exists(next[p]) /\ Goto(p, "flush_select")
             /\ db' = [db EXCEPT ![p] = next[p]]
             /\ conn' = [conn EXCEPT ![p] = 0]
             /\ UNCHANGED <<next, max_db, modeVars, serverVars>>
    BY <2>2, MaxDbAssumption DEF Goto, TypeOK, Pcs, FlushPcs, Calls, modeVars, serverVars
  <2>3. CASE FlushSelect(p)
    <3>1. CASE FlushNext(p, index)
      BY <1>b, <2>1, <3>1, Zenon
    <3>2. CASE /\ pc' = [pc EXCEPT ![p] = "flush_get"]
               /\ call' = [call EXCEPT ![p] = "exec"]
               /\ attempt' = [attempt EXCEPT ![p] = 1]
               /\ conn' = [conn EXCEPT ![p] = db[p]]
               /\ UNCHANGED <<next, db, max_db, modeVars, serverVars>>
      BY <1>c, <3>2, Zenon DEF TypeOK, Pcs, FlushPcs, Calls, modeVars, serverVars
    <3> QED
      BY <2>3, <3>1, <3>2, Zenon DEF FlushSelect
  <2>4. CASE FlushGet(p)
    <3>1. CASE FlushNext(p, index)
      BY <1>b, <2>1, <3>1, Zenon
    <3>2. CASE CallCmd(p, "flush_del") /\ UNCHANGED dataVars
      <4>1. (IF conn[p] = None THEN "ctx" ELSE "exec") \in Calls
        BY Zenon DEF Calls
      <4> QED
        BY <3>2, <4>1, <1>c, Zenon
        DEF CallCmd, TypeOK, Pcs, FlushPcs, dataVars, modeVars, serverVars
    <3> QED
      BY <2>4, <3>1, <3>2, Zenon DEF FlushGet
  <2>5. CASE /\ Goto(p, "flush_sel0") \/ Goto(p, "flush_hdel")
             /\ UNCHANGED conn \/ conn' = [conn EXCEPT ![p] = 0]
             /\ UNCHANGED <<next, db, max_db, modeVars, serverVars>>
    BY <2>5, MaxDbAssumption, SMTT(30) DEF Goto, TypeOK, Pcs, FlushPcs, Calls, modeVars, serverVars
  <2>6. CASE FlushProbe(p)
    BY <1>b, <2>1, <2>2, <2>6, Zenon DEF FlushProbe
  <2>7. CASE FlushSlot(p)
    BY <1>a, <1>b, <2>1, <2>5, <2>7, Zenon DEF FlushSlot, dataVars
  <2> QED
    BY <1>11, <2>3, <2>4, <2>6, <2>7, Zenon DEF FlushStep
<1>12. CASE redis_new(p) \/ redis_find(p) \/ nvticache_init(p) \/ Restart(p)
  <2>1. PICK at \in Pcs, c \in Calls :
          /\ pc' = [pc EXCEPT ![p] = at] /\ call' = [call EXCEPT ![p] = c]
          /\ attempt' = [attempt EXCEPT ![p] = 1]
    BY <1>12, Zenon
    DEF redis_new, redis_find, nvticache_init, Restart, StartNew, StartFind, Goto, Pcs,
        NewPcs, FindPcs, Calls
  <2>2. init' \in [Proc -> BOOLEAN]
    BY <1>12, Zenon
    DEF redis_new, redis_find, nvticache_init, Restart, TypeOK, dataVars, modeVars
  <2>3. UNCHANGED <<index, content, next, db, max_db, conn, kb_of, doomed, flaky>>
    BY <1>12, Zenon
    DEF redis_new, redis_find, nvticache_init, Restart, dataVars, modeVars, serverVars
  <2>4. /\ pc' \in [Proc -> Pcs] /\ call' \in [Proc -> Calls]
        /\ attempt' \in [Proc -> {1, 2}]
    BY <2>1, Zenon DEF TypeOK
  <2> QED
    BY <2>2, <2>3, <2>4, Zenon DEF TypeOK
<1>13. CASE redis_add_str(p) \/ redis_delete(p)
  BY <1>13
  DEF redis_add_str, redis_delete, CallCmd, TypeOK, Pcs, DelPcs, Calls, dataVars, modeVars,
      serverVars
<1>14. CASE redis_lnk_reset(p)
  BY <1>14, Zenon DEF redis_lnk_reset, TypeOK, None, modeVars, controlVars, serverVars
<1>15. ASSUME NEW q \in Proc, redis_direct_conn(p, q) PROVE TypeOK'
  <2>1. db[q] \in 0 .. MaxDb - 1
    <3>1. db[q] = 0 \/ db[q] \in Slots
      BY Zenon DEF Inv, Connected
    <3> QED
      BY <3>1, MaxDbAssumption DEF Slots
  <2> QED
    BY <1>15, <2>1, Zenon DEF redis_direct_conn, TypeOK, Pcs, Labels, serverVars
<1>16. CASE Leave(p) \/ Crash(p)
  BY <1>b, <1>16, FreeTypes, Zenon DEF Leave, Crash, Pcs
<1>17. CASE redis_flush_all(p)
  <2>1. flaky' \in [Proc -> BOOLEAN]
    <3>1. PICK b \in BOOLEAN : flaky' = [flaky EXCEPT ![p] = b /\ "lost" \in Faults]
      BY <1>17, Zenon DEF redis_flush_all
    <3>2. (b /\ "lost" \in Faults) \in BOOLEAN
      BY Zenon
    <3> QED
      BY <3>1, <3>2, Zenon DEF TypeOK
  <2> QED
    BY <1>17, <2>1, Zenon
    DEF redis_flush_all, Goto, TypeOK, Pcs, FlushPcs, Calls, None, serverVars
<1>18. CASE Step(p)
  BY <1>1, <1>2, <1>3, <1>4, <1>5, <1>6, <1>7, <1>8, <1>9, <1>10, <1>11, <1>18, Zenon
  DEF Step, redis_cmd
<1> QED
  BY <1>12, <1>13, <1>14, <1>15, <1>16, <1>17, <1>18 DEF Start

-----------------------------------------------------------------------------
(* The connection has selected the database that the handle has.           *)

\* Every handle that is freed is unconnected.
LEMMA FreeConnected ==
  ASSUME TypeOK, NEW p \in Proc, NEW idx, NEW at \in Idle, Free(p, idx, at)
  PROVE  Connected(p)'
BY DEF TypeOK, Free, Goto, Connected, Idle, CmdPcs, NewPcs, Seated, None, Broken

\* So is one that goes on to the next slot.
LEMMA FindNextConnected ==
  ASSUME TypeOK, NEW p \in Proc, NEW n \in {0, MaxDb}, FindNext(p, n) \/ NotFound(p)
  PROVE  Connected(p)'
<1> USE MaxDbAssumption
    DEF TypeOK, Goto, StartNew, Connected, CmdPcs, NewPcs, Seated, Idle, None, Broken, Slots
<1>1. CASE FindNext(p, n) /\ MoreSlots(p, n)
  BY <1>1 DEF FindNext, MoreSlots
<1>2. CASE NotFound(p)
  BY <1>2 DEF NotFound
<1> QED
  BY <1>1, <1>2, Zenon DEF FindNext

\* The same for the loop of redis_flush_all.
LEMMA FlushNextConnected ==
  ASSUME TypeOK, NEW p \in Proc, NEW idx, FlushNext(p, idx)
  PROVE  Connected(p)'
<1>1. CASE MoreSlots(p, max_db[p])
  <2>0. max_db[p] \in {0, MaxDb} /\ next[p] \in 1 .. MaxDb
    BY Zenon DEF TypeOK
  <2>1. next[p] \in Slots /\ next[p] # 0
    BY <1>1, <2>0, MaxDbAssumption DEF MoreSlots, Slots
  <2>2. /\ pc'[p] = "flush_probe" /\ call'[p] = "no"
        /\ db'[p] = next[p] /\ conn'[p] = None
    BY <1>1 DEF FlushNext, Goto, TypeOK
  <2> QED
    BY <2>1, <2>2 DEF Connected, CmdPcs, NewPcs, Seated, Idle, None, Broken
<1>2. CASE ~MoreSlots(p, max_db[p])
  BY <1>2, FreeConnected, Zenon DEF FlushNext, Idle
<1> QED
  BY <1>1, <1>2

\* Whatever a process does, its connection stays where its place says.
LEMMA ConnectedStep ==
  ASSUME Inv, NEW p \in Proc, Step(p) \/ Start(p)
  PROVE  Connected(p)'
<1> TypeOK /\ Connected(p)
  BY DEF Inv
<1> USE MaxDbAssumption DEF Connected, TypeOK, CmdPcs, NewPcs, Seated, Idle, None, Broken
<1>a. max_db[p] \in {0, MaxDb} /\ AfterDelete(p) \in Idle
  BY Zenon DEF AfterDelete
<1>1. CASE Connect(p)
  BY <1>1 DEF Connect
<1>2. CASE Claim(p)
  BY <1>2 DEF Claim, try_database_index, Slots
<1>3. CASE Select(p)
  BY <1>3 DEF Select, Slots
<1>4. CASE Exec(p)
  BY <1>4 DEF Exec, Answer, Slots
<1>5. CASE NewStep(p)
  <2>1. /\ UNCHANGED <<db, conn>>
        /\ call[p] \in {"ok", "nil", "null"}
        /\ pc[p] \in Seated => db[p] # 0
    BY <1>5, Zenon DEF NewStep, Answered
  <2>2. \/ Goto(p, "ready") /\ pc[p] = "new_purge"
        \/ CallCmd(p, "del_flush")
        \/ /\ \E at \in {"new_ping", "new_clean", "new_purge", "mark"} : CallCmd(p, at)
           /\ pc[p] = "new_ctx" => call[p] # "null"
    BY <1>5, Zenon DEF NewStep
  <2>3. db[p] # 0 \/ (call[p] = "null" /\ pc[p] = "new_ctx")
    BY <1>5, <2>1, Zenon DEF NewStep, Pcs
  <2>4. CASE Goto(p, "ready") /\ pc[p] = "new_purge"
    BY <2>1, <2>3, <2>4, Zenon DEF Goto, Slots
  <2>5. CASE CallCmd(p, "del_flush")
    BY <2>1, <2>5, Zenon DEF CallCmd, Slots
  <2>6. ASSUME NEW at \in {"new_ping", "new_clean", "new_purge", "mark"}, CallCmd(p, at),
               pc[p] = "new_ctx" => call[p] # "null"
        PROVE  Connected(p)'
    BY <2>1, <2>3, <2>6 DEF CallCmd, Slots
  <2> QED
    BY <2>2, <2>4, <2>5, <2>6, Zenon
<1>6. CASE SetMark(p) \/ NoMark(p)
  BY <1>6 DEF SetMark, NoMark, Answered, Goto, Slots, Pcs
<1>7. CASE AddStrEnd(p)
  BY <1>7 DEF AddStrEnd, Answered, Goto, Slots, Pcs, dataVars
<1>8. CASE DeleteStep(p)
  <2>1. CASE \E idx : Free(p, idx, AfterDelete(p))
    <3> HIDE MaxDbAssumption DEF Connected, TypeOK, CmdPcs, NewPcs, Seated, Idle, None, Broken
    <3> QED
      BY <1>a, <2>1, FreeConnected, Zenon
  <2>2. CASE /\ pc[p] = "del_flush" /\ Answered(p) /\ CanRelease(p)
             /\ Goto(p, "del_select") /\ UNCHANGED dataVars
    <3>1. call[p] # "no" /\ conn[p] # None /\ call[p] \in {"ok", "nil", "null"}
      BY <2>2, Zenon DEF Answered, CanRelease
    <3>2. db[p] # 0 /\ db[p] \in Slots /\ conn[p] = db[p]
      BY <3>1, Zenon
    <3>3. /\ pc'[p] = "del_select" /\ call'[p] = "no"
          /\ db'[p] = db[p] /\ conn'[p] = conn[p]
      BY <2>2, Zenon DEF Goto, dataVars
    <3> QED
      BY <3>2, <3>3 DEF Slots
  <2>3. CASE /\ pc[p] = "del_select" /\ conn' = [conn EXCEPT ![p] = 0]
             /\ Goto(p, "del_hdel") /\ UNCHANGED db
    BY <2>3 DEF Goto, Slots, Pcs, DelPcs
  <2> QED
    BY <1>8, <2>1, <2>2, <2>3, Zenon DEF DeleteStep
<1>9. CASE FindStep(p)
  <2>1. CASE \E n \in {0, MaxDb} : FindNext(p, n) \/ NotFound(p)
    BY <2>1, FindNextConnected, Zenon
  <2>2. CASE /\ Goto(p, "find_select") /\ Exists(next[p])
             /\ db' = [db EXCEPT ![p] = next[p]]
             /\ conn' = [conn EXCEPT ![p] = 0]
    BY <2>2 DEF Goto, Exists, Slots
  <2>3. CASE /\ pc[p] = "find_select" /\ pc' = [pc EXCEPT ![p] = "find_get"]
             /\ call' = [call EXCEPT ![p] = "exec"]
             /\ conn' = [conn EXCEPT ![p] = db[p]]
             /\ UNCHANGED db
    BY <2>3 DEF Slots, Pcs, FindPcs
  <2> QED
    BY <1>9, <1>a, <2>1, <2>2, <2>3, Zenon DEF FindStep, FindProbe, FindSelect, FindMiss
<1>10. CASE Found(p)
  BY <1>10 DEF Found, Goto, Slots
<1>11. CASE FlushStep(p)
  <2>1. CASE \E idx : FlushNext(p, idx) \/ Free(p, idx, "none")
    BY <2>1, FlushNextConnected, FreeConnected, Zenon
  <2>2. CASE /\ Goto(p, "flush_select") /\ Exists(next[p])
             /\ db' = [db EXCEPT ![p] = next[p]]
             /\ conn' = [conn EXCEPT ![p] = 0]
    BY <2>2 DEF Goto, Exists, Slots
  <2>3. CASE /\ pc[p] = "flush_select" /\ pc' = [pc EXCEPT ![p] = "flush_get"]
             /\ call' = [call EXCEPT ![p] = "exec"]
             /\ conn' = [conn EXCEPT ![p] = db[p]]
             /\ UNCHANGED db
    BY <2>3, SMTT(30) DEF Slots, Pcs, FlushPcs
  <2>4. CASE /\ pc[p] = "flush_get" /\ Answered(p) /\ CallCmd(p, "flush_del")
             /\ UNCHANGED <<db, conn>>
    BY <2>4, Zenon DEF Answered, CallCmd, Slots, Pcs, FlushPcs
  <2>5. CASE /\ pc[p] = "flush_del" /\ Answered(p) /\ CanRelease(p)
             /\ Goto(p, "flush_sel0") /\ UNCHANGED <<db, conn>>
    BY <2>5, Zenon DEF Answered, CanRelease, Goto, Slots
  <2>6. CASE /\ pc[p] = "flush_sel0" /\ conn' = [conn EXCEPT ![p] = 0]
             /\ Goto(p, "flush_hdel") /\ UNCHANGED db
    BY <2>6, SMTT(30) DEF Goto, Slots, Pcs, FlushPcs
  <2> QED
    BY <1>11, <2>1, <2>2, <2>3, <2>4, <2>5, <2>6, Zenon
    DEF FlushStep, FlushProbe, FlushSelect, FlushGet, FlushSlot, dataVars
<1>12. CASE redis_new(p) \/ redis_find(p) \/ nvticache_init(p) \/ Restart(p)
  BY <1>12, SMTT(30)
  DEF redis_new, redis_find, nvticache_init, Restart, StartNew, StartFind, Goto, dataVars
<1>13. CASE redis_add_str(p) \/ redis_delete(p)
  BY <1>13 DEF redis_add_str, redis_delete, CallCmd, dataVars, Slots, Pcs
<1>14. CASE redis_lnk_reset(p)
  BY <1>14, Zenon DEF redis_lnk_reset, controlVars
<1>15. ASSUME NEW q \in Proc, redis_direct_conn(p, q) PROVE Connected(p)'
  <2>1. db[q] \in Slots
    BY <1>15, Zenon DEF Inv, redis_direct_conn, Pcs
  <2> QED
    BY <1>15, <2>1 DEF redis_direct_conn, Slots
<1>16. CASE Leave(p) \/ Crash(p)
  BY <1>16, FreeConnected, Zenon DEF Leave, Crash
<1>17. CASE redis_flush_all(p)
  BY <1>17 DEF redis_flush_all, Goto
<1>18. CASE Step(p)
  BY <1>1, <1>2, <1>3, <1>4, <1>5, <1>6, <1>7, <1>8, <1>9, <1>10, <1>11, <1>18, Zenon
  DEF Step, redis_cmd
<1> QED
  BY <1>12, <1>13, <1>14, <1>15, <1>16, <1>17, <1>18, Zenon DEF Start

-----------------------------------------------------------------------------
(* What belongs to whom.                                                   *)

\* The slot of a handle.
LEMMA Held ==
  ASSUME Inv, NEW p \in Proc, Holds(p)
  PROVE  db[p] \in Slots /\ index[db[p]] = kb_of[p]
<1>1. Connected(p) /\ Owns(p)
  BY DEF Inv
<1> QED
  BY <1>1, Zenon DEF Holds, Connected, Owns

\* A step that changes neither the server nor whose KB is used leaves what the
\* others own.
LEMMA QuietOthers ==
  ASSUME Inv, NEW p \in Proc, Step(p) \/ Start(p), UNCHANGED <<index, content, kb_of>>,
         NEW q \in Proc \ {p}
  PROVE  Owns(q)'
<1>1. pc'[q] = pc[q] /\ call'[q] = call[q] /\ db'[q] = db[q]
  BY Frame, Zenon DEF Inv, OthersKeep
<1>2. Owns(q)
  BY Zenon DEF Inv
<1>3. \A d : Marked(d)' <=> Marked(d)
  BY Zenon DEF Marked
<1>4. (Holds(q)' <=> Holds(q)) /\ (Emptied(q)' <=> Emptied(q))
  BY <1>1, Zenon DEF Holds, Emptied
<1>5. pc[q] \in FlushPcs => \A r \in Proc \ {q} : pc'[r] \in Idle
  <2> SUFFICES ASSUME pc[q] \in FlushPcs, NEW r \in Proc \ {q} PROVE pc'[r] \in Idle
    BY Zenon
  <2>1. pc[r] \in Idle /\ pc[p] \in Idle
    BY <1>2, Zenon DEF Owns
  <2>2. r # p => pc'[r] = pc[r]
    BY Frame, Zenon DEF Inv, OthersKeep
  <2>3. pc'[p] \in Idle
    BY <2>1, FlushAlone, Zenon DEF Inv
  <2> QED
    BY <2>1, <2>2, <2>3, Zenon
<1> QED
  BY <1>1, <1>2, <1>3, <1>4, <1>5, Zenon DEF Owns

\* An index in which slots were released that are empty and that no other KB has.
Releases(idx, p) ==
  /\ \A d \in Slots : idx[d] = index[d] \/ (idx[d] = "free" /\ content[d] = {})
  /\ \A q \in Proc \ {p} : Holds(q) => idx[db[q]] = index[db[q]]

\* Freeing a handle: what its KB leaves behind is nobody's.
LEMMA FreeOwns ==
  ASSUME Inv, NEW p \in Proc, NEW idx, Releases(idx, p), NEW at \in Idle,
         Free(p, idx, at), OthersKeep(p)
  PROVE  Labelled' /\ \A q \in Proc : Owns(q)'
<1> USE ProcAssumption
<1>a. TypeOK /\ Labelled /\ \A q \in Proc : Owns(q) /\ Connected(q)
  BY Zenon DEF Inv
<1>b. \A d \in Slots : index'[d] = Orphaned(idx[d], p)
  BY Zenon DEF Free, Disown
<1>c. \A d \in Slots : content'[d] = {<<Orphaned(e[1], p), e[2]>> : e \in content[d]}
  BY Zenon DEF Free, Disown
<1>d. \A q \in Proc : kb_of'[q] = IF q = p THEN p ELSE Orphaned(kb_of[q], p)
  BY Zenon DEF Free, Disown
<1>e. pc'[p] = at /\ db'[p] = 0
  BY <1>a DEF Free, Goto, TypeOK
<1>1. Labelled'
  <2> SUFFICES ASSUME NEW d \in Slots, NEW e \in content'[d] PROVE e[1] = index'[d]
    BY Zenon DEF Labelled
  <2>1. PICK f \in content[d] : e = <<Orphaned(f[1], p), f[2]>>
    BY <1>c
  <2>2. f[1] = index[d] /\ idx[d] = index[d]
    BY <1>a DEF Labelled, Releases
  <2> QED
    BY <1>b, <2>1, <2>2, Zenon
<1>2. ASSUME NEW d \in Slots PROVE Marked(d)' <=> Marked(d)
  <2>1. ASSUME NEW l \in Labels, <<l, "mark">> \in content[d] PROVE Marked(d)'
    <3>1. <<Orphaned(l, p), "mark">> \in content'[d]
      BY <1>c, <2>1
    <3> QED
      BY <3>1, Zenon DEF Marked, Orphaned, Labels
  <2>2. ASSUME NEW l \in Labels, <<l, "mark">> \in content'[d] PROVE Marked(d)
    <3>1. PICK e \in content[d] : <<l, "mark">> = <<Orphaned(e[1], p), e[2]>>
      BY <1>c, <2>2
    <3>2. e \in Labels \X Keys
      BY <1>a, Zenon DEF TypeOK
    <3>3. e[1] \in Labels /\ e = <<e[1], "mark">>
      BY <3>1, <3>2
    <3> QED
      BY <3>3, Zenon DEF Marked
  <2> QED
    BY <2>1, <2>2, Zenon DEF Marked
<1>3. ASSUME NEW d \in Slots, NEW q \in Proc, index'[d] = q PROVE q # p /\ index[d] = q
  BY <1>b, <1>3 DEF Orphaned, Releases
<1>4. ASSUME NEW q \in Proc, NEW r \in Proc \ {q}, kb_of'[r] = q, q # p
      PROVE  kb_of[r] = q
  BY <1>d, <1>4, Zenon DEF Orphaned
<1>5. Owns(p)'
  <2>1. /\ ~Holds(p)' /\ ~Emptied(p)' /\ pc'[p] \notin FlushPcs /\ pc'[p] # "find_get"
    BY <1>e, Zenon DEF Holds, Emptied, Idle, FlushPcs
  <2>2. kb_of'[p] = p /\ \A q \in Proc \ {p} : kb_of'[q] # p
    BY <1>d DEF Orphaned
  <2> QED
    BY <1>3, <2>1, <2>2, Zenon DEF Owns
<1>6. ASSUME NEW q \in Proc \ {p} PROVE Owns(q)'
  <2>1. pc'[q] = pc[q] /\ call'[q] = call[q] /\ db'[q] = db[q] /\ Owns(q) /\ Connected(q)
    BY <1>a, Zenon DEF OthersKeep
  <2>2. (Holds(q)' <=> Holds(q)) /\ (Emptied(q)' <=> Emptied(q))
    BY <2>1, Zenon DEF Holds, Emptied
  <2>3. Holds(q) => index'[db[q]] = kb_of'[q]
    <3>1. Holds(q) => db[q] \in Slots /\ index[db[q]] = kb_of[q] /\ idx[db[q]] = index[db[q]]
      BY Held, Zenon DEF Releases
    <3> QED
      BY <1>b, <1>d, <3>1
  <2>4. kb_of[q] = q => kb_of'[q] = q
    BY <1>d, Zenon DEF Orphaned
  <2>5. pc[q] \in FlushPcs => \A r \in Proc \ {q} : pc'[r] \in Idle
    BY <1>e, <2>1, Zenon DEF Owns, OthersKeep
  <2>6. pc[q] = "find_get" /\ call[q] = "ok" => Marked(db[q])'
    BY <1>2, <2>1, Zenon DEF Owns, Connected
  <2>7. Emptied(q) => content'[db[q]] = {}
    <3>1. Emptied(q) => db[q] \in Slots /\ content[db[q]] = {}
      BY <2>1 DEF Emptied, Owns, Connected, Seated, Pcs, Idle, DelPcs, FlushPcs
    <3>2. Emptied(q) => content'[db[q]] = {<<Orphaned(e[1], p), e[2]>> : e \in {}}
      BY <1>c, <3>1, Zenon
    <3> QED
      BY <3>2, Zenon
  <2>8. \A d \in Slots : index'[d] = q =>
          /\ kb_of'[q] = q
          /\ pc[q] \notin Idle \union FindPcs
          /\ pc[q] \in FlushPcs \/ db[q] = d
          /\ Marked(d)' => pc[q] \in {"ready", "write"} \union FlushPcs
    BY <1>2, <1>3, <2>1, <2>4, Zenon DEF Owns
  <2>9. pc[q] \in Alone => kb_of'[q] = q /\ \A r \in Proc \ {q} : kb_of'[r] # q
    BY <1>4, <2>1, <2>4, Zenon DEF Owns
  <2>10. pc[q] \in FlushPcs => kb_of'[q] = q
    BY <2>1, <2>4, Zenon DEF Owns
  <2> QED
    BY <2>1, <2>2, <2>3, <2>5, <2>6, <2>7, <2>8, <2>9, <2>10, Zenon DEF Owns
<1> QED
  BY <1>1, <1>5, <1>6, Zenon

\* The steps of p that change neither the server nor whose KB is used: it is
\* enough to look at p.
LEMMA QuietOwns ==
  ASSUME Inv, NEW p \in Proc, Step(p) \/ Start(p), UNCHANGED <<index, content, kb_of>>,
         Owns(p)'
  PROVE  Labelled' /\ \A q \in Proc : Owns(q)'
<1>1. Labelled'
  BY Zenon DEF Inv, Labelled
<1> QED
  BY <1>1, QuietOthers, Zenon

\* redis_cmd before the command is sent.
LEMMA CtxOwns ==
  ASSUME Inv, NEW p \in Proc, Connect(p) \/ Select(p)
  PROVE  Labelled' /\ \A q \in Proc : Owns(q)'
<1>a. TypeOK /\ Connected(p) /\ Owns(p)
  BY Zenon DEF Inv
<1>1. UNCHANGED <<index, content, kb_of, pc, db>>
  BY Zenon DEF Connect, Select, modeVars, serverVars
<1>2. call'[p] # "ok" \/ pc[p] = "new_ctx"
  BY <1>a DEF TypeOK, Connect, Select
<1>3. call[p] \in {"ctx", "select"}
  BY Zenon DEF Connect, Select
<1>4. Emptied(p)' => Emptied(p)
  BY <1>1, <1>2, Zenon DEF Emptied
<1>5. Owns(p)'
  BY <1>a, <1>1, <1>2, <1>4, Zenon DEF Owns, Holds, Marked
<1> QED
  BY <1>1, <1>5, QuietOwns, Zenon DEF Step, redis_cmd

\* The steps of redis_new and nvticache_init after the answers, and the end of
\* a write.
LEMMA NewOwns ==
  ASSUME Inv, NEW p \in Proc, NewStep(p) \/ NoMark(p) \/ AddStrEnd(p)
  PROVE  Labelled' /\ \A q \in Proc : Owns(q)'
<1>a. TypeOK /\ Connected(p) /\ Owns(p)
  BY DEF Inv
<1>1. UNCHANGED <<index, content, kb_of, db>>
  BY Zenon DEF NewStep, NoMark, AddStrEnd, dataVars, modeVars, serverVars
<1>2. /\ pc[p] \in NewPcs \union {"mark", "write"}
      /\ pc'[p] \in NewPcs \union {"mark", "ready", "del_flush"}
      /\ pc[p] = "write" => pc'[p] = "ready"
      /\ call'[p] # "ok"
  BY <1>a, SMTT(30) DEF TypeOK, NewStep, NoMark, AddStrEnd, CallCmd, Goto, NewPcs
<1>3. \A q \in Proc \ {p} : pc'[q] = pc[q]
  BY <1>a DEF TypeOK, NewStep, NoMark, AddStrEnd, CallCmd, Goto
<1>4. Holds(p)' => Holds(p)
  BY <1>1, <1>2, Zenon DEF Holds, NewPcs, FindPcs, FlushPcs
<1>5. Owns(p)'
  BY <1>a, <1>1, <1>2, <1>4, Zenon
  DEF Owns, Marked, Emptied, Alone, Idle, NewPcs, FindPcs, FlushPcs, DelPcs
<1> QED
  BY <1>1, <1>5, QuietOwns, Zenon DEF Step

\* The search for a marker.
LEMMA FindOwns ==
  ASSUME Inv, NEW p \in Proc, FindStep(p)
  PROVE  Labelled' /\ \A q \in Proc : Owns(q)'
<1>a. TypeOK /\ Connected(p) /\ Owns(p)
  BY DEF Inv
<1>1. UNCHANGED <<index, content, kb_of>>
  BY Zenon DEF FindStep, modeVars, serverVars
<1>2. /\ pc[p] \in FindPcs
      /\ pc'[p] \in FindPcs \/ (pc'[p] \in {"none", "new_ctx"} /\ db'[p] = 0)
      /\ call'[p] # "ok"
  <2>1. pc[p] \in FindPcs
    BY Zenon DEF FindStep, FindProbe, FindSelect, FindMiss, FindPcs
  <2>2. CASE NotFound(p)
    <3>1. \E at \in {"none", "new_ctx"}, c \in {"no", "ctx"} :
            pc' = [pc EXCEPT ![p] = at] /\ call' = [call EXCEPT ![p] = c]
      BY <2>2, Zenon DEF NotFound, StartNew, Goto
    <3>2. db' = [db EXCEPT ![p] = 0]
      BY <2>2, Zenon DEF NotFound
    <3> QED
      BY <2>1, <3>1, <3>2, <1>a, Zenon DEF TypeOK
  <2>3. ASSUME NEW n, FindNext(p, n), ~NotFound(p)
        PROVE  pc'[p] = "find_probe" /\ call'[p] = "no"
    BY <2>3, <1>a, SMTT(30) DEF FindNext, Goto, TypeOK
  <2>4. \/ NotFound(p) \/ \E n : FindNext(p, n)
        \/ pc'[p] = "find_select" /\ call'[p] = "no"
        \/ pc'[p] = "find_get" /\ call'[p] = "exec"
    BY <1>a DEF FindStep, FindProbe, FindSelect, FindMiss, Goto, TypeOK
  <2> QED
    BY <2>1, <2>2, <2>3, <2>4, Zenon DEF FindPcs
<1>3. ~Holds(p)' /\ ~Emptied(p)'
  BY <1>2, Zenon DEF Holds, Emptied, FindPcs
<1>4. pc[p] \in Alone /\ pc'[p] \notin FlushPcs /\ \A d \in Slots : index[d] # p
  BY <1>a, <1>2, Zenon DEF Owns, Alone, FindPcs, FlushPcs
<1>5. Owns(p)'
  BY <1>a, <1>1, <1>2, <1>3, <1>4, Zenon DEF Owns
<1> QED
  BY <1>1, <1>5, QuietOwns DEF Step

\* The start of an operation.
LEMMA StartOwns ==
  ASSUME Inv, NEW p \in Proc,
         \/ redis_new(p) \/ redis_find(p) \/ nvticache_init(p) \/ Restart(p)
         \/ redis_add_str(p) \/ redis_delete(p) \/ redis_lnk_reset(p) \/ redis_flush_all(p)
  PROVE  Labelled' /\ \A q \in Proc : Owns(q)'
<1>a. TypeOK /\ Connected(p) /\ Owns(p)
  BY DEF Inv
<1> USE DEF redis_new, redis_find, nvticache_init, Restart, redis_add_str, redis_delete,
            redis_lnk_reset, redis_flush_all
<1>1. UNCHANGED <<index, content, kb_of, db>>
  BY Zenon DEF dataVars, modeVars, serverVars
<1>2. \A q \in Proc \ {p} : pc'[q] = pc[q]
  BY <1>a, Zenon DEF TypeOK, StartNew, StartFind, CallCmd, Goto, controlVars
<1>3. \A d : Marked(d)' <=> Marked(d)
  BY <1>1, Zenon DEF Marked
<1> SUFFICES Owns(p)'
  BY <1>1, QuietOwns, Zenon DEF Start
<1>4. CASE redis_new(p) \/ redis_find(p) \/ nvticache_init(p) \/ Restart(p)
  <2>1. /\ pc[p] \in Idle /\ db[p] = 0
        /\ pc'[p] \in {"new_ctx", "find_probe", "none"}
    BY <1>4, <1>a, Zenon DEF TypeOK, StartNew, StartFind, Goto, Connected, Idle
  <2>2. ~Holds(p)' /\ ~Emptied(p)' /\ pc'[p] \notin FlushPcs
    BY <1>1, <2>1, Zenon DEF Holds, Emptied, FlushPcs
  <2> QED
    BY <1>a, <1>1, <2>1, <2>2, Zenon DEF Owns, Alone
<1>5. CASE redis_add_str(p) \/ redis_lnk_reset(p)
  <2>1. pc[p] = "ready" /\ pc'[p] \in {"ready", "write"}
    BY <1>5, <1>a, Zenon DEF TypeOK, CallCmd, controlVars
  <2> QED
    BY <1>a, <1>1, <1>3, <2>1, Zenon
    DEF Owns, Holds, Emptied, Alone, Idle, NewPcs, FindPcs, FlushPcs, DelPcs
<1>6. CASE redis_delete(p)
  <2>1. pc[p] = "ready" /\ pc'[p] = "del_flush" /\ call'[p] # "ok"
    BY <1>6, <1>a, Zenon DEF TypeOK, CallCmd
  <2> QED
    BY <1>6, <1>a, <1>1, <1>3, <2>1, Zenon
    DEF Owns, Holds, Emptied, Alone, Idle, NewPcs, FindPcs, FlushPcs, DelPcs
<1>7. CASE redis_flush_all(p)
  <2>1. pc[p] = "ready" /\ pc'[p] = "flush_probe"
    BY <1>7, <1>a, Zenon DEF TypeOK, Goto
  <2> QED
    BY <1>7, <1>a, <1>1, <1>2, <1>3, <2>1, Zenon
    DEF Owns, Holds, Emptied, Alone, Idle, NewPcs, FindPcs, FlushPcs, DelPcs
<1> QED
  BY <1>4, <1>5, <1>6, <1>7, Zenon

\* A handle joins the KB of a process that is not making, searching, deleting
\* or flushing one.
LEMMA JoinOwns ==
  ASSUME Inv, NEW p \in Proc, Found(p) \/ \E q \in Proc : redis_direct_conn(p, q)
  PROVE  Labelled' /\ \A q \in Proc : Owns(q)'
<1>a. TypeOK /\ Labelled /\ \A q \in Proc : Connected(q) /\ Owns(q)
  BY Zenon DEF Inv
<1>b. UNCHANGED <<index, content>> /\ Labelled'
  BY <1>a DEF Found, redis_direct_conn, serverVars, Labelled
<1>c. OthersKeep(p)
  BY <1>a, Frame DEF Step, Start
<1>d. \A d : Marked(d)' <=> Marked(d)
  BY <1>b, Zenon DEF Marked
<1>e. \A q \in Proc : pc[q] \notin FlushPcs
  <2>1. CASE Found(p)
    BY <2>1, <1>a, Zenon DEF Found, Owns, Idle, FlushPcs
  <2> QED
    BY <2>1 DEF redis_direct_conn, NoFlush
<1>1. PICK l \in Labels :
        /\ kb_of' = [kb_of EXCEPT ![p] = l]
        /\ index[db'[p]] = l
        /\ l \in Proc => pc[l] \in {"ready", "write"}
  <2>1. CASE Found(p)
    <3>1. db[p] \in Slots /\ Marked(db[p]) /\ db'[p] = db[p]
      BY <2>1, <1>a, Zenon DEF Found, Connected, Owns
    <3>2. /\ index[db[p]] \in Labels
          /\ index[db[p]] \in Proc => pc[index[db[p]]] \in {"ready", "write"}
      BY <3>1, <1>e, MarkedSlot, Zenon
    <3> QED
      BY <2>1, <3>1, <3>2, Zenon DEF Found
  <2>2. ASSUME NEW q \in Proc, redis_direct_conn(p, q)
        PROVE  /\ kb_of' = [kb_of EXCEPT ![p] = q]
               /\ index[db'[p]] = q /\ pc[q] = "ready"
    <3>1. pc[q] = "ready" /\ kb_of[q] = q /\ db'[p] = db[q]
      BY <2>2, <1>a DEF redis_direct_conn, TypeOK
    <3>2. Holds(q)
      <4>1. pc[q] \in Seated /\ Connected(q)
        BY <3>1, <1>a, Zenon DEF Seated, Pcs, Idle
      <4> QED
        BY <3>1, <4>1, Zenon DEF Holds, Connected, FindPcs, FlushPcs
    <3> QED
      BY <2>2, <3>1, <3>2, <1>a DEF redis_direct_conn, Owns
  <2> QED
    BY <2>1, <2>2, Zenon DEF Labels
<1>2. /\ pc[p] \in {"none", "find_get"} /\ pc'[p] = "ready"
      /\ kb_of'[p] = l /\ \A q \in Proc \ {p} : kb_of'[q] = kb_of[q]
  <2>1. pc[p] \in {"none", "find_get"} /\ pc' = [pc EXCEPT ![p] = "ready"]
    BY Zenon DEF Found, redis_direct_conn, Goto
  <2>2. pc \in [Proc -> Pcs] /\ kb_of \in [Proc -> Labels]
    BY <1>a, Zenon DEF TypeOK
  <2> QED
    BY <1>1, <2>1, <2>2, Zenon
<1>3. Owns(p)'
  <2>1. \A d \in Slots : index[d] # p
    BY <1>2, <1>a, Zenon DEF Owns, Idle, FindPcs
  <2>2. ~Emptied(p)' /\ pc'[p] \notin FlushPcs \union Alone
    BY <1>2, Zenon DEF Emptied, FlushPcs, Alone, Idle, FindPcs, NewPcs, DelPcs
  <2> QED
    BY <1>b, <1>1, <1>2, <2>1, <2>2, Zenon DEF Owns
<1>4. ASSUME NEW q \in Proc \ {p} PROVE Owns(q)'
  <2>1. /\ pc'[q] = pc[q] /\ call'[q] = call[q] /\ db'[q] = db[q] /\ kb_of'[q] = kb_of[q]
        /\ Owns(q) /\ pc[q] \notin FlushPcs
    BY <1>a, <1>c, <1>e, <1>2, Zenon DEF OthersKeep
  <2>2. (Holds(q)' <=> Holds(q)) /\ (Emptied(q)' <=> Emptied(q))
    BY <2>1, Zenon DEF Holds, Emptied
  <2>3. pc[q] \in Alone => l # q
    BY <1>1, Zenon DEF Alone, Idle, FindPcs, NewPcs, DelPcs
  <2>4. pc[q] \in Alone => kb_of'[q] = q /\ \A r \in Proc \ {q} : kb_of'[r] # q
    BY <1>2, <2>1, <2>3, Zenon DEF Owns
  <2> QED
    BY <1>b, <1>d, <2>1, <2>2, <2>4, Zenon DEF Owns
<1> QED
  BY <1>b, <1>3, <1>4, Zenon

\* A free slot has no entries and no handle.
LEMMA FreeSlot ==
  ASSUME Inv, NEW d \in Slots, index[d] = "free"
  PROVE  content[d] = {} /\ \A q \in Proc : Holds(q) => db[q] # d
<1>1. "free" \notin Labels
  BY ProcAssumption, Zenon DEF Labels
<1>2. content[d] \in SUBSET (Labels \X Keys) /\ \A q \in Proc : kb_of[q] \in Labels
  BY DEF Inv, TypeOK
<1>3. \A e \in content[d] : e[1] = "free"
  BY Zenon DEF Inv, Labelled
<1>4. content[d] = {}
  BY <1>1, <1>2, <1>3, Zenon
<1> QED
  BY <1>1, <1>2, <1>4, Held, Zenon

\* HSETNX takes a slot that is free.
LEMMA ClaimOwns ==
  ASSUME Inv, NEW p \in Proc, Claim(p)
  PROVE  Labelled' /\ \A q \in Proc : Owns(q)'
<1>a. TypeOK /\ Labelled /\ \A q \in Proc : Connected(q) /\ Owns(q)
  BY DEF Inv
<1>b. UNCHANGED <<content, kb_of, pc>>
  BY Zenon DEF Claim, modeVars
<1>c. OthersKeep(p)
  BY <1>a, Frame, Zenon DEF Step, redis_cmd
<1>d. db[p] = 0 /\ pc[p] \in {"new_ctx", "del_flush"} /\ call'[p] # "ok"
  <2>1. call[p] = "claim" /\ call'[p] # "ok"
    BY <1>a, Zenon DEF Claim, TypeOK
  <2>2. db[p] = 0 /\ pc[p] \in CmdPcs /\ pc[p] \in Pcs /\ pc[p] \notin Seated
    BY <2>1, <1>a, Zenon DEF Connected, TypeOK
  <2> QED
    BY <2>1, <2>2, Zenon DEF CmdPcs, Seated, Idle, NewPcs
<1>e. kb_of[p] = p /\ pc[p] \in Alone /\ \A d \in Slots : index[d] # p
  <2>1. pc[p] \in Alone /\ pc[p] \notin FlushPcs
    BY <1>d, Zenon DEF Alone, NewPcs, DelPcs, FlushPcs
  <2>2. 0 \notin Slots
    BY DEF Slots
  <2>3. Owns(p)
    BY <1>a, Zenon
  <2> QED
    BY <1>d, <2>1, <2>2, <2>3, Zenon DEF Owns
<1>f. /\ ~Emptied(p)' /\ pc[p] \notin FlushPcs /\ pc[p] # "find_get"
      /\ pc[p] \notin Idle \union FindPcs
  BY <1>b, <1>d, Zenon DEF Emptied, FlushPcs, Idle, FindPcs
<1>g. \A d : Marked(d)' <=> Marked(d)
  BY <1>b, Zenon DEF Marked
<1>1. CASE UNCHANGED <<index, db>>
  <2>1. Owns(p)'
    BY <1>1, <1>a, <1>b, <1>d, <1>e, <1>f, Zenon DEF Owns, Holds
  <2> QED
    BY <1>1, <1>b, <2>1, QuietOwns DEF Step, redis_cmd
<1>2. ASSUME NEW i \in Slots, index[i] = "free", NEW l \in {p, "orphan"},
             index' = [index EXCEPT ![i] = l],
             db'[p] = IF l = p THEN i ELSE 0
      PROVE  Labelled' /\ \A q \in Proc : Owns(q)'
  <2> USE ProcAssumption
  <2>a. content[i] = {} /\ \A q \in Proc : Holds(q) => db[q] # i
    BY <1>2, FreeSlot, Zenon
  <2>b. \A d \in Slots : index'[d] = IF d = i THEN l ELSE index[d]
    BY <1>2, <1>a, Zenon DEF TypeOK
  <2>1. Labelled'
    BY <2>a, <2>b, <1>a, <1>b, Zenon DEF Labelled
  <2>2. Owns(p)'
    <3>1. Holds(p)' => index'[db'[p]] = p
      BY <2>b, <1>2, Zenon DEF Holds
    <3>2. ~Marked(i)
      BY <2>a, Zenon DEF Marked
    <3>3. \A d \in Slots : index'[d] = p => db'[p] = d /\ ~Marked(d)
      <4> SUFFICES ASSUME NEW d \in Slots, index'[d] = p PROVE db'[p] = d /\ ~Marked(d)
        BY Zenon
      <4>1. d = i /\ l = p
        BY <2>b, <1>e, Zenon
      <4> QED
        BY <4>1, <3>2, <1>2, Zenon
    <3> QED
      BY <3>1, <3>3, <1>a, <1>b, <1>e, <1>f, <1>g, Zenon DEF Owns
  <2>3. ASSUME NEW q \in Proc \ {p} PROVE Owns(q)'
    <3>1. pc'[q] = pc[q] /\ call'[q] = call[q] /\ db'[q] = db[q]
      BY <1>c, Zenon DEF OthersKeep
    <3>2. (Holds(q)' <=> Holds(q)) /\ (Emptied(q)' <=> Emptied(q))
      BY <3>1, Zenon DEF Holds, Emptied
    <3>3. \A d \in Slots : index'[d] = q => index[d] = q
      BY <2>b, Zenon
    <3>4. Holds(q) => index'[db[q]] = index[db[q]]
      BY <2>a, <2>b, <1>a, Zenon DEF Holds, Connected
    <3>5. Owns(q)
      BY <1>a, Zenon
    <3> QED
      BY <3>1, <3>2, <3>3, <3>4, <3>5, <1>b, <1>g, Zenon DEF Owns
  <2> QED
    BY <2>1, <2>2, <2>3, Zenon
<1>3. \/ UNCHANGED <<index, db>>
      \/ \E i \in Slots : \E l \in {p, "orphan"} :
           /\ index[i] = "free"
           /\ index' = [index EXCEPT ![i] = l]
           /\ db'[p] = IF l = p THEN i ELSE 0
  <2>1. next[p] < MaxDb => next[p] \in Slots
    BY <1>a, MaxDbAssumption DEF TypeOK, Slots
  <2> QED
    BY <2>1, <1>a, <1>d, ProcAssumption DEF Claim, try_database_index, TypeOK
<1> QED
  BY <1>1, <1>2, <1>3, Zenon

\* While p is in the middle of an operation, no other process has a slot between
\* its FLUSHDB and its HDEL that belongs to the KB of p.
LEMMA NotEmptied ==
  ASSUME Inv, NEW p \in Proc, Holds(p), NEW q \in Proc \ {p}, Emptied(q)
  PROVE  db[q] # db[p]
<1>a. Owns(p) /\ Owns(q) /\ Connected(q) /\ pc[q] \in Pcs
  BY DEF Inv, TypeOK
<1>1. pc[p] \notin Idle
  BY Zenon DEF Holds, Idle
<1>2. pc[q] \in DelPcs /\ (pc[q] = "del_flush" => call[q] = "ok")
  BY <1>a, <1>1, Zenon DEF Emptied, DelPcs, FlushPcs, Owns
<1>3. pc[q] \in Alone /\ Holds(q)
  BY <1>a, <1>2, Zenon DEF Alone, Holds, Connected, Seated, DelPcs, Pcs, Idle, FindPcs, FlushPcs
<1> QED
  BY <1>a, <1>3, Zenon DEF Owns

\* A write, which is to the slot of the handle.
LEMMA WriteOwns ==
  ASSUME Inv, NEW p \in Proc, Step(p), Holds(p), NEW k \in Keys,
         \A d \in Slots : content'[d] =
           IF d = db[p] THEN content[d] \union {<<kb_of[p], k>>} ELSE content[d],
         (pc[p] = "write" /\ k = "item") \/ (pc[p] = "mark" /\ k = "mark"),
         pc'[p] \in {pc[p], "ready"}, pc[p] = "mark" => pc'[p] = "ready",
         UNCHANGED <<index, db, kb_of>>
  PROVE  Labelled' /\ \A q \in Proc : Owns(q)'
<1>a. TypeOK /\ Labelled /\ \A q \in Proc : Connected(q) /\ Owns(q)
  BY Zenon DEF Inv
<1>b. db[p] \in Slots /\ index[db[p]] = kb_of[p]
  BY <1>a, Zenon DEF Holds, Connected, Owns
<1>c. OthersKeep(p)
  BY <1>a, Frame, Zenon
<1>d. \A q \in Proc \ {p} : pc[q] \notin FlushPcs
  BY <1>a, Zenon DEF Owns, Holds, Idle
<1>1. Labelled'
  <2> SUFFICES ASSUME NEW d \in Slots, NEW e \in content'[d] PROVE e[1] = index'[d]
    BY Zenon DEF Labelled
  <2>1. e \in content[d] \/ (d = db[p] /\ e = <<kb_of[p], k>>)
    BY Zenon
  <2>2. e \in content[d] => e[1] = index[d]
    BY <1>a, Zenon DEF Labelled
  <2>3. index'[d] = index[d] /\ (e = <<kb_of[p], k>> => e[1] = kb_of[p])
    OBVIOUS
  <2> QED
    BY <2>1, <2>2, <2>3, <1>b, Zenon
<1>2. \A d \in Slots : Marked(d) => Marked(d)'
  BY Zenon DEF Marked
<1>3. \A d \in Slots : Marked(d)' /\ (d # db[p] \/ k = "item") => Marked(d)
  <2> SUFFICES ASSUME NEW d \in Slots, Marked(d)', d # db[p] \/ k = "item" PROVE Marked(d)
    BY Zenon
  <2>1. PICK e \in content'[d], l \in Labels : e = <<l, "mark">>
    BY Zenon DEF Marked
  <2>2. e \in content[d] \/ (d = db[p] /\ e = <<kb_of[p], k>>)
    BY Zenon
  <2>3. e # <<kb_of[p], "item">>
    BY <2>1
  <2> QED
    BY <2>1, <2>2, <2>3, Zenon DEF Marked
<1>4. Owns(p)'
  <2>1. ~Emptied(p)' /\ pc'[p] \in {"ready", "write"}
    BY Zenon DEF Emptied
  <2>2. pc'[p] \notin Alone \union FlushPcs \union Idle \union FindPcs
    BY <2>1, Zenon DEF Alone, Idle, FindPcs, FlushPcs, NewPcs, DelPcs
  <2>3. pc[p] \notin FlushPcs
    BY Zenon DEF FlushPcs
  <2>4. Owns(p)
    BY <1>a, Zenon
  <2> QED
    BY <1>b, <2>1, <2>2, <2>3, <2>4, Zenon DEF Owns
<1>5. ASSUME NEW q \in Proc \ {p} PROVE Owns(q)'
  <2>1. pc'[q] = pc[q] /\ call'[q] = call[q] /\ db'[q] = db[q] /\ Owns(q) /\ Connected(q)
    BY <1>a, <1>c, Zenon DEF OthersKeep
  <2>2. (Holds(q)' <=> Holds(q)) /\ (Emptied(q)' <=> Emptied(q))
    BY <2>1, Zenon DEF Holds, Emptied
  <2>3. Emptied(q) => content'[db[q]] = {}
    <3>1. Emptied(q) => db[q] \in Slots /\ content[db[q]] = {}
      BY <2>1, Zenon DEF Emptied, Owns, Connected, Seated, Pcs, Idle, DelPcs, FlushPcs
    <3> QED
      BY <3>1, NotEmptied, Zenon
  <2>4. \A d \in Slots : index[d] = q /\ Marked(d)' => Marked(d)
    <3>1. pc[p] = "mark" => index[db[p]] = p
      BY <1>a, <1>b, Zenon DEF Owns, Alone
    <3> QED
      BY <3>1, <1>3, Zenon
  <2>5. pc[q] = "find_get" /\ call[q] = "ok" => Marked(db[q])'
    BY <2>1, <1>2, Zenon DEF Owns, Connected
  <2> QED
    BY <2>1, <2>2, <2>3, <2>4, <2>5, <1>d, Zenon DEF Owns
<1> QED
  BY <1>1, <1>4, <1>5, Zenon

\* The transaction that sets the marker.
LEMMA MarkOwns ==
  ASSUME Inv, NEW p \in Proc, SetMark(p)
  PROVE  Labelled' /\ \A q \in Proc : Owns(q)'
<1>a. TypeOK /\ Connected(p) /\ Owns(p)
  BY DEF Inv
<1>1. /\ pc[p] = "mark" /\ pc'[p] = "ready" /\ call'[p] = "no"
      /\ UNCHANGED <<index, db, kb_of>>
  BY <1>a, Zenon DEF SetMark, Goto, TypeOK
<1>2. conn[p] = db[p] /\ Holds(p)
  BY <1>a, <1>1, Zenon DEF SetMark, Connected, Holds, FindPcs, FlushPcs
<1>3. CASE content' = [content EXCEPT ![db[p]] = @ \union {<<kb_of[p], "mark">>}]
  <2>1. \A d \in Slots : content'[d] =
          IF d = db[p] THEN content[d] \union {<<kb_of[p], "mark">>} ELSE content[d]
    BY <1>3, <1>a, Zenon DEF TypeOK
  <2>2. Step(p) /\ "mark" \in Keys
    BY SMTT(30) DEF Step, Keys
  <2> QED
    BY <1>1, <1>2, <2>1, <2>2, WriteOwns, Zenon
<1>4. CASE UNCHANGED content
  <2>1. Owns(p)'
    BY <1>a, <1>1, <1>2, <1>4, Zenon
    DEF Owns, Holds, Marked, Emptied, Alone, Idle, FindPcs, FlushPcs, NewPcs, DelPcs
  <2> QED
    BY <1>1, <1>4, <2>1, QuietOwns, Zenon DEF Step
<1> QED
  BY <1>2, <1>3, <1>4, Zenon DEF SetMark

\* FLUSHDB, which is of the slot that the handle has and that has no marker, or
\* of any slot when nobody else has a handle.
LEMMA FlushDbOwns ==
  ASSUME Inv, NEW p \in Proc, Step(p), db[p] \in Slots,
         pc[p] \in {"new_clean", "del_flush", "flush_del"},
         \A d \in Slots : content'[d] = IF d = db[p] THEN {} ELSE content[d],
         UNCHANGED <<index, pc, db, kb_of>>
  PROVE  Labelled' /\ \A q \in Proc : Owns(q)'
<1>a. TypeOK /\ Labelled /\ \A q \in Proc : Connected(q) /\ Owns(q)
  BY Zenon DEF Inv
<1>b. OthersKeep(p)
  BY <1>a, Frame, Zenon
<1>1. Labelled'
  <2> SUFFICES ASSUME NEW d \in Slots, NEW e \in content'[d] PROVE e[1] = index'[d]
    BY Zenon DEF Labelled
  <2>1. d # db[p]
    BY Zenon
  <2>2. e \in content[d] /\ index'[d] = index[d]
    BY <2>1, Zenon
  <2> QED
    BY <2>2, <1>a, Zenon DEF Labelled
<1>2. \A d \in Slots : Marked(d)' <=> Marked(d) /\ d # db[p]
  <2>1. ASSUME NEW d \in Slots, d # db[p] PROVE Marked(d)' <=> Marked(d)
    BY <2>1, Zenon DEF Marked
  <2>2. ASSUME NEW d \in Slots, d = db[p] PROVE ~Marked(d)'
    <3>1. content'[d] = {}
      BY <2>2
    <3> QED
      BY <3>1, Zenon DEF Marked
  <2> QED
    BY <2>1, <2>2, Zenon
<1>3. Owns(p)'
  <2>1. Owns(p) /\ content'[db'[p]] = {} /\ pc[p] # "find_get"
    BY <1>a, Zenon
  <2> QED
    BY <1>2, <2>1, Zenon DEF Owns, Holds
<1>4. ASSUME NEW q \in Proc \ {p} PROVE Owns(q)'
  <2>1. pc'[q] = pc[q] /\ call'[q] = call[q] /\ db'[q] = db[q] /\ Owns(q) /\ Connected(q)
    BY <1>a, <1>b, Zenon DEF OthersKeep
  <2>2. (Holds(q)' <=> Holds(q)) /\ (Emptied(q)' <=> Emptied(q))
    BY <2>1, Zenon DEF Holds, Emptied
  <2>3. Emptied(q) => content'[db[q]] = {}
    <3>1. Emptied(q) => db[q] \in Slots /\ content[db[q]] = {}
      BY <2>1, Zenon DEF Emptied, Owns, Connected, Seated, Pcs, Idle, DelPcs, FlushPcs
    <3> QED
      BY <3>1
  <2>4. pc[q] = "find_get" => ~Marked(db[p])
    <3> SUFFICES ASSUME pc[q] = "find_get" PROVE ~Marked(db[p])
      BY Zenon
    <3>1. pc[p] \in {"new_clean", "del_flush"}
      BY <1>a, Zenon DEF Owns, FlushPcs, Idle
    <3>2. Holds(p) /\ pc[p] \in Alone
      BY <3>1 DEF Holds, Alone, NewPcs, DelPcs, FindPcs, FlushPcs, Slots
    <3>3. Owns(p)
      BY <1>a, Zenon
    <3>4. index[db[p]] = p
      BY <3>2, <3>3, Zenon DEF Owns
    <3> QED
      BY <3>1, <3>3, <3>4, Zenon DEF Owns, FlushPcs
  <2>5. pc[q] = "find_get" /\ call[q] = "ok" => Marked(db[q])'
    BY <2>1, <2>4, <1>2, Zenon DEF Owns, Connected
  <2> QED
    BY <2>1, <2>2, <2>3, <2>5, <1>2, Zenon DEF Owns
<1> QED
  BY <1>1, <1>3, <1>4, Zenon

\* The command itself.
LEMMA ExecOwns ==
  ASSUME Inv, NEW p \in Proc, Exec(p)
  PROVE  Labelled' /\ \A q \in Proc : Owns(q)'
<1>a. TypeOK /\ Connected(p) /\ Owns(p)
  BY DEF Inv
<1>b. Step(p) /\ UNCHANGED <<index, pc, db, kb_of>> /\ db[p] \in Slots /\ db[p] # 0
  BY <1>a, Zenon DEF Step, redis_cmd, Exec, modeVars, Connected
<1>1. CASE UNCHANGED content
  <2>1. \A d : Marked(d)' <=> Marked(d)
    BY <1>1, Zenon DEF Marked
  <2>2. pc[p] = "find_get" /\ call'[p] = "ok" => Marked(db[p])
    BY <1>a, Zenon DEF Exec, Answer, TypeOK, Connected
  <2>3. Emptied(p)' => Emptied(p) \/ content[db[p]] = {}
    <3>1. CASE pc[p] \in {"del_flush", "flush_del"} /\ call'[p] = "ok"
      <4>1. conn[p] # Broken /\ Effect(p)
        BY <3>1, <1>a, Zenon DEF Exec, TypeOK
      <4>2. content' = [content EXCEPT ![db[p]] = {}]
        BY <3>1, <4>1, <1>a, Zenon DEF Effect, Exec, Connected
      <4> QED
        BY <4>2, <1>1, <1>a, <1>b, Zenon DEF TypeOK
    <3> QED
      BY <3>1, <1>b, Zenon DEF Emptied
  <2>4. Owns(p)'
    BY <1>1, <1>a, <1>b, <2>1, <2>2, <2>3, Zenon DEF Owns, Holds
  <2> QED
    BY <1>1, <1>b, <2>4, QuietOwns, Zenon
<1>2. CASE content' # content
  <2>1. conn[p] = db[p] /\ Effect(p)
    BY <1>2, <1>a, Zenon DEF Exec, Connected
  <2>2. CASE pc[p] \in {"new_clean", "del_flush", "flush_del"}
    <3>1. \A d \in Slots : content'[d] = IF d = db[p] THEN {} ELSE content[d]
      <4>1. content' = [content EXCEPT ![db[p]] = {}]
        BY <2>1, <2>2, Zenon DEF Effect
      <4> QED
        BY <4>1, <1>a, Zenon DEF TypeOK
    <3> QED
      BY <2>2, <3>1, <1>b, FlushDbOwns, Zenon
  <2>3. CASE pc[p] = "write"
    <3>1. \A d \in Slots : content'[d] =
            IF d = db[p] THEN content[d] \union {<<kb_of[p], "item">>} ELSE content[d]
      BY <2>1, <2>3, <1>a DEF Effect, TypeOK
    <3>2. Holds(p)
      BY <2>3, <1>b, Zenon DEF Holds, FindPcs, FlushPcs
    <3>3. "item" \in Keys /\ Step(p) /\ pc'[p] = "write" /\ UNCHANGED <<index, db, kb_of>>
      BY <2>3, <1>b, Zenon DEF Keys
    <3>4. /\ (pc[p] = "write" /\ "item" = "item") \/ (pc[p] = "mark" /\ "item" = "mark")
          /\ pc'[p] \in {pc[p], "ready"}
          /\ pc[p] = "mark" => pc'[p] = "ready"
      BY <2>3, <3>3, Zenon
    <3> QED
      BY <3>1, <3>2, <3>3, <3>4, WriteOwns, Zenon
  <2> QED
    BY <1>2, <2>1, <2>2, <2>3, Zenon DEF Effect
<1> QED
  BY <1>1, <1>2, Zenon

\* The index as it is releases no slot.
LEMMA KeepReleases ==
  ASSUME NEW p \in Proc
  PROVE  Releases(index, p)
BY Zenon DEF Releases

\* The end of an operation of p that frees its handle.
LEMMA LeaveOwns ==
  ASSUME Inv, NEW p \in Proc, Leave(p) \/ Crash(p)
  PROVE  Labelled' /\ \A q \in Proc : Owns(q)'
<1>1. OthersKeep(p)
  BY Frame, Zenon DEF Inv, Start
<1> QED
  BY <1>1, KeepReleases, FreeOwns, Zenon DEF Leave, Crash, Idle

\* redis_delete after its FLUSHDB.
LEMMA DeleteOwns ==
  ASSUME Inv, NEW p \in Proc, DeleteStep(p)
  PROVE  Labelled' /\ \A q \in Proc : Owns(q)'
<1>a. TypeOK /\ \A q \in Proc : Connected(q) /\ Owns(q)
  BY Zenon DEF Inv
<1>b. OthersKeep(p) /\ AfterDelete(p) \in Idle
  BY <1>a, Frame, Zenon DEF Step, AfterDelete, Idle
<1>c. Owns(p)
  BY <1>a, Zenon
<1>1. CASE Free(p, index, AfterDelete(p))
  BY <1>1, <1>b, KeepReleases, FreeOwns, Zenon
<1>2. CASE pc[p] = "del_hdel" /\ Free(p, [index EXCEPT ![db[p]] = "free"], AfterDelete(p))
  <2>1. Holds(p) /\ pc[p] \in Alone /\ Emptied(p)
    BY <1>2, <1>a, Zenon
    DEF Holds, Alone, Emptied, Connected, Seated, Pcs, DelPcs, Idle, FindPcs, FlushPcs
  <2>2. db[p] \in Slots /\ content[db[p]] = {} /\ index[db[p]] = p
    BY <2>1, <1>c, Held, Zenon DEF Owns
  <2>3. \A q \in Proc \ {p} : Holds(q) => db[q] # db[p]
    <3>1. \A q \in Proc \ {p} : kb_of[q] # p
      BY <2>1, <1>c, Zenon DEF Owns
    <3> QED
      BY <2>2, <3>1, Held, Zenon
  <2>4. Releases([index EXCEPT ![db[p]] = "free"], p)
    BY <2>2, <2>3, <1>a, Held, Zenon DEF Releases, TypeOK
  <2> QED
    BY <1>2, <2>4, <1>b, FreeOwns, Zenon
<1>3. CASE \/ /\ pc[p] = "del_flush" /\ Answered(p) /\ CanRelease(p)
              /\ Goto(p, "del_select") /\ UNCHANGED dataVars
           \/ /\ pc[p] = "del_select" /\ Goto(p, "del_hdel")
              /\ UNCHANGED <<next, db, max_db, modeVars, serverVars>>
  <2>1. UNCHANGED <<index, content, kb_of, db>>
    BY <1>3, Zenon DEF dataVars, modeVars, serverVars
  <2>2. pc[p] \in DelPcs /\ pc'[p] \in DelPcs
    BY <1>3, <1>a DEF Goto, TypeOK, DelPcs
  <2>3. Emptied(p)
    BY <1>3, <1>a, Zenon DEF Emptied, Connected, Answered, CanRelease
  <2>4. Holds(p)' => Holds(p)
    BY <2>1, <2>2 DEF Holds, DelPcs, FindPcs, FlushPcs
  <2>5. Owns(p)'
    <3>1. /\ pc[p] \in Alone /\ pc[p] \notin {"ready", "write"} \union FlushPcs
          /\ pc'[p] \notin FlushPcs \union Idle \union FindPcs
      BY <2>2, Zenon DEF Alone, DelPcs, FindPcs, FlushPcs, Idle
    <3>2. \A d : Marked(d)' <=> Marked(d)
      BY <2>1, Zenon DEF Marked
    <3> QED
      BY <2>1, <2>3, <2>4, <3>1, <3>2, <1>c, Zenon DEF Owns, FindPcs
  <2> QED
    BY <2>1, <2>5, QuietOwns, Zenon DEF Step
<1> QED
  BY <1>1, <1>2, <1>3, Zenon DEF DeleteStep

\* The next turn of the loop of redis_flush_all, or its end.
LEMMA FlushNextOwns ==
  ASSUME Inv, NEW p \in Proc, pc[p] \in FlushPcs, NEW idx, Releases(idx, p),
         FlushNext(p, idx), OthersKeep(p)
  PROVE  Labelled' /\ \A q \in Proc : Owns(q)'
<1>a. TypeOK /\ Labelled /\ \A q \in Proc : Owns(q)
  BY Zenon DEF Inv
<1>1. CASE MoreSlots(p, max_db[p])
  <2> USE ProcAssumption
  <2>1. index' = idx /\ UNCHANGED <<content, kb_of>> /\ pc'[p] = "flush_probe"
    BY <1>1, <1>a DEF FlushNext, modeVars, Goto, TypeOK
  <2>2. \A q \in Proc \ {p} : pc'[q] = pc[q] /\ pc[q] \in Idle
    BY <1>a, Zenon DEF Owns, OthersKeep
  <2>3. Labelled'
    BY <2>1, <1>a, Zenon DEF Labelled, Releases
  <2>4. \A d \in Slots, q \in Proc : index'[d] = q => index[d] = q
    BY <2>1, Zenon DEF Releases
  <2>5. Owns(p)'
    <3>1. ~Holds(p)' /\ ~Emptied(p)' /\ pc'[p] \in FlushPcs
      BY <2>1, Zenon DEF Holds, Emptied, FlushPcs
    <3>2. pc'[p] \notin Alone \union Idle \union FindPcs
      BY <2>1, Zenon DEF Alone, Idle, FindPcs, NewPcs, DelPcs
    <3> QED
      BY <2>1, <2>2, <3>1, <3>2, <1>a, Zenon DEF Owns
  <2>6. ASSUME NEW q \in Proc \ {p} PROVE Owns(q)'
    <3>0. Owns(q)
      BY <1>a, Zenon
    <3>1. ~Holds(q)' /\ ~Emptied(q)' /\ pc'[q] \notin FlushPcs /\ pc'[q] # "find_get"
      BY <2>2, Zenon DEF Holds, Emptied, FlushPcs, Idle
    <3>2. \A d \in Slots : index'[d] # q
      BY <2>2, <2>4, <3>0, Zenon DEF Owns
    <3> QED
      BY <2>1, <2>2, <3>0, <3>1, <3>2, Zenon DEF Owns, Alone
  <2> QED
    BY <2>3, <2>5, <2>6, Zenon
<1>2. CASE ~MoreSlots(p, max_db[p])
  BY <1>2, FreeOwns, Zenon DEF FlushNext, Idle
<1> QED
  BY <1>1, <1>2, Zenon

\* redis_flush_all.
LEMMA FlushOwns ==
  ASSUME Inv, NEW p \in Proc, FlushStep(p)
  PROVE  Labelled' /\ \A q \in Proc : Owns(q)'
<1>a. TypeOK /\ \A q \in Proc : Connected(q) /\ Owns(q)
  BY DEF Inv
<1>b. OthersKeep(p)
  BY <1>a, Frame DEF Step
<1>c. pc[p] \in FlushPcs
  BY Zenon DEF FlushStep, FlushProbe, FlushSelect, FlushGet, FlushSlot, FlushPcs
<1>1. CASE FlushNext(p, index)
  BY <1>1, <1>b, <1>c, KeepReleases, FlushNextOwns, Zenon
<1>2. CASE Free(p, index, "none")
  BY <1>2, <1>b, KeepReleases, FreeOwns, Zenon DEF Idle
<1>3. CASE pc[p] = "flush_hdel" /\ FlushNext(p, [index EXCEPT ![db[p]] = "free"])
  <2>1. db[p] \in Slots /\ content[db[p]] = {}
    BY <1>3, <1>a, Zenon DEF Owns, Emptied, Connected, Seated, Pcs, FlushPcs, Idle
  <2>2. \A q \in Proc \ {p} : ~Holds(q)
    BY <1>a, <1>c, Zenon DEF Owns, Holds, Idle
  <2>3. Releases([index EXCEPT ![db[p]] = "free"], p)
    BY <2>1, <2>2, <1>a, Zenon DEF Releases, TypeOK
  <2> QED
    BY <1>3, <2>3, <1>b, <1>c, FlushNextOwns
<1>4. CASE /\ UNCHANGED <<index, content, kb_of>>
           /\ pc'[p] \in FlushPcs /\ call'[p] # "ok"
           /\ pc'[p] \in {"flush_sel0", "flush_hdel"} => Emptied(p) /\ UNCHANGED db
  <2>1. ~Holds(p)'
    BY <1>4, Zenon DEF Holds
  <2>2. pc'[p] \notin Alone \union Idle \union FindPcs /\ pc'[p] # "find_get"
    BY <1>4, Zenon DEF FlushPcs, Alone, Idle, FindPcs, NewPcs, DelPcs
  <2>3. Emptied(p)' => content'[db'[p]] = {}
    BY <1>4, <1>a, Zenon DEF Emptied, Owns, FlushPcs
  <2>4. \A q \in Proc \ {p} : pc'[q] \in Idle
    BY <1>a, <1>b, <1>c, Zenon DEF Owns, OthersKeep
  <2>5. Owns(p)'
    BY <1>4, <1>a, <1>c, <2>1, <2>2, <2>3, <2>4, Zenon DEF Owns
  <2> QED
    BY <1>4, <2>5, QuietOwns, Zenon DEF Step
<1> USE DEF Goto, CallCmd, TypeOK, dataVars, modeVars, serverVars, FlushPcs
<1>5. CASE FlushProbe(p)
  BY <1>5, <1>a, <1>1, <1>2, <1>4 DEF FlushProbe
<1>6. CASE FlushSelect(p)
  BY <1>6, <1>a, <1>1, <1>4, SMTT(30) DEF FlushSelect
<1>7. CASE FlushGet(p)
  BY <1>7, <1>a, <1>1, <1>4 DEF FlushGet
<1>8. CASE FlushSlot(p)
  <2>1. pc[p] = "flush_del" /\ Answered(p) /\ CanRelease(p) => Emptied(p)
    BY <1>a, Zenon DEF Emptied, Connected, Answered, CanRelease
  <2>2. pc[p] = "flush_sel0" => Emptied(p)
    BY Zenon DEF Emptied
  <2> QED
    BY <1>8, <1>a, <1>1, <1>3, <1>4, <2>1, <2>2, Zenon DEF FlushSlot
<1> QED
  BY <1>5, <1>6, <1>7, <1>8, Zenon DEF FlushStep

-----------------------------------------------------------------------------
(* The invariant, and what follows from it.                                *)

\* Whatever a process does, every KB keeps what belongs to it.
LEMMA OwnsStep ==
  ASSUME Inv, NEW p \in Proc, Step(p) \/ Start(p)
  PROVE  Labelled' /\ \A q \in Proc : Owns(q)'
<1>1. CASE Step(p)
  BY <1>1, CtxOwns, ClaimOwns, ExecOwns, NewOwns, MarkOwns, DeleteOwns, FindOwns, JoinOwns,
     FlushOwns, Zenon
  DEF Step, redis_cmd
<1>2. CASE Start(p)
  BY <1>2, StartOwns, JoinOwns, LeaveOwns, Zenon DEF Start
<1> QED
  BY <1>1, <1>2, Zenon

\* The invariant is inductive.
LEMMA InvNext == Inv /\ [Next]_vars => Inv'
<1> SUFFICES ASSUME Inv, [Next]_vars PROVE Inv'
  BY Zenon
<1>1. CASE UNCHANGED vars
  <2> USE <1>1 DEF vars, Inv
  <2>1. TypeOK'
    BY DEF TypeOK
  <2>2. ASSUME NEW p \in Proc PROVE Connected(p)'
    BY Zenon DEF Connected
  <2>3. ASSUME NEW p \in Proc PROVE Owns(p)'
    <3>1. \A d : Marked(d)' <=> Marked(d)
      BY Zenon DEF Marked
    <3>2. (Holds(p)' <=> Holds(p)) /\ (Emptied(p)' <=> Emptied(p)) /\ Owns(p)
      BY Zenon DEF Holds, Emptied
    <3> QED
      BY <3>1, <3>2, Zenon DEF Owns
  <2>4. Labelled'
    BY Zenon DEF Labelled
  <2> QED
    BY <2>1, <2>2, <2>3, <2>4, Zenon
<1>2. ASSUME NEW p \in Proc, Step(p) \/ Start(p) PROVE Inv'
  <2>1. TypeOK'
    BY <1>2, TypeNext, Zenon
  <2>2. ASSUME NEW q \in Proc PROVE Connected(q)'
    <3>1. CASE q = p
      BY <1>2, <3>1, ConnectedStep
    <3>2. CASE q # p
      <4>1. /\ pc'[q] = pc[q] /\ call'[q] = call[q] /\ db'[q] = db[q] /\ conn'[q] = conn[q]
            /\ Connected(q)
        BY <1>2, <3>2, Frame, Zenon DEF Inv, OthersKeep
      <4> QED
        BY <4>1, Zenon DEF Connected
    <3> QED
      BY <3>1, <3>2, Zenon
  <2>3. Labelled' /\ \A q \in Proc : Owns(q)'
    BY <1>2, OwnsStep
  <2> QED
    BY <2>1, <2>2, <2>3, Zenon DEF Inv
<1> QED
  BY <1>1, <1>2, Zenon DEF Next

\* The invariant holds in every reachable state, with any number of processes,
\* databases and faults.
THEOREM Invariance == Spec => []Inv
BY InvInit, InvNext, PTL DEF Spec

\* What the invariant says of a handle and of a free slot.
LEMMA InvImplies == Inv => SlotIsHeld /\ OnlyOwnEntries /\ FreeSlotIsEmpty
<1> SUFFICES ASSUME Inv PROVE SlotIsHeld /\ OnlyOwnEntries /\ FreeSlotIsEmpty
  OBVIOUS
<1>1. SlotIsHeld
  BY Zenon DEF Inv, Owns, SlotIsHeld
<1>2. \A p \in Proc : Holds(p) => db[p] \in Slots
  BY Zenon DEF Inv, Connected, Holds
<1>3. OnlyOwnEntries
  BY <1>1, <1>2, Zenon DEF Inv, Labelled, SlotIsHeld, OnlyOwnEntries
<1>4. FreeSlotIsEmpty
  BY FreeSlot, Zenon DEF FreeSlotIsEmpty
<1> QED
  BY <1>1, <1>3, <1>4, Zenon

\* A handle works in the slot that GVM.__GlobalDBIndex has for its KB: no two KBs
\* share a slot, however processes claim, find, delete, flush, crash and
\* reconnect.
THEOREM SlotExclusion == Spec => []SlotIsHeld
BY Invariance, InvImplies, PTL

\* Nothing that another KB has written is in the slot of a handle, also when the
\* FLUSHDB of redis_new is lost.
THEOREM NoForeignEntries == Spec => []OnlyOwnEntries
BY Invariance, InvImplies, PTL

\* try_database_index only ever hands out empty slots.
THEOREM FreeMeansEmpty == Spec => []FreeSlotIsEmpty
BY Invariance, InvImplies, PTL
-----------------------------------------------------------------------------
(* redis_flush_all visits every slot.                                      *)

\* The loops over the slots start at the first one.
FromFirst(p) ==
  pc[p] \notin FindPcs \union FlushPcs /\ (db[p] # 0 \/ pc[p] \in Idle) => next[p] = 1

\* The slot is as redis_flush_all leaves it.
Spared(d) == index[d] = "free" \/ Marked(d)

\* Where a redis_flush_all is: the slots before next[p] are done, and what the
\* LINDEX of a connection that holds has answered is so.
Flushing(p) ==
  pc[p] \in FlushPcs =>
    /\ max_db[p] = MaxDb
    /\ ~flaky[p] =>
         /\ \A d \in Slots : d < next[p] => Spared(d)
         /\ pc[p] # "flush_probe" => db[p] = next[p]
         /\ call[p] \in {"no", "exec", "ok", "nil"}
         /\ pc[p] = "flush_get" /\ call[p] = "ok" => Marked(next[p])
         /\ pc[p] = "flush_get" /\ call[p] = "nil" => ~Marked(next[p])
         /\ pc[p] \in {"flush_del", "flush_sel0", "flush_hdel"} => ~Marked(next[p])

\* The invariant with the progress of redis_flush_all.
FlushInv == Inv /\ \A p \in Proc : FromFirst(p) /\ Flushing(p)

\* The others keep their loop variables too.
LEMMA FrameLoop ==
  ASSUME TypeOK, NEW p \in Proc, Step(p) \/ Start(p)
  PROVE  \A q \in Proc \ {p} :
           next'[q] = next[q] /\ max_db'[q] = max_db[q] /\ flaky'[q] = flaky[q]
<1> USE DEF TypeOK
<1>1. UNCHANGED next \/ \E n : next' = [next EXCEPT ![p] = n]
  BY Zenon DEF Step, Start, redis_cmd, Connect, Claim, Select, Exec, NewStep, SetMark, NoMark,
     AddStrEnd, DeleteStep, Free, FindStep, FindProbe, FindSelect, FindMiss, FindNext, NotFound,
     Found, FlushStep, FlushProbe, FlushSelect, FlushGet, FlushSlot, FlushNext, dataVars,
     redis_new, nvticache_init, redis_find, redis_add_str, redis_lnk_reset, redis_direct_conn,
     Leave, redis_delete, redis_flush_all, Crash, Restart
<1>2. UNCHANGED max_db \/ \E n : max_db' = [max_db EXCEPT ![p] = n]
  BY ZenonT(40) DEF Step, Start, redis_cmd, Connect, Claim, Select, Exec, NewStep, SetMark, NoMark,
     AddStrEnd, DeleteStep, Free, FindStep, FindProbe, FindSelect, FindMiss, FindNext, NotFound,
     Found, FlushStep, FlushProbe, FlushSelect, FlushGet, FlushSlot, FlushNext, dataVars,
     redis_new, nvticache_init, redis_find, redis_add_str, redis_lnk_reset, redis_direct_conn,
     Leave, redis_delete, redis_flush_all, Crash, Restart
<1>3. UNCHANGED flaky \/ \E b : flaky' = [flaky EXCEPT ![p] = b]
  BY Zenon DEF Step, Start, redis_cmd, Connect, Claim, Select, Exec, NewStep, SetMark, NoMark,
     AddStrEnd, DeleteStep, Free, FindStep, FindProbe, FindSelect, FindMiss, FindNext, NotFound,
     Found, FlushStep, FlushProbe, FlushSelect, FlushGet, FlushSlot, FlushNext, dataVars, modeVars,
     redis_new, nvticache_init, redis_find, redis_add_str, redis_lnk_reset, redis_direct_conn,
     Leave, redis_delete, redis_flush_all, Crash, Restart
<1> QED
  BY <1>1, <1>2, <1>3

\* Whatever a process does, a loop over the slots starts at the first one.
LEMMA FromFirstStep ==
  ASSUME Inv, NEW p \in Proc, FromFirst(p), Step(p) \/ Start(p)
  PROVE  FromFirst(p)'
<1>a. TypeOK /\ Connected(p)
  BY SMTT(30) DEF Inv
<1>1. CASE next'[p] = 1
  BY <1>1, Zenon DEF FromFirst
<1>2. CASE pc'[p] \in FindPcs \union FlushPcs
  BY <1>2, Zenon DEF FromFirst
<1>3. CASE /\ next'[p] = next[p] /\ pc[p] \notin FindPcs \union FlushPcs
           /\ db'[p] # 0 \/ pc'[p] \in Idle => db[p] # 0 \/ pc[p] \in Idle
  BY <1>3, Zenon DEF FromFirst
<1>4. CASE \E idx, at : Free(p, idx, at)
  <2>1. next'[p] = 1
    BY <1>4, <1>a, Zenon DEF Free, TypeOK
  <2> QED
    BY <1>1, <2>1
<1>5. CASE redis_cmd(p)
  <2>1. pc' = pc /\ pc[p] \notin Idle
    BY <1>5, <1>a, Zenon DEF redis_cmd, Connect, Claim, Select, Exec, Connected, CmdPcs, NewPcs,
                             Idle
  <2>2. CASE Connect(p)
    BY <2>1, <2>2, <1>a, SMTT(30) DEF Connect, FromFirst, TypeOK
  <2>3. CASE Claim(p)
    BY <2>1, <2>3, <1>a, Zenon DEF Claim, FromFirst, TypeOK, Connected, try_database_index
  <2>4. CASE Select(p) \/ Exec(p)
    BY <2>1, <2>4, <1>a, SMTT(30) DEF Select, Exec, FromFirst, TypeOK
  <2> QED
    BY <1>5, <2>2, <2>3, <2>4, Zenon DEF redis_cmd
<1> USE DEF Goto, CallCmd, StartNew, Idle, FindPcs, FlushPcs
<1>6. CASE NewStep(p)
  BY <1>6, <1>a, <1>3, SMTT(30) DEF NewStep, NewPcs, TypeOK
<1>7. CASE SetMark(p) \/ NoMark(p) \/ AddStrEnd(p)
  BY <1>7, <1>a, <1>3, Zenon DEF SetMark, NoMark, AddStrEnd, dataVars, TypeOK
<1>8. CASE DeleteStep(p)
  BY <1>8, <1>a, <1>3, <1>4 DEF DeleteStep, dataVars, TypeOK
<1>9. CASE FindStep(p)
  <2>1. CASE NotFound(p)
    <3>1. next'[p] = 1
      BY <2>1, <1>a, Zenon DEF NotFound, TypeOK
    <3> QED
      BY <1>1, <3>1
  <2>2. CASE pc'[p] = "find_probe" \/ pc'[p] = "find_select" \/ pc'[p] = "find_get"
    BY <2>2, <1>2, Zenon
  <2>3. \A n : FindNext(p, n) => pc'[p] = "find_probe" \/ NotFound(p)
    BY <1>a, ZenonT(40) DEF FindNext, TypeOK
  <2>4. FindProbe(p) \/ FindSelect(p) \/ FindMiss(p) =>
          pc'[p] = "find_select" \/ pc'[p] = "find_get" \/ NotFound(p) \/ \E n : FindNext(p, n)
    BY <1>a, Zenon DEF FindProbe, FindSelect, FindMiss, TypeOK
  <2> QED
    BY <1>9, <2>1, <2>2, <2>3, <2>4, Zenon DEF FindStep
<1>10. CASE Found(p)
  BY <1>10, <1>a, <1>1, Zenon DEF Found, TypeOK
<1>11. CASE FlushStep(p)
  <2>1. \A idx : FlushNext(p, idx) => pc'[p] = "flush_probe" \/ \E i, at : Free(p, i, at)
    BY <1>a, ZenonT(40) DEF FlushNext, TypeOK
  <2>2. FlushStep(p) => \/ pc'[p] \in FlushPcs
                        \/ \E i, at : Free(p, i, at)
                        \/ \E idx : FlushNext(p, idx)
    BY <1>a, Zenon DEF FlushStep, FlushProbe, FlushSelect, FlushGet, FlushSlot, TypeOK
  <2> QED
    BY <1>2, <1>4, <1>11, <2>1, <2>2, Zenon
<1>12. CASE redis_new(p) \/ nvticache_init(p) \/ redis_find(p) \/ Restart(p)
  BY <1>12, <1>a, <1>3, <1>2, SMTT(30)
  DEF redis_new, nvticache_init, redis_find, StartFind, Restart, dataVars, TypeOK
<1>13. CASE redis_add_str(p) \/ redis_lnk_reset(p) \/ redis_delete(p) \/ redis_flush_all(p)
  BY <1>13, <1>a, <1>3, <1>2, Zenon
  DEF redis_add_str, redis_lnk_reset, redis_delete, redis_flush_all, dataVars, controlVars, TypeOK
<1>14. CASE \E q \in Proc : redis_direct_conn(p, q)
  BY <1>14, <1>3, Zenon DEF redis_direct_conn
<1>15. CASE Leave(p) \/ Crash(p)
  BY <1>15, <1>4, ZenonT(40) DEF Leave, Crash
<1> QED
  BY <1>5, <1>6, <1>7, <1>8, <1>9, <1>10, <1>11, <1>12, <1>13, <1>14, <1>15 DEF Step, Start

\* Freeing a handle keeps the markers and makes no slot less free.
LEMMA FreeSpares ==
  ASSUME TypeOK, NEW p \in Proc, NEW idx, NEW at, Free(p, idx, at), NEW d \in Slots
  PROVE  /\ Marked(d) => Marked(d)'
         /\ idx[d] = "free" => index'[d] = "free"
<1>1. /\ index'[d] = Orphaned(idx[d], p)
      /\ content'[d] = {<<Orphaned(e[1], p), e[2]>> : e \in content[d]}
  BY ZenonT(40) DEF Free, Disown
<1>2. ASSUME Marked(d) PROVE Marked(d)'
  <2>1. PICK l \in Labels : <<l, "mark">> \in content[d]
    BY <1>2, ZenonT(40) DEF Marked
  <2>2. <<Orphaned(l, p), "mark">> \in content'[d] /\ Orphaned(l, p) \in Labels
    <3>1. <<l, "mark">>[1] = l /\ <<l, "mark">>[2] = "mark"
      BY Zenon
    <3>2. <<Orphaned(<<l, "mark">>[1], p), <<l, "mark">>[2]>> \in content'[d]
      BY <1>1, <2>1, ZenonT(40)
    <3> QED
      BY <3>1, <3>2, ZenonT(40) DEF Orphaned, Labels
  <2> QED
    BY <2>2, ZenonT(40) DEF Marked
<1>3. idx[d] = "free" => index'[d] = "free"
  BY <1>1, ProcAssumption, Zenon DEF Orphaned
<1> QED
  BY <1>2, <1>3, ZenonT(40)

\* A connection that has selected a slot is a connection.
LEMMA SlotsAreNotNone == \A d \in Slots : d # None
BY MaxDbAssumption, SMTT(30) DEF Slots, None

\* The end of the turn for one slot, if the slot is as it should be.
LEMMA FlushNextSpares ==
  ASSUME TypeOK, NEW p \in Proc, NEW idx, FlushNext(p, idx), pc[p] \in FlushPcs,
         max_db[p] = MaxDb,
         \A d \in Slots : d <= next[p] => idx[d] = "free" \/ Marked(d)
  PROVE  Flushing(p)' /\ (pc'[p] = "none" => \A d \in Slots : Spared(d)')
<1>0. next[p] \in 1 .. MaxDb /\ MaxDb \in Nat
  BY MaxDbAssumption, Zenon DEF TypeOK
<1>1. CASE MoreSlots(p, max_db[p])
  <2>1. /\ pc'[p] = "flush_probe" /\ call'[p] = "no" /\ next'[p] = next[p] + 1
        /\ max_db'[p] = MaxDb /\ index' = idx /\ content' = content
    BY <1>1, SMTT(30) DEF FlushNext, Goto, TypeOK
  <2>2. \A d \in Slots : d < next'[p] => Spared(d)'
    <3> SUFFICES ASSUME NEW d \in Slots, d < next'[p]
                 PROVE  Spared(d)'
      BY Zenon
    <3>1. d <= next[p]
      BY <1>0, <2>1, SMTT(30) DEF Slots
    <3>2. idx[d] = "free" \/ Marked(d)
      BY <3>1, Zenon
    <3> QED
      BY <2>1, <3>2, Zenon DEF Spared, Marked
  <2> QED
    BY <2>1, <2>2, Zenon DEF Flushing
<1>2. CASE ~MoreSlots(p, max_db[p])
  <2>1. Free(p, idx, "none")
    BY <1>2, Zenon DEF FlushNext
  <2>2. pc'[p] = "none"
    BY <2>1, SMTT(30) DEF Free, Goto, TypeOK
  <2>3. ASSUME NEW d \in Slots PROVE Spared(d)'
    <3>1. d <= next[p]
      BY <1>0, <1>2, SMTT(30) DEF MoreSlots, Slots
    <3> QED
      BY <2>1, <3>1, FreeSpares, Zenon DEF Spared
  <2>4. "none" \notin FlushPcs
    BY Zenon DEF FlushPcs
  <2> QED
    BY <2>2, <2>3, <2>4, Zenon DEF Flushing
<1> QED
  BY <1>1, <1>2, Zenon

\* One step of a redis_flush_all whose connection holds.
LEMMA FlushStepSpares ==
  ASSUME FlushInv, NEW p \in Proc, FlushStep(p), ~flaky[p]
  PROVE  Flushing(p)' /\ (pc'[p] = "none" => \A d \in Slots : Spared(d)')
<1>a. TypeOK /\ Connected(p)
  BY Zenon DEF FlushInv, Inv
<1>b. pc[p] \in FlushPcs
  BY Zenon DEF FlushStep, FlushProbe, FlushSelect, FlushGet, FlushSlot, FlushPcs
<1>c. ~Lossy(p)
  BY <1>b, SMTT(30) DEF Lossy
<1>d. /\ max_db[p] = MaxDb
      /\ \A d \in Slots : d < next[p] => Spared(d)
      /\ pc[p] # "flush_probe" => db[p] = next[p]
      /\ call[p] \in {"no", "exec", "ok", "nil"}
      /\ pc[p] = "flush_get" /\ call[p] = "ok" => Marked(next[p])
      /\ pc[p] = "flush_get" /\ call[p] = "nil" => ~Marked(next[p])
      /\ pc[p] \in {"flush_del", "flush_sel0", "flush_hdel"} => ~Marked(next[p])
  BY <1>b, Zenon DEF FlushInv, Flushing
<1>e. next[p] \in 1 .. MaxDb /\ MaxDb \in Nat /\ \A d \in Slots : d \in Nat
  BY <1>a, MaxDbAssumption, SMTT(30) DEF TypeOK, Slots
<1>1. ASSUME NEW idx, FlushNext(p, idx), \A d \in Slots : d # next[p] => idx[d] = index[d],
             next[p] \in Slots => idx[next[p]] = "free" \/ Marked(next[p])
      PROVE  Flushing(p)' /\ (pc'[p] = "none" => \A d \in Slots : Spared(d)')
  <2>1. ASSUME NEW d \in Slots, d <= next[p] PROVE idx[d] = "free" \/ Marked(d)
    <3>1. CASE d = next[p]
      BY <1>1, <3>1, SMTT(30)
    <3>2. CASE d # next[p]
      BY <1>1, <1>d, <1>e, <2>1, <3>2, SMTT(30) DEF Spared
    <3> QED
      BY <3>1, <3>2, SMTT(30)
  <2> QED
    BY <1>a, <1>b, <1>d, <1>1, <2>1, FlushNextSpares, Zenon
\* A step that stays at the slot.
<1>2. CASE /\ pc'[p] \in {"flush_select", "flush_get", "flush_del", "flush_sel0", "flush_hdel"}
           /\ call'[p] \in {"no", "exec"} /\ db'[p] = next[p]
           /\ UNCHANGED <<index, content, next, max_db, flaky>>
           /\ pc'[p] \in {"flush_del", "flush_sel0", "flush_hdel"} => ~Marked(next[p])
  <2>1. \A d : (Marked(d)' <=> Marked(d)) /\ (Spared(d)' <=> Spared(d))
    BY <1>2, SMTT(30) DEF Marked, Spared
  <2>2. /\ pc'[p] # "none" /\ max_db'[p] = MaxDb /\ next'[p] = next[p] /\ call'[p] # "ok"
        /\ call'[p] # "nil" /\ call'[p] \in {"no", "exec", "ok", "nil"}
    BY <1>2, <1>d, Zenon
  <2>3. Marked(next[p])' <=> Marked(next[p])
    BY <1>2, SMTT(30) DEF Marked
  <2>4. \A d \in Slots : d < next'[p] => Spared(d)'
    BY <1>d, <2>1, <2>2, SMTT(30)
  <2> QED
    BY <1>2, <2>2, <2>3, <2>4, SMTT(30) DEF Flushing
<1> USE DEF Goto, CallCmd, dataVars, modeVars, serverVars
<1>3. CASE FlushProbe(p)
  <2>1. CASE Exists(next[p])
    <3>1. /\ pc'[p] = "flush_select" /\ call'[p] = "no" /\ db'[p] = next[p]
          /\ UNCHANGED <<index, content, next, max_db, flaky>>
      BY <1>3, <1>a, <1>c, <2>1, SMTT(30) DEF FlushProbe, TypeOK
    <3> QED
      BY <1>2, <3>1, SMTT(30)
  <2>2. CASE ~Exists(next[p])
    <3>1. FlushNext(p, index)
      BY <1>3, <1>c, <2>2, SMTT(30) DEF FlushProbe
    <3> QED
      BY <1>1, <2>2, <3>1, ZenonT(40) DEF Exists
  <2> QED
    BY <2>1, <2>2, SMTT(30)
<1>4. CASE FlushSelect(p)
  <2>1. /\ pc'[p] = "flush_get" /\ call'[p] = "exec" /\ db'[p] = next[p]
        /\ UNCHANGED <<index, content, next, max_db, flaky>>
    BY <1>4, <1>a, <1>c, <1>d, SMTT(30) DEF FlushSelect, TypeOK
  <2> QED
    BY <1>2, <2>1, SMTT(30)
<1>5. CASE FlushGet(p)
  <2>1. CASE call[p] = "ok"
    BY <1>1, <1>5, <1>d, <2>1, ZenonT(40) DEF FlushGet, HasExcept
  <2>2. CASE call[p] = "nil"
    <3>1. conn[p] # None
      BY <1>a, <2>2, SMTT(30) DEF Connected, Slots, None
    <3>2. /\ pc'[p] = "flush_del" /\ call'[p] = "exec" /\ db'[p] = next[p] /\ ~Marked(next[p])
          /\ UNCHANGED <<index, content, next, max_db, flaky>>
      BY <1>5, <1>a, <1>d, <2>2, <3>1 DEF FlushGet, HasExcept, TypeOK
    <3> QED
      BY <1>2, <3>2, Zenon
  <2> QED
    BY <1>5, <1>d, <2>1, <2>2, ZenonT(40) DEF FlushGet, Answered
<1>6. CASE FlushSlot(p)
  <2>1. pc[p] = "flush_del" /\ Answered(p) => CanRelease(p)
    <3> SUFFICES ASSUME pc[p] = "flush_del", Answered(p) PROVE conn[p] # None
      BY Zenon DEF CanRelease
    <3>1. call[p] \in {"ok", "nil"}
      BY <1>d, ZenonT(40) DEF Answered
    <3> QED BY <1>a, <3>1, SlotsAreNotNone, ZenonT(40) DEF Connected
  <2>2. CASE pc[p] = "flush_hdel" /\ FlushNext(p, [index EXCEPT ![db[p]] = "free"])
    <3> DEFINE idx == [index EXCEPT ![db[p]] = "free"]
    <3>1. /\ \A d \in Slots : d # next[p] => idx[d] = index[d]
          /\ next[p] \in Slots => idx[next[p]] = "free"
      BY <1>a, <1>d, <2>2, Zenon DEF TypeOK
    <3> HIDE DEF idx
    <3>2. FlushNext(p, idx)
      BY <2>2, Zenon DEF idx
    <3> QED
      BY <1>1, <3>1, <3>2, SMTT(30)
  <2>3. CASE \/ pc[p] = "flush_del" /\ Goto(p, "flush_sel0") /\ UNCHANGED dataVars
             \/ /\ pc[p] = "flush_sel0" /\ Goto(p, "flush_hdel")
                /\ UNCHANGED <<next, db, max_db, modeVars, serverVars>>
    <3>1. /\ pc'[p] \in {"flush_sel0", "flush_hdel"} /\ call'[p] = "no" /\ db'[p] = next[p]
          /\ ~Marked(next[p]) /\ UNCHANGED <<index, content, next, max_db, flaky>>
      BY <1>a, <1>d, <2>3 DEF TypeOK
    <3> QED
      BY <1>2, <3>1, SMTT(30)
  <2> QED
    BY <1>6, <1>c, <2>1, <2>2, <2>3, ZenonT(40) DEF FlushSlot
<1> QED
  BY <1>3, <1>4, <1>5, <1>6, <1>b, Zenon DEF FlushStep

\* A command of a redis_flush_all whose connection holds: LINDEX and FLUSHDB.
LEMMA FlushExec ==
  ASSUME FlushInv, NEW p \in Proc, redis_cmd(p), pc[p] \in FlushPcs, ~flaky[p]
  PROVE  /\ pc[p] \in {"flush_get", "flush_del"} /\ call[p] = "exec"
         /\ conn[p] = next[p] /\ next[p] \in Slots
         /\ call'[p] = IF pc[p] = "flush_get" /\ ~Marked(next[p]) THEN "nil" ELSE "ok"
         /\ pc[p] = "flush_get" => content' = content
         /\ pc[p] = "flush_del" => content' = [content EXCEPT ![next[p]] = {}]
         /\ UNCHANGED <<index, pc, next, db, max_db, flaky>>
<1>1. TypeOK /\ Connected(p) /\ ~Lossy(p)
  BY Zenon DEF FlushInv, Inv, Lossy
<1>2. call[p] \in {"no", "exec", "ok", "nil"} /\ (pc[p] # "flush_probe" => db[p] = next[p])
  BY Zenon DEF FlushInv, Flushing
<1>3. Exec(p) /\ call[p] = "exec"
  BY <1>2, Zenon DEF redis_cmd, Connect, Claim, Select, Exec
<1>4. pc[p] \in {"flush_get", "flush_del"}
  BY <1>1, <1>3, SMTT(30) DEF Connected, CmdPcs, NewPcs, FlushPcs
<1>5. conn[p] = db[p] /\ db[p] \in Slots /\ conn[p] # Broken
  BY <1>1, <1>3, <1>4, SMTT(30) DEF Connected
<1>6. Effect(p) /\ call' = [call EXCEPT ![p] = Answer(p)]
      /\ UNCHANGED <<index, pc, next, db, max_db, flaky>>
  BY <1>1, <1>3, <1>5, ZenonT(40) DEF Exec, modeVars
<1> QED
  BY <1>1, <1>2, <1>3, <1>4, <1>5, <1>6, SMTT(30) DEF Effect, Answer, TypeOK

\* It finds out about the marker, or empties a slot that does not have it.
LEMMA FlushCmdSpares ==
  ASSUME FlushInv, NEW p \in Proc, redis_cmd(p), pc[p] \in FlushPcs, ~flaky[p]
  PROVE  Flushing(p)'
<1> DEFINE n == next[p]
<1>1. /\ pc[p] \in {"flush_get", "flush_del"} /\ n \in Slots /\ next' = next
      /\ call'[p] = IF pc[p] = "flush_get" /\ ~Marked(n) THEN "nil" ELSE "ok"
      /\ pc[p] = "flush_get" => content' = content
      /\ pc[p] = "flush_del" => content' = [content EXCEPT ![n] = {}]
      /\ UNCHANGED <<index, pc, next, db, max_db, flaky>>
  BY FlushExec, Zenon
<1>2. /\ max_db[p] = MaxDb /\ \A d \in Slots : d < n => Spared(d)
      /\ db[p] = n /\ content \in [Slots -> SUBSET (Labels \X Keys)]
  BY <1>1, SMTT(30) DEF FlushInv, Flushing, Inv, TypeOK
<1>3. \A d \in Slots : d # n => (Marked(d)' <=> Marked(d))
  BY <1>1, <1>2, ZenonT(40) DEF Marked
<1>4. \A d \in Slots : d < n => d # n
  BY <1>1, MaxDbAssumption DEF Slots
<1>5. \A d \in Slots : d < n => Spared(d)'
  BY <1>1, <1>2, <1>3, <1>4, Zenon DEF Spared
<1>6. pc[p] = "flush_get" => (Marked(n)' <=> Marked(n))
  BY <1>1, Zenon DEF Marked
<1>7. pc[p] = "flush_del" => content'[n] = {}
  BY <1>1, <1>2, SMTT(30)
<1>8. next'[p] = n /\ (Marked(next[p])' <=> \E l \in Labels : <<l, "mark">> \in content'[n])
  BY <1>1, Zenon DEF Marked
<1> QED
  BY <1>1, <1>2, <1>5, <1>6, <1>7, <1>8, Zenon DEF Flushing, Marked

\* What a process does in redis_flush_all.
LEMMA FlushSteps ==
  ASSUME NEW p \in Proc, Step(p) \/ Start(p), pc[p] \in FlushPcs
  PROVE  redis_cmd(p) \/ FlushStep(p) \/ Crash(p)
BY Zenon DEF Step, Start, FlushPcs, NewStep, SetMark, NoMark, AddStrEnd, DeleteStep, FindStep,
   FindProbe, FindSelect, FindMiss, Found, redis_new, nvticache_init, redis_find, StartFind,
   redis_add_str, redis_lnk_reset, redis_direct_conn, Leave, redis_delete, redis_flush_all, Restart

\* The only way into the loop of redis_flush_all.
LEMMA FlushEnters ==
  ASSUME TypeOK, NEW p \in Proc, Step(p) \/ Start(p), pc[p] \notin FlushPcs, pc'[p] \in FlushPcs
  PROVE  redis_flush_all(p)
<1>a. \A at : Goto(p, at) \/ CallCmd(p, at) => pc'[p] = at
  BY Zenon DEF Goto, CallCmd, TypeOK
<1>b. StartNew(p) => pc'[p] = "new_ctx"
  BY DEF StartNew, TypeOK
<1>c. \A idx, at : Free(p, idx, at) => pc'[p] = at
  BY <1>a, ZenonT(40) DEF Free
<1> USE DEF FlushPcs
<1>1. ~redis_cmd(p)
  BY ZenonT(40) DEF redis_cmd, Connect, Claim, Select, Exec
<1>2. ~NewStep(p)
  BY <1>a, ZenonT(40) DEF NewStep
<1>3. ~SetMark(p) /\ ~NoMark(p) /\ ~AddStrEnd(p) /\ ~Found(p)
  BY <1>a, ZenonT(40) DEF SetMark, NoMark, AddStrEnd, Found
<1>4. ~DeleteStep(p)
  BY <1>a, <1>c, Zenon DEF DeleteStep, AfterDelete
<1>5. ~FindStep(p)
  <2>1. ~NotFound(p)
    BY <1>a, <1>b, Zenon DEF NotFound
  <2>2. \A n : ~FindNext(p, n)
    BY <1>a, <2>1, Zenon DEF FindNext
  <2>3. ~FindSelect(p)
    BY <2>2 DEF FindSelect, TypeOK
  <2> QED
    BY <1>a, <2>1, <2>2, <2>3, ZenonT(40) DEF FindStep, FindProbe, FindMiss
<1>6. ~FlushStep(p)
  BY ZenonT(40) DEF FlushStep, FlushProbe, FlushSelect, FlushGet, FlushSlot
<1>7. ~redis_new(p) /\ ~nvticache_init(p) /\ ~redis_find(p) /\ ~Restart(p)
  BY <1>a, <1>b, ZenonT(40) DEF redis_new, nvticache_init, redis_find, StartFind, Restart
<1>8. ~redis_add_str(p) /\ ~redis_delete(p) /\ ~Leave(p) /\ ~Crash(p)
  BY <1>a, <1>c, SMTT(30) DEF redis_add_str, redis_delete, Leave, Crash
<1>9. ~redis_lnk_reset(p) /\ ~\E q \in Proc : redis_direct_conn(p, q)
  BY Zenon DEF redis_lnk_reset, redis_direct_conn, controlVars, TypeOK
<1> QED
  BY <1>1, <1>2, <1>3, <1>4, <1>5, <1>6, <1>7, <1>8, <1>9, ZenonT(40) DEF Step, Start

\* A process keeps to its redis_flush_all.
LEMMA FlushingOwn ==
  ASSUME FlushInv, NEW p \in Proc, Step(p) \/ Start(p)
  PROVE  Flushing(p)'
<1>a. TypeOK /\ FromFirst(p) /\ Connected(p)
  BY SMTT(30) DEF FlushInv, Inv
<1>1. CASE pc'[p] \notin FlushPcs
  BY <1>1, Zenon DEF Flushing
<1>2. CASE pc[p] \notin FlushPcs /\ pc'[p] \in FlushPcs
  <2>1. redis_flush_all(p)
    BY <1>a, <1>2, FlushEnters, SMTT(30)
  <2>2. next[p] = 1 /\ max_db[p] = MaxDb
    BY <1>a, <2>1, SMTT(30) DEF FromFirst, redis_flush_all, Connected, Seated, Pcs, Idle, FindPcs, FlushPcs,
                      TypeOK
  <2>3. pc'[p] = "flush_probe" /\ call'[p] = "no" /\ next' = next /\ max_db' = max_db
    BY <1>a, <2>1 DEF redis_flush_all, Goto, TypeOK
  <2>4. \A d \in Slots : ~(d < 1)
    BY MaxDbAssumption, SMTT(30) DEF Slots
  <2> QED
    BY <2>2, <2>3, <2>4, Zenon DEF Flushing
<1>3. CASE pc[p] \in FlushPcs /\ ~flaky[p] /\ pc'[p] \in FlushPcs
  <2>1. ~Crash(p)
    BY <1>a, <1>3, SMTT(30) DEF Crash, Free, Goto, FlushPcs, TypeOK
  <2> QED
    BY <1>3, <2>1, FlushSteps, FlushStepSpares, FlushCmdSpares, SMTT(30)
<1>4. CASE pc[p] \in FlushPcs /\ flaky[p] /\ pc'[p] \in FlushPcs
  <2>1. ~\E idx : Free(p, idx, "none") \/ Free(p, idx, "died")
    BY <1>a, <1>4, SMTT(30) DEF Free, Goto, FlushPcs, TypeOK
  <2>2. redis_cmd(p) \/ FlushStep(p)
    BY <1>4, <2>1, FlushSteps, SMTT(30) DEF Crash
  <2>3. max_db[p] = MaxDb
    BY <1>4 DEF FlushInv, Flushing
  <2>4. \A idx : FlushNext(p, idx) => UNCHANGED <<max_db, flaky>>
    BY <2>1, Zenon DEF FlushNext, modeVars
  <2>5. FlushStep(p) => UNCHANGED <<max_db, flaky>>
    BY <2>1, <2>4, ZenonT(40) DEF FlushStep, FlushProbe, FlushSelect, FlushGet, FlushSlot, modeVars,
                             dataVars
  <2>6. redis_cmd(p) => max_db'[p] = MaxDb /\ flaky' = flaky
    BY <1>a, <2>3, Zenon DEF redis_cmd, Connect, Claim, Select, Exec, modeVars, TypeOK
  <2> QED
    BY <1>4, <2>2, <2>3, <2>5, <2>6, Zenon DEF Flushing
<1> QED
  BY <1>1, <1>2, <1>3, <1>4, Zenon

\* The invariant is inductive.
LEMMA FlushInvNext == FlushInv /\ [Next]_vars => FlushInv'
<1> SUFFICES ASSUME FlushInv, [Next]_vars PROVE FlushInv'
  OBVIOUS
<1>1. Inv'
  BY InvNext, Zenon DEF FlushInv
<1>2. CASE UNCHANGED vars
  <2> USE <1>2 DEF vars
  <2>1. \A d : (Marked(d)' <=> Marked(d)) /\ (Spared(d)' <=> Spared(d))
    BY Zenon DEF Marked, Spared
  <2>2. ASSUME NEW p \in Proc PROVE FromFirst(p)' /\ Flushing(p)'
    <3>1. FromFirst(p) /\ Flushing(p)
      BY Zenon DEF FlushInv
    <3>2. FromFirst(p)'
      BY <3>1, Zenon DEF FromFirst
    <3>3. Marked(next[p])' <=> Marked(next[p])
      BY Zenon DEF Marked
    <3>4. Flushing(p)'
      BY <2>1, <3>1, <3>3, Zenon DEF Flushing
    <3> QED
      BY <3>2, <3>4, Zenon
  <2> QED
    BY <1>1, <2>2, SMTT(30) DEF FlushInv
<1>3. ASSUME NEW p \in Proc, Step(p) \/ Start(p) PROVE FlushInv'
  <2>1. FromFirst(p)' /\ Flushing(p)'
    BY <1>3, FromFirstStep, FlushingOwn, Zenon DEF FlushInv
  <2>2. ASSUME NEW q \in Proc \ {p} PROVE FromFirst(q)' /\ Flushing(q)'
    <3>1. /\ pc'[q] = pc[q] /\ call'[q] = call[q] /\ db'[q] = db[q] /\ next'[q] = next[q]
          /\ max_db'[q] = max_db[q] /\ flaky'[q] = flaky[q]
      BY <1>3, Frame, FrameLoop, Zenon DEF OthersKeep, FlushInv, Inv
    <3>2. FromFirst(q) /\ Flushing(q)
      BY Zenon DEF FlushInv
    <3>3. FromFirst(q)'
      BY <3>1, <3>2, Zenon DEF FromFirst
    <3>4. CASE pc[q] \in FlushPcs
      <4>1. pc[p] \in Idle
        BY <3>4, ZenonT(40) DEF FlushInv, Inv, Owns
      <4>2. UNCHANGED <<index, content>>
        BY <1>3, <3>4, <4>1, FlushAlone, ZenonT(40) DEF FlushInv, Inv, Restart, dataVars, serverVars
      <4>3. \A d : (Marked(d)' <=> Marked(d)) /\ (Spared(d)' <=> Spared(d))
        BY <4>2, SMTT(30) DEF Marked, Spared
      <4>4. Marked(next[q])' <=> Marked(next[q])
        BY <3>1, <4>2, Zenon DEF Marked
      <4> QED
        BY <3>1, <3>2, <3>3, <4>3, <4>4, ZenonT(40) DEF Flushing
    <3>5. CASE pc[q] \notin FlushPcs
      BY <3>1, <3>3, <3>5, Zenon DEF Flushing
    <3> QED
      BY <3>4, <3>5, SMTT(30)
  <2> QED
    BY <1>1, <2>1, <2>2, Zenon DEF FlushInv
<1> QED
  BY <1>2, <1>3 DEF Next

\* Whatever is there before the first step is in order.
LEMMA FlushInvInit == Init => FlushInv
<1>1. Init => \A p \in Proc : FromFirst(p) /\ Flushing(p)
  BY DEF Init, FromFirst, Flushing, FlushPcs
<1> QED
  BY <1>1, InvInit, Zenon DEF FlushInv

\* What a step does to the entries: a command, the marker, a handle that is
\* freed, or nothing.
LEMMA ContentSteps ==
  ASSUME NEW p \in Proc, Step(p) \/ Start(p)
  PROVE  \/ content' = content
         \/ Exec(p) /\ conn[p] # Broken /\ Effect(p)
         \/ SetMark(p)
         \/ \E idx, at : Free(p, idx, at)
<1>1. CASE redis_cmd(p)
  BY <1>1, Zenon DEF redis_cmd, Connect, Claim, Select, Exec, serverVars
<1>2. CASE \E idx : FlushNext(p, idx)
  BY <1>2, Zenon DEF FlushNext
<1>3. CASE FlushStep(p)
  BY <1>2, <1>3, Zenon DEF FlushStep, FlushProbe, FlushSelect, FlushGet, FlushSlot, dataVars,
                           serverVars
<1>4. CASE NewStep(p) \/ NoMark(p) \/ AddStrEnd(p) \/ FindStep(p) \/ Found(p) \/ DeleteStep(p)
  BY <1>4, Zenon DEF NewStep, NoMark, AddStrEnd, FindStep, Found, DeleteStep, dataVars, serverVars
<1>5. CASE Start(p)
  BY <1>5, Zenon DEF Start, redis_new, nvticache_init, redis_find, redis_add_str, redis_lnk_reset,
                     redis_direct_conn, Leave, redis_delete, redis_flush_all, Crash, Restart,
                     dataVars, serverVars
<1> QED
  BY <1>1, <1>3, <1>4, <1>5, Zenon DEF Step

\* The FLUSHDB of redis_new and redis_delete is on a slot without the marker, and
\* so is that of a redis_flush_all whose connection holds.
LEMMA UnmarkedFlush ==
  ASSUME FlushInv, NEW p \in Proc, Exec(p), conn[p] # Broken, ~flaky[p],
         pc[p] \in {"new_clean", "del_flush", "flush_del"}
  PROVE  conn[p] \in Slots /\ ~Marked(conn[p])
<1>1. TypeOK /\ Connected(p) /\ Owns(p) /\ Flushing(p) /\ call[p] = "exec"
  BY ZenonT(40) DEF FlushInv, Inv, Exec
<1>2. conn[p] = db[p] /\ db[p] \in Slots /\ db[p] # 0
  BY <1>1, SMTT(30) DEF Connected
<1>3. CASE pc[p] = "flush_del"
  BY <1>1, <1>2, <1>3, Zenon DEF Flushing, FlushPcs
<1>4. CASE pc[p] \in {"new_clean", "del_flush"}
  <2>1. Holds(p) /\ pc[p] \in Alone
    BY <1>2, <1>4, Zenon DEF Holds, FindPcs, FlushPcs, Alone, NewPcs, DelPcs
  <2>2. index[db[p]] = p
    BY <1>1, <2>1, Zenon DEF Owns
  <2>3. pc[p] \notin {"ready", "write"} \union FlushPcs
    BY <1>4, SMTT(30) DEF FlushPcs
  <2> QED
    BY <1>1, <1>2, <2>2, <2>3, ZenonT(40) DEF Owns
<1> QED
  BY <1>3, <1>4, SMTT(30)

\* A step keeps the markers.
LEMMA MarkedKept ==
  ASSUME FlushInv, NEW p \in Proc, Step(p) \/ Start(p), ~flaky[p], NEW d \in Slots, Marked(d)
  PROVE  Marked(d)'
<1>0. TypeOK /\ Connected(p)
  BY Zenon DEF FlushInv, Inv
<1>1. CASE content' = content
  BY <1>1, Zenon DEF Marked
<1>2. CASE Exec(p) /\ conn[p] # Broken /\ Effect(p)
  <2>1. CASE pc[p] \in {"new_clean", "del_flush", "flush_del"}
    <3>1. conn[p] \in Slots /\ conn[p] # d
      BY <1>2, <2>1, UnmarkedFlush, Zenon
    <3>2. content' = [content EXCEPT ![conn[p]] = {}]
      BY <1>2, <2>1, Zenon DEF Effect
    <3>3. content'[d] = content[d]
      BY <1>0, <3>1, <3>2, SMTT(30) DEF TypeOK
    <3> QED
      BY <3>3, SMTT(30) DEF Marked
  <2>2. CASE pc[p] \notin {"new_clean", "del_flush", "flush_del"}
    <3>1. content[d] \subseteq content'[d]
      BY <1>0, <1>2, <2>2 DEF Effect, TypeOK
    <3> QED
      BY <3>1, Zenon DEF Marked
  <2> QED
    BY <2>1, <2>2, Zenon
<1>3. CASE SetMark(p)
  <2>0. content' = content
          \/ content' = [content EXCEPT ![conn[p]] = @ \union {<<kb_of[p], "mark">>}]
    BY <1>3, Zenon DEF SetMark
  <2>1. content[d] \subseteq content'[d]
    <3>1. d \in DOMAIN content
      BY <1>0, Zenon DEF TypeOK
    <3> QED BY <2>0, <3>1, Zenon
  <2> QED
    BY <2>1, Zenon DEF Marked
<1>4. CASE \E idx, at : Free(p, idx, at)
  BY <1>0, <1>4, FreeSpares, Zenon
<1> QED
  BY <1>1, <1>2, <1>3, <1>4, ContentSteps, Zenon

\* Only a redis_flush_all whose connection breaks removes the marker of the cache:
\* no redis_new, redis_delete or redis_flush_all empties a slot that has it.
THEOREM MarkerStays == Spec => MarkedSurvives
<1>1. ASSUME FlushInv, [Next]_vars
      PROVE  [\A d \in Slots : Marked(d) /\ (\A p \in Proc : ~flaky[p]) => Marked(d)']_vars
  BY <1>1, MarkedKept, Zenon DEF Next
<1>2. Spec => []FlushInv
  BY FlushInvInit, FlushInvNext, PTL DEF Spec
<1> QED
  BY <1>1, <1>2, PTL DEF Spec, MarkedSurvives

\* A redis_flush_all whose connection holds leaves only slots with the except key:
\* its loop misses none, and it releases what crashed processes left behind.
THEOREM FlushIsComplete == Spec => FlushFreesTheRest
<1>1. ASSUME FlushInv, [Next]_vars
      PROVE  [\A p \in Proc :
                pc[p] \in FlushPcs /\ ~flaky[p] /\ pc'[p] = "none"
                  => \A d \in Slots : index'[d] = "free" \/ Marked(d)']_vars
  <2> SUFFICES ASSUME Next, NEW p \in Proc, pc[p] \in FlushPcs, ~flaky[p], pc'[p] = "none"
               PROVE  \A d \in Slots : index'[d] = "free" \/ Marked(d)'
    BY <1>1, Zenon
  <2>1. PICK q \in Proc : Step(q) \/ Start(q)
    BY Zenon DEF Next
  <2>2. TypeOK
    BY <1>1, SMTT(30) DEF FlushInv, Inv
  <2>3. q = p
    <3>1. pc[p] # "none"
      BY SMTT(30) DEF FlushPcs
    <3> QED
      BY <2>1, <2>2, <3>1, Frame, Zenon DEF OthersKeep
  <2>4. ~Crash(p) /\ ~redis_cmd(p)
    BY <2>2, ZenonT(40) DEF Crash, Free, Goto, redis_cmd, Connect, Claim, Select, Exec, FlushPcs, TypeOK
  <2>5. FlushStep(p)
    BY <2>1, <2>3, <2>4, FlushSteps, Zenon
  <2> QED
    BY <1>1, <2>5, FlushStepSpares, Zenon DEF Spared
<1>2. Spec => []FlushInv
  BY FlushInvInit, FlushInvNext, PTL DEF Spec
<1> QED
  BY <1>1, <1>2, PTL DEF Spec, FlushFreesTheRest
=============================================================================
