------------------------------- MODULE KbItems -------------------------------
(***************************************************************************)
(* The item operations of util/kb.c on one name of a knowledge base, which *)
(* Redis keeps as a list.  Several processes work on it.  An operation is  *)
(* either one command of redis_cmd, repeated once when the connection      *)
(* breaks, or a pipeline of commands between which other processes get     *)
(* their turn.                                                             *)
(***************************************************************************)
EXTENDS Integers, Sequences, FiniteSets, SequencesExt

CONSTANTS Client,     \* processes with a handle of the KB
          Value,      \* values that are stored, positive numbers
          Profiles,   \* how the name is used
          MaxWrites,  \* bound: number of writing operations
          MaxBreaks   \* bound: how often connections break

ASSUME ClientAssumption == IsFiniteSet(Client)
ASSUME ValueAssumption == Value \subseteq Nat \ {0}
ASSUME ProfilesAssumption ==
  Profiles \subseteq {"queue", "value", "list", "unique", "volatile"}
ASSUME MaxWritesAssumption == MaxWrites \in Nat
ASSUME MaxBreaksAssumption == MaxBreaks \in Nat

VARIABLES
  profile,  \* the operations the processes use on this name
  list,     \* the list in Redis; a name without entries does not exist
  ttl,      \* whether the name has a time to live
  conn,     \* rctx of each handle: "none", "up" or "broken"
  kind,     \* what each process is in: "idle", "cmd" or "pipe"
  todo,     \* the commands it still has to send
  tried,    \* redis_cmd: the command is repeated
  dangling, \* pipeline: rep is not NULL when no further reply comes
  writes,   \* number of writing operations so far
  breaks,   \* number of broken or refused connections so far
  \* history
  acked,    \* values whose operation was answered and returned 0
  order,    \* values of a queue in the order in which they were pushed
  got,      \* values that redis_pop_str returned, in order
  dropped,  \* values whose RPOP was executed but not answered
  cut       \* a connection broke in a pipeline

vars == <<profile, list, ttl, conn, kind, todo, tried, dangling, writes, breaks,
          acked, order, got, dropped, cut>>

clientVars == <<conn, kind, todo, tried, dangling>>
serverVars == <<list, ttl, order>>
historyVars == <<acked, got, dropped, cut>>

Commands == [cmd : {"LPUSH", "RPUSH", "LREM", "EXEC", "EXPIRE", "RPOP",
                    "LINDEX", "LRANGE", "DEL"},
             val : Nat]

Cmd(c, v) == [cmd |-> c, val |-> v]

NIL == 0

Init ==
  /\ profile \in Profiles
  /\ list = <<>>
  /\ ttl = FALSE
  /\ conn = [c \in Client |-> "up"]
  /\ kind = [c \in Client |-> "idle"]
  /\ todo = [c \in Client |-> <<>>]
  /\ tried = [c \in Client |-> FALSE]
  /\ dangling = [c \in Client |-> FALSE]
  /\ writes = 0
  /\ breaks = 0
  /\ acked = {}
  /\ order = <<>>
  /\ got = <<>>
  /\ dropped = {}
  /\ cut = FALSE

-----------------------------------------------------------------------------
(* The Redis server: what a command does to the list.                      *)

\* LREM name 1 v: the first occurrence.
Lrem(s, v) ==
  IF \E i \in 1 .. Len(s) : s[i] = v
  THEN RemoveAt(s, CHOOSE i \in 1 .. Len(s) :
                     s[i] = v /\ \A j \in 1 .. i - 1 : s[j] # v)
  ELSE s

NewList(m) ==
  CASE m.cmd = "LPUSH" -> <<m.val>> \o list
    [] m.cmd = "RPUSH" -> Append(list, m.val)
    [] m.cmd = "LREM" -> Lrem(list, m.val)
    [] m.cmd = "EXEC" -> <<m.val>>           \* MULTI, DEL, RPUSH, EXEC
    [] m.cmd = "RPOP" -> IF list = <<>> THEN list ELSE Front(list)
    [] m.cmd = "DEL" -> <<>>
    [] OTHER -> list

\* A list that becomes empty goes away with its time to live.
Execute(m) ==
  /\ list' = NewList(m)
  /\ ttl' = CASE m.cmd = "EXPIRE" -> list # <<>>
              [] m.cmd \in {"EXEC", "DEL"} -> FALSE
              [] OTHER -> ttl /\ NewList(m) # <<>>
  /\ order' = IF profile = "queue" /\ m.cmd \in {"LPUSH", "RPUSH"}
              THEN Append(order, m.val) ELSE order

\* The time to live ends.
Expire ==
  /\ ttl
  /\ list' = <<>>
  /\ ttl' = FALSE
  /\ UNCHANGED <<profile, order, clientVars, writes, breaks, historyVars>>

-----------------------------------------------------------------------------
(* redis_cmd and pipelines.                                                *)

\* An operation starts: k says how its commands are sent, d whether its reply
\* pointer holds something else than NULL.
Begin(c, k, commands, d) ==
  /\ kind[c] = "idle"
  /\ kind' = [kind EXCEPT ![c] = k]
  /\ todo' = [todo EXCEPT ![c] = commands]
  /\ tried' = [tried EXCEPT ![c] = FALSE]
  /\ dangling' = [dangling EXCEPT ![c] = d]
  /\ UNCHANGED <<profile, serverVars, conn, breaks, historyVars>>

\* The operation returns.
Return(c) ==
  /\ kind' = [kind EXCEPT ![c] = "idle"]
  /\ todo' = [todo EXCEPT ![c] = <<>>]
  /\ tried' = [tried EXCEPT ![c] = FALSE]
  /\ dangling' = [dangling EXCEPT ![c] = FALSE]

Current(c) == Head(todo[c])

\* A missing reply is taken for success.
Mutant_CmdFailed(c) == "ok"

\* The operations on top of redis_cmd return an error for a missing reply.
CmdFailed(c) == "fail"

LastTry(c) == tried[c]

Acknowledge(c, r) ==
  acked' = IF r = "ok" /\ Current(c).val # NIL
           THEN acked \union {Current(c).val} ELSE acked

\* The connection of c fails: it cannot be made, or breaks when it is there.
Break(c) ==
  /\ conn[c] # "broken"
  /\ breaks < MaxBreaks
  /\ breaks' = breaks + 1

\* The command is executed and answered.
CmdAnswered(c) ==
  /\ kind[c] = "cmd"
  /\ conn[c] # "broken"
  /\ Execute(Current(c))
  /\ conn' = [conn EXCEPT ![c] = "up"]
  /\ Return(c)
  /\ Acknowledge(c, "ok")
  /\ got' = IF Current(c).cmd = "RPOP" /\ list # <<>>
            THEN Append(got, Last(list)) ELSE got
  /\ UNCHANGED <<profile, writes, breaks, dropped, cut>>

\* The connection breaks before or after the server has executed the command, or
\* was already broken; redis_cmd closes it and tries again once.
CmdBroken(c) ==
  /\ kind[c] = "cmd"
  /\ \/ conn[c] = "broken" /\ UNCHANGED <<serverVars, breaks, dropped>>
     \/ Break(c) /\ UNCHANGED <<serverVars, dropped>>
     \/ /\ Break(c)
        /\ Execute(Current(c))
        /\ dropped' = IF Current(c).cmd = "RPOP" /\ list # <<>>
                      THEN dropped \union {Last(list)} ELSE dropped
  /\ conn' = [conn EXCEPT ![c] = "none"]
  /\ IF LastTry(c)
     THEN Return(c) /\ Acknowledge(c, CmdFailed(c))
     ELSE /\ tried' = [tried EXCEPT ![c] = TRUE]
          /\ UNCHANGED <<kind, todo, dangling, acked>>
  /\ UNCHANGED <<profile, writes, got, cut>>

\* get_redis_ctx cannot make a connection, for either kind of operation.
NoConnection(c) ==
  /\ kind[c] # "idle"
  /\ conn[c] = "none"
  /\ Break(c)
  /\ Return(c)
  /\ UNCHANGED <<profile, serverVars, conn, writes, historyVars>>

\* EXPIRE on a name that has gone meanwhile is reported as an error.
PipeResult(c) ==
  IF Current(c).cmd = "EXPIRE" /\ list = <<>> THEN "fail" ELSE "ok"

\* One command of a pipeline is executed, and the last one answered.
PipeStep(c) ==
  /\ kind[c] = "pipe"
  /\ conn[c] # "broken"
  /\ conn' = [conn EXCEPT ![c] = "up"]
  /\ Execute(Current(c))
  /\ IF Len(todo[c]) = 1
     THEN Return(c) /\ Acknowledge(c, PipeResult(c))
     ELSE /\ todo' = [todo EXCEPT ![c] = Tail(@)]
          /\ dangling' = [dangling EXCEPT ![c] = TRUE]
          /\ UNCHANGED <<kind, tried, acked>>
  /\ UNCHANGED <<profile, writes, breaks, got, dropped, cut>>

\* The connection breaks in a pipeline and stays in the handle.  redisGetReply
\* then leaves rep as it is.  A rep that was freed, or was never set, is used
\* nevertheless: the process may die, or take it for either answer.  Another
\* process takes the place of one that died.
PipeBroken(c) ==
  /\ kind[c] = "pipe"
  /\ \/ conn[c] = "broken" /\ UNCHANGED <<serverVars, breaks>>
     \/ Break(c) /\ UNCHANGED serverVars
     \/ /\ Break(c)
        /\ Len(todo[c]) = 1
        /\ Execute(Current(c))
  /\ Return(c)
  /\ \/ conn' = [conn EXCEPT ![c] = "broken"]
     \/ dangling[c] /\ conn' = [conn EXCEPT ![c] = "none"]
  /\ cut' = TRUE
  /\ UNCHANGED <<profile, writes, acked, got, dropped>>

redis_cmd(c) == CmdAnswered(c) \/ CmdBroken(c)

redis_lnk_reset(c) ==
  /\ kind[c] = "idle"
  /\ conn[c] # "none"
  /\ conn' = [conn EXCEPT ![c] = "none"]
  /\ UNCHANGED <<profile, serverVars, kind, todo, tried, dangling,
                 writes, breaks, historyVars>>

-----------------------------------------------------------------------------
(* The operations.                                                         *)

Write(p) ==
  /\ profile = p
  /\ writes < MaxWrites
  /\ writes' = writes + 1

Read(p) ==
  /\ profile \in p
  /\ UNCHANGED writes

\* The new value goes to the end the values are taken from.
Mutant_PushCmd(v) == Cmd("RPUSH", v)

PushCmd(v) == Cmd("LPUSH", v)

\* Every value of a queue is a new one, so that the properties can tell them
\* apart.
redis_push_str(c) ==
  /\ Write("queue")
  /\ Begin(c, "cmd", <<PushCmd(writes')>>, FALSE)

redis_pop_str(c) ==
  /\ Read({"queue"})
  /\ Begin(c, "cmd", <<Cmd("RPOP", NIL)>>, FALSE)

redis_add_str(c, v) ==
  /\ Write("list")
  /\ Begin(c, "cmd", <<Cmd("RPUSH", v)>>, FALSE)

redis_add_int(c, v) == redis_add_str(c, v)

redis_del_items(c) ==
  /\ Write("list")
  /\ Begin(c, "cmd", <<Cmd("DEL", NIL)>>, FALSE)

redis_get_single(c) ==
  /\ Read({"value", "list"})
  /\ Begin(c, "cmd", <<Cmd("LINDEX", NIL)>>, FALSE)

redis_get_all(c) ==
  /\ Read({"list", "unique", "volatile"})
  /\ Begin(c, "cmd", <<Cmd("LRANGE", NIL)>>, FALSE)

\* Without MULTI and EXEC.
Mutant_SetCmds(v) == <<Cmd("DEL", NIL), Cmd("RPUSH", v)>>

SetCmds(v) == <<Cmd("EXEC", v)>>

\* The commands between MULTI and EXEC take
\* effect at EXEC, and their replies come before the one of EXEC.
redis_set_str(c, v) ==
  /\ Write("value")
  /\ Begin(c, "pipe", SetCmds(v), conn[c] # "broken")

redis_set_int(c, v) == redis_set_str(c, v)

\* The old occurrence is not removed.
Mutant_UniqueCmds(v, push) == <<Cmd(push, v)>>

UniqueCmds(v, push) == <<Cmd("LREM", v), Cmd(push, v)>>

redis_add_str_unique(c, v) ==
  /\ Write("unique")
  /\ \E push \in {"RPUSH", "LPUSH"} :
       Begin(c, "pipe", UniqueCmds(v, push), FALSE)

\* The reply pointer is not initialized.
redis_add_int_unique(c, v) ==
  /\ Write("unique")
  /\ Begin(c, "pipe", UniqueCmds(v, "RPUSH"), TRUE)

\* The time to live is set before there is an entry.
Mutant_VolatileCmds(v, push) ==
  <<Cmd("EXPIRE", NIL), Cmd("LREM", v), Cmd(push, v)>>

VolatileCmds(v, push) ==
  <<Cmd("LREM", v), Cmd(push, v), Cmd("EXPIRE", NIL)>>

redis_add_str_unique_volatile(c, v) ==
  /\ Write("volatile")
  /\ \E push \in {"RPUSH", "LPUSH"} :
       Begin(c, "pipe", VolatileCmds(v, push), FALSE)

\* The reply pointer is not initialized.
redis_add_int_unique_volatile(c, v) ==
  /\ Write("volatile")
  /\ Begin(c, "pipe", VolatileCmds(v, "RPUSH"), TRUE)

Operation(c) ==
  \/ redis_push_str(c) \/ redis_pop_str(c)
  \/ redis_get_single(c) \/ redis_get_all(c) \/ redis_del_items(c)
  \/ \E v \in Value : \/ redis_add_str(c, v) \/ redis_add_int(c, v)
                      \/ redis_set_str(c, v) \/ redis_set_int(c, v)
                      \/ redis_add_str_unique(c, v)
                      \/ redis_add_int_unique(c, v)
                      \/ redis_add_str_unique_volatile(c, v)
                      \/ redis_add_int_unique_volatile(c, v)

Next ==
  \/ Expire
  \/ \E c \in Client : \/ Operation(c) \/ redis_lnk_reset(c)
                       \/ redis_cmd(c) \/ NoConnection(c)
                       \/ PipeStep(c) \/ PipeBroken(c)

Spec == Init /\ [][Next]_vars

-----------------------------------------------------------------------------
(* Properties.                                                             *)

\* Type invariant: what each variable can hold.
TypeOK ==
  /\ profile \in {"queue", "value", "list", "unique", "volatile"}
  /\ list \in Seq(Nat)
  /\ ttl \in BOOLEAN
  /\ conn \in [Client -> {"none", "up", "broken"}]
  /\ kind \in [Client -> {"idle", "cmd", "pipe"}]
  /\ todo \in [Client -> Seq(Commands)]
  /\ tried \in [Client -> BOOLEAN]
  /\ dangling \in [Client -> BOOLEAN]
  /\ writes \in Nat
  /\ breaks \in Nat
  /\ acked \subseteq Nat
  /\ order \in Seq(Nat)
  /\ got \in Seq(Nat)
  /\ dropped \subseteq Nat
  /\ cut \in BOOLEAN

\* Replacing a value is atomic: of a name that is only written by kb_item_set_*
\* no reader ever sees two values, nor none after the first answered write,
\* whatever the processes do at the same time and wherever connections break.
SetIsAtomic ==
  profile = "value" =>
    /\ Len(list) <= 1
    /\ acked # {} => Len(list) = 1

\* A queue of kb_item_push_str and kb_item_pop_str keeps every value whose push
\* was reported as done until it is handed out; only an RPOP whose answer got
\* lost takes a value with it.
QueueKeepsValues ==
  profile = "queue" =>
    acked \subseteq ToSet(list) \union ToSet(got) \union dropped

\* A queue hands its values out in the order in which they came in, also when
\* the push or the pop of a value was repeated by redis_cmd.
QueueIsFifo ==
  profile = "queue" /\ dropped = {} => got \o Reverse(list) = order

Copies(v) == Cardinality({i \in 1 .. Len(list) : list[i] = v})

\* kb_item_add_*_unique leaves a value at most once per process that adds: LREM
\* and the push are two commands, so two processes can double a value, but
\* repeating that never gives a third copy.
BoundedCopies ==
  profile = "unique" => \A v \in Value : Copies(v) <= Cardinality(Client)

\* The entries of kb_item_add_*_unique_volatile go away: when no process is in
\* the middle of an operation and none was cut off in one, a name that is there
\* has a time to live.
VolatileExpires ==
  profile = "volatile" /\ list # <<>> =>
    ttl \/ cut \/ \E c \in Client : kind[c] = "pipe"

=============================================================================
