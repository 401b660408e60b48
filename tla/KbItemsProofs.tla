---------------------------- MODULE KbItemsProofs ----------------------------
(***************************************************************************)
(* Proofs about KbItems for any set of processes, any values and any       *)
(* number of operations and broken connections: types, the commands a      *)
(* process may have to send, single values and queues.                     *)
(***************************************************************************)
EXTENDS KbItems, WellFoundedInduction, TLAPS

\* The commands that add a value to a list.
Pushes == {"LPUSH", "RPUSH"}

\* What a process may have to send, by the use of the name.
Shape(c) ==
  /\ kind[c] = "idle" => todo[c] = <<>>
  /\ kind[c] = "cmd" =>
       /\ Len(todo[c]) = 1 /\ todo[c][1].cmd # "EXPIRE"
       /\ profile = "queue" => todo[c][1].cmd = "LPUSH" \/ todo[c][1] = Cmd("RPOP", NIL)
       /\ profile = "value" => todo[c][1] = Cmd("LINDEX", NIL)
       /\ profile \in {"unique", "volatile"} => todo[c][1].cmd = "LRANGE"
  /\ kind[c] = "pipe" =>
       \/ profile = "value" /\ \E v \in Value : todo[c] = <<Cmd("EXEC", v)>>
       \/ profile = "unique" /\ \E v \in Value, push \in Pushes :
            todo[c] \in {<<Cmd("LREM", v), Cmd(push, v)>>, <<Cmd(push, v)>>}
       \/ profile = "volatile" /\ \E v \in Value, push \in Pushes :
            \/ todo[c] = <<Cmd("LREM", v), Cmd(push, v), Cmd("EXPIRE", NIL)>>
            \/ /\ todo[c] \in {<<Cmd(push, v), Cmd("EXPIRE", NIL)>>,
                               <<Cmd("EXPIRE", NIL)>>}
               /\ conn[c] = "up"

\* Only volatile names have a time to live.
Lasting == profile # "volatile" => ~ttl

\* Types and control together: what the other invariants rest on.
Control == TypeOK /\ Lasting /\ \A c \in Client : Shape(c)
-----------------------------------------------------------------------------
(* What a command does.                                                    *)

\* Every non-empty set of numbers has a least one.
LEMMA Least ==
  ASSUME NEW T, T \subseteq Nat, T # {}
  PROVE  \E x \in T : \A y \in T : x <= y
<1>1. PICK x \in T : \A y \in T : ~(<<y, x>> \in OpToRel(<, Nat))
  BY NatLessThanWellFounded, WFMin, Zenon
<1>2. \A y \in T : ~(y < x)
  BY <1>1, Zenon DEF OpToRel
<1> QED
  BY <1>2

\* LREM takes out one occurrence, if there is one.
LEMMA LremOne ==
  ASSUME NEW s \in Seq(Nat), NEW v
  PROVE  \/ (\A i \in 1 .. Len(s) : s[i] # v) /\ Lrem(s, v) = s
         \/ \E k \in 1 .. Len(s) : s[k] = v /\ Lrem(s, v) = RemoveAt(s, k)
<1>1. CASE \E i \in 1 .. Len(s) : s[i] = v
  <2> DEFINE T == {i \in 1 .. Len(s) : s[i] = v}
             First(i) == s[i] = v /\ \A j \in 1 .. i - 1 : s[j] # v
  <2>1. T \subseteq Nat /\ T # {}
    BY <1>1
  <2>2. PICK x \in T : \A y \in T : x <= y
    BY <2>1, Least, Zenon
  <2>3. x \in 1 .. Len(s) /\ First(x)
    BY <2>2
  <2>4. (CHOOSE i \in 1 .. Len(s) : First(i)) \in 1 .. Len(s)
        /\ First(CHOOSE i \in 1 .. Len(s) : First(i))
    <3> HIDE DEF First
    <3> QED
      BY <2>3, Zenon
  <2>5. Lrem(s, v) = RemoveAt(s, CHOOSE i \in 1 .. Len(s) : First(i))
    BY <1>1, Zenon DEF Lrem
  <2> QED
    BY <2>4, <2>5, Zenon
<1>2. CASE ~\E i \in 1 .. Len(s) : s[i] = v
  BY <1>2, Zenon DEF Lrem
<1> QED
  BY <1>1, <1>2

\* Two sequences one after the other.
LEMMA Concatenated ==
  ASSUME NEW S, NEW s \in Seq(S), NEW t \in Seq(S)
  PROVE  /\ s \o t \in Seq(S) /\ Len(s \o t) = Len(s) + Len(t)
         /\ \A i \in 1 .. Len(s) + Len(t) :
              (s \o t)[i] = IF i <= Len(s) THEN s[i] ELSE t[i - Len(s)]
OBVIOUS

\* Two sequences with the same entries are the same.
LEMMA SameEntries ==
  ASSUME NEW S, NEW s \in Seq(S), NEW t \in Seq(S),
         Len(s) = Len(t), \A k \in 1 .. Len(s) : s[k] = t[k]
  PROVE  s = t
OBVIOUS

\* Joining sequences is associative.
LEMMA Associative ==
  ASSUME NEW S, NEW s \in Seq(S), NEW t \in Seq(S), NEW u \in Seq(S)
  PROVE  (s \o t) \o u = s \o (t \o u)
<1> DEFINE a == (s \o t) \o u
           b == s \o (t \o u)
<1>1. /\ a \in Seq(S) /\ Len(a) = Len(s) + Len(t) + Len(u)
      /\ b \in Seq(S) /\ Len(b) = Len(s) + Len(t) + Len(u)
  OBVIOUS
<1>2. ASSUME NEW i \in 1 .. Len(a) PROVE a[i] = b[i]
  OBVIOUS
<1> HIDE DEF a, b
<1>3. a = b
  BY <1>1, <1>2, SameEntries, Zenon
<1> QED BY <1>3 DEF a, b

\* Appending is joining with a sequence of one entry.
LEMMA AppendJoins ==
  ASSUME NEW S, NEW s \in Seq(S), NEW e \in S
  PROVE  Append(s, e) = s \o <<e>>
OBVIOUS

\* The list without one entry.
LEMMA RemoveAtParts ==
  ASSUME NEW s \in Seq(Nat), NEW k \in 1 .. Len(s)
  PROVE  /\ RemoveAt(s, k) \in Seq(Nat)
         /\ Len(RemoveAt(s, k)) = Len(s) - 1
         /\ \A i \in 1 .. Len(s) - 1 :
              RemoveAt(s, k)[i] = IF i < k THEN s[i] ELSE s[i + 1]
<1> DEFINE a == SubSeq(s, 1, k - 1)
           b == SubSeq(s, k + 1, Len(s))
<1>1. a \in Seq(Nat) /\ Len(a) = k - 1 /\ \A i \in 1 .. k - 1 : a[i] = s[i]
  OBVIOUS
<1>2. b \in Seq(Nat) /\ Len(b) = Len(s) - k /\ \A i \in 1 .. Len(s) - k : b[i] = s[i + k]
  OBVIOUS
<1>3. RemoveAt(s, k) = a \o b
  BY Zenon DEF RemoveAt
<1> HIDE DEF a, b
<1>4. /\ a \o b \in Seq(Nat) /\ Len(a \o b) = Len(a) + Len(b)
      /\ \A i \in 1 .. Len(a) + Len(b) :
           (a \o b)[i] = IF i <= Len(a) THEN a[i] ELSE b[i - Len(a)]
  BY <1>1, <1>2, Concatenated, Zenon
<1>5. Len(a) + Len(b) = Len(s) - 1
  BY <1>1, <1>2
<1>6. ASSUME NEW i \in 1 .. Len(s) - 1, i < k PROVE (a \o b)[i] = s[i]
  <2>1. i <= Len(a) /\ i \in 1 .. k - 1
    BY <1>1, <1>6
  <2> QED BY <1>1, <1>4, <1>5, <2>1, ZenonT(40)
<1>7. ASSUME NEW i \in 1 .. Len(s) - 1, ~(i < k) PROVE (a \o b)[i] = s[i + 1]
  <2>1. i - Len(a) \in 1 .. Len(s) - k /\ (i - Len(a)) + k = i + 1 /\ ~(i <= Len(a))
    BY <1>1, <1>7
  <2> QED BY <1>2, <1>4, <1>5, <2>1, ZenonT(40)
<1> QED BY <1>3, <1>4, <1>5, <1>6, <1>7, ZenonT(40)

\* The list a command leaves is a list of values.
LEMMA NewListType ==
  ASSUME list \in Seq(Nat), NEW m \in Commands
  PROVE  NewList(m) \in Seq(Nat)
<1>1. m.val \in Nat /\ m.cmd \in {"LPUSH", "RPUSH", "LREM", "EXEC", "EXPIRE", "RPOP",
                                  "LINDEX", "LRANGE", "DEL"}
  BY Zenon DEF Commands
<1>2. Lrem(list, m.val) \in Seq(Nat)
  BY LremOne, RemoveAtParts
<1>3. list # <<>> => Front(list) \in Seq(Nat)
  BY DEF Front
<1>4. <<m.val>> \o list \in Seq(Nat) /\ Append(list, m.val) \in Seq(Nat)
      /\ <<m.val>> \in Seq(Nat) /\ <<>> \in Seq(Nat)
  BY <1>1
<1> QED
  BY <1>1, <1>2, <1>3, <1>4, SMTT(30) DEF NewList
-----------------------------------------------------------------------------
(* Types and commands.                                                     *)

\* What Begin, Return and Execute leave is of the right type.
LEMMA ExecuteType ==
  ASSUME TypeOK, NEW m \in Commands, Execute(m)
  PROVE  list' \in Seq(Nat) /\ ttl' \in BOOLEAN /\ order' \in Seq(Nat)
<1>1. list' \in Seq(Nat)
  BY NewListType, Zenon DEF Execute, TypeOK
<1>2. ttl' \in BOOLEAN
  BY Zenon DEF Execute, TypeOK
<1>3. order' \in Seq(Nat)
  BY DEF Execute, TypeOK, Commands
<1> QED
  BY <1>1, <1>2, <1>3, SMTT(30)

\* An operation that starts has a command to send that fits the use of the name.
Starts(c) ==
  \E k \in {"cmd", "pipe"}, cs \in Seq(Commands), d \in BOOLEAN :
    /\ Begin(c, k, cs, d)
    /\ writes' \in Nat
    /\ k = "cmd" =>
         /\ Len(cs) = 1 /\ cs[1].cmd # "EXPIRE"
         /\ profile = "queue" => cs[1].cmd = "LPUSH" \/ cs[1] = Cmd("RPOP", NIL)
         /\ profile = "value" => cs[1] = Cmd("LINDEX", NIL)
         /\ profile \in {"unique", "volatile"} => cs[1].cmd = "LRANGE"
    /\ k = "pipe" =>
         \/ profile = "value" /\ \E v \in Value : cs = <<Cmd("EXEC", v)>>
         \/ profile = "unique" /\ \E v \in Value, push \in Pushes :
              cs = <<Cmd("LREM", v), Cmd(push, v)>>
         \/ profile = "volatile" /\ \E v \in Value, push \in Pushes :
              cs = <<Cmd("LREM", v), Cmd(push, v), Cmd("EXPIRE", NIL)>>

\* A single command is a sequence of commands.
LEMMA CmdType ==
  ASSUME NEW n \in {"LPUSH", "RPUSH", "LREM", "EXEC", "EXPIRE", "RPOP", "LINDEX",
                    "LRANGE", "DEL"}, NEW v \in Nat
  PROVE  Cmd(n, v) \in Commands /\ Cmd(n, v).cmd = n /\ Cmd(n, v).val = v
BY DEF Cmd, Commands

\* An operation of one command starts.
LEMMA StartsCmd ==
  ASSUME NEW c \in Client, NEW n \in {"LPUSH", "RPUSH", "RPOP", "LINDEX", "LRANGE", "DEL"},
         NEW v \in Nat, Begin(c, "cmd", <<Cmd(n, v)>>, FALSE), writes' \in Nat,
         profile = "queue" => n = "LPUSH" \/ (n = "RPOP" /\ v = NIL),
         profile = "value" => n = "LINDEX" /\ v = NIL,
         profile \in {"unique", "volatile"} => n = "LRANGE"
  PROVE  Starts(c)
<1> DEFINE cs == <<Cmd(n, v)>>
<1>1. cs \in Seq(Commands) /\ Len(cs) = 1 /\ cs[1] = Cmd(n, v) /\ cs[1].cmd = n
  BY CmdType
<1>2. Begin(c, "cmd", cs, FALSE)
  BY Zenon
<1> HIDE DEF cs
<1> QED
  BY <1>1, <1>2, Zenon DEF Starts

\* Every operation starts like this.
LEMMA OperationStarts ==
  ASSUME TypeOK, NEW c \in Client, Operation(c)
  PROVE  Starts(c)
<1> USE DEF NIL
<1>0. writes \in Nat /\ (conn[c] # "broken") \in BOOLEAN
  BY DEF TypeOK
<1>1. CASE redis_push_str(c)
  <2>1. writes' \in Nat /\ profile = "queue"
    BY <1>0, <1>1 DEF redis_push_str, Write
  <2>2. Begin(c, "cmd", <<Cmd("LPUSH", writes')>>, FALSE)
    BY <1>1, Zenon DEF redis_push_str, PushCmd
  <2> QED
    BY <2>1, <2>2, StartsCmd, ZenonT(40)
<1>2. CASE redis_pop_str(c)
  <2>1. writes' \in Nat /\ profile = "queue"
    BY <1>0, <1>2, Zenon DEF redis_pop_str, Read
  <2>2. Begin(c, "cmd", <<Cmd("RPOP", NIL)>>, FALSE)
    BY <1>2, Zenon DEF redis_pop_str
  <2> QED
    BY <2>1, <2>2, StartsCmd, ZenonT(40)
<1>3. CASE redis_get_single(c)
  <2>1. writes' \in Nat /\ profile \in {"value", "list"}
    BY <1>0, <1>3, Zenon DEF redis_get_single, Read
  <2>2. Begin(c, "cmd", <<Cmd("LINDEX", NIL)>>, FALSE)
    BY <1>3, Zenon DEF redis_get_single
  <2> QED
    BY <2>1, <2>2, StartsCmd, Zenon
<1>4. CASE redis_get_all(c)
  <2>1. writes' \in Nat /\ profile \in {"list", "unique", "volatile"}
    BY <1>0, <1>4, Zenon DEF redis_get_all, Read
  <2>2. Begin(c, "cmd", <<Cmd("LRANGE", NIL)>>, FALSE)
    BY <1>4, Zenon DEF redis_get_all
  <2> QED
    BY <2>1, <2>2, StartsCmd, Zenon
<1>5. CASE redis_del_items(c)
  <2>1. writes' \in Nat /\ profile = "list"
    BY <1>0, <1>5, SMTT(30) DEF redis_del_items, Write
  <2>2. Begin(c, "cmd", <<Cmd("DEL", NIL)>>, FALSE)
    BY <1>5, Zenon DEF redis_del_items
  <2> QED
    BY <2>1, <2>2, StartsCmd, Zenon
<1>6. ASSUME NEW v \in Value, redis_add_str(c, v) \/ redis_add_int(c, v)
      PROVE  Starts(c)
  <2>1. Write("list")
    BY <1>6, Zenon DEF redis_add_str, redis_add_int
  <2>2. Begin(c, "cmd", <<Cmd("RPUSH", v)>>, FALSE)
    BY <1>6, Zenon DEF redis_add_str, redis_add_int
  <2>3. writes' \in Nat /\ profile = "list"
    BY <1>0, <2>1 DEF Write
  <2> QED
    BY <2>2, <2>3, StartsCmd, ValueAssumption, ZenonT(40)
<1>7. ASSUME NEW v \in Value, redis_set_str(c, v) \/ redis_set_int(c, v)
      PROVE  Starts(c)
  <2>1. writes' \in Nat /\ Begin(c, "pipe", <<Cmd("EXEC", v)>>, conn[c] # "broken")
        /\ profile = "value"
    BY <1>0, <1>7, SMTT(30) DEF redis_set_str, redis_set_int, Write, SetCmds
  <2>2. <<Cmd("EXEC", v)>> \in Seq(Commands)
    BY CmdType, ValueAssumption, SMTT(30)
  <2> QED
    BY <1>0, <2>1, <2>2, Zenon DEF Starts
<1>8. ASSUME NEW v \in Value, redis_add_str_unique(c, v) \/ redis_add_int_unique(c, v)
      PROVE  Starts(c)
  <2>1. PICK push \in Pushes, d \in BOOLEAN :
          Begin(c, "pipe", <<Cmd("LREM", v), Cmd(push, v)>>, d)
    BY <1>8, Zenon DEF redis_add_str_unique, redis_add_int_unique, UniqueCmds, Pushes
  <2>4. Write("unique")
    BY <1>8, Zenon DEF redis_add_str_unique, redis_add_int_unique
  <2>2. writes' \in Nat /\ profile = "unique"
    BY <1>0, <2>4 DEF Write
  <2>3. <<Cmd("LREM", v), Cmd(push, v)>> \in Seq(Commands)
    BY CmdType, ValueAssumption, SMTT(30) DEF Pushes
  <2> QED
    BY <2>1, <2>2, <2>3, ZenonT(40) DEF Starts
<1>9. ASSUME NEW v \in Value,
             redis_add_str_unique_volatile(c, v) \/ redis_add_int_unique_volatile(c, v)
      PROVE  Starts(c)
  <2>1. PICK push \in Pushes, d \in BOOLEAN :
          Begin(c, "pipe", <<Cmd("LREM", v), Cmd(push, v), Cmd("EXPIRE", NIL)>>, d)
    BY <1>9, Zenon DEF redis_add_str_unique_volatile, redis_add_int_unique_volatile,
                VolatileCmds, Pushes
  <2>4. Write("volatile")
    BY <1>9, Zenon DEF redis_add_str_unique_volatile, redis_add_int_unique_volatile
  <2>2. writes' \in Nat /\ profile = "volatile"
    BY <1>0, <2>4 DEF Write
  <2>3. <<Cmd("LREM", v), Cmd(push, v), Cmd("EXPIRE", NIL)>> \in Seq(Commands)
    BY CmdType, ValueAssumption, SMTT(30) DEF Pushes
  <2> QED
    BY <2>1, <2>2, <2>3, Zenon DEF Starts
<1> QED
  BY <1>1, <1>2, <1>3, <1>4, <1>5, <1>6, <1>7, <1>8, <1>9, SMTT(30) DEF Operation
\* The command a process is about to send.
LEMMA CurrentCommand ==
  ASSUME Control, NEW c \in Client, kind[c] # "idle"
  PROVE  /\ todo[c] # <<>> /\ Len(todo[c]) \in Nat \ {0}
         /\ Current(c) = todo[c][1]
         /\ Current(c) \in Commands
         /\ Current(c).cmd = "EXPIRE" => profile = "volatile"
         /\ Current(c).cmd = "RPOP" => kind[c] = "cmd"
<1>1. todo[c] \in Seq(Commands) /\ Shape(c) /\ kind[c] \in {"cmd", "pipe"}
  BY Zenon DEF Control, TypeOK
<1>2. todo[c] # <<>> /\ Len(todo[c]) \in Nat \ {0}
  <2>1. todo[c] # <<>>
    <3>1. CASE kind[c] = "cmd"
      BY <1>1, <3>1, SMTT(30) DEF Shape
    <3>2. CASE kind[c] = "pipe"
      <4>1. \E v, w, push : todo[c] \in {<<Cmd("EXEC", v)>>,
                <<Cmd("LREM", v), Cmd(push, v)>>, <<Cmd(push, v)>>,
                <<Cmd("LREM", v), Cmd(push, v), w>>, <<Cmd(push, v), w>>, <<w>>}
        BY <1>1, <3>2, Zenon DEF Shape
      <4> QED
        BY <4>1
    <3> QED
      BY <1>1, <3>1, <3>2, ZenonT(40)
  <2> QED
    BY <1>1, <2>1, SMTT(30)
<1>3. Current(c) = todo[c][1] /\ Current(c) \in Commands
  BY <1>1, <1>2, SMTT(30) DEF Current
<1>4. Current(c).cmd = "EXPIRE" => profile = "volatile"
  <2>1. CASE kind[c] = "cmd"
    BY <1>1, <1>3, <2>1, Zenon DEF Shape
  <2>2. CASE kind[c] = "pipe" /\ profile = "value"
    <3>1. PICK v \in Value : todo[c] = <<Cmd("EXEC", v)>>
      BY <1>1, <2>2, Zenon DEF Shape
    <3> QED
      BY <1>3, <3>1 DEF Cmd
  <2>3. CASE kind[c] = "pipe" /\ profile = "unique"
    BY <1>1, <1>3, <2>3, SMTT(30) DEF Shape, Cmd, Pushes
  <2> QED
    BY <1>1, <2>1, <2>2, <2>3, ZenonT(40) DEF Shape
<1>5. Current(c).cmd = "RPOP" => kind[c] = "cmd"
  <2> SUFFICES ASSUME kind[c] = "pipe" PROVE todo[c][1].cmd # "RPOP"
    BY <1>1, <1>3
  <2>1. CASE profile = "value"
    <3>1. PICK v \in Value : todo[c] = <<Cmd("EXEC", v)>>
      BY <1>1, <2>1, Zenon DEF Shape
    <3> QED
      BY <3>1 DEF Cmd
  <2>2. CASE profile = "unique"
    BY <1>1, <2>2, SMTT(30) DEF Shape, Cmd, Pushes
  <2>3. CASE profile = "volatile"
    <3>1. PICK v \in Value, push \in Pushes :
            todo[c] \in {<<Cmd("LREM", v), Cmd(push, v), Cmd("EXPIRE", NIL)>>,
                         <<Cmd(push, v), Cmd("EXPIRE", NIL)>>, <<Cmd("EXPIRE", NIL)>>}
      BY <1>1, <2>3, ZenonT(40) DEF Shape
    <3> QED
      BY <3>1 DEF Cmd, Pushes
  <2> QED
    BY <1>1, <2>1, <2>2, <2>3, SMTT(30) DEF Shape
<1> QED
  BY <1>2, <1>3, <1>4, <1>5, ZenonT(40)

\* A process that does nothing keeps its commands, and one that returns has none.
LEMMA ShapeKept ==
  ASSUME NEW q \in Client, Shape(q), profile' = profile, kind'[q] = kind[q],
         todo'[q] = todo[q], conn'[q] = conn[q]
  PROVE  Shape(q)'
BY DEF Shape

\* A step of process c.
OthersKeep(c) ==
  \A q \in Client \ {c} : kind'[q] = kind[q] /\ todo'[q] = todo[q] /\ conn'[q] = conn[q]

\* A step of c keeps the commands of all if it keeps those of c.
LEMMA ShapeStep ==
  ASSUME Control, NEW c \in Client, profile' = profile, OthersKeep(c), Shape(c)'
  PROVE  \A q \in Client : Shape(q)'
<1> TAKE q \in Client
<1>1. CASE q = c
  BY <1>1, Zenon
<1>2. CASE q # c
  BY <1>2, ShapeKept DEF Control, OthersKeep
<1> QED
  BY <1>1, <1>2

\* An operation returns.
LEMMA ReturnStep ==
  ASSUME Control, NEW c \in Client, Return(c), profile' = profile,
         \E x \in {"none", "up", "broken"} : conn' = [conn EXCEPT ![c] = x]
  PROVE  /\ \A q \in Client : Shape(q)'
         /\ OthersKeep(c) /\ kind'[c] = "idle" /\ todo'[c] = <<>>
         /\ conn' \in [Client -> {"none", "up", "broken"}]
         /\ kind' \in [Client -> {"idle", "cmd", "pipe"}]
         /\ todo' \in [Client -> Seq(Commands)]
         /\ tried' \in [Client -> BOOLEAN]
         /\ dangling' \in [Client -> BOOLEAN]
<1>1. OthersKeep(c) /\ kind'[c] = "idle" /\ todo'[c] = <<>>
  BY Zenon DEF Return, OthersKeep, Control, TypeOK
<1>2. Shape(c)'
  BY <1>1, Zenon DEF Shape
<1>3. \A q \in Client : Shape(q)'
  BY <1>1, <1>2, ShapeStep, ZenonT(40)
<1>4. /\ conn' \in [Client -> {"none", "up", "broken"}]
      /\ kind' \in [Client -> {"idle", "cmd", "pipe"}]
      /\ tried' \in [Client -> BOOLEAN]
      /\ dangling' \in [Client -> BOOLEAN]
  BY DEF Return, Control, TypeOK
<1>5. todo' \in [Client -> Seq(Commands)]
  BY DEF Return, Control, TypeOK
<1> QED
  BY <1>1, <1>3, <1>4, <1>5, Zenon

\* An executed command keeps the lists and the rule for the time to live.
LEMMA ExecuteStep ==
  ASSUME Control, NEW c \in Client, kind[c] # "idle", Execute(Current(c)), profile' = profile
  PROVE  /\ list' \in Seq(Nat) /\ ttl' \in BOOLEAN /\ order' \in Seq(Nat)
         /\ Lasting'
<1>1. Current(c) \in Commands /\ (Current(c).cmd = "EXPIRE" => profile = "volatile")
  BY CurrentCommand, Zenon
<1>2. list' \in Seq(Nat) /\ ttl' \in BOOLEAN /\ order' \in Seq(Nat)
  BY <1>1, ExecuteType, Zenon DEF Control
<1>3. Lasting'
  BY <1>1, Zenon DEF Execute, Lasting, Control
<1> QED
  BY <1>2, <1>3, Zenon
\* The initial states.
LEMMA ControlInit == Init => Control
<1> SUFFICES ASSUME Init PROVE Control
  OBVIOUS
<1>1. TypeOK
  <2>1. <<>> \in Seq(Nat) /\ <<>> \in Seq(Commands)
    OBVIOUS
  <2> QED
    BY <2>1, ProfilesAssumption, Zenon DEF Init, TypeOK
<1>2. Lasting /\ \A c \in Client : Shape(c)
  BY DEF Init, Lasting, Shape
<1> QED
  BY <1>1, <1>2 DEF Control

\* Operations start with commands that fit.
LEMMA ControlBegin ==
  ASSUME Control, NEW c \in Client, Starts(c)
  PROVE  Control' /\ OthersKeep(c)
<1>1. PICK k \in {"cmd", "pipe"}, cs \in Seq(Commands), d \in BOOLEAN :
        Starts(c)!(k, cs, d)
  BY DEF Starts
<1>2. Begin(c, k, cs, d) /\ profile' = profile /\ UNCHANGED <<list, ttl, order, conn>>
  BY <1>1 DEF Begin, serverVars
<1>3. OthersKeep(c) /\ kind'[c] = k /\ todo'[c] = cs
  BY <1>2 DEF Begin, OthersKeep, Control, TypeOK
<1>4. Shape(c)'
  BY <1>1, <1>2, <1>3, ZenonT(40) DEF Shape
<1>5. TypeOK'
  BY <1>1, <1>2, SMTT(30) DEF Begin, Control, TypeOK, historyVars
<1>6. Lasting'
  BY <1>2, Zenon DEF Control, Lasting
<1> QED
  BY <1>2, <1>3, <1>4, <1>5, <1>6, ShapeStep, SMTT(30) DEF Control

\* redis_cmd: the command is answered.
LEMMA ControlCmdAnswered ==
  ASSUME Control, NEW c \in Client, CmdAnswered(c)
  PROVE  Control' /\ OthersKeep(c)
<1>1. kind[c] # "idle" /\ Execute(Current(c)) /\ Return(c) /\ profile' = profile
      /\ conn' = [conn EXCEPT ![c] = "up"]
  BY Zenon DEF CmdAnswered
<1>2. Current(c).val \in Nat
  BY <1>1, CurrentCommand, SMTT(30) DEF Commands
<1>3. acked' \subseteq Nat
  BY <1>2, Zenon DEF CmdAnswered, Acknowledge, Control, TypeOK
<1>4. got' \in Seq(Nat)
  BY DEF CmdAnswered, Control, TypeOK, Last
<1>5. UNCHANGED <<writes, breaks, dropped, cut>>
  BY DEF CmdAnswered
<1> QED
  BY <1>1, <1>3, <1>4, <1>5, ExecuteStep, ReturnStep, ZenonT(40) DEF Control, TypeOK

\* redis_cmd: the connection breaks.
LEMMA ControlCmdBroken ==
  ASSUME Control, NEW c \in Client, CmdBroken(c)
  PROVE  Control' /\ OthersKeep(c)
<1>1. kind[c] = "cmd" /\ profile' = profile /\ conn' = [conn EXCEPT ![c] = "none"]
      /\ UNCHANGED <<writes, got, cut>>
  BY Zenon DEF CmdBroken
<1>2. /\ list' \in Seq(Nat) /\ ttl' \in BOOLEAN /\ order' \in Seq(Nat) /\ Lasting'
      /\ breaks' \in Nat /\ dropped' \subseteq Nat
  <2>1. CASE UNCHANGED <<serverVars, dropped>>
    BY <1>1, <2>1, SMTT(30) DEF CmdBroken, Break, serverVars, Control, TypeOK, Lasting
  <2>2. CASE /\ Break(c)
             /\ Execute(Current(c))
             /\ dropped' = IF Current(c).cmd = "RPOP" /\ list # <<>>
                           THEN dropped \union {Last(list)} ELSE dropped
    <3>1. list # <<>> => Last(list) \in Nat
      BY DEF Control, TypeOK, Last
    <3>2. dropped' \subseteq Nat
      BY <2>2, <3>1, Zenon DEF Control, TypeOK
    <3>3. breaks' \in Nat
      BY <2>2 DEF Control, TypeOK, Break
    <3> QED
      BY <1>1, <2>2, <3>2, <3>3, ExecuteStep, ZenonT(40)
  <2> QED
    BY <2>1, <2>2, ZenonT(40) DEF CmdBroken
<1>3. CASE LastTry(c)
  <2>1. Return(c) /\ acked' = acked
    BY <1>3, Zenon DEF CmdBroken, Acknowledge, CmdFailed
  <2> QED
    BY <1>1, <1>2, <2>1, ReturnStep, ZenonT(40) DEF Control, TypeOK
<1>4. CASE ~LastTry(c)
  <2>1. tried' = [tried EXCEPT ![c] = TRUE] /\ UNCHANGED <<kind, todo, dangling, acked>>
    BY <1>4, Zenon DEF CmdBroken
  <2>2. OthersKeep(c) /\ Shape(c)'
    BY <1>1, <2>1, SMTT(30) DEF OthersKeep, Control, TypeOK, Shape
  <2>3. \A q \in Client : Shape(q)'
    BY <1>1, <2>2, ShapeStep, SMTT(30)
  <2>4. TypeOK'
    BY <1>1, <1>2, <2>1, ZenonT(40) DEF Control, TypeOK
  <2> QED
    BY <1>2, <2>2, <2>3, <2>4, ZenonT(40) DEF Control
<1> QED
  BY <1>3, <1>4

\* No connection can be made.
LEMMA ControlNoConnection ==
  ASSUME Control, NEW c \in Client, NoConnection(c)
  PROVE  Control' /\ OthersKeep(c)
<1>1. /\ kind[c] # "idle" /\ Return(c) /\ breaks' \in Nat /\ conn' = [conn EXCEPT ![c] = "none"]
      /\ UNCHANGED <<profile, list, ttl, order, writes, acked, got, dropped, cut>>
  BY DEF NoConnection, Break, serverVars, historyVars, Control, TypeOK
<1> QED
  BY <1>1, ReturnStep, Zenon DEF Control, TypeOK, Lasting

\* The connection breaks in a pipeline.
LEMMA ControlPipeBroken ==
  ASSUME Control, NEW c \in Client, PipeBroken(c)
  PROVE  Control' /\ OthersKeep(c)
<1>1. /\ kind[c] = "pipe" /\ Return(c) /\ cut' = TRUE
      /\ UNCHANGED <<profile, writes, acked, got, dropped>>
      /\ \E x \in {"none", "up", "broken"} : conn' = [conn EXCEPT ![c] = x]
  BY Zenon DEF PipeBroken
<1>2. /\ list' \in Seq(Nat) /\ ttl' \in BOOLEAN /\ order' \in Seq(Nat) /\ Lasting'
      /\ breaks' \in Nat
  <2>1. CASE UNCHANGED serverVars
    BY <1>1, <2>1 DEF PipeBroken, Break, serverVars, Control, TypeOK, Lasting
  <2>2. CASE Break(c) /\ Execute(Current(c))
    BY <1>1, <2>2, ExecuteStep, SMTT(30) DEF Break, Control, TypeOK
  <2> QED
    BY <2>1, <2>2, Zenon DEF PipeBroken
<1> QED
  BY <1>1, <1>2, ReturnStep, ZenonT(40) DEF Control, TypeOK

\* One command of a pipeline.
LEMMA ControlPipeStep ==
  ASSUME Control, NEW c \in Client, PipeStep(c)
  PROVE  Control' /\ OthersKeep(c)
<1>1. /\ kind[c] = "pipe" /\ Execute(Current(c)) /\ conn' = [conn EXCEPT ![c] = "up"]
      /\ UNCHANGED <<profile, writes, breaks, got, dropped, cut>>
  BY Zenon DEF PipeStep
<1>2. Current(c).val \in Nat /\ todo[c] \in Seq(Commands) /\ todo[c] # <<>>
  BY <1>1, CurrentCommand, Zenon DEF Commands, Control, TypeOK
<1>3. CASE Len(todo[c]) = 1
  <2>1. Return(c) /\ acked' \subseteq Nat
    BY <1>2, <1>3, ZenonT(40) DEF PipeStep, Acknowledge, Control, TypeOK
  <2> QED
    BY <1>1, <2>1, ExecuteStep, ReturnStep, ZenonT(40) DEF Control, TypeOK
<1>4. CASE Len(todo[c]) # 1
  <2>1. /\ todo' = [todo EXCEPT ![c] = Tail(@)]
        /\ dangling' = [dangling EXCEPT ![c] = TRUE]
        /\ UNCHANGED <<kind, tried, acked>>
    BY <1>4, Zenon DEF PipeStep
  <2>2. OthersKeep(c) /\ todo'[c] = Tail(todo[c]) /\ conn'[c] = "up" /\ kind'[c] = "pipe"
    BY <1>1, <2>1, ZenonT(40) DEF OthersKeep, Control, TypeOK
  <2>3. Shape(c)'
    <3>1. Shape(c)
      BY Zenon DEF Control
    <3>2. CASE profile = "value"
      <4>1. PICK v \in Value : todo[c] = <<Cmd("EXEC", v)>>
        BY <1>1, <3>1, <3>2, ZenonT(40) DEF Shape
      <4> QED
        BY <1>4, <4>1, Zenon
    <3>3. CASE profile = "unique"
      <4>1. PICK v \in Value, push \in Pushes :
              todo[c] \in {<<Cmd("LREM", v), Cmd(push, v)>>, <<Cmd(push, v)>>}
        BY <1>1, <3>1, <3>3, ZenonT(40) DEF Shape
      <4>2. todo[c] = <<Cmd("LREM", v), Cmd(push, v)>>
        BY <1>4, <4>1, SMTT(30)
      <4>3. Tail(todo[c]) = <<Cmd(push, v)>>
        BY <4>2, SMTT(30)
      <4> QED
        BY <1>1, <2>2, <3>3, <4>3, ZenonT(40) DEF Shape
    <3>4. CASE profile = "volatile"
      <4>1. PICK v \in Value, push \in Pushes :
              todo[c] \in {<<Cmd("LREM", v), Cmd(push, v), Cmd("EXPIRE", NIL)>>,
                           <<Cmd(push, v), Cmd("EXPIRE", NIL)>>, <<Cmd("EXPIRE", NIL)>>}
        BY <1>1, <3>1, <3>4, ZenonT(40) DEF Shape
      <4>3. CASE todo[c] = <<Cmd("LREM", v), Cmd(push, v), Cmd("EXPIRE", NIL)>>
        <5>1. Tail(todo[c]) = <<Cmd(push, v), Cmd("EXPIRE", NIL)>>
          BY <4>3, SMTT(30)
        <5> QED
          BY <1>1, <2>2, <3>4, <5>1, SMTT(30) DEF Shape
      <4>4. CASE todo[c] = <<Cmd(push, v), Cmd("EXPIRE", NIL)>>
        <5>1. Tail(todo[c]) = <<Cmd("EXPIRE", NIL)>>
          BY <4>4, SMTT(30)
        <5> QED
          BY <1>1, <2>2, <3>4, <5>1, SMTT(30) DEF Shape
      <4>5. CASE todo[c] = <<Cmd("EXPIRE", NIL)>>
        BY <1>4, <4>5, Zenon
      <4> QED
        BY <4>1, <4>3, <4>4, <4>5, ZenonT(40)
    <3> QED
      BY <1>1, <3>1, <3>2, <3>3, <3>4, ZenonT(40) DEF Shape
  <2>4. Tail(todo[c]) \in Seq(Commands)
    BY <1>2, SMTT(30)
  <2>5. TypeOK'
    BY <1>1, <2>1, <2>4, ExecuteStep, SMTT(30) DEF Control, TypeOK
  <2> QED
    BY <1>1, <2>2, <2>3, <2>5, ExecuteStep, ShapeStep, SMTT(30) DEF Control
<1> QED
  BY <1>3, <1>4, Zenon

\* Every step keeps types and commands.
LEMMA ControlNext == Control /\ [Next]_vars => Control'
<1> SUFFICES ASSUME Control, [Next]_vars PROVE Control'
  OBVIOUS
<1>1. CASE Expire
  <2>1. UNCHANGED <<profile, kind, todo, conn>>
    BY <1>1, Zenon DEF Expire, clientVars
  <2>2. \A q \in Client : Shape(q)'
    BY <2>1, ShapeKept, ZenonT(40) DEF Control
  <2>3. list' = <<>> /\ ttl' = FALSE /\ <<>> \in Seq(Nat)
    BY <1>1 DEF Expire
  <2>4. UNCHANGED <<profile, order, conn, kind, todo, tried, dangling, writes, breaks,
                    acked, got, dropped, cut>>
    BY <1>1, Zenon DEF Expire, clientVars, historyVars
  <2>5. TypeOK' /\ Lasting'
    BY <2>3, <2>4, ZenonT(40) DEF Control, TypeOK, Lasting
  <2> QED
    BY <2>2, <2>5, ZenonT(40) DEF Control
<1>2. ASSUME NEW c \in Client, redis_lnk_reset(c) PROVE Control'
  <2>1. /\ UNCHANGED <<profile, list, ttl, order, kind, todo, tried, dangling, writes,
                       breaks, acked, got, dropped, cut>>
        /\ kind[c] = "idle" /\ conn' = [conn EXCEPT ![c] = "none"]
    BY <1>2, SMTT(30) DEF redis_lnk_reset, serverVars, historyVars
  <2>2. TypeOK' /\ Lasting' /\ OthersKeep(c) /\ Shape(c)'
    BY <2>1, SMTT(30) DEF Control, TypeOK, Lasting, OthersKeep, Shape
  <2> QED
    BY <2>1, <2>2, ShapeStep, SMTT(30) DEF Control
<1>3. CASE UNCHANGED vars
  <2>1. UNCHANGED <<profile, kind, todo, conn>>
    BY <1>3, Zenon DEF vars
  <2>2. \A q \in Client : Shape(q)'
    BY <2>1, ShapeKept, SMTT(30) DEF Control
  <2>3. TypeOK' /\ Lasting'
    BY <1>3 DEF vars, Control, TypeOK, Lasting
  <2> QED
    BY <2>2, <2>3 DEF Control
<1>4. ASSUME NEW c \in Client, Operation(c) PROVE Control'
  BY <1>4, OperationStarts, ControlBegin, ZenonT(40) DEF Control
<1> QED
  BY <1>1, <1>2, <1>3, <1>4, ControlCmdAnswered, ControlCmdBroken, ControlNoConnection,
     ControlPipeStep, ControlPipeBroken, SMTT(30) DEF Next, redis_cmd
-----------------------------------------------------------------------------
(* What a step does to the list and to the history.                        *)

\* Neither the list nor the history changes.
Quiet == UNCHANGED <<profile, list, order, acked, got, dropped>>

\* A command of c takes effect; its answer may arrive or get lost.
Ran(c) ==
  /\ profile' = profile
  /\ kind[c] # "idle"
  /\ Execute(Current(c))
  /\ \/ acked' = acked
     \/ Current(c).val # NIL /\ acked' = acked \union {Current(c).val}
  /\ \/ (Current(c).cmd # "RPOP" \/ list = <<>>) /\ UNCHANGED <<got, dropped>>
     \/ /\ Current(c).cmd = "RPOP" /\ list # <<>>
        /\ \/ got' = Append(got, Last(list)) /\ dropped' = dropped
           \/ got' = got /\ dropped' = dropped \union {Last(list)}

\* A step is quiet, or the name expires, or a command takes effect.
LEMMA Effect ==
  ASSUME Control, [Next]_vars
  PROVE  \/ Quiet
         \/ Expire
         \/ \E c \in Client : Ran(c)
<1>1. CASE UNCHANGED vars
  BY <1>1, ZenonT(40) DEF vars, Quiet
<1>2. ASSUME NEW c \in Client, Operation(c) PROVE Quiet
  BY <1>2, OperationStarts, SMTT(30) DEF Control, Starts, Begin, serverVars, historyVars, Quiet
<1>3. ASSUME NEW c \in Client, redis_lnk_reset(c) \/ NoConnection(c) PROVE Quiet
  BY <1>3, Zenon DEF redis_lnk_reset, NoConnection, serverVars, historyVars, Quiet
<1>4. ASSUME NEW c \in Client, CmdAnswered(c) PROVE Ran(c)
  BY <1>4, ZenonT(40) DEF CmdAnswered, Acknowledge, Ran
<1>5. ASSUME NEW c \in Client, CmdBroken(c) PROVE Quiet \/ Ran(c)
  <2>1. acked' = acked /\ profile' = profile /\ got' = got /\ kind[c] # "idle"
    BY <1>5, Zenon DEF CmdBroken, Acknowledge, CmdFailed
  <2>2. CASE UNCHANGED <<serverVars, dropped>>
    BY <2>1, <2>2, ZenonT(40) DEF Quiet, serverVars
  <2>3. CASE /\ Execute(Current(c))
             /\ dropped' = IF Current(c).cmd = "RPOP" /\ list # <<>>
                           THEN dropped \union {Last(list)} ELSE dropped
    BY <2>1, <2>3, ZenonT(40) DEF Ran
  <2> QED
    BY <1>5, <2>2, <2>3, ZenonT(40) DEF CmdBroken
<1>6. ASSUME NEW c \in Client, PipeStep(c) PROVE Ran(c)
  <2>1. kind[c] = "pipe" /\ Execute(Current(c)) /\ UNCHANGED <<profile, got, dropped>>
    BY <1>6, Zenon DEF PipeStep
  <2>2. Current(c).cmd # "RPOP"
    BY <2>1, CurrentCommand, ZenonT(40)
  <2>3. acked' = acked \/ (Current(c).val # NIL /\ acked' = acked \union {Current(c).val})
    BY <1>6, Zenon DEF PipeStep, Acknowledge
  <2> QED
    BY <2>1, <2>2, <2>3, ZenonT(40) DEF Ran
<1>7. ASSUME NEW c \in Client, PipeBroken(c) PROVE Quiet \/ Ran(c)
  <2>1. kind[c] = "pipe" /\ UNCHANGED <<profile, acked, got, dropped>>
        /\ (UNCHANGED serverVars \/ Execute(Current(c)))
    BY <1>7, Zenon DEF PipeBroken
  <2>2. Current(c).cmd # "RPOP"
    BY <2>1, CurrentCommand, Zenon
  <2> QED
    BY <2>1, <2>2, ZenonT(40) DEF Ran, Quiet, serverVars
<1> QED
  BY <1>1, <1>2, <1>3, <1>4, <1>5, <1>6, <1>7, SMTT(30) DEF Next, redis_cmd
-----------------------------------------------------------------------------
(* One value.                                                              *)

\* A name that is only set has one value, in every step.
LEMMA SetIsAtomicNext ==
  ASSUME Control, SetIsAtomic, [Next]_vars
  PROVE  SetIsAtomic'
<1> SUFFICES ASSUME profile' = "value" PROVE Len(list') <= 1 /\ (acked' # {} => Len(list') = 1)
  BY Zenon DEF SetIsAtomic
<1>1. CASE Quiet
  BY <1>1, Zenon DEF Quiet, SetIsAtomic
<1>2. CASE Expire
  BY <1>2, ZenonT(40) DEF Expire, Control, Lasting
<1>3. ASSUME NEW c \in Client, Ran(c)
      PROVE  Len(list') <= 1 /\ (acked' # {} => Len(list') = 1)
  <2>1. Shape(c) /\ kind[c] \in {"cmd", "pipe"} /\ Current(c) = todo[c][1] /\ profile = "value"
    BY <1>3, CurrentCommand, ZenonT(40) DEF Ran, Control, TypeOK
  <2>2. CASE kind[c] = "cmd"
    <3>1. Current(c).cmd = "LINDEX" /\ Current(c).val = NIL
      BY <2>1, <2>2, CmdType, SMTT(30) DEF Shape, NIL
    <3>2. list' = list /\ acked' = acked
      BY <1>3, <3>1, ZenonT(40) DEF Ran, Execute, NewList
    <3> QED
      BY <2>1, <3>2, ZenonT(40) DEF SetIsAtomic
  <2>3. CASE kind[c] = "pipe"
    <3>1. PICK v \in Value : todo[c] = <<Cmd("EXEC", v)>>
      BY <2>1, <2>3, ZenonT(40) DEF Shape
    <3>2. Current(c).cmd = "EXEC"
      BY <2>1, <3>1 DEF Cmd
    <3>3. list' = <<Current(c).val>>
      BY <1>3, <3>2, ZenonT(40) DEF Ran, Execute, NewList
    <3> QED
      BY <3>3, SMTT(30)
  <2> QED
    BY <2>1, <2>2, <2>3, ZenonT(40)
<1> QED
  BY <1>1, <1>2, <1>3, Effect, ZenonT(40)

\* Writing a value replaces it atomically, for any number of processes, writes
\* and broken connections.
THEOREM SetIsAtomicHolds == Spec => []SetIsAtomic
<1>1. Init => Control /\ SetIsAtomic
  BY ControlInit DEF Init, SetIsAtomic
<1>2. Control /\ SetIsAtomic /\ [Next]_vars => (Control /\ SetIsAtomic)'
  BY ControlNext, SetIsAtomicNext, ZenonT(40)
<1> QED
  BY <1>1, <1>2, PTL DEF Spec
-----------------------------------------------------------------------------
(* A queue.                                                                *)

\* Two sequences joined, entry by entry.
LEMMA ConcatParts ==
  ASSUME NEW a \in Seq(Nat), NEW b \in Seq(Nat)
  PROVE  /\ a \o b \in Seq(Nat) /\ Len(a \o b) = Len(a) + Len(b)
         /\ \A i \in 1 .. Len(a) : (a \o b)[i] = a[i]
         /\ \A i \in 1 .. Len(b) : (a \o b)[Len(a) + i] = b[i]
<1>1. /\ a \o b \in Seq(Nat)
      /\ Len(a \o b) = Len(a) + Len(b)
      /\ \A i \in 1 .. Len(a) + Len(b) :
           (a \o b)[i] = IF i <= Len(a) THEN a[i] ELSE b[i - Len(a)]
  BY Concatenated, ZenonT(40)
<1>2. ASSUME NEW i \in 1 .. Len(a) PROVE (a \o b)[i] = a[i]
  BY <1>1
<1>3. ASSUME NEW i \in 1 .. Len(b) PROVE (a \o b)[Len(a) + i] = b[i]
  <2>1. Len(a) + i \in 1 .. Len(a) + Len(b) /\ ~(Len(a) + i <= Len(a))
        /\ (Len(a) + i) - Len(a) = i
    OBVIOUS
  <2> QED
    BY <1>1, <2>1, ZenonT(40)
<1> QED
  BY <1>1, <1>2, <1>3, ZenonT(40)

\* The elements of a sequence that grows at either end or loses its last entry.
LEMMA SetOfPush ==
  ASSUME NEW s \in Seq(Nat), NEW v \in Nat
  PROVE  /\ ToSet(s) \union {v} \subseteq ToSet(<<v>> \o s)
         /\ ToSet(s) \union {v} \subseteq ToSet(Append(s, v))
<1>1. /\ DOMAIN Append(s, v) = 1 .. Len(s) + 1 /\ Append(s, v)[Len(s) + 1] = v
      /\ \A i \in DOMAIN s : i \in 1 .. Len(s) + 1 /\ Append(s, v)[i] = s[i]
  OBVIOUS
<1>2. /\ DOMAIN (<<v>> \o s) = 1 .. Len(s) + 1 /\ (<<v>> \o s)[1] = v
      /\ \A i \in DOMAIN s : i + 1 \in 1 .. Len(s) + 1 /\ (<<v>> \o s)[i + 1] = s[i]
  BY SMTT(30)
<1>3. Len(s) + 1 \in 1 .. Len(s) + 1 /\ 1 \in 1 .. Len(s) + 1
  OBVIOUS
<1>4. ToSet(s) \union {v} \subseteq ToSet(<<v>> \o s)
  <2> DEFINE p == <<v>> \o s
  <2>1. v \in ToSet(p)
    BY <1>2, <1>3, Zenon DEF ToSet
  <2>2. \A i \in DOMAIN s : s[i] \in ToSet(p)
    BY <1>2, ZenonT(40) DEF ToSet
  <2> HIDE DEF p
  <2>3. ToSet(s) \union {v} \subseteq ToSet(p)
    BY <2>1, <2>2 DEF ToSet
  <2> QED
    BY <2>3, Zenon DEF p
<1>5. ToSet(s) \union {v} \subseteq ToSet(Append(s, v))
  BY <1>1, <1>3 DEF ToSet
<1> QED
  BY <1>4, <1>5, ZenonT(40)

\* RPOP takes the last value out of the list.
LEMMA SetOfFront ==
  ASSUME NEW s \in Seq(Nat), s # <<>>
  PROVE  ToSet(s) \subseteq ToSet(Front(s)) \union {Last(s)}
<1>1. DOMAIN Front(s) = 1 .. Len(s) - 1 /\ \A i \in 1 .. Len(s) - 1 : Front(s)[i] = s[i]
  BY DEF Front
<1>2. ASSUME NEW i \in DOMAIN s PROVE s[i] = Last(s) \/ i \in 1 .. Len(s) - 1
  BY DEF Last
<1> QED
  BY <1>1, <1>2, Zenon DEF ToSet

\* The command of a queue that takes effect.
LEMMA QueueCommand ==
  ASSUME Control, profile = "queue", NEW c \in Client, Ran(c)
  PROVE  /\ Current(c).val \in Nat
         /\ \/ /\ Current(c).cmd = "LPUSH"
               /\ list' = <<Current(c).val>> \o list
               /\ order' = Append(order, Current(c).val)
               /\ UNCHANGED <<got, dropped>>
            \/ /\ list = <<>> /\ UNCHANGED <<list, order, got, dropped, acked>>
            \/ /\ list # <<>> /\ list' = Front(list) /\ UNCHANGED <<order, acked>>
               /\ \/ got' = Append(got, Last(list)) /\ dropped' = dropped
                  \/ got' = got /\ dropped' = dropped \union {Last(list)}
<1>1. /\ Shape(c) /\ kind[c] \in {"cmd", "pipe"} /\ Current(c) = todo[c][1]
      /\ Current(c) \in Commands
  BY CurrentCommand, ZenonT(40) DEF Ran, Control, TypeOK
<1>2. Current(c).cmd = "LPUSH" \/ Current(c) = Cmd("RPOP", NIL)
  BY <1>1 DEF Shape
<1>3. CASE Current(c).cmd = "LPUSH"
  BY <1>1, <1>3, ZenonT(40) DEF Ran, Execute, NewList, Commands
<1>4. CASE Current(c) = Cmd("RPOP", NIL)
  <2>1. Current(c).cmd = "RPOP" /\ Current(c).val = NIL
    BY <1>4, CmdType, SMTT(30) DEF NIL
  <2>2. acked' = acked /\ order' = order /\ list' = IF list = <<>> THEN list ELSE Front(list)
    BY <2>1, ZenonT(40) DEF Ran, Execute, NewList
  <2> QED
    BY <1>1, <2>1, <2>2, ZenonT(40) DEF Ran, Commands
<1> QED
  BY <1>2, <1>3, <1>4, ZenonT(40)

\* No step loses a value that was pushed.
LEMMA QueueKeepsValuesNext ==
  ASSUME Control, QueueKeepsValues, [Next]_vars
  PROVE  QueueKeepsValues'
<1> SUFFICES ASSUME profile' = "queue"
             PROVE  acked' \subseteq ToSet(list') \union ToSet(got') \union dropped'
  BY Zenon DEF QueueKeepsValues
<1>1. CASE Quiet
  BY <1>1, Zenon DEF Quiet, QueueKeepsValues
<1>2. CASE Expire
  BY <1>2, ZenonT(40) DEF Expire, Control, Lasting
<1>3. ASSUME NEW c \in Client, Ran(c)
      PROVE  acked' \subseteq ToSet(list') \union ToSet(got') \union dropped'
  <2>1. /\ profile = "queue" /\ list \in Seq(Nat) /\ got \in Seq(Nat)
        /\ acked \subseteq ToSet(list) \union ToSet(got) \union dropped
        /\ acked' \subseteq acked \union {Current(c).val}
    BY <1>3, ZenonT(40) DEF Ran, Control, TypeOK, QueueKeepsValues
  <2>2. CASE list' = <<Current(c).val>> \o list /\ UNCHANGED <<got, dropped>>
    BY <1>3, <2>1, <2>2, QueueCommand, SetOfPush, SMTT(30)
  <2>3. CASE UNCHANGED <<list, got, dropped, acked>>
    BY <2>1, <2>3, SMTT(30)
  <2>4. CASE /\ list # <<>> /\ list' = Front(list) /\ acked' = acked
             /\ got' = Append(got, Last(list)) /\ dropped' = dropped
    <3>1. Last(list) \in Nat
      BY <2>1, <2>4, SMTT(30) DEF Last
    <3> QED
      BY <2>1, <2>4, <3>1, SetOfPush, SetOfFront, ZenonT(40)
  <2>5. CASE /\ list # <<>> /\ list' = Front(list) /\ acked' = acked
             /\ got' = got /\ dropped' = dropped \union {Last(list)}
    BY <2>1, <2>5, SetOfFront, SMTT(30)
  <2> QED
    BY <1>3, <2>1, <2>2, <2>3, <2>4, <2>5, QueueCommand, ZenonT(40)
<1> QED
  BY <1>1, <1>2, <1>3, Effect, ZenonT(40)

\* A queue keeps what was reported as pushed, for any number of processes,
\* pushes and broken connections.
THEOREM QueueKeepsValuesHolds == Spec => []QueueKeepsValues
<1>1. Init => Control /\ QueueKeepsValues
  BY ControlInit DEF Init, QueueKeepsValues
<1>2. Control /\ QueueKeepsValues /\ [Next]_vars => (Control /\ QueueKeepsValues)'
  BY ControlNext, QueueKeepsValuesNext, SMTT(30)
<1> QED
  BY <1>1, <1>2, PTL DEF Spec

\* Two sequences of numbers are equal when they agree everywhere.
LEMMA SameSeq ==
  ASSUME NEW a \in Seq(Nat), NEW b \in Seq(Nat), Len(a) = Len(b),
         \A i \in 1 .. Len(a) : a[i] = b[i]
  PROVE  a = b
BY SameEntries, ZenonT(40)

\* Reverse, entry by entry.
LEMMA ReverseParts ==
  ASSUME NEW s \in Seq(Nat)
  PROVE  /\ Reverse(s) \in Seq(Nat) /\ Len(Reverse(s)) = Len(s)
         /\ \A i \in 1 .. Len(s) : Reverse(s)[i] = s[(Len(s) - i) + 1]
<1>1. \A i \in 1 .. Len(s) : (Len(s) - i) + 1 \in 1 .. Len(s)
  OBVIOUS
<1>2. \A i \in 1 .. Len(s) : s[(Len(s) - i) + 1] \in Nat
  BY <1>1, SMTT(30)
<1> QED
  BY <1>2, SMTT(30) DEF Reverse

\* Concatenation is associative.
LEMMA Regroup ==
  ASSUME NEW a \in Seq(Nat), NEW b \in Seq(Nat), NEW c \in Seq(Nat)
  PROVE  (a \o b) \o c = a \o (b \o c)
BY Associative, SMTT(30)

\* A value pushed at the front is the last of the reversed list.
LEMMA ReversePush ==
  ASSUME NEW g \in Seq(Nat), NEW s \in Seq(Nat), NEW v \in Nat
  PROVE  g \o Reverse(<<v>> \o s) = Append(g \o Reverse(s), v)
<1> DEFINE p == <<v>> \o s
           r == Reverse(p)
           q == Reverse(s)
<1>1. p \in Seq(Nat) /\ Len(p) = Len(s) + 1 /\ p[1] = v /\ \A i \in 1 .. Len(s) : p[i + 1] = s[i]
  BY SMTT(30)
<1>2. r \in Seq(Nat) /\ Len(r) = Len(p) /\ \A i \in 1 .. Len(p) : r[i] = p[(Len(p) - i) + 1]
  BY <1>1, ReverseParts, Zenon
<1>3. q \in Seq(Nat) /\ Len(q) = Len(s) /\ \A i \in 1 .. Len(s) : q[i] = s[(Len(s) - i) + 1]
  BY ReverseParts, SMTT(30)
<1> HIDE DEF p, r, q
<1>4. r = Append(q, v)
  <2>1. Len(r) = Len(s) + 1 /\ r[Len(s) + 1] = v
    <3>1. Len(s) + 1 \in 1 .. Len(p) /\ (Len(p) - (Len(s) + 1)) + 1 = 1
      BY <1>1
    <3> QED
      BY <1>1, <1>2, <3>1, ZenonT(40)
  <2>2. ASSUME NEW i \in 1 .. Len(s) PROVE r[i] = q[i]
    <3> DEFINE j == (Len(s) - i) + 1
    <3>1. j \in 1 .. Len(s) /\ (Len(p) - i) + 1 = j + 1 /\ i \in 1 .. Len(p)
      BY <1>1, SMTT(30)
    <3>2. r[i] = p[j + 1]
      BY <1>2, <3>1
    <3> QED
      BY <1>1, <1>3, <3>1, <3>2, ZenonT(40)
  <2>3. /\ Append(q, v) \in Seq(Nat) /\ Len(Append(q, v)) = Len(s) + 1
        /\ Append(q, v)[Len(s) + 1] = v /\ \A i \in 1 .. Len(s) : Append(q, v)[i] = q[i]
    BY <1>3, SMTT(30)
  <2>4. \A i \in 1 .. Len(r) : r[i] = Append(q, v)[i]
    BY <2>1, <2>2, <2>3, SMTT(30)
  <2> QED
    BY <1>2, <2>1, <2>3, <2>4, SameSeq, SMTT(30)
<1>5. g \o Append(q, v) = Append(g \o q, v)
  <2> DEFINE w == <<v>>
  <2>1. g \o q \in Seq(Nat) /\ w \in Seq(Nat)
    BY <1>3
  <2>2. Append(q, v) = q \o w /\ Append(g \o q, v) = (g \o q) \o w
    BY <1>3, <2>1, AppendJoins, ZenonT(40)
  <2> HIDE DEF w
  <2>3. (g \o q) \o w = g \o (q \o w)
    BY <1>3, <2>1, Regroup, ZenonT(40)
  <2> QED
    BY <2>2, <2>3, ZenonT(40)
<1> QED
  BY <1>4, <1>5, Zenon DEF p, r, q

\* The list without its last entry.
LEMMA FrontParts ==
  ASSUME NEW s \in Seq(Nat), s # <<>>
  PROVE  /\ Len(s) \in Nat /\ Len(s) > 0 /\ Last(s) = s[Len(s)] /\ Last(s) \in Nat
         /\ Front(s) \in Seq(Nat) /\ Len(Front(s)) = Len(s) - 1
         /\ \A i \in 1 .. Len(s) - 1 : Front(s)[i] = s[i]
<1>1. Len(s) \in Nat /\ Len(s) > 0
  OBVIOUS
<1>2. Last(s) = s[Len(s)] /\ Last(s) \in Nat
  BY <1>1, SMTT(30) DEF Last
<1>3. Front(s) = SubSeq(s, 1, Len(s) - 1)
  BY DEF Front
<1>4. Front(s) \in Seq(Nat)
  BY <1>1, <1>3, SMTT(30)
<1>5. Len(Front(s)) = Len(s) - 1
  <2> DEFINE n == Len(s) - 1
  <2>1. n \in Nat /\ n <= Len(s)
    BY <1>1
  <2> HIDE DEF n
  <2>2. Len(SubSeq(s, 1, n)) = n
    BY <2>1
  <2> QED
    BY <1>3, <2>2, SMTT(30) DEF n
<1>6. \A i \in 1 .. Len(s) - 1 : Front(s)[i] = s[i]
  BY <1>1, <1>3
<1> QED
  BY <1>1, <1>2, <1>4, <1>5, <1>6

\* r is x followed by q.
IsCons(r, x, q) ==
  /\ Len(r) = Len(q) + 1
  /\ r[1] = x
  /\ \A i \in 1 .. Len(q) : r[i + 1] = q[i]

\* x behind g and in front of q, in two ways.
LEMMA SameJoin ==
  ASSUME NEW g \in Seq(Nat), NEW q \in Seq(Nat), NEW r \in Seq(Nat), NEW x \in Nat,
         IsCons(r, x, q)
  PROVE  Append(g, x) \o q = g \o r
<1> USE DEF IsCons
<1> DEFINE h == Append(g, x)
           u == h \o q
           w == g \o r
<1>1. h \in Seq(Nat) /\ Len(h) = Len(g) + 1 /\ (\A i \in 1 .. Len(g) : h[i] = g[i])
      /\ h[Len(g) + 1] = x
  OBVIOUS
<1> HIDE DEF h
<1>2. /\ u \in Seq(Nat) /\ Len(u) = Len(h) + Len(q)
      /\ \A i \in 1 .. Len(h) : u[i] = h[i]
      /\ \A i \in 1 .. Len(q) : u[Len(h) + i] = q[i]
  BY <1>1, ConcatParts, ZenonT(40)
<1>3. /\ w \in Seq(Nat) /\ Len(w) = Len(g) + Len(r)
      /\ \A i \in 1 .. Len(g) : w[i] = g[i]
      /\ \A i \in 1 .. Len(r) : w[Len(g) + i] = r[i]
  BY ConcatParts, Zenon
<1> HIDE DEF u, w
<1>4. Len(u) = Len(g) + 1 + Len(q) /\ Len(w) = Len(u) /\ Len(g) \in Nat /\ Len(q) \in Nat
  <2>1. Len(g) \in Nat /\ Len(q) \in Nat
    OBVIOUS
  <2>2. Len(h) = Len(g) + 1 /\ Len(u) = Len(h) + Len(q) /\ Len(w) = Len(g) + Len(r)
    BY <1>1, <1>2, <1>3, ZenonT(40)
  <2> QED
    BY <2>1, <2>2, SMTT(30)
<1>5. ASSUME NEW i \in 1 .. Len(u) PROVE u[i] = w[i]
  <2>1. CASE i <= Len(g)
    BY <1>1, <1>2, <1>3, <2>1, SMTT(30)
  <2>2. CASE i = Len(g) + 1
    BY <1>1, <1>2, <1>3, <2>2, SMTT(30)
  <2>3. CASE ~(i <= Len(g)) /\ i # Len(g) + 1
    <3> DEFINE j == i - (Len(g) + 1)
    <3>1. j \in 1 .. Len(q) /\ i = Len(h) + j /\ j + 1 \in 1 .. Len(r) /\ i = Len(g) + (j + 1)
      BY <1>1, <1>4, <2>3, SMTT(30)
    <3> HIDE DEF j
    <3>2. u[i] = q[j] /\ w[i] = r[j + 1]
      BY <1>2, <1>3, <3>1, ZenonT(40)
    <3> QED
      BY <3>1, <3>2, SMTT(30)
  <2> QED
    BY <2>1, <2>2, <2>3, ZenonT(40)
<1>6. u = w
  BY <1>2, <1>3, <1>4, <1>5, SameSeq, Zenon
<1> QED
  BY <1>6 DEF h, u, w

\* The last value is the first of the reversed list.
LEMMA ReversePop ==
  ASSUME NEW g \in Seq(Nat), NEW s \in Seq(Nat), s # <<>>
  PROVE  Append(g, Last(s)) \o Reverse(Front(s)) = g \o Reverse(s)
<1> DEFINE f == Front(s)
           r == Reverse(s)
           q == Reverse(f)
           x == Last(s)
<1>1. /\ f \in Seq(Nat) /\ Len(f) = Len(s) - 1 /\ (\A i \in 1 .. Len(s) - 1 : f[i] = s[i])
      /\ x = s[Len(s)] /\ x \in Nat /\ Len(s) \in Nat /\ Len(s) > 0
  BY FrontParts
<1>2. r \in Seq(Nat) /\ Len(r) = Len(s) /\ \A i \in 1 .. Len(s) : r[i] = s[(Len(s) - i) + 1]
  BY ReverseParts, Zenon
<1>3. q \in Seq(Nat) /\ Len(q) = Len(f) /\ \A i \in 1 .. Len(f) : q[i] = f[(Len(f) - i) + 1]
  BY <1>1, ReverseParts, ZenonT(40)
<1> HIDE DEF f, r, q, x
<1>4. r[1] = x
  BY <1>1, <1>2
<1>5. ASSUME NEW i \in 1 .. Len(q) PROVE r[i + 1] = q[i]
  <2> DEFINE j == (Len(f) - i) + 1
             k == i + 1
  <2>1. j \in 1 .. Len(s) - 1 /\ k \in 1 .. Len(s) /\ (Len(s) - k) + 1 = j
    BY <1>1, <1>3, SMTT(30)
  <2>2. q[i] = f[j]
    BY <1>3, Zenon
  <2>3. q[i] = s[j]
    BY <1>1, <2>1, <2>2, ZenonT(40)
  <2> HIDE DEF j, k
  <2>4. r[k] = s[j]
    BY <1>2, <2>1, ZenonT(40)
  <2> QED
    BY <2>3, <2>4, ZenonT(40) DEF k
<1>6. Len(r) = Len(q) + 1
  BY <1>1, <1>2, <1>3, SMTT(30)
<1>7. IsCons(r, x, q)
  BY <1>4, <1>5, <1>6, ZenonT(40) DEF IsCons
<1>8. Append(g, x) \o q = g \o r
  <2> q \in Seq(Nat)
    BY <1>3
  <2> r \in Seq(Nat)
    BY <1>2
  <2> x \in Nat
    BY <1>1, SMTT(30)
  <2> QED
    BY <1>7, SameJoin, ZenonT(40)
<1> QED
  BY <1>8, ZenonT(40) DEF f, r, q, x

\* No step changes the order of what was popped and what is left.
LEMMA QueueIsFifoNext ==
  ASSUME Control, QueueIsFifo, [Next]_vars
  PROVE  QueueIsFifo'
<1> SUFFICES ASSUME profile' = "queue", dropped' = {} PROVE got' \o Reverse(list') = order'
  BY Zenon DEF QueueIsFifo
<1>1. CASE Quiet
  BY <1>1, SMTT(30) DEF Quiet, QueueIsFifo
<1>2. CASE Expire
  BY <1>2, Zenon DEF Expire, Control, Lasting
<1>3. ASSUME NEW c \in Client, Ran(c) PROVE got' \o Reverse(list') = order'
  <2>1. profile = "queue" /\ list \in Seq(Nat) /\ got \in Seq(Nat)
    BY <1>3 DEF Ran, Control, TypeOK
  <2>2. CASE list' = <<Current(c).val>> \o list /\ order' = Append(order, Current(c).val)
             /\ UNCHANGED <<got, dropped>>
    <3>1. got \o Reverse(list) = order /\ Current(c).val \in Nat
      BY <1>3, <2>1, <2>2, QueueCommand, SMTT(30) DEF QueueIsFifo
    <3> QED
      BY <2>1, <2>2, <3>1, ReversePush, ZenonT(40)
  <2>3. CASE UNCHANGED <<list, order, got, dropped>>
    BY <2>1, <2>3, SMTT(30) DEF QueueIsFifo
  <2>4. CASE /\ list # <<>> /\ list' = Front(list) /\ order' = order
             /\ got' = Append(got, Last(list)) /\ dropped' = dropped
    <3>1. got \o Reverse(list) = order
      BY <2>1, <2>4, SMTT(30) DEF QueueIsFifo
    <3> QED
      BY <2>1, <2>4, <3>1, ReversePop, ZenonT(40)
  <2>5. ~(dropped' = dropped \union {Last(list)})
    BY SMTT(30)
  <2> QED
    BY <1>3, <2>1, <2>2, <2>3, <2>4, <2>5, QueueCommand, ZenonT(40)
<1> QED
  BY <1>1, <1>2, <1>3, Effect, SMTT(30)

\* A queue is first in, first out, for any number of processes, pushes and
\* broken connections.
THEOREM QueueIsFifoHolds == Spec => []QueueIsFifo
<1>1. Init => Control /\ QueueIsFifo
  <2>1. Reverse(<<>>) = <<>>
    BY DEF Reverse
  <2> QED
    BY <2>1, ControlInit, SMTT(30) DEF Init, QueueIsFifo
<1>2. Control /\ QueueIsFifo /\ [Next]_vars => (Control /\ QueueIsFifo)'
  BY ControlNext, QueueIsFifoNext
<1> QED
  BY <1>1, <1>2, PTL DEF Spec
==============================================================================
