---------------------------- MODULE KbItemsCopies ----------------------------
(***************************************************************************)
(* Proofs about the entries of KbItems that must not last or multiply: the *)
(* time to live of volatile names and the copies of a unique value.        *)
(***************************************************************************)
EXTENDS KbItemsProofs, FiniteSetTheorems

-----------------------------------------------------------------------------
(* Volatile entries.                                                       *)

\* An entry without a time to live is one whose process still has to send the
\* EXPIRE, over a connection it has used already.
WillExpire ==
  profile = "volatile" /\ list # <<>> =>
    ttl \/ cut \/ \E c \in Client : kind[c] = "pipe" /\ Len(todo[c]) = 1

\* A step of c that does not change the entry, nor ends the operation that will
\* give it its time to live.
LEMMA WillExpireKept ==
  ASSUME WillExpire, NEW c \in Client, OthersKeep(c), UNCHANGED <<profile, list, cut>>,
         list # <<>> => ttl' = ttl,
         profile = "volatile" => ~(kind[c] = "pipe" /\ Len(todo[c]) = 1)
  PROVE  WillExpire'
BY DEF WillExpire, OthersKeep

\* A command of a pipeline: EXPIRE follows the push on the same connection.
LEMMA WillExpirePipeStep ==
  ASSUME Control, WillExpire, NEW c \in Client, PipeStep(c), profile = "volatile"
  PROVE  WillExpire'
<1>1. /\ kind[c] = "pipe" /\ Execute(Current(c)) /\ profile' = profile /\ cut' = cut
      /\ Current(c) = todo[c][1] /\ Shape(c) /\ OthersKeep(c)
  BY CurrentCommand, ControlPipeStep, ZenonT(40) DEF PipeStep, Control
<1>2. PICK v \in Value, push \in Pushes :
        \/ todo[c] = <<Cmd("LREM", v), Cmd(push, v), Cmd("EXPIRE", NIL)>>
        \/ todo[c] = <<Cmd(push, v), Cmd("EXPIRE", NIL)>>
        \/ todo[c] = <<Cmd("EXPIRE", NIL)>>
  BY <1>1 DEF Shape
<1>3. CASE todo[c] = <<Cmd("LREM", v), Cmd(push, v), Cmd("EXPIRE", NIL)>>
  <2>1. Current(c).cmd = "LREM" /\ Current(c).val = v /\ Len(todo[c]) = 3
    <3>1. Len(todo[c]) = 3 /\ todo[c][1] = Cmd("LREM", v)
      BY <1>3
    <3> QED
      BY <1>1, <3>1, SMTT(30) DEF Cmd
  <2>2. list' = Lrem(list, v) /\ ttl' = (ttl /\ list' # <<>>)
    BY <1>1, <2>1 DEF Execute, NewList
  <2>3. list = <<>> => list' = <<>>
    BY <2>2 DEF Lrem
  <2> SUFFICES ASSUME list' # <<>>, ~ttl, ~cut
               PROVE  \E d \in Client : kind'[d] = "pipe" /\ Len(todo'[d]) = 1
    BY <1>1, <2>2, ZenonT(40) DEF WillExpire
  <2>4. PICK d \in Client : kind[d] = "pipe" /\ Len(todo[d]) = 1
    BY <2>3 DEF WillExpire
  <2>5. d # c
    BY <2>1, <2>4, SMTT(30)
  <2>6. kind'[d] = kind[d] /\ todo'[d] = todo[d]
    BY <1>1, <2>5 DEF OthersKeep
  <2> QED
    BY <2>4, <2>6, SMTT(30)
<1>4. CASE todo[c] = <<Cmd(push, v), Cmd("EXPIRE", NIL)>>
  <2>1. Len(todo[c]) = 2 /\ Tail(todo[c]) = <<Cmd("EXPIRE", NIL)>>
    BY <1>4
  <2>2. todo' = [todo EXCEPT ![c] = Tail(@)] /\ kind' = kind
    BY <2>1 DEF PipeStep
  <2>3. kind'[c] = "pipe" /\ Len(todo'[c]) = 1
    BY <1>1, <2>1, <2>2, ZenonT(40) DEF Control, TypeOK
  <2> QED
    BY <2>3, SMTT(30) DEF WillExpire
<1>5. CASE todo[c] = <<Cmd("EXPIRE", NIL)>>
  <2>1. Current(c).cmd = "EXPIRE"
    BY <1>1, <1>5 DEF Cmd
  <2>2. list' = list /\ ttl' = (list # <<>>)
    BY <1>1, <2>1, ZenonT(40) DEF Execute, NewList
  <2> QED
    BY <2>2, ZenonT(40) DEF WillExpire
<1> QED
  BY <1>2, <1>3, <1>4, <1>5, SMTT(30)

\* No step leaves a volatile list without a time to live and without a process that
\* will set one, unless the pipeline was cut.
LEMMA WillExpireNext ==
  ASSUME Control, WillExpire, [Next]_vars
  PROVE  WillExpire'
<1> SUFFICES ASSUME profile' = "volatile" PROVE WillExpire'
  BY DEF WillExpire
<1>1. CASE UNCHANGED vars
  BY <1>1, SMTT(30) DEF vars, WillExpire
<1>2. CASE Expire
  BY <1>2 DEF Expire, WillExpire
<1>3. ASSUME NEW c \in Client, Operation(c) PROVE WillExpire'
  <2>1. Starts(c) /\ OthersKeep(c)
    BY <1>3, OperationStarts, ControlBegin, SMTT(30) DEF Control
  <2>2. kind[c] = "idle" /\ UNCHANGED <<profile, list, ttl, cut>>
    BY <2>1, SMTT(30) DEF Starts, Begin, serverVars, historyVars
  <2> QED
    BY <2>1, <2>2, WillExpireKept, SMTT(30)
<1>4. ASSUME NEW c \in Client, redis_lnk_reset(c) PROVE WillExpire'
  BY <1>4 DEF redis_lnk_reset, serverVars, historyVars, WillExpire
<1>5. ASSUME NEW c \in Client, redis_cmd(c) PROVE WillExpire'
  <2>1. kind[c] = "cmd" /\ profile' = profile /\ cut' = cut /\ OthersKeep(c)
        /\ (UNCHANGED serverVars \/ Execute(Current(c)))
    BY <1>5, ControlCmdAnswered, ControlCmdBroken, ZenonT(40) DEF redis_cmd, CmdAnswered, CmdBroken
  <2>2. Current(c).cmd = "LRANGE"
    BY <2>1, CurrentCommand, SMTT(30) DEF Control, Shape
  <2>3. list' = list /\ (list # <<>> => ttl' = ttl)
    BY <2>1, <2>2, ZenonT(40) DEF serverVars, Execute, NewList, Control, TypeOK
  <2> QED
    BY <2>1, <2>3, WillExpireKept, ZenonT(40)
<1>6. ASSUME NEW c \in Client, NoConnection(c) PROVE WillExpire'
  <2>1. /\ kind[c] # "idle" /\ conn[c] = "none" /\ OthersKeep(c)
        /\ UNCHANGED <<profile, list, ttl, cut>>
    BY <1>6, ControlNoConnection, SMTT(30) DEF NoConnection, serverVars, historyVars
  <2>2. ~(kind[c] = "pipe" /\ Len(todo[c]) = 1)
    <3> SUFFICES ASSUME kind[c] = "pipe" PROVE Len(todo[c]) # 1
      OBVIOUS
    <3>1. PICK v \in Value, push \in Pushes :
            todo[c] = <<Cmd("LREM", v), Cmd(push, v), Cmd("EXPIRE", NIL)>>
      BY <2>1, SMTT(30) DEF Control, Shape
    <3> QED
      BY <3>1, SMTT(30)
  <2> QED
    BY <2>1, <2>2, WillExpireKept, ZenonT(40)
<1>7. ASSUME NEW c \in Client, PipeBroken(c) PROVE WillExpire'
  BY <1>7 DEF PipeBroken, WillExpire
<1>8. ASSUME NEW c \in Client, PipeStep(c) PROVE WillExpire'
  BY <1>8, WillExpirePipeStep, ZenonT(40) DEF PipeStep
<1> QED
  BY <1>1, <1>2, <1>3, <1>4, <1>5, <1>6, <1>7, <1>8, SMTT(30) DEF Next

\* Volatile entries go away, for any number of processes and entries, unless a
\* process was cut off in the middle of an operation.
THEOREM VolatileExpiresHolds == Spec => []VolatileExpires
<1>1. Init => Control /\ WillExpire
  BY ControlInit, SMTT(30) DEF Init, WillExpire
<1>2. Control /\ WillExpire /\ [Next]_vars => (Control /\ WillExpire)'
  BY ControlNext, WillExpireNext, SMTT(30)
<1>3. WillExpire => VolatileExpires
  BY DEF WillExpire, VolatileExpires
<1> QED
  BY <1>1, <1>2, <1>3, PTL DEF Spec
-----------------------------------------------------------------------------
(* Copies of a value.                                                      *)

\* The places of a value in a list.
Occ(s, v) == {i \in 1 .. Len(s) : s[i] = v}

\* A value has finitely many places in a list.
LEMMA OccFinite ==
  ASSUME NEW s \in Seq(Nat), NEW v
  PROVE  IsFiniteSet(Occ(s, v)) /\ Cardinality(Occ(s, v)) \in Nat
<1>1. IsFiniteSet(1 .. Len(s)) /\ Occ(s, v) \in SUBSET (1 .. Len(s))
  BY FS_Interval DEF Occ
<1>2. IsFiniteSet(Occ(s, v))
  BY <1>1, FS_Subset, SMTT(30)
<1> QED
  BY <1>2, FS_CardinalityType, SMTT(30)

\* A one-to-one map makes a set no larger.
LEMMA NoLarger ==
  ASSUME NEW A, NEW B, IsFiniteSet(B), NEW f \in [A -> B],
         \A x, y \in A : f[x] = f[y] => x = y
  PROVE  Cardinality(A) <= Cardinality(B)
<1>1. f \in Injection(A, B)
  BY Zenon DEF Injection, IsInjective
<1> QED
  BY <1>1, FS_Injection, SMTT(30)

\* RPUSH adds one place, of the value pushed.
LEMMA OccAppend ==
  ASSUME NEW s \in Seq(Nat), NEW w \in Nat, NEW v
  PROVE  Cardinality(Occ(Append(s, w), v))
           <= Cardinality(Occ(s, v)) + (IF w = v THEN 1 ELSE 0)
<1>1. /\ Len(Append(s, w)) = Len(s) + 1 /\ Append(s, w)[Len(s) + 1] = w
      /\ \A i \in 1 .. Len(s) : Append(s, w)[i] = s[i]
  OBVIOUS
<1>2. Len(s) \in Nat
  OBVIOUS
<1>3. CASE w = v
  <2>1. Occ(Append(s, w), v) = Occ(s, v) \union {Len(s) + 1}
    BY <1>1, <1>2, <1>3, SMTT(30) DEF Occ
  <2>2. Len(s) + 1 \notin Occ(s, v)
    BY <1>2, SMTT(30) DEF Occ
  <2>3. IsFiniteSet(Occ(s, v)) /\ Cardinality(Occ(s, v)) \in Nat
    BY OccFinite, Zenon
  <2>4. Cardinality(Occ(s, v) \union {Len(s) + 1}) = Cardinality(Occ(s, v)) + 1
    BY <2>2, <2>3, FS_AddElement, ZenonT(40)
  <2> QED
    BY <1>3, <2>1, <2>3, <2>4, SMTT(30)
<1>4. CASE w # v
  <2>1. Occ(Append(s, w), v) = Occ(s, v)
    BY <1>1, <1>2, <1>4, SMTT(30) DEF Occ
  <2> QED
    BY <1>4, <2>1, OccFinite, SMTT(30)
<1> QED
  BY <1>3, <1>4, ZenonT(40)

\* LPUSH adds one place, of the value pushed.
LEMMA OccPrepend ==
  ASSUME NEW s \in Seq(Nat), NEW w \in Nat, NEW v
  PROVE  Cardinality(Occ(<<w>> \o s, v))
           <= Cardinality(Occ(s, v)) + (IF w = v THEN 1 ELSE 0)
<1> DEFINE p == <<w>> \o s
           A == Occ(p, v) \ {1}
           f == [i \in A |-> i - 1]
<1>1. /\ p \in Seq(Nat) /\ Len(p) = Len(s) + 1 /\ p[1] = w
      /\ \A i \in 1 .. Len(s) : p[i + 1] = s[i]
  BY SMTT(30)
<1> HIDE DEF p
<1>2. ASSUME NEW i \in A PROVE i \in Int /\ i - 1 \in Occ(s, v)
  <2> DEFINE j == i - 1
  <2>1. i \in 1 .. Len(p) /\ i # 1 /\ p[i] = v
    BY DEF Occ
  <2>2. j \in 1 .. Len(s) /\ j + 1 = i
    BY <1>1, <2>1, SMTT(30)
  <2> HIDE DEF j
  <2>3. s[j] = v
    BY <1>1, <2>1, <2>2, SMTT(30)
  <2>4. j \in Occ(s, v)
    BY <2>2, <2>3 DEF Occ
  <2> QED
    BY <2>1, <2>4 DEF j
<1>3. f \in [A -> Occ(s, v)] /\ \A x, y \in A : f[x] = f[y] => x = y
  BY <1>2, SMTT(30)
<1>4. Cardinality(A) <= Cardinality(Occ(s, v))
  <2> HIDE DEF A, f
  <2> QED
    BY <1>3, OccFinite, NoLarger, SMTT(30)
<1>5. /\ IsFiniteSet(Occ(p, v)) /\ Cardinality(Occ(p, v)) \in Nat
      /\ IsFiniteSet(Occ(s, v)) /\ Cardinality(Occ(s, v)) \in Nat
  BY <1>1, OccFinite
<1>6. Cardinality(A) = IF 1 \in Occ(p, v) THEN Cardinality(Occ(p, v)) - 1
                       ELSE Cardinality(Occ(p, v))
  BY <1>5, FS_RemoveElement, ZenonT(40)
<1>7. 1 \in Occ(p, v) => w = v
  BY <1>1 DEF Occ
<1>8. Cardinality(Occ(p, v)) <= Cardinality(Occ(s, v)) + (IF w = v THEN 1 ELSE 0)
  <2> HIDE DEF A
  <2> QED
    BY <1>4, <1>5, <1>6, <1>7, SMTT(30)
<1> QED
  BY <1>8 DEF p

\* Removing an entry takes one place away, of the value it had.
LEMMA OccRemoveAt ==
  ASSUME NEW s \in Seq(Nat), NEW k \in 1 .. Len(s), NEW v
  PROVE  Cardinality(Occ(RemoveAt(s, k), v))
           <= Cardinality(Occ(s, v)) - (IF s[k] = v THEN 1 ELSE 0)
<1> DEFINE r == RemoveAt(s, k)
           A == Occ(r, v)
           B == Occ(s, v) \ {k}
           f == [i \in A |-> IF i < k THEN i ELSE i + 1]
<1>1. /\ r \in Seq(Nat) /\ Len(r) = Len(s) - 1
      /\ \A i \in 1 .. Len(s) - 1 : r[i] = IF i < k THEN s[i] ELSE s[i + 1]
  BY RemoveAtParts, Zenon
<1> HIDE DEF r
<1>2. ASSUME NEW i \in A PROVE i \in Int /\ (IF i < k THEN i ELSE i + 1) \in B
  <2>1. i \in 1 .. Len(s) - 1 /\ r[i] = v
    BY <1>1, Zenon DEF Occ
  <2>2. CASE i < k
    <3>1. i \in 1 .. Len(s) /\ i # k
      BY <2>1, <2>2, SMTT(30)
    <3>2. s[i] = v
      BY <1>1, <2>1, <2>2, ZenonT(40)
    <3> QED
      BY <2>1, <2>2, <3>1, <3>2, SMTT(30) DEF Occ
  <2>3. CASE ~(i < k)
    <3> DEFINE j == i + 1
    <3>1. j \in 1 .. Len(s) /\ j # k
      BY <2>1, <2>3, SMTT(30)
    <3>2. s[j] = v
      BY <1>1, <2>1, <2>3, ZenonT(40)
    <3> HIDE DEF j
    <3>3. j \in B
      BY <3>1, <3>2, SMTT(30) DEF Occ
    <3> QED
      BY <2>1, <2>3, <3>3, SMTT(30) DEF j
  <2> QED
    BY <2>2, <2>3, SMTT(30)
<1>3. f \in [A -> B]
  BY <1>2
<1>4. ASSUME NEW x \in A, NEW y \in A, f[x] = f[y] PROVE x = y
  <2>1. x \in Int /\ y \in Int /\ k \in Int
    BY <1>2
  <2>2. (IF x < k THEN x ELSE x + 1) = (IF y < k THEN y ELSE y + 1)
    BY <1>4
  <2> QED
    BY <2>1, <2>2, SMTT(30)
<1>5. /\ IsFiniteSet(Occ(s, v)) /\ Cardinality(Occ(s, v)) \in Nat
      /\ IsFiniteSet(A) /\ Cardinality(A) \in Nat
  BY <1>1, OccFinite, SMTT(30)
<1>6. IsFiniteSet(B) /\ Cardinality(B) = IF k \in Occ(s, v) THEN Cardinality(Occ(s, v)) - 1
                                          ELSE Cardinality(Occ(s, v))
  BY <1>5, FS_RemoveElement, ZenonT(40)
<1>7. Cardinality(A) <= Cardinality(B)
  <2> HIDE DEF A, B, f
  <2> QED
    BY <1>3, <1>4, <1>6, NoLarger, SMTT(30)
<1>8. k \in Occ(s, v) <=> s[k] = v
  BY DEF Occ
<1>9. Cardinality(A) <= Cardinality(Occ(s, v)) - (IF s[k] = v THEN 1 ELSE 0)
  <2> HIDE DEF A, B
  <2> QED
    BY <1>5, <1>6, <1>7, <1>8, SMTT(30)
<1> QED
  BY <1>9, ZenonT(40) DEF r

\* LREM v takes one copy of v, and no other value gains one.
LEMMA OccLrem ==
  ASSUME NEW s \in Seq(Nat), NEW w
  PROVE  /\ \A v : Cardinality(Occ(Lrem(s, w), v)) <= Cardinality(Occ(s, v))
         /\ \/ Cardinality(Occ(Lrem(s, w), w)) = 0
            \/ Cardinality(Occ(Lrem(s, w), w)) <= Cardinality(Occ(s, w)) - 1
<1>1. \A v : Cardinality(Occ(s, v)) \in Nat
  BY OccFinite, ZenonT(40)
<1>2. CASE (\A i \in 1 .. Len(s) : s[i] # w) /\ Lrem(s, w) = s
  <2>1. Occ(s, w) = {}
    BY <1>2, Zenon DEF Occ
  <2> QED
    BY <1>1, <1>2, <2>1, FS_EmptySet, SMTT(30)
<1>3. CASE \E k \in 1 .. Len(s) : s[k] = w /\ Lrem(s, w) = RemoveAt(s, k)
  <2>1. PICK k \in 1 .. Len(s) : s[k] = w /\ Lrem(s, w) = RemoveAt(s, k)
    BY <1>3, SMTT(30)
  <2>2. \A v : Cardinality(Occ(RemoveAt(s, k), v)) \in Nat
    BY RemoveAtParts, OccFinite, ZenonT(40)
  <2>3. \A v : Cardinality(Occ(RemoveAt(s, k), v))
                 <= Cardinality(Occ(s, v)) - (IF s[k] = v THEN 1 ELSE 0)
    BY OccRemoveAt
  <2>4. ASSUME NEW v PROVE Cardinality(Occ(Lrem(s, w), v)) <= Cardinality(Occ(s, v))
    BY <1>1, <2>1, <2>2, <2>3, SMTT(30)
  <2>5. Cardinality(Occ(Lrem(s, w), w)) <= Cardinality(Occ(s, w)) - 1
    BY <1>1, <2>1, <2>2, <2>3, SMTT(30)
  <2> QED
    BY <2>4, <2>5, SMTT(30)
<1> QED
  BY <1>2, <1>3, LremOne, SMTT(30)

\* The processes that have removed v and not yet pushed it.
Pushing(v) == {c \in Client : kind[c] = "pipe" /\ \E push \in Pushes : todo[c] = <<Cmd(push, v)>>}

\* There are at most as many copies of a value, stored or about to be pushed, as
\* there are processes.
CopiesAccounted ==
  profile = "unique" =>
    \A v \in Value : Copies(v) + Cardinality(Pushing(v)) <= Cardinality(Client)

\* There are at most as many processes about to push as there are processes.
LEMMA PushingFinite ==
  ASSUME NEW v
  PROVE  /\ IsFiniteSet(Pushing(v)) /\ Cardinality(Pushing(v)) \in Nat
         /\ IsFiniteSet(Pushing(v)') /\ Cardinality(Pushing(v)') \in Nat
         /\ Cardinality(Pushing(v)') <= Cardinality(Client) /\ Cardinality(Client) \in Nat
<1>1. Pushing(v) \in SUBSET Client /\ Pushing(v)' \in SUBSET Client
  BY DEF Pushing
<1>2. IsFiniteSet(Pushing(v)) /\ IsFiniteSet(Pushing(v)')
      /\ Cardinality(Pushing(v)') <= Cardinality(Client)
  BY <1>1, FS_Subset, ClientAssumption, SMTT(30)
<1> QED
  BY <1>2, FS_CardinalityType, ClientAssumption, SMTT(30)

\* The copies of a value are its places in the list.
LEMMA CopiesIsOcc ==
  ASSUME TypeOK, TypeOK', NEW v
  PROVE  /\ Copies(v) = Cardinality(Occ(list, v)) /\ Copies(v) \in Nat
         /\ Copies(v)' = Cardinality(Occ(list', v)) /\ Copies(v)' \in Nat
<1>1. list \in Seq(Nat) /\ list' \in Seq(Nat)
  BY DEF TypeOK
<1>2. Copies(v) = Cardinality(Occ(list, v)) /\ Copies(v)' = Cardinality(Occ(list', v))
  BY DEF Copies, Occ
<1> QED
  BY <1>1, <1>2, OccFinite, SMTT(30)

\* A step of c after which c is not about to push.
LEMMA PushingShrinks ==
  ASSUME NEW c \in Client, OthersKeep(c), kind'[c] # "pipe" \/ Len(todo'[c]) # 1, NEW v
  PROVE  /\ Cardinality(Pushing(v)') <= Cardinality(Pushing(v))
         /\ c \in Pushing(v) => Cardinality(Pushing(v)') <= Cardinality(Pushing(v)) - 1
<1>1. c \notin Pushing(v)'
  BY SMTT(30) DEF Pushing
<1>2. \A q \in Pushing(v)' : q \in Pushing(v)
  BY <1>1 DEF Pushing, OthersKeep
<1>3. Pushing(v)' \in SUBSET Pushing(v) /\ Pushing(v)' \in SUBSET (Pushing(v) \ {c})
  BY <1>1, <1>2, SMTT(30)
<1>4. /\ IsFiniteSet(Pushing(v) \ {c})
      /\ Cardinality(Pushing(v) \ {c}) = IF c \in Pushing(v) THEN Cardinality(Pushing(v)) - 1
                                         ELSE Cardinality(Pushing(v))
  BY PushingFinite, FS_RemoveElement, SMTT(30)
<1>5. Cardinality(Pushing(v)') <= Cardinality(Pushing(v) \ {c})
  BY <1>3, <1>4, FS_Subset, Zenon
<1> QED
  BY <1>4, <1>5, PushingFinite, SMTT(30)

\* A step that leaves the list alone and after which c is not about to push.
LEMMA AccountedKept ==
  ASSUME Control, Control', CopiesAccounted, NEW c \in Client, OthersKeep(c),
         UNCHANGED <<profile, list>>, kind'[c] # "pipe" \/ Len(todo'[c]) # 1
  PROVE  CopiesAccounted'
<1> SUFFICES ASSUME profile = "unique", NEW v \in Value
             PROVE  Copies(v)' + Cardinality(Pushing(v)') <= Cardinality(Client)
  BY DEF CopiesAccounted
<1>1. Copies(v)' = Copies(v) /\ Copies(v) \in Nat
  BY CopiesIsOcc, ZenonT(40) DEF Control, Copies
<1>2. Cardinality(Pushing(v)') <= Cardinality(Pushing(v))
  BY PushingShrinks
<1> QED
  BY <1>1, <1>2, PushingFinite, SMTT(30) DEF CopiesAccounted

\* The push itself, which ends the operation.
LEMMA AccountedPush ==
  ASSUME Control, Control', CopiesAccounted, NEW c \in Client, OthersKeep(c), profile' = profile,
         profile = "unique", kind[c] = "pipe", kind'[c] # "pipe",
         NEW w \in Value, NEW push \in Pushes, todo[c] = <<Cmd(push, w)>>, Execute(Current(c))
  PROVE  CopiesAccounted'
<1> SUFFICES ASSUME NEW v \in Value
             PROVE  Copies(v)' + Cardinality(Pushing(v)') <= Cardinality(Client)
  BY SMTT(30) DEF CopiesAccounted
<1>1. Current(c).cmd = push /\ Current(c).val = w /\ w \in Nat /\ list \in Seq(Nat)
  BY ValueAssumption DEF Current, Cmd, Control, TypeOK
<1>2. list' = Append(list, w) \/ list' = <<w>> \o list
  BY <1>1, ZenonT(40) DEF Execute, NewList, Pushes
<1>3. Cardinality(Occ(list', v)) <= Cardinality(Occ(list, v)) + (IF w = v THEN 1 ELSE 0)
  BY <1>1, <1>2, OccAppend, OccPrepend, Zenon
<1>4. w = v => c \in Pushing(v)
  BY SMTT(30) DEF Pushing
<1>5. /\ Cardinality(Pushing(v)') <= Cardinality(Pushing(v))
      /\ w = v => Cardinality(Pushing(v)') <= Cardinality(Pushing(v)) - 1
  BY <1>4, PushingShrinks
<1>6. Copies(v) + Cardinality(Pushing(v)) <= Cardinality(Client)
  BY Zenon DEF CopiesAccounted
<1>7. /\ Copies(v) \in Nat /\ Copies(v)' \in Nat
      /\ Copies(v)' <= Copies(v) + (IF w = v THEN 1 ELSE 0)
  BY <1>3, CopiesIsOcc, ZenonT(40) DEF Control
<1>8. Cardinality(Pushing(v)) \in Nat /\ Cardinality(Pushing(v)') \in Nat
      /\ Cardinality(Client) \in Nat
  BY PushingFinite
<1> DEFINE m == Copies(v)
           n == Copies(v)'
           p == Cardinality(Pushing(v))
           q == Cardinality(Pushing(v)')
           z == Cardinality(Client)
<1>9. /\ q <= p /\ (w = v => q <= p - 1) /\ m + p <= z
      /\ n <= m + (IF w = v THEN 1 ELSE 0)
      /\ m \in Nat /\ n \in Nat /\ p \in Nat /\ q \in Nat /\ z \in Nat
  BY <1>5, <1>6, <1>7, <1>8, ZenonT(40)
<1> HIDE DEF m, n, p, q, z
<1>10. n + q <= z
  BY <1>9
<1> QED
  BY <1>10, ZenonT(40) DEF n, q, z

\* LREM: its copy is gone, or there was none.
LEMMA AccountedLrem ==
  ASSUME Control, Control', CopiesAccounted, NEW c \in Client, OthersKeep(c), profile' = profile,
         profile = "unique", kind[c] = "pipe", NEW w \in Value, NEW push \in Pushes,
         todo[c] = <<Cmd("LREM", w), Cmd(push, w)>>, todo'[c] = <<Cmd(push, w)>>,
         Execute(Current(c))
  PROVE  CopiesAccounted'
<1> SUFFICES ASSUME NEW v \in Value
             PROVE  Copies(v)' + Cardinality(Pushing(v)') <= Cardinality(Client)
  BY ZenonT(40) DEF CopiesAccounted
<1>1. Current(c).cmd = "LREM" /\ Current(c).val = w /\ list \in Seq(Nat)
  BY DEF Current, Cmd, Control, TypeOK
<1>2. list' = Lrem(list, w)
  BY <1>1, ZenonT(40) DEF Execute, NewList
<1>3. /\ Copies(v)' <= Copies(v) /\ Copies(v) \in Nat /\ Copies(v)' \in Nat
      /\ v = w => Copies(v)' = 0 \/ Copies(v)' <= Copies(v) - 1
  <2>1. Copies(v) = Cardinality(Occ(list, v)) /\ Copies(v)' = Cardinality(Occ(list', v))
        /\ Copies(v) \in Nat /\ Copies(v)' \in Nat
    BY CopiesIsOcc, ZenonT(40) DEF Control
  <2>2. /\ Cardinality(Occ(list', v)) <= Cardinality(Occ(list, v))
        /\ v = w => \/ Cardinality(Occ(list', v)) = 0
                    \/ Cardinality(Occ(list', v)) <= Cardinality(Occ(list, v)) - 1
    BY <1>1, <1>2, OccLrem, SMTT(30)
  <2> QED
    BY <2>1, <2>2, ZenonT(40)
<1>4. Copies(v) + Cardinality(Pushing(v)) <= Cardinality(Client)
  BY DEF CopiesAccounted
<1>5. /\ IsFiniteSet(Pushing(v)) /\ Cardinality(Pushing(v)) \in Nat
      /\ Cardinality(Pushing(v)') \in Nat
      /\ Cardinality(Pushing(v)') <= Cardinality(Client) /\ Cardinality(Client) \in Nat
  BY PushingFinite
<1>6. CASE v = w
  <2>1. Pushing(v)' \in SUBSET (Pushing(v) \union {c})
    BY SMTT(30) DEF Pushing, OthersKeep
  <2>2. IsFiniteSet(Pushing(v) \union {c})
        /\ Cardinality(Pushing(v) \union {c}) <= Cardinality(Pushing(v)) + 1
    <3>1. /\ IsFiniteSet(Pushing(v) \union {c})
          /\ Cardinality(Pushing(v) \union {c}) = IF c \in Pushing(v) THEN Cardinality(Pushing(v))
                                                  ELSE Cardinality(Pushing(v)) + 1
      BY <1>5, FS_AddElement, ZenonT(40)
    <3> QED
      BY <1>5, <3>1, SMTT(30)
  <2>3. Cardinality(Pushing(v)') <= Cardinality(Pushing(v) \union {c})
    BY <2>1, <2>2, FS_Subset, SMTT(30)
  <2>4. IsFiniteSet(Pushing(v) \union {c}) => Cardinality(Pushing(v) \union {c}) \in Nat
    BY FS_CardinalityType
  <2> DEFINE m == Copies(v)
             n == Copies(v)'
             p == Cardinality(Pushing(v))
             q == Cardinality(Pushing(v)')
             y == Cardinality(Pushing(v) \union {c})
             z == Cardinality(Client)
  <2>5. /\ m \in Nat /\ n \in Nat /\ p \in Nat /\ q \in Nat /\ y \in Nat /\ z \in Nat
        /\ n <= m /\ (n = 0 \/ n <= m - 1) /\ m + p <= z /\ q <= z /\ y <= p + 1 /\ q <= y
    BY <1>3, <1>4, <1>5, <1>6, <2>2, <2>3, <2>4, ZenonT(40)
  <2> HIDE DEF m, n, p, q, y, z
  <2>6. n + q <= z
    BY <2>5, SMTT(30)
  <2> QED
    BY <2>6, ZenonT(40) DEF n, q, z
<1>7. CASE v # w
  <2>1. \A p \in Pushes : <<Cmd(push, w)>> # <<Cmd(p, v)>>
    BY <1>7, Zenon DEF Cmd
  <2>2. Pushing(v)' \in SUBSET Pushing(v)
    BY <2>1, ZenonT(40) DEF Pushing, OthersKeep
  <2>3. Cardinality(Pushing(v)') <= Cardinality(Pushing(v))
    BY <1>5, <2>2, FS_Subset, Zenon
  <2> QED
    BY <1>3, <1>4, <1>5, <2>3, SMTT(30)
<1> QED
  BY <1>6, <1>7, ZenonT(40)

\* No step makes more copies of a value than there are processes that pushed it or
\* are about to.
LEMMA AccountedNext ==
  ASSUME Control, Control', CopiesAccounted, [Next]_vars
  PROVE  CopiesAccounted'
<1> SUFFICES ASSUME profile' = "unique" PROVE CopiesAccounted'
  BY ZenonT(40) DEF CopiesAccounted
<1>1. CASE UNCHANGED vars
  BY <1>1 DEF vars, CopiesAccounted, Copies, Pushing
<1>2. CASE Expire
  BY <1>2, ZenonT(40) DEF Expire, Control, Lasting
<1>3. ASSUME NEW c \in Client, Operation(c) PROVE CopiesAccounted'
  <2>1. Starts(c) /\ OthersKeep(c)
    BY <1>3, OperationStarts, ControlBegin, Zenon DEF Control
  <2>2. PICK k \in {"cmd", "pipe"}, cs \in Seq(Commands), d \in BOOLEAN : Starts(c)!(k, cs, d)
    BY <2>1, ZenonT(40) DEF Starts
  <2>3. UNCHANGED <<profile, list>> /\ kind'[c] = k /\ todo'[c] = cs
    BY <2>2 DEF Begin, serverVars, Control, TypeOK
  <2>4. k = "pipe" => Len(cs) # 1
    <3> SUFFICES ASSUME k = "pipe" PROVE Len(cs) # 1
      BY Zenon
    <3>1. PICK v \in Value, push \in Pushes : cs = <<Cmd("LREM", v), Cmd(push, v)>>
      BY <2>2, <2>3, ZenonT(40)
    <3> QED
      BY <3>1, SMTT(30)
  <2> QED
    BY <2>1, <2>3, <2>4, AccountedKept, SMTT(30)
<1>4. ASSUME NEW c \in Client, redis_lnk_reset(c) PROVE CopiesAccounted'
  BY <1>4, ZenonT(40) DEF redis_lnk_reset, serverVars, CopiesAccounted, Copies, Pushing
<1>5. ASSUME NEW c \in Client, redis_cmd(c) PROVE CopiesAccounted'
  <2>1. kind[c] = "cmd" /\ profile' = profile /\ OthersKeep(c)
        /\ (UNCHANGED serverVars \/ Execute(Current(c)))
    BY <1>5, ControlCmdAnswered, ControlCmdBroken, ZenonT(40) DEF redis_cmd, CmdAnswered, CmdBroken
  <2>2. Current(c).cmd = "LRANGE"
    <3>1. Shape(c) /\ profile = "unique" /\ Current(c) = todo[c][1]
      BY <2>1, CurrentCommand, SMTT(30) DEF Control
    <3> QED
      BY <2>1, <3>1, ZenonT(40) DEF Shape
  <2>3. list' = list
    BY <2>1, <2>2, Zenon DEF serverVars, Execute, NewList
  <2>4. kind'[c] # "pipe"
    BY <1>5, <2>1, SMTT(30) DEF redis_cmd, CmdAnswered, CmdBroken, Return, Control, TypeOK
  <2> QED
    BY <2>1, <2>3, <2>4, AccountedKept, SMTT(30)
<1>6. ASSUME NEW c \in Client, NoConnection(c) PROVE CopiesAccounted'
  <2>1. OthersKeep(c) /\ UNCHANGED <<profile, list>> /\ kind'[c] = "idle"
    BY <1>6, ControlNoConnection, Zenon DEF NoConnection, serverVars, Return, Control, TypeOK
  <2> QED
    BY <2>1, AccountedKept, ZenonT(40)
<1>7. ASSUME NEW c \in Client, PipeBroken(c) PROVE CopiesAccounted'
  <2>1. /\ OthersKeep(c) /\ profile' = profile /\ kind[c] = "pipe" /\ kind'[c] = "idle"
        /\ UNCHANGED serverVars \/ (Len(todo[c]) = 1 /\ Execute(Current(c)))
    BY <1>7, ControlPipeBroken, ZenonT(40) DEF PipeBroken, Return, Control, TypeOK
  <2>2. CASE UNCHANGED serverVars
    BY <2>1, <2>2, AccountedKept DEF serverVars
  <2>3. CASE Len(todo[c]) = 1 /\ Execute(Current(c))
    <3>1. PICK v \in Value, push \in Pushes :
            todo[c] = <<Cmd("LREM", v), Cmd(push, v)>> \/ todo[c] = <<Cmd(push, v)>>
      BY <2>1, ZenonT(40) DEF Control, Shape
    <3>2. todo[c] = <<Cmd(push, v)>>
      BY <2>3, <3>1, SMTT(30)
    <3> QED
      BY <2>1, <2>3, <3>2, AccountedPush, SMTT(30)
  <2> QED
    BY <2>1, <2>2, <2>3, SMTT(30)
<1>8. ASSUME NEW c \in Client, PipeStep(c) PROVE CopiesAccounted'
  <2>1. OthersKeep(c) /\ profile' = profile /\ kind[c] = "pipe" /\ Execute(Current(c))
    BY <1>8, ControlPipeStep, Zenon DEF PipeStep
  <2>2. PICK v \in Value, push \in Pushes :
          todo[c] = <<Cmd("LREM", v), Cmd(push, v)>> \/ todo[c] = <<Cmd(push, v)>>
    BY <2>1, SMTT(30) DEF Control, Shape
  <2>3. CASE todo[c] = <<Cmd("LREM", v), Cmd(push, v)>>
    <3>1. Len(todo[c]) = 2 /\ Tail(todo[c]) = <<Cmd(push, v)>>
      BY <2>3, SMTT(30)
    <3>2. todo' = [todo EXCEPT ![c] = Tail(@)]
      BY <1>8, <3>1, SMTT(30) DEF PipeStep
    <3>3. todo'[c] = <<Cmd(push, v)>>
      BY <3>1, <3>2, ZenonT(40) DEF Control, TypeOK
    <3> QED
      BY <2>1, <2>3, <3>3, AccountedLrem, SMTT(30)
  <2>4. CASE todo[c] = <<Cmd(push, v)>>
    <3>1. Len(todo[c]) = 1
      BY <2>4, SMTT(30)
    <3>2. kind'[c] = "idle"
      BY <1>8, <3>1, SMTT(30) DEF PipeStep, Return, Control, TypeOK
    <3> QED
      BY <2>1, <2>4, <3>2, AccountedPush, SMTT(30)
  <2> QED
    BY <2>2, <2>3, <2>4, SMTT(30)
<1> QED
  BY <1>1, <1>2, <1>3, <1>4, <1>5, <1>6, <1>7, <1>8, SMTT(30) DEF Next

\* A value is stored at most once per process, for any number of processes,
\* operations and broken connections.
THEOREM BoundedCopiesHolds == Spec => []BoundedCopies
<1>1. Init => Control /\ CopiesAccounted
  <2> SUFFICES ASSUME Init, NEW v \in Value
               PROVE  Copies(v) + Cardinality(Pushing(v)) <= Cardinality(Client)
    BY ControlInit, SMTT(30) DEF CopiesAccounted
  <2>1. {i \in 1 .. Len(list) : list[i] = v} = {} /\ Pushing(v) = {}
    BY DEF Init, Pushing
  <2>2. Copies(v) = 0 /\ Cardinality(Pushing(v)) = 0
    BY <2>1, FS_EmptySet, ZenonT(40) DEF Copies
  <2> QED
    BY <2>2, PushingFinite, SMTT(30)
<1>2. Control /\ CopiesAccounted /\ [Next]_vars => (Control /\ CopiesAccounted)'
  BY ControlNext, AccountedNext, SMTT(30)
<1>3. Control /\ CopiesAccounted => BoundedCopies
  <2> SUFFICES ASSUME Control, CopiesAccounted, profile = "unique", NEW v \in Value
               PROVE  Copies(v) <= Cardinality(Client)
    BY DEF BoundedCopies
  <2>1. Copies(v) + Cardinality(Pushing(v)) <= Cardinality(Client)
    BY DEF CopiesAccounted
  <2>2. Copies(v) \in Nat
    BY OccFinite, Zenon DEF Copies, Occ, Control, TypeOK
  <2> QED
    BY <2>1, <2>2, PushingFinite, SMTT(30)
<1> QED
  BY <1>1, <1>2, <1>3, PTL DEF Spec
=============================================================================
