----------------------------- MODULE HostSpecs -----------------------------
(***************************************************************************)
(* base/hosts.c, first half: which kind of host specification a list       *)
(* element is, and which addresses it stands for.  Pure functions.         *)
(*                                                                         *)
(* An element is abstracted to what the is_* functions look for: the part  *)
(* before the first separator, the separator, and the part after it.  The  *)
(* parts are tokens:                                                       *)
(*   <<"v4", n>>   text inet_pton accepts as the IPv4 address n             *)
(*   <<"v6", a>>   text inet_pton accepts as the IPv6 address a (its bytes) *)
(*   <<"num", d, h, k>>  k hexadecimal digits; h is their hexadecimal value *)
(*                 and d their decimal one, or NaN when a digit is a letter *)
(*   <<"name", s>> a well-formed host name, already in lower case           *)
(*   <<"bad">>     anything else;  <<>> nothing                             *)
(*                                                                         *)
(* A byte has ByteBits bits (8), an IPv4 address Bytes4 bytes (4) and an    *)
(* IPv6 address Bytes6 bytes (16).                                         *)
(***************************************************************************)
EXTENDS Integers, Sequences, SequencesExt

CONSTANTS ByteBits, Bytes4, Bytes6

ASSUME WidthAssumption ==
  /\ ByteBits \in Nat \ {0} /\ Bytes4 \in Nat \ {0, 1} /\ Bytes6 \in Nat \ {0, 1}

NaN == -1
Radix == 2 ^ ByteBits
Bits4 == ByteBits * Bytes4
Bits6 == ByteBits * Bytes6
Top4 == 2 ^ Bits4 - 1
Addr6 == [1 .. Bytes6 -> 0 .. Radix - 1]
Top6 == [i \in 1 .. Bytes6 |-> Radix - 1]

\* n with its low bits, those below the power of two size, cleared.
Base(n, size) == n - (n % size)

Is(token, kind) == Len(token) > 0 /\ token[1] = kind

-----------------------------------------------------------------------------
(* The kinds of specification.                                             *)

is_cidr_block(e) ==
  /\ e.sep = "/" /\ Is(e.left, "v4") /\ Is(e.right, "num")
  /\ e.right[2] > 0 /\ e.right[2] <= Bits4 - 2

is_short_range_network(e) ==
  /\ e.sep = "-" /\ Is(e.left, "v4") /\ Is(e.right, "num")
  /\ e.right[2] >= 0 /\ e.right[2] <= Radix - 1

is_long_range_network(e) == e.sep = "-" /\ Is(e.left, "v4") /\ Is(e.right, "v4")

is_cidr6_block(e) ==
  /\ e.sep = "/" /\ Is(e.left, "v6") /\ Is(e.right, "num")
  /\ e.right[2] > 0 /\ e.right[2] <= Bits6

\* At most four hexadecimal digits: two bytes.
is_short_range6_network(e) ==
  /\ e.sep = "-" /\ Is(e.left, "v6") /\ Is(e.right, "num")
  /\ e.right[3] < Radix ^ 2

is_long_range6_network(e) == e.sep = "-" /\ Is(e.left, "v6") /\ Is(e.right, "v6")

\* A dash may be inside a label, so "192.168.1.1-300", which is no range, has the
\* form of a host name: its last label "1-300" is no integer.
is_hostname(e) ==
  \/ e.sep = "" /\ Is(e.left, "name")
  \/ e.sep = "-" /\ Is(e.left, "v4") /\ Is(e.right, "num")

gvm_get_host_type(e) ==
  CASE e.sep = "" /\ e.left = <<>>      -> "ERROR"
    [] e.sep = "" /\ Is(e.left, "v4")   -> "IPV4"
    [] e.sep = "" /\ Is(e.left, "v6")   -> "IPV6"
    [] is_cidr_block(e)                 -> "CIDR_BLOCK"
    [] is_short_range_network(e)        -> "RANGE_SHORT"
    [] is_long_range_network(e)         -> "RANGE_LONG"
    [] is_cidr6_block(e)                -> "CIDR6_BLOCK"
    [] is_short_range6_network(e)       -> "RANGE6_SHORT"
    [] is_long_range6_network(e)        -> "RANGE6_LONG"
    [] is_hostname(e)
         /\ ~is_short_range_network(e)  -> "NAME"
    [] OTHER                            -> "ERROR"

-----------------------------------------------------------------------------
(* First and last address of a specification.                              *)

cidr_block_ips(e) ==
  LET size  == 2 ^ (Bits4 - e.right[2])
      first == Base(e.left[2], size) + 1
  IN  <<first, first + size - 3>>

short_range_network_ips(e) ==
  <<e.left[2], Base(e.left[2], Radix) + e.right[2]>>

long_range_network_ips(e) == <<e.left[2], e.right[2]>>

\* The byte loops of cidr6_block_ips.  Byte Pivot is the one the mask cuts.
Pivot(block) == Bytes6 - (Bits6 - block) \div ByteBits
CutBits(block) == 2 ^ ((Bits6 - block) % ByteBits)

ClearLow(a, block) ==
  [i \in 1 .. Bytes6 |-> CASE i > Pivot(block) -> 0
                           [] i = Pivot(block) -> Base(a[i], CutBits(block))
                           [] OTHER            -> a[i]]

FillLow(a, block) ==
  [i \in 1 .. Bytes6 |->
     CASE i > Pivot(block) -> Radix - 1
       [] i = Pivot(block) -> Base(a[i], CutBits(block)) + CutBits(block) - 1
       [] OTHER            -> a[i]]

\* Ripple increment and decrement from the last byte.
Increment6(a) ==
  LET carries(i) == \A j \in i + 1 .. Bytes6 : a[j] = Radix - 1
  IN  [i \in 1 .. Bytes6 |-> IF carries(i) THEN (a[i] + 1) % Radix ELSE a[i]]

Decrement6(a) ==
  LET borrows(i) == \A j \in i + 1 .. Bytes6 : a[j] = 0
  IN  [i \in 1 .. Bytes6 |-> IF borrows(i) THEN (a[i] - 1) % Radix ELSE a[i]]

\* A /128 loses its network and broadcast address like the others.
Mutant_cidr6_block_ips(e) ==
  LET first == ClearLow(e.left[2], e.right[2])
      last  == FillLow(e.left[2], e.right[2])
  IN  IF e.right[2] = Bits6 - 1 THEN <<first, last>>
      ELSE <<Increment6(first), Decrement6(last)>>

cidr6_block_ips(e) ==
  LET a     == e.left[2]
      block == e.right[2]
      first == ClearLow(a, block)
      last  == FillLow(a, block)
  IN  CASE block = Bits6     -> <<a, a>>
        [] block = Bits6 - 1 -> <<first, last>>
        [] OTHER             -> <<Increment6(first), Decrement6(last)>>

short_range6_network_ips(e) ==
  <<e.left[2], [e.left[2] EXCEPT ![Bytes6] = e.right[3] % Radix,
                                 ![Bytes6 - 1] = e.right[3] \div Radix]>>

long_range6_network_ips(e) == <<e.left[2], e.right[2]>>

\* memcmp of two addresses.
Leq6(a, b) ==
  a = b \/ \E i \in 1 .. Bytes6 : a[i] < b[i] /\ \A j \in 1 .. i - 1 : a[j] = b[j]

ips_func(e) ==
  LET type == gvm_get_host_type(e)
  IN  CASE type = "CIDR_BLOCK"   -> cidr_block_ips(e)
        [] type = "RANGE_SHORT"  -> short_range_network_ips(e)
        [] type = "RANGE_LONG"   -> long_range_network_ips(e)
        [] type = "CIDR6_BLOCK"  -> cidr6_block_ips(e)
        [] type = "RANGE6_SHORT" -> short_range6_network_ips(e)
        [] type = "RANGE6_LONG"  -> long_range6_network_ips(e)

-----------------------------------------------------------------------------
(* The hosts an element adds to a collection.  A host's value is a pair of  *)
(* its type and its name or address: what gvm_host_value_str prints.       *)

IsRange4(e) == gvm_get_host_type(e) \in {"CIDR_BLOCK", "RANGE_SHORT", "RANGE_LONG"}
IsRange6(e) == gvm_get_host_type(e) \in {"CIDR6_BLOCK", "RANGE6_SHORT", "RANGE6_LONG"}

\* The name a host gets; an element with a dash keeps both of its parts.
NameOf(e) == IF e.sep = "" THEN e.left[2] ELSE "dashed"

Walk4(first, last) == [i \in 1 .. last - first + 1 |-> <<"IPV4", first + i - 1>>]

RECURSIVE Walk6(_, _)
Walk6(current, last) ==
  IF ~Leq6(current, last) THEN <<>>
  ELSE <<<<"IPV6", current>>>> \o Walk6(Increment6(current), last)

\* A loop whose last address is the highest one never ends by itself: the
\* address after it is 0 again.
Endless(e) ==
  \/ IsRange4(e) /\ ips_func(e)[2] = Top4
  \/ IsRange6(e) /\ ips_func(e)[2] = Top6

\* The values of an element that is not Endless.
Expand(e) ==
  CASE gvm_get_host_type(e) = "NAME" -> <<<<"NAME", NameOf(e)>>>>
    [] gvm_get_host_type(e) = "IPV4" -> <<<<"IPV4", e.left[2]>>>>
    [] gvm_get_host_type(e) = "IPV6" -> <<<<"IPV6", e.left[2]>>>>
    [] IsRange4(e) -> Walk4(ips_func(e)[1], ips_func(e)[2])
    [] IsRange6(e) -> Walk6(ips_func(e)[1], ips_func(e)[2])
    [] OTHER -> <<>>

-----------------------------------------------------------------------------
(* A reference: the values an element denotes, in terms of numbers.        *)

Number6(a) == FoldLeft(LAMBDA n, digit : n * Radix + digit, 0, a)

\* Addresses that agree with n in all but the last host bits, without the first
\* and the last one when the block has more than two.
Block(n, bits, block, top) ==
  {m \in 0 .. top :
     /\ m \div 2 ^ (bits - block) = n \div 2 ^ (bits - block)
     /\ block < bits - 1 => m % 2 ^ (bits - block) \notin {0, 2 ^ (bits - block) - 1}}

Denotes4(e) ==
  CASE e.sep = "/" -> Block(e.left[2], Bits4, e.right[2], Top4)
    [] e.sep = "-" /\ Is(e.right, "num") ->
         {m \in e.left[2] .. Top4 :
            m \div Radix = e.left[2] \div Radix /\ m % Radix <= e.right[2]}
    [] e.sep = "-" /\ Is(e.right, "v4") -> e.left[2] .. e.right[2]
    [] OTHER -> {e.left[2]}

Denotes6(e) ==
  LET n == Number6(e.left[2])
  IN  CASE e.sep = "/" -> Block(n, Bits6, e.right[2], 2 ^ Bits6 - 1)
        [] e.sep = "-" /\ Is(e.right, "num") ->
             {m \in n .. 2 ^ Bits6 - 1 :
                m \div Radix ^ 2 = n \div Radix ^ 2 /\ m % Radix ^ 2 <= e.right[3]}
        [] e.sep = "-" /\ Is(e.right, "v6") -> n .. Number6(e.right[2])
        [] OTHER -> {n}

Denotes(e) ==
  CASE gvm_get_host_type(e) = "ERROR" -> {}
    [] gvm_get_host_type(e) = "NAME"  -> {<<"NAME", NameOf(e)>>}
    [] OTHER -> IF Is(e.left, "v4") THEN {<<"IPV4", m>> : m \in Denotes4(e)}
                ELSE {<<"IPV6", a>> : a \in {b \in Addr6 : Number6(b) \in Denotes6(e)}}
=============================================================================
