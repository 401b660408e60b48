------------------------------ MODULE MCHosts ------------------------------
(* An instance of Hosts for TLC: addresses of two two-bit bytes, lists with *)
(* overlapping specifications and two names that may share an address.      *)
EXTENDS Hosts

Elem(left, sep, right) == [left |-> left, sep |-> sep, right |-> right]
V4(n) == <<"v4", n>>
V6(n) == <<"v6", n>>
Num(n) == <<"num", n, n>>
Name(n) == Elem(<<"name", n>>, "", <<>>)
One(n) == Elem(V4(n), "", <<>>)
Empty == Elem(<<>>, "", <<>>)

A6 == <<1, 1>>

MC_Lists == {
  <<Elem(V4(5), "/", Num(2))>>,                                \* 5, 6
  <<One(6), Elem(V4(4), "-", Num(2))>>,                        \* 6, 4, 5, 6
  <<Name("a"), Name("b")>>,                                    \* may share an address
  <<One(5), Name("a")>>,                                       \* may be the same host
  <<Name("a"), Empty, Elem(V6(A6), "/", Num(3))>>,             \* a, two IPv6 addresses
  <<Elem(V4(5), "-", Num(7)), Name("b")>>,                     \* a dashed name and b
  <<Elem(V4(13), "-", V4(15))>>,                               \* up to the last address
  <<Elem(<<"bad">>, "", <<>>), One(5)>>}

MC_Filters == {
  <<Name("a"), One(5), Elem(V6(A6), "/", Num(4))>>,
  <<Elem(V4(5), "-", V4(6)), Elem(V6(<<1, 0>>), "-", Num(6))>>}

MC_MaxHosts == {0, 2, 3}

Names == {"a", "b", "dashed"}
MC_Forward ==
  LET answer(x, y) == [n \in Names |-> CASE n = "a" -> x [] n = "b" -> y [] OTHER -> <<>>]
  IN  {answer(<<<<"IPV4", 6>>>>, <<>>),
       answer(<<<<"IPV4", 5>>, <<"IPV6", A6>>>>, <<<<"IPV4", 5>>>>)}

MC_Values == {<<"IPV4", n>> : n \in 0 .. 15} \cup {<<"IPV6", <<i, j>>>> : i, j \in 0 .. 3}
MC_Backward ==
  {[v \in MC_Values |-> IF v \in {<<"IPV4", 5>>, <<"IPV4", 6>>} THEN "a" ELSE NULL],
   [v \in MC_Values |-> IF v = <<"IPV6", A6>> THEN "a" ELSE IF v = <<"IPV4", 6>> THEN "b" ELSE NULL]}

MC_VhostLists == {{"a"}, {"a", "b"}}
=============================================================================
