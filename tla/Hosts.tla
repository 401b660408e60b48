------------------------------- MODULE Hosts -------------------------------
(***************************************************************************)
(* base/hosts.c, second half: the collection gvm_hosts_t, its iterator and  *)
(* the operations that filter it.                                          *)
(*                                                                         *)
(* The collection is the array of pointers the code has, NULLs included,   *)
(* with its three counters.  A host is its value and its list of virtual   *)
(* hosts (pairs of name and source).  The caller owns one collection and   *)
(* filters it before it iterates, or after the iteration is through ("not  *)
(* to be used while iterating", hosts.c:1376).  DNS is asked anew by every *)
(* operation and may answer each time as it likes.                         *)
(***************************************************************************)
EXTENDS HostSpecs, FiniteSets, Functions

CONSTANTS
  Lists,      \* host strings: sequences of elements of HostSpecs
  Filters,    \* those given to the excluding operations
  MaxHosts,   \* values for the max_hosts argument; 0 is no limit
  Forward,    \* answers of the resolver: functions from names to values
  Backward,   \* answers to reverse lookups: functions from values to names
  ArraySize,  \* the initial max_size (1024)
  VhostLists, \* names given to gvm_vhosts_exclude
  NULL, ENDLESS

VARIABLES
  hs,    \* the collection, or NULL
  made,  \* the number of hosts ever added to it (a history variable)
  moved  \* a host was moved to the end since it was created (likewise)

vars == <<hs, made, moved>>

Hosts(h) == SubSeq(h.hosts, 1, h.count)
Values(h) == [i \in 1 .. h.count |-> h.hosts[i].value]
NewHost(value, vhosts) == [value |-> value, vhosts |-> vhosts]
VhostNames(host) == {v[1] : v \in Range(host.vhosts)}

-----------------------------------------------------------------------------
(* The array.                                                              *)

gvm_hosts_init ==
  [hosts |-> [i \in 1 .. ArraySize |-> NULL], count |-> 0, current |-> 0,
   removed |-> 0, duplicated |-> 0]

gvm_hosts_add(h, host) ==
  LET grown == IF h.count = Len(h.hosts)
               THEN h.hosts \o [i \in 1 .. 3 * h.count |-> NULL]
               ELSE h.hosts
  IN  [h EXCEPT !.hosts = [grown EXCEPT ![h.count + 1] = host], !.count = @ + 1]

AddAll(h, hosts) == FoldLeft(gvm_hosts_add, h, hosts)

\* Every entry moves to the first gap before it, so the order stays.
gvm_hosts_fill_gaps(array) ==
  LET kept == SelectSeq(array, LAMBDA x : x # NULL)
  IN  kept \o [i \in 1 .. Len(array) - Len(kept) |-> NULL]

\* The common end of the filters: the slots in gone have been set to NULL.
Drop(h, gone) ==
  [h EXCEPT !.hosts = gvm_hosts_fill_gaps(
                        [i \in DOMAIN @ |-> IF i \in gone THEN NULL ELSE @[i]]),
            !.count = @ - Cardinality(gone), !.current = 0]

\* The removed hosts are not counted.
Mutant_RemoveHosts(h, gone) == Drop(h, gone)

RemoveHosts(h, gone) == [Drop(h, gone) EXCEPT !.removed = @ + Cardinality(gone)]

\* The virtual hosts of a duplicate are freed with it.
Mutant_gvm_hosts_deduplicate(h) ==
  LET gone == {i \in 1 .. h.count : \E j \in 1 .. i - 1 : h.hosts[j].value = h.hosts[i].value}
  IN  Drop([h EXCEPT !.duplicated = @ + Cardinality(gone)], gone)

\* The host an equal one is merged into: the first of its value.
gvm_hosts_deduplicate(h) ==
  LET same(i) == {j \in 1 .. h.count : h.hosts[j].value = h.hosts[i].value}
      first(i) == \A j \in same(i) : i <= j
      gone == {i \in 1 .. h.count : ~first(i)}
      \* the virtual hosts of the equal ones, in array order
      merged(i) == FlattenSeq([j \in 1 .. h.count |->
                                 IF j \in same(i) THEN h.hosts[j].vhosts ELSE <<>>])
      host(i) == IF h.hosts[i] = NULL THEN NULL
                 ELSE [h.hosts[i] EXCEPT !.vhosts = merged(i)]
      full == [h EXCEPT !.hosts = [i \in DOMAIN @ |-> host(i)],
                        !.duplicated = @ + Cardinality(gone)]
  IN  Drop(full, gone)

\* The loop over the list elements.  The result is the collection, NULL for an
\* error or too many hosts, or ENDLESS when a loop over addresses never ends.
AddElement(h, e, max) ==
  IF h \in {NULL, ENDLESS} \/ (e.sep = "" /\ e.left = <<>>) THEN h
  ELSE IF gvm_get_host_type(e) = "ERROR" THEN NULL
  ELSE IF Endless(e) THEN IF max > 0 THEN NULL ELSE ENDLESS
  ELSE LET new == Expand(e)
           all == AddAll(h, [i \in DOMAIN new |-> NewHost(new[i], <<>>)])
       IN  IF max > 0 /\ all.count > max THEN NULL ELSE all

\* Lists of two elements are not searched for duplicates.
Mutant_gvm_hosts_new_with_max(list, max) ==
  LET all == FoldLeft(LAMBDA h, e : AddElement(h, e, max), gvm_hosts_init, list)
  IN  IF all \in {NULL, ENDLESS} \/ Len(list) <= 2 THEN all
      ELSE gvm_hosts_deduplicate(all)

gvm_hosts_new_with_max(list, max) ==
  LET all == FoldLeft(LAMBDA h, e : AddElement(h, e, max), gvm_hosts_init, list)
  IN  IF all \in {NULL, ENDLESS} \/ Len(list) <= 1 THEN all
      ELSE gvm_hosts_deduplicate(all)

\* The collections of all strings, as a constant that is computed once.
Parsed == [list \in Lists \cup Filters, max \in MaxHosts \cup {0} |->
             gvm_hosts_new_with_max(list, max)]

-----------------------------------------------------------------------------
(* The operations.                                                         *)

Init == hs = NULL /\ made = 0 /\ moved = FALSE

\* A caller that has no collection creates one.
New(list, max) ==
  LET h == Parsed[list, max]
  IN  /\ hs = NULL /\ h \notin {NULL, ENDLESS}
      /\ hs' = h /\ made' = h.count + h.duplicated /\ moved' = FALSE

gvm_hosts_free == hs # NULL /\ hs' = NULL /\ made' = 0 /\ moved' = FALSE

gvm_hosts_next ==
  /\ hs # NULL /\ hs.current # hs.count
  /\ hs' = [hs EXCEPT !.current = @ + 1]
  /\ UNCHANGED <<made, moved>>

\* The loop stops one entry early.
Mutant_Shifted(h, c) ==
  [k \in DOMAIN h.hosts |->
     CASE k = h.count               -> h.hosts[c + 1]
       [] k >= c /\ k < h.count - 1 -> h.hosts[k + 1]
       [] OTHER                     -> h.hosts[k]]

\* The loop starts one entry too early: the entry before the current host is
\* overwritten with it (for the first host, the memory before the array).
Shifted(h, c) ==
  [k \in DOMAIN h.hosts |->
     CASE k = h.count           -> h.hosts[c + 1]
       [] k >= c /\ k < h.count -> h.hosts[k + 1]
       [] OTHER                 -> h.hosts[k]]

\* The current host is the one gvm_hosts_next returned last.
gvm_hosts_move_current_host_to_end ==
  /\ hs # NULL /\ hs.current > 0
  /\ hs' = IF hs.current = hs.count
           THEN [hs EXCEPT !.current = @ - 1]
           ELSE [hs EXCEPT !.hosts = Shifted(hs, hs.current - 1), !.current = @ - 1]
  /\ moved' = (moved \/ hs.current # hs.count)
  /\ UNCHANGED made

\* The documented precondition of the operations that reset the iterator.
NotIterating == hs # NULL /\ hs.current \in {0, hs.count} /\ ~moved

\* g_rand_int_range picks every swap: every order can come out.
gvm_hosts_shuffle ==
  /\ NotIterating
  /\ \E p \in Permutations(1 .. hs.count) :
       hs' = [hs EXCEPT !.hosts = [i \in DOMAIN @ |-> IF i <= hs.count THEN @[p[i]] ELSE NULL],
                        !.current = 0]
  /\ UNCHANGED <<made, moved>>

\* hosts->count - 1 wraps around for an empty collection: not to be called then.
gvm_hosts_reverse ==
  /\ NotIterating /\ hs.count > 0
  /\ hs' = [hs EXCEPT !.hosts = [i \in DOMAIN @ |-> IF i <= hs.count
                                                    THEN @[hs.count + 1 - i] ELSE NULL],
                      !.current = 0]
  /\ UNCHANGED <<made, moved>>

\* The addresses of the names, in array order, each with its name as virtual host.
Resolved(h, dns) ==
  FlattenSeq([i \in 1 .. h.count |->
    IF h.hosts[i].value[1] # "NAME" THEN <<>>
    ELSE LET name == h.hosts[i].value[2]
         IN  [k \in 1 .. Len(dns[name]) |->
                NewHost(dns[name][k], <<<<name, "Forward-DNS">>>>)]])

gvm_hosts_resolve(dns) ==
  LET names == {i \in 1 .. hs.count : hs.hosts[i].value[1] = "NAME"}
      new   == Resolved(hs, dns)
      left  == RemoveHosts(AddAll(hs, new), names)
  IN  /\ NotIterating
      /\ hs' = [(IF new # <<>> THEN gvm_hosts_deduplicate(left) ELSE left)
                  EXCEPT !.current = 0]
      /\ made' = made + Len(new)
      /\ UNCHANGED moved

gvm_hosts_exclude_with_max(list, max) ==
  LET ex   == Parsed[list, max]
      gone == {i \in 1 .. hs.count : hs.hosts[i].value \in Range(Values(ex))}
  IN  /\ NotIterating /\ ex \notin {NULL, ENDLESS}
      /\ hs' = IF ex.count = 0 THEN hs ELSE RemoveHosts(hs, gone)
      /\ UNCHANGED <<made, moved>>

\* A host on both lists is kept.
Mutant_gvm_hosts_allowed_only(deny, allow) ==
  LET table(list) == IF list = NULL THEN {} ELSE Range(Values(Parsed[list, 0]))
      gone == {i \in 1 .. hs.count :
                 /\ deny # NULL => hs.hosts[i].value \in table(deny)
                 /\ allow # NULL => hs.hosts[i].value \notin table(allow)}
  IN  /\ NotIterating
      /\ hs' = IF deny = NULL /\ allow = NULL THEN hs ELSE RemoveHosts(hs, gone)
      /\ UNCHANGED <<made, moved>>

\* A list is NULL or names a host: for one that is there and names none the code
\* frees it and goes on using it.
gvm_hosts_allowed_only(deny, allow) ==
  LET table(list) == IF list = NULL THEN {} ELSE Range(Values(Parsed[list, 0]))
      gone == {i \in 1 .. hs.count :
                 \/ deny # NULL /\ hs.hosts[i].value \in table(deny)
                 \/ allow # NULL /\ hs.hosts[i].value \notin table(allow)}
  IN  /\ NotIterating
      /\ hs' = IF deny = NULL /\ allow = NULL THEN hs ELSE RemoveHosts(hs, gone)
      /\ UNCHANGED <<made, moved>>

\* EAI_AGAIN is retried ten times; a name has no reverse entry.
gvm_host_reverse_lookup(host, ptr) == IF host.value[1] = "NAME" THEN NULL ELSE ptr[host.value]

\* The excluded hosts, whose copies gvm_hosts_reverse_lookup_only_excluded returns.
NoReverse(h, ptr) == {i \in 1 .. h.count : gvm_host_reverse_lookup(h.hosts[i], ptr) = NULL}

gvm_hosts_reverse_lookup_only(ptr) ==
  /\ NotIterating
  /\ hs' = RemoveHosts(hs, NoReverse(hs, ptr))
  /\ UNCHANGED <<made, moved>>

\* All but the first host of a reverse name.
SameReverse(h, ptr) ==
  LET name(i) == gvm_host_reverse_lookup(h.hosts[i], ptr)
  IN  {i \in 1 .. h.count : name(i) # NULL /\ \E j \in 1 .. i - 1 : name(j) = name(i)}

gvm_hosts_reverse_lookup_unify(ptr) ==
  /\ NotIterating
  /\ hs' = RemoveHosts(hs, SameReverse(hs, ptr))
  /\ UNCHANGED <<made, moved>>

\* host_name_verify: the name resolves to the address it was found for.
host_name_verify(host, name, dns) == host.value \in Range(dns[name])

gvm_host_add_reverse_lookup(i, ptr, dns) ==
  LET host == hs.hosts[i]
      name == gvm_host_reverse_lookup(host, ptr)
  IN  /\ name # NULL /\ host_name_verify(host, name, dns) /\ name \notin VhostNames(host)
      /\ hs' = [hs EXCEPT !.hosts[i].vhosts = <<<<name, "Reverse-DNS">>>> \o @]
      /\ UNCHANGED <<made, moved>>

gvm_vhosts_exclude(i, names) ==
  /\ hs' = [hs EXCEPT !.hosts[i].vhosts = SelectSeq(@, LAMBDA v : v[1] \notin names)]
  /\ UNCHANGED <<made, moved>>

Indices == IF hs = NULL THEN {} ELSE 1 .. hs.count

Next ==
  \/ \E list \in Lists, max \in MaxHosts : New(list, max)
  \/ gvm_hosts_free
  \/ gvm_hosts_next
  \/ gvm_hosts_move_current_host_to_end
  \/ gvm_hosts_shuffle
  \/ gvm_hosts_reverse
  \/ \E dns \in Forward : gvm_hosts_resolve(dns)
  \/ \E list \in Filters, max \in MaxHosts : gvm_hosts_exclude_with_max(list, max)
  \/ \E deny, allow \in Filters \cup {NULL} : gvm_hosts_allowed_only(deny, allow)
  \/ \E ptr \in Backward : gvm_hosts_reverse_lookup_only(ptr)
  \/ \E ptr \in Backward : gvm_hosts_reverse_lookup_unify(ptr)
  \/ \E i \in Indices, ptr \in Backward, dns \in Forward :
       gvm_host_add_reverse_lookup(i, ptr, dns)
  \/ \E i \in Indices, names \in VhostLists : gvm_vhosts_exclude(i, names)

Spec == Init /\ [][Next]_vars

-----------------------------------------------------------------------------
(* Properties.                                                             *)

\* Every host that was ever in the collection is in it, or counted once as removed
\* or as duplicated (gvm_hosts_removed, gvm_hosts_duplicated).
AllAccounted == hs # NULL => made = hs.count + hs.removed + hs.duplicated

\* No value is in the collection twice, whatever the list overlapped and whatever
\* its names resolve to.  Moving a host breaks it: the host
\* is then twice in the collection, in place of the one before it.
UniqueHosts == hs # NULL /\ ~moved => IsInjective(Values(hs))

Pending(h) == SubSeq(h.hosts, h.current + 1, h.count)

\* A host moved to the end is handed out again after all hosts that were still to
\* come, none of which is skipped.
MoveRequeues ==
  [][gvm_hosts_move_current_host_to_end =>
       Pending(hs') = Append(Pending(hs), hs.hosts[hs.current])]_vars

\* The values a list denotes, by arithmetic on its bounds.
ListDenotes == [list \in Filters |-> UNION {Denotes(list[i]) : i \in DOMAIN list}]

\* Exactly the excluded hosts go, and the others keep their order.
ExcludeIsExact ==
  [][\A list \in Filters, max \in MaxHosts :
       gvm_hosts_exclude_with_max(list, max) =>
         Values(hs') = SelectSeq(Values(hs), LAMBDA v : v \notin ListDenotes[list])]_vars

\* What is left is allowed and not denied, and nothing else was taken out.
OnlyAuthorised ==
  [][\A deny, allow \in Filters \cup {NULL} :
       gvm_hosts_allowed_only(deny, allow) =>
         Values(hs') = SelectSeq(Values(hs), LAMBDA v :
                         /\ deny # NULL => v \notin ListDenotes[deny]
                         /\ allow # NULL => v \in ListDenotes[allow])]_vars

\* After gvm_hosts_resolve no name is left, and the host of every address a name
\* resolved to has the name, and the names it had before, as virtual hosts: also
\* when several names share an address or the address was in the list.
ResolveKeepsNames ==
  [][\A dns \in Forward :
       gvm_hosts_resolve(dns) =>
         /\ \A v \in Range(Values(hs')) : v[1] # "NAME"
         /\ \A h \in Range(Hosts(hs)), new \in Range(Hosts(hs')) :
              /\ h.value[1] = "NAME" /\ new.value \in Range(dns[h.value[2]])
                   => h.value[2] \in VhostNames(new)
              /\ h.value = new.value => VhostNames(h) \subseteq VhostNames(new)
         /\ \A h \in Range(Hosts(hs)) :
              IF h.value[1] = "NAME"
              THEN Range(dns[h.value[2]]) \subseteq Range(Values(hs'))
              ELSE h.value \in Range(Values(hs'))]_vars
=============================================================================
