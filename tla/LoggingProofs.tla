----------------------------- MODULE LoggingProofs ------------------------------
(***************************************************************************)
(* For any number of threads, messages and configurations:                 *)
(*   - when the first message comes before the second thread, the outputs  *)
(*     of two threads are never mixed, although gvm_log_lock_init tests    *)
(*     and sets the pointer to the mutex without protection;               *)
(*   - with or without the mutex, each message goes where the              *)
(*     configuration says;                                                 *)
(*   - after a setup that returned 0 no message aborts the process.        *)
(***************************************************************************)
EXTENDS Logging, TLAPS

\* The inductive invariant.  There is no mutex, and only the main thread is in the
\* handler; or there is one, nobody makes another, and it is held by the thread
\* that is inside of the output.
OneMutex ==
  /\ pc \in [Threads -> {"idle", "resolve", "init", "make", "lock", "output",
                         "unlock", "done"}]
  /\ holder \in Seq(Threads \cup {NULL})
  /\ \/ logger_mutex = 0 /\ Len(holder) = 0
     \/ logger_mutex = 1 /\ Len(holder) = 1
  /\ logger_mutex = 0 => \A t \in Threads :
       /\ t # main => pc[t] = "idle"
       /\ pc[t] \notin {"lock", "output", "unlock"}
  /\ logger_mutex = 1 => \A t \in Threads :
       /\ pc[t] # "make"
       /\ Inside(t) <=> holder[1] = t

\* A list with one entry replaced.
LEMMA EntryReplaced ==
  ASSUME NEW S, NEW s \in Seq(S), NEW i \in 1 .. Len(s), NEW e \in S
  PROVE  /\ [s EXCEPT ![i] = e] \in Seq(S)
         /\ Len([s EXCEPT ![i] = e]) = Len(s)
         /\ \A j \in 1 .. Len(s) : [s EXCEPT ![i] = e][j] = IF j = i THEN e ELSE s[j]
OBVIOUS

\* A function on the first n numbers is a list of that length.
LEMMA FunctionIsList ==
  ASSUME NEW S, NEW n \in Nat, NEW s \in [1 .. n -> S]
  PROVE  s \in Seq(S) /\ Len(s) = n
OBVIOUS

\* Init establishes the invariant.
LEMMA OneMutexInit == Init => OneMutex
<1> SUFFICES ASSUME Init PROVE OneMutex
  OBVIOUS
<1>1. holder \in Seq(Threads \cup {NULL}) /\ Len(holder) = 0 /\ logger_mutex = 0
  BY DEF Init
<1>2. pc = [t \in Threads |-> "idle"]
  BY Zenon DEF Init
<1> QED BY <1>1, <1>2 DEF OneMutex, Inside

\* Each step preserves it.
LEMMA OneMutexNext ==
  ASSUME Late, OneMutex, [Next]_vars
  PROVE  OneMutex'
<1>a. main \in Threads /\ NULL \notin Threads
  BY LoggingAssumption, Zenon
<1> USE <1>a DEF OneMutex, Inside, shared
<1>1. CASE setup_log_handlers
  BY <1>1 DEF setup_log_handlers
<1>2. ASSUME NEW t \in Threads, NEW m \in Messages, Log(t, m)
      PROVE  OneMutex'
  BY <1>2 DEF Log
<1>3. ASSUME NEW t \in Threads, Resolve(t)
      PROVE  OneMutex'
  BY <1>3 DEF Resolve
<1>4. ASSUME NEW t \in Threads, gvm_log_lock_init(t)
      PROVE  OneMutex'
  <2>1. /\ pc[t] = "init" /\ UNCHANGED <<holder, logger_mutex>>
        /\ pc' = [pc EXCEPT ![t] = IF logger_mutex = 0 THEN "make" ELSE "lock"]
    BY <1>4 DEF gvm_log_lock_init
  <2>2. CASE logger_mutex = 0
    BY <2>1, <2>2
  <2>3. CASE logger_mutex = 1
    BY <2>1, <2>3
  <2> QED BY <2>2, <2>3, Zenon
<1>5. ASSUME NEW t \in Threads, MakeMutex(t)
      PROVE  OneMutex'
  <2>1. /\ pc[t] = "make" /\ pc' = [pc EXCEPT ![t] = "lock"]
        /\ logger_mutex' = Len(holder) + 1 /\ holder' = Append(holder, NULL)
    BY <1>5 DEF MakeMutex
  <2>2. logger_mutex = 0 /\ Len(holder) = 0 /\ t = main
    BY <2>1
  <2>3. /\ logger_mutex' = 1 /\ Len(holder') = 1 /\ holder'[1] = NULL
        /\ holder' \in Seq(Threads \cup {NULL})
    BY <2>1, <2>2
  <2>4. \A u \in Threads : pc'[u] \notin {"make", "output", "unlock"}
    BY <2>1, <2>2
  <2>5. pc' \in [Threads -> {"idle", "resolve", "init", "make", "lock", "output",
                            "unlock", "done"}]
    BY <2>1
  <2> QED BY <2>3, <2>4, <2>5
<1>6. ASSUME NEW t \in Threads, gvm_log_lock(t)
      PROVE  OneMutex'
  <2>1. /\ pc[t] = "lock" /\ pc' = [pc EXCEPT ![t] = "output"]
        /\ holder[logger_mutex] = NULL /\ UNCHANGED logger_mutex
        /\ holder' = [holder EXCEPT ![logger_mutex] = t]
    BY <1>6 DEF gvm_log_lock
  <2>2. logger_mutex = 1 /\ Len(holder) = 1
    BY <2>1
  <2>3. holder'[1] = t /\ Len(holder') = 1
    BY <2>1, <2>2
  <2>5. holder' \in Seq(Threads \cup {NULL})
    <3>1. /\ t \in Threads \cup {NULL} /\ holder \in Seq(Threads \cup {NULL})
          /\ logger_mutex \in 1..Len(holder)
      BY <2>2
    <3> QED BY <2>1, <3>1, EntryReplaced
  <2>4. \A u \in Threads : u # t => pc'[u] = pc[u] /\ ~Inside(u)
    BY <2>1, <2>2
  <2> QED BY <2>1, <2>2, <2>3, <2>4, <2>5
<1>7. ASSUME NEW t \in Threads, Output(t)
      PROVE  OneMutex'
  <2>1. /\ pc[t] = "output"
        /\ \/ pc' = [pc EXCEPT ![t] = "unlock"]
           \/ pc' = pc
        /\ UNCHANGED <<holder, logger_mutex>>
    BY <1>7 DEF Output, Written, Abort
  <2> QED BY <2>1
<1>8. ASSUME NEW t \in Threads, gvm_log_unlock(t)
      PROVE  OneMutex'
  <2>1. /\ pc[t] = "unlock"
        /\ \/ UNCHANGED <<pc, holder, logger_mutex>>
           \/ /\ holder' = [holder EXCEPT ![logger_mutex] = NULL]
              /\ pc' = [pc EXCEPT ![t] = "done"] /\ UNCHANGED logger_mutex
    BY <1>8 DEF gvm_log_unlock, Abort
  <2>2. logger_mutex = 1 /\ Len(holder) = 1 /\ holder[1] = t
    BY <2>1
  <2>3. CASE UNCHANGED <<pc, holder, logger_mutex>>
    BY <2>3
  <2>4. CASE /\ holder' = [holder EXCEPT ![logger_mutex] = NULL]
             /\ pc' = [pc EXCEPT ![t] = "done"] /\ UNCHANGED logger_mutex
    <3>1. /\ holder'[1] = NULL /\ Len(holder') = 1
          /\ holder' \in Seq(Threads \cup {NULL})
      BY <2>2, <2>4
    <3>2. \A u \in Threads : u # t => pc'[u] = pc[u] /\ ~Inside(u)
      BY <2>2, <2>4
    <3> QED BY <2>2, <2>4, <3>1, <3>2
  <2> QED BY <2>1, <2>3, <2>4
<1>9. ASSUME NEW t \in Threads, Return(t)
      PROVE  OneMutex'
  BY <1>9 DEF Return
<1>10. CASE free_log_configuration
  BY <1>10 DEF free_log_configuration
<1>11. CASE UNCHANGED vars
  BY <1>11 DEF vars
<1> QED
  BY <1>1, <1>2, <1>3, <1>4, <1>5, <1>6, <1>7, <1>8, <1>9, <1>10, <1>11 DEF Next, Step

\* The mutex that gvm_log_lock makes on first use excludes all other threads, if
\* they start after it was made.
THEOREM Exclusion ==
  ASSUME Late
  PROVE  Spec => []OneWriter
<1>1. OneMutex => OneWriter
  <2>1. ASSUME OneMutex, NEW t \in Threads, NEW u \in Threads, Inside(t), Inside(u)
        PROVE  t = u
    BY <2>1 DEF OneMutex, Inside
  <2> QED BY <2>1 DEF OneWriter
<1>2. OneMutex /\ [Next]_vars => OneMutex'
  BY OneMutexNext
<1> QED BY OneMutexInit, <1>1, <1>2, PTL DEF Spec

--------------------------------------------------------------------------------
\* Where messages may go, the groups a message may be of, and the channels.
Files == {NULL, "", "-", "syslog"} \cup UNION {DOMAIN d : d \in Disks}
Groups == UNION {DOMAIN c : c \in Configs}
Channels == [file : Files, entry : Groups \cup {NULL}, open : BOOLEAN]

\* The types of the variables.
Typed ==
  /\ config \in Configs
  /\ pc \in [Threads -> {"idle", "resolve", "init", "make", "lock", "output",
                         "unlock", "done"}]
  /\ msg \in [Threads -> Messages \cup {NoMessage}]
  /\ sent \in [Threads -> Files \cup {"glib", "filtered"}]
  /\ chosen \in [Threads -> [file : Files, entry : Groups \cup {NULL}, channel : Nat]]
  /\ channels \in Seq(Channels)
  /\ log_channel \in [DOMAIN config -> Nat]

\* A channel number that was found for group g names a channel to its file.
ChannelOf(g, n) ==
  n # 0 => /\ g \in DOMAIN config /\ n \in 1..Len(channels)
           /\ channels[n].file = config[g].file

\* What a thread knows of its message.
Knows(t) ==
  /\ pc[t] = "resolve" => Handled(msg[t].domain)
  /\ pc[t] \in {"init", "make", "lock", "output"} =>
       /\ chosen[t].file = Destination(msg[t])
       /\ chosen[t].entry # NULL =>
            /\ chosen[t].entry \in DOMAIN config
            /\ chosen[t].file \in {config[chosen[t].entry].file, "-"}
       /\ ChannelOf(chosen[t].entry, chosen[t].channel)
  /\ pc[t] \in {"unlock", "done"} => sent[t] = Destination(msg[t])

\* The inductive invariant: the channels cached in the entries and found by the
\* threads lead to the files of their groups, and nobody logs before the setup.
Placed ==
  /\ Typed
  /\ ret = NULL => \A t \in Threads : pc[t] = "idle"
  /\ \A g \in DOMAIN config : ChannelOf(g, log_channel[g])
  /\ \A t \in Threads : Knows(t)

\* Init establishes it.
LEMMA PlacedInit == Init => Placed
<1> SUFFICES ASSUME Init PROVE Placed
  OBVIOUS
<1>1. Typed
  BY DEF Init, Typed, NoMessage, Nothing, Files
<1>2. \A t \in Threads : pc[t] = "idle"
  BY Zenon DEF Init
<1> QED BY <1>1, <1>2 DEF Placed, Knows, ChannelOf, Init

\* What Resolve finds is what Destination says, and the channel fits.
LEMMA SettingsRight ==
  ASSUME Placed, NEW m \in Messages \cup {NoMessage}, Handled(m.domain),
         NEW s, s = Settings(m.domain)
  PROVE  /\ s.level < m.level => Destination(m) = "filtered"
         /\ ~(s.level < m.level) => s.file = Destination(m)
         /\ s.file \in Files /\ s.entry \in Groups \cup {NULL} /\ s.channel \in Nat
         /\ s.entry # NULL => /\ s.entry \in DOMAIN config
                              /\ s.file \in {config[s.entry].file, "-"}
         /\ ChannelOf(s.entry, s.channel)
<1> DEFINE d == m.domain
<1>1. /\ \A g \in DOMAIN config : config[g].file \in Files /\ g \in Groups
      /\ \A g \in DOMAIN config : log_channel[g] \in Nat /\ ChannelOf(g, log_channel[g])
      /\ "-" \in Files
  <2>1. config \in Configs
    BY DEF Placed, Typed
  <2>2. \A g \in DOMAIN config : config[g].file \in Files
    BY <2>1, LoggingAssumption, Zenon DEF Files
  <2>3. \A g \in DOMAIN config : g \in Groups
    BY <2>1 DEF Groups
  <2>4. \A g \in DOMAIN config : log_channel[g] \in Nat /\ ChannelOf(g, log_channel[g])
    BY Zenon DEF Placed, Typed
  <2> QED BY <2>2, <2>3, <2>4, Zenon DEF Files
<1>2. CASE d = NULL
  BY <1>1, <1>2, Zenon DEF Settings, Star, Destination, ChannelOf
<1>3. CASE d # NULL /\ d \notin DOMAIN config /\ "*" \notin DOMAIN config
  BY <1>1, <1>3 DEF Settings, Star, Destination, ChannelOf
<1>4. CASE d # NULL /\ d \notin DOMAIN config /\ "*" \in DOMAIN config
  BY <1>1, <1>4 DEF Settings, Star, Destination, ChannelOf
<1>5. CASE d # NULL /\ d \in DOMAIN config
  BY <1>1, <1>5 DEF Settings, Star, Destination, ChannelOf
<1> QED BY <1>2, <1>3, <1>4, <1>5

\* A step of thread t leaves what the others know, as long as the channels they
\* found stay.
LEMMA PlacedFrame ==
  ASSUME Placed, Typed', NEW t \in Threads, Knows(t)', ret' # NULL,
         UNCHANGED <<config, handled>>,
         \A u \in Threads : u # t => /\ pc'[u] = pc[u] /\ msg'[u] = msg[u]
                                     /\ chosen'[u] = chosen[u] /\ sent'[u] = sent[u],
         \A g, n : ChannelOf(g, n) => ChannelOf(g, n)',
         \A g \in DOMAIN config : ChannelOf(g, log_channel[g])'
  PROVE  Placed'
<1>2. ASSUME NEW u \in Threads, u # t PROVE Knows(u)'
  <2>1. Knows(u)
    BY DEF Placed
  <2>2. /\ pc'[u] = pc[u] /\ msg'[u] = msg[u]
        /\ chosen'[u] = chosen[u] /\ sent'[u] = sent[u] /\ config' = config
    BY <1>2, Zenon
  <2>3. /\ Destination(msg[u])' = Destination(msg[u])
        /\ Handled(msg[u].domain)' = Handled(msg[u].domain)
    BY <2>2 DEF Destination, Handled
  <2>4. ChannelOf(chosen[u].entry, chosen[u].channel)
          => ChannelOf(chosen[u].entry, chosen[u].channel)'
    BY <2>2, SMTT(30) DEF ChannelOf
  <2> QED BY <2>1, <2>2, <2>3, <2>4, Zenon DEF Knows
<1> QED BY <1>2, Zenon DEF Placed

\* The invariant depends on no other variables.
LEMMA PlacedStutter ==
  ASSUME Placed,
         UNCHANGED <<config, handled, ret, channels, log_channel, pc, msg, chosen, sent>>
  PROVE  Placed'
<1>1. Typed'
  BY DEF Placed, Typed
<1>2. \A g \in DOMAIN config : ChannelOf(g, log_channel[g])'
  BY Zenon DEF Placed, ChannelOf
<1>3. ASSUME NEW t \in Threads PROVE Knows(t)'
  <2>1. Knows(t)
    BY Zenon DEF Placed
  <2>2. /\ Destination(msg[t])' = Destination(msg[t])
        /\ Handled(msg[t].domain)' = Handled(msg[t].domain)
    BY DEF Destination, Handled
  <2>3. ChannelOf(chosen[t].entry, chosen[t].channel)'
          <=> ChannelOf(chosen[t].entry, chosen[t].channel)
    BY Zenon DEF ChannelOf
  <2> QED BY <2>1, <2>2, <2>3 DEF Knows
<1> QED BY <1>1, <1>2, <1>3 DEF Placed

\* Each step inside of the handler preserves the invariant.
LEMMA PlacedStep ==
  ASSUME Placed, NEW t \in Threads, Step(t)
  PROVE  Placed'
<1>a. ASSUME pc[t] # "idle", UNCHANGED ret PROVE ret' # NULL
  BY <1>a, Zenon DEF Placed
<1>b. ASSUME UNCHANGED <<config, channels, log_channel>>
      PROVE  /\ \A g, n : ChannelOf(g, n) => ChannelOf(g, n)'
             /\ \A g \in DOMAIN config : ChannelOf(g, log_channel[g])'
  BY <1>b, Zenon DEF ChannelOf, Placed
<1>c. ASSUME UNCHANGED <<config, handled, msg>>
      PROVE  Destination(msg[t])' = Destination(msg[t])
  BY <1>c DEF Destination, Handled
<1>1. CASE Resolve(t)
  <2>0. PICK s : s = Settings(msg[t].domain)
    BY Zenon
  <2>1. /\ pc[t] = "resolve"
        /\ UNCHANGED <<config, handled, ret, channels, log_channel, msg>>
        /\ IF s.level < msg[t].level
             THEN /\ sent' = [sent EXCEPT ![t] = "filtered"]
                  /\ pc' = [pc EXCEPT ![t] = "done"] /\ UNCHANGED chosen
             ELSE /\ chosen' = [chosen EXCEPT ![t] =
                       [file |-> s.file, entry |-> s.entry, channel |-> s.channel]]
                  /\ pc' = [pc EXCEPT ![t] = "init"] /\ UNCHANGED sent
    BY <1>1, <2>0, Zenon DEF Resolve, shared
  <2>2. /\ s.level < msg[t].level => Destination(msg[t]) = "filtered"
        /\ ~(s.level < msg[t].level) => s.file = Destination(msg[t])
        /\ s.file \in Files /\ s.entry \in Groups \cup {NULL} /\ s.channel \in Nat
        /\ s.entry # NULL => /\ s.entry \in DOMAIN config
                             /\ s.file \in {config[s.entry].file, "-"}
        /\ ChannelOf(s.entry, s.channel)
    BY <2>0, <2>1, SettingsRight DEF Placed, Typed, Knows
  <2>3. Typed'
    <3>1. CASE s.level < msg[t].level
      BY <2>1, <3>1, Zenon DEF Placed, Typed
    <3>2. CASE ~(s.level < msg[t].level)
      <4>1. [file |-> s.file, entry |-> s.entry, channel |-> s.channel]
              \in [file : Files, entry : Groups \cup {NULL}, channel : Nat]
        BY <2>2
      <4> QED BY <2>1, <3>2, <4>1, ZenonT(40) DEF Placed, Typed
    <3> QED BY <3>1, <3>2, Zenon
  <2>4. \A u \in Threads : u # t => /\ pc'[u] = pc[u] /\ msg'[u] = msg[u]
                                    /\ chosen'[u] = chosen[u] /\ sent'[u] = sent[u]
    BY <2>1, SMTT(30) DEF Placed, Typed
  <2>5. Destination(msg[t])' = Destination(msg[t])
    BY <1>c, <2>1
  <2>6. Knows(t)'
    <3>1. CASE s.level < msg[t].level
      BY <2>1, <2>2, <2>5, <3>1, SMTT(30) DEF Knows, Placed, Typed
    <3>2. CASE ~(s.level < msg[t].level)
      <4>1. /\ pc'[t] = "init"
            /\ chosen'[t] = [file |-> s.file, entry |-> s.entry, channel |-> s.channel]
        BY <2>1, <3>2, Zenon DEF Placed, Typed
      <4>2. ChannelOf(s.entry, s.channel)'
        BY <2>1, <2>2, Zenon DEF ChannelOf
      <4> QED BY <2>1, <2>2, <2>5, <3>2, <4>1, <4>2, SMTT(30) DEF Knows, ChannelOf
    <3> QED BY <3>1, <3>2, SMTT(30)
  <2> QED BY <1>a, <1>b, <2>1, <2>3, <2>4, <2>6, PlacedFrame
<1>2. CASE gvm_log_lock_init(t) \/ MakeMutex(t) \/ gvm_log_lock(t)
  <2>1. /\ pc[t] \in {"init", "make", "lock"}
        /\ \E p \in {"make", "lock", "output"} : pc' = [pc EXCEPT ![t] = p]
        /\ UNCHANGED <<config, handled, ret, channels, log_channel, msg, chosen, sent>>
    BY <1>2, Zenon DEF gvm_log_lock_init, MakeMutex, gvm_log_lock, shared
  <2>2. Typed'
    BY <2>1, Zenon DEF Placed, Typed
  <2>3. Knows(t)'
    <3>1. pc'[t] \in {"make", "lock", "output"} /\ Knows(t)
      BY <2>1, Zenon DEF Placed, Typed
    <3>2. ChannelOf(chosen[t].entry, chosen[t].channel)'
            <=> ChannelOf(chosen[t].entry, chosen[t].channel)
      BY <2>1 DEF ChannelOf
    <3>3. Destination(msg[t])' = Destination(msg[t])
      BY <1>c, <2>1, Zenon
    <3> QED BY <2>1, <3>1, <3>2, <3>3 DEF Knows
  <2>4. \A u \in Threads : u # t => /\ pc'[u] = pc[u] /\ msg'[u] = msg[u]
                                    /\ chosen'[u] = chosen[u] /\ sent'[u] = sent[u]
    BY <2>1, Zenon DEF Placed, Typed
  <2> QED BY <1>a, <1>b, <2>1, <2>2, <2>3, <2>4, PlacedFrame, Zenon
<1>3. CASE Output(t)
  <2> DEFINE c == chosen[t]
  <2>1. CASE Abort(t)
    BY <2>1, PlacedStutter, Zenon DEF Abort, shared
  <2>2. CASE /\ pc[t] = "output" /\ UNCHANGED <<log_channel, channels>>
             /\ \/ c.file \in {"-", "syslog"} /\ Written(t, c.file)
                \/ /\ c.file \notin {NULL, "-", "syslog"} /\ c.channel # 0
                   /\ Written(t, channels[c.channel].file)
    <3>0. /\ c.channel # 0 => channels[c.channel].file = config[c.entry].file
          /\ c.channel # 0 => c.file \in {config[c.entry].file, "-"}
      <4>1. Knows(t)
        BY Zenon DEF Placed
      <4>2. c.channel # 0 => c.entry # NULL
        BY <2>2, <4>1, LoggingAssumption, Zenon DEF Knows, ChannelOf, Placed, Typed
      <4> QED BY <2>2, <4>1, <4>2, Zenon DEF Knows, ChannelOf
    <3>1. /\ sent' = [sent EXCEPT ![t] = c.file] /\ pc' = [pc EXCEPT ![t] = "unlock"]
          /\ UNCHANGED <<config, handled, ret, channels, log_channel, msg, chosen>>
      BY <2>2, <3>0, Zenon DEF Written
    <3>2. Typed'
      BY <3>1, Zenon DEF Placed, Typed
    <3>3. Knows(t)'
      <4>1. pc'[t] = "unlock" /\ sent'[t] = c.file /\ Knows(t)
        BY <3>1 DEF Placed, Typed
      <4> QED BY <1>c, <2>2, <3>1, <4>1, Zenon DEF Knows
    <3>4. \A u \in Threads : u # t => /\ pc'[u] = pc[u] /\ msg'[u] = msg[u]
                                      /\ chosen'[u] = chosen[u] /\ sent'[u] = sent[u]
      BY <3>1, Zenon DEF Placed, Typed
    <3> QED BY <1>a, <1>b, <2>2, <3>1, <3>2, <3>3, <3>4, PlacedFrame, Zenon
  <2>3. CASE /\ pc[t] = "output" /\ c.file \notin {NULL, "-", "syslog"} /\ c.channel = 0
             /\ Written(t, c.file) /\ channels' = Opened(c)
             /\ log_channel' = IF c.entry = NULL THEN log_channel
                               ELSE [log_channel EXCEPT ![c.entry] = Len(channels) + 1]
    <3> DEFINE new == [file |-> c.file, entry |-> c.entry, open |-> TRUE]
    <3>1. /\ sent' = [sent EXCEPT ![t] = c.file] /\ pc' = [pc EXCEPT ![t] = "unlock"]
          /\ UNCHANGED <<config, handled, ret, msg, chosen>>
          /\ channels' = Append(channels, new)
      BY <2>3, Zenon DEF Written, Opened
    <3>2. new \in Channels /\ channels \in Seq(Channels) /\ Len(channels) \in Nat
      BY DEF Placed, Typed, Channels
    <3>3. /\ channels' \in Seq(Channels) /\ Len(channels') = Len(channels) + 1
          /\ \A i \in 1..Len(channels) : channels'[i] = channels[i]
          /\ channels'[Len(channels) + 1].file = c.file
      BY <3>1, <3>2, SMTT(30)
    <3>4. c.entry # NULL => c.entry \in DOMAIN config /\ c.file = config[c.entry].file
      BY <2>3, Zenon DEF Placed, Knows
    <3>5. Typed'
      <4>1. log_channel' \in [DOMAIN config -> Nat]
        <5>1. log_channel \in [DOMAIN config -> Nat] /\ Len(channels) + 1 \in Nat
          BY <3>2 DEF Placed, Typed
        <5> QED BY <2>3, <5>1, Zenon
      <4>2. sent' \in [Threads -> Files \cup {"glib", "filtered"}]
        <5>1. c.file \in Files /\ sent \in [Threads -> Files \cup {"glib", "filtered"}]
          BY DEF Placed, Typed
        <5> QED BY <3>1, <5>1, Zenon
      <4>3. pc' \in [Threads -> {"idle", "resolve", "init", "make", "lock", "output",
                                 "unlock", "done"}]
        BY <3>1, Zenon DEF Placed, Typed
      <4> QED BY <3>1, <3>3, <4>1, <4>2, <4>3, Zenon DEF Placed, Typed
    <3>6. Knows(t)'
      <4>1. pc'[t] = "unlock" /\ sent'[t] = c.file /\ Knows(t)
        BY <3>1 DEF Placed, Typed
      <4> QED BY <1>c, <2>3, <3>1, <4>1, Zenon DEF Knows
    <3>7. \A u \in Threads : u # t => /\ pc'[u] = pc[u] /\ msg'[u] = msg[u]
                                      /\ chosen'[u] = chosen[u] /\ sent'[u] = sent[u]
      BY <3>1 DEF Placed, Typed
    <3>8. \A g, n : ChannelOf(g, n) => ChannelOf(g, n)'
      BY <3>1, <3>2, <3>3 DEF ChannelOf
    <3>9. \A g \in DOMAIN config : ChannelOf(g, log_channel[g])'
      <4> SUFFICES ASSUME NEW g \in DOMAIN config PROVE ChannelOf(g, log_channel[g])'
        BY Zenon
      <4>1. CASE c.entry = g /\ c.entry # NULL
        <5>1. log_channel'[g] = Len(channels) + 1
          BY <2>3, <4>1, Zenon DEF Placed, Typed
        <5> QED BY <3>1, <3>2, <3>3, <3>4, <4>1, <5>1 DEF ChannelOf
      <4>2. CASE ~(c.entry = g /\ c.entry # NULL)
        <5>1. log_channel'[g] = log_channel[g]
          BY <2>3, <4>2 DEF Placed, Typed
        <5>2. ChannelOf(g, log_channel[g])
          BY Zenon DEF Placed
        <5> QED BY <3>1, <3>8, <5>1, <5>2, Zenon DEF ChannelOf
      <4> QED BY <4>1, <4>2, Zenon
    <3> QED BY <1>a, <2>3, <3>1, <3>5, <3>6, <3>7, <3>8, <3>9, PlacedFrame
  <2> QED BY <1>3, <2>1, <2>2, <2>3 DEF Output
<1>4. CASE gvm_log_unlock(t)
  <2>1. CASE Abort(t)
    BY <2>1, PlacedStutter DEF Abort, shared
  <2>2. CASE ~Abort(t)
    <3>1. /\ pc[t] = "unlock" /\ pc' = [pc EXCEPT ![t] = "done"]
          /\ UNCHANGED <<config, handled, ret, channels, log_channel, msg, chosen, sent>>
      BY <1>4, <2>2, Zenon DEF gvm_log_unlock
    <3>2. Typed'
      BY <3>1, Zenon DEF Placed, Typed
    <3>3. Knows(t)'
      <4>1. pc'[t] = "done" /\ Knows(t)
        BY <3>1, Zenon DEF Placed, Typed
      <4> QED BY <1>c, <3>1, <4>1, Zenon DEF Knows
    <3>4. \A u \in Threads : u # t => /\ pc'[u] = pc[u] /\ msg'[u] = msg[u]
                                      /\ chosen'[u] = chosen[u] /\ sent'[u] = sent[u]
      BY <3>1, Zenon DEF Placed, Typed
    <3> QED BY <1>a, <1>b, <3>1, <3>2, <3>3, <3>4, PlacedFrame, Zenon
  <2> QED BY <2>1, <2>2, Zenon
<1>5. CASE Return(t)
  <2>1. /\ pc[t] = "done" /\ pc' = [pc EXCEPT ![t] = "idle"]
        /\ msg' = [msg EXCEPT ![t] = NoMessage]
        /\ chosen' = [chosen EXCEPT ![t] = Nothing] /\ sent' = [sent EXCEPT ![t] = NULL]
        /\ UNCHANGED <<config, handled, ret, channels, log_channel>>
    BY <1>5, Zenon DEF Return, shared
  <2>2. Typed'
    BY <2>1, Zenon DEF Placed, Typed, Nothing, Files
  <2>3. Knows(t)'
    BY <2>1, Zenon DEF Placed, Typed, Knows
  <2>4. \A u \in Threads : u # t => /\ pc'[u] = pc[u] /\ msg'[u] = msg[u]
                                    /\ chosen'[u] = chosen[u] /\ sent'[u] = sent[u]
    BY <2>1, Zenon DEF Placed, Typed
  <2> QED BY <1>a, <1>b, <2>1, <2>2, <2>3, <2>4, PlacedFrame, Zenon
<1> QED BY <1>1, <1>2, <1>3, <1>4, <1>5, Zenon DEF Step

\* Each step preserves the invariant.
LEMMA PlacedNext ==
  ASSUME Placed, [Next]_vars
  PROVE  Placed'
<1>1. CASE setup_log_handlers
  <2>1. \A t \in Threads : pc[t] = "idle"
    BY <1>1, Zenon DEF setup_log_handlers, Placed
  <2>2. UNCHANGED <<config, log_channel, channels, pc, msg, chosen, sent>>
    BY <1>1, Zenon DEF setup_log_handlers
  <2>3. Typed' /\ (\A g \in DOMAIN config : ChannelOf(g, log_channel[g]))'
    BY <2>2 DEF Placed, Typed, ChannelOf
  <2>4. \A t \in Threads : Knows(t)'
    BY <2>1, <2>2 DEF Knows
  <2> QED BY <2>1, <2>2, <2>3, <2>4, Zenon DEF Placed
<1>11. CASE UNCHANGED vars
  BY <1>11, PlacedStutter DEF vars, shared
<1>10. CASE free_log_configuration
  <2>1. /\ UNCHANGED <<config, handled, pc, msg, chosen, sent, ret>>
        /\ \A t \in Threads : pc[t] = "idle"
        /\ log_channel' = [g \in DOMAIN config |-> 0]
        /\ channels' = [i \in DOMAIN channels |->
             [channels[i] EXCEPT !.open = @ /\ log_channel[channels[i].entry] # i]]
    BY <1>10 DEF free_log_configuration
  <2>2. channels' \in Seq(Channels)
    <3>1. Len(channels) \in Nat /\ channels \in [1..Len(channels) -> Channels]
      BY DEF Placed, Typed
    <3>2. channels' \in [1..Len(channels) -> Channels]
      BY <2>1, <3>1, Zenon DEF Channels
    <3> QED BY <3>1, <3>2, FunctionIsList
  <2>3. Typed' /\ (\A g \in DOMAIN config : ChannelOf(g, log_channel[g]))'
    BY <2>1, <2>2 DEF Placed, Typed, ChannelOf
  <2>4. \A t \in Threads : Knows(t)'
    BY <2>1 DEF Knows
  <2> QED BY <2>1, <2>3, <2>4 DEF Placed
<1>2. ASSUME NEW t \in Threads, NEW m \in Messages, Log(t, m)
      PROVE  Placed'
  <2>1. /\ ret # NULL /\ UNCHANGED <<config, handled, ret, channels, log_channel, chosen>>
        /\ msg' = [msg EXCEPT ![t] = m]
        /\ IF Handled(m.domain)
             THEN pc' = [pc EXCEPT ![t] = "resolve"] /\ UNCHANGED sent
             ELSE sent' = [sent EXCEPT ![t] = "glib"] /\ pc' = [pc EXCEPT ![t] = "done"]
    BY <1>2 DEF Log, shared
  <2>2. Typed'
    BY <2>1, Zenon DEF Placed, Typed
  <2>3. msg'[t] = m
    BY <2>1 DEF Placed, Typed
  <2>4. Knows(t)'
    <3>1. CASE Handled(m.domain)
      BY <2>1, <2>3, <3>1, SMTT(30) DEF Knows, Handled, Placed, Typed
    <3>2. CASE ~Handled(m.domain)
      BY <2>1, <2>3, <3>2 DEF Knows, Handled, Destination, Placed, Typed
    <3> QED BY <3>1, <3>2, SMTT(30)
  <2>5. \A u \in Threads : u # t => /\ pc'[u] = pc[u] /\ msg'[u] = msg[u]
                                    /\ chosen'[u] = chosen[u] /\ sent'[u] = sent[u]
    BY <2>1 DEF Placed, Typed
  <2>6. /\ \A g, n : ChannelOf(g, n) => ChannelOf(g, n)'
        /\ \A g \in DOMAIN config : ChannelOf(g, log_channel[g])'
    BY <2>1 DEF ChannelOf, Placed
  <2> QED BY <2>1, <2>2, <2>4, <2>5, <2>6, PlacedFrame
<1>3. ASSUME NEW t \in Threads, Step(t)
      PROVE  Placed'
  BY <1>3, PlacedStep
<1> QED BY <1>1, <1>2, <1>3, <1>10, <1>11, Zenon DEF Next

\* However the threads are scheduled, and even if the mutex fails to keep them
\* apart, gvm_log_func puts each message where the configuration says.
THEOREM Placement == Spec => []RightPlace
<1>1. Placed => RightPlace
  BY DEF Placed, Knows, RightPlace
<1>2. Placed /\ [Next]_vars => Placed'
  BY PlacedNext
<1> QED BY PlacedInit, <1>1, <1>2, PTL DEF Spec
--------------------------------------------------------------------------------
\* The file can be opened, though its directory may have to be made.
Ready(f) == f \in DOMAIN disk /\ disk[f] \in {"ok", "nodir"}

\* setup_log_handlers ran and returned 0.
Vouched == ret # NULL /\ ret = 0

\* A file that gvm_log_func took from the configuration: "*" without a file is
\* replaced by standard error.
Taken(f) ==
  f = "-" \/ \E g \in DOMAIN config : f = config[g].file /\ (g = "*" => f # NULL)

\* The inductive invariant: what setup_log_handlers opened once can be opened at
\* any time after, and the file a message goes to is one of those.
Vouch ==
  /\ \A g \in DOMAIN config : config[g].file \in {NULL, "", "syslog"} \cup DOMAIN disk
  /\ Vouched => \A g \in DOMAIN config :
                  config[g].file \in {NULL, "", "syslog"} \/ Ready(config[g].file)
  /\ \A t \in Threads :
       /\ pc[t] = "resolve" => msg[t].domain # "*"
       /\ pc[t] \in {"init", "make", "lock", "output"} => Taken(chosen[t].file)
  /\ ret = NULL => ~aborted
  /\ SetupVouches

\* Init establishes it.
LEMMA VouchInit == Init => Vouch
<1> SUFFICES ASSUME Init PROVE Vouch
  OBVIOUS
<1>1. \A g \in DOMAIN config : config[g].file \in {NULL, "", "syslog"} \cup DOMAIN disk
  BY LoggingAssumption, Zenon DEF Init
<1> QED BY <1>1, Zenon DEF Init, Vouch, Vouched, SetupVouches

\* Making a directory makes no file worse.
LEMMA ReadyStays ==
  ASSUME NEW S, disk' = MakesDirectory(S)
  PROVE  DOMAIN disk' = DOMAIN disk /\ \A f : Ready(f) => Ready(f)'
BY SMTT(30) DEF MakesDirectory, Ready

\* A step of thread t that leaves the configuration and the result of the setup,
\* and aborts only if there was no promise.
LEMMA VouchFrame ==
  ASSUME Vouch, NEW t \in Threads, UNCHANGED <<config, ret>>,
         DOMAIN disk' = DOMAIN disk, \A f : Ready(f) => Ready(f)',
         \A u \in Threads : u # t => /\ pc'[u] = pc[u] /\ msg'[u] = msg[u]
                                     /\ chosen'[u] = chosen[u],
         pc'[t] = "resolve" => msg'[t].domain # "*",
         pc'[t] \in {"init", "make", "lock", "output"} => Taken(chosen'[t].file),
         ret # NULL,
         aborted' => \/ aborted
                     \/ ~(ret = 0 /\ \A g \in DOMAIN config : Named(g))
  PROVE  Vouch'
<1>1. \A f : Taken(f)' = Taken(f)
  BY DEF Taken
<1>2. \A g : Named(g)' = Named(g)
  BY Zenon DEF Named
<1>3. SetupVouches'
  BY <1>2, Zenon DEF Vouch, SetupVouches
<1>4. ASSUME NEW u \in Threads
      PROVE  /\ pc'[u] = "resolve" => msg'[u].domain # "*"
             /\ pc'[u] \in {"init", "make", "lock", "output"} => Taken(chosen'[u].file)
  BY Zenon DEF Vouch
<1>5. (\A u \in Threads :
         /\ pc[u] = "resolve" => msg[u].domain # "*"
         /\ pc[u] \in {"init", "make", "lock", "output"} => Taken(chosen[u].file))'
  BY <1>4 DEF Taken
<1>6. (\A g \in DOMAIN config : config[g].file \in {NULL, "", "syslog"} \cup DOMAIN disk)'
  BY Zenon DEF Vouch
<1>7. (Vouched => \A g \in DOMAIN config :
                config[g].file \in {NULL, "", "syslog"} \/ Ready(config[g].file))'
  <2>1. Vouched' => Vouched
    BY DEF Vouched
  <2>2. ASSUME NEW g \in DOMAIN config,
               config[g].file \in {NULL, "", "syslog"} \/ Ready(config[g].file)
        PROVE  (config[g].file \in {NULL, "", "syslog"} \/ Ready(config[g].file))'
    <3>1. Ready(config[g].file) => Ready(config[g].file)'
      BY DEF Ready
    <3> QED BY <2>2, <3>1, Zenon
  <2> QED BY <2>1, <2>2, Zenon DEF Vouch
<1> QED BY <1>3, <1>5, <1>6, <1>7, ZenonT(40) DEF Vouch

\* The settings that Resolve finds name a file that was vouched for.
LEMMA SettingsTaken ==
  ASSUME Placed, NEW d, d # "*"
  PROVE  Taken(Settings(d).file)
<1>1. CASE d = NULL \/ (d \notin DOMAIN config /\ "*" \notin DOMAIN config)
  BY <1>1, SMTT(30) DEF Settings, Star, Taken
<1>2. CASE d # NULL /\ d \notin DOMAIN config /\ "*" \in DOMAIN config
  BY <1>2 DEF Settings, Star, Taken
<1>3. CASE d # NULL /\ d \in DOMAIN config
  BY <1>3 DEF Settings, Taken
<1> QED BY <1>1, <1>2, <1>3, SMTT(30)

\* Each step inside of the handler preserves the invariant.
LEMMA VouchStep ==
  ASSUME OneMutex, Placed, Vouch, NEW t \in Threads, Step(t)
  PROVE  Vouch'
<1>r. ASSUME pc[t] # "idle" PROVE ret # NULL
  BY <1>r DEF Placed
<1>s. ASSUME UNCHANGED disk
      PROVE  DOMAIN disk' = DOMAIN disk /\ \A f : Ready(f) => Ready(f)'
  BY <1>s, SMTT(30) DEF Ready
<1>1. CASE Resolve(t)
  <2>0. PICK s : s = Settings(msg[t].domain)
    BY SMTT(30)
  <2>1. /\ pc[t] = "resolve" /\ UNCHANGED <<config, disk, ret, msg, aborted>>
        /\ \/ pc' = [pc EXCEPT ![t] = "done"] /\ UNCHANGED chosen
           \/ /\ chosen' = [chosen EXCEPT ![t] =
                       [file |-> s.file, entry |-> s.entry, channel |-> s.channel]]
              /\ pc' = [pc EXCEPT ![t] = "init"]
    BY <1>1, <2>0, ZenonT(40) DEF Resolve, shared
  <2>2. Taken(s.file)
    BY <2>0, <2>1, SettingsTaken, Zenon DEF Vouch
  <2>3. /\ pc'[t] # "resolve"
        /\ pc'[t] \in {"init", "make", "lock", "output"} => Taken(chosen'[t].file)
        /\ \A u \in Threads : u # t => /\ pc'[u] = pc[u] /\ msg'[u] = msg[u]
                                       /\ chosen'[u] = chosen[u]
    <3>0. t \in DOMAIN pc /\ t \in DOMAIN chosen
      BY DEF Placed, Typed
    <3>1. CASE pc' = [pc EXCEPT ![t] = "done"] /\ UNCHANGED chosen
      BY <2>1, <3>0, <3>1, SMTT(30)
    <3>2. CASE /\ chosen' = [chosen EXCEPT ![t] =
                       [file |-> s.file, entry |-> s.entry, channel |-> s.channel]]
               /\ pc' = [pc EXCEPT ![t] = "init"]
      <4>1. pc'[t] = "init" /\ chosen'[t].file = s.file
        BY <3>0, <3>2
      <4>2. \A u \in Threads : u # t => /\ pc'[u] = pc[u] /\ msg'[u] = msg[u]
                                        /\ chosen'[u] = chosen[u]
        BY <2>1, <3>2
      <4> QED BY <2>2, <4>1, <4>2
    <3> QED BY <2>1, <3>1, <3>2
  <2> QED BY <1>r, <1>s, <2>1, <2>3, VouchFrame, Zenon
<1>2. CASE gvm_log_lock_init(t) \/ MakeMutex(t) \/ gvm_log_lock(t)
  <2>1. /\ pc[t] \in {"init", "make", "lock"}
        /\ \E p \in {"make", "lock", "output"} : pc' = [pc EXCEPT ![t] = p]
        /\ UNCHANGED <<config, disk, ret, msg, chosen, aborted>>
    BY <1>2 DEF gvm_log_lock_init, MakeMutex, gvm_log_lock, shared
  <2>2. Taken(chosen[t].file)
    BY <2>1, Zenon DEF Vouch
  <2>3. /\ pc'[t] # "resolve"
        /\ pc'[t] \in {"init", "make", "lock", "output"} => Taken(chosen'[t].file)
        /\ \A u \in Threads : u # t => /\ pc'[u] = pc[u] /\ msg'[u] = msg[u]
                                       /\ chosen'[u] = chosen[u]
    BY <2>1, <2>2 DEF Placed, Typed
  <2> QED BY <1>r, <1>s, <2>1, <2>3, VouchFrame
<1>3. CASE Output(t)
  <2> DEFINE c == chosen[t]
  <2>1. pc[t] = "output" /\ Taken(c.file)
    BY <1>3, ZenonT(40) DEF Output, Vouch
  <2>2. CASE Abort(t)
    <3>1. ~(c.file \in {"-", "syslog"}) /\ (c.file = NULL \/ ~Opens(c.file))
      <4>1. CASE c.file \in {"-", "syslog"}
        BY <1>3, <2>2, <4>1 DEF Output, Written, Abort, Placed, Typed
      <4>2. CASE c.file \notin {NULL, "-", "syslog"} /\ Opens(c.file)
        BY <1>3, <2>2, <4>2 DEF Output, Written, Abort, Placed, Typed
      <4> QED BY <4>1, <4>2
    <3>2. ~(ret = 0 /\ \A g \in DOMAIN config : Named(g))
      <4> SUFFICES ASSUME ret = 0, \A g \in DOMAIN config : Named(g) PROVE FALSE
        OBVIOUS
      <4>1. PICK g \in DOMAIN config : c.file = config[g].file /\ (g = "*" => c.file # NULL)
        BY <2>1, <3>1 DEF Taken
      <4>2. c.file # "" /\ c.file # NULL
        BY <4>1, Zenon DEF Named
      <4>3. Ready(c.file)
        BY <1>r, <2>1, <3>1, <4>1, <4>2, Zenon DEF Vouch, Vouched
      <4> QED BY <3>1, <4>2, <4>3, Zenon DEF Ready, Opens
    <3>3. UNCHANGED <<config, disk, ret, pc, msg, chosen>>
      BY <2>2 DEF Abort, shared
    <3>4. \A u \in Threads : u # t => /\ pc'[u] = pc[u] /\ msg'[u] = msg[u]
                                      /\ chosen'[u] = chosen[u]
      BY <3>3
    <3> QED BY <1>r, <1>s, <2>1, <3>2, <3>3, <3>4, VouchFrame
  <2>3. CASE ~Abort(t)
    <3>1. /\ pc' = [pc EXCEPT ![t] = "unlock"]
          /\ UNCHANGED <<config, ret, msg, chosen, aborted>>
          /\ UNCHANGED disk \/ \E S : disk' = MakesDirectory(S)
      BY <1>3, <2>3 DEF Output, Written
    <3>2. DOMAIN disk' = DOMAIN disk /\ \A f : Ready(f) => Ready(f)'
      BY <1>s, <3>1, ReadyStays
    <3>3. /\ pc'[t] = "unlock"
          /\ \A u \in Threads : u # t => /\ pc'[u] = pc[u] /\ msg'[u] = msg[u]
                                         /\ chosen'[u] = chosen[u]
      BY <3>1, SMTT(30) DEF Placed, Typed
    <3> QED BY <1>r, <2>1, <3>1, <3>2, <3>3, VouchFrame
  <2> QED BY <2>2, <2>3
<1>4. CASE gvm_log_unlock(t)
  <2>1. /\ pc[t] = "unlock" /\ logger_mutex = 1 /\ holder[1] = t /\ t # NULL
    BY <1>4, LoggingAssumption, Zenon DEF gvm_log_unlock, OneMutex, Inside
  <2>2. /\ pc' = [pc EXCEPT ![t] = "done"]
        /\ UNCHANGED <<config, disk, ret, msg, chosen, aborted>>
    BY <1>4, <2>1 DEF gvm_log_unlock
  <2>3. /\ pc'[t] = "done"
        /\ \A u \in Threads : u # t => /\ pc'[u] = pc[u] /\ msg'[u] = msg[u]
                                       /\ chosen'[u] = chosen[u]
    BY <2>2 DEF Placed, Typed
  <2> QED BY <1>r, <1>s, <2>1, <2>2, <2>3, VouchFrame
<1>5. CASE Return(t)
  <2>1. /\ pc[t] = "done" /\ pc' = [pc EXCEPT ![t] = "idle"]
        /\ msg' = [msg EXCEPT ![t] = NoMessage]
        /\ chosen' = [chosen EXCEPT ![t] = Nothing]
        /\ UNCHANGED <<config, disk, ret, aborted>>
    BY <1>5 DEF Return, shared
  <2>2. /\ pc'[t] = "idle"
        /\ \A u \in Threads : u # t => /\ pc'[u] = pc[u] /\ msg'[u] = msg[u]
                                       /\ chosen'[u] = chosen[u]
    BY <2>1 DEF Placed, Typed
  <2> QED BY <1>r, <1>s, <2>1, <2>2, VouchFrame
<1> QED BY <1>1, <1>2, <1>3, <1>4, <1>5, SMTT(30) DEF Step

\* Each step preserves the invariant, if "*" is only a group and not a domain.
LEMMA VouchNext ==
  ASSUME OneMutex, Placed, Vouch, [Next]_vars, \A m \in Messages : m.domain # "*"
  PROVE  Vouch'
<1>1. CASE setup_log_handlers
  <2>1. /\ ret = NULL /\ ~aborted /\ UNCHANGED <<config, pc, msg, chosen, aborted>>
        /\ handled' = {g \in DOMAIN config : check_log_file(g)}
        /\ ret' = IF handled' = DOMAIN config THEN 0 ELSE -1
        /\ disk' = MakesDirectory({config[g].file : g \in DOMAIN config})
    BY <1>1, SMTT(30) DEF setup_log_handlers
  <2>2. DOMAIN disk' = DOMAIN disk /\ \A f : Ready(f) => Ready(f)'
    BY <2>1, ReadyStays
  <2>3. \A t \in Threads : pc'[t] = "idle"
    BY <2>1 DEF Placed
  <2>4. ~aborted' /\ SetupVouches'
    BY <2>1 DEF SetupVouches
  <2>5. (\A g \in DOMAIN config : config[g].file \in {NULL, "", "syslog"} \cup DOMAIN disk)'
    BY <2>1, <2>2, Zenon DEF Vouch
  <2>6. ASSUME Vouched', NEW g \in DOMAIN config
        PROVE  config[g].file \in {NULL, "", "syslog"} \/ Ready(config[g].file)'
    <3>1. handled' = DOMAIN config
      BY <2>1, <2>6 DEF Vouched
    <3>2. check_log_file(g)
      BY <2>1, <3>1
    <3>3. config[g].file \in {NULL, "", "syslog"} \/ Ready(config[g].file)
      BY <3>2, Zenon DEF check_log_file, Opens, Ready, Vouch
    <3>4. Ready(config[g].file) => Ready(config[g].file)'
      BY <2>1, <2>2 DEF Ready
    <3> QED BY <3>3, <3>4, Zenon
  <2>7. (Vouched => \A g \in DOMAIN config :
                  config[g].file \in {NULL, "", "syslog"} \/ Ready(config[g].file))'
    BY <2>1, <2>6, Zenon
  <2> QED BY <2>3, <2>4, <2>5, <2>7, ZenonT(40) DEF Vouch
<1>2. ASSUME NEW t \in Threads, NEW m \in Messages, Log(t, m)
      PROVE  Vouch'
  <2>1. /\ ret # NULL /\ UNCHANGED <<config, disk, ret, chosen, aborted>>
        /\ msg' = [msg EXCEPT ![t] = m]
        /\ \E p \in {"resolve", "done"} : pc' = [pc EXCEPT ![t] = p]
    BY <1>2 DEF Log, shared
  <2>2. /\ pc'[t] \in {"resolve", "done"} /\ msg'[t].domain # "*"
        /\ \A u \in Threads : u # t => /\ pc'[u] = pc[u] /\ msg'[u] = msg[u]
                                       /\ chosen'[u] = chosen[u]
    BY <2>1 DEF Placed, Typed
  <2>3. DOMAIN disk' = DOMAIN disk /\ \A f : Ready(f) => Ready(f)'
    BY <2>1 DEF Ready
  <2> QED BY <2>1, <2>2, <2>3, VouchFrame
<1>3. ASSUME NEW t \in Threads, Step(t)
      PROVE  Vouch'
  BY <1>3, VouchStep
<1>4. CASE free_log_configuration \/ UNCHANGED vars
  <2>1. UNCHANGED <<config, disk, ret, pc, msg, chosen, aborted>>
    BY <1>4 DEF free_log_configuration, vars, shared
  <2> QED BY <2>1, Zenon DEF Vouch, Vouched, Ready, Taken, SetupVouches, Named
<1> QED BY <1>1, <1>2, <1>3, <1>4, SMTT(30) DEF Next

\* A setup that returned 0 vouches for all messages to come, from any number of
\* threads: none of them aborts the process.
THEOREM NoAbort ==
  ASSUME Late, \A m \in Messages : m.domain # "*"
  PROVE  Spec => []SetupVouches
<1> DEFINE Inv == OneMutex /\ Placed /\ Vouch
<1>1. Init => Inv
  BY OneMutexInit, PlacedInit, VouchInit
<1>2. Inv /\ [Next]_vars => Inv'
  BY OneMutexNext, PlacedNext, VouchNext
<1>3. Inv => SetupVouches
  BY Zenon DEF Vouch
<1> QED BY <1>1, <1>2, <1>3, PTL DEF Spec
================================================================================
