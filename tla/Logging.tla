-------------------------------- MODULE Logging --------------------------------
(***************************************************************************)
(* The log handler of src/base/logging.c: the configuration, the handlers  *)
(* GLib calls, the mutex that is made by the first message, and the        *)
(* channels that are opened by the first message to a file.                *)
(*                                                                         *)
(* A message is its domain and level; prefixes, time stamps and references *)
(* are formatting.  One step of a thread is one access to shared state.    *)
(***************************************************************************)
EXTENDS Integers, Sequences, FiniteSets

CONSTANTS
  Threads,    \* the threads that log
  main,       \* the one that sets up the handlers
  Messages,   \* records [domain, level]
  Configs,    \* configurations: functions from groups to [file, level]
  Disks,      \* states of the files: functions from paths to PathStates
  MaxLogs,    \* bound: messages of a thread
  Late,       \* the other threads start only when the mutex is there
  NULL

PathStates == {"ok",         \* can be opened
               "nodir",      \* can be opened once its directory was made
               "denied",     \* cannot be opened, has a directory
               "nomkdir"}    \* cannot be opened, the directory cannot be made

ASSUME LoggingAssumption ==
  /\ main \in Threads /\ NULL \notin Threads
  /\ \A d \in Disks : \A f \in DOMAIN d : d[f] \in PathStates
  /\ \A c \in Configs : NULL \notin DOMAIN c
  /\ \A c \in Configs : \A g \in DOMAIN c :
       c[g].file \in {NULL, "", "-", "syslog"} \cup UNION {DOMAIN d : d \in Disks}
  /\ \A c \in Configs, d \in Disks : \A g \in DOMAIN c :
       c[g].file \in {NULL, "", "syslog"} \cup DOMAIN d

VARIABLES
  config,       \* the configuration that was loaded
  disk,         \* the state of the files
  ret,          \* of setup_log_handlers, NULL before the call
  handled,      \* groups whose handler was installed, "*" is GLib's default
  log_channel,  \* per group: the channel of its entry, 0 if there is none
  channels,     \* the channels opened so far, a sequence of [file, entry, open]
  logger_mutex, \* number of the mutex the pointer points to, 0 for NULL
  holder,       \* the mutexes made so far: who has locked them
  pc,           \* per thread
  msg,          \* per thread: the message
  chosen,       \* per thread: file, entry and channel found in the configuration
  sent,         \* per thread: where the last message went
  logs,         \* per thread: number of messages
  aborted,      \* the process was aborted
  freed         \* free_log_configuration was called

shared == <<disk, ret, handled, log_channel, channels, logger_mutex, holder>>
vars == <<config, shared, pc, msg, chosen, sent, logs, aborted, freed>>

NoMessage == [domain |-> NULL, level |-> 0]
Nothing == [file |-> NULL, entry |-> NULL, channel |-> 0]
DEBUG == 3

Init ==
  /\ config \in Configs /\ disk \in Disks
  /\ ret = NULL /\ handled = {}
  /\ log_channel = [g \in DOMAIN config |-> 0] /\ channels = <<>>
  /\ logger_mutex = 0 /\ holder = <<>>
  /\ pc = [t \in Threads |-> "idle"] /\ msg = [t \in Threads |-> NoMessage]
  /\ chosen = [t \in Threads |-> Nothing] /\ sent = [t \in Threads |-> NULL]
  /\ logs = [t \in Threads |-> 0] /\ aborted = FALSE /\ freed = FALSE

--------------------------------------------------------------------------------
(***************************************************************************)
(* Opening a file, the same way in two places: open it, else make its      *)
(* directory and try again.                                                *)
(***************************************************************************)
Opens(path) == path # "" /\ disk[path] \in {"ok", "nodir"}
MakesDirectory(paths) ==
  [f \in DOMAIN disk |-> IF f \in paths /\ disk[f] = "nodir" THEN "ok" ELSE disk[f]]

\* Of the special names only "syslog" and the empty one are not opened.
check_log_file(g) == config[g].file \in {NULL, "", "syslog"} \/ Opens(config[g].file)

Mutant_setup_log_handlers ==
  /\ ret = NULL /\ ~aborted
  /\ handled' = {g \in DOMAIN config : check_log_file(g)}
  /\ ret' = IF handled' = {} THEN -1 ELSE 0
  /\ disk' = MakesDirectory({config[g].file : g \in DOMAIN config})
  /\ UNCHANGED <<config, log_channel, channels, logger_mutex, holder, pc, msg,
                 chosen, sent, logs, aborted, freed>>

\* A group whose file fails is skipped, the others get their handlers.
setup_log_handlers ==
  /\ ret = NULL /\ ~aborted
  /\ handled' = {g \in DOMAIN config : check_log_file(g)}
  /\ ret' = IF handled' = DOMAIN config THEN 0 ELSE -1
  /\ disk' = MakesDirectory({config[g].file : g \in DOMAIN config})
  /\ UNCHANGED <<config, log_channel, channels, logger_mutex, holder, pc, msg,
                 chosen, sent, logs, aborted, freed>>

--------------------------------------------------------------------------------
(***************************************************************************)
(* GLib finds the handler of a domain.                                     *)
(***************************************************************************)
Handled(domain) == domain = NULL \/ domain \in handled \/ "*" \in handled

Log(t, m) ==
  /\ ret # NULL /\ ~aborted /\ ~freed
  /\ pc[t] = "idle" /\ logs[t] < MaxLogs
  /\ t = main \/ ~Late \/ logger_mutex # 0
  /\ logs' = [logs EXCEPT ![t] = @ + 1]
  /\ msg' = [msg EXCEPT ![t] = m]
  /\ IF Handled(m.domain)
       THEN pc' = [pc EXCEPT ![t] = "resolve"] /\ UNCHANGED sent
       ELSE sent' = [sent EXCEPT ![t] = "glib"] /\ pc' = [pc EXCEPT ![t] = "done"]
  /\ UNCHANGED <<config, shared, chosen, aborted, freed>>

--------------------------------------------------------------------------------
(***************************************************************************)
(* gvm_log_func.                                                           *)
(***************************************************************************)
\* The settings: those of "*", overridden by the group of the domain.  The file
\* and the channel of the domain's group count even if they are NULL.
Star(domain) ==
  IF domain = NULL \/ "*" \notin DOMAIN config
    THEN [file |-> "-", entry |-> NULL, channel |-> 0, level |-> DEBUG]
    ELSE [file |-> IF config["*"].file = NULL THEN "-" ELSE config["*"].file,
          entry |-> "*", channel |-> log_channel["*"],
          level |-> IF config["*"].level = NULL THEN DEBUG ELSE config["*"].level]

Mutant_Settings(domain) ==
  LET star == Star(domain) IN
  IF domain = NULL \/ domain \notin DOMAIN config THEN star
  ELSE [file |-> config[domain].file, entry |-> domain,
        channel |-> IF log_channel[domain] = 0 THEN star.channel
                    ELSE log_channel[domain],
        level |-> IF config[domain].level = NULL THEN star.level
                  ELSE config[domain].level]

Settings(domain) ==
  LET star == Star(domain) IN
  IF domain = NULL \/ domain \notin DOMAIN config THEN star
  ELSE [file |-> config[domain].file, entry |-> domain,
        channel |-> log_channel[domain],
        level |-> IF config[domain].level = NULL THEN star.level
                  ELSE config[domain].level]

Resolve(t) ==
  LET s == Settings(msg[t].domain) IN
  /\ pc[t] = "resolve" /\ ~aborted
  /\ IF s.level < msg[t].level
       THEN /\ sent' = [sent EXCEPT ![t] = "filtered"]
            /\ pc' = [pc EXCEPT ![t] = "done"] /\ UNCHANGED chosen
       ELSE /\ chosen' = [chosen EXCEPT ![t] =
                            [file |-> s.file, entry |-> s.entry, channel |-> s.channel]]
            /\ pc' = [pc EXCEPT ![t] = "init"] /\ UNCHANGED sent
  /\ UNCHANGED <<config, shared, msg, logs, aborted, freed>>

Mutant_gvm_log_lock_init(t) ==
  /\ pc[t] = "init" /\ ~aborted
  /\ pc' = [pc EXCEPT ![t] = "make"]
  /\ UNCHANGED <<config, shared, msg, chosen, sent, logs, aborted, freed>>

\* gvm_log_lock_init looks at the pointer and makes a mutex if it is NULL.
gvm_log_lock_init(t) ==
  /\ pc[t] = "init" /\ ~aborted
  /\ pc' = [pc EXCEPT ![t] = IF logger_mutex = 0 THEN "make" ELSE "lock"]
  /\ UNCHANGED <<config, shared, msg, chosen, sent, logs, aborted, freed>>

MakeMutex(t) ==
  /\ pc[t] = "make" /\ ~aborted
  /\ logger_mutex' = Len(holder) + 1
  /\ holder' = Append(holder, NULL)
  /\ pc' = [pc EXCEPT ![t] = "lock"]
  /\ UNCHANGED <<config, disk, ret, handled, log_channel, channels, msg, chosen,
                 sent, logs, aborted, freed>>

gvm_log_lock(t) ==
  /\ pc[t] = "lock" /\ ~aborted
  /\ holder[logger_mutex] = NULL
  /\ holder' = [holder EXCEPT ![logger_mutex] = t]
  /\ pc' = [pc EXCEPT ![t] = "output"]
  /\ UNCHANGED <<config, disk, ret, handled, log_channel, channels, logger_mutex, msg,
                 chosen, sent, logs, aborted, freed>>

\* GLib aborts the process on g_error, and on any message that is logged from
\* inside of a handler: the g_warning about a directory that cannot be made, or
\* the g_critical of g_ascii_strcasecmp about a file that is NULL.
Abort(t) ==
  /\ aborted' = TRUE
  /\ UNCHANGED <<config, shared, pc, msg, chosen, sent, logs, freed>>

Written(t, where) ==
  /\ sent' = [sent EXCEPT ![t] = where]
  /\ pc' = [pc EXCEPT ![t] = "unlock"]
  /\ UNCHANGED <<config, ret, handled, logger_mutex, holder, msg, chosen, logs,
                 aborted, freed>>

Opened(c) == Append(channels, [file |-> c.file, entry |-> c.entry, open |-> TRUE])

\* The output.  A channel that was not there when the settings were read is
\* opened, and becomes the one of the entry.
Output(t) ==
  LET c == chosen[t] IN
  /\ pc[t] = "output" /\ ~aborted
  /\ CASE c.file \in {"-", "syslog"} ->
            Written(t, c.file) /\ UNCHANGED <<disk, log_channel, channels>>
       [] c.file \notin {NULL, "-", "syslog"} /\ c.channel # 0 ->
            /\ Written(t, channels[c.channel].file)
            /\ UNCHANGED <<disk, log_channel, channels>>
       [] c.file \notin {NULL, "-", "syslog"} /\ c.channel = 0 /\ Opens(c.file) ->
            /\ Written(t, c.file)
            /\ disk' = MakesDirectory({c.file})
            /\ channels' = Opened(c)
            /\ log_channel' = IF c.entry = NULL THEN log_channel
                              ELSE [log_channel EXCEPT ![c.entry] = Len(channels) + 1]
       [] OTHER -> Abort(t)

\* g_mutex_unlock aborts on a mutex that is not locked.
Mutant_gvm_log_unlock(t) ==
  /\ pc[t] = "unlock" /\ ~aborted
  /\ UNCHANGED holder
  /\ pc' = [pc EXCEPT ![t] = "done"]
  /\ UNCHANGED <<config, disk, ret, handled, log_channel, channels, logger_mutex,
                 msg, chosen, sent, logs, aborted, freed>>

gvm_log_unlock(t) ==
  /\ pc[t] = "unlock" /\ ~aborted
  /\ IF holder[logger_mutex] = NULL THEN Abort(t)
     ELSE /\ holder' = [holder EXCEPT ![logger_mutex] = NULL]
          /\ pc' = [pc EXCEPT ![t] = "done"]
          /\ UNCHANGED <<config, disk, ret, handled, log_channel, channels,
                         logger_mutex, msg, chosen, sent, logs, aborted, freed>>

Return(t) ==
  /\ pc[t] = "done" /\ ~aborted
  /\ pc' = [pc EXCEPT ![t] = "idle"] /\ msg' = [msg EXCEPT ![t] = NoMessage]
  /\ chosen' = [chosen EXCEPT ![t] = Nothing] /\ sent' = [sent EXCEPT ![t] = NULL]
  /\ UNCHANGED <<config, shared, logs, aborted, freed>>

--------------------------------------------------------------------------------
free_log_configuration ==
  /\ ret # NULL /\ ~aborted /\ ~freed
  /\ \A t \in Threads : pc[t] = "idle"
  /\ freed' = TRUE
  /\ channels' = [i \in DOMAIN channels |->
                   [channels[i] EXCEPT !.open = @ /\ log_channel[channels[i].entry] # i]]
  /\ log_channel' = [g \in DOMAIN config |-> 0]
  /\ UNCHANGED <<config, disk, ret, handled, logger_mutex, holder, pc, msg,
                 chosen, sent, logs, aborted>>

Step(t) ==
  \/ Resolve(t)
  \/ gvm_log_lock_init(t) \/ MakeMutex(t) \/ gvm_log_lock(t)
  \/ Output(t)
  \/ gvm_log_unlock(t)
  \/ Return(t)

Next ==
  \/ setup_log_handlers
  \/ \E t \in Threads, m \in Messages : Log(t, m)
  \/ \E t \in Threads : Step(t)
  \/ free_log_configuration

Spec == Init /\ [][Next]_vars

\* A thread inside of the handler goes on.
FairSpec == Spec /\ \A t \in Threads : WF_vars(Step(t))

--------------------------------------------------------------------------------

\* The output of a message is never mixed with that of another thread: between
\* gvm_log_lock and gvm_log_unlock there is one thread.  It is so if the first
\* message was logged before the second thread was started.
Inside(t) == pc[t] \in {"output", "unlock"}
OneWriter == \A t, u \in Threads : Inside(t) /\ Inside(u) => t = u

\* Where the configuration says a message goes.
Destination(m) ==
  LET own == m.domain # NULL /\ m.domain \in DOMAIN config
      star == m.domain # NULL /\ "*" \in DOMAIN config
      level == IF own /\ config[m.domain].level # NULL THEN config[m.domain].level
               ELSE IF star /\ config["*"].level # NULL THEN config["*"].level
               ELSE DEBUG
  IN IF ~Handled(m.domain) THEN "glib"
     ELSE IF level < m.level THEN "filtered"
     ELSE IF own THEN config[m.domain].file
     ELSE IF star /\ config["*"].file # NULL THEN config["*"].file
     ELSE "-"

\* gvm_log_func has put each message where the configuration says, though the
\* channel it wrote to was opened by another call, of another thread, for the
\* entry both found.
RightPlace == \A t \in Threads : pc[t] = "done" => sent[t] = Destination(msg[t])

\* If setup_log_handlers returned 0 ("-1 if not able to create log file directory
\* or open log file for some domain") then no message aborts the process, as long
\* as every group names a file; only "*" can do without.
Named(g) == config[g].file # "" /\ (g # "*" => config[g].file # NULL)
SetupVouches == (ret = 0 /\ \A g \in DOMAIN config : Named(g)) => ~aborted

\* No call of the handler waits for ever for the mutex.
CallsReturn == \A t \in Threads : (pc[t] # "idle") ~> (pc[t] = "idle" \/ aborted)
================================================================================
