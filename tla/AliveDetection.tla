--------------------------- MODULE AliveDetection ---------------------------
(***************************************************************************)
(* Boreas, the alive detection of gvm-libs, as openvas runs it.            *)
(*                                                                         *)
(* Three threads of control share the scanner struct and one Redis list:   *)
(*   - the alive detection thread (start_alive_detection, scan),           *)
(*   - the sniffer thread it starts (sniffer_thread, got_packet),          *)
(*   - the consumer, openvas, which takes hosts from the queue.            *)
(* The first two both call handle_scan_restrictions, which is modelled one *)
(* memory access at a time, because nothing in the code serialises it.     *)
(***************************************************************************)
EXTENDS Integers, Sequences, FiniteSets

CONSTANTS
  Targets,      \* keys of hosts_data->targethosts
  Batch,        \* the ICMP batch size (1000 in the code)
  IntMax,       \* INT_MAX, the limit used when max_scan_hosts is not set
  Prefs,        \* the preference settings a scan may be started with
  Faults,       \* which failures of the environment may happen
  MaxRequeue,   \* bound: how many hosts the consumer puts back on the queue
  FIN,          \* ALIVE_DETECTION_FINISHED, the finish signal
  NoHost        \* no host in the hands of a thread

ICMP == "icmp"
TCP_SYN == "tcp_syn"
TCP_ACK == "tcp_ack"
ARP == "arp"
CONSIDER_ALIVE == "consider"

\* The bits of alive_test_t.
Methods == {ICMP, TCP_SYN, TCP_ACK, ARP, CONSIDER_ALIVE}

\* What can fail around the code: pcap_open_live, pthread_create, the set-up in
\* alive_detection_init, a later connection to Redis, pcap_loop; a spurious
\* wake-up of pthread_cond_wait; cancellation of the alive detection thread.
FaultKinds == {"open_live", "pthread_create", "init", "redis", "pcap_loop",
               "spurious_wakeup", "cancel"}

\* ALIVE_TEST (or its absence), max_scan_hosts and test_alive_wait_timeout as
\* numbers, where atoi has been applied and 0 also stands for "not set".
PrefType == [has_alive_test : BOOLEAN, alive_test : SUBSET Methods,
             max_scan_hosts : Int, wait_timeout : Int]

ASSUME TargetsAssumption == IsFiniteSet(Targets)
ASSUME BatchAssumption == Batch \in Nat \ {0}
ASSUME IntMaxAssumption == IntMax \in Nat /\ IntMax > Cardinality(Targets)
ASSUME PrefsAssumption == Prefs \subseteq PrefType
ASSUME FaultsAssumption == Faults \subseteq FaultKinds
ASSUME RequeueAssumption == MaxRequeue \in Nat
ASSUME SentinelAssumption == FIN \notin Targets /\ NoHost \notin Targets

Threads == {"scan", "sniffer"}
-----------------------------------------------------------------------------
VARIABLES
  prefs,                  \* global preferences, fixed during a scan
  \* struct scan_restrictions
  alive_hosts_count,
  max_scan_hosts_reached,
  alivehosts,             \* hosts_data->alivehosts
  \* alive detection thread: where it is, and the locals of scan()
  pc,
  todo,                   \* targets the current hash table iteration still has to visit
  packets_send,
  remaining_batch,
  prev_alive,
  curr_alive,
  limit_reached_handled,
  waited,                 \* seconds waited for late replies
  canceled,               \* the thread was cancelled with pthread_cancel
  freed,                  \* alive_detection_free has run
  \* sniffer thread
  sniffer,
  mutex,
  woken,                  \* the condition variable was signalled to the waiter
  breakloop,              \* pcap_breakloop was called
  cancel_sniffer,         \* pthread_cancel was called on the sniffer thread
  \* calls of handle_scan_restrictions in progress, one per thread
  hsr,
  hsr_host,
  hsr_tmp,
  \* Redis
  queue,                  \* ALIVE_DETECTION_QUEUE, first out at the head
  fin_put,                \* fin_msg_already_on_queue of put_finish_signal_on_queue
  deadhosts,              \* sum of the DEADHOST messages in internal/results
  \* consumer
  consumer,
  finished,               \* *alive_detection_finished
  fin_seen,               \* fin_msg_already_on_queue of finish_signal_on_queue
  errmsg,                 \* count in the "not scanned" message, -1 if not sent
  held,                   \* the host the consumer is putting back
  requeues,
  \* history, for the properties only
  pushed,                 \* how often each host was queued as alive
  scanned,                \* hosts the consumer took and did not put back
  pinged                  \* <<method, host>> for every ping sent

snifferVars == <<sniffer, mutex, woken, breakloop, cancel_sniffer>>
hsrVars == <<hsr, hsr_host, hsr_tmp>>
batchVars == <<packets_send, remaining_batch, prev_alive, curr_alive,
               limit_reached_handled>>
restrictionVars == <<alive_hosts_count, max_scan_hosts_reached>>
consumerVars == <<consumer, finished, fin_seen, errmsg, held, requeues, scanned>>
redisVars == <<queue, fin_put, deadhosts>>

vars == <<prefs, restrictionVars, alivehosts, pc, todo, batchVars, waited,
          canceled, freed, snifferVars, hsrVars, redisVars, consumerVars, pushed,
          pinged>>
-----------------------------------------------------------------------------
number_of_targets == Cardinality(Targets)

alive_test == prefs.alive_test

\* alive_detection_init: the limit is INT_MAX unless the preference is positive.
max_scan_hosts ==
  IF prefs.max_scan_hosts > 0 THEN prefs.max_scan_hosts ELSE IntMax

\* The preference is stored in an unsigned int: a negative value becomes one of
\* at least 2^31, which is out of range like any other above 20.
get_alive_test_wait_timeout ==
  IF prefs.wait_timeout \in 1..20 THEN prefs.wait_timeout ELSE 3

number_of_alive == Cardinality(alivehosts)

\* The branch at the start of scan() that only considers hosts alive.
ConsiderAtOnce == CONSIDER_ALIVE \in alive_test /\ max_scan_hosts = 0

NoSniffer == alive_test = {CONSIDER_ALIVE} \/ ConsiderAtOnce

\* The phases of scan(), in order; a phase is entered when its bit is set.
AfterConsider == IF NoSniffer THEN "report" ELSE "wait"
AfterArp == IF CONSIDER_ALIVE \in alive_test THEN CONSIDER_ALIVE ELSE AfterConsider
AfterAck == IF ARP \in alive_test THEN ARP ELSE AfterArp
\* Mutant: TCP-ACK is skipped.
Mutant_AfterSyn == AfterAck
AfterSyn == IF TCP_ACK \in alive_test THEN TCP_ACK ELSE AfterAck
AfterIcmp == IF TCP_SYN \in alive_test THEN TCP_SYN ELSE AfterSyn
FirstPhase == CASE ConsiderAtOnce -> CONSIDER_ALIVE
                [] alive_test = {ICMP} -> "icmp_batch"
                [] alive_test # {ICMP} /\ ICMP \in alive_test -> ICMP
                [] OTHER -> AfterIcmp

PingPhases == {ICMP, TCP_SYN, TCP_ACK, ARP}

AfterPhase(phase) == CASE phase = ICMP -> AfterIcmp
                       [] phase = TCP_SYN -> AfterSyn
                       [] phase = TCP_ACK -> AfterAck
                       [] phase = ARP -> AfterArp

ScanStates == {"start", "scan", "created", "cond_wait", "icmp_batch",
               "batch_count", "batch_report", "wait", "stop", "grace", "join",
               "report", "finish", "finish_error", "free", "exit", "crashed"}
              \cup Methods
-----------------------------------------------------------------------------
Init ==
  /\ prefs \in Prefs
  /\ alive_hosts_count = 0
  /\ max_scan_hosts_reached = FALSE
  /\ alivehosts = {}
  /\ pc = "start"
  /\ todo = {}
  /\ packets_send = 0
  /\ remaining_batch = 0
  /\ prev_alive = 0
  /\ curr_alive = 0
  /\ limit_reached_handled = FALSE
  /\ waited = 0
  /\ canceled = FALSE
  /\ freed = FALSE
  /\ sniffer = "none"
  /\ mutex = "free"
  /\ woken = FALSE
  /\ breakloop = FALSE
  /\ cancel_sniffer = FALSE
  /\ hsr = [t \in Threads |-> "idle"]
  /\ hsr_host = [t \in Threads |-> NoHost]
  /\ hsr_tmp = [t \in Threads |-> 0]
  /\ queue = <<>>
  /\ fin_put = FALSE
  /\ deadhosts = 0
  /\ consumer = "idle"
  /\ finished = FALSE
  /\ fin_seen = FALSE
  /\ errmsg = -1
  /\ held = NoHost
  /\ requeues = 0
  /\ pushed = [h \in Targets |-> 0]
  /\ scanned = {}
  /\ pinged = {}
-----------------------------------------------------------------------------
(* handle_scan_restrictions, called by thread t for the host it holds.      *)

Enter(t, h) ==
  /\ hsr' = [hsr EXCEPT ![t] = "load"]
  /\ hsr_host' = [hsr_host EXCEPT ![t] = h]
  /\ UNCHANGED hsr_tmp

\* inc_alive_hosts_count is a read and a write of a shared int.
LoadCount(t) ==
  /\ hsr[t] = "load"
  /\ hsr_tmp' = [hsr_tmp EXCEPT ![t] = alive_hosts_count]
  /\ hsr' = [hsr EXCEPT ![t] = "store"]
  /\ UNCHANGED <<prefs, restrictionVars, alivehosts, pc, todo, batchVars,
                 waited, canceled, freed, snifferVars, hsr_host, redisVars,
                 consumerVars, pushed, pinged>>

StoreCount(t) ==
  /\ hsr[t] = "store"
  /\ alive_hosts_count' = hsr_tmp[t] + 1
  /\ hsr' = [hsr EXCEPT ![t] = "push"]
  /\ UNCHANGED <<prefs, max_scan_hosts_reached, alivehosts, pc, todo,
                 batchVars, waited, canceled, freed, snifferVars, hsr_host,
                 hsr_tmp, redisVars, consumerVars, pushed, pinged>>

\* Mutant: the host that reaches the limit is not queued.
Mutant_MayPut == alive_hosts_count < max_scan_hosts

MayPut == ~max_scan_hosts_reached

\* Put the host on the queue unless the limit was reached.
PutHost(t) ==
  /\ hsr[t] = "push"
  /\ IF MayPut
     THEN /\ queue' = Append(queue, hsr_host[t])
          /\ pushed' = [pushed EXCEPT ![hsr_host[t]] = @ + 1]
     ELSE UNCHANGED <<queue, pushed>>
  /\ hsr' = [hsr EXCEPT ![t] = "check"]
  /\ UNCHANGED <<prefs, restrictionVars, alivehosts, pc, todo, batchVars,
                 waited, canceled, freed, snifferVars, hsr_host, hsr_tmp,
                 fin_put, deadhosts, consumerVars, pinged>>

\* Mutant: the limit is noticed one host too late.
Mutant_LimitHit == alive_hosts_count > max_scan_hosts

LimitHit == alive_hosts_count = max_scan_hosts

CheckLimit(t) ==
  /\ hsr[t] = "check"
  /\ max_scan_hosts_reached' = (max_scan_hosts_reached \/ LimitHit)
  /\ hsr' = [hsr EXCEPT ![t] = "idle"]
  /\ hsr_host' = [hsr_host EXCEPT ![t] = NoHost]
  /\ UNCHANGED <<prefs, alive_hosts_count, alivehosts, pc, todo, batchVars,
                 waited, canceled, freed, snifferVars, hsr_tmp, redisVars,
                 consumerVars, pushed, pinged>>

handle_scan_restrictions(t) ==
  LoadCount(t) \/ StoreCount(t) \/ PutHost(t) \/ CheckLimit(t)
-----------------------------------------------------------------------------
(* The alive detection thread.                                             *)

\* What every step of scan() that is not a call of handle_scan_restrictions
\* leaves alone.
scanFrame == <<prefs, restrictionVars, hsrVars, consumerVars, pushed>>

\* get_alive_test_methods and alive_detection_init; a failure of either leads to
\* the finish signal and the end of the thread.
StartAliveDetection ==
  /\ pc = "start"
  /\ \/ prefs.has_alive_test /\ pc' = "scan"
     \/ ~prefs.has_alive_test /\ pc' = "finish_error"
     \/ "init" \in Faults /\ pc' = "finish_error"
  /\ UNCHANGED <<scanFrame, alivehosts, todo, batchVars, waited, canceled,
                 freed, snifferVars, redisVars, pinged>>

\* scan() up to the start of the sniffer, whose result it ignores: when
\* open_live fails the pings are sent nevertheless.
EnterScan ==
  /\ pc = "scan"
  /\ todo' = Targets
  /\ remaining_batch' = IF alive_test = {ICMP} THEN number_of_targets ELSE 0
  /\ \/ /\ NoSniffer
        /\ pc' = FirstPhase
        /\ UNCHANGED <<sniffer, mutex>>
     \/ /\ ~NoSniffer
        /\ "open_live" \in Faults
        /\ pc' = FirstPhase
        /\ UNCHANGED <<sniffer, mutex>>
     \/ /\ ~NoSniffer
        /\ pc' = "created"
        /\ mutex' = "scan"
        /\ \/ sniffer' = "starting"
           \/ "pthread_create" \in Faults /\ sniffer' = "none"
  /\ UNCHANGED <<scanFrame, alivehosts, packets_send, prev_alive, curr_alive,
                 limit_reached_handled, waited, canceled, freed, woken,
                 breakloop, cancel_sniffer, redisVars, pinged>>

\* pthread_cond_wait gives up the mutex and blocks, in one step.
CondWait ==
  /\ pc = "created"
  /\ pc' = "cond_wait"
  /\ mutex' = "free"
  /\ UNCHANGED <<scanFrame, alivehosts, todo, batchVars, waited, canceled,
                 freed, sniffer, woken, breakloop, cancel_sniffer, redisVars,
                 pinged>>

\* There is no predicate around the wait: any wake-up ends it.
WokenUp == woken \/ "spurious_wakeup" \in Faults

CondWake ==
  /\ pc = "cond_wait"
  /\ mutex = "free"
  /\ WokenUp
  /\ pc' = FirstPhase
  /\ mutex' = "destroyed"
  /\ UNCHANGED <<scanFrame, alivehosts, todo, batchVars, waited, canceled,
                 freed, sniffer, woken, breakloop, cancel_sniffer, redisVars,
                 pinged>>

\* The ping functions skip a host that is known to be alive.  scan() sets
\* tcp_flag before it calls send_tcp for every target.
send_icmp(h) ==
  pinged' = IF h \in alivehosts THEN pinged ELSE pinged \cup {<<ICMP, h>>}

send_tcp(tcp_flag, h) ==
  pinged' = IF h \in alivehosts THEN pinged ELSE pinged \cup {<<tcp_flag, h>>}

send_arp(h) ==
  pinged' = IF h \in alivehosts THEN pinged ELSE pinged \cup {<<ARP, h>>}

\* One iteration of the loop for ICMP alone.
IcmpBatchPing(h) ==
  /\ pc = "icmp_batch"
  /\ h \in todo
  /\ todo' = todo \ {h}
  /\ send_icmp(h)
  /\ packets_send' = packets_send + 1
  /\ pc' = IF /\ packets_send' % Batch = 0
              /\ number_of_targets - packets_send' > Batch
           THEN "batch_count" ELSE "icmp_batch"
  /\ UNCHANGED <<scanFrame, alivehosts, remaining_batch, prev_alive,
                 curr_alive, limit_reached_handled, waited, canceled, freed,
                 snifferVars, redisVars>>

\* The number of alive hosts and the limit flag are read at different times.
BatchCount ==
  /\ pc = "batch_count"
  /\ curr_alive' = number_of_alive
  /\ pc' = "batch_report"
  /\ UNCHANGED <<scanFrame, alivehosts, todo, packets_send, remaining_batch,
                 prev_alive, limit_reached_handled, waited, canceled, freed,
                 snifferVars, redisVars, pinged>>

\* Mutant: the hosts over the limit are considered dead in every batch again.
Mutant_DeadOf(size, alive) ==
  IF ~max_scan_hosts_reached THEN size - (alive - prev_alive)
  ELSE size - (max_scan_hosts - prev_alive)

\* Of size hosts that were pinged since the last report, how many are reported
\* dead.
DeadOf(size, alive) ==
  IF ~max_scan_hosts_reached THEN size - (alive - prev_alive)
  ELSE IF ~limit_reached_handled THEN size - (max_scan_hosts - prev_alive)
  ELSE size

BatchReport ==
  /\ pc = "batch_report"
  /\ deadhosts' = deadhosts + DeadOf(Batch, curr_alive)
  /\ limit_reached_handled' = (limit_reached_handled \/ max_scan_hosts_reached)
  /\ remaining_batch' = remaining_batch - Batch
  /\ prev_alive' = curr_alive
  /\ pc' = "icmp_batch"
  /\ UNCHANGED <<scanFrame, alivehosts, todo, packets_send, curr_alive, waited,
                 canceled, freed, snifferVars, queue, fin_put, pinged>>

IcmpBatchEnd ==
  /\ pc = "icmp_batch"
  /\ todo = {}
  /\ pc' = AfterIcmp
  /\ UNCHANGED <<scanFrame, alivehosts, todo, batchVars, waited, canceled,
                 freed, snifferVars, redisVars, pinged>>

\* g_hash_table_foreach with send_icmp, send_tcp or send_arp.
PingHost(h) ==
  /\ pc \in PingPhases
  /\ h \in todo
  /\ todo' = todo \ {h}
  /\ \/ pc = ICMP /\ send_icmp(h)
     \/ pc \in {TCP_SYN, TCP_ACK} /\ send_tcp(pc, h)
     \/ pc = ARP /\ send_arp(h)
  /\ UNCHANGED <<scanFrame, alivehosts, pc, batchVars, waited, canceled, freed,
                 snifferVars, redisVars>>

PingPhaseEnd ==
  /\ pc \in PingPhases
  /\ todo = {}
  /\ todo' = Targets
  /\ pc' = AfterPhase(pc)
  /\ UNCHANGED <<scanFrame, alivehosts, batchVars, waited, canceled, freed,
                 snifferVars, redisVars, pinged>>

\* Every target is counted and handed on, alive already or not.
ConsiderHost(h) ==
  /\ pc = CONSIDER_ALIVE
  /\ hsr["scan"] = "idle"
  /\ h \in todo
  /\ todo' = todo \ {h}
  /\ alivehosts' = alivehosts \cup {h}
  /\ Enter("scan", h)
  /\ UNCHANGED <<prefs, restrictionVars, pc, batchVars, waited, canceled,
                 freed, snifferVars, redisVars, consumerVars, pushed, pinged>>

ConsiderEnd ==
  /\ pc = CONSIDER_ALIVE
  /\ hsr["scan"] = "idle"
  /\ todo = {}
  /\ pc' = AfterConsider
  /\ UNCHANGED <<scanFrame, alivehosts, todo, batchVars, waited, canceled,
                 freed, snifferVars, redisVars, pinged>>

\* One second for late replies, unless every target is known to be alive.
WaitSecond ==
  /\ pc = "wait"
  /\ IF waited < get_alive_test_wait_timeout /\ number_of_alive # number_of_targets
     THEN waited' = waited + 1 /\ pc' = "wait"
     ELSE waited' = waited /\ pc' = "stop"
  /\ UNCHANGED <<scanFrame, alivehosts, todo, batchVars, canceled, freed,
                 snifferVars, redisVars, pinged>>

\* stop_sniffer_thread: pcap_breakloop, which dereferences the pcap handle, and
\* pthread_kill, which needs a thread.
BreakLoop ==
  /\ pc = "stop"
  /\ IF sniffer = "none"
     THEN pc' = "crashed" /\ UNCHANGED breakloop
     ELSE pc' = "grace" /\ breakloop' = TRUE
  /\ UNCHANGED <<scanFrame, alivehosts, todo, batchVars, waited, canceled,
                 freed, sniffer, mutex, woken, cancel_sniffer, redisVars,
                 pinged>>

\* The grace period ends because the thread is gone or because it has elapsed;
\* the thread is cancelled in both cases.
GraceOver ==
  /\ pc = "grace"
  /\ pc' = "join"
  /\ cancel_sniffer' = TRUE
  /\ UNCHANGED <<scanFrame, alivehosts, todo, batchVars, waited, canceled,
                 freed, sniffer, mutex, woken, breakloop, redisVars, pinged>>

Joined == sniffer \in {"exited", "canceled"}

Join ==
  /\ pc = "join"
  /\ Joined
  /\ pc' = "report"
  /\ UNCHANGED <<scanFrame, alivehosts, todo, batchVars, waited, canceled,
                 freed, snifferVars, redisVars, pinged>>

\* The last DEADHOST message of scan().
LastDead ==
  IF alive_test = {ICMP} THEN DeadOf(remaining_batch, number_of_alive)
  ELSE number_of_targets - (IF max_scan_hosts_reached THEN max_scan_hosts
                            ELSE number_of_alive)

Report ==
  /\ pc = "report"
  /\ deadhosts' = deadhosts + LastDead
  /\ pc' = "finish"
  /\ UNCHANGED <<scanFrame, alivehosts, todo, batchVars, waited, canceled,
                 freed, snifferVars, queue, fin_put, pinged>>

put_finish_signal_on_queue ==
  /\ pc \in {"finish", "finish_error"}
  /\ fin_put' = TRUE
  /\ queue' = IF fin_put THEN queue ELSE Append(queue, FIN)
  /\ pc' = IF pc = "finish" THEN "free" ELSE "exit"
  /\ UNCHANGED <<scanFrame, alivehosts, todo, batchVars, waited, canceled,
                 freed, snifferVars, deadhosts, pinged>>

alive_detection_free ==
  /\ pc = "free"
  /\ freed' = TRUE
  /\ pc' = "exit"
  /\ UNCHANGED <<scanFrame, alivehosts, todo, batchVars, waited, canceled,
                 snifferVars, redisVars, pinged>>

\* kb_direct_conn returns NULL; the NULL kb is used nevertheless.
RedisDown ==
  /\ "redis" \in Faults
  /\ pc \in {"batch_report", "report", "finish", "finish_error"}
  /\ pc' = "crashed"
  /\ UNCHANGED <<scanFrame, alivehosts, todo, batchVars, waited, canceled,
                 freed, snifferVars, redisVars, pinged>>

\* pthread_cancel takes effect at a cancellation point (sleep, sendto, socket
\* I/O with Redis, pthread_cond_wait, pthread_join) and runs the cleanup
\* handlers installed at that time.  The finish signal's handler has been
\* popped when it is executed at the end of a scan.
CancelAliveDetection ==
  /\ "cancel" \in Faults
  /\ ~canceled
  /\ \/ pc \notin {"created", "batch_count", "stop", "exit", "crashed",
                    CONSIDER_ALIVE}
     \/ pc = CONSIDER_ALIVE /\ hsr["scan"] \in {"push", "check"}
  /\ canceled' = TRUE
  /\ pc' = CASE pc \in {"start", "finish_error", "free"} -> "exit"
             [] pc = "finish" -> "free"
             [] OTHER -> "finish"
  /\ pc = "cond_wait" => mutex = "free"
  /\ mutex' = IF pc = "cond_wait" THEN "scan" ELSE mutex
  /\ hsr' = [hsr EXCEPT !["scan"] = "idle"]
  /\ hsr_host' = [hsr_host EXCEPT !["scan"] = NoHost]
  /\ UNCHANGED <<prefs, restrictionVars, alivehosts, todo, batchVars, waited,
                 freed, sniffer, woken, breakloop, cancel_sniffer, hsr_tmp,
                 redisVars, consumerVars, pushed, pinged>>

AliveDetectionThread ==
  \/ StartAliveDetection \/ EnterScan \/ CondWait \/ CondWake
  \/ \E h \in Targets : IcmpBatchPing(h) \/ PingHost(h) \/ ConsiderHost(h)
  \/ BatchCount \/ BatchReport \/ IcmpBatchEnd \/ PingPhaseEnd \/ ConsiderEnd
  \/ WaitSecond \/ BreakLoop \/ GraceOver \/ Join \/ Report
  \/ put_finish_signal_on_queue \/ alive_detection_free
  \/ handle_scan_restrictions("scan")
-----------------------------------------------------------------------------
(* The sniffer thread.  Once the data it uses is freed its behaviour is     *)
(* undefined; the model then stops it.                                     *)

\* Lock, signal, unlock.  A signal nobody waits for is lost.
SnifferStart ==
  /\ sniffer = "starting"
  /\ mutex \in {"free", "destroyed"}
  /\ woken' = (pc = "cond_wait")
  /\ sniffer' = "loop"
  /\ UNCHANGED <<prefs, restrictionVars, alivehosts, pc, todo, batchVars,
                 waited, canceled, freed, mutex, breakloop, cancel_sniffer,
                 hsrVars, redisVars, consumerVars, pushed, pinged>>

\* Mutant: a host is handled again with every packet.
Mutant_IsNew(h) == h \in Targets

IsNew(h) == h \in Targets \ alivehosts

\* got_packet for a packet from h.  Packets of hosts that are no targets or are
\* known to be alive change nothing.
got_packet(h) ==
  /\ sniffer = "loop"
  /\ hsr["sniffer"] = "idle"
  /\ IsNew(h)
  /\ alivehosts' = alivehosts \cup {h}
  /\ Enter("sniffer", h)
  /\ UNCHANGED <<prefs, restrictionVars, pc, todo, batchVars, waited, canceled,
                 freed, snifferVars, redisVars, consumerVars, pushed, pinged>>

\* pcap_loop returns, because it was broken or because of an error.
LoopEnd ==
  /\ sniffer = "loop"
  /\ hsr["sniffer"] = "idle"
  /\ breakloop \/ "pcap_loop" \in Faults
  /\ sniffer' = "exited"
  /\ UNCHANGED <<prefs, restrictionVars, alivehosts, pc, todo, batchVars,
                 waited, canceled, freed, mutex, woken, breakloop,
                 cancel_sniffer, hsrVars, redisVars, consumerVars, pushed,
                 pinged>>

\* The cancellation points are in pcap_loop and in the Redis command, before or
\* after the command has taken effect.
SnifferCanceled ==
  /\ cancel_sniffer
  /\ sniffer = "loop"
  /\ hsr["sniffer"] \in {"idle", "push", "check"}
  /\ sniffer' = "canceled"
  /\ hsr' = [hsr EXCEPT !["sniffer"] = "idle"]
  /\ hsr_host' = [hsr_host EXCEPT !["sniffer"] = NoHost]
  /\ UNCHANGED <<prefs, restrictionVars, alivehosts, pc, todo, batchVars,
                 waited, canceled, freed, mutex, woken, breakloop,
                 cancel_sniffer, hsr_tmp, redisVars, consumerVars, pushed,
                 pinged>>

SnifferThread ==
  /\ ~freed
  /\ \/ SnifferStart \/ LoopEnd \/ SnifferCanceled
     \/ \E h \in Targets : got_packet(h)
     \/ handle_scan_restrictions("sniffer")
-----------------------------------------------------------------------------
(* The consumer.                                                           *)

consumerFrame == <<prefs, restrictionVars, alivehosts, pc, todo, batchVars,
                   waited, canceled, freed, snifferVars, hsrVars, fin_put,
                   deadhosts, pushed, pinged>>

AtFinishSignal == Head(queue) = FIN

\* Mutant: the message is sent although every alive host is scanned.
Mutant_LimitMsg ==
  IF max_scan_hosts_reached THEN alive_hosts_count - max_scan_hosts ELSE errmsg

\* The message about hosts that are not scanned, for a positive number only.
LimitMsg ==
  IF max_scan_hosts_reached /\ alive_hosts_count > max_scan_hosts
  THEN alive_hosts_count - max_scan_hosts ELSE errmsg

\* get_host_from_queue at the finish signal.
GetFinishSignal ==
  /\ consumer = "idle" /\ ~finished
  /\ queue # <<>> /\ AtFinishSignal
  /\ queue' = Tail(queue)
  /\ finished' = TRUE
  /\ errmsg' = LimitMsg
  /\ UNCHANGED <<consumerFrame, consumer, fin_seen, held, requeues, scanned>>

\* get_host_from_queue at a host, which openvas scans or puts back for later.
GetHost ==
  /\ consumer = "idle" /\ ~finished
  /\ queue # <<>> /\ ~AtFinishSignal
  /\ queue' = Tail(queue)
  /\ \/ /\ scanned' = scanned \cup {Head(queue)}
        /\ UNCHANGED <<consumer, held, requeues>>
     \/ /\ requeues < MaxRequeue
        /\ requeues' = requeues + 1
        /\ held' = Head(queue)
        /\ consumer' = "put_back"
        /\ UNCHANGED scanned
  /\ UNCHANGED <<consumerFrame, finished, fin_seen, errmsg>>

put_host_on_queue ==
  /\ consumer = "put_back"
  /\ queue' = Append(queue, held)
  /\ held' = NoHost
  /\ consumer' = "look"
  /\ UNCHANGED <<consumerFrame, finished, fin_seen, errmsg, requeues, scanned>>

FinOnQueue == \E i \in 1..Len(queue) : queue[i] = FIN

finish_signal_on_queue ==
  /\ consumer = "look"
  /\ fin_seen' = (fin_seen \/ FinOnQueue)
  /\ consumer' = IF fin_seen' THEN "remove" ELSE "idle"
  /\ UNCHANGED <<consumerFrame, queue, finished, errmsg, held, requeues, scanned>>

QueueWithout(i) == SubSeq(queue, 1, i - 1) \o SubSeq(queue, i + 1, Len(queue))

\* realloc_finish_signal_on_queue removes and appends with two commands.  LREM
\* with count 1 removes the occurrence that was pushed last.
RemoveFinishSignal ==
  /\ consumer = "remove"
  /\ IF FinOnQueue
     THEN \E i \in 1..Len(queue) :
            /\ queue[i] = FIN /\ \A j \in i + 1..Len(queue) : queue[j] # FIN
            /\ queue' = QueueWithout(i)
     ELSE UNCHANGED queue
  /\ consumer' = "append"
  /\ UNCHANGED <<consumerFrame, finished, fin_seen, errmsg, held, requeues, scanned>>

AppendFinishSignal ==
  /\ consumer = "append"
  /\ queue' = Append(queue, FIN)
  /\ consumer' = "idle"
  /\ UNCHANGED <<consumerFrame, finished, fin_seen, errmsg, held, requeues, scanned>>

\* openvas runs the alive detection as a thread: a crash ends both.
Consumer ==
  /\ pc # "crashed"
  /\ \/ GetFinishSignal \/ GetHost \/ put_host_on_queue
     \/ finish_signal_on_queue \/ RemoveFinishSignal \/ AppendFinishSignal
-----------------------------------------------------------------------------
\* Alive detection is over and openvas knows, or the process is gone.
Terminated ==
  /\ pc = "crashed" \/ (pc = "exit" /\ finished)
  /\ UNCHANGED vars

Next ==
  \/ AliveDetectionThread
  \/ RedisDown
  \/ CancelAliveDetection
  \/ SnifferThread
  \/ Consumer
  \/ Terminated

Spec == Init /\ [][Next]_vars

\* The threads run, and a cancelled sniffer reaches a cancellation point.  No
\* packet need ever arrive and pcap_breakloop need not have an effect.
Fairness ==
  /\ WF_vars(AliveDetectionThread)
  /\ WF_vars(~freed /\ SnifferStart)
  /\ WF_vars(~freed /\ handle_scan_restrictions("sniffer"))
  /\ WF_vars(~freed /\ SnifferCanceled)
  /\ WF_vars(Consumer)

FairSpec == Spec /\ Fairness
-----------------------------------------------------------------------------
(* Properties.                                                             *)

\* Every variable has its type, and a thread that is about to queue a host has one.
TypeOK ==
  /\ prefs \in Prefs
  /\ alive_hosts_count \in Nat
  /\ max_scan_hosts_reached \in BOOLEAN
  /\ alivehosts \subseteq Targets
  /\ pc \in ScanStates
  /\ todo \subseteq Targets
  /\ packets_send \in Nat
  /\ remaining_batch \in Int
  /\ prev_alive \in Nat
  /\ curr_alive \in Nat
  /\ limit_reached_handled \in BOOLEAN
  /\ waited \in Nat
  /\ canceled \in BOOLEAN
  /\ freed \in BOOLEAN
  /\ sniffer \in {"none", "starting", "loop", "exited", "canceled"}
  /\ mutex \in {"free", "scan", "destroyed"}
  /\ woken \in BOOLEAN
  /\ breakloop \in BOOLEAN
  /\ cancel_sniffer \in BOOLEAN
  /\ hsr \in [Threads -> {"idle", "load", "store", "push", "check"}]
  /\ hsr_host \in [Threads -> Targets \cup {NoHost}]
  /\ \A t \in Threads : hsr[t] # "idle" => hsr_host[t] \in Targets
  /\ hsr_tmp \in [Threads -> Nat]
  /\ queue \in Seq(Targets \cup {FIN})
  /\ fin_put \in BOOLEAN
  /\ deadhosts \in Int
  /\ consumer \in {"idle", "put_back", "look", "remove", "append"}
  /\ finished \in BOOLEAN
  /\ fin_seen \in BOOLEAN
  /\ errmsg \in Int
  /\ held \in Targets \cup {NoHost}
  /\ consumer = "put_back" => held \in Targets
  /\ requeues \in 0..MaxRequeue
  /\ pushed \in [Targets -> Nat]
  /\ scanned \subseteq Targets
  /\ pinged \subseteq Methods \X Targets

\* Hosts announced to openvas, and how many of the hosts found it may scan.
Queued == {h \in Targets : pushed[h] > 0}
Scannable ==
  IF number_of_alive < max_scan_hosts THEN number_of_alive ELSE max_scan_hosts

ScanOver == pc \in {"finish", "free"} /\ ~canceled

\* When scan() ends, the DEADHOST messages and the hosts that may be scanned add
\* up to the number of targets, whatever the batches saw while hosts were found,
\* and also when the sniffer was cancelled: the bookkeeping of prev_alive,
\* remaining_batch and limit_reached_handled loses no host and counts none twice.
DeadHostsAccounted ==
  ScanOver => deadhosts + Scannable = number_of_targets

\* The progress bar of the client, which adds announced hosts and dead hosts,
\* ends at the number of targets; only a sniffer cancelled in the middle of
\* handle_scan_restrictions may lose one host.
ProgressComplete ==
  ScanOver => number_of_targets - (deadhosts + Cardinality(Queued))
                \in (IF sniffer = "canceled" THEN {0, 1} ELSE {0})

\* handle_scan_restrictions never announces more than max_scan_hosts hosts.
LimitRespected == Cardinality(Queued) <= max_scan_hosts

\* got_packet and the consider-alive loop never announce a host twice.
AnnouncedOnce == \A h \in Targets : pushed[h] <= 1

\* When openvas has seen the finish signal, it was told exactly how many alive
\* hosts are left unscanned, or nothing if there are none.
LimitMessageExact ==
  (finished /\ freed) =>
     errmsg = IF number_of_alive > max_scan_hosts
              THEN number_of_alive - max_scan_hosts ELSE -1

\* At the end every target was pinged with every selected method, unless it was
\* already known to be alive.
EveryTargetPinged ==
  ScanOver => \A m \in alive_test \cap PingPhases, h \in Targets :
                 <<m, h>> \in pinged \/ h \in alivehosts

\* The data of the scan is freed when the sniffer does not use it any more.
SnifferGoneBeforeFree == freed => sniffer \notin {"starting", "loop"}

\* The alive detection, seen from openvas, implements its contract: hosts that
\* are queued are announced, the finish signal closes the announcements.
Contract == INSTANCE AliveContract
  WITH Hosts <- Targets, limit <- max_scan_hosts, announced <- Queued,
       closed <- fin_put, taken <- scanned, done <- finished

\* Every step of the threads is a step of the contract or changes nothing openvas
\* can see, and openvas gets every host and then the finish signal.
ImplementsContract == Contract!FairSpec

-----------------------------------------------------------------------------
(* The inductive invariant behind LimitRespected, AnnouncedOnce and         *)
(* DeadHostsAccounted, for selections in which one thread finds the hosts.  *)

OneSource == CONSIDER_ALIVE \in alive_test => alive_test = {CONSIDER_ALIVE}

\* The thread that finds hosts.
Finder == IF alive_test = {CONSIDER_ALIVE} THEN "scan" ELSE "sniffer"

\* Where the threads can be, whatever was selected: the sniffer is gone when the
\* last dead hosts are reported, unless the scan was cancelled.
ControlInv ==
  /\ pc \in Methods => pc \in alive_test /\ alive_test # {ICMP}
  /\ pc \in {"icmp_batch", "batch_count", "batch_report"} => alive_test = {ICMP}
  /\ pc \in {"created", "cond_wait", "wait", "stop", "grace", "join"}
       => alive_test # {CONSIDER_ALIVE}
  /\ pc \in {"start", "scan"} => alivehosts = {}
  /\ pc \in {"start", "scan", "finish_error"} => sniffer = "none"
  /\ freed => pc = "exit"
  /\ canceled => pc \in {"finish", "free", "exit", "crashed"}
  /\ pc \in {"report", "finish", "free", "exit"} /\ ~canceled
       => sniffer \notin {"starting", "loop"}
  /\ sniffer # "none" => alive_test # {CONSIDER_ALIVE}
  /\ sniffer # "loop" => hsr["sniffer"] = "idle"
  /\ hsr["scan"] # "idle" => pc = CONSIDER_ALIVE
  /\ OneSource /\ pc = CONSIDER_ALIVE => alivehosts \cap todo = {}

\* alive_hosts_count follows the hash table, and the flag follows the count: a
\* limit that is reached without the flag has a thread about to set it, or one
\* that was cancelled before it could.
CountInv ==
  /\ alive_hosts_count = IF hsr[Finder] \in {"load", "store"}
                         THEN number_of_alive - 1 ELSE number_of_alive
  /\ hsr[Finder] = "store" => hsr_tmp[Finder] = alive_hosts_count
  /\ max_scan_hosts_reached => number_of_alive >= max_scan_hosts
  /\ ~max_scan_hosts_reached => number_of_alive <= max_scan_hosts
  /\ ~max_scan_hosts_reached /\ number_of_alive = max_scan_hosts
       => \/ hsr[Finder] # "idle"
          \/ sniffer = "canceled"
          \/ canceled /\ Finder = "scan"

\* Only alive hosts are queued, and the host in hand is not queued yet.
QueuedInv ==
  /\ AnnouncedOnce
  /\ Queued \subseteq alivehosts
  /\ hsr[Finder] # "idle" => hsr_host[Finder] \in alivehosts
  /\ hsr[Finder] \in {"load", "store", "push"} => pushed[hsr_host[Finder]] = 0
  /\ LimitRespected

\* The dead hosts reported so far are the targets that are not in the remaining
\* batch, without the alive hosts known at the last report (or the limit, once
\* it was taken into account).
AccountInv ==
  /\ pc \in {"start", "scan"} => deadhosts = 0
  /\ alive_test # {ICMP} /\ pc \notin {"finish", "free", "exit", "crashed"}
       => deadhosts = 0
  /\ pc \in {"start", "scan"} => prev_alive = 0 /\ ~limit_reached_handled
  /\ alive_test = {ICMP}
       /\ pc \in {"created", "cond_wait", "icmp_batch", "batch_count",
                 "batch_report", "wait", "stop", "grace", "join", "report"}
       => /\ ~limit_reached_handled =>
               /\ deadhosts = number_of_targets - remaining_batch - prev_alive
               /\ prev_alive <= number_of_alive
          /\ limit_reached_handled =>
               /\ max_scan_hosts_reached
               /\ deadhosts = number_of_targets - remaining_batch - max_scan_hosts
  /\ pc = "batch_report" => curr_alive <= number_of_alive
  /\ DeadHostsAccounted

IInv == ControlInv /\ (OneSource => CountInv /\ QueuedInv /\ AccountInv)
=============================================================================
