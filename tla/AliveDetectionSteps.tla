------------------------ MODULE AliveDetectionSteps -------------------------
(***************************************************************************)
(* What one step of AliveDetection preserves.  The facts about             *)
(* cardinalities and sequences the steps need are a hypothesis here,       *)
(* LibraryFacts; AliveDetectionProofs derives them from the library's      *)
(* theorems and draws the conclusions about behaviours.                    *)
(***************************************************************************)
EXTENDS AliveDetection, TLAPS

\* The sizes of the sets of hosts, now and after the step, and the type of the
\* queue without the finish signal.
LibraryFacts ==
  /\ number_of_targets \in Nat
  /\ number_of_alive \in Nat
  /\ UNCHANGED alivehosts => number_of_alive' = number_of_alive
  /\ \A h \in Targets \ alivehosts :
       alivehosts' = alivehosts \cup {h} => number_of_alive' = number_of_alive + 1
  /\ \A S \in SUBSET (alivehosts') :
       Cardinality(S) \in Nat /\ Cardinality(S) <= number_of_alive'
  /\ \A i \in 1..Len(queue) : QueueWithout(i) \in Seq(Targets \cup {FIN})
  /\ Cardinality(Queued) \in Nat
  /\ pushed' = pushed => Cardinality(Queued)' = Cardinality(Queued)
  /\ \A h \in Targets \ Queued :
       Queued' = Queued \cup {h} => Cardinality(Queued)' = Cardinality(Queued) + 1

\* The steps of scan() that neither find a host nor handle one.
ScanStep ==
  \/ StartAliveDetection \/ EnterScan \/ CondWait \/ CondWake
  \/ \E h \in Targets : IcmpBatchPing(h) \/ PingHost(h)
  \/ BatchCount \/ BatchReport \/ IcmpBatchEnd \/ PingPhaseEnd \/ ConsiderEnd
  \/ WaitSecond \/ BreakLoop \/ GraceOver \/ Join \/ Report
  \/ put_finish_signal_on_queue \/ alive_detection_free \/ RedisDown

\* alive_detection_init never stores a limit of 0 or less.
LEMMA MaxScanHostsPositive ==
  ASSUME prefs \in Prefs, number_of_targets \in Nat
  PROVE  max_scan_hosts \in Nat /\ max_scan_hosts > 0
  BY IntMaxAssumption, PrefsAssumption
     DEF max_scan_hosts, PrefType, number_of_targets

\* The steps, by what they have to do with alive hosts.
LEMMA StepCases ==
  ASSUME [Next]_vars
  PROVE  \/ ScanStep
         \/ \E h \in Targets : ConsiderHost(h) \/ got_packet(h)
         \/ \E t \in Threads : LoadCount(t) \/ StoreCount(t) \/ PutHost(t)
                                 \/ CheckLimit(t)
         \/ CancelAliveDetection \/ SnifferStart \/ LoopEnd \/ SnifferCanceled
         \/ Consumer
         \/ UNCHANGED vars
  BY Zenon DEF Next, AliveDetectionThread, SnifferThread, Terminated, ScanStep,
         handle_scan_restrictions, Threads

\* scan() itself changes no alive host, no count and no call of
\* handle_scan_restrictions.
LEMMA ScanStepFrame ==
  ASSUME ScanStep
  PROVE  /\ prefs' = prefs /\ alivehosts' = alivehosts
         /\ alive_hosts_count' = alive_hosts_count
         /\ max_scan_hosts_reached' = max_scan_hosts_reached
         /\ hsr' = hsr /\ hsr_host' = hsr_host /\ hsr_tmp' = hsr_tmp
         /\ canceled' = canceled /\ pushed' = pushed
<1> USE DEF scanFrame, restrictionVars, hsrVars
<1>1. CASE StartAliveDetection \/ EnterScan \/ CondWait \/ CondWake
  BY <1>1, Zenon DEF StartAliveDetection, EnterScan, CondWait, CondWake
<1>2. CASE \E h \in Targets : IcmpBatchPing(h) \/ PingHost(h)
  BY <1>2, Zenon DEF IcmpBatchPing, PingHost
<1>3. CASE BatchCount \/ BatchReport \/ IcmpBatchEnd \/ PingPhaseEnd \/ ConsiderEnd
  BY <1>3, Zenon DEF BatchCount, BatchReport, IcmpBatchEnd, PingPhaseEnd, ConsiderEnd
<1>4. CASE WaitSecond \/ BreakLoop \/ GraceOver \/ Join \/ Report
  BY <1>4, Zenon DEF WaitSecond, BreakLoop, GraceOver, Join, Report
<1>5. CASE put_finish_signal_on_queue \/ alive_detection_free \/ RedisDown
  BY <1>5, Zenon DEF put_finish_signal_on_queue, alive_detection_free, RedisDown
<1> QED
  BY <1>1, <1>2, <1>3, <1>4, <1>5, Zenon DEF ScanStep

\* The consumer touches the queue and nothing else of the alive detection.
LEMMA ConsumerFrame ==
  ASSUME Consumer
  PROVE  UNCHANGED <<prefs, alive_hosts_count, max_scan_hosts_reached,
                     alivehosts, pc, todo, packets_send, remaining_batch,
                     prev_alive, curr_alive, limit_reached_handled, waited,
                     canceled, freed, sniffer, mutex, woken, breakloop,
                     cancel_sniffer, hsr, hsr_host, hsr_tmp, fin_put,
                     deadhosts, pushed, pinged>>
<1>1. UNCHANGED consumerFrame
  BY Zenon DEF Consumer, GetFinishSignal, GetHost, put_host_on_queue,
         finish_signal_on_queue, RemoveFinishSignal, AppendFinishSignal
<1> QED
  BY <1>1, Zenon DEF consumerFrame, restrictionVars, batchVars, snifferVars, hsrVars

\* The start and the end of the sniffer's loop.
LEMMA SnifferFrame ==
  ASSUME SnifferStart \/ LoopEnd
  PROVE  /\ UNCHANGED <<prefs, alive_hosts_count, max_scan_hosts_reached,
                        alivehosts, pc, todo, packets_send, remaining_batch,
                        prev_alive, curr_alive, limit_reached_handled,
                        canceled, freed, hsr, hsr_host, hsr_tmp, deadhosts,
                        pushed>>
         /\ sniffer # "canceled"
  BY Zenon DEF SnifferStart, LoopEnd, restrictionVars, batchVars, hsrVars, redisVars

\* A call of handle_scan_restrictions stays within its own variables.
LEMMA RestrictionFrame ==
  ASSUME NEW t \in Threads,
         LoadCount(t) \/ StoreCount(t) \/ PutHost(t) \/ CheckLimit(t)
  PROVE  UNCHANGED <<prefs, alivehosts, pc, todo, packets_send,
                     remaining_batch, prev_alive, curr_alive,
                     limit_reached_handled, canceled, freed, sniffer, mutex,
                     deadhosts>>
  BY Zenon DEF LoadCount, StoreCount, PutHost, CheckLimit, batchVars, snifferVars,
         redisVars

\* Cancellation and a new host leave the preferences and the books alone.
LEMMA OtherFrame ==
  ASSUME \/ CancelAliveDetection
         \/ SnifferCanceled
         \/ \E h \in Targets : ConsiderHost(h) \/ got_packet(h)
  PROVE  UNCHANGED <<prefs, alive_hosts_count, max_scan_hosts_reached,
                     packets_send, remaining_batch, prev_alive, curr_alive,
                     limit_reached_handled, deadhosts, pushed>>
  BY Zenon DEF CancelAliveDetection, SnifferCanceled, ConsiderHost, got_packet,
         restrictionVars, batchVars, redisVars

\* No step writes a preference.
LEMMA PrefsFixed == [Next]_vars => prefs' = prefs
  BY StepCases, ScanStepFrame, ConsumerFrame, SnifferFrame, RestrictionFrame,
     OtherFrame, Zenon DEF vars

\* Only targets are found alive.
LEMMA TargetsFound ==
  ASSUME TypeOK, [Next]_vars
  PROVE  alivehosts' \subseteq Targets
<1>1. alivehosts \subseteq Targets
  BY Zenon DEF TypeOK
<1>2. CASE CancelAliveDetection \/ SnifferCanceled
  BY <1>1, <1>2, Zenon DEF CancelAliveDetection, SnifferCanceled
<1>3. CASE \E h \in Targets : ConsiderHost(h) \/ got_packet(h)
  BY <1>1, <1>3, Zenon DEF ConsiderHost, got_packet
<1>4. CASE UNCHANGED vars
  BY <1>1, <1>4, Zenon DEF vars
<1> QED
  BY <1>1, <1>2, <1>3, <1>4, StepCases, ScanStepFrame, ConsumerFrame,
     SnifferFrame, RestrictionFrame, Zenon

\* The phases scan() can go to.
LEMMA PhaseTypes ==
  /\ AfterConsider \in {"report", "wait"}
  /\ AfterArp \in {CONSIDER_ALIVE, "report", "wait"}
  /\ AfterAck \in {ARP, CONSIDER_ALIVE, "report", "wait"}
  /\ AfterSyn \in {TCP_ACK, ARP, CONSIDER_ALIVE, "report", "wait"}
  /\ AfterIcmp \in {TCP_SYN, TCP_ACK, ARP, CONSIDER_ALIVE, "report", "wait"}
  /\ FirstPhase \in {"icmp_batch", ICMP, TCP_SYN, TCP_ACK, ARP, CONSIDER_ALIVE, "report", "wait"}
  BY Zenon DEF AfterConsider, AfterArp, AfterAck, AfterSyn, AfterIcmp, FirstPhase

\* What follows a ping phase is a state of the alive detection thread.
LEMMA AfterPhaseType ==
  ASSUME NEW p \in PingPhases
  PROVE  AfterPhase(p) \in ScanStates
  BY PhaseTypes
     DEF AfterPhase, ScanStates, PingPhases, Methods, ICMP, TCP_SYN, TCP_ACK,
         ARP, CONSIDER_ALIVE

\* Every step keeps the types.
LEMMA TypeStep == TypeOK /\ LibraryFacts /\ [Next]_vars => TypeOK'
<1> SUFFICES ASSUME TypeOK, LibraryFacts, [Next]_vars PROVE TypeOK'
  BY Zenon
<1>a. /\ number_of_targets \in Nat /\ number_of_alive \in Nat
      /\ \A i \in 1..Len(queue) : QueueWithout(i) \in Seq(Targets \cup {FIN})
  BY Zenon DEF LibraryFacts
<1>b. max_scan_hosts \in Nat
  BY <1>a, MaxScanHostsPositive, Zenon DEF TypeOK
<1> USE DEF TypeOK, ScanStates, Methods, ICMP, TCP_SYN, TCP_ACK, ARP,
            CONSIDER_ALIVE, scanFrame, restrictionVars, hsrVars, consumerVars,
            batchVars, snifferVars, redisVars, consumerFrame
<1>1. CASE StartAliveDetection
  BY <1>1 DEF StartAliveDetection
<1>2. CASE EnterScan
  BY <1>2, <1>a, PhaseTypes DEF EnterScan
<1>3. CASE CondWait
  BY <1>3 DEF CondWait
<1>4. CASE CondWake
  BY <1>4, PhaseTypes DEF CondWake
<1>5. CASE BatchCount
  BY <1>5, <1>a DEF BatchCount
<1>6. CASE BatchReport
  BY <1>6, <1>b, BatchAssumption DEF BatchReport, DeadOf
<1>7. CASE IcmpBatchEnd
  BY <1>7, PhaseTypes DEF IcmpBatchEnd
<1>8. CASE PingPhaseEnd
  BY <1>8, AfterPhaseType DEF PingPhaseEnd
<1>9. CASE ConsiderEnd
  BY <1>9, PhaseTypes DEF ConsiderEnd
<1>10. CASE WaitSecond
  BY <1>10 DEF WaitSecond
<1>11. CASE BreakLoop
  <2>1. CASE sniffer = "none"
    BY <1>11, <2>1 DEF BreakLoop
  <2>2. CASE sniffer # "none"
    BY <1>11, <2>2 DEF BreakLoop
  <2> QED
    BY <2>1, <2>2, Zenon
<1>12. CASE GraceOver
  BY <1>12 DEF GraceOver
<1>13. CASE Join
  BY <1>13 DEF Join
<1>14. CASE Report
  <2>1. LastDead \in Int
    BY <1>a, <1>b DEF LastDead, DeadOf
  <2> QED
    BY <1>14, <2>1 DEF Report
<1>15. CASE put_finish_signal_on_queue
  BY <1>15 DEF put_finish_signal_on_queue
<1>16. CASE alive_detection_free
  BY <1>16 DEF alive_detection_free
<1>17. CASE RedisDown
  BY <1>17 DEF RedisDown
<1>18. CASE CancelAliveDetection
  <2>1. pc' \in ScanStates /\ mutex' \in {"free", "scan", "destroyed"} /\ canceled' \in BOOLEAN
    BY <1>18 DEF CancelAliveDetection
  <2>2. /\ hsr' \in [Threads -> {"idle", "load", "store", "push", "check"}]
        /\ hsr_host' \in [Threads -> Targets \cup {NoHost}]
        /\ \A t \in Threads : hsr'[t] # "idle" => hsr_host'[t] \in Targets
    BY <1>18, SMTT(30) DEF CancelAliveDetection, Threads
  <2> QED
    BY <1>18, <2>1, <2>2, SMTT(30) DEF CancelAliveDetection
<1>19. CASE SnifferStart
  BY <1>19 DEF SnifferStart
<1>20. CASE LoopEnd
  BY <1>20 DEF LoopEnd
<1>21. CASE SnifferCanceled
  BY <1>21 DEF SnifferCanceled, Threads
<1>22. CASE GetFinishSignal
  BY <1>22, <1>b DEF GetFinishSignal, LimitMsg
<1>23. CASE GetHost
  BY <1>23, SentinelAssumption, RequeueAssumption DEF GetHost, AtFinishSignal
<1>24. CASE put_host_on_queue
  BY <1>24 DEF put_host_on_queue
<1>25. CASE finish_signal_on_queue
  BY <1>25 DEF finish_signal_on_queue
<1>26. CASE RemoveFinishSignal
  <2>1. queue' \in Seq(Targets \cup {FIN})
    <3>1. CASE FinOnQueue
      <4>1. PICK i \in 1..Len(queue) : queue' = QueueWithout(i)
        BY <1>26, <3>1 DEF RemoveFinishSignal
      <4> QED
        BY <4>1, <1>a
    <3>2. CASE ~FinOnQueue
      BY <1>26, <3>2 DEF RemoveFinishSignal
    <3> QED
      BY <3>1, <3>2
  <2> QED
    BY <1>26, <2>1 DEF RemoveFinishSignal
<1>27. CASE AppendFinishSignal
  BY <1>27 DEF AppendFinishSignal
<1>28. CASE UNCHANGED vars
  BY <1>28 DEF vars
<1>29. ASSUME NEW h \in Targets, IcmpBatchPing(h) PROVE TypeOK'
  BY <1>29, SMTT(30) DEF IcmpBatchPing, send_icmp
<1>30. ASSUME NEW h \in Targets, PingHost(h) PROVE TypeOK'
  BY <1>30 DEF PingHost, send_icmp, send_tcp, send_arp, PingPhases
<1>31. ASSUME NEW h \in Targets, ConsiderHost(h) PROVE TypeOK'
  BY <1>31 DEF ConsiderHost, Enter, Threads
<1>32. ASSUME NEW h \in Targets, got_packet(h) PROVE TypeOK'
  BY <1>32 DEF got_packet, Enter, IsNew, Threads
<1>33. ASSUME NEW t \in Threads, LoadCount(t) PROVE TypeOK'
  BY <1>33 DEF LoadCount
<1>34. ASSUME NEW t \in Threads, StoreCount(t) PROVE TypeOK'
  BY <1>34, SMTT(30) DEF StoreCount
<1>35. ASSUME NEW t \in Threads, PutHost(t) PROVE TypeOK'
  <2>1. hsr_host[t] \in Targets /\ hsr' \in [Threads -> {"idle", "load", "store", "push", "check"}]
    BY <1>35 DEF PutHost
  <2>2. queue' \in Seq(Targets \cup {FIN}) /\ pushed' \in [Targets -> Nat]
    <3>1. CASE MayPut
      <4>1. /\ queue' = Append(queue, hsr_host[t])
            /\ pushed' = [pushed EXCEPT ![hsr_host[t]] = @ + 1]
        BY <1>35, <3>1 DEF PutHost
      <4> QED
        BY <2>1, <4>1
    <3>2. CASE ~MayPut
      BY <1>35, <3>2 DEF PutHost
    <3> QED
      BY <3>1, <3>2
  <2>3. \A u \in Threads : hsr'[u] # "idle" => hsr_host'[u] \in Targets
    BY <1>35, <2>1, SMTT(30) DEF PutHost
  <2> QED
    BY <1>35, <2>1, <2>2, <2>3, SMTT(30) DEF PutHost
<1>36. ASSUME NEW t \in Threads, CheckLimit(t) PROVE TypeOK'
  BY <1>36 DEF CheckLimit
<1> HIDE DEF TypeOK
<1> QED
  BY <1>1, <1>2, <1>3, <1>4, <1>5, <1>6, <1>7, <1>8, <1>9, <1>10,
     <1>11, <1>12, <1>13, <1>14, <1>15, <1>16, <1>17, <1>18, <1>19,
     <1>20, <1>21, <1>22, <1>23, <1>24, <1>25, <1>26, <1>27, <1>28,
     <1>29, <1>30, <1>31, <1>32, <1>33, <1>34, <1>35, <1>36, ZenonT(40)
     DEF Next, AliveDetectionThread, SnifferThread, Consumer, Terminated,
         handle_scan_restrictions, Threads

\* Which phase can follow: one that is selected, or the end of the pings.
LEMMA NextPhases ==
  ASSUME TypeOK, number_of_targets \in Nat
  PROVE  /\ alive_test \subseteq Methods
         /\ NoSniffer = (alive_test = {CONSIDER_ALIVE})
         /\ AfterConsider = IF NoSniffer THEN "report" ELSE "wait"
         /\ AfterArp \in {AfterConsider} \cup (alive_test \cap {CONSIDER_ALIVE})
         /\ AfterAck \in {AfterConsider} \cup (alive_test \cap {CONSIDER_ALIVE, ARP})
         /\ AfterSyn \in {AfterConsider} \cup (alive_test \cap {CONSIDER_ALIVE, ARP, TCP_ACK})
         /\ AfterIcmp \in {AfterConsider} \cup (alive_test \ {ICMP})
         /\ FirstPhase = "icmp_batch" => alive_test = {ICMP}
         /\ FirstPhase \in {AfterConsider, "icmp_batch"} \cup alive_test
         /\ FirstPhase \in Methods => alive_test # {ICMP}
<1>1. ~ConsiderAtOnce
  BY MaxScanHostsPositive DEF TypeOK, ConsiderAtOnce
<1>2. alive_test \subseteq Methods
  BY PrefsAssumption DEF TypeOK, PrefType, alive_test
<1> QED
  BY <1>1, <1>2
     DEF NoSniffer, AfterConsider, AfterArp, AfterAck, AfterSyn, AfterIcmp,
         FirstPhase,
     Methods, ICMP, TCP_SYN, TCP_ACK, ARP, CONSIDER_ALIVE

\* Every step keeps the threads where they can be.
LEMMA ControlStep ==
  TypeOK /\ LibraryFacts /\ ControlInv /\ [Next]_vars => ControlInv'
<1> SUFFICES ASSUME TypeOK, LibraryFacts, ControlInv, [Next]_vars PROVE ControlInv'
  OBVIOUS
<1>a. number_of_targets \in Nat
  BY DEF LibraryFacts
<1> USE DEF TypeOK, ControlInv, OneSource, alive_test, Methods, ICMP, TCP_SYN, TCP_ACK, ARP,
            CONSIDER_ALIVE, scanFrame, restrictionVars, hsrVars, consumerVars,
            batchVars, snifferVars, redisVars, consumerFrame
<1>1. CASE StartAliveDetection
  BY <1>1, SMTT(30) DEF StartAliveDetection
<1>2. CASE EnterScan
  <2>1. CASE pc' = "created"
    BY <1>2, <2>1, <1>a, NextPhases, ZenonT(40) DEF EnterScan
  <2>2. CASE pc' = FirstPhase
    <3>1. /\ pc' \in {"wait", "report", "icmp_batch"} \cup alive_test
          /\ pc' = "icmp_batch" => alive_test = {ICMP}
          /\ pc' = "wait" => alive_test # {CONSIDER_ALIVE}
      BY <2>2, <1>a, NextPhases, ZenonT(40)
    <3> QED
      BY <1>2, <2>2, <3>1, <1>a, NextPhases, ZenonT(40) DEF EnterScan
  <2> QED
    BY <1>2, <2>1, <2>2, SMTT(30) DEF EnterScan
<1>3. CASE CondWait
  BY <1>3 DEF CondWait
<1>4. CASE CondWake
  <2>1. alive_test # {CONSIDER_ALIVE} /\ AfterConsider = "wait"
    BY <1>4, <1>a, NextPhases DEF CondWake
  <2>2. /\ pc' \in {"wait", "icmp_batch"} \cup alive_test
        /\ pc' = "icmp_batch" => alive_test = {ICMP}
    BY <1>4, <2>1, <1>a, NextPhases, Zenon DEF CondWake
  <2> QED
    BY <1>4, <2>1, <2>2, <1>a, NextPhases, ZenonT(40) DEF CondWake
<1>5. CASE BatchCount
  BY <1>5, SMTT(30) DEF BatchCount
<1>6. CASE BatchReport
  BY <1>6, SMTT(30) DEF BatchReport
<1>7. CASE IcmpBatchEnd
  BY <1>7, <1>a, NextPhases, ZenonT(40) DEF IcmpBatchEnd
<1>8. CASE PingPhaseEnd
  <2>1. alive_test # {CONSIDER_ALIVE} /\ AfterConsider = "wait"
    BY <1>8, <1>a, NextPhases DEF PingPhaseEnd, PingPhases
  <2>2. pc' \in {"wait"} \cup alive_test /\ pc' # "icmp_batch"
    BY <1>8, <2>1, <1>a, NextPhases, ZenonT(40) DEF PingPhaseEnd, AfterPhase, PingPhases
  <2> QED
    BY <1>8, <2>1, <2>2, <1>a, NextPhases, ZenonT(40) DEF PingPhaseEnd, PingPhases
<1>9. CASE ConsiderEnd
  BY <1>9, <1>a, NextPhases, ZenonT(40) DEF ConsiderEnd
<1>10. CASE WaitSecond
  BY <1>10 DEF WaitSecond
<1>11. CASE BreakLoop
  BY <1>11, SMTT(30) DEF BreakLoop
<1>12. CASE GraceOver
  BY <1>12, SMTT(30) DEF GraceOver
<1>13. CASE Join
  BY <1>13, SMTT(30) DEF Join, Joined
<1>14. CASE Report
  BY <1>14, SMTT(30) DEF Report
<1>15. CASE put_finish_signal_on_queue
  BY <1>15, SMTT(30) DEF put_finish_signal_on_queue
<1>16. CASE alive_detection_free
  BY <1>16, SMTT(30) DEF alive_detection_free
<1>17. CASE RedisDown
  BY <1>17 DEF RedisDown
<1>18. CASE CancelAliveDetection
  BY <1>18, SMTT(30) DEF CancelAliveDetection, Threads
<1>19. CASE SnifferStart
  BY <1>19, SMTT(30) DEF SnifferStart
<1>20. CASE LoopEnd
  BY <1>20, SMTT(30) DEF LoopEnd
<1>21. CASE SnifferCanceled
  BY <1>21, SMTT(30) DEF SnifferCanceled, Threads
<1>22. CASE Consumer
  BY <1>22, ConsumerFrame, SMTT(30)
<1>28. CASE UNCHANGED vars
  BY <1>28, SMTT(30) DEF vars
<1>29. ASSUME NEW h \in Targets, IcmpBatchPing(h) PROVE ControlInv'
  BY <1>29, SMTT(30) DEF IcmpBatchPing
<1>30. ASSUME NEW h \in Targets, PingHost(h) PROVE ControlInv'
  BY <1>30, SMTT(30) DEF PingHost, PingPhases
<1>31. ASSUME NEW h \in Targets, ConsiderHost(h) PROVE ControlInv'
  BY <1>31, SMTT(30) DEF ConsiderHost, Enter, Threads
<1>32. ASSUME NEW h \in Targets, got_packet(h) PROVE ControlInv'
  BY <1>32, SMTT(30) DEF got_packet, Enter, Threads, IsNew
<1>33. ASSUME NEW t \in Threads, LoadCount(t) PROVE ControlInv'
  BY <1>33, SMTT(30) DEF LoadCount, Threads
<1>34. ASSUME NEW t \in Threads, StoreCount(t) PROVE ControlInv'
  BY <1>34, SMTT(30) DEF StoreCount, Threads
<1>35. ASSUME NEW t \in Threads, PutHost(t) PROVE ControlInv'
  BY <1>35, SMTT(30) DEF PutHost, Threads
<1>36. ASSUME NEW t \in Threads, CheckLimit(t) PROVE ControlInv'
  BY <1>36, SMTT(30) DEF CheckLimit, Threads
<1> HIDE DEF ControlInv
<1> QED
  BY <1>1, <1>2, <1>3, <1>4, <1>5, <1>6, <1>7, <1>8, <1>9, <1>10, <1>11,
     <1>12, <1>13, <1>14, <1>15, <1>16, <1>17, <1>18, <1>19, <1>20, <1>21,
     <1>22, <1>28, <1>29, <1>30, <1>31, <1>32, <1>33, <1>34, <1>35, <1>36,
     StepCases, SMTT(30) DEF ScanStep

\* What the preferences determine does not change during a scan.
LEMMA FixedByPrefs ==
  ASSUME TypeOK, number_of_targets \in Nat, [Next]_vars
  PROVE  /\ max_scan_hosts' = max_scan_hosts
         /\ max_scan_hosts \in Nat /\ max_scan_hosts > 0
         /\ alive_test' = alive_test
         /\ Finder' = Finder
         /\ OneSource' = OneSource
  BY PrefsFixed, MaxScanHostsPositive
     DEF TypeOK, max_scan_hosts, alive_test, Finder, OneSource

\* With one source, the other thread never calls handle_scan_restrictions.
LEMMA OtherThreadIdle ==
  ASSUME TypeOK, ControlInv, OneSource
  PROVE  /\ Finder \in Threads
         /\ \A t \in Threads : t # Finder => hsr[t] = "idle"
         /\ Finder = "scan" => sniffer = "none"
         /\ Finder = "sniffer" => pc # CONSIDER_ALIVE
  BY DEF TypeOK, ControlInv, OneSource, Finder, Threads, Methods,
     CONSIDER_ALIVE

\* Every step keeps the count and the limit flag in line with the hash table.
LEMMA CountStep ==
  TypeOK /\ LibraryFacts /\ ControlInv /\ OneSource /\ CountInv /\ [Next]_vars
    => CountInv'
<1> SUFFICES ASSUME TypeOK, LibraryFacts, ControlInv, OneSource, CountInv,
                    [Next]_vars
             PROVE  CountInv'
  OBVIOUS
<1>c. /\ number_of_targets \in Nat /\ number_of_alive \in Nat
      /\ UNCHANGED alivehosts => number_of_alive' = number_of_alive
      /\ \A h \in Targets \ alivehosts :
           alivehosts' = alivehosts \cup {h} => number_of_alive' = number_of_alive + 1
  BY DEF LibraryFacts
<1>a. /\ max_scan_hosts' = max_scan_hosts
      /\ max_scan_hosts \in Nat
      /\ Finder' = Finder
  BY <1>c, FixedByPrefs, ZenonT(40)
<1>b. /\ Finder \in Threads
      /\ \A t \in Threads : t # Finder => hsr[t] = "idle"
      /\ Finder = "scan" => sniffer = "none"
      /\ Finder = "sniffer" => pc # CONSIDER_ALIVE
  BY OtherThreadIdle
<1>d. /\ alive_hosts_count \in Nat
      /\ hsr \in [Threads -> {"idle", "load", "store", "push", "check"}]
      /\ hsr_tmp \in [Threads -> Nat]
      /\ alivehosts \subseteq Targets
  BY DEF TypeOK
<1> USE <1>a, <1>b, <1>c, <1>d
<1>1. ASSUME UNCHANGED <<alive_hosts_count, max_scan_hosts_reached, alivehosts,
                         hsr, hsr_tmp, canceled>>,
             sniffer = "canceled" => sniffer' = "canceled"
      PROVE  CountInv'
  BY <1>1 DEF CountInv
<1>2. CASE ScanStep
  <2>1. CASE EnterScan
    BY <1>1, <1>2, <2>1, ScanStepFrame DEF EnterScan, ControlInv
  <2>2. CASE ~EnterScan
    <3>1. sniffer' = sniffer
      <4> HIDE <1>a, <1>b, <1>c, <1>d
      <4> QED BY <1>2, <2>2, ZenonT(40)
         DEF ScanStep, StartAliveDetection, CondWait, CondWake, IcmpBatchPing,
             PingHost, BatchCount, BatchReport, IcmpBatchEnd, PingPhaseEnd,
             ConsiderEnd, WaitSecond, BreakLoop, GraceOver, Join, Report,
             put_finish_signal_on_queue, alive_detection_free, RedisDown,
             snifferVars
    <3> QED
      BY <1>1, <1>2, <3>1, ScanStepFrame, Zenon
  <2> QED
    BY <2>1, <2>2
<1>3. CASE CancelAliveDetection
  <2>1. /\ hsr' = [hsr EXCEPT !["scan"] = "idle"] /\ canceled'
        /\ UNCHANGED <<alive_hosts_count, max_scan_hosts_reached, alivehosts,
                       hsr_tmp, sniffer>>
        /\ hsr["scan"] # "idle" => hsr["scan"] \in {"push", "check"}
    BY <1>3
       DEF CancelAliveDetection, ControlInv, restrictionVars
  <2> QED
    BY <2>1 DEF CountInv, Threads
<1>4. CASE SnifferStart \/ LoopEnd
  BY <1>1, <1>4, SnifferFrame, SMTT(30)
<1>5. CASE SnifferCanceled
  BY <1>5 DEF SnifferCanceled, CountInv, Threads, restrictionVars
<1>6. CASE Consumer
  BY <1>1, <1>6, ConsumerFrame
<1>7. CASE UNCHANGED vars
  BY <1>1, <1>7 DEF vars, restrictionVars, hsrVars, snifferVars
<1>8. ASSUME NEW h \in Targets, ConsiderHost(h) PROVE CountInv'
  <2>1. h \notin alivehosts /\ ~canceled /\ Finder = "scan"
    BY <1>8, Zenon DEF ConsiderHost, ControlInv, CONSIDER_ALIVE, Threads
  <2>2. /\ number_of_alive' = number_of_alive + 1 /\ hsr["scan"] = "idle"
        /\ hsr' = [hsr EXCEPT !["scan"] = "load"]
        /\ UNCHANGED <<alive_hosts_count, max_scan_hosts_reached, sniffer, canceled>>
    BY <1>8, <2>1, Zenon DEF ConsiderHost, Enter, restrictionVars, snifferVars
  <2> QED
    BY <2>1, <2>2 DEF Threads, CountInv
<1>9. ASSUME NEW h \in Targets, got_packet(h) PROVE CountInv'
  <2>1. /\ h \notin alivehosts /\ sniffer = "loop" /\ Finder = "sniffer"
        /\ alivehosts' = alivehosts \cup {h}
    BY <1>9, Zenon DEF got_packet, IsNew, Threads
  <2>2. /\ number_of_alive' = number_of_alive + 1 /\ hsr["sniffer"] = "idle"
        /\ hsr' = [hsr EXCEPT !["sniffer"] = "load"]
        /\ UNCHANGED <<alive_hosts_count, max_scan_hosts_reached, sniffer, canceled>>
    BY <1>9, <2>1 DEF got_packet, Enter, restrictionVars, snifferVars
  <2> QED
    BY <2>1, <2>2 DEF Threads, CountInv
<1>10. ASSUME NEW t \in Threads,
              LoadCount(t) \/ StoreCount(t) \/ PutHost(t) \/ CheckLimit(t)
       PROVE  CountInv'
  <2>1. t = Finder /\ UNCHANGED <<alivehosts, sniffer, canceled>>
    BY <1>10, RestrictionFrame, Zenon DEF LoadCount, StoreCount, PutHost, CheckLimit
  <2>2. CASE LoadCount(t)
    BY <2>1, <2>2 DEF LoadCount, CountInv, restrictionVars
  <2>3. CASE StoreCount(t)
    BY <2>1, <2>3, SMTT(30) DEF StoreCount, CountInv
  <2>4. CASE PutHost(t)
    BY <2>1, <2>4, Zenon DEF PutHost, CountInv, restrictionVars
  <2>5. CASE CheckLimit(t)
    BY <2>1, <2>5, Zenon DEF CheckLimit, LimitHit, CountInv
  <2> QED
    BY <1>10, <2>2, <2>3, <2>4, <2>5, Zenon
<1> QED
  BY <1>2, <1>3, <1>4, <1>5, <1>6, <1>7, <1>8, <1>9, <1>10, StepCases

\* Every step keeps the announced hosts alive, distinct and within the limit.
LEMMA QueuedStep ==
  (TypeOK /\ LibraryFacts /\ ControlInv /\ OneSource /\ CountInv /\ QueuedInv
     /\ [Next]_vars)
    => QueuedInv'
<1> SUFFICES ASSUME TypeOK, LibraryFacts, ControlInv, OneSource, CountInv,
                    QueuedInv, [Next]_vars
             PROVE  QueuedInv'
  OBVIOUS
<1>a. /\ max_scan_hosts' = max_scan_hosts
      /\ max_scan_hosts \in Nat
      /\ Finder' = Finder
  BY FixedByPrefs, Zenon DEF LibraryFacts
<1>b. /\ Finder \in Threads
      /\ \A t \in Threads : t # Finder => hsr[t] = "idle"
  BY OtherThreadIdle
<1>d. /\ hsr \in [Threads -> {"idle", "load", "store", "push", "check"}]
      /\ hsr_host \in [Threads -> Targets \cup {NoHost}]
      /\ \A t \in Threads : hsr[t] # "idle" => hsr_host[t] \in Targets
      /\ pushed \in [Targets -> Nat]
      /\ alivehosts \subseteq Targets
  BY DEF TypeOK
<1>e. UNCHANGED pushed => Queued' = Queued /\ Cardinality(Queued') = Cardinality(Queued)
  BY SMTT(30) DEF Queued
<1> USE <1>a, <1>b, <1>d, <1>e
<1>1. ASSUME UNCHANGED <<alivehosts, pushed>>,
             \/ hsr'[Finder] = hsr[Finder] /\ hsr_host'[Finder] = hsr_host[Finder]
             \/ hsr'[Finder] = "idle"
      PROVE  QueuedInv'
  BY <1>1 DEF QueuedInv, AnnouncedOnce, LimitRespected
<1>2. CASE ScanStep
  BY <1>1, <1>2, ScanStepFrame
<1>3. CASE CancelAliveDetection
  BY <1>1, <1>3 DEF CancelAliveDetection, Threads
<1>4. CASE SnifferStart \/ LoopEnd
  BY <1>1, <1>4, SnifferFrame
<1>5. CASE SnifferCanceled
  BY <1>1, <1>5 DEF SnifferCanceled, Threads
<1>6. CASE Consumer
  BY <1>1, <1>6, ConsumerFrame, SMTT(30)
<1>7. CASE UNCHANGED vars
  BY <1>1, <1>7, ZenonT(40) DEF vars, hsrVars
<1>8. ASSUME NEW t \in Threads, NEW h \in Targets \ alivehosts,
             hsr[t] = "idle", Enter(t, h), t = Finder,
             alivehosts' = alivehosts \cup {h}, UNCHANGED pushed
      PROVE  QueuedInv'
  <2>1. pushed[h] = 0 /\ Queued' \subseteq alivehosts'
    BY <1>8 DEF Queued, QueuedInv
  <2>2. hsr'[Finder] = "load" /\ hsr_host'[Finder] = h
    BY <1>8 DEF Enter
  <2> QED
    BY <1>8, <2>1, <2>2 DEF QueuedInv, AnnouncedOnce, LimitRespected
<1>9. ASSUME NEW h \in Targets, ConsiderHost(h) PROVE QueuedInv'
  <2>1. h \notin alivehosts /\ Finder = "scan" /\ hsr["scan"] = "idle"
    BY <1>9, OtherThreadIdle, SMTT(30)
       DEF ConsiderHost, ControlInv, CONSIDER_ALIVE, Threads
  <2> QED
    BY <1>8, <1>9, <2>1, SMTT(30) DEF ConsiderHost, Threads
<1>10. ASSUME NEW h \in Targets, got_packet(h) PROVE QueuedInv'
  <2>1. h \notin alivehosts /\ Finder = "sniffer" /\ hsr["sniffer"] = "idle"
    BY <1>10, OtherThreadIdle DEF got_packet, IsNew, Threads
  <2> QED
    BY <1>8, <1>10, <2>1, SMTT(30) DEF got_packet, Threads
<1>11. ASSUME NEW t \in Threads, LoadCount(t) \/ StoreCount(t) PROVE QueuedInv'
  <2>1. /\ t = Finder /\ hsr[t] \in {"load", "store"}
        /\ hsr'[t] \in {"store", "push"} /\ hsr_host' = hsr_host
        /\ alivehosts' = alivehosts /\ pushed' = pushed
    BY <1>11 DEF LoadCount, StoreCount
  <2> QED
    BY <2>1, SMTT(30) DEF QueuedInv, AnnouncedOnce, LimitRespected
<1>12. ASSUME NEW t \in Threads, PutHost(t) PROVE QueuedInv'
  <2>1. /\ t = Finder
        /\ hsr_host[t] \in alivehosts
        /\ pushed[hsr_host[t]] = 0
        /\ hsr'[t] = "check"
        /\ UNCHANGED <<alivehosts, hsr_host>>
    BY <1>12 DEF PutHost, QueuedInv
  <2>2. CASE MayPut
    <3>1. pushed' = [pushed EXCEPT ![hsr_host[t]] = pushed[hsr_host[t]] + 1]
      BY <1>12, <2>2 DEF PutHost
    <3>2. Queued' = Queued \cup {hsr_host[t]}
      BY <2>1, <3>1 DEF Queued
    <3>3. Queued' \subseteq alivehosts'
      BY <2>1, <3>2, Zenon DEF QueuedInv
    <3>4. number_of_alive' = number_of_alive /\ number_of_alive \in Nat
      BY <2>1 DEF LibraryFacts
    <3>5. number_of_alive <= max_scan_hosts
      BY <2>2 DEF MayPut, CountInv
    <3>6. Cardinality(Queued') <= max_scan_hosts
      <4>1. Cardinality(Queued') \in Nat /\ Cardinality(Queued') <= number_of_alive'
        BY <3>3, Zenon DEF LibraryFacts
      <4> QED
        BY <3>4, <3>5, <4>1
    <3>7. \A h \in Targets : pushed'[h] <= 1
      BY <2>1, <3>1, SMTT(30) DEF QueuedInv, AnnouncedOnce
    <3> QED
      BY <2>1, <3>3, <3>6, <3>7, SMTT(30) DEF QueuedInv, AnnouncedOnce, LimitRespected
  <2>3. CASE ~MayPut
    <3>1. pushed' = pushed
      BY <1>12, <2>3, SMTT(30) DEF PutHost
    <3> QED
      BY <2>1, <3>1, Zenon DEF QueuedInv, AnnouncedOnce, LimitRespected
  <2> QED
    BY <2>2, <2>3, SMTT(30)
<1>13. ASSUME NEW t \in Threads, CheckLimit(t) PROVE QueuedInv'
  BY <1>1, <1>13, SMTT(30) DEF CheckLimit
<1> QED
  BY <1>2, <1>3, <1>4, <1>5, <1>6, <1>7, <1>9, <1>10, <1>11, <1>12, <1>13,
     StepCases

\* Every step keeps the sum of the dead hosts reported so far.
LEMMA AccountStep ==
  (TypeOK /\ LibraryFacts /\ ControlInv /\ OneSource /\ CountInv /\ AccountInv
     /\ [Next]_vars)
    => AccountInv'
<1> SUFFICES ASSUME TypeOK, LibraryFacts, ControlInv, OneSource, CountInv,
                    AccountInv, [Next]_vars
             PROVE  AccountInv'
  OBVIOUS
<1>c. /\ number_of_targets \in Nat /\ number_of_targets' = number_of_targets
      /\ number_of_alive \in Nat
      /\ UNCHANGED alivehosts => number_of_alive' = number_of_alive
      /\ \A h \in Targets \ alivehosts :
           alivehosts' = alivehosts \cup {h} => number_of_alive' = number_of_alive + 1
  BY DEF LibraryFacts, number_of_targets
<1>a. /\ max_scan_hosts' = max_scan_hosts
      /\ max_scan_hosts \in Nat
      /\ alive_test' = alive_test
  BY <1>c, FixedByPrefs, ZenonT(40)
<1>d. /\ remaining_batch \in Int /\ prev_alive \in Nat /\ curr_alive \in Nat
      /\ deadhosts \in Int
      /\ limit_reached_handled \in BOOLEAN /\ max_scan_hosts_reached \in BOOLEAN
      /\ alivehosts \subseteq Targets
      /\ pc \in ScanStates
  BY DEF TypeOK
<1>e. /\ max_scan_hosts_reached => number_of_alive >= max_scan_hosts
      /\ ~max_scan_hosts_reached => number_of_alive <= max_scan_hosts
  BY SMTT(30) DEF CountInv
<1> USE <1>a, <1>c, <1>d
<1> USE DEF AccountInv, DeadHostsAccounted, ScanOver, Scannable,
            scanFrame, restrictionVars, batchVars, redisVars
<1>1. CASE StartAliveDetection
  <2>1. pc' \in {"scan", "finish_error"}
    BY <1>1, Zenon DEF StartAliveDetection
  <2>2. /\ pc = "start" /\ deadhosts' = deadhosts /\ prev_alive' = prev_alive
        /\ limit_reached_handled' = limit_reached_handled
    BY <1>1, Zenon DEF StartAliveDetection
  <2>3. deadhosts = 0 /\ prev_alive = 0 /\ ~limit_reached_handled
    BY <2>2, Zenon
  <2>4. ~limit_reached_handled'
    BY <2>2, <2>3, Zenon
  <2> QED
    BY <2>1, <2>2, <2>3, <2>4
<1>2. CASE EnterScan
  <2>1. pc' \in {"created", "icmp_batch", "report", "wait"} \cup Methods
    BY <1>2, PhaseTypes, Zenon DEF EnterScan, Methods
  <2>2. /\ pc = "scan" /\ deadhosts' = deadhosts /\ prev_alive' = prev_alive
        /\ limit_reached_handled' = limit_reached_handled
        /\ UNCHANGED alivehosts
        /\ remaining_batch' = IF alive_test = {ICMP} THEN number_of_targets ELSE 0
    BY <1>2, Zenon DEF EnterScan
  <2>3. deadhosts = 0 /\ prev_alive = 0 /\ ~limit_reached_handled
    BY <2>2, Zenon
  <2>4. ~limit_reached_handled'
    BY <2>2, <2>3, Zenon
  <2> QED
    BY <2>1, <2>2, <2>3, <2>4, SMTT(30)
       DEF Methods, ICMP, TCP_SYN, TCP_ACK, ARP, CONSIDER_ALIVE
<1>3. CASE CondWait
  BY <1>3, Zenon DEF CondWait
<1>4. CASE CondWake
  BY <1>4, PhaseTypes, ZenonT(40) DEF CondWake, ICMP, TCP_SYN, TCP_ACK, ARP, CONSIDER_ALIVE
<1>5. CASE BatchCount
  BY <1>5, SMTT(30) DEF BatchCount
<1>6. CASE BatchReport
  <2> HIDE DEF AccountInv, DeadHostsAccounted, ScanOver, Scannable
  <2>1. /\ pc = "batch_report" /\ pc' = "icmp_batch"
        /\ remaining_batch' = remaining_batch - Batch
        /\ prev_alive' = curr_alive
        /\ alivehosts' = alivehosts
    BY <1>6, Zenon DEF BatchReport
  <2>2. /\ limit_reached_handled' = (limit_reached_handled \/ max_scan_hosts_reached)
        /\ max_scan_hosts_reached' = max_scan_hosts_reached
    BY <1>6, Zenon DEF BatchReport
  <2>3. alive_test = {ICMP} /\ number_of_alive' = number_of_alive /\ Batch \in Nat
    BY <2>1, BatchAssumption, Zenon DEF ControlInv
  <2>4. /\ ~limit_reached_handled =>
               /\ deadhosts = number_of_targets - remaining_batch - prev_alive
               /\ prev_alive <= number_of_alive
        /\ limit_reached_handled =>
               /\ max_scan_hosts_reached
               /\ deadhosts = number_of_targets - remaining_batch - max_scan_hosts
        /\ curr_alive <= number_of_alive
    BY <2>1, <2>3, Zenon DEF AccountInv
  <2>5. deadhosts' = deadhosts + DeadOf(Batch, curr_alive)
    BY <1>6, Zenon DEF BatchReport
  <2>6. /\ ~limit_reached_handled' =>
               /\ deadhosts' = number_of_targets - remaining_batch' - prev_alive'
               /\ prev_alive' <= number_of_alive
        /\ limit_reached_handled' =>
               /\ max_scan_hosts_reached
               /\ deadhosts' = number_of_targets - remaining_batch' - max_scan_hosts
    <3>1. CASE ~max_scan_hosts_reached
      <4>1. ~limit_reached_handled /\ ~limit_reached_handled'
        BY <2>2, <2>4, <3>1, Zenon
      <4>2. DeadOf(Batch, curr_alive) = Batch - (curr_alive - prev_alive)
        BY <3>1, Zenon DEF DeadOf
      <4> QED
        BY <2>1, <2>3, <2>4, <2>5, <4>1, <4>2
    <3>2. CASE max_scan_hosts_reached /\ ~limit_reached_handled
      <4>1. limit_reached_handled'
        BY <2>2, <3>2, Zenon
      <4>2. DeadOf(Batch, curr_alive) = Batch - (max_scan_hosts - prev_alive)
        BY <3>2 DEF DeadOf
      <4> QED
        BY <2>1, <2>3, <2>4, <2>5, <3>2, <4>1, <4>2
    <3>3. CASE limit_reached_handled
      <4>1. max_scan_hosts_reached /\ limit_reached_handled'
        BY <2>2, <2>4, <3>3, Zenon
      <4>2. DeadOf(Batch, curr_alive) = Batch
        BY <3>3, <4>1, SMTT(30) DEF DeadOf
      <4> QED
        BY <2>1, <2>3, <2>4, <2>5, <3>3, <4>1, <4>2
    <3> QED
      BY <3>1, <3>2, <3>3, Zenon
  <2> QED
    BY <2>1, <2>2, <2>3, <2>6, Zenon DEF AccountInv, DeadHostsAccounted, ScanOver
<1>7. CASE IcmpBatchEnd
  BY <1>7, PhaseTypes
     DEF IcmpBatchEnd, ControlInv, ICMP, TCP_SYN, TCP_ACK, ARP, CONSIDER_ALIVE
<1>8. CASE PingPhaseEnd
  <2>1. alive_test # {ICMP} /\ pc \notin {"finish", "free", "exit", "crashed"}
    BY <1>8, Zenon
       DEF PingPhaseEnd, ControlInv, PingPhases, Methods, ICMP, TCP_SYN,
           TCP_ACK, ARP, CONSIDER_ALIVE
  <2>2. pc' \in {"report", "wait"} \cup Methods
    BY <1>8, PhaseTypes, SMTT(30)
       DEF PingPhaseEnd, AfterPhase, PingPhases, Methods, ICMP, TCP_SYN,
           TCP_ACK, ARP, CONSIDER_ALIVE
  <2>3. deadhosts' = 0
    BY <1>8, <2>1, Zenon DEF PingPhaseEnd
  <2> QED
    BY <2>1, <2>2, <2>3, Zenon
       DEF Methods, ICMP, TCP_SYN, TCP_ACK, ARP, CONSIDER_ALIVE
<1>9. CASE ConsiderEnd
  BY <1>9, PhaseTypes, Zenon
     DEF ConsiderEnd, ControlInv, Methods, ICMP, TCP_SYN, TCP_ACK, ARP,
         CONSIDER_ALIVE
<1>10. CASE WaitSecond
  BY <1>10, Zenon DEF WaitSecond
<1>11. CASE BreakLoop
  BY <1>11, Zenon DEF BreakLoop
<1>12. CASE GraceOver
  BY <1>12, Zenon DEF GraceOver
<1>13. CASE Join
  BY <1>13, Zenon DEF Join
<1>14. CASE Report
  <2> HIDE DEF AccountInv, DeadHostsAccounted, ScanOver, Scannable
  <2>1. /\ pc = "report" /\ pc' = "finish"
        /\ alivehosts' = alivehosts
        /\ deadhosts' = deadhosts + LastDead
    BY <1>14, Zenon DEF Report
  <2>2. number_of_alive' = number_of_alive
    BY <2>1, Zenon
  <2>3. Scannable' = Scannable
    BY <2>2, Zenon DEF Scannable
  <2>4. Scannable = IF max_scan_hosts_reached THEN max_scan_hosts ELSE number_of_alive
    BY <1>e DEF Scannable
  <2>5. deadhosts + LastDead + Scannable = number_of_targets
    <3>1. CASE alive_test = {ICMP}
      <4>1. LastDead = DeadOf(remaining_batch, number_of_alive)
        BY <3>1, Zenon DEF LastDead
      <4>2. /\ ~limit_reached_handled =>
                  deadhosts = number_of_targets - remaining_batch - prev_alive
            /\ limit_reached_handled =>
                  /\ max_scan_hosts_reached
                  /\ deadhosts = number_of_targets - remaining_batch - max_scan_hosts
        BY <2>1, <3>1, Zenon DEF AccountInv
      <4> QED
        BY <2>4, <4>1, <4>2 DEF DeadOf
    <3>2. CASE alive_test # {ICMP}
      <4>1. deadhosts = 0
        BY <2>1, <3>2, Zenon DEF AccountInv
      <4>2. LastDead = number_of_targets - Scannable
        BY <2>4, <3>2, Zenon DEF LastDead
      <4>3. Scannable \in Nat
        BY Zenon DEF Scannable
      <4> QED
        BY <4>1, <4>2, <4>3
    <3> QED
      BY <3>1, <3>2, Zenon
  <2> QED
    BY <2>1, <2>3, <2>5, Zenon DEF AccountInv, DeadHostsAccounted
<1>15. CASE put_finish_signal_on_queue
  BY <1>15, Zenon DEF put_finish_signal_on_queue
<1>16. CASE alive_detection_free
  BY <1>16, Zenon DEF alive_detection_free
<1>17. CASE RedisDown
  BY <1>17, Zenon DEF RedisDown
<1>18. ASSUME NEW h \in Targets, IcmpBatchPing(h) PROVE AccountInv'
  BY <1>18, Zenon DEF IcmpBatchPing, ControlInv
<1>19. ASSUME NEW h \in Targets, PingHost(h) PROVE AccountInv'
  BY <1>19, Zenon
     DEF PingHost, PingPhases, ICMP, TCP_SYN, TCP_ACK, ARP, CONSIDER_ALIVE
<1>20. CASE CancelAliveDetection
  <2>1. /\ canceled' /\ pc' \in {"exit", "free", "finish"}
        /\ UNCHANGED <<alivehosts, deadhosts, prev_alive, curr_alive,
                       remaining_batch, limit_reached_handled,
                       max_scan_hosts_reached>>
    BY <1>20, Zenon DEF CancelAliveDetection
  <2> QED
    BY <2>1, Zenon
<1>21. ASSUME NEW h \in Targets, ConsiderHost(h) PROVE AccountInv'
  <2>1. h \notin alivehosts /\ alivehosts' = alivehosts \cup {h} /\ alive_test # {ICMP}
    BY <1>21, Zenon
       DEF ConsiderHost, ControlInv, Methods, ICMP, TCP_SYN, TCP_ACK, ARP,
           CONSIDER_ALIVE
  <2>2. number_of_alive' = number_of_alive + 1
    BY <2>1, ZenonT(40)
  <2> QED
    BY <1>21, <2>1, <2>2, Zenon DEF ConsiderHost, CONSIDER_ALIVE
<1>22. ASSUME NEW h \in Targets, got_packet(h) PROVE AccountInv'
  <2> HIDE DEF AccountInv, DeadHostsAccounted, Scannable
  <2>1. number_of_alive' = number_of_alive + 1
    BY <1>22, Zenon DEF got_packet, IsNew
  <2>2. ~ScanOver
    BY <1>22, Zenon DEF got_packet, ControlInv
  <2>3. /\ pc' = pc /\ deadhosts' = deadhosts /\ canceled' = canceled
        /\ prev_alive' = prev_alive /\ curr_alive' = curr_alive
        /\ remaining_batch' = remaining_batch
    BY <1>22, Zenon DEF got_packet
  <2>4. /\ limit_reached_handled' = limit_reached_handled
        /\ max_scan_hosts_reached' = max_scan_hosts_reached
    BY <1>22, Zenon DEF got_packet
  <2>5. ~ScanOver'
    BY <2>2, <2>3, Zenon
  <2> HIDE DEF ScanOver
  <2> QED
    BY <2>1, <2>3, <2>4, <2>5, SMTT(30) DEF AccountInv, DeadHostsAccounted
<1>23. ASSUME UNCHANGED <<alivehosts, pc, deadhosts, prev_alive, curr_alive,
                          remaining_batch, limit_reached_handled, canceled>>,
              max_scan_hosts_reached => max_scan_hosts_reached'
       PROVE  AccountInv'
  BY <1>23, Zenon
<1> HIDE DEF AccountInv
<1>24. CASE SnifferStart \/ LoopEnd
  BY <1>23, <1>24, SnifferFrame, Zenon
<1>25. CASE SnifferCanceled
  BY <1>23, <1>25, Zenon DEF SnifferCanceled
<1>26. CASE Consumer
  BY <1>23, <1>26, ConsumerFrame, Zenon
<1>27. CASE UNCHANGED vars
  BY <1>23, <1>27, Zenon DEF vars
<1>28. ASSUME NEW t \in Threads,
              LoadCount(t) \/ StoreCount(t) \/ PutHost(t) \/ CheckLimit(t)
       PROVE  AccountInv'
  <2>1. max_scan_hosts_reached => max_scan_hosts_reached'
    BY <1>28, Zenon DEF LoadCount, StoreCount, PutHost, CheckLimit
  <2> QED
    BY <1>23, <1>28, <2>1, RestrictionFrame, Zenon
<1> QED
  BY <1>1, <1>2, <1>3, <1>4, <1>5, <1>6, <1>7, <1>8, <1>9, <1>10, <1>11,
     <1>12, <1>13, <1>14, <1>15, <1>16, <1>17, <1>18, <1>19, <1>20, <1>21,
     <1>22, <1>24, <1>25, <1>26, <1>27, <1>28, StepCases, SMTT(30) DEF ScanStep

--------------------------------------------------------------------------------
(* Every target is pinged.                                                 *)

\* Method m has pinged the host, or an answer of it has been seen already.
Reached(m, h) == <<m, h>> \in pinged \/ h \in alivehosts

\* The states in which the pings of a method are over, unless the scan was
\* cancelled.
AfterPings == {CONSIDER_ALIVE, "wait", "stop", "grace", "join", "report", "finish", "free"}
Over(m) == CASE m = ICMP -> AfterPings \cup {TCP_SYN, TCP_ACK, ARP}
             [] m = TCP_SYN -> AfterPings \cup {TCP_ACK, ARP}
             [] m = TCP_ACK -> AfterPings \cup {ARP}
             [] m = ARP -> AfterPings

\* The states in which they go on.
During(m) == {m} \cup (IF m = ICMP THEN {"icmp_batch", "batch_count", "batch_report"}
                       ELSE {})

\* Unless the scan was cancelled, the methods that are over have reached every
\* target, and the one that goes on those it no longer has to do.
PingInv ==
  ~canceled => \A m \in alive_test \cap PingPhases :
    /\ pc \in Over(m) => \A h \in Targets : Reached(m, h)
    /\ pc \in During(m) => \A h \in Targets \ todo : Reached(m, h)

\* Until the first phase is entered there is everything to do.
TodoInv == pc \in {"created", "cond_wait"} => todo = Targets

--------------------------------------------------------------------------------
(* Every host that was found is announced.                                 *)

\* The finder is between the insertion of a host and its announcement.
InHand == hsr[Finder] \in {"load", "store", "push"}

\* How many hosts are announced: all alive hosts but the one in hand, or one
\* that a cancelled sniffer had in hand, until the limit is reached.
CompleteInv ==
  ~canceled =>
    IF max_scan_hosts_reached THEN Cardinality(Queued) = max_scan_hosts
    ELSE number_of_alive - Cardinality(Queued)
           \in (IF InHand THEN {1} ELSE IF sniffer = "canceled" THEN {0, 1} ELSE {0})

--------------------------------------------------------------------------------
(* The queue.                                                              *)

\* The finish signal is nowhere before it is put on the queue, and then the scan
\* is over.
SignalInv ==
  /\ ~fin_put => /\ ~FinOnQueue /\ ~fin_seen /\ ~finished
                 /\ consumer \in {"idle", "put_back", "look"}
  /\ fin_put => pc \in {"free", "exit"}
  /\ ~finished => errmsg = -1
  /\ finished => consumer = "idle"

\* The error message says how many alive hosts are above the limit.
MessageInv ==
  finished /\ ~canceled =>
    errmsg = IF number_of_alive > max_scan_hosts
             THEN number_of_alive - max_scan_hosts ELSE -1

\* The entries of the queue, and that none is there twice.
On(x) == \E i \in 1..Len(queue) : queue[i] = x
Distinct == \A i, j \in 1..Len(queue) : queue[i] = queue[j] => i = j

\* A host that was announced and is not scanned is on the queue, once, or in the
\* hands of the consumer.  Behind the finish signal there are hosts only while
\* the consumer is about to move it.
QueueInv ==
  /\ Distinct
  /\ scanned \subseteq Queued
  /\ \A h \in Targets : On(h) => h \in Queued \ scanned
  /\ \A h \in Targets : consumer = "put_back" /\ held = h
                         => h \in Queued \ scanned /\ ~On(h)
  /\ \A h \in Queued \ scanned : On(h) \/ (consumer = "put_back" /\ held = h)
  /\ fin_put /\ ~finished =>
       /\ consumer = "idle" => Len(queue) > 0 /\ queue[Len(queue)] = FIN
       /\ consumer # "append" => On(FIN)
       /\ consumer = "append" => ~On(FIN)
  /\ consumer = "idle" => \A i \in 1..Len(queue) : queue[i] = FIN => i = Len(queue)
  /\ finished => queue = <<>>


-----------------------------------------------------------------------------
\* Two sequences one after the other.
LEMMA Concatenated ==
  ASSUME NEW S, NEW s \in Seq(S), NEW t \in Seq(S)
  PROVE  /\ s \o t \in Seq(S) /\ Len(s \o t) = Len(s) + Len(t)
         /\ \A j \in 1..Len(s) + Len(t) :
              (s \o t)[j] = IF j <= Len(s) THEN s[j] ELSE t[j - Len(s)]
BY SMTT(30)

\* A sequence without its element i.
LEMMA Without ==
  ASSUME NEW S, NEW q \in Seq(S), NEW i \in 1..Len(q)
  PROVE  LET r == SubSeq(q, 1, i - 1) \o SubSeq(q, i + 1, Len(q)) IN
         /\ r \in Seq(S) /\ Len(r) = Len(q) - 1
         /\ \A j \in 1..Len(q) - 1 : r[j] = IF j < i THEN q[j] ELSE q[j + 1]
<1> DEFINE s == SubSeq(q, 1, i - 1)
           t == SubSeq(q, i + 1, Len(q))
<1>1. s \in Seq(S) /\ Len(s) = i - 1 /\ \A j \in 1..(i - 1) : s[j] = q[j]
  OBVIOUS
<1>2. /\ t \in Seq(S) /\ Len(t) = Len(q) - i
      /\ \A j \in 1..(Len(q) - i) : t[j] = q[j + i]
  OBVIOUS
<1> HIDE DEF s, t
<1>3. /\ s \o t \in Seq(S) /\ Len(s \o t) = Len(q) - 1
      /\ \A j \in 1..Len(q) - 1 :
           (s \o t)[j] = IF j <= Len(s) THEN s[j] ELSE t[j - Len(s)]
  <2>1. Len(s) + Len(t) = Len(q) - 1
    BY <1>1, <1>2
  <2>2. /\ s \o t \in Seq(S) /\ Len(s \o t) = Len(s) + Len(t)
        /\ \A j \in 1..Len(s) + Len(t) :
             (s \o t)[j] = IF j <= Len(s) THEN s[j] ELSE t[j - Len(s)]
    <3>1. s \in Seq(S) /\ t \in Seq(S)
      BY <1>1, <1>2, Zenon
    <3> HIDE <1>1, <1>2, <2>1
    <3> QED BY <3>1, Concatenated, Zenon
  <2> QED BY <2>1, <2>2, Zenon
<1>4. ASSUME NEW j \in 1..Len(q) - 1, j < i PROVE (s \o t)[j] = q[j]
  BY <1>1, <1>3, <1>4
<1>5. ASSUME NEW j \in 1..Len(q) - 1, ~(j < i) PROVE (s \o t)[j] = q[j + 1]
  <2>1. j - Len(s) \in 1..(Len(q) - i) /\ (j - Len(s)) + i = j + 1 /\ ~(j <= Len(s))
    BY <1>1, <1>5
  <2> QED BY <1>2, <1>3, <2>1, Zenon
<1> QED BY <1>3, <1>4, <1>5, Zenon DEF s, t

\* Pings are not taken back, and no host is taken for dead again.
LEMMA PingMonotone ==
  ASSUME [Next]_vars
  PROVE  pinged \subseteq pinged' /\ alivehosts \subseteq alivehosts'
<1> USE DEF scanFrame
<1>1. CASE ScanStep
  <2>1. CASE \E h \in Targets : IcmpBatchPing(h) \/ PingHost(h)
    BY <1>1, <2>1, ScanStepFrame DEF IcmpBatchPing, PingHost, send_icmp, send_tcp, send_arp
  <2>2. CASE ~\E h \in Targets : IcmpBatchPing(h) \/ PingHost(h)
    <3>1. pinged' = pinged
      BY <1>1, <2>2, Zenon
         DEF ScanStep, StartAliveDetection, EnterScan, CondWait, CondWake,
             BatchCount, BatchReport, IcmpBatchEnd, PingPhaseEnd, ConsiderEnd,
             WaitSecond, BreakLoop, GraceOver, Join, Report,
             put_finish_signal_on_queue, alive_detection_free, RedisDown
    <3> QED BY <1>1, <3>1, ScanStepFrame, Zenon
  <2> QED BY <2>1, <2>2, SMTT(30)
<1>2. CASE \E h \in Targets : ConsiderHost(h) \/ got_packet(h)
  BY <1>2, Zenon DEF ConsiderHost, got_packet
<1>3. CASE \E t \in Threads : LoadCount(t) \/ StoreCount(t) \/ PutHost(t) \/ CheckLimit(t)
  BY <1>3, Zenon DEF LoadCount, StoreCount, PutHost, CheckLimit
<1>4. CASE CancelAliveDetection \/ SnifferStart \/ LoopEnd \/ SnifferCanceled
  BY <1>4, Zenon DEF CancelAliveDetection, SnifferStart, LoopEnd, SnifferCanceled
<1>5. CASE Consumer
  BY <1>5, ConsumerFrame, Zenon
<1>6. CASE UNCHANGED vars
  BY <1>6, Zenon DEF vars
<1> QED BY <1>1, <1>2, <1>3, <1>4, <1>5, <1>6, StepCases

\* A selected method is not passed over.
LEMMA PhaseOrder ==
  ASSUME TypeOK, number_of_targets \in Nat, NEW m \in alive_test \cap PingPhases
  PROVE  /\ FirstPhase \notin Over(m)
         /\ m # ICMP => AfterIcmp \notin Over(m)
         /\ m \notin {ICMP, TCP_SYN} => AfterSyn \notin Over(m)
         /\ m \notin {ICMP, TCP_SYN, TCP_ACK} => AfterAck \notin Over(m)
<1>1. ~ConsiderAtOnce
  BY MaxScanHostsPositive DEF TypeOK, ConsiderAtOnce
<1>2. m \in alive_test /\ m \in PingPhases
  BY Zenon
<1> USE DEF Over, AfterPings, AfterIcmp, AfterSyn, AfterAck, PingPhases,
            ICMP, TCP_SYN, TCP_ACK, ARP, CONSIDER_ALIVE
<1>3. m = ARP => AfterAck = ARP
  BY <1>2, Zenon
<1>4. m \in {TCP_ACK, ARP} => AfterSyn \in {TCP_ACK, m}
  BY <1>2, <1>3, Zenon
<1>5. m # ICMP => AfterIcmp \in {TCP_SYN, m} \/ (m = ARP /\ AfterIcmp = TCP_ACK)
  BY <1>2, <1>4, Zenon
<1>6. CASE m = ICMP
  BY <1>1, <1>2, <1>6, Zenon DEF FirstPhase
<1>7. CASE m # ICMP
  <2>1. FirstPhase \in {ICMP, AfterIcmp}
    BY <1>1, <1>2, <1>7, Zenon DEF FirstPhase
  <2> HIDE DEF AfterIcmp, AfterSyn, AfterAck
  <2>2. AfterIcmp \notin Over(m) /\ ICMP \notin Over(m)
    BY <1>2, <1>5, <1>7, Zenon
  <2>3. m \notin {ICMP, TCP_SYN} => AfterSyn \notin Over(m)
    BY <1>2, <1>4, Zenon
  <2>4. m \notin {ICMP, TCP_SYN, TCP_ACK} => AfterAck \notin Over(m)
    BY <1>2, <1>3, Zenon
  <2> QED BY <2>1, <2>2, <2>3, <2>4
<1> QED BY <1>6, <1>7, Zenon

\* What is over stays over, and becomes over when nothing is left to do.
LEMMA PingFrame ==
  ASSUME PingInv, prefs' = prefs, ~canceled' => ~canceled,
         pinged \subseteq pinged', alivehosts \subseteq alivehosts',
         ~canceled => \A m \in alive_test \cap PingPhases :
           /\ pc' \in Over(m) => pc \in Over(m) \/ (pc \in During(m) /\ todo = {})
           /\ pc' \in During(m) => todo' = Targets \/ (pc \in During(m) /\ todo \subseteq todo')
  PROVE  PingInv'
<1>1. \A m, h : Reached(m, h) => Reached(m, h)'
  BY DEF Reached
<1>2. alive_test' = alive_test
  BY DEF alive_test
<1>3. ASSUME ~canceled', NEW m \in alive_test \cap PingPhases
      PROVE  /\ pc' \in Over(m) => \A h \in Targets : Reached(m, h)'
             /\ pc' \in During(m) => \A h \in Targets \ todo' : Reached(m, h)'
  BY <1>1, <1>3, Zenon DEF PingInv
<1> QED BY <1>2, <1>3, Zenon DEF PingInv, Over, During, AfterPings, Reached

\* One host less to do: it is pinged now, or known to be alive.
LEMMA PingOne ==
  ASSUME PingInv, prefs' = prefs, canceled' = canceled, alivehosts' = alivehosts,
         pinged \subseteq pinged', NEW m \in PingPhases, NEW h \in Targets,
         pc \in During(m), pc' \in During(m), todo' = todo \ {h}, Reached(m, h)'
  PROVE  PingInv'
<1>1. \A n, g : Reached(n, g) => Reached(n, g)'
  BY DEF Reached
<1>2. alive_test' = alive_test
  BY DEF alive_test
<1>3. \A n \in PingPhases : /\ pc' \in Over(n) => pc \in Over(n)
                            /\ pc' \in During(n) => n = m
  BY DEF Over, During, AfterPings, PingPhases, ICMP, TCP_SYN, TCP_ACK, ARP, CONSIDER_ALIVE
<1>4. ASSUME ~canceled, NEW n \in alive_test \cap PingPhases
      PROVE  /\ pc' \in Over(n) => \A g \in Targets : Reached(n, g)'
             /\ pc' \in During(n) => \A g \in Targets \ todo' : Reached(n, g)'
  <2>1. pc' \in Over(n) => \A g \in Targets : Reached(n, g)'
    BY <1>1, <1>3, <1>4 DEF PingInv
  <2>2. ASSUME pc' \in During(n), NEW g \in Targets \ todo' PROVE Reached(n, g)'
    <3>1. n = m
      BY <1>3, <2>2, Zenon
    <3>2. CASE g = h
      BY <3>1, <3>2, Zenon
    <3>3. CASE g # h
      BY <1>1, <1>4, <2>2, <3>1, <3>3, Zenon DEF PingInv
    <3> QED BY <3>2, <3>3, Zenon
  <2> QED BY <2>1, <2>2
<1> QED BY <1>2, <1>4, Zenon DEF PingInv, Over, During, AfterPings, Reached

\* Every step of scan() keeps the invariant of the pings.
LEMMA PingScanStep ==
  ASSUME TypeOK, number_of_targets \in Nat, ControlInv, PingInv, TodoInv,
         [Next]_vars, ScanStep
  PROVE  PingInv' /\ TodoInv'
<1>f. /\ prefs' = prefs /\ canceled' = canceled /\ alivehosts' = alivehosts
      /\ pinged \subseteq pinged'
  BY ScanStepFrame, PingMonotone, Zenon
<1>o. ASSUME NEW m \in alive_test \cap PingPhases
      PROVE  /\ FirstPhase \notin Over(m)
             /\ m # ICMP => AfterIcmp \notin Over(m)
             /\ m \notin {ICMP, TCP_SYN} => AfterSyn \notin Over(m)
             /\ m \notin {ICMP, TCP_SYN, TCP_ACK} => AfterAck \notin Over(m)
  BY PhaseOrder, Zenon
<1>t. /\ AfterConsider \in {"report", "wait"}
      /\ AfterArp \in {CONSIDER_ALIVE, "report", "wait"}
      /\ AfterAck \in {ARP, CONSIDER_ALIVE, "report", "wait"}
      /\ AfterSyn \in {TCP_ACK, ARP, CONSIDER_ALIVE, "report", "wait"}
      /\ AfterIcmp \in {TCP_SYN, TCP_ACK, ARP, CONSIDER_ALIVE, "report", "wait"}
      /\ FirstPhase \in {"icmp_batch", ICMP, TCP_SYN, TCP_ACK, ARP, CONSIDER_ALIVE,
                         "report", "wait"}
  BY PhaseTypes, Zenon
<1> USE DEF TodoInv, During, ICMP, TCP_SYN, TCP_ACK, ARP, CONSIDER_ALIVE, PingPhases
<1>1. CASE pc' \notin {"created", "cond_wait"} /\ pc' = pc /\ todo' = todo
  BY <1>1, <1>f, PingFrame, Zenon
<1>2. CASE StartAliveDetection
  BY <1>2, <1>f, PingFrame DEF StartAliveDetection, Over, AfterPings
<1>3. CASE EnterScan
  <2>1. pc = "scan" /\ todo' = Targets /\ pc' \in {FirstPhase, "created"}
    BY <1>3, Zenon DEF EnterScan
  <2>2. \A m \in alive_test \cap PingPhases : pc' \notin Over(m)
    BY <1>o, <2>1 DEF Over, AfterPings
  <2> QED BY <1>f, <2>1, <2>2, PingFrame, Zenon
<1>4. CASE CondWait
  <2>1. pc = "created" /\ pc' = "cond_wait" /\ todo' = todo
    BY <1>4, Zenon DEF CondWait
  <2> QED BY <1>f, <2>1, PingFrame, Zenon DEF Over, AfterPings
<1>5. CASE CondWake
  <2>1. pc = "cond_wait" /\ pc' = FirstPhase /\ todo' = todo /\ todo = Targets
    BY <1>5, Zenon DEF CondWake
  <2>2. \A m \in alive_test \cap PingPhases : pc' \notin Over(m)
    BY <1>o, <2>1, Zenon
  <2> QED BY <1>f, <1>t, <2>1, <2>2, PingFrame, Zenon
<1>6. CASE BatchCount \/ BatchReport
  <2>1. /\ pc \in {"batch_count", "batch_report"} /\ todo' = todo
        /\ pc' \in {"batch_report", "icmp_batch"}
    BY <1>6, Zenon DEF BatchCount, BatchReport
  <2> QED BY <1>f, <2>1, PingFrame, Zenon DEF Over, AfterPings
<1>7. CASE IcmpBatchEnd
  <2>1. pc = "icmp_batch" /\ todo = {} /\ pc' = AfterIcmp /\ alive_test = {ICMP}
    BY <1>7, Zenon DEF IcmpBatchEnd, ControlInv
  <2>2. pc' \in {"report", "wait"}
    BY <2>1, <1>t, Zenon DEF AfterIcmp, AfterSyn, AfterAck, AfterArp
  <2> QED BY <1>f, <2>1, <2>2, PingFrame, Zenon
<1>8. CASE PingPhaseEnd
  <2>1. pc \in PingPhases /\ todo = {} /\ todo' = Targets /\ pc' = AfterPhase(pc)
    BY <1>8, Zenon DEF PingPhaseEnd
  <2>2. ASSUME NEW m \in alive_test \cap PingPhases, pc' \in Over(m)
        PROVE  pc \in Over(m) \/ (pc \in During(m) /\ todo = {})
    <3>1. CASE pc = ICMP
      BY <1>o, <2>1, <2>2, <3>1, Zenon DEF AfterPhase
    <3>2. CASE pc = TCP_SYN
      BY <1>o, <2>1, <2>2, <3>2, Zenon DEF AfterPhase, Over
    <3>3. CASE pc = TCP_ACK
      BY <1>o, <2>1, <2>2, <3>3, Zenon DEF AfterPhase, Over
    <3>4. CASE pc = ARP
      BY <2>1, <3>4, Zenon DEF Over
    <3> QED BY <2>1, <3>1, <3>2, <3>3, <3>4, Zenon
  <2>3. pc' \notin {"created", "cond_wait"}
    BY <1>t, <2>1, SMTT(30) DEF AfterPhase
  <2> QED BY <1>f, <2>1, <2>2, <2>3, PingFrame, Zenon
<1>9. CASE ConsiderEnd \/ WaitSecond \/ BreakLoop \/ GraceOver \/ Join \/ Report
  <2>1. /\ pc \in {CONSIDER_ALIVE, "wait", "stop", "grace", "join", "report"}
        /\ todo' = todo
        /\ pc' \in {"report", "wait", "stop", "crashed", "grace", "join", "finish"}
    BY <1>9, <1>t, Zenon DEF ConsiderEnd, WaitSecond, BreakLoop, GraceOver, Join, Report
  <2>2. \A m \in PingPhases : pc \in Over(m)
    BY <2>1 DEF Over, AfterPings
  <2> QED BY <1>f, <2>1, <2>2, PingFrame, Zenon
<1>10. CASE put_finish_signal_on_queue \/ alive_detection_free \/ RedisDown
  <2>1. /\ pc' \in {"free", "exit", "crashed"} /\ (pc' = "free" => pc = "finish")
    BY <1>10, Zenon DEF put_finish_signal_on_queue, alive_detection_free, RedisDown
  <2> QED BY <1>f, <2>1, PingFrame, Zenon DEF Over, AfterPings
<1>11. ASSUME NEW h \in Targets, IcmpBatchPing(h) PROVE PingInv' /\ TodoInv'
  <2>1. /\ pc = "icmp_batch" /\ todo' = todo \ {h} /\ send_icmp(h)
        /\ pc' \in {"batch_count", "icmp_batch"}
    BY <1>11, Zenon DEF IcmpBatchPing
  <2>2. Reached(ICMP, h)'
    BY <1>f, <2>1, Zenon DEF Reached, send_icmp
  <2>3. ICMP \in PingPhases /\ pc \in During(ICMP) /\ pc' \in During(ICMP)
    BY <2>1, Zenon
  <2>4. PingInv'
    BY <1>f, <2>1, <2>2, <2>3, PingOne, Zenon
  <2> QED BY <2>1, <2>4, Zenon
<1>12. ASSUME NEW h \in Targets, PingHost(h) PROVE PingInv' /\ TodoInv'
  <2>1. /\ pc \in PingPhases /\ todo' = todo \ {h} /\ pc' = pc
        /\ \/ pc = ICMP /\ send_icmp(h)
           \/ pc \in {TCP_SYN, TCP_ACK} /\ send_tcp(pc, h)
           \/ pc = ARP /\ send_arp(h)
    BY <1>12, Zenon DEF PingHost
  <2>2. PICK m \in PingPhases : m = pc
    BY <2>1, Zenon
  <2>3. Reached(m, h)'
    BY <1>f, <2>1, <2>2, Zenon DEF Reached, send_icmp, send_tcp, send_arp
  <2>4. pc \in During(m) /\ pc' \in During(m)
    BY <2>1, <2>2, Zenon
  <2>5. PingInv'
    BY <1>f, <2>1, <2>3, <2>4, PingOne, Zenon
  <2> QED BY <2>1, <2>5, Zenon
<1> QED
  BY <1>2, <1>3, <1>4, <1>5, <1>6, <1>7, <1>8, <1>9, <1>10, <1>11, <1>12, Zenon DEF ScanStep

\* Every step keeps the invariant of the pings.
LEMMA PingStep ==
  ASSUME TypeOK, number_of_targets \in Nat, ControlInv, PingInv, TodoInv, [Next]_vars
  PROVE  PingInv' /\ TodoInv'
<1>m. pinged \subseteq pinged' /\ alivehosts \subseteq alivehosts' /\ prefs' = prefs
  BY PingMonotone, PrefsFixed, Zenon
<1>1. ASSUME pc' = pc, todo' = todo, canceled' = canceled
      PROVE  PingInv' /\ TodoInv'
  BY <1>m, <1>1, PingFrame, Zenon DEF TodoInv
<1>2. CASE CancelAliveDetection
  <2>1. canceled' /\ pc' \in {"exit", "free", "finish"}
    BY <1>2, Zenon DEF CancelAliveDetection
  <2> QED BY <2>1, Zenon DEF PingInv, TodoInv
<1>3. ASSUME NEW h \in Targets, ConsiderHost(h) PROVE PingInv' /\ TodoInv'
  <2>1. pc = CONSIDER_ALIVE /\ pc' = pc /\ canceled' = canceled
    BY <1>3, Zenon DEF ConsiderHost
  <2>2. \A m \in PingPhases : pc' \notin During(m)
    BY <2>1, Zenon DEF During, PingPhases, ICMP, TCP_SYN, TCP_ACK, ARP, CONSIDER_ALIVE
  <2>3. pc' \notin {"created", "cond_wait"}
    BY <2>1, Zenon DEF CONSIDER_ALIVE
  <2> QED BY <1>m, <2>1, <2>2, <2>3, PingFrame, Zenon DEF TodoInv
<1>4. ASSUME NEW h \in Targets, got_packet(h) PROVE PingInv' /\ TodoInv'
  BY <1>1, <1>4, Zenon DEF got_packet
<1>5. CASE \E t \in Threads : LoadCount(t) \/ StoreCount(t) \/ PutHost(t) \/ CheckLimit(t)
  BY <1>1, <1>5, RestrictionFrame, Zenon
<1>6. CASE SnifferStart \/ LoopEnd
  BY <1>1, <1>6, SnifferFrame, Zenon
<1>7. CASE SnifferCanceled
  BY <1>1, <1>7, Zenon DEF SnifferCanceled
<1>8. CASE Consumer
  BY <1>1, <1>8, ConsumerFrame, Zenon
<1>9. CASE UNCHANGED vars
  BY <1>1, <1>9, Zenon DEF vars
<1> QED
  BY <1>2, <1>3, <1>4, <1>5, <1>6, <1>7, <1>8, <1>9, StepCases, PingScanStep, Zenon

\* The sizes of the sets of announced hosts.
LEMMA AnnouncedSize ==
  ASSUME LibraryFacts
  PROVE  /\ Cardinality(Queued) \in Nat
         /\ pushed' = pushed => Cardinality(Queued)' = Cardinality(Queued)
         /\ \A h \in Targets \ Queued :
              Queued' = Queued \cup {h} => Cardinality(Queued)' = Cardinality(Queued) + 1
BY Zenon DEF LibraryFacts

\* A host that is put on the queue was not announced before.
LEMMA Announced ==
  ASSUME TypeOK, QueuedInv, NEW t \in Threads, t = Finder, PutHost(t), MayPut
  PROVE  /\ hsr_host[t] \in Targets \ Queued
         /\ queue' = Append(queue, hsr_host[t])
         /\ pushed' = [pushed EXCEPT ![hsr_host[t]] = pushed[hsr_host[t]] + 1]
         /\ Queued' = Queued \cup {hsr_host[t]}
<1> DEFINE x == hsr_host[t]
<1>1. /\ hsr[t] = "push" /\ queue' = Append(queue, x)
      /\ pushed' = [pushed EXCEPT ![x] = pushed[x] + 1]
  BY Zenon DEF PutHost
<1>2. x \in Targets /\ pushed \in [Targets -> Nat]
  BY <1>1, Zenon DEF TypeOK
<1>3. pushed[x] = 0
  BY <1>1, Zenon DEF QueuedInv
<1> HIDE DEF x
<1>4. x \notin Queued
  BY <1>3 DEF Queued
<1>5. ASSUME NEW h \in Targets PROVE pushed'[h] > 0 <=> pushed[h] > 0 \/ h = x
  BY <1>1, <1>2, <1>3
<1>6. Queued' = Queued \cup {x}
  BY <1>2, <1>5, Zenon DEF Queued
<1> QED BY <1>1, <1>2, <1>4, <1>6, Zenon DEF x

\* Every step keeps the announced hosts in line with the hosts that were found.
LEMMA CompleteStep ==
  ASSUME TypeOK, LibraryFacts, ControlInv, OneSource, CountInv, QueuedInv,
         CompleteInv, [Next]_vars
  PROVE  CompleteInv'
<1> DEFINE Q == Cardinality(Queued)
<1>a. /\ number_of_targets \in Nat /\ number_of_alive \in Nat
      /\ UNCHANGED alivehosts => number_of_alive' = number_of_alive
      /\ \A h \in Targets \ alivehosts :
           alivehosts' = alivehosts \cup {h} => number_of_alive' = number_of_alive + 1
  BY Zenon DEF LibraryFacts
<1>b. /\ max_scan_hosts' = max_scan_hosts /\ max_scan_hosts \in Nat
      /\ Finder' = Finder
  BY <1>a, FixedByPrefs, Zenon
<1>c. /\ Finder \in Threads
      /\ \A t \in Threads : t # Finder => hsr[t] = "idle"
      /\ Finder = "scan" => sniffer = "none"
      /\ Finder = "sniffer" => pc # CONSIDER_ALIVE
  BY OtherThreadIdle
<1>d. Q \in Nat /\ (pushed' = pushed => Q' = Q)
  BY AnnouncedSize, SMTT(30)
<1>e. hsr \in [Threads -> {"idle", "load", "store", "push", "check"}]
  BY DEF TypeOK
<1>f. hsr[Finder] # "idle" => sniffer # "canceled"
  BY <1>c, Zenon DEF ControlInv, Threads
<1>g. ~canceled =>
        IF max_scan_hosts_reached THEN Q = max_scan_hosts
        ELSE number_of_alive - Q
               \in (IF InHand THEN {1} ELSE IF sniffer = "canceled" THEN {0, 1} ELSE {0})
  BY Zenon DEF CompleteInv
<1>h. ASSUME ~canceled' =>
               IF max_scan_hosts_reached' THEN Q' = max_scan_hosts
               ELSE number_of_alive' - Q'
                      \in (IF InHand' THEN {1} ELSE IF sniffer' = "canceled" THEN {0, 1} ELSE {0})
      PROVE  CompleteInv'
  BY <1>b, <1>h, Zenon DEF CompleteInv
<1> HIDE DEF Q
<1>1. ASSUME UNCHANGED <<alivehosts, pushed, max_scan_hosts_reached, canceled>>,
             InHand' = InHand, sniffer = "canceled" => sniffer' = "canceled"
      PROVE  CompleteInv'
  BY <1>1, <1>a, <1>d, <1>g, <1>h, Zenon
<1>2. CASE ScanStep
  <2>1. sniffer = "canceled" => sniffer' = "canceled"
    BY <1>2, Zenon DEF ScanStep, StartAliveDetection, EnterScan, CondWait, CondWake,
         IcmpBatchPing, PingHost, BatchCount, BatchReport, IcmpBatchEnd,
         PingPhaseEnd, ConsiderEnd, WaitSecond, BreakLoop, GraceOver, Join, Report,
         put_finish_signal_on_queue, alive_detection_free, RedisDown, snifferVars,
         ControlInv
  <2> QED BY <1>1, <1>2, <1>b, <2>1, ScanStepFrame, Zenon DEF InHand
<1>3. CASE CancelAliveDetection
  BY <1>3, <1>h, Zenon DEF CancelAliveDetection
<1>4. CASE SnifferStart \/ LoopEnd
  BY <1>1, <1>4, <1>b, SnifferFrame, Zenon DEF InHand
<1>5. CASE SnifferCanceled
  <2>1. /\ sniffer = "loop" /\ sniffer' = "canceled" /\ Finder = "sniffer"
        /\ hsr' = [hsr EXCEPT !["sniffer"] = "idle"]
        /\ UNCHANGED <<alivehosts, pushed, max_scan_hosts_reached, canceled>>
    BY <1>5, <1>c, Zenon DEF SnifferCanceled, restrictionVars, Threads
  <2>2. ~InHand'
    BY <2>1, <1>b, <1>e, Zenon DEF InHand, Threads
  <2> QED BY <2>1, <2>2, <1>a, <1>d, <1>g, <1>h, Zenon
<1>6. CASE Consumer
  BY <1>1, <1>6, <1>b, ConsumerFrame, Zenon DEF InHand
<1>7. CASE UNCHANGED vars
  BY <1>1, <1>7, <1>b, ZenonT(40) DEF vars, restrictionVars, hsrVars, snifferVars, InHand
<1>8. ASSUME NEW h \in Targets \ alivehosts, hsr[Finder] = "idle",
             hsr'[Finder] = "load", sniffer # "canceled",
             alivehosts' = alivehosts \cup {h},
             UNCHANGED <<pushed, max_scan_hosts_reached, canceled>>
      PROVE  CompleteInv'
  <2>1. ~InHand /\ InHand'
    BY <1>8, <1>b, Zenon DEF InHand
  <2> QED BY <1>8, <2>1, <1>a, <1>d, <1>g, <1>h, SMTT(30)
<1>9. ASSUME NEW h \in Targets, ConsiderHost(h) PROVE CompleteInv'
  <2>1. h \notin alivehosts /\ Finder = "scan" /\ hsr["scan"] = "idle"
    BY <1>9, <1>c, Zenon DEF ConsiderHost, ControlInv, CONSIDER_ALIVE, Threads
  <2> QED BY <1>8, <1>9, <2>1, <1>c, <1>e, Zenon DEF ConsiderHost, Enter, Threads, restrictionVars
<1>10. ASSUME NEW h \in Targets, got_packet(h) PROVE CompleteInv'
  <2>1. h \notin alivehosts /\ Finder = "sniffer" /\ hsr["sniffer"] = "idle"
    BY <1>10, <1>c, ZenonT(40) DEF got_packet, IsNew, Threads
  <2> QED BY <1>8, <1>10, <2>1, <1>c, <1>e, Zenon DEF got_packet, Enter, Threads, restrictionVars
<1>11. ASSUME NEW t \in Threads, LoadCount(t) \/ StoreCount(t) PROVE CompleteInv'
  <2>1. /\ t = Finder /\ hsr[t] \in {"load", "store"} /\ hsr'[t] \in {"store", "push"}
        /\ UNCHANGED <<alivehosts, pushed, max_scan_hosts_reached, canceled, sniffer>>
    BY <1>11, <1>c, <1>e, Zenon DEF LoadCount, StoreCount, restrictionVars, snifferVars
  <2> QED BY <2>1, <1>1, <1>b, SMTT(30) DEF InHand
<1>12. ASSUME NEW t \in Threads, PutHost(t) PROVE CompleteInv'
  <2>1. /\ t = Finder /\ hsr[t] = "push" /\ hsr'[t] = "check"
        /\ UNCHANGED <<alivehosts, max_scan_hosts_reached, canceled, sniffer>>
    BY <1>12, <1>c, <1>e, Zenon DEF PutHost, restrictionVars, snifferVars
  <2>2. InHand /\ ~InHand'
    BY <2>1, <1>b, ZenonT(40) DEF InHand
  <2>3. CASE MayPut
    <3>1. /\ hsr_host[t] \in Targets \ Queued
          /\ Queued' = Queued \cup {hsr_host[t]}
      BY <1>12, <2>1, <2>3, Announced, Zenon
    <3>3. Q' = Q + 1
      BY <3>1, AnnouncedSize, ZenonT(40) DEF Q
    <3> QED BY <2>1, <2>2, <2>3, <3>3, <1>a, <1>d, <1>g, <1>h, SMTT(30) DEF MayPut
  <2>4. CASE ~MayPut
    BY <1>12, <2>1, <2>4, <1>d, <1>g, <1>h DEF PutHost, MayPut
  <2> QED BY <2>3, <2>4, Zenon
<1>13. ASSUME NEW t \in Threads, CheckLimit(t) PROVE CompleteInv'
  <2>1. /\ t = Finder /\ hsr[t] = "check" /\ hsr'[t] = "idle"
        /\ UNCHANGED <<alivehosts, pushed, canceled, sniffer>>
        /\ max_scan_hosts_reached' = (max_scan_hosts_reached \/ LimitHit)
    BY <1>13, <1>c, <1>e, Zenon DEF CheckLimit, snifferVars
  <2>2. ~InHand /\ ~InHand' /\ sniffer # "canceled"
    BY <2>1, <1>b, <1>f, ZenonT(40) DEF InHand
  <2>3. LimitHit <=> number_of_alive = max_scan_hosts
    BY <2>1 DEF LimitHit, CountInv
  <2>4. max_scan_hosts_reached' <=> max_scan_hosts_reached \/ LimitHit
    BY <2>1, Zenon
  <2>5. CASE max_scan_hosts_reached
    BY <2>1, <2>4, <2>5, <1>d, <1>g, <1>h, ZenonT(40)
  <2>6. CASE ~max_scan_hosts_reached
    <3>1. ~canceled => number_of_alive = Q
      BY <2>2, <2>6, <1>a, <1>d, <1>g, SMTT(30)
    <3>2. number_of_alive' = number_of_alive /\ Q' = Q
      BY <2>1, <1>a, <1>d, Zenon
    <3> QED BY <2>1, <2>2, <2>3, <2>4, <2>6, <3>1, <3>2, <1>a, <1>h, SMTT(30)
  <2> QED BY <2>5, <2>6, Zenon
<1> QED
  BY <1>2, <1>3, <1>4, <1>5, <1>6, <1>7, <1>9, <1>10, <1>11, <1>12, <1>13, StepCases, Zenon

\* What an append and a removal at the head do to the members of the queue.
LEMMA QueueAppended ==
  ASSUME NEW S, queue \in Seq(S), NEW x \in S, queue' = Append(queue, x)
  PROVE  /\ Len(queue') = Len(queue) + 1 /\ queue'[Len(queue')] = x
         /\ \A i \in 1..Len(queue) : queue'[i] = queue[i]
         /\ \A y : On(y)' <=> On(y) \/ y = x
<1>1. /\ Len(queue') = Len(queue) + 1 /\ queue'[Len(queue) + 1] = x
      /\ \A i \in 1..Len(queue) : queue'[i] = queue[i]
      /\ Len(queue) \in Nat
  OBVIOUS
<1>2. ASSUME NEW y PROVE On(y)' <=> On(y) \/ y = x
  <2>1. CASE On(y)
    <3>1. \A i \in 1..Len(queue) : i \in 1..Len(queue')
      BY <1>1
    <3> QED BY <1>1, <2>1, <3>1, Zenon DEF On
  <2>2. CASE y = x
    <3>1. Len(queue) + 1 \in 1..Len(queue')
      BY <1>1, SMTT(30)
    <3> QED BY <1>1, <2>2, <3>1, Zenon DEF On
  <2>3. ASSUME On(y)' PROVE On(y) \/ y = x
    <3>1. PICK i \in 1..Len(queue') : queue'[i] = y
      BY <2>3, Zenon DEF On
    <3>2. i \in 1..Len(queue) \/ i = Len(queue) + 1
      BY <1>1
    <3> QED BY <1>1, <3>1, <3>2, Zenon DEF On
  <2> QED BY <2>1, <2>2, <2>3, Zenon
<1> QED BY <1>1, <1>2, Zenon

\* What is on the queue after its head was taken.
LEMMA QueuePopped ==
  ASSUME NEW S, queue \in Seq(S), queue # <<>>, queue' = Tail(queue)
  PROVE  /\ Len(queue) > 0 /\ Len(queue') = Len(queue) - 1
         /\ Head(queue) = queue[1] /\ Head(queue) \in S
         /\ \A i \in 1..Len(queue') : queue'[i] = queue[i + 1]
         /\ \A y : On(y)' => On(y)
         /\ \A y : On(y) => On(y)' \/ y = Head(queue)
         /\ On(Head(queue))
<1>1. /\ Len(queue) \in Nat /\ Len(queue) > 0 /\ Len(queue') = Len(queue) - 1
      /\ Head(queue) = queue[1] /\ Head(queue) \in S
      /\ \A i \in 1..Len(queue') : queue'[i] = queue[i + 1]
  OBVIOUS
<1>2. ASSUME NEW y, On(y)' PROVE On(y)
  <2>1. PICK i \in 1..Len(queue') : queue'[i] = y
    BY <1>2, Zenon DEF On
  <2>2. i + 1 \in 1..Len(queue) /\ queue[i + 1] = y
    BY <1>1, <2>1
  <2> QED BY <2>2, Zenon DEF On
<1>3. ASSUME NEW y, On(y) PROVE On(y)' \/ y = Head(queue)
  <2>1. PICK i \in 1..Len(queue) : queue[i] = y
    BY <1>3, Zenon DEF On
  <2>2. CASE i = 1
    BY <1>1, <2>1, <2>2, Zenon
  <2>3. CASE i # 1
    <3>1. i - 1 \in 1..Len(queue') /\ queue'[i - 1] = queue[(i - 1) + 1] /\ (i - 1) + 1 = i
      BY <1>1, <2>3
    <3> QED BY <2>1, <3>1, Zenon DEF On
  <2> QED BY <2>2, <2>3, Zenon
<1>4. On(Head(queue))
  <2>1. 1 \in 1..Len(queue)
    BY <1>1, SMTT(30)
  <2> QED BY <1>1, <2>1 DEF On
<1> QED BY <1>1, <1>2, <1>3, <1>4, Zenon

\* The steps that move neither the queue nor the consumer.
LEMMA SignalFrame ==
  ASSUME SignalInv, UNCHANGED <<queue, fin_put, consumerVars>>,
         fin_put => pc' \in {"free", "exit"}
  PROVE  SignalInv'
  BY DEF SignalInv, consumerVars, FinOnQueue

\* Every step keeps the finish signal away from the queue until the scan is over.
LEMMA SignalStep ==
  ASSUME TypeOK, SignalInv, [Next]_vars
  PROVE  SignalInv'
<1>a. queue \in Seq(Targets \cup {FIN}) /\ FIN \notin Targets
  BY SentinelAssumption, Zenon DEF TypeOK
<1>b. FinOnQueue <=> On(FIN)
  BY Zenon DEF FinOnQueue, On
<1>c. FinOnQueue' <=> On(FIN)'
  BY Zenon DEF FinOnQueue, On
<1>s. fin_put => pc \in {"free", "exit"}
  BY Zenon DEF SignalInv
<1> USE DEF scanFrame, redisVars
<1>1. CASE StartAliveDetection \/ EnterScan \/ CondWait \/ CondWake
  BY <1>1, <1>s, SignalFrame, Zenon DEF StartAliveDetection, EnterScan, CondWait, CondWake
<1>2. CASE \E h \in Targets : IcmpBatchPing(h) \/ PingHost(h) \/ ConsiderHost(h)
  BY <1>2, <1>s, SignalFrame, Zenon
     DEF IcmpBatchPing, PingHost, ConsiderHost, PingPhases, ICMP, TCP_SYN, TCP_ACK,
         ARP, CONSIDER_ALIVE
<1>3. CASE BatchCount \/ BatchReport \/ IcmpBatchEnd \/ PingPhaseEnd \/ ConsiderEnd
  BY <1>3, <1>s, SignalFrame, Zenon
     DEF BatchCount, BatchReport, IcmpBatchEnd, PingPhaseEnd, ConsiderEnd,
         PingPhases, ICMP, TCP_SYN, TCP_ACK, ARP, CONSIDER_ALIVE
<1>4. CASE WaitSecond \/ BreakLoop \/ GraceOver \/ Join \/ Report
             \/ alive_detection_free \/ RedisDown
  BY <1>4, <1>s, SignalFrame, Zenon
     DEF WaitSecond, BreakLoop, GraceOver, Join, Report, alive_detection_free, RedisDown
<1>5. CASE CancelAliveDetection
  <2>1. UNCHANGED <<queue, fin_put, consumerVars>>
    BY <1>5, Zenon DEF CancelAliveDetection
  <2>2. pc # "exit" /\ (pc = "free" => pc' = "exit")
    BY <1>5, Zenon DEF CancelAliveDetection, CONSIDER_ALIVE
  <2> QED BY <1>s, <2>1, <2>2, SignalFrame, Zenon
<1>6. CASE SnifferStart \/ LoopEnd \/ SnifferCanceled \/ \E h \in Targets : got_packet(h)
  BY <1>6, <1>s, SignalFrame, Zenon DEF SnifferStart, LoopEnd, SnifferCanceled, got_packet
<1>7. CASE UNCHANGED vars
  BY <1>7, <1>s, SignalFrame, Zenon DEF vars
<1>8. CASE \E t \in Threads : LoadCount(t) \/ StoreCount(t) \/ CheckLimit(t)
  BY <1>8, <1>s, SignalFrame, Zenon DEF LoadCount, StoreCount, CheckLimit
<1>9. ASSUME NEW t \in Threads, PutHost(t) PROVE SignalInv'
  <2>1. hsr_host[t] \in Targets /\ UNCHANGED <<fin_put, consumerVars, pc>>
    BY <1>9, Zenon DEF PutHost, TypeOK
  <2>2. CASE MayPut
    <3>1. queue' = Append(queue, hsr_host[t])
      BY <1>9, <2>2, Zenon DEF PutHost
    <3>2. On(FIN)' <=> On(FIN)
      BY <1>a, <2>1, <3>1, QueueAppended, Zenon
    <3> QED BY <1>b, <1>c, <2>1, <3>2, Zenon DEF SignalInv, consumerVars
  <2>3. CASE ~MayPut
    BY <1>9, <1>s, <2>1, <2>3, SignalFrame, Zenon DEF PutHost
  <2> QED BY <2>2, <2>3, Zenon
<1>10. CASE put_finish_signal_on_queue
  BY <1>10, Zenon DEF put_finish_signal_on_queue, SignalInv, consumerVars
<1>11. CASE Consumer
  <2>1. fin_put' = fin_put /\ pc' = pc
    BY <1>11, ConsumerFrame, Zenon
  <2>2. CASE GetFinishSignal
    <3>1. FinOnQueue
      BY <1>a, <1>b, <2>2, QueuePopped, Zenon DEF GetFinishSignal, AtFinishSignal
    <3> QED BY <2>1, <2>2, <3>1, Zenon DEF SignalInv, GetFinishSignal
  <2>3. CASE GetHost
    <3>1. On(FIN)' => On(FIN)
      BY <1>a, <2>3, QueuePopped, Zenon DEF GetHost
    <3>2. /\ ~finished /\ UNCHANGED <<finished, fin_seen, errmsg>>
          /\ consumer' \in {"idle", "put_back"}
      BY <2>3, Zenon DEF GetHost
    <3> QED BY <1>b, <1>c, <2>1, <3>1, <3>2, Zenon DEF SignalInv
  <2>4. CASE put_host_on_queue
    <3>1. held \in Targets /\ queue' = Append(queue, held)
      BY <2>4, Zenon DEF put_host_on_queue, TypeOK
    <3>2. On(FIN)' <=> On(FIN)
      BY <1>a, <3>1, QueueAppended, Zenon
    <3>3. /\ consumer = "put_back" /\ consumer' = "look"
          /\ UNCHANGED <<finished, fin_seen, errmsg>>
      BY <2>4, Zenon DEF put_host_on_queue
    <3> QED BY <1>b, <1>c, <2>1, <3>2, <3>3, Zenon DEF SignalInv
  <2>5. CASE finish_signal_on_queue
    <3>1. /\ consumer = "look" /\ consumer' = (IF fin_seen' THEN "remove" ELSE "idle")
          /\ UNCHANGED <<finished, errmsg, queue>>
      BY <2>5 DEF finish_signal_on_queue
    <3>2. fin_seen' <=> fin_seen \/ FinOnQueue
      BY <2>5, Zenon DEF finish_signal_on_queue
    <3>3. FinOnQueue' = FinOnQueue
      BY <3>1, Zenon DEF FinOnQueue
    <3> QED BY <2>1, <3>1, <3>2, <3>3, Zenon DEF SignalInv
  <2>6. CASE RemoveFinishSignal \/ AppendFinishSignal
    <3>1. /\ consumer \in {"remove", "append"} /\ consumer' \in {"append", "idle"}
          /\ UNCHANGED <<finished, errmsg>>
      BY <2>6, Zenon DEF RemoveFinishSignal, AppendFinishSignal
    <3> QED BY <2>1, <3>1, Zenon DEF SignalInv
  <2> QED BY <1>11, <2>2, <2>3, <2>4, <2>5, <2>6, Zenon DEF Consumer
<1> QED
  BY <1>1, <1>2, <1>3, <1>4, <1>5, <1>6, <1>7, <1>8, <1>9, <1>10, <1>11, StepCases, Zenon
     DEF ScanStep

\* Only the consumer changes what is the consumer's, and apart from it only a host
\* that is announced and the finish signal change the queue.
LEMMA DetectionFrame ==
  ASSUME [Next]_vars, ~Consumer
  PROVE  /\ UNCHANGED consumerVars
         /\ \/ \E t \in Threads : PutHost(t) /\ MayPut
            \/ put_finish_signal_on_queue
            \/ UNCHANGED <<queue, fin_put, pushed>>
<1> USE DEF scanFrame, redisVars
<1>1. CASE StartAliveDetection \/ EnterScan \/ CondWait \/ CondWake
  BY <1>1, Zenon DEF StartAliveDetection, EnterScan, CondWait, CondWake
<1>2. CASE \E h \in Targets : IcmpBatchPing(h) \/ PingHost(h) \/ ConsiderHost(h) \/ got_packet(h)
  BY <1>2, Zenon DEF IcmpBatchPing, PingHost, ConsiderHost, got_packet
<1>3. CASE BatchCount \/ BatchReport \/ IcmpBatchEnd \/ PingPhaseEnd \/ ConsiderEnd
  BY <1>3, Zenon DEF BatchCount, BatchReport, IcmpBatchEnd, PingPhaseEnd, ConsiderEnd
<1>4. CASE WaitSecond \/ BreakLoop \/ GraceOver \/ Join \/ Report
             \/ alive_detection_free \/ RedisDown \/ put_finish_signal_on_queue
  BY <1>4, Zenon DEF WaitSecond, BreakLoop, GraceOver, Join, Report, alive_detection_free,
     RedisDown, put_finish_signal_on_queue
<1>5. CASE CancelAliveDetection \/ SnifferStart \/ LoopEnd \/ SnifferCanceled
  BY <1>5, Zenon DEF CancelAliveDetection, SnifferStart, LoopEnd, SnifferCanceled
<1>6. CASE \E t \in Threads : LoadCount(t) \/ StoreCount(t) \/ PutHost(t) \/ CheckLimit(t)
  BY <1>6, Zenon DEF LoadCount, StoreCount, PutHost, CheckLimit
<1>7. CASE UNCHANGED vars
  BY <1>7, Zenon DEF vars
<1> QED BY <1>1, <1>2, <1>3, <1>4, <1>5, <1>6, <1>7, StepCases, Zenon DEF ScanStep

\* Every step keeps the message exact: when the finish signal is taken nothing
\* counts hosts any more.
LEMMA MessageStep ==
  ASSUME TypeOK, LibraryFacts, ControlInv, OneSource, CountInv, SignalInv,
         MessageInv, [Next]_vars
  PROVE  MessageInv'
<1>a. /\ number_of_targets \in Nat /\ number_of_alive \in Nat
      /\ UNCHANGED alivehosts => number_of_alive' = number_of_alive
  BY Zenon DEF LibraryFacts
<1>b. max_scan_hosts' = max_scan_hosts /\ max_scan_hosts \in Nat
  BY <1>a, FixedByPrefs, Zenon
<1>q. ASSUME ~canceled, fin_put
      PROVE  /\ pc \in {"free", "exit"} /\ sniffer \notin {"starting", "loop"}
             /\ hsr[Finder] = "idle"
  <2>1. pc \in {"free", "exit"} /\ sniffer \notin {"starting", "loop"}
    BY <1>q, SMTT(30) DEF SignalInv, ControlInv
  <2>2. hsr["scan"] = "idle" /\ hsr["sniffer"] = "idle"
    BY <2>1 DEF ControlInv, CONSIDER_ALIVE
  <2> QED BY <2>1, <2>2, SMTT(30) DEF Finder
<1>1. ASSUME ~GetFinishSignal PROVE MessageInv'
  <2> SUFFICES ASSUME finished', ~canceled'
               PROVE  /\ finished /\ ~canceled /\ errmsg' = errmsg
                      /\ alivehosts' = alivehosts
    BY <1>a, <1>b, Zenon DEF MessageInv
  <2>1. finished /\ errmsg' = errmsg
    <3>1. CASE Consumer
      BY <1>1, <3>1, Zenon DEF Consumer, GetHost, put_host_on_queue, finish_signal_on_queue,
         RemoveFinishSignal, AppendFinishSignal
    <3>2. CASE ~Consumer
      <4>1. UNCHANGED consumerVars
        BY <3>2, DetectionFrame
      <4> QED BY <4>1 DEF consumerVars
    <3> QED BY <3>1, <3>2, Zenon
  <2>2. fin_put
    BY <2>1 DEF SignalInv
  <2>3. ~canceled
    <3>1. CASE CancelAliveDetection
      BY <3>1 DEF CancelAliveDetection
    <3>2. CASE ~CancelAliveDetection
      BY <3>2, StepCases, ScanStepFrame, RestrictionFrame, SnifferFrame, ConsumerFrame, Zenon
         DEF ConsiderHost, got_packet, SnifferCanceled, vars
    <3> QED BY <3>1, <3>2
  <2>4. pc \in {"free", "exit"} /\ sniffer \notin {"starting", "loop"}
    BY <2>2, <2>3, <1>q, Zenon
  <2>5. alivehosts' = alivehosts
    BY <2>4, StepCases, ScanStepFrame, RestrictionFrame, SnifferFrame, ConsumerFrame, Zenon
       DEF ConsiderHost, got_packet, SnifferCanceled, CancelAliveDetection, vars,
           CONSIDER_ALIVE
  <2> QED BY <2>1, <2>3, <2>5, Zenon
<1>2. CASE GetFinishSignal
  <2>1. /\ ~finished /\ errmsg' = LimitMsg /\ queue # <<>> /\ Head(queue) = FIN
        /\ UNCHANGED <<canceled, alivehosts>>
    BY <1>2 DEF GetFinishSignal, AtFinishSignal, consumerFrame
  <2>2. fin_put /\ errmsg = -1
    <3>1. 1 \in 1..Len(queue) /\ queue[1] = FIN
      BY <2>1 DEF TypeOK
    <3> QED BY <2>1, <3>1, ZenonT(40) DEF SignalInv, FinOnQueue
  <2>3. ~canceled => alive_hosts_count = number_of_alive
    BY <2>2, <1>q, Zenon DEF CountInv
  <2>4. /\ max_scan_hosts_reached => number_of_alive >= max_scan_hosts
        /\ ~max_scan_hosts_reached => number_of_alive <= max_scan_hosts
    BY Zenon DEF CountInv
  <2> QED BY <2>1, <2>2, <2>3, <2>4, <1>a, <1>b, SMTT(30) DEF MessageInv, LimitMsg
<1> QED BY <1>1, <1>2, Zenon

\* No step of the queue puts a member on it twice.
LEMMA DistinctAppended ==
  ASSUME NEW S, queue \in Seq(S), NEW x \in S, queue' = Append(queue, x), ~On(x),
         Distinct
  PROVE  Distinct'
<1>1. /\ Len(queue') = Len(queue) + 1 /\ queue'[Len(queue')] = x
      /\ \A i \in 1..Len(queue) : queue'[i] = queue[i]
      /\ Len(queue) \in Nat
  BY QueueAppended
<1>2. ASSUME NEW i \in 1..Len(queue'), NEW j \in 1..Len(queue'), queue'[i] = queue'[j]
      PROVE  i = j
  <2>1. CASE i = Len(queue') \/ j = Len(queue')
    <3>1. \A k \in 1..Len(queue') : k \in 1..Len(queue) \/ k = Len(queue')
      BY <1>1
    <3>2. \A k \in 1..Len(queue) : queue'[k] # x
      BY <1>1, Zenon DEF On
    <3> QED BY <1>1, <1>2, <2>1, <3>1, <3>2, Zenon
  <2>2. CASE i # Len(queue') /\ j # Len(queue')
    <3>1. i \in 1..Len(queue) /\ j \in 1..Len(queue)
      BY <1>1, <2>2
    <3> QED BY <1>1, <1>2, <3>1, Zenon DEF Distinct
  <2> QED BY <2>1, <2>2, Zenon
<1> QED BY <1>2, ZenonT(40) DEF Distinct

\* A queue without repetitions stays so, and its head is gone, when it is popped.
LEMMA DistinctPopped ==
  ASSUME NEW S, queue \in Seq(S), queue # <<>>, queue' = Tail(queue), Distinct
  PROVE  Distinct' /\ \A y : y = Head(queue) => ~On(y)'
<1>1. /\ Len(queue) \in Nat /\ Len(queue) > 0 /\ Len(queue') = Len(queue) - 1
      /\ Head(queue) = queue[1]
      /\ \A i \in 1..Len(queue') : queue'[i] = queue[i + 1]
  BY QueuePopped
<1>2. \A i \in 1..Len(queue') : i + 1 \in 1..Len(queue) /\ i + 1 # 1
  BY <1>1
<1>3. Distinct'
  <2> SUFFICES ASSUME NEW i \in 1..Len(queue'), NEW j \in 1..Len(queue'),
                      queue'[i] = queue'[j]
               PROVE  i = j
    BY Zenon DEF Distinct
  <2>1. i + 1 = j + 1
    BY <1>1, <1>2 DEF Distinct
  <2> QED BY <2>1
<1>4. ASSUME NEW y, y = Head(queue), On(y)' PROVE FALSE
  <2>1. PICK i \in 1..Len(queue') : queue'[i] = y
    BY <1>4, Zenon DEF On
  <2>2. queue[i + 1] = queue[1] /\ 1 \in 1..Len(queue)
    BY <1>1, <1>4, <2>1, SMTT(30)
  <2> QED BY <1>2, <2>2, Zenon DEF Distinct
<1> QED BY <1>3, <1>4, Zenon

\* The same when an entry in the middle is removed.
LEMMA DistinctRemoved ==
  ASSUME NEW S, queue \in Seq(S), NEW i \in 1..Len(queue), queue' = QueueWithout(i),
         Distinct
  PROVE  /\ Distinct'
         /\ ~\E j \in 1..Len(queue') : queue'[j] = queue[i]
         /\ \A y : y # queue[i] => (On(y)' <=> On(y))
<1> DEFINE old(j) == IF j < i THEN j ELSE j + 1
<1>1. Len(queue) \in Nat /\ i \in Int /\ 1 <= i /\ i <= Len(queue)
  BY SMTT(30)
<1>5. /\ Len(queue') = Len(queue) - 1
      /\ \A j \in 1..Len(queue) - 1 : queue'[j] = IF j < i THEN queue[j] ELSE queue[j + 1]
  BY Without, Zenon DEF QueueWithout
<1>6. ASSUME NEW j \in 1..Len(queue')
      PROVE  queue'[j] = queue[old(j)] /\ old(j) \in 1..Len(queue) /\ old(j) # i
  <2>1. CASE j < i
    BY <1>1, <1>5, <2>1, SMTT(30)
  <2>2. CASE ~(j < i)
    BY <1>1, <1>5, <2>2, SMTT(30)
  <2> QED BY <2>1, <2>2, Zenon
<1>7. \A j, k \in 1..Len(queue') : old(j) = old(k) => j = k
  BY <1>1, <1>5
<1>8. ASSUME NEW k \in 1..Len(queue), k # i
      PROVE  \E j \in 1..Len(queue') : old(j) = k
  <2>1. CASE k < i
    <3>1. k \in 1..Len(queue') /\ old(k) = k
      BY <1>1, <1>5, <2>1
    <3> QED BY <3>1, Zenon
  <2>2. CASE k > i
    <3>1. k - 1 \in 1..Len(queue') /\ old(k - 1) = k
      BY <1>1, <1>5, <2>2
    <3> QED BY <3>1, Zenon
  <2> QED BY <1>1, <1>8, <2>1, <2>2
<1> HIDE DEF old
<1>9. Distinct'
  <2> SUFFICES ASSUME NEW j \in 1..Len(queue'), NEW k \in 1..Len(queue'),
                      queue'[j] = queue'[k]
               PROVE  j = k
    BY Zenon DEF Distinct
  <2>1. old(j) = old(k)
    BY <1>6, SMTT(30) DEF Distinct
  <2> QED BY <1>7, <2>1, Zenon
<1>10. ~\E j \in 1..Len(queue') : queue'[j] = queue[i]
  BY <1>6 DEF Distinct
<1>11. ASSUME NEW y, y # queue[i] PROVE On(y)' <=> On(y)
  <2>1. ASSUME On(y)' PROVE On(y)
    BY <1>6, <2>1, Zenon DEF On
  <2>2. ASSUME On(y) PROVE On(y)'
    <3>1. PICK k \in 1..Len(queue) : queue[k] = y
      BY <2>2, Zenon DEF On
    <3>2. PICK j \in 1..Len(queue') : old(j) = k
      BY <1>8, <1>11, <3>1
    <3> QED BY <1>6, <3>1, <3>2, Zenon DEF On
  <2> QED BY <2>1, <2>2, Zenon
<1> QED BY <1>9, <1>10, <1>11, Zenon

\* Until the finish signal is put on the queue, it is not there and no consumer
\* is busy with it; afterwards no host is in hand.
LEMMA BeforeSignal ==
  ASSUME TypeOK, ControlInv, OneSource, SignalInv, ~canceled
  PROVE  /\ ~fin_put => ~On(FIN) /\ ~finished /\ consumer \notin {"remove", "append"}
         /\ fin_put => \A t \in Threads : hsr[t] = "idle"
<1>1. ~fin_put => ~On(FIN) /\ ~finished /\ consumer \notin {"remove", "append"}
  BY Zenon DEF SignalInv, FinOnQueue, On
<1>2. ASSUME fin_put PROVE \A t \in Threads : hsr[t] = "idle"
  <2>1. pc \in {"free", "exit"} /\ sniffer \notin {"starting", "loop"}
    BY <1>2, Zenon DEF SignalInv, ControlInv
  <2> QED BY <2>1, Zenon DEF ControlInv, CONSIDER_ALIVE, Threads
<1> QED BY <1>1, <1>2, Zenon

\* Every step of the alive detection keeps the queue in order.
LEMMA QueueDetectionStep ==
  ASSUME TypeOK, ControlInv, OneSource, QueuedInv, SignalInv, ~canceled, QueueInv,
         [Next]_vars, ~Consumer
  PROVE  QueueInv'
<1>a. /\ queue \in Seq(Targets \cup {FIN}) /\ FIN \notin Targets
      /\ pushed \in [Targets -> Nat] /\ scanned \subseteq Targets
      /\ \A t \in Threads : hsr[t] # "idle" => hsr_host[t] \in Targets
      /\ consumer = "put_back" => held \in Targets
  BY SentinelAssumption, Zenon DEF TypeOK
<1>b. /\ ~fin_put => ~On(FIN) /\ ~finished /\ consumer \notin {"remove", "append"}
      /\ fin_put => \A t \in Threads : hsr[t] = "idle"
  BY BeforeSignal, Zenon
<1>c. UNCHANGED consumerVars
  BY DetectionFrame, Zenon
<1>d. UNCHANGED <<consumer, finished, held, scanned>>
  BY <1>c, Zenon DEF consumerVars
<1>1. ASSUME UNCHANGED <<queue, fin_put, pushed>> PROVE QueueInv'
  <2>1. Queued' = Queued /\ Distinct' = Distinct /\ \A y : On(y)' = On(y)
    BY <1>1, Zenon DEF Queued, Distinct, On
  <2> QED BY <1>1, <1>d, <2>1, Zenon DEF QueueInv
<1>2. ASSUME NEW t \in Threads, PutHost(t), MayPut PROVE QueueInv'
  <2> DEFINE x == hsr_host[t]
  <2>1. /\ x \in Targets \ Queued /\ ~fin_put /\ fin_put' = fin_put
        /\ queue' = Append(queue, x)
        /\ Queued' = Queued \cup {x}
    <3>1. hsr[t] = "push" /\ t = Finder /\ fin_put' = fin_put
      BY <1>2, OtherThreadIdle, Zenon DEF PutHost
    <3>2. ~fin_put
      BY <1>b, <3>1, Zenon
    <3> QED BY <1>2, <3>1, <3>2, Announced, Zenon
  <2>2. Queued' = Queued \cup {x}
    BY <2>1, Zenon
  <2> HIDE DEF x
  <2>3. ~On(x)
    BY <2>1, Zenon DEF QueueInv
  <2>4. Distinct' /\ \A y : On(y)' <=> On(y) \/ y = x
    <3>1. x \in Targets \cup {FIN} /\ Distinct
      BY <2>1, Zenon DEF QueueInv
    <3>2. Distinct'
      BY <1>a, <2>1, <2>3, <3>1, DistinctAppended, Zenon
    <3> QED BY <1>a, <2>1, <3>1, <3>2, QueueAppended, ZenonT(40)
  <2>5. ~On(FIN)' /\ ~finished'
    BY <1>a, <1>b, <1>d, <2>1, <2>4, Zenon
  <2>6. \A i \in 1..Len(queue') : queue'[i] # FIN
    BY <2>5, Zenon DEF On
  <2>7. scanned' \subseteq Queued' /\ x \notin scanned
    BY <1>d, <2>1, <2>2, Zenon DEF QueueInv
  <2>8. \A h \in Targets : On(h)' => h \in Queued' \ scanned'
    BY <1>d, <2>2, <2>4, <2>7, Zenon DEF QueueInv
  <2>9. \A h \in Targets : consumer' = "put_back" /\ held' = h
                            => h \in Queued' \ scanned' /\ ~On(h)'
    BY <1>d, <2>1, <2>2, <2>4, Zenon DEF QueueInv
  <2>10. \A h \in Queued' \ scanned' : On(h)' \/ (consumer' = "put_back" /\ held' = h)
    BY <1>d, <2>2, <2>4, Zenon DEF QueueInv
  <2> QED BY <1>d, <2>1, <2>4, <2>5, <2>6, <2>7, <2>8, <2>9, <2>10, Zenon DEF QueueInv
<1>3. CASE put_finish_signal_on_queue
  <2>1. /\ ~fin_put /\ fin_put' /\ queue' = Append(queue, FIN) /\ pushed' = pushed
    BY <1>3, Zenon DEF put_finish_signal_on_queue, SignalInv, scanFrame
  <2>2. Queued' = Queued
    BY <2>1, Zenon DEF Queued
  <2>3. /\ Distinct' /\ \A y : On(y)' <=> On(y) \/ y = FIN
        /\ Len(queue') = Len(queue) + 1 /\ queue'[Len(queue')] = FIN
        /\ \A i \in 1..Len(queue) : queue'[i] = queue[i]
        /\ Len(queue) \in Nat
    <3>1. FIN \in Targets \cup {FIN} /\ Distinct /\ Len(queue) \in Nat
      BY <1>a, SMTT(30) DEF QueueInv
    <3>2. Distinct'
      BY <1>a, <1>b, <2>1, <3>1, DistinctAppended, Zenon
    <3> QED BY <1>a, <2>1, <3>1, <3>2, QueueAppended, ZenonT(40)
  <2>4. \A h \in Targets : On(h)' <=> On(h)
    BY <1>a, <2>3, Zenon
  <2>5. \A i \in 1..Len(queue') : queue'[i] = FIN => i = Len(queue')
    <3>1. \A i \in 1..Len(queue') : i \in 1..Len(queue) \/ i = Len(queue')
      BY <2>3
    <3>2. \A i \in 1..Len(queue) : queue'[i] # FIN
      BY <1>b, <2>1, <2>3, Zenon DEF On
    <3> QED BY <3>1, <3>2, Zenon
  <2>6. ~finished' /\ consumer' # "append"
    BY <1>b, <1>d, <2>1
  <2>7. Queued \subseteq Targets
    BY DEF Queued
  <2>8. \A h \in Queued' \ scanned' : On(h)' \/ (consumer' = "put_back" /\ held' = h)
    BY <1>d, <2>2, <2>4, <2>7 DEF QueueInv
  <2>9. /\ \A h \in Targets : On(h)' => h \in Queued' \ scanned'
        /\ \A h \in Targets : consumer' = "put_back" /\ held' = h
                               => h \in Queued' \ scanned' /\ ~On(h)'
    BY <1>d, <2>2, <2>4, Zenon DEF QueueInv
  <2>10. scanned' \subseteq Queued' /\ On(FIN)' /\ Len(queue') > 0
    BY <1>d, <2>2, <2>3, SMTT(30) DEF QueueInv
  <2>11. /\ consumer' = "idle" => Len(queue') > 0 /\ queue'[Len(queue')] = FIN
         /\ consumer' # "append" => On(FIN)'
    BY <2>3, <2>10, Zenon
  <2> QED BY <2>11, <2>3, <2>5, <2>6, <2>8, <2>9, <2>10, Zenon DEF QueueInv
<1>4. ASSUME ~\E t \in Threads : PutHost(t) /\ MayPut, ~put_finish_signal_on_queue
      PROVE  UNCHANGED <<queue, fin_put, pushed>>
  BY <1>4, DetectionFrame, Zenon
<1> QED BY <1>1, <1>2, <1>3, <1>4, Zenon

\* Every step of the consumer keeps the queue in order.
LEMMA QueueConsumerStep ==
  ASSUME TypeOK, ControlInv, OneSource, SignalInv, ~canceled, QueueInv, Consumer
  PROVE  QueueInv'
<1>a. /\ queue \in Seq(Targets \cup {FIN}) /\ FIN \notin Targets
      /\ scanned \subseteq Targets /\ Len(queue) \in Nat
      /\ consumer = "put_back" => held \in Targets
      /\ Distinct
  <2>1. queue \in Seq(Targets \cup {FIN})
    BY Zenon DEF TypeOK
  <2>2. Len(queue) \in Nat
    BY <2>1
  <2> QED BY <2>1, <2>2, SentinelAssumption, Zenon DEF TypeOK, QueueInv
<1>b. /\ ~fin_put => ~On(FIN) /\ ~finished /\ consumer \notin {"remove", "append"}
      /\ finished => consumer = "idle"
  BY BeforeSignal, Zenon DEF SignalInv
<1>c. Queued' = Queued /\ fin_put' = fin_put /\ Queued \subseteq Targets
  BY ConsumerFrame DEF Queued
<1>d. /\ scanned \subseteq Queued
      /\ \A h \in Targets : On(h) => h \in Queued \ scanned
      /\ \A h \in Targets : consumer = "put_back" /\ held = h
                              => h \in Queued \ scanned /\ ~On(h)
      /\ \A h \in Queued \ scanned : On(h) \/ (consumer = "put_back" /\ held = h)
  BY DEF QueueInv
<1>e. /\ fin_put /\ ~finished =>
            /\ consumer = "idle" => Len(queue) > 0 /\ queue[Len(queue)] = FIN
            /\ consumer # "append" => On(FIN)
            /\ consumer = "append" => ~On(FIN)
      /\ consumer = "idle" => \A i \in 1..Len(queue) : queue[i] = FIN => i = Len(queue)
  BY Zenon DEF QueueInv
<1>1. CASE GetFinishSignal
  <2>1. /\ consumer = "idle" /\ consumer' = consumer /\ finished' /\ scanned' = scanned
        /\ queue # <<>> /\ Head(queue) = FIN /\ queue' = Tail(queue)
    BY <1>1, Zenon DEF GetFinishSignal, AtFinishSignal
  <2>2. Len(queue) > 0 /\ queue[1] = FIN /\ Len(queue') = Len(queue) - 1
    BY <1>a, <2>1, QueuePopped, Zenon
  <2>3. Len(queue) = 1
    <3>1. 1 \in 1..Len(queue)
      BY <1>a, <2>2
    <3> QED BY <1>e, <2>1, <2>2, <3>1, Zenon
  <2>4. queue' = <<>> /\ \A y : ~On(y)'
    <3>1. queue' = <<>>
      BY <1>a, <2>1, <2>2, <2>3
    <3> QED BY <3>1 DEF On
  <2>5. \A h \in Targets : ~On(h)
    BY <1>a, <2>2, <2>3 DEF On
  <2>6. Distinct' /\ \A i \in 1..Len(queue') : queue'[i] = FIN => i = Len(queue')
    BY <2>4 DEF Distinct
  <2> QED BY <1>c, <1>d, <2>1, <2>4, <2>5, <2>6, Zenon DEF QueueInv
<1>2. CASE GetHost
  <2> DEFINE x == Head(queue)
  <2>1. /\ consumer = "idle" /\ ~finished /\ ~finished' /\ queue # <<>> /\ x # FIN
        /\ queue' = Tail(queue)
        /\ \/ scanned' = scanned \cup {x} /\ consumer' = "idle"
           \/ scanned' = scanned /\ consumer' = "put_back" /\ held' = x
    BY <1>2, Zenon DEF GetHost, AtFinishSignal
  <2>2. /\ Len(queue) > 0 /\ Len(queue') = Len(queue) - 1
        /\ x = queue[1] /\ x \in Targets \cup {FIN}
        /\ \A i \in 1..Len(queue') : queue'[i] = queue[i + 1]
        /\ \A y : On(y)' => On(y)
        /\ \A y : On(y) => On(y)' \/ y = x
        /\ On(x)
    BY <1>a, <2>1, QueuePopped, Zenon
  <2>3. Distinct' /\ \A y : y = x => ~On(y)'
    BY <1>a, <2>1, DistinctPopped, Zenon
  <2> HIDE DEF x
  <2>4. x \in Targets /\ x \in Queued \ scanned
    BY <1>d, <2>1, <2>2, Zenon
  <2>5. scanned' \subseteq Queued'
    BY <1>c, <1>d, <2>1, <2>4, Zenon
  <2>6. \A h \in Targets : On(h)' => h \in Queued' \ scanned'
    BY <1>c, <1>d, <2>1, <2>2, <2>3, Zenon
  <2>7. \A h \in Targets : consumer' = "put_back" /\ held' = h
                             => h \in Queued' \ scanned' /\ ~On(h)'
    BY <1>c, <2>1, <2>3, <2>4, Zenon
  <2>8. \A h \in Queued' \ scanned' : On(h)' \/ (consumer' = "put_back" /\ held' = h)
    BY <1>c, <1>d, <2>1, <2>2, Zenon
  <2>9. fin_put' => On(FIN)' /\ consumer' # "append"
    BY <1>c, <1>e, <2>1, <2>2, ZenonT(40)
  <2>10. fin_put' => Len(queue') > 0 /\ queue'[Len(queue')] = FIN
    <3> SUFFICES ASSUME fin_put PROVE Len(queue') > 0 /\ queue'[Len(queue')] = FIN
      BY <1>c, Zenon
    <3>1. queue[Len(queue)] = FIN /\ Len(queue) # 1
      BY <1>e, <2>1, <2>2, ZenonT(40)
    <3>2. Len(queue') \in 1..Len(queue') /\ Len(queue') + 1 = Len(queue)
      BY <1>a, <2>2, <3>1, SMTT(30)
    <3> QED BY <2>2, <3>1, <3>2
  <2>11. ASSUME NEW i \in 1..Len(queue'), queue'[i] = FIN PROVE i = Len(queue')
    <3>1. i + 1 \in 1..Len(queue) /\ queue[i + 1] = FIN
      <4>1. Len(queue') = Len(queue) - 1 /\ Len(queue) \in Nat
        BY <1>a, <2>2, Zenon
      <4>2. i + 1 \in 1..Len(queue)
        BY <4>1
      <4> QED BY <2>2, <2>11, <4>2, Zenon
    <3>2. i + 1 = Len(queue)
      BY <1>e, <2>1, <3>1, ZenonT(40)
    <3>3. Len(queue') = Len(queue) - 1 /\ Len(queue) \in Nat
      BY <1>a, <2>2, Zenon
    <3> QED BY <3>2, <3>3
  <2> QED BY <2>1, <2>3, <2>5, <2>6, <2>7, <2>8, <2>9, <2>10, <2>11, Zenon DEF QueueInv
<1>3. CASE put_host_on_queue
  <2> DEFINE x == held
  <2>1. /\ consumer = "put_back" /\ consumer' = "look" /\ x \in Targets
        /\ queue' = Append(queue, x) /\ finished' = finished /\ scanned' = scanned
    BY <1>3, <1>a, Zenon DEF put_host_on_queue
  <2>2. x \in Queued \ scanned /\ ~On(x) /\ x \in Targets \cup {FIN}
    BY <1>d, <2>1, Zenon
  <2>3. Distinct'
    BY <1>a, <2>1, <2>2, DistinctAppended, Zenon
  <2>4. \A y : On(y)' <=> On(y) \/ y = x
    BY <1>a, <2>1, <2>2, QueueAppended, Zenon
  <2>5. /\ scanned' \subseteq Queued'
        /\ \A h \in Targets : On(h)' => h \in Queued' \ scanned'
    BY <1>c, <1>d, <2>1, <2>2, <2>4, Zenon
  <2>6. \A h \in Queued' \ scanned' : On(h)'
    BY <1>c, <1>d, <2>1, <2>4, Zenon
  <2>7. fin_put' => On(FIN)'
    BY <1>b, <1>c, <1>e, <2>1, <2>4, Zenon
  <2>8. ~finished'
    BY <1>b, <2>1, Zenon
  <2> QED BY <2>1, <2>3, <2>5, <2>6, <2>7, <2>8 DEF QueueInv
<1>4. CASE finish_signal_on_queue
  <2>1. /\ consumer = "look" /\ consumer' = (IF fin_seen' THEN "remove" ELSE "idle")
        /\ UNCHANGED <<queue, finished, scanned>>
    BY <1>4 DEF finish_signal_on_queue
  <2>2. fin_seen' <=> fin_seen \/ FinOnQueue
    BY <1>4, Zenon DEF finish_signal_on_queue
  <2>3. Distinct' /\ \A y : On(y)' <=> On(y)
    BY <1>a, <2>1, Zenon DEF On, Distinct
  <2>4. ~finished' /\ consumer' \in {"remove", "idle"}
    BY <1>b, <2>1, Zenon
  <2>5. consumer' = "idle" => ~On(FIN)
    BY <2>1, <2>2, Zenon DEF FinOnQueue, On
  <2>6. fin_put' => On(FIN)' /\ consumer' # "idle"
    BY <1>b, <1>c, <1>e, <2>1, <2>3, <2>5, Zenon
  <2>7. consumer' = "idle" => \A i \in 1..Len(queue') : queue'[i] = FIN => i = Len(queue')
    BY <2>1, <2>5, Zenon DEF On
  <2>8. \A h \in Queued' \ scanned' : On(h)'
    BY <1>c, <1>d, <2>1, <2>3, Zenon
  <2>9. /\ scanned' \subseteq Queued'
        /\ \A h \in Targets : On(h)' => h \in Queued' \ scanned'
    BY <1>c, <1>d, <2>1, <2>3, Zenon
  <2> QED BY <2>3, <2>4, <2>6, <2>7, <2>8, <2>9, ZenonT(40) DEF QueueInv
<1>5. CASE RemoveFinishSignal
  <2>1. consumer = "remove" /\ consumer' = "append" /\ UNCHANGED <<finished, scanned>>
    BY <1>5, Zenon DEF RemoveFinishSignal
  <2>2. ~finished' /\ On(FIN)
    BY <1>b, <1>e, <2>1, Zenon
  <2>3. PICK i \in 1..Len(queue) : queue[i] = FIN /\ queue' = QueueWithout(i)
    BY <1>5, <2>2, Zenon DEF RemoveFinishSignal, FinOnQueue, On
  <2>4. Distinct' /\ ~On(FIN)' /\ \A y : y # FIN => (On(y)' <=> On(y))
    <3>1. /\ Distinct' /\ \A y : y # queue[i] => (On(y)' <=> On(y))
          /\ ~\E j \in 1..Len(queue') : queue'[j] = queue[i]
      BY <1>a, <2>3, DistinctRemoved, Zenon
    <3> QED BY <2>3, <3>1, Zenon DEF On
  <2>5. \A h \in Targets : On(h)' <=> On(h)
    BY <1>a, <2>4, Zenon
  <2>6. \A h \in Queued' \ scanned' : On(h)'
    BY <1>c, <1>d, <2>1, <2>5, Zenon
  <2>7. /\ scanned' \subseteq Queued'
        /\ \A h \in Targets : On(h)' => h \in Queued' \ scanned'
    BY <1>c, <1>d, <2>1, <2>5, Zenon
  <2> QED BY <2>1, <2>2, <2>4, <2>6, <2>7, Zenon DEF QueueInv
<1>6. CASE AppendFinishSignal
  <2>1. /\ consumer = "append" /\ consumer' = "idle" /\ UNCHANGED <<finished, scanned>>
        /\ queue' = Append(queue, FIN) /\ FIN \in Targets \cup {FIN}
    BY <1>6, Zenon DEF AppendFinishSignal
  <2>2. ~finished' /\ ~On(FIN)
    BY <1>b, <1>e, <2>1, Zenon
  <2>3. Distinct'
    BY <1>a, <2>1, <2>2, DistinctAppended, Zenon
  <2>4. /\ Len(queue') = Len(queue) + 1 /\ queue'[Len(queue')] = FIN
        /\ \A i \in 1..Len(queue) : queue'[i] = queue[i]
        /\ \A y : On(y)' <=> On(y) \/ y = FIN
    BY <1>a, <2>1, QueueAppended, Zenon
  <2>5. \A h \in Targets : On(h)' <=> On(h)
    BY <1>a, <2>4, ZenonT(40)
  <2>6. \A i \in 1..Len(queue') : queue'[i] = FIN => i = Len(queue')
    BY <1>a, <2>2, <2>4, SMTT(30) DEF On
  <2>7. Len(queue') > 0 /\ On(FIN)'
    BY <1>a, <2>4, SMTT(30)
  <2>8. \A h \in Queued' \ scanned' : On(h)'
    BY <1>c, <1>d, <2>1, <2>5, Zenon
  <2>9. /\ scanned' \subseteq Queued'
        /\ \A h \in Targets : On(h)' => h \in Queued' \ scanned'
    BY <1>c, <1>d, <2>1, <2>5, Zenon
  <2> QED BY <2>1, <2>2, <2>3, <2>4, <2>6, <2>7, <2>8, <2>9, Zenon DEF QueueInv
<1> QED BY <1>1, <1>2, <1>3, <1>4, <1>5, <1>6, Zenon DEF Consumer
=============================================================================
