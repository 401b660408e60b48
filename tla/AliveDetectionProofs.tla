------------------------ MODULE AliveDetectionProofs ------------------------
(***************************************************************************)
(* Theorems about AliveDetection, for any set of targets, batch size,      *)
(* preferences and faults.                                                 *)
(***************************************************************************)
EXTENDS AliveDetectionSteps, FiniteSetTheorems

\* The sizes of the sets of announced hosts.
LEMMA QueuedSize ==
  ASSUME TypeOK
  PROVE  /\ Cardinality(Queued) \in Nat
         /\ pushed' = pushed => Cardinality(Queued)' = Cardinality(Queued)
         /\ \A h \in Targets \ Queued :
              Queued' = Queued \cup {h} => Cardinality(Queued)' = Cardinality(Queued) + 1
<1>1. Queued \subseteq Targets
  BY DEF Queued
<1>2. IsFiniteSet(Queued)
  BY <1>1, TargetsAssumption, FS_Subset, Zenon
<1>3. pushed' = pushed => Queued' = Queued
  BY DEF Queued
<1>4. ASSUME NEW h \in Targets \ Queued, Queued' = Queued \cup {h}
      PROVE  Cardinality(Queued') = Cardinality(Queued) + 1
  BY <1>2, <1>4, FS_AddElement, Zenon
<1> QED BY <1>2, <1>3, <1>4, FS_CardinalityType, Zenon

\* The library's facts hold in every well typed step.
LEMMA Library ==
  ASSUME TypeOK, [Next]_vars
  PROVE  LibraryFacts
<1>1. IsFiniteSet(alivehosts) /\ IsFiniteSet(alivehosts')
  BY TargetsAssumption, TargetsFound, FS_Subset, SMTT(30) DEF TypeOK
<1>2. number_of_targets \in Nat /\ number_of_alive \in Nat
  BY <1>1, FS_CardinalityType, TargetsAssumption, Zenon DEF number_of_targets, number_of_alive
<1>3. \A h \in Targets \ alivehosts :
        alivehosts' = alivehosts \cup {h} => number_of_alive' = number_of_alive + 1
  BY <1>1, FS_AddElement DEF number_of_alive
<1>4. \A S \in SUBSET (alivehosts') :
        Cardinality(S) \in Nat /\ Cardinality(S) <= number_of_alive'
  BY <1>1, FS_Subset, FS_CardinalityType, ZenonT(40) DEF number_of_alive
<1>5. ASSUME NEW i \in 1..Len(queue)
      PROVE  QueueWithout(i) \in Seq(Targets \cup {FIN})
  BY Without DEF TypeOK, QueueWithout
<1>6. UNCHANGED alivehosts => number_of_alive' = number_of_alive
  BY DEF number_of_alive
<1> QED
  BY <1>2, <1>3, <1>4, <1>5, <1>6, QueuedSize, SMTT(30) DEF LibraryFacts

\* The initial state is well typed.
LEMMA TypeInit == Init => TypeOK
<1> SUFFICES ASSUME Init PROVE TypeOK
  BY Zenon
<1>1. queue \in Seq(Targets \cup {FIN})
  BY DEF Init
<1>2. pinged \subseteq Methods \X Targets /\ scanned \subseteq Targets /\ alivehosts \subseteq Targets /\ todo \subseteq Targets
  BY DEF Init
<1>3. requeues \in 0..MaxRequeue /\ errmsg \in Int
  BY RequeueAssumption, SMT DEF Init
<1>4. hsr_host \in [Threads -> Targets \cup {NoHost}] /\ hsr_tmp \in [Threads -> Nat] /\ pushed \in [Targets -> Nat]
  BY DEF Init
<1>5. hsr \in [Threads -> {"idle", "load", "store", "push", "check"}]
  BY DEF Init
<1>6. /\ max_scan_hosts_reached \in BOOLEAN
      /\ limit_reached_handled \in BOOLEAN
      /\ canceled \in BOOLEAN /\ freed \in BOOLEAN /\ woken \in BOOLEAN
      /\ breakloop \in BOOLEAN /\ cancel_sniffer \in BOOLEAN
      /\ fin_put \in BOOLEAN /\ finished \in BOOLEAN /\ fin_seen \in BOOLEAN
  BY Zenon DEF Init
<1>7. pc \in ScanStates
  BY DEF Init, ScanStates
<1>8. /\ alive_hosts_count \in Nat /\ packets_send \in Nat
      /\ remaining_batch \in Int /\ prev_alive \in Nat /\ curr_alive \in Nat
      /\ waited \in Nat /\ deadhosts \in Int
  BY DEF Init
<1>9. /\ sniffer \in {"none", "starting", "loop", "exited", "canceled"}
      /\ mutex \in {"free", "scan", "destroyed"}
      /\ consumer \in {"idle", "put_back", "look", "remove", "append"}
      /\ held \in Targets \cup {NoHost} /\ prefs \in Prefs
      /\ consumer # "put_back" /\ \A t \in Threads : hsr[t] = "idle"
  BY DEF Init
<1> QED
  BY <1>1, <1>2, <1>3, <1>4, <1>5, <1>6, <1>7, <1>8, <1>9, SMTT(30) DEF TypeOK

\* The invariant holds initially.
LEMMA InvariantInit == Init => IInv
<1> SUFFICES ASSUME Init PROVE IInv
  OBVIOUS
<1>1. TypeOK
  BY TypeInit
<1>2. number_of_alive = 0 /\ Queued = {} /\ Cardinality(Queued) = 0
  <2>1. alivehosts = {} /\ \A h \in Targets : pushed[h] = 0
    BY DEF Init
  <2>2. Queued = {}
    BY <2>1 DEF Queued
  <2> QED
    BY <2>1, <2>2, FS_EmptySet DEF number_of_alive
<1>3. max_scan_hosts \in Nat /\ max_scan_hosts > 0
  BY <1>1, MaxScanHostsPositive, FS_CardinalityType, TargetsAssumption, SMTT(30)
     DEF TypeOK, number_of_targets
<1>4. Finder \in Threads /\ hsr[Finder] = "idle"
  BY Zenon DEF Init, Finder, Threads
<1>5. ControlInv
  BY Zenon DEF Init, ControlInv, Methods, Threads, ICMP, TCP_SYN, TCP_ACK, ARP,
     CONSIDER_ALIVE
<1>6. CountInv
  BY <1>2, <1>3, <1>4, SMTT(30) DEF Init, CountInv
<1>7. QueuedInv
  BY <1>2, <1>3, <1>4 DEF Init, QueuedInv, AnnouncedOnce, LimitRespected
<1>8. AccountInv
  BY DEF Init, AccountInv, DeadHostsAccounted, ScanOver
<1> QED
  BY <1>5, <1>6, <1>7, <1>8, SMTT(30) DEF IInv

\* The invariant is inductive, given the types.
LEMMA InvariantStep == TypeOK /\ IInv /\ [Next]_vars => TypeOK' /\ IInv'
<1> SUFFICES ASSUME TypeOK, IInv, [Next]_vars PROVE TypeOK' /\ IInv'
  BY Zenon
<1>1. LibraryFacts /\ number_of_targets \in Nat
  BY Library, Zenon DEF LibraryFacts
<1>2. OneSource' = OneSource
  BY <1>1, FixedByPrefs, Zenon
<1>3. TypeOK' /\ ControlInv'
  BY <1>1, TypeStep, ControlStep, Zenon DEF IInv
<1>4. ASSUME OneSource PROVE CountInv' /\ QueuedInv' /\ AccountInv'
  BY <1>1, <1>4, CountStep, QueuedStep, AccountStep, Zenon DEF IInv
<1> QED
  BY <1>2, <1>3, <1>4, Zenon DEF IInv

\* Every variable of the alive detection keeps its type, under every fault.
THEOREM TypeCorrect == Spec => []TypeOK
<1>1. TypeOK /\ [Next]_vars => TypeOK'
  BY Library, TypeStep
<1> QED
  BY <1>1, TypeInit, PTL DEF Spec

\* Types and invariant hold in every reachable state.
LEMMA Invariance == Spec => [](TypeOK /\ IInv)
  BY TypeInit, InvariantInit, InvariantStep, PTL DEF Spec

\* handle_scan_restrictions announces at most max_scan_hosts hosts, whatever
\* fails or is cancelled, as long as one thread finds the hosts.
THEOREM LimitHolds == Spec => [](OneSource => LimitRespected)
<1>1. TypeOK /\ IInv => (OneSource => LimitRespected)
  BY Zenon DEF IInv, QueuedInv
<1> QED
  BY <1>1, Invariance, PTL

\* got_packet and the consider-alive loop announce no host twice.
THEOREM NoHostTwice == Spec => [](OneSource => AnnouncedOnce)
<1>1. TypeOK /\ IInv => (OneSource => AnnouncedOnce)
  BY Zenon DEF IInv, QueuedInv
<1> QED
  BY <1>1, Invariance, PTL

\* The dead hosts scan() reports in batches and the hosts that may be scanned add
\* up to the number of targets, for every batch size and every interleaving.
THEOREM DeadHostsAddUp == Spec => [](OneSource => DeadHostsAccounted)
<1>1. TypeOK /\ IInv => (OneSource => DeadHostsAccounted)
  BY DEF IInv, AccountInv
<1> QED
  BY <1>1, Invariance, PTL

\* Unless the scan is cancelled, alive_detection_free runs after the sniffer.
THEOREM FreeAfterSniffer == Spec => [](~canceled => SnifferGoneBeforeFree)
<1>1. TypeOK /\ IInv => (~canceled => SnifferGoneBeforeFree)
  BY DEF IInv, ControlInv, SnifferGoneBeforeFree
<1> QED
  BY <1>1, Invariance, PTL

\* scan() has pinged every target with every selected method before it ends, or
\* has found it alive, for every selection, every batch size and every fault.
THEOREM AllPinged == Spec => []EveryTargetPinged
<1>1. Init => PingInv /\ TodoInv
  BY Zenon DEF Init, PingInv, TodoInv, Over, During, AfterPings, PingPhases,
         ICMP, TCP_SYN, TCP_ACK, ARP, CONSIDER_ALIVE
<1>2. TypeOK /\ IInv /\ PingInv /\ TodoInv /\ [Next]_vars => PingInv' /\ TodoInv'
  BY Library, PingStep, Zenon DEF LibraryFacts, IInv
<1>3. PingInv => EveryTargetPinged
  <2> SUFFICES ASSUME PingInv, ScanOver, NEW m \in alive_test \cap PingPhases,
                      NEW h \in Targets
               PROVE  Reached(m, h)
    BY Zenon DEF EveryTargetPinged, Reached
  <2>1. pc \in Over(m) /\ ~canceled
    BY DEF ScanOver, Over, AfterPings, PingPhases, ICMP, TCP_SYN, TCP_ACK, ARP
  <2> QED BY <2>1, Zenon DEF PingInv
<1> QED BY <1>1, <1>2, <1>3, Invariance, PTL DEF Spec

\* The progress bar ends at the number of targets, whatever the batches see and
\* wherever the sniffer is cancelled, when one thread finds the hosts.
THEOREM ProgressAddsUp == Spec => [](OneSource => ProgressComplete)
<1>1. TypeOK /\ Init => (OneSource => CompleteInv)
  <2> SUFFICES ASSUME TypeOK, Init PROVE CompleteInv
    BY Zenon
  <2>1. alivehosts = {} /\ Queued = {}
    BY DEF Init, Queued
  <2>2. number_of_alive = 0 /\ Cardinality(Queued) = 0
    BY <2>1, FS_EmptySet, Zenon DEF number_of_alive
  <2>3. ~InHand /\ sniffer = "none" /\ ~max_scan_hosts_reached
    BY DEF Init, InHand, Threads, Finder
  <2> QED BY <2>2, <2>3 DEF CompleteInv
<1>2. TypeOK /\ IInv /\ (OneSource => CompleteInv) /\ [Next]_vars
        => (OneSource => CompleteInv)'
  <2> SUFFICES ASSUME TypeOK, IInv, OneSource => CompleteInv, [Next]_vars, OneSource'
               PROVE  CompleteInv'
    BY Zenon
  <2>1. LibraryFacts /\ OneSource
    BY Library, FixedByPrefs, Zenon DEF LibraryFacts
  <2> QED BY <2>1, CompleteStep, Zenon DEF IInv
<1>3. TypeOK /\ IInv /\ (OneSource => CompleteInv) => (OneSource => ProgressComplete)
  <2> SUFFICES ASSUME TypeOK, IInv, CompleteInv, OneSource, ScanOver
               PROVE  number_of_targets - (deadhosts + Cardinality(Queued))
                        \in (IF sniffer = "canceled" THEN {0, 1} ELSE {0})
    BY DEF ProgressComplete
  <2>1. ~InHand
    <3>1. sniffer \notin {"starting", "loop"} /\ pc # CONSIDER_ALIVE
      BY Zenon DEF IInv, ControlInv, ScanOver, CONSIDER_ALIVE
    <3>2. hsr["scan"] = "idle" /\ hsr["sniffer"] = "idle"
      BY <3>1, Zenon DEF IInv, ControlInv
    <3> QED BY <3>2 DEF InHand, Finder
  <2>2. deadhosts + Scannable = number_of_targets /\ ~canceled
    BY DEF IInv, AccountInv, DeadHostsAccounted, ScanOver
  <2>3. /\ max_scan_hosts_reached => number_of_alive >= max_scan_hosts
        /\ ~max_scan_hosts_reached => number_of_alive <= max_scan_hosts
    BY Zenon DEF IInv, CountInv
  <2>4. /\ Cardinality(Queued) \in Nat /\ deadhosts \in Int
        /\ number_of_targets \in Nat /\ number_of_alive \in Nat
        /\ max_scan_hosts \in Nat
    <3>1. number_of_targets \in Nat
      BY TargetsAssumption, FS_CardinalityType, Zenon DEF number_of_targets
    <3>2. number_of_alive \in Nat
      BY TargetsAssumption, FS_Subset, FS_CardinalityType, ZenonT(40) DEF TypeOK, number_of_alive
    <3> QED BY <3>1, <3>2, QueuedSize, MaxScanHostsPositive, ZenonT(40) DEF TypeOK
  <2>5. Scannable = IF max_scan_hosts_reached THEN max_scan_hosts ELSE number_of_alive
    BY <2>3, <2>4 DEF Scannable
  <2>6. IF max_scan_hosts_reached THEN Cardinality(Queued) = max_scan_hosts
        ELSE number_of_alive - Cardinality(Queued)
               \in (IF sniffer = "canceled" THEN {0, 1} ELSE {0})
    BY <2>1, <2>2, Zenon DEF CompleteInv
  <2> QED BY <2>2, <2>4, <2>5, <2>6, SMTT(30)
<1> QED BY <1>1, <1>2, <1>3, TypeInit, Invariance, PTL DEF Spec

\* The finish signal is nowhere before the scan is over.
LEMMA SignalInvariance == Spec => []SignalInv
<1>1. Init => SignalInv
  BY DEF Init, SignalInv, FinOnQueue
<1>2. TypeOK /\ SignalInv /\ [Next]_vars => SignalInv'
  BY SignalStep, Zenon
<1> QED BY <1>1, <1>2, TypeCorrect, PTL DEF Spec

\* openvas is told how many alive hosts were left out, exactly, unless the scan is
\* cancelled, when one thread finds the hosts.
THEOREM MessageIsExact == Spec => [](OneSource /\ ~canceled => LimitMessageExact)
<1>1. Init => MessageInv
  BY Zenon DEF Init, MessageInv
<1>2. (TypeOK /\ IInv) /\ SignalInv /\ (OneSource => MessageInv) /\ [Next]_vars
        => (OneSource => MessageInv)'
  <2> SUFFICES ASSUME TypeOK, IInv, SignalInv, OneSource => MessageInv, [Next]_vars,
                      OneSource'
               PROVE  MessageInv'
    BY Zenon
  <2>1. LibraryFacts /\ OneSource
    BY Library, FixedByPrefs, Zenon DEF LibraryFacts
  <2> QED BY <2>1, MessageStep, Zenon DEF IInv
<1>3. (OneSource => MessageInv) => (OneSource /\ ~canceled => LimitMessageExact)
  BY DEF MessageInv, LimitMessageExact
<1> QED BY <1>1, <1>2, <1>3, Invariance, SignalInvariance, PTL DEF Spec

--------------------------------------------------------------------------------
(* The contract with openvas.                                              *)

\* What links the alive detection to its contract.
LinkInv ==
  /\ TypeOK /\ IInv
  /\ OneSource /\ ~canceled
  /\ CompleteInv /\ SignalInv /\ QueueInv

\* The invariant is inductive when the thread is not cancelled.
LEMMA LinkStep ==
  ASSUME "cancel" \notin Faults, LinkInv, [Next]_vars
  PROVE  LinkInv'
<1>1. TypeOK' /\ IInv'
  BY InvariantStep DEF LinkInv
<1>2. LibraryFacts /\ OneSource'
  BY Library, FixedByPrefs, Zenon DEF LinkInv, LibraryFacts
<1>3. CompleteInv' /\ SignalInv'
  BY <1>2, CompleteStep, SignalStep DEF LinkInv, IInv
<1>4. QueueInv'
  BY QueueDetectionStep, QueueConsumerStep, SMTT(30) DEF LinkInv, IInv
<1>5. ~canceled'
  <2>1. ~CancelAliveDetection
    BY Zenon DEF CancelAliveDetection
  <2> QED
    BY <2>1, StepCases, ScanStepFrame, RestrictionFrame, SnifferFrame, ConsumerFrame, SMTT(30)
       DEF ConsiderHost, got_packet, SnifferCanceled, vars, LinkInv
<1> QED BY <1>1, <1>2, <1>3, <1>4, <1>5, ZenonT(40) DEF LinkInv

\* The alive detection and openvas start as their contract does.
LEMMA LinkInit ==
  ASSUME \A p \in Prefs : CONSIDER_ALIVE \in p.alive_test => p.alive_test = {CONSIDER_ALIVE},
         Init
  PROVE  LinkInv /\ Contract!Init
<1>1. TypeOK /\ IInv
  BY TypeInit, InvariantInit, Zenon
<1>2. OneSource /\ ~canceled
  BY Zenon DEF Init, OneSource, alive_test
<1>3. alivehosts = {} /\ Queued = {}
  BY DEF Init, Queued
<1>4. CompleteInv
  <2>1. number_of_alive = 0 /\ Cardinality(Queued) = 0
    BY <1>3, FS_EmptySet, Zenon DEF number_of_alive
  <2>2. ~InHand /\ sniffer = "none" /\ ~max_scan_hosts_reached
    BY Zenon DEF Init, InHand, Threads, Finder
  <2> QED BY <2>1, <2>2 DEF CompleteInv
<1>5. queue = <<>> /\ \A y : ~On(y)
  BY DEF Init, On
<1>6. SignalInv
  BY DEF Init, SignalInv, FinOnQueue
<1>7. QueueInv
  <2>1. Distinct /\ \A i \in 1..Len(queue) : queue[i] = FIN => i = Len(queue)
    BY <1>5, SMTT(30) DEF Distinct
  <2> QED BY <1>3, <1>5, <2>1, Zenon DEF Init, QueueInv
<1>8. max_scan_hosts \in Nat
  <2>1. number_of_targets \in Nat
    BY TargetsAssumption, FS_CardinalityType DEF number_of_targets
  <2> QED BY <1>1, <2>1, MaxScanHostsPositive, SMTT(30) DEF TypeOK
<1> QED BY <1>1, <1>2, <1>3, <1>4, <1>6, <1>7, <1>8, SMTT(30) DEF LinkInv, Contract!Init, Init

\* Every step is a step of the contract or changes nothing openvas can see.
LEMMA LinkRefines ==
  ASSUME LinkInv, [Next]_vars
  PROVE  [Contract!Next]_(Contract!contractVars)
<1>a. /\ TypeOK /\ LibraryFacts /\ ControlInv /\ OneSource /\ CountInv /\ QueuedInv
      /\ CompleteInv /\ SignalInv /\ QueueInv /\ ~canceled
  BY Library DEF LinkInv, IInv
<1>b. max_scan_hosts' = max_scan_hosts /\ max_scan_hosts \in Nat
  BY <1>a, FixedByPrefs, Zenon DEF LibraryFacts
<1>c. pushed' = pushed => Queued' = Queued
  BY DEF Queued
<1> USE DEF Contract!contractVars, Contract!Next
<1>1. CASE Consumer
  <2>1. Queued' = Queued /\ fin_put' = fin_put
    BY <1>1, <1>c, ConsumerFrame, Zenon
  <2>2. CASE GetFinishSignal
    <3>1. /\ consumer = "idle" /\ ~finished /\ finished' = TRUE /\ scanned' = scanned
          /\ queue # <<>> /\ Head(queue) = FIN
      BY <2>2, ZenonT(40) DEF GetFinishSignal, AtFinishSignal
    <3>2. 1 \in 1..Len(queue) /\ queue[1] = FIN
      BY <1>a, <3>1, SMTT(30) DEF TypeOK
    <3>3. fin_put = TRUE
      BY <1>a, <3>2 DEF SignalInv, FinOnQueue, TypeOK
    <3>4. Len(queue) = 1
      BY <1>a, <3>1, <3>2, Zenon DEF QueueInv
    <3>5. ASSUME NEW h \in Queued PROVE h \in scanned
      <4>1. h \in Targets /\ h # FIN
        BY SentinelAssumption DEF Queued
      <4>2. ~On(h)
        BY <3>2, <3>4, <4>1, SMTT(30) DEF On
      <4> QED BY <1>a, <3>1, <4>2, SMTT(30) DEF QueueInv
    <3>6. scanned = Queued
      BY <1>a, <3>5 DEF QueueInv
    <3>7. Contract!Finish
      BY <1>b, <2>1, <3>1, <3>3, <3>6, SMTT(30) DEF Contract!Finish
    <3> QED BY <3>7, Zenon
  <2>3. CASE GetHost
    <3>1. /\ ~finished /\ finished' = finished /\ queue # <<>> /\ Head(queue) # FIN
          /\ scanned' \in {scanned \cup {Head(queue)}, scanned}
      BY <2>3 DEF GetHost, AtFinishSignal
    <3>2. 1 \in 1..Len(queue) /\ queue[1] = Head(queue) /\ Head(queue) \in Targets
      BY <1>a, <3>1 DEF TypeOK
    <3>3. Head(queue) \in Queued \ scanned
      BY <1>a, <3>2, Zenon DEF QueueInv, On
    <3>4. CASE scanned' = scanned \cup {Head(queue)}
      <4>1. Contract!Take(Head(queue))
        BY <1>b, <2>1, <3>1, <3>3, <3>4, ZenonT(40) DEF Contract!Take
      <4> QED BY <3>2, <4>1, Zenon
    <3> QED BY <1>b, <2>1, <3>1, <3>4
  <2>4. CASE put_host_on_queue \/ finish_signal_on_queue \/ RemoveFinishSignal
               \/ AppendFinishSignal
    <3>1. finished' = finished /\ scanned' = scanned
      BY <2>4, Zenon DEF put_host_on_queue, finish_signal_on_queue, RemoveFinishSignal,
                  AppendFinishSignal
    <3> QED BY <1>b, <2>1, <3>1, Zenon
  <2> QED BY <1>1, <2>2, <2>3, <2>4, SMTT(30) DEF Consumer
<1>2. CASE ~Consumer
  <2>1. finished' = finished /\ scanned' = scanned
    <3>1. UNCHANGED consumerVars
      BY <1>2, DetectionFrame
    <3> QED BY <3>1 DEF consumerVars
  <2>2. CASE put_finish_signal_on_queue
    <3>1. ~fin_put /\ fin_put' = TRUE /\ pushed' = pushed
      BY <1>a, <2>2, Zenon DEF put_finish_signal_on_queue, SignalInv, scanFrame
    <3>2. Contract!Close
      BY <1>b, <1>c, <2>1, <3>1, Zenon DEF Contract!Close
    <3> QED BY <3>2, Zenon
  <2>3. ASSUME NEW t \in Threads, PutHost(t), MayPut
        PROVE  [Contract!Next]_(Contract!contractVars)
    <3> DEFINE x == hsr_host[t]
    <3>1. hsr[t] = "push" /\ t = Finder /\ ~max_scan_hosts_reached
      BY <1>a, <2>3, OtherThreadIdle, Zenon DEF PutHost, MayPut
    <3>2. ~fin_put /\ fin_put' = fin_put
      BY <1>a, <2>3, <3>1, BeforeSignal, Zenon DEF PutHost
    <3>3. /\ x \in Targets \ Queued
          /\ Queued' = Queued \cup {x}
      BY <1>a, <2>3, <3>1, Announced, Zenon
    <3>4. Queued' = Queued \cup {x}
      BY <3>3, Zenon
    <3> HIDE DEF x
    <3>5. Cardinality(Queued) < max_scan_hosts
      <4>1. number_of_alive - Cardinality(Queued) = 1
        BY <1>a, <3>1, Zenon DEF CompleteInv, InHand
      <4>2. number_of_alive <= max_scan_hosts
        BY <1>a, <3>1, Zenon DEF CountInv
      <4>3. Cardinality(Queued) \in Nat /\ number_of_alive \in Nat
        BY <1>a, QueuedSize DEF LibraryFacts
      <4> QED BY <1>b, <4>1, <4>2, <4>3, SMTT(30)
    <3>6. Contract!Cardinality(Queued) = Cardinality(Queued)
      BY DEF Contract!Cardinality, Cardinality
    <3>7. Contract!Announce(x)
      BY <1>b, <2>1, <3>2, <3>3, <3>4, <3>5, <3>6, SMTT(30) DEF Contract!Announce
    <3> QED BY <3>3, <3>7, Zenon
  <2>4. ASSUME ~\E t \in Threads : PutHost(t) /\ MayPut, ~put_finish_signal_on_queue
        PROVE  UNCHANGED <<fin_put, pushed>>
    BY <1>2, <2>4, DetectionFrame
  <2> QED BY <1>b, <1>c, <2>1, <2>2, <2>3, <2>4, SMTT(30)
<1> QED BY <1>1, <1>2

\* The alive detection implements the safety part of its contract, under every
\* fault but a cancelled thread, when one thread finds the hosts.
THEOREM MeetsContract ==
  ASSUME "cancel" \notin Faults,
         \A p \in Prefs : CONSIDER_ALIVE \in p.alive_test => p.alive_test = {CONSIDER_ALIVE}
  PROVE  Spec => Contract!Spec
<1>1. Init => LinkInv /\ Contract!Init
  BY LinkInit, Zenon
<1>2. LinkInv /\ [Next]_vars => LinkInv'
  BY LinkStep
<1>3. LinkInv /\ [Next]_vars => [Contract!Next]_(Contract!contractVars)
  BY LinkRefines
<1> QED BY <1>1, <1>2, <1>3, PTL DEF Spec, Contract!Spec
=============================================================================
