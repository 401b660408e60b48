-------------------------- MODULE MCAliveDetection --------------------------
(* Instances of AliveDetection for TLC.                                    *)
EXTENDS AliveDetection, TLC

CONSTANTS h1, h2, h3, h4

TwoHosts == {h1, h2}
ThreeHosts == {h1, h2, h3}
FourHosts == {h1, h2, h3, h4}

HostSymmetry == Permutations(Targets)

Pref(methods, limit) ==
  [has_alive_test |-> TRUE, alive_test |-> methods, max_scan_hosts |-> limit,
   wait_timeout |-> 1]

\* No limit, and one that is not reached, just reached or exceeded; consider-alive
\* is there for the cancellations inside its loop.
IcmpPrefs == {Pref({ICMP}, n) : n \in {0, 2}} \union {Pref({CONSIDER_ALIVE}, 2)}

\* Every selection of methods in which hosts come from one source: pings alone,
\* consider-alive alone, nothing, and a missing ALIVE_TEST.
PingSelections == SUBSET (Methods \ {CONSIDER_ALIVE})
SoloPrefs ==
  {Pref(m, n) : m \in PingSelections \cup {{CONSIDER_ALIVE}}, n \in 0..2}
    \cup {[Pref({}, 0) EXCEPT !.has_alive_test = FALSE]}

\* The same for fewer selections, and consider-alive together with a ping method
\* where no limit can be exceeded.
ContractPrefs ==
  {Pref(m, n) : m \in {{ICMP}, {TCP_ACK}, {CONSIDER_ALIVE}}, n \in 0..2}
    \cup {Pref({ARP, CONSIDER_ALIVE}, 0),
          [Pref({}, 0) EXCEPT !.has_alive_test = FALSE]}

\* Single configurations.
IcmpAlone == {Pref({ICMP}, 0)}
ArpAndConsiderLimited == {Pref({ARP, CONSIDER_ALIVE}, 2)}
=============================================================================
