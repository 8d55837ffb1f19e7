---------------------------- MODULE DriverHistory ----------------------------
(* Driver with the time each node id was last given up.  History only: no    *)
(* step of the driver depends on it.                                          *)
EXTENDS Driver

VARIABLE released   \* node id -> tick its last lease ended, in this process

Holds(L, n) == \E l \in L : l.node = n

HistoryInit == Init /\ released = [n \in NodeIds |-> 0]

HistoryNext ==
    /\ Next
    /\ released' = [n \in NodeIds |->
                      IF restarts' # restarts THEN 0
                      ELSE IF Holds(leases, n) /\ ~Holds(leases', n) THEN now
                      ELSE released[n]]

HistorySpec == HistoryInit /\ [][HistoryNext]_<<vars, released>> /\ Fairness

\* A node id whose lease ended, by detach or by expiry, is not given out again,
\* on request or by the driver's own choice, before node_id_reuse_cooldown_ms
\* have passed.
NodeIdReuseWaits ==
    [][\A n \in NodeIds :
         ~Holds(leases, n) /\ Holds(leases', n) /\ released[n] # 0 =>
            now >= released[n] + CooldownTicks]_<<vars, released>>

=============================================================================
