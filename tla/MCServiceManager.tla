-------------------------- MODULE MCServiceManager --------------------------
(* Instances of ServiceManager for TLC.                                    *)
EXTENDS ServiceManager, TLC

CONSTANTS hub, cli, p1, p2, p3

\* Spawned by the hub, or run by runit on a machine without /proc/net/tcp; and
\* a service without a port.
AllSettings == {[http |-> TRUE, runit |-> FALSE, proc |-> TRUE],
                [http |-> TRUE, runit |-> TRUE, proc |-> FALSE],
                [http |-> FALSE, runit |-> FALSE, proc |-> TRUE]}

Symmetry == Permutations(Pids)

=============================================================================
