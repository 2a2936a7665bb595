--------------------------- MODULE MCEpollServer ---------------------------
(* Instances of EpollServer for TLC.                                        *)
EXTENDS EpollServer, TLC

\* Slave blocks and connections are interchangeable.
SlavesAndConns == Permutations(Slaves) \cup Permutations(Conns)

\* The lowest descriptors a process can get, after stdin, stdout and stderr.
SomeFds == 3..6

=============================================================================
