--------------------------- MODULE MCNetworkWorker ---------------------------
(***************************************************************************)
(* Instances of NetworkWorker for TLC.                                     *)
(***************************************************************************)
EXTENDS NetworkWorker

CONSTANTS w1, w2, c1, c2, c3

\* One thread, and descriptors for three clients: one may keep the lock, one wait
\* for it in the prepare loop, and one for the accept handler.
OneThread == [workers |-> {w1}, clients |-> {c1, c2, c3}, allowed |-> {c1, c2, c3}, sockets |-> 4]

\* A second thread can run the handler of a signal while the first is in the loop.
TwoThreads == [workers |-> {w1, w2}, clients |-> {c1, c2}, allowed |-> {c1, c2}, sockets |-> 2]

\* One descriptor for two clients, one of which is not in the whitelist.
Whitelist == [workers |-> {w1}, clients |-> {c1, c2}, allowed |-> {c1}, sockets |-> 1]

\* workers = 0.
NoThread == [workers |-> {}, clients |-> {c1}, allowed |-> {c1}, sockets |-> 1]

EverySetup == {OneThread, TwoThreads, Whitelist, NoThread}
=============================================================================
