---------------------------- MODULE NetworkWorker ----------------------------
(***************************************************************************)
(* The life of the server process: NetworkWorker::run with its io_context, *)
(* its threads and its signal set, the accept loop of ListenSocket, and    *)
(* the connections it makes, up to the exit of main.                       *)
(*                                                                         *)
(* A connection is one SQLiteSocket with at most one request (see the      *)
(* module SQLiteSocket); of its requests only those are told apart that    *)
(* decide whether a thread comes back: "hold" begins an exclusive          *)
(* transaction, "free" ends it, if there is one, "first" is the first      *)
(* statement on a handle, whose sqlite3_prepare_v2 is repeated while       *)
(* another one holds the lock, and "throws" ends with an exception that    *)
(* nobody catches (see the module RequestHandler).                         *)
(***************************************************************************)
EXTENDS Naturals, FiniteSets

CONSTANTS
    Threads,
    Clients,
    Setups,    \* what the server may be started with
    Kinds,     \* the kinds of requests clients send
    NoClient

\* The threads of the pool (Config::workers), the clients that come, those whose
\* address Config::is_ip_allowed lets in, and the descriptors for connections.
SetupType ==
    [workers : SUBSET Threads, clients : SUBSET Clients, allowed : SUBSET Clients, sockets : Nat]

ASSUME WorkerAssumption ==
    /\ IsFiniteSet(Clients)
    /\ Setups \subseteq SetupType
    /\ Kinds \subseteq {"hold", "free", "first", "throws"}
    /\ NoClient \notin Clients
    /\ {"poll", "returned"} \intersect Clients = {}

VARIABLES
    setup,    \* what the server was started with
    main,     \* "running" in run(), "returned" from it, "exited", or "terminated"
    stopped,  \* io_context::stop has been called
    signal,   \* the wait of the signal_set: "none" yet, "ready" to run, "handled"
    pc,       \* per thread: "poll", "returned" (ended), or the client it works for
    accept,   \* the async_accept: "pending", "done", "failed", or "none"
    socket,   \* m_socket of ListenSocket: the client it is connected to
    peer,     \* per client: "away", "here" (connected), "gone" (closed by it)
    place,    \* per client: where the server has its connection
    kind,     \* per client: the request in progress
    holder,   \* the client whose transaction holds the exclusive lock
    thrower   \* history: the client whose request terminated the process

vars == <<setup, main, stopped, signal, pc, accept, socket, peer, place, kind, holder, thrower>>

\* A connection with a SQLiteSocket, by the state of its read chain.
Session == {"reading", "ready", "failed", "running"}

Workers == setup.workers
Allowed == setup.allowed
MaxSockets == setup.sockets

TypeOK ==
    /\ setup \in Setups
    /\ main \in {"running", "returned", "exited", "terminated"}
    /\ stopped \in BOOLEAN
    /\ signal \in {"none", "ready", "handled"}
    /\ pc \in [Workers -> {"poll", "returned"} \union Clients]
    /\ accept \in {"none", "pending", "done", "failed"}
    /\ socket \in Clients \union {NoClient}
    /\ peer \in [Clients -> {"away", "here", "gone"}]
    /\ place \in [Clients -> {"none", "backlog", "accepted"} \union Session]
    /\ kind \in [Clients -> Kinds \union {"none"}]
    /\ holder \in Clients \union {NoClient}
    /\ thrower \in Clients \union {NoClient}

\* NetworkWorker::run has made the ListenSocket, the signal set and the threads.
Init ==
    /\ setup \in Setups
    /\ main = "running" /\ stopped = FALSE /\ signal = "none"
    /\ pc = [w \in Workers |-> "poll"]
    /\ accept = "pending" /\ socket = NoClient
    /\ peer = [c \in Clients |-> "away"]
    /\ place = [c \in Clients |-> "none"]
    /\ kind = [c \in Clients |-> "none"]
    /\ holder = NoClient /\ thrower = NoClient

-----------------------------------------------------------------------------
(* The environment: clients, the kernel's queue of connections, signals. *)

Connects(c) ==
    /\ main = "running" /\ c \in setup.clients
    /\ peer[c] = "away"
    /\ peer' = [peer EXCEPT ![c] = "here"]
    /\ place' = [place EXCEPT ![c] = "backlog"]
    /\ UNCHANGED <<setup, main, stopped, signal, pc, accept, socket, kind, holder, thrower>>

Leaves(c) ==
    /\ peer[c] = "here"
    /\ peer' = [peer EXCEPT ![c] = "gone"]
    /\ UNCHANGED <<setup, main, stopped, signal, pc, accept, socket, place, kind, holder, thrower>>

\* SIGINT or SIGTERM: the wait of the signal_set completes.
SignalRaised ==
    /\ main = "running" /\ signal = "none"
    /\ signal' = "ready"
    /\ UNCHANGED <<setup, main, stopped, pc, accept, socket, peer, place, kind, holder, thrower>>

-----------------------------------------------------------------------------
(* ListenSocket *)

HasSocket(c) == place[c] \in Session \union {"accepted"}

SocketLeft == Cardinality({c \in Clients : HasSocket(c)}) < MaxSockets

AcceptCompletes(c) ==
    /\ ~stopped
    /\ accept = "pending" /\ socket = NoClient
    /\ place[c] = "backlog" /\ SocketLeft
    /\ accept' = "done"
    /\ socket' = c
    /\ place' = [place EXCEPT ![c] = "accepted"]
    /\ UNCHANGED <<setup, main, stopped, signal, pc, peer, kind, holder, thrower>>

\* The socket to accept into is open already, or there is no descriptor left.
AcceptFails ==
    /\ ~stopped
    /\ accept = "pending"
    /\ socket # NoClient \/ (~SocketLeft /\ \E c \in Clients : place[c] = "backlog")
    /\ accept' = "failed"
    /\ UNCHANGED <<setup, main, stopped, signal, pc, socket, peer, place, kind, holder, thrower>>

\* An idle thread runs a handler; nothing starts after stop().
Idle(w) == pc[w] = "poll" /\ ~stopped

\* Mutation: clients are let in without a look at the whitelist.
AcceptAnyClient(w) ==
    LET c == socket IN
    /\ Idle(w)
    /\ accept = "done"
    /\ place' = [place EXCEPT ![c] = "reading"]
    /\ socket' = NoClient
    /\ accept' = "pending"
    /\ UNCHANGED <<setup, main, stopped, signal, pc, peer, kind, holder, thrower>>

\* Mutation: a connection is served to its end before the next one.
AcceptClientAlone(w) ==
    LET c == socket IN
    /\ Idle(w)
    /\ accept = "done"
    /\ c \in Allowed
    /\ \A d \in Clients : place[d] \notin Session
    /\ place' = [place EXCEPT ![c] = "reading"]
    /\ socket' = NoClient
    /\ accept' = "pending"
    /\ UNCHANGED <<setup, main, stopped, signal, pc, peer, kind, holder, thrower>>

\* The handler of do_accept: a SQLiteSocket that reads, and the next accept.
AcceptClient(w) ==
    LET c == socket IN
    /\ Idle(w)
    /\ accept = "done"
    /\ c \in Allowed
    /\ place' = [place EXCEPT ![c] = "reading"]
    /\ socket' = NoClient
    /\ accept' = "pending"
    /\ UNCHANGED <<setup, main, stopped, signal, pc, peer, kind, holder, thrower>>

\* Mutation: the rejected socket is not closed.
RejectKeepsSocket(w) ==
    /\ Idle(w)
    /\ accept = "done"
    /\ socket \notin Allowed
    /\ accept' = "pending"
    /\ UNCHANGED <<setup, main, stopped, signal, pc, socket, peer, place, kind, holder, thrower>>

\* The client is not in the whitelist, or it has gone and its address cannot
\* be asked for any more: its socket is closed.
RejectClient(w) ==
    LET c == socket IN
    /\ Idle(w)
    /\ accept = "done"
    /\ c \notin Allowed \/ peer[c] = "gone"
    /\ place' = [place EXCEPT ![c] = "none"]
    /\ peer' = [peer EXCEPT ![c] = "away"]
    /\ socket' = NoClient
    /\ accept' = "pending"
    /\ UNCHANGED <<setup, main, stopped, signal, pc, kind, holder, thrower>>

\* Mutation: a failed accept is taken for a connection.
AcceptErrorIsClient(w) ==
    /\ Idle(w)
    /\ accept = "failed"
    /\ place' = [c \in Clients \union {socket} |-> IF c = socket THEN "reading" ELSE place[c]]
    /\ accept' = "pending"
    /\ UNCHANGED <<setup, main, stopped, signal, pc, socket, peer, kind, holder, thrower>>

\* After an error accept is called again at once.
AcceptError(w) ==
    /\ Idle(w)
    /\ accept = "failed"
    /\ accept' = "pending"
    /\ UNCHANGED <<setup, main, stopped, signal, pc, socket, peer, place, kind, holder, thrower>>

-----------------------------------------------------------------------------
(* Connections *)

RequestArrives(c) ==
    /\ ~stopped
    /\ place[c] = "reading" /\ peer[c] = "here"
    /\ place' = [place EXCEPT ![c] = "ready"]
    /\ UNCHANGED <<setup, main, stopped, signal, pc, accept, socket, peer, kind, holder, thrower>>

ReadFails(c) ==
    /\ ~stopped
    /\ place[c] = "reading" /\ peer[c] = "gone"
    /\ place' = [place EXCEPT ![c] = "failed"]
    /\ UNCHANGED <<setup, main, stopped, signal, pc, accept, socket, peer, kind, holder, thrower>>

\* The body handler parses the request: only now the server knows its kind.
StartRequest(w, c, k) ==
    /\ Idle(w)
    /\ place[c] = "ready"
    /\ place' = [place EXCEPT ![c] = "running"]
    /\ kind' = [kind EXCEPT ![c] = k]
    /\ pc' = [pc EXCEPT ![w] = c]
    /\ UNCHANGED <<setup, main, stopped, signal, accept, socket, peer, holder, thrower>>

\* handle_request returns.  A "hold" that finds the lock taken fails with the
\* busy timeout; a "first" comes back only when the lock is free.
FinishRequest(w) ==
    LET c == pc[w] IN
    /\ c \in Clients /\ kind[c] # "throws"
    /\ kind[c] = "first" => holder \in {c, NoClient}
    /\ holder' = CASE kind[c] = "hold" /\ holder = NoClient -> c
                   [] kind[c] = "free" /\ holder = c -> NoClient
                   [] OTHER -> holder
    /\ place' = [place EXCEPT ![c] = "reading"]
    /\ kind' = [kind EXCEPT ![c] = "none"]
    /\ pc' = [pc EXCEPT ![w] = "poll"]
    /\ UNCHANGED <<setup, main, stopped, signal, accept, socket, peer, thrower>>

Disconnect(cs) ==
    /\ place' = [c \in Clients |-> IF c \in cs THEN "none" ELSE place[c]]
    /\ peer' = [c \in Clients |-> IF c \in cs THEN "away" ELSE peer[c]]

\* handle_request throws what neither the body handler nor io_context::run nor
\* the function of the thread catches: std::terminate, with all connections.
RequestThrows(w) ==
    /\ pc[w] \in Clients /\ kind[pc[w]] = "throws"
    /\ main' = "terminated" /\ thrower' = pc[w]
    /\ pc' = [v \in Workers |-> "returned"]
    /\ accept' = "none" /\ socket' = NoClient
    /\ Disconnect(Clients)
    /\ kind' = [c \in Clients |-> "none"]
    /\ holder' = NoClient
    /\ UNCHANGED <<setup, stopped, signal>>

\* The read handler with an error: the SQLiteSocket is destroyed, and with it
\* the database handles and their locks.
DropSession(w, c) ==
    /\ Idle(w)
    /\ place[c] = "failed"
    /\ place' = [place EXCEPT ![c] = "none"]
    /\ peer' = [peer EXCEPT ![c] = "away"]
    /\ holder' = IF holder = c THEN NoClient ELSE holder
    /\ UNCHANGED <<setup, main, stopped, signal, pc, accept, socket, kind, thrower>>

-----------------------------------------------------------------------------
(* Shutdown *)

\* The handler of the signal_set: m_service.stop().
StopService(w) ==
    /\ Idle(w)
    /\ signal = "ready"
    /\ signal' = "handled"
    /\ stopped' = TRUE
    /\ UNCHANGED <<setup, main, pc, accept, socket, peer, place, kind, holder, thrower>>

\* Mutation: a stopped thread first waits for the connections to end.
ThreadDrains(w) ==
    /\ pc[w] = "poll" /\ stopped
    /\ \A c \in Clients : place[c] \notin Session
    /\ pc' = [pc EXCEPT ![w] = "returned"]
    /\ UNCHANGED <<setup, main, stopped, signal, accept, socket, peer, place, kind, holder, thrower>>

\* io_context::run returns.  It never runs out of work before: the wait of the
\* signal_set is pending until stop() is called.
ThreadReturns(w) ==
    /\ pc[w] = "poll" /\ stopped
    /\ pc' = [pc EXCEPT ![w] = "returned"]
    /\ UNCHANGED <<setup, main, stopped, signal, accept, socket, peer, place, kind, holder, thrower>>

\* Mutation: the threads are not joined.
RunReturnsUnjoined ==
    /\ main = "running"
    /\ main' = "returned"
    /\ accept' = "none" /\ socket' = NoClient
    /\ UNCHANGED <<setup, stopped, signal, pc, peer, place, kind, holder, thrower>>

\* The connections that end with the ListenSocket, and those after them.
Unserved == {c \in Clients : place[c] \in {"backlog", "accepted"}}
Served == {c \in Clients : place[c] \in Session}

\* join_all returns, the ListenSocket and the signal set are destroyed.
RunReturns ==
    /\ main = "running"
    /\ \A w \in Workers : pc[w] = "returned"
    /\ main' = "returned"
    /\ accept' = "none" /\ socket' = NoClient
    /\ Disconnect(Unserved)
    /\ UNCHANGED <<setup, stopped, signal, pc, kind, holder, thrower>>

\* main returns: the io_context destroys its handlers, which own the
\* SQLiteSockets, and sqlite3_close rolls their transactions back.
Exit ==
    /\ main = "returned"
    /\ main' = "exited"
    /\ Disconnect(Served)
    /\ holder' = NoClient
    /\ kind' = [c \in Clients |-> "none"]
    /\ UNCHANGED <<setup, stopped, signal, pc, accept, socket, thrower>>

-----------------------------------------------------------------------------
Client(c) ==
    Connects(c) \/ Leaves(c) \/ ReadFails(c) \/ RequestArrives(c)

ReadHandler(w, c) == DropSession(w, c) \/ \E k \in Kinds : StartRequest(w, c, k)

EndRequest(w) == FinishRequest(w) \/ RequestThrows(w)

Listen(w) == AcceptClient(w) \/ RejectClient(w) \/ AcceptError(w)

Next ==
    \/ \E c \in Clients : Client(c) \/ AcceptCompletes(c)
    \/ AcceptFails \/ SignalRaised
    \/ \E w \in Workers :
          \/ Listen(w) \/ EndRequest(w)
          \/ StopService(w) \/ ThreadReturns(w)
          \/ \E c \in Clients : ReadHandler(w, c)
    \/ RunReturns \/ Exit

Spec == Init /\ [][Next]_vars

(***************************************************************************)
(* Fairness.  Threads run on.  The kernel hands out waiting connections in *)
(* order, and the io_context runs ready handlers in order, so none of them *)
(* is passed over for ever, though a thread is not idle all the time.      *)
(* Nothing is assumed of clients.                                          *)
(***************************************************************************)
Fairness ==
    /\ \A c \in Clients :
          /\ SF_vars(AcceptCompletes(c))
          /\ WF_vars(ReadFails(c))
          /\ SF_vars(\E w \in Workers : ReadHandler(w, c))
    /\ SF_vars(\E w \in Workers : Listen(w))
    /\ SF_vars(\E w \in Workers : StopService(w))
    /\ \A w \in Threads : WF_vars(w \in Workers /\ (EndRequest(w) \/ ThreadReturns(w)))
    /\ WF_vars(RunReturns \/ Exit)

FairSpec == Spec /\ Fairness

-----------------------------------------------------------------------------
(***************************************************************************)
(* The accept loop never dies and never accepts into an open socket, after *)
(* whatever sequence of accepted, rejected and failed connections: each    *)
(* way through the handler of do_accept leaves m_socket moved from or      *)
(* closed, and an async_accept pending.                                    *)
(***************************************************************************)
AcceptLoopArmed ==
    main = "running" => /\ accept # "none"
                        /\ accept = "done" <=> socket # NoClient

(***************************************************************************)
(* A client that the whitelist refuses at accept never gets to a thread or *)
(* to a lock; whoever has one of them is connected; and no client has two  *)
(* threads.                                                                *)
(***************************************************************************)
OnlySessionsServed ==
    /\ \A w \in Workers : pc[w] \in Clients =>
          /\ pc[w] \in Allowed /\ place[pc[w]] = "running"
          /\ \A v \in Workers : pc[v] = pc[w] => v = w
    /\ holder # NoClient => holder \in Allowed /\ place[holder] \in Session

(***************************************************************************)
(* The server ends in three ways only: run() returns after the handler of  *)
(* a signal has run, or at once when the pool has no thread; or it is      *)
(* terminated by an exception in a request, and then of a client that the  *)
(* whitelist has let in.                                                   *)
(***************************************************************************)
WaysToEnd ==
    /\ main \in {"returned", "exited"} => signal = "handled" \/ Workers = {}
    /\ main = "terminated" => thrower \in Allowed

\* The thread repeats sqlite3_prepare_v2 behind the lock of another connection.
Stuck(w) == pc[w] \in Clients /\ kind[pc[w]] = "first" /\ holder \notin {pc[w], NoClient}

\* All threads do: nobody is left to run the COMMIT of the connection that has
\* the lock, to notice its end, to accept, or to handle a signal.
PoolStuck == Workers # {} /\ \A w \in Workers : Stuck(w)

(***************************************************************************)
(* A client of the whitelist that connects is served, unless it leaves or  *)
(* the server ends: neither rejected clients nor accept errors end the     *)
(* accept loop.  This takes descriptors that become free again and again   *)
(* and a pool that is not stuck for ever, and nothing else.                *)
(***************************************************************************)
AllowedServed ==
    []<>SocketLeft /\ []<>~PoolStuck =>
        \A c \in Clients :
            c \in Allowed /\ place[c] = "backlog" ~>
                place[c] \in Session \/ peer[c] # "here" \/ stopped \/ main # "running"

(***************************************************************************)
(* A signal ends the process, whatever the clients do and although the     *)
(* requests in progress are waited for, but for threads that stay for ever *)
(* in the loop around sqlite3_prepare_v2.  There are two such cases: all   *)
(* of them do, and none is left to run the handler of the signal; or the   *)
(* handler has stopped the io_context, which therefore runs neither the    *)
(* COMMIT nor the end of the connection that has the lock.                 *)
(***************************************************************************)
StopsAfterSignal ==
    []<>~PoolStuck /\ []<>(stopped => \A w \in Workers : ~Stuck(w)) =>
        (signal = "ready" ~> main \in {"exited", "terminated"})
=============================================================================
