------------------------- MODULE NetworkWorkerProofs -------------------------
(***************************************************************************)
(* Proofs about the life of the server process, for any pool of threads,   *)
(* set of clients, whitelist and number of descriptors.                    *)
(***************************************************************************)
EXTENDS NetworkWorker, TLAPS

\* m_socket is connected exactly from the accept to the end of its handler.
SocketInv ==
    /\ socket # NoClient => place[socket] = "accepted"
    /\ accept = "done" <=> socket # NoClient
    /\ main = "running" => accept # "none"

\* The server has no connection to a client that is away.
\* A SQLiteSocket is made for clients of the whitelist only, a thread is in
\* the handler of one connection, and a lock belongs to a living connection.
SessionInv ==
    /\ \A c \in Clients : peer[c] = "away" => place[c] = "none"
    /\ \A c \in Clients : place[c] \in Session => c \in Allowed
    /\ \A w \in Workers : pc[w] \in Clients => place[pc[w]] = "running"
    /\ \A v, w \in Workers : pc[v] \in Clients /\ pc[v] = pc[w] => v = w
    /\ holder # NoClient => place[holder] \in Session

\* run() waits for the threads, which wait for stop(), which waits for a signal;
\* an exception ends all of it, and the request it comes from is of a session.
ShutdownInv ==
    /\ stopped => signal = "handled"
    /\ main # "terminated" => \A w \in Workers : pc[w] = "returned" => stopped
    /\ main # "running" => \A w \in Workers : pc[w] = "returned"
    /\ main = "terminated" => thrower \in Allowed

Inv == TypeOK /\ SocketInv /\ SessionInv /\ ShutdownInv

\* The server as it starts (NetworkWorker::run) satisfies the invariant.
LEMMA InvInit == Init => Inv
  <1> SUFFICES ASSUME Init PROVE Inv
    OBVIOUS
  <1> USE WorkerAssumption DEF Init, SetupType, Workers, Allowed
  <1>1. TypeOK
    BY DEF TypeOK
  <1>2. SocketInv
    BY DEF SocketInv
  <1>3. SessionInv
    <2>1. \A w \in Workers : pc[w] \notin Clients
      OBVIOUS
    <2> QED
      BY <2>1 DEF SessionInv, Session
  <1>4. ShutdownInv
    BY DEF ShutdownInv
  <1> QED
    BY <1>1, <1>2, <1>3, <1>4 DEF Inv

\* Every operation of the server keeps the types.
LEMMA TypeStep == TypeOK /\ [Next]_vars => TypeOK'
  <1> SUFFICES ASSUME TypeOK, [Next]_vars PROVE TypeOK'
    OBVIOUS
  <1> USE WorkerAssumption DEF TypeOK, Session, SetupType, Workers, Allowed
  <1>1. CASE \E c \in Clients : Client(c) \/ AcceptCompletes(c)
    BY <1>1 DEF Client, Connects, Leaves, ReadFails, RequestArrives, AcceptCompletes
  <1>2. CASE AcceptFails \/ SignalRaised
    BY <1>2 DEF AcceptFails, SignalRaised
  <1>3. ASSUME NEW w \in Workers, Listen(w) PROVE TypeOK'
    BY <1>3 DEF Listen, AcceptClient, RejectClient, AcceptError
  <1>4. ASSUME NEW w \in Workers, FinishRequest(w) PROVE TypeOK'
    <2> DEFINE c == pc[w]
    <2>1. c \in Clients
      BY <1>4 DEF FinishRequest
    <2>2. holder' \in {c, NoClient, holder}
      BY <1>4 DEF FinishRequest
    <2> QED
      BY <1>4, <2>1, <2>2 DEF FinishRequest
  <1>5. ASSUME NEW w \in Workers, StopService(w) \/ ThreadReturns(w) PROVE TypeOK'
    BY <1>5 DEF StopService, ThreadReturns
  <1>6. ASSUME NEW w \in Workers, NEW c \in Clients, ReadHandler(w, c)
        PROVE  TypeOK'
    BY <1>6 DEF ReadHandler, StartRequest, DropSession
  <1>7. CASE RunReturns \/ Exit
    BY <1>7 DEF RunReturns, Exit, Disconnect
  <1>8. CASE UNCHANGED vars
    BY <1>8 DEF vars
  <1>9. ASSUME NEW w \in Workers, RequestThrows(w) PROVE TypeOK'
    BY <1>9 DEF RequestThrows, Disconnect
  <1> QED
    BY <1>1, <1>2, <1>3, <1>4, <1>5, <1>6, <1>7, <1>8, <1>9 DEF Next, EndRequest

\* Every operation of the server keeps the rest of the invariant.
LEMMA InvStep == Inv /\ [Next]_vars => Inv'
  <1> SUFFICES ASSUME Inv, [Next]_vars PROVE Inv'
    OBVIOUS
  <1>0. TypeOK /\ TypeOK'
    BY TypeStep DEF Inv
  <1> USE <1>0, WorkerAssumption DEF Inv, TypeOK, SocketInv, SessionInv, ShutdownInv, Session,
      SetupType, Workers, Allowed
  <1>1. ASSUME NEW c \in Clients, Client(c) \/ AcceptCompletes(c) PROVE Inv'
    <2>1. CASE Connects(c)
      BY <2>1 DEF Connects
    <2>2. CASE Leaves(c) \/ ReadFails(c)
      BY <2>2 DEF Leaves, ReadFails
    <2>3. CASE RequestArrives(c)
      BY <2>3 DEF RequestArrives
    <2>4. CASE AcceptCompletes(c)
      BY <2>4 DEF AcceptCompletes
    <2> QED
      BY <1>1, <2>1, <2>2, <2>3, <2>4 DEF Client
  <1>2. CASE AcceptFails \/ SignalRaised
    BY <1>2 DEF AcceptFails, SignalRaised
  <1>3. ASSUME NEW w \in Workers, Listen(w) PROVE Inv'
    BY <1>3 DEF Listen, AcceptClient, RejectClient, AcceptError, Idle
  <1>4. ASSUME NEW w \in Workers, FinishRequest(w) PROVE Inv'
    BY <1>4 DEF FinishRequest
  <1>5. ASSUME NEW w \in Workers, StopService(w) \/ ThreadReturns(w) PROVE Inv'
    BY <1>5 DEF StopService, ThreadReturns, Idle
  <1>6. ASSUME NEW w \in Workers, NEW c \in Clients, ReadHandler(w, c)
        PROVE  Inv'
    BY <1>6 DEF ReadHandler, StartRequest, DropSession, Idle
  <1>7. CASE RunReturns \/ Exit
    BY <1>7 DEF RunReturns, Exit, Disconnect, Unserved, Served
  <1>8. CASE UNCHANGED vars
    BY <1>8 DEF vars
  <1>9. ASSUME NEW w \in Workers, RequestThrows(w) PROVE Inv'
    BY <1>9 DEF RequestThrows, Disconnect
  <1> QED
    BY <1>1, <1>2, <1>3, <1>4, <1>5, <1>6, <1>7, <1>8, <1>9 DEF Next, EndRequest

\* The inductive invariant holds in every reachable state of the server.
LEMMA Invariance == Spec => []Inv
  BY InvInit, InvStep, PTL DEF Spec

\* The state of NetworkWorker and ListenSocket has its types.
THEOREM ServerTypeCorrect == Spec => []TypeOK
  <1>1. Inv => TypeOK
    BY DEF Inv
  <1> QED
    BY <1>1, Invariance, PTL

\* do_accept is armed for as long as the server runs, with a closed socket.
THEOREM AcceptLoopIsArmed == Spec => []AcceptLoopArmed
  <1>1. Inv => AcceptLoopArmed
    BY DEF Inv, SocketInv, AcceptLoopArmed
  <1> QED
    BY <1>1, Invariance, PTL

\* Threads and locks are for connected clients of the whitelist only.
THEOREM OnlySessionsAreServed == Spec => []OnlySessionsServed
  <1>1. Inv => OnlySessionsServed
    BY WorkerAssumption DEF Inv, TypeOK, SessionInv, OnlySessionsServed, Session
  <1> QED
    BY <1>1, Invariance, PTL

\* run() returns only after a signal was handled, or at once without threads;
\* otherwise only an exception in the request of an allowed client (the call of
\* handle_request in SQLiteSocket::do_read) ends the process.
THEOREM ServerEnds == Spec => []WaysToEnd
  <1>1. Inv => WaysToEnd
    BY DEF Inv, ShutdownInv, WaysToEnd
  <1> QED
    BY <1>1, Invariance, PTL
=============================================================================
