---------------------------- MODULE SQLiteSocket ----------------------------
(***************************************************************************)
(* One client connection of the server: the SQLiteSocket object, the peer  *)
(* at the other end of its TCP stream, and the pool of threads that run    *)
(* the completion handlers of the shared io_context.                       *)
(*                                                                         *)
(* Requests are numbered in the order in which the client sends them, and  *)
(* the response to request n is packet n.  A frame is a header (the size   *)
(* of the body) followed by the body; both may arrive at different times.  *)
(*                                                                         *)
(* A completion handler runs on any idle thread.  The calls it makes on    *)
(* m_out_packets are separate steps, because nothing (no strand, no mutex) *)
(* keeps two handlers of one connection from running at the same time.     *)
(* Each call on the std::queue is taken to be atomic, which is more than   *)
(* the code guarantees.                                                    *)
(***************************************************************************)
EXTENDS Naturals, Sequences

CONSTANTS
    Workers,        \* the threads of NetworkWorker::run
    MaxPacketSize,  \* Config::client_max_packet_size
    Sizes,          \* the body sizes the client uses
    Window,         \* requests the client sends without reading the answers
    MaxRequests     \* bound: requests sent on the connection

ASSUME SocketAssumption ==
    /\ MaxPacketSize \in Nat
    /\ Sizes \subseteq Nat
    /\ Window \in Nat \ {0}
    /\ MaxRequests \in Nat

VARIABLES
    sizes,       \* sizes[n] is the size announced by the header of request n
    bodies,      \* number of requests whose body has been sent in full
    rcvd,        \* the packets the client has received
    peerOpen,    \* the client has not closed the connection
    sockOpen,    \* m_socket has not been closed by the server
    read,        \* the async_read in progress and its completion
    nread,       \* the request in m_packet_size and m_request
    outPackets,  \* m_out_packets
    writing,     \* the packets handed to async_write, oldest first
    writeDone,   \* write completions without error waiting for a thread
    writeFailed, \* write completions with an error waiting for a thread
    pc,          \* what each thread does
    response,    \* the argument of send_response, per thread
    inProgress,  \* write_in_progress of send_response, per thread
    handled,     \* history: the requests passed to handle_request
    up           \* the process has not been terminated

clientVars == <<sizes, bodies, peerOpen>>
readVars   == <<sockOpen, read, nread>>
writeVars  == <<writing, writeDone, writeFailed>>
threadVars == <<pc, response, inProgress>>
vars == <<clientVars, rcvd, readVars, outPackets, writeVars, threadVars, handled, up>>

\* What a read of freed or uninitialised memory puts on the wire.
Garbage == 0

Packets == Nat

\* The points of the body handler between the end of async_read and do_read.
ReadPcs == {"handle", "check", "push", "start", "rearm"}
\* The points of the write handler.
WritePcs == {"pop", "empty", "next"}

\* m_request and m_out_packets hold what their readers take them to hold: a
\* request that has been announced, and responses that handle_request made.
TypeOK ==
    /\ sizes \in Seq(Sizes)
    /\ bodies \in Nat
    /\ rcvd \in Seq(Packets)
    /\ peerOpen \in BOOLEAN /\ sockOpen \in BOOLEAN /\ up \in BOOLEAN
    /\ read \in {"none", "header", "headerReady", "body", "bodyReady", "failed"}
    /\ nread \in Nat /\ (read \in {"headerReady", "body", "bodyReady"} => nread > 0)
    /\ outPackets \in Seq(Packets \ {Garbage}) /\ writing \in Seq(Packets)
    /\ writeDone \in Nat /\ writeFailed \in Nat
    /\ pc \in [Workers -> {"idle"} \union ReadPcs \union WritePcs]
    /\ response \in [Workers -> Packets]
    /\ \A w \in Workers : /\ pc[w] = "handle" => nread > 0
                          /\ pc[w] \in {"check", "push"} => response[w] # Garbage
    /\ inProgress \in [Workers -> BOOLEAN]
    /\ handled \in Seq(Nat)

-----------------------------------------------------------------------------
(* The connection has just been accepted: the SQLiteSocket is constructed   *)
(* and do_read called (ListenSocket::do_accept).                            *)
Init ==
    /\ sizes = <<>> /\ bodies = 0 /\ rcvd = <<>>
    /\ peerOpen = TRUE /\ sockOpen = TRUE /\ up = TRUE
    /\ read = "header" /\ nread = 0
    /\ outPackets = <<>>
    /\ writing = <<>> /\ writeDone = 0 /\ writeFailed = 0
    /\ pc = [w \in Workers |-> "idle"]
    /\ response = [w \in Workers |-> Garbage]
    /\ inProgress = [w \in Workers |-> FALSE]
    /\ handled = <<>>

-----------------------------------------------------------------------------
(* The client: _send_data of the reference client, split where TCP may      *)
(* split it.  An empty body needs no bytes.                                 *)
ClientSendHeader(s) ==
    /\ peerOpen
    /\ bodies = Len(sizes)
    /\ Len(sizes) < MaxRequests
    /\ Len(sizes) < Len(rcvd) + Window
    /\ sizes' = Append(sizes, s)
    /\ bodies' = IF s = 0 THEN bodies + 1 ELSE bodies
    /\ UNCHANGED <<peerOpen, rcvd, readVars, outPackets, writeVars, threadVars, handled, up>>

ClientSendBody ==
    /\ peerOpen
    /\ bodies < Len(sizes)
    /\ bodies' = bodies + 1
    /\ UNCHANGED <<sizes, peerOpen, rcvd, readVars, outPackets, writeVars, threadVars,
                   handled, up>>

ClientClose ==
    /\ peerOpen
    /\ peerOpen' = FALSE
    /\ UNCHANGED <<sizes, bodies, rcvd, readVars, outPackets, writeVars, threadVars,
                   handled, up>>

-----------------------------------------------------------------------------
(* The io_context: operations complete and their handlers become ready.     *)
HeaderArrives ==
    /\ sockOpen
    /\ read = "header"
    /\ nread < Len(sizes)
    /\ nread' = nread + 1
    /\ read' = "headerReady"
    /\ UNCHANGED <<sockOpen, clientVars, rcvd, outPackets, writeVars, threadVars, handled, up>>

BodyArrives ==
    /\ sockOpen
    /\ read = "body"
    /\ nread <= bodies
    /\ read' = "bodyReady"
    /\ UNCHANGED <<sockOpen, nread, clientVars, rcvd, outPackets, writeVars, threadVars,
                   handled, up>>

\* End of file, connection reset or operation aborted by close().
ReadFails ==
    /\ read \in {"header", "body"}
    /\ ~(peerOpen /\ sockOpen)
    /\ read' = "failed"
    /\ UNCHANGED <<sockOpen, nread, clientVars, rcvd, outPackets, writeVars, threadVars,
                   handled, up>>

\* The bytes an async_write sends.  The buffer belongs to a Response that the
\* queue owns, and the bytes of two writes in progress may be interleaved.
BytesOf(p) ==
    IF Len(writing) = 1 /\ outPackets # <<>> /\ Head(outPackets) = p
    THEN {p}
    ELSE {p, Garbage}

\* Once the peer is gone the kernel may still accept bytes nobody receives.
WriteSucceeds ==
    /\ writing # <<>>
    /\ sockOpen
    /\ \E p \in BytesOf(Head(writing)) :
          rcvd' = IF peerOpen THEN Append(rcvd, p) ELSE rcvd
    /\ writing' = Tail(writing)
    /\ writeDone' = writeDone + 1
    /\ UNCHANGED <<clientVars, readVars, outPackets, writeFailed, threadVars, handled, up>>

WriteFails ==
    /\ writing # <<>>
    /\ ~(peerOpen /\ sockOpen)
    /\ writing' = Tail(writing)
    /\ writeFailed' = writeFailed + 1
    /\ UNCHANGED <<clientVars, rcvd, readVars, outPackets, writeDone, threadVars, handled, up>>

-----------------------------------------------------------------------------
\* Mutation: the limit is compared with >=.
RunHeaderHandlerLimitExclusive(w) ==
    /\ pc[w] = "idle"
    /\ read = "headerReady"
    /\ IF sizes[nread] >= MaxPacketSize
       THEN sockOpen' = FALSE /\ read' = "none"
       ELSE sockOpen' = sockOpen /\ read' = "body"
    /\ UNCHANGED <<nread, clientVars, rcvd, outPackets, writeVars, threadVars, handled, up>>

(* do_read: the handler of the header.  A frame above the limit closes the  *)
(* socket and ends the read chain.                                          *)
RunHeaderHandler(w) ==
    /\ pc[w] = "idle"
    /\ read = "headerReady"
    /\ IF sizes[nread] > MaxPacketSize
       THEN sockOpen' = FALSE /\ read' = "none"
       ELSE sockOpen' = sockOpen /\ read' = "body"
    /\ UNCHANGED <<nread, clientVars, rcvd, outPackets, writeVars, threadVars, handled, up>>

\* Mutation: the handler calls do_read again whatever the error code is.
RunReadErrorRetries(w) ==
    /\ pc[w] = "idle"
    /\ read = "failed"
    /\ read' = "header"
    /\ UNCHANGED <<sockOpen, nread, clientVars, rcvd, outPackets, writeVars, threadVars,
                   handled, up>>

\* A handler called with an error code returns at once.
RunReadError(w) ==
    /\ pc[w] = "idle"
    /\ read = "failed"
    /\ read' = "none"
    /\ UNCHANGED <<sockOpen, nread, clientVars, rcvd, outPackets, writeVars, threadVars,
                   handled, up>>

\* Mutation: do_read is called before the request has been handled.
RunBodyHandlerReadsAhead(w) ==
    /\ pc[w] = "idle"
    /\ read = "bodyReady"
    /\ read' = "header"
    /\ pc' = [pc EXCEPT ![w] = "handle"]
    /\ UNCHANGED <<sockOpen, nread, clientVars, rcvd, outPackets, writeVars, response,
                   inProgress, handled, up>>

RunBodyHandler(w) ==
    /\ pc[w] = "idle"
    /\ read = "bodyReady"
    /\ read' = "none"
    /\ pc' = [pc EXCEPT ![w] = "handle"]
    /\ UNCHANGED <<sockOpen, nread, clientVars, rcvd, outPackets, writeVars, response,
                   inProgress, handled, up>>

\* Mutation: a path through handle_request returns no response.
HandleRequestNull(w) ==
    /\ pc[w] = "handle"
    /\ handled' = Append(handled, nread)
    /\ pc' = [pc EXCEPT ![w] = "check"]
    /\ UNCHANGED <<clientVars, rcvd, readVars, outPackets, writeVars, response, inProgress, up>>

HandleRequest(w) ==
    /\ pc[w] = "handle"
    /\ handled' = Append(handled, nread)
    /\ response' = [response EXCEPT ![w] = nread]
    /\ pc' = [pc EXCEPT ![w] = "check"]
    /\ UNCHANGED <<clientVars, rcvd, readVars, outPackets, writeVars, inProgress, up>>

\* Only parse_error and SQLException are caught: any other exception of
\* handle_request leaves io_context::run and the thread, and terminates the
\* process.
HandleRequestThrows(w) ==
    /\ pc[w] = "handle"
    /\ up' = FALSE
    /\ UNCHANGED <<clientVars, rcvd, readVars, outPackets, writeVars, threadVars, handled>>

(* send_response *)
\* Mutation: every response starts a write, whatever is in progress.
CheckInProgressNever(w) ==
    /\ pc[w] = "check"
    /\ inProgress' = [inProgress EXCEPT ![w] = FALSE]
    /\ pc' = [pc EXCEPT ![w] = "push"]
    /\ UNCHANGED <<clientVars, rcvd, readVars, outPackets, writeVars, response, handled, up>>

CheckInProgress(w) ==
    /\ pc[w] = "check"
    /\ inProgress' = [inProgress EXCEPT ![w] = outPackets # <<>>]
    /\ pc' = [pc EXCEPT ![w] = "push"]
    /\ UNCHANGED <<clientVars, rcvd, readVars, outPackets, writeVars, response, handled, up>>

Push(w) ==
    /\ pc[w] = "push"
    /\ outPackets' = Append(outPackets, response[w])
    /\ pc' = [pc EXCEPT ![w] = IF inProgress[w] THEN "rearm" ELSE "start"]
    /\ UNCHANGED <<clientVars, rcvd, readVars, writeVars, response, inProgress, handled, up>>

\* do_write(m_out_packets.front()): hands the front packet to async_write.
\* front() of an empty queue is undefined: it refers to a Response that has
\* been freed, and calling data() on it yields garbage or ends the process.
DoWriteFront ==
    \/ /\ outPackets # <<>>
       /\ writing' = Append(writing, Head(outPackets))
       /\ up' = up
    \/ /\ outPackets = <<>>
       /\ writing' = Append(writing, Garbage)
       /\ up' \in BOOLEAN

(* do_write, called from send_response *)
StartWrite(w) ==
    /\ pc[w] = "start"
    /\ DoWriteFront
    /\ pc' = [pc EXCEPT ![w] = "rearm"]
    /\ UNCHANGED <<clientVars, rcvd, readVars, outPackets, writeDone, writeFailed, response,
                   inProgress, handled>>

(* do_read, called at the end of the body handler *)
RearmRead(w) ==
    /\ pc[w] = "rearm"
    /\ read' = "header"
    /\ pc' = [pc EXCEPT ![w] = "idle"]
    /\ UNCHANGED <<sockOpen, nread, clientVars, rcvd, outPackets, writeVars, response,
                   inProgress, handled, up>>

-----------------------------------------------------------------------------
(* The handler of async_write. *)
RunWriteHandler(w) ==
    /\ pc[w] = "idle"
    /\ writeDone > 0
    /\ writeDone' = writeDone - 1
    /\ pc' = [pc EXCEPT ![w] = "pop"]
    /\ UNCHANGED <<clientVars, rcvd, readVars, outPackets, writing, writeFailed, response,
                   inProgress, handled, up>>

\* With an error code the handler does nothing: the packet stays queued.
RunWriteError(w) ==
    /\ pc[w] = "idle"
    /\ writeFailed > 0
    /\ writeFailed' = writeFailed - 1
    /\ UNCHANGED <<clientVars, rcvd, readVars, outPackets, writing, writeDone, threadVars,
                   handled, up>>

\* pop() of an empty queue is undefined: the queue then claims to hold packets
\* that were never pushed, and the virtual call on the next one ends the process.
Pop(w) ==
    /\ pc[w] = "pop"
    /\ pc' = [pc EXCEPT ![w] = "empty"]
    /\ \/ outPackets # <<>> /\ outPackets' = Tail(outPackets) /\ up' = up
       \/ outPackets = <<>> /\ outPackets' = outPackets /\ up' = FALSE
    /\ UNCHANGED <<clientVars, rcvd, readVars, writeVars, response, inProgress, handled>>

\* Mutation: the handler never continues with the next packet.
CheckEmptyStops(w) ==
    /\ pc[w] = "empty"
    /\ pc' = [pc EXCEPT ![w] = "idle"]
    /\ UNCHANGED <<clientVars, rcvd, readVars, outPackets, writeVars, response, inProgress,
                   handled, up>>

CheckEmpty(w) ==
    /\ pc[w] = "empty"
    /\ pc' = [pc EXCEPT ![w] = IF outPackets = <<>> THEN "idle" ELSE "next"]
    /\ UNCHANGED <<clientVars, rcvd, readVars, outPackets, writeVars, response, inProgress,
                   handled, up>>

WriteNext(w) ==
    /\ pc[w] = "next"
    /\ DoWriteFront
    /\ pc' = [pc EXCEPT ![w] = "idle"]
    /\ UNCHANGED <<clientVars, rcvd, readVars, outPackets, writeDone, writeFailed, response,
                   inProgress, handled>>

-----------------------------------------------------------------------------
Client == (\E s \in Sizes : ClientSendHeader(s)) \/ ClientSendBody \/ ClientClose

Network == HeaderArrives \/ BodyArrives \/ ReadFails \/ WriteSucceeds \/ WriteFails

RunReadHandler(w) == RunHeaderHandler(w) \/ RunReadError(w) \/ RunBodyHandler(w)

ThreadStep(w) ==
    \/ HandleRequest(w) \/ HandleRequestThrows(w)
    \/ CheckInProgress(w) \/ Push(w) \/ StartWrite(w) \/ RearmRead(w)
    \/ Pop(w) \/ CheckEmpty(w) \/ WriteNext(w)

Next ==
    /\ up
    /\ \/ Client
       \/ Network
       \/ \E w \in Workers : \/ RunReadHandler(w)
                             \/ RunWriteHandler(w) \/ RunWriteError(w)
                             \/ ThreadStep(w)

Spec == Init /\ [][Next]_vars

(***************************************************************************)
(* Fairness.  A handler that has started runs on; the io_context keeps its *)
(* ready handlers in a FIFO queue, so none is passed over for ever (strong *)
(* fairness, since the threads are not idle all the time); operations      *)
(* complete when the data is there, and the client reads what it is sent.  *)
(* A peer that is gone does not take bytes for ever: TCP reports it.       *)
(* Nothing is assumed of when the client sends or closes.                  *)
(***************************************************************************)
Fairness ==
    /\ WF_vars(up /\ (HeaderArrives \/ BodyArrives \/ ReadFails))
    /\ WF_vars(up /\ (WriteSucceeds \/ WriteFails))
    /\ SF_vars(up /\ WriteFails)
    /\ SF_vars(up /\ \E w \in Workers : RunReadHandler(w))
    /\ SF_vars(up /\ \E w \in Workers : RunWriteHandler(w))
    /\ SF_vars(up /\ \E w \in Workers : RunWriteError(w))
    /\ \A w \in Workers : WF_vars(up /\ ThreadStep(w))

FairSpec == Spec /\ Fairness

-----------------------------------------------------------------------------
(***************************************************************************)
(* Requests are handled one at a time and in the order they were sent,     *)
(* each after its whole body has arrived, whatever the number of threads:  *)
(* do_read starts the next read only after handle_request has returned.    *)
(***************************************************************************)
RequestsSequential ==
    /\ \A v, w \in Workers : pc[v] \in ReadPcs /\ pc[w] \in ReadPcs => v = w
    /\ Len(handled) <= bodies
    /\ \A i \in 1 .. Len(handled) : handled[i] = i

(***************************************************************************)
(* The server closes the socket for one reason only: the request that      *)
(* follows the handled ones is above client_max_packet_size; and a handled *)
(* request never is.                                                       *)
(***************************************************************************)
ClosedOnlyForSize ==
    /\ \A i \in 1 .. Len(handled) : sizes[handled[i]] <= MaxPacketSize
    /\ ~sockOpen => sizes[nread] > MaxPacketSize /\ nread = Len(handled) + 1

\* No operation and no running handler refers to the SQLiteSocket any more, so
\* the last shared_ptr is gone, and with it m_handler and its databases.
Released ==
    /\ read = "none"
    /\ writing = <<>> /\ writeDone = 0 /\ writeFailed = 0
    /\ \A w \in Workers : pc[w] = "idle"

(***************************************************************************)
(* A connection that either side has closed is eventually destroyed: the   *)
(* read chain and the write chain of do_read and do_write both end, with   *)
(* any number of threads.                                                  *)
(***************************************************************************)
ReleasedAfterClose == ~(peerOpen /\ sockOpen) ~> (Released \/ ~up)

(***************************************************************************)
(* The client receives the response to every request it sent, in the order *)
(* of the requests, each once and undamaged.                               *)
(***************************************************************************)
ResponsesInOrder ==
    /\ Len(rcvd) <= Len(handled)
    /\ \A i \in 1 .. Len(rcvd) : rcvd[i] = i

\* Somebody is about to write, is writing, or has a completion to run.
WriteActive ==
    \/ writing # <<>> \/ writeDone > 0 \/ writeFailed > 0
    \/ \E w \in Workers : pc[w] \in WritePcs \union {"start"}

(***************************************************************************)
(* No lost wake-up in send_response and do_write: while the connection is  *)
(* up, a queued packet always has a write that will get to it, and there   *)
(* is never more than one async_write on the socket.                       *)
(***************************************************************************)
WriteDriven ==
    /\ peerOpen /\ sockOpen /\ outPackets # <<>> => WriteActive
    /\ Len(writing) + writeDone + writeFailed <= 1

(***************************************************************************)
(* Every request sent in full is answered, unless the connection or the    *)
(* process ends.                                                           *)
(***************************************************************************)
AnsweredEventually ==
    \A n \in 1 .. MaxRequests :
        bodies >= n ~> (Len(rcvd) >= n \/ ~peerOpen \/ ~sockOpen \/ ~up)

(***************************************************************************)
(* What the client relies on: the connection implements a request/reply    *)
(* channel (RpcChannel), which answers all requests in order.              *)
(***************************************************************************)
Channel == INSTANCE RpcChannel
    WITH requests <- bodies, replies <- rcvd, open <- peerOpen /\ sockOpen /\ up

ImplementsRpcChannel == Channel!FairSpec
=============================================================================
