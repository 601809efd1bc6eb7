---------------------------- MODULE SqliteClient ----------------------------
(***************************************************************************)
(* The reference client (class Sqlite of examples/python/sqlite.py): its   *)
(* calls of query() over one connection, byte by byte, with the timeout of *)
(* its socket.  The server is known by what it promises (RpcChannel): it   *)
(* reads a frame after the other and answers them in order, or hangs up,   *)
(* or says nothing.                                                        *)
(*                                                                         *)
(* A message is known by the number of its call; 0 is the number of what a *)
(* server makes of a request that is not one.  A byte is <<n, i, s>>: byte *)
(* i of the frame of message n with a payload of s bytes.                  *)
(***************************************************************************)
EXTENDS Naturals, Sequences

CONSTANTS
    HeaderBytes,    \* size of the length prefix
    Prefixes,       \* number of values of the length prefix
    RequestBytes,   \* payload of a request
    ResponseSizes,  \* payloads of responses
    MaxPacket,      \* client_max_packet_size
    Handshakes,     \* whether a password is given, so that call 1 is _send_auth
    MaxCalls        \* bound: calls of a client

ASSUME ClientAssumption ==
    /\ HeaderBytes \in Nat \ {0} /\ Prefixes \in Nat \ {0}
    /\ RequestBytes \in 1 .. (Prefixes - 1) /\ RequestBytes <= MaxPacket
    /\ ResponseSizes \subseteq Nat \ {0}
    /\ MaxPacket \in Nat /\ MaxCalls \in Nat
    /\ Handshakes \subseteq BOOLEAN

VARIABLES
    auth,      \* a password is given
    pc,        \* in no call, in _read_n_bytes for a header or a payload, or closed
    buf,       \* data of _read_n_bytes
    need,      \* n of _read_n_bytes
    calls,     \* number of calls begun
    results,   \* what the calls that returned made of the stream
    up,        \* bytes on their way to the server
    down,      \* bytes on their way to the client
    want,      \* the server reads a header (0) or a body of want - 1 bytes
    taken,     \* the messages the server has read
    requests, replies, open,  \* the connection as RpcChannel has it
    timedOut,  \* history: some call timed out
    wrapped    \* history: some response was too large for the length prefix

Channel == INSTANCE RpcChannel

callVars == <<pc, buf, need, calls, results, auth>>
serverVars == <<want, taken, requests, replies>>
vars == <<callVars, up, down, serverVars, open, timedOut, wrapped>>

Empty == 0   \* an empty QueryResult, and the number of an unreadable message

Frame(n, size) == [i \in 1 .. HeaderBytes + size |-> <<n, i, size>>]
Header(n, size) == SubSeq(Frame(n, size), 1, HeaderBytes)
Payload(n, size) == SubSeq(Frame(n, size), HeaderBytes + 1, HeaderBytes + size)

Init ==
    /\ auth \in Handshakes
    /\ pc = "idle" /\ buf = <<>> /\ need = 0
    /\ calls = 0 /\ results = <<>>
    /\ up = <<>> /\ down = <<>>
    /\ want = 0 /\ taken = <<>>
    /\ Channel!Init
    /\ timedOut = FALSE /\ wrapped = FALSE

\* The sizes a reader may find in HeaderBytes bytes: the size of the payload as
\* far as the prefix can say it, and any when the bytes are not of one header.
SizesOf(bytes) ==
    LET n == bytes[1][1]
        size == bytes[1][3]
    IN  IF bytes = Header(n, size) THEN {size % Prefixes} ELSE 0 .. Prefixes - 1

-----------------------------------------------------------------------------
(* The client. *)

\* What query() returns for a payload: nothing of one that is empty or cannot
\* be parsed, and possibly something of one that was cut.
Decoded(bytes) ==
    IF bytes = <<>> THEN {Empty}
    ELSE LET n == bytes[1][1]
             size == bytes[1][3]
         IN  IF bytes = Payload(n, size) THEN {n}
             ELSE IF \A k \in DOMAIN bytes : bytes[k][1] = n /\ bytes[k][2] > HeaderBytes
                  THEN {Empty, n}
             ELSE {Empty}

\* The call ends; an exception in the handshake leaves no object to call.
Return(r) == pc' = "idle" /\ results' = Append(results, r) /\ buf' = <<>> /\ need' = 0

Raise ==
    /\ results' = Append(results, Empty)
    /\ pc' = IF auth /\ results = <<>> THEN "closed" ELSE "idle"
    /\ open' = IF auth /\ results = <<>> THEN FALSE ELSE open
    /\ buf' = <<>> /\ need' = 0

\* Mutation: the payload is appended to the bytes of the header.
ReadBytesOneBuffer(what, n) == pc' = what /\ need' = n /\ UNCHANGED buf

\* A new call of _read_n_bytes.
ReadBytes(what, n) == pc' = what /\ buf' = <<>> /\ need' = n

\* _send_query, _send_data: sendall takes the whole frame.
Call ==
    /\ pc = "idle" /\ calls < MaxCalls
    /\ calls' = calls + 1
    /\ up' = IF open THEN up \o Frame(calls + 1, RequestBytes) ELSE up
    /\ ReadBytes("header", HeaderBytes)
    /\ UNCHANGED <<auth, results, down, serverVars, open, timedOut, wrapped>>

\* sendall fails because the peer is gone.
SendFails ==
    /\ pc = "idle" /\ calls < MaxCalls
    /\ ~open
    /\ calls' = calls + 1
    /\ Raise
    /\ UNCHANGED <<auth, up, down, serverVars, timedOut, wrapped>>

\* sendall gives up in the middle of the frame, because the server does not read.
SendTimesOut ==
    /\ pc = "idle" /\ calls < MaxCalls
    /\ open
    /\ calls' = calls + 1
    /\ \E k \in 0 .. HeaderBytes + RequestBytes - 1 :
          up' = up \o SubSeq(Frame(calls + 1, RequestBytes), 1, k)
    /\ Raise
    /\ timedOut' = TRUE
    /\ UNCHANGED <<auth, down, serverVars, wrapped>>

\* Mutation: _read_n_bytes is content with the first chunk.
CompleteFirstChunk == need = 0 \/ buf # <<>>

\* The loop of _read_n_bytes ends.
Complete == Len(buf) = need

\* One recv of _read_n_bytes: as many bytes as there are, or fewer.
Recv ==
    /\ pc \in {"header", "payload"} /\ ~Complete
    /\ \E k \in 1 .. need - Len(buf) :
          /\ k <= Len(down)
          /\ buf' = buf \o SubSeq(down, 1, k)
          /\ down' = SubSeq(down, k + 1, Len(down))
    /\ UNCHANGED <<auth, pc, need, calls, results, up, serverVars, open, timedOut, wrapped>>

\* Mutation: the timed out call sends its request again and goes on waiting.
RecvTimesOutRetries ==
    /\ pc \in {"header", "payload"} /\ ~Complete
    /\ open /\ ~timedOut
    /\ up' = up \o Frame(calls, RequestBytes)
    /\ timedOut' = TRUE
    /\ UNCHANGED <<callVars, down, serverVars, open, wrapped>>

\* recv waits longer than the timeout; what was read so far is forgotten.
RecvTimesOut ==
    /\ pc \in {"header", "payload"} /\ ~Complete
    /\ open
    /\ Raise
    /\ timedOut' = TRUE
    /\ UNCHANGED <<auth, calls, up, down, serverVars, wrapped>>

\* Mutation: the end of the stream is taken for a chunk of no bytes.
RecvEofGoesOn ==
    /\ pc \in {"header", "payload"} /\ ~Complete
    /\ ~open /\ down = <<>>
    /\ UNCHANGED vars

\* recv has reached the end of the stream: _recv_data returns None.
RecvEof ==
    /\ pc \in {"header", "payload"} /\ ~Complete
    /\ ~open /\ down = <<>>
    /\ Return(Empty)
    /\ UNCHANGED <<auth, calls, up, down, serverVars, open, timedOut, wrapped>>

\* The connection is reset, and what was on its way is lost.
RecvReset ==
    /\ pc \in {"header", "payload"} /\ ~Complete
    /\ ~open
    /\ Raise
    /\ down' = <<>>
    /\ UNCHANGED <<auth, calls, up, serverVars, timedOut, wrapped>>

HeaderRead ==
    /\ pc = "header" /\ Complete
    /\ \E size \in SizesOf(buf) : ReadBytes("payload", size)
    /\ UNCHANGED <<auth, calls, results, up, down, serverVars, open, timedOut, wrapped>>

PayloadRead ==
    /\ pc = "payload" /\ Complete
    /\ \E r \in Decoded(buf) : Return(r)
    /\ UNCHANGED <<auth, calls, up, down, serverVars, open, timedOut, wrapped>>

Close ==
    /\ pc = "idle"
    /\ pc' = "closed"
    /\ open' = FALSE
    /\ UNCHANGED <<auth, buf, need, calls, results, up, down, serverVars, timedOut, wrapped>>

-----------------------------------------------------------------------------
(* The server (do_read and send_response of SQLiteSocket). *)

ServerReadsHeader ==
    /\ open /\ want = 0
    /\ Len(up) >= HeaderBytes
    /\ \E size \in SizesOf(SubSeq(up, 1, HeaderBytes)) :
          /\ want' = IF size > MaxPacket THEN 0 ELSE size + 1
          /\ open' = (size <= MaxPacket)
    /\ up' = SubSeq(up, HeaderBytes + 1, Len(up))
    /\ UNCHANGED <<callVars, down, taken, requests, replies, timedOut, wrapped>>

\* A request that is not the payload of one frame is not valid JSON.
ServerReadsBody ==
    LET size == want - 1
        body == SubSeq(up, 1, size)
    IN
    /\ open /\ want > 0
    /\ Len(up) >= size
    /\ Channel!Request
    /\ taken' = Append(taken, IF \E n \in 1 .. calls : body = Payload(n, RequestBytes)
                              THEN body[1][1] ELSE Empty)
    /\ up' = SubSeq(up, size + 1, Len(up))
    /\ want' = 0
    /\ UNCHANGED <<callVars, down, timedOut, wrapped>>

ServerReplies ==
    /\ Channel!Reply
    /\ \E size \in ResponseSizes :
          /\ down' = down \o Frame(taken[Len(replies) + 1], size)
          /\ wrapped' = (wrapped \/ size >= Prefixes)
    /\ UNCHANGED <<callVars, up, want, taken, timedOut>>

ServerCloses ==
    /\ Channel!Close
    /\ UNCHANGED <<callVars, up, down, want, taken, timedOut, wrapped>>

-----------------------------------------------------------------------------
Server == ServerReadsHeader \/ ServerReadsBody \/ ServerReplies \/ ServerCloses

InCall == Recv \/ RecvTimesOut \/ RecvEof \/ HeaderRead \/ PayloadRead

Next == Call \/ SendFails \/ SendTimesOut \/ RecvReset \/ Close \/ InCall \/ Server

Spec == Init /\ [][Next]_vars

\* A call goes on: it receives, up to the end of the stream, or recv gives up
\* after the timeout.  Nothing is assumed of the server, of resets, nor of when
\* the client calls.
FairSpec == Spec /\ WF_vars(InCall)

-----------------------------------------------------------------------------
Bytes == Nat \X Nat \X Nat

TypeOK ==
    /\ pc \in {"idle", "header", "payload", "closed"}
    /\ auth \in BOOLEAN
    /\ buf \in Seq(Bytes) /\ up \in Seq(Bytes) /\ down \in Seq(Bytes)
    /\ need \in (0 .. Prefixes - 1) \union {HeaderBytes} /\ Len(buf) <= need
    /\ calls \in 0 .. MaxCalls
    /\ results \in Seq(0 .. MaxCalls)
    /\ Len(results) = IF pc \in {"header", "payload"} THEN calls - 1 ELSE calls
    /\ want \in 0 .. MaxPacket + 1
    /\ taken \in Seq(0 .. MaxCalls) /\ requests = Len(taken)
    /\ open \in BOOLEAN /\ timedOut \in BOOLEAN /\ wrapped \in BOOLEAN

(***************************************************************************)
(* query() returns the response to its own request, and an empty result    *)
(* only when the connection has ended: however the bytes are cut, at any   *)
(* number of calls, until a call has timed out or a response was too large *)
(* for the length prefix.  (After that query() may return the response to  *)
(* an earlier call, because the connection is used on.)                    *)
(***************************************************************************)
OwnAnswer ==
    ~timedOut /\ ~wrapped =>
        \A n \in DOMAIN results : results[n] = n \/ (results[n] = Empty /\ ~open)

(***************************************************************************)
(* The server reads the request of a call at most once, and never one that *)
(* was cut by a timeout in the middle: a statement is not run twice.       *)
(***************************************************************************)
AtMostOnce ==
    \A i, j \in DOMAIN taken : taken[i] = taken[j] /\ i # j => taken[i] = Empty

(***************************************************************************)
(* Every call returns, even when the server does not answer any more.      *)
(***************************************************************************)
EveryCallReturns == pc \in {"header", "payload"} ~> pc \in {"idle", "closed"}
=============================================================================
