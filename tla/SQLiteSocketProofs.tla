------------------------- MODULE SQLiteSocketProofs -------------------------
(***************************************************************************)
(* Proofs about SQLiteSocket, for every set of threads, every packet       *)
(* limit, every client window and every number of requests:                *)
(*   - the type invariant;                                                 *)
(*   - requests are handled one at a time and in order, and the server     *)
(*     closes a connection for its packet size only (any pool of threads); *)
(*   - with a pool of one thread the responses are delivered in order,     *)
(*     each once, no write is ever lost or doubled, and the connection     *)
(*     implements the safety part of RpcChannel.                           *)
(***************************************************************************)
EXTENDS SQLiteSocket, TLAPS

-----------------------------------------------------------------------------
(* The type invariant. *)

LEMMA TypeInit == Init => TypeOK
  BY SocketAssumption DEF Init, TypeOK, Packets, Garbage, ReadPcs, WritePcs

\* What do_write(m_out_packets.front()) does to the writes, well typed.
LEMMA DoWriteType == TypeOK /\ DoWriteFront => writing' \in Seq(Nat) /\ up' \in BOOLEAN
<1> SUFFICES ASSUME TypeOK, DoWriteFront PROVE writing' \in Seq(Nat) /\ up' \in BOOLEAN
  OBVIOUS
<1>1. writing' \in Seq(Nat)
  <2>1. PICK p \in Nat : writing' = Append(writing, p)
    BY DEF DoWriteFront, TypeOK, Packets, Garbage
  <2> QED
    BY <2>1 DEF TypeOK, Packets
<1>2. up' \in BOOLEAN
  BY DEF DoWriteFront, TypeOK
<1> QED
  BY <1>1, <1>2

LEMMA TypeStep == TypeOK /\ [Next]_vars => TypeOK'
<1> USE SocketAssumption DEF TypeOK, Packets, Garbage, ReadPcs, WritePcs,
        clientVars, readVars, writeVars, threadVars
<1> SUFFICES ASSUME TypeOK, [Next]_vars PROVE TypeOK'
  OBVIOUS
<1>1. ASSUME NEW s \in Sizes, ClientSendHeader(s) PROVE TypeOK'
  BY <1>1 DEF ClientSendHeader
<1>2. CASE ClientSendBody
  BY <1>2 DEF ClientSendBody
<1>3. CASE ClientClose
  BY <1>3 DEF ClientClose
<1>4. CASE HeaderArrives
  BY <1>4 DEF HeaderArrives
<1>5. CASE BodyArrives
  BY <1>5 DEF BodyArrives
<1>6. CASE ReadFails
  BY <1>6 DEF ReadFails
<1>7. CASE WriteSucceeds
  <2>1. PICK p \in BytesOf(Head(writing)) :
            rcvd' = IF peerOpen THEN Append(rcvd, p) ELSE rcvd
    BY <1>7 DEF WriteSucceeds
  <2>2. p \in Nat
    BY <1>7, <2>1 DEF WriteSucceeds, BytesOf
  <2> QED
    BY <1>7, <2>1, <2>2 DEF WriteSucceeds
<1>8. CASE WriteFails
  BY <1>8 DEF WriteFails
<1>9. ASSUME NEW w \in Workers, RunHeaderHandler(w) PROVE TypeOK'
  BY <1>9 DEF RunHeaderHandler
<1>10. ASSUME NEW w \in Workers, RunReadError(w) PROVE TypeOK'
  BY <1>10 DEF RunReadError
<1>11. ASSUME NEW w \in Workers, RunBodyHandler(w) PROVE TypeOK'
  BY <1>11 DEF RunBodyHandler
<1>12. ASSUME NEW w \in Workers, RunWriteHandler(w) PROVE TypeOK'
  BY <1>12 DEF RunWriteHandler
<1>13. ASSUME NEW w \in Workers, RunWriteError(w) PROVE TypeOK'
  BY <1>13 DEF RunWriteError
<1>14. ASSUME NEW w \in Workers, HandleRequest(w) PROVE TypeOK'
  BY <1>14 DEF HandleRequest
<1>15. ASSUME NEW w \in Workers, HandleRequestThrows(w) PROVE TypeOK'
  BY <1>15 DEF HandleRequestThrows
<1>16. ASSUME NEW w \in Workers, CheckInProgress(w) PROVE TypeOK'
  BY <1>16 DEF CheckInProgress
<1>17. ASSUME NEW w \in Workers, Push(w) PROVE TypeOK'
  BY <1>17 DEF Push
<1>18. ASSUME NEW w \in Workers, StartWrite(w) PROVE TypeOK'
  <2>1. writing' \in Seq(Nat) /\ up' \in BOOLEAN
    BY <1>18, DoWriteType DEF StartWrite
  <2> QED
    BY <1>18, <2>1 DEF StartWrite
<1>19. ASSUME NEW w \in Workers, RearmRead(w) PROVE TypeOK'
  BY <1>19 DEF RearmRead
<1>20. ASSUME NEW w \in Workers, Pop(w) PROVE TypeOK'
  <2>1. outPackets' \in Seq(Packets \ {Garbage})
    <3>1. CASE outPackets = <<>>
      BY <1>20, <3>1 DEF Pop
    <3>2. CASE outPackets # <<>>
      <4>1. outPackets' = Tail(outPackets)
        BY <1>20, <3>2 DEF Pop
      <4> QED
        BY <3>2, <4>1
    <3> QED
      BY <3>1, <3>2
  <2>2. up' \in BOOLEAN
    BY <1>20 DEF Pop
  <2> QED
    BY <1>20, <2>1, <2>2 DEF Pop
<1>21. ASSUME NEW w \in Workers, CheckEmpty(w) PROVE TypeOK'
  BY <1>21 DEF CheckEmpty
<1>22. ASSUME NEW w \in Workers, WriteNext(w) PROVE TypeOK'
  <2>1. writing' \in Seq(Nat) /\ up' \in BOOLEAN
    BY <1>22, DoWriteType DEF WriteNext
  <2> QED
    BY <1>22, <2>1 DEF WriteNext
<1>23. CASE UNCHANGED vars
  BY <1>23 DEF vars
<1> QED
  BY <1>1, <1>2, <1>3, <1>4, <1>5, <1>6, <1>7, <1>8, <1>9, <1>10, <1>11, <1>12, <1>13,
     <1>14, <1>15, <1>16, <1>17, <1>18, <1>19, <1>20, <1>21, <1>22, <1>23
     DEF Next, Client, Network, RunReadHandler, ThreadStep

(***************************************************************************)
(* Type correctness of the connection: queues hold packets, every thread   *)
(* is at a point of a handler, counters do not go below zero.              *)
(***************************************************************************)
THEOREM TypeCorrect == Spec => []TypeOK
  BY TypeInit, TypeStep, PTL DEF Spec

-----------------------------------------------------------------------------
(***************************************************************************)
(* The read chain, for any pool of threads.  The chain is in one place at  *)
(* a time: either an async_read is pending or completed (read # "none"),   *)
(* or one thread is in the body handler, or the chain has ended.  Len      *)
(* (handled) says which request that place belongs to.                     *)
(***************************************************************************)
Fits(n) == n <= Len(sizes) /\ sizes[n] <= MaxPacketSize

ChainInOnePlace ==
    /\ \A w \in Workers : pc[w] \in ReadPcs => read = "none"
    /\ \A v, w \in Workers : pc[v] \in ReadPcs /\ pc[w] \in ReadPcs => v = w

HandledInv ==
    /\ Len(handled) <= bodies /\ bodies <= Len(sizes)
    /\ \A i \in 1 .. Len(handled) : handled[i] = i /\ Fits(i)

PendingInv ==
    /\ read = "header" => nread = Len(handled)
    /\ read \in {"headerReady", "body", "bodyReady"} =>
          nread = Len(handled) + 1 /\ nread <= Len(sizes)
    /\ read \in {"body", "bodyReady"} => Fits(nread)
    /\ read = "bodyReady" => nread <= bodies

HandlerInv ==
    \A w \in Workers :
        /\ pc[w] = "handle" =>
              nread = Len(handled) + 1 /\ nread <= bodies /\ Fits(nread)
        /\ pc[w] \in ReadPcs \ {"handle"} => nread = Len(handled)
        /\ pc[w] \in {"check", "push"} => response[w] = Len(handled) /\ response[w] > 0

CloseInv ==
    ~sockOpen => /\ read = "none"
                 /\ \A w \in Workers : pc[w] \notin ReadPcs
                 /\ nread = Len(handled) + 1
                 /\ nread <= Len(sizes) /\ sizes[nread] > MaxPacketSize

ReadInv == ChainInOnePlace /\ HandledInv /\ PendingInv /\ HandlerInv /\ CloseInv

\* The sizes in the headers are numbers.
LEMMA SizeType == ASSUME TypeOK, NEW n \in 1 .. Len(sizes) PROVE sizes[n] \in Nat
<1>1. sizes \in Seq(Sizes)
  BY DEF TypeOK
<1>2. sizes[n] \in Sizes
  BY <1>1
<1> QED
  BY <1>2, SocketAssumption

LEMMA ReadInit == Init => ReadInv
  BY DEF Init, ReadInv, ChainInOnePlace, HandledInv, PendingInv, HandlerInv, CloseInv, ReadPcs

\* Every step keeps the read chain in one place.
LEMMA ReadStep == TypeOK /\ ReadInv /\ [Next]_vars => ReadInv'
<1> SUFFICES ASSUME TypeOK, ReadInv, [Next]_vars PROVE ReadInv'
  OBVIOUS
<1> USE SocketAssumption
    DEF TypeOK, Packets, ReadPcs, WritePcs, Fits, ReadInv, ChainInOnePlace, HandledInv,
        PendingInv, HandlerInv, CloseInv, clientVars, readVars, writeVars, threadVars
<1>1. ASSUME NEW s \in Sizes, ClientSendHeader(s) PROVE ReadInv'
  BY <1>1 DEF ClientSendHeader
<1>2. CASE ClientSendBody
  BY <1>2 DEF ClientSendBody
<1>3. CASE ClientClose
  BY <1>3 DEF ClientClose
<1>4. CASE HeaderArrives
  BY <1>4 DEF HeaderArrives
<1>5. CASE BodyArrives
  BY <1>5 DEF BodyArrives
<1>6. CASE ReadFails
  BY <1>6 DEF ReadFails
<1>7. CASE WriteSucceeds
  BY <1>7 DEF WriteSucceeds
<1>8. CASE WriteFails
  BY <1>8 DEF WriteFails
<1>9. ASSUME NEW w \in Workers, RunHeaderHandler(w) PROVE ReadInv'
  <2>1. CASE sizes[nread] > MaxPacketSize
    BY <1>9, <2>1 DEF RunHeaderHandler
  <2>2. CASE ~(sizes[nread] > MaxPacketSize)
    <3>1. sizes[nread] <= MaxPacketSize
      <4>1. nread \in 1 .. Len(sizes)
        BY <1>9 DEF RunHeaderHandler
      <4>2. sizes[nread] \in Nat
        BY <4>1, SizeType
      <4> QED
        BY <2>2, <4>2
    <3> QED
      BY <1>9, <2>2, <3>1 DEF RunHeaderHandler
  <2> QED
    BY <2>1, <2>2
<1>10. ASSUME NEW w \in Workers, RunReadError(w) PROVE ReadInv'
  BY <1>10 DEF RunReadError
<1>11. ASSUME NEW w \in Workers, RunBodyHandler(w) PROVE ReadInv'
  BY <1>11 DEF RunBodyHandler
<1>12. ASSUME NEW w \in Workers, RunWriteHandler(w) PROVE ReadInv'
  BY <1>12 DEF RunWriteHandler
<1>13. ASSUME NEW w \in Workers, RunWriteError(w) PROVE ReadInv'
  BY <1>13 DEF RunWriteError
<1>14. ASSUME NEW w \in Workers, HandleRequest(w) PROVE ReadInv'
  BY <1>14 DEF HandleRequest
<1>15. ASSUME NEW w \in Workers, HandleRequestThrows(w) PROVE ReadInv'
  BY <1>15 DEF HandleRequestThrows
<1>16. ASSUME NEW w \in Workers, CheckInProgress(w) PROVE ReadInv'
  BY <1>16 DEF CheckInProgress
<1>17. ASSUME NEW w \in Workers, Push(w) PROVE ReadInv'
  BY <1>17 DEF Push
<1>18. ASSUME NEW w \in Workers, StartWrite(w) PROVE ReadInv'
  BY <1>18 DEF StartWrite
<1>19. ASSUME NEW w \in Workers, RearmRead(w) PROVE ReadInv'
  BY <1>19 DEF RearmRead
<1>20. ASSUME NEW w \in Workers, Pop(w) PROVE ReadInv'
  BY <1>20 DEF Pop
<1>21. ASSUME NEW w \in Workers, CheckEmpty(w) PROVE ReadInv'
  BY <1>21 DEF CheckEmpty
<1>22. ASSUME NEW w \in Workers, WriteNext(w) PROVE ReadInv'
  BY <1>22 DEF WriteNext
<1>23. CASE UNCHANGED vars
  BY <1>23 DEF vars
<1> QED
  BY <1>1, <1>2, <1>3, <1>4, <1>5, <1>6, <1>7, <1>8, <1>9, <1>10, <1>11, <1>12, <1>13,
     <1>14, <1>15, <1>16, <1>17, <1>18, <1>19, <1>20, <1>21, <1>22, <1>23
     DEF Next, Client, Network, RunReadHandler, ThreadStep

(***************************************************************************)
(* For any pool of threads, requests are handled one at a time and in the  *)
(* order they were sent, each after its body has arrived in full.          *)
(***************************************************************************)
THEOREM RequestsAreSequential == Spec => []RequestsSequential
<1>1. ReadInv => RequestsSequential
  BY DEF ReadInv, ChainInOnePlace, HandledInv, RequestsSequential
<1> QED
  BY <1>1, TypeInit, TypeStep, ReadInit, ReadStep, PTL DEF Spec

(***************************************************************************)
(* For any pool of threads, only a frame above client_max_packet_size makes *)
(* the server close a connection, and no such frame is ever handled.       *)
(***************************************************************************)
THEOREM ClosesOnlyForSize == Spec => []ClosedOnlyForSize
<1>1. TypeOK /\ ReadInv => ClosedOnlyForSize
  BY DEF TypeOK, ReadInv, HandledInv, CloseInv, Fits, ClosedOnlyForSize
<1> QED
  BY <1>1, TypeInit, TypeStep, ReadInit, ReadStep, PTL DEF Spec

-----------------------------------------------------------------------------
(***************************************************************************)
(* The write chain, with a pool of one thread.  There is one "token": a    *)
(* write in progress, its completion, the write handler, or a             *)
(* send_response about to start a write; and it exists whenever a packet   *)
(* is queued on a live connection.                                         *)
(***************************************************************************)
\* The last packet pushed: the response to the last request handled, unless
\* send_response has not come to push it yet.
LastPushed == IF \E w \in Workers : pc[w] \in {"check", "push"}
              THEN Len(handled) - 1 ELSE Len(handled)

\* 1 while the front packet has been written and not been popped.
Written == IF writeDone > 0 \/ \E w \in Workers : pc[w] = "pop" THEN 1 ELSE 0

TokenInv ==
    /\ Len(writing) + writeDone + writeFailed <= 1
    /\ \A w \in Workers :
          /\ pc[w] \in WritePcs \union {"start"} =>
                writing = <<>> /\ writeDone = 0 /\ writeFailed = 0
          /\ pc[w] = "push" => inProgress[w] = (outPackets # <<>>)
          /\ pc[w] \in {"start", "pop", "next"} => outPackets # <<>>
    /\ outPackets = <<>> => writing = <<>> /\ writeDone = 0 /\ writeFailed = 0
    /\ peerOpen /\ sockOpen => writeFailed = 0
    /\ peerOpen /\ sockOpen /\ outPackets # <<>> => WriteActive

QueueInv ==
    /\ Len(outPackets) <= LastPushed
    /\ \A i \in 1 .. Len(outPackets) : outPackets[i] = LastPushed - Len(outPackets) + i
    /\ writing # <<>> => outPackets # <<>> /\ writing[1] = outPackets[1]

ClientInv ==
    /\ Len(rcvd) <= Len(handled)
    /\ \A i \in 1 .. Len(rcvd) : rcvd[i] = i
    /\ peerOpen => Len(rcvd) = LastPushed - Len(outPackets) + Written

WriteInv == TokenInv /\ QueueInv /\ ClientInv

OneThread == \A v, w \in Workers : v = w

LEMMA WriteInit == Init => WriteInv
  BY DEF Init, WriteInv, TokenInv, QueueInv, ClientInv, LastPushed, Written, WritePcs

\* What Append does to a sequence.
LEMMA AppendFacts ==
    ASSUME NEW S, NEW q \in Seq(S), NEW e \in S
    PROVE  /\ Append(q, e) # <<>>
           /\ Len(Append(q, e)) = Len(q) + 1
           /\ Append(q, e)[Len(q) + 1] = e
           /\ \A i \in 1 .. Len(q) : Append(q, e)[i] = q[i]
  OBVIOUS

\* The first packet of a queue that is not empty.
LEMMA NonEmptyFacts ==
    ASSUME NEW S, NEW q \in Seq(S), q # <<>>
    PROVE  Len(q) \in Nat \ {0} /\ Head(q) = q[1]
  OBVIOUS

\* Of counts with the sum one, the one that is not zero is one.
LEMMA SumOfOne ==
    ASSUME NEW a \in Nat \ {0}, NEW b \in Nat, NEW c \in Nat, a + b + c <= 1
    PROVE  a = 1
  OBVIOUS

\* With one thread every step keeps the write chain driven.
LEMMA WriteStep == OneThread /\ TypeOK /\ ReadInv /\ WriteInv /\ [Next]_vars => WriteInv'
<1> SUFFICES ASSUME OneThread, TypeOK, ReadInv, WriteInv, [Next]_vars PROVE WriteInv'
  OBVIOUS
<1> USE DEF OneThread, TypeOK, Packets, ReadPcs, WritePcs, WriteInv, TokenInv, QueueInv, ClientInv,
        LastPushed, Written, WriteActive, clientVars, readVars, writeVars, threadVars
<1>0. LastPushed \in Nat /\ LastPushed <= Len(handled)
  OBVIOUS
<1>1. ASSUME NEW s \in Sizes, ClientSendHeader(s) PROVE WriteInv'
  BY <1>1 DEF ClientSendHeader
<1>2. CASE ClientSendBody
  BY <1>2 DEF ClientSendBody
<1>3. CASE ClientClose
  BY <1>3 DEF ClientClose
<1>4. CASE HeaderArrives
  BY <1>4 DEF HeaderArrives
<1>5. CASE BodyArrives
  BY <1>5 DEF BodyArrives
<1>6. CASE ReadFails
  BY <1>6 DEF ReadFails
<1>7. CASE WriteSucceeds
  <2>1. TokenInv'
    BY <1>7 DEF WriteSucceeds
  <2>2. QueueInv'
    BY <1>7 DEF WriteSucceeds
  <2>3. outPackets # <<>> /\ Len(writing) = 1 /\ Head(writing) = Head(outPackets)
    <3>1. writing # <<>> /\ outPackets # <<>> /\ writing[1] = outPackets[1]
      BY <1>7 DEF WriteSucceeds
    <3>2. Len(writing) = 1
      <4>1. Len(writing) \in Nat \ {0}
        BY <3>1, NonEmptyFacts
      <4>2. Len(writing) + writeDone + writeFailed <= 1
        OBVIOUS
      <4>3. writeDone \in Nat /\ writeFailed \in Nat
        OBVIOUS
      <4> HIDE DEF OneThread, TypeOK, ReadInv, WriteInv
      <4> QED
        BY <4>1, <4>2, <4>3, SumOfOne
    <3> QED
      BY <3>1, <3>2
  <2> Head(outPackets) = LastPushed - Len(outPackets) + 1
    <3>1. Head(outPackets) = outPackets[1] /\ 1 \in 1 .. Len(outPackets)
      BY <2>3
    <3> HIDE DEF LastPushed
    <3> QED
      BY <3>1
  <2>4. Written = 0 /\ Written' = 1 /\ LastPushed' = LastPushed
    BY <1>7 DEF WriteSucceeds
  <2>5. BytesOf(Head(writing)) = {Head(outPackets)}
    BY <2>3 DEF BytesOf
  <2>6. rcvd' = IF peerOpen THEN Append(rcvd, Head(outPackets)) ELSE rcvd
    BY <1>7, <2>5 DEF WriteSucceeds
  <2>7. peerOpen => rcvd' = Append(rcvd, Len(rcvd) + 1) /\ Len(rcvd) < Len(handled)
    <3>1. Len(outPackets) \in Nat \ {0}
      BY <2>3
    <3> SUFFICES ASSUME peerOpen
                 PROVE  rcvd' = Append(rcvd, Len(rcvd) + 1) /\ Len(rcvd) < Len(handled)
      OBVIOUS
    <3>2. Len(rcvd) = LastPushed - Len(outPackets)
      <4> HIDE DEF LastPushed, Written
      <4> QED
        BY <1>0, <2>4, <3>1
    <3>3. rcvd' = Append(rcvd, Head(outPackets))
      BY <2>6
    <3>4. Head(outPackets) = Len(rcvd) + 1 /\ Len(rcvd) < Len(handled)
      <4>1. Head(outPackets) = LastPushed - Len(outPackets) + 1
        OBVIOUS
      <4> HIDE DEF LastPushed, Written
      <4> QED
        BY <1>0, <3>1, <3>2, <4>1
    <3> QED
      BY <3>3, <3>4
  <2>8. ClientInv'
    <3>1. CASE peerOpen
      <4> /\ Len(rcvd') = Len(rcvd) + 1
          /\ rcvd'[Len(rcvd) + 1] = Len(rcvd) + 1
          /\ \A i \in 1 .. Len(rcvd) : rcvd'[i] = rcvd[i]
        <5>1. rcvd \in Seq(Nat) /\ Len(rcvd) + 1 \in Nat
          OBVIOUS
        <5> HIDE DEF OneThread, TypeOK, ReadInv, WriteInv
        <5> QED
          BY <2>7, <3>1, <5>1, AppendFacts
      <4>1. Len(rcvd') = Len(rcvd) + 1 /\ Len(rcvd') <= Len(handled)
        BY <2>7, <3>1
      <4>2. ASSUME NEW i \in 1 .. Len(rcvd') PROVE rcvd'[i] = i
        <5>1. CASE i = Len(rcvd')
          BY <4>1, <5>1
        <5>2. CASE i # Len(rcvd')
          <6>1. i \in 1 .. Len(rcvd) /\ rcvd'[i] = rcvd[i]
            <7>1. Len(rcvd) \in Nat
              OBVIOUS
            <7> HIDE DEF OneThread, TypeOK, ReadInv, WriteInv
            <7> QED
              BY <4>1, <5>2, <7>1
          <6> QED
            BY <6>1
        <5> QED
          BY <5>1, <5>2
      <4>3. Len(rcvd') = LastPushed' - Len(outPackets') + Written'
        <5>1. Len(rcvd) = LastPushed - Len(outPackets) + Written
          BY <3>1
        <5>2. outPackets' = outPackets
          BY <1>7 DEF WriteSucceeds
        <5> HIDE DEF LastPushed, Written
        <5> QED
          BY <1>0, <2>4, <4>1, <5>1, <5>2
      <4> HIDE DEF LastPushed, Written
      <4> QED
        BY <1>7, <4>1, <4>2, <4>3 DEF WriteSucceeds
    <3>2. CASE ~peerOpen
      BY <1>7, <2>6, <3>2 DEF WriteSucceeds
    <3> QED
      BY <3>1, <3>2
  <2> QED
    BY <2>1, <2>2, <2>8
<1>8. CASE WriteFails
  <2>1. TokenInv'
    BY <1>8 DEF WriteFails
  <2>2. QueueInv'
    BY <1>8 DEF WriteFails
  <2>3. ClientInv'
    BY <1>8 DEF WriteFails
  <2> QED
    BY <2>1, <2>2, <2>3
<1>9. ASSUME NEW w \in Workers, RunHeaderHandler(w) PROVE WriteInv'
  BY <1>9 DEF RunHeaderHandler
<1>10. ASSUME NEW w \in Workers, RunReadError(w) PROVE WriteInv'
  BY <1>10 DEF RunReadError
<1>11. ASSUME NEW w \in Workers, RunBodyHandler(w) PROVE WriteInv'
  BY <1>11 DEF RunBodyHandler
<1>12. ASSUME NEW w \in Workers, RunWriteHandler(w) PROVE WriteInv'
  <2>1. TokenInv'
    BY <1>12 DEF RunWriteHandler
  <2>2. QueueInv'
    BY <1>12 DEF RunWriteHandler
  <2>3. ClientInv'
    BY <1>12 DEF RunWriteHandler
  <2> QED
    BY <2>1, <2>2, <2>3
<1>13. ASSUME NEW w \in Workers, RunWriteError(w) PROVE WriteInv'
  <2>1. TokenInv'
    BY <1>13 DEF RunWriteError
  <2>2. QueueInv'
    BY <1>13 DEF RunWriteError
  <2>3. ClientInv'
    BY <1>13 DEF RunWriteError
  <2> QED
    BY <2>1, <2>2, <2>3
<1>14. ASSUME NEW w \in Workers, HandleRequest(w) PROVE WriteInv'
  <2>1. TokenInv'
    BY <1>14 DEF HandleRequest
  <2>2. QueueInv'
    BY <1>14 DEF HandleRequest
  <2>3. LastPushed' = LastPushed /\ Len(handled') = Len(handled) + 1
    <3>1. LastPushed = Len(handled) /\ LastPushed' = Len(handled') - 1
      BY <1>14 DEF HandleRequest
    <3>2. Len(handled') = Len(handled) + 1
      BY <1>14 DEF HandleRequest
    <3> HIDE DEF LastPushed
    <3> QED
      BY <3>1, <3>2
  <2>5. Written' = Written
    BY <1>14 DEF HandleRequest
  <2>4. ClientInv'
    <3> HIDE DEF LastPushed, Written
    <3> QED
      BY <1>14, <2>3, <2>5 DEF HandleRequest
  <2> QED
    BY <2>1, <2>2, <2>4
<1>15. ASSUME NEW w \in Workers, HandleRequestThrows(w) PROVE WriteInv'
  BY <1>15 DEF HandleRequestThrows
<1>16. ASSUME NEW w \in Workers, CheckInProgress(w) PROVE WriteInv'
  <2>1. TokenInv'
    BY <1>16 DEF CheckInProgress
  <2>2. QueueInv'
    BY <1>16 DEF CheckInProgress
  <2>3. ClientInv'
    BY <1>16 DEF CheckInProgress
  <2> QED
    BY <2>1, <2>2, <2>3
<1>17. ASSUME NEW w \in Workers, Push(w) PROVE WriteInv'
  <2>1. outPackets' = Append(outPackets, Len(handled)) /\ Len(handled) > 0
    BY <1>17 DEF Push, ReadInv, HandlerInv
  <2>2. LastPushed = Len(handled) - 1 /\ LastPushed' = Len(handled)
    BY <1>17 DEF Push
  <2>3. Written' = Written
    BY <1>17 DEF Push
  <2>4. pc'[w] = IF outPackets # <<>> THEN "rearm" ELSE "start"
    BY <1>17 DEF Push
  <2>5. TokenInv'
    <3>1. CASE outPackets = <<>>
      BY <1>17, <2>1, <2>4, <3>1 DEF Push
    <3>2. CASE outPackets # <<>>
      <4>1. pc'[w] = "rearm"
        BY <2>4, <3>2
      <4>3. outPackets' # <<>>
        <5>1. outPackets \in Seq(Nat) /\ Len(handled) \in Nat
          OBVIOUS
        <5> HIDE DEF OneThread, TypeOK, ReadInv, WriteInv
        <5> QED
          BY <2>1, <5>1, AppendFacts
      <4>2. WriteActive => WriteActive'
        BY <1>17, <4>1 DEF Push
      <4> HIDE DEF WriteActive
      <4> QED
        BY <1>17, <3>2, <4>1, <4>2, <4>3 DEF Push
    <3> QED
      BY <3>1, <3>2
  <2>6. QueueInv'
    <3>1. Len(outPackets') = Len(outPackets) + 1
      BY <2>1
    <3>2. ASSUME NEW i \in 1 .. Len(outPackets')
          PROVE  outPackets'[i] = LastPushed' - Len(outPackets') + i
      <4> HIDE DEF LastPushed
      <4>1. CASE i = Len(outPackets')
        BY <2>1, <2>2, <3>1, <4>1
      <4>2. CASE i # Len(outPackets')
        <5>1. i \in 1 .. Len(outPackets) /\ outPackets'[i] = outPackets[i]
          BY <2>1, <3>1, <4>2
        <5> QED
          BY <2>2, <3>1, <5>1
      <4> QED
        BY <4>1, <4>2
    <3>3. writing' # <<>> => outPackets' # <<>> /\ writing'[1] = outPackets'[1]
      BY <1>17, <2>1 DEF Push
    <3> HIDE DEF LastPushed
    <3> QED
      BY <2>2, <3>1, <3>2, <3>3
  <2>7. ClientInv'
    <3> HIDE DEF LastPushed, Written
    <3> QED
      BY <1>17, <2>1, <2>2, <2>3 DEF Push
  <2> QED
    BY <2>5, <2>6, <2>7
<1>18. ASSUME NEW w \in Workers, StartWrite(w) PROVE WriteInv'
  <2>1. outPackets # <<>> /\ Len(writing') = 1 /\ writing'[1] = outPackets[1]
    <3>1. outPackets # <<>> /\ writing = <<>>
      BY <1>18 DEF StartWrite
    <3>2. writing' = Append(writing, Head(outPackets))
      BY <1>18, <3>1 DEF StartWrite, DoWriteFront
    <3> QED
      BY <3>1, <3>2
  <2>2. TokenInv'
    <3>1. WriteActive'
      <4>1. writing' # <<>>
        <5> HIDE DEF OneThread, TypeOK, ReadInv, WriteInv
        <5> QED
          BY <2>1
      <4> QED
        BY <4>1
    <3>2. \A v \in Workers : v = w /\ pc'[v] = "rearm"
      BY <1>18 DEF StartWrite
    <3>3. Len(writing') + writeDone' + writeFailed' = 1
      BY <1>18, <2>1 DEF StartWrite
    <3> HIDE DEF WriteActive
    <3> QED
      BY <1>18, <2>1, <3>1, <3>2, <3>3 DEF StartWrite
  <2>3. QueueInv'
    BY <1>18, <2>1 DEF StartWrite
  <2>4. ClientInv'
    BY <1>18 DEF StartWrite
  <2> QED
    BY <2>2, <2>3, <2>4
<1>19. ASSUME NEW w \in Workers, RearmRead(w) PROVE WriteInv'
  BY <1>19 DEF RearmRead
<1>20. ASSUME NEW w \in Workers, Pop(w) PROVE WriteInv'
  <2>1. outPackets # <<>> /\ outPackets' = Tail(outPackets)
    BY <1>20 DEF Pop
  <2>2. LastPushed = Len(handled) /\ LastPushed' = Len(handled)
    BY <1>20 DEF Pop
  <2>3. Written = 1 /\ Written' = 0
    BY <1>20 DEF Pop
  <2>4. TokenInv'
    BY <1>20 DEF Pop
  <2>5. QueueInv'
    <3> HIDE DEF LastPushed, Written
    <3> QED
      BY <1>20, <2>1, <2>2 DEF Pop
  <2>6. ClientInv'
    <3>1. Len(outPackets') = Len(outPackets) - 1
      BY <2>1
    <3> HIDE DEF LastPushed, Written
    <3> QED
      BY <1>20, <2>2, <2>3, <3>1 DEF Pop
  <2> QED
    BY <2>4, <2>5, <2>6
<1>21. ASSUME NEW w \in Workers, CheckEmpty(w) PROVE WriteInv'
  <2>1. TokenInv'
    BY <1>21 DEF CheckEmpty
  <2>2. QueueInv'
    BY <1>21 DEF CheckEmpty
  <2>3. ClientInv'
    BY <1>21 DEF CheckEmpty
  <2> QED
    BY <2>1, <2>2, <2>3
<1>22. ASSUME NEW w \in Workers, WriteNext(w) PROVE WriteInv'
  <2>1. outPackets # <<>> /\ Len(writing') = 1 /\ writing'[1] = outPackets[1]
    <3>1. outPackets # <<>> /\ writing = <<>>
      BY <1>22 DEF WriteNext
    <3>2. writing' = Append(writing, Head(outPackets))
      BY <1>22, <3>1 DEF WriteNext, DoWriteFront
    <3> QED
      BY <3>1, <3>2
  <2>2. TokenInv'
    <3>1. WriteActive'
      <4>1. writing' # <<>>
        <5> HIDE DEF OneThread, TypeOK, ReadInv, WriteInv
        <5> QED
          BY <2>1
      <4> QED
        BY <4>1
    <3>2. \A v \in Workers : v = w /\ pc'[v] = "idle"
      BY <1>22 DEF WriteNext
    <3>3. Len(writing') + writeDone' + writeFailed' = 1
      BY <1>22, <2>1 DEF WriteNext
    <3> HIDE DEF WriteActive
    <3> QED
      BY <1>22, <2>1, <3>1, <3>2, <3>3 DEF WriteNext
  <2>3. QueueInv'
    BY <1>22, <2>1 DEF WriteNext
  <2>4. ClientInv'
    BY <1>22 DEF WriteNext
  <2> QED
    BY <2>2, <2>3, <2>4
<1>23. CASE UNCHANGED vars
  BY <1>23 DEF vars
<1> QED
  BY <1>1, <1>2, <1>3, <1>4, <1>5, <1>6, <1>7, <1>8, <1>9, <1>10, <1>11, <1>12, <1>13,
     <1>14, <1>15, <1>16, <1>17, <1>18, <1>19, <1>20, <1>21, <1>22, <1>23
     DEF Next, Client, Network, RunReadHandler, ThreadStep

(***************************************************************************)
(* With one thread the client receives the responses in the order of its   *)
(* requests, each once and undamaged.                                      *)
(***************************************************************************)
THEOREM ResponsesAreInOrder == ASSUME OneThread PROVE Spec => []ResponsesInOrder
<1>1. WriteInv => ResponsesInOrder
  BY DEF WriteInv, ClientInv, ResponsesInOrder
<1> QED
  BY <1>1, OneThread, TypeInit, TypeStep, ReadInit, ReadStep, WriteInit, WriteStep, PTL DEF Spec

(***************************************************************************)
(* With one thread a queued packet of a live connection always has a write *)
(* that will get to it, and there is at most one async_write.              *)
(***************************************************************************)
THEOREM WritesAreDriven == ASSUME OneThread PROVE Spec => []WriteDriven
<1>1. WriteInv => WriteDriven
  BY DEF WriteInv, TokenInv, WriteDriven
<1> QED
  BY <1>1, OneThread, TypeInit, TypeStep, ReadInit, ReadStep, WriteInit, WriteStep, PTL DEF Spec

-----------------------------------------------------------------------------
(***************************************************************************)
(* With one thread the connection implements the channel: a step of the    *)
(* client that completes a request is Request, a write that reaches the    *)
(* client is Reply, closing (by either side, or by the death of the        *)
(* process) is Close, and everything else is invisible.                    *)
(***************************************************************************)
LEMMA ReplyStep ==
    ASSUME TypeOK, ReadInv, WriteInv, up, WriteSucceeds
    PROVE  Channel!Reply \/ UNCHANGED Channel!vars
<1> USE DEF TypeOK, Packets
<1>1. writing # <<>> /\ outPackets # <<>> /\ writing[1] = outPackets[1]
  BY DEF WriteSucceeds, WriteInv, QueueInv
<1>2. Len(writing) = 1
  <2>1. Len(writing) \in Nat \ {0}
    BY <1>1, NonEmptyFacts
  <2>2. Len(writing) + writeDone + writeFailed <= 1
    BY DEF WriteInv, TokenInv
  <2>3. writeDone \in Nat /\ writeFailed \in Nat
    OBVIOUS
  <2> HIDE DEF TypeOK
  <2> QED
    BY <2>1, <2>2, <2>3, SumOfOne
<1>3. Head(writing) = Head(outPackets)
  BY <1>1, NonEmptyFacts
<1>4. rcvd' = IF peerOpen THEN Append(rcvd, Head(outPackets)) ELSE rcvd
  BY <1>1, <1>2, <1>3 DEF WriteSucceeds, BytesOf
<1>5. bodies' = bodies /\ peerOpen' = peerOpen /\ sockOpen' = sockOpen /\ up' = up /\ sockOpen
  BY DEF WriteSucceeds, clientVars, readVars
<1>6. CASE ~peerOpen
  BY <1>4, <1>5, <1>6 DEF Channel!vars
<1>7. CASE peerOpen
  <2>1. Written = 0
    <3>1. \A w \in Workers : pc[w] # "pop"
      BY <1>1 DEF WriteInv, TokenInv, WritePcs
    <3>2. writeDone = 0
      BY <1>2 DEF WriteInv, TokenInv
    <3> QED
      BY <3>1, <3>2 DEF Written
  <2>2. LastPushed \in Nat /\ LastPushed <= Len(handled)
    <3>1. LastPushed = Len(handled) - 1 \/ LastPushed = Len(handled)
      BY DEF LastPushed
    <3>2. Len(outPackets) <= LastPushed
      BY DEF WriteInv, QueueInv
    <3>3. Len(outPackets) \in Nat /\ Len(handled) \in Nat
      OBVIOUS
    <3> QED
      BY <3>1, <3>2, <3>3
  <2>7. Len(rcvd) = LastPushed - Len(outPackets)
    <3>1. Len(rcvd) = LastPushed - Len(outPackets) + 0
      BY <1>7, <2>1 DEF WriteInv, ClientInv
    <3> QED
      BY <2>2, <3>1
  <2>3. Len(outPackets) \in Nat \ {0} /\ Head(outPackets) = outPackets[1]
    BY <1>1, NonEmptyFacts
  <2>4. Head(outPackets) = LastPushed - Len(outPackets) + 1
    BY <2>3 DEF WriteInv, QueueInv
  <2>5. Len(handled) <= bodies
    BY DEF ReadInv, HandledInv
  <2>6. Head(outPackets) = Len(rcvd) + 1 /\ Len(rcvd) < bodies
    BY <2>2, <2>3, <2>4, <2>5, <2>7
  <2> QED
    BY <1>4, <1>5, <1>7, <2>6 DEF Channel!Reply
<1> QED
  BY <1>6, <1>7

\* Every step is one of the channel or changes nothing of it.
LEMMA ChannelStep ==
    ASSUME OneThread, TypeOK, ReadInv, WriteInv, [Next]_vars
    PROVE  [Channel!Next]_(Channel!vars)
<1> USE DEF Channel!Next, Channel!vars, clientVars, readVars, writeVars, threadVars
<1>1. ASSUME up, NEW s \in Sizes, ClientSendHeader(s) PROVE Channel!Request \/ UNCHANGED Channel!vars
  BY <1>1 DEF ClientSendHeader, Channel!Request
<1>2. CASE up /\ ClientSendBody
  BY <1>2 DEF ClientSendBody, Channel!Request
<1>3. CASE up /\ ClientClose
  BY <1>3 DEF ClientClose, Channel!Close
<1>4. CASE HeaderArrives \/ BodyArrives \/ ReadFails
  BY <1>4 DEF HeaderArrives, BodyArrives, ReadFails
<1>5. CASE up /\ WriteSucceeds
  BY <1>5, ReplyStep
<1>6. CASE WriteFails
  BY <1>6 DEF WriteFails
<1>7. ASSUME up, NEW w \in Workers, RunHeaderHandler(w)
      PROVE  Channel!Close \/ UNCHANGED Channel!vars
  BY <1>7 DEF RunHeaderHandler, Channel!Close
<1>8. ASSUME NEW w \in Workers, RunReadError(w) \/ RunBodyHandler(w)
      PROVE  UNCHANGED Channel!vars
  BY <1>8 DEF RunReadError, RunBodyHandler
<1>9. ASSUME NEW w \in Workers, RunWriteHandler(w) \/ RunWriteError(w)
      PROVE  UNCHANGED Channel!vars
  BY <1>9 DEF RunWriteHandler, RunWriteError
<1>10. ASSUME NEW w \in Workers,
              HandleRequest(w) \/ CheckInProgress(w) \/ Push(w) \/ RearmRead(w) \/ CheckEmpty(w)
       PROVE  UNCHANGED Channel!vars
  BY <1>10 DEF HandleRequest, CheckInProgress, Push, RearmRead, CheckEmpty
<1>11. ASSUME up, NEW w \in Workers, HandleRequestThrows(w)
       PROVE  Channel!Close \/ UNCHANGED Channel!vars
  BY <1>11 DEF HandleRequestThrows, Channel!Close
<1>12. ASSUME NEW w \in Workers, StartWrite(w) \/ WriteNext(w) \/ Pop(w)
       PROVE  UNCHANGED Channel!vars
  <2>1. outPackets # <<>>
    BY <1>12 DEF WriteInv, TokenInv, StartWrite, WriteNext, Pop
  <2>2. up' = up
    BY <1>12, <2>1 DEF StartWrite, WriteNext, Pop, DoWriteFront
  <2> QED
    BY <1>12, <2>2 DEF StartWrite, WriteNext, Pop
<1>13. CASE UNCHANGED vars
  BY <1>13 DEF vars
<1> QED
  BY <1>1, <1>2, <1>3, <1>4, <1>5, <1>6, <1>7, <1>8, <1>9, <1>10, <1>11, <1>12, <1>13
     DEF Next, Client, Network, RunReadHandler, ThreadStep

(***************************************************************************)
(* With one thread every behaviour of do_read, send_response and do_write  *)
(* is a behaviour of the request/reply channel, for every client window,   *)
(* packet limit and number of requests (its safety part: fairness is left  *)
(* to the model checker).                                                  *)
(***************************************************************************)
THEOREM ImplementsChannel == ASSUME OneThread PROVE Spec => Channel!Spec
<1>1. Init => Channel!Init
  BY DEF Init, Channel!Init
<1>2. TypeOK /\ ReadInv /\ WriteInv /\ [Next]_vars => [Channel!Next]_(Channel!vars)
  BY ChannelStep
<1> QED
  BY <1>1, <1>2, OneThread, TypeInit, TypeStep, ReadInit, ReadStep, WriteInit, WriteStep, PTL
     DEF Spec, Channel!Spec
=============================================================================
