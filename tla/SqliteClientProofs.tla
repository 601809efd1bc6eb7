------------------------- MODULE SqliteClientProofs -------------------------
(***************************************************************************)
(* Proofs about SqliteClient, for every size of the length prefix and of   *)
(* the messages, every packet limit and every number of calls:             *)
(*   - the type invariant;                                                 *)
(*   - a request is read at most once, whatever times out or is cut;       *)
(*   - until a call times out or a response does not fit its prefix, a     *)
(*     call returns the response to its own request.                       *)
(***************************************************************************)
EXTENDS SqliteClient, SequenceTheorems, TLAPS

-----------------------------------------------------------------------------
(* Bytes and frames. *)

\* The bytes on their way to the client are of messages with a number.
Numbered == (0 .. MaxCalls) \X Nat \X Nat

LEMMA NumberedBytes == Numbered \subseteq Bytes
  BY ClientAssumption DEF Numbered, Bytes

LEMMA ByteTyped == \A n \in 0 .. MaxCalls, i \in Nat, size \in Nat : <<n, i, size>> \in Numbered
  BY DEF Numbered

\* A frame has its header and its payload, byte by byte.
LEMMA FrameFacts ==
  ASSUME NEW n \in 0 .. MaxCalls, NEW size \in Nat
  PROVE  /\ Frame(n, size) \in Seq(Numbered)
         /\ Len(Frame(n, size)) = HeaderBytes + size
         /\ \A i \in 1 .. HeaderBytes + size : Frame(n, size)[i] = <<n, i, size>>
<1>1. \A i \in 1 .. HeaderBytes + size : <<n, i, size>> \in Numbered
  BY ByteTyped, ClientAssumption
<1>2. HeaderBytes + size \in Nat
  BY ClientAssumption
<1> QED
  BY <1>1, <1>2 DEF Frame

\* The length prefix of a frame.
LEMMA HeaderFacts ==
  ASSUME NEW n \in 0 .. MaxCalls, NEW size \in Nat
  PROVE  /\ Header(n, size) \in Seq(Numbered)
         /\ Len(Header(n, size)) = HeaderBytes
         /\ \A i \in 1 .. HeaderBytes : Header(n, size)[i] = <<n, i, size>>
<1>0. \A i \in 1 .. HeaderBytes + size : Frame(n, size)[i] = <<n, i, size>>
  BY FrameFacts
<1>1. \A i \in 1 .. HeaderBytes : Frame(n, size)[i] = <<n, i, size>>
  BY <1>0, ClientAssumption
<1>2. \A i \in 1 .. HeaderBytes : Frame(n, size)[i] \in Numbered
  BY <1>1, ByteTyped, ClientAssumption
<1>3. /\ Header(n, size) \in Seq(Numbered)
      /\ Len(Header(n, size)) = IF 1 <= HeaderBytes THEN HeaderBytes - 1 + 1 ELSE 0
      /\ \A i \in 1 .. HeaderBytes - 1 + 1 : Header(n, size)[i] = Frame(n, size)[1 + i - 1]
  BY <1>2, SubSeqProperties, ClientAssumption DEF Header
<1> QED
  BY <1>1, <1>3, ClientAssumption

\* What follows the length prefix.
LEMMA PayloadFacts ==
  ASSUME NEW n \in 0 .. MaxCalls, NEW size \in Nat
  PROVE  /\ Payload(n, size) \in Seq(Numbered)
         /\ Len(Payload(n, size)) = size
         /\ \A i \in 1 .. size : Payload(n, size)[i] = <<n, HeaderBytes + i, size>>
<1>0. \A i \in 1 .. HeaderBytes + size : Frame(n, size)[i] = <<n, i, size>>
  BY FrameFacts
<1>1. \A i \in HeaderBytes + 1 .. HeaderBytes + size :
         Frame(n, size)[i] = <<n, i, size>>
  BY <1>0, ClientAssumption
<1>2. \A i \in HeaderBytes + 1 .. HeaderBytes + size : Frame(n, size)[i] \in Numbered
  BY <1>1, ByteTyped, ClientAssumption
<1>3. /\ Payload(n, size) \in Seq(Numbered)
      /\ Len(Payload(n, size)) = IF HeaderBytes + 1 <= HeaderBytes + size
                                 THEN (HeaderBytes + size) - (HeaderBytes + 1) + 1 ELSE 0
      /\ \A i \in 1 .. (HeaderBytes + size) - (HeaderBytes + 1) + 1 :
            Payload(n, size)[i] = Frame(n, size)[HeaderBytes + 1 + i - 1]
  BY <1>2, SubSeqProperties, ClientAssumption DEF Payload
<1> QED
  BY <1>1, <1>3, ClientAssumption

\* A reader takes the first k bytes of a stream and leaves the others.
LEMMA Cut ==
  ASSUME NEW S, NEW s \in Seq(S), NEW k \in 0 .. Len(s)
  PROVE  /\ SubSeq(s, 1, k) \in Seq(S) /\ Len(SubSeq(s, 1, k)) = k
         /\ \A i \in 1 .. k : SubSeq(s, 1, k)[i] = s[i]
         /\ SubSeq(s, k + 1, Len(s)) \in Seq(S) /\ Len(SubSeq(s, k + 1, Len(s))) = Len(s) - k
         /\ \A i \in 1 .. Len(s) - k : SubSeq(s, k + 1, Len(s))[i] = s[k + i]
<1>1. \A i \in 1 .. Len(s) : s[i] \in S
  BY ElementOfSeq
<1>2. Len(s) \in Nat
  BY LenProperties
<1>3. /\ SubSeq(s, 1, k) \in Seq(S)
      /\ Len(SubSeq(s, 1, k)) = IF 1 <= k THEN k - 1 + 1 ELSE 0
      /\ \A i \in 1 .. k - 1 + 1 : SubSeq(s, 1, k)[i] = s[1 + i - 1]
  BY <1>1, <1>2, SubSeqProperties
<1>4. /\ SubSeq(s, k + 1, Len(s)) \in Seq(S)
      /\ Len(SubSeq(s, k + 1, Len(s))) = IF k + 1 <= Len(s) THEN Len(s) - (k + 1) + 1 ELSE 0
      /\ \A i \in 1 .. Len(s) - (k + 1) + 1 : SubSeq(s, k + 1, Len(s))[i] = s[(k + 1) + i - 1]
  BY <1>1, <1>2, SubSeqProperties
<1> QED
  BY <1>2, <1>3, <1>4
-----------------------------------------------------------------------------
(* The type invariant. *)

TypeInv ==
    /\ TypeOK
    /\ buf \in Seq(Numbered) /\ down \in Seq(Numbered)
    /\ pc = "header" => need = HeaderBytes
    /\ pc \in {"idle", "closed"} => buf = <<>>
    /\ replies \in Seq(Nat) /\ Len(replies) <= requests

\* A length read from any bytes is one of the prefix.
LEMMA SizesTyped ==
  ASSUME NEW bytes \in Seq(Bytes), Len(bytes) = HeaderBytes, NEW size \in SizesOf(bytes)
  PROVE  size \in 0 .. Prefixes - 1
<1>1. bytes[1] \in Bytes
  BY ClientAssumption, ElementOfSeq
<1>2. bytes[1][3] \in Nat
  BY <1>1 DEF Bytes
<1>3. bytes[1][3] % Prefixes \in 0 .. Prefixes - 1
  BY <1>2, ClientAssumption
<1> QED
  BY <1>3 DEF SizesOf

\* A payload is a message or nothing that can be decoded.
LEMMA DecodedTyped ==
  ASSUME NEW bytes \in Seq(Numbered), NEW r \in Decoded(bytes)
  PROVE  r \in 0 .. MaxCalls
<1>1. CASE bytes = <<>>
  BY <1>1, ClientAssumption DEF Decoded, Empty
<1>2. CASE bytes # <<>>
  <2>1. bytes[1] \in Numbered
    BY <1>2, EmptySeq, ElementOfSeq
  <2>2. bytes[1][1] \in 0 .. MaxCalls
    BY <2>1 DEF Numbered
  <2>3. r = Empty \/ r = bytes[1][1]
    BY <1>2 DEF Decoded
  <2> QED
    BY <2>2, <2>3, ClientAssumption DEF Empty
<1> QED
  BY <1>1, <1>2

\* The call has ended, with one more result.
Ended ==
    /\ pc' \in {"idle", "closed"} /\ buf' = <<>> /\ need' = 0
    /\ buf' \in Seq(Numbered) /\ buf' \in Seq(Bytes) /\ Len(buf') = 0
    /\ results' \in Seq(0 .. MaxCalls) /\ Len(results') = calls'

\* A call that raises an exception ends like one that returns, with no result.
LEMMA RaiseTyped ==
  ASSUME TypeInv, Raise, calls' \in 0 .. MaxCalls, Len(results) + 1 = calls'
  PROVE  Ended /\ open' \in BOOLEAN
<1>1. 0 \in 0 .. MaxCalls
  BY ClientAssumption
<1>2. results' \in Seq(0 .. MaxCalls) /\ Len(results') = calls'
  BY <1>1 DEF TypeInv, TypeOK, Raise, Empty
<1>3. open' \in BOOLEAN
  BY DEF TypeInv, TypeOK, Raise
<1>4. pc' \in {"idle", "closed"} /\ buf' = <<>> /\ need' = 0
  BY DEF Raise
<1> QED
  BY <1>2, <1>3, <1>4, EmptySeq DEF Ended

\* A call that returns leaves the types.
LEMMA ReturnTyped ==
  ASSUME TypeInv, NEW r \in 0 .. MaxCalls, Return(r), calls' = calls, Len(results) + 1 = calls'
  PROVE  Ended
  BY ClientAssumption, EmptySeq DEF TypeInv, TypeOK, Return, Ended

LEMMA RequestTyped == \A n \in 0 .. MaxCalls : Frame(n, RequestBytes) \in Seq(Bytes)
<1> TAKE n \in 0 .. MaxCalls
<1>1. Frame(n, RequestBytes) \in Seq(Numbered)
  BY FrameFacts, ClientAssumption
<1> QED
  BY <1>1, NumberedBytes, SeqMonotonic

\* The server has read a request, or bytes that are not one.
Takes(n) ==
    /\ n \in 1 .. calls
    /\ want - 1 = RequestBytes /\ SubSeq(up, 1, want - 1) = Payload(n, RequestBytes)
    /\ taken' = Append(taken, n)

\* The server takes a body from the stream.
LEMMA BodyTaken ==
  ASSUME TypeInv, ServerReadsBody
  PROVE  taken' = Append(taken, Empty) \/ \E n \in 1 .. calls : Takes(n)
<1>1. CASE \E n \in 1 .. calls : SubSeq(up, 1, want - 1) = Payload(n, RequestBytes)
  <2>1. PICK n \in 1 .. calls : SubSeq(up, 1, want - 1) = Payload(n, RequestBytes)
    BY <1>1
  <2>2. n \in 0 .. MaxCalls /\ RequestBytes \in Nat /\ 1 \in 1 .. RequestBytes
    BY ClientAssumption DEF TypeInv, TypeOK
  <2>3. /\ Len(Payload(n, RequestBytes)) = RequestBytes
        /\ \A i \in 1 .. RequestBytes : Payload(n, RequestBytes)[i] = <<n, HeaderBytes + i, RequestBytes>>
    BY <2>2, PayloadFacts
  <2>4. SubSeq(up, 1, want - 1)[1][1] = n
    <3>1. Payload(n, RequestBytes)[1] = <<n, HeaderBytes + 1, RequestBytes>>
      BY <2>2, <2>3
    <3>2. SubSeq(up, 1, want - 1)[1] = Payload(n, RequestBytes)[1]
      BY <2>1, Zenon
    <3>3. Payload(n, RequestBytes)[1][1] = n
      BY <3>1
    <3> QED
      BY <3>2, <3>3, Zenon
  <2>5. taken' = Append(taken, n)
    BY <1>1, <2>4 DEF ServerReadsBody
  <2>6. want - 1 \in 0 .. Len(up)
    BY LenProperties, ClientAssumption DEF ServerReadsBody, TypeInv, TypeOK
  <2>7. Len(SubSeq(up, 1, want - 1)) = want - 1
    BY <2>6, Cut DEF TypeInv, TypeOK
  <2> QED
    BY <2>1, <2>3, <2>5, <2>7 DEF Takes
<1>2. CASE ~\E n \in 1 .. calls : SubSeq(up, 1, want - 1) = Payload(n, RequestBytes)
  BY <1>2 DEF ServerReadsBody
<1> QED
  BY <1>1, <1>2

LEMMA TypeInit == Init => TypeInv
<1> SUFFICES ASSUME Init PROVE TypeInv
  OBVIOUS
<1>1. auth \in BOOLEAN
  BY ClientAssumption DEF Init
<1>2. /\ calls \in 0 .. MaxCalls /\ want \in 0 .. MaxPacket + 1
      /\ need \in (0 .. Prefixes - 1) \union {HeaderBytes}
  BY ClientAssumption DEF Init
<1>3. /\ Len(<<>>) = 0 /\ <<>> \in Seq(Bytes) /\ <<>> \in Seq(Numbered)
      /\ <<>> \in Seq(0 .. MaxCalls) /\ <<>> \in Seq(Nat)
  BY EmptySeq
<1>4. requests = 0 /\ replies = <<>> /\ open = TRUE
  BY DEF Init, Channel!Init
<1>5. TypeOK
  <2>1. pc = "idle" /\ timedOut = FALSE /\ wrapped = FALSE /\ calls = 0 /\ need = 0
    BY DEF Init
  <2>2. buf = <<>> /\ up = <<>> /\ down = <<>> /\ results = <<>> /\ taken = <<>>
    BY DEF Init
  <2>3. buf \in Seq(Bytes) /\ up \in Seq(Bytes) /\ down \in Seq(Bytes) /\ Len(buf) <= need
    BY <1>3, <2>1, <2>2
  <2>4. taken \in Seq(0 .. MaxCalls) /\ results \in Seq(0 .. MaxCalls) /\ requests = Len(taken)
    BY <1>3, <1>4, <2>2
  <2>5. Len(results) = IF pc \in {"header", "payload"} THEN calls - 1 ELSE calls
    BY <1>3, <2>1, <2>2
  <2> QED
    BY <1>1, <1>2, <1>4, <2>1, <2>3, <2>4, <2>5 DEF TypeOK
<1> QED
  BY <1>3, <1>4, <1>5 DEF Init, TypeInv

LEMMA TypeStep == TypeInv /\ [Next]_vars => TypeInv'
<1> SUFFICES ASSUME TypeInv, [Next]_vars PROVE TypeInv'
  OBVIOUS
<1> USE ClientAssumption DEF callVars, serverVars
<1>1. CASE Call
  <2>1. up' \in Seq(Bytes)
    BY <1>1, RequestTyped, ConcatProperties DEF Call, TypeInv, TypeOK
  <2> QED
    BY <1>1, <2>1, EmptySeq DEF Call, ReadBytes, TypeInv, TypeOK
<1>2. CASE SendFails
  <2>1. Raise /\ calls' \in 0 .. MaxCalls /\ Len(results) + 1 = calls'
    BY <1>2 DEF SendFails, TypeInv, TypeOK
  <2>2. Ended /\ open' \in BOOLEAN
    BY <2>1, RaiseTyped
  <2> QED
    BY <1>2, <2>1, <2>2, EmptySeq DEF SendFails, Ended, TypeInv, TypeOK
<1>3. CASE SendTimesOut
  <2>1. PICK k \in 0 .. HeaderBytes + RequestBytes - 1 :
           up' = up \o SubSeq(Frame(calls + 1, RequestBytes), 1, k)
    BY <1>3 DEF SendTimesOut
  <2>2. calls + 1 \in 0 .. MaxCalls
    BY <1>3 DEF SendTimesOut, TypeInv, TypeOK
  <2>3. /\ Frame(calls + 1, RequestBytes) \in Seq(Bytes)
        /\ Len(Frame(calls + 1, RequestBytes)) = HeaderBytes + RequestBytes
    BY <2>2, RequestTyped, FrameFacts
  <2>4. SubSeq(Frame(calls + 1, RequestBytes), 1, k) \in Seq(Bytes)
    BY <2>3, Cut
  <2>5. up' \in Seq(Bytes)
    BY <2>1, <2>4, ConcatProperties DEF TypeInv, TypeOK
  <2>6. Raise /\ calls' \in 0 .. MaxCalls /\ Len(results) + 1 = calls'
    BY <1>3, <2>2 DEF SendTimesOut, TypeInv, TypeOK
  <2>7. Ended /\ open' \in BOOLEAN
    BY <2>6, RaiseTyped
  <2> QED
    BY <1>3, <2>5, <2>6, <2>7 DEF SendTimesOut, Ended, TypeInv, TypeOK
<1>4. CASE RecvReset
  <2>1. Raise /\ calls' \in 0 .. MaxCalls /\ Len(results) + 1 = calls'
    BY <1>4 DEF RecvReset, TypeInv, TypeOK
  <2>2. Ended /\ open' \in BOOLEAN
    BY <2>1, RaiseTyped
  <2> QED
    BY <1>4, <2>1, <2>2, EmptySeq DEF RecvReset, Ended, TypeInv, TypeOK
<1>5. CASE Close
  BY <1>5, EmptySeq DEF Close, TypeInv, TypeOK
<1>6. CASE Recv
  <2>1. PICK k \in 1 .. need - Len(buf) :
           /\ k <= Len(down)
           /\ buf' = buf \o SubSeq(down, 1, k)
           /\ down' = SubSeq(down, k + 1, Len(down))
    BY <1>6 DEF Recv
  <2>2. k \in 0 .. Len(down)
    BY <2>1, LenProperties DEF TypeInv
  <2>3. /\ SubSeq(down, 1, k) \in Seq(Numbered) /\ Len(SubSeq(down, 1, k)) = k
        /\ down' \in Seq(Numbered)
    BY <2>1, <2>2, Cut DEF TypeInv
  <2>4. buf' \in Seq(Numbered) /\ Len(buf') = Len(buf) + k
    BY <2>1, <2>3, ConcatProperties DEF TypeInv
  <2>5. buf' \in Seq(Bytes) /\ down' \in Seq(Bytes)
    BY <2>3, <2>4, NumberedBytes, SeqMonotonic
  <2>6. Len(buf') <= need'
    BY <1>6, <2>1, <2>4, LenProperties DEF Recv, TypeInv, TypeOK
  <2> QED
    BY <1>6, <2>3, <2>4, <2>5, <2>6 DEF Recv, TypeInv, TypeOK
<1>7. CASE RecvTimesOut
  <2>1. Raise /\ calls' \in 0 .. MaxCalls /\ Len(results) + 1 = calls'
    BY <1>7 DEF RecvTimesOut, TypeInv, TypeOK
  <2>2. Ended /\ open' \in BOOLEAN
    BY <2>1, RaiseTyped
  <2> QED
    BY <1>7, <2>1, <2>2, EmptySeq DEF RecvTimesOut, Ended, TypeInv, TypeOK
<1>8. CASE RecvEof
  <2>1. Return(0) /\ calls' = calls /\ Len(results) + 1 = calls'
    BY <1>8 DEF RecvEof, TypeInv, TypeOK, Empty
  <2>2. Ended
    BY <2>1, ReturnTyped
  <2> QED
    BY <1>8, <2>1, <2>2 DEF RecvEof, Ended, TypeInv, TypeOK
<1>9. CASE HeaderRead
  <2>1. PICK size \in SizesOf(buf) : ReadBytes("payload", size)
    BY <1>9 DEF HeaderRead
  <2>2. size \in 0 .. Prefixes - 1
    BY <1>9, SizesTyped DEF HeaderRead, Complete, TypeInv, TypeOK
  <2> QED
    BY <1>9, <2>1, <2>2, EmptySeq DEF HeaderRead, ReadBytes, TypeInv, TypeOK
<1>10. CASE PayloadRead
  <2>1. PICK r \in Decoded(buf) : Return(r)
    BY <1>10 DEF PayloadRead
  <2>2. r \in 0 .. MaxCalls
    BY DecodedTyped DEF TypeInv
  <2>3. calls' = calls /\ Len(results) + 1 = calls'
    BY <1>10 DEF PayloadRead, TypeInv, TypeOK
  <2>4. Ended
    BY <2>1, <2>2, <2>3, ReturnTyped
  <2> QED
    BY <1>10, <2>3, <2>4 DEF PayloadRead, Ended, TypeInv, TypeOK
<1>11. CASE ServerReadsHeader
  <2>1. HeaderBytes \in 0 .. Len(up)
    BY <1>11, LenProperties DEF ServerReadsHeader, TypeInv, TypeOK
  <2>2. up' \in Seq(Bytes)
    BY <1>11, <2>1, Cut DEF ServerReadsHeader, TypeInv, TypeOK
  <2>3. SubSeq(up, 1, HeaderBytes) \in Seq(Bytes) /\ Len(SubSeq(up, 1, HeaderBytes)) = HeaderBytes
    BY <2>1, Cut DEF TypeInv, TypeOK
  <2>4. PICK size \in SizesOf(SubSeq(up, 1, HeaderBytes)) :
           /\ want' = IF size > MaxPacket THEN 0 ELSE size + 1
           /\ open' = (size <= MaxPacket)
    BY <1>11 DEF ServerReadsHeader
  <2>5. size \in 0 .. Prefixes - 1
    BY <2>3, SizesTyped
  <2>6. want' \in 0 .. MaxPacket + 1 /\ open' \in BOOLEAN
    BY <2>4, <2>5
  <2> QED
    BY <1>11, <2>2, <2>6 DEF ServerReadsHeader, TypeInv, TypeOK
<1>12. CASE ServerReadsBody
  <2>1. want - 1 \in 0 .. Len(up)
    BY <1>12, LenProperties DEF ServerReadsBody, TypeInv, TypeOK
  <2>2. up' \in Seq(Bytes)
    BY <1>12, <2>1, Cut DEF ServerReadsBody, TypeInv, TypeOK
  <2>3. PICK n \in 0 .. MaxCalls : taken' = Append(taken, n)
    <3>1. 0 \in 0 .. MaxCalls /\ \A n \in 1 .. calls : n \in 0 .. MaxCalls
      BY DEF TypeInv, TypeOK
    <3> QED
      BY <1>12, <3>1, BodyTaken DEF Takes, Empty
  <2>4. taken' \in Seq(0 .. MaxCalls) /\ Len(taken') = Len(taken) + 1
    BY <2>3 DEF TypeInv, TypeOK
  <2>5. requests' = Len(taken') /\ Len(replies') <= requests' /\ want' = 0
    BY <1>12, <2>4, LenProperties DEF ServerReadsBody, Channel!Request, TypeInv, TypeOK
  <2>6. UNCHANGED <<callVars, down, replies, open, timedOut, wrapped>>
    BY <1>12 DEF ServerReadsBody, Channel!Request
  <2> QED
    BY <2>2, <2>4, <2>5, <2>6 DEF TypeInv, TypeOK
<1>13. CASE ServerReplies
  <2>1. PICK size \in ResponseSizes :
           /\ down' = down \o Frame(taken[Len(replies) + 1], size)
           /\ wrapped' = (wrapped \/ size >= Prefixes)
    BY <1>13 DEF ServerReplies
  <2>2. Len(replies) + 1 \in 1 .. Len(taken)
    BY <1>13, LenProperties DEF ServerReplies, Channel!Reply, TypeInv, TypeOK
  <2>3. taken[Len(replies) + 1] \in 0 .. MaxCalls
    BY <2>2, ElementOfSeq DEF TypeInv, TypeOK
  <2>4. Frame(taken[Len(replies) + 1], size) \in Seq(Numbered)
    BY <2>3, FrameFacts
  <2>5. down' \in Seq(Numbered)
    BY <2>1, <2>4, ConcatProperties DEF TypeInv
  <2>6. down' \in Seq(Bytes)
    BY <2>5, NumberedBytes, SeqMonotonic
  <2>7. replies' \in Seq(Nat) /\ Len(replies') <= requests'
    BY <1>13 DEF ServerReplies, Channel!Reply, TypeInv, TypeOK
  <2>8. wrapped' \in BOOLEAN
    BY <2>1 DEF TypeInv, TypeOK
  <2> QED
    BY <1>13, <2>5, <2>6, <2>7, <2>8 DEF ServerReplies, Channel!Reply, TypeInv, TypeOK
<1>14. CASE ServerCloses
  BY <1>14 DEF ServerCloses, Channel!Close, TypeInv, TypeOK
<1>15. CASE UNCHANGED vars
  BY <1>15 DEF vars, TypeInv, TypeOK
<1> QED
  BY <1>1, <1>2, <1>3, <1>4, <1>5, <1>6, <1>7, <1>8, <1>9, <1>10, <1>11, <1>12, <1>13, <1>14, <1>15
     DEF Next, InCall, Server

\* The type invariant of the client, for any number of calls.
THEOREM ClientTypeCorrect == Spec => []TypeOK
<1>1. TypeInv => TypeOK
  BY DEF TypeInv
<1> QED
  BY TypeInit, TypeStep, <1>1, PTL DEF Spec
-----------------------------------------------------------------------------
(* A request is read at most once.  The bytes on their way to the server   *)
(* are of requests only, in the order in which they were sent, and of none *)
(* that the server has read.                                               *)

Before(b, c) == b[1] < c[1] \/ (b[1] = c[1] /\ b[2] < c[2])

OnceInv ==
    /\ \A p \in 1 .. Len(up) : up[p][1] \in 1 .. calls /\ up[p][2] \in 1 .. HeaderBytes + RequestBytes
    /\ \A p, q \in 1 .. Len(up) : p < q => Before(up[p], up[q])
    /\ \A k \in 1 .. Len(taken) : taken[k] <= calls
    /\ \A k \in 1 .. Len(taken), p \in 1 .. Len(up) : taken[k] < up[p][1]
    /\ \A i, j \in 1 .. Len(taken) : taken[i] = taken[j] /\ i # j => taken[i] = Empty

\* A call sends its frame, or the first bytes of it.
Sends(s, k) ==
    /\ calls' = calls + 1 /\ taken' = taken /\ up' = up \o s
    /\ k \in 0 .. HeaderBytes + RequestBytes
    /\ s \in Seq(Bytes) /\ Len(s) = k
    /\ \A i \in 1 .. k : s[i] = <<calls + 1, i, RequestBytes>>

LEMMA Halves == \A n, k \in Nat : \A p \in 1 .. n + k : p \in 1 .. n \/ p \in n + 1 .. n + k
  OBVIOUS

\* What the client adds to the stream is of a request after all that are in it.
LEMMA OnceSent == ASSUME TypeInv, OnceInv, NEW s, NEW k, Sends(s, k) PROVE OnceInv'
<1>0. PICK n \in Nat : n = Len(up)
  BY LenProperties DEF TypeInv, TypeOK
<1>1. /\ n \in Nat /\ k \in Nat /\ up \in Seq(Bytes) /\ calls \in Nat
      /\ calls' = calls + 1 /\ taken' = taken /\ k <= HeaderBytes + RequestBytes
  BY LenProperties, ClientAssumption DEF TypeInv, TypeOK, Sends
<1>2. Len(up') = n + k
  BY <1>0, <1>1, ConcatProperties DEF Sends
<1>3. \A p \in 1 .. n : up'[p] = up[p]
  BY <1>0, <1>1, ConcatProperties DEF Sends
<1>4. \A p \in n + 1 .. n + k : up'[p] = <<calls + 1, p - n, RequestBytes>>
  <2> TAKE p \in n + 1 .. n + k
  <2>1. p \in 1 .. n + k /\ ~(p <= n) /\ p - n \in 1 .. k
    BY <1>1
  <2>2. up'[p] = s[p - n]
    BY <1>0, <1>1, <2>1, ConcatProperties DEF Sends
  <2> QED
    BY <2>1, <2>2 DEF Sends
<1>5. \A p \in n + 1 .. n + k : up'[p][1] = calls + 1 /\ up'[p][2] = p - n
  BY <1>4
<1>6. \A p \in 1 .. n + k : up'[p][1] \in 1 .. calls' /\ up'[p][2] \in 1 .. HeaderBytes + RequestBytes
  <2> TAKE p \in 1 .. n + k
  <2>1. CASE p \in 1 .. n
    <3>1. up'[p] = up[p] /\ up[p][1] \in 1 .. calls /\ up[p][2] \in 1 .. HeaderBytes + RequestBytes
      BY <2>1, <1>3, <1>0 DEF OnceInv
    <3> QED
      BY <3>1, <1>1
  <2>2. CASE p \in n + 1 .. n + k
    BY <2>2, <1>1, <1>5, ClientAssumption
  <2> QED
    BY <1>1, Halves, <2>1, <2>2
<1>7. \A p, q \in 1 .. n + k : p < q => Before(up'[p], up'[q])
  <2> SUFFICES ASSUME NEW p \in 1 .. n + k, NEW q \in 1 .. n + k, p < q PROVE Before(up'[p], up'[q])
    OBVIOUS
  <2>1. CASE q \in 1 .. n
    <3>1. p \in 1 .. n
      BY <2>1, <1>1
    <3> QED
      BY <2>1, <3>1, <1>3, <1>0 DEF OnceInv
  <2>2. CASE p \in 1 .. n /\ q \in n + 1 .. n + k
    <3>1. up'[p] = up[p] /\ up[p][1] \in 1 .. calls /\ up'[q][1] = calls + 1
      BY <2>2, <1>3, <1>5, <1>0 DEF OnceInv
    <3> QED
      BY <3>1, <1>1 DEF Before
  <2>3. CASE p \in n + 1 .. n + k
    <3>1. q \in n + 1 .. n + k
      BY <2>3, <1>1
    <3> QED
      BY <2>3, <3>1, <1>1, <1>5 DEF Before
  <2> QED
    BY <1>1, Halves, <2>1, <2>2, <2>3
<1>8. \A i \in 1 .. Len(taken) : taken[i] \in 0 .. MaxCalls
  BY ElementOfSeq DEF TypeInv, TypeOK
<1>9. \A i \in 1 .. Len(taken) : taken[i] <= calls'
  BY <1>1, <1>8 DEF OnceInv
<1>10. \A i \in 1 .. Len(taken), p \in 1 .. n + k : taken[i] < up'[p][1]
  <2> TAKE i \in 1 .. Len(taken), p \in 1 .. n + k
  <2>1. CASE p \in 1 .. n
    BY <2>1, <1>3, <1>0 DEF OnceInv
  <2>2. CASE p \in n + 1 .. n + k
    <3>1. up'[p][1] = calls + 1 /\ taken[i] <= calls /\ taken[i] \in Nat
      BY <2>2, <1>5, <1>8 DEF OnceInv
    <3> QED
      BY <3>1, <1>1
  <2> QED
    BY <1>1, Halves, <2>1, <2>2
<1> QED
  BY <1>0, <1>1, <1>2, <1>6, <1>7, <1>9, <1>10 DEF OnceInv

\* The server reads the first k bytes.
LEMMA OnceCut ==
  ASSUME TypeInv, OnceInv, NEW k \in 0 .. Len(up)
  PROVE  LET rest == SubSeq(up, k + 1, Len(up)) IN
         /\ \A p \in 1 .. Len(rest) : rest[p][1] \in 1 .. calls /\ rest[p][2] \in 1 .. HeaderBytes + RequestBytes
         /\ \A p, q \in 1 .. Len(rest) : p < q => Before(rest[p], rest[q])
         /\ \A i \in 1 .. Len(taken), p \in 1 .. Len(rest) : taken[i] < rest[p][1]
         /\ \A p \in 1 .. k, q \in 1 .. Len(rest) : Before(up[p], rest[q])
<1> DEFINE rest == SubSeq(up, k + 1, Len(up))
<1>1. /\ Len(rest) = Len(up) - k
      /\ \A i \in 1 .. Len(up) - k : rest[i] = up[k + i]
  BY Cut DEF TypeInv, TypeOK
<1>2. Len(up) \in Nat
  BY LenProperties DEF TypeInv, TypeOK
<1> HIDE DEF rest
<1>3. \A p \in 1 .. Len(rest) : k + p \in 1 .. Len(up) /\ rest[p] = up[k + p]
  BY <1>1, <1>2
<1>4. \A p, q \in 1 .. Len(rest) : p < q => k + p < k + q
  BY <1>1, <1>2
<1>5. \A p \in 1 .. k, q \in 1 .. Len(rest) : p \in 1 .. Len(up) /\ p < k + q
  BY <1>1, <1>2
<1>6. \A p \in 1 .. Len(rest) : rest[p][1] \in 1 .. calls /\ rest[p][2] \in 1 .. HeaderBytes + RequestBytes
  BY <1>3 DEF OnceInv
<1>7. \A p, q \in 1 .. Len(rest) : p < q => Before(rest[p], rest[q])
  BY <1>3, <1>4 DEF OnceInv
<1>8. \A i \in 1 .. Len(taken), p \in 1 .. Len(rest) : taken[i] < rest[p][1]
  BY <1>3 DEF OnceInv
<1>9. \A p \in 1 .. k, q \in 1 .. Len(rest) : Before(up[p], rest[q])
  BY <1>3, <1>5 DEF OnceInv
<1> QED
  BY <1>6, <1>7, <1>8, <1>9 DEF rest

\* The server has read one request more, and its bytes are gone.
LEMMA OnceRead ==
  ASSUME TypeInv, OnceInv, ServerReadsBody
  PROVE  OnceInv'
<1> DEFINE rest == SubSeq(up, (want - 1) + 1, Len(up))
<1>1. want - 1 \in 0 .. Len(up) /\ up' = rest /\ calls' = calls /\ calls \in Nat
  BY LenProperties, ClientAssumption DEF ServerReadsBody, callVars, TypeInv, TypeOK
<1>2. /\ \A p \in 1 .. Len(rest) : rest[p][1] \in 1 .. calls /\ rest[p][2] \in 1 .. HeaderBytes + RequestBytes
      /\ \A p, q \in 1 .. Len(rest) : p < q => Before(rest[p], rest[q])
      /\ \A i \in 1 .. Len(taken), p \in 1 .. Len(rest) : taken[i] < rest[p][1]
      /\ \A p \in 1 .. want - 1, q \in 1 .. Len(rest) : Before(up[p], rest[q])
  BY <1>1, OnceCut
<1>3. /\ \A p \in 1 .. Len(up') : up'[p][1] \in 1 .. calls /\ up'[p][2] \in 1 .. HeaderBytes + RequestBytes
      /\ \A p, q \in 1 .. Len(up') : p < q => Before(up'[p], up'[q])
      /\ \A i \in 1 .. Len(taken), p \in 1 .. Len(up') : taken[i] < up'[p][1]
      /\ \A p \in 1 .. want - 1, q \in 1 .. Len(up') : Before(up[p], up'[q])
  BY <1>1, <1>2
<1> HIDE DEF rest
<1>4. Len(taken) \in Nat /\ taken \in Seq(0 .. MaxCalls) /\ \A i \in 1 .. Len(taken) : taken[i] \in 0 .. MaxCalls
  BY LenProperties, ElementOfSeq DEF TypeInv, TypeOK
<1>5. SUFFICES ASSUME NEW n \in 0 .. calls, taken' = Append(taken, n),
                      \A p \in 1 .. Len(up') : n < up'[p][1],
                      n # Empty => \A i \in 1 .. Len(taken) : taken[i] < n
               PROVE  OnceInv'
  <2>1. CASE taken' = Append(taken, Empty)
    <3>1. \A p \in 1 .. Len(up') : 0 < up'[p][1]
      BY <1>1, <1>3
    <3> QED
      BY <1>1, <1>5, <2>1, <3>1 DEF Empty
  <2>2. CASE \E n \in 1 .. calls : Takes(n)
    <3>1. PICK n \in 1 .. calls : Takes(n)
      BY <2>2
    <3>2. n \in 0 .. MaxCalls /\ RequestBytes \in 1 .. want - 1 /\ 1 \in 1 .. want - 1 /\ want - 1 = RequestBytes
      BY <3>1, ClientAssumption DEF Takes, TypeInv, TypeOK
    <3>3. \A i \in 1 .. RequestBytes : up[i] = <<n, HeaderBytes + i, RequestBytes>>
      <4>1. \A i \in 1 .. RequestBytes : Payload(n, RequestBytes)[i] = <<n, HeaderBytes + i, RequestBytes>>
        BY <3>2, PayloadFacts
      <4>2. \A i \in 1 .. want - 1 : SubSeq(up, 1, want - 1)[i] = up[i]
        BY <1>1, Cut DEF TypeInv, TypeOK
      <4> QED
        BY <3>1, <3>2, <4>1, <4>2 DEF Takes
    <3>4. up[1][1] = n /\ up[RequestBytes][1] = n /\ up[RequestBytes][2] = HeaderBytes + RequestBytes
      <4>1. /\ up[1] = <<n, HeaderBytes + 1, RequestBytes>>
            /\ up[RequestBytes] = <<n, HeaderBytes + RequestBytes, RequestBytes>>
        BY <3>2, <3>3
      <4> QED
        BY <4>1
    <3>5. \A p \in 1 .. Len(up') : n < up'[p][1]
      <4> TAKE p \in 1 .. Len(up')
      <4>1. /\ Before(up[RequestBytes], up'[p])
            /\ up'[p][1] \in 1 .. calls /\ up'[p][2] \in 1 .. HeaderBytes + RequestBytes
        BY <1>3, <3>2
      <4> QED
        BY <3>4, <4>1, <1>1, ClientAssumption DEF Before
    <3>6. \A i \in 1 .. Len(taken) : taken[i] < n
      <4>1. 1 \in 1 .. Len(up)
        BY <1>1, <3>2, LenProperties DEF TypeInv, TypeOK
      <4> QED
        BY <4>1, <3>4 DEF OnceInv
    <3> QED
      <4>1. n \in 0 .. calls /\ taken' = Append(taken, n)
        BY <3>1, <1>1 DEF Takes
      <4> QED
        BY <1>5, <3>5, <3>6, <4>1
  <2> QED
    BY <2>1, <2>2, BodyTaken
<1>6. /\ Len(taken') = Len(taken) + 1
      /\ taken'[Len(taken) + 1] = n
      /\ \A i \in 1 .. Len(taken) : taken'[i] = taken[i]
  BY <1>1, <1>4, <1>5
<1>7. \A i \in 1 .. Len(taken') : i \in 1 .. Len(taken) \/ i = Len(taken) + 1
  BY <1>4, <1>6
<1>8. \A i \in 1 .. Len(taken') : taken'[i] <= calls'
  BY <1>1, <1>4, <1>6, <1>7 DEF OnceInv
<1>9. \A i \in 1 .. Len(taken'), p \in 1 .. Len(up') : taken'[i] < up'[p][1]
  BY <1>3, <1>5, <1>6, <1>7
<1>10. \A i, j \in 1 .. Len(taken') : taken'[i] = taken'[j] /\ i # j => taken'[i] = Empty
  <2> SUFFICES ASSUME NEW i \in 1 .. Len(taken'), NEW j \in 1 .. Len(taken'), taken'[i] = taken'[j], i # j
               PROVE  taken'[i] = Empty
    OBVIOUS
  <2>1. CASE i \in 1 .. Len(taken) /\ j \in 1 .. Len(taken)
    BY <2>1, <1>6 DEF OnceInv
  <2>2. CASE i = Len(taken) + 1 /\ j \in 1 .. Len(taken)
    BY <2>2, <1>1, <1>4, <1>5, <1>6
  <2>3. CASE i \in 1 .. Len(taken) /\ j = Len(taken) + 1
    BY <2>3, <1>1, <1>4, <1>5, <1>6
  <2> QED
    BY <1>7, <2>1, <2>2, <2>3
<1> QED
  BY <1>1, <1>3, <1>8, <1>9, <1>10 DEF OnceInv

\* Requests are sent in order and read in order, so that none is read again.
LEMMA OnceStep == TypeInv /\ OnceInv /\ [Next]_vars => OnceInv'
<1> SUFFICES ASSUME TypeInv, OnceInv, [Next]_vars PROVE OnceInv'
  OBVIOUS
<1> USE DEF callVars, serverVars
<1>1. calls \in 0 .. MaxCalls /\ calls \in Nat /\ \A i \in 1 .. Len(taken) : taken[i] \in 0 .. MaxCalls
  BY ClientAssumption, ElementOfSeq DEF TypeInv, TypeOK
<1>2. \A i \in 1 .. Len(taken) : taken[i] <= calls
  BY DEF OnceInv
<1>3. ASSUME UNCHANGED <<up, taken>>, calls' = calls \/ calls' = calls + 1 PROVE OnceInv'
  <2>1. \A n \in 1 .. calls : n \in 1 .. calls'
    BY <1>1, <1>3
  <2>2. \A p \in 1 .. Len(up) : up[p][1] \in 1 .. calls'
    BY <2>1 DEF OnceInv
  <2>3. \A i \in 1 .. Len(taken) : taken[i] <= calls'
    BY <1>1, <1>2, <1>3
  <2> QED
    BY <1>3, <2>2, <2>3 DEF OnceInv
<1>4. ASSUME calls < MaxCalls, NEW k \in 0 .. HeaderBytes + RequestBytes,
             calls' = calls + 1, taken' = taken,
             up' = up \o SubSeq(Frame(calls + 1, RequestBytes), 1, k)
      PROVE  OnceInv'
  <2> DEFINE f == Frame(calls + 1, RequestBytes)
  <2>1. calls + 1 \in 0 .. MaxCalls /\ RequestBytes \in Nat
    BY <1>1, <1>4, ClientAssumption
  <2>2. /\ f \in Seq(Bytes) /\ Len(f) = HeaderBytes + RequestBytes
        /\ \A i \in 1 .. HeaderBytes + RequestBytes : f[i] = <<calls + 1, i, RequestBytes>>
    BY <2>1, RequestTyped, FrameFacts
  <2> HIDE DEF f
  <2>3. /\ SubSeq(f, 1, k) \in Seq(Bytes) /\ Len(SubSeq(f, 1, k)) = k
        /\ \A i \in 1 .. k : SubSeq(f, 1, k)[i] = f[i]
    BY <1>4, <2>2, Cut
  <2>4. \A i \in 1 .. k : i \in 1 .. HeaderBytes + RequestBytes
    BY <1>4, ClientAssumption
  <2>5. Sends(SubSeq(f, 1, k), k)
    BY <1>4, <2>2, <2>3, <2>4 DEF Sends, f
  <2> QED
    BY <2>5, OnceSent
<1>5. CASE Call
  <2>1. CASE open
    <3>1. calls + 1 \in 0 .. MaxCalls /\ RequestBytes \in Nat /\ HeaderBytes + RequestBytes \in 0 .. HeaderBytes + RequestBytes
      BY <1>1, <1>5, ClientAssumption DEF Call
    <3>2. /\ Frame(calls + 1, RequestBytes) \in Seq(Bytes)
          /\ Len(Frame(calls + 1, RequestBytes)) = HeaderBytes + RequestBytes
          /\ \A i \in 1 .. HeaderBytes + RequestBytes :
                Frame(calls + 1, RequestBytes)[i] = <<calls + 1, i, RequestBytes>>
      BY <3>1, RequestTyped, FrameFacts
    <3>3. Sends(Frame(calls + 1, RequestBytes), HeaderBytes + RequestBytes)
      BY <1>5, <2>1, <3>1, <3>2 DEF Call, Sends
    <3> QED
      BY <3>3, OnceSent
  <2>2. CASE ~open
    BY <1>3, <1>5, <2>2 DEF Call
  <2> QED
    BY <2>1, <2>2
<1>6. CASE SendTimesOut
  <2>1. PICK k \in 0 .. HeaderBytes + RequestBytes - 1 :
           up' = up \o SubSeq(Frame(calls + 1, RequestBytes), 1, k)
    BY <1>6 DEF SendTimesOut
  <2>2. k \in 0 .. HeaderBytes + RequestBytes
    BY ClientAssumption
  <2> QED
    BY <1>4, <1>6, <2>1, <2>2 DEF SendTimesOut
<1>7. CASE ServerReadsHeader
  <2>1. HeaderBytes \in 0 .. Len(up) /\ up' = SubSeq(up, HeaderBytes + 1, Len(up))
    BY <1>7, LenProperties, ClientAssumption DEF ServerReadsHeader, TypeInv, TypeOK
  <2>2. taken' = taken /\ calls' = calls
    BY <1>7 DEF ServerReadsHeader
  <2>3. /\ \A p \in 1 .. Len(up') : up'[p][1] \in 1 .. calls /\ up'[p][2] \in 1 .. HeaderBytes + RequestBytes
        /\ \A p, q \in 1 .. Len(up') : p < q => Before(up'[p], up'[q])
        /\ \A i \in 1 .. Len(taken), p \in 1 .. Len(up') : taken[i] < up'[p][1]
    BY <2>1, OnceCut
  <2> QED
    BY <2>2, <2>3 DEF OnceInv
<1>8. CASE ServerReadsBody
  BY <1>8, OnceRead
<1>9. CASE SendFails
  BY <1>3, <1>9 DEF SendFails
<1>10. CASE RecvReset \/ Close \/ InCall \/ ServerReplies \/ ServerCloses
  BY <1>3, <1>10
     DEF RecvReset, Close, InCall, Recv, RecvTimesOut, RecvEof, HeaderRead, PayloadRead,
         ServerReplies, ServerCloses
<1>11. CASE UNCHANGED vars
  BY <1>3, <1>11 DEF vars
<1> QED
  BY <1>5, <1>6, <1>7, <1>8, <1>9, <1>10, <1>11 DEF Next, Server

\* The server never reads the request of a call twice, nor one that a timeout
\* of sendall has cut: at any sizes, and after any number of timeouts.
THEOREM RequestsReadOnce == Spec => []AtMostOnce
<1>1. Init => OnceInv
  <2> SUFFICES ASSUME Init PROVE OnceInv
    OBVIOUS
  <2>1. up = <<>> /\ taken = <<>> /\ Len(<<>>) = 0
    BY EmptySeq DEF Init
  <2> QED
    BY <2>1 DEF OnceInv
<1>2. TypeInv /\ OnceInv => AtMostOnce
  <2> SUFFICES ASSUME TypeInv, OnceInv PROVE AtMostOnce
    OBVIOUS
  <2>1. DOMAIN taken = 1 .. Len(taken)
    BY LenProperties DEF TypeInv, TypeOK
  <2> QED
    BY <2>1 DEF OnceInv, AtMostOnce
<1> QED
  BY <1>1, <1>2, TypeInit, TypeStep, OnceStep, PTL DEF Spec
-----------------------------------------------------------------------------
(* A call returns the response to its own request. *)

LEMMA NoBytes == ASSUME NEW S, NEW s \in Seq(S), Len(s) = 0 PROVE s = <<>>
  BY EmptySeq

\* The stream a reader cuts in two is the stream it had.
Parts(S, d, k, x, y) ==
    /\ x \in Seq(S) /\ Len(x) = k /\ \A i \in 1 .. k : x[i] = d[i]
    /\ y \in Seq(S) /\ Len(y) = Len(d) - k /\ \A i \in 1 .. Len(d) - k : y[i] = d[k + i]

\* What has been received and the two parts of what is to come are the same bytes.
LEMMA TwoParts ==
  ASSUME NEW S, NEW b \in Seq(S), NEW d \in Seq(S), NEW k \in 0 .. Len(d), NEW x, NEW y,
         Parts(S, d, k, x, y)
  PROVE  (b \o x) \o y = b \o d
<1>1. /\ x \in Seq(S) /\ Len(x) = k /\ \A i \in 1 .. k : x[i] = d[i]
      /\ y \in Seq(S) /\ Len(y) = Len(d) - k /\ \A i \in 1 .. Len(d) - k : y[i] = d[k + i]
  BY DEF Parts
<1>2. Len(d) \in Nat
  BY LenProperties
<1>3. (b \o x) \o y = b \o (x \o y)
  <2>1. x \in Seq(S) /\ y \in Seq(S)
    BY <1>1
  <2> QED
    BY <2>1, ConcatAssociative
<1>4. /\ x \o y \in Seq(S) /\ Len(x \o y) = Len(x) + Len(y)
      /\ \A i \in 1 .. Len(x) + Len(y) : (x \o y)[i] = IF i <= Len(x) THEN x[i] ELSE y[i - Len(x)]
  BY <1>1, ConcatProperties
<1>5. \A i \in 1 .. Len(d) : (x \o y)[i] = d[i]
  <2> TAKE i \in 1 .. Len(d)
  <2>1. CASE i <= k
    BY <2>1, <1>1, <1>2, <1>4
  <2>2. CASE ~(i <= k)
    <3>1. i - k \in 1 .. Len(d) - k /\ k + (i - k) = i
      BY <2>2, <1>2
    <3> QED
      BY <2>2, <3>1, <1>1, <1>2, <1>4
  <2> QED
    BY <2>1, <2>2
<1>6. Len(x \o y) = Len(d)
  BY <1>1, <1>2, <1>4
<1>7. x \o y = d
  BY <1>4, <1>5, <1>6, SeqEqual
<1> QED
  BY <1>3, <1>7

\* A recv of k bytes changes nothing of what the client reads in all.
LEMMA Joined ==
  ASSUME NEW S, NEW b \in Seq(S), NEW d \in Seq(S), NEW k \in 0 .. Len(d)
  PROVE  (b \o SubSeq(d, 1, k)) \o SubSeq(d, k + 1, Len(d)) = b \o d
<1>1. \A x, y : Parts(S, d, k, x, y) => (b \o x) \o y = b \o d
  BY TwoParts
<1>2. Parts(S, d, k, SubSeq(d, 1, k), SubSeq(d, k + 1, Len(d)))
  BY Cut DEF Parts
<1> QED
  BY <1>1, <1>2, Zenon

\* What was read and what is to come are the two parts of a stream.
LEMMA Parted ==
  ASSUME NEW S, NEW b \in Seq(S), NEW d \in Seq(S)
  PROVE  b = SubSeq(b \o d, 1, Len(b)) /\ d = SubSeq(b \o d, Len(b) + 1, Len(b) + Len(d))
<1>1. Len(b) \in Nat /\ Len(d) \in Nat
  BY LenProperties
<1>2. /\ b \o d \in Seq(S) /\ Len(b \o d) = Len(b) + Len(d)
      /\ \A i \in 1 .. Len(b) + Len(d) : (b \o d)[i] = IF i <= Len(b) THEN b[i] ELSE d[i - Len(b)]
  BY ConcatProperties
<1> DEFINE c == b \o d
<1> HIDE DEF c
<1>3. c \in Seq(S) /\ Len(c) = Len(b) + Len(d) /\ Len(b) \in 0 .. Len(c)
  BY <1>1, <1>2 DEF c
<1>4. \A i \in 1 .. Len(b) : c[i] = b[i]
  BY <1>1, <1>2 DEF c
<1>5. \A i \in 1 .. Len(d) : c[Len(b) + i] = d[i]
  <2> TAKE i \in 1 .. Len(d)
  <2>1. Len(b) + i \in 1 .. Len(b) + Len(d) /\ ~(Len(b) + i <= Len(b)) /\ (Len(b) + i) - Len(b) = i
    BY <1>1
  <2> QED
    BY <2>1, <1>2 DEF c
<1>6. /\ SubSeq(c, 1, Len(b)) \in Seq(S) /\ Len(SubSeq(c, 1, Len(b))) = Len(b)
      /\ \A i \in 1 .. Len(b) : SubSeq(c, 1, Len(b))[i] = c[i]
      /\ SubSeq(c, Len(b) + 1, Len(c)) \in Seq(S) /\ Len(SubSeq(c, Len(b) + 1, Len(c))) = Len(c) - Len(b)
      /\ \A i \in 1 .. Len(c) - Len(b) : SubSeq(c, Len(b) + 1, Len(c))[i] = c[Len(b) + i]
  BY <1>3, Cut
<1>7. Len(c) - Len(b) = Len(d)
  BY <1>1, <1>3
<1>8. b = SubSeq(c, 1, Len(b))
  BY <1>4, <1>6, SeqEqual
<1>9. d = SubSeq(c, Len(b) + 1, Len(c))
  BY <1>5, <1>6, <1>7, SeqEqual
<1> QED
  BY <1>3, <1>8, <1>9 DEF c

\* The two readers understand a header and a payload that are not cut.
LEMMA HeaderUnderstood ==
  ASSUME NEW n \in 0 .. MaxCalls, NEW size \in Nat, size < Prefixes
  PROVE  SizesOf(Header(n, size)) = {size}
<1>1. Header(n, size)[1] = <<n, 1, size>>
  <2>1. 1 \in 1 .. HeaderBytes /\ \A i \in 1 .. HeaderBytes : Header(n, size)[i] = <<n, i, size>>
    BY HeaderFacts, ClientAssumption
  <2> QED
    BY <2>1
<1>2. Header(n, size)[1][1] = n /\ Header(n, size)[1][3] = size
  BY <1>1
<1>3. size % Prefixes = size
  BY ClientAssumption
<1> QED
  BY <1>2, <1>3 DEF SizesOf

\* The payload of a response is decoded as that response.
LEMMA PayloadUnderstood ==
  ASSUME NEW n \in 0 .. MaxCalls, NEW size \in Nat \ {0}
  PROVE  Decoded(Payload(n, size)) = {n}
<1>1. /\ 1 \in 1 .. size /\ Len(Payload(n, size)) = size
      /\ \A i \in 1 .. size : Payload(n, size)[i] = <<n, HeaderBytes + i, size>>
  BY PayloadFacts
<1>2. Payload(n, size)[1] = <<n, HeaderBytes + 1, size>>
  BY <1>1
<1>3. Payload(n, size)[1][1] = n /\ Payload(n, size)[1][3] = size
  BY <1>2
<1>4. Payload(n, size) # <<>>
  BY <1>1, EmptySeq
<1> QED
  BY <1>3, <1>4 DEF Decoded

\* The frame of a message is its header and then its payload.
LEMMA FrameParted ==
  ASSUME NEW n \in 0 .. MaxCalls, NEW size \in Nat
  PROVE  /\ SubSeq(Frame(n, size), 1, HeaderBytes) = Header(n, size)
         /\ SubSeq(Frame(n, size), HeaderBytes + 1, Len(Frame(n, size))) = Payload(n, size)
<1>1. Len(Frame(n, size)) = HeaderBytes + size
  BY FrameFacts
<1> QED
  BY <1>1 DEF Header, Payload
-----------------------------------------------------------------------------
(* Until a call times out or a length wraps, the two streams hold at most  *)
(* one message: the request of the call, or what is left of its response.  *)

Quiet == buf = <<>> /\ down = <<>>

\* The response to the call has payload size, and the client has read as far
\* as its buffer says.
Answering(size) ==
    /\ size < Prefixes
    /\ \/ pc = "header" /\ buf \o down = Frame(calls, size)
       \/ pc = "payload" /\ need = size /\ buf \o down = Payload(calls, size)

Reading == \E size \in ResponseSizes : Answering(size)

\* The server has read t requests and answered r of them.
ServerAt(stream, w, t, r) == up = stream /\ want = w /\ Len(taken) = t /\ Len(replies) = r

\* The request is on its way, its header is read, or its response is missing.
Asking ==
    /\ pc = "header" /\ Quiet /\ calls > 0
    /\ \/ ServerAt(Frame(calls, RequestBytes), 0, calls - 1, calls - 1)
       \/ ServerAt(Payload(calls, RequestBytes), RequestBytes + 1, calls - 1, calls - 1)
       \/ ServerAt(<<>>, 0, calls, calls - 1)

Answered == ServerAt(<<>>, 0, calls, calls) /\ (pc = "idle" \/ Reading)

Aligned ==
    /\ (pc # "payload" /\ Quiet) \/ Reading
    /\ open => Asking \/ Answered
    /\ open => \A k \in 1 .. Len(taken) : taken[k] = k

Own == \A n \in 1 .. Len(results) : results[n] = n \/ (results[n] = Empty /\ ~open)

AlignInv == ~timedOut /\ ~wrapped => Aligned /\ Own

\* Nothing is to be read while the client is in no call.
LEMMA IdleQuiet == Aligned /\ pc \in {"idle", "closed"} => Quiet
  BY DEF Aligned, Reading, Answering

\* A step of the server that leaves the client alone and closes nothing new.
LEMMA OwnKept == ASSUME Own, results' = results, open' => open PROVE Own'
  BY DEF Own

\* A call that returns its own answer keeps Own.
LEMMA OwnAppended ==
  ASSUME TypeInv, Own, open' => open, NEW r, results' = Append(results, r),
         r = Len(results) + 1 \/ (r = Empty /\ ~open')
  PROVE  Own'
<1>1. Len(results) \in Nat /\ results \in Seq(0 .. MaxCalls)
  BY LenProperties DEF TypeInv, TypeOK
<1>2. /\ Len(results') = Len(results) + 1
      /\ results'[Len(results) + 1] = r
      /\ \A n \in 1 .. Len(results) : results'[n] = results[n]
  BY <1>1
<1>3. \A n \in 1 .. Len(results') : n \in 1 .. Len(results) \/ n = Len(results) + 1
  BY <1>1, <1>2
<1> QED
  BY <1>2, <1>3 DEF Own

\* A recv takes bytes of the response.
LEMMA AlignRecv ==
  ASSUME TypeInv, Aligned, Recv
  PROVE  Aligned'
<1>1. PICK k \in 1 .. need - Len(buf) :
         /\ k <= Len(down)
         /\ buf' = buf \o SubSeq(down, 1, k)
         /\ down' = SubSeq(down, k + 1, Len(down))
  BY DEF Recv
<1>2. k \in 0 .. Len(down) /\ k > 0
  BY <1>1, LenProperties, ClientAssumption DEF TypeInv, TypeOK
<1>3. buf' \o down' = buf \o down
  BY <1>1, <1>2, Joined DEF TypeInv
<1>4. ~Quiet
  <2>1. Len(down) # 0
    BY <1>1, <1>2, LenProperties DEF TypeInv
  <2> QED
    BY <2>1, EmptySeq DEF Quiet
<1>5. UNCHANGED <<pc, need, calls, up, want, taken, replies, open>>
  BY DEF Recv, serverVars
<1>6. \A size : Answering(size) => Answering(size)'
  BY <1>3, <1>5 DEF Answering
<1>7. Reading'
  BY <1>4, <1>6 DEF Aligned, Reading
<1>8. open => Answered
  BY <1>4 DEF Aligned, Asking
<1>9. open => Answered'
  BY <1>5, <1>7, <1>8 DEF Answered, ServerAt
<1>10. open => \A i \in 1 .. Len(taken) : taken[i] = i
  BY DEF Aligned
<1> QED
  BY <1>5, <1>7, <1>9, <1>10 DEF Aligned

\* The header is complete: it is that of the response, and says its size.
LEMMA AlignHeader ==
  ASSUME TypeInv, Aligned, HeaderRead
  PROVE  Aligned'
<1>1. pc = "header" /\ Len(buf) = HeaderBytes /\ Len(down) \in Nat
  BY LenProperties DEF HeaderRead, Complete, TypeInv
<1>2. ~Quiet
  BY <1>1, EmptySeq, ClientAssumption DEF Quiet
<1>3. PICK size \in ResponseSizes : Answering(size)
  BY <1>2 DEF Aligned, Reading
<1>4. size \in Nat /\ size < Prefixes /\ buf \o down = Frame(calls, size) /\ calls \in 0 .. MaxCalls
  BY <1>1, <1>3, ClientAssumption DEF Answering, TypeInv, TypeOK
<1>5. Len(Frame(calls, size)) = Len(buf) + Len(down)
  BY <1>4, ConcatProperties DEF TypeInv
<1>6. buf = Header(calls, size) /\ down = Payload(calls, size)
  <2>1. /\ buf = SubSeq(Frame(calls, size), 1, HeaderBytes)
        /\ down = SubSeq(Frame(calls, size), HeaderBytes + 1, Len(Frame(calls, size)))
    <3>1. buf = SubSeq(buf \o down, 1, Len(buf)) /\ down = SubSeq(buf \o down, Len(buf) + 1, Len(buf) + Len(down))
      BY Parted DEF TypeInv
    <3> QED
      BY <1>1, <1>4, <1>5, <3>1, Zenon
  <2> QED
    BY <1>4, <2>1, FrameParted
<1>7. SizesOf(buf) = {size}
  BY <1>4, <1>6, HeaderUnderstood
<1>8. pc' = "payload" /\ buf' = <<>> /\ need' = size
  BY <1>7 DEF HeaderRead, ReadBytes
<1>9. UNCHANGED <<calls, down, up, want, taken, replies, open>>
  BY DEF HeaderRead, serverVars
<1>10. buf' \o down' = Payload(calls', size)
  BY <1>6, <1>8, <1>9, ConcatEmptySeq DEF TypeInv
<1>11. Reading'
  BY <1>4, <1>8, <1>10 DEF Reading, Answering
<1>12. open => Answered
  BY <1>2 DEF Aligned, Asking
<1>13. open => Answered'
  BY <1>9, <1>11, <1>12 DEF Answered, ServerAt
<1>14. open => \A i \in 1 .. Len(taken) : taken[i] = i
  BY DEF Aligned
<1> QED
  BY <1>9, <1>11, <1>13, <1>14 DEF Aligned

\* The payload is complete: it is that of the response, and nothing is left.
LEMMA AlignPayload ==
  ASSUME TypeInv, Aligned, Own, PayloadRead
  PROVE  Aligned' /\ Own'
<1>1. pc = "payload" /\ Len(buf) = need /\ Len(buf) \in Nat /\ Len(down) \in Nat
  BY LenProperties DEF PayloadRead, Complete, TypeInv
<1>2. PICK size \in ResponseSizes : Answering(size)
  BY <1>1 DEF Aligned, Reading
<1>3. /\ size \in Nat \ {0} /\ need = size /\ buf \o down = Payload(calls, size)
      /\ calls \in 0 .. MaxCalls
  BY <1>1, <1>2, ClientAssumption DEF Answering, TypeInv, TypeOK
<1>4. Len(Payload(calls, size)) = size /\ Len(Payload(calls, size)) = Len(buf) + Len(down)
  <2>1. Len(Payload(calls, size)) = size
    BY <1>3, PayloadFacts
  <2>2. Len(buf \o down) = Len(buf) + Len(down)
    BY ConcatProperties DEF TypeInv
  <2> QED
    BY <1>3, <2>1, <2>2
<1>5. Len(down) = 0
  BY <1>1, <1>3, <1>4
<1>6. down = <<>>
  BY <1>5, NoBytes DEF TypeInv
<1>7. buf = Payload(calls, size)
  BY <1>3, <1>6, ConcatEmptySeq DEF TypeInv
<1>8. Decoded(buf) = {calls}
  BY <1>3, <1>7, PayloadUnderstood
<1>9. Return(calls)
  BY <1>8 DEF PayloadRead
<1>10. UNCHANGED <<calls, down, up, want, taken, replies, open>>
  BY DEF PayloadRead, serverVars
<1>11. Quiet' /\ pc' = "idle"
  BY <1>6, <1>9, <1>10 DEF Quiet, Return
<1>12. open => Answered
  BY <1>1 DEF Aligned, Asking
<1>13. open => Answered'
  BY <1>10, <1>11, <1>12 DEF Answered, ServerAt
<1>14. open => \A i \in 1 .. Len(taken) : taken[i] = i
  BY DEF Aligned
<1>15. Aligned'
  BY <1>10, <1>11, <1>13, <1>14 DEF Aligned
<1>16. calls = Len(results) + 1
  BY <1>1, LenProperties, ClientAssumption DEF TypeInv, TypeOK
<1> QED
  BY <1>9, <1>10, <1>15, <1>16, OwnAppended DEF Return

\* The server finds the header of the request, and reads on.
LEMMA AlignServerHeader ==
  ASSUME TypeInv, Aligned, ServerReadsHeader
  PROVE  Aligned' /\ open'
<1>1. open /\ want = 0 /\ Len(up) >= HeaderBytes /\ calls \in 0 .. MaxCalls /\ RequestBytes \in Nat
  BY ClientAssumption DEF ServerReadsHeader, TypeInv, TypeOK
<1>2. up # <<>>
  BY <1>1, EmptySeq, ClientAssumption
<1>3. Asking /\ ServerAt(Frame(calls, RequestBytes), 0, calls - 1, calls - 1)
  <2>1. Asking
    BY <1>1, <1>2 DEF Aligned, Answered, ServerAt
  <2>2. ~ServerAt(Payload(calls, RequestBytes), RequestBytes + 1, calls - 1, calls - 1)
    BY <1>1, ClientAssumption DEF ServerAt
  <2> QED
    BY <1>2, <2>1, <2>2 DEF Asking, ServerAt
<1>4. up = Frame(calls, RequestBytes)
  BY <1>3 DEF ServerAt
<1>5. /\ SubSeq(up, 1, HeaderBytes) = Header(calls, RequestBytes)
      /\ SubSeq(up, HeaderBytes + 1, Len(up)) = Payload(calls, RequestBytes)
  BY <1>1, <1>4, FrameParted
<1>6. SizesOf(SubSeq(up, 1, HeaderBytes)) = {RequestBytes}
  <2>1. RequestBytes < Prefixes
    BY ClientAssumption
  <2>2. SizesOf(Header(calls, RequestBytes)) = {RequestBytes}
    BY <1>1, <2>1, HeaderUnderstood
  <2> QED
    BY <1>5, <2>2, Zenon
<1>7. PICK size \in SizesOf(SubSeq(up, 1, HeaderBytes)) :
         /\ want' = IF size > MaxPacket THEN 0 ELSE size + 1
         /\ open' = (size <= MaxPacket)
  BY DEF ServerReadsHeader
<1>8. want' = RequestBytes + 1 /\ open'
  <2>1. size = RequestBytes
    BY <1>6, Zenon
  <2>2. RequestBytes <= MaxPacket /\ ~(RequestBytes > MaxPacket)
    BY ClientAssumption
  <2> QED
    BY <1>7, <2>1, <2>2
<1>9. /\ UNCHANGED <<pc, buf, need, calls, down, taken, replies>>
      /\ up' = Payload(calls, RequestBytes)
  BY <1>5 DEF ServerReadsHeader, callVars
<1>10. Asking'
  BY <1>3, <1>8, <1>9 DEF Asking, ServerAt, Quiet
<1>11. \A k \in 1 .. Len(taken) : taken[k] = k
  BY <1>1 DEF Aligned
<1> QED
  BY <1>8, <1>9, <1>10, <1>11 DEF Aligned, Asking

\* The server has read the request, and takes it for the one it is.
LEMMA AlignServerBody ==
  ASSUME TypeInv, Aligned, ServerReadsBody
  PROVE  Aligned'
<1>1. open /\ want > 0 /\ calls \in 0 .. MaxCalls /\ RequestBytes \in Nat
  BY ClientAssumption DEF ServerReadsBody, TypeInv, TypeOK
<1>2. Asking /\ ServerAt(Payload(calls, RequestBytes), RequestBytes + 1, calls - 1, calls - 1)
  <2>1. want # 0
    BY <1>1
  <2> QED
    BY <1>1, <2>1 DEF Aligned, Answered, Asking, ServerAt
<1>3. /\ up = Payload(calls, RequestBytes) /\ want - 1 = RequestBytes
      /\ Len(taken) = calls - 1 /\ Len(replies) = calls - 1 /\ calls \in 1 .. calls
  BY <1>1, <1>2 DEF ServerAt, Asking
<1>4. /\ up \in Seq(Numbered) /\ Len(up) = RequestBytes
      /\ \A i \in 1 .. RequestBytes : up[i] = <<calls, HeaderBytes + i, RequestBytes>>
  BY <1>1, <1>3, PayloadFacts
<1>5. SubSeq(up, 1, want - 1) = Payload(calls, RequestBytes)
  <2>1. SubSeq(up, 1, Len(up)) = up
    BY <1>4, SubSeqFull
  <2> QED
    BY <1>3, <1>4, <2>1
<1>6. taken' = Append(taken, calls)
  <2>1. up[1] = <<calls, HeaderBytes + 1, RequestBytes>>
    BY <1>4, ClientAssumption
  <2>2. up[1][1] = calls
    BY <2>1
  <2>3. SubSeq(up, 1, want - 1)[1][1] = calls
    BY <1>3, <1>5, <2>2, Zenon
  <2>4. \E n \in 1 .. calls : SubSeq(up, 1, want - 1) = Payload(n, RequestBytes)
    BY <1>3, <1>5, Zenon
  <2> QED
    BY <2>3, <2>4 DEF ServerReadsBody
<1>7. up' = <<>>
  <2>1. up' = SubSeq(up, (want - 1) + 1, Len(up))
    BY DEF ServerReadsBody
  <2>2. want - 1 \in 0 .. Len(up)
    BY <1>1, <1>3, <1>4
  <2>3. up' \in Seq(Numbered) /\ Len(up') = Len(up) - (want - 1)
    BY <1>4, <2>1, <2>2, Cut
  <2> QED
    BY <1>1, <1>3, <1>4, <2>3, NoBytes
<1>8. UNCHANGED <<pc, buf, need, calls, down, replies, open>> /\ want' = 0
  BY DEF ServerReadsBody, Channel!Request, callVars
<1>9. /\ Len(taken') = calls /\ taken'[calls] = calls
      /\ \A k \in 1 .. Len(taken) : taken'[k] = taken[k]
  BY <1>1, <1>3, <1>6 DEF TypeInv, TypeOK
<1>10. \A k \in 1 .. Len(taken') : taken'[k] = k
  <2>1. \A k \in 1 .. Len(taken) : taken[k] = k
    BY <1>1 DEF Aligned
  <2>2. \A k \in 1 .. Len(taken') : k \in 1 .. Len(taken) \/ k = calls
    BY <1>1, <1>3, <1>9
  <2> QED
    BY <1>9, <2>1, <2>2
<1>11. Asking'
  BY <1>2, <1>3, <1>7, <1>8, <1>9 DEF Asking, ServerAt, Quiet
<1> QED
  BY <1>10, <1>11 DEF Aligned, Asking

\* The server answers the request of the call.
LEMMA AlignReply ==
  ASSUME TypeInv, Aligned, ServerReplies, ~wrapped'
  PROVE  Aligned'
<1>1. /\ open /\ Len(replies) < Len(taken) /\ calls \in 0 .. MaxCalls
      /\ Len(replies') = Len(replies) + 1
      /\ UNCHANGED <<pc, buf, need, calls, up, want, taken, open>>
  BY ClientAssumption DEF ServerReplies, Channel!Reply, callVars, TypeInv, TypeOK
<1>2. Asking /\ ServerAt(<<>>, 0, calls, calls - 1)
  BY <1>1 DEF Aligned, Answered, Asking, ServerAt
<1>3. PICK size \in ResponseSizes :
         /\ down' = down \o Frame(taken[Len(replies) + 1], size)
         /\ wrapped' = (wrapped \/ size >= Prefixes)
  BY DEF ServerReplies
<1>4. size \in Nat /\ size < Prefixes
  <2>1. ~(size >= Prefixes)
    BY <1>3, Zenon
  <2> QED
    BY <2>1, ClientAssumption
<1>5. Len(replies) + 1 = calls /\ calls \in 1 .. Len(taken)
  BY <1>1, <1>2 DEF ServerAt, Asking
<1>6. taken[Len(replies) + 1] = calls
  BY <1>1, <1>5 DEF Aligned
<1>7. Frame(calls, size) \in Seq(Numbered)
  BY <1>1, <1>4, FrameFacts
<1>8. buf' = <<>> /\ down' = Frame(calls, size) /\ pc = "header"
  BY <1>1, <1>2, <1>3, <1>6, <1>7, ConcatEmptySeq DEF Asking, Quiet
<1>9. buf' \o down' = Frame(calls, size)
  BY <1>7, <1>8, ConcatEmptySeq
<1>10. Answering(size)'
  BY <1>1, <1>4, <1>8, <1>9 DEF Answering
<1>11. Reading'
  BY <1>10 DEF Reading
<1>12. Answered'
  BY <1>1, <1>2, <1>5, <1>11 DEF Answered, ServerAt
<1>13. \A k \in 1 .. Len(taken) : taken[k] = k
  BY <1>1 DEF Aligned
<1> QED
  BY <1>1, <1>11, <1>12, <1>13 DEF Aligned

\* A call is begun: the streams are empty, and its request is all they hold.
LEMMA AlignCall ==
  ASSUME TypeInv, Aligned, Call
  PROVE  Aligned'
<1>1. /\ pc = "idle" /\ calls \in 0 .. MaxCalls /\ calls' = calls + 1
      /\ calls + 1 \in 0 .. MaxCalls /\ RequestBytes \in Nat
      /\ pc' = "header" /\ buf' = <<>>
      /\ UNCHANGED <<down, want, taken, replies, open>>
  BY ClientAssumption DEF Call, ReadBytes, serverVars, TypeInv, TypeOK
<1>2. Quiet'
  BY <1>1, IdleQuiet DEF Quiet
<1>3. ASSUME open PROVE Asking'
  <2>1. Answered
    BY <1>1, <1>3 DEF Aligned, Asking
  <2>2. Frame(calls + 1, RequestBytes) \in Seq(Numbered)
    BY <1>1, FrameFacts
  <2>3. up' = Frame(calls + 1, RequestBytes)
    BY <1>3, <2>1, <2>2, ConcatEmptySeq DEF Call, Answered, ServerAt
  <2>4. (calls + 1) - 1 = calls /\ calls + 1 > 0
    BY <1>1
  <2>5. ServerAt(Frame(calls, RequestBytes), 0, calls - 1, calls - 1)'
    BY <1>1, <2>1, <2>3, <2>4 DEF Answered, ServerAt
  <2> QED
    BY <1>1, <1>2, <2>4, <2>5 DEF Asking
<1>4. open => \A k \in 1 .. Len(taken) : taken[k] = k
  BY DEF Aligned
<1> QED
  BY <1>1, <1>2, <1>3, <1>4 DEF Aligned

\* A step of either side keeps the two in step, until a timeout or a wrapped prefix.
LEMMA AlignStep == TypeInv /\ AlignInv /\ [Next]_vars => AlignInv'
<1> SUFFICES ASSUME TypeInv, AlignInv, [Next]_vars, ~timedOut', ~wrapped' PROVE Aligned' /\ Own'
  BY DEF AlignInv
<1>1. timedOut \in BOOLEAN /\ wrapped \in BOOLEAN
  BY DEF TypeInv, TypeOK

\* A call that ends with no result, on a connection that is closed.
<1>2. ASSUME Aligned, Own, ~open, ~open', results' = Append(results, Empty),
             pc' \in {"idle", "closed"}, buf' = <<>>, down' = <<>>
      PROVE  Aligned' /\ Own'
  BY <1>2, OwnAppended DEF Aligned, Quiet
<1>3. CASE Call
  <2>1. Aligned /\ Own
    BY <1>3 DEF AlignInv, Call
  <2> QED
    BY <1>3, <2>1, AlignCall, OwnKept DEF Call
<1>4. CASE SendFails
  <2>1. Aligned /\ Own
    BY <1>4 DEF AlignInv, SendFails
  <2>2. down' = <<>>
    BY <1>4, <2>1, IdleQuiet DEF SendFails, Quiet
  <2> QED
    BY <1>2, <1>4, <2>1, <2>2 DEF SendFails, Raise
<1>5. CASE SendTimesOut \/ RecvTimesOut
  BY <1>5 DEF SendTimesOut, RecvTimesOut
<1>6. CASE RecvReset
  <2>1. Aligned /\ Own
    BY <1>6 DEF AlignInv, RecvReset
  <2> QED
    BY <1>2, <1>6, <2>1 DEF RecvReset, Raise
<1>7. CASE RecvEof
  <2>1. Aligned /\ Own
    BY <1>7 DEF AlignInv, RecvEof
  <2> QED
    BY <1>2, <1>7, <2>1 DEF RecvEof, Return
<1>8. CASE Close
  <2>1. Aligned /\ Own
    BY <1>8 DEF AlignInv, Close
  <2>2. Quiet'
    BY <1>8, <2>1, IdleQuiet DEF Close, Quiet
  <2>3. Own'
    BY <1>8, <2>1, OwnKept DEF Close
  <2> QED
    BY <1>8, <2>2, <2>3 DEF Close, Aligned
<1>9. CASE Recv
  <2>1. Aligned /\ Own
    BY <1>9 DEF AlignInv, Recv
  <2> QED
    BY <1>9, <2>1, AlignRecv, OwnKept DEF Recv
<1>10. CASE HeaderRead
  <2>1. Aligned /\ Own
    BY <1>10 DEF AlignInv, HeaderRead
  <2> QED
    BY <1>10, <2>1, AlignHeader, OwnKept DEF HeaderRead
<1>11. CASE PayloadRead
  <2>1. Aligned /\ Own
    BY <1>11 DEF AlignInv, PayloadRead
  <2> QED
    BY <1>11, <2>1, AlignPayload
<1>12. CASE ServerReadsHeader
  <2>1. Aligned /\ Own /\ open /\ results' = results
    BY <1>12 DEF AlignInv, ServerReadsHeader, callVars
  <2> QED
    BY <1>12, <2>1, AlignServerHeader, OwnKept
<1>13. CASE ServerReadsBody
  <2>1. Aligned /\ Own /\ open /\ results' = results
    BY <1>13 DEF AlignInv, ServerReadsBody, callVars
  <2> QED
    BY <1>13, <2>1, AlignServerBody, OwnKept
<1>14. CASE ServerReplies
  <2>1. Aligned /\ Own /\ open /\ results' = results
    <3>1. wrapped => wrapped'
      BY <1>1, <1>14 DEF ServerReplies
    <3> QED
      BY <1>14, <3>1 DEF AlignInv, ServerReplies, callVars, Channel!Reply
  <2> QED
    BY <1>14, <2>1, AlignReply, OwnKept
<1>15. CASE ServerCloses
  <2>1. /\ Aligned /\ Own /\ ~open'
        /\ UNCHANGED <<pc, buf, need, calls, results, down>>
    BY <1>15 DEF AlignInv, ServerCloses, callVars, Channel!Close
  <2>2. (pc' # "payload" /\ Quiet') \/ Reading'
    BY <2>1 DEF Aligned, Quiet, Reading, Answering
  <2>3. Own'
    BY <2>1, OwnKept
  <2> QED
    BY <2>1, <2>2, <2>3 DEF Aligned
<1>16. CASE UNCHANGED vars
  <2>1. /\ Aligned /\ Own
        /\ UNCHANGED <<pc, buf, need, calls, results, down, up, want, taken, replies, open>>
    BY <1>16 DEF AlignInv, vars, callVars, serverVars
  <2>2. Own'
    BY <2>1, OwnKept
  <2>3. Aligned'
    BY <2>1 DEF Aligned, Quiet, Reading, Answering, Asking, Answered, ServerAt
  <2> QED
    BY <2>2, <2>3
<1> QED
  BY <1>3, <1>4, <1>5, <1>6, <1>7, <1>8, <1>9, <1>10, <1>11, <1>12, <1>13, <1>14, <1>15, <1>16
     DEF Next, InCall, Server

\* Until a call times out or a response is too large for the length prefix,
\* query() returns the response to its own request, or nothing when the
\* connection has ended: for every prefix, every size of the messages, every way
\* of cutting the stream, and any number of calls.
THEOREM CallsGetTheirOwnAnswer == Spec => []OwnAnswer
<1>1. Init => AlignInv
  <2> SUFFICES ASSUME Init PROVE Aligned /\ Own
    BY DEF AlignInv
  <2>1. /\ pc = "idle" /\ buf = <<>> /\ down = <<>> /\ up = <<>> /\ want = 0 /\ calls = 0
        /\ results = <<>> /\ taken = <<>> /\ replies = <<>> /\ Len(<<>>) = 0
    BY EmptySeq DEF Init, Channel!Init
  <2>2. Answered
    BY <2>1 DEF Answered, ServerAt
  <2> QED
    BY <2>1, <2>2 DEF Aligned, Quiet, Own
<1>2. TypeInv /\ AlignInv => OwnAnswer
  <2> SUFFICES ASSUME TypeInv, AlignInv PROVE OwnAnswer
    OBVIOUS
  <2>1. DOMAIN results = 1 .. Len(results)
    BY LenProperties DEF TypeInv, TypeOK
  <2> QED
    BY <2>1 DEF AlignInv, Own, OwnAnswer
<1> QED
  BY <1>1, <1>2, TypeInit, TypeStep, AlignStep, PTL DEF Spec
=============================================================================
