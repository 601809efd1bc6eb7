------------------------ MODULE RequestHandlerProofs ------------------------
(***************************************************************************)
(* Proofs about the requests of all connections, for any set of clients,   *)
(* databases, names and requests, any number of threads, with and without  *)
(* a password, in both journal modes.                                      *)
(***************************************************************************)
EXTENDS RequestHandler, FiniteSetTheorems, TLAPS

-----------------------------------------------------------------------------
(* The inductive invariant, by the parts of the state it is about. *)

\* What a request in progress is, and which handle it works on.
RequestInv ==
    \A c \in Conns :
        /\ pc[c] = "idle" => req[c] = NoRequest
        /\ record[c] # 0 <=> Writes(req[c])
        /\ pc[c] \in Running => req[c].db \in Names /\ HandleOf(c).ino # NoInode
        /\ pc[c] = "commit" => IF HandleOf(c).txn
                               THEN req[c].stmt = "commit"
                               ELSE /\ req[c].stmt = "write"
                                    /\ HandleOf(c).dirty = {record[c]}

\* A handle that is not open has nothing; WAL mode has no locks above RESERVED;
\* outside a transaction only a statement that is committing has changes.
HandleInv ==
    \A c \in Conns, n \in Names :
        LET h == handles[c][n] IN
        /\ h.ino = NoInode => h = NoHandle
        /\ wal => h.lock <= RESERVED
        /\ ~h.txn /\ h.dirty # {} => pc[c] = "commit" /\ req[c].db = n

LockInv == WritersSerialised /\ ReadsStable

\* The record r is nowhere.
Unused(r) ==
    /\ r \notin aborted
    /\ \A i \in Inodes : r \notin store[i]
    /\ \A c \in Conns, n \in Names : r \notin handles[c][n].dirty

\* A record is given out once, and is in one place: on its way to a statement,
\* in a transaction, in a file, or among those that were refused.
RecordInv ==
    /\ \A r \in Records : r > sent => Unused(r)
    /\ \A c \in Conns : /\ record[c] <= sent
                        /\ record[c] # 0 /\ pc[c] # "commit" => Unused(record[c])
    /\ \A c, d \in Conns : record[c] # 0 /\ record[c] = record[d] => c = d
    /\ \A c, d \in Conns, m, n \in Names :
           <<c, m>> # <<d, n>> => handles[c][m].dirty \intersect handles[d][n].dirty = {}
    /\ \A c \in Conns, n \in Names :
           /\ handles[c][n].dirty \intersect aborted = {}
           /\ \A i \in Inodes : handles[c][n].dirty \intersect store[i] = {}
    /\ AckedStored
    /\ AbortedNotStored

\* A file of the folder is one that nobody has removed, and an open handle is
\* on its name's file unless that has been removed.
FolderInv ==
    /\ \A f, g \in Files : dir[f] # NoInode /\ dir[f] = dir[g] => f = g
    /\ \A f \in Files : dir[f] # NoInode => remover[dir[f]] = {}
    /\ \A c \in Conns, n \in Names :
           LET i == handles[c][n].ino
           IN  i # NoInode /\ remover[i] = {} => dir[Resolve[n]] = i

Removed == {i \in Inodes : remover[i] # {}}
Deleters == {c \in Conns : pc[c] = "queued" /\ req[c].cmd = "DELETE_DB"}

\* Each DELETE_DB request removes one file at most, so inodes do not run out.
BudgetInv == Cardinality(Removed) + Cardinality(Deleters) <= deletes

\* A slot without a connection has nothing of the one before.
FreeInv ==
    \A c \in Conns : conn[c] = "free" =>
        /\ pc[c] = "idle" /\ ~authed[c] /\ reply[c] = "none"
        /\ \A n \in Names : handles[c][n] = NoHandle

Inv ==
    /\ TypeOK /\ RequestInv /\ HandleInv /\ LockInv /\ RecordInv /\ FolderInv
    /\ BudgetInv /\ FreeInv /\ AuthGate

-----------------------------------------------------------------------------
(* Facts about the operators of the model. *)

\* The counts of files and of DELETE_DB requests are numbers.
LEMMA Counts ==
    /\ Cardinality(Files) \in Nat
    /\ Inodes \subseteq Nat \ {0} /\ IsFiniteSet(Inodes)
    /\ Cardinality(Inodes) = Cardinality(Files) + MaxDeletes
    /\ NoInode \notin Inodes
  <1>1. Cardinality(Files) \in Nat
    BY HandlerAssumption, FS_CardinalityType
  <1>2. Cardinality(Files) + MaxDeletes \in Nat
    BY <1>1, HandlerAssumption
  <1>3. /\ IsFiniteSet(Inodes)
        /\ Cardinality(Inodes) = Cardinality(Files) + MaxDeletes
    BY <1>2, FS_Interval DEF Inodes
  <1> QED
    BY <1>1, <1>2, <1>3 DEF Inodes, NoInode

\* When a name has no file, an inode is left for it: sqlite3_open succeeds.
LEMMA FreeInode ==
    ASSUME TypeOK, BudgetInv, NEW f \in Files, dir[f] = NoInode
    PROVE  /\ NewInode \in Inodes
           /\ remover[NewInode] = {}
           /\ \A g \in Files : dir[g] # NewInode
  <1> DEFINE S == Files \ {f}
             named == {dir[g] : g \in S}
             fn == [g \in S |-> dir[g]]
  <1>1. IsFiniteSet(Files) /\ IsFiniteSet(S) /\ Cardinality(S) = Cardinality(Files) - 1
    BY HandlerAssumption, FS_RemoveElement
  <1>2. fn \in Surjection(S, named)
    BY DEF Surjection
  <1>3. IsFiniteSet(named) /\ Cardinality(named) <= Cardinality(Files) - 1
    BY <1>1, <1>2, FS_Surjection
  <1>4. IsFiniteSet(Removed) /\ IsFiniteSet(Deleters)
    <2>1. Removed \in SUBSET Inodes /\ Deleters \in SUBSET Conns
      BY DEF Removed, Deleters
    <2> QED
      BY <2>1, Counts, HandlerAssumption, FS_Subset
  <1>5. Cardinality(Removed) <= MaxDeletes
    <2>1. Cardinality(Removed) \in Nat /\ Cardinality(Deleters) \in Nat
      BY <1>4, FS_CardinalityType
    <2>2. deletes \in Nat /\ deletes <= MaxDeletes
      BY HandlerAssumption DEF TypeOK
    <2> QED
      BY <2>1, <2>2, HandlerAssumption DEF BudgetInv
  <1>6. /\ IsFiniteSet(named \union Removed)
        /\ Cardinality(named \union Removed) < Cardinality(Inodes)
    <2>1. /\ IsFiniteSet(named \union Removed)
          /\ Cardinality(named \union Removed) =
               Cardinality(named) + Cardinality(Removed) - Cardinality(named \intersect Removed)
      BY <1>3, <1>4, FS_Union
    <2>2. IsFiniteSet(named \intersect Removed)
      <3>1. named \intersect Removed \in SUBSET Removed
        OBVIOUS
      <3> QED
        BY <3>1, <1>4, FS_Subset
    <2>3. /\ Cardinality(named) \in Nat /\ Cardinality(Removed) \in Nat
          /\ Cardinality(named \intersect Removed) \in Nat
      BY <1>3, <1>4, <2>2, FS_CardinalityType
    <2> HIDE DEF named, S, fn
    <2> QED
      BY <2>1, <2>3, <1>3, <1>5, Counts, HandlerAssumption
  <1>7. \E i \in Inodes : i \notin named \union Removed
    <2> SUFFICES ASSUME Inodes \subseteq named \union Removed PROVE FALSE
      OBVIOUS
    <2>1. Cardinality(Inodes) <= Cardinality(named \union Removed)
      BY <1>6, FS_Subset
    <2>2. Cardinality(named \union Removed) \in Nat /\ Cardinality(Inodes) \in Nat
      BY <1>6, Counts, FS_CardinalityType
    <2> HIDE DEF named, S, fn
    <2> QED
      BY <1>6, <2>1, <2>2
  <1>8. \E i \in Inodes : remover[i] = {} /\ \A g \in Files : dir[g] # i
    <2>1. PICK i \in Inodes : i \notin named \union Removed
      BY <1>7
    <2>2. remover[i] = {}
      BY <2>1 DEF Removed
    <2>3. \A g \in Files : dir[g] # i
      BY <2>1, Counts
    <2> QED
      BY <2>2, <2>3
  <1> QED
    BY <1>8, Zenon DEF NewInode

\* SQLDatabase is changed for one name of one connection, the others are not.
LEMMA HandlesUpdated ==
    ASSUME TypeOK, NEW c \in Conns, NEW n \in Names, NEW h \in HandleType,
           handles' = [handles EXCEPT ![c][n] = h]
    PROVE  /\ handles' \in [Conns -> [Names -> HandleType]]
           /\ \A d \in Conns, m \in Names :
                  handles'[d][m] = IF d = c /\ m = n THEN h ELSE handles[d][m]
  BY DEF TypeOK

\* A request that is in the middle of its statement.
LEMMA RequestTyped ==
    ASSUME TypeOK, RequestInv, NEW c \in Conns
    PROVE  /\ req[c] \in RequestType
           /\ pc[c] \in Running => req[c].db \in Names /\ HandleOf(c) \in HandleType
           /\ Wanted(c) \in NONE .. EXCLUSIVE
           /\ wal => Wanted(c) <= RESERVED
  <1>1. req[c] \in RequestType
    <2>1. NoRequest \in RequestType
      BY DEF NoRequest, RequestType
    <2> QED
      BY <2>1, HandlerAssumption DEF TypeOK
  <1>2. pc[c] \in Running => req[c].db \in Names /\ HandleOf(c) \in HandleType
    BY DEF RequestInv, HandleOf, TypeOK
  <1>3. Wanted(c) \in NONE .. EXCLUSIVE /\ (wal => Wanted(c) <= RESERVED)
    <2>1. wal \in BOOLEAN
      BY HandlerAssumption DEF TypeOK
    <2> QED
      BY <2>1 DEF Wanted, CommitLock, NONE, SHARED, RESERVED, EXCLUSIVE
  <1> QED
    BY <1>1, <1>2, <1>3

\* No handle is a handle, and an open one is known by its file.
LEMMA NoHandleTyped ==
    /\ NoHandle \in HandleType
    /\ \A i \in Inodes : /\ [NoHandle EXCEPT !.ino = i] \in HandleType
                         /\ [NoHandle EXCEPT !.ino = i].ino = i
                         /\ [NoHandle EXCEPT !.ino = i].lock = NONE
                         /\ [NoHandle EXCEPT !.ino = i].dirty = {}
    /\ NoHandle.ino = NoInode /\ NoHandle.lock = NONE /\ NoHandle.dirty = {}
  <1>1. NoHandle \in HandleType
    BY DEF NoHandle, HandleType, NONE, EXCLUSIVE
  <1>2. \A i \in Inodes : [NoHandle EXCEPT !.ino = i] \in HandleType
    BY <1>1 DEF HandleType
  <1> QED
    BY <1>1, <1>2 DEF NoHandle

\* A lock that is taken, with the state of the file it is taken on.
LEMMA LockedTyped ==
    ASSUME NEW h \in HandleType, NEW l \in NONE .. EXCLUSIVE, NEW s \in SUBSET Records
    PROVE  [h EXCEPT !.lock = l, !.snap = s] \in HandleType
  <1> DEFINE k == [h EXCEPT !.lock = l]
  <1>1. k \in HandleType
    BY DEF HandleType
  <1> HIDE DEF k
  <1>2. [k EXCEPT !.snap = s] \in HandleType
    BY <1>1 DEF HandleType
  <1> QED
    BY <1>2 DEF k

\* The end of a statement, and of a transaction, leaves a handle.
LEMMA EndTyped ==
    ASSUME NEW h \in HandleType
    PROVE  /\ Unlocked(h) \in HandleType /\ EndStatement(h) \in HandleType
           /\ Unlocked(h).ino = h.ino /\ ~Unlocked(h).txn /\ Unlocked(h).lock = NONE
           /\ Unlocked(h).snap = {} /\ Unlocked(h).dirty = {}
  <1> DEFINE k == [NoHandle EXCEPT !.ino = h.ino]
  <1>1. k \in HandleType
    BY NoHandleTyped DEF HandleType
  <1>2. Unlocked(h) \in HandleType
    <2> HIDE DEF k
    <2>1. [k EXCEPT !.schema = h.schema] \in HandleType
      BY <1>1 DEF HandleType
    <2> QED
      BY <2>1 DEF k, Unlocked
  <1>3. /\ Unlocked(h).ino = h.ino /\ Unlocked(h).lock = NONE
        /\ Unlocked(h).snap = {} /\ Unlocked(h).dirty = {}
    BY DEF Unlocked, NoHandle
  <1>4. ~Unlocked(h).txn
    BY DEF Unlocked, NoHandle
  <1> QED
    BY <1>2, <1>3, <1>4 DEF EndStatement

\* The handler keeps the types: the answer ends the request.
LEMMA AnswerTyped ==
    ASSUME TypeOK, NEW c \in Conns, NEW r, Answer(c, r),
           r \in {"data", "sqlError", "busy", "ok", "error", "list", "invalidFormat", "noCommand",
                  "unknownCommand", "noDatabase", "noQuery"}
    PROVE  /\ pc' \in [Conns -> {"idle", "queued"} \union Running]
           /\ req' \in [Conns -> Requests \union {NoRequest}]
           /\ record' \in [Conns -> Records \union {0}]
           /\ reply' \in [Conns -> {"none", "ok", "error", "list", "invalidFormat", "noCommand",
                                    "unknownCommand", "noDatabase", "noQuery"}]
  BY DEF TypeOK, Answer

\* handle_request goes on to a database only with a safe name, and only after
\* the password; before it, the answers are errors.
LEMMA VerdictFacts ==
    ASSUME NEW c \in Conns, NEW r \in RequestType
    PROVE  /\ Verdict(c, r) \in {"throw", "QUERY", "DELETE_DB", "ok", "error", "list", "invalidFormat",
                                 "noCommand", "unknownCommand", "noDatabase", "noQuery"}
           /\ Verdict(c, r) \in {"QUERY", "DELETE_DB"} => r.db \in Names /\ r.cmd = Verdict(c, r)
           /\ AuthOn /\ ~authed[c] => Verdict(c, r) \in {"throw", "ok", "error", "invalidFormat"}
  BY DEF Verdict, RequestType

\* Every operation of the server keeps the types; the folder never runs out of
\* inodes.
LEMMA TypeStep == Inv /\ [Next]_vars => TypeOK'
  <1> SUFFICES ASSUME Inv, [Next]_vars PROVE TypeOK'
    OBVIOUS
  <1> USE DEF Inv
  <1>0. ASSUME NEW c \in Conns
        PROVE  /\ req[c] \in RequestType
               /\ pc[c] \in Running => req[c].db \in Names /\ HandleOf(c) \in HandleType
    BY RequestTyped
  <1>a. {"idle", "queued", "prepare", "step", "commit"} = {"idle", "queued"} \union Running
    BY DEF Running
  <1>1. ASSUME NEW c \in Conns, Client(c) PROVE TypeOK'
    <2>1. CASE Accept(c) \/ PeerCloses(c)
      BY <2>1 DEF TypeOK, Accept, PeerCloses, reqVars, fsVars, sentVars
    <2>2. CASE ReadFails(c)
      BY <2>2, <1>a DEF TypeOK, ReadFails, fsVars, sentVars
    <2>3. ASSUME NEW r \in Requests, Send(c, r) PROVE TypeOK'
      <3>1. sent' \in 0 .. MaxRecords /\ deletes' \in 0 .. MaxDeletes
        BY <2>3, HandlerAssumption DEF TypeOK, Send
      <3>2. record' \in [Conns -> Records \union {0}]
        BY <2>3, HandlerAssumption DEF TypeOK, Send, Records
      <3> QED
        BY <2>3, <3>1, <3>2, <1>a DEF TypeOK, Send, fsVars
    <2> QED
      BY <1>1, <2>1, <2>2, <2>3 DEF Client
  <1>2. ASSUME NEW c \in Conns, Release(c) PROVE TypeOK'
    <2>1. aborted' \subseteq Records
      BY <1>2 DEF TypeOK, Release, Unfinished, HandleType
    <2> QED
      BY <1>2, <2>1, NoHandleTyped DEF TypeOK, Release, fsVars, sentVars
  <1>3. ASSUME EndOfProcess PROVE TypeOK'
    <2>1. aborted' \subseteq Records
      BY <1>3 DEF TypeOK, EndOfProcess, Unfinished, HandleType
    <2> QED
      BY <1>3, <2>1, NoHandleTyped DEF TypeOK, EndOfProcess, fsVars, sentVars
  <1>4. ASSUME NEW c \in Conns, Start(c) PROVE TypeOK'
    <2>1. CASE AnswerAtOnce(c)
      <3>1. Answer(c, Verdict(c, req[c]))
        BY <2>1 DEF AnswerAtOnce
      <3>2. Verdict(c, req[c]) \in {"ok", "error", "list", "invalidFormat", "noCommand",
                                    "unknownCommand", "noDatabase", "noQuery"}
        BY <2>1, <1>0, VerdictFacts DEF AnswerAtOnce
      <3>3. authed' \in [Conns -> BOOLEAN]
        BY <2>1 DEF AnswerAtOnce, TypeOK
      <3> QED
        BY <2>1, <3>1, <3>2, <3>3, AnswerTyped DEF TypeOK, AnswerAtOnce, fsVars, sentVars
    <2>2. CASE Terminate(c)
      BY <2>2, <1>3 DEF Terminate
    <2>3. CASE DeleteDb(c)
      <3> DEFINE n == req[c].db
                 f == Resolve[n]
      <3>1. n \in Names /\ f \in Files
        BY <2>3, <1>0, VerdictFacts, HandlerAssumption DEF DeleteDb
      <3>2. \E r \in {"ok", "error"} : Answer(c, r)
        BY <2>3 DEF DeleteDb
      <3>3. CASE dir[f] # NoInode
        <4>1. handles' \in [Conns -> [Names -> HandleType]]
          BY <2>3, <3>1, <3>3, NoHandleTyped, HandlesUpdated DEF DeleteDb
        <4>2. aborted' \subseteq Records
          BY <2>3, <3>1, <3>3 DEF DeleteDb, TypeOK, HandleType
        <4>3. dir' \in [Files -> Inodes \union {NoInode}]
          BY <2>3, <3>1, <3>3 DEF DeleteDb, TypeOK
        <4>4. remover' \in [Inodes -> SUBSET (Conns \X Names)]
          <5>1. {<<c, n>>} \in SUBSET (Conns \X Names)
            BY <3>1
          <5>2. remover' = [remover EXCEPT ![dir[f]] = {<<c, n>>}]
            BY <2>3, <3>3 DEF DeleteDb
          <5> QED
            BY <5>1, <5>2 DEF TypeOK
        <4> QED
          BY <2>3, <3>2, <4>1, <4>2, <4>3, <4>4, AnswerTyped DEF TypeOK, DeleteDb, sentVars
      <3>4. CASE dir[f] = NoInode
        BY <2>3, <3>2, <3>4, AnswerTyped DEF TypeOK, DeleteDb, sentVars
      <3> QED
        BY <3>3, <3>4
    <2>4. CASE Query(c)
      <3> DEFINE n == req[c].db
                 f == Resolve[n]
                 ino == IF dir[f] # NoInode THEN dir[f] ELSE NewInode
      <3>1. n \in Names /\ f \in Files
        BY <2>4, <1>0, VerdictFacts, HandlerAssumption DEF Query
      <3>2. ino \in Inodes
        BY <3>1, FreeInode DEF TypeOK
      <3>3. pc' \in [Conns -> {"idle", "queued"} \union Running]
        BY <2>4, <1>a DEF TypeOK, Query
      <3>4. /\ handles' \in [Conns -> [Names -> HandleType]]
            /\ dir' \in [Files -> Inodes \union {NoInode}]
        <4>1. CASE handles[c][n] # NoHandle
          BY <2>4, <4>1 DEF Query, TypeOK
        <4>2. CASE handles[c][n] = NoHandle
          <5>1. [NoHandle EXCEPT !.ino = ino] \in HandleType
            BY <3>2, NoHandleTyped
          <5>2. /\ handles' = [handles EXCEPT ![c][n] = [NoHandle EXCEPT !.ino = ino]]
                /\ dir' = [dir EXCEPT ![f] = ino]
            BY <2>4, <4>2 DEF Query
          <5> HIDE DEF ino
          <5> QED
            BY <3>1, <3>2, <5>1, <5>2, HandlesUpdated DEF TypeOK
        <4> QED
          BY <4>1, <4>2
      <3> QED
        BY <2>4, <3>3, <3>4 DEF TypeOK, Query, sentVars
    <2>5. CASE OpenFails(c)
      <3>1. aborted' \subseteq Records
        BY <2>5 DEF TypeOK, OpenFails
      <3> QED
        BY <2>5, <3>1, AnswerTyped DEF TypeOK, OpenFails, fsVars, sentVars
    <2> QED
      BY <1>4, <2>1, <2>2, <2>3, <2>4, <2>5 DEF Start
  <1>5. ASSUME NEW c \in Conns, pc[c] \in Running, NEW h \in HandleType, SetHandle(c, h)
        PROVE  handles' \in [Conns -> [Names -> HandleType]]
    BY <1>5, <1>0, HandlesUpdated DEF SetHandle
  <1>6. ASSUME NEW c \in Conns, Run(c) PROVE TypeOK'
    <2> DEFINE h == HandleOf(c)
    <2>0. /\ pc[c] \in Running /\ req[c].db \in Names /\ h \in HandleType
          /\ h.ino \in Inodes
      <3>1. pc[c] \in Running
        BY <1>6 DEF Running, Run, Prepare, PrepareFails, CanPrepare, AcquireLock, Busy, Select, Begin,
                    Rollback, CommitEmpty, CommitStarts, Write, WriteFails, Commit
      <3> QED
        BY <3>1, <1>0 DEF RequestInv, HandleType
    <2>1. CASE Prepare(c) \/ PrepareFails(c)
      <3>1. [h EXCEPT !.schema = @ \/ ReadsSchema(c)] \in HandleType
        BY <2>0 DEF HandleType
      <3>2. handles' \in [Conns -> [Names -> HandleType]]
        BY <2>0, <2>1, <3>1, <1>5 DEF Prepare, PrepareFails
      <3>3. CASE Prepare(c)
        BY <3>2, <3>3, <1>a DEF TypeOK, Prepare, fsVars, sentVars
      <3>4. CASE PrepareFails(c)
        BY <3>2, <3>4, AnswerTyped DEF TypeOK, PrepareFails, fsVars, sentVars
      <3> QED
        BY <2>1, <3>3, <3>4
    <2>2. CASE AcquireLock(c)
      <3> DEFINE s == IF h.lock = NONE THEN store[h.ino] ELSE h.snap
      <3>1. NextLock(c) \in NONE .. EXCLUSIVE
        BY <2>0, <2>2, RequestTyped DEF AcquireLock, NextLock, HandleType, NONE, SHARED, RESERVED, EXCLUSIVE
      <3>2. s \in SUBSET Records
        BY <2>0 DEF TypeOK, HandleType
      <3>3. [h EXCEPT !.lock = NextLock(c), !.snap = s] \in HandleType
        BY <2>0, <3>1, <3>2, LockedTyped
      <3>4. SetHandle(c, [h EXCEPT !.lock = NextLock(c), !.snap = s])
        BY <2>2 DEF AcquireLock
      <3>5. handles' \in [Conns -> [Names -> HandleType]]
        BY <2>0, <3>3, <3>4, <1>5
      <3> QED
        BY <2>2, <3>5 DEF TypeOK, AcquireLock, reqVars, fsVars, sentVars
    <2>3. CASE Busy(c) \/ Select(c) \/ WriteFails(c)
      <3>1. handles' \in [Conns -> [Names -> HandleType]]
        BY <2>0, <2>3, <1>5, EndTyped DEF Busy, Select, WriteFails
      <3>2. \E r \in {"data", "sqlError", "busy"} : Answer(c, r)
        BY <2>3 DEF Busy, Select, WriteFails
      <3>3. aborted' \subseteq Records
        <4>1. CASE WriteFails(c)
          <5>1. record[c] # 0
            BY <4>1 DEF WriteFails, RequestInv, Writes
          <5> QED
            BY <4>1, <5>1 DEF WriteFails, TypeOK
        <4> QED
          BY <2>3, <4>1 DEF Busy, Select, TypeOK
      <3> QED
        BY <2>3, <3>1, <3>2, <3>3, AnswerTyped DEF TypeOK, Busy, Select, WriteFails, fsVars, sentVars
    <2>4. CASE Begin(c) \/ Rollback(c) \/ CommitEmpty(c)
      <3>1. handles' \in [Conns -> [Names -> HandleType]]
        <4>1. [h EXCEPT !.txn = TRUE] \in HandleType
          BY <2>0 DEF HandleType
        <4> QED
          BY <2>0, <2>4, <4>1, <1>5, EndTyped DEF Begin, Rollback, CommitEmpty
      <3>2. \E r \in {"data", "sqlError"} : Answer(c, r)
        BY <2>4 DEF Begin, Rollback, CommitEmpty
      <3>3. aborted' \subseteq Records
        BY <2>0, <2>4 DEF Begin, Rollback, CommitEmpty, TypeOK, HandleType
      <3> QED
        BY <2>4, <3>1, <3>2, <3>3, AnswerTyped DEF TypeOK, Begin, Rollback, CommitEmpty, fsVars, sentVars
    <2>5. CASE CommitStarts(c)
      BY <2>5, <1>a DEF TypeOK, CommitStarts, fsVars, sentVars
    <2>6. CASE Write(c)
      <3>1. record[c] \in Records
        BY <2>6 DEF Write, RequestInv, Writes, TypeOK
      <3>2. [h EXCEPT !.dirty = @ \union {record[c]}] \in HandleType
        BY <2>0, <3>1 DEF HandleType
      <3>3. handles' \in [Conns -> [Names -> HandleType]]
        BY <2>0, <2>6, <3>2, <1>5 DEF Write
      <3>4. CASE h.txn
        BY <2>6, <3>3, <3>4, AnswerTyped DEF TypeOK, Write, fsVars, sentVars
      <3>5. CASE ~h.txn
        BY <2>6, <3>3, <3>5, <1>a DEF TypeOK, Write, fsVars, sentVars
      <3> QED
        BY <3>4, <3>5
    <2>7. CASE Commit(c)
      <3>1. handles' \in [Conns -> [Names -> HandleType]]
        BY <2>0, <2>7, <1>5, EndTyped DEF Commit
      <3>2. store' \in [Inodes -> SUBSET Records]
        BY <2>0, <2>7 DEF Commit, TypeOK, HandleType
      <3>3. acked' \subseteq Records \X Inodes
        BY <2>0, <2>7 DEF Commit, TypeOK, HandleType
      <3> QED
        BY <2>7, <3>1, <3>2, <3>3, AnswerTyped DEF TypeOK, Commit, sentVars
    <2> QED
      BY <1>6, <2>1, <2>2, <2>3, <2>4, <2>5, <2>6, <2>7 DEF Run
  <1>7. CASE UNCHANGED vars
    BY <1>7 DEF TypeOK, vars, reqVars, fsVars, sentVars
  <1> QED
    BY <1>1, <1>2, <1>3, <1>4, <1>6, <1>7 DEF Next, SelectThrows
-----------------------------------------------------------------------------
(* What the steps leave alone. *)

\* An answer ends the request of one connection.
LEMMA AnswerFrame ==
    ASSUME TypeOK, NEW c \in Conns, NEW r, Answer(c, r)
    PROVE  /\ pc'[c] = "idle" /\ req'[c] = NoRequest /\ record'[c] = 0
           /\ \A d \in Conns \ {c} : /\ pc'[d] = pc[d] /\ req'[d] = req[d]
                                     /\ record'[d] = record[d] /\ reply'[d] = reply[d]
  BY DEF TypeOK, Answer

\* A statement works on one handle, keeps its file, and leaves the connections,
\* the folder and the other requests alone.
LEMMA RunFrame ==
    ASSUME Inv, NEW c \in Conns, Run(c)
    PROVE  LET n == req[c].db
               h == HandleOf(c)
           IN  /\ pc[c] \in Running /\ n \in Names /\ h \in HandleType /\ h.ino \in Inodes
               /\ \A d \in Conns \ {c} : /\ pc'[d] = pc[d] /\ req'[d] = req[d]
                                         /\ record'[d] = record[d] /\ reply'[d] = reply[d]
               /\ \/ pc'[c] = "idle" /\ req'[c] = NoRequest /\ record'[c] = 0
                  \/ /\ pc'[c] \in {"step", "commit"} /\ req'[c] = req[c]
                     /\ record'[c] = record[c] /\ reply'[c] = reply[c]
               /\ \A d \in Conns, m \in Names : d # c \/ m # n => handles'[d][m] = handles[d][m]
               /\ handles'[c][n].ino = h.ino
               /\ UNCHANGED <<conn, authed, wal, dir, remover, sent, deletes>>
  <1> DEFINE n == req[c].db
             h == HandleOf(c)
  <1> USE DEF Inv
  <1>1. pc[c] \in Running /\ n \in Names /\ h \in HandleType /\ h.ino \in Inodes
    <2>1. pc[c] \in Running
      BY DEF Running, Run, Prepare, PrepareFails, CanPrepare, AcquireLock, Busy, Select, Begin,
             Rollback, CommitEmpty, CommitStarts, Write, WriteFails, Commit
    <2> QED
      BY <2>1, RequestTyped DEF RequestInv, HandleType
  <1>2. UNCHANGED <<conn, authed, wal, dir, remover, sent, deletes>>
    BY DEF Run, Prepare, PrepareFails, AcquireLock, Busy, Select, Begin, Rollback, CommitEmpty,
           CommitStarts, Write, WriteFails, Commit, fsVars, sentVars
  <1>3. ASSUME NEW k, SetHandle(c, k), k.ino = h.ino
        PROVE  /\ \A d \in Conns, m \in Names : d # c \/ m # n => handles'[d][m] = handles[d][m]
               /\ handles'[c][n].ino = h.ino
    BY <1>1, <1>3 DEF TypeOK, SetHandle
  <1>4. /\ \A d \in Conns, m \in Names : d # c \/ m # n => handles'[d][m] = handles[d][m]
        /\ handles'[c][n].ino = h.ino
    <2>1. CASE Prepare(c) \/ PrepareFails(c)
      BY <1>1, <1>3, <2>1 DEF Prepare, PrepareFails, HandleType
    <2>2. CASE AcquireLock(c)
      BY <1>1, <1>3, <2>2 DEF AcquireLock, HandleType
    <2>3. CASE Busy(c) \/ Select(c) \/ WriteFails(c) \/ Rollback(c) \/ CommitEmpty(c) \/ Commit(c)
      <3>1. Unlocked(h).ino = h.ino /\ EndStatement(h).ino = h.ino
        BY <1>1, EndTyped DEF EndStatement
      <3> QED
        BY <1>3, <2>3, <3>1 DEF Busy, Select, WriteFails, Rollback, CommitEmpty, Commit
    <2>4. CASE Begin(c)
      BY <1>1, <1>3, <2>4 DEF Begin, HandleType
    <2>5. CASE CommitStarts(c)
      BY <1>1, <2>5 DEF CommitStarts, HandleOf
    <2>6. CASE Write(c)
      BY <1>1, <1>3, <2>6 DEF Write, HandleType
    <2> QED
      BY <2>1, <2>2, <2>3, <2>4, <2>5, <2>6 DEF Run
  <1>5. CASE \E r : Answer(c, r)
    BY <1>1, <1>2, <1>4, <1>5, AnswerFrame
  <1>6. CASE ~\E r : Answer(c, r)
    <2>1. CASE Prepare(c) \/ CommitStarts(c)
      BY <1>1, <1>2, <1>4, <2>1 DEF Prepare, CommitStarts, TypeOK
    <2>2. CASE AcquireLock(c)
      BY <1>1, <1>2, <1>4, <2>2 DEF AcquireLock, TypeOK, reqVars
    <2>3. CASE Write(c)
      BY <1>1, <1>2, <1>4, <2>3, <1>6 DEF Write, TypeOK
    <2> QED
      BY <1>6, <2>1, <2>2, <2>3
         DEF Run, PrepareFails, Busy, Select, Begin, Rollback, CommitEmpty, WriteFails, Commit
  <1> QED
    BY <1>5, <1>6

\* DELETE_DB removes the file of a safe name and closes one handle, or nothing.
LEMMA DeleteDbFrame ==
    ASSUME Inv, NEW c \in Conns, DeleteDb(c)
    PROVE  LET n == req[c].db
               f == Resolve[n]
           IN  /\ pc[c] = "queued" /\ req[c].cmd = "DELETE_DB" /\ (AuthOn => authed[c])
               /\ n \in Names /\ f \in Files
               /\ \E r : Answer(c, r)
               /\ UNCHANGED <<conn, authed, wal, store, sent, deletes, acked>>
               /\ \/ UNCHANGED <<dir, remover, handles, aborted>>
                  \/ /\ dir[f] \in Inodes
                     /\ dir'[f] = NoInode /\ \A g \in Files \ {f} : dir'[g] = dir[g]
                     /\ remover'[dir[f]] = {<<c, n>>}
                     /\ \A i \in Inodes \ {dir[f]} : remover'[i] = remover[i]
                     /\ \A d \in Conns, m \in Names :
                            handles'[d][m] = IF d = c /\ m = n THEN NoHandle ELSE handles[d][m]
                     /\ aborted' = aborted \union handles[c][n].dirty
  <1> DEFINE n == req[c].db
             f == Resolve[n]
  <1> USE DEF Inv
  <1>1. /\ pc[c] = "queued" /\ req[c].cmd = "DELETE_DB" /\ (AuthOn => authed[c])
        /\ n \in Names /\ f \in Files
    BY RequestTyped, VerdictFacts, HandlerAssumption DEF DeleteDb, Starts
  <1>2. (\E r : Answer(c, r)) /\ UNCHANGED <<conn, authed, wal, store, sent, deletes, acked>>
    BY DEF DeleteDb, sentVars
  <1>3. CASE dir[f] = NoInode
    BY <1>1, <1>2, <1>3 DEF DeleteDb
  <1>4. CASE dir[f] # NoInode
    <2>1. dir[f] \in Inodes
      BY <1>1, <1>4 DEF TypeOK
    <2>2. /\ dir' = [dir EXCEPT ![f] = NoInode] /\ remover' = [remover EXCEPT ![dir[f]] = {<<c, n>>}]
          /\ handles' = [handles EXCEPT ![c][n] = NoHandle]
          /\ aborted' = aborted \union handles[c][n].dirty
      BY <1>4 DEF DeleteDb
    <2> QED
      BY <1>1, <1>2, <2>1, <2>2, NoHandleTyped, HandlesUpdated DEF TypeOK
  <1> QED
    BY <1>3, <1>4

\* QUERY opens the file with inode i, which has just been made or is the name's.
Opens(c, i) ==
    LET n == req[c].db
        f == Resolve[n]
    IN  /\ handles[c][n] = NoHandle
        /\ remover[i] = {}
        /\ dir[f] = i \/ (dir[f] = NoInode /\ \A g \in Files : dir[g] # i)
        /\ dir'[f] = i /\ \A g \in Files \ {f} : dir'[g] = dir[g]
        /\ \A d \in Conns, m \in Names :
               handles'[d][m] = IF d = c /\ m = n THEN [NoHandle EXCEPT !.ino = i]
                                ELSE handles[d][m]

\* QUERY opens the file of a safe name, a new one when there is none, or finds
\* the handle in the cache.
LEMMA QueryFrame ==
    ASSUME Inv, NEW c \in Conns, Query(c)
    PROVE  LET n == req[c].db
               f == Resolve[n]
           IN  /\ pc[c] = "queued" /\ req[c].cmd = "QUERY" /\ (AuthOn => authed[c])
               /\ n \in Names /\ f \in Files
               /\ pc'[c] = "prepare" /\ \A d \in Conns \ {c} : pc'[d] = pc[d]
               /\ UNCHANGED <<conn, authed, req, record, reply, wal, store, remover, sent, deletes,
                              acked, aborted>>
               /\ \A d \in Conns, m \in Names : d # c \/ m # n => handles'[d][m] = handles[d][m]
               /\ \/ handles[c][n] # NoHandle /\ UNCHANGED <<dir, handles>>
                  \/ \E i \in Inodes : Opens(c, i)
  <1> DEFINE n == req[c].db
             f == Resolve[n]
             ino == IF dir[f] # NoInode THEN dir[f] ELSE NewInode
  <1> USE DEF Inv
  <1>1. /\ pc[c] = "queued" /\ req[c].cmd = "QUERY" /\ (AuthOn => authed[c])
        /\ n \in Names /\ f \in Files
    BY RequestTyped, VerdictFacts, HandlerAssumption DEF Query, Starts
  <1>2. /\ pc'[c] = "prepare" /\ \A d \in Conns \ {c} : pc'[d] = pc[d]
        /\ UNCHANGED <<conn, authed, req, record, reply, wal, store, remover, sent, deletes,
                       acked, aborted>>
    BY DEF Query, TypeOK, sentVars
  <1>3. CASE handles[c][n] # NoHandle
    BY <1>1, <1>2, <1>3 DEF Query
  <1>4. CASE handles[c][n] = NoHandle
    <2>1. /\ ino \in Inodes /\ remover[ino] = {}
          /\ dir[f] = ino \/ (dir[f] = NoInode /\ \A g \in Files : dir[g] # ino)
      BY <1>1, FreeInode DEF TypeOK, FolderInv
    <2>2. /\ handles' = [handles EXCEPT ![c][n] = [NoHandle EXCEPT !.ino = ino]]
          /\ dir' = [dir EXCEPT ![f] = ino]
      BY <1>4 DEF Query
    <2> HIDE DEF ino
    <2>3. \A d \in Conns, m \in Names :
             handles'[d][m] = IF d = c /\ m = n THEN [NoHandle EXCEPT !.ino = ino] ELSE handles[d][m]
      BY <1>1, <2>1, <2>2, NoHandleTyped, HandlesUpdated
    <2>4. dir'[f] = ino /\ \A g \in Files \ {f} : dir'[g] = dir[g]
      BY <1>1, <2>2 DEF TypeOK
    <2>5. Opens(c, ino)
      BY <1>4, <2>1, <2>3, <2>4 DEF Opens
    <2> QED
      BY <1>1, <1>2, <2>1, <2>3, <2>5
  <1> QED
    BY <1>3, <1>4

\* Clients, and requests that are answered at once or cannot open a database,
\* do nothing to the handles and the folder.
LEMMA ClientFrame ==
    ASSUME NEW c \in Conns, Client(c) \/ AnswerAtOnce(c) \/ OpenFails(c)
    PROVE  UNCHANGED <<handles, wal, dir, store, remover, acked>>
  BY DEF Client, Accept, PeerCloses, ReadFails, Send, AnswerAtOnce, OpenFails, fsVars

\* The end of a connection, or of all of them, leaves the folder as it is.
LEMMA ReleaseFrame ==
    ASSUME TypeOK
    PROVE  /\ \A c \in Conns : Release(c) =>
                 /\ \A n \in Names : handles'[c][n] = NoHandle
                 /\ \A d \in Conns \ {c}, n \in Names : handles'[d][n] = handles[d][n]
                 /\ UNCHANGED <<pc, req, record, wal, dir, store, remover, sent, deletes, acked>>
           /\ EndOfProcess =>
                 /\ \A d \in Conns, n \in Names : handles'[d][n] = NoHandle
                 /\ \A d \in Conns : pc'[d] = "idle" /\ req'[d] = NoRequest /\ record'[d] = 0
                 /\ UNCHANGED <<wal, dir, store, remover, sent, deletes, acked>>
  BY DEF TypeOK, Release, EndOfProcess, fsVars, sentVars

\* The files of the folder and those of the open handles stay in step.
LEMMA FolderStep == Inv /\ [Next]_vars => FolderInv'
  <1> SUFFICES ASSUME Inv, [Next]_vars PROVE FolderInv'
    OBVIOUS
  <1> USE DEF Inv
  <1>0. \A c \in Conns, n \in Names : Resolve[n] \in Files /\ handles[c][n].ino \in Inodes \union {NoInode}
    BY HandlerAssumption DEF TypeOK, HandleType
  <1>1. ASSUME NEW c \in Conns, Client(c) \/ AnswerAtOnce(c) \/ OpenFails(c) PROVE FolderInv'
    BY <1>1, ClientFrame DEF FolderInv
  <1>2. ASSUME NEW c \in Conns, Release(c) PROVE FolderInv'
    BY <1>2, ReleaseFrame, NoHandleTyped DEF FolderInv
  <1>3. CASE EndOfProcess
    BY <1>3, ReleaseFrame, NoHandleTyped DEF FolderInv
  <1>4. ASSUME NEW c \in Conns, DeleteDb(c) PROVE FolderInv'
    <2> DEFINE n == req[c].db
               f == Resolve[n]
    <2>1. CASE UNCHANGED <<dir, remover, handles, aborted>>
      BY <2>1 DEF FolderInv
    <2>2. CASE ~UNCHANGED <<dir, remover, handles, aborted>>
      <3>1. /\ f \in Files /\ n \in Names /\ dir[f] \in Inodes
            /\ dir'[f] = NoInode /\ \A g \in Files \ {f} : dir'[g] = dir[g]
            /\ remover'[dir[f]] = {<<c, n>>}
            /\ \A i \in Inodes \ {dir[f]} : remover'[i] = remover[i]
            /\ \A d \in Conns, m \in Names :
                 handles'[d][m] = IF d = c /\ m = n THEN NoHandle ELSE handles[d][m]
        BY <1>4, <2>2, DeleteDbFrame
      <3>2. \A g, k \in Files : dir'[g] # NoInode /\ dir'[g] = dir'[k] => g = k
        BY <3>1 DEF FolderInv
      <3>3. \A g \in Files : dir'[g] # NoInode => remover'[dir'[g]] = {}
        BY <3>1 DEF FolderInv, TypeOK
      <3>4. ASSUME NEW d \in Conns, NEW m \in Names, handles'[d][m].ino # NoInode,
                   remover'[handles'[d][m].ino] = {}
            PROVE  dir'[Resolve[m]] = handles'[d][m].ino
        <4>1. handles'[d][m] = handles[d][m]
          BY <3>1, <3>4, NoHandleTyped
        <4>2. handles[d][m].ino \in Inodes /\ handles[d][m].ino # dir[f]
          <5>1. remover'[dir[f]] # {}
            BY <3>1, Zenon
          <5> QED
            BY <1>0, <3>4, <4>1, <5>1
        <4> QED
          BY <1>0, <3>1, <3>4, <4>1, <4>2 DEF FolderInv
      <3> QED
        BY <3>2, <3>3, <3>4 DEF FolderInv
    <2> QED
      BY <2>1, <2>2
  <1>5. ASSUME NEW c \in Conns, Query(c) PROVE FolderInv'
    <2> DEFINE n == req[c].db
               f == Resolve[n]
    <2>1. remover' = remover /\ n \in Names /\ f \in Files
      BY <1>5, QueryFrame
    <2>2. CASE UNCHANGED <<dir, handles>>
      BY <2>1, <2>2 DEF FolderInv
    <2>3. ASSUME NEW i \in Inodes, Opens(c, i) PROVE FolderInv'
      <3> USE DEF Opens
      <3>1. \A g, k \in Files : dir'[g] # NoInode /\ dir'[g] = dir'[k] => g = k
        BY <2>1, <2>3 DEF FolderInv
      <3>2. \A g \in Files : dir'[g] # NoInode => remover'[dir'[g]] = {}
        BY <2>1, <2>3 DEF FolderInv
      <3>3. ASSUME NEW d \in Conns, NEW m \in Names, handles'[d][m].ino # NoInode,
                   remover'[handles'[d][m].ino] = {}
            PROVE  dir'[Resolve[m]] = handles'[d][m].ino
        <4>1. CASE d = c /\ m = n
          BY <2>1, <2>3, <4>1, NoHandleTyped
        <4>2. CASE ~(d = c /\ m = n)
          <5>1. handles'[d][m] = handles[d][m]
            BY <2>3, <4>2
          <5>2. dir[Resolve[m]] = handles[d][m].ino
            BY <2>1, <3>3, <5>1 DEF FolderInv
          <5> QED
            BY <1>0, <2>3, <3>3, <5>1, <5>2
        <4> QED
          BY <4>1, <4>2
      <3> QED
        BY <3>1, <3>2, <3>3 DEF FolderInv
    <2> QED
      BY <1>5, <2>2, <2>3, QueryFrame
  <1>6. ASSUME NEW c \in Conns, Run(c) PROVE FolderInv'
    <2>1. UNCHANGED <<dir, remover>>
      BY <1>6, RunFrame
    <2>2. \A d \in Conns, m \in Names : handles'[d][m].ino = handles[d][m].ino
      BY <1>6, RunFrame DEF HandleOf
    <2> QED
      BY <2>1, <2>2 DEF FolderInv
  <1>7. CASE UNCHANGED vars
    BY <1>7 DEF FolderInv, vars, fsVars
  <1> QED
    BY <1>1, <1>2, <1>3, <1>4, <1>5, <1>6, <1>7 DEF Next, Start, Terminate, SelectThrows

\* An element more is one more at most.
LEMMA OneMore ==
    ASSUME NEW S, NEW x, IsFiniteSet(S)
    PROVE  /\ Cardinality(S \union {x}) \in Nat
           /\ Cardinality(S \union {x}) <= Cardinality(S) + 1
  <1> DEFINE T == S \union {x}
  <1>1. IsFiniteSet(T) /\ Cardinality(T) = IF x \in S THEN Cardinality(S) ELSE Cardinality(S) + 1
    BY FS_AddElement
  <1>2. Cardinality(S) \in Nat
    BY FS_CardinalityType
  <1> HIDE DEF T
  <1>3. Cardinality(T) \in Nat /\ Cardinality(T) <= Cardinality(S) + 1
    BY <1>1, <1>2
  <1> QED
    BY <1>3 DEF T

\* A DELETE_DB request is counted when it is sent, and removes one file at most.
LEMMA BudgetStep == Inv /\ [Next]_vars => BudgetInv'
  <1> SUFFICES ASSUME Inv, [Next]_vars PROVE BudgetInv'
    OBVIOUS
  <1> USE DEF Inv
  <1>0. /\ IsFiniteSet(Removed) /\ IsFiniteSet(Deleters)
        /\ IsFiniteSet(Removed') /\ IsFiniteSet(Deleters')
        /\ Cardinality(Removed) \in Nat /\ Cardinality(Deleters) \in Nat
        /\ Cardinality(Removed') \in Nat /\ Cardinality(Deleters') \in Nat
        /\ deletes \in Nat
    <2>1. /\ Removed \in SUBSET Inodes /\ Deleters \in SUBSET Conns
          /\ Removed' \in SUBSET Inodes /\ Deleters' \in SUBSET Conns
      BY DEF Removed, Deleters
    <2>2. /\ IsFiniteSet(Removed) /\ IsFiniteSet(Deleters)
          /\ IsFiniteSet(Removed') /\ IsFiniteSet(Deleters')
      BY <2>1, Counts, HandlerAssumption, FS_Subset
    <2> QED
      BY <2>2, FS_CardinalityType, HandlerAssumption DEF TypeOK
  <1>a. ASSUME Deleters' \subseteq Deleters, remover' = remover, deletes' = deletes
        PROVE  BudgetInv'
    <2>1. Removed' = Removed
      BY <1>a DEF Removed
    <2>2. Cardinality(Deleters') <= Cardinality(Deleters)
      BY <1>0, <1>a, FS_Subset
    <2> QED
      BY <1>0, <1>a, <2>1, <2>2 DEF BudgetInv
  <1>1. ASSUME NEW c \in Conns, Client(c) \/ AnswerAtOnce(c) \/ OpenFails(c) PROVE BudgetInv'
    <2>1. CASE Accept(c) \/ PeerCloses(c) \/ ReadFails(c)
      <3>1. Deleters' \subseteq Deleters
        BY <2>1 DEF Accept, PeerCloses, ReadFails, Deleters, TypeOK, reqVars
      <3> QED
        BY <2>1, <3>1, <1>a DEF Accept, PeerCloses, ReadFails, fsVars, sentVars
    <2>2. CASE AnswerAtOnce(c) \/ OpenFails(c)
      <3>1. Deleters' \subseteq Deleters
        BY <2>2, AnswerFrame DEF AnswerAtOnce, OpenFails, Deleters
      <3> QED
        BY <2>2, <3>1, <1>a DEF AnswerAtOnce, OpenFails, fsVars, sentVars
    <2>3. ASSUME NEW r \in Requests, Send(c, r) PROVE BudgetInv'
      <3>1. /\ pc'[c] = "queued" /\ req'[c] = r
            /\ \A d \in Conns \ {c} : pc'[d] = pc[d] /\ req'[d] = req[d]
            /\ remover' = remover
        BY <2>3 DEF Send, TypeOK, fsVars
      <3>2. CASE r.cmd # "DELETE_DB"
        <4>1. Deleters' \subseteq Deleters
          BY <3>1, <3>2 DEF Deleters
        <4> QED
          BY <2>3, <3>1, <3>2, <4>1, <1>a DEF Send
      <3>3. CASE r.cmd = "DELETE_DB"
        <4>1. Deleters' \subseteq Deleters \union {c}
          BY <3>1 DEF Deleters
        <4>2. Cardinality(Deleters') <= Cardinality(Deleters \union {c})
          BY <1>0, <4>1, FS_AddElement, FS_Subset
        <4>3. Cardinality(Deleters \union {c}) <= Cardinality(Deleters) + 1
          BY <1>0, OneMore
        <4>4. Removed' = Removed
          BY <3>1 DEF Removed
        <4>5. deletes' = deletes + 1
          BY <2>3, <3>3 DEF Send
        <4>6. Cardinality(Deleters \union {c}) \in Nat
          BY <1>0, OneMore
        <4> QED
          BY <1>0, <4>2, <4>3, <4>4, <4>5, <4>6 DEF BudgetInv
      <3> QED
        BY <3>2, <3>3
    <2> QED
      BY <1>1, <2>1, <2>2, <2>3 DEF Client
  <1>2. ASSUME NEW c \in Conns, Release(c) PROVE BudgetInv'
    BY <1>2, <1>a, ReleaseFrame DEF Deleters
  <1>3. CASE EndOfProcess
    BY <1>3, <1>a, ReleaseFrame DEF Deleters
  <1>4. ASSUME NEW c \in Conns, DeleteDb(c) PROVE BudgetInv'
    <2> DEFINE f == Resolve[req[c].db]
    <2>1. c \in Deleters /\ Deleters' \subseteq Deleters \ {c}
      BY <1>4, DeleteDbFrame, AnswerFrame DEF Deleters
    <2>2. Cardinality(Deleters') <= Cardinality(Deleters) - 1
      <3>1. Cardinality(Deleters') <= Cardinality(Deleters \ {c})
        BY <1>0, <2>1, FS_RemoveElement, FS_Subset
      <3> QED
        BY <1>0, <2>1, <3>1, FS_RemoveElement
    <2>3. Removed' \subseteq Removed \union {dir[f]}
      BY <1>4, DeleteDbFrame DEF Removed
    <2>4. Cardinality(Removed') <= Cardinality(Removed) + 1
      <3>1. Cardinality(Removed') <= Cardinality(Removed \union {dir[f]})
        BY <1>0, <2>3, FS_AddElement, FS_Subset
      <3>2. /\ Cardinality(Removed \union {dir[f]}) \in Nat
            /\ Cardinality(Removed \union {dir[f]}) <= Cardinality(Removed) + 1
        BY <1>0, OneMore
      <3> QED
        BY <1>0, <3>1, <3>2
    <2>5. deletes' = deletes
      BY <1>4, DeleteDbFrame
    <2> QED
      BY <1>0, <2>2, <2>4, <2>5 DEF BudgetInv
  <1>5. ASSUME NEW c \in Conns, Query(c) PROVE BudgetInv'
    <2>1. Deleters' \subseteq Deleters
      BY <1>5, QueryFrame DEF Deleters
    <2> QED
      BY <1>5, <2>1, <1>a, QueryFrame
  <1>6. ASSUME NEW c \in Conns, Run(c) PROVE BudgetInv'
    <2>1. Deleters' \subseteq Deleters
      BY <1>6, RunFrame DEF Deleters
    <2> QED
      BY <1>6, <2>1, <1>a, RunFrame
  <1>7. CASE UNCHANGED vars
    BY <1>7, <1>a DEF Deleters, vars, reqVars, fsVars, sentVars
  <1> QED
    BY <1>1, <1>2, <1>3, <1>4, <1>5, <1>6, <1>7 DEF Next, Start, Terminate, SelectThrows

\* The end of a connection leaves nothing for the next one in its place.
LEMMA FreeStep == Inv /\ [Next]_vars => FreeInv'
  <1> SUFFICES ASSUME Inv, [Next]_vars PROVE FreeInv'
    OBVIOUS
  <1> USE DEF Inv, FreeInv
  <1>1. ASSUME NEW c \in Conns, Client(c) PROVE FreeInv'
    BY <1>1 DEF Client, Accept, PeerCloses, ReadFails, Send, TypeOK, reqVars
  <1>2. ASSUME NEW c \in Conns, Release(c) PROVE FreeInv'
    BY <1>2 DEF Release, TypeOK
  <1>3. CASE EndOfProcess
    BY <1>3 DEF EndOfProcess
  <1>4. ASSUME NEW c \in Conns, AnswerAtOnce(c) \/ OpenFails(c) PROVE FreeInv'
    <2>1. conn[c] # "free" /\ conn' = conn /\ handles' = handles
      BY <1>4 DEF AnswerAtOnce, OpenFails, Starts
    <2>2. \A d \in Conns \ {c} : pc'[d] = pc[d] /\ reply'[d] = reply[d] /\ authed'[d] = authed[d]
      BY <1>4, AnswerFrame DEF AnswerAtOnce, OpenFails, TypeOK
    <2> QED
      BY <2>1, <2>2
  <1>5. ASSUME NEW c \in Conns, DeleteDb(c) PROVE FreeInv'
    <2>1. conn[c] # "free" /\ conn' = conn /\ authed' = authed
      BY <1>5, DeleteDbFrame
    <2>2. \A d \in Conns \ {c} : pc'[d] = pc[d] /\ reply'[d] = reply[d]
      BY <1>5, DeleteDbFrame, AnswerFrame
    <2>3. \A d \in Conns \ {c}, m \in Names : handles'[d][m] = handles[d][m]
      BY <1>5, DeleteDbFrame
    <2> QED
      BY <2>1, <2>2, <2>3
  <1>6. ASSUME NEW c \in Conns, Query(c) PROVE FreeInv'
    <2>1. conn[c] # "free" /\ conn' = conn /\ authed' = authed /\ reply' = reply
      BY <1>6, QueryFrame
    <2>2. \A d \in Conns \ {c} : pc'[d] = pc[d]
      BY <1>6, QueryFrame
    <2>3. \A d \in Conns \ {c}, m \in Names : handles'[d][m] = handles[d][m]
      BY <1>6, QueryFrame
    <2> QED
      BY <2>1, <2>2, <2>3
  <1>7. ASSUME NEW c \in Conns, Run(c) PROVE FreeInv'
    <2>1. conn[c] # "free" /\ conn' = conn /\ authed' = authed
      BY <1>7, RunFrame DEF Running
    <2>2. \A d \in Conns \ {c} : pc'[d] = pc[d] /\ reply'[d] = reply[d]
      BY <1>7, RunFrame
    <2>3. \A d \in Conns \ {c}, m \in Names : handles'[d][m] = handles[d][m]
      BY <1>7, RunFrame
    <2> QED
      BY <2>1, <2>2, <2>3
  <1>8. CASE UNCHANGED vars
    BY <1>8 DEF vars, reqVars
  <1> QED
    BY <1>1, <1>2, <1>3, <1>4, <1>5, <1>6, <1>7, <1>8 DEF Next, Start, Terminate, SelectThrows

\* No step lets a connection past the password, or gives it an answer before.
LEMMA AuthStep == Inv /\ [Next]_vars => AuthGate'
  <1> SUFFICES ASSUME Inv, [Next]_vars, AuthOn,
                      NEW d \in Conns, ~authed'[d]
               PROVE  /\ pc'[d] \notin Running
                      /\ \A n \in Names : handles'[d][n] = NoHandle
                      /\ reply'[d] \in {"none", "error", "invalidFormat"}
    BY DEF AuthGate
  <1> USE DEF Inv
  <1> DEFINE Goal == /\ pc'[d] \notin Running
                     /\ \A n \in Names : handles'[d][n] = NoHandle
                     /\ reply'[d] \in {"none", "error", "invalidFormat"}
  <1>0. ~authed[d] => /\ pc[d] \notin Running
                      /\ \A n \in Names : handles[d][n] = NoHandle
                      /\ reply[d] \in {"none", "error", "invalidFormat"}
    BY DEF AuthGate
  <1>1. ASSUME NEW c \in Conns, Client(c) PROVE Goal
    <2>1. authed' = authed /\ handles' = handles
      BY <1>1 DEF Client, Accept, PeerCloses, ReadFails, Send
    <2>2. /\ pc'[d] \in {pc[d], "idle", "queued"}
          /\ reply'[d] \in {reply[d], "none"}
      BY <1>1 DEF Client, Accept, PeerCloses, ReadFails, Send, TypeOK, reqVars
    <2> QED
      BY <1>0, <2>1, <2>2 DEF Running
  <1>2. ASSUME NEW c \in Conns, Release(c) PROVE Goal
    <2>1. CASE d = c
      BY <1>2, <2>1 DEF Release, TypeOK, Running
    <2>2. CASE d # c
      BY <1>0, <1>2, <2>2 DEF Release, TypeOK
    <2> QED
      BY <2>1, <2>2
  <1>3. CASE EndOfProcess
    BY <1>3 DEF EndOfProcess, Running
  <1>4. ASSUME NEW c \in Conns, AnswerAtOnce(c) PROVE Goal
    <2>1. handles' = handles /\ Answer(c, Verdict(c, req[c]))
      BY <1>4 DEF AnswerAtOnce
    <2>2. CASE d = c
      <3>1. ~authed[c] /\ Verdict(c, req[c]) \notin {"throw", "ok"}
        BY <1>4, <2>2 DEF AnswerAtOnce, TypeOK
      <3>2. Verdict(c, req[c]) \in {"error", "invalidFormat"}
        BY <3>1, VerdictFacts, RequestTyped
      <3> QED
        BY <1>0, <2>1, <2>2, <3>1, <3>2 DEF Answer, TypeOK, Running
    <2>3. CASE d # c
      <3>1. authed'[d] = authed[d]
        BY <1>4, <2>3 DEF AnswerAtOnce, TypeOK
      <3> QED
        BY <1>0, <2>1, <2>3, <3>1, AnswerFrame
    <2> QED
      BY <2>2, <2>3
  <1>5. ASSUME NEW c \in Conns, DeleteDb(c) PROVE Goal
    <2>1. authed' = authed /\ authed[c] /\ d # c
      BY <1>5, DeleteDbFrame
    <2>2. \A m \in Names : handles'[d][m] = handles[d][m]
      BY <1>5, <2>1, DeleteDbFrame
    <2>3. pc'[d] = pc[d] /\ reply'[d] = reply[d]
      BY <1>5, <2>1, DeleteDbFrame, AnswerFrame
    <2> QED
      BY <1>0, <2>1, <2>2, <2>3
  <1>6. ASSUME NEW c \in Conns, Query(c) PROVE Goal
    <2>1. authed' = authed /\ authed[c] /\ d # c
      BY <1>6, QueryFrame
    <2>2. pc'[d] = pc[d] /\ reply' = reply
      BY <1>6, <2>1, QueryFrame
    <2>3. \A m \in Names : handles'[d][m] = handles[d][m]
      BY <1>6, <2>1, QueryFrame
    <2> QED
      BY <1>0, <2>1, <2>2, <2>3
  <1>7. ASSUME NEW c \in Conns, OpenFails(c) PROVE Goal
    <2>1. authed' = authed /\ authed[c] /\ handles' = handles
      BY <1>7, RequestTyped, VerdictFacts DEF OpenFails
    <2> QED
      BY <1>0, <1>7, <2>1, AnswerFrame DEF OpenFails
  <1>8. ASSUME NEW c \in Conns, Run(c) PROVE Goal
    <2>1. authed' = authed /\ authed[c] /\ d # c
      BY <1>8, RunFrame DEF AuthGate
    <2> QED
      BY <1>0, <1>8, <2>1, RunFrame
  <1>9. CASE UNCHANGED vars
    BY <1>0, <1>9 DEF vars, reqVars
  <1> QED
    BY <1>1, <1>2, <1>3, <1>4, <1>5, <1>6, <1>7, <1>8, <1>9 DEF Next, Start, Terminate, SelectThrows

\* A request in progress stays what it was sent as, and keeps its handle.
LEMMA RequestStep == Inv /\ [Next]_vars => RequestInv'
  <1> SUFFICES ASSUME Inv, [Next]_vars, NEW d \in Conns
               PROVE  /\ pc'[d] = "idle" => req'[d] = NoRequest
                      /\ record'[d] # 0 <=> Writes(req'[d])
                      /\ pc'[d] \in Running => /\ req'[d].db \in Names
                                               /\ handles'[d][req'[d].db].ino # NoInode
                      /\ pc'[d] = "commit" =>
                           LET h == handles'[d][req'[d].db]
                           IN  IF h.txn THEN req'[d].stmt = "commit"
                               ELSE req'[d].stmt = "write" /\ h.dirty = {record'[d]}
    BY DEF RequestInv, HandleOf, Writes
  <1> USE DEF Inv
  <1> DEFINE k == handles'[d][req'[d].db]
             Goal == /\ pc'[d] = "idle" => req'[d] = NoRequest
                     /\ record'[d] # 0 <=> Writes(req'[d])
                     /\ pc'[d] \in Running => req'[d].db \in Names /\ k.ino # NoInode
                     /\ pc'[d] = "commit" => IF k.txn THEN req'[d].stmt = "commit"
                                             ELSE req'[d].stmt = "write" /\ k.dirty = {record'[d]}
  <1>0. /\ pc[d] = "idle" => req[d] = NoRequest
        /\ record[d] # 0 <=> Writes(req[d])
        /\ pc[d] \in Running => req[d].db \in Names /\ HandleOf(d).ino # NoInode
        /\ pc[d] = "commit" => IF HandleOf(d).txn THEN req[d].stmt = "commit"
                               ELSE req[d].stmt = "write" /\ HandleOf(d).dirty = {record[d]}
    BY DEF RequestInv
  <1>a. ~Writes(NoRequest) /\ "idle" \notin Running /\ "queued" \notin Running
    BY DEF Writes, NoRequest, Running, Absent
  <1>b. ASSUME pc'[d] = "idle", req'[d] = NoRequest, record'[d] = 0 PROVE Goal
    BY <1>a, <1>b
  <1>c. ASSUME pc'[d] = pc[d], req'[d] = req[d], record'[d] = record[d],
               pc[d] \in Running => handles'[d][req[d].db] = handles[d][req[d].db]
        PROVE  Goal
    <2>1. CASE pc[d] \in Running
      BY <1>0, <1>c, <2>1 DEF HandleOf
    <2>2. CASE pc[d] \notin Running
      BY <1>0, <1>c, <2>2 DEF Running
    <2> QED
      BY <2>1, <2>2
  <1>1. ASSUME NEW c \in Conns, Client(c) PROVE Goal
    <2>1. CASE Accept(c) \/ PeerCloses(c)
      BY <2>1, <1>c DEF Accept, PeerCloses, reqVars
    <2>2. CASE ReadFails(c)
      BY <2>2, <1>b, <1>c DEF ReadFails, TypeOK
    <2>3. ASSUME NEW r \in Requests, Send(c, r) PROVE Goal
      <3>1. CASE d = c
        <4>1. pc'[d] = "queued" /\ req'[d] = r /\ record'[d] = IF Writes(r) THEN sent + 1 ELSE 0
          BY <2>3, <3>1 DEF Send, TypeOK
        <4>2. sent \in Nat
          BY HandlerAssumption DEF TypeOK
        <4> QED
          BY <4>1, <4>2, <1>a
      <3>2. CASE d # c
        BY <2>3, <3>2, <1>c DEF Send, TypeOK
      <3> QED
        BY <3>1, <3>2
    <2> QED
      BY <1>1, <2>1, <2>2, <2>3 DEF Client
  <1>2. ASSUME NEW c \in Conns, Release(c) PROVE Goal
    <2>1. pc[c] = "idle"
      BY <1>2 DEF Release
    <2> QED
      BY <1>2, <2>1, <1>a, <1>c, ReleaseFrame DEF RequestInv
  <1>3. CASE EndOfProcess
    BY <1>3, <1>b, ReleaseFrame
  <1>4. ASSUME NEW c \in Conns, AnswerAtOnce(c) \/ OpenFails(c) PROVE Goal
    BY <1>4, <1>b, <1>c, AnswerFrame DEF AnswerAtOnce, OpenFails
  <1>5. ASSUME NEW c \in Conns, DeleteDb(c) PROVE Goal
    <2>1. CASE d = c
      BY <1>5, <2>1, <1>b, DeleteDbFrame, AnswerFrame
    <2>2. CASE d # c
      <3>1. \A m \in Names : handles'[d][m] = handles[d][m]
        BY <1>5, <2>2, DeleteDbFrame
      <3> QED
        BY <1>0, <1>5, <2>2, <3>1, <1>c, DeleteDbFrame, AnswerFrame
    <2> QED
      BY <2>1, <2>2
  <1>6. ASSUME NEW c \in Conns, Query(c) PROVE Goal
    <2>1. req' = req /\ record' = record
      BY <1>6, QueryFrame
    <2>2. CASE d = c
      <3>1. pc'[c] = "prepare" /\ req[c].db \in Names /\ pc[c] = "queued"
        BY <1>6, QueryFrame
      <3>2. handles'[c][req[c].db].ino # NoInode
        <4>1. CASE handles[c][req[c].db] # NoHandle /\ handles' = handles
          BY <3>1, <4>1 DEF HandleInv
        <4>2. CASE ~(handles[c][req[c].db] # NoHandle /\ handles' = handles)
          <5>1. PICK i \in Inodes : handles'[c][req[c].db] = [NoHandle EXCEPT !.ino = i]
            BY <1>6, <3>1, <4>2, QueryFrame DEF Opens
          <5> QED
            BY <5>1, NoHandleTyped, Counts
        <4> QED
          BY <4>1, <4>2
      <3> QED
        BY <1>0, <2>1, <2>2, <3>1, <3>2 DEF Running
    <2>3. CASE d # c
      <3>1. \A m \in Names : handles'[d][m] = handles[d][m]
        BY <1>6, <2>3, QueryFrame
      <3> QED
        BY <1>0, <1>6, <2>1, <2>3, <3>1, <1>c, QueryFrame
    <2> QED
      BY <2>2, <2>3
  <1>7. ASSUME NEW c \in Conns, Run(c) PROVE Goal
    <2>1. CASE d # c
      BY <1>0, <1>7, <2>1, <1>c, RunFrame
    <2>2. CASE d = c
      <3>0. /\ c \in Conns /\ pc[c] \in Running /\ req[c].db \in Names /\ HandleOf(c) \in HandleType
            /\ HandleOf(c).ino # NoInode
        BY <1>0, <1>7, <2>2, RunFrame
      <3>1. CASE pc'[c] = "idle"
        BY <1>7, <2>2, <3>1, <1>b, RunFrame
      <3>2. CASE pc'[c] # "idle"
        <4>1. /\ req'[c] = req[c] /\ record'[c] = record[c] /\ pc'[c] \in {"step", "commit"}
              /\ handles'[c][req[c].db].ino = HandleOf(c).ino
          BY <1>7, <3>2, RunFrame
        <4>2. ASSUME pc'[c] = "commit"
              PROVE  IF k.txn THEN req[c].stmt = "commit"
                     ELSE req[c].stmt = "write" /\ k.dirty = {record[c]}
          <5>1. CASE AcquireLock(c)
            <6>1. pc' = pc /\ k.dirty = HandleOf(c).dirty /\ k.txn = HandleOf(c).txn
              BY <2>2, <3>0, <4>1, <5>1 DEF AcquireLock, SetHandle, reqVars, TypeOK, HandleType
            <6> QED
              BY <1>0, <2>2, <4>2, <6>1
          <5>2. CASE CommitStarts(c)
            <6>1. k = HandleOf(c) /\ req[c].stmt = "commit" /\ k.txn
              BY <2>2, <3>0, <4>1, <5>2 DEF CommitStarts, CommitWaits, HandleOf
            <6> QED
              BY <6>1
          <5>3. CASE Write(c)
            <6>1. /\ k = [HandleOf(c) EXCEPT !.dirty = @ \union {record[c]}]
                  /\ req[c].stmt = "write" /\ pc[c] = "step"
              BY <2>2, <3>0, <4>1, <5>3 DEF Write, SetHandle, TypeOK
            <6>2. ~HandleOf(c).txn
              BY <3>2, <5>3, AnswerFrame DEF Write
            <6>3. HandleOf(c).dirty = {}
              BY <3>0, <6>1, <6>2 DEF HandleInv, HandleOf
            <6>4. k.dirty = {record[c]} /\ k.txn = HandleOf(c).txn
              BY <3>0, <6>1, <6>3 DEF HandleType
            <6> QED
              BY <6>1, <6>2, <6>4
          <5>4. CASE Prepare(c)
            BY <4>2, <5>4 DEF Prepare, TypeOK
          <5> QED
            BY <1>7, <3>2, <5>1, <5>2, <5>3, <5>4, AnswerFrame
               DEF Run, PrepareFails, Busy, Select, Begin, Rollback, CommitEmpty, WriteFails, Commit
        <4> QED
          BY <1>0, <2>2, <3>0, <4>1, <4>2
      <3> QED
        BY <3>1, <3>2
    <2> QED
      BY <2>1, <2>2
  <1>8. CASE UNCHANGED vars
    BY <1>8, <1>c DEF vars, reqVars
  <1> QED
    BY <1>1, <1>2, <1>3, <1>4, <1>5, <1>6, <1>7, <1>8 DEF Next, Start, Terminate, SelectThrows
-----------------------------------------------------------------------------
(* The locks. *)

\* A handle h whose file has the contents s.
Sound(h, s) ==
    /\ h.dirty # {} => h.lock >= RESERVED
    /\ h.lock >= RESERVED => h.snap = s
    /\ h.lock >= SHARED => h.snap \subseteq s /\ (~wal => h.snap = s)

\* Two locks on one file.
Apart(k, l) ==
    /\ k >= RESERVED => l < RESERVED
    /\ l >= RESERVED => k < RESERVED
    /\ k = EXCLUSIVE => l = NONE
    /\ l = EXCLUSIVE => k = NONE

\* The lock l is compatible with those of the other handles on the file of this one.
NoClash(c, n, l) ==
    \A d \in Conns, m \in Names :
        (d # c \/ m # n) /\ handles[d][m].ino = handles[c][n].ino => Apart(l, handles[d][m].lock)

\* What the invariant says of one handle, and of two.
LEMMA LockParts ==
    ASSUME LockInv
    PROVE  /\ \A c \in Conns, n \in Names : Sound(handles[c][n], store[handles[c][n].ino])
           /\ \A c, d \in Conns, m, n \in Names :
                 /\ handles[c][m].ino # NoInode /\ handles[c][m].ino = handles[d][n].ino
                 /\ c # d \/ m # n
                 => Apart(handles[c][m].lock, handles[d][n].lock)
  <1>1. \A c \in Conns, n \in Names : Sound(handles[c][n], store[handles[c][n].ino])
    BY DEF LockInv, WritersSerialised, ReadsStable, Sound
  <1>2. ASSUME NEW c \in Conns, NEW d \in Conns, NEW m \in Names, NEW n \in Names,
               handles[c][m].ino # NoInode, handles[c][m].ino = handles[d][n].ino, c # d \/ m # n
        PROVE  Apart(handles[c][m].lock, handles[d][n].lock)
    <2>1. <<c, m>> # <<d, n>> /\ <<d, n>> # <<c, m>>
      BY <1>2
    <2> QED
      BY <1>2, <2>1 DEF LockInv, WritersSerialised, Apart
  <1> QED
    BY <1>1, <1>2

\* A step keeps the invariant when the handles it leaves do.
LEMMA LockWhole ==
    ASSUME wal' = wal,
           \A c \in Conns, n \in Names : Sound(handles'[c][n], store'[handles'[c][n].ino]),
           \A c, d \in Conns, m, n \in Names :
              /\ handles'[c][m].ino # NoInode /\ handles'[c][m].ino = handles'[d][n].ino
              /\ c # d \/ m # n
              => Apart(handles'[c][m].lock, handles'[d][n].lock)
    PROVE  LockInv'
  <1>1. ReadsStable'
    BY DEF ReadsStable, Sound
  <1>2. WritersSerialised'
    BY DEF WritersSerialised, Sound, Apart
  <1> QED
    BY <1>1, <1>2 DEF LockInv

\* A handle that is not open, or has no lock, is sound and is in nobody's way.
LEMMA NoLock ==
    /\ \A s : Sound(NoHandle, s)
    /\ \A h \in HandleType : h.lock = NONE /\ h.dirty = {} => \A s : Sound(h, s)
    /\ \A k \in NONE .. EXCLUSIVE : Apart(k, NONE) /\ Apart(NONE, k)
  BY DEF Sound, Apart, NoHandle, HandleType, NONE, SHARED, RESERVED, EXCLUSIVE

\* One statement changes one handle, and nothing in the files.
LEMMA LockMove ==
    ASSUME Inv, NEW c \in Conns, NEW n \in Names, NEW k \in HandleType,
           handles' = [handles EXCEPT ![c][n] = k],
           store' = store, wal' = wal,
           k.ino = handles[c][n].ino, k.ino # NoInode,
           Sound(k, store[k.ino]), NoClash(c, n, k.lock)
    PROVE  LockInv'
  <1> USE DEF Inv
  <1>1. \A d \in Conns, m \in Names :
           handles'[d][m] = IF d = c /\ m = n THEN k ELSE handles[d][m]
    BY HandlesUpdated
  <1>2. \A d \in Conns, m \in Names : Sound(handles'[d][m], store'[handles'[d][m].ino])
    BY <1>1, LockParts
  <1>3. ASSUME NEW a \in Conns, NEW b \in Conns, NEW x \in Names, NEW y \in Names,
               handles'[a][x].ino # NoInode, handles'[a][x].ino = handles'[b][y].ino,
               a # b \/ x # y
        PROVE  Apart(handles'[a][x].lock, handles'[b][y].lock)
    <2>1. CASE a = c /\ x = n
      BY <1>1, <1>3, <2>1 DEF NoClash
    <2>2. CASE b = c /\ y = n
      <3>1. Apart(k.lock, handles[a][x].lock)
        BY <1>1, <1>3, <2>2 DEF NoClash
      <3> QED
        BY <1>1, <1>3, <2>2, <3>1 DEF Apart
    <2>3. CASE ~(a = c /\ x = n) /\ ~(b = c /\ y = n)
      BY <1>1, <1>3, <2>3, LockParts
    <2> QED
      BY <2>1, <2>2, <2>3
  <1> QED
    BY <1>2, <1>3, LockWhole

\* What a granted lock means for the other handles on the file.
LEMMA GrantApart ==
    ASSUME Inv, NEW c \in Conns, AcquireLock(c),
           NEW d \in Conns, NEW m \in Names, d # c \/ m # req[c].db,
           handles[d][m].ino = HandleOf(c).ino
    PROVE  Apart(NextLock(c), handles[d][m].lock)
  <1> DEFINE h == HandleOf(c)
             n == req[c].db
             l == handles[d][m].lock
  <1> USE DEF Inv
  <1>1. n \in Names /\ h \in HandleType /\ h.ino # NoInode /\ h.lock \in NONE .. EXCLUSIVE
    BY RequestTyped DEF AcquireLock, Running, RequestInv, HandleType
  <1>2. l \in OtherLocks(c) /\ l \in NONE .. EXCLUSIVE
    <2>1. <<d, m>> \in {x \in Conns \X Names : /\ x # <<c, n>>
                                              /\ handles[x[1]][x[2]].ino = h.ino}
      OBVIOUS
    <2>2. l \in OtherLocks(c)
      BY <2>1 DEF OtherLocks
    <2> QED
      BY <2>2 DEF TypeOK, HandleType
  <1>3. Apart(h.lock, l)
    BY <1>1, LockParts DEF HandleOf
  <1>4. /\ Wanted(c) \in NONE .. EXCLUSIVE
        /\ NextLock(c) = SHARED \/ NextLock(c) = RESERVED \/ NextLock(c) = PENDING
           \/ NextLock(c) = EXCLUSIVE
        /\ NextLock(c) = h.lock + 1 \/ (h.lock = NONE /\ NextLock(c) = RESERVED)
    BY <1>1, RequestTyped DEF AcquireLock, NextLock, NONE, SHARED, RESERVED, PENDING, EXCLUSIVE
  <1>5. CASE NextLock(c) = SHARED
    <2>1. wal \/ l < PENDING
      BY <1>2, <1>5 DEF AcquireLock, Grantable, SHARED, RESERVED, PENDING, EXCLUSIVE
    <2>2. wal => l <= RESERVED
      BY DEF HandleInv
    <2> QED
      BY <1>2, <1>5, <2>1, <2>2 DEF Apart, NONE, SHARED, RESERVED, PENDING, EXCLUSIVE
  <1>6. CASE NextLock(c) = RESERVED
    <2>1. l < RESERVED
      BY <1>2, <1>6 DEF AcquireLock, Grantable, SHARED, RESERVED, PENDING, EXCLUSIVE
    <2> QED
      BY <1>2, <1>6, <2>1 DEF Apart, NONE, SHARED, RESERVED, PENDING, EXCLUSIVE
  <1>7. CASE NextLock(c) = PENDING
    <2>1. h.lock = RESERVED
      BY <1>1, <1>4, <1>7 DEF NONE, SHARED, RESERVED, PENDING, EXCLUSIVE
    <2> QED
      BY <1>2, <1>3, <1>7, <2>1 DEF Apart, NONE, SHARED, RESERVED, PENDING, EXCLUSIVE
  <1>8. CASE NextLock(c) = EXCLUSIVE
    <2>1. l = NONE
      BY <1>2, <1>8 DEF AcquireLock, Grantable, SHARED, RESERVED, PENDING, EXCLUSIVE
    <2> QED
      BY <1>8, <2>1 DEF Apart, NONE, SHARED, RESERVED, PENDING, EXCLUSIVE
  <1> QED
    BY <1>4, <1>5, <1>6, <1>7, <1>8

\* A lock is taken with the current contents of the file, or keeps them.
LEMMA AcquireSound ==
    ASSUME Inv, NEW c \in Conns, AcquireLock(c),
           NEW k \in HandleType, k.ino = HandleOf(c).ino, k.dirty = HandleOf(c).dirty,
           k.lock = NextLock(c),
           k.snap = IF HandleOf(c).lock = NONE THEN store[HandleOf(c).ino] ELSE HandleOf(c).snap
    PROVE  Sound(k, store[k.ino])
  <1> DEFINE h == HandleOf(c)
             s == store[h.ino]
  <1> USE DEF Inv
  <1>1. req[c].db \in Names /\ h \in HandleType /\ h.lock \in NONE .. EXCLUSIVE /\ wal \in BOOLEAN
    BY RequestTyped, HandlerAssumption DEF AcquireLock, Running, HandleType, TypeOK
  <1>2. Sound(h, s)
    BY <1>1, LockParts DEF HandleOf
  <1>3. NextLock(c) = h.lock + 1 \/ (h.lock = NONE /\ NextLock(c) = RESERVED)
    BY DEF NextLock
  <1>4. CASE h.lock = NONE
    BY <1>1, <1>2, <1>3, <1>4 DEF Sound, NONE, SHARED, RESERVED
  <1>5. CASE h.lock = SHARED
    <2>1. NextLock(c) = RESERVED
      BY <1>3, <1>5 DEF NONE, SHARED, RESERVED
    <2>2. wal => h.snap = s
      BY <1>5, <2>1 DEF AcquireLock, Grantable, SHARED, RESERVED, PENDING, EXCLUSIVE
    <2>3. h.snap = s
      BY <1>1, <1>2, <1>5, <2>2 DEF Sound, SHARED
    <2> QED
      BY <1>1, <1>5, <2>1, <2>3 DEF Sound, NONE, SHARED, RESERVED
  <1>6. CASE h.lock \notin {NONE, SHARED}
    BY <1>1, <1>2, <1>3, <1>6 DEF Sound, NONE, SHARED, RESERVED, EXCLUSIVE
  <1> QED
    BY <1>4, <1>5, <1>6

\* Whatever connections do, each file has one writer with the latest contents,
\* and readers that nothing is committed under.
LEMMA LockStep == Inv /\ [Next]_vars => LockInv'
  <1> SUFFICES ASSUME Inv, [Next]_vars PROVE LockInv'
    OBVIOUS
  <1> USE DEF Inv
  <1>0. /\ \A c \in Conns, n \in Names : handles[c][n] \in HandleType
        /\ \A c \in Conns, n \in Names : handles[c][n].lock \in NONE .. EXCLUSIVE
    BY DEF TypeOK, HandleType
  <1>a. ASSUME UNCHANGED <<wal, store>>,
               \A d \in Conns, m \in Names : handles'[d][m] \in {handles[d][m], NoHandle}
        PROVE  LockInv'
    <2>1. \A d \in Conns, m \in Names : Sound(handles'[d][m], store'[handles'[d][m].ino])
      BY <1>a, LockParts, NoLock
    <2>2. \A a, b \in Conns, x, y \in Names :
             /\ handles'[a][x].ino # NoInode /\ handles'[a][x].ino = handles'[b][y].ino
             /\ a # b \/ x # y
             => Apart(handles'[a][x].lock, handles'[b][y].lock)
      BY <1>a, LockParts, NoHandleTyped
    <2> QED
      BY <1>a, <2>1, <2>2, LockWhole
  <1>1. ASSUME NEW c \in Conns, Client(c) \/ AnswerAtOnce(c) \/ OpenFails(c) PROVE LockInv'
    BY <1>1, <1>a, ClientFrame
  <1>2. ASSUME NEW c \in Conns, Release(c) PROVE LockInv'
    BY <1>2, <1>a, ReleaseFrame
  <1>3. CASE EndOfProcess
    BY <1>3, <1>a, ReleaseFrame
  <1>4. ASSUME NEW c \in Conns, DeleteDb(c) PROVE LockInv'
    BY <1>4, <1>a, DeleteDbFrame
  <1>5. ASSUME NEW c \in Conns, Query(c) PROVE LockInv'
    <2>1. UNCHANGED <<wal, store>> /\ req[c].db \in Names
      BY <1>5, QueryFrame
    <2>2. CASE handles' = handles
      BY <2>1, <2>2, <1>a
    <2>3. ASSUME NEW i \in Inodes, Opens(c, i) PROVE LockInv'
      <3> DEFINE k == [NoHandle EXCEPT !.ino = i]
      <3>1. k \in HandleType /\ k.ino = i /\ k.lock = NONE /\ k.dirty = {}
        BY NoHandleTyped
      <3> HIDE DEF k
      <3>2. \A d \in Conns, m \in Names :
               handles'[d][m] = IF d = c /\ m = req[c].db THEN k ELSE handles[d][m]
        BY <2>3 DEF Opens, k
      <3>3. \A d \in Conns, m \in Names : Sound(handles'[d][m], store'[handles'[d][m].ino])
        BY <2>1, <3>1, <3>2, LockParts, NoLock
      <3>4. ASSUME NEW a \in Conns, NEW b \in Conns, NEW x \in Names, NEW y \in Names,
                   handles'[a][x].ino # NoInode, handles'[a][x].ino = handles'[b][y].ino,
                   a # b \/ x # y
            PROVE  Apart(handles'[a][x].lock, handles'[b][y].lock)
        <4>1. CASE handles'[a][x] = handles[a][x] /\ handles'[b][y] = handles[b][y]
          BY <3>4, <4>1, LockParts
        <4>2. CASE handles'[a][x] = k
          <5>1. handles'[b][y].lock \in NONE .. EXCLUSIVE
            BY <1>0, <3>1, <3>2 DEF NONE, EXCLUSIVE
          <5> QED
            BY <3>1, <4>2, <5>1, NoLock
        <4>3. CASE handles'[b][y] = k
          <5>1. handles'[a][x].lock \in NONE .. EXCLUSIVE
            BY <1>0, <3>1, <3>2 DEF NONE, EXCLUSIVE
          <5> QED
            BY <3>1, <4>3, <5>1, NoLock
        <4> QED
          BY <3>2, <4>1, <4>2, <4>3
      <3> QED
        BY <2>1, <3>3, <3>4, LockWhole
    <2> QED
      BY <1>5, <2>2, <2>3, QueryFrame
  <1>6. ASSUME NEW c \in Conns, Run(c) PROVE LockInv'
    <2> DEFINE h == HandleOf(c)
               n == req[c].db
    <2>0. /\ pc[c] \in Running /\ n \in Names /\ h \in HandleType /\ h.ino \in Inodes /\ h.ino # NoInode
          /\ h = handles[c][n] /\ h.lock \in NONE .. EXCLUSIVE /\ wal' = wal
      BY <1>6, <1>0, RunFrame, Counts DEF HandleOf
    <2>1. Sound(h, store[h.ino])
      BY <2>0, LockParts
    <2>2. NoClash(c, n, h.lock)
      BY <2>0, LockParts DEF NoClash
    <2>3. ASSUME NEW k \in HandleType, SetHandle(c, k), store' = store, k.ino = h.ino,
                 Sound(k, store[k.ino]), k.lock = h.lock \/ k.lock = NONE
          PROVE  LockInv'
      <3>1. NoClash(c, n, k.lock)
        BY <1>0, <2>2, <2>3, NoLock DEF NoClash
      <3> QED
        BY <2>0, <2>3, <3>1, LockMove DEF SetHandle
    <2>4. CASE Prepare(c) \/ PrepareFails(c)
      <3> DEFINE k == [h EXCEPT !.schema = @ \/ ReadsSchema(c)]
      <3>1. /\ k \in HandleType /\ k.ino = h.ino /\ k.lock = h.lock
            /\ k.dirty = h.dirty /\ k.snap = h.snap
        BY <2>0 DEF HandleType
      <3>2. Sound(k, store[k.ino])
        BY <2>1, <3>1 DEF Sound
      <3>3. SetHandle(c, k) /\ store' = store
        BY <2>4 DEF Prepare, PrepareFails, fsVars
      <3> HIDE DEF k
      <3> QED
        BY <2>3, <3>1, <3>2, <3>3
    <2>5. CASE AcquireLock(c)
      <3> DEFINE s == IF h.lock = NONE THEN store[h.ino] ELSE h.snap
                 k == [h EXCEPT !.lock = NextLock(c), !.snap = s]
      <3>1. NextLock(c) \in NONE .. EXCLUSIVE
        BY <2>0, <2>5, RequestTyped DEF AcquireLock, NextLock, NONE, SHARED, RESERVED, EXCLUSIVE
      <3>2. s \in SUBSET Records
        BY <2>0 DEF TypeOK, HandleType
      <3>3. k \in HandleType
        BY <2>0, <3>1, <3>2, LockedTyped
      <3>4. k.ino = h.ino /\ k.lock = NextLock(c) /\ k.snap = s /\ k.dirty = h.dirty
        BY <2>0 DEF HandleType
      <3>5. handles' = [handles EXCEPT ![c][n] = k] /\ store' = store
        BY <2>5 DEF AcquireLock, SetHandle, fsVars
      <3> HIDE DEF k
      <3>6. Sound(k, store[k.ino])
        BY <2>5, <3>3, <3>4, AcquireSound
      <3>7. NoClash(c, n, k.lock)
        BY <2>0, <2>5, <3>4, GrantApart DEF NoClash
      <3> QED
        BY <2>0, <3>3, <3>4, <3>5, <3>6, <3>7, LockMove
    <2>6. CASE Busy(c) \/ Select(c) \/ WriteFails(c) \/ Rollback(c) \/ CommitEmpty(c)
      <3>1. SetHandle(c, Unlocked(h)) \/ SetHandle(c, h)
        BY <2>6 DEF Busy, Select, WriteFails, Rollback, CommitEmpty, EndStatement
      <3>2. store' = store
        BY <2>6 DEF Busy, Select, WriteFails, Rollback, CommitEmpty, fsVars
      <3>3. Sound(Unlocked(h), store[h.ino])
        BY <2>0, EndTyped, NoLock
      <3> QED
        BY <2>0, <2>1, <2>3, <3>1, <3>2, <3>3, EndTyped
    <2>7. CASE Begin(c)
      <3> DEFINE k == [h EXCEPT !.txn = TRUE]
      <3>1. /\ k \in HandleType /\ k.ino = h.ino /\ k.lock = h.lock
            /\ k.dirty = h.dirty /\ k.snap = h.snap
        BY <2>0 DEF HandleType
      <3>2. Sound(k, store[k.ino])
        BY <2>1, <3>1 DEF Sound
      <3>3. SetHandle(c, k) /\ store' = store
        BY <2>7 DEF Begin, fsVars
      <3> HIDE DEF k
      <3> QED
        BY <2>3, <3>1, <3>2, <3>3
    <2>8. CASE CommitStarts(c)
      BY <2>0, <2>8, <1>a DEF CommitStarts, fsVars
    <2>9. CASE Write(c)
      <3> DEFINE k == [h EXCEPT !.dirty = @ \union {record[c]}]
      <3>1. record[c] \in Records
        BY <2>9 DEF Write, RequestInv, Writes, TypeOK
      <3>2. k \in HandleType /\ k.ino = h.ino /\ k.lock = h.lock /\ k.snap = h.snap
        BY <2>0, <3>1 DEF HandleType
      <3>3. h.lock >= RESERVED
        <4>1. wal \in BOOLEAN
          BY HandlerAssumption DEF TypeOK
        <4> QED
          BY <2>0, <2>9, <4>1 DEF Write, Granted, Wanted, CommitLock, NONE, SHARED, RESERVED, EXCLUSIVE
      <3>4. Sound(k, store[k.ino])
        BY <2>1, <3>2, <3>3 DEF Sound
      <3>5. SetHandle(c, k) /\ store' = store
        BY <2>9 DEF Write, fsVars
      <3> HIDE DEF k
      <3> QED
        BY <2>3, <3>2, <3>4, <3>5
    <2>10. CASE Commit(c)
      <3>1. /\ store' = [store EXCEPT ![h.ino] = h.snap \union h.dirty]
            /\ handles' = [handles EXCEPT ![c][n] = Unlocked(h)]
        BY <2>10 DEF Commit, SetHandle
      <3>2. \A d \in Conns, m \in Names :
               handles'[d][m] = IF d = c /\ m = n THEN Unlocked(h) ELSE handles[d][m]
        BY <2>0, <3>1, EndTyped, HandlesUpdated
      <3>3. h.lock >= RESERVED /\ h.snap = store[h.ino] /\ (~wal => h.lock = EXCLUSIVE)
        <4>1. wal \in BOOLEAN
          BY HandlerAssumption DEF TypeOK
        <4>2. h.lock >= RESERVED /\ (~wal => h.lock = EXCLUSIVE)
          BY <2>0, <2>10, <4>1 DEF Commit, Granted, Wanted, CommitLock, NONE, SHARED, RESERVED, EXCLUSIVE
        <4> QED
          BY <2>1, <4>2 DEF Sound
      <3>4. ASSUME NEW d \in Conns, NEW m \in Names
            PROVE  Sound(handles'[d][m], store'[handles'[d][m].ino])
        <4>1. CASE d = c /\ m = n
          BY <2>0, <3>2, <4>1, EndTyped, NoLock
        <4>2. CASE ~(d = c /\ m = n) /\ handles[d][m].ino = h.ino
          <5>1. handles'[d][m] = handles[d][m] /\ store'[h.ino] = store[h.ino] \union h.dirty
            BY <2>0, <3>1, <3>2, <3>3, <4>2 DEF TypeOK
          <5>2. /\ handles[d][m].lock < RESERVED
                /\ ~wal => handles[d][m].lock = NONE
            BY <2>0, <2>2, <3>3, <4>2 DEF Apart, NoClash
          <5>3. Sound(handles[d][m], store[h.ino])
            BY <4>2, LockParts
          <5> QED
            BY <1>0, <4>2, <5>1, <5>2, <5>3 DEF Sound, NONE, SHARED, RESERVED, EXCLUSIVE
        <4>3. CASE ~(d = c /\ m = n) /\ handles[d][m].ino # h.ino
          <5>1. handles'[d][m] = handles[d][m]
            BY <3>2, <4>3
          <5>2. CASE handles[d][m].ino \in Inodes
            BY <3>1, <4>3, <5>1, <5>2, LockParts DEF TypeOK
          <5>3. CASE handles[d][m].ino = NoInode
            BY <5>1, <5>3, NoLock DEF HandleInv
          <5> QED
            BY <5>2, <5>3 DEF TypeOK, HandleType
        <4> QED
          BY <4>1, <4>2, <4>3
      <3>5. ASSUME NEW a \in Conns, NEW b \in Conns, NEW x \in Names, NEW y \in Names,
                   handles'[a][x].ino # NoInode, handles'[a][x].ino = handles'[b][y].ino,
                   a # b \/ x # y
            PROVE  Apart(handles'[a][x].lock, handles'[b][y].lock)
        <4>1. CASE a = c /\ x = n
          BY <1>0, <2>0, <3>2, <3>5, <4>1, EndTyped, NoLock
        <4>2. CASE b = c /\ y = n
          BY <1>0, <2>0, <3>2, <3>5, <4>2, EndTyped, NoLock
        <4>3. CASE ~(a = c /\ x = n) /\ ~(b = c /\ y = n)
          BY <3>2, <3>5, <4>3, LockParts
        <4> QED
          BY <4>1, <4>2, <4>3
      <3> QED
        BY <2>0, <3>4, <3>5, LockWhole
    <2> QED
      BY <1>6, <2>4, <2>5, <2>6, <2>7, <2>8, <2>9, <2>10 DEF Run
  <1>7. CASE UNCHANGED vars
    BY <1>7, <1>a DEF vars, fsVars
  <1> QED
    BY <1>1, <1>2, <1>3, <1>4, <1>5, <1>6, <1>7 DEF Next, Start, Terminate, SelectThrows
-----------------------------------------------------------------------------
(* Handles and records. *)

\* What HandleInv says of one handle of connection d.
HandleOk(d, n, h) ==
    /\ h.ino = NoInode => h = NoHandle
    /\ wal => h.lock <= RESERVED
    /\ ~h.txn /\ h.dirty # {} => pc[d] = "commit" /\ req[d].db = n

\* A handle that is closed has nothing, and changes outside a transaction are
\* committed, or undone, before the statement is answered.
LEMMA HandleStep == Inv /\ [Next]_vars => HandleInv'
  <1> SUFFICES ASSUME Inv, [Next]_vars, NEW d \in Conns, NEW m \in Names
               PROVE  HandleOk(d, m, handles[d][m])'
    BY DEF HandleInv, HandleOk
  <1> USE DEF Inv
  <1> DEFINE Goal == HandleOk(d, m, handles[d][m])'
  <1>0. HandleOk(d, m, handles[d][m])
    BY DEF HandleInv, HandleOk
  <1>a. ASSUME handles'[d][m] = NoHandle PROVE Goal
    BY <1>a DEF HandleOk, NoHandle, NONE, RESERVED
  <1>b. ASSUME handles'[d][m] = handles[d][m], wal' = wal,
               pc[d] = "commit" => pc'[d] = "commit" /\ req'[d] = req[d]
        PROVE  Goal
    BY <1>0, <1>b DEF HandleOk
  <1>1. ASSUME NEW c \in Conns, Client(c) \/ AnswerAtOnce(c) \/ OpenFails(c) PROVE Goal
    <2>1. pc[d] = "commit" => pc'[d] = "commit" /\ req'[d] = req[d]
      BY <1>1 DEF Client, Accept, PeerCloses, ReadFails, Send, AnswerAtOnce, OpenFails, Starts,
                  Answer, TypeOK, reqVars
    <2> QED
      BY <1>1, <2>1, <1>b, ClientFrame
  <1>2. ASSUME NEW c \in Conns, Release(c) PROVE Goal
    BY <1>2, <1>a, <1>b, ReleaseFrame
  <1>3. CASE EndOfProcess
    BY <1>3, <1>a, ReleaseFrame
  <1>4. ASSUME NEW c \in Conns, DeleteDb(c) PROVE Goal
    <2>1. wal' = wal /\ (pc[d] = "commit" => pc'[d] = "commit" /\ req'[d] = req[d])
      BY <1>4, DeleteDbFrame, AnswerFrame
    <2>2. handles'[d][m] = handles[d][m] \/ handles'[d][m] = NoHandle
      BY <1>4, DeleteDbFrame
    <2> QED
      BY <2>1, <2>2, <1>a, <1>b
  <1>5. ASSUME NEW c \in Conns, Query(c) PROVE Goal
    <2>1. wal' = wal /\ (pc[d] = "commit" => pc'[d] = "commit" /\ req'[d] = req[d])
      BY <1>5, QueryFrame
    <2>2. CASE handles'[d][m] = handles[d][m]
      BY <2>1, <2>2, <1>b
    <2>3. ASSUME NEW i \in Inodes, handles'[d][m] = [NoHandle EXCEPT !.ino = i] PROVE Goal
      BY <2>3, NoHandleTyped, Counts DEF HandleOk, NONE, RESERVED
    <2>4. ASSUME NEW i \in Inodes, Opens(c, i) PROVE Goal
      BY <2>2, <2>3, <2>4 DEF Opens
    <2> QED
      BY <1>5, <2>2, <2>4, QueryFrame
  <1>6. ASSUME NEW c \in Conns, Run(c) PROVE Goal
    <2> DEFINE h == HandleOf(c)
               n == req[c].db
    <2>0. /\ pc[c] \in Running /\ n \in Names /\ h \in HandleType /\ h.ino # NoInode
          /\ h = handles[c][n] /\ h.lock \in NONE .. EXCLUSIVE /\ wal' = wal
          /\ wal => h.lock <= RESERVED
          /\ handles'[c][n].ino = h.ino
      BY <1>6, RunFrame, Counts DEF HandleOf, HandleType, HandleInv
    <2>1. CASE d # c
      BY <1>6, <2>1, <1>b, RunFrame
    <2>2. CASE d = c /\ m # n
      <3>1. handles'[d][m] = handles[d][m]
        BY <1>6, <2>2, RunFrame
      <3> QED
        BY <1>0, <2>0, <2>2, <3>1 DEF HandleOk
    <2>3. CASE d = c /\ m = n
      <3>0. ASSUME NEW k, SetHandle(c, k) PROVE handles'[d][m] = k
        BY <2>0, <2>3, <3>0 DEF SetHandle, TypeOK
      <3>1. CASE Prepare(c) \/ PrepareFails(c)
        <4> DEFINE k == [h EXCEPT !.schema = @ \/ ReadsSchema(c)]
        <4>1. k.ino = h.ino /\ k.lock = h.lock /\ k.dirty = h.dirty /\ k.txn = h.txn
          BY <2>0 DEF HandleType
        <4>2. pc[c] = "prepare" /\ handles'[d][m] = k
          BY <3>0, <3>1 DEF Prepare, PrepareFails, CanPrepare
        <4> HIDE DEF k
        <4> QED
          BY <1>0, <2>0, <2>3, <4>1, <4>2 DEF HandleOk
      <3>2. CASE AcquireLock(c)
        <4> DEFINE s == IF h.lock = NONE THEN store[h.ino] ELSE h.snap
                   k == [h EXCEPT !.lock = NextLock(c), !.snap = s]
        <4>1. k.ino = h.ino /\ k.lock = NextLock(c) /\ k.dirty = h.dirty /\ k.txn = h.txn
          BY <2>0 DEF HandleType
        <4>2. pc' = pc /\ req' = req /\ handles'[d][m] = k
          BY <3>0, <3>2 DEF AcquireLock, reqVars
        <4>3. wal => NextLock(c) <= RESERVED
          BY <2>0, <3>2, RequestTyped
             DEF AcquireLock, NextLock, NONE, SHARED, RESERVED, EXCLUSIVE
        <4> HIDE DEF k
        <4> QED
          BY <1>0, <2>0, <2>3, <4>1, <4>2, <4>3 DEF HandleOk
      <3>3. CASE Busy(c) \/ Select(c) \/ WriteFails(c) \/ Rollback(c) \/ CommitEmpty(c) \/ Commit(c)
        <4>1. handles'[d][m] = Unlocked(h) \/ (handles'[d][m] = h /\ h.txn)
          BY <3>0, <3>3 DEF Busy, Select, WriteFails, Rollback, CommitEmpty, Commit, EndStatement
        <4>2. CASE handles'[d][m] = Unlocked(h)
          BY <2>0, <4>2, EndTyped DEF HandleOk, NONE, RESERVED
        <4>3. CASE handles'[d][m] = h /\ h.txn
          BY <2>0, <4>3 DEF HandleOk
        <4> QED
          BY <4>1, <4>2, <4>3
      <3>4. CASE Begin(c)
        <4> DEFINE k == [h EXCEPT !.txn = TRUE]
        <4>1. k.ino = h.ino /\ k.lock = h.lock /\ k.txn
          BY <2>0 DEF HandleType
        <4>2. handles'[d][m] = k
          BY <3>0, <3>4 DEF Begin
        <4> HIDE DEF k
        <4> QED
          BY <2>0, <4>1, <4>2 DEF HandleOk
      <3>5. CASE CommitStarts(c)
        BY <1>0, <2>0, <2>3, <3>5 DEF CommitStarts, HandleOk, TypeOK
      <3>6. CASE Write(c)
        <4> DEFINE k == [h EXCEPT !.dirty = @ \union {record[c]}]
        <4>1. k.ino = h.ino /\ k.lock = h.lock /\ k.txn = h.txn
          BY <2>0 DEF HandleType
        <4>2. handles'[d][m] = k
          BY <3>0, <3>6 DEF Write
        <4>3. ~h.txn => pc'[c] = "commit" /\ req'[c] = req[c]
          BY <3>6 DEF Write, TypeOK
        <4> HIDE DEF k
        <4> QED
          BY <2>0, <2>3, <4>1, <4>2, <4>3 DEF HandleOk
      <3> QED
        BY <1>6, <3>1, <3>2, <3>3, <3>4, <3>5, <3>6 DEF Run
    <2> QED
      BY <2>1, <2>2, <2>3
  <1>7. CASE UNCHANGED vars
    BY <1>7, <1>b DEF vars, reqVars, fsVars
  <1> QED
    BY <1>1, <1>2, <1>3, <1>4, <1>5, <1>6, <1>7 DEF Next, Start, Terminate, SelectThrows

\* The record r was in a transaction that ends in this step, or was to be
\* written by a statement that does.
Gone(r) ==
    \/ \E d \in Conns, m \in Names : r \in handles[d][m].dirty /\ handles'[d][m].dirty = {}
    \/ \E d \in Conns : r = record[d] /\ r # 0 /\ pc[d] # "commit" /\ record'[d] = 0

\* A step that writes nothing: transactions and statements end, or go on.
OnlyEnds ==
    /\ UNCHANGED <<store, acked, sent>>
    /\ \A d \in Conns, m \in Names : handles'[d][m].dirty \in {handles[d][m].dirty, {}}
    /\ \A d \in Conns : \/ record'[d] = 0
                        \/ /\ record'[d] = record[d]
                           /\ pc[d] = "commit" => pc'[d] = "commit"
    /\ aborted \subseteq aborted'
    /\ \A r \in aborted' : r \in aborted \/ Gone(r)

\* A record that has been refused or rolled back was nowhere else.
LEMMA RecordEnds ==
    ASSUME Inv, OnlyEnds
    PROVE  RecordInv'
  <1> USE DEF Inv
  <1>0. /\ \A d \in Conns : record[d] \in Nat
        /\ sent \in Nat /\ Records \subseteq Nat
        /\ \A a \in acked : a[1] \in Records /\ a[2] \in Inodes
    BY HandlerAssumption DEF TypeOK, Records
  <1>1. \A r : Unused(r) /\ ~Gone(r) => Unused(r)'
    BY DEF Unused, OnlyEnds
  <1>2. \A r \in Records : r > sent' => Unused(r)'
    <2> SUFFICES ASSUME NEW r \in Records, r > sent PROVE Unused(r)'
      BY DEF OnlyEnds
    <2>1. Unused(r)
      BY DEF RecordInv
    <2>2. ~Gone(r)
      BY <1>0, <2>1 DEF RecordInv, Gone, Unused
    <2> QED
      BY <1>1, <2>1, <2>2
  <1>3. ASSUME NEW d \in Conns
        PROVE  record'[d] <= sent' /\ (record'[d] # 0 /\ pc'[d] # "commit" => Unused(record[d])')
    <2>1. CASE record'[d] = 0
      BY <1>0, <2>1 DEF OnlyEnds
    <2>2. CASE record'[d] # 0
      <3>1. record'[d] = record[d] /\ (pc[d] = "commit" => pc'[d] = "commit")
        BY <2>2 DEF OnlyEnds
      <3>2. ASSUME pc'[d] # "commit" PROVE Unused(record[d])'
        <4>1. Unused(record[d])
          BY <2>2, <3>1, <3>2 DEF RecordInv
        <4>2. ~Gone(record[d])
          BY <2>2, <3>1, <4>1 DEF RecordInv, Gone, Unused
        <4> QED
          BY <1>1, <3>1, <4>1, <4>2 DEF Unused
      <3> QED
        BY <3>1, <3>2 DEF RecordInv, OnlyEnds, Unused
    <2> QED
      BY <2>1, <2>2
  <1>4. \A c, d \in Conns : record'[c] # 0 /\ record'[c] = record'[d] => c = d
    BY DEF RecordInv, OnlyEnds
  <1>5. \A c, d \in Conns, m, n \in Names :
           <<c, m>> # <<d, n>> => handles'[c][m].dirty \intersect handles'[d][n].dirty = {}
    BY DEF RecordInv, OnlyEnds
  <1>6. ASSUME NEW c \in Conns, NEW n \in Names
        PROVE  /\ handles'[c][n].dirty \intersect aborted' = {}
               /\ \A i \in Inodes : handles'[c][n].dirty \intersect store'[i] = {}
    <2>1. ASSUME NEW r, r \in handles'[c][n].dirty, r \in aborted' PROVE FALSE
      <3>1. handles'[c][n].dirty = handles[c][n].dirty /\ r \in handles[c][n].dirty
        BY <2>1 DEF OnlyEnds
      <3>2. Gone(r)
        BY <2>1, <3>1 DEF OnlyEnds, RecordInv
      <3>3. ASSUME NEW d \in Conns, NEW m \in Names,
                   r \in handles[d][m].dirty, handles'[d][m].dirty = {}
            PROVE  FALSE
        <4>1. <<c, n>> # <<d, m>>
          BY <2>1, <3>3
        <4> QED
          BY <3>1, <3>3, <4>1 DEF RecordInv
      <3>4. ASSUME NEW d \in Conns, r = record[d], r # 0, pc[d] # "commit" PROVE FALSE
        BY <3>1, <3>4 DEF RecordInv, Unused
      <3> QED
        BY <3>2, <3>3, <3>4 DEF Gone
    <2> QED
      BY <2>1 DEF RecordInv, OnlyEnds
  <1>7. AckedStored'
    BY DEF AckedStored, RecordInv, OnlyEnds
  <1>8. AbortedNotStored'
    <2>1. ASSUME NEW r \in aborted', NEW i \in Inodes PROVE r \notin store'[i]
      <3>1. CASE r \in aborted
        BY <3>1 DEF RecordInv, AbortedNotStored, OnlyEnds
      <3>2. CASE Gone(r)
        BY <3>2 DEF RecordInv, Gone, Unused, OnlyEnds
      <3> QED
        BY <3>1, <3>2 DEF OnlyEnds
    <2>2. ASSUME NEW r \in aborted', NEW a \in acked' PROVE a[1] # r
      <3>1. a \in acked /\ a[1] \in store'[a[2]] /\ a[2] \in Inodes
        BY <1>0, <1>7, <2>2 DEF AckedStored, OnlyEnds
      <3> QED
        BY <2>1, <3>1
    <2> QED
      BY <2>1, <2>2 DEF AbortedNotStored
  <1> QED
    BY <1>2, <1>3, <1>4, <1>5, <1>6, <1>7, <1>8 DEF RecordInv, Unused

\* The steps that end statements and transactions, or write nothing at all.
LEMMA EndSteps ==
    ASSUME Inv, [Next]_vars,
           ~\E c \in Conns : (\E r \in Requests : Send(c, r)) \/ Write(c) \/ Commit(c)
    PROVE  OnlyEnds
  <1> USE DEF Inv
  <1>a. ASSUME UNCHANGED <<handles, store, acked, aborted, sent>>,
               \A d \in Conns : \/ record'[d] = 0
                                \/ record'[d] = record[d] /\ (pc[d] = "commit" => pc'[d] = "commit")
        PROVE  OnlyEnds
    BY <1>a DEF OnlyEnds
  <1>1. ASSUME NEW c \in Conns, Client(c) \/ AnswerAtOnce(c) PROVE OnlyEnds
    <2>1. CASE Accept(c) \/ PeerCloses(c) \/ ReadFails(c)
      BY <2>1, <1>a DEF Accept, PeerCloses, ReadFails, TypeOK, reqVars, fsVars, sentVars
    <2>2. CASE AnswerAtOnce(c)
      BY <2>2, <1>a DEF AnswerAtOnce, Answer, TypeOK, fsVars, sentVars
    <2> QED
      BY <1>1, <2>1, <2>2 DEF Client
  <1>2. ASSUME NEW c \in Conns, Release(c) PROVE OnlyEnds
    <2>1. /\ aborted' = aborted \union Unfinished(c)
          /\ UNCHANGED <<pc, record, store, acked, sent>>
          /\ \A n \in Names : handles'[c][n] = NoHandle
          /\ \A d \in Conns \ {c}, n \in Names : handles'[d][n] = handles[d][n]
      BY <1>2, ReleaseFrame DEF Release
    <2>2. ASSUME NEW r \in Unfinished(c) PROVE Gone(r)
      <3>1. PICK n \in Names : r \in handles[c][n].dirty
        BY DEF Unfinished
      <3> QED
        BY <2>1, <3>1, NoHandleTyped DEF Gone
    <2> QED
      BY <2>1, <2>2, NoHandleTyped DEF OnlyEnds
  <1>3. CASE EndOfProcess
    <2>1. /\ aborted' = aborted \union UNION {Unfinished(d) : d \in Conns}
          /\ UNCHANGED <<store, acked, sent>>
          /\ \A d \in Conns : record'[d] = 0
          /\ \A d \in Conns, n \in Names : handles'[d][n] = NoHandle
      BY <1>3, ReleaseFrame DEF EndOfProcess
    <2>2. ASSUME NEW d \in Conns, NEW r \in Unfinished(d) PROVE Gone(r)
      <3>1. PICK n \in Names : r \in handles[d][n].dirty
        BY DEF Unfinished
      <3> QED
        BY <2>1, <3>1, NoHandleTyped DEF Gone
    <2> QED
      BY <2>1, <2>2, NoHandleTyped DEF OnlyEnds
  <1>4. ASSUME NEW c \in Conns, DeleteDb(c) PROVE OnlyEnds
    <2>1. /\ UNCHANGED <<store, acked, sent>>
          /\ \A d \in Conns : record'[d] = 0 \/ (record'[d] = record[d] /\ pc'[d] = pc[d])
      BY <1>4, DeleteDbFrame, AnswerFrame
    <2>2. CASE UNCHANGED <<handles, aborted>>
      BY <2>1, <2>2, <1>a
    <2>3. CASE ~UNCHANGED <<handles, aborted>>
      <3>1. /\ req[c].db \in Names
            /\ \A d \in Conns, m \in Names :
                  handles'[d][m] = IF d = c /\ m = req[c].db THEN NoHandle ELSE handles[d][m]
            /\ aborted' = aborted \union handles[c][req[c].db].dirty
        BY <1>4, <2>3, DeleteDbFrame
      <3>2. \A r \in handles[c][req[c].db].dirty : Gone(r)
        BY <3>1, NoHandleTyped DEF Gone
      <3> QED
        BY <2>1, <3>1, <3>2, NoHandleTyped DEF OnlyEnds
    <2> QED
      BY <2>2, <2>3
  <1>5. ASSUME NEW c \in Conns, Query(c) PROVE OnlyEnds
    <2>1. /\ UNCHANGED <<store, acked, sent, aborted, record>>
          /\ \A d \in Conns : pc[d] = "commit" => pc'[d] = "commit"
      BY <1>5, QueryFrame
    <2>2. CASE handles' = handles
      BY <2>1, <2>2, <1>a
    <2>3. ASSUME NEW i \in Inodes, Opens(c, i) PROVE OnlyEnds
      <3>1. [NoHandle EXCEPT !.ino = i].dirty = {}
        BY NoHandleTyped
      <3>2. ASSUME NEW d \in Conns, NEW m \in Names
            PROVE  handles'[d][m].dirty \in {handles[d][m].dirty, {}}
        <4>1. handles'[d][m] = handles[d][m] \/ handles'[d][m] = [NoHandle EXCEPT !.ino = i]
          BY <2>3 DEF Opens
        <4> QED
          BY <3>1, <4>1
      <3> QED
        BY <2>1, <3>2 DEF OnlyEnds
    <2> QED
      BY <1>5, <2>2, <2>3, QueryFrame
  <1>6. ASSUME NEW c \in Conns, OpenFails(c) PROVE OnlyEnds
    <2>1. /\ UNCHANGED <<handles, store, acked, sent>> /\ pc[c] = "queued"
          /\ aborted' = aborted \union ({record[c]} \ {0})
      BY <1>6 DEF OpenFails, Starts, fsVars, sentVars
    <2>2. /\ record'[c] = 0
          /\ \A d \in Conns \ {c} : record'[d] = record[d] /\ pc'[d] = pc[d]
      BY <1>6, AnswerFrame DEF OpenFails
    <2>3. \A r \in {record[c]} \ {0} : Gone(r)
      BY <2>1, <2>2 DEF Gone
    <2> QED
      BY <2>1, <2>2, <2>3 DEF OnlyEnds
  <1>7. ASSUME NEW c \in Conns, Run(c) PROVE OnlyEnds
    <2> DEFINE h == HandleOf(c)
               n == req[c].db
               k == handles'[c][n]
    <2>0. /\ pc[c] \in Running /\ n \in Names /\ h \in HandleType /\ h = handles[c][n] /\ sent' = sent
          /\ \A d \in Conns, m \in Names : d # c \/ m # n => handles'[d][m] = handles[d][m]
          /\ \A d \in Conns \ {c} : pc'[d] = pc[d] /\ record'[d] = record[d]
          /\ \/ pc'[c] = "idle" /\ record'[c] = 0
             \/ pc'[c] \in {"step", "commit"} /\ record'[c] = record[c]
      BY <1>7, RunFrame DEF HandleOf
    <2>1. ASSUME NEW x, SetHandle(c, x) PROVE k = x
      BY <2>0, <2>1 DEF SetHandle, TypeOK
    <2>2. ASSUME k.dirty \in {h.dirty, {}}, UNCHANGED <<store, acked>>,
                 aborted \subseteq aborted', \A r \in aborted' : r \in aborted \/ Gone(r),
                 pc[c] = "commit" => pc'[c] = "commit" \/ record'[c] = 0
          PROVE  OnlyEnds
      <3>1. \A d \in Conns, m \in Names : handles'[d][m].dirty \in {handles[d][m].dirty, {}}
        BY <2>0, <2>2
      <3>2. \A d \in Conns : \/ record'[d] = 0
                             \/ record'[d] = record[d] /\ (pc[d] = "commit" => pc'[d] = "commit")
        BY <2>0, <2>2
      <3> QED
        BY <2>0, <2>2, <3>1, <3>2 DEF OnlyEnds
    <2>3. CASE Prepare(c) \/ PrepareFails(c)
      <3>1. k = [h EXCEPT !.schema = @ \/ ReadsSchema(c)] /\ pc[c] = "prepare"
        BY <2>1, <2>3 DEF Prepare, PrepareFails, CanPrepare
      <3>2. k.dirty = h.dirty
        BY <2>0, <3>1 DEF HandleType
      <3>3. UNCHANGED <<store, acked, aborted>>
        BY <2>3 DEF Prepare, PrepareFails, fsVars
      <3> QED
        BY <2>2, <3>1, <3>2, <3>3
    <2>4. CASE AcquireLock(c)
      <3>1. k.dirty = h.dirty
        BY <2>0, <2>1, <2>4 DEF AcquireLock, HandleType
      <3>2. UNCHANGED <<pc, store, acked, aborted>>
        BY <2>4 DEF AcquireLock, reqVars, fsVars
      <3> QED
        BY <2>2, <3>1, <3>2
    <2>5. CASE Busy(c) \/ WriteFails(c)
      <3>1. k = EndStatement(h) /\ UNCHANGED <<store, acked>> /\ record'[c] = 0
            /\ aborted' = aborted \union ({record[c]} \ {0})
        <4>1. CASE Busy(c)
          BY <2>1, <4>1, AnswerFrame DEF Busy, fsVars
        <4>2. CASE WriteFails(c)
          <5>1. record[c] # 0
            BY <4>2 DEF WriteFails, RequestInv, Writes
          <5> QED
            BY <2>1, <4>2, <5>1, AnswerFrame DEF WriteFails, fsVars
        <4> QED
          BY <2>5, <4>1, <4>2
      <3>2. k.dirty \in {h.dirty, {}} /\ (~h.txn => k.dirty = {})
        BY <2>0, <3>1, EndTyped DEF EndStatement
      <3>3. ASSUME NEW r \in {record[c]} \ {0} PROVE Gone(r)
        <4>1. CASE pc[c] # "commit"
          BY <3>1, <3>3, <4>1 DEF Gone
        <4>2. CASE pc[c] = "commit"
          <5>1. ~h.txn /\ h.dirty = {record[c]}
            BY <3>3, <4>2 DEF RequestInv, Writes
          <5> QED
            BY <2>0, <3>2, <3>3, <5>1 DEF Gone
        <4> QED
          BY <4>1, <4>2
      <3> QED
        BY <2>2, <3>1, <3>2, <3>3
    <2>6. CASE Select(c) \/ Begin(c) \/ CommitEmpty(c)
      <3>1. k = EndStatement(h) \/ k = [h EXCEPT !.txn = TRUE] \/ k = Unlocked(h)
        BY <2>1, <2>6 DEF Select, Begin, CommitEmpty
      <3>2. k.dirty \in {h.dirty, {}}
        BY <2>0, <3>1, EndTyped DEF EndStatement, HandleType
      <3>3. UNCHANGED <<store, acked, aborted>> /\ record'[c] = 0
        BY <2>6, AnswerFrame DEF Select, Begin, CommitEmpty, fsVars
      <3> QED
        BY <2>2, <3>2, <3>3
    <2>7. CASE Rollback(c)
      <3>1. /\ k = Unlocked(h) /\ UNCHANGED <<store, acked>> /\ record'[c] = 0
            /\ aborted' = aborted \union h.dirty
        BY <2>1, <2>7, AnswerFrame DEF Rollback, fsVars
      <3>2. k.dirty = {}
        BY <2>0, <3>1, EndTyped
      <3>3. \A r \in h.dirty : Gone(r)
        BY <2>0, <3>2 DEF Gone
      <3> QED
        BY <2>2, <3>1, <3>2, <3>3
    <2>8. CASE CommitStarts(c)
      BY <2>0, <2>8, <1>a DEF CommitStarts, fsVars
    <2> QED
      BY <1>7, <2>3, <2>4, <2>5, <2>6, <2>7, <2>8 DEF Run
  <1>8. CASE UNCHANGED vars
    BY <1>8, <1>a DEF vars, reqVars, fsVars, sentVars
  <1> QED
    BY <1>1, <1>2, <1>3, <1>4, <1>5, <1>6, <1>7, <1>8 DEF Next, Start, Terminate, SelectThrows

\* What COMMIT, or the end of a statement outside a transaction, writes to the
\* file: the transaction's records, on top of the latest contents.
LEMMA CommitFrame ==
    ASSUME Inv, NEW c \in Conns, Commit(c)
    PROVE  LET n == req[c].db
               h == HandleOf(c)
           IN  /\ n \in Names /\ h \in HandleType /\ h = handles[c][n] /\ h.ino \in Inodes
               /\ store' = [store EXCEPT ![h.ino] = @ \union h.dirty]
               /\ \A i \in Inodes : store'[i] = IF i = h.ino THEN store[i] \union h.dirty ELSE store[i]
               /\ acked' = acked \union (h.dirty \X {h.ino})
               /\ \A d \in Conns, m \in Names :
                      handles'[d][m] = IF d = c /\ m = n THEN Unlocked(h) ELSE handles[d][m]
               /\ \A d \in Conns : record'[d] = IF d = c THEN 0 ELSE record[d]
               /\ \A d \in Conns \ {c} : pc'[d] = pc[d]
               /\ UNCHANGED <<sent, aborted>>
  <1> DEFINE n == req[c].db
             h == HandleOf(c)
  <1> USE DEF Inv
  <1>1. n \in Names /\ h \in HandleType /\ h = handles[c][n] /\ h.ino \in Inodes
    BY RunFrame DEF Run, HandleOf
  <1>2. h.snap = store[h.ino]
    <2>1. wal \in BOOLEAN /\ h.lock \in NONE .. EXCLUSIVE
      BY <1>1, HandlerAssumption DEF TypeOK, HandleType
    <2>2. h.lock >= RESERVED
      BY <2>1 DEF Commit, Granted, Wanted, CommitLock, NONE, RESERVED, EXCLUSIVE
    <2> QED
      BY <1>1, <2>2, LockParts DEF Sound
  <1>3. /\ store' = [store EXCEPT ![h.ino] = h.snap \union h.dirty]
        /\ acked' = acked \union (h.dirty \X {h.ino})
        /\ handles' = [handles EXCEPT ![c][n] = Unlocked(h)]
        /\ UNCHANGED <<sent, aborted>>
    BY DEF Commit, SetHandle, sentVars
  <1>4. \A d \in Conns, m \in Names :
           handles'[d][m] = IF d = c /\ m = n THEN Unlocked(h) ELSE handles[d][m]
    BY <1>1, <1>3, EndTyped, HandlesUpdated
  <1>5. /\ \A d \in Conns : record'[d] = IF d = c THEN 0 ELSE record[d]
        /\ \A d \in Conns \ {c} : pc'[d] = pc[d]
    BY AnswerFrame DEF Commit
  <1>6. /\ store' = [store EXCEPT ![h.ino] = @ \union h.dirty]
        /\ \A i \in Inodes : store'[i] = IF i = h.ino THEN store[i] \union h.dirty ELSE store[i]
    BY <1>1, <1>2, <1>3 DEF TypeOK
  <1> QED
    BY <1>1, <1>3, <1>4, <1>5, <1>6

\* What a write adds to its transaction, and leaves alone.
LEMMA WriteFrame ==
    ASSUME Inv, NEW c \in Conns, Write(c)
    PROVE  LET n == req[c].db
               h == HandleOf(c)
           IN  /\ n \in Names /\ h \in HandleType /\ h = handles[c][n] /\ h.ino \in Inodes
               /\ record[c] \in Records /\ Unused(record[c]) /\ h.lock >= RESERVED
               /\ handles'[c][n] = [h EXCEPT !.dirty = @ \union {record[c]}]
               /\ handles'[c][n].dirty = h.dirty \union {record[c]} /\ handles'[c][n].ino = h.ino
               /\ \A d \in Conns, m \in Names : d # c \/ m # n => handles'[d][m] = handles[d][m]
               /\ record'[c] = 0 \/ (record'[c] = record[c] /\ pc'[c] = "commit")
               /\ \A d \in Conns \ {c} : record'[d] = record[d] /\ pc'[d] = pc[d]
               /\ UNCHANGED <<store, sent, acked, aborted>>
  <1> DEFINE n == req[c].db
             h == HandleOf(c)
  <1> USE DEF Inv
  <1>1. /\ n \in Names /\ h \in HandleType /\ h = handles[c][n] /\ h.ino \in Inodes
        /\ \A d \in Conns, m \in Names : d # c \/ m # n => handles'[d][m] = handles[d][m]
        /\ \A d \in Conns \ {c} : record'[d] = record[d] /\ pc'[d] = pc[d]
    BY RunFrame DEF Run, HandleOf
  <1>2. record[c] \in Records /\ record[c] # 0
    BY DEF Write, RequestInv, Writes, TypeOK
  <1>3. Unused(record[c])
    BY <1>2 DEF Write, RecordInv
  <1>4. h.lock >= RESERVED
    <2>1. wal \in BOOLEAN /\ h.lock \in NONE .. EXCLUSIVE
      BY <1>1, HandlerAssumption DEF TypeOK, HandleType
    <2> QED
      BY <2>1 DEF Write, Granted, Wanted, CommitLock, NONE, SHARED, RESERVED, EXCLUSIVE
  <1>5. handles'[c][n] = [h EXCEPT !.dirty = @ \union {record[c]}]
    BY <1>1 DEF Write, SetHandle, TypeOK
  <1>6. handles'[c][n].dirty = h.dirty \union {record[c]} /\ handles'[c][n].ino = h.ino
    BY <1>1, <1>5 DEF HandleType
  <1>7. UNCHANGED <<store, sent, acked, aborted>>
    BY DEF Write, fsVars, sentVars
  <1>8. record'[c] = 0 \/ (record'[c] = record[c] /\ pc'[c] = "commit")
    BY AnswerFrame DEF Write, TypeOK
  <1> QED
    BY <1>1, <1>2, <1>3, <1>4, <1>5, <1>6, <1>7, <1>8

\* A record is never in two places, and an answer tells the truth about it.
LEMMA RecordStep == Inv /\ [Next]_vars => RecordInv'
  <1> SUFFICES ASSUME Inv, [Next]_vars PROVE RecordInv'
    OBVIOUS
  <1> USE DEF Inv
  <1>0. /\ \A d \in Conns : record[d] \in Nat
        /\ sent \in Nat /\ Records \subseteq Nat
        /\ \A a \in acked : a[1] \in Records /\ a[2] \in Inodes
    BY HandlerAssumption DEF TypeOK, Records
  <1>1. ASSUME NEW c \in Conns, NEW q \in Requests, Send(c, q) PROVE RecordInv'
    <2>1. /\ UNCHANGED <<handles, store, acked, aborted>>
          /\ sent' = (IF Writes(q) THEN sent + 1 ELSE sent)
          /\ record'[c] = (IF Writes(q) THEN sent + 1 ELSE 0)
          /\ \A d \in Conns \ {c} : record'[d] = record[d] /\ pc'[d] = pc[d]
          /\ Writes(q) => sent + 1 \in Records
      BY <1>1, HandlerAssumption DEF Send, TypeOK, Records, fsVars
    <2>2. \A r : Unused(r)' <=> Unused(r)
      BY <2>1 DEF Unused
    <2>3. \A r \in Records : r > sent' => Unused(r)'
      BY <1>0, <2>1, <2>2 DEF RecordInv
    <2>4. ASSUME NEW d \in Conns
          PROVE  /\ record'[d] <= sent'
                 /\ record'[d] # 0 /\ pc'[d] # "commit" => Unused(record[d])'
      <3>1. record'[d] <= sent'
        BY <1>0, <2>1 DEF RecordInv
      <3>2. ASSUME record'[d] # 0, pc'[d] # "commit" PROVE Unused(record'[d])
        <4>1. CASE d = c
          <5>1. Writes(q) /\ record'[d] = sent + 1
            BY <2>1, <3>2, <4>1
          <5>2. sent + 1 \in Records /\ sent + 1 > sent
            BY <1>0, <2>1, <5>1
          <5> QED
            BY <5>1, <5>2 DEF RecordInv
        <4>2. CASE d # c
          BY <2>1, <3>2, <4>2 DEF RecordInv
        <4> QED
          BY <4>1, <4>2
      <3> QED
        BY <2>1, <3>1, <3>2 DEF Unused
    <2>5. \A a, b \in Conns : record'[a] # 0 /\ record'[a] = record'[b] => a = b
      BY <1>0, <2>1 DEF RecordInv
    <2> QED
      BY <2>1, <2>3, <2>4, <2>5 DEF RecordInv, AckedStored, AbortedNotStored
  <1>2. ASSUME NEW c \in Conns, Write(c) PROVE RecordInv'
    <2> DEFINE n == req[c].db
               h == HandleOf(c)
    <2>0. /\ n \in Names /\ h = handles[c][n]
          /\ record[c] \in Records /\ Unused(record[c])
          /\ handles'[c][n].dirty = h.dirty \union {record[c]}
          /\ \A d \in Conns, m \in Names : d # c \/ m # n => handles'[d][m] = handles[d][m]
          /\ record'[c] = 0 \/ (record'[c] = record[c] /\ pc'[c] = "commit")
          /\ \A d \in Conns \ {c} : record'[d] = record[d] /\ pc'[d] = pc[d]
          /\ UNCHANGED <<store, sent, acked, aborted>>
      BY <1>2, WriteFrame
    <2>1. \A d \in Conns, m \in Names :
             handles'[d][m].dirty = handles[d][m].dirty
                                    \union (IF d = c /\ m = n THEN {record[c]} ELSE {})
      BY <2>0
    <2>2. \A r : Unused(r) /\ r # record[c] => Unused(r)'
      BY <2>0, <2>1 DEF Unused
    <2>3. \A r \in Records : r > sent' => Unused(r)'
      BY <1>0, <2>0, <2>2 DEF RecordInv
    <2>4. ASSUME NEW d \in Conns
          PROVE  /\ record'[d] <= sent'
                 /\ record'[d] # 0 /\ pc'[d] # "commit" => Unused(record[d])'
      <3>1. record'[d] <= sent'
        BY <1>0, <2>0 DEF RecordInv
      <3>2. ASSUME record'[d] # 0, pc'[d] # "commit" PROVE Unused(record[d])'
        <4>1. d # c /\ record'[d] = record[d] /\ pc'[d] = pc[d]
          BY <2>0, <3>2
        <4>2. Unused(record[d]) /\ record[d] # record[c]
          BY <3>2, <4>1 DEF RecordInv
        <4>3. Unused(record'[d]) /\ record'[d] # record[c]
          BY <4>1, <4>2
        <4> QED
          BY <4>3, <2>2 DEF Unused
      <3> QED
        BY <3>1, <3>2
    <2>5. \A a, b \in Conns : record'[a] # 0 /\ record'[a] = record'[b] => a = b
      BY <2>0 DEF RecordInv
    <2>6. ASSUME NEW a \in Conns, NEW b \in Conns, NEW x \in Names, NEW y \in Names,
                 <<a, x>> # <<b, y>>
          PROVE  handles'[a][x].dirty \intersect handles'[b][y].dirty = {}
      <3>1. handles[a][x].dirty \intersect handles[b][y].dirty = {}
        BY <2>6 DEF RecordInv
      <3>2. record[c] \notin handles[a][x].dirty /\ record[c] \notin handles[b][y].dirty
        BY <2>0 DEF Unused
      <3> QED
        BY <2>1, <2>6, <3>1, <3>2
    <2>7. \A a \in Conns, x \in Names :
             /\ handles'[a][x].dirty \intersect aborted' = {}
             /\ \A i \in Inodes : handles'[a][x].dirty \intersect store'[i] = {}
      BY <2>0, <2>1 DEF RecordInv, Unused
    <2> QED
      BY <2>0, <2>3, <2>4, <2>5, <2>6, <2>7 DEF RecordInv, AckedStored, AbortedNotStored
  <1>3. ASSUME NEW c \in Conns, Commit(c) PROVE RecordInv'
    <2> DEFINE n == req[c].db
               h == HandleOf(c)
    <2>0. /\ n \in Names /\ h \in HandleType /\ h = handles[c][n] /\ h.ino \in Inodes
          /\ \A i \in Inodes : store'[i] = IF i = h.ino THEN store[i] \union h.dirty ELSE store[i]
          /\ acked' = acked \union (h.dirty \X {h.ino})
          /\ \A d \in Conns, m \in Names :
                 handles'[d][m] = IF d = c /\ m = n THEN Unlocked(h) ELSE handles[d][m]
          /\ \A d \in Conns : record'[d] = IF d = c THEN 0 ELSE record[d]
          /\ \A d \in Conns \ {c} : pc'[d] = pc[d]
          /\ UNCHANGED <<sent, aborted>>
      BY <1>3, CommitFrame
    <2>1. \A d \in Conns, m \in Names :
             handles'[d][m].dirty = IF d = c /\ m = n THEN {} ELSE handles[d][m].dirty
      BY <2>0, EndTyped
    <2>2. ASSUME NEW r, Unused(r) PROVE Unused(r)'
      <3>1. r \notin h.dirty /\ r \notin aborted'
        BY <2>0, <2>2 DEF Unused
      <3>2. \A i \in Inodes : r \notin store'[i]
        BY <2>0, <2>2, <3>1 DEF Unused
      <3>3. \A d \in Conns, m \in Names : r \notin handles'[d][m].dirty
        BY <2>1, <2>2 DEF Unused
      <3> QED
        BY <3>1, <3>2, <3>3 DEF Unused
    <2>3. \A r \in Records : r > sent' => Unused(r)'
      BY <2>0, <2>2 DEF RecordInv
    <2>4. ASSUME NEW d \in Conns
          PROVE  /\ record'[d] <= sent'
                 /\ record'[d] # 0 /\ pc'[d] # "commit" => Unused(record[d])'
      <3>1. record'[d] <= sent'
        BY <1>0, <2>0 DEF RecordInv
      <3>2. ASSUME record'[d] # 0, pc'[d] # "commit" PROVE Unused(record[d])'
        <4>1. Unused(record'[d])
          BY <2>0, <3>2 DEF RecordInv
        <4> QED
          BY <4>1, <2>2 DEF Unused
      <3> QED
        BY <3>1, <3>2
    <2>5. \A a, b \in Conns : record'[a] # 0 /\ record'[a] = record'[b] => a = b
      BY <2>0 DEF RecordInv
    <2>6. \A a, b \in Conns, x, y \in Names :
             <<a, x>> # <<b, y>> => handles'[a][x].dirty \intersect handles'[b][y].dirty = {}
      BY <2>1 DEF RecordInv
    <2>7. ASSUME NEW a \in Conns, NEW x \in Names
          PROVE  /\ handles'[a][x].dirty \intersect aborted' = {}
                 /\ \A i \in Inodes : handles'[a][x].dirty \intersect store'[i] = {}
      <3>1. CASE a = c /\ x = n
        BY <2>1, <3>1
      <3>2. CASE ~(a = c /\ x = n)
        <4>1. <<a, x>> # <<c, n>>
          BY <3>2
        <4>2. handles[a][x].dirty \intersect h.dirty = {}
          BY <2>0, <4>1 DEF RecordInv
        <4> QED
          BY <2>0, <2>1, <3>2, <4>2 DEF RecordInv
      <3> QED
        BY <3>1, <3>2
    <2>8. AckedStored'
      <3>1. ASSUME NEW a \in acked PROVE a[1] \in store'[a[2]]
        BY <1>0, <2>0 DEF AckedStored, RecordInv
      <3>2. ASSUME NEW a \in h.dirty \X {h.ino} PROVE a[1] \in store'[a[2]]
        BY <2>0
      <3> QED
        BY <2>0, <3>1, <3>2 DEF AckedStored
    <2>9. AbortedNotStored'
      <3>1. \A r \in aborted', i \in Inodes : r \notin store'[i]
        BY <2>0 DEF RecordInv, AbortedNotStored
      <3>2. \A a \in acked' : a[1] \in store'[a[2]] /\ a[2] \in Inodes
        BY <1>0, <2>0, <2>8 DEF AckedStored
      <3> QED
        BY <3>1, <3>2 DEF AbortedNotStored
    <2> QED
      BY <2>3, <2>4, <2>5, <2>6, <2>7, <2>8, <2>9 DEF RecordInv
  <1> QED
    BY <1>1, <1>2, <1>3, EndSteps, RecordEnds
-----------------------------------------------------------------------------
(* The invariant and what follows from it. *)

\* The server as it starts, with an empty folder, satisfies the invariant.
LEMMA InvInit == Init => Inv
  <1> SUFFICES ASSUME Init PROVE Inv
    OBVIOUS
  <1> USE HandlerAssumption DEF Init
  <1>0. \A c \in Conns, n \in Names : handles[c][n] = NoHandle
    OBVIOUS
  <1>1. TypeOK
    BY NoHandleTyped DEF TypeOK
  <1>2. RequestInv
    BY DEF RequestInv, Writes, NoRequest, Running, Absent
  <1>3. HandleInv
    BY <1>0 DEF HandleInv, NoHandle, NONE, RESERVED
  <1>4. LockInv
    BY <1>0 DEF LockInv, WritersSerialised, ReadsStable, NoHandle, NONE, SHARED, RESERVED, EXCLUSIVE
  <1>5. RecordInv
    BY <1>0, NoHandleTyped DEF RecordInv, Unused, AckedStored, AbortedNotStored
  <1>6. FolderInv
    BY <1>0, NoHandleTyped DEF FolderInv
  <1>7. BudgetInv
    <2>1. Removed = {} /\ Deleters = {}
      BY DEF Removed, Deleters
    <2> QED
      BY <2>1, FS_EmptySet DEF BudgetInv
  <1>8. FreeInv /\ AuthGate
    BY DEF FreeInv, AuthGate, Running
  <1> QED
    BY <1>1, <1>2, <1>3, <1>4, <1>5, <1>6, <1>7, <1>8 DEF Inv

\* The invariant holds at all times.
LEMMA Invariance == Spec => []Inv
  <1>1. Inv /\ [Next]_vars => Inv'
    BY TypeStep, RequestStep, HandleStep, LockStep, RecordStep, FolderStep, BudgetStep, FreeStep,
       AuthStep DEF Inv
  <1> QED
    BY InvInit, <1>1, PTL DEF Spec

\* Every variable keeps to its values; in particular sqlite3_open always finds
\* a free inode for a database that does not exist.
THEOREM TypeCorrect == Spec => []TypeOK
  <1>1. Inv => TypeOK
    BY DEF Inv
  <1> QED
    BY Invariance, <1>1, PTL

\* A write that has been acknowledged is in its file and stays there, for any
\* number of connections, names and databases.
THEOREM AcknowledgedWritesStored == Spec => []AckedStored
  <1>1. Inv => AckedStored
    BY DEF Inv, RecordInv
  <1> QED
    BY Invariance, <1>1, PTL

\* A write that was answered with an error, or rolled back, is never stored and
\* never acknowledged.
THEOREM FailedWritesNotStored == Spec => []AbortedNotStored
  <1>1. Inv => AbortedNotStored
    BY DEF Inv, RecordInv
  <1> QED
    BY Invariance, <1>1, PTL

\* Each file has one writer, which works on its latest contents, and in rollback
\* mode nobody reads while it commits.
THEOREM OneWriterPerFile == Spec => []WritersSerialised
  <1>1. Inv => WritersSerialised
    BY DEF Inv, LockInv
  <1> QED
    BY Invariance, <1>1, PTL

\* A transaction reads one state of its file from its first statement to its last.
THEOREM TransactionsReadOneState == Spec => []ReadsStable
  <1>1. Inv => ReadsStable
    BY DEF Inv, LockInv
  <1> QED
    BY Invariance, <1>1, PTL

\* Without the password a connection opens nothing, runs nothing and gets only
\* errors for answers.
THEOREM PasswordFirst == Spec => []AuthGate
  <1>1. Inv => AuthGate
    BY DEF Inv
  <1> QED
    BY Invariance, <1>1, PTL

\* Under the name with which a connection has removed a file it never has that
\* file open again, whatever names lead to the file.
THEOREM OwnDeletionSeen == Spec => []OwnDeleteFresh
  <1>1. Init => OwnDeleteFresh
    BY NoHandleTyped DEF Init, OwnDeleteFresh
  <1>2. Inv /\ OwnDeleteFresh /\ [Next]_vars => OwnDeleteFresh'
    <2> SUFFICES ASSUME Inv, OwnDeleteFresh, [Next]_vars,
                        NEW d \in Conns, NEW m \in Names, handles'[d][m].ino # NoInode
                 PROVE  <<d, m>> \notin remover'[handles'[d][m].ino]
      BY DEF OwnDeleteFresh
    <2> USE DEF Inv
    <2> DEFINE Goal == <<d, m>> \notin remover'[handles'[d][m].ino]
    <2>0. handles[d][m].ino # NoInode => /\ <<d, m>> \notin remover[handles[d][m].ino]
                                      /\ handles[d][m].ino \in Inodes
      BY DEF OwnDeleteFresh, TypeOK, HandleType
    <2>a. ASSUME remover' = remover, handles'[d][m].ino \in {handles[d][m].ino, NoInode} PROVE Goal
      BY <2>0, <2>a
    <2>1. ASSUME NEW c \in Conns, Client(c) \/ AnswerAtOnce(c) \/ OpenFails(c) PROVE Goal
      BY <2>1, <2>a, ClientFrame
    <2>2. ASSUME NEW c \in Conns, Release(c) PROVE Goal
      BY <2>2, <2>a, ReleaseFrame, NoHandleTyped
    <2>3. CASE EndOfProcess
      BY <2>3, <2>a, ReleaseFrame, NoHandleTyped
    <2>4. ASSUME NEW c \in Conns, DeleteDb(c) PROVE Goal
      <3> DEFINE n == req[c].db
                 f == Resolve[n]
      <3>1. CASE UNCHANGED <<remover, handles>>
        BY <2>a, <3>1
      <3>2. CASE ~UNCHANGED <<remover, handles>>
        <4>1. /\ n \in Names /\ f \in Files /\ dir[f] \in Inodes
              /\ remover'[dir[f]] = {<<c, n>>}
              /\ \A i \in Inodes \ {dir[f]} : remover'[i] = remover[i]
              /\ handles'[d][m] = IF d = c /\ m = n THEN NoHandle ELSE handles[d][m]
          BY <2>4, <3>2, DeleteDbFrame
        <4>2. handles'[d][m] = handles[d][m] /\ ~(d = c /\ m = n)
          BY <4>1, NoHandleTyped
        <4>3. CASE handles[d][m].ino # dir[f]
          BY <2>0, <4>1, <4>2, <4>3
        <4>4. CASE handles[d][m].ino = dir[f]
          BY <4>1, <4>2, <4>4
        <4> QED
          BY <4>3, <4>4
      <3> QED
        BY <3>1, <3>2
    <2>5. ASSUME NEW c \in Conns, Query(c) PROVE Goal
      <3>1. remover' = remover
        BY <2>5, QueryFrame
      <3>2. CASE handles'[d][m] = handles[d][m]
        BY <2>a, <3>1, <3>2
      <3>3. ASSUME NEW i \in Inodes, Opens(c, i), handles'[d][m] # handles[d][m] PROVE Goal
        <4>1. handles'[d][m] = [NoHandle EXCEPT !.ino = i] /\ remover[i] = {}
          BY <3>3 DEF Opens
        <4> QED
          BY <3>1, <3>3, <4>1, NoHandleTyped
      <3> QED
        BY <2>5, <3>2, <3>3, QueryFrame
    <2>6. ASSUME NEW c \in Conns, Run(c) PROVE Goal
      <3>1. handles'[d][m].ino = handles[d][m].ino
        BY <2>6, RunFrame DEF HandleOf
      <3> QED
        BY <2>6, <2>a, <3>1, RunFrame
    <2>7. CASE UNCHANGED vars
      BY <2>7, <2>a DEF vars, fsVars
    <2> QED
      BY <2>1, <2>2, <2>3, <2>4, <2>5, <2>6, <2>7 DEF Next, Start, Terminate, SelectThrows
  <1> QED
    BY Invariance, <1>1, <1>2, PTL DEF Spec

\* The safety half of HandlesReleased: a connection that has ended holds no
\* handle, so no lock that others would wait for.
THEOREM NothingLeftOpen ==
    Spec => [](\A c \in Conns : conn[c] = "free" => \A n \in Names : handles[c][n] = NoHandle)
  <1>1. Inv => \A c \in Conns : conn[c] = "free" => \A n \in Names : handles[c][n] = NoHandle
    BY DEF Inv, FreeInv
  <1> QED
    BY Invariance, <1>1, PTL

-----------------------------------------------------------------------------
(* The server implements the module TransactionalStore. *)

\* The transaction of a handle that is closed, or has no changes, is none.
LEMMA NoTransaction ==
    /\ Transaction(NoHandle) = Store!NoTxn
    /\ \A h \in HandleType :
          /\ Transaction(Unlocked(h)) = Store!NoTxn
          /\ h.dirty = {} => Transaction(h) = Store!NoTxn
          /\ h.dirty # {} => Transaction(h) # Store!NoTxn
    /\ \A h : Transaction(h).writes = h.dirty
  <1>1. Transaction(NoHandle) = Store!NoTxn
    BY DEF Transaction, Store!NoTxn, NoHandle
  <1>2. \A h : h.dirty = {} => Transaction(h) = Store!NoTxn
    BY DEF Transaction, Store!NoTxn
  <1>3. \A h : Transaction(h).writes = h.dirty
    BY DEF Transaction
  <1>4. \A h : h.dirty # {} => Transaction(h) # Store!NoTxn
    BY <1>3 DEF Store!NoTxn
  <1> QED
    BY <1>1, <1>2, <1>3, <1>4, EndTyped

\* The transactions of the owners in S end without effect.
LEMMA StoreAborts ==
    ASSUME NEW S \in SUBSET (Conns \X Names),
           UNCHANGED <<store, acked>>,
           aborted' = aborted \union UNION {handles[o[1]][o[2]].dirty : o \in S},
           \A o \in Conns \X Names :
              Transaction(handles'[o[1]][o[2]]) = IF o \in S THEN Store!NoTxn
                                                  ELSE Transaction(handles[o[1]][o[2]])
    PROVE  Store!Next
  <1> DEFINE t == [o \in Conns \X Names |-> Transaction(handles[o[1]][o[2]])]
  <1>1. \A o \in S : t[o].writes = handles[o[1]][o[2]].dirty
    BY NoTransaction
  <1>2. {t[o].writes : o \in S} = {handles[o[1]][o[2]].dirty : o \in S}
    BY <1>1
  <1>3. [o \in Conns \X Names |-> Transaction(handles'[o[1]][o[2]])]
          = [o \in Conns \X Names |-> IF o \in S THEN Store!NoTxn ELSE t[o]]
    OBVIOUS
  <1>4. Store!Abort(S)
    BY <1>2, <1>3 DEF Store!Abort
  <1> QED
    BY <1>4 DEF Store!Next

\* No transaction is touched.
SameTransactions ==
    \A o \in Conns \X Names : Transaction(handles'[o[1]][o[2]]) = Transaction(handles[o[1]][o[2]])

\* A record of a statement that fails is refused; without one, nothing happens.
LEMMA StoreRefuses ==
    ASSUME UNCHANGED <<store, acked>>, SameTransactions,
           \/ aborted' = aborted
           \/ \E r \in Records : Unused(r) /\ aborted' = aborted \union {r}
    PROVE  [Store!Next]_(Store!storeVars)
  <1> DEFINE t == [o \in Conns \X Names |-> Transaction(handles[o[1]][o[2]])]
  <1>1. [o \in Conns \X Names |-> Transaction(handles'[o[1]][o[2]])] = t
    BY DEF SameTransactions
  <1>2. CASE aborted' = aborted
    BY <1>1, <1>2 DEF Store!storeVars
  <1>3. ASSUME NEW r \in Records, Unused(r), aborted' = aborted \union {r} PROVE Store!Next
    <2>1. \A o \in Conns \X Names : r \notin t[o].writes
      BY <1>3, NoTransaction DEF Unused
    <2>2. Store!Fresh(r)
      BY <1>3, <2>1 DEF Store!Fresh, Unused
    <2>3. Store!Refuse(r)
      BY <1>1, <1>3, <2>2 DEF Store!Refuse
    <2> QED
      BY <2>3 DEF Store!Next
  <1> QED
    BY <1>2, <1>3

\* A write puts its record into the transaction of its handle.
LEMMA StorePuts ==
    ASSUME Inv, NEW c \in Conns, Write(c)
    PROVE  Store!Next
  <1> DEFINE n == req[c].db
             h == HandleOf(c)
             r == record[c]
             o == <<c, n>>
             t == [x \in Conns \X Names |-> Transaction(handles[x[1]][x[2]])]
             u == [x \in Conns \X Names |-> Transaction(handles'[x[1]][x[2]])]
  <1> USE DEF Inv
  <1>0. /\ n \in Names /\ h \in HandleType /\ h = handles[c][n] /\ h.ino \in Inodes
        /\ r \in Records /\ Unused(r) /\ h.lock >= RESERVED
        /\ handles'[c][n].dirty = h.dirty \union {r} /\ handles'[c][n].ino = h.ino
        /\ \A d \in Conns, m \in Names : d # c \/ m # n => handles'[d][m] = handles[d][m]
        /\ UNCHANGED <<store, acked, aborted>>
    BY WriteFrame
  <1>1. o \in Conns \X Names /\ t[o] = Transaction(h)
    BY <1>0
  <1>2. Store!Fresh(r)
    <2>1. \A x \in Conns \X Names : r \notin t[x].writes
      BY <1>0, NoTransaction DEF Unused
    <2> QED
      BY <1>0, <2>1 DEF Store!Fresh, Unused
  <1>3. t[o] = Store!NoTxn \/ t[o].base = h.ino
    BY <1>0, <1>1, NoTransaction DEF Transaction
  <1>4. ASSUME NEW x \in (Conns \X Names) \ {o} PROVE t[x].base # h.ino
    <2> DEFINE k == handles[x[1]][x[2]]
    <2>1. k \in HandleType /\ (k.ino = h.ino => k.lock < RESERVED)
      <3>1. x[1] \in Conns /\ x[2] \in Names /\ (x[1] # c \/ x[2] # n)
        OBVIOUS
      <3>2. k \in HandleType
        BY <3>1 DEF TypeOK
      <3>3. k.ino = h.ino => Apart(h.lock, k.lock)
        BY <1>0, <3>1, LockParts, Counts
      <3> QED
        BY <1>0, <3>2, <3>3 DEF Apart
    <2>2. k.dirty # {} => k.lock >= RESERVED
      BY LockParts DEF Sound
    <2>3. k.dirty # {} => k.ino # h.ino
      <3>1. k.lock \in NONE .. EXCLUSIVE
        BY <2>1 DEF HandleType
      <3> QED
        BY <2>1, <2>2, <3>1 DEF NONE, RESERVED, EXCLUSIVE
    <2>4. t[x] = Transaction(k)
      OBVIOUS
    <2> QED
      BY <1>0, <2>3, <2>4, Counts DEF Transaction
  <1>5. u = [t EXCEPT ![o] = [base |-> h.ino, writes |-> t[o].writes \union {r}]]
    <2>1. u[o] = [base |-> h.ino, writes |-> t[o].writes \union {r}]
      <3>1. handles'[c][n].dirty # {}
        BY <1>0
      <3>2. Transaction(handles'[c][n]) = [base |-> h.ino, writes |-> h.dirty \union {r}]
        BY <1>0, <3>1 DEF Transaction
      <3>3. u[o] = Transaction(handles'[c][n]) /\ t[o].writes = h.dirty
        BY <1>0, <1>1, NoTransaction
      <3> QED
        BY <3>2, <3>3
    <2>2. \A x \in (Conns \X Names) \ {o} : u[x] = t[x]
      BY <1>0
    <2> QED
      BY <1>1, <2>1, <2>2
  <1>6. Store!Put(o, h.ino, r)
    BY <1>0, <1>2, <1>3, <1>4, <1>5 DEF Store!Put
  <1> QED
    BY <1>0, <1>1, <1>6 DEF Store!Next

\* A commit publishes the transaction of its handle as a whole.
LEMMA StorePublishes ==
    ASSUME Inv, NEW c \in Conns, Commit(c), HandleOf(c).dirty # {}
    PROVE  Store!Next
  <1> DEFINE n == req[c].db
             h == HandleOf(c)
             o == <<c, n>>
             t == [x \in Conns \X Names |-> Transaction(handles[x[1]][x[2]])]
             u == [x \in Conns \X Names |-> Transaction(handles'[x[1]][x[2]])]
  <1> USE DEF Inv
  <1>0. /\ n \in Names /\ h \in HandleType /\ h = handles[c][n] /\ h.ino \in Inodes
        /\ store' = [store EXCEPT ![h.ino] = @ \union h.dirty]
        /\ acked' = acked \union (h.dirty \X {h.ino})
        /\ \A d \in Conns, m \in Names :
               handles'[d][m] = IF d = c /\ m = n THEN Unlocked(h) ELSE handles[d][m]
        /\ aborted' = aborted
    BY CommitFrame
  <1>1. h.dirty # {}
    OBVIOUS
  <1>2. /\ o \in Conns \X Names /\ t[o] = Transaction(h) /\ t[o] # Store!NoTxn
        /\ t[o].base = h.ino /\ t[o].writes = h.dirty
    BY <1>0, <1>1, NoTransaction DEF Transaction
  <1>3. u = [t EXCEPT ![o] = Store!NoTxn]
    <2>1. u[o] = Store!NoTxn
      BY <1>0, NoTransaction
    <2>2. \A x \in (Conns \X Names) \ {o} : u[x] = t[x]
      BY <1>0
    <2> QED
      BY <1>2, <2>1, <2>2
  <1>4. Store!Publish(o)
    BY <1>0, <1>2, <1>3 DEF Store!Publish
  <1> QED
    BY <1>2, <1>4 DEF Store!Next

\* Every step of the server is a step of the store, or none.
LEMMA StoreStep == Inv /\ [Next]_vars => [Store!Next]_(Store!storeVars)
  <1> SUFFICES ASSUME Inv, [Next]_vars PROVE [Store!Next]_(Store!storeVars)
    OBVIOUS
  <1> USE DEF Inv
  <1>0. \A o \in Conns \X Names : handles[o[1]][o[2]] \in HandleType
    BY DEF TypeOK
  <1>a. ASSUME UNCHANGED <<store, acked, aborted>>,
               \A d \in Conns, m \in Names :
                  \/ handles'[d][m] = handles[d][m]
                  \/ Transaction(handles'[d][m]) = Transaction(handles[d][m])
        PROVE  [Store!Next]_(Store!storeVars)
    BY <1>a, StoreRefuses DEF SameTransactions
  <1>1. ASSUME NEW c \in Conns, Client(c) \/ AnswerAtOnce(c) PROVE [Store!Next]_(Store!storeVars)
    <2>1. aborted' = aborted
      BY <1>1 DEF Client, Accept, PeerCloses, ReadFails, Send, AnswerAtOnce
    <2> QED
      BY <1>1, <2>1, <1>a, ClientFrame
  <1>2. ASSUME NEW c \in Conns, Release(c) PROVE Store!Next
    <2> DEFINE S == {c} \X Names
    <2>1. /\ aborted' = aborted \union Unfinished(c)
          /\ UNCHANGED <<store, acked>>
          /\ \A n \in Names : handles'[c][n] = NoHandle
          /\ \A d \in Conns \ {c}, n \in Names : handles'[d][n] = handles[d][n]
      BY <1>2, ReleaseFrame DEF Release
    <2>2. UNION {handles[o[1]][o[2]].dirty : o \in S} = Unfinished(c)
      <3>1. \A o \in S : o[1] = c /\ o[2] \in Names
        OBVIOUS
      <3>2. \A n \in Names : <<c, n>> \in S
        OBVIOUS
      <3>3. ASSUME NEW r PROVE (\E o \in S : r \in handles[o[1]][o[2]].dirty)
                                <=> (\E n \in Names : r \in handles[c][n].dirty)
        <4>1. ASSUME NEW n \in Names, r \in handles[c][n].dirty
              PROVE  \E o \in S : r \in handles[o[1]][o[2]].dirty
          <5> WITNESS <<c, n>> \in S
          <5> QED
            BY <4>1
        <4> QED
          BY <3>1, <4>1
      <3> QED
        BY <3>3 DEF Unfinished
    <2>3. ASSUME NEW o \in Conns \X Names
          PROVE  Transaction(handles'[o[1]][o[2]]) = IF o \in S THEN Store!NoTxn
                                                     ELSE Transaction(handles[o[1]][o[2]])
      BY <2>1, NoTransaction
    <2>4. S \in SUBSET (Conns \X Names)
      OBVIOUS
    <2> HIDE DEF S
    <2> QED
      BY <2>1, <2>2, <2>3, <2>4, StoreAborts
  <1>3. ASSUME EndOfProcess PROVE Store!Next
    <2> DEFINE S == Conns \X Names
    <2>1. /\ aborted' = aborted \union UNION {Unfinished(d) : d \in Conns}
          /\ UNCHANGED <<store, acked>>
          /\ \A d \in Conns, n \in Names : handles'[d][n] = NoHandle
      BY <1>3, ReleaseFrame DEF EndOfProcess
    <2>2. UNION {handles[o[1]][o[2]].dirty : o \in S} = UNION {Unfinished(d) : d \in Conns}
      <3>1. ASSUME NEW r PROVE (\E o \in S : r \in handles[o[1]][o[2]].dirty)
                                <=> (\E d \in Conns, n \in Names : r \in handles[d][n].dirty)
        <4>1. ASSUME NEW d \in Conns, NEW n \in Names, r \in handles[d][n].dirty
              PROVE  \E o \in S : r \in handles[o[1]][o[2]].dirty
          <5> WITNESS <<d, n>> \in S
          <5> QED
            BY <4>1
        <4> QED
          BY <4>1
      <3> QED
        BY <3>1 DEF Unfinished
    <2>3. ASSUME NEW o \in Conns \X Names
          PROVE  Transaction(handles'[o[1]][o[2]]) = IF o \in S THEN Store!NoTxn
                                                     ELSE Transaction(handles[o[1]][o[2]])
      BY <2>1, NoTransaction
    <2>4. S \in SUBSET (Conns \X Names)
      OBVIOUS
    <2> HIDE DEF S
    <2> QED
      BY <2>1, <2>2, <2>3, <2>4, StoreAborts
  <1>4. ASSUME NEW c \in Conns, NEW n \in Names, UNCHANGED <<store, acked>>,
               aborted' = aborted \union handles[c][n].dirty,
               Transaction(handles'[c][n]) = Store!NoTxn,
               \A d \in Conns, m \in Names : d # c \/ m # n => handles'[d][m] = handles[d][m]
        PROVE  Store!Next
    <2> DEFINE S == {<<c, n>>}
    <2>1. UNION {handles[o[1]][o[2]].dirty : o \in S} = handles[c][n].dirty
      OBVIOUS
    <2>2. ASSUME NEW o \in Conns \X Names
          PROVE  Transaction(handles'[o[1]][o[2]]) = IF o \in S THEN Store!NoTxn
                                                     ELSE Transaction(handles[o[1]][o[2]])
      <3>1. CASE o = <<c, n>>
        BY <1>4, <3>1
      <3>2. CASE o # <<c, n>>
        BY <1>4, <3>2
      <3> QED
        BY <3>1, <3>2
    <2>3. S \in SUBSET (Conns \X Names)
      OBVIOUS
    <2> HIDE DEF S
    <2> QED
      BY <1>4, <2>1, <2>2, <2>3, StoreAborts
  <1>5. ASSUME NEW c \in Conns, DeleteDb(c) PROVE [Store!Next]_(Store!storeVars)
    <2>1. UNCHANGED <<store, acked>> /\ req[c].db \in Names
      BY <1>5, DeleteDbFrame
    <2>2. CASE UNCHANGED <<handles, aborted>>
      BY <2>1, <2>2, <1>a
    <2>3. CASE ~UNCHANGED <<handles, aborted>>
      <3>1. /\ \A d \in Conns, m \in Names :
                  handles'[d][m] = IF d = c /\ m = req[c].db THEN NoHandle ELSE handles[d][m]
            /\ aborted' = aborted \union handles[c][req[c].db].dirty
        BY <1>5, <2>3, DeleteDbFrame
      <3>2. Transaction(handles'[c][req[c].db]) = Store!NoTxn
        BY <2>1, <3>1, NoTransaction
      <3> QED
        BY <1>4, <2>1, <3>1, <3>2
    <2> QED
      BY <2>2, <2>3
  <1>6. ASSUME NEW c \in Conns, Query(c) PROVE [Store!Next]_(Store!storeVars)
    <2>1. UNCHANGED <<store, acked, aborted>>
      BY <1>6, QueryFrame
    <2>2. CASE handles' = handles
      BY <2>1, <2>2, <1>a
    <2>3. ASSUME NEW i \in Inodes, Opens(c, i) PROVE [Store!Next]_(Store!storeVars)
      <3> DEFINE k == [NoHandle EXCEPT !.ino = i]
      <3>1. Transaction(k) = Store!NoTxn /\ Transaction(NoHandle) = Store!NoTxn
        BY NoHandleTyped, NoTransaction
      <3> HIDE DEF k
      <3>2. ASSUME NEW d \in Conns, NEW m \in Names
            PROVE  \/ handles'[d][m] = handles[d][m]
                   \/ Transaction(handles'[d][m]) = Transaction(handles[d][m])
        <4>1. handles'[d][m] = handles[d][m] \/ (handles[d][m] = NoHandle /\ handles'[d][m] = k)
          BY <2>3 DEF Opens, k
        <4> QED
          BY <3>1, <4>1
      <3> QED
        BY <2>1, <3>2, <1>a
    <2> QED
      BY <1>6, <2>2, <2>3, QueryFrame
  <1>7. ASSUME NEW c \in Conns, OpenFails(c) PROVE [Store!Next]_(Store!storeVars)
    <2>1. /\ UNCHANGED <<handles, store, acked>> /\ pc[c] = "queued"
          /\ aborted' = aborted \union ({record[c]} \ {0})
      BY <1>7 DEF OpenFails, Starts, fsVars
    <2>2. CASE record[c] = 0
      BY <2>1, <2>2, <1>a
    <2>3. CASE record[c] # 0
      <3>1. record[c] \in Records /\ Unused(record[c]) /\ aborted' = aborted \union {record[c]}
        BY <2>1, <2>3 DEF RecordInv, TypeOK
      <3>2. SameTransactions
        BY <2>1 DEF SameTransactions
      <3> QED
        BY <2>1, <3>1, <3>2, StoreRefuses
    <2> QED
      BY <2>2, <2>3
  <1>8. ASSUME NEW c \in Conns, Run(c) PROVE [Store!Next]_(Store!storeVars)
    <2> DEFINE h == HandleOf(c)
               n == req[c].db
               k == handles'[c][n]
    <2>0. /\ n \in Names /\ h \in HandleType /\ h = handles[c][n]
          /\ \A d \in Conns, m \in Names : d # c \/ m # n => handles'[d][m] = handles[d][m]
      BY <1>8, RunFrame DEF HandleOf
    <2>1. ASSUME NEW x, SetHandle(c, x) PROVE k = x
      BY <2>0, <2>1 DEF SetHandle, TypeOK
    <2>2. ASSUME Transaction(k) = Transaction(h) PROVE SameTransactions
      <3> SUFFICES ASSUME NEW o \in Conns \X Names
                   PROVE  Transaction(handles'[o[1]][o[2]]) = Transaction(handles[o[1]][o[2]])
        BY DEF SameTransactions
      <3>1. CASE o[1] = c /\ o[2] = n
        BY <2>0, <2>2, <3>1
      <3>2. CASE ~(o[1] = c /\ o[2] = n)
        BY <2>0, <3>2
      <3> QED
        BY <3>1, <3>2
    <2>3. CASE Prepare(c) \/ PrepareFails(c) \/ AcquireLock(c) \/ Begin(c)
      <3>1. k.dirty = h.dirty /\ k.ino = h.ino
        BY <2>0, <2>1, <2>3 DEF Prepare, PrepareFails, AcquireLock, Begin, HandleType
      <3>2. Transaction(k) = Transaction(h)
        BY <3>1 DEF Transaction
      <3>3. UNCHANGED <<store, acked, aborted>>
        BY <2>3 DEF Prepare, PrepareFails, AcquireLock, Begin, fsVars
      <3> QED
        BY <2>2, <3>2, <3>3, StoreRefuses
    <2>4. CASE CommitStarts(c)
      BY <2>4, <1>a DEF CommitStarts, fsVars
    <2>5. CASE Select(c)
      <3>1. k = EndStatement(h) /\ UNCHANGED <<store, acked, aborted>> /\ pc[c] = "step"
        BY <2>1, <2>5 DEF Select, fsVars
      <3>2. ~h.txn => h.dirty = {}
        BY <2>0, <3>1 DEF HandleInv
      <3>3. Transaction(k) = Transaction(h)
        BY <2>0, <3>1, <3>2, NoTransaction DEF EndStatement
      <3> QED
        BY <2>2, <3>1, <3>3, StoreRefuses
    <2>6. CASE CommitEmpty(c)
      <3>1. k = Unlocked(h) /\ UNCHANGED <<store, acked, aborted>> /\ pc[c] = "step"
        BY <2>1, <2>6 DEF CommitEmpty, fsVars
      <3>a. h.dirty = {}
        BY <2>0, <2>6, <3>1 DEF CommitEmpty, CommitWaits, HandleInv
      <3>2. Transaction(k) = Transaction(h)
        BY <2>0, <3>1, <3>a, NoTransaction
      <3> QED
        BY <2>2, <3>1, <3>2, StoreRefuses
    <2>7. CASE Rollback(c)
      <3>1. k = Unlocked(h) /\ UNCHANGED <<store, acked>> /\ aborted' = aborted \union h.dirty
        BY <2>1, <2>7 DEF Rollback, fsVars
      <3>2. Transaction(k) = Store!NoTxn
        BY <2>0, <3>1, NoTransaction
      <3> QED
        BY <2>0, <3>1, <3>2, <1>4
    <2>8. CASE Busy(c) \/ WriteFails(c)
      <3>1. /\ k = EndStatement(h) /\ UNCHANGED <<store, acked>> /\ pc[c] \in {"step", "commit"}
            /\ aborted' = aborted \union ({record[c]} \ {0})
        <4>1. CASE Busy(c)
          BY <2>1, <4>1 DEF Busy, fsVars
        <4>2. CASE WriteFails(c)
          <5>1. record[c] # 0
            BY <4>2 DEF WriteFails, RequestInv, Writes
          <5> QED
            BY <2>1, <4>2, <5>1 DEF WriteFails, fsVars
        <4> QED
          BY <2>8, <4>1, <4>2
      <3>2. CASE pc[c] = "commit" /\ ~h.txn
        <4>1. h.dirty = {record[c]} /\ record[c] # 0
          BY <3>2 DEF RequestInv, Writes
        <4>2. Transaction(k) = Store!NoTxn
          BY <2>0, <3>1, <3>2, NoTransaction DEF EndStatement
        <4>3. aborted' = aborted \union h.dirty
          BY <3>1, <4>1
        <4> QED
          BY <2>0, <3>1, <4>2, <4>3, <1>4
      <3>3. CASE ~(pc[c] = "commit" /\ ~h.txn)
        <4>1. Transaction(k) = Transaction(h)
          <5>1. CASE h.txn
            BY <3>1, <5>1 DEF EndStatement
          <5>2. CASE ~h.txn
            <6>1. h.dirty = {}
              BY <2>0, <3>3, <5>2 DEF HandleInv
            <6> QED
              BY <2>0, <3>1, <5>2, <6>1, NoTransaction DEF EndStatement
          <5> QED
            BY <5>1, <5>2
        <4>2. record[c] # 0 => pc[c] # "commit"
          BY <3>3 DEF RequestInv, Writes
        <4>3. CASE record[c] = 0
          BY <2>2, <3>1, <4>1, <4>3, StoreRefuses
        <4>4. CASE record[c] # 0
          <5>1. record[c] \in Records /\ Unused(record[c]) /\ aborted' = aborted \union {record[c]}
            BY <3>1, <4>2, <4>4 DEF RecordInv, TypeOK
          <5> QED
            BY <2>2, <3>1, <4>1, <5>1, StoreRefuses
        <4> QED
          BY <4>3, <4>4
      <3> QED
        BY <3>2, <3>3
    <2>9. CASE Commit(c) /\ h.dirty = {}
      <3>1. /\ k = Unlocked(h) /\ store' = [store EXCEPT ![h.ino] = @ \union h.dirty]
            /\ acked' = acked \union (h.dirty \X {h.ino}) /\ aborted' = aborted
        BY <2>0, <2>9, CommitFrame
      <3>2. UNCHANGED <<store, acked, aborted>>
        BY <2>9, <3>1 DEF TypeOK
      <3>3. Transaction(k) = Transaction(h)
        BY <2>0, <2>9, <3>1, NoTransaction
      <3> QED
        BY <2>2, <3>2, <3>3, StoreRefuses
    <2>10. CASE Commit(c) /\ h.dirty # {}
      BY <2>10, StorePublishes
    <2> QED
      BY <1>8, <2>3, <2>4, <2>5, <2>6, <2>7, <2>8, <2>9, <2>10, StorePuts DEF Run
  <1>9. CASE UNCHANGED vars
    BY <1>9, <1>a DEF vars, fsVars
  <1> QED
    BY <1>1, <1>2, <1>3, <1>5, <1>6, <1>7, <1>8, <1>9 DEF Next, Start, Terminate, SelectThrows

\* Requests, locks, busy timeouts, disconnects, deletions and terminations of the
\* process together implement the transactional store.
THEOREM StoreImplemented == Spec => ImplementsStore
  <1>1. Init => Store!Init
    <2> SUFFICES ASSUME Init PROVE Store!Init
      OBVIOUS
    <2>1. \A o \in Conns \X Names : Transaction(handles[o[1]][o[2]]) = Store!NoTxn
      BY NoTransaction DEF Init
    <2> QED
      BY <2>1 DEF Init, Store!Init
  <1> QED
    BY Invariance, <1>1, StoreStep, PTL DEF Spec, ImplementsStore, Store!Spec
=============================================================================
