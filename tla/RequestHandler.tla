--------------------------- MODULE RequestHandler ---------------------------
(***************************************************************************)
(* The requests of all client connections: the RequestHandler of each      *)
(* connection with its cache of database handles, the pool of threads that *)
(* runs the handlers, the databases folder, and the locks that the SQLite  *)
(* connections take on the database files.                                 *)
(*                                                                         *)
(* A connection has one request at a time (RequestsSequential of the       *)
(* module SQLiteSocket), and a request keeps its thread until it has been  *)
(* answered, while it waits for a lock as well.                            *)
(*                                                                         *)
(* A database is the set of records that have been committed to it.  A     *)
(* statement is known by what it does to the transaction and to the locks. *)
(***************************************************************************)
EXTENDS Naturals, FiniteSets

CONSTANTS
    Conns,       \* slots for client connections
    NWorkers,    \* threads of the pool
    Names,       \* the safe database names clients use
    Files,       \* the files of the databases folder
    Resolve,     \* the file that a name leads to
    Requests,    \* the requests clients send
    AuthOn,      \* Config::auth is not empty
    WalModes,    \* the journal modes to look at: WAL (TRUE) and rollback
    MaxRecords,  \* bound: write statements sent
    MaxDeletes   \* bound: DELETE_DB requests sent

\* "conflict" violates a constraint, "bad" does not compile against the schema,
\* "empty" has nothing to compile; "write" is any other change of the database.
Statements == {"select", "write", "conflict", "bad", "empty", "begin", "beginImmediate",
               "beginExclusive", "commit", "rollback"}
Absent == "absent"   \* the request does not have the field
Unsafe == "unsafe"   \* a name that is_safe_database_name refuses

\* fmt: what parse_request and the accesses to the fields make of the text.
\* "garbage" is no JSON, not even when its keys are put in quotes, "binary" is
\* not UTF-8 either, and "badType" has a field that is not a string.
RequestType ==
    [fmt  : {"json", "garbage", "binary", "badType"},
     auth : {Absent, "right", "wrong"},
     cmd  : {Absent, "QUERY", "LIST", "DELETE_DB", "OTHER"},
     db   : Names \union {Absent, Unsafe},
     stmt : Statements \union {Absent}]

ASSUME HandlerAssumption ==
    /\ IsFiniteSet(Conns) /\ IsFiniteSet(Files)
    /\ NWorkers \in Nat \ {0}
    /\ {Absent, Unsafe} \intersect Names = {}
    /\ Resolve \in [Names -> Files]
    /\ Requests \subseteq RequestType
    /\ AuthOn \in BOOLEAN /\ WalModes \subseteq BOOLEAN
    /\ MaxRecords \in Nat /\ MaxDeletes \in Nat

\* A file keeps its inode while a handle is open, even when it has been removed.
Inodes == 1 .. (Cardinality(Files) + MaxDeletes)
Records == 1 .. MaxRecords
NoInode == 0

\* The locks of a SQLite connection (unixLock); in WAL mode SHARED is a read
\* transaction and RESERVED the write lock.
NONE == 0
SHARED == 1
RESERVED == 2
PENDING == 3
EXCLUSIVE == 4

VARIABLES
    conn,     \* "open", "closed" by the peer, or "free": no SQLiteSocket
    authed,   \* m_authenticated
    handles,  \* m_databases: the SQLDatabase cached under each name
    pc,       \* the progress of the connection's request
    req,      \* the request in progress
    record,   \* the record that the request in progress writes, or 0
    reply,    \* the last response, when it is not the result of a statement
    wal,      \* the databases are in WAL mode, else in rollback mode
    dir,      \* the databases folder: the inode of each file, or NoInode
    store,    \* the records committed to each inode
    sent,     \* number of write statements sent
    deletes,  \* number of DELETE_DB requests sent
    acked,    \* history: <<record, inode>> for each acknowledged write
    aborted,  \* history: records reported as failed or rolled back
    remover,  \* history: the <<connection, name>> that removed each inode
    late      \* history: the QUERY of the connection began on a removed file

fsVars == <<wal, dir, store, remover, late>>
sentVars == <<sent, deletes>>
reqVars == <<pc, req, record, reply>>
vars == <<conn, authed, handles, reqVars, fsVars, sentVars, acked, aborted>>

NoHandle == [ino |-> NoInode, schema |-> FALSE, txn |-> FALSE, lock |-> NONE,
             snap |-> {}, dirty |-> {}]
NoRequest == [fmt |-> "json", auth |-> Absent, cmd |-> Absent, db |-> Absent, stmt |-> Absent]

HandleType ==
    [ino : Inodes \union {NoInode}, schema : BOOLEAN, txn : BOOLEAN, lock : NONE .. EXCLUSIVE,
     snap : SUBSET Records, dirty : SUBSET Records]

Running == {"prepare", "step", "commit"}

TypeOK ==
    /\ conn \in [Conns -> {"open", "closed", "free"}]
    /\ authed \in [Conns -> BOOLEAN]
    /\ handles \in [Conns -> [Names -> HandleType]]
    /\ pc \in [Conns -> {"idle", "queued"} \union Running]
    /\ req \in [Conns -> Requests \union {NoRequest}]
    /\ record \in [Conns -> Records \union {0}]
    /\ reply \in [Conns -> {"none", "ok", "error", "list", "invalidFormat", "noCommand",
                            "unknownCommand", "noDatabase", "noQuery"}]
    /\ wal \in WalModes
    /\ dir \in [Files -> Inodes \union {NoInode}]
    /\ store \in [Inodes -> SUBSET Records]
    /\ remover \in [Inodes -> SUBSET (Conns \X Names)]
    /\ late \in [Conns -> BOOLEAN]
    /\ sent \in 0 .. MaxRecords /\ deletes \in 0 .. MaxDeletes
    /\ acked \subseteq Records \X Inodes
    /\ aborted \subseteq Records

Init ==
    /\ conn = [c \in Conns |-> "free"]
    /\ authed = [c \in Conns |-> FALSE]
    /\ handles = [c \in Conns |-> [n \in Names |-> NoHandle]]
    /\ pc = [c \in Conns |-> "idle"]
    /\ req = [c \in Conns |-> NoRequest]
    /\ record = [c \in Conns |-> 0]
    /\ reply = [c \in Conns |-> "none"]
    /\ wal \in WalModes
    /\ dir = [f \in Files |-> NoInode]
    /\ store = [i \in Inodes |-> {}]
    /\ remover = [i \in Inodes |-> {}]
    /\ late = [c \in Conns |-> FALSE]
    /\ sent = 0 /\ deletes = 0 /\ acked = {} /\ aborted = {}

-----------------------------------------------------------------------------
(* The clients. *)

\* ListenSocket::do_accept makes a SQLiteSocket with a new RequestHandler.
Accept(c) ==
    /\ conn[c] = "free"
    /\ conn' = [conn EXCEPT ![c] = "open"]
    /\ UNCHANGED <<authed, handles, reqVars, fsVars, sentVars, acked, aborted>>

Writes(r) == r.stmt \in {"write", "conflict"}

Send(c, r) ==
    /\ conn[c] = "open" /\ pc[c] = "idle"
    /\ Writes(r) => sent < MaxRecords
    /\ r.cmd = "DELETE_DB" => deletes < MaxDeletes
    /\ sent' = IF Writes(r) THEN sent + 1 ELSE sent
    /\ deletes' = IF r.cmd = "DELETE_DB" THEN deletes + 1 ELSE deletes
    /\ pc' = [pc EXCEPT ![c] = "queued"]
    /\ req' = [req EXCEPT ![c] = r]
    /\ record' = [record EXCEPT ![c] = IF Writes(r) THEN sent + 1 ELSE 0]
    /\ reply' = [reply EXCEPT ![c] = "none"]
    /\ UNCHANGED <<conn, authed, handles, fsVars, acked, aborted>>

PeerCloses(c) ==
    /\ conn[c] = "open"
    /\ conn' = [conn EXCEPT ![c] = "closed"]
    /\ UNCHANGED <<authed, handles, reqVars, fsVars, sentVars, acked, aborted>>

\* The read of the request fails, because the peer is gone.
ReadFails(c) ==
    /\ conn[c] = "closed" /\ pc[c] = "queued"
    /\ pc' = [pc EXCEPT ![c] = "idle"]
    /\ req' = [req EXCEPT ![c] = NoRequest]
    /\ record' = [record EXCEPT ![c] = 0]
    /\ UNCHANGED <<conn, authed, handles, reply, fsVars, sentVars, acked, aborted>>

\* The records of unfinished transactions in the handles of connection c.
Unfinished(c) == UNION {handles[c][n].dirty : n \in Names}

\* Mutation: the handler outlives its connection.
ReleaseKeepsHandles(c) ==
    /\ conn[c] = "closed" /\ pc[c] = "idle"
    /\ conn' = [conn EXCEPT ![c] = "free"]
    /\ authed' = [authed EXCEPT ![c] = FALSE]
    /\ reply' = [reply EXCEPT ![c] = "none"]
    /\ UNCHANGED <<handles, pc, req, record, fsVars, sentVars, acked, aborted>>

\* ~SQLiteSocket, ~RequestHandler and ~SQLDatabase: sqlite3_close rolls back.
Release(c) ==
    /\ conn[c] = "closed" /\ pc[c] = "idle"
    /\ conn' = [conn EXCEPT ![c] = "free"]
    /\ authed' = [authed EXCEPT ![c] = FALSE]
    /\ handles' = [handles EXCEPT ![c] = [n \in Names |-> NoHandle]]
    /\ reply' = [reply EXCEPT ![c] = "none"]
    /\ aborted' = aborted \union Unfinished(c)
    /\ UNCHANGED <<pc, req, record, fsVars, sentVars, acked>>

-----------------------------------------------------------------------------
(* handle_request *)

\* send_response.  The result of a statement (its rows, or an SQLException)
\* is not kept: what it tells the client of its writes is in acked and aborted.
Answer(c, r) ==
    /\ pc' = [pc EXCEPT ![c] = "idle"]
    /\ req' = [req EXCEPT ![c] = NoRequest]
    /\ record' = [record EXCEPT ![c] = 0]
    /\ reply' = [reply EXCEPT ![c] = IF r \in {"data", "sqlError", "busy"} THEN "none" ELSE r]

\* A thread of the pool takes the request up.
Starts(c) ==
    /\ pc[c] = "queued"
    /\ Cardinality({d \in Conns : pc[d] \in Running}) < NWorkers

\* Mutation: the password is compared, but not required.
VerdictAuthOptional(c, r) ==
    IF r.fmt = "garbage" THEN "invalidFormat"
    ELSE IF r.fmt = "binary" THEN "throw"
    ELSE IF AuthOn /\ r.auth = "right" THEN "ok"
    ELSE IF AuthOn /\ r.auth = "wrong" THEN "error"
    ELSE IF r.cmd = Absent THEN "noCommand"
    ELSE IF r.fmt = "badType" THEN "throw"
    ELSE IF r.cmd = "OTHER" THEN "unknownCommand"
    ELSE IF r.cmd = "LIST" THEN "list"
    ELSE IF r.db = Absent THEN "noDatabase"
    ELSE IF r.cmd = "QUERY" /\ r.stmt = Absent THEN "noQuery"
    ELSE IF r.db = Unsafe THEN "noDatabase"
    ELSE r.cmd

\* The checks of handle_request, handle_query and handle_delete_db in their
\* order: the response they give, or what the request goes on to.
Verdict(c, r) ==
    IF r.fmt = "garbage" THEN "invalidFormat"
    ELSE IF r.fmt = "binary" THEN "throw"
    ELSE IF AuthOn /\ r.auth = "right" THEN "ok"
    ELSE IF AuthOn /\ ~authed[c] THEN "error"
    ELSE IF r.cmd = Absent THEN "noCommand"
    ELSE IF r.fmt = "badType" THEN "throw"
    ELSE IF r.cmd = "OTHER" THEN "unknownCommand"
    ELSE IF r.cmd = "LIST" THEN "list"
    ELSE IF r.db = Absent THEN "noDatabase"
    ELSE IF r.cmd = "QUERY" /\ r.stmt = Absent THEN "noQuery"
    ELSE IF r.db = Unsafe THEN "noDatabase"
    ELSE r.cmd

\* Mutation: an exception of any kind is passed on as if it were a response.
AnswerAtOnceCatchesAll(c) ==
    LET v == Verdict(c, req[c]) IN
    /\ Starts(c)
    /\ v \notin {"QUERY", "DELETE_DB"}
    /\ authed' = [authed EXCEPT ![c] = @ \/ v = "ok"]
    /\ Answer(c, v)
    /\ UNCHANGED <<conn, handles, fsVars, sentVars, acked, aborted>>

\* The request is answered without touching a database.
AnswerAtOnce(c) ==
    LET v == Verdict(c, req[c]) IN
    /\ Starts(c)
    /\ v \notin {"throw", "QUERY", "DELETE_DB"}
    /\ authed' = [authed EXCEPT ![c] = @ \/ v = "ok"]
    /\ Answer(c, v)
    /\ UNCHANGED <<conn, handles, fsVars, sentVars, acked, aborted>>

\* An exception that nobody catches: the process ends, in the middle of what
\* other threads do, and is started again by its supervisor.
EndOfProcess ==
    /\ conn' = [d \in Conns |-> "free"]
    /\ authed' = [d \in Conns |-> FALSE]
    /\ handles' = [d \in Conns |-> [n \in Names |-> NoHandle]]
    /\ pc' = [d \in Conns |-> "idle"]
    /\ req' = [d \in Conns |-> NoRequest]
    /\ record' = [d \in Conns |-> 0]
    /\ reply' = [d \in Conns |-> "none"]
    /\ aborted' = aborted \union UNION {Unfinished(d) : d \in Conns}
    /\ UNCHANGED <<fsVars, sentVars, acked>>

\* A field that is not a string, or a request that cannot be put into its error
\* response (json::type_error); the folder cannot be read, or the file cannot be
\* removed (filesystem_error).
Terminate(c) ==
    /\ Starts(c)
    /\ Verdict(c, req[c]) \in {"throw", "list", "DELETE_DB"}
    /\ EndOfProcess

\* Mutation: the cached handle is not erased.
DeleteDbKeepsHandle(c) ==
    LET n == req[c].db
        f == Resolve[n]
    IN
    /\ Starts(c)
    /\ Verdict(c, req[c]) = "DELETE_DB"
    /\ Answer(c, IF dir[f] # NoInode THEN "ok" ELSE "error")
    /\ dir' = [dir EXCEPT ![f] = NoInode]
    /\ remover' = [i \in Inodes |-> IF i = dir[f] THEN {<<c, n>>} ELSE remover[i]]
    /\ UNCHANGED <<conn, authed, handles, wal, store, late, sentVars, acked, aborted>>

(* handle_delete_db *)
DeleteDb(c) ==
    LET n == req[c].db
        f == Resolve[n]
        removed == dir[f] # NoInode
    IN
    /\ Starts(c)
    /\ Verdict(c, req[c]) = "DELETE_DB"
    /\ Answer(c, IF removed THEN "ok" ELSE "error")
    /\ IF removed
       THEN /\ dir' = [dir EXCEPT ![f] = NoInode]
            /\ remover' = [remover EXCEPT ![dir[f]] = {<<c, n>>}]
            /\ handles' = [handles EXCEPT ![c][n] = NoHandle]
            /\ aborted' = aborted \union handles[c][n].dirty
       ELSE UNCHANGED <<dir, remover, handles, aborted>>
    /\ UNCHANGED <<conn, authed, wal, store, late, sentVars, acked>>

\* Inodes are not used again: a handle may be open on a file that was removed.
NewInode == CHOOSE i \in Inodes : remover[i] = {} /\ \A g \in Files : dir[g] # i

(* get_database_connection: a cached handle, or sqlite3_open, which makes the *)
(* file when it does not exist.                                             *)
Query(c) ==
    LET n == req[c].db
        f == Resolve[n]
        ino == IF dir[f] # NoInode THEN dir[f] ELSE NewInode
    IN
    /\ Starts(c)
    /\ Verdict(c, req[c]) = "QUERY"
    /\ pc' = [pc EXCEPT ![c] = "prepare"]
    /\ IF handles[c][n] # NoHandle
       THEN UNCHANGED <<handles, dir>>
       ELSE /\ handles' = [handles EXCEPT ![c][n] = [NoHandle EXCEPT !.ino = ino]]
            /\ dir' = [dir EXCEPT ![f] = ino]
    /\ late' = [late EXCEPT ![c] = handles[c][n] # NoHandle /\ remover[handles[c][n].ino] # {}]
    /\ UNCHANGED <<conn, authed, req, record, reply, wal, store, remover, sentVars, acked, aborted>>

\* sqlite3_open fails: SQLException, and nothing is cached.
OpenFails(c) ==
    /\ Starts(c)
    /\ Verdict(c, req[c]) = "QUERY"
    /\ handles[c][req[c].db] = NoHandle
    /\ aborted' = aborted \union ({record[c]} \ {0})
    /\ Answer(c, "sqlError")
    /\ UNCHANGED <<conn, authed, handles, fsVars, sentVars, acked>>

-----------------------------------------------------------------------------
(* The SQLite locks on the inode of a handle. *)

HandleOf(c) == handles[c][req[c].db]

\* The locks that the other handles hold on the same file.
OtherLocks(c) ==
    {handles[o[1]][o[2]].lock : o \in
        {x \in Conns \X Names : /\ x # <<c, req[c].db>>
                                /\ handles[x[1]][x[2]].ino = HandleOf(c).ino}}

\* Mutation: an old snapshot does not keep a reader from becoming the writer.
GrantableFromOldSnapshot(c, lock) ==
    CASE lock = SHARED    -> wal \/ \A l \in OtherLocks(c) : l < PENDING
      [] lock = RESERVED  -> \A l \in OtherLocks(c) : l < RESERVED
      [] lock = PENDING   -> TRUE
      [] lock = EXCLUSIVE -> \A l \in OtherLocks(c) : l = NONE

\* In WAL mode a read transaction never waits, and the write lock goes to a
\* connection whose snapshot is the latest (else SQLITE_BUSY_SNAPSHOT).
Grantable(c, lock) ==
    LET h == HandleOf(c) IN
    CASE lock = SHARED    -> wal \/ \A l \in OtherLocks(c) : l < PENDING
      [] lock = RESERVED  -> /\ \A l \in OtherLocks(c) : l < RESERVED
                             /\ wal /\ h.lock = SHARED => h.snap = store[h.ino]
      [] lock = PENDING   -> TRUE
      [] lock = EXCLUSIVE -> \A l \in OtherLocks(c) : l = NONE

\* Mutation: in rollback mode readers are not locked out of a commit.
CommitLockReserved == RESERVED

CommitLock == IF wal THEN RESERVED ELSE EXCLUSIVE

\* The lock under which the current step of the request can be done.
Wanted(c) ==
    IF pc[c] = "commit" \/ req[c].stmt = "beginExclusive" THEN CommitLock
    ELSE CASE req[c].stmt = "select" -> SHARED
           [] req[c].stmt \in {"write", "conflict", "beginImmediate"} -> RESERVED
           [] OTHER -> NONE

\* A connection without a lock goes for SHARED or RESERVED and keeps nothing
\* while it waits; the others climb one lock at a time.
NextLock(c) ==
    LET l == HandleOf(c).lock
    IN  IF l = NONE /\ Wanted(c) > SHARED THEN RESERVED ELSE l + 1

SetHandle(c, h) == handles' = [handles EXCEPT ![c][req[c].db] = h]

\* The handle when an autocommit statement has ended, or a transaction.
Unlocked(h) == [NoHandle EXCEPT !.ino = h.ino, !.schema = h.schema]

\* Mutation: the end of any statement ends the transaction.
EndStatementAlwaysUnlocks(h) == Unlocked(h)

\* The handle after a statement: an explicit transaction keeps its locks.
EndStatement(h) == IF h.txn THEN h ELSE Unlocked(h)

-----------------------------------------------------------------------------
(* SQLStatement: sqlite3_prepare_v2, called again for as long as it is busy.  *)
(* It reads the schema, once per handle, under a SHARED lock of its own.     *)

ReadsSchema(c) ==
    /\ req[c].stmt \in {"select", "write", "conflict", "bad"}
    /\ ~HandleOf(c).schema

CanPrepare(c) ==
    /\ pc[c] = "prepare"
    /\ ReadsSchema(c) /\ HandleOf(c).lock = NONE => Grantable(c, SHARED)

Prepare(c) ==
    /\ CanPrepare(c)
    /\ req[c].stmt \notin {"bad", "empty"}
    /\ SetHandle(c, [HandleOf(c) EXCEPT !.schema = @ \/ ReadsSchema(c)])
    /\ pc' = [pc EXCEPT ![c] = "step"]
    /\ UNCHANGED <<conn, authed, req, record, reply, fsVars, sentVars, acked, aborted>>

\* SQLITE_ERROR, or no statement to step.
PrepareFails(c) ==
    /\ CanPrepare(c)
    /\ req[c].stmt \in {"bad", "empty"}
    /\ SetHandle(c, [HandleOf(c) EXCEPT !.schema = @ \/ ReadsSchema(c)])
    /\ Answer(c, "sqlError")
    /\ UNCHANGED <<conn, authed, fsVars, sentVars, acked, aborted>>

(* SQLStatement::next_row: sqlite3_step, to the end of the statement. *)

AcquireLock(c) ==
    LET h == HandleOf(c) IN
    /\ pc[c] \in {"step", "commit"}
    /\ h.lock < Wanted(c)
    /\ Grantable(c, NextLock(c))
    /\ SetHandle(c, [h EXCEPT !.lock = NextLock(c),
                              !.snap = IF h.lock = NONE THEN store[h.ino] ELSE @])
    /\ UNCHANGED <<conn, authed, reqVars, fsVars, sentVars, acked, aborted>>

\* Mutation: SQLITE_BUSY looks like success, as before version 1.2.0.
BusyIsSuccess(c) ==
    LET h == HandleOf(c) IN
    /\ pc[c] \in {"step", "commit"}
    /\ h.lock < Wanted(c)
    /\ ~Grantable(c, NextLock(c))
    /\ SetHandle(c, EndStatement(h))
    /\ acked' = acked \union (({record[c]} \ {0}) \X {h.ino})
    /\ Answer(c, "data")
    /\ UNCHANGED <<conn, authed, fsVars, sentVars, aborted>>

\* Mutation: a statement that could not commit leaves its pages in the file.
BusyNotUndone(c) ==
    LET h == HandleOf(c)
        left == IF pc[c] = "commit" /\ ~h.txn THEN h.dirty ELSE {}
    IN
    /\ pc[c] \in {"step", "commit"}
    /\ h.lock < Wanted(c)
    /\ ~Grantable(c, NextLock(c))
    /\ SetHandle(c, EndStatement(h))
    /\ store' = [store EXCEPT ![h.ino] = @ \union left]
    /\ aborted' = aborted \union ({record[c]} \ {0})
    /\ Answer(c, "busy")
    /\ UNCHANGED <<conn, authed, wal, dir, remover, late, sentVars, acked>>

\* Mutation: next_row calls sqlite3_step again for as long as it is busy.
BusyRetries(c) ==
    /\ pc[c] \in {"step", "commit"}
    /\ HandleOf(c).lock < Wanted(c)
    /\ ~Grantable(c, NextLock(c))
    /\ UNCHANGED vars

\* The lock stays out of reach until the busy timeout, or the busy handler is
\* not called at all: next_row throws.  A transaction stays as it is, COMMIT's
\* too; any other statement is undone.
Busy(c) ==
    LET h == HandleOf(c) IN
    /\ pc[c] \in {"step", "commit"}
    /\ h.lock < Wanted(c)
    /\ ~Grantable(c, NextLock(c))
    /\ SetHandle(c, EndStatement(h))
    /\ aborted' = aborted \union ({record[c]} \ {0})
    /\ Answer(c, "busy")
    /\ UNCHANGED <<conn, authed, fsVars, sentVars, acked>>

Granted(c) == HandleOf(c).lock >= Wanted(c)

Select(c) ==
    /\ pc[c] = "step" /\ Granted(c)
    /\ req[c].stmt = "select"
    /\ SetHandle(c, EndStatement(HandleOf(c)))
    /\ Answer(c, "data")
    /\ UNCHANGED <<conn, authed, fsVars, sentVars, acked, aborted>>

\* A row that cannot be put into a response (see the module QueryPath): the
\* exception is no SQLException.
SelectThrows(c) ==
    /\ pc[c] = "step" /\ Granted(c)
    /\ req[c].stmt = "select"
    /\ EndOfProcess

Begin(c) ==
    LET h == HandleOf(c) IN
    /\ pc[c] = "step" /\ Granted(c)
    /\ req[c].stmt \in {"begin", "beginImmediate", "beginExclusive"}
    /\ SetHandle(c, [h EXCEPT !.txn = TRUE])
    /\ Answer(c, IF h.txn THEN "sqlError" ELSE "data")
    /\ UNCHANGED <<conn, authed, fsVars, sentVars, acked, aborted>>

Rollback(c) ==
    LET h == HandleOf(c) IN
    /\ pc[c] = "step" /\ Granted(c)
    /\ req[c].stmt = "rollback"
    /\ SetHandle(c, Unlocked(h))
    /\ aborted' = aborted \union h.dirty
    /\ Answer(c, IF h.txn THEN "data" ELSE "sqlError")
    /\ UNCHANGED <<conn, authed, fsVars, sentVars, acked>>

\* COMMIT goes for its lock when there is something to write, and in rollback
\* mode for every transaction that has the write lock (vdbeCommit).
CommitWaits(h) == h.txn /\ (h.dirty # {} \/ (~wal /\ h.lock >= RESERVED))

CommitEmpty(c) ==
    LET h == HandleOf(c) IN
    /\ pc[c] = "step"
    /\ req[c].stmt = "commit"
    /\ ~CommitWaits(h)
    /\ SetHandle(c, Unlocked(h))
    /\ Answer(c, IF h.txn THEN "data" ELSE "sqlError")
    /\ UNCHANGED <<conn, authed, fsVars, sentVars, acked, aborted>>

CommitStarts(c) ==
    /\ pc[c] = "step"
    /\ req[c].stmt = "commit"
    /\ CommitWaits(HandleOf(c))
    /\ pc' = [pc EXCEPT ![c] = "commit"]
    /\ UNCHANGED <<conn, authed, handles, req, record, reply, fsVars, sentVars, acked, aborted>>

\* In rollback mode the first write of a transaction finds out whether the
\* file has been removed (databaseIsUnmoved), unless the file is still empty;
\* in WAL mode nothing does.
Moved(h) == ~wal /\ h.dirty = {} /\ h.snap # {} /\ \A f \in Files : dir[f] # h.ino

Write(c) ==
    LET h == HandleOf(c) IN
    /\ pc[c] = "step" /\ Granted(c)
    /\ req[c].stmt = "write"
    /\ ~Moved(h)
    /\ SetHandle(c, [h EXCEPT !.dirty = @ \union {record[c]}])
    /\ IF h.txn
       THEN Answer(c, "data")
       ELSE pc' = [pc EXCEPT ![c] = "commit"] /\ UNCHANGED <<req, record, reply>>
    /\ UNCHANGED <<conn, authed, fsVars, sentVars, acked, aborted>>

\* A constraint is violated, or the file has been removed.
WriteFails(c) ==
    LET h == HandleOf(c) IN
    /\ pc[c] = "step" /\ Granted(c)
    /\ req[c].stmt = "conflict" \/ (req[c].stmt = "write" /\ Moved(h))
    /\ SetHandle(c, EndStatement(h))
    /\ aborted' = aborted \union {record[c]}
    /\ Answer(c, "sqlError")
    /\ UNCHANGED <<conn, authed, fsVars, sentVars, acked>>

\* The pages the transaction has read and changed become the file's.
Commit(c) ==
    LET h == HandleOf(c) IN
    /\ pc[c] = "commit" /\ Granted(c)
    /\ store' = [store EXCEPT ![h.ino] = h.snap \union h.dirty]
    /\ acked' = acked \union (h.dirty \X {h.ino})
    /\ SetHandle(c, Unlocked(h))
    /\ Answer(c, "data")
    /\ UNCHANGED <<conn, authed, wal, dir, remover, late, sentVars, aborted>>

-----------------------------------------------------------------------------
Client(c) ==
    \/ Accept(c) \/ PeerCloses(c) \/ ReadFails(c)
    \/ \E r \in Requests : Send(c, r)

Start(c) == AnswerAtOnce(c) \/ Terminate(c) \/ DeleteDb(c) \/ Query(c) \/ OpenFails(c)

Run(c) ==
    \/ Prepare(c) \/ PrepareFails(c)
    \/ AcquireLock(c) \/ Busy(c)
    \/ Select(c) \/ Begin(c) \/ Rollback(c) \/ CommitEmpty(c) \/ CommitStarts(c)
    \/ Write(c) \/ WriteFails(c) \/ Commit(c)

Next == \E c \in Conns : Client(c) \/ Release(c) \/ Start(c) \/ Run(c) \/ SelectThrows(c)

Spec == Init /\ [][Next]_vars

(***************************************************************************)
(* Fairness.  A handler that has started runs on, and its waits end with   *)
(* the busy timeout; the io_context hands ready handlers to its threads in *)
(* the order of a queue, so none is passed over for ever; a connection     *)
(* that its peer has closed is destroyed (ReleasedAfterClose of the module *)
(* SQLiteSocket).  Nothing is assumed of the clients.                      *)
(***************************************************************************)
Fairness ==
    \A c \in Conns : WF_vars(Run(c)) /\ SF_vars(Start(c)) /\ WF_vars(Release(c))

FairSpec == Spec /\ Fairness

-----------------------------------------------------------------------------
(***************************************************************************)
(* A write that has been acknowledged (the response to an INSERT outside a *)
(* transaction, or to the COMMIT of one inside) is stored in its file, and *)
(* stays there whatever other connections do, and across a termination of  *)
(* the process: next_row throws on anything but SQLITE_ROW and SQLITE_DONE.*)
(***************************************************************************)
AckedStored == \A a \in acked : a[1] \in store[a[2]]

(***************************************************************************)
(* A record whose statement was answered with an error, or whose           *)
(* transaction was rolled back (by ROLLBACK, by the end of its connection, *)
(* or by DELETE_DB), is never stored and never acknowledged.               *)
(***************************************************************************)
AbortedNotStored ==
    \A r \in aborted : /\ \A i \in Inodes : r \notin store[i]
                       /\ \A a \in acked : a[1] # r

(***************************************************************************)
(* What the server relies on SQLite for: one writer per file, which works  *)
(* on the latest state of the file, and nobody else while it commits in    *)
(* rollback mode; uncommitted records belong to the holder of a write lock.*)
(***************************************************************************)
WritersSerialised ==
    \A c, d \in Conns, m, n \in Names :
        LET h == handles[c][m]
            k == handles[d][n]
        IN  /\ h.dirty # {} => h.lock >= RESERVED
            /\ h.lock >= RESERVED => h.snap = store[h.ino]
            /\ h.ino # NoInode /\ h.ino = k.ino /\ <<c, m>> # <<d, n>> =>
                  /\ h.lock >= RESERVED => k.lock < RESERVED
                  /\ h.lock = EXCLUSIVE => k.lock = NONE

(***************************************************************************)
(* A transaction reads one state of its file from its first statement to   *)
(* its last, however many requests and threads are in between: in rollback *)
(* mode nothing is committed under it, in WAL mode nothing is taken away   *)
(* from it, and either way it never sees the writes of others before they  *)
(* commit.                                                                 *)
(***************************************************************************)
ReadsStable ==
    \A c \in Conns, n \in Names :
        LET h == handles[c][n] IN
        h.lock >= SHARED =>
            /\ h.snap \subseteq store[h.ino]
            /\ ~wal => h.snap = store[h.ino]

(***************************************************************************)
(* With a password configured, a connection that has not given it has no   *)
(* database open, runs nothing, and has been answered with nothing but     *)
(* errors; a new connection in the same place starts over.                 *)
(***************************************************************************)
AuthGate ==
    AuthOn => \A c \in Conns : ~authed[c] =>
        /\ pc[c] \notin Running
        /\ \A n \in Names : handles[c][n] = NoHandle
        /\ reply[c] \in {"none", "error", "invalidFormat"}

(***************************************************************************)
(* DELETE_DB erases the handle that is cached under its name: under the    *)
(* name with which a connection has removed a file it never has that file  *)
(* open again, whatever names the file has, and its next QUERY under that  *)
(* name opens the new file.                                                *)
(***************************************************************************)
OwnDeleteFresh ==
    \A c \in Conns, n \in Names :
        handles[c][n].ino # NoInode => <<c, n>> \notin remover[handles[c][n].ino]

(***************************************************************************)
(* A connection that has ended holds no handle, so no lock that others     *)
(* would wait for; and a connection its peer has closed ends.              *)
(***************************************************************************)
HandlesReleased ==
    \A c \in Conns :
        /\ [](conn[c] = "free" => \A n \in Names : handles[c][n] = NoHandle)
        /\ conn[c] = "closed" ~> conn[c] = "free"

(***************************************************************************)
(* Every request is answered, after the busy timeout at the latest.        *)
(***************************************************************************)
EveryRequestAnswered == \A c \in Conns : pc[c] # "idle" ~> pc[c] = "idle"

(***************************************************************************)
(* A write is acknowledged only when it is in the file that is in the      *)
(* databases folder at that time, unless the file was removed after the    *)
(* QUERY had begun: then the removal came after it.                        *)
(***************************************************************************)
AckedInDatabase ==
    [][\A a \in acked' \ acked :
           \/ \E f \in Files : dir[f] = a[2]
           \/ \E c \in Conns : pc[c] = "commit" /\ pc'[c] = "idle" /\ ~late[c]]_vars

\* The transaction of a handle, as the module TransactionalStore has it.
Transaction(h) == [base |-> IF h.dirty = {} THEN NoInode ELSE h.ino, writes |-> h.dirty]

Store ==
    INSTANCE TransactionalStore
    WITH Owners <- Conns \X Names, Bases <- Inodes, NoBase <- NoInode,
         txn <- [o \in Conns \X Names |-> Transaction(handles[o[1]][o[2]])]

(***************************************************************************)
(* Requests, locks, busy timeouts, disconnects, deletions and terminations *)
(* together are a transactional store: the writes between BEGIN and COMMIT *)
(* get into the file in one step or never, no two connections have writes  *)
(* on their way into one file, and no write is both refused and stored.    *)
(***************************************************************************)
ImplementsStore == Store!Spec
=============================================================================
