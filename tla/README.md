# sqlite-server: a TLA+ verification project

sqlite-server is a multi-threaded TCP server (C++, Boost.Asio) that gives clients access to
SQLite databases over a length-prefixed JSON protocol. This directory holds TLA+ modules
that model it, TLC configurations that check them on small instances, and proofs checked by
TLAPS. `PROJECT.json` links every definition to the lines it models, every property to a run
and to a mutant of the code that breaks it, and every hazard to the properties that cover it.

To check a run: `tlc -config <run>.cfg <module>`; to check the proofs of a module:
`tlapm <module>.tla` for `SQLiteSocketProofs`, `RequestHandlerProofs` (about five minutes),
`SqliteClientProofs`, `QueryPathProofs`, `RoundTripProofs`, `NetworkWorkerProofs`, `ConfigProofs`
and `NumberInduction`.

## 1. The system

| Component | State | Operations | Talks to |
|---|---|---|---|
| `main`, `Config` | options; limits, password, whitelist, endpoint, folder | `init`, `is_ip_allowed` | read by all |
| `NetworkWorker` (`Network.h`) | one `io_context`, `workers` threads, a signal set | `run`, `stop` on SIGINT/SIGTERM | runs all completion handlers |
| `ListenSocket` | acceptor, next socket | `do_accept`: whitelist, new `SQLiteSocket`, accept again | `SQLiteSocket` |
| `SQLiteSocket` | `m_packet_size`, `m_request`, queue `m_out_packets`, its handler | `do_read`, `send_response`, `do_write` | TCP peer, `RequestHandler` |
| `RequestHandler` | `m_authenticated`, cache `m_databases` | `handle_request`: authentication, QUERY, LIST, DELETE_DB | SQLite wrapper, databases folder |
| `SQLDatabase`, `SQLStatement` | `sqlite3*`, `sqlite3_stmt*` | open, prepare, step, close | SQLite |
| SQLite (vendored) | locks, journal or WAL, transactions | `sqlite3_*` | files |
| `Response` | the encoded packet | 4-byte length, body | `SQLiteSocket` |
| Python client | socket | `connect`, `query`, `close` | the server |
| `Logger` | none | output | |

Every connection is a `SQLiteSocket` that is kept alive by its pending operations
(`shared_from_this`). Its handlers run on whichever thread of the pool is free; there is no
strand and no mutex. The *read chain* (header, body, `handle_request`, `send_response`,
`do_read`) and the *write chain* (`async_write`, its handler, the next `async_write`) of one
connection share `m_out_packets`. `handle_request` is synchronous: while a statement waits
for a lock, its thread waits too. Connections meet in the thread pool, in the databases
folder, and in the file locks of SQLite.

### What is hard about it, and what correctness means

* **One connection, two chains, many threads.** Requests are handled one at a time and in
  order; every response is sent once and in order; no response is left in the queue with
  nobody to send it; nothing but an oversized frame makes the server hang up; a connection
  whose peer is gone is destroyed.
* **Several connections, one database.** What has been acknowledged is stored; what has been
  reported as failed or was rolled back is not; there is one writer at a time, on the latest
  state; every request is answered although a busy lock, a silent client in a transaction,
  or a pool with all its threads waiting is in the way; the locks of a connection go with it.
* **The life of a database file.** `DELETE_DB` removes a file on which other connections
  have a cached handle.
* **Authentication** is state of a connection.
* **The client**. A call returns the answer to its own request although the stream is cut
  anywhere, the server hangs up, or a call has timed out before; no request is run twice;
  every call returns.
* **The way of a value** from a parameter through SQL text, table and JSON back to the client,
  and the columns of a result while other connections change the table.
* **Numbers**: frame size limits, the length prefix, narrowing of options, 64-bit integers.

The list with line numbers is under `hazards` in `PROJECT.json`.

## 2. The modules

| Module | Models | Lines of the source |
|---|---|---|
| `RpcChannel` | abstract specification of a connection: requests, replies, open | none: the promise to the client |
| `SQLiteSocket` | one connection and the threads that run its handlers | `SQLiteSocket.cpp`, `Network.h`, client `_send_data` |
| `SQLiteSocketProofs` | theorems about `SQLiteSocket` | |
| `RequestHandler` | the requests of all connections, the databases folder, the SQLite locks | `RequestHandler.cpp`, `sqlite3_wrapper/`, parts of `sqlite3.c` |
| `RequestHandlerProofs` | theorems about `RequestHandler`, among them that it implements `TransactionalStore` | |
| `TransactionalStore` | abstract specification of the databases: transactions that are published as a whole or not at all | none: the promise to the clients |
| `MCRequestHandler` | request sets for TLC | |
| `SqliteClient` | the Python client's calls over a byte stream, the frames of `Response` | `sqlite.py` (class `Sqlite`), `Response.cpp`, the framing of `SQLiteSocket.cpp` |
| `SqliteClientProofs` | theorems about `SqliteClient` | |
| `QueryPath` | the way of a row: parameters, literals, columns, JSON, result | `sqlite.py`, `handle_query`, `SQLStatement.h`, parts of `sqlite3.c` |
| `QueryPathProofs` | theorem about the shape of results | |
| `RoundTripProofs` | theorems about the way of the values: what is read from any statement, and that they come back | |
| `MCQueryPath` | parameters, templates and select lists for TLC | |
| `NetworkWorker` | the process: accept loop, thread pool, signals, shutdown | `Network.h`, `ListenSocket.h`, end of `main.cpp` |
| `MCNetworkWorker` | setups of the server for TLC | |
| `NetworkWorkerProofs` | theorems about `NetworkWorker` | |
| `Config` | the start: settings, integer conversions, whitelist | `Config.cpp`, `Config.h`, `main.cpp` |
| `ConfigProofs` | theorems about `Config` | |
| `MCConfig` | settings for TLC | |
| `NumberInduction` | induction over numbers, in the form the proofs use | |

`SQLiteSocket` hands over to `RequestHandler`: the action `HandleRequest` of the first is
one call of `handle_request`, whose steps the second has; `RequestsSequential`, proved of the
first, is why a connection has at most one request in the second. `NetworkWorker` has all
connections, each with one request that is known only by whether and how its thread comes back, which is
what `RequestHandler` tells of it (`Busy` ends a wait, the loop of `Prepare` does not, `EndOfProcess`
is the exception of `RequestThrows`).
`SqliteClient` uses a server that is known only by `RpcChannel`, the promise that
`SQLiteSocket` implements with one thread: its server actions are `Channel!Request`,
`Channel!Reply` and `Channel!Close` with the bytes added. `QueryPath` opens up what is one
`Select` in `RequestHandler`; when its result cannot be encoded, that is `SelectThrows` there.

### SQLiteSocket

Requests are numbered as the client sends them, and the response to request *n* is packet
*n*. `read` is the pending `async_read` with its completion; `writing`, `writeDone` and
`writeFailed` are the `async_write`s that are in progress, and the completions that wait for
a thread. `pc[w]` is where thread *w* is inside a handler. The body handler is the sequence
`RunBodyHandler`, `HandleRequest`, `CheckInProgress` (line 60), `Push` (61), `StartWrite` (63),
`RearmRead` (49), and the write handler `RunWriteHandler`, `Pop` (74), `CheckEmpty` (75),
`WriteNext` (76): one action for each access to `m_out_packets`. Each access is atomic in the
model, so what the runs find does not depend on the inner workings of `std::queue`. Undefined
behaviour is a choice: `pop()` of an empty queue ends the process; `front()` of one ends it or
sends garbage. `HandleRequestThrows` is an exception that leaves `handle_request`; nothing
above it in `NetworkWorker::run` catches it, and the process ends (`up`).

The client may send up to `Window` requests ahead of the replies it has read (1: the
request/reply discipline of the README; more: pipelining), may split a frame anywhere
between header and body, and may close at any time. Reads and writes fail only when one side
has closed.

### RequestHandler

A database file is an inode (a removed file lives on while a handle is open), and its content
is the set of records committed to it; each write statement writes a record of its own, so
lost, duplicated and resurrected writes can be told apart. A handle has the SQLite state that
decides about waiting and failing: whether the schema has been read, whether an explicit
transaction is open, its lock, the state it reads (`snap`) and the records it has not
committed (`dirty`). Statements are classes: `select`, `write`, `conflict` (violates a
constraint), `bad` (does not compile), `empty` (nothing to compile), the three `BEGIN`s,
`commit`, `rollback`.

`Verdict` is the order of checks in `handle_request`, `handle_query` and `handle_delete_db`.
A request that passes them runs through `Query` (`get_database_connection`), `Prepare` (the
loop around `sqlite3_prepare_v2`), one `AcquireLock` per lock of the ladder, and then the
effect of its statement; `Busy` is the end of the busy timeout. Time is not modelled: a wait
may end with the timeout whenever the lock is not free, which covers every timeout and also
the cases in which SQLite does not call the busy handler at all. The journal mode `wal` is fixed from the start. In rollback mode locks are
SHARED, RESERVED, PENDING, EXCLUSIVE; in WAL mode SHARED stands for a read transaction and
RESERVED for the write lock, which needs the latest snapshot (`SQLITE_BUSY_SNAPSHOT`).
In rollback mode the first write of a transaction fails when the file has been removed, unless the
file is still empty (`Moved`), and a COMMIT goes for the exclusive lock whenever the transaction has
the write lock, also when it has written nothing (`CommitWaits`): it can be busy and stays PENDING then.
A `Commit` makes what the transaction has read and written (`snap` and `dirty`) the content of
the file, as pages are written back: a writer on an old state would undo the commits of others.
`EndOfProcess` is an exception that nobody catches, followed by a restart: all connections and
unfinished transactions are gone, files stay. `Terminate` has the ways into it before a
statement (a field that is not a string; a request that is no JSON and no UTF-8, which cannot
be repeated in the error response; a folder that cannot be read or a file that cannot be
removed), `SelectThrows` the one behind a statement (a result that cannot be encoded).
A file may have several names (`Resolve`), since `is_safe_database_name` accepts `./db` for `db`.
Two variables are history that no action reads: `remover` has the connections that have removed an
inode, with the name they gave, and `late` whether the file of a
request's cached handle had been removed before the request began.

`TransactionalStore` is what all of this amounts to: `Put`, `Publish`, `Abort` of any set of
transactions at once, `Refuse`. In the refinement mapping (`Store`) the transaction of a handle
is its `dirty` set with the inode it belongs to; locks, snapshots, requests and threads are not
part of the promise.

### SqliteClient

A byte is known by the message it belongs to, its position and the size of the message, so that
a reader that is out of step can be told from one that is not: `SizesOf` reads a length from any
`HeaderBytes` bytes, and any length when they are not one header. `Call` is `_send_query` or, for
the first call with a password, `_send_auth`; `Recv` is one `recv` of `_read_n_bytes` with as
many bytes as happen to be there; `RecvTimesOut`, `RecvEof` and `RecvReset` are the ways in
which it ends early. The client uses its connection on after each of them (except in the
handshake, where the exception leaves no object). `SendTimesOut` leaves a part of a frame in the
stream. The server reads frames and closes at an oversized one, as in `SQLiteSocket`; a body
that is not the payload of one request is no valid JSON and is answered as such. Prefixes have
`Prefixes` values, and a response may be larger.

### QueryPath

`ClientSidePrepare` makes a text of a template and parameters, `ValuesOf` reads it as the
tokenizer of SQLite does, `Insert` stores the values. The tokenizer is an automaton over the
characters and the literals that are no texts: it is between two literals (`Outside`), in a text
(`Inside`), behind a quote in a text, which the next character makes the end of the text or the first
of a pair (`AtQuote`), or at the end (`AtEnd`). `ReadNext` is its step and `Scan` its run over a text. Then another connection may change the
table before and after `PrepareSelect`, which takes the number and the names of the columns, and
`StepSelect`, in which `sqlite3_step` compiles the statement again when the schema it was
compiled with is not the current one; the loop over the columns goes on with the old number. A
row is a function from names to values, so equal names collapse. An integer literal beyond `MaxInt`
is a float, and beyond `MaxDouble` an infinite one (`Stored`), which JSON has no number for. A `str`
with a lone surrogate makes a request that the server cannot parse (`Unparsable`). `Encode` is the conversion of a
value to JSON and to Python; `Scalar` and `DecodeBlobLiteral` are the client's.

### NetworkWorker

`setup` is what the server was started with: its threads, its whitelist, its descriptors, and the
clients that come. `main` is in `run()`, has returned from it, has exited, or was terminated. Each thread polls, is in the
`handle_request` of a client (`pc[w]` is the client), or has returned from `io_context::run`. The kind
of a request is chosen when its handler starts, which is when the server learns of it.
The accept handler is one action for each way through it: `AcceptClient`, `RejectClient` (not in
the whitelist, or its address cannot be asked for because it has gone), `AcceptError`; all of them
end with the next `async_accept`, which fails at once when `m_socket` is still open. Descriptors
are a bound (`MaxSockets`), so that accept errors happen. `StopService` is the signal handler;
after it no handler starts and no completion is fetched. `RunReturns` (after `join_all`) destroys
the `ListenSocket`, `Exit` the `io_context` and with it the connections. `RequestThrows` is an exception
that leaves `handle_request`: nothing catches it, and the process is terminated from the thread of the
pool. A thread is `Stuck` while its request repeats `sqlite3_prepare_v2` behind the lock of another
connection; with all of them stuck (`PoolStuck`) no handler runs any more. The check for
`m_acceptor.is_open()` in the accept handler has no action: the acceptor is closed only by the
destructor of `ListenSocket`, when no thread is left to run the handler. Responses are not
modelled here; a connection ends with its failed read.

### Config

The settings are an input; a number can be in or out of the range of its type, missing, or of
another type. `Read` has the two conversions: `nlohmann::json` casts (modulo 2^w), Boost's
`lexical_cast` refuses. `Ends` has what becomes of each part of `Config::init`, in its order: it goes
on, or ends the process with a message and `exit` or with an exception `main` does not catch;
`Refuse` is the first that does not go on. `TwoTo` is the power of two, as a recursive function. `AddWhitelistEntry` is one turn
of the loop, `IsIpAllowed` the test at accept. `Endpoint` has the fallback for a host without an IPv4
address, `BusyWait` the cast of the busy timeout to `int`. The text of entries, the options `--help` and
`--version`, and log output are left out.

## 3. The runs

Connections, threads and records are few because the properties are about pairs: two
threads meet in one queue, two connections in one file.

| Run | Configuration | Bounds | Shows |
|---|---|---|---|
| `socket_pool` | `MCSQLiteSocketPool` | 2 threads, 3 requests, window 2, sizes at and above the limit | `TypeOK`, `RequestsSequential`, `ClosedOnlyForSize`, `ReleasedAfterClose` hold with concurrent handlers |
| `socket_single` | `MCSQLiteSocketSingle` | 1 thread, 4 requests, window 3, sizes 0, 1, 2 with limit 1 | `ResponsesInOrder`, `WriteDriven`, and the refinement `ImplementsRpcChannel` with liveness |
| `socket_lost_reply` | `MCSQLiteSocketLostReply` | 2 threads, 2 requests, window 1 | **violated** `AnsweredEventually` |
| `handler_statements` | `MCRequestHandlerStatements` | 2 connections, 2 threads, 2 records, both journal modes, the statements that get to a step | `AckedStored`, `AbortedNotStored`, `WritersSerialised`, `ReadsStable`, and the refinement `ImplementsStore` |
| `handler_commands` | `MCRequestHandlerCommands` | 2 connections, 1 thread, 2 names of 1 file, 1 record, 1 deletion, password on | `TypeOK`, `AuthGate`, `OwnDeleteFresh` across disconnects and restarts |
| `handler_answers` | `MCRequestHandlerAnswers` | 2 connections, 1 thread, 1 record, WAL | `EveryRequestAnswered`, `HandlesReleased` |
| `handler_prepare` | `MCRequestHandlerPrepare` | 2 connections, 2 threads, rollback mode | **violated** `EveryRequestAnswered` |
| `handler_deleted` | `MCRequestHandlerDeleted` | 2 connections, 2 threads, 2 records, 1 deletion, WAL | **violated** `AckedInDatabase` |
| `server_life` | `MCNetworkWorkerLife` | four setups: 1 thread, 3 allowed clients, 4 descriptors; 2 threads, 2 clients; 1 thread, 2 clients (1 not allowed), 1 descriptor; no thread | `TypeOK`, `AcceptLoopArmed`, `OnlySessionsServed`, `WaysToEnd`, `AllowedServed`, `StopsAfterSignal` |
| `client_calls` | `MCSqliteClientCalls` | 3 calls with and without a password, headers of 2 bytes with 4 values, payloads of 2 bytes and of 4 (which is 0 in the prefix) | `TypeOK`, `OwnAnswer`, `AtMostOnce`, `EveryCallReturns` |
| `query_path` | `MCQueryPathRow` | up to 2 parameters of 32 values (texts of up to 2 characters, with NUL, with a lone surrogate, like a BLOB literal; blobs; integers on both sides of the limits of 64 bits and of a double; NaN, infinity), 7 templates, 3 select lists, 1 change of the table | `RoundTrip`, `ResultShape` |
| `config_start` | `MCConfigStart` | addresses of 3 and 2 bits, integers of 1 and 2 bits, all whitelists of up to 2 entries, each setting at its edges | `WhitelistExact`, `OptionsNotTruncated` |

Two requests are enough for the races on `m_out_packets` (the write handler of one response
meets `send_response` of the next); three and four let an older write overlap two younger
ones. Two connections are enough for every conflict of locks, because a lock is refused by
one other holder; two records let a transaction be half of what is written. One thread in
`handler_answers` is the hardest pool: the COMMIT that would free a lock waits for the thread
that waits for the lock. The connections of `handler_statements` and
`handler_commands` are symmetric (safety only). `handler_statements` has no `DELETE_DB`; that a
removal does not bring back or lose a write is what the theorems `FailedWritesNotStored` and
`AcknowledgedWritesStored` add for any number of removals. `handler_commands` has two names of one
file, so that a handle can outlive the removal under the other one. `handler_statements` leaves `BEGIN IMMEDIATE` to
`handler_answers`: in WAL mode it is the same as `BEGIN EXCLUSIVE`, in rollback mode a transaction
whose first write violates a constraint is in the same state. The setups of `server_life` are
the smallest in which a thread can be missing: with one thread one client has the lock, one is in the
prepare loop, and the third waits for the accept handler, or a signal for its own; with two threads one
is in the loop while the other runs the handler of the signal. Each of the conditions that
`AllowedServed` and `StopsAfterSignal` put on threads in the loop is needed in this run: without it TLC
finds a counterexample.
With one descriptor an allowed client can wait behind a rejected one and behind an exhausted process.
Two whitelist entries show
whether entries disturb each other, and three bits have every kind of prefix: none, part, full.
Three calls are enough for an answer that is two calls late, two bytes of header for a header
that is cut, and four prefix values for a response that does not fit. Two columns let one be
dropped and one stay, and one change comes between any two of the steps.
The socket, server, client, query and config runs switch deadlock checking off: the client may stop sending and
the number of requests is bounded; a process that has exited, or listens, has nothing left to do.

### What the violations are

1. `socket_lost_reply`. The write handler of response *n* is about to `pop()` on one thread
   while `send_response` of response *n+1* on another sees the queue non-empty and starts no
   write. If the handler evaluates `empty()` before the push, nobody sends response *n+1*, and
   a client that waits for it waits for ever. A client that sends one request at a time is
   enough: TCP delivers response *n* before the server's thread runs its write handler.
2. `handler_prepare`. The loop around `sqlite3_prepare_v2` repeats on `SQLITE_BUSY`, so the
   first statement of a handle, which must read the schema, is not subject to the busy timeout
   the README promises, as long as another client keeps an exclusive transaction open.
3. `handler_deleted`. A connection with a cached handle begins a QUERY after another connection
   has removed the file; in WAL mode its write is acknowledged and is in no database of the
   folder, where the README says that a QUERY creates a database that does not exist. A QUERY that
   was already running at the removal is not counted: the removal can be taken to come after it.

The first disappears with one thread, which `socket_single` checks and the proofs establish for
any number of requests.

### Limits that the modules show without a run

* With two threads a response can also be sent twice: between `pop()` and `empty()` of the write
  handler, `send_response` on another thread finds the queue empty, pushes and starts a write, and the
  write handler, which now finds the queue non-empty, starts another for the same packet.
  `ResponsesInOrder` is therefore checked and proved with one thread; TLC refutes it with two.
* With no thread (`workers` 0, 65536 in a config file, or the default when the number of cores is not
  known) `RunReturns` is possible at once: the server ends without a signal, where `main.cpp:65` has "run
  forever". `WaysToEnd` names this case.
* A request in the loop around `sqlite3_prepare_v2` can keep the process from ending after a signal in
  two ways. When all threads are in the loop, the handler of the signal never runs.
  When the handler has run, `stop()` keeps the `io_context` from running anything more, so neither the
  COMMIT nor the end of the connection that has the lock is seen, and `join_all` waits for ever.
  `StopsAfterSignal` says that there is no third, and `AllowedServed` that only a pool all of whose
  threads are in the loop leaves a client waiting.
* An exception in a request ends the server, with the connections of all clients; `WaysToEnd` says that
  it takes a client of the whitelist. Before authentication it is possible too (`Terminate`): `AuthGate`
  is about effects and answers.
* After a timeout the client uses its connection on, and the next `query()` may return the answer
  to the earlier one; after a timeout in `sendall` the server may read the next request as the
  rest of a cut one. A response of 2^32 bytes or more has the same effect. `OwnAnswer` says that
  nothing else has.
* A result can have columns that its rows do not have, when another connection renames a column
  between `prepare` and the first step; when it drops one, the name of a column is a null pointer
  and the process ends, as it does for a text that is not UTF-8. Of two columns with one name the
  last is in the row, and `scalar()` returns it for the first.
* A float that is not finite comes back as `None`, an integer beyond 64 bits as a float, one beyond the
  range of a double as `None`; a text with a NUL or a lone surrogate cannot be inserted by the client,
  and a text with a NUL is cut there when it is read.
* A handle under another spelling of a name (`./db`) survives a `DELETE_DB` of the same connection, and
  its next QUERY with that spelling works on the removed file: `OwnDeleteFresh` is about the name that
  was given.
* `Endpoint`: for a host without an IPv4 address the server listens at 127.0.0.1:3333, and the port
  that was given is dropped, where the README has "Listen address" and "Listen port".
  `OptionsNotTruncated` says nothing of such hosts.
* `BusyWait`: a busy timeout of 2^31 ms or more is negative as an `int`, and SQLite takes that for
  no waiting at all.
* `Read`: a number of the config file that does not fit its type is truncated, where the same number on
  the command line is refused.

### Fairness

* `SQLiteSocket`: weak fairness of each step of a thread inside a handler (threads run on) and
  of the completion of operations (TCP delivers what was sent, the client reads what it is
  sent, an operation on a closed connection fails); strong fairness of the start of a ready
  handler (the threads are not idle all the time, but the ready queue of `io_context` is first
  in, first out). A write to a peer that is gone may succeed for a while, but not for ever:
  strong fairness of `WriteFails`. Nothing is assumed of when the client sends or closes.
* `RequestHandler`: weak fairness of a running request, whose waits end with the busy timeout;
  strong fairness of starting a queued one (the ready queue of `io_context` is first in, first
  out, so a thread that becomes free again and again gets to it); weak fairness of `Release`
  (`ReleasedAfterClose` of `SQLiteSocket`). Nothing is assumed of clients: one may stay silent
  inside a transaction for ever.
* `NetworkWorker`: weak fairness of threads and of `main`; strong fairness of starting each kind of
  ready handler and of accepting each waiting client (both queues are first in, first out, but a
  thread or a descriptor is not free all the time). Nothing is assumed of a thread in the prepare loop
  but that it leaves it when the lock is free, and nothing of clients, which may keep a lock for ever.
  `AllowedServed` is conditional on descriptors becoming free again and again.
* `SqliteClient`: weak fairness of a call in progress, which receives what is there, sees the end
  of the stream, or gives up after its timeout. Nothing is assumed of the server, which may never
  answer.

## 4. The proofs

`SQLiteSocketProofs` proves, for all values of the constants that satisfy
`SocketAssumption` (a natural number as limit, natural sizes, a positive window):

* `TypeCorrect`: `Spec => []TypeOK`, which includes that a thread that handles a request has one, and
  that no packet of the queue is garbage: only `front()` of an empty queue makes one.
* `RequestsAreSequential`, `ClosesOnlyForSize`: for any set of threads. Neither property is
  inductive. The invariant `ReadInv` says that the read chain is in one place
  (`ChainInOnePlace`: no read is pending while a thread is in the body handler, and at most one
  is), that the handled requests are `1, 2, ...`, have arrived, and are within the limit
  (`HandledInv`), which request a pending or completed read is for (`PendingInv`) and which one
  a thread in the body handler has (`HandlerInv`), and that a socket closed by the server is at
  an oversized frame with the read chain ended (`CloseInv`).
* `ResponsesAreInOrder`, `WritesAreDriven`: under `OneThread` (the pool has one thread). The
  invariant `WriteInv` adds that there is at most one write, completion or handler in the write
  chain, and one when the queue is not empty and the connection is up (`TokenInv`), that the
  queue holds consecutive packets that end with the last one pushed (`QueueInv`), and that the
  client has received the packets before them, and the first of them when its write is complete
  (`ClientInv`). The assumption is needed: with two threads the run `socket_lost_reply` is a
  counterexample.
* `ImplementsChannel`: under `OneThread`, `Spec => Channel!Spec`, where the channel's requests
  are the frames sent in full, its replies the packets received, and it is open while both
  sides of the connection and the process are. Each step is a step of `RpcChannel` or stutters.

`ReadInv` and `WriteInv` were checked with TLC before they were proved.

`NetworkWorkerProofs` proves, for any setups, under `WorkerAssumption` (the whitelist is a set of clients,
and the sentinels are no clients), `ServerTypeCorrect`, `AcceptLoopIsArmed`, `OnlySessionsAreServed` and
`ServerEnds`, that `WaysToEnd` are all the ways in which the server ends. The inductive invariant has three parts: `m_socket` is
connected exactly from the accept to the end of its handler (`SocketInv`); sessions are of the
whitelist, threads and locks belong to sessions, and the server has no connection to a client that
is away (`SessionInv`: without the last part a client could connect a second time over its own
session); `run()` waits for the threads, the threads for `stop()`, and `stop()` for a signal, unless
an exception of a session's request has ended all of it (`ShutdownInv`).

### RequestHandler

`RequestHandlerProofs` proves, for any finite sets of connections and files, any names and
requests, any number of threads, with and without a password, in both journal modes, under
`HandlerAssumption` (the bounds are natural numbers, there is a thread, and the sentinels for a missing
and an unsafe name are no names):

* `AcknowledgedWritesStored`, `FailedWritesNotStored`, `OneWriterPerFile`,
  `TransactionsReadOneState`, `PasswordFirst`, `TypeCorrect`: the invariants of the runs
  `handler_statements` and `handler_commands`.
* `OwnDeletionSeen`: `OwnDeleteFresh`, for any names of any files. It is about the name the connection
  gave; of its other names of the file it would not be true.
* `NothingLeftOpen`: the slot of a connection that has been released holds no handle, hence no lock
  and no transaction. This is the safety half of `HandlesReleased`; that the release comes is liveness.
* `StoreImplemented`: `Spec => Store!Spec`, the property `ImplementsStore` of the run. Each step of
  the server maps to one of the store: an execution of a write to `Put`, the commit to `Publish`,
  every end without a commit (rollback, the end of a connection, the end of the process with the
  transactions of all connections at once) to `Abort`, a write that fails before it is in a
  transaction to `Refuse`, and everything about requests, threads, locks and snapshots, also the COMMIT
  of a transaction that has written nothing, to a stutter.

None of the properties is inductive. `Inv` adds to them:

* `RequestInv`: which statement and which handle a running request has; one that waits for the
  exclusive lock (`commit`) is a COMMIT of an explicit transaction, or a single write in autocommit
  mode whose record is all there is to commit. Without the second case `Commit` could acknowledge
  what was never written.
* `HandleInv`: outside a transaction only the statement that is committing has uncommitted
  records; so a failure in autocommit mode has nothing more to undo.
* `LockInv`: `WritersSerialised` and `ReadsStable` together. A commit replaces the file by the
  writer's snapshot and changes; it loses no acknowledged record only because the snapshot of
  the one writer is the latest state, and it disturbs no reader only because in rollback mode the
  exclusive lock excludes readers.
* `RecordInv`: a record is given out once and is in one place: in a request, in one transaction,
  in a file, or among the refused. The two properties of the records are consequences of this
  together with `LockInv`.
* `FolderInv`: the names of the folder are of different files that nobody has removed, and an open
  handle is on its name's file unless that was removed.
* `BudgetInv`: the files removed and the requests that may still remove one are no more than the
  DELETE_DB requests sent. By counting (`FreeInode`) there is always an inode for
  `sqlite3_open` to create.
* `FreeInv`: a slot without a connection has nothing of the one before.

### SqliteClient

`SqliteClientProofs` proves, for all sizes of header, prefix, requests, responses and packets and any
number of calls that satisfy `ClientAssumption`, `ClientTypeCorrect`, `RequestsReadOnce` and
`CallsGetTheirOwnAnswer`.

* `TypeInv` strengthens the type invariant by what `recv` relies on: the client asks for
  `HeaderBytes` while it reads a header, has nothing buffered between calls, and the server has
  answered no more than it was asked.
* `OnceInv`: the bytes on their way to the server are of requests in ascending order, and above all
  that it has read. A frame that was cut by a timeout leaves a gap and nothing twice, which is why
  a request is read at most once even by a server that is out of step.
* `AlignInv`: until a timeout or a wrapped prefix, client and server are in step (`Aligned`): between
  calls nothing is on its way, and during a call either the request is on its way or being read
  (`Asking`), or what has been received and what is to come are together one frame, the answer to this
  call (`Answering`, `Answered`). The work of the proof is that `recv` may cut this frame anywhere
  (`Joined`, `Parted`) and still the length and the payload are understood
  (`HeaderUnderstood`, `PayloadUnderstood`).

### Config

`ConfigProofs` proves, for integers and addresses of every width, `OptionsAreExact` and
`WhitelistIsExact`. `OptionsInv` says that a loaded configuration consists of the numbers that were
read, of the command line or of the config file, and that none of them had failed, `WhitelistInv` that the networks are those of the entries
that the loop has passed, none of them invalid. The step from there to the property is arithmetic
(`SameNetwork`): two addresses have the same network address exactly when one is in the range of the
other, for any prefix length. The provers have no rule for the operator `^`; `Config` has `TwoTo`
instead, a recursive function, of which `PowersOfTwo` shows by induction that its values are positive.
Nothing is assumed of powers. That `TwoTo(n)` is `2 ^ n` is evaluated by TLC, in `MCConfig`, for the
widths up to 16.

### QueryPath

`QueryPathProofs` proves `ResultsHaveTheirShape` for any parameters, any select list and any number of
changes by others, under `SelectAssumption` (a select list is a sequence of pairs of names).
`ShapeInv` says that table and schema have at least one column and that the columns of a statement
that waits for its first step are those of the schema it was compiled with; the table may be another
one by then. `RowDataFacts` is about the row as an object: which names it has, and that the last of
equal names wins.

`RoundTripProofs` proves three theorems, for parameters and texts of any length, the last for any
templates and parameters that satisfy `StatementAssumption` (parameters are values of Python, a template
has one placeholder per column, selects name columns the client knows):

* `StatementScanned`: whatever the client makes of a template and parameters, `ValuesOf` reads one value
  per placeholder, and it is that of the parameter; if a text of them has a NUL, it reads an error.
  So no parameter reaches beyond its place: a quote in one neither ends it nor swallows the next.
* `BlobDecoded`: `blob()` of the client undoes the BLOB literal that the server makes of any bytes.
* `ValuesRoundTrip`: `Spec => []RoundTrip`, the property of the run `query_path`, with what it says of
  conversions: which parameters come back as another value, and that the INSERT fails only for a text
  with a NUL or a lone surrogate.

The texts are defined by recursion, and the library's induction theorems, which take a predicate,
cannot be used by the installed provers. `NumberInduction` therefore states induction for a *set* of
numbers: it follows from the existence of least elements, and a proof by induction defines the set of
the numbers for which its claim holds. Recursion is used in two steps. A recursive function in a
definition stands for a `CHOOSE`, so it is first shown that a function with these equations exists
(`ScanExists` for `Scan`, `FlattenExists` for `FlattenSeq`, `TwoToExists` for `TwoTo` in `ConfigProofs`);
then the value is known by the equations (`Reads`, `Joins`). The argument on top of them:

* `ScanConcat`: reading `t \o u` is reading `u` from where the reading of `t` has stopped. This is
  what lets a statement be read piece by piece.
* `CharScanned`, `SpellScanned`, `TextScanned`: one character of a text, then all, with doubled quotes,
  between quotes. The tokenizer that reads what `Spell` writes is inside the text with exactly the
  characters written so far; at a NUL it is at the end with an error, and stays there (`EndScanned`).
* `PieceScanned`: a literal of any type, or a placeholder without a parameter, and the comma behind it
  add one value and leave the tokenizer between two literals.
* `StatementScanned` puts the pieces together, by induction over the template.
* `HexDigitsOf`: the digits of a BLOB are at twice the position of its bytes, from which `BlobDecoded`
  reads them back.
* `ValueFacts`: which values `Encode` and the client give back for each parameter.

`TripInv`, the inductive invariant, has `ShapeInv`, that the calls are of the constants, and, until
another connection changes the table, that the schema is the first one, that from the INSERT on the
table has the client's names with the values of the parameters and none of these has a NUL, that a call
fails only when one has or when one has a lone surrogate, that an answer is from a statement compiled with the current schema, and that
the process has not ended. The row is then the one `ShapeInv` gives for this table. `RoundTrip` is only
about statements without such changes, which is why the part is conditional on `changes = 0`.

`Inv` of `RequestHandlerProofs`, the invariants of `SqliteClientProofs`, those of `ConfigProofs`
without their type conjuncts, and `TripInv` without `ShapeInv`, also pass TLC on the instances of the
runs.

### Only model-checked

Liveness under fairness, which the prover cannot do: `ReleasedAfterClose`, the fair part of
`ImplementsRpcChannel` (`ImplementsChannel` is its safety part), `EveryRequestAnswered`,
`HandlesReleased`, `AllowedServed`, `StopsAfterSignal`, `EveryCallReturns`. Every invariant of a
passing run is proved.

## 5. Not modelled

* The repair of JSON keys in `parse_request` as text: a request is JSON (as it is or repaired), no
  JSON, or no UTF-8. Likewise `is_safe_database_name`: names are safe or unsafe as a class; which
  names are of one file is the constant `Resolve`, one name or two in the runs.
* Which file names LIST leaves out (`is_sqlite_sidecar_file`), and the wording of responses.
* A '?' of the SQL text itself inside quotes: `_client_side_prepare` takes it for a placeholder; the
  templates of `QueryPath` have none. Nor have they a minus sign before a placeholder, where the
  literal of a negative number would make two of them, the beginning of a comment.
* Limits of the length of a statement, of a frame and of a BLOB in `QueryPath` (frames are in
  `SQLiteSocket`), and Python's own limit of the digits of an integer, at which there is no statement. Two
  surrogates of a Python `str` that make a pair are the one character JSON makes of them.
* What a client loses at shutdown: responses in the queue when `stop()` is called.
* SQLite beyond locks, transactions, literals and columns: 99% of the lines of this repository are
  the vendored amalgamation, which is not the subject. Checkpoints, the `-wal` and `-shm` files
  (which `DELETE_DB` leaves behind), the hot journal, deferred constraints, column affinity, changes
  of the journal mode at run time (`wal` is the mode of all files) are left out. A crash of the
  machine is SQLite's business; the death of the process is modelled.
* The accessors of `Row` and `QueryResult` other than `blob()` and `scalar()`, `ip_whitelist_repr`,
  the text of options, and `Logger`: output and plain access.

## 6. Plan

1. *(done)* `RpcChannel`, `SQLiteSocket`, their runs and proofs.
2. *(done)* `RequestHandler`, `TransactionalStore` and their runs.
3. *(done)* `NetworkWorker`, its run and proofs.
4. *(done)* `Config` and its run.
5. *(done)* `SqliteClient`, `QueryPath` and their runs.
6. *(done)* Proofs about `RequestHandler`, with the refinement of `TransactionalStore`, and about
   `SqliteClient`, `Config` and `ResultShape` of `QueryPath`.
7. *(done)* `NumberInduction`, the proof of `RoundTrip`, and `ConfigProofs` without an assumption
   about powers.
8. Left: the composition of `SqliteClient` and `SQLiteSocket`. The server actions of the first are
   those of `RpcChannel`, which the second implements; so far this is read off the two modules.
