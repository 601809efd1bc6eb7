-------------------------- MODULE MCRequestHandler --------------------------
(***************************************************************************)
(* Instances of RequestHandler for TLC: the sets of requests of the runs.  *)
(***************************************************************************)
EXTENDS RequestHandler, TLC

Req(cmd, db, stmt) ==
    [fmt |-> "json", auth |-> Absent, cmd |-> cmd, db |-> db, stmt |-> stmt]

Queries(stmts) == {Req("QUERY", n, s) : n \in Names, s \in stmts}

Deletions == {Req("DELETE_DB", n, Absent) : n \in Names}

\* The statements that reach a step, where locks are taken; BEGIN IMMEDIATE is
\* in WAL mode what BEGIN EXCLUSIVE is.
SteppedStatements == Queries(Statements \ {"bad", "empty", "beginImmediate"})

\* Every path through handle_request, with a few statements behind them.
EveryCommand ==
    Queries({"write"}) \union {Req("QUERY", "db", s) : s \in {"begin", Absent}} \union Deletions \union
    {[NoRequest EXCEPT !.fmt = "garbage"],
     [NoRequest EXCEPT !.fmt = "binary"],
     [NoRequest EXCEPT !.auth = "right"],
     [NoRequest EXCEPT !.auth = "wrong"],
     [Req("LIST", Absent, Absent) EXCEPT !.fmt = "badType"],
     Req("LIST", Absent, Absent), Req("OTHER", Absent, Absent),
     Req("QUERY", Unsafe, "write"), Req("DELETE_DB", Absent, Absent)}

\* A few statements that wait for each other, and those that do not get so far.
Waiting == Queries({"select", "write", "beginImmediate", "commit", "bad", "empty"})

\* A transaction that locks readers out, and a reader.
ExclusiveAndRead == Queries({"select", "beginExclusive", "commit"})

\* Writers, and somebody who removes the database.
WritesAndDeletions == Queries({"write"}) \union Deletions

ConnSymmetry == Permutations(Conns)

NoAliases == [n \in Names |-> n]

\* is_safe_database_name accepts "./db", which is the file of "db".
OneFile == [n \in Names |-> "db"]
=============================================================================
