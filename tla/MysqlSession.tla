------------------------------ MODULE MysqlSession ------------------------------
(***************************************************************************)
(* mysql_wrap (mysql_wrap.hpp): one connection to a server, prepared       *)
(* statements, and batches of rows inserted in a transaction of their own. *)
(* Each call of the client library is a step, and the server may close the *)
(* connection between any two of them: connect sets MYSQL_OPT_RECONNECT,   *)
(* so the next command opens a new one, without the transaction and        *)
(* without the prepared statements of the old one.                         *)
(*                                                                         *)
(* The server is external: BEGIN commits the transaction that is open, a   *)
(* row inserted outside of one is stored at once, and a COMMIT that is     *)
(* refused rolls back.  A command that has reached the server may be done  *)
(* and its answer lost with the connection: the call then fails.           *)
(* An operator marked "Fault" is a wrong version of the one below it.      *)
(***************************************************************************)
EXTENDS Naturals, Sequences, FiniteSets

CONSTANTS
  MaxRows,   \* bound on the rows inserted
  MaxBatch,  \* bound on the rows of a batch
  MaxLosses  \* bound on the connections the server closes

VARIABLES
  con,     \* con_ is not null
  server,  \* the server's side: whether it is up, the open transaction, its rows
  stored,  \* the rows the server has stored
  stmt,    \* stmt_: "none", "ready", or "stale" once its connection has gone
  call,    \* the call under way: what it is at, the rows it has left, all its rows
  told,    \* what calls have returned: rows, success, whether as a batch and
           \* with the connection kept to the end
  losses,  \* connections lost
  rows     \* rows inserted

mysqlVars == <<con, server, stored, stmt, call, told, losses, rows>>

NoCall == [at |-> "idle", left |-> << >>, all |-> {}, batch |-> FALSE, lost |-> FALSE]
NewServer == [up |-> TRUE, open |-> FALSE, pending |-> {}]

MysqlInit ==
  /\ con = FALSE /\ server = [NewServer EXCEPT !.up = FALSE] /\ stored = {}
  /\ stmt = "none" /\ call = NoCall /\ told = {}
  /\ losses = 0 /\ rows = 0

\* The server that a command finds: a new connection when the old one has gone.
Reached == IF server.up THEN server ELSE NewServer

\* Prepared statements do not outlive their connection.
Detached == IF server.up \/ stmt = "none" THEN stmt ELSE "stale"

\* What the server stores when a transaction of s ends.
Commits(s) == stored' = stored \union s.pending

Free == call.at = "idle"

----------------------------------------------------------------------------
(* The connection *)

\* connect: the connection before this one is closed first.
Connect ==
  /\ Free
  /\ \E ok \in BOOLEAN :
       /\ con' = ok
       /\ server' = IF ok THEN NewServer ELSE [NewServer EXCEPT !.up = FALSE]
  /\ stmt' = (IF stmt = "none" THEN stmt ELSE "stale")
  /\ UNCHANGED <<stored, call, told, losses, rows>>

Disconnect ==
  /\ Free /\ con
  /\ con' = FALSE /\ server' = [NewServer EXCEPT !.up = FALSE]
  /\ stmt' = (IF stmt = "none" THEN stmt ELSE "stale")
  /\ UNCHANGED <<stored, call, told, losses, rows>>

\* The server closes the connection: an open transaction is rolled back.
ServerCloses ==
  /\ server.up /\ losses < MaxLosses
  /\ server' = [NewServer EXCEPT !.up = FALSE]
  /\ call' = [call EXCEPT !.lost = call.at # "idle"]
  /\ losses' = losses + 1
  /\ UNCHANGED <<con, stored, stmt, told, rows>>

----------------------------------------------------------------------------
(* begin, commit and rollback, called by the application *)

BeginTx ==
  /\ Free /\ con
  /\ Commits(Reached)
  /\ server' = [NewServer EXCEPT !.open = TRUE]
  /\ stmt' = Detached
  /\ UNCHANGED <<con, call, told, losses, rows>>

CommitTx ==
  /\ Free /\ con
  /\ Commits(Reached)
  /\ server' = NewServer
  /\ stmt' = Detached
  /\ UNCHANGED <<con, call, told, losses, rows>>

RollbackTx ==
  /\ Free /\ con
  /\ server' = NewServer
  /\ stmt' = Detached
  /\ UNCHANGED <<con, stored, call, told, losses, rows>>

----------------------------------------------------------------------------
(* insert and update *)

\* The call returns: what it has told the caller of its rows.
Tells(ok, kept) ==
  /\ told' = told \union {[rows |-> call.all, ok |-> ok, batch |-> call.batch, kept |-> kept]}
  /\ call' = NoCall
Returns(ok) == Tells(ok, ~call.lost)

\* What the command under way has done is done, but the connection is lost before its
\* answer has come.
AnswerLost ==
  /\ losses < MaxLosses /\ losses' = losses + 1
  /\ server' = [NewServer EXCEPT !.up = FALSE]
  /\ stmt' = "none" /\ Tells(FALSE, FALSE)

\* insert_aux: mysql_stmt_init and mysql_stmt_prepare; a statement that is not
\* prepared is left as it is.
Prepare(next, all, batch) ==
  \E ok \in BOOLEAN :
    /\ server' \in (IF ok THEN {Reached} ELSE {server, Reached})
    /\ stmt' = IF ok THEN "ready" ELSE "stale"
    /\ IF ok THEN /\ call' = [at |-> next, left |-> all, all |-> {all[i] : i \in DOMAIN all},
                             batch |-> batch, lost |-> FALSE]
                  /\ rows' = rows + Len(all)
             ELSE UNCHANGED <<call, rows>>

\* insert and update of rows: insert refuses no rows, update does not.
InsertMany ==
  /\ Free /\ con
  /\ \E n \in 0..MaxBatch :
       /\ rows + n <= MaxRows
       /\ Prepare("begin", [i \in 1..n |-> rows + i], TRUE)
  /\ UNCHANGED <<con, stored, told, losses>>

InsertOne ==
  /\ Free /\ con /\ rows < MaxRows
  /\ Prepare("one", <<rows + 1>>, FALSE)
  /\ UNCHANGED <<con, stored, told, losses>>

\* insert_aux: begin, which commits what the caller may have begun.
Begin ==
  /\ call.at = "begin"
  /\ \/ /\ Commits(Reached)
        /\ server' = [NewServer EXCEPT !.open = TRUE]
        /\ stmt' = Detached
        /\ call' = [call EXCEPT !.at = "rows"]
        /\ UNCHANGED <<told, losses>>
     \/ /\ ~server.up                    \* no new connection
        /\ stmt' = "none" /\ Returns(FALSE)
        /\ UNCHANGED <<server, stored, losses>>
     \/ Commits(Reached) /\ AnswerLost
  /\ UNCHANGED <<con, rows>>

\* The row reaches the server: stored, or in the open transaction.
Inserted(row) ==
  IF server.open THEN /\ server' = [server EXCEPT !.pending = @ \union {row}]
                      /\ UNCHANGED stored
                 ELSE /\ stored' = stored \union {row}
                      /\ UNCHANGED server

\* Fault: a row that fails is passed over.
NextOrCommit(row) == [call EXCEPT !.left = Tail(@)]

\* A row that fails ends the batch.
AfterFailure(row) == [call EXCEPT !.at = "rollback"]

\* stmt_execute of the next row: an error, a row that changes nothing, or a stale
\* statement fail.
ExecuteRow ==
  /\ call.at = "rows" /\ call.left # << >>
  /\ \/ /\ server.up /\ stmt = "ready"
        /\ Inserted(Head(call.left))
        /\ call' = [call EXCEPT !.left = Tail(@)]
     \/ /\ call' = AfterFailure(Head(call.left))
        /\ UNCHANGED <<server, stored>>
  /\ UNCHANGED <<con, stmt, told, losses, rows>>

\* rollback, and INT_MIN: guard_statment closes the statement.
Rollback ==
  /\ call.at = "rollback"
  /\ server' = [Reached EXCEPT !.open = FALSE, !.pending = {}]
  /\ stmt' = "none"
  /\ Returns(FALSE)
  /\ UNCHANGED <<con, stored, losses, rows>>

\* commit: on a new connection it has nothing to commit, and succeeds; it fails when
\* there is none, when the server refuses it, and when its answer is lost.
Commit ==
  /\ call.at = "rows" /\ call.left = << >>
  /\ \/ Commits(Reached) /\ server' = NewServer /\ stmt' = "none" /\ Returns(TRUE) /\ UNCHANGED losses
     \/ /\ server' \in {NewServer} \union (IF server.up THEN {} ELSE {server})
        /\ stmt' = "none" /\ Returns(FALSE)
        /\ UNCHANGED <<stored, losses>>
     \/ Commits(Reached) /\ AnswerLost
  /\ UNCHANGED <<con, rows>>

\* insert and update of one row, without a transaction.
ExecuteOne ==
  /\ call.at = "one"
  /\ \/ /\ server.up /\ stmt = "ready"
        /\ Inserted(Head(call.left))
        /\ stmt' = "none" /\ Returns(TRUE)
        /\ UNCHANGED losses
     \/ /\ stmt' = "none" /\ Returns(FALSE)
        /\ UNCHANGED <<server, stored, losses>>
     \/ /\ server.up /\ ~server.open /\ stmt = "ready"
        /\ stored' = stored \union {Head(call.left)}
        /\ AnswerLost
  /\ UNCHANGED <<con, rows>>

----------------------------------------------------------------------------

MysqlNext ==
  \/ Connect \/ Disconnect \/ ServerCloses
  \/ BeginTx \/ CommitTx \/ RollbackTx
  \/ InsertMany \/ InsertOne \/ Begin \/ ExecuteRow \/ Rollback \/ Commit \/ ExecuteOne

MysqlSpec == MysqlInit /\ [][MysqlNext]_mysqlVars

----------------------------------------------------------------------------

\* A batch is stored whole or not at all, wherever the server closes the connection
\* and whatever the caller has begun.  While the connection is kept the caller is told
\* which: one that has succeeded is stored, and one that has failed is not, then or
\* later.  When the connection was lost on the way the caller cannot know: the commit
\* of a new connection succeeds with nothing to commit, and one whose answer is lost
\* fails with the rows stored.
AllOrNothing ==
  \A t \in {r \in told : r.batch} :
    \/ t.rows \intersect stored = {} /\ ~(t.ok /\ t.kept /\ t.rows # {})
    \/ t.rows \subseteq stored /\ (t.ok \/ ~t.kept)

=============================================================================
