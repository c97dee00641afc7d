------------------------------ MODULE Database ------------------------------
(***************************************************************************)
(* ResilientConnection and the transactions the stores run through it.     *)
(* Every store operation is a transaction: execute one or more statements, *)
(* then commit.  A statement that finds its connection dead is run again,  *)
(* once, on a fresh connection; a failing commit escapes.                  *)
(*                                                                         *)
(* The server is external (READ COMMITTED): a transaction sees what is     *)
(* committed and its own writes, waits for the rows another one wrote, and *)
(* is rolled back when its connection is lost, which the server may notice *)
(* later than the client.                                                  *)
(*                                                                         *)
(* A row is a key with a value, NULL when there is none.  The statements   *)
(* are those of the stores: the guarded UPDATE of the queue and of redeem  *)
(* (a compare-and-swap), and replace_all's DELETE and INSERTs.  Two calls  *)
(* of replace_all at once are left out.                                    *)
(***************************************************************************)
EXTENDS Naturals, Sequences

CONSTANTS
    NULL,
    Clients,    \* processes, each with its own ResilientConnection
    Keys,
    Values,
    Old,        \* the table at the start
    Policies,   \* the rows of it that are policies
    Program,    \* for each client the operations it calls, one after the
                \* other, each a sequence of statements
    MaxBreaks   \* bound on lost connections

\* UPDATE ... WHERE key = k AND value = from RETURNING, DELETE FROM, INSERT
Statement ==
    [kind : {"swap"}, key : Keys, from : Values, to : Values]
        \union [kind : {"delete"}, keys : SUBSET Keys]
        \union [kind : {"insert"}, key : Keys, to : Values]

ASSUME DatabaseAssumption ==
    /\ Old \in [Keys -> Values \union {NULL}]
    /\ NULL \notin Values
    /\ Policies \subseteq Keys
    /\ MaxBreaks \in Nat
    /\ \A c \in Clients :
        /\ Program[c] \in Seq(Seq(Statement))
        /\ \A i \in 1..Len(Program[c]) : Program[c][i] # <<>>

VARIABLES
    committed, \* the table
    written,   \* the keys each client's open transaction wrote
    draft,     \* what it wrote there
    orphaned,  \* rows locked by transactions whose client is gone
    conn,      \* each client's connection: "closed", "open", "broken" or, after
               \* a statement the server refused, "aborted": nobody rolls back,
               \* and the caller, who was told, does not use it again
    op,        \* the operation it is in
    stmt,      \* the statement it executes next
    row,       \* whether its last statement returned a row
    told,      \* what the last operation returned: "hit", "miss" or "error"
    breaks

vars == <<committed, written, draft, orphaned, conn, op, stmt, row, told, breaks>>

Table == [Keys -> Values \union {NULL}]

TypeOK ==
    /\ committed \in Table
    /\ written \in [Clients -> SUBSET Keys]
    /\ draft \in [Clients -> Table]
    /\ orphaned \subseteq Keys
    /\ conn \in [Clients -> {"closed", "open", "broken", "aborted"}]
    /\ op \in [Clients -> Nat] /\ stmt \in [Clients -> Nat]
    /\ \A c \in Clients :
        /\ op[c] \in 1..(Len(Program[c]) + 1)
        /\ stmt[c] \in 1..(IF op[c] <= Len(Program[c]) THEN Len(Program[c][op[c]]) + 1 ELSE 1)
    /\ row \in [Clients -> BOOLEAN]
    /\ told \in [Clients -> {"none", "hit", "miss", "error"}]
    /\ breaks \in 0..MaxBreaks

Init ==
    /\ committed = Old
    /\ written = [c \in Clients |-> {}]
    /\ draft = [c \in Clients |-> Old]
    /\ orphaned = {}
    /\ conn = [c \in Clients |-> "closed"]
    /\ op = [c \in Clients |-> 1]
    /\ stmt = [c \in Clients |-> 1]
    /\ row = [c \in Clients |-> FALSE]
    /\ told = [c \in Clients |-> "none"]
    /\ breaks = 0

-----------------------------------------------------------------------------

CallingAfterError(c) == op[c] <= Len(Program[c]) /\ told[c] # "miss"

\* A caller goes on to its next operation only after one that succeeded.
Calling(c) == op[c] <= Len(Program[c]) /\ told[c] \in {"none", "hit"}
Executing(c) == Calling(c) /\ stmt[c] <= Len(Program[c][op[c]])
Committing(c) == Calling(c) /\ stmt[c] > Len(Program[c][op[c]])

LockedFor(c) == orphaned \union UNION {written[d] : d \in Clients \ {c}}

\* The table as a transaction sees it that wrote the keys in own.
Seen(c, own) == [k \in Keys |-> IF k \in own THEN draft[c][k] ELSE committed[k]]

\* An exception leaves the store, whose connection is then in the state left.
Error(c, left) ==
    /\ told' = [told EXCEPT ![c] = "error"]
    /\ written' = [written EXCEPT ![c] = {}]
    /\ conn' = [conn EXCEPT ![c] = left]

\* One statement, in the transaction that wrote the keys in own so far.  A
\* UniqueViolation is not among the errors that execute retries.
RunStatement(c, own) ==
    LET s == Program[c][op[c]][stmt[c]]
        seen == Seen(c, own)
        Write(keys, table, hit) ==
            /\ keys \intersect LockedFor(c) = {}
            /\ written' = [written EXCEPT ![c] = own \union keys]
            /\ draft' = [draft EXCEPT ![c] = table]
            /\ row' = [row EXCEPT ![c] = hit]
            /\ stmt' = [stmt EXCEPT ![c] = @ + 1]
            /\ conn' = [conn EXCEPT ![c] = "open"]
            /\ UNCHANGED told
    IN \/ /\ s.kind = "swap"
          /\ \/ /\ seen[s.key] = s.from
                /\ Write({s.key}, [seen EXCEPT ![s.key] = s.to], TRUE)
             \/ /\ seen[s.key] # s.from
                /\ Write({}, seen, FALSE)
       \/ /\ s.kind = "delete"
          /\ Write(s.keys, [k \in Keys |-> IF k \in s.keys THEN NULL ELSE seen[k]], TRUE)
       \/ /\ s.kind = "insert"
          /\ \/ /\ seen[s.key] = NULL
                /\ Write({s.key}, [seen EXCEPT ![s.key] = s.to], TRUE)
             \/ /\ seen[s.key] # NULL
                /\ Error(c, "aborted")
                /\ UNCHANGED <<draft, row, stmt>>

\* Every statement in a transaction of its own.
ExecuteAutocommit(c) ==
    /\ Executing(c)
    /\ conn[c] # "broken"
    /\ RunStatement(c, written[c])
    /\ committed' = [k \in Keys |-> IF k \in written'[c] THEN draft'[c][k] ELSE committed[k]]
    /\ UNCHANGED <<orphaned, op, breaks>>

\* cursor() opens a connection when there is none.
Execute(c) ==
    /\ Executing(c)
    /\ conn[c] # "broken"
    /\ RunStatement(c, written[c])
    /\ UNCHANGED <<committed, orphaned, op, breaks>>

\* _ResilientCursor.execute: the statement that failed is run again on a
\* fresh connection, in a transaction of its own.
Retry(c) ==
    /\ Executing(c)
    /\ conn[c] = "broken"
    /\ RunStatement(c, {})
    /\ UNCHANGED <<committed, orphaned, op, breaks>>

\* The second failure escapes.
RetryFails(c) ==
    /\ Executing(c)
    /\ conn[c] = "broken"
    /\ Error(c, "closed")
    /\ UNCHANGED <<committed, draft, orphaned, op, stmt, row, breaks>>

Commit(c) ==
    /\ Committing(c)
    /\ conn[c] = "open"
    /\ committed' = Seen(c, written[c])
    /\ told' = [told EXCEPT ![c] = IF row[c] THEN "hit" ELSE "miss"]
    /\ written' = [written EXCEPT ![c] = {}]
    /\ op' = [op EXCEPT ![c] = @ + 1]
    /\ stmt' = [stmt EXCEPT ![c] = 1]
    /\ UNCHANGED <<draft, orphaned, conn, row, breaks>>

\* commit() on a fresh connection commits nothing and says nothing.
CommitOnFresh(c) ==
    /\ Committing(c)
    /\ conn[c] = "broken"
    /\ told' = [told EXCEPT ![c] = IF row[c] THEN "hit" ELSE "miss"]
    /\ op' = [op EXCEPT ![c] = @ + 1]
    /\ stmt' = [stmt EXCEPT ![c] = 1]
    /\ conn' = [conn EXCEPT ![c] = "open"]
    /\ UNCHANGED <<committed, written, draft, orphaned, row, breaks>>

\* commit() is not retried: the transaction is lost and the caller is told.
\* (libpq finds a connection dead only when it uses it, so _live does not
\* open another one here.)
CommitFails(c) ==
    /\ Committing(c)
    /\ conn[c] = "broken"
    /\ Error(c, "closed")
    /\ UNCHANGED <<committed, draft, orphaned, op, stmt, row, breaks>>

-----------------------------------------------------------------------------
(* The server and the network                                              *)

\* The connection is lost.  The rows stay locked until the server notices.
Break(c) ==
    /\ conn[c] = "open"
    /\ breaks < MaxBreaks
    /\ breaks' = breaks + 1
    /\ conn' = [conn EXCEPT ![c] = "broken"]
    /\ orphaned' = orphaned \union written[c]
    /\ written' = [written EXCEPT ![c] = {}]
    /\ UNCHANGED <<committed, draft, op, stmt, row, told>>

\* It is lost while the answer to a commit is on its way.
BreakAfterCommit(c) ==
    /\ Committing(c)
    /\ conn[c] = "open"
    /\ breaks < MaxBreaks
    /\ breaks' = breaks + 1
    /\ committed' = Seen(c, written[c])
    /\ Error(c, "closed")
    /\ UNCHANGED <<draft, orphaned, op, stmt, row>>

RollBack ==
    /\ orphaned # {}
    /\ orphaned' = {}
    /\ UNCHANGED <<committed, written, draft, conn, op, stmt, row, told, breaks>>

Client(c) ==
    Execute(c) \/ Retry(c) \/ RetryFails(c) \/ Commit(c) \/ CommitFails(c)

Next ==
    \/ \E c \in Clients : Client(c) \/ Break(c) \/ BreakAfterCommit(c)
    \/ RollBack

Spec == Init /\ [][Next]_vars

\* Processes go on and the server notices dead peers (keepalives).
FairSpec == Spec /\ WF_vars(RollBack) /\ \A c \in Clients : WF_vars(Client(c))

-----------------------------------------------------------------------------
(* What the operations of the stores have in common                        *)

\* claim: a swap that a client begins with is all of its operation and sets a
\* value that is the client's own (its lease), which is not there at the start
\* and which nobody else sets or takes away.
OwnSwaps ==
    \A c \in Clients : Len(Program[c]) > 0 /\ Program[c][1][1].kind = "swap" =>
        LET s == Program[c][1][1]
        IN  /\ Len(Program[c][1]) = 1
            /\ Old[s.key] # s.to
            /\ \A d \in Clients \ {c} : \A i \in 1..Len(Program[d]) : \A j \in 1..Len(Program[d][i]) :
                LET t == Program[d][i][j]
                IN  \/ t.kind = "delete" /\ s.key \notin t.keys
                    \/ t.kind = "insert" /\ (t.key = s.key => t.to # s.to)
                    \/ t.kind = "swap" /\ (t.key = s.key => s.to \notin {t.from, t.to})

\* sync_policies of a directory with at least one file: there are policies, and
\* replace_all inserts some after it deleted.
Refills ==
    /\ \E k \in Policies : Old[k] # NULL
    /\ \A c \in Clients : \A i \in 1..Len(Program[c]) :
        LET o == Program[c][i]
            last == o[Len(o)]
        IN  (\E j \in 1..Len(o) : o[j].kind = "delete" /\ o[j].keys \intersect Policies # {})
                => last.kind = "insert" /\ last.key \in Policies

-----------------------------------------------------------------------------
(* Properties                                                              *)

\* What single-statement operations need of the connection: a client that was
\* told that its swap hit has its value in the table, and one that was told
\* it missed did not change the row, also when its connection was lost and
\* its statement ran twice.  (claim, transition, redeem: a worker never owns a
\* task it was told it lost.)
ToldIsTrue ==
    \A c \in Clients : op[c] = 2 /\ stmt[c] = 1 /\ Program[c][1][1].kind = "swap" =>
        LET s == Program[c][1][1]
        IN  /\ told[c] = "hit" => committed[s.key] = s.to
            /\ told[c] = "miss" => committed[s.key] # s.to

\* No reader sees a table that replace_all has emptied and not yet filled,
\* also when the connection is lost in between: workers would take every
\* project for one without a policy.
PoliciesInForce == \E k \in Policies : committed[k] # NULL

\* Nobody waits for ever: every client is done or was told of an error, also
\* when it has to wait for rows that its own lost transaction locked.
EveryCallReturns == \A c \in Clients : <>(~Calling(c))
=============================================================================
