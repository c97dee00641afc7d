-------------------------- MODULE Database_proofs --------------------------
(***************************************************************************)
(* What ResilientConnection and the stores' transactions guarantee for any *)
(* number of clients, any table and any number of lost connections: for    *)
(* all programs, that no transaction writes a row that another one wrote   *)
(* and has not committed, and that operations of one statement are atomic; *)
(* for claims (OwnSwaps), that what the client was told is true; for       *)
(* replace_all (Refills), that policies stay in force.                     *)
(***************************************************************************)
EXTENDS Database, SequenceTheorems, TLAPS

-----------------------------------------------------------------------------
(* Types and locks                                                         *)

\* A row that an open transaction wrote is locked for all others, the lost
\* ones included whose end the server has not noticed; and only who has a
\* connection has an open transaction.
Isolated ==
    /\ \A c \in Clients : written[c] \intersect orphaned = {}
    /\ \A c, d \in Clients : c # d => written[c] \intersect written[d] = {}
    /\ \A c \in Clients : conn[c] # "open" => written[c] = {}

\* Before its first statement an operation has written nothing.
Begun == \A c \in Clients : stmt[c] = 1 => written[c] = {}

TableInv == TypeOK /\ Isolated /\ Begun

LEMMA Current ==
    ASSUME TypeOK, NEW c \in Clients, op[c] <= Len(Program[c])
    PROVE  /\ op[c] \in 1..Len(Program[c])
           /\ Program[c][op[c]] \in Seq(Statement)
           /\ Len(Program[c][op[c]]) \in Nat \ {0}
           /\ stmt[c] \in 1..(Len(Program[c][op[c]]) + 1)
           /\ \A j \in 1..Len(Program[c][op[c]]) : Program[c][op[c]][j] \in Statement
<1>1. Program[c] \in Seq(Seq(Statement)) /\ Len(Program[c]) \in Nat
  BY DatabaseAssumption, LenProperties
<1>2. op[c] \in 1..Len(Program[c])
  BY <1>1 DEF TypeOK
<1>3. Program[c][op[c]] \in Seq(Statement) /\ Program[c][op[c]] # <<>>
  BY <1>1, <1>2, ElementOfSeq, DatabaseAssumption
<1>4. Len(Program[c][op[c]]) \in Nat \ {0}
  BY <1>3, EmptySeq
<1>5. QED
  BY <1>2, <1>3, <1>4, ElementOfSeq DEF TypeOK

LEMMA SeenTyped ==
    ASSUME TypeOK, NEW c \in Clients, NEW own \in SUBSET Keys
    PROVE  Seen(c, own) \in Table
BY DEF TypeOK, Table, Seen

\* What a statement does that does not fail: the rows it writes were locked
\* by nobody else, and only these change.
Writes(c, own, keys, table, hit) ==
    /\ keys \intersect LockedFor(c) = {}
    /\ written' = [written EXCEPT ![c] = own \union keys]
    /\ draft' = [draft EXCEPT ![c] = table]
    /\ row' = [row EXCEPT ![c] = hit]
    /\ stmt' = [stmt EXCEPT ![c] = @ + 1]
    /\ conn' = [conn EXCEPT ![c] = "open"]
    /\ UNCHANGED told
    /\ \A k \in Keys \ keys : table[k] = Seen(c, own)[k]

Does(s, seen, keys, table, hit) ==
    \/ /\ s.kind = "swap" /\ hit /\ seen[s.key] = s.from /\ keys = {s.key}
       /\ table[s.key] = s.to /\ s.to \in Values /\ s.from \in Values
    \/ s.kind = "swap" /\ ~hit /\ seen[s.key] # s.from /\ keys = {}
    \/ s.kind = "delete" /\ hit /\ keys = s.keys /\ \A k \in keys : table[k] = NULL
    \/ /\ s.kind = "insert" /\ hit /\ seen[s.key] = NULL /\ keys = {s.key}
       /\ table[s.key] = s.to /\ s.to \in Values

Fails(c) == Error(c, "aborted") /\ UNCHANGED <<draft, row, stmt>>

LEMMA StatementEffect ==
    ASSUME TypeOK, NEW c \in Clients, NEW own \in SUBSET Keys, Executing(c), RunStatement(c, own)
    PROVE  \/ Fails(c)
           \/ \E keys \in SUBSET Keys, table \in Table, hit \in BOOLEAN :
                /\ Writes(c, own, keys, table, hit)
                /\ Does(Program[c][op[c]][stmt[c]], Seen(c, own), keys, table, hit)
<1> DEFINE s == Program[c][op[c]][stmt[c]]
           seen == Seen(c, own)
<1>1. s \in Statement
  BY Current DEF Executing, Calling
<1>2. seen \in Table
  BY SeenTyped
<1>3. /\ s.kind = "swap" => s.key \in Keys /\ s.from \in Values /\ s.to \in Values
      /\ s.kind = "delete" => s.keys \in SUBSET Keys
      /\ s.kind = "insert" => s.key \in Keys /\ s.to \in Values
  BY <1>1 DEF Statement
<1>4. ASSUME s.kind = "delete",
             NEW table, table = [k \in Keys |-> IF k \in s.keys THEN NULL ELSE seen[k]]
      PROVE  /\ table \in Table
             /\ \A k \in Keys \ s.keys : table[k] = seen[k]
             /\ Does(s, seen, s.keys, table, TRUE)
  BY <1>2, <1>3, <1>4 DEF Table, Does
<1>5. QED
  <2>1. CASE s.kind = "swap" /\ seen[s.key] = s.from
    <3>1. PICK keys, table : keys = {s.key} /\ table = [seen EXCEPT ![s.key] = s.to]
      OBVIOUS
    <3>2. /\ keys \in SUBSET Keys /\ table \in Table
          /\ \A k \in Keys \ keys : table[k] = seen[k]
          /\ Does(s, seen, keys, table, TRUE)
      BY <1>2, <1>3, <2>1, <3>1 DEF Table, Does
    <3>3. Writes(c, own, keys, table, TRUE)
      BY <2>1, <3>1, <3>2 DEF RunStatement, Writes
    <3>4. QED
      BY <3>2, <3>3
  <2>2. CASE s.kind = "swap" /\ seen[s.key] # s.from
    <3>1. Writes(c, own, {}, seen, FALSE)
      BY <2>2 DEF RunStatement, Writes
    <3>2. QED
      BY <1>2, <2>2, <3>1 DEF Does
  <2>3. CASE s.kind = "delete"
    <3>1. Writes(c, own, s.keys, [k \in Keys |-> IF k \in s.keys THEN NULL ELSE seen[k]], TRUE)
      BY <1>4, <2>3 DEF RunStatement, Writes
    <3>2. QED
      BY <1>3, <1>4, <2>3, <3>1
  <2>4. CASE s.kind = "insert" /\ seen[s.key] = NULL
    <3>1. PICK keys, table : keys = {s.key} /\ table = [seen EXCEPT ![s.key] = s.to]
      OBVIOUS
    <3>2. /\ keys \in SUBSET Keys /\ table \in Table
          /\ \A k \in Keys \ keys : table[k] = seen[k]
          /\ Does(s, seen, keys, table, TRUE)
      BY <1>2, <1>3, <2>4, <3>1 DEF Table, Does
    <3>3. Writes(c, own, keys, table, TRUE)
      BY <2>4, <3>1, <3>2 DEF RunStatement, Writes
    <3>4. QED
      BY <3>2, <3>3
  <2>5. CASE s.kind = "insert" /\ seen[s.key] # NULL
    BY <2>5 DEF RunStatement, Fails
  <2>6. QED
    BY <1>1, <2>1, <2>2, <2>3, <2>4, <2>5 DEF Statement

\* The steps of a client, whatever its connection: a statement that succeeds
\* (also one that is run again), and one that does not, or a commit.
Wrote(c, keys, table, hit) ==
    /\ Executing(c)
    /\ Writes(c, written[c], keys, table, hit)
    /\ Does(Program[c][op[c]][stmt[c]], Seen(c, written[c]), keys, table, hit)
    /\ UNCHANGED <<committed, orphaned, op, breaks>>

Quits(c) ==
    /\ Calling(c)
    /\ \E left \in {"closed", "aborted"} : Error(c, left)
    /\ UNCHANGED <<committed, draft, orphaned, op, stmt, row, breaks>>

Steps ==
    \/ \E c \in Clients, keys \in SUBSET Keys, table \in Table, hit \in BOOLEAN :
            Wrote(c, keys, table, hit)
    \/ \E c \in Clients : Quits(c) \/ Commit(c) \/ Break(c) \/ BreakAfterCommit(c)
    \/ RollBack

LEMMA StepsAreThese ==
    ASSUME TableInv, Next
    PROVE  Steps
<1>1. ASSUME NEW c \in Clients, Execute(c) \/ Retry(c)
      PROVE  Steps
  <2>1. /\ Executing(c)
        /\ RunStatement(c, written[c])
        /\ UNCHANGED <<committed, orphaned, op, breaks>>
    <3>1. CASE Execute(c)
      BY <3>1 DEF Execute
    <3>2. CASE Retry(c)
      <4>1. written[c] = {}
        BY <3>2 DEF TableInv, Isolated, Retry
      <4>2. QED
        BY <3>2, <4>1 DEF Retry
    <3>3. QED
      BY <1>1, <3>1, <3>2
  <2>2. TypeOK /\ written[c] \in SUBSET Keys
    BY DEF TableInv, TypeOK
  <2>3. CASE Fails(c)
    BY <2>1, <2>3 DEF Steps, Quits, Fails, Executing
  <2>4. CASE \E keys \in SUBSET Keys, table \in Table, hit \in BOOLEAN :
                /\ Writes(c, written[c], keys, table, hit)
                /\ Does(Program[c][op[c]][stmt[c]], Seen(c, written[c]), keys, table, hit)
    BY <2>1, <2>4 DEF Steps, Wrote
  <2>5. QED
    BY <2>1, <2>2, <2>3, <2>4, StatementEffect
<1>2. ASSUME NEW c \in Clients, RetryFails(c) \/ CommitFails(c)
      PROVE  Quits(c)
  BY <1>2 DEF RetryFails, CommitFails, Quits, Executing, Committing
<1>3. QED
  BY <1>1, <1>2 DEF Next, Client, Steps

LEMMA TableInit == Init => TableInv
<1> SUFFICES ASSUME Init PROVE TableInv
  OBVIOUS
<1>1. ASSUME NEW c \in Clients
      PROVE  Len(Program[c]) \in Nat /\ (1 <= Len(Program[c]) => Len(Program[c][1]) \in Nat)
  BY DatabaseAssumption, LenProperties, ElementOfSeq
<1>2. TypeOK
  BY <1>1, DatabaseAssumption DEF Init, TypeOK, Table
<1>3. QED
  BY <1>2 DEF Init, TableInv, Isolated, Begun

LEMMA WroteTable ==
    ASSUME TableInv, NEW c \in Clients, NEW keys \in SUBSET Keys, NEW table \in Table,
           NEW hit \in BOOLEAN, Wrote(c, keys, table, hit)
    PROVE  TableInv'
<1> USE DEF TableInv
<1>1. /\ op[c] <= Len(Program[c]) /\ stmt[c] <= Len(Program[c][op[c]])
      /\ Len(Program[c][op[c]]) \in Nat
  BY Current DEF Wrote, Executing, Calling
<1>2. /\ written' = [written EXCEPT ![c] = @ \union keys]
      /\ draft' = [draft EXCEPT ![c] = table]
      /\ row' = [row EXCEPT ![c] = hit]
      /\ stmt' = [stmt EXCEPT ![c] = @ + 1]
      /\ conn' = [conn EXCEPT ![c] = "open"]
      /\ UNCHANGED <<told, committed, orphaned, op, breaks>>
      /\ keys \intersect LockedFor(c) = {}
  BY DEF Wrote, Writes
<1>3. TypeOK'
  <2>1. ASSUME NEW d \in Clients
        PROVE  /\ op'[d] \in 1..(Len(Program[d]) + 1)
               /\ stmt'[d] \in 1..(IF op'[d] <= Len(Program[d]) THEN Len(Program[d][op'[d]]) + 1 ELSE 1)
    <3>1. CASE d = c
      <4>1. op'[c] = op[c] /\ stmt'[c] = stmt[c] + 1 /\ op[c] \in Nat /\ stmt[c] \in Nat
        BY <1>2 DEF TypeOK
      <4>2. QED
        BY <1>1, <3>1, <4>1 DEF TypeOK
    <3>2. CASE d # c
      <4>1. op'[d] = op[d] /\ stmt'[d] = stmt[d]
        BY <1>2, <3>2 DEF TypeOK
      <4>2. QED
        BY <4>1 DEF TypeOK
    <3>3. QED
      BY <3>1, <3>2
  <2>2. QED
    BY <1>2, <2>1 DEF TypeOK
<1>4. keys \intersect orphaned = {} /\ \A d \in Clients : d # c => keys \intersect written[d] = {}
  BY <1>2 DEF LockedFor
<1>5. Isolated'
  BY <1>2, <1>4 DEF Isolated, TypeOK
<1>6. Begun'
  BY <1>2 DEF Begun, TypeOK
<1>7. QED
  BY <1>3, <1>5, <1>6

LEMMA CommitTable ==
    ASSUME TableInv, NEW c \in Clients, Commit(c)
    PROVE  TableInv'
<1> USE DEF TableInv
<1>1. /\ op[c] \in 1..Len(Program[c]) /\ Len(Program[c]) \in Nat
      /\ op[c] + 1 <= Len(Program[c]) => Len(Program[c][op[c] + 1]) \in Nat
  BY Current, DatabaseAssumption, LenProperties, ElementOfSeq DEF Commit, Committing, Calling
<1>2. committed' \in Table
  BY SeenTyped DEF Commit, TypeOK
<1>3. TypeOK'
  <2>1. ASSUME NEW d \in Clients
        PROVE  /\ op'[d] \in 1..(Len(Program[d]) + 1)
               /\ stmt'[d] \in 1..(IF op'[d] <= Len(Program[d]) THEN Len(Program[d][op'[d]]) + 1 ELSE 1)
    <3>1. CASE d = c
      <4>1. op'[c] = op[c] + 1 /\ stmt'[c] = 1
        BY DEF TypeOK, Commit
      <4>2. QED
        BY <1>1, <3>1, <4>1 DEF TypeOK
    <3>2. CASE d # c
      <4>1. op'[d] = op[d] /\ stmt'[d] = stmt[d]
        BY <3>2 DEF TypeOK, Commit
      <4>2. QED
        BY <4>1 DEF TypeOK
    <3>3. QED
      BY <3>1, <3>2
  <2>2. QED
    BY <1>2, <2>1 DEF TypeOK, Commit
<1>4. Isolated' /\ Begun'
  BY DEF Isolated, Begun, TypeOK, Commit
<1>5. QED
  BY <1>3, <1>4

LEMMA OtherTable ==
    ASSUME TableInv, NEW c \in Clients, Quits(c) \/ Break(c) \/ BreakAfterCommit(c)
    PROVE  TableInv'
<1> USE DEF TableInv
<1>1. /\ UNCHANGED <<op, stmt, row, draft>>
      /\ written' \in [Clients -> SUBSET Keys]
      /\ \A d \in Clients : written'[d] \subseteq written[d]
  BY DEF Quits, Break, BreakAfterCommit, Error, TypeOK
<1>2. committed' \in Table
  BY SeenTyped DEF Quits, Break, BreakAfterCommit, TypeOK
<1>3. TypeOK'
  <2>1. told' \in [Clients -> {"none", "hit", "miss", "error"}] /\ conn' \in [Clients -> {"closed", "open", "broken", "aborted"}]
    BY DEF Quits, Break, BreakAfterCommit, Error, TypeOK
  <2>2. breaks' \in 0..MaxBreaks /\ orphaned' \subseteq Keys
    BY DatabaseAssumption DEF Quits, Break, BreakAfterCommit, TypeOK
  <2>3. QED
    BY <1>1, <1>2, <2>1, <2>2 DEF TypeOK
<1>4. Begun'
  BY <1>1 DEF Begun
<1>5. \A d \in Clients : conn'[d] # "open" => written'[d] = {}
  <2>1. CASE Break(c)
    BY <2>1 DEF Isolated, Break, TypeOK
  <2>2. CASE Quits(c) \/ BreakAfterCommit(c)
    BY <2>2 DEF Isolated, Quits, BreakAfterCommit, Error, TypeOK
  <2>3. QED
    BY <2>1, <2>2
<1>6. \A d \in Clients : written'[d] \intersect orphaned' = {}
  <2>1. CASE Break(c)
    BY <2>1 DEF Break, Isolated, TypeOK
  <2>2. CASE ~Break(c)
    BY <1>1, <2>2 DEF Isolated, Quits, BreakAfterCommit
  <2>3. QED
    BY <2>1, <2>2
<1>7. Isolated'
  BY <1>1, <1>5, <1>6 DEF Isolated
<1>8. QED
  BY <1>3, <1>4, <1>7

LEMMA RollBackTable ==
    ASSUME TableInv, RollBack
    PROVE  TableInv'
BY DEF TableInv, TypeOK, Isolated, Begun, RollBack

LEMMA TableStep ==
    ASSUME TableInv, [Next]_vars
    PROVE  TableInv'
<1>1. CASE Next
  <2>1. Steps
    BY <1>1, StepsAreThese
  <2>2. ASSUME NEW c \in Clients, Quits(c) \/ Break(c) \/ BreakAfterCommit(c)
        PROVE  TableInv'
    BY <2>2, OtherTable
  <2>3. QED
    BY <2>1, <2>2, WroteTable, CommitTable, RollBackTable DEF Steps
<1>2. CASE UNCHANGED vars
  BY <1>2 DEF vars, TableInv, TypeOK, Isolated, Begun
<1>3. QED
  BY <1>1, <1>2

\* A row that an open transaction wrote is written by no other client's
\* transaction, also while the connections of some are lost and their
\* statements run again; a client without a connection holds no row.
THEOREM IsolationCorrect == Spec => [](TypeOK /\ Isolated)
<1>1. Spec => []TableInv
  BY TableInit, TableStep, PTL DEF Spec
<1>2. TableInv => TypeOK /\ Isolated
  BY DEF TableInv
<1>3. QED
  BY <1>1, <1>2, PTL

-----------------------------------------------------------------------------
(* Single statements                                                       *)

\* What a statement does to the table, all at once.
Effect(s, before, after) ==
    \/ /\ s.kind = "swap"
       /\ before[s.key] = s.from
       /\ after = [before EXCEPT ![s.key] = s.to]
    \/ /\ s.kind = "delete"
       /\ after = [k \in Keys |-> IF k \in s.keys THEN NULL ELSE before[k]]
    \/ /\ s.kind = "insert"
       /\ before[s.key] = NULL
       /\ after = [before EXCEPT ![s.key] = s.to]

\* The rows it is about.
Rows(s) == IF s.kind = "delete" THEN s.keys ELSE {s.key}

Single(c) == op[c] <= Len(Program[c]) /\ Len(Program[c][op[c]]) = 1

\* An operation of one statement is one step on the table: when its client is
\* told of a hit it happens, on the table as it is now, when it is told of a miss
\* nothing does, and an error leaves open which of the two it was.
CallIsOneStep(c) ==
    LET s == Program[c][op[c]][1]
    IN  /\ op'[c] # op[c] =>
            IF row[c] THEN told'[c] = "hit" /\ Effect(s, committed, committed')
                      ELSE told'[c] = "miss" /\ committed' = committed
        /\ op'[c] = op[c] /\ told'[c] # told[c] =>
            told'[c] = "error" /\ (committed' = committed \/ Effect(s, committed, committed'))

\* Its transaction, executed and not committed, holds the rows that the statement
\* is about, and these still have the values it found.
Ready(c) ==
    Single(c) /\ stmt[c] = 2 /\ conn[c] = "open" =>
        LET s == Program[c][op[c]][1]
        IN  IF row[c] THEN written[c] = Rows(s) /\ Effect(s, committed, Seen(c, written[c]))
                      ELSE written[c] = {}

LEMMA WroteReady ==
    ASSUME TableInv, NEW c \in Clients, Single(c),
           NEW keys \in SUBSET Keys, NEW table \in Table, NEW hit \in BOOLEAN,
           Wrote(c, keys, table, hit)
    PROVE  Ready(c)'
<1>1. PICK s : s = Program[c][op[c]][1]
  OBVIOUS
<1>2. stmt[c] = 1 /\ op[c] \in 1..Len(Program[c]) /\ s \in Statement
  BY <1>1, Current DEF Wrote, Executing, Calling, Single, TableInv
<1>3. /\ written'[c] = keys /\ draft'[c] = table /\ row'[c] = hit
      /\ op'[c] = op[c] /\ committed' = committed
      /\ \A k \in Keys \ keys : table[k] = Seen(c, {})[k]
      /\ Does(s, Seen(c, {}), keys, table, hit)
  <2>1. written[c] = {}
    BY <1>2 DEF TableInv, Begun
  <2>2. QED
    BY <1>1, <1>2, <2>1 DEF Wrote, Writes, TableInv, TypeOK
<1>4. Seen(c, {}) = committed
  BY DEF Seen, TableInv, TypeOK, Table
<1>5. ASSUME hit
      PROVE  Effect(s, committed, [k \in Keys |-> IF k \in keys THEN table[k] ELSE committed[k]])
  <2>1. committed \in Table
    BY DEF TableInv, TypeOK
  <2>2. QED
    BY <1>2, <1>3, <1>4, <1>5, <2>1 DEF Does, Effect, Table, Statement
<1>6. keys = IF hit THEN Rows(s) ELSE {}
  BY <1>3 DEF Does, Rows
<1>7. Seen(c, written[c])' = [k \in Keys |-> IF k \in keys THEN table[k] ELSE committed[k]]
  BY <1>3 DEF Seen
<1>8. QED
  BY <1>1, <1>3, <1>5, <1>6, <1>7 DEF Ready

\* The statement still finds what it found, whatever others commit: they do not
\* touch the rows it is about.
LEMMA ReadyElsewhere ==
    ASSUME TableInv, NEW c \in Clients, Ready(c), NEW e \in Clients \ {c},
           Commit(e) \/ BreakAfterCommit(e)
    PROVE  Ready(c)'
<1>1. /\ committed' = Seen(e, written[e])
      /\ op'[c] = op[c] /\ stmt'[c] = stmt[c] /\ conn'[c] = conn[c] /\ row'[c] = row[c]
      /\ written'[c] = written[c] /\ draft'[c] = draft[c]
  BY DEF Commit, BreakAfterCommit, Error, TableInv, TypeOK
<1>2. SUFFICES ASSUME Single(c), stmt[c] = 2, conn[c] = "open", row[c]
               PROVE  /\ written[c] = Rows(Program[c][op[c]][1])
                      /\ Effect(Program[c][op[c]][1], committed', Seen(c, written[c])')
  BY <1>1 DEF Ready, Single
<1>3. PICK s : s = Program[c][op[c]][1]
  OBVIOUS
<1>4. s \in Statement
  BY <1>2, <1>3, Current DEF Single, TableInv
<1>5. written[c] = Rows(s) /\ Effect(s, committed, Seen(c, written[c]))
  BY <1>2, <1>3 DEF Ready
<1>6. committed \in Table /\ committed' \in Table
  BY <1>1, SeenTyped DEF TableInv, TypeOK
<1>7. \A k \in Keys : k \in written[c] => committed'[k] = committed[k]
  BY <1>1 DEF Seen, TableInv, Isolated
<1>8. PICK own, before, after, later :
        /\ own = written[c] /\ before = Seen(c, written[c])
        /\ after = committed' /\ later = Seen(c, written[c])'
  OBVIOUS
<1>9. /\ before = [k \in Keys |-> IF k \in own THEN draft[c][k] ELSE committed[k]]
      /\ later = [k \in Keys |-> IF k \in own THEN draft[c][k] ELSE after[k]]
  BY <1>1, <1>8 DEF Seen
<1>10. Effect(s, after, later)
  <2>1. CASE s.kind = "delete"
    BY <1>4, <1>5, <1>8, <1>9, <2>1 DEF Effect, Rows, Statement
  <2>2. CASE s.kind # "delete"
    <3>1. s.key \in Keys /\ own = {s.key} /\ after[s.key] = committed[s.key] /\ before[s.key] = s.to
      BY <1>4, <1>5, <1>6, <1>7, <1>8, <2>2 DEF Effect, Rows, Statement, Table
    <3>2. draft[c][s.key] = s.to
      BY <1>9, <3>1
    <3>3. later = [after EXCEPT ![s.key] = s.to]
      BY <1>6, <1>8, <1>9, <3>1, <3>2 DEF Table
    <3>4. QED
      BY <1>5, <2>2, <3>1, <3>3 DEF Effect
  <2>3. QED
    BY <2>1, <2>2
<1>11. QED
  BY <1>3, <1>5, <1>8, <1>10

LEMMA ReadyStep ==
    ASSUME TableInv, \A c \in Clients : Ready(c), [Next]_vars
    PROVE  \A c \in Clients : Ready(c)'
<1> SUFFICES ASSUME NEW c \in Clients
             PROVE  Ready(c)'
  OBVIOUS
<1>1. ASSUME /\ committed' = committed /\ op'[c] = op[c] /\ stmt'[c] = stmt[c] /\ row'[c] = row[c]
             /\ written'[c] = written[c] /\ draft'[c] = draft[c] /\ conn'[c] = conn[c]
      PROVE  Ready(c)'
  <2>1. Seen(c, written[c])' = Seen(c, written[c])
    BY <1>1 DEF Seen
  <2>2. QED
    BY <1>1, <2>1 DEF Ready, Single
<1>2. CASE Next
  <2>1. Steps
    BY <1>2, StepsAreThese
  <2>2. ASSUME NEW e \in Clients, NEW keys \in SUBSET Keys, NEW table \in Table, NEW hit \in BOOLEAN,
               Wrote(e, keys, table, hit)
        PROVE  Ready(c)'
    <3>1. CASE e = c /\ Single(c)
      BY <2>2, <3>1, WroteReady
    <3>2. CASE e = c /\ ~Single(c)
      BY <2>2, <3>2 DEF Wrote, Ready, Single
    <3>3. CASE e # c
      BY <1>1, <2>2, <3>3 DEF Wrote, Writes, TableInv, TypeOK
    <3>4. QED
      BY <3>1, <3>2, <3>3
  <2>3. ASSUME NEW e \in Clients, Quits(e) \/ Break(e)
        PROVE  Ready(c)'
    <3>1. CASE e = c
      BY <2>3, <3>1 DEF Quits, Break, Error, Ready, TableInv, TypeOK
    <3>2. CASE e # c
      BY <1>1, <2>3, <3>2 DEF Quits, Break, Error, TableInv, TypeOK
    <3>3. QED
      BY <3>1, <3>2
  <2>4. ASSUME NEW e \in Clients, Commit(e) \/ BreakAfterCommit(e)
        PROVE  Ready(c)'
    <3>1. CASE e = c
      BY <2>4, <3>1 DEF Commit, BreakAfterCommit, Error, Ready, TableInv, TypeOK
    <3>2. CASE e # c
      BY <2>4, <3>2, ReadyElsewhere
    <3>3. QED
      BY <3>1, <3>2
  <2>5. CASE RollBack
    BY <1>1, <2>5 DEF RollBack
  <2>6. QED
    BY <2>1, <2>2, <2>3, <2>4, <2>5 DEF Steps
<1>3. CASE UNCHANGED vars
  BY <1>1, <1>3 DEF vars
<1>4. QED
  BY <1>2, <1>3

LEMMA ReadyCall ==
    ASSUME TableInv, NEW c \in Clients, Ready(c), Single(c), [Next]_vars
    PROVE  CallIsOneStep(c)
<1>1. ASSUME op'[c] = op[c], told'[c] = told[c]
      PROVE  CallIsOneStep(c)
  BY <1>1 DEF CallIsOneStep
<1>2. ASSUME Commit(c) \/ BreakAfterCommit(c)
      PROVE  /\ committed' = Seen(c, written[c])
             /\ IF row[c] THEN Effect(Program[c][op[c]][1], committed, committed')
                          ELSE committed' = committed
  <2>1. /\ committed' = Seen(c, written[c]) /\ conn[c] = "open" /\ stmt[c] = 2
    BY <1>2, Current DEF Commit, BreakAfterCommit, Committing, Calling, Single, TableInv
  <2>2. written[c] = {} => Seen(c, written[c]) = committed
    BY DEF Seen, TableInv, TypeOK, Table
  <2>3. QED
    BY <2>1, <2>2 DEF Ready
<1>3. CASE Next
  <2>1. Steps
    BY <1>3, StepsAreThese
  <2>2. ASSUME NEW e \in Clients, NEW keys \in SUBSET Keys, NEW table \in Table, NEW hit \in BOOLEAN,
               Wrote(e, keys, table, hit)
        PROVE  CallIsOneStep(c)
    BY <1>1, <2>2 DEF Wrote, Writes
  <2>3. ASSUME NEW e \in Clients, e # c, Quits(e) \/ Commit(e) \/ Break(e) \/ BreakAfterCommit(e)
        PROVE  CallIsOneStep(c)
    BY <1>1, <2>3 DEF Quits, Commit, Break, BreakAfterCommit, Error, TableInv, TypeOK
  <2>4. CASE Quits(c)
    BY <2>4 DEF Quits, Error, CallIsOneStep, TableInv, TypeOK
  <2>5. CASE Break(c) \/ RollBack
    BY <1>1, <2>5 DEF Break, RollBack
  <2>6. CASE Commit(c)
    BY <1>2, <2>6 DEF Commit, CallIsOneStep, TableInv, TypeOK
  <2>7. CASE BreakAfterCommit(c)
    BY <1>2, <2>7 DEF BreakAfterCommit, Error, CallIsOneStep, TableInv, TypeOK
  <2>8. QED
    BY <2>1, <2>2, <2>3, <2>4, <2>5, <2>6, <2>7 DEF Steps
<1>4. CASE UNCHANGED vars
  BY <1>1, <1>4 DEF vars
<1>5. QED
  BY <1>3, <1>4

\* Every operation of one statement, in any program, by any number of clients and
\* with any connections lost, is one step on the table.  The other modules take
\* the guarded updates of the queue and of redeem for that.
THEOREM CallsAreAtomic == Spec => [][\A c \in Clients : Single(c) => CallIsOneStep(c)]_vars
<1> DEFINE AllReady == \A c \in Clients : Ready(c)
           Atomic == \A c \in Clients : Single(c) => CallIsOneStep(c)
<1>1. Spec => []TableInv
  BY TableInit, TableStep, PTL DEF Spec
<1>2. Init => AllReady
  BY DEF Init, Ready
<1>3. TableInv /\ AllReady /\ [Next]_vars => AllReady'
  BY ReadyStep
<1>4. TableInv /\ AllReady /\ [Next]_vars => [Atomic]_vars
  BY ReadyCall
<1>5. Spec => []AllReady
  <2> HIDE DEF AllReady
  <2>1. QED
    BY <1>1, <1>2, <1>3, PTL DEF Spec
<1>6. QED
  <2> HIDE DEF AllReady
  <2>1. QED
    BY <1>1, <1>4, <1>5, PTL DEF Spec

-----------------------------------------------------------------------------
(* Claims                                                                  *)

Claims(c) == Len(Program[c]) > 0 /\ Program[c][1][1].kind = "swap"
Swap(c) == Program[c][1][1]

\* Of a client in its first operation: its swap is in its transaction, or was
\* not needed.
Drafted(c) ==
    op[c] = 1 =>
        /\ told[c] \in {"none", "error"}
        /\ stmt[c] = 2 /\ conn[c] = "open" =>
            IF row[c] THEN Swap(c).key \in written[c] /\ draft[c][Swap(c).key] = Swap(c).to
                      ELSE written[c] = {}

\* Nobody else is about to set its value; it is not there before it was set,
\* nor after a miss; and after a hit nobody takes it away.
Owned(c) ==
    LET k == Swap(c).key
        v == Swap(c).to
    IN  /\ \A d \in Clients \ {c} : k \in written[d] => draft[d][k] # v
        /\ op[c] = 1 /\ told[c] = "none" => committed[k] # v
        /\ op[c] = 2 /\ stmt[c] = 1 /\ told[c] = "miss" => committed[k] # v
        /\ op[c] = 2 /\ stmt[c] = 1 /\ told[c] = "hit" =>
            committed[k] = v /\ \A d \in Clients \ {c} : k \notin written[d]

ClaimInv == \A c \in Clients : Claims(c) => Drafted(c) /\ Owned(c)

LEMMA SwapFacts ==
    ASSUME OwnSwaps, NEW c \in Clients, Claims(c)
    PROVE  /\ Swap(c).kind = "swap" /\ Swap(c).key \in Keys /\ Swap(c).to \in Values
           /\ Swap(c).to # NULL
           /\ Len(Program[c][1]) = 1
           /\ Old[Swap(c).key] # Swap(c).to
<1>1. /\ Program[c] \in Seq(Seq(Statement)) /\ Len(Program[c]) \in Nat
      /\ 1 \in 1..Len(Program[c])
  BY DatabaseAssumption, LenProperties DEF Claims
<1>2. Program[c][1] \in Seq(Statement)
  BY <1>1, ElementOfSeq
<1>3. /\ Len(Program[c][1]) = 1
      /\ Old[Swap(c).key] # Swap(c).to
  BY DEF OwnSwaps, Claims, Swap
<1>4. Swap(c) \in Statement
  BY <1>2, <1>3, ElementOfSeq DEF Swap
<1>5. Swap(c).kind = "swap"
  BY DEF Claims, Swap
<1>6. QED
  BY <1>3, <1>4, <1>5, DatabaseAssumption DEF Statement

\* No statement of another client sets or takes away the value.
LEMMA Foreign ==
    ASSUME OwnSwaps, TypeOK, NEW c \in Clients, Claims(c), NEW d \in Clients \ {c}, Executing(d),
           NEW t, t = Program[d][op[d]][stmt[d]]
    PROVE  \/ t.kind = "delete" /\ Swap(c).key \notin t.keys
           \/ t.kind = "insert" /\ (t.key = Swap(c).key => t.to # Swap(c).to)
           \/ t.kind = "swap" /\ (t.key = Swap(c).key => Swap(c).to \notin {t.from, t.to})
<1>1. op[d] \in 1..Len(Program[d]) /\ stmt[d] \in 1..Len(Program[d][op[d]])
  BY Current DEF Executing, Calling
<1>2. QED
  <2>1. \A b \in Clients \ {c} : \A i \in 1..Len(Program[b]) : \A j \in 1..Len(Program[b][i]) :
            \/ Program[b][i][j].kind = "delete" /\ Swap(c).key \notin Program[b][i][j].keys
            \/ /\ Program[b][i][j].kind = "insert"
               /\ Program[b][i][j].key = Swap(c).key => Program[b][i][j].to # Swap(c).to
            \/ /\ Program[b][i][j].kind = "swap"
               /\ Program[b][i][j].key = Swap(c).key =>
                    Swap(c).to \notin {Program[b][i][j].from, Program[b][i][j].to}
    BY Zenon DEF OwnSwaps, Claims, Swap
  <2>2. QED
    BY <1>1, <2>1

LEMMA WroteOwn ==
    ASSUME OwnSwaps, TableInv, NEW c \in Clients, Claims(c), Drafted(c), Owned(c),
           NEW keys \in SUBSET Keys, NEW table \in Table, NEW hit \in BOOLEAN,
           Wrote(c, keys, table, hit)
    PROVE  Drafted(c)' /\ Owned(c)'
<1>1. /\ written' = [written EXCEPT ![c] = @ \union keys]
      /\ draft' = [draft EXCEPT ![c] = table]
      /\ row' = [row EXCEPT ![c] = hit]
      /\ stmt' = [stmt EXCEPT ![c] = @ + 1]
      /\ UNCHANGED <<told, committed, op>>
  BY DEF Wrote, Writes
<1>2. Drafted(c)'
  <2>1. SUFFICES ASSUME op[c] = 1
                 PROVE  IF row'[c] THEN Swap(c).key \in written'[c] /\ draft'[c][Swap(c).key] = Swap(c).to
                                   ELSE written'[c] = {}
    BY <1>1 DEF Drafted, Swap
  <2>2. stmt[c] = 1
    BY <2>1, SwapFacts DEF Wrote, Executing, TableInv, TypeOK
  <2>3. written[c] = {}
    BY <2>2 DEF TableInv, Begun
  <2>4. Does(Swap(c), Seen(c, written[c]), keys, table, hit)
    BY <2>1, <2>2 DEF Wrote, Swap
  <2>5. IF hit THEN keys = {Swap(c).key} /\ table[Swap(c).key] = Swap(c).to ELSE keys = {}
    BY <2>4, SwapFacts DEF Does
  <2>6. QED
    BY <1>1, <2>3, <2>5 DEF TableInv, TypeOK
<1>3. stmt'[c] # 1
  BY <1>1 DEF TableInv, TypeOK
<1>4. QED
  BY <1>1, <1>2, <1>3 DEF Owned, Swap, TableInv, TypeOK

LEMMA WroteForeign ==
    ASSUME OwnSwaps, TableInv, NEW c \in Clients, Claims(c), Drafted(c), Owned(c),
           NEW e \in Clients \ {c},
           NEW keys \in SUBSET Keys, NEW table \in Table, NEW hit \in BOOLEAN,
           Wrote(e, keys, table, hit)
    PROVE  Drafted(c)' /\ Owned(c)'
<1>1. /\ written' = [written EXCEPT ![e] = @ \union keys]
      /\ draft' = [draft EXCEPT ![e] = table]
      /\ row' = [row EXCEPT ![e] = hit]
      /\ stmt' = [stmt EXCEPT ![e] = @ + 1]
      /\ conn' = [conn EXCEPT ![e] = "open"]
      /\ UNCHANGED <<told, committed, op>>
      /\ \A k \in Keys \ keys : table[k] = Seen(e, written[e])[k]
  BY DEF Wrote, Writes
<1>2. Drafted(c)'
  BY <1>1 DEF Drafted, Swap, TableInv, TypeOK
<1>3. PICK k, v : k = Swap(c).key /\ v = Swap(c).to
  OBVIOUS
<1>4. k \in Keys /\ v # NULL
  BY <1>3, SwapFacts
<1>5. Seen(e, written[e])[k] = IF k \in written[e] THEN draft[e][k] ELSE committed[k]
  BY <1>4 DEF Seen
<1>6. PICK t : t = Program[e][op[e]][stmt[e]]
  OBVIOUS
<1>7. k \in keys => /\ table[k] # v
                    /\ Seen(e, written[e])[k] # v
  <2>1. Does(t, Seen(e, written[e]), keys, table, hit)
    BY <1>6 DEF Wrote
  <2>2. \/ t.kind = "delete" /\ k \notin t.keys
        \/ t.kind = "insert" /\ (t.key = k => t.to # v)
        \/ t.kind = "swap" /\ (t.key = k => v \notin {t.from, t.to})
    BY <1>3, <1>6, Foreign DEF Wrote, TableInv
  <2>3. QED
    BY <1>4, <2>1, <2>2 DEF Does
<1>8. /\ \A d \in Clients \ {c} : k \in written[d] => draft[d][k] # v
      /\ op[c] = 1 /\ told[c] = "none" => committed[k] # v
      /\ op[c] = 2 /\ stmt[c] = 1 /\ told[c] = "miss" => committed[k] # v
      /\ op[c] = 2 /\ stmt[c] = 1 /\ told[c] = "hit" =>
            committed[k] = v /\ \A d \in Clients \ {c} : k \notin written[d]
  BY <1>3 DEF Owned
<1>9. \A d \in Clients \ {c} : k \in written'[d] => draft'[d][k] # v
  BY <1>1, <1>4, <1>5, <1>7, <1>8 DEF TableInv, TypeOK
<1>10. ASSUME op[c] = 2, stmt[c] = 1, told[c] = "hit"
       PROVE  \A d \in Clients \ {c} : k \notin written'[d]
  BY <1>1, <1>5, <1>7, <1>8, <1>10 DEF TableInv, TypeOK
<1>11. stmt'[c] = stmt[c] /\ UNCHANGED <<told, committed, op>>
  BY <1>1 DEF TableInv, TypeOK
<1>12. Owned(c)'
  BY <1>3, <1>8, <1>9, <1>10, <1>11 DEF Owned, Swap
<1>13. QED
  BY <1>2, <1>12

\* What others commit leaves the value as it is.
LEMMA CommitForeign ==
    ASSUME OwnSwaps, TableInv, NEW c \in Clients, Claims(c), Drafted(c), Owned(c),
           NEW e \in Clients \ {c}, Commit(e) \/ BreakAfterCommit(e)
    PROVE  Drafted(c)' /\ Owned(c)'
<1>1. /\ committed' = Seen(e, written[e])
      /\ written' = [written EXCEPT ![e] = {}]
      /\ UNCHANGED <<draft, row>>
      /\ op'[c] = op[c] /\ stmt'[c] = stmt[c] /\ told'[c] = told[c] /\ conn'[c] = conn[c]
  BY DEF Commit, BreakAfterCommit, Error, TableInv, TypeOK
<1>2. Drafted(c)'
  BY <1>1 DEF Drafted, Swap, TableInv, TypeOK
<1>3. PICK k, v : k = Swap(c).key /\ v = Swap(c).to
  OBVIOUS
<1>4. k \in Keys
  BY <1>3, SwapFacts
<1>5. committed'[k] = IF k \in written[e] THEN draft[e][k] ELSE committed[k]
  BY <1>1, <1>4 DEF Seen
<1>6. \A d \in Clients : written'[d] \subseteq written[d]
  BY <1>1 DEF TableInv, TypeOK
<1>7. Owned(c)'
  BY <1>1, <1>3, <1>5, <1>6 DEF Owned, Swap
<1>8. QED
  BY <1>2, <1>7

LEMMA CommitOwn ==
    ASSUME OwnSwaps, TableInv, NEW c \in Clients, Claims(c), Drafted(c), Owned(c), Commit(c)
    PROVE  Drafted(c)' /\ Owned(c)'
<1>1. /\ committed' = Seen(c, written[c])
      /\ op'[c] = op[c] + 1 /\ stmt'[c] = 1
      /\ told'[c] = IF row[c] THEN "hit" ELSE "miss"
      /\ written' = [written EXCEPT ![c] = {}]
      /\ UNCHANGED draft
      /\ op[c] \in Nat \ {0} /\ stmt[c] > Len(Program[c][op[c]])
      /\ conn[c] = "open" /\ told[c] \in {"none", "hit"}
  BY Current DEF Commit, Committing, Calling, TableInv, TypeOK
<1>2. Drafted(c)'
  BY <1>1 DEF Drafted
<1>3. PICK k, v : k = Swap(c).key /\ v = Swap(c).to
  OBVIOUS
<1>4. k \in Keys
  BY <1>3, SwapFacts
<1>5. \A d \in Clients \ {c} : k \in written'[d] => draft'[d][k] # v
  BY <1>1, <1>3 DEF Owned, TableInv, TypeOK
<1>6. CASE op[c] = 1
  <2>1. stmt[c] = 2
    BY <1>1, <1>6, SwapFacts, Current DEF Claims, Commit, Committing, Calling, TableInv
  <2>2. told[c] = "none"
    BY <1>1, <1>6 DEF Drafted
  <2>3. committed[k] # v
    BY <1>3, <1>6, <2>2 DEF Owned
  <2>4. IF row[c] THEN k \in written[c] /\ draft[c][k] = v ELSE written[c] = {}
    BY <1>1, <1>3, <1>6, <2>1 DEF Drafted
  <2>5. IF row[c] THEN committed'[k] = v ELSE committed'[k] = committed[k]
    BY <1>1, <1>4, <2>4 DEF Seen
  <2>6. row[c] => \A d \in Clients \ {c} : k \notin written'[d]
    BY <1>1, <2>4 DEF TableInv, Isolated, TypeOK
  <2>7. Owned(c)'
    BY <1>1, <1>3, <1>5, <1>6, <2>3, <2>5, <2>6 DEF Owned, Swap
  <2>8. QED
    BY <1>2, <2>7
<1>7. CASE op[c] # 1
  BY <1>1, <1>2, <1>3, <1>5, <1>7 DEF Owned, Swap
<1>8. QED
  BY <1>6, <1>7

\* A transaction that ends without a commit, or whose commit is not known to
\* its client, leaves the client with an error or with nothing told.
LEMMA LostClaim ==
    ASSUME OwnSwaps, TableInv, NEW c \in Clients, Claims(c), Drafted(c), Owned(c), NEW e \in Clients,
           Quits(e) \/ Break(e) \/ (e = c /\ BreakAfterCommit(e))
    PROVE  Drafted(c)' /\ Owned(c)'
<1>1. /\ UNCHANGED <<op, stmt, row, draft>>
      /\ written' = [written EXCEPT ![e] = {}]
      /\ \A d \in Clients : d # e => told'[d] = told[d] /\ conn'[d] = conn[d]
      /\ conn'[e] # "open"
      /\ UNCHANGED told \/ told'[e] = "error"
      /\ UNCHANGED committed \/ (e = c /\ told'[e] = "error")
  BY DEF Quits, Break, BreakAfterCommit, Error, TableInv, TypeOK
<1>2. \A d \in Clients : written'[d] \subseteq written[d] /\ (d # e => written'[d] = written[d])
  BY <1>1 DEF TableInv, TypeOK
<1>3. Drafted(c)'
  BY <1>1, <1>2 DEF Drafted, Swap
<1>4. Owned(c)'
  BY <1>1, <1>2 DEF Owned, Swap
<1>5. QED
  BY <1>3, <1>4

LEMMA ClaimInit ==
    ASSUME OwnSwaps, Init
    PROVE  ClaimInv
<1>1. ASSUME NEW c \in Clients, Claims(c)
      PROVE  Drafted(c) /\ Owned(c)
  BY <1>1, SwapFacts DEF Init, Drafted, Owned
<1>2. QED
  BY <1>1 DEF ClaimInv

LEMMA ClaimStep ==
    ASSUME OwnSwaps, TableInv, ClaimInv, [Next]_vars
    PROVE  ClaimInv'
<1> SUFFICES ASSUME NEW c \in Clients, Claims(c)
             PROVE  Drafted(c)' /\ Owned(c)'
  BY DEF ClaimInv, Claims
<1>1. Drafted(c) /\ Owned(c)
  BY DEF ClaimInv
<1>2. CASE Next
  <2>1. Steps
    BY <1>2, StepsAreThese
  <2>2. CASE \E e \in Clients, keys \in SUBSET Keys, table \in Table, hit \in BOOLEAN :
                Wrote(e, keys, table, hit)
    BY <1>1, <2>2, WroteOwn, WroteForeign
  <2>3. ASSUME NEW e \in Clients, Quits(e) \/ Commit(e) \/ Break(e) \/ BreakAfterCommit(e)
        PROVE  Drafted(c)' /\ Owned(c)'
    <3>1. CASE Commit(e) \/ BreakAfterCommit(e)
      BY <1>1, <3>1, CommitForeign, CommitOwn, LostClaim
    <3>2. CASE Quits(e)
      BY <1>1, <3>2, LostClaim
    <3>3. CASE Break(e)
      BY <1>1, <3>3, LostClaim
    <3>4. QED
      BY <2>3, <3>1, <3>2, <3>3
  <2>4. CASE RollBack
    BY <1>1, <2>4 DEF RollBack, Drafted, Owned, Swap
  <2>5. QED
    BY <2>1, <2>2, <2>3, <2>4 DEF Steps
<1>3. CASE UNCHANGED vars
  BY <1>1, <1>3 DEF vars, Drafted, Owned, Swap
<1>4. QED
  BY <1>2, <1>3

\* A worker that was told that its claim hit has its lease in the table, and one
\* that was told it missed has not, whatever connections were lost and whichever
\* statements ran twice; for any number of clients.
THEOREM ToldCorrect ==
    ASSUME OwnSwaps
    PROVE  Spec => []ToldIsTrue
<1>1. Spec => []TableInv
  BY TableInit, TableStep, PTL DEF Spec
<1>2. Init => ClaimInv
  BY ClaimInit
<1>3. TableInv /\ ClaimInv /\ [Next]_vars => ClaimInv'
  BY ClaimStep
<1>4. TableInv /\ ClaimInv => ToldIsTrue
  <2> SUFFICES ASSUME TableInv, ClaimInv, NEW c \in Clients,
                      op[c] = 2, stmt[c] = 1, Program[c][1][1].kind = "swap"
               PROVE  /\ told[c] = "hit" => committed[Swap(c).key] = Swap(c).to
                      /\ told[c] = "miss" => committed[Swap(c).key] # Swap(c).to
    BY DEF ToldIsTrue, Swap
  <2>1. Len(Program[c]) \in Nat
    BY DatabaseAssumption, LenProperties
  <2>2. Claims(c)
    BY <2>1 DEF Claims, TableInv, TypeOK
  <2>3. QED
    BY <2>2 DEF ClaimInv, Owned
<1>5. QED
  BY <1>1, <1>2, <1>3, <1>4, PTL DEF Spec

-----------------------------------------------------------------------------
(* Policies                                                                *)

Deletes(o) == \E j \in 1..Len(o) : o[j].kind = "delete" /\ o[j].keys \intersect Policies # {}

\* What a transaction would leave of the policies, if it committed now: an
\* operation that deletes none leaves every row it wrote with a value, and one
\* that does has inserted a row by its end.
Refilled(c) ==
    op[c] <= Len(Program[c]) =>
        LET o == Program[c][op[c]]
            last == o[Len(o)]
        IN  /\ ~Deletes(o) => \A k \in written[c] \intersect Policies : draft[c][k] # NULL
            /\ Deletes(o) /\ stmt[c] > Len(o) /\ conn[c] = "open" =>
                    last.key \in written[c] /\ draft[c][last.key] # NULL

PolicyInv == PoliciesInForce /\ \A c \in Clients : Refilled(c)

\* What is committed leaves a policy in the table.
LEMMA Landed ==
    ASSUME Refills, TableInv, PolicyInv, NEW e \in Clients, Committing(e), conn[e] = "open"
    PROVE  \E k \in Policies : Seen(e, written[e])[k] # NULL
<1>1. PICK o, last : o = Program[e][op[e]] /\ last = o[Len(o)]
  OBVIOUS
<1>2. op[e] \in 1..Len(Program[e]) /\ stmt[e] > Len(o)
  BY <1>1, Current DEF TableInv, Committing, Calling
<1>3. /\ ~Deletes(o) => \A k \in written[e] \intersect Policies : draft[e][k] # NULL
      /\ Deletes(o) => last.key \in written[e] /\ draft[e][last.key] # NULL
  <2>1. Refilled(e) /\ op[e] <= Len(Program[e])
    BY DEF PolicyInv, Committing, Calling
  <2>2. QED
    BY <1>1, <1>2, <2>1 DEF Refilled
<1>4. \A k \in Policies : Seen(e, written[e])[k] = IF k \in written[e] THEN draft[e][k] ELSE committed[k]
  BY DatabaseAssumption DEF Seen
<1>5. CASE Deletes(o)
  <2>1. last.key \in Policies
    BY <1>1, <1>2, <1>5 DEF Refills, Deletes
  <2>2. QED
    BY <1>3, <1>4, <1>5, <2>1
<1>6. CASE ~Deletes(o)
  <2>1. PICK k \in Policies : committed[k] # NULL
    BY DEF PolicyInv, PoliciesInForce
  <2>2. Seen(e, written[e])[k] # NULL
    BY <1>3, <1>4, <1>6, <2>1
  <2>3. QED
    BY <2>2
<1>7. QED
  BY <1>5, <1>6

LEMMA WroteRefilled ==
    ASSUME Refills, TableInv, PolicyInv, NEW e \in Clients,
           NEW keys \in SUBSET Keys, NEW table \in Table, NEW hit \in BOOLEAN,
           Wrote(e, keys, table, hit)
    PROVE  Refilled(e)'
<1>1. /\ written'[e] = written[e] \union keys /\ draft'[e] = table
      /\ stmt'[e] = stmt[e] + 1 /\ op'[e] = op[e]
      /\ \A k \in Keys \ keys : table[k] = Seen(e, written[e])[k]
  BY DEF Wrote, Writes, TableInv, TypeOK
<1>2. PICK o, s : o = Program[e][op[e]] /\ s = o[stmt[e]]
  OBVIOUS
<1>3. op[e] \in 1..Len(Program[e]) /\ stmt[e] \in 1..Len(o) /\ Len(o) \in Nat
  BY <1>2, Current DEF TableInv, Wrote, Executing, Calling
<1>4. Does(s, Seen(e, written[e]), keys, table, hit)
  BY <1>2 DEF Wrote
<1>5. ASSUME ~Deletes(o), NEW k \in (written[e] \union keys) \intersect Policies
      PROVE  table[k] # NULL
  <2>1. CASE k \in keys
    <3>1. ~(s.kind = "delete" /\ k \in s.keys)
      BY <1>2, <1>3, <1>5 DEF Deletes
    <3>2. QED
      BY <1>4, <2>1, <3>1, DatabaseAssumption DEF Does
  <2>2. CASE k \notin keys
    <3>1. k \in Keys /\ table[k] = draft[e][k]
      BY <1>1, <1>5, <2>2, DatabaseAssumption DEF Seen
    <3>2. draft[e][k] # NULL
      BY <1>2, <1>3, <1>5, <2>2 DEF PolicyInv, Refilled
    <3>3. QED
      BY <3>1, <3>2
  <2>3. QED
    BY <2>1, <2>2
<1>6. ASSUME Deletes(o), stmt[e] + 1 > Len(o)
      PROVE  o[Len(o)].key \in written[e] \union keys /\ table[o[Len(o)].key] # NULL
  <2>1. stmt[e] = Len(o)
    BY <1>3, <1>6
  <2>2. s.kind = "insert"
    BY <1>2, <1>3, <1>6, <2>1 DEF Refills, Deletes
  <2>3. keys = {s.key} /\ table[s.key] \in Values
    BY <1>4, <2>2 DEF Does
  <2>4. QED
    BY <1>2, <2>1, <2>3, DatabaseAssumption
<1>7. QED
  BY <1>1, <1>2, <1>5, <1>6 DEF Refilled, Deletes

\* A client without writes and before its end, or without a connection, has
\* nothing to refill.
LEMMA OtherRefilled ==
    ASSUME TableInv, NEW e \in Clients,
           Quits(e) \/ Commit(e) \/ Break(e) \/ BreakAfterCommit(e)
    PROVE  Refilled(e)'
<1>1. written'[e] = {}
  BY DEF Quits, Commit, Break, BreakAfterCommit, Error, TableInv, TypeOK
<1>2. CASE Commit(e)
  <2>1. TypeOK' /\ stmt'[e] = 1
    BY <1>2, CommitTable DEF TableInv, TypeOK, Commit
  <2>2. op'[e] <= Len(Program[e]) => Len(Program[e][op'[e]]) \in Nat \ {0}
    <3>1. Program[e] \in Seq(Seq(Statement)) /\ Len(Program[e]) \in Nat
      BY DatabaseAssumption, LenProperties
    <3>2. op'[e] <= Len(Program[e]) => op'[e] \in 1..Len(Program[e])
      BY <2>1, <3>1 DEF TypeOK
    <3>3. QED
      BY <3>1, <3>2, ElementOfSeq, EmptySeq, DatabaseAssumption
  <2>3. op'[e] <= Len(Program[e]) => ~(stmt'[e] > Len(Program[e][op'[e]]))
    BY <2>1, <2>2
  <2>4. QED
    BY <1>1, <2>3 DEF Refilled
<1>3. CASE Quits(e) \/ Break(e) \/ BreakAfterCommit(e)
  <2>1. conn'[e] # "open"
    BY <1>3 DEF Quits, Break, BreakAfterCommit, Error, TableInv, TypeOK
  <2>2. QED
    BY <1>1, <2>1 DEF Refilled
<1>4. QED
  BY <1>2, <1>3

\* Nobody else's transaction is touched.
LEMMA RefilledElsewhere ==
    ASSUME TableInv, PolicyInv, NEW e \in Clients, NEW d \in Clients, d # e,
           \/ \E keys \in SUBSET Keys, table \in Table, hit \in BOOLEAN : Wrote(e, keys, table, hit)
           \/ Quits(e) \/ Commit(e) \/ Break(e) \/ BreakAfterCommit(e)
    PROVE  Refilled(d)'
<1>1. /\ op'[d] = op[d] /\ stmt'[d] = stmt[d] /\ conn'[d] = conn[d]
      /\ written'[d] = written[d] /\ draft'[d] = draft[d]
  BY DEF Wrote, Writes, Quits, Commit, Break, BreakAfterCommit, Error, TableInv, TypeOK
<1>2. QED
  BY <1>1 DEF PolicyInv, Refilled

LEMMA PolicyInit ==
    ASSUME Refills, Init
    PROVE  PolicyInv
<1>1. PoliciesInForce
  BY DEF Refills, Init, PoliciesInForce
<1>2. \A c \in Clients : Refilled(c)
  BY DEF Init, Refilled
<1>3. QED
  BY <1>1, <1>2 DEF PolicyInv

LEMMA PolicyStep ==
    ASSUME Refills, TableInv, PolicyInv, [Next]_vars
    PROVE  PolicyInv'
<1>1. CASE Next
  <2>1. ASSUME NEW e \in Clients,
               \/ \E keys \in SUBSET Keys, table \in Table, hit \in BOOLEAN : Wrote(e, keys, table, hit)
               \/ Quits(e) \/ Commit(e) \/ Break(e) \/ BreakAfterCommit(e)
        PROVE  PolicyInv'
    <3>1. Refilled(e)'
      BY <2>1, WroteRefilled, OtherRefilled
    <3>2. \A d \in Clients : Refilled(d)'
      BY <2>1, <3>1, RefilledElsewhere
    <3>3. PoliciesInForce'
      <4>1. CASE Commit(e) \/ BreakAfterCommit(e)
        <5>1. committed' = Seen(e, written[e]) /\ Committing(e) /\ conn[e] = "open"
          BY <4>1 DEF Commit, BreakAfterCommit
        <5>2. QED
          BY <5>1, Landed DEF PoliciesInForce
      <4>2. CASE UNCHANGED committed
        BY <4>2 DEF PolicyInv, PoliciesInForce
      <4>3. QED
        BY <2>1, <4>1, <4>2 DEF Wrote, Quits, Break
    <3>4. QED
      BY <3>2, <3>3 DEF PolicyInv
  <2>2. CASE RollBack
    BY <2>2 DEF RollBack, PolicyInv, PoliciesInForce, Refilled
  <2>3. QED
    BY <1>1, <2>1, <2>2, StepsAreThese DEF Steps
<1>2. CASE UNCHANGED vars
  BY <1>2 DEF vars, PolicyInv, PoliciesInForce, Refilled
<1>3. QED
  BY <1>1, <1>2

\* No reader finds the table without a policy while replace_all deletes and
\* inserts, also when its connection is lost in between and its statements go
\* on in a transaction of their own; for any number of clients and rows.
THEOREM PoliciesCorrect ==
    ASSUME Refills
    PROVE  Spec => []PoliciesInForce
<1>1. Spec => []TableInv
  BY TableInit, TableStep, PTL DEF Spec
<1>2. Init => PolicyInv
  BY PolicyInit
<1>3. TableInv /\ PolicyInv /\ [Next]_vars => PolicyInv'
  BY PolicyStep
<1>4. PolicyInv => PoliciesInForce
  BY DEF PolicyInv
<1>5. QED
  BY <1>1, <1>2, <1>3, <1>4, PTL DEF Spec
=============================================================================
