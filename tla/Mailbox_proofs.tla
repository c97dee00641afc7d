--------------------------- MODULE Mailbox_proofs ---------------------------
(***************************************************************************)
(* What the pull transports guarantee for every backend, any number of     *)
(* emails and Message-IDs, and any limit of a query.                       *)
(***************************************************************************)
EXTENDS Mailbox, TLAPS

\* _pending_ids never mixes up messages; and what is left to acknowledge, or
\* is being filed, was handled by a pass.
Traced ==
    \A p \in Processes :
        /\ \A m \in MessageIds : pendingIds[p][m] # NULL => MessageId[pendingIds[p][m]] = m
        /\ todo[p] \subseteq handled
        /\ acking[p] # NULL => MessageId[acking[p]] \in handled

MailboxInv == TypeOK /\ Traced /\ FiledIsHandled

LEMMA ChangedTyped ==
    ASSUME TypeOK, Changed
    PROVE  stale' \in [Processes -> BOOLEAN] /\ events' \in 0..MaxEvents
BY MailboxAssumption DEF TypeOK, Changed

\* Everything a process knew is gone when it ends.
LEMMA DeadTyped ==
    ASSUME MailboxInv, NEW p \in Processes, Dead(p), handled \subseteq handled',
           handled' \subseteq MessageIds, UNCHANGED <<kind, box, seen, stale>>,
           mishaps' \in 0..MaxMishaps
    PROVE  MailboxInv'
<1> USE MailboxAssumption DEF MailboxInv, TypeOK
<1>1. Nothing \in [MessageIds -> Emails \union {NULL}] /\ \A m \in MessageIds : Nothing[m] = NULL
  BY DEF Nothing
<1>2. TypeOK'
  BY <1>1 DEF Dead, Goto
<1>3. Traced'
  BY <1>1 DEF Dead, Traced
<1>4. QED
  BY <1>2, <1>3 DEF FiledIsHandled

LEMMA MailboxStep ==
    MailboxInv /\ [Next]_vars => MailboxInv'
<1> SUFFICES ASSUME MailboxInv, [Next]_vars
             PROVE  MailboxInv'
  OBVIOUS
<1> USE MailboxAssumption DEF MailboxInv, TypeOK, procVars
<1>1. ASSUME NEW e \in Emails, Arrive(e) \/ Submit(e), UNCHANGED kind
      PROVE  MailboxInv'
  <2>1. Changed /\ UNCHANGED <<seen, handled, procVars, mishaps>>
    BY <1>1 DEF Arrive, Submit
  <2>2. /\ box' \in [Emails -> {"none", "in", "done", "own"}]
        /\ \A f \in Emails : box'[f] = "done" => box[f] = "done"
    BY <1>1 DEF Arrive, Submit
  <2>3. QED
    BY <1>1, <2>1, <2>2, ChangedTyped DEF Traced, FiledIsHandled
<1>2. ASSUME NEW p \in Processes, Start(p), UNCHANGED kind
      PROVE  MailboxInv'
  BY <1>2 DEF Start, Goto, Traced, FiledIsHandled
<1>3. ASSUME NEW p \in Processes, Query(p), UNCHANGED kind
      PROVE  MailboxInv'
  <2>1. events' \in 0..MaxEvents
    BY <1>3 DEF Query, Woken
  <2>2. batch' \in [Processes -> SUBSET Emails]
    <3>1. Listed \subseteq Emails
      BY DEF Listed
    <3>2. QED
      BY <1>3, <3>1 DEF Query
  <2>3. pc' \in [Processes -> {"off", "idle", "get", "ingest", "ack", "update"}]
    BY <1>3 DEF Query, Goto
  <2>4. UNCHANGED <<kind, box, seen, handled, pendingIds, todo, acking, stale, mishaps>>
    BY <1>3 DEF Query
  <2>5. QED
    BY <2>1, <2>2, <2>3, <2>4 DEF Traced, FiledIsHandled
<1>4. ASSUME NEW p \in Processes, Get(p), UNCHANGED kind
      PROVE  MailboxInv'
  <2>1. PICK chosen \in [MessageIds -> Emails \union {NULL}] :
            /\ \A m \in MessageIds :
                LET same == {e \in batch[p] : MessageId[e] = m}
                IN  IF same = {} THEN chosen[m] = NULL ELSE chosen[m] \in same
            /\ pendingIds' = [pendingIds EXCEPT ![p] = chosen]
    BY <1>4 DEF Get
  <2>2. \A m \in MessageIds : chosen[m] # NULL => MessageId[chosen[m]] = m
    BY <2>1
  <2>3. UNCHANGED <<kind, box, seen, handled, batch, todo, acking, stale, events, mishaps>>
    BY <1>4 DEF Get
  <2>4. TypeOK'
    BY <1>4, <2>1, <2>3 DEF Get, Goto
  <2>5. Traced'
    BY <2>1, <2>2, <2>3 DEF Traced
  <2>6. QED
    BY <2>3, <2>4, <2>5 DEF FiledIsHandled
<1>5. ASSUME NEW p \in Processes, Fetch(p), UNCHANGED kind
      PROVE  MailboxInv'
  <2>1. PICK e \in batch[p] \ seen :
            /\ seen' = seen \union {e}
            /\ pendingIds' = [pendingIds EXCEPT ![p][MessageId[e]] = e]
    BY <1>5 DEF Fetch
  <2>2. e \in Emails /\ MessageId[e] \in MessageIds
    BY <2>1
  <2>3. UNCHANGED <<kind, box, handled, batch, todo, acking, stale, events, mishaps>>
    BY <1>5 DEF Fetch
  <2>4. pc' \in [Processes -> {"off", "idle", "get", "ingest", "ack", "update"}]
    BY <1>5 DEF Fetch, Goto
  <2>5. pendingIds' \in [Processes -> [MessageIds -> Emails \union {NULL}]]
    BY <2>1, <2>2
  <2>6. Traced'
    BY <2>1, <2>2, <2>3 DEF Traced
  <2>7. QED
    BY <2>1, <2>2, <2>3, <2>4, <2>5, <2>6 DEF FiledIsHandled
<1>6. ASSUME NEW p \in Processes, Ingest(p), UNCHANGED kind
      PROVE  MailboxInv'
  <2> DEFINE ids == {MessageId[e] : e \in batch[p]}
  <2>1. ids \subseteq MessageIds
    OBVIOUS
  <2>2. UNCHANGED <<kind, box, seen, stale>> /\ mishaps' \in 0..MaxMishaps
    BY <1>6 DEF Ingest, Mishap
  <2>3. CASE /\ handled' = handled \union ids
             /\ todo' = [todo EXCEPT ![p] = ids] \/ UNCHANGED todo
             /\ batch' = [batch EXCEPT ![p] = {}]
             /\ Goto(p, "ack")
             /\ UNCHANGED <<pendingIds, acking, events>>
    <3> HIDE DEF ids
    <3>1. todo' \in [Processes -> SUBSET MessageIds] /\ \A q \in Processes : todo'[q] \subseteq handled'
      BY <2>1, <2>3 DEF Traced
    <3>2. TypeOK'
      BY <2>1, <2>2, <2>3, <3>1 DEF Goto
    <3>3. QED
      BY <2>2, <2>3, <3>1, <3>2 DEF Traced, FiledIsHandled
  <2>4. CASE Dead(p) /\ UNCHANGED handled
    BY <2>2, <2>4, DeadTyped
  <2>5. QED
    BY <1>6, <2>3, <2>4 DEF Ingest
<1>7. ASSUME NEW p \in Processes, AckRead(p), UNCHANGED kind
      PROVE  MailboxInv'
  <2>1. PICK m \in todo[p] :
            /\ todo' = [todo EXCEPT ![p] = @ \ {m}]
            /\ pendingIds' = [pendingIds EXCEPT ![p][m] = NULL]
            /\ \/ /\ acking' = [acking EXCEPT ![p] = pendingIds[p][m]]
                  /\ stale' = [stale EXCEPT ![p] = FALSE]
                  /\ Goto(p, "update")
                  /\ UNCHANGED mishaps
               \/ Mishap /\ UNCHANGED <<acking, stale, pc>>
    BY <1>7 DEF AckRead
  <2>2. m \in MessageIds /\ m \in handled /\ pendingIds[p][m] \in Emails \union {NULL}
    BY <2>1 DEF Traced
  <2>3. UNCHANGED <<kind, box, seen, handled, batch, events>>
    BY <1>7 DEF AckRead
  <2>4. /\ pendingIds' \in [Processes -> [MessageIds -> Emails \union {NULL}]]
        /\ todo' \in [Processes -> SUBSET MessageIds]
    BY <2>1, <2>2
  <2>5. /\ acking' \in [Processes -> Emails \union {NULL}]
        /\ mishaps' \in 0..MaxMishaps
        /\ pc' \in [Processes -> {"off", "idle", "get", "ingest", "ack", "update"}]
    <3>1. UNCHANGED acking \/ acking' = [acking EXCEPT ![p] = pendingIds[p][m]]
      BY <2>1
    <3>2. UNCHANGED mishaps \/ Mishap
      BY <2>1
    <3>3. UNCHANGED pc \/ Goto(p, "update")
      BY <2>1
    <3>4. acking' \in [Processes -> Emails \union {NULL}]
      BY <2>2, <3>1
    <3>5. mishaps' \in 0..MaxMishaps
      BY <3>2 DEF Mishap
    <3>6. QED
      BY <3>3, <3>4, <3>5 DEF Goto
  <2>s. stale' \in [Processes -> BOOLEAN]
    <3>1. UNCHANGED stale \/ stale' = [stale EXCEPT ![p] = FALSE]
      BY <2>1
    <3>2. QED
      BY <3>1
  <2>6. \A q \in Processes : acking'[q] # NULL => MessageId[acking'[q]] \in handled
    BY <2>1, <2>2 DEF Traced
  <2>7. /\ \A q \in Processes : todo'[q] \subseteq handled
        /\ \A q \in Processes, n \in MessageIds :
                pendingIds'[q][n] # NULL => MessageId[pendingIds'[q][n]] = n
    BY <2>1, <2>2 DEF Traced
  <2>8. QED
    BY <2>3, <2>4, <2>5, <2>s, <2>6, <2>7 DEF Traced, FiledIsHandled
<1>8. ASSUME NEW p \in Processes, AckMove(p), UNCHANGED kind
      PROVE  MailboxInv'
  <2>1. PICK m \in todo[p] :
            /\ todo' = [todo EXCEPT ![p] = @ \ {m}]
            /\ pendingIds' = [pendingIds EXCEPT ![p][m] = NULL]
            /\ \/ box' = [box EXCEPT ![pendingIds[p][m]] = "done"] /\ UNCHANGED mishaps
               \/ Mishap /\ UNCHANGED box
    BY <1>8 DEF AckMove
  <2>2. /\ m \in MessageIds /\ m \in handled
        /\ pendingIds[p][m] \in Emails => MessageId[pendingIds[p][m]] = m
    BY <2>1 DEF Traced
  <2>3. UNCHANGED <<kind, seen, handled, pc, batch, acking, stale, events>>
    BY <1>8 DEF AckMove
  <2>4. /\ pendingIds' \in [Processes -> [MessageIds -> Emails \union {NULL}]]
        /\ todo' \in [Processes -> SUBSET MessageIds]
    BY <2>1, <2>2
  <2>5. box' \in [Emails -> {"none", "in", "done", "own"}] /\ mishaps' \in 0..MaxMishaps
    BY <2>1 DEF Mishap
  <2>6. FiledIsHandled'
    BY <2>1, <2>2, <2>3 DEF FiledIsHandled
  <2>7. /\ \A q \in Processes : todo'[q] \subseteq handled
        /\ \A q \in Processes, n \in MessageIds :
                pendingIds'[q][n] # NULL => MessageId[pendingIds'[q][n]] = n
    BY <2>1, <2>2 DEF Traced
  <2>8. QED
    BY <2>3, <2>4, <2>5, <2>6, <2>7 DEF Traced
<1>9. ASSUME NEW p \in Processes, AckUpdate(p), UNCHANGED kind
      PROVE  MailboxInv'
  <2>1. /\ acking' = [acking EXCEPT ![p] = NULL]
        /\ Goto(p, "ack")
        /\ UNCHANGED <<kind, seen, handled, batch, pendingIds, todo>>
    BY <1>9 DEF AckUpdate
  <2>2. stale' \in [Processes -> BOOLEAN] /\ events' \in 0..MaxEvents /\ mishaps' \in 0..MaxMishaps
    BY <1>9, ChangedTyped DEF AckUpdate, Mishap
  <2>3. box' = [box EXCEPT ![acking[p]] = "done"] \/ UNCHANGED box
    BY <1>9 DEF AckUpdate
  <2>4. acking[p] \in Emails => MessageId[acking[p]] \in handled
    BY DEF Traced
  <2>5. box' \in [Emails -> {"none", "in", "done", "own"}] /\ FiledIsHandled'
    BY <2>1, <2>3, <2>4 DEF FiledIsHandled
  <2>6. QED
    BY <2>1, <2>2, <2>5 DEF Traced, Goto
<1>10. ASSUME NEW p \in Processes, AckEnd(p), UNCHANGED kind
       PROVE  MailboxInv'
  <2>1. UNCHANGED <<kind, box, seen, handled, stale, mishaps>>
    BY <1>10 DEF AckEnd
  <2>2. CASE Goto(p, "idle") /\ UNCHANGED <<batch, pendingIds, todo, acking, events>>
    BY <2>1, <2>2 DEF Goto, Traced, FiledIsHandled
  <2>3. CASE Dead(p)
    BY <2>1, <2>3, DeadTyped
  <2>4. QED
    BY <1>10, <2>2, <2>3 DEF AckEnd
<1>11. ASSUME NEW p \in Processes, Dies(p), UNCHANGED kind
       PROVE  MailboxInv'
  <2>1. Dead(p) /\ UNCHANGED <<kind, box, seen, handled, stale>> /\ mishaps' \in 0..MaxMishaps
    BY <1>11 DEF Dies, Mishap
  <2>2. QED
    BY <2>1, DeadTyped
<1>12. ASSUME UNCHANGED vars
       PROVE  MailboxInv'
  BY <1>12 DEF vars, Traced, FiledIsHandled
<1> HIDE DEF MailboxInv
<1>13. QED
  BY <1>1, <1>2, <1>3, <1>4, <1>5, <1>6, <1>7, <1>8, <1>9, <1>10, <1>11, <1>12 DEF Next, Step

LEMMA MailboxInvCorrect == Spec => []MailboxInv
<1>1. Init => MailboxInv
  <2> SUFFICES ASSUME Init PROVE MailboxInv
    OBVIOUS
  <2> USE MailboxAssumption DEF Init
  <2>1. Nothing \in [MessageIds -> Emails \union {NULL}] /\ \A m \in MessageIds : Nothing[m] = NULL
    BY DEF Nothing
  <2>2. TypeOK
    BY <2>1 DEF TypeOK
  <2>3. Traced /\ FiledIsHandled
    BY <2>1 DEF Traced, FiledIsHandled
  <2>4. QED
    BY <2>2, <2>3 DEF MailboxInv
<1>2. QED
  BY <1>1, MailboxStep, PTL DEF Spec

\* Poll, listen and the servers keep mailboxes and _pending_ids well-formed.
THEOREM MailboxTypeCorrect == Spec => []TypeOK
<1>1. MailboxInv => TypeOK
  BY DEF MailboxInv
<1>2. QED
  BY <1>1, MailboxInvCorrect, PTL

\* Over every backend, no mail is filed away that no pass went through: an
\* acknowledgement files what _pending_ids holds for a Message-ID, which is an
\* email of that Message-ID, although two emails share the entry, passes
\* overlap, and a process dies and starts with an empty one.
THEOREM FiledCorrect == Spec => []FiledIsHandled
<1>1. MailboxInv => FiledIsHandled
  BY DEF MailboxInv
<1>2. QED
  BY <1>1, MailboxInvCorrect, PTL
=============================================================================
