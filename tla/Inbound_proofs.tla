--------------------------- MODULE Inbound_proofs ---------------------------
(***************************************************************************)
(* What the inbound side guarantees for any number of control planes,      *)
(* operators' shells and tasks, whatever the mails may be read as and      *)
(* however often passes overlap, die and repeat each other's work.         *)
(***************************************************************************)
EXTENDS Inbound, TaskQueue_proofs, SequenceTheorems

-----------------------------------------------------------------------------
(* Types, and the queue steps behind the steps of a pass                   *)

\* A process that works on a mail has one, and its place says of which kind.
WorkTyped ==
    \A p \in Processes :
        /\ pc[p] \notin {"idle", "next"} => cur[p] \in Mail
        /\ pc[p] \in {"store", "park", "request", "mail"} => cur[p].token = 0
        /\ pc[p] \in {"read", "redeem", "decide"} => cur[p].token # 0

\* A token that a mail or a command names was issued, and for its task.
Genuine(m) == m.token # 0 => m.token \in 1..Len(tokens) /\ tokens[m.token].task = m.task

TokensGenuine ==
    /\ asked \subseteq 1..Len(tokens)
    /\ mailbox \subseteq written
    /\ \A m \in written : Genuine(m)
    /\ \A p \in Processes :
        /\ batch[p] \subseteq written /\ todo[p] \subseteq batch[p]
        /\ pc[p] \notin {"idle", "next"} => Genuine(cur[p])

TypeInv == TypeOK /\ WorkTyped /\ TokensGenuine

LEMMA MailTyped ==
    ASSUME NEW m \in Mail
    PROVE  /\ m.task \in Tasks /\ m.token \in 0..MaxTokens
           /\ m.token # 0 => m \in [task : Tasks, token : Tokens, decision : Decisions,
                                    fits : BOOLEAN]
           /\ m.token # 0 => m.decision \in Decisions /\ m.fits \in BOOLEAN
BY InboundAssumption DEF Mail, TaskMails, TaskMail, Tokens

LEMMA NoEvidenceTyped == NoEvidence \in Evidence
BY DEF NoEvidence, Evidence, Link

\* Every step of a pass, a shell, an operator or a worker is one operation of
\* the queue, or none.
LEMMA QueueStep ==
    TypeInv /\ [Next]_vars => [QueueNext]_queueVars
<1> SUFFICES ASSUME TypeInv, [Next]_vars
             PROVE  [QueueNext]_queueVars
  OBVIOUS
<1> USE QueueAssumption, InboundAssumption DEF TypeInv, TypeOK, WorkTyped
<1>1. ASSUME NEW p \in Processes, Store(p)
      PROVE  [QueueNext]_queueVars
  <2>1. cur[p].task \in Tasks
    BY <1>1, MailTyped DEF Store
  <2>2. QED
    BY <1>1, <2>1 DEF Store, QueueNext
<1>2. ASSUME NEW p \in Processes, Decide(p)
      PROVE  [QueueNext]_queueVars
  <2>1. cur[p].task \in Tasks
    BY <1>2, MailTyped DEF Decide
  <2>2. Target(cur[p].decision) \in TaskState \ {"running"} /\ "action" \in TaskState
    BY DEF Target, TaskState
  <2>3. QED
    BY <1>2, <2>1, <2>2, NoEvidenceTyped DEF Decide, QueueNext
<1>3. ASSUME NEW t \in Tasks, NEW to \in OperatorMoves, OperatorMove(t, to)
      PROVE  [QueueNext]_queueVars
  <2>1. to \in TaskState \ {"running"}
    BY DEF TaskState
  <2>2. QED
    BY <1>3, <2>1, NoEvidenceTyped DEF OperatorMove, QueueNext
<1>4. ASSUME WorkerClaims
      PROVE  [QueueNext]_queueVars
  BY <1>4 DEF WorkerClaims, QueueNext
<1>5. ASSUME NEW p \in Processes,
             \/ Poll(p) \/ Deny(p) \/ TakeMail(p) \/ Request(p) \/ MailToken(p) \/ Explain(p)
             \/ Ack(p) \/ ReadApproval(p) \/ Redeem(p) \/ Crash(p)
      PROVE  UNCHANGED queueVars
  BY <1>5 DEF Poll, Deny, TakeMail, Request, MailToken, Explain, Ack, ReadApproval, Redeem, Crash
<1>6. ASSUME \/ \E t \in Tasks : SendTask(t)
             \/ \E k \in Tokens, answer \in Answers : SendReply(k, answer[1], answer[2])
             \/ \E k \in Tokens : Expire(k)
             \/ \E c \in Consoles, k \in Tokens, d \in Orders : Command(c, k, d)
             \/ UNCHANGED vars
      PROVE  UNCHANGED queueVars
  BY <1>6 DEF SendTask, SendReply, Expire, Command, vars
<1>7. QED
  BY <1>1, <1>2, <1>3, <1>4, <1>5, <1>6 DEF Next, Ingest, Apply, Processes

\* Replies that are sent, and commands, are typed and genuine.
LEMMA ReplyTyped ==
    ASSUME TypeInv, NEW k \in 1..Len(tokens), NEW d \in Decisions, NEW f \in BOOLEAN
    PROVE  /\ Reply(tokens[k].task, k, d, f) \in Mail
           /\ Reply(tokens[k].task, k, d, f).token = k
           /\ Genuine(Reply(tokens[k].task, k, d, f))
<1>1. tokens[k] \in Approval /\ k \in Tokens /\ k # 0
  BY InboundAssumption DEF TypeInv, TypeOK, Tokens
<1>2. tokens[k].task \in Tasks
  BY <1>1 DEF Approval
<1>3. QED
  BY <1>1, <1>2 DEF Reply, Mail, Genuine

LEMMA TaskMailTyped ==
    ASSUME NEW t \in Tasks
    PROVE  TaskMail(t) \in Mail /\ TaskMail(t).token = 0
BY DEF TaskMail, TaskMails, Mail

\* A token is changed in place, and the others stay.
LEMMA TokenUpdate ==
    ASSUME TypeOK, NEW k \in 1..Len(tokens), NEW a \in Approval,
           tokens' = [tokens EXCEPT ![k] = a]
    PROVE  /\ tokens' \in Seq(Approval) /\ Len(tokens') = Len(tokens)
           /\ tokens'[k] = a
           /\ \A j \in 1..Len(tokens) : j # k => tokens'[j] = tokens[j]
BY ExceptSeq DEF TypeOK

LEMMA RedeemUpdate ==
    ASSUME TypeInv, NEW p \in Processes, Redeem(p)
    PROVE  LET k == cur[p].token
           IN  \/ UNCHANGED tokens /\ Refuse(p)
               \/ /\ k \in 1..Len(tokens)
                  /\ tokens[k].used = NULL
                  /\ tokens' \in Seq(Approval) /\ Len(tokens') = Len(tokens)
                  /\ tokens'[k].task = tokens[k].task
                  /\ tokens'[k].used = cur[p].decision
                  /\ \A j \in 1..Len(tokens) : j # k => tokens'[j] = tokens[j]
                  /\ Goto(p, "decide") /\ UNCHANGED <<batch, todo, cur>>
<1> DEFINE k == cur[p].token
           a == [tokens[k] EXCEPT !.used = cur[p].decision]
<1>1. k \in 1..Len(tokens) /\ cur[p].decision \in Decisions
  BY MailTyped DEF Redeem, TypeInv, TypeOK, WorkTyped, TokensGenuine, Genuine
<1>2. tokens[k] \in Approval
  BY <1>1 DEF TypeInv, TypeOK
<1>3. a \in Approval /\ a.task = tokens[k].task /\ a.used = cur[p].decision
  BY <1>1, <1>2 DEF Approval
<1>4. CASE UNCHANGED tokens /\ Refuse(p)
  BY <1>4
<1>5. CASE /\ tokens[k].used = NULL
           /\ tokens' = [tokens EXCEPT ![k].used = cur[p].decision]
           /\ Goto(p, "decide") /\ UNCHANGED <<batch, todo, cur>>
  <2>1. tokens' = [tokens EXCEPT ![k] = a]
    BY <1>5
  <2>2. /\ tokens' \in Seq(Approval) /\ Len(tokens') = Len(tokens)
        /\ tokens'[k] = a
        /\ \A j \in 1..Len(tokens) : j # k => tokens'[j] = tokens[j]
    <3> HIDE DEF a, k
    <3> QED  BY <1>1, <1>3, <2>1, TokenUpdate DEF TypeInv
  <2>3. QED
    BY <1>1, <1>3, <1>5, <2>2
<1>6. QED
  BY <1>4, <1>5 DEF Redeem

LEMMA ExpireUpdate ==
    ASSUME TypeInv, NEW k \in Tokens, Expire(k)
    PROVE  /\ tokens' \in Seq(Approval) /\ Len(tokens') = Len(tokens)
           /\ \A j \in 1..Len(tokens) :
                tokens'[j].task = tokens[j].task /\ tokens'[j].used = tokens[j].used
<1> DEFINE a == [tokens[k] EXCEPT !.expired = TRUE]
<1>1. k \in 1..Len(tokens)
  BY DEF Expire
<1>2. tokens[k] \in Approval
  BY <1>1 DEF TypeInv, TypeOK
<1>3. a \in Approval /\ a.task = tokens[k].task /\ a.used = tokens[k].used
  BY <1>2 DEF Approval
<1>4. tokens' = [tokens EXCEPT ![k] = a]
  BY DEF Expire
<1>5. /\ tokens' \in Seq(Approval) /\ Len(tokens') = Len(tokens)
      /\ tokens'[k] = a
      /\ \A j \in 1..Len(tokens) : j # k => tokens'[j] = tokens[j]
  <2> HIDE DEF a
  <2> QED  BY <1>1, <1>3, <1>4, TokenUpdate DEF TypeInv
<1>6. QED
  BY <1>3, <1>5

LEMMA RequestUpdate ==
    ASSUME TypeInv, NEW p \in Processes, Request(p)
    PROVE  \/ UNCHANGED tokens /\ Abort(p) /\ Wiring = "bare"
           \/ /\ tokens' \in Seq(Approval) /\ Len(tokens') = Len(tokens) + 1
              /\ Len(tokens') <= MaxTokens
              /\ tokens'[Len(tokens')] = [task |-> cur[p].task, expired |-> FALSE, used |-> NULL]
              /\ \A j \in 1..Len(tokens) : tokens'[j] = tokens[j]
              /\ \/ Goto(p, "mail") /\ UNCHANGED <<batch, todo, cur>>
                 \/ GoOn(p)
<1> DEFINE a == [task |-> cur[p].task, expired |-> FALSE, used |-> NULL]
<1>1. a \in Approval
  BY MailTyped DEF Request, TypeInv, TypeOK, WorkTyped, Approval
<1>2. tokens \in Seq(Approval)
  BY DEF TypeInv, TypeOK
<1>3. ASSUME tokens' = Append(tokens, a)
      PROVE  /\ tokens' \in Seq(Approval) /\ Len(tokens') = Len(tokens) + 1
             /\ tokens'[Len(tokens')] = a
             /\ \A j \in 1..Len(tokens) : tokens'[j] = tokens[j]
  <2> HIDE DEF a
  <2> QED  BY <1>1, <1>2, <1>3, AppendProperties
<1>4. QED
  BY <1>2, <1>3, InboundAssumption DEF Request

\* Tokens are only ever added, and keep their task.
TokensGrow ==
    /\ tokens' \in Seq(Approval) /\ Len(tokens') <= MaxTokens
    /\ Len(tokens) <= Len(tokens')
    /\ \A k \in 1..Len(tokens) : tokens'[k].task = tokens[k].task

LEMMA TokensKept ==
    ASSUME TypeInv, [Next]_vars
    PROVE  TokensGrow
<1>m. MaxTokens \in Nat
  BY InboundAssumption
<1> USE <1>m DEF TokensGrow, TypeInv, TypeOK
<1>1. ASSUME NEW p \in Processes, Request(p)
      PROVE  TokensGrow
  <2>1. \/ UNCHANGED tokens
        \/ /\ tokens' \in Seq(Approval) /\ Len(tokens') = Len(tokens) + 1
           /\ Len(tokens') <= MaxTokens
           /\ \A j \in 1..Len(tokens) : tokens'[j] = tokens[j]
    BY <1>1, RequestUpdate
  <2>2. tokens \in Seq(Approval) /\ Len(tokens) \in Nat /\ Len(tokens) <= MaxTokens
    BY LenProperties
  <2> HIDE DEF TypeInv, TypeOK
  <2>3. CASE UNCHANGED tokens
    BY <2>2, <2>3
  <2>4. CASE /\ tokens' \in Seq(Approval) /\ Len(tokens') = Len(tokens) + 1
             /\ Len(tokens') <= MaxTokens
             /\ \A j \in 1..Len(tokens) : tokens'[j] = tokens[j]
    <3>1. Len(tokens) <= Len(tokens')
      BY <2>2, <2>4
    <3>2. \A k \in 1..Len(tokens) : tokens'[k].task = tokens[k].task
      BY <2>4
    <3>3. QED
      BY <2>4, <3>1, <3>2
  <2>5. QED
    BY <2>1, <2>3, <2>4
<1>2. ASSUME NEW p \in Processes, Redeem(p)
      PROVE  TokensGrow
  BY <1>2, RedeemUpdate
<1>3. ASSUME NEW k \in Tokens, Expire(k)
      PROVE  TokensGrow
  BY <1>3, ExpireUpdate
<1>4. ASSUME UNCHANGED tokens
      PROVE  TokensGrow
  BY <1>4
<1>5. ASSUME NEW p \in Processes,
             \/ Poll(p) \/ Deny(p) \/ TakeMail(p) \/ Store(p) \/ MailToken(p) \/ Explain(p)
             \/ Ack(p) \/ ReadApproval(p) \/ Decide(p) \/ Crash(p)
      PROVE  UNCHANGED tokens
  BY <1>5 DEF Poll, Deny, TakeMail, Store, MailToken, Explain, Ack, ReadApproval, Decide, Crash,
              tableVars
<1>6. ASSUME \/ \E t \in Tasks : SendTask(t)
             \/ \E k \in Tokens, answer \in Answers : SendReply(k, answer[1], answer[2])
             \/ \E t \in Tasks, to \in OperatorMoves : OperatorMove(t, to)
             \/ \E c \in Consoles, k \in Tokens, d \in Orders : Command(c, k, d)
             \/ WorkerClaims
             \/ UNCHANGED vars
      PROVE  UNCHANGED tokens
  BY <1>6 DEF SendTask, SendReply, OperatorMove, Command, WorkerClaims, vars, tableVars
<1> HIDE DEF TokensGrow, TypeInv, TypeOK
<1>7. QED
  BY <1>1, <1>2, <1>3, <1>4, <1>5, <1>6 DEF Next, Ingest, Apply, Processes

LEMMA TypeStep ==
    TypeInv /\ [Next]_vars => TypeInv'
<1> SUFFICES ASSUME TypeInv, [Next]_vars
             PROVE  TypeInv'
  OBVIOUS
<1>m. MaxTokens \in Nat /\ MaxFaults \in Nat
  BY InboundAssumption
<1> USE <1>m
<1>q. QueueTypeOK'
  BY QueueStep, QueueTypeStep DEF TypeInv, TypeOK
<1>t. TokensGrow
  BY TokensKept
<1>g. \A m : Genuine(m) => Genuine(m)'
  BY <1>t DEF TokensGrow, Genuine, TypeInv, TypeOK
<1>a. asked \subseteq 1..Len(tokens')
  BY <1>t DEF TokensGrow, TypeInv, TypeOK, TokensGenuine
<1> USE <1>q, <1>t, <1>g, <1>a
        DEF TypeInv, TypeOK, WorkTyped, TokensGenuine, TokensGrow, Goto, GoOn, Abort, Refuse,
            mailVars, tableVars, procVars, Places
<1>1. ASSUME NEW p \in Processes, Poll(p)
      PROVE  TypeInv'
  BY <1>1 DEF Poll
<1>2. ASSUME NEW p \in Processes, Deny(p)
      PROVE  TypeInv'
  BY <1>2 DEF Deny
<1>3. ASSUME NEW p \in Processes, TakeMail(p)
      PROVE  TypeInv'
  BY <1>3 DEF TakeMail
<1>4. ASSUME NEW p \in Processes, Store(p)
      PROVE  TypeInv'
  <2>1. cur[p].task \in Tasks
    BY <1>4, MailTyped DEF Store
  <2>2. parked' \subseteq Tasks
    BY <1>4, <2>1 DEF Store
  <2>3. \/ GoOn(p)
        \/ pc[p] = "park" /\ Goto(p, "request") /\ UNCHANGED <<batch, todo, cur>>
    BY <1>4 DEF Store
  <2>4. UNCHANGED <<tokens, mailVars, faults>>
    BY <1>4 DEF Store
  <2>5. WorkTyped'
    BY <2>3
  <2>6. QED
    BY <2>2, <2>3, <2>4, <2>5
<1>5. ASSUME NEW p \in Processes, Request(p)
      PROVE  TypeInv'
  BY <1>5 DEF Request
<1>6. ASSUME NEW p \in Processes, MailToken(p)
      PROVE  TypeInv'
  <2>1. asked' \subseteq 1..Len(tokens)
    BY <1>6 DEF MailToken
  <2>2. 1..Len(tokens) \subseteq Tokens
    BY DEF Tokens
  <2>3. QED
    BY <1>6, <2>1, <2>2 DEF MailToken
<1>7. ASSUME NEW p \in Processes, Explain(p)
      PROVE  TypeInv'
  BY <1>7 DEF Explain
<1>8. ASSUME NEW p \in Processes, Ack(p)
      PROVE  TypeInv'
  BY <1>8 DEF Ack, Fault
<1>9. ASSUME NEW p \in Processes, ReadApproval(p)
      PROVE  TypeInv'
  <2>1. \/ GoOn(p)
        \/ Goto(p, "explain") /\ UNCHANGED <<batch, todo, cur>>
        \/ Goto(p, "redeem") /\ UNCHANGED <<batch, todo, cur>>
    BY <1>9 DEF ReadApproval
  <2>2. pc[p] = "read" /\ UNCHANGED <<tokens, parked, mailVars, faults>>
    BY <1>9 DEF ReadApproval
  <2>3. WorkTyped'
    BY <2>1, <2>2
  <2>4. TokensGenuine'
    BY <2>1, <2>2
  <2>5. QED
    BY <2>1, <2>2, <2>3, <2>4
<1>10. ASSUME NEW p \in Processes, Redeem(p)
      PROVE  TypeInv'
  <2>1. \/ GoOn(p)
        \/ Goto(p, "explain") /\ UNCHANGED <<batch, todo, cur>>
        \/ Goto(p, "decide") /\ UNCHANGED <<batch, todo, cur>>
    BY <1>10 DEF Redeem
  <2>2. pc[p] = "redeem" /\ UNCHANGED <<parked, mailVars, faults>>
    BY <1>10 DEF Redeem
  <2>3. WorkTyped'
    BY <2>1, <2>2
  <2>4. TokensGenuine'
    BY <2>1, <2>2
  <2>5. QED
    BY <2>1, <2>2, <2>3, <2>4
<1>11. ASSUME NEW p \in Processes, Decide(p)
      PROVE  TypeInv'
  BY <1>11 DEF Decide
<1>12. ASSUME NEW p \in Processes, Crash(p)
      PROVE  TypeInv'
  BY <1>12 DEF Crash, Fault
<1>13. ASSUME NEW t \in Tasks, SendTask(t)
      PROVE  TypeInv'
  BY <1>13, TaskMailTyped DEF SendTask, Genuine
<1>14. ASSUME NEW k \in Tokens, NEW answer \in Answers, SendReply(k, answer[1], answer[2])
      PROVE  TypeInv'
  <2> DEFINE m == Reply(tokens[k].task, k, answer[1], answer[2])
  <2>1. k \in 1..Len(tokens) /\ answer[1] \in Decisions /\ answer[2] \in BOOLEAN
    BY <1>14, InboundAssumption DEF SendReply, Decisions
  <2>2. m \in Mail /\ Genuine(m)
    BY <2>1, ReplyTyped
  <2>3. /\ mailbox' = mailbox \union {m} /\ written' = written \union {m}
        /\ UNCHANGED <<tableVars, asked, denied, explained, procVars, faults>>
    BY <1>14 DEF SendReply
  <2> HIDE DEF m
  <2>4. QED
    BY <2>2, <2>3
<1>15. ASSUME NEW c \in Consoles, NEW k \in Tokens, NEW d \in Orders, Command(c, k, d)
      PROVE  TypeInv'
  <2> DEFINE m == Reply(tokens[k].task, k, d, TRUE)
  <2>1. k \in 1..Len(tokens) /\ k # 0 /\ c \in Processes /\ TRUE \in BOOLEAN
    BY <1>15 DEF Command, Processes
  <2>d. d \in Decisions
    BY InboundAssumption DEF Decisions
  <2>2. m \in Mail /\ m.token = k /\ Genuine(m)
    BY <2>1, <2>d, ReplyTyped, Zenon
  <2>3. /\ cur' = [cur EXCEPT ![c] = m] /\ Goto(c, "read")
        /\ UNCHANGED <<tableVars, mailVars, batch, todo, faults>>
    BY <1>15 DEF Command
  <2> HIDE DEF m
  <2>4. QED
    BY <2>1, <2>2, <2>3
<1>16. ASSUME NEW k \in Tokens, Expire(k)
      PROVE  TypeInv'
  BY <1>16 DEF Expire
<1>17. ASSUME NEW t \in Tasks, NEW to \in OperatorMoves, OperatorMove(t, to)
      PROVE  TypeInv'
  BY <1>17 DEF OperatorMove
<1>18. ASSUME WorkerClaims
      PROVE  TypeInv'
  BY <1>18 DEF WorkerClaims
<1>19. ASSUME UNCHANGED vars
      PROVE  TypeInv'
  BY <1>19 DEF vars
<1> HIDE DEF TypeInv
<1>20. QED
  BY <1>1, <1>2, <1>3, <1>4, <1>5, <1>6, <1>7, <1>8, <1>9, <1>10, <1>11, <1>12, <1>13, <1>14,
     <1>15, <1>16, <1>17, <1>18, <1>19 DEF Next, Ingest, Apply, Processes

LEMMA TypeInvCorrect == Spec => []TypeInv
<1>1. Init => TypeInv
  <2> SUFFICES ASSUME Init PROVE TypeInv
    OBVIOUS
  <2> USE InboundAssumption DEF Init
  <2>1. QueueTypeOK
    BY QueueAssumption DEF QueueInit, QueueTypeOK, Evidence, NoEvidence, Link
  <2>2. TypeOK
    BY <2>1 DEF TypeOK, Places, Mail, Processes
  <2>3. QED
    BY <2>2 DEF TypeInv, WorkTyped, TokensGenuine
<1>2. QED
  BY <1>1, TypeStep, PTL DEF Spec

\* Passes, shells and humans keep queue, approvals and mail well-formed; in
\* particular no mail and no command ever names a token that was not issued.
THEOREM InboundTypeCorrect == Spec => []TypeOK
<1>1. TypeInv => TypeOK
  BY DEF TypeInv
<1>2. QED
  BY <1>1, TypeInvCorrect, PTL

\* The inbound side uses the queue only through the operations of its port:
\* it implements QueueSpec, so what holds of the queue holds under it.
THEOREM InboundImplementsQueue == Spec => ImplementsQueue
<1>1. Init => QueueInit
  BY DEF Init
<1>2. TypeInv /\ [Next]_vars => [QueueNext]_queueVars
  BY QueueStep
<1>3. QED
  BY <1>1, <1>2, TypeInvCorrect, PTL DEF Spec, ImplementsQueue, QueueSpec

-----------------------------------------------------------------------------
(* A human is asked once                                                   *)

\* Between the row and its token, a parked task has one process that will
\* ask, and no token.
Asking ==
    /\ \A t \in parked : state[t] # "absent"
    /\ \A p \in Processes : pc[p] = "request" =>
        /\ cur[p].task \in parked
        /\ \A k \in 1..Len(tokens) : tokens[k].task # cur[p].task
    /\ \A p, q \in Processes :
        pc[p] = "request" /\ pc[q] = "request" /\ cur[p].task = cur[q].task => p = q

\* Stronger than OneOpenRequest, and inductive: a task never gets a second
\* token, not even after the first one expired.
OneToken ==
    /\ \A k \in 1..Len(tokens) : tokens[k].task \in parked
    /\ \A j, k \in 1..Len(tokens) : tokens[j].task = tokens[k].task => j = k

AskInv == TypeInv /\ Asking /\ OneToken

\* A step that issues no token, parks nothing and sends no process to ask
\* keeps the invariant.
Quiet ==
    /\ Len(tokens') = Len(tokens)
    /\ \A k \in 1..Len(tokens) : tokens'[k].task = tokens[k].task
    /\ parked' = parked
    /\ \A p \in Processes : pc'[p] = "request" => pc[p] = "request" /\ cur'[p] = cur[p]

LEMMA RowsKept ==
    ASSUME TypeInv, [Next]_vars
    PROVE  \A t \in Tasks : state[t] # "absent" => state'[t] # "absent"
BY QueueStep, RowsStay DEF TypeInv, TypeOK

LEMMA QuietStep ==
    ASSUME AskInv, [Next]_vars, Quiet
    PROVE  Asking' /\ OneToken'
<1>1. parked \subseteq Tasks /\ \A t \in Tasks : state[t] # "absent" => state'[t] # "absent"
  BY RowsKept DEF AskInv, TypeInv, TypeOK
<1>2. QED
  BY <1>1 DEF AskInv, Quiet, Asking, OneToken

LEMMA AskedStep ==
    AskInv /\ [Next]_vars => Asking' /\ OneToken'
<1> SUFFICES ASSUME AskInv, [Next]_vars
             PROVE  Asking' /\ OneToken'
  OBVIOUS
<1>i. TypeInv /\ TypeOK /\ WorkTyped /\ Asking /\ OneToken
  BY DEF AskInv, TypeInv
<1>k. /\ parked \subseteq Tasks
      /\ \A t \in Tasks : state[t] # "absent" => state'[t] # "absent"
  BY <1>i, RowsKept DEF TypeOK
<1>f. pc \in [Processes -> Places] /\ cur \in [Processes -> Mail \union {NULL}]
  BY <1>i DEF TypeOK
<1>1. ASSUME NEW p \in Processes, Store(p)
      PROVE  Asking' /\ OneToken'
  <2> DEFINE t == cur[p].task
  <2>1. t \in Tasks
    BY <1>1, <1>i, MailTyped DEF Store, WorkTyped
  <2>2. CASE GoOn(p) /\ UNCHANGED parked
    <3>1. Quiet
      BY <1>1, <2>2, <1>f DEF Store, GoOn, Goto, Quiet
    <3>2. QED
      BY <3>1, QuietStep
  <2>3. CASE /\ Enqueue(t, "action") /\ parked' = parked \union {t}
             /\ Goto(p, "request") /\ UNCHANGED <<batch, todo, cur>>
    <3>1. tokens' = tokens /\ cur' = cur
      BY <1>1, <2>3 DEF Store
    <3>2. /\ pc'[p] = "request"
          /\ \A q \in Processes : q # p => pc'[q] = pc[q]
      BY <2>3, <1>f DEF Goto
    <3>3. state[t] = "absent" /\ state'[t] = "action" /\ t \notin parked
      BY <2>1, <2>3, <1>i DEF Enqueue, TypeOK, QueueTypeOK, Asking
    <3>4. \A k \in 1..Len(tokens) : tokens[k].task # t
      BY <3>3, <1>i DEF OneToken
    <3>5. \A q \in Processes : pc[q] = "request" => cur[q].task # t
      BY <3>3, <1>i DEF Asking
    <3> HIDE DEF t
    <3>6. OneToken'
      BY <1>i, <2>3, <3>1 DEF OneToken
    <3>7. \A u \in parked' : state'[u] # "absent"
      BY <1>i, <1>k, <2>3, <3>3 DEF Asking
    <3>8. \A q \in Processes : pc'[q] = "request" =>
            /\ cur[q].task \in parked'
            /\ \A k \in 1..Len(tokens) : tokens[k].task # cur[q].task
      <4> SUFFICES ASSUME NEW q \in Processes, pc'[q] = "request"
                   PROVE  /\ cur[q].task \in parked'
                          /\ \A k \in 1..Len(tokens) : tokens[k].task # cur[q].task
        OBVIOUS
      <4>1. CASE q = p
        BY <4>1, <2>3, <3>4 DEF t
      <4>2. CASE q # p
        BY <4>2, <1>i, <2>3, <3>2 DEF Asking
      <4>3. QED
        BY <4>1, <4>2
    <3>9. \A q, r \in Processes :
            pc'[q] = "request" /\ pc'[r] = "request" /\ cur[q].task = cur[r].task => q = r
      BY <1>i, <3>2, <3>5 DEF Asking, t
    <3>10. QED
      BY <3>1, <3>6, <3>7, <3>8, <3>9 DEF Asking
  <2>4. QED
    BY <1>1, <2>2, <2>3 DEF Store
<1>2. ASSUME NEW p \in Processes, Request(p)
      PROVE  Asking' /\ OneToken'
  <2>1. /\ pc[p] = "request" /\ UNCHANGED parked
        /\ \A q \in Processes : q # p => pc'[q] = pc[q] /\ cur'[q] = cur[q]
        /\ pc'[p] # "request"
    BY <1>2, <1>f DEF Request, Abort, GoOn, Goto
  <2>2. CASE UNCHANGED tokens
    <3>1. Quiet
      BY <2>1, <2>2 DEF Quiet
    <3>2. QED
      BY <3>1, QuietStep
  <2>3. CASE /\ Len(tokens') = Len(tokens) + 1
             /\ tokens'[Len(tokens')] = [task |-> cur[p].task, expired |-> FALSE, used |-> NULL]
             /\ \A j \in 1..Len(tokens) : tokens'[j] = tokens[j]
    <3>1. Len(tokens) \in Nat
      BY <1>i DEF TypeOK
    <3>2. \A j \in 1..Len(tokens') : \/ j \in 1..Len(tokens) /\ tokens'[j] = tokens[j]
                                     \/ j = Len(tokens) + 1 /\ tokens'[j].task = cur[p].task
      BY <2>3, <3>1
    <3>3. /\ cur[p].task \in parked
          /\ \A k \in 1..Len(tokens) : tokens[k].task # cur[p].task
          /\ \A q \in Processes : pc[q] = "request" /\ cur[q].task = cur[p].task => q = p
      BY <1>i, <2>1 DEF Asking
    <3>4. \A k \in 1..Len(tokens') : tokens'[k].task \in parked
      BY <3>2, <3>3, <1>i DEF OneToken
    <3>5. \A j, k \in 1..Len(tokens') : tokens'[j].task = tokens'[k].task => j = k
      BY <3>2, <3>3, <1>i DEF OneToken
    <3>6. \A q \in Processes : pc'[q] = "request" =>
            \A k \in 1..Len(tokens') : tokens'[k].task # cur'[q].task
      BY <3>2, <3>3, <2>1, <1>i DEF Asking
    <3>7. QED
      BY <1>i, <1>k, <2>1, <3>4, <3>5, <3>6 DEF Asking, OneToken
  <2>4. QED
    BY <1>2, <1>i, <2>2, <2>3, RequestUpdate
<1>3. ASSUME NEW p \in Processes, Redeem(p)
      PROVE  Asking' /\ OneToken'
  <2>1. /\ parked' = parked
        /\ \A q \in Processes : pc'[q] = "request" => pc[q] = "request" /\ cur'[q] = cur[q]
    BY <1>3, <1>f DEF Redeem, Refuse, GoOn, Goto
  <2>2. /\ Len(tokens') = Len(tokens)
        /\ \A k \in 1..Len(tokens) : tokens'[k].task = tokens[k].task
    BY <1>3, <1>i, RedeemUpdate
  <2>3. QED
    BY <2>1, <2>2, QuietStep DEF Quiet
<1>4. ASSUME NEW k \in Tokens, Expire(k)
      PROVE  Asking' /\ OneToken'
  <2>1. /\ Len(tokens') = Len(tokens)
        /\ \A j \in 1..Len(tokens) : tokens'[j].task = tokens[j].task
    BY <1>4, <1>i, ExpireUpdate
  <2>2. UNCHANGED <<parked, pc, cur>>
    BY <1>4 DEF Expire, procVars
  <2>3. QED
    BY <2>1, <2>2, QuietStep DEF Quiet
<1>5. ASSUME NEW p \in Processes,
             \/ Poll(p) \/ Deny(p) \/ TakeMail(p) \/ MailToken(p) \/ Explain(p)
             \/ Ack(p) \/ ReadApproval(p) \/ Decide(p) \/ Crash(p)
      PROVE  Asking' /\ OneToken'
  <2>1. Quiet
    BY <1>5, <1>f DEF Poll, Deny, TakeMail, MailToken, Explain, Ack, ReadApproval, Decide, Crash,
                      Goto, GoOn, Abort, Refuse, tableVars, Quiet
  <2>2. QED
    BY <2>1, QuietStep
<1>6. ASSUME \/ \E t \in Tasks : SendTask(t)
             \/ \E k \in Tokens, answer \in Answers : SendReply(k, answer[1], answer[2])
             \/ \E t \in Tasks, to \in OperatorMoves : OperatorMove(t, to)
             \/ WorkerClaims
             \/ UNCHANGED vars
      PROVE  Asking' /\ OneToken'
  <2>1. UNCHANGED <<tokens, parked, pc, cur>>
    BY <1>6 DEF SendTask, SendReply, OperatorMove, WorkerClaims, vars, tableVars, procVars
  <2>2. QED
    BY <2>1, QuietStep DEF Quiet
<1>7. ASSUME NEW c \in Consoles, NEW k \in Tokens, NEW d \in Orders, Command(c, k, d)
      PROVE  Asking' /\ OneToken'
  <2>1. Quiet
    BY <1>7, <1>f DEF Command, Goto, tableVars, Quiet, Processes
  <2>2. QED
    BY <2>1, QuietStep
<1> HIDE DEF AskInv
<1>8. QED
  BY <1>1, <1>2, <1>3, <1>4, <1>5, <1>6, <1>7 DEF Next, Ingest, Apply, Processes

LEMMA AskInvCorrect == Spec => []AskInv
<1>1. Init => Asking /\ OneToken
  BY DEF Init, Asking, OneToken
<1>2. TypeInv /\ TypeInv' /\ AskInv /\ [Next]_vars => AskInv'
  BY AskedStep DEF AskInv
<1>3. TypeInv /\ Asking /\ OneToken => AskInv
  BY DEF AskInv
<1>4. QED
  BY <1>1, <1>2, <1>3, TypeInvCorrect, PTL DEF Spec

\* However often a mail is redelivered, and however many passes work on it at
\* once, a task never has two tokens that can be redeemed, and has one only if
\* it was stored behind the gate: the insert of the row decides which pass
\* asks.
THEOREM OneOpenRequestCorrect == Spec => []OneOpenRequest
<1>1. AskInv => OneOpenRequest
  <2> SUFFICES ASSUME OneToken PROVE OneOpenRequest
    BY DEF AskInv
  <2>1. \A j, k \in 1..Len(tokens) : tokens[j].task = tokens[k].task => j = k
    BY DEF OneToken
  <2>2. \A j, k \in 1..Len(tokens) : ~(j < k /\ tokens[j].task = tokens[k].task)
    BY <2>1
  <2>3. QED
    BY <2>2 DEF OneToken, OneOpenRequest
<1>2. QED
  BY <1>1, AskInvCorrect, PTL

-----------------------------------------------------------------------------
(* The gate fails closed                                                   *)

\* A redeemed token is the one its process goes on to apply.
Redeemed ==
    \A p \in Processes : pc[p] = "decide" => tokens[cur[p].token].used = cur[p].decision

GateInv == AskInv /\ Redeemed /\ GateHolds

\* The use of a token is final.
LEMMA UseIsFinal ==
    ASSUME TypeInv, [Next]_vars, NEW k \in 1..Len(tokens), tokens[k].used # NULL
    PROVE  tokens'[k].used = tokens[k].used
<1>1. ASSUME NEW p \in Processes, Request(p)
      PROVE  tokens'[k].used = tokens[k].used
  BY <1>1, RequestUpdate
<1>2. ASSUME NEW p \in Processes, Redeem(p)
      PROVE  tokens'[k].used = tokens[k].used
  BY <1>2, RedeemUpdate
<1>3. ASSUME NEW j \in Tokens, Expire(j)
      PROVE  tokens'[k].used = tokens[k].used
  BY <1>3, ExpireUpdate
<1>4. ASSUME NEW p \in Processes,
             \/ Poll(p) \/ Deny(p) \/ TakeMail(p) \/ Store(p) \/ MailToken(p) \/ Explain(p)
             \/ Ack(p) \/ ReadApproval(p) \/ Decide(p) \/ Crash(p)
      PROVE  UNCHANGED tokens
  BY <1>4 DEF Poll, Deny, TakeMail, Store, MailToken, Explain, Ack, ReadApproval, Decide, Crash,
              tableVars
<1>5. ASSUME \/ \E t \in Tasks : SendTask(t)
             \/ \E j \in Tokens, answer \in Answers : SendReply(j, answer[1], answer[2])
             \/ \E t \in Tasks, to \in OperatorMoves : OperatorMove(t, to)
             \/ \E c \in Consoles, j \in Tokens, d \in Orders : Command(c, j, d)
             \/ WorkerClaims
             \/ UNCHANGED vars
      PROVE  UNCHANGED tokens
  BY <1>5 DEF SendTask, SendReply, OperatorMove, Command, WorkerClaims, vars, tableVars
<1>6. QED
  BY <1>1, <1>2, <1>3, <1>4, <1>5 DEF Next, Ingest, Apply, Processes

\* A process comes to a decision only by redeeming its token.
LEMMA RedeemedStep ==
    TypeInv /\ Redeemed /\ [Next]_vars => Redeemed'
<1> SUFFICES ASSUME TypeInv, Redeemed, [Next]_vars, NEW q \in Processes, pc'[q] = "decide"
             PROVE  tokens'[cur'[q].token].used = cur'[q].decision
  BY DEF Redeemed
<1>f. pc \in [Processes -> Places] /\ cur \in [Processes -> Mail \union {NULL}]
  BY DEF TypeInv, TypeOK
<1>1. ASSUME pc[q] = "decide" /\ cur'[q] = cur[q]
      PROVE  tokens'[cur'[q].token].used = cur'[q].decision
  <2>1. cur[q] \in Mail /\ cur[q].token # 0 /\ Genuine(cur[q])
    BY <1>1 DEF TypeInv, WorkTyped, TokensGenuine
  <2>2. cur[q].token \in 1..Len(tokens) /\ cur[q].decision \in Decisions
    BY <2>1, MailTyped DEF Genuine
  <2>3. tokens[cur[q].token].used = cur[q].decision /\ cur[q].decision # NULL
    BY <1>1, <2>2, InboundAssumption DEF Redeemed, Decisions
  <2>4. QED
    BY <1>1, <2>2, <2>3, UseIsFinal
<1>2. ASSUME NEW p \in Processes, Redeem(p)
      PROVE  tokens'[cur'[q].token].used = cur'[q].decision
  <2>1. CASE q = p
    <3>1. CASE Refuse(p)
      BY <1>f, <2>1, <3>1 DEF Refuse, GoOn, Goto
    <3>2. CASE tokens'[cur[p].token].used = cur[p].decision /\ UNCHANGED <<batch, todo, cur>>
      BY <2>1, <3>2
    <3>3. QED
      BY <1>2, <3>1, <3>2, RedeemUpdate
  <2>2. CASE q # p
    <3>1. pc'[q] = pc[q] /\ cur'[q] = cur[q]
      BY <1>2, <1>f, <2>2 DEF Redeem, Refuse, GoOn, Goto
    <3>2. QED
      BY <1>1, <3>1
  <2>3. QED
    BY <2>1, <2>2
<1>3. ASSUME NEW p \in Processes,
             \/ Poll(p) \/ Deny(p) \/ TakeMail(p) \/ Store(p) \/ Request(p) \/ MailToken(p)
             \/ Explain(p) \/ Ack(p) \/ ReadApproval(p) \/ Decide(p) \/ Crash(p)
      PROVE  pc[q] = "decide" /\ cur'[q] = cur[q]
  BY <1>3, <1>f DEF Poll, Deny, TakeMail, Store, Request, MailToken, Explain, Ack, ReadApproval,
                    Decide, Crash, Goto, GoOn, Abort, Refuse
<1>4. ASSUME \/ \E t \in Tasks : SendTask(t)
             \/ \E k \in Tokens, answer \in Answers : SendReply(k, answer[1], answer[2])
             \/ \E k \in Tokens : Expire(k)
             \/ \E t \in Tasks, to \in OperatorMoves : OperatorMove(t, to)
             \/ WorkerClaims
             \/ UNCHANGED vars
      PROVE  pc[q] = "decide" /\ cur'[q] = cur[q]
  BY <1>4 DEF SendTask, SendReply, Expire, OperatorMove, WorkerClaims, vars, procVars
<1>5. ASSUME NEW c \in Consoles, NEW k \in Tokens, NEW d \in Orders, Command(c, k, d)
      PROVE  pc[q] = "decide" /\ cur'[q] = cur[q]
  BY <1>5, <1>f DEF Command, Goto, Processes
<1>6. QED
  BY <1>1, <1>2, <1>3, <1>4, <1>5 DEF Next, Ingest, Apply, Processes

\* A stored task becomes queued only by the decision of a process, or by an
\* operator who moves it there.
LEMMA OnlyDecisionsQueue ==
    ASSUME TypeInv, [Next]_vars, "queued" \notin OperatorMoves,
           NEW t \in Tasks, state[t] \notin {"absent", "queued", "running"},
           state'[t] \in {"queued", "running"}
    PROVE  \E p \in Processes :
                pc[p] = "decide" /\ cur[p].task = t /\ cur[p].decision = "approved"
<1>f. state \in [Tasks -> TaskState \union {"absent"}]
  BY DEF TypeInv, TypeOK, QueueTypeOK
<1>1. ASSUME NEW p \in Processes, Store(p)
      PROVE  FALSE
  BY <1>1, <1>f DEF Store, Enqueue, queueVars
<1>2. ASSUME NEW p \in Processes, Decide(p)
      PROVE  pc[p] = "decide" /\ cur[p].task = t /\ cur[p].decision = "approved"
  BY <1>2, <1>f DEF Decide, Transition, Target, queueVars
<1>3. ASSUME NEW u \in Tasks, NEW to \in OperatorMoves, OperatorMove(u, to)
      PROVE  FALSE
  BY <1>3, <1>f, InboundAssumption DEF OperatorMove, Transition
<1>4. ASSUME WorkerClaims
      PROVE  FALSE
  BY <1>4, <1>f DEF WorkerClaims, ClaimNext, Claim
<1>5. ASSUME NEW p \in Processes,
             \/ Poll(p) \/ Deny(p) \/ TakeMail(p) \/ Request(p) \/ MailToken(p) \/ Explain(p)
             \/ Ack(p) \/ ReadApproval(p) \/ Redeem(p) \/ Crash(p)
      PROVE  FALSE
  BY <1>5 DEF Poll, Deny, TakeMail, Request, MailToken, Explain, Ack, ReadApproval, Redeem, Crash,
              queueVars
<1>6. ASSUME \/ \E u \in Tasks : SendTask(u)
             \/ \E k \in Tokens, answer \in Answers : SendReply(k, answer[1], answer[2])
             \/ \E k \in Tokens : Expire(k)
             \/ \E c \in Consoles, k \in Tokens, d \in Orders : Command(c, k, d)
             \/ UNCHANGED vars
      PROVE  FALSE
  BY <1>6 DEF SendTask, SendReply, Expire, Command, vars, queueVars
<1>7. QED
  BY <1>1, <1>2, <1>3, <1>4, <1>5, <1>6 DEF Next, Ingest, Apply, Processes

\* A task is parked by the insert of its row, in action.
LEMMA ParkedInAction ==
    ASSUME TypeInv, [Next]_vars, NEW t \in parked' \ parked
    PROVE  state'[t] = "action"
<1>1. ASSUME NEW p \in Processes, Store(p)
      PROVE  state'[t] = "action"
  <2>1. cur[p].task \in Tasks
    BY <1>1, MailTyped DEF Store, TypeInv, WorkTyped
  <2>2. t = cur[p].task /\ Enqueue(t, "action")
    BY <1>1 DEF Store
  <2>3. QED
    BY <2>1, <2>2 DEF Enqueue, TypeInv, TypeOK, QueueTypeOK
<1>2. ASSUME NEW p \in Processes,
             \/ Poll(p) \/ Deny(p) \/ TakeMail(p) \/ Request(p) \/ MailToken(p) \/ Explain(p)
             \/ Ack(p) \/ ReadApproval(p) \/ Redeem(p) \/ Decide(p) \/ Crash(p)
      PROVE  UNCHANGED parked
  BY <1>2 DEF Poll, Deny, TakeMail, Request, MailToken, Explain, Ack, ReadApproval, Redeem, Decide,
              Crash, tableVars
<1>3. ASSUME \/ \E u \in Tasks : SendTask(u)
             \/ \E k \in Tokens, answer \in Answers : SendReply(k, answer[1], answer[2])
             \/ \E k \in Tokens : Expire(k)
             \/ \E u \in Tasks, to \in OperatorMoves : OperatorMove(u, to)
             \/ \E c \in Consoles, k \in Tokens, d \in Orders : Command(c, k, d)
             \/ WorkerClaims
             \/ UNCHANGED vars
      PROVE  UNCHANGED parked
  BY <1>3 DEF SendTask, SendReply, Expire, OperatorMove, Command, WorkerClaims, vars, tableVars
<1>4. QED
  BY <1>1, <1>2, <1>3 DEF Next, Ingest, Apply, Processes

LEMMA GateStep ==
    ASSUME GateInv, AskInv', [Next]_vars, "queued" \notin OperatorMoves
    PROVE  GateHolds'
<1> SUFFICES ASSUME NEW t \in parked', state'[t] \in {"queued", "running"}
             PROVE  /\ \E k \in 1..Len(tokens') : tokens'[k].task = t /\ tokens'[k].used = "approved"
                    /\ ~\E k \in 1..Len(tokens') : tokens'[k].task = t /\ tokens'[k].used = "rejected"
  BY DEF GateHolds
<1>i. TypeInv /\ Asking /\ TokensGrow
  BY TokensKept DEF GateInv, AskInv
<1>1. t \in parked /\ t \in Tasks /\ state[t] # "absent"
  BY <1>i, ParkedInAction DEF TypeInv, TypeOK, Asking
<1>2. \E k \in 1..Len(tokens) : tokens[k].task = t /\ tokens[k].used = "approved"
  <2>1. CASE state[t] \in {"queued", "running"}
    BY <1>1, <2>1 DEF GateInv, GateHolds
  <2>2. CASE state[t] \notin {"queued", "running"}
    <3>1. PICK p \in Processes :
            pc[p] = "decide" /\ cur[p].task = t /\ cur[p].decision = "approved"
      BY <1>i, <1>1, <2>2, OnlyDecisionsQueue
    <3>2. cur[p].token # 0 /\ Genuine(cur[p])
      BY <1>i, <3>1 DEF TypeInv, WorkTyped, TokensGenuine
    <3>3. QED
      BY <3>1, <3>2 DEF GateInv, Redeemed, Genuine
  <2>3. QED
    BY <2>1, <2>2
<1>3. PICK k \in 1..Len(tokens) : tokens[k].task = t /\ tokens[k].used = "approved"
  BY <1>2
<1>4. k \in 1..Len(tokens') /\ tokens'[k].task = t /\ tokens'[k].used = "approved"
  <2>1. tokens'[k].used = tokens[k].used
    BY <1>i, <1>3, UseIsFinal, InboundAssumption
  <2>2. Len(tokens) \in Nat /\ Len(tokens') \in Nat
    BY <1>i DEF TypeInv, TypeOK, TokensGrow
  <2>3. QED
    BY <1>i, <1>3, <2>1, <2>2 DEF TokensGrow
<1>5. \A j \in 1..Len(tokens') : tokens'[j].task = t => j = k
  BY <1>4 DEF AskInv, OneToken
<1>6. QED
  BY <1>4, <1>5

\* The gate fails closed.  Whatever is redelivered, expires or dies, and
\* however passes and operators' shells interleave between the check, the
\* redemption and the swap of an approval, a task that was parked is offered
\* to workers only if its one token was used to approve it.  The hypothesis
\* leaves out "dear-agent task requeue", by which an operator overrides the
\* gate on purpose.
THEOREM GateCorrect == "queued" \notin OperatorMoves => (Spec => []GateHolds)
<1> SUFFICES ASSUME "queued" \notin OperatorMoves
             PROVE  Spec => []GateHolds
  OBVIOUS
<1>1. Init => Redeemed /\ GateHolds
  BY DEF Init, Redeemed, GateHolds
<1>2. GateInv /\ AskInv' /\ [Next]_vars => GateInv'
  BY GateStep, RedeemedStep DEF GateInv, AskInv
<1>3. AskInv /\ Redeemed /\ GateHolds => GateInv
  BY DEF GateInv
<1>4. GateInv => GateHolds
  BY DEF GateInv
<1>5. QED
  BY <1>1, <1>2, <1>3, <1>4, AskInvCorrect, PTL DEF Spec

-----------------------------------------------------------------------------
(* No mail gets lost                                                       *)

\* What became of a mail: MailNotLost says that every mail that left the
\* mailbox is handled.
Handled(m) ==
    \/ m \in denied \union explained
    \/ m.token = 0 /\ state[m.task] # "absent"
    \/ m.token # 0 /\ tokens[m.token].used = m.decision

\* What a pass took from its list is handled, but for the mail it works on;
\* and the task it asks about is stored.
Account(p) ==
    /\ \A m \in batch[p] \ todo[p] : Handled(m) \/ (pc[p] \notin {"idle", "next"} /\ m = cur[p])
    /\ pc[p] \in {"request", "mail"} => state[cur[p].task] # "absent"

Accounted == \A p \in Planes : Account(p)

MailInv == TypeInv /\ Redeemed /\ Accounted /\ MailNotLost

\* What was done with a mail is never undone.
LEMMA HandledStays ==
    ASSUME TypeInv, [Next]_vars, NEW m \in Mail, Genuine(m), Handled(m)
    PROVE  Handled(m)'
<1>1. m.task \in Tasks
  BY MailTyped
<1>2. CASE m \in denied \union explained
  <2>1. ASSUME NEW p \in Processes,
               \/ Poll(p) \/ Deny(p) \/ TakeMail(p) \/ Store(p) \/ Request(p) \/ MailToken(p)
               \/ Explain(p) \/ Ack(p) \/ ReadApproval(p) \/ Redeem(p) \/ Decide(p) \/ Crash(p)
        PROVE  denied \subseteq denied' /\ explained \subseteq explained'
    BY <2>1 DEF Poll, Deny, TakeMail, Store, Request, MailToken, Explain, Ack, ReadApproval, Redeem,
                Decide, Crash, mailVars
  <2>2. ASSUME \/ \E u \in Tasks : SendTask(u)
               \/ \E k \in Tokens, answer \in Answers : SendReply(k, answer[1], answer[2])
               \/ \E k \in Tokens : Expire(k)
               \/ \E u \in Tasks, to \in OperatorMoves : OperatorMove(u, to)
               \/ \E c \in Consoles, k \in Tokens, d \in Orders : Command(c, k, d)
               \/ WorkerClaims
               \/ UNCHANGED vars
        PROVE  denied \subseteq denied' /\ explained \subseteq explained'
    BY <2>2 DEF SendTask, SendReply, Expire, OperatorMove, Command, WorkerClaims, vars, mailVars
  <2>3. denied \subseteq denied' /\ explained \subseteq explained'
    BY <2>1, <2>2 DEF Next, Ingest, Apply, Processes
  <2>4. QED
    BY <1>2, <2>3 DEF Handled
<1>3. CASE m.token = 0 /\ state[m.task] # "absent"
  BY <1>1, <1>3, RowsKept DEF Handled
<1>4. CASE m.token # 0 /\ tokens[m.token].used = m.decision
  <2>1. m.token \in 1..Len(tokens) /\ m.decision \in Decisions
    BY <1>4, MailTyped DEF Genuine
  <2>2. m.decision # NULL
    BY <2>1, InboundAssumption DEF Decisions
  <2>3. QED
    BY <1>4, <2>1, <2>2, UseIsFinal DEF Handled
<1>5. QED
  BY <1>2, <1>3, <1>4 DEF Handled

LEMMA AccountStep ==
    ASSUME MailInv, [Next]_vars, Wiring # "console"
    PROVE  Accounted'
<1> SUFFICES ASSUME NEW q \in Planes
             PROVE  Account(q)'
  BY DEF Accounted
<1>i. TypeInv /\ WorkTyped /\ Redeemed /\ Account(q) /\ q \in Processes /\ q \notin Consoles
  BY InboundAssumption DEF MailInv, Accounted, Processes, TypeInv
<1>f. /\ pc \in [Processes -> Places] /\ cur \in [Processes -> Mail \union {NULL}]
      /\ batch \in [Processes -> SUBSET Mail] /\ todo \in [Processes -> SUBSET Mail]
  BY <1>i DEF TypeInv, TypeOK
<1>b. /\ \A m \in batch[q] : m \in Mail /\ Genuine(m)
      /\ todo[q] \subseteq batch[q]
      /\ pc[q] \notin {"idle", "next"} => cur[q] \in Mail /\ Genuine(cur[q])
  BY <1>i, <1>f DEF TypeInv, TokensGenuine, WorkTyped
<1>h. \A m \in batch[q] : Handled(m) => Handled(m)'
  BY <1>i, <1>b, HandledStays
<1>r. pc[q] \in {"request", "mail"} => state'[cur[q].task] # "absent"
  <2>1. pc[q] \in {"request", "mail"} => cur[q].task \in Tasks
    BY <1>b, MailTyped
  <2>2. QED
    BY <1>i, <2>1, RowsKept DEF Account
<1>1. ASSUME batch'[q] = batch[q], todo'[q] = todo[q], pc'[q] = pc[q], cur'[q] = cur[q]
      PROVE  Account(q)'
  BY <1>1, <1>h, <1>r, <1>i DEF Account
\* The pass stays on its mail.
<1>2. ASSUME UNCHANGED <<batch, todo, cur>>, pc[q] \notin {"idle", "next"},
             pc'[q] \notin {"idle", "next"},
             pc'[q] \in {"request", "mail"} => state'[cur[q].task] # "absent"
      PROVE  Account(q)'
  BY <1>2, <1>h, <1>i DEF Account
\* The pass goes on, and the mail is handled.
<1>3. ASSUME NEW n, n = cur[q], GoOn(q), Handled(n)'
      PROVE  Account(q)'
  <2>1. pc'[q] = "next" /\ batch' = batch /\ todo' = todo
    BY <1>3, <1>f, <1>i DEF GoOn, Goto
  <2>2. \A m \in batch[q] \ todo[q] : Handled(m)'
    BY <1>3, <1>h, <1>i DEF Account, Handled
  <2>3. QED
    BY <2>1, <2>2 DEF Account
\* The pass is over.
<1>4. ASSUME Abort(q)
      PROVE  Account(q)'
  BY <1>4, <1>f, <1>i DEF Abort, Goto, Account
<1>5. CASE Poll(q)
  <2>1. batch'[q] = todo'[q] /\ pc'[q] = "next"
    BY <1>5, <1>f, <1>i DEF Poll, Goto
  <2>2. QED
    BY <2>1 DEF Account
<1>6. CASE Deny(q)
  <2>1. PICK m \in todo[q] : /\ todo' = [todo EXCEPT ![q] = @ \ {m}]
                             /\ denied' = denied \union {m}
                             /\ pc[q] = "next" /\ UNCHANGED <<pc, batch>>
    BY <1>6 DEF Deny
  <2>2. Handled(m)'
    BY <2>1 DEF Handled
  <2>3. \A n \in batch[q] \ todo[q] : Handled(n)'
    BY <1>h, <1>i, <2>1 DEF Account
  <2>4. todo'[q] = todo[q] \ {m}
    BY <1>f, <1>i, <2>1
  <2>5. QED
    BY <2>1, <2>2, <2>3, <2>4 DEF Account
<1>7. CASE TakeMail(q)
  <2>1. PICK m \in todo[q] : /\ todo' = [todo EXCEPT ![q] = @ \ {m}]
                             /\ cur' = [cur EXCEPT ![q] = m]
                             /\ \/ Goto(q, "read") \/ Goto(q, "explain")
                                \/ Goto(q, "park") \/ Goto(q, "store")
                             /\ pc[q] = "next" /\ UNCHANGED batch
    BY <1>7 DEF TakeMail
  <2>2. /\ todo'[q] = todo[q] \ {m} /\ cur'[q] = m
        /\ pc'[q] \in {"read", "explain", "park", "store"}
    BY <1>f, <1>i, <2>1 DEF Goto
  <2>3. \A n \in batch[q] \ todo[q] : Handled(n)'
    BY <1>h, <1>i, <2>1 DEF Account
  <2>4. QED
    BY <2>1, <2>2, <2>3 DEF Account
<1>8. CASE Store(q)
  <2>1. cur[q] \in Mail /\ cur[q].token = 0 /\ cur[q].task \in Tasks
    BY <1>8, <1>i, MailTyped DEF Store, WorkTyped
  <2>2. state'[cur[q].task] # "absent"
    BY <1>8, <1>i, <2>1 DEF Store, Enqueue, queueVars, TypeInv, TypeOK, QueueTypeOK
  <2>3. CASE GoOn(q)
    BY <1>3, <2>1, <2>2, <2>3 DEF Handled
  <2>4. CASE Goto(q, "request") /\ UNCHANGED <<batch, todo, cur>>
    BY <1>2, <1>8, <1>f, <1>i, <2>2, <2>4 DEF Goto, Store
  <2>5. QED
    BY <1>8, <2>3, <2>4 DEF Store
<1>9. CASE Request(q)
  <2>1. pc[q] = "request" /\ cur[q].token = 0 /\ state'[cur[q].task] # "absent"
    BY <1>9, <1>i, <1>r DEF Request, WorkTyped
  <2>2. CASE Abort(q)
    BY <1>4, <2>2
  <2>3. CASE Goto(q, "mail") /\ UNCHANGED <<batch, todo, cur>>
    BY <1>2, <1>f, <1>i, <2>1, <2>3 DEF Goto
  <2>4. CASE GoOn(q)
    BY <1>3, <2>1, <2>4 DEF Handled
  <2>5. QED
    BY <1>9, <2>2, <2>3, <2>4 DEF Request
<1>10. CASE MailToken(q)
  <2>1. cur[q].token = 0 /\ state'[cur[q].task] # "absent"
    BY <1>10, <1>i, <1>r DEF MailToken, WorkTyped
  <2>2. QED
    BY <1>3, <1>10, <2>1 DEF MailToken, Handled
<1>11. CASE Explain(q)
  BY <1>3, <1>11 DEF Explain, Handled
<1>12. CASE Ack(q) \/ Crash(q)
  BY <1>4, <1>12 DEF Ack, Crash
<1>13. CASE ReadApproval(q) \/ Redeem(q)
  <2>1. pc[q] \in {"read", "redeem"}
    BY <1>13 DEF ReadApproval, Redeem
  <2>2. UNCHANGED <<batch, todo, cur>> /\ pc'[q] \in {"redeem", "decide", "explain"}
    BY <1>13, <1>f, <1>i DEF ReadApproval, Redeem, Refuse, Goto
  <2>3. QED
    BY <1>2, <2>1, <2>2
<1>14. CASE Decide(q)
  <2>1. pc[q] = "decide" /\ UNCHANGED tokens
    BY <1>14 DEF Decide, tableVars
  <2>2. CASE GoOn(q)
    <3>1. cur[q].token # 0 /\ tokens'[cur[q].token].used = cur[q].decision
      BY <1>i, <2>1 DEF WorkTyped, Redeemed
    <3>2. QED
      BY <1>3, <2>2, <3>1 DEF Handled
  <2>3. CASE Refuse(q)
    <3>1. UNCHANGED <<batch, todo, cur>> /\ pc'[q] = "explain"
      BY <1>f, <1>i, <2>3 DEF Refuse, Goto
    <3>2. QED
      BY <1>2, <2>1, <3>1
  <2>4. QED
    BY <1>14, <2>2, <2>3 DEF Decide
<1>15. ASSUME NEW p \in Processes, p # q,
              \/ Poll(p) \/ Deny(p) \/ TakeMail(p) \/ Store(p) \/ Request(p) \/ MailToken(p)
              \/ Explain(p) \/ Ack(p) \/ ReadApproval(p) \/ Redeem(p) \/ Decide(p) \/ Crash(p)
       PROVE  batch'[q] = batch[q] /\ todo'[q] = todo[q] /\ pc'[q] = pc[q] /\ cur'[q] = cur[q]
  BY <1>15, <1>f, <1>i DEF Poll, Deny, TakeMail, Store, Request, MailToken, Explain, Ack,
      ReadApproval, Redeem, Decide, Crash, Goto, GoOn, Abort, Refuse
<1>16. ASSUME \/ \E u \in Tasks : SendTask(u)
              \/ \E k \in Tokens, answer \in Answers : SendReply(k, answer[1], answer[2])
              \/ \E k \in Tokens : Expire(k)
              \/ \E u \in Tasks, to \in OperatorMoves : OperatorMove(u, to)
              \/ WorkerClaims
              \/ UNCHANGED vars
       PROVE  batch'[q] = batch[q] /\ todo'[q] = todo[q] /\ pc'[q] = pc[q] /\ cur'[q] = cur[q]
  BY <1>16 DEF SendTask, SendReply, Expire, OperatorMove, WorkerClaims, vars, procVars
<1>17. ASSUME NEW c \in Consoles, NEW k \in Tokens, NEW d \in Orders, Command(c, k, d)
       PROVE  batch'[q] = batch[q] /\ todo'[q] = todo[q] /\ pc'[q] = pc[q] /\ cur'[q] = cur[q]
  BY <1>17, <1>f, <1>i DEF Command, Goto
<1>18. QED
  BY <1>1, <1>5, <1>6, <1>7, <1>8, <1>9, <1>10, <1>11, <1>12, <1>13, <1>14, <1>15, <1>16, <1>17
     DEF Next, Ingest, Apply, Processes

\* Mail leaves the mailbox only when a pass has handled its whole batch.
LEMMA LeavesHandled ==
    ASSUME MailInv, [Next]_vars, NEW m \in written' \ mailbox', m \notin written \ mailbox
    PROVE  m \in Mail /\ Genuine(m) /\ Handled(m)
<1>1. ASSUME NEW p \in Planes, Ack(p)
      PROVE  m \in Mail /\ Genuine(m) /\ Handled(m)
  <2>1. p \in Processes /\ pc[p] = "next" /\ todo[p] = {} /\ m \in batch[p]
    BY <1>1 DEF Ack, Processes
  <2>2. QED
    BY <2>1 DEF MailInv, Accounted, Account, TypeInv, TypeOK, TokensGenuine
<1>2. ASSUME NEW p \in Processes,
             \/ Poll(p) \/ Deny(p) \/ TakeMail(p) \/ Store(p) \/ Request(p) \/ MailToken(p)
             \/ Explain(p) \/ ReadApproval(p) \/ Redeem(p) \/ Decide(p) \/ Crash(p)
      PROVE  FALSE
  BY <1>2 DEF Poll, Deny, TakeMail, Store, Request, MailToken, Explain, ReadApproval, Redeem,
              Decide, Crash, mailVars
<1>3. ASSUME \/ \E u \in Tasks : SendTask(u)
             \/ \E k \in Tokens, answer \in Answers : SendReply(k, answer[1], answer[2])
             \/ \E k \in Tokens : Expire(k)
             \/ \E u \in Tasks, to \in OperatorMoves : OperatorMove(u, to)
             \/ \E c \in Consoles, k \in Tokens, d \in Orders : Command(c, k, d)
             \/ WorkerClaims
             \/ UNCHANGED vars
      PROVE  FALSE
  BY <1>3 DEF SendTask, SendReply, Expire, OperatorMove, Command, WorkerClaims, vars, mailVars
<1>4. QED
  BY <1>1, <1>2, <1>3 DEF Next, Ingest, Apply, Processes

LEMMA MailStep ==
    ASSUME MailInv, [Next]_vars
    PROVE  MailNotLost'
<1> SUFFICES ASSUME NEW m \in written' \ mailbox'
             PROVE  Handled(m)'
  BY DEF MailNotLost, Handled
<1>1. m \in Mail /\ Genuine(m) /\ Handled(m)
  <2>1. CASE m \in written \ mailbox
    BY <2>1 DEF MailInv, MailNotLost, Handled, TypeInv, TypeOK, TokensGenuine
  <2>2. QED
    BY <2>1, LeavesHandled
<1>2. QED
  BY <1>1, HandledStays DEF MailInv

\* No mail gets lost.  A pass may die at any step, and overlapping passes
\* handle one mail twice, but a mail leaves the mailbox only after it was
\* denied, explained, stored or applied.  The hypothesis leaves out a control
\* plane without a recipient, which drops its explanations.
THEOREM MailNotLostCorrect == Wiring # "console" => (Spec => []MailNotLost)
<1> SUFFICES ASSUME Wiring # "console"
             PROVE  Spec => []MailNotLost
  OBVIOUS
<1>1. Init => Redeemed /\ Accounted /\ MailNotLost
  BY DEF Init, Redeemed, Accounted, Account, MailNotLost, Processes
<1>2. MailInv /\ TypeInv' /\ [Next]_vars => MailInv'
  BY AccountStep, MailStep, RedeemedStep DEF MailInv
<1>3. TypeInv /\ Redeemed /\ Accounted /\ MailNotLost => MailInv
  BY DEF MailInv
<1>4. MailInv => MailNotLost
  BY DEF MailInv
<1>5. QED
  BY <1>1, <1>2, <1>3, <1>4, TypeInvCorrect, PTL DEF Spec

-----------------------------------------------------------------------------
(* A parked task has a token                                               *)

\* Until something fails, a task in action has its token, or a process that
\* is about to ask for it.
Outstanding ==
    faults = 0 =>
        \A t \in Tasks : state[t] = "action" =>
            \/ \E k \in 1..Len(tokens) : tokens[k].task = t
            \/ \E p \in Processes : pc[p] = "request" /\ cur[p].task = t

\* A task comes into action only as it is stored, by the process that asks.
LEMMA ActionIsParked ==
    ASSUME TypeInv, [Next]_vars, NEW t \in Tasks, state[t] # "action", state'[t] = "action"
    PROVE  \E p \in Processes : pc'[p] = "request" /\ cur'[p].task = t
<1>f. /\ state \in [Tasks -> TaskState \union {"absent"}]
      /\ pc \in [Processes -> Places] /\ cur \in [Processes -> Mail \union {NULL}]
  BY DEF TypeInv, TypeOK, QueueTypeOK
<1>1. ASSUME NEW p \in Processes, Store(p)
      PROVE  pc'[p] = "request" /\ cur'[p].task = t
  BY <1>1, <1>f DEF Store, Enqueue, Goto, queueVars
<1>2. ASSUME NEW p \in Processes, Decide(p)
      PROVE  FALSE
  BY <1>2, <1>f DEF Decide, Transition, Target, queueVars
<1>3. ASSUME NEW u \in Tasks, NEW to \in OperatorMoves, OperatorMove(u, to)
      PROVE  FALSE
  BY <1>3, <1>f, InboundAssumption DEF OperatorMove, Transition
<1>4. ASSUME WorkerClaims
      PROVE  FALSE
  BY <1>4, <1>f DEF WorkerClaims, ClaimNext, Claim
<1>5. ASSUME NEW p \in Processes,
             \/ Poll(p) \/ Deny(p) \/ TakeMail(p) \/ Request(p) \/ MailToken(p) \/ Explain(p)
             \/ Ack(p) \/ ReadApproval(p) \/ Redeem(p) \/ Crash(p)
      PROVE  FALSE
  BY <1>5 DEF Poll, Deny, TakeMail, Request, MailToken, Explain, Ack, ReadApproval, Redeem, Crash,
              queueVars
<1>6. ASSUME \/ \E u \in Tasks : SendTask(u)
             \/ \E k \in Tokens, answer \in Answers : SendReply(k, answer[1], answer[2])
             \/ \E k \in Tokens : Expire(k)
             \/ \E c \in Consoles, k \in Tokens, d \in Orders : Command(c, k, d)
             \/ UNCHANGED vars
      PROVE  FALSE
  BY <1>6 DEF SendTask, SendReply, Expire, Command, vars, queueVars
<1>7. QED
  BY <1>1, <1>2, <1>3, <1>4, <1>5, <1>6 DEF Next, Ingest, Apply, Processes

\* A process that is about to ask does so, unless something fails.
LEMMA AsksOrFails ==
    ASSUME TypeInv, [Next]_vars, Wiring # "bare", faults' = 0,
           NEW p \in Processes, pc[p] = "request"
    PROVE  /\ faults = 0
           /\ \/ pc'[p] = "request" /\ cur'[p] = cur[p]
              \/ \E k \in 1..Len(tokens') : tokens'[k].task = cur[p].task
<1>f. /\ pc \in [Processes -> Places] /\ cur \in [Processes -> Mail \union {NULL}]
      /\ faults \in Nat
  BY InboundAssumption DEF TypeInv, TypeOK
<1>1. ASSUME NEW q \in Processes, Request(q)
      PROVE  /\ faults = 0
             /\ \/ pc'[p] = "request" /\ cur'[p] = cur[p]
                \/ \E k \in 1..Len(tokens') : tokens'[k].task = cur[p].task
  <2>1. CASE q = p
    <3>1. /\ Len(tokens') = Len(tokens) + 1
          /\ tokens'[Len(tokens')].task = cur[p].task
      <4>1. /\ Len(tokens') = Len(tokens) + 1
            /\ tokens'[Len(tokens')] = [task |-> cur[p].task, expired |-> FALSE, used |-> NULL]
        BY <1>1, <2>1, RequestUpdate, Zenon
      <4>2. QED
        BY <4>1
    <3>2. Len(tokens') \in 1..Len(tokens')
      BY <3>1 DEF TypeInv, TypeOK
    <3>3. QED
      BY <1>1, <3>1, <3>2 DEF Request
  <2>2. CASE q # p
    BY <1>1, <1>f, <2>2 DEF Request, Abort, GoOn, Goto
  <2>3. QED
    BY <2>1, <2>2
<1>2. ASSUME NEW q \in Processes,
             \/ Poll(q) \/ Deny(q) \/ TakeMail(q) \/ Store(q) \/ MailToken(q)
             \/ Explain(q) \/ Ack(q) \/ ReadApproval(q) \/ Redeem(q) \/ Decide(q)
      PROVE  pc'[p] = "request" /\ cur'[p] = cur[p] /\ faults = 0
  BY <1>2, <1>f DEF Poll, Deny, TakeMail, Store, MailToken, Explain, Ack, Fault, ReadApproval,
                    Redeem, Decide, Goto, GoOn, Abort, Refuse
<1>3. ASSUME NEW q \in Processes, Crash(q)
      PROVE  FALSE
  BY <1>3, <1>f DEF Crash, Fault
<1>4. ASSUME \/ \E u \in Tasks : SendTask(u)
             \/ \E k \in Tokens, answer \in Answers : SendReply(k, answer[1], answer[2])
             \/ \E k \in Tokens : Expire(k)
             \/ \E u \in Tasks, to \in OperatorMoves : OperatorMove(u, to)
             \/ WorkerClaims
             \/ UNCHANGED vars
      PROVE  pc'[p] = "request" /\ cur'[p] = cur[p] /\ faults = 0
  BY <1>4 DEF SendTask, SendReply, Expire, OperatorMove, WorkerClaims, vars, procVars
<1>5. ASSUME NEW c \in Consoles, NEW k \in Tokens, NEW d \in Orders, Command(c, k, d)
      PROVE  pc'[p] = "request" /\ cur'[p] = cur[p] /\ faults = 0
  BY <1>5, <1>f DEF Command, Goto, Processes
<1>6. QED
  BY <1>1, <1>2, <1>3, <1>4, <1>5 DEF Next, Ingest, Apply, Processes

LEMMA FaultsCounted ==
    ASSUME TypeInv, [Next]_vars, faults' = 0
    PROVE  faults = 0
<1>1. faults \in Nat
  BY InboundAssumption DEF TypeInv, TypeOK
<1>2. ASSUME NEW q \in Processes,
             \/ Poll(q) \/ Deny(q) \/ TakeMail(q) \/ Store(q) \/ Request(q) \/ MailToken(q)
             \/ Explain(q) \/ Ack(q) \/ ReadApproval(q) \/ Redeem(q) \/ Decide(q) \/ Crash(q)
      PROVE  faults = 0
  BY <1>1, <1>2 DEF Poll, Deny, TakeMail, Store, Request, MailToken, Explain, Ack, Fault,
                    ReadApproval, Redeem, Decide, Crash
<1>3. ASSUME \/ \E u \in Tasks : SendTask(u)
             \/ \E k \in Tokens, answer \in Answers : SendReply(k, answer[1], answer[2])
             \/ \E k \in Tokens : Expire(k)
             \/ \E u \in Tasks, to \in OperatorMoves : OperatorMove(u, to)
             \/ \E c \in Consoles, k \in Tokens, d \in Orders : Command(c, k, d)
             \/ WorkerClaims
             \/ UNCHANGED vars
      PROVE  faults = 0
  BY <1>3 DEF SendTask, SendReply, Expire, OperatorMove, Command, WorkerClaims, vars
<1>4. QED
  BY <1>2, <1>3 DEF Next, Ingest, Apply, Processes

LEMMA OutstandingStep ==
    ASSUME TypeInv, Outstanding, [Next]_vars, Wiring # "bare"
    PROVE  Outstanding'
<1> SUFFICES ASSUME faults' = 0, NEW t \in Tasks, state'[t] = "action"
             PROVE  \/ \E k \in 1..Len(tokens') : tokens'[k].task = t
                    \/ \E p \in Processes : pc'[p] = "request" /\ cur'[p].task = t
  BY DEF Outstanding
<1>1. CASE state[t] # "action"
  BY <1>1, ActionIsParked
<1>2. CASE state[t] = "action"
  <2>1. \/ \E k \in 1..Len(tokens) : tokens[k].task = t
        \/ \E p \in Processes : pc[p] = "request" /\ cur[p].task = t
    BY <1>2, FaultsCounted DEF Outstanding
  <2>2. ASSUME NEW k \in 1..Len(tokens), tokens[k].task = t
        PROVE  \E j \in 1..Len(tokens') : tokens'[j].task = t
    <3>1. TokensGrow /\ Len(tokens) \in Nat /\ Len(tokens') \in Nat
      BY TokensKept DEF TokensGrow, TypeInv, TypeOK
    <3>2. k \in 1..Len(tokens') /\ tokens'[k].task = t
      BY <2>2, <3>1 DEF TokensGrow
    <3>3. QED
      BY <3>2
  <2>3. ASSUME NEW p \in Processes, pc[p] = "request", cur[p].task = t
        PROVE  \/ \E k \in 1..Len(tokens') : tokens'[k].task = t
               \/ pc'[p] = "request" /\ cur'[p].task = t
    BY <2>3, AsksOrFails
  <2>4. QED
    BY <2>1, <2>2, <2>3
<1>3. QED
  BY <1>1, <1>2

\* Where the notifier has the approval service, and until something fails,
\* every task in action has a token once the passes are over: nothing waits
\* for a decision that nobody was asked for.  With a bare notifier it does;
\* the run of that wiring shows the counterexample.
THEOREM ParkedIsAskedCorrect == Wiring # "bare" => (Spec => []ParkedIsAsked)
<1> SUFFICES ASSUME Wiring # "bare"
             PROVE  Spec => []ParkedIsAsked
  OBVIOUS
<1>1. Init => Outstanding
  BY DEF Init, QueueInit, Outstanding
<1>2. TypeInv /\ Outstanding /\ [Next]_vars => Outstanding'
  BY OutstandingStep
<1>3. Outstanding => ParkedIsAsked
  BY DEF Outstanding, ParkedIsAsked
<1>4. QED
  BY <1>1, <1>2, <1>3, TypeInvCorrect, PTL DEF Spec
=============================================================================
