------------------------------ MODULE Inbound ------------------------------
(***************************************************************************)
(* The inbound side: control planes (the poll CronJob, the listen loop, a  *)
(* webhook's handler) that ingest mail into the queue, park suspicious     *)
(* tasks behind an approval, and apply the human's replies; and operators' *)
(* shells that redeem a token (dear-agent approval approve | reject).      *)
(*                                                                         *)
(* A mail stays in the mailbox until a pass that read it acknowledges it,  *)
(* so a pass that dies, or two passes that overlap, handle one mail twice. *)
(* Every read and write of the queue, the approval store and the transport *)
(* is a step of its own.                                                   *)
(*                                                                         *)
(* Abstracted: what a text says is the set of outcomes that gate,          *)
(* normalizer, policy, scanner and deciders may give it (Reading); expiry  *)
(* is a step that may happen at any time; the order within one batch.      *)
(***************************************************************************)
EXTENDS TaskQueue, FiniteSets

CONSTANTS
    Planes,        \* processes that run ControlPlane.ingest
    Consoles,      \* operators' shells
    Reading,       \* what a task's mail may be read as: a set of
                   \* "rejected", "park" and "run" for each task
    Answers,       \* the replies humans write: pairs of a decision and whether
                   \* sender and thread are the task's
    Orders,        \* the decisions operators enter in their shells
    Wiring,        \* who asks for approval: "mail", a Notifier that has the
                   \* ApprovalService, as tests build it and notify/ is
                   \* written for; "bare", one that has not, which is what
                   \* _inbound_plane and http.py build; "console", no
                   \* recipient, so no mail is sent at all
    MayDeny,       \* whether the gate (sender, signature, rate) may deny mail
    MaxTokens,     \* bound on the tokens issued
    MaxReplies,    \* bound on the replies written
    MaxFaults,     \* bound on crashes, failed sends and failed acks
    OperatorMoves  \* "dear-agent task cancel | requeue | fail" in use

ASSUME InboundAssumption ==
    /\ Reading \in [Tasks -> SUBSET {"rejected", "park", "run"}]
    /\ Answers \subseteq {"approved", "rejected"} \X BOOLEAN
    /\ Orders \subseteq {"approved", "rejected"}
    /\ Wiring \in {"mail", "bare", "console"}
    /\ MayDeny \in BOOLEAN
    /\ MaxTokens \in Nat
    /\ MaxReplies \in Nat
    /\ MaxFaults \in Nat
    /\ OperatorMoves \subseteq {"rejected", "queued", "failed"}
    /\ Planes \intersect Consoles = {}
    /\ NULL \notin {"approved", "rejected"}

VARIABLES
    mailbox,   \* mail that no pass has acknowledged
    written,   \* mail that was ever sent to the agent
    tokens,    \* table dear_agent_approval, in the order of issue
    asked,     \* tokens a human was mailed
    parked,    \* tasks that were stored in action
    denied,    \* mail dropped by the gate
    explained, \* mail answered with an explanation
    pc,        \* where each process is
    batch,     \* what its pass polled
    todo,      \* what of it is left
    cur,       \* the mail, or the operator's decision, it works on
    faults     \* how many faults happened

tableVars == <<tokens, parked>>
mailVars == <<mailbox, written, asked, denied, explained>>
procVars == <<pc, batch, todo, cur>>
vars == <<queueVars, tableVars, mailVars, procVars, faults>>

Processes == Planes \union Consoles
Tokens == 1..MaxTokens
Decisions == {"approved", "rejected"}

\* A mail is a task, or a reply in a task's thread with a token and a
\* decision.  A reply fits when its sender and thread are the task's.
TaskMail(t) == [task |-> t, token |-> 0, decision |-> NULL, fits |-> TRUE]
TaskMails == {TaskMail(t) : t \in Tasks}
Reply(t, k, d, f) == [task |-> t, token |-> k, decision |-> d, fits |-> f]
Mail == TaskMails \union [task : Tasks, token : Tokens, decision : Decisions, fits : BOOLEAN]

\* A token's task, whether its time is over, and the decision that used it.
Approval == [task : Tasks, expired : BOOLEAN, used : Decisions \union {NULL}]

Places == {"idle", "next", "store", "park", "request", "mail", "explain",
           "read", "redeem", "decide"}

TypeOK ==
    /\ QueueTypeOK
    /\ mailbox \subseteq Mail /\ written \subseteq Mail
    /\ tokens \in Seq(Approval) /\ Len(tokens) <= MaxTokens
    /\ asked \subseteq Tokens
    /\ parked \subseteq Tasks
    /\ denied \subseteq Mail /\ explained \subseteq Mail
    /\ pc \in [Processes -> Places]
    /\ batch \in [Processes -> SUBSET Mail] /\ todo \in [Processes -> SUBSET Mail]
    /\ cur \in [Processes -> Mail \union {NULL}]
    /\ faults \in 0..MaxFaults

Init ==
    /\ QueueInit
    /\ mailbox = {} /\ written = {}
    /\ tokens = <<>> /\ asked = {} /\ parked = {}
    /\ denied = {} /\ explained = {}
    /\ pc = [p \in Processes |-> "idle"]
    /\ batch = [p \in Processes |-> {}] /\ todo = [p \in Processes |-> {}]
    /\ cur = [p \in Processes |-> NULL]
    /\ faults = 0

-----------------------------------------------------------------------------
(* A pass of ControlPlane.ingest                                           *)

Goto(p, place) == pc' = [pc EXCEPT ![p] = place]

\* A plane goes on with its batch; an operator's command is over.
GoOn(p) ==
    /\ Goto(p, IF p \in Planes THEN "next" ELSE "idle")
    /\ cur' = [cur EXCEPT ![p] = NULL]
    /\ UNCHANGED <<batch, todo>>

\* The pass, or the command, ends with an exception or the process dies:
\* nothing is acknowledged.
Abort(p) ==
    /\ Goto(p, "idle")
    /\ batch' = [batch EXCEPT ![p] = {}]
    /\ todo' = [todo EXCEPT ![p] = {}]
    /\ cur' = [cur EXCEPT ![p] = NULL]

Fault == faults < MaxFaults /\ faults' = faults + 1

\* transport.poll(): every mail that was not acknowledged.
Poll(p) ==
    /\ pc[p] = "idle" /\ mailbox # {}
    /\ batch' = [batch EXCEPT ![p] = mailbox]
    /\ todo' = [todo EXCEPT ![p] = mailbox]
    /\ Goto(p, "next")
    /\ UNCHANGED <<queueVars, tableVars, mailVars, cur, faults>>

\* _authorize denies it: dropped, never answered.
Deny(p) ==
    /\ pc[p] = "next" /\ MayDeny
    /\ \E m \in todo[p] :
        /\ todo' = [todo EXCEPT ![p] = @ \ {m}]
        /\ denied' = denied \union {m}
    /\ UNCHANGED <<queueVars, tableVars, mailbox, written, asked, explained, pc, batch, cur, faults>>

\* parse_reply, normalize, _repo_allowed and _gate_reason: where the mail goes.
TakeMail(p) ==
    /\ pc[p] = "next"
    /\ \E m \in todo[p] :
        /\ todo' = [todo EXCEPT ![p] = @ \ {m}]
        /\ cur' = [cur EXCEPT ![p] = m]
        /\ \/ m.token # 0 /\ Goto(p, "read")
           \/ /\ m.token = 0
              /\ \/ "rejected" \in Reading[m.task] /\ Goto(p, "explain")
                 \/ "park" \in Reading[m.task] /\ Goto(p, "park")
                 \/ "run" \in Reading[m.task] /\ Goto(p, "store")
    /\ UNCHANGED <<queueVars, tableVars, mailVars, batch, faults>>

StoreOnlyOnce(p) ==
    /\ pc[p] \in {"store", "park"}
    /\ LET t == cur[p].task
       IN \/ /\ Enqueue(t, IF pc[p] = "park" THEN "action" ELSE "queued")
             /\ parked' = IF pc[p] = "park" THEN parked \union {t} ELSE parked
             /\ IF pc[p] = "park" THEN Goto(p, "request") /\ UNCHANGED <<batch, todo, cur>>
                                  ELSE GoOn(p)
          \/ /\ state[t] # "absent"
             /\ Abort(p)
             /\ UNCHANGED <<queueVars, parked>>
    /\ UNCHANGED <<tokens, mailVars, faults>>

StoreWithoutAsking(p) ==
    /\ pc[p] \in {"store", "park"}
    /\ LET t == cur[p].task
       IN \/ /\ Enqueue(t, IF pc[p] = "park" THEN "action" ELSE "queued")
             /\ parked' = IF pc[p] = "park" THEN parked \union {t} ELSE parked
          \/ /\ state[t] # "absent"
             /\ UNCHANGED <<queueVars, parked>>
    /\ GoOn(p)
    /\ UNCHANGED <<tokens, mailVars, faults>>

\* A gated task is stored straight in action; a mail whose task is stored is
\* a redelivery and does nothing.
Store(p) ==
    /\ pc[p] \in {"store", "park"}
    /\ LET t == cur[p].task
       IN \/ /\ pc[p] = "store"
             /\ Enqueue(t, "queued")
             /\ GoOn(p)
             /\ UNCHANGED parked
          \/ /\ pc[p] = "park"
             /\ Enqueue(t, "action")
             /\ parked' = parked \union {t}
             /\ Goto(p, "request")
             /\ UNCHANGED <<batch, todo, cur>>
          \/ /\ state[t] # "absent"
             /\ GoOn(p)
             /\ UNCHANGED <<queueVars, parked>>
    /\ UNCHANGED <<tokens, mailVars, faults>>

\* _request_approval: a token for the stored task.  Notifier.request_approval
\* raises when the notifier has no ApprovalService.
Request(p) ==
    /\ pc[p] = "request"
    /\ \/ /\ Wiring = "bare"
          /\ Abort(p)
          /\ UNCHANGED tokens
       \/ /\ Wiring # "bare"
          /\ Len(tokens) < MaxTokens
          /\ tokens' = Append(tokens, [task |-> cur[p].task, expired |-> FALSE, used |-> NULL])
          /\ IF Wiring = "mail" THEN Goto(p, "mail") /\ UNCHANGED <<batch, todo, cur>>
                                ELSE GoOn(p)
    /\ UNCHANGED <<queueVars, parked, mailVars, faults>>

\* The notifier mails the token to the recipient.
MailToken(p) ==
    /\ pc[p] = "mail"
    /\ asked' = asked \union {k \in 1..Len(tokens) : tokens[k].task = cur[p].task}
    /\ GoOn(p)
    /\ UNCHANGED <<queueVars, tableVars, mailbox, written, denied, explained, faults>>

\* _reply_rejection_message: nothing is sent without a recipient.
Explain(p) ==
    /\ pc[p] = "explain"
    /\ explained' = IF Wiring = "console" THEN explained ELSE explained \union {cur[p]}
    /\ GoOn(p)
    /\ UNCHANGED <<queueVars, tableVars, mailbox, written, asked, denied, faults>>

AckEarly(p) ==
    /\ pc[p] = "next"
    /\ mailbox' = mailbox \ batch[p]
    /\ Abort(p)
    /\ UNCHANGED <<queueVars, tableVars, written, asked, denied, explained, faults>>

\* The whole batch was handled: it is acknowledged, mail by mail and best
\* effort.
Ack(p) ==
    /\ pc[p] = "next" /\ todo[p] = {}
    /\ \/ mailbox' = mailbox \ batch[p] /\ UNCHANGED faults
       \/ Fault /\ \E filed \in SUBSET batch[p] : mailbox' = mailbox \ filed
    /\ Abort(p)
    /\ UNCHANGED <<queueVars, tableVars, written, asked, denied, explained>>

-----------------------------------------------------------------------------
(* ApprovalService.apply                                                   *)

\* Refused: a plane explains, an operator sees the error.
Refuse(p) ==
    IF p \in Planes THEN Goto(p, "explain") /\ UNCHANGED <<batch, todo, cur>> ELSE GoOn(p)

\* store.get and queue.get: the token's task awaits a decision and the reply
\* comes from its sender and thread.
ReadApproval(p) ==
    /\ pc[p] = "read"
    /\ IF state[cur[p].task] = "action" /\ cur[p].fits
       THEN Goto(p, "redeem") /\ UNCHANGED <<batch, todo, cur>>
       ELSE Refuse(p)
    /\ UNCHANGED <<queueVars, tableVars, mailVars, faults>>

RedeemTwice(p) ==
    /\ pc[p] = "redeem"
    /\ tokens' = [tokens EXCEPT ![cur[p].token].used = cur[p].decision]
    /\ Goto(p, "decide") /\ UNCHANGED <<batch, todo, cur>>
    /\ UNCHANGED <<queueVars, parked, mailVars, faults>>

RedeemExpired(p) ==
    /\ pc[p] = "redeem"
    /\ LET k == cur[p].token
       IN IF tokens[k].used = NULL /\ tokens[k].expired
          THEN /\ tokens' = [tokens EXCEPT ![k].used = cur[p].decision]
               /\ Goto(p, "decide") /\ UNCHANGED <<batch, todo, cur>>
          ELSE /\ Refuse(p)
               /\ UNCHANGED tokens
    /\ UNCHANGED <<queueVars, parked, mailVars, faults>>

\* UPDATE ... SET used_at WHERE used_at IS NULL AND expires_at > now.
Redeem(p) ==
    /\ pc[p] = "redeem"
    /\ LET k == cur[p].token
       IN IF tokens[k].used = NULL /\ ~tokens[k].expired
          THEN /\ tokens' = [tokens EXCEPT ![k].used = cur[p].decision]
               /\ Goto(p, "decide") /\ UNCHANGED <<batch, todo, cur>>
          ELSE /\ Refuse(p)
               /\ UNCHANGED tokens
    /\ UNCHANGED <<queueVars, parked, mailVars, faults>>

\* Every request in use asks whether to run.
Target(decision) == IF decision = "approved" THEN "queued" ELSE "rejected"

\* The swap from action; a conflict is explained.
Decide(p) ==
    /\ pc[p] = "decide"
    /\ \/ /\ Transition(cur[p].task, "action", Target(cur[p].decision), NoEvidence)
          /\ GoOn(p)
       \/ /\ state[cur[p].task] # "action"
          /\ Refuse(p)
          /\ UNCHANGED queueVars
    /\ UNCHANGED <<tableVars, mailVars, faults>>

\* A send fails, the database is lost, the pod is killed.
Crash(p) ==
    /\ pc[p] # "idle"
    /\ Fault
    /\ Abort(p)
    /\ UNCHANGED <<queueVars, tableVars, mailVars>>

-----------------------------------------------------------------------------
(* The world                                                               *)

SendTask(t) ==
    /\ TaskMail(t) \notin written
    /\ mailbox' = mailbox \union {TaskMail(t)}
    /\ written' = written \union {TaskMail(t)}
    /\ UNCHANGED <<queueVars, tableVars, asked, denied, explained, procVars, faults>>

\* A human who was mailed a token replies; a reply that does not fit comes
\* from another sender or thread.
SendReply(k, d, f) ==
    /\ k \in asked
    /\ Cardinality(written \ TaskMails) < MaxReplies
    /\ LET m == Reply(tokens[k].task, k, d, f)
       IN  /\ m \notin written
           /\ mailbox' = mailbox \union {m}
           /\ written' = written \union {m}
    /\ UNCHANGED <<queueVars, tableVars, asked, denied, explained, procVars, faults>>

\* An operator redeems a token that approval pending --show-tokens lists.
Command(c, k, d) ==
    /\ pc[c] = "idle"
    /\ k \in 1..Len(tokens) /\ tokens[k].used = NULL
    /\ cur' = [cur EXCEPT ![c] = Reply(tokens[k].task, k, d, TRUE)]
    /\ Goto(c, "read")
    /\ UNCHANGED <<queueVars, tableVars, mailVars, batch, todo, faults>>

\* now >= expires_at from here on.
Expire(k) ==
    /\ k \in 1..Len(tokens) /\ ~tokens[k].expired
    /\ tokens' = [tokens EXCEPT ![k].expired = TRUE]
    /\ UNCHANGED <<queueVars, parked, mailVars, procVars, faults>>

OperatorMove(t, to) ==
    /\ state[t] \in TaskState
    /\ Transition(t, state[t], to, NoEvidence)
    /\ UNCHANGED <<tableVars, mailVars, procVars, faults>>

WorkerClaims == ClaimNext(Lease) /\ UNCHANGED <<tableVars, mailVars, procVars, faults>>

Apply(p) == ReadApproval(p) \/ Redeem(p) \/ Decide(p)

Ingest(p) ==
    \/ Poll(p) \/ Deny(p) \/ TakeMail(p) \/ Store(p) \/ Request(p) \/ MailToken(p)
    \/ Explain(p) \/ Ack(p) \/ Apply(p)

Next ==
    \/ \E p \in Planes : Ingest(p)
    \/ \E c \in Consoles : Apply(c) \/ \E k \in Tokens, d \in Orders : Command(c, k, d)
    \/ \E p \in Processes : Crash(p)
    \/ \E t \in Tasks : SendTask(t)
    \/ \E k \in Tokens, answer \in Answers : SendReply(k, answer[1], answer[2])
    \/ \E k \in Tokens : Expire(k)
    \/ \E t \in Tasks, to \in OperatorMoves : OperatorMove(t, to)
    \/ WorkerClaims

Spec == Init /\ [][Next]_vars

\* A pass that was started goes on, and passes are started every minute; a
\* command that an operator entered runs to its end.
FairSpec ==
    /\ Spec
    /\ \A p \in Planes : WF_vars(Ingest(p))
    /\ \A c \in Consoles : WF_vars(Apply(c))

-----------------------------------------------------------------------------
(* Properties                                                              *)

\* The gate fails closed: a task that was parked is offered to workers only
\* after a token of its own was used to approve it, and none was used to
\* reject it, whatever is redelivered, expires or dies in between.
GateHolds ==
    \A t \in parked : state[t] \in {"queued", "running"} =>
        /\ \E k \in 1..Len(tokens) : tokens[k].task = t /\ tokens[k].used = "approved"
        /\ ~\E k \in 1..Len(tokens) : tokens[k].task = t /\ tokens[k].used = "rejected"

\* No mail gets lost: a mail that left the mailbox was denied, answered with
\* an explanation, stored as a task, or decided its task, although a pass may
\* die anywhere and acknowledges only at its end.
MailNotLost ==
    \A m \in written \ mailbox :
        \/ m \in denied \union explained
        \/ m.token = 0 /\ state[m.task] # "absent"
        \/ m.token # 0 /\ tokens[m.token].used = m.decision

\* A human has one open request per task: a token is issued only for a task
\* that was stored behind the gate, and never while an earlier token of the
\* task can still be redeemed, however often the mail is redelivered.  A new
\* request after the expiry of the old one would be allowed: docs/queue.md:117
\* ("an expired token triggers a new request") and approvals_service.py:61
\* announce it.  The code only explains (control_plane.py:238).
OneOpenRequest ==
    /\ \A k \in 1..Len(tokens) : tokens[k].task \in parked
    /\ \A j, k \in 1..Len(tokens) :
        j < k /\ tokens[j].task = tokens[k].task => tokens[j].expired \/ tokens[j].used # NULL

\* Passes, shells, operators and workers together never do more to the table
\* than the operations of the Queue port allow (queue/port.py).
ImplementsQueue == QueueSpec

\* Mail is handled: once the faults are over, every mail, task or reply, leaves
\* the mailbox, although passes overlap, redo each other's work and die.
\* Finitely much is written, so this is to say that the mailbox empties.
MailHandled == []<>(mailbox = {})

\* A fitting reply that reaches the mailbox decides its task, unless the gate
\* denies one, the task's token expires before, or a fault comes between check,
\* redemption and transition.
ReplyDecides ==
    LET fitting(m, t) == m.task = t /\ m.token # 0 /\ m.fits
    IN  \A t \in Tasks :
            (\E m \in mailbox : fitting(m, t))
                ~> \/ state[t] # "action"
                   \/ \E k \in 1..Len(tokens) : tokens[k].task = t /\ tokens[k].expired
                   \/ \E m \in denied : fitting(m, t)
                   \/ faults > 0

\* docs/queue.md: a gated task has a token that a human can answer.  Where
\* nothing fails and all passes are over, every parked task has one.
ParkedIsAsked ==
    faults = 0 /\ (\A p \in Processes : pc[p] = "idle") =>
        \A t \in Tasks : state[t] = "action" => \E k \in 1..Len(tokens) : tokens[k].task = t
=============================================================================
