------------------------------ MODULE Mailbox ------------------------------
(***************************************************************************)
(* The pull transports: poll and ack of JmapTransport, ImapSmtpTransport   *)
(* and AgentMailTransport over their clients, driven by the poll CronJob   *)
(* and, over JMAP, by the listen process, whose EventSource loop polls     *)
(* whenever the server says that mail changed.  It details the steps Poll  *)
(* and Ack of Inbound.                                                     *)
(*                                                                         *)
(* The servers are external.  A JMAP server counts changes of any mail as  *)
(* a state, and an update that names an older state is refused: here,      *)
(* whether the state changed since a process read it.  Its stream says     *)
(* that something changed, to those who listen at the time.  An IMAP       *)
(* server marks a message \Seen when its body is fetched.  AgentMail keeps *)
(* one record for a Message-ID and finds it by that.                       *)
(***************************************************************************)
EXTENDS Naturals, FiniteSets

CONSTANTS
    NULL,
    Kinds,       \* the backends that may be configured
    Emails,      \* ids of the server
    MessageIds,
    MessageId,   \* the Message-ID of each email: the transport id of its task
    Poller,      \* the poll CronJob's process
    Listener,    \* the listen process
    Processes,   \* the ones that are deployed
    Limit,       \* emails per query of each backend; 50 in the code
    MaxEvents,   \* bound on undelivered events that are counted
    MaxMishaps   \* bound on failing requests and dying processes

ASSUME MailboxAssumption ==
    /\ Kinds \subseteq {"jmap", "imap", "agentmail"}
    /\ MessageId \in [Emails -> MessageIds]
    /\ Processes \subseteq {Poller, Listener}
    /\ Limit \in [Kinds -> Nat \ {0}] /\ MaxEvents \in Nat \ {0} /\ MaxMishaps \in Nat
    /\ NULL \notin Emails

VARIABLES
    kind,     \* DEAR_AGENT_BACKEND
    box,      \* each email: not there yet, in the task mailbox, filed, the agent's own
    seen,     \* the flag \Seen of an IMAP server
    handled,  \* Message-IDs some ingest pass went through
    pc,       \* where each process is
    batch,    \* the emails its poll returned
    pendingIds, \* _pending_ids: the email behind each Message-ID
    todo,     \* Message-IDs it has still to acknowledge
    acking,   \* the email it files
    stale,    \* whether the state changed since it read it
    events,   \* events on the listener's stream
    mishaps

procVars == <<pc, batch, pendingIds, todo, acking>>
vars == <<kind, box, seen, handled, procVars, stale, events, mishaps>>

TypeOK ==
    /\ kind \in Kinds
    /\ box \in [Emails -> {"none", "in", "done", "own"}]
    /\ seen \subseteq Emails
    /\ handled \subseteq MessageIds
    /\ pc \in [Processes -> {"off", "idle", "get", "ingest", "ack", "update"}]
    /\ batch \in [Processes -> SUBSET Emails]
    /\ pendingIds \in [Processes -> [MessageIds -> Emails \union {NULL}]]
    /\ todo \in [Processes -> SUBSET MessageIds]
    /\ acking \in [Processes -> Emails \union {NULL}]
    /\ stale \in [Processes -> BOOLEAN]
    /\ events \in 0..MaxEvents
    /\ mishaps \in 0..MaxMishaps

Nothing == [m \in MessageIds |-> NULL]

Init ==
    /\ kind \in Kinds
    /\ box = [e \in Emails |-> "none"]
    /\ seen = {}
    /\ handled = {}
    /\ pc = [p \in Processes |-> "off"]
    /\ batch = [p \in Processes |-> {}]
    /\ pendingIds = [p \in Processes |-> Nothing]
    /\ todo = [p \in Processes |-> {}]
    /\ acking = [p \in Processes |-> NULL]
    /\ stale = [p \in Processes |-> FALSE]
    /\ events = 0
    /\ mishaps = 0

Goto(p, place) == pc' = [pc EXCEPT ![p] = place]
Mishap == mishaps < MaxMishaps /\ mishaps' = mishaps + 1

\* Mail changed: every state that was read is old, and a listener is told.
Changed ==
    /\ stale' = [p \in Processes |-> TRUE]
    /\ events' = IF Listener \in Processes /\ pc[Listener] # "off" /\ events < MaxEvents
                 THEN events + 1 ELSE events

\* Every local of the process is gone, and so is its stream.
Dead(p) ==
    /\ Goto(p, "off")
    /\ batch' = [batch EXCEPT ![p] = {}]
    /\ pendingIds' = [pendingIds EXCEPT ![p] = Nothing]
    /\ todo' = [todo EXCEPT ![p] = {}]
    /\ acking' = [acking EXCEPT ![p] = NULL]
    /\ events' = IF p = Listener THEN 0 ELSE events

-----------------------------------------------------------------------------

\* AgentMail has no second record for a message it knows.
Arrive(e) ==
    /\ box[e] = "none"
    /\ kind = "agentmail" => \A f \in Emails : MessageId[f] = MessageId[e] => box[f] = "none"
    /\ box' = [box EXCEPT ![e] = "in"]
    /\ Changed
    /\ UNCHANGED <<seen, handled, procVars, mishaps>>

\* submit: some process of the agent mails a status or a question.  Over JMAP
\* that is a change of the account, whether or not it can be submitted; SMTP
\* and AgentMail's reply leave the task mailbox alone.
Submit(e) ==
    /\ kind = "jmap"
    /\ box[e] = "none"
    /\ box' = [box EXCEPT ![e] = "own"]
    /\ Changed
    /\ UNCHANGED <<seen, handled, procVars, mishaps>>

\* The CronJob's process starts; listen, which is for JMAP, connects and
\* opens the stream.
Start(p) ==
    /\ pc[p] = "off"
    /\ p = Listener => kind = "jmap"
    /\ Goto(p, "idle")
    /\ UNCHANGED <<box, seen, handled, batch, pendingIds, todo, acking, stale, events, mishaps>>

\* What the server lists: the task mailbox, its UNSEEN part, or every message
\* received.
Listed ==
    CASE kind = "jmap" -> {e \in Emails : box[e] = "in"}
      [] kind = "imap" -> {e \in Emails : box[e] = "in"} \ seen
      [] kind = "agentmail" -> {e \in Emails : box[e] \in {"in", "done"}}

\* The CronJob's process polls once; the listener takes an event off its stream
\* first and hands it to IngestOnChange.
Woken(p) ==
    /\ p = Listener => events > 0
    /\ events' = IF p = Listener THEN events - 1 ELSE events

\* poll asks for at most Limit, in whatever order; what AgentMail lists is
\* filtered by the done label after that.
Query(p) ==
    /\ pc[p] = "idle"
    /\ Woken(p)
    /\ \E ids \in SUBSET Listed :
        /\ Cardinality(ids) = Limit[kind] \/ (ids = Listed /\ Cardinality(ids) < Limit[kind])
        /\ LET fresh == {e \in ids : box[e] = "in"}
           IN  /\ batch' = [batch EXCEPT ![p] = fresh]
               /\ Goto(p, IF fresh # {} THEN "get" ELSE IF p = Listener THEN "idle" ELSE "off")
    /\ UNCHANGED <<box, seen, handled, pendingIds, todo, acking, stale, mishaps>>

\* Email/get, or AgentMail's get of each, which falls back on what was listed;
\* of several emails with one Message-ID the last is remembered.
Get(p) ==
    /\ pc[p] = "get" /\ kind # "imap"
    /\ \E chosen \in [MessageIds -> Emails \union {NULL}] :
        /\ \A m \in MessageIds :
            LET same == {e \in batch[p] : MessageId[e] = m}
            IN  IF same = {} THEN chosen[m] = NULL ELSE chosen[m] \in same
        /\ pendingIds' = [pendingIds EXCEPT ![p] = chosen]
    /\ Goto(p, "ingest")
    /\ UNCHANGED <<box, seen, handled, batch, todo, acking, stale, events, mishaps>>

\* fetch_raw: IMAP fetches one message after the other, and each is \Seen from
\* then on, whatever becomes of the pass.
Fetch(p) ==
    /\ pc[p] = "get" /\ kind = "imap"
    /\ \E e \in batch[p] \ seen :
        /\ seen' = seen \union {e}
        /\ pendingIds' = [pendingIds EXCEPT ![p][MessageId[e]] = e]
    /\ Goto(p, IF batch[p] \subseteq seen' THEN "ingest" ELSE "get")
    /\ UNCHANGED <<box, handled, batch, todo, acking, stale, events, mishaps>>

IngestAlwaysAcks(p) ==
    /\ pc[p] = "ingest"
    /\ \/ handled' = handled \union {MessageId[e] : e \in batch[p]} /\ UNCHANGED mishaps
       \/ Mishap /\ UNCHANGED handled
    /\ todo' = [todo EXCEPT ![p] = {MessageId[e] : e \in batch[p]}]
    /\ batch' = [batch EXCEPT ![p] = {}]
    /\ Goto(p, "ack")
    /\ UNCHANGED <<box, seen, pendingIds, acking, stale, events>>

\* ControlPlane.ingest goes through the batch, then acknowledges, or nothing
\* if ack cannot open its mailboxes (AgentMail has none to open); a pass that
\* raises ends the process before.
Ingest(p) ==
    /\ pc[p] = "ingest"
    /\ \/ /\ handled' = handled \union {MessageId[e] : e \in batch[p]}
          /\ \/ todo' = [todo EXCEPT ![p] = {MessageId[e] : e \in batch[p]}] /\ UNCHANGED mishaps
             \/ kind # "agentmail" /\ Mishap /\ UNCHANGED todo
          /\ batch' = [batch EXCEPT ![p] = {}]
          /\ Goto(p, "ack")
          /\ UNCHANGED <<pendingIds, acking, events>>
       \/ Mishap /\ Dead(p) /\ UNCHANGED handled
    /\ UNCHANGED <<box, seen, stale>>

\* JMAP's ack: the id is taken out of _pending_ids and the state is read, or not.
AckRead(p) ==
    /\ pc[p] = "ack" /\ kind = "jmap"
    /\ \E m \in todo[p] :
        /\ todo' = [todo EXCEPT ![p] = @ \ {m}]
        /\ pendingIds' = [pendingIds EXCEPT ![p][m] = NULL]
        /\ \/ /\ acking' = [acking EXCEPT ![p] = pendingIds[p][m]]
              /\ stale' = [stale EXCEPT ![p] = FALSE]
              /\ Goto(p, "update")
              /\ UNCHANGED mishaps
           \/ Mishap /\ UNCHANGED <<acking, stale, pc>>
    /\ UNCHANGED <<box, seen, handled, batch, events>>

\* IMAP's move, which makes the target if COPY finds none, and AgentMail's
\* update_labels; an error is swallowed and the next message is tried.
AckMove(p) ==
    /\ pc[p] = "ack" /\ kind # "jmap"
    /\ \E m \in todo[p] :
        /\ todo' = [todo EXCEPT ![p] = @ \ {m}]
        /\ pendingIds' = [pendingIds EXCEPT ![p][m] = NULL]
        /\ \/ box' = [box EXCEPT ![pendingIds[p][m]] = "done"] /\ UNCHANGED mishaps
           \/ Mishap /\ UNCHANGED box
    /\ UNCHANGED <<seen, handled, pc, batch, acking, stale, events>>

\* The message is marked and stays where it is.
AckMarks(p) ==
    /\ pc[p] = "update"
    /\ \/ ~stale[p] /\ Changed /\ UNCHANGED mishaps
       \/ stale[p] /\ UNCHANGED <<stale, events, mishaps>>
    /\ acking' = [acking EXCEPT ![p] = NULL]
    /\ Goto(p, "ack")
    /\ UNCHANGED <<box, seen, handled, batch, pendingIds, todo>>

\* Email/set moves it to the processed mailbox, if nothing changed since; a
\* refusal or an error is swallowed.
AckUpdate(p) ==
    /\ pc[p] = "update"
    /\ \/ /\ ~stale[p]
          /\ box' = [box EXCEPT ![acking[p]] = "done"]
          /\ IF box[acking[p]] = "done" THEN UNCHANGED <<stale, events>> ELSE Changed
          /\ UNCHANGED mishaps
       \/ stale[p] /\ UNCHANGED <<box, stale, events, mishaps>>
       \/ Mishap /\ UNCHANGED <<box, stale, events>>
    /\ acking' = [acking EXCEPT ![p] = NULL]
    /\ Goto(p, "ack")
    /\ UNCHANGED <<seen, handled, batch, pendingIds, todo>>

\* The pass is over, and with it the CronJob's process.
AckEnd(p) ==
    /\ pc[p] = "ack" /\ todo[p] = {}
    /\ IF p = Listener THEN Goto(p, "idle") /\ UNCHANGED <<batch, pendingIds, todo, acking, events>> ELSE Dead(p)
    /\ UNCHANGED <<box, seen, handled, stale, mishaps>>

\* A request fails outside of ack, the stream times out, the pod is moved.
Dies(p) ==
    /\ pc[p] # "off"
    /\ Mishap
    /\ Dead(p)
    /\ UNCHANGED <<box, seen, handled, stale>>

Step(p) ==
    /\ \/ Start(p) \/ Query(p) \/ Get(p) \/ Fetch(p) \/ Ingest(p)
       \/ AckRead(p) \/ AckUpdate(p) \/ AckMove(p) \/ AckEnd(p)
    /\ UNCHANGED kind

Next ==
    \/ \E e \in Emails : (Arrive(e) \/ Submit(e)) /\ UNCHANGED kind
    \/ \E p \in Processes : Step(p)
    \/ \E p \in Processes : Dies(p) /\ UNCHANGED kind

Spec == Init /\ [][Next]_vars

\* Kubernetes runs the CronJob every minute and restarts the Deployment.
FairSpec == Spec /\ \A p \in Processes : WF_vars(Step(p))

-----------------------------------------------------------------------------
(* Properties                                                              *)

\* Mail is filed away only after some pass went through it, although passes
\* overlap, die halfway, and two emails share one entry of _pending_ids.
FiledIsHandled == \A e \in Emails : box[e] = "done" => MessageId[e] \in handled

\* Over IMAP a message that was fetched and not filed is not listed again.
\* That takes a failure, or a second delivery of the same message.
Overlooked(e) ==
    /\ kind = "imap" /\ e \in seen
    /\ mishaps > 0 \/ \E f \in Emails \ {e} : MessageId[f] = MessageId[e]

\* AgentMail lists filed messages too, and a full list may hold nothing else.
Crowded == kind = "agentmail" /\ Cardinality(Listed) > Limit[kind]

\* Every mail is filed in the end: updates that are refused are repeated by a
\* later pass, of two emails with one Message-ID neither is forgotten, and a
\* dead pass is made up for.  The exceptions are the two above.
EveryMailFiled ==
    \A e \in Emails : box[e] = "in" ~> (box[e] = "done" \/ Overlooked(e) \/ Crowded)

\* The listener's own filing and the agent's own mail wake it up again; that
\* must come to an end.
Settles == <>[](events = 0)
=============================================================================
