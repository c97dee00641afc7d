------------------------------ MODULE Webhook ------------------------------
(***************************************************************************)
(* The HTTP entry point: the accept loop of _DearAgentHTTPServer with its  *)
(* bounded slots, one thread per request, the InboundGate with its         *)
(* RateLimiter, and stop().  A thread reads the body, authorizes, checks   *)
(* the rate and ingests; module Inbound details what ingest does.          *)
(*                                                                         *)
(* RateLimiter.check reads a sender's list and stores a new one in two     *)
(* steps, without a lock; the list lives in the process.  It holds a       *)
(* moment for every request that was let through.  Its order is never      *)
(* used: here it is a set, and a moment comes with the request it is of,   *)
(* so that two requests of one moment stay two entries.                    *)
(*                                                                         *)
(* A body is as many chunks as it needs reads.  GET /health, whose threads *)
(* hold a slot in the same way, and JSON are left out.                     *)
(***************************************************************************)
EXTENDS Naturals, Sequences, FiniteSets

CONSTANTS
    NULL,
    Requests,
    Senders,
    Sender,       \* who each request is from
    Length,       \* its Content-Length
    MaxWorkers,   \* bound on DEAR_AGENT_HTTP_MAX_WORKERS
    MaxBody,      \* max_body_bytes
    Limit,        \* DEAR_AGENT_RATE_LIMIT
    Window,       \* one minute
    MaxTime,      \* bound on the clock
    MaxRestarts   \* bound on the processes that follow the first

ASSUME WebhookAssumption ==
    /\ Sender \in [Requests -> Senders]
    /\ Length \in [Requests -> Nat]
    /\ MaxWorkers \in Nat \ {0} /\ Limit \in Nat \ {0} /\ Window \in Nat \ {0}
    /\ MaxBody \in Nat /\ MaxTime \in Nat /\ MaxRestarts \in Nat
    /\ NULL \notin Nat /\ NULL \notin Requests

VARIABLES
    pool,       \* DEAR_AGENT_HTTP_MAX_WORKERS
    now,
    server,     \* "up", "stopping" or "down"
    restarts,
    backlog,    \* connections that are not accepted yet
    pending,    \* the request whose slot the accept loop waits for
    slots,      \* the semaphore
    stage,      \* where each request is
    left,       \* what of its body is not read
    check,      \* the local variables of its RateLimiter.check
    answer,     \* the status it was answered with, "none" or "dropped"
    seen,       \* RateLimiter._seen
    admittedAt, \* when a request passed the gate
    limited     \* requests the rate limiter refused, and when it began and ended

loopVars == <<server, restarts, backlog, pending>>
gateVars == <<seen, admittedAt, limited>>
vars == <<pool, now, loopVars, slots, stage, left, check, answer, gateVars>>

Threaded == {"reading", "check", "store", "ingest"}
Times == 0..MaxTime
Entry == [by : Requests, at : Times]

TypeOK ==
    /\ pool \in 1..MaxWorkers
    /\ now \in Times
    /\ server \in {"up", "stopping", "down"}
    /\ restarts \in 0..MaxRestarts
    /\ backlog \in Seq(Requests)
    /\ pending \in Requests \union {NULL}
    /\ slots \in 0..pool
    /\ stage \in [Requests -> {"new", "waiting", "over"} \union Threaded]
    /\ left \in [Requests -> Nat]
    /\ check \in [Requests -> [at : Times, recent : SUBSET Entry]]
    /\ answer \in [Requests -> {"none", "dropped", "202", "400", "401", "413"}]
    /\ seen \in [Senders -> SUBSET Entry]
    /\ admittedAt \in [Requests -> Times \union {NULL}]
    /\ limited \subseteq [request : Requests, from : Times, to : Times]

NoCheck == [at |-> 0, recent |-> {}]

Init ==
    /\ pool \in 1..MaxWorkers
    /\ now = 0
    /\ server = "up" /\ restarts = 0
    /\ backlog = <<>> /\ pending = NULL
    /\ slots = pool
    /\ stage = [r \in Requests |-> "new"]
    /\ left = Length
    /\ check = [r \in Requests |-> NoCheck]
    /\ answer = [r \in Requests |-> "none"]
    /\ seen = [s \in Senders |-> {}]
    /\ admittedAt = [r \in Requests |-> NULL]
    /\ limited = {}

Enter(r, place) == stage' = [stage EXCEPT ![r] = place]

LeaveKeepsSlot(r, status) ==
    /\ Enter(r, "over")
    /\ answer' = [answer EXCEPT ![r] = status]
    /\ check' = [check EXCEPT ![r] = NoCheck]
    /\ UNCHANGED slots

\* The thread ends, with an answer or an exception: the slot is given back.
Leave(r, status) ==
    /\ Enter(r, "over")
    /\ answer' = [answer EXCEPT ![r] = status]
    /\ check' = [check EXCEPT ![r] = NoCheck]
    /\ slots' = slots + 1

-----------------------------------------------------------------------------
(* The accept loop                                                         *)

Connect(r) ==
    /\ server = "up" /\ stage[r] = "new"
    /\ Enter(r, "waiting")
    /\ backlog' = Append(backlog, r)
    /\ UNCHANGED <<pool, now, server, restarts, pending, slots, left, check, answer, gateVars>>

\* serve_forever looks at the shutdown flag between two requests.
Accept ==
    /\ server = "up" /\ pending = NULL /\ backlog # <<>>
    /\ pending' = Head(backlog)
    /\ backlog' = Tail(backlog)
    /\ UNCHANGED <<pool, now, server, restarts, slots, stage, left, check, answer, gateVars>>

\* process_request: acquire, then a thread; if that cannot be started, the
\* slot is released and the connection closed.
Start ==
    /\ pending # NULL /\ slots > 0
    /\ pending' = NULL
    /\ \/ Enter(pending, "reading") /\ slots' = slots - 1 /\ UNCHANGED answer
       \/ /\ Enter(pending, "over")
          /\ answer' = [answer EXCEPT ![pending] = "dropped"]
          /\ UNCHANGED slots
    /\ UNCHANGED <<pool, now, server, restarts, backlog, left, check, gateVars>>

\* SIGTERM: stop() waits for serve_forever to return,
Stop ==
    /\ server = "up"
    /\ server' = "stopping"
    /\ UNCHANGED <<pool, now, restarts, backlog, pending, slots, stage, left, check, answer, gateVars>>

\* then the process exits, and its daemon threads with it.
Exit ==
    /\ server = "stopping" /\ pending = NULL
    /\ server' = "down"
    /\ backlog' = <<>>
    /\ stage' = [r \in Requests |-> IF stage[r] = "new" THEN "new" ELSE "over"]
    /\ answer' = [r \in Requests |->
                    IF stage[r] \notin {"new", "over"} THEN "dropped" ELSE answer[r]]
    /\ check' = [r \in Requests |-> NoCheck]
    /\ slots' = pool
    /\ seen' = [s \in Senders |-> {}]
    /\ UNCHANGED <<pool, now, restarts, pending, left, admittedAt, limited>>

\* The next process (a Deployment's pod, a CronJob's pass) starts afresh.
Restart ==
    /\ server = "down" /\ restarts < MaxRestarts
    /\ server' = "up"
    /\ restarts' = restarts + 1
    /\ UNCHANGED <<pool, now, backlog, pending, slots, stage, left, check, answer, gateVars>>

-----------------------------------------------------------------------------
(* A request's thread                                                      *)

\* do_POST reads what the client sends, unless the body is too long.
Read(r) ==
    /\ stage[r] = "reading"
    /\ \/ Length[r] > MaxBody /\ Leave(r, "413") /\ UNCHANGED left
       \/ /\ Length[r] <= MaxBody /\ left[r] > 0
          /\ left' = [left EXCEPT ![r] = @ - 1]
          /\ UNCHANGED <<slots, stage, check, answer>>
    /\ UNCHANGED <<pool, now, loopVars, gateVars>>

HangUpNever(r) == FALSE /\ r \in Requests /\ UNCHANGED vars

\* The client sends nothing for timeout_seconds, or is gone.
HangUp(r) ==
    /\ stage[r] = "reading"
    /\ Leave(r, "dropped")
    /\ UNCHANGED <<pool, now, loopVars, left, gateVars>>

\* parse_message and InboundAuthorizer.authorize accept it, or not; then RateLimiter.check
\* reads the clock,
Authorize(r) ==
    /\ stage[r] = "reading" /\ left[r] = 0 /\ Length[r] <= MaxBody
    /\ \/ /\ Enter(r, "check")
          /\ check' = [check EXCEPT ![r].at = now]
          /\ UNCHANGED <<slots, answer>>
       \/ \E status \in {"400", "401"} : Leave(r, status)
    /\ UNCHANGED <<pool, now, loopVars, left, gateVars>>

RecentAtEdge(s, at) == {e \in seen[s] : e.at + Window >= at}

\* The entries of a sender's list that are younger than the window.
Recent(s, at) == {e \in seen[s] : e.at + Window > at}

\* then the list,
Check(r) ==
    /\ stage[r] = "check"
    /\ check' = [check EXCEPT ![r].recent = Recent(Sender[r], check[r].at)]
    /\ Enter(r, "store")
    /\ UNCHANGED <<pool, now, loopVars, slots, left, answer, gateVars>>

Verdict(r, limit) ==
    LET recent == check[r].recent
        own == [by |-> r, at |-> check[r].at]
    IN  /\ stage[r] = "store"
        /\ \/ /\ Cardinality(recent) >= limit
              /\ seen' = [seen EXCEPT ![Sender[r]] = recent]
              /\ limited' = limited \union {[request |-> r, from |-> own.at, to |-> now]}
              /\ Leave(r, "401")
              /\ UNCHANGED admittedAt
           \/ /\ Cardinality(recent) < limit
              /\ seen' = [seen EXCEPT ![Sender[r]] = recent \union {own}]
              /\ admittedAt' = [admittedAt EXCEPT ![r] = own.at]
              /\ Enter(r, "ingest")
              /\ UNCHANGED <<slots, check, answer, limited>>
        /\ UNCHANGED <<pool, now, loopVars, left>>

StoreOneMore(r) == Verdict(r, Limit + 1)

\* and stores what is left of it, with an entry for a request that passes.
Store(r) == Verdict(r, Limit)

\* The pass ends, or raises: then the connection is closed unanswered.
Ingest(r) ==
    /\ stage[r] = "ingest"
    /\ \E status \in {"202", "dropped"} : Leave(r, status)
    /\ UNCHANGED <<pool, now, loopVars, left, gateVars>>

Tick ==
    /\ now < MaxTime
    /\ now' = now + 1
    /\ UNCHANGED <<pool, loopVars, slots, stage, left, check, answer, gateVars>>

-----------------------------------------------------------------------------

Thread(r) == Authorize(r) \/ Check(r) \/ Store(r) \/ Ingest(r)

Loop == Accept \/ Start

Next ==
    \/ Loop \/ Stop \/ Exit \/ Restart \/ Tick
    \/ \E r \in Requests : Connect(r) \/ Read(r) \/ HangUp(r) \/ Thread(r)

Spec == Init /\ [][Next]_vars

\* Threads run, sockets time out, and serve_forever sees the shutdown flag.
\* Clients send, and operators stop the server, if they like.
FairSpec ==
    /\ Spec
    /\ WF_vars(Loop) /\ WF_vars(Exit)
    /\ \A r \in Requests : WF_vars(Thread(r)) /\ WF_vars(HangUp(r))

-----------------------------------------------------------------------------
(* Properties                                                              *)

\* The requests of r's sender that were admitted in the window that ends at
\* t, and, for a thread that is slow, up to some later moment.
AdmittedWithin(r, t, later) ==
    {q \in Requests : /\ Sender[q] = Sender[r]
                      /\ admittedAt[q] \in (IF t < Window THEN 0 ELSE t + 1 - Window)..later}

\* A sender is refused only after Limit requests of theirs within the window
\* passed, whatever other threads store in between, and never because of
\* requests before it.
LimitedIsEarned ==
    \A d \in limited : Cardinality(AdmittedWithin(d.request, d.from, d.to)) >= Limit

\* Every connection comes to its end: no path of a thread keeps its slot, and
\* a full server with clients that went silent recovers.
EveryRequestEnds == \A r \in Requests : stage[r] = "waiting" ~> stage[r] = "over"

\* stop() returns, also when the accept loop waits for a slot.
StopReturns == server = "stopping" ~> server = "down"

\* docs/security.md: "Rate-limit per sender (... sliding window): a burst of
\* mail must not become a burst of agent runs".  No window holds more than
\* Limit admitted requests of one sender, as long as one process with one
\* thread does the checks: overlapping threads overwrite each other's entries,
\* and a new process starts with none.
RateBound ==
    pool = 1 /\ restarts = 0 =>
        \A r \in Requests : admittedAt[r] # NULL =>
            Cardinality(AdmittedWithin(r, admittedAt[r], admittedAt[r])) <= Limit
=============================================================================
