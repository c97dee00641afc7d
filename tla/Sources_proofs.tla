--------------------------- MODULE Sources_proofs ---------------------------
(***************************************************************************)
(* Proofs about what brings tasks in beside mail.                          *)
(*                                                                         *)
(* The HTTP server with its rate limiter, for any number of requests,      *)
(* senders and threads, any limit and any window: no slot is lost, nobody  *)
(* is refused who did not earn it, and one thread keeps the rate.          *)
(*                                                                         *)
(* The idle loop: whichever ticks overlap, fail or die, no proposal runs   *)
(* without a human's approval and nobody is asked twice.  What a tick has  *)
(* to submit is whatever Generate returned: the proofs use nothing of it,  *)
(* and hold for any order and any repetition of proposals.                 *)
(***************************************************************************)
EXTENDS Webhook, Idle, FiniteSetTheorems, SequenceTheorems, TLAPS

-----------------------------------------------------------------------------
(* Slots                                                                   *)

Threads == {r \in Requests : stage[r] \in Threaded}

\* Every slot is free or held by a thread that lives.
SlotsKept == IsFiniteSet(Threads) /\ Cardinality(Threads) + slots = pool

\* A connection that waits is in one place only, so that no request gets two
\* threads.
QueuedOnce ==
    /\ pending # NULL => stage[pending] = "waiting"
    /\ \A i \in DOMAIN backlog : stage[backlog[i]] = "waiting" /\ backlog[i] # pending
    /\ \A i, j \in DOMAIN backlog : backlog[i] = backlog[j] => i = j

DownIsQuiet ==
    server = "down" =>
        /\ pending = NULL /\ backlog = <<>>
        /\ \A r \in Requests : stage[r] \in {"new", "over"}

LoopInv == TypeOK /\ SlotsKept /\ QueuedOnce /\ DownIsQuiet

Places == {"new", "waiting", "over"} \union Threaded

LEMMA OneElement ==
    ASSUME NEW S, IsFiniteSet(S), Cardinality(S) <= 1, NEW x \in S, NEW y \in S
    PROVE  x = y
<1>1. IsFiniteSet(S \ {x}) /\ Cardinality(S \ {x}) = Cardinality(S) - 1
  BY FS_RemoveElement
<1>2. Cardinality(S \ {x}) \in Nat /\ Cardinality(S) \in Nat
  BY <1>1, FS_CardinalityType
<1>3. Cardinality(S \ {x}) = 0
  BY <1>1, <1>2
<1>4. S \ {x} = {}
  BY <1>1, <1>3, FS_EmptySet
<1>5. QED
  BY <1>4

\* What the accept loop and the semaphore are left with by a step of one
\* thread: it goes on with its slot, or ends and gives it back.
LEMMA ThreadKeepsLoop ==
    ASSUME LoopInv, NEW r \in Requests, stage[r] \in Threaded,
           UNCHANGED <<pool, loopVars>>,
           \/ stage' = stage /\ slots' = slots
           \/ slots' = slots /\ \E place \in Threaded : Enter(r, place)
           \/ slots' = slots + 1 /\ Enter(r, "over")
    PROVE  /\ SlotsKept' /\ QueuedOnce' /\ DownIsQuiet'
           /\ stage' \in [Requests -> Places] /\ slots' \in 0..pool'
<1> USE DEF LoopInv, Enter, Places, Threaded, loopVars
<1>1. stage' \in [Requests -> Places]
  BY DEF TypeOK
<1>2. \A q \in Requests : q # r => stage'[q] = stage[q]
  BY DEF TypeOK
<1>3. r \in Threads /\ IsFiniteSet(Threads) /\ Cardinality(Threads) \in Nat
  BY FS_CardinalityType DEF Threads, SlotsKept
<1>4. SlotsKept' /\ slots' \in 0..pool'
  <2>1. CASE slots' = slots + 1 /\ Enter(r, "over")
    <3>1. Threads' = Threads \ {r}
      BY <2>1 DEF Threads, TypeOK
    <3>2. IsFiniteSet(Threads \ {r}) /\ Cardinality(Threads \ {r}) = Cardinality(Threads) - 1
      BY <1>3, FS_RemoveElement
    <3>3. Cardinality(Threads \ {r}) \in Nat
      BY <3>2, FS_CardinalityType
    <3>4. QED
      BY <1>3, <2>1, <3>1, <3>2, <3>3 DEF SlotsKept, TypeOK
  <2>2. CASE slots' = slots /\ Threads' = Threads
    BY <2>2 DEF SlotsKept, TypeOK
  <2>3. (\E place \in Threaded : Enter(r, place)) => Threads' = Threads
    BY DEF Threads, TypeOK
  <2>4. stage' = stage => Threads' = Threads
    BY DEF Threads
  <2>5. QED
    BY <2>1, <2>2, <2>3, <2>4
<1>5. QueuedOnce'
  BY <1>2, WebhookAssumption DEF QueuedOnce, TypeOK
<1>6. DownIsQuiet'
  BY DEF DownIsQuiet
<1>7. QED
  BY <1>1, <1>4, <1>5, <1>6

LEMMA LeaveTyped ==
    ASSUME TypeOK, NEW r \in Requests,
           NEW status \in {"none", "dropped", "202", "400", "401", "413"}, Leave(r, status)
    PROVE  /\ answer' \in [Requests -> {"none", "dropped", "202", "400", "401", "413"}]
           /\ check' \in [Requests -> [at : Times, recent : SUBSET Entry]]
           /\ slots' = slots + 1 /\ Enter(r, "over")
<1>1. NoCheck \in [at : Times, recent : SUBSET Entry]
  BY WebhookAssumption DEF NoCheck, Times
<1>2. QED
  BY <1>1 DEF TypeOK, Leave

LEMMA RecentTyped ==
    ASSUME TypeOK, NEW r \in Requests
    PROVE  /\ Recent(Sender[r], check[r].at) \in SUBSET Entry
           /\ Sender[r] \in Senders /\ check[r].at \in Times /\ check[r].recent \in SUBSET Entry
BY WebhookAssumption DEF TypeOK, Recent

LEMMA ThreadTyped ==
    ASSUME TypeOK, NEW r \in Requests, Read(r) \/ HangUp(r) \/ Thread(r)
    PROVE  /\ stage[r] \in Threaded
           /\ UNCHANGED <<pool, now, loopVars>>
           /\ \/ stage' = stage /\ slots' = slots
              \/ slots' = slots /\ \E place \in Threaded : Enter(r, place)
              \/ slots' = slots + 1 /\ Enter(r, "over")
           /\ left' \in [Requests -> Nat]
           /\ answer' \in [Requests -> {"none", "dropped", "202", "400", "401", "413"}]
           /\ check' \in [Requests -> [at : Times, recent : SUBSET Entry]]
           /\ seen' \in [Senders -> SUBSET Entry]
           /\ admittedAt' \in [Requests -> Times \union {NULL}]
           /\ limited' \subseteq [request : Requests, from : Times, to : Times]
<1>1. CASE Read(r)
  <2>1. CASE Leave(r, "413") /\ UNCHANGED left
    BY <1>1, <2>1, LeaveTyped DEF Read, TypeOK, gateVars, Threaded
  <2>2. CASE /\ left[r] > 0 /\ left' = [left EXCEPT ![r] = @ - 1]
             /\ UNCHANGED <<slots, stage, check, answer>>
    BY <1>1, <2>2 DEF Read, TypeOK, gateVars, Threaded
  <2>3. QED
    BY <1>1, <2>1, <2>2 DEF Read
<1>2. CASE HangUp(r)
  BY <1>2, LeaveTyped DEF HangUp, TypeOK, gateVars, Threaded
<1>3. CASE Authorize(r)
  <2>1. CASE /\ Enter(r, "check") /\ check' = [check EXCEPT ![r].at = now]
             /\ UNCHANGED <<slots, answer>>
    <3>1. check' \in [Requests -> [at : Times, recent : SUBSET Entry]]
      BY <2>1 DEF TypeOK
    <3>2. QED
      BY <1>3, <2>1, <3>1 DEF Authorize, TypeOK, gateVars, Threaded
  <2>2. CASE \E status \in {"400", "401"} : Leave(r, status)
    BY <1>3, <2>2, LeaveTyped DEF Authorize, TypeOK, gateVars, Threaded
  <2>3. QED
    BY <1>3, <2>1, <2>2 DEF Authorize
<1>4. CASE Check(r)
  <2> DEFINE recent == Recent(Sender[r], check[r].at)
  <2>0. recent \in SUBSET Entry /\ check' = [check EXCEPT ![r].recent = recent]
    BY <1>4, RecentTyped DEF Check
  <2> HIDE DEF recent
  <2>1. check' \in [Requests -> [at : Times, recent : SUBSET Entry]]
    BY <2>0 DEF TypeOK
  <2>2. QED
    BY <1>4, <2>1 DEF Check, TypeOK, gateVars, Threaded
<1>5. CASE Store(r)
  <2> DEFINE own == [by |-> r, at |-> check[r].at]
             d == [request |-> r, from |-> check[r].at, to |-> now]
  <2>1. /\ own \in Entry /\ own.at = check[r].at
        /\ d \in [request : Requests, from : Times, to : Times]
    BY RecentTyped DEF Entry, TypeOK
  <2>2. CASE /\ seen' = [seen EXCEPT ![Sender[r]] = check[r].recent]
             /\ limited' = limited \union {d}
             /\ Leave(r, "401")
             /\ UNCHANGED admittedAt
    BY <1>5, <2>1, <2>2, LeaveTyped, RecentTyped DEF Store, Verdict, TypeOK, Threaded
  <2>3. CASE /\ seen' = [seen EXCEPT ![Sender[r]] = check[r].recent \union {own}]
             /\ admittedAt' = [admittedAt EXCEPT ![r] = check[r].at]
             /\ Enter(r, "ingest")
             /\ UNCHANGED <<slots, check, answer, limited>>
    BY <1>5, <2>1, <2>3, RecentTyped DEF Store, Verdict, TypeOK, Threaded
  <2>4. QED
    BY <1>5, <2>1, <2>2, <2>3 DEF Store, Verdict
<1>6. CASE Ingest(r)
  BY <1>6, LeaveTyped DEF Ingest, TypeOK, gateVars, Threaded
<1>7. QED
  BY <1>1, <1>2, <1>3, <1>4, <1>5, <1>6 DEF Thread

LEMMA ThreadStep ==
    ASSUME LoopInv, NEW r \in Requests, Read(r) \/ HangUp(r) \/ Thread(r)
    PROVE  LoopInv'
<1>1. /\ SlotsKept' /\ QueuedOnce' /\ DownIsQuiet'
      /\ stage' \in [Requests -> Places] /\ slots' \in 0..pool'
  BY ThreadTyped, ThreadKeepsLoop DEF LoopInv
<1>2. TypeOK'
  BY <1>1, ThreadTyped DEF LoopInv, TypeOK, Places, loopVars
<1>3. QED
  BY <1>1, <1>2 DEF LoopInv

LEMMA LoopStep ==
    LoopInv /\ [Next]_vars => LoopInv'
<1> SUFFICES ASSUME LoopInv, [Next]_vars
             PROVE  LoopInv'
  OBVIOUS
<1> USE WebhookAssumption DEF gateVars
<1>b. /\ Len(backlog) \in Nat /\ DOMAIN backlog = 1..Len(backlog)
      /\ \A i \in DOMAIN backlog : backlog[i] \in Requests
  BY LenProperties, ElementOfSeq DEF LoopInv, TypeOK
<1>1. ASSUME NEW r \in Requests, Connect(r)
      PROVE  LoopInv'
  <2>1. /\ backlog' \in Seq(Requests) /\ Len(backlog') = Len(backlog) + 1
        /\ DOMAIN backlog' = 1..(Len(backlog) + 1)
        /\ \A i \in DOMAIN backlog : backlog'[i] = backlog[i]
        /\ backlog'[Len(backlog) + 1] = r
    BY <1>1, <1>b DEF Connect, LoopInv, TypeOK
  <2>2. TypeOK'
    BY <1>1, <2>1 DEF Connect, Enter, LoopInv, TypeOK
  <2>3. SlotsKept'
    <3>1. Threads' = Threads
      BY <1>1 DEF Connect, Enter, LoopInv, TypeOK, Threads, Threaded
    <3>2. QED
      BY <1>1, <3>1 DEF Connect, LoopInv, SlotsKept
  <2>4. QueuedOnce'
    <3>1. \A q \in Requests : stage[q] = "waiting" => q # r /\ stage'[q] = "waiting"
      BY <1>1 DEF Connect, Enter, LoopInv, TypeOK
    <3>2. stage'[r] = "waiting" /\ pending' = pending /\ pending # r
      BY <1>1, <3>1 DEF Connect, Enter, LoopInv, TypeOK, QueuedOnce
    <3>3. \A i \in DOMAIN backlog' : i \in DOMAIN backlog \/ i = Len(backlog) + 1
      BY <1>b, <2>1
    <3>4. \A i \in DOMAIN backlog : backlog[i] # r /\ Len(backlog) + 1 # i
      BY <1>b, <3>1 DEF LoopInv, QueuedOnce
    <3>5. pending' # NULL => stage'[pending'] = "waiting"
      BY <3>1, <3>2 DEF LoopInv, QueuedOnce, TypeOK
    <3>6. \A i \in DOMAIN backlog' : stage'[backlog'[i]] = "waiting" /\ backlog'[i] # pending'
      BY <1>b, <2>1, <3>1, <3>2, <3>3 DEF LoopInv, QueuedOnce
    <3>7. \A i, j \in DOMAIN backlog' : backlog'[i] = backlog'[j] => i = j
      BY <1>b, <2>1, <3>3, <3>4 DEF LoopInv, QueuedOnce
    <3>8. QED
      BY <3>5, <3>6, <3>7 DEF QueuedOnce
  <2>5. DownIsQuiet'
    BY <1>1 DEF Connect, DownIsQuiet
  <2>6. QED
    BY <2>2, <2>3, <2>4, <2>5 DEF LoopInv
<1>2. CASE Accept
  <2>1. /\ Head(backlog) = backlog[1] /\ 1 \in DOMAIN backlog
        /\ backlog' \in Seq(Requests) /\ DOMAIN backlog' = 1..(Len(backlog) - 1)
        /\ \A i \in DOMAIN backlog' : i + 1 \in DOMAIN backlog /\ backlog'[i] = backlog[i + 1]
    BY <1>2, <1>b, HeadTailProperties, EmptySeq, LenProperties DEF Accept, LoopInv, TypeOK
  <2>2. pending' = backlog[1] /\ pending' \in Requests
    BY <1>2, <1>b, <2>1 DEF Accept
  <2>3. TypeOK'
    BY <1>2, <2>1, <2>2 DEF Accept, LoopInv, TypeOK
  <2>4. SlotsKept'
    BY <1>2 DEF Accept, LoopInv, SlotsKept, Threads
  <2>5. QueuedOnce'
    BY <1>2, <1>b, <2>1, <2>2 DEF Accept, LoopInv, QueuedOnce
  <2>6. QED
    BY <1>2, <2>3, <2>4, <2>5 DEF Accept, LoopInv, DownIsQuiet
<1>3. CASE Start
  <2>1. /\ pending \in Requests /\ stage[pending] = "waiting" /\ pending \notin Threads
        /\ pending' = NULL /\ slots > 0
        /\ UNCHANGED <<pool, now, server, restarts, backlog, left, check, gateVars>>
    BY <1>3 DEF Start, LoopInv, TypeOK, QueuedOnce, Threads, Threaded
  <2>2. TypeOK'
    <3>1. slots' \in 0..pool'
      BY <1>3, <2>1 DEF Start, LoopInv, TypeOK
    <3>2. stage' \in [Requests -> Places]
      BY <1>3, <2>1 DEF Start, Enter, LoopInv, TypeOK, Threaded, Places
    <3>3. answer' \in [Requests -> {"none", "dropped", "202", "400", "401", "413"}]
      BY <1>3, <2>1 DEF Start, LoopInv, TypeOK
    <3>4. QED
      BY <2>1, <3>1, <3>2, <3>3 DEF LoopInv, TypeOK, Places
  <2>3. SlotsKept'
    <3>1. CASE Enter(pending, "reading") /\ slots' = slots - 1
      <4>1. Threads' = Threads \union {pending}
        BY <2>1, <3>1 DEF Enter, LoopInv, TypeOK, Threads, Threaded
      <4>2. /\ IsFiniteSet(Threads \union {pending})
            /\ Cardinality(Threads \union {pending}) = Cardinality(Threads) + 1
            /\ Cardinality(Threads) \in Nat
        BY <2>1, FS_AddElement, FS_CardinalityType DEF LoopInv, SlotsKept
      <4>3. QED
        BY <2>1, <3>1, <4>1, <4>2 DEF LoopInv, SlotsKept, TypeOK
    <3>2. CASE Enter(pending, "over") /\ slots' = slots
      <4>1. Threads' = Threads
        BY <2>1, <3>2 DEF Enter, LoopInv, TypeOK, Threads, Threaded
      <4>2. QED
        BY <2>1, <3>2, <4>1 DEF LoopInv, SlotsKept
    <3>3. QED
      BY <1>3, <3>1, <3>2 DEF Start
  <2>4. \A q \in Requests : q # pending => stage'[q] = stage[q]
    BY <1>3, <2>1 DEF Start, Enter, LoopInv, TypeOK
  <2>5. QueuedOnce'
    BY <1>b, <2>1, <2>4 DEF LoopInv, QueuedOnce
  <2>6. QED
    BY <2>1, <2>2, <2>3, <2>5 DEF LoopInv, DownIsQuiet
<1>4. CASE Stop \/ Tick
  <2>1. TypeOK'
    <3>1. now' \in Times
      BY <1>4 DEF Stop, Tick, LoopInv, TypeOK, Times
    <3>2. QED
      BY <1>4, <3>1 DEF Stop, Tick, loopVars, LoopInv, TypeOK
  <2>2. UNCHANGED <<pool, stage, slots, pending, backlog>> /\ (server' = "down" => server = "down")
    BY <1>4 DEF Stop, Tick, loopVars
  <2>3. QED
    BY <2>1, <2>2 DEF LoopInv, SlotsKept, Threads, QueuedOnce, DownIsQuiet
<1>5. CASE Exit
  <2>1. \A r \in Requests : stage'[r] \in {"new", "over"}
    BY <1>5 DEF Exit, LoopInv, TypeOK
  <2>2. TypeOK'
    <3>1. NoCheck \in [at : Times, recent : SUBSET Entry]
      BY DEF NoCheck, Times
    <3>2. QED
      BY <1>5, <3>1 DEF Exit, LoopInv, TypeOK, Threaded
  <2>3. SlotsKept'
    <3>1. Threads' = {}
      BY <2>1 DEF Threads, Threaded
    <3>2. QED
      BY <1>5, <3>1, FS_EmptySet DEF Exit, SlotsKept, LoopInv, TypeOK
  <2>4. QED
    BY <1>5, <2>1, <2>2, <2>3 DEF Exit, LoopInv, QueuedOnce, DownIsQuiet
<1>6. CASE Restart
  BY <1>6 DEF Restart, LoopInv, TypeOK, SlotsKept, Threads, QueuedOnce, DownIsQuiet
<1>7. CASE UNCHANGED vars
  BY <1>7 DEF vars, loopVars, LoopInv, TypeOK, SlotsKept, Threads, QueuedOnce, DownIsQuiet
<1>8. QED
  BY <1>1, <1>2, <1>3, <1>4, <1>5, <1>6, <1>7, ThreadStep DEF Next, Loop

LEMMA LoopInit == Init => LoopInv
<1> SUFFICES ASSUME Init PROVE LoopInv
  OBVIOUS
<1>1. NoCheck \in [at : Times, recent : SUBSET Entry]
  BY WebhookAssumption DEF NoCheck, Times
<1>2. TypeOK
  BY <1>1, WebhookAssumption DEF Init, TypeOK, Times
<1>3. Threads = {}
  BY DEF Init, Threads, Threaded
<1>4. SlotsKept
  BY <1>3, FS_EmptySet DEF Init, SlotsKept
<1>5. QED
  BY <1>2, <1>4 DEF Init, LoopInv, QueuedOnce, DownIsQuiet

\* Requests, lists and slots of the server stay well-formed, and the accept
\* loop, the threads and stop() never lose a slot or give one back twice: the
\* semaphore counts what no living thread holds.
THEOREM SlotsCorrect == Spec => [](TypeOK /\ SlotsKept)
<1>1. LoopInv => TypeOK /\ SlotsKept
  BY DEF LoopInv
<1>2. QED
  BY <1>1, LoopInit, LoopStep, PTL DEF Spec

-----------------------------------------------------------------------------
(* The rate limiter                                                        *)

Admitted == {q \in Requests : admittedAt[q] # NULL}

\* The entries of a list are requests of its sender that passed, each with
\* the moment of its check, whichever threads wrote over each other.
Genuine(entries, s) ==
    /\ IsFiniteSet(entries)
    /\ \A e \in entries : Sender[e.by] = s /\ admittedAt[e.by] = e.at

GenuineEntries ==
    /\ \A s \in Senders : Genuine(seen[s], s)
    /\ \A r \in Requests : Genuine(check[r].recent, Sender[r])

Dated ==
    /\ IsFiniteSet(Admitted)
    /\ \A q \in Admitted : admittedAt[q] <= now
    /\ \A r \in Requests : stage[r] \notin {"ingest", "over"} => admittedAt[r] = NULL
    /\ \A r \in Requests : stage[r] \in {"check", "store"} => check[r].at <= now
    /\ \A r \in Requests : stage[r] = "store" =>
            \A e \in check[r].recent : e.at + Window > check[r].at

LimiterInv == GenuineEntries /\ Dated /\ LimitedIsEarned

LEMMA WithinFinite ==
    ASSUME Dated, NEW r, NEW t \in Times, NEW later \in Times
    PROVE  /\ IsFiniteSet(AdmittedWithin(r, t, later))
           /\ Cardinality(AdmittedWithin(r, t, later)) \in Nat
<1>1. AdmittedWithin(r, t, later) \subseteq Admitted
  BY WebhookAssumption DEF AdmittedWithin, Admitted, Times
<1>2. QED
  BY <1>1, FS_Subset, FS_CardinalityType DEF Dated

\* Whoever was admitted stays admitted: what is earned stays earned.
LEMMA EarnedStays ==
    ASSUME TypeOK, Dated', LimitedIsEarned,
           \A q \in Admitted : admittedAt'[q] = admittedAt[q],
           NEW d \in limited
    PROVE  Cardinality(AdmittedWithin(d.request, d.from, d.to))' >= Limit
<1> DEFINE W == AdmittedWithin(d.request, d.from, d.to)
<1>1. d.from \in Times /\ d.to \in Times
  BY DEF TypeOK
<1>2. IsFiniteSet(W') /\ Cardinality(W') \in Nat
  <2>1. W' \subseteq Admitted'
    BY <1>1, WebhookAssumption DEF AdmittedWithin, Admitted, Times
  <2>2. QED
    BY <2>1, FS_Subset, FS_CardinalityType DEF Dated
<1>3. W \subseteq W'
  BY <1>1, WebhookAssumption DEF AdmittedWithin, Admitted, Times
<1>4. Cardinality(W) >= Limit
  BY DEF LimitedIsEarned
<1> HIDE DEF W
<1>5. IsFiniteSet(W) /\ Cardinality(W) <= Cardinality(W') /\ Cardinality(W) \in Nat
  BY <1>2, <1>3, FS_Subset, FS_CardinalityType
<1>6. QED
  BY <1>2, <1>4, <1>5, WebhookAssumption DEF W

\* A step at which no check reads or stores a list: the clock may go on, a
\* request may go where it was not admitted yet or end, and may begin a check.
Unrelated(r) ==
    /\ check'[r].recent \in {check[r].recent, {}}
    /\ stage[r] \in {"ingest", "over"} => stage'[r] \in {"ingest", "over"}
    /\ \/ stage'[r] \notin {"check", "store"}
       \/ stage'[r] = stage[r] /\ check'[r] = check[r]
       \/ stage'[r] = "check" /\ check'[r].at = now

LEMMA UnrelatedKeepsLimiter ==
    ASSUME LoopInv, LoopInv', LimiterInv, UNCHANGED <<admittedAt, limited>>, now <= now',
           seen' = seen \/ (\A s \in Senders : seen'[s] = {}),
           \A r \in Requests : Unrelated(r)
    PROVE  LimiterInv'
<1> USE DEF LoopInv, LimiterInv
<1>1. GenuineEntries'
  <2>1. \A s : Genuine({}, s)'
    BY FS_EmptySet DEF Genuine
  <2>2. \A s \in Senders : Genuine(seen[s], s)'
    BY <2>1 DEF GenuineEntries, Genuine
  <2>3. \A r \in Requests : Genuine(check[r].recent, Sender[r])'
    BY <2>1 DEF GenuineEntries, Genuine, Unrelated
  <2>4. QED
    BY <2>2, <2>3 DEF GenuineEntries
<1>2. Dated'
  <2>1. Admitted' = Admitted /\ \A q \in Admitted : admittedAt[q] \in Times
    BY DEF Admitted, TypeOK
  <2>2. now \in Int /\ now' \in Int
    BY WebhookAssumption DEF TypeOK, Times
  <2>3. \A q \in Admitted' : admittedAt'[q] <= now'
    BY <2>1, <2>2, WebhookAssumption DEF Dated, Times
  <2>4. \A r \in Requests : stage'[r] \notin {"ingest", "over"} => admittedAt'[r] = NULL
    BY DEF Dated, Unrelated
  <2>5. ASSUME NEW r \in Requests
        PROVE  stage'[r] \in {"check", "store"} => check'[r].at <= now'
    <3>1. check[r].at \in Int
      BY WebhookAssumption DEF TypeOK, Times
    <3>2. QED
      BY <2>2, <3>1 DEF Dated, Unrelated
  <2>6. \A r \in Requests : stage'[r] = "store" =>
            \A e \in check'[r].recent : e.at + Window > check'[r].at
    BY DEF Dated, Unrelated
  <2>7. QED
    BY <2>1, <2>3, <2>4, <2>5, <2>6 DEF Dated
<1>3. LimitedIsEarned'
  BY <1>2, EarnedStays DEF LimitedIsEarned
<1>4. QED
  BY <1>1, <1>2, <1>3

LEMMA CheckKeepsLimiter ==
    ASSUME LoopInv, LoopInv', LimiterInv, NEW r \in Requests, Check(r)
    PROVE  LimiterInv'
<1> USE DEF LoopInv, LimiterInv
<1> DEFINE recent == Recent(Sender[r], check[r].at)
<1>1. /\ stage[r] = "check" /\ Enter(r, "store") /\ UNCHANGED <<now, gateVars>>
      /\ check' = [check EXCEPT ![r].recent = recent]
  BY DEF Check
<1>2. /\ recent \subseteq seen[Sender[r]] /\ Sender[r] \in Senders
      /\ \A e \in recent : e.at + Window > check[r].at
  BY WebhookAssumption DEF Recent, TypeOK
<1> HIDE DEF recent
<1>3. \A q \in Requests : /\ q # r => check'[q] = check[q] /\ stage'[q] = stage[q]
                          /\ check'[q].at = check[q].at
  BY <1>1 DEF Enter, TypeOK
<1>4. check'[r].recent = recent /\ stage'[r] = "store"
  BY <1>1 DEF Enter, TypeOK
<1>5. Genuine(recent, Sender[r])
  BY <1>2, FS_Subset DEF GenuineEntries, Genuine
<1>6. GenuineEntries'
  BY <1>1, <1>3, <1>4, <1>5 DEF GenuineEntries, Genuine, gateVars
<1>7. Dated'
  <2>1. Admitted' = Admitted
    BY <1>1 DEF Admitted, gateVars
  <2>2. QED
    BY <1>1, <1>2, <1>3, <1>4, <2>1 DEF Dated, gateVars
<1>8. LimitedIsEarned'
  BY <1>1, <1>7, EarnedStays DEF LimitedIsEarned, gateVars
<1>9. QED
  BY <1>6, <1>7, <1>8

\* The requests behind Limit entries are Limit requests.
LEMMA RefusedIsEarned ==
    ASSUME LoopInv, LimiterInv, NEW r \in Requests, stage[r] = "store",
           Cardinality(check[r].recent) >= Limit
    PROVE  Cardinality(AdmittedWithin(r, check[r].at, now)) >= Limit
<1> USE DEF LoopInv, LimiterInv
<1> DEFINE recent == check[r].recent
           within == AdmittedWithin(r, check[r].at, now)
           f == [e \in recent |-> e.by]
<1>1. check[r].at \in Times /\ now \in Times /\ recent \subseteq Entry
  BY DEF TypeOK
<1>2. IsFiniteSet(within) /\ Cardinality(within) \in Nat
  BY <1>1, WithinFinite
<1>3. ASSUME NEW e \in recent
      PROVE  e.by \in within
  <2>1. /\ e.by \in Requests /\ e.at \in Times /\ Sender[e.by] = Sender[r]
        /\ admittedAt[e.by] = e.at /\ e.at + Window > check[r].at
    BY <1>1 DEF Entry, GenuineEntries, Genuine, Dated
  <2>2. e.by \in Admitted
    BY <2>1, WebhookAssumption DEF Admitted, Times
  <2>3. e.at <= now
    BY <2>1, <2>2 DEF Dated
  <2>4. e.at \in (IF check[r].at < Window THEN 0 ELSE check[r].at + 1 - Window)..now
    BY <1>1, <2>1, <2>3, WebhookAssumption DEF Times
  <2>5. QED
    BY <2>1, <2>4 DEF AdmittedWithin
<1>4. \A e1, e2 \in recent : e1.by = e2.by => e1 = e2
  BY <1>1 DEF Entry, GenuineEntries, Genuine
<1> HIDE DEF within, recent
<1>5. f \in Injection(recent, within)
  BY <1>3, <1>4 DEF Injection, IsInjective
<1>6. Cardinality(recent) <= Cardinality(within) /\ IsFiniteSet(recent)
  BY <1>2, <1>5, FS_Injection
<1>7. Cardinality(recent) \in Nat
  BY <1>6, FS_CardinalityType
<1>8. QED
  BY <1>2, <1>6, <1>7, WebhookAssumption DEF recent, within

\* The two ends of a check.
Refused(r) ==
    /\ Cardinality(check[r].recent) >= Limit
    /\ seen' = [seen EXCEPT ![Sender[r]] = check[r].recent]
    /\ limited' = limited \union {[request |-> r, from |-> check[r].at, to |-> now]}
    /\ Enter(r, "over") /\ check' = [check EXCEPT ![r] = NoCheck]
    /\ UNCHANGED admittedAt

Passed(r) ==
    /\ Cardinality(check[r].recent) < Limit
    /\ seen' = [seen EXCEPT ![Sender[r]] =
                    check[r].recent \union {[by |-> r, at |-> check[r].at]}]
    /\ admittedAt' = [admittedAt EXCEPT ![r] = check[r].at]
    /\ Enter(r, "ingest")
    /\ UNCHANGED <<check, limited>>

LEMMA StoreEnds ==
    ASSUME NEW r \in Requests, Store(r)
    PROVE  stage[r] = "store" /\ UNCHANGED <<now, pool, loopVars>> /\ (Refused(r) \/ Passed(r))
BY DEF Store, Verdict, Refused, Passed, Leave

LEMMA StoreKeepsLimiter ==
    ASSUME LoopInv, LoopInv', LimiterInv, NEW r \in Requests, Store(r)
    PROVE  LimiterInv'
<1> USE DEF LoopInv, LimiterInv
<1> DEFINE recent == check[r].recent
           own == [by |-> r, at |-> check[r].at]
           s == Sender[r]
<1>1. stage[r] = "store" /\ UNCHANGED now /\ (Refused(r) \/ Passed(r))
  BY StoreEnds
<1>2. /\ check[r].at \in Times /\ now \in Times /\ recent \in SUBSET Entry /\ s \in Senders
      /\ own \in Entry /\ own.by = r /\ own.at = check[r].at
  BY WebhookAssumption DEF TypeOK, Entry
<1>3. Genuine(recent, s)
  BY DEF GenuineEntries
<1>4. admittedAt[r] = NULL /\ check[r].at <= now
  BY <1>1 DEF Dated
<1>5. /\ \A q \in Requests : q # r => stage'[q] = stage[q] /\ check'[q] = check[q]
      /\ stage'[r] \in {"ingest", "over"}
      /\ \A q \in Admitted : admittedAt'[q] = admittedAt[q] /\ q # r
      /\ check'[r].recent \in {recent, {}}
  BY <1>1, <1>4 DEF Refused, Passed, Enter, TypeOK, Admitted, NoCheck
<1>6. \A q \in Requests : admittedAt'[q] = admittedAt[q] \/ (q = r /\ admittedAt'[q] = check[r].at)
  BY <1>1 DEF Refused, Passed, TypeOK
<1> HIDE DEF own, s
<1>7. GenuineEntries'
  <2> DEFINE Stays(entries, z) ==
                 /\ IsFiniteSet(entries)
                 /\ \A e \in entries : Sender[e.by] = z /\ admittedAt'[e.by] = e.at
  <2>1. ASSUME NEW entries \in SUBSET Entry, NEW z, Genuine(entries, z)
        PROVE  Stays(entries, z)
    <3>1. \A e \in entries : e.by \in Requests /\ e.at \in Times /\ admittedAt[e.by] = e.at
      BY <2>1 DEF Genuine, Entry
    <3>2. \A e \in entries : e.by \in Admitted
      BY <3>1, WebhookAssumption DEF Admitted, Times
    <3>3. QED
      BY <1>5, <2>1, <3>1, <3>2 DEF Genuine
  <2>2. Stays({}, s)
    BY FS_EmptySet
  <2>3. seen'[s] = recent \/ (Passed(r) /\ seen'[s] = recent \union {own})
    BY <1>1, <1>2 DEF Refused, Passed, TypeOK, own, s
  <2>4. \A z \in Senders : z # s => seen'[z] = seen[z]
    BY <1>1 DEF Refused, Passed, TypeOK, s
  <2>5. Passed(r) => Stays(recent \union {own}, s)
    <3>1. Passed(r) => admittedAt'[r] = own.at
      BY <1>2 DEF Passed, TypeOK
    <3>2. Stays(recent, s)
      BY <1>2, <1>3, <2>1
    <3>3. IsFiniteSet(recent \union {own})
      BY <3>2, FS_AddElement
    <3>4. Sender[own.by] = s
      BY <1>2 DEF s
    <3> HIDE DEF recent
    <3>5. QED
      BY <1>2, <3>1, <3>2, <3>3, <3>4
  <2>6. \A z \in Senders : Stays(seen'[z], z)
    <3>1. \A z \in Senders : seen[z] \in SUBSET Entry /\ Genuine(seen[z], z)
      BY DEF TypeOK, GenuineEntries
    <3>2. Stays(recent, s)
      BY <1>2, <1>3, <2>1
    <3>3. Stays(seen'[s], s)
      BY <2>3, <2>5, <3>2
    <3> HIDE DEF Stays
    <3>4. \A z \in Senders : z # s => Stays(seen'[z], z)
      BY <2>1, <2>4, <3>1
    <3>5. QED
      BY <3>3, <3>4
  <2>7. \A q \in Requests : Stays(check'[q].recent, Sender[q])
    <3> HIDE DEF Stays
    <3>1. \A q \in Requests : check[q].recent \in SUBSET Entry /\ Genuine(check[q].recent, Sender[q])
      BY DEF TypeOK, GenuineEntries
    <3>2. \A q \in Requests : Stays(check[q].recent, Sender[q])
      BY <2>1, <3>1
    <3>3. QED
      BY <1>5, <2>2, <3>2 DEF s
  <2>8. QED
    BY <2>6, <2>7 DEF GenuineEntries, Genuine
<1>8. Dated'
  <2>1. Admitted' \subseteq Admitted \union {r}
    BY <1>6 DEF Admitted
  <2>2. IsFiniteSet(Admitted')
    <3>1. IsFiniteSet(Admitted \union {r})
      BY FS_AddElement DEF Dated
    <3>2. QED
      BY <2>1, <3>1, FS_Subset
  <2>3. \A q \in Admitted' : admittedAt'[q] <= now'
    BY <1>1, <1>4, <1>6, <2>1 DEF Dated, Admitted
  <2>4. QED
    BY <1>1, <1>5, <1>6, <2>2, <2>3 DEF Dated
<1>9. LimitedIsEarned'
  <2>1. \A d \in limited : Cardinality(AdmittedWithin(d.request, d.from, d.to))' >= Limit
    BY <1>5, <1>8, EarnedStays
  <2>2. CASE Passed(r)
    BY <2>1, <2>2 DEF Passed, LimitedIsEarned
  <2>3. CASE Refused(r)
    <3>1. PICK from \in Times, to \in Times : from = check[r].at /\ to = now
      BY <1>2
    <3>2. Cardinality(AdmittedWithin(r, from, to)) >= Limit
      BY <1>1, <2>3, <3>1, RefusedIsEarned DEF Refused
    <3>3. AdmittedWithin(r, from, to)' = AdmittedWithin(r, from, to)
      BY <2>3 DEF Refused, AdmittedWithin
    <3>4. limited' = limited \union {[request |-> r, from |-> from, to |-> to]}
      BY <2>3, <3>1 DEF Refused
    <3>5. QED
      BY <2>1, <3>2, <3>3, <3>4 DEF LimitedIsEarned
  <2>4. QED
    BY <1>1, <2>2, <2>3
<1>10. QED
  BY <1>7, <1>8, <1>9

\* All the other steps.
LEMMA OthersUnrelated ==
    ASSUME LoopInv, LoopInv',
           \/ Loop \/ Stop \/ Exit \/ Restart \/ Tick \/ UNCHANGED vars
           \/ \E r \in Requests : Connect(r) \/ Read(r) \/ HangUp(r) \/ Authorize(r) \/ Ingest(r)
    PROVE  /\ UNCHANGED <<admittedAt, limited>> /\ now <= now'
           /\ seen' = seen \/ (\A s \in Senders : seen'[s] = {})
           /\ \A r \in Requests : Unrelated(r)
<1> USE DEF gateVars, loopVars, Unrelated
<1>n. now \in Int
  BY WebhookAssumption DEF LoopInv, TypeOK, Times
<1>i. NoCheck.recent = {}
  BY DEF NoCheck
<1>1. CASE Stop \/ Restart \/ Tick \/ UNCHANGED vars
  BY <1>1, <1>n DEF Stop, Restart, Tick, vars
<1>2. CASE Exit
  <2>1. \A r \in Requests : check'[r].recent = {} /\ stage'[r] \in {"new", "over"}
                            /\ (stage'[r] = "new" => stage[r] = "new")
    BY <1>2, <1>i DEF Exit
  <2>2. QED
    BY <1>2, <1>n, <2>1 DEF Exit
<1>3. CASE Loop
  <2>1. CASE Accept
    BY <1>n, <2>1 DEF Accept
  <2>2. CASE Start
    <3>1. pending \in Requests /\ stage[pending] = "waiting"
      BY <2>2 DEF Start, LoopInv, TypeOK, QueuedOnce
    <3>2. /\ stage'[pending] \in {"reading", "over"}
          /\ \A q \in Requests : q # pending => stage'[q] = stage[q]
      BY <2>2, <3>1 DEF Start, Enter, LoopInv, TypeOK
    <3>3. UNCHANGED <<now, check, gateVars>>
      BY <2>2 DEF Start
    <3>4. QED
      BY <1>n, <3>1, <3>2, <3>3
  <2>3. QED
    BY <1>3, <2>1, <2>2 DEF Loop
<1>4. ASSUME NEW r \in Requests, Connect(r)
      PROVE  /\ UNCHANGED <<admittedAt, limited, seen, now>>
             /\ \A q \in Requests : Unrelated(q)
  BY <1>4 DEF Connect, Enter, LoopInv, TypeOK
<1>5. ASSUME NEW r \in Requests, Read(r) \/ HangUp(r) \/ Authorize(r) \/ Ingest(r)
      PROVE  /\ UNCHANGED <<admittedAt, limited, seen, now>>
             /\ \A q \in Requests : Unrelated(q)
  <2>1. UNCHANGED <<admittedAt, limited, seen, now>>
    BY <1>5 DEF Read, HangUp, Authorize, Ingest
  <2>2. CASE \E status : Leave(r, status)
    <3>1. \A q \in Requests : q # r => stage'[q] = stage[q] /\ check'[q] = check[q]
      BY <2>2 DEF Leave, Enter, LoopInv, TypeOK
    <3>2. check'[r].recent = {} /\ stage'[r] = "over"
      BY <1>i, <2>2 DEF Leave, Enter, LoopInv, TypeOK
    <3>3. QED
      BY <2>1, <3>1, <3>2
  <2>3. CASE UNCHANGED <<stage, check>>
    BY <2>1, <2>3
  <2>4. CASE stage[r] = "reading" /\ Enter(r, "check") /\ check' = [check EXCEPT ![r].at = now]
    <3>1. \A q \in Requests : q # r => stage'[q] = stage[q] /\ check'[q] = check[q]
      BY <2>4 DEF Enter, LoopInv, TypeOK
    <3>2. check'[r].recent = check[r].recent /\ check'[r].at = now /\ stage'[r] = "check"
      BY <2>4 DEF Enter, LoopInv, TypeOK
    <3>3. QED
      BY <2>1, <2>4, <3>1, <3>2
  <2>5. QED
    BY <1>5, <2>2, <2>3, <2>4 DEF Read, HangUp, Authorize, Ingest
<1>6. QED
  BY <1>1, <1>2, <1>3, <1>4, <1>5, <1>n

LEMMA LimiterStep ==
    LoopInv /\ LoopInv' /\ LimiterInv /\ [Next]_vars => LimiterInv'
<1> SUFFICES ASSUME LoopInv, LoopInv', LimiterInv, [Next]_vars
             PROVE  LimiterInv'
  OBVIOUS
<1>1. CASE \E r \in Requests : Check(r)
  BY <1>1, CheckKeepsLimiter
<1>2. CASE \E r \in Requests : Store(r)
  BY <1>2, StoreKeepsLimiter
<1>3. CASE \/ Loop \/ Stop \/ Exit \/ Restart \/ Tick \/ UNCHANGED vars
           \/ \E r \in Requests : Connect(r) \/ Read(r) \/ HangUp(r) \/ Authorize(r) \/ Ingest(r)
  BY <1>3, OthersUnrelated, UnrelatedKeepsLimiter
<1>4. QED
  BY <1>1, <1>2, <1>3 DEF Next, Thread

LEMMA LimiterInit == Init => LimiterInv
<1> SUFFICES ASSUME Init PROVE LimiterInv
  OBVIOUS
<1>1. Admitted = {}
  BY DEF Init, Admitted
<1>2. \A r \in Requests : check[r].recent = {} /\ stage[r] = "new" /\ admittedAt[r] = NULL
  BY DEF Init, NoCheck
<1>3. GenuineEntries
  BY <1>2, FS_EmptySet DEF Init, GenuineEntries, Genuine
<1>4. Dated
  BY <1>1, <1>2, FS_EmptySet DEF Dated
<1>5. LimitedIsEarned
  BY DEF Init, LimitedIsEarned
<1>6. QED
  BY <1>3, <1>4, <1>5 DEF LimiterInv

\* RateLimiter.check, without a lock between reading and storing a list: a
\* sender is refused only when Limit of their requests passed in the window,
\* for any number of threads, senders and processes that follow each other.
THEOREM LimitedCorrect == Spec => []LimitedIsEarned
<1>1. LimiterInv => LimitedIsEarned
  BY DEF LimiterInv
<1>2. QED
  BY <1>1, LoopInit, LoopStep, LimiterInit, LimiterStep, PTL DEF Spec

-----------------------------------------------------------------------------
(* The rate, when one thread does the checks                               *)

\* Whoever passed is still listed, unless that was a window ago.
Kept(q, entries, at) ==
    [by |-> q, at |-> admittedAt[q]] \in entries \/ admittedAt[q] + Window <= at

\* What the thread that checks goes by: nobody passed after it read the
\* clock, and its list lacks nobody who counts.
Remembered ==
    pool = 1 /\ restarts = 0 =>
        /\ server # "down" => \A q \in Admitted : Kept(q, seen[Sender[q]], now)
        /\ \A r \in Requests, q \in Admitted :
            /\ stage[r] \in {"check", "store"} => admittedAt[q] <= check[r].at
            /\ stage[r] = "check" /\ Sender[q] = Sender[r] => Kept(q, seen[Sender[r]], check[r].at)
            /\ stage[r] = "store" /\ Sender[q] = Sender[r] => Kept(q, check[r].recent, check[r].at)

LEMMA OneThread ==
    ASSUME LoopInv, pool = 1, NEW r \in Threads, NEW q \in Threads
    PROVE  r = q
<1>1. IsFiniteSet(Threads) /\ Cardinality(Threads) \in Nat
  BY FS_CardinalityType DEF LoopInv, SlotsKept
<1>2. Cardinality(Threads) <= 1
  BY <1>1 DEF LoopInv, SlotsKept, TypeOK
<1>3. QED
  BY <1>1, <1>2, OneElement

RateInv == Remembered /\ RateBound

LEMMA UnrelatedKeepsRate ==
    ASSUME LoopInv, LoopInv', LimiterInv, RateInv, UNCHANGED <<pool, admittedAt>>, now <= now',
           \/ restarts' # 0
           \/ restarts' = restarts /\ server' = "down"
           \/ restarts' = restarts /\ seen' = seen /\ (server = "down" => server' = "down"),
           \A r \in Requests : Unrelated(r)
    PROVE  RateInv'
<1> USE DEF LoopInv, RateInv
<1> SUFFICES ASSUME pool = 1, restarts' = 0
             PROVE  RateInv'
  BY DEF Remembered, RateBound
<1>1. restarts = 0 /\ (seen' = seen \/ server' = "down") /\ (server' # "down" => server # "down")
  OBVIOUS
<1>2. Admitted' = Admitted /\ \A q \in Admitted : admittedAt[q] \in Times
  BY DEF Admitted, TypeOK
<1>3. RateBound'
  BY <1>1 DEF RateBound, AdmittedWithin
<1>4. ASSUME server' # "down", NEW q \in Admitted
      PROVE  Kept(q, seen[Sender[q]], now)'
  <2>1. Kept(q, seen[Sender[q]], now)
    BY <1>1, <1>4 DEF Remembered
  <2>2. now \in Int /\ now' \in Int /\ admittedAt[q] \in Int /\ Window \in Int
    BY <1>2, WebhookAssumption DEF TypeOK, Times
  <2>3. QED
    BY <1>1, <1>4, <2>1, <2>2 DEF Kept
<1>5. ASSUME NEW r \in Requests, NEW q \in Admitted
      PROVE  /\ stage'[r] \in {"check", "store"} => admittedAt'[q] <= check'[r].at
             /\ stage'[r] = "check" /\ Sender[q] = Sender[r] => Kept(q, seen[Sender[r]], check[r].at)'
             /\ stage'[r] = "store" /\ Sender[q] = Sender[r] => Kept(q, check[r].recent, check[r].at)'
  <2>1. CASE stage'[r] \notin {"check", "store"}
    BY <2>1
  <2>2. CASE stage'[r] \in {"check", "store"}
    <3>1. server' # "down" /\ seen' = seen
      BY <1>1, <2>2 DEF DownIsQuiet
    <3>2. CASE stage'[r] = stage[r] /\ check'[r] = check[r]
      BY <1>1, <3>1, <3>2 DEF Remembered, Kept
    <3>3. CASE stage'[r] = "check" /\ check'[r].at = now
      BY <1>1, <3>1, <3>3 DEF Remembered, Kept, LimiterInv, Dated
    <3>4. QED
      BY <2>2, <3>2, <3>3 DEF Unrelated
  <2>3. QED
    BY <2>1, <2>2
<1>6. QED
  BY <1>2, <1>3, <1>4, <1>5 DEF Remembered

LEMMA CheckKeepsRate ==
    ASSUME LoopInv, LimiterInv, RateInv, NEW r \in Requests, Check(r)
    PROVE  RateInv'
<1> USE DEF LoopInv, RateInv
<1>1. UNCHANGED <<pool, now, server, restarts, gateVars>> /\ stage[r] = "check"
  BY DEF Check, loopVars
<1> SUFFICES ASSUME pool = 1, restarts = 0
             PROVE  RateInv'
  BY <1>1 DEF Remembered, RateBound
<1>2. Admitted' = Admitted /\ \A q \in Admitted : admittedAt[q] \in Times
  BY <1>1 DEF Admitted, TypeOK, gateVars
<1>3. RateBound'
  BY <1>1 DEF RateBound, AdmittedWithin, gateVars
<1>4. /\ \A q \in Requests : q # r => check'[q] = check[q] /\ stage'[q] = stage[q]
      /\ check'[r].at = check[r].at /\ stage'[r] = "store"
      /\ check'[r].recent = Recent(Sender[r], check[r].at)
  <2> DEFINE recent == Recent(Sender[r], check[r].at)
  <2>1. check' = [check EXCEPT ![r].recent = recent] /\ Enter(r, "store")
    BY DEF Check
  <2> HIDE DEF recent
  <2>2. /\ \A q \in Requests : q # r => check'[q] = check[q] /\ stage'[q] = stage[q]
        /\ check'[r].at = check[r].at /\ stage'[r] = "store" /\ check'[r].recent = recent
    BY <2>1 DEF Enter, TypeOK
  <2>3. QED
    BY <2>2 DEF recent
<1>5. ASSUME NEW q \in Admitted, Sender[q] = Sender[r]
      PROVE  Kept(q, check[r].recent, check[r].at)'
  <2> DEFINE e == [by |-> q, at |-> admittedAt[q]]
  <2>1. e \in seen[Sender[r]] \/ admittedAt[q] + Window <= check[r].at
    BY <1>1, <1>5 DEF Remembered, Kept
  <2>2. admittedAt[q] \in Int /\ check[r].at \in Int /\ Window \in Int /\ e.at = admittedAt[q]
    BY <1>2, WebhookAssumption DEF TypeOK, Times
  <2>3. e \in Recent(Sender[r], check[r].at) \/ admittedAt[q] + Window <= check[r].at
    BY <2>1, <2>2 DEF Recent
  <2>4. QED
    BY <1>1, <1>4, <2>3 DEF Kept, gateVars
<1>6. Remembered'
  BY <1>1, <1>2, <1>4, <1>5 DEF Remembered, Kept, gateVars
<1>7. QED
  BY <1>3, <1>6

\* One more passes when fewer than Limit are listed: with it, Limit at most.
LEMMA PassedKeepsBound ==
    ASSUME LoopInv, LimiterInv, Remembered, pool = 1, restarts = 0,
           NEW r \in Requests, stage[r] = "store", Passed(r),
           NEW at \in Times, at = check[r].at
    PROVE  Cardinality(AdmittedWithin(r, at, at)') <= Limit
<1> USE DEF LoopInv, LimiterInv
<1> DEFINE recent == check[r].recent
           own == [by |-> r, at |-> at]
           within == AdmittedWithin(r, at, at)'
           f == [q \in within |-> [by |-> q, at |-> admittedAt'[q]]]
<1>1. IsFiniteSet(recent) /\ Cardinality(recent) \in Nat
  BY FS_CardinalityType DEF GenuineEntries, Genuine
<1>2. IsFiniteSet(recent \union {own}) /\ Cardinality(recent \union {own}) <= Limit
  <2>1. /\ IsFiniteSet(recent \union {own})
        /\ Cardinality(recent \union {own}) \in {Cardinality(recent), Cardinality(recent) + 1}
    BY <1>1, FS_AddElement
  <2>2. Cardinality(recent) < Limit
    BY DEF Passed
  <2>3. QED
    BY <1>1, <2>1, <2>2, WebhookAssumption
<1>3. /\ admittedAt'[r] = at /\ \A q \in Requests : q # r => admittedAt'[q] = admittedAt[q]
  BY DEF Passed, TypeOK
<1>4. ASSUME NEW q \in within
      PROVE  [by |-> q, at |-> admittedAt'[q]] \in recent \union {own}
  <2>1. CASE q = r
    BY <1>3, <2>1
  <2>2. CASE q # r
    <3>1. /\ q \in Requests /\ Sender[q] = Sender[r]
          /\ admittedAt[q] \in (IF at < Window THEN 0 ELSE at + 1 - Window)..at
      BY <1>3, <1>4, <2>2 DEF AdmittedWithin
    <3>2. admittedAt[q] \in Nat /\ admittedAt[q] + Window > at
      BY <3>1, WebhookAssumption DEF Times
    <3>3. q \in Admitted
      BY <3>1, <3>2, WebhookAssumption DEF Admitted
    <3>4. Kept(q, recent, at)
      BY <3>1, <3>3 DEF Remembered
    <3>5. [by |-> q, at |-> admittedAt[q]] \in recent
      BY <3>2, <3>4, WebhookAssumption DEF Kept, Times
    <3>6. QED
      BY <1>3, <2>2, <3>1, <3>5
  <2>3. QED
    BY <2>1, <2>2
<1> HIDE DEF within, recent, own
<1>5. f \in Injection(within, recent \union {own})
  <2>1. f \in [within -> recent \union {own}]
    BY <1>4
  <2>2. \A q \in within : f[q].by = q
    OBVIOUS
  <2> HIDE DEF f
  <2>3. QED
    BY <2>1, <2>2 DEF Injection, IsInjective
<1>6. IsFiniteSet(within) /\ Cardinality(within) <= Cardinality(recent \union {own})
  BY <1>2, <1>5, FS_Injection
<1>7. Cardinality(within) \in Nat /\ Cardinality(recent \union {own}) \in Nat
  BY <1>2, <1>6, FS_CardinalityType
<1>8. QED
  BY <1>2, <1>6, <1>7, WebhookAssumption DEF within

LEMMA StoreKeepsRate ==
    ASSUME LoopInv, LimiterInv, RateInv, NEW r \in Requests, Store(r)
    PROVE  RateInv'
<1> USE DEF LoopInv, RateInv
<1>1. stage[r] = "store" /\ UNCHANGED <<now, pool, server, restarts>> /\ (Refused(r) \/ Passed(r))
  BY StoreEnds DEF loopVars
<1> SUFFICES ASSUME pool = 1, restarts = 0
             PROVE  RateInv'
  BY <1>1 DEF Remembered, RateBound
<1>2. PICK at \in Times : at = check[r].at
  BY DEF TypeOK
<1>3. \A q \in Requests : stage'[q] \notin {"check", "store"}
  <2>1. r \in Threads
    BY <1>1 DEF Threads, Threaded
  <2>2. \A q \in Requests : q # r => stage[q] \notin {"check", "store"}
    BY <2>1, OneThread DEF Threads, Threaded
  <2>3. QED
    BY <1>1, <2>2 DEF Refused, Passed, Enter, TypeOK
<1>4. /\ admittedAt[r] = NULL /\ at <= now /\ server # "down"
      /\ \A q \in Admitted : admittedAt[q] <= at /\ admittedAt[q] \in Times /\ q # r
  BY <1>1, <1>2 DEF LimiterInv, Dated, Remembered, DownIsQuiet, TypeOK, Admitted
<1>5. /\ \A q \in Requests : q # r => admittedAt'[q] = admittedAt[q]
      /\ Refused(r) => admittedAt' = admittedAt
      /\ Passed(r) => admittedAt'[r] = at
  BY <1>1, <1>2 DEF Refused, Passed, TypeOK
<1>6. ASSUME NEW q \in Admitted'
      PROVE  Kept(q, seen[Sender[q]], now)'
  <2>1. Sender[r] \in Senders /\ Sender[q] \in Senders /\ q \in Requests
    BY WebhookAssumption DEF Admitted
  <2>2. CASE q = r
    <3>1. Passed(r)
      BY <1>1, <1>4, <1>5, <2>2 DEF Admitted
    <3>2. [by |-> r, at |-> at] \in seen'[Sender[r]]
      BY <1>2, <2>1, <3>1 DEF Passed, TypeOK
    <3>3. QED
      BY <1>5, <2>2, <3>1, <3>2 DEF Kept
  <2>3. CASE q # r /\ Sender[q] = Sender[r]
    <3>1. q \in Admitted
      BY <1>5, <2>3 DEF Admitted
    <3>2. Kept(q, check[r].recent, at)
      BY <1>1, <1>2, <2>3, <3>1 DEF Remembered
    <3>3. check[r].recent \subseteq seen'[Sender[r]]
      BY <1>1, <2>1 DEF Refused, Passed, TypeOK
    <3>4. admittedAt[q] \in Int /\ at \in Int /\ now \in Int /\ Window \in Int
      BY <1>4, <3>1, WebhookAssumption DEF TypeOK, Times
    <3>5. [by |-> q, at |-> admittedAt[q]] \in seen'[Sender[q]] \/ admittedAt[q] + Window <= now
      BY <1>4, <2>3, <3>2, <3>3, <3>4 DEF Kept
    <3>6. QED
      BY <1>1, <1>5, <2>1, <2>3, <3>5 DEF Kept
  <2>4. CASE Sender[q] # Sender[r]
    <3>1. q \in Admitted /\ q # r
      BY <1>5, <2>4 DEF Admitted
    <3>2. seen'[Sender[q]] = seen[Sender[q]]
      BY <1>1, <2>1, <2>4 DEF Refused, Passed, TypeOK
    <3>3. Kept(q, seen[Sender[q]], now)
      BY <1>4, <3>1 DEF Remembered
    <3>4. QED
      BY <1>1, <1>5, <2>1, <3>1, <3>2, <3>3 DEF Kept
  <2>5. QED
    BY <2>2, <2>3, <2>4
<1>7. Remembered'
  BY <1>3, <1>6 DEF Remembered
<1>8. RateBound'
  <2>1. CASE Refused(r)
    BY <1>5, <2>1 DEF RateBound, AdmittedWithin
  <2>2. CASE Passed(r)
    <3>1. Cardinality(AdmittedWithin(r, at, at)') <= Limit
      BY <1>1, <1>2, <2>2, PassedKeepsBound
    <3>2. ASSUME NEW q \in Requests, NEW a \in Times, admittedAt'[q] = a
          PROVE  Cardinality(AdmittedWithin(q, a, a)') <= Limit
      <4>1. CASE a = at /\ Sender[q] = Sender[r]
        <5>1. AdmittedWithin(q, a, a)' = AdmittedWithin(r, at, at)'
          BY <4>1 DEF AdmittedWithin
        <5>2. QED
          BY <3>1, <5>1
      <4>2. CASE a # at \/ Sender[q] # Sender[r]
        <5>1. q # r /\ q \in Admitted /\ admittedAt[q] = a
          BY <1>5, <2>2, <3>2, <4>2, WebhookAssumption DEF Admitted, Times
        <5>2. a <= at
          BY <1>4, <5>1
        <5>3. r \notin AdmittedWithin(q, a, a)' /\ r \notin AdmittedWithin(q, a, a)
          BY <1>4, <1>5, <2>2, <4>2, <5>2, WebhookAssumption DEF AdmittedWithin, Times
        <5>4. AdmittedWithin(q, a, a)' = AdmittedWithin(q, a, a)
          BY <1>5, <5>3 DEF AdmittedWithin
        <5>5. Cardinality(AdmittedWithin(q, a, a)) <= Limit
          BY <5>1, WebhookAssumption DEF RateBound, Times
        <5>6. QED
          BY <5>4, <5>5
      <4>3. QED
        BY <4>1, <4>2
    <3>3. \A q \in Requests : admittedAt'[q] # NULL => admittedAt'[q] \in Times
      BY <1>2, <1>5, <2>2 DEF TypeOK
    <3>4. ASSUME NEW q \in Requests, admittedAt'[q] # NULL
          PROVE  Cardinality(AdmittedWithin(q, admittedAt[q], admittedAt[q])') <= Limit
      <4>1. PICK a \in Times : a = admittedAt'[q]
        BY <3>3, <3>4
      <4>2. AdmittedWithin(q, admittedAt[q], admittedAt[q])' = AdmittedWithin(q, a, a)'
        BY <4>1 DEF AdmittedWithin
      <4>3. QED
        BY <3>2, <4>1, <4>2
    <3>5. QED
      BY <3>4 DEF RateBound
  <2>3. QED
    BY <1>1, <2>1, <2>2
<1>9. QED
  BY <1>7, <1>8

LEMMA RateStep ==
    LoopInv /\ LoopInv' /\ LimiterInv /\ RateInv /\ [Next]_vars => RateInv'
<1> SUFFICES ASSUME LoopInv, LoopInv', LimiterInv, RateInv, [Next]_vars
             PROVE  RateInv'
  OBVIOUS
<1>1. CASE \E r \in Requests : Check(r)
  BY <1>1, CheckKeepsRate
<1>2. CASE \E r \in Requests : Store(r)
  BY <1>2, StoreKeepsRate
<1>3. CASE \/ Loop \/ Stop \/ Exit \/ Restart \/ Tick \/ UNCHANGED vars
           \/ \E r \in Requests : Connect(r) \/ Read(r) \/ HangUp(r) \/ Authorize(r) \/ Ingest(r)
  <2>1. /\ UNCHANGED <<admittedAt, limited>> /\ now <= now'
        /\ \A r \in Requests : Unrelated(r)
    BY <1>3, OthersUnrelated
  <2>2. pool' = pool
    BY <1>3 DEF Loop, Accept, Start, Stop, Exit, Restart, Tick, vars, Connect, Read, HangUp,
                Authorize, Ingest
  <2>3. \/ restarts' # 0
        \/ restarts' = restarts /\ server' = "down"
        \/ restarts' = restarts /\ seen' = seen /\ (server = "down" => server' = "down")
    BY <1>3, WebhookAssumption
       DEF Loop, Accept, Start, Stop, Exit, Restart, Tick, vars, Connect, Read, HangUp,
           Authorize, Ingest, gateVars, loopVars, LoopInv, TypeOK
  <2>4. QED
    BY <2>1, <2>2, <2>3, UnrelatedKeepsRate
<1>4. QED
  BY <1>1, <1>2, <1>3 DEF Next, Thread

\* docs/security.md, "a burst of mail must not become a burst of agent runs":
\* with one thread and until the process is replaced, no window holds more
\* than Limit admitted requests of a sender, for any limit and any window.
THEOREM RateCorrect == Spec => []RateBound
<1>1. Init => RateInv
  <2>1. Init => Admitted = {} /\ \A q \in Requests : admittedAt[q] = NULL
    BY DEF Init, Admitted
  <2>2. QED
    BY <2>1 DEF RateInv, Remembered, RateBound
<1>2. RateInv => RateBound
  BY DEF RateInv
<1>3. QED
  BY <1>1, <1>2, LoopInit, LoopStep, LimiterInit, LimiterStep, RateStep, PTL DEF Spec

-----------------------------------------------------------------------------
(* The idle loop                                                           *)

TaskStates == {"absent", "action", "queued", "running", "done", "failed", "rejected"}
TickPlaces == {"off", "collect", "submit", "ask"}

TicksTyped ==
    /\ st \in [Proposals -> TaskStates]
    /\ tokens \in [Proposals -> Nat]
    /\ pc \in [Ticks -> TickPlaces]
    /\ DOMAIN batch = Ticks /\ batch = [p \in Ticks |-> batch[p]]

\* A tick that is about to ask for a proposal has stored it itself, nobody was
\* asked about it before, and no other tick is about to ask for it.
Asking(p, x) == pc[p] = "ask" /\ Head(batch[p]) = x

StoredFirst ==
    \A x \in Proposals :
        /\ tokens[x] > 0 => st[x] # "absent"
        /\ \A p \in Ticks : Asking(p, x) => st[x] # "absent" /\ tokens[x] = 0
        /\ \A p, q \in Ticks : Asking(p, x) /\ Asking(q, x) => p = q

AskInv == TicksTyped /\ StoredFirst /\ AskedOnce

\* Where nothing is stored or asked, a tick may stop asking.
LEMMA NothingAsked ==
    ASSUME AskInv, UNCHANGED <<st, tokens>>, NEW p \in Ticks,
           NEW place \in TickPlaces \ {"ask"}, pc' = [pc EXCEPT ![p] = place],
           NEW b, batch' = [batch EXCEPT ![p] = b]
    PROVE  AskInv'
<1>1. TicksTyped'
  BY DEF AskInv, TicksTyped
<1>2. ASSUME NEW x \in Proposals, NEW q \in Ticks, Asking(q, x)'
      PROVE  Asking(q, x)
  BY <1>2 DEF AskInv, TicksTyped, Asking, TickPlaces
<1>3. QED
  BY <1>1, <1>2 DEF AskInv, StoredFirst, AskedOnce

LEMMA AskStep ==
    AskInv /\ [IdleNext]_idleVars => AskInv'
<1> SUFFICES ASSUME AskInv, [IdleNext]_idleVars
             PROVE  AskInv'
  OBVIOUS
<1>f. ASSUME UNCHANGED <<st, tokens, tickVars>>
      PROVE  AskInv'
  BY <1>f DEF AskInv, TicksTyped, StoredFirst, AskedOnce, Asking, tickVars
<1>1. ASSUME NEW p \in Ticks, Look(p) \/ Done(p)
      PROVE  AskInv'
  <2>1. batch' = [batch EXCEPT ![p] = batch[p]]
    BY <1>1 DEF Look, Done, AskInv, TicksTyped
  <2>2. PICK place \in TickPlaces \ {"ask"} : pc' = [pc EXCEPT ![p] = place]
    BY <1>1 DEF Look, Done, Goto, TickPlaces
  <2>3. QED
    BY <1>1, <2>1, <2>2, NothingAsked DEF Look, Done
<1>2. ASSUME NEW p \in Ticks, Collect(p)
      PROVE  AskInv'
  <2>1. PICK recent \in BOOLEAN :
          /\ batch' = [batch EXCEPT ![p] = First(Generate(recent), MaxPerRun)]
          /\ pc' = [pc EXCEPT ![p] = "submit"]
    BY <1>2 DEF Collect, Goto
  <2> DEFINE todo == First(Generate(recent), MaxPerRun)
  <2>2. UNCHANGED <<st, tokens>>
    BY <1>2 DEF Collect
  <2> HIDE DEF todo
  <2>3. QED
    BY <2>1, <2>2, NothingAsked DEF TickPlaces
<1>3. ASSUME NEW p \in Ticks, Dies(p)
      PROVE  AskInv'
  BY <1>3, NothingAsked DEF Dies, Goto, TickPlaces
<1>4. ASSUME NEW p \in Ticks, Submit(p)
      PROVE  AskInv'
  <2> DEFINE x == Head(batch[p])
             rest == Tail(batch[p])
  <2>1. UNCHANGED tokens /\ pc[p] = "submit"
    BY <1>4 DEF Submit
  <2>2. CASE /\ st[x] = "absent"
             /\ st' = [st EXCEPT ![x] = "action"]
             /\ Goto(p, "ask")
             /\ UNCHANGED batch
    <3> HIDE DEF x
    <3>1. TicksTyped'
      BY <2>1, <2>2 DEF AskInv, TicksTyped, Goto, TaskStates, TickPlaces
    <3>2. ASSUME NEW y \in Proposals, NEW q \in Ticks, Asking(q, y)'
          PROVE  Asking(q, y) \/ (q = p /\ y = x)
      BY <2>2, <3>2 DEF Asking, Goto, AskInv, TicksTyped, x
    <3>3. \A y \in Proposals : st'[y] # "absent" \/ (st'[y] = st[y] /\ y # x)
      BY <2>2 DEF AskInv, TicksTyped
    <3>4. \A y \in Proposals : st[y] # "absent" => st'[y] # "absent"
      BY <2>2 DEF AskInv, TicksTyped
    <3>5. x \in Proposals => tokens[x] = 0 /\ \A q \in Ticks : ~Asking(q, x)
      BY <2>2 DEF AskInv, TicksTyped, StoredFirst
    <3>6. QED
      BY <2>1, <3>1, <3>2, <3>3, <3>4, <3>5 DEF AskInv, TicksTyped, StoredFirst, AskedOnce
  <2>3. CASE /\ st' = IF st[x] = "absent" THEN [st EXCEPT ![x] = "queued"] ELSE st
             /\ batch' = [batch EXCEPT ![p] = Tail(@)]
             /\ UNCHANGED pc
    <3>1. batch' = [batch EXCEPT ![p] = rest]
      BY <2>3
    <3> HIDE DEF x, rest
    <3>2. TicksTyped'
      BY <2>1, <2>3, <3>1 DEF AskInv, TicksTyped, TaskStates
    <3>3. ASSUME NEW y \in Proposals, NEW q \in Ticks, Asking(q, y)'
          PROVE  Asking(q, y)
      BY <2>1, <2>3, <3>1, <3>3 DEF Asking, AskInv, TicksTyped
    <3>4. \A y \in Proposals : st[y] # "absent" => st'[y] # "absent"
      BY <2>3 DEF AskInv, TicksTyped
    <3>5. QED
      BY <2>1, <3>2, <3>3, <3>4 DEF AskInv, TicksTyped, StoredFirst, AskedOnce
  <2>4. QED
    BY <1>4, <2>2, <2>3 DEF Submit
<1>5. ASSUME NEW p \in Ticks, AskApproval(p)
      PROVE  AskInv'
  <2> DEFINE x == Head(batch[p])
  <2>1. pc[p] = "ask" /\ UNCHANGED st /\ tokens' = [tokens EXCEPT ![x] = @ + 1]
    BY <1>5 DEF AskApproval
  <2>2. PICK b : batch' = [batch EXCEPT ![p] = b]
    BY <1>5 DEF AskApproval
  <2>3. PICK place \in TickPlaces \ {"ask"} : pc' = [pc EXCEPT ![p] = place]
    BY <1>5 DEF AskApproval, Goto, TickPlaces
  <2>4. ASSUME NEW y \in Proposals, NEW q \in Ticks, Asking(q, y)'
        PROVE  Asking(q, y) /\ q # p
    BY <2>2, <2>3, <2>4 DEF AskInv, TicksTyped, Asking, TickPlaces
  <2>5. Asking(p, x)
    BY <2>1 DEF Asking
  <2> HIDE DEF x
  <2>6. TicksTyped'
    <3>1. tokens' \in [Proposals -> Nat]
      <4>1. CASE x \in Proposals
        BY <2>1, <4>1 DEF AskInv, TicksTyped
      <4>2. CASE x \notin Proposals
        <5> DEFINE n == tokens[x] + 1
        <5>1. tokens' = [tokens EXCEPT ![x] = n]
          BY <2>1
        <5> HIDE DEF n
        <5>2. QED
          BY <4>2, <5>1 DEF AskInv, TicksTyped
      <4>3. QED
        BY <4>1, <4>2
    <3>2. pc' \in [Ticks -> TickPlaces]
      BY <2>3 DEF AskInv, TicksTyped
    <3>3. QED
      BY <2>1, <2>2, <3>1, <3>2 DEF AskInv, TicksTyped
  <2>7. \A y \in Proposals : IF y = x THEN tokens'[y] = 1 ELSE tokens'[y] = tokens[y]
    BY <2>1, <2>5 DEF AskInv, TicksTyped, StoredFirst
  <2>8. QED
    BY <2>1, <2>4, <2>5, <2>6, <2>7 DEF AskInv, TicksTyped, StoredFirst, AskedOnce
<1>6. ASSUME NEW x \in Proposals, Reply(x) \/ Work(x)
      PROVE  AskInv'
  <2>1. UNCHANGED <<tokens, pc, batch>>
    BY <1>6 DEF Reply, Work, tickVars
  <2>2. PICK s \in TaskStates \ {"absent"} : st' = [st EXCEPT ![x] = s]
    BY <1>6 DEF Reply, Work, TaskStates
  <2>3. QED
    BY <2>1, <2>2 DEF AskInv, TicksTyped, StoredFirst, AskedOnce, Asking
<1>7. CASE Mail \/ WorkReal \/ Commit
  BY <1>7, <1>f DEF Mail, WorkReal, Commit
<1>8. CASE UNCHANGED idleVars
  BY <1>8, <1>f DEF idleVars
<1>9. QED
  BY <1>1, <1>2, <1>3, <1>4, <1>5, <1>6, <1>7, <1>8 DEF IdleNext, IdleTick

\* However many ticks of the idle loop overlap, fail or die, a human is asked
\* about a proposal at most once: enqueue stores an id once, and only the tick
\* that stored it asks.
THEOREM IdleAskedOnceCorrect == IdleSpec => []AskedOnce
<1>1. IdleInit => AskInv
  BY DEF IdleInit, AskInv, TicksTyped, TaskStates, TickPlaces, StoredFirst, AskedOnce,
         Asking
<1>2. AskInv => AskedOnce
  BY DEF AskInv
<1>3. QED
  BY <1>1, <1>2, AskStep, PTL DEF IdleSpec

GateInv == TicksTyped /\ GateHolds

LEMMA GateStep ==
    GateInv /\ AskInv' /\ [IdleNext]_idleVars => GateInv'
<1> SUFFICES ASSUME GateInv, AskInv', [IdleNext]_idleVars
             PROVE  GateInv'
  OBVIOUS
<1>t. TicksTyped'
  BY DEF AskInv
<1>f. ASSUME UNCHANGED <<noGate, st, approved>>
      PROVE  GateInv'
  BY <1>t, <1>f DEF GateInv, GateHolds
<1>1. ASSUME NEW p \in Ticks, Submit(p)
      PROVE  GateInv'
  <2> DEFINE x == Head(batch[p])
  <2>1. UNCHANGED <<noGate, approved>>
    BY <1>1 DEF Submit, repoVars
  <2>2. noGate \/ st' = st \/ st' = [st EXCEPT ![x] = "action"]
    BY <1>1 DEF Submit
  <2> HIDE DEF x
  <2>3. QED
    BY <1>t, <2>1, <2>2 DEF GateInv, GateHolds, TicksTyped
<1>2. ASSUME NEW p \in Ticks,
             \/ Look(p) \/ Collect(p) \/ AskApproval(p)
             \/ Done(p) \/ Dies(p)
      PROVE  GateInv'
  BY <1>2, <1>f
     DEF Look, Collect, AskApproval, Done, Dies, repoVars
<1>3. ASSUME NEW x \in Proposals, Reply(x)
      PROVE  GateInv'
  BY <1>3, <1>t DEF Reply, GateInv, GateHolds, TicksTyped, repoVars
<1>4. ASSUME NEW x \in Proposals, Work(x)
      PROVE  GateInv'
  BY <1>4, <1>t DEF Work, GateInv, GateHolds, TicksTyped, repoVars
<1>5. CASE Mail \/ WorkReal \/ Commit
  BY <1>5, <1>f DEF Mail, WorkReal, Commit, repoVars
<1>6. CASE UNCHANGED idleVars
  BY <1>6, <1>f DEF idleVars, repoVars
<1>7. QED
  BY <1>1, <1>2, <1>3, <1>4, <1>5, <1>6 DEF IdleNext, IdleTick

\* docs/roadmap.md, M5.3, for any number of ticks, markers and proposals: with
\* the gate on, nothing that the idle loop stored is queued, running or done
\* unless a human released it.
THEOREM IdleGateCorrect == IdleSpec => []GateHolds
<1>1. IdleInit => AskInv /\ GateInv
  BY DEF IdleInit, AskInv, GateInv, TicksTyped, TaskStates, TickPlaces, StoredFirst,
         AskedOnce, Asking, GateHolds
<1>2. GateInv => GateHolds
  BY DEF GateInv
<1>3. QED
  BY <1>1, <1>2, AskStep, GateStep, PTL DEF IdleSpec
=============================================================================
