----------------------------- MODULE Decisions -----------------------------
(***************************************************************************)
(* The decision layer: a decider with its fallback to rules, the log of    *)
(* its decisions in a file or in PostgreSQL, operators who label records   *)
(* by index, and the threshold that calibration recommends.                *)
(*                                                                         *)
(* Gates are ingest passes of the control plane: for each mail they ask     *)
(* whether it is an attack or carries source (SecurityDecider), and if not  *)
(* whether a human should look (HumanGate).  Shells ask for the model and   *)
(* for the human (dear-agent decide).  What a scanner, a model or the rules *)
(* say of a text is anything they may say; probabilities are tenths, and of *)
(* the two questions about an attack the higher answer is kept.  A record   *)
(* keeps the answer to "model" only, the question calibration is about; all *)
(* records of a file are equally long.                                      *)
(***************************************************************************)
EXTENDS Integers, Sequences, FiniteSets

CONSTANTS
    NULL, Late,   \* no answer, and one that came too late
    Gates,        \* processes that ingest mail
    Shells,       \* processes that run dear-agent decide
    Labelers,     \* operators with dear-agent label
    Deployments,  \* pairs of a store, "file" or "postgres", and the
                  \* processes that decide
    Confidences,  \* what a model says of its choice
    Nouls,        \* its answers to yes-or-no questions
    Threshold,    \* DEAR_AGENT_DECIDER_THRESHOLD
    Edges,        \* the lower ends of the confidence bands
    Target,       \* the accuracy to reach, in tenths
    Faults,       \* which of "outage", "timeout", "log", "crash" happen: the
                  \* model fails or is late, the log fails, a process dies
    MaxRecords    \* bound on the records

Tenths == 0..10
Callers == Gates \union Shells
Ids == 1..MaxRecords
Choices == {"local", "hosted"}
ChoiceAnswer == [choice : Choices, confidence : Tenths \union {NULL}]
Answers == [model : ChoiceAnswer \union {NULL}, noul : Tenths]
Stages == {"assess", "human"}

ASSUME DecisionsAssumption ==
    /\ Gates \intersect Shells = {} /\ Callers \intersect Labelers = {}
    /\ IsFiniteSet(Callers)
    /\ Deployments \subseteq {"file", "postgres"} \X SUBSET Callers
    /\ Confidences \subseteq Tenths /\ Nouls \subseteq Tenths
    /\ Threshold \in Tenths /\ Target \in Tenths
    /\ Edges \subseteq Tenths /\ Edges # {} /\ IsFiniteSet(Edges)
    /\ Faults \subseteq {"outage", "timeout", "log", "crash"}
    /\ MaxRecords \in Nat
    /\ NULL \notin Nat /\ NULL \notin Choices
    /\ Late # NULL /\ Late \notin Answers

VARIABLES
    store,    \* where the log is
    active,   \* the processes that decide
    truth,    \* the right answer to each decision, which only people know
    rows,     \* the log
    nextId,
    pc,       \* where each process is
    stage,    \* what a process asks
    flagged,  \* whether the scanner found a pattern in its mail
    heard,    \* what the model answered it, NULL if it failed, or Late
    rule,     \* what the rules say of its question
    decision, \* what the decider returned
    inserted, \* the id of its uncommitted row
    raised,   \* the stages in which its decider raised
    verdict,  \* whether its mail is parked for a human: "yes" or "no"
    index,    \* the index an operator read off the log
    aim,      \* and the record they saw there
    copy      \* the records label read

wiring == <<store, active>>
mailVars == <<flagged, heard, rule>>
callVars == <<stage, mailVars, decision, inserted, raised, verdict>>
labelVars == <<index, aim, copy>>
vars == <<wiring, truth, rows, nextId, pc, callVars, labelVars>>

Row == [id : Ids, model : ChoiceAnswer \union {NULL}, label : Choices \union {NULL}]

TypeOK ==
    /\ <<store, active>> \in Deployments
    /\ truth \in [Ids -> Choices]
    /\ rows \in Seq(Row)
    /\ nextId \in 1..(MaxRecords + 1)
    /\ pc \in [Callers \union Labelers ->
                {"idle", "ask", "log", "commit", "found", "read", "truncated"}]
    /\ stage \in [Callers -> Stages]
    /\ flagged \in [Callers -> BOOLEAN]
    /\ heard \in [Callers -> [Stages -> Answers \union {NULL, Late}]]
    /\ rule \in [Callers -> Answers \union {NULL}]
    /\ decision \in [Callers -> Answers \union {NULL}]
    /\ inserted \in [Callers -> Ids \union {NULL}]
    /\ raised \in [Callers -> SUBSET Stages]
    /\ verdict \in [Callers -> {"yes", "no", NULL}]
    /\ index \in [Labelers -> Nat]
    /\ aim \in [Labelers -> Ids \union {NULL}]
    /\ copy \in [Labelers -> Seq(Row)]

Unheard == [s \in Stages |-> NULL]

Init ==
    /\ \E d \in Deployments : store = d[1] /\ active = d[2]
    /\ truth \in [Ids -> Choices]
    /\ rows = <<>>
    /\ nextId = 1
    /\ pc = [p \in Callers \union Labelers |-> "idle"]
    /\ stage = [p \in Callers |-> "assess"]
    /\ flagged = [p \in Callers |-> FALSE]
    /\ heard = [p \in Callers |-> Unheard]
    /\ raised = [p \in Callers |-> {}]
    /\ rule = [p \in Callers |-> NULL]
    /\ decision = [p \in Callers |-> NULL]
    /\ inserted = [p \in Callers |-> NULL]
    /\ verdict = [p \in Callers |-> NULL]
    /\ index = [l \in Labelers |-> 0]
    /\ aim = [l \in Labelers |-> NULL]
    /\ copy = [l \in Labelers |-> <<>>]

Goto(p, place) == pc' = [pc EXCEPT ![p] = place]

-----------------------------------------------------------------------------
(* Deciding                                                                *)

\* _default: of an attack the rules know nothing.
DefaultAnswer == [model |-> NULL, noul |-> 0]

\* RuleDecider: _route and _needs_human look for the same words in the text.
RuleAnswers(question) ==
    IF question = "assess" THEN {DefaultAnswer}
    ELSE [model : [choice : Choices, confidence : {7}], noul : {2}]
         \union [model : [choice : {"hosted"}, confidence : 7..9], noul : {8}]

\* Only shells ask for the model; what they hear of the human is only printed.
Asked(p, answers) ==
    IF p \in Shells THEN [answers EXCEPT !.noul = 0] ELSE [answers EXCEPT !.model = NULL]

ModelAnswers ==
    [model : [choice : Choices, confidence : Confidences \union {NULL}], noul : Nouls]

Distance(a, b) == IF a < b THEN b - a ELSE a - b

ConfidentChoice(a) == a # NULL /\ a.confidence # NULL /\ a.confidence >= Threshold
ConfidentNoul(n) == Distance(n, 5) >= Threshold - 5

\* FallbackDecider.decide, where answers is NULL when a DecisionError came.
Fallback(answers, rules) ==
    IF answers = NULL THEN rules
    ELSE [model |-> IF ConfidentChoice(answers.model) THEN answers.model ELSE rules.model,
          noul |-> IF ConfidentNoul(answers.noul) THEN answers.noul ELSE rules.noul]

\* decision_needs_human, and AdvisoryVerdict.suspicious: both at a half.
SaysYes(d) == d.noul >= 5

\* ingest takes its next mail and scans it; a shell begins a command.
Begin(p) ==
    /\ p \in active /\ pc[p] = "idle" /\ nextId <= MaxRecords
    /\ Goto(p, "ask")
    /\ stage' = [stage EXCEPT ![p] = IF p \in Gates THEN "assess" ELSE "human"]
    /\ \E found \in (IF p \in Gates THEN BOOLEAN ELSE {FALSE}) :
            flagged' = [flagged EXCEPT ![p] = found]
    /\ heard' = [heard EXCEPT ![p] = Unheard]
    /\ rule' = [rule EXCEPT ![p] = NULL]
    /\ raised' = [raised EXCEPT ![p] = {}]
    /\ verdict' = [verdict EXCEPT ![p] = NULL]
    /\ UNCHANGED <<wiring, truth, rows, nextId, decision, inserted, labelVars>>

\* _flag_suspicious and _gate_reason: only a mail that neither scanner nor
\* model found suspicious goes on to the human gate.
Conclude(p, yes) ==
    LET park == flagged[p] \/ yes
    IN  /\ decision' = [decision EXCEPT ![p] = NULL]
        /\ \/ /\ p \in Gates /\ stage[p] = "assess" /\ ~park
              /\ stage' = [stage EXCEPT ![p] = "human"]
              /\ Goto(p, "ask")
              /\ UNCHANGED verdict
           \/ /\ p \in Gates /\ (stage[p] = "human" \/ park)
              /\ verdict' = [verdict EXCEPT ![p] = IF park THEN "yes" ELSE "no"]
              /\ Goto(p, "idle")
              /\ UNCHANGED stage
           \/ p \in Shells /\ Goto(p, "idle") /\ UNCHANGED <<stage, verdict>>

\* The decider returns.
Return(p) == Conclude(p, SaysYes(decision[p])) /\ UNCHANGED raised

\* An exception leaves it: for a gate that is a no, a shell ends.
Raise(p) ==
    /\ Conclude(p, FALSE)
    /\ raised' = [raised EXCEPT ![p] = IF p \in Gates THEN @ \union {stage[p]} ELSE @]

\* decide: the model answers; or fails in a way its adapter turns into a
\* DecisionError; or is too slow, and TimeoutError is not among those.
Ask(p) ==
    LET Hear(what) == heard' = IF p \in Gates THEN [heard EXCEPT ![p][stage[p]] = what] ELSE heard
    IN  /\ pc[p] = "ask" /\ nextId <= MaxRecords
        /\ \E r \in RuleAnswers(stage[p]) :
            /\ rule' = IF p \in Gates THEN [rule EXCEPT ![p] = Asked(p, r)] ELSE rule
            /\ \/ \E a \in ModelAnswers \union (IF "outage" \in Faults THEN {NULL} ELSE {}) :
                    LET answers == IF a = NULL THEN NULL ELSE Asked(p, a)
                    IN  /\ Hear(answers)
                        /\ decision' = [decision EXCEPT ![p] = Fallback(answers, Asked(p, r))]
                        /\ Goto(p, "log")
                        /\ UNCHANGED <<stage, raised, verdict>>
               \/ "timeout" \in Faults /\ Hear(Late) /\ Raise(p)
        /\ UNCHANGED <<wiring, truth, rows, nextId, flagged, inserted, labelVars>>

NewRow(p, id) == [id |-> id, model |-> decision[p].model, label |-> NULL]

AppendUnguarded(p) ==
    /\ store = "file"
    /\ pc[p] = "log" /\ nextId <= MaxRecords
    /\ \/ /\ rows' = Append(rows, NewRow(p, nextId))
          /\ nextId' = nextId + 1
          /\ Return(p)
       \/ "log" \in Faults /\ Raise(p) /\ UNCHANGED <<rows, nextId>>
    /\ UNCHANGED <<wiring, truth, mailVars, inserted, labelVars>>

\* LoggingDecider with DecisionLog.record: an OSError is suppressed.
AppendRecord(p) ==
    /\ store = "file"
    /\ pc[p] = "log" /\ nextId <= MaxRecords
    /\ \/ /\ rows' = Append(rows, NewRow(p, nextId))
          /\ nextId' = nextId + 1
       \/ "log" \in Faults /\ UNCHANGED <<rows, nextId>>
    /\ Return(p)
    /\ UNCHANGED <<wiring, truth, mailVars, inserted, labelVars>>

\* PostgresDecisionLog.record takes the id; a psycopg error is no OSError.
InsertRecord(p) ==
    /\ store = "postgres"
    /\ pc[p] = "log" /\ nextId <= MaxRecords
    /\ \/ /\ inserted' = [inserted EXCEPT ![p] = nextId]
          /\ nextId' = nextId + 1
          /\ Goto(p, "commit")
          /\ UNCHANGED <<stage, raised, verdict, decision>>
       \/ "log" \in Faults /\ Raise(p) /\ UNCHANGED <<inserted, nextId>>
    /\ UNCHANGED <<wiring, truth, rows, mailVars, labelVars>>

\* The row appears, in the order of the ids.
Appear(p) ==
    \E n \in 0..Len(rows) :
        /\ \A i \in DOMAIN rows : rows[i].id < inserted[p] <=> i <= n
        /\ rows' = SubSeq(rows, 1, n) \o <<NewRow(p, inserted[p])>>
                   \o SubSeq(rows, n + 1, Len(rows))

\* commit; or the connection is lost before it, or before its answer.
CommitRecord(p) ==
    /\ pc[p] = "commit"
    /\ \/ Appear(p) /\ Return(p)
       \/ "log" \in Faults /\ Raise(p) /\ (Appear(p) \/ UNCHANGED rows)
    /\ inserted' = [inserted EXCEPT ![p] = NULL]
    /\ UNCHANGED <<wiring, truth, nextId, mailVars, labelVars>>

\* The process dies with what it knew, and the server rolls back what it had
\* not committed.
Die(p) ==
    /\ "crash" \in Faults /\ pc[p] # "idle"
    /\ Goto(p, "idle")
    /\ stage' = [stage EXCEPT ![p] = "assess"]
    /\ flagged' = [flagged EXCEPT ![p] = FALSE]
    /\ heard' = [heard EXCEPT ![p] = Unheard]
    /\ rule' = [rule EXCEPT ![p] = NULL]
    /\ raised' = [raised EXCEPT ![p] = {}]
    /\ decision' = [decision EXCEPT ![p] = NULL]
    /\ inserted' = [inserted EXCEPT ![p] = NULL]
    /\ UNCHANGED <<wiring, truth, rows, nextId, verdict, labelVars>>

-----------------------------------------------------------------------------
(* Labelling                                                               *)

\* An operator looks at an unlabelled record and will label its index.
Look(l) ==
    /\ pc[l] = "idle"
    /\ \E i \in DOMAIN rows :
        /\ rows[i].label = NULL
        /\ index' = [index EXCEPT ![l] = i]
        /\ aim' = [aim EXCEPT ![l] = rows[i].id]
    /\ Goto(l, "found")
    /\ UNCHANGED <<wiring, truth, rows, nextId, callVars, copy>>

Forget(l) ==
    /\ Goto(l, "idle")
    /\ index' = [index EXCEPT ![l] = 0]
    /\ aim' = [aim EXCEPT ![l] = NULL]
    /\ copy' = [copy EXCEPT ![l] = <<>>]

\* DecisionLog.label reads all records and sets the label,
ReadAll(l) ==
    /\ store = "file" /\ pc[l] = "found"
    /\ \/ /\ index[l] \in DOMAIN rows
          /\ copy' = [copy EXCEPT ![l] = [rows EXCEPT ![index[l]].label = truth[aim[l]]]]
          /\ Goto(l, "read")
          /\ UNCHANGED <<index, aim>>
       \/ index[l] \notin DOMAIN rows /\ Forget(l)
    /\ UNCHANGED <<wiring, truth, rows, nextId, callVars>>

\* opens the file for writing, which empties it,
Truncate(l) ==
    /\ pc[l] = "read"
    /\ rows' = <<>>
    /\ Goto(l, "truncated")
    /\ UNCHANGED <<wiring, truth, nextId, callVars, labelVars>>

WriteAtEnd(l) ==
    /\ pc[l] = "truncated"
    /\ \/ rows' = rows \o copy[l]
       \/ "crash" \in Faults /\ UNCHANGED rows
    /\ Forget(l)
    /\ UNCHANGED <<wiring, truth, nextId, callVars>>

\* and writes from the start, over whatever was appended meanwhile.
WriteAll(l) ==
    /\ pc[l] = "truncated"
    /\ \/ rows' = copy[l] \o SubSeq(rows, Len(copy[l]) + 1, Len(rows))
       \/ "crash" \in Faults /\ UNCHANGED rows
    /\ Forget(l)
    /\ UNCHANGED <<wiring, truth, nextId, callVars>>

LabelNext(l) ==
    /\ store = "postgres" /\ pc[l] = "found"
    /\ rows' = IF index[l] + 1 \in DOMAIN rows
               THEN [rows EXCEPT ![index[l] + 1].label = truth[aim[l]]]
               ELSE rows
    /\ Forget(l)
    /\ UNCHANGED <<wiring, truth, nextId, callVars>>

\* PostgresDecisionLog.label: the row at that offset now, updated by its id.
Label(l) ==
    /\ store = "postgres" /\ pc[l] = "found"
    /\ rows' = IF index[l] \in DOMAIN rows
               THEN [rows EXCEPT ![index[l]].label = truth[aim[l]]]
               ELSE rows
    /\ Forget(l)
    /\ UNCHANGED <<wiring, truth, nextId, callVars>>

-----------------------------------------------------------------------------

Call(p) ==
    \/ Begin(p) \/ Ask(p) \/ AppendRecord(p) \/ InsertRecord(p) \/ CommitRecord(p)
    \/ Die(p)
LabelStep(l) == Look(l) \/ ReadAll(l) \/ Truncate(l) \/ WriteAll(l) \/ Label(l)

Next == (\E p \in Callers : Call(p)) \/ (\E l \in Labelers : LabelStep(l))

Spec == Init /\ [][Next]_vars

-----------------------------------------------------------------------------
(* Calibration                                                             *)

\* The records calibrate_records counts, by index.
Labelled ==
    {i \in DOMAIN rows :
        /\ rows[i].model # NULL /\ rows[i].label # NULL
        /\ rows[i].model.confidence # NULL}

Correct(i) == rows[i].model.choice = rows[i].label

Greatest(S) == CHOOSE x \in S : \A y \in S : y <= x
Least(S) == CHOOSE x \in S : \A y \in S : x <= y

BandBelow(confidence) ==
    LET reached == {e \in Edges : e < confidence}
    IN  IF reached = {} THEN Least(Edges) ELSE Greatest(reached)

\* _bucket_index: the band of a confidence, by its lower edge; one below every
\* edge is in the first.
Band(confidence) ==
    LET reached == {e \in Edges : e <= confidence}
    IN  IF reached = {} THEN Least(Edges) ELSE Greatest(reached)

Meets(S) == 10 * Cardinality({i \in S : Correct(i)}) >= Target * Cardinality(S)

\* _recommend: the records of a band and of all higher ones, together.
From(e) == {i \in Labelled : Band(rows[i].model.confidence) >= e}

Recommended ==
    LET good == {e \in Edges : From(e) # {} /\ Meets(From(e))}
    IN  IF good = {} THEN NULL ELSE Least(good)

-----------------------------------------------------------------------------
(* Properties                                                              *)

\* What a question was answered with, if every failure falls back to the rules.
SaysOf(p, s, answers) ==
    SaysYes(Fallback(answers, IF s = "assess" THEN DefaultAnswer ELSE rule[p]))

\* A mail runs without a human only if the scanner, the security question and
\* the human question all say no, each by the model or, where it failed or was
\* unsure, by the rules; and it is parked as soon as one says yes.  A question
\* whose decider raised says no; that happens only to a model that answers too
\* late and to an insert or commit that fails, never to the file.  Both
\* exceptions are against the documents: a timeout "falls back to the rules"
\* (openai.py:39-41, factory.py:35-40; the run late_model), and "a logging
\* failure must not break the decision" (factory.py:85-86).
GateAnswers ==
    \A p \in Gates : verdict[p] # NULL =>
        LET says(s) == s \notin raised[p] /\ SaysOf(p, s, heard[p][s])
        IN  /\ \A s \in raised[p] : heard[p][s] = Late \/ store = "postgres"
            /\ IF flagged[p] \/ says("assess")
               THEN verdict[p] = "yes"
               ELSE (verdict[p] = "yes") = says("human")

\* What the documents say of it (openai.py:39-41): a model that is too late
\* counts as one that failed, and the rules answer in its place.
LateFallsBack ==
    \A p \in Gates : verdict[p] # NULL =>
        LET says(s) == SaysOf(p, s, IF heard[p][s] = Late THEN NULL ELSE heard[p][s])
        IN  verdict[p] = IF flagged[p] \/ says("assess") \/ says("human") THEN "yes" ELSE "no"

\* No decision is in the log twice, so that calibration counts each once:
\* although label rewrites the file under appends and under other labels, and
\* a rewrite that began earlier may end later, what it writes goes to where it
\* was read.  (Decisions may be lost in it, against "append-only" at
\* log.py:108: what is appended meanwhile is written over.)
RecordedOnce == \A i, j \in DOMAIN rows : rows[i].id = rows[j].id => i = j

\* A label is the truth about the record that carries it, although operators
\* name records by index while others are added, as long as one process
\* inserts: rows of two processes appear in the order of their commits.
LabelFits ==
    store = "postgres" /\ Cardinality(active) = 1 =>
        \A i \in DOMAIN rows : rows[i].label \in {NULL, truth[rows[i].id]}

\* A recommended threshold does what it is for: of the labelled answers that
\* reach it, enough are right, and a lower edge would not do.
ThresholdEarned ==
    LET reaching(c) == {i \in Labelled : rows[i].model.confidence >= c}
    IN  Recommended # NULL =>
            /\ reaching(Recommended) # {} /\ Meets(reaching(Recommended))
            /\ \A e \in Edges : e < Recommended => ~Meets(reaching(e))
=============================================================================
