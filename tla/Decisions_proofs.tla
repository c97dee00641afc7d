-------------------------- MODULE Decisions_proofs --------------------------
(***************************************************************************)
(* What the decision layer guarantees for any number of gates, shells and  *)
(* operators, whatever a model answers and whatever fails.                 *)
(***************************************************************************)
EXTENDS Decisions, SequenceTheorems, FiniteSetTheorems, TLAPS

\* What reaches the log: an answer of a model that was sure, or of the rules.
SureAnswer ==
    {a \in ChoiceAnswer :
        a.confidence # NULL /\ (a.confidence >= Threshold \/ a.confidence >= 7)}
SureAnswers == [model : SureAnswer \union {NULL}, noul : Tenths]
SureRow == [id : Ids, model : SureAnswer \union {NULL}, label : Choices \union {NULL}]

CallerPlaces == {"idle", "ask", "log", "commit"}
LabelerPlaces == {"idle", "found", "read", "truncated"}

\* What a deciding process and an operator have at hand, by where they are.
CallerOK ==
    \A p \in Callers :
        /\ pc[p] \in CallerPlaces
        /\ pc[p] \in {"log", "commit"} => decision[p] \in SureAnswers
        /\ pc[p] = "commit" => inserted[p] # NULL /\ store = "postgres"
        /\ inserted[p] # NULL => pc[p] = "commit"
        /\ pc[p] # "idle" => p \in active

LabelerOK ==
    \A l \in Labelers :
        /\ pc[l] \in LabelerPlaces
        /\ pc[l] # "idle" => aim[l] \in Ids
        /\ pc[l] \in {"read", "truncated"} => store = "file"

SureInv ==
    /\ TypeOK /\ CallerOK /\ LabelerOK
    /\ rows \in Seq(SureRow)
    /\ copy \in [Labelers -> Seq(SureRow)]

-----------------------------------------------------------------------------
(* Sequences and answers                                                   *)

\* A row is put after the first n.
Inserted(s, n, x) == SubSeq(s, 1, n) \o <<x>> \o SubSeq(s, n + 1, Len(s))

LEMMA Insertion ==
    ASSUME NEW S, NEW s \in Seq(S), NEW x \in S, NEW n \in 0..Len(s)
    PROVE  /\ Inserted(s, n, x) \in Seq(S)
           /\ Len(Inserted(s, n, x)) = Len(s) + 1
           /\ \A i \in 1..n : Inserted(s, n, x)[i] = s[i]
           /\ Inserted(s, n, x)[n + 1] = x
           /\ \A i \in (n + 1)..Len(s) : Inserted(s, n, x)[i + 1] = s[i]
<1>1. Len(s) \in Nat /\ \A i \in 1..Len(s) : s[i] \in S
  BY LenProperties, ElementOfSeq
<1> DEFINE t == Inserted(s, n, x)
           low == SubSeq(s, 1, n)
           one == <<x>>
           high == SubSeq(s, n + 1, Len(s))
           front == low \o one
<1>2. /\ low \in Seq(S) /\ Len(low) = n
      /\ \A i \in 1..n : low[i] = s[i]
  BY <1>1
<1>3. /\ high \in Seq(S) /\ Len(high) = Len(s) - n
      /\ \A i \in 1..(Len(s) - n) : high[i] = s[n + i]
  BY <1>1
<1>4. one \in Seq(S) /\ Len(one) = 1 /\ one[1] = x
  OBVIOUS
<1> HIDE DEF low, one, high
<1>5. /\ front \in Seq(S) /\ Len(front) = n + 1
      /\ \A i \in 1..(n + 1) : front[i] = IF i <= n THEN low[i] ELSE one[i - n]
  <2>1. /\ front \in Seq(S) /\ Len(front) = Len(low) + Len(one)
        /\ \A i \in 1..(Len(low) + Len(one)) :
                front[i] = IF i <= Len(low) THEN low[i] ELSE one[i - Len(low)]
    BY <1>2, <1>4, ConcatProperties
  <2> HIDE DEF front
  <2>2. QED
    BY <1>2, <1>4, <2>1
<1> HIDE DEF front
<1>6. t = front \o high
  BY DEF Inserted, front, low, one, high
<1> HIDE DEF t
<1>7. /\ t \in Seq(S) /\ Len(t) = Len(s) + 1
      /\ \A i \in 1..(Len(s) + 1) : t[i] = IF i <= n + 1 THEN front[i] ELSE high[i - (n + 1)]
  <2>1. /\ front \o high \in Seq(S) /\ Len(front \o high) = Len(front) + Len(high)
        /\ \A i \in 1..(Len(front) + Len(high)) :
                (front \o high)[i] = IF i <= Len(front) THEN front[i] ELSE high[i - Len(front)]
    BY <1>3, <1>5, ConcatProperties
  <2>2. Len(front) + Len(high) = Len(s) + 1
    BY <1>1, <1>3, <1>5
  <2>3. QED
    BY <1>5, <1>6, <2>1, <2>2
<1>8. ASSUME NEW i \in 1..n
      PROVE  t[i] = s[i]
  <2>1. i \in 1..(n + 1) /\ i \in 1..(Len(s) + 1) /\ i <= n + 1 /\ i <= n
    BY <1>1, <1>8
  <2>2. QED
    BY <1>2, <1>5, <1>7, <1>8, <2>1
<1>9. t[n + 1] = x
  <2>1. /\ n + 1 \in 1..(n + 1) /\ n + 1 \in 1..(Len(s) + 1)
        /\ n + 1 <= n + 1 /\ ~(n + 1 <= n) /\ (n + 1) - n = 1
    BY <1>1
  <2>2. QED
    BY <1>4, <1>5, <1>7, <2>1
<1>10. ASSUME NEW i \in (n + 1)..Len(s)
       PROVE  t[i + 1] = s[i]
  <2>1. i + 1 \in 1..(Len(s) + 1) /\ ~(i + 1 <= n + 1) /\ i - n \in 1..(Len(s) - n)
    BY <1>1, <1>10
  <2>2. t[i + 1] = high[(i + 1) - (n + 1)]
    BY <1>7, <2>1
  <2>3. (i + 1) - (n + 1) = i - n /\ n + (i - n) = i
    BY <1>1, <1>10
  <2>4. QED
    BY <1>3, <2>1, <2>2, <2>3
<1>11. QED
  BY <1>7, <1>8, <1>9, <1>10 DEF t

\* A label is put on one row.
Marked(s, k, c) == [s EXCEPT ![k].label = c]

LEMMA Labelling ==
    ASSUME NEW s \in Seq(SureRow), NEW k \in 1..Len(s), NEW c \in Choices
    PROVE  /\ Marked(s, k, c) \in Seq(SureRow)
           /\ Len(Marked(s, k, c)) = Len(s)
           /\ \A i \in 1..Len(s) : i # k => Marked(s, k, c)[i] = s[i]
           /\ Marked(s, k, c)[k].id = s[k].id /\ Marked(s, k, c)[k].label = c
<1> DEFINE t == Marked(s, k, c)
           r == [id |-> s[k].id, model |-> s[k].model, label |-> c]
<1>1. s[k] \in SureRow
  BY ElementOfSeq
<1>2. r \in SureRow /\ [s[k] EXCEPT !.label = c] = r
  BY <1>1 DEF SureRow
<1>3. t = [s EXCEPT ![k] = r]
  BY <1>2 DEF Marked
<1> HIDE DEF r, t
<1>4. QED
  <2>1. t \in Seq(SureRow) /\ Len(t) = Len(s)
        /\ \A i \in 1..Len(s) : t[i] = IF i = k THEN r ELSE s[i]
    BY <1>2, <1>3, ExceptSeq
  <2>2. QED
    BY <2>1 DEF r, t

LEMMA AskedTyped ==
    ASSUME NEW p, NEW a
    PROVE  /\ a \in Answers => Asked(p, a) \in Answers
           /\ a \in SureAnswers => Asked(p, a) \in SureAnswers
BY DEF Asked, Answers, SureAnswers, Tenths

LEMMA SureIsAnswer == SureAnswers \subseteq Answers /\ SureRow \subseteq Row
BY DEF SureAnswers, SureAnswer, Answers, SureRow, Row

LEMMA RulesAreSure ==
    ASSUME NEW s, NEW r \in RuleAnswers(s)
    PROVE  r \in SureAnswers
<1>1. CASE s = "assess"
  BY <1>1 DEF RuleAnswers, DefaultAnswer, SureAnswers, Tenths
<1>2. CASE s # "assess"
  <2>1. r.model \in SureAnswer /\ r.noul \in Tenths
    BY <1>2, DecisionsAssumption DEF RuleAnswers, SureAnswer, ChoiceAnswer, Tenths, Choices
  <2>2. r = [model |-> r.model, noul |-> r.noul]
    BY <1>2 DEF RuleAnswers
  <2>3. QED
    BY <2>1, <2>2 DEF SureAnswers
<1>3. QED
  BY <1>1, <1>2

LEMMA ModelsTyped == ModelAnswers \subseteq Answers
BY DecisionsAssumption DEF ModelAnswers, Answers, ChoiceAnswer

\* FallbackDecider returns what is sure, whatever its model said.
LEMMA FallbackIsSure ==
    ASSUME NEW a \in Answers \union {NULL}, NEW r \in SureAnswers
    PROVE  Fallback(a, r) \in SureAnswers
<1>1. CASE a = NULL
  BY <1>1 DEF Fallback
<1>2. CASE a # NULL
  <2>1. a.model \in ChoiceAnswer \union {NULL} /\ a.noul \in Tenths
    BY <1>2 DEF Answers
  <2>2. ConfidentChoice(a.model) => a.model \in SureAnswer
    BY <2>1 DEF ConfidentChoice, SureAnswer
  <2>3. QED
    BY <1>2, <2>1, <2>2 DEF Fallback, SureAnswers
<1>3. QED
  BY <1>1, <1>2

-----------------------------------------------------------------------------
(* Types                                                                   *)

LEMMA WiringTyped ==
    SureInv => store \in {"file", "postgres"} /\ active \subseteq Callers
BY DecisionsAssumption DEF SureInv, TypeOK

\* A deciding process moves; nothing else about it or the operators changes.
LEMMA CallerMoves ==
    ASSUME SureInv, UNCHANGED <<store, active, index, aim, copy>>,
           NEW p \in Callers, p \in active,
           NEW place \in CallerPlaces, pc' = [pc EXCEPT ![p] = place],
           NEW d \in Answers \union {NULL}, decision' = [decision EXCEPT ![p] = d],
           place \in {"log", "commit"} => d \in SureAnswers,
           NEW i \in Ids \union {NULL}, inserted' = [inserted EXCEPT ![p] = i],
           place = "commit" => i # NULL /\ store = "postgres", i # NULL => place = "commit"
    PROVE  /\ pc' \in [Callers \union Labelers ->
                         {"idle", "ask", "log", "commit", "found", "read", "truncated"}]
           /\ decision' \in [Callers -> Answers \union {NULL}]
           /\ inserted' \in [Callers -> Ids \union {NULL}]
           /\ CallerOK' /\ LabelerOK'
<1>1. /\ pc' \in [Callers \union Labelers ->
                     {"idle", "ask", "log", "commit", "found", "read", "truncated"}]
      /\ \A q \in Callers \union Labelers : pc'[q] = IF q = p THEN place ELSE pc[q]
  BY DEF SureInv, TypeOK, CallerPlaces
<1>2. /\ decision' \in [Callers -> Answers \union {NULL}]
      /\ \A q \in Callers : decision'[q] = IF q = p THEN d ELSE decision[q]
  BY DEF SureInv, TypeOK
<1>3. /\ inserted' \in [Callers -> Ids \union {NULL}]
      /\ \A q \in Callers : inserted'[q] = IF q = p THEN i ELSE inserted[q]
  BY DEF SureInv, TypeOK
<1>4. CallerOK'
  BY <1>1, <1>2, <1>3 DEF SureInv, CallerOK
<1>5. LabelerOK'
  BY <1>1, DecisionsAssumption DEF SureInv, LabelerOK
<1>6. QED
  BY <1>1, <1>2, <1>3, <1>4, <1>5

\* What a decider's return or its exception does to the process.
LEMMA Concluded ==
    ASSUME SureInv, NEW p \in Callers, NEW yes, Conclude(p, yes)
    PROVE  /\ stage' \in [Callers -> Stages]
           /\ verdict' \in [Callers -> {"yes", "no", NULL}]
           /\ decision' = [decision EXCEPT ![p] = NULL]
           /\ \E place \in {"idle", "ask"} : pc' = [pc EXCEPT ![p] = place]
<1>1. stage' \in [Callers -> Stages]
  BY DEF Conclude, SureInv, TypeOK, Stages
<1>2. verdict' \in [Callers -> {"yes", "no", NULL}]
  BY DEF Conclude, SureInv, TypeOK
<1>3. QED
  BY <1>1, <1>2 DEF Conclude, Goto

LEMMA RaiseTyped ==
    ASSUME SureInv, NEW p \in Callers, Raise(p) \/ Return(p)
    PROVE  raised' \in [Callers -> SUBSET Stages] /\ \E yes : Conclude(p, yes)
<1>1. stage[p] \in Stages /\ raised[p] \subseteq Stages
  BY DEF SureInv, TypeOK
<1>2. raised' \in [Callers -> SUBSET Stages]
  <2> DEFINE r == IF p \in Gates THEN raised[p] \union {stage[p]} ELSE raised[p]
  <2>1. r \in SUBSET Stages
    BY <1>1
  <2>2. raised' = [raised EXCEPT ![p] = r] \/ raised' = raised
    BY DEF Raise, Return
  <2> HIDE DEF r
  <2>3. QED
    BY <2>1, <2>2 DEF SureInv, TypeOK
<1>3. QED
  BY <1>2 DEF Raise, Return

\* An operator moves; nothing about the deciding processes changes.
LEMMA LabelerMoves ==
    ASSUME SureInv, UNCHANGED <<store, active, truth, nextId, callVars>>,
           NEW l \in Labelers,
           NEW place \in LabelerPlaces, pc' = [pc EXCEPT ![l] = place],
           NEW i \in Nat, index' = [index EXCEPT ![l] = i],
           NEW a \in Ids \union {NULL}, aim' = [aim EXCEPT ![l] = a],
           NEW c \in Seq(SureRow), copy' = [copy EXCEPT ![l] = c],
           place # "idle" => a \in Ids, place \in {"read", "truncated"} => store = "file",
           rows' \in Seq(SureRow)
    PROVE  SureInv'
<1>1. /\ pc' \in [Callers \union Labelers ->
                     {"idle", "ask", "log", "commit", "found", "read", "truncated"}]
      /\ \A q \in Callers \union Labelers : pc'[q] = IF q = l THEN place ELSE pc[q]
  BY DEF SureInv, TypeOK, LabelerPlaces
<1>2. /\ aim' \in [Labelers -> Ids \union {NULL}]
      /\ \A q \in Labelers : aim'[q] = IF q = l THEN a ELSE aim[q]
  BY DEF SureInv, TypeOK
<1>3. copy' \in [Labelers -> Seq(SureRow)] /\ index' \in [Labelers -> Nat]
  BY DEF SureInv, TypeOK
<1>4. CallerOK'
  BY <1>1, DecisionsAssumption DEF SureInv, CallerOK, callVars
<1>5. LabelerOK'
  BY <1>1, <1>2 DEF SureInv, LabelerOK
<1>6. Seq(SureRow) \subseteq Seq(Row)
  BY SureIsAnswer, SeqMonotonic
<1>7. TypeOK'
  BY <1>1, <1>2, <1>3, <1>6 DEF SureInv, TypeOK, callVars, mailVars
<1>8. QED
  BY <1>3, <1>4, <1>5, <1>7 DEF SureInv

LEMMA SureStep ==
    SureInv /\ [Next]_vars => SureInv'
<1> SUFFICES ASSUME SureInv, [Next]_vars
             PROVE  SureInv'
  OBVIOUS
<1>r. Seq(SureRow) \subseteq Seq(Row) /\ SureAnswers \subseteq Answers
  BY SureIsAnswer, SeqMonotonic
<1>1. ASSUME NEW p \in Callers, Begin(p)
      PROVE  SureInv'
  <2>1. /\ p \in active /\ pc[p] = "idle" /\ pc' = [pc EXCEPT ![p] = "ask"]
        /\ UNCHANGED <<store, active, truth, rows, nextId, decision, inserted, index, aim, copy>>
    BY <1>1 DEF Begin, Goto, wiring, labelVars
  <2>2. stage' \in [Callers -> Stages] /\ flagged' \in [Callers -> BOOLEAN]
    BY <1>1 DEF Begin, SureInv, TypeOK, Stages
  <2>3. /\ heard' \in [Callers -> [Stages -> Answers \union {NULL, Late}]]
        /\ rule' \in [Callers -> Answers \union {NULL}]
        /\ raised' \in [Callers -> SUBSET Stages]
        /\ verdict' \in [Callers -> {"yes", "no", NULL}]
    <3>1. Unheard \in [Stages -> Answers \union {NULL, Late}]
      BY DEF Unheard
    <3>2. QED
      BY <1>1, <3>1 DEF Begin, SureInv, TypeOK
  <2>4. inserted[p] = NULL /\ inserted' = [inserted EXCEPT ![p] = NULL]
    BY <2>1 DEF SureInv, TypeOK, CallerOK
  <2>5. decision[p] \in Answers \union {NULL} /\ decision' = [decision EXCEPT ![p] = decision[p]]
    BY <2>1 DEF SureInv, TypeOK
  <2>6. /\ pc' \in [Callers \union Labelers ->
                       {"idle", "ask", "log", "commit", "found", "read", "truncated"}]
        /\ decision' \in [Callers -> Answers \union {NULL}]
        /\ inserted' \in [Callers -> Ids \union {NULL}]
        /\ CallerOK' /\ LabelerOK'
    BY <2>1, <2>4, <2>5, CallerMoves DEF CallerPlaces
  <2>7. QED
    BY <2>1, <2>2, <2>3, <2>6 DEF SureInv, TypeOK
<1>c. ASSUME NEW p \in Callers, pc[p] # "idle", Raise(p) \/ Return(p),
             inserted' = [inserted EXCEPT ![p] = NULL],
             nextId' \in 1..(MaxRecords + 1), rows' \in Seq(SureRow),
             heard' \in [Callers -> [Stages -> Answers \union {NULL, Late}]],
             rule' \in [Callers -> Answers \union {NULL}],
             UNCHANGED <<wiring, truth, flagged, labelVars>>
      PROVE  SureInv'
  <2>1. PICK yes : Conclude(p, yes)
    BY <1>c, RaiseTyped
  <2>2. PICK place \in {"idle", "ask"} : pc' = [pc EXCEPT ![p] = place]
    BY <2>1, Concluded
  <2>3. /\ stage' \in [Callers -> Stages]
        /\ verdict' \in [Callers -> {"yes", "no", NULL}]
        /\ decision' = [decision EXCEPT ![p] = NULL]
        /\ raised' \in [Callers -> SUBSET Stages]
    BY <1>c, <2>1, Concluded, RaiseTyped
  <2>4. p \in active /\ UNCHANGED <<store, active, index, aim, copy>>
    BY <1>c DEF SureInv, CallerOK, wiring, labelVars
  <2>5. /\ pc' \in [Callers \union Labelers ->
                       {"idle", "ask", "log", "commit", "found", "read", "truncated"}]
        /\ decision' \in [Callers -> Answers \union {NULL}]
        /\ inserted' \in [Callers -> Ids \union {NULL}]
        /\ CallerOK' /\ LabelerOK'
    <3>1. place \in CallerPlaces /\ place \notin {"log", "commit"}
      BY DEF CallerPlaces
    <3>2. QED
      BY <1>c, <2>2, <2>3, <2>4, <3>1, CallerMoves
  <2>6. QED
    BY <1>c, <1>r, <2>3, <2>4, <2>5 DEF SureInv, TypeOK
<1>2. ASSUME NEW p \in Callers, Ask(p)
      PROVE  SureInv'
  <2>1. /\ pc[p] = "ask" /\ p \in active /\ stage[p] \in Stages
        /\ UNCHANGED <<wiring, truth, rows, nextId, flagged, inserted, labelVars>>
    BY <1>2 DEF Ask, SureInv, CallerOK, TypeOK
  <2>2. inserted[p] = NULL /\ inserted' = [inserted EXCEPT ![p] = NULL]
    BY <2>1 DEF SureInv, TypeOK, CallerOK
  <2>3. PICK r \in RuleAnswers(stage[p]) :
            /\ rule' = IF p \in Gates THEN [rule EXCEPT ![p] = Asked(p, r)] ELSE rule
            /\ \/ \E a \in ModelAnswers \union {NULL} :
                    LET answers == IF a = NULL THEN NULL ELSE Asked(p, a)
                    IN  /\ heard' = IF p \in Gates THEN [heard EXCEPT ![p][stage[p]] = answers] ELSE heard
                        /\ decision' = [decision EXCEPT ![p] = Fallback(answers, Asked(p, r))]
                        /\ Goto(p, "log")
                        /\ UNCHANGED <<stage, raised, verdict>>
               \/ /\ heard' = IF p \in Gates THEN [heard EXCEPT ![p][stage[p]] = Late] ELSE heard
                  /\ Raise(p)
    BY <1>2 DEF Ask
  <2>4. Asked(p, r) \in SureAnswers
    BY RulesAreSure, AskedTyped
  <2>5. rule' \in [Callers -> Answers \union {NULL}]
    BY <1>r, <2>3, <2>4 DEF SureInv, TypeOK
  <2>h. ASSUME NEW what \in Answers \union {NULL, Late},
               heard' = IF p \in Gates THEN [heard EXCEPT ![p][stage[p]] = what] ELSE heard
        PROVE  heard' \in [Callers -> [Stages -> Answers \union {NULL, Late}]]
    <3> DEFINE w == [heard[p] EXCEPT ![stage[p]] = what]
    <3>1. w \in [Stages -> Answers \union {NULL, Late}]
      BY <2>1 DEF SureInv, TypeOK
    <3>2. heard' = [heard EXCEPT ![p] = w] \/ heard' = heard
      BY <2>h
    <3> HIDE DEF w
    <3>3. QED
      BY <3>1, <3>2 DEF SureInv, TypeOK
  <2>6. CASE heard' = (IF p \in Gates THEN [heard EXCEPT ![p][stage[p]] = Late] ELSE heard) /\ Raise(p)
    <3>1. heard' \in [Callers -> [Stages -> Answers \union {NULL, Late}]]
      BY <2>6, <2>h
    <3>2. nextId' \in 1..(MaxRecords + 1) /\ rows' \in Seq(SureRow)
      BY <2>1 DEF SureInv, TypeOK
    <3>3. QED
      BY <1>c, <2>1, <2>2, <2>5, <2>6, <3>1, <3>2
  <2>7. ASSUME NEW a \in ModelAnswers \union {NULL}, NEW answers,
               answers = IF a = NULL THEN NULL ELSE Asked(p, a),
               heard' = IF p \in Gates THEN [heard EXCEPT ![p][stage[p]] = answers] ELSE heard,
               decision' = [decision EXCEPT ![p] = Fallback(answers, Asked(p, r))],
               Goto(p, "log"), UNCHANGED <<stage, raised, verdict>>
        PROVE  SureInv'
    <3>1. answers \in Answers \union {NULL}
      BY <2>7, ModelsTyped, AskedTyped
    <3>2. Fallback(answers, Asked(p, r)) \in SureAnswers
      BY <2>4, <3>1, FallbackIsSure
    <3>3. heard' \in [Callers -> [Stages -> Answers \union {NULL, Late}]]
      BY <2>7, <2>h, <3>1
    <3>4. UNCHANGED <<store, active, index, aim, copy>> /\ pc' = [pc EXCEPT ![p] = "log"]
      BY <2>1, <2>7 DEF wiring, labelVars, Goto
    <3>5. /\ pc' \in [Callers \union Labelers ->
                         {"idle", "ask", "log", "commit", "found", "read", "truncated"}]
          /\ decision' \in [Callers -> Answers \union {NULL}]
          /\ inserted' \in [Callers -> Ids \union {NULL}]
          /\ CallerOK' /\ LabelerOK'
      <4> DEFINE d == Fallback(answers, Asked(p, r))
      <4>1. d \in SureAnswers /\ d \in Answers \union {NULL} /\ decision' = [decision EXCEPT ![p] = d]
        BY <1>r, <2>7, <3>2
      <4> HIDE DEF d
      <4>2. QED
        BY <2>1, <2>2, <3>4, <4>1, CallerMoves DEF CallerPlaces
    <3>6. QED
      BY <2>1, <2>5, <2>7, <3>3, <3>4, <3>5 DEF SureInv, TypeOK
  <2>8. QED
    BY <2>3, <2>6, <2>7
<1>n. ASSUME NEW p \in Callers, pc[p] \in {"log", "commit"}, NEW i \in Ids
      PROVE  NewRow(p, i) \in SureRow
  BY <1>n DEF NewRow, SureInv, CallerOK, SureAnswers, SureRow
<1>i. nextId <= MaxRecords => nextId \in Ids /\ nextId + 1 \in 1..(MaxRecords + 1)
  BY DecisionsAssumption DEF SureInv, TypeOK, Ids
<1>3. ASSUME NEW p \in Callers, AppendRecord(p)
      PROVE  SureInv'
  <2>1. /\ pc[p] = "log" /\ nextId <= MaxRecords /\ Return(p)
        /\ UNCHANGED <<wiring, truth, mailVars, inserted, labelVars>>
        /\ \/ rows' = Append(rows, NewRow(p, nextId)) /\ nextId' = nextId + 1
           \/ UNCHANGED <<rows, nextId>>
    BY <1>3 DEF AppendRecord
  <2>2. inserted' = [inserted EXCEPT ![p] = NULL]
    BY <2>1 DEF SureInv, TypeOK, CallerOK
  <2>3. rows' \in Seq(SureRow)
    BY <1>i, <1>n, <2>1, AppendProperties DEF SureInv
  <2>4. nextId' \in 1..(MaxRecords + 1)
    BY <1>i, <2>1 DEF SureInv, TypeOK
  <2>5. /\ UNCHANGED flagged
        /\ heard' \in [Callers -> [Stages -> Answers \union {NULL, Late}]]
        /\ rule' \in [Callers -> Answers \union {NULL}]
    BY <2>1 DEF SureInv, TypeOK, mailVars
  <2>6. QED
    BY <1>c, <2>1, <2>2, <2>3, <2>4, <2>5
<1>4. ASSUME NEW p \in Callers, InsertRecord(p)
      PROVE  SureInv'
  <2>1. /\ pc[p] = "log" /\ nextId <= MaxRecords /\ store = "postgres"
        /\ UNCHANGED <<wiring, truth, rows, flagged, heard, rule, labelVars>>
    BY <1>4 DEF InsertRecord, mailVars
  <2>2. CASE Raise(p) /\ UNCHANGED <<inserted, nextId>>
    <3>1. inserted' = [inserted EXCEPT ![p] = NULL]
      BY <2>1, <2>2 DEF SureInv, TypeOK, CallerOK
    <3>2. /\ nextId' \in 1..(MaxRecords + 1) /\ rows' \in Seq(SureRow)
          /\ heard' \in [Callers -> [Stages -> Answers \union {NULL, Late}]]
          /\ rule' \in [Callers -> Answers \union {NULL}]
      BY <2>1, <2>2 DEF SureInv, TypeOK
    <3>3. QED
      BY <1>c, <2>1, <2>2, <3>1, <3>2
  <2>3. CASE /\ inserted' = [inserted EXCEPT ![p] = nextId]
             /\ nextId' = nextId + 1
             /\ Goto(p, "commit")
             /\ UNCHANGED <<stage, raised, verdict, decision>>
    <3>1. /\ UNCHANGED <<store, active, index, aim, copy>> /\ p \in active
          /\ pc' = [pc EXCEPT ![p] = "commit"]
          /\ decision[p] \in SureAnswers /\ decision' = [decision EXCEPT ![p] = decision[p]]
          /\ nextId \in Ids /\ nextId # NULL
      BY <1>i, <2>1, <2>3, DecisionsAssumption DEF SureInv, TypeOK, CallerOK, Goto, wiring, labelVars, Ids
    <3>2. /\ pc' \in [Callers \union Labelers ->
                         {"idle", "ask", "log", "commit", "found", "read", "truncated"}]
          /\ decision' \in [Callers -> Answers \union {NULL}]
          /\ inserted' \in [Callers -> Ids \union {NULL}]
          /\ CallerOK' /\ LabelerOK'
      <4>1. decision[p] \in Answers \union {NULL}
        BY <1>r, <3>1
      <4>2. QED
        BY <2>1, <2>3, <3>1, <4>1, CallerMoves DEF CallerPlaces
    <3>3. QED
      BY <1>i, <2>1, <2>3, <3>1, <3>2 DEF SureInv, TypeOK
  <2>4. QED
    BY <1>4, <2>2, <2>3 DEF InsertRecord
<1>5. ASSUME NEW p \in Callers, CommitRecord(p)
      PROVE  SureInv'
  <2>1. /\ pc[p] = "commit" /\ (Return(p) \/ Raise(p))
        /\ inserted' = [inserted EXCEPT ![p] = NULL]
        /\ UNCHANGED <<wiring, truth, nextId, flagged, heard, rule, labelVars>>
        /\ Appear(p) \/ UNCHANGED rows
    BY <1>5 DEF CommitRecord, mailVars
  <2>2. ASSUME Appear(p)
        PROVE  rows' \in Seq(SureRow)
    <3>1. NewRow(p, inserted[p]) \in SureRow
      BY <1>n, <2>1 DEF SureInv, CallerOK, TypeOK
    <3>2. PICK n \in 0..Len(rows) :
              rows' = Inserted(rows, n, NewRow(p, inserted[p]))
      BY <2>2 DEF Appear, Inserted
    <3>3. QED
      BY <3>1, <3>2, Insertion DEF SureInv
  <2>3. rows' \in Seq(SureRow)
    BY <2>1, <2>2 DEF SureInv
  <2>4. /\ nextId' \in 1..(MaxRecords + 1)
        /\ heard' \in [Callers -> [Stages -> Answers \union {NULL, Late}]]
        /\ rule' \in [Callers -> Answers \union {NULL}]
    BY <2>1 DEF SureInv, TypeOK
  <2>5. QED
    BY <1>c, <2>1, <2>3, <2>4
<1>e. ASSUME NEW p \in Callers, Die(p)
      PROVE  SureInv'
  <2>1. /\ pc[p] # "idle" /\ p \in active /\ pc' = [pc EXCEPT ![p] = "idle"]
        /\ decision' = [decision EXCEPT ![p] = NULL] /\ inserted' = [inserted EXCEPT ![p] = NULL]
        /\ UNCHANGED <<store, active, truth, rows, nextId, verdict, index, aim, copy>>
    BY <1>e DEF Die, Goto, wiring, labelVars, SureInv, CallerOK
  <2>2. stage' \in [Callers -> Stages] /\ flagged' \in [Callers -> BOOLEAN]
    BY <1>e DEF Die, SureInv, TypeOK, Stages
  <2>3. /\ heard' \in [Callers -> [Stages -> Answers \union {NULL, Late}]]
        /\ rule' \in [Callers -> Answers \union {NULL}]
        /\ raised' \in [Callers -> SUBSET Stages]
    <3>1. Unheard \in [Stages -> Answers \union {NULL, Late}]
      BY DEF Unheard
    <3>2. QED
      BY <1>e, <3>1 DEF Die, SureInv, TypeOK
  <2>4. /\ pc' \in [Callers \union Labelers ->
                       {"idle", "ask", "log", "commit", "found", "read", "truncated"}]
        /\ decision' \in [Callers -> Answers \union {NULL}]
        /\ inserted' \in [Callers -> Ids \union {NULL}]
        /\ CallerOK' /\ LabelerOK'
    BY <2>1, CallerMoves DEF CallerPlaces
  <2>5. QED
    BY <2>1, <2>2, <2>3, <2>4 DEF SureInv, TypeOK
<1>l. \A l \in Labelers :
        /\ copy[l] \in Seq(SureRow) /\ copy = [copy EXCEPT ![l] = copy[l]]
        /\ index[l] \in Nat /\ index = [index EXCEPT ![l] = index[l]]
        /\ aim[l] \in Ids \union {NULL} /\ aim = [aim EXCEPT ![l] = aim[l]]
  BY DEF SureInv, TypeOK
<1>t. \A i \in Ids : truth[i] \in Choices
  BY DEF SureInv, TypeOK
<1>d. DOMAIN rows = 1..Len(rows) /\ Len(rows) \in Nat
  BY LenProperties DEF SureInv
<1>6. ASSUME NEW l \in Labelers, Look(l)
      PROVE  SureInv'
  <2>1. UNCHANGED <<store, active, truth, rows, nextId, callVars, copy>> /\ pc' = [pc EXCEPT ![l] = "found"]
    BY <1>6 DEF Look, wiring, Goto
  <2>2. PICK i \in DOMAIN rows :
            index' = [index EXCEPT ![l] = i] /\ aim' = [aim EXCEPT ![l] = rows[i].id]
    BY <1>6 DEF Look
  <2>3. rows[i].id \in Ids /\ i \in Nat
    <3>1. rows[i] \in SureRow
      BY <1>d, <2>2, ElementOfSeq DEF SureInv
    <3>2. QED
      BY <1>d, <3>1 DEF SureRow
  <2>4. copy' = [copy EXCEPT ![l] = copy[l]] /\ rows' \in Seq(SureRow)
    BY <1>l, <2>1 DEF SureInv
  <2>5. QED
    BY <1>l, <2>1, <2>2, <2>3, <2>4, LabelerMoves DEF LabelerPlaces
<1>g. ASSUME NEW l \in Labelers, Forget(l), rows' \in Seq(SureRow),
             UNCHANGED <<store, active, truth, nextId, callVars>>
      PROVE  SureInv'
  <2>1. <<>> \in Seq(SureRow) /\ 0 \in Nat
    OBVIOUS
  <2>2. /\ pc' = [pc EXCEPT ![l] = "idle"] /\ index' = [index EXCEPT ![l] = 0]
        /\ aim' = [aim EXCEPT ![l] = NULL] /\ copy' = [copy EXCEPT ![l] = <<>>]
    BY <1>g DEF Forget, Goto
  <2>3. QED
    BY <1>g, <2>1, <2>2, LabelerMoves DEF LabelerPlaces
<1>7. ASSUME NEW l \in Labelers, ReadAll(l)
      PROVE  SureInv'
  <2>1. /\ UNCHANGED <<store, active, truth, rows, nextId, callVars>>
        /\ store = "file" /\ pc[l] = "found" /\ rows' \in Seq(SureRow)
        /\ aim[l] \in Ids
    BY <1>7 DEF ReadAll, wiring, SureInv, LabelerOK
  <2>2. CASE Forget(l)
    BY <1>g, <2>1, <2>2
  <2>3. CASE /\ index[l] \in DOMAIN rows
             /\ copy' = [copy EXCEPT ![l] = [rows EXCEPT ![index[l]].label = truth[aim[l]]]]
             /\ Goto(l, "read")
             /\ UNCHANGED <<index, aim>>
    <3> DEFINE c == Marked(rows, index[l], truth[aim[l]])
    <3>1. c \in Seq(SureRow)
      <4>1. index[l] \in 1..Len(rows) /\ truth[aim[l]] \in Choices /\ rows \in Seq(SureRow)
        BY <1>d, <1>t, <2>1, <2>3 DEF SureInv
      <4>2. QED
        BY <4>1, Labelling
    <3>2. copy' = [copy EXCEPT ![l] = c]
      BY <2>3 DEF Marked
    <3> HIDE DEF c
    <3>3. pc' = [pc EXCEPT ![l] = "read"] /\ index' = [index EXCEPT ![l] = index[l]]
          /\ aim' = [aim EXCEPT ![l] = aim[l]]
      BY <1>l, <2>3 DEF Goto
    <3>4. QED
      BY <1>l, <2>1, <3>1, <3>2, <3>3, LabelerMoves DEF LabelerPlaces
  <2>4. QED
    BY <1>7, <2>2, <2>3 DEF ReadAll
<1>8. ASSUME NEW l \in Labelers, Truncate(l)
      PROVE  SureInv'
  <2>1. /\ UNCHANGED <<store, active, truth, nextId, callVars, index, aim, copy>>
        /\ rows' = <<>> /\ pc' = [pc EXCEPT ![l] = "truncated"] /\ pc[l] = "read"
    BY <1>8 DEF Truncate, wiring, labelVars, Goto
  <2>2. /\ rows' \in Seq(SureRow) /\ store = "file" /\ aim[l] \in Ids
        /\ copy' = [copy EXCEPT ![l] = copy[l]] /\ index' = [index EXCEPT ![l] = index[l]]
        /\ aim' = [aim EXCEPT ![l] = aim[l]]
    BY <1>l, <2>1 DEF SureInv, LabelerOK
  <2>3. QED
    BY <1>l, <2>1, <2>2, LabelerMoves DEF LabelerPlaces
<1>9. ASSUME NEW l \in Labelers, WriteAll(l)
      PROVE  SureInv'
  <2>1. /\ Forget(l) /\ UNCHANGED <<store, active, truth, nextId, callVars>>
        /\ \/ rows' = copy[l] \o SubSeq(rows, Len(copy[l]) + 1, Len(rows))
           \/ UNCHANGED rows
    BY <1>9 DEF WriteAll, wiring
  <2>2. rows' \in Seq(SureRow)
    <3>1. Len(copy[l]) \in Nat
      BY <1>l, LenProperties
    <3>2. SubSeq(rows, Len(copy[l]) + 1, Len(rows)) \in Seq(SureRow)
      <4>1. \A i \in (Len(copy[l]) + 1)..Len(rows) : i \in 1..Len(rows)
        BY <1>d, <3>1
      <4>2. QED
        BY <1>d, <3>1, <4>1, ElementOfSeq, SubSeqProperties DEF SureInv
    <3>3. copy[l] \o SubSeq(rows, Len(copy[l]) + 1, Len(rows)) \in Seq(SureRow)
      BY <1>l, <3>2, ConcatProperties
    <3>4. QED
      BY <2>1, <3>3 DEF SureInv
  <2>3. QED
    BY <1>g, <2>1, <2>2
<1>10. ASSUME NEW l \in Labelers, Label(l)
      PROVE  SureInv'
  <2>1. /\ Forget(l) /\ UNCHANGED <<store, active, truth, nextId, callVars>>
        /\ pc[l] = "found" /\ aim[l] \in Ids
        /\ rows' = IF index[l] \in DOMAIN rows
                   THEN [rows EXCEPT ![index[l]].label = truth[aim[l]]] ELSE rows
    BY <1>10 DEF Label, wiring, SureInv, LabelerOK
  <2>2. rows' \in Seq(SureRow)
    <3>1. truth[aim[l]] \in Choices /\ rows \in Seq(SureRow)
      BY <1>t, <2>1 DEF SureInv
    <3>2. CASE index[l] \in DOMAIN rows
      <4>1. index[l] \in 1..Len(rows) /\ rows' = Marked(rows, index[l], truth[aim[l]])
        BY <1>d, <2>1, <3>2 DEF Marked
      <4>2. QED
        BY <3>1, <4>1, Labelling
    <3>3. CASE index[l] \notin DOMAIN rows
      BY <2>1, <3>1, <3>3
    <3>4. QED
      BY <3>2, <3>3
  <2>3. QED
    BY <1>g, <2>1, <2>2
<1>11. CASE UNCHANGED vars
  <2>1. UNCHANGED <<store, active, truth, rows, nextId, pc, stage, flagged, heard, rule, decision,
                    inserted, raised, verdict, index, aim, copy>>
    BY <1>11 DEF vars, wiring, callVars, mailVars, labelVars
  <2>2. QED
    BY <2>1 DEF SureInv, TypeOK, CallerOK, LabelerOK
<1> HIDE DEF SureInv
<1>12. QED
  BY <1>1, <1>2, <1>3, <1>4, <1>5, <1>e, <1>6, <1>7, <1>8, <1>9, <1>10, <1>11
     DEF Next, Call, LabelStep

LEMMA SureInit == Init => SureInv
<1> SUFFICES ASSUME Init PROVE SureInv
  OBVIOUS
<1>1. <<store, active>> \in Deployments
  BY DecisionsAssumption DEF Init
<1>2. <<>> \in Seq(Row) /\ <<>> \in Seq(SureRow) /\ rows = <<>>
      /\ copy \in [Labelers -> Seq(Row)] /\ copy \in [Labelers -> Seq(SureRow)]
  BY DEF Init
<1>3. heard \in [Callers -> [Stages -> Answers \union {NULL, Late}]]
  BY DEF Init, Unheard
<1>4. nextId \in 1..(MaxRecords + 1)
  BY DecisionsAssumption DEF Init
<1>5. TypeOK
  BY <1>1, <1>2, <1>3, <1>4 DEF Init, TypeOK, Stages
<1>6. CallerOK /\ LabelerOK
  BY DEF Init, CallerOK, LabelerOK, CallerPlaces, LabelerPlaces
<1>7. QED
  BY <1>2, <1>5, <1>6 DEF SureInv

\* The state of the decision layer keeps its shape, and what reaches either log
\* is an answer of a model at or above the threshold, or one of the rules.
THEOREM DecisionsTypeCorrect == Spec => [](TypeOK /\ rows \in Seq(SureRow))
<1>1. SureInv => TypeOK /\ rows \in Seq(SureRow)
  BY DEF SureInv
<1>2. QED
  BY <1>1, SureInit, SureStep, PTL DEF Spec

-----------------------------------------------------------------------------
(* The table                                                               *)

\* Ids are taken in order, each by one insert, and rows keep theirs.  If one
\* process writes, its row comes after all others, so that the index an
\* operator read still names the record they saw.
TableInv ==
    store = "postgres" =>
        /\ \A i \in DOMAIN rows : rows[i].id < nextId
        /\ \A p \in Callers : inserted[p] # NULL =>
                /\ inserted[p] < nextId
                /\ \A i \in DOMAIN rows : rows[i].id # inserted[p]
                /\ \A q \in Callers : inserted[q] = inserted[p] => p = q
        /\ RecordedOnce
        /\ Cardinality(active) = 1 =>
            /\ \A p \in Callers : inserted[p] # NULL =>
                    \A i \in DOMAIN rows : rows[i].id < inserted[p]
            /\ \A l \in Labelers : pc[l] = "found" =>
                    index[l] \in DOMAIN rows /\ rows[index[l]].id = aim[l]

PostgresInv == TableInv /\ LabelFits

LEMMA OneActive ==
    ASSUME SureInv, Cardinality(active) = 1, NEW p \in active, NEW q \in active
    PROVE  p = q
<1>1. active \subseteq Callers
  BY WiringTyped
<1>2. IsFiniteSet(active)
  BY <1>1, DecisionsAssumption, FS_Subset
<1>3. \E x : active = {x}
  BY <1>2, FS_Singleton
<1>4. QED
  BY <1>3

LEMMA PostgresStep ==
    SureInv /\ PostgresInv /\ [Next]_vars => PostgresInv'
<1> SUFFICES ASSUME SureInv, PostgresInv, [Next]_vars
             PROVE  PostgresInv'
  OBVIOUS
<1>s. SureInv'
  BY SureStep
<1>w. UNCHANGED <<store, active, truth>>
  BY DEF Next, Call, LabelStep, Begin, Ask, AppendRecord, InsertRecord, CommitRecord, Die, Look, ReadAll,
         Truncate, WriteAll, Label, wiring, vars
<1> SUFFICES ASSUME store = "postgres"
             PROVE  PostgresInv'
  BY <1>w DEF PostgresInv, TableInv, LabelFits
<1>d. /\ DOMAIN rows = 1..Len(rows) /\ Len(rows) \in Nat
      /\ \A i \in DOMAIN rows : rows[i] \in SureRow
  BY LenProperties, ElementOfSeq DEF SureInv
<1>i. nextId \in Nat /\ NULL \notin Nat /\ \A p \in Callers : inserted[p] \in Nat \union {NULL}
  BY DecisionsAssumption DEF SureInv, TypeOK, Ids
<1>f. ASSUME UNCHANGED <<rows, nextId>>,
             \A p \in Callers : inserted'[p] \in {inserted[p], NULL},
             \A l \in Labelers : pc'[l] = "found" =>
                pc[l] = "found" /\ index'[l] = index[l] /\ aim'[l] = aim[l]
      PROVE  PostgresInv'
  <2>1. TableInv'
    BY <1>f, <1>w DEF PostgresInv, TableInv, RecordedOnce
  <2>2. LabelFits'
    BY <1>f, <1>w DEF PostgresInv, LabelFits
  <2>3. QED
    BY <2>1, <2>2 DEF PostgresInv
<1>p. ASSUME NEW p \in Callers, \E place : pc' = [pc EXCEPT ![p] = place],
             UNCHANGED labelVars
      PROVE  \A l \in Labelers : pc'[l] = pc[l] /\ index'[l] = index[l] /\ aim'[l] = aim[l]
  BY <1>p, DecisionsAssumption DEF labelVars, SureInv, TypeOK
<1>1. ASSUME NEW p \in Callers, Begin(p)
      PROVE  PostgresInv'
  BY <1>1, <1>f, <1>p DEF Begin, Goto
<1>c. ASSUME NEW p \in Callers, Raise(p) \/ Return(p)
      PROVE  \E place : pc' = [pc EXCEPT ![p] = place]
  BY <1>c, RaiseTyped, Concluded
<1>2. ASSUME NEW p \in Callers, Ask(p)
      PROVE  PostgresInv'
  <2>1. UNCHANGED <<rows, nextId, inserted, labelVars>> /\ (Goto(p, "log") \/ Raise(p))
    BY <1>2 DEF Ask
  <2>2. \E place : pc' = [pc EXCEPT ![p] = place]
    BY <1>c, <2>1 DEF Goto
  <2>3. QED
    BY <1>f, <1>p, <2>1, <2>2
<1>3. ASSUME NEW p \in Callers, AppendRecord(p)
      PROVE  PostgresInv'
  BY <1>3 DEF AppendRecord
<1>4. ASSUME NEW p \in Callers, InsertRecord(p)
      PROVE  PostgresInv'
  <2>1. UNCHANGED <<rows, labelVars>> /\ pc[p] = "log"
    BY <1>4 DEF InsertRecord
  <2>2. CASE Raise(p) /\ UNCHANGED <<inserted, nextId>>
    BY <1>c, <1>f, <1>p, <2>1, <2>2
  <2>3. CASE inserted' = [inserted EXCEPT ![p] = nextId] /\ nextId' = nextId + 1 /\ Goto(p, "commit")
    <3>1. \A l \in Labelers : pc'[l] = pc[l] /\ index'[l] = index[l] /\ aim'[l] = aim[l]
      BY <1>p, <2>1, <2>3 DEF Goto
    <3>2. \A q \in Callers : inserted'[q] = IF q = p THEN nextId ELSE inserted[q]
      BY <2>3 DEF SureInv, TypeOK
    <3>3. inserted[p] = NULL
      BY <2>1 DEF SureInv, CallerOK
    <3>4. \A i \in DOMAIN rows : rows[i].id \in Nat
      BY <1>d DEF SureRow, Ids
    <3>5. TableInv'
      BY <1>i, <1>w, <2>1, <2>3, <3>1, <3>2, <3>4 DEF PostgresInv, TableInv, RecordedOnce
    <3>6. LabelFits'
      BY <1>w, <2>1 DEF PostgresInv, LabelFits
    <3>7. QED
      BY <3>5, <3>6 DEF PostgresInv
  <2>4. QED
    BY <1>4, <2>2, <2>3 DEF InsertRecord
<1>5. ASSUME NEW p \in Callers, CommitRecord(p), ~UNCHANGED rows
      PROVE  PostgresInv'
  <2> DEFINE id == inserted[p]
             x == NewRow(p, inserted[p])
  <2>1. /\ pc[p] = "commit" /\ (Raise(p) \/ Return(p)) /\ UNCHANGED <<nextId, labelVars>>
        /\ inserted' = [inserted EXCEPT ![p] = NULL] /\ Appear(p)
    BY <1>5 DEF CommitRecord
  <2>2. PICK n \in 0..Len(rows) :
            /\ \A i \in DOMAIN rows : rows[i].id < id <=> i <= n
            /\ rows' = Inserted(rows, n, x)
    BY <2>1 DEF Appear, Inserted
  <2>3. x \in SureRow /\ x.id = id /\ x.label = NULL /\ id \in Ids /\ p \in active
    BY <2>1 DEF SureInv, CallerOK, TypeOK, NewRow, SureAnswers, SureRow
  <2> HIDE DEF x
  <2>n. n \in 0..Len(rows)
    BY <2>2
  <2>4. /\ Len(rows') = Len(rows) + 1 /\ rows' \in Seq(SureRow)
        /\ \A i \in 1..n : rows'[i] = rows[i]
        /\ rows'[n + 1] = x
        /\ \A i \in (n + 1)..Len(rows) : rows'[i + 1] = rows[i]
    <3>1. rows \in Seq(SureRow) /\ rows' = Inserted(rows, n, x) /\ x \in SureRow
      BY <2>2, <2>3 DEF SureInv
    <3>2. Len(Inserted(rows, n, x)) = Len(rows) + 1
      BY <2>n, <3>1, Insertion, SMTT(30)
    <3>3. \A i \in 1..n : Inserted(rows, n, x)[i] = rows[i]
      BY <2>n, <3>1, Insertion, SMTT(30)
    <3>4. Inserted(rows, n, x)[n + 1] = x
      BY <2>n, <3>1, Insertion, SMTT(30)
    <3>5. \A i \in (n + 1)..Len(rows) : Inserted(rows, n, x)[i + 1] = rows[i]
      BY <2>n, <3>1, Insertion, SMTT(30)
    <3>6. Inserted(rows, n, x) \in Seq(SureRow)
      BY <2>n, <3>1, Insertion, SMTT(30)
    <3>7. QED
      BY <3>1, <3>2, <3>3, <3>4, <3>5, <3>6
  <2>5. DOMAIN rows' = 1..(Len(rows) + 1)
    BY <2>4, LenProperties
  <2>6. ASSUME NEW j \in DOMAIN rows'
        PROVE  rows'[j] = x \/ \E i \in DOMAIN rows : rows'[j] = rows[i]
    <3>1. CASE j \in 1..n
      BY <1>d, <2>4, <3>1
    <3>2. CASE j = n + 1
      BY <2>4, <3>2
    <3>3. CASE j \notin 1..n /\ j # n + 1
      <4>1. j - 1 \in (n + 1)..Len(rows) /\ (j - 1) + 1 = j /\ j - 1 \in DOMAIN rows
        BY <1>d, <2>5, <2>6, <3>3
      <4>2. QED
        BY <2>4, <4>1
    <3>4. QED
      BY <3>1, <3>2, <3>3
  <2>7. RecordedOnce'
    <3>1. SUFFICES ASSUME NEW j \in DOMAIN rows', NEW k \in DOMAIN rows', rows'[j].id = rows'[k].id
                   PROVE  j = k
      BY DEF RecordedOnce
    <3>2. \A m \in DOMAIN rows' : m # n + 1 =>
             \E i \in DOMAIN rows : rows'[m] = rows[i] /\ (m = IF i <= n THEN i ELSE i + 1)
      <4>1. SUFFICES ASSUME NEW m \in DOMAIN rows', m # n + 1
                     PROVE  \E i \in DOMAIN rows : rows'[m] = rows[i] /\ (m = IF i <= n THEN i ELSE i + 1)
        OBVIOUS
      <4>2. CASE m \in 1..n
        <5>1. m \in DOMAIN rows /\ m <= n /\ rows'[m] = rows[m]
          BY <1>d, <2>n, <2>4, <4>2
        <5>2. QED
          BY <5>1
      <4>3. CASE m \notin 1..n
        <5>1. /\ m - 1 \in (n + 1)..Len(rows) /\ (m - 1) + 1 = m /\ m - 1 \in DOMAIN rows
              /\ ~(m - 1 <= n)
          BY <1>d, <2>n, <2>5, <4>1, <4>3
        <5>2. rows'[m] = rows[m - 1]
          BY <2>4, <5>1
        <5>3. QED
          BY <5>1, <5>2
      <4>4. QED
        BY <4>2, <4>3
    <3>3. \A i \in DOMAIN rows : rows[i].id # id
      BY <2>3, DecisionsAssumption DEF PostgresInv, TableInv, Ids
    <3>4. \A a, b \in DOMAIN rows : rows[a].id = rows[b].id => a = b
      BY DEF PostgresInv, TableInv, RecordedOnce
    <3>5. \A m \in DOMAIN rows' : m # n + 1 => rows'[m].id # id
      BY <3>2, <3>3
    <3>6. rows'[n + 1].id = id
      BY <2>3, <2>4
    <3>7. CASE j = n + 1 \/ k = n + 1
      BY <3>1, <3>5, <3>6, <3>7
    <3>8. CASE j # n + 1 /\ k # n + 1
      BY <3>1, <3>2, <3>4, <3>8
    <3>9. QED
      BY <3>7, <3>8
  <2>8. /\ \A l \in Labelers : pc'[l] = pc[l] /\ index'[l] = index[l] /\ aim'[l] = aim[l]
        /\ \A q \in Callers : inserted'[q] = IF q = p THEN NULL ELSE inserted[q]
    BY <1>c, <1>p, <2>1 DEF SureInv, TypeOK
  <2>9. ASSUME Cardinality(active) = 1
        PROVE  /\ \A q \in Callers : q # p => inserted[q] = NULL
               /\ \A i \in DOMAIN rows : i \in DOMAIN rows' /\ rows'[i] = rows[i]
    <3>1. \A q \in Callers : q # p => inserted[q] = NULL
      BY <2>3, <2>9, OneActive DEF SureInv, CallerOK
    <3>2. n = Len(rows)
      <4>1. \A i \in DOMAIN rows : rows[i].id < id
        BY <2>1, <2>9 DEF PostgresInv, TableInv, SureInv, CallerOK
      <4>2. QED
        <5>1. \A i \in DOMAIN rows : i <= n
          BY <2>2, <4>1
        <5>2. Len(rows) # 0 => Len(rows) \in DOMAIN rows
          BY <1>d
        <5>3. Len(rows) \in Nat /\ n \in Nat /\ n <= Len(rows)
          BY <1>d, <2>n
        <5>4. Len(rows) # 0 => Len(rows) <= n
          BY <5>1, <5>2
        <5>5. QED
          BY <5>3, <5>4
    <3>3. QED
      BY <1>d, <2>4, <2>5, <3>1, <3>2
  <2>10. TableInv'
    <3>1. \A j \in DOMAIN rows' : rows'[j].id < nextId'
      BY <2>1, <2>3, <2>6 DEF PostgresInv, TableInv, SureInv, CallerOK
    <3>2. \A q \in Callers : inserted'[q] # NULL =>
             /\ inserted'[q] < nextId'
             /\ \A j \in DOMAIN rows' : rows'[j].id # inserted'[q]
             /\ \A r \in Callers : inserted'[r] = inserted'[q] => q = r
      <4>1. SUFFICES ASSUME NEW q \in Callers, inserted'[q] # NULL
                     PROVE  /\ inserted'[q] < nextId'
                            /\ \A j \in DOMAIN rows' : rows'[j].id # inserted'[q]
                            /\ \A r \in Callers : inserted'[r] = inserted'[q] => q = r
        OBVIOUS
      <4>2. q # p /\ inserted'[q] = inserted[q] /\ id # inserted[q] /\ id # NULL
        BY <2>3, <2>8, <4>1, DecisionsAssumption DEF PostgresInv, TableInv, Ids
      <4>3. QED
        BY <2>1, <2>3, <2>6, <2>8, <4>1, <4>2 DEF PostgresInv, TableInv
    <3>3. ASSUME Cardinality(active') = 1
          PROVE  /\ \A q \in Callers : inserted'[q] = NULL
                 /\ \A l \in Labelers : pc'[l] = "found" =>
                        index'[l] \in DOMAIN rows' /\ rows'[index'[l]].id = aim'[l]
      <4>1. Cardinality(active) = 1
        BY <1>w, <3>3
      <4>2. QED
        BY <2>8, <2>9, <4>1 DEF PostgresInv, TableInv
    <3>4. QED
      BY <1>w, <2>7, <3>1, <3>2, <3>3 DEF TableInv
  <2>11. LabelFits'
    BY <1>w, <2>3, <2>6 DEF PostgresInv, LabelFits
  <2>12. QED
    BY <2>10, <2>11 DEF PostgresInv
<1>e. ASSUME NEW p \in Callers, Die(p) \/ (CommitRecord(p) /\ UNCHANGED rows)
      PROVE  PostgresInv'
  <2>1. /\ UNCHANGED <<rows, nextId, labelVars>> /\ inserted' = [inserted EXCEPT ![p] = NULL]
        /\ Goto(p, "idle") \/ Raise(p) \/ Return(p)
    BY <1>e DEF Die, CommitRecord
  <2>2. \A l \in Labelers : pc'[l] = pc[l] /\ index'[l] = index[l] /\ aim'[l] = aim[l]
    BY <1>c, <1>p, <2>1 DEF Goto
  <2>3. QED
    BY <1>f, <2>1, <2>2 DEF SureInv, TypeOK
<1>6. ASSUME NEW l \in Labelers, Look(l)
      PROVE  PostgresInv'
  <2>1. UNCHANGED <<rows, nextId, callVars>> /\ pc' = [pc EXCEPT ![l] = "found"]
    BY <1>6 DEF Look, Goto
  <2>2. PICK i \in DOMAIN rows :
            index' = [index EXCEPT ![l] = i] /\ aim' = [aim EXCEPT ![l] = rows[i].id]
    BY <1>6 DEF Look
  <2>3. \A k \in Labelers : pc'[k] = "found" =>
            \/ pc[k] = "found" /\ index'[k] = index[k] /\ aim'[k] = aim[k]
            \/ index'[k] = i /\ aim'[k] = rows[i].id
    BY <2>1, <2>2 DEF SureInv, TypeOK
  <2>4. UNCHANGED inserted
    BY <2>1 DEF callVars
  <2>5. QED
    BY <1>w, <2>1, <2>2, <2>3, <2>4 DEF PostgresInv, TableInv, RecordedOnce, LabelFits
<1>7. ASSUME NEW l \in Labelers, ReadAll(l) \/ Truncate(l) \/ WriteAll(l)
      PROVE  PostgresInv'
  BY <1>7 DEF ReadAll, Truncate, WriteAll, SureInv, LabelerOK
<1>8. ASSUME NEW l \in Labelers, Label(l)
      PROVE  PostgresInv'
  <2>1. /\ UNCHANGED <<nextId, inserted>> /\ Forget(l) /\ pc[l] = "found" /\ aim[l] \in Ids
        /\ rows' = IF index[l] \in DOMAIN rows
                   THEN [rows EXCEPT ![index[l]].label = truth[aim[l]]] ELSE rows
    BY <1>8 DEF Label, callVars, SureInv, LabelerOK
  <2>2. \A k \in Labelers : pc'[k] = "found" =>
            pc[k] = "found" /\ index'[k] = index[k] /\ aim'[k] = aim[k]
    BY <2>1 DEF Forget, Goto, SureInv, TypeOK
  <2>3. CASE index[l] \notin DOMAIN rows
    BY <1>f, <2>1, <2>2, <2>3
  <2>4. CASE index[l] \in DOMAIN rows
    <3>1. rows' = Marked(rows, index[l], truth[aim[l]])
      BY <2>1, <2>4 DEF Marked
    <3>2. rows \in Seq(SureRow) /\ index[l] \in 1..Len(rows) /\ truth[aim[l]] \in Choices
      BY <1>d, <2>1, <2>4 DEF SureInv, TypeOK
    <3>3. /\ Len(rows') = Len(rows) /\ rows' \in Seq(SureRow)
          /\ \A i \in 1..Len(rows) : i # index[l] => rows'[i] = rows[i]
          /\ rows'[index[l]].id = rows[index[l]].id /\ rows'[index[l]].label = truth[aim[l]]
      BY <3>1, <3>2, Labelling
    <3>4. DOMAIN rows' = DOMAIN rows
      BY <1>d, <3>3, LenProperties
    <3>5. \A i \in DOMAIN rows : rows'[i].id = rows[i].id
      BY <1>d, <3>3
    <3>6. TableInv'
      BY <1>w, <2>1, <2>2, <3>4, <3>5 DEF PostgresInv, TableInv, RecordedOnce
    <3>7. LabelFits'
      <4>1. SUFFICES ASSUME Cardinality(active) = 1, NEW i \in DOMAIN rows
                     PROVE  rows'[i].label \in {NULL, truth[rows'[i].id]}
        BY <1>w, <3>4 DEF LabelFits
      <4>2. CASE i = index[l]
        BY <2>1, <3>3, <4>1, <4>2 DEF PostgresInv, TableInv
      <4>3. CASE i # index[l]
        BY <1>d, <3>3, <4>1, <4>3 DEF PostgresInv, LabelFits
      <4>4. QED
        BY <4>2, <4>3
    <3>8. QED
      BY <3>6, <3>7 DEF PostgresInv
  <2>5. QED
    BY <2>3, <2>4
<1>9. CASE UNCHANGED vars
  BY <1>9, <1>f DEF vars, callVars, labelVars
<1> HIDE DEF PostgresInv
<1>10. QED
  BY <1>1, <1>2, <1>3, <1>4, <1>5, <1>e, <1>6, <1>7, <1>8, <1>9 DEF Next, Call, LabelStep

LEMMA PostgresInit == Init => PostgresInv
BY DEF Init, PostgresInv, TableInv, RecordedOnce, LabelFits

\* PostgresDecisionLog.label names a record by its position, and still labels
\* the one its operator saw, whatever is added meanwhile, if one process writes.
THEOREM LabelFitsCorrect == Spec => []LabelFits
<1>1. PostgresInv => LabelFits
  BY DEF PostgresInv
<1>2. QED
  BY <1>1, SureInit, SureStep, PostgresInit, PostgresStep, PTL DEF Spec

-----------------------------------------------------------------------------
(* The file                                                                *)

\* The decision id stands at position i of the file, or of what some label read
\* and is about to write.
Placed(i, id) ==
    \/ i \in DOMAIN rows /\ rows[i].id = id
    \/ \E l \in Labelers : i \in DOMAIN copy[l] /\ copy[l][i].id = id

\* Every decision has one position, wherever it is written.
FileInv ==
    store = "file" =>
        \A id \in Ids, i \in Nat : Placed(i, id) =>
            /\ id < nextId
            /\ \A j \in Nat : Placed(j, id) => i = j

LEMMA FileStep ==
    SureInv /\ FileInv /\ [Next]_vars => FileInv'
<1> SUFFICES ASSUME SureInv, FileInv, [Next]_vars
             PROVE  FileInv'
  OBVIOUS
<1>w. UNCHANGED <<store, active>>
  BY DEF Next, Call, LabelStep, Begin, Ask, AppendRecord, InsertRecord, CommitRecord, Die, Look, ReadAll,
         Truncate, WriteAll, Label, wiring, vars
<1> SUFFICES ASSUME store = "file"
             PROVE  FileInv'
  BY <1>w DEF FileInv
<1>i. nextId \in Nat
  BY DEF SureInv, TypeOK
<1>d. DOMAIN rows = 1..Len(rows) /\ Len(rows) \in Nat /\ rows \in Seq(SureRow)
  BY LenProperties DEF SureInv
<1>l. \A l \in Labelers : copy[l] \in Seq(SureRow)
  BY DEF SureInv
<1>k. ASSUME UNCHANGED nextId, \A id \in Ids, i \in Nat : Placed(i, id)' => Placed(i, id)
      PROVE  FileInv'
  BY <1>k, <1>w DEF FileInv
<1>u. ASSUME UNCHANGED <<rows, nextId, copy>>
      PROVE  FileInv'
  BY <1>u, <1>k DEF Placed
<1>1. ASSUME NEW p \in Callers, Begin(p) \/ Ask(p) \/ Die(p)
      PROVE  FileInv'
  BY <1>1, <1>u DEF Begin, Ask, Die, labelVars
<1>2. ASSUME NEW p \in Callers, InsertRecord(p) \/ CommitRecord(p)
      PROVE  FileInv'
  BY <1>2 DEF InsertRecord, CommitRecord, SureInv, CallerOK
<1>3. ASSUME NEW p \in Callers, AppendRecord(p)
      PROVE  FileInv'
  <2>1. UNCHANGED copy
    BY <1>3 DEF AppendRecord, labelVars
  <2>2. CASE UNCHANGED <<rows, nextId>>
    BY <1>u, <2>1, <2>2
  <2>3. CASE rows' = Append(rows, NewRow(p, nextId)) /\ nextId' = nextId + 1
    <3>1. NewRow(p, nextId).id = nextId
      BY DEF NewRow
    <3>2. /\ DOMAIN rows' = 1..(Len(rows) + 1) /\ rows'[Len(rows) + 1] = NewRow(p, nextId)
          /\ \A i \in 1..Len(rows) : rows'[i] = rows[i]
      BY <1>d, <2>3
    <3>3. ASSUME NEW id \in Ids, NEW i \in Nat, Placed(i, id)'
          PROVE  Placed(i, id) \/ (id = nextId /\ i = Len(rows) + 1)
      <4>1. CASE i \in DOMAIN rows' /\ rows'[i].id = id
        BY <1>d, <3>1, <3>2, <4>1 DEF Placed
      <4>2. CASE \E l \in Labelers : i \in DOMAIN copy[l] /\ copy[l][i].id = id
        BY <4>2 DEF Placed
      <4>3. QED
        BY <2>1, <3>3, <4>1, <4>2 DEF Placed
    <3>4. \A id \in Ids, i \in Nat : Placed(i, id) => id < nextId
      BY DEF FileInv
    <3>5. \A id \in Ids : id \in Nat
      BY DEF Ids
    <3> SUFFICES ASSUME NEW id \in Ids, NEW i \in Nat, Placed(i, id)'
                 PROVE  id < nextId' /\ \A j \in Nat : Placed(j, id)' => i = j
      BY DEF FileInv
    <3>6. CASE Placed(i, id)
      <4>1. id < nextId /\ id # nextId /\ \A j \in Nat : Placed(j, id) => i = j
        BY <1>i, <3>4, <3>5, <3>6 DEF FileInv
      <4>2. QED
        BY <1>i, <2>3, <3>3, <3>5, <4>1
    <3>7. CASE id = nextId /\ i = Len(rows) + 1
      <4>1. \A j \in Nat : ~Placed(j, id)
        BY <1>i, <3>4, <3>7
      <4>2. QED
        BY <1>i, <2>3, <3>3, <3>7, <4>1
    <3>8. QED
      BY <3>3, <3>6, <3>7
  <2>4. QED
    BY <1>3, <2>2, <2>3 DEF AppendRecord
<1>g. ASSUME NEW l \in Labelers, NEW c, copy' = [copy EXCEPT ![l] = c], UNCHANGED nextId,
             \A i \in Nat, id \in Ids :
                (i \in DOMAIN rows' /\ rows'[i].id = id) \/ (i \in DOMAIN c /\ c[i].id = id)
                    => Placed(i, id)
      PROVE  FileInv'
  <2>1. \A k \in Labelers : copy'[k] = IF k = l THEN c ELSE copy[k]
    BY <1>g DEF SureInv
  <2>2. ASSUME NEW id \in Ids, NEW i \in Nat, Placed(i, id)'
        PROVE  Placed(i, id)
    <3>1. CASE i \in DOMAIN rows' /\ rows'[i].id = id
      BY <1>g, <3>1
    <3>2. ASSUME NEW k \in Labelers, i \in DOMAIN copy'[k], copy'[k][i].id = id
          PROVE  Placed(i, id)
      <4>1. CASE k = l
        BY <1>g, <2>1, <3>2, <4>1
      <4>2. CASE k # l
        BY <2>1, <3>2, <4>2 DEF Placed
      <4>3. QED
        BY <4>1, <4>2
    <3>3. QED
      BY <2>2, <3>1, <3>2 DEF Placed
  <2>3. QED
    BY <1>g, <1>k, <2>2
<1>z. \A i : i \notin DOMAIN <<>>
  OBVIOUS
<1>4. ASSUME NEW l \in Labelers, Look(l)
      PROVE  FileInv'
  BY <1>4, <1>u DEF Look
<1>5. ASSUME NEW l \in Labelers, ReadAll(l)
      PROVE  FileInv'
  <2>1. UNCHANGED <<rows, nextId>> /\ pc[l] = "found" /\ aim[l] \in Ids
    BY <1>5 DEF ReadAll, SureInv, LabelerOK
  <2>2. CASE Forget(l)
    <3>1. copy' = [copy EXCEPT ![l] = <<>>]
      BY <2>2 DEF Forget
    <3>2. \A i \in Nat, id \in Ids :
             (i \in DOMAIN rows' /\ rows'[i].id = id) \/ (i \in DOMAIN <<>> /\ <<>>[i].id = id)
                 => Placed(i, id)
      BY <1>z, <2>1 DEF Placed
    <3>3. QED
      BY <1>g, <2>1, <3>1, <3>2
  <2>3. CASE index[l] \in DOMAIN rows /\ copy' = [copy EXCEPT ![l] = [rows EXCEPT ![index[l]].label = truth[aim[l]]]]
    <3>1. PICK c : c = Marked(rows, index[l], truth[aim[l]])
      OBVIOUS
    <3>2. index[l] \in 1..Len(rows) /\ truth[aim[l]] \in Choices
      BY <1>d, <2>1, <2>3 DEF SureInv, TypeOK
    <3>3. /\ c \in Seq(SureRow) /\ Len(c) = Len(rows)
          /\ \A i \in 1..Len(rows) : c[i].id = rows[i].id
      <4>1. PICK k \in 1..Len(rows), t \in Choices : k = index[l] /\ t = truth[aim[l]]
        BY <3>2
      <4>2. /\ c \in Seq(SureRow) /\ Len(c) = Len(rows)
            /\ \A i \in 1..Len(rows) : i # k => c[i] = rows[i]
            /\ c[k].id = rows[k].id
        BY <1>d, <3>1, <4>1, Labelling
      <4>3. QED
        BY <4>2
    <3>4. DOMAIN c = DOMAIN rows
      BY <1>d, <3>3, LenProperties
    <3>5. copy' = [copy EXCEPT ![l] = c]
      BY <2>3, <3>1 DEF Marked
    <3>6. QED
      <4>1. \A i \in Nat, id \in Ids :
               (i \in DOMAIN rows' /\ rows'[i].id = id) \/ (i \in DOMAIN c /\ c[i].id = id)
                   => Placed(i, id)
        BY <1>d, <2>1, <3>3, <3>4 DEF Placed
      <4>2. QED
        BY <1>g, <2>1, <3>5, <4>1
  <2>4. QED
    BY <1>5, <2>2, <2>3 DEF ReadAll
<1>6. ASSUME NEW l \in Labelers, Truncate(l)
      PROVE  FileInv'
  BY <1>6, <1>k DEF Truncate, Placed, labelVars
<1>7. ASSUME NEW l \in Labelers, WriteAll(l)
      PROVE  FileInv'
  <2>1. UNCHANGED nextId /\ copy' = [copy EXCEPT ![l] = <<>>]
    BY <1>7 DEF WriteAll, Forget
  <2>2. ASSUME NEW i \in Nat, NEW id \in Ids, i \in DOMAIN rows', rows'[i].id = id
        PROVE  Placed(i, id)
    <3>1. CASE UNCHANGED rows
      BY <2>2, <3>1 DEF Placed
    <3>2. CASE rows' = copy[l] \o SubSeq(rows, Len(copy[l]) + 1, Len(rows))
      <4>1. PICK c, tail : c = copy[l] /\ tail = SubSeq(rows, Len(copy[l]) + 1, Len(rows))
        OBVIOUS
      <4>2. c \in Seq(SureRow) /\ Len(c) \in Nat /\ DOMAIN c = 1..Len(c)
        BY <1>l, <4>1, LenProperties
      <4>3. /\ tail \in Seq(SureRow)
            /\ Len(tail) = IF Len(c) + 1 <= Len(rows) THEN Len(rows) - Len(c) ELSE 0
            /\ \A j \in 1..Len(tail) : tail[j] = rows[Len(c) + j]
        <5>1. \A j \in (Len(c) + 1)..Len(rows) : j \in 1..Len(rows)
          BY <1>d, <4>2
        <5>2. /\ tail \in Seq(SureRow)
              /\ Len(tail) = IF Len(c) + 1 <= Len(rows) THEN Len(rows) - (Len(c) + 1) + 1 ELSE 0
              /\ \A j \in 1..(Len(rows) - (Len(c) + 1) + 1) : tail[j] = rows[Len(c) + 1 + j - 1]
          <6>1. PICK m, n : m = Len(c) + 1 /\ n = Len(rows)
            OBVIOUS
          <6>2. tail = SubSeq(rows, m, n) /\ m \in Nat /\ n \in Nat
            BY <1>d, <4>1, <4>2, <6>1
          <6>3. QED
            BY <1>d, <4>2, <6>1, <6>2
        <5>3. PICK m, n : m = Len(c) /\ n = Len(rows)
          OBVIOUS
        <5>4. m \in Nat /\ n \in Nat
          BY <1>d, <4>2, <5>3
        <5>5. Len(tail) = IF m + 1 <= n THEN n - m ELSE 0
          BY <5>2, <5>3, <5>4
        <5>6. \A j \in 1..Len(tail) : j \in 1..(n - (m + 1) + 1) /\ m + 1 + j - 1 = m + j
          BY <5>4, <5>5
        <5>7. QED
          BY <5>2, <5>3, <5>5, <5>6
      <4>4. /\ Len(tail) \in Nat
            /\ Len(rows') = Len(c) + Len(tail) /\ rows' \in Seq(SureRow)
            /\ \A j \in 1..(Len(c) + Len(tail)) : rows'[j] = IF j <= Len(c) THEN c[j] ELSE tail[j - Len(c)]
        <5>1. rows' = c \o tail /\ Len(tail) \in Nat
          BY <3>2, <4>1, <4>3, LenProperties
        <5>2. QED
          BY <4>2, <4>3, <5>1, ConcatProperties
      <4>5. DOMAIN rows' = 1..(Len(c) + Len(tail))
        BY <4>4, LenProperties
      <4>6. CASE i <= Len(c)
        <5>1. i \in DOMAIN c /\ c[i].id = id
          BY <2>2, <4>2, <4>4, <4>5, <4>6
        <5>2. QED
          BY <4>1, <5>1 DEF Placed
      <4>7. CASE ~(i <= Len(c))
        <5>1. i - Len(c) \in 1..Len(tail) /\ Len(c) + (i - Len(c)) = i
          BY <2>2, <4>2, <4>4, <4>5, <4>7
        <5>2. rows'[i] = rows[i]
          BY <2>2, <4>3, <4>4, <4>5, <4>7, <5>1
        <5>3. i \in DOMAIN rows
          <6>1. PICK m, n, k : m = Len(c) /\ n = Len(rows) /\ k = Len(tail)
            OBVIOUS
          <6>2. m \in Nat /\ n \in Nat /\ k \in Nat /\ k = IF m + 1 <= n THEN n - m ELSE 0
            BY <1>d, <4>2, <4>3, <4>4, <6>1
          <6>3. i - m \in 1..k
            BY <5>1, <6>1
          <6>4. i \in 1..n
            BY <6>2, <6>3
          <6>5. QED
            BY <1>d, <6>1, <6>4
        <5>4. QED
          BY <2>2, <5>2, <5>3 DEF Placed
      <4>8. QED
        BY <4>6, <4>7
    <3>3. QED
      BY <1>7, <3>1, <3>2 DEF WriteAll
  <2>3. \A i \in Nat, id \in Ids :
           (i \in DOMAIN rows' /\ rows'[i].id = id) \/ (i \in DOMAIN <<>> /\ <<>>[i].id = id)
               => Placed(i, id)
    BY <1>z, <2>2
  <2>4. QED
    BY <1>g, <2>1, <2>3
<1>8. ASSUME NEW l \in Labelers, Label(l)
      PROVE  FileInv'
  BY <1>8 DEF Label
<1>9. CASE UNCHANGED vars
  BY <1>9, <1>u DEF vars, labelVars
<1> HIDE DEF FileInv, SureInv
<1>10. QED
  BY <1>1, <1>2, <1>3, <1>4, <1>5, <1>6, <1>7, <1>8, <1>9 DEF Next, Call, LabelStep

\* No decision is in the log twice, in the file although label rewrites it under
\* appends and other labels, for any number of processes and operators.
THEOREM RecordedOnceCorrect == Spec => []RecordedOnce
<1>1. Init => FileInv
  BY DEF Init, FileInv, Placed
<1>2. SureInv /\ FileInv /\ PostgresInv => RecordedOnce
  <2>1. SUFFICES ASSUME SureInv, FileInv, store = "file"
                 PROVE  RecordedOnce
    BY WiringTyped DEF PostgresInv, TableInv
  <2>2. \A i \in DOMAIN rows : i \in Nat /\ rows[i].id \in Ids
    <3>1. \A i \in DOMAIN rows : i \in Nat /\ rows[i] \in SureRow
      BY <2>1, LenProperties, ElementOfSeq DEF SureInv
    <3>2. QED
      BY <3>1 DEF SureRow
  <2>3. QED
    BY <2>1, <2>2 DEF FileInv, Placed, RecordedOnce
<1>3. QED
  BY <1>1, <1>2, SureInit, SureStep, FileStep, PostgresInit, PostgresStep, PTL DEF Spec

-----------------------------------------------------------------------------
(* The gates                                                               *)

RulesFor(p, s) == IF s = "assess" THEN DefaultAnswer ELSE rule[p]
Says(p, s) == s \notin raised[p] /\ SaysYes(Fallback(heard[p][s], RulesFor(p, s)))

\* A decider raises only if its model is too late, or an insert fails.
Excused(p) == \A s \in raised[p] : heard[p][s] = Late \/ store = "postgres"

\* While a gate decides, it has no verdict; in its second stage everything said
\* no in the first; and what its decider returned is what GateAnswers speaks of.
Deciding(p) ==
    /\ pc[p] # "idle" =>
        /\ verdict[p] = NULL
        /\ stage[p] \notin raised[p] /\ "human" \notin raised[p]
        /\ stage[p] = "human" => ~flagged[p] /\ ~Says(p, "assess")
    /\ pc[p] \in {"log", "commit"} => decision[p] = Fallback(heard[p][stage[p]], RulesFor(p, stage[p]))

Answered(p) ==
    verdict[p] # NULL =>
        IF flagged[p] \/ Says(p, "assess")
        THEN verdict[p] = "yes"
        ELSE (verdict[p] = "yes") = Says(p, "human")

GateOK(p) == Excused(p) /\ Deciding(p) /\ Answered(p)
GateInv == \A p \in Gates : GateOK(p)

LEMMA GateFrame ==
    ASSUME NEW q \in Gates, GateOK(q), store' = store, pc'[q] = pc[q], stage'[q] = stage[q],
           flagged'[q] = flagged[q], heard'[q] = heard[q], rule'[q] = rule[q],
           decision'[q] = decision[q], raised'[q] = raised[q], verdict'[q] = verdict[q]
    PROVE  GateOK(q)'
<1>1. \A s : Says(q, s)' = Says(q, s)
  BY DEF Says, RulesFor
<1>2. Excused(q)'
  BY DEF GateOK, Excused
<1>3. Deciding(q)'
  BY <1>1 DEF GateOK, Deciding, RulesFor
<1>4. Answered(q)'
  BY <1>1 DEF GateOK, Answered
<1>5. QED
  BY <1>2, <1>3, <1>4 DEF GateOK

\* A stage ends, with what the decider returned or, after an exception, with no.
LEMMA StageEnds ==
    ASSUME SureInv, GateInv, NEW p \in Gates, pc[p] # "idle", NEW yes, Conclude(p, yes),
           NEW now, now = stage[p], yes \in BOOLEAN, yes = Says(p, now)', Excused(p)',
           stage[p] = "human" => ~flagged[p] /\ ~Says(p, "assess")',
           stage[p] = "assess" => "human" \notin raised'[p],
           UNCHANGED <<store, flagged>>
    PROVE  GateOK(p)'
<1>1. p \in Callers /\ p \notin Shells /\ stage[p] \in Stages /\ verdict[p] = NULL
  BY DecisionsAssumption DEF Callers, SureInv, TypeOK, GateInv, GateOK, Deciding
<1>2. CASE /\ stage[p] = "assess" /\ ~(flagged[p] \/ yes)
           /\ stage' = [stage EXCEPT ![p] = "human"]
           /\ Goto(p, "ask") /\ UNCHANGED verdict
  <2>1. stage'[p] = "human" /\ pc'[p] = "ask" /\ verdict'[p] = NULL /\ flagged'[p] = flagged[p]
    BY <1>1, <1>2 DEF Goto, SureInv, TypeOK
  <2>2. ~Says(p, "assess")'
    BY <1>2
  <2>3. Deciding(p)'
    BY <1>2, <2>1, <2>2 DEF Deciding
  <2>4. QED
    BY <2>1, <2>3 DEF GateOK, Answered
<1>3. CASE /\ stage[p] = "human" \/ flagged[p] \/ yes
           /\ verdict' = [verdict EXCEPT ![p] = IF flagged[p] \/ yes THEN "yes" ELSE "no"]
           /\ Goto(p, "idle")
  <2>1. /\ pc'[p] = "idle" /\ verdict'[p] = (IF flagged[p] \/ yes THEN "yes" ELSE "no")
        /\ flagged'[p] = flagged[p]
    BY <1>1, <1>3 DEF Goto, SureInv, TypeOK
  <2>2. Deciding(p)'
    BY <2>1 DEF Deciding
  <2>3. CASE stage[p] = "human"
    BY <2>1, <2>2, <2>3 DEF GateOK, Answered
  <2>4. CASE stage[p] = "assess"
    BY <1>3, <2>1, <2>2, <2>4 DEF GateOK, Answered
  <2>5. QED
    BY <1>1, <2>3, <2>4 DEF Stages
<1>4. QED
  BY <1>1, <1>2, <1>3 DEF Conclude

\* What one process does, no other notices.
LEMMA OthersKeep ==
    ASSUME SureInv, NEW p \in Callers, Call(p), NEW q \in Callers, q # p
    PROVE  /\ store' = store /\ pc'[q] = pc[q] /\ stage'[q] = stage[q]
           /\ flagged'[q] = flagged[q] /\ heard'[q] = heard[q] /\ rule'[q] = rule[q]
           /\ decision'[q] = decision[q] /\ raised'[q] = raised[q] /\ verdict'[q] = verdict[q]
<1> USE DEF SureInv, TypeOK, wiring, mailVars
<1>1. ASSUME Raise(p) \/ Return(p)
      PROVE  /\ pc'[q] = pc[q] /\ stage'[q] = stage[q] /\ decision'[q] = decision[q]
             /\ raised'[q] = raised[q] /\ verdict'[q] = verdict[q]
  <2>1. PICK yes : Conclude(p, yes)
    BY <1>1, RaiseTyped
  <2>2. pc'[q] = pc[q] /\ stage'[q] = stage[q] /\ decision'[q] = decision[q] /\ verdict'[q] = verdict[q]
    BY <2>1 DEF Conclude, Goto
  <2>3. raised'[q] = raised[q]
    BY <1>1 DEF Raise, Return
  <2>4. QED
    BY <2>2, <2>3
<1>2. CASE Begin(p)
  BY <1>2 DEF Begin, Goto
<1>3. CASE Ask(p)
  <2>1. store' = store /\ flagged'[q] = flagged[q]
    BY <1>3 DEF Ask
  <2>2. heard'[q] = heard[q] /\ rule'[q] = rule[q]
    BY <1>3 DEF Ask
  <2>3. \/ Raise(p)
        \/ Goto(p, "log") /\ UNCHANGED <<stage, raised, verdict>> /\ \E d : decision' = [decision EXCEPT ![p] = d]
    BY <1>3 DEF Ask
  <2>4. QED
    BY <1>1, <2>1, <2>2, <2>3 DEF Goto
<1>4. CASE AppendRecord(p)
  BY <1>1, <1>4 DEF AppendRecord
<1>7. CASE CommitRecord(p)
  <2>1. UNCHANGED <<store, flagged, heard, rule>> /\ (Raise(p) \/ Return(p))
    BY <1>7 DEF CommitRecord
  <2>2. QED
    BY <1>1, <2>1
<1>8. CASE Die(p)
  BY <1>8 DEF Die, Goto
<1>5. CASE InsertRecord(p)
  <2>1. UNCHANGED <<store, flagged, heard, rule>>
    BY <1>5 DEF InsertRecord
  <2>2. Raise(p) \/ (Goto(p, "commit") /\ UNCHANGED <<stage, raised, verdict, decision>>)
    BY <1>5 DEF InsertRecord
  <2>3. QED
    BY <1>1, <2>1, <2>2 DEF Goto
<1>6. QED
  BY <1>2, <1>3, <1>4, <1>5, <1>7, <1>8 DEF Call

\* The decider returned what the gate's answers are worth.
LEMMA ReturnEnds ==
    ASSUME SureInv, GateInv, NEW p \in Gates, pc[p] \in {"log", "commit"}, Return(p),
           UNCHANGED <<store, flagged, heard, rule>>
    PROVE  GateOK(p)'
<1>n. PICK now, yes : now = stage[p] /\ yes = SaysYes(decision[p])
  OBVIOUS
<1>1. /\ Conclude(p, yes) /\ UNCHANGED raised /\ yes \in BOOLEAN
      /\ GateOK(p) /\ now \in Stages /\ now \notin raised[p]
      /\ decision[p] = Fallback(heard[p][now], RulesFor(p, now))
  BY <1>n DEF Return, SaysYes, GateInv, GateOK, Deciding, SureInv, TypeOK, Callers
<1>2. \A s : Says(p, s)' = Says(p, s)
  BY <1>1 DEF Says, RulesFor
<1>3. yes = Says(p, now)
  BY <1>1, <1>n DEF Says
<1>4. yes = Says(p, now)'
  BY <1>2, <1>3
<1>5. Excused(p)'
  BY <1>1 DEF GateOK, Excused
<1>6. stage[p] = "human" => ~flagged[p] /\ ~Says(p, "assess")'
  BY <1>1, <1>2 DEF GateOK, Deciding
<1>7. "human" \notin raised'[p]
  BY <1>1 DEF GateOK, Deciding
<1>8. QED
  BY <1>1, <1>4, <1>5, <1>6, <1>7, <1>n, StageEnds

\* The decider raised: for its gate that is a no.
LEMMA RaiseEnds ==
    ASSUME SureInv, GateInv, NEW p \in Gates, pc[p] # "idle", Raise(p), UNCHANGED <<store, flagged>>,
           \A s \in Stages : s # stage[p] => heard'[p][s] = heard[p][s],
           heard'[p][stage[p]] = Late \/ store = "postgres"
    PROVE  GateOK(p)'
<1>n. PICK now : now = stage[p]
  OBVIOUS
<1>1. /\ Conclude(p, FALSE) /\ raised'[p] = raised[p] \union {now}
      /\ GateOK(p) /\ now \in Stages /\ raised[p] \subseteq Stages
  BY <1>n DEF Raise, GateInv, SureInv, TypeOK, Callers
<1>2. heard'[p][now] = Late \/ store = "postgres"
  BY <1>n
<1>3. \A s \in Stages : s # now => heard'[p][s] = heard[p][s]
  BY <1>n
<1>5. Says(p, now)' = FALSE
  BY <1>1 DEF Says
<1>6. Excused(p)'
  BY <1>1, <1>2, <1>3 DEF GateOK, Excused
<1>7. ASSUME stage[p] = "human"
      PROVE  ~flagged[p] /\ ~Says(p, "assess")'
  <2>1. now = "human" /\ "assess" \in Stages
    BY <1>n, <1>7 DEF Stages
  <2>2. heard'[p]["assess"] = heard[p]["assess"] /\ ("assess" \in raised'[p] <=> "assess" \in raised[p])
    BY <1>1, <1>3, <2>1
  <2>3. Says(p, "assess")' => Says(p, "assess")
    BY <2>2 DEF Says, RulesFor
  <2>4. QED
    BY <1>1, <1>7, <2>3 DEF GateOK, Deciding
<1>8. stage[p] = "assess" => "human" \notin raised'[p]
  BY <1>1, <1>n DEF GateOK, Deciding
<1>9. QED
  BY <1>1, <1>n, <1>5, <1>6, <1>7, <1>8, StageEnds

LEMMA GateStep ==
    SureInv /\ GateInv /\ [Next]_vars => GateInv'
<1> SUFFICES ASSUME SureInv, GateInv, [Next]_vars
             PROVE  GateInv'
  OBVIOUS
<1>g. Gates \subseteq Callers
  BY DEF Callers
<1>o. ASSUME NEW p \in Callers, Call(p), p \in Gates => GateOK(p)'
      PROVE  GateInv'
  <2>1. SUFFICES ASSUME NEW q \in Gates, q # p PROVE GateOK(q)'
    BY <1>o DEF GateInv
  <2>2. QED
    BY <1>g, <1>o, <2>1, OthersKeep, GateFrame DEF GateInv
<1>1. ASSUME NEW p \in Gates, Begin(p)
      PROVE  GateOK(p)'
  <2>1. /\ pc'[p] = "ask" /\ stage'[p] = "assess" /\ heard'[p] = Unheard
        /\ raised'[p] = {} /\ verdict'[p] = NULL
    BY <1>1, <1>g DEF Begin, Goto, SureInv, TypeOK
  <2>2. Excused(p)'
    BY <2>1, DecisionsAssumption DEF Excused, Unheard
  <2>3. QED
    BY <2>1, <2>2 DEF GateOK, Deciding, Answered
<1>2. ASSUME NEW p \in Gates, Ask(p)
      PROVE  GateOK(p)'
  <2>n. PICK now : now = stage[p]
    OBVIOUS
  <2>1. /\ pc[p] = "ask" /\ UNCHANGED <<store, flagged>> /\ p \in Callers /\ p \notin Shells
        /\ now \in Stages /\ GateOK(p)
    BY <1>2, <1>g, <2>n, DecisionsAssumption DEF Ask, wiring, SureInv, TypeOK, GateInv
  <2>2. PICK r \in RuleAnswers(now) :
            /\ rule' = [rule EXCEPT ![p] = Asked(p, r)]
            /\ \/ \E a \in ModelAnswers \union {NULL} :
                    LET answers == IF a = NULL THEN NULL ELSE Asked(p, a)
                    IN  /\ heard' = [heard EXCEPT ![p][now] = answers]
                        /\ decision' = [decision EXCEPT ![p] = Fallback(answers, Asked(p, r))]
                        /\ Goto(p, "log")
                        /\ UNCHANGED <<stage, raised, verdict>>
               \/ heard' = [heard EXCEPT ![p][now] = Late] /\ Raise(p)
    BY <1>2, <2>n DEF Ask
  <2>h. ASSUME NEW what, heard' = [heard EXCEPT ![p][now] = what]
        PROVE  \A s \in Stages : heard'[p][s] = IF s = now THEN what ELSE heard[p][s]
    BY <2>1, <2>h DEF SureInv, TypeOK
  <2>4. CASE heard' = [heard EXCEPT ![p][now] = Late] /\ Raise(p)
    <3>1. \A s \in Stages : heard'[p][s] = IF s = now THEN Late ELSE heard[p][s]
      BY <2>4, <2>h
    <3>2. QED
      BY <2>1, <2>n, <2>4, <3>1, RaiseEnds
  <2>5. ASSUME NEW a \in ModelAnswers \union {NULL}, NEW answers,
               answers = IF a = NULL THEN NULL ELSE Asked(p, a),
               heard' = [heard EXCEPT ![p][now] = answers],
               decision' = [decision EXCEPT ![p] = Fallback(answers, Asked(p, r))],
               Goto(p, "log"), UNCHANGED <<stage, raised, verdict>>
        PROVE  GateOK(p)'
    <3>1. answers # Late
      BY <2>5, ModelsTyped, AskedTyped, DecisionsAssumption
    <3>2. \A s \in Stages : heard'[p][s] = IF s = now THEN answers ELSE heard[p][s]
      BY <2>5, <2>h
    <3>3. Excused(p)'
      BY <2>1, <2>n, <2>5, <3>1, <3>2 DEF GateOK, Excused, Deciding, SureInv, TypeOK
    <3>4. now = "human" => ~Says(p, "assess")' /\ ~flagged'[p]
      <4>1. ASSUME now = "human" PROVE heard'[p]["assess"] = heard[p]["assess"]
        BY <3>2, <4>1 DEF Stages
      <4>2. QED
        BY <2>1, <2>n, <2>5, <4>1 DEF GateOK, Deciding, Says, RulesFor
    <3>5. rule'[p] = Asked(p, r) /\ pc'[p] = "log" /\ decision'[p] = Fallback(answers, Asked(p, r))
      BY <2>1, <2>2, <2>5 DEF Goto, SureInv, TypeOK
    <3>6. now = "assess" => Asked(p, r) = DefaultAnswer
      BY <2>1, <2>2 DEF RuleAnswers, Asked, DefaultAnswer
    <3>7. decision'[p] = Fallback(heard'[p][now], RulesFor(p, now)')
      BY <2>1, <3>2, <3>5, <3>6 DEF RulesFor
    <3>8. stage'[p] = now /\ raised'[p] = raised[p] /\ verdict'[p] = NULL /\ now \notin raised[p]
          /\ "human" \notin raised[p]
      BY <2>1, <2>n, <2>5 DEF GateOK, Deciding
    <3>9. Deciding(p)'
      BY <3>4, <3>5, <3>7, <3>8 DEF Deciding, RulesFor
    <3>10. QED
      BY <3>3, <3>8, <3>9 DEF GateOK, Answered
  <2>6. QED
    BY <2>2, <2>4, <2>5
<1>3. ASSUME NEW p \in Gates, AppendRecord(p) \/ CommitRecord(p)
      PROVE  GateOK(p)'
  <2>1. /\ pc[p] \in {"log", "commit"} /\ UNCHANGED <<store, flagged, heard, rule>>
        /\ Return(p) \/ (Raise(p) /\ store = "postgres")
    BY <1>3, <1>g DEF AppendRecord, CommitRecord, wiring, mailVars, SureInv, CallerOK
  <2>2. CASE Return(p)
    BY <2>1, <2>2, ReturnEnds
  <2>3. CASE Raise(p) /\ store = "postgres"
    BY <2>1, <2>3, RaiseEnds
  <2>4. QED
    BY <2>1, <2>2, <2>3
<1>e. ASSUME NEW p \in Gates, Die(p)
      PROVE  GateOK(p)'
  <2>1. pc'[p] = "idle" /\ raised'[p] = {} /\ verdict'[p] = NULL
    BY <1>e, <1>g DEF Die, Goto, SureInv, TypeOK, GateInv, GateOK, Deciding
  <2>2. QED
    BY <2>1 DEF GateOK, Excused, Deciding, Answered
<1>4. ASSUME NEW p \in Gates, InsertRecord(p)
      PROVE  GateOK(p)'
  <2>1. /\ pc[p] = "log" /\ store = "postgres" /\ UNCHANGED <<store, flagged, heard, rule>>
        /\ GateOK(p)
    BY <1>4 DEF InsertRecord, wiring, mailVars, GateInv
  <2>2. CASE Raise(p)
    BY <2>1, <2>2, RaiseEnds
  <2>3. CASE Goto(p, "commit") /\ UNCHANGED <<stage, raised, verdict, decision>>
    <3>1. pc'[p] = "commit"
      BY <1>g, <2>3 DEF Goto, SureInv, TypeOK
    <3>2. \A s : Says(p, s)' = Says(p, s)
      BY <2>1, <2>3 DEF Says, RulesFor
    <3>3. Deciding(p)'
      BY <2>1, <2>3, <3>1, <3>2 DEF GateOK, Deciding, RulesFor
    <3>4. QED
      BY <2>1, <2>3, <3>2, <3>3 DEF GateOK, Excused, Answered
  <2>4. QED
    BY <1>4, <2>2, <2>3 DEF InsertRecord
<1>5. ASSUME NEW p \in Callers, Call(p)
      PROVE  GateInv'
  <2>1. p \in Gates => GateOK(p)'
    BY <1>1, <1>2, <1>3, <1>e, <1>4, <1>5 DEF Call
  <2>2. QED
    BY <1>5, <1>o, <2>1
<1>6. ASSUME NEW l \in Labelers, LabelStep(l)
      PROVE  GateInv'
  <2>1. UNCHANGED <<store, callVars>> /\ \E place : Goto(l, place)
    BY <1>6 DEF LabelStep, Look, ReadAll, Truncate, WriteAll, Label, Forget, wiring
  <2>2. \A q \in Gates : pc'[q] = pc[q]
    BY <1>g, <2>1, DecisionsAssumption DEF Goto, SureInv, TypeOK
  <2>3. QED
    BY <2>1, <2>2, GateFrame DEF callVars, mailVars, GateInv
<1>7. CASE UNCHANGED vars
  BY <1>7, GateFrame DEF vars, wiring, callVars, mailVars, GateInv
<1>8. QED
  BY <1>5, <1>6, <1>7 DEF Next

\* A mail runs without a human only if scanner, security question and human
\* question all said no, and is parked as soon as one says yes: failing models
\* and logs change that only where a model is too late or the table fails.
THEOREM GateAnswersCorrect == Spec => []GateAnswers
<1>1. Init => GateInv
  <2>1. SUFFICES ASSUME Init, NEW p \in Gates PROVE GateOK(p)
    BY DEF GateInv
  <2>2. pc[p] = "idle" /\ verdict[p] = NULL /\ raised[p] = {} /\ heard[p] = Unheard
    BY <2>1 DEF Init, Callers
  <2>3. QED
    BY <2>2, DecisionsAssumption DEF GateOK, Excused, Deciding, Answered, Unheard
<1>2. GateInv => GateAnswers
  BY DEF GateInv, GateOK, Excused, Answered, GateAnswers, SaysOf, Says, RulesFor
<1>3. QED
  BY <1>1, <1>2, SureInit, SureStep, GateStep, PTL DEF Spec

-----------------------------------------------------------------------------
(* Calibration                                                             *)

\* Some tenth is the least of each set of them.
LEMMA SomeLeast ==
    ASSUME NEW S \in SUBSET Tenths, S # {}
    PROVE  \E x \in S : \A y \in S : x <= y
<1> DEFINE below(k) == \A y \in S : k <= y
<1>1. SUFFICES ASSUME \A k \in Tenths : below(k) => k \notin S
               PROVE  FALSE
  OBVIOUS
<1>2. S \subseteq 0..10
  BY DEF Tenths
<1>3. below(0)
  BY <1>2
<1>4. \A k \in 0..10 : below(k) => below(k + 1)
  BY <1>1, <1>2 DEF Tenths
<1> HIDE DEF below
<1>5. below(11)
  BY <1>3, <1>4
<1>6. PICK z \in S : TRUE
  OBVIOUS
<1>7. QED
  BY <1>2, <1>5, <1>6 DEF below

LEMMA LeastOf ==
    ASSUME NEW S \in SUBSET Tenths, S # {}
    PROVE  Least(S) \in S /\ \A y \in S : Least(S) <= y
<1>1. \E x \in S : \A y \in S : x <= y
  BY SomeLeast
<1>2. QED
  BY <1>1 DEF Least

LEMMA GreatestOf ==
    ASSUME NEW S \in SUBSET Tenths, S # {}
    PROVE  Greatest(S) \in S /\ \A y \in S : y <= Greatest(S)
<1>1. \E x \in S : \A y \in S : y <= x
  <2> DEFINE T == {10 - x : x \in S}
  <2>1. T \in SUBSET Tenths /\ T # {}
    <3>1. \A x \in S : x \in 0..10 /\ 10 - x \in Tenths
      BY DEF Tenths
    <3>2. QED
      BY <3>1
  <2>2. PICK t \in T : \A u \in T : t <= u
    <3> HIDE DEF T
    <3>1. QED
      BY <2>1, SomeLeast
  <2>3. PICK x \in S : t = 10 - x
    BY <2>2
  <2>4. ASSUME NEW y \in S PROVE y <= x
    BY <2>2, <2>3 DEF Tenths
  <2>5. QED
    BY <2>4
<1>2. QED
  BY <1>1 DEF Greatest

\* Some band begins at or below everything that can be logged: the threshold,
\* and the least confidence of the rules.
EdgesReachDown == \E e \in Edges : e <= Threshold /\ e <= 7

\* _bucket_index puts a confidence into a band at or above an edge exactly when
\* the confidence reaches the edge.
LEMMA BandReaches ==
    ASSUME EdgesReachDown, NEW c \in Tenths, c >= Threshold \/ c >= 7, NEW e \in Edges
    PROVE  Band(c) >= e <=> c >= e
<1> DEFINE reached == {x \in Edges : x <= c}
<1>1. reached \in SUBSET Tenths /\ Edges \subseteq Tenths
  BY DecisionsAssumption
<1>2. reached # {}
  BY DecisionsAssumption DEF EdgesReachDown, Tenths
<1>3. Band(c) = Greatest(reached)
  BY <1>2 DEF Band
<1>4. Greatest(reached) \in reached /\ \A y \in reached : y <= Greatest(reached)
  BY <1>1, <1>2, GreatestOf
<1>5. QED
  BY <1>1, <1>3, <1>4 DEF Tenths

LEMMA Earned ==
    ASSUME EdgesReachDown, rows \in Seq(SureRow)
    PROVE  ThresholdEarned
<1> DEFINE reaching(c) == {i \in Labelled : rows[i].model.confidence >= c}
           good == {e \in Edges : From(e) # {} /\ Meets(From(e))}
<1>1. ASSUME NEW i \in Labelled
      PROVE  /\ rows[i].model.confidence \in Tenths
             /\ rows[i].model.confidence >= Threshold \/ rows[i].model.confidence >= 7
  <2>1. rows[i] \in SureRow /\ rows[i].model # NULL
    BY <1>1, LenProperties, ElementOfSeq DEF Labelled
  <2>2. rows[i].model \in SureAnswer
    BY <2>1 DEF SureRow
  <2>3. QED
    BY <2>2 DEF SureAnswer, ChoiceAnswer
<1>2. \A e \in Edges : From(e) = reaching(e)
  BY <1>1, BandReaches DEF From
<1>3. Edges \subseteq Tenths /\ good \in SUBSET Tenths
  BY DecisionsAssumption
<1>4. SUFFICES ASSUME Recommended # NULL
               PROVE  /\ reaching(Recommended) # {} /\ Meets(reaching(Recommended))
                      /\ \A e \in Edges : e < Recommended => ~Meets(reaching(e))
  BY DEF ThresholdEarned
<1>5. good # {} /\ Recommended = Least(good)
  BY <1>4 DEF Recommended
<1>6. Recommended \in good /\ \A e \in good : Recommended <= e
  BY <1>3, <1>5, LeastOf
<1>7. reaching(Recommended) # {} /\ Meets(reaching(Recommended))
  BY <1>2, <1>6
<1>8. ASSUME NEW e \in Edges, e < Recommended
      PROVE  ~Meets(reaching(e))
  <2>1. e \in Tenths /\ Recommended \in Tenths
    BY <1>3, <1>6
  <2>2. reaching(Recommended) \subseteq reaching(e)
    <3>1. SUFFICES ASSUME NEW i \in Labelled, rows[i].model.confidence >= Recommended
                   PROVE  rows[i].model.confidence >= e
      OBVIOUS
    <3>2. PICK c \in Tenths : c = rows[i].model.confidence
      BY <1>1
    <3>3. c >= Recommended
      BY <3>1, <3>2
    <3>4. c >= e
      BY <1>8, <2>1, <3>3 DEF Tenths
    <3>5. QED
      BY <3>2, <3>4
  <2>3. From(e) # {} /\ e \notin good
    BY <1>2, <1>6, <1>7, <1>8, <2>1, <2>2 DEF Tenths
  <2>4. QED
    BY <1>2, <1>8, <2>3
<1>9. QED
  BY <1>7, <1>8

\* _recommend returns what it is for: of the labelled answers that reach the
\* recommended threshold enough are right, and no lower edge would do; for any
\* bands of which one begins at or below what can be logged.
THEOREM ThresholdEarnedCorrect == EdgesReachDown => (Spec => []ThresholdEarned)
<1> SUFFICES ASSUME EdgesReachDown PROVE Spec => []ThresholdEarned
  OBVIOUS
<1>1. SureInv => ThresholdEarned
  BY Earned DEF SureInv
<1>2. QED
  BY <1>1, SureInit, SureStep, PTL DEF Spec
=============================================================================
