--------------------- MODULE TaskResultObservationProofs ---------------------
(***************************************************************************)
(* Proofs about TaskResultObservation: its types, that it implements       *)
(* ResultDelivery, and what becomes of a wait-all group, for any tasks,    *)
(* policies, outputs, group, number of calls, sessions and restarts.       *)
(***************************************************************************)
EXTENDS TaskResultObservation, TLAPS

(***************************************************************************)
(* The inductive invariants.  A call that reads or records holds the       *)
(* session it records in, and calls on one result follow each other.       *)
(***************************************************************************)
WriterHeld == \A c \in Call : at[c] \in {"reading", "recording"} => using[c] # None

OneAtATime ==
  \A c, d \in Call : ResultOf(c) = ResultOf(d) /\ Begun(c) /\ Begun(d) => c = d

CallInv == TypeOK /\ WriterHeld /\ OneAtATime

\* What is on record of a result, and what was made of it.
Recorded(r) ==
  /\ journal["observation"][r] \in {0, 1}
  /\ journal["followup"][r] \in {0, 1}
  /\ sent[r] \in {0, 1}
  /\ journal["followup"][r] = 1 => journal["observation"][r] = 1
  /\ sent[r] = 1 => journal["followup"][r] = 1

\* What a call is to append is not there, what it appended is, and a follow-up
\* it is to hand over was not handed over.
Promising(c) ==
  /\ at[c] = "recording" =>
       /\ \A k \in due[c] : journal[k][ResultOf(c)] = 0
       /\ "observation" \notin due[c] => journal["observation"][ResultOf(c)] = 1
       /\ "followup" \in due[c] => follows[c]
       /\ follows[c] /\ "followup" \notin due[c] => journal["followup"][ResultOf(c)] = 1
       /\ follows[c] => sent[ResultOf(c)] = 0
  /\ at[c] = "dispatching" =>
       journal["followup"][ResultOf(c)] = 1 /\ sent[ResultOf(c)] = 0

DeliveryInv ==
  /\ \A r \in Result : Recorded(r)
  /\ \A c \in Call : Promising(c)

\* No task is terminal while the tasks are being read, and a call for a
\* follow-up of a member that waits began after all members had ended.
GroupInv ==
  /\ phase = "loading" => Ended = {}
  /\ \A c \in Call :
       /\ Begun(c) /\ follows[c]
       /\ TaskOf(c) \in Group /\ ~GivesPolicy(TaskOf(c))
       => Group \subseteq Ended

-----------------------------------------------------------------------------
\* A result is a task and a terminal status; a call is on a result.
LEMMA ResultFacts ==
  ASSUME NEW r \in Result
  PROVE  r = <<r[1], r[2]>> /\ r[1] \in Task /\ r[2] \in Ending /\ r[2] # None
BY TasksAssumption, NamesAssumption

LEMMA CallFacts ==
  ASSUME NEW c \in Call
  PROVE  ResultOf(c) \in Result /\ TaskOf(c) = ResultOf(c)[1] /\ TaskOf(c) \in Task
<1>1. ResultOf(c) \in Result
  BY DEF Call, ResultOf
<1> QED  BY <1>1, ResultFacts DEF ResultOf, TaskOf

\* record() appends what is missing, the observation first.
LEMMA FirstFacts ==
  ASSUME NEW entries \in SUBSET Entry, entries # {}
  PROVE  /\ First(entries) \in entries /\ First(entries) \in Entry
         /\ "observation" \in entries => First(entries) = "observation"
BY DEF First, Entry

\* A call that goes on changes its own locals only.
LEMMA GotoFacts ==
  ASSUME TypeOK, NEW c \in Call, NEW stage, NEW wanted, NEW entries, NEW writer,
         Goto(c, stage, wanted, entries, writer)
  PROVE  /\ at'[c] = stage /\ follows'[c] = wanted
         /\ due'[c] = entries /\ using'[c] = writer
         /\ \A d \in Call \ {c} : /\ at'[d] = at[d] /\ follows'[d] = follows[d]
                                  /\ due'[d] = due[d] /\ using'[d] = using[d]
BY DEF TypeOK, Goto

\* ... and keeps them typed.
LEMMA GotoTypes ==
  ASSUME TypeOK, NEW c \in Call, NEW stage \in Stages, NEW wanted \in BOOLEAN,
         NEW entries \in SUBSET Entry, NEW writer \in used \cup {None},
         Goto(c, stage, wanted, entries, writer)
  PROVE  /\ at' \in [Call -> Stages] /\ follows' \in [Call -> BOOLEAN]
         /\ due' \in [Call -> SUBSET Entry] /\ using' \in [Call -> used \cup {None}]
BY DEF TypeOK, Goto

\* A report adds one waiting call on each of its results.
LEMMA HandledFacts ==
  ASSUME TypeOK, NEW S \in SUBSET Result, Handled(S)
  PROVE  /\ at' \in [Call -> Stages]
         /\ \A c \in Call : \/ at'[c] = at[c]
                            \/ ResultOf(c) \in S /\ at[c] = "none" /\ at'[c] = "waiting"
         /\ \A t \in S : \E c \in CallsOn(t) : at'[c] = "waiting"
<1> DEFINE chosen(t) == CHOOSE d \in FreeCalls(t) : TRUE
<1>1. \A t \in S : chosen(t) \in FreeCalls(t)
  BY DEF Handled
<1>2. \A t \in S : chosen(t) \in Call /\ ResultOf(chosen(t)) = t /\ at[chosen(t)] = "none"
  BY <1>1 DEF FreeCalls, CallsOn
<1>3. at' = [c \in Call |-> IF ResultOf(c) \in S /\ c = chosen(ResultOf(c))
                             THEN "waiting" ELSE at[c]]
  BY DEF Handled
<1> HIDE DEF chosen
<1>4. at' \in [Call -> Stages]
  BY <1>3 DEF TypeOK, Stages
<1>5. \A c \in Call : \/ at'[c] = at[c]
                      \/ ResultOf(c) \in S /\ at[c] = "none" /\ at'[c] = "waiting"
  BY <1>2, <1>3
<1>6. ASSUME NEW t \in S
      PROVE  \E c \in CallsOn(t) : at'[c] = "waiting"
  <2>1. chosen(t) \in CallsOn(t)
    BY <1>2 DEF CallsOn
  <2>2. at'[chosen(t)] = "waiting"
    BY <1>2, <1>3
  <2> QED
    BY <2>1, <2>2
<1> QED
  BY <1>4, <1>5, <1>6

\* The session given out is one.
LEMMA ConnectFacts ==
  ASSUME Connect
  PROVE  session' \in Session
<1>1. \E s \in Session : s \notin used
  BY DEF Connect
<1> QED
  BY <1>1 DEF Connect

-----------------------------------------------------------------------------
\* The types, that recording calls hold a session, and that calls on a
\* result follow each other, hold in every state.
LEMMA CallInvInit == Init => CallInv
<1> SUFFICES ASSUME Init
             PROVE  CallInv
  OBVIOUS
<1>1. TypeOK
  BY NamesAssumption DEF Init, TypeOK, Stages
<1>2. \A c \in Call : at[c] = "none"
  BY DEF Init
<1> QED
  BY <1>1, <1>2 DEF CallInv, WriterHeld, OneAtATime, Begun

\* Steps that leave the calls where they are, or make some wait.
LEMMA CallInvStays ==
  ASSUME CallInv, TypeOK', UNCHANGED <<due, using>>,
         \A c \in Call : at'[c] = at[c] \/ at'[c] = "waiting"
  PROVE  CallInv'
BY DEF CallInv, WriterHeld, OneAtATime, Begun

\* A call goes on: it holds a session if it reads or records, and it had begun
\* or no other had.
LEMMA CallInvGoto ==
  ASSUME CallInv, TypeOK', NEW c \in Call, NEW stage \in Stages, NEW wanted, NEW entries,
         NEW writer, Goto(c, stage, wanted, entries, writer),
         stage \in {"reading", "recording"} => writer # None,
         Begun(c) \/ ~\E d \in CallsOn(ResultOf(c)) : Begun(d)
  PROVE  CallInv'
<1>1. /\ at'[c] = stage /\ using'[c] = writer
      /\ \A d \in Call \ {c} : at'[d] = at[d] /\ using'[d] = using[d]
  BY GotoFacts DEF CallInv
<1>2. WriterHeld'
  BY <1>1 DEF CallInv, WriterHeld
<1>3. OneAtATime'
  <2> SUFFICES ASSUME NEW d \in Call, NEW e \in Call, ResultOf(d) = ResultOf(e),
                      Begun(d)', Begun(e)'
               PROVE  d = e
    BY DEF OneAtATime
  <2>1. CASE d # c /\ e # c
    BY <2>1, <1>1 DEF CallInv, OneAtATime, Begun
  <2>2. CASE d = c /\ e # c
    <3>1. Begun(e)
      BY <2>2, <1>1 DEF Begun
    <3>2. e \in CallsOn(ResultOf(c))
      BY <2>2 DEF CallsOn
    <3> QED
      BY <2>2, <3>1, <3>2 DEF CallInv, OneAtATime
  <2>3. CASE d # c /\ e = c
    <3>1. Begun(d)
      BY <2>3, <1>1 DEF Begun
    <3>2. d \in CallsOn(ResultOf(c))
      BY <2>3 DEF CallsOn
    <3> QED
      BY <2>3, <3>1, <3>2 DEF CallInv, OneAtATime
  <2> QED
    BY <2>1, <2>2, <2>3
<1> QED
  BY <1>2, <1>3 DEF CallInv

\* A step keeps the types.
LEMMA TypeStep == CallInv /\ [Next]_vars => TypeOK'
<1> SUFFICES ASSUME CallInv, [Next]_vars
             PROVE  TypeOK'
  OBVIOUS
<1> USE DEF CallInv
<1>1. ASSUME NEW r \in Result, TaskEnds(r[1], r[2])
      PROVE  TypeOK'
  <2>0. <<r[1], r[2]>> \in Result /\ r[1] \in Task /\ r[2] \in Ending
    BY ResultFacts
  <2>1. at' \in [Call -> Stages]
    BY <1>1, <2>0, HandledFacts DEF TaskEnds
  <2>2. status' \in [Task -> Ending \cup {None}]
    BY <1>1, <2>0 DEF TaskEnds, TypeOK
  <2>3. \A t \in Task : loaded'[t] \in {None, status'[t]}
    BY <1>1, <2>0 DEF TaskEnds, TypeOK
  <2> QED
    BY <1>1, <2>1, <2>2, <2>3 DEF TaskEnds, TypeOK, sessionVars
<1>2. ASSUME NEW r \in Result, Report(r[1], r[2])
      PROVE  TypeOK'
  <2>1. at' \in [Call -> Stages]
    BY <1>2, ResultFacts, HandledFacts DEF Report
  <2> QED
    BY <1>2, <2>1 DEF Report, TypeOK, sessionVars, taskVars
<1>3. CASE Restart
  <2>1. /\ loaded' \in [Task -> Ending \cup {None}]
        /\ status' \in [Task -> Ending \cup {None}] /\ phase' = "loading"
        /\ at' \in [Call -> Stages]
    BY <1>3 DEF Restart, Stages
  <2>2. missed' \subseteq Result /\ restarts' \in 0 .. MaxRestarts
    BY <1>3, NamesAssumption DEF Restart, TypeOK
  <2> QED
    BY <1>3, <2>1, <2>2 DEF Restart, TypeOK
<1>4. CASE Load
  BY <1>4 DEF Load, TypeOK, sessionVars, callVars
<1>5. CASE Connect
  BY <1>5, ConnectFacts DEF Connect, TypeOK, taskVars, callVars
<1>6. CASE Disconnect
  BY <1>6 DEF Disconnect, TypeOK, taskVars, callVars
<1>7. ASSUME NEW c \in Call, Proceed(c)
      PROVE  TypeOK'
  <2>0. ResultOf(c) \in Result
    BY CallFacts
  <2>1. CASE Begin(c)
    <3>1. Follows(TaskOf(c)) \in BOOLEAN
      BY DEF Follows
    <3>2. Goto(c, "resolved", Follows(TaskOf(c)), {}, None)
      BY <2>1 DEF Begin
    <3>3. /\ at' \in [Call -> Stages] /\ follows' \in [Call -> BOOLEAN]
          /\ due' \in [Call -> SUBSET Entry] /\ using' \in [Call -> used \cup {None}]
      BY <3>1, <3>2, GotoTypes DEF Stages
    <3> QED
      BY <2>1, <3>3 DEF Begin, TypeOK, taskVars, sessionVars
  <2>2. CASE FindAgent(c)
    <3>1. follows[c] \in BOOLEAN /\ session \in used \cup {None}
      BY DEF TypeOK
    <3>2. /\ at' \in [Call -> Stages] /\ follows' \in [Call -> BOOLEAN]
          /\ due' \in [Call -> SUBSET Entry] /\ using' \in [Call -> used \cup {None}]
      BY <2>2, <3>1, GotoTypes DEF FindAgent, Fails, Stages
    <3>3. missed' \subseteq Result
      BY <2>2, <2>0 DEF FindAgent, Fails, TypeOK
    <3> QED
      BY <2>2, <3>2, <3>3 DEF FindAgent, TypeOK, taskVars, sessionVars
  <2>3. CASE ReadJournal(c)
    <3>1. using[c] \in used \cup {None}
      BY DEF TypeOK
    <3>2. \A output \in Output :
            /\ Missing(ResultOf(c), output, follows[c]) \in SUBSET Entry
            /\ ("followup" \in Missing(ResultOf(c), output, follows[c])) \in BOOLEAN
      BY DEF Missing, Entry
    <3>3. /\ at' \in [Call -> Stages] /\ follows' \in [Call -> BOOLEAN]
          /\ due' \in [Call -> SUBSET Entry] /\ using' \in [Call -> used \cup {None}]
      <4>1. PICK stage \in Stages, wanted \in BOOLEAN, entries \in SUBSET Entry,
                 writer \in used \cup {None} : Goto(c, stage, wanted, entries, writer)
        BY <2>3, <3>1, <3>2 DEF ReadJournal, Fails, Returns, Stages
      <4> QED
        BY <4>1, GotoTypes
    <3>4. missed' \subseteq Result
      BY <2>3, <2>0 DEF ReadJournal, Fails, Returns, TypeOK
    <3> QED
      BY <2>3, <3>3, <3>4 DEF ReadJournal, TypeOK, taskVars, sessionVars
  <2>4. CASE AppendEntry(c)
    <3>1. /\ using[c] \in used \cup {None} /\ using[c] # None
          /\ due[c] \in SUBSET Entry /\ follows[c] \in BOOLEAN
      BY <2>4 DEF TypeOK, AppendEntry, WriterHeld
    <3>2. First(due[c]) \in Entry
      BY <2>4, <3>1, FirstFacts DEF AppendEntry
    <3>3. /\ at' \in [Call -> Stages] /\ follows' \in [Call -> BOOLEAN]
          /\ due' \in [Call -> SUBSET Entry] /\ using' \in [Call -> used \cup {None}]
      BY <2>4, <3>1, GotoTypes DEF AppendEntry, Fails, Stages
    <3>4. missed' \subseteq Result
      BY <2>4, <2>0 DEF AppendEntry, Fails, TypeOK
    <3>5. journal' \in [Entry -> [Result -> Nat]]
      <4>1. ASSUME NEW k \in Entry, NEW t \in Result
            PROVE  [journal EXCEPT ![k][t] = @ + 1] \in [Entry -> [Result -> Nat]]
        <5>1. journal[k] \in [Result -> Nat]
          BY DEF TypeOK
        <5>2. [journal[k] EXCEPT ![t] = @ + 1] \in [Result -> Nat]
          BY <5>1
        <5> QED
          BY <5>2 DEF TypeOK
      <4>2. CASE UNCHANGED journal
        BY <4>2 DEF TypeOK
      <4>3. CASE journal' = [journal EXCEPT ![First(due[c])][ResultOf(c)] = @ + 1]
        BY <2>0, <3>2, <4>1, <4>3
      <4> QED
        BY <2>4, <4>2, <4>3 DEF AppendEntry
    <3>6. broken' \subseteq used
      BY <2>4, <3>1 DEF AppendEntry, TypeOK
    <3> QED
      BY <2>4, <3>3, <3>4, <3>5, <3>6 DEF AppendEntry, TypeOK, taskVars
  <2>5. CASE Flush(c)
    <3>1. /\ at' \in [Call -> Stages] /\ follows' \in [Call -> BOOLEAN]
          /\ due' \in [Call -> SUBSET Entry] /\ using' \in [Call -> used \cup {None}]
      BY <2>5, GotoTypes DEF Flush, Fails, Returns, Stages
    <3>2. missed' \subseteq Result
      BY <2>5, <2>0 DEF Flush, Fails, Returns, TypeOK
    <3> QED
      BY <2>5, <3>1, <3>2 DEF Flush, TypeOK, taskVars, sessionVars
  <2>6. CASE Dispatch(c)
    <3>1. /\ at' \in [Call -> Stages] /\ follows' \in [Call -> BOOLEAN]
          /\ due' \in [Call -> SUBSET Entry] /\ using' \in [Call -> used \cup {None}]
      BY <2>6, GotoTypes DEF Dispatch, Fails, Returns, Stages
    <3>2. missed' \subseteq Result
      BY <2>6, <2>0 DEF Dispatch, Fails, Returns, TypeOK
    <3>3. sent' \in [Result -> Nat]
      BY <2>6, <2>0 DEF Dispatch, TypeOK
    <3> QED
      BY <2>6, <3>1, <3>2, <3>3 DEF Dispatch, TypeOK, taskVars, sessionVars
  <2> QED
    BY <1>7, <2>1, <2>2, <2>3, <2>4, <2>5, <2>6 DEF Proceed
<1>8. CASE UNCHANGED vars
  BY <1>8 DEF TypeOK, vars, taskVars, sessionVars, callVars
<1> QED
  BY <1>1, <1>2, <1>3, <1>4, <1>5, <1>6, <1>7, <1>8 DEF Next

\* What AppendEntry makes of the journal.
LEMMA AppendFacts ==
  ASSUME TypeOK, NEW k \in Entry, NEW t \in Result,
         journal' = [journal EXCEPT ![k][t] = @ + 1]
  PROVE  /\ journal'[k][t] = journal[k][t] + 1
         /\ \A u \in Result \ {t} : journal'[k][u] = journal[k][u]
         /\ \A l \in Entry \ {k} : journal'[l] = journal[l]
<1>1. journal \in [Entry -> [Result -> Nat]] /\ journal[k] \in [Result -> Nat]
  BY DEF TypeOK
<1>2. journal' = [journal EXCEPT ![k] = [journal[k] EXCEPT ![t] = journal[k][t] + 1]]
  BY <1>1
<1>3. journal'[k] = [journal[k] EXCEPT ![t] = journal[k][t] + 1]
  BY <1>1, <1>2
<1> QED
  BY <1>1, <1>2, <1>3

\* The calls: each step keeps what CallInv says of them.
LEMMA CallInvStep == CallInv /\ [Next]_vars => CallInv'
<1> SUFFICES ASSUME CallInv, [Next]_vars
             PROVE  CallInv'
  OBVIOUS
<1>0. TypeOK /\ TypeOK'
  BY TypeStep DEF CallInv
<1>1. ASSUME NEW r \in Result, TaskEnds(r[1], r[2])
      PROVE  CallInv'
  <2>1. \A c \in Call : at'[c] = at[c] \/ at'[c] = "waiting"
    BY <1>0, <1>1, ResultFacts, HandledFacts DEF TaskEnds
  <2> QED
    BY <1>0, <1>1, <2>1, CallInvStays DEF TaskEnds
<1>2. ASSUME NEW r \in Result, Report(r[1], r[2])
      PROVE  CallInv'
  <2>1. \A c \in Call : at'[c] = at[c] \/ at'[c] = "waiting"
    BY <1>0, <1>2, ResultFacts, HandledFacts DEF Report
  <2> QED
    BY <1>0, <1>2, <2>1, CallInvStays DEF Report
<1>3. CASE Restart
  <2>1. \A c \in Call : at'[c] = "none"
    BY <1>3, CallFacts DEF Restart
  <2> QED
    BY <1>0, <2>1 DEF CallInv, WriterHeld, OneAtATime, Begun
<1>4. CASE Load
  BY <1>0, <1>4, CallInvStays DEF Load, callVars
<1>5. CASE Connect
  BY <1>0, <1>5, CallInvStays DEF Connect, callVars
<1>6. CASE Disconnect
  BY <1>0, <1>6, CallInvStays DEF Disconnect, callVars
<1>7. ASSUME NEW c \in Call, Proceed(c)
      PROVE  CallInv'
  <2>1. CASE Begin(c)
    BY <1>0, <2>1, CallInvGoto DEF Begin, Stages
  <2>2. CASE FindAgent(c)
    <3>1. Begun(c)
      BY <2>2 DEF FindAgent, Begun
    <3>2. CASE session # None
      BY <1>0, <2>2, <3>1, <3>2, CallInvGoto DEF FindAgent, Fails, Stages
    <3>3. CASE session = None
      BY <1>0, <2>2, <3>1, <3>3, CallInvGoto DEF FindAgent, Fails, Stages
    <3> QED
      BY <3>2, <3>3
  <2>3. CASE ReadJournal(c)
    <3>1. Begun(c) /\ using[c] # None
      BY <2>3 DEF ReadJournal, Begun, CallInv, WriterHeld
    <3>2. \E stage \in Stages : \E wanted, entries, writer :
            /\ Goto(c, stage, wanted, entries, writer)
            /\ stage \in {"reading", "recording"} => writer # None
      BY <2>3, <3>1 DEF ReadJournal, Fails, Returns, Stages
    <3> QED
      BY <1>0, <3>1, <3>2, CallInvGoto
  <2>4. CASE AppendEntry(c)
    <3>1. Begun(c) /\ using[c] # None
      BY <2>4 DEF AppendEntry, Begun, CallInv, WriterHeld
    <3> QED
      BY <1>0, <2>4, <3>1, CallInvGoto DEF AppendEntry, Fails, Stages
  <2>5. CASE Flush(c)
    <3>1. Begun(c)
      BY <2>5 DEF Flush, Begun
    <3> QED
      BY <1>0, <2>5, <3>1, CallInvGoto DEF Flush, Fails, Returns, Stages
  <2>6. CASE Dispatch(c)
    <3>1. Begun(c)
      BY <2>6 DEF Dispatch, Begun
    <3> QED
      BY <1>0, <2>6, <3>1, CallInvGoto DEF Dispatch, Fails, Returns, Stages
  <2> QED
    BY <1>7, <2>1, <2>2, <2>3, <2>4, <2>5, <2>6 DEF Proceed
<1>8. CASE UNCHANGED vars
  BY <1>0, <1>8, CallInvStays DEF vars, callVars
<1> QED
  BY <1>1, <1>2, <1>3, <1>4, <1>5, <1>6, <1>7, <1>8 DEF Next

\* The state of the runtime is always well typed (TypeOK).
THEOREM TypesHold == Spec => []TypeOK
<1>1. CallInv => TypeOK
  BY DEF CallInv
<1> QED
  BY <1>1, CallInvInit, CallInvStep, PTL DEF Spec
-----------------------------------------------------------------------------
(***************************************************************************)
(* What is promised of the deliveries.                                     *)
(***************************************************************************)

\* Every step of a call is one that moves it on.
LEMMA CallsMove ==
  ASSUME CallInv, NEW c \in Call, Proceed(c)
  PROVE  /\ ResultOf(c) \in Result
         /\ \A d \in Call \ {c} : /\ at'[d] = at[d] /\ follows'[d] = follows[d]
                                  /\ due'[d] = due[d] /\ using'[d] = using[d]
<1>1. TypeOK /\ ResultOf(c) \in Result
  BY CallFacts DEF CallInv
<1>2. \E stage, wanted, entries, writer : Goto(c, stage, wanted, entries, writer)
  <2>1. CASE Begin(c)
    BY <2>1 DEF Begin
  <2>2. CASE FindAgent(c)
    BY <2>2 DEF FindAgent, Fails
  <2>3. CASE ReadJournal(c)
    BY <2>3 DEF ReadJournal, Fails, Returns
  <2>4. CASE AppendEntry(c)
    BY <2>4 DEF AppendEntry, Fails
  <2>5. CASE Flush(c)
    BY <2>5 DEF Flush, Fails, Returns
  <2>6. CASE Dispatch(c)
    BY <2>6 DEF Dispatch, Fails, Returns
  <2> QED
    BY <2>1, <2>2, <2>3, <2>4, <2>5, <2>6 DEF Proceed
<1> QED
  BY <1>1, <1>2, GotoFacts

\* Nothing is recorded or handed over, and no call begins to do so.
LEMMA DeliveryStays ==
  ASSUME DeliveryInv, UNCHANGED <<journal, sent>>,
         \A c \in Call : \/ at'[c] \notin {"recording", "dispatching"}
                         \/ at'[c] = at[c] /\ follows'[c] = follows[c] /\ due'[c] = due[c]
  PROVE  DeliveryInv'
BY DEF DeliveryInv, Recorded, Promising

\* A call on another result is not disturbed.
LEMMA OthersPromise ==
  ASSUME CallInv, DeliveryInv, NEW c \in Call, Proceed(c), Begun(c),
         \A u \in Result \ {ResultOf(c)} :
           /\ \A k \in Entry : journal'[k][u] = journal[k][u]
           /\ sent'[u] = sent[u]
  PROVE  \A d \in Call \ {c} : Promising(d)'
<1> SUFFICES ASSUME NEW d \in Call \ {c}
             PROVE  Promising(d)'
  OBVIOUS
<1>1. at'[d] = at[d] /\ follows'[d] = follows[d] /\ due'[d] = due[d]
  BY CallsMove
<1>2. CASE at[d] \notin {"recording", "dispatching"}
  BY <1>1, <1>2 DEF Promising
<1>3. CASE at[d] \in {"recording", "dispatching"}
  <2>1. ResultOf(d) \in Result \ {ResultOf(c)}
    <3>1. Begun(d) /\ ResultOf(d) \in Result
      BY <1>3, CallFacts DEF Begun
    <3> QED
      BY <3>1 DEF CallInv, OneAtATime
  <2>2. due[d] \subseteq Entry
    BY DEF CallInv, TypeOK
  <2>3. /\ \A k \in Entry : journal'[k][ResultOf(d)] = journal[k][ResultOf(d)]
        /\ sent'[ResultOf(d)] = sent[ResultOf(d)]
    BY <2>1
  <2>4. Promising(d)
    BY DEF DeliveryInv
  <2> QED
    BY <1>1, <2>2, <2>3, <2>4 DEF Promising, Entry
<1> QED
  BY <1>2, <1>3

\* Nothing is on record at first.
LEMMA DeliveryInit == Init => DeliveryInv
BY DEF Init, DeliveryInv, Recorded, Promising, Entry

\* The journal is read: what is missing is not there.
LEMMA DeliveryRead ==
  ASSUME CallInv, DeliveryInv, NEW c \in Call, ReadJournal(c)
  PROVE  DeliveryInv'
<1> DEFINE t == ResultOf(c)
           missing(output) == Missing(t, output, follows[c])
<1>0. TypeOK /\ Proceed(c) /\ t \in Result
  BY CallFacts DEF CallInv, Proceed
<1>1. UNCHANGED <<journal, sent>>
  BY DEF ReadJournal
<1>2. CASE Goto(c, "none", FALSE, {}, None)
  <2>1. at'[c] = "none"
    BY <1>0, <1>2, GotoFacts
  <2> QED
    BY <1>0, <1>1, <2>1, CallsMove, DeliveryStays
<1>3. ASSUME NEW output \in Output,
             Goto(c, "recording", "followup" \in missing(output), missing(output), using[c])
      PROVE  DeliveryInv'
  <2> DEFINE entries == missing(output)
  <2>1. at'[c] = "recording" /\ follows'[c] = ("followup" \in entries) /\ due'[c] = entries
    BY <1>0, <1>3, GotoFacts
  <2>2. Recorded(t) /\ Begun(c)
    BY <1>0 DEF DeliveryInv, ReadJournal, Begun
  <2>3. /\ \A k \in entries : journal[k][t] = 0
        /\ "observation" \notin entries => journal["observation"][t] # 0
    BY DEF Missing
  <2> HIDE DEF missing, entries
  <2>4. Promising(c)'
    BY <1>1, <2>1, <2>2, <2>3 DEF Promising, Recorded
  <2>5. \A d \in Call \ {c} : Promising(d)'
    BY <1>0, <1>1, <2>2, OthersPromise
  <2>6. \A u \in Result : Recorded(u)'
    BY <1>1 DEF DeliveryInv, Recorded
  <2> QED
    BY <2>4, <2>5, <2>6 DEF DeliveryInv
<1> QED
  BY <1>2, <1>3 DEF ReadJournal, Fails, Returns

\* An entry is appended: it was not there.
LEMMA DeliveryAppend ==
  ASSUME CallInv, DeliveryInv, NEW c \in Call, AppendEntry(c)
  PROVE  DeliveryInv'
<1> DEFINE t == ResultOf(c)
           k == First(due[c])
<1>0. TypeOK /\ Proceed(c) /\ Begun(c) /\ t \in Result /\ UNCHANGED sent /\ k \in Entry
  BY CallFacts, FirstFacts DEF CallInv, TypeOK, Proceed, AppendEntry, Begun
<1>1. CASE UNCHANGED journal /\ Fails(c)
  <2>1. at'[c] = "none"
    BY <1>0, <1>1, GotoFacts DEF Fails
  <2> QED
    BY <1>0, <1>1, <2>1, CallsMove, DeliveryStays
<1>2. CASE /\ journal' = [journal EXCEPT ![k][t] = @ + 1]
           /\ Goto(c, "recording", follows[c], due[c] \ {k}, using[c])
  <2>1. /\ at'[c] = "recording" /\ follows'[c] = follows[c]
        /\ due'[c] = due[c] \ {k}
    BY <1>0, <1>2, GotoFacts
  <2>2. /\ journal'[k][t] = journal[k][t] + 1
        /\ \A u \in Result \ {t} : journal'[k][u] = journal[k][u]
        /\ \A l \in Entry \ {k} : journal'[l] = journal[l]
    BY <1>0, <1>2, AppendFacts
  <2>3. k \in due[c] /\ ("observation" \in due[c] => k = "observation")
    <3>1. due[c] # {} /\ due[c] \subseteq Entry
      BY <1>0 DEF AppendEntry, TypeOK
    <3> QED
      BY <3>1, FirstFacts
  <2>4. at[c] = "recording" /\ Promising(c) /\ Recorded(t)
    BY <1>0 DEF AppendEntry, DeliveryInv
  <2>5. journal[k][t] = 0
    BY <2>3, <2>4 DEF Promising
  <2> HIDE DEF k, t
  <2>6. journal'[k][t] = 1
    BY <2>2, <2>5
  <2>7. k \in Entry /\ t = ResultOf(c) /\ sent' = sent
    BY <1>0 DEF t
  <2>8. \A l \in Entry : journal'[l][t] = IF l = k THEN 1 ELSE journal[l][t]
    BY <2>2, <2>6, <2>7
  <2>9. Promising(c)'
    <3>1. due[c] \subseteq Entry
      BY <1>0 DEF TypeOK
    <3>2. \A l \in due'[c] : journal'[l][t] = 0
      BY <2>1, <2>4, <2>7, <2>8, <3>1 DEF Promising
    <3>3. "observation" \notin due'[c] => journal'["observation"][t] = 1
      BY <2>1, <2>4, <2>7, <2>8 DEF Promising, Entry
    <3>4. follows'[c] /\ "followup" \notin due'[c] => journal'["followup"][t] = 1
      BY <2>1, <2>4, <2>7, <2>8 DEF Promising, Entry
    <3>5. /\ "followup" \in due'[c] => follows'[c]
          /\ follows'[c] => sent'[t] = 0
      BY <2>1, <2>4, <2>7 DEF Promising
    <3> QED
      BY <2>1, <2>7, <3>2, <3>3, <3>4, <3>5 DEF Promising
  <2>10. Recorded(t)'
    BY <2>3, <2>4, <2>7, <2>8 DEF Promising, Recorded, Entry
  <2>11. \A u \in Result \ {t} : \A l \in Entry : journal'[l][u] = journal[l][u]
    BY <2>2, <2>7
  <2>12. \A u \in Result \ {t} : Recorded(u)'
    BY <2>7, <2>11 DEF DeliveryInv, Recorded, Entry
  <2>13. \A d \in Call \ {c} : Promising(d)'
    BY <1>0, <2>7, <2>11, OthersPromise
  <2> QED
    BY <2>9, <2>10, <2>12, <2>13 DEF DeliveryInv
<1> QED
  BY <1>1, <1>2 DEF AppendEntry

\* The journal is flushed: what is to be handed over was not.
LEMMA DeliveryFlush ==
  ASSUME CallInv, DeliveryInv, NEW c \in Call, Flush(c)
  PROVE  DeliveryInv'
<1>0. TypeOK /\ Proceed(c) /\ Begun(c) /\ UNCHANGED <<journal, sent>>
  BY DEF CallInv, Proceed, Flush, Begun
<1>1. CASE at'[c] # "dispatching"
  <2>1. at'[c] = "none"
    BY <1>0, <1>1, GotoFacts DEF Flush, Fails, Returns
  <2> QED
    BY <1>0, <2>1, CallsMove, DeliveryStays
<1>2. CASE at'[c] = "dispatching"
  <2>1. follows[c]
    BY <1>0, <1>2, GotoFacts DEF Flush, Fails, Returns
  <2>2. Promising(c) /\ at[c] = "recording" /\ due[c] = {}
    BY DEF DeliveryInv, Flush
  <2>3. Promising(c)'
    BY <1>0, <1>2, <2>1, <2>2 DEF Promising
  <2>4. \A d \in Call \ {c} : Promising(d)'
    BY <1>0, OthersPromise
  <2> QED
    BY <1>0, <2>3, <2>4 DEF DeliveryInv, Recorded
<1> QED
  BY <1>1, <1>2

\* A follow-up is handed over: it is on record, and was not handed over.
LEMMA DeliveryDispatch ==
  ASSUME CallInv, DeliveryInv, NEW c \in Call, Dispatch(c)
  PROVE  DeliveryInv'
<1> DEFINE t == ResultOf(c)
<1>0. TypeOK /\ Proceed(c) /\ Begun(c) /\ UNCHANGED journal /\ t \in Result
  BY CallFacts DEF CallInv, Proceed, Dispatch, Begun
<1>1. at'[c] = "none"
  BY <1>0, GotoFacts DEF Dispatch, Fails, Returns
<1>2. CASE UNCHANGED sent
  BY <1>0, <1>1, <1>2, CallsMove, DeliveryStays
<1>3. CASE sent' = [sent EXCEPT ![t] = @ + 1]
  <2>1. sent'[t] = sent[t] + 1 /\ \A u \in Result \ {t} : sent'[u] = sent[u]
    BY <1>0, <1>3 DEF TypeOK
  <2>2. Promising(c) /\ at[c] = "dispatching" /\ Recorded(t)
    BY <1>0 DEF DeliveryInv, Dispatch
  <2>3. Recorded(t)'
    BY <1>0, <2>1, <2>2 DEF Promising, Recorded
  <2>4. \A u \in Result \ {t} : Recorded(u)'
    BY <1>0, <2>1 DEF DeliveryInv, Recorded
  <2>5. \A d \in Call \ {c} : Promising(d)'
    BY <1>0, <2>1, OthersPromise
  <2>6. Promising(c)'
    BY <1>1 DEF Promising
  <2> QED
    BY <2>3, <2>4, <2>5, <2>6 DEF DeliveryInv
<1> QED
  BY <1>2, <1>3 DEF Dispatch

\* The deliveries: each step keeps what DeliveryInv says of them.
LEMMA DeliveryStep == CallInv /\ DeliveryInv /\ [Next]_vars => DeliveryInv'
<1> SUFFICES ASSUME CallInv, DeliveryInv, [Next]_vars
             PROVE  DeliveryInv'
  OBVIOUS
<1>0. TypeOK
  BY DEF CallInv
<1>1. ASSUME NEW r \in Result, TaskEnds(r[1], r[2])
      PROVE  DeliveryInv'
  <2>1. \A c \in Call : at'[c] = at[c] \/ at'[c] = "waiting"
    BY <1>0, <1>1, ResultFacts, HandledFacts DEF TaskEnds
  <2> QED
    BY <1>1, <2>1, DeliveryStays DEF TaskEnds
<1>2. ASSUME NEW r \in Result, Report(r[1], r[2])
      PROVE  DeliveryInv'
  <2>1. \A c \in Call : at'[c] = at[c] \/ at'[c] = "waiting"
    BY <1>0, <1>2, ResultFacts, HandledFacts DEF Report
  <2> QED
    BY <1>2, <2>1, DeliveryStays DEF Report
<1>3. CASE Restart
  <2>1. \A c \in Call : at'[c] = "none"
    BY <1>3, CallFacts DEF Restart
  <2> QED
    BY <1>3, <2>1, DeliveryStays DEF Restart
<1>4. CASE Load
  BY <1>4, DeliveryStays DEF Load, callVars
<1>5. CASE Connect
  BY <1>5, DeliveryStays DEF Connect, callVars
<1>6. CASE Disconnect
  BY <1>6, DeliveryStays DEF Disconnect, callVars
<1>7. ASSUME NEW c \in Call, Proceed(c)
      PROVE  DeliveryInv'
  <2>1. CASE Begin(c)
    <3>1. at'[c] = "resolved"
      BY <1>0, <2>1, GotoFacts DEF Begin
    <3> QED
      BY <1>7, <2>1, <3>1, CallsMove, DeliveryStays DEF Begin
  <2>2. CASE FindAgent(c)
    <3>1. at'[c] \in {"reading", "none"}
      BY <1>0, <2>2, GotoFacts DEF FindAgent, Fails
    <3> QED
      BY <1>7, <2>2, <3>1, CallsMove, DeliveryStays DEF FindAgent
  <2> QED
    BY <1>7, <2>1, <2>2, DeliveryRead, DeliveryAppend, DeliveryFlush, DeliveryDispatch
       DEF Proceed
<1>8. CASE UNCHANGED vars
  BY <1>8, DeliveryStays DEF vars, callVars
<1> QED
  BY <1>1, <1>2, <1>3, <1>4, <1>5, <1>6, <1>7, <1>8 DEF Next
-----------------------------------------------------------------------------
(***************************************************************************)
(* The runtime implements ResultDelivery.                                  *)
(***************************************************************************)

\* The first states are first states of the promise.
LEMMA PromisedInit == Init => Promised!Init
BY DEF Init, Promised!Init, Entry

\* Each step is one of the promise, or nothing to it.
LEMMA PromisedStep ==
  CallInv /\ DeliveryInv /\ [Next]_vars => [Promised!Next]_(Promised!vars)
<1> SUFFICES ASSUME CallInv, DeliveryInv, [Next]_vars
             PROVE  [Promised!Next]_(Promised!vars)
  OBVIOUS
<1>0. TypeOK
  BY DEF CallInv
<1>1. CASE UNCHANGED <<journal, sent>>
  BY <1>1 DEF Promised!vars
<1>2. ASSUME NEW c \in Call, AppendEntry(c), ~UNCHANGED <<journal, sent>>
      PROVE  [Promised!Next]_(Promised!vars)
  <2> DEFINE t == ResultOf(c)
             k == First(due[c])
  <2>1. k \in Entry /\ t \in Result /\ sent' = sent
    BY <1>0, <1>2, CallFacts, FirstFacts DEF AppendEntry, TypeOK
  <2>2. journal' = [journal EXCEPT ![k][t] = @ + 1]
    BY <1>2, <2>1 DEF AppendEntry
  <2>3. /\ journal'[k][t] = journal[k][t] + 1
        /\ \A u \in Result \ {t} : journal'[k][u] = journal[k][u]
        /\ \A l \in Entry \ {k} : journal'[l] = journal[l]
    BY <1>0, <2>1, <2>2, AppendFacts
  <2>4. at[c] = "recording" /\ due[c] # {} /\ due[c] \subseteq Entry /\ Promising(c)
    BY <1>0, <1>2 DEF AppendEntry, TypeOK, DeliveryInv
  <2>5. k \in due[c] /\ ("observation" \in due[c] => k = "observation")
    BY <2>4, FirstFacts
  <2>6. journal[k][t] = 0
    BY <2>4, <2>5 DEF Promising
  <2>7. /\ "observation" \in Entry /\ journal["observation"] \in [Result -> Nat]
        /\ journal'["observation"] \in [Result -> Nat]
        /\ "followup" \in Entry /\ journal["followup"] \in [Result -> Nat]
        /\ journal'["followup"] \in [Result -> Nat]
    <3>1. TypeOK'
      BY TypeStep
    <3> QED
      BY <1>0, <3>1 DEF TypeOK, Entry
  <2>8. CASE k = "observation"
    <3>1. journal'["observation"] = [journal["observation"] EXCEPT ![t] = 1]
      BY <2>1, <2>3, <2>6, <2>7, <2>8
    <3>2. journal'["followup"] = journal["followup"]
      BY <2>3, <2>7, <2>8
    <3>3. Promised!Observe(t)
      BY <2>1, <2>6, <2>8, <3>1, <3>2 DEF Promised!Observe
    <3> QED
      BY <2>1, <3>3 DEF Promised!Next
  <2>9. CASE k \in Output
    <3>0. k # "observation" /\ k # "followup"
      BY <2>9, NamesAssumption
    <3>1. /\ journal'["observation"] = journal["observation"]
          /\ journal'["followup"] = journal["followup"]
      BY <2>3, <2>7, <3>0
    <3> QED
      BY <2>1, <3>1 DEF Promised!vars
  <2>10. CASE k = "followup"
    <3>1. journal'["followup"] = [journal["followup"] EXCEPT ![t] = 1]
      BY <2>1, <2>3, <2>6, <2>7, <2>10
    <3>2. journal'["observation"] = journal["observation"]
      BY <2>3, <2>7, <2>10
    <3>3. journal["observation"][t] = 1
      BY <2>4, <2>5, <2>10 DEF Promising
    <3>4. Promised!Request(t)
      BY <2>1, <2>6, <2>10, <3>1, <3>2, <3>3 DEF Promised!Request
    <3> QED
      BY <2>1, <3>4 DEF Promised!Next
  <2> QED
    BY <2>1, <2>8, <2>9, <2>10 DEF Entry
<1>3. ASSUME NEW c \in Call, Dispatch(c), ~UNCHANGED <<journal, sent>>
      PROVE  Promised!Next
  <2> DEFINE t == ResultOf(c)
  <2>1. /\ t \in Result /\ journal' = journal
        /\ sent' = [sent EXCEPT ![t] = @ + 1]
    BY <1>3, CallFacts DEF Dispatch
  <2>2. journal["followup"][t] = 1 /\ sent[t] = 0
    BY <1>3 DEF DeliveryInv, Promising, Dispatch
  <2>3. sent' = [sent EXCEPT ![t] = 1]
    BY <1>0, <2>1, <2>2 DEF TypeOK
  <2>4. Promised!Continue(t)
    BY <2>1, <2>2, <2>3 DEF Promised!Continue
  <2> QED
    BY <2>1, <2>4 DEF Promised!Next
<1> QED
  <2>1. ASSUME NEW c \in Call, Proceed(c), ~AppendEntry(c), ~Dispatch(c)
        PROVE  UNCHANGED <<journal, sent>>
    BY <2>1 DEF Proceed, Begin, FindAgent, ReadJournal, Flush
  <2>2. ASSUME NEW r \in Result, TaskEnds(r[1], r[2]) \/ Report(r[1], r[2])
        PROVE  UNCHANGED <<journal, sent>>
    BY <2>2 DEF TaskEnds, Report
  <2>3. ASSUME Restart \/ Load \/ Connect \/ Disconnect \/ UNCHANGED vars
        PROVE  UNCHANGED <<journal, sent>>
    BY <2>3 DEF Restart, Load, Connect, Disconnect, vars
  <2> QED
    BY <1>1, <1>2, <1>3, <2>1, <2>2, <2>3 DEF Next

\* No result, a task with a terminal status, is observed twice, and no follow-up
\* is asked for or handed over twice for one, whatever calls, outputs and
\* restarts there are (DeliveredOnce).
THEOREM ResultsAreDeliveredOnce == Spec => DeliveredOnce
<1>1. Init => DeliveryInv /\ Promised!Init
  BY DeliveryInit, PromisedInit
<1>2. Spec => Promised!Spec
  BY <1>1, CallInvInit, CallInvStep, DeliveryStep, PromisedStep, PTL
     DEF Spec, Promised!Spec
<1> QED  BY <1>2, PTL DEF DeliveredOnce
-----------------------------------------------------------------------------
(***************************************************************************)
(* The wait-all group.                                                     *)
(***************************************************************************)

\* What a call that goes on does to the rest of the state.
LEMMA ProceedFacts ==
  ASSUME CallInv, NEW c \in Call, Proceed(c)
  PROVE  /\ UNCHANGED taskVars
         /\ missed \subseteq missed'
         /\ \A u \in Result : \A k \in Entry : journal[k][u] > 0 => journal'[k][u] > 0
         /\ \A u \in Result \ {ResultOf(c)} : \A k \in Entry : journal'[k][u] = journal[k][u]
         /\ at[c] # "none"
<1>0. TypeOK
  BY DEF CallInv
<1>1. CASE AppendEntry(c) /\ ~UNCHANGED journal
  <2> DEFINE t == ResultOf(c)
             k == First(due[c])
  <2>1. k \in Entry /\ t \in Result
    BY <1>0, <1>1, CallFacts, FirstFacts DEF AppendEntry, TypeOK
  <2>2. journal' = [journal EXCEPT ![k][t] = @ + 1]
    BY <1>1 DEF AppendEntry
  <2>3. /\ journal'[k][t] = journal[k][t] + 1
        /\ \A u \in Result \ {t} : journal'[k][u] = journal[k][u]
        /\ \A l \in Entry \ {k} : journal'[l] = journal[l]
    BY <1>0, <2>1, <2>2, AppendFacts
  <2>4. journal[k][t] \in Nat
    BY <1>0, <2>1 DEF TypeOK
  <2> HIDE DEF k, t
  <2>5. \A u \in Result, l \in Entry :
          /\ journal[l][u] > 0 => journal'[l][u] > 0
          /\ u # t => journal'[l][u] = journal[l][u]
    BY <2>1, <2>3, <2>4
  <2> QED
    BY <1>1, <2>5 DEF AppendEntry, taskVars, t
<1>2. CASE UNCHANGED journal
  BY <1>2 DEF Proceed, Begin, FindAgent, ReadJournal, AppendEntry, Flush, Dispatch, Fails,
              Returns
<1> QED
  <2>1. AppendEntry(c) \/ UNCHANGED journal
    BY DEF Proceed, Begin, FindAgent, ReadJournal, Flush, Dispatch
  <2> QED
    BY <1>1, <1>2, <2>1

\* No call has begun at first.
LEMMA GroupInit == Init => GroupInv
BY DEF Init, GroupInv, Ended, Begun

\* The group and its calls: each step keeps what GroupInv says of them.
LEMMA GroupStep == CallInv /\ GroupInv /\ [Next]_vars => GroupInv'
<1> SUFFICES ASSUME CallInv, GroupInv, [Next]_vars
             PROVE  GroupInv'
  OBVIOUS
<1>0. TypeOK
  BY DEF CallInv
<1>1. ASSUME NEW r \in Result, TaskEnds(r[1], r[2])
      PROVE  GroupInv'
  <2>1. \A c \in Call : at'[c] = at[c] \/ at'[c] = "waiting"
    BY <1>0, <1>1, ResultFacts, HandledFacts DEF TaskEnds
  <2>2. Ended \subseteq Ended'
    BY <1>0, <1>1, ResultFacts DEF TaskEnds, Ended, TypeOK
  <2>3. phase' = "up" /\ direct' = direct /\ follows' = follows
    BY <1>1 DEF TaskEnds
  <2> QED
    BY <2>1, <2>2, <2>3 DEF GroupInv, GivesPolicy, Begun
<1>2. ASSUME NEW r \in Result, Report(r[1], r[2])
      PROVE  GroupInv'
  <2>1. \A c \in Call : at'[c] = at[c] \/ at'[c] = "waiting"
    BY <1>0, <1>2, ResultFacts, HandledFacts DEF Report
  <2>2. UNCHANGED <<phase, status, direct, follows>>
    BY <1>2 DEF Report, taskVars
  <2> QED
    BY <2>1, <2>2 DEF GroupInv, GivesPolicy, Ended, Begun
<1>3. CASE Restart
  <2>1. \A c \in Call : at'[c] = "none"
    BY <1>3, CallFacts DEF Restart
  <2>2. \A t \in Task : status'[t] = None
    BY <1>3 DEF Restart
  <2> QED
    BY <2>1, <2>2 DEF GroupInv, Ended, Begun
<1>4. CASE Load
  <2>1. UNCHANGED <<at, follows, direct>> /\ phase = "loading" /\ phase' = "up"
    BY <1>4 DEF Load, callVars
  <2> QED
    BY <2>1 DEF GroupInv, GivesPolicy, Begun
<1>5. CASE Connect \/ Disconnect
  BY <1>5 DEF Connect, Disconnect, GroupInv, GivesPolicy, Ended, Begun, callVars, taskVars
<1>7. ASSUME NEW c \in Call, Proceed(c)
      PROVE  GroupInv'
  <2>1. /\ status' = status /\ phase' = phase /\ direct' = direct
        /\ \A d \in Call \ {c} : at'[d] = at[d] /\ follows'[d] = follows[d]
    BY <1>7, CallsMove, ProceedFacts DEF taskVars
  <2>2. /\ Begun(c)' /\ follows'[c]
        /\ TaskOf(c) \in Group /\ ~GivesPolicy(TaskOf(c))
        => Group \subseteq Ended
    <3>1. CASE Begin(c)
      BY <1>0, <3>1, GotoFacts DEF Begin, Follows
    <3>2. CASE FindAgent(c)
      <4>1. CASE Goto(c, "reading", follows[c], {}, session)
        <5>1. follows'[c] = follows[c]
          BY <1>0, <4>1, GotoFacts
        <5> QED
          BY <3>2, <5>1 DEF FindAgent, GroupInv, Begun
      <4>2. CASE Goto(c, "none", FALSE, {}, None)
        BY <1>0, <4>2, GotoFacts
      <4> QED
        BY <3>2, <4>1, <4>2 DEF FindAgent, Fails
    <3>3. CASE ReadJournal(c)
      <4> DEFINE missing(output) == Missing(ResultOf(c), output, follows[c])
      <4>1. /\ Begun(c)
            /\ \A output \in Output : "followup" \in missing(output) => follows[c]
        BY <3>3, NamesAssumption DEF ReadJournal, Begun, Missing
      <4>2. ASSUME NEW output \in Output,
                   Goto(c, "recording", "followup" \in missing(output), missing(output),
                        using[c])
            PROVE  follows'[c] => follows[c]
        <5>1. follows'[c] = ("followup" \in missing(output))
          BY <1>0, <4>2, GotoFacts
        <5> QED
          BY <4>1, <5>1
      <4>3. ASSUME Goto(c, "none", FALSE, {}, None)
            PROVE  ~follows'[c]
        BY <1>0, <4>3, GotoFacts
      <4>4. follows'[c] => follows[c]
        <5>1. \/ \E output \in Output :
                   Goto(c, "recording", "followup" \in missing(output), missing(output),
                        using[c])
              \/ Goto(c, "none", FALSE, {}, None)
          BY <3>3 DEF ReadJournal, Fails, Returns
        <5> QED
          BY <4>2, <4>3, <5>1
      <4> QED
        BY <4>1, <4>4 DEF GroupInv
    <3>4. CASE AppendEntry(c)
      <4> DEFINE k == First(due[c])
      <4>1. CASE Goto(c, "recording", follows[c], due[c] \ {k}, using[c])
        <5>1. follows'[c] = follows[c]
          BY <1>0, <4>1, GotoFacts
        <5> QED
          BY <3>4, <5>1 DEF AppendEntry, GroupInv, Begun
      <4>2. CASE Goto(c, "none", FALSE, {}, None)
        BY <1>0, <4>2, GotoFacts
      <4> QED
        BY <3>4, <4>1, <4>2 DEF AppendEntry, Fails
    <3>5. CASE Flush(c)
      BY <1>0, <3>5, GotoFacts DEF Flush, Fails, Returns, GroupInv, Begun
    <3>6. CASE Dispatch(c)
      BY <1>0, <3>6, GotoFacts DEF Dispatch, Fails, Returns
    <3> QED
      BY <1>7, <3>1, <3>2, <3>3, <3>4, <3>5, <3>6 DEF Proceed
  <2> QED
    BY <2>1, <2>2 DEF GroupInv, GivesPolicy, Ended, Begun
<1>8. CASE UNCHANGED vars
  BY <1>8 DEF vars, callVars, taskVars, GroupInv, GivesPolicy, Ended, Begun
<1> QED
  BY <1>1, <1>2, <1>3, <1>4, <1>5, <1>7, <1>8 DEF Next

\* A follow-up is recorded for a member by a call that asked for one.
LEMMA GroupFollowed ==
  ASSUME CallInv, DeliveryInv, GroupInv, [Next]_vars, NEW r \in Result,
         r[1] \in Group, ~GivesPolicy(r[1]),
         journal'["followup"][r] # journal["followup"][r]
  PROVE  Group \subseteq Ended
<1>0. TypeOK /\ "followup" \in Entry
  BY DEF CallInv, Entry
<1>1. PICK c \in Call : AppendEntry(c)
  BY DEF Next, Proceed, TaskEnds, Report, Restart, Load, Connect, Disconnect, Begin,
         FindAgent, ReadJournal, Flush, Dispatch, vars
<1>2. ResultOf(c) = r
  BY <1>0, <1>1, ProceedFacts DEF Proceed
<1>3. First(due[c]) = "followup" /\ First(due[c]) \in due[c]
  <2> DEFINE k == First(due[c])
  <2>1. k \in Entry /\ k \in due[c]
    BY <1>0, <1>1, FirstFacts DEF AppendEntry, TypeOK
  <2>2. journal' = [journal EXCEPT ![k][r] = @ + 1]
    BY <1>1, <1>2 DEF AppendEntry
  <2>3. \A l \in Entry \ {k} : journal'[l] = journal[l]
    BY <1>0, <2>1, <2>2, AppendFacts
  <2>4. k = "followup"
    BY <1>0, <2>3
  <2> QED
    BY <2>1, <2>4
<1>4. at[c] = "recording" /\ follows[c]
  BY <1>1, <1>3 DEF AppendEntry, DeliveryInv, Promising
<1>5. TaskOf(c) = r[1]
  BY <1>2, CallFacts
<1> QED
  BY <1>4, <1>5 DEF GroupInv, Begun

\* A member of a wait-all group that the manager announces is not followed up
\* before every member has ended (GroupWaits).
THEOREM GroupsWait == Spec => GroupWaits
<1>1. CallInv /\ DeliveryInv /\ GroupInv /\ [Next]_vars =>
        [\A r \in Result :
           /\ r[1] \in Group /\ ~GivesPolicy(r[1])
           /\ journal'["followup"][r] # journal["followup"][r]
           => Group \subseteq Ended]_vars
  BY GroupFollowed
<1> QED
  BY <1>1, CallInvInit, CallInvStep, DeliveryInit, DeliveryStep, GroupInit, GroupStep, PTL
     DEF Spec, GroupWaits
-----------------------------------------------------------------------------
(***************************************************************************)
(* The group goes on.  Once all members have ended, one of them is still   *)
(* to be asked about: its follow-up is on record, or a call on it will     *)
(* find the group complete, or has and is to record it.  The call on the   *)
(* member that ended last sees to that.                                    *)
(***************************************************************************)
Asking(c) ==
  \/ at[c] = "waiting"
  \/ at[c] \in {"resolved", "reading"} /\ follows[c]
  \/ at[c] = "recording" /\ "followup" \in due[c]

Answered(r) ==
  \/ journal["followup"][r] > 0
  \/ \E c \in CallsOn(r) : Asking(c)

\* The results of the group; of a group nothing of which failed.
GroupResults == {r \in Result : r[1] \in Group}

Whole ==
  /\ Group \subseteq Wants \ direct
  /\ GroupResults \cap missed = {}
  /\ \E t \in Group : loaded[t] = None

ContinueInv == Whole /\ Group \subseteq Ended => \E r \in GroupResults : Answered(r)

\* An unfinished call leaves its member answered, or fails.
LEMMA AskingGoesOn ==
  ASSUME CallInv, NEW c \in Call, Proceed(c), Asking(c),
         TaskOf(c) \in Wants, ResultOf(c) \notin missed', Group \subseteq Ended
  PROVE  Asking(c)' \/ journal'["followup"][ResultOf(c)] > 0
<1> DEFINE t == ResultOf(c)
<1>0. TypeOK /\ t \in Result /\ "followup" \in Entry /\ ~Fails(c)
  BY CallFacts DEF CallInv, Entry, Fails
<1>1. CASE Begin(c)
  BY <1>0, <1>1, GotoFacts DEF Begin, Follows, Asking
<1>2. CASE FindAgent(c)
  <2>1. follows[c] /\ Goto(c, "reading", follows[c], {}, session)
    BY <1>0, <1>2 DEF FindAgent, Asking
  <2> QED
    BY <1>0, <2>1, GotoFacts DEF Asking
<1>3. CASE ReadJournal(c)
  <2> DEFINE entries(output) == Missing(t, output, follows[c])
  <2>1. follows[c]
    BY <1>3 DEF ReadJournal, Asking
  <2>2. CASE journal["followup"][t] = 0
    <3>1. \A output \in Output : "followup" \in entries(output)
      BY <1>0, <2>1, <2>2 DEF Missing
    <3>2. PICK output \in Output :
            Goto(c, "recording", "followup" \in entries(output), entries(output), using[c])
      BY <1>0, <1>3, <3>1 DEF ReadJournal
    <3>3. at'[c] = "recording" /\ due'[c] = entries(output)
      BY <1>0, <3>2, GotoFacts
    <3> QED
      BY <3>1, <3>3 DEF Asking
  <2>3. CASE journal["followup"][t] # 0
    <3>1. journal["followup"][t] > 0
      BY <1>0, <2>3 DEF TypeOK
    <3> QED
      BY <1>3, <3>1 DEF ReadJournal
  <2> QED
    BY <2>2, <2>3
<1>4. CASE AppendEntry(c)
  <2> DEFINE k == First(due[c])
  <2>1. "followup" \in due[c]
    BY <1>4 DEF AppendEntry, Asking
  <2>2. /\ journal' = [journal EXCEPT ![k][t] = @ + 1]
        /\ Goto(c, "recording", follows[c], due[c] \ {k}, using[c])
    BY <1>0, <1>4 DEF AppendEntry
  <2>3. at'[c] = "recording" /\ due'[c] = due[c] \ {k}
    BY <1>0, <2>2, GotoFacts
  <2>4. CASE k = "followup"
    <3>1. journal'["followup"][t] = journal["followup"][t] + 1
      BY <1>0, <2>2, <2>4, AppendFacts
    <3>2. journal["followup"][t] \in Nat
      BY <1>0 DEF TypeOK
    <3> QED
      BY <3>1, <3>2
  <2>5. CASE k # "followup"
    <3>1. "followup" \in due'[c]
      BY <2>1, <2>3, <2>5
    <3> QED
      BY <2>3, <3>1 DEF Asking
  <2> QED
    BY <2>4, <2>5
<1>5. ~Flush(c) /\ ~Dispatch(c)
  BY DEF Flush, Dispatch, Asking
<1> QED
  BY <1>1, <1>2, <1>3, <1>4, <1>5 DEF Proceed

\* A call that goes on leaves the group with an answered member, or fails.
LEMMA AnsweredGoesOn ==
  ASSUME CallInv, NEW c \in Call, Proceed(c), NEW r \in Result, Answered(r),
         r[1] \in Wants, r \notin missed', Group \subseteq Ended
  PROVE  Answered(r)'
<1>0. /\ journal["followup"][r] > 0 => journal'["followup"][r] > 0
      /\ \A d \in Call \ {c} : /\ at'[d] = at[d] /\ follows'[d] = follows[d]
                               /\ due'[d] = due[d]
  BY CallsMove, ProceedFacts DEF Entry
<1>1. CASE journal["followup"][r] > 0
  BY <1>0, <1>1 DEF Answered
<1>2. ASSUME NEW d \in CallsOn(r), Asking(d)
      PROVE  Answered(r)'
  <2>0. d \in Call /\ ResultOf(d) = r /\ TaskOf(d) = r[1]
    BY CallFacts DEF CallsOn
  <2>1. CASE d = c
    <3>1. Asking(d)' \/ journal'["followup"][r] > 0
      BY <1>2, <2>0, <2>1, AskingGoesOn
    <3> QED
      BY <3>1 DEF Answered
  <2>2. CASE d # c
    <3>1. Asking(d)'
      BY <1>0, <1>2, <2>0, <2>2 DEF Asking
    <3> QED
      BY <3>1 DEF Answered
  <2> QED
    BY <2>1, <2>2
<1> QED
  BY <1>1, <1>2 DEF Answered

\* At first nobody has ended.
LEMMA ContinueInit == Init => ContinueInv
BY TasksAssumption DEF Init, ContinueInv, Whole, Ended

\* Calls are added: a result answered before still is.
LEMMA AnsweredStays ==
  ASSUME CallInv, NEW S \in SUBSET Result, Handled(S), UNCHANGED <<journal, follows, due>>,
         NEW r \in Result, Answered(r)
  PROVE  Answered(r)'
<1>1. \A c \in Call : at'[c] = at[c] \/ at'[c] = "waiting"
  BY HandledFacts DEF CallInv
<1>2. \A c \in Call : Asking(c) => Asking(c)'
  BY <1>1 DEF Asking
<1> QED
  BY <1>2 DEF Answered, CallsOn

\* The group goes on: each step keeps what ContinueInv says of it.
LEMMA ContinueStep ==
  CallInv /\ GroupInv /\ ContinueInv /\ [Next]_vars => ContinueInv'
<1> SUFFICES ASSUME CallInv, GroupInv, ContinueInv, [Next]_vars,
                    Whole', (Group \subseteq Ended)'
             PROVE  \E r \in GroupResults : Answered(r)'
  BY DEF ContinueInv
<1>0. TypeOK /\ Group \subseteq Task
  BY TasksAssumption DEF CallInv
<1>1. ASSUME NEW u \in Result, TaskEnds(u[1], u[2])
      PROVE  \E r \in GroupResults : Answered(r)'
  <2>0. u = <<u[1], u[2]>>
    BY ResultFacts
  <2>1. /\ status' = [status EXCEPT ![u[1]] = u[2]]
        /\ UNCHANGED <<direct, loaded, journal, follows, due, missed>>
        /\ Handled(IF u[1] \in direct THEN {} ELSE {u})
    BY <1>1, <2>0 DEF TaskEnds
  <2>2. CASE u[1] \notin Group
    <3>1. Group \subseteq Ended
      BY <1>0, <2>1, <2>2 DEF Ended, TypeOK
    <3>2. PICK r \in GroupResults : Answered(r)
      BY <2>1, <3>1 DEF ContinueInv, Whole
    <3> QED
      BY <2>1, <3>2, AnsweredStays DEF GroupResults
  <2>3. CASE u[1] \in Group
    <3>1. Handled({u}) /\ u \in GroupResults
      BY <2>1, <2>3 DEF Whole, GroupResults
    <3>2. \E c \in CallsOn(u) : at'[c] = "waiting"
      BY <1>0, <3>1, HandledFacts
    <3> QED
      BY <3>1, <3>2 DEF Answered, Asking
  <2> QED
    BY <2>2, <2>3
<1>2. ASSUME NEW u \in Result, Report(u[1], u[2])
      PROVE  \E r \in GroupResults : Answered(r)'
  <2>1. /\ UNCHANGED <<direct, status, loaded, journal, follows, due, missed>>
        /\ Handled({u})
    BY <1>2, ResultFacts DEF Report, taskVars
  <2>2. PICK r \in GroupResults : Answered(r)
    BY <2>1 DEF ContinueInv, Whole, Ended
  <2> QED
    BY <2>1, <2>2, AnsweredStays DEF GroupResults
<1>3. CASE Restart
  <2>1. \A t \in Task : status'[t] = None
    BY <1>3 DEF Restart
  <2> QED
    BY <1>0, <2>1 DEF Whole, Ended
<1>4. CASE Load
  <2>1. status' = loaded /\ loaded' = loaded
    BY <1>4 DEF Load
  <2> QED
    BY <2>1 DEF Whole, Ended
<1>5. CASE Connect \/ Disconnect \/ UNCHANGED vars
  <2>1. UNCHANGED <<direct, status, loaded, journal, at, follows, due, missed>>
    BY <1>5 DEF Connect, Disconnect, vars, taskVars, callVars
  <2>2. PICK r \in GroupResults : Answered(r)
    BY <2>1 DEF ContinueInv, Whole, Ended
  <2>3. Answered(r)'
    BY <2>1, <2>2 DEF Answered, Asking
  <2> QED
    BY <2>3
<1>6. ASSUME NEW c \in Call, Proceed(c)
      PROVE  \E r \in GroupResults : Answered(r)'
  <2>1. UNCHANGED <<direct, status, loaded>> /\ missed \subseteq missed'
    BY <1>6, ProceedFacts DEF taskVars
  <2>2. Whole /\ Group \subseteq Ended
    BY <2>1 DEF Whole, Ended
  <2>3. PICK r \in GroupResults : Answered(r)
    BY <2>2 DEF ContinueInv
  <2>4. r \in Result /\ r[1] \in Wants /\ r \notin missed'
    BY <2>3 DEF Whole, GroupResults
  <2> QED
    BY <1>6, <2>2, <2>3, <2>4, AnsweredGoesOn
<1> QED
  BY <1>1, <1>2, <1>3, <1>4, <1>5, <1>6 DEF Next

\* A wait-all group of announced tasks, of which nothing failed, is followed up
\* though its members' calls interleave (GroupContinues): by one of them at
\* least, which is all the code sees to.
THEOREM GroupsContinue == Spec => []GroupContinues
<1>1. CallInv /\ ContinueInv => GroupContinues
  <2> SUFFICES ASSUME CallInv, ContinueInv,
                      Group \subseteq (Ended \cap Wants) \ direct,
                      \E t \in Group : loaded[t] = None,
                      \A r \in Result :
                        r[1] \in Group =>
                          r \notin missed /\ \A c \in CallsOn(r) : at[c] = "none"
               PROVE  \E t \in Group : FollowedUp(t)
    BY DEF GroupContinues
  <2>1. PICK r \in GroupResults : Answered(r)
    BY DEF ContinueInv, Whole, GroupResults
  <2>2. r \in Result /\ r[1] \in Group /\ journal["followup"][r] > 0
    BY <2>1 DEF Answered, Asking, GroupResults
  <2> QED
    BY <2>2 DEF FollowedUp, ResultsOf
<1> QED
  BY <1>1, CallInvInit, CallInvStep, GroupInit, GroupStep, ContinueInit, ContinueStep, PTL
     DEF Spec
=============================================================================
