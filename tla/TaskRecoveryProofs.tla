-------------------------- MODULE TaskRecoveryProofs --------------------------
(***************************************************************************)
(* Theorems about TaskRecovery: wherever a process died, the next one      *)
(* leaves no unfinished task without somebody who works on it, and a job   *)
(* that is waited for has its id in the storage.                           *)
(*                                                                         *)
(* What matters of the queue of writes is, for each record of the storage, *)
(* whether a write of it is still on its way and what the record will say  *)
(* when all have landed.                                                   *)
(***************************************************************************)
EXTENDS TaskRecovery, TLAPS, SequenceTheorems

Of(w, store, t) == w.store = store /\ w.task = t

\* No write in the queue s is for the record of t.
Quiet(s, store, t) == \A i \in DOMAIN s : ~Of(s[i], store, t)

\* The last write in s for the record of t writes v.
EndsWith(s, store, t, v) ==
  \E i \in DOMAIN s :
    /\ Of(s[i], store, t) /\ s[i].value = v
    /\ \A k \in DOMAIN s : k > i => ~Of(s[k], store, t)

\* The record of t, which says old, will say v when the queue s has landed.
WillSay(s, store, t, old, v) ==
  \/ Quiet(s, store, t) /\ old = v
  \/ EndsWith(s, store, t, v)

-----------------------------------------------------------------------------
(***************************************************************************)
(* The inductive invariant.  It says of each task how far the start-up is  *)
(* with it: the recovery infos it read are those in the storage until it   *)
(* has dealt with them, an info it deals with is deleted or gets a poller, *)
(* and a task it resumes has one or the other.                             *)
(***************************************************************************)

InfoWillBe(t, job) == WillSay(writes, "info", t, info[t], job)

\* The storage will say of t what the map says.
Mirrored(t) == WillSay(writes, "task", t, disk[t], tasks[t])

\* The recovery info the start-up read is in the storage, and stays there.
InfoStands(t) == info[t] = infos[t] /\ Quiet(writes, "info", t)

\* resumePendingTasks has still to deal with t.
InHand(t) == phase = "resuming" /\ (t \in todo \/ (doing # "next" /\ on = t))

\* The types of the variables, and what is known of jobs.
Types ==
  /\ tasks \in [Task -> Status] /\ disk \in [Task -> Status]
  /\ jobs \in [Task -> Job] /\ info \in [Task -> Job] /\ infos \in [Task -> Job]
  /\ writes \in Seq(WriteType)
  /\ exec \in [Task -> ExecStages] /\ poll \in [Task -> PollStages]
  /\ phase \in Phases
  /\ doing \in {"next", "upsert", "delete", "save", "load"} /\ on \in Task
  /\ todo \subseteq Task /\ snapshot \in [Task -> Status]
  /\ deleting \subseteq Task /\ excused \subseteq Task
  /\ crashes \in 0 .. MaxCrashes

\* Where the start-up is.
StageInv ==
  /\ doing \in {"upsert", "delete"} => phase = "recovering"
  /\ doing \in {"save", "load"} => phase = "resuming"
  /\ doing # "next" => on \notin todo
  /\ phase \in {"starting", "infos", "up"} => todo = {}
  /\ phase = "starting" => tasks = Unknown /\ writes = <<>>
  /\ phase = "starting" => deleting = {}
  /\ deleting \subseteq excused

\* No recovery info, in the storage, on its way or read, is of a later job.
JobsKnown ==
  /\ \A t \in Task : info[t] <= jobs[t] /\ infos[t] <= jobs[t]
  /\ \A i \in DOMAIN writes :
       writes[i].store = "info" => writes[i].value <= jobs[writes[i].task]

\* The start-up has not begun with t: nothing works on it.
Untouched(t) ==
  /\ phase \in {"starting", "infos"} => poll[t] = "none"
  /\ phase \in {"starting", "infos", "recovering"} => exec[t] = "none"
  /\ phase \in {"infos", "recovering"} => Mirrored(t)

\* resumeFromRecovery
Recovering(t) ==
  /\ poll[t] # "none" => infos[t] # NoJob
  /\ phase = "recovering" =>
       /\ t \in todo =>
            /\ infos[t] # NoJob /\ poll[t] = "none"
            /\ t \notin excused => InfoStands(t)
       /\ doing # "next" /\ on = t => poll[t] = "none"
       /\ t \notin todo /\ ~(doing = "upsert" /\ on = t) =>
            poll[t] # "none" \/ InfoWillBe(t, NoJob)

\* resumePendingTasks
Resuming(t) ==
  /\ InHand(t) =>
       /\ exec[t] = "none"
       /\ poll[t] # "none" \/ InfoWillBe(t, NoJob)
       /\ t \notin excused /\ poll[t] = "polling" => tasks[t] \in Unfinished
  /\ phase \in {"resuming", "up"} /\ tasks[t] \in Unfinished =>
       InHand(t) \/ exec[t] \in Executing \/ poll[t] # "none"

\* A job that is waited for has its id in the storage.
Working(t) ==
  /\ poll[t] = "polling" /\ exec[t] # "none" => t \in excused
  /\ t \notin excused /\ tasks[t] \in Unfinished =>
       /\ exec[t] \in {"saving", "waiting"} => InfoWillBe(t, jobs[t])
       /\ exec[t] = "waiting" => Quiet(writes, "info", t)
       /\ poll[t] = "polling" => InfoStands(t)

TaskInv(t) == Untouched(t) /\ Recovering(t) /\ Resuming(t) /\ Working(t)

RecoveryInv == Types /\ StageInv /\ JobsKnown /\ \A t \in Task : TaskInv(t)

-----------------------------------------------------------------------------
(***************************************************************************)
(* The queue of writes.                                                    *)
(***************************************************************************)

\* Whether a write is queued, in the terms of this module.
LEMMA QueuedMeans ==
  /\ \A store, t : Queued(store, {t}) <=> ~Quiet(writes, store, t)
  /\ \A store : ~Queued(store, Task) => \A t \in Task : Quiet(writes, store, t)
BY DEF Queued, Quiet, Of

\* More writes behind those of a queue: what they say of a record counts, and
\* what they do not speak of stays as it was.
LEMMA MoreWrites ==
  ASSUME NEW s \in Seq(WriteType), NEW ops \in Seq(WriteType), NEW store, NEW t
  PROVE  /\ s \o ops \in Seq(WriteType)
         /\ Quiet(ops, store, t) =>
              /\ Quiet(s, store, t) => Quiet(s \o ops, store, t)
              /\ \A old, v : WillSay(s, store, t, old, v) => WillSay(s \o ops, store, t, old, v)
         /\ \A v : EndsWith(ops, store, t, v) => EndsWith(s \o ops, store, t, v)
         /\ \A i \in DOMAIN (s \o ops) : \/ \E k \in DOMAIN s : (s \o ops)[i] = s[k]
                                         \/ \E k \in DOMAIN ops : (s \o ops)[i] = ops[k]
<1> DEFINE both == s \o ops
<1>1. /\ both \in Seq(WriteType) /\ Len(both) = Len(s) + Len(ops)
      /\ Len(s) \in Nat /\ Len(ops) \in Nat
      /\ DOMAIN s = 1 .. Len(s) /\ DOMAIN ops = 1 .. Len(ops)
      /\ DOMAIN both = 1 .. Len(s) + Len(ops)
  BY ConcatProperties, LenProperties
<1>2. /\ \A i \in DOMAIN s : both[i] = s[i]
      /\ \A i \in DOMAIN ops : both[Len(s) + i] = ops[i]
      /\ \A i \in DOMAIN both : i \in DOMAIN s \/ i - Len(s) \in DOMAIN ops
      /\ \A i \in DOMAIN both : i \in DOMAIN s \/ both[i] = ops[i - Len(s)]
  <2>1. \A i \in 1 .. Len(s) + Len(ops) :
          both[i] = IF i <= Len(s) THEN s[i] ELSE ops[i - Len(s)]
    BY ConcatProperties
  <2> HIDE DEF both
  <2> QED  BY <1>1, <2>1
<1> HIDE DEF both
<1>3. ASSUME Quiet(ops, store, t)
      PROVE  /\ Quiet(s, store, t) => Quiet(both, store, t)
             /\ \A v : EndsWith(s, store, t, v) => EndsWith(both, store, t, v)
  <2>1. Quiet(s, store, t) => Quiet(both, store, t)
    BY <1>2, <1>3 DEF Quiet
  <2>2. ASSUME NEW v, EndsWith(s, store, t, v)  PROVE EndsWith(both, store, t, v)
    <3>1. PICK i \in DOMAIN s :
            /\ Of(s[i], store, t) /\ s[i].value = v
            /\ \A k \in DOMAIN s : k > i => ~Of(s[k], store, t)
      BY <2>2 DEF EndsWith
    <3>2. \A k \in DOMAIN both : k > i => ~Of(both[k], store, t)
      BY <1>1, <1>2, <1>3, <3>1 DEF Quiet
    <3> QED  BY <1>1, <1>2, <3>1, <3>2 DEF EndsWith
  <2> QED  BY <2>1, <2>2
<1>4. ASSUME NEW v, EndsWith(ops, store, t, v)  PROVE EndsWith(both, store, t, v)
  <2>1. PICK i \in DOMAIN ops :
          /\ Of(ops[i], store, t) /\ ops[i].value = v
          /\ \A k \in DOMAIN ops : k > i => ~Of(ops[k], store, t)
    BY <1>4 DEF EndsWith
  <2>2. Len(s) + i \in DOMAIN both /\ both[Len(s) + i] = ops[i]
    BY <1>1, <1>2
  <2>3. ASSUME NEW k \in DOMAIN both, k > Len(s) + i  PROVE ~Of(both[k], store, t)
    <3>1. k \notin DOMAIN s /\ k - Len(s) > i
      BY <1>1, <2>3
    <3> QED  BY <1>2, <2>1, <3>1
  <2> QED  BY <2>1, <2>2, <2>3 DEF EndsWith
<1>5. \A i \in DOMAIN both : \/ \E k \in DOMAIN s : both[i] = s[k]
                             \/ \E k \in DOMAIN ops : both[i] = ops[k]
  BY <1>2
<1> QED  BY <1>1, <1>3, <1>4, <1>5 DEF WillSay, both

\* When the first write lands the record says what it wrote.
LEMMA FirstWriteLands ==
  ASSUME NEW s \in Seq(WriteType), s # <<>>, NEW store, NEW t
  PROVE  /\ Head(s) \in WriteType /\ Tail(s) \in Seq(WriteType)
         /\ Quiet(s, store, t) => ~Of(Head(s), store, t) /\ Quiet(Tail(s), store, t)
         /\ \A old, v : WillSay(s, store, t, old, v) =>
              WillSay(Tail(s), store, t,
                      IF Of(Head(s), store, t) THEN Head(s).value ELSE old, v)
<1> DEFINE tail == Tail(s)
<1>1. /\ tail \in Seq(WriteType) /\ Len(tail) = Len(s) - 1
      /\ Len(s) \in Nat \ {0}
      /\ DOMAIN s = 1 .. Len(s) /\ DOMAIN tail = 1 .. Len(s) - 1
  BY HeadTailProperties, LenProperties, EmptySeq
<1>2. \A i \in DOMAIN tail : i + 1 \in DOMAIN s /\ tail[i] = s[i + 1]
  <2>1. \A i \in 1 .. Len(tail) : tail[i] = s[i + 1]
    BY HeadTailProperties
  <2> HIDE DEF tail
  <2> QED  BY <1>1, <2>1
<1>3. Head(s) \in WriteType /\ Head(s) = s[1] /\ 1 \in DOMAIN s
  BY <1>1, HeadTailProperties
<1> HIDE DEF tail
<1>4. Quiet(s, store, t) => ~Of(Head(s), store, t) /\ Quiet(tail, store, t)
  BY <1>2, <1>3 DEF Quiet
<1>5. ASSUME NEW old, NEW v, EndsWith(s, store, t, v)
      PROVE  WillSay(tail, store, t,
                     IF Of(Head(s), store, t) THEN Head(s).value ELSE old, v)
  <2>1. PICK i \in DOMAIN s :
          /\ Of(s[i], store, t) /\ s[i].value = v
          /\ \A k \in DOMAIN s : k > i => ~Of(s[k], store, t)
    BY <1>5 DEF EndsWith
  <2>2. CASE i = 1
    <3>1. Quiet(tail, store, t)
      BY <1>1, <1>2, <2>1, <2>2 DEF Quiet
    <3> QED  BY <1>3, <2>1, <2>2, <3>1 DEF WillSay
  <2>3. CASE i # 1
    <3>1. i - 1 \in DOMAIN tail /\ tail[i - 1] = s[i]
      BY <1>1, <1>2, <2>3
    <3>2. \A k \in DOMAIN tail : k > i - 1 => ~Of(tail[k], store, t)
      BY <1>1, <1>2, <2>1
    <3> QED  BY <2>1, <3>1, <3>2 DEF EndsWith, WillSay
  <2> QED  BY <2>2, <2>3
<1> QED  BY <1>1, <1>3, <1>4, <1>5 DEF WillSay, tail

\* Every write of the model is one of these.
LEMMA WriteTypes ==
  ASSUME NEW t \in Task
  PROVE  /\ \A status \in Status :
              /\ SaveTask(t, status) \in WriteType
              /\ SaveTask(t, status).store = "task"
              /\ SaveTask(t, status).task = t
              /\ SaveTask(t, status).value = status
         /\ \A job \in Job :
              /\ SaveInfo(t, job) \in WriteType
              /\ SaveInfo(t, job).store = "info"
              /\ SaveInfo(t, job).task = t
              /\ SaveInfo(t, job).value = job
         /\ DeleteInfo(t) = SaveInfo(t, NoJob) /\ NoJob \in Job
BY BoundsAssumption DEF SaveTask, SaveInfo, DeleteInfo, WriteType, Job, NoJob

-----------------------------------------------------------------------------
(***************************************************************************)
(* What a step does to the storage and to its queue.                       *)
(***************************************************************************)

\* The step says nothing new of the recovery info of t, or of its status.
InfoKept(t) ==
  /\ \A job : WillSay(writes, "info", t, info[t], job) =>
               WillSay(writes', "info", t, info'[t], job)
  /\ Quiet(writes, "info", t) => Quiet(writes', "info", t) /\ info'[t] = info[t]
DiskKept(t) ==
  \A status : WillSay(writes, "task", t, disk[t], status) =>
              WillSay(writes', "task", t, disk'[t], status)

\* What the storage will say of t after the step.
InfoBecomes(t, job) == WillSay(writes', "info", t, info'[t], job)
DiskBecomes(t, status) == WillSay(writes', "task", t, disk'[t], status)

\* What is queued after the step was queued before, or is one of W.
QueuesOnly(W) ==
  \A i \in DOMAIN writes' :
    writes'[i] \in W \/ \E k \in DOMAIN writes : writes'[i] = writes[k]

\* A step that leaves the storage alone.
LEMMA StorageAlone ==
  ASSUME UNCHANGED storeVars
  PROVE  /\ \A u : InfoKept(u) /\ DiskKept(u)
         /\ QueuesOnly({})
BY DEF storeVars, InfoKept, DiskKept, QueuesOnly

\* Queueing any writes.
LEMMA QueueEffect ==
  ASSUME Types, NEW ops \in Seq(WriteType), Queue(ops)
  PROVE  /\ writes' \in Seq(WriteType)
         /\ UNCHANGED <<disk, info>>
         /\ \A u : Quiet(ops, "info", u) => InfoKept(u)
         /\ \A u, job : EndsWith(ops, "info", u, job) => InfoBecomes(u, job)
         /\ \A u : Quiet(ops, "task", u) => DiskKept(u)
         /\ \A u, status : EndsWith(ops, "task", u, status) => DiskBecomes(u, status)
         /\ QueuesOnly({ops[i] : i \in DOMAIN ops})
<1>1. writes' = writes \o ops /\ UNCHANGED <<disk, info>> /\ writes \in Seq(WriteType)
  BY DEF Queue, Types
<1>2. writes' \in Seq(WriteType)
  BY <1>1, ConcatProperties
<1>3. \A u : Quiet(ops, "info", u) => InfoKept(u)
  BY <1>1, MoreWrites DEF InfoKept
<1>4. \A u : Quiet(ops, "task", u) => DiskKept(u)
  BY <1>1, MoreWrites DEF DiskKept
<1>5. /\ \A u, job : EndsWith(ops, "info", u, job) => InfoBecomes(u, job)
      /\ \A u, status : EndsWith(ops, "task", u, status) => DiskBecomes(u, status)
  BY <1>1, MoreWrites DEF InfoBecomes, DiskBecomes, WillSay
<1>6. QueuesOnly({ops[i] : i \in DOMAIN ops})
  <2>1. /\ Len(writes) \in Nat /\ Len(ops) \in Nat
        /\ DOMAIN writes = 1 .. Len(writes) /\ DOMAIN ops = 1 .. Len(ops)
        /\ DOMAIN writes' = 1 .. Len(writes) + Len(ops)
    BY <1>1, <1>2, ConcatProperties, LenProperties
  <2>2. \A i \in 1 .. Len(writes) + Len(ops) :
          writes'[i] = IF i <= Len(writes) THEN writes[i] ELSE ops[i - Len(writes)]
    BY <1>1, ConcatProperties
  <2>3. ASSUME NEW i \in DOMAIN writes'
        PROVE  \/ \E k \in DOMAIN ops : writes'[i] = ops[k]
               \/ \E k \in DOMAIN writes : writes'[i] = writes[k]
    <3>1. CASE i <= Len(writes)
      BY <2>1, <2>2, <3>1
    <3>2. CASE ~(i <= Len(writes))
      <4>1. i - Len(writes) \in DOMAIN ops
        BY <2>1, <3>2
      <4> QED  BY <2>1, <2>2, <3>2, <4>1
    <3> QED  BY <3>1, <3>2
  <2> QED  BY <2>3 DEF QueuesOnly
<1> QED  BY <1>1, <1>2, <1>3, <1>4, <1>5, <1>6

\* Queueing one write, or none.
LEMMA QueueOne ==
  ASSUME Types, NEW w \in WriteType, Queue(<<w>>)
  PROVE  /\ writes' \in Seq(WriteType)
         /\ UNCHANGED <<disk, info>>
         /\ \A u : IF Of(w, "info", u) THEN InfoBecomes(u, w.value) ELSE InfoKept(u)
         /\ \A u : IF Of(w, "task", u) THEN DiskBecomes(u, w.value) ELSE DiskKept(u)
         /\ QueuesOnly({w})
<1> DEFINE ops == <<w>>
<1>1. ops \in Seq(WriteType) /\ DOMAIN ops = {1} /\ ops[1] = w
  OBVIOUS
<1>2. Queue(ops)
  OBVIOUS
<1> HIDE DEF ops
<1>3. \A store, u : IF Of(w, store, u) THEN EndsWith(ops, store, u, w.value)
                    ELSE Quiet(ops, store, u)
  BY <1>1 DEF EndsWith, Quiet
<1>4. {ops[i] : i \in DOMAIN ops} = {w}
  BY <1>1
<1>5. QueuesOnly({w})
  BY <1>1, <1>2, <1>4, QueueEffect
<1> QED  BY <1>1, <1>2, <1>3, <1>5, QueueEffect

\* Two writes one after the other.
LEMMA TwoWrites ==
  ASSUME NEW w \in WriteType, NEW x \in WriteType
  PROVE  <<w>> \o <<x>> = <<w, x>>
<1> DEFINE one == <<w>>
           other == <<x>>
           pair == <<w, x>>
<1>1. /\ one \in Seq(WriteType) /\ other \in Seq(WriteType) /\ pair \in Seq(WriteType)
      /\ Len(one) = 1 /\ Len(other) = 1 /\ Len(pair) = 2
      /\ one[1] = w /\ other[1] = x /\ pair[1] = w /\ pair[2] = x
  OBVIOUS
<1> HIDE DEF one, other, pair
<1>2. /\ one \o other \in Seq(WriteType) /\ Len(one \o other) = 2
      /\ (one \o other)[1] = w /\ (one \o other)[2] = x
  BY <1>1, ConcatProperties
<1>3. one \o other = pair
  BY <1>1, <1>2, SeqEqual
<1> QED  BY <1>3 DEF one, other, pair

\* Queueing two writes, of a status and of a recovery info.
LEMMA QueueTwo ==
  ASSUME Types, NEW w \in WriteType, NEW x \in WriteType, w.store # x.store,
         Queue(<<w, x>>)
  PROVE  /\ writes' \in Seq(WriteType)
         /\ UNCHANGED <<disk, info>>
         /\ \A u : /\ Of(w, "info", u) => InfoBecomes(u, w.value)
                   /\ Of(x, "info", u) => InfoBecomes(u, x.value)
                   /\ ~Of(w, "info", u) /\ ~Of(x, "info", u) => InfoKept(u)
         /\ \A u : /\ Of(w, "task", u) => DiskBecomes(u, w.value)
                   /\ Of(x, "task", u) => DiskBecomes(u, x.value)
                   /\ ~Of(w, "task", u) /\ ~Of(x, "task", u) => DiskKept(u)
         /\ QueuesOnly({w, x})
<1> DEFINE ops == <<w, x>>
<1>1. ops \in Seq(WriteType) /\ DOMAIN ops = {1, 2} /\ ops[1] = w /\ ops[2] = x
  OBVIOUS
<1>2. Queue(ops)
  OBVIOUS
<1> HIDE DEF ops
<1>3. \A store, u : /\ Of(w, store, u) => EndsWith(ops, store, u, w.value)
                    /\ Of(x, store, u) => EndsWith(ops, store, u, x.value)
                    /\ ~Of(w, store, u) /\ ~Of(x, store, u) => Quiet(ops, store, u)
  BY <1>1 DEF EndsWith, Quiet, Of
<1>4. {ops[i] : i \in DOMAIN ops} = {w, x}
  BY <1>1
<1>5. QueuesOnly({w, x})
  BY <1>1, <1>2, <1>4, QueueEffect
<1> QED  BY <1>1, <1>2, <1>3, <1>5, QueueEffect

\* A landing write changes what is stored, and not what will be.
LEMMA LandEffect ==
  ASSUME Types, Land
  PROVE  /\ writes' \in Seq(WriteType)
         /\ info' \in [Task -> Job] /\ disk' \in [Task -> Status]
         /\ \A u \in Task : InfoKept(u) /\ DiskKept(u)
         /\ QueuesOnly({})
         /\ \A u \in Task : \/ info'[u] = info[u]
                             \/ \E k \in DOMAIN writes :
                                  /\ writes[k].store = "info" /\ writes[k].task = u
                                  /\ info'[u] = writes[k].value
<1> DEFINE op == Head(writes)
<1>1. /\ writes \in Seq(WriteType) /\ writes # <<>> /\ writes' = Tail(writes)
      /\ info \in [Task -> Job] /\ disk \in [Task -> Status]
      /\ \/ op.store = "task" /\ disk' = [disk EXCEPT ![op.task] = op.value] /\ UNCHANGED info
         \/ op.store = "info" /\ info' = [info EXCEPT ![op.task] = op.value] /\ UNCHANGED disk
  BY DEF Land, Types
<1>2. op \in WriteType /\ writes' \in Seq(WriteType)
  BY <1>1, FirstWriteLands
<1>3. /\ op.task \in Task
      /\ op.store = "task" => op.value \in Status
      /\ op.store = "info" => op.value \in Job
  BY <1>2 DEF WriteType
<1>4. /\ Len(writes) \in Nat \ {0} /\ DOMAIN writes = 1 .. Len(writes)
      /\ Len(writes') = Len(writes) - 1 /\ DOMAIN writes' = 1 .. Len(writes) - 1
      /\ \A i \in 1 .. Len(writes') : writes'[i] = writes[i + 1]
      /\ op = writes[1]
  BY <1>1, <1>2, HeadTailProperties, LenProperties, EmptySeq
<1>f. \A store, u :
        /\ Quiet(writes, store, u) => ~Of(op, store, u) /\ Quiet(writes', store, u)
        /\ \A old, v : WillSay(writes, store, u, old, v) =>
             WillSay(writes', store, u, IF Of(op, store, u) THEN op.value ELSE old, v)
  BY <1>1, FirstWriteLands
<1> HIDE DEF op
<1>5. info' \in [Task -> Job] /\ disk' \in [Task -> Status]
  BY <1>1, <1>3
<1>6. \A u \in Task : /\ info'[u] = IF Of(op, "info", u) THEN op.value ELSE info[u]
                      /\ disk'[u] = IF Of(op, "task", u) THEN op.value ELSE disk[u]
  BY <1>1, <1>3 DEF Of
<1>7. \A u \in Task : InfoKept(u) /\ DiskKept(u)
  BY <1>f, <1>6 DEF InfoKept, DiskKept
<1>8. QueuesOnly({})
  <2>1. \A i \in DOMAIN writes' : i + 1 \in DOMAIN writes /\ writes'[i] = writes[i + 1]
    BY <1>4
  <2> QED  BY <2>1 DEF QueuesOnly
<1>9. \A u \in Task : \/ info'[u] = info[u]
                      \/ \E k \in DOMAIN writes :
                           /\ writes[k].store = "info" /\ writes[k].task = u
                           /\ info'[u] = writes[k].value
  <2>1. 1 \in DOMAIN writes
    BY <1>4
  <2> QED  BY <1>4, <1>6, <2>1 DEF Of
<1> QED  BY <1>2, <1>5, <1>7, <1>8, <1>9

\* updateTask with a status that does not end the task.
LEMMA UpdateEffect ==
  ASSUME Types, NEW t \in Task, NEW status \in Status, Update(t, status, <<>>)
  PROVE  /\ writes' \in Seq(WriteType) /\ UNCHANGED <<disk, info>>
         /\ tasks' \in [Task -> Status]
         /\ \A u \in Task : u # t => tasks'[u] = tasks[u] /\ DiskKept(u)
         /\ \A u \in Task : InfoKept(u)
         /\ IF tasks[t] = "absent" THEN UNCHANGED <<tasks, storeVars>>
            ELSE tasks'[t] = status /\ DiskBecomes(t, status)
         /\ QueuesOnly({SaveTask(t, status)})
<1>1. CASE tasks[t] = "absent"
  BY <1>1, StorageAlone DEF Update, Types, storeVars, QueuesOnly
<1>2. CASE tasks[t] # "absent"
  <2>1. <<SaveTask(t, status)>> \o <<>> = <<SaveTask(t, status)>>
    BY WriteTypes, ConcatEmptySeq
  <2>2. tasks' = [tasks EXCEPT ![t] = status] /\ Queue(<<SaveTask(t, status)>>)
    BY <1>2, <2>1 DEF Update
  <2>3. tasks' \in [Task -> Status] /\ \A u \in Task : tasks'[u] = IF u = t THEN status ELSE tasks[u]
    BY <2>2 DEF Types
  <2>4. /\ SaveTask(t, status) \in WriteType
        /\ \A u : ~Of(SaveTask(t, status), "info", u)
        /\ \A u : Of(SaveTask(t, status), "task", u) <=> u = t
        /\ SaveTask(t, status).value = status
    BY WriteTypes DEF Of
  <2> QED  BY <1>2, <2>2, <2>3, <2>4, QueueOne
<1> QED  BY <1>1, <1>2

\* updateTask with a terminal status.
LEMMA EndTaskEffect ==
  ASSUME Types, NEW t \in Task, NEW status \in Status, EndTask(t, status)
  PROVE  /\ writes' \in Seq(WriteType) /\ UNCHANGED <<disk, info>>
         /\ tasks' \in [Task -> Status]
         /\ \A u \in Task : u # t => tasks'[u] = tasks[u] /\ DiskKept(u) /\ InfoKept(u)
         /\ IF tasks[t] = "absent" THEN UNCHANGED <<tasks, storeVars>>
            ELSE /\ tasks'[t] = status /\ DiskBecomes(t, status)
                 /\ InfoBecomes(t, NoJob)
         /\ QueuesOnly({SaveTask(t, status), DeleteInfo(t)})
<1>1. CASE tasks[t] = "absent"
  BY <1>1, StorageAlone DEF EndTask, Update, Types, storeVars, QueuesOnly
<1>2. CASE tasks[t] # "absent"
  <2>0. /\ SaveTask(t, status) \in WriteType /\ DeleteInfo(t) \in WriteType
        /\ \A u : ~Of(SaveTask(t, status), "info", u) /\ ~Of(DeleteInfo(t), "task", u)
        /\ \A u : Of(SaveTask(t, status), "task", u) <=> u = t
        /\ \A u : Of(DeleteInfo(t), "info", u) <=> u = t
        /\ SaveTask(t, status).value = status /\ DeleteInfo(t).value = NoJob
        /\ SaveTask(t, status).store # DeleteInfo(t).store
    BY WriteTypes DEF Of
  <2>1. <<SaveTask(t, status)>> \o <<DeleteInfo(t)>> = <<SaveTask(t, status), DeleteInfo(t)>>
    BY <2>0, TwoWrites
  <2>2. tasks' = [tasks EXCEPT ![t] = status] /\ Queue(<<SaveTask(t, status), DeleteInfo(t)>>)
    BY <1>2, <2>1 DEF EndTask, Update
  <2>3. tasks' \in [Task -> Status] /\ \A u \in Task : tasks'[u] = IF u = t THEN status ELSE tasks[u]
    BY <2>2 DEF Types
  <2> QED  BY <1>2, <2>0, <2>2, <2>3, QueueTwo
<1> QED  BY <1>1, <1>2

\* What updateLifecycle writes: the status the map has, and the removal of the
\* recovery info of an ended task.
LEMMA LifecycleMeans ==
  ASSUME Types, NEW t \in Task
  PROVE  /\ LifecycleWrites(t) \in Seq(WriteType)
         /\ \A u, store : u # t => Quiet(LifecycleWrites(t), store, u)
         /\ \/ Quiet(LifecycleWrites(t), "task", t)
            \/ EndsWith(LifecycleWrites(t), "task", t, tasks[t])
         /\ tasks[t] \notin Ended => Quiet(LifecycleWrites(t), "info", t)
         /\ tasks[t] \in Ended => EndsWith(LifecycleWrites(t), "info", t, NoJob)
         /\ \A i \in DOMAIN LifecycleWrites(t) :
              LifecycleWrites(t)[i] \in {SaveTask(t, tasks[t]), DeleteInfo(t)}
<1> DEFINE save == SaveTask(t, tasks[t])
           gone == DeleteInfo(t)
           ops == LifecycleWrites(t)
<1>1. tasks[t] \in Status
  BY DEF Types
<1>2. /\ save \in WriteType /\ save.store = "task" /\ save.task = t
      /\ save.value = tasks[t]
      /\ gone \in WriteType /\ gone.store = "info" /\ gone.task = t
      /\ gone.value = NoJob
  BY <1>1, WriteTypes
<1>3. \/ tasks[t] = "absent" /\ tasks[t] \notin Ended /\ ops = <<>>
      \/ tasks[t] \notin Ended /\ ops = <<save>>
      \/ tasks[t] \in Ended /\ ops = <<save, gone>>
  BY <1>1 DEF LifecycleWrites, Status, Unfinished, Ended
<1> HIDE DEF save, gone, ops
<1>4. CASE tasks[t] \notin Ended /\ ops = <<>>
  <2>1. ops \in Seq(WriteType) /\ DOMAIN ops = {}
    BY <1>4
  <2> QED  BY <1>4, <2>1 DEF Quiet, ops
<1>5. CASE tasks[t] \notin Ended /\ ops = <<save>>
  <2>1. ops \in Seq(WriteType) /\ DOMAIN ops = {1} /\ ops[1] = save
    BY <1>2, <1>5
  <2> QED  BY <1>2, <1>5, <2>1 DEF Quiet, EndsWith, Of, ops, save
<1>6. CASE tasks[t] \in Ended /\ ops = <<save, gone>>
  <2>1. ops \in Seq(WriteType) /\ DOMAIN ops = {1, 2} /\ ops[1] = save /\ ops[2] = gone
    BY <1>2, <1>6
  <2> QED  BY <1>2, <1>6, <2>1 DEF Quiet, EndsWith, Of, ops, save, gone
<1> QED  BY <1>3, <1>4, <1>5, <1>6

\* Queueing the writes of updateLifecycle.
LEMMA LifecycleEffect ==
  ASSUME Types, NEW t \in Task, Queue(LifecycleWrites(t))
  PROVE  /\ writes' \in Seq(WriteType) /\ UNCHANGED <<disk, info>>
         /\ \A u : u # t => DiskKept(u) /\ InfoKept(u)
         /\ DiskKept(t) \/ DiskBecomes(t, tasks[t])
         /\ tasks[t] \notin Ended => InfoKept(t)
         /\ tasks[t] \in Ended => InfoBecomes(t, NoJob)
         /\ QueuesOnly({SaveTask(t, tasks[t]), DeleteInfo(t)})
<1> DEFINE ops == LifecycleWrites(t)
<1>1. /\ ops \in Seq(WriteType) /\ Queue(ops)
      /\ \A u : u # t => Quiet(ops, "info", u) /\ Quiet(ops, "task", u)
      /\ Quiet(ops, "task", t) \/ EndsWith(ops, "task", t, tasks[t])
      /\ tasks[t] \notin Ended => Quiet(ops, "info", t)
      /\ tasks[t] \in Ended => EndsWith(ops, "info", t, NoJob)
      /\ \A i \in DOMAIN ops : ops[i] \in {SaveTask(t, tasks[t]), DeleteInfo(t)}
  BY LifecycleMeans
<1> HIDE DEF ops
<1>2. QueuesOnly({ops[i] : i \in DOMAIN ops})
  BY <1>1, QueueEffect
<1>3. QueuesOnly({SaveTask(t, tasks[t]), DeleteInfo(t)})
  BY <1>1, <1>2 DEF QueuesOnly
<1> QED  BY <1>1, <1>3, QueueEffect

-----------------------------------------------------------------------------
(***************************************************************************)
(* Steps of a task, while the start-up stays where it is.                  *)
(***************************************************************************)

\* What a step leaves alone of task u.
TaskKept(u) ==
  /\ tasks'[u] = tasks[u] /\ exec'[u] = exec[u] /\ poll'[u] = poll[u]
  /\ jobs'[u] = jobs[u]
  /\ InfoKept(u) /\ DiskKept(u)

\* Queued writes and saved infos are still of jobs the provider was given.
LEMMA JobsStayKnown ==
  ASSUME Types, JobsKnown, writes' \in Seq(WriteType),
         jobs' \in [Task -> Job], info' \in [Task -> Job], infos' \in [Task -> Job],
         \A u \in Task : jobs[u] <= jobs'[u],
         NEW W, QueuesOnly(W),
         \A w \in W : w.store = "info" => w.value <= jobs'[w.task],
         \A u \in Task : \/ info'[u] = info[u]
                         \/ \E k \in DOMAIN writes :
                              /\ writes[k].store = "info" /\ writes[k].task = u
                              /\ info'[u] = writes[k].value,
         \A u \in Task : infos'[u] \in {infos[u], info[u], NoJob}
  PROVE  JobsKnown'
<1>1. \A k \in DOMAIN writes :
        writes[k].store = "info" =>
          /\ writes[k].task \in Task /\ writes[k].value \in Job
          /\ writes[k].value <= jobs[writes[k].task]
  <2>1. \A k \in DOMAIN writes : writes[k] \in WriteType
    BY LenProperties, ElementOfSeq DEF Types
  <2> QED  BY <2>1 DEF WriteType, JobsKnown
<1>2. ASSUME NEW u \in Task  PROVE info'[u] <= jobs'[u] /\ infos'[u] <= jobs'[u]
  <2>1. /\ jobs[u] \in Nat /\ jobs'[u] \in Nat /\ jobs[u] <= jobs'[u]
        /\ info[u] \in Nat /\ info'[u] \in Nat /\ infos[u] \in Nat /\ infos'[u] \in Nat
        /\ info[u] <= jobs[u] /\ infos[u] <= jobs[u]
    BY BoundsAssumption DEF Types, Job, JobsKnown
  <2>2. info'[u] <= jobs[u]
    BY <1>1, <2>1
  <2> QED  BY <2>1, <2>2 DEF NoJob
<1>3. ASSUME NEW i \in DOMAIN writes', writes'[i].store = "info"
      PROVE  writes'[i].value <= jobs'[writes'[i].task]
  <2>1. CASE writes'[i] \in W
    BY <1>3, <2>1
  <2>2. CASE \E k \in DOMAIN writes : writes'[i] = writes[k]
    <3> DEFINE u == writes'[i].task
               v == writes'[i].value
    <3>1. u \in Task /\ v \in Job /\ v <= jobs[u]
      BY <1>1, <1>3, <2>2
    <3> HIDE DEF u, v
    <3>2. jobs[u] \in Job /\ jobs'[u] \in Job /\ jobs[u] <= jobs'[u]
      BY <3>1 DEF Types
    <3>3. v <= jobs'[u]
      BY <3>1, <3>2, BoundsAssumption DEF Job
    <3> QED  BY <3>3 DEF u, v
  <2> QED  BY <2>1, <2>2 DEF QueuesOnly
<1> QED  BY <1>2, <1>3 DEF JobsKnown

\* A task no step touches keeps its invariant while the start-up does.
LEMMA KeptTask ==
  ASSUME NEW u \in Task, TaskInv(u), TaskKept(u), excused \subseteq excused',
         UNCHANGED <<phase, doing, on, infos, todo>>
  PROVE  TaskInv(u)'
<1>1. Untouched(u)'
  BY DEF TaskInv, TaskKept, Untouched, Mirrored, DiskKept
<1>2. Recovering(u)'
  BY DEF TaskInv, TaskKept, Recovering, InfoWillBe, InfoStands, InfoKept
<1>3. Resuming(u)'
  BY DEF TaskInv, TaskKept, Resuming, InHand, InfoWillBe, InfoKept
<1>4. Working(u)'
  BY DEF TaskInv, TaskKept, Working, InfoWillBe, InfoStands, InfoKept
<1> QED  BY <1>1, <1>2, <1>3, <1>4 DEF TaskInv

\* So a step of one task is a matter of that task.
LEMMA OneTaskStep ==
  ASSUME RecoveryInv, NEW t \in Task, UNCHANGED startVars, UNCHANGED crashes,
         tasks' \in [Task -> Status], exec' \in [Task -> ExecStages],
         poll' \in [Task -> PollStages], jobs' \in [Task -> Job],
         writes' \in Seq(WriteType), UNCHANGED <<disk, info>>,
         phase # "starting",
         deleting' \subseteq excused', excused' \subseteq Task,
         excused \subseteq excused',
         jobs[t] <= jobs'[t],
         NEW W, QueuesOnly(W),
         \A w \in W : w.store = "info" => w.value <= jobs'[w.task],
         \A u \in Task \ {t} : TaskKept(u),
         TaskInv(t)'
  PROVE  RecoveryInv'
<1>0. Types /\ StageInv /\ JobsKnown /\ \A u \in Task : TaskInv(u)
  BY DEF RecoveryInv
<1>1. Types'
  BY <1>0 DEF Types, startVars
<1>2. StageInv'
  BY <1>0 DEF StageInv, startVars
<1>3. JobsKnown'
  <2>1. \A u \in Task : jobs[u] <= jobs'[u]
    <3> SUFFICES ASSUME NEW u \in Task  PROVE jobs[u] <= jobs'[u]
      OBVIOUS
    <3>1. jobs[u] \in Nat /\ (u # t => jobs'[u] = jobs[u])
      BY <1>0, BoundsAssumption DEF TaskKept, Types, Job
    <3> QED  BY <3>1
  <2> QED  BY <1>0, <1>1, <2>1, JobsStayKnown DEF Types, startVars
<1>4. \A u \in Task : TaskInv(u)'
  BY <1>0, KeptTask DEF startVars
<1> QED  BY <1>1, <1>2, <1>3, <1>4 DEF RecoveryInv

\* Nothing is done to a task before the start-up has read the storage.
LEMMA Asleep ==
  ASSUME RecoveryInv, phase = "starting", NEW t \in Task
  PROVE  /\ tasks[t] = "absent" /\ exec[t] = "none" /\ poll[t] = "none"
         /\ t \notin deleting
BY DEF RecoveryInv, StageInv, Unknown, TaskInv, Untouched

\* The user's calls keep the invariant.
LEMMA UserStep ==
  ASSUME RecoveryInv, NEW t \in Task,
         Submit(t) \/ Cancel(t) \/ Delete(t) \/ GoOnDeleting(t)
  PROVE  RecoveryInv'
<1>0. Types /\ StageInv /\ JobsKnown /\ TaskInv(t)
  BY DEF RecoveryInv
<1>t. /\ tasks \in [Task -> Status] /\ exec \in [Task -> ExecStages]
      /\ poll \in [Task -> PollStages] /\ jobs \in [Task -> Job]
      /\ deleting \subseteq excused /\ excused \subseteq Task
      /\ jobs[t] \in Nat /\ jobs[t] <= jobs[t]
  BY <1>0, BoundsAssumption DEF Types, StageInv, Job
<1>s. /\ {"absent", "pending", "running", "completed", "failed", "cancelled"} \subseteq Status
      /\ {"none", "submitting", "queued", "asking", "saving", "waiting", "stopped",
         "late"} \subseteq ExecStages
      /\ NoJob \in Job /\ NoJob <= jobs[t]
  BY <1>t, BoundsAssumption DEF Status, Unfinished, Ended, ExecStages, Executing, NoJob, Job
<1>a. phase # "starting"
  <2> SUFFICES ASSUME phase = "starting"  PROVE FALSE
    OBVIOUS
  <2>1. tasks[t] = "absent" /\ t \notin deleting
    BY Asleep
  <2> QED  BY <2>1 DEF Submit, Cancel, Delete, GoOnDeleting, Unfinished
<1>1. CASE Submit(t)
  <2>1. /\ phase = "up" /\ tasks[t] = "absent" /\ jobs[t] = 0
        /\ tasks' = [tasks EXCEPT ![t] = "pending"]
        /\ exec' = [exec EXCEPT ![t] = "submitting"]
        /\ Queue(<<SaveTask(t, "pending")>>)
        /\ UNCHANGED <<jobs, poll, deleting, excused, crashes, startVars>>
    BY <1>1 DEF Submit, userVars
  <2>2. /\ \A u \in Task : tasks'[u] = IF u = t THEN "pending" ELSE tasks[u]
        /\ \A u \in Task : exec'[u] = IF u = t THEN "submitting" ELSE exec[u]
        /\ tasks' \in [Task -> Status] /\ exec' \in [Task -> ExecStages]
    BY <1>t, <1>s, <2>1
  <2>w. /\ SaveTask(t, "pending") \in WriteType /\ SaveTask(t, "pending").store = "task"
        /\ SaveTask(t, "pending").task = t
    BY <1>s, WriteTypes
  <2>3. /\ writes' \in Seq(WriteType) /\ UNCHANGED <<disk, info>>
        /\ \A u : InfoKept(u) /\ (u # t => DiskKept(u))
        /\ QueuesOnly({SaveTask(t, "pending")})
    BY <1>0, <2>1, <2>w, QueueOne DEF Of
  <2>4. \A u \in Task \ {t} : TaskKept(u)
    BY <2>1, <2>2, <2>3 DEF TaskKept
  <2>5. poll[t] = "none"
    BY <1>0, <2>1, BoundsAssumption DEF RecoveryInv, JobsKnown, TaskInv, Recovering, Types,
       Job, NoJob
  <2>6. TaskInv(t)'
    BY <2>1, <2>2, <2>5 DEF startVars, TaskInv, Untouched, Recovering, Resuming, Working,
       InHand, Executing
  <2> QED  BY <1>t, <1>a, <2>1, <2>2, <2>w, <2>3, <2>4, <2>6, OneTaskStep
<1>2. CASE Cancel(t)
  <2>1. /\ tasks[t] \in Unfinished /\ EndTask(t, "cancelled")
        /\ \E stage \in ExecStages :
             /\ exec' = [exec EXCEPT ![t] = stage]
             /\ exec[t] = "none" => stage = "none"
        /\ excused' = excused \cup {t}
        /\ UNCHANGED <<jobs, poll, deleting, crashes, startVars>>
    BY <1>2, <1>t, <1>s DEF Cancel, Aborted
  <2>2. /\ \A u \in Task : u # t => exec'[u] = exec[u]
        /\ exec[t] = "none" => exec'[t] = "none"
        /\ exec' \in [Task -> ExecStages]
    BY <1>t, <2>1
  <2>3. /\ writes' \in Seq(WriteType) /\ UNCHANGED <<disk, info>>
        /\ tasks' \in [Task -> Status] /\ tasks'[t] = "cancelled"
        /\ \A u \in Task \ {t} : tasks'[u] = tasks[u] /\ DiskKept(u) /\ InfoKept(u)
        /\ DiskBecomes(t, "cancelled") /\ InfoBecomes(t, NoJob)
        /\ QueuesOnly({SaveTask(t, "cancelled"), DeleteInfo(t)})
    BY <1>0, <1>s, <2>1, EndTaskEffect DEF Unfinished
  <2>4. \A u \in Task \ {t} : TaskKept(u)
    BY <2>1, <2>2, <2>3 DEF TaskKept
  <2>5. TaskInv(t)'
    BY <1>0, <2>1, <2>2, <2>3 DEF startVars, TaskInv, Untouched, Recovering, Resuming,
       Working, InHand, Unfinished, Mirrored, DiskBecomes, InfoBecomes, InfoWillBe
  <2>6. \A w \in {SaveTask(t, "cancelled"), DeleteInfo(t)} :
          w.store = "info" => w.value <= jobs'[w.task]
    BY <1>s, <2>1, WriteTypes
  <2> QED  BY <1>t, <1>a, <2>1, <2>2, <2>3, <2>4, <2>5, <2>6, OneTaskStep
<1>3. CASE Delete(t)
  <2>1. /\ tasks[t] # "absent" /\ tasks' = [tasks EXCEPT ![t] = "absent"]
        /\ Queue(<<SaveTask(t, "absent")>>)
        /\ deleting' = deleting \cup {t} /\ excused' = excused \cup {t}
        /\ UNCHANGED <<jobs, exec, poll, crashes, startVars>>
    BY <1>3 DEF Delete
  <2>2. /\ \A u \in Task : tasks'[u] = IF u = t THEN "absent" ELSE tasks[u]
        /\ tasks' \in [Task -> Status]
    BY <1>t, <1>s, <2>1
  <2>w. /\ SaveTask(t, "absent") \in WriteType /\ SaveTask(t, "absent").store = "task"
        /\ SaveTask(t, "absent").task = t /\ SaveTask(t, "absent").value = "absent"
    BY <1>s, WriteTypes
  <2>3. /\ writes' \in Seq(WriteType) /\ UNCHANGED <<disk, info>>
        /\ \A u : InfoKept(u) /\ (u # t => DiskKept(u))
        /\ DiskBecomes(t, "absent")
        /\ QueuesOnly({SaveTask(t, "absent")})
    BY <1>0, <2>1, <2>w, QueueOne DEF Of
  <2>4. \A u \in Task \ {t} : TaskKept(u)
    BY <2>1, <2>2, <2>3 DEF TaskKept
  <2>5. TaskInv(t)'
    BY <1>0, <2>1, <2>2, <2>3 DEF startVars, TaskInv, Untouched, Recovering, Resuming,
       Working, InHand, Unfinished, Mirrored, DiskBecomes, InfoKept, InfoWillBe
  <2> QED  BY <1>t, <1>a, <2>1, <2>2, <2>w, <2>3, <2>4, <2>5, OneTaskStep
<1>4. CASE GoOnDeleting(t)
  <2>1. /\ t \in deleting /\ deleting' = deleting \ {t}
        /\ Queue(<<DeleteInfo(t)>>)
        /\ UNCHANGED <<tasks, jobs, exec, poll, excused, crashes, startVars>>
    BY <1>4 DEF GoOnDeleting
  <2>w. /\ DeleteInfo(t) \in WriteType /\ DeleteInfo(t).store = "info"
        /\ DeleteInfo(t).task = t /\ DeleteInfo(t).value = NoJob
    BY WriteTypes
  <2>3. /\ writes' \in Seq(WriteType) /\ UNCHANGED <<disk, info>>
        /\ \A u : DiskKept(u) /\ (u # t => InfoKept(u))
        /\ InfoBecomes(t, NoJob)
        /\ QueuesOnly({DeleteInfo(t)})
    BY <1>0, <2>1, <2>w, QueueOne DEF Of
  <2>4. \A u \in Task \ {t} : TaskKept(u)
    BY <2>1, <2>3 DEF TaskKept
  <2>5. TaskInv(t)'
    BY <1>0, <1>t, <2>1, <2>3 DEF startVars, TaskInv, Untouched, Recovering, Resuming,
       Working, InHand, Mirrored, DiskKept, InfoBecomes, InfoWillBe
  <2> QED  BY <1>t, <1>s, <1>a, <2>1, <2>w, <2>3, <2>4, <2>5, OneTaskStep
<1> QED  BY <1>1, <1>2, <1>3, <1>4

\* So does an execution.
LEMMA ExecutionStep ==
  ASSUME RecoveryInv, NEW t \in Task, Execute(t)
  PROVE  RecoveryInv'
<1>0. Types /\ StageInv /\ JobsKnown /\ TaskInv(t)
  BY DEF RecoveryInv
<1>t. /\ tasks \in [Task -> Status] /\ exec \in [Task -> ExecStages]
      /\ poll \in [Task -> PollStages] /\ jobs \in [Task -> Job]
      /\ writes \in Seq(WriteType)
      /\ deleting \subseteq excused /\ excused \subseteq Task
      /\ jobs[t] \in Nat /\ jobs[t] <= jobs[t]
  BY <1>0, BoundsAssumption DEF Types, StageInv, Job
<1>s. /\ {"absent", "pending", "running", "completed", "failed", "cancelled"} \subseteq Status
      /\ {"none", "submitting", "queued", "asking", "saving", "waiting", "stopped",
         "late"} \subseteq ExecStages
      /\ NoJob \in Job /\ NoJob <= jobs[t]
  BY <1>t, BoundsAssumption DEF Status, Unfinished, Ended, ExecStages, Executing, NoJob, Job
\* Nothing executes until the start-up has resumed a task.
<1>a. phase \notin {"starting", "infos", "recovering"} /\ ~InHand(t)
  <2>1. exec[t] # "none"
    BY DEF Execute, Submitted, Start, Accepted, InfoSaved, Finish, TimeOut, Abandon
  <2> QED  BY <1>0, <2>1 DEF TaskInv, Untouched, Resuming
\* What the task needs of a step of its own execution, by its stage.
<1>e. ASSUME UNCHANGED startVars, UNCHANGED excused, poll'[t] = poll[t], exec[t] # "none",
             tasks'[t] \in Unfinished => exec'[t] \in Executing \/ poll[t] # "none",
             tasks'[t] \in Unfinished /\ t \notin excused =>
               /\ exec'[t] \in {"saving", "waiting"} => InfoWillBe(t, jobs[t])'
               /\ exec'[t] = "waiting" => Quiet(writes', "info", t)
      PROVE  TaskInv(t)'
  <2>1. poll[t] = "polling" => t \in excused
    BY <1>0, <1>e DEF TaskInv, Working
  <2>2. Untouched(t)'
    BY <1>a, <1>e DEF startVars, Untouched
  <2>3. Recovering(t)'
    BY <1>0, <1>a, <1>e DEF startVars, TaskInv, Recovering
  <2>4. Resuming(t)'
    BY <1>a, <1>e DEF startVars, Resuming, InHand
  <2>5. Working(t)'
    BY <1>e, <2>1 DEF startVars, Working
  <2> QED  BY <2>2, <2>3, <2>4, <2>5 DEF TaskInv
\* Before the step, somebody works on an unfinished task.
<1>w. tasks[t] \in Unfinished => exec[t] \in Executing \/ poll[t] # "none"
  BY <1>0, <1>a DEF Types, Phases, TaskInv, Resuming
\* The steps that only move the execution on.
<1>m. ASSUME NEW stage \in ExecStages, exec' = [exec EXCEPT ![t] = stage],
             UNCHANGED <<tasks, storeVars, jobs, poll, startVars, userVars, crashes>>,
             TaskInv(t)'
      PROVE  RecoveryInv'
  <2>1. /\ \A u \in Task : u # t => exec'[u] = exec[u]
        /\ exec' \in [Task -> ExecStages]
    BY <1>t, <1>m
  <2>2. (\A u : InfoKept(u) /\ DiskKept(u)) /\ QueuesOnly({})
    BY <1>m, StorageAlone
  <2>3. \A u \in Task \ {t} : TaskKept(u)
    BY <1>m, <2>1, <2>2 DEF TaskKept
  <2> QED  BY <1>t, <1>a, <1>m, <2>1, <2>2, <2>3, OneTaskStep DEF storeVars, userVars
<1>1. CASE Submitted(t)
  <2>1. /\ exec[t] = "submitting" /\ exec' = [exec EXCEPT ![t] = "queued"]
        /\ exec'[t] = "queued"
        /\ UNCHANGED <<tasks, storeVars, jobs, poll, startVars, userVars, crashes>>
    BY <1>1, <1>t DEF Submitted
  <2>2. TaskInv(t)'
    BY <1>e, <1>w, <2>1 DEF userVars, Executing
  <2> QED  BY <1>m, <1>s, <2>1, <2>2
<1>2. CASE Start(t)
  <2>1. /\ exec[t] = "queued"
        /\ UNCHANGED <<jobs, poll, startVars, userVars, crashes>>
    BY <1>2 DEF Start
  <2>2. CASE tasks[t] = "cancelled"
    <3>1. /\ exec' = [exec EXCEPT ![t] = "none"] /\ exec'[t] = "none"
          /\ UNCHANGED <<tasks, storeVars>>
      BY <1>2, <1>t, <2>2 DEF Start
    <3>2. TaskInv(t)'
      BY <1>e, <2>1, <2>2, <3>1 DEF userVars, Unfinished
    <3> QED  BY <1>m, <1>s, <2>1, <3>1, <3>2
  <2>3. CASE tasks[t] # "cancelled"
    <3>1. /\ exec' = [exec EXCEPT ![t] = "asking"] /\ exec'[t] = "asking"
          /\ exec' \in [Task -> ExecStages]
          /\ \A u \in Task \ {t} : exec'[u] = exec[u]
          /\ Update(t, "running", <<>>)
      BY <1>2, <1>t, <1>s, <2>3 DEF Start
    <3>2. /\ writes' \in Seq(WriteType) /\ UNCHANGED <<disk, info>>
          /\ tasks' \in [Task -> Status]
          /\ \A u \in Task \ {t} : tasks'[u] = tasks[u] /\ DiskKept(u) /\ InfoKept(u)
          /\ QueuesOnly({SaveTask(t, "running")})
      BY <1>0, <1>s, <3>1, UpdateEffect
    <3>3. \A u \in Task \ {t} : TaskKept(u)
      BY <2>1, <3>1, <3>2 DEF TaskKept
    <3>4. TaskInv(t)'
      BY <1>e, <2>1, <3>1 DEF userVars, Executing
    <3>5. SaveTask(t, "running").store = "task"
      BY <1>s, WriteTypes
    <3> QED  BY <1>t, <1>a, <2>1, <3>1, <3>2, <3>3, <3>4, <3>5, OneTaskStep DEF userVars
  <2> QED  BY <2>2, <2>3
<1>3. CASE Accepted(t)
  <2> DEFINE job == jobs[t] + 1
             ops == IF tasks[t] = "absent" THEN <<>> ELSE <<SaveInfo(t, job)>>
  <2>1. /\ exec[t] \in {"asking", "stopped"} /\ jobs[t] < MaxJobs
        /\ jobs' = [jobs EXCEPT ![t] = job]
        /\ \/ exec[t] = "asking" /\ exec' = [exec EXCEPT ![t] = "saving"]
           \/ exec[t] = "stopped" /\ exec' = [exec EXCEPT ![t] = "late"]
        /\ UNCHANGED <<tasks, poll, startVars, userVars, crashes>>
    BY <1>3 DEF Accepted
  <2>2. /\ job \in Job /\ jobs' \in [Task -> Job] /\ jobs'[t] = job /\ jobs[t] <= jobs'[t]
        /\ \A u \in Task \ {t} : jobs'[u] = jobs[u] /\ exec'[u] = exec[u]
        /\ exec' \in [Task -> ExecStages]
        /\ exec'[t] = IF exec[t] = "asking" THEN "saving" ELSE "late"
    <3>1. job \in Job
      BY <1>t, <2>1, BoundsAssumption DEF Job
    <3>2. jobs' \in [Task -> Job] /\ \A u \in Task : jobs'[u] = IF u = t THEN job ELSE jobs[u]
      <4> HIDE DEF job
      <4> QED  BY <1>t, <2>1, <3>1
    <3>3. /\ exec' \in [Task -> ExecStages]
          /\ \A u \in Task : exec'[u] = IF u # t THEN exec[u]
                                         ELSE IF exec[t] = "asking" THEN "saving" ELSE "late"
      BY <1>t, <1>s, <2>1
    <3> QED  BY <1>t, <3>1, <3>2, <3>3
  <2>3. Queue(ops)
    BY <1>3, <2>2 DEF Accepted
  <2>w. /\ SaveInfo(t, job) \in WriteType /\ SaveInfo(t, job).store = "info"
        /\ SaveInfo(t, job).task = t /\ SaveInfo(t, job).value = job
    BY <2>2, WriteTypes
  <2> HIDE DEF job
  <2>4. /\ writes' \in Seq(WriteType) /\ UNCHANGED <<disk, info>>
        /\ \A u : DiskKept(u) /\ (u # t => InfoKept(u))
        /\ QueuesOnly({SaveInfo(t, job)})
        /\ tasks[t] # "absent" => InfoBecomes(t, job)
    <3>1. CASE tasks[t] = "absent"
      <4>1. UNCHANGED storeVars
        BY <1>t, <2>3, <3>1, ConcatEmptySeq DEF Queue, storeVars
      <4> QED  BY <1>t, <3>1, <4>1, StorageAlone DEF storeVars, QueuesOnly
    <3>2. CASE tasks[t] # "absent"
      BY <1>0, <2>3, <2>w, <3>2, QueueOne DEF Of
    <3> QED  BY <3>1, <3>2
  <2>5. \A u \in Task \ {t} : TaskKept(u)
    BY <2>1, <2>2, <2>4 DEF TaskKept
  <2>6. TaskInv(t)'
    <3>1. exec[t] = "stopped" /\ tasks[t] \in Unfinished => poll[t] # "none"
      BY <1>w DEF Executing
    <3>2. tasks'[t] \in Unfinished => exec'[t] \in Executing \/ poll[t] # "none"
      BY <2>1, <2>2, <3>1 DEF Executing
    <3>3. tasks'[t] \in Unfinished => InfoWillBe(t, jobs[t])'
      BY <2>1, <2>2, <2>4 DEF InfoWillBe, InfoBecomes, Unfinished
    <3>4. exec'[t] # "waiting" /\ exec[t] # "none" /\ UNCHANGED <<startVars, excused>>
          /\ poll'[t] = poll[t]
      BY <2>1, <2>2 DEF userVars
    <3> QED  BY <1>e, <3>2, <3>3, <3>4
  <2>7. \A w \in {SaveInfo(t, job)} : w.store = "info" => w.value <= jobs'[w.task]
    BY <2>2, <2>w, BoundsAssumption DEF Job
  <2> QED  BY <1>t, <1>a, <2>1, <2>2, <2>4, <2>5, <2>6, <2>7, OneTaskStep DEF userVars
<1>4. CASE InfoSaved(t)
  <2>1. /\ exec[t] \in {"saving", "late"} /\ Quiet(writes, "info", t)
        /\ \E stage \in ExecStages :
             /\ exec' = [exec EXCEPT ![t] = stage]
             /\ stage = IF exec[t] = "saving" THEN "waiting" ELSE "none"
        /\ Queue(LifecycleWrites(t))
        /\ UNCHANGED <<tasks, jobs, poll, startVars, userVars, crashes>>
    BY <1>4, <1>s, QueuedMeans DEF InfoSaved
  <2>2. /\ exec' \in [Task -> ExecStages]
        /\ exec'[t] = IF exec[t] = "saving" THEN "waiting" ELSE "none"
        /\ \A u \in Task \ {t} : exec'[u] = exec[u]
    BY <1>t, <2>1
  <2>3. /\ writes' \in Seq(WriteType) /\ UNCHANGED <<disk, info>>
        /\ \A u : u # t => DiskKept(u) /\ InfoKept(u)
        /\ tasks[t] \notin Ended => InfoKept(t)
        /\ QueuesOnly({SaveTask(t, tasks[t]), DeleteInfo(t)})
    BY <1>0, <2>1, LifecycleEffect
  <2>4. \A u \in Task \ {t} : TaskKept(u)
    BY <2>1, <2>2, <2>3 DEF TaskKept
  <2>5. TaskInv(t)'
    <3>1. tasks'[t] \in Unfinished => exec'[t] \in Executing \/ poll[t] # "none"
      BY <1>w, <2>1, <2>2 DEF Executing
    <3>2. tasks'[t] \in Unfinished /\ t \notin excused /\ exec'[t] \in {"saving", "waiting"} =>
            InfoWillBe(t, jobs[t])' /\ Quiet(writes', "info", t)
      <4>1. tasks[t] \in Unfinished /\ t \notin excused /\ exec[t] = "saving" =>
              InfoWillBe(t, jobs[t])
        BY <1>0 DEF TaskInv, Working
      <4>2. tasks'[t] \in Unfinished => InfoKept(t)
        BY <2>1, <2>3 DEF Unfinished, Ended
      <4> QED  BY <2>1, <2>2, <4>1, <4>2 DEF InfoWillBe, InfoKept
    <3> QED  BY <1>e, <2>1, <3>1, <3>2 DEF userVars
  <2>6. \A w \in {SaveTask(t, tasks[t]), DeleteInfo(t)} :
          w.store = "info" => w.value <= jobs'[w.task]
    BY <1>t, <1>s, <2>1, WriteTypes
  <2> QED  BY <1>t, <1>a, <2>1, <2>2, <2>3, <2>4, <2>5, <2>6, OneTaskStep DEF userVars
\* The execution, or what goes on of it, has ended the task.
<1>f. ASSUME NEW status \in {"completed", "failed"}, EndTask(t, status), exec[t] # "none",
             NEW stage \in ExecStages, exec' = [exec EXCEPT ![t] = stage],
             UNCHANGED <<jobs, poll, startVars, userVars, crashes>>
      PROVE  RecoveryInv'
  <2>3. exec' \in [Task -> ExecStages] /\ \A u \in Task \ {t} : exec'[u] = exec[u]
    BY <1>t, <1>f
  <2>4. /\ writes' \in Seq(WriteType) /\ UNCHANGED <<disk, info>>
        /\ tasks' \in [Task -> Status] /\ tasks'[t] \in {"absent", status}
        /\ \A u \in Task \ {t} : tasks'[u] = tasks[u] /\ DiskKept(u) /\ InfoKept(u)
        /\ QueuesOnly({SaveTask(t, status), DeleteInfo(t)})
    BY <1>0, <1>s, <1>f, EndTaskEffect
  <2>5. \A u \in Task \ {t} : TaskKept(u)
    BY <1>f, <2>3, <2>4 DEF TaskKept
  <2>6. TaskInv(t)'
    BY <1>e, <1>f, <2>4 DEF userVars, Unfinished
  <2>7. \A w \in {SaveTask(t, status), DeleteInfo(t)} :
          w.store = "info" => w.value <= jobs'[w.task]
    BY <1>s, <1>f, WriteTypes
  <2> QED  BY <1>t, <1>a, <1>f, <2>3, <2>4, <2>5, <2>6, <2>7, OneTaskStep DEF userVars
<1>5. CASE Finish(t)
  <2>1. PICK status \in {"completed", "failed"} : EndTask(t, status)
    BY <1>5 DEF Finish
  <2> QED  BY <1>5, <1>f, <1>s, <2>1 DEF Finish
<1>6. CASE TimeOut(t)
  <2>1. /\ exec[t] # "none" /\ EndTask(t, "failed")
        /\ exec' = [exec EXCEPT ![t] = Aborted(exec[t])]
        /\ UNCHANGED <<jobs, poll, startVars, userVars, crashes>>
    BY <1>6 DEF TimeOut
  <2>2. Aborted(exec[t]) \in ExecStages
    BY <1>6, <1>s DEF TimeOut, Aborted
  <2> QED  BY <1>f, <2>1, <2>2
<1>7. CASE Abandon(t)
  <2>1. /\ exec[t] = "stopped" /\ exec' = [exec EXCEPT ![t] = "none"] /\ exec'[t] = "none"
        /\ UNCHANGED <<tasks, storeVars, jobs, poll, startVars, userVars, crashes>>
    BY <1>7, <1>t DEF Abandon
  <2>2. TaskInv(t)'
    BY <1>e, <1>w, <2>1 DEF userVars, Executing
  <2> QED  BY <1>m, <1>s, <2>1, <2>2
<1> QED  BY <1>1, <1>2, <1>3, <1>4, <1>5, <1>6, <1>7 DEF Execute

\* So does a poller.
LEMMA PollerStep ==
  ASSUME RecoveryInv, NEW t \in Task, Poll(t)
  PROVE  RecoveryInv'
<1>0. Types /\ StageInv /\ JobsKnown /\ TaskInv(t)
  BY DEF RecoveryInv
<1>t. /\ tasks \in [Task -> Status] /\ exec \in [Task -> ExecStages]
      /\ poll \in [Task -> PollStages] /\ jobs \in [Task -> Job]
      /\ writes \in Seq(WriteType)
      /\ deleting \subseteq excused /\ excused \subseteq Task
      /\ jobs[t] \in Nat /\ jobs[t] <= jobs[t]
  BY <1>0, BoundsAssumption DEF Types, StageInv, Job
<1>s. /\ {"absent", "pending", "running", "completed", "failed", "cancelled"} \subseteq Status
      /\ {"none", "polling", "cleaning", "completing"} \subseteq PollStages
      /\ NoJob \in Job /\ NoJob <= jobs[t]
  BY <1>t, BoundsAssumption DEF Status, Unfinished, Ended, PollStages, NoJob, Job
\* A poller runs only when the start-up has dealt with its recovery info.
<1>a. /\ poll[t] # "none" /\ phase \notin {"starting", "infos"} /\ infos[t] # NoJob
      /\ phase = "recovering" => t \notin todo /\ ~(doing # "next" /\ on = t)
  <2>1. poll[t] # "none"
    BY DEF Poll, PollEnds, InfoDeleted, CompleteRecovered
  <2> QED  BY <1>0, <2>1 DEF TaskInv, Untouched, Recovering
<1>w. /\ DeleteInfo(t) \in WriteType /\ DeleteInfo(t).store = "info"
      /\ DeleteInfo(t).task = t /\ DeleteInfo(t).value = NoJob
      /\ \A status \in Status :
           /\ SaveTask(t, status) \in WriteType /\ SaveTask(t, status).store = "task"
           /\ SaveTask(t, status).task = t /\ SaveTask(t, status).value = status
  BY WriteTypes
<1>1. CASE PollEnds(t)
  <2>1. /\ poll[t] = "polling" /\ poll' = [poll EXCEPT ![t] = "cleaning"]
        /\ Queue(LifecycleWrites(t) \o <<DeleteInfo(t)>>)
        /\ UNCHANGED <<tasks, jobs, exec, startVars, userVars, crashes>>
    BY <1>1 DEF PollEnds
  <2>2. /\ poll' \in [Task -> PollStages] /\ poll'[t] = "cleaning"
        /\ \A u \in Task \ {t} : poll'[u] = poll[u]
    BY <1>t, <1>s, <2>1
  <2>3. /\ writes' \in Seq(WriteType) /\ UNCHANGED <<disk, info>>
        /\ \A u \in Task \ {t} : DiskKept(u) /\ InfoKept(u)
        /\ InfoBecomes(t, NoJob) /\ (DiskKept(t) \/ DiskBecomes(t, tasks[t]))
        /\ QueuesOnly({SaveTask(t, tasks[t]), DeleteInfo(t)})
    <3> DEFINE first == LifecycleWrites(t)
               last == <<DeleteInfo(t)>>
               ops == first \o last
    <3>1. /\ last \in Seq(WriteType) /\ DOMAIN last = {1} /\ last[1] = DeleteInfo(t)
      BY <1>w
    <3>2. /\ first \in Seq(WriteType)
          /\ \A u, store : u # t => Quiet(first, store, u)
          /\ Quiet(first, "task", t) \/ EndsWith(first, "task", t, tasks[t])
          /\ \A i \in DOMAIN first : first[i] \in {SaveTask(t, tasks[t]), DeleteInfo(t)}
      BY <1>0, LifecycleMeans
    <3> HIDE DEF first, last
    <3>3. /\ \A u : Quiet(last, "task", u)
          /\ \A u : u # t => Quiet(last, "info", u)
          /\ EndsWith(last, "info", t, NoJob)
      BY <1>w, <3>1 DEF Quiet, EndsWith, Of
    <3>4. /\ ops \in Seq(WriteType)
          /\ \A u : u # t => Quiet(ops, "info", u) /\ Quiet(ops, "task", u)
          /\ EndsWith(ops, "info", t, NoJob)
          /\ WillSay(ops, "task", t, tasks[t], tasks[t])
      <4>1. WillSay(first, "task", t, tasks[t], tasks[t])
        BY <3>2 DEF WillSay
      <4> QED  BY <3>1, <3>2, <3>3, <4>1, MoreWrites
    <3>5. \A i \in DOMAIN ops : ops[i] \in {SaveTask(t, tasks[t]), DeleteInfo(t)}
      <4>1. \A i \in DOMAIN ops : \/ \E k \in DOMAIN first : ops[i] = first[k]
                                  \/ \E k \in DOMAIN last : ops[i] = last[k]
        BY <3>1, <3>2, MoreWrites
      <4> QED  BY <3>1, <3>2, <4>1
    <3>6. Queue(ops)
      BY <2>1 DEF first, last
    <3> HIDE DEF ops
    <3>7. QueuesOnly({SaveTask(t, tasks[t]), DeleteInfo(t)})
      <4>1. QueuesOnly({ops[i] : i \in DOMAIN ops})
        BY <1>0, <3>4, <3>6, QueueEffect
      <4> QED  BY <3>5, <4>1 DEF QueuesOnly
    <3> QED  BY <1>0, <3>4, <3>6, <3>7, QueueEffect DEF WillSay
  <2>4. \A u \in Task \ {t} : TaskKept(u)
    BY <2>1, <2>2, <2>3 DEF TaskKept
  <2>5. TaskInv(t)'
    <3>1. Untouched(t)'
      BY <1>0, <1>a, <2>1, <2>3 DEF startVars, TaskInv, Untouched, Mirrored, DiskKept, DiskBecomes
    <3>2. Recovering(t)'
      BY <1>a, <2>1, <2>2, <2>3 DEF startVars, Recovering
    <3>3. Resuming(t)'
      BY <1>0, <2>1, <2>2 DEF startVars, TaskInv, Resuming, InHand
    <3>4. Working(t)'
      <4>1. poll[t] = "polling" /\ exec[t] # "none" => t \in excused
        BY <1>0 DEF TaskInv, Working
      <4> QED  BY <2>1, <2>2, <4>1 DEF userVars, Working
    <3> QED  BY <3>1, <3>2, <3>3, <3>4 DEF TaskInv
  <2>6. \A w \in {SaveTask(t, tasks[t]), DeleteInfo(t)} :
          w.store = "info" => w.value <= jobs'[w.task]
    BY <1>t, <1>s, <1>w, <2>1
  <2> QED  BY <1>t, <1>a, <2>1, <2>2, <2>3, <2>4, <2>5, <2>6, OneTaskStep DEF userVars
<1>2. CASE InfoDeleted(t)
  <2>1. /\ poll[t] = "cleaning" /\ poll' = [poll EXCEPT ![t] = "completing"]
        /\ UNCHANGED <<tasks, storeVars, jobs, exec, startVars, userVars, crashes>>
    BY <1>2 DEF InfoDeleted
  <2>2. /\ poll' \in [Task -> PollStages] /\ poll'[t] = "completing"
        /\ \A u \in Task \ {t} : poll'[u] = poll[u]
    BY <1>t, <1>s, <2>1
  <2>3. (\A u : InfoKept(u) /\ DiskKept(u)) /\ QueuesOnly({})
    BY <2>1, StorageAlone
  <2>4. \A u \in Task \ {t} : TaskKept(u)
    BY <2>1, <2>2, <2>3 DEF TaskKept
  <2>5. TaskInv(t)'
    BY <1>0, <1>a, <2>1, <2>2 DEF storeVars, startVars, userVars, TaskInv, Untouched, Mirrored,
       Recovering, Resuming, InHand, Working, InfoWillBe
  <2> QED  BY <1>t, <1>a, <2>1, <2>2, <2>3, <2>4, <2>5, OneTaskStep DEF storeVars, userVars
<1>3. CASE CompleteRecovered(t)
  <2>1. /\ poll[t] = "completing" /\ poll' = [poll EXCEPT ![t] = "none"]
        /\ UNCHANGED <<jobs, exec, startVars, userVars, crashes>>
    BY <1>3 DEF CompleteRecovered
  <2>2. /\ poll' \in [Task -> PollStages] /\ poll'[t] = "none"
        /\ \A u \in Task \ {t} : poll'[u] = poll[u]
    BY <1>t, <1>s, <2>1
  <2>3. PICK status \in {"completed", "failed"} :
          IF tasks[t] = "absent" THEN Queue(<<DeleteInfo(t)>>) /\ UNCHANGED tasks
          ELSE /\ tasks' = [tasks EXCEPT ![t] = status]
               /\ Queue(<<DeleteInfo(t), SaveTask(t, status)>>)
    BY <1>3 DEF CompleteRecovered
  <2>4. /\ tasks' \in [Task -> Status] /\ tasks'[t] \in {"absent", "completed", "failed"}
        /\ \A u \in Task \ {t} : tasks'[u] = tasks[u]
        /\ tasks[t] # "absent" => tasks'[t] = status
        /\ tasks[t] = "absent" => tasks'[t] = tasks[t]
    BY <1>t, <1>s, <2>3
  <2>5. /\ writes' \in Seq(WriteType) /\ UNCHANGED <<disk, info>>
        /\ \A u \in Task \ {t} : DiskKept(u) /\ InfoKept(u)
        /\ InfoBecomes(t, NoJob)
        /\ IF tasks[t] = "absent" THEN DiskKept(t) ELSE DiskBecomes(t, status)
        /\ QueuesOnly({SaveTask(t, status), DeleteInfo(t)})
    <3>1. CASE tasks[t] = "absent"
      <4>1. Queue(<<DeleteInfo(t)>>)
        BY <2>3, <3>1
      <4>2. /\ writes' \in Seq(WriteType) /\ UNCHANGED <<disk, info>>
            /\ \A u : DiskKept(u) /\ (u # t => InfoKept(u))
            /\ InfoBecomes(t, NoJob) /\ QueuesOnly({DeleteInfo(t)})
        BY <1>0, <1>w, <4>1, QueueOne DEF Of
      <4> QED  BY <3>1, <4>2 DEF QueuesOnly
    <3>2. CASE tasks[t] # "absent"
      <4>1. status \in Status /\ Queue(<<DeleteInfo(t), SaveTask(t, status)>>)
        BY <1>s, <2>3, <3>2
      <4>2. QueuesOnly({DeleteInfo(t), SaveTask(t, status)})
        BY <1>0, <1>w, <4>1, QueueTwo
      <4>3. QueuesOnly({SaveTask(t, status), DeleteInfo(t)})
        BY <4>2 DEF QueuesOnly
      <4> QED  BY <1>0, <1>w, <3>2, <4>1, <4>3, QueueTwo DEF Of
    <3> QED  BY <3>1, <3>2
  <2>6. \A u \in Task \ {t} : TaskKept(u)
    BY <2>1, <2>2, <2>4, <2>5 DEF TaskKept
  <2>7. TaskInv(t)'
    <3>1. Untouched(t)'
      BY <1>0, <1>a, <2>1, <2>4, <2>5 DEF startVars, TaskInv, Untouched, Mirrored, DiskKept, DiskBecomes
    <3>2. Recovering(t)'
      BY <1>a, <2>1, <2>2, <2>5 DEF startVars, Recovering, InfoWillBe, InfoBecomes
    <3>3. Resuming(t)'
      BY <1>0, <2>1, <2>2, <2>4, <2>5 DEF startVars, TaskInv, Resuming, InHand, Unfinished,
         InfoWillBe, InfoBecomes
    <3>4. Working(t)'
      BY <2>2, <2>4 DEF Working, Unfinished
    <3> QED  BY <3>1, <3>2, <3>3, <3>4 DEF TaskInv
  <2>8. \A w \in {SaveTask(t, status), DeleteInfo(t)} :
          w.store = "info" => w.value <= jobs'[w.task]
    BY <1>s, <1>w, <2>1
  <2> QED  BY <1>t, <1>a, <2>1, <2>2, <2>4, <2>5, <2>6, <2>7, <2>8, OneTaskStep DEF userVars
<1> QED  BY <1>1, <1>2, <1>3 DEF Poll

-----------------------------------------------------------------------------
(***************************************************************************)
(* The storage, the crash and the start-up.                                *)
(***************************************************************************)

\* A write that lands changes nothing that the invariant speaks of.
LEMMA LandStep ==
  ASSUME RecoveryInv, Land
  PROVE  RecoveryInv'
<1>0. Types /\ StageInv /\ JobsKnown /\ \A u \in Task : TaskInv(u)
  BY DEF RecoveryInv
<1>1. /\ UNCHANGED <<tasks, jobs, exec, poll, startVars, userVars, crashes>>
      /\ writes # <<>>
  BY DEF Land
<1>2. /\ writes' \in Seq(WriteType)
      /\ info' \in [Task -> Job] /\ disk' \in [Task -> Status]
      /\ \A u \in Task : InfoKept(u) /\ DiskKept(u)
      /\ QueuesOnly({})
      /\ \A u \in Task : \/ info'[u] = info[u]
                          \/ \E k \in DOMAIN writes :
                               /\ writes[k].store = "info" /\ writes[k].task = u
                               /\ info'[u] = writes[k].value
  BY <1>0, LandEffect
<1>3. Types'
  BY <1>0, <1>1, <1>2 DEF Types, startVars, userVars
<1>4. StageInv'
  BY <1>0, <1>1 DEF StageInv, startVars, userVars
<1>5. JobsKnown'
  <2>1. \A u \in Task : jobs[u] <= jobs'[u]
    BY <1>0, <1>1, BoundsAssumption DEF Types, Job
  <2> QED  BY <1>0, <1>1, <1>2, <1>3, <2>1, JobsStayKnown DEF Types, startVars
<1>6. \A u \in Task : TaskInv(u)'
  <2>1. \A u \in Task : TaskKept(u)
    BY <1>1, <1>2 DEF TaskKept
  <2> QED  BY <1>0, <1>1, <2>1, KeptTask DEF startVars, userVars
<1> QED  BY <1>3, <1>4, <1>5, <1>6 DEF RecoveryInv

\* The next process starts with what the storage says, and nothing else.
LEMMA CrashStep ==
  ASSUME RecoveryInv, Crash
  PROVE  RecoveryInv'
<1>0. Types /\ JobsKnown
  BY DEF RecoveryInv
<1>1. /\ crashes < MaxCrashes /\ crashes' = crashes + 1
      /\ tasks' = Unknown /\ writes' = <<>> /\ exec' = Nowhere /\ poll' = Nowhere
      /\ phase' = "starting" /\ doing' = "next"
      /\ infos' = [t \in Task |-> NoJob] /\ todo' = {} /\ snapshot' = Unknown
      /\ deleting' = {} /\ excused' = {}
      /\ UNCHANGED <<disk, info, jobs, on>>
  BY DEF Crash
<1>2. Types'
  <2>1. crashes' \in 0 .. MaxCrashes
    BY <1>0, <1>1, BoundsAssumption DEF Types
  <2>2. /\ Unknown \in [Task -> Status]
        /\ Nowhere \in [Task -> ExecStages] /\ Nowhere \in [Task -> PollStages]
        /\ [t \in Task |-> NoJob] \in [Task -> Job]
        /\ <<>> \in Seq(WriteType) /\ "starting" \in Phases
    BY BoundsAssumption DEF Unknown, Nowhere, Status, ExecStages, PollStages, Phases, Job, NoJob
  <2> QED  BY <1>0, <1>1, <2>1, <2>2 DEF Types
<1>3. StageInv'
  BY <1>1 DEF StageInv
<1>4. JobsKnown'
  <2>1. \A t \in Task : info[t] <= jobs[t] /\ jobs[t] >= 0
    <3> SUFFICES ASSUME NEW t \in Task  PROVE info[t] <= jobs[t] /\ jobs[t] >= 0
      OBVIOUS
    <3>1. jobs[t] \in 0 .. MaxJobs
      BY <1>0 DEF Types, Job
    <3> QED  BY <1>0, <3>1, BoundsAssumption DEF JobsKnown
  <2>2. \A t \in Task : infos'[t] = 0
    BY <1>1 DEF NoJob
  <2>3. DOMAIN writes' = {}
    BY <1>1
  <2> QED  BY <1>1, <2>1, <2>2, <2>3 DEF JobsKnown
<1>5. \A t \in Task : TaskInv(t)'
  <2>1. \A t \in Task : exec'[t] = "none" /\ poll'[t] = "none" /\ tasks'[t] = "absent"
    BY <1>1 DEF Nowhere, Unknown
  <2> QED  BY <1>1, <2>1 DEF TaskInv, Untouched, Recovering, Resuming, InHand, Working, Unfinished
<1> QED  BY <1>2, <1>3, <1>4, <1>5 DEF RecoveryInv

\* The start-up awaits something only while it goes through a list of tasks.
LEMMA AwaitsNothing ==
  ASSUME RecoveryInv, phase \in {"starting", "infos", "up"}
  PROVE  doing = "next" /\ todo = {}
BY DEF RecoveryInv, Types, StageInv

\* Quiet records say what they will say.
LEMMA QuietSays ==
  ASSUME NEW s, NEW store, NEW t, Quiet(s, store, t)
  PROVE  \A old, v : WillSay(s, store, t, old, v) <=> old = v
BY DEF WillSay, EndsWith, Quiet

\* initialize: the map says what the storage says.
LEMMA InitializeStep ==
  ASSUME RecoveryInv, Initialize
  PROVE  RecoveryInv'
<1>0. Types /\ StageInv /\ JobsKnown /\ \A t \in Task : TaskInv(t)
  BY DEF RecoveryInv
<1>1. /\ phase = "starting" /\ phase' = "infos" /\ tasks' = disk /\ writes = <<>>
      /\ UNCHANGED <<disk, info, writes, jobs, exec, poll, doing, on, infos, todo,
                     snapshot, deleting, excused, crashes>>
      /\ doing = "next" /\ todo = {}
  BY <1>0, AwaitsNothing DEF Initialize, StageInv, storeVars, userVars
<1>2. Types'
  BY <1>0, <1>1 DEF Types, Phases
<1>3. StageInv'
  BY <1>0, <1>1 DEF StageInv
<1>4. JobsKnown'
  BY <1>0, <1>1 DEF JobsKnown
<1>5. ASSUME NEW t \in Task  PROVE TaskInv(t)'
  <2>1. exec[t] = "none" /\ poll[t] = "none"
    BY <1>0, <1>1 DEF TaskInv, Untouched
  <2>2. Mirrored(t)'
    BY <1>1 DEF Mirrored, WillSay, Quiet
  <2> QED  BY <1>1, <2>1, <2>2 DEF TaskInv, Untouched, Recovering, Resuming, InHand, Working
<1> QED  BY <1>2, <1>3, <1>4, <1>5 DEF RecoveryInv

\* resumeFromRecovery reads the recovery infos, and no write of one is queued.
LEMMA LoadInfosStep ==
  ASSUME RecoveryInv, LoadInfos
  PROVE  RecoveryInv'
<1>0. Types /\ StageInv /\ JobsKnown /\ \A t \in Task : TaskInv(t)
  BY DEF RecoveryInv
<1>1. /\ phase = "infos" /\ phase' = "recovering"
      /\ infos' = info /\ todo' = {t \in Task : info[t] # NoJob}
      /\ UNCHANGED <<tasks, disk, info, writes, jobs, exec, poll, doing, on, snapshot,
                     deleting, excused, crashes>>
      /\ doing = "next"
      /\ \A t \in Task : Quiet(writes, "info", t)
  BY AwaitsNothing, QueuedMeans DEF LoadInfos, storeVars, userVars
<1>2. Types'
  BY <1>0, <1>1 DEF Types, Phases
<1>3. StageInv'
  BY <1>0, <1>1 DEF StageInv
<1>4. JobsKnown'
  BY <1>0, <1>1 DEF JobsKnown
<1>5. ASSUME NEW t \in Task  PROVE TaskInv(t)'
  <2>1. exec[t] = "none" /\ poll[t] = "none" /\ Mirrored(t)
    BY <1>0, <1>1 DEF TaskInv, Untouched
  <2>2. InfoStands(t)' /\ InfoWillBe(t, info[t])'
    BY <1>1 DEF InfoStands, InfoWillBe, WillSay
  <2>3. Untouched(t)'
    BY <1>1, <2>1 DEF Untouched, Mirrored
  <2>4. Recovering(t)'
    BY <1>1, <2>1, <2>2 DEF Recovering
  <2> QED  BY <1>1, <2>1, <2>3, <2>4 DEF TaskInv, Resuming, InHand, Working
<1> QED  BY <1>2, <1>3, <1>4, <1>5 DEF RecoveryInv

\* resumePendingTasks reads the unfinished tasks: those of the map.
LEMMA LoadPendingStep ==
  ASSUME RecoveryInv, LoadPending
  PROVE  RecoveryInv'
<1>0. Types /\ StageInv /\ JobsKnown /\ \A t \in Task : TaskInv(t)
  BY DEF RecoveryInv
<1>1. /\ phase = "recovering" /\ phase' = "resuming" /\ doing = "next" /\ todo = {}
      /\ snapshot' = disk /\ todo' = {t \in Task : disk[t] \in Unfinished}
      /\ UNCHANGED <<tasks, disk, info, writes, jobs, exec, poll, doing, on, infos,
                     deleting, excused, crashes>>
      /\ \A t \in Task : Quiet(writes, "task", t)
  BY QueuedMeans DEF LoadPending, storeVars, userVars
<1>2. Types'
  BY <1>0, <1>1 DEF Types, Phases
<1>3. StageInv'
  BY <1>0, <1>1 DEF StageInv
<1>4. JobsKnown'
  BY <1>0, <1>1 DEF JobsKnown
<1>5. ASSUME NEW t \in Task  PROVE TaskInv(t)'
  <2>1. disk[t] = tasks[t]
    BY <1>0, <1>1, QuietSays DEF TaskInv, Untouched, Mirrored
  <2>2. exec[t] = "none" /\ (poll[t] # "none" \/ InfoWillBe(t, NoJob))
    BY <1>0, <1>1 DEF TaskInv, Untouched, Recovering
  <2>3. InHand(t)' <=> tasks[t] \in Unfinished
    BY <1>1, <2>1 DEF InHand
  <2>4. Untouched(t)' /\ Recovering(t)'
    BY <1>0, <1>1 DEF TaskInv, Untouched, Recovering
  <2>5. Resuming(t)'
    BY <1>1, <2>2, <2>3 DEF Resuming, InfoWillBe
  <2>6. Working(t)'
    BY <1>0, <1>1 DEF TaskInv, Working, InfoWillBe, InfoStands
  <2> QED  BY <2>4, <2>5, <2>6 DEF TaskInv
<1> QED  BY <1>2, <1>3, <1>4, <1>5 DEF RecoveryInv

\* The start-up is over when it has dealt with every task of the list.
LEMMA ResumedStep ==
  ASSUME RecoveryInv, Resumed
  PROVE  RecoveryInv'
<1>0. Types /\ StageInv /\ JobsKnown /\ \A t \in Task : TaskInv(t)
  BY DEF RecoveryInv
<1>1. /\ phase = "resuming" /\ phase' = "up" /\ doing = "next" /\ todo = {}
      /\ UNCHANGED <<tasks, disk, info, writes, jobs, exec, poll, doing, on, infos, todo,
                     snapshot, deleting, excused, crashes>>
  BY DEF Resumed, storeVars, userVars
<1>2. Types'
  BY <1>0, <1>1 DEF Types, Phases
<1>3. StageInv'
  BY <1>0, <1>1 DEF StageInv
<1>4. JobsKnown'
  BY <1>0, <1>1 DEF JobsKnown
<1>5. ASSUME NEW t \in Task  PROVE TaskInv(t)'
  <2>1. ~InHand(t) /\ ~InHand(t)'
    BY <1>1 DEF InHand
  <2>2. Untouched(t)' /\ Recovering(t)'
    BY <1>0, <1>1 DEF TaskInv, Untouched, Recovering
  <2>3. Resuming(t)'
    BY <1>0, <1>1, <2>1 DEF TaskInv, Resuming
  <2>4. Working(t)'
    BY <1>0, <1>1 DEF TaskInv, Working, InfoWillBe, InfoStands
  <2> QED  BY <2>2, <2>3, <2>4 DEF TaskInv
<1> QED  BY <1>2, <1>3, <1>4, <1>5 DEF RecoveryInv

\* A task the start-up neither was at nor turns to keeps its invariant.
LEMMA OtherTask ==
  ASSUME NEW u \in Task, TaskInv(u), TaskKept(u), excused \subseteq excused',
         UNCHANGED <<phase, infos>>, u \in todo' <=> u \in todo,
         doing = "next" \/ on # u, doing' = "next" \/ on' # u
  PROVE  TaskInv(u)'
<1>1. Untouched(u)'
  BY DEF TaskInv, TaskKept, Untouched, Mirrored, DiskKept
<1>2. Recovering(u)'
  BY DEF TaskInv, TaskKept, Recovering, InfoWillBe, InfoStands, InfoKept
<1>3. Resuming(u)'
  BY DEF TaskInv, TaskKept, Resuming, InHand, InfoWillBe, InfoKept
<1>4. Working(u)'
  BY DEF TaskInv, TaskKept, Working, InfoWillBe, InfoStands, InfoKept
<1> QED  BY <1>1, <1>2, <1>3, <1>4 DEF TaskInv

\* So a step of the start-up with one task of its list is a matter of that task.
LEMMA OneTurnStep ==
  ASSUME RecoveryInv, NEW t \in Task,
         UNCHANGED <<jobs, phase, infos, snapshot, disk, info, deleting, crashes>>,
         tasks' \in [Task -> Status], exec' \in [Task -> ExecStages],
         poll' \in [Task -> PollStages], writes' \in Seq(WriteType),
         excused \subseteq excused', excused' \subseteq Task,
         doing = "next" \/ on = t, on' = t, todo' = todo \ {t},
         \/ doing' = "next" /\ phase \in {"recovering", "resuming"}
         \/ doing' \in {"upsert", "delete"} /\ phase = "recovering"
         \/ doing' \in {"save", "load"} /\ phase = "resuming",
         NEW W, QueuesOnly(W),
         \A w \in W : w.store = "info" => w.value <= jobs[w.task],
         \A u \in Task \ {t} : TaskKept(u),
         TaskInv(t)'
  PROVE  RecoveryInv'
<1>0. Types /\ StageInv /\ JobsKnown /\ \A u \in Task : TaskInv(u)
  BY DEF RecoveryInv
<1>1. Types'
  BY <1>0 DEF Types
<1>2. StageInv'
  BY <1>0 DEF StageInv
<1>3. JobsKnown'
  <2>1. \A u \in Task : jobs[u] <= jobs'[u]
    <3> SUFFICES ASSUME NEW u \in Task  PROVE jobs[u] <= jobs'[u]
      OBVIOUS
    <3>1. jobs[u] \in Nat /\ jobs'[u] = jobs[u]
      BY <1>0, BoundsAssumption DEF Types, Job
    <3> QED  BY <3>1
  <2> QED  BY <1>0, <1>1, <2>1, JobsStayKnown DEF Types
<1>4. \A u \in Task : TaskInv(u)'
  BY <1>0, OtherTask
<1> QED  BY <1>1, <1>2, <1>3, <1>4 DEF RecoveryInv

\* resumeFromRecovery keeps the invariant, whatever the provider says of a job.
LEMMA RecoverStep ==
  ASSUME RecoveryInv, NEW t \in Task,
         \/ StillRunning(t) \/ AlreadyOver(t) \/ CannotAsk(t)
         \/ on = t /\ (Upserted \/ Deleted)
  PROVE  RecoveryInv'
<1>0. Types /\ StageInv /\ JobsKnown /\ TaskInv(t)
  BY DEF RecoveryInv
<1>t. /\ tasks \in [Task -> Status] /\ exec \in [Task -> ExecStages]
      /\ poll \in [Task -> PollStages] /\ jobs \in [Task -> Job]
      /\ writes \in Seq(WriteType)
      /\ todo \subseteq Task /\ excused \subseteq Task
      /\ {"absent", "completed", "failed"} \subseteq Status
      /\ "polling" \in PollStages
      /\ NoJob <= jobs[t]
  <2>1. jobs[t] \in 0 .. MaxJobs
    BY <1>0 DEF Types, Job
  <2> QED  BY <1>0, <2>1, BoundsAssumption DEF Types, Status, Ended, PollStages, NoJob
<1>w. /\ DeleteInfo(t) \in WriteType /\ DeleteInfo(t).store = "info"
      /\ DeleteInfo(t).task = t /\ DeleteInfo(t).value = NoJob
      /\ \A w \in {DeleteInfo(t)} : w.store = "info" => w.value <= jobs[w.task]
      /\ \A status \in Status : SaveTask(t, status).store = "task"
  BY <1>t, WriteTypes
\* In this part of the start-up nothing is executed and nothing resumed.
<1>p. /\ phase = "recovering" /\ exec[t] = "none" /\ Mirrored(t)
      /\ t \in todo \/ (doing # "next" /\ on = t) => poll[t] = "none"
      /\ t \in todo => infos[t] # NoJob /\ (t \notin excused => InfoStands(t))
  <2>1. phase = "recovering"
    BY <1>0 DEF StillRunning, AlreadyOver, CannotAsk, Upserted, Deleted, StageInv
  <2> QED  BY <1>0, <2>1 DEF TaskInv, Untouched, Recovering
<1>i. ASSUME UNCHANGED <<phase, exec, infos>>, t \notin todo', Mirrored(t)',
             poll'[t] # "none" => infos[t] # NoJob,
             doing' # "next" /\ on' = t => poll'[t] = "none",
             (doing' = "upsert" /\ on' = t) \/ poll'[t] # "none" \/ InfoWillBe(t, NoJob)',
             t \notin excused' /\ tasks'[t] \in Unfinished /\ poll'[t] = "polling" =>
               InfoStands(t)'
      PROVE  TaskInv(t)'
  BY <1>p, <1>i DEF TaskInv, Untouched, Recovering, Resuming, InHand, Working
<1>1. CASE StillRunning(t)
  <2>1. /\ doing = "next" /\ doing' = "next" /\ t \in todo /\ todo' = todo \ {t} /\ on' = t
        /\ poll' = [poll EXCEPT ![t] = "polling"]
        /\ UNCHANGED <<phase, infos, snapshot, tasks, jobs, exec, deleting, excused, crashes>>
        /\ Queue(LifecycleWrites(t))
    BY <1>1 DEF StillRunning, Turn, userVars
  <2>2. /\ poll' \in [Task -> PollStages] /\ poll'[t] = "polling"
        /\ \A u \in Task \ {t} : poll'[u] = poll[u]
    BY <1>t, <2>1
  <2>3. /\ writes' \in Seq(WriteType) /\ UNCHANGED <<disk, info>>
        /\ \A u : u # t => DiskKept(u) /\ InfoKept(u)
        /\ DiskKept(t) \/ DiskBecomes(t, tasks[t])
        /\ tasks[t] \notin Ended => InfoKept(t)
        /\ QueuesOnly({SaveTask(t, tasks[t]), DeleteInfo(t)})
    BY <1>0, <2>1, LifecycleEffect
  <2>4. \A u \in Task \ {t} : TaskKept(u)
    BY <2>1, <2>2, <2>3 DEF TaskKept
  <2>5. Mirrored(t)'
    BY <1>p, <2>1, <2>3 DEF Mirrored, DiskKept, DiskBecomes
  <2>6. t \notin excused' /\ tasks'[t] \in Unfinished => InfoStands(t)'
    BY <1>p, <2>1, <2>3 DEF InfoStands, InfoKept, Unfinished, Ended
  <2>7. TaskInv(t)'
    BY <1>p, <1>i, <2>1, <2>2, <2>5, <2>6
  <2>8. \A w \in {SaveTask(t, tasks[t]), DeleteInfo(t)} : w.store = "info" => w.value <= jobs[w.task]
    BY <1>t, <1>w
  <2> QED  BY <1>t, <1>p, <2>1, <2>2, <2>3, <2>4, <2>7, <2>8, OneTurnStep
<1>2. CASE AlreadyOver(t)
  <2>1. /\ doing = "next" /\ doing' = "upsert" /\ t \in todo /\ todo' = todo \ {t} /\ on' = t
        /\ UNCHANGED <<phase, infos, snapshot, jobs, exec, poll, deleting, excused, crashes>>
    BY <1>2 DEF AlreadyOver, Turn, userVars
  <2>2. PICK status \in {"completed", "failed"} : Update(t, status, <<>>)
    BY <1>2 DEF AlreadyOver
  <2>3. /\ writes' \in Seq(WriteType) /\ UNCHANGED <<disk, info>>
        /\ tasks' \in [Task -> Status]
        /\ \A u \in Task : InfoKept(u)
        /\ \A u \in Task \ {t} : tasks'[u] = tasks[u] /\ DiskKept(u)
        /\ IF tasks[t] = "absent" THEN UNCHANGED <<tasks, storeVars>>
           ELSE tasks'[t] = status /\ DiskBecomes(t, status)
        /\ QueuesOnly({SaveTask(t, status)})
    BY <1>0, <1>t, <2>2, UpdateEffect
  <2>4. \A u \in Task \ {t} : TaskKept(u)
    BY <2>1, <2>3 DEF TaskKept
  <2>5. Mirrored(t)'
    BY <1>p, <2>3 DEF Mirrored, DiskBecomes, storeVars
  <2>6. TaskInv(t)'
    BY <1>p, <1>i, <2>1, <2>5
  <2>7. \A w \in {SaveTask(t, status)} : w.store = "info" => w.value <= jobs[w.task]
    BY <1>t, <1>w
  <2> QED  BY <1>t, <1>p, <2>1, <2>3, <2>4, <2>6, <2>7, OneTurnStep
\* The start-up queues the removal of the recovery info, and awaits it.
<1>d. ASSUME t \in todo \/ doing = "upsert", doing = "next" \/ on = t,
             doing' = "delete", on' = t, todo' = todo \ {t},
             Queue(<<DeleteInfo(t)>>),
             UNCHANGED <<phase, infos, snapshot, tasks, jobs, exec, poll, deleting, excused,
                         crashes>>
      PROVE  RecoveryInv'
  <2>1. /\ writes' \in Seq(WriteType) /\ UNCHANGED <<disk, info>>
        /\ \A u : DiskKept(u) /\ (u # t => InfoKept(u))
        /\ InfoBecomes(t, NoJob) /\ QueuesOnly({DeleteInfo(t)})
    BY <1>0, <1>w, <1>d, QueueOne DEF Of
  <2>2. \A u \in Task \ {t} : TaskKept(u)
    BY <1>d, <2>1 DEF TaskKept
  <2>3. Mirrored(t)' /\ InfoWillBe(t, NoJob)'
    BY <1>p, <1>d, <2>1 DEF Mirrored, DiskKept, InfoWillBe, InfoBecomes
  <2>4. TaskInv(t)'
    BY <1>p, <1>i, <1>d, <2>3
  <2> QED  BY <1>t, <1>w, <1>p, <1>d, <2>1, <2>2, <2>4, OneTurnStep
<1>3. CASE CannotAsk(t)
  BY <1>3, <1>d DEF CannotAsk, Turn, userVars
<1>4. CASE on = t /\ Upserted
  <2>1. t \notin todo
    BY <1>0, <1>4 DEF Upserted, StageInv
  <2> QED  BY <1>4, <1>d, <2>1 DEF Upserted, userVars
<1>5. CASE on = t /\ Deleted
  <2>1. /\ doing = "delete" /\ doing' = "next" /\ t \notin todo
        /\ UNCHANGED <<phase, on, infos, todo, snapshot, tasks, storeVars, disk, info, writes,
                       jobs, exec, poll, deleting, excused, crashes>>
    BY <1>0, <1>5 DEF Deleted, StageInv, storeVars, userVars
  <2>2. (\A u : InfoKept(u) /\ DiskKept(u)) /\ QueuesOnly({})
    BY <2>1, StorageAlone
  <2>3. \A u \in Task \ {t} : TaskKept(u)
    BY <2>1, <2>2 DEF TaskKept
  <2>4. InfoWillBe(t, NoJob)
    BY <1>0, <1>p, <1>5, <2>1 DEF TaskInv, Recovering
  <2>5. Mirrored(t)' /\ InfoWillBe(t, NoJob)'
    BY <1>p, <2>1, <2>4 DEF Mirrored, InfoWillBe
  <2>6. poll[t] = "none"
    BY <1>p, <1>5, <2>1
  <2>7. TaskInv(t)'
    BY <1>i, <2>1, <2>5, <2>6
  <2> QED  BY <1>t, <1>p, <1>5, <2>1, <2>2, <2>3, <2>7, OneTurnStep
<1> QED  BY <1>1, <1>2, <1>3, <1>4, <1>5

\* resumePendingTasks keeps the invariant, wherever it finds recovery info.
LEMMA ResumeStep ==
  ASSUME RecoveryInv, NEW t \in Task,
         \/ MarkPending(t) \/ Adopt(t)
         \/ on = t /\ InfoLoaded
  PROVE  RecoveryInv'
<1>0. Types /\ StageInv /\ JobsKnown /\ TaskInv(t)
  BY DEF RecoveryInv
<1>t. /\ tasks \in [Task -> Status] /\ exec \in [Task -> ExecStages]
      /\ poll \in [Task -> PollStages]
      /\ writes \in Seq(WriteType)
      /\ todo \subseteq Task /\ excused \subseteq Task
      /\ "pending" \in Status /\ "queued" \in ExecStages
  BY <1>0 DEF Types, Status, Unfinished, ExecStages, Executing
\* Nobody executes the task before.
<1>p. /\ phase = "resuming" /\ InHand(t) /\ exec[t] = "none"
      /\ poll[t] # "none" \/ InfoWillBe(t, NoJob)
      /\ t \notin excused /\ poll[t] = "polling" => tasks[t] \in Unfinished /\ InfoStands(t)
  <2>1. phase = "resuming" /\ InHand(t)
    BY <1>0 DEF MarkPending, Adopt, InfoLoaded, Turn, StageInv, InHand
  <2> QED  BY <1>0, <2>1 DEF TaskInv, Resuming, Working
\* The steps after which the task is still in hand.
<1>i. ASSUME doing' # "next", on' = t, UNCHANGED <<phase, infos, exec, poll, excused>>,
             tasks[t] \in Unfinished => tasks'[t] \in Unfinished, InfoKept(t)
      PROVE  TaskInv(t)'
  <2>1. InHand(t)'
    BY <1>p, <1>i DEF InHand
  <2>2. Untouched(t)' /\ Recovering(t)'
    BY <1>0, <1>p, <1>i DEF TaskInv, Untouched, Recovering
  <2>3. Resuming(t)'
    BY <1>p, <1>i, <2>1 DEF Resuming, InfoWillBe, InfoKept
  <2>4. Working(t)'
    BY <1>p, <1>i DEF Working, InfoStands, InfoKept
  <2> QED  BY <2>2, <2>3, <2>4 DEF TaskInv
<1>1. CASE MarkPending(t)
  <2>1. /\ doing = "next" /\ doing' = "save" /\ todo' = todo \ {t} /\ on' = t
        /\ Queue(<<SaveTask(t, "pending")>>)
        /\ UNCHANGED <<phase, infos, snapshot, tasks, jobs, exec, poll, deleting, excused,
                       crashes>>
    BY <1>1 DEF MarkPending, Turn, userVars
  <2>w. SaveTask(t, "pending") \in WriteType /\ SaveTask(t, "pending").store = "task"
        /\ SaveTask(t, "pending").task = t
    BY <1>t, WriteTypes
  <2>2. /\ writes' \in Seq(WriteType) /\ UNCHANGED <<disk, info>>
        /\ \A u : InfoKept(u) /\ (u # t => DiskKept(u))
        /\ QueuesOnly({SaveTask(t, "pending")})
    BY <1>0, <2>1, <2>w, QueueOne DEF Of
  <2>3. \A u \in Task \ {t} : TaskKept(u)
    BY <2>1, <2>2 DEF TaskKept
  <2>4. TaskInv(t)'
    BY <1>i, <2>1, <2>2
  <2> QED  BY <1>t, <1>p, <2>1, <2>w, <2>2, <2>3, <2>4, OneTurnStep
<1>2. CASE Adopt(t)
  <2>1. /\ doing = "next" \/ on = t
        /\ doing' = "load" /\ on' = t /\ todo' = todo \ {t}
        /\ tasks' = [tasks EXCEPT ![t] = "pending"]
        /\ UNCHANGED <<phase, infos, snapshot, storeVars, disk, info, writes, jobs, exec, poll,
                       deleting, excused, crashes>>
    <3>1. doing = "save" /\ on = t => t \notin todo
      BY <1>0 DEF StageInv
    <3> QED  BY <1>2, <3>1 DEF Adopt, Turn, storeVars, userVars
  <2>2. /\ tasks' \in [Task -> Status] /\ tasks'[t] = "pending"
        /\ \A u \in Task \ {t} : tasks'[u] = tasks[u]
    BY <1>t, <2>1
  <2>3. (\A u : InfoKept(u) /\ DiskKept(u)) /\ QueuesOnly({})
    BY <2>1, StorageAlone
  <2>4. \A u \in Task \ {t} : TaskKept(u)
    BY <2>1, <2>2, <2>3 DEF TaskKept
  <2>5. TaskInv(t)'
    BY <1>i, <2>1, <2>2, <2>3 DEF Unfinished
  <2> QED  BY <1>t, <1>p, <2>1, <2>2, <2>3, <2>4, <2>5, OneTurnStep
<1>3. CASE on = t /\ InfoLoaded
  <2>1. /\ doing = "load" /\ doing' = "next" /\ t \notin todo /\ Quiet(writes, "info", t)
        /\ UNCHANGED <<phase, on, infos, todo, snapshot, tasks, storeVars, disk, info, writes,
                       jobs, poll, deleting, crashes>>
        /\ \/ info[t] # NoJob /\ UNCHANGED <<exec, excused>>
           \/ /\ exec' = [exec EXCEPT ![t] = "queued"]
              /\ excused' = IF info[t] = NoJob THEN excused ELSE excused \cup {t}
    BY <1>0, <1>3, QueuedMeans DEF InfoLoaded, StageInv, storeVars
  <2>2. /\ exec' \in [Task -> ExecStages]
        /\ \A u \in Task \ {t} : exec'[u] = exec[u]
        /\ \/ info[t] # NoJob /\ exec'[t] = "none"
           \/ exec'[t] = "queued" /\ (info[t] # NoJob => t \in excused')
    BY <1>t, <1>p, <2>1
  <2>3. excused \subseteq excused' /\ excused' \subseteq Task
    BY <1>t, <2>1
  <2>4. (\A u : InfoKept(u) /\ DiskKept(u)) /\ QueuesOnly({})
    BY <2>1, StorageAlone
  <2>5. \A u \in Task \ {t} : TaskKept(u)
    BY <2>1, <2>2, <2>4 DEF TaskKept
  <2>6. TaskInv(t)'
    <3>1. ~InHand(t)'
      BY <2>1 DEF InHand
    <3>2. InfoWillBe(t, NoJob) => info[t] = NoJob
      BY <2>1, QuietSays DEF InfoWillBe
    <3>3. poll[t] # "none" => infos[t] # NoJob
      BY <1>0 DEF TaskInv, Recovering
    <3>4. Untouched(t)' /\ Recovering(t)'
      BY <1>p, <2>1, <3>3 DEF Untouched, Recovering
    <3>5. Resuming(t)'
      BY <1>p, <2>1, <2>2, <3>1, <3>2 DEF Resuming, Executing
    <3>6. Working(t)'
      <4>1. poll[t] = "polling" /\ t \notin excused' => info[t] = infos[t] /\ InfoStands(t)'
        BY <1>p, <2>1, <2>3 DEF InfoStands
      <4> QED  BY <2>1, <2>2, <3>3, <4>1 DEF Working
    <3> QED  BY <3>4, <3>5, <3>6 DEF TaskInv
  <2> QED  BY <1>t, <1>p, <1>3, <2>1, <2>2, <2>3, <2>4, <2>5, <2>6, OneTurnStep
<1> QED  BY <1>1, <1>2, <1>3

-----------------------------------------------------------------------------
(***************************************************************************)
(* The theorems.                                                           *)
(***************************************************************************)

LEMMA RecoveryInit == Init => RecoveryInv
<1> SUFFICES ASSUME Init  PROVE RecoveryInv
  OBVIOUS
<1>1. Types
  <2>1. /\ Unknown \in [Task -> Status]
        /\ Nowhere \in [Task -> ExecStages] /\ Nowhere \in [Task -> PollStages]
        /\ [t \in Task |-> NoJob] \in [Task -> Job] /\ [t \in Task |-> 0] \in [Task -> Job]
        /\ <<>> \in Seq(WriteType) /\ "starting" \in Phases /\ 0 \in 0 .. MaxCrashes
    BY BoundsAssumption DEF Unknown, Nowhere, Status, ExecStages, PollStages, Phases, Job, NoJob
  <2> QED  BY <2>1 DEF Init, Types
<1>2. StageInv
  BY DEF Init, StageInv
<1>3. JobsKnown
  <2>1. \A t \in Task : info[t] = 0 /\ infos[t] = 0 /\ jobs[t] = 0
    BY DEF Init, NoJob
  <2>2. DOMAIN writes = {}
    BY DEF Init
  <2> QED  BY <2>1, <2>2 DEF JobsKnown
<1>4. \A t \in Task : TaskInv(t)
  <2>1. \A t \in Task : exec[t] = "none" /\ poll[t] = "none" /\ tasks[t] = "absent"
    BY DEF Init, Nowhere, Unknown
  <2> QED  BY <2>1 DEF Init, TaskInv, Untouched, Recovering, Resuming, InHand, Working, Unfinished
<1> QED  BY <1>1, <1>2, <1>3, <1>4 DEF RecoveryInv

LEMMA RecoveryStep == RecoveryInv /\ [Next]_vars => RecoveryInv'
<1> SUFFICES ASSUME RecoveryInv, [Next]_vars  PROVE RecoveryInv'
  OBVIOUS
<1>1. CASE StartUp
  <2>1. on \in Task
    BY DEF RecoveryInv, Types
  <2>2. CASE \/ \E t \in Task : StillRunning(t) \/ AlreadyOver(t) \/ CannotAsk(t)
             \/ Upserted \/ Deleted
    BY <2>1, <2>2, RecoverStep
  <2>3. CASE InfoLoaded \/ \E t \in Task : MarkPending(t) \/ Adopt(t)
    BY <2>1, <2>3, ResumeStep
  <2> QED
    BY <1>1, <2>2, <2>3, InitializeStep, LoadInfosStep, LoadPendingStep, ResumedStep DEF StartUp
<1>2. CASE UNCHANGED vars
  BY <1>2 DEF vars, storeVars, startVars, userVars, RecoveryInv, Types, StageInv, JobsKnown,
     TaskInv, Untouched, Recovering, Resuming, Working, Mirrored, InHand, InfoWillBe, InfoStands
<1> QED  BY <1>1, <1>2, LandStep, CrashStep, UserStep, ExecutionStep, PollerStep DEF Next

\* The invariant holds in every behaviour.
LEMMA RecoveryInvariant == Spec => []RecoveryInv
BY RecoveryInit, RecoveryStep, PTL DEF Spec

\* Every variable keeps to its values, and no recovery info is of a job that the
\* provider has not been given: task-manager.ts and media-task-executor.ts.
THEOREM TypeCorrect == Spec => []TypeOK
<1>1. RecoveryInv => TypeOK
  <2> SUFFICES ASSUME RecoveryInv  PROVE TypeOK
    OBVIOUS
  <2>0. Types /\ StageInv /\ JobsKnown /\ \A t \in Task : TaskInv(t)
    BY DEF RecoveryInv
  <2>1. phase = "starting" => exec = Nowhere /\ poll = Nowhere
    <3> SUFFICES ASSUME phase = "starting"  PROVE exec = Nowhere /\ poll = Nowhere
      OBVIOUS
    <3>1. \A t \in Task : exec[t] = "none" /\ poll[t] = "none"
      BY Asleep
    <3> QED  BY <2>0, <3>1 DEF Types, Nowhere
  <2>2. phase = "up" => doing = "next" /\ todo = {}
    BY AwaitsNothing
  <2> QED  BY <2>0, <2>1, <2>2 DEF TypeOK, Types, StageInv, JobsKnown
<1> QED  BY <1>1, RecoveryInvariant, PTL

\* Once the process is up, an unfinished task is in the hands of an execution or
\* of a poller, wherever the last process died and whatever it had not saved:
\* resumePendingTasks and resumeFromRecovery forget no task between them.
THEOREM SomebodyAlwaysWorks == Spec => []SomebodyWorks
<1>1. RecoveryInv => SomebodyWorks
  BY DEF RecoveryInv, TaskInv, Resuming, InHand, SomebodyWorks
<1> QED  BY <1>1, RecoveryInvariant, PTL

\* A crash at any moment does not lose a job that an execution or a poller waits
\* for: its id is in the storage, and nothing on its way there removes it.
THEOREM CrashesFindJobs == Spec => []CrashFindsJob
<1>1. RecoveryInv => CrashFindsJob
  <2> SUFFICES ASSUME RecoveryInv, NEW t \in Task \ excused, tasks[t] \in Unfinished
               PROVE  /\ exec[t] = "waiting" => info[t] = jobs[t] /\ ~Queued("info", {t})
                      /\ poll[t] = "polling" => info[t] = infos[t] /\ ~Queued("info", {t})
    BY DEF CrashFindsJob
  <2>1. Working(t)
    BY DEF RecoveryInv, TaskInv
  <2>2. ~Queued("info", {t}) <=> Quiet(writes, "info", t)
    BY QueuedMeans
  <2>3. exec[t] = "waiting" => InfoWillBe(t, jobs[t]) /\ Quiet(writes, "info", t)
    BY <2>1 DEF Working
  <2>4. poll[t] = "polling" => InfoStands(t)
    BY <2>1 DEF Working
  <2> QED  BY <2>2, <2>3, <2>4, QuietSays DEF InfoWillBe, InfoStands
<1> QED  BY <1>1, RecoveryInvariant, PTL
=============================================================================
