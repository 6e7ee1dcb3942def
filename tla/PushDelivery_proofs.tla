------------------------- MODULE PushDelivery_proofs -------------------------
(***************************************************************************)
(* Proofs about PushDelivery, for any threads, requests, topics, numbers   *)
(* of attempts, limits and faults: what a positive answer means on each of *)
(* the places it passes, and that Comet fans a request out once.           *)
(***************************************************************************)
EXTENDS PushDelivery, FiniteSetTheorems, TLAPS

JobPlaces == {"push", "wait", "expire", "unary", "rpc", "handled", "lost"}
Jobs  == [record : Nat \ {0}, n : 1..Attempts, pc : JobPlaces, u : 0..UnaryTries]
Calls == [req : Requests, via : Threads \cup {"stream", "lost"}, st : Replies \cup {"sent", "begun"}]
Answers == [req : Requests, st : Replies]
Writers == [pc : {"idle", "try", "register", "write"}, c : Completions \cup {None}, k : 0..WriteTries]
Readers == [pc : {"none", "read", "give", "sweep"}, c : Completions \cup {None}, ok : BOOLEAN]

\* the types of the consumers' state; a thread that does something has a record
ThreadShape ==
  /\ committed \in [Threads -> Nat]
  /\ job \in [Threads -> Jobs]
  /\ \A t \in Threads :
       /\ committed[t] <= Len(Topic[t]) /\ job[t].record <= Len(Topic[t]) + 1
       /\ job[t].pc # "push" => job[t].record <= Len(Topic[t])

\* the types of the Job's side of the stream
StreamShape ==
  /\ done \in [Completions -> {"no", "ok", "failed"}]
  /\ queue \in Seq(Completions) /\ Len(queue) <= QueueMax
  /\ pending \in [Requests -> 0..Attempts]
  /\ writer \in Writers
  /\ writer.pc # "idle" => writer.c \in Completions
  /\ writer.pc \in {"register", "write"} => writer.k < WriteTries
  /\ reader \in Readers
  /\ reader.pc = "give" => reader.c \in Completions
  /\ broken \in BOOLEAN /\ stream \in {"none", "up", "dead"}

\* the types of what travels, and of Comet's state
CometShape ==
  /\ up \in Seq(Requests) /\ down \in Seq(Answers)
  /\ calls \subseteq Calls
  /\ inflight \subseteq Requests /\ IsFiniteSet(inflight) /\ Cardinality(inflight) <= DedupMax
  /\ recent \in Seq(Requests) /\ Len(recent) <= DedupMax
  /\ acked \subseteq Requests /\ processed \subseteq Requests /\ delivered \subseteq Requests

Shape == ThreadShape /\ StreamShape /\ CometShape

\* the reader's local state, and the writer's
LEMMA ReaderPlaces == Away \in Readers /\ Reading \in Readers /\ Away.pc = "none" /\ Reading.pc = "read"
BY DEF Away, Reading, Readers

LEMMA WriterPlaces ==
  /\ Idle \in Writers /\ Idle.pc = "idle"
  /\ \A c \in Completions, k \in 0..WriteTries :
       /\ Trying(c, k) \in Writers /\ Trying(c, k).pc = "try"
       /\ Trying(c, k).c = c /\ Trying(c, k).k = k
BY PushAssumption DEF Idle, Trying, Writers

\* the Job's side of the stream when nothing is under way
LEMMA NothingYet ==
  /\ [c \in Completions |-> "no"] \in [Completions -> {"no", "ok", "failed"}]
  /\ [r \in Requests |-> 0] \in [Requests -> 0..Attempts]
  /\ <<>> \in Seq(Completions) /\ Len(<<>>) <= QueueMax
BY PushAssumption

LEMMA InitShape == Init => Shape
<1> SUFFICES ASSUME Init PROVE Shape
  OBVIOUS
<1>1. ThreadShape
  <2>1. \A t \in Threads : Topic[t] \in Seq(Requests)
    BY PushAssumption
  <2>2. \A t \in Threads : Len(Topic[t]) \in Nat
    BY <2>1
  <2>3. \A t \in Threads : job[t] = Start(1)
    BY DEF Init, Fresh
  <2>4. Start(1) \in Jobs
    BY PushAssumption DEF Start, Jobs, JobPlaces
  <2> QED
    BY <2>2, <2>3, <2>4 DEF Init, Fresh, ThreadShape, Start
<1>2. StreamShape
  BY NothingYet, ReaderPlaces, WriterPlaces DEF Init, StreamShape
<1>3. CometShape
  BY PushAssumption, FS_EmptySet DEF Init, CometShape
<1> QED
  BY <1>1, <1>2, <1>3 DEF Shape

\* What a thread's record and completion are while it works on one.
LEMMA Working ==
  ASSUME ThreadShape, NEW t \in Threads
  PROVE  /\ Topic[t] \in Seq(Requests) /\ Len(Topic[t]) \in Nat
         /\ job[t] \in Jobs
         /\ job[t].record <= Len(Topic[t]) => Req(t) \in Requests /\ Completion(t) \in Completions
<1>1. Topic[t] \in Seq(Requests) /\ job[t] \in Jobs
  BY PushAssumption DEF ThreadShape
<1> QED
  BY <1>1 DEF Req, Completion, Completions, Jobs

\* Thread t goes on with the record it has; the other threads' jobs are left alone.
Moves(t) ==
  /\ job' \in [Threads -> Jobs]
  /\ \A u \in Threads \ {t} : job'[u] = job[u]
  /\ job'[t].record = job[t].record

LEMMA GoMoves ==
  ASSUME ThreadShape, NEW t \in Threads, NEW n \in 1..Attempts, NEW pc \in JobPlaces,
         NEW u \in 0..UnaryTries, Go(t, n, pc, u)
  PROVE  Moves(t) /\ job'[t].pc = pc
<1>1. job \in [Threads -> Jobs] /\ job[t].record \in Nat \ {0}
  BY DEF ThreadShape, Jobs
<1> DEFINE j == [record |-> job[t].record, n |-> n, pc |-> pc, u |-> u]
<1>2. j \in Jobs
  BY <1>1 DEF Jobs
<1>3. job' = [job EXCEPT ![t] = j]
  BY DEF Go
<1>4. job'[t] = j /\ \A v \in Threads \ {t} : job'[v] = job[v]
  BY <1>1, <1>3
<1> HIDE DEF j
<1>5. job' \in [Threads -> Jobs]
  BY <1>1, <1>2, <1>3
<1>6. j.record = job[t].record /\ j.pc = pc
  BY DEF j
<1> QED
  BY <1>4, <1>5, <1>6 DEF Moves

\* ProcessPushRequest's return: "handled" only for a success.
LEMMA ReturnMoves ==
  ASSUME ThreadShape, NEW t \in Threads, NEW ok \in BOOLEAN, Return(t, ok)
  PROVE  Moves(t) /\ job'[t].pc \in {"handled", "lost", "push"} /\ (job'[t].pc = "handled" => ok)
<1>1. job[t].n \in 1..Attempts /\ Attempts \in Nat \ {0} /\ UnaryTries \in Nat
  BY PushAssumption DEF ThreadShape, Jobs
<1>2. CASE ok
  <2>1. Go(t, job[t].n, "handled", 0)
    BY <1>2 DEF Return
  <2> QED
    BY <1>1, <1>2, <2>1, GoMoves DEF JobPlaces
<1>3. CASE ~ok /\ job[t].n = Attempts
  <2>1. Go(t, job[t].n, "lost", 0)
    BY <1>3 DEF Return
  <2> QED
    BY <1>1, <1>3, <2>1, GoMoves DEF JobPlaces
<1>4. CASE ~ok /\ job[t].n # Attempts
  <2>1. Go(t, job[t].n + 1, "push", 0) /\ job[t].n + 1 \in 1..Attempts
    BY <1>1, <1>4 DEF Return
  <2> QED
    BY <1>1, <1>4, <2>1, GoMoves DEF JobPlaces
<1> QED
  BY <1>2, <1>3, <1>4

\* A failed Unary call is followed by the next one, or by a failure.
LEMMA UnaryFailedMoves ==
  ASSUME ThreadShape, NEW t \in Threads, UnaryFailed(t)
  PROVE  Moves(t) /\ job'[t].pc \in {"unary", "lost", "push"}
<1>1. job[t].n \in 1..Attempts /\ UnaryTries \in Nat /\ job[t].u \in 0..UnaryTries
  BY PushAssumption DEF ThreadShape, Jobs
<1>2. CASE job[t].u < UnaryTries
  <2>1. Go(t, job[t].n, "unary", job[t].u + 1) /\ job[t].u + 1 \in 0..UnaryTries
    BY <1>1, <1>2 DEF UnaryFailed
  <2> QED
    BY <1>1, <2>1, GoMoves DEF JobPlaces
<1>3. CASE ~(job[t].u < UnaryTries)
  <2>1. Return(t, FALSE)
    BY <1>3 DEF UnaryFailed
  <2> QED
    BY <2>1, ReturnMoves
<1> QED
  BY <1>2, <1>3

LEMMA GoUnaryMoves ==
  ASSUME ThreadShape, NEW t \in Threads, GoUnary(t)
  PROVE  Moves(t) /\ job'[t].pc = "unary"
<1>1. job[t].n \in 1..Attempts /\ 1 \in 0..UnaryTries
  BY PushAssumption DEF ThreadShape, Jobs
<1> QED
  BY <1>1, GoMoves DEF GoUnary, JobPlaces

\* what the actions of a thread that has a record do to its job, Commit excepted
LEMMA ConsumerMoves ==
  ASSUME ThreadShape, NEW t \in Threads, Consumer(t), ~Commit(t)
  PROVE  Moves(t) /\ job[t].record <= Len(Topic[t]) /\ committed' = committed
<1>1. /\ job[t].n \in 1..Attempts /\ job[t].u \in 0..UnaryTries /\ UnaryTries \in Nat
      /\ job[t].pc # "push" => job[t].record <= Len(Topic[t])
  BY PushAssumption DEF ThreadShape, Jobs
<1>2. CASE Push(t)
  <2>1. GoUnary(t) \/ Go(t, job[t].n, "wait", 0)
    BY <1>2 DEF Push
  <2> QED
    BY <1>1, <1>2, <2>1, GoUnaryMoves, GoMoves DEF Push, JobPlaces
<1>3. CASE Woken(t)
  <2>1. Return(t, TRUE) \/ GoUnary(t)
    BY <1>3 DEF Woken
  <2> QED
    BY <1>1, <1>3, <2>1, GoUnaryMoves, ReturnMoves DEF Woken
<1>4. CASE Timeout(t)
  BY <1>1, <1>4, GoMoves DEF Timeout, JobPlaces
<1>5. CASE Expire(t)
  BY <1>1, <1>5, GoUnaryMoves DEF Expire
<1>6. CASE Call(t)
  BY <1>1, <1>6, GoMoves DEF Call, JobPlaces
<1>7. CASE Answered(t)
  <2>1. Return(t, TRUE) \/ UnaryFailed(t)
    BY <1>7 DEF Answered
  <2> QED
    BY <1>1, <1>7, <2>1, ReturnMoves, UnaryFailedMoves DEF Answered
<1>8. CASE RpcFails(t)
  BY <1>1, <1>8, UnaryFailedMoves DEF RpcFails
<1> QED
  BY <1>2, <1>3, <1>4, <1>5, <1>6, <1>7, <1>8 DEF Consumer

\* What the other threads and Comet do leaves the consumers' state alone.
LEMMA OthersLeaveJobs ==
  ASSUME Writer \/ Reader \/ Comet \/ Break \/ CometCrash
  PROVE  job' = job /\ committed' = committed
<1>1. CASE Writer
  BY <1>1 DEF Writer, Dequeue, IdleReconnect, Repair, Register, Write, WriteFails, GiveUp
<1>2. CASE Reader
  BY <1>2 DEF Reader, Receive, Give, ReaderExits, Sweep
<1>3. CASE Comet
  BY <1>3 DEF Comet, ReadRequest, BeginCall, Fanout, Refuse, jobVars
<1>4. CASE Break \/ CometCrash
  BY <1>4 DEF Break, CometCrash, jobVars
<1> QED
  BY <1>1, <1>2, <1>3, <1>4

LEMMA StartIsJob ==
  ASSUME NEW i \in Nat \ {0}
  PROVE  Start(i) \in Jobs /\ Start(i).record = i /\ Start(i).pc = "push"
BY PushAssumption DEF Start, Jobs, JobPlaces

LEMMA ThreadShapeStep ==
  ASSUME ThreadShape, [Next]_vars
  PROVE  ThreadShape'
<1>1. \A t \in Threads : Len(Topic[t]) \in Nat
  BY PushAssumption
<1>2. ASSUME NEW t \in Threads, Consumer(t), ~Commit(t) PROVE ThreadShape'
  BY <1>1, <1>2, ConsumerMoves DEF Moves, ThreadShape
<1>3. ASSUME NEW t \in Threads, Commit(t) PROVE ThreadShape'
  <2>1. job[t].record \in Nat \ {0} /\ job[t].record <= Len(Topic[t])
    BY <1>3 DEF Commit, ThreadShape, Jobs
  <2>2. Start(job[t].record + 1) \in Jobs /\ Start(job[t].record + 1).record = job[t].record + 1
    BY <2>1, StartIsJob
  <2>3. /\ committed' = [committed EXCEPT ![t] = job[t].record]
        /\ job' = [job EXCEPT ![t] = Start(job[t].record + 1)]
    BY <1>3 DEF Commit
  <2>4. Start(job[t].record + 1).pc = "push"
    BY <2>1, StartIsJob
  <2> QED
    BY <1>1, <2>1, <2>2, <2>3, <2>4 DEF ThreadShape
<1>4. CASE JobCrash
  <2>1. committed' = committed /\ job' = [t \in Threads |-> Start(committed[t] + 1)]
    BY <1>4 DEF JobCrash, Fresh
  <2>2. \A t \in Threads : /\ Start(committed[t] + 1) \in Jobs
                           /\ Start(committed[t] + 1).record = committed[t] + 1
                           /\ Start(committed[t] + 1).pc = "push"
    BY StartIsJob DEF ThreadShape
  <2> QED
    BY <1>1, <2>1, <2>2 DEF ThreadShape
<1>5. CASE Writer \/ Reader \/ Comet \/ Break \/ CometCrash
  BY <1>5, OthersLeaveJobs DEF ThreadShape
<1>6. CASE UNCHANGED vars
  BY <1>6 DEF vars, jobVars, ThreadShape
<1> QED
  BY <1>2, <1>3, <1>4, <1>5, <1>6 DEF Next, Failure

-----------------------------------------------------------------------------

\* A completion is settled once: what it was settled as first stays.
LEMMA SettleOnce ==
  ASSUME StreamShape, NEW c \in Completions, NEW verdict \in {"ok", "failed"}, Settle(c, verdict)
  PROVE  /\ done' \in [Completions -> {"no", "ok", "failed"}]
         /\ \A d \in Completions : done'[d] # done[d] => d = c /\ done'[d] = verdict
BY DEF StreamShape, Settle

LEMMA ErasedType ==
  ASSUME StreamShape, NEW c \in Completions
  PROVE  Erased(c) \in [Requests -> 0..Attempts]
<1>1. c[1] \in Requests /\ 0 \in 0..Attempts /\ pending \in [Requests -> 0..Attempts]
  BY PushAssumption DEF StreamShape, Completions
<1> QED
  BY <1>1 DEF Erased

\* Requests that end without a reply only ever become failures.
LEMMA FailShape ==
  ASSUME StreamShape, NEW lost, Fail(lost)
  PROVE  /\ done' \in [Completions -> {"no", "ok", "failed"}]
         /\ \A d \in Completions : done'[d] = done[d] \/ done'[d] = "failed"
         /\ pending' \in [Requests -> 0..Attempts]
BY PushAssumption DEF StreamShape, Fail

LEMMA ReconnectShape ==
  ASSUME StreamShape, NEW ok \in BOOLEAN, NEW lost, Reconnect(ok, lost)
  PROVE  /\ done' \in [Completions -> {"no", "ok", "failed"}]
         /\ \A d \in Completions : done'[d] = done[d] \/ done'[d] = "failed"
         /\ pending' \in [Requests -> 0..Attempts]
         /\ reader' \in Readers /\ reader'.pc # "give"
         /\ broken' \in BOOLEAN /\ stream' \in {"none", "up", "dead"}
         /\ up' = <<>> /\ down' = <<>>
<1>1. Fail(lost)
  BY DEF Reconnect
<1>2. reader' \in {Away, Reading}
  BY DEF Reconnect
<1>3. stream' \in {"none", "up", "dead"} /\ up' = <<>> /\ down' = <<>>
  BY DEF Reconnect
<1>4. broken' = (~ok /\ (broken \/ reader.pc = "read"))
  BY DEF Reconnect
<1>5. broken' \in BOOLEAN
  BY <1>4
<1> QED
  BY <1>1, <1>2, <1>3, <1>5, FailShape, ReaderPlaces

\* A step of the writer with the queue, and the request it takes from it.
LEMMA DequeueShape ==
  ASSUME StreamShape, Dequeue
  PROVE  StreamShape'
<1>1. queue \in Seq(Completions) /\ queue # <<>>
  BY DEF StreamShape, Dequeue
<1>2. Head(queue) \in Completions /\ Tail(queue) \in Seq(Completions) /\ Len(Tail(queue)) = Len(queue) - 1
  BY <1>1
<1>3. 0 \in 0..WriteTries
  BY PushAssumption
<1>4. /\ writer' \in Writers /\ writer'.pc = "try" /\ writer'.c \in Completions
      /\ queue' \in Seq(Completions) /\ Len(queue') <= QueueMax
  BY <1>1, <1>2, <1>3, WriterPlaces, PushAssumption DEF StreamShape, Dequeue
<1> QED
  BY <1>4 DEF Dequeue, StreamShape, streamVars

LEMMA RepairShape ==
  ASSUME StreamShape, Repair
  PROVE  StreamShape'
<1>1. PICK ok \in BOOLEAN :
        /\ Reconnect(ok, Registered)
        /\ writer' = IF ok THEN [writer EXCEPT !.pc = "register"] ELSE Trying(writer.c, writer.k + 1)
  BY DEF Repair
<1>2. writer \in Writers /\ writer.c \in Completions /\ writer.k < WriteTries /\ queue' = queue
  BY DEF Repair, StreamShape
<1>3. writer.k + 1 \in 0..WriteTries
  BY <1>2, PushAssumption DEF Writers
<1>4. CASE ok
  <2>1. writer' = [writer EXCEPT !.pc = "register"]
    BY <1>1, <1>4
  <2>2. writer' \in Writers /\ writer'.c = writer.c /\ writer'.k = writer.k /\ writer'.pc = "register"
    BY <1>2, <2>1 DEF Writers
  <2> QED
    BY <1>1, <1>2, <2>2, ReconnectShape DEF StreamShape
<1>5. CASE ~ok
  <2>1. writer' = Trying(writer.c, writer.k + 1) /\ Reconnect(ok, Registered)
    BY <1>1, <1>5
  <2>2. writer' \in Writers /\ writer'.c \in Completions /\ writer'.pc = "try"
    BY <1>2, <1>3, <2>1, WriterPlaces
  <2> QED
    BY <1>2, <2>1, <2>2, ReconnectShape DEF StreamShape
<1> QED
  BY <1>4, <1>5

LEMMA RegisterShape ==
  ASSUME StreamShape, Register
  PROVE  StreamShape'
<1>1. writer \in Writers /\ writer.c \in Completions /\ writer.k < WriteTries
  BY DEF Register, StreamShape
<1>2. CASE done[writer.c] # "no"
  <2>1. writer' = Idle /\ pending' = pending
    BY <1>2 DEF Register
  <2> QED
    BY <2>1, WriterPlaces DEF Register, StreamShape, streamVars
<1>3. CASE done[writer.c] = "no"
  <2>1. writer' = [writer EXCEPT !.pc = "write"] /\ pending' = [pending EXCEPT ![writer.c[1]] = writer.c[2]]
    BY <1>3 DEF Register
  <2>2. writer' \in Writers /\ writer'.c = writer.c /\ writer'.k = writer.k /\ writer'.pc = "write"
    BY <1>1, <2>1 DEF Writers
  <2>3. writer.c[1] \in Requests /\ writer.c[2] \in 0..Attempts
    BY <1>1, PushAssumption DEF Completions
  <2>4. pending' \in [Requests -> 0..Attempts]
    BY <2>1, <2>3 DEF StreamShape
  <2> QED
    BY <1>1, <2>2, <2>4 DEF Register, StreamShape, streamVars
<1> QED
  BY <1>2, <1>3

LEMMA WriteFailsShape ==
  ASSUME StreamShape, WriteFails
  PROVE  StreamShape'
<1>1. writer \in Writers /\ writer.c \in Completions /\ writer.k < WriteTries /\ queue' = queue
  BY DEF WriteFails, StreamShape
<1>2. writer.k + 1 \in 0..WriteTries
  BY <1>1, PushAssumption DEF Writers
<1>3. CASE done[writer.c] # "no"
  <2>1. writer' = Idle /\ pending' = Erased(writer.c) /\ UNCHANGED <<done, reader, broken, stream>>
    BY <1>3 DEF WriteFails, streamVars
  <2> QED
    BY <1>1, <2>1, WriterPlaces, ErasedType DEF StreamShape
<1>4. CASE done[writer.c] = "no"
  <2>1. PICK ok \in BOOLEAN : Reconnect(ok, Registered \ {writer.c})
    BY <1>4 DEF WriteFails
  <2>2. writer' = Trying(writer.c, writer.k + 1)
    BY <1>4 DEF WriteFails
  <2> QED
    BY <1>1, <1>2, <2>1, <2>2, ReconnectShape, WriterPlaces DEF StreamShape
<1> QED
  BY <1>3, <1>4

LEMMA WriterShape ==
  ASSUME StreamShape, Writer
  PROVE  StreamShape'
<1>1. CASE IdleReconnect
  <2>1. PICK ok \in BOOLEAN : Reconnect(ok, Registered)
    BY <1>1 DEF IdleReconnect
  <2>2. queue' = queue /\ writer' = writer
    BY <1>1 DEF IdleReconnect
  <2> QED
    BY <2>1, <2>2, ReconnectShape DEF StreamShape
<1>2. CASE Write
  BY <1>2, WriterPlaces DEF Write, StreamShape
<1>3. CASE GiveUp
  <2>1. writer.c \in Completions /\ writer' = Idle /\ Settle(writer.c, "failed")
    BY <1>3 DEF GiveUp, StreamShape
  <2> QED
    BY <1>3, <2>1, SettleOnce, WriterPlaces DEF GiveUp, StreamShape, streamVars
<1> QED
  BY <1>1, <1>2, <1>3, DequeueShape, RepairShape, RegisterShape, WriteFailsShape DEF Writer

LEMMA ReceiveShape ==
  ASSUME StreamShape, CometShape, Receive
  PROVE  StreamShape'
<1> DEFINE r == Head(down).req
           reply == Head(down).st
<1>1. Head(down) \in Answers
  BY DEF Receive, CometShape
<1>2. r \in Requests /\ pending[r] \in 0..Attempts
  BY <1>1 DEF Answers, StreamShape
<1>3. CASE pending[r] = 0
  BY <1>3 DEF Receive, StreamShape
<1>4. CASE pending[r] # 0
  <2>1. /\ pending' = [pending EXCEPT ![r] = 0]
        /\ reader' = [pc |-> "give", c |-> <<r, pending[r]>>, ok |-> Ok(reply)]
    BY <1>4 DEF Receive
  <2>2. <<r, pending[r]>> \in Completions
    BY <1>2, <1>4, PushAssumption DEF Completions
  <2>3. pending' \in [Requests -> 0..Attempts]
    BY <1>2, <2>1, PushAssumption DEF StreamShape
  <2>4. Ok(reply) \in BOOLEAN
    BY DEF Ok
  <2> HIDE DEF r, reply
  <2>5. reader' \in Readers /\ reader'.c \in Completions
    BY <2>1, <2>2, <2>4 DEF Readers
  <2> QED
    BY <2>3, <2>5 DEF Receive, StreamShape
<1> QED
  BY <1>3, <1>4

LEMMA ReaderShape ==
  ASSUME StreamShape, CometShape, Reader
  PROVE  StreamShape'
<1>1. CASE Give
  <2>1. reader.c \in Completions /\ Settle(reader.c, IF reader.ok THEN "ok" ELSE "failed")
    BY <1>1 DEF Give, StreamShape
  <2> QED
    BY <1>1, <2>1, SettleOnce, ReaderPlaces DEF Give, StreamShape, streamVars
<1>2. CASE ReaderExits
  <2>1. reader' \in Readers /\ reader'.pc = "sweep"
    BY <1>2 DEF ReaderExits, Readers
  <2> QED
    BY <1>2, <2>1 DEF ReaderExits, StreamShape, streamVars
<1>3. CASE Sweep
  <2>1. Fail(Registered) /\ reader' = Away
    BY <1>3 DEF Sweep
  <2> QED
    BY <1>3, <2>1, FailShape, ReaderPlaces DEF Sweep, StreamShape, streamVars
<1> QED
  BY <1>1, <1>2, <1>3, ReceiveShape DEF Reader

\* what a thread works on while its record is one of its topic
LEMMA ConsumerStream ==
  ASSUME ThreadShape, StreamShape, NEW t \in Threads, Consumer(t)
  PROVE  StreamShape'
<1>1. Push(t) \/ Timeout(t) \/ Expire(t) => Completion(t) \in Completions
  BY Working DEF ThreadShape, Push, Timeout, Expire
<1>2. CASE Push(t)
  <2>1. queue' = queue \/ (queue' = Append(queue, Completion(t)) /\ Len(queue) < QueueMax)
    BY <1>2, PushAssumption DEF Push, StreamShape
  <2>2. queue \in Seq(Completions) /\ Len(queue) <= QueueMax /\ Len(queue) \in Nat
    BY DEF StreamShape
  <2>3. Completion(t) \in Completions
    BY <1>1, <1>2
  <2>4. queue' \in Seq(Completions) /\ Len(queue') <= QueueMax
    BY <2>1, <2>2, <2>3, PushAssumption
  <2> QED
    BY <1>2, <2>4 DEF Push, StreamShape, streamVars
<1>3. CASE Timeout(t)
  BY <1>1, <1>3, ErasedType DEF Timeout, StreamShape, streamVars
<1>4. CASE Expire(t)
  BY <1>1, <1>4, SettleOnce DEF Expire, StreamShape, streamVars
<1>5. CASE Woken(t) \/ Call(t) \/ Answered(t) \/ RpcFails(t) \/ Commit(t)
  <2>1. UNCHANGED <<done, queue, pending, writer, reader, broken, stream>>
    BY <1>5 DEF Woken, Call, Answered, RpcFails, Commit, streamVars
  <2> QED
    BY <2>1 DEF StreamShape
<1> QED
  BY <1>2, <1>3, <1>4, <1>5 DEF Consumer

LEMMA StreamShapeStep ==
  ASSUME Shape, [Next]_vars
  PROVE  StreamShape'
<1>1. ASSUME NEW t \in Threads, Consumer(t) PROVE StreamShape'
  BY <1>1, ConsumerStream DEF Shape
<1>2. CASE JobCrash
  BY <1>2, WriterPlaces, ReaderPlaces, NothingYet DEF JobCrash, StreamShape
<1>3. CASE Comet \/ CometCrash \/ Break
  <2>1. UNCHANGED <<done, queue, pending, writer, reader, broken>> /\ stream' \in {stream, "dead"}
    BY <1>3 DEF Comet, ReadRequest, BeginCall, Fanout, Refuse, CometCrash, Break, jobVars
  <2> QED
    BY <2>1 DEF Shape, StreamShape
<1>4. CASE UNCHANGED vars
  BY <1>4 DEF vars, jobVars, streamVars, Shape, StreamShape
<1> QED
  BY <1>1, <1>2, <1>3, <1>4, WriterShape, ReaderShape DEF Shape, Next, Failure

-----------------------------------------------------------------------------

\* Nobody waits for the calls of old any more: what is left of them is lost calls, and among
\* those every one that was begun goes on.
Loses(old) ==
  /\ calls \ old \subseteq calls'
  /\ \A c \in calls' :
       \/ c \in calls \ old
       \/ /\ c \in Calls /\ c.via = "lost"
          /\ c.st = "begun" => \E d \in old : d.st = "begun" /\ d.req = c.req
          /\ c.st \in {"sent", "begun"}
  /\ \A d \in old : d.st = "begun" => \E c \in calls' : c.st = "begun" /\ c.req = d.req

LEMMA OrphansAreLost ==
  ASSUME NEW s \in SUBSET Calls
  PROVE  /\ \A c \in Orphans(s) :
              /\ c \in Calls /\ c.via = "lost" /\ c.st \in {"sent", "begun"}
              /\ \E d \in s : d.st = c.st /\ d.req = c.req
         /\ \A d \in s : d.st = "begun" => \E c \in Orphans(s) : c.st = "begun" /\ c.req = d.req
<1>1. \A d \in Calls : [d EXCEPT !.via = "lost"] \in Calls /\ [d EXCEPT !.via = "lost"].via = "lost"
                       /\ [d EXCEPT !.via = "lost"].st = d.st /\ [d EXCEPT !.via = "lost"].req = d.req
  BY DEF Calls
<1>2. \A d \in Calls : d.st \notin Replies => d.st \in {"sent", "begun"}
  BY DEF Calls
<1>3. ASSUME NEW c \in Orphans(s)
      PROVE  /\ c \in Calls /\ c.via = "lost" /\ c.st \in {"sent", "begun"}
             /\ \E d \in s : d.st = c.st /\ d.req = c.req
  <2>1. PICK d \in s : d.st \notin Replies /\ c = [d EXCEPT !.via = "lost"]
    BY <1>3, Zenon DEF Orphans
  <2> QED
    BY <1>1, <1>2, <2>1
<1>4. ASSUME NEW d \in s, d.st = "begun"
      PROVE  \E c \in Orphans(s) : c.st = "begun" /\ c.req = d.req
  <2>1. d.st \notin Replies
    BY <1>4 DEF Replies
  <2>2. [d EXCEPT !.via = "lost"] \in Orphans(s)
    BY <2>1, Zenon DEF Orphans
  <2> QED
    BY <1>1, <1>4, <2>2
<1> QED
  BY <1>3, <1>4

LEMMA AbandonLoses ==
  ASSUME CometShape, NEW old \in SUBSET calls, Abandon(old)
  PROVE  Loses(old)
<1> DEFINE first == [req |-> Head(up), via |-> "lost", st |-> "sent"]
<1>1. PICK more \in SUBSET {first} : calls' = (calls \ old) \cup Orphans(old) \cup more /\ (more # {} => up # <<>>)
  BY Zenon DEF Abandon
<1>2. up # <<>> => first \in Calls /\ first.via = "lost" /\ first.st = "sent"
  BY DEF CometShape, Calls
<1> HIDE DEF first
<1>3. old \in SUBSET Calls
  BY DEF CometShape
<1> QED
  BY <1>1, <1>2, <1>3, OrphansAreLost DEF Loses

LEMMA HandlerEndsLoses ==
  ASSUME CometShape, HandlerEnds
  PROVE  Loses({c \in calls : c.via = "stream"})
BY AbandonLoses DEF HandlerEnds

LEMMA RpcFailsLoses ==
  ASSUME CometShape, NEW t \in Threads, RpcFails(t)
  PROVE  Loses({c \in calls : c.via = t})
<1> DEFINE mine == {c \in calls : c.via = t}
<1>1. PICK kept \in SUBSET Orphans(mine) :
        /\ \A c \in Orphans(mine) : c.st = "begun" => c \in kept
        /\ calls' = (calls \ mine) \cup kept
  BY DEF RpcFails
<1>2. mine \in SUBSET Calls
  BY DEF CometShape
<1> HIDE DEF mine
<1>3. Loses(mine)
  BY <1>1, <1>2, OrphansAreLost DEF Loses
<1> QED
  BY <1>3 DEF mine

\* the calls after a handler of Comet has answered c
LEMMA AnswerGives ==
  ASSUME CometShape, NEW s \in SUBSET Calls, NEW c \in s, NEW reply \in Replies, Answer(c, s, reply)
  PROVE  /\ \A d \in calls' : \/ d \in s \ {c}
                              \/ /\ d \in Calls /\ d.req = c.req /\ d.via = c.via /\ d.st = reply
                                 /\ c.via \in Threads
         /\ s \ {c} \subseteq calls'
         /\ \/ down' = down
            \/ \E a \in Answers : down' = Append(down, a) /\ a.req = c.req /\ a.st = reply
<1>1. c \in Calls /\ [c EXCEPT !.st = reply] \in Calls /\ [c EXCEPT !.st = reply].req = c.req
      /\ [c EXCEPT !.st = reply].via = c.via /\ [c EXCEPT !.st = reply].st = reply
  BY DEF Calls
<1>2. calls' = (s \ {c}) \cup (IF c.via \in Threads THEN {[c EXCEPT !.st = reply]} ELSE {})
  BY Zenon DEF Answer
<1>3. down' = down \/ down' = Append(down, [req |-> c.req, st |-> reply])
  BY Zenon DEF Answer
<1>4. [req |-> c.req, st |-> reply] \in Answers
  BY <1>1 DEF Answers, Calls
<1> DEFINE e == [c EXCEPT !.st = reply]
           a == [req |-> c.req, st |-> reply]
<1>5. a \in Answers /\ a.req = c.req /\ a.st = reply
  BY <1>4
<1>6. calls' = (s \ {c}) \cup (IF c.via \in Threads THEN {e} ELSE {}) /\ (down' = down \/ down' = Append(down, a))
  BY <1>2, <1>3
<1>7. e \in Calls /\ e.req = c.req /\ e.via = c.via /\ e.st = reply
  BY <1>1
<1> HIDE DEF e, a
<1> QED
  BY <1>5, <1>6, <1>7

LEMMA AnswerCalls ==
  ASSUME CometShape, NEW s \in SUBSET Calls, NEW c \in s, NEW reply \in Replies, Answer(c, s, reply)
  PROVE  \A d \in calls' : d \in s \ {c} \/ (d.req = c.req /\ d.st = reply)
<1>1. \A d \in calls' : \/ d \in s \ {c}
                       \/ /\ d \in Calls /\ d.req = c.req /\ d.via = c.via /\ d.st = reply
                          /\ c.via \in Threads
  BY AnswerGives
<1> QED
  BY <1>1

\* AcceptPushRequest answers the call at once or begins it.
LEMMA AcceptGives ==
  ASSUME CometShape, NEW s \in SUBSET Calls, NEW c \in s, Accept(c, s)
  PROVE  /\ recent' = recent
         /\ \/ \E reply \in {"nobody", "busy"} :
                 /\ Answer(c, s, reply) /\ inflight' = inflight
                 /\ reply = "nobody" => c.req \in Range(recent)
            \/ /\ \A d \in calls' : \/ d \in s \ {c}
                                    \/ /\ d \in Calls /\ d.req = c.req /\ d.via = c.via /\ d.st = "begun"
               /\ s \ {c} \subseteq calls' /\ down' = down
               /\ \E d \in calls' : d.req = c.req /\ d.st = "begun"
               /\ inflight' = inflight \cup {c.req}
               /\ c.req \notin inflight /\ c.req \notin Range(recent)
               /\ ~(Cardinality(inflight) >= DedupMax)
<1> DEFINE e == [c EXCEPT !.st = "begun"]
<1>1. e \in Calls /\ e.req = c.req /\ e.via = c.via /\ e.st = "begun"
  BY DEF Calls
<1>2. recent' = recent
  BY DEF Accept
<1>3. CASE c.req \in Range(recent)
  <2>1. Answer(c, s, "nobody") /\ inflight' = inflight
    BY <1>3, Zenon DEF Accept
  <2> QED
    BY <1>2, <1>3, <2>1
<1>4. CASE c.req \notin Range(recent) /\ (c.req \in inflight \/ Cardinality(inflight) >= DedupMax)
  <2>1. Answer(c, s, "busy") /\ inflight' = inflight
    BY <1>4, Zenon DEF Accept
  <2> QED
    BY <1>2, <2>1
<1>5. CASE c.req \notin Range(recent) /\ ~(c.req \in inflight \/ Cardinality(inflight) >= DedupMax)
  <2>1. calls' = (s \ {c}) \cup {e} /\ inflight' = inflight \cup {c.req} /\ down' = down
    BY <1>5, Zenon DEF Accept
  <2> HIDE DEF e
  <2> QED
    BY <1>1, <1>2, <1>5, <2>1
<1> QED
  BY <1>3, <1>4, <1>5

\* the request that Comet reads from the stream
StreamCall == [req |-> Head(up), via |-> "stream", st |-> "sent"]

LEMMA StreamCallType ==
  ASSUME CometShape, up # <<>>
  PROVE  /\ StreamCall \in Calls /\ StreamCall.req = Head(up)
         /\ StreamCall.via = "stream" /\ StreamCall.st = "sent"
BY DEF CometShape, StreamCall, Calls

\* A step of a handler keeps the types, whether it accepts, completes or refuses.
LEMMA AnswerShape ==
  ASSUME CometShape, NEW s \in SUBSET Calls, NEW c \in s, NEW reply \in Replies, Answer(c, s, reply)
  PROVE  calls' \subseteq Calls /\ down' \in Seq(Answers)
<1>1. down \in Seq(Answers)
  BY DEF CometShape
<1>2. calls' \subseteq Calls
  BY AnswerGives
<1>3. down' = down \/ \E a \in Answers : down' = Append(down, a)
  BY AnswerGives
<1> QED
  BY <1>1, <1>2, <1>3

LEMMA AcceptShape ==
  ASSUME CometShape, NEW s \in SUBSET Calls, NEW c \in s, Accept(c, s)
  PROVE  /\ calls' \subseteq Calls /\ down' \in Seq(Answers) /\ recent' = recent
         /\ inflight' \subseteq Requests /\ IsFiniteSet(inflight') /\ Cardinality(inflight') <= DedupMax
<1>1. DedupMax \in Nat /\ IsFiniteSet(inflight) /\ Cardinality(inflight) <= DedupMax /\ inflight \subseteq Requests
  BY PushAssumption DEF CometShape
<1>2. CASE \E reply \in {"nobody", "busy"} : Answer(c, s, reply) /\ inflight' = inflight
  BY <1>1, <1>2, AnswerShape, AcceptGives DEF Replies
<1>3. CASE /\ \A d \in calls' : d \in s \ {c} \/ d \in Calls
           /\ down' = down /\ inflight' = inflight \cup {c.req} /\ c.req \notin inflight
           /\ ~(Cardinality(inflight) >= DedupMax)
  <2>1. c.req \in Requests
    BY DEF Calls
  <2>2. Cardinality(inflight) \in Nat /\ Cardinality(inflight) < DedupMax
    BY <1>1, <1>3, FS_CardinalityType
  <2>3. IsFiniteSet(inflight') /\ Cardinality(inflight') = Cardinality(inflight) + 1
    BY <1>1, <1>3, FS_AddElement
  <2> QED
    BY <1>1, <1>3, <2>1, <2>2, <2>3, AcceptGives DEF CometShape
<1> QED
  BY <1>2, <1>3, AcceptGives

\* inflight_push_ids_ after an erase
LEMMA EraseShape ==
  ASSUME CometShape, NEW r
  PROVE  /\ inflight \ {r} \subseteq Requests /\ IsFiniteSet(inflight \ {r})
         /\ Cardinality(inflight \ {r}) <= DedupMax
<1>1. DedupMax \in Nat /\ IsFiniteSet(inflight) /\ Cardinality(inflight) <= DedupMax /\ inflight \subseteq Requests
  BY PushAssumption DEF CometShape
<1>2. IsFiniteSet(inflight \ {r}) /\ Cardinality(inflight \ {r}) <= Cardinality(inflight)
  BY <1>1, FS_Subset, inflight \ {r} \subseteq inflight
<1>3. Cardinality(inflight) \in Nat /\ Cardinality(inflight \ {r}) \in Nat
  BY <1>1, <1>2, FS_CardinalityType
<1> QED
  BY <1>1, <1>2, <1>3

\* CompletePushRequest appends to recent_push_order_ and drops the oldest one when it is full.
LEMMA NewestShape ==
  ASSUME CometShape, NEW r \in Requests
  PROVE  /\ Newest(Append(recent, r)) \in Seq(Requests) /\ Len(Newest(Append(recent, r))) <= DedupMax
         /\ \/ Newest(Append(recent, r)) = Append(recent, r)
            \/ recent # <<>> /\ Newest(Append(recent, r)) = Append(Tail(recent), r)
<1>1. recent \in Seq(Requests) /\ Len(recent) <= DedupMax /\ DedupMax \in Nat \ {0} /\ Len(recent) \in Nat
  BY PushAssumption DEF CometShape
<1>2. Append(recent, r) \in Seq(Requests) /\ Len(Append(recent, r)) = Len(recent) + 1
  BY <1>1
<1>3. CASE Len(recent) + 1 > DedupMax
  <2>1. Newest(Append(recent, r)) = Tail(Append(recent, r))
    BY <1>2, <1>3 DEF Newest
  <2>2. recent # <<>>
    BY <1>1, <1>3
  <2>3. Tail(Append(recent, r)) = Append(Tail(recent), r)
    BY <1>1, <2>2
  <2>4. Tail(recent) \in Seq(Requests) /\ Len(Tail(recent)) = Len(recent) - 1
    BY <1>1, <2>2
  <2>5. Append(Tail(recent), r) \in Seq(Requests) /\ Len(Append(Tail(recent), r)) = Len(recent)
    BY <1>1, <2>4
  <2> QED
    BY <1>1, <2>1, <2>2, <2>3, <2>5
<1>4. CASE ~(Len(recent) + 1 > DedupMax)
  <2>1. Newest(Append(recent, r)) = Append(recent, r)
    BY <1>2, <1>4 DEF Newest
  <2> QED
    BY <1>1, <1>2, <1>4, <2>1
<1> QED
  BY <1>3, <1>4

LEMMA CometStepShape ==
  ASSUME CometShape, Comet
  PROVE  CometShape'
<1>1. calls \in SUBSET Calls /\ up \in Seq(Requests)
  BY DEF CometShape
<1>2. CASE ReadRequest
  <2>1. up # <<>> /\ up' = Tail(up) /\ Accept(StreamCall, calls \cup {StreamCall})
        /\ UNCHANGED histVars
    BY <1>2, Zenon DEF ReadRequest, StreamCall
  <2>2. calls \cup {StreamCall} \in SUBSET Calls /\ up' \in Seq(Requests)
    BY <1>1, <2>1, StreamCallType
  <2> QED
    BY <2>1, <2>2, AcceptShape DEF CometShape, histVars
<1>3. ASSUME NEW c \in calls, BeginCall(c) PROVE CometShape'
  <2>1. Accept(c, calls) /\ up' = up /\ UNCHANGED histVars
    BY <1>3 DEF BeginCall
  <2> QED
    BY <1>1, <2>1, AcceptShape DEF CometShape, histVars
<1>4. ASSUME NEW c \in calls, Fanout(c) PROVE CometShape'
  <2>1. PICK reply \in {"some", "nobody"} :
          /\ Answer(c, calls, reply)
          /\ delivered' = IF reply = "some" THEN delivered \cup {c.req} ELSE delivered
    BY <1>4 DEF Fanout
  <2>2. /\ inflight' = inflight \ {c.req} /\ recent' = Newest(Append(recent, c.req))
        /\ processed' = processed \cup {c.req} /\ up' = up /\ acked' = acked
    BY <1>4 DEF Fanout
  <2>3. c.req \in Requests /\ reply \in Replies
    BY <1>1 DEF Calls, Replies
  <2>4. calls' \subseteq Calls /\ down' \in Seq(Answers)
    BY <1>1, <2>1, <2>3, AnswerShape
  <2>5. inflight' \subseteq Requests /\ IsFiniteSet(inflight') /\ Cardinality(inflight') <= DedupMax
    BY <2>2, EraseShape
  <2>6. recent' \in Seq(Requests) /\ Len(recent') <= DedupMax
    BY <2>2, <2>3, NewestShape
  <2> QED
    BY <2>1, <2>2, <2>3, <2>4, <2>5, <2>6 DEF CometShape
<1>5. ASSUME NEW c \in calls, Refuse(c) PROVE CometShape'
  <2>1. Answer(c, calls, "busy") /\ inflight' = inflight \ {c.req} /\ UNCHANGED <<up, recent, histVars>>
    BY <1>5 DEF Refuse
  <2>2. calls' \subseteq Calls /\ down' \in Seq(Answers)
    BY <1>1, <2>1, AnswerShape DEF Replies
  <2>3. inflight' \subseteq Requests /\ IsFiniteSet(inflight') /\ Cardinality(inflight') <= DedupMax
    BY <2>1, EraseShape
  <2> QED
    BY <2>1, <2>2, <2>3 DEF CometShape, histVars
<1> QED
  BY <1>2, <1>3, <1>4, <1>5 DEF Comet

\* what is left of the calls when nobody waits for some of them any more
LEMMA LosesShape ==
  ASSUME CometShape, NEW old, Loses(old)
  PROVE  calls' \subseteq Calls
BY DEF CometShape, Loses

\* The writer hands a request to the stream, or makes a new one.
LEMMA WriterComet ==
  ASSUME StreamShape, CometShape, Writer
  PROVE  CometShape'
<1>1. <<>> \in Seq(Requests) /\ <<>> \in Seq(Answers)
  OBVIOUS
<1>2. ASSUME NEW ok \in BOOLEAN, NEW lost, Reconnect(ok, lost),
             UNCHANGED <<inflight, recent, histVars>>
      PROVE  CometShape'
  <2>1. HandlerEnds /\ up' = <<>> /\ down' = <<>>
    BY <1>2 DEF Reconnect
  <2>2. calls' \subseteq Calls
    BY <2>1, HandlerEndsLoses, LosesShape
  <2> QED
    BY <1>1, <1>2, <2>1, <2>2 DEF CometShape, histVars
<1>3. CASE IdleReconnect \/ Repair
  <2>1. PICK ok \in BOOLEAN : Reconnect(ok, Registered)
    BY <1>3 DEF IdleReconnect, Repair
  <2>2. UNCHANGED <<inflight, recent, histVars>>
    BY <1>3 DEF IdleReconnect, Repair
  <2> QED
    BY <1>2, <2>1, <2>2
<1>4. CASE WriteFails
  <2>1. UNCHANGED <<inflight, recent, histVars>>
    BY <1>4 DEF WriteFails
  <2>2. CASE done[writer.c] # "no"
    <3>1. UNCHANGED <<up, down, calls>>
      BY <1>4, <2>2 DEF WriteFails, streamVars
    <3> QED
      BY <2>1, <3>1 DEF CometShape, histVars
  <2>3. CASE done[writer.c] = "no"
    <3>1. PICK ok \in BOOLEAN : Reconnect(ok, Registered \ {writer.c})
      BY <1>4, <2>3 DEF WriteFails
    <3> QED
      BY <1>2, <2>1, <3>1
  <2> QED
    BY <2>2, <2>3
<1>5. CASE Write
  <2>1. writer.c \in Completions /\ up' = Append(up, writer.c[1]) /\ UNCHANGED <<down, cometVars, histVars>>
    BY <1>5 DEF Write, StreamShape
  <2>2. writer.c[1] \in Requests
    BY <2>1 DEF Completions
  <2>3. up' \in Seq(Requests)
    BY <2>1, <2>2 DEF CometShape
  <2> QED
    BY <2>1, <2>3 DEF CometShape, cometVars, histVars
<1>6. CASE Dequeue \/ Register \/ GiveUp
  <2>1. UNCHANGED <<streamVars, cometVars, histVars>>
    BY <1>6 DEF Dequeue, Register, GiveUp
  <2> QED
    BY <2>1 DEF CometShape, streamVars, cometVars, histVars
<1> QED
  BY <1>3, <1>4, <1>5, <1>6 DEF Writer

LEMMA ReaderComet ==
  ASSUME CometShape, Reader
  PROVE  CometShape'
<1>1. CASE Receive
  <2>1. Head(down) \in Answers /\ Tail(down) \in Seq(Answers)
    BY <1>1 DEF Receive, CometShape
  <2>2. Head(down).req \in Requests
    BY <2>1 DEF Answers
  <2>3. acked' = acked \/ acked' = acked \cup {Head(down).req}
    BY <1>1 DEF Receive, AckIf
  <2>4. down' = Tail(down) /\ UNCHANGED <<up, cometVars, processed, delivered>>
    BY <1>1 DEF Receive
  <2>5. acked' \subseteq Requests
    BY <2>2, <2>3 DEF CometShape
  <2> QED
    BY <2>1, <2>4, <2>5 DEF CometShape, cometVars
<1>2. CASE Give \/ ReaderExits \/ Sweep
  <2>1. UNCHANGED <<streamVars, cometVars, histVars>>
    BY <1>2 DEF Give, ReaderExits, Sweep
  <2> QED
    BY <2>1 DEF CometShape, streamVars, cometVars, histVars
<1> QED
  BY <1>1, <1>2 DEF Reader

\* the Unary call of a thread
LEMMA UnaryCallType ==
  ASSUME ThreadShape, NEW t \in Threads, job[t].pc # "push"
  PROVE  /\ UnaryCall(t) \in Calls /\ UnaryCall(t).req = Req(t)
         /\ UnaryCall(t).via = t /\ UnaryCall(t).st = "sent"
<1>1. Req(t) \in Requests
  BY Working DEF ThreadShape
<1> HIDE DEF Req
<1> QED
  BY <1>1 DEF UnaryCall, Calls

LEMMA ConsumerComet ==
  ASSUME ThreadShape, CometShape, NEW t \in Threads, Consumer(t)
  PROVE  CometShape'
<1>1. CASE Call(t)
  <2>1. calls' = calls \cup {UnaryCall(t)} /\ UNCHANGED <<streamVars, inflight, recent, histVars>>
    BY <1>1 DEF Call
  <2>2. job[t].pc # "push"
    BY <1>1 DEF Call
  <2>3. calls' \subseteq Calls
    BY <2>1, <2>2, UnaryCallType DEF CometShape
  <2> QED
    BY <2>1, <2>3 DEF CometShape, streamVars, histVars
<1>2. CASE Answered(t)
  <2>1. PICK c \in calls : calls' = calls \ {c} /\ AckIf(c.req, c.st)
    BY <1>2 DEF Answered
  <2>2. UNCHANGED <<streamVars, inflight, recent, processed, delivered>>
    BY <1>2 DEF Answered
  <2>3. c.req \in Requests
    BY DEF CometShape, Calls
  <2>4. calls' \subseteq Calls /\ acked' \subseteq Requests
    BY <2>1, <2>3 DEF CometShape, AckIf
  <2> QED
    BY <2>2, <2>4 DEF CometShape, streamVars
<1>3. CASE RpcFails(t)
  <2>1. calls' \subseteq Calls
    BY <1>3, RpcFailsLoses, LosesShape
  <2>2. UNCHANGED <<streamVars, inflight, recent, histVars>>
    BY <1>3 DEF RpcFails
  <2> QED
    BY <2>1, <2>2 DEF CometShape, streamVars, histVars
<1>4. CASE Push(t) \/ Woken(t) \/ Timeout(t) \/ Expire(t) \/ Commit(t)
  <2>1. UNCHANGED <<streamVars, cometVars, histVars>>
    BY <1>4 DEF Push, Woken, Timeout, Expire, Commit
  <2> QED
    BY <2>1 DEF CometShape, streamVars, cometVars, histVars
<1> QED
  BY <1>1, <1>2, <1>3, <1>4 DEF Consumer

\* What is left of the replies when the connection breaks is the first of them.
LEMMA PrefixShape ==
  ASSUME CometShape, NEW n \in 0..Len(down)
  PROVE  /\ SubSeq(down, 1, n) \in Seq(Answers)
         /\ \A i \in DOMAIN SubSeq(down, 1, n) : i \in DOMAIN down /\ SubSeq(down, 1, n)[i] = down[i]
BY DEF CometShape

LEMMA FailureComet ==
  ASSUME CometShape, Failure
  PROVE  CometShape'
<1>1. <<>> \in Seq(Requests) /\ <<>> \in Seq(Answers) /\ Len(<<>>) <= DedupMax
  BY PushAssumption
<1>2. CASE Break
  <2>1. HandlerEnds /\ up' = <<>> /\ UNCHANGED <<inflight, recent, histVars>>
    BY <1>2 DEF Break
  <2>2. PICK n \in 0..Len(down) : down' = SubSeq(down, 1, n)
    BY <1>2 DEF Break
  <2>3. calls' \subseteq Calls
    BY <2>1, HandlerEndsLoses, LosesShape
  <2> QED
    BY <1>1, <2>1, <2>2, <2>3, PrefixShape DEF CometShape, histVars
<1>3. CASE CometCrash
  <2>1. up' = <<>> /\ calls' = {} /\ inflight' = {} /\ recent' = <<>> /\ UNCHANGED histVars
    BY <1>3 DEF CometCrash
  <2>2. PICK n \in 0..Len(down) : down' = SubSeq(down, 1, n)
    BY <1>3 DEF CometCrash
  <2>3. IsFiniteSet({}) /\ Cardinality({}) <= DedupMax
    BY FS_EmptySet, PushAssumption
  <2> QED
    BY <1>1, <2>1, <2>2, <2>3, PrefixShape DEF CometShape, histVars
<1>4. CASE JobCrash
  <2>1. Abandon(calls) /\ up' = <<>> /\ down' = <<>> /\ UNCHANGED <<inflight, recent, histVars>>
    BY <1>4 DEF JobCrash
  <2>2. calls' \subseteq Calls
    BY <2>1, AbandonLoses, LosesShape
  <2> QED
    BY <1>1, <2>1, <2>2 DEF CometShape, histVars
<1> QED
  BY <1>2, <1>3, <1>4 DEF Failure

LEMMA ShapeStep ==
  ASSUME Shape, [Next]_vars
  PROVE  Shape'
<1>1. ThreadShape'
  BY ThreadShapeStep DEF Shape
<1>2. StreamShape'
  BY StreamShapeStep
<1>3. CometShape'
  <2>1. CASE UNCHANGED vars
    BY <2>1 DEF vars, streamVars, cometVars, histVars, Shape, CometShape
  <2>2. ASSUME NEW t \in Threads, Consumer(t) PROVE CometShape'
    BY <2>2, ConsumerComet DEF Shape
  <2> QED
    BY <2>1, <2>2, WriterComet, ReaderComet, CometStepShape, FailureComet DEF Shape, Next
<1> QED
  BY <1>1, <1>2, <1>3 DEF Shape

\* The types of PushDelivery's state, for every size of the system: no limit is overrun.
THEOREM PushTypes == Spec => []TypeOK
<1>1. Shape => TypeOK
  <2> SUFFICES ASSUME Shape PROVE TypeOK
    OBVIOUS
  <2>1. \A t \in Threads :
          /\ committed[t] \in 0..Len(Topic[t])
          /\ job[t].record \in 1..Len(Topic[t]) + 1 /\ job[t].n \in 1..Attempts
          /\ job[t].u \in 0..UnaryTries /\ job[t].pc \in JobPlaces
    <3>1. \A t \in Threads : Len(Topic[t]) \in Nat
      BY PushAssumption
    <3> QED
      BY <3>1 DEF Shape, ThreadShape, Jobs
  <2>2. /\ done \in [Completions -> {"no", "ok", "failed"}]
        /\ queue \in Seq(Completions) /\ Len(queue) <= QueueMax
        /\ pending \in [Requests -> 0..Attempts]
        /\ writer.pc \in {"idle", "try", "register", "write"} /\ writer.k \in 0..WriteTries
        /\ writer.c \in Completions \cup {None}
        /\ reader.pc \in {"none", "read", "give", "sweep"} /\ reader.c \in Completions \cup {None}
        /\ broken \in BOOLEAN /\ stream \in {"none", "up", "dead"}
    BY DEF Shape, StreamShape, Writers, Readers
  <2>3. /\ up \in Seq(Requests) /\ down \in Seq([req : Requests, st : Replies])
        /\ calls \subseteq [req : Requests, via : Threads \cup {"stream", "lost"},
                            st : Replies \cup {"sent", "begun"}]
        /\ inflight \subseteq Requests /\ Cardinality(inflight) <= DedupMax
        /\ recent \in Seq(Requests) /\ Len(recent) <= DedupMax
        /\ acked \subseteq Requests /\ processed \subseteq Requests /\ delivered \subseteq Requests
    BY DEF Shape, CometShape, Calls, Answers
  <2> QED
    BY <2>1, <2>2, <2>3, Zenon DEF TypeOK, JobPlaces
<1> QED
  BY <1>1, InitShape, ShapeStep, PTL DEF Spec

-----------------------------------------------------------------------------
(* What an answer means wherever it is: on the stream, on its way back to  *)
(* a Unary caller, in the reader's hands, in a settled completion, in the  *)
(* verdict of a callback.                                                  *)

RepliesAreTrue ==
  \A i \in DOMAIN down :
    /\ down[i].st # "busy" => down[i].req \in processed
    /\ down[i].st = "some" => down[i].req \in delivered

AnswersAreTrue ==
  \A c \in calls :
    /\ c.st \in {"some", "nobody"} => c.req \in processed
    /\ c.st = "some" => c.req \in delivered

RecentIsProcessed == \A i \in DOMAIN recent : recent[i] \in processed

Honest == RepliesAreTrue /\ AnswersAreTrue /\ RecentIsProcessed

SettledIsProcessed ==
  /\ \A c \in Completions : done[c] = "ok" => c[1] \in processed
  /\ reader.pc = "give" /\ reader.ok => reader.c[1] \in processed

\* A Unary call that somebody waits for is the one its thread makes for its record.
CallsAreOwned ==
  /\ \A c \in calls : c.via \in Threads => job[c.via].pc = "rpc" /\ c.req = Req(c.via)
  /\ \A c, d \in calls : c.via = d.via /\ c.via \in Threads => c = d

LEMMA HistoryGrows ==
  ASSUME [Next]_vars
  PROVE  processed \subseteq processed' /\ delivered \subseteq delivered'
<1>1. ASSUME NEW t \in Threads, Consumer(t) PROVE UNCHANGED <<processed, delivered>>
  BY <1>1 DEF Consumer, Push, Woken, Timeout, Expire, Call, Answered, RpcFails, Commit, histVars
<1>2. CASE Writer
  BY <1>2 DEF Writer, Dequeue, IdleReconnect, Repair, Register, Write, WriteFails, GiveUp, histVars
<1>3. CASE Reader
  BY <1>3 DEF Reader, Receive, Give, ReaderExits, Sweep, histVars
<1>4. CASE Comet
  <2>1. ASSUME NEW c \in calls, Fanout(c) PROVE processed \subseteq processed' /\ delivered \subseteq delivered'
    BY <2>1 DEF Fanout
  <2>2. ASSUME NEW c \in calls, BeginCall(c) \/ Refuse(c) PROVE UNCHANGED <<processed, delivered>>
    BY <2>2 DEF BeginCall, Refuse, histVars
  <2>3. CASE ReadRequest
    BY <2>3 DEF ReadRequest, histVars
  <2> QED
    BY <1>4, <2>1, <2>2, <2>3 DEF Comet
<1>5. CASE Failure
  BY <1>5 DEF Failure, Break, CometCrash, JobCrash, histVars
<1>6. CASE UNCHANGED vars
  BY <1>6 DEF vars, histVars
<1> QED
  BY <1>1, <1>2, <1>3, <1>4, <1>5, <1>6 DEF Next

\* Calls and replies that are only passed on or lost stay true.
LEMMA LessIsHonest ==
  ASSUME Honest, processed \subseteq processed', delivered \subseteq delivered',
         \A c \in calls' : c \in calls \/ c.st \in {"sent", "begun"},
         \A i \in DOMAIN down' : \E j \in DOMAIN down : down'[i] = down[j],
         recent' = recent \/ recent' = <<>>
  PROVE  Honest'
<1>1. RepliesAreTrue'
  BY DEF Honest, RepliesAreTrue
<1>2. AnswersAreTrue'
  BY DEF Honest, AnswersAreTrue
<1>3. RecentIsProcessed'
  BY DEF Honest, RecentIsProcessed
<1> QED
  BY <1>1, <1>2, <1>3 DEF Honest

\* A true answer added to true ones.
LEMMA AnswerIsHonest ==
  ASSUME CometShape, Honest, processed \subseteq processed', delivered \subseteq delivered',
         NEW s \in SUBSET Calls, \A d \in s : d \in calls \/ d.st = "sent",
         NEW c \in s, NEW reply \in Replies, Answer(c, s, reply),
         reply # "busy" => c.req \in processed', reply = "some" => c.req \in delivered'
  PROVE  RepliesAreTrue' /\ AnswersAreTrue'
<1>0. \A d \in calls' : d \in s \ {c} \/ (d.req = c.req /\ d.st = reply)
  BY AnswerCalls
<1>1. AnswersAreTrue'
  <2> SUFFICES ASSUME NEW d \in calls'
               PROVE  /\ d.st \in {"some", "nobody"} => d.req \in processed'
                      /\ d.st = "some" => d.req \in delivered'
    BY DEF AnswersAreTrue
  <2>1. CASE d \in s \ {c}
    BY <2>1 DEF Honest, AnswersAreTrue
  <2>2. CASE d.req = c.req /\ d.st = reply
    BY <2>2
  <2> QED
    BY <1>0, <2>1, <2>2
<1>2. RepliesAreTrue'
  <2>1. CASE down' = down
    BY <2>1 DEF Honest, RepliesAreTrue
  <2>2. ASSUME NEW a \in Answers, down' = Append(down, a), a.req = c.req, a.st = reply
        PROVE  RepliesAreTrue'
    <3>1. down \in Seq(Answers)
      BY DEF CometShape
    <3>2. \A i \in DOMAIN down' : (i \in DOMAIN down /\ down'[i] = down[i]) \/ down'[i] = a
      BY <2>2, <3>1
    <3> QED
      BY <2>2, <3>2 DEF Honest, RepliesAreTrue
  <2> QED
    BY <2>1, <2>2, AnswerGives
<1> QED
  BY <1>1, <1>2

LEMMA AcceptIsHonest ==
  ASSUME CometShape, Honest, UNCHANGED <<processed, delivered>>,
         NEW s \in SUBSET Calls, \A d \in s : d \in calls \/ d.st = "sent",
         NEW c \in s, Accept(c, s)
  PROVE  Honest'
<1>1. recent' = recent
  BY AcceptGives
<1>2. ASSUME NEW reply \in {"nobody", "busy"}, Answer(c, s, reply), reply = "nobody" => c.req \in Range(recent)
      PROVE  Honest'
  <2>1. reply # "busy" => c.req \in processed'
    BY <1>2 DEF Honest, RecentIsProcessed, Range
  <2> QED
    BY <1>1, <1>2, <2>1, AnswerIsHonest DEF Replies, Honest, RecentIsProcessed
<1>3. CASE /\ \A d \in calls' : d \in s \ {c} \/ d.st = "begun"
           /\ down' = down
  BY <1>1, <1>3, LessIsHonest
<1>4. \/ \E reply \in {"nobody", "busy"} :
           Answer(c, s, reply) /\ (reply = "nobody" => c.req \in Range(recent))
      \/ /\ \A d \in calls' : d \in s \ {c} \/ d.st = "begun"
         /\ down' = down
  <2>1. c \in s /\ s \in SUBSET Calls
    OBVIOUS
  <2> HIDE DEF Honest
  <2> QED
    BY <2>1, AcceptGives, Zenon
<1> QED
  BY <1>2, <1>3, <1>4

LEMMA CometIsHonest ==
  ASSUME CometShape, Honest, processed \subseteq processed', delivered \subseteq delivered', Comet
  PROVE  Honest'
<1>1. calls \in SUBSET Calls
  BY DEF CometShape
<1>2. CASE ReadRequest
  <2>1. up # <<>> /\ Accept(StreamCall, calls \cup {StreamCall}) /\ UNCHANGED histVars
    BY <1>2, Zenon DEF ReadRequest, StreamCall
  <2>2. calls \cup {StreamCall} \in SUBSET Calls /\ StreamCall.st = "sent"
    BY <1>1, <2>1, StreamCallType
  <2>3. UNCHANGED <<processed, delivered>>
    BY <2>1 DEF histVars
  <2> QED
    BY <2>1, <2>2, <2>3, AcceptIsHonest
<1>3. ASSUME NEW c \in calls, BeginCall(c) PROVE Honest'
  <2>1. Accept(c, calls) /\ UNCHANGED <<processed, delivered>>
    BY <1>3 DEF BeginCall, histVars
  <2> QED
    BY <1>1, <2>1, AcceptIsHonest
<1>4. ASSUME NEW c \in calls, Fanout(c) PROVE Honest'
  <2>1. PICK reply \in {"some", "nobody"} :
          /\ Answer(c, calls, reply)
          /\ delivered' = IF reply = "some" THEN delivered \cup {c.req} ELSE delivered
    BY <1>4 DEF Fanout
  <2>2. recent' = Newest(Append(recent, c.req)) /\ processed' = processed \cup {c.req}
    BY <1>4 DEF Fanout
  <2>3. c.req \in Requests /\ reply \in Replies
    BY <1>1 DEF Calls, Replies
  <2>4. RepliesAreTrue' /\ AnswersAreTrue'
    BY <1>1, <2>1, <2>2, <2>3, AnswerIsHonest
  <2>5. recent \in Seq(Requests)
    BY DEF CometShape
  <2>6. \A i \in DOMAIN recent' : recent'[i] = c.req \/ \E j \in DOMAIN recent : recent'[i] = recent[j]
    <3>1. CASE recent' = Append(recent, c.req)
      BY <2>3, <2>5, <3>1
    <3>2. CASE recent # <<>> /\ recent' = Append(Tail(recent), c.req)
      <4>1. /\ Tail(recent) \in Seq(Requests) /\ Len(Tail(recent)) = Len(recent) - 1
            /\ \A i \in 1..Len(Tail(recent)) : Tail(recent)[i] = recent[i + 1]
        BY <2>5, <3>2
      <4>2. \A i \in DOMAIN recent' : recent'[i] = c.req \/ (i \in 1..Len(Tail(recent)) /\ recent'[i] = Tail(recent)[i])
        BY <2>3, <3>2, <4>1
      <4>3. \A i \in 1..Len(Tail(recent)) : i + 1 \in DOMAIN recent
        BY <2>5, <4>1
      <4> QED
        BY <4>1, <4>2, <4>3
    <3> QED
      BY <2>2, <2>3, <3>1, <3>2, NewestShape
  <2>7. RecentIsProcessed'
    BY <2>2, <2>6 DEF Honest, RecentIsProcessed
  <2> QED
    BY <2>4, <2>7 DEF Honest
<1>5. ASSUME NEW c \in calls, Refuse(c) PROVE Honest'
  <2>1. Answer(c, calls, "busy") /\ UNCHANGED <<recent, processed, delivered>>
    BY <1>5 DEF Refuse, histVars
  <2> QED
    BY <1>1, <2>1, AnswerIsHonest DEF Replies, Honest, RecentIsProcessed
<1> QED
  BY <1>2, <1>3, <1>4, <1>5 DEF Comet

\* How the steps outside Comet treat calls and replies: they pass some on and lose the others.
Carries ==
  /\ \A c \in calls' : c \in calls \/ c.st \in {"sent", "begun"}
  /\ \A i \in DOMAIN down' : \E j \in DOMAIN down : down'[i] = down[j]
  /\ recent' = recent \/ recent' = <<>>

LEMMA KeptIsCarried ==
  ASSUME UNCHANGED <<calls, down, recent>>
  PROVE  Carries
BY DEF Carries

LEMMA LosesCarries ==
  ASSUME CometShape, NEW old, Loses(old)
  PROVE  \A c \in calls' : c \in calls \/ c.st \in {"sent", "begun"}
BY DEF Loses

LEMMA ReconnectCarries ==
  ASSUME CometShape, NEW ok, NEW lost, Reconnect(ok, lost), recent' = recent
  PROVE  Carries
<1>1. HandlerEnds /\ down' = <<>>
  BY DEF Reconnect
<1>2. Loses({c \in calls : c.via = "stream"})
  BY <1>1, HandlerEndsLoses
<1> QED
  BY <1>1, <1>2, LosesCarries DEF Carries

LEMMA ConsumerCarries ==
  ASSUME ThreadShape, CometShape, NEW t \in Threads, Consumer(t)
  PROVE  Carries
<1>1. CASE Call(t)
  <2>1. UnaryCall(t).st = "sent"
    BY <1>1, UnaryCallType DEF Call
  <2>2. calls' = calls \cup {UnaryCall(t)} /\ UNCHANGED <<down, recent>>
    BY <1>1 DEF Call, streamVars
  <2> QED
    BY <2>1, <2>2 DEF Carries
<1>2. CASE Answered(t)
  <2>1. calls' \subseteq calls /\ UNCHANGED <<down, recent>>
    BY <1>2 DEF Answered, streamVars
  <2> QED
    BY <2>1 DEF Carries
<1>3. CASE RpcFails(t)
  <2>1. UNCHANGED <<down, recent>>
    BY <1>3 DEF RpcFails, streamVars
  <2>2. Loses({c \in calls : c.via = t})
    BY <1>3, RpcFailsLoses
  <2> QED
    BY <2>1, <2>2, LosesCarries DEF Carries
<1>4. CASE Push(t) \/ Woken(t) \/ Timeout(t) \/ Expire(t) \/ Commit(t)
  <2>1. UNCHANGED <<calls, down, recent>>
    BY <1>4 DEF Push, Woken, Timeout, Expire, Commit, streamVars, cometVars
  <2> QED
    BY <2>1, KeptIsCarried
<1> QED
  BY <1>1, <1>2, <1>3, <1>4 DEF Consumer

LEMMA WriterCarries ==
  ASSUME CometShape, Writer
  PROVE  Carries
<1>1. CASE IdleReconnect \/ Repair
  <2>1. PICK ok \in BOOLEAN : Reconnect(ok, Registered)
    BY <1>1 DEF IdleReconnect, Repair
  <2>2. recent' = recent
    BY <1>1 DEF IdleReconnect, Repair
  <2> QED
    BY <2>1, <2>2, ReconnectCarries
<1>2. CASE WriteFails
  <2>1. recent' = recent
    BY <1>2 DEF WriteFails
  <2>2. CASE done[writer.c] # "no"
    <3>1. UNCHANGED <<calls, down>>
      BY <1>2, <2>2 DEF WriteFails, streamVars
    <3> QED
      BY <2>1, <3>1, KeptIsCarried
  <2>3. CASE done[writer.c] = "no"
    <3>1. PICK ok \in BOOLEAN : Reconnect(ok, Registered \ {writer.c})
      BY <1>2, <2>3 DEF WriteFails
    <3> QED
      BY <2>1, <3>1, ReconnectCarries
  <2> QED
    BY <2>2, <2>3
<1>3. CASE Dequeue \/ Register \/ Write \/ GiveUp
  <2>1. UNCHANGED <<calls, down, recent>>
    BY <1>3 DEF Dequeue, Register, Write, GiveUp, streamVars, cometVars
  <2> QED
    BY <2>1, KeptIsCarried
<1> QED
  BY <1>1, <1>2, <1>3 DEF Writer

LEMMA ReaderCarries ==
  ASSUME CometShape, Reader
  PROVE  Carries
<1>1. CASE Receive
  <2>1. down \in Seq(Answers) /\ down # <<>> /\ down' = Tail(down) /\ UNCHANGED <<calls, recent>>
    BY <1>1 DEF Receive, CometShape, cometVars
  <2>2. \A i \in DOMAIN down' : i + 1 \in DOMAIN down /\ down'[i] = down[i + 1]
    BY <2>1
  <2> QED
    BY <2>1, <2>2 DEF Carries
<1>2. CASE Give \/ ReaderExits \/ Sweep
  <2>1. UNCHANGED <<calls, down, recent>>
    BY <1>2 DEF Give, ReaderExits, Sweep, streamVars, cometVars
  <2> QED
    BY <2>1, KeptIsCarried
<1> QED
  BY <1>1, <1>2 DEF Reader

LEMMA FailureCarries ==
  ASSUME CometShape, Failure
  PROVE  Carries
<1>1. CASE Break
  <2>1. PICK n \in 0..Len(down) : down' = SubSeq(down, 1, n)
    BY <1>1 DEF Break
  <2>2. HandlerEnds /\ recent' = recent
    BY <1>1 DEF Break
  <2>3. Loses({c \in calls : c.via = "stream"})
    BY <2>2, HandlerEndsLoses
  <2> QED
    BY <2>1, <2>2, <2>3, LosesCarries, PrefixShape DEF Carries
<1>2. CASE CometCrash
  <2>1. PICK n \in 0..Len(down) : down' = SubSeq(down, 1, n)
    BY <1>2 DEF CometCrash
  <2>2. calls' = {} /\ recent' = <<>>
    BY <1>2 DEF CometCrash
  <2> QED
    BY <2>1, <2>2, PrefixShape DEF Carries
<1>3. CASE JobCrash
  <2>1. Abandon(calls) /\ down' = <<>> /\ recent' = recent
    BY <1>3 DEF JobCrash
  <2>2. Loses(calls)
    BY <2>1, AbandonLoses
  <2> QED
    BY <2>1, <2>2, LosesCarries DEF Carries
<1> QED
  BY <1>1, <1>2, <1>3 DEF Failure

LEMMA HonestStep ==
  ASSUME Shape, Honest, [Next]_vars
  PROVE  Honest'
<1>1. processed \subseteq processed' /\ delivered \subseteq delivered'
  BY HistoryGrows
<1>2. CASE Comet
  BY <1>1, <1>2, CometIsHonest DEF Shape
<1>3. CASE Carries
  BY <1>1, <1>3, LessIsHonest DEF Carries
<1>4. ASSUME NEW t \in Threads, Consumer(t) PROVE Carries
  BY <1>4, ConsumerCarries DEF Shape
<1>5. UNCHANGED vars => Carries
  BY KeptIsCarried DEF vars, streamVars, cometVars
<1> QED
  BY <1>2, <1>3, <1>4, <1>5, WriterCarries, ReaderCarries, FailureCarries DEF Shape, Next

-----------------------------------------------------------------------------

\* A handler's step leaves the calls with the callers they had.
LEMMA CometKeepsOwners ==
  ASSUME CometShape, CallsAreOwned, Comet
  PROVE  /\ \A c \in calls' : c.via \in Threads =>
              \E d \in calls : d.via = c.via /\ d.req = c.req
         /\ \A c, d \in calls' : c.via = d.via /\ c.via \in Threads => c = d
<1> DEFINE Goal == /\ \A c \in calls' : c.via \in Threads =>
                        \E d \in calls : d.via = c.via /\ d.req = c.req
                   /\ \A c, d \in calls' : c.via = d.via /\ c.via \in Threads => c = d
<1>1. "stream" \notin Threads
  BY PushAssumption
<1>2. ASSUME NEW s \in SUBSET Calls, NEW c \in s, NEW st,
             \A d \in s : d.via \in Threads => d \in calls,
             \A d \in calls' : \/ d \in s \ {c}
                               \/ d \in Calls /\ d.req = c.req /\ d.via = c.via /\ d.st = st
      PROVE  Goal
  <2>1. ASSUME NEW d \in calls', d.via \in Threads
        PROVE  \E e \in calls : e.via = d.via /\ e.req = d.req
    BY <1>2, <2>1
  <2>2. ASSUME NEW d \in calls', NEW e \in calls', d.via = e.via, d.via \in Threads
        PROVE  d = e
    <3>1. CASE d \in s \ {c} /\ e \in s \ {c}
      BY <1>2, <2>2, <3>1 DEF CallsAreOwned
    <3>2. CASE d \in s \ {c} /\ e.via = c.via
      BY <1>2, <2>2, <3>2 DEF CallsAreOwned
    <3>3. CASE d.via = c.via /\ e \in s \ {c}
      BY <1>2, <2>2, <3>3 DEF CallsAreOwned
    <3>4. CASE /\ d \in Calls /\ d.req = c.req /\ d.via = c.via /\ d.st = st
               /\ e \in Calls /\ e.req = c.req /\ e.via = c.via /\ e.st = st
      BY <3>4 DEF Calls
    <3> QED
      BY <1>2, <2>2, <3>1, <3>2, <3>3, <3>4
  <2> QED
    BY <2>1, <2>2
<1>3. ASSUME NEW s \in SUBSET Calls, NEW c \in s, \A d \in s : d.via \in Threads => d \in calls,
             NEW reply \in Replies, Answer(c, s, reply)
      PROVE  Goal
  <2>1. \A d \in calls' : \/ d \in s \ {c}
                          \/ /\ d \in Calls /\ d.req = c.req /\ d.via = c.via /\ d.st = reply
                             /\ c.via \in Threads
    BY <1>3, AnswerGives
  <2>2. \A d \in calls' : \/ d \in s \ {c}
                          \/ d \in Calls /\ d.req = c.req /\ d.via = c.via /\ d.st = reply
    BY <2>1
  <2> HIDE DEF Goal
  <2> QED
    BY <1>2, <1>3, <2>2
<1>4. ASSUME NEW s \in SUBSET Calls, NEW c \in s, \A d \in s : d.via \in Threads => d \in calls,
             Accept(c, s)
      PROVE  Goal
  <2>1. CASE \E reply \in {"nobody", "busy"} : Answer(c, s, reply)
    <3> HIDE DEF Goal
    <3> QED
      BY <1>3, <1>4, <2>1 DEF Replies
  <2>2. CASE \A d \in calls' : \/ d \in s \ {c}
                               \/ d \in Calls /\ d.req = c.req /\ d.via = c.via /\ d.st = "begun"
    <3> HIDE DEF Goal
    <3> QED
      BY <1>2, <1>4, <2>2
  <2>3. \/ \E reply \in {"nobody", "busy"} :
                 /\ Answer(c, s, reply) /\ inflight' = inflight
                 /\ reply = "nobody" => c.req \in Range(recent)
        \/ \A d \in calls' : \/ d \in s \ {c}
                             \/ d \in Calls /\ d.req = c.req /\ d.via = c.via /\ d.st = "begun"
    BY <1>4, AcceptGives
  <2> HIDE DEF Goal
  <2> QED
    BY <2>1, <2>2, <2>3
<1>5. calls \in SUBSET Calls
  BY DEF CometShape
<1>6. ASSUME ReadRequest PROVE Goal
  <2> DEFINE s == calls \cup {StreamCall}
  <2>1. up # <<>> /\ Accept(StreamCall, s)
    BY <1>6, Zenon DEF ReadRequest, StreamCall
  <2>2. s \in SUBSET Calls /\ StreamCall \in s /\ \A d \in s : d.via \in Threads => d \in calls
    BY <1>1, <1>5, <2>1, StreamCallType
  <2> HIDE DEF Goal, s
  <2> QED
    BY <1>4, <2>1, <2>2
<1>7. ASSUME NEW c \in calls, BeginCall(c) \/ Fanout(c) \/ Refuse(c) PROVE Goal
  <2>1. Accept(c, calls) \/ \E reply \in Replies : Answer(c, calls, reply)
    BY <1>7 DEF BeginCall, Fanout, Refuse, Replies
  <2> HIDE DEF Goal
  <2> QED
    BY <1>3, <1>4, <1>5, <2>1
<1> HIDE DEF Goal
<1>8. Goal
  BY <1>6, <1>7 DEF Comet
<1> QED
  BY <1>8 DEF Goal

\* Whoever waits for a Unary call still does, when the jobs and the topics stay as they are.
LEMMA OwnersKept ==
  ASSUME CallsAreOwned, job' = job,
         \A c \in calls' : c.via \in Threads => \E d \in calls : d.via = c.via /\ d.req = c.req,
         \A c, d \in calls' : c.via = d.via /\ c.via \in Threads => c = d
  PROVE  CallsAreOwned'
<1>1. \A t \in Threads : Req(t)' = Req(t)
  BY DEF Req
<1> QED
  BY <1>1 DEF CallsAreOwned

LEMMA LosesKeepsOwners ==
  ASSUME CometShape, CallsAreOwned, NEW old, Loses(old), job' = job
  PROVE  CallsAreOwned'
<1>1. "lost" \notin Threads
  BY PushAssumption
<1>2. \A c \in calls' : c.via \in Threads => c \in calls
  BY <1>1 DEF Loses
<1> QED
  BY <1>2, OwnersKept DEF CallsAreOwned

LEMMA ConsumerOwns ==
  ASSUME ThreadShape, CometShape, CallsAreOwned, NEW t \in Threads, Consumer(t)
  PROVE  CallsAreOwned'
<1>1. ASSUME NEW u \in Threads \ {t} PROVE job'[u] = job[u] /\ Req(u)' = Req(u)
  <2>1. job'[u] = job[u]
    BY ConsumerMoves DEF Moves, Commit, ThreadShape
  <2> QED
    BY <2>1 DEF Req
<1>2. "lost" \notin Threads
  BY PushAssumption
<1>3. CASE Call(t)
  <2>1. /\ UnaryCall(t).req = Req(t) /\ UnaryCall(t).via = t
        /\ calls' = calls \cup {UnaryCall(t)} /\ job[t].pc = "unary"
    BY <1>3, UnaryCallType DEF Call
  <2>2. \A c \in calls : c.via # t
    BY <2>1 DEF CallsAreOwned
  <2>3. job[t].n \in 1..Attempts /\ job[t].u \in 0..UnaryTries /\ Go(t, job[t].n, "rpc", job[t].u)
    BY <1>3 DEF Call, ThreadShape, Jobs
  <2>4. job'[t].pc = "rpc" /\ job'[t].record = job[t].record
    BY <2>3, GoMoves DEF Moves, JobPlaces
  <2>5. Req(t)' = Req(t)
    BY <2>4 DEF Req
  <2> QED
    BY <1>1, <2>1, <2>2, <2>4, <2>5 DEF CallsAreOwned
<1>4. ASSUME \A c \in calls' : c.via \in Threads => c \in calls /\ c.via # t
      PROVE  CallsAreOwned'
  BY <1>1, <1>4 DEF CallsAreOwned
<1>5. CASE Answered(t)
  <2>1. PICK c \in calls : c.via = t /\ calls' = calls \ {c}
    BY <1>5 DEF Answered
  <2>2. \A d \in calls' : d.via # t /\ d \in calls
    BY <2>1 DEF CallsAreOwned
  <2> QED
    BY <1>4, <2>2
<1>6. CASE RpcFails(t)
  <2>1. Loses({c \in calls : c.via = t})
    BY <1>6, RpcFailsLoses
  <2> QED
    BY <1>2, <1>4, <2>1 DEF Loses
<1>7. CASE Push(t) \/ Woken(t) \/ Timeout(t) \/ Expire(t) \/ Commit(t)
  <2>1. calls' = calls /\ job[t].pc # "rpc"
    BY <1>7 DEF Push, Woken, Timeout, Expire, Commit, cometVars
  <2> QED
    BY <1>4, <2>1 DEF CallsAreOwned
<1> QED
  BY <1>3, <1>5, <1>6, <1>7 DEF Consumer

LEMMA CallsAreOwnedStep ==
  ASSUME Shape, CallsAreOwned, [Next]_vars
  PROVE  CallsAreOwned'
<1>1. ThreadShape /\ StreamShape /\ CometShape
  BY DEF Shape
<1>2. ASSUME calls' = calls, job' = job PROVE CallsAreOwned'
  BY <1>2, OwnersKept DEF CallsAreOwned
<1>3. ASSUME NEW ok, NEW lost, Reconnect(ok, lost), job' = job PROVE CallsAreOwned'
  <2>1. Loses({c \in calls : c.via = "stream"})
    BY <1>1, <1>3, HandlerEndsLoses DEF Reconnect
  <2> QED
    BY <1>1, <1>3, <2>1, LosesKeepsOwners
<1>4. ASSUME NEW t \in Threads, Consumer(t) PROVE CallsAreOwned'
  BY <1>1, <1>4, ConsumerOwns
<1>5. CASE Writer
  <2>1. job' = job
    BY <1>5, OthersLeaveJobs
  <2>2. (\E ok, lost : Reconnect(ok, lost)) \/ calls' = calls
    BY <1>5, Zenon DEF Writer, Dequeue, IdleReconnect, Repair, Register, Write, WriteFails, GiveUp, cometVars
  <2> QED
    BY <1>2, <1>3, <2>1, <2>2
<1>6. CASE Reader
  <2>1. job' = job /\ calls' = calls
    BY <1>6 DEF Reader, Receive, Give, ReaderExits, Sweep, cometVars
  <2> QED
    BY <1>2, <2>1
<1>7. CASE Comet
  BY <1>1, <1>7, CometKeepsOwners, OwnersKept, OthersLeaveJobs
<1>8. CASE Break
  <2>1. Loses({c \in calls : c.via = "stream"})
    BY <1>1, <1>8, HandlerEndsLoses DEF Break
  <2> QED
    BY <1>1, <1>8, <2>1, LosesKeepsOwners, OthersLeaveJobs
<1>9. CASE CometCrash
  <2>1. calls' = {}
    BY <1>9 DEF CometCrash
  <2> QED
    BY <2>1 DEF CallsAreOwned
<1>10. CASE JobCrash
  <2>1. Loses(calls)
    BY <1>1, <1>10, AbandonLoses DEF JobCrash
  <2>2. \A c \in calls' : c.via \notin Threads
    BY <2>1, PushAssumption DEF Loses
  <2> QED
    BY <2>2 DEF CallsAreOwned
<1>11. CASE UNCHANGED vars
  BY <1>2, <1>11 DEF vars, jobVars, cometVars
<1> QED
  BY <1>4, <1>5, <1>6, <1>7, <1>8, <1>9, <1>10, <1>11 DEF Next, Failure

-----------------------------------------------------------------------------

\* Completions are settled "ok" by the reader alone, with a reply in its hands.
LEMMA SettledKept ==
  ASSUME SettledIsProcessed, processed \subseteq processed', done' = done, reader' = reader
  PROVE  SettledIsProcessed'
BY DEF SettledIsProcessed

LEMMA SettledFewer ==
  ASSUME SettledIsProcessed, processed \subseteq processed',
         \A c \in Completions : done'[c] = done[c] \/ done'[c] = "failed",
         reader'.pc # "give" \/ reader' = reader
  PROVE  SettledIsProcessed'
BY DEF SettledIsProcessed

LEMMA SettledStep ==
  ASSUME Shape, Honest, SettledIsProcessed, [Next]_vars
  PROVE  SettledIsProcessed'
<1>1. processed \subseteq processed'
  BY HistoryGrows
<1>2. ThreadShape /\ StreamShape /\ CometShape
  BY DEF Shape
<1>3. ASSUME NEW t \in Threads, Consumer(t) PROVE SettledIsProcessed'
  <2>1. CASE Expire(t)
    <3>1. Completion(t) \in Completions
      BY <1>2, <2>1, Working DEF ThreadShape, Expire
    <3>2. Settle(Completion(t), "failed") /\ reader' = reader
      BY <2>1 DEF Expire
    <3> HIDE DEF Completion, Completions
    <3> QED
      BY <1>1, <1>2, <3>1, <3>2, SettleOnce, SettledFewer
  <2>2. CASE ~Expire(t)
    <3>1. done' = done /\ reader' = reader
      BY <1>3, <2>2 DEF Consumer, Push, Woken, Timeout, Call, Answered, RpcFails, Commit
    <3> QED
      BY <1>1, <3>1, SettledKept
  <2> QED
    BY <2>1, <2>2
<1>4. CASE Writer
  <2>1. ASSUME NEW ok \in BOOLEAN, NEW lost, Reconnect(ok, lost) PROVE SettledIsProcessed'
    BY <1>1, <1>2, <2>1, ReconnectShape, SettledFewer
  <2>2. CASE IdleReconnect \/ Repair
    BY <2>1, <2>2 DEF IdleReconnect, Repair
  <2>3. CASE WriteFails
    <3>1. CASE done[writer.c] # "no"
      <4>1. done' = done /\ reader' = reader
        BY <2>3, <3>1 DEF WriteFails
      <4> QED
        BY <1>1, <4>1, SettledKept
    <3>2. CASE done[writer.c] = "no"
      BY <2>1, <2>3, <3>2 DEF WriteFails
    <3> QED
      BY <3>1, <3>2
  <2>4. CASE GiveUp
    <3>1. writer.c \in Completions /\ Settle(writer.c, "failed") /\ reader' = reader
      BY <1>2, <2>4 DEF GiveUp, StreamShape
    <3> QED
      BY <1>1, <1>2, <3>1, SettleOnce, SettledFewer
  <2>5. CASE Dequeue \/ Register \/ Write
    <3>1. done' = done /\ reader' = reader
      BY <2>5 DEF Dequeue, Register, Write
    <3> QED
      BY <1>1, <3>1, SettledKept
  <2> QED
    BY <1>4, <2>2, <2>3, <2>4, <2>5 DEF Writer
<1>5. CASE Receive
  <2> DEFINE r == Head(down).req
             reply == Head(down).st
  <2>1. done' = done
    BY <1>5 DEF Receive
  <2>2. CASE pending[r] = 0
    <3>1. reader' = reader
      BY <1>5, <2>2 DEF Receive
    <3> QED
      BY <1>1, <2>1, <3>1, SettledKept
  <2>3. CASE pending[r] # 0
    <3>1. reader' = [pc |-> "give", c |-> <<r, pending[r]>>, ok |-> Ok(reply)]
      BY <1>5, <2>3 DEF Receive
    <3>2. 1 \in DOMAIN down /\ Head(down) = down[1]
      BY <1>2, <1>5 DEF Receive, CometShape
    <3>3. Ok(reply) => r \in processed
      BY <3>2 DEF Honest, RepliesAreTrue, Ok
    <3> HIDE DEF r, reply
    <3>4. reader'.ok = Ok(reply) /\ reader'.c[1] = r
      BY <3>1
    <3> QED
      BY <1>1, <2>1, <3>3, <3>4 DEF SettledIsProcessed
  <2> QED
    BY <2>2, <2>3
<1>6. CASE Give
  <2>1. /\ reader.c \in Completions /\ reader.pc = "give" /\ reader' = Reading
        /\ Settle(reader.c, IF reader.ok THEN "ok" ELSE "failed")
    BY <1>2, <1>6 DEF Give, StreamShape
  <2>2. reader'.pc # "give"
    BY <2>1, ReaderPlaces
  <2>3. CASE reader.ok
    <3>1. Settle(reader.c, "ok")
      BY <2>1, <2>3
    <3>2. reader.c[1] \in processed
      BY <2>1, <2>3 DEF SettledIsProcessed
    <3>3. \A d \in Completions : done'[d] = done[d] \/ d = reader.c
      BY <1>2, <2>1, <3>1, SettleOnce
    <3> QED
      BY <1>1, <2>2, <3>2, <3>3 DEF SettledIsProcessed
  <2>4. CASE ~reader.ok
    <3>1. Settle(reader.c, "failed")
      BY <2>1, <2>4
    <3> QED
      BY <1>1, <1>2, <2>1, <2>2, <3>1, SettleOnce, SettledFewer
  <2> QED
    BY <2>3, <2>4
<1>7. CASE ReaderExits
  <2>1. done' = done /\ reader'.pc # "give"
    BY <1>7 DEF ReaderExits
  <2> QED
    BY <1>1, <2>1 DEF SettledIsProcessed
<1>8. CASE Sweep
  <2>1. Fail(Registered) /\ reader' = Away
    BY <1>8 DEF Sweep
  <2> QED
    BY <1>1, <1>2, <2>1, FailShape, ReaderPlaces, SettledFewer
<1>9. CASE JobCrash
  <2>1. done' = [c \in Completions |-> "no"] /\ reader' = Reading
    BY <1>9 DEF JobCrash
  <2> QED
    BY <2>1, ReaderPlaces DEF SettledIsProcessed
<1>10. CASE Comet \/ Break \/ CometCrash \/ UNCHANGED vars
  <2>1. done' = done /\ reader' = reader
    BY <1>10 DEF Comet, ReadRequest, BeginCall, Fanout, Refuse, Break, CometCrash, vars, jobVars
  <2> QED
    BY <1>1, <2>1, SettledKept
<1> QED
  BY <1>3, <1>4, <1>5, <1>6, <1>7, <1>8, <1>9, <1>10 DEF Next, Reader, Failure

LEMMA HandledStep ==
  ASSUME Shape, Honest, SettledIsProcessed, CallsAreOwned, HandledIsProcessed, [Next]_vars
  PROVE  HandledIsProcessed'
<1>1. processed \subseteq processed'
  BY HistoryGrows
<1>2. ThreadShape /\ StreamShape /\ CometShape
  BY DEF Shape
<1>3. ASSUME job' = job PROVE HandledIsProcessed'
  BY <1>1, <1>3 DEF HandledIsProcessed, Req
<1>4. ASSUME NEW t \in Threads, Moves(t), job'[t].pc = "handled" => Req(t) \in processed
      PROVE  HandledIsProcessed'
  <2>1. \A u \in Threads : Req(u)' = Req(u)
    BY <1>4 DEF Moves, Req
  <2> QED
    BY <1>1, <1>4, <2>1 DEF Moves, HandledIsProcessed
<1>5. ASSUME NEW t \in Threads, Woken(t) PROVE HandledIsProcessed'
  <2>1. CASE done[Completion(t)] = "ok"
    <3>1. Completion(t) \in Completions /\ Completion(t)[1] = Req(t)
      BY <1>2, <1>5, Working DEF ThreadShape, Woken, Completion
    <3>2. Req(t) \in processed
      BY <2>1, <3>1 DEF SettledIsProcessed
    <3>3. Return(t, TRUE)
      BY <1>5, <2>1 DEF Woken
    <3> QED
      BY <1>2, <1>4, <3>2, <3>3, ReturnMoves
  <2>2. CASE done[Completion(t)] # "ok"
    <3>1. GoUnary(t)
      BY <1>5, <2>2 DEF Woken
    <3> QED
      BY <1>2, <1>4, <3>1, GoUnaryMoves
  <2> QED
    BY <2>1, <2>2
<1>6. ASSUME NEW t \in Threads, Answered(t) PROVE HandledIsProcessed'
  <2>1. PICK c \in calls : /\ c.via = t /\ c.st \in Replies
                           /\ IF Ok(c.st) THEN Return(t, TRUE) ELSE UnaryFailed(t)
    BY <1>6 DEF Answered
  <2>2. CASE Ok(c.st)
    <3>1. c.req = Req(t) /\ c.req \in processed
      BY <2>1, <2>2 DEF CallsAreOwned, Honest, AnswersAreTrue, Ok, Replies
    <3> QED
      BY <1>2, <1>4, <2>1, <2>2, <3>1, ReturnMoves
  <2>3. CASE ~Ok(c.st)
    BY <1>2, <1>4, <2>1, <2>3, UnaryFailedMoves
  <2> QED
    BY <2>2, <2>3
<1>7. ASSUME NEW t \in Threads, Commit(t) PROVE HandledIsProcessed'
  <2>1. job' = [job EXCEPT ![t] = Start(job[t].record + 1)] /\ job[t].record \in Nat
    BY <1>2, <1>7 DEF Commit, ThreadShape, Jobs
  <2>2. Start(job[t].record + 1).pc = "push"
    BY <2>1, StartIsJob
  <2>3. \A u \in Threads : job'[u].pc = "handled" => u # t /\ job'[u] = job[u]
    BY <1>2, <2>1, <2>2 DEF ThreadShape
  <2> QED
    BY <1>1, <2>3 DEF HandledIsProcessed, Req
<1>8. ASSUME NEW t \in Threads, Push(t) \/ Timeout(t) \/ Expire(t) \/ Call(t) \/ RpcFails(t)
      PROVE  HandledIsProcessed'
  <2>1. job[t].n \in 1..Attempts /\ job[t].u \in 0..UnaryTries /\ 0 \in 0..UnaryTries
    BY <1>2, PushAssumption DEF ThreadShape, Jobs
  <2>2. \/ GoUnary(t) \/ UnaryFailed(t)
        \/ Go(t, job[t].n, "wait", 0) \/ Go(t, job[t].n, "expire", 0) \/ Go(t, job[t].n, "rpc", job[t].u)
    BY <1>8 DEF Push, Timeout, Expire, Call, RpcFails
  <2>3. Moves(t) /\ job'[t].pc # "handled"
    BY <1>2, <2>1, <2>2, GoUnaryMoves, UnaryFailedMoves, GoMoves DEF JobPlaces
  <2> QED
    BY <1>4, <2>3
<1>9. CASE JobCrash
  <2>1. \A t \in Threads : job'[t] = Start(committed[t] + 1) /\ committed[t] + 1 \in Nat \ {0}
    BY <1>2, <1>9 DEF JobCrash, Fresh, ThreadShape
  <2>2. \A t \in Threads : job'[t].pc = "push"
    BY <2>1, StartIsJob
  <2> QED
    BY <2>2 DEF HandledIsProcessed
<1>10. UNCHANGED vars => job' = job
  BY DEF vars, jobVars
<1> QED
  BY <1>3, <1>5, <1>6, <1>7, <1>8, <1>9, <1>10, OthersLeaveJobs DEF Next, Consumer, Failure

\* Acks go out for replies that name a client: of the stream, and of Unary calls.
LEMMA AckedStep ==
  ASSUME Shape, Honest, AckedIsDelivered, [Next]_vars
  PROVE  AckedIsDelivered'
<1>1. delivered \subseteq delivered'
  BY HistoryGrows
<1>2. ASSUME acked' = acked PROVE AckedIsDelivered'
  BY <1>1, <1>2 DEF AckedIsDelivered
<1>3. CASE Receive
  <2>1. Head(down) = down[1] /\ 1 \in DOMAIN down
    BY <1>3 DEF Receive, Shape, CometShape
  <2>2. acked' = acked \/ AckIf(Head(down).req, Head(down).st)
    BY <1>3 DEF Receive
  <2>3. Head(down).st = "some" => Head(down).req \in delivered
    BY <2>1 DEF Honest, RepliesAreTrue
  <2> QED
    BY <1>1, <2>2, <2>3 DEF AckIf, AckedIsDelivered
<1>4. ASSUME NEW t \in Threads, Answered(t) PROVE AckedIsDelivered'
  <2>1. PICK c \in calls : AckIf(c.req, c.st)
    BY <1>4 DEF Answered
  <2>2. c.st = "some" => c.req \in delivered
    BY DEF Honest, AnswersAreTrue
  <2> QED
    BY <1>1, <2>1, <2>2 DEF AckIf, AckedIsDelivered
<1>5. ASSUME NEW t \in Threads, Consumer(t), ~Answered(t) PROVE acked' = acked
  BY <1>5 DEF Consumer, Push, Woken, Timeout, Expire, Call, RpcFails, Commit, histVars
<1>6. CASE Writer
  BY <1>2, <1>6 DEF Writer, Dequeue, IdleReconnect, Repair, Register, Write, WriteFails, GiveUp, histVars
<1>7. CASE Give \/ ReaderExits \/ Sweep
  BY <1>2, <1>7 DEF Give, ReaderExits, Sweep, histVars
<1>8. CASE Comet
  BY <1>2, <1>8 DEF Comet, ReadRequest, BeginCall, Fanout, Refuse, histVars
<1>9. CASE Failure
  BY <1>2, <1>9 DEF Failure, Break, CometCrash, JobCrash, histVars
<1>10. CASE UNCHANGED vars
  BY <1>2, <1>10 DEF vars, histVars
<1> QED
  BY <1>2, <1>3, <1>4, <1>5, <1>6, <1>7, <1>8, <1>9, <1>10 DEF Next, Reader

\* the inductive invariant behind the meaning of an answer
Meaning ==
  /\ Shape /\ Honest /\ SettledIsProcessed /\ CallsAreOwned
  /\ HandledIsProcessed /\ AckedIsDelivered

LEMMA MeaningInvariant == Spec => []Meaning
<1>1. Init => Meaning
  <2> SUFFICES ASSUME Init PROVE Meaning
    OBVIOUS
  <2>1. Shape
    BY InitShape
  <2>2. Honest /\ CallsAreOwned /\ AckedIsDelivered
    BY DEF Init, Honest, RepliesAreTrue, AnswersAreTrue, RecentIsProcessed, CallsAreOwned, AckedIsDelivered
  <2>3. SettledIsProcessed
    BY ReaderPlaces DEF Init, SettledIsProcessed
  <2>4. \A t \in Threads : job[t].pc = "push"
    BY StartIsJob DEF Init, Fresh
  <2>5. HandledIsProcessed
    BY <2>4 DEF HandledIsProcessed
  <2> QED
    BY <2>1, <2>2, <2>3, <2>5 DEF Meaning
<1>2. Meaning /\ [Next]_vars => Meaning'
  BY ShapeStep, HonestStep, SettledStep, CallsAreOwnedStep, HandledStep, AckedStep DEF Meaning
<1> QED
  BY <1>1, <1>2, PTL DEF Spec

\* A record is committed as handled only if some Comet completed its fan-out, for any number of
\* consumers, requests, attempts and faults.
THEOREM HandledWasProcessed == Spec => []HandledIsProcessed
<1>1. Meaning => HandledIsProcessed
  BY DEF Meaning
<1> QED
  BY <1>1, MeaningInvariant, PTL

\* delivered_ack is sent only of a message that reached a client.
THEOREM AckedWasDelivered == Spec => []AckedIsDelivered
<1>1. Meaning => AckedIsDelivered
  BY DEF Meaning
<1> QED
  BY <1>1, MeaningInvariant, PTL

-----------------------------------------------------------------------------
(* Comet works on a request once, and remembers it afterwards.             *)

BegunOnce == \A c, d \in calls : c.st = "begun" /\ d.st = "begun" /\ c.req = d.req => c = d

InFlightHasHandler == \A r : r \in inflight <=> \E c \in calls : c.st = "begun" /\ c.req = r

\* the inductive invariant: a request is in flight under one handler or among the completed
\* ones, never both, and completed once
Singly ==
  /\ BegunOnce /\ InFlightHasHandler
  /\ \A i \in DOMAIN recent : recent[i] \notin inflight
  /\ FannedOutOnce

\* The handlers at work are the same ones, or go on without a caller.
SameHandlers ==
  /\ \A c \in calls' : c.st = "begun" => \E d \in calls : d.st = "begun" /\ d.req = c.req
  /\ \A d \in calls : d.st = "begun" => \E c \in calls' : c.st = "begun" /\ c.req = d.req
  /\ BegunOnce'

LEMMA SameHandlersSingly ==
  ASSUME Singly, SameHandlers, UNCHANGED <<inflight, recent>>
  PROVE  Singly'
<1>1. InFlightHasHandler'
  BY DEF Singly, InFlightHasHandler, SameHandlers
<1> QED
  BY <1>1 DEF Singly, SameHandlers, FannedOutOnce

LEMMA LosesHandlers ==
  ASSUME CometShape, BegunOnce, NEW old \in SUBSET calls, Loses(old)
  PROVE  SameHandlers
<1>1. ASSUME NEW c \in calls', NEW d \in calls', c.st = "begun", d.st = "begun", c.req = d.req
      PROVE  c = d
  <2>1. CASE c \in calls \ old /\ d \in calls \ old
    BY <1>1, <2>1 DEF BegunOnce
  <2>2. CASE c \in calls \ old /\ d \notin calls \ old
    <3>1. PICK e \in old : e.st = "begun" /\ e.req = d.req
      BY <1>1, <2>2 DEF Loses
    <3> QED
      BY <1>1, <2>2, <3>1 DEF BegunOnce
  <2>3. CASE c \notin calls \ old /\ d \in calls \ old
    <3>1. PICK e \in old : e.st = "begun" /\ e.req = c.req
      BY <1>1, <2>3 DEF Loses
    <3> QED
      BY <1>1, <2>3, <3>1 DEF BegunOnce
  <2>4. CASE c \notin calls \ old /\ d \notin calls \ old
    <3>1. c \in Calls /\ c.via = "lost" /\ d \in Calls /\ d.via = "lost"
      BY <2>4 DEF Loses
    <3> QED
      BY <1>1, <3>1 DEF Calls
  <2> QED
    BY <2>1, <2>2, <2>3, <2>4
<1>2. \A c \in calls' : c.st = "begun" => \E d \in calls : d.st = "begun" /\ d.req = c.req
  BY DEF Loses
<1>3. \A d \in calls : d.st = "begun" => \E c \in calls' : c.st = "begun" /\ c.req = d.req
  BY DEF Loses
<1> QED
  BY <1>1, <1>2, <1>3 DEF SameHandlers, BegunOnce

\* A call that is not at work is answered.
LEMMA AnswerHandlers ==
  ASSUME CometShape, BegunOnce, NEW s \in SUBSET Calls, NEW c \in s, NEW reply \in Replies,
         Answer(c, s, reply), c.st = "sent", calls \subseteq s,
         \A d \in s : d \in calls \/ d.st = "sent"
  PROVE  SameHandlers
<1>1. \A d \in calls' : d \in s \ {c} \/ (d.req = c.req /\ d.st = reply)
  BY AnswerCalls
<1>2. s \ {c} \subseteq calls'
  BY AnswerGives
<1>3. \A d \in calls' : d.st = "begun" => d \in calls
  BY <1>1 DEF Replies
<1>4. \A d \in calls : d.st = "begun" => d \in calls'
  BY <1>2
<1> QED
  BY <1>3, <1>4 DEF SameHandlers, BegunOnce

LEMMA AcceptSingly ==
  ASSUME CometShape, Singly, NEW s \in SUBSET Calls, NEW c \in s, Accept(c, s),
         c.st = "sent", calls \subseteq s, \A d \in s : d \in calls \/ d.st = "sent"
  PROVE  Singly'
<1>1. CASE \E reply \in {"nobody", "busy"} : Answer(c, s, reply) /\ inflight' = inflight
  <2>1. recent' = recent
    BY AcceptGives
  <2>2. BegunOnce
    BY DEF Singly
  <2> QED
    BY <1>1, <2>1, <2>2, AnswerHandlers, SameHandlersSingly DEF Replies
<1>2. ASSUME \A d \in calls' : \/ d \in s \ {c}
                               \/ d \in Calls /\ d.req = c.req /\ d.via = c.via /\ d.st = "begun",
             s \ {c} \subseteq calls', \E d \in calls' : d.req = c.req /\ d.st = "begun",
             inflight' = inflight \cup {c.req}, c.req \notin inflight, c.req \notin Range(recent)
      PROVE  Singly'
  <2>1. recent' = recent
    BY AcceptGives
  <2>2. \A d \in calls : d.st = "begun" => d \in calls' /\ d.req # c.req
    BY <1>2 DEF Singly, InFlightHasHandler
  <2>3. \A d \in calls' : d.st = "begun" =>
          \/ d \in calls
          \/ d \in Calls /\ d.req = c.req /\ d.via = c.via
    BY <1>2
  <2>4. BegunOnce'
    <3> SUFFICES ASSUME NEW d \in calls', NEW e \in calls', d.st = "begun", e.st = "begun", d.req = e.req
                 PROVE  d = e
      BY DEF BegunOnce
    <3>1. CASE d \in calls /\ e \in calls
      BY <3>1 DEF Singly, BegunOnce
    <3>2. CASE d \notin calls /\ e \notin calls
      BY <2>3, <3>2 DEF Calls
    <3> QED
      BY <2>2, <2>3, <3>1, <3>2
  <2>5. InFlightHasHandler'
    <3>1. \A r : r \in inflight' => \E d \in calls' : d.st = "begun" /\ d.req = r
      BY <1>2, <2>2 DEF Singly, InFlightHasHandler
    <3>2. \A d \in calls' : d.st = "begun" => d.req \in inflight'
      BY <1>2, <2>3 DEF Singly, InFlightHasHandler
    <3> QED
      BY <3>1, <3>2 DEF InFlightHasHandler
  <2>6. \A i \in DOMAIN recent' : recent'[i] \notin inflight'
    BY <1>2, <2>1 DEF Singly, Range
  <2> QED
    BY <2>1, <2>4, <2>5, <2>6 DEF Singly, FannedOutOnce
<1>3. \/ \E reply \in {"nobody", "busy"} :
           /\ Answer(c, s, reply) /\ inflight' = inflight
           /\ reply = "nobody" => c.req \in Range(recent)
      \/ /\ \A d \in calls' : \/ d \in s \ {c}
                              \/ d \in Calls /\ d.req = c.req /\ d.via = c.via /\ d.st = "begun"
         /\ s \ {c} \subseteq calls' /\ \E d \in calls' : d.req = c.req /\ d.st = "begun"
         /\ inflight' = inflight \cup {c.req} /\ c.req \notin inflight /\ c.req \notin Range(recent)
  BY AcceptGives
<1> QED
  BY <1>1, <1>2, <1>3

\* A handler ends: its request is not in flight any more.
LEMMA EndsHandler ==
  ASSUME CometShape, Singly, NEW c \in calls, c.st = "begun", NEW reply \in Replies,
         Answer(c, calls, reply), inflight' = inflight \ {c.req}
  PROVE  BegunOnce' /\ InFlightHasHandler'
<1>1. calls \in SUBSET Calls
  BY DEF CometShape
<1>2. \A d \in calls' : d \in calls \ {c} \/ (d.req = c.req /\ d.st = reply)
  BY <1>1, AnswerCalls
<1>3. calls \ {c} \subseteq calls'
  BY <1>1, AnswerGives
<1>4. \A d \in calls' : d.st = "begun" => d \in calls /\ d # c
  BY <1>2 DEF Replies
<1>5. \A d \in calls : d.st = "begun" /\ d # c => d \in calls' /\ d.req # c.req
  BY <1>3 DEF Singly, BegunOnce
<1>6. BegunOnce'
  BY <1>4 DEF Singly, BegunOnce
<1>7. InFlightHasHandler'
  <2>1. \A r : r \in inflight' => \E d \in calls' : d.st = "begun" /\ d.req = r
    <3> SUFFICES ASSUME NEW r, r \in inflight'
                 PROVE  \E d \in calls' : d.st = "begun" /\ d.req = r
      OBVIOUS
    <3>1. r \in inflight /\ r # c.req
      OBVIOUS
    <3>2. PICK d \in calls : d.st = "begun" /\ d.req = r
      BY <3>1 DEF Singly, InFlightHasHandler
    <3> QED
      BY <1>5, <3>1, <3>2
  <2>2. \A d \in calls' : d.st = "begun" => d.req \in inflight'
    BY <1>4, <1>5 DEF Singly, InFlightHasHandler
  <2> QED
    BY <2>1, <2>2 DEF InFlightHasHandler
<1> QED
  BY <1>6, <1>7

\* A request that was not among the completed ones is added to them.
LEMMA AppendOnce ==
  ASSUME NEW q \in Seq(Requests), NEW r \in Requests, IsInjective(q), \A i \in DOMAIN q : q[i] # r
  PROVE  /\ IsInjective(Append(q, r))
         /\ \A i \in DOMAIN Append(q, r) : Append(q, r)[i] = r \/ \E j \in DOMAIN q : Append(q, r)[i] = q[j]
<1>1. /\ DOMAIN Append(q, r) = 1..(Len(q) + 1) /\ DOMAIN q = 1..Len(q) /\ Len(q) \in Nat
      /\ \A i \in 1..Len(q) : Append(q, r)[i] = q[i]
      /\ Append(q, r)[Len(q) + 1] = r
  OBVIOUS
<1> DEFINE a == Append(q, r)
<1>2. \A i \in DOMAIN a : i \in DOMAIN q \/ i = Len(q) + 1
  BY <1>1
<1>3. \A i \in DOMAIN q : a[i] = q[i]
  BY <1>1
<1>4. a[Len(q) + 1] = r
  BY <1>1
<1> HIDE DEF a
<1>5. IsInjective(a)
  BY <1>2, <1>3, <1>4 DEF IsInjective
<1>6. \A i \in DOMAIN a : a[i] = r \/ \E j \in DOMAIN q : a[i] = q[j]
  BY <1>2, <1>3, <1>4
<1> QED
  BY <1>5, <1>6 DEF a

LEMMA TailOnce ==
  ASSUME NEW q \in Seq(Requests), q # <<>>, IsInjective(q)
  PROVE  /\ Tail(q) \in Seq(Requests) /\ IsInjective(Tail(q))
         /\ \A i \in DOMAIN Tail(q) : \E j \in DOMAIN q : Tail(q)[i] = q[j]
<1>1. /\ Tail(q) \in Seq(Requests) /\ DOMAIN Tail(q) = 1..(Len(q) - 1) /\ DOMAIN q = 1..Len(q)
      /\ Len(q) \in Nat /\ \A i \in 1..(Len(q) - 1) : Tail(q)[i] = q[i + 1]
  OBVIOUS
<1>2. IsInjective(Tail(q))
  BY <1>1 DEF IsInjective
<1> QED
  BY <1>1, <1>2

LEMMA CometSingly ==
  ASSUME CometShape, Singly, Comet
  PROVE  Singly'
<1>1. calls \in SUBSET Calls
  BY DEF CometShape
<1>2. CASE ReadRequest
  <2> DEFINE s == calls \cup {StreamCall}
  <2>1. up # <<>> /\ Accept(StreamCall, s)
    BY <1>2, Zenon DEF ReadRequest, StreamCall
  <2>2. s \in SUBSET Calls /\ StreamCall \in s /\ StreamCall.st = "sent"
        /\ calls \subseteq s /\ \A d \in s : d \in calls \/ d.st = "sent"
    BY <1>1, <2>1, StreamCallType
  <2> HIDE DEF s
  <2> QED
    BY <2>1, <2>2, AcceptSingly
<1>3. ASSUME NEW c \in calls, BeginCall(c) PROVE Singly'
  BY <1>1, <1>3, AcceptSingly DEF BeginCall
<1>4. ASSUME NEW c \in calls, Fanout(c) PROVE Singly'
  <2>1. PICK reply \in Replies : Answer(c, calls, reply)
    BY <1>4 DEF Fanout, Replies
  <2>2. /\ c.st = "begun" /\ inflight' = inflight \ {c.req}
        /\ recent' = Newest(Append(recent, c.req))
    BY <1>4 DEF Fanout
  <2>3. BegunOnce' /\ InFlightHasHandler'
    BY <2>1, <2>2, EndsHandler
  <2>4. c.req \in Requests /\ c.req \in inflight /\ recent \in Seq(Requests) /\ IsInjective(recent)
    BY <1>1, <2>2 DEF Calls, Singly, InFlightHasHandler, CometShape, FannedOutOnce
  <2>5. \A i \in DOMAIN recent : recent[i] # c.req /\ recent[i] \notin inflight
    BY <2>4 DEF Singly
  <2>6. PICK q \in Seq(Requests) :
          /\ IsInjective(q) /\ \A i \in DOMAIN q : \E j \in DOMAIN recent : q[i] = recent[j]
          /\ recent' = Append(q, c.req)
    <3>1. CASE recent' = Append(recent, c.req)
      BY <2>4, <3>1
    <3>2. CASE recent # <<>> /\ recent' = Append(Tail(recent), c.req)
      BY <2>4, <3>2, TailOnce
    <3> QED
      BY <2>2, <2>4, <3>1, <3>2, NewestShape
  <2>7. \A i \in DOMAIN q : q[i] # c.req /\ q[i] \notin inflight
    BY <2>5, <2>6
  <2>8. /\ IsInjective(recent')
        /\ \A i \in DOMAIN recent' : recent'[i] = c.req \/ \E j \in DOMAIN q : recent'[i] = q[j]
    BY <2>4, <2>6, <2>7, AppendOnce
  <2>9. \A i \in DOMAIN recent' : recent'[i] \notin inflight'
    BY <2>2, <2>7, <2>8
  <2> QED
    BY <2>3, <2>8, <2>9 DEF Singly, FannedOutOnce
<1>5. ASSUME NEW c \in calls, Refuse(c) PROVE Singly'
  <2>1. /\ c.st = "begun" /\ Answer(c, calls, "busy") /\ inflight' = inflight \ {c.req}
        /\ recent' = recent
    BY <1>5 DEF Refuse
  <2>2. BegunOnce' /\ InFlightHasHandler'
    BY <2>1, EndsHandler DEF Replies
  <2> QED
    BY <2>1, <2>2 DEF Singly, FannedOutOnce
<1> QED
  BY <1>2, <1>3, <1>4, <1>5 DEF Comet

LEMMA SinglyStep ==
  ASSUME Shape, Singly, [Next]_vars
  PROVE  Singly'
<1>1. ThreadShape /\ CometShape /\ BegunOnce
  BY DEF Shape, Singly
<1>2. ASSUME UNCHANGED <<calls, inflight, recent>> PROVE Singly'
  BY <1>2 DEF Singly, BegunOnce, InFlightHasHandler, FannedOutOnce
<1>3. ASSUME NEW old \in SUBSET calls, Loses(old), UNCHANGED <<inflight, recent>> PROVE Singly'
  BY <1>1, <1>3, LosesHandlers, SameHandlersSingly
<1>4. ASSUME HandlerEnds, UNCHANGED <<inflight, recent>> PROVE Singly'
  <2>1. Loses({c \in calls : c.via = "stream"})
    BY <1>1, <1>4, HandlerEndsLoses
  <2> QED
    BY <1>3, <1>4, <2>1
<1>5. ASSUME NEW t \in Threads, Consumer(t) PROVE Singly'
  <2>1. UNCHANGED <<inflight, recent>>
    BY <1>5 DEF Consumer, Push, Woken, Timeout, Expire, Call, Answered, RpcFails, Commit, cometVars
  <2>2. CASE Call(t)
    <3>1. UnaryCall(t).st = "sent" /\ calls' = calls \cup {UnaryCall(t)}
      BY <1>1, <2>2, UnaryCallType DEF Call
    <3>2. SameHandlers
      BY <1>1, <3>1 DEF SameHandlers, BegunOnce
    <3> QED
      BY <2>1, <3>2, SameHandlersSingly
  <2>3. CASE Answered(t)
    <3>1. PICK c \in calls : c.st \in Replies /\ calls' = calls \ {c}
      BY <2>3 DEF Answered
    <3>2. SameHandlers
      BY <1>1, <3>1 DEF SameHandlers, BegunOnce, Replies
    <3> QED
      BY <2>1, <3>2, SameHandlersSingly
  <2>4. CASE RpcFails(t)
    <3>1. Loses({c \in calls : c.via = t})
      BY <1>1, <2>4, RpcFailsLoses
    <3> QED
      BY <1>3, <2>1, <3>1
  <2>5. CASE Push(t) \/ Woken(t) \/ Timeout(t) \/ Expire(t) \/ Commit(t)
    <3>1. calls' = calls
      BY <2>5 DEF Push, Woken, Timeout, Expire, Commit, cometVars
    <3> QED
      BY <1>2, <2>1, <3>1
  <2> QED
    BY <1>5, <2>2, <2>3, <2>4, <2>5 DEF Consumer
<1>6. CASE Writer
  <2>1. UNCHANGED <<inflight, recent>>
    BY <1>6 DEF Writer, Dequeue, IdleReconnect, Repair, Register, Write, WriteFails, GiveUp, cometVars
  <2>2. (\E ok, lost : Reconnect(ok, lost)) \/ calls' = calls
    BY <1>6, Zenon DEF Writer, Dequeue, IdleReconnect, Repair, Register, Write, WriteFails, GiveUp, cometVars
  <2>3. HandlerEnds \/ calls' = calls
    BY <2>2 DEF Reconnect
  <2> QED
    BY <1>2, <1>4, <2>1, <2>3
<1>7. CASE Reader
  <2>1. UNCHANGED <<calls, inflight, recent>>
    BY <1>7 DEF Reader, Receive, Give, ReaderExits, Sweep, cometVars
  <2> QED
    BY <1>2, <2>1
<1>8. CASE Comet
  BY <1>1, <1>8, CometSingly
<1>9. CASE Break
  BY <1>4, <1>9 DEF Break
<1>10. CASE CometCrash
  <2>1. calls' = {} /\ inflight' = {} /\ recent' = <<>>
    BY <1>10 DEF CometCrash
  <2>2. IsInjective(recent')
    BY <2>1 DEF IsInjective
  <2> QED
    BY <2>1, <2>2 DEF Singly, BegunOnce, InFlightHasHandler, FannedOutOnce
<1>11. CASE JobCrash
  <2>1. Abandon(calls) /\ UNCHANGED <<inflight, recent>>
    BY <1>11 DEF JobCrash
  <2>2. Loses(calls)
    BY <1>1, <2>1, AbandonLoses
  <2> QED
    BY <1>3, <2>1, <2>2
<1>12. CASE UNCHANGED vars
  BY <1>2, <1>12 DEF vars, cometVars
<1> QED
  BY <1>5, <1>6, <1>7, <1>8, <1>9, <1>10, <1>11, <1>12 DEF Next, Failure

LEMMA SinglyInvariant == Spec => [](Shape /\ Singly)
<1>1. Init => Shape /\ Singly
  <2> SUFFICES ASSUME Init PROVE Singly
    BY InitShape
  <2>1. calls = {} /\ inflight = {} /\ recent = <<>>
    BY DEF Init
  <2>2. IsInjective(recent)
    BY <2>1 DEF IsInjective
  <2> QED
    BY <2>1, <2>2 DEF Singly, BegunOnce, InFlightHasHandler, FannedOutOnce
<1>2. Shape /\ Singly /\ [Next]_vars => (Shape /\ Singly)'
  BY ShapeStep, SinglyStep
<1> QED
  BY <1>1, <1>2, PTL DEF Spec

\* Comet fans a request out once as long as it remembers it, for any dedup limit, however many
\* streams and Unary calls carry it.
THEOREM FanOutIsSingle == Spec => []FannedOutOnce
<1>1. Singly => FannedOutOnce
  BY DEF Singly
<1> QED
  BY <1>1, SinglyInvariant, PTL

\* inflight_push_ids_ holds exactly the requests that a handler is working on.
THEOREM InFlightHasOneHandler == Spec => []InFlightIsBegun
<1>1. Singly => InFlightIsBegun
  <2> SUFFICES ASSUME Singly PROVE InFlightIsBegun
    OBVIOUS
  <2>1. ASSUME NEW r \in Requests
        PROVE  Cardinality({c \in calls : c.req = r /\ c.st = "begun"}) <= 1
    <3> DEFINE at == {c \in calls : c.req = r /\ c.st = "begun"}
    <3>1. \A c, d \in at : c = d
      BY DEF Singly, BegunOnce
    <3>2. CASE at = {}
      BY <3>2, FS_EmptySet
    <3>3. CASE at # {}
      <4>1. PICK c \in at : at = {c}
        BY <3>1, <3>3
      <4> HIDE DEF at
      <4>2. Cardinality(at) = 1
        BY <4>1, FS_Singleton
      <4> QED
        BY <4>2 DEF at
    <3> QED
      BY <3>2, <3>3
  <2>2. inflight = {c.req : c \in {d \in calls : d.st = "begun"}}
    BY DEF Singly, InFlightHasHandler
  <2> QED
    BY <2>1, <2>2 DEF InFlightIsBegun
<1> QED
  BY <1>1, SinglyInvariant, PTL

-----------------------------------------------------------------------------
(* Registered requests and the replies they wait for.                       *)

\* Who will answer or fail completion c: a reply helps as long as the stream is up.
Expects(c) ==
  \/ writer.pc = "write" /\ writer.c = c
  \/ reader.pc = "sweep"
  \/ stream = "dead" /\ reader.pc \in {"read", "give"}
  \/ stream = "up" /\ Owed(c[1])

\* A stream that is up has a reader.
Attended ==
  /\ stream = "up" => reader.pc \in {"read", "give"}
  /\ \A c \in Registered : Expects(c)

\* A step that registers nothing and takes away no reply.
LEMMA AttendedStays ==
  ASSUME Attended, UNCHANGED <<reader, stream>>, Registered' \subseteq Registered,
         writer.pc = "write" => writer' = writer,
         \A c \in Registered' : Owed(c[1]) => Owed(c[1])'
  PROVE  Attended'
BY DEF Attended, Expects

\* A step after which nothing is registered.
LEMMA NothingRegistered ==
  ASSUME pending' = [r \in Requests |-> 0], stream' = "up" => reader'.pc \in {"read", "give"}
  PROVE  Attended'
<1>1. Registered' = {}
  <2> SUFFICES ASSUME NEW c \in Completions, pending'[c[1]] = c[2] PROVE FALSE
    BY DEF Registered
  <2>1. c[1] \in Requests /\ c[2] \in 1..Attempts
    BY DEF Completions
  <2> QED
    BY <2>1
<1> QED
  BY <1>1 DEF Attended

\* What is erased from pending is no longer registered.
LEMMA ErasedRegistered ==
  ASSUME StreamShape, NEW d \in Completions, pending' = Erased(d)
  PROVE  Registered' \subseteq Registered \ {d}
<1> SUFFICES ASSUME NEW c \in Completions, pending'[c[1]] = c[2]
             PROVE  pending[c[1]] = c[2] /\ c # d
  BY DEF Registered
<1>1. c[1] \in Requests /\ c[2] \in 1..Attempts /\ d[1] \in Requests /\ d[2] \in 1..Attempts
      /\ c = <<c[1], c[2]>> /\ d = <<d[1], d[2]>>
  BY DEF Completions
<1>2. pending' = [pending EXCEPT ![d[1]] = IF pending[d[1]] = d[2] THEN 0 ELSE pending[d[1]]]
  BY DEF Erased
<1>3. pending \in [Requests -> 0..Attempts]
  BY DEF StreamShape
<1>4. CASE c[1] = d[1]
  <2>1. pending'[c[1]] = IF pending[d[1]] = d[2] THEN 0 ELSE pending[d[1]]
    BY <1>1, <1>2, <1>3, <1>4
  <2> QED
    BY <1>1, <1>4, <2>1
<1>5. CASE c[1] # d[1]
  <2>1. pending'[c[1]] = pending[c[1]]
    BY <1>1, <1>2, <1>3, <1>5
  <2> QED
    BY <1>5, <2>1
<1> QED
  BY <1>4, <1>5

\* A reply is owed as long as the stream's calls are kept and nothing leaves the stream.
LEMMA OwedStays ==
  ASSUME UNCHANGED <<up, down>>, \A c \in calls : c.via = "stream" => c \in calls', NEW r
  PROVE  Owed(r) => Owed(r)'
BY DEF Owed

LEMMA ConsumerAttends ==
  ASSUME Shape, Attended, NEW t \in Threads, Consumer(t)
  PROVE  Attended'
<1>1. UNCHANGED <<reader, stream, writer, up, down>>
  BY DEF Consumer, Push, Woken, Timeout, Expire, Call, Answered, RpcFails, Commit, streamVars
<1>2. Registered' \subseteq Registered
  <2>1. CASE Timeout(t)
    <3>1. Completion(t) \in Completions /\ pending' = Erased(Completion(t))
      BY <2>1, Working DEF Shape, ThreadShape, Timeout
    <3> QED
      BY <3>1, ErasedRegistered DEF Shape
  <2>2. CASE ~Timeout(t)
    <3>1. pending' = pending
      BY <2>2 DEF Consumer, Push, Woken, Expire, Call, Answered, RpcFails, Commit
    <3> QED
      BY <3>1 DEF Registered
  <2> QED
    BY <2>1, <2>2
<1>3. t # "stream"
  BY PushAssumption
<1>4. \A c \in calls : c.via = "stream" => c \in calls'
  <2>1. CASE Call(t)
    BY <2>1 DEF Call
  <2>2. CASE Answered(t)
    BY <1>3, <2>2 DEF Answered
  <2>3. CASE RpcFails(t)
    <3>1. Loses({c \in calls : c.via = t})
      BY <2>3, RpcFailsLoses DEF Shape
    <3> QED
      BY <1>3, <3>1 DEF Loses
  <2>4. CASE ~Call(t) /\ ~Answered(t) /\ ~RpcFails(t)
    BY <2>4 DEF Consumer, Push, Woken, Timeout, Expire, Commit, cometVars
  <2> QED
    BY <2>1, <2>2, <2>3, <2>4
<1>5. \A r : Owed(r) => Owed(r)'
  BY <1>1, <1>4, OwedStays
<1> QED
  BY <1>1, <1>2, <1>5, AttendedStays

\* A new stream begins with a reader and with nothing registered.
LEMMA ReconnectAttends ==
  ASSUME NEW ok \in BOOLEAN, NEW lost, Reconnect(ok, lost)
  PROVE  Attended'
<1>1. pending' = [r \in Requests |-> 0]
  BY DEF Reconnect, Fail
<1>2. stream' = "up" => reader' = Reading
  BY DEF Reconnect
<1> QED
  BY <1>1, <1>2, NothingRegistered DEF Reading

LEMMA WriterAttends ==
  ASSUME Shape, Attended, Writer
  PROVE  Attended'
<1>1. CASE IdleReconnect \/ Repair
  <2>1. PICK ok \in BOOLEAN : Reconnect(ok, Registered)
    BY <1>1 DEF IdleReconnect, Repair
  <2> QED
    BY <2>1, ReconnectAttends
<1>2. CASE Dequeue \/ GiveUp
  <2>1. UNCHANGED <<reader, stream, up, down, calls, pending>> /\ writer.pc # "write"
    BY <1>2 DEF Dequeue, GiveUp, streamVars, cometVars
  <2>2. Registered' = Registered /\ \A r : Owed(r) => Owed(r)'
    BY <2>1, OwedStays DEF Registered
  <2> QED
    BY <2>1, <2>2, AttendedStays
<1>3. CASE Register
  <2>1. UNCHANGED <<reader, stream, up, down, calls>> /\ writer.pc # "write"
    BY <1>3 DEF Register, streamVars, cometVars
  <2>2. \A r : Owed(r) => Owed(r)'
    BY <2>1, OwedStays
  <2>3. CASE pending' = pending
    <3>1. Registered' = Registered
      BY <2>3 DEF Registered
    <3> QED
      BY <2>1, <2>2, <3>1, AttendedStays
  <2>4. CASE pending' # pending
    <3>1. /\ pending' = [pending EXCEPT ![writer.c[1]] = writer.c[2]]
          /\ writer' = [writer EXCEPT !.pc = "write"]
      BY <1>3, <2>4 DEF Register
    <3>2. writer \in Writers /\ writer.c \in Completions /\ pending \in [Requests -> 0..Attempts]
      BY <1>3 DEF Shape, StreamShape, Register
    <3>3. writer'.pc = "write" /\ writer'.c = writer.c
      BY <3>1, <3>2 DEF Writers
    <3>4. ASSUME NEW c \in Registered' PROVE c = writer.c \/ c \in Registered
      <4>1. /\ c[1] \in Requests /\ c = <<c[1], c[2]>> /\ writer.c = <<writer.c[1], writer.c[2]>>
            /\ writer.c[1] \in Requests
        BY <3>2, <3>4 DEF Registered, Completions
      <4>2. c[1] # writer.c[1] => pending'[c[1]] = pending[c[1]]
        BY <3>1, <3>2, <4>1
      <4>3. c[1] = writer.c[1] => pending'[c[1]] = writer.c[2]
        BY <3>1, <3>2, <4>1
      <4>4. c \in Completions /\ pending'[c[1]] = c[2]
        BY <3>4 DEF Registered
      <4> QED
        BY <4>1, <4>2, <4>3, <4>4 DEF Registered
    <3>5. ASSUME NEW c \in Registered' PROVE Expects(c)'
      <4>1. CASE c = writer.c
        BY <3>3, <4>1 DEF Expects
      <4>2. CASE c \in Registered
        BY <2>1, <2>2, <4>2 DEF Attended, Expects
      <4> QED
        BY <3>4, <4>1, <4>2
    <3> QED
      BY <2>1, <3>5 DEF Attended
  <2> QED
    BY <2>3, <2>4
<1>4. CASE Write
  <2>1. /\ UNCHANGED <<reader, stream, down, calls, pending>> /\ stream = "up"
        /\ writer.pc = "write" /\ up' = Append(up, writer.c[1])
    BY <1>4 DEF Write, cometVars
  <2>2. up \in Seq(Requests) /\ writer.c \in Completions /\ writer.c[1] \in Requests
    BY <2>1 DEF Shape, StreamShape, CometShape, Completions
  <2>3. Len(up') = Len(up) + 1 /\ up'[Len(up) + 1] = writer.c[1]
        /\ \A i \in 1..Len(up) : up'[i] = up[i]
    BY <2>1, <2>2
  <2>4. DOMAIN up = 1..Len(up) /\ DOMAIN up' = 1..Len(up) + 1 /\ Len(up) \in Nat
    BY <2>1, <2>2, <2>3
  <2>5. Range(up) \subseteq Range(up)' /\ writer.c[1] \in Range(up)'
    BY <2>3, <2>4 DEF Range
  <2>6. \A r : Owed(r) => Owed(r)'
    BY <2>1, <2>5 DEF Owed
  <2>7. \A r : r = writer.c[1] => Owed(r)'
    BY <2>5 DEF Owed
  <2>8. Registered' = Registered
    BY <2>1 DEF Registered
  <2>9. ASSUME NEW c \in Registered' PROVE Expects(c)'
    <3>1. Expects(c)
      BY <2>8, <2>9 DEF Attended
    <3>2. CASE c = writer.c
      <4>1. Owed(c[1])'
        BY <2>7, <3>2
      <4> QED
        BY <2>1, <4>1 DEF Expects
    <3>3. CASE c # writer.c
      BY <2>1, <2>6, <3>1, <3>3 DEF Expects
    <3> QED
      BY <3>2, <3>3
  <2> QED
    BY <2>1, <2>9 DEF Attended
<1>5. CASE WriteFails
  <2>1. CASE \E ok \in BOOLEAN : Reconnect(ok, Registered \ {writer.c})
    BY <2>1, ReconnectAttends
  <2>2. CASE ~ \E ok \in BOOLEAN : Reconnect(ok, Registered \ {writer.c})
    <3>1. /\ pending' = Erased(writer.c) /\ UNCHANGED <<reader, stream, up, down, calls>>
          /\ stream = "dead" /\ writer.pc = "write"
      BY <1>5, <2>2 DEF WriteFails, streamVars
    <3>2. Registered' \subseteq Registered \ {writer.c}
      BY <3>1, ErasedRegistered DEF Shape, StreamShape
    <3>3. ASSUME NEW c \in Registered' PROVE Expects(c)'
      <4>1. c # writer.c /\ Expects(c)
        BY <3>2, <3>3 DEF Attended
      <4> QED
        BY <3>1, <4>1 DEF Expects
    <3> QED
      BY <3>1, <3>3 DEF Attended
  <2> QED
    BY <2>1, <2>2
<1> QED
  BY <1>1, <1>2, <1>3, <1>4, <1>5 DEF Writer

LEMMA ReaderAttends ==
  ASSUME Shape, Attended, Reader
  PROVE  Attended'
<1>1. CASE Receive
  <2>1. /\ reader.pc = "read" /\ down # <<>> /\ down' = Tail(down)
        /\ UNCHANGED <<writer, stream, up, calls>>
    BY <1>1 DEF Receive, cometVars
  <2> DEFINE r == Head(down).req
  <2>2. reader'.pc \in {"read", "give"}
    BY <1>1, <2>1 DEF Receive
  <2>3. down \in Seq(Answers) /\ pending \in [Requests -> 0..Attempts]
    BY DEF Shape, StreamShape, CometShape
  <2>4. r \in Requests
    <3>1. Head(down) \in Answers
      BY <2>1, <2>3
    <3> QED
      BY <3>1 DEF Answers
  <2>5. pending' = pending \/ pending' = [pending EXCEPT ![r] = 0]
    BY <1>1 DEF Receive
  <2>6. pending[r] = 0 \/ pending' = [pending EXCEPT ![r] = 0]
    BY <1>1 DEF Receive
  <2>7. pending'[r] = 0 /\ \A q \in Requests \ {r} : pending'[q] = pending[q]
    BY <2>3, <2>4, <2>5, <2>6
  <2>8. \A q : q # r /\ Owed(q) => Owed(q)'
    <3> SUFFICES ASSUME NEW q, q # r, Owed(q) PROVE Owed(q)'
      OBVIOUS
    <3>1. CASE q \in Range(up) \/ \E c \in calls : c.req = q /\ c.via = "stream"
      BY <2>1, <3>1 DEF Owed
    <3>2. ASSUME NEW i \in DOMAIN down, down[i].req = q PROVE Owed(q)'
      <4>1. Len(down) \in Nat /\ DOMAIN down = 1..Len(down) /\ Head(down) = down[1]
            /\ Len(down') = Len(down) - 1 /\ DOMAIN down' = 1..Len(down')
            /\ \A j \in 1..Len(down') : down'[j] = down[j + 1]
        BY <2>1, <2>3
      <4>2. i # 1
        BY <3>2, <4>1
      <4>3. i - 1 \in DOMAIN down' /\ down'[i - 1] = down[i]
        BY <3>2, <4>1, <4>2
      <4> QED
        BY <3>2, <4>3 DEF Owed
    <3> QED
      BY <3>1, <3>2 DEF Owed
  <2> HIDE DEF r
  <2>9. ASSUME NEW c \in Registered' PROVE c \in Registered /\ c[1] # r
    <3>1. c \in Completions /\ pending'[c[1]] = c[2] /\ c[1] \in Requests /\ c[2] \in 1..Attempts
      BY <2>9 DEF Registered, Completions
    <3>2. c[1] # r
      BY <2>7, <3>1
    <3> QED
      BY <2>7, <3>1, <3>2 DEF Registered
  <2>10. ASSUME NEW c \in Registered' PROVE Expects(c)'
    BY <2>1, <2>2, <2>8, <2>9, <2>10 DEF Attended, Expects
  <2> QED
    BY <2>2, <2>10 DEF Attended
<1>2. CASE Give
  <2>1. /\ reader.pc = "give" /\ reader' = Reading
        /\ UNCHANGED <<writer, stream, up, down, calls, pending>>
    BY <1>2 DEF Give, streamVars, cometVars
  <2>2. Registered' = Registered /\ \A r : Owed(r) => Owed(r)'
    BY <2>1, OwedStays DEF Registered
  <2> QED
    BY <2>1, <2>2 DEF Attended, Expects, Reading
<1>3. CASE ReaderExits
  <2>1. reader'.pc = "sweep" /\ stream' = "dead"
    BY <1>3 DEF ReaderExits, streamVars
  <2> QED
    BY <2>1 DEF Attended, Expects
<1>4. CASE Sweep
  <2>1. pending' = [r \in Requests |-> 0] /\ stream' = stream /\ stream # "up"
    BY <1>4 DEF Sweep, Fail, streamVars, Attended
  <2> QED
    BY <2>1, NothingRegistered
<1> QED
  BY <1>1, <1>2, <1>3, <1>4 DEF Reader

\* A handler that answers its call puts the reply on the stream it came by.
LEMMA AnswerOwes ==
  ASSUME CometShape, NEW s \in SUBSET Calls, NEW c \in s, NEW reply \in Replies, Answer(c, s, reply),
         NEW r, \/ \E d \in s : d.req = r /\ d.via = "stream"
                \/ \E i \in DOMAIN down : down[i].req = r
  PROVE  \/ \E d \in calls' : d.req = r /\ d.via = "stream"
         \/ \E i \in DOMAIN down' : down'[i].req = r
<1>1. s \ {c} \subseteq calls' /\ down \in Seq(Answers)
  BY AnswerGives DEF CometShape
<1> DEFINE a == [req |-> c.req, st |-> reply]
<1>2. down' = IF c.via = "stream" THEN Append(down, a) ELSE down
  BY Zenon DEF Answer
<1>3. a.req = c.req
  OBVIOUS
<1> HIDE DEF a
<1>4. /\ DOMAIN Append(down, a) = 1..Len(down) + 1 /\ Append(down, a)[Len(down) + 1] = a
      /\ DOMAIN down = 1..Len(down) /\ Len(down) \in Nat
      /\ \A i \in 1..Len(down) : Append(down, a)[i] = down[i]
  BY <1>1
<1>5. CASE \E i \in DOMAIN down : down[i].req = r
  BY <1>2, <1>4, <1>5
<1>6. ASSUME NEW d \in s, d.req = r, d.via = "stream", d # c
      PROVE  \E x \in calls' : x.req = r /\ x.via = "stream"
  BY <1>1, <1>6
<1>7. CASE c.req = r /\ c.via = "stream"
  <2>1. Len(down) + 1 \in DOMAIN down' /\ down'[Len(down) + 1].req = r
    BY <1>2, <1>3, <1>4, <1>7
  <2> QED
    BY <2>1
<1> QED
  BY <1>5, <1>6, <1>7

LEMMA AcceptOwes ==
  ASSUME CometShape, NEW s \in SUBSET Calls, NEW c \in s, Accept(c, s),
         NEW r, \/ \E d \in s : d.req = r /\ d.via = "stream"
                \/ \E i \in DOMAIN down : down[i].req = r
  PROVE  \/ \E d \in calls' : d.req = r /\ d.via = "stream"
         \/ \E i \in DOMAIN down' : down'[i].req = r
<1> DEFINE e == [c EXCEPT !.st = "begun"]
<1>1. e.req = c.req /\ e.via = c.via
  BY DEF Calls
<1>2. \/ Answer(c, s, "nobody") \/ Answer(c, s, "busy")
      \/ calls' = (s \ {c}) \cup {e} /\ down' = down
  BY Zenon DEF Accept
<1>3. CASE Answer(c, s, "nobody") \/ Answer(c, s, "busy")
  BY <1>3, AnswerOwes DEF Replies
<1> HIDE DEF e
<1>4. CASE calls' = (s \ {c}) \cup {e} /\ down' = down
  BY <1>1, <1>4
<1> QED
  BY <1>2, <1>3, <1>4

LEMMA CometAttends ==
  ASSUME Shape, Attended, Comet
  PROVE  Attended'
<1>1. UNCHANGED <<reader, stream, writer, pending>>
  BY DEF Comet, ReadRequest, BeginCall, Fanout, Refuse, jobVars
<1>2. Registered' = Registered
  BY <1>1 DEF Registered
<1>3. \A r : Owed(r) => Owed(r)'
  <2> SUFFICES ASSUME NEW r, Owed(r) PROVE Owed(r)'
    OBVIOUS
  <2>1. CASE ReadRequest
    <3>1. /\ up # <<>> /\ up' = Tail(up) /\ Accept(StreamCall, calls \cup {StreamCall})
          /\ up \in Seq(Requests)
      BY <2>1 DEF ReadRequest, StreamCall, Shape, CometShape
    <3>2. StreamCall \in Calls /\ StreamCall.req = Head(up) /\ StreamCall.via = "stream"
          /\ calls \cup {StreamCall} \in SUBSET Calls
      BY <3>1, StreamCallType DEF Shape, CometShape
    <3>3. CASE \/ \E d \in calls \cup {StreamCall} : d.req = r /\ d.via = "stream"
               \/ \E i \in DOMAIN down : down[i].req = r
      <4>1. \/ \E d \in calls' : d.req = r /\ d.via = "stream"
            \/ \E i \in DOMAIN down' : down'[i].req = r
        BY <3>1, <3>2, <3>3, AcceptOwes DEF Shape
      <4> QED
        BY <4>1 DEF Owed
    <3>4. CASE r \in Range(up) /\ r # Head(up)
      <4>1. PICK i \in DOMAIN up : up[i] = r
        BY <3>4 DEF Range
      <4>2. /\ DOMAIN up = 1..Len(up) /\ Head(up) = up[1] /\ Len(up) \in Nat
            /\ Len(up') = Len(up) - 1 /\ DOMAIN up' = 1..Len(up')
            /\ \A j \in 1..Len(up') : up'[j] = up[j + 1]
        BY <3>1
      <4>3. i - 1 \in DOMAIN up' /\ up'[i - 1] = r
        BY <3>4, <4>1, <4>2
      <4> QED
        BY <4>3 DEF Owed, Range
    <3> QED
      BY <3>2, <3>3, <3>4 DEF Owed
  <2>2. ASSUME NEW c \in calls, BeginCall(c) \/ Fanout(c) \/ Refuse(c) PROVE Owed(r)'
    <3>1. up' = up /\ calls \in SUBSET Calls
      BY <2>2 DEF BeginCall, Fanout, Refuse, Shape, CometShape
    <3>2. Accept(c, calls) \/ \E reply \in Replies : Answer(c, calls, reply)
      BY <2>2 DEF BeginCall, Fanout, Refuse, Replies
    <3>3. CASE r \in Range(up)
      BY <3>1, <3>3 DEF Owed
    <3>4. CASE \/ \E d \in calls : d.req = r /\ d.via = "stream"
               \/ \E i \in DOMAIN down : down[i].req = r
      <4>1. \/ \E d \in calls' : d.req = r /\ d.via = "stream"
            \/ \E i \in DOMAIN down' : down'[i].req = r
        BY <3>1, <3>2, <3>4, AcceptOwes, AnswerOwes DEF Shape
      <4> QED
        BY <4>1 DEF Owed
    <3> QED
      BY <3>3, <3>4 DEF Owed
  <2> QED
    BY <2>1, <2>2 DEF Comet
<1> QED
  BY <1>1, <1>2, <1>3, AttendedStays

\* The invariant behind RegisteredIsOwed.
LEMMA AttendedStep ==
  ASSUME Shape, Attended, [Next]_vars
  PROVE  Attended'
<1>1. ASSUME NEW t \in Threads, Consumer(t) PROVE Attended'
  BY <1>1, ConsumerAttends
<1>2. CASE Writer
  BY <1>2, WriterAttends
<1>3. CASE Reader
  BY <1>3, ReaderAttends
<1>4. CASE Comet
  BY <1>4, CometAttends
<1>5. CASE Break \/ CometCrash
  <2>1. UNCHANGED <<reader, writer, pending>>
    BY <1>5 DEF Break, CometCrash, jobVars
  <2>2. stream' = (IF stream = "up" THEN "dead" ELSE stream)
    BY <1>5 DEF Break, CometCrash
  <2>3. Registered' = Registered
    BY <2>1 DEF Registered
  <2> QED
    BY <2>1, <2>2, <2>3 DEF Attended, Expects
<1>6. CASE JobCrash
  BY <1>6, NothingRegistered DEF JobCrash, Reading
<1>7. CASE UNCHANGED vars
  <2>1. UNCHANGED <<reader, stream, writer, pending, up, down, calls>>
    BY <1>7 DEF vars, jobVars, streamVars, cometVars
  <2>2. Registered' = Registered /\ \A r : Owed(r) => Owed(r)'
    BY <2>1, OwedStays DEF Registered
  <2> QED
    BY <2>1, <2>2, AttendedStays
<1> QED
  BY <1>1, <1>2, <1>3, <1>4, <1>5, <1>6, <1>7 DEF Next, Failure

\* No request stays registered on a stream that cannot answer it: its reply is on the way, or
\* the writer or the reader is about to fail it, for any number of threads and reconnections.
THEOREM RegisteredAreOwed == Spec => []RegisteredIsOwed
<1>1. Init => Attended
  <2> SUFFICES ASSUME Init PROVE Attended
    OBVIOUS
  <2>1. Registered = {}
    <3> SUFFICES ASSUME NEW c \in Completions, pending[c[1]] = c[2] PROVE FALSE
      BY DEF Registered
    <3>1. c[1] \in Requests /\ c[2] \in 1..Attempts /\ pending = [r \in Requests |-> 0]
      BY DEF Completions, Init
    <3> QED
      BY <3>1
  <2> QED
    BY <2>1 DEF Init, Attended, Reading
<1>2. Shape /\ Attended /\ [Next]_vars => (Shape /\ Attended)'
  BY ShapeStep, AttendedStep
<1>3. Attended => RegisteredIsOwed
  BY DEF Attended, Expects, RegisteredIsOwed
<1> QED
  BY <1>1, <1>2, <1>3, InitShape, PTL DEF Spec

=============================================================================
