---------------------------- MODULE PushDelivery ----------------------------
(***************************************************************************)
(* How the Job pushes messages to one Comet: job/service.cpp               *)
(* (ProcessPushRequest, SendToStream, the reader and the writer thread of  *)
(* the PushStream, its reconnection, the Unary fallback) and               *)
(* comet/comet_grpc_service.cpp with the request_id deduplication of       *)
(* comet_server.cpp.                                                       *)
(*                                                                         *)
(* A consumer thread per Kafka topic puts its request into the queue and   *)
(* waits for a completion that the reader sets when the reply arrives; if  *)
(* the wait fails it calls the same Comet by Unary RPC.  Either side may   *)
(* die, the stream may break, any RPC may outlive its caller's deadline.   *)
(* What is sent to the clients is kept as "somebody got it" or "nobody".   *)
(***************************************************************************)
EXTENDS Integers, Sequences, FiniteSets, SequencesExt

CONSTANTS
  Threads,      \* the consumer threads that push to this Comet
  Requests,     \* PushToCometRequest's, named by their request_id
  Topic,        \* per thread, the requests of its partition in order
  RoomRequests, \* those for a room, whose members Comet asks Logic for
  Attempts,     \* max_processing_attempts of the consumers
  UnaryTries,   \* 3
  WriteTries,   \* 4
  QueueMax,     \* push_stream_queue_max
  DedupMax,     \* 100000, of inflight_push_ids_ and of recent_push_order_
  MaxFaults,    \* bound on the crashes and broken connections of a behaviour
  None

ASSUME PushAssumption ==
  /\ Topic \in [Threads -> Seq(Requests)] /\ RoomRequests \subseteq Requests
  /\ Attempts \in Nat \ {0} /\ UnaryTries \in Nat \ {0} /\ WriteTries \in Nat \ {0}
  /\ QueueMax \in Nat \ {0} /\ DedupMax \in Nat \ {0} /\ MaxFaults \in Nat
  /\ None \notin Requests \X (1..Attempts) /\ Threads \cap {"stream", "lost"} = {}

VARIABLES
  committed,  \* per thread, the records of its topic whose offset is committed
  job,        \* per thread: record, attempt n, what it does, Unary attempt u
  done,       \* PromiseState by completion <<request, attempt>>: "no", "ok", "failed"
  queue,      \* StreamState::queue
  pending,    \* StreamState::pending: the attempt whose reply a request_id completes, or 0
  writer,     \* the writer thread: what it does, the completion it holds, tries so far
  reader,     \* the reader thread: what it does, the completion it took, the reply's verdict
  broken,     \* stream_broken
  stream,     \* the transport: "none", "up" or "dead"
  up, down,   \* requests and replies on the stream
  calls,      \* requests that Comet's handlers have, and Unary replies on their way back
  inflight,   \* inflight_push_ids_
  recent,     \* recent_push_order_; recent_push_ids_ is its range
  faults,     \* crashes and broken connections so far
  acked,      \* history: requests whose delivered_ack was submitted
  processed,  \* history: requests whose fan-out some Comet completed
  delivered   \* history: those that reached a client

jobVars    == <<committed, job, done, queue, pending, writer, reader, broken>>
streamVars == <<stream, up, down>>
cometVars  == <<calls, inflight, recent, faults>>
histVars   == <<acked, processed, delivered>>
vars == <<jobVars, streamVars, cometVars, histVars>>

-----------------------------------------------------------------------------

Completions == Requests \X (1..Attempts)

\* replies: Comet sent it to some client, to nobody, or answered 503
Replies == {"some", "nobody", "busy"}

Ok(reply) == reply # "busy"

Req(t) == Topic[t][job[t].record]
Completion(t) == <<Req(t), job[t].n>>

\* if (!done) { done = true; ok = ... }
Settle(c, verdict) == done' = [done EXCEPT ![c] = IF @ = "no" THEN verdict ELSE @]

\* pending.erase, when the entry is still this completion
Erased(c) == [pending EXCEPT ![c[1]] = IF @ = c[2] THEN 0 ELSE @]

\* Mutant of AckIf: every reply without an error is acknowledged.
BadAckIf(r, reply) == acked' = IF Ok(reply) THEN acked \cup {r} ELSE acked

\* delivered_count > 0: delivery_ack_pool_.Submit(SendDeliveryAck)
AckIf(r, reply) == acked' = IF reply = "some" THEN acked \cup {r} ELSE acked

Start(record) == [record |-> record, n |-> 1, pc |-> "push", u |-> 0]

\* what thread t does next with its record, in attempt n and Unary attempt u
Go(t, n, pc, u) ==
  job' = [job EXCEPT ![t] = [record |-> job[t].record, n |-> n, pc |-> pc, u |-> u]]

\* ProcessPushRequest returns ok.  HandleMessage goes on to commit, or tries again; after
\* the last attempt it commits all the same, for these consumers have no DLQ.
Return(t, ok) ==
  IF ok THEN Go(t, job[t].n, "handled", 0)
  ELSE IF job[t].n = Attempts THEN Go(t, job[t].n, "lost", 0)
  ELSE Go(t, job[t].n + 1, "push", 0)

\* commitSync, and the loop takes the next record
Commit(t) ==
  /\ job[t].pc \in {"handled", "lost"}
  /\ committed' = [committed EXCEPT ![t] = job[t].record]
  /\ job' = [job EXCEPT ![t] = Start(job[t].record + 1)]
  /\ UNCHANGED <<done, queue, pending, writer, reader, broken, streamVars, cometVars, histVars>>

GoUnary(t) == Go(t, job[t].n, "unary", 1)

\* Mutant of Push: the limit of the queue is off by one.
BadPush(t) ==
  /\ job[t].pc = "push" /\ job[t].record <= Len(Topic[t])
  /\ IF Len(queue) > QueueMax
     THEN GoUnary(t) /\ UNCHANGED queue
     ELSE /\ queue' = Append(queue, Completion(t))
          /\ Go(t, job[t].n, "wait", 0)
  /\ UNCHANGED <<committed, done, pending, writer, reader, broken, streamVars, cometVars, histVars>>

\* SendToStream: into the queue, or "queue rejected".
Push(t) ==
  /\ job[t].pc = "push" /\ job[t].record <= Len(Topic[t])
  /\ IF Len(queue) >= QueueMax
     THEN GoUnary(t) /\ UNCHANGED queue
     ELSE /\ queue' = Append(queue, Completion(t))
          /\ Go(t, job[t].n, "wait", 0)
  /\ UNCHANGED <<committed, done, pending, writer, reader, broken, streamVars, cometVars, histVars>>

\* the wait for the completion ends
Woken(t) ==
  /\ job[t].pc = "wait" /\ done[Completion(t)] # "no"
  /\ IF done[Completion(t)] = "ok" THEN Return(t, TRUE)
     ELSE GoUnary(t)
  /\ UNCHANGED <<committed, done, queue, pending, writer, reader, broken, streamVars, cometVars, histVars>>

\* push_rpc_deadline_ms passes: the entry is taken out of pending ...
Timeout(t) ==
  /\ job[t].pc = "wait" /\ done[Completion(t)] = "no"
  /\ pending' = Erased(Completion(t))
  /\ Go(t, job[t].n, "expire", 0)
  /\ UNCHANGED <<committed, done, queue, writer, reader, broken, streamVars, cometVars, histVars>>

\* ... and then the completion is settled, whatever the reader made of it in between.
Expire(t) ==
  /\ job[t].pc = "expire"
  /\ Settle(Completion(t), "failed")
  /\ GoUnary(t)
  /\ UNCHANGED <<committed, queue, pending, writer, reader, broken, streamVars, cometVars, histVars>>

UnaryCall(t) == [req |-> Req(t), via |-> t, st |-> "sent"]

\* the Unary fallback: stub->PushToComet
Call(t) ==
  /\ job[t].pc = "unary"
  /\ calls' = calls \cup {UnaryCall(t)}
  /\ Go(t, job[t].n, "rpc", job[t].u)
  /\ UNCHANGED <<committed, done, queue, pending, writer, reader, broken, streamVars,
                 inflight, recent, faults, histVars>>

\* the next Unary attempt, or delivery_lost
UnaryFailed(t) ==
  IF job[t].u < UnaryTries
  THEN Go(t, job[t].n, "unary", job[t].u + 1)
  ELSE Return(t, FALSE)

\* the RPC comes back
Answered(t) ==
  /\ job[t].pc = "rpc"
  /\ \E c \in calls :
       /\ c.via = t /\ c.st \in Replies
       /\ calls' = calls \ {c}
       /\ IF Ok(c.st) THEN Return(t, TRUE) ELSE UnaryFailed(t)
       /\ AckIf(c.req, c.st)
  /\ UNCHANGED <<committed, done, queue, pending, writer, reader, broken, streamVars, inflight, recent, faults,
                 processed, delivered>>

\* Handlers that nobody waits for any more; what they answer is dropped.  Two such calls of a
\* request that have not begun count as one.
Orphans(s) == {[c EXCEPT !.via = "lost"] : c \in {d \in s : d.st \notin Replies}}

\* The deadline passes or the connection fails; Comet may have the call, or get it later.
RpcFails(t) ==
  /\ job[t].pc = "rpc"
  /\ LET mine == {c \in calls : c.via = t} IN
       \E kept \in SUBSET Orphans(mine) :
         /\ \A c \in Orphans(mine) : c.st = "begun" => c \in kept
         /\ calls' = (calls \ mine) \cup kept
  /\ UnaryFailed(t)
  /\ UNCHANGED <<committed, done, queue, pending, writer, reader, broken, streamVars,
                 inflight, recent, faults, histVars>>

-----------------------------------------------------------------------------
(* The writer thread.                                                      *)

Idle == [pc |-> "idle", c |-> None, k |-> 0]
Trying(c, k) == [pc |-> "try", c |-> c, k |-> k]

\* the reader thread: not running, or inside Read
Away == [pc |-> "none", c |-> None, ok |-> FALSE]
Reading == [pc |-> "read", c |-> None, ok |-> FALSE]

Registered == {c \in Completions : pending[c[1]] = c[2]}

\* requests end without a reply: the reader's exit and ReconnectStream
Fail(lost) ==
  /\ done' = [c \in Completions |-> IF c \in lost /\ done[c] = "no" THEN "failed" ELSE done[c]]
  /\ pending' = [r \in Requests |-> 0]

\* Nobody waits for the calls of old any more.  Of the stream, Comet handles the request it
\* has, or one more that it had already received.
Abandon(old) ==
  LET next == IF up = <<>> \/ \E c \in calls : c.via = "stream" THEN {}
              ELSE {[req |-> Head(up), via |-> "lost", st |-> "sent"]}
  IN \E more \in SUBSET next : calls' = (calls \ old) \cup Orphans(old) \cup more

HandlerEnds == Abandon({c \in calls : c.via = "stream"})

\* Mutant of Reconnect: the requests sent on the old stream are left to their deadlines.
BadReconnect(ok, lost) ==
  /\ reader.pc # "give"
  /\ HandlerEnds
  /\ pending' = [r \in Requests |-> IF <<r, pending[r]>> \in lost THEN pending[r] ELSE 0]
  /\ UNCHANGED done
  /\ up' = <<>> /\ down' = <<>>
  /\ stream' = IF ok THEN "up" ELSE "none"
  /\ broken' = (~ok /\ (broken \/ reader.pc = "read"))
  /\ reader' = IF ok THEN Reading ELSE Away

\* ReconnectStream: cancel the old stream, join its reader, fail its requests, open a new one.
Reconnect(ok, lost) ==
  /\ reader.pc # "give"
  /\ HandlerEnds
  /\ Fail(lost)
  /\ up' = <<>> /\ down' = <<>>
  /\ stream' = IF ok THEN "up" ELSE "none"
  /\ broken' = (~ok /\ (broken \/ reader.pc = "read"))
  /\ reader' = IF ok THEN Reading ELSE Away

Dequeue ==
  /\ writer.pc = "idle" /\ queue # <<>>
  /\ writer' = Trying(Head(queue), 0)
  /\ queue' = Tail(queue)
  /\ UNCHANGED <<committed, job, done, pending, reader, broken, streamVars, cometVars, histVars>>

Unhealthy == broken \/ stream = "none"

\* nothing to send: the writer looks after the stream
IdleReconnect ==
  /\ writer.pc = "idle" /\ queue = <<>> /\ Unhealthy
  /\ \E ok \in BOOLEAN : Reconnect(ok, Registered)
  /\ UNCHANGED <<committed, job, queue, writer, inflight, recent, faults, histVars>>

\* a try begins with a look at the stream
Repair ==
  /\ writer.pc = "try" /\ writer.k < WriteTries /\ Unhealthy
  /\ \E ok \in BOOLEAN :
       /\ Reconnect(ok, Registered)
       /\ writer' = IF ok THEN [writer EXCEPT !.pc = "register"] ELSE Trying(writer.c, writer.k + 1)
  /\ UNCHANGED <<committed, job, queue, inflight, recent, faults, histVars>>

\* under both locks: an abandoned request is not sent, the others are registered
Register ==
  /\ writer.pc = "register" \/ (writer.pc = "try" /\ writer.k < WriteTries /\ ~Unhealthy)
  /\ IF done[writer.c] # "no"
     THEN writer' = Idle /\ UNCHANGED pending
     ELSE /\ pending' = [pending EXCEPT ![writer.c[1]] = writer.c[2]]
          /\ writer' = [writer EXCEPT !.pc = "write"]
  /\ UNCHANGED <<committed, job, done, queue, reader, broken, streamVars, cometVars, histVars>>

\* Mutant of Write: a request that was written counts as delivered.
BadWrite ==
  /\ writer.pc = "write" /\ stream = "up"
  /\ up' = Append(up, writer.c[1])
  /\ Settle(writer.c, "ok")
  /\ writer' = Idle
  /\ UNCHANGED <<committed, job, queue, pending, reader, broken, stream, down, cometVars, histVars>>

\* Write returns true: it is in gRPC's buffer, no more.
Write ==
  /\ writer.pc = "write" /\ stream = "up"
  /\ up' = Append(up, writer.c[1])
  /\ writer' = Idle
  /\ UNCHANGED <<committed, job, done, queue, pending, reader, broken, stream, down, cometVars, histVars>>

\* Write returns false: the request is taken out of pending and, unless its completion is
\* settled, tried again on a new stream.
WriteFails ==
  /\ writer.pc = "write" /\ stream = "dead"
  /\ IF done[writer.c] # "no"
     THEN /\ writer' = Idle
          /\ pending' = Erased(writer.c)
          /\ UNCHANGED <<done, reader, broken, streamVars, calls>>
     ELSE /\ \E ok \in BOOLEAN : Reconnect(ok, Registered \ {writer.c})
          /\ writer' = Trying(writer.c, writer.k + 1)
  /\ UNCHANGED <<committed, job, queue, inflight, recent, faults, histVars>>

\* all tries failed
GiveUp ==
  /\ writer.pc = "try" /\ writer.k = WriteTries
  /\ Settle(writer.c, "failed")
  /\ writer' = Idle
  /\ UNCHANGED <<committed, job, queue, pending, reader, broken, streamVars, cometVars, histVars>>

-----------------------------------------------------------------------------
(* The reader thread.                                                      *)

\* A reply completes the request that is registered for it; others are unmatched.
Receive ==
  /\ reader.pc = "read" /\ down # <<>>
  /\ down' = Tail(down)
  /\ LET r == Head(down).req
         reply == Head(down).st
     IN IF pending[r] = 0 THEN UNCHANGED <<pending, reader, acked>>
        ELSE /\ pending' = [pending EXCEPT ![r] = 0]
             /\ AckIf(r, reply)
             /\ reader' = [pc |-> "give", c |-> <<r, pending[r]>>, ok |-> Ok(reply)]
  /\ UNCHANGED <<committed, job, done, queue, writer, broken, stream, up, cometVars,
                 processed, delivered>>

\* ... and its completion is settled under its own lock.
Give ==
  /\ reader.pc = "give"
  /\ Settle(reader.c, IF reader.ok THEN "ok" ELSE "failed")
  /\ reader' = Reading
  /\ UNCHANGED <<committed, job, queue, pending, writer, broken, streamVars, cometVars, histVars>>

\* Read returns false
ReaderExits ==
  /\ reader.pc = "read" /\ stream = "dead" /\ down = <<>>
  /\ broken' = TRUE
  /\ reader' = [pc |-> "sweep", c |-> None, ok |-> FALSE]
  /\ UNCHANGED <<committed, job, done, queue, pending, writer, streamVars, cometVars, histVars>>

Sweep ==
  /\ reader.pc = "sweep"
  /\ Fail(Registered)
  /\ reader' = Away
  /\ UNCHANGED <<committed, job, queue, writer, broken, streamVars, cometVars, histVars>>

-----------------------------------------------------------------------------
(* Comet.                                                                  *)

\* A handler is done with c, which is in s.
Answer(c, s, reply) ==
  /\ calls' = (s \ {c}) \cup (IF c.via \in Threads THEN {[c EXCEPT !.st = reply]} ELSE {})
  /\ down' = IF c.via = "stream" THEN Append(down, [req |-> c.req, st |-> reply]) ELSE down

\* Mutant of Accept: only completed requests are duplicates.
BadAccept(c, s) ==
  /\ IF c.req \in Range(recent) THEN Answer(c, s, "nobody") /\ UNCHANGED inflight
     ELSE IF Cardinality(inflight) >= DedupMax
     THEN Answer(c, s, "busy") /\ UNCHANGED inflight
     ELSE /\ calls' = (s \ {c}) \cup {[c EXCEPT !.st = "begun"]}
          /\ inflight' = inflight \cup {c.req}
          /\ UNCHANGED down
  /\ UNCHANGED recent

\* AcceptPushRequest: a completed request is answered at once, one in flight gets 503.
Accept(c, s) ==
  /\ IF c.req \in Range(recent) THEN Answer(c, s, "nobody") /\ UNCHANGED inflight
     ELSE IF c.req \in inflight \/ Cardinality(inflight) >= DedupMax
     THEN Answer(c, s, "busy") /\ UNCHANGED inflight
     ELSE /\ calls' = (s \ {c}) \cup {[c EXCEPT !.st = "begun"]}
          /\ inflight' = inflight \cup {c.req}
          /\ UNCHANGED down
  /\ UNCHANGED recent

\* PushStream reads its next request, one at a time.
ReadRequest ==
  /\ stream = "up" /\ up # <<>>
  /\ \A c \in calls : c.via # "stream"
  /\ up' = Tail(up)
  /\ LET c == [req |-> Head(up), via |-> "stream", st |-> "sent"] IN Accept(c, calls \cup {c})
  /\ UNCHANGED <<jobVars, stream, faults, histVars>>

\* PushToComet, also when its caller is gone
BeginCall(c) ==
  /\ c.st = "sent"
  /\ Accept(c, calls)
  /\ UNCHANGED <<jobVars, stream, up, faults, histVars>>

Newest(s) == IF Len(s) > DedupMax THEN Tail(s) ELSE s

\* The clients are sent the message (or there are none), and the request is completed.
Fanout(c) ==
  /\ c.st = "begun"
  /\ \E reply \in {"some", "nobody"} :
       /\ Answer(c, calls, reply)
       /\ delivered' = IF reply = "some" THEN delivered \cup {c.req} ELSE delivered
  /\ inflight' = inflight \ {c.req}
  /\ recent' = Newest(Append(recent, c.req))
  /\ processed' = processed \cup {c.req}
  /\ UNCHANGED <<jobVars, stream, up, faults, acked>>

\* Mutant of Refuse: the request stays in flight.
BadRefuse(c) ==
  /\ c.st = "begun" /\ c.req \in RoomRequests
  /\ Answer(c, calls, "busy")
  /\ UNCHANGED <<jobVars, stream, up, inflight, recent, faults, histVars>>

\* RoomAuthorizationUnavailable, before any client is sent it: the request is forgotten.
Refuse(c) ==
  /\ c.st = "begun" /\ c.req \in RoomRequests
  /\ Answer(c, calls, "busy")
  /\ inflight' = inflight \ {c.req}
  /\ UNCHANGED <<jobVars, stream, up, recent, faults, histVars>>

-----------------------------------------------------------------------------
(* Failures.                                                               *)

\* The connection of the stream breaks; the reader still gets what had arrived.
Break ==
  /\ stream = "up"
  /\ stream' = "dead"
  /\ HandlerEnds
  /\ up' = <<>>
  /\ \E n \in 0..Len(down) : down' = SubSeq(down, 1, n)
  /\ UNCHANGED <<jobVars, inflight, recent, histVars>>

\* Comet dies and is started again.
CometCrash ==
  /\ calls' = {} /\ inflight' = {} /\ recent' = <<>>
  /\ stream' = IF stream = "up" THEN "dead" ELSE stream
  /\ up' = <<>>
  /\ \E n \in 0..Len(down) : down' = SubSeq(down, 1, n)
  /\ UNCHANGED <<jobVars, histVars>>

\* each consumer begins after its committed offset
Fresh == [t \in Threads |-> Start(committed[t] + 1)]

\* The Job dies and is started again; InitStreams opens the stream.
JobCrash ==
  /\ Abandon(calls)
  /\ job' = Fresh /\ queue' = <<>> /\ writer' = Idle
  /\ done' = [c \in Completions |-> "no"] /\ pending' = [r \in Requests |-> 0]
  /\ reader' = Reading
  /\ broken' = FALSE /\ stream' = "up" /\ up' = <<>> /\ down' = <<>>
  /\ UNCHANGED <<committed, inflight, recent, histVars>>

Init ==
  /\ committed = [t \in Threads |-> 0]
  /\ job = Fresh /\ queue = <<>> /\ writer = Idle
  /\ done = [c \in Completions |-> "no"] /\ pending = [r \in Requests |-> 0]
  /\ reader = Reading
  /\ broken = FALSE /\ stream = "up" /\ up = <<>> /\ down = <<>>
  /\ calls = {} /\ inflight = {} /\ recent = <<>> /\ faults = 0
  /\ acked = {} /\ processed = {} /\ delivered = {}

Consumer(t) ==
  Push(t) \/ Woken(t) \/ Timeout(t) \/ Expire(t) \/ Call(t) \/ Answered(t) \/ RpcFails(t) \/ Commit(t)
Writer == Dequeue \/ IdleReconnect \/ Repair \/ Register \/ Write \/ WriteFails \/ GiveUp
Reader == Receive \/ Give \/ ReaderExits \/ Sweep
Comet == ReadRequest \/ \E c \in calls : BeginCall(c) \/ Fanout(c) \/ Refuse(c)
Failure ==
  /\ faults < MaxFaults /\ faults' = faults + 1
  /\ Break \/ CometCrash \/ JobCrash

Next == (\E t \in Threads : Consumer(t)) \/ Writer \/ Reader \/ Comet \/ Failure

Spec == Init /\ [][Next]_vars

\* The Job's two stream threads and Comet's handlers run; no deadline need ever fire.
Fairness ==
  /\ \A t \in Threads : WF_vars(Woken(t))
  /\ WF_vars(Writer) /\ WF_vars(Reader) /\ WF_vars(Comet)

FairSpec == Spec /\ Fairness

-----------------------------------------------------------------------------
(* Properties.                                                             *)

TypeOK ==
  /\ \A t \in Threads :
       /\ committed[t] \in 0..Len(Topic[t])
       /\ job[t].record \in 1..Len(Topic[t]) + 1 /\ job[t].n \in 1..Attempts
       /\ job[t].u \in 0..UnaryTries
       /\ job[t].pc \in {"push", "wait", "expire", "unary", "rpc", "handled", "lost"}
  /\ done \in [Completions -> {"no", "ok", "failed"}]
  /\ queue \in Seq(Completions) /\ Len(queue) <= QueueMax
  /\ pending \in [Requests -> 0..Attempts]
  /\ writer.pc \in {"idle", "try", "register", "write"} /\ writer.k \in 0..WriteTries
  /\ writer.c \in Completions \cup {None}
  /\ reader.pc \in {"none", "read", "give", "sweep"} /\ reader.c \in Completions \cup {None}
  /\ broken \in BOOLEAN /\ stream \in {"none", "up", "dead"}
  /\ up \in Seq(Requests) /\ down \in Seq([req : Requests, st : Replies])
  /\ calls \subseteq [req : Requests, via : Threads \cup {"stream", "lost"},
                      st : Replies \cup {"sent", "begun"}]
  /\ inflight \subseteq Requests /\ Cardinality(inflight) <= DedupMax
  /\ recent \in Seq(Requests) /\ Len(recent) <= DedupMax
  /\ acked \subseteq Requests /\ processed \subseteq Requests /\ delivered \subseteq Requests

\* job/service.h, "the offset is committed only after Comet's reply": a callback that returns
\* true for a request does so because some Comet completed its fan-out, whatever broke, died,
\* expired or answered late in between.
HandledIsProcessed == \A t \in Threads : job[t].pc = "handled" => Req(t) \in processed

\* delivered_ack, for which the sender's bubble turns to "delivered", is sent only of a message
\* that reached a client.
AckedIsDelivered == acked \subseteq delivered

\* comet_grpc_service.cpp, "falling back to Unary does not deliver twice": among the last
\* DedupMax requests that a Comet completed none occurs twice, however the stream, its
\* successor, Unary calls and calls nobody waits for overlap.
FannedOutOnce == IsInjective(recent)

\* A request is either in flight under one handler or not at all, and is in flight only while
\* that handler works on it: no request is locked out by a handler that has ended.
InFlightIsBegun ==
  /\ \A r \in Requests : Cardinality({c \in calls : c.req = r /\ c.st = "begun"}) <= 1
  /\ inflight = {c.req : c \in {d \in calls : d.st = "begun"}}

\* the stream still owes a reply for request r
Owed(r) ==
  \/ r \in Range(up)
  \/ \E c \in calls : c.req = r /\ c.via = "stream"
  \/ \E i \in DOMAIN down : down[i].req = r

\* A registered request has its reply on the way, or the reader or the writer is about to fail
\* it: no consumer is left to its deadline by a stream that was replaced.
RegisteredIsOwed ==
  \A c \in Registered :
    \/ writer.pc = "write" /\ writer.c = c
    \/ reader.pc = "sweep"
    \/ stream = "dead" /\ reader.pc \in {"read", "give"}
    \/ Owed(c[1])

\* The wait for a completion ends even if push_rpc_deadline_ms never fires: whatever the stream
\* goes through, the writer or the reader settles the request.
WaitersAreWoken == \A t \in Threads : job[t].pc = "wait" ~> job[t].pc # "wait"

=============================================================================
