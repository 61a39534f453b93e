---------------------------- MODULE WeightTransfer --------------------------
(* How a refit moves the weights of the policy into the generation engine:
   refit_policy_generation (nemo_rl/algorithms/grpo.py) and the three ways
   it has.
     "ipc"         policy worker and engine rank share a GPU: the worker
                   copies tensors into one of two buffers, hands its CUDA IPC
                   handle to the engine rank over a REQ/REP socket, and packs
                   the other buffer meanwhile (nemo_rl/models/policy/utils.py,
                   nemo_rl/models/generation/vllm/vllm_backend.py).
     "collective"  worker and engine have GPUs of their own: all of them pack
                   or unpack tensors on a ring of CUDA streams and meet in NCCL
                   broadcasts (nemo_rl/utils/packed_tensor.py).
     "http"        the workers gather the handles of one tensor, and the first
                   worker of each SGLang server posts them.
   Parameters are numbered in the order of the state dict, which the worker and
   the metadata of the engine (prepare_refit_info) share.  The content of
   parameter n after v training steps is <<v, n>>.                          *)
EXTENDS Integers, Sequences, FiniteSets, FiniteSetsExt, SequencesExt

CONSTANTS
  Setups,     \* configurations: see SetupsAssumption
  Alignment   \* the alignment of a tensor in an IPC buffer, in units of bytes

SetupsAssumption ==
  \A s \in Setups :
    /\ s.transport \in {"ipc", "collective", "http"}
    /\ s.ranks \in Nat \ {0}            \* policy workers, and engine ranks
    /\ s.sizes \in Seq(Nat \ {0})       \* bytes of each parameter
    /\ s.limit \in Nat                  \* bytes of the buffer, or of a group
    /\ s.buffers \in Nat \ {0}          \* NRL_REFIT_NUM_BUFFERS
    /\ s.tp \in Nat \ {0}               \* ranks of one SGLang server
    /\ s.refits \in Nat \ {0}
    /\ s.faults \in BOOLEAN             \* may loading or posting raise?
ASSUME SetupsAssumption
ASSUME AlignmentAssumption == Alignment \in Nat \ {0}

VARIABLES
  setup,
  refit,      \* the refit under way or just over, which is the policy version
  outcome,    \* "running", "updated" or "raised": refit_policy_generation
  policy,     \* policy[r]: the program counter and locals of policy worker r
  engine,     \* engine[r]: the same of engine rank r
  weights,    \* weights[r][n]: what engine rank r has for parameter n
  memory,     \* memory[r][b][i]: byte i of IPC buffer b of worker r
  copies,     \* copies[r]: the copies into buffers still on worker r's stream
  socket,     \* socket[r]: the message between worker and engine rank r
  streams,    \* streams[m][b]: operations queued on stream b of member m
  delivered   \* the number of broadcasts that have completed

vars == <<setup, refit, outcome, policy, engine, weights, memory, copies,
          socket, streams, delivered>>

Empty == <<"empty">>         \* no message on the socket
Ack == <<"ack">>          \* IPCProtocol.ACK
Complete == <<"complete">>   \* IPCProtocol.COMPLETE
Garbage == <<-1, 0>>      \* bytes that are not those of one parameter

Ranks == 1..setup.ranks
Params == 1..Len(setup.sizes)
Size(n) == setup.sizes[n]
Bytes(names) == FoldLeft(LAMBDA sum, n : sum + Size(n), 0, names)

Ipc == setup.transport = "ipc"
Collective == setup.transport = "collective"
Http == setup.transport = "http"

\* calculate_aligned_size
Aligned(bytes) == ((bytes + Alignment - 1) \div Alignment) * Alignment

-----------------------------------------------------------------------------
(* State at the start of a refit: the locals of the streaming functions. *)

BufferSize == setup.limit \div 2          \* of each of the two IPC buffers
Fresh == [pc |-> "loop", next |-> 1, names |-> <<>>, used |-> 0, buffer |-> 1,
          awaiting |-> FALSE, result |-> FALSE]
Freed == [b \in 1..2 |-> [i \in 0..Aligned(BufferSize) - 1 |-> Garbage]]

\* The members of the NCCL group; worker 1 is the source of every broadcast.
Members == {<<"policy", r>> : r \in Ranks} \cup {<<"engine", r>> : r \in Ranks}
Source == <<"policy", 1>>
IsEngine(m) == m[1] = "engine"
Local(m) == IF IsEngine(m) THEN engine[m[2]] ELSE policy[m[2]]
Buffers == 0..setup.buffers - 1

Init ==
  /\ setup \in Setups
  /\ refit = 1 /\ outcome = "running"
  /\ policy = [r \in Ranks |-> Fresh]
  /\ engine = [r \in Ranks |-> Fresh]
  /\ weights = [r \in Ranks |-> [n \in Params |-> <<0, n>>]]
  /\ memory = [r \in Ranks |-> Freed]
  /\ copies = [r \in Ranks |-> <<>>]
  /\ socket = [r \in Ranks |-> Empty]
  /\ streams = [m \in Members |-> [b \in Buffers |-> <<>>]]
  /\ delivered = 0

SetPolicy(r, local) == policy' = [policy EXCEPT ![r] = local]
SetEngine(r, local) == engine' = [engine EXCEPT ![r] = local]
ipcVars == <<memory, copies, socket>>
ncclVars == <<streams, delivered>>
Running == outcome = "running" /\ UNCHANGED <<setup, refit, outcome>>

-----------------------------------------------------------------------------
(* CUDA IPC: the policy worker, stream_weights_via_ipc_zmq_impl *)

\* The tensor that comes next does not go into what is left of the buffer.
Overflows(p) == p.used + Aligned(Size(p.next)) > BufferSize

\* pack_tensor: the copy is queued on the worker's stream (non_blocking).
Pack(r) ==
  LET p == policy[r] IN
  /\ Ipc /\ Running
  /\ p.pc = "loop" /\ p.next \in Params /\ ~ Overflows(p)
  /\ copies' = [copies EXCEPT ![r] = Append(@, <<p.buffer, p.used, p.next>>)]
  /\ SetPolicy(r, [p EXCEPT !.names = Append(@, p.next), !.next = @ + 1,
                            !.used = @ + Aligned(Size(p.next))])
  /\ UNCHANGED <<engine, weights, memory, socket, ncclVars>>

\* The stream gets to the oldest copy.
CopyLands(r) ==
  LET c == Head(copies[r]) IN
  /\ Ipc /\ Running /\ copies[r] # <<>>
  /\ copies' = [copies EXCEPT ![r] = Tail(@)]
  /\ memory' = [memory EXCEPT ![r][c[1]] =
       [i \in DOMAIN @ |-> IF i \in c[2]..c[2] + Size(c[3]) - 1
                           THEN <<refit, c[3]>> ELSE @[i]]]
  /\ UNCHANGED <<policy, engine, weights, socket, ncclVars>>

\* The assertion that one tensor fits into a buffer; the buffers are freed.
TooLarge(r) ==
  LET p == policy[r] IN
  /\ Ipc /\ Running
  /\ p.pc = "loop" /\ p.next \in Params /\ Aligned(Size(p.next)) > BufferSize
  /\ SetPolicy(r, [p EXCEPT !.pc = "raised"])
  /\ memory' = [memory EXCEPT ![r] = Freed]
  /\ copies' = [copies EXCEPT ![r] = <<>>]
  /\ UNCHANGED <<engine, weights, socket, ncclVars>>

\* zmq_socket.recv(): the answer to the message before this one.
Answered(r) == policy[r].awaiting => socket[r] = Ack

GroupIsFull(r) ==
  LET p == policy[r] IN
  /\ p.pc = "loop" /\ p.names # <<>>
  /\ p.next \in Params => Overflows(p) /\ Aligned(Size(p.next)) <= BufferSize

\* Mutant: one buffer.
SameBuffer(b) == b
OtherBuffer(b) == 3 - b

\* send_buffer_group_overlap, and the switch to the other buffer: the copies
\* have landed and the engine rank is done with the group before.
Send(r) ==
  LET p == policy[r] IN
  /\ Ipc /\ Running
  /\ GroupIsFull(r) /\ copies[r] = <<>> /\ Answered(r)
  /\ socket' = [socket EXCEPT ![r] = <<"group", p.buffer, p.names, p.used>>]
  /\ SetPolicy(r, [p EXCEPT !.names = <<>>, !.used = 0, !.awaiting = TRUE,
                            !.buffer = OtherBuffer(@)])
  /\ UNCHANGED <<engine, weights, memory, copies, ncclVars>>

\* Everything has been sent: the answer to the last group, and COMPLETE.
SendComplete(r) ==
  LET p == policy[r] IN
  /\ Ipc /\ Running
  /\ p.pc = "loop" /\ p.next \notin Params /\ p.names = <<>>
  /\ Answered(r)
  /\ socket' = [socket EXCEPT ![r] = Complete]
  /\ SetPolicy(r, [p EXCEPT !.pc = "closing", !.awaiting = TRUE])
  /\ UNCHANGED <<engine, weights, memory, copies, ncclVars>>

\* The answer to COMPLETE; the buffers are freed.
Close(r) ==
  /\ Ipc /\ Running
  /\ policy[r].pc = "closing" /\ Answered(r)
  /\ socket' = [socket EXCEPT ![r] = Empty]
  /\ memory' = [memory EXCEPT ![r] = Freed]
  /\ SetPolicy(r, [policy[r] EXCEPT !.pc = "returned"])
  /\ UNCHANGED <<engine, weights, copies, ncclVars>>

\* zmq.Again after 120 s without an answer: TimeoutError, and the buffers are
\* freed even when the engine rank is only slow and still reads them.
AnswerTimesOut(r) ==
  LET p == policy[r] IN
  /\ Ipc /\ Running
  /\ \/ GroupIsFull(r) /\ copies[r] = <<>>
     \/ p.pc = "loop" /\ p.next \notin Params /\ p.names = <<>>
     \/ p.pc = "closing"
  /\ ~ Answered(r)
  /\ SetPolicy(r, [p EXCEPT !.pc = "raised"])
  /\ memory' = [memory EXCEPT ![r] = Freed]
  /\ UNCHANGED <<engine, weights, copies, socket, ncclVars>>

-----------------------------------------------------------------------------
(* CUDA IPC: the engine rank, update_weights_via_ipc_zmq.  Its locals: names,
   buffer and used are those of the message, next counts the keys loaded.   *)

Request(r) == socket[r] \notin {Empty, Ack}

\* recv_pyobj, which rebuilds the buffer from its handle.
Receive(r) ==
  /\ Ipc /\ Running
  /\ engine[r].pc = "loop" /\ Request(r) /\ socket[r] # Complete
  /\ SetEngine(r, [engine[r] EXCEPT !.pc = "load", !.next = 1,
                     !.buffer = socket[r][2], !.names = socket[r][3],
                     !.used = socket[r][4]])
  /\ UNCHANGED <<policy, weights, ipcVars, ncclVars>>

\* The offsets the engine rank computes from its own metadata.
Offset(names, i) ==
  FoldLeft(LAMBDA sum, n : sum + Aligned(Size(n)), 0, SubSeq(names, 1, i - 1))

\* What a view of the buffer shows at this moment.
View(r, b, offset, n) ==
  LET bytes == {memory[r][b][i] : i \in offset..offset + Size(n) - 1}
  IN IF Cardinality(bytes) = 1 THEN CHOOSE v \in bytes : TRUE ELSE Garbage

\* model.load_weights, one weight at a time.
Load(r) ==
  LET e == engine[r] IN
  /\ Ipc /\ Running
  /\ e.pc = "load" /\ e.next <= Len(e.names)
  /\ weights' = [weights EXCEPT ![r][e.names[e.next]] =
       View(r, e.buffer, Offset(e.names, e.next), e.names[e.next])]
  /\ SetEngine(r, [e EXCEPT !.next = @ + 1])
  /\ UNCHANGED <<policy, ipcVars, ncclVars>>

\* The assertion on the offset, and the answer once the stream is drained.
Acknowledge(r) ==
  LET e == engine[r] IN
  /\ Ipc /\ Running
  /\ e.pc = "load" /\ e.next > Len(e.names)
  /\ Offset(e.names, e.next) = e.used
  /\ socket' = [socket EXCEPT ![r] = Ack]
  /\ SetEngine(r, [e EXCEPT !.pc = "loop"])
  /\ UNCHANGED <<policy, weights, memory, copies, ncclVars>>

AcknowledgeComplete(r) ==
  /\ Ipc /\ Running
  /\ engine[r].pc = "loop" /\ socket[r] = Complete
  /\ socket' = [socket EXCEPT ![r] = Ack]
  /\ SetEngine(r, [engine[r] EXCEPT !.pc = "returned", !.result = TRUE])
  /\ UNCHANGED <<policy, weights, memory, copies, ncclVars>>

\* An exception, or 120 s without a message: False, and no answer.
EngineGivesUp(r) ==
  LET e == engine[r] IN
  /\ Ipc /\ Running
  /\ \/ e.pc = "load" /\ setup.faults
     \/ e.pc = "loop" /\ ~ Request(r)
  /\ SetEngine(r, [e EXCEPT !.pc = "returned"])
  /\ UNCHANGED <<policy, weights, ipcVars, ncclVars>>

-----------------------------------------------------------------------------
(* NCCL: packed_broadcast_producer in every policy worker and
   packed_broadcast_consumer in every engine rank.                          *)

\* The last parameter of the group that starts at n: the one that takes it
\* past the target, or the last of all.
GroupEnd(n) ==
  Min({k \in n..Len(setup.sizes) :
         Bytes([i \in 1..k - n + 1 |-> n + i - 1]) > setup.limit}
      \cup {Len(setup.sizes)})
Group(n) == [i \in 1..GroupEnd(n) - n + 1 |-> n + i - 1]
Full(names) == Bytes(names) > setup.limit

\* Mutant: the consumer stops as soon as the target is reached.
ConsumerGroupAt(n) ==
  LET ends == {k \in n..Len(setup.sizes) :
                 Bytes([i \in 1..k - n + 1 |-> n + i - 1]) >= setup.limit}
  IN [i \in 1..Min(ends \cup {Len(setup.sizes)}) - n + 1 |-> n + i - 1]
ConsumerGroup(n) == Group(n)

Operation(kind, k, names, data) ==
  [kind |-> kind, k |-> k, names |-> names, data |-> data]
SetLocal(m, local) ==
  IF IsEngine(m) THEN SetEngine(m[2], local) /\ UNCHANGED policy
  ELSE SetPolicy(m[2], local) /\ UNCHANGED engine

\* One round of the loop: the next stream is drained (synchronize), a group is
\* collected and its broadcast queued; an engine rank queues the loading of it
\* behind the broadcast, or raises there and returns False.  used counts the
\* broadcasts.
QueueGroup(m) ==
  LET l == Local(m)
      b == l.buffer % setup.buffers
      names == IF IsEngine(m) THEN ConsumerGroup(l.next) ELSE Group(l.next)
      broadcast == Operation("broadcast", l.used + 1, names, <<>>)
      after == [l EXCEPT !.buffer = (b + 1) % setup.buffers, !.used = @ + 1,
                         !.next = @ + Len(names),
                         !.pc = IF Full(names) THEN "loop" ELSE "returned",
                         !.result = ~ Full(names)]
  IN /\ Collective /\ Running
     /\ l.pc = "loop" /\ l.next \in Params /\ streams[m][b] = <<>>
     /\ \/ /\ streams' = [streams EXCEPT ![m][b] =
                IF IsEngine(m)
                THEN <<broadcast, Operation("load", l.used + 1, names, <<>>)>>
                ELSE <<broadcast>>]
           /\ SetLocal(m, after)
        \/ /\ IsEngine(m) /\ setup.faults
           /\ streams' = [streams EXCEPT ![m][b] = <<broadcast>>]
           /\ SetLocal(m, [after EXCEPT !.pc = "returned", !.result = FALSE])
     /\ UNCHANGED <<weights, ipcVars, delivered>>

\* The iterator ends right after a full group: one more stream is drained.
QueueNothing(m) ==
  LET l == Local(m) IN
  /\ Collective /\ Running
  /\ l.pc = "loop" /\ l.next \notin Params
  /\ streams[m][l.buffer % setup.buffers] = <<>>
  /\ SetLocal(m, [l EXCEPT !.pc = "returned", !.result = TRUE])
  /\ UNCHANGED <<weights, ipcVars, ncclVars>>

\* The operation at the head of a stream of m that is broadcast k, if any.
Heads(m, k) ==
  {b \in Buffers : streams[m][b] # <<>> /\ Head(streams[m][b]).kind = "broadcast"
                   /\ Head(streams[m][b]).k = k}
HeadNames(m, k) == {Head(streams[m][b]).names : b \in Heads(m, k)}

\* NCCL runs the broadcasts of one group of processes in order, each when all
\* members have got to it with buffers of the same length.
Broadcast ==
  LET k == delivered + 1 IN
  /\ Collective /\ UNCHANGED <<setup, refit, outcome>>
  /\ \A m \in Members : \E b \in Heads(m, k) :
       \A names \in HeadNames(Source, k) :
          Bytes(Head(streams[m][b]).names) = Bytes(names)
  /\ streams' = [m \in Members |-> [b \in Buffers |->
       IF b \notin Heads(m, k) THEN streams[m][b]
       ELSE [i \in 1..Len(streams[m][b]) - 1 |->
               [streams[m][b][i + 1] EXCEPT
                  !.data = CHOOSE names \in HeadNames(Source, k) : TRUE]]]]
  /\ delivered' = k
  /\ UNCHANGED <<policy, engine, weights, ipcVars>>

\* unpack_tensor and post_unpack_func: the packed bytes are split by the sizes
\* of this rank's group.
LoadLands(r, b) ==
  LET m == <<"engine", r>>
      op == Head(streams[m][b]) IN
  /\ Collective /\ UNCHANGED <<setup, refit, outcome>>
  /\ streams[m][b] # <<>> /\ op.kind = "load"
  /\ weights' = [weights EXCEPT ![r] = [n \in Params |->
       IF n \notin ToSet(op.names) THEN @[n]
       ELSE IF op.names = op.data THEN <<refit, n>> ELSE Garbage]]
  /\ streams' = [streams EXCEPT ![m][b] = Tail(@)]
  /\ UNCHANGED <<policy, engine, ipcVars, delivered>>

-----------------------------------------------------------------------------
(* HTTP: stream_weights_via_http_impl *)

\* The workers on the GPUs of one server, and the one that posts.
Server(r) == {q \in Ranks : (q - 1) \div setup.tp = (r - 1) \div setup.tp}
Leader(r) == Min(Server(r))
Advance(p) == [p EXCEPT !.next = @ + 1,
                        !.pc = IF p.next = Len(setup.sizes) THEN "returned"
                               ELSE "loop"]

\* all_gather_object of the handles of one parameter, by all workers.
Gather ==
  /\ Http /\ Running
  /\ \A r \in Ranks : policy[r].pc = "loop"
  /\ policy' = [r \in Ranks |->
       IF r = Leader(r)
       THEN [policy[r] EXCEPT !.pc = "post",
                              !.names = [q \in Server(r) |-> policy[q].next]]
       ELSE Advance(policy[r])]
  /\ UNCHANGED <<engine, weights, ipcVars, ncclVars>>

\* _send_tensor_to_sglang: each rank of the server opens the handle at its index.
Post(r) ==
  LET p == policy[r] IN
  /\ Http /\ Running /\ p.pc = "post"
  /\ weights' = [q \in Ranks |->
       IF q \in Server(r) THEN [weights[q] EXCEPT ![p.next] = <<refit, p.names[q]>>]
       ELSE weights[q]]
  /\ SetPolicy(r, Advance(p))
  /\ UNCHANGED <<engine, ipcVars, ncclVars>>

\* An error status, or no response for 120 s.
PostFails(r) ==
  /\ Http /\ Running /\ setup.faults /\ policy[r].pc = "post"
  /\ SetPolicy(r, [policy[r] EXCEPT !.pc = "raised"])
  /\ UNCHANGED <<engine, weights, ipcVars, ncclVars>>

-----------------------------------------------------------------------------
(* refit_policy_generation *)

\* update_weights_via_ipc_zmq and update_weights_from_collective of the vLLM
\* worker look at the result of the first rank of collective_rpc.
Success == Http \/ engine[1].result

RefitReturns ==
  /\ outcome = "running"
  /\ \A r \in Ranks : policy[r].pc = "returned" /\ (Http \/ engine[r].pc = "returned")
  /\ outcome' = IF Success THEN "updated" ELSE "raised"
  /\ UNCHANGED <<setup, refit, policy, engine, weights, ipcVars, ncclVars>>

\* ray.get(futures_train) raises what one of the workers raised.
RefitRaises ==
  /\ outcome = "running"
  /\ \E r \in Ranks : policy[r].pc = "raised"
  /\ outcome' = "raised"
  /\ UNCHANGED <<setup, refit, policy, engine, weights, ipcVars, ncclVars>>

\* After the next training step.  That a step takes longer than what is still
\* queued on the streams is an assumption: nothing waits for it.
NextRefit ==
  /\ outcome = "updated" /\ refit < setup.refits
  /\ \A m \in Members, b \in Buffers : streams[m][b] = <<>>
  /\ refit' = refit + 1 /\ outcome' = "running"
  /\ policy' = [r \in Ranks |-> Fresh] /\ engine' = [r \in Ranks |-> Fresh]
  /\ delivered' = 0
  /\ UNCHANGED <<setup, weights, ipcVars, streams>>

PolicyStep(r) ==
  \/ Pack(r) \/ TooLarge(r) \/ Send(r) \/ SendComplete(r) \/ Close(r)
  \/ AnswerTimesOut(r)
  \/ QueueGroup(<<"policy", r>>) \/ QueueNothing(<<"policy", r>>)
  \/ Post(r) \/ PostFails(r)
EngineStep(r) ==
  \/ Receive(r) \/ Load(r) \/ Acknowledge(r) \/ AcknowledgeComplete(r)
  \/ EngineGivesUp(r)
  \/ QueueGroup(<<"engine", r>>) \/ QueueNothing(<<"engine", r>>)
StreamStep(r) == CopyLands(r) \/ \E b \in Buffers : LoadLands(r, b)
Driver == Gather \/ RefitReturns \/ RefitRaises \/ NextRefit

Next ==
  \/ \E r \in Ranks : PolicyStep(r) \/ EngineStep(r) \/ StreamStep(r)
  \/ Broadcast
  \/ Driver

\* Processes, streams and the 120 s timers run on; that loading or posting
\* raises is never required.
MaxRanks == Max({s.ranks : s \in Setups})
Fairness ==
  /\ \A r \in 1..MaxRanks : /\ WF_vars(r \in Ranks /\ PolicyStep(r))
                            /\ WF_vars(r \in Ranks /\ EngineStep(r))
                            /\ WF_vars(r \in Ranks /\ StreamStep(r))
  /\ WF_vars(Broadcast)
  /\ WF_vars(Driver)

Spec == Init /\ [][Next]_vars /\ Fairness

-----------------------------------------------------------------------------
(* What is checked *)

\* Parameter n of engine rank r is up to date, or will be when the stream of
\* this rank gets there.
Queued(r, n) ==
  \E b \in Buffers : \E i \in 1..Len(streams[<<"engine", r>>][b]) :
     LET op == streams[<<"engine", r>>][b][i]
     IN op.kind = "load" /\ n \in ToSet(op.names)
Updated(r, n) == weights[r][n] = <<refit, n>> \/ Queued(r, n)

\* An engine rank never holds the bytes of another parameter or of a buffer
\* being packed, unless its worker gave up on it, which makes the refit raise;
\* and a refit that succeeds has brought every parameter to every rank (with
\* the collective transport: to the first one, whose result is looked at).
\* A buffer packed again before the engine rank is done with it, groups cut
\* differently by the two sides, or an offset computed differently break this.
LoadedWhatWasSent ==
  /\ \A r \in Ranks, n \in Params :
       policy[r].pc = "raised" \/ \E v \in 0..refit : weights[r][n] = <<v, n>>
  /\ outcome = "updated" =>
       \A r \in (IF Collective THEN {1} ELSE Ranks), n \in Params : Updated(r, n)

\* An engine rank has left the collective: its peers wait in the broadcast.
Deserted ==
  Collective /\ \E r \in Ranks : engine[r].pc = "returned" /\ ~ engine[r].result

\* The training gets past its refits, all weights in place, or the refit raises:
\* the workers, the engine ranks and the broadcasts do not wait for each other
\* for ever unless an engine rank leaves a collective.
TransferEnds ==
  <>(\/ outcome = "raised"
     \/ Deserted
     \/ /\ refit = setup.refits /\ outcome = "updated"
        /\ \A r \in Ranks, n \in Params : weights[r][n] = <<refit, n>>)

\* What the caller takes from a refit that does not raise: every engine rank
\* has the new weights.
EveryRankUpdated ==
  outcome = "updated" => \A r \in Ranks, n \in Params : Updated(r, n)

=============================================================================
