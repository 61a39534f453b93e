------------------------ MODULE WeightTransfer_proofs ------------------------
(***************************************************************************)
(* For every list of parameter sizes, any number of ranks, buffers, server *)
(* sizes and refits, and whatever raises or times out: what an engine rank *)
(* loads is what its policy worker sent, with each of the transports.      *)
(*                                                                         *)
(* That the weights are right is not inductive.  What it rests on:         *)
(*   CUDA IPC    the tensors of a group lie end to end in the buffer, at   *)
(*               the offsets the engine rank computes from its own list    *)
(*               (Packing, Landed); the buffer handed over is not the one  *)
(*               being packed, and is not packed again before its group is *)
(*               acknowledged, that is, loaded (Exchange).                 *)
(*   collective  the k-th group of every member is the same piece of the   *)
(*               parameters, as all of them cut where the bytes pass the   *)
(*               target (StartOf, GroupNo), so the k-th broadcast brings   *)
(*               what the load queued behind it expects (StreamOk).        *)
(*   HTTP        all workers are at the same parameter when its handles    *)
(*               are gathered (HttpAt).                                    *)
(***************************************************************************)
EXTENDS WeightTransfer, SequenceLemmas, FiniteSetTheorems, TLAPS

\* The number of parameters.
N == Len(setup.sizes)

\* The constants of a configuration.
LEMMA TheSetup ==
  ASSUME setup \in Setups
  PROVE  /\ setup.ranks \in Nat \ {0} /\ setup.buffers \in Nat \ {0}
         /\ setup.tp \in Nat \ {0} /\ setup.limit \in Nat
         /\ setup.sizes \in Seq(Nat \ {0}) /\ N \in Nat
         /\ setup.transport \in {"ipc", "collective", "http"}
<1>1. setup.sizes \in Seq(Nat \ {0})
  BY SetupsAssumption DEF SetupsAssumption
<1>2. N \in Nat
  BY <1>1 DEF N
<1> QED BY <1>1, <1>2, SetupsAssumption DEF SetupsAssumption

-----------------------------------------------------------------------------
(* Types                                                                   *)

Fields == {"pc", "next", "names", "used", "buffer", "awaiting", "result"}

LocalTypes(f) == DOMAIN f = Ranks /\ \A r \in Ranks : DOMAIN f[r] = Fields
WeightTypes(w) == DOMAIN w = Ranks /\ \A r \in Ranks : DOMAIN w[r] = Params
MemoryTypes(f) ==
  /\ DOMAIN f = Ranks
  /\ \A r \in Ranks : DOMAIN f[r] = 1..2
  /\ \A r \in Ranks : \A b \in 1..2 : DOMAIN f[r][b] = 0..Aligned(BufferSize) - 1
StreamTypes(s) == DOMAIN s = Members /\ \A m \in Members : DOMAIN s[m] = Buffers

TypeInv ==
  /\ setup \in Setups
  /\ refit \in Nat
  /\ LocalTypes(policy) /\ LocalTypes(engine)
  /\ WeightTypes(weights)
  /\ MemoryTypes(memory)
  /\ DOMAIN copies = Ranks /\ DOMAIN socket = Ranks
  /\ StreamTypes(streams)

\* The locals at the start of a refit have the fields they keep.
LEMMA FreshFields == DOMAIN Fresh = Fields
BY DEF Fresh, Fields

\* What depends on the configuration alone does not change.
LEMMA SameSetup ==
  ASSUME setup' = setup
  PROVE  /\ Ranks' = Ranks /\ Params' = Params /\ Members' = Members
         /\ Buffers' = Buffers /\ BufferSize' = BufferSize /\ N' = N
         /\ Ipc' = Ipc /\ Collective' = Collective /\ Http' = Http
         /\ \A n : Size(n)' = Size(n)
         /\ \A f : LocalTypes(f)' = LocalTypes(f) /\ WeightTypes(f)' = WeightTypes(f)
                  /\ MemoryTypes(f)' = MemoryTypes(f) /\ StreamTypes(f)' = StreamTypes(f)
<1>1. Ranks' = Ranks /\ Params' = Params
  BY DEF Ranks, Params
<1>2. Members' = Members
  BY <1>1 DEF Members
<1>3. Buffers' = Buffers /\ BufferSize' = BufferSize /\ N' = N
  BY DEF Buffers, BufferSize, N
<1>4. Ipc' = Ipc /\ Collective' = Collective /\ Http' = Http
  BY DEF Ipc, Collective, Http
<1>5. \A n : Size(n)' = Size(n)
  BY DEF Size
<1>6. \A f : LocalTypes(f)' = LocalTypes(f)
  BY <1>1 DEF LocalTypes
<1>7. \A f : WeightTypes(f)' = WeightTypes(f)
  BY <1>1 DEF WeightTypes
<1>8. \A f : MemoryTypes(f)' = MemoryTypes(f)
  BY <1>1, <1>3 DEF MemoryTypes, Aligned
<1>9. \A f : StreamTypes(f)' = StreamTypes(f)
  BY <1>2, <1>3 DEF StreamTypes
<1> QED BY <1>1, <1>2, <1>3, <1>4, <1>5, <1>6, <1>7, <1>8, <1>9

\* A function of records that changes in one place.
LEMMA OneChanged ==
  ASSUME NEW f, LocalTypes(f), NEW r, NEW p, DOMAIN p = Fields, NEW g,
         g = [f EXCEPT ![r] = p]
  PROVE  LocalTypes(g)
<1> HIDE DEF Fields
<1> QED BY DEF LocalTypes

\* The types of what a step does not name.
LEMMA TypesOfTheRest ==
  ASSUME TypeInv, setup' = setup, refit' \in Nat,
         LocalTypes(policy'), LocalTypes(engine'), WeightTypes(weights'),
         MemoryTypes(memory'), DOMAIN copies' = Ranks, DOMAIN socket' = Ranks,
         StreamTypes(streams')
  PROVE  TypeInv'
BY SameSetup DEF TypeInv

\* The variables have their types at the start.
LEMMA InitTypes == Init => TypeInv
<1> SUFFICES ASSUME Init PROVE TypeInv
  OBVIOUS
<1>1. setup \in Setups /\ refit \in Nat
  BY DEF Init
<1>2. LocalTypes(policy) /\ LocalTypes(engine)
  BY FreshFields, Zenon DEF Init, LocalTypes
<1>3. WeightTypes(weights)
  BY Zenon DEF Init, WeightTypes
<1>4. DOMAIN copies = Ranks /\ DOMAIN socket = Ranks
  BY Zenon DEF Init
<1>5. StreamTypes(streams)
  BY Zenon DEF Init, StreamTypes
<1>6. MemoryTypes(memory)
  BY Zenon DEF Init, MemoryTypes, Freed
<1> QED BY <1>1, <1>2, <1>3, <1>4, <1>5, <1>6 DEF TypeInv

\* Where only policy workers and engine ranks, the socket, the copies, or the
\* counters change.
LEMMA LocalStepTypes ==
  ASSUME TypeInv, setup' = setup, refit' = refit,
         LocalTypes(policy'), LocalTypes(engine'),
         UNCHANGED <<weights, memory, streams>>,
         DOMAIN copies' = Ranks, DOMAIN socket' = Ranks
  PROVE  TypeInv'
BY TypesOfTheRest DEF TypeInv

\* Setting the locals of one worker keeps the type of all.
LEMMA PolicyTypes ==
  ASSUME TypeInv, NEW r, NEW p, DOMAIN p = Fields, SetPolicy(r, p)
  PROVE  LocalTypes(policy')
BY OneChanged DEF SetPolicy, TypeInv

\* So does setting those of one engine rank.
LEMMA EngineTypes ==
  ASSUME TypeInv, NEW r, NEW p, DOMAIN p = Fields, SetEngine(r, p)
  PROVE  LocalTypes(engine')
BY OneChanged DEF SetEngine, TypeInv

\* So does setting those of one member of the NCCL group.
LEMMA MemberTypes ==
  ASSUME TypeInv, NEW m \in Members, NEW p, DOMAIN p = Fields, SetLocal(m, p)
  PROVE  LocalTypes(policy') /\ LocalTypes(engine')
<1>1. CASE IsEngine(m)
  BY <1>1, EngineTypes DEF SetLocal, TypeInv
<1>2. CASE ~ IsEngine(m)
  BY <1>2, PolicyTypes DEF SetLocal, TypeInv
<1> QED BY <1>1, <1>2

\* Freed buffers have the type of the memory.
LEMMA MemoryFreed ==
  ASSUME TypeInv, NEW r, memory' = [memory EXCEPT ![r] = Freed]
  PROVE  MemoryTypes(memory')
<1>1. DOMAIN Freed = 1..2 /\ \A b \in 1..2 : DOMAIN Freed[b] = 0..Aligned(BufferSize) - 1
  BY Zenon DEF Freed
<1>2. MemoryTypes(memory)
  BY DEF TypeInv
<1> HIDE DEF Freed
<1> QED BY <1>1, <1>2 DEF MemoryTypes

\* A step of a policy worker keeps the types.
LEMMA PolicyStepTypes ==
  ASSUME TypeInv, NEW r \in Ranks,
         \/ Pack(r) \/ Send(r) \/ SendComplete(r) \/ PostFails(r)
         \/ TooLarge(r) \/ Close(r) \/ AnswerTimesOut(r) \/ Post(r)
  PROVE  TypeInv'
<1>0. /\ DOMAIN policy[r] = Fields /\ LocalTypes(policy) /\ LocalTypes(engine)
      /\ DOMAIN copies = Ranks /\ DOMAIN socket = Ranks
      /\ WeightTypes(weights) /\ MemoryTypes(memory) /\ StreamTypes(streams)
      /\ refit \in Nat
  BY DEF TypeInv, LocalTypes
<1> DEFINE p == policy[r]
<1>1. CASE Pack(r)
  <2>1. SetPolicy(r, [p EXCEPT !.names = Append(@, p.next), !.next = @ + 1,
                               !.used = @ + Aligned(Size(p.next))])
    BY <1>1 DEF Pack
  <2>2. LocalTypes(policy')
    BY ONLY <2>1, <1>0, TypeInv, PolicyTypes
  <2>3. DOMAIN copies' = Ranks /\ UNCHANGED <<setup, refit, engine, weights, memory, socket, streams>>
    BY <1>1, <1>0 DEF Pack, Running, ncclVars
  <2> QED BY <1>0, <2>2, <2>3, LocalStepTypes
<1>2. CASE Send(r)
  <2>1. SetPolicy(r, [p EXCEPT !.names = <<>>, !.used = 0, !.awaiting = TRUE,
                               !.buffer = OtherBuffer(@)])
    BY <1>2 DEF Send
  <2>2. LocalTypes(policy')
    BY ONLY <2>1, <1>0, TypeInv, PolicyTypes
  <2>3. DOMAIN socket' = Ranks /\ UNCHANGED <<setup, refit, engine, weights, memory, copies, streams>>
    BY <1>2, <1>0 DEF Send, Running, ncclVars
  <2> QED BY <1>0, <2>2, <2>3, LocalStepTypes
<1>3. CASE SendComplete(r)
  <2>1. SetPolicy(r, [p EXCEPT !.pc = "closing", !.awaiting = TRUE])
    BY <1>3 DEF SendComplete
  <2>2. LocalTypes(policy')
    BY ONLY <2>1, <1>0, TypeInv, PolicyTypes
  <2>3. DOMAIN socket' = Ranks /\ UNCHANGED <<setup, refit, engine, weights, memory, copies, streams>>
    BY <1>3, <1>0 DEF SendComplete, Running, ncclVars
  <2> QED BY <1>0, <2>2, <2>3, LocalStepTypes
<1>4. CASE PostFails(r)
  <2>1. SetPolicy(r, [policy[r] EXCEPT !.pc = "raised"])
    BY <1>4 DEF PostFails
  <2>2. LocalTypes(policy')
    BY ONLY <2>1, <1>0, TypeInv, PolicyTypes
  <2>3. UNCHANGED <<setup, refit, engine, weights, memory, copies, socket, streams>>
    BY <1>4 DEF PostFails, Running, ncclVars, ipcVars
  <2> QED BY <1>0, <2>2, <2>3, LocalStepTypes
<1>5. CASE TooLarge(r)
  <2>1. SetPolicy(r, [p EXCEPT !.pc = "raised"])
    BY <1>5 DEF TooLarge
  <2>2. LocalTypes(policy')
    BY ONLY <2>1, <1>0, TypeInv, PolicyTypes
  <2>3. DOMAIN copies' = Ranks /\ UNCHANGED <<setup, refit, engine, weights, socket, streams>>
    BY <1>5, <1>0 DEF TooLarge, Running, ncclVars
  <2>4. MemoryTypes(memory')
    BY <1>5, MemoryFreed DEF TooLarge
  <2> QED BY <1>0, <2>2, <2>3, <2>4, TypesOfTheRest
<1>6. CASE Close(r)
  <2>1. SetPolicy(r, [policy[r] EXCEPT !.pc = "returned"])
    BY <1>6 DEF Close
  <2>2. LocalTypes(policy')
    BY ONLY <2>1, <1>0, TypeInv, PolicyTypes
  <2>3. DOMAIN socket' = Ranks /\ UNCHANGED <<setup, refit, engine, weights, copies, streams>>
    BY <1>6, <1>0 DEF Close, Running, ncclVars
  <2>4. MemoryTypes(memory')
    BY <1>6, MemoryFreed DEF Close
  <2> QED BY <1>0, <2>2, <2>3, <2>4, TypesOfTheRest
<1>7. CASE AnswerTimesOut(r)
  <2>1. SetPolicy(r, [p EXCEPT !.pc = "raised"])
    BY <1>7 DEF AnswerTimesOut
  <2>2. LocalTypes(policy')
    BY ONLY <2>1, <1>0, TypeInv, PolicyTypes
  <2>3. UNCHANGED <<setup, refit, engine, weights, copies, socket, streams>>
    BY <1>7 DEF AnswerTimesOut, Running, ncclVars
  <2>4. MemoryTypes(memory')
    BY <1>7, MemoryFreed DEF AnswerTimesOut
  <2> QED BY <1>0, <2>2, <2>3, <2>4, TypesOfTheRest
<1>8. CASE Post(r)
  <2>1. SetPolicy(r, Advance(p))
    BY <1>8 DEF Post
  <2>2. DOMAIN Advance(p) = Fields
    BY <1>0 DEF Advance
  <2>3. LocalTypes(policy')
    BY ONLY <2>1, <2>2, TypeInv, PolicyTypes
  <2>4. UNCHANGED <<setup, refit, engine, memory, copies, socket, streams>>
    BY <1>8 DEF Post, Running, ncclVars, ipcVars
  <2>5. WeightTypes(weights')
    <3> DEFINE W(q) == IF q \in Server(r)
                       THEN [weights[q] EXCEPT ![p.next] = <<refit, p.names[q]>>]
                       ELSE weights[q]
    <3>1. weights' = [q \in Ranks |-> W(q)]
      BY <1>8 DEF Post
    <3>2. \A q \in Ranks : DOMAIN W(q) = Params
      BY <1>0 DEF WeightTypes
    <3> HIDE DEF W
    <3> QED BY <3>1, <3>2 DEF WeightTypes
  <2> QED BY <1>0, <2>3, <2>4, <2>5, TypesOfTheRest
<1> QED BY <1>1, <1>2, <1>3, <1>4, <1>5, <1>6, <1>7, <1>8

\* A step of an engine rank with CUDA IPC, or of a worker's stream, keeps the
\* types.
LEMMA EngineStepTypes ==
  ASSUME TypeInv, NEW r \in Ranks,
         \/ Receive(r) \/ Load(r) \/ Acknowledge(r) \/ AcknowledgeComplete(r)
         \/ EngineGivesUp(r) \/ CopyLands(r)
  PROVE  TypeInv'
<1>0. /\ DOMAIN engine[r] = Fields /\ LocalTypes(policy) /\ LocalTypes(engine)
      /\ DOMAIN copies = Ranks /\ DOMAIN socket = Ranks
      /\ WeightTypes(weights) /\ MemoryTypes(memory) /\ StreamTypes(streams)
      /\ refit \in Nat
  BY DEF TypeInv, LocalTypes
<1> DEFINE e == engine[r]
<1>1. CASE Receive(r)
  <2>1. SetEngine(r, [engine[r] EXCEPT !.pc = "load", !.next = 1,
                     !.buffer = socket[r][2], !.names = socket[r][3],
                     !.used = socket[r][4]])
    BY <1>1 DEF Receive
  <2>2. LocalTypes(engine')
    BY ONLY <2>1, <1>0, TypeInv, EngineTypes
  <2>3. UNCHANGED <<setup, refit, policy, weights, memory, copies, socket, streams>>
    BY <1>1 DEF Receive, Running, ncclVars, ipcVars
  <2> QED BY <1>0, <2>2, <2>3, LocalStepTypes
<1>2. CASE Load(r)
  <2>1. SetEngine(r, [e EXCEPT !.next = @ + 1])
    BY <1>2 DEF Load
  <2>2. LocalTypes(engine')
    BY ONLY <2>1, <1>0, TypeInv, EngineTypes
  <2>3. UNCHANGED <<setup, refit, policy, memory, copies, socket, streams>>
    BY <1>2 DEF Load, Running, ncclVars, ipcVars
  <2>4. WeightTypes(weights')
    BY <1>2, <1>0 DEF Load, WeightTypes
  <2> QED BY <1>0, <2>2, <2>3, <2>4, TypesOfTheRest
<1>3. CASE Acknowledge(r)
  <2>1. SetEngine(r, [e EXCEPT !.pc = "loop"])
    BY <1>3 DEF Acknowledge
  <2>2. LocalTypes(engine')
    BY ONLY <2>1, <1>0, TypeInv, EngineTypes
  <2>3. DOMAIN socket' = Ranks /\ UNCHANGED <<setup, refit, policy, weights, memory, copies, streams>>
    BY <1>3, <1>0 DEF Acknowledge, Running, ncclVars
  <2> QED BY <1>0, <2>2, <2>3, LocalStepTypes
<1>4. CASE AcknowledgeComplete(r)
  <2>1. SetEngine(r, [engine[r] EXCEPT !.pc = "returned", !.result = TRUE])
    BY <1>4 DEF AcknowledgeComplete
  <2>2. LocalTypes(engine')
    BY ONLY <2>1, <1>0, TypeInv, EngineTypes
  <2>3. DOMAIN socket' = Ranks /\ UNCHANGED <<setup, refit, policy, weights, memory, copies, streams>>
    BY <1>4, <1>0 DEF AcknowledgeComplete, Running, ncclVars
  <2> QED BY <1>0, <2>2, <2>3, LocalStepTypes
<1>5. CASE EngineGivesUp(r)
  <2>1. SetEngine(r, [e EXCEPT !.pc = "returned"])
    BY <1>5 DEF EngineGivesUp
  <2>2. LocalTypes(engine')
    BY ONLY <2>1, <1>0, TypeInv, EngineTypes
  <2>3. UNCHANGED <<setup, refit, policy, weights, memory, copies, socket, streams>>
    BY <1>5 DEF EngineGivesUp, Running, ncclVars, ipcVars
  <2> QED BY <1>0, <2>2, <2>3, LocalStepTypes
<1>6. CASE CopyLands(r)
  <2>1. DOMAIN copies' = Ranks
        /\ UNCHANGED <<setup, refit, policy, engine, weights, socket, streams>>
    BY <1>6, <1>0 DEF CopyLands, Running, ncclVars
  <2> DEFINE c == Head(copies[r])
             W == [i \in DOMAIN memory[r][c[1]] |->
                     IF i \in c[2]..c[2] + Size(c[3]) - 1
                     THEN <<refit, c[3]>> ELSE memory[r][c[1]][i]]
  <2>2. memory' = [memory EXCEPT ![r][c[1]] = W]
    BY <1>6 DEF CopyLands
  <2>3. DOMAIN W = DOMAIN memory[r][c[1]]
    OBVIOUS
  <2>4. MemoryTypes(memory')
    <3> HIDE DEF W, c
    <3> QED BY <1>0, <2>2, <2>3 DEF MemoryTypes
  <2> QED BY <1>0, <2>1, <2>4, TypesOfTheRest
<1> QED BY <1>1, <1>2, <1>3, <1>4, <1>5, <1>6

\* The locals of a member are those of its worker or engine rank.
LEMMA LocalOf ==
  ASSUME TypeInv, NEW m \in Members
  PROVE  DOMAIN Local(m) = Fields
BY DEF TypeInv, LocalTypes, Members, Local, IsEngine

\* Queueing a group, or nothing, keeps the types.
LEMMA StreamStepTypes ==
  ASSUME TypeInv, NEW m \in Members, QueueGroup(m) \/ QueueNothing(m)
  PROVE  TypeInv'
<1>0. /\ DOMAIN Local(m) = Fields /\ LocalTypes(policy) /\ LocalTypes(engine)
      /\ DOMAIN copies = Ranks /\ DOMAIN socket = Ranks
      /\ WeightTypes(weights) /\ MemoryTypes(memory) /\ StreamTypes(streams)
      /\ refit \in Nat
  BY LocalOf DEF TypeInv
<1> DEFINE l == Local(m)
<1>1. CASE QueueGroup(m)
  <2> DEFINE b == l.buffer % setup.buffers
             names == IF IsEngine(m) THEN ConsumerGroup(l.next) ELSE Group(l.next)
             broadcast == Operation("broadcast", l.used + 1, names, <<>>)
             after == [l EXCEPT !.buffer = (b + 1) % setup.buffers, !.used = @ + 1,
                        !.next = @ + Len(names),
                        !.pc = IF Full(names) THEN "loop" ELSE "returned",
                        !.result = ~ Full(names)]
             both == IF IsEngine(m)
                     THEN <<broadcast, Operation("load", l.used + 1, names, <<>>)>>
                     ELSE <<broadcast>>
  <2>1. /\ \/ streams' = [streams EXCEPT ![m][b] = both] /\ SetLocal(m, after)
           \/ /\ streams' = [streams EXCEPT ![m][b] = <<broadcast>>]
              /\ SetLocal(m, [after EXCEPT !.pc = "returned", !.result = FALSE])
        /\ UNCHANGED <<setup, refit, weights, memory, copies, socket>>
    BY <1>1 DEF QueueGroup, Running, ipcVars
  <2>2. DOMAIN after = Fields /\ DOMAIN [after EXCEPT !.pc = "returned", !.result = FALSE] = Fields
    <3> HIDE DEF b, names
    <3> QED BY <1>0
  <2> HIDE DEF after, both, broadcast
  <2>3. LocalTypes(policy') /\ LocalTypes(engine')
    BY <2>1, <2>2, MemberTypes
  <2>4. StreamTypes(streams')
    <3> HIDE DEF b
    <3> QED BY <1>0, <2>1 DEF StreamTypes
  <2> QED BY <1>0, <2>1, <2>3, <2>4, TypesOfTheRest
<1>2. CASE QueueNothing(m)
  <2>1. /\ SetLocal(m, [l EXCEPT !.pc = "returned", !.result = TRUE])
        /\ UNCHANGED <<setup, refit, weights, memory, copies, socket, streams>>
    BY <1>2 DEF QueueNothing, Running, ipcVars, ncclVars
  <2>2. DOMAIN [l EXCEPT !.pc = "returned", !.result = TRUE] = Fields
    BY <1>0
  <2>3. LocalTypes(policy') /\ LocalTypes(engine')
    BY ONLY <2>1, <2>2, TypeInv, m \in Members, MemberTypes
  <2> QED BY <1>0, <2>1, <2>3, LocalStepTypes
<1> QED BY <1>1, <1>2

\* A broadcast, a group that is loaded, and the steps of the driver keep the
\* types.
LEMMA DriverTypes ==
  ASSUME TypeInv,
         \/ Broadcast \/ (\E r \in Ranks : \E b \in Buffers : LoadLands(r, b))
         \/ Driver \/ UNCHANGED vars
  PROVE  TypeInv'
<1>0. /\ LocalTypes(policy) /\ LocalTypes(engine)
      /\ DOMAIN copies = Ranks /\ DOMAIN socket = Ranks
      /\ WeightTypes(weights) /\ MemoryTypes(memory) /\ StreamTypes(streams)
      /\ refit \in Nat
  BY DEF TypeInv
<1>1. CASE Broadcast
  <2> DEFINE W(m, b) == IF b \notin Heads(m, delivered + 1) THEN streams[m][b]
       ELSE [i \in 1..Len(streams[m][b]) - 1 |->
               [streams[m][b][i + 1] EXCEPT
                  !.data = CHOOSE names \in HeadNames(Source, delivered + 1) : TRUE]]
  <2>1. streams' = [m \in Members |-> [b \in Buffers |-> W(m, b)]]
    BY <1>1 DEF Broadcast
  <2>2. UNCHANGED <<setup, refit, policy, engine, weights, memory, copies, socket>>
    BY <1>1 DEF Broadcast, ipcVars
  <2>3. StreamTypes(streams')
    <3> HIDE DEF W
    <3> QED BY <2>1 DEF StreamTypes
  <2> QED BY <1>0, <2>2, <2>3, TypesOfTheRest
<1>2. ASSUME NEW r \in Ranks, NEW b \in Buffers, LoadLands(r, b)
      PROVE  TypeInv'
  <2> DEFINE m == <<"engine", r>>
             op == Head(streams[m][b])
             W == [n \in Params |->
                     IF n \notin ToSet(op.names) THEN weights[r][n]
                     ELSE IF op.names = op.data THEN <<refit, n>> ELSE Garbage]
  <2>1. /\ weights' = [weights EXCEPT ![r] = W]
        /\ streams' = [streams EXCEPT ![m][b] = Tail(streams[m][b])]
        /\ UNCHANGED <<setup, refit, policy, engine, memory, copies, socket>>
    BY <1>2, Zenon DEF LoadLands, ipcVars
  <2>2. DOMAIN W = Params
    OBVIOUS
  <2>3. WeightTypes(weights')
    <3> HIDE DEF W
    <3> QED BY <1>0, <2>1, <2>2 DEF WeightTypes
  <2>4. StreamTypes(streams')
    <3> HIDE DEF m
    <3> QED BY <1>0, <2>1 DEF StreamTypes
  <2> QED BY <1>0, <2>1, <2>3, <2>4, TypesOfTheRest
<1>3. CASE Gather
  <2> DEFINE P(r) == IF r = Leader(r)
                     THEN [policy[r] EXCEPT !.pc = "post",
                              !.names = [q \in Server(r) |-> policy[q].next]]
                     ELSE Advance(policy[r])
  <2>1. policy' = [r \in Ranks |-> P(r)]
    BY <1>3 DEF Gather
  <2>2. \A r \in Ranks : DOMAIN P(r) = Fields
    BY <1>0 DEF LocalTypes, Advance
  <2>3. LocalTypes(policy')
    <3> HIDE DEF P
    <3> QED BY <2>1, <2>2 DEF LocalTypes
  <2>4. UNCHANGED <<setup, refit, engine, weights, memory, copies, socket, streams>>
    BY <1>3 DEF Gather, Running, ipcVars, ncclVars
  <2> QED BY <1>0, <2>3, <2>4, LocalStepTypes
<1>4. CASE RefitReturns \/ RefitRaises \/ UNCHANGED vars
  <2>1. UNCHANGED <<setup, refit, policy, engine, weights, memory, copies, socket, streams>>
    BY <1>4 DEF RefitReturns, RefitRaises, vars, ipcVars, ncclVars
  <2> QED BY <1>0, <2>1, LocalStepTypes
<1>5. CASE NextRefit
  <2>1. /\ UNCHANGED <<setup, weights, memory, copies, socket, streams>>
        /\ refit' = refit + 1
        /\ policy' = [r \in Ranks |-> Fresh] /\ engine' = [r \in Ranks |-> Fresh]
    BY <1>5 DEF NextRefit, ipcVars
  <2>2. LocalTypes(policy') /\ LocalTypes(engine')
    <3> HIDE DEF Fresh
    <3> QED BY <2>1, FreshFields DEF LocalTypes
  <2> QED BY <1>0, <2>1, <2>2, TypesOfTheRest
<1> QED BY <1>1, <1>2, <1>3, <1>4, <1>5 DEF Driver

\* Every worker and every engine rank is a member of the NCCL group.
LEMMA RanksAreMembers ==
  \A r \in Ranks : <<"policy", r>> \in Members /\ <<"engine", r>> \in Members
BY DEF Members

\* Every step keeps the types.
LEMMA TypeNext == TypeInv /\ [Next]_vars => TypeInv'
<1> SUFFICES ASSUME TypeInv, [Next]_vars PROVE TypeInv'
  OBVIOUS
<1>1. ASSUME NEW r \in Ranks, PolicyStep(r) PROVE TypeInv'
  BY <1>1, PolicyStepTypes, StreamStepTypes, RanksAreMembers DEF PolicyStep
<1>2. ASSUME NEW r \in Ranks, EngineStep(r) PROVE TypeInv'
  BY <1>2, EngineStepTypes, StreamStepTypes, RanksAreMembers DEF EngineStep
<1>3. ASSUME NEW r \in Ranks, StreamStep(r) PROVE TypeInv'
  BY <1>3, EngineStepTypes, DriverTypes DEF StreamStep
<1> QED BY <1>1, <1>2, <1>3, DriverTypes DEF Next

-----------------------------------------------------------------------------
(* HTTP                                                                    *)

\* Worker r has handled the parameters before k, or is the one that posts and
\* has still to post the last of them.
HttpAt(r, k) ==
  LET p == policy[r] IN
  \/ /\ p.pc \in {"loop", "returned"} /\ p.next = k
     /\ p.pc = "returned" => k = N + 1
  \/ /\ r = Leader(r) /\ p.pc \in {"post", "raised"}
     /\ k > 1 /\ p.next = k - 1
     /\ p.names = [q \in Server(r) |-> k - 1]

SomeVersion(r, n) == \E v \in 0..refit : weights[r][n] = <<v, n>>

HttpInv ==
  /\ \E k \in Nat \ {0} : \A r \in Ranks : HttpAt(r, k)
  /\ \A r \in Ranks, n \in Params :
       n < policy[Leader(r)].next => weights[r][n] = <<refit, n>>
  /\ \A r \in Ranks, n \in Params : SomeVersion(r, n)
  /\ outcome = "updated" => \A r \in Ranks : policy[r].pc = "returned"

\* Servers part the ranks, and each has a leader of its own.
LEMMA Leaders ==
  ASSUME setup \in Setups, NEW r \in Ranks
  PROVE  /\ Leader(r) \in Server(r) /\ Leader(r) \in Ranks
         /\ \A q \in Server(r) : q \in Ranks /\ Server(q) = Server(r) /\ Leader(q) = Leader(r)
         /\ \A q \in Ranks : Leader(q) = Leader(r) => q \in Server(r)
<1> DEFINE Of(q) == (q - 1) \div setup.tp
<1>1. \A q \in Ranks : Server(q) = {s \in Ranks : Of(s) = Of(q)}
  BY DEF Server
<1> HIDE DEF Of
<1>2. \A q \in Ranks : Server(q) \in SUBSET Nat /\ q \in Server(q)
  BY <1>1 DEF Ranks
<1>3. \A q \in Ranks : Leader(q) \in Server(q)
  <2> TAKE q \in Ranks
  <2>1. Server(q) \in SUBSET Nat /\ Server(q) # {}
    BY <1>2
  <2>2. \E x \in Server(q) : \A y \in Server(q) : x <= y
    BY ONLY <2>1, LeastNumber
  <2> QED BY <2>2 DEF Leader, Min
<1>4. \A q \in Ranks : \A s \in Server(q) : s \in Ranks /\ Server(s) = Server(q) /\ Leader(s) = Leader(q)
  BY <1>1 DEF Leader
<1>5. \A q \in Ranks : Leader(q) = Leader(r) => q \in Server(r)
  <2> TAKE q \in Ranks
  <2> HAVE Leader(q) = Leader(r)
  <2>1. Of(Leader(q)) = Of(q) /\ Of(Leader(r)) = Of(r)
    BY <1>1, <1>3
  <2> QED BY <1>1, <2>1
<1> QED BY <1>3, <1>4, <1>5

\* One version of a weight stays one.
LEMMA StillSomeVersion ==
  ASSUME NEW r, NEW n, SomeVersion(r, n), refit \in Nat, refit' \in {refit, refit + 1},
         weights'[r][n] = weights[r][n] \/ (refit' = refit /\ weights'[r][n] = <<refit, n>>)
  PROVE  SomeVersion(r, n)'
<1>1. CASE weights'[r][n] = weights[r][n]
  BY <1>1 DEF SomeVersion
<1>2. CASE refit' = refit /\ weights'[r][n] = <<refit, n>>
  BY <1>2 DEF SomeVersion
<1> QED BY <1>1, <1>2

\* With HTTP, workers post, and nothing else but the driver moves.
LEMMA HttpOnly ==
  ASSUME Http, NEW r
  PROVE  /\ PolicyStep(r) => Post(r) \/ PostFails(r)
         /\ ~ EngineStep(r) /\ ~ StreamStep(r) /\ ~ Broadcast
<1>1. ~ Ipc /\ ~ Collective
  BY DEF Http, Ipc, Collective
<1>2. PolicyStep(r) => Post(r) \/ PostFails(r)
  BY <1>1 DEF PolicyStep, Pack, TooLarge, Send, SendComplete, Close, AnswerTimesOut,
       QueueGroup, QueueNothing
<1>3. ~ EngineStep(r)
  BY <1>1 DEF EngineStep, Receive, Load, Acknowledge, AcknowledgeComplete, EngineGivesUp,
       QueueGroup, QueueNothing
<1>4. ~ StreamStep(r) /\ ~ Broadcast
  BY <1>1 DEF StreamStep, CopyLands, LoadLands, Broadcast
<1> QED BY <1>2, <1>3, <1>4

\* The workers and servers do not depend on anything but the configuration.
LEMMA SameServers ==
  ASSUME setup' = setup
  PROVE  \A r : Server(r)' = Server(r) /\ Leader(r)' = Leader(r)
BY DEF Server, Leader, Ranks

\* When the handles of a parameter are gathered, all workers are at that
\* parameter, so every server gets the handles of the same one.
LEMMA GatherHttp ==
  ASSUME TypeInv, HttpInv, Gather
  PROVE  HttpInv'
<1>0. /\ setup' = setup /\ refit' = refit /\ outcome' = outcome /\ weights' = weights
      /\ outcome = "running"
  BY DEF Gather, Running
<1>1. /\ Ranks' = Ranks /\ Params' = Params /\ N' = N
      /\ \A r : Server(r)' = Server(r) /\ Leader(r)' = Leader(r)
  BY <1>0, SameSetup, SameServers
<1>2. setup \in Setups /\ N \in Nat /\ refit \in Nat
  BY TheSetup DEF TypeInv
<1>3. PICK k \in Nat \ {0} : \A r \in Ranks : HttpAt(r, k)
  BY DEF HttpInv
<1>4. \A r \in Ranks : policy[r].pc = "loop" /\ policy[r].next = k
  BY <1>3 DEF Gather, HttpAt
<1>5. \A r \in Ranks : DOMAIN policy[r] = Fields
  BY DEF TypeInv, LocalTypes
<1>6. ASSUME NEW r \in Ranks
      PROVE  /\ HttpAt(r, k + 1)'
             /\ r = Leader(r) => policy'[r].next = k
  <2>1. CASE r = Leader(r)
    <3>1. policy'[r] = [policy[r] EXCEPT !.pc = "post",
                              !.names = [q \in Server(r) |-> policy[q].next]]
      BY <2>1 DEF Gather
    <3>2. \A q \in Server(r) : policy[q].next = k
      BY <1>4 DEF Server
    <3>3. policy'[r].pc = "post" /\ policy'[r].next = k /\ policy'[r].names = [q \in Server(r) |-> k]
      BY <1>4, <1>5, <3>1, <3>2 DEF Fields
    <3> QED BY <1>0, <1>1, <2>1, <3>3 DEF HttpAt
  <2>2. CASE r # Leader(r)
    <3>1. policy'[r] = Advance(policy[r])
      BY <2>2 DEF Gather
    <3>2. /\ policy'[r].next = k + 1
          /\ policy'[r].pc = IF k = N THEN "returned" ELSE "loop"
      BY <1>4, <1>5, <3>1 DEF Advance, Fields, N
    <3> QED BY <1>1, <1>2, <2>2, <3>2 DEF HttpAt
  <2> QED BY <2>1, <2>2
<1>7. \A r \in Ranks : policy'[Leader(r)].next = k /\ policy[Leader(r)].next = k
  BY <1>2, <1>4, <1>6, Leaders
<1>8. \A r \in Ranks, n \in Params : SomeVersion(r, n)'
  BY <1>0, <1>2, StillSomeVersion DEF HttpInv
<1>9. (\E j \in Nat \ {0} : \A r \in Ranks : HttpAt(r, j))'
  <2>1. k + 1 \in Nat \ {0}
    OBVIOUS
  <2> QED BY <1>1, <1>6, <2>1
<1>10. (\A r \in Ranks, n \in Params :
       n < policy[Leader(r)].next => weights[r][n] = <<refit, n>>)'
  BY <1>0, <1>1, <1>7 DEF HttpInv
<1> QED BY <1>0, <1>1, <1>8, <1>9, <1>10 DEF HttpInv

\* A post brings the parameter to the ranks of the server.
LEMMA PostHttp ==
  ASSUME TypeInv, HttpInv, NEW s \in Ranks, Post(s)
  PROVE  HttpInv'
<1>0. /\ setup' = setup /\ refit' = refit /\ outcome' = outcome
      /\ outcome = "running" /\ policy[s].pc = "post"
      /\ policy' = [policy EXCEPT ![s] = Advance(policy[s])]
  BY DEF Post, Running, SetPolicy
<1>1. /\ Ranks' = Ranks /\ Params' = Params /\ N' = N
      /\ \A r : Server(r)' = Server(r) /\ Leader(r)' = Leader(r)
  BY <1>0, SameSetup, SameServers
<1>2. setup \in Setups /\ N \in Nat /\ refit \in Nat
  BY TheSetup DEF TypeInv
<1>3. PICK k \in Nat \ {0} : \A r \in Ranks : HttpAt(r, k)
  BY DEF HttpInv
<1>4. /\ s = Leader(s) /\ k > 1 /\ policy[s].next = k - 1
      /\ policy[s].names = [q \in Server(s) |-> k - 1]
  BY <1>0, <1>3 DEF HttpAt
<1>5. DOMAIN policy = Ranks /\ DOMAIN weights = Ranks
      /\ \A r \in Ranks : DOMAIN policy[r] = Fields /\ DOMAIN weights[r] = Params
  BY DEF TypeInv, LocalTypes, WeightTypes
<1>6. /\ policy'[s].next = k
      /\ policy'[s].pc = IF k - 1 = N THEN "returned" ELSE "loop"
  BY <1>0, <1>4, <1>5 DEF Advance, Fields, N
<1>7. \A r \in Ranks : r # s => policy'[r] = policy[r]
  BY <1>0, <1>5
<1>8. \A r \in Ranks : HttpAt(r, k)'
  <2> TAKE r \in Ranks
  <2>1. CASE r = s
    BY <1>1, <1>2, <1>6, <2>1 DEF HttpAt
  <2>2. CASE r # s
    BY <1>1, <1>3, <1>7, <2>2 DEF HttpAt
  <2> QED BY <2>1, <2>2
<1>9. /\ \A q \in Server(s) : weights'[q] = [weights[q] EXCEPT ![k - 1] = <<refit, k - 1>>]
      /\ \A q \in Ranks : q \notin Server(s) => weights'[q] = weights[q]
  <2>1. \A q \in Server(s) : policy[s].names[q] = k - 1 /\ q \in Ranks
    BY <1>4 DEF Server
  <2> QED BY <1>4, <2>1 DEF Post
<1>10. ASSUME NEW r \in Ranks, NEW n \in Params
       PROVE  /\ SomeVersion(r, n)'
              /\ n < policy'[Leader(r)].next => weights'[r][n] = <<refit, n>>
  <2>1. SomeVersion(r, n) /\ (n < policy[Leader(r)].next => weights[r][n] = <<refit, n>>)
    BY DEF HttpInv
  <2>2. n \in Nat /\ n \in DOMAIN weights[r]
    BY <1>5 DEF Params
  <2>3. CASE r \in Server(s)
    <3>1. Leader(r) = s
      BY <1>2, <1>4, <2>3, Leaders
    <3>2. weights'[r][n] = IF n = k - 1 THEN <<refit, k - 1>> ELSE weights[r][n]
      BY <1>9, <2>2, <2>3
    <3>3. SomeVersion(r, n)'
      BY <1>0, <1>2, <2>1, <3>2, StillSomeVersion
    <3> QED BY <1>4, <1>6, <2>1, <2>2, <3>1, <3>2, <3>3
  <2>4. CASE r \notin Server(s)
    <3>1. Leader(r) # s /\ Leader(r) \in Ranks
      BY <1>2, <1>4, <2>4, Leaders
    <3>2. weights'[r] = weights[r] /\ policy'[Leader(r)] = policy[Leader(r)]
      BY <1>7, <1>9, <2>4, <3>1
    <3>3. SomeVersion(r, n)'
      BY <1>0, <1>2, <2>1, <3>2, StillSomeVersion
    <3> QED BY <2>1, <3>2, <3>3
  <2> QED BY <2>3, <2>4
<1>11. (\A r \in Ranks, n \in Params :
       n < policy[Leader(r)].next => weights[r][n] = <<refit, n>>)'
  BY <1>0, <1>1, <1>10
<1>12. (\A r \in Ranks, n \in Params : SomeVersion(r, n))'
  BY <1>1, <1>10
<1>13. (\E j \in Nat \ {0} : \A r \in Ranks : HttpAt(r, j))'
  BY <1>1, <1>8
<1> QED BY <1>0, <1>11, <1>12, <1>13 DEF HttpInv

\* A post that fails brings nothing anywhere.
LEMMA PostFailsHttp ==
  ASSUME TypeInv, HttpInv, NEW s \in Ranks, PostFails(s)
  PROVE  HttpInv'
<1>0. /\ setup' = setup /\ refit' = refit /\ outcome' = outcome /\ weights' = weights
      /\ outcome = "running" /\ policy[s].pc = "post"
      /\ policy' = [policy EXCEPT ![s] = [policy[s] EXCEPT !.pc = "raised"]]
  BY DEF PostFails, Running, SetPolicy
<1>1. /\ Ranks' = Ranks /\ Params' = Params /\ N' = N
      /\ \A r : Server(r)' = Server(r) /\ Leader(r)' = Leader(r)
  BY <1>0, SameSetup, SameServers
<1>2. setup \in Setups /\ refit \in Nat
  BY DEF TypeInv
<1>3. PICK k \in Nat \ {0} : \A r \in Ranks : HttpAt(r, k)
  BY DEF HttpInv
<1>4. DOMAIN policy = Ranks /\ \A r \in Ranks : DOMAIN policy[r] = Fields
  BY DEF TypeInv, LocalTypes
<1>5. \A r \in Ranks : /\ policy'[r].next = policy[r].next /\ policy'[r].names = policy[r].names
                       /\ policy'[r].pc = policy[r].pc \/ (r = s /\ policy'[r].pc = "raised")
  BY <1>0, <1>4 DEF Fields
<1>6. \A r \in Ranks : HttpAt(r, k)'
  <2> TAKE r \in Ranks
  <2>1. CASE r = s
    BY <1>0, <1>1, <1>3, <1>5, <2>1 DEF HttpAt
  <2>2. CASE r # s
    BY <1>1, <1>3, <1>5, <2>2 DEF HttpAt
  <2> QED BY <2>1, <2>2
<1>7. \A r \in Ranks, n \in Params : SomeVersion(r, n)'
  BY <1>0, <1>2, StillSomeVersion DEF HttpInv
<1>8. \A r \in Ranks : policy'[Leader(r)].next = policy[Leader(r)].next
  BY <1>2, <1>5, Leaders
<1>9. (\A r \in Ranks, n \in Params :
       n < policy[Leader(r)].next => weights[r][n] = <<refit, n>>)'
  BY <1>0, <1>1, <1>8 DEF HttpInv
<1>10. (\E j \in Nat \ {0} : \A r \in Ranks : HttpAt(r, j))'
  BY <1>1, <1>6
<1> QED BY <1>0, <1>1, <1>7, <1>9, <1>10 DEF HttpInv

\* The driver keeps the invariant of HTTP.
LEMMA DriverHttp ==
  ASSUME TypeInv, HttpInv, Http,
         RefitReturns \/ RefitRaises \/ NextRefit \/ UNCHANGED vars
  PROVE  HttpInv'
<1>0. setup' = setup /\ weights' = weights
  BY DEF RefitReturns, RefitRaises, NextRefit, vars
<1>1. /\ Ranks' = Ranks /\ Params' = Params /\ N' = N
      /\ \A r : Server(r)' = Server(r) /\ Leader(r)' = Leader(r)
  BY <1>0, SameSetup, SameServers
<1>2. setup \in Setups /\ refit \in Nat
  BY DEF TypeInv
<1>3. PICK k \in Nat \ {0} : \A r \in Ranks : HttpAt(r, k)
  BY DEF HttpInv
<1>4. CASE NextRefit
  <2>1. /\ refit' = refit + 1 /\ outcome' = "running"
        /\ policy' = [r \in Ranks |-> Fresh]
    BY <1>4 DEF NextRefit
  <2>2. \A r \in Ranks : policy'[r].pc = "loop" /\ policy'[r].next = 1
    BY <2>1 DEF Fresh
  <2>3. (\E j \in Nat \ {0} : \A r \in Ranks : HttpAt(r, j))'
    <3>1. \A r \in Ranks : HttpAt(r, 1)'
      BY <1>1, <2>2 DEF HttpAt
    <3> QED BY <1>1, <3>1
  <2>4. \A r \in Ranks, n \in Params : SomeVersion(r, n)'
    BY <1>0, <1>2, <2>1, StillSomeVersion DEF HttpInv
  <2>5. \A r \in Ranks, n \in Params : ~ (n < policy'[Leader(r)].next)
    BY <1>2, <2>2, Leaders DEF Params
  <2> QED BY <1>1, <2>1, <2>3, <2>4, <2>5 DEF HttpInv
<1>5. CASE RefitReturns \/ RefitRaises \/ UNCHANGED vars
  <2>1. refit' = refit /\ policy' = policy
    BY <1>5 DEF RefitReturns, RefitRaises, vars
  <2>2. \A r \in Ranks, n \in Params : SomeVersion(r, n)'
    BY <1>0, <1>2, <2>1, StillSomeVersion DEF HttpInv
  <2>3. \A r \in Ranks : HttpAt(r, k)'
    BY <1>1, <1>3, <2>1 DEF HttpAt
  <2>4. (\E j \in Nat \ {0} : \A r \in Ranks : HttpAt(r, j))'
    BY <1>1, <2>3
  <2>5. outcome' = "updated" => \A r \in Ranks : policy[r].pc = "returned"
    BY <1>5 DEF RefitReturns, RefitRaises, vars, HttpInv
  <2>6. (\A r \in Ranks, n \in Params :
       n < policy[Leader(r)].next => weights[r][n] = <<refit, n>>)'
    BY <1>0, <1>1, <2>1 DEF HttpInv
  <2> QED BY <1>1, <2>1, <2>2, <2>4, <2>5, <2>6 DEF HttpInv
<1> QED BY <1>4, <1>5

\* Every step does.
LEMMA HttpNext ==
  ASSUME TypeInv, Http, HttpInv, [Next]_vars
  PROVE  HttpInv'
<1>1. ASSUME NEW r \in Ranks, PolicyStep(r) PROVE HttpInv'
  BY <1>1, HttpOnly, PostHttp, PostFailsHttp
<1> QED BY <1>1, HttpOnly, GatherHttp, DriverHttp DEF Next, Driver

\* It holds at the start.
LEMMA HttpInit ==
  ASSUME Init PROVE HttpInv
<1>1. setup \in Setups /\ policy = [r \in Ranks |-> Fresh] /\ outcome = "running" /\ refit = 1
      /\ weights = [r \in Ranks |-> [n \in Params |-> <<0, n>>]]
  BY DEF Init
<1>2. \A r \in Ranks : policy[r].pc = "loop" /\ policy[r].next = 1
  BY <1>1 DEF Fresh
<1>3. \A r \in Ranks : HttpAt(r, 1)
  BY <1>2 DEF HttpAt
<1>4. \A r \in Ranks, n \in Params : SomeVersion(r, n)
  BY <1>1 DEF SomeVersion
<1>5. \A r \in Ranks, n \in Params : ~ (n < policy[Leader(r)].next)
  BY <1>1, <1>2, Leaders DEF Params
<1> QED BY <1>1, <1>3, <1>4, <1>5 DEF HttpInv

-----------------------------------------------------------------------------
(* Collective                                                              *)

\* The groups of a member start at c[0], c[1], ... c[k].
Chain(c, k) ==
  /\ c \in [0..k -> Nat] /\ c[0] = 1
  /\ \A i \in 0..(k - 1) : c[i] \in Params /\ c[i + 1] = c[i] + Len(Group(c[i]))

\* After k groups parameter n is next.
StartOf(k, n) == \E c : Chain(c, k) /\ c[k] = n
GroupNo(k, names) == \E n \in Params : StartOf(k - 1, n) /\ names = Group(n)

\* A group is the parameters from its first on; it is not full only when it is
\* the last.
LEMMA GroupFacts ==
  ASSUME setup \in Setups, NEW n \in Params
  PROVE  /\ n \in Nat /\ GroupEnd(n) \in n..N
         /\ Group(n) \in Seq(Nat) /\ Len(Group(n)) = GroupEnd(n) - n + 1
         /\ n + Len(Group(n)) \in Nat
         /\ \A x : x \in ToSet(Group(n)) <=> x \in n..GroupEnd(n)
         /\ ~ Full(Group(n)) => GroupEnd(n) = N
<1> DEFINE S == {k \in n..Len(setup.sizes) :
         Bytes([i \in 1..k - n + 1 |-> n + i - 1]) > setup.limit}
<1>1. N \in Nat /\ n \in 1..N
  BY TheSetup DEF Params, N
<1>2. GroupEnd(n) = Min(S \cup {N})
  BY DEF GroupEnd, N
<1>3. S \cup {N} \in SUBSET Nat /\ S \cup {N} # {} /\ S \cup {N} \subseteq n..N
  <2>1. \A k \in S : k \in n..N
    BY Zenon DEF N
  <2> HIDE DEF S
  <2> QED BY <1>1, <2>1
<1> HIDE DEF S
<1>4. GroupEnd(n) \in S \cup {N}
  <2>1. \E x \in S \cup {N} : \A y \in S \cup {N} : x <= y
    BY ONLY <1>3, LeastNumber
  <2> QED BY <2>1, <1>2 DEF Min
<1>5. n \in Nat /\ GroupEnd(n) \in n..N
  BY <1>1, <1>3, <1>4
<1>6. GroupEnd(n) - n + 1 \in Nat
  BY <1>1, <1>5
<1>7. Group(n) \in Seq(Nat) /\ Len(Group(n)) = GroupEnd(n) - n + 1
  <2> DEFINE l == GroupEnd(n) - n + 1
             g == [i \in 1..l |-> n + i - 1]
  <2>1. \A i \in 1..l : n + i - 1 \in Nat
    BY <1>5
  <2>2. Group(n) = g
    BY DEF Group
  <2> HIDE DEF l
  <2>3. g \in Seq(Nat) /\ Len(g) = l
    BY <2>1, <1>6 DEF l
  <2> QED BY <2>2, <2>3 DEF l
<1>8. \A x : x \in ToSet(Group(n)) <=> x \in n..GroupEnd(n)
  <2> DEFINE e == GroupEnd(n)
  <2>1. ToSet(Group(n)) = {n + i - 1 : i \in 1..(e - n + 1)}
    BY DEF ToSet, Group
  <2>2. ASSUME NEW x \in n..e PROVE x \in ToSet(Group(n))
    <3>1. x - n + 1 \in 1..(e - n + 1) /\ n + (x - n + 1) - 1 = x
      BY <1>5, <1>1
    <3> QED BY <2>1, <3>1
  <2>3. ASSUME NEW i \in 1..(e - n + 1) PROVE n + i - 1 \in n..e
    BY <1>1, <1>5
  <2> QED BY <2>1, <2>2, <2>3
<1>9. ~ Full(Group(n)) => GroupEnd(n) = N
  <2>1. CASE GroupEnd(n) \in S
    BY <2>1 DEF S, Full, Group
  <2> QED BY <1>4, <2>1
<1>10. n + Len(Group(n)) \in Nat
  BY <1>5, <1>7, <1>6
<1> QED BY <1>5, <1>7, <1>8, <1>9, <1>10

\* The first group starts at parameter 1.
LEMMA StartFirst == StartOf(0, 1)
<1> DEFINE c == [i \in 0..0 |-> 1]
<1>1. Chain(c, 0) /\ c[0] = 1
  BY DEF Chain
<1> QED BY <1>1 DEF StartOf

\* The next one starts where a group ends.
LEMMA StartNext ==
  ASSUME setup \in Setups, NEW k \in Nat, NEW n \in Params, StartOf(k, n)
  PROVE  StartOf(k + 1, n + Len(Group(n)))
<1> DEFINE e == n + Len(Group(n))
<1>1. PICK c : Chain(c, k) /\ c[k] = n
  BY DEF StartOf
<1>2. e \in Nat
  BY GroupFacts
<1> DEFINE d == [i \in 0..(k + 1) |-> IF i = k + 1 THEN e ELSE c[i]]
<1>3. d \in [0..(k + 1) -> Nat] /\ d[0] = 1 /\ d[k + 1] = e
  <2> HIDE DEF e
  <2> QED BY <1>1, <1>2 DEF Chain
<1>4. \A i \in 0..k : d[i] = c[i]
  OBVIOUS
<1>5. ASSUME NEW i \in 0..((k + 1) - 1)
      PROVE  d[i] \in Params /\ d[i + 1] = d[i] + Len(Group(d[i]))
  <2>1. CASE i = k
    <3> HIDE DEF d
    <3> QED BY <1>1, <1>3, <1>4, <2>1
  <2>2. CASE i # k
    <3>1. i \in 0..(k - 1) /\ i + 1 \in 0..k /\ i \in 0..k
      BY <2>2
    <3>2. c[i] \in Params /\ c[i + 1] = c[i] + Len(Group(c[i]))
      BY <1>1, <3>1 DEF Chain
    <3> HIDE DEF d
    <3> QED BY <1>4, <3>1, <3>2
  <2> QED BY <2>1, <2>2
<1> HIDE DEF d, e
<1>6. Chain(d, k + 1)
  BY <1>3, <1>5 DEF Chain
<1>7. StartOf(k + 1, e)
  BY <1>3, <1>6 DEF StartOf
<1> QED BY <1>7 DEF e

\* Where a group starts depends on its number alone.
LEMMA StartUnique ==
  ASSUME NEW k \in Nat, NEW a, NEW b, StartOf(k, a), StartOf(k, b)
  PROVE  a = b
<1>1. PICK c : Chain(c, k) /\ c[k] = a
  BY DEF StartOf
<1>2. PICK d : Chain(d, k) /\ d[k] = b
  BY DEF StartOf
<1> DEFINE T == {i \in 0..k : c[i] = d[i]}
<1>3. 0 \in T
  BY <1>1, <1>2 DEF Chain
<1>4. ASSUME NEW i \in 0..(k - 1), i \in T
      PROVE  i + 1 \in T
  <2>1. c[i] = d[i] /\ c[i + 1] = c[i] + Len(Group(c[i])) /\ d[i + 1] = d[i] + Len(Group(d[i]))
    BY <1>1, <1>2, <1>4 DEF Chain
  <2> QED BY <2>1
<1> HIDE DEF T
<1>5. \A i \in 0..k : i \in T
  BY ONLY <1>3, <1>4, k \in Nat, InductionTo
<1> QED BY <1>1, <1>2, <1>5 DEF T

\* So does what is in it.
LEMMA GroupUnique ==
  ASSUME NEW k \in Nat \ {0}, NEW a, NEW b, GroupNo(k, a), GroupNo(k, b)
  PROVE  a = b
<1>1. PICK n \in Params : StartOf(k - 1, n) /\ a = Group(n)
  BY DEF GroupNo
<1>2. PICK m \in Params : StartOf(k - 1, m) /\ b = Group(m)
  BY DEF GroupNo
<1>3. n = m
  BY <1>1, <1>2, StartUnique
<1> QED BY <1>1, <1>2, <1>3

\* The groups do not change while the configuration does not.
LEMMA SameGroups ==
  ASSUME setup' = setup
  PROVE  /\ \A n : Group(n)' = Group(n) /\ GroupEnd(n)' = GroupEnd(n)
         /\ \A k, n : StartOf(k, n)' = StartOf(k, n)
         /\ \A k, n : GroupNo(k, n)' = GroupNo(k, n)
<1>0. \A x : Bytes(x)' = Bytes(x)
  BY Zenon DEF Bytes, Size, FoldLeft, MapThenFoldSet
<1>1. \A n : GroupEnd(n)' = GroupEnd(n)
  BY <1>0 DEF GroupEnd
<1>2. \A n : Group(n)' = Group(n)
  BY <1>1 DEF Group
<1>3. Params' = Params
  BY DEF Params
<1>4. \A c, k : Chain(c, k)' = Chain(c, k)
  BY <1>2, <1>3 DEF Chain
<1>5. \A k, n : StartOf(k, n)' = StartOf(k, n)
  BY <1>4 DEF StartOf
<1>6. \A k, n : GroupNo(k, n)' = GroupNo(k, n)
  BY <1>2, <1>3, <1>5 DEF GroupNo
<1> QED BY <1>1, <1>2, <1>5, <1>6

OperationType ==
  [kind : {"broadcast", "load"}, k : Nat \ {0}, names : Seq(Nat), data : Seq(Nat)]

\* An operation of its group; a member has at most one group on a stream, and
\* what has been broadcast to an engine rank is what it expects.
Is(op, kind) ==
  op.kind = kind /\ \E k \in Nat \ {0}, names \in Seq(Nat) :
                      op.k = k /\ op.names = names /\ GroupNo(k, names)
StreamOk(m, b) ==
  LET s == streams[m][b] IN
  /\ s \in Seq(OperationType)
  /\ \/ Len(s) = 0
     \/ Len(s) = 1 /\ Is(s[1], "broadcast")
     \/ /\ IsEngine(m) /\ Len(s) = 2
        /\ Is(s[1], "broadcast") /\ Is(s[2], "load") /\ s[1].k = s[2].k
     \/ IsEngine(m) /\ Len(s) = 1 /\ Is(s[1], "load") /\ s[1].data = s[1].names

\* The groups a member has queued are those before next; an engine rank that
\* has not failed has, or has queued, all of their parameters.
MemberOk(m) ==
  LET l == Local(m) IN
  /\ l.pc \in {"loop", "returned"} /\ l.buffer \in Nat /\ l.result \in BOOLEAN
  /\ \E k \in Nat, n \in Nat \ {0} : l.used = k /\ l.next = n /\ StartOf(k, n)
EngineOk(r) ==
  LET e == Local(<<"engine", r>>) IN
  /\ e.pc = "loop" \/ e.result => \A n \in Params : n < e.next => Updated(r, n)
  /\ e.result => e.next > N

CollInv ==
  /\ \A m \in Members : MemberOk(m)
  /\ \A m \in Members : \A b \in Buffers : StreamOk(m, b)
  /\ \A r \in Ranks : EngineOk(r)
  /\ \A r \in Ranks, n \in Params : SomeVersion(r, n)
  /\ outcome = "updated" => engine[1].result

\* Setting the locals of a member leaves those of the others.
LEMMA LocalSet ==
  ASSUME TypeInv, NEW m \in Members, NEW p, SetLocal(m, p), setup' = setup
  PROVE  Local(m)' = p /\ \A x \in Members : x # m => Local(x)' = Local(x)
<1>1. DOMAIN policy = Ranks /\ DOMAIN engine = Ranks
  BY DEF TypeInv, LocalTypes
<1>2. PICK r \in Ranks : m = <<"policy", r>> \/ m = <<"engine", r>>
  BY DEF Members
<1>3. CASE m = <<"policy", r>>
  <2>1. policy' = [policy EXCEPT ![r] = p] /\ engine' = engine
    BY <1>3 DEF SetLocal, SetPolicy, IsEngine
  <2> QED BY <1>1, <1>3, <2>1 DEF Local, IsEngine, Members
<1>4. CASE m = <<"engine", r>>
  <2>1. engine' = [engine EXCEPT ![r] = p] /\ policy' = policy
    BY <1>4 DEF SetLocal, SetEngine, IsEngine
  <2> QED BY <1>1, <1>4, <2>1 DEF Local, IsEngine, Members
<1> QED BY <1>2, <1>3, <1>4

\* The locals of workers and engine ranks as members.
LEMMA LocalIs ==
  \A r : /\ Local(<<"engine", r>>) = engine[r] /\ Local(<<"policy", r>>) = policy[r]
         /\ IsEngine(<<"engine", r>>) /\ ~ IsEngine(<<"policy", r>>)
BY DEF Local, IsEngine

\* With the collective transport, members queue groups and streams run.
LEMMA CollectiveOnly ==
  ASSUME Collective, NEW r
  PROVE  /\ PolicyStep(r) => QueueGroup(<<"policy", r>>) \/ QueueNothing(<<"policy", r>>)
         /\ EngineStep(r) => QueueGroup(<<"engine", r>>) \/ QueueNothing(<<"engine", r>>)
         /\ StreamStep(r) => \E b \in Buffers : LoadLands(r, b)
         /\ ~ Gather
<1>1. ~ Ipc /\ ~ Http
  BY DEF Http, Ipc, Collective
<1>2. PolicyStep(r) => QueueGroup(<<"policy", r>>) \/ QueueNothing(<<"policy", r>>)
  BY <1>1 DEF PolicyStep, Pack, TooLarge, Send, SendComplete, Close, AnswerTimesOut,
       Post, PostFails
<1>3. EngineStep(r) => QueueGroup(<<"engine", r>>) \/ QueueNothing(<<"engine", r>>)
  BY <1>1 DEF EngineStep, Receive, Load, Acknowledge, AcknowledgeComplete, EngineGivesUp
<1>4. StreamStep(r) => \E b \in Buffers : LoadLands(r, b)
  BY <1>1 DEF StreamStep, CopyLands
<1>5. ~ Gather
  BY <1>1 DEF Gather
<1> QED BY <1>2, <1>3, <1>4, <1>5


\* A stream nobody touches stays well formed.
LEMMA StreamKept ==
  ASSUME setup' = setup, NEW m, NEW b, StreamOk(m, b), streams'[m][b] = streams[m][b]
  PROVE  StreamOk(m, b)'
<1>1. \A k, n : GroupNo(k, n)' = GroupNo(k, n)
  BY SameGroups
<1> QED BY <1>1 DEF StreamOk, Is, IsEngine

\* What is queued stays queued on a stream that does not change.
LEMMA MemberKept ==
  ASSUME setup' = setup, NEW m, MemberOk(m), Local(m)' = Local(m)
  PROVE  MemberOk(m)'
<1>1. \A k, n : StartOf(k, n)' = StartOf(k, n)
  BY SameGroups
<1> QED BY <1>1 DEF MemberOk

\* What is queued stays queued when a stream changes that had nothing queued.
LEMMA QueuedKept ==
  ASSUME setup' = setup, NEW r, NEW n, Queued(r, n),
         \A c \in Buffers : \/ streams'[<<"engine", r>>][c] = streams[<<"engine", r>>][c]
                            \/ Len(streams[<<"engine", r>>][c]) = 0
  PROVE  Queued(r, n)'
<1>1. PICK c \in Buffers : \E i \in 1..Len(streams[<<"engine", r>>][c]) :
        LET op == streams[<<"engine", r>>][c][i]
        IN op.kind = "load" /\ n \in ToSet(op.names)
  BY DEF Queued
<1>2. streams'[<<"engine", r>>][c] = streams[<<"engine", r>>][c]
  BY <1>1
<1>3. Buffers' = Buffers
  BY SameSetup
<1> QED BY <1>1, <1>2, <1>3 DEF Queued

\* A member that queues a group goes on with the next one, or returns when
\* there is none.
LEMMA QueueGroupMember ==
  ASSUME TypeInv, NEW m \in Members, MemberOk(m), QueueGroup(m)
  PROVE  /\ Local(m).next \in Params /\ Local(m).pc = "loop"
         /\ MemberOk(m)'
         /\ Local(m)'.next = Local(m).next + Len(Group(Local(m).next))
         /\ Local(m)'.pc = "loop" => Full(Group(Local(m).next))
         /\ Local(m)'.result => ~ Full(Group(Local(m).next))
         /\ \A x \in Members : x # m => Local(x)' = Local(x)
<1> DEFINE l == Local(m)
           names == Group(l.next)
           b == l.buffer % setup.buffers
           after == [l EXCEPT !.buffer = (b + 1) % setup.buffers, !.used = @ + 1,
                        !.next = @ + Len(names),
                        !.pc = IF Full(names) THEN "loop" ELSE "returned",
                        !.result = ~ Full(names)]
           failed == [after EXCEPT !.pc = "returned", !.result = FALSE]
<1>1. l.next \in Params /\ l.pc = "loop" /\ setup' = setup
      /\ (SetLocal(m, after) \/ SetLocal(m, failed))
  BY DEF QueueGroup, Running, ConsumerGroup
<1>2. DOMAIN l = Fields
  BY LocalOf
<1>3. setup \in Setups /\ setup.buffers \in Nat \ {0}
  BY TheSetup DEF TypeInv
<1>4. /\ l.used \in Nat /\ l.next \in Nat \ {0} /\ l.buffer \in Nat /\ StartOf(l.used, l.next)
  BY DEF MemberOk
<1>5. names \in Seq(Nat) /\ Len(names) \in Nat /\ StartOf(l.used + 1, l.next + Len(names))
  <2>1. names \in Seq(Nat)
    BY <1>1, <1>3, GroupFacts
  <2>2. StartOf(l.used + 1, l.next + Len(names))
    <3> HIDE DEF l
    <3> QED BY <1>1, <1>3, <1>4, StartNext
  <2> QED BY <2>1, <2>2
<1>6. (b + 1) % setup.buffers \in Nat
  <2>1. b \in Nat
    <3> HIDE DEF l
    <3> QED BY <1>3, <1>4
  <2> HIDE DEF b
  <2> QED BY <1>3, <2>1
<1>7. Local(m)' = after \/ Local(m)' = failed
  <2> HIDE DEF after, failed
  <2> QED BY <1>1, LocalSet
<1>8. \A x \in Members : x # m => Local(x)' = Local(x)
  <2> HIDE DEF after, failed
  <2> QED BY <1>1, LocalSet
<1> HIDE DEF names, b, l
<1>9. /\ Local(m)'.next = l.next + Len(names)
      /\ Local(m)'.used = l.used + 1
      /\ Local(m)'.buffer = (b + 1) % setup.buffers
      /\ Local(m)'.pc = "loop" => Full(names)
      /\ Local(m)'.result => ~ Full(names)
      /\ Local(m)'.pc \in {"loop", "returned"} /\ Local(m)'.result \in BOOLEAN
  BY <1>2, <1>7 DEF Fields
<1>10. MemberOk(m)'
  <2>1. PICK u, x : u = l.used + 1 /\ x = l.next + Len(names)
    OBVIOUS
  <2>2. u \in Nat /\ x \in Nat \ {0} /\ StartOf(u, x)
    BY <1>4, <1>5, <2>1
  <2>3. StartOf(u, x)'
    BY <1>1, <2>2, SameGroups
  <2>4. Local(m)'.used = u /\ Local(m)'.next = x /\ Local(m)'.buffer \in Nat
    BY <1>6, <1>9, <2>1
  <2> QED BY <1>9, <2>2, <2>3, <2>4 DEF MemberOk
<1> QED BY <1>1, <1>8, <1>9, <1>10 DEF l, names

\* It queues the group on a stream that is drained, and an engine rank that
\* does not raise queues the loading behind it.
LEMMA QueueGroupStreams ==
  ASSUME TypeInv, NEW m \in Members, MemberOk(m), QueueGroup(m)
  PROVE  \E b \in Buffers :
           /\ streams[m][b] = <<>>
           /\ StreamOk(m, b)'
           /\ \A x \in Members : \A c \in Buffers :
                <<x, c>> # <<m, b>> => streams'[x][c] = streams[x][c]
           /\ \A r \in Ranks : m = <<"engine", r>> /\ (engine'[r].pc = "loop" \/ engine'[r].result) =>
                \A n \in ToSet(Group(Local(m).next)) : Queued(r, n)'
<1>1. PICK l, b, names, k :
        /\ l = Local(m) /\ b = l.buffer % setup.buffers
        /\ names = Group(l.next) /\ k = l.used + 1
  OBVIOUS
<1> DEFINE broadcast == Operation("broadcast", k, names, <<>>)
           load == Operation("load", k, names, <<>>)
           both == IF IsEngine(m) THEN <<broadcast, load>> ELSE <<broadcast>>
           after == [l EXCEPT !.buffer = (b + 1) % setup.buffers, !.used = @ + 1,
                        !.next = @ + Len(names),
                        !.pc = IF Full(names) THEN "loop" ELSE "returned",
                        !.result = ~ Full(names)]
           failed == [after EXCEPT !.pc = "returned", !.result = FALSE]
<1>2. setup' = setup /\ setup \in Setups
  BY DEF QueueGroup, Running, TypeInv
<1>3. /\ l.next \in Params /\ streams[m][b] = <<>>
      /\ \/ streams' = [streams EXCEPT ![m][b] = both]
         \/ /\ streams' = [streams EXCEPT ![m][b] = <<broadcast>>]
            /\ IsEngine(m) /\ SetLocal(m, failed)
  BY <1>1 DEF QueueGroup, ConsumerGroup
<1>4. failed.pc = "returned" /\ failed.result = FALSE
  <2>1. DOMAIN after = Fields
    <3>1. DOMAIN l = Fields
      BY <1>1, LocalOf
    <3> QED BY <3>1
  <2> HIDE DEF after
  <2> QED BY <2>1 DEF Fields
<1>5. SetLocal(m, failed) => Local(m)'.pc = "returned" /\ Local(m)'.result = FALSE
  <2> HIDE DEF failed
  <2> QED BY <1>2, <1>4, LocalSet
<1>6. \/ streams' = [streams EXCEPT ![m][b] = both]
      \/ /\ streams' = [streams EXCEPT ![m][b] = <<broadcast>>]
         /\ IsEngine(m) /\ Local(m)'.pc = "returned" /\ Local(m)'.result = FALSE
  <2> HIDE DEF failed, both, broadcast
  <2> QED BY <1>3, <1>5
<1> HIDE DEF failed, after
<1>7. l.used \in Nat /\ l.buffer \in Nat /\ StartOf(l.used, l.next)
  BY <1>1 DEF MemberOk
<1>8. b \in Buffers
  <2>1. setup.buffers \in Nat \ {0}
    BY <1>2, TheSetup
  <2> QED BY <1>1, <1>7, <2>1, Division DEF Buffers
<1>9. names \in Seq(Nat)
  BY <1>1, <1>2, <1>3, GroupFacts
<1>10. k \in Nat \ {0} /\ GroupNo(k, names)
  <2>1. k - 1 = l.used /\ k \in Nat \ {0}
    BY <1>1, <1>7
  <2> QED BY <1>1, <1>3, <1>7, <2>1 DEF GroupNo
<1>11. GroupNo(k, names)'
  BY <1>2, <1>10, SameGroups
<1>12. /\ broadcast \in OperationType /\ load \in OperationType
       /\ Is(broadcast, "broadcast")' /\ Is(load, "load")' /\ broadcast.k = load.k
       /\ load.kind = "load" /\ load.names = names
  <2>1. <<>> \in Seq(Nat)
    OBVIOUS
  <2> QED BY <1>9, <1>10, <1>11, <2>1 DEF Operation, OperationType, Is
<1> HIDE DEF broadcast, load
<1>13. DOMAIN streams = Members /\ \A x \in Members : DOMAIN streams[x] = Buffers
  BY DEF TypeInv, StreamTypes
<1>14. /\ \/ streams'[m][b] = both
          \/ /\ streams'[m][b] = <<broadcast>> /\ IsEngine(m)
             /\ ~ Local(m)'.result /\ Local(m)'.pc = "returned"
       /\ \A x \in Members : \A c \in Buffers :
                <<x, c>> # <<m, b>> => streams'[x][c] = streams[x][c]
  <2> HIDE DEF both
  <2> QED BY <1>6, <1>8, <1>13
<1>15. StreamOk(m, b)'
  <2>1. PICK s : s = streams'[m][b]
    OBVIOUS
  <2>2. /\ s \in Seq(OperationType)
        /\ \/ s = <<broadcast>> /\ Len(s) = 1 /\ s[1] = broadcast
           \/ IsEngine(m) /\ Len(s) = 2 /\ s[1] = broadcast /\ s[2] = load
    <3>1. s = <<broadcast>> \/ (s = <<broadcast, load>> /\ IsEngine(m))
      BY <1>14, <2>1
    <3>2. broadcast \in OperationType /\ load \in OperationType
      BY <1>12
    <3> HIDE DEF OperationType
    <3>3. CASE s = <<broadcast>>
      <4>1. <<broadcast>> \in Seq(OperationType) /\ Len(<<broadcast>>) = 1 /\ (<<broadcast>>)[1] = broadcast
        BY ONLY <3>2
      <4> QED BY <3>3, <4>1
    <3>4. CASE s = <<broadcast, load>> /\ IsEngine(m)
      <4>1. /\ <<broadcast, load>> \in Seq(OperationType) /\ Len(<<broadcast, load>>) = 2
            /\ (<<broadcast, load>>)[1] = broadcast /\ (<<broadcast, load>>)[2] = load
        BY ONLY <3>2
      <4> QED BY <3>4, <4>1
    <3> QED BY <3>1, <3>3, <3>4
  <2> QED BY <1>12, <2>1, <2>2 DEF StreamOk, IsEngine
<1>16. ASSUME NEW r \in Ranks, m = <<"engine", r>>, engine'[r].pc = "loop" \/ engine'[r].result,
              NEW n \in ToSet(names)
       PROVE  Queued(r, n)'
  <2>1. IsEngine(m) /\ Local(m)' = engine'[r]
    BY <1>16 DEF Local, IsEngine
  <2>2. streams'[m][b] = <<broadcast, load>>
    BY <1>14, <1>16, <2>1
  <2>3. Len(streams'[m][b]) = 2 /\ streams'[m][b][2] = load
    BY <2>2
  <2>4. b \in Buffers'
    BY <1>2, <1>8, SameSetup
  <2> QED BY <1>12, <1>16, <2>3, <2>4 DEF Queued
<1>17. /\ streams[m][b] = <<>>
       /\ StreamOk(m, b)'
       /\ \A x \in Members : \A c \in Buffers :
                <<x, c>> # <<m, b>> => streams'[x][c] = streams[x][c]
  BY <1>3, <1>14, <1>15
<1>18. \A r \in Ranks : m = <<"engine", r>> /\ (engine'[r].pc = "loop" \/ engine'[r].result) =>
                \A n \in ToSet(Group(Local(m).next)) : Queued(r, n)'
  BY <1>1, <1>16
<1> QED BY <1>8, <1>17, <1>18

\* A parameter stays up to date, or on its way, while no stream that carries
\* it is touched.
LEMMA UpdatedKept ==
  ASSUME setup' = setup, refit' = refit, NEW r, NEW n, Updated(r, n),
         weights'[r][n] = weights[r][n],
         \A c \in Buffers : \/ streams'[<<"engine", r>>][c] = streams[<<"engine", r>>][c]
                            \/ Len(streams[<<"engine", r>>][c]) = 0
  PROVE  Updated(r, n)'
BY QueuedKept DEF Updated

\* So an engine rank keeps what it has.
LEMMA EngineKept ==
  ASSUME setup' = setup, NEW r, EngineOk(r),
         Local(<<"engine", r>>)' = Local(<<"engine", r>>),
         \A n \in Params : Updated(r, n) => Updated(r, n)'
  PROVE  EngineOk(r)'
<1>1. Params' = Params /\ N' = N
  BY SameSetup
<1> QED BY <1>1 DEF EngineOk

\* Queueing a group keeps the invariant of the collective transport.
LEMMA QueueGroupColl ==
  ASSUME TypeInv, CollInv, NEW m \in Members, QueueGroup(m)
  PROVE  CollInv'
<1>1. /\ setup' = setup /\ refit' = refit /\ outcome' = outcome /\ weights' = weights
      /\ outcome = "running" /\ setup \in Setups /\ refit \in Nat
  BY DEF QueueGroup, Running, TypeInv
<1>2. /\ Ranks' = Ranks /\ Params' = Params /\ N' = N /\ Members' = Members /\ Buffers' = Buffers
  BY <1>1, SameSetup
<1>3. MemberOk(m)
  BY DEF CollInv
<1>4. PICK next : next = Local(m).next
  OBVIOUS
<1>5. /\ next \in Params /\ Local(m).pc = "loop"
      /\ MemberOk(m)'
      /\ Local(m)'.next = next + Len(Group(next))
      /\ Local(m)'.pc = "loop" => Full(Group(next))
      /\ Local(m)'.result => ~ Full(Group(next))
      /\ \A x \in Members : x # m => Local(x)' = Local(x)
  BY <1>3, <1>4, QueueGroupMember
<1>6. PICK b \in Buffers :
           /\ streams[m][b] = <<>>
           /\ StreamOk(m, b)'
           /\ \A x \in Members : \A c \in Buffers :
                <<x, c>> # <<m, b>> => streams'[x][c] = streams[x][c]
           /\ \A r \in Ranks : m = <<"engine", r>> /\ (engine'[r].pc = "loop" \/ engine'[r].result) =>
                \A n \in ToSet(Group(next)) : Queued(r, n)'
  BY <1>3, <1>4, QueueGroupStreams
<1>7. Len(streams[m][b]) = 0
  BY <1>6
<1>8. \A x \in Members : MemberOk(x)'
  BY <1>1, <1>5, MemberKept DEF CollInv
<1>9. \A x \in Members : \A c \in Buffers : StreamOk(x, c)'
  <2> TAKE x \in Members
  <2> TAKE c \in Buffers
  <2>1. CASE x = m /\ c = b
    BY <1>6, <2>1
  <2>2. CASE ~ (x = m /\ c = b)
    <3>1. streams'[x][c] = streams[x][c]
      BY <1>6, <2>2
    <3> QED BY <1>1, <3>1, StreamKept DEF CollInv
  <2> QED BY <2>1, <2>2
<1>10. \A r \in Ranks : \A n \in Params : Updated(r, n) => Updated(r, n)'
  <2> TAKE r \in Ranks
  <2> TAKE n \in Params
  <2> HAVE Updated(r, n)
  <2>1. \A c \in Buffers : \/ streams'[<<"engine", r>>][c] = streams[<<"engine", r>>][c]
                           \/ Len(streams[<<"engine", r>>][c]) = 0
    BY <1>6, <1>7, RanksAreMembers
  <2> QED BY <1>1, <2>1, UpdatedKept
<1>11. \A r \in Ranks : EngineOk(r)'
  <2> TAKE r \in Ranks
  <2>0. EngineOk(r)
    BY DEF CollInv
  <2>1. CASE m = <<"engine", r>>
    <3>1. Local(m)' = engine'[r] /\ Local(m) = engine[r]
      BY <2>1 DEF Local, IsEngine
    <3>2. /\ next \in Nat /\ GroupEnd(next) \in next..N /\ N \in Nat
          /\ Len(Group(next)) = GroupEnd(next) - next + 1
          /\ \A x : x \in ToSet(Group(next)) <=> x \in next..GroupEnd(next)
          /\ ~ Full(Group(next)) => GroupEnd(next) = N
      BY <1>1, <1>5, GroupFacts, TheSetup
    <3>3. ASSUME engine'[r].pc = "loop" \/ engine'[r].result,
                 NEW n \in Params, n < engine'[r].next
          PROVE  Updated(r, n)'
      <4>1. n \in Nat /\ n < next + Len(Group(next))
        BY <1>5, <3>1, <3>3 DEF Params
      <4>2. CASE n < next
        <5>1. Updated(r, n)
          BY <1>4, <1>5, <2>0, <2>1, <4>2 DEF EngineOk
        <5> QED BY <1>10, <5>1
      <4>3. CASE ~ (n < next)
        <5>1. n \in ToSet(Group(next))
          BY <3>2, <4>1, <4>3
        <5> QED BY <1>6, <2>1, <3>3, <5>1 DEF Updated
      <4> QED BY <4>2, <4>3
    <3>4. ASSUME engine'[r].result PROVE engine'[r].next > N
      BY <1>5, <3>1, <3>2, <3>4
    <3> QED BY <1>2, <2>1, <3>1, <3>3, <3>4 DEF EngineOk
  <2>2. CASE m # <<"engine", r>>
    <3>1. Local(<<"engine", r>>)' = Local(<<"engine", r>>)
      BY <1>5, <2>2, RanksAreMembers
    <3> QED BY <1>1, <1>10, <2>0, <3>1, EngineKept
  <2> QED BY <2>1, <2>2
<1>12. \A r \in Ranks, n \in Params : SomeVersion(r, n)'
  BY <1>1, StillSomeVersion DEF CollInv
<1> QED BY <1>1, <1>2, <1>8, <1>9, <1>11, <1>12 DEF CollInv

\* So does draining one more stream at the end.
LEMMA QueueNothingColl ==
  ASSUME TypeInv, CollInv, NEW m \in Members, QueueNothing(m)
  PROVE  CollInv'
<1>1. /\ setup' = setup /\ refit' = refit /\ outcome' = outcome /\ weights' = weights
      /\ streams' = streams
      /\ outcome = "running" /\ setup \in Setups /\ refit \in Nat
  BY DEF QueueNothing, Running, TypeInv, ncclVars
<1>2. /\ Ranks' = Ranks /\ Params' = Params /\ N' = N /\ Members' = Members /\ Buffers' = Buffers
  BY <1>1, SameSetup
<1>3. PICK l, a : l = Local(m) /\ a = [l EXCEPT !.pc = "returned", !.result = TRUE]
  OBVIOUS
<1>4. l.pc = "loop" /\ l.next \notin Params /\ SetLocal(m, a)
  BY <1>3 DEF QueueNothing
<1>5. Local(m)' = a /\ \A x \in Members : x # m => Local(x)' = Local(x)
  BY <1>1, <1>4, LocalSet
<1>6. /\ a.pc = "returned" /\ a.result = TRUE /\ a.used = l.used /\ a.next = l.next
      /\ a.buffer = l.buffer
  <2>1. DOMAIN l = Fields
    BY <1>3, LocalOf
  <2> QED BY <1>3, <2>1 DEF Fields
<1>7. PICK k \in Nat, n \in Nat \ {0} : l.used = k /\ l.next = n /\ StartOf(k, n)
  BY <1>3 DEF CollInv, MemberOk
<1>8. MemberOk(m)'
  <2>1. StartOf(k, n)'
    BY <1>1, <1>7, SameGroups
  <2>2. l.buffer \in Nat
    BY <1>3 DEF CollInv, MemberOk
  <2> QED BY <1>5, <1>6, <1>7, <2>1, <2>2 DEF MemberOk
<1>9. \A x \in Members : MemberOk(x)'
  BY <1>1, <1>5, <1>8, MemberKept DEF CollInv
<1>10. \A x \in Members : \A c \in Buffers : StreamOk(x, c)'
  BY <1>1, StreamKept DEF CollInv
<1>11. \A r \in Ranks : \A x \in Params : Updated(r, x) => Updated(r, x)'
  BY <1>1, UpdatedKept
<1>12. \A r \in Ranks : EngineOk(r)'
  <2> TAKE r \in Ranks
  <2>0. EngineOk(r)
    BY DEF CollInv
  <2>1. CASE m = <<"engine", r>>
    <3>1. N \in Nat
      BY <1>1, TheSetup
    <3>2. l.next > N
      BY <1>4, <1>7, <3>1 DEF Params, N
    <3>3. \A x \in Params : x < l.next => Updated(r, x)'
      BY <1>3, <1>4, <1>11, <2>0, <2>1 DEF EngineOk
    <3> QED BY <1>2, <1>5, <1>6, <2>1, <3>2, <3>3 DEF EngineOk
  <2>2. CASE m # <<"engine", r>>
    <3>1. Local(<<"engine", r>>)' = Local(<<"engine", r>>)
      BY <1>5, <2>2, RanksAreMembers
    <3> QED BY <1>1, <1>11, <2>0, <3>1, EngineKept
  <2> QED BY <2>1, <2>2
<1>13. \A r \in Ranks, x \in Params : SomeVersion(r, x)'
  BY <1>1, StillSomeVersion DEF CollInv
<1> QED BY <1>1, <1>2, <1>9, <1>10, <1>12, <1>13 DEF CollInv

\* What can be at the head of a stream.
LEMMA TheHead ==
  ASSUME NEW m, NEW b, StreamOk(m, b), streams[m][b] # <<>>
  PROVE  /\ Len(streams[m][b]) \in {1, 2} /\ Head(streams[m][b]) = streams[m][b][1]
         /\ streams[m][b][1] \in OperationType
         /\ Is(streams[m][b][1], streams[m][b][1].kind)
         /\ Len(streams[m][b]) = 2 => streams[m][b][1].kind = "broadcast"
<1>1. PICK s : s = streams[m][b]
  OBVIOUS
<1>2. s \in Seq(OperationType) /\ s # <<>>
  BY <1>1 DEF StreamOk
<1>3. Len(s) # 0 /\ Len(s) \in Nat /\ (Len(s) > 0 => Head(s) = s[1] /\ s[1] \in OperationType)
  <2> HIDE DEF OperationType
  <2> QED BY <1>2, EmptySeq
<1>4. \/ Len(s) = 1 /\ Is(s[1], "broadcast")
      \/ Len(s) = 2 /\ Is(s[1], "broadcast")
      \/ Len(s) = 1 /\ Is(s[1], "load")
  BY <1>1, <1>3 DEF StreamOk
<1>5. Is(s[1], s[1].kind) /\ (Len(s) = 2 => s[1].kind = "broadcast")
  <2>1. \A kind : Is(s[1], kind) => s[1].kind = kind
    BY DEF Is
  <2> QED BY <1>4, <2>1
<1> QED BY <1>1, <1>3, <1>4, <1>5

\* The broadcast with number k is that of the k-th group, whichever member it
\* is queued at.
LEMMA BroadcastGroup ==
  ASSUME NEW m, NEW k, NEW b \in Heads(m, k), \A c \in Buffers : StreamOk(m, c)
  PROVE  /\ b \in Buffers /\ streams[m][b] # <<>> /\ Is(streams[m][b][1], "broadcast")
         /\ Head(streams[m][b]) = streams[m][b][1]
         /\ streams[m][b][1].k = k /\ streams[m][b][1].kind = "broadcast"
         /\ streams[m][b][1].names \in Seq(Nat)
         /\ k \in Nat \ {0} /\ GroupNo(k, streams[m][b][1].names)
<1>1. b \in Buffers /\ streams[m][b] # <<>>
      /\ Head(streams[m][b]).kind = "broadcast" /\ Head(streams[m][b]).k = k
  BY DEF Heads
<1>2. /\ Head(streams[m][b]) = streams[m][b][1]
      /\ Is(streams[m][b][1], streams[m][b][1].kind)
  BY <1>1, TheHead
<1> QED BY <1>1, <1>2 DEF Is

\* So the bytes that arrive are those of the group the loading behind it
\* expects.
LEMMA BroadcastStream ==
  ASSUME setup' = setup, NEW m, NEW k, NEW D \in Seq(Nat), GroupNo(k, D),
         \A c \in Buffers : StreamOk(m, c), NEW b \in Heads(m, k),
         streams'[m][b] = [i \in 1..Len(streams[m][b]) - 1 |->
               [streams[m][b][i + 1] EXCEPT !.data = D]]
  PROVE  StreamOk(m, b)'
<1>1. PICK s, t : s = streams[m][b] /\ t = streams'[m][b]
  OBVIOUS
<1>2. /\ b \in Buffers /\ s # <<>> /\ s[1].k = k /\ s[1].kind = "broadcast" /\ k \in Nat \ {0}
  BY <1>1, BroadcastGroup
<1>3. s \in Seq(OperationType) /\ Len(s) \in {1, 2} /\ StreamOk(m, b)
  BY <1>1, <1>2, TheHead DEF StreamOk
<1>4. t = [i \in 1..Len(s) - 1 |-> [s[i + 1] EXCEPT !.data = D]]
  BY <1>1
<1>5. CASE Len(s) = 1
  <2>1. t = <<>>
    BY <1>4, <1>5
  <2>2. Len(t) = 0 /\ t \in Seq(OperationType)
    <3> HIDE DEF OperationType
    <3> QED BY <2>1
  <2> QED BY <1>1, <2>2 DEF StreamOk
<1>6. CASE Len(s) = 2
  <2>1. IsEngine(m) /\ Is(s[2], "load") /\ s[1].k = s[2].k
    BY <1>1, <1>3, <1>6 DEF StreamOk
  <2>2. s[2] \in OperationType
    <3>1. 2 \in 1..Len(s)
      BY <1>6
    <3> QED BY <1>3, <3>1, ElementOfSeq
  <2>3. PICK x \in Seq(Nat) : s[2].names = x /\ GroupNo(k, x)
    BY <1>2, <2>1 DEF Is
  <2>4. x = D
    BY <1>2, <2>3, GroupUnique
  <2>5. PICK op : op = [s[2] EXCEPT !.data = D]
    OBVIOUS
  <2>6. /\ op \in OperationType /\ op.data = D /\ op.names = D /\ op.k = k /\ op.kind = "load"
    BY <1>2, <2>1, <2>2, <2>3, <2>4, <2>5 DEF OperationType, Is
  <2>7. Len(t) = 1 /\ t[1] = op /\ t \in Seq(OperationType)
    <3>1. t = [i \in 1..1 |-> [s[i + 1] EXCEPT !.data = D]]
      BY <1>4, <1>6
    <3>2. t = [i \in 1..1 |-> op]
      BY <2>5, <3>1
    <3> HIDE DEF OperationType
    <3> QED BY <2>6, <3>2
  <2>8. GroupNo(k, D)'
    BY SameGroups
  <2>9. Is(op, "load")'
    BY <1>2, <2>6, <2>8 DEF Is
  <2> QED BY <1>1, <2>1, <2>6, <2>7, <2>9 DEF StreamOk, IsEngine
<1> QED BY <1>3, <1>5, <1>6

\* A broadcast keeps the invariant.
LEMMA BroadcastColl ==
  ASSUME TypeInv, CollInv, Broadcast
  PROVE  CollInv'
<1>1. /\ setup' = setup /\ refit' = refit /\ outcome' = outcome /\ weights' = weights
      /\ policy' = policy /\ engine' = engine /\ setup \in Setups /\ refit \in Nat
  BY DEF Broadcast, TypeInv, ipcVars
<1>2. /\ Ranks' = Ranks /\ Params' = Params /\ N' = N /\ Members' = Members /\ Buffers' = Buffers
  BY <1>1, SameSetup
<1>3. PICK k, D : k = delivered + 1 /\ D = CHOOSE names \in HeadNames(Source, k) : TRUE
  OBVIOUS
<1>4. streams' = [m \in Members |-> [b \in Buffers |->
       IF b \notin Heads(m, k) THEN streams[m][b]
       ELSE [i \in 1..Len(streams[m][b]) - 1 |->
               [streams[m][b][i + 1] EXCEPT !.data = D]]]]
  <2> DEFINE j == delivered + 1
             E == CHOOSE names \in HeadNames(Source, j) : TRUE
  <2>1. streams' = [m \in Members |-> [b \in Buffers |->
         IF b \notin Heads(m, j) THEN streams[m][b]
         ELSE [i \in 1..Len(streams[m][b]) - 1 |->
                 [streams[m][b][i + 1] EXCEPT !.data = E]]]]
    BY Zenon DEF Broadcast
  <2>2. j = k /\ E = D
    BY <1>3
  <2> HIDE DEF j, E
  <2> QED BY <2>1, <2>2
<1>5. Source \in Members
  <2>1. 1 \in Ranks
    BY <1>1, TheSetup DEF Ranks
  <2> QED BY <2>1, RanksAreMembers DEF Source
<1>6. \E b \in Heads(Source, k) : TRUE
  BY <1>3, <1>5 DEF Broadcast
<1>7. D \in HeadNames(Source, k)
  BY <1>3, <1>6 DEF HeadNames
<1>8. PICK h \in Heads(Source, k) : D = Head(streams[Source][h]).names
  BY <1>7 DEF HeadNames
<1>9. D \in Seq(Nat) /\ GroupNo(k, D)
  <2>1. \A c \in Buffers : StreamOk(Source, c)
    BY <1>5 DEF CollInv
  <2> QED BY <1>8, <2>1, BroadcastGroup
<1>10. \A m \in Members : \A b \in Buffers : StreamOk(m, b)'
  <2> TAKE m \in Members
  <2> TAKE b \in Buffers
  <2>0. \A c \in Buffers : StreamOk(m, c)
    BY DEF CollInv
  <2>1. CASE b \in Heads(m, k)
    <3>1. streams'[m][b] = [i \in 1..Len(streams[m][b]) - 1 |->
               [streams[m][b][i + 1] EXCEPT !.data = D]]
      BY <1>4, <2>1, Zenon
    <3> QED BY <1>1, <1>9, <2>0, <2>1, <3>1, BroadcastStream
  <2>2. CASE b \notin Heads(m, k)
    <3>1. streams'[m][b] = streams[m][b]
      BY <1>4, <2>2, Zenon
    <3> QED BY <1>1, <2>0, <3>1, StreamKept
  <2> QED BY <2>1, <2>2
<1>11. \A r \in Ranks : \A n \in Params : Updated(r, n) => Updated(r, n)'
  <2> TAKE r \in Ranks
  <2> TAKE n \in Params
  <2>1. PICK e : e = <<"engine", r>>
    OBVIOUS
  <2>2. e \in Members /\ \A c \in Buffers : StreamOk(e, c)
    BY <2>1, RanksAreMembers DEF CollInv
  <2>3. ASSUME Queued(r, n) PROVE Queued(r, n)'
    <3>1. PICK c, i : c \in Buffers /\ i \in 1..Len(streams[e][c]) /\
            streams[e][c][i].kind = "load" /\ n \in ToSet(streams[e][c][i].names)
      BY <2>1, <2>3 DEF Queued
    <3>2. PICK s, t : s = streams[e][c] /\ t = streams'[e][c]
      OBVIOUS
    <3>3. s \in Seq(OperationType)
      BY <2>2, <3>1, <3>2 DEF StreamOk
    <3>4. \E j \in 1..Len(t) : t[j].kind = "load" /\ n \in ToSet(t[j].names)
      <4>1. CASE c \notin Heads(e, k)
        <5>1. t = s
          BY <1>4, <2>2, <3>1, <3>2, <4>1
        <5> QED BY <3>1, <3>2, <5>1
      <4>2. CASE c \in Heads(e, k)
        <5>1. t = [x \in 1..Len(s) - 1 |-> [s[x + 1] EXCEPT !.data = D]]
          BY <1>4, <2>2, <3>1, <3>2, <4>2
        <5>2. s[1].kind = "broadcast"
          BY <2>2, <3>2, <4>2, BroadcastGroup
        <5>3. i # 1
          BY <3>1, <3>2, <5>2
        <5>4. Len(s) \in Nat /\ i \in 1..Len(s) /\ i - 1 \in 1..(Len(s) - 1) /\ (i - 1) + 1 = i
          <6> HIDE DEF OperationType
          <6> QED BY <3>1, <3>2, <3>3, <5>3
        <5>5. s[i] \in OperationType
          <6> HIDE DEF OperationType
          <6> QED BY <3>3, <5>4
        <5>6. Len(t) = Len(s) - 1
          <6> HIDE DEF OperationType
          <6> QED BY <5>1, <5>4
        <5>7. t[i - 1] = [s[i] EXCEPT !.data = D]
          BY <5>1, <5>4
        <5>8. t[i - 1].kind = s[i].kind /\ t[i - 1].names = s[i].names
          BY <5>5, <5>7 DEF OperationType
        <5> QED BY <3>1, <3>2, <5>4, <5>6, <5>8
      <4> QED BY <4>1, <4>2
    <3> QED BY <1>2, <2>1, <3>1, <3>2, <3>4 DEF Queued
  <2> QED BY <1>1, <2>3 DEF Updated
<1>12. \A m : Local(m)' = Local(m)
  BY <1>1 DEF Local
<1>13. \A r \in Ranks : EngineOk(r)'
  BY <1>1, <1>11, <1>12, EngineKept DEF CollInv
<1>14. \A m \in Members : MemberOk(m)'
  BY <1>1, <1>12, MemberKept DEF CollInv
<1>15. \A r \in Ranks, x \in Params : SomeVersion(r, x)'
  BY <1>1, StillSomeVersion DEF CollInv
<1> QED BY <1>1, <1>2, <1>10, <1>13, <1>14, <1>15 DEF CollInv

\* The loading of a group brings its parameters.
LEMMA LoadLandsColl ==
  ASSUME TypeInv, CollInv, NEW r \in Ranks, NEW b \in Buffers, LoadLands(r, b)
  PROVE  CollInv'
<1>1. /\ setup' = setup /\ refit' = refit /\ outcome' = outcome
      /\ policy' = policy /\ engine' = engine /\ setup \in Setups /\ refit \in Nat
  BY DEF LoadLands, TypeInv, ipcVars
<1>2. /\ Ranks' = Ranks /\ Params' = Params /\ N' = N /\ Members' = Members /\ Buffers' = Buffers
  BY <1>1, SameSetup
<1>3. PICK m, s, op : m = <<"engine", r>> /\ s = streams[m][b] /\ op = Head(s)
  OBVIOUS
<1>4. /\ s # <<>> /\ op.kind = "load"
      /\ weights' = [weights EXCEPT ![r] = [n \in Params |->
             IF n \notin ToSet(op.names) THEN weights[r][n]
             ELSE IF op.names = op.data THEN <<refit, n>> ELSE Garbage]]
      /\ streams' = [streams EXCEPT ![m][b] = Tail(s)]
  BY <1>3, Zenon DEF LoadLands
<1>5. m \in Members /\ StreamOk(m, b) /\ IsEngine(m)
  BY <1>3, RanksAreMembers, LocalIs DEF CollInv
<1>6. Len(s) = 1 /\ op = s[1] /\ op.names = op.data /\ s \in Seq(OperationType)
  <2>1. Len(s) \in {1, 2} /\ op = s[1] /\ (Len(s) = 2 => op.kind = "broadcast") /\ Is(op, "load")
    BY <1>3, <1>4, <1>5, TheHead
  <2> QED BY <1>3, <1>4, <1>5, <2>1 DEF StreamOk, Is
<1>7. Tail(s) = <<>> /\ Len(Tail(s)) = 0 /\ Tail(s) \in Seq(OperationType)
  <2> HIDE DEF OperationType
  <2>1. Tail(s) \in Seq(OperationType) /\ Len(Tail(s)) = 0
    BY <1>6
  <2> QED BY <2>1, EmptySeq
<1>8. /\ DOMAIN streams = Members /\ \A x \in Members : DOMAIN streams[x] = Buffers
      /\ DOMAIN weights = Ranks
  BY DEF TypeInv, StreamTypes, WeightTypes
<1>9. streams'[m][b] = Tail(s)
      /\ \A x \in Members : \A c \in Buffers : <<x, c>> # <<m, b>> => streams'[x][c] = streams[x][c]
  BY <1>4, <1>5, <1>8
<1>10. /\ \A q \in Ranks : q # r => weights'[q] = weights[q]
       /\ \A n \in Params : weights'[r][n] = IF n \in ToSet(op.names) THEN <<refit, n>>
                                              ELSE weights[r][n]
  BY <1>4, <1>6, <1>8
<1>11. \A x \in Members : \A c \in Buffers : StreamOk(x, c)'
  <2> TAKE x \in Members
  <2> TAKE c \in Buffers
  <2>1. CASE x = m /\ c = b
    BY <1>7, <1>9, <2>1 DEF StreamOk
  <2>2. CASE ~ (x = m /\ c = b)
    <3>1. streams'[x][c] = streams[x][c]
      BY <1>9, <2>2
    <3> QED BY <1>1, <3>1, StreamKept DEF CollInv
  <2> QED BY <2>1, <2>2
<1>12. \A q \in Ranks : \A n \in Params : Updated(q, n) => Updated(q, n)'
  <2> TAKE q \in Ranks
  <2> TAKE n \in Params
  <2> HAVE Updated(q, n)
  <2>1. CASE q = r /\ n \in ToSet(op.names)
    BY <1>1, <1>10, <2>1 DEF Updated
  <2>2. CASE ~ (q = r /\ n \in ToSet(op.names))
    <3>1. weights'[q][n] = weights[q][n]
      BY <1>10, <2>2
    <3>2. ASSUME Queued(q, n) PROVE Queued(q, n)'
      <4>1. PICK e : e = <<"engine", q>>
        OBVIOUS
      <4>2. PICK c, i : c \in Buffers /\ i \in 1..Len(streams[e][c]) /\
              streams[e][c][i].kind = "load" /\ n \in ToSet(streams[e][c][i].names)
        BY <3>2, <4>1 DEF Queued
      <4>3. <<e, c>> # <<m, b>>
        <5> SUFFICES ASSUME e = m, c = b PROVE FALSE
          OBVIOUS
        <5>1. q = r
          BY <1>3, <4>1
        <5>2. i = 1
          BY <1>3, <1>6, <4>2
        <5> QED BY <1>3, <1>6, <2>2, <4>2, <5>1, <5>2
      <4>4. streams'[e][c] = streams[e][c]
        BY <1>9, <4>1, <4>2, <4>3, RanksAreMembers
      <4> QED BY <1>2, <4>1, <4>2, <4>4 DEF Queued
    <3> QED BY <1>1, <3>1, <3>2 DEF Updated
  <2> QED BY <2>1, <2>2
<1>13. \A x : Local(x)' = Local(x)
  BY <1>1 DEF Local
<1>14. \A q \in Ranks : EngineOk(q)'
  BY <1>1, <1>12, <1>13, EngineKept DEF CollInv
<1>15. \A x \in Members : MemberOk(x)'
  BY <1>1, <1>13, MemberKept DEF CollInv
<1>16. \A q \in Ranks, n \in Params : SomeVersion(q, n)'
  <2> TAKE q \in Ranks, n \in Params
  <2>1. weights'[q][n] = weights[q][n] \/ weights'[q][n] = <<refit, n>>
    BY <1>10
  <2> QED BY <1>1, <2>1, StillSomeVersion DEF CollInv
<1> QED BY <1>1, <1>2, <1>11, <1>14, <1>15, <1>16 DEF CollInv

\* At the start of a refit no member has queued anything.
LEMMA FreshMember ==
  ASSUME setup \in Setups, NEW m, Local(m) = Fresh
  PROVE  MemberOk(m)
<1>1. /\ Fresh.pc = "loop" /\ Fresh.next = 1 /\ Fresh.used = 0 /\ Fresh.buffer = 1
      /\ Fresh.result = FALSE
  BY DEF Fresh
<1>2. 0 \in Nat /\ 1 \in Nat \ {0} /\ StartOf(0, 1)
  BY StartFirst
<1> QED BY <1>1, <1>2 DEF MemberOk

\* An engine rank at the start of a refit has promised nothing.
LEMMA FreshEngine ==
  ASSUME setup \in Setups, NEW r, Local(<<"engine", r>>) = Fresh
  PROVE  EngineOk(r)
<1>1. Fresh.next = 1 /\ Fresh.result = FALSE
  BY DEF Fresh
<1>2. \A n \in Params : ~ (n < 1)
  BY TheSetup DEF Params
<1> QED BY <1>1, <1>2 DEF EngineOk

\* The driver keeps the invariant.
LEMMA DriverColl ==
  ASSUME TypeInv, CollInv, Collective,
         RefitReturns \/ RefitRaises \/ NextRefit \/ UNCHANGED vars
  PROVE  CollInv'
<1>0. setup' = setup /\ weights' = weights /\ streams' = streams /\ refit \in Nat /\ setup \in Setups
  BY DEF RefitReturns, RefitRaises, NextRefit, vars, TypeInv, ncclVars
<1>1. /\ Ranks' = Ranks /\ Params' = Params /\ N' = N /\ Members' = Members /\ Buffers' = Buffers
  BY <1>0, SameSetup
<1>2. \A m \in Members : \A b \in Buffers : StreamOk(m, b)'
  BY <1>0, StreamKept DEF CollInv
<1>3. refit' \in {refit, refit + 1}
  BY DEF RefitReturns, RefitRaises, NextRefit, vars
<1>4. \A r \in Ranks, n \in Params : SomeVersion(r, n)'
  BY <1>0, <1>3, StillSomeVersion DEF CollInv
<1>5. CASE NextRefit
  <2>1. /\ outcome' = "running"
        /\ policy' = [r \in Ranks |-> Fresh] /\ engine' = [r \in Ranks |-> Fresh]
    BY <1>5 DEF NextRefit
  <2>2. \A m \in Members : Local(m)' = Fresh
    BY <2>1 DEF Members, Local, IsEngine
  <2>3. /\ Fresh.pc = "loop" /\ Fresh.next = 1 /\ Fresh.used = 0 /\ Fresh.buffer = 1
        /\ Fresh.result = FALSE
    BY DEF Fresh
  <2>4. StartOf(0, 1)' /\ 0 \in Nat /\ 1 \in Nat \ {0}
    BY <1>0, StartFirst, SameGroups
  <2>5. \A m \in Members : MemberOk(m)'
    BY <2>2, <2>3, <2>4 DEF MemberOk
  <2>6. \A r \in Ranks : EngineOk(r)'
    <3>1. \A n \in Params : ~ (n < 1)
      BY <1>0, TheSetup DEF Params
    <3> QED BY <1>1, <2>2, <2>3, <3>1, RanksAreMembers DEF EngineOk
  <2> QED BY <1>1, <1>2, <1>4, <2>1, <2>5, <2>6 DEF CollInv
<1>6. CASE RefitReturns \/ RefitRaises \/ UNCHANGED vars
  <2>1. refit' = refit /\ policy' = policy /\ engine' = engine
    BY <1>6 DEF RefitReturns, RefitRaises, vars
  <2>2. \A m : Local(m)' = Local(m)
    BY <2>1 DEF Local
  <2>3. \A m \in Members : MemberOk(m)'
    BY <1>0, <2>2, MemberKept DEF CollInv
  <2>4. \A r \in Ranks : \A n \in Params : Updated(r, n) => Updated(r, n)'
    BY <1>0, <2>1, UpdatedKept
  <2>5. \A r \in Ranks : EngineOk(r)'
    BY <1>0, <2>2, <2>4, EngineKept DEF CollInv
  <2>6. outcome' = "updated" => engine[1].result
    <3>1. ~ Http
      BY DEF Http, Collective
    <3> QED BY <1>6, <3>1 DEF RefitReturns, RefitRaises, vars, CollInv, Success
  <2> QED BY <1>1, <1>2, <1>4, <2>1, <2>3, <2>5, <2>6 DEF CollInv
<1> QED BY <1>5, <1>6

\* Every step does.
LEMMA CollNext ==
  ASSUME TypeInv, Collective, CollInv, [Next]_vars
  PROVE  CollInv'
<1>1. ASSUME NEW r \in Ranks, PolicyStep(r) PROVE CollInv'
  BY <1>1, CollectiveOnly, QueueGroupColl, QueueNothingColl, RanksAreMembers
<1>2. ASSUME NEW r \in Ranks, EngineStep(r) PROVE CollInv'
  BY <1>2, CollectiveOnly, QueueGroupColl, QueueNothingColl, RanksAreMembers
<1>3. ASSUME NEW r \in Ranks, StreamStep(r) PROVE CollInv'
  BY <1>3, CollectiveOnly, LoadLandsColl
<1> QED BY <1>1, <1>2, <1>3, CollectiveOnly, BroadcastColl, DriverColl DEF Next, Driver

\* It holds at the start.
LEMMA CollInit ==
  ASSUME Init PROVE CollInv
<1>1. /\ setup \in Setups /\ outcome = "running" /\ refit = 1
      /\ policy = [r \in Ranks |-> Fresh] /\ engine = [r \in Ranks |-> Fresh]
      /\ weights = [r \in Ranks |-> [n \in Params |-> <<0, n>>]]
      /\ streams = [m \in Members |-> [b \in Buffers |-> <<>>]]
  BY DEF Init
<1>2. \A m \in Members : Local(m) = Fresh
  BY <1>1 DEF Members, Local, IsEngine
<1>3. \A m \in Members : MemberOk(m)
  BY <1>1, <1>2, FreshMember
<1>4. \A r \in Ranks : EngineOk(r)
  BY <1>1, <1>2, FreshEngine, RanksAreMembers
<1>5. \A m \in Members : \A b \in Buffers : StreamOk(m, b)
  <2>1. <<>> \in Seq(OperationType) /\ Len(<<>>) = 0
    OBVIOUS
  <2>2. \A m \in Members : \A b \in Buffers : streams[m][b] = <<>>
    BY <1>1
  <2> QED BY <2>1, <2>2 DEF StreamOk
<1>6. \A r \in Ranks, n \in Params : SomeVersion(r, n)
  BY <1>1 DEF SomeVersion
<1> QED BY <1>1, <1>3, <1>4, <1>5, <1>6 DEF CollInv

-----------------------------------------------------------------------------
(* CUDA IPC: where the tensors are in a buffer                             *)

\* Rounding up to the alignment gives at least the size.
LEMMA AlignedAtLeast ==
  ASSUME NEW bytes \in Nat
  PROVE  Aligned(bytes) \in Nat /\ bytes <= Aligned(bytes)
<1> DEFINE a == bytes + Alignment - 1
           q == a \div Alignment
<1>1. Alignment \in Nat \ {0} /\ a \in Nat
  BY AlignmentAssumption
<1>2. q \in Nat /\ a % Alignment \in 0..(Alignment - 1) /\ a = q * Alignment + (a % Alignment)
  <2> HIDE DEF a
  <2> QED BY <1>1, Division
<1>3. q * Alignment \in Nat
  <2> HIDE DEF q
  <2> QED BY <1>1, <1>2
<1>4. Aligned(bytes) = q * Alignment
  BY DEF Aligned
<1> HIDE DEF q
<1> QED BY <1>1, <1>2, <1>3, <1>4

\* The bytes the tensors of a sequence take in a buffer.
Taken(s) == FoldLeft(LAMBDA sum, n : sum + Aligned(Size(n)), 0, s)
Sizes(s) == [k \in 1..Len(s) |-> Aligned(Size(s[k]))]

\* Every parameter has a size, and takes a place in a buffer.
LEMMA SizeOfParam ==
  ASSUME setup \in Setups, NEW n \in Params
  PROVE  /\ Size(n) \in Nat \ {0} /\ Aligned(Size(n)) \in Nat \ {0}
         /\ Size(n) <= Aligned(Size(n))
<1>1. setup.sizes \in Seq(Nat \ {0}) /\ n \in 1..Len(setup.sizes)
  BY TheSetup DEF Params
<1>2. Size(n) \in Nat \ {0}
  BY <1>1 DEF Size
<1>3. Aligned(Size(n)) \in Nat /\ Size(n) <= Aligned(Size(n))
  BY <1>2, AlignedAtLeast
<1> QED BY <1>2, <1>3

\* The bytes taken are the sum of the aligned sizes.
LEMMA TakenTotal ==
  ASSUME setup \in Setups, NEW s \in Seq(Params)
  PROVE  Sizes(s) \in Seq(Nat) /\ IsTotal(Sizes(s), Taken(s))
<1> DEFINE d == Sizes(s)
           n == Len(d)
           Is2(g) == g = [x \in SUBSET DOMAIN s |->
                           IF x = {} THEN 0
                           ELSE g[x \ {Max(x)}] + Aligned(Size(s[Max(x)]))]
           F == [p \in (1..n) \X Int |-> p[2] + d[p[1]]]
<1>1. d \in Seq(Nat) /\ n = Len(s) /\ n \in Nat
      /\ \A k \in 1..n : d[k] = Aligned(Size(s[k])) /\ d[k] \in Nat
  <2>1. \A k \in 1..Len(s) : Aligned(Size(s[k])) \in Nat
    BY SizeOfParam
  <2> QED BY <2>1 DEF Sizes
<1>2. DOMAIN s = 1..n
  BY <1>1
<1>20. F \in [(1..n) \X Int -> Int]
  <2> HIDE DEF d, n
  <2> QED BY <1>1
<1>3. PICK g \in [SUBSET (1..n) -> Int] : Folds(g, n, 0, F)
  <2>1. 0 \in Int
    OBVIOUS
  <2> HIDE DEF F, n
  <2> QED BY <1>1, <1>20, <2>1, FoldExists, Zenon
<1>4. ASSUME NEW x \in SUBSET (1..n), x # {}
      PROVE  F[<<Max(x), g[x \ {Max(x)}]>>] = g[x \ {Max(x)}] + Aligned(Size(s[Max(x)]))
  <2>1. Max(x) \in 1..n
    <3> HIDE DEF n
    <3> QED BY <1>1, <1>4, MaxOfSet
  <2>2. g[x \ {Max(x)}] \in Int
    OBVIOUS
  <2> HIDE DEF n, d
  <2> QED BY <1>1, <2>1, <2>2
<1>5. Is2(g)
  <2> HIDE DEF F, n
  <2> QED BY <1>2, <1>3, <1>4 DEF Folds
<1> DEFINE iter == CHOOSE h : Is2(h)
<1>6. Is2(iter)
  <2> HIDE DEF Is2
  <2> QED BY <1>5
<1>7. Taken(s) = iter[DOMAIN s]
  BY Zenon DEF Taken, FoldLeft, MapThenFoldSet
<1>8. \A x \in SUBSET (1..n) :
        iter[x] = IF x = {} THEN 0 ELSE iter[x \ {Max(x)}] + d[Max(x)]
  <2> TAKE x \in SUBSET (1..n)
  <2>1. x # {} => d[Max(x)] = Aligned(Size(s[Max(x)]))
    <3> HIDE DEF d, n
    <3> QED BY <1>1, MaxOfSet
  <2> HIDE DEF iter, d, n
  <2> QED BY <1>2, <1>6, <2>1
<1> HIDE DEF iter, Is2
<1>9. IsTotal(d, iter[1..Len(d)])
  <2>1. d \in Seq(Int)
    BY <1>1
  <2> HIDE DEF d
  <2> QED BY ONLY <1>8, <2>1, SumByFold
<1> QED BY <1>1, <1>2, <1>7, <1>9

\* One tensor more takes its aligned size.
LEMMA TakenByMore ==
  ASSUME setup \in Setups, NEW s \in Seq(Params), NEW n \in Params
  PROVE  Taken(s) \in Nat /\ Taken(Append(s, n)) = Taken(s) + Aligned(Size(n))
<1> DEFINE t == Append(s, n)
           x == Aligned(Size(n))
<1>1. t \in Seq(Params) /\ Len(t) = Len(s) + 1 /\ t[Len(s) + 1] = n
      /\ Len(s) \in Nat /\ \A k \in 1..Len(s) : t[k] = s[k]
  OBVIOUS
<1>2. x \in Nat
  BY SizeOfParam
<1> HIDE DEF t, x
<1>3. Sizes(s) \in Seq(Nat) /\ IsTotal(Sizes(s), Taken(s))
  BY TakenTotal
<1>4. Sizes(t) \in Seq(Nat) /\ IsTotal(Sizes(t), Taken(t))
  BY <1>1, TakenTotal
<1>5. Sizes(t) = Append(Sizes(s), x)
  <2>1. Len(Sizes(s)) = Len(s) /\ Len(Sizes(t)) = Len(s) + 1 /\ Len(s) \in Nat
    BY <1>1 DEF Sizes
  <2>2. Append(Sizes(s), x) \in Seq(Nat) /\ Len(Append(Sizes(s), x)) = Len(s) + 1
    BY <1>2, <1>3, <2>1
  <2>3. \A k \in 1..(Len(s) + 1) : Sizes(t)[k] = Append(Sizes(s), x)[k]
    <3> TAKE k \in 1..(Len(s) + 1)
    <3>1. Sizes(t)[k] = Aligned(Size(t[k]))
      BY <1>1 DEF Sizes
    <3>2. CASE k = Len(s) + 1
      BY <1>1, <1>3, <2>1, <3>1, <3>2 DEF x
    <3>3. CASE k \in 1..Len(s)
      <4>1. Append(Sizes(s), x)[k] = Sizes(s)[k]
        BY <1>3, <2>1, <3>3
      <4>2. Sizes(s)[k] = Aligned(Size(s[k]))
        BY <3>3 DEF Sizes
      <4> QED BY <1>1, <3>1, <3>3, <4>1, <4>2
    <3> QED BY <2>1, <3>2, <3>3
  <2> QED BY ONLY <1>4, <2>1, <2>2, <2>3, SeqEqual
<1>6. Sizes(s) \in Seq(Int) /\ x \in Int
  BY <1>2, <1>3
<1>7. IsTotal(Append(Sizes(s), x), Taken(s) + x)
  BY <1>3, <1>6, TotalOfAppend
<1>8. Taken(t) = Taken(s) + x
  <2>1. Append(Sizes(s), x) \in Seq(Int)
    BY <1>6
  <2> QED BY <1>4, <1>5, <1>7, <2>1, TotalUnique
<1>9. Taken(s) \in Nat
  BY <1>3, TotalOfNats
<1> QED BY <1>8, <1>9 DEF t, x

\* No tensor takes no bytes.
LEMMA TakenByNone ==
  ASSUME setup \in Setups
  PROVE  Taken(<<>>) = 0
<1> DEFINE s == <<>>
<1>1. s \in Seq(Params)
  OBVIOUS
<1>2. Sizes(s) = <<>>
  BY DEF Sizes
<1>3. IsTotal(Sizes(s), Taken(s)) /\ Sizes(s) \in Seq(Nat)
  <2> HIDE DEF s
  <2> QED BY <1>1, TakenTotal
<1>4. <<>> \in Seq(Int) /\ IsTotal(<<>>, 0)
  BY TotalOfNone
<1>5. Taken(s) = 0
  <2> HIDE DEF s
  <2> QED BY ONLY <1>2, <1>3, <1>4, TotalUnique
<1> QED BY <1>5

\* The engine rank's offset of a tensor is the worker's.
LEMMA Offsets ==
  ASSUME setup \in Setups, NEW names \in Seq(Params)
  PROVE  /\ Offset(names, 1) = 0
         /\ \A i \in 1..(Len(names) + 1) : Offset(names, i) \in Nat
         /\ \A i \in 1..Len(names) :
              Offset(names, i + 1) = Offset(names, i) + Aligned(Size(names[i]))
         /\ \A i, j \in 1..(Len(names) + 1) :
              i < j => Offset(names, i) + Aligned(Size(names[i])) <= Offset(names, j)
<1>0. \A i : Offset(names, i) = Taken(SubSeq(names, 1, i - 1))
  BY DEF Offset, Taken
<1>1. PICK l : l = Len(names)
  OBVIOUS
<1>2. l \in Nat /\ \A i \in 1..l : names[i] \in Params
  BY <1>1
<1>3. ASSUME NEW i \in 1..l
      PROVE  /\ SubSeq(names, 1, i - 1) \in Seq(Params)
             /\ SubSeq(names, 1, i) = Append(SubSeq(names, 1, i - 1), names[i])
  <2>1. /\ SubSeq(names, 1, i - 1) \in Seq(Params) /\ Len(SubSeq(names, 1, i - 1)) = i - 1
        /\ \A k \in 1..(i - 1) : SubSeq(names, 1, i - 1)[k] = names[k]
    BY <1>1, <1>2, SubSeqProperties
  <2>2. /\ SubSeq(names, 1, i) \in Seq(Params) /\ Len(SubSeq(names, 1, i)) = i
        /\ \A k \in 1..i : SubSeq(names, 1, i)[k] = names[k]
    BY <1>1, <1>2, SubSeqProperties
  <2>3. PICK a, b : a = SubSeq(names, 1, i - 1) /\ b = SubSeq(names, 1, i)
    OBVIOUS
  <2>4. /\ Append(a, names[i]) \in Seq(Params) /\ Len(Append(a, names[i])) = i
        /\ \A k \in 1..i : Append(a, names[i])[k] = names[k]
    BY <1>2, <2>1, <2>3
  <2>5. b = Append(a, names[i])
    BY <2>2, <2>3, <2>4, SeqEqual
  <2> QED BY <2>1, <2>3, <2>5
<1>4. Offset(names, 1) = 0
  <2>1. SubSeq(names, 1, 1 - 1) = <<>>
    BY SubSeqEmpty
  <2> QED BY <1>0, <2>1, TakenByNone
<1>5. \A i \in 1..l : /\ Offset(names, i) \in Nat
                      /\ Offset(names, i + 1) = Offset(names, i) + Aligned(Size(names[i]))
  <2> TAKE i \in 1..l
  <2>1. Offset(names, i + 1) = Taken(Append(SubSeq(names, 1, i - 1), names[i]))
    <3>1. (i + 1) - 1 = i
      BY <1>2
    <3>2. Offset(names, i + 1) = Taken(SubSeq(names, 1, i))
      BY <1>0, <3>1
    <3> QED BY <1>3, <3>2
  <2>2. /\ Taken(SubSeq(names, 1, i - 1)) \in Nat
        /\ Taken(Append(SubSeq(names, 1, i - 1), names[i]))
             = Taken(SubSeq(names, 1, i - 1)) + Aligned(Size(names[i]))
    BY <1>2, <1>3, TakenByMore
  <2> QED BY <1>0, <2>1, <2>2
<1>6. \A i \in 1..l : Aligned(Size(names[i])) \in Nat
  BY <1>2, SizeOfParam
<1>7. \A i \in 1..(l + 1) : Offset(names, i) \in Nat
  <2> TAKE i \in 1..(l + 1)
  <2>1. CASE i \in 1..l
    BY <1>5, <2>1
  <2>2. CASE i = l + 1 /\ l > 0
    <3>1. l \in 1..l
      BY <1>2, <2>2
    <3> QED BY <1>5, <1>6, <2>2, <3>1
  <2>3. CASE i = 1
    BY <1>4, <2>3
  <2> QED BY <1>2, <2>1, <2>2, <2>3
<1>8. ASSUME NEW i \in 1..l
      PROVE  \A j \in (i + 1)..(l + 1) :
               Offset(names, i) + Aligned(Size(names[i])) <= Offset(names, j)
  <2> DEFINE T == {k \in 0..(l - i) :
                     Offset(names, i) + Aligned(Size(names[i])) <= Offset(names, i + 1 + k)}
  <2>0. l - i \in Nat
    BY <1>2
  <2>1. 0 \in T
    <3>1. i + 1 + 0 = i + 1 /\ i + 1 \in 1..(l + 1)
      BY <1>2
    <3> QED BY <1>5, <1>7, <2>0, <3>1
  <2>2. ASSUME NEW k \in 0..((l - i) - 1), k \in T
        PROVE  k + 1 \in T
    <3>1. i + 1 + k \in 1..l /\ i + 1 + (k + 1) = (i + 1 + k) + 1 /\ k + 1 \in 0..(l - i)
      BY <1>2
    <3>2. PICK x, y, z, w : /\ x = Offset(names, i) /\ y = Aligned(Size(names[i]))
                            /\ z = Offset(names, i + 1 + k) /\ w = Aligned(Size(names[i + 1 + k]))
      OBVIOUS
    <3>3. x \in Nat /\ y \in Nat /\ z \in Nat /\ w \in Nat /\ x + y <= z
      BY <1>5, <1>6, <2>2, <3>1, <3>2
    <3>4. Offset(names, i + 1 + (k + 1)) = z + w
      BY <1>5, <3>1, <3>2
    <3>5. x + y <= z + w
      BY ONLY <3>3
    <3>6. Offset(names, i) + Aligned(Size(names[i])) <= Offset(names, i + 1 + (k + 1))
      BY ONLY <3>2, <3>4, <3>5
    <3> QED BY <3>1, <3>6
  <2> HIDE DEF T
  <2>3. \A k \in 0..(l - i) : k \in T
    BY ONLY <2>0, <2>1, <2>2, InductionTo
  <2> TAKE j \in (i + 1)..(l + 1)
  <2>4. j - (i + 1) \in 0..(l - i) /\ i + 1 + (j - (i + 1)) = j
    BY <1>2
  <2>5. j - (i + 1) \in T
    BY <2>3, <2>4
  <2> QED BY <2>4, <2>5 DEF T
<1>9. \A i, j \in 1..(l + 1) :
              i < j => Offset(names, i) + Aligned(Size(names[i])) <= Offset(names, j)
  BY <1>2, <1>8
<1> QED BY <1>1, <1>4, <1>5, <1>7, <1>9

\* A tensor appended to a group does not move those before it.
LEMMA OffsetOfAppend ==
  ASSUME setup \in Setups, NEW names \in Seq(Params), NEW n \in Params,
         NEW i \in 1..(Len(names) + 1)
  PROVE  Offset(Append(names, n), i) = Offset(names, i)
<1> DEFINE t == Append(names, n)
           a == SubSeq(names, 1, i - 1)
           b == SubSeq(t, 1, i - 1)
<1>1. t \in Seq(Params) /\ Len(t) = Len(names) + 1 /\ Len(names) \in Nat
      /\ \A k \in 1..Len(names) : t[k] = names[k]
  OBVIOUS
<1> HIDE DEF t
<1>2. a \in Seq(Params) /\ Len(a) = i - 1 /\ \A k \in 1..(i - 1) : a[k] = names[k]
  BY <1>1, SubSeqProperties
<1>3. b \in Seq(Params) /\ Len(b) = i - 1 /\ \A k \in 1..(i - 1) : b[k] = t[k]
  BY <1>1, SubSeqProperties
<1> HIDE DEF a, b
<1>4. a = b
  <2>1. \A k \in 1..(i - 1) : a[k] = b[k]
    BY <1>1, <1>2, <1>3
  <2> QED BY <1>2, <1>3, <2>1, SeqEqual
<1> QED BY <1>4 DEF Offset, a, b, t

\* The offsets do not change while the configuration does not.
LEMMA SameOffsets ==
  ASSUME setup' = setup
  PROVE  /\ \A names, i : Offset(names, i)' = Offset(names, i)
         /\ BufferSize' = BufferSize /\ \A n : Size(n)' = Size(n)
         /\ \A n : Aligned(n)' = Aligned(n)
<1>1. \A n : Size(n)' = Size(n)
  BY DEF Size
<1>2. \A s : Taken(s)' = Taken(s)
  BY Zenon DEF Taken, Size, Aligned, FoldLeft, MapThenFoldSet
<1>3. \A names, i : Offset(names, i)' = Offset(names, i)
  <2>1. \A names, i : Offset(names, i) = Taken(SubSeq(names, 1, i - 1))
    BY DEF Offset, Taken
  <2>2. \A names, i : Offset(names, i)' = Taken(SubSeq(names, 1, i - 1))'
    BY DEF Offset, Taken
  <2> QED BY <1>2, <2>1, <2>2
<1>4. \A n : Aligned(n)' = Aligned(n)
  BY DEF Aligned
<1> QED BY <1>1, <1>3, <1>4, SameSetup

-----------------------------------------------------------------------------
(* CUDA IPC: the exchange                                                  *)

\* The bytes of tensor i of a group in buffer b are those of its parameter.
Landed(r, b, names, i) ==
  \A x \in Offset(names, i)..(Offset(names, i) + Size(names[i]) - 1) :
     memory[r][b][x] = <<refit, names[i]>>

\* A group: the parameters from first on.
Piece(names, first) ==
  names \in Seq(Params) /\ \A i \in 1..Len(names) : names[i] = first + i - 1

\* Worker r, with locals p and copies q on its stream: the group it packs is
\* the piece before next, laid out end to end; the last copies are on their
\* way, the others have landed.
Packing(r, p, q) ==
  LET l == Len(p.names)
      c == Len(q)
  IN  /\ DOMAIN p = Fields /\ p.next \in 1..(N + 1) /\ p.buffer \in {1, 2}
      /\ l < p.next /\ Piece(p.names, p.next - l)
      /\ p.used = Offset(p.names, l + 1) /\ p.used <= BufferSize
      /\ q \in Seq({1, 2} \X Nat \X Params) /\ c <= l
      /\ \A j \in 1..c :
           q[j] = <<p.buffer, Offset(p.names, l - c + j), p.names[l - c + j]>>
      /\ \A i \in 1..(l - c) : Landed(r, p.buffer, p.names, i)
      /\ p.pc # "loop" => p.next = N + 1 /\ p.names = <<>>

LoadedBefore(r, k) == \A n \in Params : n < k => weights[r][n] = <<refit, n>>

\* What worker r and its engine rank, with locals p and e, say to each other by
\* message m, and what the engine rank has loaded by then.
Sent(p) == p.next - Len(p.names)
AtRest(r, p, e, m) ==
  /\ m = Empty /\ e.pc # "load"
  /\ \/ p.pc = "loop" /\ p.awaiting = FALSE
     \/ p.pc = "returned" /\ e.result = TRUE
  /\ LoadedBefore(r, Sent(p))
Acknowledged(r, p, e, m) ==
  /\ m = Ack /\ p.awaiting = TRUE /\ e.pc # "load"
  /\ p.pc = "loop" \/ (p.pc = "closing" /\ e.result = TRUE)
  /\ LoadedBefore(r, Sent(p))
Completing(r, p, e, m) ==
  /\ m = Complete /\ p.pc = "closing" /\ e.pc # "load" /\ p.awaiting = TRUE
  /\ LoadedBefore(r, Sent(p))
Handing(r, p, e, m, b, names, used) ==
  /\ m = <<"group", b, names, used>> /\ p.pc = "loop" /\ p.awaiting = TRUE
  /\ b # p.buffer /\ Len(names) < Sent(p) /\ Piece(names, Sent(p) - Len(names))
  /\ \A i \in 1..Len(names) : Landed(r, b, names, i)
  /\ LoadedBefore(r, Sent(p) - Len(names))
  /\ e.pc = "load" =>
       /\ e.buffer = b /\ e.names = names
       /\ e.next \in 1..(Len(names) + 1)
       /\ LoadedBefore(r, Sent(p) - Len(names) + e.next - 1)
Exchange(r, p, e, m) ==
  \/ AtRest(r, p, e, m) \/ Acknowledged(r, p, e, m) \/ Completing(r, p, e, m)
  \/ \E b \in {1, 2}, names \in Seq(Params), used \in Nat : Handing(r, p, e, m, b, names, used)

Working(r) ==
  \E p, q, e, m :
    /\ p = policy[r] /\ q = copies[r] /\ e = engine[r] /\ m = socket[r]
    /\ Packing(r, p, q) /\ Exchange(r, p, e, m)

IpcInv ==
  /\ \A r \in Ranks : policy[r].pc = "raised" \/ Working(r)
  /\ \A r \in Ranks : policy[r].pc = "raised" \/ \A n \in Params : SomeVersion(r, n)
  /\ outcome = "updated" => \A r \in Ranks : policy[r].pc = "returned"

\* What these depend on.
LEMMA PackingKept ==
  ASSUME setup' = setup, refit' = refit, NEW r, NEW p, NEW q,
         memory'[r] = memory[r], Packing(r, p, q)
  PROVE  Packing(r, p, q)'
<1>1. /\ Params' = Params /\ N' = N /\ BufferSize' = BufferSize
      /\ \A names, i : Offset(names, i)' = Offset(names, i)
      /\ \A n : Size(n)' = Size(n)
  BY SameSetup, SameOffsets
<1>2. \A b, names, i : Landed(r, b, names, i)' = Landed(r, b, names, i)
  BY <1>1 DEF Landed
<1>3. \A names, first : Piece(names, first)' = Piece(names, first)
  BY <1>1 DEF Piece
<1> QED BY <1>1, <1>2, <1>3 DEF Packing

\* A worker with nothing packed does not care for its buffers.
LEMMA PackingNothing ==
  ASSUME setup' = setup, NEW r, NEW p, NEW q,
         p.names = <<>>, Packing(r, p, q)
  PROVE  Packing(r, p, q)'
<1>1. /\ Params' = Params /\ N' = N /\ BufferSize' = BufferSize
      /\ \A names, i : Offset(names, i)' = Offset(names, i)
  BY SameSetup, SameOffsets
<1>2. \A names, first : Piece(names, first)' = Piece(names, first)
  BY <1>1 DEF Piece
<1>3. Len(p.names) = 0 /\ Len(q) = 0
  BY DEF Packing
<1>4. \A i \in 1..(Len(p.names) - Len(q)) : Landed(r, p.buffer, p.names, i)'
  BY <1>3
<1> QED BY <1>1, <1>2, <1>4 DEF Packing

\* What is said between worker and engine rank depends on its locals, the
\* message, the buffer that was handed over, and the weights loaded.
LEMMA ExchangeKept ==
  ASSUME setup' = setup, refit' = refit, NEW r, NEW p, NEW e, NEW m,
         \A b \in {1, 2} : b # p.buffer => memory'[r][b] = memory[r][b],
         weights'[r] = weights[r], Exchange(r, p, e, m)
  PROVE  Exchange(r, p, e, m)'
<1>1. /\ Params' = Params /\ N' = N
      /\ \A names, i : Offset(names, i)' = Offset(names, i)
      /\ \A n : Size(n)' = Size(n)
  BY SameSetup, SameOffsets
<1>2. \A names, i : \A b \in {1, 2} :
        b # p.buffer => Landed(r, b, names, i)' = Landed(r, b, names, i)
  BY <1>1 DEF Landed
<1>3. \A names, first : Piece(names, first)' = Piece(names, first)
  BY <1>1 DEF Piece
<1>4. \A k : LoadedBefore(r, k)' = LoadedBefore(r, k)
  BY <1>1 DEF LoadedBefore
<1>5. CASE AtRest(r, p, e, m)
  BY <1>4, <1>5 DEF AtRest, Exchange, Sent
<1>6. CASE Acknowledged(r, p, e, m)
  BY <1>4, <1>6 DEF Acknowledged, Exchange, Sent
<1>7. CASE Completing(r, p, e, m)
  BY <1>4, <1>7 DEF Completing, Exchange, Sent
<1>8. ASSUME NEW b \in {1, 2}, NEW names \in Seq(Params), NEW used \in Nat,
             Handing(r, p, e, m, b, names, used)
      PROVE  Exchange(r, p, e, m)'
  <2>1. \A i : Landed(r, b, names, i)' = Landed(r, b, names, i)
    BY <1>2, <1>8 DEF Handing
  <2>2. Handing(r, p, e, m, b, names, used)'
    BY <1>3, <1>4, <1>8, <2>1 DEF Handing, Sent
  <2> QED BY <1>1, <2>2 DEF Exchange
<1> QED BY <1>5, <1>6, <1>7, <1>8 DEF Exchange

\* A rank nobody touches keeps its part of the invariant.
LEMMA WorkingKept ==
  ASSUME setup' = setup, refit' = refit, NEW r, Working(r),
         policy'[r] = policy[r], engine'[r] = engine[r], copies'[r] = copies[r],
         socket'[r] = socket[r], memory'[r] = memory[r], weights'[r] = weights[r]
  PROVE  Working(r)'
<1>1. PICK p, q, e, m :
        /\ p = policy[r] /\ q = copies[r] /\ e = engine[r] /\ m = socket[r]
        /\ Packing(r, p, q) /\ Exchange(r, p, e, m)
  BY DEF Working
<1>2. Packing(r, p, q)' /\ Exchange(r, p, e, m)'
  BY <1>1, PackingKept, ExchangeKept
<1> QED BY <1>1, <1>2 DEF Working

\* A step of one worker or of its engine rank.
LEMMA RankStep ==
  ASSUME TypeInv, IpcInv, setup' = setup, refit' = refit, outcome' = outcome,
         outcome = "running", NEW s \in Ranks,
         \A r \in Ranks : r # s =>
           /\ policy'[r] = policy[r] /\ engine'[r] = engine[r] /\ copies'[r] = copies[r]
           /\ socket'[r] = socket[r] /\ memory'[r] = memory[r] /\ weights'[r] = weights[r],
         policy[s].pc = "raised" => policy'[s].pc = "raised",
         Working(s) /\ (\A n \in Params : SomeVersion(s, n)) =>
           policy'[s].pc = "raised" \/ (Working(s)' /\ \A n \in Params : SomeVersion(s, n)')
  PROVE  IpcInv'
<1>1. Ranks' = Ranks /\ Params' = Params
  BY SameSetup
<1>2. \A r \in Ranks : policy'[r].pc = "raised"
                       \/ (Working(r)' /\ \A n \in Params : SomeVersion(r, n)')
  <2> TAKE r \in Ranks
  <2>1. CASE r = s
    BY <2>1 DEF IpcInv
  <2>2. CASE r # s
    <3>1. Working(r) => Working(r)'
      BY <2>2, WorkingKept
    <3>2. (\A n \in Params : SomeVersion(r, n)) => \A n \in Params : SomeVersion(r, n)'
      BY <2>2, StillSomeVersion DEF TypeInv
    <3> QED BY <2>2, <3>1, <3>2 DEF IpcInv
  <2> QED BY <2>1, <2>2
<1> QED BY <1>1, <1>2 DEF IpcInv

\* The domains of what a step changes.
LEMMA Domains ==
  ASSUME TypeInv
  PROVE  /\ DOMAIN policy = Ranks /\ DOMAIN engine = Ranks /\ DOMAIN weights = Ranks
         /\ DOMAIN memory = Ranks /\ DOMAIN copies = Ranks /\ DOMAIN socket = Ranks
         /\ \A r \in Ranks : /\ DOMAIN policy[r] = Fields /\ DOMAIN engine[r] = Fields
                             /\ DOMAIN weights[r] = Params
                             /\ DOMAIN memory[r] = {1, 2}
                             /\ \A b \in {1, 2} : DOMAIN memory[r][b] = 0..Aligned(BufferSize) - 1
         /\ setup \in Setups /\ refit \in Nat /\ N \in Nat /\ BufferSize \in Nat
<1>1. 1..2 = {1, 2}
  OBVIOUS
<1>2. BufferSize \in Nat
  <2>1. setup.limit \in Nat
    BY TheSetup DEF TypeInv
  <2> QED BY <2>1, Division DEF BufferSize
<1> QED BY <1>1, <1>2, TheSetup DEF TypeInv, LocalTypes, WeightTypes, MemoryTypes

\* A tensor packed goes behind those of the group, where none of them is.
LEMMA PackIpc ==
  ASSUME TypeInv, IpcInv, NEW s \in Ranks, Pack(s)
  PROVE  IpcInv'
<1>0. /\ setup' = setup /\ refit' = refit /\ outcome' = outcome /\ outcome = "running"
      /\ UNCHANGED <<engine, weights, memory, socket>>
  BY DEF Pack, Running
<1>1. PICK p, q, e, m, t, u :
        /\ p = policy[s] /\ q = copies[s] /\ e = engine[s] /\ m = socket[s]
        /\ t = [p EXCEPT !.names = Append(@, p.next), !.next = @ + 1,
                         !.used = @ + Aligned(Size(p.next))]
        /\ u = Append(q, <<p.buffer, p.used, p.next>>)
  OBVIOUS
<1>2. /\ policy' = [policy EXCEPT ![s] = t] /\ copies' = [copies EXCEPT ![s] = u]
      /\ p.pc = "loop" /\ p.next \in Params /\ ~ Overflows(p)
  BY <1>1 DEF Pack, SetPolicy
<1>3. /\ policy'[s] = t /\ copies'[s] = u
      /\ \A r \in Ranks : r # s => policy'[r] = policy[r] /\ copies'[r] = copies[r]
  BY <1>2, Domains
<1>4. ASSUME Packing(s, p, q), Exchange(s, p, e, m)
      PROVE  Packing(s, t, u) /\ Exchange(s, t, e, m)
  <2>1. PICK l, c : l = Len(p.names) /\ c = Len(q)
    OBVIOUS
  <2>2. /\ DOMAIN p = Fields /\ p.next \in 1..(N + 1) /\ p.buffer \in {1, 2}
        /\ l < p.next /\ p.names \in Seq(Params)
        /\ \A i \in 1..l : p.names[i] = p.next - l + i - 1
        /\ p.used = Offset(p.names, l + 1) /\ p.used <= BufferSize
        /\ q \in Seq({1, 2} \X Nat \X Params) /\ c <= l
        /\ \A j \in 1..c :
             q[j] = <<p.buffer, Offset(p.names, l - c + j), p.names[l - c + j]>>
        /\ \A i \in 1..(l - c) : Landed(s, p.buffer, p.names, i)
    BY <1>4, <2>1 DEF Packing, Piece
  <2>3. PICK names : names = Append(p.names, p.next)
    OBVIOUS
  <2>4. /\ names \in Seq(Params) /\ Len(names) = l + 1 /\ l \in Nat /\ c \in Nat
        /\ names[l + 1] = p.next /\ \A i \in 1..l : names[i] = p.names[i]
    BY <1>2, <2>1, <2>2, <2>3
  <2>5. /\ t.names = names /\ t.next = p.next + 1 /\ t.used = p.used + Aligned(Size(p.next))
        /\ t.pc = "loop" /\ t.buffer = p.buffer /\ t.awaiting = p.awaiting /\ DOMAIN t = Fields
        /\ t.result = p.result
    BY <1>1, <1>2, <2>2, <2>3 DEF Fields
  <2>6. \A i \in 1..(l + 1) : Offset(names, i) = Offset(p.names, i)
    BY <1>2, <2>1, <2>2, <2>3, OffsetOfAppend, Domains
  <2>7. Offset(names, (l + 1) + 1) = p.used + Aligned(Size(p.next))
    <3>1. l + 1 \in 1..Len(names) /\ l + 1 \in 1..(l + 1)
      BY <2>4
    <3>2. Offset(names, (l + 1) + 1) = Offset(names, l + 1) + Aligned(Size(names[l + 1]))
      BY <2>4, <3>1, Offsets, Domains
    <3> QED BY <2>2, <2>4, <2>6, <3>1, <3>2
  <2>8. t.used <= BufferSize
    <3>1. PICK x, y : x = p.used /\ y = Aligned(Size(p.next))
      OBVIOUS
    <3>2. x \in Nat /\ y \in Nat
      <4>1. l + 1 \in 1..(Len(p.names) + 1)
        BY <2>1, <2>4
      <4> QED BY <1>2, <2>2, <3>1, <4>1, Offsets, SizeOfParam, Domains
    <3>3. ~ (x + y > BufferSize) /\ t.used = x + y
      BY <1>2, <2>5, <3>1 DEF Overflows
    <3> QED BY <3>2, <3>3, Domains
  <2>9. Piece(names, t.next - Len(t.names))
    <3>1. p.next \in Nat
      BY <2>2, Domains
    <3>2. \A i \in 1..(l + 1) : names[i] = p.next - l + i - 1
      <4> TAKE i \in 1..(l + 1)
      <4>1. CASE i \in 1..l
        BY <2>2, <2>4, <4>1
      <4>2. CASE i = l + 1
        BY <2>4, <3>1, <4>2
      <4> QED BY <2>4, <4>1, <4>2
    <3>3. t.next - Len(t.names) = p.next - l
      BY <2>4, <2>5, <3>1
    <3> QED BY <2>4, <3>2, <3>3 DEF Piece
  <2>10. /\ u \in Seq({1, 2} \X Nat \X Params) /\ Len(u) = c + 1
         /\ u[c + 1] = <<p.buffer, p.used, p.next>> /\ \A j \in 1..c : u[j] = q[j]
    <3>1. p.used \in Nat
      <4>1. l + 1 \in 1..(Len(p.names) + 1)
        BY <2>1, <2>4
      <4> QED BY <2>2, <4>1, Offsets, Domains
    <3>2. <<p.buffer, p.used, p.next>> \in {1, 2} \X Nat \X Params
      BY <1>2, <2>2, <3>1
    <3>3. PICK S, x : S = {1, 2} \X Nat \X Params /\ x = <<p.buffer, p.used, p.next>>
      OBVIOUS
    <3>4. q \in Seq(S) /\ x \in S /\ u = Append(q, x)
      BY <1>1, <2>2, <3>2, <3>3
    <3>5. u \in Seq(S) /\ Len(u) = c + 1 /\ u[c + 1] = x /\ \A j \in 1..c : u[j] = q[j]
      BY ONLY <2>1, <3>4
    <3> QED BY <3>3, <3>5
  <2>11. \A j \in 1..(c + 1) :
           u[j] = <<t.buffer, Offset(names, (l + 1) - (c + 1) + j), names[(l + 1) - (c + 1) + j]>>
    <3> TAKE j \in 1..(c + 1)
    <3>1. CASE j \in 1..c
      <4>1. l - c + j \in 1..l /\ l - c + j \in 1..(l + 1) /\ (l + 1) - (c + 1) + j = l - c + j
        <5>1. l \in Nat /\ c \in Nat /\ c <= l
          BY <2>2, <2>4
        <5> QED BY ONLY <5>1, <3>1
      <4>2. PICK i : i = l - c + j
        OBVIOUS
      <4>3. i \in 1..l /\ i \in 1..(l + 1) /\ (l + 1) - (c + 1) + j = i
        BY <4>1, <4>2
      <4>4. u[j] = q[j] /\ q[j] = <<p.buffer, Offset(p.names, i), p.names[i]>>
        BY <2>2, <2>10, <3>1, <4>2
      <4>5. /\ Offset(names, i) = Offset(p.names, i) /\ names[i] = p.names[i]
            /\ t.buffer = p.buffer
        BY <2>4, <2>5, <2>6, <4>3
      <4> QED BY ONLY <4>3, <4>4, <4>5
    <3>2. CASE j = c + 1
      <4>1. (l + 1) - (c + 1) + j = l + 1 /\ l + 1 \in 1..(l + 1)
        BY <2>4, <3>2
      <4> QED BY <2>2, <2>4, <2>5, <2>6, <2>10, <3>2, <4>1
    <3> QED BY <2>4, <3>1, <3>2
  <2>12. \A i \in 1..((l + 1) - (c + 1)) : Landed(s, t.buffer, names, i)
    <3> TAKE i \in 1..((l + 1) - (c + 1))
    <3>1. i \in 1..(l - c) /\ i \in 1..l /\ i \in 1..(l + 1)
      BY <2>4
    <3>2. Landed(s, p.buffer, p.names, i)
      BY <2>2, <3>1
    <3>3. Offset(names, i) = Offset(p.names, i) /\ names[i] = p.names[i] /\ t.buffer = p.buffer
      BY <2>4, <2>5, <2>6, <3>1
    <3> QED BY <3>2, <3>3 DEF Landed
  <2>13. t.next \in 1..(N + 1) /\ l + 1 < t.next
    <3>1. p.next \in 1..N /\ N \in Nat /\ l < p.next
      BY <1>2, <2>2, Domains DEF Params, N
    <3>2. PICK x : x = p.next
      OBVIOUS
    <3>3. x \in 1..N /\ N \in Nat /\ l < x /\ l \in Nat /\ t.next = x + 1
      BY <2>4, <2>5, <3>1, <3>2
    <3> QED BY ONLY <3>3
  <2>14. Packing(s, t, u)
    <3>1. Len(t.names) = l + 1 /\ Len(u) = c + 1 /\ t.names = names
      BY <2>4, <2>5, <2>10
    <3>2. /\ DOMAIN t = Fields /\ t.next \in 1..(N + 1) /\ t.buffer \in {1, 2}
          /\ Len(t.names) < t.next /\ Piece(t.names, t.next - Len(t.names))
          /\ t.used = Offset(t.names, Len(t.names) + 1) /\ t.used <= BufferSize
          /\ u \in Seq({1, 2} \X Nat \X Params)
          /\ t.pc = "loop"
      BY <2>2, <2>5, <2>7, <2>8, <2>9, <2>10, <2>13, <3>1
    <3>3. Len(u) <= Len(t.names)
      <4>1. l \in Nat /\ c \in Nat /\ c <= l
        BY <2>2, <2>4
      <4> QED BY ONLY <3>1, <4>1
    <3>4. \A j \in 1..Len(u) :
            u[j] = <<t.buffer, Offset(t.names, Len(t.names) - Len(u) + j),
                     t.names[Len(t.names) - Len(u) + j]>>
      BY <2>11, <3>1
    <3>5. \A i \in 1..(Len(t.names) - Len(u)) : Landed(s, t.buffer, t.names, i)
      BY <2>12, <3>1
    <3> QED BY <3>2, <3>3, <3>4, <3>5 DEF Packing
  <2>15. Sent(t) = Sent(p)
    <3>1. p.next \in Nat /\ l \in Nat /\ t.next = p.next + 1 /\ Len(t.names) = l + 1
          /\ Len(p.names) = l
      BY <2>1, <2>2, <2>4, <2>5, Domains
    <3> QED BY ONLY <3>1 DEF Sent
  <2>16. Exchange(s, t, e, m)
    BY <1>2, <1>4, <2>5, <2>15 DEF Exchange, AtRest, Acknowledged, Completing, Handing
  <2> QED BY <2>14, <2>16
<1>5. Working(s) => Working(s)'
  <2> SUFFICES ASSUME Working(s) PROVE Working(s)'
    OBVIOUS
  <2>1. Packing(s, p, q) /\ Exchange(s, p, e, m)
    BY <1>1 DEF Working
  <2>2. Packing(s, t, u)' /\ Exchange(s, t, e, m)'
    BY <1>0, <1>4, <2>1, PackingKept, ExchangeKept
  <2> QED BY <1>0, <1>1, <1>3, <2>2 DEF Working
<1>6. (\A n \in Params : SomeVersion(s, n)) => \A n \in Params : SomeVersion(s, n)'
  BY <1>0, StillSomeVersion, Domains
<1>7. \A r \in Ranks : r # s =>
           /\ policy'[r] = policy[r] /\ engine'[r] = engine[r] /\ copies'[r] = copies[r]
           /\ socket'[r] = socket[r] /\ memory'[r] = memory[r] /\ weights'[r] = weights[r]
  BY <1>0, <1>3
<1>8. policy[s].pc # "raised"
  BY <1>1, <1>2
<1> QED BY <1>0, <1>5, <1>6, <1>7, <1>8, RankStep

\* A buffer in which the tensor of a copy has landed.
WithCopy(buffer, c) ==
  [i \in DOMAIN buffer |-> IF i \in c[2]..c[2] + Size(c[3]) - 1
                           THEN <<refit, c[3]>> ELSE buffer[i]]

\* A copy that lands does not touch what has landed before.
LEMMA CopyLandsPacking ==
  ASSUME TypeInv, setup' = setup, refit' = refit, NEW s \in Ranks, NEW p, NEW q, Packing(s, p, q),
         q # <<>>, NEW c, c = Head(q), NEW t, t = Tail(q),
         memory'[s][c[1]] = WithCopy(memory[s][c[1]], c)
  PROVE  Packing(s, p, t)' /\ c[1] = p.buffer
<1>1. PICK l, k : l = Len(p.names) /\ k = Len(q)
  OBVIOUS
<1>2. PICK Copy : Copy = {1, 2} \X Nat \X Params
  OBVIOUS
<1>3. /\ DOMAIN p = Fields /\ p.next \in 1..(N + 1) /\ p.buffer \in {1, 2}
      /\ l < p.next /\ p.names \in Seq(Params) /\ Piece(p.names, p.next - l)
      /\ p.used = Offset(p.names, l + 1) /\ p.used <= BufferSize
      /\ q \in Seq(Copy) /\ k <= l
      /\ \A j \in 1..k : q[j] = <<p.buffer, Offset(p.names, l - k + j), p.names[l - k + j]>>
      /\ \A i \in 1..(l - k) : Landed(s, p.buffer, p.names, i)
      /\ p.pc # "loop" => p.next = N + 1 /\ p.names = <<>>
  BY <1>1, <1>2 DEF Packing, Piece
<1>4. k \in Nat /\ k > 0 /\ l \in Nat /\ c = q[1]
  <2>1. k \in Nat /\ k # 0 /\ l \in Nat
    BY <1>1, <1>3, EmptySeq
  <2> QED BY <1>1, <1>3, <2>1
<1>5. PICK d : d = l - k + 1
  OBVIOUS
<1>6. t \in Seq(Copy) /\ Len(t) = k - 1 /\ \A j \in 1..(k - 1) : t[j] = q[j + 1]
  BY <1>1, <1>3, <1>4, <1>5
<1>7. d \in 1..l /\ d \in Nat
  BY ONLY <1>3, <1>4, <1>5
<1>8. c = <<p.buffer, Offset(p.names, d), p.names[d]>>
  <2>1. 1 \in 1..k
    BY <1>4
  <2> QED BY <1>3, <1>4, <1>5, <2>1
<1>9. PICK b, o, n : b = p.buffer /\ o = Offset(p.names, d) /\ n = p.names[d]
  OBVIOUS
<1>10. c[1] = b /\ c[2] = o /\ c[3] = n /\ n \in Params
  BY <1>3, <1>7, <1>8, <1>9, <1>1
<1>11. /\ \A i \in 1..(l + 1) : Offset(p.names, i) \in Nat
       /\ \A i, j \in 1..(l + 1) :
              i < j => Offset(p.names, i) + Aligned(Size(p.names[i])) <= Offset(p.names, j)
  BY <1>1, <1>3, Offsets, Domains
<1>12. \A i \in 1..l : /\ p.names[i] \in Params
                       /\ Size(p.names[i]) \in Nat \ {0} /\ Aligned(Size(p.names[i])) \in Nat
                       /\ Size(p.names[i]) <= Aligned(Size(p.names[i]))
  <2> TAKE i \in 1..l
  <2>1. p.names[i] \in Params
    BY <1>1, <1>3, ElementOfSeq
  <2>2. setup \in Setups
    BY Domains
  <2> QED BY <2>1, <2>2, SizeOfParam
<1>13. /\ Params' = Params /\ N' = N /\ BufferSize' = BufferSize
       /\ \A names, i : Offset(names, i)' = Offset(names, i)
       /\ \A x : Size(x)' = Size(x)
  BY SameSetup, SameOffsets
<1>14. \A x \in o..(o + Size(n) - 1) : x \in DOMAIN memory[s][b]
  <2>1. DOMAIN memory[s][b] = 0..Aligned(BufferSize) - 1
    BY <1>3, <1>9, Domains
  <2>2. BufferSize \in Nat /\ Aligned(BufferSize) \in Nat /\ BufferSize <= Aligned(BufferSize)
    BY Domains, AlignedAtLeast
  <2>3. o \in Nat /\ Size(n) \in Nat /\ Aligned(Size(n)) \in Nat /\ Size(n) <= Aligned(Size(n))
    <3>1. d \in 1..(l + 1)
      BY <1>4, <1>7
    <3>2. o \in Nat
      BY <1>9, <1>11, <3>1
    <3> QED BY <1>7, <1>9, <1>12, <3>2
  <2>4. o + Aligned(Size(n)) <= p.used
    <3>1. d \in 1..(l + 1) /\ l + 1 \in 1..(l + 1) /\ d < l + 1
      BY <1>4, <1>7
    <3> QED BY <1>3, <1>9, <1>11, <3>1
  <2>5. p.used \in Nat
    <3>1. l + 1 \in 1..(l + 1)
      BY <1>4
    <3> QED BY <1>3, <1>11, <3>1
  <2>6. PICK a, z, y : a = Aligned(BufferSize) /\ z = Size(n) /\ y = Aligned(Size(n))
    OBVIOUS
  <2>7. o + z - 1 <= a - 1
    <3> PICK v, u : v = p.used /\ u = BufferSize
      OBVIOUS
    <3>1. v <= u
      BY <1>3
    <3>2. u \in Nat /\ a \in Nat /\ u <= a
      BY <2>2, <2>6
    <3>3. o \in Nat /\ z \in Nat /\ y \in Nat /\ z <= y
      BY <2>3, <2>6
    <3>4. o + y <= v /\ v \in Nat
      BY <2>4, <2>5, <2>6
    <3> QED BY ONLY <3>1, <3>2, <3>3, <3>4
  <2> QED BY <2>1, <2>2, <2>3, <2>6, <2>7
<1>15. /\ \A x \in o..(o + Size(n) - 1) : memory'[s][b][x] = <<refit, n>>
       /\ \A x \in DOMAIN memory[s][b] :
            x \notin o..(o + Size(n) - 1) => memory'[s][b][x] = memory[s][b][x]
  <2>1. memory'[s][b] = [i \in DOMAIN memory[s][b] |->
                               IF i \in o..(o + Size(n) - 1)
                               THEN <<refit, n>> ELSE memory[s][b][i]]
    BY <1>10 DEF WithCopy
  <2> DEFINE I == o..(o + Size(n) - 1)
             old == memory[s][b]
             new == memory'[s][b]
  <2>2. new = [i \in DOMAIN old |-> IF i \in I THEN <<refit, n>> ELSE old[i]]
    BY ONLY <2>1
  <2>3. \A x \in I : x \in DOMAIN old
    BY ONLY <1>14
  <2> HIDE DEF I, old, new
  <2>4. /\ \A x \in I : new[x] = <<refit, n>>
        /\ \A x \in DOMAIN old : x \notin I => new[x] = old[x]
    BY ONLY <2>2, <2>3
  <2> QED BY ONLY <2>4 DEF I, old, new
<1>16. \A i \in 1..(l - (k - 1)) : Landed(s, b, p.names, i)'
  <2> TAKE i \in 1..(l - (k - 1))
  <2>0. k \in Nat /\ l \in Nat /\ d \in Nat /\ k <= l /\ d = l - k + 1 /\ d <= l
    BY <1>3, <1>4, <1>5, <1>7
  <2>1. i \in 1..d /\ i \in 1..l /\ i \in 1..(l + 1) /\ i \in Nat
    BY ONLY <2>0, i \in 1..(l - (k - 1))
  <2>2. CASE i = d
    <3>1. \A x \in o..(o + Size(n) - 1) : memory'[s][b][x] = <<refit', n>>
      BY <1>15
    <3> QED BY <1>9, <1>13, <2>2, <3>1 DEF Landed
  <2>3. CASE i # d
    <3>1. i \in 1..(l - k) /\ i < d
      BY ONLY <2>0, <2>1, <2>3
    <3>2. Landed(s, b, p.names, i)
      BY <1>3, <1>9, <3>1
    <3>3. PICK x, y, z : /\ x = Offset(p.names, i) /\ y = Size(p.names[i])
                         /\ z = Aligned(Size(p.names[i]))
      OBVIOUS
    <3>4. x \in Nat /\ y \in Nat /\ z \in Nat /\ y <= z /\ x + z <= o /\ o \in Nat
      <4>1. d \in 1..(l + 1)
        BY <1>4, <1>7
      <4> QED BY <1>9, <1>11, <1>12, <2>1, <3>1, <3>3, <4>1
    <3>5. \A a \in x..(x + y - 1) : a \notin o..(o + Size(n) - 1) /\ a \in Nat /\ a < o
      BY ONLY <3>4
    <3>6. \A a \in x..(x + y - 1) : a \in DOMAIN memory[s][b]
      <4>1. Size(n) \in Nat \ {0}
        BY <1>7, <1>9, <1>12
      <4>2. o \in DOMAIN memory[s][b]
        <5>1. o \in o..(o + Size(n) - 1)
          BY <3>4, <4>1
        <5> QED BY <1>14, <5>1
      <4>3. DOMAIN memory[s][b] = 0..Aligned(BufferSize) - 1
        BY <1>3, <1>9, Domains
      <4>4. Aligned(BufferSize) \in Nat
        BY Domains, AlignedAtLeast
      <4> QED BY <3>4, <3>5, <4>2, <4>3, <4>4
    <3>7. \A a \in x..(x + y - 1) : memory'[s][b][a] = <<refit, p.names[i]>>
      BY <1>15, <3>2, <3>3, <3>5, <3>6 DEF Landed
    <3> QED BY <1>13, <3>3, <3>7 DEF Landed
  <2> QED BY <2>2, <2>3
<1>17. \A names, first : Piece(names, first)' = Piece(names, first)
  BY <1>13 DEF Piece
<1>18. \A j \in 1..(k - 1) :
         t[j] = <<p.buffer, Offset(p.names, l - (k - 1) + j), p.names[l - (k - 1) + j]>>
  <2> TAKE j \in 1..(k - 1)
  <2>1. j + 1 \in 1..k /\ l - (k - 1) + j = l - k + (j + 1)
    BY ONLY <1>4, j \in 1..(k - 1)
  <2> QED BY <1>3, <1>6, <2>1
<1>19. Packing(s, p, t)'
  <2>1. /\ DOMAIN p = Fields /\ p.next \in 1..(N' + 1) /\ p.buffer \in {1, 2}
        /\ Len(p.names) < p.next /\ Piece(p.names, p.next - Len(p.names))'
        /\ p.used = Offset(p.names, Len(p.names) + 1)' /\ p.used <= BufferSize'
        /\ p.pc # "loop" => p.next = N' + 1 /\ p.names = <<>>
    BY <1>1, <1>3, <1>13, <1>17
  <2>2. t \in Seq({1, 2} \X Nat \X Params') /\ Len(t) = k - 1 /\ Len(t) <= Len(p.names)
    <3>1. k - 1 <= l
      BY ONLY <1>3, <1>4
    <3> QED BY <1>1, <1>2, <1>6, <1>13, <3>1
  <2>3. \A j \in 1..Len(t) :
          t[j] = <<p.buffer, Offset(p.names, Len(p.names) - Len(t) + j)',
                   p.names[Len(p.names) - Len(t) + j]>>
    BY <1>1, <1>13, <1>18, <2>2
  <2>4. \A i \in 1..(Len(p.names) - Len(t)) : Landed(s, p.buffer, p.names, i)'
    BY <1>1, <1>9, <1>16, <2>2
  <2> QED BY <2>1, <2>2, <2>3, <2>4 DEF Packing
<1> QED BY <1>5, <1>9, <1>10, <1>19

\* A copy that lands fills the place of its tensor.
LEMMA CopyLandsIpc ==
  ASSUME TypeInv, IpcInv, NEW s \in Ranks, CopyLands(s)
  PROVE  IpcInv'
<1>0. /\ setup' = setup /\ refit' = refit /\ outcome' = outcome /\ outcome = "running"
      /\ UNCHANGED <<policy, engine, weights, socket>>
  BY DEF CopyLands, Running
<1>1. PICK p, q, e, m, c, t :
        /\ p = policy[s] /\ q = copies[s] /\ e = engine[s] /\ m = socket[s]
        /\ c = Head(q) /\ t = Tail(q)
  OBVIOUS
<1>2. PICK W : W = WithCopy(memory[s][c[1]], c)
  OBVIOUS
<1>3. /\ copies' = [copies EXCEPT ![s] = t] /\ memory' = [memory EXCEPT ![s][c[1]] = W]
      /\ q # <<>>
  BY <1>1, <1>2 DEF CopyLands, WithCopy
<1>4. /\ copies'[s] = t
      /\ c[1] \in {1, 2} => memory'[s][c[1]] = W
      /\ \A b \in {1, 2} : b # c[1] => memory'[s][b] = memory[s][b]
      /\ \A r \in Ranks : r # s => memory'[r] = memory[r] /\ copies'[r] = copies[r]
  BY <1>3, Domains
<1>5. Working(s) => Working(s)'
  <2> SUFFICES ASSUME Working(s) PROVE Working(s)'
    OBVIOUS
  <2>1. Packing(s, p, q) /\ Exchange(s, p, e, m)
    BY <1>1 DEF Working
  <2>2. c[1] = p.buffer /\ p.buffer \in {1, 2}
    <3>1. q[1] = c /\ 1 \in 1..Len(q) /\ 1 - 1 = 0
      <4>1. q \in Seq({1, 2} \X Nat \X Params)
        BY <2>1 DEF Packing
      <4>2. PICK S : q \in Seq(S)
        BY <4>1
      <4>3. Len(q) \in Nat /\ Len(q) # 0
        BY <1>3, <4>2, EmptySeq
      <4> QED BY <1>1, <4>2, <4>3
    <3>2. \E a, b, d : c = <<a, b, d>> /\ a = p.buffer
      BY <2>1, <3>1 DEF Packing
    <3> QED BY <2>1, <3>2 DEF Packing
  <2>3. Packing(s, p, t)'
    <3>1. memory'[s][c[1]] = WithCopy(memory[s][c[1]], c)
      BY <1>2, <1>4, <2>2
    <3>2. setup' = setup /\ refit' = refit /\ q # <<>> /\ c = Head(q) /\ t = Tail(q)
      BY <1>0, <1>1, <1>3
    <3>3. Packing(s, p, q)
      BY <2>1
    <3> QED BY ONLY TypeInv, s \in Ranks, <3>1, <3>2, <3>3, CopyLandsPacking
  <2>4. Exchange(s, p, e, m)'
    BY <1>0, <1>4, <2>1, <2>2, ExchangeKept
  <2> QED BY <1>0, <1>1, <1>4, <2>3, <2>4 DEF Working
<1>6. (\A n \in Params : SomeVersion(s, n)) => \A n \in Params : SomeVersion(s, n)'
  BY <1>0, StillSomeVersion, Domains
<1>7. \A r \in Ranks : r # s =>
           /\ policy'[r] = policy[r] /\ engine'[r] = engine[r] /\ copies'[r] = copies[r]
           /\ socket'[r] = socket[r] /\ memory'[r] = memory[r] /\ weights'[r] = weights[r]
  BY <1>0, <1>4
<1> QED BY <1>0, <1>5, <1>6, <1>7, RankStep

\* A worker that raises is no longer spoken of.
LEMMA RaisesIpc ==
  ASSUME TypeInv, IpcInv, NEW s \in Ranks, TooLarge(s) \/ AnswerTimesOut(s)
  PROVE  IpcInv'
<1>0. /\ setup' = setup /\ refit' = refit /\ outcome' = outcome /\ outcome = "running"
      /\ UNCHANGED <<engine, weights, socket>>
      /\ policy' = [policy EXCEPT ![s] = [policy[s] EXCEPT !.pc = "raised"]]
      /\ memory' = [memory EXCEPT ![s] = Freed]
      /\ copies' = copies \/ copies' = [copies EXCEPT ![s] = <<>>]
  BY DEF TooLarge, AnswerTimesOut, Running, SetPolicy
<1>1. policy'[s].pc = "raised"
  BY <1>0, Domains DEF Fields
<1>2. \A r \in Ranks : r # s =>
           /\ policy'[r] = policy[r] /\ engine'[r] = engine[r] /\ copies'[r] = copies[r]
           /\ socket'[r] = socket[r] /\ memory'[r] = memory[r] /\ weights'[r] = weights[r]
  BY <1>0, Domains
<1> QED BY <1>0, <1>1, <1>2, RankStep

\* The messages differ.
LEMMA Messages ==
  /\ Ack # Complete /\ Ack # Empty /\ Complete # Empty
  /\ \A b, n, u : <<"group", b, n, u>> \notin {Ack, Complete, Empty}
BY DEF Ack, Complete, Empty

\* A group is handed over when all its tensors have landed and the group
\* before is loaded; the worker goes on in the other buffer.
LEMMA SendIpc ==
  ASSUME TypeInv, IpcInv, NEW s \in Ranks, Send(s)
  PROVE  IpcInv'
<1>0. /\ setup' = setup /\ refit' = refit /\ outcome' = outcome /\ outcome = "running"
      /\ UNCHANGED <<engine, weights, memory, copies>>
  BY DEF Send, Running
<1>1. PICK p, q, e, m, t, g :
        /\ p = policy[s] /\ q = copies[s] /\ e = engine[s] /\ m = socket[s]
        /\ t = [p EXCEPT !.names = <<>>, !.used = 0, !.awaiting = TRUE,
                         !.buffer = OtherBuffer(@)]
        /\ g = <<"group", p.buffer, p.names, p.used>>
  OBVIOUS
<1>2. /\ policy' = [policy EXCEPT ![s] = t] /\ socket' = [socket EXCEPT ![s] = g]
      /\ p.pc = "loop" /\ q = <<>> /\ (p.awaiting => m = Ack)
  BY <1>1 DEF Send, SetPolicy, GroupIsFull, Answered
<1>3. /\ policy'[s] = t /\ socket'[s] = g
      /\ \A r \in Ranks : r # s => policy'[r] = policy[r] /\ socket'[r] = socket[r]
  BY <1>2, Domains
<1>4. ASSUME Packing(s, p, q), Exchange(s, p, e, m)
      PROVE  Packing(s, t, q) /\ Exchange(s, t, e, g)
  <2>1. PICK l : l = Len(p.names)
    OBVIOUS
  <2>2. /\ DOMAIN p = Fields /\ p.next \in 1..(N + 1) /\ p.buffer \in {1, 2}
        /\ l < p.next /\ p.names \in Seq(Params) /\ Piece(p.names, p.next - l) /\ l \in Nat
        /\ p.used = Offset(p.names, l + 1) /\ p.used <= BufferSize
        /\ q \in Seq({1, 2} \X Nat \X Params)
    BY <1>4, <2>1 DEF Packing, Piece
  <2>3. Len(q) = 0 /\ \A i \in 1..l : Landed(s, p.buffer, p.names, i)
    <3>1. Len(q) = 0 /\ l - 0 = l
      BY <1>2, <2>2
    <3> QED BY <1>4, <2>1, <3>1 DEF Packing
  <2>4. p.used \in Nat
    <3>1. l + 1 \in 1..(Len(p.names) + 1)
      BY <2>1, <2>2
    <3> QED BY <2>2, <3>1, Offsets, Domains
  <2>5. /\ t.names = <<>> /\ t.used = 0 /\ t.awaiting = TRUE /\ t.buffer = OtherBuffer(p.buffer)
        /\ t.pc = "loop" /\ t.next = p.next /\ DOMAIN t = Fields
    BY <1>1, <1>2, <2>2 DEF Fields
  <2>6. t.buffer \in {1, 2} /\ t.buffer # p.buffer
    BY <2>2, <2>5 DEF OtherBuffer
  <2>7. <<>> \in Seq(Params) /\ Len(<<>>) = 0 /\ Len(t.names) = 0
    BY <2>5
  <2>8. Packing(s, t, q)
    <3>1. Offset(<<>>, 1) = 0
      BY <2>7, Offsets, Domains
    <3>2. 0 < p.next /\ 0 <= BufferSize
      BY <2>2, Domains
    <3>3. Piece(t.names, t.next - Len(t.names))
      BY <2>5, <2>7 DEF Piece
    <3> QED BY <2>2, <2>3, <2>5, <2>6, <2>7, <3>1, <3>2, <3>3 DEF Packing
  <2>9. LoadedBefore(s, p.next - l) /\ e.pc # "load"
    BY <1>2, <1>4, <2>1, Messages DEF Exchange, AtRest, Acknowledged, Completing, Handing, Sent
  <2>10. Sent(t) = p.next
    BY <2>2, <2>5, <2>7, Domains DEF Sent
  <2>11. Handing(s, t, e, g, p.buffer, p.names, p.used)
    BY <1>1, <2>1, <2>2, <2>3, <2>5, <2>6, <2>9, <2>10 DEF Handing
  <2>12. Exchange(s, t, e, g)
    BY <2>2, <2>4, <2>11 DEF Exchange
  <2> QED BY <2>8, <2>12
<1>5. Working(s) => Working(s)'
  <2> SUFFICES ASSUME Working(s) PROVE Working(s)'
    OBVIOUS
  <2>1. Packing(s, p, q) /\ Exchange(s, p, e, m)
    BY <1>1 DEF Working
  <2>2. Packing(s, t, q)' /\ Exchange(s, t, e, g)'
    BY <1>0, <1>4, <2>1, PackingKept, ExchangeKept
  <2> QED BY <1>0, <1>1, <1>3, <2>2 DEF Working
<1>6. (\A n \in Params : SomeVersion(s, n)) => \A n \in Params : SomeVersion(s, n)'
  BY <1>0, StillSomeVersion, Domains
<1>7. \A r \in Ranks : r # s =>
           /\ policy'[r] = policy[r] /\ engine'[r] = engine[r] /\ copies'[r] = copies[r]
           /\ socket'[r] = socket[r] /\ memory'[r] = memory[r] /\ weights'[r] = weights[r]
  BY <1>0, <1>3
<1>8. policy[s].pc # "raised"
  BY <1>1, <1>2
<1> QED BY <1>0, <1>5, <1>6, <1>7, <1>8, RankStep

\* COMPLETE is sent when the last group is loaded.
LEMMA SendCompleteIpc ==
  ASSUME TypeInv, IpcInv, NEW s \in Ranks, SendComplete(s)
  PROVE  IpcInv'
<1>0. /\ setup' = setup /\ refit' = refit /\ outcome' = outcome /\ outcome = "running"
      /\ UNCHANGED <<engine, weights, memory, copies>>
  BY DEF SendComplete, Running
<1>1. PICK p, q, e, m, t :
        /\ p = policy[s] /\ q = copies[s] /\ e = engine[s] /\ m = socket[s]
        /\ t = [p EXCEPT !.pc = "closing", !.awaiting = TRUE]
  OBVIOUS
<1>2. /\ policy' = [policy EXCEPT ![s] = t] /\ socket' = [socket EXCEPT ![s] = Complete]
      /\ p.pc = "loop" /\ p.next \notin Params /\ p.names = <<>> /\ (p.awaiting => m = Ack)
  BY <1>1 DEF SendComplete, SetPolicy, Answered
<1>3. /\ policy'[s] = t /\ socket'[s] = Complete
      /\ \A r \in Ranks : r # s => policy'[r] = policy[r] /\ socket'[r] = socket[r]
  BY <1>2, Domains
<1>4. ASSUME Packing(s, p, q), Exchange(s, p, e, m)
      PROVE  Packing(s, t, q) /\ Exchange(s, t, e, Complete)
  <2>1. /\ DOMAIN p = Fields /\ p.next = N + 1
    BY <1>2, <1>4, Domains DEF Packing, Params, N
  <2>2. /\ t.names = p.names /\ t.used = p.used /\ t.awaiting = TRUE /\ t.buffer = p.buffer
        /\ t.pc = "closing" /\ t.next = p.next /\ DOMAIN t = Fields
    BY <1>1, <1>2, <2>1 DEF Fields
  <2>3. Packing(s, t, q)
    BY <1>2, <1>4, <2>1, <2>2 DEF Packing
  <2>4. LoadedBefore(s, Sent(p)) /\ e.pc # "load"
    BY <1>2, <1>4, Messages DEF Exchange, AtRest, Acknowledged, Completing, Handing
  <2>5. Sent(t) = Sent(p)
    BY <2>2 DEF Sent
  <2>6. Completing(s, t, e, Complete)
    BY <2>2, <2>4, <2>5 DEF Completing
  <2> QED BY <2>3, <2>6 DEF Exchange
<1>5. Working(s) => Working(s)'
  <2> SUFFICES ASSUME Working(s) PROVE Working(s)'
    OBVIOUS
  <2>1. Packing(s, p, q) /\ Exchange(s, p, e, m)
    BY <1>1 DEF Working
  <2>2. PICK g : g = Complete
    OBVIOUS
  <2>3. Packing(s, t, q)' /\ Exchange(s, t, e, g)'
    BY <1>0, <1>4, <2>1, <2>2, PackingKept, ExchangeKept
  <2> QED BY <1>0, <1>1, <1>3, <2>2, <2>3 DEF Working
<1>6. (\A n \in Params : SomeVersion(s, n)) => \A n \in Params : SomeVersion(s, n)'
  BY <1>0, StillSomeVersion, Domains
<1>7. \A r \in Ranks : r # s =>
           /\ policy'[r] = policy[r] /\ engine'[r] = engine[r] /\ copies'[r] = copies[r]
           /\ socket'[r] = socket[r] /\ memory'[r] = memory[r] /\ weights'[r] = weights[r]
  BY <1>0, <1>3
<1>8. policy[s].pc # "raised"
  BY <1>1, <1>2
<1> QED BY <1>0, <1>5, <1>6, <1>7, <1>8, RankStep

\* What is loaded stays, while the weights of the rank do not change.
LEMMA LoadedKept ==
  ASSUME setup' = setup, refit' = refit, NEW r, weights'[r] = weights[r], NEW k
  PROVE  LoadedBefore(r, k)' = LoadedBefore(r, k)
BY SameSetup DEF LoadedBefore

\* The buffers are freed when the engine rank has answered COMPLETE.
LEMMA CloseIpc ==
  ASSUME TypeInv, IpcInv, NEW s \in Ranks, Close(s)
  PROVE  IpcInv'
<1>0. /\ setup' = setup /\ refit' = refit /\ outcome' = outcome /\ outcome = "running"
      /\ UNCHANGED <<engine, weights, copies>>
  BY DEF Close, Running
<1>1. PICK p, q, e, m, t, g :
        /\ p = policy[s] /\ q = copies[s] /\ e = engine[s] /\ m = socket[s]
        /\ t = [p EXCEPT !.pc = "returned"] /\ g = Empty
  OBVIOUS
<1>2. /\ policy' = [policy EXCEPT ![s] = t] /\ socket' = [socket EXCEPT ![s] = g]
      /\ memory' = [memory EXCEPT ![s] = Freed]
      /\ p.pc = "closing" /\ (p.awaiting => m = Ack)
  BY <1>1 DEF Close, SetPolicy, Answered
<1>3. /\ policy'[s] = t /\ socket'[s] = g
      /\ \A r \in Ranks : r # s => /\ policy'[r] = policy[r] /\ socket'[r] = socket[r]
                                   /\ memory'[r] = memory[r]
  BY <1>2, Domains
<1>4. ASSUME Packing(s, p, q), Exchange(s, p, e, m)
      PROVE  Packing(s, t, q)' /\ Exchange(s, t, e, g)'
  <2>1. /\ DOMAIN p = Fields /\ p.next = N + 1 /\ p.names = <<>>
    BY <1>2, <1>4 DEF Packing
  <2>2. /\ t.names = p.names /\ t.used = p.used /\ t.buffer = p.buffer
        /\ t.pc = "returned" /\ t.next = p.next /\ DOMAIN t = Fields
    BY <1>1, <1>2, <2>1 DEF Fields
  <2>3. Packing(s, t, q)
    BY <1>2, <1>4, <2>1, <2>2 DEF Packing
  <2>4. Packing(s, t, q)'
    BY <1>0, <2>1, <2>2, <2>3, PackingNothing
  <2>5. LoadedBefore(s, Sent(p)) /\ e.pc # "load" /\ e.result = TRUE
    BY <1>2, <1>4, Messages DEF Exchange, AtRest, Acknowledged, Completing, Handing
  <2>6. PICK k : k = Sent(p)
    OBVIOUS
  <2>7. LoadedBefore(s, k)'
    BY <1>0, <2>5, <2>6, LoadedKept
  <2>8. Sent(t)' = k /\ g = Empty'
    BY <1>1, <2>2, <2>6 DEF Sent, Empty
  <2>9. AtRest(s, t, e, g)'
    BY <2>2, <2>5, <2>7, <2>8 DEF AtRest
  <2> QED BY <2>4, <2>9 DEF Exchange
<1>5. Working(s) => Working(s)'
  <2> SUFFICES ASSUME Working(s) PROVE Working(s)'
    OBVIOUS
  <2>1. Packing(s, p, q) /\ Exchange(s, p, e, m)
    BY <1>1 DEF Working
  <2>2. Packing(s, t, q)' /\ Exchange(s, t, e, g)'
    BY <1>4, <2>1
  <2> QED BY <1>0, <1>1, <1>3, <2>2 DEF Working
<1>6. (\A n \in Params : SomeVersion(s, n)) => \A n \in Params : SomeVersion(s, n)'
  BY <1>0, StillSomeVersion, Domains
<1>7. \A r \in Ranks : r # s =>
           /\ policy'[r] = policy[r] /\ engine'[r] = engine[r] /\ copies'[r] = copies[r]
           /\ socket'[r] = socket[r] /\ memory'[r] = memory[r] /\ weights'[r] = weights[r]
  BY <1>0, <1>3
<1>8. policy[s].pc # "raised"
  BY <1>1, <1>2
<1> QED BY <1>0, <1>5, <1>6, <1>7, <1>8, RankStep

\* The engine rank takes a message, answers it or gives up.
LEMMA EngineTalks ==
  ASSUME TypeInv, IpcInv, NEW s \in Ranks, Running,
         UNCHANGED <<policy, weights, memory, copies>>,
         NEW p, NEW q, NEW e, NEW m, p = policy[s], q = copies[s], e = engine[s], m = socket[s],
         NEW f, NEW g, engine' = [engine EXCEPT ![s] = f],
         (socket' = socket /\ g = m) \/ socket' = [socket EXCEPT ![s] = g],
         Packing(s, p, q) /\ Exchange(s, p, e, m) => Exchange(s, p, f, g)
  PROVE  IpcInv'
<1>0. setup' = setup /\ refit' = refit /\ outcome' = outcome /\ outcome = "running"
  BY DEF Running
<1>1. /\ engine'[s] = f /\ socket'[s] = g
      /\ \A r \in Ranks : r # s => engine'[r] = engine[r] /\ socket'[r] = socket[r]
  BY Domains
<1>2. Working(s) => Working(s)'
  <2> SUFFICES ASSUME Working(s) PROVE Working(s)'
    OBVIOUS
  <2>1. Packing(s, p, q) /\ Exchange(s, p, e, m)
    BY DEF Working
  <2>2. Packing(s, p, q)' /\ Exchange(s, p, f, g)'
    BY <1>0, <2>1, PackingKept, ExchangeKept
  <2> QED BY <1>0, <1>1, <2>2 DEF Working
<1>3. (\A n \in Params : SomeVersion(s, n)) => \A n \in Params : SomeVersion(s, n)'
  BY <1>0, StillSomeVersion, Domains
<1>4. \A r \in Ranks : r # s =>
           /\ policy'[r] = policy[r] /\ engine'[r] = engine[r] /\ copies'[r] = copies[r]
           /\ socket'[r] = socket[r] /\ memory'[r] = memory[r] /\ weights'[r] = weights[r]
  BY <1>1
<1>5. policy[s].pc = "raised" => policy'[s].pc = "raised"
  OBVIOUS
<1>6. outcome = "running"
  BY DEF Running
<1>8. Working(s) /\ (\A n \in Params : SomeVersion(s, n)) =>
        policy'[s].pc = "raised" \/ (Working(s)' /\ \A n \in Params : SomeVersion(s, n)')
  BY ONLY <1>2, <1>3
<1> QED BY ONLY TypeInv, IpcInv, s \in Ranks, <1>0, <1>4, <1>5, <1>6, <1>8, RankStep

\* The engine rank takes over a group that has landed.
LEMMA ReceiveIpc ==
  ASSUME TypeInv, IpcInv, NEW s \in Ranks, Receive(s)
  PROVE  IpcInv'
<1>1. PICK p, q, e, m, f :
        /\ p = policy[s] /\ q = copies[s] /\ e = engine[s] /\ m = socket[s]
        /\ f = [e EXCEPT !.pc = "load", !.next = 1, !.buffer = m[2], !.names = m[3],
                         !.used = m[4]]
  OBVIOUS
<1>2. /\ Running /\ UNCHANGED <<policy, weights, memory, copies, socket>>
      /\ engine' = [engine EXCEPT ![s] = f]
      /\ e.pc = "loop" /\ m \notin {Empty, Ack, Complete} /\ DOMAIN e = Fields
  BY <1>1, Domains DEF Receive, SetEngine, Request, ipcVars
<1>3. ASSUME Packing(s, p, q), Exchange(s, p, e, m)
      PROVE  Exchange(s, p, f, m)
  <2>1. PICK b \in {1, 2}, names \in Seq(Params), used \in Nat :
          Handing(s, p, e, m, b, names, used)
    BY <1>2, <1>3 DEF Exchange, AtRest, Acknowledged, Completing
  <2>2. m = <<"group", b, names, used>> /\ LoadedBefore(s, Sent(p) - Len(names))
    BY <2>1 DEF Handing
  <2>3. f.pc = "load" /\ f.next = 1 /\ f.buffer = b /\ f.names = names
    BY <1>1, <1>2, <2>2 DEF Fields
  <2>4. 1 \in 1..(Len(names) + 1)
    BY <2>1
  <2>5. Sent(p) - Len(names) + 1 - 1 = Sent(p) - Len(names)
    <3>1. Sent(p) \in Int /\ Len(names) \in Nat
      BY <1>3, <2>1, Domains DEF Packing, Sent, Piece
    <3> QED BY <3>1
  <2>6. Handing(s, p, f, m, b, names, used)
    BY <2>1, <2>2, <2>3, <2>4, <2>5 DEF Handing
  <2> QED BY <2>6 DEF Exchange
<1>4. PICK g : g = m
  OBVIOUS
<1>5. (socket' = socket /\ g = m) /\ (Packing(s, p, q) /\ Exchange(s, p, e, m) => Exchange(s, p, f, g))
  BY <1>2, <1>3, <1>4
<1>6. p = policy[s] /\ q = copies[s] /\ e = engine[s] /\ m = socket[s]
  BY <1>1
<1>7. /\ Running /\ UNCHANGED <<policy, weights, memory, copies>>
      /\ engine' = [engine EXCEPT ![s] = f]
  BY <1>2
<1> QED BY ONLY TypeInv, IpcInv, s \in Ranks, <1>5, <1>6, <1>7, EngineTalks

\* It answers when the whole group is loaded.
LEMMA AcknowledgeIpc ==
  ASSUME TypeInv, IpcInv, NEW s \in Ranks, Acknowledge(s)
  PROVE  IpcInv'
<1>1. PICK p, q, e, m, f, g :
        /\ p = policy[s] /\ q = copies[s] /\ e = engine[s] /\ m = socket[s]
        /\ f = [e EXCEPT !.pc = "loop"] /\ g = Ack
  OBVIOUS
<1>2. /\ Running /\ UNCHANGED <<policy, weights, memory, copies>>
      /\ engine' = [engine EXCEPT ![s] = f] /\ socket' = [socket EXCEPT ![s] = g]
      /\ e.pc = "load" /\ e.next > Len(e.names) /\ DOMAIN e = Fields
  BY <1>1, Domains DEF Acknowledge, SetEngine
<1>3. ASSUME Packing(s, p, q), Exchange(s, p, e, m)
      PROVE  Exchange(s, p, f, g)
  <2>1. PICK b \in {1, 2}, names \in Seq(Params), used \in Nat :
          Handing(s, p, e, m, b, names, used)
    BY <1>2, <1>3 DEF Exchange, AtRest, Acknowledged, Completing
  <2>2. /\ p.pc = "loop" /\ p.awaiting = TRUE /\ e.names = names /\ e.next \in 1..(Len(names) + 1)
        /\ LoadedBefore(s, Sent(p) - Len(names) + e.next - 1)
    BY <1>2, <2>1 DEF Handing
  <2>3. Sent(p) - Len(names) + e.next - 1 = Sent(p)
    <3>1. Sent(p) \in Int /\ Len(names) \in Nat
      BY <1>3, <2>1, Domains DEF Packing, Sent, Piece
    <3> QED BY <1>2, <2>2, <3>1
  <2>4. f.pc = "loop"
    BY <1>1, <1>2 DEF Fields
  <2> QED BY <1>1, <2>2, <2>3, <2>4 DEF Exchange, Acknowledged
<1> QED BY <1>1, <1>2, <1>3, EngineTalks

\* It answers COMPLETE, and returns True.
LEMMA AcknowledgeCompleteIpc ==
  ASSUME TypeInv, IpcInv, NEW s \in Ranks, AcknowledgeComplete(s)
  PROVE  IpcInv'
<1>1. PICK p, q, e, m, f, g :
        /\ p = policy[s] /\ q = copies[s] /\ e = engine[s] /\ m = socket[s]
        /\ f = [e EXCEPT !.pc = "returned", !.result = TRUE] /\ g = Ack
  OBVIOUS
<1>2. /\ Running /\ UNCHANGED <<policy, weights, memory, copies>>
      /\ engine' = [engine EXCEPT ![s] = f] /\ socket' = [socket EXCEPT ![s] = g]
      /\ m = Complete /\ DOMAIN e = Fields
  BY <1>1, Domains DEF AcknowledgeComplete, SetEngine
<1>3. ASSUME Packing(s, p, q), Exchange(s, p, e, m)
      PROVE  Exchange(s, p, f, g)
  <2>1. Completing(s, p, e, m)
    BY <1>2, <1>3, Messages DEF Exchange, AtRest, Acknowledged, Handing
  <2>2. f.pc = "returned" /\ f.result = TRUE
    BY <1>1, <1>2 DEF Fields
  <2> QED BY <1>1, <2>1, <2>2 DEF Exchange, Acknowledged, Completing
<1> QED BY <1>1, <1>2, <1>3, EngineTalks

\* It may give up, which answers nothing.
LEMMA EngineGivesUpIpc ==
  ASSUME TypeInv, IpcInv, NEW s \in Ranks, EngineGivesUp(s)
  PROVE  IpcInv'
<1>1. PICK p, q, e, m, f :
        /\ p = policy[s] /\ q = copies[s] /\ e = engine[s] /\ m = socket[s]
        /\ f = [e EXCEPT !.pc = "returned"]
  OBVIOUS
<1>2. /\ Running /\ UNCHANGED <<policy, weights, memory, copies, socket>>
      /\ engine' = [engine EXCEPT ![s] = f] /\ DOMAIN e = Fields
  BY <1>1, Domains DEF EngineGivesUp, SetEngine, ipcVars
<1>3. f.pc = "returned" /\ f.result = e.result
  BY <1>1, <1>2 DEF Fields
<1>4. Exchange(s, p, e, m) => Exchange(s, p, f, m)
  BY <1>3 DEF Exchange, AtRest, Acknowledged, Completing, Handing
<1>5. PICK g : g = m
  OBVIOUS
<1>6. (socket' = socket /\ g = m) /\ (Packing(s, p, q) /\ Exchange(s, p, e, m) => Exchange(s, p, f, g))
  BY <1>2, <1>4, <1>5
<1> QED BY <1>1, <1>2, <1>6, EngineTalks

\* The bytes of tensor n at offset o of a buffer are all v.
Shows(r, b, o, n, v) == \A x \in o..(o + Size(n) - 1) : memory[r][b][x] = v

\* A view of bytes that are all of one parameter shows that parameter.
LEMMA ViewOf ==
  ASSUME NEW r, NEW b, NEW o \in Nat, NEW n, Size(n) \in Nat \ {0}, NEW v,
         Shows(r, b, o, n, v)
  PROVE  View(r, b, o, n) = v
<1> DEFINE bytes == {memory[r][b][i] : i \in o..o + Size(n) - 1}
<1>1. bytes = {v}
  <2>1. o \in o..(o + Size(n) - 1)
    OBVIOUS
  <2>2. \A x \in o..(o + Size(n) - 1) : memory[r][b][x] = v
    BY DEF Shows
  <2> QED BY <2>1, <2>2
<1>2. View(r, b, o, n) = IF Cardinality(bytes) = 1 THEN CHOOSE w \in bytes : TRUE ELSE Garbage
  BY Zenon DEF View
<1> HIDE DEF bytes
<1>3. Cardinality(bytes) = 1
  BY <1>1, FS_Singleton
<1>4. (CHOOSE w \in bytes : TRUE) = v
  BY <1>1
<1> QED BY <1>2, <1>3, <1>4

\* What it loads are the bytes of the parameter: the offsets are the worker's,
\* and the worker is not packing into this buffer.
LEMMA LoadIpc ==
  ASSUME TypeInv, IpcInv, NEW s \in Ranks, Load(s)
  PROVE  IpcInv'
<1>0. /\ setup' = setup /\ refit' = refit /\ outcome' = outcome /\ outcome = "running"
      /\ UNCHANGED <<policy, memory, copies, socket>>
  BY DEF Load, Running, ipcVars
<1>1. PICK p, q, e, m, f, v :
        /\ p = policy[s] /\ q = copies[s] /\ e = engine[s] /\ m = socket[s]
        /\ f = [e EXCEPT !.next = @ + 1]
        /\ v = View(s, e.buffer, Offset(e.names, e.next), e.names[e.next])
  OBVIOUS
<1>2. /\ engine' = [engine EXCEPT ![s] = f]
      /\ weights' = [weights EXCEPT ![s][e.names[e.next]] = v]
      /\ e.pc = "load" /\ e.next <= Len(e.names) /\ DOMAIN e = Fields
  BY <1>1, Domains DEF Load, SetEngine
<1>3. /\ engine'[s] = f /\ weights'[s] = [weights[s] EXCEPT ![e.names[e.next]] = v]
      /\ \A r \in Ranks : r # s => engine'[r] = engine[r] /\ weights'[r] = weights[r]
  BY <1>2, Domains
<1>4. ASSUME Packing(s, p, q), Exchange(s, p, e, m)
      PROVE  /\ Packing(s, p, q)' /\ Exchange(s, p, f, m)'
             /\ \A n \in Params : weights'[s][n] \in {weights[s][n], <<refit, n>>}
  <2>1. PICK b \in {1, 2}, names \in Seq(Params), used \in Nat :
          Handing(s, p, e, m, b, names, used)
    BY <1>2, <1>4 DEF Exchange, AtRest, Acknowledged, Completing
  <2>2. PICK first, l, i : first = Sent(p) - Len(names) /\ l = Len(names) /\ i = e.next
    OBVIOUS
  <2>3. /\ m = <<"group", b, names, used>> /\ p.pc = "loop" /\ p.awaiting = TRUE
        /\ b # p.buffer /\ l < Sent(p) /\ Piece(names, first)
        /\ \A j \in 1..l : Landed(s, b, names, j)
        /\ LoadedBefore(s, first)
        /\ e.buffer = b /\ e.names = names /\ i \in 1..l
        /\ LoadedBefore(s, first + i - 1)
    <3>1. l \in Nat
      BY <2>1, <2>2
    <3> QED BY <1>2, <2>1, <2>2, <3>1 DEF Handing
  <2>4. l \in Nat /\ first \in Int /\ names[i] = first + i - 1 /\ names[i] \in Params
    <3>1. Sent(p) \in Int /\ l \in Nat
      BY <1>4, <2>1, <2>2, Domains DEF Packing, Sent, Piece
    <3>2. first \in Int
      BY ONLY <2>2, <3>1
    <3>3. l = Len(names) /\ i \in 1..l /\ names \in Seq(Params)
      BY <2>1, <2>2, <2>3
    <3>4. names[i] \in Params
      BY ONLY <3>3
    <3>5. names[i] = first + i - 1
      BY ONLY <2>2, <2>3, <3>1, <3>2 DEF Piece
    <3> QED BY <3>1, <3>2, <3>4, <3>5
  <2>5. PICK n : n = names[i]
    OBVIOUS
  <2>6. v = <<refit, n>>
    <3>1. i \in 1..(l + 1)
      BY <2>3, <2>4
    <3>2. Offset(names, i) \in Nat /\ Size(n) \in Nat \ {0}
      BY <2>1, <2>2, <2>4, <2>5, <3>1, Offsets, SizeOfParam, Domains
    <3>3. \A x \in Offset(names, i)..(Offset(names, i) + Size(n) - 1) :
            memory[s][b][x] = <<refit, n>>
      BY <2>3, <2>5 DEF Landed
    <3>4. View(s, b, Offset(names, i), n) = <<refit, n>>
      <4>1. PICK o, w : o = Offset(names, i) /\ w = <<refit, n>>
        OBVIOUS
      <4>2. o \in Nat /\ Shows(s, b, o, n, w)
        BY <3>2, <3>3, <4>1 DEF Shows
      <4>3. View(s, b, o, n) = w
        BY <3>2, <4>2, ViewOf
      <4> QED BY <4>1, <4>3
    <3> QED BY <1>1, <2>2, <2>3, <2>5, <3>4
  <2>7. weights'[s] = [weights[s] EXCEPT ![n] = <<refit, n>>] /\ n \in Params
    BY <1>3, <2>2, <2>3, <2>4, <2>5, <2>6
  <2>8. \A k \in Params : weights'[s][k] = IF k = n THEN <<refit, n>> ELSE weights[s][k]
    BY <2>7, Domains
  <2>9. Params' = Params /\ \A k : LoadedBefore(s, k) => LoadedBefore(s, k)'
    BY <1>0, <2>8, SameSetup DEF LoadedBefore
  <2>10. LoadedBefore(s, first + i)'
    <3>1. \A k \in Params : k < first + i => k = n \/ k < first + i - 1
      <4>1. i \in Int /\ n = first + i - 1 /\ \A k \in Params : k \in Int
        BY <2>3, <2>4, <2>5, Domains DEF Params
      <4> QED BY <2>4, <4>1
    <3> QED BY <1>0, <2>3, <2>8, <2>9, <3>1 DEF LoadedBefore
  <2>11. f.next = i + 1 /\ f.pc = "load" /\ f.buffer = b /\ f.names = names
    BY <1>1, <1>2, <2>2, <2>3 DEF Fields
  <2>12. /\ \A j \in 1..l : Landed(s, b, names, j)'
         /\ Piece(names, first)'
    <3>1. /\ \A a, j : Offset(a, j)' = Offset(a, j)
          /\ \A a : Size(a)' = Size(a)
      BY <1>0, SameOffsets
    <3> QED BY <1>0, <2>3, <2>9, <3>1 DEF Landed, Piece
  <2>13. i + 1 \in 1..(l + 1) /\ first + i = first + (i + 1) - 1
    BY <2>3, <2>4
  <2>14. Handing(s, p, f, m, b, names, used)'
    <3>1. Sent(p)' = Sent(p)
      BY DEF Sent
    <3>2. /\ LoadedBefore(s, first)' /\ LoadedBefore(s, first + (i + 1) - 1)'
      BY <2>3, <2>9, <2>10, <2>13
    <3> QED BY <2>2, <2>3, <2>11, <2>12, <2>13, <3>1, <3>2 DEF Handing
  <2>15. Exchange(s, p, f, m)'
    BY <2>1, <2>9, <2>14 DEF Exchange
  <2>16. Packing(s, p, q)'
    BY <1>0, <1>4, PackingKept
  <2> QED BY <2>8, <2>15, <2>16
<1>5. Working(s) =>
        Working(s)' /\ \A n \in Params : weights'[s][n] \in {weights[s][n], <<refit, n>>}
  <2> SUFFICES ASSUME Working(s)
               PROVE  Working(s)' /\ \A n \in Params : weights'[s][n] \in {weights[s][n], <<refit, n>>}
    OBVIOUS
  <2>1. Packing(s, p, q) /\ Exchange(s, p, e, m)
    BY <1>1 DEF Working
  <2>2. Packing(s, p, q)' /\ Exchange(s, p, f, m)'
    BY <1>4, <2>1
  <2>3. Working(s)'
    BY <1>0, <1>1, <1>3, <2>2 DEF Working
  <2> QED BY <1>4, <2>1, <2>3
<1>6. Working(s) /\ (\A n \in Params : SomeVersion(s, n)) => \A n \in Params : SomeVersion(s, n)'
  BY <1>0, <1>5, StillSomeVersion, Domains
<1>7. \A r \in Ranks : r # s =>
           /\ policy'[r] = policy[r] /\ engine'[r] = engine[r] /\ copies'[r] = copies[r]
           /\ socket'[r] = socket[r] /\ memory'[r] = memory[r] /\ weights'[r] = weights[r]
  BY <1>0, <1>3
<1>8. policy[s].pc = "raised" => policy'[s].pc = "raised"
  BY <1>0
<1> QED BY <1>0, <1>5, <1>6, <1>7, <1>8, RankStep

\* Both sides at the start of a refit.
LEMMA FreshPacking ==
  ASSUME setup \in Setups, NEW r, NEW q, q \in Seq({1, 2} \X Nat \X Params), Len(q) = 0,
         NEW p, p = Fresh
  PROVE  Packing(r, p, q)
<1>1. /\ p.pc = "loop" /\ p.next = 1 /\ p.names = <<>> /\ p.used = 0 /\ p.buffer = 1
      /\ DOMAIN p = Fields
  BY FreshFields DEF Fresh
<1>2. <<>> \in Seq(Params) /\ Len(p.names) = 0
  BY <1>1
<1>3. Offset(<<>>, 1) = 0 /\ N \in Nat /\ 1 \in 1..(N + 1)
  <2>1. N \in Nat
    BY TheSetup
  <2>2. Offset(<<>>, 1) = 0
    BY <1>2, Offsets
  <2> QED BY <2>1, <2>2
<1>4. 0 <= BufferSize
  <2>1. setup.limit \in Nat
    BY TheSetup
  <2>2. BufferSize \in Nat
    BY <2>1, Division DEF BufferSize
  <2> QED BY <2>2
<1>5. Piece(p.names, p.next - Len(p.names))
  BY <1>1, <1>2 DEF Piece
<1> QED BY <1>1, <1>2, <1>3, <1>4, <1>5 DEF Packing

\* At the start of a refit nothing is said.
LEMMA FreshExchange ==
  ASSUME setup \in Setups, NEW r, NEW p, p = Fresh, NEW m, m = Empty
  PROVE  Exchange(r, p, p, m)
<1>1. p.pc = "loop" /\ p.next = 1 /\ p.names = <<>> /\ p.awaiting = FALSE
  BY DEF Fresh
<1>2. Sent(p) = 1
  BY <1>1 DEF Sent
<1>3. LoadedBefore(r, 1)
  <2>1. \A n \in Params : ~ (n < 1)
    BY TheSetup DEF Params
  <2> QED BY <2>1 DEF LoadedBefore
<1> QED BY <1>1, <1>2, <1>3 DEF Exchange, AtRest

\* The driver keeps the invariant of CUDA IPC.
LEMMA DriverIpc ==
  ASSUME TypeInv, IpcInv, Ipc,
         RefitReturns \/ RefitRaises \/ NextRefit \/ UNCHANGED vars
  PROVE  IpcInv'
<1>0. /\ setup' = setup /\ weights' = weights /\ memory' = memory /\ copies' = copies
      /\ socket' = socket /\ refit \in Nat /\ setup \in Setups
  BY DEF RefitReturns, RefitRaises, NextRefit, vars, TypeInv, ipcVars
<1>1. Ranks' = Ranks /\ Params' = Params
  BY <1>0, SameSetup
<1>2. CASE NextRefit
  <2>1. /\ refit' = refit + 1 /\ outcome' = "running" /\ outcome = "updated"
        /\ policy' = [r \in Ranks |-> Fresh] /\ engine' = [r \in Ranks |-> Fresh]
    BY <1>2 DEF NextRefit
  <2>2. ASSUME NEW r \in Ranks PROVE Working(r)' /\ \A n \in Params : SomeVersion(r, n)'
    <3>1. policy[r].pc = "returned" /\ Working(r) /\ \A n \in Params : SomeVersion(r, n)
      BY <2>1 DEF IpcInv
    <3>2. PICK p, q, e, m :
            /\ p = policy[r] /\ q = copies[r] /\ e = engine[r] /\ m = socket[r]
            /\ Packing(r, p, q) /\ Exchange(r, p, e, m)
      BY <3>1 DEF Working
    <3>3. q \in Seq({1, 2} \X Nat \X Params) /\ Len(q) = 0
      BY <3>1, <3>2 DEF Packing
    <3>4. m = Empty
      BY <3>1, <3>2 DEF Exchange, AtRest, Acknowledged, Completing, Handing
    <3>5. PICK f : f = Fresh
      OBVIOUS
    <3>6. Packing(r, f, q)'
      <4>1. Packing(r, f, q)
        BY <1>0, <3>3, <3>5, FreshPacking
      <4>2. f.names = <<>>
        BY <3>5 DEF Fresh
      <4> QED BY <1>0, <4>1, <4>2, PackingNothing
    <3>7. Exchange(r, f, f, m)'
      <4>1. f.pc = "loop" /\ f.next = 1 /\ f.names = <<>> /\ f.awaiting = FALSE
        BY <3>5 DEF Fresh
      <4>2. Sent(f)' = 1
        BY <4>1 DEF Sent
      <4>3. LoadedBefore(r, 1)'
        <5>1. \A n \in Params : ~ (n < 1)
          BY <1>0, TheSetup DEF Params
        <5> QED BY <1>1, <5>1 DEF LoadedBefore
      <4> QED BY <3>4, <4>1, <4>2, <4>3 DEF Exchange, AtRest, Empty
    <3>8. f = policy'[r] /\ f = engine'[r]
      BY <2>1, <3>5
    <3>9. Working(r)'
      BY <1>0, <3>2, <3>6, <3>7, <3>8 DEF Working
    <3>10. \A n \in Params : SomeVersion(r, n)'
      BY <1>0, <2>1, <3>1, StillSomeVersion
    <3> QED BY <3>9, <3>10
  <2>3. outcome' # "updated"
    BY <2>1
  <2> QED BY <1>1, <2>2, <2>3 DEF IpcInv
<1>3. CASE RefitReturns \/ RefitRaises \/ UNCHANGED vars
  <2>1. refit' = refit /\ policy' = policy /\ engine' = engine
    BY <1>3 DEF RefitReturns, RefitRaises, vars
  <2>2. \A r \in Ranks : policy[r].pc = "raised" \/ Working(r)'
    BY <1>0, <2>1, WorkingKept DEF IpcInv
  <2>3. \A r \in Ranks : policy[r].pc = "raised" \/ \A n \in Params : SomeVersion(r, n)'
    BY <1>0, <2>1, StillSomeVersion DEF IpcInv
  <2>4. outcome' = "updated" => \A r \in Ranks : policy[r].pc = "returned"
    BY <1>3 DEF RefitReturns, RefitRaises, vars, IpcInv
  <2> QED BY <1>1, <2>1, <2>2, <2>3, <2>4 DEF IpcInv
<1> QED BY <1>2, <1>3

\* With CUDA IPC, worker, engine rank and stream of a rank exchange buffers.
LEMMA IpcOnly ==
  ASSUME Ipc, NEW r
  PROVE  /\ PolicyStep(r) => \/ Pack(r) \/ TooLarge(r) \/ Send(r) \/ SendComplete(r)
                             \/ Close(r) \/ AnswerTimesOut(r)
         /\ EngineStep(r) => \/ Receive(r) \/ Load(r) \/ Acknowledge(r)
                             \/ AcknowledgeComplete(r) \/ EngineGivesUp(r)
         /\ StreamStep(r) => CopyLands(r)
         /\ ~ Gather /\ ~ Broadcast
<1>1. ~ Collective /\ ~ Http
  BY DEF Http, Ipc, Collective
<1>2. ~ QueueGroup(<<"policy", r>>) /\ ~ QueueNothing(<<"policy", r>>)
      /\ ~ QueueGroup(<<"engine", r>>) /\ ~ QueueNothing(<<"engine", r>>)
  BY <1>1 DEF QueueGroup, QueueNothing
<1>3. ~ Post(r) /\ ~ PostFails(r) /\ ~ Gather
  BY <1>1 DEF Post, PostFails, Gather
<1>4. ~ Broadcast /\ \A b \in Buffers : ~ LoadLands(r, b)
  BY <1>1 DEF Broadcast, LoadLands
<1> QED BY <1>2, <1>3, <1>4 DEF PolicyStep, EngineStep, StreamStep

\* Every step keeps the invariant.
LEMMA IpcNext ==
  ASSUME TypeInv, Ipc, IpcInv, [Next]_vars
  PROVE  IpcInv'
<1>1. ASSUME NEW r \in Ranks, PolicyStep(r) PROVE IpcInv'
  BY <1>1, IpcOnly, PackIpc, RaisesIpc, SendIpc, SendCompleteIpc, CloseIpc
<1>2. ASSUME NEW r \in Ranks, EngineStep(r) PROVE IpcInv'
  BY <1>2, IpcOnly, ReceiveIpc, LoadIpc, AcknowledgeIpc, AcknowledgeCompleteIpc,
     EngineGivesUpIpc
<1>3. ASSUME NEW r \in Ranks, StreamStep(r) PROVE IpcInv'
  BY <1>3, IpcOnly, CopyLandsIpc
<1> QED BY <1>1, <1>2, <1>3, IpcOnly, DriverIpc DEF Next, Driver

\* It holds at the start.
LEMMA IpcInit ==
  ASSUME Init PROVE IpcInv
<1>1. /\ setup \in Setups /\ outcome = "running" /\ refit = 1
      /\ policy = [r \in Ranks |-> Fresh] /\ engine = [r \in Ranks |-> Fresh]
      /\ weights = [r \in Ranks |-> [n \in Params |-> <<0, n>>]]
      /\ copies = [r \in Ranks |-> <<>>] /\ socket = [r \in Ranks |-> Empty]
  BY DEF Init
<1>2. \A r \in Ranks, n \in Params : SomeVersion(r, n)
  BY <1>1 DEF SomeVersion
<1>3. ASSUME NEW r \in Ranks PROVE Working(r)
  <2>1. PICK p, q, m : p = Fresh /\ q = <<>> /\ m = Empty
    OBVIOUS
  <2>2. p = policy[r] /\ p = engine[r] /\ q = copies[r] /\ m = socket[r]
    BY <1>1, <2>1
  <2>3. q \in Seq({1, 2} \X Nat \X Params) /\ Len(q) = 0
    BY <2>1
  <2>4. Packing(r, p, q) /\ Exchange(r, p, p, m)
    BY <1>1, <2>1, <2>3, FreshPacking, FreshExchange
  <2> QED BY <2>2, <2>4 DEF Working
<1> QED BY <1>1, <1>2, <1>3 DEF IpcInv

-----------------------------------------------------------------------------
(* The theorem *)

TransferInv ==
  /\ TypeInv
  /\ Http => HttpInv
  /\ Collective => CollInv
  /\ Ipc => IpcInv

\* The invariant holds at the start, whichever the transport.
LEMMA TransferInit == Init => TransferInv
BY InitTypes, HttpInit, CollInit, IpcInit DEF TransferInv

\* No step changes the configuration.
LEMMA SetupStays == [Next]_vars => setup' = setup
<1> SUFFICES ASSUME [Next]_vars PROVE setup' = setup
  OBVIOUS
<1>1. ASSUME NEW m, QueueGroup(m) \/ QueueNothing(m) PROVE setup' = setup
  BY <1>1 DEF QueueGroup, QueueNothing, Running
<1>2. ASSUME NEW r, PolicyStep(r) PROVE setup' = setup
  BY <1>1, <1>2 DEF PolicyStep, Pack, TooLarge, Send, SendComplete, Close, AnswerTimesOut, Post,
       PostFails, Running
<1>3. ASSUME NEW r, EngineStep(r) PROVE setup' = setup
  BY <1>1, <1>3 DEF EngineStep, Receive, Load, Acknowledge, AcknowledgeComplete, EngineGivesUp,
       Running
<1>4. ASSUME NEW r, StreamStep(r) PROVE setup' = setup
  BY <1>4 DEF StreamStep, CopyLands, LoadLands, Running
<1>5. ASSUME Broadcast PROVE setup' = setup
  BY <1>5 DEF Broadcast
<1>6. ASSUME Driver PROVE setup' = setup
  BY <1>6 DEF Driver, Gather, RefitReturns, RefitRaises, NextRefit, Running
<1> QED BY <1>2, <1>3, <1>4, <1>5, <1>6 DEF Next, vars

\* Every step keeps the invariant.
LEMMA TransferNext == TransferInv /\ [Next]_vars => TransferInv'
<1> SUFFICES ASSUME TransferInv, [Next]_vars PROVE TransferInv'
  OBVIOUS
<1>1. Ipc' = Ipc /\ Collective' = Collective /\ Http' = Http
  BY SetupStays, SameSetup
<1>2. TypeInv'
  BY TypeNext DEF TransferInv
<1>3. Http => HttpInv'
  BY HttpNext DEF TransferInv
<1>4. Collective => CollInv'
  BY CollNext DEF TransferInv
<1>5. Ipc => IpcInv'
  BY IpcNext DEF TransferInv
<1> QED BY <1>1, <1>2, <1>3, <1>4, <1>5 DEF TransferInv

\* The invariant of HTTP implies the property.
LEMMA HttpLoaded ==
  ASSUME TypeInv, Http, HttpInv
  PROVE  LoadedWhatWasSent
<1>1. ~ Collective
  BY DEF Http, Collective
<1>2. ASSUME NEW r \in Ranks, NEW n \in Params, outcome = "updated"
      PROVE  weights[r][n] = <<refit, n>>
  <2>1. PICK k \in Nat \ {0} : \A q \in Ranks : HttpAt(q, k)
    BY DEF HttpInv
  <2>2. Leader(r) \in Ranks
    BY Leaders DEF TypeInv
  <2>3. policy[Leader(r)].pc = "returned"
    BY <1>2, <2>2 DEF HttpInv
  <2>4. policy[Leader(r)].next = N + 1
    BY <2>1, <2>2, <2>3 DEF HttpAt
  <2>5. n < N + 1
    BY TheSetup DEF TypeInv, Params, N
  <2> QED BY <2>4, <2>5 DEF HttpInv
<1>3. \A r \in Ranks, n \in Params : \E v \in 0..refit : weights[r][n] = <<v, n>>
  BY DEF HttpInv, SomeVersion
<1> QED BY <1>1, <1>2, <1>3 DEF LoadedWhatWasSent, Updated

\* So does that of the collective transport.
LEMMA CollectiveLoaded ==
  ASSUME TypeInv, Collective, CollInv
  PROVE  LoadedWhatWasSent
<1>1. 1 \in Ranks
  <2>1. setup.ranks \in Nat \ {0}
    BY TheSetup DEF TypeInv
  <2> QED BY <2>1 DEF Ranks
<1>2. ASSUME NEW n \in Params, outcome = "updated"
      PROVE  Updated(1, n)
  <2>1. engine[1].result /\ Local(<<"engine", 1>>) = engine[1]
    BY <1>2, LocalIs DEF CollInv
  <2>2. EngineOk(1) /\ MemberOk(<<"engine", 1>>)
    BY <1>1, RanksAreMembers DEF CollInv
  <2>3. engine[1].next > N /\ engine[1].next \in Nat
    BY <2>1, <2>2 DEF EngineOk, MemberOk
  <2>4. n < engine[1].next
    BY <2>3, TheSetup DEF TypeInv, Params, N
  <2> QED BY <2>1, <2>2, <2>4 DEF EngineOk
<1>3. \A r \in Ranks, n \in Params : \E v \in 0..refit : weights[r][n] = <<v, n>>
  BY DEF CollInv, SomeVersion
<1> QED BY <1>2, <1>3 DEF LoadedWhatWasSent

\* So does that of CUDA IPC.
LEMMA IpcLoaded ==
  ASSUME TypeInv, Ipc, IpcInv
  PROVE  LoadedWhatWasSent
<1>1. ~ Collective
  BY DEF Ipc, Collective
<1>2. ASSUME NEW r \in Ranks, NEW n \in Params, outcome = "updated"
      PROVE  weights[r][n] = <<refit, n>>
  <2>1. policy[r].pc = "returned" /\ Working(r)
    BY <1>2 DEF IpcInv
  <2>2. PICK p, q, e, m :
          /\ p = policy[r] /\ q = copies[r] /\ e = engine[r] /\ m = socket[r]
          /\ Packing(r, p, q) /\ Exchange(r, p, e, m)
    BY <2>1 DEF Working
  <2>3. p.next = N + 1 /\ p.names = <<>>
    BY <2>1, <2>2 DEF Packing
  <2>4. LoadedBefore(r, Sent(p))
    BY <2>1, <2>2 DEF Exchange, AtRest, Acknowledged, Completing, Handing
  <2>5. n < Sent(p)
    BY <2>3, TheSetup DEF TypeInv, Params, N, Sent
  <2> QED BY <2>4, <2>5 DEF LoadedBefore
<1>3. \A r \in Ranks, n \in Params :
        policy[r].pc = "raised" \/ \E v \in 0..refit : weights[r][n] = <<v, n>>
  BY DEF IpcInv, SomeVersion
<1> QED BY <1>1, <1>2, <1>3 DEF LoadedWhatWasSent, Updated

\* The invariant holds in every reachable state, for every list of sizes, any
\* number of ranks, buffers and refits, and whatever raises or times out.
THEOREM TransferInvariant == Spec => []TransferInv
<1> QED BY TransferInit, TransferNext, PTL DEF Spec

\* An engine rank whose worker has not raised holds, for every parameter,
\* bytes of that parameter from one version, never those of another or of a
\* buffer being packed; and a refit that succeeds has brought the new version
\* of every parameter to every rank (with the collective transport: to the
\* first one, or to its stream).
THEOREM TransferIsFaithful == Spec => []LoadedWhatWasSent
<1>1. TransferInv => LoadedWhatWasSent
  <2> SUFFICES ASSUME TransferInv PROVE LoadedWhatWasSent
    OBVIOUS
  <2>1. Http \/ Collective \/ Ipc
    BY TheSetup DEF TransferInv, TypeInv, Http, Collective, Ipc
  <2> QED BY <2>1, HttpLoaded, CollectiveLoaded, IpcLoaded DEF TransferInv
<1> QED BY TransferInvariant, <1>1, PTL

==============================================================================
