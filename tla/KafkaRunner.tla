----------------------------- MODULE KafkaRunner ----------------------------
(***************************************************************************)
(* KafkaProducer.emit and KafkaConsumerRunner, the library every service   *)
(* is built on (libs/kafka-rdkafka), for one topic and one consumer group. *)
(*                                                                         *)
(* Every 'data' event appends its message to the promise chain             *)
(* `processing`; the handlers of a pod run one after the other; the offset *)
(* of a message is committed when its handler has returned, and not when   *)
(* it threw. On SIGTERM onModuleDestroy waits for the chain as it is at    *)
(* that moment and then leaves the group; a crash leaves at once.          *)
(*                                                                         *)
(* A message is <<partition, offset>>. Kafka and librdkafka are modelled   *)
(* from how the library configures them: committed offsets survive, a new  *)
(* owner of a partition reads on from there, and from the end if there is  *)
(* none (auto.offset.reset is not set, its default is "latest").           *)
(***************************************************************************)
EXTENDS Integers, Sequences

CONSTANTS
    Partitions,   \* partitions of the topic
    Pods,         \* the replicas of the service, all in one group
    NoPod,        \* a partition nobody owns
    MaxLog,       \* bound: messages of each partition
    MaxFaults,    \* bound: crashes and lost commits
    MaxMoves,     \* bound: partitions moved between live pods
    MaxStops      \* bound: shutdowns

ASSUME RunnerAssumption ==
    /\ NoPod \notin Pods
    /\ MaxLog \in [Partitions -> Nat]
    /\ {MaxFaults, MaxMoves, MaxStops} \subseteq Nat

VARIABLES
    end,        \* per partition: messages the broker has
    committed,  \* per partition: next offset to read, or NoOffset
    owner,      \* per partition: the pod it is assigned to
    position,   \* per partition: next offset its owner will receive
    chain,      \* per pod: received messages, the first is being handled
    returned,   \* per pod: the handler of the first has returned, commit is next
    life,       \* per pod: "up", "stopping", "closed" (left the group) or "down"
    awaited,    \* per pod: how many messages onModuleDestroy still waits for
    tried,      \* history: messages whose handler returned or threw
    skipped,    \* history: messages an owner without offset started behind
    done,       \* history: messages whose handler returned
    repeats,    \* history: handlers that returned for a message already done
    owed,       \* history: repeats the crashes, lost commits and stops explain
    moves,      \* history: partitions moved
    overtaken,  \* history: a pod lost a partition it still has messages of
    stops       \* history: shutdowns

broker == <<end, committed, owner, position>>
pods == <<chain, returned, life, awaited>>
history == <<tried, skipped, done, repeats, owed, moves, overtaken, stops>>
vars == <<broker, pods, history>>

NoOffset == -1
Messages == Partitions \X Nat

TypeOK ==
    /\ end \in [Partitions -> Nat]
    /\ committed \in [Partitions -> Nat \cup {NoOffset}]
    /\ owner \in [Partitions -> Pods \cup {NoPod}]
    /\ position \in [Partitions -> Nat]
    /\ chain \in [Pods -> Seq(Messages)]
    /\ returned \in [Pods -> BOOLEAN]
    /\ life \in [Pods -> {"up", "stopping", "closed", "down"}]
    /\ awaited \in [Pods -> Nat]
    /\ tried \subseteq Messages
    /\ skipped \subseteq Messages
    /\ done \subseteq tried
    /\ {repeats, owed, moves, stops} \subseteq Nat
    /\ overtaken \in BOOLEAN

Init ==
    /\ end = [q \in Partitions |-> 0]
    /\ committed = [q \in Partitions |-> NoOffset]
    /\ owner = [q \in Partitions |-> NoPod]
    /\ position = [q \in Partitions |-> 0]
    /\ chain = [p \in Pods |-> <<>>]
    /\ returned = [p \in Pods |-> FALSE]
    /\ life = [p \in Pods |-> "up"]
    /\ awaited = [p \in Pods |-> 0]
    /\ tried = {} /\ skipped = {} /\ done = {}
    /\ repeats = 0 /\ owed = 0 /\ moves = 0 /\ overtaken = FALSE /\ stops = 0

-----------------------------------------------------------------------------
(* The broker                                                              *)

\* emit names no partition: the message goes to any of them.
Emit(q) ==
    /\ end[q] < MaxLog[q]
    /\ end' = [end EXCEPT ![q] = @ + 1]
    /\ UNCHANGED <<committed, owner, position, pods, history>>

StartOf_Latest(q) == end[q]   \* mistake: the committed offset is not asked for

\* Where the next owner of a partition reads on, and what it starts behind.
StartOf(q) == IF committed[q] = NoOffset THEN end[q] ELSE committed[q]

Behind(q) ==
    IF committed[q] = NoOffset
    THEN {<<q, o>> : o \in 0 .. end[q] - 1} \ tried
    ELSE {}

Give(q, p) ==
    /\ life[p] = "up"
    /\ owner' = [owner EXCEPT ![q] = p]
    /\ position' = [position EXCEPT ![q] = StartOf(q)]
    /\ skipped' = skipped \cup Behind(q)
    /\ UNCHANGED <<end, committed, pods, tried, done, repeats, owed, stops>>

Assign(q, p) ==
    /\ owner[q] = NoPod
    /\ Give(q, p)
    /\ UNCHANGED <<moves, overtaken>>

\* A rebalance takes q from a pod that is up: nothing waits for what it has of
\* q in its chain (no rebalance_cb is registered).
Move(q, p) ==
    /\ owner[q] \in Pods \ {p}
    /\ moves < MaxMoves
    /\ moves' = moves + 1
    /\ overtaken' =
          (overtaken \/ \E i \in DOMAIN chain[owner[q]] : chain[owner[q]][i][1] = q)
    /\ Give(q, p)

Release(p) == owner' = [q \in Partitions |-> IF owner[q] = p THEN NoPod ELSE owner[q]]

-----------------------------------------------------------------------------
(* The consumer                                                            *)

\* on('data'): processing = processing.then(handleMessage). Messages keep coming
\* until disconnect.
Receive(p, q) ==
    /\ owner[q] = p
    /\ position[q] < end[q]
    /\ chain' = [chain EXCEPT ![p] = Append(@, <<q, position[q]>>)]
    /\ position' = [position EXCEPT ![q] = @ + 1]
    /\ UNCHANGED <<end, committed, owner, returned, life, awaited, history>>

Idle(p) == chain[p] = <<>>
First(p) == Head(chain[p])

Next1_Uncounted(p) ==   \* mistake: counts below zero what shutdown waits for
    /\ chain' = [chain EXCEPT ![p] = Tail(@)]
    /\ awaited' = [awaited EXCEPT ![p] = @ - 1]

\* The promise of the first message settles: the next one is handled.
Next1(p) ==
    /\ chain' = [chain EXCEPT ![p] = Tail(@)]
    /\ awaited' = [awaited EXCEPT ![p] = IF @ > 0 THEN @ - 1 ELSE 0]

HandlerReturns(p) ==
    /\ ~Idle(p) /\ ~returned[p]
    /\ returned' = [returned EXCEPT ![p] = TRUE]
    /\ tried' = tried \cup {First(p)}
    /\ done' = done \cup {First(p)}
    /\ repeats' = IF First(p) \in done THEN repeats + 1 ELSE repeats
    /\ UNCHANGED <<broker, chain, life, awaited, skipped, owed, moves, overtaken, stops>>

HandlerThrows_Unchained(p) ==   \* mistake: 'data' calls handleMessage at once
    /\ ~Idle(p) /\ ~returned[p]
    /\ \E i \in DOMAIN chain[p] :
          /\ tried' = tried \cup {chain[p][i]}
          /\ chain' = [chain EXCEPT ![p] = SubSeq(@, 1, i - 1) \o SubSeq(@, i + 1, Len(@))]
    /\ UNCHANGED <<broker, returned, life, awaited, skipped, done, repeats, owed, moves,
                   overtaken, stops>>

\* The error (of the handler or of JSON.parse) is logged: no commit, and on.
HandlerThrows(p) ==
    /\ ~Idle(p) /\ ~returned[p]
    /\ tried' = tried \cup {First(p)}
    /\ Next1(p)
    /\ UNCHANGED <<broker, returned, life, skipped, done, repeats, owed, moves, overtaken, stops>>

Commit_Position(p) ==   \* mistake: commits what was received, not what was handled
    /\ returned[p] /\ life[p] # "closed"
    /\ committed' = [committed EXCEPT ![First(p)[1]] = position[First(p)[1]]]
    /\ returned' = [returned EXCEPT ![p] = FALSE]
    /\ Next1(p)
    /\ UNCHANGED <<end, owner, position, life, history>>

Commit_SameOffset(p) ==   \* mistake: commits the offset of the message, not the next
    /\ returned[p] /\ life[p] # "closed"
    /\ committed' = [committed EXCEPT ![First(p)[1]] = First(p)[2]]
    /\ returned' = [returned EXCEPT ![p] = FALSE]
    /\ Next1(p)
    /\ UNCHANGED <<end, owner, position, life, history>>

\* commitMessage: the offset after the message, whoever owns the partition by
\* now; it may take the committed offset back.
Commit(p) ==
    /\ returned[p] /\ life[p] # "closed"
    /\ committed' = [committed EXCEPT ![First(p)[1]] = First(p)[2] + 1]
    /\ returned' = [returned EXCEPT ![p] = FALSE]
    /\ Next1(p)
    /\ UNCHANGED <<end, owner, position, life, history>>

\* The commit has no effect: it got lost (a fault), the pod lost the partition
\* and the broker refuses it, or the consumer is closed.
CommitFails(p) ==
    /\ returned[p]
    /\ \/ owed < MaxFaults /\ life[p] # "closed" /\ owed' = owed + 1
       \/ (life[p] = "closed" \/ owner[First(p)[1]] # p) /\ UNCHANGED owed
    /\ returned' = [returned EXCEPT ![p] = FALSE]
    /\ Next1(p)
    /\ UNCHANGED <<broker, life, tried, skipped, done, repeats, moves, overtaken, stops>>

\* onModuleDestroy: `await this.processing` sees the chain of this moment only.
Stop(p) ==
    /\ life[p] = "up" /\ stops < MaxStops
    /\ stops' = stops + 1
    /\ life' = [life EXCEPT ![p] = "stopping"]
    /\ awaited' = [awaited EXCEPT ![p] = Len(chain[p])]
    /\ UNCHANGED <<broker, chain, returned, tried, skipped, done, repeats, owed, moves, overtaken>>

Disconnect(p) ==
    /\ life[p] = "stopping" /\ awaited[p] = 0
    /\ life' = [life EXCEPT ![p] = "closed"]
    /\ owed' = owed + Len(chain[p])
    /\ Release(p)
    /\ UNCHANGED <<end, committed, position, chain, returned, awaited, tried, skipped, done,
                   repeats, moves, overtaken, stops>>

Leave(p) ==
    /\ Release(p)
    /\ life' = [life EXCEPT ![p] = "down"]
    /\ chain' = [chain EXCEPT ![p] = <<>>]
    /\ returned' = [returned EXCEPT ![p] = FALSE]
    /\ awaited' = [awaited EXCEPT ![p] = 0]
    /\ UNCHANGED <<end, committed, position, tried, skipped, done, repeats, moves, overtaken, stops>>

\* The rest of Nest's shutdown is over, whether or not the chain is.
Exit(p) == life[p] = "closed" /\ Leave(p) /\ UNCHANGED owed

\* Any time: what was chained is forgotten.
Crash(p) ==
    /\ life[p] \in {"up", "stopping"} /\ owed < MaxFaults
    /\ owed' = owed + 1
    /\ Leave(p)

Restart(p) ==
    /\ life[p] = "down"
    /\ life' = [life EXCEPT ![p] = "up"]
    /\ UNCHANGED <<broker, chain, returned, awaited, history>>

-----------------------------------------------------------------------------
PodStep(p) ==
    \/ HandlerReturns(p) \/ HandlerThrows(p) \/ Commit(p) \/ CommitFails(p)
    \/ Disconnect(p) \/ Exit(p) \/ Restart(p)

Next ==
    \/ \E q \in Partitions : Emit(q)
    \/ \E q \in Partitions, p \in Pods : Assign(q, p) \/ Move(q, p) \/ Receive(p, q)
    \/ \E p \in Pods : PodStep(p) \/ Stop(p) \/ Crash(p)

Spec == Init /\ [][Next]_vars

\* Handlers end, the broker assigns and delivers, Kubernetes restarts pods.
Fairness ==
    /\ \A p \in Pods : WF_vars(PodStep(p))
    /\ \A q \in Partitions :
          /\ WF_vars(\E p \in Pods : Assign(q, p))
          /\ WF_vars(\E p \in Pods : Receive(p, q))

FairSpec == Spec /\ Fairness

-----------------------------------------------------------------------------
(* Properties                                                              *)

Passed == tried \cup skipped

\* commitMessage runs after dispatch, and the chain keeps the order of arrival:
\* an offset is never committed beyond a message no handler has been given,
\* whatever moves, crashes or is committed by a pod that lost the partition.
CommittedWereTried == \A q \in Partitions : \A o \in 0 .. committed[q] - 1 : <<q, o>> \in Passed

\* One handler at a time, in the order of the partition: when a message has been
\* tried every earlier one of its partition has been, too.
TriedInOrder == \A m \in tried : \A o \in 0 .. m[2] - 1 : <<m[1], o>> \in Passed

\* A message is handled again only for a reason: a crash or a lost commit costs
\* one repeated handling, a shutdown the messages that arrived after it began.
\* (A partition that is moved from a pod with messages of it in its chain has
\* them handled by both pods, and the older commits bring more of them back.)
RepeatsArePaid == overtaken \/ repeats <= owed

\* Whatever throws, crashes, stops or moves, every message is tried in the end,
\* unless an owner without committed offset started behind it.
EveryMessageTried ==
    \A q \in Partitions : \A o \in 0 .. MaxLog[q] - 1 : end[q] > o ~> <<q, o>> \in Passed

=============================================================================
