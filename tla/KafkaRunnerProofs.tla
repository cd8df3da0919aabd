------------------------- MODULE KafkaRunnerProofs --------------------------
(***************************************************************************)
(* Theorems about KafkaRunner, for any partitions, pods and bounds: types, *)
(* no commit beyond an untried message, the order of a partition, and no   *)
(* repeat without a reason.                                                *)
(***************************************************************************)
EXTENDS KafkaRunner, FiniteSetTheorems, TLAPS

USE RunnerAssumption

-----------------------------------------------------------------------------
(* The inductive invariant                                                 *)

\* Every offset of q below n is in P, or in the chain s before its i-th message.
Covered(P, s, q, n, i) ==
    \A o \in Nat : o < n => \/ <<q, o>> \in P
                            \/ \E j \in DOMAIN s : j < i /\ s[j] = <<q, o>>

CommitsBehind ==
    \A q \in Partitions : \A o \in Nat : o < committed[q] => <<q, o>> \in Passed

\* What a message in a chain finds when its turn comes.
ChainsCovered ==
    \A p \in Pods : \A i \in DOMAIN chain[p] :
        Covered(Passed, chain[p], chain[p][i][1], chain[p][i][2], i)

\* What an owner receives next continues what it has.
OwnersCovered ==
    \A q \in Partitions :
        owner[q] # NoPod =>
            Covered(Passed, chain[owner[q]], q, position[q], Len(chain[owner[q]]) + 1)

\* A message about to be committed has been handled.
ReturnedTried == \A p \in Pods : returned[p] => chain[p] # <<>> /\ Head(chain[p]) \in tried

TriedBehind == \A m \in tried : \A o \in Nat : o < m[2] => <<m[1], o>> \in Passed

IInv == TypeOK /\ CommitsBehind /\ ChainsCovered /\ OwnersCovered /\ ReturnedTried /\ TriedBehind

-----------------------------------------------------------------------------
(* Chains                                                                  *)

\* A sequence that is not empty has a first element and a tail.
LEMMA NonEmptySeq ==
  ASSUME NEW S, NEW s \in Seq(S), s # <<>>
  PROVE  /\ Len(s) \in Nat \ {0} /\ 1 \in DOMAIN s /\ Head(s) = s[1] /\ Head(s) \in S
         /\ Tail(s) \in Seq(S) /\ Len(Tail(s)) = Len(s) - 1
         /\ \A i \in 1 .. Len(s) - 1 : Tail(s)[i] = s[i + 1]
  OBVIOUS

\* A message is appended.
LEMMA LongerSeq ==
  ASSUME NEW S, NEW s \in Seq(S), NEW m \in S
  PROVE  /\ Len(s) \in Nat /\ DOMAIN s = 1 .. Len(s)
         /\ DOMAIN Append(s, m) = 1 .. Len(s) + 1 /\ Len(Append(s, m)) = Len(s) + 1
         /\ Append(s, m)[Len(s) + 1] = m
         /\ \A j \in DOMAIN s : j \in DOMAIN Append(s, m) /\ Append(s, m)[j] = s[j]
         /\ Append(s, m) # <<>> /\ (s # <<>> => Head(Append(s, m)) = Head(s))
  <1>1. /\ Len(s) \in Nat /\ DOMAIN s = 1 .. Len(s)
        /\ Append(s, m) \in Seq(S) /\ Len(Append(s, m)) = Len(s) + 1
    OBVIOUS
  <1>2. DOMAIN Append(s, m) = 1 .. Len(s) + 1 /\ Append(s, m)[Len(s) + 1] = m
    BY <1>1
  <1>3. \A j \in DOMAIN s : j \in DOMAIN Append(s, m) /\ Append(s, m)[j] = s[j]
    BY <1>1, <1>2
  <1>4. Append(s, m) # <<>>
    BY <1>1
  <1>5. s # <<>> => Head(Append(s, m)) = Head(s)
    BY <1>1, <1>3, <1>4
  <1> QED BY <1>1, <1>2, <1>3, <1>4, <1>5

\* What is covered stays covered while more is tried and the chain grows.
LEMMA CoveredStill ==
  ASSUME NEW P, NEW P2, P \subseteq P2, NEW s, NEW s2, NEW q, NEW n, NEW i,
         Covered(P, s, q, n, i),
         \A j \in DOMAIN s : j < i => j \in DOMAIN s2 /\ s2[j] = s[j]
  PROVE  Covered(P2, s2, q, n, i)
  BY DEF Covered

\* The first message has been tried: what was before another one in the chain
\* still is, or has been tried.
LEMMA CoveredByTail ==
  ASSUME NEW P, NEW P2, P \subseteq P2, NEW s \in Seq(Messages), s # <<>>, Head(s) \in P2,
         NEW q, NEW n, NEW i \in Nat, Covered(P, s, q, n, i + 1)
  PROVE  Covered(P2, Tail(s), q, n, i)
  <1>1. /\ DOMAIN s = 1 .. Len(s) /\ Len(s) \in Nat /\ Head(s) = s[1]
        /\ DOMAIN Tail(s) = 1 .. Len(s) - 1
        /\ \A j \in 1 .. Len(s) - 1 : Tail(s)[j] = s[j + 1]
    BY NonEmptySeq
  <1>2. ASSUME NEW o \in Nat, o < n
        PROVE  \/ <<q, o>> \in P2
               \/ \E j \in DOMAIN Tail(s) : j < i /\ Tail(s)[j] = <<q, o>>
    <2>1. CASE <<q, o>> \in P
      BY <2>1
    <2>2. CASE \E j \in DOMAIN s : j < i + 1 /\ s[j] = <<q, o>>
      <3>1. PICK j \in DOMAIN s : j < i + 1 /\ s[j] = <<q, o>>
        BY <2>2
      <3>2. CASE j = 1
        BY <3>1, <3>2, <1>1
      <3>3. CASE j # 1
        <4>1. j \in Nat /\ j - 1 \in 1 .. Len(s) - 1 /\ j - 1 < i /\ (j - 1) + 1 = j
          BY <1>1, <3>1, <3>3
        <4>2. Tail(s)[j - 1] = s[(j - 1) + 1]
          BY <1>1, <4>1
        <4> QED BY <1>1, <3>1, <4>1, <4>2
      <3> QED BY <3>2, <3>3
    <2> QED BY <1>2, <2>1, <2>2 DEF Covered
  <1> QED BY <1>2 DEF Covered

\* A message is appended: what was covered in the chain still is.
LEMMA CoveredByLonger ==
  ASSUME NEW P, NEW s \in Seq(Messages), NEW m \in Messages, NEW q, NEW n, NEW i,
         Covered(P, s, q, n, i)
  PROVE  Covered(P, Append(s, m), q, n, i)
  <1>1. \A j \in DOMAIN s : j \in DOMAIN Append(s, m) /\ Append(s, m)[j] = s[j]
    BY LongerSeq
  <1> QED BY <1>1 DEF Covered

\* The whole longer chain covers what the whole chain did, and the new message.
LEMMA LongerCovers ==
  ASSUME NEW P, NEW s \in Seq(Messages), NEW m \in Messages, NEW q, NEW n,
         Covered(P, s, q, n, Len(s) + 1)
  PROVE  /\ Covered(P, Append(s, m), q, n, Len(Append(s, m)) + 1)
         /\ m = <<q, n>> /\ n \in Nat =>
               Covered(P, Append(s, m), q, n + 1, Len(Append(s, m)) + 1)
  <1>1. /\ Len(s) \in Nat /\ DOMAIN s = 1 .. Len(s)
        /\ DOMAIN Append(s, m) = 1 .. Len(s) + 1 /\ Len(Append(s, m)) = Len(s) + 1
        /\ Append(s, m)[Len(s) + 1] = m
        /\ \A j \in DOMAIN s : j \in DOMAIN Append(s, m) /\ Append(s, m)[j] = s[j]
    BY LongerSeq
  <1>2. ASSUME NEW o \in Nat, o < n
        PROVE  \/ <<q, o>> \in P
               \/ \E j \in DOMAIN Append(s, m) :
                     j < Len(Append(s, m)) + 1 /\ Append(s, m)[j] = <<q, o>>
    <2>1. CASE <<q, o>> \in P
      BY <2>1
    <2>2. CASE \E j \in DOMAIN s : s[j] = <<q, o>>
      <3>1. PICK j \in DOMAIN s : s[j] = <<q, o>>
        BY <2>2
      <3>2. j \in DOMAIN Append(s, m) /\ j < Len(Append(s, m)) + 1 /\ Append(s, m)[j] = <<q, o>>
        BY <1>1, <3>1
      <3> QED BY <3>2
    <2> QED BY <1>2, <2>1, <2>2 DEF Covered
  <1>3. Len(s) + 1 \in DOMAIN Append(s, m) /\ Len(s) + 1 < Len(Append(s, m)) + 1
    BY <1>1
  <1>4. ASSUME m = <<q, n>>, n \in Nat, NEW o \in Nat, o < n + 1
        PROVE  \/ <<q, o>> \in P
               \/ \E j \in DOMAIN Append(s, m) :
                     j < Len(Append(s, m)) + 1 /\ Append(s, m)[j] = <<q, o>>
    <2>1. o < n \/ o = n
      BY <1>4
    <2>2. CASE o = n
      <3>1. Append(s, m)[Len(s) + 1] = <<q, o>>
        BY <1>1, <1>4, <2>2
      <3> QED BY <1>3, <3>1
    <2> QED BY <1>2, <2>1, <2>2
  <1> QED BY <1>2, <1>4 DEF Covered

\* A chain whose first message has been tried is as well covered without it.
LEMMA TailCovered ==
  ASSUME NEW P, NEW P2, P \subseteq P2, NEW s \in Seq(Messages), s # <<>>, Head(s) \in P2,
         \A i \in DOMAIN s : Covered(P, s, s[i][1], s[i][2], i)
  PROVE  \A i \in DOMAIN Tail(s) : Covered(P2, Tail(s), Tail(s)[i][1], Tail(s)[i][2], i)
  <1> SUFFICES ASSUME NEW i \in DOMAIN Tail(s)
               PROVE  Covered(P2, Tail(s), Tail(s)[i][1], Tail(s)[i][2], i)
    OBVIOUS
  <1>1. i \in Nat /\ i + 1 \in DOMAIN s /\ Tail(s)[i] = s[i + 1]
    BY NonEmptySeq
  <1>2. Covered(P, s, s[i + 1][1], s[i + 1][2], i + 1)
    BY <1>1
  <1>3. Covered(P2, Tail(s), s[i + 1][1], s[i + 1][2], i)
    BY <1>1, <1>2, CoveredByTail
  <1> QED BY <1>1, <1>3

-----------------------------------------------------------------------------
(* Types                                                                   *)

\* The next message of a chain.
LEMMA NextTypes ==
  ASSUME TypeOK, NEW p \in Pods, ~Idle(p), Next1(p)
  PROVE  /\ chain' \in [Pods -> Seq(Messages)]
         /\ awaited' \in [Pods -> Nat]
  <1>1. chain[p] \in Seq(Messages) /\ awaited[p] \in Nat
    BY DEF TypeOK
  <1>2. Tail(chain[p]) \in Seq(Messages)
    BY <1>1, NonEmptySeq DEF Idle
  <1> QED BY <1>1, <1>2 DEF Next1, TypeOK

\* The first message of a pod that handles one.
LEMMA FirstType ==
  ASSUME TypeOK, NEW p \in Pods, ~Idle(p)
  PROVE  First(p) \in Messages /\ First(p)[1] \in Partitions /\ First(p)[2] \in Nat
  <1>1. chain[p] \in Seq(Messages)
    BY DEF TypeOK
  <1>2. First(p) \in Messages
    BY <1>1, NonEmptySeq DEF First, Idle
  <1> QED BY <1>2 DEF Messages

\* A pod gives back what it owns.
LEMMA ReleaseType ==
  ASSUME TypeOK, NEW p \in Pods, Release(p)
  PROVE  owner' \in [Partitions -> Pods \cup {NoPod}]
  BY DEF TypeOK, Release

\* Where a new owner starts, and what it skips.
LEMMA GiveTypes ==
  ASSUME TypeOK, NEW q \in Partitions, NEW p \in Pods, Give(q, p)
  PROVE  /\ owner' \in [Partitions -> Pods \cup {NoPod}]
         /\ position' \in [Partitions -> Nat]
         /\ skipped' \subseteq Messages
  <1>1. StartOf(q) \in Nat
    BY DEF StartOf, TypeOK
  <1>2. Behind(q) \subseteq Messages
    BY DEF Behind, TypeOK, Messages
  <1> QED BY <1>1, <1>2 DEF Give, TypeOK

LEMMA LeaveTypes ==
  ASSUME TypeOK, NEW p \in Pods, Leave(p), owed' \in Nat
  PROVE  TypeOK'
  <1>1. <<>> \in Seq(Messages)
    OBVIOUS
  <1>2. chain' \in [Pods -> Seq(Messages)]
    BY <1>1 DEF Leave, TypeOK
  <1> QED BY <1>2, ReleaseType DEF Leave, TypeOK

\* Every step keeps the types.
LEMMA TypeStep == TypeOK /\ ReturnedTried /\ [Next]_vars => TypeOK'
  <1> SUFFICES ASSUME TypeOK, ReturnedTried, [Next]_vars PROVE TypeOK'
    OBVIOUS
  <1>1. ASSUME NEW q \in Partitions, Emit(q) PROVE TypeOK'
    BY <1>1 DEF Emit, TypeOK, pods, history
  <1>2. ASSUME NEW q \in Partitions, NEW p \in Pods, Assign(q, p) PROVE TypeOK'
    <2>1. Give(q, p)
      BY <1>2 DEF Assign
    <2>2. /\ owner' \in [Partitions -> Pods \cup {NoPod}]
         /\ position' \in [Partitions -> Nat]
         /\ skipped' \subseteq Messages
      BY <2>1, GiveTypes
    <2>3. UNCHANGED <<end, committed, pods, tried, done, repeats, owed, moves, overtaken, stops>>
      BY <1>2, <2>1 DEF Assign, Give
    <2> QED BY <2>2, <2>3 DEF TypeOK, pods
  <1>3. ASSUME NEW q \in Partitions, NEW p \in Pods, Move(q, p) PROVE TypeOK'
    <2>1. Give(q, p)
      BY <1>3 DEF Move
    <2>2. overtaken' \in BOOLEAN /\ moves' \in Nat
      BY <1>3 DEF Move, TypeOK
    <2>3. /\ owner' \in [Partitions -> Pods \cup {NoPod}]
         /\ position' \in [Partitions -> Nat]
         /\ skipped' \subseteq Messages
      BY <2>1, GiveTypes
    <2>4. UNCHANGED <<end, committed, pods, tried, done, repeats, owed, stops>>
      BY <2>1 DEF Give
    <2> QED BY <2>2, <2>3, <2>4 DEF TypeOK, pods
  <1>4. ASSUME NEW q \in Partitions, NEW p \in Pods, Receive(p, q) PROVE TypeOK'
    <2>1. chain[p] \in Seq(Messages) /\ <<q, position[q]>> \in Messages
      BY DEF TypeOK, Messages
    <2>2. Append(chain[p], <<q, position[q]>>) \in Seq(Messages)
      BY <2>1
    <2>3. chain' \in [Pods -> Seq(Messages)]
      BY <1>4, <2>2 DEF Receive, TypeOK
    <2>4. position' \in [Partitions -> Nat]
      BY <1>4 DEF Receive, TypeOK
    <2>5. UNCHANGED <<end, committed, owner, returned, life, awaited, history>>
      BY <1>4 DEF Receive
    <2> QED BY <2>3, <2>4, <2>5 DEF TypeOK, history
  <1>5. ASSUME NEW p \in Pods, HandlerReturns(p) PROVE TypeOK'
    <2>1. First(p) \in Messages
      BY <1>5, FirstType DEF HandlerReturns
    <2> QED BY <1>5, <2>1 DEF HandlerReturns, TypeOK, broker
  <1>6. ASSUME NEW p \in Pods, HandlerThrows(p) PROVE TypeOK'
    <2>1. First(p) \in Messages
      BY <1>6, FirstType DEF HandlerThrows
    <2> QED BY <1>6, <2>1, NextTypes DEF HandlerThrows, TypeOK, broker
  <1>7. ASSUME NEW p \in Pods, Commit(p) PROVE TypeOK'
    <2>1. ~Idle(p)
      BY <1>7 DEF Commit, ReturnedTried, Idle
    <2>2. chain' \in [Pods -> Seq(Messages)] /\ awaited' \in [Pods -> Nat]
      BY <1>7, <2>1, NextTypes DEF Commit
    <2>3. committed' \in [Partitions -> Nat \cup {NoOffset}]
      <3>1. First(p)[1] \in Partitions /\ First(p)[2] \in Nat
        BY <2>1, FirstType
      <3>2. First(p)[2] + 1 \in Nat
        BY <3>1
      <3> QED BY <1>7, <3>1, <3>2 DEF Commit, TypeOK
    <2>4. returned' \in [Pods -> BOOLEAN] /\ UNCHANGED <<end, owner, position, life, history>>
      BY <1>7 DEF Commit, TypeOK
    <2> QED BY <2>2, <2>3, <2>4 DEF TypeOK, history
  <1>8. ASSUME NEW p \in Pods, CommitFails(p) PROVE TypeOK'
    <2>1. ~Idle(p)
      BY <1>8 DEF CommitFails, ReturnedTried, Idle
    <2>2. chain' \in [Pods -> Seq(Messages)] /\ awaited' \in [Pods -> Nat]
      BY <1>8, <2>1, NextTypes DEF CommitFails
    <2>3. owed' \in Nat /\ returned' \in [Pods -> BOOLEAN]
      BY <1>8 DEF CommitFails, TypeOK
    <2>4. UNCHANGED <<broker, life, tried, skipped, done, repeats, moves, overtaken, stops>>
      BY <1>8 DEF CommitFails
    <2> QED BY <2>2, <2>3, <2>4 DEF TypeOK, broker
  <1>9. ASSUME NEW p \in Pods, Stop(p) PROVE TypeOK'
    <2>1. Len(chain[p]) \in Nat
      BY DEF TypeOK
    <2> QED BY <1>9, <2>1 DEF Stop, TypeOK, broker
  <1>10. ASSUME NEW p \in Pods, Disconnect(p) PROVE TypeOK'
    <2>1. Len(chain[p]) \in Nat
      BY DEF TypeOK
    <2>2. owner' \in [Partitions -> Pods \cup {NoPod}]
      BY <1>10, ReleaseType DEF Disconnect
    <2>3. owed' \in Nat /\ life' \in [Pods -> {"up", "stopping", "closed", "down"}]
      BY <1>10, <2>1 DEF Disconnect, TypeOK
    <2>4. UNCHANGED <<end, committed, position, chain, returned, awaited, tried, skipped, done,
                      repeats, moves, overtaken, stops>>
      BY <1>10 DEF Disconnect
    <2> QED BY <2>2, <2>3, <2>4 DEF TypeOK
  <1>11. ASSUME NEW p \in Pods, Exit(p) PROVE TypeOK'
    <2>1. Leave(p) /\ owed' \in Nat
      BY <1>11 DEF Exit, TypeOK
    <2> QED BY <2>1, LeaveTypes
  <1>12. ASSUME NEW p \in Pods, Crash(p) PROVE TypeOK'
    <2>1. Leave(p) /\ owed' \in Nat
      BY <1>12 DEF Crash, TypeOK
    <2> QED BY <2>1, LeaveTypes
  <1>13. ASSUME NEW p \in Pods, Restart(p) PROVE TypeOK'
    BY <1>13 DEF Restart, TypeOK, broker, history
  <1>14. CASE UNCHANGED vars
    BY <1>14 DEF vars, broker, pods, history, TypeOK
  <1> QED
    BY <1>1, <1>2, <1>3, <1>4, <1>5, <1>6, <1>7, <1>8, <1>9, <1>10, <1>11, <1>12, <1>13, <1>14
    DEF Next, PodStep

-----------------------------------------------------------------------------
(* The other parts of the invariant                                        *)

Cover == CommitsBehind /\ ChainsCovered /\ OwnersCovered /\ TriedBehind

\* A handler that throws and the end of a commit: the next message's turn.
LEMMA NextCovered ==
  ASSUME TypeOK, ChainsCovered, OwnersCovered, NEW p \in Pods, ~Idle(p), Next1(p),
         First(p) \in Passed', Passed \subseteq Passed', UNCHANGED <<owner, position>>
  PROVE  ChainsCovered' /\ OwnersCovered'
  <1>1. /\ chain[p] \in Seq(Messages) /\ chain[p] # <<>> /\ First(p) = Head(chain[p])
        /\ chain' = [chain EXCEPT ![p] = Tail(chain[p])]
        /\ \A r \in Pods : r # p => chain'[r] = chain[r]
        /\ chain'[p] = Tail(chain[p])
    BY DEF Next1, TypeOK, Idle, First
  <1>2. ASSUME NEW r \in Pods, NEW i \in DOMAIN chain'[r]
        PROVE  Covered(Passed', chain'[r], chain'[r][i][1], chain'[r][i][2], i)
    <2>1. CASE r # p
      <3>1. chain'[r] = chain[r]
        BY <1>1, <2>1
      <3>2. Covered(Passed, chain[r], chain[r][i][1], chain[r][i][2], i)
        BY <1>2, <3>1 DEF ChainsCovered
      <3> QED BY <3>1, <3>2, CoveredStill
    <2>2. CASE r = p
      <3>1. \A k \in DOMAIN Tail(chain[p]) :
               Covered(Passed', Tail(chain[p]), Tail(chain[p])[k][1], Tail(chain[p])[k][2], k)
        BY <1>1, TailCovered DEF ChainsCovered
      <3> QED BY <1>1, <1>2, <2>2, <3>1
    <2> QED BY <2>1, <2>2
  <1>3. ASSUME NEW q \in Partitions, owner[q] # NoPod
        PROVE  Covered(Passed', chain'[owner[q]], q, position[q], Len(chain'[owner[q]]) + 1)
    <2>1. /\ owner[q] \in Pods
          /\ Covered(Passed, chain[owner[q]], q, position[q], Len(chain[owner[q]]) + 1)
      BY <1>3 DEF TypeOK, OwnersCovered
    <2>2. CASE owner[q] # p
      <3>1. chain'[owner[q]] = chain[owner[q]]
        BY <1>1, <2>1, <2>2
      <3> QED BY <2>1, <3>1, CoveredStill
    <2>3. CASE owner[q] = p
      <3>1. Len(chain[p]) \in Nat /\ Len(Tail(chain[p])) + 1 = Len(chain[p])
        BY <1>1, NonEmptySeq
      <3>2. Covered(Passed', Tail(chain[p]), q, position[q], Len(chain[p]))
        BY <1>1, <2>1, <2>3, <3>1, CoveredByTail
      <3> QED BY <1>1, <2>3, <3>1, <3>2
    <2> QED BY <2>2, <2>3
  <1>4. ChainsCovered'
    BY <1>2 DEF ChainsCovered
  <1>5. OwnersCovered'
    BY <1>3 DEF OwnersCovered
  <1> QED BY <1>4, <1>5

\* Nothing of the chains and positions changes, more is tried.
LEMMA StillCovered ==
  ASSUME ChainsCovered, OwnersCovered, Passed \subseteq Passed',
         UNCHANGED <<owner, position, chain>>
  PROVE  ChainsCovered' /\ OwnersCovered'
  <1>1. ChainsCovered'
    BY CoveredStill DEF ChainsCovered
  <1>2. OwnersCovered'
    BY CoveredStill DEF OwnersCovered
  <1> QED BY <1>1, <1>2

\* The message that is tried has all earlier ones of its partition behind it.
LEMMA FirstBehind ==
  ASSUME TypeOK, ChainsCovered, NEW p \in Pods, ~Idle(p)
  PROVE  \A o \in Nat : o < First(p)[2] => <<First(p)[1], o>> \in Passed
  <1>1. chain[p] \in Seq(Messages) /\ chain[p] # <<>>
    BY DEF TypeOK, Idle
  <1>2. 1 \in DOMAIN chain[p] /\ First(p) = chain[p][1] /\ DOMAIN chain[p] \subseteq Nat \ {0}
    BY <1>1, NonEmptySeq DEF First
  <1>3. Covered(Passed, chain[p], First(p)[1], First(p)[2], 1)
    BY <1>2 DEF ChainsCovered
  <1> QED BY <1>2, <1>3 DEF Covered

\* A partition gets a new owner, which starts at the committed offset or, without
\* one, at the end.
LEMMA GiveCovers ==
  ASSUME TypeOK, Cover, ReturnedTried, NEW q \in Partitions, NEW p \in Pods, Give(q, p)
  PROVE  Cover' /\ ReturnedTried'
  <1>1. /\ UNCHANGED <<committed, chain, returned, tried>> /\ Passed \subseteq Passed'
        /\ owner' = [owner EXCEPT ![q] = p] /\ position' = [position EXCEPT ![q] = StartOf(q)]
    BY DEF Give, pods, Passed
  <1>2. \A o \in Nat : o < StartOf(q) => <<q, o>> \in Passed'
    <2>1. CASE committed[q] = NoOffset
      BY <2>1, <1>1 DEF StartOf, Behind, Give, Passed, TypeOK
    <2>2. CASE committed[q] # NoOffset
      BY <2>2, <1>1 DEF StartOf, Cover, CommitsBehind
    <2> QED BY <2>1, <2>2
  <1>3. ASSUME NEW r \in Partitions, owner'[r] # NoPod
        PROVE  Covered(Passed', chain'[owner'[r]], r, position'[r], Len(chain'[owner'[r]]) + 1)
    <2>1. CASE r = q
      <3>1. position'[r] = StartOf(q)
        BY <1>1, <2>1 DEF TypeOK
      <3> QED BY <1>2, <2>1, <3>1 DEF Covered
    <2>2. CASE r # q
      <3>1. owner'[r] = owner[r] /\ position'[r] = position[r] /\ chain' = chain
        BY <1>1, <2>2 DEF TypeOK
      <3>2. Covered(Passed, chain[owner[r]], r, position[r], Len(chain[owner[r]]) + 1)
        BY <1>3, <3>1 DEF Cover, OwnersCovered
      <3> QED BY <1>1, <3>1, <3>2, CoveredStill
    <2> QED BY <2>1, <2>2
  <1>4. OwnersCovered'
    BY <1>3 DEF OwnersCovered
  <1>5. ChainsCovered'
    BY <1>1, CoveredStill DEF Cover, ChainsCovered
  <1>6. CommitsBehind' /\ TriedBehind' /\ ReturnedTried'
    BY <1>1 DEF Cover, CommitsBehind, TriedBehind, ReturnedTried
  <1> QED BY <1>4, <1>5, <1>6 DEF Cover

\* A pod is gone from the group, its chain forgotten or not.
LEMMA ReleaseCovers ==
  ASSUME TypeOK, Cover, NEW p \in Pods, Release(p),
         UNCHANGED <<committed, position, tried, skipped>>,
         \/ chain' = chain
         \/ chain' = [chain EXCEPT ![p] = <<>>]
  PROVE  Cover'
  <1>1. Passed' = Passed /\ \A r \in Pods : r # p => chain'[r] = chain[r]
    BY DEF Passed, TypeOK
  <1>2. chain'[p] = chain[p] \/ DOMAIN chain'[p] = {}
    BY DEF TypeOK
  <1>3. ChainsCovered'
    <2> SUFFICES ASSUME NEW r \in Pods, NEW i \in DOMAIN chain'[r]
                 PROVE  Covered(Passed', chain'[r], chain'[r][i][1], chain'[r][i][2], i)
      BY DEF ChainsCovered
    <2>1. chain'[r] = chain[r]
      BY <1>1, <1>2
    <2> QED BY <1>1, <2>1 DEF Cover, ChainsCovered
  <1>4. OwnersCovered'
    <2> SUFFICES ASSUME NEW q \in Partitions, owner'[q] # NoPod
                 PROVE  Covered(Passed', chain'[owner'[q]], q, position'[q],
                                Len(chain'[owner'[q]]) + 1)
      BY DEF OwnersCovered
    <2>1. owner'[q] = owner[q] /\ owner[q] \in Pods \ {p}
      BY DEF Release, TypeOK
    <2>2. chain'[owner[q]] = chain[owner[q]]
      BY <1>1, <2>1
    <2> QED BY <1>1, <2>1, <2>2 DEF Cover, OwnersCovered
  <1>5. CommitsBehind' /\ TriedBehind'
    BY <1>1 DEF Cover, CommitsBehind, TriedBehind
  <1> QED BY <1>3, <1>4, <1>5 DEF Cover

LEMMA LeaveCovers ==
  ASSUME TypeOK, Cover, ReturnedTried, NEW p \in Pods, Leave(p)
  PROVE  Cover' /\ ReturnedTried'
  <1>1. Cover'
    BY ReleaseCovers DEF Leave
  <1>2. ReturnedTried'
    BY DEF Leave, ReturnedTried, TypeOK
  <1> QED BY <1>1, <1>2

\* A message arrives: what is before it is in the chain before it.
LEMMA ReceiveCovers ==
  ASSUME TypeOK, Cover, ReturnedTried, NEW p \in Pods, NEW q \in Partitions, Receive(p, q)
  PROVE  Cover' /\ ReturnedTried'
  <1>0. PICK s, m : s = chain[p] /\ m = <<q, position[q]>>
    OBVIOUS
  <1>1. /\ s \in Seq(Messages) /\ m \in Messages /\ position[q] \in Nat
        /\ chain'[p] = Append(s, m) /\ \A r \in Pods : r # p => chain'[r] = chain[r]
        /\ owner' = owner /\ owner[q] = p /\ Passed' = Passed
        /\ position' = [position EXCEPT ![q] = position[q] + 1]
    BY <1>0 DEF Receive, TypeOK, Messages, Passed, history
  <1>2. /\ Len(s) \in Nat /\ DOMAIN s = 1 .. Len(s)
        /\ DOMAIN Append(s, m) = 1 .. Len(s) + 1 /\ Len(Append(s, m)) = Len(s) + 1
        /\ Append(s, m)[Len(s) + 1] = m
        /\ \A j \in DOMAIN s : j \in DOMAIN Append(s, m) /\ Append(s, m)[j] = s[j]
        /\ Append(s, m) # <<>> /\ (s # <<>> => Head(Append(s, m)) = Head(s))
    BY <1>1, LongerSeq
  <1>3. Covered(Passed, s, q, position[q], Len(s) + 1)
    <2>1. owner[q] # NoPod
      BY <1>1
    <2> QED BY <1>0, <1>1, <2>1 DEF Cover, OwnersCovered
  <1>4. ASSUME NEW r \in Pods, NEW i \in DOMAIN chain'[r]
        PROVE  Covered(Passed', chain'[r], chain'[r][i][1], chain'[r][i][2], i)
    <2>1. CASE r # p
      <3>1. chain'[r] = chain[r]
        BY <1>1, <2>1
      <3> QED BY <1>1, <1>4, <3>1 DEF Cover, ChainsCovered
    <2>2. CASE r = p /\ i \in 1 .. Len(s)
      <3>1. chain'[p][i] = s[i] /\ Covered(Passed, s, s[i][1], s[i][2], i)
        BY <1>0, <1>1, <1>2, <2>2 DEF Cover, ChainsCovered
      <3>2. Covered(Passed, Append(s, m), s[i][1], s[i][2], i)
        BY <1>1, <3>1, CoveredByLonger
      <3> QED BY <1>1, <2>2, <3>1, <3>2
    <2>3. CASE r = p /\ i = Len(s) + 1
      <3>1. chain'[p][i] = m /\ m[1] = q /\ m[2] = position[q]
        BY <1>0, <1>1, <1>2, <2>3
      <3>2. Covered(Passed, Append(s, m), q, position[q], Len(s) + 1)
        BY <1>1, <1>3, CoveredByLonger
      <3> QED BY <1>1, <2>3, <3>1, <3>2
    <2> QED BY <1>1, <1>2, <1>4, <2>1, <2>2, <2>3
  <1>5. ASSUME NEW r \in Partitions, owner[r] # NoPod
        PROVE  Covered(Passed', chain'[owner[r]], r, position'[r], Len(chain'[owner[r]]) + 1)
    <2>1. /\ owner[r] \in Pods
          /\ Covered(Passed, chain[owner[r]], r, position[r], Len(chain[owner[r]]) + 1)
      BY <1>5 DEF Cover, OwnersCovered, TypeOK
    <2>2. CASE r = q
      <3>1. position'[r] = position[q] + 1 /\ owner[r] = p
        BY <1>1, <2>2 DEF TypeOK
      <3>2. Covered(Passed, Append(s, m), q, position[q] + 1, Len(Append(s, m)) + 1)
        BY <1>0, <1>1, <1>3, LongerCovers
      <3> QED BY <1>1, <2>2, <3>1, <3>2
    <2>3. CASE r # q /\ owner[r] = p
      <3>1. position'[r] = position[r]
        BY <1>1, <2>3 DEF TypeOK
      <3>2. Covered(Passed, s, r, position[r], Len(s) + 1)
        BY <1>0, <2>1, <2>3
      <3>3. Covered(Passed, Append(s, m), r, position[r], Len(Append(s, m)) + 1)
        BY <1>1, <3>2, LongerCovers
      <3> QED BY <1>1, <2>3, <3>1, <3>3
    <2>4. CASE r # q /\ owner[r] # p
      <3>1. position'[r] = position[r] /\ chain'[owner[r]] = chain[owner[r]]
        BY <1>1, <2>1, <2>4 DEF TypeOK
      <3> QED BY <1>1, <2>1, <3>1
    <2> QED BY <2>2, <2>3, <2>4
  <1>6. ChainsCovered'
    BY <1>4 DEF ChainsCovered
  <1>7. OwnersCovered'
    BY <1>1, <1>5 DEF OwnersCovered
  <1>8. CommitsBehind' /\ TriedBehind'
    BY <1>1 DEF Receive, history, Cover, CommitsBehind, TriedBehind
  <1>9. ReturnedTried'
    <2> SUFFICES ASSUME NEW r \in Pods, returned'[r]
                 PROVE  chain'[r] # <<>> /\ Head(chain'[r]) \in tried'
      BY DEF ReturnedTried
    <2>1. returned[r] /\ chain[r] # <<>> /\ Head(chain[r]) \in tried /\ tried' = tried
      BY DEF Receive, history, ReturnedTried
    <2>2. CASE r = p
      <3>1. Append(s, m) # <<>> /\ Head(Append(s, m)) = Head(s)
        BY <1>0, <1>2, <2>1, <2>2
      <3> QED BY <1>0, <1>1, <2>1, <2>2, <3>1
    <2> QED BY <1>1, <2>1, <2>2
  <1> QED BY <1>6, <1>7, <1>8, <1>9 DEF Cover

-----------------------------------------------------------------------------
(* Every step keeps the invariant                                          *)

LEMMA InvInit == Init => IInv
  <1> SUFFICES ASSUME Init PROVE IInv
    OBVIOUS
  <1>1. <<>> \in Seq(Messages)
    OBVIOUS
  <1>0. DOMAIN <<>> = {}
    <2>1. DOMAIN <<>> = 1 .. 0
      BY <1>1, Len(<<>>) = 0
    <2> QED BY <2>1
  <1>2. TypeOK
    <2>1. chain \in [Pods -> Seq(Messages)]
      BY <1>1 DEF Init
    <2>2. {repeats, owed, moves, stops} \subseteq Nat
      BY DEF Init
    <2>3. tried \subseteq Messages /\ skipped \subseteq Messages /\ done \subseteq tried
      BY DEF Init
    <2>4. overtaken \in BOOLEAN
      BY Zenon DEF Init
    <2> QED BY <2>1, <2>2, <2>3, <2>4 DEF Init, TypeOK, NoOffset
  <1>3. CommitsBehind /\ OwnersCovered /\ ReturnedTried /\ TriedBehind
    BY DEF Init, CommitsBehind, OwnersCovered, ReturnedTried, TriedBehind, NoOffset
  <1>4. ChainsCovered
    BY <1>0 DEF Init, ChainsCovered
  <1> QED BY <1>2, <1>3, <1>4 DEF IInv

\* A message is tried: all earlier ones of its partition have been.
LEMMA TriedBehindGrows ==
  ASSUME TypeOK, Cover, NEW p \in Pods, ~Idle(p), tried' = tried \cup {First(p)},
         skipped' = skipped
  PROVE  TriedBehind'
  <1>1. \A o \in Nat : o < First(p)[2] => <<First(p)[1], o>> \in Passed
    BY FirstBehind DEF Cover
  <1> QED BY <1>1 DEF Cover, TriedBehind, Passed

LEMMA CoverStep == TypeOK /\ Cover /\ ReturnedTried /\ [Next]_vars => Cover' /\ ReturnedTried'
  <1> SUFFICES ASSUME TypeOK, Cover, ReturnedTried, [Next]_vars
               PROVE  Cover' /\ ReturnedTried'
    OBVIOUS
  <1>1. ASSUME UNCHANGED <<committed, owner, position, chain, returned, tried, skipped>>
        PROVE  Cover' /\ ReturnedTried'
    BY <1>1 DEF Cover, CommitsBehind, ChainsCovered, OwnersCovered, TriedBehind, ReturnedTried,
                Passed
  <1>2. ASSUME NEW q \in Partitions, Emit(q) PROVE Cover' /\ ReturnedTried'
    BY <1>1, <1>2 DEF Emit, pods, history
  <1>3. ASSUME NEW q \in Partitions, NEW p \in Pods, Assign(q, p) \/ Move(q, p)
        PROVE  Cover' /\ ReturnedTried'
    BY <1>3, GiveCovers DEF Assign, Move
  <1>4. ASSUME NEW q \in Partitions, NEW p \in Pods, Receive(p, q)
        PROVE  Cover' /\ ReturnedTried'
    BY <1>4, ReceiveCovers
  <1>5. ASSUME NEW p \in Pods, HandlerReturns(p) PROVE Cover' /\ ReturnedTried'
    <2>1. /\ ~Idle(p) /\ tried' = tried \cup {First(p)} /\ skipped' = skipped
          /\ UNCHANGED <<committed, owner, position, chain>>
          /\ returned' = [returned EXCEPT ![p] = TRUE]
      BY <1>5 DEF HandlerReturns, broker
    <2>2. ChainsCovered' /\ OwnersCovered'
      BY <2>1, StillCovered DEF Cover, Passed
    <2>3. CommitsBehind' /\ ReturnedTried'
      BY <2>1 DEF Cover, CommitsBehind, ReturnedTried, Passed, Idle, First, TypeOK
    <2> QED BY <2>1, <2>2, <2>3, TriedBehindGrows DEF Cover
  <1>6. ASSUME NEW p \in Pods, HandlerThrows(p) PROVE Cover' /\ ReturnedTried'
    <2>1. /\ ~Idle(p) /\ ~returned[p] /\ tried' = tried \cup {First(p)} /\ skipped' = skipped
          /\ UNCHANGED <<committed, owner, position, returned>> /\ Next1(p)
      BY <1>6 DEF HandlerThrows, broker
    <2>2. ChainsCovered' /\ OwnersCovered'
      BY <2>1, NextCovered DEF Cover, Passed
    <2>3. CommitsBehind' /\ ReturnedTried'
      BY <2>1 DEF Cover, CommitsBehind, ReturnedTried, Passed, Next1, TypeOK
    <2> QED BY <2>1, <2>2, <2>3, TriedBehindGrows DEF Cover
  <1>7. ASSUME NEW p \in Pods, Commit(p) \/ CommitFails(p) PROVE Cover' /\ ReturnedTried'
    <2>1. /\ returned[p] /\ tried' = tried /\ skipped' = skipped
          /\ UNCHANGED <<owner, position>> /\ Next1(p)
          /\ returned' = [returned EXCEPT ![p] = FALSE]
      BY <1>7 DEF Commit, CommitFails, broker, history
    <2>2. ~Idle(p) /\ First(p) \in tried /\ First(p)[1] \in Partitions /\ First(p)[2] \in Nat
      <3>1. ~Idle(p) /\ First(p) \in tried
        BY <2>1 DEF ReturnedTried, Idle, First
      <3> QED BY <3>1, FirstType
    <2>3. ChainsCovered' /\ OwnersCovered'
      BY <2>1, <2>2, NextCovered DEF Cover, Passed
    <2>4. CommitsBehind'
      <3>1. \A o \in Nat : o < First(p)[2] + 1 => <<First(p)[1], o>> \in Passed
        <4>1. First(p) = <<First(p)[1], First(p)[2]>>
          BY <2>2, FirstType DEF Messages
        <4> QED BY <2>2, <4>1, FirstBehind DEF Cover, Passed
      <3>2. \/ committed' = committed
            \/ committed' = [committed EXCEPT ![First(p)[1]] = First(p)[2] + 1]
        BY <1>7 DEF Commit, CommitFails, broker
      <3> HIDE <1>7
      <3> QED BY <2>1, <2>2, <3>1, <3>2 DEF Cover, CommitsBehind, Passed, TypeOK
    <2>5. ReturnedTried'
      BY <2>1 DEF ReturnedTried, Next1, TypeOK
    <2>6. TriedBehind'
      BY <2>1 DEF Cover, TriedBehind, Passed
    <2> QED BY <2>3, <2>4, <2>5, <2>6 DEF Cover
  <1>8. ASSUME NEW p \in Pods, Stop(p) \/ Restart(p) PROVE Cover' /\ ReturnedTried'
    BY <1>1, <1>8 DEF Stop, Restart, broker, history
  <1>9. ASSUME NEW p \in Pods, Disconnect(p) PROVE Cover' /\ ReturnedTried'
    <2>1. Cover'
      BY <1>9, ReleaseCovers DEF Disconnect
    <2> QED BY <1>9, <2>1 DEF Disconnect, ReturnedTried
  <1>10. ASSUME NEW p \in Pods, Exit(p) \/ Crash(p) PROVE Cover' /\ ReturnedTried'
    BY <1>10, LeaveCovers DEF Exit, Crash
  <1>11. CASE UNCHANGED vars
    BY <1>1, <1>11 DEF vars, broker, pods, history
  <1>12. CASE \E q \in Partitions : Emit(q)
    BY <1>2, <1>12
  <1>13. CASE \E q \in Partitions, p \in Pods : Assign(q, p) \/ Move(q, p) \/ Receive(p, q)
    BY <1>3, <1>4, <1>13
  <1>14. CASE \E p \in Pods : PodStep(p) \/ Stop(p) \/ Crash(p)
    BY <1>5, <1>6, <1>7, <1>8, <1>9, <1>10, <1>14 DEF PodStep
  <1> QED BY <1>11, <1>12, <1>13, <1>14 DEF Next

LEMMA InvStep == IInv /\ [Next]_vars => IInv'
  BY TypeStep, CoverStep DEF IInv, Cover

LEMMA Invariance == Spec => []IInv
  BY InvInit, InvStep, PTL DEF Spec

-----------------------------------------------------------------------------
(* Theorems                                                                *)

\* Types.
THEOREM TypeCorrect == Spec => []TypeOK
  <1>1. IInv => TypeOK
    BY DEF IInv
  <1> QED BY <1>1, Invariance, PTL

\* No offset is committed beyond a message that no handler has been given,
\* however partitions move and pods crash, stop and commit late.
THEOREM CommitsAreSafe == Spec => []CommittedWereTried
  <1>1. IInv => CommittedWereTried
    <2> SUFFICES ASSUME IInv, NEW q \in Partitions, NEW o \in 0 .. committed[q] - 1
                 PROVE  <<q, o>> \in Passed
      BY DEF CommittedWereTried
    <2>1. committed[q] \in Int
      BY DEF IInv, TypeOK, NoOffset
    <2>2. o \in Nat /\ o < committed[q]
      BY <2>1
    <2> QED BY <2>2 DEF IInv, CommitsBehind
  <1> QED BY <1>1, Invariance, PTL

\* Handlers are given the messages of a partition in their order.
THEOREM OrderIsKept == Spec => []TriedInOrder
  <1>1. IInv => TriedInOrder
    <2> SUFFICES ASSUME IInv, NEW m \in tried, NEW o \in 0 .. m[2] - 1
                 PROVE  <<m[1], o>> \in Passed
      BY DEF TriedInOrder
    <2>1. m[2] \in Nat
      BY DEF IInv, TypeOK, Messages
    <2>2. o \in Nat /\ o < m[2]
      BY <2>1
    <2> QED BY <2>2 DEF IInv, TriedBehind
  <1> QED BY <1>1, Invariance, PTL

-----------------------------------------------------------------------------
(* Repeats are paid for. As long as no partition was taken from a pod that *)
(* had messages of it, chains are in order and apart, and every handling   *)
(* that may have to be done again has been paid for in advance.            *)

InGroup(p) == life[p] \in {"up", "stopping"}

\* The offsets of a partition increase along the chain s.
Increasing(s) ==
    \A i, j \in DOMAIN s : j < i /\ s[j][1] = s[i][1] => s[j][2] < s[i][2]

\* What a pod of the group has in its chain is of a partition it owns, received
\* and not committed.
OwnChain(p) ==
    \A i \in DOMAIN chain[p] :
        /\ owner[chain[p][i][1]] = p
        /\ committed[chain[p][i][1]] <= chain[p][i][2]
        /\ chain[p][i][2] < position[chain[p][i][1]]

ChainsInOrder == \A p \in Pods : InGroup(p) => OwnChain(p) /\ Increasing(chain[p])

\* The owner of a partition is in the group, and the partition is committed up
\* to where it receives at most.
OwnersInGroup == \A q \in Partitions : owner[q] # NoPod => InGroup(owner[q])

OwnersInOrder ==
    \A q \in Partitions : owner[q] # NoPod => InGroup(owner[q]) /\ committed[q] <= position[q]

ReturnedDone == \A p \in Pods : returned[p] => First(p) \in done

DownIdle == \A p \in Pods : life[p] = "down" => Idle(p)

\* A pod of the group is about to commit m.
Committing(m) == \E p \in Pods : InGroup(p) /\ returned[p] /\ First(p) = m

\* The messages that were handled and will be received again if their partition
\* gets a new owner. The ones whose commit is under way are not among them.
Open == {m \in done : committed[m[1]] <= m[2] /\ ~Committing(m)}

\* The handlers still to return in pods that left the group.
Left(p) == IF returned[p] THEN Len(chain[p]) - 1 ELSE Len(chain[p])
Unwatched == {u \in Pods \X Nat : life[u[1]] = "closed" /\ 1 <= u[2] /\ u[2] <= Left(u[1])}

Paid ==
    /\ IsFiniteSet(Open) /\ IsFiniteSet(Unwatched)
    /\ repeats + Cardinality(Open) + Cardinality(Unwatched) <= owed

RepeatInv ==
    /\ ReturnedDone /\ DownIdle /\ OwnersInGroup
    /\ (~overtaken => ChainsInOrder /\ OwnersInOrder /\ Paid)

-----------------------------------------------------------------------------
(* Chains in order                                                         *)

\* The chain behind its first message.
LEMMA IncreasingTail ==
  ASSUME NEW s \in Seq(Messages), s # <<>>, Increasing(s)
  PROVE  /\ Increasing(Tail(s))
         /\ \A i \in DOMAIN Tail(s) :
               \E j \in DOMAIN s : /\ Tail(s)[i] = s[j]
                                   /\ s[j][1] = s[1][1] => s[1][2] < s[j][2]
  <1>1. /\ Len(s) \in Nat \ {0} /\ 1 \in DOMAIN s /\ DOMAIN s = 1 .. Len(s)
        /\ DOMAIN Tail(s) = 1 .. Len(s) - 1
        /\ \A i \in 1 .. Len(s) - 1 : Tail(s)[i] = s[i + 1]
    BY NonEmptySeq
  <1>2. ASSUME NEW i \in DOMAIN Tail(s)
        PROVE  /\ i \in Nat /\ i + 1 \in DOMAIN s /\ 1 < i + 1 /\ Tail(s)[i] = s[i + 1]
               /\ s[i + 1][1] = s[1][1] => s[1][2] < s[i + 1][2]
    <2>1. i \in Nat /\ i + 1 \in DOMAIN s /\ 1 < i + 1 /\ Tail(s)[i] = s[i + 1]
      BY <1>1, <1>2
    <2> QED BY <1>1, <2>1 DEF Increasing
  <1>3. Increasing(Tail(s))
    <2> SUFFICES ASSUME NEW i \in DOMAIN Tail(s), NEW j \in DOMAIN Tail(s),
                        j < i, Tail(s)[j][1] = Tail(s)[i][1]
                 PROVE  Tail(s)[j][2] < Tail(s)[i][2]
      BY DEF Increasing
    <2>1. j + 1 < i + 1 /\ s[j + 1][1] = s[i + 1][1]
      BY <1>2
    <2> QED BY <1>2, <2>1 DEF Increasing
  <1> QED BY <1>2, <1>3

\* A later message is appended.
LEMMA IncreasingLonger ==
  ASSUME NEW s \in Seq(Messages), NEW m \in Messages, Increasing(s),
         \A i \in DOMAIN s : s[i][1] = m[1] => s[i][2] < m[2]
  PROVE  Increasing(Append(s, m))
  <1>1. /\ Len(s) \in Nat /\ DOMAIN s = 1 .. Len(s)
        /\ DOMAIN Append(s, m) = 1 .. Len(s) + 1
        /\ Append(s, m)[Len(s) + 1] = m
        /\ \A j \in DOMAIN s : Append(s, m)[j] = s[j]
    BY LongerSeq
  <1> SUFFICES ASSUME NEW i \in DOMAIN Append(s, m), NEW j \in DOMAIN Append(s, m),
                      j < i, Append(s, m)[j][1] = Append(s, m)[i][1]
               PROVE  Append(s, m)[j][2] < Append(s, m)[i][2]
    BY DEF Increasing
  <1>2. j \in DOMAIN s /\ Append(s, m)[j] = s[j]
    BY <1>1
  <1>3. CASE i \in DOMAIN s
    BY <1>1, <1>2, <1>3 DEF Increasing
  <1>4. CASE i = Len(s) + 1
    BY <1>1, <1>2, <1>4
  <1> QED BY <1>1, <1>3, <1>4

\* The order does not look at anything but these.
LEMMA OrderStill ==
  ASSUME UNCHANGED <<committed, owner, position, chain, life>>, ChainsInOrder, OwnersInOrder
  PROVE  ChainsInOrder' /\ OwnersInOrder'
  BY DEF ChainsInOrder, OwnersInOrder, OwnChain, Increasing, InGroup

\* A pod that is not in the group does what it does alone; one that is goes on
\* to its next message, after a commit or without.
LEMMA OrderNext ==
  ASSUME TypeOK, ChainsInOrder, OwnersInOrder, NEW p \in Pods, ~Idle(p), Next1(p),
         UNCHANGED <<owner, position, life>>,
         \/ committed' = committed
         \/ InGroup(p) /\ committed' = [committed EXCEPT ![First(p)[1]] = First(p)[2] + 1]
  PROVE  ChainsInOrder' /\ OwnersInOrder'
  <1>0. PICK m : m = First(p)
    OBVIOUS
  <1>1. /\ chain[p] \in Seq(Messages) /\ chain[p] # <<>>
        /\ m \in Messages /\ m[1] \in Partitions /\ m[2] \in Nat
        /\ chain'[p] = Tail(chain[p]) /\ \A r \in Pods : r # p => chain'[r] = chain[r]
    BY <1>0, FirstType DEF Idle, Next1, TypeOK
  <1>2. 1 \in DOMAIN chain[p] /\ chain[p][1] = m
    BY <1>0, <1>1, NonEmptySeq DEF First
  <1>3. ASSUME InGroup(p)
        PROVE owner[m[1]] = p /\ committed[m[1]] <= m[2] /\ m[2] < position[m[1]]
    BY <1>2, <1>3 DEF ChainsInOrder, OwnChain
  <1>4. \A q \in Partitions :
          /\ committed[q] \in Int /\ position[q] \in Nat /\ committed'[q] \in Int
          /\ committed'[q] # committed[q] =>
                InGroup(p) /\ q = m[1] /\ committed'[q] = m[2] + 1
    <2>1. /\ committed \in [Partitions -> Nat \cup {NoOffset}] /\ m[2] + 1 \in Nat
      BY <1>1 DEF TypeOK
    <2>3. \/ committed' = committed
          \/ InGroup(p) /\ committed' = [committed EXCEPT ![m[1]] = m[2] + 1]
      BY <1>0
    <2>2. position \in [Partitions -> Nat] /\ NoOffset \in Int
      BY DEF TypeOK, NoOffset
    <2> QED BY <1>1, <2>1, <2>2, <2>3
  <1>5. OwnersInOrder'
    BY <1>1, <1>3, <1>4 DEF OwnersInOrder, InGroup
  <1>6. ASSUME NEW r \in Pods, InGroup(r) PROVE OwnChain(r)' /\ Increasing(chain'[r])
    <2>1. OwnChain(r) /\ Increasing(chain[r])
      BY <1>6 DEF ChainsInOrder
    <2>2. CASE r = p
      <3>1. /\ Increasing(Tail(chain[p]))
            /\ \A i \in DOMAIN Tail(chain[p]) :
                  \E j \in DOMAIN chain[p] :
                      /\ Tail(chain[p])[i] = chain[p][j]
                      /\ chain[p][j][1] = chain[p][1][1] => chain[p][1][2] < chain[p][j][2]
        BY <1>1, <2>1, <2>2, IncreasingTail
      <3>2. ASSUME NEW i \in DOMAIN Tail(chain[p])
            PROVE  /\ owner[Tail(chain[p])[i][1]] = p
                   /\ committed'[Tail(chain[p])[i][1]] <= Tail(chain[p])[i][2]
                   /\ Tail(chain[p])[i][2] < position[Tail(chain[p])[i][1]]
        <4>1. PICK j \in DOMAIN chain[p] :
                  /\ Tail(chain[p])[i] = chain[p][j]
                  /\ chain[p][j][1] = m[1] => m[2] < chain[p][j][2]
          BY <1>2, <3>1
        <4>2. PICK n : n = chain[p][j]
          OBVIOUS
        <4>3. n \in Messages /\ n[1] \in Partitions /\ n[2] \in Nat
          <5>1. n \in Messages
            BY <1>1, <4>2
          <5> QED BY <5>1 DEF Messages
        <4>4. /\ owner[n[1]] = p /\ committed[n[1]] <= n[2] /\ n[2] < position[n[1]]
              /\ n[1] = m[1] => m[2] < n[2]
          BY <2>1, <2>2, <4>1, <4>2 DEF OwnChain
        <4>5. committed'[n[1]] <= n[2]
          BY <1>1, <1>4, <4>3, <4>4
        <4> QED BY <4>1, <4>2, <4>4, <4>5
      <3> QED BY <1>1, <2>2, <3>1, <3>2 DEF OwnChain
    <2>3. CASE r # p
      <3>1. ASSUME NEW i \in DOMAIN chain[r]
            PROVE  committed'[chain[r][i][1]] <= chain[r][i][2]
        <4>1. PICK n : n = chain[r][i]
          OBVIOUS
        <4>2. n[1] \in Partitions /\ owner[n[1]] = r /\ committed[n[1]] <= n[2]
          <5>1. chain[r] \in Seq(Messages)
            BY DEF TypeOK
          <5>2. n \in Messages
            BY <4>1, <5>1
          <5> QED BY <2>1, <4>1, <5>2 DEF OwnChain, Messages
        <4>3. committed'[n[1]] = committed[n[1]]
          BY <1>3, <1>4, <2>3, <4>2
        <4> QED BY <4>1, <4>2, <4>3
      <3>2. chain'[r] = chain[r]
        BY <1>1, <2>3
      <3> QED BY <2>1, <3>1, <3>2 DEF OwnChain
    <2> QED BY <2>2, <2>3
  <1>7. ChainsInOrder'
    BY <1>6 DEF ChainsInOrder, InGroup
  <1> QED BY <1>5, <1>7

\* A partition gets a new owner, and nobody has messages of it.
LEMMA OrderGive ==
  ASSUME TypeOK, ChainsInOrder, OwnersInOrder, NEW q \in Partitions, NEW p \in Pods,
         Assign(q, p) \/ Move(q, p), ~overtaken'
  PROVE  ChainsInOrder' /\ OwnersInOrder'
  <1>1. /\ InGroup(p) /\ UNCHANGED <<committed, chain, life>>
        /\ owner' = [owner EXCEPT ![q] = p] /\ position' = [position EXCEPT ![q] = StartOf(q)]
    BY DEF Assign, Move, Give, pods, InGroup
  <1>2. ASSUME NEW r \in Pods, InGroup(r), NEW i \in DOMAIN chain[r] PROVE chain[r][i][1] # q
    <2>1. owner[chain[r][i][1]] = r
      BY <1>2 DEF ChainsInOrder, OwnChain
    <2>2. CASE Assign(q, p)
      BY <2>1, <2>2 DEF Assign
    <2>3. CASE Move(q, p)
      BY <1>2, <2>1, <2>3 DEF Move
    <2> QED BY <2>2, <2>3
  <1>3. committed[q] <= StartOf(q)
    BY DEF StartOf, TypeOK, NoOffset
  <1>4. OwnersInOrder'
    <2> SUFFICES ASSUME NEW r \in Partitions, owner'[r] # NoPod
                 PROVE  life'[owner'[r]] \in {"up", "stopping"} /\ committed'[r] <= position'[r]
      BY DEF OwnersInOrder, InGroup
    <2>1. CASE r = q
      BY <1>1, <1>3, <2>1 DEF InGroup, TypeOK
    <2>2. CASE r # q
      BY <1>1, <2>2 DEF InGroup, TypeOK, OwnersInOrder
    <2> QED BY <2>1, <2>2
  <1>5. ChainsInOrder'
    <2> SUFFICES ASSUME NEW r \in Pods, InGroup(r) PROVE OwnChain(r)' /\ Increasing(chain[r])
      BY <1>1 DEF ChainsInOrder, InGroup
    <2>1. OwnChain(r) /\ Increasing(chain[r])
      BY DEF ChainsInOrder
    <2>2. ASSUME NEW i \in DOMAIN chain[r]
          PROVE  /\ owner'[chain[r][i][1]] = owner[chain[r][i][1]]
                 /\ position'[chain[r][i][1]] = position[chain[r][i][1]]
      BY <1>1, <1>2, <2>2 DEF TypeOK
    <2> QED BY <1>1, <2>1, <2>2 DEF OwnChain
  <1> QED BY <1>4, <1>5

\* A message is received behind what the pod has of the partition.
LEMMA OrderReceive ==
  ASSUME TypeOK, ChainsInOrder, OwnersInOrder, NEW p \in Pods, NEW q \in Partitions, Receive(p, q)
  PROVE  InGroup(p) /\ ChainsInOrder' /\ OwnersInOrder'
  <1>0. PICK s, m : s = chain[p] /\ m = <<q, position[q]>>
    OBVIOUS
  <1>1. /\ s \in Seq(Messages) /\ m \in Messages /\ position[q] \in Nat
        /\ m[1] = q /\ m[2] = position[q]
        /\ chain'[p] = Append(s, m) /\ \A r \in Pods : r # p => chain'[r] = chain[r]
        /\ position' = [position EXCEPT ![q] = position[q] + 1]
        /\ owner[q] = p /\ UNCHANGED <<owner, committed, life>>
    BY <1>0 DEF Receive, TypeOK, Messages
  <1>2. InGroup(p) /\ committed[q] <= position[q]
    BY <1>1 DEF OwnersInOrder
  <1>3. \A r \in Partitions :
           /\ committed[r] \in Int /\ position[r] \in Nat /\ position'[r] \in Nat
           /\ position[r] <= position'[r] /\ (r = q => position'[r] = position[r] + 1)
    <2>1. committed \in [Partitions -> Nat \cup {NoOffset}] /\ position \in [Partitions -> Nat]
      BY DEF TypeOK
    <2> QED BY <1>1, <2>1 DEF NoOffset
  <1>4. OwnersInOrder'
    <2> SUFFICES ASSUME NEW r \in Partitions, owner[r] # NoPod
                 PROVE  InGroup(owner[r]) /\ committed[r] <= position'[r]
      BY <1>1 DEF OwnersInOrder, InGroup
    <2> QED BY <1>3 DEF OwnersInOrder
  <1>5. ASSUME NEW r \in Pods, InGroup(r), NEW i \in DOMAIN chain[r]
        PROVE  /\ chain[r][i][1] \in Partitions /\ chain[r][i][2] \in Nat
               /\ owner[chain[r][i][1]] = r
               /\ committed[chain[r][i][1]] <= chain[r][i][2]
               /\ chain[r][i][2] < position[chain[r][i][1]]
    <2>1. chain[r] \in Seq(Messages)
      BY DEF TypeOK
    <2>2. chain[r][i] \in Messages
      BY <1>5, <2>1
    <2> QED BY <1>5, <2>2 DEF ChainsInOrder, OwnChain, Messages
  <1>6. ASSUME NEW r \in Pods, InGroup(r) PROVE OwnChain(r)' /\ Increasing(chain'[r])
    <2>1. CASE r # p
      <3>1. ASSUME NEW i \in DOMAIN chain[r]
            PROVE  chain[r][i][2] < position'[chain[r][i][1]]
        <4>1. PICK n : n = chain[r][i]
          OBVIOUS
        <4>2. n[1] \in Partitions /\ n[2] \in Nat /\ n[2] < position[n[1]]
          BY <1>5, <1>6, <4>1
        <4>3. n[2] < position'[n[1]]
          BY <1>3, <4>2
        <4> QED BY <4>1, <4>3
      <3>2. chain'[r] = chain[r]
        BY <1>1, <2>1
      <3> QED BY <1>1, <1>5, <1>6, <3>1, <3>2 DEF OwnChain, ChainsInOrder
    <2>2. CASE r = p
      <3>1. /\ Len(s) \in Nat /\ DOMAIN s = 1 .. Len(s)
            /\ DOMAIN Append(s, m) = 1 .. Len(s) + 1
            /\ Append(s, m)[Len(s) + 1] = m
            /\ \A j \in DOMAIN s : Append(s, m)[j] = s[j]
        BY <1>1, LongerSeq
      <3>2. Increasing(Append(s, m))
        <4>1. Increasing(s)
          BY <1>0, <1>6, <2>2 DEF ChainsInOrder
        <4>2. \A i \in DOMAIN s : s[i][1] = m[1] => s[i][2] < m[2]
          BY <1>0, <1>1, <1>2, <1>5
        <4> QED BY <1>1, <4>1, <4>2, IncreasingLonger
      <3>3. ASSUME NEW i \in DOMAIN Append(s, m)
            PROVE  /\ owner[Append(s, m)[i][1]] = p
                   /\ committed[Append(s, m)[i][1]] <= Append(s, m)[i][2]
                   /\ Append(s, m)[i][2] < position'[Append(s, m)[i][1]]
        <4>1. PICK n : n = Append(s, m)[i]
          OBVIOUS
        <4>2. CASE i \in DOMAIN s
          <5>1. /\ n[1] \in Partitions /\ n[2] \in Nat /\ owner[n[1]] = p
                /\ committed[n[1]] <= n[2] /\ n[2] < position[n[1]]
            BY <1>0, <1>2, <1>5, <3>1, <4>1, <4>2
          <5>2. n[2] < position'[n[1]]
            BY <1>3, <5>1
          <5> QED BY <4>1, <5>1, <5>2
        <4>3. CASE i = Len(s) + 1
          <5>1. n = m
            BY <3>1, <4>1, <4>3
          <5>2. owner[n[1]] = p /\ committed[n[1]] <= n[2] /\ n[2] < position'[n[1]]
            BY <1>1, <1>2, <1>3, <5>1
          <5> QED BY <4>1, <5>2
        <4> QED BY <3>1, <3>3, <4>2, <4>3
      <3> QED BY <1>1, <2>2, <3>2, <3>3 DEF OwnChain
    <2> QED BY <2>1, <2>2
  <1>7. ChainsInOrder'
    BY <1>1, <1>6 DEF ChainsInOrder, InGroup
  <1> QED BY <1>2, <1>4, <1>7

\* A pod leaves the group and gives back what it owns.
LEMMA OrderRelease ==
  ASSUME TypeOK, ChainsInOrder, OwnersInOrder, NEW p \in Pods, Release(p),
         life'[p] \in {"closed", "down"}, UNCHANGED <<committed, position>>,
         \A r \in Pods : r # p => life'[r] = life[r] /\ chain'[r] = chain[r]
  PROVE  ChainsInOrder' /\ OwnersInOrder'
  <1>1. \A q \in Partitions : owner'[q] = IF owner[q] = p THEN NoPod ELSE owner[q]
    BY DEF Release, TypeOK
  <1>2. OwnersInOrder'
    <2> SUFFICES ASSUME NEW q \in Partitions, owner'[q] # NoPod
                 PROVE  life'[owner'[q]] \in {"up", "stopping"} /\ committed[q] <= position[q]
      BY DEF OwnersInOrder, InGroup
    <2>1. owner'[q] = owner[q] /\ owner[q] \in Pods \ {p}
      BY <1>1 DEF TypeOK
    <2> QED BY <2>1 DEF OwnersInOrder, InGroup
  <1>3. ChainsInOrder'
    <2> SUFFICES ASSUME NEW r \in Pods, InGroup(r)' PROVE OwnChain(r)' /\ Increasing(chain'[r])
      BY DEF ChainsInOrder
    <2>1. r # p /\ chain'[r] = chain[r] /\ InGroup(r)
      BY DEF InGroup
    <2>2. OwnChain(r) /\ Increasing(chain[r])
      BY <2>1 DEF ChainsInOrder
    <2>3. ASSUME NEW i \in DOMAIN chain[r] PROVE owner'[chain[r][i][1]] = r
      <3>1. chain[r] \in Seq(Messages)
        BY DEF TypeOK
      <3>2. chain[r][i] \in Messages
        BY <2>3, <3>1
      <3>3. chain[r][i][1] \in Partitions /\ owner[chain[r][i][1]] = r
        BY <2>2, <3>2 DEF OwnChain, Messages
      <3> QED BY <1>1, <2>1, <3>3
    <2> QED BY <2>1, <2>2, <2>3 DEF OwnChain
  <1> QED BY <1>2, <1>3

\* A pod with nothing in its chain comes back.
LEMMA OrderRestart ==
  ASSUME TypeOK, ChainsInOrder, OwnersInOrder, NEW p \in Pods, Idle(p),
         UNCHANGED <<committed, position, owner, chain>>,
         life' = [life EXCEPT ![p] = "up"]
  PROVE  ChainsInOrder' /\ OwnersInOrder'
  <1>1. DOMAIN chain[p] = {}
    <2>1. chain[p] \in Seq(Messages) /\ Len(chain[p]) = 0
      BY DEF Idle, TypeOK
    <2> QED BY <2>1
  <1>2. \A r \in Pods : InGroup(r) => InGroup(r)'
    BY DEF InGroup, TypeOK
  <1>3. \A r \in Pods : InGroup(r)' => r = p \/ InGroup(r)
    BY DEF InGroup, TypeOK
  <1>4. OwnersInOrder'
    BY <1>2 DEF OwnersInOrder, TypeOK
  <1>5. ChainsInOrder'
    BY <1>1, <1>3 DEF ChainsInOrder, OwnChain, Increasing
  <1> QED BY <1>4, <1>5

-----------------------------------------------------------------------------
(* What is paid for                                                        *)

\* Cardinalities of sets that lose elements, gain one, lose one, gain n.
LEMMA FewerElements ==
  ASSUME NEW S, IsFiniteSet(S), NEW T, T \subseteq S
  PROVE  /\ IsFiniteSet(T) /\ Cardinality(S) \in Nat /\ Cardinality(T) \in Nat
         /\ Cardinality(T) <= Cardinality(S)
  BY FS_Subset, FS_CardinalityType

LEMMA OneMoreElement ==
  ASSUME NEW S, IsFiniteSet(S), NEW x, NEW T, T \subseteq S \cup {x}
  PROVE  /\ IsFiniteSet(T) /\ Cardinality(S) \in Nat /\ Cardinality(T) \in Nat
         /\ Cardinality(T) <= Cardinality(S) + 1
  <1>1. /\ IsFiniteSet(S \cup {x}) /\ Cardinality(S) \in Nat
        /\ Cardinality(S \cup {x}) <= Cardinality(S) + 1
    BY FS_AddElement, FS_CardinalityType
  <1>2. PICK U : U = S \cup {x}
    OBVIOUS
  <1>3. IsFiniteSet(T) /\ Cardinality(T) \in Nat /\ Cardinality(T) <= Cardinality(U)
        /\ Cardinality(U) \in Nat
    BY <1>1, <1>2, FewerElements
  <1> QED BY <1>1, <1>2, <1>3

LEMMA OneElementLess ==
  ASSUME NEW S, IsFiniteSet(S), NEW x \in S, NEW T, T \subseteq S \ {x}
  PROVE  /\ IsFiniteSet(T) /\ Cardinality(S) \in Nat /\ Cardinality(T) \in Nat
         /\ Cardinality(T) + 1 <= Cardinality(S)
  <1>1. /\ IsFiniteSet(S \ {x}) /\ Cardinality(S) \in Nat
        /\ Cardinality(S \ {x}) = Cardinality(S) - 1
    BY FS_RemoveElement, FS_CardinalityType
  <1>2. PICK U : U = S \ {x}
    OBVIOUS
  <1>3. IsFiniteSet(T) /\ Cardinality(T) \in Nat /\ Cardinality(T) <= Cardinality(U)
        /\ Cardinality(U) \in Nat
    BY <1>1, <1>2, FewerElements
  <1> QED BY <1>1, <1>2, <1>3

LEMMA SomeMoreElements ==
  ASSUME NEW S, IsFiniteSet(S), NEW p, NEW n \in Nat, NEW T, T \subseteq S \cup ({p} \X (1 .. n))
  PROVE  /\ IsFiniteSet(T) /\ Cardinality(S) \in Nat /\ Cardinality(T) \in Nat
         /\ Cardinality(T) <= Cardinality(S) + n
  <1>1. IsFiniteSet(1 .. n) /\ Cardinality(1 .. n) = n
    <2>1. 1 \in Int /\ n \in Int
      OBVIOUS
    <2>2. IsFiniteSet(1 .. n) /\ Cardinality(1 .. n) = IF 1 > n THEN 0 ELSE n - 1 + 1
      BY <2>1, FS_Interval
    <2> QED BY <2>2
  <1>2. PICK N, U, f : N = 1 .. n /\ U = {p} \X (1 .. n) /\ f = [k \in 1 .. n |-> <<p, k>>]
    OBVIOUS
  <1>3. f \in Surjection(N, U)
    <2>1. f \in [N -> U]
      BY <1>2
    <2>2. ASSUME NEW u \in U PROVE \E k \in N : f[k] = u
      <3>1. PICK k \in 1 .. n : u = <<p, k>>
        BY <1>2
      <3> QED BY <1>2, <3>1
    <2> QED BY <2>1, <2>2 DEF Surjection
  <1>4. IsFiniteSet(U) /\ Cardinality(U) <= n /\ Cardinality(U) \in Nat
    <2>1. IsFiniteSet(U) /\ Cardinality(U) <= Cardinality(N)
      BY <1>1, <1>2, <1>3, FS_Surjection
    <2> QED BY <1>1, <1>2, <2>1, FS_CardinalityType
  <1>5. PICK V : V = S \cup U
    OBVIOUS
  <1>6. IsFiniteSet(V) /\ Cardinality(V) \in Nat /\ Cardinality(S) \in Nat
        /\ Cardinality(V) <= Cardinality(S) + Cardinality(U)
    <2>1. /\ IsFiniteSet(V)
          /\ Cardinality(V) = Cardinality(S) + Cardinality(U) - Cardinality(S \cap U)
      BY <1>4, <1>5, FS_Union
    <2>2. IsFiniteSet(S \cap U)
      BY FewerElements
    <2> QED BY <2>1, <2>2, <1>4, FS_CardinalityType
  <1>7. IsFiniteSet(T) /\ Cardinality(T) \in Nat /\ Cardinality(T) <= Cardinality(V)
    BY <1>2, <1>5, <1>6, FewerElements
  <1> QED BY <1>4, <1>6, <1>7

\* Handlers still to return are counted by a natural number.
LEMMA LeftType ==
  ASSUME TypeOK, ReturnedTried, NEW p \in Pods
  PROVE  /\ Left(p) \in Nat /\ Len(chain[p]) \in Nat
         /\ returned[p] => Len(chain[p]) = Left(p) + 1
         /\ ~returned[p] => Len(chain[p]) = Left(p)
  <1>1. chain[p] \in Seq(Messages) /\ Len(chain[p]) \in Nat
    BY DEF TypeOK
  <1>2. returned[p] => Len(chain[p]) # 0
    BY <1>1 DEF ReturnedTried
  <1> QED BY <1>1, <1>2 DEF Left

\* Nothing new has to be paid for.
LEMMA PaidStill ==
  ASSUME TypeOK, Paid, Open' \subseteq Open, Unwatched' \subseteq Unwatched,
         repeats' = repeats, owed' \in Nat, owed <= owed'
  PROVE  Paid'
  <1>1. /\ IsFiniteSet(Open') /\ Cardinality(Open) \in Nat /\ Cardinality(Open') \in Nat
        /\ Cardinality(Open') <= Cardinality(Open)
    BY FewerElements DEF Paid
  <1>2. /\ IsFiniteSet(Unwatched') /\ Cardinality(Unwatched) \in Nat
        /\ Cardinality(Unwatched') \in Nat
        /\ Cardinality(Unwatched') <= Cardinality(Unwatched)
    BY FewerElements DEF Paid
  <1>3. repeats + Cardinality(Open) + Cardinality(Unwatched) <= owed
    BY DEF Paid
  <1>4. repeats' + Cardinality(Open') + Cardinality(Unwatched') <= owed'
    BY <1>1, <1>2, <1>3 DEF TypeOK
  <1> QED BY <1>1, <1>2, <1>4 DEF Paid

\* One message is left open by a crash or a lost commit, which pays for it.
LEMMA PaidByFault ==
  ASSUME TypeOK, Paid, NEW m, Open' \subseteq Open \cup {m}, Unwatched' \subseteq Unwatched,
         repeats' = repeats, owed' = owed + 1
  PROVE  Paid'
  <1>1. /\ IsFiniteSet(Open') /\ Cardinality(Open) \in Nat /\ Cardinality(Open') \in Nat
        /\ Cardinality(Open') <= Cardinality(Open) + 1
    BY OneMoreElement DEF Paid
  <1>2. /\ IsFiniteSet(Unwatched') /\ Cardinality(Unwatched) \in Nat
        /\ Cardinality(Unwatched') \in Nat
        /\ Cardinality(Unwatched') <= Cardinality(Unwatched)
    BY FewerElements DEF Paid
  <1>3. repeats + Cardinality(Open) + Cardinality(Unwatched) <= owed
    BY DEF Paid
  <1>4. repeats' + Cardinality(Open') + Cardinality(Unwatched') <= owed'
    BY <1>1, <1>2, <1>3 DEF TypeOK
  <1> QED BY <1>1, <1>2, <1>4 DEF Paid

LEMMA SumsOfNaturals ==
  ASSUME NEW r \in Nat, NEW w \in Nat, NEW l \in Nat, NEW k \in Nat, NEW n \in Nat, n = l + k,
         NEW a \in Nat, NEW b \in Nat, NEW c \in Nat, NEW d \in Nat,
         c <= a + k, d <= b + l, r + a + b <= w
  PROVE  r + c + d <= w + n
  OBVIOUS

\* The rest of a chain that nobody waits for is paid for when its pod leaves.
LEMMA PaidByStop ==
  ASSUME TypeOK, Paid, ReturnedTried, NEW p \in Pods,
         Open' \subseteq IF returned[p] THEN Open \cup {First(p)} ELSE Open,
         Unwatched' \subseteq Unwatched \cup ({p} \X (1 .. Left(p))),
         repeats' = repeats, owed' = owed + Len(chain[p])
  PROVE  Paid'
  <1>1. /\ Left(p) \in Nat
        /\ Len(chain[p]) = IF returned[p] THEN Left(p) + 1 ELSE Left(p)
    BY LeftType
  <1>2. /\ IsFiniteSet(Open') /\ Cardinality(Open) \in Nat /\ Cardinality(Open') \in Nat
        /\ Cardinality(Open') <= Cardinality(Open) + IF returned[p] THEN 1 ELSE 0
    <2>1. CASE returned[p]
      BY <2>1, OneMoreElement DEF Paid
    <2>2. CASE ~returned[p]
      BY <2>2, FewerElements DEF Paid
    <2> QED BY <2>1, <2>2
  <1>3. /\ IsFiniteSet(Unwatched') /\ Cardinality(Unwatched) \in Nat
        /\ Cardinality(Unwatched') \in Nat
        /\ Cardinality(Unwatched') <= Cardinality(Unwatched) + Left(p)
    <2>1. PICK n \in Nat : n = Left(p)
      BY <1>1
    <2> QED BY <2>1, SomeMoreElements DEF Paid
  <1>4. repeats + Cardinality(Open) + Cardinality(Unwatched) <= owed
    BY DEF Paid
  <1>5. repeats' + Cardinality(Open') + Cardinality(Unwatched') <= owed'
    <2>1. repeats \in Nat /\ owed \in Nat /\ Len(chain[p]) \in Nat
      BY LeftType DEF TypeOK
    <2>2. CASE returned[p]
      <3>1. Len(chain[p]) = Left(p) + 1 /\ Cardinality(Open') <= Cardinality(Open) + 1
        BY <1>1, <1>2, <2>2
      <3> QED BY <1>1, <1>2, <1>3, <1>4, <2>1, <3>1, SumsOfNaturals
    <2>3. CASE ~returned[p]
      <3>1. Len(chain[p]) = Left(p) + 0 /\ Cardinality(Open') <= Cardinality(Open) + 0
        BY <1>1, <1>2, <2>3
      <3> QED BY <1>1, <1>2, <1>3, <1>4, <2>1, <3>1, SumsOfNaturals
    <2> QED BY <2>2, <2>3
  <1> QED BY <1>2, <1>3, <1>5 DEF Paid

\* A message is handled again: it was open, or nobody waited for its handler.
LEMMA PaidBefore ==
  ASSUME TypeOK, Paid, NEW m,
         repeats' = IF m \in done THEN repeats + 1 ELSE repeats, owed' = owed,
         \/ /\ Open' \subseteq Open \ {m} /\ (m \in done => m \in Open)
            /\ Unwatched' \subseteq Unwatched
         \/ /\ Open' \subseteq IF m \in done THEN Open ELSE Open \cup {m}
            /\ \E u \in Unwatched : Unwatched' \subseteq Unwatched \ {u}
  PROVE  Paid'
  <1>1. /\ repeats \in Nat /\ owed \in Nat /\ IsFiniteSet(Open) /\ IsFiniteSet(Unwatched)
        /\ repeats + Cardinality(Open) + Cardinality(Unwatched) <= owed
    BY DEF Paid, TypeOK
  <1>2. CASE /\ Open' \subseteq Open \ {m} /\ (m \in done => m \in Open)
             /\ Unwatched' \subseteq Unwatched
    <2>1. /\ IsFiniteSet(Open') /\ Cardinality(Open) \in Nat /\ Cardinality(Open') \in Nat
          /\ Cardinality(Open') + (IF m \in done THEN 1 ELSE 0) <= Cardinality(Open)
      <3>1. CASE m \in done
        BY <1>1, <1>2, <3>1, OneElementLess
      <3>2. CASE m \notin done
        <4>1. Open' \subseteq Open
          BY <1>2
        <4> QED BY <1>1, <3>2, <4>1, FewerElements
      <3> QED BY <3>1, <3>2
    <2>2. /\ IsFiniteSet(Unwatched') /\ Cardinality(Unwatched) \in Nat
          /\ Cardinality(Unwatched') \in Nat
          /\ Cardinality(Unwatched') <= Cardinality(Unwatched)
      BY <1>1, <1>2, FewerElements
    <2>3. repeats' + Cardinality(Open') + Cardinality(Unwatched') <= owed'
      BY <1>1, <2>1, <2>2
    <2> QED BY <2>1, <2>2, <2>3 DEF Paid
  <1>3. CASE /\ Open' \subseteq IF m \in done THEN Open ELSE Open \cup {m}
             /\ \E u \in Unwatched : Unwatched' \subseteq Unwatched \ {u}
    <2>1. /\ IsFiniteSet(Open') /\ Cardinality(Open) \in Nat /\ Cardinality(Open') \in Nat
          /\ Cardinality(Open') <= Cardinality(Open) + (IF m \in done THEN 0 ELSE 1)
      <3>1. CASE m \in done
        BY <1>1, <1>3, <3>1, FewerElements
      <3>2. CASE m \notin done
        BY <1>1, <1>3, <3>2, OneMoreElement
      <3> QED BY <3>1, <3>2
    <2>2. /\ IsFiniteSet(Unwatched') /\ Cardinality(Unwatched) \in Nat
          /\ Cardinality(Unwatched') \in Nat
          /\ Cardinality(Unwatched') + 1 <= Cardinality(Unwatched)
      <3>1. PICK u \in Unwatched : Unwatched' \subseteq Unwatched \ {u}
        BY <1>3
      <3> QED BY <1>1, <3>1, OneElementLess
    <2>3. repeats' + Cardinality(Open') + Cardinality(Unwatched') <= owed'
      BY <1>1, <2>1, <2>2
    <2> QED BY <2>1, <2>2, <2>3 DEF Paid
  <1> QED BY <1>2, <1>3

\* Whatever was about to be committed still is.
LEMMA OpenStill ==
  ASSUME UNCHANGED <<committed, done>>,
         \A p \in Pods : InGroup(p) /\ returned[p] =>
                            InGroup(p)' /\ returned'[p] /\ First(p)' = First(p)
  PROVE  Open' \subseteq Open
  <1>1. \A m : Committing(m) => Committing(m)'
    BY DEF Committing
  <1> QED BY <1>1 DEF Open

\* No pod that left the group has more to do than before.
LEMMA UnwatchedStill ==
  ASSUME \A p \in Pods : life'[p] = "closed" =>
             life[p] = "closed" /\ Left(p) \in Nat /\ Left(p)' \in Nat /\ Left(p)' <= Left(p)
  PROVE  Unwatched' \subseteq Unwatched
  BY DEF Unwatched

LEMMA SameUnwatched ==
  ASSUME TypeOK, ReturnedTried, UNCHANGED <<chain, returned>>,
         \A p \in Pods : life'[p] = "closed" => life[p] = "closed"
  PROVE  Unwatched' \subseteq Unwatched
  <1>1. \A p \in Pods : Left(p) \in Nat /\ Left(p)' = Left(p)
    BY LeftType DEF Left
  <1> QED BY <1>1, UnwatchedStill

\* The next message of a pod that commits, fails to or whose handler threw.
LEMMA NextUnwatched ==
  ASSUME TypeOK, ReturnedTried, NEW p \in Pods, ~Idle(p), Next1(p), UNCHANGED life,
         \/ returned' = returned /\ ~returned[p]
         \/ returned' = [returned EXCEPT ![p] = FALSE]
  PROVE  Unwatched' \subseteq Unwatched
  <1>1. /\ chain[p] \in Seq(Messages) /\ chain[p] # <<>>
        /\ chain'[p] = Tail(chain[p]) /\ ~returned'[p]
        /\ \A r \in Pods : r # p => chain'[r] = chain[r] /\ returned'[r] = returned[r]
    BY DEF Idle, Next1, TypeOK
  <1>2. Len(chain[p]) \in Nat \ {0} /\ Len(Tail(chain[p])) = Len(chain[p]) - 1
    BY <1>1, NonEmptySeq
  <1>3. \A r \in Pods : Left(r) \in Nat
    BY LeftType
  <1>4. Left(p)' = Len(chain[p]) - 1 /\ Len(chain[p]) - 1 <= Left(p)
    BY <1>1, <1>2 DEF Left
  <1>5. \A r \in Pods : r # p => Left(r)' = Left(r)
    BY <1>1 DEF Left
  <1>6. \A r \in Pods : Left(r)' \in Nat /\ Left(r)' <= Left(r)
    BY <1>2, <1>3, <1>4, <1>5
  <1> QED BY <1>3, <1>6, UnwatchedStill

\* What the repeats rest on, in the state before a step.
Orderly ==
    TypeOK /\ ReturnedTried /\ ReturnedDone /\ DownIdle /\ ChainsInOrder /\ OwnersInOrder /\ Paid

LEMMA PaidReturn ==
  ASSUME Orderly, NEW p \in Pods, HandlerReturns(p)
  PROVE  Paid'
  <1>0. PICK m : m = First(p)
    OBVIOUS
  <1>1. /\ TypeOK /\ ~Idle(p) /\ ~returned[p] /\ chain[p] \in Seq(Messages)
        /\ returned' = [returned EXCEPT ![p] = TRUE] /\ done' = done \cup {m}
        /\ UNCHANGED <<committed, chain, life, owner, owed>>
        /\ repeats' = IF m \in done THEN repeats + 1 ELSE repeats
        /\ m \in Messages /\ m[1] \in Partitions /\ m[2] \in Nat
    BY <1>0, FirstType DEF Orderly, HandlerReturns, broker, TypeOK
  <1>2. /\ returned'[p] /\ First(p)' = m
        /\ \A r \in Pods : r # p => returned'[r] = returned[r] /\ First(r)' = First(r)
        /\ \A r \in Pods : InGroup(r)' <=> InGroup(r)
    BY <1>0, <1>1 DEF TypeOK, First, InGroup
  <1>3. \A x : Committing(x) => Committing(x)'
    BY <1>1, <1>2 DEF Committing
  <1>4. Open' \subseteq Open \cup {m}
    BY <1>1, <1>3 DEF Open
  <1>5. CASE InGroup(p)
    <2>1. Committing(m)'
      BY <1>2, <1>5 DEF Committing
    <2>2. Open' \subseteq Open \ {m}
      BY <1>4, <2>1 DEF Open
    <2>3. committed[m[1]] <= m[2] /\ owner[m[1]] = p
      <3>1. 1 \in DOMAIN chain[p] /\ chain[p][1] = m
        BY <1>0, <1>1, NonEmptySeq DEF First, Idle
      <3> QED BY <1>5, <3>1 DEF Orderly, ChainsInOrder, OwnChain
    <2>4. ~Committing(m)
      <3> SUFFICES ASSUME NEW r \in Pods, InGroup(r), returned[r], First(r) = m
                   PROVE  FALSE
        BY DEF Committing
      <3>1. chain[r] \in Seq(Messages) /\ chain[r] # <<>>
        BY DEF Orderly, TypeOK, ReturnedTried
      <3>2. 1 \in DOMAIN chain[r] /\ chain[r][1] = m
        BY <3>1, NonEmptySeq DEF First
      <3>3. owner[m[1]] = r
        BY <3>2 DEF Orderly, ChainsInOrder, OwnChain
      <3> QED BY <1>1, <2>3, <3>3
    <2>5. m \in done => m \in Open
      BY <2>3, <2>4 DEF Open
    <2>6. Unwatched' \subseteq Unwatched
      <3>1. \A r \in Pods : life[r] = "closed" => Left(r)' = Left(r)
        BY <1>1, <1>2, <1>5 DEF Left, InGroup
      <3>2. \A r \in Pods : Left(r) \in Nat
        BY LeftType DEF Orderly
      <3> QED BY <1>1, <3>1, <3>2, UnwatchedStill
    <2> QED BY <1>1, <2>2, <2>5, <2>6, PaidBefore DEF Orderly
  <1>6. CASE ~InGroup(p)
    <2>1. life[p] = "closed"
      BY <1>1, <1>6 DEF Orderly, DownIdle, InGroup, TypeOK
    <2>2. Open' \subseteq IF m \in done THEN Open ELSE Open \cup {m}
      <3>1. m \in done => done' = done
        BY <1>1
      <3>2. m \in done => Open' \subseteq Open
        BY <1>1, <1>3, <3>1 DEF Open
      <3> QED BY <1>4, <3>2
    <2>3. \E u \in Unwatched : Unwatched' \subseteq Unwatched \ {u}
      <3>1. /\ Left(p) \in Nat /\ Left(p) = Len(chain[p]) /\ Len(chain[p]) \in Nat \ {0}
            /\ \A r \in Pods : Left(r) \in Nat
        <4>1. Len(chain[p]) \in Nat \ {0}
          BY <1>1, NonEmptySeq DEF Idle
        <4>2. \A r \in Pods : Left(r) \in Nat
          BY LeftType DEF Orderly
        <4> QED BY <1>1, <4>1, <4>2, LeftType DEF Orderly
      <3>2. Left(p)' = Left(p) - 1 /\ \A r \in Pods : r # p => Left(r)' = Left(r)
        BY <1>1, <1>2, <3>1 DEF Left
      <3>3. <<p, Left(p)>> \in Unwatched
        BY <2>1, <3>1 DEF Unwatched
      <3>4. Unwatched' \subseteq Unwatched \ {<<p, Left(p)>>}
        <4> SUFFICES ASSUME NEW r \in Pods, NEW k \in Nat, <<r, k>> \in Unwatched'
                     PROVE  <<r, k>> \in Unwatched /\ <<r, k>> # <<p, Left(p)>>
          BY DEF Unwatched
        <4>1. life[r] = "closed" /\ 1 <= k /\ k <= Left(r)'
          BY <1>1 DEF Unwatched
        <4>2. k <= Left(r) /\ (r = p => k # Left(p))
          BY <3>1, <3>2, <4>1
        <4> QED BY <4>1, <4>2 DEF Unwatched
      <3> QED BY <3>3, <3>4
    <2> QED BY <1>1, <2>2, <2>3, PaidBefore DEF Orderly
  <1> QED BY <1>5, <1>6

LEMMA PaidThrow ==
  ASSUME Orderly, NEW p \in Pods, HandlerThrows(p)
  PROVE  Paid'
  <1>1. /\ TypeOK /\ ReturnedTried /\ ~Idle(p) /\ ~returned[p] /\ Next1(p)
        /\ UNCHANGED <<committed, done, returned, life, repeats, owed>>
        /\ \A r \in Pods : r # p => chain'[r] = chain[r]
    BY DEF Orderly, HandlerThrows, broker, Next1, TypeOK
  <1>2. Open' \subseteq Open
    BY <1>1, OpenStill DEF InGroup, First
  <1>3. Unwatched' \subseteq Unwatched
    BY <1>1, NextUnwatched
  <1>4. owed' \in Nat /\ owed <= owed'
    BY <1>1 DEF TypeOK
  <1> QED BY <1>1, <1>2, <1>3, <1>4, PaidStill DEF Orderly

LEMMA PaidCommit ==
  ASSUME Orderly, NEW p \in Pods, Commit(p)
  PROVE  Paid'
  <1>0. PICK m : m = First(p)
    OBVIOUS
  <1>1. /\ TypeOK /\ ReturnedTried /\ Next1(p) /\ ~Idle(p) /\ returned[p]
        /\ chain[p] \in Seq(Messages) /\ InGroup(p)
        /\ returned' = [returned EXCEPT ![p] = FALSE]
        /\ committed' = [committed EXCEPT ![m[1]] = m[2] + 1]
        /\ UNCHANGED <<done, life, repeats, owed>>
        /\ \A r \in Pods : r # p => chain'[r] = chain[r] /\ returned'[r] = returned[r]
    BY <1>0 DEF Orderly, Commit, history, Next1, TypeOK, ReturnedTried, DownIdle, Idle, InGroup
  <1>2. m \in Messages /\ m[1] \in Partitions /\ m[2] \in Nat
    BY <1>0, <1>1, FirstType
  <1>3. committed[m[1]] <= m[2]
    <2>1. 1 \in DOMAIN chain[p] /\ chain[p][1] = m
      BY <1>0, <1>1, NonEmptySeq DEF First, Idle
    <2> QED BY <1>1, <2>1 DEF Orderly, ChainsInOrder, OwnChain
  <1>4. ASSUME NEW x \in Open' PROVE x \in Open
    <2>1. x \in done /\ committed'[x[1]] <= x[2] /\ ~Committing(x)'
      BY <1>1, <1>4 DEF Open
    <2>2. x[1] \in Partitions /\ x[2] \in Nat
      BY <1>1, <2>1 DEF TypeOK, Messages
    <2>3. committed[x[1]] <= x[2] /\ x # m
      <3>1. /\ committed \in [Partitions -> Nat \cup {NoOffset}] /\ m[2] + 1 \in Nat
            /\ NoOffset \in Int
        <4>1. committed \in [Partitions -> Nat \cup {NoOffset}]
          BY <1>1 DEF TypeOK
        <4>2. m[2] + 1 \in Nat
          BY <1>2
        <4> QED BY <4>1, <4>2 DEF NoOffset
      <3>2. CASE x[1] = m[1]
        <4>1. committed'[x[1]] = m[2] + 1
          BY <1>1, <1>2, <3>1, <3>2
        <4>2. PICK k \in Nat, l \in Nat : k = x[2] /\ l = m[2]
          BY <1>2, <2>2
        <4>3. l + 1 <= k
          BY <2>1, <4>1, <4>2
        <4>4. committed[x[1]] \in Int /\ committed[x[1]] <= l
          BY <1>2, <1>3, <3>1, <3>2, <4>2
        <4> QED BY <4>2, <4>3, <4>4
      <3>3. CASE x[1] # m[1]
        <4>1. committed'[x[1]] = committed[x[1]]
          BY <1>1, <1>2, <2>2, <3>1, <3>3
        <4> QED BY <2>1, <3>3, <4>1
      <3> QED BY <3>2, <3>3
    <2>4. ~Committing(x)
      <3> SUFFICES ASSUME NEW r \in Pods, InGroup(r), returned[r], First(r) = x
                   PROVE  Committing(x)'
        BY <2>1 DEF Committing
      <3>1. r # p
        BY <1>0, <2>3
      <3> QED BY <1>1, <3>1 DEF Committing, InGroup, First
    <2> QED BY <2>1, <2>3, <2>4 DEF Open
  <1>5. Unwatched' \subseteq Unwatched
    BY <1>1, NextUnwatched
  <1>6. owed' \in Nat /\ owed <= owed' /\ Open' \subseteq Open
    BY <1>1, <1>4 DEF TypeOK
  <1> QED BY <1>1, <1>5, <1>6, PaidStill DEF Orderly

\* In the group a commit is lost and paid for; a pod that left has paid.
LEMMA PaidCommitFails ==
  ASSUME Orderly, NEW p \in Pods, CommitFails(p)
  PROVE  Paid'
  <1>0. PICK m : m = First(p)
    OBVIOUS
  <1>1. /\ TypeOK /\ ReturnedTried /\ Next1(p) /\ ~Idle(p) /\ returned[p]
        /\ chain[p] \in Seq(Messages)
        /\ returned' = [returned EXCEPT ![p] = FALSE]
        /\ UNCHANGED <<committed, done, life, repeats>>
        /\ \A r \in Pods : r # p => chain'[r] = chain[r] /\ returned'[r] = returned[r]
    BY DEF Orderly, CommitFails, broker, Next1, TypeOK, ReturnedTried, Idle
  <1>2. Unwatched' \subseteq Unwatched
    BY <1>1, NextUnwatched
  <1>3. CASE InGroup(p)
    <2>1. owner[m[1]] = p
      <3>1. 1 \in DOMAIN chain[p] /\ chain[p][1] = m
        BY <1>0, <1>1, NonEmptySeq DEF First, Idle
      <3> QED BY <1>3, <3>1 DEF Orderly, ChainsInOrder, OwnChain
    <2>2. owed' = owed + 1
      BY <1>0, <1>3, <2>1 DEF CommitFails, InGroup
    <2>3. \A x : Committing(x) => Committing(x)' \/ x = m
      BY <1>0, <1>1 DEF Committing, InGroup, First
    <2>4. Open' \subseteq Open \cup {m}
      BY <1>1, <2>3 DEF Open
    <2> QED BY <1>1, <1>2, <2>2, <2>4, PaidByFault DEF Orderly
  <1>4. CASE ~InGroup(p)
    <2>1. Open' \subseteq Open
      <3>1. \A r \in Pods : InGroup(r) /\ returned[r] =>
                               InGroup(r)' /\ returned'[r] /\ First(r)' = First(r)
        BY <1>1, <1>4 DEF InGroup, First
      <3> QED BY <1>1, <3>1, OpenStill
    <2>2. owed' \in Nat /\ owed <= owed'
      BY DEF CommitFails, Orderly, TypeOK
    <2> QED BY <1>1, <1>2, <2>1, <2>2, PaidStill DEF Orderly
  <1> QED BY <1>3, <1>4

\* Nothing is returned, committed or left.
LEMMA PaidQuiet ==
  ASSUME Orderly, UNCHANGED <<committed, returned, done, repeats, owed>>,
         \A p \in Pods :
             /\ life'[p] = "closed" <=> life[p] = "closed"
             /\ InGroup(p) => InGroup(p)'
             /\ life[p] = "closed" => chain'[p] = chain[p]
             /\ returned[p] => First(p)' = First(p)
  PROVE  Paid'
  <1>1. Open' \subseteq Open
    BY OpenStill
  <1>2. Unwatched' \subseteq Unwatched
    <2>1. \A p \in Pods : Left(p) \in Nat
      BY LeftType DEF Orderly
    <2>2. \A p \in Pods : life'[p] = "closed" => Left(p)' = Left(p)
      BY DEF Left
    <2> QED BY <2>1, <2>2, UnwatchedStill
  <1>3. owed' \in Nat /\ owed <= owed'
    BY DEF Orderly, TypeOK
  <1> QED BY <1>1, <1>2, <1>3, PaidStill DEF Orderly

LEMMA PaidReceive ==
  ASSUME Orderly, NEW p \in Pods, NEW q \in Partitions, Receive(p, q)
  PROVE  Paid'
  <1>1. /\ chain' = [chain EXCEPT ![p] = Append(@, <<q, position[q]>>)] /\ owner[q] = p
        /\ UNCHANGED <<committed, returned, done, repeats, owed, life>>
        /\ TypeOK /\ chain[p] \in Seq(Messages) /\ <<q, position[q]>> \in Messages
    BY DEF Receive, Orderly, TypeOK, Messages, history
  <1>2. InGroup(p)
    BY <1>1 DEF Orderly, OwnersInOrder
  <1>3. ASSUME NEW r \in Pods
        PROVE  /\ life[r] = "closed" => chain'[r] = chain[r]
               /\ returned[r] => First(r)' = First(r)
    <2>1. CASE r # p
      BY <1>1, <2>1 DEF TypeOK, First
    <2>2. CASE r = p
      <3>1. returned[p] => chain[p] # <<>>
        BY DEF Orderly, ReturnedTried
      <3>2. chain'[p] = Append(chain[p], <<q, position[q]>>)
        BY <1>1 DEF TypeOK
      <3>3. chain[p] # <<>> => Head(Append(chain[p], <<q, position[q]>>)) = Head(chain[p])
        <4>1. PICK s, m : s = chain[p] /\ m = <<q, position[q]>>
          OBVIOUS
        <4>2. s # <<>> => Head(Append(s, m)) = Head(s)
          BY <1>1, <4>1, LongerSeq
        <4> QED BY <4>1, <4>2
      <3> QED BY <1>2, <2>2, <3>1, <3>2, <3>3 DEF First, InGroup
    <2> QED BY <2>1, <2>2
  <1> QED BY <1>1, <1>3, PaidQuiet DEF InGroup

\* A pod leaves with what it has in its chain.
LEMMA PaidDisconnect ==
  ASSUME Orderly, NEW p \in Pods, Disconnect(p)
  PROVE  Paid'
  <1>1. /\ TypeOK /\ ReturnedTried /\ UNCHANGED <<committed, chain, returned, done, repeats>>
        /\ owed' = owed + Len(chain[p])
        /\ \A r \in Pods : r # p => life'[r] = life[r]
    BY DEF Orderly, Disconnect, TypeOK
  <1>2. \A x : Committing(x) => Committing(x)' \/ (returned[p] /\ x = First(p))
    BY <1>1 DEF Committing, InGroup, First
  <1>3. Open' \subseteq IF returned[p] THEN Open \cup {First(p)} ELSE Open
    BY <1>1, <1>2 DEF Open
  <1>4. Unwatched' \subseteq Unwatched \cup ({p} \X (1 .. Left(p)))
    <2> SUFFICES ASSUME NEW r \in Pods, NEW k \in Nat, <<r, k>> \in Unwatched'
                 PROVE  <<r, k>> \in Unwatched \/ (r = p /\ k \in 1 .. Left(p))
      BY DEF Unwatched
    <2>1. life'[r] = "closed" /\ 1 <= k /\ k <= Left(r)
      BY <1>1 DEF Unwatched, Left
    <2>2. CASE r # p
      BY <1>1, <2>1, <2>2 DEF Unwatched
    <2>3. CASE r = p
      BY <1>1, <2>1, <2>3, LeftType
    <2> QED BY <2>2, <2>3
  <1> QED BY <1>1, <1>3, <1>4, PaidByStop DEF Orderly

\* A pod is gone, after it left the group or in a crash.
LEMMA PaidLeave ==
  ASSUME Orderly, NEW p \in Pods, Exit(p) \/ Crash(p)
  PROVE  Paid'
  <1>1. /\ TypeOK /\ ReturnedTried /\ UNCHANGED <<committed, done, repeats>>
        /\ life' = [life EXCEPT ![p] = "down"]
        /\ \A r \in Pods : r # p => chain'[r] = chain[r] /\ returned'[r] = returned[r]
    BY DEF Orderly, Exit, Crash, Leave, TypeOK
  <1>2. \A r \in Pods : r # p => life'[r] = life[r] /\ First(r)' = First(r)
    BY <1>1 DEF TypeOK, First
  <1>3. Unwatched' \subseteq Unwatched
    <2>1. \A r \in Pods : Left(r) \in Nat
      BY <1>1, LeftType
    <2>2. \A r \in Pods : r # p => Left(r)' = Left(r)
      BY <1>1 DEF Left
    <2>3. life'[p] = "down"
      BY <1>1 DEF TypeOK
    <2> QED BY <1>2, <2>1, <2>2, <2>3, UnwatchedStill
  <1>4. CASE Exit(p)
    <2>1. ~InGroup(p) /\ owed' = owed
      BY <1>4 DEF Exit, InGroup
    <2>2. \A r \in Pods : InGroup(r) /\ returned[r] =>
                             InGroup(r)' /\ returned'[r] /\ First(r)' = First(r)
      BY <1>1, <1>2, <2>1 DEF InGroup
    <2>3. Open' \subseteq Open
      BY <1>1, <2>2, OpenStill
    <2>4. owed' \in Nat /\ owed <= owed'
      BY <1>1, <2>1 DEF TypeOK
    <2> QED BY <1>1, <1>3, <2>3, <2>4, PaidStill DEF Orderly
  <1>5. CASE Crash(p)
    <2>1. owed' = owed + 1
      BY <1>5 DEF Crash
    <2>2. \A x : Committing(x) => Committing(x)' \/ x = First(p)
      BY <1>1, <1>2 DEF Committing, InGroup
    <2>3. Open' \subseteq Open \cup {First(p)}
      BY <1>1, <2>2 DEF Open
    <2> QED BY <1>1, <1>3, <2>1, <2>3, PaidByFault DEF Orderly
  <1> QED BY <1>4, <1>5

\* Init has nothing open and nothing unwatched.
LEMMA RepeatInit == Init => RepeatInv
  <1> SUFFICES ASSUME Init PROVE RepeatInv
    OBVIOUS
  <1>0. DOMAIN <<>> = {}
    <2>1. <<>> \in Seq(Messages) /\ Len(<<>>) = 0
      OBVIOUS
    <2> QED BY <2>1
  <1>1. ReturnedDone /\ DownIdle /\ OwnersInGroup /\ OwnersInOrder
    BY DEF Init, ReturnedDone, DownIdle, OwnersInGroup, OwnersInOrder
  <1>2. ChainsInOrder
    BY <1>0 DEF Init, ChainsInOrder, OwnChain, Increasing
  <1>3. Open = {} /\ Unwatched = {} /\ repeats = 0 /\ owed = 0
    BY DEF Init, Open, Unwatched
  <1>4. Paid
    BY <1>3, FS_EmptySet DEF Paid
  <1> QED BY <1>1, <1>2, <1>4 DEF RepeatInv

\* What holds whether or not a partition was taken from a pod.
LEMMA DoneStep ==
  ASSUME TypeOK, ReturnedTried, ReturnedDone, DownIdle, OwnersInGroup, [Next]_vars
  PROVE  ReturnedDone' /\ DownIdle' /\ OwnersInGroup'
  <1> DEFINE Goal == ReturnedDone' /\ DownIdle' /\ OwnersInGroup'
  <1>1. ASSUME UNCHANGED <<chain, returned, done, life, owner>> PROVE Goal
    BY <1>1 DEF ReturnedDone, DownIdle, OwnersInGroup, InGroup, First, Idle
  <1>2. ASSUME NEW q \in Partitions, Emit(q) PROVE Goal
    BY <1>1, <1>2 DEF Emit, pods, history
  <1>3. ASSUME NEW q \in Partitions, NEW p \in Pods, Assign(q, p) \/ Move(q, p) PROVE Goal
    <2>1. UNCHANGED <<chain, returned, done, life>> /\ InGroup(p)
          /\ owner' = [owner EXCEPT ![q] = p]
      BY <1>3 DEF Assign, Move, Give, pods, InGroup
    <2> QED BY <2>1 DEF ReturnedDone, DownIdle, OwnersInGroup, InGroup, First, Idle, TypeOK
  <1>4. ASSUME NEW q \in Partitions, NEW p \in Pods, Receive(p, q) PROVE Goal
    <2>1. PICK s, m : s = chain[p] /\ m = <<q, position[q]>>
      OBVIOUS
    <2>2. /\ s \in Seq(Messages) /\ m \in Messages /\ chain'[p] = Append(s, m)
          /\ UNCHANGED <<returned, done, life, owner>> /\ InGroup(p)
          /\ \A r \in Pods : r # p => chain'[r] = chain[r]
      BY <1>4, <2>1 DEF Receive, TypeOK, Messages, history, OwnersInGroup
    <2>3. s # <<>> => Head(Append(s, m)) = Head(s)
      BY <2>2, LongerSeq
    <2>4. returned[p] => s # <<>>
      BY <2>1 DEF ReturnedTried
    <2>5. ReturnedDone'
      BY <2>1, <2>2, <2>3, <2>4 DEF ReturnedDone, First
    <2>6. DownIdle' /\ OwnersInGroup'
      BY <2>2 DEF DownIdle, OwnersInGroup, Idle, InGroup
    <2> QED BY <2>5, <2>6
  <1>5. ASSUME NEW p \in Pods, HandlerReturns(p) PROVE Goal
    <2>1. UNCHANGED <<life, owner, chain>>
      BY <1>5 DEF HandlerReturns, broker
    <2>2. ReturnedDone'
      BY <1>5, <2>1 DEF HandlerReturns, ReturnedDone, First, TypeOK
    <2> QED BY <2>1, <2>2 DEF DownIdle, OwnersInGroup, InGroup, Idle
  <1>6. ASSUME NEW p \in Pods, HandlerThrows(p) PROVE Goal
    <2>1. UNCHANGED <<life, owner, returned, done>> /\ ~returned[p] /\ ~Idle(p)
          /\ chain' = [chain EXCEPT ![p] = Tail(@)]
      BY <1>6 DEF HandlerThrows, Next1, broker
    <2> QED BY <2>1 DEF ReturnedDone, DownIdle, OwnersInGroup, InGroup, First, Idle, TypeOK
  <1>7. ASSUME NEW p \in Pods, Commit(p) \/ CommitFails(p) PROVE Goal
    <2>1. /\ returned[p] /\ UNCHANGED <<done, life, owner>> /\ ~Idle(p)
          /\ returned' = [returned EXCEPT ![p] = FALSE] /\ chain' = [chain EXCEPT ![p] = Tail(@)]
      BY <1>7 DEF Commit, CommitFails, history, broker, Next1, ReturnedTried, Idle
    <2> QED BY <2>1 DEF ReturnedDone, DownIdle, OwnersInGroup, InGroup, First, Idle, TypeOK
  <1>8. ASSUME NEW p \in Pods, Stop(p) \/ Restart(p) PROVE Goal
    <2>1. UNCHANGED <<chain, returned, done, owner>>
          /\ \A r \in Pods : /\ life'[r] = "down" => life[r] = "down"
                             /\ InGroup(r) => life'[r] \in {"up", "stopping"}
      BY <1>8 DEF Stop, Restart, history, broker, TypeOK, InGroup
    <2>2. ReturnedDone' /\ DownIdle'
      BY <2>1 DEF ReturnedDone, DownIdle, First, Idle
    <2>3. OwnersInGroup'
      <3> SUFFICES ASSUME NEW q \in Partitions, owner'[q] # NoPod
                   PROVE  life'[owner'[q]] \in {"up", "stopping"}
        BY DEF OwnersInGroup, InGroup
      <3>1. owner'[q] = owner[q] /\ owner[q] \in Pods
        BY <2>1 DEF TypeOK
      <3> QED BY <2>1, <3>1 DEF OwnersInGroup
    <2> QED BY <2>2, <2>3
  <1>9. ASSUME NEW p \in Pods, Release(p), \A r \in Pods : r # p => life'[r] = life[r]
        PROVE  OwnersInGroup'
    <2> SUFFICES ASSUME NEW q \in Partitions, owner'[q] # NoPod
                 PROVE  life'[owner'[q]] \in {"up", "stopping"}
      BY DEF OwnersInGroup, InGroup
    <2>1. owner'[q] = owner[q] /\ owner[q] \in Pods \ {p}
      BY <1>9 DEF Release, TypeOK
    <2> QED BY <1>9, <2>1 DEF OwnersInGroup, InGroup
  <1>10. ASSUME NEW p \in Pods, Disconnect(p) PROVE Goal
    <2>1. /\ UNCHANGED <<chain, returned, done>> /\ Release(p) /\ life'[p] # "down"
          /\ \A r \in Pods : r # p => life'[r] = life[r]
      BY <1>10 DEF Disconnect, TypeOK
    <2> QED BY <1>9, <2>1 DEF ReturnedDone, DownIdle, First, Idle
  <1>11. ASSUME NEW p \in Pods, Exit(p) \/ Crash(p) PROVE Goal
    <2>1. /\ UNCHANGED done /\ Release(p) /\ chain'[p] = <<>> /\ ~returned'[p]
          /\ \A r \in Pods : r # p => /\ life'[r] = life[r] /\ chain'[r] = chain[r]
                                      /\ returned'[r] = returned[r]
      BY <1>11 DEF Exit, Crash, Leave, TypeOK
    <2> QED BY <1>9, <2>1 DEF ReturnedDone, DownIdle, First, Idle
  <1>12. CASE UNCHANGED vars
    BY <1>1, <1>12 DEF vars, pods, history, broker
  <1> QED
    BY <1>2, <1>3, <1>4, <1>5, <1>6, <1>7, <1>8, <1>10, <1>11, <1>12 DEF Next, PodStep

\* Every step keeps chains in order and repeats paid for, until a partition is
\* taken from a pod with messages of it.
LEMMA PaidStep ==
  ASSUME Orderly, [Next]_vars, ~overtaken'
  PROVE  ChainsInOrder' /\ OwnersInOrder' /\ Paid'
  <1> DEFINE Goal == ChainsInOrder' /\ OwnersInOrder' /\ Paid'
  <1>0. TypeOK /\ ReturnedTried /\ DownIdle /\ ChainsInOrder /\ OwnersInOrder
    BY DEF Orderly
  <1>1. ASSUME UNCHANGED <<committed, owner, position, pods, done, repeats, owed>> PROVE Goal
    <2>1. ChainsInOrder' /\ OwnersInOrder'
      BY <1>0, <1>1, OrderStill DEF pods
    <2> QED BY <1>1, <2>1, PaidQuiet DEF pods, InGroup, First
  <1>2. ASSUME NEW q \in Partitions, Emit(q) PROVE Goal
    BY <1>1, <1>2 DEF Emit, history
  <1>3. ASSUME NEW q \in Partitions, NEW p \in Pods, Assign(q, p) \/ Move(q, p) PROVE Goal
    <2>1. UNCHANGED <<committed, pods, done, repeats, owed>>
      BY <1>3 DEF Assign, Move, Give
    <2>2. Paid'
      BY <2>1, PaidQuiet DEF pods, InGroup, First
    <2> QED BY <1>0, <1>3, <2>2, OrderGive
  <1>4. ASSUME NEW q \in Partitions, NEW p \in Pods, Receive(p, q) PROVE Goal
    BY <1>0, <1>4, OrderReceive, PaidReceive
  <1>5. ASSUME NEW p \in Pods, HandlerReturns(p) PROVE Goal
    BY <1>0, <1>5, PaidReturn, OrderStill DEF HandlerReturns, broker
  <1>6. ASSUME NEW p \in Pods, HandlerThrows(p) PROVE Goal
    BY <1>0, <1>6, PaidThrow, OrderNext DEF HandlerThrows, broker
  <1>7. ASSUME NEW p \in Pods, Commit(p) PROVE Goal
    <2>1. ~Idle(p) /\ InGroup(p)
      BY <1>0, <1>7 DEF Commit, ReturnedTried, DownIdle, Idle, InGroup, TypeOK
    <2> QED BY <1>0, <1>7, <2>1, PaidCommit, OrderNext DEF Commit
  <1>8. ASSUME NEW p \in Pods, CommitFails(p) PROVE Goal
    <2>1. ~Idle(p)
      BY <1>0, <1>8 DEF CommitFails, ReturnedTried, Idle
    <2> QED BY <1>0, <1>8, <2>1, PaidCommitFails, OrderNext DEF CommitFails, broker
  <1>9. ASSUME NEW p \in Pods, Stop(p) PROVE Goal
    <2>1. /\ UNCHANGED <<committed, owner, position, chain, returned, done, repeats, owed>>
          /\ life' = [life EXCEPT ![p] = "stopping"] /\ life[p] = "up"
      BY <1>9 DEF Stop, broker
    <2>2. \A r \in Pods : /\ life'[r] \in {"up", "stopping"} <=> InGroup(r)
                         /\ life'[r] = "closed" <=> life[r] = "closed"
      BY <1>0, <2>1 DEF InGroup, TypeOK
    <2>3. Paid'
      <3>1. \A r \in Pods : (InGroup(r) => InGroup(r)') /\ First(r)' = First(r)
        BY <2>1, <2>2 DEF InGroup, First
      <3> QED BY <2>1, <2>2, <3>1, PaidQuiet
    <2>4. ChainsInOrder'
      <3> SUFFICES ASSUME NEW r \in Pods, InGroup(r) PROVE OwnChain(r)' /\ Increasing(chain[r])
        BY <2>1, <2>2 DEF ChainsInOrder, InGroup
      <3> QED BY <1>0, <2>1 DEF ChainsInOrder, OwnChain
    <2>5. OwnersInOrder'
      <3> SUFFICES ASSUME NEW q \in Partitions, owner[q] # NoPod
                   PROVE  life'[owner[q]] \in {"up", "stopping"} /\ committed[q] <= position[q]
        BY <2>1 DEF OwnersInOrder, InGroup
      <3>1. owner[q] \in Pods
        BY <1>0 DEF TypeOK
      <3>2. InGroup(owner[q]) /\ committed[q] <= position[q]
        BY <1>0 DEF OwnersInOrder
      <3>3. life'[owner[q]] \in {"up", "stopping"}
        BY <2>1, <3>1, <3>2, <1>0 DEF InGroup, TypeOK
      <3> QED BY <3>2, <3>3
    <2> QED BY <2>3, <2>4, <2>5
  <1>10. ASSUME NEW p \in Pods, Restart(p) PROVE Goal
    <2>1. /\ UNCHANGED <<broker, chain, returned, done, repeats, owed>> /\ Idle(p)
          /\ life' = [life EXCEPT ![p] = "up"] /\ life[p] = "down"
      BY <1>0, <1>10 DEF Restart, history, DownIdle
    <2>2. \A r \in Pods : /\ InGroup(r) => InGroup(r)'
                          /\ life'[r] = "closed" <=> life[r] = "closed"
      BY <1>0, <2>1 DEF InGroup, TypeOK
    <2>3. Paid'
      BY <2>1, <2>2, PaidQuiet DEF broker, First
    <2> QED BY <1>0, <2>1, <2>3, OrderRestart DEF broker
  <1>11. ASSUME NEW p \in Pods, Disconnect(p) PROVE Goal
    <2>1. /\ Release(p) /\ life'[p] = "closed" /\ UNCHANGED <<committed, position>>
          /\ \A r \in Pods : r # p => life'[r] = life[r] /\ chain'[r] = chain[r]
      BY <1>0, <1>11 DEF Disconnect, TypeOK
    <2> QED BY <1>0, <1>11, <2>1, OrderRelease, PaidDisconnect
  <1>12. ASSUME NEW p \in Pods, Exit(p) \/ Crash(p) PROVE Goal
    <2>1. /\ Release(p) /\ life'[p] = "down" /\ UNCHANGED <<committed, position>>
          /\ \A r \in Pods : r # p => life'[r] = life[r] /\ chain'[r] = chain[r]
      BY <1>0, <1>12 DEF Exit, Crash, Leave, TypeOK
    <2> QED BY <1>0, <1>12, <2>1, OrderRelease, PaidLeave
  <1>13. CASE UNCHANGED vars
    BY <1>1, <1>13 DEF vars, broker, history
  <1> QED
    BY <1>2, <1>3, <1>4, <1>5, <1>6, <1>7, <1>8, <1>9, <1>10, <1>11, <1>12, <1>13
    DEF Next, PodStep

\* What was taken stays taken.
LEMMA OvertakenStays == [Next]_vars /\ ~overtaken' => ~overtaken
  <1> SUFFICES ASSUME [Next]_vars PROVE overtaken => overtaken'
    OBVIOUS
  <1>1. ASSUME NEW q \in Partitions, Emit(q) PROVE overtaken' = overtaken
    BY <1>1 DEF Emit, history
  <1>2. ASSUME NEW q \in Partitions, NEW p \in Pods, Assign(q, p) \/ Receive(p, q)
        PROVE  overtaken' = overtaken
    BY <1>2 DEF Assign, Receive, history
  <1>3. ASSUME NEW q \in Partitions, NEW p \in Pods, Move(q, p), overtaken PROVE overtaken'
    BY <1>3 DEF Move
  <1>4. ASSUME NEW p \in Pods, PodStep(p) \/ Stop(p) \/ Crash(p) PROVE overtaken' = overtaken
    BY <1>4 DEF PodStep, HandlerReturns, HandlerThrows, Commit, CommitFails, Stop, Disconnect,
                Exit, Crash, Leave, Restart, history
  <1>5. CASE UNCHANGED vars
    BY <1>5 DEF vars, history
  <1> QED BY <1>1, <1>2, <1>3, <1>4, <1>5 DEF Next

LEMMA RepeatStep == IInv /\ RepeatInv /\ [Next]_vars => RepeatInv'
  <1> SUFFICES ASSUME IInv, RepeatInv, [Next]_vars PROVE RepeatInv'
    OBVIOUS
  <1>1. ReturnedDone' /\ DownIdle' /\ OwnersInGroup'
    BY DoneStep DEF IInv, RepeatInv
  <1>2. ASSUME ~overtaken' PROVE ChainsInOrder' /\ OwnersInOrder' /\ Paid'
    <2>1. Orderly
      BY <1>2, OvertakenStays DEF Orderly, IInv, RepeatInv
    <2> QED BY <1>2, <2>1, PaidStep
  <1> QED BY <1>1, <1>2 DEF RepeatInv

\* A message is handled again only when a crash, a lost commit or a shutdown has
\* paid for it, unless a partition was taken from a pod with messages of it.
THEOREM RepeatsHaveReasons == Spec => []RepeatsArePaid
  <1>1. IInv /\ RepeatInv => RepeatsArePaid
    <2> SUFFICES ASSUME IInv, RepeatInv, ~overtaken PROVE repeats <= owed
      BY DEF RepeatsArePaid
    <2>1. /\ repeats \in Nat /\ owed \in Nat
          /\ IsFiniteSet(Open) /\ IsFiniteSet(Unwatched)
          /\ repeats + Cardinality(Open) + Cardinality(Unwatched) <= owed
      BY DEF IInv, TypeOK, RepeatInv, Paid
    <2>2. Cardinality(Open) \in Nat /\ Cardinality(Unwatched) \in Nat
      BY <2>1, FS_CardinalityType
    <2> QED BY <2>1, <2>2
  <1> QED BY <1>1, Invariance, RepeatInit, RepeatStep, PTL DEF Spec

=============================================================================
