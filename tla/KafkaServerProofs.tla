------------------------- MODULE KafkaServerProofs --------------------------
(***************************************************************************)
(* Proofs about KafkaServer, for any records, batch size and bound.        *)
(***************************************************************************)
EXTENDS KafkaServer, TLAPS

\* The offsets below n had their turn.
Settled(n) == \A i \in 0..n - 1 : i \in tried \cup skipped

\* Where the next commit may be: at the position between two batches, at the
\* start of the batch while listen() runs, which is where a failed one seeks to.
Safe == IF phase = "listen" THEN first ELSE position

\* While the partition is owned, nothing below Safe is open, and the group's
\* offset is not beyond it; a batch that outlives its assignment settles nothing.
CommitInv ==
    /\ CommittedWereTried
    /\ assigned => phase # "off" /\ Settled(Safe) /\ committed <= Safe

IInv == TypeOK /\ CommitInv

\* While the partition is owned, no record at or after Safe was indexed more
\* often than assignments were lost; while it is not, no record at all, and the
\* records of a batch that listen() still holds even less often.
CopiesInv ==
    /\ CopiesNeedReassignment
    /\ IsInjective(log)
    /\ \A r \in Record \ Range(log) : es[r] = 0
    /\ assigned => \A i \in Safe..Len(log) - 1 : es[log[i + 1]] <= stops
    /\ ~assigned => \A r \in Record : es[r] <= stops
    /\ ~assigned /\ phase = "listen" => \A i \in Batch : es[log[i + 1]] < stops

\* Nothing that a restart passes over is read again: the records that were
\* skipped lie below the next commit and, once there is one, below it, and a
\* batch lies above the commit and the skipped, also when its assignment was
\* lost.
BehindInv ==
    /\ assigned => \A i \in skipped : i < Safe
    /\ committed # NoOffset => \A i \in skipped : i < committed
    /\ phase = "listen" => \A i \in Batch : i >= committed /\ i \notin skipped

(* Facts about the batches *)

\* A batch is made of offsets of the log.
LEMMA BatchInLog ==
    ASSUME TypeOK
    PROVE  Batch \subseteq 0..Len(log) - 1
  BY DEF TypeOK, Batch

\* One more element makes the domain of a sequence longer by one.
LEMMA OneMore ==
    ASSUME NEW n \in Nat
    PROVE  1..n + 1 = 1..n \cup {n + 1}
  OBVIOUS

-----------------------------------------------------------------------------

LEMMA InitType == Init => TypeOK
  <1> SUFFICES ASSUME Init PROVE TypeOK
      OBVIOUS
  <1> USE DEF Init
  <1>1. log \in Seq(Record) /\ Len(log) = 0
        OBVIOUS
  <1>2. position \in 0..Len(log) /\ first \in 0..Len(log) /\ committed \in {NoOffset} \cup 0..Len(log)
        BY <1>1
  <1>3. es \in [Record -> Nat]
        OBVIOUS
  <1>4. stops \in 0..MaxStops
        BY BoundAssumption
  <1>5. tried \in SUBSET (0..Len(log) - 1) /\ skipped \in SUBSET (0..Len(log) - 1)
        OBVIOUS
  <1> QED BY <1>1, <1>2, <1>3, <1>4, <1>5 DEF TypeOK

\* Every step keeps the types and the batch inside the log.
LEMMA NextType == TypeOK /\ [Next]_vars => TypeOK'
  <1> SUFFICES ASSUME TypeOK, [Next]_vars PROVE TypeOK'
      OBVIOUS
  <1> USE BoundAssumption DEF TypeOK
  <1>1. ASSUME NEW r \in Record, Produce(r) PROVE TypeOK'
    <2>1. log' \in Seq(Record) /\ Len(log') = Len(log) + 1
          BY <1>1 DEF Produce
    <2> QED BY <1>1, <2>1 DEF Produce, consumer
  <1>2. CASE Assign
    <2>1. position' \in 0..Len(log)
          BY <1>2 DEF Assign
    <2>2. skipped' \in SUBSET (0..Len(log) - 1)
          BY <1>2 DEF Assign
    <2> QED BY <1>2, <2>1, <2>2 DEF Assign
  <1>3. CASE AutoCommit
        BY <1>3 DEF AutoCommit, consumer
  <1>4. CASE Poll
    <2>1. PICK n \in 1..Smaller(MaxPoll, Len(log) - position) : position' = position + n
          BY <1>4 DEF Poll
    <2>2. position' \in 0..Len(log) /\ first' < position'
          BY <1>4, <2>1 DEF Poll, Smaller
    <2> QED BY <1>4, <2>2 DEF Poll
  <1>5. CASE ListenThrows
        BY <1>5 DEF ListenThrows
  <1>6. CASE Save
    <2>1. es' \in [Record -> Nat]
          BY <1>6 DEF Save
    <2>2. tried' \in SUBSET (0..Len(log) - 1)
          BY <1>6, BatchInLog DEF Save
    <2> QED BY <1>6, <2>1, <2>2 DEF Save
  <1>7. CASE Crash
    <2>1. stops' \in 0..MaxStops
          BY <1>7 DEF Crash
    <2> QED BY <1>7, <2>1 DEF Crash
  <1>8. CASE Revoke
    <2>1. stops' \in 0..MaxStops
          BY <1>8 DEF Revoke
    <2> QED BY <1>8, <2>1 DEF Revoke
  <1>9. CASE UNCHANGED vars
        BY <1>9 DEF vars, consumer
  <1> QED BY <1>1, <1>2, <1>3, <1>4, <1>5, <1>6, <1>7, <1>8, <1>9 DEF Next

-----------------------------------------------------------------------------

LEMMA InitCommit == Init => CommitInv
  BY DEF Init, CommitInv, CommittedWereTried, NoOffset

\* Every step keeps the commit behind the settled offsets.
LEMMA NextCommit == IInv /\ [Next]_vars => CommitInv'
  <1> SUFFICES ASSUME TypeOK, CommitInv, [Next]_vars PROVE CommitInv'
      BY DEF IInv
  <1> USE DEF TypeOK, CommitInv, CommittedWereTried, Settled, Safe, NoOffset
  <1>1. ASSUME NEW r \in Record, Produce(r) PROVE CommitInv'
        BY <1>1 DEF Produce, consumer
  <1>2. CASE Assign
    <2>1. CASE committed = NoOffset
          BY <1>2, <2>1 DEF Assign
    <2>2. CASE committed # NoOffset
          BY <1>2, <2>2 DEF Assign
    <2> QED BY <2>1, <2>2
  <1>3. CASE AutoCommit
        BY <1>3 DEF AutoCommit, consumer
  <1>4. CASE Poll
        BY <1>4 DEF Poll
  <1>5. CASE ListenThrows
        BY <1>5 DEF ListenThrows
  <1>6. CASE Save
        BY <1>6 DEF Save, Batch
  <1>7. CASE Crash
        BY <1>7 DEF Crash
  <1>8. CASE Revoke
        BY <1>8 DEF Revoke
  <1>9. CASE UNCHANGED vars
        BY <1>9 DEF vars, consumer
  <1> QED BY <1>1, <1>2, <1>3, <1>4, <1>5, <1>6, <1>7, <1>8, <1>9 DEF Next

\* A commit takes the position, which the group's offset has not passed.
LEMMA NextGrows == IInv /\ [Next]_vars => committed' >= committed
  <1> SUFFICES ASSUME TypeOK, CommitInv, [Next]_vars PROVE committed' >= committed
      BY DEF IInv
  <1>1. committed \in Int
        BY DEF TypeOK, NoOffset
  <1>2. CASE AutoCommit
        BY <1>2 DEF AutoCommit, CommitInv, Safe, TypeOK, NoOffset
  <1>3. CASE ~AutoCommit
    <2>1. committed' = committed
          BY <1>3 DEF Next, vars, consumer, Produce, Assign, Poll, ListenThrows, Save, Crash, Revoke
    <2> QED BY <1>1, <2>1
  <1> QED BY <1>2, <1>3

LEMMA InitBehind == Init => BehindInv
  BY DEF Init, BehindInv, NoOffset

\* Every step keeps what was passed over behind the batches.
LEMMA NextBehind == IInv /\ BehindInv /\ [Next]_vars => BehindInv'
  <1> SUFFICES ASSUME TypeOK, CommitInv, BehindInv, [Next]_vars PROVE BehindInv'
      BY DEF IInv
  <1> USE DEF TypeOK, BehindInv, Safe, Batch, NoOffset
  <1>1. ASSUME NEW r \in Record, Produce(r) PROVE BehindInv'
        BY <1>1 DEF Produce, consumer
  <1>2. CASE Assign
    <2>1. CASE committed = NoOffset
          BY <1>2, <2>1 DEF Assign
    <2>2. CASE committed # NoOffset
          BY <1>2, <2>2 DEF Assign
    <2> QED BY <2>1, <2>2
  <1>3. CASE AutoCommit
        BY <1>3 DEF AutoCommit, consumer
  <1>4. CASE Poll
        BY <1>4 DEF Poll, CommitInv
  <1>5. CASE ListenThrows
        BY <1>5 DEF ListenThrows
  <1>6. CASE Save
        BY <1>6 DEF Save
  <1>7. CASE Crash
        BY <1>7 DEF Crash
  <1>8. CASE Revoke
        BY <1>8 DEF Revoke
  <1>9. CASE UNCHANGED vars
        BY <1>9 DEF vars, consumer
  <1> QED BY <1>1, <1>2, <1>3, <1>4, <1>5, <1>6, <1>7, <1>8, <1>9 DEF Next

-----------------------------------------------------------------------------

LEMMA InitCopies == Init => CopiesInv
  BY DEF Init, CopiesInv, CopiesNeedReassignment, IsInjective, Safe, Batch

\* Every step keeps the copies within the bound.
LEMMA NextCopies == TypeOK /\ CopiesInv /\ [Next]_vars => CopiesInv'
  <1> SUFFICES ASSUME TypeOK, CopiesInv, [Next]_vars PROVE CopiesInv'
      OBVIOUS
  <1> USE DEF TypeOK, CopiesInv, CopiesNeedReassignment, Safe, Batch
  <1>1. ASSUME NEW r \in Record, Produce(r) PROVE CopiesInv'
    <2>1. /\ log' \in Seq(Record) /\ Len(log') = Len(log) + 1
          /\ log'[Len(log) + 1] = r /\ \A i \in 1..Len(log) : log'[i] = log[i]
          BY <1>1 DEF Produce
    <2>2. IsInjective(log')
          BY <1>1, <2>1 DEF Produce, IsInjective, Range
    <2>3. Range(log') = Range(log) \cup {r}
      <3>1. DOMAIN log' = 1..Len(log) + 1 /\ DOMAIN log = 1..Len(log)
            BY <2>1
      <3>2. Len(log) \in Nat
            OBVIOUS
      <3>3. 1..Len(log) + 1 = 1..Len(log) \cup {Len(log) + 1}
            BY <3>2, OneMore
      <3> QED BY <2>1, <3>1, <3>3 DEF Range
    <2>4. /\ es' = es /\ stops' = stops /\ assigned' = assigned /\ phase' = phase
          /\ first' = first /\ position' = position /\ es[r] = 0
          BY <1>1 DEF Produce, consumer
    <2>5. (assigned => \A i \in Safe..Len(log) - 1 : es[log[i + 1]] <= stops)'
      <3> SUFFICES ASSUME assigned, NEW i \in Safe..Len(log), i \in Int
                   PROVE  es[log'[i + 1]] <= stops
          BY <2>1, <2>4
      <3>1. CASE i = Len(log)
            BY <3>1, <2>1, <2>4
      <3>2. CASE i # Len(log)
        <4>1. i \in Safe..Len(log) - 1 /\ i + 1 \in 1..Len(log)
              BY <3>2
        <4>2. log'[i + 1] = log[i + 1]
              BY <4>1, <2>1
        <4> QED BY <4>1, <4>2
      <3> QED BY <3>1, <3>2
    <2>6. (~assigned /\ phase = "listen" => \A i \in Batch : es[log[i + 1]] < stops)'
      <3>1. \A i \in first..position - 1 : i + 1 \in 1..Len(log)
            OBVIOUS
      <3>2. \A i \in first..position - 1 : log'[i + 1] = log[i + 1]
            BY <2>1, <3>1
      <3> QED BY <2>4, <3>2
    <2> QED BY <2>2, <2>3, <2>4, <2>5, <2>6
  <1>2. CASE Assign
    <2>1. \A i \in 0..Len(log) - 1 : log[i + 1] \in Record
          OBVIOUS
    <2>2. position' \in 0..Len(log)
          BY <1>2 DEF Assign
    <2> QED BY <1>2, <2>1, <2>2 DEF Assign
  <1>3. CASE AutoCommit
        BY <1>3 DEF AutoCommit, consumer
  <1>4. CASE Poll
        BY <1>4 DEF Poll
  <1>5. CASE ListenThrows
        BY <1>5 DEF ListenThrows
  <1>6. CASE Save
    <2>1. PICK S \in SUBSET RecordsOf(Batch) :
            es' = [r \in Record |-> IF r \in S THEN es[r] + 1 ELSE es[r]]
          BY <1>6 DEF Save
    <2>2. \A r \in S : \E i \in first..position - 1 : r = log[i + 1]
          BY <2>1 DEF RecordsOf
    <2>3. \A i \in position..Len(log) - 1 : log[i + 1] \notin S
          BY <2>2 DEF IsInjective
    <2>4. \A r \in S : r \in Range(log)
          BY <2>2 DEF Range
    <2>5. \A r \in S : es[r] <= stops /\ (~assigned => es[r] < stops)
          BY <1>6, <2>2 DEF Save
    <2>6. \A r \in Record : es'[r] = IF r \in S THEN es[r] + 1 ELSE es[r]
          BY <2>1
    <2>7. /\ log' = log /\ stops' = stops /\ assigned' = assigned
          /\ phase = "listen" /\ phase' = "idle" /\ position' = position
          BY <1>6 DEF Save
    <2>8. CopiesNeedReassignment'
          BY <2>5, <2>6, <2>7
    <2>9. (\A r \in Record \ Range(log) : es[r] = 0)'
          BY <2>4, <2>6, <2>7
    <2>10. (assigned => \A i \in Safe..Len(log) - 1 : es[log[i + 1]] <= stops)'
      <3> SUFFICES ASSUME assigned, NEW i \in position..Len(log) - 1
                   PROVE  es'[log[i + 1]] <= stops
          BY <2>7
      <3>1. log[i + 1] \in Record /\ i \in first..Len(log) - 1
            BY <2>7
      <3>2. es'[log[i + 1]] = es[log[i + 1]]
            BY <2>3, <2>6, <3>1
      <3> QED BY <2>7, <3>1, <3>2
    <2>11. (~assigned => \A r \in Record : es[r] <= stops)'
          BY <2>5, <2>6, <2>7
    <2> QED BY <2>7, <2>8, <2>9, <2>10, <2>11
  <1>7. CASE Crash
    <2>1. \A i \in 0..Len(log) - 1 : log[i + 1] \in Record
          OBVIOUS
    <2> QED BY <1>7, <2>1 DEF Crash
  <1>8. CASE Revoke
    <2>1. \A i \in 0..Len(log) - 1 : log[i + 1] \in Record
          OBVIOUS
    <2> QED BY <1>8, <2>1 DEF Revoke
  <1>9. CASE UNCHANGED vars
        BY <1>9 DEF vars, consumer
  <1> QED BY <1>1, <1>2, <1>3, <1>4, <1>5, <1>6, <1>7, <1>8, <1>9 DEF Next

-----------------------------------------------------------------------------
(* Theorems *)

LEMMA Invariance == Spec => []IInv
  <1>1. Init => IInv
        BY InitType, InitCommit DEF IInv
  <1>2. IInv /\ [Next]_vars => IInv'
        BY NextType, NextCommit DEF IInv
  <1> QED BY <1>1, <1>2, PTL DEF Spec

LEMMA BehindInvariance == Spec => []BehindInv
  BY InitBehind, NextBehind, Invariance, PTL DEF Spec

LEMMA CopiesInvariance == Spec => []CopiesInv
  <1>1. IInv => TypeOK
        BY DEF IInv
  <1> QED BY <1>1, InitCopies, NextCopies, Invariance, PTL DEF Spec

\* The variables of the consumer keep their types and a batch stays inside the
\* log, through replays, rebalances and stops.
THEOREM TypeCorrect == Spec => []TypeOK
  <1>1. IInv => TypeOK
        BY DEF IInv
  <1> QED BY <1>1, Invariance, PTL

\* The automatic commit never passes a record that was neither handed to
\* saveAll nor skipped by a start without a committed offset.
THEOREM CommittedWereTriedHolds == Spec => []CommittedWereTried
  <1>1. IInv => CommittedWereTried
        BY DEF IInv, CommitInv
  <1> QED BY <1>1, Invariance, PTL

\* No record is indexed more often than the assignment was lost, and once more:
\* the replay of a failed batch alone makes no copy.
THEOREM CopiesNeedReassignmentHolds == Spec => []CopiesNeedReassignment
  <1>1. CopiesInv => CopiesNeedReassignment
        BY DEF CopiesInv
  <1> QED BY <1>1, CopiesInvariance, PTL

\* The group's offset never goes back.
THEOREM CommitsOnlyGrowHolds == Spec => CommitsOnlyGrow
  <1>1. IInv /\ [Next]_vars => [committed' >= committed]_vars
        BY NextGrows
  <1> QED BY <1>1, Invariance, PTL DEF Spec, CommitsOnlyGrow

\* What was committed is not indexed again: a batch lies above the commit, also
\* one that lost its assignment, and no record is in the log twice.
THEOREM CommittedIsFinalHolds == Spec => CommittedIsFinal
  <1> DEFINE Final == \A i \in 1..committed : es'[log[i]] = es[log[i]]
  <1>1. IInv /\ BehindInv /\ CopiesInv /\ [Next]_vars => [Final]_vars
    <2> SUFFICES ASSUME IInv, BehindInv, CopiesInv, Next, NEW i \in 1..committed
                 PROVE  es'[log[i]] = es[log[i]]
        OBVIOUS
    <2>1. /\ log \in Seq(Record) /\ committed \in {NoOffset} \cup 0..Len(log)
          /\ position \in 0..Len(log) /\ first \in 0..Len(log)
          BY DEF IInv, TypeOK
    <2>2. i \in 1..Len(log) /\ log[i] \in Record /\ i - 1 < committed
          BY <2>1 DEF NoOffset
    <2>3. CASE Save
      <3>1. \A j \in Batch : j + 1 \in 1..Len(log) /\ j + 1 # i
            BY <2>1, <2>2, <2>3 DEF Save, Batch, BehindInv, NoOffset
      <3>2. \A j \in Batch : log[j + 1] # log[i]
            BY <2>1, <2>2, <3>1 DEF CopiesInv, IsInjective
      <3>3. log[i] \notin RecordsOf(Batch)
            BY <3>2 DEF RecordsOf
      <3> QED BY <2>2, <2>3, <3>3 DEF Save
    <2>4. CASE ~Save
          BY <2>4 DEF Next, Produce, Assign, AutoCommit, Poll, ListenThrows, Crash, Revoke
    <2> QED BY <2>3, <2>4
  <1> QED BY <1>1, Invariance, BehindInvariance, CopiesInvariance, PTL
          DEF Spec, CommittedIsFinal
=============================================================================
