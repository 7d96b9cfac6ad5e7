----------------------------- MODULE StoreProofs -----------------------------
(***************************************************************************)
(* Proofs about StateStore and the two components built on it, Feed and    *)
(* Runner, for every number of sources, connections and panels and every   *)
(* bound.                                                                  *)
(*                                                                         *)
(* The store: typing, and what the queues of the subscribers hold.  The    *)
(* feed obeys the store's specification, so what is shown of the queues    *)
(* holds in it, and a panel the store feeds is on its way to showing the   *)
(* stored readings.  The runner: the age of a reading and the time left to *)
(* the next event of its loop add up to no more than the loop's stages     *)
(* allow, and the doubling loop computes its closed form.                  *)
(***************************************************************************)
EXTENDS Feed, Runner, SequenceTheorems, WellFoundedInduction, TLAPS

(* A broadcast appends the event where it fits and drops who is full.      *)
LEMMA BroadcastTypes ==
    ASSUME StoreTypeOK, NEW e \in Events, Broadcast(e)
    PROVE  /\ buffer' \in [Conns -> Seq(Events)]
           /\ \A c \in Conns : Len(buffer'[c]) <= BufferCap
           /\ subscribers' \in SUBSET Conns
           /\ closed' \in SUBSET Conns
           /\ subscribers' \cap closed' = {}
<1>1. buffer' \in [Conns -> Seq(Events)]
  BY AppendProperties DEF StoreTypeOK, Broadcast
<1>2. ASSUME NEW c \in Conns PROVE Len(buffer'[c]) <= BufferCap
  <2>1. CASE c \in subscribers /\ ~Full(c)
    <3>1. buffer'[c] = Append(buffer[c], e)
      BY <2>1 DEF Broadcast
    <3>2. Len(buffer'[c]) = Len(buffer[c]) + 1
      BY <3>1, AppendProperties DEF StoreTypeOK
    <3>3. Len(buffer[c]) <= BufferCap /\ Len(buffer[c]) # BufferCap /\ Len(buffer[c]) \in Nat
      BY <2>1, LenProperties DEF StoreTypeOK, Full
    <3> QED
      BY <3>2, <3>3, BufferCapAssumption
  <2>2. CASE ~(c \in subscribers /\ ~Full(c))
    BY <2>2 DEF StoreTypeOK, Broadcast
  <2> QED
    BY <2>1, <2>2
<1> QED
  BY <1>1, <1>2 DEF StoreTypeOK, Broadcast

LEMMA NextVersionType ==
    ASSUME StoreTypeOK, NEW s \in Sources
    PROVE  NextVersion(s) \in 0..MaxVersion
<1>1. entry[s].version \in 0..MaxVersion
  BY DEF StoreTypeOK, Entries
<1> QED
  BY <1>1, MaxVersionAssumption DEF NextVersion

LEMMA StoreTypeInit == StoreInit => StoreTypeOK
<1> SUFFICES ASSUME StoreInit PROVE StoreTypeOK
  OBVIOUS
<1>1. entry \in [Sources -> Entries]
  <2>1. ASSUME NEW s \in Sources PROVE Register(s) \in Entries
    BY MaxVersionAssumption DEF Register, Entries, Statuses, Errors
  <2> QED
    BY <2>1 DEF StoreInit
<1>2. buffer \in [Conns -> Seq(Events)] /\ \A c \in Conns : Len(buffer[c]) = 0
  BY EmptySeq DEF StoreInit
<1> QED
  BY <1>1, <1>2, BufferCapAssumption DEF StoreInit, StoreTypeOK

(* A failed poll changes status and error only.                            *)
LEMMA FailKeepsVersions ==
    ASSUME StoreTypeOK, NEW s \in Sources, Fail(s)
    PROVE  /\ entry' \in [Sources -> Entries]
           /\ \A x \in Sources : entry'[x].version = entry[x].version
           /\ UNCHANGED <<subscribers, closed, buffer>>
<1> DEFINE e == [entry[s] EXCEPT !.status = "degraded", !.lastError = "poll failed"]
<1>1. entry \in [Sources -> Entries] /\ entry[s] \in Entries
  BY DEF StoreTypeOK
<1>2. e \in Entries /\ e.version = entry[s].version
  BY <1>1 DEF Entries, Statuses, Errors
<1>3. entry' = [entry EXCEPT ![s] = e]
  BY DEF Fail
<1> HIDE DEF e
<1>4. entry' \in [Sources -> Entries] /\ \A x \in Sources : entry'[x].version = entry[x].version
  BY <1>1, <1>2, <1>3
<1> QED
  BY <1>4 DEF Fail

LEMMA StoreTypeStep == StoreTypeOK /\ [StoreNext]_storeVars => StoreTypeOK'
<1> SUFFICES ASSUME StoreTypeOK, [StoreNext]_storeVars PROVE StoreTypeOK'
  OBVIOUS
<1>1. ASSUME NEW s \in Enabled, Publish(s) PROVE StoreTypeOK'
  <2> s \in Sources
    BY EnabledAssumption
  <2>1. NextVersion(s) \in 0..MaxVersion /\ Reading(s) \in Events
    BY NextVersionType DEF Reading, Events
  <2>2. entry' \in [Sources -> Entries] /\ Broadcast(Reading(s))
    <3>1. CASE Update(s)
      BY <3>1, <2>1 DEF Update, StoreTypeOK, Entries, Statuses, Errors
    <3>2. CASE UpdatePartial(s, "reduced capability")
      BY <3>2, <2>1 DEF UpdatePartial, StoreTypeOK, Entries, Statuses, Errors
    <3> QED
      BY <1>1, <3>1, <3>2 DEF Publish
  <2> QED
    BY <2>1, <2>2, BroadcastTypes DEF StoreTypeOK
<1>2. ASSUME NEW s \in Enabled, Fail(s) PROVE StoreTypeOK'
  BY <1>2, EnabledAssumption, FailKeepsVersions DEF StoreTypeOK
<1>3. ASSUME NEW c \in Conns, Subscribe(c) PROVE StoreTypeOK'
  BY <1>3, EmptySeq, BufferCapAssumption DEF Subscribe, StoreTypeOK
<1>4. ASSUME NEW c \in Conns, Dequeue(c) PROVE StoreTypeOK'
  <2>1. /\ Tail(buffer[c]) \in Seq(Events)
        /\ Len(Tail(buffer[c])) = Len(buffer[c]) - 1
        /\ Len(buffer[c]) \in Nat
    BY <1>4, HeadTailProperties, LenProperties DEF Dequeue, StoreTypeOK
  <2>2. Len(Tail(buffer[c])) <= BufferCap
    BY <2>1, BufferCapAssumption DEF StoreTypeOK
  <2> QED
    BY <1>4, <2>1, <2>2 DEF Dequeue, StoreTypeOK
<1>5. ASSUME NEW c \in Conns, Cancel(c) PROVE StoreTypeOK'
  BY <1>5 DEF Cancel, StoreTypeOK
<1>6. CASE UNCHANGED storeVars
  BY <1>6 DEF storeVars, StoreTypeOK
<1> QED
  BY <1>1, <1>2, <1>3, <1>4, <1>5, <1>6 DEF StoreNext

(* The store's state keeps its types, and no queue outgrows                *)
(* subscriberBuffer, whatever is published and whoever comes and goes.     *)
THEOREM StoreTypeCorrect == StoreSpec => []StoreTypeOK
<1>1. QED
  BY StoreTypeInit, StoreTypeStep, PTL DEF StoreSpec

-------------------------------------------------------------------------------
(* A publish broadcasts the next version of its source, one above the      *)
(* stored one, and touches no other source's entry.                        *)
LEMMA PublishIsNext ==
    ASSUME StoreTypeOK, NEW s \in Enabled, Publish(s)
    PROVE  /\ s \in Sources
           /\ entry[s].version \in Nat
           /\ entry'[s].version = entry[s].version + 1
           /\ \A x \in Sources \ {s} : entry'[x] = entry[x]
           /\ Reading(s) \in Events
           /\ Reading(s) = [source |-> s, version |-> entry[s].version + 1]
           /\ Broadcast(Reading(s))
<1>1. s \in Sources
  BY EnabledAssumption
<1>2. entry[s].version \in 0..MaxVersion /\ entry \in [Sources -> Entries]
  BY <1>1 DEF StoreTypeOK, Entries
<1>3. NextVersion(s) = entry[s].version + 1 /\ NextVersion(s) \in 0..MaxVersion
  <2>1. entry[s].version < MaxVersion
    BY DEF Publish
  <2>2. NextVersion(s) = entry[s].version + 1
    BY <2>1 DEF NextVersion
  <2> QED
    BY <1>2, <2>1, <2>2, MaxVersionAssumption
<1>4. ASSUME Update(s)
      PROVE  /\ entry'[s].version = NextVersion(s)
             /\ \A x \in Sources \ {s} : entry'[x] = entry[x]
             /\ Broadcast(Reading(s))
  BY <1>1, <1>2, <1>4 DEF Update
<1>5. ASSUME UpdatePartial(s, "reduced capability")
      PROVE  /\ entry'[s].version = NextVersion(s)
             /\ \A x \in Sources \ {s} : entry'[x] = entry[x]
             /\ Broadcast(Reading(s))
  BY <1>1, <1>2, <1>5 DEF UpdatePartial
<1>6. /\ entry'[s].version = NextVersion(s)
      /\ \A x \in Sources \ {s} : entry'[x] = entry[x]
      /\ Broadcast(Reading(s))
  BY <1>4, <1>5 DEF Publish
<1>7. Reading(s) \in Events /\ Reading(s) = [source |-> s, version |-> entry[s].version + 1]
  BY <1>1, <1>3 DEF Reading, Events
<1> QED
  BY <1>1, <1>2, <1>3, <1>6, <1>7

(* What a broadcast does to one queue.                                     *)
LEMMA BroadcastQueue ==
    ASSUME StoreTypeOK, NEW e \in Events, Broadcast(e), NEW c \in Conns
    PROVE  /\ buffer[c] \in Seq(Events)
           /\ c \in subscribers' => c \in subscribers /\ buffer'[c] = Append(buffer[c], e)
           /\ buffer'[c] = Append(buffer[c], e) \/ buffer'[c] = buffer[c]
BY DEF StoreTypeOK, Broadcast

(* Every step but a publish leaves versions alone, and each queue as it    *)
(* was, shorter by its head, or empty.                                     *)
Shrinks(c) ==
    \/ buffer'[c] = buffer[c]
    \/ buffer[c] # <<>> /\ buffer'[c] = Tail(buffer[c])
    \/ buffer'[c] = <<>>

LEMMA OtherSteps ==
    ASSUME StoreTypeOK, [StoreNext]_storeVars,
           ~ \E s \in Enabled : Publish(s)
    PROVE  /\ \A s \in Sources : entry'[s].version = entry[s].version
           /\ \A c \in Conns : /\ Shrinks(c)
                               /\ c \in subscribers' => c \in subscribers \/ buffer'[c] = <<>>
<1>1. ASSUME NEW s \in Enabled, Fail(s)
      PROVE  \A x \in Sources : entry'[x].version = entry[x].version
  BY <1>1, EnabledAssumption, FailKeepsVersions
<1>2. ASSUME NEW s \in Enabled, Fail(s)
      PROVE  UNCHANGED <<subscribers, buffer>>
  BY <1>2 DEF Fail
<1>3. ASSUME NEW d \in Conns, Subscribe(d)
      PROVE  /\ UNCHANGED entry
             /\ \A c \in Conns : /\ Shrinks(c)
                                 /\ c \in subscribers' => c \in subscribers \/ buffer'[c] = <<>>
  BY <1>3 DEF Subscribe, StoreTypeOK, Shrinks
<1>4. ASSUME NEW d \in Conns, Dequeue(d)
      PROVE  /\ UNCHANGED <<entry, subscribers>>
             /\ \A c \in Conns : Shrinks(c)
  BY <1>4 DEF Dequeue, StoreTypeOK, Shrinks
<1>5. ASSUME NEW d \in Conns, Cancel(d)
      PROVE  /\ UNCHANGED <<entry, buffer>>
             /\ subscribers' \subseteq subscribers
  BY <1>5 DEF Cancel
<1>6. CASE UNCHANGED storeVars
  BY <1>6 DEF storeVars, Shrinks
<1>7. ASSUME UNCHANGED buffer PROVE \A c \in Conns : Shrinks(c)
  BY <1>7 DEF Shrinks
<1> QED
  BY <1>1, <1>2, <1>3, <1>4, <1>5, <1>6, <1>7 DEF StoreNext

-------------------------------------------------------------------------------
(* The queue of a subscriber has no gaps: the step, publish by publish and *)
(* receive by receive.                                                     *)
LEMMA GaplessStep == StoreTypeOK /\ Gapless /\ [StoreNext]_storeVars => Gapless'
<1> SUFFICES ASSUME StoreTypeOK, Gapless, [StoreNext]_storeVars PROVE Gapless'
  OBVIOUS
<1>0. subscribers' \subseteq Conns
  BY StoreTypeStep DEF StoreTypeOK
<1> SUFFICES ASSUME NEW c \in Conns, c \in subscribers',
                    NEW i \in 1..Len(buffer'[c])
             PROVE  \/ buffer'[c][i].version = entry'[buffer'[c][i].source].version
                    \/ \E j \in (i + 1)..Len(buffer'[c]) :
                          buffer'[c][j] = [source |-> buffer'[c][i].source,
                                           version |-> buffer'[c][i].version + 1]
  BY <1>0 DEF Gapless
<1> DEFINE q == buffer[c]
<1>1. q \in Seq(Events) /\ Len(q) \in Nat /\ q \in [1..Len(q) -> Events]
  BY LenProperties DEF StoreTypeOK
<1>2. ASSUME NEW k \in 1..Len(q)
      PROVE  q[k] \in Events /\ q[k].source \in Sources
  BY <1>1, <1>2 DEF Events
<1>3. ASSUME NEW k \in 1..Len(q), c \in subscribers
      PROVE  \/ q[k].version = entry[q[k].source].version
             \/ \E j \in (k + 1)..Len(q) : q[j] = [source |-> q[k].source, version |-> q[k].version + 1]
  BY <1>3 DEF Gapless
<1>4. ASSUME NEW s \in Enabled, Publish(s)
      PROVE  \/ buffer'[c][i].version = entry'[buffer'[c][i].source].version
             \/ \E j \in (i + 1)..Len(buffer'[c]) :
                   buffer'[c][j] = [source |-> buffer'[c][i].source,
                                    version |-> buffer'[c][i].version + 1]
  <2> DEFINE e == Reading(s)
  <2>1. /\ s \in Sources
        /\ entry'[s].version = entry[s].version + 1
        /\ \A x \in Sources \ {s} : entry'[x] = entry[x]
        /\ e = [source |-> s, version |-> entry[s].version + 1]
        /\ e \in Events
    BY <1>4, PublishIsNext
  <2>2. c \in subscribers /\ buffer'[c] = Append(q, e)
    BY <1>4, PublishIsNext, BroadcastQueue
  <2>3. /\ Len(buffer'[c]) = Len(q) + 1
        /\ \A k \in 1..Len(q) : buffer'[c][k] = q[k]
        /\ buffer'[c][Len(q) + 1] = e
    BY <1>1, <2>1, <2>2, AppendProperties
  <2> HIDE DEF e, q
  <2>4. CASE i = Len(q) + 1
    BY <2>1, <2>3, <2>4
  <2>5. CASE i \in 1..Len(q) /\ q[i].version = entry[q[i].source].version /\ q[i].source = s
    <3>1. Len(q) + 1 \in (i + 1)..Len(buffer'[c])
      BY <1>1, <2>3, <2>5
    <3>2. buffer'[c][Len(q) + 1] = [source |-> buffer'[c][i].source,
                                    version |-> buffer'[c][i].version + 1]
      BY <2>1, <2>3, <2>5
    <3> QED
      BY <3>1, <3>2
  <2>6. CASE i \in 1..Len(q) /\ q[i].version = entry[q[i].source].version /\ q[i].source # s
    BY <1>2, <2>1, <2>3, <2>6
  <2>7. ASSUME i \in 1..Len(q),
               NEW j \in (i + 1)..Len(q),
               q[j] = [source |-> q[i].source, version |-> q[i].version + 1]
        PROVE  \E k \in (i + 1)..Len(buffer'[c]) :
                  buffer'[c][k] = [source |-> buffer'[c][i].source,
                                   version |-> buffer'[c][i].version + 1]
    <3>1. j \in 1..Len(q) /\ j \in (i + 1)..Len(buffer'[c])
      BY <1>1, <2>3, <2>7
    <3> QED
      BY <2>3, <2>7, <3>1
  <2>8. i \in 1..Len(q) \/ i = Len(q) + 1
    BY <1>1, <2>3
  <2> QED
    BY <1>3, <2>2, <2>4, <2>5, <2>6, <2>7, <2>8
<1>5. ASSUME ~ \E s \in Enabled : Publish(s)
      PROVE  \/ buffer'[c][i].version = entry'[buffer'[c][i].source].version
             \/ \E j \in (i + 1)..Len(buffer'[c]) :
                   buffer'[c][j] = [source |-> buffer'[c][i].source,
                                    version |-> buffer'[c][i].version + 1]
  <2>1. /\ \A s \in Sources : entry'[s].version = entry[s].version
        /\ Shrinks(c)
        /\ c \in subscribers \/ buffer'[c] = <<>>
    BY <1>5, OtherSteps
  <2>2. CASE buffer'[c] = <<>>
    BY <2>2
  <2>3. CASE buffer'[c] = q /\ c \in subscribers
    BY <1>2, <1>3, <2>1, <2>3
  <2>4. CASE q # <<>> /\ buffer'[c] = Tail(q) /\ c \in subscribers
    <3>1. /\ Len(buffer'[c]) = Len(q) - 1
          /\ \A k \in 1..Len(buffer'[c]) : buffer'[c][k] = q[k + 1]
      BY <1>1, <2>4, HeadTailProperties
    <3>0. Len(q) \in Nat /\ Len(buffer'[c]) \in Int /\ i \in Int /\ 1 <= i /\ i <= Len(q) - 1
      BY <1>1, <3>1
    <3> HIDE DEF q
    <3>2. i + 1 \in 1..Len(q) /\ buffer'[c][i] = q[i + 1]
      BY <3>0, <3>1
    <3>3. CASE q[i + 1].version = entry[q[i + 1].source].version
      BY <1>2, <2>1, <3>2, <3>3
    <3>4. ASSUME NEW j \in (i + 2)..Len(q),
                 q[j] = [source |-> q[i + 1].source, version |-> q[i + 1].version + 1]
          PROVE  \E k \in (i + 1)..Len(buffer'[c]) :
                    buffer'[c][k] = [source |-> buffer'[c][i].source,
                                     version |-> buffer'[c][i].version + 1]
      <4>1. j - 1 \in (i + 1)..Len(buffer'[c]) /\ j - 1 \in 1..Len(buffer'[c])
        BY <3>0, <3>1, <3>4
      <4>2. buffer'[c][j - 1] = q[j]
        BY <3>1, <4>1
      <4> QED
        BY <3>2, <3>4, <4>1, <4>2
    <3>5. (i + 1) + 1 = i + 2
      OBVIOUS
    <3> QED
      BY <1>3, <2>4, <3>2, <3>3, <3>4, <3>5
  <2> QED
    BY <2>1, <2>2, <2>3, <2>4 DEF Shrinks
<1> QED
  BY <1>4, <1>5

(* No subscriber that was not dropped ever misses a reading: what is       *)
(* queued for it leads, version by version, to the stored one.             *)
THEOREM StoreGapless == StoreSpec => []Gapless
<1>1. StoreInit => Gapless
  BY DEF StoreInit, Gapless
<1> QED
  BY <1>1, StoreTypeCorrect, GaplessStep, PTL DEF StoreSpec

-------------------------------------------------------------------------------
(* No queued event is ahead of the store: the strengthening InStoredOrder  *)
(* needs, for the event a publish appends must exceed all that wait.       *)
QueuedIsPast ==
    \A c \in Conns : \A i \in 1..Len(buffer[c]) :
        buffer[c][i].version <= entry[buffer[c][i].source].version

OrderInv == InStoredOrder /\ QueuedIsPast

(* A queue that shrinks keeps a shifted part of itself.                    *)
LEMMA ShrinkShifts ==
    ASSUME StoreTypeOK, NEW c \in Conns, Shrinks(c)
    PROVE  \E d \in {0, 1} : \A k \in 1..Len(buffer'[c]) :
              k + d \in 1..Len(buffer[c]) /\ buffer'[c][k] = buffer[c][k + d]
<1> DEFINE q == buffer[c]
<1>1. q \in Seq(Events) /\ Len(q) \in Nat
  BY LenProperties DEF StoreTypeOK
<1>2. CASE buffer'[c] = q
  <2>1. \A k \in 1..Len(buffer'[c]) : k + 0 \in 1..Len(q) /\ buffer'[c][k] = q[k + 0]
    BY <1>1, <1>2
  <2> QED
    BY <2>1
<1>3. CASE buffer'[c] = <<>>
  BY <1>3
<1>4. CASE q # <<>> /\ buffer'[c] = Tail(q)
  <2>1. /\ Len(buffer'[c]) = Len(q) - 1
        /\ \A k \in 1..Len(buffer'[c]) : buffer'[c][k] = q[k + 1]
    BY <1>1, <1>4, HeadTailProperties
  <2>2. Len(q) \in Nat
    BY <1>1
  <2> HIDE DEF q
  <2>3. \A k \in 1..Len(buffer'[c]) : k + 1 \in 1..Len(q)
    BY <2>1, <2>2
  <2> QED
    BY <2>1, <2>3 DEF q
<1> QED
  BY <1>2, <1>3, <1>4 DEF Shrinks

(* An append to a queue leaves what is there and puts the event last.      *)
LEMMA AppendLast ==
    ASSUME NEW q \in Seq(Events), NEW e \in Events
    PROVE  /\ Len(q) \in Nat
           /\ Len(Append(q, e)) = Len(q) + 1
           /\ \A k \in 1..Len(q) : Append(q, e)[k] = q[k] /\ q[k] \in Events
           /\ Append(q, e)[Len(q) + 1] = e
BY AppendProperties, LenProperties

LEMMA OrderStep == StoreTypeOK /\ OrderInv /\ [StoreNext]_storeVars => OrderInv'
<1> SUFFICES ASSUME StoreTypeOK, OrderInv, [StoreNext]_storeVars,
                    NEW c \in Conns
             PROVE  /\ \A i \in 1..Len(buffer'[c]) :
                          buffer'[c][i].version <= entry'[buffer'[c][i].source].version
                    /\ \A i, j \in 1..Len(buffer'[c]) :
                          (i < j /\ buffer'[c][i].source = buffer'[c][j].source)
                             => buffer'[c][i].version < buffer'[c][j].version
  BY DEF OrderInv, InStoredOrder, QueuedIsPast
<1> DEFINE q == buffer[c]
<1>1. q \in Seq(Events) /\ Len(q) \in Nat
  BY LenProperties DEF StoreTypeOK
<1>2. ASSUME NEW i \in 1..Len(q)
      PROVE  /\ q[i].source \in Sources /\ q[i].version \in Nat
             /\ q[i].version <= entry[q[i].source].version
             /\ \A j \in 1..Len(q) : (i < j /\ q[i].source = q[j].source)
                                        => q[i].version < q[j].version
  <2>1. q[i] \in Events
    BY <1>1, LenProperties
  <2> QED
    BY <2>1 DEF Events, OrderInv, InStoredOrder, QueuedIsPast
<1>3. ASSUME NEW x \in Sources PROVE entry[x].version \in Nat
  BY DEF StoreTypeOK, Entries
<1>4. ASSUME NEW s \in Enabled, Publish(s)
      PROVE  /\ \A i \in 1..Len(buffer'[c]) :
                   buffer'[c][i].version <= entry'[buffer'[c][i].source].version
             /\ \A i, j \in 1..Len(buffer'[c]) :
                   (i < j /\ buffer'[c][i].source = buffer'[c][j].source)
                      => buffer'[c][i].version < buffer'[c][j].version
  <2> DEFINE e == Reading(s)
  <2>1. /\ s \in Sources
        /\ entry'[s].version = entry[s].version + 1
        /\ \A x \in Sources \ {s} : entry'[x] = entry[x]
        /\ e \in Events /\ e.source = s /\ e.version = entry[s].version + 1
    BY <1>4, PublishIsNext
  <2>2. \A x \in Sources : entry[x].version <= entry'[x].version
    BY <1>3, <2>1
  <2>3. \A i \in 1..Len(q) : q[i].version <= entry'[q[i].source].version
    <3> SUFFICES ASSUME NEW i \in 1..Len(q)
                 PROVE  q[i].version <= entry'[q[i].source].version
      OBVIOUS
    <3> DEFINE a == q[i].version
               b == entry[q[i].source].version
               d == entry'[q[i].source].version
    <3>0. q[i].source \in Sources /\ a \in Nat /\ a <= b
      BY <1>2
    <3>1. a \in Nat /\ b \in Nat /\ d \in Nat /\ a <= b /\ b <= d
      <4>1. b \in Nat /\ b <= d
        BY <1>3, <2>2, <3>0
      <4>2. d = b \/ d = b + 1
        BY <2>1, <3>0
      <4> QED
        BY <3>0, <4>1, <4>2
    <3> HIDE DEF a, b, d
    <3>2. a <= d
      BY <3>1
    <3> QED
      BY <3>2 DEF a, d
  <2>4. CASE buffer'[c] = q
    BY <1>2, <2>3, <2>4
  <2>5. CASE buffer'[c] = Append(q, e)
    <3>1. /\ Len(buffer'[c]) = Len(q) + 1
          /\ \A k \in 1..Len(q) : buffer'[c][k] = q[k]
          /\ buffer'[c][Len(q) + 1] = e
      BY <1>1, <2>1, <2>5, AppendLast
    <3>2. ASSUME NEW i \in 1..Len(q), q[i].source = s
          PROVE  q[i].version < e.version
      BY <1>2, <1>3, <2>1, <3>2
    <3> HIDE DEF q, e
    <3>3. \A i \in 1..Len(buffer'[c]) : i \in 1..Len(q) \/ i = Len(q) + 1
      BY <1>1, <3>1
    <3>4. e.version <= entry'[e.source].version
      BY <1>3, <2>1
    <3>5. \A i \in 1..Len(buffer'[c]) :
             buffer'[c][i].version <= entry'[buffer'[c][i].source].version
      BY <2>3, <3>1, <3>3, <3>4
    <3>6. ASSUME NEW i \in 1..Len(buffer'[c]), NEW j \in 1..Len(buffer'[c]),
                 i < j, buffer'[c][i].source = buffer'[c][j].source
          PROVE  buffer'[c][i].version < buffer'[c][j].version
      <4>1. i \in 1..Len(q)
        BY <1>1, <3>1, <3>6
      <4>2. CASE j \in 1..Len(q)
        BY <1>2, <3>1, <3>6, <4>1, <4>2
      <4>3. CASE j = Len(q) + 1
        BY <2>1, <3>1, <3>2, <3>6, <4>1, <4>3
      <4> QED
        BY <3>3, <4>2, <4>3
    <3> QED
      BY <3>5, <3>6
  <2> QED
    BY <1>4, <2>4, <2>5, PublishIsNext, BroadcastQueue
<1>5. ASSUME ~ \E s \in Enabled : Publish(s)
      PROVE  /\ \A i \in 1..Len(buffer'[c]) :
                   buffer'[c][i].version <= entry'[buffer'[c][i].source].version
             /\ \A i, j \in 1..Len(buffer'[c]) :
                   (i < j /\ buffer'[c][i].source = buffer'[c][j].source)
                      => buffer'[c][i].version < buffer'[c][j].version
  <2>1. \A x \in Sources : entry'[x].version = entry[x].version
    BY <1>5, OtherSteps
  <2>2. PICK d \in {0, 1} : \A k \in 1..Len(buffer'[c]) :
                 k + d \in 1..Len(q) /\ buffer'[c][k] = q[k + d]
    BY <1>5, OtherSteps, ShrinkShifts
  <2> HIDE DEF q
  <2>3. ASSUME NEW i \in 1..Len(buffer'[c])
        PROVE  buffer'[c][i].version <= entry'[buffer'[c][i].source].version
    <3>1. i + d \in 1..Len(q) /\ buffer'[c][i] = q[i + d]
      BY <2>2
    <3>2. q[i + d].source \in Sources /\ q[i + d].version <= entry[q[i + d].source].version
      BY <1>2, <3>1
    <3> QED
      BY <2>1, <3>1, <3>2
  <2>4. ASSUME NEW i \in 1..Len(buffer'[c]), NEW j \in 1..Len(buffer'[c]),
               i < j, buffer'[c][i].source = buffer'[c][j].source
        PROVE  buffer'[c][i].version < buffer'[c][j].version
    <3>1. i + d < j + d
      BY <2>2, <2>4
    <3> QED
      BY <1>2, <2>2, <2>4, <3>1
  <2> QED
    BY <2>3, <2>4
<1> QED
  BY <1>4, <1>5

(* Every channel, dropped ones included, delivers the readings of a source *)
(* in stored order and none of them twice.                                 *)
THEOREM StoreInStoredOrder == StoreSpec => []InStoredOrder
<1>1. StoreInit => OrderInv
  BY DEF StoreInit, OrderInv, InStoredOrder, QueuedIsPast
<1>2. OrderInv => InStoredOrder
  BY DEF OrderInv
<1> QED
  BY <1>1, <1>2, StoreTypeCorrect, OrderStep, PTL DEF StoreSpec

-------------------------------------------------------------------------------
(* The feed.                                                               *)

LEMMA FeedInitStore == Init => StoreInit
BY DEF Init

(* A connect() that came to nothing.                                       *)
ConnectStep(p) == ConnectRefused(p) \/ ConnectThrows(p)
USE DEF ConnectStep

(* Only Write, the subscription, a receive from the channel and the        *)
(* deferred cancel reach the store, each through one of its methods.       *)
LEMMA FeedStepStore == [Next]_vars => [StoreNext]_storeVars
<1> SUFFICES ASSUME Next PROVE [StoreNext]_storeVars
  BY DEF vars
<1>1. ASSUME NEW s \in Enabled, Write(s) PROVE StoreNext
  BY <1>1 DEF Write, StoreNext
<1>2. ASSUME NEW c \in Conns, Return(c) PROVE StoreNext
  BY <1>2 DEF Return, StoreNext
<1>3. ASSUME NEW c \in Conns, HandlerStep(c) \/ WriteTimeout(c) \/ Vanish(c)
      PROVE  [StoreNext]_storeVars
  <2>1. CASE SubscribeFirst(c)
    BY <2>1 DEF SubscribeFirst, StoreNext
  <2>2. CASE TakeEvent(c)
    BY <2>2 DEF TakeEvent, StoreNext
  <2>3. CASE FellBehind(c) \/ WriteTimeout(c) \/ PeerGone(c)
    BY <1>2, <2>3 DEF FellBehind, WriteTimeout, PeerGone
  <2>4. CASE SendSnapshot(c) \/ Send(c) \/ Vanish(c)
    BY <2>4 DEF SendSnapshot, Send, Vanish
  <2> QED
    BY <1>3, <2>1, <2>2, <2>3, <2>4 DEF HandlerStep
<1>4. ASSUME NEW p \in Panels,
             PanelStep(p) \/ ConnectStep(p) \/ \E c \in Conns : Accept(p, c)
      PROVE  UNCHANGED storeVars
  BY <1>4 DEF PanelStep, Open, Receive, CloseEvent, CheckStaleness, Reconnect,
              ConnectRefused, ConnectThrows, Accept
<1> QED
  BY <1>1, <1>3, <1>4 DEF Next

(* What the store promises holds in the feed: connections come and go      *)
(* without changing it but through its methods.                            *)
LEMMA FeedObeysStore == Spec => StoreSpec
<1>1. QED
  BY FeedInitStore, FeedStepStore, PTL DEF Spec, StoreSpec

(* So no subscriber is left quietly stale in the running feed ...          *)
THEOREM FeedGapless == Spec => []Gapless
<1>1. QED
  BY FeedObeysStore, StoreGapless, PTL

(* ... and every subscriber gets the readings of a source in order, once.  *)
THEOREM FeedInStoredOrder == Spec => []InStoredOrder
<1>1. QED
  BY FeedObeysStore, StoreInStoredOrder, PTL

-------------------------------------------------------------------------------
(* Types.                                                                  *)
LEMMA TypeInit == Init => TypeOK
<1> SUFFICES ASSUME Init PROVE TypeOK
  OBVIOUS
<1>1. StoreTypeOK
  BY FeedInitStore, StoreTypeInit
<1>2. wire \in [Conns -> Seq(Frames)]
  BY EmptySeq DEF Init
<1> QED
  BY <1>1, <1>2, MaxVersionAssumption, MaxFaultsAssumption DEF Init, TypeOK, Serving

LEMMA FaultType == TypeOK /\ Fault => faults' \in 0..MaxFaults
BY MaxFaultsAssumption DEF TypeOK, Fault

LEMMA ReturnTypes ==
    ASSUME TypeOK, NEW c \in Conns, Return(c)
    PROVE  /\ handler' \in [Conns -> {"idle", "returned"} \cup Serving]
           /\ pending' \in [Conns -> SUBSET Frames]
           /\ UNCHANGED <<wire, link, panelVars>>
BY DEF TypeOK, Return

LEMMA TypeStep == TypeOK /\ [Next]_vars => TypeOK'
<1> SUFFICES ASSUME TypeOK, [Next]_vars PROVE TypeOK'
  OBVIOUS
<1>1. StoreTypeOK'
  BY FeedStepStore, StoreTypeStep DEF TypeOK
<1> USE <1>1 DEF TypeOK, connVars, panelVars
<1>2. ASSUME NEW s \in Enabled, Write(s) PROVE TypeOK'
  BY <1>2 DEF Write
<1>3. ASSUME NEW c \in Conns, SubscribeFirst(c) PROVE TypeOK'
  BY <1>3 DEF SubscribeFirst, Frames, Serving
<1>4. ASSUME NEW c \in Conns, SendSnapshot(c) PROVE TypeOK'
  <2>1. SnapshotFrames \subseteq Frames
    BY DEF SnapshotFrames, Frames, Events, StoreTypeOK, Entries
  <2> QED
    BY <1>4, <2>1 DEF SendSnapshot, Serving
<1>5. ASSUME NEW c \in Conns, Send(c) PROVE TypeOK'
  <2>1. PICK f \in pending[c] : wire' = [wire EXCEPT ![c] = Append(@, f)]
    BY <1>5 DEF Send
  <2>2. f \in Frames
    BY <2>1
  <2>3. wire' \in [Conns -> Seq(Frames)]
    BY <2>1, <2>2, AppendProperties
  <2> QED
    BY <1>5, <2>3 DEF Send
<1>6. ASSUME NEW c \in Conns, TakeEvent(c) PROVE TypeOK'
  <2>1. Head(buffer[c]) \in Frames
    BY <1>6, HeadTailProperties DEF TakeEvent, Dequeue, StoreTypeOK, Frames
  <2> QED
    BY <1>6, <2>1 DEF TakeEvent
<1>7. ASSUME NEW c \in Conns, FellBehind(c) \/ PeerGone(c) PROVE TypeOK'
  BY <1>7, ReturnTypes DEF FellBehind, PeerGone
<1>8. ASSUME NEW c \in Conns, WriteTimeout(c) PROVE TypeOK'
  BY <1>8, ReturnTypes, FaultType DEF WriteTimeout
<1>9. ASSUME NEW c \in Conns, Vanish(c) PROVE TypeOK'
  BY <1>9, FaultType DEF Vanish
<1>10. ASSUME NEW p \in Panels, NEW c \in Conns, Accept(p, c) PROVE TypeOK'
  BY <1>10, EmptySeq DEF Accept, Serving
<1>11. ASSUME NEW p \in Panels, Open(p) PROVE TypeOK'
  BY <1>11 DEF Open
<1>12. ASSUME NEW p \in Panels, Receive(p) PROVE TypeOK'
  <2> DEFINE c == sock[p]
             f == Head(wire[c])
  <2>1. c \in Conns /\ f \in Frames /\ Tail(wire[c]) \in Seq(Frames)
    BY <1>12, HeadTailProperties DEF Receive
  <2>2. ApplyMessage(shown[p], f) \in [Sources -> 0..MaxVersion]
    BY <2>1, HelloAssumption DEF ApplyMessage, Frames, Events, Hello
  <2> QED
    BY <1>12, <2>1, <2>2 DEF Receive
<1>13. ASSUME NEW p \in Panels, CloseEvent(p) PROVE TypeOK'
  BY <1>13, EmptySeq DEF CloseEvent, GoDown
<1>14. ASSUME NEW p \in Panels, ConnectStep(p) PROVE TypeOK'
  BY <1>14, FaultType DEF ConnectRefused, ConnectThrows, GoDown
<1>15. ASSUME NEW p \in Panels, CheckStaleness(p) \/ Reconnect(p) PROVE TypeOK'
  BY <1>15 DEF CheckStaleness, Reconnect
<1>16. CASE UNCHANGED vars
  BY <1>16 DEF vars
<1> QED
  BY <1>2, <1>3, <1>4, <1>5, <1>6, <1>7, <1>8, <1>9, <1>10, <1>11, <1>12, <1>13, <1>14, <1>15, <1>16
  DEF Next, HandlerStep, PanelStep

(* Every variable of the feed keeps its type: no frame but a reading or    *)
(* the hello is ever in hand, in flight or on screen.                      *)
THEOREM FeedTypeCorrect == Spec => []TypeOK
<1>1. QED
  BY TypeInit, TypeStep, PTL DEF Spec

-------------------------------------------------------------------------------
(* Queues: what is last said about a source after an append or a receive.  *)
LEMMA LastAfterAppend ==
    ASSUME NEW S, NEW q \in Seq(S), NEW e \in S, NEW s, NEW v
    PROVE  /\ (e.source = s /\ e.version = v) => EndsAt(Append(q, e), s, v)
           /\ (e.source # s /\ EndsAt(q, s, v)) => EndsAt(Append(q, e), s, v)
           /\ (e.source # s /\ Silent(q, s)) => Silent(Append(q, e), s)
<1> DEFINE r == Append(q, e)
<1>1. /\ Len(q) \in Nat
      /\ Len(r) = Len(q) + 1
      /\ \A k \in 1..Len(q) : r[k] = q[k]
      /\ r[Len(q) + 1] = e
  BY AppendProperties, LenProperties
<1> HIDE DEF r
<1>2. \A k \in 1..Len(r) : k \in 1..Len(q) \/ k = Len(q) + 1
  BY <1>1
<1>3. ASSUME e.source = s, e.version = v PROVE EndsAt(r, s, v)
  <2>1. Len(q) + 1 \in 1..Len(r) /\ ((Len(q) + 1) + 1)..Len(r) = {}
    BY <1>1
  <2> QED
    BY <1>1, <1>3, <2>1 DEF EndsAt
<1>4. ASSUME e.source # s, EndsAt(q, s, v) PROVE EndsAt(r, s, v)
  <2>1. PICK i \in 1..Len(q) : /\ q[i].source = s /\ q[i].version = v
                               /\ \A j \in (i + 1)..Len(q) : q[j].source # s
    BY <1>4 DEF EndsAt
  <2>2. i \in 1..Len(r) /\ r[i] = q[i]
    BY <1>1
  <2>3. ASSUME NEW j \in (i + 1)..Len(r) PROVE r[j].source # s
    <3>1. (j \in (i + 1)..Len(q) /\ j \in 1..Len(q)) \/ j = Len(q) + 1
      BY <1>1
    <3> QED
      BY <1>1, <1>4, <2>1, <3>1
  <2> QED
    BY <2>1, <2>2, <2>3 DEF EndsAt
<1>5. ASSUME e.source # s, Silent(q, s) PROVE Silent(r, s)
  BY <1>1, <1>2, <1>5 DEF Silent
<1> QED
  BY <1>3, <1>4, <1>5 DEF r

LEMMA LastAfterTail ==
    ASSUME NEW S, NEW q \in Seq(S), q # <<>>, NEW s, NEW v
    PROVE  /\ EndsAt(q, s, v) => \/ EndsAt(Tail(q), s, v)
                                 \/ /\ Silent(Tail(q), s)
                                    /\ Head(q).source = s /\ Head(q).version = v
           /\ Silent(q, s) => Silent(Tail(q), s) /\ Head(q).source # s
<1> DEFINE r == Tail(q)
<1>1. /\ Len(q) \in Nat \ {0}
      /\ Len(r) = Len(q) - 1
      /\ \A k \in 1..Len(r) : r[k] = q[k + 1]
      /\ Head(q) = q[1]
  BY EmptySeq, HeadTailProperties
<1> HIDE DEF r
<1>2. \A k \in 1..Len(r) : k + 1 \in 2..Len(q)
  BY <1>1
<1>3. ASSUME EndsAt(q, s, v)
      PROVE  \/ EndsAt(r, s, v)
             \/ (Silent(r, s) /\ Head(q).source = s /\ Head(q).version = v)
  <2>1. PICK i \in 1..Len(q) : /\ q[i].source = s /\ q[i].version = v
                               /\ \A j \in (i + 1)..Len(q) : q[j].source # s
    BY <1>3 DEF EndsAt
  <2>2. CASE i = 1
    <3>1. \A k \in 1..Len(r) : r[k].source # s
      BY <1>1, <1>2, <2>1, <2>2
    <3> QED
      BY <1>1, <2>1, <2>2, <3>1 DEF Silent
  <2>3. CASE i # 1
    <3>1. i - 1 \in 1..Len(r) /\ r[i - 1] = q[i]
      BY <1>1, <2>3
    <3>2. ASSUME NEW j \in ((i - 1) + 1)..Len(r) PROVE r[j].source # s
      <4>1. j \in 1..Len(r) /\ j + 1 \in (i + 1)..Len(q)
        BY <1>1, <2>3
      <4> QED
        BY <1>1, <2>1, <4>1
    <3> QED
      BY <2>1, <3>1, <3>2 DEF EndsAt
  <2> QED
    BY <2>2, <2>3
<1>4. ASSUME Silent(q, s) PROVE Silent(r, s) /\ Head(q).source # s
  <2>1. 1 \in 1..Len(q) /\ \A k \in 1..Len(r) : k + 1 \in 1..Len(q)
    BY <1>1
  <2> QED
    BY <1>1, <1>4, <2>1 DEF Silent
<1> QED
  BY <1>3, <1>4 DEF r

-------------------------------------------------------------------------------
(* The last event queued for a subscriber about a source is the stored     *)
(* reading, so taking the snapshot late loses nothing.                     *)
LastIsCurrent ==
    \A c \in subscribers, s \in Sources :
        Silent(buffer[c], s) \/ EndsAt(buffer[c], s, entry[s].version)

LEMMA LastIsCurrentStep == StoreTypeOK /\ LastIsCurrent /\ [StoreNext]_storeVars => LastIsCurrent'
<1> SUFFICES ASSUME StoreTypeOK, LastIsCurrent, [StoreNext]_storeVars PROVE LastIsCurrent'
  OBVIOUS
<1>1. subscribers' \subseteq Conns
  BY StoreTypeStep DEF StoreTypeOK
<1> SUFFICES ASSUME NEW c \in Conns, c \in subscribers', NEW s \in Sources
             PROVE  Silent(buffer'[c], s) \/ EndsAt(buffer'[c], s, entry'[s].version)
  BY <1>1 DEF LastIsCurrent
<1> DEFINE q == buffer[c]
           v == entry[s].version
<1>2. q \in Seq(Events)
  BY DEF StoreTypeOK
<1>3. ASSUME c \in subscribers PROVE Silent(q, s) \/ EndsAt(q, s, v)
  BY <1>3 DEF LastIsCurrent
<1>4. ASSUME NEW x \in Enabled, Publish(x)
      PROVE  Silent(buffer'[c], s) \/ EndsAt(buffer'[c], s, entry'[s].version)
  <2> DEFINE e == Reading(x)
  <2>1. /\ e \in Events /\ e.source = x /\ e.version = entry'[x].version
        /\ s # x => entry'[s].version = v
    BY <1>4, PublishIsNext
  <2>2. c \in subscribers /\ buffer'[c] = Append(q, e)
    BY <1>4, PublishIsNext, BroadcastQueue
  <2> HIDE DEF q, e, v
  <2>3. CASE s = x
    BY <1>2, <2>1, <2>2, <2>3, LastAfterAppend
  <2>4. CASE s # x
    BY <1>2, <1>3, <2>1, <2>2, <2>4, LastAfterAppend
  <2> QED
    BY <2>3, <2>4
<1>5. ASSUME ~ \E x \in Enabled : Publish(x)
      PROVE  Silent(buffer'[c], s) \/ EndsAt(buffer'[c], s, entry'[s].version)
  <2>1. /\ entry'[s].version = v
        /\ Shrinks(c)
        /\ c \in subscribers \/ buffer'[c] = <<>>
    BY <1>5, OtherSteps
  <2>2. CASE buffer'[c] = <<>>
    BY <2>2 DEF Silent
  <2>3. CASE buffer'[c] = q /\ c \in subscribers
    BY <1>3, <2>1, <2>3
  <2>4. CASE q # <<>> /\ buffer'[c] = Tail(q) /\ c \in subscribers
    <3> HIDE DEF q, v
    <3> QED
      BY <1>2, <1>3, <2>1, <2>4, LastAfterTail
  <2> QED
    BY <2>1, <2>2, <2>3, <2>4 DEF Shrinks
<1> QED
  BY <1>4, <1>5

-------------------------------------------------------------------------------
(* The handler holds at most one frame of each source, and no connection   *)
(* serves two panels.                                                      *)
OnePerSource ==
    \A c \in Conns : \A f, g \in pending[c] : f.source = g.source => f = g

OneHolder ==
    \A p, q \in Panels : (sock[p] = sock[q] /\ sock[p] # NoConn) => p = q

FeedInv ==
    /\ TypeOK
    /\ NoOrphanSubscriber
    /\ LastIsCurrent
    /\ OnePerSource
    /\ OneHolder
    /\ Converges

LEMMA NoOrphanStep == TypeOK /\ NoOrphanSubscriber /\ [Next]_vars => NoOrphanSubscriber'
<1> SUFFICES ASSUME TypeOK, NoOrphanSubscriber, [Next]_vars PROVE NoOrphanSubscriber'
  OBVIOUS
<1> USE DEF NoOrphanSubscriber, TypeOK, StoreTypeOK, connVars, storeVars, panelVars
<1>1. ASSUME NEW s \in Enabled, Write(s) PROVE NoOrphanSubscriber'
  BY <1>1 DEF Write, Publish, Update, UpdatePartial, Fail, Broadcast
<1>2. ASSUME NEW c \in Conns, SubscribeFirst(c) \/ SendSnapshot(c) \/ Send(c) \/ TakeEvent(c) \/ Vanish(c)
      PROVE  NoOrphanSubscriber'
  <2>1. CASE SubscribeFirst(c)
    BY <2>1 DEF SubscribeFirst, Subscribe
  <2>2. CASE SendSnapshot(c)
    BY <2>2 DEF SendSnapshot
  <2>3. CASE Send(c) \/ TakeEvent(c) \/ Vanish(c)
    BY <2>3 DEF Send, TakeEvent, Dequeue, Vanish
  <2> QED
    BY <1>2, <2>1, <2>2, <2>3
<1>3. ASSUME NEW c \in Conns, FellBehind(c) \/ WriteTimeout(c) \/ PeerGone(c)
      PROVE  NoOrphanSubscriber'
  BY <1>3 DEF FellBehind, WriteTimeout, PeerGone, Return, Cancel
<1>4. ASSUME NEW p \in Panels, NEW c \in Conns, Accept(p, c) PROVE NoOrphanSubscriber'
  BY <1>4 DEF Accept
<1>5. ASSUME NEW p \in Panels, PanelStep(p) \/ ConnectStep(p) PROVE NoOrphanSubscriber'
  BY <1>5 DEF PanelStep, Open, Receive, CloseEvent, CheckStaleness, Reconnect,
              ConnectRefused, ConnectThrows
<1>6. CASE UNCHANGED vars
  BY <1>6 DEF vars
<1> QED
  BY <1>1, <1>2, <1>3, <1>4, <1>5, <1>6 DEF Next, HandlerStep

LEMMA OnePerSourceStep == TypeOK /\ OnePerSource /\ [Next]_vars => OnePerSource'
<1> SUFFICES ASSUME TypeOK, OnePerSource, [Next]_vars PROVE OnePerSource'
  OBVIOUS
<1> USE DEF OnePerSource, TypeOK, connVars, panelVars
<1>1. ASSUME NEW s \in Enabled, Write(s) PROVE OnePerSource'
  BY <1>1 DEF Write
<1>2. ASSUME NEW c \in Conns, SubscribeFirst(c) \/ TakeEvent(c) \/ Send(c) PROVE OnePerSource'
  <2>1. ASSUME NEW f, pending' = [pending EXCEPT ![c] = {f}] PROVE OnePerSource'
    BY <2>1
  <2>2. ASSUME NEW f, pending' = [pending EXCEPT ![c] = @ \ {f}] PROVE OnePerSource'
    BY <2>2
  <2> QED
    BY <1>2, <2>1, <2>2 DEF SubscribeFirst, TakeEvent, Send
<1>3. ASSUME NEW c \in Conns, SendSnapshot(c) PROVE OnePerSource'
  <2>1. \A f, g \in SnapshotFrames : f.source = g.source => f = g
    BY DEF SnapshotFrames
  <2> QED
    BY <1>3, <2>1 DEF SendSnapshot
<1>4. ASSUME NEW c \in Conns, FellBehind(c) \/ WriteTimeout(c) \/ PeerGone(c) \/ Vanish(c)
      PROVE  OnePerSource'
  BY <1>4 DEF FellBehind, WriteTimeout, PeerGone, Return, Vanish
<1>5. ASSUME NEW p \in Panels, PanelStep(p) \/ ConnectStep(p) \/ \E c \in Conns : Accept(p, c)
      PROVE  OnePerSource'
  <2>1. CASE PanelStep(p) \/ ConnectStep(p)
    <3>1. pending' = pending
      BY <2>1 DEF PanelStep, Open, Receive, CloseEvent, CheckStaleness, Reconnect,
              ConnectRefused, ConnectThrows
    <3> QED
      BY <3>1
  <2>2. ASSUME NEW c \in Conns, Accept(p, c) PROVE OnePerSource'
    BY <2>2 DEF Accept
  <2> QED
    BY <1>5, <2>1, <2>2
<1>6. CASE UNCHANGED vars
  BY <1>6 DEF vars
<1> QED
  BY <1>1, <1>2, <1>3, <1>4, <1>5, <1>6 DEF Next, HandlerStep

LEMMA OneHolderStep == TypeOK /\ OneHolder /\ [Next]_vars => OneHolder'
<1> SUFFICES ASSUME TypeOK, OneHolder, [Next]_vars PROVE OneHolder'
  OBVIOUS
<1> USE DEF OneHolder, TypeOK, connVars, panelVars
<1>1. ASSUME NEW s \in Enabled, Write(s) PROVE OneHolder'
  BY <1>1 DEF Write
<1>2. ASSUME NEW c \in Conns, HandlerStep(c) \/ WriteTimeout(c) \/ Vanish(c) PROVE OneHolder'
  BY <1>2 DEF HandlerStep, SubscribeFirst, SendSnapshot, Send, TakeEvent, FellBehind, PeerGone,
              WriteTimeout, Return, Vanish
<1>3. ASSUME NEW p \in Panels, NEW c \in Conns, Accept(p, c) PROVE OneHolder'
  BY <1>3 DEF Accept, Held
<1>4. ASSUME NEW p \in Panels, PanelStep(p) \/ ConnectStep(p) PROVE OneHolder'
  <2>1. \/ sock' = sock
        \/ sock' = [sock EXCEPT ![p] = NoConn]
    BY <1>4 DEF PanelStep, Open, Receive, CloseEvent, CheckStaleness, Reconnect,
                ConnectRefused, ConnectThrows, GoDown
  <2> QED
    BY <2>1
<1>5. CASE UNCHANGED vars
  BY <1>5 DEF vars
<1> QED
  BY <1>1, <1>2, <1>3, <1>4, <1>5 DEF Next

-------------------------------------------------------------------------------
(* Settles on explicit queues: buffer, frames in hand, wire, and screen.   *)
OnItsWay(b, h, w, x, s, v) ==
    \/ EndsAt(b, s, v)
    \/ /\ Silent(b, s)
       /\ \/ [source |-> s, version |-> v] \in h
          \/ /\ \A f \in h : f.source # s
             /\ EndsAt(w, s, v) \/ (Silent(w, s) /\ x = v)

LEMMA ConvergesNow ==
    Converges <=>
        \A p \in Panels, c \in Conns, s \in Sources :
            (sock[p] = c /\ handler[c] = "loop" /\ c \in subscribers /\ entry[s].version > 0)
                => OnItsWay(buffer[c], pending[c], wire[c], shown[p][s], s, entry[s].version)
BY DEF Converges, Attached, Settles, OnItsWay

LEMMA ConvergesNext ==
    Converges' <=>
        \A p \in Panels, c \in Conns, s \in Sources :
            (sock'[p] = c /\ handler'[c] = "loop" /\ c \in subscribers' /\ entry'[s].version > 0)
                => OnItsWay(buffer'[c], pending'[c], wire'[c], shown'[p][s], s, entry'[s].version)
BY DEF Converges, Attached, Settles, OnItsWay

(* A frame moves one stage nearer to the screen and what is last said of   *)
(* every source stays the same, at each of the three stages.               *)
LEMMA TakeMoves ==
    ASSUME NEW b \in Seq(Events), b # <<>>, NEW w, NEW x, NEW s, NEW v,
           OnItsWay(b, {}, w, x, s, v)
    PROVE  OnItsWay(Tail(b), {Head(b)}, w, x, s, v)
<1>1. Head(b) = [source |-> Head(b).source, version |-> Head(b).version]
  <2>1. Head(b) \in Events
    BY HeadTailProperties
  <2> QED
    BY <2>1 DEF Events
<1>2. CASE EndsAt(b, s, v)
  <2>1. EndsAt(Tail(b), s, v) \/ (Silent(Tail(b), s) /\ Head(b).source = s /\ Head(b).version = v)
    BY <1>2, LastAfterTail
  <2> QED
    BY <1>1, <2>1 DEF OnItsWay
<1>3. CASE Silent(b, s)
  <2>1. Silent(Tail(b), s) /\ Head(b).source # s
    BY <1>3, LastAfterTail
  <2>2. EndsAt(b, s, v) \/ EndsAt(w, s, v) \/ (Silent(w, s) /\ x = v)
    BY DEF OnItsWay
  <2> QED
    BY <1>2, <2>1, <2>2 DEF OnItsWay
<1> QED
  BY <1>2, <1>3 DEF OnItsWay

LEMMA SendMoves ==
    ASSUME NEW b, NEW h \in SUBSET Frames, NEW w \in Seq(Frames), NEW x, NEW s, NEW v,
           NEW f \in h, \A g \in h : g.source = f.source => g = f,
           OnItsWay(b, h, w, x, s, v)
    PROVE  OnItsWay(b, h \ {f}, Append(w, f), x, s, v)
<1>1. f \in Frames
  OBVIOUS
<1>2. CASE EndsAt(b, s, v)
  BY <1>2 DEF OnItsWay
<1>3. CASE Silent(b, s) /\ [source |-> s, version |-> v] \in h /\ f.source = s
  <2>1. f = [source |-> s, version |-> v]
    BY <1>3
  <2>2. \A g \in h \ {f} : g.source # s
    BY <1>3
  <2>3. EndsAt(Append(w, f), s, v)
    BY <1>1, <2>1, LastAfterAppend
  <2> QED
    BY <1>3, <2>2, <2>3 DEF OnItsWay
<1>4. CASE Silent(b, s) /\ [source |-> s, version |-> v] \in h /\ f.source # s
  BY <1>4 DEF OnItsWay
<1>5. CASE Silent(b, s) /\ (\A g \in h : g.source # s) /\ (EndsAt(w, s, v) \/ (Silent(w, s) /\ x = v))
  <2>1. \/ EndsAt(Append(w, f), s, v)
        \/ Silent(Append(w, f), s) /\ x = v
    BY <1>1, <1>5, LastAfterAppend
  <2> QED
    BY <1>5, <2>1 DEF OnItsWay
<1> QED
  BY <1>2, <1>3, <1>4, <1>5 DEF OnItsWay

LEMMA ReceiveMoves ==
    ASSUME NEW b, NEW h, NEW w \in Seq(Frames), w # <<>>, NEW s \in Sources, NEW v,
           NEW now \in [Sources -> 0..MaxVersion],
           OnItsWay(b, h, w, now[s], s, v)
    PROVE  OnItsWay(b, h, Tail(w), ApplyMessage(now, Head(w))[s], s, v)
<1> DEFINE f == Head(w)
           then == ApplyMessage(now, f)[s]
<1>1. CASE EndsAt(w, s, v)
  <2>1. EndsAt(Tail(w), s, v) \/ (Silent(Tail(w), s) /\ f.source = s /\ f.version = v)
    BY <1>1, LastAfterTail
  <2>2. (f.source = s /\ f.version = v) => then = v
    BY DEF ApplyMessage
  <2> QED
    BY <2>1, <2>2 DEF OnItsWay
<1>2. CASE Silent(w, s) /\ now[s] = v
  <2>1. Silent(Tail(w), s) /\ f.source # s
    BY <1>2, LastAfterTail
  <2>2. then = v
    BY <1>2, <2>1 DEF ApplyMessage
  <2> QED
    BY <2>1, <2>2 DEF OnItsWay
<1>3. CASE EndsAt(b, s, v) \/ (Silent(b, s) /\ [source |-> s, version |-> v] \in h)
  BY <1>3 DEF OnItsWay
<1> QED
  BY <1>1, <1>2, <1>3 DEF OnItsWay

-------------------------------------------------------------------------------
(* The step: either nothing on the way to panel p changes, or the store    *)
(* appends, the snapshot is taken, or one frame moves a stage.             *)
LEMMA ConvergesStep == FeedInv /\ [Next]_vars => Converges'
<1> SUFFICES ASSUME FeedInv, [Next]_vars,
                    NEW p \in Panels, NEW c \in Conns, NEW s \in Sources,
                    sock'[p] = c, handler'[c] = "loop", c \in subscribers', entry'[s].version > 0
             PROVE  OnItsWay(buffer'[c], pending'[c], wire'[c], shown'[p][s], s, entry'[s].version)
  BY ConvergesNext
<1> DEFINE v == entry[s].version
           Fed == sock[p] = c /\ handler[c] = "loop" /\ c \in subscribers
           Goal == OnItsWay(buffer'[c], pending'[c], wire'[c], shown'[p][s], s, entry'[s].version)
<1>1. /\ TypeOK /\ StoreTypeOK
      /\ buffer[c] \in Seq(Events) /\ wire[c] \in Seq(Frames) /\ pending[c] \in SUBSET Frames
      /\ shown[p] \in [Sources -> 0..MaxVersion]
      /\ handler \in [Conns -> {"idle", "returned"} \cup Serving]
      /\ sock \in [Panels -> Conns \cup {NoConn}] /\ c # NoConn
  BY NoConnAssumption DEF FeedInv, TypeOK, StoreTypeOK
<1>2. ASSUME Fed, v > 0
      PROVE  OnItsWay(buffer[c], pending[c], wire[c], shown[p][s], s, v)
  BY <1>2, ConvergesNow DEF FeedInv
<1>3. ASSUME Fed, entry'[s].version = v,
             buffer'[c] = buffer[c], pending'[c] = pending[c], wire'[c] = wire[c], shown'[p] = shown[p]
      PROVE  Goal
  BY <1>2, <1>3
<1>4. ASSUME NEW q \in Panels, q # p, sock[p] = c PROVE sock[q] # c
  BY <1>1, <1>4 DEF FeedInv, OneHolder
<1> HIDE DEF Goal
<1>5. ASSUME NEW x \in Enabled, Write(x) PROVE Goal
  <2>1. Publish(x) \/ Fail(x)
    BY <1>5 DEF Write
  <2>2. UNCHANGED <<handler, pending, wire, sock, shown>>
    BY <1>5 DEF Write, connVars, panelVars
  <2>3. CASE Publish(x)
    <3> DEFINE e == Reading(x)
    <3>1. /\ e \in Events /\ e.source = x /\ e.version = entry'[x].version
          /\ s # x => entry'[s].version = v
      BY <1>1, <2>3, PublishIsNext
    <3>2. c \in subscribers /\ buffer'[c] = Append(buffer[c], e)
      BY <1>1, <2>3, PublishIsNext, BroadcastQueue
    <3> HIDE DEF e
    <3>3. CASE s = x
      <4>1. EndsAt(buffer'[c], s, entry'[s].version)
        BY <1>1, <3>1, <3>2, <3>3, LastAfterAppend
      <4> QED
        BY <4>1 DEF Goal, OnItsWay
    <3>4. CASE s # x
      <4>1. OnItsWay(buffer[c], pending[c], wire[c], shown[p][s], s, v)
        BY <1>2, <2>2, <3>1, <3>2, <3>4
      <4>2. /\ EndsAt(buffer[c], s, v) => EndsAt(buffer'[c], s, v)
            /\ Silent(buffer[c], s) => Silent(buffer'[c], s)
        <5> DEFINE q == buffer[c]
        <5>1. q \in Seq(Events) /\ e \in Events /\ e.source # s /\ buffer'[c] = Append(q, e)
          BY <1>1, <3>1, <3>2, <3>4
        <5> HIDE DEF q, v
        <5>2. EndsAt(q, s, v) => EndsAt(Append(q, e), s, v)
          BY <5>1, LastAfterAppend
        <5>3. Silent(q, s) => Silent(Append(q, e), s)
          BY <5>1, LastAfterAppend
        <5> QED
          BY <5>1, <5>2, <5>3 DEF q
      <4>3. OnItsWay(buffer'[c], pending[c], wire[c], shown[p][s], s, v)
        BY <4>1, <4>2 DEF OnItsWay
      <4> QED
        BY <2>2, <3>1, <3>4, <4>3 DEF Goal
    <3> QED
      BY <3>3, <3>4
  <2>4. CASE Fail(x)
    <3>1. UNCHANGED <<subscribers, buffer>> /\ entry'[s].version = v
      BY <1>1, <2>4, EnabledAssumption, FailKeepsVersions
    <3> QED
      BY <1>3, <2>2, <3>1
  <2> QED
    BY <2>1, <2>3, <2>4
<1>6. ASSUME NEW d \in Conns, SubscribeFirst(d) PROVE Goal
  <2>1. d # c
    BY <1>1, <1>6 DEF SubscribeFirst
  <2> QED
    BY <1>1, <1>3, <1>6, <2>1 DEF SubscribeFirst, Subscribe, panelVars, StoreTypeOK
<1>7. ASSUME NEW d \in Conns, SendSnapshot(d) PROVE Goal
  <2>1. UNCHANGED <<entry, subscribers, buffer, wire, sock, shown>>
    BY <1>7 DEF SendSnapshot, storeVars, panelVars
  <2>2. CASE d = c
    <3>1. pending'[c] = SnapshotFrames
      BY <1>1, <1>7, <2>2 DEF SendSnapshot, TypeOK
    <3>2. [source |-> s, version |-> v] \in SnapshotFrames
      BY <2>1 DEF SnapshotFrames
    <3>3. Silent(buffer[c], s) \/ EndsAt(buffer[c], s, v)
      BY <2>1 DEF FeedInv, LastIsCurrent
    <3> QED
      BY <2>1, <3>1, <3>2, <3>3 DEF Goal, OnItsWay
  <2>3. CASE d # c
    BY <1>1, <1>3, <1>7, <2>1, <2>3 DEF SendSnapshot, TypeOK
  <2> QED
    BY <2>2, <2>3
<1>8. ASSUME NEW d \in Conns, Send(d) PROVE Goal
  <2>1. PICK f \in pending[d] : /\ pending' = [pending EXCEPT ![d] = @ \ {f}]
                                /\ wire' = [wire EXCEPT ![d] = Append(@, f)]
    BY <1>8 DEF Send
  <2>2. UNCHANGED <<entry, subscribers, buffer, handler, sock, shown>>
    BY <1>8 DEF Send, storeVars, panelVars
  <2>3. CASE d = c
    <3>1. pending'[c] = pending[c] \ {f} /\ wire'[c] = Append(wire[c], f) /\ f \in pending[c]
      BY <1>1, <2>1, <2>3 DEF TypeOK
    <3>2. \A g \in pending[c] : g.source = f.source => g = f
      BY <3>1 DEF FeedInv, OnePerSource
    <3>3. OnItsWay(buffer[c], pending[c], wire[c], shown[p][s], s, v)
      BY <1>2, <2>2
    <3>4. OnItsWay(buffer[c], pending[c] \ {f}, Append(wire[c], f), shown[p][s], s, v)
      BY <1>1, <3>1, <3>2, <3>3, SendMoves
    <3> QED
      BY <2>2, <3>1, <3>4 DEF Goal
  <2>4. CASE d # c
    BY <1>1, <1>3, <2>1, <2>2, <2>4 DEF TypeOK
  <2> QED
    BY <2>3, <2>4
<1>9. ASSUME NEW d \in Conns, TakeEvent(d) PROVE Goal
  <2>1. /\ UNCHANGED <<entry, subscribers, handler, wire, sock, shown>>
        /\ buffer[d] # <<>> /\ pending[d] = {}
        /\ buffer' = [buffer EXCEPT ![d] = Tail(@)]
        /\ pending' = [pending EXCEPT ![d] = {Head(buffer[d])}]
    BY <1>9 DEF TakeEvent, AtSelect, Dequeue, panelVars
  <2>2. CASE d = c
    <3>1. buffer'[c] = Tail(buffer[c]) /\ pending'[c] = {Head(buffer[c])}
      BY <1>1, <2>1, <2>2 DEF TypeOK, StoreTypeOK
    <3>2. OnItsWay(buffer[c], {}, wire[c], shown[p][s], s, v)
      BY <1>2, <2>1, <2>2
    <3>3. OnItsWay(Tail(buffer[c]), {Head(buffer[c])}, wire[c], shown[p][s], s, v)
      BY <1>1, <2>1, <2>2, <3>2, TakeMoves
    <3> QED
      BY <2>1, <3>1, <3>3 DEF Goal
  <2>3. CASE d # c
    BY <1>1, <1>3, <2>1, <2>3 DEF TypeOK, StoreTypeOK
  <2> QED
    BY <2>2, <2>3
<1>10. ASSUME NEW d \in Conns, FellBehind(d) \/ WriteTimeout(d) \/ PeerGone(d) PROVE Goal
  <2>1. Return(d)
    BY <1>10 DEF FellBehind, WriteTimeout, PeerGone
  <2>2. d # c
    BY <1>1, <2>1 DEF Return
  <2> QED
    BY <1>1, <1>3, <2>1, <2>2 DEF Return, Cancel, panelVars, TypeOK
<1>11. ASSUME NEW d \in Conns, Vanish(d) PROVE Goal
  BY <1>3, <1>11 DEF Vanish, storeVars, panelVars
<1>12. ASSUME NEW q \in Panels, NEW d \in Conns, Accept(q, d) PROVE Goal
  <2>1. d # c
    BY <1>1, <1>12 DEF Accept
  <2>2. sock[p] = c
    BY <1>1, <1>12, <2>1 DEF Accept
  <2> QED
    BY <1>1, <1>3, <1>12, <2>1, <2>2 DEF Accept, storeVars, TypeOK
<1>13. ASSUME NEW q \in Panels, Open(q) \/ CheckStaleness(q) PROVE Goal
  BY <1>3, <1>13 DEF Open, CheckStaleness, storeVars, connVars
<1>14. ASSUME NEW q \in Panels, Receive(q) PROVE Goal
  <2>1. /\ UNCHANGED <<entry, subscribers, buffer, handler, pending, sock>>
        /\ wire[sock[q]] # <<>> /\ sock[q] # NoConn
        /\ wire' = [wire EXCEPT ![sock[q]] = Tail(@)]
        /\ shown' = [shown EXCEPT ![q] = ApplyMessage(@, Head(wire[sock[q]]))]
    BY <1>14 DEF Receive, storeVars
  <2>2. CASE q = p
    <3>1. wire'[c] = Tail(wire[c]) /\ shown'[p] = ApplyMessage(shown[p], Head(wire[c])) /\ wire[c] # <<>>
      BY <1>1, <2>1, <2>2 DEF TypeOK
    <3>2. OnItsWay(buffer[c], pending[c], wire[c], shown[p][s], s, v)
      BY <1>2, <2>1
    <3>3. OnItsWay(buffer[c], pending[c], Tail(wire[c]),
                   ApplyMessage(shown[p], Head(wire[c]))[s], s, v)
      BY <1>1, <3>1, <3>2, ReceiveMoves
    <3> QED
      BY <2>1, <3>1, <3>3 DEF Goal
  <2>3. CASE q # p
    <3>1. sock[q] # c
      BY <1>4, <2>1, <2>3
    <3> QED
      BY <1>1, <1>3, <2>1, <2>3, <3>1 DEF TypeOK
  <2> QED
    BY <2>2, <2>3
<1>15. ASSUME NEW q \in Panels, CloseEvent(q) \/ ConnectStep(q) \/ Reconnect(q) PROVE Goal
  <2>1. sock' = [sock EXCEPT ![q] = NoConn]
    <3>1. CASE CloseEvent(q) \/ ConnectRefused(q) \/ Reconnect(q)
      BY <3>1 DEF CloseEvent, ConnectRefused, Reconnect, GoDown
    <3>2. CASE ConnectThrows(q)
      BY <1>1, <3>2 DEF ConnectThrows, Connecting
    <3> QED
      BY <1>15, <3>1, <3>2
  <2>2. q # p /\ sock[p] = c
    BY <1>1, <2>1
  <2>3. wire'[c] = wire[c]
    BY <1>1, <1>4, <1>15, <2>2 DEF CloseEvent, ConnectRefused, ConnectThrows, Reconnect, connVars, TypeOK
  <2> QED
    BY <1>3, <1>15, <2>2, <2>3 DEF CloseEvent, ConnectRefused, ConnectThrows, Reconnect, storeVars, connVars
<1>16. ASSUME UNCHANGED vars PROVE Goal
  <2>1. UNCHANGED <<entry, subscribers, buffer, handler, pending, wire, sock, shown>>
    BY <1>16 DEF vars, storeVars, connVars, panelVars
  <2> QED
    BY <1>3, <2>1
<1>17. ASSUME NEW d \in Conns, HandlerStep(d) \/ WriteTimeout(d) \/ Vanish(d) PROVE Goal
  BY <1>6, <1>7, <1>8, <1>9, <1>10, <1>11, <1>17 DEF HandlerStep
<1>18. ASSUME NEW q \in Panels,
              PanelStep(q) \/ ConnectStep(q) \/ \E d \in Conns : Accept(q, d)
       PROVE  Goal
  BY <1>12, <1>13, <1>14, <1>15, <1>18 DEF PanelStep
<1>19. Goal
  BY <1>5, <1>16, <1>17, <1>18 DEF Next
<1> QED
  BY <1>19 DEF Goal

LEMMA FeedInvInit == Init => FeedInv
<1> SUFFICES ASSUME Init PROVE FeedInv
  OBVIOUS
<1>1. NoOrphanSubscriber /\ LastIsCurrent
  BY DEF Init, StoreInit, NoOrphanSubscriber, LastIsCurrent
<1>2. OnePerSource
  BY DEF Init, OnePerSource
<1>3. OneHolder
  BY DEF Init, OneHolder
<1>4. Converges
  BY ConvergesNow DEF Init, StoreInit
<1> QED
  BY <1>1, <1>2, <1>3, <1>4, TypeInit DEF FeedInv

LEMMA FeedInvStep == FeedInv /\ [Next]_vars => FeedInv'
<1> SUFFICES ASSUME FeedInv, [Next]_vars PROVE FeedInv'
  OBVIOUS
<1>1. TypeOK' /\ NoOrphanSubscriber' /\ OnePerSource' /\ OneHolder'
  BY TypeStep, NoOrphanStep, OnePerSourceStep, OneHolderStep DEF FeedInv
<1>2. LastIsCurrent'
  BY FeedStepStore, LastIsCurrentStep DEF FeedInv, TypeOK
<1>3. Converges'
  BY ConvergesStep
<1> QED
  BY <1>1, <1>2, <1>3 DEF FeedInv

(* A panel the store still feeds is always on its way to showing what the  *)
(* store holds: for any number of panels and sources, any buffer and wire, *)
(* and any pattern of drops and reconnects.                                *)
THEOREM FeedConverges == Spec => []Converges
<1>1. FeedInv => Converges
  BY DEF FeedInv
<1> QED
  BY <1>1, FeedInvInit, FeedInvStep, PTL DEF Spec

(* What the convergence comes to: a panel on a connection the store feeds  *)
(* shows exactly what the store holds whenever nothing is on its way, which *)
(* is what the watchdog's minute of silence stands for.                    *)
THEOREM FeedQuietIsFresh ==
    Spec => [](\A p \in Panels, c \in Conns : Attached(p, c) /\ Quiet(c) =>
                  \A s \in Sources : entry[s].version > 0 => shown[p][s] = entry[s].version)
<1>1. Converges => \A p \in Panels, c \in Conns : Attached(p, c) /\ Quiet(c) =>
                      \A s \in Sources : entry[s].version > 0 => shown[p][s] = entry[s].version
  <2> SUFFICES ASSUME Converges, NEW p \in Panels, NEW c \in Conns, Attached(p, c), Quiet(c),
                      NEW s \in Sources, entry[s].version > 0
               PROVE  shown[p][s] = entry[s].version
    OBVIOUS
  <2>1. buffer[c] = <<>> /\ pending[c] = {} /\ wire[c] = <<>>
    BY DEF Quiet, AtSelect
  <2>2. Settles(p, c, s, entry[s].version)
    BY DEF Converges
  <2>3. \A v : ~EndsAt(<<>>, s, v)
    BY DEF EndsAt
  <2> QED
    BY <2>1, <2>2, <2>3 DEF Settles
<1> QED
  BY <1>1, FeedConverges, PTL

(* No path out of the handler leaves its subscription behind.              *)
THEOREM FeedNoOrphanSubscriber == Spec => []NoOrphanSubscriber
<1>1. FeedInv => NoOrphanSubscriber
  BY DEF FeedInv
<1> QED
  BY <1>1, FeedInvInit, FeedInvStep, PTL DEF Spec

-------------------------------------------------------------------------------
(* No frame is ahead of the store, and a handler that has not read the     *)
(* snapshot has said no more than hello: what a step back can come from.   *)
Elems(q) == {q[i] : i \in DOMAIN q}

Old == {f \in Frames : f.source \in Sources => f.version <= entry[f.source].version}

NoneAhead ==
    /\ \A c \in Conns : InFlight(c) \subseteq Old
    /\ \A p \in Panels, s \in Sources : shown[p][s] <= entry[s].version

HelloFirst ==
    \A c \in Conns : handler[c] \in {"accepted", "hello"} =>
        pending[c] \cup Elems(wire[c]) \subseteq {Hello}

LEMMA ElemsAppend ==
    ASSUME NEW S, NEW q \in Seq(S), NEW e \in S
    PROVE  Elems(Append(q, e)) \subseteq Elems(q) \cup {e}
<1> DEFINE r == Append(q, e)
<1>1. /\ DOMAIN q = 1..Len(q) /\ DOMAIN r = 1..Len(r) /\ Len(q) \in Nat /\ Len(r) = Len(q) + 1
      /\ \A k \in 1..Len(q) : r[k] = q[k]
      /\ r[Len(q) + 1] = e
  BY AppendProperties, LenProperties
<1> HIDE DEF r
<1>2. \A k \in 1..Len(r) : k \in 1..Len(q) \/ k = Len(q) + 1
  BY <1>1
<1>3. Elems(r) \subseteq Elems(q) \cup {e}
  BY <1>1, <1>2 DEF Elems
<1> QED
  BY <1>3 DEF r

LEMMA ElemsTail ==
    ASSUME NEW S, NEW q \in Seq(S), q # <<>>
    PROVE  /\ Elems(Tail(q)) \subseteq Elems(q)
           /\ Head(q) \in Elems(q)
<1> DEFINE r == Tail(q)
<1>1. /\ DOMAIN q = 1..Len(q) /\ DOMAIN r = 1..Len(r) /\ Len(q) \in Nat \ {0}
      /\ Len(r) = Len(q) - 1
      /\ \A k \in 1..Len(r) : r[k] = q[k + 1]
      /\ Head(q) = q[1]
  BY EmptySeq, HeadTailProperties, LenProperties
<1> HIDE DEF r
<1>2. /\ \A k \in 1..Len(r) : k + 1 \in 1..Len(q)
      /\ 1 \in 1..Len(q)
  BY <1>1
<1>3. Elems(r) \subseteq Elems(q) /\ Head(q) \in Elems(q)
  BY <1>1, <1>2 DEF Elems
<1> QED
  BY <1>3 DEF r

LEMMA InFlightParts ==
    /\ \A c : InFlight(c) = pending[c] \cup Elems(wire[c]) \cup Elems(buffer[c])
    /\ \A c : InFlight(c)' = pending'[c] \cup Elems(wire'[c]) \cup Elems(buffer'[c])
BY DEF InFlight, Elems

(* Stored versions only grow, so what is not ahead of the store stays so.  *)
LEMMA OldGrows ==
    ASSUME TypeOK, [Next]_vars
    PROVE  /\ \A s \in Sources : /\ entry[s].version \in Nat /\ entry'[s].version \in Nat
                                 /\ entry[s].version <= entry'[s].version
           /\ Old \subseteq Old'
<1>1. StoreTypeOK /\ StoreTypeOK' /\ [StoreNext]_storeVars
  BY FeedStepStore, StoreTypeStep DEF TypeOK
<1>2. ASSUME NEW s \in Sources
      PROVE  /\ entry[s].version \in Nat /\ entry'[s].version \in Nat
             /\ entry[s].version <= entry'[s].version
  <2>1. entry[s].version \in Nat /\ entry'[s].version \in Nat
    BY <1>1, MaxVersionAssumption DEF StoreTypeOK, Entries
  <2>2. ASSUME NEW x \in Enabled, Publish(x) PROVE entry[s].version <= entry'[s].version
    <3>1. /\ entry'[x].version = entry[x].version + 1
          /\ s # x => entry'[s] = entry[s]
      BY <1>1, <2>2, PublishIsNext
    <3> QED
      BY <2>1, <3>1
  <2>3. CASE ~ \E x \in Enabled : Publish(x)
    <3>1. entry'[s].version = entry[s].version
      BY <1>1, <2>3, OtherSteps
    <3> QED
      BY <2>1, <3>1
  <2> QED
    BY <2>1, <2>2, <2>3
<1>3. \A f \in Frames : f.source \in Sources => f.version \in Nat
  BY MaxVersionAssumption, HelloAssumption DEF Frames, Events, Hello
<1>4. ASSUME NEW f \in Old PROVE f \in Old'
  <2>1. f \in Frames /\ (f.source \in Sources => f.version <= entry[f.source].version)
    BY DEF Old
  <2>2. f.source \in Sources => f.version <= entry'[f.source].version
    BY <1>2, <1>3, <2>1
  <2> QED
    BY <2>1, <2>2 DEF Old
<1> QED
  BY <1>2, <1>4

(* Every frame that a step puts on its way comes from the store.           *)
LEMMA NoneAheadStep == TypeOK /\ NoneAhead /\ [Next]_vars => NoneAhead'
<1> SUFFICES ASSUME TypeOK, NoneAhead, [Next]_vars PROVE NoneAhead'
  OBVIOUS
<1>1. /\ StoreTypeOK /\ Old \subseteq Old'
      /\ \A s \in Sources : /\ entry[s].version \in Nat /\ entry'[s].version \in Nat
                            /\ entry[s].version <= entry'[s].version
      /\ \A p \in Panels : shown[p] \in [Sources -> 0..MaxVersion]
      /\ \A c \in Conns : wire[c] \in Seq(Frames) /\ buffer[c] \in Seq(Events)
  BY OldGrows DEF TypeOK, StoreTypeOK
<1>2. /\ \A c \in Conns : pending[c] \cup Elems(wire[c]) \cup Elems(buffer[c]) \subseteq Old
      /\ \A p \in Panels, s \in Sources : shown[p][s] <= entry[s].version
  BY InFlightParts DEF NoneAhead
<1> DEFINE Kept == \A c \in Conns : InFlight(c)' \subseteq Old'
           Seen == \A p \in Panels, s \in Sources : shown'[p][s] <= entry'[s].version
<1>3. ASSUME shown' = shown PROVE Seen
  <2> SUFFICES ASSUME NEW p \in Panels, NEW s \in Sources PROVE shown[p][s] <= entry'[s].version
    BY <1>3
  <2>1. shown[p][s] \in Nat
    BY <1>1, MaxVersionAssumption
  <2> QED
    BY <1>1, <1>2, <2>1
<1>4. Hello \in Old /\ <<>> \in Seq(Frames) /\ Elems(<<>>) = {}
  BY HelloAssumption DEF Old, Frames, Hello, Elems
<1>5. ASSUME \A c \in Conns : /\ pending'[c] \subseteq pending[c] \cup {Hello}
                              /\ Elems(wire'[c]) \subseteq pending[c] \cup Elems(wire[c])
                              /\ Elems(buffer'[c]) \subseteq Elems(buffer[c])
      PROVE  Kept
  BY <1>1, <1>2, <1>4, <1>5, InFlightParts
<1> USE DEF connVars, panelVars, storeVars
<1>6. ASSUME NEW x \in Enabled, Write(x) PROVE Kept /\ Seen
  <2>1. UNCHANGED <<pending, wire, shown>> /\ (Publish(x) \/ Fail(x))
    BY <1>6 DEF Write
  <2>2. CASE Publish(x)
    <3> DEFINE e == Reading(x)
    <3>1. /\ e \in Events /\ e.source = x /\ e.version = entry'[x].version /\ x \in Sources
          /\ \A c \in Conns : buffer'[c] = Append(buffer[c], e) \/ buffer'[c] = buffer[c]
      BY <1>1, <2>2, PublishIsNext, BroadcastQueue
    <3> HIDE DEF e
    <3>2. e \in Old'
      BY <1>1, <3>1 DEF Old, Frames
    <3>3. \A c \in Conns : Elems(buffer'[c]) \subseteq Elems(buffer[c]) \cup {e}
      BY <1>1, <3>1, ElemsAppend
    <3>4. Kept
      BY <1>1, <1>2, <2>1, <3>2, <3>3, InFlightParts
    <3> QED
      BY <1>3, <2>1, <3>4
  <2>3. CASE Fail(x)
    <3>1. buffer' = buffer
      BY <2>3 DEF Fail
    <3> QED
      BY <1>3, <1>5, <2>1, <3>1
  <2> QED
    BY <2>1, <2>2, <2>3
<1>7. ASSUME NEW d \in Conns, SubscribeFirst(d) PROVE Kept /\ Seen
  <2>1. /\ UNCHANGED <<wire, shown>>
        /\ \A c \in Conns : /\ pending'[c] = pending[c] \/ pending'[c] = {Hello}
                            /\ buffer'[c] = buffer[c] \/ buffer'[c] = <<>>
    BY <1>7 DEF SubscribeFirst, Subscribe, TypeOK, StoreTypeOK
  <2> QED
    BY <1>3, <1>4, <1>5, <2>1
<1>8. ASSUME NEW d \in Conns, SendSnapshot(d) PROVE Kept /\ Seen
  <2>1. UNCHANGED <<entry, buffer, wire, shown>>
    BY <1>8 DEF SendSnapshot
  <2>2. SnapshotFrames \subseteq Old'
    BY <1>1, <2>1 DEF SnapshotFrames, Old, Frames, Events, StoreTypeOK, Entries
  <2>3. \A c \in Conns : pending'[c] = pending[c] \/ pending'[c] = SnapshotFrames
    BY <1>8 DEF SendSnapshot, TypeOK
  <2>4. Kept
    BY <1>1, <1>2, <2>1, <2>2, <2>3, InFlightParts
  <2> QED
    BY <1>3, <2>1, <2>4
<1>9. ASSUME NEW d \in Conns, Send(d) PROVE Kept /\ Seen
  <2>1. PICK f \in pending[d] : /\ pending' = [pending EXCEPT ![d] = @ \ {f}]
                                /\ wire' = [wire EXCEPT ![d] = Append(@, f)]
    BY <1>9 DEF Send
  <2>2. UNCHANGED <<buffer, shown>> /\ f \in Frames
    BY <1>9 DEF Send, TypeOK
  <2>3. \A c \in Conns : /\ pending'[c] \subseteq pending[c]
                         /\ wire'[c] = wire[c] \/ (c = d /\ wire'[c] = Append(wire[c], f))
    BY <2>1 DEF TypeOK
  <2>4. \A c \in Conns : Elems(wire'[c]) \subseteq pending[c] \cup Elems(wire[c])
    <3> SUFFICES ASSUME NEW c \in Conns
                 PROVE  Elems(wire'[c]) \subseteq pending[c] \cup Elems(wire[c])
      OBVIOUS
    <3>1. CASE wire'[c] = wire[c]
      BY <3>1
    <3>2. CASE c = d /\ wire'[c] = Append(wire[c], f)
      <4>1. Elems(Append(wire[c], f)) \subseteq Elems(wire[c]) \cup {f}
        BY <1>1, <2>2, ElemsAppend
      <4> QED
        BY <3>2, <4>1
    <3> QED
      BY <2>3, <3>1, <3>2
  <2> QED
    BY <1>3, <1>5, <2>2, <2>3, <2>4
<1>10. ASSUME NEW d \in Conns, TakeEvent(d) PROVE Kept /\ Seen
  <2>1. /\ UNCHANGED <<wire, shown>> /\ buffer[d] # <<>>
        /\ \A c \in Conns \ {d} : pending'[c] = pending[c] /\ buffer'[c] = buffer[c]
        /\ pending'[d] = {Head(buffer[d])} /\ buffer'[d] = Tail(buffer[d])
    BY <1>10 DEF TakeEvent, AtSelect, Dequeue, TypeOK, StoreTypeOK
  <2>2. Elems(Tail(buffer[d])) \subseteq Elems(buffer[d]) /\ Head(buffer[d]) \in Elems(buffer[d])
    BY <1>1, <2>1, ElemsTail
  <2>3. Kept
    BY <1>1, <1>2, <2>1, <2>2, InFlightParts
  <2> QED
    BY <1>3, <2>1, <2>3
<1>11. ASSUME NEW d \in Conns, FellBehind(d) \/ WriteTimeout(d) \/ PeerGone(d) PROVE Kept /\ Seen
  <2>1. Return(d)
    BY <1>11 DEF FellBehind, WriteTimeout, PeerGone
  <2>2. /\ UNCHANGED <<wire, shown, buffer>>
        /\ \A c \in Conns : pending'[c] = pending[c] \/ pending'[c] = {}
    BY <2>1 DEF Return, Cancel, TypeOK
  <2> QED
    BY <1>3, <1>5, <2>2
<1>12. ASSUME NEW d \in Conns, Vanish(d) PROVE Kept /\ Seen
  BY <1>3, <1>5, <1>12 DEF Vanish
<1>13. ASSUME NEW q \in Panels, NEW d \in Conns, Accept(q, d) PROVE Kept /\ Seen
  <2>1. /\ UNCHANGED <<buffer, shown>>
        /\ \A c \in Conns : /\ pending'[c] = pending[c] \/ pending'[c] = {}
                            /\ wire'[c] = wire[c] \/ wire'[c] = <<>>
    BY <1>13 DEF Accept, TypeOK
  <2> QED
    BY <1>3, <1>4, <1>5, <2>1
<1>14. ASSUME NEW q \in Panels, Open(q) \/ CheckStaleness(q) \/ Reconnect(q) \/ ConnectStep(q)
       PROVE  Kept /\ Seen
  BY <1>3, <1>5, <1>14 DEF Open, CheckStaleness, Reconnect, ConnectRefused, ConnectThrows
<1>15. ASSUME NEW q \in Panels, CloseEvent(q) PROVE Kept /\ Seen
  <2>1. /\ UNCHANGED <<buffer, pending, shown>>
        /\ \A c \in Conns : wire'[c] = wire[c] \/ wire'[c] = <<>>
    BY <1>15 DEF CloseEvent, TypeOK
  <2> QED
    BY <1>3, <1>4, <1>5, <2>1
<1>16. ASSUME NEW q \in Panels, Receive(q) PROVE Kept /\ Seen
  <2> DEFINE d == sock[q]
             f == Head(wire[d])
  <2>1. /\ UNCHANGED <<entry, buffer, pending>> /\ d \in Conns /\ wire[d] # <<>>
        /\ wire' = [wire EXCEPT ![d] = Tail(@)]
        /\ shown' = [shown EXCEPT ![q] = ApplyMessage(@, f)]
    BY <1>16 DEF Receive, TypeOK
  <2>2. Elems(Tail(wire[d])) \subseteq Elems(wire[d]) /\ f \in Elems(wire[d])
    BY <1>1, <2>1, ElemsTail
  <2>3. f \in Old
    BY <1>2, <2>1, <2>2
  <2> HIDE DEF d, f
  <2>4. \A c \in Conns : Elems(wire'[c]) \subseteq Elems(wire[c])
    BY <2>1, <2>2 DEF TypeOK
  <2>5. ASSUME NEW p \in Panels, NEW s \in Sources PROVE shown'[p][s] <= entry[s].version
    <3>1. CASE shown'[p][s] = shown[p][s]
      BY <1>2, <3>1
    <3>2. CASE p = q /\ shown'[p] = ApplyMessage(shown[p], f)
      BY <1>1, <1>2, <2>3, <3>2 DEF ApplyMessage, Old
    <3>3. shown'[p][s] = shown[p][s] \/ (p = q /\ shown'[p] = ApplyMessage(shown[p], f))
      BY <2>1 DEF TypeOK
    <3> QED
      BY <3>1, <3>2, <3>3
  <2> QED
    BY <1>5, <2>1, <2>4, <2>5
<1>17. ASSUME UNCHANGED vars PROVE Kept /\ Seen
  BY <1>3, <1>5, <1>17 DEF vars
<1> HIDE DEF Kept, Seen
<1>18. Kept /\ Seen
  BY <1>6, <1>7, <1>8, <1>9, <1>10, <1>11, <1>12, <1>13, <1>14, <1>15, <1>16, <1>17
  DEF Next, HandlerStep, PanelStep
<1> QED
  BY <1>18 DEF Kept, Seen, NoneAhead

LEMMA HelloFirstStep == TypeOK /\ HelloFirst /\ [Next]_vars => HelloFirst'
<1> SUFFICES ASSUME TypeOK, HelloFirst, [Next]_vars,
                    NEW c \in Conns, handler'[c] \in {"accepted", "hello"}
             PROVE  pending'[c] \cup Elems(wire'[c]) \subseteq {Hello}
  BY DEF HelloFirst, Elems
<1> DEFINE Goal == pending'[c] \cup Elems(wire'[c]) \subseteq {Hello}
<1>1. handler[c] \in {"accepted", "hello"} => pending[c] \cup Elems(wire[c]) \subseteq {Hello}
  BY DEF HelloFirst
<1>2. wire[c] \in Seq(Frames) /\ Elems(<<>>) = {}
  BY DEF TypeOK, Elems
<1>3. ASSUME handler'[c] = handler[c], pending'[c] = pending[c],
             wire'[c] = wire[c] \/ wire'[c] = <<>>
      PROVE  Goal
  BY <1>1, <1>2, <1>3
<1> HIDE DEF Goal
<1> USE DEF connVars, panelVars, TypeOK
<1>4. ASSUME NEW x \in Enabled, Write(x) PROVE Goal
  BY <1>3, <1>4 DEF Write
<1>5. ASSUME NEW d \in Conns, SubscribeFirst(d) PROVE Goal
  <2>1. CASE d = c
    BY <1>1, <1>5, <2>1 DEF SubscribeFirst, Goal
  <2>2. CASE d # c
    BY <1>3, <1>5, <2>2 DEF SubscribeFirst
  <2> QED
    BY <2>1, <2>2
<1>6. ASSUME NEW d \in Conns, SendSnapshot(d) PROVE Goal
  BY <1>3, <1>6 DEF SendSnapshot
<1>7. ASSUME NEW d \in Conns, Send(d) PROVE Goal
  <2>1. PICK f \in pending[d] : /\ pending' = [pending EXCEPT ![d] = @ \ {f}]
                                /\ wire' = [wire EXCEPT ![d] = Append(@, f)]
    BY <1>7 DEF Send
  <2>2. handler' = handler /\ f \in Frames
    BY <1>7 DEF Send
  <2>3. CASE d = c
    <3>1. Elems(wire'[c]) \subseteq Elems(wire[c]) \cup {f} /\ pending'[c] \subseteq pending[c]
      BY <1>2, <2>1, <2>2, <2>3, ElemsAppend
    <3> QED
      BY <1>1, <2>1, <2>2, <2>3, <3>1 DEF Goal
  <2>4. CASE d # c
    BY <1>3, <2>1, <2>2, <2>4
  <2> QED
    BY <2>3, <2>4
<1>8. ASSUME NEW d \in Conns, TakeEvent(d) PROVE Goal
  BY <1>3, <1>8 DEF TakeEvent, AtSelect
<1>9. ASSUME NEW d \in Conns, FellBehind(d) \/ WriteTimeout(d) \/ PeerGone(d) PROVE Goal
  BY <1>3, <1>9 DEF FellBehind, WriteTimeout, PeerGone, Return
<1>10. ASSUME NEW d \in Conns, Vanish(d) PROVE Goal
  BY <1>3, <1>10 DEF Vanish
<1>11. ASSUME NEW q \in Panels, NEW d \in Conns, Accept(q, d) PROVE Goal
  <2>1. CASE d = c
    BY <1>2, <1>11, <2>1 DEF Accept, Goal
  <2>2. CASE d # c
    BY <1>3, <1>11, <2>2 DEF Accept
  <2> QED
    BY <2>1, <2>2
<1>12. ASSUME NEW q \in Panels,
              Open(q) \/ CheckStaleness(q) \/ Reconnect(q) \/ CloseEvent(q) \/ ConnectStep(q)
       PROVE  Goal
  BY <1>3, <1>12 DEF Open, CheckStaleness, Reconnect, CloseEvent, ConnectRefused, ConnectThrows
<1>13. ASSUME NEW q \in Panels, Receive(q) PROVE Goal
  <2>1. /\ UNCHANGED <<handler, pending>> /\ wire[sock[q]] # <<>> /\ sock[q] \in Conns
        /\ wire' = [wire EXCEPT ![sock[q]] = Tail(@)]
    BY <1>13 DEF Receive
  <2>2. CASE sock[q] = c
    <3>1. Elems(wire'[c]) \subseteq Elems(wire[c])
      BY <1>2, <2>1, <2>2, ElemsTail
    <3> QED
      BY <1>1, <2>1, <3>1 DEF Goal
  <2>3. CASE sock[q] # c
    BY <1>3, <2>1, <2>3
  <2> QED
    BY <2>2, <2>3
<1>14. ASSUME UNCHANGED vars PROVE Goal
  BY <1>3, <1>14 DEF vars
<1>15. Goal
  BY <1>4, <1>5, <1>6, <1>7, <1>8, <1>9, <1>10, <1>11, <1>12, <1>13, <1>14
  DEF Next, HandlerStep, PanelStep
<1> QED
  BY <1>15 DEF Goal

(* A panel that goes back to an older reading, over a connection the store *)
(* still feeds, is already being sent one as new as the reading it left.   *)
THEOREM FeedStepsBackBriefly == Spec => StepsBackBriefly
<1> DEFINE SI == FeedInv /\ NoneAhead /\ HelloFirst
           Brief == \A p \in Panels, c \in subscribers, s \in Sources :
                       (sock[p] = c /\ shown'[p][s] < shown[p][s]) =>
                           \E f \in InFlight(c)' : f.source = s /\ f.version >= shown[p][s]
<1>1. Init => SI
  <2>1. Init => NoneAhead /\ HelloFirst
    <3> SUFFICES ASSUME Init PROVE NoneAhead /\ HelloFirst
      OBVIOUS
    <3>1. Elems(<<>>) = {}
      BY DEF Elems
    <3>2. TypeOK
      BY TypeInit
    <3>3. \A s \in Sources : entry[s].version \in Nat
      BY <3>2, MaxVersionAssumption DEF TypeOK, StoreTypeOK, Entries
    <3>4. \A c \in Conns : InFlight(c) = {}
      BY <3>1, InFlightParts DEF Init, StoreInit
    <3>5. \A p \in Panels, s \in Sources : shown[p][s] = 0
      BY DEF Init
    <3>6. NoneAhead
      BY <3>3, <3>4, <3>5 DEF NoneAhead
    <3> QED
      BY <3>6 DEF Init, HelloFirst
  <2> QED
    BY <2>1, FeedInvInit
<1>2. SI /\ [Next]_vars => SI'
  BY FeedInvStep, NoneAheadStep, HelloFirstStep DEF FeedInv
<1>3. SI /\ [Next]_vars => [Brief]_vars
  <2> SUFFICES ASSUME SI, Next, NEW p \in Panels, NEW c \in subscribers, NEW s \in Sources,
                      sock[p] = c, shown'[p][s] < shown[p][s]
               PROVE  \E f \in InFlight(c)' : f.source = s /\ f.version >= shown[p][s]
    BY DEF vars
  <2> DEFINE v == entry[s].version
  <2>1. /\ TypeOK /\ c \in Conns /\ handler[c] \in {"hello", "loop"}
        /\ shown[p] \in [Sources -> 0..MaxVersion] /\ v \in Nat /\ wire[c] \in Seq(Frames)
    BY MaxVersionAssumption DEF FeedInv, TypeOK, StoreTypeOK, Entries, NoOrphanSubscriber
  <2>2. shown' # shown
    BY <2>1, MaxVersionAssumption
  <2>3. PICK q \in Panels : Receive(q)
    BY <2>2 DEF Next, Write, HandlerStep, SubscribeFirst, SendSnapshot, Send, TakeEvent, FellBehind,
                WriteTimeout, PeerGone, Return, Vanish, PanelStep, Open, CloseEvent, CheckStaleness,
                Reconnect, ConnectRefused, ConnectThrows, Accept, connVars, panelVars
  <2>4. q = p
    BY <2>1, <2>3, MaxVersionAssumption DEF Receive, TypeOK
  <2>5. /\ UNCHANGED <<entry, subscribers, closed, buffer, handler, pending, sock>> /\ wire[c] # <<>>
        /\ shown'[p] = ApplyMessage(shown[p], Head(wire[c]))
    BY <2>1, <2>3, <2>4 DEF Receive, TypeOK, storeVars
  <2>6. handler[c] = "loop"
    <3>1. SUFFICES ASSUME handler[c] = "hello" PROVE FALSE
      BY <2>1
    <3>2. Head(wire[c]) = Hello
      BY <2>1, <2>5, <3>1, ElemsTail DEF HelloFirst
    <3>3. shown'[p] = shown[p]
      BY <2>5, <3>2, HelloAssumption DEF ApplyMessage, Hello
    <3> QED
      BY <2>1, <3>3, MaxVersionAssumption
  <2>7. shown[p][s] <= v /\ shown[p][s] \in Nat /\ TypeOK'
    <3>1. TypeOK'
      BY <2>1, TypeStep
    <3> QED
      BY <2>1, <3>1, MaxVersionAssumption DEF NoneAhead
  <2>8. shown'[p][s] \in Nat
    BY <2>7, MaxVersionAssumption DEF TypeOK
  <2>9. v > 0 /\ shown'[p][s] # v
    BY <2>1, <2>7, <2>8
  <2>10. OnItsWay(buffer'[c], pending'[c], wire'[c], shown'[p][s], s, v)
    <3>1. Converges'
      BY FeedInvStep DEF FeedInv
    <3> QED
      BY <2>1, <2>5, <2>6, <2>9, <3>1, ConvergesNext
  <2>11. ASSUME NEW b, EndsAt(b, s, v), DOMAIN b = 1..Len(b)
         PROVE  \E f \in Elems(b) : f.source = s /\ f.version = v
    BY <2>11 DEF EndsAt, Elems
  <2>12. DOMAIN buffer'[c] = 1..Len(buffer'[c]) /\ DOMAIN wire'[c] = 1..Len(wire'[c])
    BY <2>1, <2>7, LenProperties DEF TypeOK, StoreTypeOK
  <2> HIDE DEF v
  <2>13. \E f \in InFlight(c)' : f.source = s /\ f.version = v
    BY <2>9, <2>10, <2>11, <2>12, InFlightParts DEF OnItsWay
  <2> QED
    BY <2>1, <2>7, <2>13
<1> HIDE DEF SI
<1> QED
  BY <1>1, <1>2, <1>3, PTL DEF Spec, StepsBackBriefly

-------------------------------------------------------------------------------
(* The panel's own state machine: a close and a connect() that came to     *)
(* nothing arm the one timer, and only the timer makes the next socket.    *)
LEMMA OneSocketStep == TypeOK /\ OneSocket /\ [Next]_vars => OneSocket'
<1> SUFFICES ASSUME TypeOK, OneSocket, [Next]_vars PROVE OneSocket'
  OBVIOUS
<1> USE DEF OneSocket, TypeOK, connVars, panelVars
<1>1. ASSUME NEW s \in Enabled, Write(s) PROVE OneSocket'
  BY <1>1 DEF Write
<1>2. ASSUME NEW c \in Conns, HandlerStep(c) \/ WriteTimeout(c) \/ Vanish(c) PROVE OneSocket'
  BY <1>2 DEF HandlerStep, SubscribeFirst, SendSnapshot, Send, TakeEvent, FellBehind, PeerGone,
              WriteTimeout, Return, Vanish
<1>3. ASSUME NEW p \in Panels, NEW c \in Conns, Accept(p, c) PROVE OneSocket'
  BY <1>3 DEF Accept, Connecting
<1>4. ASSUME NEW p \in Panels, Open(p) \/ CheckStaleness(p) \/ Reconnect(p) PROVE OneSocket'
  <2>1. CASE Open(p)
    BY <2>1 DEF Open
  <2>2. CASE CheckStaleness(p)
    BY <2>2 DEF CheckStaleness
  <2>3. CASE Reconnect(p)
    BY <2>3 DEF Reconnect
  <2> QED
    BY <1>4, <2>1, <2>2, <2>3
<1>5. ASSUME NEW p \in Panels, CloseEvent(p) \/ ConnectStep(p) PROVE OneSocket'
  <2>1. CASE CloseEvent(p) \/ ConnectRefused(p)
    <3>1. GoDown(p)
      BY <2>1 DEF CloseEvent, ConnectRefused
    <3> QED
      BY <3>1 DEF GoDown
  <2>2. CASE ConnectThrows(p)
    BY <2>2 DEF ConnectThrows, Connecting
  <2> QED
    BY <1>5, <2>1, <2>2
<1>6. ASSUME NEW p \in Panels, Receive(p) PROVE OneSocket'
  BY <1>6 DEF Receive
<1>7. CASE UNCHANGED vars
  BY <1>7 DEF vars
<1> QED
  BY <1>1, <1>2, <1>3, <1>4, <1>5, <1>6, <1>7 DEF Next, PanelStep

(* A panel that is down has exactly the reconnect timer ahead of it, and   *)
(* no reconnect is ever pending beside a socket.                           *)
THEOREM FeedOneSocket == Spec => []OneSocket
<1>1. Init => OneSocket
  BY DEF Init, OneSocket
<1> QED
  BY <1>1, TypeInit, TypeStep, OneSocketStep, PTL DEF Spec

-------------------------------------------------------------------------------
(* The runner.                                                             *)

(* What the argument needs of the types; the delay of a failed source is   *)
(* no part of it.                                                          *)
RunnerShapes ==
    /\ entry \in [Sources -> Entries]
    /\ pc \in [Enabled -> {"polling", "waiting", "stopped"}]
    /\ left = [s \in Enabled |-> left[s]]
    /\ repoll \in [Enabled -> BOOLEAN]
    /\ cancelled \in BOOLEAN
    /\ unserved \in [Enabled -> BOOLEAN]
    /\ age \in [Enabled -> Nat]

(* A poll's deadline, whatever came before it.                             *)
DeadlineInv ==
    \A s \in Enabled : pc[s] = "polling" => left[s] \in 0..PollTimeout(s)

(* Only a cancelled context stops a loop.                                  *)
StopInv == \A s \in Enabled : pc[s] = "stopped" => cancelled

(* Of a source that reports ok: age and time left add up to a bound.       *)
AgeInv ==
    \A s \in Enabled :
        entry[s].status = "ok" =>
            /\ pc[s] = "waiting" =>
                  /\ left[s] \in 0..Interval[s]
                  /\ age[s] + left[s] <= PollTimeout(s) + Interval[s]
            /\ pc[s] = "polling" =>
                  age[s] + left[s] <= PollTimeout(s) + Interval[s] + PollTimeout(s)

RInv == RunnerShapes /\ DeadlineInv /\ StopInv /\ AgeInv /\ TapNotLost

-------------------------------------------------------------------------------
LEMMA Periods ==
    ASSUME NEW s \in Enabled
    PROVE  /\ Interval[s] \in Nat \ {0} /\ PollTimeout(s) \in Nat \ {0}
           /\ s \in Sources
  BY IntervalAssumption, MinPollTimeoutAssumption, EnabledAssumption DEF PollTimeout

LEMMA RunnerInitInv == RunnerInit => RInv
<1> SUFFICES ASSUME RunnerInit PROVE RInv
  OBVIOUS
<1> USE DEF RunnerInit
<1>1. entry \in [Sources -> Entries] /\ \A s \in Enabled : entry[s].status = "degraded"
  <2>1. \A s \in Sources : Register(s) \in Entries
    BY MaxVersionAssumption DEF Register, Entries, Statuses, Errors
  <2>2. \A s \in Enabled : s \in Sources /\ Register(s).status = "degraded"
    BY EnabledAssumption DEF Register
  <2> QED
    BY <2>1, <2>2 DEF StoreInit
<1>2. \A s \in Enabled : left[s] = PollTimeout(s) /\ pc[s] = "polling" /\ ~unserved[s]
  OBVIOUS
<1>3. RunnerShapes
  BY <1>1 DEF RunnerShapes
<1>4. DeadlineInv /\ StopInv
  BY <1>2, Periods DEF DeadlineInv, StopInv
<1>5. AgeInv /\ TapNotLost
  BY <1>1, <1>2 DEF AgeInv, TapNotLost
<1> QED
  BY <1>3, <1>4, <1>5 DEF RInv

(* The store's record of s; what happens to the subscribers is not at      *)
(* issue here.                                                             *)
LEMMA Recorded ==
    ASSUME entry \in [Sources -> Entries], NEW s \in Enabled
    PROVE  /\ Update(s) => entry' \in [Sources -> Entries] /\ entry'[s].status = "ok"
           /\ UpdatePartial(s, "reduced capability") =>
                entry' \in [Sources -> Entries] /\ entry'[s].status = "degraded"
           /\ Fail(s) => entry' \in [Sources -> Entries] /\ entry'[s].status = "degraded"
           /\ Update(s) \/ UpdatePartial(s, "reduced capability") \/ Fail(s) =>
                \A u \in Sources \ {s} : entry'[u] = entry[u]
<1>1. s \in Sources
  BY EnabledAssumption
<1>2. NextVersion(s) \in 0..MaxVersion
  BY <1>1, MaxVersionAssumption DEF NextVersion, Entries
<1>3. ASSUME Update(s)
      PROVE  entry' \in [Sources -> Entries] /\ entry'[s].status = "ok"
             /\ \A u \in Sources \ {s} : entry'[u] = entry[u]
  BY <1>1, <1>2, <1>3 DEF Update, Entries, Statuses, Errors
<1>4. ASSUME UpdatePartial(s, "reduced capability")
      PROVE  entry' \in [Sources -> Entries] /\ entry'[s].status = "degraded"
             /\ \A u \in Sources \ {s} : entry'[u] = entry[u]
  BY <1>1, <1>2, <1>4 DEF UpdatePartial, Entries, Statuses, Errors
<1>5. ASSUME Fail(s)
      PROVE  entry' \in [Sources -> Entries] /\ entry'[s].status = "degraded"
             /\ \A u \in Sources \ {s} : entry'[u] = entry[u]
  BY <1>1, <1>5 DEF Fail, Entries, Statuses, Errors
<1> QED
  BY <1>3, <1>4, <1>5

-------------------------------------------------------------------------------
(* One step of one source's loop.  Nothing of another source changes.      *)
Apart(s) ==
    /\ \A u \in Sources \ {s} : entry'[u] = entry[u]
    /\ \A u \in Enabled \ {s} : /\ pc'[u] = pc[u] /\ left'[u] = left[u] /\ age'[u] = age[u]
                                /\ repoll'[u] = repoll[u] /\ unserved'[u] = unserved[u]
    /\ cancelled' = cancelled

(* What the invariant says of one source.                                  *)
RInvAt(s) ==
    /\ pc[s] = "polling" => left[s] \in 0..PollTimeout(s)
    /\ pc[s] = "stopped" => cancelled
    /\ entry[s].status = "ok" =>
          /\ pc[s] = "waiting" =>
                /\ left[s] \in 0..Interval[s]
                /\ age[s] + left[s] <= PollTimeout(s) + Interval[s]
          /\ pc[s] = "polling" =>
                age[s] + left[s] <= PollTimeout(s) + Interval[s] + PollTimeout(s)
    /\ unserved[s] => repoll[s]

LEMMA OneByOne == RInv <=> RunnerShapes /\ \A s \in Enabled : RInvAt(s)
  BY DEF RInv, DeadlineInv, StopInv, AgeInv, TapNotLost, RInvAt

LEMMA OthersKept ==
    ASSUME RInv, NEW s \in Enabled, Apart(s), RunnerShapes', RInvAt(s)'
    PROVE  RInv'
<1>1. \A u \in Enabled \ {s} : u \in Sources /\ RInvAt(u)
  BY OneByOne, EnabledAssumption
<1>2. \A u \in Enabled \ {s} : RInvAt(u)'
  BY <1>1 DEF RInvAt, Apart, PollTimeout
<1> QED
  BY <1>2, OneByOne DEF RInv, DeadlineInv, StopInv, AgeInv, TapNotLost, RInvAt

LEMMA PollEndKeeps ==
    ASSUME RInv, NEW s \in Enabled, pc[s] = "polling",
           PollOK(s) \/ PollPartial(s) \/ PollFails(s)
    PROVE  RInv'
<1>1. s \in Sources /\ Interval[s] \in Nat /\ PollTimeout(s) \in Nat
  BY Periods
<1>2. left[s] \in 0..PollTimeout(s) /\ RunnerShapes
  BY DEF RInv, DeadlineInv
<1>3. UNCHANGED <<repoll, cancelled, unserved>>
  BY DEF PollOK, PollPartial, PollFails
<1>4. /\ entry' \in [Sources -> Entries]
      /\ \A u \in Sources \ {s} : entry'[u] = entry[u]
      /\ PollPartial(s) \/ PollFails(s) => entry'[s].status = "degraded"
  BY <1>2, Recorded DEF PollOK, PollPartial, PollFails, RunnerShapes
<1>5. PICK delay : /\ pc' = [pc EXCEPT ![s] = "waiting"]
                   /\ left' = [left EXCEPT ![s] = delay]
                   /\ PollOK(s) => delay = Interval[s]
  <2>1. BackoffDelay(Interval[s], 0) = Interval[s]
    BY DEF BackoffDelay
  <2> QED
    BY <2>1 DEF PollOK, PollPartial, PollFails, Wait
<1>6. pc'[s] = "waiting" /\ left'[s] = delay
  BY <1>2, <1>5 DEF RunnerShapes
<1>7. age' \in [Enabled -> Nat] /\ (PollOK(s) => age'[s] <= PollTimeout(s))
      /\ \A u \in Enabled \ {s} : age'[u] = age[u]
  <2>1. Elapsed(s) \in 0..PollTimeout(s)
    BY <1>1, <1>2 DEF Elapsed
  <2>2. \/ age' = age /\ ~PollOK(s)
        \/ age' = [age EXCEPT ![s] = Elapsed(s)]
    BY DEF PollOK, PollPartial, PollFails, RunnerShapes, Update, Fail
  <2>3. age \in [Enabled -> Nat] /\ Elapsed(s) \in Nat
    BY <1>1, <1>2, <2>1 DEF RunnerShapes
  <2> HIDE DEF Elapsed
  <2> QED
    BY <1>1, <2>1, <2>2, <2>3
<1>8. RunnerShapes'
  BY <1>2, <1>3, <1>4, <1>5, <1>7 DEF RunnerShapes
<1>9. Apart(s)
  BY <1>2, <1>3, <1>4, <1>5, <1>7 DEF Apart, RunnerShapes
<1>10. RInvAt(s)'
  <2>1. PollOK(s) => left'[s] = Interval[s] /\ age'[s] \in Nat /\ age'[s] <= PollTimeout(s)
    BY <1>5, <1>6, <1>7
  <2>2. unserved'[s] => repoll'[s]
    BY <1>3 DEF RInv, TapNotLost
  <2>3. entry'[s].status = "ok" => PollOK(s)
    BY <1>4
  <2>4. PollTimeout(s)' = PollTimeout(s)
    BY DEF PollTimeout
  <2> QED
    BY <1>1, <1>6, <2>1, <2>2, <2>3, <2>4 DEF RInvAt
<1> QED
  BY <1>8, <1>9, <1>10, OthersKept

LEMMA BeginPollKeeps ==
    ASSUME RInv, NEW s \in Enabled, pc[s] = "waiting", BeginPoll(s),
           repoll' \in [Enabled -> BOOLEAN], \A u \in Enabled \ {s} : repoll'[u] = repoll[u]
    PROVE  RInv'
<1> USE DEF BeginPoll
<1>1. s \in Sources /\ Interval[s] \in Nat /\ PollTimeout(s) \in Nat /\ RunnerShapes
  BY Periods DEF RInv
<1>2. entry' = entry
  BY DEF storeVars
<1>3. pc'[s] = "polling" /\ left'[s] = PollTimeout(s) /\ unserved'[s] = FALSE
  BY <1>1 DEF RunnerShapes
<1>4. RunnerShapes'
  BY <1>1, <1>2 DEF RunnerShapes
<1>5. Apart(s)
  BY <1>1, <1>2 DEF Apart, RunnerShapes
<1>6. RInvAt(s)'
  <2>1. entry[s].status = "ok" => age[s] <= PollTimeout(s) + Interval[s]
    BY <1>1 DEF RInv, AgeInv, RunnerShapes
  <2>2. age'[s] = age[s] /\ age[s] \in Nat
    BY <1>1 DEF RunnerShapes
  <2>3. PollTimeout(s)' = PollTimeout(s)
    BY DEF PollTimeout
  <2> QED
    BY <1>1, <1>2, <1>3, <2>1, <2>2, <2>3 DEF RInvAt
<1> QED
  BY <1>4, <1>5, <1>6, OthersKept

LEMMA TickKeeps == ASSUME RInv, Tick PROVE RInv'
<1> USE DEF Tick
<1>1. RunnerShapes
  BY DEF RInv
<1>2. UNCHANGED <<entry, pc, repoll, cancelled, unserved>>
  BY DEF storeVars
<1>3. \A s \in Enabled : age'[s] \in Nat /\ age'[s] <= age[s] + 1
  BY <1>1 DEF RunnerShapes
<1>4. RunnerShapes'
  BY <1>1, <1>2, <1>3 DEF RunnerShapes
<1>5. ASSUME NEW s \in Enabled PROVE RInvAt(s)'
  <2>1. Interval[s] \in Nat /\ PollTimeout(s) \in Nat /\ age[s] \in Nat /\ RInvAt(s)
    BY <1>1, Periods, OneByOne DEF RunnerShapes
  <2>2. age'[s] \in Nat /\ age'[s] <= age[s] + 1
    BY <1>3
  <2>3. pc[s] # "stopped" => left[s] # 0 /\ left'[s] = left[s] - 1
    BY DEF Overdue
  <2>4. PollTimeout(s)' = PollTimeout(s)
    BY DEF PollTimeout
  <2> HIDE DEF Tick
  <2> QED
    BY <1>2, <2>1, <2>2, <2>3, <2>4 DEF RInvAt
<1> QED
  BY <1>4, <1>5, OneByOne DEF RInv, DeadlineInv, StopInv, AgeInv, TapNotLost, RInvAt

LEMMA RunnerStepInv == ASSUME RInv, [RunnerNext]_runnerVars PROVE RInv'
<1>1. ASSUME NEW s \in Enabled, PollOK(s) \/ PollPartial(s) \/ PollFails(s) PROVE RInv'
  BY <1>1, PollEndKeeps DEF PollOK, PollPartial, PollFails
<1>2. ASSUME NEW s \in Enabled, TakeRepoll(s) \/ TimerFires(s) PROVE RInv'
  BY <1>2, BeginPollKeeps DEF TakeRepoll, TimerFires, RInv, RunnerShapes
<1>3. ASSUME NEW s \in Enabled, StopLoop(s) \/ PollNow(s) PROVE RInv'
  <2>1. RunnerShapes /\ UNCHANGED <<entry, left, cancelled, age>>
    BY <1>3 DEF StopLoop, PollNow, storeVars, RInv
  <2>2. RunnerShapes'
    BY <1>3, <2>1 DEF StopLoop, PollNow, RunnerShapes
  <2>3. Apart(s)
    BY <1>3, <2>1 DEF StopLoop, PollNow, Apart, RunnerShapes
  <2>4. RInvAt(s)'
    BY <1>3, <2>1, OneByOne DEF StopLoop, PollNow, RInvAt, RunnerShapes, PollTimeout
  <2> QED
    BY <2>2, <2>3, <2>4, OthersKept
<1>4. CASE CancelAll
  BY <1>4 DEF CancelAll, storeVars, RInv, RunnerShapes, DeadlineInv, StopInv, AgeInv, TapNotLost,
              PollTimeout
<1>5. CASE Tick
  BY <1>5, TickKeeps
<1>6. CASE UNCHANGED runnerVars
  BY <1>6 DEF runnerVars, loopVars, storeVars, RInv, RunnerShapes, DeadlineInv, StopInv, AgeInv,
              TapNotLost, PollTimeout
<1> QED
  BY <1>1, <1>2, <1>3, <1>4, <1>5, <1>6 DEF RunnerNext

LEMMA RInvHolds == RunnerSpec => []RInv
  BY RunnerInitInv, RunnerStepInv, PTL DEF RunnerSpec

(* A tap is in the channel until a poll that began after it takes it.      *)
THEOREM RunnerTapNotLost == RunnerSpec => []TapNotLost
<1>1. RInv => TapNotLost
  BY DEF RInv
<1> QED
  BY <1>1, RInvHolds, PTL

(* What a source calls ok is no older than two polls and an interval.      *)
THEOREM RunnerOkIsRecent == RunnerSpec => []OkIsRecent
<1>1. ASSUME RInv, NEW s \in Enabled, entry[s].status = "ok", ~cancelled
      PROVE  age[s] <= PollTimeout(s) + Interval[s] + PollTimeout(s)
  <2>1. /\ Interval[s] \in Nat /\ PollTimeout(s) \in Nat /\ age[s] \in Nat /\ RInvAt(s)
        /\ pc[s] \in {"polling", "waiting"}
    BY <1>1, Periods, OneByOne DEF RInv, RunnerShapes, StopInv
  <2> QED
    BY <1>1, <2>1 DEF RInvAt
<1>2. RInv => OkIsRecent
  BY <1>1 DEF OkIsRecent
<1> QED
  BY <1>2, RInvHolds, PTL

-------------------------------------------------------------------------------
(* backoffDelay.  The library's induction theorems take a predicate, which *)
(* the provers here cannot instantiate; that every nonempty set of         *)
(* naturals has a least element serves as well.                            *)
LEMMA LeastNumber ==
    ASSUME NEW T \in SUBSET Nat, T # {}
    PROVE  \E x \in T : \A y \in T : x <= y
<1> DEFINE R == {ss \in Nat \X Nat : ss[1] < ss[2]}
<1>1. IsWellFoundedOn(R, Nat)
  BY NatLessThanWellFounded, Zenon DEF OpToRel
<1>2. \E x \in T : \A y \in T : <<y, x>> \notin R
  BY <1>1, WFMin, Zenon
<1>3. PICK x \in T : \A y \in T : <<y, x>> \notin R
  BY <1>2
<1>4. ASSUME NEW y \in T PROVE x <= y
  <2>1. <<y, x>> \notin R /\ x \in Nat /\ y \in Nat /\ <<y, x>> \in Nat \X Nat
    BY <1>3
  <2>2. ~(y < x)
    BY <2>1
  <2> QED
    BY <2>1, <2>2
<1> QED
  BY <1>4

(* The interval doubled k times, but for the cap.                          *)
Capped(interval, k) ==
    IF k = 0 THEN interval
    ELSE IF interval * 2^k < MaxBackoff THEN interval * 2^k ELSE MaxBackoff

(* One round of the loop takes the closed form for k - 1 to that for k.    *)
LEMMA OneRound ==
    ASSUME NEW interval \in Nat \ {0}, NEW k \in 0..FailureCap, k # 0
    PROVE  /\ Capped(interval, k) \in Nat
           /\ Capped(interval, k) =
                IF Capped(interval, k - 1) * 2 >= MaxBackoff THEN MaxBackoff
                ELSE Capped(interval, k - 1) * 2
<1> DEFINE p == 2^(k - 1)
           q == interval * p
<1>1. p \in Nat /\ 2^k = 2 * p /\ 2^k \in Nat
  <2>1. k - 1 \in 0..FailureCap /\ (k - 1) + 1 = k
    BY FailureCapAssumption
  <2> QED
    BY <2>1, PowersAssumption
<1>2. q \in Nat /\ interval * 2^k = q * 2
  <2> HIDE DEF p
  <2> QED
    BY <1>1
<1>3. MaxBackoff \in Nat \ {0}
  BY MaxBackoffAssumption
<1>4. k = 1 => p = 1
  OBVIOUS
<1>5. k = 1 => q = interval
  BY <1>4
<1> HIDE DEF p, q
<1>6. CASE k = 1
  BY <1>2, <1>3, <1>5, <1>6 DEF Capped
<1>7. CASE k # 1
  <2>1. k - 1 # 0
    BY <1>7, FailureCapAssumption
  <2>2. Capped(interval, k - 1) = IF q < MaxBackoff THEN q ELSE MaxBackoff
    BY <2>1 DEF Capped, p, q
  <2> QED
    BY <1>2, <1>3, <2>2 DEF Capped
<1> QED
  BY <1>6, <1>7

(* backoffDelay's loop, stopped early at the cap, computes the interval    *)
(* doubled per failure, capped, never below the interval, for every        *)
(* interval, cap and number of failures.                                   *)
THEOREM BackoffIsCappedDoubling ==
    ASSUME NEW interval \in Nat \ {0}, NEW n \in 0..FailureCap
    PROVE  BackoffDelay(interval, n) =
              IF n = 0 THEN interval ELSE Larger(Capped(interval, n), interval)
<1> DEFINE Round(g) == [k \in 0..FailureCap |->
                          IF k = 0 THEN interval
                          ELSE IF g[k - 1] * 2 >= MaxBackoff THEN MaxBackoff ELSE g[k - 1] * 2]
           formula == [k \in 0..FailureCap |-> Capped(interval, k)]
           doubled == CHOOSE g : g = Round(g)
<1>1. formula = Round(formula)
  <2>1. ASSUME NEW k \in 0..FailureCap, k # 0
        PROVE  formula[k] = IF formula[k - 1] * 2 >= MaxBackoff THEN MaxBackoff ELSE formula[k - 1] * 2
    <3>1. k - 1 \in 0..FailureCap
      BY <2>1, FailureCapAssumption
    <3> QED
      BY <2>1, <3>1, OneRound
  <2>2. 0 \in 0..FailureCap => formula[0] = interval
    BY DEF Capped
  <2>3. formula = [k \in 0..FailureCap |-> formula[k]]
    OBVIOUS
  <2> HIDE DEF formula
  <2> QED
    BY <2>1, <2>2, <2>3
<1>2. doubled = Round(doubled)
  <2> HIDE DEF formula, Round
  <2>1. \E g : g = Round(g)
    BY <1>1
  <2> QED
    BY <2>1
<1>3. \A k \in 0..FailureCap : doubled[k] = Capped(interval, k)
  <2> DEFINE T == {k \in 0..FailureCap : doubled[k] # Capped(interval, k)}
  <2> HIDE DEF doubled
  <2>1. SUFFICES ASSUME T # {} PROVE FALSE
    OBVIOUS
  <2>2. T \in SUBSET Nat
    OBVIOUS
  <2>3. PICK x \in T : \A y \in T : x <= y
    BY <2>1, <2>2, LeastNumber
  <2>4. x \in 0..FailureCap /\ doubled[x] # Capped(interval, x)
    OBVIOUS
  <2>5. x # 0
    BY <1>2, <2>4 DEF Capped
  <2>6. x - 1 \in 0..FailureCap /\ x - 1 \notin T
    BY <2>3, <2>4, <2>5, FailureCapAssumption
  <2>7. doubled[x - 1] = Capped(interval, x - 1)
    BY <2>6
  <2> HIDE DEF T
  <2>8. doubled[x] = IF doubled[x - 1] * 2 >= MaxBackoff THEN MaxBackoff ELSE doubled[x - 1] * 2
    BY <1>2, <2>4, <2>5
  <2> QED
    BY <2>4, <2>5, <2>7, <2>8, OneRound
<1>4. BackoffDelay(interval, n) = IF n = 0 THEN interval ELSE Larger(doubled[n], interval)
  BY DEF BackoffDelay
<1> HIDE DEF doubled
<1> QED
  BY <1>3, <1>4

LEMMA BackoffType ==
    ASSUME NEW interval \in Nat \ {0}, NEW n \in 0..FailureCap
    PROVE  BackoffDelay(interval, n) \in Nat
<1>1. n # 0 => Capped(interval, n) \in Nat
  BY OneRound
<1> QED
  BY <1>1, BackoffIsCappedDoubling DEF Larger

(* A poll's end keeps the types, the count of failures up to its bound.    *)
LEMMA PollEndTypes ==
    ASSUME RunnerTypeOK, RInv', NEW s \in Enabled, PollEnds(s)
    PROVE  RunnerTypeOK'
<1>1. s \in Sources /\ Interval[s] \in Nat \ {0} /\ failures[s] \in 0..FailureCap
  BY Periods DEF RunnerTypeOK
<1>2. StoreTypeOK'
  <2>1. StoreTypeOK /\ NextVersion(s) \in 0..MaxVersion /\ Reading(s) \in Events
    BY <1>1, NextVersionType DEF RunnerTypeOK, Reading, Events
  <2>2. entry' \in [Sources -> Entries]
    BY <1>1, <2>1, Recorded DEF PollEnds, PollOK, PollPartial, PollFails, StoreTypeOK
  <2>3. CASE PollOK(s) \/ PollPartial(s)
    <3>1. Broadcast(Reading(s))
      BY <2>3 DEF PollOK, PollPartial, Update, UpdatePartial
    <3> QED
      BY <2>1, <2>2, <3>1, BroadcastTypes DEF StoreTypeOK
  <2>4. CASE PollFails(s)
    BY <2>1, <2>2, <2>4 DEF PollFails, Fail, StoreTypeOK
  <2> QED
    BY <2>3, <2>4 DEF PollEnds
<1>3. PICK n \in 0..FailureCap : Wait(s, n)
  <2>1. 0 \in 0..FailureCap
        /\ (IF failures[s] < FailureCap THEN failures[s] + 1 ELSE FailureCap) \in 0..FailureCap
    BY <1>1, FailureCapAssumption
  <2> QED
    BY <2>1 DEF PollEnds, PollOK, PollPartial, PollFails
<1>4. /\ pc' \in [Enabled -> {"polling", "waiting", "stopped"}]
      /\ failures' \in [Enabled -> 0..FailureCap]
      /\ left' \in [Enabled -> Nat]
  BY <1>1, <1>3, BackoffType DEF Wait, RunnerTypeOK
<1> QED
  BY <1>2, <1>4 DEF RunnerTypeOK, RInv, RunnerShapes

LEMMA RunnerTypeStep == RunnerTypeOK /\ RInv' /\ [RunnerNext]_runnerVars => RunnerTypeOK'
<1> SUFFICES ASSUME RunnerTypeOK, RInv', [RunnerNext]_runnerVars PROVE RunnerTypeOK'
  OBVIOUS
<1>1. ASSUME NEW s \in Enabled, PollOK(s) \/ PollPartial(s) \/ PollFails(s) PROVE RunnerTypeOK'
  BY <1>1, PollEndTypes DEF PollEnds
<1>2. ASSUME UNCHANGED storeVars PROVE StoreTypeOK'
  BY <1>2 DEF storeVars, StoreTypeOK, RunnerTypeOK
<1>3. ASSUME NEW s \in Enabled, BeginPoll(s) PROVE RunnerTypeOK'
  <2>1. StoreTypeOK' /\ PollTimeout(s) \in Nat /\ UNCHANGED failures
    BY <1>2, <1>3, Periods DEF BeginPoll
  <2>2. left' \in [Enabled -> Nat]
    BY <1>3, <2>1 DEF BeginPoll, RunnerTypeOK
  <2> QED
    BY <2>1, <2>2 DEF RunnerTypeOK, RInv, RunnerShapes
<1>4. ASSUME NEW s \in Enabled, StopLoop(s) \/ PollNow(s) PROVE RunnerTypeOK'
  <2>1. StoreTypeOK' /\ UNCHANGED <<failures, left>>
    BY <1>2, <1>4 DEF StopLoop, PollNow
  <2> QED
    BY <2>1 DEF RunnerTypeOK, RInv, RunnerShapes
<1>5. CASE CancelAll
  <2>1. StoreTypeOK' /\ UNCHANGED <<failures, left>>
    BY <1>2, <1>5 DEF CancelAll
  <2> QED
    BY <2>1 DEF RunnerTypeOK, RInv, RunnerShapes
<1>6. CASE Tick
  <2>1. StoreTypeOK' /\ UNCHANGED failures
    BY <1>2, <1>6 DEF Tick
  <2>2. left' \in [Enabled -> Nat]
    BY <1>6 DEF Tick, Overdue, RunnerTypeOK
  <2> QED
    BY <2>1, <2>2 DEF RunnerTypeOK, RInv, RunnerShapes
<1>7. CASE UNCHANGED runnerVars
  <2>1. StoreTypeOK' /\ UNCHANGED <<failures, left>>
    BY <1>2, <1>7 DEF runnerVars, loopVars
  <2> QED
    BY <2>1 DEF RunnerTypeOK, RInv, RunnerShapes
<1> QED
  BY <1>1, <1>3, <1>4, <1>5, <1>6, <1>7 DEF RunnerNext, TakeRepoll, TimerFires

LEMMA RunnerTypeInit == RunnerInit => RunnerTypeOK
<1> SUFFICES ASSUME RunnerInit PROVE RunnerTypeOK
  OBVIOUS
<1>1. StoreTypeOK
  BY StoreTypeInit DEF RunnerInit
<1>2. left \in [Enabled -> Nat] /\ failures \in [Enabled -> 0..FailureCap]
  BY Periods, FailureCapAssumption DEF RunnerInit
<1> QED
  BY <1>1, <1>2, RunnerInitInv DEF RunnerTypeOK, RInv, RunnerShapes

(* Every variable of the runner keeps its type: no timer and no deadline   *)
(* is ever set or counted below zero, whatever the backoff computes.       *)
THEOREM RunnerTypeCorrect == RunnerSpec => []RunnerTypeOK
<1>1. QED
  BY RunnerTypeInit, RunnerTypeStep, RInvHolds, PTL DEF RunnerSpec

(* The wait a loop arms after a poll is the interval after a success and   *)
(* otherwise the interval doubled per consecutive failure, capped, never   *)
(* below the interval, for every interval, cap and run of failures.        *)
THEOREM RunnerWaitIsCappedDoubling == RunnerSpec => WaitIsCappedDoubling
<1> DEFINE Wish(s) == Interval[s] * 2^(failures'[s])
           Armed(s) == IF failures'[s] = 0 THEN Interval[s]
                       ELSE Larger(Interval[s], IF Wish(s) < MaxBackoff THEN Wish(s) ELSE MaxBackoff)
<1>1. ASSUME RunnerTypeOK, RunnerTypeOK', [RunnerNext]_runnerVars, NEW s \in Enabled,
             pc[s] = "polling", pc'[s] = "waiting"
      PROVE  left'[s] = Armed(s)
  <2>0. pc \in [Enabled -> {"polling", "waiting", "stopped"}]
    BY <1>1 DEF RunnerTypeOK
  <2>1. PollEnds(s)
    <3>1. ASSUME NEW u \in Enabled, PollOK(u) \/ PollPartial(u) \/ PollFails(u)
          PROVE  PollEnds(s)
      <4>1. PICK n : Wait(u, n)
        BY <3>1 DEF PollOK, PollPartial, PollFails
      <4>2. u = s
        BY <1>1, <2>0, <4>1 DEF Wait
      <4> QED
        BY <3>1, <4>2 DEF PollEnds
    <3>2. ASSUME NEW u \in Enabled, BeginPoll(u) \/ StopLoop(u) PROVE FALSE
      BY <1>1, <2>0, <3>2 DEF BeginPoll, StopLoop
    <3>3. ASSUME pc' = pc PROVE FALSE
      BY <1>1, <3>3
    <3>4. CASE UNCHANGED runnerVars
      BY <3>3, <3>4 DEF runnerVars, loopVars
    <3> QED
      BY <1>1, <3>1, <3>2, <3>3, <3>4 DEF RunnerNext, TakeRepoll, TimerFires, PollNow, CancelAll, Tick
  <2>2. PICK n : Wait(s, n)
    BY <2>1 DEF PollEnds, PollOK, PollPartial, PollFails
  <2>3. failures'[s] = n /\ left'[s] = BackoffDelay(Interval[s], n) /\ n \in 0..FailureCap
    BY <1>1, <2>2 DEF Wait, RunnerTypeOK
  <2>4. left'[s] = IF n = 0 THEN Interval[s] ELSE Larger(Capped(Interval[s], n), Interval[s])
    BY <2>3, Periods, BackoffIsCappedDoubling
  <2>5. n # 0 => Capped(Interval[s], n) \in Nat
    BY <2>3, Periods, OneRound
  <2>6. n # 0 => Larger(Capped(Interval[s], n), Interval[s]) = Larger(Interval[s], Capped(Interval[s], n))
    BY <2>5, Periods DEF Larger
  <2>7. n # 0 => Capped(Interval[s], n) = IF Wish(s) < MaxBackoff THEN Wish(s) ELSE MaxBackoff
    BY <2>3 DEF Capped
  <2> QED
    BY <2>3, <2>4, <2>6, <2>7
<1>2. RunnerTypeOK /\ RunnerTypeOK' /\ [RunnerNext]_runnerVars =>
        [\A s \in Enabled : (pc[s] = "polling" /\ pc'[s] = "waiting") => left'[s] = Armed(s)]_runnerVars
  BY <1>1
<1> QED
  BY <1>2, RunnerTypeCorrect, PTL DEF RunnerSpec, WaitIsCappedDoubling
===============================================================================
