-------------------------- MODULE RunFanoutProofs --------------------------
(***************************************************************************)
(* Theorems about the fan-out of a run: for any number of browsers, any    *)
(* buffer and queue size that SizesAssumption admits, and any number of    *)
(* events, overflows, reconnections, reloads and restarts.                 *)
(***************************************************************************)
EXTENDS RunFanout, SequenceTheorems, TLAPS

(* TypeOK in three parts: its flags, the run, and what is kept of a client. *)
Flags ==
  /\ up \in BOOLEAN /\ working \in BOOLEAN
  /\ stopping \in BOOLEAN /\ approving \in BOOLEAN /\ reopened \in BOOLEAN

Run ==
  /\ status \in Statuses /\ recorded \in Statuses
  /\ last \in 0..MaxSequence /\ final \in 0..MaxSequence
  /\ run \in {"none", "listed", "detached", "over"}
  /\ events \in Seq(1..MaxSequence) /\ Len(events) <= MaxEvents
  /\ restarts \in 0..MaxRestarts /\ reloads \in 0..MaxReloads

Queues ==
  /\ subscribers \subseteq Clients
  /\ queue \in [Clients -> Seq(Items)]
  /\ \A c \in Clients : Len(queue[c]) <= QueueSize
  /\ reader \in [Clients -> {"away", "reading", "ended"}]

Pages ==
  /\ cursor \in [Clients -> 0..MaxSequence]
  /\ tracking \in [Clients -> BOOLEAN]
  /\ shown \in [Clients -> 0..MaxSequence]
  /\ expected \in [Clients -> 0..MaxSequence + 1]

(* A task that works has an open run, in the row and in its record.  After *)
(* a terminal event both say so, and the run is out of reach of new calls. *)
Outcome ==
  /\ working => status = "open" /\ recorded = "open"
  /\ final <= last
  /\ final # 0 => /\ status = "terminal" /\ recorded = "terminal"
                  /\ ~working /\ run \in {"none", "over"}

(* The row has ended, or ended by an acknowledgement that was overtaken. *)
Settled == status = "terminal" \/ (final = 0 /\ reopened)

(* The buffer ends with the last event, has no hole, and lacks only what   *)
(* was trimmed, as long as no restart emptied it.                          *)
Buffered ==
  /\ Len(events) <= last
  /\ \A i \in 1..Len(events) : events[i] = last - Len(events) + i
  /\ restarts = 0 => Len(events) \in {last, MaxEvents}

(* Only a client that reads has a queue, and only of a run that began. *)
Readers == \A c \in Clients :
  /\ reader[c] # "reading" => queue[c] = <<>> /\ c \notin subscribers
  /\ last = 0 => reader[c] = "away"

(* A page has seen nothing that has not happened, and its cursor is what   *)
(* it was shown as soon as it follows the run.                             *)
Seen == \A c \in Clients :
  /\ cursor[c] <= last /\ shown[c] <= last
  /\ tracking[c] => cursor[c] = shown[c]

(* What waits has happened, and is news to a page that follows the run. A  *)
(* snapshot is ahead of everything else.                                   *)
Queued == \A c \in Clients : \A i \in 1..Len(queue[c]) :
  /\ queue[c][i].kind = "event" =>
       /\ queue[c][i] = Event(queue[c][i].sequence)
       /\ queue[c][i].sequence \in 1..last
       /\ tracking[c] => queue[c][i].sequence > shown[c]
  /\ queue[c][i].kind = "snapshot" => i = 1

(* Events wait in their order and without a hole.  There is one None, and  *)
(* only the notice of a late stop() can follow it.                         *)
Ascending(q) == \A i, j \in 1..Len(q) :
  i < j /\ q[i].kind = "event" /\ q[j].kind = "event" => q[i].sequence < q[j].sequence

OneEnd(q) == \A i, j \in 1..Len(q) : q[i].kind = "none" /\ q[j].kind = "none" => i = j

Chained(q) == \A i \in 1..Len(q) : q[i].kind = "event" =>
  /\ i + 1 <= Len(q) /\ q[i + 1].kind = "event" => q[i + 1].sequence = q[i].sequence + 1
  /\ i + 2 <= Len(q) /\ q[i + 1].kind # "event" /\ q[i + 2].kind = "event" =>
       q[i + 2].sequence = q[i].sequence + 1

Linked == \A c \in Clients : Ascending(queue[c]) /\ OneEnd(queue[c]) /\ Chained(queue[c])

(* The newest event that waits for a subscriber is the last of the run. *)
Newest == \A c \in subscribers : queue[c] # <<>> =>
  LET n == Len(queue[c])
  IN  /\ queue[c][n].kind # "snapshot"
      /\ queue[c][n].kind = "event" => queue[c][n].sequence = last
      /\ queue[c][n].kind = "none" /\ n > 1 => queue[c][n - 1] = Event(last)

(* Without a restart, what a page is shown next is what it expects: the    *)
(* event ahead of its queue, or the next one of the run.                   *)
Gapless == restarts = 0 => \A c \in Clients :
  /\ queue[c] # <<>> /\ queue[c][1].kind = "event" => expected[c] \in {0, queue[c][1].sequence}
  /\ c \in subscribers /\ queue[c] = <<>> => expected[c] \in {0, last + 1}

(* None waits only when the run is settled, and right behind what says so, *)
(* unless that was delivered.  It reaches a subscriber with the terminal   *)
(* event alone.                                                            *)
Ends == \A c \in Clients : \A i \in 1..Len(queue[c]) :
  queue[c][i].kind = "none" =>
    /\ Settled
    /\ c \in subscribers => final # 0
    /\ i = 1 => expected[c] = 0 \/ (final # 0 /\ shown[c] = final)
    /\ i > 1 => \/ queue[c][i - 1].kind = "snapshot"
               \/ (final # 0 /\ queue[c][i - 1] = Event(final))

Typed == Flags /\ Run /\ Queues /\ Pages

IInv ==
  /\ Typed /\ Outcome /\ Buffered /\ Readers /\ Seen /\ Queued /\ Linked /\ Newest
  /\ Gapless /\ Ends /\ EndIsTrue

-----------------------------------------------------------------------------
(* What the operators of the model return *)

(* What waits in a queue is an item. *)
LEMMA ItemTypes ==
  /\ \A n \in 0..MaxSequence : Event(n) \in Items
  /\ None \in Items
  /\ last \in 0..MaxSequence => Snapshot \in Items
<1>1. (status = "terminal") \in BOOLEAN
  OBVIOUS
<1>2. last \in 0..MaxSequence => Snapshot \in Items
  BY <1>1 DEF Snapshot, Items
<1> QED
  BY <1>2, CountsAssumption DEF Event, None, Items

(* A tail of a sequence. *)
LEMMA Suffix ==
  ASSUME NEW S, NEW s \in Seq(S), NEW m \in 1..Len(s) + 1
  PROVE  /\ SubSeq(s, m, Len(s)) \in Seq(S)
         /\ Len(SubSeq(s, m, Len(s))) = Len(s) - m + 1
         /\ \A i \in 1..Len(s) - m + 1 : SubSeq(s, m, Len(s))[i] = s[m + i - 1]
<1>1. Len(s) \in Nat /\ m \in Nat
  BY LenProperties
<1>2. \A i \in m..Len(s) : s[i] \in S
  BY <1>1, ElementOfSeq
<1>3. SubSeq(s, m, Len(s)) \in Seq(S)
  BY <1>1, <1>2, SubSeqProperties
<1>4. /\ Len(SubSeq(s, m, Len(s))) = IF m <= Len(s) THEN Len(s) - m + 1 ELSE 0
      /\ \A i \in 1..Len(s) - m + 1 : SubSeq(s, m, Len(s))[i] = s[m + i - 1]
  BY <1>1, <1>2, SubSeqProperties
<1> QED
  BY <1>1, <1>3, <1>4

(* LastOf keeps the last n elements. *)
LEMMA LastOfKeeps ==
  ASSUME NEW S, NEW s \in Seq(S), NEW n \in Nat
  PROVE  /\ LastOf(s, n) \in Seq(S)
         /\ Len(LastOf(s, n)) = IF Len(s) > n THEN n ELSE Len(s)
         /\ \A i \in 1..Len(LastOf(s, n)) :
              LastOf(s, n)[i] = s[Len(s) - Len(LastOf(s, n)) + i]
<1>1. CASE Len(s) > n
  <2> DEFINE m == Len(s) - n + 1
  <2>1. m \in 1..Len(s) + 1 /\ Len(s) \in Nat
    BY <1>1, LenProperties
  <2>2. LastOf(s, n) = SubSeq(s, m, Len(s))
    BY <1>1 DEF LastOf
  <2> HIDE DEF m
  <2>3. /\ SubSeq(s, m, Len(s)) \in Seq(S)
        /\ Len(SubSeq(s, m, Len(s))) = Len(s) - m + 1
        /\ \A i \in 1..Len(s) - m + 1 : SubSeq(s, m, Len(s))[i] = s[m + i - 1]
    BY <2>1, Suffix
  <2>4. Len(s) - m + 1 = n /\ (\A i \in 1..n : m + i - 1 = Len(s) - n + i)
    BY <2>1 DEF m
  <2> QED
    BY <1>1, <2>2, <2>3, <2>4
<1>2. CASE ~(Len(s) > n)
  BY <1>2, LenProperties DEF LastOf
<1> QED
  BY <1>1, <1>2

(* An event is recorded behind those that the buffer keeps. *)
LEMMA RecordKeeps ==
  ASSUME Run, Buffered, last < MaxSequence, Record(NextSequence), UNCHANGED restarts
  PROVE  /\ last' = last + 1 /\ last' \in 1..MaxSequence
         /\ events' \in Seq(1..MaxSequence) /\ Len(events') <= MaxEvents
         /\ Buffered'
<1>1. last + 1 \in 1..MaxSequence /\ MaxEvents \in Nat /\ MaxEvents > 0
  BY CountsAssumption, SizesAssumption DEF Run
<1> DEFINE s == Append(events, last + 1)
<1>2. /\ s \in Seq(1..MaxSequence) /\ Len(s) = Len(events) + 1
      /\ \A i \in 1..Len(events) : s[i] = events[i]
      /\ s[Len(events) + 1] = last + 1
  BY <1>1, AppendProperties DEF Run
<1>3. \A i \in 1..Len(s) : s[i] = last + 1 - Len(s) + i
  <2> TAKE i \in 1..Len(s)
  <2>1. Len(events) \in Nat /\ last \in Nat
    BY LenProperties DEF Run
  <2>2. CASE i = Len(events) + 1
    BY <1>2, <2>1, <2>2
  <2>3. CASE i \in 1..Len(events)
    BY <1>2, <2>1, <2>3 DEF Buffered
  <2> QED
    BY <1>2, <2>1, <2>2, <2>3
<1>4. last' = last + 1 /\ events' = LastOf(s, MaxEvents)
  BY DEF Record, NextSequence
<1> HIDE DEF s
<1>5. /\ events' \in Seq(1..MaxSequence)
      /\ Len(events') = IF Len(s) > MaxEvents THEN MaxEvents ELSE Len(s)
      /\ \A i \in 1..Len(events') : events'[i] = s[Len(s) - Len(events') + i]
  BY <1>1, <1>2, <1>4, LastOfKeeps
<1>6. Len(s) \in Nat /\ Len(events') \in Nat /\ Len(events) \in Nat /\ last \in Nat
  BY <1>2, <1>5, LenProperties DEF Run
<1>7. \A i \in 1..Len(events') : events'[i] = last' - Len(events') + i
  <2> TAKE i \in 1..Len(events')
  <2>1. Len(s) - Len(events') + i \in 1..Len(s)
    BY <1>1, <1>5, <1>6
  <2>2. events'[i] = last + 1 - Len(s) + (Len(s) - Len(events') + i)
    BY <1>3, <1>5, <2>1
  <2> QED
    BY <1>4, <1>6, <2>2
<1>8. Len(events') <= last' /\ (restarts' = 0 => Len(events') \in {last', MaxEvents})
  <2>1. Len(events) <= last /\ Len(events) <= MaxEvents
    BY DEF Buffered, Run
  <2>2. restarts' = 0 => Len(events) \in {last, MaxEvents}
    BY DEF Buffered
  <2>3. Len(events') <= last'
    BY <1>1, <1>2, <1>4, <1>5, <1>6, <2>1
  <2> QED
    BY <1>1, <1>2, <1>4, <1>5, <1>6, <2>1, <2>2, <2>3
<1>9. Buffered'
  BY <1>7, <1>8 DEF Buffered
<1>10. Len(events') <= MaxEvents
  BY <1>1, <1>5, <1>6
<1> QED
  BY <1>1, <1>4, <1>5, <1>9, <1>10

(* The position a cursor leaves the buffer at. *)
LEMMA PendingIs ==
  ASSUME Run, Pages, Buffered, Seen, NEW c \in Clients
  PROVE  LET pending == Pending(c)
         IN  /\ pending \in Seq(1..MaxSequence)
             /\ Len(pending) = IF Len(events) <= last - cursor[c]
                               THEN Len(events) ELSE last - cursor[c]
             /\ \A i \in 1..Len(pending) : pending[i] = last - Len(pending) + i
<1> DEFINE Is(k) == /\ \A i \in k..Len(events) : events[i] > cursor[c]
                    /\ k > 1 => events[k - 1] <= cursor[c]
           first == CHOOSE k \in 1..Len(events) + 1 : Is(k)
           n     == IF Len(events) <= last - cursor[c] THEN 1
                    ELSE Len(events) - (last - cursor[c]) + 1
<1>1. /\ Len(events) \in Nat /\ last \in Nat /\ cursor[c] \in Nat
      /\ cursor[c] <= last /\ Len(events) <= last
  BY LenProperties DEF Run, Pages, Seen, Buffered
<1>2. n \in 1..Len(events) + 1
  BY <1>1
<1>3. \A i \in 1..Len(events) : events[i] = last - Len(events) + i
  BY DEF Buffered
<1>4. Is(n)
  <2>1. ASSUME NEW i \in n..Len(events)
        PROVE  events[i] > cursor[c]
    <3>1. i \in 1..Len(events)
      BY <1>1, <1>2
    <3>2. events[i] = last - Len(events) + i
      BY <1>3, <3>1
    <3> QED
      BY <1>1, <3>1, <3>2
  <2>2. ASSUME n > 1
        PROVE  events[n - 1] <= cursor[c]
    <3>1. n - 1 \in 1..Len(events)
      BY <1>1, <1>2, <2>2
    <3>2. events[n - 1] = last - Len(events) + (n - 1)
      BY <1>3, <3>1
    <3> QED
      BY <1>1, <2>2, <3>1, <3>2
  <2> QED
    BY <2>1, <2>2
<1>5. ASSUME NEW k \in 1..Len(events) + 1, Is(k)
      PROVE  k = n
  <2>1. CASE k < n
    <3>1. n - 1 \in 1..Len(events) /\ n - 1 \in k..Len(events) /\ n > 1
      BY <1>1, <1>2, <2>1
    <3>2. events[n - 1] > cursor[c] /\ events[n - 1] <= cursor[c]
      BY <1>4, <1>5, <3>1
    <3> QED
      BY <1>1, <1>3, <3>1, <3>2
  <2>2. CASE n < k
    <3>1. k - 1 \in 1..Len(events) /\ k - 1 \in n..Len(events) /\ k > 1
      BY <1>1, <1>2, <2>2
    <3>2. events[k - 1] > cursor[c] /\ events[k - 1] <= cursor[c]
      BY <1>4, <1>5, <3>1
    <3> QED
      BY <1>1, <1>3, <3>1, <3>2
  <2> QED
    BY <1>1, <1>2, <2>1, <2>2
<1> HIDE DEF n
<1>6. first = n
  BY <1>2, <1>4, <1>5
<1>7. Pending(c) = SubSeq(events, n, Len(events))
  BY <1>6 DEF Pending
<1>8. events \in Seq(1..MaxSequence)
  BY DEF Run
<1>9. /\ Pending(c) \in Seq(1..MaxSequence)
      /\ Len(Pending(c)) = Len(events) - n + 1
      /\ \A i \in 1..Len(events) - n + 1 : Pending(c)[i] = events[n + i - 1]
  BY <1>2, <1>7, <1>8, Suffix
<1>10. ASSUME NEW i \in 1..Len(Pending(c))
       PROVE  Pending(c)[i] = last - Len(Pending(c)) + i
  <2>1. n + i - 1 \in 1..Len(events) /\ Pending(c)[i] = events[n + i - 1]
    BY <1>1, <1>2, <1>9
  <2> QED
    BY <1>1, <1>2, <1>9, <2>1 DEF Buffered
<1>11. Len(Pending(c)) = IF Len(events) <= last - cursor[c]
                         THEN Len(events) ELSE last - cursor[c]
  BY <1>1, <1>9 DEF n
<1> QED
  BY <1>9, <1>10, <1>11

(* Events are put one by one into a queue. *)
LEMMA NumberedIs ==
  ASSUME NEW s \in Seq(1..MaxSequence)
  PROVE  /\ Numbered(s) \in Seq(Items)
         /\ Len(Numbered(s)) = Len(s)
         /\ \A i \in 1..Len(s) : Numbered(s)[i] = Event(s[i])
<1>1. Len(s) \in Nat /\ \A i \in 1..Len(s) : s[i] \in 0..MaxSequence
  BY LenProperties, ElementOfSeq, CountsAssumption
<1>2. \A i \in 1..Len(s) : Event(s[i]) \in Items
  BY <1>1, ItemTypes
<1> QED
  BY <1>1, <1>2 DEF Numbered

(* What a new subscriber finds in its queue: a snapshot after a gap, and   *)
(* the events up to the last one, from its cursor on if there is no gap.   *)
LEMMA ReplayIs ==
  ASSUME Run, Pages, Buffered, Seen, NEW c \in Clients
  PROVE  LET q == Replay(c)
         IN  /\ q \in Seq(Items) /\ Len(q) <= QueueSize
             /\ \A i \in 1..Len(q) :
                  IF IsGap(c) /\ i = 1 THEN q[i] = Snapshot
                  ELSE /\ q[i] = Event(last - Len(q) + i)
                       /\ last - Len(q) + i \in 1..last
                       /\ last - Len(q) + i > cursor[c]
             /\ IsGap(c) => Len(q) > 1
             /\ ~IsGap(c) /\ restarts = 0 => Len(q) = last - cursor[c]
<1> DEFINE p == Pending(c)
           r == LastOf(p, Backlog)
<1>1. /\ Len(events) \in Nat /\ last \in Nat /\ last <= MaxSequence /\ cursor[c] \in Nat
      /\ cursor[c] <= last /\ Len(events) <= last
      /\ Backlog \in Nat /\ Backlog > 0 /\ QueueSize = Backlog + 2 /\ MaxEvents > Backlog
      /\ MaxEvents \in Nat
  BY LenProperties, SizesAssumption, CountsAssumption DEF Run, Pages, Seen, Buffered, Backlog
<1>2. /\ p \in Seq(1..MaxSequence)
      /\ Len(p) = IF Len(events) <= last - cursor[c] THEN Len(events) ELSE last - cursor[c]
      /\ \A i \in 1..Len(p) : p[i] = last - Len(p) + i
  BY PendingIs
<1>3. /\ r \in Seq(1..MaxSequence)
      /\ Len(r) = IF Len(p) > Backlog THEN Backlog ELSE Len(p)
      /\ \A i \in 1..Len(r) : r[i] = p[Len(p) - Len(r) + i]
  BY <1>1, <1>2, LastOfKeeps
<1>4. Len(p) \in Nat /\ Len(r) \in Nat
  BY <1>2, <1>3, LenProperties
<1>5. \A i \in 1..Len(r) : r[i] = last - Len(r) + i
  <2> TAKE i \in 1..Len(r)
  <2>1. Len(p) - Len(r) + i \in 1..Len(p)
    BY <1>1, <1>3, <1>4
  <2>2. r[i] = last - Len(p) + (Len(p) - Len(r) + i)
    BY <1>2, <1>3, <2>1
  <2> QED
    BY <1>1, <1>4, <2>2
<1>6. IsGap(c) <=> \/ cursor[c] # 0 /\ events # <<>> /\ cursor[c] + 1 < Head(events)
                   \/ Len(p) > Backlog
  BY DEF IsGap
<1>7. events # <<>> => Len(events) > 0 /\ Head(events) = last - Len(events) + 1
  <2>1. events \in Seq(1..MaxSequence)
    BY DEF Run
  <2>2. events # <<>> => Len(events) > 0 /\ Head(events) = events[1]
    BY <2>1, <1>1, EmptySeq
  <2> QED
    BY <1>1, <2>2 DEF Buffered
<1>8. events = <<>> <=> Len(events) = 0
  BY EmptySeq DEF Run
<1>9. restarts = 0 => Len(events) \in {last, MaxEvents}
  BY DEF Buffered
<1> HIDE DEF p, r
<1>10. CASE IsGap(c)
  <2>1. Replay(c) = <<Snapshot>> \o Numbered(r)
    BY <1>10 DEF Replay, p, r
  <2>2. /\ Numbered(r) \in Seq(Items) /\ Len(Numbered(r)) = Len(r)
        /\ \A i \in 1..Len(r) : Numbered(r)[i] = Event(r[i])
    BY <1>3, NumberedIs
  <2>3. /\ <<Snapshot>> \in Seq(Items) /\ Len(<<Snapshot>>) = 1 /\ <<Snapshot>>[1] = Snapshot
    BY ItemTypes DEF Run
  <2>4. /\ Replay(c) \in Seq(Items)
        /\ Len(Replay(c)) = 1 + Len(r)
        /\ \A i \in 1..1 + Len(r) : Replay(c)[i] = IF i <= 1 THEN <<Snapshot>>[i]
                                                  ELSE Numbered(r)[i - 1]
    BY <2>1, <2>2, <2>3, ConcatProperties
  <2>5. Len(r) > 0 /\ Len(r) <= Backlog /\ Len(r) <= Len(p)
    BY <1>1, <1>2, <1>3, <1>4, <1>6, <1>7, <1>10
  <2>6. ASSUME NEW i \in 1..Len(Replay(c)), i # 1
        PROVE  /\ Replay(c)[i] = Event(last - Len(Replay(c)) + i)
               /\ last - Len(Replay(c)) + i \in 1..last
               /\ last - Len(Replay(c)) + i > cursor[c]
    <3>1. i - 1 \in 1..Len(r) /\ i \in 2..1 + Len(r)
      BY <1>4, <2>4, <2>6
    <3>2. Replay(c)[i] = Event(r[i - 1])
      BY <1>4, <2>2, <2>4, <3>1
    <3>3. r[i - 1] = last - Len(r) + (i - 1)
      BY <1>5, <3>1
    <3>4. last - Len(r) + (i - 1) = last - Len(Replay(c)) + i
      BY <1>1, <1>4, <2>4, <3>1
    <3>5. Len(r) <= last - cursor[c]
      BY <1>1, <1>2, <1>4, <2>5
    <3> QED
      BY <1>1, <1>4, <2>4, <3>1, <3>2, <3>3, <3>4, <3>5
  <2>7. Len(Replay(c)) > 1 /\ Len(Replay(c)) <= QueueSize
    BY <1>1, <1>4, <2>4, <2>5
  <2>8. Replay(c)[1] = Snapshot
    BY <1>4, <2>3, <2>4
  <2> QED
    BY <1>10, <2>4, <2>6, <2>7, <2>8
<1>11. CASE ~IsGap(c)
  <2>1. Replay(c) = Numbered(p)
    BY <1>11 DEF Replay, p
  <2>2. /\ Replay(c) \in Seq(Items) /\ Len(Replay(c)) = Len(p)
        /\ \A i \in 1..Len(p) : Replay(c)[i] = Event(p[i])
    BY <1>2, <2>1, NumberedIs
  <2>3. Len(p) <= Backlog
    BY <1>1, <1>4, <1>6, <1>11
  <2>4. Len(Replay(c)) <= QueueSize
    BY <1>1, <1>4, <2>2, <2>3
  <2>5. ASSUME NEW i \in 1..Len(Replay(c))
        PROVE  /\ Replay(c)[i] = Event(last - Len(Replay(c)) + i)
               /\ last - Len(Replay(c)) + i \in 1..last
               /\ last - Len(Replay(c)) + i > cursor[c]
    <3>1. Replay(c)[i] = Event(last - Len(p) + i)
      BY <1>2, <2>2
    <3>2. Len(p) <= last - cursor[c]
      BY <1>1, <1>2
    <3> QED
      BY <1>1, <1>4, <2>2, <3>1, <3>2
  <2>6. ASSUME restarts = 0
        PROVE  Len(p) = last - cursor[c]
    BY <1>1, <1>2, <1>4, <1>6, <1>7, <1>8, <1>9, <1>11, <2>3, <2>6
  <2> QED
    BY <1>11, <2>2, <2>4, <2>5, <2>6
<1> QED
  BY <1>10, <1>11

(* A queue before and after an item was put into it, or taken out of it. *)
Same(c) == queue'[c] = queue[c]

Put(c, item) ==
  /\ Len(queue'[c]) = Len(queue[c]) + 1
  /\ \A i \in 1..Len(queue[c]) : queue'[c][i] = queue[c][i]
  /\ queue'[c][Len(queue[c]) + 1] = item

PutEnd(c, item) ==
  /\ Len(queue'[c]) = Len(queue[c]) + 2
  /\ \A i \in 1..Len(queue[c]) : queue'[c][i] = queue[c][i]
  /\ queue'[c][Len(queue[c]) + 1] = item
  /\ queue'[c][Len(queue[c]) + 2] = None

Taken(c) ==
  /\ Len(queue[c]) > 0
  /\ Len(queue'[c]) = Len(queue[c]) - 1
  /\ \A i \in 1..Len(queue'[c]) : queue'[c][i] = queue[c][i + 1]

(* An event reaches the queues of those that remain subscribers. *)
LEMMA PublishPuts ==
  ASSUME Queues, NEW item \in Items, Publish(item), UNCHANGED reader
  PROVE  /\ Queues' /\ subscribers' \subseteq subscribers
         /\ \A c \in Clients : \/ c \in subscribers /\ Put(c, item)
                               \/ c \notin subscribers' /\ Same(c)
<1>1. QueueSize \in Nat
  BY SizesAssumption
<1>2. \A c \in Clients : queue[c] \in Seq(Items) /\ Len(queue[c]) \in Nat
  BY LenProperties DEF Queues
<1>3. ASSUME NEW c \in Clients
      PROVE  /\ queue'[c] \in Seq(Items) /\ Len(queue'[c]) <= QueueSize
             /\ \/ c \in subscribers /\ Put(c, item)
                \/ c \notin subscribers' /\ Same(c)
  <2>1. CASE c \in subscribers /\ HasRoom(c, 1)
    <3>1. queue'[c] = Append(queue[c], item)
      BY <2>1 DEF Publish
    <3>2. Put(c, item) /\ queue'[c] \in Seq(Items)
      BY <1>2, <3>1, AppendProperties DEF Put
    <3> QED
      BY <1>1, <1>2, <2>1, <3>2 DEF HasRoom, Put
  <2>2. CASE ~(c \in subscribers /\ HasRoom(c, 1))
    BY <1>2, <2>2 DEF Publish, Same, Queues
  <2> QED
    BY <2>1, <2>2
<1>4. subscribers' \subseteq subscribers
  BY DEF Publish
<1>5. queue' \in [Clients -> Seq(Items)]
  BY <1>3 DEF Publish
<1> QED
  BY <1>3, <1>4, <1>5 DEF Queues

(* The terminal event reaches them too, and None those with room for it. *)
LEMMA PublishEndPuts ==
  ASSUME Queues, NEW item \in Items, PublishEnd(item), UNCHANGED reader
  PROVE  /\ Queues' /\ subscribers' \subseteq subscribers
         /\ \A c \in Clients : \/ c \in subscribers /\ (Put(c, item) \/ PutEnd(c, item))
                               \/ c \notin subscribers' /\ Same(c)
<1>1. QueueSize \in Nat
  BY SizesAssumption
<1>2. \A c \in Clients : queue[c] \in Seq(Items) /\ Len(queue[c]) \in Nat
  BY LenProperties DEF Queues
<1>3. <<item, None>> \in Seq(Items) /\ Len(<<item, None>>) = 2
      /\ <<item, None>>[1] = item /\ <<item, None>>[2] = None
  BY ItemTypes
<1>4. ASSUME NEW c \in Clients
      PROVE  /\ queue'[c] \in Seq(Items) /\ Len(queue'[c]) <= QueueSize
             /\ \/ c \in subscribers /\ (Put(c, item) \/ PutEnd(c, item))
                \/ c \notin subscribers' /\ Same(c)
  <2>1. CASE c \in subscribers /\ HasRoom(c, 2)
    <3>1. queue'[c] = queue[c] \o <<item, None>>
      BY <2>1 DEF PublishEnd
    <3>2. /\ queue'[c] \in Seq(Items) /\ Len(queue'[c]) = Len(queue[c]) + 2
          /\ \A i \in 1..Len(queue[c]) + 2 :
               queue'[c][i] = IF i <= Len(queue[c]) THEN queue[c][i]
                              ELSE <<item, None>>[i - Len(queue[c])]
      BY <1>2, <1>3, <3>1, ConcatProperties
    <3>3. PutEnd(c, item)
      <4>1. Len(queue[c]) \in Nat
        BY <1>2
      <4>2. \A i \in 1..Len(queue[c]) : queue'[c][i] = queue[c][i]
        BY <3>2, <4>1
      <4>3. queue'[c][Len(queue[c]) + 1] = <<item, None>>[1]
        BY <3>2, <4>1
      <4>4. queue'[c][Len(queue[c]) + 2] = <<item, None>>[2]
        BY <3>2, <4>1
      <4> QED
        BY <1>3, <3>2, <4>2, <4>3, <4>4 DEF PutEnd
    <3> QED
      BY <1>1, <1>2, <2>1, <3>2, <3>3 DEF HasRoom
  <2>2. CASE c \in subscribers /\ HasRoom(c, 1) /\ ~HasRoom(c, 2)
    <3>1. queue'[c] = Append(queue[c], item)
      BY <2>2 DEF PublishEnd
    <3>2. Put(c, item) /\ queue'[c] \in Seq(Items)
      BY <1>2, <3>1, AppendProperties DEF Put
    <3> QED
      BY <1>1, <1>2, <2>2, <3>2 DEF HasRoom, Put
  <2>3. CASE ~(c \in subscribers /\ HasRoom(c, 1))
    <3>1. ~(c \in subscribers /\ HasRoom(c, 2))
      BY <1>1, <1>2, <2>3 DEF HasRoom
    <3> QED
      BY <1>2, <2>3, <3>1 DEF PublishEnd, Same, Queues
  <2> QED
    BY <2>1, <2>2, <2>3
<1>5. subscribers' \subseteq subscribers
  BY DEF PublishEnd
<1>6. queue' \in [Clients -> Seq(Items)]
  BY <1>4 DEF PublishEnd
<1> QED
  BY <1>4, <1>5, <1>6 DEF Queues

(* The head of a queue is delivered. *)
LEMMA TailTakes ==
  ASSUME Queues, NEW c \in Clients, queue[c] # <<>>,
         queue' = [queue EXCEPT ![c] = Tail(@)], UNCHANGED <<subscribers, reader>>
  PROVE  /\ Queues' /\ Taken(c) /\ Head(queue[c]) = queue[c][1]
         /\ \A d \in Clients \ {c} : Same(d)
<1>1. /\ queue[c] \in Seq(Items) /\ Len(queue[c]) \in Nat /\ Len(queue[c]) <= QueueSize
      /\ QueueSize \in Nat
  BY LenProperties, SizesAssumption DEF Queues
<1>2. Len(queue[c]) > 0 /\ Head(queue[c]) = queue[c][1]
  BY <1>1, EmptySeq
<1>3. /\ Tail(queue[c]) \in Seq(Items)
      /\ Len(Tail(queue[c])) = Len(queue[c]) - 1
      /\ \A i \in 1..Len(Tail(queue[c])) : Tail(queue[c])[i] = queue[c][i + 1]
  BY <1>1, HeadTailProperties
<1>4. queue'[c] = Tail(queue[c]) /\ \A d \in Clients \ {c} : queue'[d] = queue[d]
  BY DEF Queues
<1>5. queue' \in [Clients -> Seq(Items)]
  BY <1>3 DEF Queues
<1>6. \A d \in Clients : Len(queue'[d]) <= QueueSize
  <2>1. Len(queue'[c]) <= QueueSize
    BY <1>1, <1>3, <1>4
  <2> QED
    BY <1>4, <2>1 DEF Queues
<1> QED
  BY <1>2, <1>3, <1>4, <1>5, <1>6 DEF Queues, Taken, Same

-----------------------------------------------------------------------------
(* An event is emitted *)

LEMMA Kinds ==
  ASSUME Queues, NEW c \in Clients
  PROVE  /\ Len(queue[c]) \in Nat
         /\ \A i \in 1..Len(queue[c]) : /\ queue[c][i].kind \in {"event", "snapshot", "none"}
                                        /\ queue[c][i].sequence \in 0..MaxSequence
<1>1. queue[c] \in Seq(Items)
  BY DEF Queues
<1>2. Len(queue[c]) \in Nat /\ \A i \in 1..Len(queue[c]) : queue[c][i] \in Items
  BY <1>1, LenProperties, ElementOfSeq
<1> QED
  BY <1>2 DEF Items

(* What an event leaves true of every queue it may have been put into. *)
LEMMA Emission ==
  ASSUME IInv, last' = last + 1, Queues', subscribers' \subseteq subscribers,
         \A c \in Clients :
           \/ c \in subscribers /\ Put(c, Event(last + 1))
           \/ /\ c \in subscribers /\ PutEnd(c, Event(last + 1))
              /\ final = 0 /\ final' = last + 1
           \/ c \notin subscribers' /\ Same(c),
         UNCHANGED final \/ (final = 0 /\ final' = last + 1),
         Settled => Settled', final' # final => Settled',
         UNCHANGED <<reader, pageVars, restarts>>
  PROVE  /\ Readers' /\ Seen' /\ Queued' /\ Linked' /\ Newest' /\ Gapless'
         /\ Ends' /\ EndIsTrue'
<1> USE DEF pageVars
<1>1. last \in Nat /\ last + 1 # 0
  BY CountsAssumption DEF IInv, Typed, Run
<1>2. \A c \in Clients :
        /\ Len(queue[c]) \in Nat
        /\ \A i \in 1..Len(queue[c]) : /\ queue[c][i].kind \in {"event", "snapshot", "none"}
                                       /\ queue[c][i].sequence \in Nat
  BY Kinds, CountsAssumption DEF IInv, Typed
<1>3. \A c \in Clients : cursor[c] \in Nat /\ shown[c] \in Nat /\ expected[c] \in Nat
  BY CountsAssumption DEF IInv, Typed, Pages
<1>4. /\ Event(last + 1).kind = "event" /\ Event(last + 1).sequence = last + 1
      /\ None.kind = "none"
  BY DEF Event, None
<1>5. Readers'
  BY <1>1, <1>2 DEF IInv, Readers, Same, Put, PutEnd
<1>6. Seen'
  BY <1>1, <1>3 DEF IInv, Seen
<1>7. Queued'
  <2> SUFFICES ASSUME NEW c \in Clients, NEW i \in 1..Len(queue'[c])
               PROVE  /\ queue'[c][i].kind = "event" =>
                           /\ queue'[c][i] = Event(queue'[c][i].sequence)
                           /\ queue'[c][i].sequence \in 1..last'
                           /\ tracking'[c] => queue'[c][i].sequence > shown'[c]
                      /\ queue'[c][i].kind = "snapshot" => i = 1
    BY DEF Queued
  <2>1. CASE i \in 1..Len(queue[c]) /\ queue'[c][i] = queue[c][i]
    BY <1>1, <1>3, <2>1 DEF IInv, Queued
  <2>2. CASE queue'[c][i] = Event(last + 1)
    <3>1. shown[c] <= last
      BY DEF IInv, Seen
    <3> QED
      BY <1>1, <1>3, <1>4, <2>2, <3>1
  <2>3. CASE queue'[c][i] = None
    BY <1>4, <2>3
  <2> QED
    BY <1>2, <2>1, <2>2, <2>3 DEF Same, Put, PutEnd
<1>8. Linked'
  <2> SUFFICES ASSUME NEW c \in Clients
               PROVE  /\ Ascending(queue'[c]) /\ OneEnd(queue'[c]) /\ Chained(queue'[c])
    BY DEF Linked
  <2> DEFINE q == queue[c]
             r == queue'[c]
             n == Len(q)
  <2>1. Ascending(q) /\ OneEnd(q) /\ Chained(q)
    BY DEF IInv, Linked
  <2>2. \A i \in 1..n : q[i].kind = "event" => q[i].sequence < last + 1
    BY <1>1, <1>2 DEF IInv, Queued
  <2>3. ASSUME c \in subscribers, n > 0
        PROVE  /\ q[n].kind \in {"event", "none"}
               /\ q[n].kind = "event" => q[n].sequence = last
               /\ q[n].kind = "none" /\ n > 1 => q[n - 1].sequence = last
    <3>1. queue[c] # <<>> /\ n \in 1..n
      BY <1>2, <2>3, EmptySeq
    <3> QED
      BY <1>2, <2>3, <3>1 DEF IInv, Newest, Event
  <2>4. n \in Nat /\ \A i \in 1..n : q[i].sequence \in Nat
    BY <1>2
  <2>5. CASE Same(c)
    BY <2>1, <2>5 DEF Same
  <2>6. CASE c \in subscribers /\ Put(c, Event(last + 1))
    <3>1. /\ Len(r) = n + 1
          /\ \A i \in 1..n : r[i] = q[i]
          /\ r[n + 1].kind = "event" /\ r[n + 1].sequence = last + 1
      BY <1>4, <2>6 DEF Put
    <3> HIDE DEF q, r, n
    <3>2. Ascending(r)
      <4> SUFFICES ASSUME NEW i \in 1..Len(r), NEW j \in 1..Len(r), i < j,
                          r[i].kind = "event", r[j].kind = "event"
                   PROVE  r[i].sequence < r[j].sequence
        BY DEF Ascending
      <4>1. i \in 1..n /\ r[i] = q[i] /\ q[i].sequence < last + 1
        BY <2>1, <2>2, <2>4, <3>1
      <4>2. CASE j \in 1..n
        <5>1. r[j] = q[j]
          BY <3>1, <4>2
        <5> QED
          BY <2>1, <4>1, <4>2, <5>1 DEF Ascending, n
      <4>3. CASE j = n + 1
        BY <1>1, <3>1, <4>1, <4>3
      <4> QED
        BY <2>4, <3>1, <4>2, <4>3
    <3>3. OneEnd(r)
      BY <2>1, <2>4, <3>1 DEF OneEnd, n
    <3>4. Chained(r)
      <4> SUFFICES ASSUME NEW i \in 1..Len(r), r[i].kind = "event"
                   PROVE  /\ i + 1 <= Len(r) /\ r[i + 1].kind = "event" =>
                               r[i + 1].sequence = r[i].sequence + 1
                          /\ i + 2 <= Len(r) /\ r[i + 1].kind # "event" /\ r[i + 2].kind = "event" =>
                               r[i + 2].sequence = r[i].sequence + 1
        BY DEF Chained
      <4>1. ASSUME i + 1 <= n
            PROVE  /\ r[i] = q[i] /\ r[i + 1] = q[i + 1] /\ i \in 1..n
                   /\ q[i + 1].kind = "event" => q[i + 1].sequence = q[i].sequence + 1
        BY <2>1, <2>4, <3>1, <4>1 DEF Chained, n
      <4>2. ASSUME i + 2 <= n
            PROVE  /\ r[i + 2] = q[i + 2]
                   /\ q[i + 1].kind # "event" /\ q[i + 2].kind = "event" =>
                        q[i + 2].sequence = q[i].sequence + 1
        BY <2>1, <2>4, <3>1, <4>1, <4>2 DEF Chained, n
      <4>3. ASSUME i = n
            PROVE  r[i].sequence = last
        BY <2>3, <2>4, <3>1, <4>3, <2>6
      <4>4. ASSUME i = n - 1, r[i + 1].kind # "event"
            PROVE  r[i].sequence = last
        BY <2>3, <2>4, <3>1, <4>1, <4>4, <2>6
      <4> QED
        BY <1>1, <2>4, <3>1, <4>1, <4>2, <4>3, <4>4
    <3> QED
      BY <3>2, <3>3, <3>4 DEF r
  <2>7. CASE /\ c \in subscribers /\ PutEnd(c, Event(last + 1))
             /\ final = 0 /\ final' = last + 1
    <3>1. /\ Len(r) = n + 2
          /\ \A i \in 1..n : r[i] = q[i]
          /\ r[n + 1].kind = "event" /\ r[n + 1].sequence = last + 1
          /\ r[n + 2].kind = "none"
      BY <1>4, <2>7 DEF PutEnd
    <3>2. \A i \in 1..n : q[i].kind # "none"
      BY <2>7 DEF IInv, Ends
    <3> HIDE DEF q, r, n
    <3>3. Ascending(r)
      <4> SUFFICES ASSUME NEW i \in 1..Len(r), NEW j \in 1..Len(r), i < j,
                          r[i].kind = "event", r[j].kind = "event"
                   PROVE  r[i].sequence < r[j].sequence
        BY DEF Ascending
      <4>1. i \in 1..n /\ r[i] = q[i] /\ q[i].sequence < last + 1
        BY <2>1, <2>2, <2>4, <3>1
      <4>2. CASE j \in 1..n
        <5>1. r[j] = q[j]
          BY <3>1, <4>2
        <5> QED
          BY <2>1, <4>1, <4>2, <5>1 DEF Ascending, n
      <4>3. CASE j = n + 1
        BY <1>1, <3>1, <4>1, <4>3
      <4> QED
        BY <2>4, <3>1, <4>2, <4>3
    <3>4. OneEnd(r)
      BY <2>1, <2>4, <3>1, <3>2 DEF OneEnd, n
    <3>5. Chained(r)
      <4> SUFFICES ASSUME NEW i \in 1..Len(r), r[i].kind = "event"
                   PROVE  /\ i + 1 <= Len(r) /\ r[i + 1].kind = "event" =>
                               r[i + 1].sequence = r[i].sequence + 1
                          /\ i + 2 <= Len(r) /\ r[i + 1].kind # "event" /\ r[i + 2].kind = "event" =>
                               r[i + 2].sequence = r[i].sequence + 1
        BY DEF Chained
      <4>1. ASSUME i + 1 <= n
            PROVE  /\ r[i] = q[i] /\ r[i + 1] = q[i + 1] /\ i \in 1..n
                   /\ q[i + 1].kind = "event" => q[i + 1].sequence = q[i].sequence + 1
        BY <2>1, <2>4, <3>1, <4>1 DEF Chained, n
      <4>2. ASSUME i + 2 <= n
            PROVE  /\ r[i + 2] = q[i + 2]
                   /\ q[i + 1].kind # "event" /\ q[i + 2].kind = "event" =>
                        q[i + 2].sequence = q[i].sequence + 1
        BY <2>1, <2>4, <3>1, <4>1, <4>2 DEF Chained, n
      <4>3. ASSUME i = n
            PROVE  r[i].sequence = last
        BY <2>3, <2>4, <3>1, <4>3, <2>7
      <4>4. ASSUME i = n - 1, r[i + 1].kind # "event"
            PROVE  r[i].sequence = last
        BY <2>3, <2>4, <3>1, <4>1, <4>4, <2>7
      <4> QED
        BY <1>1, <2>4, <3>1, <4>1, <4>2, <4>3, <4>4
    <3> QED
      BY <3>3, <3>4, <3>5 DEF r
  <2> QED
    BY <2>5, <2>6, <2>7
<1>9. Newest'
  <2> SUFFICES ASSUME NEW c \in subscribers', queue'[c] # <<>>
               PROVE  LET n == Len(queue'[c])
                      IN  /\ queue'[c][n].kind # "snapshot"
                          /\ queue'[c][n].kind = "event" => queue'[c][n].sequence = last'
                          /\ queue'[c][n].kind = "none" /\ n > 1 => queue'[c][n - 1] = Event(last')
    BY DEF Newest
  <2>1. c \in Clients /\ Len(queue[c]) \in Nat
    BY <1>2 DEF IInv, Typed, Queues
  <2>2. CASE Put(c, Event(last + 1))
    BY <1>4, <2>1, <2>2 DEF Put
  <2>3. CASE PutEnd(c, Event(last + 1))
    <3>1. Len(queue'[c]) - 1 = Len(queue[c]) + 1
      BY <2>1, <2>3 DEF PutEnd
    <3> QED
      BY <1>4, <2>1, <2>3, <3>1 DEF PutEnd
  <2> QED
    BY <2>1, <2>2, <2>3
<1>10. Gapless'
  <2> SUFFICES ASSUME restarts = 0, NEW c \in Clients
               PROVE  /\ queue'[c] # <<>> /\ queue'[c][1].kind = "event" =>
                           expected[c] \in {0, queue'[c][1].sequence}
                      /\ c \in subscribers' /\ queue'[c] = <<>> => expected[c] \in {0, last' + 1}
    BY DEF Gapless
  <2>1. /\ queue[c] # <<>> /\ queue[c][1].kind = "event" => expected[c] \in {0, queue[c][1].sequence}
        /\ c \in subscribers /\ queue[c] = <<>> => expected[c] \in {0, last + 1}
    BY DEF IInv, Gapless
  <2>2. /\ queue[c] = <<>> <=> Len(queue[c]) = 0
        /\ queue'[c] = <<>> <=> Len(queue'[c]) = 0
    BY EmptySeq DEF IInv, Typed, Queues
  <2>3. CASE Same(c) /\ c \notin subscribers'
    BY <2>1, <2>3 DEF Same
  <2>4. CASE c \in subscribers /\ (Put(c, Event(last + 1)) \/ PutEnd(c, Event(last + 1)))
    <3>1. queue'[c] # <<>>
      BY <1>2, <2>2, <2>4 DEF Put, PutEnd
    <3>2. CASE queue[c] = <<>>
      BY <1>4, <2>1, <2>2, <2>4, <3>1, <3>2 DEF Put, PutEnd
    <3>3. CASE queue[c] # <<>>
      <4>1. 1 \in 1..Len(queue[c])
        BY <1>2, <2>2, <3>3
      <4> QED
        BY <2>1, <2>4, <3>1, <3>3, <4>1 DEF Put, PutEnd
    <3> QED
      BY <3>2, <3>3
  <2> QED
    BY <2>3, <2>4
<1>11. Ends'
  <2> SUFFICES ASSUME NEW c \in Clients, NEW i \in 1..Len(queue'[c]), queue'[c][i].kind = "none"
               PROVE  /\ Settled'
                      /\ c \in subscribers' => final' # 0
                      /\ i = 1 => expected'[c] = 0 \/ (final' # 0 /\ shown'[c] = final')
                      /\ i > 1 => \/ queue'[c][i - 1].kind = "snapshot"
                                 \/ (final' # 0 /\ queue'[c][i - 1] = Event(final'))
    BY DEF Ends
  <2>1. CASE i \in 1..Len(queue[c]) /\ \A k \in 1..i : queue'[c][k] = queue[c][k]
    <3>1. /\ Settled
          /\ c \in subscribers => final # 0
          /\ i = 1 => expected[c] = 0 \/ (final # 0 /\ shown[c] = final)
          /\ i > 1 => \/ queue[c][i - 1].kind = "snapshot"
                     \/ (final # 0 /\ queue[c][i - 1] = Event(final))
      BY <1>2, <2>1 DEF IInv, Ends
    <3>2. i > 1 => queue'[c][i - 1] = queue[c][i - 1]
      BY <1>2, <2>1
    <3>3. final # 0 => final' = final
      OBVIOUS
    <3>4. CASE final # 0
      <4>1. final' = final /\ Event(final') = Event(final)
        BY <3>3, <3>4
      <4> QED
        BY <3>1, <3>2, <3>4, <4>1
    <3>5. CASE final = 0
      <4>1. /\ Settled' /\ c \notin subscribers'
            /\ i = 1 => expected'[c] = 0
            /\ i > 1 => queue'[c][i - 1].kind = "snapshot"
        BY <3>1, <3>2, <3>5
      <4> QED
        BY <4>1
    <3> QED
      BY <3>4, <3>5
  <2>2. CASE PutEnd(c, Event(last + 1)) /\ i = Len(queue[c]) + 2 /\ final = 0 /\ final' = last + 1
    <3>1. i > 1 /\ i - 1 = Len(queue[c]) + 1 /\ final' # 0 /\ final' # final
      BY <1>1, <1>2, <2>2
    <3> QED
      BY <2>2, <3>1 DEF PutEnd
  <2> QED
    <3>1. CASE Put(c, Event(last + 1))
      BY <1>2, <1>4, <2>1, <3>1 DEF Put
    <3>2. CASE Same(c)
      BY <1>2, <2>1, <3>2 DEF Same
    <3>3. CASE PutEnd(c, Event(last + 1)) /\ final = 0 /\ final' = last + 1
      BY <1>2, <1>4, <2>1, <2>2, <3>3 DEF PutEnd
    <3> QED
      BY <3>1, <3>2, <3>3
<1>12. EndIsTrue'
  <2>1. \A c \in Clients : reader[c] = "ended" =>
          Settled /\ (expected[c] = 0 \/ (final # 0 /\ shown[c] = final))
    BY DEF IInv, EndIsTrue, Settled
  <2>2. final # 0 => final' = final
    OBVIOUS
  <2> QED
    BY <2>1, <2>2 DEF EndIsTrue, Settled
<1> QED
  BY <1>5, <1>6, <1>7, <1>8, <1>9, <1>10, <1>11, <1>12

-----------------------------------------------------------------------------
(* Each action preserves the invariant *)

LEMMA Emission_Step ==
  ASSUME IInv, NEW s \in Statuses, EmitAs(s), Flags', working' => working,
         working' => StatusAfter(s) = "open",
         reopened => reopened', status = "terminal" /\ StatusAfter(s) # status => reopened'
  PROVE  IInv'
<1> USE DEF boundVars
<1>0. /\ last < MaxSequence /\ Record(NextSequence) /\ Publish(Event(NextSequence))
      /\ Writes(StatusAfter(s))
      /\ UNCHANGED <<final, run, up, reader, pageVars, boundVars>>
  BY DEF EmitAs
<1>1. /\ last' = last + 1 /\ last' \in 1..MaxSequence
      /\ events' \in Seq(1..MaxSequence) /\ Len(events') <= MaxEvents
      /\ Buffered'
  BY <1>0, RecordKeeps DEF IInv, Typed
<1>2. NextSequence = last + 1 /\ Event(last + 1) \in Items
  <2>1. last + 1 \in 0..MaxSequence
    BY <1>1
  <2> QED
    BY <2>1, ItemTypes DEF NextSequence
<1>3. /\ Queues' /\ subscribers' \subseteq subscribers
      /\ \A c \in Clients : \/ c \in subscribers /\ Put(c, Event(last + 1))
                            \/ c \notin subscribers' /\ Same(c)
  BY <1>0, <1>2, PublishPuts DEF IInv, Typed
<1>4. status' = StatusAfter(s) /\ recorded' = StatusAfter(s) /\ StatusAfter(s) \in Statuses
  BY <1>0 DEF Writes, StatusAfter, IInv, Typed, Run
<1>5. Run'
  BY <1>0, <1>1, <1>4 DEF IInv, Typed, Run
<1>6. Pages'
  BY <1>0 DEF IInv, Typed, Pages, pageVars
<1>7. Outcome'
  <2>1. final' <= last'
    BY <1>0, <1>1, CountsAssumption DEF IInv, Typed, Run, Outcome
  <2> QED
    BY <1>0, <1>4, <2>1 DEF IInv, Outcome, StatusAfter
<1>8. Settled => Settled'
  <2>1. CASE final # 0
    BY <1>0, <1>4, <2>1 DEF IInv, Outcome, StatusAfter, Settled
  <2>2. CASE final = 0
    BY <1>0, <1>4, <2>2 DEF Settled
  <2> QED
    BY <2>1, <2>2
<1>9. /\ Readers' /\ Seen' /\ Queued' /\ Linked' /\ Newest' /\ Gapless' /\ Ends' /\ EndIsTrue'
  BY <1>0, <1>1, <1>3, <1>8, Emission
<1> QED
  BY <1>1, <1>3, <1>5, <1>6, <1>7, <1>9 DEF IInv, Typed

(* The status of a row is a status, and an event without one leaves it. *)
LEMMA Kept ==
  ASSUME IInv
  PROVE  /\ status \in Statuses /\ StatusAfter(status) = status
         /\ "open" \in Statuses /\ "unrecoverable" \in Statuses /\ "terminal" \in Statuses
BY DEF IInv, Typed, Run, StatusAfter, Statuses

LEMMA Emit_Step == IInv /\ Emit => IInv'
<1> SUFFICES ASSUME IInv, Emit PROVE IInv'
  OBVIOUS
<1>1. /\ EmitAs(status) /\ working /\ UNCHANGED <<working, stopping, approving, reopened>>
      /\ UNCHANGED up
  BY DEF Emit, EmitAs
<1>2. Flags' /\ status = "open"
  BY <1>1 DEF IInv, Typed, Flags, Outcome
<1> QED
  BY <1>1, <1>2, Kept, Emission_Step

LEMMA GiveUp_Step == IInv /\ GiveUp => IInv'
<1> SUFFICES ASSUME IInv, GiveUp PROVE IInv'
  OBVIOUS
<1>1. /\ EmitAs("unrecoverable") /\ working /\ ~working'
      /\ UNCHANGED <<stopping, approving, reopened, up>>
  BY DEF GiveUp, EmitAs
<1>2. Flags' /\ status = "open"
  BY <1>1 DEF IInv, Typed, Flags, Outcome, GiveUp
<1> QED
  BY <1>1, <1>2, Kept, Emission_Step

LEMMA StopReturns_Step == IInv /\ StopReturns => IInv'
<1> SUFFICES ASSUME IInv, StopReturns PROVE IInv'
  OBVIOUS
<1>1. /\ EmitAs(status) /\ stopping' = FALSE /\ UNCHANGED <<working, approving, reopened, up>>
  BY DEF StopReturns, EmitAs
<1>2. Flags' /\ (working => status = "open")
  BY <1>1 DEF IInv, Typed, Flags, Outcome
<1> QED
  BY <1>1, <1>2, Kept, Emission_Step

LEMMA EmitTerminal_Step == IInv /\ EmitTerminal => IInv'
<1> SUFFICES ASSUME IInv, EmitTerminal PROVE IInv'
  OBVIOUS
<1> USE DEF boundVars
<1>1. /\ last' = last + 1 /\ last' \in 1..MaxSequence
      /\ events' \in Seq(1..MaxSequence) /\ Len(events') <= MaxEvents
      /\ Buffered'
  BY RecordKeeps DEF IInv, Typed, EmitTerminal
<1>2. NextSequence = last + 1 /\ Event(last + 1) \in Items
  <2>1. last + 1 \in 0..MaxSequence
    BY <1>1
  <2> QED
    BY <2>1, ItemTypes DEF NextSequence
<1>3. /\ working /\ status' = "terminal" /\ recorded' = "terminal" /\ working' = FALSE
      /\ final' = last + 1 /\ run' = "over" /\ PublishEnd(Event(last + 1))
      /\ UNCHANGED <<reopened, stopping, approving, up, reader, pageVars, boundVars>>
  BY <1>2 DEF EmitTerminal, Writes
<1>8. final = 0
  BY <1>3 DEF IInv, Outcome
<1>9. Outcome' /\ Settled'
  BY <1>1, <1>3 DEF Outcome, Settled
<1>4. /\ Queues' /\ subscribers' \subseteq subscribers
      /\ \A c \in Clients :
           \/ c \in subscribers /\ (Put(c, Event(last + 1)) \/ PutEnd(c, Event(last + 1)))
           \/ c \notin subscribers' /\ Same(c)
  BY <1>2, <1>3, PublishEndPuts DEF IInv, Typed
<1>5. Run'
  BY <1>1, <1>3, Kept DEF IInv, Typed, Run
<1>6. Pages' /\ Flags'
  BY <1>3 DEF IInv, Typed, Pages, Flags, pageVars
<1>7. /\ Readers' /\ Seen' /\ Queued' /\ Linked' /\ Newest' /\ Gapless' /\ Ends' /\ EndIsTrue'
  BY <1>1, <1>3, <1>4, <1>8, <1>9, Emission
<1> QED
  BY <1>1, <1>4, <1>5, <1>6, <1>7, <1>9 DEF IInv, Typed

(* A queue whose head is gone. *)
LEMMA TakenKeeps ==
  ASSUME Queues, NEW c \in Clients, Taken(c),
         Ascending(queue[c]), OneEnd(queue[c]), Chained(queue[c])
  PROVE  Ascending(queue'[c]) /\ OneEnd(queue'[c]) /\ Chained(queue'[c])
<1> DEFINE q == queue[c]
           r == queue'[c]
<1>1. Len(q) \in Nat /\ Len(q) > 0 /\ Len(r) = Len(q) - 1
  BY Kinds DEF Taken
<1>2. \A i \in 1..Len(r) : i + 1 \in 1..Len(q) /\ r[i] = q[i + 1]
  BY <1>1 DEF Taken
<1>3. Ascending(q) /\ OneEnd(q) /\ Chained(q)
  OBVIOUS
<1> HIDE DEF q, r
<1>4. Ascending(r)
  <2> SUFFICES ASSUME NEW i \in 1..Len(r), NEW j \in 1..Len(r),
                      i < j, r[i].kind = "event", r[j].kind = "event"
               PROVE  r[i].sequence < r[j].sequence
    BY DEF Ascending
  <2>1. i + 1 \in 1..Len(q) /\ j + 1 \in 1..Len(q) /\ i + 1 < j + 1
    BY <1>1, <1>2
  <2> QED
    BY <1>2, <1>3, <2>1 DEF Ascending
<1>5. OneEnd(r)
  <2> SUFFICES ASSUME NEW i \in 1..Len(r), NEW j \in 1..Len(r),
                      r[i].kind = "none", r[j].kind = "none"
               PROVE  i = j
    BY DEF OneEnd
  <2>1. i + 1 \in 1..Len(q) /\ j + 1 \in 1..Len(q) /\ i + 1 = j + 1
    BY <1>2, <1>3 DEF OneEnd
  <2> QED
    BY <1>1, <2>1
<1>6. Chained(r)
  <2> SUFFICES ASSUME NEW i \in 1..Len(r), r[i].kind = "event"
               PROVE  /\ i + 1 <= Len(r) /\ r[i + 1].kind = "event" =>
                           r[i + 1].sequence = r[i].sequence + 1
                      /\ i + 2 <= Len(r) /\ r[i + 1].kind # "event" /\ r[i + 2].kind = "event" =>
                           r[i + 2].sequence = r[i].sequence + 1
    BY DEF Chained
  <2>1. i + 1 \in 1..Len(q) /\ r[i] = q[i + 1]
    BY <1>2
  <2>2. i + 1 <= Len(r) => (i + 1) + 1 <= Len(q) /\ r[i + 1] = q[(i + 1) + 1]
    BY <1>1, <1>2
  <2>3. i + 2 <= Len(r) => (i + 1) + 2 <= Len(q) /\ r[i + 2] = q[(i + 1) + 2]
    <3>1. i + 2 <= Len(r) => i + 2 \in 1..Len(r) /\ (i + 2) + 1 = (i + 1) + 2
      BY <1>1
    <3> QED
      BY <1>1, <1>2, <3>1
  <2>4. i + 2 <= Len(r) => i + 1 <= Len(r)
    BY <1>1
  <2> QED
    BY <1>3, <2>1, <2>2, <2>3, <2>4 DEF Chained
<1> QED
  BY <1>4, <1>5, <1>6 DEF r

LEMMA DeliverEvent_Step ==
  ASSUME IInv, NEW c \in Clients, DeliverEvent(c)
  PROVE  IInv'
<1> USE DEF runVars, rowVars, taskVars, boundVars
<1> DEFINE q == queue[c]
           r == queue'[c]
           n == q[1].sequence
<1>1. /\ Queues' /\ Taken(c) /\ Head(q) = q[1]
      /\ \A d \in Clients \ {c} : Same(d)
      /\ q # <<>>
  BY TailTakes DEF IInv, Typed, DeliverEvent
<1>2. /\ q[1].kind = "event"
      /\ MoveCursor(c, n)
      /\ shown' = [shown EXCEPT ![c] = n]
      /\ expected' = [expected EXCEPT ![c] = n + 1]
      /\ UNCHANGED <<runVars, up, subscribers, reader, boundVars>>
  BY <1>1 DEF DeliverEvent
<1>3. /\ Len(q) \in Nat /\ 1 \in 1..Len(q)
      /\ Len(r) = Len(q) - 1 /\ \A i \in 1..Len(r) : i + 1 \in 1..Len(q) /\ r[i] = q[i + 1]
  BY <1>1, Kinds DEF IInv, Typed, Taken
<1>4. n \in 1..last /\ q[1] = Event(n)
  BY <1>2, <1>3 DEF IInv, Queued
<1>5. last \in 0..MaxSequence /\ last \in Nat
  BY CountsAssumption DEF IInv, Typed, Run
<1>6. n \in 0..MaxSequence /\ n + 1 \in 0..MaxSequence + 1 /\ n \in Nat
  BY <1>4, <1>5, CountsAssumption
<1>7. /\ cursor \in [Clients -> 0..MaxSequence] /\ tracking \in [Clients -> BOOLEAN]
      /\ shown \in [Clients -> 0..MaxSequence] /\ expected \in [Clients -> 0..MaxSequence + 1]
  BY DEF IInv, Typed, Pages
<1> HIDE DEF q, r, n
<1>8. \/ /\ cursor' = [cursor EXCEPT ![c] = 0]
         /\ tracking' = [tracking EXCEPT ![c] = FALSE]
      \/ /\ cursor' = [cursor EXCEPT ![c] = n]
         /\ tracking' = [tracking EXCEPT ![c] = TRUE]
      \/ UNCHANGED <<cursor, tracking>> /\ ~tracking[c]
  BY <1>2, Zenon DEF MoveCursor
<1>9. /\ shown'[c] = n /\ expected'[c] = n + 1
      /\ \A d \in Clients \ {c} : /\ shown'[d] = shown[d] /\ expected'[d] = expected[d]
                                  /\ cursor'[d] = cursor[d] /\ tracking'[d] = tracking[d]
      /\ tracking'[c] => cursor'[c] = n
      /\ cursor'[c] \in {0, n, cursor[c]}
  BY <1>2, <1>7, <1>8
<1>10. Pages'
  <2>1. cursor' \in [Clients -> 0..MaxSequence] /\ tracking' \in [Clients -> BOOLEAN]
    <3>1. 0 \in 0..MaxSequence
      BY CountsAssumption
    <3> QED
      BY <1>6, <1>7, <1>8, <3>1
  <2> QED
    BY <1>2, <1>6, <1>7, <2>1 DEF Pages
<1>11. Flags' /\ Run' /\ Outcome' /\ Buffered'
  BY <1>2 DEF IInv, Typed, Flags, Run, Outcome, Buffered
<1>12. Readers'
  <2>1. reader[c] = "reading"
    BY DEF DeliverEvent
  <2> QED
    BY <1>1, <1>2, <2>1 DEF IInv, Readers, Same
<1>13. Seen'
  BY <1>2, <1>4, <1>5, <1>9 DEF IInv, Seen
<1>14. Ascending(q) /\ OneEnd(q) /\ Chained(q)
  BY DEF IInv, Linked, q
<1>15. Linked'
  <2>1. Ascending(r) /\ OneEnd(r) /\ Chained(r)
    BY <1>1, <1>14, TakenKeeps DEF IInv, Typed, q, r
  <2> QED
    BY <1>1, <2>1 DEF IInv, Linked, Same, r
<1>16. Queued'
  <2>1. ASSUME NEW i \in 1..Len(r)
        PROVE  /\ r[i].kind = "event" => /\ r[i] = Event(r[i].sequence)
                                         /\ r[i].sequence \in 1..last
                                         /\ r[i].sequence > n
               /\ r[i].kind = "snapshot" => i = 1
    <3>1. i + 1 \in 1..Len(q) /\ r[i] = q[i + 1] /\ 1 < i + 1 /\ 1 \in 1..Len(q)
      BY <1>3
    <3>2. /\ q[i + 1].kind = "event" => /\ q[i + 1] = Event(q[i + 1].sequence)
                                        /\ q[i + 1].sequence \in 1..last
          /\ q[i + 1].kind = "snapshot" => i + 1 = 1
      BY <3>1 DEF IInv, Queued, q
    <3>3. q[i + 1].kind = "event" => n < q[i + 1].sequence
      BY <1>2, <1>14, <3>1 DEF Ascending, n
    <3> QED
      BY <1>5, <1>6, <3>1, <3>2, <3>3
  <2> QED
    BY <1>1, <1>2, <1>9, <2>1 DEF IInv, Queued, Same, r
<1>17. Newest'
  <2>1. ASSUME c \in subscribers, r # <<>>
        PROVE  /\ r[Len(r)].kind # "snapshot"
               /\ r[Len(r)].kind = "event" => r[Len(r)].sequence = last
               /\ r[Len(r)].kind = "none" /\ Len(r) > 1 => r[Len(r) - 1] = Event(last)
    <3>1. Len(r) > 0
      BY <1>1, <2>1, EmptySeq DEF Queues, r
    <3>2. /\ r[Len(r)] = q[Len(q)] /\ Len(q) > 1
          /\ Len(r) > 1 => r[Len(r) - 1] = q[Len(q) - 1]
      BY <1>3, <3>1
    <3> QED
      BY <1>1, <2>1, <3>2 DEF IInv, Newest, q
  <2> QED
    BY <1>1, <1>2, <2>1 DEF IInv, Newest, Same, Typed, Queues, r
<1>18. Gapless'
  <2>1. ASSUME r # <<>>, r[1].kind = "event"
        PROVE  r[1].sequence = n + 1
    <3>1. Len(r) > 0
      BY <1>1, <2>1, EmptySeq DEF Queues, r
    <3> QED
      BY <1>2, <1>3, <1>14, <2>1, <3>1 DEF Chained, n
  <2>2. ASSUME c \in subscribers, r = <<>>
        PROVE  n = last
    <3>1. Len(q) = 1
      BY <1>3, <2>2, EmptySeq
    <3> QED
      BY <1>1, <1>2, <2>2, <3>1 DEF IInv, Newest, q, n
  <2> QED
    BY <1>1, <1>2, <1>9, <2>1, <2>2 DEF IInv, Gapless, Same, r
<1>19. Ends'
  <2>1. ASSUME NEW i \in 1..Len(r), r[i].kind = "none"
        PROVE  /\ Settled /\ (c \in subscribers => final # 0)
               /\ i = 1 => final # 0 /\ n = final
               /\ i > 1 => r[i - 1].kind = "snapshot" \/ (final # 0 /\ r[i - 1] = Event(final))
    <3>1. i + 1 \in 1..Len(q) /\ r[i] = q[i + 1] /\ i + 1 > 1 /\ (i + 1) - 1 = i
      BY <1>3
    <3>2. /\ Settled /\ (c \in subscribers => final # 0)
          /\ q[i].kind = "snapshot" \/ (final # 0 /\ q[i] = Event(final))
      BY <2>1, <3>1 DEF IInv, Ends, q
    <3>3. i = 1 => final # 0 /\ n = final
      BY <1>2, <3>2 DEF n, Event
    <3>4. i > 1 => r[i - 1] = q[i]
      BY <1>3
    <3> QED
      BY <3>2, <3>3, <3>4
  <2> SUFFICES ASSUME NEW d \in Clients, NEW i \in 1..Len(queue'[d]), queue'[d][i].kind = "none"
               PROVE  /\ Settled'
                      /\ d \in subscribers' => final' # 0
                      /\ i = 1 => expected'[d] = 0 \/ (final' # 0 /\ shown'[d] = final')
                      /\ i > 1 => \/ queue'[d][i - 1].kind = "snapshot"
                                 \/ (final' # 0 /\ queue'[d][i - 1] = Event(final'))
    BY DEF Ends
  <2>2. CASE d = c
    BY <1>1, <1>2, <1>9, <2>1, <2>2 DEF Settled, r
  <2>3. CASE d # c
    <3>1. queue'[d] = queue[d] /\ (d \in subscribers' => d \in subscribers)
      BY <1>1, <1>2, <1>9, <2>3 DEF Same
    <3> QED
      <4>1. /\ i \in 1..Len(queue[d]) /\ queue[d][i].kind = "none"
            /\ expected'[d] = expected[d] /\ shown'[d] = shown[d]
            /\ Settled = Settled' /\ final' = final
        BY <1>2, <1>9, <2>3, <3>1 DEF Settled
      <4> QED
        BY <3>1, <4>1 DEF IInv, Ends, Event
  <2> QED
    BY <2>2, <2>3
<1>20. EndIsTrue'
  <2>1. reader[c] = "reading"
    BY DEF DeliverEvent
  <2> QED
    BY <1>2, <1>9, <2>1 DEF IInv, EndIsTrue
<1> QED
  BY <1>1, <1>10, <1>11, <1>12, <1>13, <1>15, <1>16, <1>17, <1>18, <1>19, <1>20 DEF IInv, Typed

LEMMA DeliverSnapshot_Step ==
  ASSUME IInv, NEW c \in Clients, DeliverSnapshot(c)
  PROVE  IInv'
<1> USE DEF runVars, rowVars, taskVars, boundVars
<1> DEFINE q == queue[c]
           r == queue'[c]
<1>1. /\ Queues' /\ Taken(c) /\ Head(q) = q[1]
      /\ \A d \in Clients \ {c} : Same(d)
      /\ q # <<>>
  BY TailTakes DEF IInv, Typed, DeliverSnapshot
<1>2. /\ q[1].kind = "snapshot" /\ reader[c] = "reading"
      /\ expected' = [expected EXCEPT ![c] = 0]
      /\ UNCHANGED <<runVars, up, subscribers, reader, cursor, tracking, shown, boundVars>>
  BY <1>1 DEF DeliverSnapshot
<1>3. /\ Len(q) \in Nat /\ 1 \in 1..Len(q)
      /\ Len(r) = Len(q) - 1 /\ \A i \in 1..Len(r) : i + 1 \in 1..Len(q) /\ r[i] = q[i + 1]
  BY <1>1, Kinds DEF IInv, Typed, Taken
<1>4. Pages' /\ expected'[c] = 0 /\ \A d \in Clients \ {c} : expected'[d] = expected[d]
  <2>1. 0 \in 0..MaxSequence + 1
    BY CountsAssumption
  <2> QED
    BY <1>2, <2>1 DEF IInv, Typed, Pages
<1> HIDE DEF q, r
<1>5. Flags' /\ Run' /\ Outcome' /\ Buffered'
  BY <1>2 DEF IInv, Typed, Flags, Run, Outcome, Buffered
<1>6. Readers'
  BY <1>1, <1>2 DEF IInv, Readers, Same
<1>7. Seen'
  BY <1>2 DEF IInv, Seen
<1>8. Linked'
  <2>1. Ascending(r) /\ OneEnd(r) /\ Chained(r)
    BY <1>1, TakenKeeps DEF IInv, Typed, Linked, q, r
  <2> QED
    BY <1>1, <2>1 DEF IInv, Linked, Same, r
<1>9. Queued'
  <2>1. ASSUME NEW i \in 1..Len(r)
        PROVE  /\ r[i].kind = "event" => /\ r[i] = Event(r[i].sequence)
                                         /\ r[i].sequence \in 1..last
                                         /\ tracking[c] => r[i].sequence > shown[c]
               /\ r[i].kind = "snapshot" => i = 1
    <3>1. i + 1 \in 1..Len(q) /\ r[i] = q[i + 1] /\ i + 1 # 1
      BY <1>3
    <3> QED
      BY <3>1 DEF IInv, Queued, q
  <2> QED
    BY <1>1, <1>2, <2>1 DEF IInv, Queued, Same, r
<1>10. Newest'
  <2>1. ASSUME c \in subscribers, r # <<>>
        PROVE  /\ r[Len(r)].kind # "snapshot"
               /\ r[Len(r)].kind = "event" => r[Len(r)].sequence = last
               /\ r[Len(r)].kind = "none" /\ Len(r) > 1 => r[Len(r) - 1] = Event(last)
    <3>1. Len(r) > 0
      BY <1>1, <2>1, EmptySeq DEF Queues, r
    <3>2. /\ r[Len(r)] = q[Len(q)] /\ Len(q) > 1
          /\ Len(r) > 1 => r[Len(r) - 1] = q[Len(q) - 1]
      BY <1>3, <3>1
    <3> QED
      BY <1>1, <2>1, <3>2 DEF IInv, Newest, q
  <2> QED
    BY <1>1, <1>2, <2>1 DEF IInv, Newest, Same, Typed, Queues, r
<1>11. Gapless'
  BY <1>1, <1>2, <1>4 DEF IInv, Gapless, Same
<1>12. Ends'
  <2>1. ASSUME NEW i \in 1..Len(r), r[i].kind = "none"
        PROVE  /\ Settled /\ (c \in subscribers => final # 0)
               /\ i > 1 => r[i - 1].kind = "snapshot" \/ (final # 0 /\ r[i - 1] = Event(final))
    <3>1. i + 1 \in 1..Len(q) /\ r[i] = q[i + 1] /\ i + 1 > 1 /\ (i + 1) - 1 = i
      BY <1>3
    <3>2. /\ Settled /\ (c \in subscribers => final # 0)
          /\ q[i].kind = "snapshot" \/ (final # 0 /\ q[i] = Event(final))
      BY <2>1, <3>1 DEF IInv, Ends, q
    <3>3. i > 1 => r[i - 1] = q[i]
      BY <1>3
    <3> QED
      BY <3>2, <3>3
  <2> SUFFICES ASSUME NEW d \in Clients, NEW i \in 1..Len(queue'[d]), queue'[d][i].kind = "none"
               PROVE  /\ Settled'
                      /\ d \in subscribers' => final' # 0
                      /\ i = 1 => expected'[d] = 0 \/ (final' # 0 /\ shown'[d] = final')
                      /\ i > 1 => \/ queue'[d][i - 1].kind = "snapshot"
                                 \/ (final' # 0 /\ queue'[d][i - 1] = Event(final'))
    BY DEF Ends
  <2>2. CASE d = c
    BY <1>1, <1>2, <1>4, <2>1, <2>2 DEF Settled, r
  <2>3. CASE d # c
    <3>1. queue'[d] = queue[d] /\ (d \in subscribers' => d \in subscribers)
      BY <1>1, <1>2, <1>4, <2>3 DEF Same
    <3> QED
      BY <1>1, <1>2, <1>4, <2>3, <3>1 DEF IInv, Ends, Settled, Event
  <2> QED
    BY <2>2, <2>3
<1>13. EndIsTrue'
  BY <1>2, <1>4 DEF IInv, EndIsTrue
<1> QED
  BY <1>1, <1>4, <1>5, <1>6, <1>7, <1>8, <1>9, <1>10, <1>11, <1>12, <1>13 DEF IInv, Typed

(* A client whose queue is forgotten. *)
LEMMA EmptyLinked == Ascending(<<>>) /\ OneEnd(<<>>) /\ Chained(<<>>)
BY EmptySeq DEF Ascending, OneEnd, Chained

LEMMA LeaveQueue_Step ==
  ASSUME IInv, NEW c \in Clients, LeaveQueue(c),
         reader' \in [Clients -> {"away", "reading", "ended"}],
         \A d \in Clients \ {c} : reader'[d] = reader[d],
         last = 0 => reader'[c] = "away",
         reader'[c] = "ended" =>
           Settled /\ (expected[c] = 0 \/ (final # 0 /\ shown[c] = final)),
         UNCHANGED <<runVars, up, pageVars, boundVars>>, reader'[c] # "reading"
  PROVE  IInv'
<1> USE DEF runVars, rowVars, taskVars, pageVars, boundVars
<1>1. /\ queue'[c] = <<>> /\ Len(queue'[c]) = 0 /\ \A d \in Clients \ {c} : Same(d)
      /\ queue' \in [Clients -> Seq(Items)]
      /\ subscribers' = subscribers \ {c}
  BY EmptySeq DEF IInv, Typed, Queues, LeaveQueue, Same
<1>2. Queues'
  <2>1. \A d \in Clients : Len(queue'[d]) <= QueueSize
    <3>1. Len(queue'[c]) <= QueueSize
      BY <1>1, SizesAssumption
    <3>2. \A d \in Clients \ {c} : Len(queue[d]) <= QueueSize /\ queue'[d] = queue[d]
      BY <1>1 DEF IInv, Typed, Queues, Same
    <3> QED
      BY <3>1, <3>2
  <2>2. subscribers' \subseteq Clients
    BY <1>1 DEF IInv, Typed, Queues
  <2> QED
    BY <1>1, <2>1, <2>2 DEF Queues
<1>3. Flags' /\ Run' /\ Pages' /\ Outcome' /\ Buffered'
  <2>1. Flags' /\ Run'
    BY DEF IInv, Typed, Flags, Run
  <2>2. Pages'
    BY DEF IInv, Typed, Pages
  <2>3. Outcome' /\ Buffered'
    BY DEF IInv, Outcome, Buffered
  <2> QED
    BY <2>1, <2>2, <2>3
<1>4. Readers'
  BY <1>1 DEF IInv, Readers, Same
<1>5. Seen'
  BY DEF IInv, Seen
<1>6. Linked'
  BY <1>1, EmptyLinked DEF IInv, Linked, Same
<1>7. \A d \in Clients : \A i \in 1..Len(queue'[d]) :
        d # c /\ queue'[d] = queue[d] /\ i \in 1..Len(queue[d])
  BY <1>1 DEF Same
<1>8. Queued'
  BY <1>7 DEF IInv, Queued
<1>9. Newest'
  BY <1>1 DEF IInv, Typed, Queues, Newest, Same
<1>10. Gapless'
  BY <1>1 DEF IInv, Gapless, Same
<1>11. Ends'
  BY <1>1, <1>7 DEF IInv, Ends, Settled
<1>12. EndIsTrue'
  BY DEF IInv, EndIsTrue, Settled
<1> QED
  BY <1>2, <1>3, <1>4, <1>5, <1>6, <1>8, <1>9, <1>10, <1>11, <1>12 DEF IInv, Typed

LEMMA Disconnect_Step == ASSUME IInv, NEW c \in Clients, Disconnect(c) PROVE IInv'
<1>1. /\ reader' = [reader EXCEPT ![c] = "away"] /\ LeaveQueue(c)
      /\ UNCHANGED <<runVars, up, pageVars, boundVars>>
  BY DEF Disconnect
<1>2. /\ reader' \in [Clients -> {"away", "reading", "ended"}] /\ reader'[c] = "away"
      /\ \A d \in Clients \ {c} : reader'[d] = reader[d]
  BY <1>1 DEF IInv, Typed, Queues
<1> QED
  BY <1>1, <1>2, LeaveQueue_Step

LEMMA DeliverNone_Step == ASSUME IInv, NEW c \in Clients, DeliverNone(c) PROVE IInv'
<1>1. /\ reader' = [reader EXCEPT ![c] = "ended"] /\ LeaveQueue(c) /\ reader[c] = "reading"
      /\ UNCHANGED <<runVars, up, pageVars, boundVars>>
      /\ queue[c] # <<>> /\ Head(queue[c]).kind = "none"
  BY DEF DeliverNone
<1>2. /\ reader' \in [Clients -> {"away", "reading", "ended"}] /\ reader'[c] = "ended"
      /\ \A d \in Clients \ {c} : reader'[d] = reader[d]
  BY <1>1 DEF IInv, Typed, Queues
<1>3. 1 \in 1..Len(queue[c]) /\ Head(queue[c]) = queue[c][1]
  BY <1>1, EmptySeq DEF IInv, Typed, Queues
<1>4. Settled /\ (expected[c] = 0 \/ (final # 0 /\ shown[c] = final))
  BY <1>1, <1>3 DEF IInv, Ends
<1>5. last # 0
  BY <1>1 DEF IInv, Readers
<1> QED
  BY <1>1, <1>2, <1>4, <1>5, LeaveQueue_Step

(* The page of a client connects: a queue of its own, beside the others. *)
LEMMA Begin_Step == ASSUME IInv, NEW c \in Clients, Begin(c) PROVE IInv'
<1> USE DEF boundVars
<1>1. /\ last = 0 /\ run = "none" /\ run' = "listed" /\ Record(NextSequence)
      /\ subscribers' = {c}
      /\ queue' = [queue EXCEPT ![c] = <<Event(NextSequence)>>]
      /\ reader' = [reader EXCEPT ![c] = "reading"]
      /\ expected' = [expected EXCEPT ![c] = 1]
      /\ working' = TRUE /\ status' = "open" /\ recorded' = "open"
      /\ UNCHANGED <<reopened, final, stopping, approving, up, cursor, tracking, shown, boundVars>>
  BY DEF Begin, Writes
<1>2. /\ last' = 1 /\ 1 \in 0..MaxSequence + 1 /\ 1 \in 0..MaxSequence
      /\ events' \in Seq(1..MaxSequence) /\ Len(events') <= MaxEvents
      /\ Buffered'
  <2>1. last < MaxSequence
    BY <1>1, CountsAssumption
  <2> QED
    BY <1>1, <2>1, RecordKeeps, CountsAssumption DEF IInv, Typed
<1>3. \A d \in Clients : reader[d] = "away" /\ queue[d] = <<>>
  BY <1>1 DEF IInv, Readers
<1>4. Event(1) \in Items /\ NextSequence = 1
  BY <1>1, <1>2, ItemTypes DEF NextSequence
<1>5. /\ <<Event(1)>> \in Seq(Items) /\ Len(<<Event(1)>>) = 1 /\ <<Event(1)>>[1] = Event(1)
  BY <1>4
<1>6. /\ queue' \in [Clients -> Seq(Items)] /\ queue'[c] = <<Event(1)>>
      /\ \A d \in Clients \ {c} : queue'[d] = <<>>
      /\ Len(queue'[c]) = 1 /\ queue'[c][1] = Event(1)
      /\ \A d \in Clients \ {c} : Len(queue'[d]) = 0
      /\ queue'[c] # <<>>
  BY <1>1, <1>3, <1>4, <1>5, EmptySeq DEF IInv, Typed, Queues
<1>7. /\ reader' \in [Clients -> {"away", "reading", "ended"}] /\ reader'[c] = "reading"
      /\ \A d \in Clients \ {c} : reader'[d] = "away"
      /\ expected' \in [Clients -> 0..MaxSequence + 1] /\ expected'[c] = 1
  BY <1>1, <1>2, <1>3 DEF IInv, Typed, Queues, Pages
<1>8. Queues'
  BY <1>1, <1>6, <1>7, SizesAssumption DEF Queues
<1>9. Flags' /\ Run' /\ Pages' /\ Outcome'
  <2>1. final \in 0..last
    BY <1>1 DEF IInv, Typed, Run, Outcome
  <2>2. final = 0
    BY <1>1, <2>1
  <2> QED
    BY <1>1, <1>2, <1>7, <2>2, Kept DEF IInv, Typed, Flags, Run, Pages, Outcome
<1>10. Readers'
  BY <1>1, <1>2, <1>6, <1>7 DEF Readers
<1>11. cursor' = cursor /\ shown' = shown /\ tracking' = tracking
       /\ \A d \in Clients : cursor[d] = 0 /\ shown[d] = 0
  BY <1>1, CountsAssumption DEF IInv, Typed, Pages, Seen
<1>12. Seen'
  BY <1>2, <1>11 DEF Seen
<1>13. Event(1).kind = "event" /\ Event(1).sequence = 1
  BY DEF Event
<1>14. \A d \in Clients : \A i \in 1..Len(queue'[d]) : d = c /\ i = 1
  <2>1. \A d \in Clients \ {c} : ~(\E i : i \in 1..Len(queue'[d]))
    BY <1>6
  <2>2. \A i \in 1..Len(queue'[c]) : i = 1
    BY <1>6
  <2> QED
    BY <2>1, <2>2
<1>15. Queued'
  BY <1>2, <1>6, <1>11, <1>13, <1>14 DEF Queued
<1>16. Linked'
  <2>1. Ascending(queue'[c]) /\ OneEnd(queue'[c]) /\ Chained(queue'[c])
    BY <1>6 DEF Ascending, OneEnd, Chained
  <2> QED
    BY <1>6, <2>1, EmptyLinked DEF Linked
<1>17. Newest'
  BY <1>1, <1>2, <1>6, <1>13 DEF Newest
<1>18. Gapless'
  BY <1>1, <1>6, <1>7, <1>13 DEF Gapless
<1>19. Ends'
  BY <1>6, <1>13, <1>14 DEF Ends
<1>20. EndIsTrue'
  BY <1>7 DEF EndIsTrue
<1> QED
  BY <1>2, <1>8, <1>9, <1>10, <1>12, <1>15, <1>16, <1>17, <1>18, <1>19, <1>20 DEF IInv, Typed

LEMMA Connect_Step == ASSUME IInv, NEW c \in Clients, Connect(c) PROVE IInv'
<1> USE DEF runVars, rowVars, taskVars, boundVars
<1>1. /\ last > 0 /\ reader[c] # "reading"
      /\ reader' = [reader EXCEPT ![c] = "reading"]
      /\ expected' = [expected EXCEPT ![c] = cursor[c] + 1]
      /\ \/ queue' = [queue EXCEPT ![c] = Replay(c)] /\ subscribers' = subscribers \cup {c}
         \/ queue' = [queue EXCEPT ![c] = SnapshotQueue] /\ subscribers' = subscribers
      /\ UNCHANGED <<runVars, up, cursor, tracking, shown, boundVars>>
  BY DEF Connect
<1>2. c \notin subscribers
  BY <1>1 DEF IInv, Readers
<1>3. /\ last \in Nat /\ last <= MaxSequence /\ cursor[c] \in Nat /\ cursor[c] <= last
      /\ shown[c] \in Nat /\ (tracking[c] => cursor[c] = shown[c])
      /\ QueueSize \in Nat /\ QueueSize > 2 /\ restarts \in Nat
  BY CountsAssumption, SizesAssumption DEF IInv, Typed, Run, Pages, Seen
<1> DEFINE r == queue'[c]
<1> DEFINE Replayed ==
             /\ subscribers' = subscribers \cup {c}
             /\ \A i \in 1..Len(r) :
                  IF IsGap(c) /\ i = 1 THEN r[i] = Snapshot
                  ELSE /\ r[i] = Event(last - Len(r) + i)
                       /\ last - Len(r) + i \in 1..last
                       /\ last - Len(r) + i > cursor[c]
             /\ IsGap(c) => Len(r) > 1
             /\ ~IsGap(c) /\ restarts = 0 => Len(r) = last - cursor[c]
           Apart ==
             /\ subscribers' = subscribers
             /\ r # <<>>
             /\ \A i \in 1..Len(r) :
                  \/ i = 1 /\ r[i] = Snapshot
                  \/ i = 2 /\ r[i] = None /\ r[1] = Snapshot /\ status = "terminal"
<1>4. /\ r \in Seq(Items) /\ Len(r) <= QueueSize
      /\ \A d \in Clients \ {c} : Same(d)
      /\ queue' \in [Clients -> Seq(Items)]
      /\ Replayed \/ Apart
  <2>1. CASE queue' = [queue EXCEPT ![c] = Replay(c)] /\ subscribers' = subscribers \cup {c}
    <3>1. r = Replay(c) /\ \A d \in Clients \ {c} : Same(d)
      BY <2>1 DEF IInv, Typed, Queues, Same
    <3>2. Replay(c) \in Seq(Items)
      BY ReplayIs DEF IInv, Typed
    <3>3. queue' \in [Clients -> Seq(Items)]
      BY <2>1, <3>2 DEF IInv, Typed, Queues
    <3> HIDE DEF r
    <3> QED
      BY <2>1, <3>1, <3>3, ReplayIs DEF IInv, Typed
  <2>2. CASE queue' = [queue EXCEPT ![c] = SnapshotQueue] /\ subscribers' = subscribers
    <3>1. r = SnapshotQueue /\ \A d \in Clients \ {c} : Same(d)
      BY <2>2 DEF IInv, Typed, Queues, Same
    <3>2. Snapshot \in Items /\ None \in Items
      BY ItemTypes DEF IInv, Typed, Run
    <3>3. /\ SnapshotQueue \in Seq(Items) /\ Len(SnapshotQueue) <= 2 /\ SnapshotQueue # <<>>
          /\ \A i \in 1..Len(SnapshotQueue) :
               \/ i = 1 /\ SnapshotQueue[i] = Snapshot
               \/ /\ i = 2 /\ SnapshotQueue[i] = None /\ SnapshotQueue[1] = Snapshot
                  /\ status = "terminal"
      <4>1. CASE status = "terminal"
        <5>1. SnapshotQueue = <<Snapshot, None>>
          BY <4>1 DEF SnapshotQueue
        <5>2. /\ <<Snapshot, None>> \in Seq(Items) /\ Len(<<Snapshot, None>>) = 2
              /\ <<Snapshot, None>>[1] = Snapshot /\ <<Snapshot, None>>[2] = None
          BY <3>2
        <5>3. \A i \in 1..2 : i = 1 \/ i = 2
          OBVIOUS
        <5> QED
          BY <4>1, <5>1, <5>2, <5>3
      <4>2. CASE status # "terminal"
        <5>1. SnapshotQueue = <<Snapshot>>
          BY <4>2 DEF SnapshotQueue
        <5> QED
          BY <3>2, <5>1
      <4> QED
        BY <4>1, <4>2
    <3>4. queue' \in [Clients -> Seq(Items)]
      BY <2>2, <3>3 DEF IInv, Typed, Queues
    <3>5. Len(SnapshotQueue) \in Nat
      BY <3>3, LenProperties
    <3>6. Len(r) <= QueueSize
      BY <1>3, <3>1, <3>3, <3>5
    <3>7. Apart
      BY <2>2, <3>1, <3>3
    <3> QED
      BY <3>1, <3>3, <3>4, <3>6, <3>7
  <2> QED
    BY <1>1, <2>1, <2>2
<1>5. /\ reader' \in [Clients -> {"away", "reading", "ended"}] /\ reader'[c] = "reading"
      /\ \A d \in Clients \ {c} : reader'[d] = reader[d]
  BY <1>1 DEF IInv, Typed, Queues
<1>6. /\ expected' \in [Clients -> 0..MaxSequence + 1] /\ expected'[c] = cursor[c] + 1
      /\ \A d \in Clients \ {c} : expected'[d] = expected[d]
  <2>1. cursor[c] + 1 \in 0..MaxSequence + 1
    BY <1>3, CountsAssumption
  <2> QED
    BY <1>1, <2>1 DEF IInv, Typed, Pages
<1>7. /\ Snapshot.kind = "snapshot" /\ None.kind = "none"
      /\ \A n : Event(n).kind = "event" /\ Event(n).sequence = n
  BY DEF Snapshot, None, Event
<1>8. Len(r) \in Nat
  BY <1>4, LenProperties
<1> HIDE DEF r, Replayed, Apart
<1>9. subscribers' \subseteq subscribers \cup {c}
  BY <1>4 DEF Replayed, Apart
<1>10. Queues'
  <2>1. \A d \in Clients : Len(queue'[d]) <= QueueSize
    BY <1>4 DEF IInv, Typed, Queues, Same, r
  <2> QED
    BY <1>4, <1>5, <1>9, <2>1 DEF IInv, Typed, Queues
<1>11. Flags' /\ Run' /\ Pages' /\ Outcome' /\ Buffered'
  BY <1>1, <1>6 DEF IInv, Typed, Flags, Run, Pages, Outcome, Buffered
<1>12. Readers'
  BY <1>1, <1>3, <1>4, <1>5, <1>9 DEF IInv, Readers, Same
<1>13. Seen'
  BY <1>1 DEF IInv, Seen
<1>14. Queued'
  <2>1. ASSUME NEW i \in 1..Len(r)
        PROVE  /\ r[i].kind = "event" => /\ r[i] = Event(r[i].sequence)
                                         /\ r[i].sequence \in 1..last
                                         /\ tracking[c] => r[i].sequence > shown[c]
               /\ r[i].kind = "snapshot" => i = 1
    <3>1. CASE Replayed
      BY <1>3, <1>7, <1>8, <3>1 DEF Replayed
    <3>2. CASE Apart
      BY <1>7, <3>2 DEF Apart
    <3> QED
      BY <1>4, <3>1, <3>2
  <2> SUFFICES ASSUME NEW d \in Clients, NEW i \in 1..Len(queue'[d])
               PROVE  /\ queue'[d][i].kind = "event" =>
                           /\ queue'[d][i] = Event(queue'[d][i].sequence)
                           /\ queue'[d][i].sequence \in 1..last'
                           /\ tracking'[d] => queue'[d][i].sequence > shown'[d]
                      /\ queue'[d][i].kind = "snapshot" => i = 1
    BY <1>1 DEF Queued, Event
  <2>2. CASE d = c
    BY <1>1, <2>1, <2>2 DEF r
  <2>3. CASE d # c
    <3>1. queue'[d] = queue[d]
      BY <1>4, <2>3 DEF Same
    <3>2. i \in 1..Len(queue[d])
      BY <3>1
    <3> QED
      BY <1>1, <3>1, <3>2 DEF IInv, Queued
  <2> QED
    BY <2>2, <2>3
<1>15. Linked'
  <2>1. CASE Replayed
    <3>1. \A i \in 1..Len(r) :
            /\ r[i].kind # "none"
            /\ r[i].kind = "event" => r[i].sequence = last - Len(r) + i
            /\ r[i].kind # "event" => i = 1
      BY <1>7, <2>1 DEF Replayed
    <3>2. Ascending(r)
      <4> SUFFICES ASSUME NEW i \in 1..Len(r), NEW j \in 1..Len(r), i < j,
                          r[i].kind = "event", r[j].kind = "event"
                   PROVE  r[i].sequence < r[j].sequence
        BY DEF Ascending
      <4>1. r[i].sequence = last - Len(r) + i /\ r[j].sequence = last - Len(r) + j
        BY <3>1
      <4> QED
        BY <1>3, <1>8, <4>1
    <3>3. OneEnd(r)
      BY <3>1 DEF OneEnd
    <3>4. Chained(r)
      BY <1>3, <1>8, <3>1 DEF Chained
    <3> QED
      BY <1>4, <3>2, <3>3, <3>4 DEF IInv, Linked, Same, r
  <2>2. CASE Apart
    <3>1. \A i \in 1..Len(r) : r[i].kind # "event" /\ (r[i].kind = "none" => i = 2)
      BY <1>7, <2>2 DEF Apart
    <3>2. Ascending(r) /\ OneEnd(r) /\ Chained(r)
      BY <3>1 DEF Ascending, OneEnd, Chained
    <3> QED
      BY <1>4, <3>2 DEF IInv, Linked, Same, r
  <2> QED
    BY <1>4, <2>1, <2>2
<1>16. Newest'
  <2>1. CASE Replayed
    <3>1. ASSUME r # <<>>
          PROVE  r[Len(r)].kind = "event" /\ r[Len(r)].sequence = last
      <4>1. Len(r) \in 1..Len(r)
        BY <1>4, <1>8, <3>1, EmptySeq
      <4>2. ~(IsGap(c) /\ Len(r) = 1)
        BY <2>1 DEF Replayed
      <4>3. r[Len(r)] = Event(last - Len(r) + Len(r))
        BY <2>1, <4>1, <4>2 DEF Replayed
      <4> QED
        BY <1>3, <1>7, <1>8, <4>3
    <3> SUFFICES ASSUME NEW d \in subscribers', queue'[d] # <<>>
                 PROVE  LET n == Len(queue'[d])
                        IN  /\ queue'[d][n].kind # "snapshot"
                            /\ queue'[d][n].kind = "event" => queue'[d][n].sequence = last'
                            /\ queue'[d][n].kind = "none" /\ n > 1 => queue'[d][n - 1] = Event(last')
      BY DEF Newest
    <3>2. CASE d = c
      BY <1>1, <3>1, <3>2 DEF r
    <3>3. CASE d # c
      <4>1. d \in subscribers /\ queue'[d] = queue[d]
        BY <1>4, <1>9, <3>3 DEF IInv, Typed, Queues, Same
      <4> QED
        BY <1>1, <4>1 DEF IInv, Newest
    <3> QED
      BY <3>2, <3>3
  <2>2. CASE Apart
    <3>1. \A d \in subscribers : queue'[d] = queue[d]
      BY <1>2, <1>4 DEF IInv, Typed, Queues, Same
    <3> QED
      BY <1>1, <2>2, <3>1 DEF IInv, Newest, Apart
  <2> QED
    BY <1>4, <2>1, <2>2
<1>17. Gapless'
  <2>1. ASSUME restarts = 0
        PROVE  /\ r # <<>> /\ r[1].kind = "event" => r[1].sequence = cursor[c] + 1
               /\ c \in subscribers' /\ r = <<>> => last = cursor[c]
    <3>1. r = <<>> <=> Len(r) = 0
      BY <1>4, EmptySeq
    <3>2. CASE Replayed
      <4>1. CASE IsGap(c)
        <5>1. Len(r) > 1 /\ 1 \in 1..Len(r)
          BY <1>8, <3>2, <4>1 DEF Replayed
        <5>2. r[1] = Snapshot
          BY <3>2, <4>1, <5>1 DEF Replayed
        <5> QED
          BY <1>7, <3>1, <5>1, <5>2
      <4>2. CASE ~IsGap(c)
        <5>1. Len(r) = last - cursor[c]
          BY <2>1, <3>2, <4>2 DEF Replayed
        <5>2. Len(r) > 0 => r[1] = Event(last - Len(r) + 1)
          BY <1>8, <3>2, <4>2 DEF Replayed
        <5> QED
          BY <1>3, <1>7, <1>8, <3>1, <5>1, <5>2
      <4> QED
        BY <4>1, <4>2
    <3>3. CASE Apart
      <4>1. 1 \in 1..Len(r)
        BY <1>8, <3>1, <3>3 DEF Apart
      <4> QED
        BY <1>7, <3>3, <4>1 DEF Apart
    <3> QED
      BY <1>4, <3>2, <3>3
  <2> QED
    BY <1>1, <1>4, <1>6, <2>1 DEF IInv, Gapless, Same, r
<1>18. Ends'
  <2>1. ASSUME NEW i \in 1..Len(r), r[i].kind = "none"
        PROVE  /\ status = "terminal" /\ i = 2 /\ r[1].kind = "snapshot"
               /\ c \notin subscribers'
    <3>1. CASE Replayed
      BY <1>7, <2>1, <3>1 DEF Replayed
    <3>2. CASE Apart
      BY <1>2, <1>7, <2>1, <3>2 DEF Apart
    <3> QED
      BY <1>4, <3>1, <3>2
  <2> SUFFICES ASSUME NEW d \in Clients, NEW i \in 1..Len(queue'[d]), queue'[d][i].kind = "none"
               PROVE  /\ Settled'
                      /\ d \in subscribers' => final' # 0
                      /\ i = 1 => expected'[d] = 0 \/ (final' # 0 /\ shown'[d] = final')
                      /\ i > 1 => \/ queue'[d][i - 1].kind = "snapshot"
                                 \/ (final' # 0 /\ queue'[d][i - 1] = Event(final'))
    BY DEF Ends
  <2>2. CASE d = c
    BY <1>1, <1>4, <1>6, <1>9, <2>1, <2>2 DEF Settled, r
  <2>3. CASE d # c
    <3>1. queue'[d] = queue[d] /\ (d \in subscribers' => d \in subscribers)
      BY <1>1, <1>4, <1>6, <1>9, <2>3 DEF Same
    <3> QED
      BY <1>1, <1>4, <1>6, <1>9, <2>3, <3>1 DEF IInv, Ends, Settled, Event
  <2> QED
    BY <2>2, <2>3
<1>19. EndIsTrue'
  BY <1>1, <1>5, <1>6 DEF IInv, EndIsTrue
<1> QED
  BY <1>10, <1>11, <1>12, <1>13, <1>14, <1>15, <1>16, <1>17, <1>18, <1>19 DEF IInv, Typed

LEMMA Reload_Step == ASSUME IInv, NEW c \in Clients, Reload(c) PROVE IInv'
<1> USE DEF runVars, rowVars, taskVars
<1>1. /\ reader[c] # "reading" /\ reloads' = reloads + 1 /\ reloads < MaxReloads
      /\ reader' = [reader EXCEPT ![c] = "away"]
      /\ tracking' = [tracking EXCEPT ![c] = FALSE]
      /\ shown' = [shown EXCEPT ![c] = 0]
      /\ cursor' = cursor \/ cursor' = [cursor EXCEPT ![c] = 0]
      /\ UNCHANGED <<runVars, up, subscribers, queue, expected, restarts>>
  BY DEF Reload
<1>2. queue[c] = <<>> /\ c \notin subscribers /\ Len(queue[c]) = 0
  BY <1>1, EmptySeq DEF IInv, Readers
<1>3. 0 \in 0..MaxSequence /\ reloads' \in 0..MaxReloads
  BY <1>1, CountsAssumption DEF IInv, Typed, Run
<1>4. /\ Pages' /\ ~tracking'[c] /\ shown'[c] = 0 /\ cursor'[c] \in {0, cursor[c]}
      /\ \A d \in Clients \ {c} : /\ tracking'[d] = tracking[d] /\ shown'[d] = shown[d]
                                  /\ cursor'[d] = cursor[d]
  BY <1>1, <1>3 DEF IInv, Typed, Pages
<1>12. /\ reader' \in [Clients -> {"away", "reading", "ended"}] /\ reader'[c] = "away"
       /\ \A d \in Clients \ {c} : reader'[d] = reader[d]
  BY <1>1 DEF IInv, Typed, Queues
<1>5. Flags' /\ Run' /\ Queues' /\ Outcome' /\ Buffered' /\ Readers'
  BY <1>1, <1>2, <1>3, <1>12 DEF IInv, Typed, Flags, Run, Queues, Outcome, Buffered, Readers
<1>6. Seen'
  <2>1. last \in Nat
    BY CountsAssumption DEF IInv, Typed, Run
  <2> QED
    BY <1>1, <1>4, <2>1 DEF IInv, Seen
<1>7. Linked' /\ Newest' /\ Gapless'
  BY <1>1 DEF IInv, Linked, Newest, Gapless
<1>8. \A d \in Clients : \A i \in 1..Len(queue[d]) : d # c
  BY <1>2
<1>9. Queued'
  BY <1>1, <1>4, <1>8 DEF IInv, Queued
<1>10. Ends'
  BY <1>1, <1>4, <1>8 DEF IInv, Ends, Settled
<1>11. EndIsTrue'
  BY <1>1, <1>4, <1>12 DEF IInv, EndIsTrue
<1> QED
  BY <1>4, <1>5, <1>6, <1>7, <1>9, <1>10, <1>11 DEF IInv, Typed

LEMMA Crash_Step == IInv /\ Crash => IInv'
<1> SUFFICES ASSUME IInv, Crash PROVE IInv'
  OBVIOUS
<1> USE DEF rowVars, pageVars
<1>1. /\ restarts < MaxRestarts /\ restarts' = restarts + 1
      /\ up' = FALSE /\ run' = "none" /\ events' = <<>> /\ working' = FALSE
      /\ stopping' = FALSE /\ approving' = FALSE
      /\ subscribers' = {}
      /\ queue' = [d \in Clients |-> <<>>]
      /\ reader' = [d \in Clients |-> IF reader[d] = "reading" THEN "away" ELSE reader[d]]
      /\ UNCHANGED <<rowVars, last, final, pageVars, reloads>>
  BY DEF Crash
<1>2. restarts' \in 1..MaxRestarts /\ restarts' # 0
  BY <1>1, CountsAssumption DEF IInv, Typed, Run
<1>3. \A d \in Clients : queue'[d] = <<>> /\ Len(queue'[d]) = 0
  BY <1>1, EmptySeq
<1>4. Queues'
  <2>1. queue' \in [Clients -> Seq(Items)]
    BY <1>1, EmptySeq
  <2>2. reader' \in [Clients -> {"away", "reading", "ended"}]
    BY <1>1 DEF IInv, Typed, Queues
  <2> QED
    BY <1>1, <1>3, <2>1, <2>2, SizesAssumption DEF Queues
<1>5. Len(events') = 0 /\ events' \in Seq(1..MaxSequence)
  BY <1>1, EmptySeq
<1>6. Run' /\ Flags' /\ Pages'
  <2>1. Len(events') <= MaxEvents /\ restarts' \in 0..MaxRestarts
    BY <1>1, <1>2, <1>5, SizesAssumption, CountsAssumption
  <2>2. Run'
    BY <1>1, <1>5, <2>1 DEF IInv, Typed, Run
  <2> QED
    BY <1>1, <2>2 DEF IInv, Typed, Flags, Pages
<1>7. Buffered'
  <2>1. last \in Nat
    BY CountsAssumption DEF IInv, Typed, Run
  <2> QED
    BY <1>1, <1>2, <1>5, <2>1 DEF Buffered
<1>8. Readers' /\ EndIsTrue' /\ Outcome'
  BY <1>1, <1>3 DEF IInv, Readers, EndIsTrue, Outcome
<1>9. Seen'
  BY <1>1 DEF IInv, Seen
<1>10. Linked'
  BY <1>3, EmptyLinked DEF Linked
<1>11. Newest' /\ Gapless'
  BY <1>1, <1>2 DEF Newest, Gapless
<1>12. Queued' /\ Ends'
  BY <1>3 DEF Queued, Ends
<1> QED
  BY <1>4, <1>6, <1>7, <1>8, <1>9, <1>10, <1>11, <1>12 DEF IInv, Typed

(* Nothing that a queue holds, or that a page has seen, changes. *)
LEMMA Aside_Step ==
  ASSUME IInv, Flags', Outcome', run' \in {"none", "listed", "detached", "over"},
         status' \in Statuses, recorded' \in Statuses, Settled => Settled',
         UNCHANGED <<last, final, events, queueVars, pageVars, boundVars>>
  PROVE  IInv'
<1> USE DEF queueVars, pageVars, boundVars
<1>1. Run' /\ Queues' /\ Pages'
  BY DEF IInv, Typed, Run, Queues, Pages
<1>2. Buffered' /\ Readers' /\ Seen' /\ EndIsTrue'
  BY DEF IInv, Buffered, Readers, Seen, EndIsTrue, Settled
<1>3. Queued' /\ Linked' /\ Newest'
  BY DEF IInv, Queued, Linked, Newest
<1>4. Gapless' /\ Ends'
  BY DEF IInv, Gapless, Ends
<1> QED
  BY <1>1, <1>2, <1>3, <1>4 DEF IInv, Typed

LEMMA Stop_Step == IInv /\ Stop => IInv'
<1> SUFFICES ASSUME IInv, Stop PROVE IInv'
  OBVIOUS
<1> USE DEF rowVars
<1>1. Flags' /\ Outcome' /\ (Settled => Settled')
  BY DEF IInv, Typed, Flags, Outcome, Settled, Stop
<1> QED
  BY <1>1, Aside_Step DEF IInv, Typed, Run, Stop

LEMMA Approve_Step == IInv /\ Approve => IInv'
<1> SUFFICES ASSUME IInv, Approve PROVE IInv'
  OBVIOUS
<1> USE DEF rowVars
<1>1. Flags' /\ Outcome' /\ (Settled => Settled')
  BY DEF IInv, Typed, Flags, Outcome, Settled, Approve
<1> QED
  BY <1>1, Aside_Step DEF IInv, Typed, Run, Approve

LEMMA CallFails_Step == IInv /\ CallFails => IInv'
<1> SUFFICES ASSUME IInv, CallFails PROVE IInv'
  OBVIOUS
<1> USE DEF rowVars
<1>1. Flags' /\ Outcome' /\ (Settled => Settled')
  BY DEF IInv, Typed, Flags, Outcome, Settled, CallFails
<1> QED
  BY <1>1, Aside_Step DEF IInv, Typed, Run, CallFails

LEMMA TaskEnds_Step == IInv /\ TaskEnds => IInv'
<1> SUFFICES ASSUME IInv, TaskEnds PROVE IInv'
  OBVIOUS
<1> USE DEF rowVars
<1>1. Flags' /\ Outcome' /\ (Settled => Settled')
  BY DEF IInv, Typed, Flags, Outcome, Settled, TaskEnds
<1> QED
  BY <1>1, Aside_Step DEF IInv, Typed, Run, TaskEnds

LEMMA Acknowledge_Step == IInv /\ Acknowledge => IInv'
<1> SUFFICES ASSUME IInv, Acknowledge PROVE IInv'
  OBVIOUS
<1>1. Flags' /\ Outcome' /\ (Settled => Settled')
  BY DEF IInv, Typed, Flags, Outcome, Settled, Acknowledge
<1>2. status' \in Statuses /\ run' \in {"none", "listed", "detached", "over"}
  BY Kept DEF IInv, Typed, Run, Acknowledge
<1> QED
  BY <1>1, <1>2, Aside_Step DEF IInv, Typed, Run, Acknowledge

LEMMA Recover_Step == IInv /\ Recover => IInv'
<1> SUFFICES ASSUME IInv, Recover PROVE IInv'
  OBVIOUS
<1>1. /\ up' = TRUE
      /\ \/ status = "open" /\ run' = "listed" /\ working' = TRUE /\ recorded' = status
         \/ UNCHANGED <<run, working, recorded>>
      /\ UNCHANGED <<status, reopened, last, final, events, stopping, approving>>
      /\ UNCHANGED <<queueVars, pageVars, boundVars>>
  BY DEF Recover
<1>2. Flags' /\ Outcome' /\ (Settled => Settled')
  <2>1. status = "open" => final = 0
    BY DEF IInv, Outcome
  <2>2. Flags' /\ (Settled => Settled')
    BY <1>1 DEF IInv, Typed, Flags, Settled
  <2>5. final' = final /\ last' = last /\ status' = status /\ final <= last
    BY <1>1 DEF IInv, Outcome
  <2>3. CASE status = "open" /\ run' = "listed" /\ working' = TRUE /\ recorded' = status
    <3>1. final' = 0 /\ final' <= last' /\ status' = "open" /\ recorded' = "open"
      BY <2>1, <2>3, <2>5
    <3> QED
      BY <2>2, <3>1 DEF Outcome
  <2>4. CASE UNCHANGED <<run, working, recorded>>
    <3>1. Outcome
      BY DEF IInv
    <3> QED
      BY <2>2, <2>4, <2>5, <3>1 DEF Outcome
  <2> QED
    BY <1>1, <2>2, <2>3, <2>4
<1>3. status' \in Statuses /\ recorded' \in Statuses
      /\ run' \in {"none", "listed", "detached", "over"}
  BY <1>1 DEF IInv, Typed, Run
<1> QED
  BY <1>1, <1>2, <1>3, Aside_Step

LEMMA ApproveReturns_Step == IInv /\ ApproveReturns => IInv'
<1> SUFFICES ASSUME IInv, ApproveReturns PROVE IInv'
  OBVIOUS
<1>1. approving' = FALSE /\ UNCHANGED <<working, stopping>>
  BY DEF ApproveReturns
<1>2. CASE recorded = "terminal"
  <2>1. UNCHANGED <<rowVars, last, final, run, events, up, queueVars, pageVars, boundVars>>
    BY <1>2 DEF ApproveReturns
  <2>2. Flags'
    BY <1>1, <2>1 DEF IInv, Typed, Flags, rowVars
  <2>3. Outcome' /\ (Settled => Settled') /\ status' \in Statuses /\ recorded' \in Statuses
    BY <1>1, <2>1 DEF IInv, Typed, Run, Outcome, Settled, rowVars
  <2>4. run' \in {"none", "listed", "detached", "over"}
    BY <2>1 DEF IInv, Typed, Run
  <2> QED
    BY <2>1, <2>2, <2>3, <2>4, Aside_Step
<1>3. CASE recorded # "terminal"
  <2>1. EmitAs("open") /\ reopened' = (reopened \/ status = "terminal") /\ UNCHANGED up
    BY <1>3 DEF ApproveReturns, EmitAs
  <2>2. Flags'
    BY <1>1, <2>1 DEF IInv, Typed, Flags
  <2>3. StatusAfter("open") = "open"
    BY <1>3 DEF StatusAfter
  <2> QED
    BY <1>1, <2>1, <2>2, <2>3, Kept, Emission_Step
<1> QED
  BY <1>2, <1>3

-----------------------------------------------------------------------------
(* The invariant *)

LEMMA InitIInv == Init => IInv
<1> SUFFICES ASSUME Init PROVE IInv
  OBVIOUS
<1>1. /\ status = "open" /\ recorded = "open" /\ reopened = FALSE
      /\ last = 0 /\ final = 0 /\ up = TRUE /\ run = "none" /\ working = FALSE
      /\ events = <<>> /\ stopping = FALSE /\ approving = FALSE /\ subscribers = {}
      /\ queue = [c \in Clients |-> <<>>] /\ reader = [c \in Clients |-> "away"]
      /\ cursor = [c \in Clients |-> 0] /\ tracking = [c \in Clients |-> FALSE]
      /\ shown = [c \in Clients |-> 0] /\ expected = [c \in Clients |-> 0]
      /\ restarts = 0 /\ reloads = 0
  BY DEF Init
<1>2. /\ 0 \in 0..MaxSequence /\ 0 \in 0..MaxSequence + 1 /\ 0 \in 0..MaxRestarts
      /\ 0 \in 0..MaxReloads /\ 0 <= MaxEvents /\ 0 <= QueueSize
  BY SizesAssumption, CountsAssumption
<1>3. \A c \in Clients : queue[c] = <<>> /\ Len(queue[c]) = 0
  BY <1>1, EmptySeq
<1>4. Len(events) = 0 /\ events \in Seq(1..MaxSequence)
  BY <1>1, EmptySeq
<1>5. Flags /\ Run /\ Outcome
  <2>1. Flags
    BY <1>1 DEF Flags
  <2>2. Run
    BY <1>1, <1>2, <1>4 DEF Run, Statuses
  <2> QED
    BY <1>1, <2>1, <2>2 DEF Outcome
<1>6. Queues
  <2>1. queue \in [Clients -> Seq(Items)]
    BY <1>1, EmptySeq
  <2> QED
    BY <1>1, <1>2, <1>3, <2>1 DEF Queues
<1>7. Pages
  BY <1>1, <1>2 DEF Pages
<1>8. Buffered /\ Seen
  BY <1>1, <1>4 DEF Buffered, Seen
<1>9. Readers /\ EndIsTrue
  BY <1>1, <1>3 DEF Readers, EndIsTrue
<1>10. Linked
  BY <1>3, EmptyLinked DEF Linked
<1>11. Queued /\ Ends
  BY <1>3 DEF Queued, Ends
<1>12. Newest /\ Gapless
  BY <1>1, <1>3 DEF Newest, Gapless
<1> QED
  BY <1>5, <1>6, <1>7, <1>8, <1>9, <1>10, <1>11, <1>12 DEF IInv, Typed

LEMMA Stutter == IInv /\ UNCHANGED vars => IInv'
<1> SUFFICES ASSUME IInv, UNCHANGED vars PROVE IInv'
  OBVIOUS
<1>1. /\ UNCHANGED <<status, recorded, reopened, last, final, events, up>>
      /\ UNCHANGED <<run, working, stopping, approving>>
      /\ UNCHANGED <<queueVars, pageVars, boundVars>>
  BY DEF vars, runVars, rowVars, taskVars
<1>2. /\ Flags' /\ Outcome' /\ (Settled => Settled')
      /\ status' \in Statuses /\ recorded' \in Statuses
      /\ run' \in {"none", "listed", "detached", "over"}
  BY <1>1 DEF IInv, Typed, Flags, Run, Outcome, Settled
<1> QED
  BY <1>1, <1>2, Aside_Step

LEMMA Step == IInv /\ [Next]_vars => IInv'
<1> SUFFICES ASSUME IInv, [Next]_vars PROVE IInv'
  OBVIOUS
<1>1. ASSUME NEW c \in Clients, Deliver(c)
      PROVE  IInv'
  BY <1>1, DeliverEvent_Step, DeliverSnapshot_Step, DeliverNone_Step DEF Deliver
<1> QED
  BY <1>1, Emit_Step, EmitTerminal_Step, GiveUp_Step, TaskEnds_Step, Stop_Step,
    StopReturns_Step, Approve_Step, ApproveReturns_Step, CallFails_Step, Acknowledge_Step,
    Crash_Step, Recover_Step, Begin_Step, Connect_Step, Disconnect_Step,
    Reload_Step, Stutter DEF Next

-----------------------------------------------------------------------------
(* Theorems *)

(* The invariant holds in every reachable state. *)
THEOREM Fanout == Spec => []IInv
BY InitIInv, Step, PTL DEF Spec

(* No queue exceeds its size: subscribe() raises no QueueFull, whatever it *)
(* replays to a page.                                                      *)
THEOREM FanoutTyped == Spec => []TypeOK
<1>1. IInv => TypeOK
  BY DEF IInv, Typed, Flags, Run, Queues, Pages, TypeOK
<1> QED
  BY <1>1, Fanout, PTL

(* A subscriber's queue holds the newest events of the run, one after the  *)
(* other, however often others overflowed, left or came back.              *)
THEOREM QueuesAreCurrent == Spec => []QueueIsCurrent
<1>1. IInv => QueueIsCurrent
  <2> SUFFICES ASSUME IInv, NEW c \in subscribers, NEW i \in Waiting(c)
               PROVE  LET n     == queue[c][i].sequence
                          later == {j \in Waiting(c) : j > i}
                      IN  IF later = {} THEN n = last
                          ELSE \E j \in later : /\ queue[c][j].sequence = n + 1
                                                /\ \A k \in later : j <= k
    BY DEF QueueIsCurrent
  <2> DEFINE q == queue[c]
             m == Len(q)
             later == {j \in Waiting(c) : j > i}
  <2>1. c \in Clients
    BY DEF IInv, Typed, Queues
  <2>2. /\ m \in Nat
        /\ \A j \in 1..m : q[j].kind \in {"event", "snapshot", "none"}
    BY <2>1, Kinds DEF IInv, Typed
  <2>3. i \in 1..m /\ q[i].kind = "event"
    BY DEF Waiting
  <2>4. OneEnd(q) /\ Chained(q)
    BY <2>1 DEF IInv, Linked
  <2>5. /\ q[m].kind # "snapshot"
        /\ q[m].kind = "event" => q[m].sequence = last
        /\ q[m].kind = "none" /\ m > 1 => q[m - 1] = Event(last)
    <3>1. q # <<>>
      BY <2>1, <2>2, <2>3, EmptySeq
    <3> QED
      BY <3>1 DEF IInv, Newest
  <2>6. \A j \in 1..m : q[j].kind = "snapshot" => j = 1
    BY <2>1 DEF IInv, Queued
  <2>7. \A j : j \in later <=> j \in 1..m /\ q[j].kind = "event" /\ j > i
    BY DEF Waiting
  <2>8. Event(last).sequence = last
    BY DEF Event
  <2> HIDE DEF q, m, later
  <2>9. CASE i = m
    <3>1. later = {}
      BY <2>2, <2>7, <2>9
    <3> QED
      BY <2>3, <2>5, <2>9, <3>1 DEF q, later
  <2>10. CASE i + 1 <= m /\ q[i + 1].kind = "event"
    <3>1. i + 1 \in later /\ \A k \in later : i + 1 <= k
      BY <2>2, <2>3, <2>7, <2>10
    <3>2. q[i + 1].sequence = q[i].sequence + 1
      BY <2>3, <2>4, <2>10 DEF Chained, m
    <3> QED
      BY <3>1, <3>2 DEF q, later
  <2>11. CASE i + 1 <= m /\ q[i + 1].kind # "event"
    <3>1. i + 1 \in 1..m /\ q[i + 1].kind = "none"
      BY <2>2, <2>3, <2>6, <2>11
    <3>2. CASE i + 1 = m
      <4>1. m > 1 /\ m - 1 = i
        BY <2>2, <2>3, <3>2
      <4>2. later = {}
        BY <2>2, <2>3, <2>7, <2>11, <3>2
      <4> QED
        BY <2>5, <2>8, <3>1, <3>2, <4>1, <4>2 DEF q, later
    <3>3. CASE i + 2 <= m
      <4>1. i + 2 \in 1..m /\ q[i + 2].kind = "event"
        <5>1. i + 2 \in 1..m /\ i + 2 # 1 /\ i + 2 # i + 1
          BY <2>2, <2>3, <3>3
        <5>2. q[i + 2].kind # "none"
          BY <2>4, <3>1, <5>1 DEF OneEnd, m
        <5> QED
          BY <2>2, <2>6, <5>1, <5>2
      <4>2. i + 2 \in later /\ \A k \in later : i + 2 <= k
        BY <2>2, <2>3, <2>7, <2>11, <4>1
      <4>3. q[i + 2].sequence = q[i].sequence + 1
        BY <2>3, <2>4, <2>11, <3>3, <4>1 DEF Chained, m
      <4> QED
        BY <4>2, <4>3 DEF q, later
    <3> QED
      BY <2>2, <2>3, <2>11, <3>2, <3>3
  <2>12. i = m \/ i + 1 <= m
    BY <2>2, <2>3
  <2> QED
    BY <2>9, <2>10, <2>11, <2>12
<1> QED
  BY <1>1, Fanout, PTL

(* A page that was told its stream is over was shown the terminal event,   *)
(* or told the state of the run; and the row has ended, unless an approval *)
(* in flight reopened a run that had been closed by acknowledgement.       *)
THEOREM EndsAreTrue == Spec => []EndIsTrue
<1>1. IInv => EndIsTrue
  BY DEF IInv
<1> QED
  BY <1>1, Fanout, PTL

(* The row of a run that ended with a terminal event stays terminal,       *)
(* whichever stop(), approve() or acknowledgement comes or returns later,  *)
(* and across any number of restarts.                                      *)
THEOREM OutcomesStand == Spec => []OutcomeStands
<1>1. IInv => OutcomeStands
  BY DEF IInv, Outcome, OutcomeStands
<1> QED
  BY <1>1, Fanout, PTL

(* What is ahead of a queue. *)
LEMMA Shown ==
  ASSUME IInv, NEW c \in Clients, NEW n \in 1..MaxSequence, Shows(c, n)
  PROVE  1 \in 1..Len(queue[c]) /\ queue[c][1].kind = "event" /\ queue[c][1].sequence = n
BY EmptySeq DEF IInv, Typed, Queues, Shows, Event

(* A page that follows the run is shown each event once and in order, over *)
(* any number of connections and restarts.                                 *)
THEOREM ShownOnce == Spec => ShownOnceInOrder
<1>1. IInv => \A c \in Clients : \A n \in 1..MaxSequence :
                Shows(c, n) /\ tracking[c] => n > shown[c]
  <2> SUFFICES ASSUME IInv, NEW c \in Clients, NEW n \in 1..MaxSequence,
                      Shows(c, n), tracking[c]
               PROVE  n > shown[c]
    OBVIOUS
  <2> QED
    BY Shown DEF IInv, Queued
<1> QED
  BY <1>1, Fanout, PTL DEF ShownOnceInOrder

(* Without a restart, a hole in what a page is shown is announced. *)
THEOREM GapsAreAnnounced == Spec => NoSilentGap
<1>1. IInv => \A c \in Clients : \A n \in 1..MaxSequence :
                Shows(c, n) /\ restarts = 0 => expected[c] \in {0, n}
  <2> SUFFICES ASSUME IInv, NEW c \in Clients, NEW n \in 1..MaxSequence,
                      Shows(c, n), restarts = 0
               PROVE  expected[c] \in {0, n}
    OBVIOUS
  <2>1. queue[c] # <<>>
    BY DEF Shows
  <2> QED
    BY <2>1, Shown DEF IInv, Gapless
<1> QED
  BY <1>1, Fanout, PTL DEF NoSilentGap
=============================================================================
