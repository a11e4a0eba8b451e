------------------------- MODULE EventQueue_proofs -------------------------
(***************************************************************************)
(* Where an event can be lost and why none is doubled, for any number of   *)
(* events, lost answers, restarts and failed writes.  Both rest on what    *)
(* the batch is: before the file is removed a copy of its first lines,     *)
(* after that the only place its lines are.  So the lines os.remove loses  *)
(* are those appended since the read, and an event that is not removed is  *)
(* never held in two places.                                               *)
(***************************************************************************)
EXTENDS EventQueue, TLAPS

\* Everything the device holds was reported.
HeldWasReported ==
  /\ Range(file) \cup Range(batch) \subseteq produced \cup {Torn}
  /\ \A t \in Threads : hand[t] \in produced \cup {Nobody}

\* The batch is used up when the flusher sleeps, and before the file is
\* removed it is a copy of the file's first lines.
BatchIsOfFile ==
  /\ pc["flusher"] = "idle" => batch = <<>>
  /\ pc["flusher"] = "remove" =>
       /\ Len(batch) <= Len(file)
       /\ \A i \in 1..Len(batch) : batch[i] = file[i]

Distinct(lines) ==
  \A i, j \in 1..Len(lines) : lines[i] = lines[j] /\ i # j => lines[i] = Torn

\* No event is in two places.
OneCopy ==
  /\ Distinct(file) /\ Distinct(Taken)
  /\ Range(file) \cap Range(Taken) \subseteq {Torn}
  /\ \A t \in Threads :
       hand[t] # Nobody => hand[t] \notin Range(file) \cup Range(Taken)
  /\ hand["worker"] = hand["flusher"] => hand["worker"] = Nobody

\* An event whose post was answered is nowhere on the device.
AnsweredIsGone ==
  \A e \in Events :
    received[e] > unanswered[e] => e \in produced /\ ~OnDevice(e)

IInv ==
  /\ TypeOK /\ HeldWasReported /\ BatchIsOfFile
  /\ OneCopy /\ AnsweredIsGone /\ LostOnlyByRace /\ RepeatedOnlyUnanswered

-----------------------------------------------------------------------------
(* Lines.                                                                  *)

LEMMA Elements ==
  ASSUME NEW s \in Seq(Lines)
  PROVE  /\ Range(s) = {s[i] : i \in 1..Len(s)}
         /\ Range(s) \subseteq Lines
BY DEF Range

LEMMA EmptyLines ==
  /\ <<>> \in Seq(Lines) /\ Range(<<>>) = {} /\ Distinct(<<>>)
  /\ Len(<<>>) = 0
BY DEF Range, Distinct

LEMMA LastLine ==
  ASSUME NEW s \in Seq(Lines), s # <<>>
  PROVE  Last(s) = s[Len(s)] /\ Last(s) \in Range(s)
<1>1. Len(s) \in 1..Len(s)
  OBVIOUS
<1> QED
  BY <1>1, Elements DEF Last

\* What _queue_event does to the file: its lines stay, and unless the last one
\* is torn there is one more.
LEMMA Appended ==
  ASSUME NEW s \in Seq(Lines), NEW line \in Lines
  PROVE  /\ AppendLine(s, line) \in Seq(Lines)
         /\ Len(s) <= Len(AppendLine(s, line))
         /\ \A i \in 1..Len(s) : AppendLine(s, line)[i] = s[i]
         /\ Range(s) \subseteq Range(AppendLine(s, line))
         /\ Range(AppendLine(s, line)) \subseteq Range(s) \cup {line}
         /\ Torn \notin Range(s) => line \in Range(AppendLine(s, line))
         /\ Distinct(s) /\ (line \in Range(s) => line = Torn)
              => Distinct(AppendLine(s, line))
<1>1. CASE s # <<>> /\ Last(s) = Torn
  BY <1>1, LastLine DEF AppendLine
<1>2. CASE ~(s # <<>> /\ Last(s) = Torn)
  <2> DEFINE a == Append(s, line)
  <2>1. AppendLine(s, line) = a
    BY <1>2 DEF AppendLine
  <2>2. /\ a \in Seq(Lines) /\ Len(a) = Len(s) + 1
        /\ \A i \in 1..Len(s) : a[i] = s[i]
        /\ a[Len(s) + 1] = line
    OBVIOUS
  <2> HIDE DEF a
  <2>3. Range(a) = Range(s) \cup {line}
    <3>1. 1..Len(a) = (1..Len(s)) \cup {Len(s) + 1}
      BY <2>2
    <3> QED
      BY <2>2, <3>1, Elements
  <2>4. ASSUME Distinct(s), line \in Range(s) => line = Torn
        PROVE  Distinct(a)
    <3> SUFFICES ASSUME NEW i \in 1..Len(a), NEW j \in 1..Len(a),
                        a[i] = a[j], i # j
                 PROVE  a[i] = Torn
      BY DEF Distinct
    <3>1. CASE i \in 1..Len(s) /\ j \in 1..Len(s)
      BY <2>2, <2>4, <3>1 DEF Distinct
    <3>2. CASE i = Len(s) + 1 /\ j \in 1..Len(s)
      BY <2>2, <2>4, <3>2, Elements
    <3>3. CASE j = Len(s) + 1 /\ i \in 1..Len(s)
      BY <2>2, <2>4, <3>3, Elements
    <3> QED
      BY <2>2, <3>1, <3>2, <3>3
  <2> QED
    BY <2>1, <2>2, <2>3, <2>4
<1> QED
  BY <1>1, <1>2

\* The line taken and those left behind it.
LEMMA HeadAndTail ==
  ASSUME NEW s \in Seq(Lines), s # <<>>
  PROVE  /\ Tail(s) \in Seq(Lines)
         /\ Head(s) \in Lines
         /\ Range(s) = {Head(s)} \cup Range(Tail(s))
         /\ Distinct(s) => /\ Distinct(Tail(s))
                           /\ Head(s) \in Range(Tail(s)) => Head(s) = Torn
<1> DEFINE r == Tail(s)
<1>1. /\ r \in Seq(Lines) /\ Len(s) = Len(r) + 1 /\ Head(s) = s[1]
      /\ \A i \in 1..Len(r) : r[i] = s[i + 1] /\ i + 1 \in 1..Len(s)
  OBVIOUS
<1>2. 1 \in 1..Len(s) /\ s[1] \in Lines
  OBVIOUS
<1> HIDE DEF r
<1>3. Range(s) = {Head(s)} \cup Range(r)
  <2>1. ASSUME NEW i \in 1..Len(s), i # 1
        PROVE  s[i] \in Range(r)
    <3>1. i - 1 \in 1..Len(r) /\ (i - 1) + 1 = i
      <4>1. Len(r) \in Nat /\ Len(s) = Len(r) + 1
        BY <1>1
      <4> QED
        BY <2>1, <4>1
    <3>2. r[i - 1] = s[i]
      BY <1>1, <3>1
    <3> QED
      BY <1>1, <3>1, <3>2, Elements
  <2>2. Range(s) \subseteq {Head(s)} \cup Range(r)
    BY <1>1, <2>1, Elements
  <2>3. {Head(s)} \cup Range(r) \subseteq Range(s)
    BY <1>1, <1>2, Elements
  <2> QED
    BY <2>2, <2>3
<1>4. ASSUME Distinct(s)
      PROVE  Distinct(r) /\ (Head(s) \in Range(r) => Head(s) = Torn)
  <2>1. Distinct(r)
    BY <1>1, <1>4 DEF Distinct
  <2>2. ASSUME NEW i \in 1..Len(r), r[i] = Head(s)
        PROVE  Head(s) = Torn
    BY <1>1, <1>2, <1>4, <2>2 DEF Distinct
  <2> QED
    BY <1>1, <2>1, <2>2, Elements
<1> QED
  BY <1>1, <1>2, <1>3, <1>4 DEF r

\* Lines read from the start of a file, and those appended since.
LEMMA ReadAndRest ==
  ASSUME NEW s \in Seq(Lines), NEW r \in Seq(Lines), Len(r) <= Len(s),
         \A i \in 1..Len(r) : r[i] = s[i]
  PROVE  /\ Range(r) \subseteq Range(s)
         /\ Distinct(s) => Distinct(r)
         /\ Range(SubSeq(s, Len(r) + 1, Len(s))) \subseteq Range(s)
         /\ Range(s) \subseteq Range(r) \cup Range(SubSeq(s, Len(r) + 1, Len(s)))
<1>1. 1..Len(r) \subseteq 1..Len(s)
  OBVIOUS
<1> DEFINE q == SubSeq(s, Len(r) + 1, Len(s))
<1>2. /\ q \in Seq(Lines) /\ Len(q) = Len(s) - Len(r)
      /\ \A i \in 1..Len(q) : q[i] = s[Len(r) + i] /\ Len(r) + i \in 1..Len(s)
  OBVIOUS
<1> HIDE DEF q
<1>3. ASSUME NEW i \in 1..Len(s)
      PROVE  s[i] \in Range(r) \cup Range(q)
  <2>1. CASE i <= Len(r)
    BY <2>1, Elements
  <2>2. CASE i > Len(r)
    <3>1. i - Len(r) \in 1..Len(q) /\ q[i - Len(r)] = s[i]
      BY <1>2, <2>2
    <3> QED
      BY <1>2, <3>1, Elements
  <2> QED
    BY <2>1, <2>2
<1>4. Range(r) \subseteq Range(s) /\ (Distinct(s) => Distinct(r))
  BY <1>1, Elements DEF Distinct
<1>5. Range(q) \subseteq Range(s)
  BY <1>2, Elements
<1> QED
  BY <1>3, <1>4, <1>5, Elements DEF q

-----------------------------------------------------------------------------
(* One step of a thread at a time.                                         *)

LEMMA Begins == Init => IInv
BY EventsAssumption, BoundsAssumption, EmptyLines
   DEF Init, IInv, TypeOK, HeldWasReported, BatchIsOfFile, OneCopy,
       AnsweredIsGone, LostOnlyByRace, RepeatedOnlyUnanswered, OnDevice, Taken,
       Threads

LEMMA ProduceStep ==
  ASSUME IInv, NEW e \in Events, Produce(e)
  PROVE  IInv'
<1> USE DEF IInv
<1>1. /\ hand' = [hand EXCEPT !["worker"] = e] /\ hand["worker"] = Nobody
      /\ pc' = [pc EXCEPT !["worker"] = "post"]
      /\ hand'["worker"] = e /\ hand'["flusher"] = hand["flusher"]
      /\ pc'["flusher"] = pc["flusher"]
      /\ produced' = produced \cup {e} /\ e \notin produced
      /\ UNCHANGED <<batch, file, handles, received, unanswered, raced, faults>>
  BY DEF Produce, TypeOK, Threads
<1>2. Taken' = Taken
  BY <1>1 DEF Taken
<1>3. TypeOK'
  BY <1>1, EventsAssumption DEF TypeOK, Threads
<1>4. HeldWasReported' /\ BatchIsOfFile'
  BY <1>1 DEF HeldWasReported, BatchIsOfFile, Threads
<1>5. e \notin Range(file) \cup Range(Taken) /\ e # hand["flusher"]
  BY <1>1, EventsAssumption, EmptyLines DEF HeldWasReported, Taken, Threads
<1>6. OneCopy'
  BY <1>1, <1>2, <1>5 DEF OneCopy, Threads
<1>7. AnsweredIsGone'
  BY <1>1, <1>2, <1>5 DEF AnsweredIsGone, OnDevice, Threads
<1>8. LostOnlyByRace'
  <2>1. \A x \in Events : OnDevice(x) => OnDevice(x)'
    BY <1>1, <1>2, EventsAssumption DEF OnDevice, Threads
  <2>2. OnDevice(e)'
    BY <1>1 DEF OnDevice, Threads
  <2> QED
    BY <1>1, <2>1, <2>2 DEF LostOnlyByRace, TypeOK
<1>9. RepeatedOnlyUnanswered'
  BY <1>1 DEF RepeatedOnlyUnanswered
<1> QED
  BY <1>3, <1>4, <1>6, <1>7, <1>8, <1>9

LEMMA AcceptedStep ==
  ASSUME IInv, NEW t \in Threads, PostAccepted(t)
  PROVE  IInv'
<1> USE DEF IInv
<1>0. PICK e \in Events : hand[t] = e
  BY DEF PostAccepted, TypeOK
<1>1. /\ pc[t] = "post" /\ hand[t] = e /\ e \in produced /\ e # Nobody
      /\ received' = [received EXCEPT ![e] = @ + 1]
      /\ Return(t)
      /\ UNCHANGED <<batch, file, handles, produced, unanswered, raced, faults>>
  BY <1>0, EventsAssumption DEF PostAccepted, TypeOK, HeldWasReported
<1>2. /\ hand' = [hand EXCEPT ![t] = Nobody]
      /\ pc' = [pc EXCEPT ![t] = IF t = "flusher" THEN "lines" ELSE "idle"]
      /\ hand'[t] = Nobody /\ \A u \in Threads \ {t} : hand'[u] = hand[u]
  BY <1>1 DEF Return, TypeOK
<1>3. Taken' = Taken
  BY <1>1, <1>2 DEF Taken, Threads, TypeOK
<1>4. TypeOK'
  BY <1>1, <1>2, EventsAssumption DEF TypeOK, Threads
<1>5. HeldWasReported' /\ BatchIsOfFile'
  BY <1>1, <1>2 DEF HeldWasReported, BatchIsOfFile, Threads, TypeOK
<1>6. OneCopy'
  BY <1>1, <1>2, <1>3 DEF OneCopy, Threads
<1>7. received[e] <= unanswered[e] /\ ~OnDevice(e)'
  <2>1. received[e] <= unanswered[e]
    <3>1. OnDevice(e)
      BY <1>1 DEF OnDevice
    <3> QED
      BY <1>1, <3>1 DEF AnsweredIsGone, TypeOK
  <2>2. \A u \in Threads : hand'[u] # e
    BY <1>1, <1>2 DEF OneCopy, Threads
  <2>3. e \notin (Range(file) \cup Range(Taken))'
    BY <1>1, <1>3 DEF OneCopy
  <2>4. ~OnDevice(e)'
    BY <2>2, <2>3 DEF OnDevice
  <2> QED
    BY <2>1, <2>4
<1>8. AnsweredIsGone'
  <2>1. \A x \in Events : OnDevice(x)' => OnDevice(x)
    BY <1>1, <1>2, <1>3, EventsAssumption DEF OnDevice
  <2>2. \A x \in Events \ {e} : received'[x] = received[x]
    BY <1>1 DEF TypeOK
  <2> QED
    BY <1>1, <1>7, <2>1, <2>2 DEF AnsweredIsGone
<1>9. LostOnlyByRace'
  BY <1>1, <1>2, <1>3 DEF LostOnlyByRace, OnDevice, Threads, TypeOK
<1>10. RepeatedOnlyUnanswered'
  BY <1>1, <1>7 DEF RepeatedOnlyUnanswered, TypeOK
<1> QED
  BY <1>4, <1>5, <1>6, <1>8, <1>9, <1>10

LEMMA FailsStep ==
  ASSUME IInv, NEW t \in Threads, PostFails(t)
  PROVE  IInv'
<1> USE DEF IInv
<1>0. PICK e \in Events : hand[t] = e
  BY DEF PostFails, TypeOK
<1>1. /\ pc[t] = "post" /\ hand[t] = e
      /\ pc' = [pc EXCEPT ![t] = "open"]
      /\ UNCHANGED <<hand, batch, file, handles, produced, raced, faults>>
  BY <1>0 DEF PostFails
<1>2. /\ received' \in [Events -> Nat] /\ unanswered' \in [Events -> Nat]
      /\ \A x \in Events : \E k \in {0, 1} :
           received'[x] = received[x] + k /\ unanswered'[x] = unanswered[x] + k
  <2>1. CASE UNCHANGED <<received, unanswered>>
    BY <2>1 DEF TypeOK
  <2>2. CASE /\ received' = [received EXCEPT ![e] = @ + 1]
             /\ unanswered' = [unanswered EXCEPT ![e] = @ + 1]
    BY <1>1, <2>2 DEF TypeOK
  <2> QED
    BY <1>1, <2>1, <2>2 DEF PostFails
<1>3. Taken' = Taken
  BY <1>1 DEF Taken, Threads, TypeOK
<1>4. TypeOK'
  BY <1>1, <1>2 DEF TypeOK, Threads
<1>5. HeldWasReported' /\ BatchIsOfFile' /\ OneCopy'
  BY <1>1, <1>3 DEF HeldWasReported, BatchIsOfFile, OneCopy, Threads, TypeOK
<1>6. \A x \in Events : OnDevice(x)' <=> OnDevice(x)
  BY <1>1, <1>3 DEF OnDevice
<1>7. ASSUME NEW x \in Events
      PROVE  /\ received'[x] > unanswered'[x] => received[x] > unanswered[x]
             /\ received[x] > 0 => received'[x] > 0
             /\ received[x] <= 1 + unanswered[x] => received'[x] <= 1 + unanswered'[x]
  <2>1. PICK k \in {0, 1} :
           received'[x] = received[x] + k /\ unanswered'[x] = unanswered[x] + k
    BY <1>2
  <2>2. received[x] \in Nat /\ unanswered[x] \in Nat
    BY DEF TypeOK
  <2> QED
    BY <2>1, <2>2
<1>8. AnsweredIsGone' /\ LostOnlyByRace' /\ RepeatedOnlyUnanswered'
  BY <1>1, <1>6, <1>7, <1>4 DEF AnsweredIsGone, LostOnlyByRace, RepeatedOnlyUnanswered,
     TypeOK
<1> QED
  BY <1>4, <1>5, <1>8

LEMMA OpenStep ==
  ASSUME IInv, NEW t \in Threads, QueueOpen(t)
  PROVE  IInv'
<1> USE DEF IInv
<1>1. /\ pc[t] = "open"
      /\ pc' = [pc EXCEPT ![t] = "write"]
      /\ handles' = handles \cup {t}
      /\ UNCHANGED <<hand, batch, file, produced, received, unanswered, raced, faults>>
  BY DEF QueueOpen
<1>2. Taken' = Taken
  BY <1>1 DEF Taken, Threads, TypeOK
<1>3. TypeOK'
  BY <1>1 DEF TypeOK, Threads
<1>4. HeldWasReported' /\ BatchIsOfFile' /\ OneCopy'
  BY <1>1, <1>2 DEF HeldWasReported, BatchIsOfFile, OneCopy, Threads, TypeOK
<1>5. AnsweredIsGone' /\ LostOnlyByRace' /\ RepeatedOnlyUnanswered'
  BY <1>1, <1>2 DEF AnsweredIsGone, LostOnlyByRace, RepeatedOnlyUnanswered, OnDevice
<1> QED
  BY <1>3, <1>4, <1>5

LEMMA WriteStep ==
  ASSUME IInv, NEW t \in Threads, QueueWrite(t)
  PROVE  IInv'
<1> USE DEF IInv
<1>0. PICK e \in Events : hand[t] = e
  BY DEF QueueWrite, TypeOK
<1>1. /\ pc[t] = "write" /\ hand[t] = e
      /\ e \in produced /\ e # Nobody /\ e # Torn
      /\ handles' = handles \ {t}
      /\ UNCHANGED <<batch, produced, received, unanswered, faults>>
  BY <1>0, EventsAssumption DEF QueueWrite, HeldWasReported
<1>2. /\ hand' = [hand EXCEPT ![t] = Nobody]
      /\ pc' = [pc EXCEPT ![t] = IF t = "flusher" THEN "lines" ELSE "idle"]
      /\ hand'[t] = Nobody /\ \A u \in Threads \ {t} : hand'[u] = hand[u]
  BY DEF QueueWrite, Return, TypeOK
<1>3. Taken' = Taken
  BY <1>1, <1>2 DEF Taken, Threads, TypeOK
<1>4. /\ file \in Seq(Lines) /\ e \in Lines
      /\ Distinct(file) /\ e \notin Range(file) \cup Range(Taken)
      /\ \A u \in Threads \ {t} : hand[u] # e
  BY <1>1 DEF TypeOK, Lines, OneCopy, Threads
<1>5. /\ file' \in Seq(Lines) /\ Distinct(file')
      /\ Len(file) <= Len(file') /\ \A i \in 1..Len(file) : file'[i] = file[i]
      /\ Range(file) \subseteq Range(file')
      /\ Range(file') \subseteq Range(file) \cup {e}
      /\ raced \subseteq raced' /\ raced' \subseteq raced \cup {e}
      /\ faults = 0 => e \in Range(file') \cup raced'
  <2>1. CASE t \in handles
    <3>1. file' = AppendLine(file, e) /\ raced' = raced
      BY <1>1, <2>1 DEF QueueWrite
    <3>2. faults = 0 => Torn \notin Range(file)
      BY DEF TypeOK
    <3> QED
      BY <1>4, <3>1, <3>2, Appended
  <2>2. CASE t \notin handles
    BY <1>1, <1>4, <2>2 DEF QueueWrite
  <2> QED
    BY <2>1, <2>2
<1>6. TypeOK'
  BY <1>1, <1>2, <1>5 DEF TypeOK, Threads
<1>7. HeldWasReported' /\ BatchIsOfFile'
  <2>1. HeldWasReported'
    BY <1>1, <1>2, <1>5 DEF HeldWasReported, Threads
  <2>2. pc'["flusher"] = "remove" => pc["flusher"] = "remove"
    BY <1>2 DEF TypeOK, Threads
  <2>3. pc'["flusher"] = "idle" => pc["flusher"] = "idle"
    BY <1>2 DEF TypeOK, Threads
  <2>4. Len(batch) \in Nat /\ Len(file) \in Nat /\ Len(file') \in Nat
    BY <1>5 DEF TypeOK
  <2> QED
    BY <1>1, <1>5, <2>1, <2>2, <2>3, <2>4 DEF BatchIsOfFile
<1>8. OneCopy'
  BY <1>1, <1>2, <1>3, <1>4, <1>5 DEF OneCopy, Threads
<1>9. AnsweredIsGone'
  <2>1. \A x \in Events : OnDevice(x)' => OnDevice(x)
    BY <1>1, <1>2, <1>3, <1>5, EventsAssumption DEF OnDevice
  <2> QED
    BY <1>1, <2>1 DEF AnsweredIsGone
<1>10. LostOnlyByRace'
  <2>1. ASSUME NEW x \in Events, OnDevice(x), faults = 0
        PROVE  OnDevice(x)' \/ x \in raced'
    BY <1>1, <1>2, <1>3, <1>5, <2>1 DEF OnDevice
  <2> QED
    BY <1>1, <1>5, <2>1 DEF LostOnlyByRace, TypeOK
<1>11. RepeatedOnlyUnanswered'
  BY <1>1 DEF RepeatedOnlyUnanswered
<1> QED
  BY <1>6, <1>7, <1>8, <1>9, <1>10, <1>11

LEMMA QueueFailsStep ==
  ASSUME IInv, NEW t \in Threads, QueueFails(t)
  PROVE  IInv'
<1> USE DEF IInv
<1>1. /\ pc[t] \in {"open", "write"}
      /\ faults < MaxFaults /\ faults' = faults + 1
      /\ handles' = handles \ {t}
      /\ pc' = [pc EXCEPT ![t] = "idle"]
      /\ hand' = [hand EXCEPT ![t] = Nobody]
      /\ hand'[t] = Nobody /\ \A u \in Threads \ {t} : hand'[u] = hand[u]
      /\ batch' = IF t = "flusher" THEN <<>> ELSE batch
      /\ UNCHANGED <<produced, received, unanswered, raced>>
  BY DEF QueueFails, TypeOK
<1>2. /\ file' \in Seq(Lines) /\ Distinct(file')
      /\ Len(file) <= Len(file') /\ \A i \in 1..Len(file) : file'[i] = file[i]
      /\ Range(file') \subseteq Range(file) \cup {Torn}
  <2>1. file \in Seq(Lines) /\ Torn \in Lines /\ Distinct(file)
    BY DEF TypeOK, Lines, OneCopy
  <2>2. CASE UNCHANGED file
    BY <2>1, <2>2
  <2>3. CASE file' = AppendLine(file, Torn)
    BY <2>1, <2>3, Appended
  <2> QED
    BY <2>2, <2>3 DEF QueueFails
<1>3. /\ batch' \in Seq(Lines) /\ Range(batch') \subseteq Range(batch)
      /\ Range(Taken') \subseteq Range(Taken) /\ Distinct(Taken')
  <2>1. CASE t = "flusher"
    BY <1>1, <2>1, EmptyLines DEF Taken, OneCopy, TypeOK, Threads
  <2>2. CASE t # "flusher"
    BY <1>1, <2>2 DEF Taken, OneCopy, TypeOK, Threads
  <2> QED
    BY <2>1, <2>2
<1>4. TypeOK' /\ faults' # 0
  BY <1>1, <1>2, <1>3, BoundsAssumption DEF TypeOK, Threads
<1>5. HeldWasReported' /\ BatchIsOfFile'
  <2>1. HeldWasReported'
    BY <1>1, <1>2, <1>3 DEF HeldWasReported, Threads
  <2>2. CASE t = "flusher"
    <3>1. pc'["flusher"] = "idle" /\ batch' = <<>>
      BY <1>1, <2>2 DEF TypeOK, Threads
    <3> QED
      BY <2>1, <3>1 DEF BatchIsOfFile
  <2>3. CASE t # "flusher"
    <3>1. pc'["flusher"] = pc["flusher"] /\ batch' = batch
      BY <1>1, <2>3 DEF TypeOK, Threads
    <3>2. Len(batch) \in Nat /\ Len(file) \in Nat /\ Len(file') \in Nat
      BY <1>2 DEF TypeOK
    <3> QED
      BY <1>2, <2>1, <3>1, <3>2 DEF BatchIsOfFile
  <2> QED
    BY <2>1, <2>2, <2>3
<1>6. OneCopy'
  <2>1. Torn \notin Events /\ \A u \in Threads : hand'[u] # Nobody => hand'[u] \in Events
    BY <1>4, EventsAssumption DEF TypeOK
  <2> QED
    BY <1>1, <1>2, <1>3, <2>1 DEF OneCopy, Threads
<1>7. AnsweredIsGone'
  <2>1. \A x \in Events : OnDevice(x)' => OnDevice(x)
    BY <1>1, <1>2, <1>3, EventsAssumption DEF OnDevice
  <2> QED
    BY <1>1, <2>1 DEF AnsweredIsGone
<1>8. LostOnlyByRace' /\ RepeatedOnlyUnanswered'
  BY <1>1, <1>4 DEF LostOnlyByRace, RepeatedOnlyUnanswered
<1> QED
  BY <1>4, <1>5, <1>6, <1>7, <1>8

LEMMA RestartStep ==
  ASSUME IInv, Restart
  PROVE  IInv'
<1> USE DEF IInv
<1>1. /\ faults < MaxFaults /\ faults' = faults + 1
      /\ pc' = [t \in Threads |-> "idle"]
      /\ hand' = [t \in Threads |-> Nobody]
      /\ batch' = <<>> /\ handles' = {}
      /\ UNCHANGED <<file, produced, received, unanswered, raced>>
  BY DEF Restart
<1>2. Taken' = <<>>
  BY <1>1 DEF Taken
<1>3. TypeOK' /\ faults' # 0
  BY <1>1, EmptyLines, BoundsAssumption DEF TypeOK, Threads
<1>4. HeldWasReported' /\ BatchIsOfFile' /\ OneCopy'
  BY <1>1, <1>2, EmptyLines DEF HeldWasReported, BatchIsOfFile, OneCopy, Threads
<1>5. AnsweredIsGone'
  BY <1>1, <1>2, EmptyLines, EventsAssumption DEF AnsweredIsGone, OnDevice
<1>6. LostOnlyByRace' /\ RepeatedOnlyUnanswered'
  BY <1>1, <1>3 DEF LostOnlyByRace, RepeatedOnlyUnanswered
<1> QED
  BY <1>3, <1>4, <1>5, <1>6

LEMMA ReadStep ==
  ASSUME IInv, FlushRead
  PROVE  IInv'
<1> USE DEF IInv
<1>1. /\ pc["flusher"] = "idle" /\ batch' = file /\ batch = <<>>
      /\ pc' = [pc EXCEPT !["flusher"] = "remove"]
      /\ pc'["flusher"] = "remove"
      /\ UNCHANGED <<hand, file, handles, produced, received, unanswered, raced, faults>>
  BY DEF FlushRead, BatchIsOfFile, TypeOK, Threads
<1>2. Taken' = Taken
  BY <1>1 DEF Taken
<1>3. TypeOK'
  BY <1>1 DEF TypeOK, Threads
<1>4. HeldWasReported' /\ OneCopy'
  BY <1>1, <1>2 DEF HeldWasReported, OneCopy
<1>5. BatchIsOfFile'
  <2>1. Len(file) \in Nat
    BY DEF TypeOK
  <2> QED
    BY <1>1, <2>1 DEF BatchIsOfFile
<1>6. AnsweredIsGone' /\ LostOnlyByRace' /\ RepeatedOnlyUnanswered'
  BY <1>1, <1>2 DEF AnsweredIsGone, LostOnlyByRace, RepeatedOnlyUnanswered, OnDevice
<1> QED
  BY <1>3, <1>4, <1>5, <1>6

LEMMA RemoveStep ==
  ASSUME IInv, FlushRemove
  PROVE  IInv'
<1> USE DEF IInv
<1> DEFINE rest == Range(SubSeq(file, Len(batch) + 1, Len(file)))
<1>1. /\ pc["flusher"] = "remove"
      /\ raced' = raced \cup (rest \ {Torn})
      /\ file' = <<>> /\ handles' = {}
      /\ pc' = [pc EXCEPT !["flusher"] = "lines"]
      /\ pc'["flusher"] = "lines"
      /\ UNCHANGED <<hand, batch, produced, received, unanswered, faults>>
  BY DEF FlushRemove, TypeOK, Threads
<1>2. Taken = <<>> /\ Taken' = batch
  BY <1>1 DEF Taken
<1>3. /\ Range(batch) \subseteq Range(file) /\ Distinct(batch)
      /\ rest \subseteq Range(file) /\ Range(file) \subseteq Range(batch) \cup rest
  BY <1>1, ReadAndRest DEF BatchIsOfFile, OneCopy, TypeOK
<1> HIDE DEF rest
<1>4. TypeOK'
  BY <1>1, <1>3, EmptyLines DEF TypeOK, HeldWasReported, Threads
<1>5. HeldWasReported' /\ BatchIsOfFile'
  BY <1>1, EmptyLines DEF HeldWasReported, BatchIsOfFile
<1>6. OneCopy'
  BY <1>1, <1>2, <1>3, EmptyLines DEF OneCopy
<1>7. AnsweredIsGone'
  BY <1>1, <1>2, <1>3, EmptyLines DEF AnsweredIsGone, OnDevice
<1>8. LostOnlyByRace'
  <2>1. ASSUME NEW e \in Events, OnDevice(e)
        PROVE  OnDevice(e)' \/ e \in raced'
    BY <1>1, <1>2, <1>3, <2>1, EmptyLines, EventsAssumption DEF OnDevice
  <2> QED
    BY <1>1, <2>1 DEF LostOnlyByRace, TypeOK
<1>9. RepeatedOnlyUnanswered'
  BY <1>1 DEF RepeatedOnlyUnanswered
<1> QED
  BY <1>4, <1>5, <1>6, <1>7, <1>8, <1>9

LEMMA LineStep ==
  ASSUME IInv, FlushLine
  PROVE  IInv'
<1> USE DEF IInv
<1>1. /\ pc["flusher"] = "lines" /\ hand["flusher"] = Nobody
      /\ UNCHANGED <<file, handles, produced, received, unanswered, raced, faults>>
  BY DEF FlushLine, TypeOK, Threads
<1>2. Taken = batch
  BY <1>1 DEF Taken
<1>3. CASE batch = <<>> \/ Head(batch) = Torn
  <2>1. /\ batch' = <<>> /\ pc' = [pc EXCEPT !["flusher"] = "idle"]
        /\ pc'["flusher"] = "idle" /\ hand' = hand /\ Taken' = <<>>
    BY <1>3 DEF FlushLine, TypeOK, Threads, Taken
  <2>2. faults = 0 => batch = <<>>
    BY <1>3, HeadAndTail DEF TypeOK
  <2>3. TypeOK'
    BY <1>1, <2>1, EmptyLines DEF TypeOK, Threads
  <2>4. HeldWasReported' /\ BatchIsOfFile' /\ OneCopy'
    BY <1>1, <2>1, EmptyLines DEF HeldWasReported, BatchIsOfFile, OneCopy
  <2>5. AnsweredIsGone'
    BY <1>1, <2>1, EmptyLines DEF AnsweredIsGone, OnDevice
  <2>6. LostOnlyByRace' /\ RepeatedOnlyUnanswered'
    BY <1>1, <1>2, <2>1, <2>2 DEF LostOnlyByRace, RepeatedOnlyUnanswered, OnDevice
  <2> QED
    BY <2>3, <2>4, <2>5, <2>6
<1>4. CASE ~(batch = <<>> \/ Head(batch) = Torn)
  <2>1. PICK e \in Events : e = Head(batch)
    BY <1>4, HeadAndTail DEF TypeOK, Lines
  <2>2. /\ batch' = Tail(batch) /\ pc' = [pc EXCEPT !["flusher"] = "post"]
        /\ hand' = [hand EXCEPT !["flusher"] = e]
        /\ pc'["flusher"] = "post" /\ Taken' = batch'
        /\ hand'["flusher"] = e /\ hand'["worker"] = hand["worker"]
    BY <1>4, <2>1 DEF FlushLine, TypeOK, Threads, Taken
  <2>3. /\ batch' \in Seq(Lines) /\ Range(batch) = {e} \cup Range(batch')
        /\ Distinct(batch') /\ e \notin Range(batch') /\ e # Torn /\ e # Nobody
    BY <1>2, <1>4, <2>1, <2>2, HeadAndTail, EventsAssumption DEF TypeOK, OneCopy
  <2>4. e \in produced /\ e # hand["worker"] /\ e \notin Range(file)
    BY <1>2, <2>3 DEF HeldWasReported, OneCopy, Threads
  <2>5. TypeOK'
    BY <1>1, <2>2, <2>3 DEF TypeOK, Threads
  <2>6. HeldWasReported' /\ BatchIsOfFile'
    BY <1>1, <2>2, <2>3, <2>4 DEF HeldWasReported, BatchIsOfFile, Threads
  <2>7. OneCopy'
    BY <1>1, <1>2, <2>2, <2>3, <2>4 DEF OneCopy, Threads
  <2>8. \A x \in Events : OnDevice(x)' <=> OnDevice(x)
    BY <1>1, <1>2, <2>2, <2>3, EventsAssumption DEF OnDevice, Threads
  <2>9. AnsweredIsGone' /\ LostOnlyByRace' /\ RepeatedOnlyUnanswered'
    BY <1>1, <2>8 DEF AnsweredIsGone, LostOnlyByRace, RepeatedOnlyUnanswered, TypeOK
  <2> QED
    BY <2>5, <2>6, <2>7, <2>9
<1> QED
  BY <1>3, <1>4

-----------------------------------------------------------------------------

LEMMA Unchanged == IInv /\ UNCHANGED vars => IInv'
BY DEF vars, IInv, TypeOK, HeldWasReported, BatchIsOfFile, OneCopy, Taken,
   AnsweredIsGone, LostOnlyByRace, RepeatedOnlyUnanswered, OnDevice

LEMMA Inductive == Spec => []IInv
<1>1. IInv /\ [Next]_vars => IInv'
  <2> SUFFICES ASSUME IInv, [Next]_vars
               PROVE  IInv'
    OBVIOUS
  <2>1. CASE \E e \in Events : Produce(e)
    BY <2>1, ProduceStep
  <2>2. CASE \E t \in Threads : PostEvent(t)
    BY <2>2, AcceptedStep, FailsStep, OpenStep, WriteStep, QueueFailsStep DEF PostEvent
  <2>3. CASE FlushRead \/ FlushRemove \/ FlushLine
    BY <2>3, ReadStep, RemoveStep, LineStep
  <2>4. CASE FlushNothing \/ UNCHANGED vars
    BY <2>4, Unchanged DEF FlushNothing
  <2>5. CASE Restart
    BY <2>5, RestartStep
  <2> QED
    BY <2>1, <2>2, <2>3, <2>4, <2>5 DEF Next
<1> QED
  BY <1>1, Begins, PTL DEF Spec

\* As long as the service is not restarted and no write fails, an event that
\* was reported has reached the collector or is held by the device; if not, it
\* was appended, or its file opened, between readlines and os.remove.
THEOREM LostByRaceAlone == Spec => []LostOnlyByRace
<1>1. IInv => LostOnlyByRace
  BY DEF IInv
<1> QED
  BY <1>1, Inductive, PTL

\* No restart, failed write or meeting of the threads makes the collector get
\* an event again: only an answer of its own that was lost does.
THEOREM RepeatsNeedLostAnswers == Spec => []RepeatedOnlyUnanswered
<1>1. IInv => RepeatedOnlyUnanswered
  BY DEF IInv
<1> QED
  BY <1>1, Inductive, PTL

\* Types; a thread has an event in hand exactly while it posts or queues one,
\* and there is no torn line without a failed write.
THEOREM QueueTyped == Spec => []TypeOK
<1>1. IInv => TypeOK
  BY DEF IInv
<1> QED
  BY <1>1, Inductive, PTL
=============================================================================
