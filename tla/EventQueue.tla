----------------------------- MODULE EventQueue -----------------------------
(***************************************************************************)
(* How the OTA backend reports to the collector (ota_logic.py).  The       *)
(* install worker posts each event; an event that is not acknowledged is   *)
(* appended to queue.jsonl.  Every collector_flush_interval_sec a second   *)
(* thread reads the whole file, removes it and posts its lines again, the  *)
(* refused ones going back to a new file.  Nothing locks the file, so the  *)
(* two threads meet in it.                                                 *)
(***************************************************************************)
EXTENDS Integers, Sequences, SequencesExt

CONSTANTS
    Events,         \* what the worker has to report
    Nobody,         \* no event in hand
    Torn,           \* a line of the file that json.loads refuses
    MaxUnanswered,  \* bound: posts the collector took and whose answer is lost
    MaxFaults       \* bound: restarts of the service and failed writes

ASSUME EventsAssumption == Nobody \notin Events /\ Torn \notin Events
ASSUME BoundsAssumption == MaxUnanswered \in Nat /\ MaxFaults \in Nat

VARIABLES
    pc,          \* where each thread is
    hand,        \* the event each thread is posting or queueing
    batch,       \* the lines the flusher read and has not come to yet
    file,        \* the lines of queue.jsonl; <<>> when it is empty or absent
    handles,     \* the threads whose open file is still named queue.jsonl
    produced,    \* history: the events the worker has reported
    received,    \* history: how often the collector got each event
    unanswered,  \* history: how often it got one and its answer was lost
    raced,       \* history: events lost because the threads met in the file
    faults       \* history: restarts and failed writes so far

vars == <<pc, hand, batch, file, handles,
          produced, received, unanswered, raced, faults>>

Threads == {"worker", "flusher"}
Lines == Events \cup {Torn}

Total(count) == FoldFunction(+, 0, count)

Init ==
    /\ pc = [t \in Threads |-> "idle"]
    /\ hand = [t \in Threads |-> Nobody]
    /\ batch = <<>>
    /\ file = <<>>
    /\ handles = {}
    /\ produced = {}
    /\ received = [e \in Events |-> 0]
    /\ unanswered = [e \in Events |-> 0]
    /\ raced = {}
    /\ faults = 0

-----------------------------------------------------------------------------
(* The worker calls _post_event with its next event.                       *)
Produce(e) ==
    /\ pc["worker"] = "idle"
    /\ e \notin produced
    /\ produced' = produced \cup {e}
    /\ hand' = [hand EXCEPT !["worker"] = e]
    /\ pc' = [pc EXCEPT !["worker"] = "post"]
    /\ UNCHANGED <<batch, file, handles, received, unanswered, raced, faults>>

(* _post_event returns: the worker goes on with the update, the flusher    *)
(* with the next line.                                                     *)
Return(t) ==
    /\ pc' = [pc EXCEPT ![t] = IF t = "flusher" THEN "lines" ELSE "idle"]
    /\ hand' = [hand EXCEPT ![t] = Nobody]

(* The collector answers below 300.                                        *)
PostAccepted(t) ==
    /\ pc[t] = "post"
    /\ received' = [received EXCEPT ![hand[t]] = @ + 1]
    /\ Return(t)
    /\ UNCHANGED <<batch, file, handles, produced, unanswered, raced, faults>>

\* Mutation: the event is not put back.
PostForgets(t) ==
    /\ pc[t] = "post"
    /\ Return(t)
    /\ UNCHANGED <<batch, file, handles, received, unanswered>>
    /\ UNCHANGED <<produced, raced, faults>>

(* No collector_url, no connection, an answer of 300 or more; or the       *)
(* collector stores the event and its answer is lost or over ten seconds   *)
(* late, which is the same exception to requests.post.                     *)
PostFails(t) ==
    /\ pc[t] = "post"
    /\ pc' = [pc EXCEPT ![t] = "open"]
    /\ \/ UNCHANGED <<received, unanswered>>
       \/ /\ Total(unanswered) < MaxUnanswered
          /\ received' = [received EXCEPT ![hand[t]] = @ + 1]
          /\ unanswered' = [unanswered EXCEPT ![hand[t]] = @ + 1]
    /\ UNCHANGED <<hand, batch, file, handles, produced, raced, faults>>

(* _queue_event opens queue.jsonl for appending ...                        *)
QueueOpen(t) ==
    /\ pc[t] = "open"
    /\ pc' = [pc EXCEPT ![t] = "write"]
    /\ handles' = handles \cup {t}
    /\ UNCHANGED <<hand, batch, file,
                   produced, received, unanswered, raced, faults>>

(* A line appended after one without its newline becomes part of it.       *)
AppendLine(lines, line) ==
    IF lines # <<>> /\ Last(lines) = Torn THEN lines ELSE Append(lines, line)

\* Mutation: the file is opened with "w".
QueueOverwrite(t) ==
    /\ pc[t] = "write"
    /\ file' = <<hand[t]>>
    /\ handles' = handles \ {t}
    /\ Return(t)
    /\ UNCHANGED <<batch, produced, received, unanswered, raced, faults>>

(* ... and writes the line: to the file that was opened, whatever its name *)
(* is by now.                                                              *)
QueueWrite(t) ==
    /\ pc[t] = "write"
    /\ IF t \in handles
       THEN file' = AppendLine(file, hand[t]) /\ UNCHANGED raced
       ELSE raced' = raced \cup {hand[t]} /\ UNCHANGED file
    /\ handles' = handles \ {t}
    /\ Return(t)
    /\ UNCHANGED <<batch, produced, received, unanswered, faults>>

(* /data is full: nothing or a part of the line is written, and the        *)
(* exception leaves _post_event.  The flusher swallows it with the lines   *)
(* it had not come to; the worker's own handler is in OtaBackend.          *)
QueueFails(t) ==
    /\ pc[t] \in {"open", "write"}
    /\ faults < MaxFaults
    /\ faults' = faults + 1
    /\ \/ UNCHANGED file
       \/ t \in handles /\ file' = AppendLine(file, Torn)
    /\ handles' = handles \ {t}
    /\ pc' = [pc EXCEPT ![t] = "idle"]
    /\ hand' = [hand EXCEPT ![t] = Nobody]
    /\ batch' = IF t = "flusher" THEN <<>> ELSE batch
    /\ UNCHANGED <<produced, received, unanswered, raced>>

-----------------------------------------------------------------------------
(* The flusher wakes up and finds no file, or an empty one.                *)
FlushNothing ==
    /\ pc["flusher"] = "idle"
    /\ file = <<>>
    /\ UNCHANGED vars

(* _flush_queue reads every line ...                                       *)
FlushRead ==
    /\ pc["flusher"] = "idle"
    /\ file # <<>>
    /\ batch' = file
    /\ pc' = [pc EXCEPT !["flusher"] = "remove"]
    /\ UNCHANGED <<hand, file, handles,
                   produced, received, unanswered, raced, faults>>

\* Mutation: the file is left for the next round to remove.
FlushKeepsFile ==
    /\ pc["flusher"] = "remove"
    /\ pc' = [pc EXCEPT !["flusher"] = "lines"]
    /\ UNCHANGED <<hand, batch, file, handles,
                   produced, received, unanswered, raced, faults>>

(* ... then removes the file, with the lines appended since ...            *)
FlushRemove ==
    /\ pc["flusher"] = "remove"
    /\ raced' = raced \cup
          (Range(SubSeq(file, Len(batch) + 1, Len(file))) \ {Torn})
    /\ file' = <<>>
    /\ handles' = {}
    /\ pc' = [pc EXCEPT !["flusher"] = "lines"]
    /\ UNCHANGED <<hand, batch, produced, received, unanswered, faults>>

\* Mutation: a line is posted whether it parses or not.
FlushUnparsed ==
    /\ pc["flusher"] = "lines"
    /\ batch' = IF batch = <<>> THEN <<>> ELSE Tail(batch)
    /\ hand' = [hand EXCEPT !["flusher"] =
                   IF batch = <<>> THEN Nobody ELSE Head(batch)]
    /\ pc' = [pc EXCEPT !["flusher"] = IF batch = <<>> THEN "idle" ELSE "post"]
    /\ UNCHANGED <<file, handles, produced, received, unanswered, raced, faults>>

(* ... and posts them one by one.  A line that does not parse ends the     *)
(* loop, and the lines behind it are gone.                                 *)
FlushLine ==
    /\ pc["flusher"] = "lines"
    /\ IF batch = <<>> \/ Head(batch) = Torn
       THEN /\ batch' = <<>>
            /\ pc' = [pc EXCEPT !["flusher"] = "idle"]
            /\ UNCHANGED hand
       ELSE /\ batch' = Tail(batch)
            /\ hand' = [hand EXCEPT !["flusher"] = Head(batch)]
            /\ pc' = [pc EXCEPT !["flusher"] = "post"]
    /\ UNCHANGED <<file, handles, produced, received, unanswered, raced, faults>>

(* systemd restarts the service: both threads start over, and what they    *)
(* held in memory is gone.                                                 *)
Restart ==
    /\ faults < MaxFaults
    /\ faults' = faults + 1
    /\ pc' = [t \in Threads |-> "idle"]
    /\ hand' = [t \in Threads |-> Nobody]
    /\ batch' = <<>>
    /\ handles' = {}
    /\ UNCHANGED <<file, produced, received, unanswered, raced>>

PostEvent(t) ==
    \/ PostAccepted(t)
    \/ PostFails(t)
    \/ QueueOpen(t)
    \/ QueueWrite(t)
    \/ QueueFails(t)

Next ==
    \/ \E e \in Events : Produce(e)
    \/ \E t \in Threads : PostEvent(t)
    \/ FlushRead
    \/ FlushRemove
    \/ FlushLine
    \/ FlushNothing
    \/ Restart

(* The flusher is a daemon thread that wakes for ever, and the collector   *)
(* is not down for ever: a post tried again and again is accepted once.    *)
Fairness ==
    /\ WF_vars(FlushRead)
    /\ WF_vars(FlushRemove)
    /\ WF_vars(FlushLine)
    /\ \A t \in Threads : WF_vars(PostEvent(t))
    /\ \A e \in Events : SF_vars(hand["flusher"] = e /\ PostAccepted("flusher"))

Spec == Init /\ [][Next]_vars
FairSpec == Spec /\ Fairness

-----------------------------------------------------------------------------
(* A thread has an event in hand exactly while it posts or queues one, and *)
(* a line that does not parse comes from a failed write only.              *)
TypeOK ==
    /\ pc \in [Threads -> {"idle", "remove", "lines", "post", "open", "write"}]
    /\ pc["worker"] \notin {"remove", "lines"}
    /\ hand \in [Threads -> Events \cup {Nobody}]
    /\ \A t \in Threads :
          hand[t] # Nobody <=> pc[t] \in {"post", "open", "write"}
    /\ handles \subseteq {t \in Threads : pc[t] = "write"}
    /\ batch \in Seq(Lines) /\ file \in Seq(Lines)
    /\ faults = 0 => Torn \notin Range(batch) \cup Range(file)
    /\ produced \subseteq Events /\ raced \subseteq produced
    /\ received \in [Events -> Nat] /\ unanswered \in [Events -> Nat]
    /\ faults \in 0..MaxFaults

(* Before the file is removed the batch only repeats what is in it.        *)
Taken == IF pc["flusher"] = "remove" THEN <<>> ELSE batch

OnDevice(e) ==
    \/ e \in Range(file) \cup Range(Taken)
    \/ \E t \in Threads : hand[t] = e

(* Without a restart or a failed write, an event that was reported has     *)
(* reached the collector or is still held by the device; the only way to   *)
(* lose one is the meeting of the two threads, an append between           *)
(* readlines and os.remove or an open before it and a write after.         *)
LostOnlyByRace ==
    faults = 0 => \A e \in produced :
        received[e] > 0 \/ OnDevice(e) \/ e \in raced

(* The collector gets an event a second time only when its answer to an    *)
(* earlier post was lost: removing the file before posting its lines       *)
(* means a restart in the middle of a flush repeats none of them.          *)
RepeatedOnlyUnanswered ==
    \A e \in Events : received[e] <= 1 + unanswered[e]

(* Once the flusher has an event, its refusals, however many, do not lose  *)
(* it: put back in the file and read again, it gets to the collector       *)
(* unless a restart or a failed write takes it.                            *)
TakenIsDelivered ==
    \A e \in Events :
        e \in Range(Taken) ~> (received[e] > 0 \/ faults > 0)
=============================================================================
