----------------------- MODULE OtaStatusClient_proofs -----------------------
(***************************************************************************)
(* PollingAlive and StateConsistent for every set of reports and every     *)
(* number of retries.  The invariant that carries them adds the types and  *)
(* what an answer on its way can be (ReplyMatches): without it a reply to  *)
(* a POST could be taken for a status.                                     *)
(***************************************************************************)
EXTENDS OtaStatusClient, TLAPS

\* The two properties as predicates of the object's members.
Alive(c) == c.polling => c.timer \/ c.request # "none"
Consistent(c) == c.otaState = StateFrom(c.phase, c.event, c.online)

\* An answer on its way belongs to the request in flight.
ReplyMatches ==
  /\ reply # NoReply => client.request # "none"
  /\ reply \in Status => client.request = "status"
  /\ reply \in {Failed, Accepted} => client.request = "update"

IInv == TypeOK /\ ReplyMatches /\ PollingAlive /\ StateConsistent

\* What a scheduled poll leaves alone, and what it is for.
LEMMA Scheduled ==
  ASSUME NEW c \in Client, Consistent(c)
  PROVE  /\ ScheduleNextPoll(c) \in Client /\ Consistent(ScheduleNextPoll(c))
         /\ ScheduleNextPoll(c).polling = c.polling
         /\ ScheduleNextPoll(c).polling => ScheduleNextPoll(c).timer
         /\ ScheduleNextPoll(c).request = c.request
BY DEF Client, Consistent, ScheduleNextPoll

\* setOnline recomputes the state whenever the connection changes.
LEMMA Connected ==
  ASSUME NEW c \in Client, NEW online \in BOOLEAN, Consistent(c)
  PROVE  /\ SetOnline(c, online) \in Client /\ Consistent(SetOnline(c, online))
         /\ SetOnline(c, online).polling = c.polling
         /\ SetOnline(c, online).timer = c.timer
         /\ SetOnline(c, online).request = c.request
         /\ SetOnline(c, online).online = online
<1> DEFINE state == StateFrom(c.phase, c.event, online)
           s == [c EXCEPT !.online = online, !.otaState = state]
<1>1. CASE c.online = online
  BY <1>1 DEF SetOnline
<1>2. CASE c.online # online
  <2>1. state \in {"Offline", "Idle", "Running", "Success", "Failed"}
    BY DEF StateFrom
  <2>2. SetOnline(c, online) = s
    BY <1>2 DEF SetOnline
  <2>3. /\ s.phase = c.phase /\ s.event = c.event
        /\ s.online = online /\ s.otaState = state
    BY DEF Client
  <2> HIDE DEF state
  <2>4. /\ s \in Client /\ s.polling = c.polling
        /\ s.timer = c.timer /\ s.request = c.request
    BY <2>1 DEF Client
  <2>5. Consistent(s)
    BY <2>3 DEF Consistent, state
  <2> QED BY <2>2, <2>3, <2>4, <2>5
<1> QED BY <1>1, <1>2

\* A failed status request: offline, one more retry, and a poll is due.
LEMMA FailureHandled ==
  ASSUME NEW c \in Client, Consistent(c)
  PROVE  /\ HandleStatusFailure(c) \in Client
         /\ Consistent(HandleStatusFailure(c))
         /\ HandleStatusFailure(c).polling = c.polling
         /\ HandleStatusFailure(c).polling => HandleStatusFailure(c).timer
         /\ HandleStatusFailure(c).request = c.request
<1> DEFINE o == SetOnline(c, FALSE)
           f == [o EXCEPT !.error = "status", !.retries = NextRetry(@)]
<1>1. /\ o \in Client /\ Consistent(o)
      /\ o.polling = c.polling /\ o.request = c.request
  BY Connected
<1> HIDE DEF o
<1>2. NextRetry(o.retries) \in 0..MaxRetryAttempts
  BY <1>1, OtaStatusClientAssumption DEF Client, NextRetry
<1>3. /\ f \in Client /\ Consistent(f)
      /\ f.polling = c.polling /\ f.request = c.request
  BY <1>1, <1>2 DEF Client, Consistent
<1> HIDE DEF f
<1>4. HandleStatusFailure(c) = ScheduleNextPoll(f)
  BY DEF HandleStatusFailure, f, o
<1> QED BY <1>3, <1>4, Scheduled

\* A status received: what it says is shown, and the next poll is due.
LEMMA StatusHandled ==
  ASSUME NEW c \in Client, NEW status \in Status
  PROVE  /\ HandleStatus(c, status) \in Client
         /\ Consistent(HandleStatus(c, status))
         /\ HandleStatus(c, status).polling = c.polling
         /\ HandleStatus(c, status).polling => HandleStatus(c, status).timer
         /\ HandleStatus(c, status).request = c.request
<1> DEFINE u == UpdateFromPayload(c, status)
           o == SetOnline(u, TRUE)
           h == [o EXCEPT !.retries = 0, !.error = "none"]
<1>1. /\ u \in Client /\ u.polling = c.polling /\ u.request = c.request
      /\ u.otaState = StateFrom(u.phase, u.event, TRUE)
  BY ZenonT(30) DEF UpdateFromPayload, Client, Status, StateFrom
<1> HIDE DEF u
<1>2. /\ o \in Client /\ Consistent(o)
      /\ o.polling = c.polling /\ o.request = c.request
  <2>1. CASE u.online = TRUE
    BY <1>1, <2>1 DEF SetOnline, Consistent
  <2>2. CASE u.online = FALSE
    <3>1. o = [u EXCEPT !.online = TRUE, !.otaState = u.otaState]
      BY <1>1, <2>2 DEF SetOnline
    <3>2. o \in Client
      BY <1>1, <3>1, ZenonT(30) DEF Client
    <3>3. /\ o.online = TRUE /\ o.otaState = u.otaState
          /\ o.phase = u.phase /\ o.event = u.event
          /\ o.polling = u.polling /\ o.request = u.request
      BY <1>1, <3>1 DEF Client
    <3> QED BY <1>1, <3>2, <3>3 DEF Consistent
  <2> QED BY <1>1, <2>1, <2>2 DEF Client
<1> HIDE DEF o
<1>0. 0 \in 0..MaxRetryAttempts
  BY OtaStatusClientAssumption
<1>3. /\ h \in Client /\ Consistent(h)
      /\ h.polling = c.polling /\ h.request = c.request
  BY <1>0, <1>2 DEF Client, Consistent
<1> HIDE DEF h
<1>4. HandleStatus(c, status) = ScheduleNextPoll(h)
  BY DEF HandleStatus, h, o, u
<1> QED BY <1>3, <1>4, Scheduled

\* However a request ends, an open page has its next poll due.
LEMMA FinishedKeeps ==
  ASSUME NEW c \in Client, Consistent(c), c.request # "none",
         NEW result \in Status \cup {Failed, Accepted},
         c.request = "status" => result # Accepted
  PROVE  /\ RequestFinished(c, result) \in Client
         /\ Consistent(RequestFinished(c, result))
         /\ RequestFinished(c, result).polling = c.polling
         /\ RequestFinished(c, result).polling =>
              RequestFinished(c, result).timer
         /\ RequestFinished(c, result).request = "none"
<1> DEFINE done == [c EXCEPT !.request = "none"]
<1>1. /\ done \in Client /\ Consistent(done)
      /\ done.polling = c.polling /\ done.request = "none"
  BY DEF Client, Consistent
<1>2. CASE c.request = "update"
  <2> DEFINE d == [done EXCEPT !.error = IF result = Accepted THEN "none"
                                         ELSE "update"]
  <2>1. /\ d \in Client /\ Consistent(d)
        /\ d.polling = c.polling /\ d.request = "none"
    BY <1>1, ZenonT(90) DEF Client, Consistent
  <2>2. RequestFinished(c, result) = ScheduleNextPoll(d)
    BY <1>2 DEF RequestFinished, HandleUpdateAnswer
  <2> HIDE DEF d
  <2> QED BY <2>1, <2>2, Scheduled
<1>3. CASE c.request = "status" /\ result = Failed
  <2>1. RequestFinished(c, result) = HandleStatusFailure(done)
    BY <1>3 DEF RequestFinished
  <2> HIDE DEF done
  <2> QED BY <1>1, <2>1, FailureHandled
<1>4. CASE c.request = "status" /\ result # Failed
  <2>1. RequestFinished(c, result) = HandleStatus(done, result)
    BY <1>4 DEF RequestFinished
  <2> HIDE DEF done
  <2> QED BY <1>1, <1>4, <2>1, StatusHandled
<1> QED BY <1>2, <1>3, <1>4 DEF Client

\* Closing the page: the abort is handled as a failure, then all is reset.
LEMMA StoppedKeeps ==
  ASSUME NEW c \in Client, Consistent(c)
  PROVE  /\ StopPolling(c) \in Client /\ Consistent(StopPolling(c))
         /\ ~StopPolling(c).polling /\ StopPolling(c).request = "none"
<1> DEFINE stopped == [c EXCEPT !.timer = FALSE]
           aborted == IF c.request = "none" THEN stopped
                      ELSE RequestFinished(stopped, Failed)
           s == [aborted EXCEPT !.retries = 0, !.error = "none",
                                !.polling = FALSE]
<1>1. /\ stopped \in Client /\ Consistent(stopped)
      /\ stopped.request = c.request
  BY DEF Client, Consistent
<1>2. Failed # Accepted
  BY OtaStatusClientAssumption
<1> HIDE DEF stopped
<1>3. /\ aborted \in Client /\ Consistent(aborted)
      /\ aborted.request = "none"
  <2>1. CASE c.request = "none"
    BY <1>1, <2>1
  <2>2. CASE c.request # "none"
    BY <1>1, <1>2, <2>2, FinishedKeeps
  <2> QED BY <2>1, <2>2
<1> HIDE DEF aborted
<1>4. 0 \in 0..MaxRetryAttempts
  BY OtaStatusClientAssumption
<1>5. /\ s \in Client /\ Consistent(s) /\ ~s.polling /\ s.request = "none"
  BY <1>3, <1>4, ZenonT(90) DEF Client, Consistent
<1>6. StopPolling(c) = s
  BY DEF StopPolling, s, aborted, stopped
<1> QED BY <1>5, <1>6

\* A request asked for is asked once; a poll timer that fired asks for one.
LEMMA SentKeeps ==
  ASSUME NEW c \in Client, Consistent(c), NEW kind \in {"status", "update"}
  PROVE  /\ Send(c, kind) \in Client /\ Consistent(Send(c, kind))
         /\ Send(c, kind).polling = c.polling /\ Send(c, kind).request # "none"
         /\ c.request # "none" => Send(c, kind).request = c.request
BY DEF Client, Consistent, Send

LEMMA Initially == Init => IInv
<1> SUFFICES ASSUME Init PROVE IInv
  OBVIOUS
<1>1. 0 \in 0..MaxRetryAttempts
  BY OtaStatusClientAssumption
<1>2. TypeOK
  BY <1>1 DEF Init, TypeOK, Client, Status, Phase, Event
<1>3. ReplyMatches
  BY OtaStatusClientAssumption DEF Init, ReplyMatches
<1> QED BY <1>2, <1>3 DEF Init, IInv, PollingAlive, StateConsistent, StateFrom

\* A step leaves the client whole: one case per action.
LEMMA Inductive == IInv /\ [Next]_vars => IInv'
<1> SUFFICES ASSUME IInv, [Next]_vars PROVE IInv'
  OBVIOUS
<1>c. client \in Client /\ Consistent(client) /\ Alive(client)
  BY DEF IInv, TypeOK, PollingAlive, StateConsistent, Consistent, Alive
<1>t. /\ server \in Status /\ signal \in BOOLEAN
      /\ reply \in Status \cup {NoReply, Failed, Accepted} /\ ReplyMatches
  BY DEF IInv, TypeOK
<1>n. /\ NoReply \notin Status /\ Failed \notin Status /\ Accepted \notin Status
      /\ NoReply # Failed /\ NoReply # Accepted /\ Failed # Accepted
  BY OtaStatusClientAssumption
\* What is left to show of a step, put in terms of the new members.
<1>w. ASSUME client' \in Client, Consistent(client'), Alive(client'),
             server' \in Status, signal' \in BOOLEAN,
             reply' \in Status \cup {NoReply, Failed, Accepted}, ReplyMatches'
      PROVE  IInv'
  BY <1>w DEF IInv, TypeOK, PollingAlive, StateConsistent, Consistent, Alive
\* No reply is on its way after these steps.
<1>r. ASSUME reply' = NoReply PROVE ReplyMatches'
  BY <1>r, <1>n DEF ReplyMatches
<1>1. CASE OpenPage
  <2>1. PICK appeared \in BOOLEAN :
          client' = IF appeared THEN Send(StartPolling(client), "status")
                    ELSE StartPolling(client)
    BY <1>1 DEF OpenPage
  <2> DEFINE s == StartPolling(client)
  <2>2. s \in Client /\ Consistent(s) /\ s.timer /\ s.request = client.request
    BY <1>c, <1>1 DEF OpenPage, StartPolling, ScheduleNextPoll, Client, Consistent
  <2> HIDE DEF s
  <2>3. Send(s, "status").timer
    BY <2>2 DEF Send, Client
  <2>4. /\ client' \in Client /\ Consistent(client') /\ Alive(client')
        /\ client.request # "none" => client'.request = client.request
    BY <2>1, <2>2, <2>3, SentKeeps DEF Alive, s
  <2>5. UNCHANGED <<reply, server, signal>>
    BY <1>1 DEF OpenPage, world
  <2>6. ReplyMatches'
    BY <1>t, <1>n, <2>4, <2>5 DEF ReplyMatches
  <2> QED BY <1>t, <1>w, <2>4, <2>5, <2>6
<1>2. CASE ClosePage
  <2>1. client' \in Client /\ Consistent(client') /\ Alive(client')
    BY <1>c, <1>2, StoppedKeeps DEF ClosePage, Alive
  <2>2. reply' = NoReply /\ UNCHANGED <<server, signal>>
    BY <1>2 DEF ClosePage, world
  <2> QED BY <1>t, <1>r, <1>w, <2>1, <2>2
<1>3. CASE PressButton
  <2>1. /\ client' \in Client /\ Consistent(client')
        /\ client'.request # "none"
    <3>1. CASE client.available
      <4> DEFINE u == Send(client, "update")
      <4>1. u \in Client /\ Consistent(u) /\ u.request # "none"
        BY <1>c, SentKeeps
      <4>2. client' = [u EXCEPT !.timer = FALSE]
        BY <1>3, <3>1 DEF PressButton, RequestUpdate
      <4> HIDE DEF u
      <4> QED BY <4>1, <4>2 DEF Client, Consistent
    <3>2. CASE ~client.available
      BY <1>c, <1>3, <3>2, SentKeeps DEF PressButton
    <3> QED BY <3>1, <3>2
  <2>2. client.request = "none" /\ UNCHANGED <<reply, server, signal>>
    BY <1>3 DEF PressButton, world
  <2>3. reply' = NoReply
    BY <1>t, <2>2 DEF ReplyMatches
  <2> QED BY <1>t, <1>r, <1>w, <2>1, <2>2, <2>3 DEF Alive
<1>4. CASE PollTimer
  <2> DEFINE fired == [client EXCEPT !.timer = FALSE]
  <2>1. /\ fired \in Client /\ Consistent(fired)
        /\ fired.request = client.request
    BY <1>c DEF Client, Consistent
  <2>2. client' = IF client.request # "none" THEN ScheduleNextPoll(fired)
                  ELSE Send(fired, "status")
    BY <1>4 DEF PollTimer
  <2> HIDE DEF fired
  <2>3. /\ client' \in Client /\ Consistent(client') /\ Alive(client')
        /\ client.request # "none" => client'.request = client.request
    <3>1. CASE client.request # "none"
      BY <2>1, <2>2, <3>1, Scheduled DEF Alive
    <3>2. CASE client.request = "none"
      BY <2>1, <2>2, <3>2, SentKeeps DEF Alive
    <3> QED BY <3>1, <3>2
  <2>4. UNCHANGED <<reply, server, signal>>
    BY <1>4 DEF PollTimer, world
  <2>5. ReplyMatches'
    BY <1>t, <1>n, <2>3, <2>4 DEF ReplyMatches
  <2> QED BY <1>t, <1>w, <2>3, <2>4, <2>5
<1>5. CASE Answer
  <2>1. /\ client.request # "none" /\ UNCHANGED <<client, server, signal>>
        /\ IF client.request = "status" THEN reply' = server
           ELSE reply' \in {Accepted, Failed}
    BY <1>5 DEF Answer, world
  <2>2. ReplyMatches'
    BY <1>c, <1>t, <1>n, <2>1 DEF ReplyMatches, Client
  <2> QED BY <1>c, <1>t, <1>w, <2>1, <2>2
<1>6. CASE ReplyArrives
  <2>1. /\ reply # NoReply /\ client' = RequestFinished(client, reply)
        /\ reply' = NoReply /\ UNCHANGED <<server, signal>>
    BY <1>6 DEF ReplyArrives, world
  <2>2. /\ client.request # "none" /\ reply \in Status \cup {Failed, Accepted}
        /\ client.request = "status" => reply # Accepted
    BY <1>t, <2>1 DEF ReplyMatches
  <2>3. client' \in Client /\ Consistent(client') /\ Alive(client')
    BY <1>c, <2>1, <2>2, FinishedKeeps DEF Alive
  <2> QED BY <1>t, <1>r, <1>w, <2>1, <2>3
<1>7. CASE RequestFails
  <2>1. /\ client.request # "none" /\ client' = RequestFinished(client, Failed)
        /\ reply' = NoReply /\ UNCHANGED <<server, signal>>
    BY <1>7 DEF RequestFails, world
  <2>2. client' \in Client /\ Consistent(client') /\ Alive(client')
    BY <1>c, <1>n, <2>1, FinishedKeeps DEF Alive
  <2> QED BY <1>t, <1>r, <1>w, <2>1, <2>2
<1>8. CASE SignalArrives
  <2> DEFINE c == [client EXCEPT !.available = TRUE]
  <2>1. /\ c \in Client /\ Consistent(c) /\ Alive(c)
        /\ c.request = client.request
    BY <1>c DEF Client, Consistent, Alive
  <2>2. client' = SetOnline(c, TRUE)
    BY <1>8 DEF SignalArrives
  <2> HIDE DEF c
  <2>3. /\ client' \in Client /\ Consistent(client') /\ Alive(client')
        /\ client'.request = client.request
    BY <2>1, <2>2, Connected DEF Alive
  <2>4. /\ signal' \in BOOLEAN
        /\ UNCHANGED <<server, reply>>
    BY <1>t, <1>8 DEF SignalArrives, Status
  <2>5. ReplyMatches'
    BY <1>t, <2>3, <2>4 DEF ReplyMatches
  <2> QED BY <1>t, <1>w, <2>3, <2>4, <2>5
<1>9. CASE ServerMoves \/ Announce \/ ServerRestarts \/ UNCHANGED vars
  <2>1. /\ UNCHANGED <<client, reply>>
        /\ signal' \in BOOLEAN
    BY <1>t, <1>9 DEF ServerMoves, Announce, ServerRestarts, vars
  <2>2. server' \in Status
    <3>1. CASE ServerMoves
      <4>1. PICK report \in Reports :
              server' = [server EXCEPT !.phase = report[1], !.event = report[2]]
        BY <3>1 DEF ServerMoves
      <4>2. report[1] \in Phase /\ report[2] \in Event
        BY OtaStatusClientAssumption
      <4> QED BY <1>t, <4>1, <4>2 DEF Status
    <3>2. CASE Announce \/ UNCHANGED vars
      BY <1>t, <3>2 DEF Announce, vars, Status
    <3>3. CASE ServerRestarts
      BY <3>3 DEF ServerRestarts, Status, Phase, Event
    <3> QED BY <1>9, <3>1, <3>2, <3>3
  <2>3. ReplyMatches'
    BY <1>t, <2>1 DEF ReplyMatches
  <2> QED BY <1>c, <1>t, <1>w, <2>1, <2>2, <2>3
<1> QED BY <1>1, <1>2, <1>3, <1>4, <1>5, <1>6, <1>7, <1>8, <1>9 DEF Next

\* An open page always has a poll due or a request on its way.
THEOREM NeverSilent == Spec => []PollingAlive
<1>1. IInv => PollingAlive
  BY DEF IInv
<1> QED BY Initially, Inductive, <1>1, PTL DEF Spec

\* The state shown is always the one phase, event and connection imply.
THEOREM StateShown == Spec => []StateConsistent
<1>1. IInv => StateConsistent
  BY DEF IInv
<1> QED BY Initially, Inductive, <1>1, PTL DEF Spec

\* Types, and that no reply is ever taken for the answer to another request.
THEOREM ClientTyped == Spec => [](TypeOK /\ ReplyMatches)
<1>1. IInv => TypeOK /\ ReplyMatches
  BY DEF IInv
<1> QED BY Initially, Inductive, <1>1, PTL DEF Spec
=============================================================================
