-------------------------- MODULE MqttBridge_proofs --------------------------
(***************************************************************************)
(* The two safety properties of the bridge, for queues of any length and   *)
(* any number of commands, releases, dropped links and restarts.  Each is  *)
(* about an empty queue, and says nothing of the step that empties it: the *)
(* invariants say what the last message of a queue that is not empty is    *)
(* (LastRelease, LastTold).  That no other message follows it needs the    *)
(* exclusion of jobs (OneJob), and that the link has held and no refusal   *)
(* is underway (Unmixed).                                                  *)
(***************************************************************************)
EXTENDS MqttBridge, TLAPS

\* Tuples of variables: every proof sees through them.
USE DEF session, publishers, story, jobs, faults

NoRelease == \A j \in 1..Len(inbox) : inbox[j] \notin Releases

LastRelease ==
  announced # None =>
    \/ NoRelease /\ offer = announced
    \/ \E i \in 1..Len(inbox) :
         /\ inbox[i] = announced
         /\ \A j \in i+1..Len(inbox) : inbox[j] \notin Releases

OneJob ==
  \A c \in Commands : worker[c] # "idle" =>
    /\ active
    /\ \A d \in Commands : worker[d] # "idle" => d = c

Unmixed ==
  outcome # None =>
    /\ link /\ mqtt \in {None, Register}
    /\ \A c \in Commands : worker[c] # "idle" => outcome.command = c

OnlyRegisters == \A j \in 1..Len(out) : out[j] = Register

LastTold ==
  outcome \in Telling =>
    \/ OnlyRegisters /\ told = outcome
    \/ \E i \in 1..Len(out) :
         /\ out[i] = outcome
         /\ \A j \in i+1..Len(out) : out[j] = Register

IInv == TypeOK /\ LastRelease /\ OneJob /\ Unmixed /\ LastTold

LEMMA NoneIsNoMessage == None \notin Telling /\ Register \notin Telling
BY MqttBridgeAssumption DEF Telling, Status, Register

LEMMA BegunIsNotTold ==
  \A c \in Commands : Begun(c) \notin Telling /\ Begun(c) # None
BY MqttBridgeAssumption DEF Telling, Status, Begun

LEMMA Initially == Init => IInv
<1> SUFFICES ASSUME Init PROVE IInv
  OBVIOUS
<1>1. TypeOK
  <2>1. /\ inbox \in Seq(Commands \cup Releases) /\ Len(inbox) <= MaxInbox
        /\ out \in Seq(Telling \cup {Register})
    BY MqttBridgeAssumption DEF Init
  <2>2. worker \in [Commands -> Stage]
    BY DEF Init, Stage
  <2>3. drops \in 0..MaxDrops /\ restarts \in 0..MaxRestarts
    BY MqttBridgeAssumption DEF Init
  <2> QED
    BY <2>1, <2>2, <2>3, Zenon DEF Init, TypeOK
<1>2. LastRelease /\ OneJob /\ Unmixed /\ LastTold
  BY NoneIsNoMessage DEF Init, LastRelease, OneJob, Unmixed, LastTold
<1> QED
  BY <1>1, <1>2 DEF IInv

-----------------------------------------------------------------------------
(***************************************************************************)
(* What may be done to a queue without disturbing its last message.        *)
(***************************************************************************)
LEMMA InboxKept ==
  ASSUME LastRelease, UNCHANGED <<inbox, offer, announced>>
  PROVE  LastRelease'
BY DEF LastRelease, NoRelease

LEMMA CommandAppended ==
  ASSUME TypeOK, LastRelease, NEW c \in Commands, inbox' = Append(inbox, c),
         UNCHANGED <<offer, announced>>
  PROVE  LastRelease'
<1>1. /\ Len(inbox') = Len(inbox) + 1 /\ Len(inbox) \in Nat
      /\ \A j \in 1..Len(inbox) : inbox'[j] = inbox[j]
      /\ inbox'[Len(inbox) + 1] = c
  BY DEF TypeOK
<1>2. c \notin Releases
  BY MqttBridgeAssumption
<1> QED
  BY <1>1, <1>2 DEF LastRelease, NoRelease

LEMMA InboxServed ==
  ASSUME TypeOK, LastRelease, inbox # <<>>, inbox' = Tail(inbox),
         UNCHANGED announced,
         Head(inbox) \in Releases => offer' = Head(inbox),
         Head(inbox) \notin Releases => offer' = offer
  PROVE  LastRelease'
<1>1. /\ Len(inbox') = Len(inbox) - 1 /\ Len(inbox) \in Nat \ {0}
      /\ \A j \in 1..Len(inbox') : inbox'[j] = inbox[j + 1]
      /\ Head(inbox) = inbox[1]
  BY DEF TypeOK
<1> SUFFICES ASSUME announced # None
             PROVE  \/ NoRelease' /\ offer' = announced
                    \/ \E i \in 1..Len(inbox') :
                         /\ inbox'[i] = announced
                         /\ \A j \in i+1..Len(inbox') : inbox'[j] \notin Releases
  BY DEF LastRelease
<1>2. announced \in Releases
  BY DEF TypeOK
<1>3. CASE NoRelease /\ offer = announced
  <2>1. Head(inbox) \notin Releases /\ NoRelease'
    BY <1>1, <1>3 DEF NoRelease
  <2> QED
    BY <1>3, <2>1
<1>4. CASE \E i \in 1..Len(inbox) :
             /\ inbox[i] = announced
             /\ \A j \in i+1..Len(inbox) : inbox[j] \notin Releases
  <2>1. PICK i \in 1..Len(inbox) :
               /\ inbox[i] = announced
               /\ \A j \in i+1..Len(inbox) : inbox[j] \notin Releases
    BY <1>4
  <2>2. CASE i = 1
    <3>1. NoRelease' /\ offer' = announced
      BY <1>1, <1>2, <2>1, <2>2 DEF NoRelease
    <3> QED
      BY <3>1
  <2>3. CASE i # 1
    <3>1. /\ i - 1 \in 1..Len(inbox') /\ inbox'[i - 1] = announced
          /\ \A j \in (i-1)+1..Len(inbox') : inbox'[j] \notin Releases
      BY <1>1, <2>1, <2>3
    <3> QED
      BY <3>1
  <2> QED
    BY <2>2, <2>3
<1> QED
  BY <1>3, <1>4 DEF LastRelease

LEMMA QueueKept ==
  ASSUME LastTold, UNCHANGED <<out, outcome, told>>
  PROVE  LastTold'
BY DEF LastTold, OnlyRegisters

LEMMA RegisterQueued ==
  ASSUME TypeOK, LastTold, Publish(Register), UNCHANGED <<outcome, told>>
  PROVE  LastTold' /\ out' \in Seq(Telling \cup {Register})
<1>1. CASE ~connected
  BY <1>1, QueueKept DEF Publish, TypeOK
<1>2. CASE connected
  <2>1. out' = Append(out, Register)
    BY <1>2 DEF Publish
  <2>2. /\ Len(out') = Len(out) + 1 /\ Len(out) \in Nat
        /\ \A j \in 1..Len(out) : out'[j] = out[j]
        /\ out'[Len(out) + 1] = Register
        /\ out' \in Seq(Telling \cup {Register})
    BY <2>1 DEF TypeOK
  <2>3. ASSUME outcome \in Telling, OnlyRegisters, told = outcome
        PROVE  OnlyRegisters' /\ told' = outcome'
    BY <2>2, <2>3 DEF OnlyRegisters
  <2>4. ASSUME NEW i \in 1..Len(out), out[i] = outcome,
               \A j \in i+1..Len(out) : out[j] = Register
        PROVE  /\ i \in 1..Len(out') /\ out'[i] = outcome'
               /\ \A j \in i+1..Len(out') : out'[j] = Register
    BY <2>2, <2>4
  <2> QED
    BY <2>2, <2>3, <2>4 DEF LastTold
<1> QED
  BY <1>1, <1>2

LEMMA Delivered ==
  ASSUME TypeOK, LastTold, Deliver
  PROVE  LastTold'
<1>1. /\ Len(out') = Len(out) - 1 /\ Len(out) \in Nat \ {0}
      /\ \A j \in 1..Len(out') : out'[j] = out[j + 1]
      /\ Head(out) = out[1]
      /\ UNCHANGED outcome
  BY DEF TypeOK, Deliver
<1> SUFFICES ASSUME outcome \in Telling
             PROVE  \/ OnlyRegisters' /\ told' = outcome
                    \/ \E i \in 1..Len(out') :
                         /\ out'[i] = outcome
                         /\ \A j \in i+1..Len(out') : out'[j] = Register
  BY <1>1 DEF LastTold
<1>2. outcome # None /\ outcome # Register
  BY NoneIsNoMessage
<1>3. CASE OnlyRegisters /\ told = outcome
  <2>1. Head(out) = Register
    BY <1>1, <1>3 DEF OnlyRegisters
  <2>2. told' = told
    BY <2>1 DEF Deliver
  <2> QED
    BY <1>1, <1>3, <2>2 DEF OnlyRegisters
<1>4. CASE \E i \in 1..Len(out) :
             /\ out[i] = outcome
             /\ \A j \in i+1..Len(out) : out[j] = Register
  <2>1. PICK i \in 1..Len(out) :
               /\ out[i] = outcome
               /\ \A j \in i+1..Len(out) : out[j] = Register
    BY <1>4
  <2>2. CASE i = 1
    <3>1. Head(out) = outcome
      BY <1>1, <2>1, <2>2
    <3>2. told' = outcome
      BY <1>2, <3>1 DEF Deliver
    <3>3. OnlyRegisters'
      BY <1>1, <2>1, <2>2 DEF OnlyRegisters
    <3> QED
      BY <3>2, <3>3
  <2>3. CASE i # 1
    <3>1. /\ i - 1 \in 1..Len(out') /\ out'[i - 1] = outcome
          /\ \A j \in (i-1)+1..Len(out') : out'[j] = Register
      BY <1>1, <2>1, <2>3
    <3> QED
      BY <3>1
  <2> QED
    BY <2>2, <2>3
<1> QED
  BY <1>3, <1>4 DEF LastTold

\* A worker that tells is the one the outcome is about, if it is about any:
\* what it tells becomes the outcome and the last message of the queue.
LEMMA WorkerTells ==
  ASSUME IInv, NEW c \in Commands, NEW status \in Status, NEW stage \in Stage,
         worker[c] # "idle", Tells(c, status, stage), UNCHANGED told
  PROVE  /\ LastTold'
         /\ out' \in Seq(Telling \cup {Register})
         /\ outcome' \in Telling \cup {None}
         /\ outcome' = None => told' = None
         /\ outcome = None => outcome' = None
         /\ outcome # None => outcome' = [status |-> status, command |-> c]
<1> DEFINE m == [status |-> status, command |-> c]
<1>1. m \in Telling
  BY DEF Telling
<1>2. /\ out' = IF connected THEN Append(out, m) ELSE out
      /\ outcome' = IF outcome # None /\ outcome.command = c THEN m
                    ELSE outcome
  BY DEF Tells, Publish
<1>3. out \in Seq(Telling \cup {Register})
  BY DEF IInv, TypeOK
<1>4. out' \in Seq(Telling \cup {Register})
  BY <1>1, <1>2, <1>3
<1>5. CASE outcome = None
  BY <1>2, <1>4, <1>5, NoneIsNoMessage DEF IInv, TypeOK, LastTold
<1>6. CASE outcome # None
  <2>1. outcome.command = c /\ connected
    BY <1>6 DEF IInv, Unmixed, TypeOK
  <2>2. outcome' = m /\ out' = Append(out, m)
    BY <1>2, <1>6, <2>1
  <2>3. /\ Len(out) \in Nat /\ Len(out') = Len(out) + 1
        /\ out'[Len(out) + 1] = m
    BY <2>2, <1>3
  <2>4. LastTold'
    BY <2>2, <2>3 DEF LastTold
  <2> QED
    BY <1>1, <1>4, <1>6, <2>2, <2>4, NoneIsNoMessage
<1> QED
  BY <1>5, <1>6

-----------------------------------------------------------------------------
(***************************************************************************)
(* Each step keeps the invariant.                                          *)
(***************************************************************************)
LEMMA ServerSteps ==
  ASSUME IInv,
         \/ \E r \in Releases : Announce(r)
         \/ \E c \in Commands : SendCommand(c)
         \/ Deliver \/ LinkDrops \/ WillSent
  PROVE  IInv'
<1> USE DEF IInv
<1>1. ASSUME NEW r \in Releases, Announce(r) PROVE IInv'
  <2>1. TypeOK'
    <3>1. /\ inbox' \in Seq(Commands \cup Releases) /\ Len(inbox') <= MaxInbox
          /\ ~link' => inbox' = <<>>
          /\ announced' \in Releases \cup {None}
      BY <1>1, MqttBridgeAssumption DEF TypeOK, Announce
    <3> QED
      BY <1>1, <3>1 DEF TypeOK, Announce
  <2>2. LastRelease'
    <3>1. CASE link
      <4>1. /\ Len(inbox') = Len(inbox) + 1 /\ Len(inbox) \in Nat
            /\ inbox'[Len(inbox) + 1] = r /\ announced' = r
        BY <1>1, <3>1 DEF Announce, TypeOK
      <4> QED
        BY <4>1 DEF LastRelease
    <3>2. CASE ~link
      BY <1>1, <3>2 DEF Announce, LastRelease
    <3> QED
      BY <3>1, <3>2 DEF TypeOK
  <2>3. OneJob' /\ Unmixed'
    BY <1>1 DEF OneJob, Unmixed, Announce
  <2>4. LastTold'
    BY <1>1, QueueKept DEF Announce
  <2> QED
    BY <2>1, <2>2, <2>3, <2>4
<1>2. ASSUME NEW c \in Commands, SendCommand(c) PROVE IInv'
  <2>1. TypeOK'
    <3>1. /\ inbox' \in Seq(Commands \cup Releases) /\ Len(inbox') <= MaxInbox
          /\ ~link' => inbox' = <<>>
      BY <1>2, MqttBridgeAssumption DEF TypeOK, SendCommand
    <3> QED
      BY <1>2, <3>1 DEF TypeOK, SendCommand
  <2>2. LastRelease'
    BY <1>2, CommandAppended DEF SendCommand
  <2>3. OneJob' /\ Unmixed'
    BY <1>2 DEF OneJob, Unmixed, SendCommand
  <2>4. LastTold'
    BY <1>2, QueueKept DEF SendCommand
  <2> QED
    BY <2>1, <2>2, <2>3, <2>4
<1>3. CASE Deliver
  <2>1. TypeOK'
    <3>1. out' \in Seq(Telling \cup {Register})
      BY <1>3 DEF TypeOK, Deliver
    <3>2. Head(out) \in Telling \cup {Register}
      BY <1>3 DEF TypeOK, Deliver
    <3>3. /\ told' \in Telling \cup {None}
          /\ outcome' = None => told' = None
      BY <1>3, <3>2 DEF TypeOK, Deliver
    <3>4. offline' \in BOOLEAN
      BY <1>3 DEF Deliver
    <3> QED
      BY <1>3, <3>1, <3>3, <3>4 DEF TypeOK, Deliver
  <2>2. LastRelease'
    BY <1>3, InboxKept DEF Deliver
  <2>3. OneJob' /\ Unmixed'
    BY <1>3 DEF OneJob, Unmixed, Deliver
  <2>4. LastTold'
    BY <1>3, Delivered DEF Deliver
  <2> QED
    BY <2>1, <2>2, <2>3, <2>4 DEF IInv
<1>4. CASE LinkDrops
  <2>1. TypeOK'
    <3>1. inbox' \in Seq(Commands \cup Releases) /\ Len(inbox') <= MaxInbox
      BY <1>4, MqttBridgeAssumption DEF LinkDrops
    <3>2. drops' \in 0..MaxDrops
      BY <1>4, MqttBridgeAssumption DEF TypeOK, LinkDrops
    <3>3. /\ announced' \in Releases \cup {None}
          /\ outcome' = None /\ told' = None
          /\ link' = FALSE /\ will' = TRUE
      BY <1>4 DEF TypeOK, LinkDrops, Mixed
    <3> QED
      BY <1>4, <3>1, <3>2, <3>3 DEF TypeOK, LinkDrops
  <2>2. LastRelease'
    <3>1. announced' # None => NoRelease' /\ NoRelease
      BY <1>4 DEF LinkDrops, NoRelease, Range, TypeOK
    <3>2. announced' # None => announced' = announced /\ offer' = offer
      BY <1>4 DEF LinkDrops
    <3> QED
      BY <3>1, <3>2 DEF LastRelease, NoRelease, TypeOK
  <2>3. OneJob' /\ Unmixed'
    BY <1>4 DEF OneJob, Unmixed, LinkDrops, Mixed
  <2>4. LastTold'
    BY <1>4, NoneIsNoMessage DEF LinkDrops, Mixed, LastTold
  <2> QED
    BY <2>1, <2>2, <2>3, <2>4 DEF IInv
<1>5. CASE WillSent
  <2>1. TypeOK'
    <3>1. /\ will' = FALSE /\ offline' = TRUE
          /\ UNCHANGED <<link, connected, inbox, out, publishers, presence, offer,
                         jobs, announced, faults>>
      BY <1>5 DEF WillSent
    <3> QED
      BY <3>1, ZenonT(30) DEF TypeOK, publishers, jobs, story, faults
  <2>2. LastRelease'
    BY <1>5, InboxKept DEF WillSent
  <2>3. OneJob' /\ Unmixed'
    BY <1>5 DEF OneJob, Unmixed, WillSent
  <2>4. LastTold'
    BY <1>5, QueueKept DEF WillSent
  <2> QED
    BY <2>1, <2>2, <2>3, <2>4 DEF IInv
<1> QED
  BY <1>1, <1>2, <1>3, <1>4, <1>5

LEMMA PahoSteps ==
  ASSUME IInv, OnConnect \/ OnDisconnect \/ OnAnnounce \/ Handled
  PROVE  IInv'
<1> USE DEF IInv
<1>1. CASE OnConnect
  <2>1. TypeOK'
    BY <1>1 DEF TypeOK, OnConnect
  <2>2. LastRelease'
    BY <1>1, InboxKept DEF OnConnect
  <2>3. OneJob' /\ Unmixed'
    BY <1>1 DEF OneJob, Unmixed, OnConnect
  <2>4. LastTold'
    BY <1>1, QueueKept DEF OnConnect
  <2> QED
    BY <2>1, <2>2, <2>3, <2>4 DEF IInv
<1>2. CASE OnDisconnect
  <2>1. TypeOK'
    BY <1>2, ZenonT(90) DEF TypeOK, OnDisconnect
  <2>2. LastRelease'
    BY <1>2, InboxKept DEF OnDisconnect
  <2>3. OneJob' /\ Unmixed'
    BY <1>2 DEF OneJob, Unmixed, OnDisconnect
  <2>4. LastTold'
    BY <1>2, QueueKept DEF OnDisconnect
  <2> QED
    BY <2>1, <2>2, <2>3, <2>4 DEF IInv
<1>3. CASE OnAnnounce
  <2>1. TypeOK'
    <3>1. /\ inbox' \in Seq(Commands \cup Releases) /\ Len(inbox') <= MaxInbox
          /\ ~link' => inbox' = <<>>
      BY <1>3, MqttBridgeAssumption DEF TypeOK, OnAnnounce
    <3>2. /\ offer' \in Releases \cup {None}
          /\ mqtt' \in Telling \cup {None, Register}
      BY <1>3 DEF TypeOK, OnAnnounce
    <3> QED
      BY <1>3, <3>1, <3>2 DEF TypeOK, OnAnnounce
  <2>2. LastRelease'
    <3>1. /\ Head(inbox) \in Releases => offer' = Head(inbox)
          /\ Head(inbox) \in Releases
          /\ UNCHANGED announced /\ inbox # <<>> /\ inbox' = Tail(inbox)
      BY <1>3 DEF OnAnnounce, MayDrop
    <3> QED
      BY <3>1, InboxServed
  <2>3. OneJob' /\ Unmixed'
    BY <1>3 DEF OneJob, Unmixed, OnAnnounce, MayDrop
  <2>4. LastTold'
    BY <1>3, QueueKept DEF OnAnnounce, MayDrop
  <2> QED
    BY <2>1, <2>2, <2>3, <2>4 DEF IInv
<1>4. CASE Handled
  <2>1. CASE mqtt = Register
    <3>1. Publish(Register) /\ presence' \in BOOLEAN
      BY <1>4, <2>1 DEF Handled, PublishRegister, TypeOK
    <3>2. LastTold' /\ out' \in Seq(Telling \cup {Register})
      BY <1>4, <3>1, RegisterQueued DEF Handled
    <3>3. TypeOK'
      BY <1>4, <3>1, <3>2 DEF TypeOK, Handled
    <3> QED
      BY <1>4, <3>2, <3>3, InboxKept DEF Handled, OneJob, Unmixed
  <2>2. CASE mqtt # Register
    <3>1. mqtt \in Telling /\ outcome = None
      BY <1>4, <2>2 DEF Handled, TypeOK, Unmixed
    <3>2. out' \in Seq(Telling \cup {Register}) /\ presence' = presence
      BY <1>4, <2>2, <3>1 DEF Handled, Publish, TypeOK
    <3>3. TypeOK'
      BY <1>4, <3>2 DEF TypeOK, Handled
    <3>4. LastTold'
      BY <1>4, <3>1, NoneIsNoMessage DEF LastTold, Handled
    <3> QED
      BY <1>4, <3>1, <3>3, <3>4, InboxKept DEF Handled, OneJob, Unmixed
  <2> QED
    BY <2>1, <2>2
<1> QED
  BY <1>1, <1>2, <1>3, <1>4

\* A job starts only when no other is about, and so nobody else's message
\* comes after it.
LEMMA JobAccepted ==
  ASSUME IInv, NEW c \in Commands, Accepted(c)
  PROVE  /\ active' = TRUE /\ worker' \in [Commands -> Stage]
         /\ \A d \in Commands : worker'[d] # "idle" => d = c
         /\ told' = None /\ outcome' \in {None, Begun(c)}
         /\ outcome' # None =>
                link /\ mqtt \in {None, Register} /\ outcome'.command = c
         /\ OneJob' /\ LastTold'
<1>1. /\ active' = TRUE /\ worker' \in [Commands -> Stage]
      /\ \A d \in Commands : worker'[d] # "idle" => d = c
  BY DEF Accepted, IInv, TypeOK, OneJob, Stage
<1>2. /\ told' = None /\ outcome' \in {None, Begun(c)}
      /\ outcome' # None =>
             link /\ mqtt \in {None, Register} /\ outcome'.command = c
  BY DEF Accepted, Begun
<1>3. outcome' \notin Telling
  BY <1>2, NoneIsNoMessage, BegunIsNotTold
<1> QED
  BY <1>1, <1>2, <1>3 DEF OneJob, LastTold

LEMMA CommandSteps ==
  ASSUME IInv, OnCommand \/ \E c \in Commands : StartByHttp(c)
  PROVE  IInv'
<1>1. ASSUME NEW c \in Commands, StartByHttp(c) PROVE IInv'
  <2>1. Accepted(c)
    BY <1>1 DEF StartByHttp
  <2>2. TypeOK'
    <3>1. /\ active' = TRUE /\ worker' \in [Commands -> Stage]
          /\ told' = None /\ outcome' \in {None, Begun(c)}
      BY <1>1, <2>1, JobAccepted DEF StartByHttp
    <3> QED
      BY <1>1, <3>1, SMTT(30) DEF IInv, TypeOK, StartByHttp
  <2>3. Unmixed'
    BY <1>1, <2>1, JobAccepted DEF Unmixed, StartByHttp
  <2>4. LastRelease'
    BY <1>1, InboxKept DEF IInv, StartByHttp
  <2> QED
    BY <2>1, <2>2, <2>3, <2>4, JobAccepted DEF IInv
<1>2. ASSUME OnCommand PROVE IInv'
  <2> DEFINE c == Head(inbox)
  <2>1. c \in Commands /\ inbox # <<>> /\ inbox' = Tail(inbox) /\ mqtt = None
    BY <1>2 DEF OnCommand
  <2>2. LastRelease'
    <3>1. c \notin Releases /\ UNCHANGED <<offer, announced>>
      BY <1>2, <2>1, MqttBridgeAssumption DEF OnCommand
    <3> QED
      BY <2>1, <3>1, InboxServed DEF IInv
  <2>3. /\ inbox' \in Seq(Commands \cup Releases) /\ Len(inbox') <= MaxInbox
        /\ ~link' => inbox' = <<>>
    BY <1>2, <2>1, MqttBridgeAssumption DEF IInv, TypeOK, OnCommand
  <2>4. CASE Accepted(c) /\ presence' = TRUE /\ UNCHANGED mqtt
    <3>1. TypeOK'
      BY <1>2, <2>1, <2>3, <2>4, JobAccepted DEF IInv, TypeOK, OnCommand
    <3>2. Unmixed'
      BY <1>2, <2>1, <2>4, JobAccepted DEF Unmixed, OnCommand
    <3> QED
      BY <2>1, <2>2, <2>4, <3>1, <3>2, JobAccepted DEF IInv
  <2>5. CASE Refused(c) /\ Mixed /\ UNCHANGED <<active, worker, presence>>
    <3>1. mqtt' \in Telling
      BY <2>1, <2>5 DEF Refused, Telling, Status
    <3>2. outcome' = None /\ told' = None /\ None \notin Telling
      BY <2>5, NoneIsNoMessage DEF Mixed
    <3>3. TypeOK'
      BY <1>2, <2>3, <2>5, <3>1, <3>2 DEF IInv, TypeOK, OnCommand
    <3>4. OneJob' /\ Unmixed' /\ LastTold'
      BY <2>5, <3>2 DEF IInv, OneJob, Unmixed, LastTold
    <3> QED
      BY <2>2, <3>3, <3>4 DEF IInv
  <2> QED
    BY <1>2, <2>4, <2>5 DEF OnCommand
<1> QED
  BY <1>1, <1>2

LEMMA RegisterSteps ==
  ASSUME IInv, RequestUpdate \/ HeartbeatWakes \/ HeartbeatBeats
  PROVE  IInv'
<1> USE DEF IInv
<1>1. CASE HeartbeatWakes
  <2>1. TypeOK'
    BY <1>1 DEF TypeOK, HeartbeatWakes
  <2> QED
    BY <1>1, <2>1, InboxKept, QueueKept DEF OneJob, Unmixed, HeartbeatWakes
<1>2. CASE RequestUpdate \/ HeartbeatBeats
  <2>1. /\ Publish(Register) /\ presence' \in BOOLEAN
        /\ heartbeat' \in {"asleep", "measuring"}
        /\ UNCHANGED <<session, inbox, mqtt, offer, jobs, offline, announced,
                       faults>>
    BY <1>2 DEF RequestUpdate, HeartbeatBeats, PublishRegister, TypeOK
  <2>2. LastTold' /\ out' \in Seq(Telling \cup {Register})
    BY <2>1, RegisterQueued
  <2>3. TypeOK'
    BY <2>1, <2>2 DEF TypeOK
  <2> QED
    BY <2>1, <2>2, <2>3, InboxKept DEF OneJob, Unmixed
<1> QED
  BY <1>1, <1>2

LEMMA RunSteps ==
  ASSUME IInv, NEW c \in Commands, Run(c)
  PROVE  IInv'
<1>1. /\ UNCHANGED <<session, inbox, publishers, presence, offer, told,
                     rebootAfterApply, offline, announced, faults>>
      /\ worker[c] # "idle" /\ active
  BY DEF Run, IInv, OneJob
<1>2. CASE UNCHANGED active
           /\ \E status \in Status, stage \in Stage : Tells(c, status, stage)
  <2>1. PICK status \in Status, stage \in Stage : Tells(c, status, stage)
    BY <1>2
  <2>2. /\ LastTold' /\ out' \in Seq(Telling \cup {Register})
        /\ outcome' \in Telling \cup {None}
        /\ outcome' = None => told' = None
        /\ outcome = None => outcome' = None
        /\ outcome # None => outcome' = [status |-> status, command |-> c]
    BY <1>1, <2>1, WorkerTells
  <2>3. worker' = [worker EXCEPT ![c] = stage]
    BY <2>1 DEF Tells, Goto
  <2>4. TypeOK'
    BY <1>1, <1>2, <2>2, <2>3 DEF IInv, TypeOK
  <2>5. OneJob'
    BY <1>1, <1>2, <2>3 DEF IInv, TypeOK, OneJob
  <2>6. Unmixed'
    <3>1. outcome' # None => outcome # None /\ outcome'.command = c
      BY <2>2
    <3> QED
      BY <1>1, <2>3, <2>5, <3>1 DEF IInv, TypeOK, OneJob, Unmixed
  <2> QED
    BY <1>1, <2>2, <2>4, <2>5, <2>6, InboxKept DEF IInv
<1>3. CASE /\ UNCHANGED <<outcome, out>>
           /\ \/ worker' = [worker EXCEPT ![c] = "idle"] /\ active' = FALSE
              \/ UNCHANGED active
                 /\ \E stage \in Stage : worker' = [worker EXCEPT ![c] = stage]
  <2>1. active' \in BOOLEAN /\ worker' \in [Commands -> Stage]
    BY <1>3 DEF IInv, TypeOK, Stage
  <2>2. TypeOK'
    BY <1>1, <1>3, <2>1 DEF IInv, TypeOK
  <2>3. OneJob' /\ Unmixed'
    BY <1>1, <1>3 DEF IInv, TypeOK, OneJob, Unmixed
  <2> QED
    BY <1>1, <1>3, <2>2, <2>3, InboxKept, QueueKept DEF IInv
<1>4. \/ UNCHANGED active
         /\ \E status \in Status, stage \in Stage : Tells(c, status, stage)
      \/ UNCHANGED active /\ \E stage \in Stage : Silent(c, stage)
      \/ Silent(c, "idle") /\ active' = FALSE
  BY DEF Run, Status, Stage
<1> QED
  BY <1>2, <1>3, <1>4 DEF Silent, Goto, Stage

LEMMA RestartStep ==
  ASSUME IInv, Restart
  PROVE  IInv'
<1>1. /\ inbox' = <<>> /\ out' = <<>> /\ announced' = None
      /\ outcome' = None /\ told' = None
      /\ worker' = [c \in Commands |-> "idle"]
  BY DEF Restart, Mixed
<1>2. TypeOK'
  <2>1. /\ inbox' \in Seq(Commands \cup Releases) /\ Len(inbox') <= MaxInbox
        /\ out' \in Seq(Telling \cup {Register})
    BY <1>1, MqttBridgeAssumption
  <2>2. worker' \in [Commands -> Stage]
    BY <1>1 DEF Stage
  <2>3. restarts' \in 0..MaxRestarts
    BY MqttBridgeAssumption DEF Restart, IInv, TypeOK
  <2> QED
    BY <1>1, <2>1, <2>2, <2>3 DEF Restart, IInv, TypeOK
<1> QED
  BY <1>1, <1>2, NoneIsNoMessage
     DEF IInv, LastRelease, OneJob, Unmixed, LastTold

LEMMA StepKeeps == IInv /\ [Next]_vars => IInv'
<1> SUFFICES ASSUME IInv, [Next]_vars PROVE IInv'
  OBVIOUS
<1>1. CASE UNCHANGED vars
  <2>1. TypeOK'
    BY <1>1 DEF IInv, TypeOK, vars
  <2> QED
    BY <1>1, <2>1, InboxKept, QueueKept DEF IInv, OneJob, Unmixed, vars
<1> QED
  BY <1>1, ServerSteps, PahoSteps, CommandSteps, RegisterSteps, RunSteps,
     RestartStep DEF Next

-----------------------------------------------------------------------------
\* Every variable of the bridge stays in its range, and the device acts on
\* its link only while its flag says connected, whatever drops when.
THEOREM BridgeTyped == Spec => []TypeOK
<1>1. IInv => TypeOK
  BY DEF IInv
<1> QED
  BY <1>1, Initially, StepKeeps, PTL DEF Spec

\* The release offered to the driver is the last one announced, however many
\* announcements and commands wait to be handled (_handle_release_announce).
THEOREM OffersTheLast == Spec => []OfferIsLastAnnounced
<1>1. IInv => OfferIsLastAnnounced
  <2> SUFFICES ASSUME IInv, announced # None, Range(inbox) \cap Releases = {}
               PROVE  offer = announced
    BY DEF OfferIsLastAnnounced
  <2>1. \A i \in 1..Len(inbox) : inbox[i] \notin Releases
    BY DEF IInv, TypeOK, Range
  <2>2. announced \in Releases
    BY DEF IInv, TypeOK
  <2> QED
    BY <2>1, <2>2 DEF IInv, LastRelease
<1> QED
  BY <1>1, Initially, StepKeeps, PTL DEF Spec

\* While the link holds and no command is refused, nothing the server gets
\* comes after the last status of the job (publish_status), however long the
\* queue, whichever thread started the job and whatever jobs came before.
THEOREM LastWordIsTheJobs == Spec => []OutcomeIsLastTold
<1>1. IInv => OutcomeIsLastTold
  <2> SUFFICES ASSUME IInv, outcome \in Telling, Range(out) \subseteq {Register}
               PROVE  told = outcome
    BY DEF OutcomeIsLastTold
  <2>1. \A i \in 1..Len(out) : out[i] = Register
    BY DEF IInv, TypeOK, Range
  <2> QED
    BY <2>1, NoneIsNoMessage DEF IInv, LastTold
<1> QED
  BY <1>1, Initially, StepKeeps, PTL DEF Spec
=============================================================================
