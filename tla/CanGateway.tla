----------------------------- MODULE CanGateway -----------------------------
(***************************************************************************)
(* The thread that reads the CAN bus (CanGateway.cpp) and the GUI thread   *)
(* that starts and ends it (InstrumentCluster.cpp).  They share `status`,  *)
(* without a lock: stop() is called in the GUI thread.                     *)
(***************************************************************************)
EXTENDS Sequences, Naturals

CONSTANTS
    Frames,         \* what arrives on the bus
    MaxInbox        \* bound: frames queued for the GUI thread

ASSUME InboxAssumption == MaxInbox \in Nat \ {0}

VARIABLES
    worker,     \* where the thread is in start(), "none" without a thread
    status,     \* CanGateway::status
    quit,       \* QThread::quit was called
    gui,        \* where the GUI thread is, from main() to the last closeCan
    inbox       \* newData queued for the view model

gatewayVars == <<worker, status, quit, gui, inbox>>

Workers == {"none", "started", "checked", "loop", "read", "returned", "ended"}
Closing == {"stop", "quit", "wait", "erase"}

GatewayTypeOK ==
    /\ worker \in Workers
    /\ status \in {"INIT", "READY", "ACTIVE", "STOP"}
    /\ quit \in BOOLEAN
    /\ gui \in {"gone", "opened", "running"} \cup Closing
    /\ inbox \in Seq(Frames) /\ Len(inbox) <= MaxInbox

NoGateway ==
    /\ worker = "none" /\ status = "INIT" /\ quit = FALSE
    /\ gui = "gone" /\ inbox = <<>>

\* The process ends, and its thread with it.
ProcessEnds ==
    /\ worker' = "none" /\ status' = "INIT" /\ quit' = FALSE
    /\ gui' = "gone" /\ inbox' = <<>>

\* openCan: the socket is bound and the thread started, or an exception left
\* nothing behind.
OpenCan ==
    /\ gui = "gone"
    /\ gui' = "opened"
    /\ \/ worker' = "started" /\ status' = "READY"
       \/ worker' = "none" /\ status' = "INIT"
    /\ UNCHANGED <<quit, inbox>>

\* connectCanModel: only from here on is newData queued for anyone.
ConnectCanModel ==
    /\ gui = "opened"
    /\ gui' = "running"
    /\ UNCHANGED <<worker, status, quit, inbox>>

(***************************************************************************)
(* The worker.                                                             *)
(***************************************************************************)
StartChecks ==
    /\ worker = "started"
    /\ worker' = IF status = "READY" THEN "checked" ELSE "returned"
    /\ UNCHANGED <<status, quit, gui, inbox>>

\* A stop() that came since the check is overwritten.
StartActivates ==
    /\ worker = "checked"
    /\ status' = "ACTIVE"
    /\ worker' = "loop"
    /\ UNCHANGED <<quit, gui, inbox>>

LoopLooks ==
    /\ worker = "loop"
    /\ worker' = IF status = "ACTIVE" THEN "read" ELSE "returned"
    /\ UNCHANGED <<status, quit, gui, inbox>>

\* read() has a frame.  The view model is gone when the cluster closes.
ReadFrame(frame) ==
    /\ worker = "read"
    /\ worker' = "loop"
    /\ \/ /\ gui = "running"
          /\ Len(inbox) < MaxInbox
          /\ inbox' = Append(inbox, frame)
       \/ /\ gui # "running"
          /\ UNCHANGED inbox
    /\ UNCHANGED <<status, quit, gui>>

\* read() fails (the interface is down): the loop sleeps and looks again.
ReadFails ==
    /\ worker = "read"
    /\ worker' = "loop"
    /\ UNCHANGED <<status, quit, gui, inbox>>

\* After start() the thread runs its event loop, which ends at once or later
\* with quit().
ThreadEnds ==
    /\ worker = "returned" /\ quit
    /\ worker' = "ended"
    /\ UNCHANGED <<status, quit, gui, inbox>>

(***************************************************************************)
(* The GUI thread at the end of main(): the model is destroyed, then       *)
(* ~InstrumentCluster calls closeCan for the interface that was opened.    *)
(***************************************************************************)
LeaveMain ==
    /\ gui = "running"
    /\ gui' = IF worker = "none" THEN "erase" ELSE "stop"
    /\ inbox' = <<>>
    /\ UNCHANGED <<worker, status, quit>>

Stop ==
    /\ gui = "stop"
    /\ status' = "STOP"
    /\ gui' = "quit"
    /\ UNCHANGED <<worker, quit, inbox>>

Quit ==
    /\ gui = "quit"
    /\ quit' = TRUE
    /\ gui' = "wait"
    /\ UNCHANGED <<worker, status, inbox>>

\* Mutant: the wait has no end of its own.
WaitForEver ==
    /\ gui = "wait" /\ worker = "ended"
    /\ gui' = "erase"
    /\ UNCHANGED <<worker, status, quit, inbox>>

\* wait(CLOSE_WAIT) is over: the thread has ended, or is terminated, in
\* read(), in the sleep or in the log of a signal.
WaitEnds ==
    /\ gui = "wait"
    /\ worker' = "ended"
    /\ gui' = "erase"
    /\ UNCHANGED <<status, quit, inbox>>

\* _threads.erase frees the name closeCan was given, which it then compares
\* with the gateways: whatever that does, the process ends here.
Erase ==
    /\ gui = "erase"
    /\ ProcessEnds

WorkerSteps == StartChecks \/ StartActivates \/ LoopLooks \/ ThreadEnds
ReadReturns == ReadFails \/ \E frame \in Frames : ReadFrame(frame)
ClosingSteps == Stop \/ Quit \/ WaitEnds \/ Erase
=============================================================================
