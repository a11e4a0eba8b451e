-------------------------- MODULE BluetoothTracks --------------------------
(***************************************************************************)
(* Whose music the page shows: the Bluetooth manager and player with the   *)
(* track and status data of the phones' players.  A subscription to the    *)
(* changes of a player object is never taken back, and its handler does    *)
(* not look at which object a change comes from.                           *)
(***************************************************************************)
EXTENDS BluetoothManager

VARIABLES
    shown,          \* the phone whose track and status are shown, or None
    subscribed,     \* the phones whose PropertiesChanged reaches the player
    news            \* the phones with a change on its way

trackVars == <<shown, subscribed, news>>

TracksInit == Init /\ shown = None /\ subscribed = {} /\ news = {}

\* Discovery subscribes to the player and reads its track and status at once.
InitialProperties ==
    /\ shown' = mediaPlayerInterface'
    /\ subscribed' = subscribed \cup {mediaPlayerInterface'}
    /\ UNCHANGED news

\* resetState: "No Track", stopped; the subscriptions stay.
ResetState ==
    /\ shown' = IF devicePath # None /\ devicePath' = None THEN None ELSE shown
    /\ UNCHANGED <<subscribed, news>>

Step ==
    \/ Discover /\ InitialProperties
    \/ (Surroundings \/ Handlers) /\ ResetState
    \/ Restart /\ shown' = None /\ subscribed' = {} /\ news' = {}

\* A phone's player announces another track or status.
PlayerAnnounces(p) ==
    /\ p \in players
    /\ news' = news \cup {p}
    /\ UNCHANGED <<vars, shown, subscribed>>

MediaPlayerPropertiesChanged(p) ==
    /\ p \in news
    /\ news' = news \ {p}
    /\ shown' = IF p \in subscribed THEN p ELSE shown
    /\ UNCHANGED <<vars, subscribed>>

TracksNext ==
    \/ Step
    \/ \E p \in Phone : PlayerAnnounces(p) \/ MediaPlayerPropertiesChanged(p)

TracksSpec ==
    /\ TracksInit /\ [][TracksNext]_<<vars, trackVars>>
    /\ WF_<<vars, trackVars>>(CheckConnectionStatus /\ Step)
    /\ WF_<<vars, trackVars>>(Discover /\ Step)
    /\ WF_<<vars, trackVars>>(DeliverOwnerEvent /\ Step)

\* What the player's header says of it: the page has the metadata of the
\* connected phone.  While one phone stays connected, known to manager and
\* player alike, and keeps its music app, what is shown is its music.
ShowsConnectedPhone ==
    \A p \in Phone :
        <>[](Present(p) /\ device = p /\ devicePath = p) => <>(shown = p)
=============================================================================
