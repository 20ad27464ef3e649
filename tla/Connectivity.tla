----------------------------- MODULE Connectivity -----------------------------
(****************************************************************************)
(* InternetConnectionMonitor, the NetworkConnectionMonitor of the platform  *)
(* below it and the calls of the shared network access manager.  Whether    *)
(* there is a network, and an internet behind it, changes outside of the    *)
(* process, also between two calls of a constructor; the slots of the       *)
(* monitors run one after the other.                                        *)
(****************************************************************************)
EXTENDS Naturals, Sequences, FiniteSets

CONSTANTS
    Platforms,       \* what the library is built for: "linux", "mac", "windows"
    MaxRequests,     \* bound: calls under way when another one is made
    MaxNotices,      \* bound: state changes reported and not yet received
    MayReplaceNam    \* whether setNetworkAccessManager() is called

\* How a call finishes: with NoError; with one of the errors of onFinished() that
\* mean no internet; with any other error, or out of the cache, which
\* createRequest() prefers, of which onFinished() makes nothing.
Endings == {"ok", "unreachable", "other"}

\* No network, one being set up, a network without internet, and with it.
Nets == {"offline", "connecting", "limited", "online"}

ASSUME ConnectivityAssumption ==
    /\ Platforms \subseteq {"linux", "mac", "windows"}
    /\ MaxRequests \in Nat /\ MaxNotices \in Nat
    /\ MayReplaceNam \in BOOLEAN

VARIABLES
    platform,   \* which NetworkConnectionMonitor was built
    phase,      \* of the constructors: "new", "read", then "watching"
    net,        \* the world: a member of Nets
    missed,     \* history: the state was not read, or changed before the watching
    notices,    \* state changes reported to the process, oldest first
    connected,  \* NetworkConnectionMonitor::m_connected
    up,         \* InternetConnectionMonitor::m_up
    followed,   \* finished() of the current manager reaches onFinished()
    requests,   \* the calls under way
    told        \* history: what the listeners of the monitor heard last

vars == <<platform, phase, net, missed, notices, connected, up, followed, requests, told>>

Ids == 1..(MaxRequests + 1)
Requests == [id: Ids, ending: Endings \cup {"none"}]
Told == {"nothing", "up", "down", "up without down"}

\* What the platform calls a state with, and one without, a connection; of a
\* network being set up Linux tells neither, Mac takes it for none, and Windows
\* for one, since its events are about the medium.
Connected(state) ==
    state \in {"limited", "online"} \/ (platform = "windows" /\ state = "connecting")
Disconnected(state) ==
    state = "offline" \/ (platform = "mac" /\ state = "connecting")

Sent(calls) ==
    calls \cup {[id |-> CHOOSE i \in Ids : \A c \in calls : c.id # i, ending |-> "none"]}

\* emit up(): unfounded when down() was not what the listeners heard last.
TellUp == told' = IF told = "down" THEN "up" ELSE "up without down"

----------------------------------------------------------------------------
(* The monitor of the internet *)

\* Whether a change to this state is an event: on Windows a medium comes or goes.
Reported(state) == platform = "windows" => (state = "offline") # (net = "offline")

\* onNetworkUp(): Mac trusts the network, the others try a HEAD.
OnNetworkUp(calls) ==
    IF platform = "mac"
    THEN up' = TRUE /\ TellUp /\ requests' = calls
    ELSE requests' = Sent(calls) /\ UNCHANGED <<up, told>>

\* onNetworkDown(): down, whatever was told before.
OnNetworkDown(calls) ==
    /\ up' = FALSE /\ told' = "down" /\ requests' = calls

\* Seeded bug of onFinished(): it does not look whether the monitor is up.
FollowAgain(ending) ==
    CASE ending = "ok"          -> up' = TRUE /\ TellUp
      [] ending = "unreachable" -> up' = FALSE /\ told' = "down"
      [] OTHER                  -> UNCHANGED <<up, told>>

\* Seeded bug of onFinished(): a success does not bring the monitor up.
FollowDown(ending) ==
    IF ending = "unreachable" THEN up' = FALSE /\ told' = "down"
                              ELSE UNCHANGED <<up, told>>

\* Seeded bug of onFinished(): a failure does not bring it down.
FollowUp(ending) ==
    IF ~up /\ ending = "ok" THEN up' = TRUE /\ TellUp ELSE UNCHANGED <<up, told>>

\* onFinished(): only a change of m_up is told.
Follow(ending) ==
    CASE ~up /\ ending = "ok"         -> up' = TRUE /\ TellUp
      [] up /\ ending = "unreachable" -> up' = FALSE /\ told' = "down"
      [] OTHER                        -> UNCHANGED <<up, told>>

----------------------------------------------------------------------------
(* The steps *)

Init ==
    /\ platform \in Platforms
    /\ phase = "new" /\ net \in Nets /\ missed = FALSE /\ notices = <<>>
    /\ connected = TRUE /\ up = TRUE
    /\ followed = FALSE /\ requests = {} /\ told = "nothing"

\* The constructor of the platform's monitor: Linux asks for the state, which may
\* fail, and networkDown() is emitted before anything is connected to it; Mac and
\* Windows only ask for what changes from then on.
ReadState ==
    /\ phase = "new"
    /\ phase' = "read"
    /\ \/ /\ platform = "linux"
          /\ connected' = ~Disconnected(net)
          /\ UNCHANGED missed
       \/ missed' = TRUE /\ UNCHANGED connected
    /\ UNCHANGED <<platform, net, notices, up, followed, requests, told>>

\* From here on the changes of the network and the calls are followed.
Watch ==
    /\ phase = "read"
    /\ phase' = "watching"
    /\ followed' = TRUE
    /\ UNCHANGED <<platform, net, missed, notices, connected, up, requests, told>>

\* The world changes.  Linux follows it from the end of the constructors only; on
\* Mac the run loop keeps what happens from the moment it is scheduled, on Windows
\* the query from the moment it is executed.
Change(state) ==
    /\ state # net
    /\ net' = state
    /\ IF phase = "watching" \/ (platform # "linux" /\ phase = "read")
       THEN /\ Len(notices) < MaxNotices
            /\ notices' = IF Reported(state) THEN Append(notices, state) ELSE notices
            /\ UNCHANGED missed
       ELSE /\ missed' = (missed \/ phase = "read")
            /\ UNCHANGED notices
    /\ UNCHANGED <<platform, phase, connected, up, followed, requests, told>>

\* Seeded bug of setConnected(): m_connected is not assigned.
NoticeForgotten(state) ==
    /\ connected' = connected
    /\ CASE Connected(state) /\ ~connected   -> OnNetworkUp(requests)
         [] Disconnected(state) /\ connected -> OnNetworkDown(requests)
         [] OTHER -> UNCHANGED <<up, requests, told>>

\* setConnected() for the state of a notice, and the slot it calls.
Notice(state) ==
    CASE Connected(state) /\ ~connected   -> connected' = TRUE  /\ OnNetworkUp(requests)
      [] Disconnected(state) /\ connected -> connected' = FALSE /\ OnNetworkDown(requests)
      [] OTHER -> UNCHANGED <<connected, up, requests, told>>

\* Windows sends the events of every adapter, and nobody looks at its name: one
\* that loses its medium counts though another one keeps the network.
OtherAdapter(state) ==
    /\ platform = "windows" /\ phase # "new" /\ net # "offline"
    /\ Len(notices) < MaxNotices
    /\ notices' = Append(notices, state)
    /\ UNCHANGED <<platform, phase, net, missed, connected, up, followed, requests, told>>

\* Indicate() inside the second call of registerForNdisEvents(): setConnected()
\* emits before InternetConnectionMonitor is connected to it.
IndicateEarly ==
    /\ platform = "windows" /\ phase = "read"
    /\ notices # <<>>
    /\ notices' = Tail(notices)
    /\ connected' = Connected(Head(notices))
    /\ UNCHANGED <<platform, phase, net, missed, up, followed, requests, told>>

\* onStateChange() on Linux, callback() on Mac, Indicate() on Windows, for the
\* oldest notice; what the callback of Mac remembers in its static variable is
\* m_connected.
OnStateChange ==
    /\ phase = "watching"
    /\ notices # <<>>
    /\ Cardinality(requests) <= MaxRequests
    /\ notices' = Tail(notices)
    /\ Notice(Head(notices))
    /\ UNCHANGED <<platform, phase, net, missed, followed>>

\* The application makes a call.
Request ==
    /\ Cardinality(requests) < MaxRequests
    /\ requests' = Sent(requests)
    /\ UNCHANGED <<platform, phase, net, missed, notices, connected, up, followed, told>>

\* How a call ends is decided before finished() is emitted.
End(r, ending) ==
    /\ r.ending = "none"
    /\ ending = "ok" => net = "online"
    /\ ending = "unreachable" => net # "online"
    /\ requests' = (requests \ {r}) \cup {[id |-> r.id, ending |-> ending]}
    /\ UNCHANGED <<platform, phase, net, missed, notices, connected, up, followed, told>>

\* finished(): onFinished() runs if it is connected to this manager.
OnFinished(r) ==
    /\ r.ending # "none"
    /\ requests' = requests \ {r}
    /\ IF followed THEN Follow(r.ending) ELSE UNCHANGED <<up, told>>
    /\ UNCHANGED <<platform, phase, net, missed, notices, connected, followed>>

\* setNetworkAccessManager(): nobody follows the new manager.
ReplaceNam ==
    /\ MayReplaceNam
    /\ requests' = {}
    /\ followed' = FALSE
    /\ UNCHANGED <<platform, phase, net, missed, notices, connected, up, told>>

NetworkStep(id) ==
    \E r \in requests :
        r.id = id /\ (OnFinished(r) \/ \E ending \in Endings : End(r, ending))

Next ==
    \/ ReadState \/ Watch
    \/ \E state \in Nets : Change(state)
    \/ \E state \in {"offline", "limited"} : OtherAdapter(state)
    \/ IndicateEarly \/ OnStateChange
    \/ Request
    \/ \E id \in Ids : NetworkStep(id)
    \/ ReplaceNam

Spec == Init /\ [][Next]_vars

\* The constructors return, notices are received and every call finishes in the end.
Fairness ==
    /\ WF_vars(ReadState) /\ WF_vars(Watch) /\ WF_vars(OnStateChange)
    /\ \A id \in Ids : WF_vars(NetworkStep(id))

FairSpec == Spec /\ Fairness

----------------------------------------------------------------------------
(* Properties *)

\* Every variable stays in its type.
TypeOK ==
    /\ platform \in Platforms
    /\ phase \in {"new", "read", "watching"}
    /\ net \in Nets /\ missed \in BOOLEAN
    /\ notices \in Seq(Nets)
    /\ connected \in BOOLEAN /\ up \in BOOLEAN /\ followed \in BOOLEAN
    /\ requests \subseteq Requests
    /\ told \in Told

\* But for Mac a listener hears up() only after down(), though two independent
\* slots bring the monitor down: up() always takes a call that ended well.
UpFollowsDown == platform # "mac" => told # "up without down"

\* m_connected tells whether there is a network; one being set up says nothing.
TellsNet ==
    /\ Connected(net) => connected
    /\ Disconnected(net) => ~connected

\* With every notice received, m_connected tells whether there is a network, unless
\* the state could not be read, or changed between the read and the watching.
ConnectedTellsNet ==
    phase = "watching" /\ notices = <<>> /\ ~missed /\ platform = "linux" => TellsNet

\* The calls of a manager that is followed go on ending this way in a network
\* that stays in this state, with no other adapter coming and going.
Settled(state, ending) ==
    /\ <>[](net = state /\ followed /\ notices = <<>>)
    /\ []<>(\E r \in requests : r.ending = ending)

\* The monitor is up in the end when the network stays online and calls go on
\* ending well, whatever failures and notices of before come in late.
UpInTheEnd == Settled("online", "ok") => <>[]up

\* And down when the network stays away and calls go on failing.
DownInTheEnd == Settled("offline", "unreachable") => <>[]~up

\* Whatever came before, the monitor agrees in the end with a world that settles
\* and goes on being asked.
AgreesInTheEnd == UpInTheEnd /\ DownInTheEnd

==============================================================================
