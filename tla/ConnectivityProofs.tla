-------------------------- MODULE ConnectivityProofs --------------------------
(* Theorems about Connectivity for every value of its constants.              *)
EXTENDS Connectivity, SequenceTheorems, TLAPS

\* What was told last is what m_up says: a monitor that is down has told so.
ToldIsUp == (up \in BOOLEAN) /\ (up <=> told # "down")

UpInv == ToldIsUp /\ UpFollowsDown

\* On Linux no notice comes before the constructors returned, and the youngest
\* notice not yet received is of the network as it is now.
NoticesLeadToNet ==
    /\ phase \in {"new", "read", "watching"} /\ missed \in BOOLEAN
    /\ notices \in Seq(Nets)
    /\ connected \in BOOLEAN
    /\ platform = "linux" =>
         /\ phase # "watching" => notices = <<>>
         /\ phase # "new" /\ ~missed =>
              IF notices = <<>> THEN TellsNet ELSE net = notices[Len(notices)]

LEMMA InitInv == Init => UpInv /\ NoticesLeadToNet
<1>1. Init => UpInv
  BY DEF Init, UpInv, ToldIsUp, UpFollowsDown
<1>2. Init => NoticesLeadToNet
  <2>1. Init => /\ phase = "new" /\ missed = FALSE /\ notices = <<>> /\ connected = TRUE
    BY DEF Init
  <2>2. <<>> \in Seq(Nets)
    OBVIOUS
  <2> QED
    BY <2>1, <2>2 DEF NoticesLeadToNet
<1> QED
  BY <1>1, <1>2

\* The library is not built anew while it runs.
LEMMA PlatformStays == [Next]_vars => platform' = platform
BY DEF Next, ReadState, Watch, Change, OtherAdapter, IndicateEarly, OnStateChange, Request,
       NetworkStep, End, OnFinished, ReplaceNam, vars

----------------------------------------------------------------------------
(* What is told *)

\* onFinished() tells a change of m_up only.
LEMMA FollowInv ==
    ASSUME UpInv, platform' = platform, NEW ending, Follow(ending)
    PROVE  UpInv'
<1>1. CASE ~up /\ ending = "ok"
  BY <1>1 DEF UpInv, ToldIsUp, UpFollowsDown, Follow, TellUp
<1>2. CASE up /\ ending = "unreachable"
  BY <1>2 DEF UpInv, ToldIsUp, UpFollowsDown, Follow
<1>3. CASE ~(~up /\ ending = "ok") /\ ~(up /\ ending = "unreachable")
  BY <1>3 DEF UpInv, ToldIsUp, UpFollowsDown, Follow
<1> QED
  BY <1>1, <1>2, <1>3

\* But for Mac the slots of the platform's monitor tell down() or nothing.
LEMMA NoticeInv ==
    ASSUME UpInv, platform' = platform, NEW state, Notice(state)
    PROVE  UpInv'
<1>1. CASE OnNetworkUp(requests)
  <2>1. CASE platform = "mac"
    BY <1>1, <2>1 DEF UpInv, ToldIsUp, UpFollowsDown, OnNetworkUp, TellUp
  <2>2. CASE platform # "mac"
    BY <1>1, <2>2 DEF UpInv, ToldIsUp, UpFollowsDown, OnNetworkUp
  <2> QED
    BY <2>1, <2>2
<1>2. CASE OnNetworkDown(requests)
  BY <1>2 DEF UpInv, ToldIsUp, UpFollowsDown, OnNetworkDown
<1>3. CASE UNCHANGED <<up, told>>
  BY <1>3 DEF UpInv, ToldIsUp, UpFollowsDown
<1>4. OnNetworkUp(requests) \/ OnNetworkDown(requests) \/ UNCHANGED <<up, told>>
  BY DEF Notice
<1> QED
  BY <1>1, <1>2, <1>3, <1>4

LEMMA NextUpInv == UpInv /\ [Next]_vars => UpInv'
<1> SUFFICES ASSUME UpInv, [Next]_vars PROVE UpInv'
  OBVIOUS
<1>0. platform' = platform
  BY PlatformStays
<1>1. CASE OnStateChange
  BY <1>0, <1>1, NoticeInv DEF OnStateChange
<1>2. CASE \E id \in Ids : NetworkStep(id)
  <2>1. ASSUME NEW r \in requests, OnFinished(r) PROVE UpInv'
    <3>1. CASE Follow(r.ending)
      BY <1>0, <3>1, FollowInv
    <3>2. CASE UNCHANGED <<up, told>>
      BY <1>0, <3>2 DEF UpInv, ToldIsUp, UpFollowsDown
    <3> QED
      BY <2>1, <3>1, <3>2 DEF OnFinished
  <2>2. ASSUME NEW r \in requests, NEW ending \in Endings, End(r, ending) PROVE UpInv'
    BY <1>0, <2>2 DEF End, UpInv, ToldIsUp, UpFollowsDown
  <2> QED
    BY <1>2, <2>1, <2>2 DEF NetworkStep
<1>3. CASE UNCHANGED <<up, told>>
  BY <1>0, <1>3 DEF UpInv, ToldIsUp, UpFollowsDown
<1>4. \/ ReadState \/ Watch \/ IndicateEarly \/ Request \/ ReplaceNam \/ UNCHANGED vars
        => UNCHANGED <<up, told>>
  BY DEF ReadState, Watch, IndicateEarly, Request, ReplaceNam, vars
<1>5. ASSUME NEW state \in Nets, Change(state) PROVE UpInv'
  BY <1>0, <1>5 DEF Change, UpInv, ToldIsUp, UpFollowsDown
<1>6. ASSUME NEW state \in {"offline", "limited"}, OtherAdapter(state) PROVE UpInv'
  BY <1>0, <1>6 DEF OtherAdapter, UpInv, ToldIsUp, UpFollowsDown
<1> QED
  BY <1>1, <1>2, <1>3, <1>4, <1>5, <1>6 DEF Next

\* onNetworkDown() and onFinished() of Linux and Windows: up() is only ever heard after
\* down(), for any number of calls and notices.
THEOREM UpIsHeardAfterDown == Spec => []UpFollowsDown
<1>1. UpInv => UpFollowsDown
  BY DEF UpInv
<1> QED
  BY <1>1, InitInv, NextUpInv, PTL DEF Spec

----------------------------------------------------------------------------
(* What m_connected tells *)

\* setConnected() with the state of a notice leaves m_connected telling it.
LEMMA NoticeTells ==
    ASSUME connected \in BOOLEAN, NEW state, Notice(state), platform = "linux",
           net = state, UNCHANGED <<net, platform>>
    PROVE  TellsNet'
<1>1. ~(Connected(state) /\ Disconnected(state))
  BY DEF Connected, Disconnected
<1>2. CASE Connected(state) /\ ~connected
  BY <1>1, <1>2 DEF Notice, TellsNet, Connected, Disconnected
<1>3. CASE Disconnected(state) /\ connected
  BY <1>1, <1>3 DEF Notice, TellsNet, Connected, Disconnected
<1>4. CASE ~(Connected(state) /\ ~connected) /\ ~(Disconnected(state) /\ connected)
  <2>1. connected' = connected
    BY <1>4 DEF Notice
  <2> QED
    BY <1>4, <2>1 DEF TellsNet, Connected, Disconnected
<1> QED
  BY <1>2, <1>3, <1>4

LEMMA NextNoticesLeadToNet == NoticesLeadToNet /\ [Next]_vars => NoticesLeadToNet'
<1> SUFFICES ASSUME NoticesLeadToNet, [Next]_vars PROVE NoticesLeadToNet'
  OBVIOUS
<1>0. platform' = platform
  BY PlatformStays
<1>1. CASE ReadState
  BY <1>0, <1>1 DEF ReadState, NoticesLeadToNet, TellsNet, Connected, Disconnected
<1>2. CASE Watch
  BY <1>0, <1>2 DEF Watch, NoticesLeadToNet, TellsNet, Connected, Disconnected
<1>3. ASSUME NEW state \in Nets, Change(state) PROVE NoticesLeadToNet'
  <2>1. CASE notices' = Append(notices, state)
    <3>1. notices' \in Seq(Nets) /\ notices' # <<>> /\ notices'[Len(notices')] = state
      BY <2>1 DEF NoticesLeadToNet
    <3> QED
      BY <1>0, <1>3, <2>1, <3>1 DEF Change, NoticesLeadToNet
  <2>2. CASE phase # "watching" /\ UNCHANGED notices /\ missed' = (missed \/ phase = "read")
    BY <1>0, <1>3, <2>2 DEF Change, NoticesLeadToNet
  <2>3. CASE platform = "windows" /\ UNCHANGED <<notices, missed>>
    BY <1>0, <1>3, <2>3 DEF Change, NoticesLeadToNet
  <2>4. \/ notices' = Append(notices, state)
        \/ phase # "watching" /\ UNCHANGED notices /\ missed' = (missed \/ phase = "read")
        \/ platform = "windows" /\ UNCHANGED <<notices, missed>>
    BY <1>3 DEF Change, Reported
  <2> QED
    BY <2>1, <2>2, <2>3, <2>4
<1>7. ASSUME NEW state \in {"offline", "limited"}, OtherAdapter(state)
      PROVE  NoticesLeadToNet'
  <2>1. state \in Nets
    BY DEF Nets
  <2>2. notices' \in Seq(Nets)
    BY <1>7, <2>1 DEF OtherAdapter, NoticesLeadToNet
  <2> QED
    BY <1>0, <1>7, <2>2 DEF OtherAdapter, NoticesLeadToNet
<1>8. CASE IndicateEarly
  <2>1. notices' \in Seq(Nets) /\ connected' \in BOOLEAN
    BY <1>8 DEF IndicateEarly, NoticesLeadToNet, Connected
  <2> QED
    BY <1>0, <1>8, <2>1 DEF IndicateEarly, NoticesLeadToNet
<1>4. CASE OnStateChange
  <2>1. /\ notices # <<>> /\ notices' = Tail(notices) /\ Notice(Head(notices))
        /\ UNCHANGED <<phase, net, missed>> /\ phase = "watching"
    BY <1>4 DEF OnStateChange
  <2>2. notices' \in Seq(Nets)
    BY <2>1 DEF NoticesLeadToNet
  <2>3. connected' \in BOOLEAN
    BY <2>1 DEF NoticesLeadToNet, Notice
  <2>4. ASSUME platform = "linux", ~missed, notices' = <<>> PROVE TellsNet'
    <3>1. net = notices[Len(notices)]
      BY <2>1, <2>4 DEF NoticesLeadToNet
    <3>2. notices \in Seq(Nets) /\ notices # <<>> /\ Tail(notices) = <<>>
      BY <2>1, <2>4 DEF NoticesLeadToNet
    <3>3. Len(notices) = 1
      <4> DEFINE m == Len(Tail(notices))
                 n == Len(notices)
      <4>1. Tail(notices) \in Seq(Nets) /\ n \in Nat /\ m = n - 1
        BY <3>2, HeadTailProperties
      <4>2. m = 0
        BY <3>2, <4>1, EmptySeq
      <4> HIDE DEF m, n
      <4>3. n = 1
        BY <4>1, <4>2
      <4> QED
        BY <4>3 DEF n
    <3>4. net = Head(notices)
      BY <3>1, <3>2, <3>3
    <3> QED
      BY <1>0, <2>1, <2>4, <3>4, NoticeTells DEF NoticesLeadToNet
  <2>5. ASSUME platform = "linux", ~missed, notices' # <<>>
        PROVE  net = notices'[Len(notices')]
    BY <2>1, <2>5 DEF NoticesLeadToNet
  <2> QED
    BY <1>0, <2>1, <2>2, <2>3, <2>4, <2>5 DEF NoticesLeadToNet
<1>5. CASE UNCHANGED <<phase, net, missed, notices, connected>>
  BY <1>0, <1>5 DEF NoticesLeadToNet, TellsNet, Connected, Disconnected
<1>6. Request \/ (\E id \in Ids : NetworkStep(id)) \/ ReplaceNam \/ UNCHANGED vars
        => UNCHANGED <<phase, net, missed, notices, connected>>
  BY DEF Request, NetworkStep, OnFinished, End, ReplaceNam, vars
<1> QED
  BY <1>1, <1>2, <1>3, <1>4, <1>5, <1>6, <1>7, <1>8 DEF Next

\* The Linux monitor: with every StateChange received, m_connected is the state of
\* the network, unless it changed before the constructor had connected the signal.
THEOREM MonitorTellsNet == Spec => []ConnectedTellsNet
<1>1. NoticesLeadToNet => ConnectedTellsNet
  BY DEF NoticesLeadToNet, ConnectedTellsNet
<1> QED
  BY <1>1, InitInv, NextNoticesLeadToNet, PTL DEF Spec

=============================================================================
