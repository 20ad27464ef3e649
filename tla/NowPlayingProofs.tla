--------------------------- MODULE NowPlayingProofs ---------------------------
(* Theorems about NowPlaying for every value of its constants.                *)
EXTENDS NowPlaying, TLAPS

\* The lock of nowPlaying(): without a reply nothing is on the wire, else the
\* one POST is that of m_nowPlayingTrack.
ReplyLock ==
    IF nowPlayingReply = NoTrack
    THEN wire = {}
    ELSE wire = {nowPlayingReply} /\ nowPlayingTrack = nowPlayingReply

IInv == TypeOK /\ ReplyLock /\ CorrectionsFit

\* nowPlaying() posts only when nothing is on the wire.
LEMMA PlayingInv ==
    ASSUME IInv, NEW t \in Tracks, Playing(t)
    PROVE  IInv'
<1>1. CASE nowPlayingReply = NoTrack
  <2>1. TypeOK'
    BY <1>1 DEF IInv, TypeOK, Playing
  <2>2. ReplyLock'
    BY <1>1, NowPlayingAssumption DEF IInv, ReplyLock, Playing
  <2>3. CorrectionsFit'
    BY DEF IInv, CorrectionsFit, Playing
  <2> QED
    BY <2>1, <2>2, <2>3 DEF IInv
<1>2. CASE nowPlayingReply # NoTrack
  BY <1>2 DEF IInv, TypeOK, ReplyLock, CorrectionsFit, Playing
<1> QED
  BY <1>1, <1>2

\* The answer is that of m_nowPlayingTrack, which takes the corrected names.
LEMMA OnNowPlayingReturnInv ==
    ASSUME IInv, NEW t \in wire, NEW outcome, OnNowPlayingReturn(t, outcome)
    PROVE  IInv'
<1>1. nowPlayingReply # NoTrack /\ wire = {t} /\ nowPlayingTrack = t
  BY DEF IInv, ReplyLock
<1>2. t \in Tracks
  BY DEF IInv, TypeOK
<1>3. corrected' = corrected \/ corrected' = [corrected EXCEPT ![t] = t]
  BY <1>1 DEF OnNowPlayingReturn
<1>4. corrected' \in [Tracks -> Tracks \cup {NoTrack}]
  BY <1>2, <1>3 DEF IInv, TypeOK
<1>5. TypeOK'
  BY <1>4 DEF IInv, TypeOK, OnNowPlayingReturn
<1>6. ReplyLock'
  BY <1>1 DEF ReplyLock, OnNowPlayingReturn
<1>7. CorrectionsFit'
  BY <1>2, <1>3 DEF IInv, TypeOK, CorrectionsFit
<1> QED
  BY <1>5, <1>6, <1>7 DEF IInv

\* The replies are deleted with the old manager, the kept track stays.
LEMMA ReplaceNamInv ==
    ASSUME IInv, ReplaceNam
    PROVE  IInv'
BY NowPlayingAssumption DEF IInv, TypeOK, ReplyLock, CorrectionsFit, ReplaceNam

\* The invariant is inductive.
LEMMA NextInv == IInv /\ [Next]_vars => IInv'
<1> SUFFICES ASSUME IInv, [Next]_vars PROVE IInv'
  OBVIOUS
<1>1. ASSUME NEW t \in Tracks, Playing(t) PROVE IInv'
  BY <1>1, PlayingInv
<1>2. CASE Answer
  BY <1>2, OnNowPlayingReturnInv DEF Answer
<1>3. CASE ReplaceNam
  BY <1>3, ReplaceNamInv
<1>4. CASE UNCHANGED vars
  BY <1>4 DEF vars, IInv, TypeOK, ReplyLock, CorrectionsFit
<1> QED
  BY <1>1, <1>2, <1>3, <1>4 DEF Next

LEMMA InitInv == Init => IInv
<1> SUFFICES ASSUME Init PROVE IInv
  OBVIOUS
<1>1. corrected \in [Tracks -> Tracks \cup {NoTrack}] /\ CorrectionsFit
  BY DEF Init, CorrectionsFit
<1>2. replaced \in 0..MaxReplaced
  BY NowPlayingAssumption DEF Init
<1>3. TypeOK /\ ReplyLock
  BY <1>1, <1>2 DEF Init, TypeOK, ReplyLock
<1> QED
  BY <1>1, <1>3 DEF IInv

\* nowPlaying() and onNowPlayingReturn(): the corrected names an answer carries
\* are written to the track the POST was about, for any number of tracks and of
\* replaced managers.
THEOREM CorrectionsReachTheirTrack == Spec => []CorrectionsFit
<1>1. IInv => CorrectionsFit
  BY DEF IInv
<1> QED
  BY <1>1, InitInv, NextInv, PTL DEF Spec

=============================================================================
