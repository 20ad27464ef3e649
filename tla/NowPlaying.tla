------------------------------ MODULE NowPlaying ------------------------------
(****************************************************************************)
(* The now-playing half of Audioscrobbler: one track.updateNowPlaying POST  *)
(* at a time, whose answer corrects the track that m_nowPlayingTrack holds. *)
(* It shares no variable with the scrobbling half, see Scrobbler, but the   *)
(* Track objects, of which it writes the corrected names only.              *)
(****************************************************************************)
EXTENDS Naturals

CONSTANTS
    Tracks,        \* Track objects of the application, none equal to another
    NoTrack,       \* Track(), and the null reply
    MaxReplaced    \* bound: replaced network access managers

ASSUME NowPlayingAssumption == NoTrack \notin Tracks /\ MaxReplaced \in Nat

VARIABLES
    nowPlayingTrack,  \* m_nowPlayingTrack
    nowPlayingReply,  \* m_nowPlayingReply: the track posted last, or null
    wire,             \* the POSTs that have not finished: their tracks
    corrected,        \* whose corrected names each Track carries
    replaced          \* bound: managers replaced so far

vars == <<nowPlayingTrack, nowPlayingReply, wire, corrected, replaced>>

Init ==
    /\ nowPlayingTrack = NoTrack /\ nowPlayingReply = NoTrack /\ wire = {}
    /\ corrected = [t \in Tracks |-> NoTrack]
    /\ replaced = 0

\* Seeded bug of nowPlaying(): it does not look whether a reply is awaited.
PlayingAgain(t) ==
    /\ nowPlayingTrack' = t /\ nowPlayingReply' = t
    /\ wire' = wire \cup {t}
    /\ UNCHANGED <<corrected, replaced>>

\* Seeded bug of nowPlaying(): finished() is not connected.
PlayingUnconnected(t) ==
    /\ nowPlayingReply = NoTrack
    /\ nowPlayingTrack' = t /\ nowPlayingReply' = t
    /\ UNCHANGED <<wire, corrected, replaced>>

\* nowPlaying(): while a reply is awaited the call has no effect.
Playing(t) ==
    /\ IF nowPlayingReply = NoTrack
       THEN /\ nowPlayingTrack' = t /\ nowPlayingReply' = t
            /\ wire' = wire \cup {t}
       ELSE UNCHANGED <<nowPlayingTrack, nowPlayingReply, wire>>
    /\ UNCHANGED <<corrected, replaced>>

\* onNowPlayingReturn() on the answer of the POST of t; parseTrack() corrects the
\* track kept since the call, which is by then nobody's when it is Track().
OnNowPlayingReturn(t, outcome) ==
    /\ wire' = wire \ {t}
    /\ corrected' = IF outcome = "corrected" /\ nowPlayingTrack # NoTrack
                    THEN [corrected EXCEPT ![nowPlayingTrack] = t] ELSE corrected
    /\ nowPlayingTrack' = NoTrack
    /\ nowPlayingReply' = NoTrack
    /\ UNCHANGED replaced

\* setNetworkAccessManager(): the reply goes, the QPointer reads null.
ReplaceNam ==
    /\ wire # {} /\ replaced < MaxReplaced
    /\ replaced' = replaced + 1
    /\ wire' = {} /\ nowPlayingReply' = NoTrack
    /\ UNCHANGED <<nowPlayingTrack, corrected>>

Answer == \E t \in wire, outcome \in {"plain", "corrected", "failed"} :
              OnNowPlayingReturn(t, outcome)

Next == (\E t \in Tracks : Playing(t)) \/ Answer \/ ReplaceNam

Spec == Init /\ [][Next]_vars

\* Every POST is answered or fails in the end.
FairSpec == Spec /\ WF_vars(Answer)

----------------------------------------------------------------------------
(* Properties *)

\* Every variable stays in its type.
TypeOK ==
    /\ nowPlayingTrack \in Tracks \cup {NoTrack}
    /\ nowPlayingReply \in Tracks \cup {NoTrack}
    /\ wire \subseteq Tracks
    /\ corrected \in [Tracks -> Tracks \cup {NoTrack}]
    /\ replaced \in 0..MaxReplaced

\* The names an answer corrects are those of the track it was asked about, even
\* when a call came in between or the manager was replaced: parseTrack() writes
\* them to m_nowPlayingTrack, not to the track of the reply.
CorrectionsFit == \A t \in Tracks : corrected[t] \in {NoTrack, t}

\* The reply that makes nowPlaying() a no-op is given back in the end.
ReplyReleased == nowPlayingReply # NoTrack ~> nowPlayingReply = NoTrack

=============================================================================
