------------------------------- MODULE Outbox -------------------------------
(****************************************************************************)
(* What the scrobbler promises of the tracks it is handed: they wait in the *)
(* order they came in, the oldest of them are sent, one batch at a time,    *)
(* and none leaves but with an answer to a batch that held its song, or     *)
(* with the end of a file that a crash tore off.  Of the last one in front  *)
(* of the tear the song may be gone; it is sent as what is left of it.      *)
(****************************************************************************)
EXTENDS Naturals, Sequences, FiniteSets

CONSTANTS Songs, Remnants, BatchLimit, MaxCall

VARIABLES
    handed,   \* every track that was handed over, in order, as it now reads
    waiting,  \* the places in `handed' of those that wait
    sending   \* the places of those that were sent and not answered

vars == <<handed, waiting, sending>>

Tracks == [song: Songs, valid: BOOLEAN]

Oldest(w) == {p \in w : Cardinality({r \in w : r < p}) < BatchLimit}

\* A batch goes out when none is under way.
Sends(w) == sending' = IF sending = {} THEN Oldest(w) ELSE sending

Init == handed = <<>> /\ waiting = {} /\ sending = {}

HandOver(tracks) ==
    /\ handed' = handed \o tracks
    /\ waiting' = waiting \cup {Len(handed) + i :
                                  i \in {j \in 1..Len(tracks) : tracks[j].valid}}
    /\ Sends(waiting')

Send == Sends(waiting) /\ UNCHANGED <<handed, waiting>>

\* The answer settles every track with a song of the batch.
Answered ==
    /\ sending # {}
    /\ waiting' = {p \in waiting : \A b \in sending : handed[b].song # handed[p].song}
    /\ sending' = {}
    /\ UNCHANGED handed

\* The batch was put off, or nobody listens to its answer any more.
PutOff == sending' = {} /\ UNCHANGED <<handed, waiting>>

\* A crash keeps the tracks up to place k.
Torn(k) ==
    /\ waiting' = {p \in waiting : p <= k}
    /\ sending' = {}
    /\ UNCHANGED handed

\* The same, and place k reads as the remnant s of its song.
TornWithin(k, s) ==
    /\ k \in waiting
    /\ waiting' = {p \in waiting : p <= k}
    /\ sending' = {}
    /\ handed' = [handed EXCEPT ![k].song = s]

Next ==
    \/ \E n \in 0..MaxCall : \E tracks \in [1..n -> Tracks] : HandOver(tracks)
    \/ Send
    \/ Answered
    \/ PutOff
    \/ \E k \in 0..Len(handed) : Torn(k)
    \/ \E k \in waiting, s \in Remnants : TornWithin(k, s)

Spec == Init /\ [][Next]_vars
=============================================================================
