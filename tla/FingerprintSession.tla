------------------------- MODULE FingerprintSession -------------------------
(***************************************************************************)
(* src/fingerprint/Fingerprint.cpp: the life of Fingerprint objects, from  *)
(* the identifier in the collection over generate() and submit() to the    *)
(* answer that decode() stores, as the program in contrib/main.cpp and     *)
(* EXAMPLE.cpp drives them.  The track is shared with the player, which    *)
(* may give it another url meanwhile.                                      *)
(***************************************************************************)
EXTENDS Collection

CONSTANTS
  Objects,     \* Fingerprint objects
  Nobody,      \* the process of an object that is not constructed
  ServiceId,   \* the identifiers that the service gives each file
  MaxRows,     \* bound: rows of a table without its index
  MaxMoves     \* bound: tracks that get another url

(* External: different samples get different identifiers.                  *)
ASSUME IdsDiffer ==
  /\ ServiceId \in [Files -> SUBSET Ids]
  /\ \A f, g \in Files : f # g => ServiceId[f] \cap ServiceId[g] = {}

VARIABLES
  proc,      \* the process of each object
  url,       \* m_track.url().toLocalFile()
  m_id,      \* -1 for null
  m_data,    \* the file whose samples m_data is made of; Nobody for none
  complete,  \* m_complete
  reply,     \* the file whose samples submit() posted; Nobody without a reply
  requested, \* *complete_fingerprint_requested of decode(); Nobody before it
  latest,    \* history: the answer that was stored last for each file
  moves      \* history: the files whose tracks were moved

objVars == <<proc, url, m_id, m_data, complete, reply, requested, latest, moves>>
vars    == <<colVars, objVars>>

Init ==
  /\ CollectionInit
  /\ proc = [o \in Objects |-> Nobody]
  /\ url = [o \in Objects |-> Nobody]
  /\ m_id = [o \in Objects |-> -1] /\ m_data = [o \in Objects |-> Nobody]
  /\ complete = [o \in Objects |-> FALSE] /\ reply = [o \in Objects |-> Nobody]
  /\ requested = [o \in Objects |-> Nobody]
  /\ latest = [f \in Files |-> NoId] /\ moves = {}

(* The constructor; a CompleteFingerprint is made when one was requested.  *)
(* The query of the identifier may fail, and does where the file is shut.  *)
New(o, p, f) ==
  /\ proc[o] = Nobody /\ at[p] \in {"up", "shut"}
  /\ proc' = [proc EXCEPT ![o] = p] /\ url' = [url EXCEPT ![o] = f]
  /\ \/ /\ m_id' = [m_id EXCEPT ![o] =
                        IF at[p] = "shut" \/ GetFingerprintId(f) = NoId THEN -1
                        ELSE GetFingerprintId(f)]
        /\ UNCHANGED failures
     \/ m_id' = [m_id EXCEPT ![o] = -1] /\ Fails
  /\ complete' = [complete EXCEPT ![o] =
                    \E q \in Objects : proc[q] = p /\ url[q] = f /\ requested[q] = TRUE]
  /\ UNCHANGED <<at, dbVars, behind, crashes, m_data, reply, requested, latest,
                 moves>>

(* generate(): the sources and the extractor, see MCSources; an exception  *)
(* leaves the object as it was.                                            *)
Generate(o) ==
  /\ proc[o] # Nobody /\ m_data[o] = Nobody /\ (m_id[o] = -1 \/ complete[o])
  /\ m_data' = [m_data EXCEPT ![o] = url[o]]
  /\ UNCHANGED <<colVars, proc, url, m_id, complete, reply, requested,
                 latest, moves>>

(* submit() gives no reply as long as there is no data.  The program asks  *)
(* until decode() has not thrown.                                          *)
Submit(o) ==
  /\ proc[o] # Nobody /\ m_data[o] # Nobody /\ reply[o] = Nobody
  /\ (m_id[o] = -1 \/ complete[o]) /\ requested[o] = Nobody
  /\ reply' = [reply EXCEPT ![o] = m_data[o]]
  /\ UNCHANGED <<colVars, proc, url, m_id, m_data, complete, requested,
                 latest, moves>>

(* External: the service knows a fingerprint by its samples, FOUND or NEW; *)
(* or the request fails, and the body is empty or an error string.         *)
Answers(o) == [good : {TRUE}, id : ServiceId[reply[o]], new : BOOLEAN]
                \cup {[good |-> FALSE, id |-> 0, new |-> FALSE]}

(* (int)fpid_as_uint.                                                      *)
AsInt(id) == IF Fits(id) THEN id ELSE id - 2 * IntLimit

TableRows == UNION {{f} \X DOMAIN rows[f] : f \in Files}
(* decode() of the finished reply: a bad one throws before anything is     *)
(* stored.  The file is the track's of now.                                *)
Decode(o) ==
  /\ proc[o] # Nobody /\ reply[o] # Nobody
  /\ (hasIndex \/ Cardinality(TableRows) < MaxRows)
  /\ \E answer \in Answers(o) :
       IF ~answer.good
       THEN UNCHANGED <<m_id, requested, latest, dbVars, failures>>
       ELSE /\ IF at[proc[o]] = "shut" THEN UNCHANGED <<dbVars, failures, latest>>
               ELSE /\ SetFingerprintId(url[o], answer.id)
                    /\ latest' = IF failures' = failures
                                 THEN [latest EXCEPT ![url[o]] = answer.id] ELSE latest
            /\ requested' = [requested EXCEPT ![o] = answer.new]
            /\ m_id' = [m_id EXCEPT ![o] = AsInt(answer.id)]
  /\ reply' = [reply EXCEPT ![o] = Nobody]
  /\ UNCHANGED <<at, behind, crashes, proc, url, m_data, complete, moves>>

(* MutableTrack::setUrl() on the shared data of the track.                 *)
SetUrl(o, f) ==
  /\ proc[o] # Nobody /\ f # url[o] /\ Cardinality(moves) < MaxMoves
  /\ url' = [url EXCEPT ![o] = f] /\ moves' = moves \cup {f}
  /\ UNCHANGED <<colVars, proc, m_id, m_data, complete, reply, requested,
                 latest>>

(* The objects in S are destructed; what they waited for is nobody's.      *)
Gone(o, S, x, none) == IF o \in S THEN none ELSE x[o]
(* Seeded bug: the program hands the reply to its next Fingerprint. *)
ForgottenButReply(S) ==
  /\ proc'      = [o \in Objects |-> Gone(o, S, proc, Nobody)]
  /\ m_id'      = [o \in Objects |-> Gone(o, S, m_id, -1)]
  /\ m_data'    = [o \in Objects |-> Gone(o, S, m_data, Nobody)]
  /\ complete'  = [o \in Objects |-> Gone(o, S, complete, FALSE)]
  /\ requested' = [o \in Objects |-> Gone(o, S, requested, Nobody)]
  /\ url'       = [o \in Objects |-> Gone(o, S, url, Nobody)]
  /\ UNCHANGED <<reply, latest, moves>>
Forgotten(S) ==
  /\ proc'      = [o \in Objects |-> Gone(o, S, proc, Nobody)]
  /\ m_id'      = [o \in Objects |-> Gone(o, S, m_id, -1)]
  /\ m_data'    = [o \in Objects |-> Gone(o, S, m_data, Nobody)]
  /\ complete'  = [o \in Objects |-> Gone(o, S, complete, FALSE)]
  /\ reply'     = [o \in Objects |-> Gone(o, S, reply, Nobody)]
  /\ requested' = [o \in Objects |-> Gone(o, S, requested, Nobody)]
  /\ url'       = [o \in Objects |-> Gone(o, S, url, Nobody)]
  /\ UNCHANGED <<latest, moves>>

Destroy(o) == proc[o] # Nobody /\ Forgotten({o}) /\ UNCHANGED colVars

Crash(p) ==
  /\ at[p] # "down" /\ crashes < MaxCrashes /\ crashes' = crashes + 1
  /\ at' = [at EXCEPT ![p] = "down"]
  /\ Forgotten({o \in Objects : proc[o] = p})
  /\ behind' = behind \ {p}
  /\ UNCHANGED <<dbVars, failures>>

Next ==
  \/ \E p \in Procs : \/ Construct(p) /\ UNCHANGED objVars
                      \/ Crash(p)
                      \/ \E o \in Objects, f \in Files : New(o, p, f)
  \/ \E o \in Objects : \/ Generate(o) \/ Submit(o) \/ Decode(o)
                        \/ Destroy(o) \/ \E f \in Files : SetUrl(o, f)
Spec == Init /\ [][Next]_vars

-----------------------------------------------------------------------------
(* The type of the state: what is stored fits an int, uri is unique where  *)
(* the index exists, and a version has a table.                            *)
TypeOK ==
  /\ rows \in [Files -> Seq(0 .. IntLimit - 1 \cup {NoId})]
  /\ hasIndex => hasFiles /\ UniqueUris
  /\ version \in {0, 1} /\ (version = 1 => hasMetadata)
  /\ m_id \in [Objects -> -IntLimit .. IntLimit - 1]

(* The constructor wipes what a version before 1.4.2 stored before any     *)
(* Fingerprint reads it, wherever an earlier process died in the upgrade.  *)
OldIdsAreWiped == failures = 0 => \A o \in Objects : m_id[o] # OldId

(* What the collection says of a file is the answer that was stored last,  *)
(* by any process and for a Fingerprint or its CompleteFingerprint, or     *)
(* nothing when another process still upgrades; as long as the index is    *)
(* there and the identifier fits an int.                                   *)
CachedIdIsTheAnswer ==
  \A f \in Files : hasIndex /\ latest[f] # NoId /\ Fits(latest[f]) =>
    GetFingerprintId(f) \in {NoId, latest[f]}

(* A row has its type and says of its file what was answered last.         *)
RowsAreAnswers == TypeOK /\ CachedIdIsTheAnswer

(* An identifier in the collection was given for the samples of its file,  *)
(* unless the track of a Fingerprint was moved to that file meanwhile.     *)
IdBelongsToFile ==
  \A f \in Files : \A i \in DOMAIN rows[f] :
    \/ rows[f][i] \in {NoId, OldId} \/ f \in moves
    \/ \E id \in ServiceId[f] : rows[f][i] = ToInt(id)

(* Once the version is written, an identifier is lost to one thing only: a *)
(* process that found no version, because it read before the version was   *)
(* written or its SELECT failed, and that wipes once.  Neither what is     *)
(* stored for another file nor any other process that starts, upgrades or  *)
(* dies takes one away.                                                    *)
AnswersSurvive ==
  [][version = 1 =>
       \A f \in Files : GetFingerprintId(f) # NoId /\ GetFingerprintId(f)' = NoId =>
         \E p \in behind : at'[p] = "metadata" /\ behind' = behind \ {p}]_vars
=============================================================================
