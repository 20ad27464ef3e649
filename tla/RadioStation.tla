----------------------------- MODULE RadioStation -----------------------------
(***************************************************************************)
(* src/radio/RadioStation.cpp: the url of a station, and the tag that a    *)
(* station is filtered by at its end.  A url is the sequence of what stands*)
(* between the slashes behind lastfm://, each a list of words: of one, but *)
(* for the names that were joined with commas or stars.  Names are such    *)
(* that QUrl gives them back as they are: nothing in them is escaped.      *)
(***************************************************************************)
EXTENDS Integers, Sequences, SequencesExt, FiniteSets, Functions

CONSTANT Rank   \* where the names stand in the order of QString::operator<

ASSUME RankAssumption ==
  \A m, n \in DOMAIN Rank : Rank[m] \in Int /\ (Rank[m] = Rank[n] => m = n)

(* QString::indexOf("/tag/"): a "tag" that has something on both sides,    *)
(* even nothing, or 0.                                                     *)
TagAt(url) ==
  LET tags == {i \in 2 .. Len(url) - 1 : url[i] = <<"tag">>}
  IN  IF tags = {} THEN 0 ELSE CHOOSE i \in tags : \A j \in tags : i <= j

Station(url, filter) == [url |-> url, filter |-> filter]

(* Seeded bug: only the first part behind /tag/ is the filter.             *)
FilterFirst(url, i) == <<url[i + 1]>>
FilterFrom(url, i) == SubSeq(url, i + 1, Len(url))

(* setString() of a new station: what follows /tag/ is its filter, but for *)
(* a station that is a tag itself.                                         *)
SetString(url) ==
  LET i == TagAt(url)
  IN  IF url[1] = <<"tag">> \/ i = 0 THEN Station(url, <<>>)
      ELSE Station(SubSeq(url, 1, i - 1), FilterFrom(url, i))

SetTagFilter(station, tag) == [station EXCEPT !.filter = tag]

(* url().                                                                  *)
Url(station) ==
  station.url \o IF station.filter = <<>> THEN <<>> ELSE <<<<"tag">>>> \o station.filter

(* Seeded bug: the names stay in the caller's order.                       *)
ListedAsGiven(names) == names

(* qSort() of the names, which are joined then.                            *)
Reordered(names) ==
  {[i \in DOMAIN names |-> names[p[i]]] : p \in Bijection(DOMAIN names, DOMAIN names)}
InOrder(names) ==
  \A i, j \in DOMAIN names : i < j => Rank[names[i]] <= Rank[names[j]]
Listed(names) == CHOOSE sorted \in Reordered(names) : InOrder(sorted)

(* libraryStr(), tagStr() and similarStr(), and the factories on them.     *)
LibraryStr(users) ==
  IF Len(users) > 1 THEN <<<<"users">>, Listed(users)>> ELSE <<<<"user">>, Listed(users), <<"personal">>>>
TagStr(tags) ==
  IF Len(tags) > 1 THEN <<<<"tag">>, Listed(tags)>> ELSE <<<<"globaltags">>, Listed(tags)>>
SimilarStr(artists) ==
  IF Len(artists) > 1 THEN <<<<"artistnames">>, Listed(artists)>>
  ELSE <<<<"artist">>, Listed(artists), <<"similarartists">>>>
UserStr(user, what) == <<<<"user">>, <<user>>, <<what>>>>

Factories(names) ==
  {LibraryStr(names), TagStr(names), SimilarStr(names)}
    \cup {UserStr(names[1], what) :
            what \in {"recommended", "friends", "neighbours", "mix"}}
=============================================================================
