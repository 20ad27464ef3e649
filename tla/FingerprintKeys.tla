-------------------------- MODULE FingerprintKeys --------------------------
(***************************************************************************)
(* The functions of src/fingerprint/fplib/fp_helper_fun.h on the keys of a *)
(* fingerprint.  Runs of equal keys are kept as groups [key, count], and   *)
(* an iterator with an offset is a pair <<place, keys into that group>>.   *)
(***************************************************************************)
EXTENDS Integers, Sequences, SequencesExt, FiniteSets

CONSTANTS
  MaxGood,  \* MAX_GOOD_GROUP_SIZE, 200
  HopDiv    \* a hop is the sub-window over this, 40

Group  == [key : Nat, count : Nat]
Groups == Seq(Group)

(* getTotalKeys(), with DFREQ and OVERLAPSAMPLES.                          *)
TotalKeys(ms) == (ms * 5512) \div (1000 * 64) + 1

(* Seeded bug: each block of keys starts a group of its own. *)
Keys2GroupsAnew(keys, groups) ==
  groups \o [i \in DOMAIN keys |-> [key |-> keys[i], count |-> 1]]

(* keys2GroupData() without clearDst: the last group goes on when the next *)
(* block begins with its key.                                              *)
WithKey(groups, key) ==
  LET last == Len(groups)
  IN  IF groups # <<>> /\ groups[last].key = key
      THEN [groups EXCEPT ![last] = [key |-> key, count |-> groups[last].count + 1]]
      ELSE Append(groups, [key |-> key, count |-> 1])
Keys2Groups(keys, groups) ==
  LET upTo[n \in 0 .. Len(keys)] ==
        IF n = 0 THEN groups
        ELSE [gs \in Groups |-> WithKey(gs, keys[n])][upTo[n - 1]]
  IN  upTo[Len(keys)]

(* How many keys the groups have up to the end of each.                    *)
Ends(groups) ==
  LET upTo[n \in 0 .. Len(groups)] ==
        IF n = 0 THEN 0 ELSE upTo[n - 1] + groups[n].count
  IN  upTo
CountOf(groups) == Ends(groups)[Len(groups)]

(* groupData2Keys().                                                       *)
Groups2Keys(groups) ==
  LET ends == Ends(groups)
      InGroup(x, i) == ends[i - 1] < x /\ x <= ends[i]
  IN  [x \in 1 .. CountOf(groups) |->
         groups[CHOOSE i \in 1 .. Len(groups) : InGroup(x, i)].key]

(* enoughUniqueGoodGroups(): it stops at the first group that is too long, *)
(* or that makes the keys enough.                                          *)
EnoughUnique(groups, min) ==
  LET KeysTo(i) == {groups[j].key : j \in 1 .. i}
  IN  \E i \in 0 .. Len(groups) :
        /\ Cardinality(KeysTo(i)) >= min
        /\ \A j \in 1 .. i : groups[j].count <= MaxGood

(* The loops that trail an iterator: off keys from the start of group i,   *)
(* to the first group that reaches as far.                                 *)
Trail(groups, i, off) ==
  LET ends == Ends(groups)
      pos  == ends[i - 1] + off
      Stops(j) == j > Len(groups) \/ pos <= ends[j]
      j    == CHOOSE j \in i .. Len(groups) + 1 :
                Stops(j) /\ \A before \in i .. j - 1 : ~Stops(before)
  IN  <<j, pos - ends[j - 1]>>

(* One hop of the window and of its sub-window; at the end of the keys it  *)
(* is as short as what is left of them.                                    *)
HopsOn(groups, w) ==
  LET right == Trail(groups, w.right[1], w.right[2] + w.hop)
      hop   == IF right[1] > Len(groups) THEN w.hop - right[2] ELSE w.hop
      hopped(it) == Trail(groups, it[1], it[2] + hop)
  IN  [right |-> right, hop |-> hop, left |-> hopped(w.left),
       subRight |-> hopped(w.subRight), subLeft |-> hopped(w.subLeft)]

Windows == [left : Nat \X Nat, right : Nat \X Nat, subLeft : Nat \X Nat,
            subRight : Nat \X Nat, hop : Nat]
Significant(groups, w, min) ==
  EnoughUnique(SubSeq(groups, w.subLeft[1], w.subRight[1] - 1), min)

(* findSignificantGroups(): the first window of windowSize keys, hop by    *)
(* hop, in whose middle subSize keys there are enough good groups.  There  *)
(* are no more hops than keys.                                             *)
FirstWindow(groups, windowSize, subSize) ==
  [left |-> <<1, 0>>, right |-> Trail(groups, 1, windowSize),
   subLeft  |-> Trail(groups, 1, (windowSize - subSize) \div 2),
   subRight |-> Trail(groups, 1, (windowSize + subSize) \div 2),
   hop |-> subSize \div HopDiv]
Scanned(groups, w, min) ==
  IF w.right[1] > Len(groups) \/ Significant(groups, w, min) THEN w
  ELSE HopsOn(groups, w)
FindSignificantGroups(groups, windowSize, subSize, min) ==
  LET first == FirstWindow(groups, windowSize, subSize)
      scan[n \in 0 .. CountOf(groups)] ==
        IF n = 0 THEN first
        ELSE [w \in Windows |-> Scanned(groups, w, min)][scan[n - 1]]
      last == scan[CountOf(groups)]
  IN  IF first.right[1] > Len(groups) THEN [found |-> FALSE, window |-> first]
      ELSE [found |-> Significant(groups, last, min), window |-> last]

(* Seeded bug: the last group is kept whole. *)
SnippedLeft(groups, w) ==
  LET cutLeft == [groups EXCEPT ![w.left[1]].count = @ - w.left[2]]
  IN  SubSeq(cutLeft, w.left[1],
             IF w.right[2] > 0 /\ w.right[1] # Len(groups) + 1
             THEN w.right[1] ELSE w.right[1] - 1)

(* What process() keeps of the groups: the first is cut on its left, the   *)
(* last on its right.                                                      *)
Snipped(groups, w) ==
  LET a == w.left[1]
      b == w.right[1]
      cutLeft == [groups EXCEPT ![a] = [key |-> @.key, count |-> @.count - w.left[2]]]
  IN  IF w.right[2] > 0 /\ b <= Len(groups)
      THEN SubSeq([cutLeft EXCEPT ![b] = [key |-> @.key, count |-> w.right[2]]], a, b)
      ELSE SubSeq(cutLeft, a, b - 1)
=============================================================================
