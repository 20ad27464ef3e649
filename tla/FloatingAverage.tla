---------------------------- MODULE FloatingAverage ----------------------------
(***************************************************************************)
(* src/fingerprint/fplib/CircularArray.h and FloatingAverage.h: an array   *)
(* whose iterators wrap around, and the running sum of the last values     *)
(* that were added to it.  An iterator is the index it stands on.          *)
(***************************************************************************)
EXTENDS Integers, Sequences

(* operator++ and operator+.                                               *)
Advanced(idx, offs, size) == (idx + offs) % size

(* The distance of two iterators, at least 1.                              *)
Distance(it, from, size) == IF it > from THEN it - from ELSE it + size - from

(* The constructor with resize(): new T[] leaves the values as they are.   *)
NewAverage(values) ==
  [values |-> values, valIt |-> 0, sum |-> 0, bufferFilled |-> FALSE]

(* purge(): the sum anew, without the errors of many additions.            *)
SumOf(values) ==
  LET upTo[i \in 0 .. Len(values)] == IF i = 0 THEN 0 ELSE upTo[i - 1] + values[i]
  IN  upTo[Len(values)]
Purged(avg) == [avg EXCEPT !.sum = SumOf(avg.values)]

(* Seeded bug: the value that leaves is read behind the iterator's step.   *)
AddedBehind(avg, value) ==
  LET next == Advanced(avg.valIt, 1, Len(avg.values))
  IN  [values |-> [avg.values EXCEPT ![avg.valIt + 1] = value],
       valIt  |-> next,
       sum    |-> avg.sum + value - IF avg.bufferFilled THEN avg.values[next + 1] ELSE 0,
       bufferFilled |-> avg.bufferFilled \/ next = 0]

(* add(): a full buffer gives up the value under the iterator.             *)
Added(avg, value) ==
  LET next == Advanced(avg.valIt, 1, Len(avg.values))
  IN  [values |-> [avg.values EXCEPT ![avg.valIt + 1] = value],
       valIt  |-> next,
       sum    |-> avg.sum + value
                    - IF avg.bufferFilled THEN avg.values[avg.valIt + 1] ELSE 0,
       bufferFilled |-> avg.bufferFilled \/ next = 0]

(* getAverage() divides the sum by this.                                   *)
Counted(avg) == IF avg.bufferFilled THEN Len(avg.values)
                ELSE Distance(avg.valIt, 0, Len(avg.values))

(* clear().                                                                *)
Cleared(avg) == NewAverage([i \in DOMAIN avg.values |-> 0])
=============================================================================
