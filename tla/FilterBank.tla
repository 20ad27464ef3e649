------------------------------- MODULE FilterBank -------------------------------
(***************************************************************************)
(* How the extractor gets keys out of samples: OptFFT::process() averages  *)
(* the power of each band in each frame, integralImage() sums them up over *)
(* time and bands, and computeBits() compares sums over rectangles, one    *)
(* for each Filter.  Powers are natural numbers here; places in the image  *)
(* are counted from 1 as in computeBits().                                 *)
(***************************************************************************)
EXTENDS Integers, Sequences, FiniteSets

CONSTANTS
  KeyFrames,  \* Filter::KEYWIDTH, 100
  Bands       \* Filter::NBANDS, 33

-----------------------------------------------------------------------------
(* OptFFT.cpp *)

(* The frames of a piece of data.                                          *)
Frames(dataSize, frameSize, overlapSamples) ==
  (dataSize - frameSize) \div overlapSamples + 1
FirstSample(frame, overlapSamples) == (frame - 1) * overlapSamples + 1

(* The coefficients under a band, from the table of the powers of base;    *)
(* the last one is also the first one of the next band.                    *)
Coefficients(powTable, band, minCoef) ==
  powTable[band] + minCoef .. powTable[band + 1] + minCoef

(* Seeded bug: the distance of the first and the last coefficient.         *)
DivisorSpan(powTable, band) == powTable[band + 1] - powTable[band]
Divisor(powTable, band) == powTable[band + 1] - powTable[band] + 1

-----------------------------------------------------------------------------
(* Filter.cpp *)

(* The widths in time of the filters: half as much again, and even.        *)
Rounded(t) == (3 * t + 1) \div 2

(* Seeded bug: widths stay odd.                                            *)
EvenOrOdd(t) == t
Even(t) == t + (t % 2)
Longer(t) == IF Even(Rounded(t)) > t + 1 THEN Even(Rounded(t)) ELSE t + 1
TimeLengths ==
  LET from[t \in Nat] == IF t >= KeyFrames THEN {} ELSE {t} \cup from[Longer(t)]
  IN  from[1]

(* The filters that the numbers of the constructor stand for.              *)
Filters ==
  {f \in [wt : TimeLengths, wb : 1 .. Bands, first_band : 1 .. Bands,
          filter_type : 1 .. 6] :
     /\ f.first_band <= Bands - f.wb + 1
     /\ f.filter_type \in {2, 4} => f.wt > 1
     /\ f.filter_type \in {3, 4} => f.wb > 1
     /\ f.filter_type = 5 => f.wt > 3
     /\ f.filter_type = 6 => f.wb > 3}

-----------------------------------------------------------------------------
(* FingerprintExtractor.cpp *)

(* Seeded bug: what both neighbours count is counted twice.                *)
IntegralImageTwice(power, frames, bands) ==
  LET cell[y \in 1 .. frames, x \in 1 .. bands] ==
        power[y][x] + (IF y > 1 THEN cell[y - 1, x] ELSE 0)
                    + (IF x > 1 THEN cell[y, x - 1] ELSE 0)
  IN  cell

(* integralImage(): the first column, the first row, then the rest, each   *)
(* cell from its neighbours that are done.                                 *)
IntegralImage(power, frames, bands) ==
  LET cell[y \in 1 .. frames, x \in 1 .. bands] ==
        power[y][x] + CASE y = 1 /\ x = 1 -> 0
                        [] y > 1 /\ x = 1 -> cell[y - 1, 1]
                        [] y = 1 /\ x > 1 -> cell[1, x - 1]
                        [] y > 1 /\ x > 1 -> cell[y - 1, x] + cell[y, x - 1]
                                               - cell[y - 1, x - 1]
  IN  cell

FirstTime == KeyFrames \div 2 + 1
LastTime(frames) == frames - KeyFrames \div 2

(* The corners of a filter at time t2.                                     *)
Corners(f, t2) ==
  LET t1   == (2 * t2 - f.wt - 2) \div 2
      t3   == (2 * t2 + f.wt - 2) \div 2
      b1   == f.first_band - 1
      b2   == (2 * f.first_band + f.wb + 1) \div 2 - 1
      b3   == f.first_band + f.wb - 1
      t_1q == (t1 + t2) \div 2
      b_1q == (b1 + b2) \div 2
  IN  [t1 |-> t1, t2 |-> t2 - 1, t3 |-> t3, b1 |-> b1, b2 |-> b2, b3 |-> b3,
       t_1q |-> t_1q, t_3q |-> t_1q + (t3 - t1 + 1) \div 2,
       b_1q |-> b_1q, b_3q |-> b_1q + (b3 - b1) \div 2]

(* Each filter weighs the image at some times and at some bands.           *)
TimeWeights(f, c) ==
  CASE f.filter_type \in {1, 3} -> {<<c.t3, 1>>, <<c.t1, -1>>}
    [] f.filter_type = 2 -> {<<c.t1, -1>>, <<c.t2, 2>>, <<c.t3, -1>>}
    [] f.filter_type = 4 -> {<<c.t1, 1>>, <<c.t2, -2>>, <<c.t3, 1>>}
    [] f.filter_type = 5 -> {<<c.t1, 1>>, <<c.t_1q, -2>>, <<c.t_3q, 2>>, <<c.t3, -1>>}
    [] f.filter_type = 6 -> {<<c.t3, -1>>, <<c.t1, 1>>}

(* Seeded bug: the first band of the sound is asked for its neighbour too. *)
FirstBandAlways(c, weight) == {<<c.b1, weight>>}

(* There is no band before the first one: its weight is left out.          *)
FirstBand(c, weight) == IF c.b1 > 0 THEN {<<c.b1, weight>>} ELSE {}

BandWeights(f, c) ==
  CASE f.filter_type \in {1, 2, 5} -> FirstBand(c, -1) \cup {<<c.b3, 1>>}
    [] f.filter_type = 3 -> FirstBand(c, -1) \cup {<<c.b2, 2>>, <<c.b3, -1>>}
    [] f.filter_type = 4 -> FirstBand(c, 1) \cup {<<c.b2, -2>>, <<c.b3, 1>>}
    [] f.filter_type = 6 -> FirstBand(c, -1) \cup {<<c.b_1q, 2>>, <<c.b_3q, -2>>, <<c.b3, 1>>}

(* The sum over the weights of one dimension, of values that grow evenly.  *)
Evenly(weights) ==
  LET sum[ws \in SUBSET weights] ==
        IF ws = {} THEN 0
        ELSE LET w == CHOOSE v \in ws : TRUE IN w[1] * w[2] + sum[ws \ {w}]
  IN  sum[weights]

(* computeBits() for sound of the same power at all times and in all bands *)
(* where the integral image is the product of the two places.              *)
FlatValue(f, t2) ==
  Evenly(TimeWeights(f, Corners(f, t2))) * Evenly(BandWeights(f, Corners(f, t2)))
=============================================================================
