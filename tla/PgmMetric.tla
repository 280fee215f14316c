-------------------------------- MODULE PgmMetric --------------------------------
(***************************************************************************)
(* The dataset metric of the benchmark: into how few segments can the      *)
(* points (key, rank) be cut so that each is within epsilon of a line?     *)
(* PGM_metric feeds the keys to OptimalPiecewiseLinearModel::add_point,    *)
(* which keeps the hulls of the points moved up and down by epsilon and,   *)
(* in rectangle, the flattest and the steepest line between the hulls.     *)
(* Ranks and keys are far from the limits of their types.  The steps are   *)
(* composed with the benchmark in module Workload.                         *)
(***************************************************************************)
EXTENDS Integers, Sequences, FiniteSets, SequencesExt, FiniteSetsExt

VARIABLES keys,     \* the array, sorted when the steps run
          segment,  \* the OptimalPiecewiseLinearModel
          rank,     \* the loop variable of PGM_metric
          metric

metricvars == <<segment, rank, metric>>

(* A Point is <<x, y>> and a Slope <<dx, dy>>. *)
Minus(p, q) == <<p[1] - q[1], p[2] - q[2]>>
Less(s, t) == s[2] * t[1] < s[1] * t[2]
cross(O, A, B) == LET OA == Minus(A, O)
                      OB == Minus(B, O)
                  IN  OA[1] * OB[2] - OA[2] * OB[1]

(* The points p1 and p2 of add_point; ranks are unsigned. *)
Above(k, y) == <<k, y + segment.epsilon>>
Under(k, y) == <<k, IF y <= segment.epsilon THEN 0 ELSE y - segment.epsilon>>

NewSegment(epsilon) ==
  [epsilon |-> epsilon, lower |-> <<>>, upper |-> <<>>, lower_start |-> 1, upper_start |-> 1,
   points_in_hull |-> 0, last_x |-> 0, rectangle |-> [c \in 0 .. 3 |-> <<0, 0>>]]

MetricInit(epsilon) == segment = NewSegment(epsilon) /\ rank = 0 /\ metric = 0
StartMetric(epsilon) == segment' = NewSegment(epsilon) /\ rank' = 0 /\ metric' = 1

x == keys[rank + 1]
p1 == Above(x, rank)
p2 == Under(x, rank)
slope1 == Minus(segment.rectangle[2], segment.rectangle[0])
slope2 == Minus(segment.rectangle[3], segment.rectangle[1])

More == rank < Len(keys)
Increasing == segment.points_in_hull = 0 \/ x > segment.last_x
(* Fault: points above the steepest line are taken. *)
Outside_Below == Less(Minus(p1, segment.rectangle[2]), slope1)

(* The point is below the flattest or above the steepest line. *)
Outside ==
  \/ Less(Minus(p1, segment.rectangle[2]), slope1)
  \/ Less(slope2, Minus(p2, segment.rectangle[3]))

(* "Find extreme slope": min_i and max_i, walking along the hull until the *)
(* slope seen from p grows, or falls.                                      *)
MinSlope(hull, start, p) ==
  Max({m \in start .. Len(hull) :
         \A j \in start + 1 .. m : ~Less(Minus(hull[j - 1], p), Minus(hull[j], p))})
MaxSlope(hull, start, p) ==
  Max({m \in start .. Len(hull) :
         \A j \in start + 1 .. m : ~Less(Minus(hull[j], p), Minus(hull[j - 1], p))})

(* "Hull update": the last points go that p makes superfluous. *)
KeptUpper(hull, start, p) ==
  SubSeq(hull, 1, Max({e \in 0 .. Len(hull) :
                         ~(e >= start + 1 /\ cross(hull[e - 1], hull[e], p) <= 0)}))
KeptLower(hull, start, p) ==
  SubSeq(hull, 1, Max({e \in 0 .. Len(hull) :
                         ~(e >= start + 1 /\ cross(hull[e - 1], hull[e], p) >= 0)}))

(* A steepest line through p1. *)
LowerSteepest(s) ==
  LET min_i == MinSlope(s.lower, s.lower_start, p1)
  IN  [s EXCEPT !.rectangle[1] = s.lower[min_i], !.rectangle[3] = p1,
                !.lower_start = min_i,
                !.upper = Append(KeptUpper(s.upper, s.upper_start, p1), p1)]

(* Fault: the lower hull keeps points that p2 makes superfluous. *)
RaiseFlattest_NoHull(s) ==
  LET max_i == MaxSlope(s.upper, s.upper_start, p2)
  IN  [s EXCEPT !.rectangle[0] = s.upper[max_i], !.rectangle[2] = p2,
                !.upper_start = max_i, !.lower = Append(@, p2)]

(* A flattest line through p2. *)
RaiseFlattest(s) ==
  LET max_i == MaxSlope(s.upper, s.upper_start, p2)
  IN  [s EXCEPT !.rectangle[0] = s.upper[max_i], !.rectangle[2] = p2,
                !.upper_start = max_i,
                !.lower = Append(KeptLower(s.lower, s.lower_start, p2), p2)]

Narrowed(s) ==
  LET t == IF Less(Minus(p1, s.rectangle[1]), slope2) THEN LowerSteepest(s) ELSE s
  IN  IF Less(slope1, Minus(p2, s.rectangle[0])) THEN RaiseFlattest(t) ELSE t

Counted(s) == [s EXCEPT !.last_x = x, !.points_in_hull = @ + 1]

FirstPoint(s) ==
  Counted([s EXCEPT !.rectangle[0] = p1, !.rectangle[1] = p2, !.upper = <<p1>>, !.lower = <<p2>>,
                    !.lower_start = 1, !.upper_start = 1])
SecondPoint(s) ==
  Counted([s EXCEPT !.rectangle[2] = p2, !.rectangle[3] = p1,
                    !.upper = Append(@, p1), !.lower = Append(@, p2)])
reset(s) == [s EXCEPT !.points_in_hull = 0, !.lower = <<>>, !.upper = <<>>]

(* An iteration of PGM_metric with a point add_point takes: the first, the *)
(* second or a later one of its segment.                                   *)
AddPoint ==
  /\ More /\ Increasing
  /\ \/ segment.points_in_hull = 0 /\ segment' = FirstPoint(segment)
     \/ segment.points_in_hull = 1 /\ segment' = SecondPoint(segment)
     \/ segment.points_in_hull > 1 /\ ~Outside /\ segment' = Counted(Narrowed(segment))
  /\ rank' = rank + 1 /\ UNCHANGED metric

(* An iteration with a point add_point refuses: it begins a new segment. *)
BeginSegment ==
  /\ More /\ Increasing
  /\ segment.points_in_hull > 1 /\ Outside
  /\ segment' = FirstPoint(reset(segment))
  /\ rank' = rank + 1 /\ metric' = metric + 1

(* add_point throws. *)
NotIncreasing == More /\ ~Increasing
--------------------------------------------------------------------------------
(* The ranks of the points of the current segment. *)
Current == rank - segment.points_in_hull .. rank - 1

(* A line within epsilon of the points a, b (a before b) has a slope of at *)
(* least Flattest(a, b) and of at most Steepest(a, b).                     *)
Flattest(a, b) == Minus(Under(keys[b + 1], b), Above(keys[a + 1], a))
Steepest(a, b) == Minus(Above(keys[b + 1], b), Under(keys[a + 1], a))
Pairs(ranks) == {ab \in ranks \X ranks : ab[1] < ab[2]}

(* Some line is within epsilon of the points of these ranks, and not below *)
(* rank 0 at any of them.                                                  *)
Fits(ranks) ==
  \A low, high \in Pairs(ranks) :
    ~Less(Steepest(high[1], high[2]), Flattest(low[1], low[2]))

(* The two lines of rectangle are the flattest and the steepest of the     *)
(* lines within epsilon of every point of the segment, and there are such  *)
(* lines: what the hulls, of which add_point forgets ever more, still have *)
(* to know about all the points before.                                    *)
ExtremeLines ==
  segment.points_in_hull > 1 =>
    /\ Fits(Current)
    /\ \A ab \in Pairs(Current) : ~Less(slope1, Flattest(ab[1], ab[2]))
    /\ \A ab \in Pairs(Current) : ~Less(Steepest(ab[1], ab[2]), slope2)
    /\ \E ab \in Pairs(Current) : ~Less(Flattest(ab[1], ab[2]), slope1)
    /\ \E ab \in Pairs(Current) : ~Less(slope2, Steepest(ab[1], ab[2]))

(* The least number of segments over all ways to cut the points. *)
MinSegments ==
  LET best[n \in 0 .. Len(keys)] ==
        IF n = 0 THEN 0
        ELSE Min({best[m] + 1 : m \in {m \in 0 .. n - 1 : Fits(m .. n - 1)}})
  IN  best[Len(keys)]
================================================================================
