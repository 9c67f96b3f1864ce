------------------------------ MODULE CacheFix ------------------------------
(***************************************************************************)
(* cache_fix of rm_model: a greedy linear spline through (key, offset)     *)
(* points, such that the interpolation of every point passed over falls in *)
(* the cache line of its offset.  The rounding of the interpolation in     *)
(* double arithmetic is left out; the fit and the lookup round alike.      *)
(***************************************************************************)
EXTENDS Integers, Sequences

minus_epsilon(k) == IF k = 0 THEN 0 ELSE k - 1

\* Points are <<key, offset>>; from and to of a segment are points.
predict(from, to, k) ==
    (from[2] * (to[1] - k) + to[2] * (k - from[1])) \div (to[1] - from[1])

(* The points of sorted data: row i adds the first row of its key, and the *)
(* key just below with the same offset unless it was the last point.       *)
PointsOfRow(data, i) ==
    LET last_key == IF i = 1 THEN 0 ELSE data[i - 1]
        minus == minus_epsilon(data[i])
    IN IF i > 1 /\ data[i] = last_key THEN <<>>
       ELSE IF minus = last_key THEN << <<data[i], i - 1>> >>
       ELSE << <<minus, i - 1>>, <<data[i], i - 1>> >>

Points(data) ==
    LET points[i \in 0 .. Len(data)] ==
            IF i = 0 THEN <<>> ELSE points[i - 1] \o PointsOfRow(data, i)
    IN points[Len(data)]

Segment(from, to, passed, spline) ==
    [from |-> from, to |-> to, passed |-> passed, spline |-> spline]

\* SplineFit::check_spline
SameLine(from, to, point, line) ==
    predict(from, to, point[1]) \div line = point[2] \div line

\* Mutant: the end of the segment is not among the points to check.
AddPointUnchecked(fit, point, line) ==
    IF \A p \in fit.passed : SameLine(fit.from, point, p, line)
    THEN Segment(fit.from, point, fit.passed \cup {fit.to}, fit.spline)
    ELSE Segment(fit.to, point, {point}, Append(fit.spline, fit.to))

\* SplineFit::add_point, once there is a segment
add_point(fit, point, line) ==
    LET passed == fit.passed \cup {fit.to}
    IN IF \A p \in passed : SameLine(fit.from, point, p, line)
       THEN Segment(fit.from, point, passed, fit.spline)
       ELSE Segment(fit.to, point, {point}, Append(fit.spline, fit.to))

\* The fit of the first n points.
Fit(points, line, n) ==
    LET fit[i \in 1 .. n] ==
            IF i = 1 THEN Segment(points[1], points[1], {}, <<points[1]>>)
            ELSE add_point(fit[i - 1], points[i], line)
    IN fit[n]

\* Of data longer than a line.
cache_fix(data, line) ==
    LET points == Points(data)
        fit == Fit(points, line, Len(points))
    IN Append(fit.spline, fit.to)

=============================================================================
