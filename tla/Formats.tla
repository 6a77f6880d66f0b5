------------------------------- MODULE Formats -------------------------------
(***************************************************************************)
(* What members type and the bot reads, computes with and prints back:     *)
(* grid references and where a marker is drawn (services/mapping.py),      *)
(* durations and start times (services/grants.py, services/events.py).     *)
(*                                                                         *)
(* A reference is its two halves as numbers of "half" digits; both axes    *)
(* are treated alike.  Metres are whole, pixels are counted in fractions   *)
(* of 1/extent, and time in steps of which Second make a second and        *)
(* Minute a minute.                                                        *)
(***************************************************************************)
EXTENDS Integers

CONSTANTS
    Nil,
    Halves,     \* digits of half a reference that members type
    Ordinals,   \* the numbers they make with them
    Extent,     \* width_m and height_m of a terrain
    Size,       \* width and height of the picture
    Amounts,    \* of a duration
    Units,      \* _DURATION_UNITS, in steps
    Second, Minute,
    Times,      \* what the clock may show, and what start may be given
    MaxDate     \* datetime.max

VARIABLES input, answer

Init ==
    /\ answer = Nil
    /\ \/ \E h \in Halves, e, n \in Ordinals :
             input = [what |-> "mark", half |-> h, east |-> e, north |-> n]
       \/ \E what \in {"rank", "event"}, now \in Times, a \in Amounts, u \in Units :
             input = [what |-> what, now |-> now, amount |-> a, unit |-> u]
       \/ \E now, at \in Times :
             input = [what |-> "date", now |-> now, at |-> at]

-----------------------------------------------------------------------------
(***************************************************************************)
(* services/mapping.py                                                     *)
(***************************************************************************)
Supported == 2..5

\* 10 ** (5 - half_len), for the halves in Supported
Multiplier(half) == <<10000, 1000, 100, 10, 1>>[half]

Recognised(half, ordinal) == half \in Supported /\ ordinal * Multiplier(half) < 100000

ParseGrid(half, ordinal) == ordinal * Multiplier(half)

Clamp(value, lo, hi) ==
    IF value < lo THEN lo ELSE IF value > hi THEN hi ELSE value

\* Python's round: halves go to the even neighbour.
Round(n, d) ==
    LET q == n \div d  twice == 2 * (n % d)
    IN  IF twice < d \/ (twice = d /\ q % 2 = 0) THEN q ELSE q + 1

\* Mutant of FormatGrid: the number is not rounded but cut off.
FormatGridCut(metres, half) ==
    Clamp(metres \div Multiplier(half), 0, 100000 \div Multiplier(half) - 1)

FormatGrid(metres, half) ==
    Clamp(Round(metres, Multiplier(half)), 0, 100000 \div Multiplier(half) - 1)

\* world_to_pixel, and render_map, which pins what lies outside to the edge.
East(x) == x * Size
Down(z) == Size * Extent - z * Size
Drawn(p) == Clamp(p, 0, Size * Extent)

\* pixel_to_world
ToEast(p) == p \div Size
ToNorth(p) == (Size * Extent - p) \div Size

\* _do_mark stores, draws and answers with a reference of six digits.
Mark ==
    /\ input.what = "mark" /\ answer = Nil
    /\ Recognised(input.half, input.east) /\ Recognised(input.half, input.north)
    /\ LET x == ParseGrid(input.half, input.east)
           z == ParseGrid(input.half, input.north)
       IN  answer' = [how |-> "marked", x |-> x, z |-> z,
                      px |-> Drawn(East(x)), py |-> Drawn(Down(z)),
                      said |-> <<FormatGrid(x, 3), FormatGrid(z, 3)>>]
    /\ UNCHANGED input

\* InvalidGridReferenceError
Declined ==
    /\ input.what = "mark" /\ answer = Nil
    /\ ~(Recognised(input.half, input.east) /\ Recognised(input.half, input.north))
    /\ answer' = [how |-> "declined"]
    /\ UNCHANGED input

-----------------------------------------------------------------------------
(***************************************************************************)
(* services/grants.py, services/events.py                                  *)
(***************************************************************************)
Plus(now, amount, unit) == now + amount * unit

\* format_timestamp has no fractions of a second.
Stored(time) == time - (time % Second)

\* datetime + timedelta raises OverflowError past datetime.max.  No command
\* catches it, as it is no ValueError: the user is told that something broke.
Answered(time) ==
    IF time > MaxDate THEN [how |-> "broken"] ELSE [how |-> "stored", at |-> Stored(time)]

\* compute_expiry, for /rank
Term ==
    /\ input.what = "rank" /\ answer = Nil
    /\ answer' = Answered(Plus(input.now, input.amount, input.unit))
    /\ UNCHANGED input

\* Mutant of Starts: a start that is now is let pass.
StartsNow(start, now) == start >= now

Starts(start, now) == start > now

\* parse_start, of a duration or of a date with minutes, for /event
Schedule ==
    /\ input.what \in {"event", "date"} /\ answer = Nil
    /\ LET start == IF input.what = "event"
                    THEN Plus(input.now, input.amount, input.unit)
                    ELSE input.at - (input.at % Minute)
       IN  answer' = IF Starts(start, input.now) THEN Answered(start) ELSE [how |-> "declined"]
    /\ UNCHANGED input

Next == Mark \/ Declined \/ Term \/ Schedule

Spec == Init /\ [][Next]_<<input, answer>>

-----------------------------------------------------------------------------
Abs(n) == IF n < 0 THEN -n ELSE n
Outcome(how) == answer # Nil /\ answer.how = how

\* What three digits can say.
ThreeDigits == 0..999

\* Each answer is of the kind its input asks for, and within its bounds
\* (format_grid, format_timestamp).
TypeOK ==
    /\ answer # Nil => answer.how \in {"declined", "broken", "marked", "stored"}
    /\ Outcome("marked") => input.what = "mark" /\ answer.said \in ThreeDigits \X ThreeDigits
    /\ Outcome("stored") => input.what # "mark" /\ answer.at \in 0..MaxDate

\* The reference in the reply is the one of six digits nearest to the spot,
\* and the very one that was typed if that had six (format_grid of parse_grid).
ReplyNamesTheSpot ==
    Outcome("marked") =>
        /\ \A r \in ThreeDigits :
              /\ Abs(answer.said[1] * 100 - answer.x) <= Abs(r * 100 - answer.x)
              /\ Abs(answer.said[2] * 100 - answer.z) <= Abs(r * 100 - answer.z)
        /\ input.half = 3 => answer.said = <<input.east, input.north>>

\* A marker is drawn where it is, or at the edge next to it, never off the
\* picture ("pinned at the border instead of silently vanishing").
DrawnWhereMarked ==
    Outcome("marked") =>
        /\ answer.px \in 0..(Size * Extent) /\ answer.py \in 0..(Size * Extent)
        /\ ToEast(answer.px) = Clamp(answer.x, 0, Extent)
        /\ ToNorth(answer.py) = Clamp(answer.z, 0, Extent)

\* What is stored of a time, to the second, still lies ahead of the moment an
\* event was scheduled, and cuts less than a second off the term of a rank.
TimesLieAhead ==
    Outcome("stored") =>
        /\ input.what \in {"event", "date"} => answer.at > input.now
        /\ input.what = "rank" =>
              answer.at > input.now + input.amount * input.unit - Second

\* What is typed comes back as it was meant (do_mark, compute_expiry,
\* parse_start).
InputsComeBack == ReplyNamesTheSpot /\ DrawnWhereMarked /\ TimesLieAhead

\* "Raises ValueError on anything else" (grants.py), which the commands answer
\* with what to type instead: not for an amount beyond datetime's years.
AlwaysExplained == ~Outcome("broken")
=============================================================================
