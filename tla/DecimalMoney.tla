---------------------------- MODULE DecimalMoney ----------------------------
(***************************************************************************)
(* The exact decimal arithmetic of the domain, planning, transactions and  *)
(* advisor packages.  Money is a NUMERIC column read as text and computed  *)
(* as a big integer scaled by 10^Places; percentages are texts built from  *)
(* a quotient and a remainder.  An amount is its scaled integer here; a    *)
(* text is its sign, its whole part and its fraction digits.               *)
(***************************************************************************)
EXTENDS Integers, Sequences, SequencesExt

CONSTANTS
    Places,      \* MONEY_SCALE: digits after the point, 6 in the code
    WholeLimit,  \* whole parts that have a digit too many, 10^14 in the code
    None         \* SQL and JavaScript null

ASSUME PlacesAssumption == Places \in Nat \ {0} /\ WholeLimit \in Nat

\* 10 ^ n, for as many digits as there are.
TenTo[n \in 0..Places] == IF n = 0 THEN 1 ELSE 10 * TenTo[n - 1]

Factor == TenTo[Places]

\* The number that digits write.
Digits(digits) ==
    LET Read[n \in 0..Len(digits)] == IF n = 0 THEN 0 ELSE 10 * Read[n - 1] + digits[n]
    IN Read[Len(digits)]

Zeros(n) == [i \in 1..n |-> 0]

\* The last n digits of a number, leading zeros included.
Padded(value, n) == [i \in 1..n |-> (value \div TenTo[n - i]) % 10]

Trimmed(digits) ==
    SubSeq(digits, 1, Max({0} \union {i \in DOMAIN digits : digits[i] # 0}))

Absolute(value) == IF value < 0 THEN -value ELSE value

\* What the code takes for a decimal, and what it makes of it: it throws (None)
\* when there are too many digits on either side of the point.
IsDecimal(text) == text.whole < WholeLimit /\ Len(text.fraction) <= Places

ScaledValue(text) ==
    LET scaled == text.whole * Factor
                  + Digits(text.fraction \o Zeros(Places - Len(text.fraction)))
    IN IF ~IsDecimal(text) THEN None ELSE IF text.negative THEN -scaled ELSE scaled

\* Mutant: the fraction is not padded to its Places digits.
DecimalTextUnpadded(value) ==
    LET digits == Padded(Absolute(value) % Factor, Places)
        used == {i \in DOMAIN digits : digits[i] # 0}
    IN [negative |-> value < 0, whole |-> Absolute(value) \div Factor,
        fraction |-> IF used = {} THEN <<>> ELSE Trimmed(SubSeq(digits, Min(used), Places))]

DecimalText(value) ==
    [negative |-> value < 0, whole |-> Absolute(value) \div Factor,
     fraction |-> Trimmed(Padded(Absolute(value) % Factor, Places))]

\* The text of a NUMERIC aggregate, which PostgreSQL writes with every digit.
TrimNumeric(text) ==
    [text EXCEPT !.fraction = IF \E i \in DOMAIN @ : @[i] # 0 THEN Trimmed(@) ELSE <<>>]

Negated(text) == text.negative /\ (text.whole # 0 \/ text.fraction # <<>>)

------------------------------------------------------------------------------
(* Percentages.  The division of two BigInts drops the fraction, so its    *)
(* quotient and its remainder both carry the sign.                         *)

Quotient(a, b) ==
    IF (a < 0) = (b < 0) THEN Absolute(a) \div Absolute(b) ELSE -(Absolute(a) \div Absolute(b))

Remainder(a, b) == a - b * Quotient(a, b)

\* A percentage as it is written: `${whole}` or `${whole}.${fraction}`.
Percentage(units, perWhole) ==
    [whole |-> Quotient(units, perWhole), fraction |-> Remainder(units, perWhole)]

\* Written so, a negative fraction has a sign of its own: "-12.-5".
IsNumeral(percentage) == percentage.fraction >= 0

\* planning: two fraction digits, "0" for a total that is not positive.
PercentOf(part, total) ==
    IF total <= 0 THEN Percentage(0, 100)
    ELSE Percentage(Quotient(part * 10000, total), 100)

PercentReached(part, total, threshold) == total > 0 /\ part * 100 >= total * threshold

\* transactions and advisor: one digit, which a negative share loses.
ShareOf(amount, total) ==
    LET tenths == Quotient(amount * 1000, total)
    IN Percentage(IF Remainder(tenths, 10) > 0 THEN tenths ELSE 10 * Quotient(tenths, 10), 10)

SharePercentOf(amount, total) ==
    IF total <= 0 THEN Percentage(0, 10) ELSE ShareOf(amount, total)

AdvisorPercentOf(part, total) == IF total <= 0 THEN None ELSE ShareOf(part, total)

\* advisor: the change between two periods and its percentage.
ChangeUnits(change, previous) == Quotient(change * 10000, previous)

CompareValues(current, previous) ==
    LET change == current - previous
    IN [change |-> change,
        percentage |-> IF previous = 0 THEN None
                       ELSE Percentage(ChangeUnits(change, previous), 10),
        status |-> IF previous = 0 THEN IF change = 0 THEN "same" ELSE "none"
                   ELSE IF change > 0 THEN "increased"
                   ELSE IF change < 0 THEN "decreased" ELSE "same"]
=============================================================================
