-------------------------------- MODULE Amounts --------------------------------
(***************************************************************************)
(* decimal_string: an amount in base units, written in whole units with    *)
(* exactly as many decimals as it needs, and no float anywhere.  A string  *)
(* of digits is a sequence of them, the first the most significant.        *)
(***************************************************************************)
EXTENDS Integers, SequencesExt

Zeros(n) == [i \in 1 .. n |-> 0]

\* str(n) of a natural number.
Digits(n) ==
    LET str[m \in 0 .. n] == IF m < 10 THEN <<m>> ELSE Append(str[m \div 10], m % 10)
    IN  str[n]

\* s.rjust(width, "0") and s.rstrip("0")
Rjust(s, width) == IF Len(s) < width THEN Zeros(width - Len(s)) \o s ELSE s
Rstrip(s) ==
    SubSeq(s, 1, CHOOSE n \in 0 .. Len(s) : /\ n > 0 => s[n] # 0
                                            /\ \A i \in n + 1 .. Len(s) : s[i] = 0)

Magnitude(amount) == IF amount < 0 THEN -amount ELSE amount

DecimalStringShortMutant(amount, decimals) ==   \* one digit too few before the point
    LET digits == Rjust(Digits(Magnitude(amount)), decimals)
        cut == Len(digits) - decimals
    IN  [negative |-> amount < 0,
         whole |-> SubSeq(digits, 1, cut),
         frac |-> Rstrip(SubSeq(digits, cut + 1, Len(digits)))]

\* The sign, the digits before the point and those after it.
DecimalString(amount, decimals) ==
    LET digits == IF decimals <= 0 THEN Digits(Magnitude(amount))
                  ELSE Rjust(Digits(Magnitude(amount)), decimals + 1)
        cut == IF decimals <= 0 THEN Len(digits) ELSE Len(digits) - decimals
    IN  [negative |-> amount < 0,
         whole |-> SubSeq(digits, 1, cut),
         frac |-> Rstrip(SubSeq(digits, cut + 1, Len(digits)))]

DecimalStrings == [negative : BOOLEAN, whole : Seq(0 .. 9), frac : Seq(0 .. 9)]

------------------------------------------------------------------------------
(* What a reader of such a string makes of it.                             *)

Number(digits) == FoldLeft(LAMBDA n, d : 10 * n + d, 0, digits)

Sign(s) == IF s.negative THEN -1 ELSE 1

\* The string says amount, with that many decimals.
Says(s, amount, decimals) ==
    /\ Len(s.frac) <= decimals
    /\ amount = Sign(s) * Number(s.whole \o s.frac \o Zeros(decimals - Len(s.frac)))

\* There is one way to write a number: some digit before the point, no idle
\* zero in front or at the end.
Plain(s) ==
    /\ s.whole # <<>>
    /\ Len(s.whole) > 1 => Head(s.whole) # 0
    /\ s.frac # <<>> => Last(s.frac) # 0
==============================================================================
