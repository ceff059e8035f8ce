---------------------------- MODULE FixedDecimal ----------------------------
(***************************************************************************)
(* Decimal numbers with a fixed precision (src/fixed_decimal.rs): how the  *)
(* text of an amount becomes a number of fractions of an integer type, and *)
(* how it is printed.                                                      *)
(*                                                                         *)
(* FixedDecimal<T, PRECISION> is generic.  Here a format is a choice of T, *)
(* given by its range, and of PRECISION; a behaviour parses one text of    *)
(* one format, a byte per step, as lex_digits does.  The text is not known *)
(* in advance: any byte may come next, or the end.  All arithmetic on T is *)
(* checked; as in AccountBalance, the set of the results stands for an     *)
(* Option.  Definitions marked `Fault' are explained in README.md.         *)
(***************************************************************************)
EXTENDS Integers, SequencesExt

CONSTANTS
  Formats,    \* The types T with the precisions: [min, max, precision]
  OtherByte,  \* Bytes that are neither digits, a point nor a minus
  MaxLength   \* Bound: the longest text

Ten == 10

(* T converts from any u8, which is how the code writes its digits. *)
ASSUME FormatsAssumption ==
  \A f \in Formats : f.min \in Int /\ f.min <= 0 /\ f.max \in Int /\ f.max >= 255
                       /\ f.precision \in Nat

VARIABLES
  format,         \* The format parsed, fixed from the start
  text,           \* The bytes consumed so far
  sign,           \* 1 or -1
  fractions,      \* The number read so far
  hasDigit,       \* A digit was read
  decimalDigits,  \* The digits read after the point, if there was one
  status          \* Reading, Shifting, or how parsing ended

vars == <<format, text, sign, fractions, hasDigit, decimalDigits, status>>

Refusal == {"TooLarge", "TooMuchFractionalDigits", "InvalidChar", "NoDigits"}

Digits == <<"0", "1", "2", "3", "4", "5", "6", "7", "8", "9">>

Digit == ToSet(Digits)

DigitOf(n) == Digits[n + 1]

DigitValue == [c \in Digit |-> (CHOOSE i \in DOMAIN Digits : Digits[i] = c) - 1]

(* The bytes that no arm of lex_digits but the last one is for. *)
ASSUME OtherByteAssumption == OtherByte \cap (Digit \cup {".", "-"}) = {}

PowerOfTen[n \in Nat] == IF n = 0 THEN 1 ELSE Ten * PowerOfTen[n - 1]

-----------------------------------------------------------------------------
(* Arithmetic of T. *)

Numbers == format.min .. format.max

Checked(n) == {n} \cap Numbers

(* NegOne: whether T has a -1. *)
Signed == Checked(-1) # {}

-----------------------------------------------------------------------------
(* Parsing: from_str and lex_digits. *)

Refuse(error) ==
  /\ status' = error
  /\ UNCHANGED <<sign, fractions, hasDigit, decimalDigits>>

(* The next byte is consumed. *)
Consume(c) ==
  /\ status = "Reading"
  /\ Len(text) < MaxLength
  /\ text' = Append(text, c)
  /\ UNCHANGED format

AtSign == text = <<>> /\ Signed

ReadMinus ==
  /\ AtSign
  /\ Consume("-")
  /\ sign' = -1
  /\ UNCHANGED <<fractions, hasDigit, decimalDigits, status>>

(* Fault: the additions and multiplications are not checked. *)
AppendUnchecked(digit) == {fractions * Ten + sign * digit}

(* Fault: the magnitude is read and the sign applied to it afterwards. *)
AppendToMagnitude(digit) ==
  UNION {Checked(sign * m) : m \in Checked(Ten * sign * fractions + digit)}

(* The number with one more digit, which has the sign of the number. *)
AppendDigit(digit) ==
  UNION {Checked(shifted + signed) :
           signed \in Checked(sign * digit), shifted \in Checked(fractions * Ten)}

ReadDigit(c) ==
  LET appended == AppendDigit(DigitValue[c]) IN
  /\ Consume(c)
  /\ \/ decimalDigits = {format.precision} /\ Refuse("TooMuchFractionalDigits")
     \/ /\ decimalDigits # {format.precision}
        /\ appended = {}
        /\ Refuse("TooLarge")
     \/ /\ decimalDigits # {format.precision}
        /\ fractions' \in appended
        /\ hasDigit' = TRUE
        /\ decimalDigits' = {dd + 1 : dd \in decimalDigits}
        /\ UNCHANGED <<sign, status>>

ReadPoint ==
  /\ Consume(".")
  /\ \/ decimalDigits # {} /\ Refuse("InvalidChar")
     \/ /\ decimalDigits = {}
        /\ decimalDigits' = {0}
        /\ UNCHANGED <<sign, fractions, hasDigit, status>>

ReadOther(c) ==
  /\ c = "-" => ~AtSign
  /\ Consume(c)
  /\ Refuse("InvalidChar")

End ==
  /\ status = "Reading"
  /\ UNCHANGED <<format, text>>
  /\ \/ ~hasDigit /\ Refuse("NoDigits")
     \/ /\ hasDigit
        /\ status' = "Shifting"
        /\ decimalDigits' = IF decimalDigits = {} THEN {0} ELSE decimalDigits
        /\ UNCHANGED <<sign, fractions, hasDigit>>

(* Fault: one shift is missing. *)
ShiftsLeftButOne(dd) == dd + 1 < format.precision

ShiftsLeft(dd) == dd < format.precision

(* The missing decimal digits are zeros. *)
Shift ==
  /\ status = "Shifting"
  /\ UNCHANGED <<format, text>>
  /\ \E dd \in decimalDigits :
       LET shifted == Checked(fractions * Ten) IN
       \/ ~ShiftsLeft(dd) /\ Refuse("Ok")
       \/ ShiftsLeft(dd) /\ shifted = {} /\ Refuse("TooLarge")
       \/ /\ ShiftsLeft(dd)
          /\ fractions' \in shifted
          /\ decimalDigits' = {dd + 1}
          /\ UNCHANGED <<sign, hasDigit, status>>

Init ==
  /\ format \in Formats
  /\ text = <<>>
  /\ sign = 1
  /\ fractions = 0
  /\ hasDigit = FALSE
  /\ decimalDigits = {}
  /\ status = "Reading"

Next ==
  \/ ReadMinus
  \/ \E c \in Digit : ReadDigit(c)
  \/ ReadPoint
  \/ \E c \in OtherByte \cup {"-"} : ReadOther(c)
  \/ End
  \/ Shift

Spec == Init /\ [][Next]_vars

-----------------------------------------------------------------------------
(* Printing: Display. *)

Zeros(n) == [i \in 1 .. n |-> "0"]

(* The digits of a natural number, as the standard library prints it. *)
FmtNat[n \in Nat] ==
  IF n < Ten THEN <<DigitOf(n)>>
  ELSE Append(FmtNat[n \div Ten], DigitOf(n % Ten))

PadTo(width, digits) == Zeros(width - Len(digits)) \o digits

(* fractions_per_unit, if it fits. *)
FractionsPerUnit == Checked(PowerOfTen[format.precision])

(* The number has an absolute value: the part before the point is 0 if not *)
(* even one unit fits.                                                     *)
FmtAbs(abs) ==
  LET int  == IF FractionsPerUnit = {} THEN 0
              ELSE abs \div PowerOfTen[format.precision]
      frac == IF FractionsPerUnit = {} THEN abs
              ELSE abs % PowerOfTen[format.precision]
  IN  FmtNat[int] \o <<".">> \o PadTo(format.precision, FmtNat[frac])

(* Fault: the remainder is taken for the digit. *)
SplitAtRemainder(n) ==
  [rest |-> IF n % Ten = 0 THEN n \div Ten ELSE n \div Ten + 1, digit |-> n % Ten]

(* The last digit of a negative number and what is left of it, from floored *)
(* division: both are corrected unless the division is exact.               *)
SplitDigit(n) ==
  IF n \div Ten < 0 /\ n % Ten # 0
  THEN [rest |-> n \div Ten + 1, digit |-> Ten - (n % Ten)]
  ELSE [rest |-> n \div Ten, digit |-> n % Ten]

NegativeDigits[n \in Int] ==
  IF n = 0 THEN <<>>
  ELSE LET split == SplitDigit(n) IN
       Append(NegativeDigits[split.rest], DigitOf(split.digit))

(* The number has no absolute value. *)
FmtWithoutAbs(n) ==
  LET digits == PadTo(format.precision + 1, NegativeDigits[n])
      point  == Len(digits) - format.precision
  IN  SubSeq(digits, 1, point) \o <<".">> \o SubSeq(digits, point + 1, Len(digits))

Fmt(n) ==
  LET minus == IF n < 0 THEN <<"-">> ELSE <<>> IN
  IF format.precision = 0
  THEN minus \o FmtNat[IF n < 0 THEN -n ELSE n]
  ELSE minus \o (IF n < 0 /\ Checked(-n) = {} THEN FmtWithoutAbs(n)
                 ELSE FmtAbs(IF n < 0 THEN -n ELSE n))

-----------------------------------------------------------------------------
(* What a text says, without a machine: the reference. *)

Unsigned(s) == IF Signed /\ Len(s) > 0 /\ s[1] = "-" THEN Tail(s) ELSE s

Points(s) == {i \in DOMAIN s : s[i] = "."}

Decimals(s) == IF Points(s) = {} THEN 0 ELSE Len(s) - Min(Points(s))

(* An optional minus, digits with at most one point, not too many decimals. *)
BeginsDecimal(s) ==
  /\ ToSet(Unsigned(s)) \subseteq Digit \cup {"."}
  /\ Cardinality(Points(s)) <= 1
  /\ Decimals(s) <= format.precision

IsDecimal(s) == BeginsDecimal(s) /\ ToSet(s) \cap Digit # {}

DigitPlaces(s) == {i \in DOMAIN s : s[i] \in Digit}

(* The digits as one number, in which each counts as its place says. *)
Magnitude(s) ==
  LET places == DigitPlaces(s) IN
  SumFunctionOnSet([i \in places |->
    DigitValue[s[i]] * PowerOfTen[Cardinality({j \in places : j > i})]], places)

(* The value of the text in fractions. *)
Scaled(s) ==
  (IF Unsigned(s) = s THEN 1 ELSE -1)
    * (Magnitude(s) * PowerOfTen[format.precision - Decimals(s)])

-----------------------------------------------------------------------------
(* What holds. *)

(* What is read stays within the type at every step, and the count of      *)
(* decimal digits within the precision.                                    *)
TypeOK ==
  /\ format \in Formats
  /\ sign \in Numbers \cap {-1, 1}
  /\ fractions \in Numbers
  /\ sign * fractions >= 0
  /\ hasDigit \in BOOLEAN
  /\ decimalDigits \subseteq 0 .. format.precision
  /\ Cardinality(decimalDigits) <= 1
  /\ status \in {"Reading", "Shifting", "Ok"} \cup Refusal

(* Only decimals are accepted, and for what they say: nothing is rounded,  *)
(* wrapped or lost, whatever the sign, the zeros and the place of the      *)
(* point.                                                                  *)
AcceptsExactly ==
  status = "Ok" => IsDecimal(text) /\ fractions = Scaled(text)

(* Parsing gives up, at the first byte at which it does, only where no     *)
(* text that begins like this one can be accepted: it is too large only if *)
(* its value lies outside of the type, both ends of which can be written.  *)
RefusesOnlyUnfit ==
  /\ status = "TooLarge" => BeginsDecimal(text) /\ Scaled(text) \notin Numbers
  /\ status \in {"InvalidChar", "TooMuchFractionalDigits"} => ~BeginsDecimal(text)
  /\ status = "NoDigits" => BeginsDecimal(text) /\ ~IsDecimal(text)

(* What is printed for a number can be read back and says the same, with   *)
(* exactly the decimals of the format, down to the most negative number    *)
(* and for formats whose unit does not fit.                                *)
PrintsExactly ==
  status = "Ok" =>
    LET s == Fmt(fractions) IN
    /\ IsDecimal(s) /\ Decimals(s) = format.precision
    /\ Scaled(s) = fractions
    /\ Len(s) > 1 /\ Unsigned(s)[1] = "0" =>
         format.precision > 0 /\ Unsigned(s)[2] = "."
=============================================================================
