------------------------------- MODULE OSString -------------------------------
(***************************************************************************)
(* One OSString (src/libkern/src/OSString.cpp), whose characters are       *)
(* copied or the caller's, and one OSNumber (OSNumber.cpp); and the        *)
(* comparisons of strings, of data and of a string with data (OSData.cpp). *)
(***************************************************************************)
EXTENDS Integers, Sequences

CONSTANTS
  Chars,        \* characters and bytes: numbers, 0 the terminator
  MaxLength,    \* kMaxStringLength
  Bits          \* the bits of a value: 64

StringAssumption ==
  /\ Chars \subseteq Nat /\ 0 \in Chars /\ MaxLength \in Nat \ {0} /\ Bits \in Nat \ {0}

VARIABLES
  string,       \* the first length characters: the last one is a terminator
  noCopy,       \* kOSStringNoCopy
  accounted,    \* what OSCONTAINER_ACCUMSIZE has added for this object
  number        \* the OSNumber

vars == <<string, noCopy, accounted, number>>

(* made: withNumber has returned it. *)
NoNumber == [made |-> FALSE, size |-> 0, value |-> 0]

Init == string = <<>> /\ noCopy = FALSE /\ accounted = 0 /\ number = NoNumber

(* C strings: the characters before the first terminator, and more than    *)
(* strnlen may look at.                                                    *)
CStrings == UNION {[1..n -> Chars \ {0}] : n \in 0..(MaxLength + 1)}

(* strnlen of an array of characters. *)
UpToTerminator(s) ==
  LET ends == {i \in DOMAIN s : s[i] = 0}
  IN  IF ends = {} THEN s ELSE SubSeq(s, 1, (CHOOSE i \in ends : \A j \in ends : i <= j) - 1)

-----------------------------------------------------------------------------
(* What both copying inits end with: the old characters are given up when  *)
(* they are the string's own (a symbol that loses its caller's characters  *)
(* is initialised again, OSSymbol.cpp:657).                                *)
Copied(s) ==
  /\ string' = Append(s, 0) /\ noCopy' = FALSE
  /\ accounted' = accounted + Len(s) + 1 - IF noCopy THEN 0 ELSE Len(string)
  /\ UNCHANGED number

(* withCString, and withString, which copies up to the first terminator.   *)
WithCString(s) == Len(s) < MaxLength /\ Copied(s)
WithString(other) == WithCString(UpToTerminator(other))

(* withStringOfLength: all n characters must be there. *)
WithStringOfLength(s, n) == n < MaxLength /\ n <= Len(s) /\ Copied(SubSeq(s, 1, n))

(* Bound: not an object that has characters of its own, which would leak. *)
WithCStringNoCopy(s) ==
  /\ string = <<>> /\ Len(s) < MaxLength
  /\ string' = Append(s, 0) /\ noCopy' = TRUE
  /\ UNCHANGED <<accounted, number>>

Free ==
  /\ string # <<>>
  /\ accounted' = IF noCopy THEN accounted ELSE accounted - Len(string)
  /\ string' = <<>> /\ noCopy' = FALSE
  /\ UNCHANGED number

SetChar(c, index) ==
  /\ ~noCopy /\ index < Len(string) - 1
  /\ string' = [string EXCEPT ![index + 1] = c]
  /\ UNCHANGED <<noCopy, accounted, number>>

GetChar(s, index) == IF index < Len(s) THEN s[index + 1] ELSE 0

-----------------------------------------------------------------------------
(* Bound on the data compared: two bytes more than a string can have. *)
Data == UNION {[1..n -> Chars] : n \in 0..(MaxLength + 2)}

(* Comparing.  A string is compared with its terminator; data is a         *)
(* sequence of bytes.                                                      *)

(* strncmp(a, c, the length of a) = 0. *)
StringEqualsCString(a, c) == UpToTerminator(a) = UpToTerminator(c)

StringEqualsString(a, b) == Len(a) = Len(b) /\ StringEqualsCString(a, b)

BytesAgree(a, b, n) == \A i \in 1..n : a[i] = b[i]

DataEqualsBytes(d, bytes, n) == Len(d) >= n /\ BytesAgree(d, bytes, n)
DataEqualsData(d, e) == Len(d) = Len(e) /\ DataEqualsBytes(d, e, Len(e))

(* Data of length n is compared with a string that has m characters: one   *)
(* byte more is allowed if it is 0.  What is left to be compared, or -1.   *)
LengthToCompare(d, m) ==
  IF Len(d) = m THEN m
  ELSE IF Len(d) - m = 1 /\ d[Len(d)] = 0 THEN m ELSE -1

(* OSData takes getLength(), without the terminator, for m. *)
DataEqualsString(d, s) ==
  LET n == LengthToCompare(d, Len(s) - 1) IN n >= 0 /\ BytesAgree(d, s, n)

(* OSString takes length, which counts the terminator. *)
StringEqualsData(s, d) ==
  LET n == LengthToCompare(d, Len(s)) IN n >= 0 /\ BytesAgree(d, s, n)

-----------------------------------------------------------------------------
(* OSNumber. *)

(* inValue & sizeMask, ~0ULL >> (64 - size).  Shifting by 64, for a size   *)
(* of 0, is undefined: nothing or everything may be left of the mask.      *)
Masked(value, size) ==
  IF size = 0 THEN {0, value % 2^Bits} ELSE {value % 2^size}

WithNumber(value, size) ==
  /\ ~number.made /\ size <= Bits
  /\ \E v \in Masked(value, size) : number' = [made |-> TRUE, size |-> size, value |-> v]
  /\ UNCHANGED <<string, noCopy, accounted>>

SetValue(value) ==
  /\ number.made
  /\ \E v \in Masked(value, number.size) : number' = [number EXCEPT !.value = v]
  /\ UNCHANGED <<string, noCopy, accounted>>

AddValue(value) == SetValue(number.value + value)

ReleaseNumber ==
  /\ number.made
  /\ number' = NoNumber
  /\ UNCHANGED <<string, noCopy, accounted>>

-----------------------------------------------------------------------------
StringSteps ==
  \/ \E s \in CStrings : \/ WithCString(s) \/ WithCStringNoCopy(s)
                         \/ \E n \in 0..MaxLength : WithStringOfLength(s, n)
  \/ string # <<>> /\ WithString(string)
  \/ Free
  \/ \E c \in Chars, i \in 0..MaxLength : SetChar(c, i)

NumberSteps ==
  \/ \E v \in 0..(2^Bits - 1) : SetValue(v) \/ \E n \in 0..(Bits + 1) : WithNumber(v, n)
  \/ \E v \in -2^(Bits - 1) .. 2^(Bits - 1) - 1 : AddValue(v)
  \/ ReleaseNumber

Next == StringSteps \/ NumberSteps

-----------------------------------------------------------------------------
(* Whatever is copied, lent, overwritten and initialised again, a string   *)
(* ends with its terminator and its own characters are accounted for; and  *)
(* the two comparisons of a string with data, one in each class, both say  *)
(* that they are equal exactly when the data is the string with its        *)
(* terminator.  Strings of one length that are equal up to the first       *)
(* terminator are equal to the end unless setChar has put one inside.      *)
StringIsSound ==
  /\ accounted = IF noCopy THEN 0 ELSE Len(string)
  /\ string # <<>> =>
       /\ GetChar(string, Len(string) - 1) = 0
       /\ \A d \in Data :
            DataEqualsString(d, string) /\ StringEqualsData(string, d)
              <=> DataEqualsData(d, string)
       /\ \A s \in CStrings :
            StringEqualsString(string, Append(s, 0)) => DataEqualsData(string, Append(s, 0))

(* A number never has a bit beyond its size. *)
NumberFits == number.size > 0 => number.value < 2^number.size
=============================================================================
