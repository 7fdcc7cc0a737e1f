-------------------------------- MODULE Ulib --------------------------------
(***************************************************************************)
(* Numbers as decimal text, user/ulib.c of Lab 3 (Task 3.2): itoa10 and    *)
(* atoi, by which master.c names the shared page and the mailboxes to the  *)
(* processes it starts.  A text is the sequence of its characters' codes.  *)
(***************************************************************************)
EXTENDS Integers, FiniteSets, Sequences

zero == 48      \* '0'
minus == 45     \* '-'

\* tmp of itoa10: the digits of ux from the last to the first, at least one.
tmp[ux \in Nat] ==
  IF ux < 10 THEN <<zero + ux>> ELSE <<zero + (ux % 10)>> \o tmp[ux \div 10]

\* The digits of ux are copied from tmp, the last one first.
Digits(ux) == [i \in 1 .. Len(tmp[ux]) |-> tmp[ux][Len(tmp[ux]) + 1 - i]]

itoa10(x) == IF x < 0 THEN <<minus>> \o Digits(-x) ELSE Digits(x)

\* The digits that s begins with, read as a number.
atoi(s) ==
  LET digit(c) == zero <= c /\ c <= zero + 9
      digits == Cardinality({i \in DOMAIN s : \A j \in 1 .. i : digit(s[j])})
      n[i \in 0 .. digits] == IF i = 0 THEN 0 ELSE n[i - 1] * 10 + s[i] - zero
  IN  n[digits]

\* atoi inverts itoa10 for numbers that are not negative, here for those up to
\* Largest; it knows no sign.
Largest == 1200
ASSUME RoundTrip ==
  \A x \in 0 .. Largest : atoi(itoa10(x)) = x /\ (x > 0 => atoi(itoa10(-x)) = 0)
=============================================================================
