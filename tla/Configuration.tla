---------------------------- MODULE Configuration ----------------------------
(***************************************************************************)
(* is_white_address with the expressions of the configuration that is      *)
(* installed.  They look at the text of the first two numbers of an IPv4   *)
(* address; a number is modelled by its decimal digits.  A behaviour looks *)
(* at one address after another.                                           *)
(***************************************************************************)
EXTENDS Integers, Sequences

CONSTANT Firsts   \* first numbers of the addresses to look at

ASSUME ConfigurationAssumption == Firsts \subseteq 0 .. 255

VARIABLES first, second   \* the first two numbers of the address

vars == <<first, second>>

-----------------------------------------------------------------------------
(* is_white_address                                                        *)

\* The decimal digits of a number below 1000, as inet_ntop writes it.
Digits(n) ==
  IF n < 10 THEN <<n>>
  ELSE IF n < 100 THEN <<n \div 10, n % 10>>
  ELSE <<n \div 100, (n \div 10) % 10, n % 10>>

\* The digits begin with one digit of each of the sets.
BeginsWith(digits, sets) ==
  /\ Len(digits) >= Len(sets)
  /\ \A i \in DOMAIN sets : digits[i] \in sets[i]

\* The digits are one of each of the sets, up to the dot.
Exactly(digits, sets) == Len(digits) = Len(sets) /\ BeginsWith(digits, sets)

\* A faulty variant, used to validate the properties: the expression does not
\* ask for the dot after the number.
Unanchored172(b) ==
  BeginsWith(Digits(b), <<{1}, 6 .. 9>>) \/ BeginsWith(Digits(b), <<{2}, 0 .. 9>>)
    \/ BeginsWith(Digits(b), <<{3}, 0 .. 1>>)

\* ^172\.((1[6-9])|(2[0-9])|(3[0-1]))\..*$
Matches172(b) ==
  Exactly(Digits(b), <<{1}, 6 .. 9>>) \/ Exactly(Digits(b), <<{2}, 0 .. 9>>)
    \/ Exactly(Digits(b), <<{3}, 0 .. 1>>)

\* ^100\.(([6-9][4-9])|(1[0-2][0-7])).*$, which asks for no dot
Matches100(b) ==
  BeginsWith(Digits(b), <<6 .. 9, 4 .. 9>>) \/ BeginsWith(Digits(b), <<{1}, 0 .. 2, 0 .. 7>>)

\* Some expression of the whitelist is found in the address.
is_white_address(a, b) ==
  \/ a \in {0, 10, 127}
  \/ a = 100 /\ Matches100(b)
  \/ a = 172 /\ Matches172(b)
  \/ a = 192 /\ Exactly(Digits(b), <<{1}, {6}, {8}>>)

-----------------------------------------------------------------------------
Init == first \in Firsts /\ second = 0

\* The next address of the range.
NextAddress ==
  /\ second < 255 /\ second' = second + 1
  /\ UNCHANGED first

ConfigurationSpec == Init /\ [][NextAddress]_vars

-----------------------------------------------------------------------------
\* The ranges the comments of the configuration give (config.yaml:59-70).
Documented(a, b) ==
  \/ a \in {0, 10, 127}
  \/ a = 100 /\ b \in 64 .. 127
  \/ a = 172 /\ b \in 16 .. 31
  \/ a = 192 /\ b = 168

\* Second numbers after 100 that are documented and of which the last digit is
\* not one the expression asks for (config.yaml:62-64).
Missed == (70 .. 73) \cup (80 .. 83) \cup (90 .. 93) \cup (108 .. 109) \cup (118 .. 119)

\* The expressions match the addresses of the documented ranges and no others,
\* except that they leave out Missed: no address outside the ranges escapes
\* being blocked, although one expression does not ask for the dot after the
\* number, and no further address inside is blocked (config.yaml:58-70).
WhitelistIsExact ==
  is_white_address(first, second) <=>
    Documented(first, second) /\ ~(first = 100 /\ second \in Missed)
=============================================================================
