------------------------- MODULE ConfigurationProofs -------------------------
(***************************************************************************)
(* Proofs about the whitelist, for every IPv4 address.                     *)
(***************************************************************************)
EXTENDS Configuration, TLAPS

-----------------------------------------------------------------------------
(* The expressions of the whitelist.                                       *)

\* The digits of a number below 256.
LEMMA DigitsOf ==
  ASSUME NEW n \in 0 .. 255
  PROVE  \/ n < 10 /\ Digits(n) = <<n>>
         \/ \E x \in 1 .. 9, y \in 0 .. 9 : n = 10 * x + y /\ Digits(n) = <<x, y>>
         \/ \E x \in 1 .. 2, y \in 0 .. 9, z \in 0 .. 9 :
              n = 100 * x + 10 * y + z /\ Digits(n) = <<x, y, z>>
  <1>1. CASE n < 10
    BY <1>1 DEF Digits
  <1>2. CASE n >= 10 /\ n < 100
    <2>0. n \in Int /\ 10 <= n /\ n < 100
      BY <1>2
    <2>1. /\ n \div 10 \in 1 .. 9 /\ n % 10 \in 0 .. 9
          /\ n = 10 * (n \div 10) + (n % 10)
      BY <2>0
    <2>2. Digits(n) = <<n \div 10, n % 10>>
      BY <1>2 DEF Digits
    <2>3. QED
      BY <2>1, <2>2
  <1>3. CASE n >= 100
    <2>0. n \in Int /\ 100 <= n /\ n < 256
      BY <1>3
    <2>3. n \div 10 \in 10 .. 25 /\ n % 10 \in 0 .. 9 /\ n = 10 * (n \div 10) + (n % 10)
      BY <2>0
    <2>4. n \div 100 \in 1 .. 2
      BY <2>0
    <2>5. (n \div 10) % 10 \in 0 .. 9 /\ n \div 10 = 10 * (n \div 100) + ((n \div 10) % 10)
      BY <2>0, <2>3
    <2>1. /\ n \div 100 \in 1 .. 2 /\ (n \div 10) % 10 \in 0 .. 9 /\ n % 10 \in 0 .. 9
          /\ n = 100 * (n \div 100) + 10 * ((n \div 10) % 10) + (n % 10)
      BY <2>3, <2>4, <2>5
    <2>2. Digits(n) = <<n \div 100, (n \div 10) % 10, n % 10>>
      BY <1>3 DEF Digits
    <2>6. QED
      BY <2>1, <2>2
  <1>4. QED
    BY <1>1, <1>2, <1>3

\* The number is written with two, or three, digits of the sets.
Two(n, X, Y) ==
  \E x \in 1 .. 9, y \in 0 .. 9 : n = 10 * x + y /\ x \in X /\ y \in Y
Three(n, X, Y, Z) ==
  \E x \in 1 .. 2, y \in 0 .. 9, z \in 0 .. 9 :
    n = 100 * x + 10 * y + z /\ x \in X /\ y \in Y /\ z \in Z

\* What an expression of two digits asks for.
LEMMA TwoDigits ==
  ASSUME NEW n \in 0 .. 255, NEW X, NEW Y, BeginsWith(Digits(n), <<X, Y>>)
  PROVE  \/ Two(n, X, Y)
         \/ Len(Digits(n)) = 3 /\ Three(n, X, Y, 0 .. 9)
  <1>1. Len(Digits(n)) >= 2 /\ Digits(n)[1] \in X /\ Digits(n)[2] \in Y
    BY DEF BeginsWith
  <1>2. CASE n < 10 /\ Digits(n) = <<n>>
    BY <1>1, <1>2
  <1>3. CASE \E x \in 1 .. 9, y \in 0 .. 9 : n = 10 * x + y /\ Digits(n) = <<x, y>>
    <2>1. PICK x \in 1 .. 9, y \in 0 .. 9 : n = 10 * x + y /\ Digits(n) = <<x, y>>
      BY <1>3
    <2>2. x \in X /\ y \in Y
      BY <1>1, <2>1
    <2>3. QED
      BY <2>1, <2>2 DEF Two
  <1>4. CASE \E x \in 1 .. 2, y \in 0 .. 9, z \in 0 .. 9 :
               n = 100 * x + 10 * y + z /\ Digits(n) = <<x, y, z>>
    <2>1. PICK x \in 1 .. 2, y \in 0 .. 9, z \in 0 .. 9 :
            n = 100 * x + 10 * y + z /\ Digits(n) = <<x, y, z>>
      BY <1>4
    <2>2. x \in X /\ y \in Y
      BY <1>1, <2>1
    <2>3. Len(Digits(n)) = 3
      BY <2>1
    <2>4. QED
      BY <2>1, <2>2, <2>3 DEF Three
  <1>5. QED
    BY <1>2, <1>3, <1>4, DigitsOf

LEMMA ExactlyTwo ==
  ASSUME NEW n \in 0 .. 255, NEW X, NEW Y, Exactly(Digits(n), <<X, Y>>)
  PROVE  Two(n, X, Y)
  <1>1. BeginsWith(Digits(n), <<X, Y>>) /\ Len(Digits(n)) = 2
    BY DEF Exactly
  <1>2. QED
    <2>1. Two(n, X, Y) \/ Len(Digits(n)) = 3
      BY <1>1, TwoDigits
    <2>2. QED
      BY <1>1, <2>1

\* What an expression of three digits asks for.
LEMMA ThreeDigits ==
  ASSUME NEW n \in 0 .. 255, NEW X, NEW Y, NEW Z, BeginsWith(Digits(n), <<X, Y, Z>>)
  PROVE  Three(n, X, Y, Z)
  <1>1. Len(Digits(n)) >= 3 /\ Digits(n)[1] \in X /\ Digits(n)[2] \in Y /\ Digits(n)[3] \in Z
    BY DEF BeginsWith
  <1>2. ~(n < 10 /\ Digits(n) = <<n>>)
    BY <1>1
  <1>3. ~\E x \in 1 .. 9, y \in 0 .. 9 : n = 10 * x + y /\ Digits(n) = <<x, y>>
    BY <1>1
  <1>4. PICK x \in 1 .. 2, y \in 0 .. 9, z \in 0 .. 9 :
          n = 100 * x + 10 * y + z /\ Digits(n) = <<x, y, z>>
    BY <1>2, <1>3, DigitsOf
  <1>5. x \in X /\ y \in Y /\ z \in Z
    BY <1>1, <1>4
  <1>6. QED
    BY <1>4, <1>5 DEF Three

LEMMA WritesTwo ==
  ASSUME NEW n \in 10 .. 99, NEW X, NEW Y, Two(n, X, Y)
  PROVE  Exactly(Digits(n), <<X, Y>>)
  <1>1. PICK x \in 1 .. 9, y \in 0 .. 9 : n = 10 * x + y /\ x \in X /\ y \in Y
    BY DEF Two
  <1>2. PICK u \in 1 .. 9, v \in 0 .. 9 : n = 10 * u + v /\ Digits(n) = <<u, v>>
    <2>1. n \in 0 .. 255 /\ ~(n < 10)
      OBVIOUS
    <2>2. ~\E p \in 1 .. 2, q \in 0 .. 9, r \in 0 .. 9 : n = 100 * p + 10 * q + r
      OBVIOUS
    <2>3. QED
      BY <2>1, <2>2, DigitsOf
  <1>3. u = x /\ v = y
    BY <1>1, <1>2
  <1>4. Digits(n) = <<x, y>>
    BY <1>2, <1>3
  <1>5. Len(Digits(n)) = 2 /\ Len(<<X, Y>>) = 2 /\ DOMAIN <<X, Y>> = 1 .. 2
    BY <1>4
  <1>6. ASSUME NEW i \in 1 .. 2
        PROVE  Digits(n)[i] \in <<X, Y>>[i]
    <2>1. CASE i = 1
      BY <1>1, <1>4, <2>1
    <2>2. CASE i = 2
      BY <1>1, <1>4, <2>2
    <2>3. QED
      BY <2>1, <2>2
  <1>7. QED
    BY <1>5, <1>6 DEF Exactly, BeginsWith

LEMMA WritesThree ==
  ASSUME NEW n \in 100 .. 255, NEW X, NEW Y, NEW Z, Three(n, X, Y, Z)
  PROVE  Exactly(Digits(n), <<X, Y, Z>>)
  <1>1. PICK x \in 1 .. 2, y \in 0 .. 9, z \in 0 .. 9 :
          n = 100 * x + 10 * y + z /\ x \in X /\ y \in Y /\ z \in Z
    BY DEF Three
  <1>2. PICK u \in 1 .. 2, v \in 0 .. 9, w \in 0 .. 9 :
          n = 100 * u + 10 * v + w /\ Digits(n) = <<u, v, w>>
    <2>1. n \in 0 .. 255 /\ ~(n < 10)
      OBVIOUS
    <2>2. ~\E p \in 1 .. 9, q \in 0 .. 9 : n = 10 * p + q
      OBVIOUS
    <2>3. QED
      BY <2>1, <2>2, DigitsOf
  <1>3. u = x /\ v = y /\ w = z
    BY <1>1, <1>2
  <1>4. Digits(n) = <<x, y, z>>
    BY <1>2, <1>3
  <1>5. Len(Digits(n)) = 3 /\ Len(<<X, Y, Z>>) = 3 /\ DOMAIN <<X, Y, Z>> = 1 .. 3
    BY <1>4
  <1>6. ASSUME NEW i \in 1 .. 3
        PROVE  Digits(n)[i] \in <<X, Y, Z>>[i]
    <2>1. CASE i = 1
      BY <1>1, <1>4, <2>1
    <2>2. CASE i = 2
      BY <1>1, <1>4, <2>2
    <2>3. CASE i = 3
      BY <1>1, <1>4, <2>3
    <2>4. QED
      BY <2>1, <2>2, <2>3
  <1>7. QED
    BY <1>5, <1>6 DEF Exactly, BeginsWith

\* The digits a number between 10 and 255 has.
LEMMA HasDigits ==
  ASSUME NEW n \in 10 .. 255
  PROVE  \/ n < 100 /\ \E x \in 1 .. 9, y \in 0 .. 9 : n = 10 * x + y
         \/ n >= 100 /\ \E x \in 1 .. 2, y \in 0 .. 9, z \in 0 .. 9 : n = 100 * x + 10 * y + z
  <1>1. n \in 0 .. 255 /\ ~(n < 10)
    OBVIOUS
  <1>2. \A x \in 1 .. 9, y \in 0 .. 9 : 10 * x + y < 100
    OBVIOUS
  <1>3. \A x \in 1 .. 2, y \in 0 .. 9, z \in 0 .. 9 : 100 * x + 10 * y + z >= 100
    OBVIOUS
  <1>4. QED
    BY <1>1, <1>2, <1>3, DigitsOf

LEMMA OnlyDocumented ==
  ASSUME NEW a, NEW b \in 0 .. 255, is_white_address(a, b)
  PROVE  Documented(a, b) /\ ~(a = 100 /\ b \in Missed)
  <1>1. ASSUME Matches172(b)
        PROVE  b \in 16 .. 31
    <2>1. ASSUME Exactly(Digits(b), <<{1}, 6 .. 9>>)
          PROVE  b \in 16 .. 19
      <3>1. Two(b, {1}, 6 .. 9)
        BY <2>1, ExactlyTwo
      <3>2. QED
        BY <3>1 DEF Two
    <2>2. ASSUME Exactly(Digits(b), <<{2}, 0 .. 9>>)
          PROVE  b \in 20 .. 29
      <3>1. Two(b, {2}, 0 .. 9)
        BY <2>2, ExactlyTwo
      <3>2. QED
        BY <3>1 DEF Two
    <2>3. ASSUME Exactly(Digits(b), <<{3}, 0 .. 1>>)
          PROVE  b \in 30 .. 31
      <3>1. Two(b, {3}, 0 .. 1)
        BY <2>3, ExactlyTwo
      <3>2. QED
        BY <3>1 DEF Two
    <2>4. QED
      BY <1>1, <2>1, <2>2, <2>3 DEF Matches172
  <1>2. ASSUME Matches100(b)
        PROVE  b \in 64 .. 127 /\ b \notin Missed
    <2>1. ASSUME BeginsWith(Digits(b), <<6 .. 9, 4 .. 9>>)
          PROVE  b \in 64 .. 99 /\ b \notin Missed
      <3>1. Two(b, 6 .. 9, 4 .. 9) \/ Three(b, 6 .. 9, 4 .. 9, 0 .. 9)
        BY <2>1, TwoDigits
      <3>2. QED
        BY <3>1 DEF Two, Three, Missed
    <2>2. ASSUME BeginsWith(Digits(b), <<{1}, 0 .. 2, 0 .. 7>>)
          PROVE  b \in 100 .. 127 /\ b \notin Missed
      <3>1. Three(b, {1}, 0 .. 2, 0 .. 7)
        BY <2>2, ThreeDigits
      <3>2. QED
        BY <3>1 DEF Three, Missed
    <2>3. QED
      BY <1>2, <2>1, <2>2 DEF Matches100
  <1>3. ASSUME Exactly(Digits(b), <<{1}, {6}, {8}>>)
        PROVE  b = 168
    <2>1. BeginsWith(Digits(b), <<{1}, {6}, {8}>>)
      BY <1>3 DEF Exactly
    <2>2. Three(b, {1}, {6}, {8})
      BY <2>1, ThreeDigits
    <2>3. QED
      BY <2>2 DEF Three
  <1>4. QED
    BY <1>1, <1>2, <1>3 DEF is_white_address, Documented

LEMMA DocumentedMatch ==
  ASSUME NEW a, NEW b \in 0 .. 255, Documented(a, b), ~(a = 100 /\ b \in Missed)
  PROVE  is_white_address(a, b)
  <1>1. ASSUME b \in 16 .. 31
        PROVE  Matches172(b)
    <2>1. b \in 10 .. 99
      BY <1>1
    <2>2. PICK x \in 1 .. 9, y \in 0 .. 9 : b = 10 * x + y
      BY <2>1, HasDigits
    <2>3. \/ x = 1 /\ y \in 6 .. 9
          \/ x = 2 /\ y \in 0 .. 9
          \/ x = 3 /\ y \in 0 .. 1
      BY <1>1, <2>2
    <2>4. Two(b, {1}, 6 .. 9) \/ Two(b, {2}, 0 .. 9) \/ Two(b, {3}, 0 .. 1)
      BY <2>2, <2>3 DEF Two
    <2>5. QED
      BY <2>1, <2>4, WritesTwo DEF Matches172
  <1>2. ASSUME b \in 64 .. 99, b \notin Missed
        PROVE  BeginsWith(Digits(b), <<6 .. 9, 4 .. 9>>)
    <2>1. b \in 10 .. 99
      BY <1>2
    <2>2. PICK x \in 1 .. 9, y \in 0 .. 9 : b = 10 * x + y
      BY <2>1, HasDigits
    <2>3. x \in 6 .. 9 /\ y \in 4 .. 9
      BY <1>2, <2>2 DEF Missed
    <2>4. Two(b, 6 .. 9, 4 .. 9)
      BY <2>2, <2>3 DEF Two
    <2>5. QED
      BY <2>1, <2>4, WritesTwo DEF Exactly
  <1>3. ASSUME b \in 100 .. 127, b \notin Missed
        PROVE  BeginsWith(Digits(b), <<{1}, 0 .. 2, 0 .. 7>>)
    <2>1. b \in 100 .. 255
      BY <1>3
    <2>2. PICK x \in 1 .. 2, y \in 0 .. 9, z \in 0 .. 9 : b = 100 * x + 10 * y + z
      BY <2>1, HasDigits
    <2>3. x = 1 /\ y \in 0 .. 2 /\ z \in 0 .. 7
      BY <1>3, <2>2 DEF Missed
    <2>4. Three(b, {1}, 0 .. 2, 0 .. 7)
      BY <2>2, <2>3 DEF Three
    <2>5. QED
      BY <2>1, <2>4, WritesThree DEF Exactly
  <1>4. ASSUME b = 168
        PROVE  Exactly(Digits(b), <<{1}, {6}, {8}>>)
    <2>1. Three(b, {1}, {6}, {8})
      BY <1>4 DEF Three
    <2>2. b \in 100 .. 255
      BY <1>4
    <2>3. QED
      BY <2>1, <2>2, WritesThree
  <1>5. ASSUME b \in 64 .. 127, b \notin Missed
        PROVE  Matches100(b)
    BY <1>2, <1>3, <1>5 DEF Matches100
  <1>6. QED
    BY <1>1, <1>4, <1>5 DEF Documented, is_white_address

SecondInv == second \in 0 .. 255

\* The expressions match exactly the addresses of the documented ranges, Missed
\* left out (config.yaml:58-70).
THEOREM WhitelistAsWritten == ConfigurationSpec => []WhitelistIsExact
  <1>1. Init => SecondInv
    BY DEF Init, SecondInv
  <1>2. SecondInv /\ [NextAddress]_vars => SecondInv'
    BY DEF SecondInv, NextAddress, vars
  <1>3. SecondInv => WhitelistIsExact
    BY OnlyDocumented, DocumentedMatch DEF SecondInv, WhitelistIsExact
  <1>4. QED
    BY <1>1, <1>2, <1>3, PTL DEF ConfigurationSpec
=============================================================================
