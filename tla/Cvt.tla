---------------------------------- MODULE Cvt ----------------------------------
(***************************************************************************)
(* Bytes and hexadecimal digits: src/base/tools/Cvt.cpp, built without     *)
(* libsodium.  The digits are computed without a branch; characters and    *)
(* bytes are numbers, and what wraps around in an unsigned int is computed *)
(* modulo 2^16 here: all of it is cut to a byte.                           *)
(***************************************************************************)
EXTENDS Integers, Sequences, Bitwise

Word(n) == (n + 65536) % 65536
Byte(n) == n % 256

\* The complement of a byte: ~n.
Complement(n) == 255 - n

\* 87 + c + (((c - 10) >> 8) & ~38)
Digit(c) == Byte(87 + c + (shiftR(Word(c - 10), 8) & Complement(38)))

\* cvt_bin2hex
bin2hex(bin) ==
  [i \in 1..(2 * Len(bin)) |->
     LET byte == bin[(i + 1) \div 2]
     IN  IF i % 2 = 1 THEN Digit(shiftR(byte, 4)) ELSE Digit(byte & 15)]

\* One character of cvt_hex2bin: its value, and whether it is a digit.
Value(c) ==
  LET c_num    == (c ^^ 48)
      c_num0   == Byte(shiftR(Word(c_num - 10), 8))
      c_alpha  == Byte((c & Complement(32)) + 256 - 55)
      c_alpha0 == Byte(shiftR(Word(c_alpha - 10) ^^ Word(c_alpha - 16), 8))
  IN  [digit |-> (c_num0 | c_alpha0) # 0, val |-> (c_num0 & c_num) | (c_alpha0 & c_alpha)]

Failed == [ok |-> FALSE, bin |-> <<>>]

\* The loop of cvt_hex2bin: acc is c_acc, or -1 while state is 0.
RECURSIVE hex2bin(_, _, _, _, _)
hex2bin(hex, pos, bin, maxlen, acc) ==
  IF pos > Len(hex) THEN IF acc >= 0 THEN Failed ELSE [ok |-> TRUE, bin |-> bin]
  ELSE LET v == Value(hex[pos])
       IN  IF ~ v.digit \/ Len(bin) >= maxlen THEN Failed
           ELSE IF acc < 0 THEN hex2bin(hex, pos + 1, bin, maxlen, Byte(v.val * 16))
           ELSE hex2bin(hex, pos + 1, Append(bin, acc | v.val), maxlen, -1)

\* Cvt::fromHex into a buffer of half the size.
fromHex(hex) == IF hex = <<>> THEN Failed ELSE hex2bin(hex, 1, <<>>, Len(hex) \div 2, -1)

\* Cvt::toHex
toHex(bin) == IF bin = <<>> THEN <<>> ELSE bin2hex(bin)

-----------------------------------------------------------------------------
\* '0'..'9', 'a'..'f' and 'A'..'F'.
Digits == [n \in 0..15 |-> IF n < 10 THEN {48 + n} ELSE {87 + n, 55 + n}]

IsDigit(c) == \E n \in 0..15 : c \in Digits[n]

DigitValue(c) == CHOOSE n \in 0..15 : c \in Digits[n]

(***************************************************************************)
(* The arithmetic gives the digits: a text is converted if and only if it  *)
(* is made of pairs of digits, to the bytes that they stand for, and what  *)
(* toHex() writes in small digits is read back, for every byte.            *)
(***************************************************************************)
Converted(hex) ==
  LET result == fromHex(hex)
  IN  /\ result.ok <=> /\ hex # <<>> /\ Len(hex) % 2 = 0
                       /\ \A i \in DOMAIN hex : IsDigit(hex[i])
      /\ result.ok =>
           /\ result.bin = [i \in 1..(Len(hex) \div 2) |->
                              16 * DigitValue(hex[2 * i - 1]) + DigitValue(hex[2 * i])]
           /\ toHex(result.bin) = [i \in DOMAIN hex |->
                LET n == DigitValue(hex[i]) IN IF n < 10 THEN 48 + n ELSE 87 + n]

=============================================================================
