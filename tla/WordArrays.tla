----------------------------- MODULE WordArrays -----------------------------
(***************************************************************************)
(* The data of crypto-js: an array of words and a count of significant     *)
(* bytes.  What the words hold behind the significant bytes is left over   *)
(* from something else, and every operation has to be safe against it.     *)
(* The encoders turn word arrays into text and back; a text is a sequence  *)
(* of indices into the encoder's alphabet.                                 *)
(*                                                                         *)
(* Sizes are scaled down.  A byte is Quarter^4 values (4^4 in the code),   *)
(* so that a hexadecimal digit is Quarter^2 and a Base64 digit Quarter^3.  *)
(***************************************************************************)
EXTENDS Naturals, Sequences

CONSTANTS
    Quarter,        \* a quarter of a byte has this many values (4 in the code)
    WordBytes       \* 4 in the code

ASSUME SizeAssumption == Quarter \in Nat \ {0, 1} /\ WordBytes \in Nat \ {0}

Base == Quarter * Quarter * Quarter * Quarter
Byte == 0 .. Base - 1

Zeros(n) == [i \in 1 .. n |-> 0]
Up(n)    == ((n + WordBytes - 1) \div WordBytes) * WordBytes

\* words, one byte after the other, and sigBytes
Create(bytes) == [words |-> bytes \o Zeros(Up(Len(bytes)) - Len(bytes)), sigBytes |-> Len(bytes)]
\* A word that is not there counts as 0 wherever it is used.
ByteAt(words, i) == IF i \in DOMAIN words THEN words[i] ELSE 0
Bytes(w)         == [i \in 1 .. w.sigBytes |-> ByteAt(w.words, i)]

clamp(w) == Create(Bytes(w))
\* mutation: the left array is not clamped
concatDirty(a, b) == IF a.sigBytes % WordBytes = 0
                     THEN [words |-> a.words \o b.words, sigBytes |-> a.sigBytes + b.sigBytes]
                     ELSE Create(Bytes(a) \o Bytes(b))
\* byte by byte if the words do not line up, else whole words, all of them
concat(a, b) == IF a.sigBytes % WordBytes = 0
                THEN [words |-> clamp(a).words \o b.words, sigBytes |-> a.sigBytes + b.sigBytes]
                ELSE Create(Bytes(a) \o Bytes(b))

-----------------------------------------------------------------------------
(***************************************************************************)
(* Encoders.                                                               *)
(***************************************************************************)
HexDigit == Quarter * Quarter
HexStringify(w) == [i \in 1 .. 2 * w.sigBytes |->
                       LET b == ByteAt(w.words, (i + 1) \div 2)
                       IN  IF i % 2 = 1 THEN b \div HexDigit ELSE b % HexDigit]
HexParse(s) == Create([i \in 1 .. Len(s) \div 2 |-> s[2 * i - 1] * HexDigit + s[2 * i]])

Digit64 == Quarter * Quarter * Quarter
Pad64   == Digit64              \* the index of "=" in the alphabet
Pow(q)  == CASE q = 0 -> 1 [] q = 1 -> Quarter [] q = 2 -> HexDigit [] OTHER -> Digit64

\* Three bytes are four digits.  Digits of no significant byte are left out.
Base64Stringify(w) ==
    LET c          == clamp(w).words
        triplet(i) == (ByteAt(c, i + 1) * Base + ByteAt(c, i + 2)) * Base + ByteAt(c, i + 3)
        digit(k)   == LET t == triplet(3 * (k \div 4))
                      IN  CASE k % 4 = 0 -> t \div (Digit64 * Digit64 * Digit64)
                            [] k % 4 = 1 -> (t \div (Digit64 * Digit64)) % Digit64
                            [] k % 4 = 2 -> (t \div Digit64) % Digit64
                            [] OTHER     -> t % Digit64
        n          == (4 * w.sigBytes + 2) \div 3
    IN  [k \in 1 .. 4 * ((n + 3) \div 4) |-> IF k <= n THEN digit(k - 1) ELSE Pad64]

\* Every digit but the first of four completes a byte.  Bits that reach over
\* it are those the byte before already has.
Base64Parse(s) ==
    LET n     == IF \E k \in DOMAIN s : s[k] = Pad64
                 THEN (CHOOSE k \in DOMAIN s : s[k] = Pad64 /\ \A l \in 1 .. k - 1 : s[l] # Pad64) - 1
                 ELSE Len(s)
        at(b) == b + (b - 1) \div 3       \* the digit, from 0, that completes byte b
        byte(b) == LET i == at(b) IN
                   (s[i] * Pow(i % 4) + s[i + 1] \div Pow(3 - (i % 4))) % Base
    IN  Create([b \in 1 .. (3 * n) \div 4 |-> byte(b)])
=============================================================================
